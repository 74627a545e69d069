------------------------ MODULE ChangeListenerProofs ------------------------
(***************************************************************************)
(* Proofs about ChangeListener, for any number of tables, calls, changes   *)
(* and reconnects and for every failure of the second connection.          *)
(* Inv is the inductive invariant.                                         *)
(***************************************************************************)
EXTENDS ChangeListener, DbOpsProofs, FiniteSetTheorems, SequenceTheorems, TLAPS

(* The fields of the worker that TypeOK leaves out.                        *)
Hands == [by : 1..MaxCalls, note : Notifications]

Types ==
  /\ TypeOK /\ Sound(conn)
  /\ calls \in 0..MaxCalls /\ connects \in Nat /\ changes \in 0..MaxChanges
  /\ chan \in [table : Tables \cup {NoTable}, ok : BOOLEAN]
  /\ wpc = "call" => hand \in Hands
  /\ log \in Seq(Hands)
  /\ \A o \in owed : o.chan \in Tables /\ o.tx \in 1..changes /\ o.by \in 0..MaxCalls
                     /\ ToSet(o.ops) \subseteq {"INSERT", "UPDATE", "DELETE"}

(* Where the two threads are: a call of the caller has a connection and a  *)
(* committed trigger, and a worker that is running is behind one.          *)
Places ==
  /\ cpc \in {"start", "queue", "wait", "join", "destroy"} => linked
  /\ cpc \in {"start", "queue", "wait"} => arg \in Tables /\ arg \in conn.durable /\ calls > 0
  /\ cpc \in {"queue", "wait"} => wpc # "none"
  /\ wpc \notin {"none", "exited"} => linked
  /\ linked => connects > 0

(* The request: outstanding only while on_change() waits for it, and taken *)
(* to be done only when the channel is listened on.                        *)
Request ==
  /\ pending = {} \/ (pending = {arg} /\ cpc = "wait" /\ ~done)
  /\ cpc = "wait" => (done \/ pending = {arg}) /\ (done /\ result => arg \in listening)
  /\ wpc \in {"listen", "report"} => pending = {arg} /\ chan.table = arg
  /\ wpc = "report" /\ chan.ok => chan.table \in listening

(* On the first connection, who has a handler is wired.  disconnect()      *)
(* keeps the handlers and a later connection starts without LISTEN.        *)
Wired ==
  /\ connects = 0 => \A t \in Tables : handlers[t] = 0
  /\ linked /\ connects <= 1 =>
       \A t \in Tables : handlers[t] # 0 => wpc # "none" /\ t \in conn.durable /\ t \in listening
  /\ newest = handlers
  /\ \A t \in Tables : handlers[t] <= calls

InHand == IF wpc = "call" THEN {hand.note} ELSE {}
Before(m, n) == m.tx < n.tx \/ (m.tx = n.tx /\ m.op # n.op)
Ordered(s) == \A i, j \in DOMAIN s : i < j => Before(s[i], s[j])
Precede(S, T) == \A m \in S, n \in T : Before(m, n)

(* Notifications from the server through libpq to the log, in one order.   *)
InOrder ==
  /\ HandledInOrder /\ Ordered(buffered) /\ Ordered(wire)
  /\ Precede(Handled, InHand)
  /\ Precede(Handled \cup InHand, ToSet(buffered))
  /\ Precede(Handled \cup InHand \cup ToSet(buffered), ToSet(wire))
  /\ \A n \in InFlight \cup Handled : n.tx <= changes

(* What is owed: to a table that has a handler, not older than the one     *)
(* that was registered when the change was committed.                      *)
Owing ==
  /\ \A o \in owed : handlers[o.chan] # 0 /\ o.by <= handlers[o.chan]
  /\ \A o \in owed : \A n \in InFlight : n.tx = o.tx => n.chan = o.chan
  /\ \A o \in owed : wpc = "call" /\ hand.note.tx = o.tx => hand.by >= o.by
  /\ NewHandlerServes

Inv ==
  /\ Types /\ Places /\ Request /\ Wired /\ InOrder /\ Owing
  /\ connects <= 1 => NothingLost

-----------------------------------------------------------------------------
(* Sequences of notifications.                                             *)

(* The items of two sequences, one behind the other.                       *)
LEMMA ToSetConcat ==
  ASSUME NEW S, NEW s \in Seq(S), NEW t \in Seq(S)
  PROVE  ToSet(s \o t) = ToSet(s) \cup ToSet(t)
  <1>1. /\ s \o t \in Seq(S) /\ Len(s \o t) = Len(s) + Len(t)
        /\ \A i \in 1..(Len(s) + Len(t)) : (s \o t)[i] = IF i <= Len(s) THEN s[i] ELSE t[i - Len(s)]
    BY ConcatProperties
  <1>2. DOMAIN (s \o t) = 1..(Len(s) + Len(t)) /\ DOMAIN s = 1..Len(s) /\ DOMAIN t = 1..Len(t)
        /\ Len(s) \in Nat /\ Len(t) \in Nat
    BY <1>1
  <1>3. ASSUME NEW i \in DOMAIN s PROVE s[i] \in ToSet(s \o t)
    <2>1. i \in DOMAIN (s \o t) /\ (s \o t)[i] = s[i]
      BY <1>1, <1>2
    <2>. QED
      BY <2>1 DEF ToSet
  <1>4. ASSUME NEW i \in DOMAIN t PROVE t[i] \in ToSet(s \o t)
    <2>1. i + Len(s) \in DOMAIN (s \o t) /\ ~(i + Len(s) <= Len(s)) /\ (i + Len(s)) - Len(s) = i
      BY <1>2
    <2>2. (s \o t)[i + Len(s)] = t[i]
      BY <1>1, <1>2, <2>1
    <2>. QED
      BY <2>1, <2>2 DEF ToSet
  <1>5. ASSUME NEW i \in DOMAIN (s \o t) PROVE (s \o t)[i] \in ToSet(s) \cup ToSet(t)
    <2>1. CASE i <= Len(s)
      BY <1>1, <1>2, <2>1 DEF ToSet
    <2>2. CASE ~(i <= Len(s))
      <3>1. i - Len(s) \in DOMAIN t /\ (s \o t)[i] = t[i - Len(s)]
        BY <1>1, <1>2, <2>2
      <3>. QED
        BY <3>1 DEF ToSet
    <2>. QED
      BY <2>1, <2>2
  <1>. QED
    BY <1>3, <1>4, <1>5 DEF ToSet

(* An order that reaches over the joint of two sequences.                  *)
LEMMA OrderedConcat ==
  ASSUME NEW S, NEW s \in Seq(S), NEW t \in Seq(S),
         Ordered(s), Ordered(t), Precede(ToSet(s), ToSet(t))
  PROVE  Ordered(s \o t)
  <1>1. /\ Len(s \o t) = Len(s) + Len(t) /\ s \o t \in Seq(S)
        /\ \A i \in 1..(Len(s) + Len(t)) : (s \o t)[i] = IF i <= Len(s) THEN s[i] ELSE t[i - Len(s)]
    BY ConcatProperties
  <1>2. DOMAIN (s \o t) = 1..(Len(s) + Len(t)) /\ DOMAIN s = 1..Len(s) /\ DOMAIN t = 1..Len(t)
        /\ Len(s) \in Nat /\ Len(t) \in Nat
    BY <1>1
  <1>. SUFFICES ASSUME NEW i \in DOMAIN (s \o t), NEW j \in DOMAIN (s \o t), i < j
                PROVE  Before((s \o t)[i], (s \o t)[j])
    BY DEF Ordered
  <1>3. CASE j <= Len(s)
    <2>1. i \in DOMAIN s /\ j \in DOMAIN s /\ (s \o t)[i] = s[i] /\ (s \o t)[j] = s[j]
      BY <1>1, <1>2, <1>3
    <2>. QED
      BY <2>1 DEF Ordered
  <1>4. CASE ~(j <= Len(s)) /\ i <= Len(s)
    <2>1. i \in DOMAIN s /\ j - Len(s) \in DOMAIN t
          /\ (s \o t)[i] = s[i] /\ (s \o t)[j] = t[j - Len(s)]
      BY <1>1, <1>2, <1>4
    <2>2. s[i] \in ToSet(s) /\ t[j - Len(s)] \in ToSet(t)
      BY <2>1 DEF ToSet
    <2>. QED
      BY <2>1, <2>2 DEF Precede
  <1>5. CASE ~(i <= Len(s))
    <2>1. i - Len(s) \in DOMAIN t /\ j - Len(s) \in DOMAIN t /\ i - Len(s) < j - Len(s)
          /\ (s \o t)[i] = t[i - Len(s)] /\ (s \o t)[j] = t[j - Len(s)]
      BY <1>1, <1>2, <1>5
    <2>. QED
      BY <2>1 DEF Ordered
  <1>. QED
    BY <1>2, <1>3, <1>4, <1>5

(* The first item and the others.                                          *)
LEMMA HeadAndTail ==
  ASSUME NEW S, NEW s \in Seq(S), s # <<>>
  PROVE  /\ Head(s) \in S /\ Tail(s) \in Seq(S)
         /\ ToSet(s) = {Head(s)} \cup ToSet(Tail(s))
         /\ Ordered(s) => Ordered(Tail(s)) /\ Precede({Head(s)}, ToSet(Tail(s)))
  <1>1. PICK n : n = Len(s)
    OBVIOUS
  <1>2. n \in Nat \ {0} /\ DOMAIN s = 1..n /\ Head(s) = s[1] /\ Head(s) \in S
    BY <1>1
  <1>3. PICK u : u = Tail(s)
    OBVIOUS
  <1>4. u \in Seq(S) /\ Len(u) = n - 1 /\ \A i \in 1..(n - 1) : u[i] = s[i + 1]
    BY <1>1, <1>3, HeadTailProperties
  <1>5. DOMAIN u = 1..(n - 1)
    BY <1>4
  <1>6. \A i \in 1..n : i = 1 \/ (i - 1 \in 1..(n - 1) /\ (i - 1) + 1 = i)
    BY <1>2
  <1>7. \A i \in 1..(n - 1) : i + 1 \in 1..n /\ 1 < i + 1 /\ 1 \in 1..n
    BY <1>2
  <1>8. ToSet(s) = {s[1]} \cup ToSet(u)
    <2>1. \A i \in 1..n : s[i] \in {s[1]} \cup ToSet(u)
      <3>. TAKE i \in 1..n
      <3>1. CASE i = 1
        BY <3>1
      <3>2. CASE i - 1 \in 1..(n - 1) /\ (i - 1) + 1 = i
        <4>1. u[i - 1] = s[i] /\ i - 1 \in DOMAIN u
          BY <1>4, <1>5, <3>2
        <4>. QED
          BY <4>1 DEF ToSet
      <3>. QED
        BY <1>6, <3>1, <3>2
    <2>2. \A i \in 1..(n - 1) : u[i] \in ToSet(s)
      BY <1>2, <1>4, <1>7 DEF ToSet
    <2>3. s[1] \in ToSet(s)
      BY <1>2 DEF ToSet
    <2>. QED
      BY <1>2, <1>5, <2>1, <2>2, <2>3 DEF ToSet
  <1>9. ASSUME Ordered(s) PROVE Ordered(u) /\ Precede({s[1]}, ToSet(u))
    <2>1. \A i, j \in 1..(n - 1) : i < j => Before(u[i], u[j])
      <3>. TAKE i, j \in 1..(n - 1)
      <3>1. i < j => i + 1 < j + 1
        BY <1>2
      <3>. QED
        BY <1>2, <1>4, <1>7, <1>9, <3>1 DEF Ordered
    <2>2. \A i \in 1..(n - 1) : Before(s[1], u[i])
      BY <1>2, <1>4, <1>7, <1>9 DEF Ordered
    <2>. QED
      BY <1>5, <2>1, <2>2 DEF Ordered, Precede, ToSet
  <1>. QED
    BY <1>2, <1>3, <1>4, <1>8, <1>9

(* The log after one more handler call.                                    *)
LEMMA LogAppended ==
  ASSUME NEW S, NEW l \in Seq(S), NEW h \in S
  PROVE  /\ Append(l, h) \in Seq(S) /\ DOMAIN Append(l, h) = DOMAIN l \cup {Len(l) + 1}
         /\ \A i \in DOMAIN l : Append(l, h)[i] = l[i] /\ i < Len(l) + 1
         /\ Append(l, h)[Len(l) + 1] = h /\ Len(l) \in Nat /\ DOMAIN l = 1..Len(l)
  OBVIOUS

-----------------------------------------------------------------------------
(* create_change_trigger() on the main connection.                         *)

(* An answer on the way of c: what c had committed stays committed, and    *)
(* after a success table t has its trigger, committed or about to be.      *)
OnTheWay(a, c, t) ==
  /\ a.ok \in BOOLEAN /\ a.conn \in Connections(Tables) /\ Sound(a.conn)
  /\ c.durable \subseteq a.conn.durable
  /\ a.ok => a.conn.tx \in {"open", "none"} /\ t \in a.conn.work \cup a.conn.durable

(* One command: after a success, or a rollback().                          *)
LEMMA DdlStep ==
  ASSUME NEW c, NEW t \in Tables, NEW A, NEW d \in DdlAnswers(A, t),
         \A a \in A : /\ a.ok \in BOOLEAN /\ a.conn \in Connections(Tables) /\ Sound(a.conn)
                      /\ c.durable \subseteq a.conn.durable
  PROVE  OnTheWay(d, c, t)
  <1>1. PICK a \in A : d \in IF ~a.ok THEN {a}
                             ELSE UNION { IF s.ok THEN {s}
                                          ELSE { Answer(FALSE, r.conn) : r \in RollbackAnswers(s.conn) }
                                          : s \in StatementAnswers(a.conn, t) }
    BY DEF DdlAnswers
  <1>2. CASE ~a.ok
    BY <1>1, <1>2 DEF OnTheWay
  <1>3. CASE a.ok
    <2>1. PICK s \in StatementAnswers(a.conn, t) :
            d \in IF s.ok THEN {s} ELSE { Answer(FALSE, r.conn) : r \in RollbackAnswers(s.conn) }
      BY <1>1, <1>3
    <2>2. a.conn \in Connections(Tables) /\ Sound(a.conn) /\ c.durable \subseteq a.conn.durable
      BY <1>1
    <2>3. s.ok \in BOOLEAN /\ s.conn \in Connections(Tables)
      BY <2>2, StatementType
    <2>4. /\ Sound(s.conn) /\ c.durable \subseteq s.conn.durable
          /\ s.ok => s.conn.tx \in {"open", "none"} /\ t \in s.conn.work \cup s.conn.durable
      <3>1. \/ s.ok /\ a.conn.tx = "open" /\ Is(s.conn, "open", a.conn.work \cup {t}, a.conn.durable)
            \/ s.ok /\ a.conn.tx = "none" /\ Is(s.conn, "none", a.conn.work, a.conn.durable \cup {t})
            \/ ~s.ok /\ a.conn.tx = "open" /\ Is(s.conn, "aborted", a.conn.work, a.conn.durable)
            \/ ~s.ok /\ Is(s.conn, a.conn.tx, a.conn.work, a.conn.durable)
            \/ ~s.ok /\ Is(s.conn, "lost", {}, a.conn.durable)
        BY <2>2, StatementOutcome
      <3>. QED
        BY <2>2, <3>1, ChangeListenerAssumption DEF Sound, Is
    <2>5. CASE s.ok
      BY <2>1, <2>3, <2>4, <2>5 DEF OnTheWay
    <2>6. CASE ~s.ok
      <3>1. PICK r \in RollbackAnswers(s.conn) : d = Answer(FALSE, r.conn)
        BY <2>1, <2>6
      <3>2. r.conn \in Connections(Tables)
        BY <2>3, RollbackType
      <3>3. Is(r.conn, "open", {}, s.conn.durable) \/ Is(r.conn, "lost", {}, s.conn.durable)
        BY <2>3, <2>4, RollbackOutcome
      <3>4. d.ok = FALSE /\ d.conn = r.conn
        BY <3>1 DEF Answer
      <3>. QED
        BY <2>4, <3>2, <3>3, <3>4, ChangeListenerAssumption DEF OnTheWay, Sound, Is
    <2>. QED
      BY <2>3, <2>5, <2>6
  <1>. QED
    BY <1>1, <1>2, <1>3

(* After a success the trigger is committed.                               *)
LEMMA TriggerCommitted ==
  ASSUME NEW c \in Connections(Tables), Sound(c), NEW t \in Tables, NEW a \in CreateChangeTrigger(c, t)
  PROVE  /\ a.ok \in BOOLEAN /\ a.conn \in Connections(Tables) /\ Sound(a.conn)
         /\ c.durable \subseteq a.conn.durable
         /\ a.ok => t \in a.conn.durable
  <1>1. PICK A1, A2, A3 : /\ A1 = DdlAnswers({Answer(TRUE, c)}, t) /\ A2 = DdlAnswers(A1, t)
                          /\ A3 = DdlAnswers(A2, t)
    OBVIOUS
  <1>2. \A b \in A1 : OnTheWay(b, c, t)
    <2>1. Answer(TRUE, c).ok \in BOOLEAN /\ Answer(TRUE, c).conn = c
      BY AnswerType, AnswerFields
    <2>2. PICK b : b = Answer(TRUE, c)
      OBVIOUS
    <2>3. \A x \in {b} : /\ x.ok \in BOOLEAN /\ x.conn \in Connections(Tables) /\ Sound(x.conn)
                          /\ c.durable \subseteq x.conn.durable
      BY <2>1, <2>2
    <2>4. A1 = DdlAnswers({b}, t)
      BY <1>1, <2>2
    <2>. QED
      BY <2>3, <2>4, DdlStep
  <1>3. \A b \in A2 : OnTheWay(b, c, t)
    <2>1. \A b \in A1 : b.ok \in BOOLEAN /\ b.conn \in Connections(Tables) /\ Sound(b.conn)
                        /\ c.durable \subseteq b.conn.durable
      BY <1>2 DEF OnTheWay
    <2>. QED
      BY <1>1, <2>1, DdlStep
  <1>4. \A b \in A3 : OnTheWay(b, c, t)
    <2>1. \A b \in A2 : b.ok \in BOOLEAN /\ b.conn \in Connections(Tables) /\ Sound(b.conn)
                        /\ c.durable \subseteq b.conn.durable
      BY <1>3 DEF OnTheWay
    <2>. QED
      BY <1>1, <2>1, DdlStep
  <1>5. PICK b \in A3 : a \in IF b.ok THEN CommitAnswers(b.conn) ELSE {b}
    BY <1>1 DEF CreateChangeTrigger, CommittedDdl
  <1>6. OnTheWay(b, c, t)
    BY <1>4
  <1>7. CASE ~b.ok
    BY <1>5, <1>6, <1>7 DEF OnTheWay
  <1>8. CASE b.ok
    <2>1. a \in CommitAnswers(b.conn) /\ b.conn \in Connections(Tables) /\ Sound(b.conn)
      BY <1>5, <1>6, <1>8 DEF OnTheWay
    <2>2. a.ok \in BOOLEAN /\ a.conn \in Connections(Tables)
      BY <2>1, CommitType
    <2>3. \/ a.ok /\ b.conn.tx = "open" /\ Is(a.conn, "open", {}, b.conn.durable \cup b.conn.work)
          \/ a.ok /\ b.conn.tx \in {"aborted", "none"} /\ Is(a.conn, "open", {}, b.conn.durable)
          \/ ~a.ok /\ Is(a.conn, "none", {}, b.conn.durable)
          \/ ~a.ok /\ Is(a.conn, "lost", {}, b.conn.durable)
          \/ ~a.ok /\ Is(a.conn, "lost", {}, b.conn.durable \cup b.conn.work)
      BY <2>1, CommitOutcome, ChangeListenerAssumption
    <2>4. b.conn.tx \in {"open", "none"} /\ t \in b.conn.work \cup b.conn.durable
          /\ (b.conn.tx = "none" => b.conn.work = {}) /\ c.durable \subseteq b.conn.durable
      BY <1>6, <1>8, <2>1 DEF OnTheWay, Sound
    <2>. QED
      BY <2>2, <2>3, <2>4, ChangeListenerAssumption DEF Sound, Is
  <1>. QED
    BY <1>6, <1>7, <1>8 DEF OnTheWay

(* The main connection, whatever the step: what is committed stays, and    *)
(* on_change() goes on only when the trigger is committed.                 *)
LEMMA ConnStep ==
  ASSUME Types, [Next]_vars
  PROVE  /\ conn' \in Connections(Tables) /\ Sound(conn') /\ conn.durable \subseteq conn'.durable
         /\ cpc' = "start" /\ cpc # "start" => arg' \in Tables /\ arg' \in conn'.durable
  <1>1. conn \in Connections(Tables) /\ Sound(conn)
    BY DEF Types, TypeOK
  <1>2. CASE Connect
    <2>1. PICK c : c = [conn EXCEPT !.tx = "none"]
      OBVIOUS
    <2>2. c \in Connections(Tables) /\ c.durable = conn.durable /\ c.tx = "none"
      BY <1>1, <2>1 DEF Connections, TxStates
    <2>3. PICK a \in PsqlBeginCommand(c) : conn' = a.conn
      BY <1>2, <2>1 DEF Connect
    <2>4. a.conn \in Connections(Tables)
      BY <2>2, BeginType
    <2>5. Is(a.conn, "open", c.work, c.durable) \/ Is(a.conn, "lost", {}, c.durable)
      BY <2>2, BeginOutcome
    <2>. QED
      BY <1>2, <2>2, <2>3, <2>4, <2>5, ChangeListenerAssumption DEF Connect, Sound, Is
  <1>3. ASSUME NEW t \in Tables, OnChange(t)
        PROVE  /\ conn' \in Connections(Tables) /\ Sound(conn') /\ conn.durable \subseteq conn'.durable
               /\ cpc' = "start" => arg' \in Tables /\ arg' \in conn'.durable
    <2>1. PICK a \in CreateChangeTrigger(conn, t) : conn' = a.conn /\ cpc' = IF a.ok THEN "start" ELSE "idle"
      BY <1>3 DEF OnChange, Goto
    <2>2. /\ a.ok \in BOOLEAN /\ a.conn \in Connections(Tables) /\ Sound(a.conn)
          /\ conn.durable \subseteq a.conn.durable
          /\ a.ok => t \in a.conn.durable
      BY <1>1, TriggerCommitted
    <2>. QED
      BY <1>3, <2>1, <2>2 DEF OnChange
  <1>4. CASE FinishDisconnect
    <2>1. conn' = RolledBack(conn, "lost") /\ cpc' # "start"
      BY <1>4 DEF FinishDisconnect, Goto
    <2>2. conn' \in Connections(Tables) /\ Is(conn', "lost", {}, conn.durable)
      BY <1>1, <2>1, EndedType, EndedFields DEF TxStates
    <2>. QED
      BY <2>1, <2>2, ChangeListenerAssumption DEF Sound, Is
  <1>5. CASE conn' = conn /\ (cpc' = "start" => cpc = "start")
    BY <1>1, <1>5
  <1>6. CASE \/ Disconnect \/ WorkerJoinable \/ StartListenWorker \/ QueueListen \/ RegisterHandler
             \/ Worker \/ PollFails \/ (\E t \in Tables, ops \in Writes : Change(t, ops)) \/ Halted
             \/ UNCHANGED vars
    <2>1. conn' = conn /\ (cpc' = "start" => cpc = "start")
      BY <1>6 DEF Disconnect, WorkerJoinable, StartListenWorker, QueueListen, RegisterHandler, Worker,
                  LoopHead, RunListen, ReportListen, PollIdle, PollReady, TakeNotification, CallHandler,
                  PollFails, Change, Halted, vars, main, Goto
    <2>. QED
      BY <1>5, <2>1
  <1>. QED
    BY <1>2, <1>3, <1>4, <1>6 DEF Next, Caller

-----------------------------------------------------------------------------
(* The steps, and what each leaves alone.                                  *)

(* The steps by name.                                                      *)
LEMMA NextCases ==
  ASSUME [Next]_vars
  PROVE  \/ Connect \/ (\E t \in Tables : OnChange(t)) \/ Disconnect
         \/ WorkerJoinable \/ StartListenWorker \/ QueueListen \/ RegisterHandler \/ FinishDisconnect
         \/ LoopHead \/ RunListen \/ ReportListen \/ PollIdle \/ PollReady
         \/ TakeNotification \/ CallHandler \/ PollFails
         \/ (\E t \in Tables, ops \in Writes : Change(t, ops)) \/ UNCHANGED vars
  BY DEF Next, Caller, Worker, Halted

(* Who writes the handlers, the log, what is owed and the counters.        *)
LEMMA HistoryFrame ==
  ASSUME [Next]_vars
  PROVE  /\ RegisterHandler \/ (handlers' = handlers /\ newest' = newest)
         /\ CallHandler \/ log' = log
         /\ FinishDisconnect \/ owed' = owed \/ \E t \in Tables, ops \in Writes : Change(t, ops)
         /\ changes' = changes \/ \E t \in Tables, ops \in Writes : Change(t, ops)
         /\ calls' = calls \/ \E t \in Tables : OnChange(t)
         /\ Connect \/ connects' = connects
  BY NextCases DEF Connect, OnChange, Disconnect, WorkerJoinable, StartListenWorker, QueueListen,
     RegisterHandler, FinishDisconnect, LoopHead, RunListen, ReportListen, PollIdle, PollReady,
     TakeNotification, CallHandler, PollFails, Change, vars, history

(* Who writes the notifications on their way.                              *)
LEMMA SessionFrame ==
  ASSUME [Next]_vars
  PROVE  /\ \/ StartListenWorker \/ FinishDisconnect \/ RunListen \/ PollReady
            \/ wire' = wire \/ \E t \in Tables, ops \in Writes : Change(t, ops)
         /\ \/ StartListenWorker \/ FinishDisconnect \/ RunListen \/ PollReady \/ TakeNotification
            \/ buffered' = buffered
         /\ StartListenWorker \/ FinishDisconnect \/ RunListen \/ listening' = listening
         /\ TakeNotification \/ CallHandler \/ hand' = hand
         /\ LoopHead \/ RunListen \/ chan' = chan
  BY NextCases DEF Connect, OnChange, Disconnect, WorkerJoinable, StartListenWorker, QueueListen,
     RegisterHandler, FinishDisconnect, LoopHead, RunListen, ReportListen, PollIdle, PollReady,
     TakeNotification, CallHandler, PollFails, Change, vars, session, worker

(* Who writes the request, the stop flag and the places.                   *)
LEMMA PlacesFrame ==
  ASSUME [Next]_vars
  PROVE  /\ QueueListen \/ ReportListen \/ (pending' = pending /\ done' = done)
         /\ ReportListen \/ result' = result
         /\ stop' = stop \/ stop' = TRUE
         /\ Connect \/ FinishDisconnect \/ linked' = linked
         /\ arg' = arg \/ \E t \in Tables : OnChange(t)
         /\ \/ WorkerJoinable \/ StartListenWorker \/ QueueListen \/ RegisterHandler \/ Disconnect
            \/ FinishDisconnect \/ cpc' = cpc \/ \E t \in Tables : OnChange(t)
         /\ \/ StartListenWorker \/ FinishDisconnect \/ LoopHead \/ RunListen \/ ReportListen
            \/ PollIdle \/ PollReady \/ TakeNotification \/ CallHandler \/ PollFails
            \/ wpc' = wpc
  BY NextCases DEF Connect, OnChange, Disconnect, WorkerJoinable, StartListenWorker, QueueListen,
     RegisterHandler, FinishDisconnect, LoopHead, RunListen, ReportListen, PollIdle, PollReady,
     TakeNotification, CallHandler, PollFails, Change, vars, main, request, worker, Stopped

-----------------------------------------------------------------------------
(* Types.                                                                  *)

(* The members of db_psql and the places of the two threads.               *)
LEMMA MembersTyped ==
  ASSUME Types, Places, Request, [Next]_vars
  PROVE  /\ linked' \in BOOLEAN /\ stop' \in BOOLEAN /\ done' \in BOOLEAN /\ result' \in BOOLEAN
         /\ pending' \in SUBSET Tables /\ Cardinality(pending') <= 1
         /\ arg' \in Tables \cup {NoTable}
         /\ cpc' \in {"idle", "start", "queue", "wait", "join", "destroy", "dead"}
         /\ wpc' \in {"none", "top", "listen", "report", "poll", "drain", "call", "exited"}
         /\ chan' \in [table : Tables \cup {NoTable}, ok : BOOLEAN]
  <1>1. /\ linked \in BOOLEAN /\ stop \in BOOLEAN /\ done \in BOOLEAN /\ result \in BOOLEAN
        /\ pending \in SUBSET Tables /\ Cardinality(pending) <= 1
        /\ arg \in Tables \cup {NoTable}
        /\ cpc \in {"idle", "start", "queue", "wait", "join", "destroy", "dead"}
        /\ wpc \in {"none", "top", "listen", "report", "poll", "drain", "call", "exited"}
        /\ chan \in [table : Tables \cup {NoTable}, ok : BOOLEAN]
    BY DEF Types, TypeOK
  <1>2. linked' \in BOOLEAN /\ stop' \in BOOLEAN
    <2>1. linked' \in {linked, TRUE, FALSE}
      BY PlacesFrame DEF Connect, FinishDisconnect
    <2>. QED
      BY <1>1, <2>1, PlacesFrame
  <1>3. done' \in BOOLEAN
    BY <1>1, PlacesFrame DEF QueueListen, ReportListen
  <1>4. result' \in BOOLEAN
    <2>1. chan.ok \in BOOLEAN
      BY <1>1
    <2>2. result' = result \/ result' = chan.ok
      BY PlacesFrame DEF ReportListen
    <2>. QED
      BY <1>1, <2>1, <2>2, Zenon
  <1>5. pending' \in SUBSET Tables /\ Cardinality(pending') <= 1
    <2>1. CASE QueueListen
      <3>1. pending' = {arg} /\ arg \in Tables
        BY <2>1 DEF QueueListen, Places
      <3>2. Cardinality({arg}) = 1
        BY FS_Singleton
      <3>. QED
        BY <3>1, <3>2
    <2>2. CASE ReportListen
      <3>1. pending' = {} /\ Cardinality({}) = 0
        BY <2>2, FS_EmptySet DEF ReportListen
      <3>. QED
        BY <3>1
    <2>3. CASE pending' = pending
      BY <1>1, <2>3
    <2>. QED
      BY <2>1, <2>2, <2>3, PlacesFrame
  <1>6. arg' \in Tables \cup {NoTable}
    BY <1>1, PlacesFrame DEF OnChange
  <1>7. cpc' \in {"idle", "start", "queue", "wait", "join", "destroy", "dead"}
    BY <1>1, PlacesFrame DEF WorkerJoinable, StartListenWorker, QueueListen, RegisterHandler,
       Disconnect, FinishDisconnect, OnChange, Goto
  <1>8. wpc' \in {"none", "top", "listen", "report", "poll", "drain", "call", "exited"}
    BY <1>1, PlacesFrame DEF StartListenWorker, FinishDisconnect, LoopHead, RunListen, ReportListen,
       PollIdle, PollReady, TakeNotification, CallHandler, PollFails, WorkerAt
  <1>9. chan' \in [table : Tables \cup {NoTable}, ok : BOOLEAN]
    <2>1. CASE LoopHead
      <3>1. pending # {} => (CHOOSE t \in pending : TRUE) \in Tables
        BY <1>1
      <3>2. PICK u : u = CHOOSE t \in pending : TRUE
        OBVIOUS
      <3>3. chan' = chan \/ (u \in Tables /\ chan' = [chan EXCEPT !.table = u])
        BY <2>1, <3>1, <3>2 DEF LoopHead, HasPending
      <3>. QED
        BY <1>1, <3>3
    <2>2. CASE RunListen
      <3>1. PICK ok \in BOOLEAN : chan' = [chan EXCEPT !.ok = ok]
        BY <2>2 DEF RunListen, When
      <3>. QED
        BY <1>1, <3>1
    <2>. QED
      BY <1>1, <2>1, <2>2, SessionFrame
  <1>. QED
    BY <1>2, <1>3, <1>4, <1>5, <1>6, <1>7, <1>8, <1>9

(* The handlers, the counters and the listening session.                   *)
LEMMA TablesTyped ==
  ASSUME Types, Places, Request, [Next]_vars
  PROVE  /\ handlers' \in [Tables -> 0..MaxCalls] /\ listening' \in SUBSET Tables
         /\ calls' \in 0..MaxCalls /\ connects' \in Nat /\ changes' \in 0..MaxChanges
  <1>1. /\ handlers \in [Tables -> 0..MaxCalls] /\ listening \in SUBSET Tables
        /\ calls \in 0..MaxCalls /\ connects \in Nat /\ changes \in 0..MaxChanges
        /\ pending \in SUBSET Tables
        /\ MaxCalls \in Nat /\ MaxChanges \in Nat
    BY ChangeListenerAssumption DEF Types, TypeOK
  <1>2. handlers' \in [Tables -> 0..MaxCalls]
    BY <1>1, HistoryFrame DEF RegisterHandler, Registered
  <1>3. listening' \in SUBSET Tables
    <2>1. RunListen => chan.table \in Tables
      BY <1>1 DEF RunListen, Request
    <2>. QED
      BY <1>1, <2>1, SessionFrame DEF StartListenWorker, FinishDisconnect, RunListen, session
  <1>4. calls' \in 0..MaxCalls
    BY <1>1, HistoryFrame DEF OnChange
  <1>5. connects' \in Nat
    <2>1. connects' = connects \/ connects' = connects + 1
      BY HistoryFrame, Zenon DEF Connect
    <2>. QED
      BY <1>1, <2>1
  <1>6. changes' \in 0..MaxChanges
    BY <1>1, HistoryFrame DEF Change
  <1>. QED
    BY <1>2, <1>3, <1>4, <1>5, <1>6

(* What another session's transaction puts on the wire: notifications of   *)
(* its table and number, every operation once.                             *)
LEMMA NotesSent ==
  ASSUME NEW t \in Tables, NEW ops \in Writes, NEW s \in Delivered(ops), NEW n \in 1..MaxChanges
  PROVE  /\ Notes(t, s, n) \in Seq(Notifications) /\ Ordered(Notes(t, s, n))
         /\ \A m \in ToSet(Notes(t, s, n)) : m.tx = n /\ m.chan = t
         /\ \A op \in ToSet(ops) : [chan |-> t, op |-> op, tx |-> n] \in ToSet(Notes(t, s, n))
         /\ ToSet(ops) \subseteq {"INSERT", "UPDATE", "DELETE"}
  <1>1. ops \in Seq({"INSERT", "UPDATE", "DELETE"})
    BY ChangeListenerAssumption
  <1>2. ToSet(ops) \subseteq {"INSERT", "UPDATE", "DELETE"}
    BY <1>1 DEF ToSet
  <1>3. /\ s \in SeqOf(ToSet(ops), Len(ops)) /\ ToSet(s) = ToSet(ops)
        /\ \A i, j \in DOMAIN s : i < j =>
             \E k \in DOMAIN ops : ops[k] = s[i] /\ \A l \in 1..k : ops[l] # s[j]
    BY DEF Delivered
  <1>4. PICK m \in 0..Len(ops) : s \in [1..m -> ToSet(ops)]
    BY <1>3 DEF SeqOf
  <1>5. m \in Nat
    BY <1>1, <1>4
  <1>6. PICK w : w = Notes(t, s, n)
    OBVIOUS
  <1>7. w = [i \in 1..m |-> [chan |-> t, op |-> s[i], tx |-> n]]
    BY <1>4, <1>6 DEF Notes
  <1>8. \A i \in 1..m : s[i] \in {"INSERT", "UPDATE", "DELETE"}
    BY <1>2, <1>4
  <1>9. \A i \in 1..m : w[i] \in Notifications /\ w[i].tx = n /\ w[i].chan = t /\ w[i].op = s[i]
    BY <1>7, <1>8 DEF Notifications
  <1>10. w \in Seq(Notifications) /\ DOMAIN w = 1..m
    BY <1>5, <1>7, <1>9
  <1>11. \A i, j \in 1..m : i < j => s[i] # s[j]
    <2>. TAKE i, j \in 1..m
    <2>. HAVE i < j
    <2>1. PICK k \in DOMAIN ops : ops[k] = s[i] /\ \A l \in 1..k : ops[l] # s[j]
      BY <1>3, <1>4
    <2>2. k \in 1..k
      BY <1>1, <2>1
    <2>. QED
      BY <2>1, <2>2
  <1>12. Ordered(w)
    BY <1>9, <1>10, <1>11 DEF Ordered, Before
  <1>13. \A x \in ToSet(w) : x.tx = n /\ x.chan = t
    BY <1>9, <1>10 DEF ToSet
  <1>14. \A op \in ToSet(ops) : [chan |-> t, op |-> op, tx |-> n] \in ToSet(w)
    <2>. TAKE op \in ToSet(ops)
    <2>1. PICK i \in 1..m : s[i] = op
      BY <1>3, <1>4 DEF ToSet
    <2>2. w[i] = [chan |-> t, op |-> op, tx |-> n]
      BY <1>7, <2>1
    <2>. QED
      BY <1>10, <2>1, <2>2 DEF ToSet
  <1>. QED
    BY <1>2, <1>6, <1>10, <1>12, <1>13, <1>14

(* The worker is in a handler only because it has just taken one.          *)
LEMMA CallFrame ==
  ASSUME [Next]_vars, wpc' = "call"
  PROVE  TakeNotification \/ (wpc = "call" /\ hand' = hand)
  BY NextCases DEF Connect, OnChange, Disconnect, WorkerJoinable, StartListenWorker, QueueListen,
     RegisterHandler, FinishDisconnect, LoopHead, RunListen, ReportListen, PollIdle, PollReady,
     TakeNotification, CallHandler, PollFails, Change, vars, worker, WorkerAt

(* What TakeNotification takes: the first notification libpq holds.        *)
LEMMA Taken ==
  ASSUME Types, TakeNotification
  PROVE  /\ wire' = wire /\ wpc = "drain"
         /\ \/ buffered = <<>> /\ buffered' = buffered /\ wpc' = "top" /\ hand' = hand
            \/ /\ buffered # <<>> /\ Head(buffered) \in Notifications /\ buffered' = Tail(buffered)
               /\ wpc' = "drain" /\ handlers[Head(buffered).chan] = 0 /\ hand' = hand
            \/ /\ buffered # <<>> /\ Head(buffered) \in Notifications /\ buffered' = Tail(buffered)
               /\ wpc' = "call" /\ handlers[Head(buffered).chan] # 0
               /\ hand' = [by |-> handlers[Head(buffered).chan], note |-> Head(buffered)]
  <1>1. buffered \in Seq(Notifications)
    BY DEF Types, TypeOK
  <1>2. buffered # <<>> => Head(buffered) \in Notifications
    BY <1>1
  <1>. QED
    BY <1>2 DEF TakeNotification, WorkerAt, HandlerOf

(* The notifications on their way and the handler calls.                   *)
LEMMA NotificationsTyped ==
  ASSUME Types, [Next]_vars
  PROVE  /\ wire' \in Seq(Notifications) /\ buffered' \in Seq(Notifications)
         /\ wpc' = "call" => hand' \in Hands
         /\ log' \in Seq(Hands)
  <1>1. /\ wire \in Seq(Notifications) /\ buffered \in Seq(Notifications)
        /\ wpc = "call" => hand \in Hands
        /\ log \in Seq(Hands) /\ changes \in 0..MaxChanges
        /\ handlers \in [Tables -> 0..MaxCalls] /\ MaxCalls \in Nat /\ MaxChanges \in Nat
    BY ChangeListenerAssumption DEF Types, TypeOK
  <1>2. <<>> \in Seq(Notifications) /\ Read \in Seq(Notifications)
    BY <1>1 DEF Read
  <1>3. wire' \in Seq(Notifications)
    <2>1. ASSUME NEW t \in Tables, NEW ops \in Writes, Change(t, ops)
          PROVE  wire' \in Seq(Notifications)
      <3>1. PICK s \in Delivered(ops) :
              wire' = wire \/ wire' = wire \o Notes(t, s, changes + 1)
        BY <2>1 DEF Change
      <3>2. changes + 1 \in 1..MaxChanges
        BY <1>1, <2>1 DEF Change
      <3>3. Notes(t, s, changes + 1) \in Seq(Notifications)
        BY <3>2, NotesSent
      <3>4. PICK w : w = Notes(t, s, changes + 1)
        OBVIOUS
      <3>5. wire \o w \in Seq(Notifications)
        <4>1. wire \in Seq(Notifications) /\ w \in Seq(Notifications)
          BY <1>1, <3>3, <3>4
        <4>. QED
          BY <4>1
      <3>. QED
        BY <1>1, <3>1, <3>4, <3>5, Zenon
    <2>2. wire' \in {wire, <<>>} \/ \E t \in Tables, ops \in Writes : Change(t, ops)
      BY SessionFrame DEF StartListenWorker, FinishDisconnect, RunListen, PollReady, session
    <2>. QED
      BY <1>1, <1>2, <2>1, <2>2
  <1>4. buffered' \in Seq(Notifications)
    <2>1. CASE TakeNotification
      <3>1. buffered' = buffered \/ (buffered # <<>> /\ buffered' = Tail(buffered))
        BY <2>1, Taken
      <3>2. buffered # <<>> => Tail(buffered) \in Seq(Notifications)
        <4>1. buffered \in Seq(Notifications)
          BY <1>1
        <4>. QED
          BY <4>1
      <3>. QED
        BY <1>1, <3>1, <3>2, Zenon
    <2>2. buffered' \in {buffered, <<>>, Read} \/ TakeNotification
      BY SessionFrame DEF StartListenWorker, FinishDisconnect, RunListen, PollReady, session
    <2>. QED
      BY <1>1, <1>2, <2>1, <2>2
  <1>5. wpc' = "call" => hand' \in Hands
    <2>. HAVE wpc' = "call"
    <2>1. CASE TakeNotification
      <3>1. /\ Head(buffered) \in Notifications /\ handlers[Head(buffered).chan] # 0
            /\ hand' = [by |-> handlers[Head(buffered).chan], note |-> Head(buffered)]
        BY <2>1, Taken
      <3>2. handlers[Head(buffered).chan] \in 0..MaxCalls
        BY <1>1, <3>1 DEF Notifications
      <3>3. handlers[Head(buffered).chan] \in 1..MaxCalls
        BY <1>1, <3>1, <3>2
      <3>. QED
        BY <3>1, <3>3 DEF Hands
    <2>. QED
      BY <1>1, <2>1, CallFrame
  <1>6. log' \in Seq(Hands)
    <2>1. CASE CallHandler
      <3>1. hand \in Hands /\ log' = Append(log, hand)
        BY <1>1, <2>1 DEF CallHandler
      <3>. QED
        BY <1>1, <3>1
    <2>. QED
      BY <1>1, <2>1, HistoryFrame
  <1>. QED
    BY <1>3, <1>4, <1>5, <1>6

(* What is owed.                                                           *)
LEMMA OwedTyped ==
  ASSUME Types, Wired, [Next]_vars, NEW o \in owed'
  PROVE  /\ o.chan \in Tables /\ o.tx \in 1..changes' /\ o.by \in 0..MaxCalls
         /\ ToSet(o.ops) \subseteq {"INSERT", "UPDATE", "DELETE"}
  <1>1. /\ \A p \in owed : p.chan \in Tables /\ p.tx \in 1..changes /\ p.by \in 0..MaxCalls
                           /\ ToSet(p.ops) \subseteq {"INSERT", "UPDATE", "DELETE"}
        /\ handlers \in [Tables -> 0..MaxCalls] /\ newest = handlers
        /\ changes \in 0..MaxChanges /\ MaxChanges \in Nat
    BY ChangeListenerAssumption DEF Types, TypeOK, Wired
  <1>2. changes' = changes \/ changes' = changes + 1
    BY HistoryFrame DEF Change
  <1>3. 1..changes \subseteq 1..changes'
    BY <1>1, <1>2
  <1>4. CASE o \in owed
    BY <1>1, <1>3, <1>4
  <1>5. ASSUME NEW t \in Tables, NEW ops \in Writes, Change(t, ops), o \notin owed
        PROVE  /\ o.chan \in Tables /\ o.tx \in 1..changes' /\ o.by \in 0..MaxCalls
               /\ ToSet(o.ops) \subseteq {"INSERT", "UPDATE", "DELETE"}
    <2>1. o = [chan |-> t, ops |-> ops, tx |-> changes + 1, by |-> newest[t]]
      BY <1>5 DEF Change
    <2>2. changes + 1 = changes' /\ changes' \in 1..changes'
      BY <1>1, <1>5 DEF Change
    <2>3. PICK s \in Delivered(ops) : TRUE
      BY <1>5 DEF Change
    <2>4. changes + 1 \in 1..MaxChanges
      BY <1>1, <1>5 DEF Change
    <2>5. ToSet(ops) \subseteq {"INSERT", "UPDATE", "DELETE"}
      BY <2>3, <2>4, NotesSent
    <2>. QED
      BY <1>1, <2>1, <2>2, <2>5
  <1>6. CASE FinishDisconnect
    BY <1>6 DEF FinishDisconnect
  <1>. QED
    BY <1>4, <1>5, <1>6, HistoryFrame

(* Every step keeps the types.                                             *)
LEMMA TypesStep ==
  ASSUME Types, Places, Request, Wired, [Next]_vars
  PROVE  Types'
  <1>1. TypeOK'
    BY MembersTyped, TablesTyped, NotificationsTyped, ConnStep DEF TypeOK
  <1>. QED
    BY <1>1, MembersTyped, TablesTyped, NotificationsTyped, ConnStep, OwedTyped DEF Types

-----------------------------------------------------------------------------
(* The two threads.                                                        *)

(* The caller's next place.                                                *)
LEMMA CallerStep ==
  ASSUME [Next]_vars
  PROVE  /\ cpc' = "start" => cpc = "start" \/ \E t \in Tables : OnChange(t)
         /\ cpc' = "queue" => cpc = "queue" \/ (cpc = "start" /\ wpc' # "none")
         /\ cpc' = "wait" => cpc = "wait" \/ QueueListen
         /\ cpc' \in {"join", "destroy"} => cpc = cpc' \/ (cpc = "idle" /\ linked)
         /\ wpc' = "none" => wpc = "none" \/ cpc' \in {"idle", "dead"}
  BY NextCases DEF Connect, OnChange, Disconnect, WorkerJoinable, StartListenWorker, QueueListen,
     RegisterHandler, FinishDisconnect, LoopHead, RunListen, ReportListen, PollIdle, PollReady,
     TakeNotification, CallHandler, PollFails, Change, vars, worker, Goto, WorkerAt

(* The worker's next place, and what the caller's call keeps meanwhile.    *)
LEMMA WorkerStep ==
  ASSUME [Next]_vars
  PROVE  /\ wpc' \notin {"none", "exited"} => wpc \notin {"none", "exited"} \/ StartListenWorker
         /\ wpc' = "none" => wpc = "none" \/ FinishDisconnect
         /\ wpc' = "listen" => (wpc = "listen" /\ chan' = chan) \/ LoopHead
         /\ wpc' = "report" => (wpc = "report" /\ chan' = chan) \/ RunListen
         /\ listening \subseteq listening' \/ StartListenWorker \/ FinishDisconnect
         /\ cpc = "wait" => cpc' = "wait" \/ RegisterHandler
         /\ cpc # "idle" => arg' = arg /\ calls' = calls
  BY NextCases DEF Connect, OnChange, Disconnect, WorkerJoinable, StartListenWorker, QueueListen,
     RegisterHandler, FinishDisconnect, LoopHead, RunListen, ReportListen, PollIdle, PollReady,
     TakeNotification, CallHandler, PollFails, Change, vars, worker, session, history, Goto, WorkerAt

(* A call of the caller keeps its connection, its trigger and its worker.  *)
LEMMA PlacesStep ==
  ASSUME Types, Places, [Next]_vars
  PROVE  Places'
  <1>1. /\ cpc \in {"start", "queue", "wait", "join", "destroy"} => linked
        /\ cpc \in {"start", "queue", "wait"} => arg \in Tables /\ arg \in conn.durable /\ calls > 0
        /\ cpc \in {"queue", "wait"} => wpc # "none"
        /\ wpc \notin {"none", "exited"} => linked
        /\ linked => connects > 0
        /\ calls \in Nat /\ connects \in Nat
    BY ChangeListenerAssumption DEF Places, Types
  <1>2. FinishDisconnect => wpc' = "none" /\ cpc' \in {"idle", "dead"} /\ linked' = FALSE
    BY DEF FinishDisconnect, Joined, Goto
  <1>3. Connect => linked' = TRUE /\ connects' = connects + 1 /\ cpc' = cpc /\ wpc' = wpc
    BY Zenon DEF Connect, worker
  <1>4. StartListenWorker => cpc = "start" /\ linked' = linked
    BY DEF StartListenWorker, main
  <1>5. QueueListen => cpc = "queue" /\ wpc' = wpc
    BY DEF QueueListen, worker
  <1>6. \A t \in Tables : OnChange(t) => linked /\ linked' = linked /\ calls' = calls + 1
    BY Zenon DEF OnChange
  <1>7. cpc' \in {"start", "queue", "wait", "join", "destroy"} => linked'
    <2>1. cpc' \in {"start", "queue", "wait", "join", "destroy"} => linked
      BY <1>1, <1>5, <1>6, CallerStep
    <2>. QED
      BY <1>2, <1>3, <2>1, PlacesFrame
  <1>8. cpc' \in {"start", "queue", "wait"} => arg' \in Tables /\ arg' \in conn'.durable /\ calls' > 0
    <2>1. CASE cpc \in {"start", "queue", "wait"}
      BY <1>1, <2>1, WorkerStep, ConnStep
    <2>2. CASE cpc' = "start" /\ cpc # "start"
      <3>1. calls' = calls + 1
        BY <1>6, <2>2, CallerStep
      <3>. QED
        BY <1>1, <2>2, <3>1, ConnStep
    <2>. QED
      BY <1>5, <2>1, <2>2, CallerStep
  <1>9. cpc' \in {"queue", "wait"} => wpc' # "none"
    BY <1>1, <1>5, CallerStep
  <1>10. wpc' \notin {"none", "exited"} => linked'
    BY <1>1, <1>2, <1>3, <1>4, WorkerStep, PlacesFrame
  <1>11. linked' => connects' > 0
    <2>1. CASE Connect
      BY <1>1, <1>3, <2>1
    <2>2. CASE FinishDisconnect
      BY <1>2, <2>2
    <2>3. CASE linked' = linked /\ connects' = connects
      BY <1>1, <2>3
    <2>. QED
      BY <2>1, <2>2, <2>3, PlacesFrame, HistoryFrame
  <1>. QED
    BY <1>7, <1>8, <1>9, <1>10, <1>11 DEF Places

(* The request of the waiting call is queued until the worker reports on   *)
(* it, whatever the worker is doing when it is queued.                     *)
LEMMA RequestStep ==
  ASSUME Types, Places, Request, [Next]_vars
  PROVE  Request'
  <1>1. /\ pending = {} \/ (pending = {arg} /\ cpc = "wait" /\ ~done)
        /\ cpc = "wait" => (done \/ pending = {arg}) /\ (done /\ result => arg \in listening)
        /\ wpc \in {"listen", "report"} => pending = {arg} /\ chan.table = arg
        /\ wpc = "report" /\ chan.ok => chan.table \in listening
        /\ chan \in [table : Tables \cup {NoTable}, ok : BOOLEAN]
        /\ cpc = "wait" => wpc # "none"
    BY DEF Request, Types, Places
  <1>2. QueueListen => /\ cpc = "queue" /\ pending' = {arg} /\ done' = FALSE /\ cpc' = "wait"
                       /\ arg' = arg /\ wpc' = wpc /\ chan' = chan
    BY DEF QueueListen, Goto, worker
  <1>3. ReportListen => /\ wpc = "report" /\ pending' = {} /\ done' = TRUE /\ result' = chan.ok
                        /\ wpc' = "poll" /\ listening' = listening /\ arg' = arg
    BY DEF ReportListen, WorkerAt, session
  <1>4. RegisterHandler => done /\ wpc' = wpc /\ pending' = pending /\ cpc' = "idle"
    BY DEF RegisterHandler, worker, request, Goto
  <1>5. StartListenWorker => cpc = "start" /\ wpc = "none"
    BY DEF StartListenWorker
  <1>6. FinishDisconnect => cpc \in {"join", "destroy"} /\ wpc' = "none"
    BY DEF FinishDisconnect, Joined
  <1>7. LoopHead => /\ pending' = pending /\ cpc' = cpc /\ arg' = arg
                    /\ wpc' = "listen" => pending # {} /\ chan' = [chan EXCEPT !.table = CHOOSE t \in pending : TRUE]
    BY DEF LoopHead, request, HasPending, WorkerAt
  <1>8. RunListen => /\ wpc = "listen" /\ pending' = pending /\ arg' = arg
                     /\ \E ok \in BOOLEAN : /\ chan' = [chan EXCEPT !.ok = ok]
                                            /\ ok => listening' = listening \cup {chan.table}
    BY DEF RunListen, When, request
  <1>9. pending' = {} \/ (pending' = {arg'} /\ cpc' = "wait" /\ ~done')
    <2>1. CASE pending' = pending /\ done' = done
      BY <1>1, <1>4, <2>1, WorkerStep
    <2>. QED
      BY <1>2, <1>3, <2>1, PlacesFrame
  <1>10. cpc' = "wait" => (done' \/ pending' = {arg'}) /\ (done' /\ result' => arg' \in listening')
    <2>1. CASE cpc = "wait" /\ ReportListen
      BY <1>1, <1>3, <2>1
    <2>2. CASE cpc = "wait" /\ ~ReportListen /\ ~QueueListen
      <3>1. pending' = pending /\ done' = done /\ result' = result /\ arg' = arg
            /\ listening \subseteq listening'
        BY <1>5, <1>6, <2>2, PlacesFrame, WorkerStep
      <3>. QED
        BY <1>1, <2>2, <3>1
    <2>. QED
      BY <1>2, <2>1, <2>2, CallerStep
  <1>11. wpc' \in {"listen", "report"} => pending' = {arg'} /\ chan'.table = arg'
    <2>1. CASE LoopHead /\ wpc' = "listen"
      <3>1. pending = {arg}
        BY <1>1, <1>7, <2>1
      <3>2. (CHOOSE t \in pending : TRUE) = arg
        BY <3>1
      <3>. QED
        BY <1>1, <1>7, <2>1, <3>1, <3>2
    <2>2. CASE RunListen
      <3>1. chan'.table = chan.table
        BY <1>1, <1>8, <2>2
      <3>. QED
        BY <1>1, <1>8, <2>2, <3>1
    <2>3. CASE wpc \in {"listen", "report"} /\ wpc' \in {"listen", "report"} /\ chan' = chan
      <3>1. cpc = "wait"
        BY <1>1, <2>3
      <3>2. arg' = arg /\ pending' = pending
        BY <1>2, <1>3, <2>3, <3>1, WorkerStep, PlacesFrame
      <3>. QED
        BY <1>1, <2>3, <3>2
    <2>. QED
      BY <2>1, <2>2, <2>3, WorkerStep
  <1>12. wpc' = "report" /\ chan'.ok => chan'.table \in listening'
    <2>1. CASE RunListen
      <3>1. PICK ok \in BOOLEAN : /\ chan' = [chan EXCEPT !.ok = ok]
                                  /\ ok => listening' = listening \cup {chan.table}
        BY <1>8, <2>1
      <3>2. chan'.ok = ok /\ chan'.table = chan.table
        BY <1>1, <3>1
      <3>. QED
        BY <3>1, <3>2
    <2>2. CASE wpc = "report" /\ chan' = chan /\ wpc' = "report"
      BY <1>1, <1>5, <1>6, <2>2, WorkerStep
    <2>. QED
      BY <2>1, <2>2, WorkerStep
  <1>. QED
    BY <1>9, <1>10, <1>11, <1>12 DEF Request

(* A handler is registered behind a wired table, and on the first          *)
(* connection nothing unwires it.                                          *)
LEMMA WiredStep ==
  ASSUME Types, Places, Request, Wired, [Next]_vars
  PROVE  Wired'
  <1>1. /\ connects = 0 => \A t \in Tables : handlers[t] = 0
        /\ linked /\ connects <= 1 =>
             \A t \in Tables : handlers[t] # 0 => wpc # "none" /\ t \in conn.durable /\ t \in listening
        /\ newest = handlers
        /\ \A t \in Tables : handlers[t] <= calls
        /\ connects \in Nat /\ calls \in Nat /\ handlers \in [Tables -> 0..MaxCalls]
        /\ MaxCalls \in Nat
    BY ChangeListenerAssumption DEF Wired, Types, TypeOK
  <1>2. RegisterHandler => /\ cpc = "wait" /\ linked /\ connects > 0 /\ arg \in Tables /\ arg \in conn.durable
                           /\ wpc # "none" /\ (result => arg \in listening)
                           /\ conn' = conn /\ listening' = listening /\ wpc' = wpc /\ calls' = calls
                           /\ handlers' = (IF result THEN [handlers EXCEPT ![arg] = calls] ELSE handlers)
                           /\ newest' = IF result THEN [newest EXCEPT ![arg] = calls] ELSE newest
    BY DEF RegisterHandler, Registered, Places, Request, main, session, worker
  <1>3. calls' = calls \/ calls' = calls + 1
    BY HistoryFrame DEF OnChange
  <1>4. \A t \in Tables : \/ handlers'[t] = handlers[t]
                          \/ RegisterHandler /\ result /\ t = arg /\ handlers'[t] = calls
    BY <1>1, <1>2, HistoryFrame
  <1>5. newest' = handlers'
    BY <1>1, <1>2, HistoryFrame
  <1>6. \A t \in Tables : handlers'[t] <= calls'
    BY <1>1, <1>2, <1>3, <1>4
  <1>7. Connect => connects' = connects + 1
    BY Zenon DEF Connect
  <1>8. connects' = 0 => \A t \in Tables : handlers'[t] = 0
    BY <1>1, <1>2, <1>4, <1>7, HistoryFrame
  <1>9. ASSUME linked', connects' <= 1, NEW t \in Tables, handlers'[t] # 0
        PROVE  wpc' # "none" /\ t \in conn'.durable /\ t \in listening'
    <2>1. CASE Connect
      BY <1>1, <1>7, <1>9, <2>1, HistoryFrame DEF Connect, RegisterHandler
    <2>2. CASE RegisterHandler
      <3>1. linked' = linked /\ connects' = connects
        BY <2>2 DEF RegisterHandler, main
      <3>2. CASE handlers'[t] = handlers[t]
        BY <1>1, <1>2, <1>9, <2>2, <3>1, <3>2
      <3>3. CASE result /\ t = arg
        BY <1>2, <2>2, <3>3
      <3>. QED
        BY <1>4, <3>2, <3>3
    <2>3. CASE ~Connect /\ ~RegisterHandler
      <3>1. ~FinishDisconnect
        BY <1>9 DEF FinishDisconnect
      <3>2. linked' = linked /\ connects' = connects /\ handlers' = handlers
        BY <2>3, <3>1, PlacesFrame, HistoryFrame
      <3>3. wpc # "none" /\ t \in conn.durable /\ t \in listening
        BY <1>1, <1>9, <3>2
      <3>4. ~StartListenWorker
        BY <3>3 DEF StartListenWorker
      <3>. QED
        BY <3>1, <3>3, <3>4, WorkerStep, ConnStep
    <2>. QED
      BY <2>1, <2>2, <2>3
  <1>. QED
    BY <1>5, <1>6, <1>8, <1>9 DEF Wired

-----------------------------------------------------------------------------
(* The way of a notification.                                              *)

(* What a step does to it: nothing; libpq reads the socket; the session is *)
(* replaced; a notification without a handler is dropped; one is taken for *)
(* its handler; the handler runs; the server sends.                        *)
Rest == wire' = wire /\ buffered' = buffered /\ InHand' = InHand /\ log' = log
ReadAll == wire' = <<>> /\ buffered' = buffered \o wire /\ InHand' = InHand /\ log' = log
Cleared ==
  /\ StartListenWorker \/ FinishDisconnect
  /\ wire' = <<>> /\ buffered' = <<>> /\ InHand' = InHand /\ log' = log
Dropped ==
  /\ TakeNotification /\ buffered # <<>> /\ handlers[Head(buffered).chan] = 0
  /\ wire' = wire /\ buffered' = Tail(buffered) /\ InHand = {} /\ InHand' = {} /\ log' = log
TakenUp ==
  /\ TakeNotification /\ buffered # <<>>
  /\ wpc' = "call" /\ hand' = [by |-> handlers[Head(buffered).chan], note |-> Head(buffered)]
  /\ wire' = wire /\ buffered' = Tail(buffered) /\ InHand = {} /\ InHand' = {Head(buffered)} /\ log' = log
Called ==
  /\ CallHandler /\ InHand = {hand.note} /\ hand \in Hands
  /\ wire' = wire /\ buffered' = buffered /\ InHand' = {} /\ log' = Append(log, hand)
Sent ==
  /\ \E t \in Tables, ops \in Writes : Change(t, ops)
  /\ changes' = changes + 1 /\ buffered' = buffered /\ InHand' = InHand /\ log' = log

(* Every step does one of these.                                           *)
LEMMA Flow ==
  ASSUME Types, [Next]_vars
  PROVE  Rest \/ ReadAll \/ Cleared \/ Dropped \/ TakenUp \/ Called \/ Sent
  <1>1. ~TakeNotification /\ ~CallHandler => InHand' = InHand
    <2>1. ~TakeNotification /\ ~CallHandler => (wpc = "call" => wpc' = "call") /\ hand' = hand
      BY NextCases DEF Connect, OnChange, Disconnect, WorkerJoinable, StartListenWorker, QueueListen,
         RegisterHandler, FinishDisconnect, Joined, LoopHead, RunListen, ReportListen, PollIdle, PollReady,
         PollFails, Change, vars, worker, WorkerAt
    <2>2. ~TakeNotification => (wpc' = "call" => wpc = "call")
      BY CallFrame
    <2>. QED
      BY <2>1, <2>2 DEF InHand
  <1>2. CASE TakeNotification
    <2>1. log' = log /\ InHand = {}
      BY <1>2 DEF TakeNotification, history, InHand
    <2>2. CASE buffered = <<>> /\ buffered' = buffered /\ wpc' = "top" /\ wire' = wire
      BY <2>1, <2>2 DEF Rest, InHand
    <2>3. CASE /\ buffered # <<>> /\ buffered' = Tail(buffered) /\ wire' = wire
               /\ wpc' = "drain" /\ handlers[Head(buffered).chan] = 0
      BY <1>2, <2>1, <2>3 DEF Dropped, InHand
    <2>4. CASE /\ buffered # <<>> /\ buffered' = Tail(buffered) /\ wire' = wire /\ wpc' = "call"
               /\ hand' = [by |-> handlers[Head(buffered).chan], note |-> Head(buffered)]
      BY <1>2, <2>1, <2>4 DEF TakenUp, InHand
    <2>. QED
      BY <1>2, <2>2, <2>3, <2>4, Taken
  <1>3. CASE CallHandler
    <2>1. wpc = "call" /\ wpc' = "drain" /\ log' = Append(log, hand) /\ wire' = wire /\ buffered' = buffered
      BY <1>3 DEF CallHandler, WorkerAt, session
    <2>2. hand \in Hands
      BY <2>1 DEF Types
    <2>. QED
      BY <1>3, <2>1, <2>2 DEF Called, InHand
  <1>4. CASE ~TakeNotification /\ ~CallHandler
    <2>1. InHand' = InHand /\ log' = log
      BY <1>1, <1>4, HistoryFrame
    <2>2. CASE RunListen \/ PollReady
      BY <2>1, <2>2 DEF ReadAll, RunListen, PollReady, Read
    <2>3. CASE FinishDisconnect
      BY <2>1, <2>3 DEF Cleared, FinishDisconnect
    <2>4. CASE StartListenWorker
      <3>1. (wire' = <<>> /\ buffered' = <<>>) \/ (wire' = wire /\ buffered' = buffered)
        BY <2>4 DEF StartListenWorker, session
      <3>. QED
        BY <2>1, <2>4, <3>1 DEF Cleared, Rest
    <2>5. CASE \E t \in Tables, ops \in Writes : Change(t, ops)
      <3>1. changes' = changes + 1 /\ buffered' = buffered
        BY <2>5 DEF Change
      <3>. QED
        BY <2>1, <2>5, <3>1 DEF Sent
    <2>6. CASE wire' = wire /\ buffered' = buffered
      BY <2>1, <2>6 DEF Rest
    <2>. QED
      BY <1>4, <2>2, <2>3, <2>4, <2>5, <2>6, SessionFrame
  <1>. QED
    BY <1>2, <1>3, <1>4

(* What the server sends is behind everything it sent before.              *)
LEMMA SentStep ==
  ASSUME Types, Sent
  PROVE  \E w \in Seq(Notifications) :
           /\ wire' = wire \o w /\ Ordered(w)
           /\ \A n \in ToSet(w) : n.tx = changes + 1
  <1>1. PICK t \in Tables, ops \in Writes : Change(t, ops)
    BY DEF Sent
  <1>2. /\ wire \in Seq(Notifications) /\ changes \in 0..MaxChanges /\ MaxChanges \in Nat
    BY ChangeListenerAssumption DEF Types, TypeOK
  <1>3. changes + 1 \in 1..MaxChanges
    BY <1>1, <1>2 DEF Change
  <1>4. PICK s \in Delivered(ops) :
          wire' = wire \/ wire' = wire \o Notes(t, s, changes + 1)
    BY <1>1 DEF Change
  <1>5. PICK w : w = Notes(t, s, changes + 1)
    OBVIOUS
  <1>6. w \in Seq(Notifications) /\ Ordered(w) /\ \A n \in ToSet(w) : n.tx = changes + 1
    BY <1>3, <1>5, NotesSent
  <1>7. CASE wire' = wire
    <2>1. wire = wire \o <<>> /\ <<>> \in Seq(Notifications) /\ ToSet(<<>>) = {}
      BY <1>2 DEF ToSet
    <2>2. Ordered(<<>>)
      BY DEF Ordered
    <2>. QED
      BY <1>7, <2>1, <2>2
  <1>. QED
    BY <1>4, <1>5, <1>6, <1>7

(* The notifications that were handled.                                    *)
LEMMA HandledStep ==
  ASSUME Types, [Next]_vars
  PROVE  /\ log' = log => Handled' = Handled
         /\ Called => Handled' = Handled \cup InHand
         /\ Handled \subseteq Notifications /\ InHand \subseteq Notifications
         /\ ToSet(wire) \subseteq Notifications /\ ToSet(buffered) \subseteq Notifications
  <1>1. log \in Seq(Hands) /\ (wpc = "call" => hand \in Hands)
        /\ wire \in Seq(Notifications) /\ buffered \in Seq(Notifications)
    BY DEF Types, TypeOK
  <1>2. Handled \subseteq Notifications /\ InHand \subseteq Notifications
    <2>1. \A i \in DOMAIN log : log[i] \in Hands
      BY <1>1
    <2>2. \A h \in Hands : h.note \in Notifications
      BY DEF Hands
    <2>. QED
      BY <1>1, <2>1, <2>2 DEF Handled, InHand
  <1>3. ToSet(wire) \subseteq Notifications /\ ToSet(buffered) \subseteq Notifications
    BY <1>1 DEF ToSet
  <1>4. log' = log => Handled' = Handled
    BY DEF Handled
  <1>5. ASSUME Called PROVE Handled' = Handled \cup InHand
    <2>1. PICK l : l = Append(log, hand)
      OBVIOUS
    <2>2. log' = l /\ hand \in Hands /\ InHand = {hand.note}
      BY <1>5, <2>1 DEF Called
    <2>3. /\ DOMAIN l = DOMAIN log \cup {Len(log) + 1} /\ l[Len(log) + 1] = hand
          /\ \A i \in DOMAIN log : l[i] = log[i]
      BY <1>1, <2>1, <2>2, LogAppended
    <2>4. Handled' = {l[i].note : i \in DOMAIN l}
      BY <2>2 DEF Handled
    <2>. QED
      BY <2>2, <2>3, <2>4 DEF Handled
  <1>. QED
    BY <1>2, <1>3, <1>4, <1>5

(* Where a notification is on its way, before and after a step.            *)
LEMMA InFlightIs ==
  /\ InFlight = ToSet(wire) \cup ToSet(buffered) \cup InHand
  /\ InFlight' = ToSet(wire') \cup ToSet(buffered') \cup InHand'
  BY DEF InFlight, InHand

(* Nothing overtakes: the log, the handler call, libpq's buffer and the    *)
(* socket stay in the order of the commits.                                *)
LEMMA InOrderStep ==
  ASSUME Types, InOrder, [Next]_vars
  PROVE  InOrder'
  <1>1. /\ HandledInOrder /\ Ordered(buffered) /\ Ordered(wire)
        /\ Precede(Handled, InHand)
        /\ Precede(Handled \cup InHand, ToSet(buffered))
        /\ Precede(Handled \cup InHand \cup ToSet(buffered), ToSet(wire))
        /\ \A n \in ToSet(wire) \cup ToSet(buffered) \cup InHand \cup Handled : n.tx <= changes
    BY InFlightIs DEF InOrder
  <1>2. /\ wire \in Seq(Notifications) /\ buffered \in Seq(Notifications) /\ changes \in Nat
        /\ changes' = changes \/ changes' = changes + 1
    BY HistoryFrame, ChangeListenerAssumption DEF Types, TypeOK, Change
  <1>3. ASSUME NEW S, \A n \in S : n \in Notifications /\ n.tx <= changes
        PROVE  \A n \in S : n.tx <= changes'
    BY <1>2, <1>3 DEF Notifications
  <1>4. ToSet(<<>>) = {} /\ Ordered(<<>>)
    BY DEF ToSet, Ordered
  <1>5. Precede({}, {}) /\ \A S : Precede(S, {})
    BY DEF Precede
  <1>6. \A n \in ToSet(wire) \cup ToSet(buffered) \cup InHand \cup Handled :
          n \in Notifications /\ n.tx <= changes /\ n.tx <= changes'
    BY <1>1, <1>3, HandledStep
  <1>7. log' = log => HandledInOrder' /\ Handled' = Handled
    BY <1>1, HandledStep DEF HandledInOrder
  <1>8. ASSUME /\ HandledInOrder' /\ Ordered(buffered') /\ Ordered(wire')
               /\ Precede(Handled', InHand')
               /\ Precede(Handled' \cup InHand', ToSet(buffered'))
               /\ Precede(Handled' \cup InHand' \cup ToSet(buffered'), ToSet(wire'))
               /\ \A n \in ToSet(wire') \cup ToSet(buffered') \cup InHand' \cup Handled' : n.tx <= changes'
        PROVE  InOrder'
    BY <1>8, InFlightIs DEF InOrder
  <1>9. CASE Rest
    BY <1>1, <1>6, <1>7, <1>8, <1>9 DEF Rest
  <1>10. CASE ReadAll
    <2>1. wire' = <<>> /\ buffered' = buffered \o wire /\ InHand' = InHand /\ log' = log
      BY <1>10 DEF ReadAll
    <2>2. ToSet(buffered') = ToSet(buffered) \cup ToSet(wire)
      BY <1>2, <2>1, ToSetConcat
    <2>3. Precede(ToSet(buffered), ToSet(wire))
      BY <1>1 DEF Precede
    <2>4. Ordered(buffered')
      BY <1>1, <1>2, <2>1, <2>3, OrderedConcat
    <2>5. Precede(Handled' \cup InHand', ToSet(buffered'))
      BY <1>1, <1>7, <2>1, <2>2 DEF Precede
    <2>. QED
      BY <1>1, <1>4, <1>5, <1>6, <1>7, <1>8, <2>1, <2>2, <2>4, <2>5
  <1>11. CASE Cleared
    BY <1>1, <1>4, <1>5, <1>6, <1>7, <1>8, <1>11 DEF Cleared
  <1>12. CASE Dropped \/ TakenUp
    <2>1. /\ buffered # <<>> /\ wire' = wire /\ buffered' = Tail(buffered) /\ log' = log
          /\ InHand = {} /\ (InHand' = {} \/ InHand' = {Head(buffered)})
      BY <1>12 DEF Dropped, TakenUp
    <2>2. /\ Tail(buffered) \in Seq(Notifications)
          /\ ToSet(buffered) = {Head(buffered)} \cup ToSet(Tail(buffered))
          /\ Ordered(Tail(buffered)) /\ Precede({Head(buffered)}, ToSet(Tail(buffered)))
      BY <1>1, <1>2, <2>1, HeadAndTail
    <2>3. Precede(Handled', InHand')
      BY <1>1, <1>7, <2>1, <2>2 DEF Precede
    <2>4. Precede(Handled' \cup InHand', ToSet(buffered'))
      BY <1>1, <1>7, <2>1, <2>2 DEF Precede
    <2>5. Precede(Handled' \cup InHand' \cup ToSet(buffered'), ToSet(wire'))
      BY <1>1, <1>7, <2>1, <2>2 DEF Precede
    <2>6. \A n \in ToSet(wire') \cup ToSet(buffered') \cup InHand' \cup Handled' : n.tx <= changes'
      BY <1>6, <1>7, <2>1, <2>2
    <2>. QED
      BY <1>1, <1>7, <1>8, <2>1, <2>2, <2>3, <2>4, <2>5, <2>6
  <1>13. CASE Called
    <2>1. /\ wire' = wire /\ buffered' = buffered /\ InHand' = {} /\ log' = Append(log, hand)
          /\ Handled' = Handled \cup InHand /\ hand \in Hands /\ InHand = {hand.note}
      BY <1>13, HandledStep DEF Called
    <2>2. HandledInOrder'
      <3>1. log \in Seq(Hands)
        BY DEF Types
      <3>2. PICK l : l = Append(log, hand)
        OBVIOUS
      <3>3. /\ DOMAIN l = DOMAIN log \cup {Len(log) + 1} /\ l[Len(log) + 1] = hand
            /\ \A i \in DOMAIN log : l[i] = log[i] /\ i < Len(log) + 1
            /\ Len(log) \in Nat /\ DOMAIN log = 1..Len(log)
        BY <2>1, <3>1, <3>2, LogAppended
      <3>4. \A i \in DOMAIN log : Before(log[i].note, hand.note)
        BY <1>1, <2>1 DEF Precede, Handled
      <3>5. \A i, j \in DOMAIN log : i < j => Before(log[i].note, log[j].note)
        BY <1>1 DEF HandledInOrder, Before
      <3>6. ASSUME NEW i \in DOMAIN l, NEW j \in DOMAIN l, i < j
            PROVE  Before(l[i].note, l[j].note)
        <4>1. i \in DOMAIN log
          BY <3>3, <3>6
        <4>2. CASE j \in DOMAIN log
          BY <3>3, <3>5, <3>6, <4>1, <4>2
        <4>3. CASE j = Len(log) + 1
          BY <3>3, <3>4, <4>1, <4>3
        <4>. QED
          BY <3>3, <4>2, <4>3
      <3>. QED
        BY <2>1, <3>2, <3>6 DEF HandledInOrder, Before
    <2>3. Precede(Handled' \cup InHand', ToSet(buffered'))
      BY <1>1, <2>1
    <2>4. Precede(Handled' \cup InHand' \cup ToSet(buffered'), ToSet(wire'))
      BY <1>1, <2>1 DEF Precede
    <2>. QED
      BY <1>1, <1>5, <1>6, <1>8, <2>1, <2>2, <2>3, <2>4
  <1>14. CASE Sent
    <2>1. changes' = changes + 1 /\ buffered' = buffered /\ InHand' = InHand /\ log' = log
      BY <1>14 DEF Sent
    <2>2. PICK w \in Seq(Notifications) :
            wire' = wire \o w /\ Ordered(w) /\ \A n \in ToSet(w) : n.tx = changes + 1
      BY <1>14, SentStep
    <2>3. ToSet(wire') = ToSet(wire) \cup ToSet(w)
      BY <1>2, <2>2, ToSetConcat
    <2>4. \A m \in ToSet(wire) \cup ToSet(buffered) \cup InHand \cup Handled, n \in ToSet(w) : Before(m, n)
      <3>. TAKE m \in ToSet(wire) \cup ToSet(buffered) \cup InHand \cup Handled, n \in ToSet(w)
      <3>1. m \in Notifications /\ m.tx <= changes /\ n.tx = changes + 1
        BY <1>6, <2>2
      <3>2. m.tx < n.tx
        BY <1>2, <3>1 DEF Notifications
      <3>. QED
        BY <3>2 DEF Before
    <2>5. Precede(ToSet(wire), ToSet(w))
      BY <2>4 DEF Precede
    <2>6. Ordered(wire')
      BY <1>1, <1>2, <2>2, <2>5, OrderedConcat
    <2>7. Precede(Handled' \cup InHand' \cup ToSet(buffered'), ToSet(wire'))
      BY <1>1, <1>7, <2>1, <2>3, <2>4 DEF Precede
    <2>8. \A n \in ToSet(w) : n.tx <= changes'
      BY <1>2, <2>1, <2>2
    <2>. QED
      BY <1>1, <1>6, <1>7, <1>8, <2>1, <2>3, <2>6, <2>7, <2>8
  <1>. QED
    BY <1>9, <1>10, <1>11, <1>12, <1>13, <1>14, Flow

(* Only the server adds to what is on its way.                             *)
LEMMA NothingInvented ==
  ASSUME Types, [Next]_vars, ~Sent
  PROVE  InFlight' \subseteq InFlight /\ changes' = changes
  <1>1. changes' = changes
    <2>1. ASSUME NEW t \in Tables, NEW ops \in Writes, Change(t, ops) PROVE Sent
      BY <2>1 DEF Sent, Change, InHand, worker
    <2>. QED
      BY <2>1, HistoryFrame
  <1>. SUFFICES InFlight' \subseteq InFlight
    BY <1>1
  <1>2. wire \in Seq(Notifications) /\ buffered \in Seq(Notifications)
    BY DEF Types, TypeOK
  <1>3. ToSet(<<>>) = {}
    BY DEF ToSet
  <1>4. CASE Rest
    BY <1>4, InFlightIs DEF Rest
  <1>5. CASE ReadAll
    <2>1. ToSet(buffered') = ToSet(buffered) \cup ToSet(wire)
      BY <1>2, <1>5, ToSetConcat DEF ReadAll
    <2>. QED
      BY <1>3, <1>5, <2>1, InFlightIs DEF ReadAll
  <1>6. CASE Cleared
    BY <1>3, <1>6, InFlightIs DEF Cleared
  <1>7. CASE Dropped \/ TakenUp
    <2>1. /\ buffered # <<>> /\ wire' = wire /\ buffered' = Tail(buffered)
          /\ InHand = {} /\ (InHand' = {} \/ InHand' = {Head(buffered)})
      BY <1>7 DEF Dropped, TakenUp
    <2>2. ToSet(buffered) = {Head(buffered)} \cup ToSet(Tail(buffered))
      BY <1>2, <2>1, HeadAndTail
    <2>. QED
      BY <2>1, <2>2, InFlightIs
  <1>8. CASE Called
    BY <1>8, InFlightIs DEF Called
  <1>. QED
    BY <1>4, <1>5, <1>6, <1>7, <1>8, Flow

(* Nothing that is owed is lost by a step that sends nothing: the handler  *)
(* is looked up only for a table that has one, and the session is replaced *)
(* only when nobody can have registered.                                   *)
LEMMA NothingDropped ==
  ASSUME Types, [Next]_vars, ~Sent, NEW n \in InFlight \cup Handled,
         handlers[n.chan] # 0, ~StartListenWorker, ~FinishDisconnect
  PROVE  n \in InFlight' \cup Handled'
  <1>1. wire \in Seq(Notifications) /\ buffered \in Seq(Notifications)
    BY DEF Types, TypeOK
  <1>2. n \in ToSet(wire) \cup ToSet(buffered) \cup InHand \cup Handled
    BY InFlightIs
  <1>3. log' = log => Handled' = Handled
    BY HandledStep
  <1>4. CASE Rest
    BY <1>2, <1>3, <1>4, InFlightIs DEF Rest
  <1>5. CASE ReadAll
    <2>1. ToSet(buffered') = ToSet(buffered) \cup ToSet(wire)
      BY <1>1, <1>5, ToSetConcat DEF ReadAll
    <2>. QED
      BY <1>2, <1>3, <1>5, <2>1, InFlightIs DEF ReadAll
  <1>6. CASE Dropped \/ TakenUp
    <2>1. /\ buffered # <<>> /\ wire' = wire /\ buffered' = Tail(buffered) /\ log' = log /\ InHand = {}
          /\ handlers[Head(buffered).chan] = 0 \/ InHand' = {Head(buffered)}
      BY <1>6 DEF Dropped, TakenUp
    <2>2. ToSet(buffered) = {Head(buffered)} \cup ToSet(Tail(buffered))
      BY <1>1, <2>1, HeadAndTail
    <2>. QED
      BY <1>2, <1>3, <2>1, <2>2, InFlightIs
  <1>7. CASE Called
    BY <1>2, <1>7, HandledStep, InFlightIs DEF Called
  <1>. QED
    BY <1>4, <1>5, <1>6, <1>7, Flow DEF Cleared

(* The handler of a table is never older than what it is owed.             *)
LEMMA OwingStep ==
  ASSUME Types, Places, Wired, InOrder, Owing, [Next]_vars
  PROVE  Owing'
  <1>1. /\ \A o \in owed : handlers[o.chan] # 0 /\ o.by <= handlers[o.chan]
        /\ \A o \in owed : \A n \in InFlight : n.tx = o.tx => n.chan = o.chan
        /\ \A o \in owed : wpc = "call" /\ hand.note.tx = o.tx => hand.by >= o.by
        /\ \A o \in owed : \A i \in DOMAIN log : log[i].note.tx = o.tx => log[i].by >= o.by
        /\ \A n \in InFlight \cup Handled : n.tx <= changes
    BY DEF Owing, NewHandlerServes, InOrder
  <1>2. /\ \A o \in owed : o.chan \in Tables /\ o.tx \in 1..changes /\ o.by \in 0..MaxCalls
        /\ handlers \in [Tables -> 0..MaxCalls] /\ newest = handlers
        /\ \A t \in Tables : handlers[t] <= calls
        /\ changes \in Nat /\ calls \in Nat /\ MaxCalls \in Nat
        /\ log \in Seq(Hands)
    BY ChangeListenerAssumption DEF Types, TypeOK, Wired
  <1>3. ASSUME /\ \A o \in owed' : handlers'[o.chan] # 0 /\ o.by <= handlers'[o.chan]
               /\ \A o \in owed' : \A n \in InFlight' : n.tx = o.tx => n.chan = o.chan
               /\ \A o \in owed' : wpc' = "call" /\ hand'.note.tx = o.tx => hand'.by >= o.by
               /\ \A o \in owed' : \A i \in DOMAIN log' : log'[i].note.tx = o.tx => log'[i].by >= o.by
        PROVE  Owing'
    BY <1>3 DEF Owing, NewHandlerServes
  <1>4. CASE FinishDisconnect
    <2>1. owed' = {}
      BY <1>4 DEF FinishDisconnect
    <2>. QED
      BY <1>3, <2>1
  <1>5. CASE Sent
    <2>1. PICK t \in Tables, ops \in Writes : Change(t, ops)
      BY <1>5 DEF Sent
    <2>2. /\ handlers' = handlers /\ hand' = hand /\ wpc' = wpc /\ log' = log /\ buffered' = buffered
          /\ InHand' = InHand
      BY <1>5, <2>1 DEF Change, Sent, worker
    <2>3. changes + 1 \in 1..MaxChanges
      BY <1>2, <2>1, ChangeListenerAssumption DEF Change
    <2>4. PICK s \in Delivered(ops) : wire' = wire \/ wire' = wire \o Notes(t, s, changes + 1)
      BY <2>1 DEF Change
    <2>5. PICK w : w = Notes(t, s, changes + 1)
      OBVIOUS
    <2>6. w \in Seq(Notifications) /\ \A n \in ToSet(w) : n.tx = changes + 1 /\ n.chan = t
      BY <2>3, <2>5, NotesSent
    <2>7. wire \in Seq(Notifications)
      BY DEF Types, TypeOK
    <2>8. ToSet(wire') \subseteq ToSet(wire) \cup ToSet(w)
      <3>1. ToSet(wire \o w) = ToSet(wire) \cup ToSet(w)
        BY <2>6, <2>7, ToSetConcat
      <3>. QED
        BY <2>4, <2>5, <3>1
    <2>9. InFlight' \subseteq InFlight \cup ToSet(w)
      BY <2>2, <2>8, InFlightIs
    <2>10. PICK p : p = [chan |-> t, ops |-> ops, tx |-> changes + 1, by |-> newest[t]]
      OBVIOUS
    <2>11. p.chan = t /\ p.tx = changes + 1 /\ p.by = handlers[t]
      BY <1>2, <2>10
    <2>12. \A o \in owed' : o \in owed \/ (o = p /\ handlers[t] # 0)
      BY <2>1, <2>10 DEF Change, Registering
    <2>13. \A o \in owed' : handlers'[o.chan] # 0 /\ o.by <= handlers'[o.chan]
      BY <1>1, <1>2, <2>2, <2>11, <2>12
    <2>14. \A n \in InFlight \cup Handled : n \in Notifications
      BY HandledStep, InFlightIs
    <2>15. \A n \in InFlight \cup Handled : n.tx # changes + 1
      BY <1>1, <1>2, <2>14 DEF Notifications
    <2>16. \A o \in owed' : \A n \in InFlight' : n.tx = o.tx => n.chan = o.chan
      <3>1. \A o \in owed : o.tx # changes + 1
        BY <1>2
      <3>. QED
        BY <1>1, <2>6, <2>9, <2>11, <2>12, <2>15, <3>1
    <2>17. \A o \in owed' : wpc' = "call" /\ hand'.note.tx = o.tx => hand'.by >= o.by
      <3>1. wpc = "call" => hand.note \in InFlight
        BY InFlightIs DEF InHand
      <3>. QED
        BY <1>1, <2>2, <2>11, <2>12, <2>15, <3>1
    <2>18. \A o \in owed' : \A i \in DOMAIN log' : log'[i].note.tx = o.tx => log'[i].by >= o.by
      <3>1. \A i \in DOMAIN log : log[i].note \in Handled
        BY DEF Handled
      <3>. QED
        BY <1>1, <2>2, <2>11, <2>12, <2>15, <3>1
    <2>. QED
      BY <1>3, <2>13, <2>16, <2>17, <2>18
  <1>6. CASE ~Sent /\ ~FinishDisconnect
    <2>1. InFlight' \subseteq InFlight
      BY <1>6, NothingInvented
    <2>2. owed' = owed
      <3>1. ASSUME NEW t \in Tables, NEW ops \in Writes, Change(t, ops) PROVE Sent
        BY <3>1 DEF Sent, Change, InHand, worker
      <3>. QED
        BY <1>6, <3>1, HistoryFrame
    <2>3. \A t \in Tables : handlers'[t] = handlers[t] \/ (handlers'[t] = calls /\ calls > 0)
      <3>1. RegisterHandler => cpc = "wait" /\ arg \in Tables /\ calls > 0
                               /\ (handlers' = handlers \/ handlers' = [handlers EXCEPT ![arg] = calls])
        BY DEF RegisterHandler, Registered, Places
      <3>. QED
        BY <1>2, <3>1, HistoryFrame
    <2>4. \A o \in owed' : handlers'[o.chan] # 0 /\ o.by <= handlers'[o.chan]
      <3>. TAKE o \in owed'
      <3>1. /\ o.chan \in Tables /\ handlers[o.chan] # 0 /\ o.by <= handlers[o.chan]
            /\ handlers[o.chan] \in Nat /\ handlers[o.chan] <= calls /\ o.by \in Nat
        BY <1>1, <1>2, <2>2
      <3>. QED
        BY <1>2, <2>3, <3>1
    <2>5. \A o \in owed' : wpc' = "call" /\ hand'.note.tx = o.tx => hand'.by >= o.by
      <3>1. CASE TakenUp
        <4>1. hand' = [by |-> handlers[Head(buffered).chan], note |-> Head(buffered)] /\ buffered # <<>>
          BY <3>1 DEF TakenUp
        <4>2. hand'.note = Head(buffered) /\ hand'.by = handlers[Head(buffered).chan]
          BY <4>1
        <4>3. buffered \in Seq(Notifications)
          BY DEF Types, TypeOK
        <4>4. Head(buffered) \in InFlight
          BY <4>1, <4>3, HeadAndTail, InFlightIs
        <4>5. ASSUME NEW o \in owed, Head(buffered).tx = o.tx
              PROVE  handlers[Head(buffered).chan] >= o.by
          <5>1. Head(buffered).chan = o.chan
            BY <1>1, <4>4, <4>5
          <5>2. o.by <= handlers[o.chan] /\ handlers[o.chan] \in Nat /\ o.by \in Nat
            BY <1>1, <1>2
          <5>. QED
            BY <5>1, <5>2
        <4>. QED
          BY <2>2, <4>2, <4>5
      <3>2. CASE wpc = "call" /\ hand' = hand
        BY <1>1, <2>2, <3>2
      <3>3. CASE TakeNotification /\ wpc' = "call"
        <4>1. TakenUp
          BY <3>3, Taken, HistoryFrame DEF TakenUp, InHand, TakeNotification, history
        <4>. QED
          BY <3>1, <4>1
      <3>. QED
        BY <3>2, <3>3, CallFrame
    <2>6. \A o \in owed' : \A i \in DOMAIN log' : log'[i].note.tx = o.tx => log'[i].by >= o.by
      <3>1. CASE CallHandler
        <4>1. wpc = "call" /\ log' = Append(log, hand)
          BY <3>1 DEF CallHandler
        <4>2. hand \in Hands
          BY <4>1 DEF Types
        <4>3. PICK l : l = Append(log, hand)
          OBVIOUS
        <4>4. /\ DOMAIN l = DOMAIN log \cup {Len(log) + 1} /\ l[Len(log) + 1] = hand
              /\ \A i \in DOMAIN log : l[i] = log[i]
          BY <1>2, <4>2, <4>3, LogAppended
        <4>5. log' = l
          BY <4>1, <4>3
        <4>. QED
          BY <1>1, <2>2, <4>1, <4>4, <4>5
      <3>. QED
        BY <1>1, <2>2, <3>1, HistoryFrame
    <2>. QED
      BY <1>1, <1>3, <2>1, <2>2, <2>4, <2>5, <2>6
  <1>. QED
    BY <1>4, <1>5, <1>6

(* On the first connection what is owed is on its way or handled.          *)
LEMMA NothingLostStep ==
  ASSUME Types, Places, Wired, Owing, connects <= 1 => NothingLost, connects' <= 1, [Next]_vars
  PROVE  NothingLost'
  <1>. SUFFICES ASSUME linked', cpc' \notin {"join", "destroy"}, wpc' # "exited",
                       NEW o \in owed', NEW op \in ToSet(o.ops)
                PROVE  [chan |-> o.chan, op |-> op, tx |-> o.tx] \in InFlight' \cup Handled'
    BY DEF NothingLost
  <1>1. PICK n : n = [chan |-> o.chan, op |-> op, tx |-> o.tx]
    OBVIOUS
  <1>2. n.chan = o.chan
    BY <1>1
  <1>3. ~FinishDisconnect
    BY DEF FinishDisconnect
  <1>4. connects \in Nat /\ \A p \in owed : p.chan \in Tables
    BY DEF Types
  <1>5. CASE Connect
    <2>1. connects' = connects + 1 /\ owed' = owed
      BY <1>5, Zenon DEF Connect
    <2>2. connects = 0
      BY <1>4, <2>1
    <2>. QED
      BY <1>4, <2>1, <2>2 DEF Wired, Owing
  <1>6. CASE ~Connect
    <2>1. linked /\ connects <= 1
      BY <1>3, <1>6, PlacesFrame, HistoryFrame
    <2>2. cpc \notin {"join", "destroy"} /\ wpc # "exited"
      <3>1. (cpc \in {"join", "destroy"} => cpc' = cpc) /\ (wpc = "exited" => wpc' = "exited")
        BY <1>3, NextCases DEF Connect, OnChange, Disconnect, WorkerJoinable, StartListenWorker,
           QueueListen, RegisterHandler, LoopHead, RunListen, ReportListen, PollIdle, PollReady,
           TakeNotification, CallHandler, PollFails, Change, vars, worker
      <3>. QED
        BY <3>1
    <2>3. \A t \in Tables : handlers[t] # 0 => wpc # "none" /\ t \in conn.durable /\ t \in listening
      BY <2>1 DEF Wired
    <2>4. CASE o \in owed
      <3>1. n \in InFlight \cup Handled /\ handlers[n.chan] # 0 /\ o.chan \in Tables
        BY <1>1, <1>2, <1>4, <2>1, <2>2, <2>4 DEF NothingLost, Owing
      <3>2. ~StartListenWorker
        BY <1>2, <2>3, <3>1 DEF StartListenWorker
      <3>3. CASE ~Sent
        BY <1>1, <1>3, <3>1, <3>2, <3>3, NothingDropped
      <3>4. CASE Sent
        <4>1. PICK w \in Seq(Notifications) : wire' = wire \o w
          BY <3>4, SentStep
        <4>2. wire \in Seq(Notifications)
          BY DEF Types, TypeOK
        <4>3. ToSet(wire') = ToSet(wire) \cup ToSet(w)
          BY <4>1, <4>2, ToSetConcat
        <4>4. buffered' = buffered /\ InHand' = InHand /\ Handled' = Handled
          BY <3>4, HandledStep DEF Sent
        <4>. QED
          BY <1>1, <3>1, <4>3, <4>4, InFlightIs
      <3>. QED
        BY <3>3, <3>4
    <2>5. CASE o \notin owed
      <3>1. PICK t \in Tables, ops \in Writes : Change(t, ops)
        BY <1>3, <2>5, HistoryFrame
      <3>2. /\ o = [chan |-> t, ops |-> ops, tx |-> changes + 1, by |-> newest[t]]
            /\ handlers[t] # 0
        BY <2>5, <3>1 DEF Change, Registering
      <3>3. t \in conn.durable /\ t \in listening
        BY <2>3, <3>2
      <3>4. PICK s \in Delivered(ops) : wire' = wire \o Notes(t, s, changes + 1)
        BY <3>1, <3>3 DEF Change
      <3>5. changes + 1 \in 1..MaxChanges
        BY <3>1, ChangeListenerAssumption DEF Change, Types
      <3>6. PICK w : w = Notes(t, s, changes + 1)
        OBVIOUS
      <3>7. o.chan = t /\ o.ops = ops /\ o.tx = changes + 1
        BY <3>2
      <3>8. w \in Seq(Notifications) /\ n \in ToSet(w)
        BY <1>1, <3>5, <3>6, <3>7, NotesSent
      <3>9. wire \in Seq(Notifications)
        BY DEF Types, TypeOK
      <3>10. ToSet(wire') = ToSet(wire) \cup ToSet(w)
        BY <3>4, <3>6, <3>8, <3>9, ToSetConcat
      <3>. QED
        BY <1>1, <3>8, <3>10, InFlightIs
    <2>. QED
      BY <2>4, <2>5
  <1>. QED
    BY <1>5, <1>6

-----------------------------------------------------------------------------
(* The invariant and what follows from it.                                 *)

(* A new db_psql: no connection, no worker, nothing registered.            *)
LEMMA InitInv ==
  ASSUME Init
  PROVE  Inv
  <1>1. /\ conn \in Connections(Tables) /\ Is(conn, "lost", {}, {})
    <2>1. conn = [tx |-> "lost", work |-> {}, durable |-> {}]
      BY DEF Init, Connected
    <2>. QED
      BY <2>1 DEF Connections, TxStates, Is
  <1>2. Sound(conn)
    BY <1>1, ChangeListenerAssumption DEF Sound, Is
  <1>3. /\ ToSet(wire) = {} /\ ToSet(buffered) = {} /\ InHand = {} /\ Handled = {} /\ InFlight = {}
        /\ log = <<>> /\ DOMAIN log = {} /\ wire = <<>> /\ buffered = <<>> /\ owed = {}
    BY DEF Init, ToSet, InHand, Handled, InFlight
  <1>4. TypeOK
    <2>1. Cardinality({}) = 0
      BY FS_EmptySet
    <2>2. handlers \in [Tables -> 0..MaxCalls]
      BY ChangeListenerAssumption DEF Init
    <2>3. wire \in Seq(Notifications) /\ buffered \in Seq(Notifications)
      BY <1>3
    <2>4. /\ linked = FALSE /\ stop = FALSE /\ pending = {} /\ done = FALSE /\ result = FALSE
          /\ listening = {} /\ cpc = "idle" /\ arg = NoTable /\ wpc = "none"
      BY Zenon DEF Init
    <2>5. linked \in BOOLEAN /\ stop \in BOOLEAN /\ done \in BOOLEAN /\ result \in BOOLEAN
      BY <2>4, Zenon
    <2>6. Cardinality(pending) <= 1
      BY <2>1, <2>4
    <2>7. /\ pending \in SUBSET Tables /\ listening \in SUBSET Tables /\ arg \in Tables \cup {NoTable}
          /\ cpc \in {"idle", "start", "queue", "wait", "join", "destroy", "dead"}
          /\ wpc \in {"none", "top", "listen", "report", "poll", "drain", "call", "exited"}
      BY <2>4
    <2>. QED
      BY <1>1, <2>2, <2>3, <2>5, <2>6, <2>7, Zenon DEF TypeOK
  <1>5. Types
    <2>1. chan \in [table : Tables \cup {NoTable}, ok : BOOLEAN]
      BY DEF Init
    <2>2. calls \in 0..MaxCalls /\ connects \in Nat /\ changes \in 0..MaxChanges /\ wpc = "none"
      BY ChangeListenerAssumption DEF Init
    <2>3. log \in Seq(Hands)
      BY <1>3
    <2>. QED
      BY <1>2, <1>3, <1>4, <2>1, <2>2, <2>3 DEF Types
  <1>6. Places /\ Request
    BY DEF Init, Places, Request
  <1>7. Wired
    BY DEF Init, Wired
  <1>8. InOrder
    BY <1>3 DEF InOrder, HandledInOrder, Ordered, Precede
  <1>9. Owing /\ NothingLost
    BY <1>3 DEF Owing, NewHandlerServes, NothingLost
  <1>. QED
    BY <1>5, <1>6, <1>7, <1>8, <1>9 DEF Inv

(* Every step keeps the invariant.                                         *)
LEMMA InvStep ==
  ASSUME Inv, [Next]_vars
  PROVE  Inv'
  <1>1. Types /\ Places /\ Request /\ Wired /\ InOrder /\ Owing /\ (connects <= 1 => NothingLost)
    BY DEF Inv
  <1>2. connects' <= 1 => NothingLost'
    BY <1>1, NothingLostStep
  <1>. QED
    BY <1>1, <1>2, TypesStep, PlacesStep, RequestStep, WiredStep, InOrderStep, OwingStep DEF Inv

(* The inductive invariant holds in every reachable state.                 *)
THEOREM InvariantThm == Spec => []Inv
  <1>1. Init => Inv
    BY InitInv
  <1>2. Inv /\ [Next]_vars => Inv'
    BY InvStep
  <1>. QED
    BY <1>1, <1>2, PTL DEF Spec

(* On its first connection a db_psql object serves whoever is registered   *)
(* through on_change(): behind a handler in handlers_ there are always the *)
(* committed trigger and a session that has run LISTEN, whichever call     *)
(* failed or was repeated on the way, and a change is never given to the   *)
(* handler that was replaced before it.  (disconnect() keeps handlers_ and *)
(* the next connection starts without LISTEN: hence the first.)            *)
THEOREM HandlersServedThm == Spec => [](connects <= 1 => HandlersServed)
  <1>1. ASSUME Inv PROVE connects <= 1 => HandlersServed
    <2>1. TypeOK /\ NewHandlerServes
      BY <1>1 DEF Inv, Types, Owing
    <2>2. connects <= 1 => RegisteredIsWired
      BY <1>1 DEF Inv, Wired, RegisteredIsWired, Registering
    <2>. QED
      BY <2>1, <2>2 DEF HandlersServed
  <1>. QED
    BY <1>1, InvariantThm, PTL

(* On every connection, reconnects included: the members of db_psql keep   *)
(* their types, and a change is never given to a handler that was replaced *)
(* before it was committed.                                                *)
THEOREM NewHandlerServesThm == Spec => [](TypeOK /\ NewHandlerServes)
  <1>1. ASSUME Inv PROVE TypeOK /\ NewHandlerServes
    BY <1>1 DEF Inv, Types, Owing
  <1>. QED
    BY <1>1, InvariantThm, PTL

(* On its first connection no notification is lost between the server,     *)
(* libpq's buffer and the handlers: what was committed while a handler was *)
(* registered is handled or still on its way, although LISTEN and          *)
(* listen_loop() read the same socket, and is handled once and in the      *)
(* order of the commits.                                                   *)
THEOREM NotificationsKeptThm == Spec => [](connects <= 1 => NotificationsKept)
  <1>1. ASSUME Inv PROVE connects <= 1 => NotificationsKept
    BY <1>1 DEF Inv, InOrder, NotificationsKept
  <1>. QED
    BY <1>1, InvariantThm, PTL

(* On every connection the handlers are called in the order of the         *)
(* commits, each notification once.                                        *)
THEOREM HandledInOrderThm == Spec => []HandledInOrder
  <1>1. ASSUME Inv PROVE HandledInOrder
    BY <1>1 DEF Inv, InOrder
  <1>. QED
    BY <1>1, InvariantThm, PTL

(* No handler runs after disconnect() or the destructor has returned: the  *)
(* worker that could call one has been joined, on every connection.        *)
THEOREM QuietAfterDisconnectThm == Spec => QuietAfterDisconnect
  <1>1. ASSUME Inv, [Next]_vars PROVE [log' # log => linked]_vars
    <2>1. CallHandler => linked
      BY <1>1 DEF Inv, Places, CallHandler
    <2>. QED
      BY <1>1, <2>1, HistoryFrame
  <1>. QED
    BY <1>1, InvariantThm, PTL DEF Spec, QuietAfterDisconnect
=============================================================================
