------------------------------ MODULE TxSession ------------------------------
(***************************************************************************)
(* What a user of async_db is promised, without threads, queues or errors  *)
(* on the way: a session in which statements are asked for and then        *)
(* decided about as a whole.  A transaction reported as committed is       *)
(* durable with every statement asked for; one that failed or was rolled   *)
(* back left nothing behind; a COMMIT that itself failed (a connection     *)
(* lost in the middle of it) is all or nothing, and the client cannot tell *)
(* which.                                                                  *)
(***************************************************************************)
CONSTANT Stmts        \* the statements that can be asked for

VARIABLES open,       \* asked for since the last decision
          durable,    \* committed
          verdict     \* what the decision just made will be reported as

Init == open = {} /\ durable = {} /\ verdict = "none"

Ask(n) ==
  /\ n \notin open \cup durable
  /\ open' = open \cup {n}
  /\ verdict' = "none"
  /\ UNCHANGED durable

Commit ==
  /\ durable' = durable \cup open
  /\ open' = {}
  /\ verdict' = "committed"

(* A statement failed, or the session rolled back.                         *)
Undo ==
  /\ open' = {}
  /\ verdict' = "failed"
  /\ UNCHANGED durable

(* COMMIT failed: with or without effect, on all of the transaction.       *)
Unknown ==
  /\ durable' \in {durable, durable \cup open}
  /\ open' = {}
  /\ verdict' = "unknown"

(* The session turns to something else.                                    *)
Reported == verdict' = "none" /\ UNCHANGED <<open, durable>>

Next == (\E n \in Stmts : Ask(n)) \/ Commit \/ Undo \/ Unknown \/ Reported

Spec == Init /\ [][Next]_<<open, durable, verdict>>
=============================================================================
