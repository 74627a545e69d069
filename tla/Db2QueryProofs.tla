--------------------------- MODULE Db2QueryProofs ---------------------------
(***************************************************************************)
(* Proofs about Db2Query, for any number of places, handles and resizes,   *)
(* and, at the end, about the buffers a query binds: RowBuffers, for any   *)
(* width, number of rows, texts and allocations.                           *)
(***************************************************************************)
EXTENDS Db2Query, Buffers, Integers, Sequences, TLAPS

(* One object has the connection; the others have neither a handle nor a   *)
(* prepared statement.                                                     *)
OneOwner ==
  /\ \A o, p \in Homes : obj[o].db /\ obj[p].db => o = p
  /\ \A o \in Homes : obj[o].db => obj[o].alive
  /\ \A o \in Homes : ~obj[o].db => obj[o].stmt = NoHandle /\ ~obj[o].prepared

(* A handle that is not stale is one the driver has, and the driver has no *)
(* other.                                                                  *)
HandlesKnown ==
  /\ \A o \in Homes : obj[o].stmt # NoHandle /\ ~obj[o].stale => obj[o].stmt \in live
  /\ \A h \in live : \E o \in Homes : obj[o].stmt = h
  /\ live \subseteq 1..handles
  /\ \A o \in Homes : obj[o].stmt <= handles

(* New storage is always a new generation.                                 *)
GenerationsTell == par.gen = par.at /\ res.gen = res.at /\ par.at # 0 /\ res.at # 0

(* What a driver that refused R of the attributes knows of the rows of the *)
(* parameters it was told of last.                                         *)
RowsTold(t, R) ==
  /\ t.size = par.rows \/ (t.size = 1 /\ "paramset_size" \in R)
  /\ par.rows > 1 => t.status = par.at \/ "param_status" \in R
  /\ par.rows > 1 => t.each \/ "paramopt_atomic" \in R

(* What the driver was told through a handle it has, R of it refused:      *)
(* counters of the object that owns it, and storage not older than the     *)
(* generation that prepare() recorded, nor newer than the present one.     *)
ToldOf(o, t, R) ==
  /\ t.par # 0 => HasP /\ obj[o].boundPar <= t.par /\ t.par <= par.at
  /\ t.cols # 0 => obj[o].boundRes <= t.cols /\ t.cols <= res.at
  /\ t.par = 0 => t.size = 1
  /\ t.status \in {0, t.par}
  /\ t.par # 0 /\ t.par = par.at => RowsTold(t, R)
  /\ t.cols = 0 => t.page = 1
  /\ t.cols # 0 /\ t.cols = res.at => t.page \in {1, res.rows}
  /\ t.processed \subseteq {o} \/ "params_processed" \in R
  /\ t.fetched \subseteq {o} \/ "rows_fetched" \in R
  /\ (HasP \/ t.processed = {}) /\ (HasR \/ t.fetched = {})
  /\ obj[o].prepared /\ HasP => t.processed = {o} \/ "params_processed" \in R
  /\ obj[o].prepared /\ HasR => t.fetched = {o} \/ "rows_fetched" \in R

RefusedOf(h) == {a \in Attributes : <<h, a>> \in refused}

ToldInUse ==
  /\ \A o \in Homes : obj[o].boundPar <= par.gen /\ obj[o].boundRes <= res.gen
  /\ \A o \in Homes : obj[o].prepared => obj[o].stmt # NoHandle
  /\ \A o \in Homes : obj[o].stmt # NoHandle => ToldOf(o, told[obj[o].stmt], RefusedOf(obj[o].stmt))

Inv ==
  /\ TypeOK /\ OneOwner /\ HandlesKnown /\ GenerationsTell /\ ToldInUse
  /\ ~misused /\ NoDangling /\ NothingMissed

-----------------------------------------------------------------------------
(* Objects at other places are what they were.                             *)
Others(o) == \A p \in Homes : p # o => obj'[p] = obj[p]

(* The handle an object passes to the driver is one the driver has, or the *)
(* stale one.                                                              *)
LEMMA UsesOwn == ASSUME Inv, NEW o \in Homes, Uses(o) PROVE misused' \in BOOLEAN /\ ~misused'
  BY DEF Inv, TypeOK, HandlesKnown, Uses, is_prepared

(* The driver has no handle but the owner's.                               *)
LEMMA OnlyOwn == ASSUME Inv, NEW o \in Homes, obj[o].db PROVE live \subseteq {obj[o].stmt}
  <1>. SUFFICES ASSUME NEW h \in live PROVE h = obj[o].stmt
    OBVIOUS
  <1>1. PICK p \in Homes : obj[p].stmt = h
    BY DEF Inv, HandlesKnown
  <1>2. h # NoHandle
    BY DEF Inv, TypeOK, NoHandle
  <1>. QED
    BY <1>1, <1>2 DEF Inv, OneOwner

(* The typed pieces of an object.                                          *)
LEMMA Fields ==
  ASSUME TypeOK, NEW o \in Homes
  PROVE  obj[o] \in Objects
  BY DEF TypeOK

(* Replacing one object leaves the others.                                 *)
LEMMA Replaced ==
  ASSUME TypeOK, NEW o \in Homes, NEW r \in Objects, obj' = [obj EXCEPT ![o] = r]
  PROVE  obj' \in [Homes -> Objects] /\ Others(o) /\ obj'[o] = r
  BY DEF TypeOK, Others

(* The object at the beginning and at the end.                             *)
LEMMA ObjectsType ==
  /\ NewObject \in Objects /\ NoObject \in Objects
  /\ ~NoObject.alive /\ ~NoObject.db /\ NoObject.stmt = 0 /\ ~NoObject.prepared
  /\ NoObject.boundPar = 0 /\ NoObject.boundRes = 0
  <1>1. 0 \in 0..MaxHandles /\ 0 \in 0..MaxSize
    BY Db2QueryAssumption
  <1>2. NewObject \in Objects
    BY <1>1 DEF NewObject, Objects, NoHandle
  <1>3. NewObject.stmt = 0 /\ ~NewObject.prepared /\ NewObject.boundPar = 0 /\ NewObject.boundRes = 0
    BY DEF NewObject, NoHandle
  <1>. HIDE DEF NewObject
  <1>. QED
    BY <1>2, <1>3 DEF Objects, NoObject

(* Before the first call.                                                  *)
LEMMA InitInv == ASSUME Init PROVE Inv
  <1>1. PICK o \in Homes : obj = [p \in Homes |-> IF p = o THEN NewObject ELSE NoObject]
    BY DEF Init
  <1>2. NewObject \in Objects /\ NoObject \in Objects
    BY ObjectsType
  <1>3. Nothing \in Tellings /\ Buffer(1) \in Buffers
    <2>1. 1 \in 1..MaxSize /\ 0 \in Nat /\ 1 \in Nat /\ {} \in SUBSET Homes
      BY Db2QueryAssumption
    <2>. QED
      BY <2>1 DEF Nothing, Tellings, Buffer, Buffers
  <1>4. TypeOK
    <2>1. obj \in [Homes -> Objects]
      BY <1>1, <1>2
    <2>2. told \in [1..MaxHandles -> Tellings] /\ par \in Buffers /\ res \in Buffers
      BY <1>3 DEF Init
    <2>3. misused = FALSE /\ unprepared = FALSE /\ refused = {} /\ astray = {} /\ missed = {}
          /\ live = {} /\ handles = 0 /\ sizings = 0
      BY DEF Init
    <2>4. {misused, unprepared} \subseteq BOOLEAN
      BY <2>3
    <2>5. handles \in 0..MaxHandles /\ sizings \in 0..MaxSizings
      BY <2>3, Db2QueryAssumption
    <2>. QED
      BY <2>1, <2>2, <2>3, <2>4, <2>5 DEF TypeOK
  <1>5. \A p \in Homes : /\ obj[p].stmt = 0 /\ ~obj[p].prepared /\ (obj[p].db <=> p = o)
                         /\ obj[p].boundPar = 0 /\ obj[p].boundRes = 0 /\ (obj[p].db => obj[p].alive)
    BY <1>1 DEF NewObject, NoObject, NoHandle
  <1>6. OneOwner /\ HandlesKnown
    <2>1. handles = 0 /\ live = {}
      BY DEF Init
    <2>. QED
      BY <1>5, <2>1 DEF OneOwner, HandlesKnown, NoHandle
  <1>7. GenerationsTell /\ par.gen = 1 /\ res.gen = 1
    BY DEF Init, GenerationsTell, Buffer
  <1>8. ToldInUse
    BY <1>5, <1>7 DEF ToldInUse, NoHandle
  <1>. QED
    BY <1>4, <1>6, <1>7, <1>8 DEF Inv, Init, NoDangling, NothingMissed

(* set_buffer_size(): the generation moves on with the storage.            *)
LEMMA ResizeInv == ASSUME Inv, NEW n \in 0..MaxSize, Resize(n) PROVE Inv'
  <1>1. ASSUME NEW b \in Buffers
        PROVE  Sized(b, n) \in Buffers /\ Sized(b, n).gen = b.gen + 1 /\ Sized(b, n).at = b.at + 1
    BY Db2QueryAssumption DEF Sized, Buffers
  <1>2. /\ obj' = obj /\ live' = live /\ told' = told /\ handles' = handles /\ misused' = misused
        /\ refused' = refused /\ astray' = astray /\ missed' = missed /\ unprepared' = unprepared
        /\ sizings < MaxSizings /\ sizings' = sizings + 1
        /\ par \in Buffers /\ res \in Buffers
    BY DEF Resize, history, Inv, TypeOK
  <1>3. /\ par' \in Buffers /\ res' \in Buffers
        /\ par.gen <= par'.gen /\ par.at <= par'.at /\ res.gen <= res'.gen /\ res.at <= res'.at
        /\ par'.gen = par'.at /\ res'.gen = res'.at /\ par'.at # 0 /\ res'.at # 0
        /\ (par' = par \/ par.at < par'.at) /\ (res' = res \/ res.at < res'.at)
    BY <1>1, <1>2 DEF Resize, Inv, GenerationsTell, Buffers
  <1>4. TypeOK'
    <2>1. sizings' \in 0..MaxSizings
      BY <1>2, Db2QueryAssumption DEF Inv, TypeOK
    <2>. QED
      BY <1>2, <1>3, <2>1 DEF Inv, TypeOK
  <1>5. OneOwner' /\ HandlesKnown'
    BY <1>2 DEF Inv, OneOwner, HandlesKnown
  <1>6. ToldInUse'
    <2>1. ASSUME NEW o \in Homes
          PROVE  obj[o] \in Objects /\ obj[o].boundPar <= par'.gen /\ obj[o].boundRes <= res'.gen
      BY <1>2, <1>3, SMTT(20) DEF Inv, TypeOK, ToldInUse, Objects, Buffers
    <2>2. ASSUME NEW o \in Homes, obj[o].stmt # NoHandle
          PROVE  ToldOf(o, told[obj[o].stmt], RefusedOf(obj[o].stmt))'
      <3>. DEFINE t == told[obj[o].stmt]
                  R == RefusedOf(obj[o].stmt)
      <3>1. t \in Tellings /\ ToldOf(o, t, R)
        BY <2>1, <2>2 DEF Inv, TypeOK, ToldInUse, Objects, NoHandle
      <3>2. t' = t /\ R' = R
        BY <1>2 DEF RefusedOf
      <3>. HIDE DEF t, R
      <3>3. /\ par.at \in Nat /\ res.at \in Nat /\ par'.at \in Nat /\ res'.at \in Nat
            /\ t.par \in Nat /\ t.cols \in Nat
        BY <1>2, <1>3, <3>1 DEF Buffers, Tellings
      <3>4. /\ t.par # 0 => t.par <= par'.at
            /\ t.cols # 0 => t.cols <= res'.at
            /\ t.par # 0 /\ t.par = par'.at => par' = par
            /\ t.cols # 0 /\ t.cols = res'.at => res' = res
        BY <1>3, <3>1, <3>3 DEF ToldOf
      <3>5. ASSUME NEW u, NEW Q, u = t, Q = R PROVE ToldOf(o, u, Q)'
        <4>1. RowsTold(u, Q) /\ par' = par => RowsTold(u, Q)'
          BY DEF RowsTold
        <4>2. u.par # 0 /\ u.par = par'.at => RowsTold(u, Q)'
          BY <3>1, <3>4, <3>5, <4>1 DEF ToldOf
        <4>3. u.cols # 0 /\ u.cols = res'.at => u.page \in {1, res'.rows}
          BY <3>1, <3>4, <3>5 DEF ToldOf
        <4>. QED
          BY <1>2, <3>1, <3>4, <3>5, <4>2, <4>3 DEF ToldOf
      <3>. QED
        BY <3>2, <3>5 DEF t, R
    <2>. QED
      BY <1>2, <2>1, <2>2 DEF Inv, ToldInUse
  <1>. QED
    BY <1>2, <1>3, <1>4, <1>5, <1>6 DEF Inv, GenerationsTell, NoDangling, NothingMissed

-----------------------------------------------------------------------------
(* The parameters, as far as the driver learns of them.                    *)
ParKnown(o, t, R) ==
  /\ t \in Tellings /\ t.cols = 0 /\ t.page = 1 /\ t.fetched = {}
  /\ t.par \in {0, par.at} /\ (t.par # 0 => HasP)
  /\ t.par = 0 => t.size = 1
  /\ t.status \in {0, t.par}
  /\ t.par # 0 => RowsTold(t, R)
  /\ t.processed \subseteq {o} /\ (HasP \/ t.processed = {})

(* With the text alone it knows no buffer and no counter.                  *)
LEMMA TextKnown ==
  ASSUME Inv, NEW o \in Homes, NEW t \in {Nothing, Text}
  PROVE  ParKnown(o, t, {}) /\ t.par = 0 /\ t.processed = {}
  <1>1. 1 \in 1..MaxSize /\ 0 \in Nat /\ {} \in SUBSET Homes
    BY Db2QueryAssumption
  <1>2. Nothing \in Tellings
    BY <1>1 DEF Nothing, Tellings
  <1>3. Text \in Tellings
    BY <1>1 DEF Nothing, Tellings, Text
  <1>4. /\ t.par = 0 /\ t.size = 1 /\ t.processed = {} /\ t.status = 0
        /\ t.cols = 0 /\ t.page = 1 /\ t.fetched = {}
    BY DEF Nothing, Text
  <1>. QED
    BY <1>2, <1>3, <1>4 DEF ParKnown

(* With the parameters bound, their rows and the counter, or it refused.   *)
LEMMA WithParKnown ==
  ASSUME Inv, NEW o \in Homes, NEW R
  PROVE  /\ ParKnown(o, WithPar(Text, o, R), R)
         /\ HasP => \/ WithPar(Text, o, R).processed = {o}
                    \/ "params_processed" \in R
  <1>1. CASE ~HasP
    <2>1. WithPar(Text, o, R) = Text
      BY <1>1 DEF WithPar
    <2>2. ParKnown(o, Text, {}) /\ Text.par = 0
      BY TextKnown
    <2>. QED
      BY <1>1, <2>1, <2>2 DEF ParKnown
  <1>2. CASE HasP
    <2>. DEFINE w == WithPar(Text, o, R)
                sz == IF "paramset_size" \in R THEN 1 ELSE par.rows
                pp == IF "params_processed" \in R THEN {} ELSE {o}
                st == IF "param_status" \in ParAsked \ R THEN par.at ELSE 0
                ea == ("paramopt_atomic" \in ParAsked \ R)
    <2>1. par.at \in Nat /\ par.rows \in 1..MaxSize /\ 1 \in 1..MaxSize /\ 0 \in Nat
      BY Db2QueryAssumption DEF Inv, TypeOK, Buffers
    <2>2. /\ Text \in Tellings /\ Text.size = 1 /\ Text.processed = {} /\ Text.status = 0
          /\ Text.cols = 0 /\ Text.page = 1 /\ Text.fetched = {}
      BY TextKnown DEF ParKnown, Text, Nothing
    <2>3. ea \in BOOLEAN /\ sz \in 1..MaxSize /\ pp \in SUBSET Homes /\ st \in Nat
      BY <2>1
    <2>5. w = [Text EXCEPT !.par = par.at, !.size = sz, !.processed = pp, !.status = st, !.each = ea]
      BY <1>2, <2>2 DEF WithPar, Tellings
    <2>. HIDE DEF w, ea
    <2>4. /\ w.par = par.at /\ w.size = sz /\ w.processed = pp /\ w.status = st
          /\ w.cols = 0 /\ w.page = 1 /\ w.fetched = {}
      BY <2>2, <2>5 DEF Tellings
    <2>7. w.each = ea
      BY <2>2, <2>5 DEF Tellings
    <2>. HIDE DEF sz, pp, st
    <2>8. w \in Tellings
      BY <2>1, <2>2, <2>3, <2>5 DEF Tellings
    <2>. USE DEF sz, pp, st, ea
    <2>9. par.rows > 1 => "param_status" \in ParAsked /\ "paramopt_atomic" \in ParAsked
      BY <1>2 DEF ParAsked
    <2>10. RowsTold(w, R)
      BY <2>4, <2>7, <2>9 DEF RowsTold
    <2>11. w.processed \subseteq {o} /\ (w.processed = {o} \/ "params_processed" \in R)
      BY <2>4
    <2>12. par.at # 0 /\ w.status \in {0, w.par}
      BY <2>4 DEF Inv, GenerationsTell
    <2>. QED
      BY <1>2, <2>4, <2>8, <2>10, <2>11, <2>12 DEF ParKnown, w
  <1>. QED
    BY <1>1, <1>2

(* The columns do not touch what is known of the parameters.               *)
ColsKnown(o, t, R, w) ==
  /\ w \in Tellings /\ w.par = t.par /\ w.size = t.size /\ w.processed = t.processed
  /\ w.status = t.status /\ w.each = t.each
  /\ w.cols \in {0, res.at} /\ (w.cols = 0 => w.page = 1) /\ w.page \in {1, res.rows}
  /\ w.fetched \subseteq {o} /\ (HasR \/ w.fetched = {})
  /\ HasR => w.fetched = {o} \/ "rows_fetched" \in R

(* Binding the columns adds what they need.                                *)
LEMMA WithColsKnown ==
  ASSUME Inv, NEW o \in Homes, NEW R, NEW t, ParKnown(o, t, R)
  PROVE  ColsKnown(o, t, R, WithCols(t, o, R))
  <1>. DEFINE w == WithCols(t, o, R)
  <1>1. t \in Tellings /\ t.cols = 0 /\ t.page = 1 /\ t.fetched = {}
    BY DEF ParKnown
  <1>2. CASE ~HasR
    <2>1. w = t
      BY <1>2 DEF WithCols
    <2>. QED
      BY <1>1, <1>2, <2>1 DEF ColsKnown
  <1>3. CASE HasR
    <2>. DEFINE pg == IF "row_array_size" \in R THEN t.page ELSE res.rows
                fe == IF "rows_fetched" \in R THEN t.fetched ELSE {o}
    <2>1. res.at \in Nat /\ res.rows \in 1..MaxSize /\ pg \in 1..MaxSize /\ fe \in SUBSET Homes
          /\ res.at # 0
      BY <1>1 DEF Inv, TypeOK, Buffers, Tellings, GenerationsTell
    <2>2. w = [t EXCEPT !.cols = res.at, !.page = pg, !.fetched = fe]
      BY <1>1, <1>3 DEF WithCols, Tellings
    <2>3. /\ w.cols = res.at /\ w.page = pg /\ w.fetched = fe /\ w.par = t.par /\ w.size = t.size
          /\ w.processed = t.processed /\ w.status = t.status
      BY <1>1, <2>2 DEF Tellings
    <2>4. w.each = t.each
      BY <1>1, <2>2 DEF Tellings
    <2>6. pg \in {1, res.rows} /\ fe \subseteq {o} /\ (fe = {o} \/ "rows_fetched" \in R)
      BY <1>1
    <2>. HIDE DEF pg, fe
    <2>5. w \in Tellings
      BY <1>1, <2>1, <2>2 DEF Tellings
    <2>. HIDE DEF w
    <2>. QED
      BY <1>3, <2>1, <2>3, <2>4, <2>5, <2>6 DEF ColsKnown, w
  <1>. QED
    BY <1>2, <1>3

(* What the driver was told when prepare() ended, however it ended.        *)
Known(o, t, R) ==
  /\ t \in Tellings
  /\ t.par \in {0, par.at} /\ (t.par # 0 => HasP)
  /\ t.par = 0 => t.size = 1
  /\ t.status \in {0, t.par}
  /\ t.par # 0 => RowsTold(t, R)
  /\ t.cols \in {0, res.at} /\ (t.cols = 0 => t.page = 1) /\ t.page \in {1, res.rows}
  /\ t.processed \subseteq {o} /\ t.fetched \subseteq {o}
  /\ (HasP \/ t.processed = {}) /\ (HasR \/ t.fetched = {})

(* The two fields of what was learned.                                     *)
LEMMA LearnedFields ==
  ASSUME NEW t, NEW R
  PROVE  Learned(t, R).told = t /\ Learned(t, R).refused = R
  BY DEF Learned

(* prepare() leaves the driver with one of these, and a complete one has   *)
(* the counters.                                                           *)
LEMMA PreparedTold ==
  ASSUME Inv, NEW o \in Homes, NEW s \in Stopped(o) \cup Complete(o)
  PROVE  /\ Known(o, s.told, s.refused) /\ s.refused \subseteq Attributes
         /\ s \in Complete(o) /\ HasP => s.told.processed = {o} \/ "params_processed" \in s.refused
         /\ s \in Complete(o) /\ HasR => s.told.fetched = {o} \/ "rows_fetched" \in s.refused
  <1>1. ASSUME NEW t, NEW R, ParKnown(o, t, R) PROVE Known(o, t, R)
    BY <1>1 DEF ParKnown, Known
  <1>2. ParAsked \subseteq Attributes /\ ResAsked \subseteq Attributes
    BY DEF ParAsked, ResAsked, Attributes
  <1>3. ASSUME NEW R
        PROVE  /\ Known(o, WithCols(WithPar(Text, o, R), o, R), R)
               /\ HasP => \/ WithCols(WithPar(Text, o, R), o, R).processed = {o}
                          \/ "params_processed" \in R
               /\ HasR => \/ WithCols(WithPar(Text, o, R), o, R).fetched = {o}
                          \/ "rows_fetched" \in R
    <2>. DEFINE t == WithPar(Text, o, R)
                w == WithCols(t, o, R)
    <2>1. ParKnown(o, t, R) /\ (HasP => t.processed = {o} \/ "params_processed" \in R)
      BY WithParKnown
    <2>. HIDE DEF t
    <2>2. ColsKnown(o, t, R, w)
      BY <2>1, WithColsKnown
    <2>. HIDE DEF w
    <2>3. RowsTold(t, R) => RowsTold(w, R)
      BY <2>2 DEF ColsKnown, RowsTold
    <2>4. Known(o, w, R)
      BY <2>1, <2>2, <2>3 DEF ColsKnown, Known, ParKnown
    <2>. QED
      BY <2>1, <2>2, <2>4 DEF ColsKnown, t, w
  <1>4. CASE s \in Complete(o)
    <2>1. PICK R \in SUBSET (ParAsked \cup ResAsked) :
            s = Learned(WithCols(WithPar(Text, o, R), o, R), R)
      BY <1>4 DEF Complete
    <2>2. s.told = WithCols(WithPar(Text, o, R), o, R) /\ s.refused = R
      BY <2>1, LearnedFields
    <2>. QED
      BY <1>2, <1>3, <2>2
  <1>5. CASE s \in Stopped(o) /\ s \notin Complete(o)
    <2>1. \/ \E t \in {Nothing, Text} : s = Learned(t, {})
          \/ \E R \in SUBSET ParAsked : s = Learned(WithPar(Text, o, R), R)
      BY <1>5 DEF Stopped
    <2>2. ASSUME NEW t \in {Nothing, Text}, s = Learned(t, {})
          PROVE  Known(o, s.told, s.refused) /\ s.refused \subseteq Attributes
      <3>1. s.told = t /\ s.refused = {}
        BY <2>2, LearnedFields
      <3>2. ParKnown(o, t, {})
        BY TextKnown
      <3>3. Known(o, t, {})
        BY <1>1, <3>2
      <3>. QED
        BY <3>1, <3>3
    <2>3. ASSUME NEW R \in SUBSET ParAsked, s = Learned(WithPar(Text, o, R), R)
          PROVE  Known(o, s.told, s.refused) /\ s.refused \subseteq Attributes
      <3>1. s.told = WithPar(Text, o, R) /\ s.refused = R
        BY <2>3, LearnedFields
      <3>2. ParKnown(o, WithPar(Text, o, R), R)
        BY WithParKnown
      <3>3. Known(o, WithPar(Text, o, R), R)
        BY <1>1, <3>2
      <3>. QED
        BY <1>2, <3>1, <3>3
    <2>. QED
      BY <1>5, <2>1, <2>2, <2>3
  <1>. QED
    BY <1>4, <1>5

(* Handles, addresses and the generations bound stay what they were.       *)
Steady ==
  /\ par' = par /\ res' = res /\ told' = told /\ refused \subseteq refused'
  /\ \A p \in Homes :
       /\ obj'[p].stmt = obj[p].stmt /\ (obj'[p].prepared => obj[p].prepared)
       /\ obj'[p].boundPar = obj[p].boundPar /\ obj'[p].boundRes = obj[p].boundRes

(* Then the driver still knows what is in use.                             *)
LEMMA ToldKept == ASSUME Inv, Steady PROVE ToldInUse'
  <1>1. ASSUME NEW p \in Homes, NEW t, NEW R, NEW Q, R \subseteq Q, ToldOf(p, t, R)
        PROVE  ToldOf(p, t, Q)'
    <2>1. /\ par' = par /\ res' = res /\ (obj'[p].prepared => obj[p].prepared)
          /\ obj'[p].boundPar = obj[p].boundPar /\ obj'[p].boundRes = obj[p].boundRes
      BY DEF Steady
    <2>2. RowsTold(t, R) => RowsTold(t, Q)'
      BY <1>1, <2>1 DEF RowsTold
    <2>. QED
      BY <1>1, <2>1, <2>2 DEF ToldOf
  <1>2. ASSUME NEW h PROVE RefusedOf(h) \subseteq RefusedOf(h)'
    BY DEF Steady, RefusedOf
  <1>3. ASSUME NEW p \in Homes, obj'[p].stmt # NoHandle
        PROVE  ToldOf(p, told[obj[p].stmt], RefusedOf(obj[p].stmt))'
    <2>1. obj'[p].stmt = obj[p].stmt /\ told' = told
      BY DEF Steady
    <2>2. ToldOf(p, told[obj[p].stmt], RefusedOf(obj[p].stmt))
      BY <1>3, <2>1 DEF Inv, ToldInUse
    <2>3. ASSUME NEW h, h = obj[p].stmt, h = obj'[p].stmt
          PROVE  ToldOf(p, told[obj[p].stmt], RefusedOf(obj[p].stmt))'
      <3>1. RefusedOf(h) \subseteq RefusedOf(h)'
        BY <1>2
      <3>. QED
        BY <1>1, <2>1, <2>2, <2>3, <3>1
    <2>. QED
      BY <2>1, <2>3
  <1>. QED
    BY <1>3 DEF Inv, ToldInUse, Steady

(* prepare() that gets no handle keeps the stale one, and knows it.        *)
LEMMA PrepareNoHandleInv == ASSUME Inv, NEW o \in Homes, PrepareNoHandle(o) PROVE Inv'
  <1>1. /\ obj[o].db /\ live' = live \ {obj[o].stmt} /\ told' = told /\ handles' = handles
        /\ par' = par /\ res' = res /\ sizings' = sizings
        /\ refused' = refused /\ astray' = astray /\ missed' = missed /\ unprepared' = unprepared
        /\ obj' = [obj EXCEPT ![o].prepared = FALSE, ![o].stale = TRUE]
        /\ obj \in [Homes -> Objects]
    BY DEF PrepareNoHandle, buffers, Inv, TypeOK
  <1>2. misused' \in BOOLEAN /\ ~misused'
    BY UsesOwn DEF PrepareNoHandle
  <1>3. /\ obj' \in [Homes -> Objects] /\ Others(o)
        /\ obj'[o].db = obj[o].db /\ obj'[o].alive = obj[o].alive /\ obj'[o].stmt = obj[o].stmt
        /\ obj'[o].boundPar = obj[o].boundPar /\ obj'[o].boundRes = obj[o].boundRes
        /\ ~obj'[o].prepared /\ obj'[o].stale
    <2>. DEFINE r == [obj[o] EXCEPT !.prepared = FALSE, !.stale = TRUE]
    <2>1. /\ r \in Objects /\ r.db = obj[o].db /\ r.alive = obj[o].alive /\ r.stmt = obj[o].stmt
          /\ r.boundPar = obj[o].boundPar /\ r.boundRes = obj[o].boundRes /\ ~r.prepared /\ r.stale
      BY <1>1 DEF Objects
    <2>2. obj' = [obj EXCEPT ![o] = r]
      BY <1>1
    <2>. HIDE DEF r
    <2>. QED
      BY <2>1, <2>2, Replaced DEF Inv
  <1>4. live' = {}
    BY <1>1, OnlyOwn
  <1>5. TypeOK'
    BY <1>1, <1>2, <1>3, <1>4 DEF Inv, TypeOK
  <1>6. OneOwner'
    BY <1>1, <1>3 DEF Inv, OneOwner, Others
  <1>7. HandlesKnown'
    <2>1. \A p \in Homes : obj'[p].stmt = obj[p].stmt
      BY <1>3 DEF Others
    <2>2. \A p \in Homes : p # o => obj[p].stmt = NoHandle
      BY <1>1 DEF Inv, OneOwner
    <2>. QED
      BY <1>1, <1>3, <1>4, <2>1, <2>2 DEF Inv, HandlesKnown, Others
  <1>8. ToldInUse'
    <2>1. Steady
      BY <1>1, <1>3 DEF Steady, Others
    <2>. QED
      BY <2>1, ToldKept
  <1>. QED
    BY <1>1, <1>2, <1>5, <1>6, <1>7, <1>8 DEF Inv, GenerationsTell, NoDangling, NothingMissed

(* prepare() that got a handle.                                            *)
LEMMA PrepareInv == ASSUME Inv, NEW o \in Homes, Prepare(o) PROVE Inv'
  <1>. DEFINE h == handles + 1
  <1>1. /\ obj[o].db /\ handles < MaxHandles /\ handles' = h
        /\ live' = (live \ {obj[o].stmt}) \cup {h}
        /\ par' = par /\ res' = res /\ sizings' = sizings
        /\ astray' = astray /\ missed' = missed /\ unprepared' = unprepared
        /\ obj \in [Homes -> Objects] /\ told \in [1..MaxHandles -> Tellings]
        /\ par \in Buffers /\ res \in Buffers /\ handles \in 0..MaxHandles
    BY DEF Prepare, buffers, Inv, TypeOK
  <1>2. misused' \in BOOLEAN /\ ~misused'
    BY UsesOwn DEF Prepare
  <1>3. h \in 1..MaxHandles /\ h \in 0..MaxHandles /\ h # NoHandle /\ \A p \in Homes : obj[p].stmt # h
    <2>1. h \in 1..MaxHandles /\ h \in 0..MaxHandles /\ h # NoHandle
      BY <1>1, Db2QueryAssumption DEF NoHandle
    <2>2. ASSUME NEW p \in Homes PROVE obj[p].stmt # h
      BY <1>1 DEF Inv, HandlesKnown, Objects
    <2>. QED
      BY <2>1, <2>2
  <1>4. PICK s \in Stopped(o) \cup Complete(o) :
          /\ told' = [told EXCEPT ![h] = s.told] /\ Refuses(h, s.refused)
          /\ \/ obj' = [obj EXCEPT ![o].stmt = h, ![o].prepared = FALSE, ![o].stale = FALSE]
             \/ /\ s \in Complete(o)
                /\ obj' = [obj EXCEPT ![o].stmt = h, ![o].prepared = TRUE, ![o].stale = FALSE,
                                      ![o].boundPar = par.gen, ![o].boundRes = res.gen]
    BY DEF Prepare
  <1>. DEFINE t == s.told
              R == s.refused
  <1>5. /\ Known(o, t, R) /\ R \subseteq Attributes
        /\ s \in Complete(o) /\ HasP => t.processed = {o} \/ "params_processed" \in R
        /\ s \in Complete(o) /\ HasR => t.fetched = {o} \/ "rows_fetched" \in R
    BY PreparedTold
  <1>. HIDE DEF R
  <1>6. /\ obj' \in [Homes -> Objects] /\ Others(o)
        /\ obj'[o].db = obj[o].db /\ obj'[o].alive = obj[o].alive /\ obj'[o].stmt = h
        /\ ~obj'[o].stale
        /\ \/ ~obj'[o].prepared /\ obj'[o].boundPar = obj[o].boundPar /\ obj'[o].boundRes = obj[o].boundRes
           \/ obj'[o].prepared /\ s \in Complete(o) /\ obj'[o].boundPar = par.gen /\ obj'[o].boundRes = res.gen
    <2>1. CASE obj' = [obj EXCEPT ![o].stmt = h, ![o].prepared = FALSE, ![o].stale = FALSE]
      <3>. DEFINE r == [obj[o] EXCEPT !.stmt = h, !.prepared = FALSE, !.stale = FALSE]
      <3>1. /\ r \in Objects /\ r.db = obj[o].db /\ r.alive = obj[o].alive /\ r.stmt = h
            /\ r.boundPar = obj[o].boundPar /\ r.boundRes = obj[o].boundRes /\ ~r.prepared /\ ~r.stale
        BY <1>1, <1>3 DEF Objects
      <3>2. obj' = [obj EXCEPT ![o] = r]
        BY <1>1, <2>1
      <3>. HIDE DEF r
      <3>. QED
        BY <3>1, <3>2, Replaced DEF Inv
    <2>2. CASE /\ s \in Complete(o)
               /\ obj' = [obj EXCEPT ![o].stmt = h, ![o].prepared = TRUE, ![o].stale = FALSE,
                                     ![o].boundPar = par.gen, ![o].boundRes = res.gen]
      <3>1. par.gen \in Nat /\ res.gen \in Nat
        BY <1>1 DEF Buffers
      <3>. DEFINE r == [obj[o] EXCEPT !.stmt = h, !.prepared = TRUE, !.stale = FALSE,
                                      !.boundPar = par.gen, !.boundRes = res.gen]
      <3>2. /\ r \in Objects /\ r.db = obj[o].db /\ r.alive = obj[o].alive /\ r.stmt = h
            /\ r.boundPar = par.gen /\ r.boundRes = res.gen /\ r.prepared /\ ~r.stale
        BY <1>1, <1>3, <3>1 DEF Objects
      <3>3. obj' = [obj EXCEPT ![o] = r]
        BY <1>1, <2>2
      <3>. HIDE DEF r
      <3>. QED
        BY <2>2, <3>2, <3>3, Replaced DEF Inv
    <2>. QED
      BY <1>4, <2>1, <2>2
  <1>7. told' \in [1..MaxHandles -> Tellings] /\ told'[h] = t
    BY <1>1, <1>3, <1>4, <1>5 DEF Known
  <1>. HIDE DEF t
  <1>16. /\ refused' = refused \cup {<<h, a>> : a \in R}
         /\ refused' \subseteq (1..MaxHandles) \X Attributes
    <2>1. refused' = refused \cup {<<h, a>> : a \in R}
      BY <1>4 DEF Refuses, R
    <2>2. refused \subseteq (1..MaxHandles) \X Attributes
      BY DEF Inv, TypeOK
    <2>3. {<<h, a>> : a \in R} \subseteq (1..MaxHandles) \X Attributes
      BY <1>3, <1>5
    <2>. QED
      BY <2>1, <2>2, <2>3
  <1>17. ASSUME NEW g, g = h PROVE R \subseteq RefusedOf(g)'
    BY <1>5, <1>16, <1>17 DEF RefusedOf
  <1>. HIDE DEF h
  <1>8. live' = {h}
    BY <1>1, OnlyOwn
  <1>9. TypeOK'
    BY <1>1, <1>2, <1>3, <1>6, <1>7, <1>8, <1>16 DEF Inv, TypeOK
  <1>10. OneOwner'
    BY <1>1, <1>6 DEF Inv, OneOwner, Others
  <1>11. \A p \in Homes : p # o => obj'[p].stmt = NoHandle /\ ~obj'[p].prepared
    BY <1>1, <1>6 DEF Inv, OneOwner, Others
  <1>12. HandlesKnown'
    BY <1>1, <1>3, <1>6, <1>8, <1>11 DEF HandlesKnown, NoHandle
  <1>13. obj[o].boundPar <= par.gen /\ obj[o].boundRes <= res.gen /\ par.gen = par.at /\ res.gen = res.at
    BY DEF Inv, ToldInUse, GenerationsTell
  <1>14. ASSUME NEW u, NEW Q, u = t, R \subseteq Q PROVE ToldOf(o, u, Q)'
    <2>1. obj'[o].boundPar <= par.at /\ obj'[o].boundRes <= res.at
      BY <1>1, <1>6, <1>13 DEF Buffers
    <2>2. u.par \in {0, par.at} /\ u.cols \in {0, res.at} /\ par.at \in Nat /\ res.at \in Nat
      BY <1>1, <1>5, <1>14 DEF Known, Buffers
    <2>3. u.par # 0 => RowsTold(u, Q)'
      BY <1>1, <1>5, <1>14 DEF Known, RowsTold
    <2>4. /\ u.par # 0 => HasP /\ obj'[o].boundPar <= u.par /\ u.par <= par.at
          /\ u.cols # 0 => obj'[o].boundRes <= u.cols /\ u.cols <= res.at
      BY <1>5, <1>14, <2>1, <2>2 DEF Known
    <2>5. /\ obj'[o].prepared /\ HasP => u.processed = {o} \/ "params_processed" \in Q
          /\ obj'[o].prepared /\ HasR => u.fetched = {o} \/ "rows_fetched" \in Q
      <3>1. obj'[o].prepared => s \in Complete(o)
        BY <1>6
      <3>. QED
        BY <1>5, <1>14, <3>1
    <2>6. /\ u.par = 0 => u.size = 1
          /\ u.status \in {0, u.par} /\ (u.cols = 0 => u.page = 1) /\ u.page \in {1, res.rows}
          /\ u.processed \subseteq {o} /\ u.fetched \subseteq {o}
          /\ (HasP \/ u.processed = {}) /\ (HasR \/ u.fetched = {})
      BY <1>5, <1>14 DEF Known
    <2>. QED
      BY <1>1, <2>3, <2>4, <2>5, <2>6 DEF ToldOf
  <1>15. ToldInUse'
    <2>1. ASSUME NEW p \in Homes PROVE obj'[p].boundPar <= par.gen /\ obj'[p].boundRes <= res.gen
      BY <1>1, <1>6, <1>13 DEF Inv, ToldInUse, Others, Buffers
    <2>2. ToldOf(o, told[obj[o].stmt], RefusedOf(obj[o].stmt))'
      <3>1. ASSUME NEW g, g = h, g = obj'[o].stmt
            PROVE  ToldOf(o, told[obj[o].stmt], RefusedOf(obj[o].stmt))'
        <4>1. told'[g] = t /\ R \subseteq RefusedOf(g)'
          BY <1>7, <1>17, <3>1
        <4>. QED
          BY <1>14, <3>1, <4>1
      <3>. QED
        BY <1>6, <3>1
    <2>. QED
      BY <1>1, <1>3, <1>6, <1>11, <2>1, <2>2 DEF ToldInUse
  <1>18. NoDangling' /\ NothingMissed'
    BY <1>1, <1>16 DEF Inv, NoDangling, NothingMissed
  <1>. QED
    BY <1>1, <1>2, <1>9, <1>10, <1>12, <1>15, <1>18 DEF Inv, GenerationsTell

-----------------------------------------------------------------------------
(* A call that only counts: nothing the driver was told changes.           *)
Counts(o) ==
  /\ obj' \in [Homes -> Objects] /\ Others(o)
  /\ obj'[o].db = obj[o].db /\ obj'[o].alive = obj[o].alive /\ obj'[o].stmt = obj[o].stmt
  /\ obj'[o].boundPar = obj[o].boundPar /\ obj'[o].boundRes = obj[o].boundRes
  /\ obj'[o].prepared = obj[o].prepared /\ obj'[o].stale = obj[o].stale
  /\ live' = live /\ told' = told /\ handles' = handles /\ refused' = refused
  /\ par' = par /\ res' = res /\ sizings' = sizings

(* Such a call keeps what the invariant says of handles and addresses.     *)
LEMMA CountsKeep ==
  ASSUME Inv, NEW o \in Homes, Counts(o)
  PROVE  OneOwner' /\ HandlesKnown' /\ GenerationsTell' /\ ToldInUse'
  <1>1. ASSUME NEW p \in Homes
        PROVE  /\ obj'[p].stmt = obj[p].stmt /\ obj'[p].prepared = obj[p].prepared
               /\ obj'[p].boundPar = obj[p].boundPar /\ obj'[p].boundRes = obj[p].boundRes
               /\ obj'[p].db = obj[p].db /\ obj'[p].alive = obj[p].alive /\ obj'[p].stale = obj[p].stale
    BY DEF Counts, Others
  <1>2. OneOwner' /\ HandlesKnown'
    BY <1>1 DEF Inv, OneOwner, HandlesKnown, Counts
  <1>3. Steady
    BY <1>1 DEF Steady, Counts
  <1>. QED
    BY <1>2, <1>3, ToldKept DEF Inv, GenerationsTell, Counts

(* What the driver uses when a statement runs is in place, or it refused   *)
(* to learn of it.                                                         *)
InPlace(o, h) ==
  /\ \A a \in ParAstray(h) : <<h, a>> \in refused
  /\ \A a \in ParMissed(o, h) : <<h, a>> \in refused
  /\ HasR => \A a \in ResAstray(h) : <<h, a>> \in refused
  /\ obj[o].prepared /\ HasR => o \in told[h].fetched \/ <<h, "rows_fetched">> \in refused

LEMMA RunsInPlace ==
  ASSUME Inv, NEW o \in Homes, obj[o].db, is_prepared(o), LayoutOK(o), Runs(obj[o].stmt)
  PROVE  InPlace(o, obj[o].stmt)
  <1>. DEFINE h == obj[o].stmt
              t == told[h]
              R == RefusedOf(h)
  <1>1. ToldOf(o, t, R) /\ t \in Tellings
    BY DEF Inv, TypeOK, ToldInUse, is_prepared, Objects, NoHandle
  <1>2. /\ par.gen = par.at /\ res.gen = res.at /\ obj[o].alive /\ par.at \in Nat /\ res.at \in Nat
        /\ obj[o].boundPar \in Nat /\ obj[o].boundRes \in Nat
        /\ par.rows \in 1..MaxSize /\ res.rows \in 1..MaxSize
        /\ t.par \in Nat /\ t.cols \in Nat /\ t.status \in Nat
        /\ t.size \in 1..MaxSize /\ t.page \in 1..MaxSize
    BY <1>1 DEF Inv, TypeOK, GenerationsTell, OneOwner, Buffers, Objects, Tellings
  <1>3. HasP => t.par # 0
    BY DEF Runs
  <1>4. \A a \in Attributes : a \in R => <<h, a>> \in refused
    BY DEF RefusedOf
  <1>5. /\ \A a \in {"paramset_size", "params_processed", "param_status", "paramopt_atomic",
                     "row_array_size", "rows_fetched"} : a \in R => <<h, a>> \in refused
    BY <1>4 DEF Attributes
  <1>6. /\ HasP => t.par = par.at
        /\ HasR /\ t.cols # 0 => t.cols = res.at
    BY <1>1, <1>2, <1>3 DEF ToldOf, LayoutOK
  <1>7. HasP => RowsTold(t, R)
    BY <1>1, <1>3, <1>6 DEF ToldOf
  <1>. HIDE DEF R, t
  <1>8. \A a \in ParAstray(h) : <<h, a>> \in refused
    <2>1. t.size <= par.rows
      BY <1>1, <1>2, <1>3, <1>7 DEF ToldOf, RowsTold
    <2>2. t.status \in {0, par.at}
      BY <1>1, <1>3, <1>6 DEF ToldOf
    <2>3. ASSUME NEW p \in t.processed, ~obj[p].alive PROVE <<h, "params_processed">> \in refused
      BY <1>1, <1>2, <1>5, <2>3 DEF ToldOf
    <2>4. ~(HasP /\ t.par # par.at) /\ ~(t.size > par.rows) /\ ~(t.status \notin {0, par.at})
      BY <1>2, <1>6, <2>1, <2>2
    <2>. QED
      BY <2>3, <2>4 DEF ParAstray, t
  <1>9. \A a \in ParMissed(o, h) : <<h, a>> \in refused
    <2>1. ASSUME HasP, obj[o].prepared
          PROVE  /\ t.size # par.rows => <<h, "paramset_size">> \in refused
                 /\ t.processed # {o} => <<h, "params_processed">> \in refused
                 /\ par.rows > 1 /\ t.status # par.at => <<h, "param_status">> \in refused
                 /\ par.rows > 1 /\ ~t.each => <<h, "paramopt_atomic">> \in refused
      BY <1>1, <1>5, <1>7, <2>1 DEF ToldOf, RowsTold
    <2>. QED
      BY <2>1 DEF ParMissed, t
  <1>10. HasR => \A a \in ResAstray(h) : <<h, a>> \in refused
    <2>1. HasR => t.cols \in {0, res.at}
      BY <1>6
    <2>2. HasR => t.page <= res.rows
      BY <1>1, <1>2, <2>1 DEF ToldOf
    <2>3. ASSUME NEW p \in t.fetched, ~obj[p].alive PROVE <<h, "rows_fetched">> \in refused
      BY <1>1, <1>2, <1>5, <2>3 DEF ToldOf
    <2>4. HasR => ~(t.cols \notin {0, res.at}) /\ ~(t.page > res.rows)
      BY <1>2, <2>1, <2>2
    <2>. QED
      BY <2>3, <2>4 DEF ResAstray, t
  <1>11. obj[o].prepared /\ HasR => o \in t.fetched \/ <<h, "rows_fetched">> \in refused
    BY <1>1, <1>5 DEF ToldOf
  <1>. QED
    BY <1>8, <1>9, <1>10, <1>11 DEF InPlace, t

(* execute(): check_layout() keeps the driver from storage that is gone.   *)
LEMMA ExecuteInv == ASSUME Inv, NEW o \in Homes, Execute(o) PROVE Inv'
  <1>. DEFINE h == obj[o].stmt
  <1>1. /\ obj[o].db /\ is_prepared(o) /\ LayoutOK(o) /\ live' = live /\ told' = told /\ obj' = obj
        /\ handles' = handles /\ par' = par /\ res' = res /\ sizings' = sizings /\ refused' = refused
        /\ TypeOK /\ h \in 1..MaxHandles
    BY DEF Execute, buffers, Inv, TypeOK, Objects, is_prepared, NoHandle
  <1>2. misused' \in BOOLEAN /\ ~misused'
    BY UsesOwn DEF Execute
  <1>3. Counts(o)
    BY <1>1 DEF Counts, Others, TypeOK
  <1>. HIDE DEF h
  <1>4. CASE UNCHANGED <<astray, missed, unprepared>>
    <2>1. TypeOK'
      BY <1>1, <1>2, <1>4 DEF TypeOK
    <2>. QED
      BY <1>1, <1>2, <1>3, <1>4, <2>1, CountsKeep DEF Inv, NoDangling, NothingMissed
  <1>5. CASE ~UNCHANGED <<astray, missed, unprepared>>
    <2>1. /\ Runs(h) /\ astray' = astray \cup ({h} \X ParAstray(h))
          /\ missed' = missed \cup ({h} \X ParMissed(o, h))
          /\ unprepared' = (unprepared \/ ~obj[o].prepared)
      BY <1>5 DEF Execute, h
    <2>2. InPlace(o, h)
      BY <1>1, <2>1, RunsInPlace DEF h
    <2>3. NoDangling' /\ NothingMissed'
      BY <1>1, <2>1, <2>2 DEF InPlace, Inv, NoDangling, NothingMissed
    <2>4. unprepared' \in BOOLEAN
      BY <2>1
    <2>5. ParAstray(h) \subseteq Things /\ ParMissed(o, h) \subseteq Things
      BY DEF ParAstray, ParMissed
    <2>6. astray' \subseteq (1..MaxHandles) \X Things /\ missed' \subseteq (1..MaxHandles) \X Things
      BY <1>1, <2>1, <2>5 DEF TypeOK
    <2>7. TypeOK'
      BY <1>1, <1>2, <2>4, <2>6 DEF TypeOK
    <2>. QED
      BY <1>1, <1>2, <1>3, <2>3, <2>7, CountsKeep DEF Inv
  <1>. QED
    BY <1>4, <1>5

(* fetch(): the counter the driver writes is the one fetch() reads.        *)
LEMMA FetchInv == ASSUME Inv, NEW o \in Homes, Fetch(o) PROVE Inv'
  <1>. DEFINE h == obj[o].stmt
  <1>1. /\ obj[o].db /\ is_prepared(o) /\ LayoutOK(o) /\ HasR /\ live' = live /\ told' = told
        /\ handles' = handles /\ par' = par /\ res' = res /\ sizings' = sizings /\ refused' = refused
        /\ unprepared' = unprepared /\ obj \in [Homes -> Objects] /\ TypeOK /\ h \in 1..MaxHandles
    BY DEF Fetch, buffers, Inv, TypeOK, Objects, is_prepared, NoHandle
  <1>2. misused' \in BOOLEAN /\ ~misused'
    BY UsesOwn DEF Fetch
  <1>. HIDE DEF h
  <1>3. ASSUME obj' = obj PROVE Counts(o)
    BY <1>1, <1>3 DEF Counts, Others
  <1>4. CASE UNCHANGED <<obj, astray, missed>>
    <2>1. TypeOK'
      BY <1>1, <1>2, <1>4 DEF TypeOK
    <2>. QED
      BY <1>1, <1>2, <1>3, <1>4, <2>1, CountsKeep DEF Inv, NoDangling, NothingMissed
  <1>5. CASE ~UNCHANGED <<obj, astray, missed>>
    <2>1. /\ Runs(h) /\ astray' = astray \cup ({h} \X ResAstray(h))
          /\ \E n \in 0..told[h].page :
               /\ obj' = IF Counted(o, h, n) > res.rows THEN obj
                         ELSE [obj EXCEPT ![o].occupied = Counted(o, h, n)]
               /\ missed' = IF obj[o].prepared /\ n # Counted(o, h, n)
                            THEN missed \cup {<<h, "rows_fetched">>} ELSE missed
      BY <1>5 DEF Fetch, h
    <2>2. PICK n \in 0..told[h].page :
               /\ obj' = IF Counted(o, h, n) > res.rows THEN obj
                         ELSE [obj EXCEPT ![o].occupied = Counted(o, h, n)]
               /\ missed' = IF obj[o].prepared /\ n # Counted(o, h, n)
                            THEN missed \cup {<<h, "rows_fetched">>} ELSE missed
      BY <2>1
    <2>3. InPlace(o, h)
      BY <1>1, <2>1, RunsInPlace DEF h
    <2>4. Counts(o)
      <3>1. CASE Counted(o, h, n) > res.rows
        BY <1>3, <2>2, <3>1
      <3>2. CASE ~(Counted(o, h, n) > res.rows)
        <4>1. told[h].page \in Nat /\ res.rows \in 1..MaxSize
          BY <1>1 DEF TypeOK, Tellings, Buffers
        <4>2. Counted(o, h, n) \in Nat
          BY <4>1 DEF Counted
        <4>3. Counted(o, h, n) \in 0..MaxSize
          BY <3>2, <4>1, <4>2, Db2QueryAssumption
        <4>. DEFINE r == [obj[o] EXCEPT !.occupied = Counted(o, h, n)]
        <4>4. /\ r \in Objects /\ r.db = obj[o].db /\ r.alive = obj[o].alive /\ r.stmt = obj[o].stmt
              /\ r.boundPar = obj[o].boundPar /\ r.boundRes = obj[o].boundRes
              /\ r.prepared = obj[o].prepared /\ r.stale = obj[o].stale
          BY <1>1, <4>3 DEF Objects
        <4>5. obj' = [obj EXCEPT ![o] = r]
          BY <1>1, <2>2, <3>2
        <4>. HIDE DEF r
        <4>. QED
          BY <1>1, <4>4, <4>5, Replaced DEF Counts
      <3>. QED
        BY <3>1, <3>2
    <2>5. obj[o].prepared /\ n # Counted(o, h, n) => <<h, "rows_fetched">> \in refused
      BY <1>1, <2>3 DEF InPlace, Counted
    <2>6. NoDangling'
      BY <1>1, <2>1, <2>3 DEF InPlace, Inv, NoDangling
    <2>7. NothingMissed'
      BY <1>1, <2>2, <2>5 DEF Inv, NothingMissed
    <2>8. ResAstray(h) \subseteq Things /\ "rows_fetched" \in Things
      BY DEF ResAstray, Things, Attributes
    <2>9. astray' \subseteq (1..MaxHandles) \X Things
      BY <1>1, <2>1, <2>8 DEF TypeOK
    <2>10. missed' \subseteq (1..MaxHandles) \X Things
      BY <1>1, <2>2, <2>8 DEF TypeOK
    <2>11. TypeOK'
      BY <1>1, <1>2, <2>4, <2>9, <2>10 DEF TypeOK, Counts
    <2>. QED
      BY <1>1, <1>2, <2>4, <2>6, <2>7, <2>11, CountsKeep DEF Inv
  <1>. QED
    BY <1>4, <1>5

-----------------------------------------------------------------------------
(* A place that gave up its handle: reset(), and the end of the object.    *)
GivesUp(o) ==
  /\ obj' \in [Homes -> Objects] /\ Others(o)
  /\ obj'[o].stmt = NoHandle /\ ~obj'[o].prepared
  /\ obj'[o].db => obj[o].db
  /\ obj'[o].db => obj'[o].alive
  /\ obj'[o].boundPar \in {0, obj[o].boundPar} /\ obj'[o].boundRes \in {0, obj[o].boundRes}
  /\ live' = live \ {obj[o].stmt} /\ told' = told /\ handles' = handles
  /\ par' = par /\ res' = res /\ sizings' = sizings
  /\ misused' \in BOOLEAN /\ ~misused'
  /\ refused' = refused /\ astray' = astray /\ missed' = missed /\ unprepared' = unprepared

(* Giving the handle up keeps the invariant.                               *)
LEMMA GivesUpInv == ASSUME Inv, NEW o \in Homes, GivesUp(o) PROVE Inv'
  <1>1. TypeOK'
    BY DEF GivesUp, Inv, TypeOK
  <1>2. OneOwner'
    BY DEF GivesUp, Inv, OneOwner, Others
  <1>3. \A p \in Homes : p # o => obj'[p] = obj[p]
    BY DEF GivesUp, Others
  <1>4. HandlesKnown'
    <2>1. ASSUME NEW p \in Homes, p # o, obj[p].stmt # NoHandle PROVE obj[p].stmt # obj[o].stmt
      BY <2>1 DEF Inv, OneOwner
    <2>2. ASSUME NEW h \in live' PROVE \E p \in Homes : obj'[p].stmt = h
      <3>1. h \in live /\ h # obj[o].stmt
        BY DEF GivesUp
      <3>2. PICK p \in Homes : obj[p].stmt = h
        BY <3>1 DEF Inv, HandlesKnown
      <3>. QED
        BY <1>3, <3>1, <3>2
    <2>3. \A p \in Homes : obj'[p].stmt # NoHandle /\ ~obj'[p].stale => obj'[p].stmt \in live'
      BY <1>3, <2>1 DEF GivesUp, Inv, HandlesKnown
    <2>4. \A p \in Homes : obj'[p].stmt <= handles'
      BY <1>3 DEF GivesUp, Inv, HandlesKnown, TypeOK, NoHandle
    <2>. QED
      BY <2>2, <2>3, <2>4 DEF GivesUp, Inv, HandlesKnown
  <1>5. ToldInUse'
    <2>1. ASSUME NEW p \in Homes PROVE obj'[p].boundPar <= par.gen /\ obj'[p].boundRes <= res.gen
      BY <1>3 DEF GivesUp, Inv, ToldInUse, TypeOK, Buffers
    <2>2. ASSUME NEW p \in Homes, obj'[p].stmt # NoHandle
          PROVE  ToldOf(p, told[obj[p].stmt], RefusedOf(obj[p].stmt))'
      <3>1. p # o /\ obj'[p] = obj[p]
        BY <1>3, <2>2 DEF GivesUp
      <3>2. told' = told /\ refused' = refused /\ par' = par /\ res' = res
        BY DEF GivesUp
      <3>3. ToldOf(p, told[obj[p].stmt], RefusedOf(obj[p].stmt))
        BY <2>2, <3>1 DEF Inv, ToldInUse
      <3>. QED
        BY <3>1, <3>2, <3>3 DEF ToldOf, RowsTold, RefusedOf
    <2>. QED
      BY <1>3, <2>1, <2>2 DEF GivesUp, Inv, ToldInUse
  <1>. QED
    BY <1>1, <1>2, <1>4, <1>5 DEF GivesUp, Inv, GenerationsTell, NoDangling, NothingMissed

(* reset().                                                                *)
LEMMA ResetInv == ASSUME Inv, NEW o \in Homes, Reset(o) PROVE Inv'
  <1>. DEFINE r == Forgotten(obj[o])
  <1>1. /\ TypeOK /\ obj[o] \in Objects /\ (obj[o].db => obj[o].alive)
        /\ obj' = [obj EXCEPT ![o] = r]
    BY DEF Inv, TypeOK, OneOwner, Reset
  <1>2. /\ r \in Objects /\ r.stmt = NoHandle /\ ~r.prepared /\ r.db = obj[o].db /\ r.alive = obj[o].alive
        /\ r.boundPar = obj[o].boundPar /\ r.boundRes = obj[o].boundRes
    <2>1. 0 \in 0..MaxHandles /\ 0 \in 0..MaxSize
      BY Db2QueryAssumption
    <2>. QED
      BY <1>1, <2>1 DEF Forgotten, Objects, NoHandle
  <1>3. misused' \in BOOLEAN /\ ~misused'
    BY UsesOwn DEF Reset
  <1>. HIDE DEF r
  <1>4. obj' \in [Homes -> Objects] /\ Others(o) /\ obj'[o] = r
    BY <1>1, <1>2, Replaced
  <1>5. GivesUp(o)
    BY <1>1, <1>2, <1>3, <1>4 DEF GivesUp, Reset, buffers
  <1>. QED
    BY <1>5, GivesUpInv

(* ~query().                                                               *)
LEMMA DestroyInv == ASSUME Inv, NEW o \in Homes, Destroy(o) PROVE Inv'
  <1>1. TypeOK /\ obj' = [obj EXCEPT ![o] = NoObject]
    BY DEF Inv, Destroy
  <1>2. misused' \in BOOLEAN /\ ~misused'
    BY UsesOwn DEF Destroy
  <1>3. obj' \in [Homes -> Objects] /\ Others(o) /\ obj'[o] = NoObject
    BY <1>1, ObjectsType, Replaced
  <1>4. GivesUp(o)
    BY <1>2, <1>3, ObjectsType DEF GivesUp, Destroy, buffers, NoHandle
  <1>. QED
    BY <1>4, GivesUpInv

(* query(query&&): the handle, the generations and the counters go along.  *)
LEMMA MoveInv == ASSUME Inv, NEW o \in Homes, NEW p \in Homes, Move(o, p) PROVE Inv'
  <1>1. /\ obj[o].db /\ ~obj[p].alive /\ o # p /\ ~obj[p].db /\ obj[p].stmt = NoHandle
        /\ live' = live /\ handles' = handles /\ par' = par /\ res' = res /\ sizings' = sizings
        /\ astray' = astray /\ missed' = missed /\ unprepared' = unprepared
        /\ obj \in [Homes -> Objects] /\ told \in [1..MaxHandles -> Tellings] /\ TypeOK
    BY DEF Move, buffers, Inv, TypeOK, OneOwner
  <1>2. misused' \in BOOLEAN /\ ~misused'
    BY UsesOwn DEF Move
  <1>. DEFINE r == MovedFrom(obj[o])
  <1>3. /\ r \in Objects /\ r.stmt = NoHandle /\ ~r.db /\ ~r.prepared
        /\ r.boundPar = obj[o].boundPar /\ r.boundRes = obj[o].boundRes
    <2>1. 0 \in 0..MaxHandles
      BY Db2QueryAssumption
    <2>. QED
      BY <1>1, <2>1, ZenonT(40) DEF MovedFrom, Objects, NoHandle
  <1>. HIDE DEF r
  <1>4. /\ obj' \in [Homes -> Objects] /\ obj'[p] = obj[o] /\ obj'[o] = r
        /\ \A q \in Homes : q # o /\ q # p => obj'[q] = obj[q]
    <2>1. obj' = [obj EXCEPT ![p] = obj[o], ![o] = r]
      BY DEF Move, r
    <2>. QED
      BY <1>1, <1>3, <2>1
  <1>5. \A q \in Homes : q # p => obj'[q].stmt = NoHandle /\ ~obj'[q].prepared /\ ~obj'[q].db
    BY <1>1, <1>3, <1>4 DEF Inv, OneOwner
  <1>6. ASSUME obj[o].stmt # NoHandle
        PROVE  \E R \in SUBSET Counters :
                 /\ told' \in [1..MaxHandles -> Tellings]
                 /\ told'[obj[o].stmt] = Rebound(told[obj[o].stmt], p, R)
                 /\ refused' = refused \cup {<<obj[o].stmt, a>> : a \in R}
                 /\ refused' \subseteq (1..MaxHandles) \X Attributes
    <2>1. obj[o].stmt \in 1..MaxHandles
      BY <1>1, <1>6 DEF Objects, NoHandle
    <2>2. PICK R \in SUBSET Counters :
            /\ told' = [told EXCEPT ![obj[o].stmt] = Rebound(@, p, R)] /\ Refuses(obj[o].stmt, R)
      BY <1>6 DEF Move, is_prepared
    <2>3. ASSUME NEW t \in Tellings PROVE Rebound(t, p, R) \in Tellings
      <3>. DEFINE pp == IF "params_processed" \in Counters \ R THEN {p} ELSE t.processed
                  fe == IF "rows_fetched" \in Counters \ R THEN {p} ELSE t.fetched
      <3>1. pp \in SUBSET Homes /\ fe \in SUBSET Homes
        BY DEF Tellings
      <3>2. Rebound(t, p, R) = [t EXCEPT !.processed = pp, !.fetched = fe]
        BY DEF Rebound, Tellings
      <3>. HIDE DEF pp, fe
      <3>. QED
        BY <3>1, <3>2 DEF Tellings
    <2>4. refused' = refused \cup {<<obj[o].stmt, a>> : a \in R}
      BY <2>2 DEF Refuses
    <2>5. R \subseteq Attributes
      BY DEF Counters, Attributes
    <2>6. refused' \subseteq (1..MaxHandles) \X Attributes
      BY <1>1, <2>1, <2>4, <2>5 DEF TypeOK
    <2>. QED
      BY <1>1, <2>1, <2>2, <2>3, <2>4, <2>6
  <1>7. told' \in [1..MaxHandles -> Tellings] /\ refused' \subseteq (1..MaxHandles) \X Attributes
        /\ refused \subseteq refused'
    BY <1>1, <1>6 DEF Move, is_prepared, TypeOK
  <1>8. TypeOK'
    BY <1>1, <1>2, <1>4, <1>7 DEF TypeOK
  <1>9. OneOwner'
    BY <1>1, <1>4, <1>5 DEF Inv, OneOwner
  <1>10. HandlesKnown'
    <2>1. live \subseteq {obj[o].stmt}
      BY <1>1, OnlyOwn
    <2>2. \A q \in Homes : obj'[q].stmt <= handles
      BY <1>1, <1>4, <1>5 DEF Inv, HandlesKnown, TypeOK, NoHandle
    <2>3. \A q \in Homes : obj'[q].stmt # NoHandle /\ ~obj'[q].stale => obj'[q].stmt \in live
      BY <1>4, <1>5 DEF Inv, HandlesKnown
    <2>. QED
      BY <1>1, <1>4, <2>1, <2>2, <2>3 DEF Inv, HandlesKnown
  <1>11. ToldInUse'
    <2>1. \A q \in Homes : obj'[q].boundPar <= par.gen /\ obj'[q].boundRes <= res.gen
      BY <1>3, <1>4 DEF Inv, ToldInUse
    <2>2. ASSUME obj[o].stmt # NoHandle PROVE ToldOf(p, told[obj[p].stmt], RefusedOf(obj[p].stmt))'
      <3>1. PICK R \in SUBSET Counters :
              /\ told'[obj[o].stmt] = Rebound(told[obj[o].stmt], p, R)
              /\ refused' = refused \cup {<<obj[o].stmt, a>> : a \in R}
        BY <1>6, <2>2
      <3>2. obj[o].stmt \in 1..MaxHandles
        BY <1>1, <2>2 DEF Objects, NoHandle
      <3>3. ToldOf(o, told[obj[o].stmt], RefusedOf(obj[o].stmt)) /\ told[obj[o].stmt] \in Tellings
        BY <1>1, <2>2, <3>2 DEF Inv, ToldInUse
      <3>4. ASSUME NEW t \in Tellings, NEW Q, NEW S, ToldOf(o, t, Q), Q \subseteq S, R \subseteq S,
                   NEW u, u = Rebound(t, p, R)
            PROVE  ToldOf(p, u, S)'
        <4>1. /\ u.par = t.par /\ u.cols = t.cols /\ u.size = t.size /\ u.page = t.page /\ u.status = t.status
              /\ u.processed = IF "params_processed" \in Counters \ R THEN {p} ELSE t.processed
              /\ u.fetched = IF "rows_fetched" \in Counters \ R THEN {p} ELSE t.fetched
          BY <3>4 DEF Rebound, Tellings
        <4>2. u.each = t.each
          BY <3>4 DEF Rebound, Tellings
        <4>3. /\ HasP => u.processed = {p} \/ "params_processed" \in S
              /\ HasR => u.fetched = {p} \/ "rows_fetched" \in S
              /\ (HasP \/ u.processed = {}) /\ (HasR \/ u.fetched = {})
          BY <3>4, <4>1 DEF ToldOf, Counters
        <4>4. u.processed \subseteq {p} \/ "params_processed" \in S
          BY <4>3
        <4>5. u.fetched \subseteq {p} \/ "rows_fetched" \in S
          BY <4>3
        <4>6. RowsTold(t, Q) => RowsTold(u, S)'
          BY <1>1, <3>4, <4>1, <4>2 DEF RowsTold
        <4>7. obj'[p] = obj[o]
          BY <1>4
        <4>. QED
          BY <1>1, <3>4, <4>1, <4>3, <4>4, <4>5, <4>6, <4>7 DEF ToldOf
      <3>5. ASSUME NEW h, h = obj[o].stmt, h = obj'[p].stmt
            PROVE  ToldOf(p, told[obj[p].stmt], RefusedOf(obj[p].stmt))'
        <4>1. RefusedOf(h) \subseteq RefusedOf(h)' /\ R \subseteq RefusedOf(h)'
          BY <3>1, <3>5 DEF RefusedOf, Counters, Attributes
        <4>. QED
          BY <3>1, <3>3, <3>4, <3>5, <4>1
      <3>. QED
        BY <1>4, <3>5
    <2>3. \A q \in Homes : obj'[q].prepared => obj'[q].stmt # NoHandle
      BY <1>4, <1>5 DEF Inv, ToldInUse
    <2>. QED
      BY <1>1, <1>4, <1>5, <2>1, <2>2, <2>3 DEF ToldInUse
  <1>12. NoDangling' /\ NothingMissed'
    BY <1>1, <1>7 DEF Inv, NoDangling, NothingMissed
  <1>. QED
    BY <1>1, <1>2, <1>8, <1>9, <1>10, <1>11, <1>12 DEF Inv, GenerationsTell

-----------------------------------------------------------------------------
(* Every step keeps the invariant.                                         *)
LEMMA NextInv == ASSUME Inv, [Next]_vars PROVE Inv'
  <1>1. CASE UNCHANGED vars
    <2>. USE <1>1 DEF vars
    <2>1. TypeOK' /\ OneOwner'
      BY DEF Inv, TypeOK, OneOwner
    <2>2. HandlesKnown' /\ GenerationsTell'
      BY DEF Inv, HandlesKnown, GenerationsTell
    <2>3. ASSUME NEW o \in Homes, obj'[o].stmt # NoHandle
          PROVE  ToldOf(o, told[obj[o].stmt], RefusedOf(obj[o].stmt))'
      <3>1. ToldOf(o, told[obj[o].stmt], RefusedOf(obj[o].stmt))
        BY <2>3 DEF Inv, ToldInUse
      <3>2. RefusedOf(obj[o].stmt)' = RefusedOf(obj[o].stmt)
        BY DEF RefusedOf
      <3>. QED
        BY <3>1, <3>2 DEF ToldOf, RowsTold
    <2>4. ToldInUse'
      BY <2>3 DEF Inv, ToldInUse
    <2>5. ~misused' /\ NoDangling' /\ NothingMissed'
      BY DEF Inv, NoDangling, NothingMissed
    <2>. QED
      BY <2>1, <2>2, <2>4, <2>5 DEF Inv
  <1>. QED
    BY <1>1, PrepareNoHandleInv, PrepareInv, ExecuteInv, FetchInv, ResetInv, DestroyInv, MoveInv,
       ResizeInv DEF Next

(* The invariant holds of every behaviour.                                 *)
LEMMA SpecInv == Spec => []Inv
  BY InitInv, NextInv, PTL DEF Spec

(* Through failed prepares, moves and resets, every statement handle the   *)
(* driver has is owned by one object, and none is used or freed that the   *)
(* driver does not have, the stale one excepted.                           *)
THEOREM HandlesSoundThm == Spec => []HandlesSound
  <1>1. ASSUME Inv PROVE HandlesSound
    <2>1. TypeOK /\ HandlesValid
      BY <1>1 DEF Inv, HandlesValid
    <2>2. live \subseteq {obj[o].stmt : o \in Homes}
      BY <1>1 DEF Inv, HandlesKnown
    <2>3. ASSUME NEW o \in Homes, NEW p \in Homes, obj[o].stmt \in live, obj[o].stmt = obj[p].stmt
          PROVE  o = p
      <3>1. obj[o].stmt # NoHandle /\ obj[p].stmt # NoHandle
        BY <1>1, <2>3 DEF Inv, TypeOK, NoHandle
      <3>. QED
        BY <1>1, <3>1 DEF Inv, OneOwner
    <2>. QED
      BY <2>1, <2>2, <2>3 DEF HandlesSound, NoHandleLeak
  <1>2. Inv => HandlesSound
    BY <1>1
  <1>. QED
    BY <1>2, SpecInv, PTL

(* check_layout() and the rebinding of a move suffice: the driver never    *)
(* touches a buffer that was resized since prepare(), rows it does not     *)
(* have, or a counter of an object that is gone, fetch() counts every row  *)
(* delivered and execute() runs and reports every parameter row, each      *)
(* unless the driver refused the attribute that this rests on.             *)
THEOREM BoundInUseThm == Spec => []BoundInUse
  <1>1. Inv => BoundInUse
    BY DEF Inv, BoundInUse
  <1>. QED
    BY <1>1, SpecInv, PTL

-----------------------------------------------------------------------------
(* The buffers a query binds, which Buffers calls mpar and mres.           *)

(* What an element of a column's array may hold, and what a buffer of a    *)
(* column of category c is.                                                *)
Cells == Bytes \cup {0} \cup {B!Day(y, bc) : y \in Years \cup {0}, bc \in BOOLEAN}
ColumnBuffers ==
  [rows : 1..MaxRows, mem : Seq(Cells), ind : Seq(Int), store : Nat, refs : Nat,
   nulled : SUBSET Nat]
Shaped(b, c) ==
  /\ b \in ColumnBuffers /\ Len(b.mem) = b.rows * B!Stride(c) /\ Len(b.ind) = b.rows
  /\ \A r \in 1..b.rows : b.ind[r] \in -1..(L + 1)
ResultIndicators(b, c) ==
  \A r \in 1..b.rows :
    b.ind[r] <= L /\ (c \notin B!StringCats /\ r \notin b.nulled => b.ind[r] # -1)
OnlyRow(b, z, k, c) ==
  /\ z.rows = b.rows
  /\ \A r \in 1..b.rows : r # k => z.ind[r] = b.ind[r] /\ (r \in z.nulled <=> r \in b.nulled)
  /\ \A i \in 1..Len(b.mem) :
       i \notin ((k - 1) * B!Stride(c) + 1)..((k - 1) * B!Stride(c) + B!Stride(c)) => z.mem[i] = b.mem[i]
IsSet(b, z, k, v) ==
  z = [b EXCEPT !.mem = B!Put(@, B!Offset(k), B!Image(v)), !.ind = B!Indicated(@, k, v)]
Sendable(v) ==
  /\ cat \in B!StringCats => v \in Seq(Bytes) /\ Len(v) <= L /\ v # Null
  /\ cat \notin B!StringCats => Len(v) = 1
  /\ cat = "c_string" => 0 \notin Bytes
Emptied(z, rows) ==
  z.mem = [i \in 1..(rows * B!Stride(cat)) |-> B!Zero(cat)] /\ z.ind = [r \in 1..rows |-> 0]
RowValues == Seq(Cells) \cup {Null}
ShortTexts(b) == \A r \in 1..b.rows : b.ind[r] <= L
RowSent(b, r, v) == B!Getter(b, r) = v /\ B!Marshal(b, r) = B!Arrives(v)

(* The inductive invariant of the buffers.                                 *)
BufferInv ==
  /\ cat \in B!Cats /\ moves \in 2..MaxMoves /\ wild \in BOOLEAN /\ careless \in BOOLEAN
  /\ Shaped(mpar, cat) /\ (~careless => ShortTexts(mpar))
  /\ Shaped(mres, cat) /\ ResultIndicators(mres, cat)
  /\ want \in Seq(RowValues) /\ Len(want) = mpar.rows
  /\ got \in Seq(RowValues) /\ Len(got) <= mres.rows
  /\ wild => careless

(* Products of rows and widths keep the order.                             *)
LEMMA TimesMonotone ==
  ASSUME NEW a \in Nat, NEW b \in Nat, NEW s \in Nat, a <= b
  PROVE  a * s <= b * s /\ a * s \in Nat /\ b * s \in Nat
  OBVIOUS

LEMMA TimesStep ==
  ASSUME NEW a \in Nat, NEW s \in Nat
  PROVE  (a + 1) * s = a * s + s
  OBVIOUS

(* A row lies inside of the array.                                         *)
LEMMA RowInside ==
  ASSUME NEW r \in Nat \ {0}, NEW n \in Nat, r <= n, NEW s \in Nat
  PROVE  (r - 1) * s \in Nat /\ (r - 1) * s + s <= n * s
  <1>1. (r - 1) \in Nat /\ (r - 1) + 1 = r
    OBVIOUS
  <1>2. ((r - 1) + 1) * s = (r - 1) * s + s
    BY <1>1, TimesStep
  <1>3. r * s <= n * s
    BY TimesMonotone
  <1>. QED
    BY <1>1, <1>2, <1>3

(* Two rows do not overlap.                                                *)
LEMMA RowsApart ==
  ASSUME NEW r \in Nat \ {0}, NEW k \in Nat \ {0}, r # k, NEW s \in Nat
  PROVE  (r - 1) * s + s <= (k - 1) * s \/ (k - 1) * s + s <= (r - 1) * s
  <1>1. CASE r < k
    <2>1. r <= k - 1 /\ k - 1 \in Nat
      BY <1>1
    <2>. QED
      BY <2>1, RowInside
  <1>2. CASE k < r
    <2>1. k <= r - 1 /\ r - 1 \in Nat
      BY <1>2
    <2>. QED
      BY <2>1, RowInside
  <1>. QED
    BY <1>1, <1>2

(* Put keeps the array's size, and its elements are cells.                 *)
LEMMA PutShape ==
  ASSUME NEW C, NEW mem \in Seq(C), NEW at \in Nat, NEW w \in Seq(C)
  PROVE  B!Put(mem, at, w) \in Seq(C) /\ Len(B!Put(mem, at, w)) = Len(mem)
  <1>1. PICK n \in Nat : n = Len(mem) /\ DOMAIN mem = 1..n
    OBVIOUS
  <1>2. B!Put(mem, at, w) = [i \in 1..n |-> IF i \in (at + 1)..(at + Len(w)) THEN w[i - at] ELSE mem[i]]
    BY <1>1 DEF B!Put
  <1>3. \A i \in 1..n : (IF i \in (at + 1)..(at + Len(w)) THEN w[i - at] ELSE mem[i]) \in C
    <2>. SUFFICES ASSUME NEW i \in 1..n
         PROVE  (IF i \in (at + 1)..(at + Len(w)) THEN w[i - at] ELSE mem[i]) \in C
      OBVIOUS
    <2>1. mem[i] \in C
      BY <1>1
    <2>2. ASSUME i \in (at + 1)..(at + Len(w)) PROVE w[i - at] \in C
      <3>1. i - at \in 1..Len(w)
        BY <2>2
      <3>. QED
        BY <3>1
    <2>. QED
      BY <2>1, <2>2
  <1>4. B!Put(mem, at, w) \in [1..n -> C]
    BY <1>2, <1>3
  <1>. QED
    BY <1>1, <1>4

(* A function on 1..n is a sequence of n elements.                         *)
LEMMA FunctionIsSeq ==
  ASSUME NEW S, NEW n \in Nat, NEW d \in [1..n -> S]
  PROVE  d \in Seq(S) /\ Len(d) = n
  OBVIOUS

(* A stretch of an array, element by element.                              *)
LEMMA StretchIs ==
  ASSUME NEW C, NEW mem \in Seq(C), NEW f \in Nat, NEW n \in Nat, f + n <= Len(mem)
  PROVE  SubSeq(mem, f + 1, f + n) = [i \in 1..n |-> mem[f + i]]
  <1>1. (f + n) - (f + 1) + 1 = n
    OBVIOUS
  <1>. QED
    BY <1>1

(* One element of a sequence, as a sequence.                               *)
LEMMA OneOfSeq ==
  ASSUME NEW S, NEW d \in Seq(S), NEW k \in 1..Len(d)
  PROVE  SubSeq(d, k, k) = <<d[k]>>
  <1>1. k \in Nat /\ k - 1 \in Nat /\ (k - 1) + 1 = k
    OBVIOUS
  <1>2. SubSeq(d, (k - 1) + 1, (k - 1) + 1) = [i \in 1..1 |-> d[(k - 1) + i]]
    BY <1>1, StretchIs
  <1>3. [i \in 1..1 |-> d[(k - 1) + i]] = <<d[k]>>
    BY <1>1
  <1>. QED
    BY <1>1, <1>2, <1>3

(* What Put wrote is read back.                                            *)
LEMMA PutRead ==
  ASSUME NEW C, NEW mem \in Seq(C), NEW at \in Nat, NEW w \in Seq(C), NEW n \in Nat,
         n <= Len(w), at + Len(w) <= Len(mem)
  PROVE  SubSeq(B!Put(mem, at, w), at + 1, at + n) = SubSeq(w, 1, n)
  <1>. DEFINE p == B!Put(mem, at, w)
  <1>1. p \in Seq(C) /\ Len(p) = Len(mem)
    BY PutShape
  <1>2. \A i \in 1..n : p[at + i] = w[i]
    BY DEF B!Put
  <1>. HIDE DEF p
  <1>3. SubSeq(p, at + 1, at + n) = [i \in 1..n |-> p[at + i]]
    BY <1>1
  <1>4. SubSeq(w, 1, n) = [i \in 1..n |-> w[i]]
    OBVIOUS
  <1>5. [i \in 1..n |-> p[at + i]] = [i \in 1..n |-> w[i]]
    BY <1>2
  <1>. QED
    BY <1>3, <1>4, <1>5 DEF p

(* Put writes the elements it is given room for, and no others.            *)
LEMMA PutWrites ==
  ASSUME NEW C, NEW mem \in Seq(C), NEW at \in Nat, NEW w \in Seq(C), NEW s \in Nat, Len(w) <= s,
         NEW i \in 1..Len(mem), i \notin (at + 1)..(at + s)
  PROVE  B!Put(mem, at, w)[i] = mem[i]
  <1>1. i \in DOMAIN mem /\ i \notin (at + 1)..(at + Len(w))
    OBVIOUS
  <1>. QED
    BY <1>1 DEF B!Put

(* An element of an array has a width.                                     *)
LEMMA StrideType ==
  ASSUME B!ConstantsOK, NEW c \in B!Cats
  PROVE  B!Stride(c) \in Nat \ {0} /\ B!Stride(c) <= L + 1 /\ L \in Nat \ {0}
         /\ (c \in B!StringCats => L <= B!Stride(c)) /\ (c \in B!Terminated => B!Stride(c) = L + 1)
         /\ (c = "b_string" => B!Stride(c) = L) /\ (c \notin B!StringCats => B!Stride(c) = 1)
  <1>1. L \in Nat \ {0}
    BY DEF B!ConstantsOK
  <1>. QED
    BY <1>1 DEF B!Stride, B!Cats, B!StringCats, B!Terminated

(* Sequences of bytes are sequences of cells.                              *)
LEMMA BytesAreCells ==
  ASSUME NEW v \in Seq(Bytes)
  PROVE  v \in Seq(Cells)
  <1>1. PICK n \in Nat : v \in [1..n -> Bytes]
    OBVIOUS
  <1>2. v \in [1..n -> Cells]
    BY <1>1 DEF Cells
  <1>. QED
    BY <1>2

(* What callers and server hand over: bytes for a string, one element for  *)
(* the others.                                                             *)
LEMMA ValuesType ==
  ASSUME cat \in B!Cats, NEW eras \in SUBSET BOOLEAN, NEW v \in B!Values(eras), B!ConstantsOK
  PROVE  /\ v \in Seq(Cells)
         /\ cat \in B!StringCats => v \in Seq(Bytes) /\ v \in B!Strings
         /\ cat \notin B!StringCats => Len(v) = 1
         /\ cat = "structure" => \E y \in Years, bc \in eras : v = <<B!Day(y, bc)>>
  <1>1. CASE cat \in B!StringCats
    <2>1. v \in B!Strings
      BY <1>1 DEF B!Values, B!StringCats, B!Terminated
    <2>2. PICK n \in 0..MaxLen : v \in [1..n -> Bytes]
      BY <2>1 DEF B!Strings
    <2>3. n \in Nat
      BY DEF B!ConstantsOK
    <2>4. v \in Seq(Bytes)
      BY <2>2, <2>3
    <2>. QED
      BY <1>1, <2>1, <2>4, BytesAreCells DEF B!StringCats, B!Terminated
  <1>2. CASE cat = "atomic"
    <2>1. PICK b \in Bytes : v = <<b>>
      BY <1>2 DEF B!Values, B!StringCats, B!Terminated
    <2>2. b \in Cells
      BY DEF Cells
    <2>. QED
      BY <1>2, <2>1, <2>2 DEF B!StringCats, B!Terminated
  <1>3. CASE cat = "structure"
    <2>1. PICK y \in Years, bc \in eras : v = <<B!Day(y, bc)>>
      BY <1>3 DEF B!Values, B!StringCats, B!Terminated
    <2>2. B!Day(y, bc) \in Cells
      BY DEF Cells
    <2>. QED
      BY <1>3, <2>1, <2>2 DEF B!StringCats, B!Terminated
  <1>. QED
    BY <1>1, <1>2, <1>3 DEF B!Cats, B!StringCats, B!Terminated

(* A cut string is as long as the width allows, and begins the string.     *)
LEMMA CutType ==
  ASSUME NEW C, NEW v \in Seq(C), NEW n \in Nat
  PROVE  B!Cut(v, n) \in Seq(C) /\ Len(B!Cut(v, n)) <= n
  <1>1. CASE Len(v) > n
    <2>1. SubSeq(v, 1, n) \in Seq(C) /\ Len(SubSeq(v, 1, n)) = n
      BY <1>1
    <2>. QED
      BY <1>1, <2>1 DEF B!Cut
  <1>2. CASE ~(Len(v) > n)
    BY <1>2 DEF B!Cut
  <1>. QED
    BY <1>1, <1>2

(* A null behind a string.                                                 *)
LEMMA AppendZero ==
  ASSUME NEW v \in Seq(Cells)
  PROVE  Append(v, 0) \in Seq(Cells) /\ Len(Append(v, 0)) = Len(v) + 1
  BY DEF Cells

(* The offset of a row is one.                                             *)
LEMMA OffsetType ==
  ASSUME B!ConstantsOK, cat \in B!Cats, NEW r \in Nat \ {0}
  PROVE  B!Offset(r) \in Nat
  <1>1. B!Stride(cat) \in Nat
    BY StrideType
  <1>2. r <= r
    OBVIOUS
  <1>. QED
    BY <1>1, <1>2, RowInside DEF B!Offset

(* An element {} is a cell.                                                *)
LEMMA ZeroCell ==
  ASSUME NEW c
  PROVE  B!Zero(c) \in Cells
  <1>1. ASSUME NEW y \in Years \cup {0}, NEW bc \in BOOLEAN PROVE B!Day(y, bc) \in Cells
    BY DEF Cells
  <1>2. B!Day(0, FALSE) \in Cells
    BY <1>1
  <1>3. 0 \in Cells
    BY DEF Cells
  <1>. QED
    BY <1>2, <1>3 DEF B!Zero

(* A storage that was just sized.                                          *)
LEMMA SizedShape ==
  ASSUME B!ConstantsOK, cat \in B!Cats, NEW rows \in 1..MaxRows, NEW store \in Nat,
         NEW z, z = B!Sized(rows, store)
  PROVE  /\ Shaped(z, cat) /\ ResultIndicators(z, cat) /\ z.rows = rows
         /\ Emptied(z, rows)
  <1>1. PICK s \in Nat : s = B!Stride(cat)
    BY StrideType
  <1>2. rows \in Nat /\ L \in Nat /\ rows * s \in Nat
    BY DEF B!ConstantsOK
  <1>3. B!Zero(cat) \in Cells
    BY ZeroCell
  <1>4. [i \in 1..(rows * s) |-> B!Zero(cat)] \in Seq(Cells) /\ Len([i \in 1..(rows * s) |-> B!Zero(cat)]) = rows * s
    <2>. PICK n \in Nat : n = rows * s
      BY <1>2
    <2>1. [i \in 1..n |-> B!Zero(cat)] \in [1..n -> Cells]
      BY <1>3
    <2>2. [i \in 1..n |-> B!Zero(cat)] \in Seq(Cells) /\ Len([i \in 1..n |-> B!Zero(cat)]) = n
      BY <2>1
    <2>. QED
      BY <2>2
  <1>5. [r \in 1..rows |-> 0] \in Seq(Int) /\ Len([r \in 1..rows |-> 0]) = rows
    BY <1>2
  <1>6. z = [rows |-> rows, mem |-> [i \in 1..(rows * s) |-> B!Zero(cat)],
             ind |-> [r \in 1..rows |-> 0], store |-> store, refs |-> store,
             nulled |-> {}]
    BY <1>1 DEF B!Sized
  <1>7. z.rows = rows /\ z.mem = [i \in 1..(rows * s) |-> B!Zero(cat)] /\ z.ind = [r \in 1..rows |-> 0]
        /\ z.store = store /\ z.refs = store
    BY <1>6
  <1>8. z \in ColumnBuffers
    BY <1>4, <1>5, <1>6 DEF ColumnBuffers
  <1>9. Shaped(z, cat)
    BY <1>1, <1>2, <1>4, <1>5, <1>7, <1>8 DEF Shaped
  <1>10. ResultIndicators(z, cat)
    BY <1>2, <1>7 DEF ResultIndicators
  <1>. QED
    BY <1>1, <1>7, <1>9, <1>10 DEF Emptied

(* Its indicators are 0.                                                   *)
LEMMA SizedTexts ==
  ASSUME B!ConstantsOK, cat \in B!Cats, NEW rows \in 1..MaxRows, NEW store \in Nat,
         NEW z, z = B!Sized(rows, store)
  PROVE  Shaped(z, cat) /\ z.rows = rows /\ ShortTexts(z)
  <1>1. Shaped(z, cat) /\ z.rows = rows /\ ResultIndicators(z, cat)
    BY SizedShape
  <1>. QED
    BY <1>1 DEF ResultIndicators, ShortTexts

(* What the caller finds in a fresh buffer.                                *)
LEMMA FreshType ==
  ASSUME NEW rows \in Nat
  PROVE  B!Fresh(rows) \in Seq(RowValues) /\ Len(B!Fresh(rows)) = rows
  <1>1. B!Zero(cat) \in Cells
    BY ZeroCell
  <1>2. <<>> \in Seq(Cells) /\ <<B!Zero(cat)>> \in Seq(Cells)
    BY <1>1
  <1>3. B!Fresh(rows) \in [1..rows -> RowValues]
    BY <1>2 DEF B!Fresh, RowValues
  <1>. QED
    BY <1>3

(* Positive(n) is a number of rows.                                        *)
LEMMA PositiveType ==
  ASSUME B!ConstantsOK, NEW n \in 0..MaxRows
  PROVE  B!Positive(n) \in 1..MaxRows
  BY DEF B!ConstantsOK, B!Positive

(* A step that writes one row of a buffer leaves what every other row      *)
(* holds.                                                                  *)
LEMMA OtherRows ==
  ASSUME B!ConstantsOK, cat \in B!Cats, NEW b, NEW z, Shaped(b, cat), Shaped(z, cat),
         NEW k \in Nat \ {0}, OnlyRow(b, z, k, cat),
         NEW r \in 1..b.rows, r # k, NEW n \in Nat, n <= B!Stride(cat)
  PROVE  B!Stretch(z, r, n) = B!Stretch(b, r, n)
  <1>1. PICK s \in Nat : s = B!Stride(cat)
    BY StrideType
  <1>2. b.rows \in Nat /\ b.mem \in Seq(Cells) /\ z.mem \in Seq(Cells) /\ z.rows = b.rows
        /\ Len(b.mem) = b.rows * s /\ Len(z.mem) = Len(b.mem)
    BY <1>1 DEF Shaped, ColumnBuffers, OnlyRow
  <1>3. r \in Nat \ {0} /\ r <= b.rows
    BY <1>2
  <1>4. PICK f \in Nat : f = (r - 1) * s
    BY <1>2, <1>3, RowInside
  <1>5. PICK g \in Nat : g = (k - 1) * s
    <2>1. k <= k
      OBVIOUS
    <2>. QED
      BY <2>1, RowInside
  <1>6. f + s <= Len(b.mem)
    BY <1>2, <1>3, <1>4, RowInside
  <1>7. f + s <= g \/ g + s <= f
    BY <1>3, <1>4, <1>5, RowsApart
  <1>8. \A i \in 1..Len(b.mem) : i \notin (g + 1)..(g + s) => z.mem[i] = b.mem[i]
    BY <1>1, <1>5 DEF OnlyRow
  <1>9. n <= s
    BY <1>1
  <1>10. \A i \in 1..n : z.mem[f + i] = b.mem[f + i]
    <2>. SUFFICES ASSUME NEW i \in 1..n PROVE z.mem[f + i] = b.mem[f + i]
      OBVIOUS
    <2>1. f + i \in 1..Len(b.mem) /\ f + i \notin (g + 1)..(g + s)
      BY <1>2, <1>6, <1>7, <1>9
    <2>. QED
      BY <1>8, <2>1
  <1>11. PICK bm \in Seq(Cells) : bm = b.mem
    BY <1>2
  <1>12. PICK zm \in Seq(Cells) : zm = z.mem
    BY <1>2
  <1>13. SubSeq(zm, f + 1, f + n) = [i \in 1..n |-> zm[f + i]]
    <2>1. f + n <= Len(zm)
      BY <1>2, <1>6, <1>9, <1>12
    <2>. QED
      BY <2>1, StretchIs
  <1>14. SubSeq(bm, f + 1, f + n) = [i \in 1..n |-> bm[f + i]]
    <2>1. f + n <= Len(bm)
      BY <1>2, <1>6, <1>9, <1>11
    <2>. QED
      BY <2>1, StretchIs
  <1>15. [i \in 1..n |-> zm[f + i]] = [i \in 1..n |-> bm[f + i]]
    BY <1>10, <1>11, <1>12
  <1>16. SubSeq(zm, f + 1, f + n) = SubSeq(bm, f + 1, f + n)
    BY <1>13, <1>14, <1>15
  <1>. QED
    BY <1>1, <1>4, <1>11, <1>12, <1>16 DEF B!Stretch, B!Offset

(* Nor does it change how another row reads, or what it sends.             *)
LEMMA OtherRowsRead ==
  ASSUME B!ConstantsOK, cat \in B!Cats, NEW b, NEW z, Shaped(b, cat), Shaped(z, cat),
         NEW k \in Nat \ {0}, OnlyRow(b, z, k, cat), NEW r \in 1..b.rows, r # k
  PROVE  /\ b.ind[r] <= L => B!Getter(z, r) = B!Getter(b, r)
         /\ B!Marshal(z, r) = B!Marshal(b, r)
  <1>1. L \in Nat \ {0} /\ (cat \in B!StringCats => L <= B!Stride(cat)) /\ B!Stride(cat) \in Nat \ {0}
    BY StrideType
  <1>2. z.ind[r] = b.ind[r] /\ b.ind[r] \in -1..(L + 1)
    BY DEF OnlyRow, Shaped
  <1>3. B!Element(z, r) = B!Element(b, r)
    <2>1. B!Stretch(z, r, 1) = B!Stretch(b, r, 1)
      BY <1>1, OtherRows
    <2>. QED
      BY <2>1 DEF B!Stretch, B!Element
  <1>4. ASSUME cat \in B!StringCats, b.ind[r] # -1, b.ind[r] <= L
        PROVE  B!Stretch(z, r, b.ind[r]) = B!Stretch(b, r, b.ind[r])
    <2>1. b.ind[r] \in Nat /\ b.ind[r] <= B!Stride(cat)
      BY <1>1, <1>2, <1>4
    <2>. QED
      BY <2>1, OtherRows
  <1>5. ASSUME cat \in B!StringCats, b.ind[r] # -1
        PROVE  B!LoadString(z, r) = B!LoadString(b, r)
    <2>1. CASE b.ind[r] < L
      BY <1>1, <1>2, <1>4, <1>5, <2>1 DEF B!LoadString
    <2>2. CASE ~(b.ind[r] < L)
      <3>1. B!Stretch(z, r, L) = B!Stretch(b, r, L)
        BY <1>1, <1>5, OtherRows
      <3>. QED
        BY <1>2, <2>2, <3>1 DEF B!LoadString
    <2>. QED
      BY <2>1, <2>2
  <1>6. b.ind[r] <= L => B!Getter(z, r) = B!Getter(b, r)
    BY <1>2, <1>3, <1>4 DEF B!Getter, B!null_data
  <1>7. B!Marshal(z, r) = B!Marshal(b, r)
    <2>1. CASE b.ind[r] = -1
      BY <1>2, <2>1 DEF B!Marshal, B!null_data
    <2>2. CASE b.ind[r] # -1 /\ cat \in B!StringCats
      BY <1>2, <1>5, <2>2 DEF B!Marshal, B!null_data, B!StringCats, B!Terminated
    <2>3. CASE b.ind[r] # -1 /\ cat \notin B!StringCats
      BY <1>2, <1>3, <2>3 DEF B!Marshal, B!null_data, B!StringCats, B!Terminated
    <2>. QED
      BY <2>1, <2>2, <2>3
  <1>. QED
    BY <1>6, <1>7

(* A setter's step on the buffer: it stays one, and only its row is        *)
(* written when the image fits the row.                                    *)
LEMMA SetShape ==
  ASSUME B!ConstantsOK, cat \in B!Cats, NEW b, Shaped(b, cat), NEW k \in Nat \ {0},
         NEW v \in Seq(Cells), Len(v) <= B!Stride(cat),
         NEW z, IsSet(b, z, k, v)
  PROVE  /\ Shaped(z, cat) /\ z.rows = b.rows
         /\ z.mem = B!Put(b.mem, B!Offset(k), B!Image(v)) /\ z.ind = B!Indicated(b.ind, k, v)
         /\ B!Image(v) \in Seq(Cells)
         /\ Len(B!Image(v)) <= B!Stride(cat) => OnlyRow(b, z, k, cat)
  <1>1. PICK s \in Nat \ {0} : s = B!Stride(cat) /\ s <= L + 1 /\ L \in Nat \ {0}
    BY StrideType
  <1>2. b.rows \in Nat /\ b.mem \in Seq(Cells) /\ b.ind \in Seq(Int) /\ Len(b.ind) = b.rows
        /\ Len(b.mem) = b.rows * s /\ \A r \in 1..b.rows : b.ind[r] \in -1..(L + 1)
    BY <1>1 DEF Shaped, ColumnBuffers
  <1>3. PICK at \in Nat : at = B!Offset(k)
    BY OffsetType
  <1>4. PICK w \in Seq(Cells) : w = B!Image(v)
    BY AppendZero DEF B!Image
  <1>5. PICK m : m = B!Put(b.mem, at, w)
    OBVIOUS
  <1>6. m \in Seq(Cells) /\ Len(m) = Len(b.mem)
    BY <1>2, <1>5, PutShape
  <1>7. PICK d : d = B!Indicated(b.ind, k, v)
    OBVIOUS
  <1>8. d \in Seq(Int) /\ Len(d) = b.rows /\ (\A r \in 1..b.rows : d[r] \in -1..(L + 1))
        /\ (\A r \in 1..b.rows : r # k => d[r] = b.ind[r])
    <2>1. Len(v) \in -1..(L + 1) /\ Len(v) \in Int
      BY <1>1
    <2>. PICK n \in Nat : n = b.rows
      BY <1>2
    <2>2. PICK e \in [1..n -> Int] : e = b.ind
      BY <1>2
    <2>3. CASE k \in DOMAIN b.ind
      <3>1. d = [e EXCEPT ![k] = Len(v)] /\ k \in 1..n
        BY <1>7, <2>2, <2>3 DEF B!Indicated
      <3>2. d \in [1..n -> Int]
        BY <2>1, <3>1
      <3>3. d \in Seq(Int) /\ Len(d) = n
        BY <3>2, FunctionIsSeq
      <3>4. \A r \in 1..n : d[r] = IF r = k THEN Len(v) ELSE e[r]
        BY <2>1, <3>1
      <3>. QED
        BY <1>2, <2>1, <2>2, <3>3, <3>4
    <2>4. CASE k \notin DOMAIN b.ind
      BY <1>2, <1>7, <2>4 DEF B!Indicated
    <2>. QED
      BY <2>3, <2>4
  <1>9. z = [b EXCEPT !.mem = m, !.ind = d]
    BY <1>3, <1>4, <1>5, <1>7 DEF IsSet
  <1>10. z \in ColumnBuffers /\ z.rows = b.rows /\ z.mem = m /\ z.ind = d /\ z.store = b.store /\ z.refs = b.refs
         /\ z.nulled = b.nulled
    BY <1>6, <1>8, <1>9 DEF Shaped, ColumnBuffers
  <1>11. Shaped(z, cat)
    BY <1>1, <1>2, <1>6, <1>8, <1>10 DEF Shaped
  <1>12. ASSUME Len(w) <= s PROVE OnlyRow(b, z, k, cat)
    <2>1. at = (k - 1) * s
      BY <1>1, <1>3 DEF B!Offset
    <2>2. \A i \in 1..Len(b.mem) : i \notin (at + 1)..(at + s) => m[i] = b.mem[i]
      <3>1. PICK bm \in Seq(Cells) : bm = b.mem
        BY <1>2
      <3>2. m = B!Put(bm, at, w)
        BY <1>5, <3>1
      <3>3. \A i \in 1..Len(bm) : i \notin (at + 1)..(at + s) => m[i] = bm[i]
        BY <1>12, <3>2, PutWrites
      <3>. QED
        BY <3>1, <3>3
    <2>. QED
      BY <1>1, <1>8, <1>10, <2>1, <2>2 DEF OnlyRow
  <1>. QED
    BY <1>1, <1>3, <1>4, <1>5, <1>7, <1>10, <1>11, <1>12

(* What was put into a row of the array is what the row holds.             *)
LEMMA RowHolds ==
  ASSUME B!ConstantsOK, cat \in B!Cats, NEW b, Shaped(b, cat), NEW k \in 1..b.rows,
         NEW w \in Seq(Cells), Len(w) <= B!Stride(cat), NEW n \in Nat, n <= Len(w),
         NEW z, z.mem = B!Put(b.mem, B!Offset(k), w)
  PROVE  B!Stretch(z, k, n) = SubSeq(w, 1, n)
  <1>1. PICK s \in Nat \ {0} : s = B!Stride(cat)
    BY StrideType
  <1>2. b.rows \in Nat /\ b.mem \in Seq(Cells) /\ Len(b.mem) = b.rows * s
    BY <1>1 DEF Shaped, ColumnBuffers
  <1>3. k \in Nat \ {0} /\ k <= b.rows
    BY <1>2
  <1>4. PICK at \in Nat : at = B!Offset(k) /\ at = (k - 1) * s
    BY <1>1, <1>3, OffsetType DEF B!Offset
  <1>5. at + Len(w) <= Len(b.mem)
    <2>1. at + s <= b.rows * s
      BY <1>2, <1>3, <1>4, RowInside
    <2>. QED
      BY <1>1, <1>2, <2>1
  <1>6. SubSeq(B!Put(b.mem, at, w), at + 1, at + n) = SubSeq(w, 1, n)
    BY <1>2, <1>5, PutRead
  <1>. QED
    BY <1>4, <1>6 DEF B!Stretch

(* What is no wider than a row does not leave the array.                   *)
LEMMA RowFits ==
  ASSUME B!ConstantsOK, cat \in B!Cats, NEW b, Shaped(b, cat), NEW k \in 1..b.rows,
         NEW w \in Seq(Cells), Len(w) <= B!Stride(cat)
  PROVE  ~B!Leaves(b.mem, B!Offset(k), w)
  <1>1. PICK s \in Nat \ {0} : s = B!Stride(cat)
    BY StrideType
  <1>2. b.rows \in Nat /\ b.mem \in Seq(Cells) /\ Len(b.mem) = b.rows * s
    BY <1>1 DEF Shaped, ColumnBuffers
  <1>3. k \in Nat \ {0} /\ k <= b.rows
    BY <1>2
  <1>4. PICK at \in Nat : at = B!Offset(k) /\ at = (k - 1) * s
    BY <1>1, <1>3, OffsetType DEF B!Offset
  <1>5. at + s <= b.rows * s
    BY <1>2, <1>3, <1>4, RowInside
  <1>6. PICK t \in Nat : t = Len(b.mem) /\ at + s <= t
    BY <1>2, <1>5
  <1>7. PICK n \in Nat : n = Len(w) /\ n <= s
    BY <1>1
  <1>8. at + n <= t
    BY <1>6, <1>7
  <1>. QED
    BY <1>4, <1>6, <1>7, <1>8 DEF B!Leaves

(* A text without a null inside is its own C string.                       *)
LEMMA CStrWhole ==
  ASSUME 0 \notin Bytes, NEW v \in Seq(Bytes)
  PROVE  B!CStr(v) = v
  BY DEF B!CStr

(* Sequences of one element.                                               *)
LEMMA OneElement ==
  ASSUME NEW C
  PROVE  /\ \A x \in C : <<x>> \in Seq(C) /\ Len(<<x>>) = 1
         /\ \A v \in Seq(C) : Len(v) = 1 => v[1] \in C /\ v = <<v[1]>>
  OBVIOUS

(* The whole of a sequence.                                                *)
LEMMA WholeSeq ==
  ASSUME NEW C, NEW v \in Seq(C)
  PROVE  SubSeq(v, 1, Len(v)) = v /\ SubSeq(Append(v, 0), 1, Len(v)) = v
  OBVIOUS

(* A row that was set reads and sends what it was set to.                  *)
LEMMA SetSends ==
  ASSUME B!ConstantsOK, cat \in B!Cats, NEW b, Shaped(b, cat), NEW k \in 1..b.rows,
         NEW v \in Seq(Cells), Sendable(v),
         NEW z, IsSet(b, z, k, v)
  PROVE  RowSent(z, k, v)
  <1>1. PICK s \in Nat \ {0} :
          /\ s = B!Stride(cat) /\ s <= L + 1 /\ L \in Nat \ {0}
          /\ (cat \in B!Terminated => s = L + 1) /\ (cat = "b_string" => s = L) /\ (cat \notin B!StringCats => s = 1)
    BY StrideType
  <1>2. b.rows \in Nat /\ b.ind \in Seq(Int) /\ Len(b.ind) = b.rows
    BY DEF Shaped, ColumnBuffers
  <1>3. k \in Nat \ {0} /\ k \in DOMAIN b.ind
    BY <1>2
  <1>4. Len(v) <= B!Stride(cat)
    <2>1. CASE cat \in B!StringCats
      BY <1>1, <2>1 DEF B!StringCats, B!Terminated, Sendable
    <2>2. CASE cat \notin B!StringCats
      <3>1. Len(v) = 1
        BY <2>2 DEF Sendable
      <3>2. B!Stride(cat) = 1
        BY <1>1, <2>2
      <3>. QED
        BY <3>1, <3>2
    <2>. QED
      BY <2>1, <2>2
  <1>5. PICK w \in Seq(Cells) : w = B!Image(v)
    BY AppendZero DEF B!Image
  <1>6. Len(v) <= Len(w) /\ Len(w) <= s
    <2>1. CASE cat \in B!Terminated
      BY <1>1, <1>5, <2>1, AppendZero DEF B!Image, B!StringCats, B!Terminated, Sendable
    <2>2. CASE cat \notin B!Terminated
      BY <1>1, <1>4, <1>5, <2>2 DEF B!Image
    <2>. QED
      BY <2>1, <2>2
  <1>7. z.mem = B!Put(b.mem, B!Offset(k), w) /\ z.ind = B!Indicated(b.ind, k, v)
    BY <1>3, <1>4, <1>5, SetShape
  <1>8. z.ind[k] = Len(v)
    BY <1>2, <1>3, <1>7 DEF B!Indicated
  <1>9. Len(v) \in Nat
    OBVIOUS
  <1>10. B!Stretch(z, k, Len(v)) = SubSeq(w, 1, Len(v))
    BY <1>1, <1>6, <1>7, <1>9, RowHolds
  <1>11. SubSeq(w, 1, Len(v)) = v
    BY <1>5, WholeSeq DEF B!Image
  <1>12. z.ind[k] # B!null_data
    BY <1>8, <1>9 DEF B!null_data
  <1>13. CASE cat \in B!StringCats
    <2>1. B!LoadString(z, k) = B!Stretch(z, k, Len(v))
      BY <1>1, <1>8, <1>9, <1>13 DEF B!LoadString, Sendable
    <2>2. B!LoadString(z, k) = v
      BY <1>10, <1>11, <2>1
    <2>3. B!Getter(z, k) = v
      BY <1>8, <1>10, <1>11, <1>12, <1>13 DEF B!Getter
    <2>4. CASE cat = "c_string"
      <3>1. B!CStr(v) = v
        BY <1>13, <2>4, CStrWhole DEF Sendable
      <3>2. B!Arrives(v) = v
        BY <2>4 DEF B!Arrives
      <3>. QED
        BY <1>12, <2>2, <2>3, <2>4, <3>1, <3>2 DEF B!Marshal, RowSent
    <2>5. CASE cat = "b_string"
      <3>1. B!Arrives(v) = v
        BY <2>5 DEF B!Arrives
      <3>. QED
        BY <1>12, <2>2, <2>3, <2>5, <3>1 DEF B!Marshal, RowSent
    <2>6. CASE cat = "w_string"
      <3>1. B!Arrives(v) = <<>>
        BY <1>13, <2>6 DEF B!Arrives, Sendable
      <3>. QED
        BY <1>12, <2>3, <2>6, <3>1 DEF B!Marshal, RowSent
    <2>. QED
      BY <1>13, <2>4, <2>5, <2>6 DEF B!StringCats, B!Terminated
  <1>14. CASE cat \notin B!StringCats
    <2>1. B!Element(z, k) = B!Stretch(z, k, Len(v))
      BY <1>14 DEF B!Element, B!Stretch, Sendable
    <2>2. B!Marshal(z, k) = B!Element(z, k)
      BY <1>12, <1>14 DEF B!Marshal, B!StringCats, B!Terminated
    <2>3. B!Getter(z, k) = B!Element(z, k)
      BY <1>12, <1>14 DEF B!Getter
    <2>4. B!Arrives(v) = v
      BY <1>14 DEF B!Arrives, B!StringCats, B!Terminated
    <2>. QED
      BY <1>10, <1>11, <2>1, <2>2, <2>3, <2>4 DEF RowSent
  <1>. QED
    BY <1>13, <1>14

(* A row that was never set since the buffer was sized reads and sends an  *)
(* empty string, or zero.                                                  *)
LEMMA FreshSends ==
  ASSUME B!ConstantsOK, cat \in B!Cats, NEW rows \in 1..MaxRows, NEW store \in Nat,
         NEW z, z = B!Sized(rows, store), NEW k \in 1..rows
  PROVE  RowSent(z, k, B!Fresh(rows)[k])
  <1>1. PICK s \in Nat \ {0} :
          s = B!Stride(cat) /\ L \in Nat \ {0} /\ (cat \notin B!StringCats => s = 1)
    BY StrideType
  <1>2. Shaped(z, cat) /\ z.rows = rows /\ z.mem = [i \in 1..(rows * s) |-> B!Zero(cat)]
        /\ z.ind = [r \in 1..rows |-> 0]
    <2>1. Shaped(z, cat) /\ z.rows = rows /\ Emptied(z, rows)
      BY SizedShape
    <2>. QED
      BY <1>1, <2>1 DEF Emptied
  <1>3. z.ind[k] = 0 /\ z.ind[k] # B!null_data
    BY <1>2 DEF B!null_data
  <1>4. PICK m \in Seq(Cells) : m = z.mem
    BY <1>2 DEF Shaped, ColumnBuffers
  <1>5. k \in Nat \ {0} /\ rows \in Nat
    BY DEF B!ConstantsOK
  <1>6. PICK at \in Nat : at = B!Offset(k) /\ at = (k - 1) * s
    BY <1>1, <1>5, OffsetType DEF B!Offset
  <1>7. CASE cat \in B!StringCats
    <2>1. SubSeq(m, at + 1, at + 0) = <<>>
      OBVIOUS
    <2>2. B!Stretch(z, k, 0) = <<>>
      BY <1>4, <1>6, <2>1 DEF B!Stretch
    <2>3. B!LoadString(z, k) = <<>>
      BY <1>1, <1>3, <2>2 DEF B!LoadString
    <2>4. B!CStr(<<>>) = <<>>
      BY DEF B!CStr
    <2>5. B!Marshal(z, k) = <<>>
      BY <1>3, <1>7, <2>3, <2>4 DEF B!Marshal, B!StringCats, B!Terminated
    <2>6. B!Getter(z, k) = <<>>
      BY <1>3, <1>7, <2>2 DEF B!Getter
    <2>7. B!Fresh(rows)[k] = <<>>
      BY <1>7 DEF B!Fresh
    <2>8. B!Arrives(<<>>) = <<>>
      BY DEF B!Arrives
    <2>. QED
      BY <2>5, <2>6, <2>7, <2>8 DEF RowSent
  <1>8. CASE cat \notin B!StringCats
    <2>1. s = 1 /\ at = k - 1 /\ rows * s = rows
      BY <1>1, <1>5, <1>6, <1>8
    <2>2. m = [i \in 1..rows |-> B!Zero(cat)]
      BY <1>2, <1>4, <2>1
    <2>3. m[k] = B!Zero(cat) /\ Len(m) = rows
      BY <1>5, <2>2
    <2>4. SubSeq(m, k, k) = <<m[k]>>
      BY <1>5, <2>3, OneOfSeq
    <2>5. B!Element(z, k) = <<B!Zero(cat)>>
      BY <1>4, <1>5, <1>6, <2>1, <2>3, <2>4 DEF B!Element
    <2>6. B!Marshal(z, k) = B!Element(z, k)
      BY <1>3, <1>8 DEF B!Marshal, B!StringCats, B!Terminated
    <2>7. B!Getter(z, k) = B!Element(z, k)
      BY <1>3, <1>8 DEF B!Getter
    <2>8. B!Fresh(rows)[k] = <<B!Zero(cat)>>
      BY <1>8 DEF B!Fresh
    <2>9. B!Arrives(B!Fresh(rows)[k]) = B!Fresh(rows)[k]
      BY <1>8 DEF B!Arrives, B!StringCats, B!Terminated
    <2>. QED
      BY <2>5, <2>6, <2>7, <2>8, <2>9 DEF RowSent
  <1>. QED
    BY <1>7, <1>8

(* Storing a server's value in a row of a result buffer: the buffer stays  *)
(* one, only that row is written, and it reads as the value.               *)
Stored(b, z, k, v) ==
  /\ Shaped(z, cat) /\ OnlyRow(b, z, k, cat) /\ z.ind[k] <= L
  /\ cat \notin B!StringCats /\ k \notin z.nulled => z.ind[k] # -1
  /\ cat \in B!StringCats \/ k \notin z.nulled => B!Getter(z, k) = B!Expected(v)

(* The parts of Shaped(b, cat) that the stores use.                        *)
LEMMA ShapeParts ==
  ASSUME B!ConstantsOK, cat \in B!Cats, NEW b, Shaped(b, cat), NEW k \in 1..b.rows
  PROVE  /\ b.rows \in Nat /\ b.mem \in Seq(Cells) /\ b.ind \in Seq(Int) /\ Len(b.ind) = b.rows
         /\ Len(b.mem) = b.rows * B!Stride(cat) /\ b.ind \in [1..b.rows -> Int]
         /\ k \in Nat \ {0} /\ B!Offset(k) \in Nat /\ B!Offset(k) = (k - 1) * B!Stride(cat)
  <1>1. b.rows \in Nat /\ b.mem \in Seq(Cells) /\ b.ind \in Seq(Int) /\ Len(b.ind) = b.rows
        /\ Len(b.mem) = b.rows * B!Stride(cat)
    BY DEF Shaped, ColumnBuffers
  <1>2. b.ind \in [1..b.rows -> Int]
    BY <1>1
  <1>3. k \in Nat \ {0}
    BY <1>1
  <1>. QED
    BY <1>1, <1>2, <1>3, OffsetType DEF B!Offset

Marked(b, d, k, n) == d = [b.ind EXCEPT ![k] = n]

(* A row's indicator is written.                                           *)
LEMMA IndicatorWritten ==
  ASSUME B!ConstantsOK, cat \in B!Cats, NEW b, Shaped(b, cat), NEW k \in 1..b.rows,
         NEW n \in -1..(L + 1), NEW d, Marked(b, d, k, n)
  PROVE  /\ d \in Seq(Int) /\ Len(d) = b.rows /\ d[k] = n
         /\ \A r \in 1..b.rows : d[r] \in -1..(L + 1) /\ (r # k => d[r] = b.ind[r])
  <1>1. PICK m \in Nat : m = b.rows
    BY ShapeParts
  <1>2. PICK e \in [1..m -> Int] : e = b.ind
    BY <1>1, ShapeParts
  <1>3. n \in Int /\ k \in 1..m /\ d = [e EXCEPT ![k] = n]
    BY <1>1, <1>2 DEF Marked
  <1>4. d \in [1..m -> Int]
    BY <1>3
  <1>5. d \in Seq(Int) /\ Len(d) = m
    BY <1>4, FunctionIsSeq
  <1>6. d[k] = n /\ \A r \in 1..m : r # k => d[r] = e[r]
    BY <1>3
  <1>7. \A r \in 1..m : e[r] \in -1..(L + 1)
    BY <1>1, <1>2 DEF Shaped
  <1>. QED
    BY <1>1, <1>2, <1>5, <1>6, <1>7

(* A row's part of the array is written.                                   *)
LEMMA MemoryWritten ==
  ASSUME B!ConstantsOK, cat \in B!Cats, NEW b, Shaped(b, cat), NEW k \in 1..b.rows,
         NEW w \in Seq(Cells), Len(w) <= B!Stride(cat), NEW m, m = B!Put(b.mem, B!Offset(k), w)
  PROVE  /\ m \in Seq(Cells) /\ Len(m) = b.rows * B!Stride(cat)
         /\ \A i \in 1..Len(b.mem) :
              i \notin ((k - 1) * B!Stride(cat) + 1)..((k - 1) * B!Stride(cat) + B!Stride(cat)) => m[i] = b.mem[i]
  <1>1. PICK s \in Nat \ {0} : s = B!Stride(cat)
    BY StrideType
  <1>2. PICK at \in Nat : at = B!Offset(k) /\ at = (k - 1) * s
    BY <1>1, ShapeParts
  <1>3. PICK bm \in Seq(Cells) : bm = b.mem /\ Len(bm) = b.rows * s
    BY <1>1, ShapeParts
  <1>4. m = B!Put(bm, at, w) /\ Len(w) <= s
    BY <1>1, <1>2, <1>3
  <1>5. m \in Seq(Cells) /\ Len(m) = Len(bm)
    BY <1>4, PutShape
  <1>6. \A i \in 1..Len(bm) : i \notin (at + 1)..(at + s) => m[i] = bm[i]
    BY <1>4, PutWrites
  <1>. QED
    BY <1>1, <1>2, <1>3, <1>5, <1>6

(* StoreCString and StoreBString: the cut string, and its length.          *)
LEMMA StoreString ==
  ASSUME B!ConstantsOK, cat \in {"c_string", "b_string"}, NEW b, Shaped(b, cat), NEW k \in 1..b.rows,
         NEW v \in Seq(Cells), v # Null,
         NEW z, z = IF cat = "c_string" THEN B!StoreCString(b, k, v) ELSE B!StoreBString(b, k, v)
  PROVE  Stored(b, z, k, v)
  <1>1. cat \in B!Cats /\ cat \in B!StringCats
    BY DEF B!Cats, B!StringCats, B!Terminated
  <1>2. PICK s \in Nat \ {0} :
          /\ s = B!Stride(cat) /\ L \in Nat \ {0} /\ L <= s /\ s <= L + 1
          /\ (cat = "c_string" => s = L + 1)
    BY <1>1, StrideType DEF B!Terminated
  <1>3. PICK u \in Seq(Cells) : u = B!Cut(v, L) /\ Len(u) <= L
    BY <1>2, CutType
  <1>4. PICK w : w = IF cat = "c_string" THEN Append(u, 0) ELSE u
    OBVIOUS
  <1>5. w \in Seq(Cells) /\ Len(u) <= Len(w) /\ Len(w) <= s /\ SubSeq(w, 1, Len(u)) = u
    <2>1. CASE cat = "c_string"
      BY <1>2, <1>3, <1>4, <2>1, AppendZero, WholeSeq
    <2>2. CASE cat # "c_string"
      BY <1>2, <1>3, <1>4, <2>2, WholeSeq
    <2>. QED
      BY <2>1, <2>2
  <1>6. PICK m : m = B!Put(b.mem, B!Offset(k), w)
    OBVIOUS
  <1>7. PICK d : d = [b.ind EXCEPT ![k] = Len(u)]
    OBVIOUS
  <1>8. z = [b EXCEPT !.mem = m, !.ind = d]
    <2>1. CASE cat = "c_string"
      BY <1>3, <1>4, <1>6, <1>7, <2>1 DEF B!StoreCString, B!StoredText
    <2>2. CASE cat # "c_string"
      BY <1>3, <1>4, <1>6, <1>7, <2>2 DEF B!StoreBString
    <2>. QED
      BY <2>1, <2>2
  <1>9. Len(u) \in Nat /\ Len(u) \in -1..(L + 1)
    BY <1>2, <1>3
  <1>10. m \in Seq(Cells) /\ Len(m) = b.rows * B!Stride(cat)
         /\ \A i \in 1..Len(b.mem) :
              i \notin ((k - 1) * B!Stride(cat) + 1)..((k - 1) * B!Stride(cat) + B!Stride(cat)) => m[i] = b.mem[i]
    BY <1>1, <1>2, <1>5, <1>6, MemoryWritten, SMTT(20)
  <1>11. d \in Seq(Int) /\ Len(d) = b.rows /\ d[k] = Len(u)
         /\ \A r \in 1..b.rows : d[r] \in -1..(L + 1) /\ (r # k => d[r] = b.ind[r])
    <2>1. PICK n \in -1..(L + 1) : n = Len(u)
      BY <1>9
    <2>2. Marked(b, d, k, n)
      BY <1>7, <2>1 DEF Marked
    <2>3. d \in Seq(Int) /\ Len(d) = b.rows /\ d[k] = n
          /\ \A r \in 1..b.rows : d[r] \in -1..(L + 1) /\ (r # k => d[r] = b.ind[r])
      BY <1>1, <2>2, IndicatorWritten
    <2>. QED
      BY <2>1, <2>3
  <1>12. z \in ColumnBuffers /\ z.rows = b.rows /\ z.mem = m /\ z.ind = d /\ z.store = b.store /\ z.refs = b.refs
         /\ z.nulled = b.nulled
    <2>1. b \in ColumnBuffers
      BY DEF Shaped
    <2>2. m \in Seq(Cells) /\ d \in Seq(Int)
      BY <1>10, <1>11
    <2>. QED
      BY <1>8, <2>1, <2>2 DEF ColumnBuffers
  <1>13. Shaped(z, cat)
    BY <1>10, <1>11, <1>12 DEF Shaped
  <1>14. OnlyRow(b, z, k, cat)
    BY <1>10, <1>11, <1>12 DEF OnlyRow
  <1>15. B!Stretch(z, k, Len(u)) = u
    <2>1. B!Stretch(z, k, Len(u)) = SubSeq(w, 1, Len(u))
      BY <1>1, <1>2, <1>5, <1>6, <1>9, <1>12, RowHolds
    <2>. QED
      BY <1>5, <2>1
  <1>16. z.ind[k] = Len(u) /\ z.ind[k] # B!null_data
    BY <1>9, <1>11, <1>12 DEF B!null_data
  <1>17. B!Getter(z, k) = u
    BY <1>1, <1>15, <1>16 DEF B!Getter
  <1>18. B!Expected(v) = u
    <2>1. B!Converts(v)
      BY DEF B!Converts
    <2>. QED
      BY <1>1, <1>3, <2>1 DEF B!Expected, B!StringCats, B!Terminated
  <1>. QED
    BY <1>3, <1>13, <1>14, <1>16, <1>17, <1>18 DEF Stored

(* StoreAtomic, and StoreStructure of a date that parses: the element,     *)
(* with the indicator as it was.                                           *)
LEMMA StoreElement ==
  ASSUME B!ConstantsOK, cat \in B!Cats, cat \notin B!StringCats, NEW b, Shaped(b, cat),
         ResultIndicators(b, cat), NEW k \in 1..b.rows, NEW v, NEW x \in Cells, B!Expected(v) = <<x>>,
         NEW z, z = [b EXCEPT !.mem = B!Put(@, B!Offset(k), <<x>>)]
  PROVE  Stored(b, z, k, v)
  <1>1. PICK w \in Seq(Cells) : w = <<x>> /\ Len(w) = 1
    BY OneElement
  <1>2. B!Stride(cat) = 1
    BY StrideType
  <1>3. PICK m : m = B!Put(b.mem, B!Offset(k), w)
    OBVIOUS
  <1>4. z = [b EXCEPT !.mem = m]
    BY <1>1, <1>3
  <1>5. m \in Seq(Cells) /\ Len(m) = b.rows * B!Stride(cat)
         /\ \A i \in 1..Len(b.mem) :
              i \notin ((k - 1) * B!Stride(cat) + 1)..((k - 1) * B!Stride(cat) + B!Stride(cat)) => m[i] = b.mem[i]
    <2>1. Len(w) <= B!Stride(cat)
      BY <1>1, <1>2
    <2>. QED
      BY <1>3, <2>1, MemoryWritten
  <1>6. z \in ColumnBuffers /\ z.rows = b.rows /\ z.mem = m /\ z.ind = b.ind /\ z.store = b.store /\ z.refs = b.refs
         /\ z.nulled = b.nulled
    <2>1. b \in ColumnBuffers
      BY DEF Shaped
    <2>2. m \in Seq(Cells)
      BY <1>5
    <2>. QED
      BY <1>4, <2>1, <2>2 DEF ColumnBuffers
  <1>7. Shaped(z, cat)
    BY <1>5, <1>6 DEF Shaped
  <1>8. OnlyRow(b, z, k, cat)
    BY <1>5, <1>6 DEF OnlyRow
  <1>9. b.ind[k] <= L /\ (k \notin b.nulled => b.ind[k] # -1)
    BY DEF ResultIndicators
  <1>10. B!Element(z, k) = w
    <2>1. z.mem = B!Put(b.mem, B!Offset(k), w) /\ Len(w) <= B!Stride(cat) /\ 1 <= Len(w) /\ 1 \in Nat
      BY <1>1, <1>2, <1>3, <1>6
    <2>2. B!Stretch(z, k, 1) = SubSeq(w, 1, 1)
      BY <2>1, RowHolds, ZenonT(40)
    <2>3. SubSeq(w, 1, 1) = w
      BY <1>1, WholeSeq
    <2>. QED
      BY <2>2, <2>3 DEF B!Stretch, B!Element
  <1>11. z.ind[k] <= L /\ (k \notin z.nulled => z.ind[k] # -1)
    BY <1>6, <1>9
  <1>12. k \notin z.nulled => B!Getter(z, k) = B!Expected(v)
    BY <1>1, <1>10, <1>11 DEF B!Getter, B!null_data
  <1>. QED
    BY <1>7, <1>8, <1>11, <1>12 DEF Stored

(* StoreNull, for NULL and for a date that does not parse.                 *)
LEMMA StoreNullRow ==
  ASSUME B!ConstantsOK, cat \in B!Cats, NEW b, Shaped(b, cat), NEW k \in 1..b.rows,
         NEW v, B!Expected(v) = Null, NEW z, z = B!StoreNull(b, k)
  PROVE  Stored(b, z, k, v)
  <1>1. L \in Nat \ {0} /\ -1 \in -1..(L + 1)
    BY StrideType
  <1>2. PICK d : d = [b.ind EXCEPT ![k] = -1]
    OBVIOUS
  <1>3. d \in Seq(Int) /\ Len(d) = b.rows /\ d[k] = -1
         /\ \A r \in 1..b.rows : d[r] \in -1..(L + 1) /\ (r # k => d[r] = b.ind[r])
    <2>1. PICK n \in -1..(L + 1) : n = -1
      BY <1>1
    <2>2. Marked(b, d, k, n)
      BY <1>2, <2>1 DEF Marked
    <2>3. d \in Seq(Int) /\ Len(d) = b.rows /\ d[k] = n
          /\ \A r \in 1..b.rows : d[r] \in -1..(L + 1) /\ (r # k => d[r] = b.ind[r])
      BY <2>2, IndicatorWritten
    <2>. QED
      BY <2>1, <2>3
  <1>4. z = [b EXCEPT !.ind = d, !.nulled = @ \cup {k}]
    BY <1>2 DEF B!StoreNull, B!null_data
  <1>5. z \in ColumnBuffers /\ z.rows = b.rows /\ z.mem = b.mem /\ z.ind = d /\ z.store = b.store /\ z.refs = b.refs
         /\ z.nulled = b.nulled \cup {k}
    <2>1. b \in ColumnBuffers
      BY DEF Shaped
    <2>2. d \in Seq(Int) /\ k \in Nat
      BY <1>3, ShapeParts
    <2>3. b.nulled \in SUBSET Nat
      BY <2>1 DEF ColumnBuffers
    <2>4. b.nulled \cup {k} \in SUBSET Nat
      BY <2>2, <2>3
    <2>. QED
      BY <1>4, <2>1, <2>2, <2>4 DEF ColumnBuffers
  <1>6. Shaped(z, cat)
    BY <1>3, <1>5 DEF Shaped
  <1>7. OnlyRow(b, z, k, cat)
    BY <1>3, <1>5 DEF OnlyRow
  <1>8. z.ind[k] = -1 /\ k \in z.nulled
    BY <1>3, <1>5
  <1>9. z.ind[k] <= L
    BY <1>1, <1>8
  <1>10. B!Getter(z, k) = B!Expected(v)
    BY <1>8 DEF B!Getter, B!null_data
  <1>. QED
    BY <1>6, <1>7, <1>8, <1>9, <1>10 DEF Stored

(* Every value the server may send is stored in its row.                   *)
LEMMA FetchStores ==
  ASSUME B!ConstantsOK, cat \in B!Cats, NEW b, Shaped(b, cat), ResultIndicators(b, cat),
         NEW k \in 1..b.rows, NEW v \in B!ServerValues,
         NEW z, z = IF v = Null THEN B!StoreNull(b, k) ELSE B!StoreValue(b, k, v)
  PROVE  Stored(b, z, k, v) /\ v \in RowValues
  <1>1. CASE v = Null
    <2>1. B!Expected(v) = Null
      BY <1>1 DEF B!Expected, B!Converts
    <2>2. z = B!StoreNull(b, k)
      BY <1>1
    <2>. QED
      BY <1>1, <2>1, <2>2, StoreNullRow DEF RowValues
  <1>2. CASE v # Null
    <2>1. v \in B!Values(BOOLEAN)
      BY <1>2 DEF B!ServerValues
    <2>2. z = B!StoreValue(b, k, v)
      BY <1>2
    <2>3. BOOLEAN \in SUBSET BOOLEAN
      OBVIOUS
    <2>4. /\ v \in Seq(Cells)
          /\ cat \notin B!StringCats => Len(v) = 1
          /\ cat = "structure" => \E y \in Years, bc \in BOOLEAN : v = <<B!Day(y, bc)>>
      BY <2>1, <2>3, ValuesType
    <2>8. CASE cat = "w_string"
      <3>1. B!Expected(v) = Null
        BY <2>8 DEF B!Expected, B!Converts
      <3>2. z = B!StoreNull(b, k)
        BY <2>2, <2>8 DEF B!StoreValue
      <3>. QED
        BY <2>4, <3>1, <3>2, StoreNullRow DEF RowValues
    <2>5. CASE cat \in {"c_string", "b_string"}
      <3>1. z = IF cat = "c_string" THEN B!StoreCString(b, k, v) ELSE B!StoreBString(b, k, v)
        BY <2>2, <2>5 DEF B!StoreValue, B!StringCats, B!Terminated
      <3>. QED
        BY <1>2, <2>4, <2>5, <3>1, StoreString DEF RowValues
    <2>6. CASE cat = "atomic"
      <3>1. cat \notin B!StringCats
        BY <2>6 DEF B!StringCats, B!Terminated
      <3>2. PICK x \in Cells : v = <<x>>
        BY <2>4, <3>1, OneElement
      <3>3. B!Expected(v) = <<x>>
        BY <1>2, <2>6, <3>1, <3>2 DEF B!Expected, B!Converts
      <3>4. z = [b EXCEPT !.mem = B!Put(@, B!Offset(k), <<x>>)]
        BY <2>2, <2>6, <3>2 DEF B!StoreValue, B!StoreAtomic
      <3>. QED
        BY <2>4, <3>1, <3>3, <3>4, StoreElement DEF RowValues
    <2>7. CASE cat = "structure"
      <3>1. cat \notin B!StringCats
        BY <2>7 DEF B!StringCats, B!Terminated
      <3>2. PICK y \in Years, bc \in BOOLEAN : v = <<B!Day(y, bc)>>
        BY <2>4, <2>7
      <3>3. CASE B!ParsesDate(v)
        <4>1. PICK x : x = B!Day(v[1].year, FALSE)
          OBVIOUS
        <4>2. x = B!Day(y, FALSE)
          BY <3>2, <4>1 DEF B!Day
        <4>3. x \in Cells
          <5>1. FALSE \in BOOLEAN /\ y \in Years \cup {0}
            OBVIOUS
          <5>2. ASSUME NEW yy \in Years \cup {0}, NEW bb \in BOOLEAN PROVE B!Day(yy, bb) \in Cells
            BY DEF Cells
          <5>. QED
            BY <4>2, <5>1, <5>2
        <4>4. B!Expected(v) = <<x>>
          BY <1>2, <2>7, <3>1, <3>3, <4>1 DEF B!Expected, B!Converts
        <4>5. z = [b EXCEPT !.mem = B!Put(@, B!Offset(k), <<x>>)]
          BY <2>2, <2>7, <3>3, <4>1 DEF B!StoreValue, B!StoreStructure
        <4>. QED
          BY <2>4, <3>1, <4>3, <4>4, <4>5, StoreElement DEF RowValues
      <3>4. CASE ~B!ParsesDate(v)
        <4>1. B!Expected(v) = Null
          BY <1>2, <2>7, <3>1, <3>4 DEF B!Expected, B!Converts
        <4>2. z = B!StoreNull(b, k)
          BY <2>2, <2>7, <3>4 DEF B!StoreValue
        <4>. QED
          BY <2>4, <4>1, <4>2, StoreNullRow DEF RowValues
      <3>. QED
        BY <3>3, <3>4
    <2>. QED
      BY <2>5, <2>6, <2>7, <2>8 DEF B!Cats
  <1>. QED
    BY <1>1, <1>2

(* No value the server may send leaves the array when it is stored.        *)
LEMMA StoreStays ==
  ASSUME B!ConstantsOK, cat \in B!Cats, NEW b, Shaped(b, cat), NEW k \in 1..b.rows,
         NEW v \in B!ServerValues, v # Null
  PROVE  ~B!StoreLeaves(b, k, v)
  <1>1. v \in B!Values(BOOLEAN) /\ BOOLEAN \in SUBSET BOOLEAN
    BY DEF B!ServerValues
  <1>2. v \in Seq(Cells) /\ (cat \notin B!StringCats => Len(v) = 1)
    BY <1>1, ValuesType
  <1>3. PICK s \in Nat \ {0} :
          /\ s = B!Stride(cat) /\ L \in Nat \ {0}
          /\ (cat \in B!Terminated => s = L + 1) /\ (cat = "b_string" => s = L) /\ (cat \notin B!StringCats => s = 1)
    BY StrideType
  <1>4. PICK u \in Seq(Cells) : u = B!Cut(v, L) /\ Len(u) <= L
    BY <1>2, <1>3, CutType
  <1>5. CASE cat = "c_string"
    <2>1. B!StoredText(v) \in Seq(Cells) /\ Len(B!StoredText(v)) = Len(u) + 1
      BY <1>4, AppendZero DEF B!StoredText
    <2>2. Len(B!StoredText(v)) <= B!Stride(cat)
      BY <1>3, <1>4, <1>5, <2>1 DEF B!Terminated
    <2>. QED
      BY <1>5, <2>1, <2>2, RowFits DEF B!StoreLeaves
  <1>6. CASE cat = "b_string"
    <2>1. B!Cut(v, L) \in Seq(Cells) /\ Len(B!Cut(v, L)) <= B!Stride(cat)
      BY <1>3, <1>4, <1>6
    <2>. QED
      BY <1>6, <2>1, RowFits DEF B!StoreLeaves
  <1>7. CASE cat \in {"atomic", "structure"}
    <2>1. cat \notin B!StringCats
      BY <1>7 DEF B!StringCats, B!Terminated
    <2>2. Len(v) = 1 /\ B!Stride(cat) = 1
      BY <1>2, <1>3, <2>1
    <2>3. Len(v) <= B!Stride(cat)
      BY <2>2
    <2>4. ~B!Leaves(b.mem, B!Offset(k), v)
      BY <1>2, <2>3, RowFits
    <2>. QED
      BY <1>7, <2>4 DEF B!StoreLeaves
  <1>8. CASE cat = "w_string"
    BY <1>8 DEF B!StoreLeaves
  <1>. QED
    BY <1>5, <1>6, <1>7, <1>8 DEF B!Cats

(* What a setter that does not refuse is given.                            *)
LEMMA CallerFits ==
  ASSUME B!ConstantsOK, cat \in B!Cats, NEW v \in B!CallerValues, NEW row, ~B!Refuses(v, row)
  PROVE  /\ v \in Seq(Cells) /\ Len(v) <= B!Stride(cat)
         /\ cat \in B!StringCats => v \in Seq(Bytes) /\ v # Null
         /\ cat \notin B!StringCats => Len(v) = 1
         /\ ~B!Careless(v, row) => Len(B!Image(v)) <= B!Stride(cat) /\ Len(v) <= L
  <1>1. v \in B!Values({FALSE})
    BY DEF B!CallerValues
  <1>2. {FALSE} \in SUBSET BOOLEAN
    OBVIOUS
  <1>3. v \in Seq(Cells) /\ (cat \in B!StringCats => v \in Seq(Bytes)) /\ (cat \notin B!StringCats => Len(v) = 1)
    BY <1>1, <1>2, ValuesType
  <1>4. PICK s \in Nat \ {0} :
          /\ s = B!Stride(cat) /\ L \in Nat \ {0}
          /\ (cat \in B!Terminated => s = L + 1) /\ (cat = "b_string" => s = L) /\ (cat \notin B!StringCats => s = 1)
    BY StrideType
  <1>5. PICK n \in Nat : n = Len(v)
    BY <1>3
  <1>6. n <= s
    <2>1. CASE cat \in B!StringCats
      BY <1>4, <1>5, <2>1 DEF B!Refuses
    <2>2. CASE cat \notin B!StringCats
      BY <1>3, <1>4, <1>5, <2>2
    <2>. QED
      BY <2>1, <2>2
  <1>7. ASSUME ~B!Careless(v, row) PROVE Len(B!Image(v)) <= s /\ n <= L
    <2>1. CASE cat \in B!Terminated
      <3>1. n <= L
        BY <1>4, <1>5, <1>7, <2>1 DEF B!Careless
      <3>2. Len(B!Image(v)) = n + 1
        BY <1>3, <1>5, <2>1, AppendZero DEF B!Image
      <3>. QED
        BY <1>4, <2>1, <3>1, <3>2
    <2>2. CASE cat \notin B!Terminated
      <3>1. B!Image(v) = v
        BY <2>2 DEF B!Image
      <3>2. CASE cat = "b_string"
        BY <1>4, <1>5, <1>6, <3>1, <3>2
      <3>3. CASE cat # "b_string"
        <4>1. cat \notin B!StringCats
          BY <2>2, <3>3 DEF B!StringCats, B!Terminated
        <4>. QED
          BY <1>3, <1>4, <1>5, <3>1, <4>1
      <3>. QED
        BY <3>2, <3>3
    <2>. QED
      BY <2>1, <2>2
  <1>8. ASSUME cat \in B!StringCats PROVE v # Null
    <2>1. v \in B!Strings
      BY <1>1, <1>2, <1>8, ValuesType
    <2>2. Null \notin B!Strings
      BY DEF B!ConstantsOK, B!Strings
    <2>. QED
      BY <2>1, <2>2
  <1>. QED
    BY <1>3, <1>4, <1>5, <1>6, <1>7, <1>8

(* The invariant holds at the start.                                       *)
LEMMA BufferInit ==
  ASSUME B!ConstantsOK, B!Init
  PROVE  BufferInv
  <1>1. cat \in B!Cats /\ moves = 2 /\ wild = FALSE /\ careless = FALSE /\ got = <<>> /\ want = B!Fresh(1)
        /\ mpar = B!Sized(1, 1) /\ mres = B!Sized(1, 2)
    BY DEF B!Init
  <1>2. 1 \in 1..MaxRows /\ 1 \in Nat /\ 2 \in Nat /\ 2 \in 2..MaxMoves
    BY DEF B!ConstantsOK
  <1>3. Shaped(mpar, cat) /\ mpar.rows = 1 /\ ShortTexts(mpar)
    BY <1>1, <1>2, SizedTexts
  <1>4. Shaped(mres, cat) /\ ResultIndicators(mres, cat) /\ mres.rows = 1
    BY <1>1, <1>2, SizedShape
  <1>5. want \in Seq(RowValues) /\ Len(want) = mpar.rows
    BY <1>1, <1>2, <1>3, FreshType
  <1>6. got \in Seq(RowValues) /\ Len(got) <= mres.rows
    BY <1>1, <1>4
  <1>. QED
    BY <1>1, <1>2, <1>3, <1>4, <1>5, <1>6 DEF BufferInv

(* Sizing the parameter buffer keeps the invariant.                        *)
LEMMA BufferSizeParams ==
  ASSUME B!ConstantsOK, BufferInv, NEW n \in 0..MaxRows, B!SizeParams(n)
  PROVE  BufferInv'
  <1>1. moves < MaxMoves /\ moves' = moves + 1 /\ mpar' = B!Sized(B!Positive(n), moves')
        /\ want' = B!Fresh(B!Positive(n)) /\ cat' = cat /\ mres' = mres /\ got' = got /\ wild' = wild
        /\ careless' = careless
    BY DEF B!SizeParams
  <1>2. cat \in B!Cats /\ moves \in 2..MaxMoves /\ MaxMoves \in Nat
    BY DEF BufferInv, B!ConstantsOK
  <1>3. moves' \in 2..MaxMoves /\ moves' \in Nat
    BY <1>1, <1>2
  <1>4. PICK m \in Nat : m = moves'
    BY <1>3
  <1>5. PICK rows \in 1..MaxRows : rows = B!Positive(n)
    BY PositiveType
  <1>6. PICK z : z = mpar' /\ z = B!Sized(rows, m)
    BY <1>1, <1>4, <1>5
  <1>8. Shaped(z, cat) /\ z.rows = rows /\ ShortTexts(z)
    BY <1>2, <1>6, SizedTexts
  <1>9. rows \in Nat /\ want' = B!Fresh(rows)
    BY <1>1, <1>5 DEF B!ConstantsOK
  <1>10. want' \in Seq(RowValues) /\ Len(want') = z.rows
    BY <1>8, <1>9, FreshType
  <1>11. Shaped(mpar', cat') /\ ShortTexts(mpar)' /\ Len(want') = mpar'.rows
    BY <1>1, <1>6, <1>8, <1>10 DEF ShortTexts
  <1>12. Shaped(mres', cat') /\ ResultIndicators(mres', cat')
         /\ got' \in Seq(RowValues) /\ Len(got') <= mres'.rows
         /\ (wild' => careless') /\ wild' \in BOOLEAN /\ careless' \in BOOLEAN
    BY <1>1 DEF BufferInv
  <1>. QED
    BY <1>1, <1>2, <1>3, <1>10, <1>11, <1>12 DEF BufferInv

(* Sizing the result buffer keeps the invariant.                           *)
LEMMA BufferSizeResults ==
  ASSUME B!ConstantsOK, BufferInv, NEW n \in 0..MaxRows, B!SizeResults(n)
  PROVE  BufferInv'
  <1>1. moves < MaxMoves /\ moves' = moves + 1 /\ mres' = B!Sized(B!Positive(n), moves')
        /\ got' = <<>> /\ cat' = cat /\ mpar' = mpar /\ want' = want /\ wild' = wild
        /\ careless' = careless
    BY DEF B!SizeResults
  <1>2. cat \in B!Cats /\ moves \in 2..MaxMoves /\ MaxMoves \in Nat
    BY DEF BufferInv, B!ConstantsOK
  <1>3. moves' \in 2..MaxMoves /\ moves' \in Nat
    BY <1>1, <1>2
  <1>4. PICK m \in Nat : m = moves'
    BY <1>3
  <1>5. PICK rows \in 1..MaxRows : rows = B!Positive(n)
    BY PositiveType
  <1>6. PICK z : z = mres' /\ z = B!Sized(rows, m)
    BY <1>1, <1>4, <1>5
  <1>7. Shaped(z, cat) /\ ResultIndicators(z, cat) /\ z.rows = rows
    BY <1>2, <1>6, SizedShape
  <1>8. got' \in Seq(RowValues) /\ Len(got') <= z.rows
    BY <1>1, <1>7
  <1>9. Shaped(mres', cat') /\ ResultIndicators(mres', cat') /\ Len(got') <= mres'.rows
    BY <1>1, <1>6, <1>7, <1>8
  <1>10. Shaped(mpar', cat') /\ want' \in Seq(RowValues) /\ Len(want') = mpar'.rows
         /\ (wild' => careless') /\ wild' \in BOOLEAN /\ careless' \in BOOLEAN
         /\ (~careless' => ShortTexts(mpar)')
    BY <1>1 DEF BufferInv, ShortTexts
  <1>. QED
    BY <1>1, <1>2, <1>3, <1>8, <1>9, <1>10 DEF BufferInv

(* The rest of the invariant, which a step on the parameter buffer leaves. *)
ParamsOnly == cat' = cat /\ mres' = mres /\ moves' = moves /\ got' = got

(* A step that changes the parameter buffer only keeps the invariant when  *)
(* what it makes of that buffer does.                                      *)
LEMMA BufferParams ==
  ASSUME BufferInv, ParamsOnly, Shaped(mpar', cat), mpar'.rows = mpar.rows,
         want' \in Seq(RowValues), Len(want') = Len(want), wild' \in BOOLEAN, careless' \in BOOLEAN,
         wild' => careless', ~careless' => ShortTexts(mpar)'
  PROVE  BufferInv'
  BY DEF BufferInv, ParamsOnly

(* A caller's row of want is replaced.                                     *)
LEMMA WantReplaced ==
  ASSUME NEW S, NEW w \in Seq(S), NEW r \in DOMAIN w, NEW v \in S
  PROVE  [w EXCEPT ![r] = v] \in Seq(S) /\ Len([w EXCEPT ![r] = v]) = Len(w)
  OBVIOUS

(* A setter keeps the invariant.                                           *)
LEMMA BufferSet ==
  ASSUME B!ConstantsOK, BufferInv, NEW row \in Nat \ {0}, NEW v \in B!CallerValues, B!Set(row, v)
  PROVE  BufferInv'
  <1>1. ~B!Refuses(v, row) /\ IsSet(mpar, mpar', row, v)
        /\ want' = (IF row \in DOMAIN want THEN [want EXCEPT ![row] = v] ELSE want)
        /\ wild' = (wild \/ row > mpar.rows \/ B!Leaves(mpar.mem, B!Offset(row), B!Image(v)))
        /\ careless' = (careless \/ B!Careless(v, row)) /\ ParamsOnly
    BY DEF B!Set, IsSet, ParamsOnly
  <1>2. cat \in B!Cats /\ Shaped(mpar, cat) /\ wild \in BOOLEAN /\ careless \in BOOLEAN /\ want \in Seq(RowValues)
        /\ (wild => careless) /\ (~careless => ShortTexts(mpar))
    BY DEF BufferInv
  <1>3. /\ v \in Seq(Cells) /\ Len(v) <= B!Stride(cat)
        /\ ~B!Careless(v, row) => Len(B!Image(v)) <= B!Stride(cat) /\ Len(v) <= L
    BY <1>1, <1>2, CallerFits
  <1>4. PICK z : z = mpar'
    OBVIOUS
  <1>5. PICK b : b = mpar
    OBVIOUS
  <1>6. Shaped(b, cat) /\ IsSet(b, z, row, v) /\ b.rows \in Nat
    BY <1>1, <1>2, <1>4, <1>5 DEF Shaped, ColumnBuffers
  <1>7. Shaped(z, cat) /\ z.rows = b.rows /\ B!Image(v) \in Seq(Cells) /\ z.ind = B!Indicated(b.ind, row, v)
    BY <1>2, <1>3, <1>6, SetShape
  <1>8. want' \in Seq(RowValues) /\ Len(want') = Len(want)
    <2>1. v \in RowValues
      BY <1>3 DEF RowValues
    <2>2. PICK w \in Seq(RowValues) : w = want
      BY <1>2
    <2>3. CASE row \in DOMAIN want
      <3>1. want' = [w EXCEPT ![row] = v] /\ row \in DOMAIN w
        BY <1>1, <2>2, <2>3
      <3>. QED
        BY <2>1, <2>2, <3>1, WantReplaced
    <2>4. CASE row \notin DOMAIN want
      BY <1>1, <1>2, <2>4
    <2>. QED
      BY <2>3, <2>4
  <1>9. ASSUME ~B!Careless(v, row)
        PROVE  ~(row > mpar.rows) /\ ~B!Leaves(mpar.mem, B!Offset(row), B!Image(v))
    <2>1. ~(row > mpar.rows)
      BY <1>9 DEF B!Careless
    <2>2. row \in 1..b.rows
      BY <1>5, <1>6, <2>1
    <2>3. ~B!Leaves(b.mem, B!Offset(row), B!Image(v))
      BY <1>2, <1>3, <1>6, <1>7, <1>9, <2>2, RowFits
    <2>. QED
      BY <1>5, <2>1, <2>3
  <1>10. wild' \in BOOLEAN
    BY <1>1, <1>2, Zenon DEF B!Leaves
  <1>11. careless' \in BOOLEAN
    BY <1>1, <1>2, Zenon DEF B!Careless
  <1>12. wild' => careless'
    BY <1>1, <1>2, <1>9, Zenon
  <1>13. ASSUME ~careless' PROVE ShortTexts(mpar)'
    <2>1. ~careless /\ ~B!Careless(v, row)
      BY <1>1, <1>2, <1>13, Zenon
    <2>2. ShortTexts(b) /\ Len(v) <= L
      BY <1>2, <1>3, <1>5, <2>1
    <2>3. b.ind \in Seq(Int) /\ Len(b.ind) = b.rows
      BY <1>6 DEF Shaped, ColumnBuffers
    <2>4. ASSUME NEW r \in 1..z.rows PROVE z.ind[r] <= L
      BY <1>6, <1>7, <2>2, <2>3, <2>4 DEF B!Indicated, ShortTexts
    <2>5. ShortTexts(z)
      BY <2>4 DEF ShortTexts
    <2>. QED
      BY <1>4, <2>5 DEF ShortTexts
  <1>. QED
    BY <1>1, <1>4, <1>5, <1>7, <1>8, <1>10, <1>11, <1>12, <1>13, BufferParams

(* Setting a row to NULL: only that row, and it sends NULL.                *)
LEMMA NullRow ==
  ASSUME B!ConstantsOK, cat \in B!Cats, NEW b, Shaped(b, cat), NEW k \in 1..b.rows,
         NEW z, z = [b EXCEPT !.ind[k] = B!null_data]
  PROVE  Shaped(z, cat) /\ OnlyRow(b, z, k, cat) /\ z.rows = b.rows
         /\ RowSent(z, k, Null) /\ (ShortTexts(b) => ShortTexts(z))
  <1>1. L \in Nat \ {0} /\ -1 \in -1..(L + 1)
    BY StrideType
  <1>2. PICK n \in -1..(L + 1) : n = -1
    BY <1>1
  <1>3. PICK d : Marked(b, d, k, n)
    BY DEF Marked
  <1>4. d \in Seq(Int) /\ Len(d) = b.rows /\ d[k] = n
         /\ \A r \in 1..b.rows : d[r] \in -1..(L + 1) /\ (r # k => d[r] = b.ind[r])
    BY <1>3, IndicatorWritten
  <1>5. z = [b EXCEPT !.ind = d]
    BY <1>2, <1>3 DEF Marked, B!null_data
  <1>6. z \in ColumnBuffers /\ z.rows = b.rows /\ z.mem = b.mem /\ z.ind = d /\ z.store = b.store /\ z.refs = b.refs
         /\ z.nulled = b.nulled
    <2>1. b \in ColumnBuffers
      BY DEF Shaped
    <2>2. d \in Seq(Int)
      BY <1>4
    <2>. QED
      BY <1>5, <2>1, <2>2 DEF ColumnBuffers
  <1>7. Shaped(z, cat)
    BY <1>4, <1>6 DEF Shaped
  <1>8. OnlyRow(b, z, k, cat)
    BY <1>4, <1>6 DEF OnlyRow
  <1>9. B!Arrives(Null) = Null
    BY DEF B!Arrives
  <1>10. RowSent(z, k, Null)
    BY <1>2, <1>4, <1>6, <1>9 DEF B!Marshal, B!Getter, B!null_data, RowSent
  <1>11. ShortTexts(b) => ShortTexts(z)
    BY <1>1, <1>2, <1>4, <1>6 DEF ShortTexts
  <1>. QED
    BY <1>6, <1>7, <1>8, <1>10, <1>11

(* set_<name>_null() keeps the invariant.                                  *)
LEMMA BufferSetNull ==
  ASSUME B!ConstantsOK, BufferInv, NEW row \in 1..mpar.rows, B!SetNull(row)
  PROVE  BufferInv'
  <1>1. mpar' = [mpar EXCEPT !.ind[row] = B!null_data] /\ want' = [want EXCEPT ![row] = Null]
        /\ wild' = wild /\ careless' = careless /\ ParamsOnly
    BY DEF B!SetNull, ParamsOnly
  <1>2. cat \in B!Cats /\ Shaped(mpar, cat) /\ wild \in BOOLEAN /\ careless \in BOOLEAN /\ want \in Seq(RowValues)
        /\ (wild => careless) /\ (~careless => ShortTexts(mpar)) /\ Len(want) = mpar.rows
    BY DEF BufferInv
  <1>3. PICK b : b = mpar
    OBVIOUS
  <1>4. PICK z : z = mpar' /\ z = [b EXCEPT !.ind[row] = B!null_data]
    BY <1>1, <1>3
  <1>5. Shaped(z, cat) /\ z.rows = b.rows /\ (ShortTexts(b) => ShortTexts(z))
    BY <1>2, <1>3, <1>4, NullRow
  <1>7. ~careless' => ShortTexts(mpar)'
    BY <1>1, <1>2, <1>3, <1>4, <1>5 DEF ShortTexts
  <1>6. want' \in Seq(RowValues) /\ Len(want') = Len(want)
    <2>1. PICK w \in Seq(RowValues) : w = want
      BY <1>2
    <2>2. Null \in RowValues /\ row \in DOMAIN w /\ want' = [w EXCEPT ![row] = Null]
      BY <1>1, <1>2, <2>1 DEF RowValues
    <2>. QED
      BY <2>1, <2>2, WantReplaced
  <1>. QED
    BY <1>1, <1>2, <1>3, <1>4, <1>5, <1>6, <1>7, BufferParams

(* reset_all_null(): every row sends NULL.                                 *)
LEMMA NullRows ==
  ASSUME B!ConstantsOK, cat \in B!Cats, NEW b, Shaped(b, cat),
         NEW z, z = [b EXCEPT !.ind = [r \in DOMAIN @ |-> B!null_data]]
  PROVE  Shaped(z, cat) /\ z.rows = b.rows
         /\ (\A r \in 1..b.rows : RowSent(z, r, Null)) /\ ShortTexts(z)
  <1>1. L \in Nat \ {0} /\ -1 \in -1..(L + 1)
    BY StrideType
  <1>2. PICK m \in Nat : m = b.rows /\ DOMAIN b.ind = 1..m
    BY DEF Shaped, ColumnBuffers
  <1>3. PICK d : d = [r \in 1..m |-> -1]
    OBVIOUS
  <1>4. d \in [1..m -> Int] /\ \A r \in 1..m : d[r] = -1
    BY <1>3
  <1>5. d \in Seq(Int) /\ Len(d) = m
    BY <1>4, FunctionIsSeq
  <1>6. z = [b EXCEPT !.ind = d]
    BY <1>2, <1>3 DEF B!null_data
  <1>7. z \in ColumnBuffers /\ z.rows = b.rows /\ z.mem = b.mem /\ z.ind = d /\ z.store = b.store /\ z.refs = b.refs
    <2>1. b \in ColumnBuffers
      BY DEF Shaped
    <2>. QED
      BY <1>5, <1>6, <2>1 DEF ColumnBuffers
  <1>8. \A r \in 1..b.rows : z.ind[r] = -1
    BY <1>2, <1>4, <1>7
  <1>9. Shaped(z, cat)
    BY <1>1, <1>2, <1>5, <1>7, <1>8 DEF Shaped
  <1>10. B!Arrives(Null) = Null
    BY DEF B!Arrives
  <1>11. \A r \in 1..b.rows : RowSent(z, r, Null)
    BY <1>8, <1>10 DEF B!Marshal, B!Getter, B!null_data, RowSent
  <1>12. ShortTexts(z)
    BY <1>1, <1>7, <1>8 DEF ShortTexts
  <1>. QED
    BY <1>7, <1>9, <1>11, <1>12

(* reset_all_null() keeps the invariant.                                   *)
LEMMA BufferResetAll ==
  ASSUME B!ConstantsOK, BufferInv, B!reset_all_null
  PROVE  BufferInv'
  <1>1. mpar' = [mpar EXCEPT !.ind = [r \in DOMAIN @ |-> B!null_data]] /\ want' = [r \in DOMAIN want |-> Null]
        /\ wild' = wild /\ careless' = careless /\ ParamsOnly
    BY DEF B!reset_all_null, ParamsOnly
  <1>2. cat \in B!Cats /\ Shaped(mpar, cat) /\ wild \in BOOLEAN /\ careless \in BOOLEAN /\ want \in Seq(RowValues)
        /\ (wild => careless) /\ (~careless => ShortTexts(mpar))
    BY DEF BufferInv
  <1>3. PICK b : b = mpar
    OBVIOUS
  <1>4. PICK z : z = mpar' /\ z = [b EXCEPT !.ind = [r \in DOMAIN @ |-> B!null_data]]
    BY <1>1, <1>3
  <1>5. Shaped(z, cat) /\ z.rows = b.rows /\ ShortTexts(z)
    BY <1>2, <1>3, <1>4, NullRows
  <1>7. ~careless' => ShortTexts(mpar)'
    BY <1>4, <1>5 DEF ShortTexts
  <1>6. want' \in Seq(RowValues) /\ Len(want') = Len(want)
    <2>1. PICK n \in Nat : n = Len(want) /\ DOMAIN want = 1..n
      BY <1>2
    <2>2. want' \in [1..n -> RowValues]
      BY <1>1, <2>1 DEF RowValues
    <2>. QED
      BY <2>1, <2>2, FunctionIsSeq
  <1>. QED
    BY <1>1, <1>2, <1>3, <1>4, <1>5, <1>6, <1>7, BufferParams

IsCopy(b, z, m) == z = [b EXCEPT !.store = m]

(* A copied buffer: its own storage, the values of the original.           *)
LEMMA CopiedBuffer ==
  ASSUME cat \in B!Cats, NEW b, Shaped(b, cat), NEW m \in Nat,
         NEW z, IsCopy(b, z, m)
  PROVE  Shaped(z, cat) /\ z.rows = b.rows /\ z.mem = b.mem /\ z.ind = b.ind
  <1>1. b \in ColumnBuffers
    BY DEF Shaped
  <1>2. z \in ColumnBuffers /\ z.rows = b.rows /\ z.mem = b.mem /\ z.ind = b.ind
    BY <1>1 DEF ColumnBuffers, IsCopy
  <1>. QED
    BY <1>2 DEF Shaped

(* Copying the parameter buffer keeps the invariant.                       *)
LEMMA BufferCopy ==
  ASSUME B!ConstantsOK, BufferInv, B!Copy
  PROVE  BufferInv'
  <1>1. moves < MaxMoves /\ moves' = moves + 1 /\ mpar' = [mpar EXCEPT !.store = moves']
        /\ cat' = cat /\ mres' = mres /\ want' = want /\ got' = got /\ wild' = wild
        /\ careless' = careless
    BY DEF B!Copy
  <1>2. cat \in B!Cats /\ Shaped(mpar, cat) /\ moves \in 2..MaxMoves /\ MaxMoves \in Nat
    BY DEF BufferInv, B!ConstantsOK
  <1>3. moves' \in 2..MaxMoves /\ moves' \in Nat
    BY <1>1, <1>2
  <1>4. PICK b : b = mpar
    OBVIOUS
  <1>5. PICK m \in Nat : m = moves'
    BY <1>3
  <1>6. PICK z : z = mpar' /\ IsCopy(b, z, m)
    BY <1>1, <1>4, <1>5 DEF IsCopy
  <1>7. Shaped(z, cat) /\ z.rows = b.rows /\ z.ind = b.ind
    BY <1>2, <1>4, <1>6, CopiedBuffer
  <1>8. Shaped(mpar', cat') /\ mpar'.rows = mpar.rows /\ (ShortTexts(mpar) => ShortTexts(mpar)')
    BY <1>1, <1>4, <1>6, <1>7 DEF ShortTexts
  <1>. QED
    BY <1>1, <1>3, <1>8 DEF BufferInv

(* A row is stored: the indicators of the result buffer stay in order.     *)
LEMMA StoredIndicators ==
  ASSUME NEW b, NEW z, NEW k \in 1..b.rows, NEW v, Stored(b, z, k, v), ResultIndicators(b, cat)
  PROVE  Shaped(z, cat) /\ ResultIndicators(z, cat) /\ z.rows = b.rows
  BY DEF Stored, OnlyRow, ResultIndicators

(* fetch() of a row keeps the invariant.                                   *)
LEMMA BufferFetchRow ==
  ASSUME B!ConstantsOK, BufferInv, NEW v \in B!ServerValues, B!FetchRow(v)
  PROVE  BufferInv' /\ Stored(mres, mres', Len(got) + 1, v)
  <1>1. Len(got) < mres.rows /\ got' = Append(got, v)
        /\ mres' = (IF v = Null THEN B!StoreNull(mres, Len(got) + 1) ELSE B!StoreValue(mres, Len(got) + 1, v))
        /\ cat' = cat /\ mpar' = mpar /\ moves' = moves /\ want' = want /\ careless' = careless
        /\ wild' = (wild \/ (v # Null /\ B!StoreLeaves(mres, Len(got) + 1, v)))
    BY DEF B!FetchRow
  <1>2. cat \in B!Cats /\ Shaped(mres, cat) /\ ResultIndicators(mres, cat) /\ wild \in BOOLEAN
        /\ got \in Seq(RowValues) /\ mres.rows \in Nat
    BY DEF BufferInv, Shaped, ColumnBuffers
  <1>3. PICK b : b = mres
    OBVIOUS
  <1>4. PICK k \in 1..b.rows : k = Len(got) + 1
    BY <1>1, <1>2, <1>3
  <1>5. PICK z : z = mres' /\ z = IF v = Null THEN B!StoreNull(b, k) ELSE B!StoreValue(b, k, v)
    BY <1>1, <1>3, <1>4
  <1>6. Stored(b, z, k, v) /\ v \in RowValues
    BY <1>2, <1>3, <1>5, FetchStores
  <1>7. Shaped(z, cat) /\ ResultIndicators(z, cat) /\ z.rows = b.rows
    BY <1>2, <1>3, <1>6, StoredIndicators
  <1>8. Shaped(mres', cat') /\ ResultIndicators(mres', cat') /\ mres'.rows = mres.rows
    BY <1>1, <1>3, <1>5, <1>7
  <1>9. got' \in Seq(RowValues) /\ Len(got') = Len(got) + 1
    BY <1>1, <1>2, <1>6
  <1>10. Len(got') <= mres'.rows
    BY <1>1, <1>2, <1>8, <1>9
  <1>12. v # Null => ~B!StoreLeaves(mres, Len(got) + 1, v)
    BY <1>2, <1>3, <1>4, StoreStays
  <1>13. wild' = wild
    BY <1>1, <1>2, <1>12, Zenon
  <1>11. BufferInv'
    BY <1>1, <1>8, <1>9, <1>10, <1>13 DEF BufferInv, ShortTexts
  <1>. QED
    BY <1>3, <1>4, <1>5, <1>6, <1>11

(* The next page keeps the invariant.                                      *)
LEMMA BufferNextPage ==
  ASSUME BufferInv, B!NextPage
  PROVE  BufferInv'
  <1>1. got' = <<>> /\ cat' = cat /\ mpar' = mpar /\ mres' = mres /\ moves' = moves /\ want' = want /\ wild' = wild
        /\ careless' = careless
    BY DEF B!NextPage
  <1>2. got' \in Seq(RowValues) /\ Len(got') <= mres'.rows
    BY <1>1 DEF BufferInv, Shaped, ColumnBuffers
  <1>. QED
    BY <1>1, <1>2 DEF BufferInv, ShortTexts

(* Every step of RowBuffers is one of its actions.                         *)
LEMMA BufferActions ==
  ASSUME B!ConstantsOK, BufferInv, B!Next
  PROVE  \/ \E n \in 0..MaxRows : B!SizeParams(n)
         \/ \E n \in 0..MaxRows : B!SizeResults(n)
         \/ \E row \in Nat \ {0}, v \in B!CallerValues : B!Set(row, v)
         \/ UNCHANGED B!vars
         \/ \E row \in 1..mpar.rows : B!SetNull(row)
         \/ B!reset_all_null
         \/ B!Copy
         \/ \E v \in B!ServerValues : B!FetchRow(v)
         \/ B!NextPage
  <1>1. mpar.rows \in Nat
    BY DEF BufferInv, Shaped, ColumnBuffers
  <1>2. ASSUME NEW row \in 1..(mpar.rows + 1), NEW v \in B!CallerValues,
               B!Set(row, v) \/ B!SetRefused(row, v)
        PROVE  \/ \E rw \in Nat \ {0}, u \in B!CallerValues : B!Set(rw, u)
               \/ UNCHANGED B!vars
    <2>1. row \in Nat \ {0}
      BY <1>1
    <2>2. CASE B!SetRefused(row, v)
      BY <2>2 DEF B!SetRefused
    <2>3. CASE B!Set(row, v)
      BY <2>1, <2>3, Zenon
    <2>. QED
      BY <1>2, <2>2, <2>3
  <1>. QED
    BY <1>2, Zenon DEF B!Next

(* A stuttering step keeps the invariant.                                  *)
LEMMA BufferStutter ==
  ASSUME BufferInv, UNCHANGED B!vars
  PROVE  BufferInv'
  <1>1. cat' = cat /\ mpar' = mpar /\ mres' = mres /\ moves' = moves /\ want' = want /\ got' = got /\ wild' = wild
        /\ careless' = careless
    BY DEF B!vars
  <1>. QED
    BY <1>1 DEF BufferInv, ShortTexts

(* Every step keeps the invariant.                                         *)
LEMMA BufferStep ==
  ASSUME B!ConstantsOK, BufferInv, [B!Next]_(B!vars)
  PROVE  BufferInv'
  <1>1. CASE UNCHANGED B!vars
    BY <1>1, BufferStutter
  <1>2. CASE B!Next
    <2>1. ASSUME NEW n \in 0..MaxRows, B!SizeParams(n) PROVE BufferInv'
      BY <2>1, BufferSizeParams
    <2>2. ASSUME NEW n \in 0..MaxRows, B!SizeResults(n) PROVE BufferInv'
      BY <2>2, BufferSizeResults
    <2>3. ASSUME NEW row \in Nat \ {0}, NEW v \in B!CallerValues, B!Set(row, v)
          PROVE  BufferInv'
      BY <2>3, BufferSet
    <2>4. ASSUME NEW row \in 1..mpar.rows, B!SetNull(row) PROVE BufferInv'
      BY <2>4, BufferSetNull
    <2>5. CASE B!reset_all_null
      BY <2>5, BufferResetAll
    <2>6. CASE B!Copy
      BY <2>6, BufferCopy
    <2>7. ASSUME NEW v \in B!ServerValues, B!FetchRow(v) PROVE BufferInv'
      BY <2>7, BufferFetchRow
    <2>8. CASE B!NextPage
      BY <2>8, BufferNextPage
    <2>. QED
      BY <1>1, <1>2, <2>1, <2>2, <2>3, <2>4, <2>5, <2>6, <2>7, <2>8, BufferActions
  <1>. QED
    BY <1>1, <1>2

(* What the invariant says of a buffer is what the properties say of it.   *)
LEMMA BufferTypes ==
  ASSUME B!ConstantsOK, BufferInv
  PROVE  StorageSound
  <1>1. ASSUME NEW b, Shaped(b, cat)
        PROVE  /\ b.rows \in 1..MaxRows
               /\ DOMAIN b.mem = 1..(b.rows * B!Stride(cat)) /\ DOMAIN b.ind = 1..b.rows
               /\ \A r \in 1..b.rows : b.ind[r] \in -1..(L + 1)
    <2>1. b.rows \in 1..MaxRows /\ b.mem \in Seq(Cells) /\ b.ind \in Seq(Int)
          /\ Len(b.mem) = b.rows * B!Stride(cat) /\ Len(b.ind) = b.rows
      BY <1>1 DEF Shaped, ColumnBuffers
    <2>. QED
      BY <1>1, <2>1 DEF Shaped
  <1>2. Shaped(mpar, cat) /\ Shaped(mres, cat)
    BY DEF BufferInv
  <1>3. B!InBounds
    BY DEF BufferInv, B!InBounds
  <1>4. \A b \in {mpar, mres} :
          /\ b.rows \in 1..MaxRows
          /\ DOMAIN b.mem = 1..(b.rows * B!Stride(cat)) /\ DOMAIN b.ind = 1..b.rows
          /\ \A r \in 1..b.rows : b.ind[r] \in -1..(L + 1)
    BY <1>1, <1>2
  <1>5. cat \in B!Cats /\ moves \in 2..MaxMoves /\ {wild, careless} \subseteq BOOLEAN
        /\ Len(want) = mpar.rows /\ Len(got) <= mres.rows
    BY DEF BufferInv
  <1>6. B!TypeOK
    BY <1>4, <1>5, Zenon DEF B!TypeOK
  <1>. QED
    BY <1>3, <1>6 DEF StorageSound

(* Buffers keep their shape, and a write leaves the array of its column    *)
(* only after a setter took a text as long as the array or a row behind    *)
(* the last one, whatever is sized, copied, set and fetched                *)
(* (resize_storage(), set_<name>(), fetch()): StorageSound.                *)
THEOREM StorageIsSound == B!Spec => []StorageSound
  <1>. USE BuffersAssumption
  <1>1. B!Init => BufferInv
    BY BufferInit
  <1>2. BufferInv /\ [B!Next]_(B!vars) => BufferInv'
    BY BufferStep
  <1>3. BufferInv => StorageSound
    BY BufferTypes
  <1>. QED
    BY <1>1, <1>2, <1>3, PTL DEF B!Spec

(* What a row sends or reads is that of the buffer it has.                 *)
LEMMA PrimedReads ==
  ASSUME cat' = cat, NEW r, NEW p, p = mpar', NEW q, q = mres'
  PROVE  B!Marshal(mpar, r)' = B!Marshal(p, r) /\ B!Getter(mpar, r)' = B!Getter(p, r)
         /\ B!Getter(mres, r)' = B!Getter(q, r)
  <1>1. B!Marshal(mpar, r)' = B!Marshal(p, r)
    BY DEF B!Marshal, B!LoadString, B!Stretch, B!Element, B!Offset, B!Stride, B!Terminated, B!null_data
  <1>2. B!Getter(mres, r)' = B!Getter(q, r)
    BY DEF B!Getter, B!Stretch, B!Element, B!Offset, B!Stride, B!StringCats, B!Terminated, B!null_data
  <1>3. B!Getter(mpar, r)' = B!Getter(p, r)
    BY DEF B!Getter, B!Stretch, B!Element, B!Offset, B!Stride, B!StringCats, B!Terminated, B!null_data
  <1>. QED
    BY <1>1, <1>2, <1>3

(* What the rows of the new buffer read and send is what SentAsSet says of *)
(* them.                                                                   *)
LEMMA SentNext ==
  ASSUME cat' = cat, NEW p, p = mpar', NEW w, w = want', \A r \in 1..p.rows : RowSent(p, r, w[r])
  PROVE  B!SentAsSet'
  <1>. SUFFICES ASSUME NEW r \in 1..(mpar.rows)'
       PROVE  B!Getter(mpar, r)' = want'[r] /\ B!Marshal(mpar, r)' = B!Arrives(want[r])'
    BY DEF B!SentAsSet
  <1>1. PICK q : q = mres'
    OBVIOUS
  <1>2. B!Marshal(mpar, r)' = B!Marshal(p, r) /\ B!Getter(mpar, r)' = B!Getter(p, r)
    BY <1>1, PrimedReads
  <1>3. r \in 1..p.rows
    OBVIOUS
  <1>4. PICK x : x = w[r] /\ x = want'[r]
    OBVIOUS
  <1>5. B!Arrives(want[r])' = B!Arrives(x)
    BY <1>4 DEF B!Arrives
  <1>6. B!Getter(p, r) = x /\ B!Marshal(p, r) = B!Arrives(x)
    BY <1>3, <1>4 DEF RowSent
  <1>. QED
    BY <1>2, <1>4, <1>5, <1>6

(* What SentAsSet says of the rows of the buffer.                          *)
LEMMA SentNow ==
  ASSUME B!SentAsSet, NEW r \in 1..mpar.rows
  PROVE  RowSent(mpar, r, want[r])
  BY DEF B!SentAsSet, RowSent

(* Texts a C string can carry: no null inside.                             *)
Carried == cat # "c_string" \/ 0 \notin Bytes

(* The other rows of a buffer with short texts read and send as before.    *)
LEMMA OthersSent ==
  ASSUME B!ConstantsOK, cat \in B!Cats, NEW b, NEW z, Shaped(b, cat), Shaped(z, cat), ShortTexts(b),
         NEW k \in Nat \ {0}, OnlyRow(b, z, k, cat), NEW r \in 1..b.rows, r # k,
         NEW v, RowSent(b, r, v)
  PROVE  RowSent(z, r, v)
  <1>1. b.ind[r] <= L
    BY DEF ShortTexts
  <1>2. B!Getter(z, r) = B!Getter(b, r) /\ B!Marshal(z, r) = B!Marshal(b, r)
    BY <1>1, OtherRowsRead
  <1>. QED
    BY <1>2 DEF RowSent

(* A setter: its row sends the new value, the others what they sent.       *)
LEMMA SentSet ==
  ASSUME B!ConstantsOK, BufferInv, B!SentAsSet, Carried, ~careless', NEW row \in Nat \ {0},
         NEW v \in B!CallerValues, B!Set(row, v)
  PROVE  B!SentAsSet'
  <1>1. ~B!Refuses(v, row) /\ IsSet(mpar, mpar', row, v) /\ cat' = cat
        /\ want' = (IF row \in DOMAIN want THEN [want EXCEPT ![row] = v] ELSE want)
        /\ careless' = (careless \/ B!Careless(v, row))
    BY DEF B!Set, IsSet
  <1>2. cat \in B!Cats /\ Shaped(mpar, cat) /\ want \in Seq(RowValues) /\ Len(want) = mpar.rows
        /\ mpar.rows \in Nat /\ careless \in BOOLEAN /\ (~careless => ShortTexts(mpar))
    BY DEF BufferInv, Shaped, ColumnBuffers
  <1>3. ~careless /\ ~B!Careless(v, row)
    BY <1>1, <1>2, Zenon
  <1>4. /\ v \in Seq(Cells) /\ Len(v) <= B!Stride(cat) /\ Len(B!Image(v)) <= B!Stride(cat) /\ Len(v) <= L
        /\ cat \in B!StringCats => v \in Seq(Bytes) /\ v # Null
        /\ cat \notin B!StringCats => Len(v) = 1
    BY <1>1, <1>2, <1>3, CallerFits
  <1>5. Sendable(v)
    BY <1>4 DEF Sendable, Carried
  <1>6. PICK b : b = mpar
    OBVIOUS
  <1>7. PICK p : p = mpar'
    OBVIOUS
  <1>8. PICK w : w = want'
    OBVIOUS
  <1>9. Shaped(b, cat) /\ IsSet(b, p, row, v) /\ ShortTexts(b)
    BY <1>1, <1>2, <1>3, <1>6, <1>7
  <1>10. Shaped(p, cat) /\ p.rows = b.rows /\ OnlyRow(b, p, row, cat)
    BY <1>2, <1>4, <1>9, SetShape
  <1>11. row \in 1..b.rows
    BY <1>2, <1>3, <1>6 DEF B!Careless
  <1>12. ASSUME NEW r \in 1..p.rows PROVE RowSent(p, r, w[r])
    <2>1. r \in 1..b.rows /\ r \in DOMAIN want
      BY <1>2, <1>6, <1>10, <1>12
    <2>2. CASE r = row
      <3>1. w[r] = v
        BY <1>1, <1>2, <1>8, <2>1, <2>2
      <3>2. RowSent(p, row, v)
        BY <1>2, <1>4, <1>5, <1>9, <1>11, SetSends
      <3>. QED
        BY <2>2, <3>1, <3>2
    <2>3. CASE r # row
      <3>1. w[r] = want[r]
        BY <1>1, <1>2, <1>8, <2>1, <2>3
      <3>2. RowSent(b, r, want[r])
        BY <1>6, <2>1, SentNow
      <3>3. PICK x : x = want[r]
        OBVIOUS
      <3>4. RowSent(p, r, x)
        BY <1>2, <1>9, <1>10, <2>1, <2>3, <3>2, <3>3, OthersSent
      <3>. QED
        BY <3>1, <3>3, <3>4
    <2>. QED
      BY <2>2, <2>3
  <1>. QED
    BY <1>1, <1>7, <1>8, <1>12, SentNext

(* set_<name>_null(): its row sends NULL, the others what they sent.       *)
LEMMA SentSetNull ==
  ASSUME B!ConstantsOK, BufferInv, B!SentAsSet, ~careless, NEW row \in 1..mpar.rows, B!SetNull(row)
  PROVE  B!SentAsSet'
  <1>1. mpar' = [mpar EXCEPT !.ind[row] = B!null_data] /\ want' = [want EXCEPT ![row] = Null] /\ cat' = cat
    BY DEF B!SetNull
  <1>2. cat \in B!Cats /\ Shaped(mpar, cat) /\ want \in Seq(RowValues) /\ Len(want) = mpar.rows /\ ShortTexts(mpar)
    BY DEF BufferInv
  <1>8. mpar.rows \in Nat
    BY <1>2 DEF Shaped, ColumnBuffers
  <1>3. PICK b : b = mpar
    OBVIOUS
  <1>4. PICK p : p = mpar' /\ p = [b EXCEPT !.ind[row] = B!null_data]
    BY <1>1, <1>3
  <1>5. PICK w : w = want'
    OBVIOUS
  <1>6. Shaped(p, cat) /\ OnlyRow(b, p, row, cat) /\ p.rows = b.rows /\ RowSent(p, row, Null)
    BY <1>2, <1>3, <1>4, NullRow
  <1>7. ASSUME NEW r \in 1..p.rows PROVE RowSent(p, r, w[r])
    <2>1. r \in 1..b.rows /\ r \in DOMAIN want
      BY <1>2, <1>3, <1>6, <1>7, <1>8
    <2>2. CASE r = row
      <3>1. w[r] = Null
        BY <1>1, <1>2, <1>5, <2>1, <2>2
      <3>. QED
        BY <1>6, <2>2, <3>1
    <2>3. CASE r # row
      <3>1. w[r] = want[r]
        BY <1>1, <1>2, <1>5, <2>1, <2>3
      <3>2. row \in Nat \ {0} /\ Shaped(b, cat) /\ ShortTexts(b)
        BY <1>2, <1>3, <1>8
      <3>3. RowSent(b, r, want[r])
        BY <1>3, <2>1, SentNow
      <3>4. PICK x : x = want[r]
        OBVIOUS
      <3>5. RowSent(p, r, x)
        BY <1>2, <1>6, <2>1, <2>3, <3>2, <3>3, <3>4, OthersSent
      <3>. QED
        BY <3>1, <3>4, <3>5
    <2>. QED
      BY <2>2, <2>3
  <1>. QED
    BY <1>1, <1>4, <1>5, <1>7, SentNext

(* reset_all_null(): every row sends NULL.                                 *)
LEMMA SentResetAll ==
  ASSUME B!ConstantsOK, BufferInv, B!reset_all_null
  PROVE  B!SentAsSet'
  <1>1. mpar' = [mpar EXCEPT !.ind = [r \in DOMAIN @ |-> B!null_data]] /\ want' = [r \in DOMAIN want |-> Null]
        /\ cat' = cat
    BY DEF B!reset_all_null
  <1>2. cat \in B!Cats /\ Shaped(mpar, cat) /\ want \in Seq(RowValues) /\ Len(want) = mpar.rows
    BY DEF BufferInv
  <1>3. PICK b : b = mpar
    OBVIOUS
  <1>4. PICK p : p = mpar' /\ p = [b EXCEPT !.ind = [r \in DOMAIN @ |-> B!null_data]]
    BY <1>1, <1>3
  <1>5. PICK w : w = want'
    OBVIOUS
  <1>6. p.rows = b.rows /\ \A r \in 1..b.rows : RowSent(p, r, Null)
    BY <1>2, <1>3, <1>4, NullRows
  <1>7. \A r \in 1..b.rows : w[r] = Null
    BY <1>1, <1>2, <1>3, <1>5
  <1>8. \A r \in 1..p.rows : RowSent(p, r, w[r])
    BY <1>6, <1>7
  <1>. QED
    BY <1>1, <1>4, <1>5, <1>8, SentNext

(* Sizing the buffer: every row reads and sends an empty value.            *)
LEMMA SentSizeParams ==
  ASSUME B!ConstantsOK, BufferInv, NEW n \in 0..MaxRows, B!SizeParams(n)
  PROVE  B!SentAsSet'
  <1>1. moves' = moves + 1 /\ mpar' = B!Sized(B!Positive(n), moves')
        /\ want' = B!Fresh(B!Positive(n)) /\ cat' = cat
    BY DEF B!SizeParams
  <1>2. cat \in B!Cats /\ moves' \in Nat
    BY <1>1 DEF BufferInv, B!ConstantsOK
  <1>3. PICK m \in Nat : m = moves'
    BY <1>2
  <1>4. PICK rows \in 1..MaxRows : rows = B!Positive(n)
    BY PositiveType
  <1>5. PICK p : p = mpar' /\ p = B!Sized(rows, m)
    BY <1>1, <1>3, <1>4
  <1>6. PICK w : w = want' /\ w = B!Fresh(rows)
    BY <1>1, <1>4
  <1>7. p.rows = rows
    BY <1>2, <1>5, SizedShape
  <1>8. \A k \in 1..rows : RowSent(p, k, B!Fresh(rows)[k])
    BY <1>2, <1>5, FreshSends
  <1>9. \A r \in 1..p.rows : RowSent(p, r, w[r])
    BY <1>6, <1>7, <1>8
  <1>. QED
    BY <1>1, <1>5, <1>6, <1>9, SentNext

(* A buffer of the same values reads and sends the same.                   *)
LEMMA SentSame ==
  ASSUME B!SentAsSet, cat' = cat, want' = want, mpar'.rows = mpar.rows, mpar'.mem = mpar.mem, mpar'.ind = mpar.ind
  PROVE  B!SentAsSet'
  <1>1. PICK p : p = mpar'
    OBVIOUS
  <1>2. PICK b : b = mpar
    OBVIOUS
  <1>3. PICK w : w = want' /\ w = want
    OBVIOUS
  <1>4. p.rows = b.rows /\ p.mem = b.mem /\ p.ind = b.ind
    BY <1>1, <1>2
  <1>5. ASSUME NEW r PROVE B!Marshal(p, r) = B!Marshal(b, r) /\ B!Getter(p, r) = B!Getter(b, r)
    BY <1>4 DEF B!Marshal, B!Getter, B!LoadString, B!Stretch, B!Element
  <1>6. \A r \in 1..b.rows : RowSent(b, r, w[r])
    BY <1>2, <1>3, SentNow
  <1>7. \A r \in 1..p.rows : RowSent(p, r, w[r])
    BY <1>4, <1>5, <1>6 DEF RowSent
  <1>. QED
    BY <1>1, <1>3, <1>7, SentNext

(* The rows of a fresh buffer read and send empty values.                  *)
LEMMA SentInit ==
  ASSUME B!ConstantsOK, B!Init
  PROVE  B!SentAsSet
  <1>1. cat \in B!Cats /\ want = B!Fresh(1) /\ mpar = B!Sized(1, 1)
    BY DEF B!Init
  <1>2. 1 \in 1..MaxRows /\ 1 \in Nat
    BY DEF B!ConstantsOK
  <1>3. mpar.rows = 1
    BY <1>1, <1>2, SizedShape
  <1>4. \A k \in 1..1 : RowSent(mpar, k, B!Fresh(1)[k])
    BY <1>1, <1>2, FreshSends
  <1>. QED
    BY <1>1, <1>3, <1>4 DEF B!SentAsSet, RowSent

(* A caller that was careless once was.                                    *)
LEMMA CarelessStays ==
  ASSUME B!ConstantsOK, BufferInv, [B!Next]_(B!vars)
  PROVE  cat' = cat /\ (careless => careless')
  <1>1. CASE UNCHANGED B!vars
    BY <1>1 DEF B!vars
  <1>2. CASE B!Next
    <2>1. ASSUME NEW n \in 0..MaxRows, B!SizeParams(n) \/ B!SizeResults(n) PROVE cat' = cat /\ careless' = careless
      BY <2>1 DEF B!SizeParams, B!SizeResults
    <2>2. ASSUME NEW row \in Nat \ {0}, NEW v \in B!CallerValues, B!Set(row, v)
          PROVE  cat' = cat /\ (careless => careless')
      BY <2>2, Zenon DEF B!Set
    <2>3. ASSUME NEW row \in 1..mpar.rows, B!SetNull(row) PROVE cat' = cat /\ careless' = careless
      BY <2>3 DEF B!SetNull
    <2>4. CASE B!reset_all_null \/ B!Copy \/ B!NextPage
      BY <2>4 DEF B!reset_all_null, B!Copy, B!NextPage
    <2>5. ASSUME NEW v \in B!ServerValues, B!FetchRow(v) PROVE cat' = cat /\ careless' = careless
      BY <2>5 DEF B!FetchRow
    <2>. QED
      BY <1>1, <1>2, <2>1, <2>2, <2>3, <2>4, <2>5, BufferActions, Zenon
  <1>. QED
    BY <1>1, <1>2

(* Every step of a careful caller keeps what the rows read and send.       *)
LEMMA SentStep ==
  ASSUME B!ConstantsOK, BufferInv, Carried, ~careless', B!SentAsSet, [B!Next]_(B!vars)
  PROVE  B!SentAsSet'
  <1>1. ASSUME mpar' = mpar, want' = want, cat' = cat PROVE B!SentAsSet'
    BY <1>1, SentSame
  <1>2. CASE UNCHANGED B!vars
    BY <1>1, <1>2 DEF B!vars
  <1>3. CASE B!Next
    <2>1. ASSUME NEW n \in 0..MaxRows, B!SizeParams(n) PROVE B!SentAsSet'
      BY <2>1, SentSizeParams
    <2>2. ASSUME NEW n \in 0..MaxRows, B!SizeResults(n) PROVE B!SentAsSet'
      BY <1>1, <2>2 DEF B!SizeResults
    <2>3. ASSUME NEW row \in Nat \ {0}, NEW v \in B!CallerValues, B!Set(row, v) PROVE B!SentAsSet'
      BY <2>3, SentSet
    <2>4. ASSUME NEW row \in 1..mpar.rows, B!SetNull(row) PROVE B!SentAsSet'
      <3>1. ~careless
        BY CarelessStays
      <3>. QED
        BY <2>4, <3>1, SentSetNull
    <2>5. CASE B!reset_all_null
      BY <2>5, SentResetAll
    <2>6. CASE B!Copy
      <3>1. mpar' = [mpar EXCEPT !.store = moves'] /\ cat' = cat /\ want' = want
        BY <2>6 DEF B!Copy
      <3>2. mpar \in ColumnBuffers
        BY DEF BufferInv, Shaped
      <3>3. mpar'.rows = mpar.rows /\ mpar'.mem = mpar.mem /\ mpar'.ind = mpar.ind
        BY <3>1, <3>2 DEF ColumnBuffers
      <3>. QED
        BY <3>1, <3>3, SentSame
    <2>7. ASSUME NEW v \in B!ServerValues, B!FetchRow(v) PROVE B!SentAsSet'
      BY <1>1, <2>7 DEF B!FetchRow
    <2>8. CASE B!NextPage
      BY <1>1, <2>8 DEF B!NextPage
    <2>. QED
      BY <1>2, <1>3, <2>1, <2>2, <2>3, <2>4, <2>5, <2>6, <2>7, <2>8, BufferActions
  <1>. QED
    BY <1>2, <1>3

(* The rows read so far, of buffer q with the values w.                    *)
RowsRead(q, w) ==
  \A r \in DOMAIN w : cat \in B!StringCats \/ r \notin q.nulled => B!Getter(q, r) = B!Expected(w[r])

(* What the rows of the new buffer read as is what ReadAsSent says of them.*)
LEMMA ReadNext ==
  ASSUME cat' = cat, NEW q, q = mres', NEW w, w = got', RowsRead(q, w)
  PROVE  B!ReadAsSent'
  <1>1. PICK p : p = mpar'
    OBVIOUS
  <1>2. ASSUME NEW r \in DOMAIN got', cat' \in B!StringCats \/ r \notin mres'.nulled
        PROVE  B!Getter(mres, r)' = B!Expected(got[r])'
    <2>1. B!Getter(mres, r)' = B!Getter(q, r)
      BY <1>1, PrimedReads
    <2>2. PICK x : x = got'[r]
      OBVIOUS
    <2>3. B!Expected(got[r])' = B!Expected(x)
      BY <2>2 DEF B!Expected, B!Converts, B!StringCats, B!Terminated, B!Cut, B!ParsesDate, B!Day
    <2>4. B!Getter(q, r) = B!Expected(x)
      BY <1>2, <2>2 DEF RowsRead
    <2>. QED
      BY <2>1, <2>3, <2>4
  <1>. QED
    BY <1>2 DEF B!ReadAsSent

(* A fetched row reads as it was sent, the earlier ones as before.         *)
LEMMA ReadFetchRow ==
  ASSUME B!ConstantsOK, BufferInv, B!ReadAsSent, NEW v \in B!ServerValues, B!FetchRow(v)
  PROVE  B!ReadAsSent'
  <1>1. Len(got) < mres.rows /\ got' = Append(got, v) /\ cat' = cat
    BY DEF B!FetchRow
  <1>2. cat \in B!Cats /\ Shaped(mres, cat) /\ ResultIndicators(mres, cat)
        /\ got \in Seq(RowValues) /\ mres.rows \in Nat
    BY DEF BufferInv, Shaped, ColumnBuffers
  <1>3. PICK b : b = mres
    OBVIOUS
  <1>4. PICK k \in 1..b.rows : k = Len(got) + 1
    BY <1>1, <1>2, <1>3
  <1>5. PICK q : q = mres'
    OBVIOUS
  <1>6. PICK w : w = got'
    OBVIOUS
  <1>7. Stored(b, q, k, v)
    BY <1>3, <1>4, <1>5, BufferFetchRow
  <1>8. Shaped(b, cat) /\ ResultIndicators(b, cat)
    BY <1>2, <1>3
  <1>9. Shaped(q, cat) /\ OnlyRow(b, q, k, cat)
        /\ (cat \in B!StringCats \/ k \notin q.nulled => B!Getter(q, k) = B!Expected(v))
    BY <1>7 DEF Stored
  <1>10. k \in Nat \ {0}
    BY <1>2, <1>3
  <1>11. DOMAIN w = 1..k /\ w[k] = v /\ \A r \in 1..k : r # k => r \in DOMAIN got /\ w[r] = got[r]
    BY <1>1, <1>2, <1>4, <1>6
  <1>12. ASSUME NEW r \in DOMAIN w, cat \in B!StringCats \/ r \notin q.nulled
         PROVE  B!Getter(q, r) = B!Expected(w[r])
    <2>1. CASE r = k
      BY <1>9, <1>11, <1>12, <2>1
    <2>2. CASE r # k
      <3>1. r \in 1..b.rows /\ r \in DOMAIN got /\ w[r] = got[r]
        <4>1. r \in 1..k /\ b.rows \in Nat
          BY <1>2, <1>3, <1>11, <1>12
        <4>2. r \in 1..b.rows
          BY <1>10, <4>1
        <4>. QED
          BY <1>11, <2>2, <4>1, <4>2
      <3>2. r \in b.nulled <=> r \in q.nulled
        BY <1>9, <2>2, <3>1 DEF OnlyRow
      <3>3. B!Getter(b, r) = B!Expected(got[r])
        BY <1>3, <1>12, <3>1, <3>2 DEF B!ReadAsSent
      <3>4. b.ind[r] <= L
        BY <1>8, <3>1 DEF ResultIndicators
      <3>5. B!Getter(q, r) = B!Getter(b, r)
        BY <1>2, <1>8, <1>9, <1>10, <2>2, <3>1, <3>4, OtherRowsRead
      <3>. QED
        BY <3>1, <3>3, <3>5
    <2>. QED
      BY <2>1, <2>2
  <1>13. RowsRead(q, w)
    BY <1>12 DEF RowsRead
  <1>. QED
    BY <1>1, <1>5, <1>6, <1>13, ReadNext

(* Every step keeps what the rows read as.                                 *)
LEMMA ReadStep ==
  ASSUME B!ConstantsOK, BufferInv, B!ReadAsSent, [B!Next]_(B!vars)
  PROVE  B!ReadAsSent'
  <1>1. ASSUME mres' = mres, got' = got, cat' = cat PROVE B!ReadAsSent'
    <2>1. PICK q : q = mres'
      OBVIOUS
    <2>2. PICK w : w = got'
      OBVIOUS
    <2>3. RowsRead(q, w)
      BY <1>1, <2>1, <2>2 DEF RowsRead, B!ReadAsSent
    <2>. QED
      BY <1>1, <2>1, <2>2, <2>3, ReadNext
  <1>2. ASSUME got' = <<>>, cat' = cat PROVE B!ReadAsSent'
    <2>1. PICK q : q = mres'
      OBVIOUS
    <2>2. PICK w : w = got' /\ DOMAIN w = {}
      BY <1>2
    <2>3. RowsRead(q, w)
      BY <2>2 DEF RowsRead
    <2>. QED
      BY <1>2, <2>1, <2>2, <2>3, ReadNext
  <1>3. CASE UNCHANGED B!vars
    BY <1>1, <1>3 DEF B!vars
  <1>4. CASE B!Next
    <2>1. ASSUME NEW n \in 0..MaxRows, B!SizeParams(n) PROVE B!ReadAsSent'
      BY <1>1, <2>1 DEF B!SizeParams
    <2>2. ASSUME NEW n \in 0..MaxRows, B!SizeResults(n) PROVE B!ReadAsSent'
      BY <1>2, <2>2 DEF B!SizeResults
    <2>3. ASSUME NEW row \in Nat \ {0}, NEW v \in B!CallerValues, B!Set(row, v)
          PROVE  B!ReadAsSent'
      BY <1>1, <2>3 DEF B!Set
    <2>4. ASSUME NEW row \in 1..mpar.rows, B!SetNull(row) PROVE B!ReadAsSent'
      BY <1>1, <2>4 DEF B!SetNull
    <2>5. CASE B!reset_all_null
      BY <1>1, <2>5 DEF B!reset_all_null
    <2>6. CASE B!Copy
      BY <1>1, <2>6 DEF B!Copy
    <2>7. ASSUME NEW v \in B!ServerValues, B!FetchRow(v) PROVE B!ReadAsSent'
      BY <2>7, ReadFetchRow
    <2>8. CASE B!NextPage
      BY <1>2, <2>8 DEF B!NextPage
    <2>. QED
      BY <1>3, <1>4, <2>1, <2>2, <2>3, <2>4, <2>5, <2>6, <2>7, <2>8, BufferActions
  <1>. QED
    BY <1>3, <1>4

(* No row was fetched into a fresh buffer.                                 *)
LEMMA ReadInit ==
  ASSUME B!Init
  PROVE  B!ReadAsSent
  <1>1. got = <<>> /\ DOMAIN got = {}
    BY DEF B!Init
  <1>. QED
    BY <1>1 DEF B!ReadAsSent

(* A fetched row reads as the server sent it, for every width, number of   *)
(* rows and text, as long as no write left the arrays (store_value() and   *)
(* the generated getters; a number or a date whose row was NULL before may *)
(* read NULL still): ReadAsSent.                                           *)
THEOREM RowsReadAsSent == B!Spec => [](~wild => B!ReadAsSent)
  <1>. USE BuffersAssumption
  <1>1. B!Init => BufferInv /\ B!ReadAsSent
    BY BufferInit, ReadInit
  <1>2. BufferInv /\ B!ReadAsSent /\ [B!Next]_(B!vars) => BufferInv' /\ B!ReadAsSent'
    BY BufferStep, ReadStep
  <1>3. B!ReadAsSent => (~wild => B!ReadAsSent)
    OBVIOUS
  <1>. QED
    BY <1>1, <1>2, <1>3, PTL DEF B!Spec

(* What the rows of a careful caller read and send, where the column can   *)
(* carry its texts.                                                        *)
SentInv == Carried /\ ~careless => B!SentAsSet

(* It holds from the start on.                                             *)
LEMMA SentInvariant == B!Spec => [](BufferInv /\ SentInv)
  <1>. USE BuffersAssumption
  <1>1. B!Init => BufferInv /\ SentInv
    BY BufferInit, SentInit DEF SentInv
  <1>2. BufferInv /\ SentInv /\ [B!Next]_(B!vars) => BufferInv' /\ SentInv'
    <2>. SUFFICES ASSUME BufferInv, SentInv, [B!Next]_(B!vars) PROVE BufferInv' /\ SentInv'
      OBVIOUS
    <2>1. BufferInv'
      BY BufferStep
    <2>2. cat' = cat /\ (careless => careless')
      BY CarelessStays
    <2>3. Carried' => Carried
      BY <2>2 DEF Carried
    <2>4. ASSUME Carried', ~careless' PROVE B!SentAsSet'
      <3>1. Carried /\ B!SentAsSet
        BY <2>2, <2>3, <2>4 DEF SentInv
      <3>. QED
        BY <2>4, <3>1, SentStep
    <2>. QED
      BY <2>1, <2>4 DEF SentInv
  <1>. QED
    BY <1>1, <1>2, PTL DEF B!Spec

(* A row reads and sends what its setter was given, or NULL, whatever the  *)
(* other rows are given, for callers that kept to the widths and the rows  *)
(* and whose texts have no null inside where the column is a C string      *)
(* (set_value(), the getters, marshal_row()): SentAsSet.                   *)
THEOREM RowsSentAsSet == B!Spec => [](Carried /\ ~careless => B!SentAsSet)
  <1>1. BufferInv /\ SentInv => (Carried /\ ~careless => B!SentAsSet)
    BY DEF SentInv
  <1>. QED
    BY <1>1, SentInvariant, PTL

(* A value goes through a buffer unchanged, out to the server and back     *)
(* from it (the generated setters and getters, load_value() and            *)
(* store_value()), where texts have no null inside: ValuesKept.            *)
THEOREM ValuesAreKept ==
  ASSUME 0 \notin Bytes
  PROVE  B!Spec => []ValuesKept
  <1>1. BufferInv /\ SentInv /\ (~wild => B!ReadAsSent) => ValuesKept
    BY DEF ValuesKept, SentInv, Carried
  <1>. QED
    BY <1>1, SentInvariant, RowsReadAsSent, PTL
=============================================================================
