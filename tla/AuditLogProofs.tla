--------------------------- MODULE AuditLogProofs ---------------------------
(***************************************************************************)
(* Proofs about the audit log, for any number of threads, any deployment,  *)
(* page size, query range and number of events.                            *)
(*                                                                         *)
(* The inductive invariant ties every call to one undecided event and      *)
(* every stored event to one row (Events, Rows), says how a row was linked *)
(* when it was appended (RowWell) and what retention can have taken        *)
(* (Retained): what is gone is older than the cutoff and older than every  *)
(* kept row before it.  Losses accounts for the events that never became   *)
(* rows.  An auditor who is paging has the unseen rows ahead (Paging).     *)
(***************************************************************************)
EXTENDS AuditLog, FiniteSetTheorems, SequenceTheorems, TLAPS

Rows == 1..Len(inserted)
Outcomes == {"pending", "stored", "lost", "unopened", "dropped"}
ReaderType == [pc : {"idle", "reading", "done"}, offset : Nat, seen : SUBSET Nat,
               want : SUBSET Nat, failed : BOOLEAN]

Kinds ==
  /\ deployment \in Deployments
  /\ now \in 1..MaxTime
  /\ drawn \in Nat /\ cache \in {Uncached, NoStore} \cup 0..drawn
  /\ call \in [Callers -> [pc : {"idle", "opening", "stamped"}, n : Nat, time : Nat, key : Int]]
  /\ \A c \in Callers : call[c].time <= now
  /\ \A c \in Callers : call[c].pc # "idle" => call[c].key \in 0..drawn
  /\ inserted \in Seq(Range(inserted)) /\ kept \subseteq Rows
  /\ outcome \in Seq(Outcomes)
  /\ reader \in ReaderType
  /\ cutoff \in Nat /\ cleanups \in Nat /\ restarts \in Nat /\ faults \in 0..deployment.faults

\* An undecided event is that of one call under way, and the other way round.
Busy(c) == call[c].pc # "idle"
Events ==
  /\ \A c \in Callers : ~Busy(c) => call[c].n = 0
  /\ \A c \in Callers : Busy(c) => call[c].n \in DOMAIN outcome /\ outcome[call[c].n] = "pending"
  /\ \A c, d \in Callers : Busy(c) /\ call[c].n = call[d].n => c = d
  /\ \A n \in DOMAIN outcome : outcome[n] = "pending" => \E c \in Callers : call[c].n = n

\* A row carries its event's number as id, and is linked to the row it was put after.
RowWell(s) ==
  LET r == inserted[s]
  IN /\ r.n \in Nat \ {0} /\ r.id = r.n /\ r.time \in Nat /\ r.after \in 0..(s - 1)
     /\ r.hash = Hash(r.key, r.prev, r.id, r.time)
     /\ r.prev = IF r.after = 0 THEN Genesis(r.key) ELSE inserted[r.after].hash

\* Every stored event is one row.
Stored ==
  /\ \A s \in Rows : RowWell(s)
  /\ \A s, u \in Rows : inserted[s].n = inserted[u].n => s = u
  /\ \A s \in Rows : inserted[s].n \in DOMAIN outcome /\ outcome[inserted[s].n] = "stored"
  /\ \A n \in DOMAIN outcome : outcome[n] = "stored" => \E s \in Rows : inserted[s].n = n

\* What retention can have taken.
Retained ==
  /\ \A s, u \in kept : u < s => u <= inserted[s].after
  /\ \A s \in Rows \ kept : inserted[s].time < cutoff
  /\ \A s \in kept, u \in Rows \ kept : u > s => inserted[u].time < inserted[s].time

\* What has been lost, and by what: a failed construction of the store stays cached.
Gone == {n \in DOMAIN outcome : outcome[n] \in {"lost", "unopened"}}
Losses ==
  /\ Cardinality(Gone) <= faults + restarts * Cardinality(Callers)
  /\ \A n \in DOMAIN outcome :
       outcome[n] = "dropped" => \E m \in 1..(n - 1) : outcome[m] = "unopened"
  /\ cache = NoStore => faults > 0 /\ \E m \in DOMAIN outcome : outcome[m] = "unopened"
  /\ reader.failed => faults > 0

\* No later row carries an earlier time: what keeps row s keeps the rows above it.
InOrder(s) == \A u \in Rows : u > s => inserted[u].time >= inserted[s].time

\* The rows the auditor has not seen are still ahead of the offset.
Paging ==
  /\ reader.want \subseteq Rows
  /\ reader.pc # "reading" => reader.offset = 0
  /\ reader.pc = "reading" =>
       \A s \in reader.want \ reader.seen :
         s \in kept /\ InRange(s) /\ InOrder(s) => Len(inserted) - s >= reader.offset
  /\ reader.pc = "done" /\ ~reader.failed => \A s \in reader.want \ reader.seen : ~InOrder(s)

IInv == Kinds /\ Events /\ Stored /\ Retained /\ Losses /\ Paging

-----------------------------------------------------------------------------
\* A nonempty set of naturals has a least element.
Smaller == {p \in Nat \X Nat : p[1] < p[2]}

LEMMA SmallerIsWellFounded == IsWellFoundedOn(Smaller, Nat)
<1>1. OpToRel(<, Nat) = Smaller   BY Zenon DEF OpToRel, Smaller
<1> QED BY <1>1, NatLessThanWellFounded

LEMMA LeastNat ==
  ASSUME NEW T, T \subseteq Nat, T # {}
  PROVE  \E x \in T : \A y \in T : x <= y
<1>1. PICK x \in T : \A y \in T : ~ (<<y, x>> \in Smaller)   BY SmallerIsWellFounded, WFMin
<1>2. \A a, b \in Nat : a < b => <<a, b>> \in Smaller         BY DEF Smaller
<1>3. \A y \in T : x <= y
  <2> SUFFICES ASSUME NEW y \in T PROVE x <= y   OBVIOUS
  <2>1. x \in Nat /\ y \in Nat                   OBVIOUS
  <2>2. ~(y < x)                                 BY <1>1, <1>2, <2>1
  <2> QED BY <2>1, <2>2
<1> QED BY <1>3

\* Max of a nonempty bounded set of naturals is its greatest element.
LEMMA MaxIsGreatest ==
  ASSUME NEW S, S \subseteq Nat, S # {}, NEW n \in Nat, \A x \in S : x <= n
  PROVE  Max(S) \in S /\ \A x \in S : x <= Max(S)
<1> DEFINE Bounds == {b \in Nat : \A x \in S : x <= b}
<1>1. PICK b \in Bounds : \A y \in Bounds : b <= y
  <2>1. n \in Bounds   OBVIOUS
  <2> QED BY <2>1, LeastNat
<1>2. b \in S
  <2> SUFFICES ASSUME b \notin S PROVE FALSE   OBVIOUS
  <2>1. PICK x \in S : TRUE                   OBVIOUS
  <2>2. x \in Nat /\ b \in Nat /\ x < b       BY <2>1
  <2>3. b - 1 \in Bounds                      BY <2>2
  <2> QED BY <1>1, <2>2, <2>3
<1>3. \E x \in S : \A y \in S : x >= y         BY <1>2
<1> QED BY <1>3 DEF Max

LEMMA MaxOfRows ==
  ASSUME Kinds, NEW S, S \subseteq kept, S # {}
  PROVE  Max(S) \in S /\ \A x \in S : x <= Max(S)
<1>1. Len(inserted) \in Nat                             BY LenProperties DEF Kinds
<1>2. S \subseteq Nat /\ \A x \in S : x <= Len(inserted)   BY <1>1 DEF Kinds, Rows
<1> QED BY <1>1, <1>2, MaxIsGreatest

LEMMA MaxOfTwo ==
  ASSUME NEW a \in Nat, NEW b \in Nat
  PROVE  Max({a, b}) \in Nat /\ Max({a, b}) >= a /\ Max({a, b}) >= b
<1>1. CASE a <= b   BY <1>1, MaxIsGreatest
<1>2. CASE b <= a   BY <1>2, MaxIsGreatest
<1> QED BY <1>1, <1>2

\* Appending to a log of any rows keeps it a sequence and keeps the rows.
LEMMA LogGrows ==
  ASSUME inserted \in Seq(Range(inserted)), NEW r, inserted' = Append(inserted, r)
  PROVE  /\ Len(inserted) \in Nat /\ Len(inserted') = Len(inserted) + 1
         /\ inserted' \in Seq(Range(inserted'))
         /\ \A s \in Rows : inserted'[s] = inserted[s]
         /\ inserted'[Len(inserted) + 1] = r
<1> DEFINE R == Range(inserted) \cup {r}
<1>1. inserted \in Seq(R)    BY SeqMonotonic
<1>2. inserted' \in Seq(R)   BY <1>1, AppendProperties
<1>3. inserted' \in Seq(Range(inserted'))   BY <1>2, SeqOfRange
<1> QED BY <1>1, <1>3, AppendProperties, LenProperties DEF Rows

-----------------------------------------------------------------------------
LEMMA CallersFinite == IsFiniteSet(Callers) /\ Cardinality(Callers) \in Nat
BY PoolFinite, FS_AddElement, FS_CardinalityType DEF Callers

LEMMA InitHolds == Init => IInv
<1> SUFFICES ASSUME Init PROVE IInv   OBVIOUS
<1> USE DEF Init
<1>1. Range(inserted) = {} /\ inserted \in Seq({}) /\ Len(inserted) = 0 /\ Rows = {}
  BY EmptySeq DEF Range, Rows
<1>2. deployment.faults \in Nat   BY DeploymentsKnown
<1>3. outcome \in Seq(Outcomes) /\ DOMAIN outcome = {}   BY EmptySeq
<1>4. Kinds
  BY <1>1, <1>2, <1>3, ClockStarts DEF Kinds, NoCall, NoStore, Uncached, NotReading, ReaderType
<1>5. Events  BY <1>3 DEF Events, Busy, NoCall
<1>6. Stored /\ Retained   BY <1>1, <1>3 DEF Stored, Retained
<1>7. Paging   BY DEF Paging, NotReading
<1>8. Losses
  <2>1. Gone = {} /\ Cardinality(Gone) = 0   BY <1>3, FS_EmptySet DEF Gone
  <2>2. faults + restarts * Cardinality(Callers) = 0   BY CallersFinite
  <2> QED BY <1>3, <2>1, <2>2 DEF Losses, NotReading, NoStore, Uncached
<1> QED BY <1>4, <1>5, <1>6, <1>7, <1>8 DEF IInv

\* What every step needs of the outcomes.
LEMMA OutcomesAre ==
  ASSUME Kinds
  PROVE  /\ Len(outcome) \in Nat /\ DOMAIN outcome = 1..Len(outcome)
         /\ outcome \in [1..Len(outcome) -> Outcomes]
         /\ Len(inserted) \in Nat /\ DOMAIN inserted = Rows
BY LenProperties DEF Kinds, Rows

LEMMA OutcomeAdded ==
  ASSUME Kinds, NEW o \in Outcomes, outcome' = Append(outcome, o)
  PROVE  /\ outcome' \in Seq(Outcomes)
         /\ DOMAIN outcome' = 1..(Len(outcome) + 1) /\ Len(outcome') = Len(outcome) + 1
         /\ \A n \in DOMAIN outcome : outcome'[n] = outcome[n]
         /\ outcome'[Len(outcome) + 1] = o
<1> DEFINE O == Outcomes
<1>1. outcome \in Seq(O) /\ o \in O   BY DEF Kinds
<1>2. /\ outcome' \in Seq(O) /\ Len(outcome') = Len(outcome) + 1
      /\ \A n \in 1..Len(outcome) : outcome'[n] = outcome[n]
      /\ outcome'[Len(outcome) + 1] = o
  <2> HIDE DEF O
  <2> QED BY <1>1, AppendProperties
<1>3. DOMAIN outcome' = 1..Len(outcome')   BY <1>2, LenProperties
<1> QED BY <1>2, <1>3, OutcomesAre

LEMMA OutcomeSet ==
  ASSUME Kinds, NEW n \in DOMAIN outcome, NEW o \in Outcomes,
         outcome' = [outcome EXCEPT ![n] = o]
  PROVE  /\ outcome' \in Seq(Outcomes)
         /\ DOMAIN outcome' = DOMAIN outcome /\ Len(outcome') = Len(outcome)
         /\ \A m \in DOMAIN outcome : outcome'[m] = IF m = n THEN o ELSE outcome[m]
<1> DEFINE O == Outcomes
<1>1. outcome \in Seq(O) /\ o \in O /\ n \in 1..Len(outcome)   BY OutcomesAre DEF Kinds
<1>2. /\ outcome' \in Seq(O) /\ Len(outcome') = Len(outcome)
      /\ \A m \in 1..Len(outcome) : outcome'[m] = IF m = n THEN o ELSE outcome[m]
  <2> HIDE DEF O
  <2> QED BY <1>1, ExceptSeq
<1>3. DOMAIN outcome' = 1..Len(outcome')   BY <1>2, LenProperties
<1> QED BY <1>2, <1>3, OutcomesAre

-----------------------------------------------------------------------------
(***************************************************************************)
(* The types, one step per action.                                         *)
(***************************************************************************)
CallType == [pc : {"idle", "opening", "stamped"}, n : Nat, time : Nat, key : Int]

LEMMA PageTyped ==
  ASSUME Kinds, NEW page, page \subseteq kept, NEW f \in BOOLEAN, Paged(page, f)
  PROVE  reader' \in ReaderType
<1> DEFINE here == {s \in kept : InRange(s)}
           wanted == {s \in reader.want \cap kept : InRange(s)}
<1>0. Rows \subseteq Nat /\ kept \subseteq Rows   BY OutcomesAre DEF Kinds, Rows
<1>1. here \in SUBSET Nat /\ wanted \in SUBSET Nat   BY <1>0
<1>2. page \subseteq Nat /\ Cardinality(page) \in Nat
  <2>1. IsFiniteSet(Rows)   BY OutcomesAre, FS_Interval DEF Rows
  <2>2. IsFiniteSet(page)   BY <1>0, <2>1, FS_Subset
  <2> QED BY <1>0, <2>2, FS_CardinalityType
<1>3. reader' = [pc |-> IF Cardinality(page) < PageSize THEN "done" ELSE "reading",
                 offset |-> IF Cardinality(page) < PageSize THEN 0
                            ELSE reader.offset + Cardinality(page),
                 seen |-> page \cup (IF reader.pc # "reading" THEN {} ELSE reader.seen),
                 want |-> IF reader.pc # "reading" THEN here ELSE wanted,
                 failed |-> f]
  BY DEF Paged
<1> HIDE DEF here, wanted
<1>4. reader.offset \in Nat /\ reader.seen \subseteq Nat   BY DEF Kinds, ReaderType
<1>5. /\ page \cup (IF reader.pc # "reading" THEN {} ELSE reader.seen) \in SUBSET Nat
      /\ (IF reader.pc # "reading" THEN here ELSE wanted) \in SUBSET Nat
      /\ (IF Cardinality(page) < PageSize THEN 0 ELSE reader.offset + Cardinality(page)) \in Nat
  <2>1. page \cup {} \in SUBSET Nat /\ page \cup reader.seen \in SUBSET Nat   BY <1>2, <1>4
  <2>2. reader.offset + Cardinality(page) \in Nat   BY <1>2, <1>4
  <2>3. CASE reader.pc # "reading"   BY <1>1, <2>1, <2>2, <2>3
  <2>4. CASE reader.pc = "reading"   BY <1>1, <2>1, <2>2, <2>4
  <2> QED BY <2>3, <2>4
<1>6. (IF Cardinality(page) < PageSize THEN "done" ELSE "reading") \in {"idle", "reading", "done"}
  OBVIOUS
<1> QED BY Zenon, <1>3, <1>5, <1>6 DEF ReaderType

LEMMA KindsStep == IInv /\ [Next]_vars => Kinds'
<1> SUFFICES ASSUME IInv, [Next]_vars PROVE Kinds'   OBVIOUS
<1> USE DEF IInv
<1>0. /\ Threads \subseteq Callers /\ Auditor \in Callers
      /\ NoCall \in CallType /\ NoCall.pc = "idle" /\ NoCall.time = 0
      /\ \A c \in Callers : call[c].time <= now
      /\ \A c \in Callers : call[c].pc # "idle" => call[c].key \in 0..drawn
  BY DEF Kinds, Callers, NoCall, NoStore, CallType
<1>1. /\ Len(outcome) \in Nat /\ call \in [Callers -> CallType]
      /\ now \in Nat /\ MaxTime \in Nat /\ deployment.faults \in Nat
  BY OutcomesAre, ClockStarts, DeploymentsKnown DEF Kinds, CallType
<1>2. CASE UNCHANGED vars   BY <1>2 DEF vars, Kinds, Rows
<1>3. CASE Tick
  <2>1. \A c \in Callers : call[c].time <= now'   BY <1>1, <1>3 DEF Tick, Kinds, CallType
  <2> QED BY <1>1, <1>3, <2>1 DEF Tick, Kinds, Rows
<1>4. CASE Restart
  <2>1. outcome' \in Seq(Outcomes)
    <3>1. outcome' \in [1..Len(outcome) -> Outcomes]
      BY <1>4, OutcomesAre DEF Restart, Kinds, Outcomes
    <3> QED BY <1>1, <3>1, SeqDef
  <2>2. reader' \in ReaderType   BY <1>4 DEF Restart, NotReading, ReaderType
  <2>3. /\ call' \in [Callers -> CallType]
        /\ \A c \in Callers : call'[c].time <= now' /\ call'[c].pc = "idle"
    BY <1>0, <1>1, <1>4 DEF Restart, Kinds
  <2> QED BY <1>1, <1>4, <2>1, <2>2, <2>3 DEF Restart, Kinds, Rows, CallType
<1>5. CASE ReadPage \/ ReadFails
  <2>1. AccessAudited /\ (faults' = faults \/ (faults < deployment.faults /\ faults' = faults + 1))
    BY <1>5 DEF ReadPage, ReadFails
  <2>2. /\ Stamped(cache) \in CallType /\ Stamped(cache).time <= now
        /\ Stamped(cache).key \in 0..drawn
    BY <1>1, <2>1 DEF AccessAudited, Stamped, Open, Kinds, CallType, Uncached, NoStore
  <2>3. /\ call' \in [Callers -> CallType]
        /\ \A c \in Callers : call'[c] = IF c = Auditor THEN Stamped(cache) ELSE call[c]
    BY <1>0, <1>1, <2>1, <2>2 DEF AccessAudited
  <2>4. /\ \A c \in Callers : call'[c].time <= now
        /\ \A c \in Callers : call'[c].pc # "idle" => call'[c].key \in 0..drawn
    BY <1>0, <2>2, <2>3
  <2>5. outcome' \in Seq(Outcomes)   BY <2>1, OutcomeAdded DEF AccessAudited, Outcomes
  <2>6. reader' \in ReaderType       BY <1>5, PageTyped DEF ReadPage, ReadFails, Query
  <2>7. faults' \in 0..deployment.faults   BY <1>1, <2>1 DEF Kinds
  <2> QED BY <1>1, <2>1, <2>3, <2>4, <2>5, <2>6, <2>7 DEF AccessAudited, Kinds, Rows, CallType
<1>12. ASSUME NEW c \in Callers, Dropped(c), reader' \in ReaderType PROVE Kinds'
  <2>1. outcome' \in Seq(Outcomes)   BY <1>12, OutcomeAdded DEF Dropped, Outcomes
  <2> QED BY <1>12, <2>1 DEF Dropped, Kinds, Rows
<1>13. ReadNothing => Dropped(Auditor) /\ reader' \in ReaderType   BY PageTyped DEF ReadNothing
<1>14. \A c \in Threads : EmitDropped(c) => Dropped(c) /\ reader' \in ReaderType
  BY DEF EmitDropped, Kinds
<1>6. ASSUME NEW t \in 1..now, DeleteOlderThan(t) PROVE Kinds'
  <2>1. cutoff' \in Nat   BY <1>1, <1>6, MaxOfTwo DEF DeleteOlderThan, Kinds
  <2>2. kept' \subseteq kept /\ Rows' = Rows /\ cleanups' \in Nat
    BY <1>6 DEF DeleteOlderThan, Kinds, Rows
  <2>3. UNCHANGED <<deployment, now, cache, drawn, call, inserted, outcome, reader, restarts, faults>>
    BY <1>6 DEF DeleteOlderThan
  <2> QED BY <2>1, <2>2, <2>3 DEF Kinds
<1>7. ASSUME NEW c \in Threads, StartOpening(c) PROVE Kinds'
  <2> DEFINE e == [pc |-> "opening", n |-> Len(outcome) + 1, time |-> 0, key |-> drawn']
  <2>1. drawn' \in Nat /\ drawn' >= drawn   BY <1>7 DEF StartOpening, Kinds
  <2>2. e \in CallType /\ e.time <= now /\ e.key \in 0..drawn'   BY <1>1, <2>1 DEF CallType
  <2>3. call' = [call EXCEPT ![c] = e]   BY <1>7 DEF StartOpening
  <2> HIDE DEF e
  <2>4. /\ call' \in [Callers -> CallType]
        /\ \A d \in Callers : call'[d] = IF d = c THEN e ELSE call[d]
    BY <1>0, <1>1, <2>2, <2>3
  <2>5. /\ \A d \in Callers : call'[d].time <= now
        /\ \A d \in Callers : call'[d].pc # "idle" => call'[d].key \in 0..drawn'
    <3> SUFFICES ASSUME NEW d \in Callers
                 PROVE  call'[d].time <= now /\ (call'[d].pc # "idle" => call'[d].key \in 0..drawn')
      OBVIOUS
    <3>1. CASE d = c    BY <2>2, <2>4, <3>1
    <3>2. CASE d # c
      <4>1. call'[d] = call[d]   BY <2>4, <3>2
      <4>2. call[d].pc # "idle" => call[d].key \in 0..drawn   BY <1>0
      <4>3. drawn \in Nat   BY DEF Kinds
      <4> QED BY <1>0, <2>1, <4>1, <4>2, <4>3
    <3> QED BY <3>1, <3>2
  <2>6. outcome' \in Seq(Outcomes)   BY <1>7, OutcomeAdded DEF StartOpening, Outcomes
  <2>7. cache' \in {Uncached, NoStore} \cup 0..drawn'    BY <1>7, <2>1 DEF StartOpening, Kinds
  <2> QED BY <1>1, <1>7, <2>1, <2>4, <2>5, <2>6, <2>7 DEF StartOpening, Kinds, Rows, CallType
<1>8. ASSUME NEW c \in Threads, Opened(c) PROVE Kinds'
  <2> DEFINE e == [call[c] EXCEPT !.pc = "stamped", !.time = now]
  <2>1. call' = [call EXCEPT ![c] = e]   BY <1>8 DEF Opened
  <2>2. /\ e \in CallType /\ e.time = now /\ e.key = call[c].key
        /\ call[c].pc # "idle"
    BY <1>0, <1>1, <1>8 DEF Opened, CallType
  <2> HIDE DEF e
  <2>3. /\ call' \in [Callers -> CallType]
        /\ \A d \in Callers : /\ call'[d].time <= now
                              /\ call'[d].key = call[d].key
                              /\ call'[d].pc # "idle" => call[d].pc # "idle"
    BY <1>0, <1>1, <2>1, <2>2
  <2>4. cache' \in {Uncached, NoStore} \cup 0..drawn   BY <1>0, <1>8 DEF Opened, Kinds, Cached
  <2> QED BY <1>1, <1>8, <2>3, <2>4, ZenonT(40) DEF Opened, Kinds, Rows, CallType
<1>9. ASSUME NEW c \in Threads, OpeningFails(c) PROVE Kinds'
  <2>1. /\ call' \in [Callers -> CallType]
        /\ \A d \in Callers : call'[d] = IF d = c THEN NoCall ELSE call[d]
    BY <1>0, <1>1, <1>9 DEF OpeningFails
  <2>2. /\ \A d \in Callers : call'[d].time <= now
        /\ \A d \in Callers : call'[d].pc # "idle" => call'[d].key \in 0..drawn
    BY <1>0, <1>1, <2>1
  <2>3. outcome' \in Seq(Outcomes)
    BY <1>0, <1>9, OutcomeSet DEF OpeningFails, Events, Busy, Outcomes
  <2>4. cache' \in {Uncached, NoStore} \cup 0..drawn   BY <1>9 DEF OpeningFails, Kinds, Cached
  <2>5. faults' \in 0..deployment.faults   BY <1>1, <1>9 DEF OpeningFails, Kinds
  <2> QED BY <1>1, <1>9, <2>1, <2>2, <2>3, <2>4, <2>5 DEF OpeningFails, Kinds, Rows, CallType
<1>10. ASSUME NEW c \in Threads, Emit(c) PROVE Kinds'
  <2>1. /\ Stamped(cache) \in CallType /\ Stamped(cache).time <= now
        /\ Stamped(cache).key \in 0..drawn
    BY <1>1, <1>10 DEF Emit, Stamped, Open, Kinds, CallType, Uncached, NoStore
  <2>2. /\ call' \in [Callers -> CallType]
        /\ \A d \in Callers : call'[d] = IF d = c THEN Stamped(cache) ELSE call[d]
    BY <1>0, <1>1, <1>10, <2>1 DEF Emit
  <2>3. /\ \A d \in Callers : call'[d].time <= now
        /\ \A d \in Callers : call'[d].pc # "idle" => call'[d].key \in 0..drawn
    BY <1>0, <2>1, <2>2
  <2>4. outcome' \in Seq(Outcomes)   BY <1>10, OutcomeAdded DEF Emit, Outcomes
  <2> QED BY <1>1, <1>10, <2>2, <2>3, <2>4 DEF Emit, Kinds, Rows, CallType
<1>11. ASSUME NEW c \in Callers, AppendRow(c) \/ AppendFails(c) PROVE Kinds'
  <2>1. /\ call' \in [Callers -> CallType]
        /\ \A d \in Callers : call'[d] = IF d = c THEN NoCall ELSE call[d]
    BY <1>0, <1>1, <1>11 DEF AppendRow, AppendFails
  <2>2. /\ \A d \in Callers : call'[d].time <= now
        /\ \A d \in Callers : call'[d].pc # "idle" => call'[d].key \in 0..drawn
    BY <1>0, <1>1, <2>1
  <2>3. outcome' \in Seq(Outcomes)
    BY <1>11, OutcomeSet DEF AppendRow, AppendFails, Events, Busy, Outcomes
  <2>4. inserted' \in Seq(Range(inserted')) /\ kept' \subseteq Rows'
    <3>1. CASE AppendRow(c)
      <4>1. inserted \in Seq(Range(inserted)) /\ kept \subseteq Rows   BY DEF Kinds
      <4>2. inserted' = Append(inserted, Row(call[c])) /\ kept' = kept \cup {Len(inserted) + 1}
        BY <3>1 DEF AppendRow
      <4>3. /\ Len(inserted) \in Nat /\ Len(inserted') = Len(inserted) + 1
            /\ inserted' \in Seq(Range(inserted'))
        BY <4>1, <4>2, LogGrows
      <4>4. Rows' = Rows \cup {Len(inserted) + 1}   BY <4>3 DEF Rows
      <4>5. kept' \subseteq Rows'   BY <4>1, <4>2, <4>4
      <4> QED BY <4>3, <4>5
    <3>2. CASE AppendFails(c)   BY <3>2 DEF AppendFails, Kinds, Rows
    <3> QED BY <1>11, <3>1, <3>2
  <2>5. faults' \in 0..deployment.faults
    <3>1. faults \in 0..deployment.faults   BY DEF Kinds
    <3>2. faults' = faults \/ (faults < deployment.faults /\ faults' = faults + 1)
      BY <1>11 DEF AppendRow, AppendFails
    <3> QED BY <1>1, <3>1, <3>2
  <2>6. UNCHANGED <<deployment, now, cache, drawn, reader, cutoff, cleanups, restarts>>
    BY <1>11 DEF AppendRow, AppendFails
  <2> QED BY <1>1, <2>1, <2>2, <2>3, <2>4, <2>5, <2>6 DEF Kinds, CallType
<1> QED BY <1>0, <1>2, <1>3, <1>4, <1>5, <1>6, <1>7, <1>8, <1>9, <1>10, <1>11, <1>12, <1>13, <1>14
        DEF Next, Callers

-----------------------------------------------------------------------------
(***************************************************************************)
(* Calls and their events.                                                 *)
(***************************************************************************)
\* A caller takes up a new event.
LEMMA EventsBegin ==
  ASSUME Kinds, Events, NEW c \in Callers, ~Busy(c),
         NEW e, e.pc # "idle", e.n = Len(outcome) + 1,
         \A d \in Callers : call'[d] = IF d = c THEN e ELSE call[d],
         outcome' = Append(outcome, "pending")
  PROVE  Events'
<1>1. /\ DOMAIN outcome = 1..Len(outcome) /\ Len(outcome) \in Nat
      /\ DOMAIN outcome' = 1..(Len(outcome) + 1)
      /\ \A n \in DOMAIN outcome : outcome'[n] = outcome[n]
      /\ outcome'[Len(outcome) + 1] = "pending"
  BY OutcomesAre, OutcomeAdded DEF Outcomes
<1>2. \A d \in Callers : d # c => call[d].n # Len(outcome) + 1   BY <1>1 DEF Events
<1>3. \A d \in Callers : ~Busy(d)' => call'[d].n = 0             BY DEF Events, Busy
<1>4. \A d \in Callers : Busy(d)' => call'[d].n \in DOMAIN outcome' /\ outcome'[call'[d].n] = "pending"
  BY <1>1 DEF Events, Busy
<1>5. \A d, f \in Callers : Busy(d)' /\ call'[d].n = call'[f].n => d = f
  BY <1>2 DEF Events, Busy
<1>6. \A n \in DOMAIN outcome' : outcome'[n] = "pending" => \E d \in Callers : call'[d].n = n
  <2> SUFFICES ASSUME NEW n \in DOMAIN outcome', outcome'[n] = "pending"
               PROVE  \E d \in Callers : call'[d].n = n
    OBVIOUS
  <2>1. CASE n = Len(outcome) + 1   BY <2>1
  <2>2. CASE n \in DOMAIN outcome
    <3>1. PICK d \in Callers : call[d].n = n   BY <1>1, <2>2 DEF Events
    <3>2. d # c                               BY <1>1, <2>2, <3>1 DEF Events
    <3> QED BY <3>1, <3>2
  <2> QED BY <1>1, <2>1, <2>2
<1> QED BY <1>3, <1>4, <1>5, <1>6 DEF Events, Busy

\* A caller's event is decided.
LEMMA EventsEnd ==
  ASSUME Kinds, Events, NEW c \in Callers, Busy(c), NEW o \in {"stored", "lost", "unopened"},
         \A d \in Callers : call'[d] = IF d = c THEN NoCall ELSE call[d],
         outcome' = [outcome EXCEPT ![call[c].n] = o]
  PROVE  Events'
<1>1. call[c].n \in DOMAIN outcome   BY DEF Events
<1>2. /\ DOMAIN outcome' = DOMAIN outcome
      /\ \A m \in DOMAIN outcome : outcome'[m] = IF m = call[c].n THEN o ELSE outcome[m]
  BY <1>1, OutcomeSet DEF Outcomes
<1>3. \A d \in Callers : ~Busy(d)' => call'[d].n = 0   BY DEF Events, Busy, NoCall
<1>4. \A d \in Callers : Busy(d)' => call'[d].n \in DOMAIN outcome' /\ outcome'[call'[d].n] = "pending"
  BY <1>2 DEF Events, Busy, NoCall
<1>5. \A d, f \in Callers : Busy(d)' /\ call'[d].n = call'[f].n => d = f
  <2>1. 0 \notin DOMAIN outcome   BY OutcomesAre
  <2> QED BY <2>1 DEF Events, Busy, NoCall
<1>6. \A n \in DOMAIN outcome' : outcome'[n] = "pending" => \E d \in Callers : call'[d].n = n
  BY <1>2 DEF Events
<1> QED BY <1>3, <1>4, <1>5, <1>6 DEF Events, Busy

\* An event is dropped before anybody has begun with it.
LEMMA EventsDropped ==
  ASSUME Kinds, Events, NEW c, Dropped(c)
  PROVE  Events'
<1>1. call' = call /\ outcome' = Append(outcome, "dropped")   BY DEF Dropped
<1>2. /\ DOMAIN outcome = 1..Len(outcome) /\ Len(outcome) \in Nat
      /\ DOMAIN outcome' = 1..(Len(outcome) + 1)
      /\ \A n \in DOMAIN outcome : outcome'[n] = outcome[n]
      /\ outcome'[Len(outcome) + 1] = "dropped"
  BY <1>1, OutcomesAre, OutcomeAdded DEF Outcomes
<1>3. DOMAIN outcome' = DOMAIN outcome \cup {Len(outcome) + 1}   BY <1>2
<1> QED BY <1>1, <1>2, <1>3 DEF Events, Busy

LEMMA EventsStep == IInv /\ [Next]_vars => Events'
<1> SUFFICES ASSUME IInv, [Next]_vars PROVE Events'   OBVIOUS
<1> USE DEF IInv
<1>0. /\ Threads \subseteq Callers /\ Auditor \in Callers
      /\ call \in [Callers -> CallType] /\ NoCall.pc = "idle" /\ NoCall.n = 0
  BY DEF Kinds, CallType, Callers, NoCall
<1>2. CASE UNCHANGED <<call, outcome>>   BY <1>2 DEF Events, Busy
<1>3. CASE Restart
  <2>1. /\ \A c \in Callers : call'[c] = NoCall
        /\ DOMAIN outcome' = DOMAIN outcome
        /\ \A n \in DOMAIN outcome : outcome'[n] # "pending"
    BY <1>3 DEF Restart
  <2> QED BY <1>0, <2>1 DEF Events, Busy
<1>4. CASE AccessAudited
  <2>1. \A d \in Callers : call'[d] = IF d = Auditor THEN Stamped(cache) ELSE call[d]
    BY <1>0, <1>4 DEF AccessAudited
  <2>2. ~Busy(Auditor) /\ outcome' = Append(outcome, "pending")   BY <1>4 DEF AccessAudited, Busy
  <2>3. Stamped(cache).pc # "idle" /\ Stamped(cache).n = Len(outcome) + 1   BY DEF Stamped
  <2> QED BY <1>0, <2>1, <2>2, <2>3, EventsBegin
<1>5. ASSUME NEW c \in Threads, StartOpening(c) PROVE Events'
  <2> DEFINE e == [pc |-> "opening", n |-> Len(outcome) + 1, time |-> 0, key |-> drawn']
  <2>1. \A d \in Callers : call'[d] = IF d = c THEN e ELSE call[d]
    BY <1>0, <1>5 DEF StartOpening
  <2>2. ~Busy(c) /\ outcome' = Append(outcome, "pending")   BY <1>5 DEF StartOpening, Busy
  <2>3. e.pc # "idle" /\ e.n = Len(outcome) + 1   OBVIOUS
  <2> HIDE DEF e
  <2> QED BY <1>0, <2>1, <2>2, <2>3, EventsBegin
<1>6. ASSUME NEW c \in Threads, Emit(c) PROVE Events'
  <2>1. \A d \in Callers : call'[d] = IF d = c THEN Stamped(cache) ELSE call[d]
    BY <1>0, <1>6 DEF Emit
  <2>2. ~Busy(c) /\ outcome' = Append(outcome, "pending")   BY <1>6 DEF Emit, Busy
  <2>3. Stamped(cache).pc # "idle" /\ Stamped(cache).n = Len(outcome) + 1   BY DEF Stamped
  <2> QED BY <1>0, <2>1, <2>2, <2>3, EventsBegin
<1>7. ASSUME NEW c \in Threads, Opened(c) PROVE Events'
  <2>1. \A d \in Callers : call'[d].n = call[d].n /\ (call'[d].pc # "idle" <=> call[d].pc # "idle")
    <3>1. call' = [call EXCEPT ![c] = [call[c] EXCEPT !.pc = "stamped", !.time = now]]
      BY <1>7 DEF Opened
    <3>2. call[c].pc = "opening"   BY <1>7 DEF Opened
    <3> QED BY <1>0, <3>1, <3>2 DEF CallType
  <2>2. outcome' = outcome   BY <1>7 DEF Opened
  <2> QED BY <2>1, <2>2 DEF Events, Busy
<1>8. ASSUME NEW c \in Callers, OpeningFails(c) \/ AppendRow(c) \/ AppendFails(c) PROVE Events'
  <2>1. /\ Busy(c)
        /\ call' = [call EXCEPT ![c] = NoCall]
        /\ \E o \in {"stored", "lost", "unopened"} : outcome' = [outcome EXCEPT ![call[c].n] = o]
    BY <1>8 DEF OpeningFails, AppendRow, AppendFails, Busy
  <2>2. \A d \in Callers : call'[d] = IF d = c THEN NoCall ELSE call[d]   BY <1>0, <2>1
  <2> QED BY <2>1, <2>2, EventsEnd
<1>9. ASSUME NEW t \in 1..now, DeleteOlderThan(t) PROVE UNCHANGED <<call, outcome>>
  BY <1>9 DEF DeleteOlderThan
<1>10. Tick \/ UNCHANGED vars => UNCHANGED <<call, outcome>>   BY DEF Tick, vars
<1>11. ReadPage \/ ReadFails => AccessAudited   BY DEF ReadPage, ReadFails
<1>12. ReadNothing => Dropped(Auditor)          BY DEF ReadNothing
<1>13. \A c \in Threads : EmitDropped(c) => Dropped(c)   BY DEF EmitDropped
<1>14. \A c : Dropped(c) => Events'             BY EventsDropped
<1> QED BY <1>0, <1>2, <1>3, <1>4, <1>5, <1>6, <1>7, <1>8, <1>9, <1>10, <1>11, <1>12, <1>13, <1>14
        DEF Next

-----------------------------------------------------------------------------
(***************************************************************************)
(* The rows, and what retention leaves of them.                            *)
(***************************************************************************)
\* Rows stay as they are when no event's being stored changes.
LEMMA StoredFrame ==
  ASSUME Stored, inserted' = inserted, DOMAIN outcome \subseteq DOMAIN outcome',
         \A n \in DOMAIN outcome : outcome[n] = "stored" <=> outcome'[n] = "stored",
         \A n \in DOMAIN outcome' \ DOMAIN outcome : outcome'[n] # "stored"
  PROVE  Stored'
BY DEF Stored, Rows, RowWell

\* The row an append puts behind the last one kept.
LEMMA RowAppended ==
  ASSUME Kinds, Events, NEW c \in Callers, AppendRow(c)
  PROVE  /\ Len(inserted) \in Nat /\ Len(inserted') = Len(inserted) + 1
         /\ Rows' = Rows \cup {Len(inserted) + 1} /\ Len(inserted) + 1 \notin Rows
         /\ \A s \in Rows : inserted'[s] = inserted[s]
         /\ inserted'[Len(inserted) + 1] = Row(call[c])
         /\ kept' = kept \cup {Len(inserted) + 1}
         /\ call[c].n \in DOMAIN outcome /\ outcome[call[c].n] = "pending"
         /\ DOMAIN outcome' = DOMAIN outcome
         /\ \A n \in DOMAIN outcome :
               outcome'[n] = IF n = call[c].n THEN "stored" ELSE outcome[n]
<1>1. /\ inserted \in Seq(Range(inserted)) /\ inserted' = Append(inserted, Row(call[c]))
      /\ kept' = kept \cup {Len(inserted) + 1}
      /\ outcome' = [outcome EXCEPT ![call[c].n] = "stored"]
  BY DEF Kinds, AppendRow
<1>2. call[c].n \in DOMAIN outcome /\ outcome[call[c].n] = "pending"
  BY DEF Events, Busy, AppendRow
<1>3. /\ Len(inserted) \in Nat /\ Len(inserted') = Len(inserted) + 1
      /\ \A s \in Rows : inserted'[s] = inserted[s]
      /\ inserted'[Len(inserted) + 1] = Row(call[c])
  BY <1>1, LogGrows
<1>4. Rows' = Rows \cup {Len(inserted) + 1} /\ Len(inserted) + 1 \notin Rows   BY <1>3 DEF Rows
<1>5. /\ DOMAIN outcome' = DOMAIN outcome
      /\ \A n \in DOMAIN outcome :
            outcome'[n] = IF n = call[c].n THEN "stored" ELSE outcome[n]
  BY <1>1, <1>2, OutcomeSet DEF Outcomes
<1> QED BY <1>1, <1>2, <1>3, <1>4, <1>5

LEMMA StoredAppend ==
  ASSUME Kinds, Events, Stored, NEW c \in Callers, AppendRow(c)
  PROVE  Stored'
<1> DEFINE r == Row(call[c])
<1>0. PICK new \in Nat : new = Len(inserted) + 1   BY RowAppended
<1>1. /\ Len(inserted) \in Nat /\ Rows' = Rows \cup {new} /\ new \notin Rows
      /\ \A s \in Rows : inserted'[s] = inserted[s]
      /\ inserted'[new] = r
      /\ call[c].n \in DOMAIN outcome /\ outcome[call[c].n] = "pending"
      /\ DOMAIN outcome' = DOMAIN outcome
      /\ \A n \in DOMAIN outcome : outcome'[n] = IF n = call[c].n THEN "stored" ELSE outcome[n]
  BY <1>0, RowAppended
<1>2. /\ r.n = call[c].n /\ r.id = r.n /\ r.time = call[c].time /\ r.key = call[c].key
      /\ r.prev = LastHash(r.key) /\ r.hash = Hash(r.key, r.prev, r.id, r.time)
      /\ r.after = IF kept = {} THEN 0 ELSE Max(kept)
  BY DEF Row, EventId
<1> HIDE DEF r
<1>3. call[c].n \in Nat \ {0} /\ call[c].time \in Nat   BY <1>1, OutcomesAre DEF Kinds
<1>4. RowWell(new)'
  <2>1. CASE kept = {}
    <3>1. r.after = 0 /\ r.prev = Genesis(r.key) /\ 0 \in 0..(new - 1)
      BY <1>0, <1>1, <1>2, <2>1 DEF LastHash
    <3> QED BY <1>1, <1>2, <1>3, <3>1 DEF RowWell
  <2>2. CASE kept # {}
    <3>1. Max(kept) \in kept                     BY <2>2, MaxOfRows
    <3>2. kept \subseteq Rows                    BY DEF Kinds
    <3>3. Max(kept) \in Rows /\ Max(kept) \in Nat \ {0} /\ Max(kept) \in 0..(new - 1)
      <4>1. Max(kept) \in Rows   BY <3>1, <3>2
      <4> HIDE DEF Max
      <4> QED BY <1>0, <1>1, <4>1 DEF Rows
    <3>4. r.prev = inserted[Max(kept)].hash      BY <1>2, <2>2 DEF LastHash
    <3>5. inserted'[r.after] = inserted[Max(kept)]   BY <1>1, <1>2, <2>2, <3>3
    <3> QED BY <1>1, <1>2, <1>3, <2>2, <3>3, <3>4, <3>5 DEF RowWell
  <2> QED BY <2>1, <2>2
<1>5. \A s \in Rows : RowWell(s)'
  <2> SUFFICES ASSUME NEW s \in Rows PROVE RowWell(s)'   OBVIOUS
  <2>1. RowWell(s) /\ inserted'[s] = inserted[s]         BY <1>1 DEF Stored
  <2>2. inserted[s].after # 0 => inserted[s].after \in Rows
    BY <1>1, <2>1 DEF RowWell, Rows
  <2>3. inserted[s].after # 0 => inserted'[inserted[s].after] = inserted[inserted[s].after]
    BY <1>1, <2>2
  <2> QED BY <2>1, <2>3 DEF RowWell
<1>6. \A s \in Rows : inserted[s].n \in DOMAIN outcome /\ outcome[inserted[s].n] = "stored"
  BY DEF Stored
<1>7. \A s \in Rows : inserted[s].n # r.n   BY <1>1, <1>2, <1>6
<1>8. \A s, u \in Rows' : inserted'[s].n = inserted'[u].n => s = u
  BY <1>1, <1>7 DEF Stored
<1>9. \A s \in Rows' : inserted'[s].n \in DOMAIN outcome' /\ outcome'[inserted'[s].n] = "stored"
  BY <1>1, <1>2, <1>6
<1>10. \A n \in DOMAIN outcome' : outcome'[n] = "stored" => \E s \in Rows' : inserted'[s].n = n
  <2> SUFFICES ASSUME NEW n \in DOMAIN outcome', outcome'[n] = "stored"
               PROVE  \E s \in Rows' : inserted'[s].n = n
    OBVIOUS
  <2>1. CASE n = call[c].n   BY <1>1, <1>2, <2>1
  <2>2. CASE n # call[c].n
    <3>1. PICK s \in Rows : inserted[s].n = n   BY <1>1, <2>2 DEF Stored
    <3> QED BY <1>1, <3>1
  <2> QED BY <2>1, <2>2
<1>11. \A s \in Rows' : RowWell(s)'   BY <1>1, <1>4, <1>5
<1> QED BY <1>8, <1>9, <1>10, <1>11 DEF Stored

LEMMA StoredStep == IInv /\ [Next]_vars => Stored'
<1> SUFFICES ASSUME IInv, [Next]_vars PROVE Stored'   OBVIOUS
<1> USE DEF IInv
<1>1. ASSUME NEW c \in Callers, AppendRow(c) PROVE Stored'   BY <1>1, StoredAppend
<1>2. ASSUME inserted' = inserted, NEW o \in {"pending", "dropped"}, outcome' = Append(outcome, o)
      PROVE  Stored'
  BY <1>2, OutcomesAre, OutcomeAdded, StoredFrame DEF Outcomes
<1>3. ASSUME NEW c \in Callers, OpeningFails(c) \/ AppendFails(c) PROVE Stored'
  <2>1. /\ inserted' = inserted
        /\ \E o \in {"lost", "unopened"} : outcome' = [outcome EXCEPT ![call[c].n] = o]
        /\ call[c].n \in DOMAIN outcome /\ outcome[call[c].n] = "pending"
    BY <1>3 DEF OpeningFails, AppendFails, Events, Busy
  <2> QED BY <2>1, OutcomeSet, StoredFrame DEF Outcomes
<1>4. CASE Restart   BY <1>4, StoredFrame DEF Restart
<1>5. CASE UNCHANGED <<inserted, outcome>>   BY <1>5, StoredFrame
<1>6. Tick \/ UNCHANGED vars => UNCHANGED <<inserted, outcome>>   BY DEF Tick, vars
<1>7. \A t \in 1..now : DeleteOlderThan(t) => UNCHANGED <<inserted, outcome>>   BY DEF DeleteOlderThan
<1>8. \A c \in Threads : Opened(c) => UNCHANGED <<inserted, outcome>>   BY DEF Opened
<1>9. \A c \in Threads : StartOpening(c) \/ Emit(c) =>
                           inserted' = inserted /\ outcome' = Append(outcome, "pending")
  BY DEF StartOpening, Emit
<1>10. ReadPage \/ ReadFails => inserted' = inserted /\ outcome' = Append(outcome, "pending")
  BY DEF ReadPage, ReadFails, AccessAudited
<1>11. ReadNothing \/ (\E c \in Threads : EmitDropped(c))
         => inserted' = inserted /\ outcome' = Append(outcome, "dropped")
  BY DEF ReadNothing, EmitDropped, Dropped
<1> QED BY <1>1, <1>2, <1>3, <1>4, <1>5, <1>6, <1>7, <1>8, <1>9, <1>10, <1>11 DEF Next, Callers

LEMMA RetainedAppend ==
  ASSUME Kinds, Events, Retained, NEW c \in Callers, AppendRow(c)
  PROVE  Retained'
<1> DEFINE r == Row(call[c])
<1>0. PICK new \in Nat : new = Len(inserted) + 1   BY RowAppended
<1>1. /\ Len(inserted) \in Nat /\ Rows' = Rows \cup {new} /\ new \notin Rows
      /\ \A s \in Rows : inserted'[s] = inserted[s]
      /\ inserted'[new] = r /\ kept' = kept \cup {new} /\ kept \subseteq Rows
      /\ cutoff' = cutoff
  BY <1>0, RowAppended DEF Kinds, AppendRow
<1>2. r.after = IF kept = {} THEN 0 ELSE Max(kept)   BY DEF Row
<1> HIDE DEF r
<1>3. \A u \in kept : u <= r.after   BY <1>2, MaxOfRows
<1>4. \A s \in Rows : s < new /\ s \in Nat   BY <1>0, <1>1 DEF Rows
<1>5. \A s, u \in kept' : u < s => u <= inserted'[s].after
  <2> SUFFICES ASSUME NEW s \in kept', NEW u \in kept', u < s
               PROVE  u <= inserted'[s].after
    OBVIOUS
  <2>1. CASE s = new
    <3>1. u \in kept   BY <1>0, <1>1, <2>1
    <3> QED BY <1>1, <1>3, <2>1, <3>1
  <2>2. CASE s \in kept
    <3>1. s \in Rows /\ u \in Nat   BY <1>0, <1>1, <1>4, <2>2
    <3>2. s < new                   BY <1>4, <3>1
    <3>3. u \in kept                BY <1>0, <1>1, <1>4, <3>1, <3>2
    <3> QED BY <1>1, <2>2, <3>1, <3>3 DEF Retained
  <2> QED BY <1>1, <2>1, <2>2
<1>6. Rows' \ kept' \subseteq Rows \ kept   BY <1>1
<1>7. \A s \in Rows' \ kept' : inserted'[s].time < cutoff'   BY <1>1, <1>6 DEF Retained
<1>8. \A s \in kept', u \in Rows' \ kept' : u > s => inserted'[u].time < inserted'[s].time
  <2> SUFFICES ASSUME NEW s \in kept', NEW u \in Rows' \ kept', u > s
               PROVE  inserted'[u].time < inserted'[s].time
    OBVIOUS
  <2>1. u \in Rows \ kept /\ u < new /\ u \in Nat   BY <1>4, <1>6
  <2>2. s # new                             BY <1>0, <2>1
  <2>3. s \in kept                          BY <1>1, <2>2
  <2> QED BY <1>1, <2>1, <2>3 DEF Retained
<1> QED BY <1>5, <1>7, <1>8 DEF Retained

LEMMA RetainedDelete ==
  ASSUME Kinds, Stored, Retained, NEW t \in 1..now, DeleteOlderThan(t)
  PROVE  Retained'
<1>1. /\ inserted' = inserted /\ kept' = kept \ Expired(t) /\ cutoff' = Max({cutoff, t})
      /\ Rows' = Rows /\ kept \subseteq Rows
  BY DEF DeleteOlderThan, Rows, Kinds
<1>2. t \in Nat /\ cutoff \in Nat   BY DEF Kinds
<1>3. cutoff' \in Nat /\ cutoff' >= cutoff /\ cutoff' >= t   BY <1>1, <1>2, MaxOfTwo
<1>4. \A s \in Rows : inserted[s].time \in Nat   BY DEF Stored, RowWell
<1>5. \A s, u \in kept' : u < s => u <= inserted'[s].after   BY <1>1 DEF Retained
<1>6. \A s \in Rows' \ kept' : inserted'[s].time < cutoff'
  <2> SUFFICES ASSUME NEW s \in Rows, s \notin kept'
               PROVE  inserted[s].time < cutoff'
    BY <1>1
  <2>1. inserted[s].time < t \/ inserted[s].time < cutoff   BY <1>1 DEF Expired, Retained
  <2> QED BY <1>2, <1>3, <1>4, <2>1
<1>7. \A s \in kept', u \in Rows' \ kept' : u > s => inserted'[u].time < inserted'[s].time
  <2> SUFFICES ASSUME NEW s \in kept', NEW u \in Rows, u \notin kept', u > s
               PROVE  inserted[u].time < inserted[s].time
    BY <1>1
  <2>1. s \in kept /\ s \in Rows /\ ~(inserted[s].time < t)   BY <1>1 DEF Expired
  <2>2. CASE u \in kept
    <3>1. inserted[u].time < t   BY <1>1, <2>2 DEF Expired
    <3> QED BY <1>2, <1>4, <2>1, <3>1
  <2>3. CASE u \notin kept   BY <2>1, <2>3 DEF Retained
  <2> QED BY <2>2, <2>3
<1> QED BY <1>5, <1>6, <1>7 DEF Retained

\* What leaves the log and the table alone.
LogVars == <<inserted, kept, cutoff>>
LEMMA LogUntouched ==
  ASSUME [Next]_vars,
         ~ \E c \in Callers : AppendRow(c),
         ~ \E t \in 1..now : DeleteOlderThan(t)
  PROVE  UNCHANGED LogVars
<1>1. UNCHANGED vars \/ Tick \/ Restart => UNCHANGED LogVars   BY DEF vars, Tick, Restart, LogVars
<1>2. \A c \in Callers : StartOpening(c) \/ Opened(c) \/ OpeningFails(c) \/ Emit(c) \/ AppendFails(c)
                         => UNCHANGED LogVars
  BY DEF StartOpening, Opened, OpeningFails, Emit, AppendFails, LogVars
<1>3. ReadPage \/ ReadFails \/ ReadNothing => UNCHANGED LogVars
  BY DEF ReadPage, ReadFails, ReadNothing, AccessAudited, Dropped, LogVars
<1>4. \A c \in Threads : EmitDropped(c) => UNCHANGED LogVars   BY DEF EmitDropped, Dropped, LogVars
<1> QED BY <1>1, <1>2, <1>3, <1>4 DEF Next, Callers

LEMMA RetainedStep == IInv /\ [Next]_vars => Retained'
<1> SUFFICES ASSUME IInv, [Next]_vars PROVE Retained'   OBVIOUS
<1> USE DEF IInv
<1>1. CASE \E c \in Callers : AppendRow(c)   BY <1>1, RetainedAppend
<1>2. CASE \E t \in 1..now : DeleteOlderThan(t)   BY <1>2, RetainedDelete
<1>3. CASE UNCHANGED LogVars   BY <1>3 DEF LogVars, Retained, Rows
<1> QED BY <1>1, <1>2, <1>3, LogUntouched

-----------------------------------------------------------------------------
(***************************************************************************)
(* What is lost, and by what.                                              *)
(***************************************************************************)
Budget == faults + restarts * Cardinality(Callers)

LEMMA GoneFinite ==
  ASSUME Kinds
  PROVE  /\ IsFiniteSet(Gone) /\ Cardinality(Gone) \in Nat
         /\ faults \in Nat /\ restarts \in Nat /\ Budget \in Nat
<1>1. IsFiniteSet(DOMAIN outcome) /\ Gone \subseteq DOMAIN outcome
  BY OutcomesAre, FS_Interval DEF Gone
<1>2. IsFiniteSet(Gone)   BY <1>1, FS_Subset
<1>3. faults \in Nat /\ restarts \in Nat   BY DeploymentsKnown DEF Kinds
<1>4. restarts * Cardinality(Callers) \in Nat   BY <1>3, CallersFinite
<1> QED BY <1>2, <1>3, <1>4, FS_CardinalityType DEF Budget

\* An event more, which nobody has lost.
LEMMA LossesAdded ==
  ASSUME Kinds, Losses, NEW o \in {"pending", "dropped"}, outcome' = Append(outcome, o),
         o = "dropped" => cache = NoStore,
         cache' = cache, restarts' = restarts, faults' \in {faults, faults + 1},
         reader'.failed => reader.failed \/ cache = NoStore \/ faults' = faults + 1
  PROVE  Losses'
<1> DEFINE k == Len(outcome) + 1
<1>1. /\ Len(outcome) \in Nat /\ DOMAIN outcome = 1..Len(outcome)
      /\ DOMAIN outcome' = 1..k
      /\ \A n \in DOMAIN outcome : outcome'[n] = outcome[n]
      /\ outcome'[k] = o
  BY OutcomesAre, OutcomeAdded DEF Outcomes
<1>2. DOMAIN outcome' = DOMAIN outcome \cup {k}   BY <1>1
<1>3. Gone' = Gone   BY <1>1, <1>2 DEF Gone
<1>4. Cardinality(Gone') <= Budget'
  <2>1. Cardinality(Gone) <= Budget   BY DEF Losses, Budget
  <2>2. Budget' \in {Budget, Budget + 1}
    <3>1. restarts * Cardinality(Callers) \in Nat /\ faults \in Nat
      BY GoneFinite, CallersFinite
    <3>2. Budget' = faults' + restarts * Cardinality(Callers)   BY DEF Budget
    <3> HIDE DEF Budget
    <3>3. Budget = faults + restarts * Cardinality(Callers)     BY DEF Budget
    <3> QED BY <3>1, <3>2, <3>3
  <2> QED BY <1>3, <2>1, <2>2, GoneFinite
<1>5. \A n \in DOMAIN outcome' :
        outcome'[n] = "dropped" => \E m \in 1..(n - 1) : outcome'[m] = "unopened"
  <2> SUFFICES ASSUME NEW n \in DOMAIN outcome', outcome'[n] = "dropped"
               PROVE  \E m \in 1..(n - 1) : outcome'[m] = "unopened"
    OBVIOUS
  <2>1. CASE n = k
    <3>1. PICK m \in DOMAIN outcome : outcome[m] = "unopened"   BY <1>1, <2>1 DEF Losses
    <3> QED BY <1>1, <2>1, <3>1
  <2>2. CASE n \in DOMAIN outcome
    <3>1. PICK m \in 1..(n - 1) : outcome[m] = "unopened"   BY <1>1, <2>2 DEF Losses
    <3>2. m \in DOMAIN outcome   BY <1>1, <2>2, <3>1
    <3> QED BY <1>1, <3>1, <3>2
  <2> QED BY <1>2, <2>1, <2>2
<1>6. cache' = NoStore => faults' > 0 /\ \E m \in DOMAIN outcome' : outcome'[m] = "unopened"
  <2>1. cache = NoStore => faults > 0 /\ \E m \in DOMAIN outcome : outcome[m] = "unopened"
    BY DEF Losses
  <2> QED BY <1>1, <1>2, <2>1, GoneFinite
<1>7. reader'.failed => faults' > 0   BY GoneFinite DEF Losses
<1> QED BY <1>4, <1>5, <1>6, <1>7 DEF Losses, Budget

\* A failure of the database, and the one event it takes.
LEMMA LossesByFault ==
  ASSUME Kinds, Losses, NEW n \in DOMAIN outcome, outcome[n] = "pending",
         NEW o \in {"lost", "unopened"}, outcome' = [outcome EXCEPT ![n] = o],
         faults' = faults + 1, restarts' = restarts, reader' = reader,
         cache' = NoStore => cache = NoStore \/ o = "unopened"
  PROVE  Losses'
<1>1. /\ DOMAIN outcome = 1..Len(outcome) /\ Len(outcome) \in Nat
      /\ DOMAIN outcome' = DOMAIN outcome
      /\ \A m \in DOMAIN outcome : outcome'[m] = IF m = n THEN o ELSE outcome[m]
  BY OutcomesAre, OutcomeSet DEF Outcomes
<1>2. Gone' = Gone \cup {n}   BY <1>1 DEF Gone
<1>3. Cardinality(Gone') <= Cardinality(Gone) + 1   BY <1>2, GoneFinite, FS_AddElement
<1>4. Cardinality(Gone') \in Nat   BY <1>2, GoneFinite, FS_AddElement, FS_CardinalityType
<1>5. Budget' = Budget + 1
  <2>1. restarts * Cardinality(Callers) \in Nat /\ faults \in Nat   BY GoneFinite, CallersFinite
  <2>2. Budget' = faults + 1 + restarts * Cardinality(Callers)   BY DEF Budget
  <2>3. Budget = faults + restarts * Cardinality(Callers)        BY DEF Budget
  <2> QED BY <2>1, <2>2, <2>3
<1>6. Cardinality(Gone') <= Budget'
  <2>1. Cardinality(Gone) <= Budget   BY DEF Losses, Budget
  <2> QED BY <1>3, <1>4, <1>5, <2>1, GoneFinite
<1>7. \A m \in DOMAIN outcome' :
        outcome'[m] = "dropped" => \E u \in 1..(m - 1) : outcome'[u] = "unopened"
  <2> SUFFICES ASSUME NEW m \in DOMAIN outcome', outcome'[m] = "dropped"
               PROVE  \E u \in 1..(m - 1) : outcome'[u] = "unopened"
    OBVIOUS
  <2>1. outcome[m] = "dropped"   BY <1>1
  <2>2. PICK u \in 1..(m - 1) : outcome[u] = "unopened"   BY <1>1, <2>1 DEF Losses
  <2>3. u \in DOMAIN outcome /\ u # n   BY <1>1, <2>2
  <2> QED BY <1>1, <2>2, <2>3
<1>8. cache' = NoStore => \E m \in DOMAIN outcome' : outcome'[m] = "unopened"
  <2>1. CASE o = "unopened"   BY <1>1, <2>1
  <2>2. CASE o # "unopened"   BY <1>1, <2>2 DEF Losses
  <2> QED BY <2>1, <2>2
<1>9. faults' > 0   BY GoneFinite
<1> QED BY <1>6, <1>7, <1>8, <1>9 DEF Losses, Budget

\* A restart cuts off no more calls than there are callers.
LEMMA LossesByRestart ==
  ASSUME Kinds, Events, Losses, Restart
  PROVE  Losses'
<1> DEFINE cut == {n \in DOMAIN outcome : outcome[n] = "pending"}
           begun == {call[c].n : c \in Callers}
           f == [c \in Callers |-> call[c].n]
<1>1. /\ DOMAIN outcome = 1..Len(outcome) /\ DOMAIN outcome' = DOMAIN outcome
      /\ \A n \in DOMAIN outcome :
            outcome'[n] = IF outcome[n] = "pending" THEN "lost" ELSE outcome[n]
      /\ cache' = Uncached /\ reader' = NotReading /\ restarts' = restarts + 1 /\ faults' = faults
  BY OutcomesAre DEF Restart
<1>2. Gone' = Gone \cup cut   BY <1>1 DEF Gone
<1>3. cut \subseteq begun     BY DEF Events
<1>4. IsFiniteSet(begun) /\ Cardinality(begun) <= Cardinality(Callers)
  <2>1. f \in Surjection(Callers, begun)   BY DEF Surjection
  <2> HIDE DEF f, begun
  <2> QED BY <2>1, CallersFinite, FS_Surjection
<1>5. IsFiniteSet(cut) /\ Cardinality(cut) <= Cardinality(begun)   BY <1>3, <1>4, FS_Subset
<1> HIDE DEF cut, begun
<1>6. /\ Cardinality(Gone') <= Cardinality(Gone) + Cardinality(Callers)
      /\ Cardinality(Gone') \in Nat
  <2>1. /\ IsFiniteSet(Gone')
        /\ Cardinality(Gone') = Cardinality(Gone) + Cardinality(cut) - Cardinality(Gone \cap cut)
    BY <1>2, <1>5, GoneFinite, FS_Union
  <2>2. IsFiniteSet(Gone \cap cut)   BY GoneFinite, FS_Intersection
  <2>3. /\ Cardinality(cut) \in Nat /\ Cardinality(begun) \in Nat
        /\ Cardinality(Gone \cap cut) \in Nat
    BY <1>4, <1>5, <2>2, FS_CardinalityType
  <2>4. Cardinality(Gone') \in Nat   BY <2>1, FS_CardinalityType
  <2> QED BY <1>4, <1>5, <2>1, <2>3, <2>4, GoneFinite, CallersFinite
<1>7. Budget' = Budget + Cardinality(Callers)
  <2>1. faults \in Nat /\ restarts \in Nat /\ Cardinality(Callers) \in Nat
    BY GoneFinite, CallersFinite
  <2>2. \A a, b, k \in Nat : a + (b + 1) * k = a + b * k + k   OBVIOUS
  <2>3. Budget' = faults + (restarts + 1) * Cardinality(Callers)   BY <1>1 DEF Budget
  <2> QED BY <2>1, <2>2, <2>3 DEF Budget
<1>8. Cardinality(Gone') <= Budget'
  <2>1. Cardinality(Gone) <= Budget   BY DEF Losses, Budget
  <2> QED BY <1>6, <1>7, <2>1, GoneFinite, CallersFinite
<1>9. \A n \in DOMAIN outcome' :
        outcome'[n] = "dropped" => \E m \in 1..(n - 1) : outcome'[m] = "unopened"
  <2> SUFFICES ASSUME NEW n \in DOMAIN outcome', outcome'[n] = "dropped"
               PROVE  \E m \in 1..(n - 1) : outcome'[m] = "unopened"
    OBVIOUS
  <2>1. outcome[n] = "dropped"   BY <1>1
  <2>2. PICK m \in 1..(n - 1) : outcome[m] = "unopened"   BY <1>1, <2>1 DEF Losses
  <2>3. Len(outcome) \in Nat     BY OutcomesAre
  <2>4. m \in DOMAIN outcome     BY <1>1, <2>2, <2>3
  <2> QED BY <1>1, <2>2, <2>4
<1>10. cache' # NoStore /\ ~reader'.failed   BY <1>1 DEF Uncached, NoStore, NotReading
<1> QED BY <1>8, <1>9, <1>10 DEF Losses, Budget

\* A row is stored, or nothing happens to an event at all.
LEMMA LossesFrame ==
  ASSUME Losses, UNCHANGED <<faults, restarts, reader>>, DOMAIN outcome' = DOMAIN outcome,
         DOMAIN outcome = 1..Len(outcome), Len(outcome) \in Nat,
         cache' = NoStore => cache = NoStore,
         \A n \in DOMAIN outcome : \/ outcome'[n] = outcome[n]
                                   \/ outcome[n] = "pending" /\ outcome'[n] = "stored"
  PROVE  Losses'
<1>1. Gone' = Gone   BY DEF Gone
<1>2. \A n \in DOMAIN outcome : /\ outcome'[n] = "dropped" <=> outcome[n] = "dropped"
                                /\ outcome'[n] = "unopened" <=> outcome[n] = "unopened"
  OBVIOUS
<1>3. \A n \in DOMAIN outcome : 1..(n - 1) \subseteq DOMAIN outcome   OBVIOUS
<1> QED BY <1>1, <1>2, <1>3 DEF Losses

LEMMA LossesStep == IInv /\ [Next]_vars => Losses'
<1> SUFFICES ASSUME IInv, [Next]_vars PROVE Losses'   OBVIOUS
<1> USE DEF IInv
<1>0. DOMAIN outcome = 1..Len(outcome) /\ Len(outcome) \in Nat   BY OutcomesAre
<1>1. ASSUME NEW c \in Threads, StartOpening(c) \/ Emit(c) PROVE Losses'
  <2>1. /\ outcome' = Append(outcome, "pending")
        /\ UNCHANGED <<cache, faults, restarts, reader>>
    BY <1>1 DEF StartOpening, Emit
  <2> QED BY <2>1, LossesAdded
<1>2. ASSUME NEW c, EmitDropped(c) PROVE Losses'
  <2>1. /\ outcome' = Append(outcome, "dropped") /\ cache = NoStore
        /\ UNCHANGED <<cache, faults, restarts, reader>>
    BY <1>2 DEF EmitDropped, Dropped
  <2> QED BY <2>1, LossesAdded
<1>3. CASE ReadPage
  <2>1. /\ outcome' = Append(outcome, "pending") /\ ~reader'.failed
        /\ UNCHANGED <<cache, faults, restarts>>
    BY <1>3 DEF ReadPage, Paged, AccessAudited
  <2> QED BY <2>1, LossesAdded
<1>4. CASE ReadFails
  <2>1. /\ outcome' = Append(outcome, "pending") /\ faults' = faults + 1
        /\ UNCHANGED <<cache, restarts>>
    BY <1>4 DEF ReadFails, AccessAudited
  <2> QED BY <2>1, LossesAdded
<1>5. CASE ReadNothing
  <2>1. /\ outcome' = Append(outcome, "dropped") /\ cache = NoStore
        /\ UNCHANGED <<cache, faults, restarts>>
    BY <1>5 DEF ReadNothing, Dropped
  <2> QED BY <2>1, LossesAdded
<1>6. ASSUME NEW c \in Callers, OpeningFails(c) \/ AppendFails(c) PROVE Losses'
  <2>1. call[c].n \in DOMAIN outcome /\ outcome[call[c].n] = "pending"
    BY <1>6 DEF OpeningFails, AppendFails, Events, Busy
  <2>2. CASE OpeningFails(c)
    <3>1. /\ outcome' = [outcome EXCEPT ![call[c].n] = "unopened"]
          /\ faults' = faults + 1 /\ restarts' = restarts /\ reader' = reader
      BY <2>2 DEF OpeningFails
    <3> QED BY <2>1, <3>1, LossesByFault
  <2>3. CASE AppendFails(c) /\ ~Taken(call[c])
    <3>1. /\ outcome' = [outcome EXCEPT ![call[c].n] = "lost"]
          /\ faults' = faults + 1 /\ UNCHANGED <<cache, restarts, reader>>
      BY <2>3 DEF AppendFails
    <3> QED BY <2>1, <3>1, LossesByFault
  <2>4. CASE AppendFails(c) /\ Taken(call[c])
    <3>1. PICK s \in kept : inserted[s].id = call[c].n   BY <2>4 DEF Taken, EventId
    <3>2. s \in Rows                                    BY DEF Kinds
    <3>3. inserted[s].id = inserted[s].n /\ outcome[inserted[s].n] = "stored"
      BY <3>2 DEF Stored, RowWell
    <3> QED BY <2>1, <3>1, <3>3
  <2> QED BY <1>6, <2>2, <2>3, <2>4
<1>7. ASSUME NEW c \in Callers, AppendRow(c) PROVE Losses'
  <2>1. UNCHANGED <<cache, faults, restarts, reader>>   BY <1>7 DEF AppendRow
  <2>2. /\ DOMAIN outcome' = DOMAIN outcome
        /\ \A n \in DOMAIN outcome : \/ outcome'[n] = outcome[n]
                                     \/ outcome[n] = "pending" /\ outcome'[n] = "stored"
    BY <1>7, RowAppended
  <2> QED BY <1>0, <2>1, <2>2, LossesFrame
<1>8. CASE Restart   BY <1>8, LossesByRestart
<1>9. CASE UNCHANGED <<outcome, faults, restarts, reader>> /\ (cache' = NoStore => cache = NoStore)
  BY <1>0, <1>9, LossesFrame
<1>10. Tick \/ UNCHANGED vars => UNCHANGED <<outcome, faults, restarts, reader, cache>>
  BY DEF Tick, vars
<1>11. \A t \in 1..now : DeleteOlderThan(t) => UNCHANGED <<outcome, faults, restarts, reader, cache>>
  BY DEF DeleteOlderThan
<1>12. ASSUME NEW c \in Threads, Opened(c)
       PROVE  UNCHANGED <<outcome, faults, restarts, reader>> /\ (cache' = NoStore => cache = NoStore)
  <2>1. call[c].key \in 0..drawn /\ drawn \in Nat   BY <1>12 DEF Opened, Kinds, Callers
  <2> QED BY <1>12, <2>1 DEF Opened, Cached, NoStore
<1> QED BY <1>1, <1>2, <1>3, <1>4, <1>5, <1>6, <1>7, <1>8, <1>9, <1>10, <1>11, <1>12 DEF Next, Callers

-----------------------------------------------------------------------------
(***************************************************************************)
(* Paging.  If no later row than s has an earlier time, all the rows above *)
(* s are kept and in range when s is, so a page's offset counts exactly    *)
(* those rows, whatever was appended or deleted since the last page.       *)
(***************************************************************************)
LEMMA PagingFrame ==
  ASSUME Kinds, Stored, Paging, reader' = reader,
         now' \in Nat, now' >= now, Len(inserted') \in Nat, Len(inserted') >= Len(inserted),
         \A s \in Rows : inserted'[s] = inserted[s],
         \A s \in Rows : s \in kept' => s \in kept
  PROVE  Paging'
<1>1. now \in Nat /\ RangeTicks \in Nat /\ Len(inserted) \in Nat
  BY PagesNotEmpty, ClockStarts, OutcomesAre DEF Kinds
<1>2. Rows \subseteq Rows' /\ Rows \subseteq Nat   BY <1>1 DEF Rows
<1>3. \A s \in Rows : inserted[s].time \in Nat   BY DEF Stored, RowWell
<1>4. \A s \in Rows : InOrder(s)' => InOrder(s)   BY <1>2 DEF InOrder
<1>5. \A s \in Rows : InRange(s)' => InRange(s)   BY <1>1, <1>3 DEF InRange
<1>6. reader.want \subseteq Rows                  BY DEF Paging
<1>7. ASSUME reader.pc = "reading", NEW s \in reader.want \ reader.seen,
             s \in kept', InRange(s)', InOrder(s)'
      PROVE  Len(inserted') - s >= reader.offset
  <2>1. s \in Rows /\ s \in kept /\ InRange(s) /\ InOrder(s)   BY <1>4, <1>5, <1>6, <1>7
  <2>2. Len(inserted) - s >= reader.offset   BY <1>7, <2>1 DEF Paging
  <2>3. reader.offset \in Nat /\ s \in Nat    BY <1>2, <2>1 DEF Kinds, ReaderType
  <2> QED BY <1>1, <2>2, <2>3
<1>8. reader.pc = "done" /\ ~reader.failed => \A s \in reader.want \ reader.seen : ~InOrder(s)'
  BY <1>4, <1>6 DEF Paging
<1> QED BY <1>2, <1>6, <1>7, <1>8 DEF Paging

\* The rows above one that nothing overtook.
LEMMA NothingGoneAbove ==
  ASSUME Kinds, Stored, Retained, NEW s \in kept, InRange(s), InOrder(s)
  PROVE  \A u \in Rows : u > s => u \in kept /\ InRange(u)
<1>1. now \in Nat /\ RangeTicks \in Nat /\ s \in Rows
  BY PagesNotEmpty, ClockStarts DEF Kinds
<1>2. \A u \in Rows : inserted[u].time \in Nat   BY DEF Stored, RowWell
<1> SUFFICES ASSUME NEW u \in Rows, u > s PROVE u \in kept /\ InRange(u)   OBVIOUS
<1>3. inserted[u].time >= inserted[s].time       BY DEF InOrder
<1>4. InRange(u)                                 BY <1>1, <1>2, <1>3 DEF InRange
<1>5. u \in kept                                 BY <1>1, <1>2, <1>3 DEF Retained
<1> QED BY <1>4, <1>5

LEMMA RankAbove ==
  ASSUME Kinds, Stored, Retained, NEW s \in kept, InRange(s), InOrder(s),
         NEW u \in Rows, u >= s
  PROVE  Cardinality({v \in {w \in kept : InRange(w)} : v > u}) = Len(inserted) - u
<1>1. Len(inserted) \in Nat /\ u \in Nat /\ s \in Nat /\ u <= Len(inserted) /\ kept \subseteq Rows
  BY OutcomesAre DEF Rows, Kinds
<1>2. {v \in {w \in kept : InRange(w)} : v > u} = (u + 1)..Len(inserted)
  <2>1. ASSUME NEW v \in (u + 1)..Len(inserted) PROVE v \in kept /\ InRange(v) /\ v > u
    <3>1. v \in Rows /\ v > u /\ v > s   BY <1>1, <2>1 DEF Rows
    <3> QED BY <3>1, NothingGoneAbove
  <2>2. ASSUME NEW v \in kept, v > u PROVE v \in (u + 1)..Len(inserted)
    <3>1. v \in Rows   BY <1>1
    <3> QED BY <1>1, <2>2, <3>1 DEF Rows
  <2> QED BY <2>1, <2>2
<1>3. Cardinality((u + 1)..Len(inserted)) = Len(inserted) - u
  <2> DEFINE a == u + 1
             b == Len(inserted)
  <2>1. a \in Int /\ b \in Int /\ (IF a > b THEN 0 ELSE b - a + 1) = b - u   BY <1>1
  <2> HIDE DEF a, b
  <2>2. Cardinality(a..b) = b - u   BY <2>1, FS_Interval
  <2> QED BY <2>2 DEF a, b
<1> QED BY <1>2, <1>3

LEMMA PagingRead ==
  ASSUME Kinds, Stored, Retained, Paging, ReadPage
  PROVE  Paging'
<1> DEFINE here == {s \in kept : InRange(s)}
           rank(s) == Cardinality({u \in here : u > s})
           page == Query(PageSize, reader.offset)
           first == reader.pc # "reading"
           seen == IF first THEN {} ELSE reader.seen
           want == IF first THEN here ELSE {s \in reader.want \cap kept : InRange(s)}
           short == Cardinality(page) < PageSize
<1>1. /\ reader'.pc = IF short THEN "done" ELSE "reading"
      /\ reader'.offset = IF short THEN 0 ELSE reader.offset + Cardinality(page)
      /\ reader'.seen = page \cup seen
      /\ reader'.want = want
      /\ inserted' = inserted /\ kept' = kept /\ now' = now
  BY DEF ReadPage, Paged, AccessAudited
<1>2. /\ Len(inserted) \in Nat /\ PageSize \in Nat \ {0} /\ reader.offset \in Nat
      /\ kept \subseteq Rows /\ Rows \subseteq Nat
  BY OutcomesAre, PagesNotEmpty DEF Kinds, Rows, ReaderType
<1>3. page = {s \in here : rank(s) \in reader.offset..(reader.offset + PageSize - 1)}
  BY DEF Query
<1>4. here \subseteq Rows /\ want \subseteq here /\ page \subseteq here
  BY <1>2, <1>3
<1>5. first => reader.offset = 0   BY DEF Paging
<1>6. \A s \in want \ (page \cup seen) : s \in kept /\ InRange(s) /\ (~first => s \in reader.want \ reader.seen)
  BY <1>4
<1> HIDE DEF page
\* A page that leaves s out, although nothing overtook it, is full and above it.
<1>7. ASSUME NEW s \in want \ (page \cup seen), InOrder(s)
      PROVE  Cardinality(page) = PageSize /\ Len(inserted) - s >= reader.offset + PageSize
  <2> DEFINE a == Len(inserted) - reader.offset - PageSize + 1
             b == Len(inserted) - reader.offset
  <2>1. s \in here /\ s \in kept /\ InRange(s) /\ s \in Rows /\ s \in Nat   BY <1>2, <1>4, <1>6
  <2>2. \A u \in Rows : u >= s => rank(u) = Len(inserted) - u
    BY <1>7, <2>1, RankAbove
  <2>3. Len(inserted) - s >= reader.offset
    <3>1. CASE first
      BY <1>2, <1>5, <2>1, <3>1 DEF Rows
    <3>2. CASE ~first   BY <1>6, <1>7, <2>1, <3>2 DEF Paging
    <3> QED BY <3>1, <3>2
  <2>4. rank(s) = Len(inserted) - s   BY <2>1, <2>2
  <2>5. Len(inserted) - s >= reader.offset + PageSize
    <3>1. ~(rank(s) \in reader.offset..(reader.offset + PageSize - 1))   BY <1>3, <1>7, <2>1
    <3> HIDE DEF rank
    <3> QED BY <1>2, <2>1, <2>3, <2>4, <3>1
  <2>6. page = a..b
    <3>1. ASSUME NEW u \in page PROVE u \in a..b
      <4>1. u \in here /\ u \in Rows /\ u \in Nat /\ rank(u) \in reader.offset..(reader.offset + PageSize - 1)
        BY <1>2, <1>3, <1>4, <3>1
      <4>2. CASE u >= s
        <5>1. rank(u) = Len(inserted) - u   BY <2>2, <4>1, <4>2
        <5> HIDE DEF rank
        <5> QED BY <1>2, <4>1, <5>1
      <4>3. CASE u < s
        <5>1. {v \in here : v > s} \subseteq {v \in here : v > u}
          <6> SUFFICES ASSUME NEW v \in here, v > s PROVE v > u   OBVIOUS
          <6>1. v \in Nat   BY <1>2, <1>4
          <6> QED BY <2>1, <4>1, <4>3, <6>1
        <5>2. IsFiniteSet(Rows)                            BY <1>2, FS_Interval DEF Rows
        <5>3. IsFiniteSet({v \in here : v > u})             BY <1>4, <5>2, FS_Subset
        <5>4. rank(s) <= rank(u)                           BY <5>1, <5>3, FS_Subset
        <5> HIDE DEF rank
        <5> QED BY <1>2, <2>1, <2>4, <2>5, <4>1, <5>4
      <4> QED BY <2>1, <4>1, <4>2, <4>3
    <3>2. ASSUME NEW u \in a..b PROVE u \in page
      <4>1. u \in Rows /\ u >= s /\ u > s
        BY <1>2, <2>1, <2>5, <3>2 DEF Rows
      <4>2. u \in kept /\ InRange(u)   BY <1>7, <2>1, <4>1, NothingGoneAbove
      <4>3. rank(u) = Len(inserted) - u   BY <2>2, <4>1
      <4>4. Len(inserted) - u \in reader.offset..(reader.offset + PageSize - 1)   BY <1>2, <3>2
      <4> QED BY <1>3, <4>2, <4>3, <4>4
    <3> QED BY <3>1, <3>2
  <2>7. Cardinality(a..b) = PageSize
    <3>1. a \in Int /\ b \in Int /\ (IF a > b THEN 0 ELSE b - a + 1) = PageSize   BY <1>2
    <3> HIDE DEF a, b
    <3> QED BY <3>1, FS_Interval
  <2> QED BY <2>5, <2>6, <2>7
<1>8. CASE short
  <2>1. ASSUME NEW s \in want \ (page \cup seen), InOrder(s) PROVE FALSE
    <3>1. Cardinality(page) = PageSize   BY <1>7, <2>1
    <3> QED BY <1>2, <1>8, <3>1
  <2>2. reader'.want \subseteq Rows' /\ \A s : InOrder(s)' <=> InOrder(s)
    BY <1>1, <1>4 DEF Rows, InOrder
  <2> HIDE DEF want, seen
  <2> QED BY <1>1, <1>8, <2>1, <2>2 DEF Paging
<1>9. CASE ~short
  <2>1. \A s \in want \ (page \cup seen) :
          InOrder(s) => Len(inserted) - s >= reader.offset + Cardinality(page)
    BY <1>7
  <2>2. reader'.want \subseteq Rows' /\ \A s : InOrder(s)' <=> InOrder(s)
    BY <1>1, <1>4 DEF Rows, InOrder
  <2> HIDE DEF want, seen
  <2> QED BY <1>1, <1>9, <2>1, <2>2 DEF Paging
<1> QED BY <1>8, <1>9

\* An answer without a row ends the paging, and says nothing about the rows unseen.
LEMMA PagingFailed ==
  ASSUME Kinds, Paged({}, TRUE), inserted' = inserted
  PROVE  Paging'
<1>1. Cardinality({}) < PageSize   BY FS_EmptySet, PagesNotEmpty
<1>2. reader'.pc = "done" /\ reader'.offset = 0 /\ reader'.failed   BY <1>1 DEF Paged
<1>3. reader'.want \subseteq kept   BY DEF Paged
<1>4. reader'.want \subseteq Rows'  BY <1>3 DEF Kinds, Rows
<1> QED BY <1>2, <1>4 DEF Paging

LEMMA PagingStep == IInv /\ [Next]_vars => Paging'
<1> SUFFICES ASSUME IInv, [Next]_vars PROVE Paging'   OBVIOUS
<1> USE DEF IInv
<1>0. /\ now \in Nat /\ now' \in Nat /\ Len(inserted) \in Nat
      /\ Rows \subseteq Nat /\ kept \subseteq Rows
  <2>1. now' \in 1..MaxTime   BY KindsStep DEF Kinds
  <2>2. now \in 1..MaxTime /\ kept \subseteq Rows   BY DEF Kinds
  <2>3. Len(inserted) \in Nat   BY OutcomesAre
  <2> QED BY <2>1, <2>2, <2>3, ClockStarts DEF Rows
<1>1. CASE ReadPage   BY <1>1, PagingRead
<1>2. CASE Restart    BY <1>2 DEF Restart, Paging, NotReading
<1>3. CASE \E c \in Callers : AppendRow(c)
  <2>1. PICK c \in Callers : AppendRow(c)   BY <1>3
  <2>2. reader' = reader /\ now' = now      BY <2>1 DEF AppendRow
  <2>3. /\ Len(inserted') \in Nat /\ Len(inserted') >= Len(inserted)
        /\ \A s \in Rows : inserted'[s] = inserted[s]
        /\ \A s \in Rows : s \in kept' => s \in kept
    BY <1>0, <2>1, RowAppended
  <2>4. now' >= now   BY <1>0, <2>2
  <2> QED BY <1>0, <2>2, <2>3, <2>4, PagingFrame
<1>4. CASE UNCHANGED <<inserted, reader>> /\ kept' \subseteq kept /\ now' >= now
  BY <1>0, <1>4, PagingFrame
<1>5. Tick => UNCHANGED <<inserted, reader>> /\ kept' \subseteq kept /\ now' >= now
  BY <1>0 DEF Tick
<1>6. UNCHANGED vars => UNCHANGED <<inserted, reader, kept, now>>   BY DEF vars
<1>7. \A t \in 1..now : DeleteOlderThan(t) => UNCHANGED <<inserted, reader, now>> /\ kept' \subseteq kept
  BY DEF DeleteOlderThan
<1>8. \A c \in Callers : StartOpening(c) \/ Opened(c) \/ OpeningFails(c) \/ Emit(c) \/ AppendFails(c)
                         => UNCHANGED <<inserted, reader, kept, now>>
  BY DEF StartOpening, Opened, OpeningFails, Emit, AppendFails
<1>9. now >= now   BY <1>0
<1>10. ReadFails \/ ReadNothing => Paged({}, TRUE) /\ inserted' = inserted
  BY DEF ReadFails, ReadNothing, AccessAudited, Dropped
<1>11. \A c \in Threads : EmitDropped(c) => UNCHANGED <<inserted, reader, kept, now>>
  BY DEF EmitDropped, Dropped
<1>12. ReadFails \/ ReadNothing => Paging'   BY <1>10, PagingFailed
<1> QED BY <1>1, <1>2, <1>3, <1>4, <1>5, <1>6, <1>7, <1>8, <1>9, <1>11, <1>12 DEF Next, Callers

-----------------------------------------------------------------------------
LEMMA Inductive == IInv /\ [Next]_vars => IInv'
BY KindsStep, EventsStep, StoredStep, RetainedStep, LossesStep, PagingStep DEF IInv

LEMMA InvariantHolds == Spec => []IInv
BY InitHolds, Inductive, PTL DEF Spec

\* Every variable keeps its type, and the undecided events are exactly those of
\* the calls under way, whatever threads, failures and restarts interleave.
THEOREM LogWellTyped == Spec => []TypeOK
<1>1. IInv => TypeOK
  <2> SUFFICES ASSUME IInv PROVE TypeOK   OBVIOUS
  <2> USE DEF IInv
  <2>1. /\ DOMAIN outcome = 1..Len(outcome) /\ Len(outcome) \in Nat /\ DOMAIN inserted = Rows
    BY OutcomesAre
  <2>2. \A c \in Callers : /\ call[c].pc \in {"idle", "opening", "stamped"}
                          /\ call[c].n \in 0..Len(outcome)
                          /\ call[c].time \in 0..now
    BY <2>1, ClockStarts DEF Kinds, Events, Busy
  <2>3. {n \in DOMAIN outcome : outcome[n] = "pending"} = {call[c].n : c \in Callers} \ {0}
    BY <2>1 DEF Events, Busy
  <2>4. \A s \in DOMAIN inserted : inserted[s].after \in 0..(s - 1)   BY <2>1 DEF Stored, RowWell
  <2>5. reader.pc \in {"idle", "reading", "done"} /\ reader.offset \in Nat
    BY DEF Kinds, ReaderType
  <2> QED BY <2>1, <2>2, <2>3, <2>4, <2>5 DEF Kinds, TypeOK, Outcomes
<1> QED BY <1>1, InvariantHolds, PTL

\* The row before s is one of the table, and really before it.
LEMMA BeforeIsKept ==
  ASSUME Kinds, NEW s \in kept, Before(s) # 0
  PROVE  Before(s) \in kept /\ Before(s) < s
<1> DEFINE below == {u \in kept : u < s}
<1>1. below # {} /\ Before(s) = Max(below)   BY DEF Before
<1>2. Max(below) \in below                  BY <1>1, MaxOfRows
<1> QED BY <1>1, <1>2

\* verify_integrity raises a false alarm only at a row of another key or behind a
\* hole: racing appends and retention of the oldest rows never cause one.
THEOREM AlarmsExplained == Spec => []AlarmMeansHoleOrKeyChange
<1>1. IInv => AlarmMeansHoleOrKeyChange
  <2> SUFFICES ASSUME IInv, NEW s \in BadRows(cache)
               PROVE  inserted[s].key # cache \/ Before(s) \notin {0, s - 1}
    BY DEF AlarmMeansHoleOrKeyChange
  <2> USE DEF IInv
  <2>1. CASE inserted[s].key # cache   BY <2>1
  <2>2. CASE inserted[s].key = cache /\ Before(s) = 0
    <3>1. s \in Rows   BY DEF BadRows, Kinds
    <3> QED BY <2>2, <3>1 DEF BadRows, Bad, Stored, RowWell
  <2> SUFFICES ASSUME inserted[s].key = cache, Before(s) # 0, Before(s) = s - 1 PROVE FALSE
    BY <2>1, <2>2
  <2>3. s \in kept /\ Bad(cache, s)                 BY DEF BadRows
  <2>4. s \in Rows /\ RowWell(s) /\ s \in Nat        BY <2>3, OutcomesAre DEF Kinds, Rows, Stored
  <2>5. s - 1 \in kept                              BY <2>3, BeforeIsKept
  <2>6. inserted[s].after = s - 1                   BY <2>3, <2>4, <2>5 DEF Retained, RowWell
  <2>7. inserted[s].prev = inserted[s - 1].hash     BY <2>4, <2>6 DEF RowWell
  <2> QED BY <2>3, <2>4, <2>7 DEF Bad, RowWell
<1> QED BY <1>1, InvariantHolds, PTL

\* A passed check means that no row was cut out of the middle of the chain and that
\* every row is of the checking key.
THEOREM PassedLogIsUncut == Spec => []PassMeansUncut
<1>1. IInv => PassMeansUncut
  <2> SUFFICES ASSUME IInv, Passes, NEW s \in kept
               PROVE  /\ inserted[s].key = cache
                      /\ Before(s) # 0 => inserted[s].after = Before(s)
    BY DEF PassMeansUncut
  <2> USE DEF IInv
  <2>1. s \in Rows /\ RowWell(s) /\ ~Bad(cache, s)
    BY DEF Kinds, Stored, Passes, BadRows
  <2>2. inserted[s].key = cache   BY <2>1 DEF Bad, RowWell, Hash
  <2>3. ASSUME Before(s) # 0 PROVE inserted[s].after = Before(s)
    <3>1. inserted[s].prev = inserted[Before(s)].hash   BY <2>1, <2>3 DEF Bad
    <3>2. Before(s) \in Rows /\ RowWell(Before(s))      BY <2>3, BeforeIsKept DEF Kinds, Stored
    <3> DEFINE p == inserted[Before(s)]
               q == inserted[inserted[s].after]
    <3>3. p.hash = <<p.key, p.prev, p.id, p.time>>   BY <3>2 DEF RowWell, Hash
    <3>4. inserted[s].after # 0
      <4> SUFFICES ASSUME inserted[s].after = 0 PROVE FALSE   OBVIOUS
      <4>1. inserted[s].prev = <<inserted[s].key>>   BY <2>1 DEF RowWell, Genesis
      <4>2. Len(p.hash) = 4 /\ Len(inserted[s].prev) = 1   BY <3>3, <4>1
      <4> QED BY <3>1, <4>2
    <3>5. inserted[s].after \in Rows /\ RowWell(inserted[s].after)
      <4>1. inserted[s].after \in 0..(s - 1) /\ Len(inserted) \in Nat   BY <2>1, OutcomesAre DEF RowWell
      <4>2. inserted[s].after \in Rows   BY <2>1, <3>4, <4>1 DEF Rows
      <4> QED BY <4>2 DEF Stored
    <3>6. inserted[s].prev = q.hash   BY <2>1, <3>4 DEF RowWell
    <3>7. q.hash = <<q.key, q.prev, q.id, q.time>>   BY <3>5 DEF RowWell, Hash
    <3>8. p.id = q.id                BY <3>1, <3>3, <3>6, <3>7
    <3>9. p.n = q.n                  BY <3>2, <3>5, <3>8 DEF RowWell
    <3> QED BY <3>2, <3>5, <3>9 DEF Stored
  <2> QED BY <2>2, <2>3
<1> QED BY <1>1, InvariantHolds, PTL

\* Of the events that never reach the table no more are missing than the database's
\* failures and the calls cut off by restarts explain, none is dropped before a store
\* could not be opened, and what was stored leaves only by retention.
THEOREM LossesExplained == Spec => []LossesHaveACause
<1>1. IInv => LossesHaveACause
  <2> SUFFICES ASSUME IInv, NEW n \in DOMAIN outcome, outcome[n] = "stored"
               PROVE  \E s \in DOMAIN inserted : /\ inserted[s].n = n
                                                 /\ s \in kept \/ inserted[s].time < cutoff
    BY DEF LossesHaveACause, IInv, Losses, Gone
  <2>1. DOMAIN inserted = Rows   BY OutcomesAre DEF IInv
  <2> QED BY <2>1 DEF IInv, Stored, Retained
<1> QED BY <1>1, InvariantHolds, PTL

\* An auditor who paged to the end missed only what a later row of an earlier time had
\* overtaken, whatever was appended and deleted between two pages, unless the last
\* page is the empty answer to a query that failed or found no store.
THEOREM PagingComplete == Spec => []MissedOnlyForACause
<1>1. IInv => MissedOnlyForACause
  <2> SUFFICES ASSUME IInv, reader.pc = "done", ~reader.failed,
                      NEW s \in reader.want \ reader.seen
               PROVE  \E u \in DOMAIN inserted : u > s /\ inserted[u].time < inserted[s].time
    BY DEF MissedOnlyForACause, IInv, Losses
  <2> USE DEF IInv
  <2>1. s \in Rows /\ ~InOrder(s) /\ DOMAIN inserted = Rows   BY OutcomesAre DEF Paging
  <2>2. \A u \in Rows : inserted[u].time \in Nat             BY DEF Stored, RowWell
  <2> QED BY <2>1, <2>2 DEF InOrder
<1> QED BY <1>1, InvariantHolds, PTL
=============================================================================
