--------------------------- MODULE PipelineProofs ---------------------------
(***************************************************************************)
(* Proofs about one image's way through the pipeline, for any findings,    *)
(* keyword hits, configuration and number of retries.                      *)
(*                                                                         *)
(* The invariant says, stage by stage, what the verdict, the last look and *)
(* the files have to do with each other (Untouched, Checked, Scanned,      *)
(* Filed); Guarded carries what the policy decided for a fail-safe finding *)
(* through the flags and escalations of verification.                      *)
(***************************************************************************)
EXTENDS Pipeline, FiniteSetTheorems, SequenceTheorems, TLAPS

Before == {"detected", "scored", "decided"}
Unfiled == Before \cup {"verifying", "verified", "scanned"}

\* Every name of an action a configuration ends up with.
ActionNames == {c.criticalAction : c \in BaseConfigs} \cup {"mask"}
Configs == [strict : BOOLEAN, verification : BOOLEAN, maxRetries : Int, criticalAction : ActionNames]

Results == [status : {"PENDING", "PASSED", "FAILED", "SKIPPED"},
            attempts : Int, residual : Int, review : BOOLEAN]

Kinds ==
  /\ config \in Configs
  /\ findings \in Seq(Findings) /\ hits \in KeywordHits
  /\ stage \in Stages /\ attempt \in Nat /\ scan \in {"clean", "minor", "critical"}
  /\ IsFiniteSet(DOMAIN detections)
  /\ \A i \in DOMAIN detections : detections[i] \in DetectionRecord
  /\ verification \in Results

\* The loop: the image is painted from the detections, and a turn that is left has looked.
Painted == stage \notin Before => image = Masks(detections)
Untouched ==
  /\ stage \in Before => look = {}
  /\ stage \in Before \cup {"verifying"} => verification = NoResult
  /\ stage \in Before \cup {"verifying", "verified"} => scan = "clean"
  /\ stage = "verifying" => /\ attempt >= 1 /\ config.verification
                            /\ (attempt = 1 /\ look = {}) \/ attempt <= config.maxRetries

\* A verdict speaks of the last look at this image.
LookedOnce == \E ocr \in [DOMAIN detections -> Outcomes] : look = {[image |-> image, ocr |-> ocr]}
Judged == stage \notin Before \cup {"verifying"}
Checked ==
  /\ Judged => verification.status # "PENDING"
  /\ verification.status = "PASSED" => LookedOnce /\ Uncleared = {}
  /\ verification.status = "SKIPPED" => look = {}
  /\ Judged /\ ~verification.review => \A i \in Uncleared : detections[i].risk # "CRITICAL"

\* The scan can only make it worse.
Scanned == /\ scan = "critical" => verification.status = "FAILED"
           /\ scan # "clean" => verification.review

\* What is written is what was painted, and nothing in Strict Mode after a failure.
Filed ==
  /\ stage \in Unfiled \cup {"blocked"} => output = {}
  /\ stage \in Unfiled \cup {"released", "blocked"} => report = {}
  /\ stage # "done" => audited = {}
  /\ output \subseteq {image} /\ (stage = "released" => output = {image})
  /\ output # {} => ~Blocked
  /\ report \subseteq {[masks |-> image, verification |-> verification, saved |-> output # {}]}
  /\ stage \in {"reported", "done"} => report # {}
  /\ stage = "done" => audited = {image}

\* A detection that must never be skipped is masked, fully if nothing surer was found.
Safe(d) == /\ d.action # "NONE"
           /\ d.unknown => d.action = "FULL_MASK" /\ d.needsReview

\* How far the findings have come: each fail-safe one has left one of its type.
Surviving(d) == /\ d.unknown \/ d.layers \cap SureLayers # {}
                /\ d.type = "OpaqueSecret" => d.unknown
                /\ d.type \in FailSafeTypes => d.action = "NONE"
Guarded ==
  /\ stage = "scored" =>
       /\ \A j \in DOMAIN detections :
            /\ Surviving(detections[j])
            /\ detections[j].type \in IntrinsicCriticalTypes /\ SufficientEvidence(detections[j])
                 => detections[j].risk = "CRITICAL"
       /\ \A i \in DOMAIN findings : \E j \in DOMAIN detections : detections[j].type = findings[i].type
  /\ stage \notin {"detected", "scored"} =>
       \A i \in DOMAIN findings : findings[i].type \in FailSafeTypes =>
         \E j \in DOMAIN detections : detections[j].type = findings[i].type /\ Safe(detections[j])

IInv == Kinds /\ Painted /\ Untouched /\ Checked /\ Scanned /\ Filed /\ Guarded

-----------------------------------------------------------------------------
(***************************************************************************)
(* Merging.  merged is defined by recursion on the place in the list; that *)
(* there is such a function is shown by a least counterexample.            *)
(***************************************************************************)
Smaller == {p \in Nat \X Nat : p[1] < p[2]}

LEMMA SmallerIsWellFounded == IsWellFoundedOn(Smaller, Nat)
<1>1. OpToRel(<, Nat) = Smaller   BY Zenon DEF OpToRel, Smaller
<1> QED BY <1>1, NatLessThanWellFounded

LEMMA LeastNat ==
  ASSUME NEW T, T \subseteq Nat, T # {}
  PROVE  \E x \in T : \A y \in T : x <= y
<1>1. PICK x \in T : \A y \in T : ~ (<<y, x>> \in Smaller)   BY SmallerIsWellFounded, WFMin
<1>2. \A a, b \in Nat : a < b => <<a, b>> \in Smaller         BY DEF Smaller
<1>3. \A y \in T : x <= y
  <2> SUFFICES ASSUME NEW y \in T PROVE x <= y   OBVIOUS
  <2>1. x \in Nat /\ y \in Nat                   OBVIOUS
  <2>2. ~(y < x)                                 BY <1>1, <1>2, <2>1
  <2> QED BY <2>1, <2>2
<1> QED BY <1>3

\* f is the list after each of the first m detections.
Merges(f, ds, m) ==
  f = [n \in 0..m |-> IF n = 0 THEN <<>> ELSE MergeInto(f[n - 1], ds[n])]

LEMMA MergesExist ==
  ASSUME NEW ds, NEW m \in Nat
  PROVE  \E f : Merges(f, ds, m)
<1> DEFINE Bad == {k \in Nat : ~ \E f : Merges(f, ds, k)}
<1> SUFFICES ASSUME Bad # {} PROVE FALSE   OBVIOUS
<1>1. PICK k \in Bad : \A j \in Bad : k <= j   BY LeastNat
<1>2. CASE k = 0
  <2> DEFINE f == [n \in 0..0 |-> <<>>]
  <2>1. Merges(f, ds, 0)   BY DEF Merges
  <2> QED BY <1>2, <2>1
<1>3. CASE k # 0
  <2>1. k - 1 \in Nat /\ k \in Nat /\ k - 1 \notin Bad   BY <1>1, <1>3
  <2>2. PICK f : Merges(f, ds, k - 1)                   BY <2>1
  <2> DEFINE g == [n \in 0..k |-> IF n = k THEN MergeInto(f[k - 1], ds[k]) ELSE f[n]]
  <2>3. \A n \in 0..(k - 1) : f[n] = IF n = 0 THEN <<>> ELSE MergeInto(f[n - 1], ds[n])
    BY <2>2 DEF Merges
  <2>4. \A n \in 0..k : g[n] = IF n = 0 THEN <<>> ELSE MergeInto(g[n - 1], ds[n])
    <3> SUFFICES ASSUME NEW n \in 0..k
                 PROVE  g[n] = IF n = 0 THEN <<>> ELSE MergeInto(g[n - 1], ds[n])
      OBVIOUS
    <3>1. CASE n = 0   BY <1>3, <2>1, <2>3, <3>1
    <3>2. CASE n = k
      <4>1. g[n - 1] = f[k - 1]   BY <2>1, <3>2
      <4> QED BY <1>3, <3>2, <4>1
    <3>3. CASE n # 0 /\ n # k
      <4>1. n \in 0..(k - 1) /\ n - 1 \in 0..k /\ n - 1 # k   BY <2>1, <3>3
      <4>2. g[n - 1] = f[n - 1] /\ g[n] = f[n]              BY <3>3, <4>1
      <4> QED BY <2>3, <3>3, <4>1, <4>2
    <3> QED BY <3>1, <3>2, <3>3
  <2>5. Merges(g, ds, k)   BY <2>4 DEF Merges
  <2> QED BY <2>5
<1> QED BY <1>2, <1>3

LEMMA MergedByPlace ==
  ASSUME NEW ds, Len(ds) \in Nat
  PROVE  \E f : Merges(f, ds, Len(ds)) /\ MergeOverlapping(ds) = f[Len(ds)]
<1> DEFINE f == CHOOSE g : Merges(g, ds, Len(ds))
<1>1. Merges(f, ds, Len(ds))   BY MergesExist
<1>2. MergeOverlapping(ds) = f[Len(ds)]   BY DEF MergeOverlapping, Merges
<1> QED BY <1>1, <1>2

LEMMA MinIsLeast ==
  ASSUME NEW S, S \subseteq Nat, S # {}
  PROVE  Min(S) \in S
<1>1. \E x \in S : \A y \in S : x <= y   BY LeastNat
<1> QED BY <1>1 DEF Min

LEMMA AbsorbKeeps ==
  ASSUME NEW m \in DetectionRecord, NEW d \in DetectionRecord, m.type = d.type,
         Surviving(m), Surviving(d)
  PROVE  Absorb(m, d) \in DetectionRecord /\ Absorb(m, d).type = m.type /\ Surviving(Absorb(m, d))
<1> DEFINE base == IF d.conf > m.conf
                   THEN [m EXCEPT !.conf = d.conf, !.box = d.box, !.legible = d.legible] ELSE m
           a == [base EXCEPT !.layers = m.layers \cup d.layers, !.unknown = m.unknown /\ d.unknown]
<1>1. base \in DetectionRecord /\ base.type = m.type /\ base.action = m.action
  BY DEF DetectionRecord
<1>2. m.layers \cup d.layers \in SUBSET Layers /\ (m.unknown /\ d.unknown) \in BOOLEAN
  BY DEF DetectionRecord
<1>3. Absorb(m, d) = a   BY DEF Absorb
<1> HIDE DEF base
<1>4. /\ a \in DetectionRecord /\ a.type = m.type /\ a.action = m.action
      /\ a.layers = m.layers \cup d.layers /\ a.unknown = (m.unknown /\ d.unknown)
  BY <1>1, <1>2 DEF DetectionRecord
<1> HIDE DEF a
<1>5. Surviving(a)   BY <1>4 DEF Surviving
<1> QED BY <1>3, <1>4, <1>5

\* One more detection leaves every type there is, and its own.
LEMMA MergeIntoKeeps ==
  ASSUME NEW s \in Seq(DetectionRecord), NEW d \in DetectionRecord,
         \A j \in DOMAIN s : Surviving(s[j]), Surviving(d)
  PROVE  /\ MergeInto(s, d) \in Seq(DetectionRecord)
         /\ \A k \in DOMAIN MergeInto(s, d) : Surviving(MergeInto(s, d)[k])
         /\ \A j \in DOMAIN s : \E k \in DOMAIN MergeInto(s, d) : MergeInto(s, d)[k].type = s[j].type
         /\ \E k \in DOMAIN MergeInto(s, d) : MergeInto(s, d)[k].type = d.type
<1> DEFINE same == {i \in DOMAIN s : s[i].type = d.type /\ Overlap(s[i].box, d.box)}
<1>0. DOMAIN s = 1..Len(s) /\ Len(s) \in Nat   BY LenProperties
<1>1. CASE same = {}
  <2> DEFINE t == Append(s, d)
  <2>1. MergeInto(s, d) = t   BY <1>1 DEF MergeInto
  <2>2. /\ t \in Seq(DetectionRecord) /\ Len(t) = Len(s) + 1
        /\ \A i \in 1..Len(s) : t[i] = s[i]
        /\ t[Len(s) + 1] = d
    BY AppendProperties
  <2>3. DOMAIN t = 1..(Len(s) + 1)   BY <2>2, LenProperties
  <2> HIDE DEF t
  <2>4. \A j \in DOMAIN t : Surviving(t[j])   BY <1>0, <2>2, <2>3
  <2>5. \A j \in DOMAIN s : j \in DOMAIN t /\ t[j].type = s[j].type   BY <1>0, <2>2, <2>3
  <2>6. Len(s) + 1 \in DOMAIN t /\ t[Len(s) + 1].type = d.type   BY <1>0, <2>2, <2>3
  <2> QED BY <2>1, <2>2, <2>4, <2>5, <2>6
<1>2. CASE same # {}
  <2> DEFINE h == Min(same)
             a == Absorb(s[h], d)
             t == [s EXCEPT ![h] = a]
  <2>1. h \in same /\ h \in 1..Len(s)
    <3>1. same \subseteq 1..Len(s) /\ same \subseteq Nat   BY <1>0
    <3>2. Min(same) \in same   BY <1>2, <3>1, MinIsLeast
    <3> QED BY <3>1, <3>2
  <2>2. MergeInto(s, d) = t   BY <1>2 DEF MergeInto
  <2>3. s[h] \in DetectionRecord /\ s[h].type = d.type   BY <2>1, ElementOfSeq
  <2>4. a \in DetectionRecord /\ a.type = d.type /\ Surviving(a)
    BY <1>0, <2>1, <2>3, AbsorbKeeps
  <2> HIDE DEF h, a
  <2>5. /\ t \in Seq(DetectionRecord) /\ Len(t) = Len(s)
        /\ \A i \in 1..Len(s) : t[i] = IF i = h THEN a ELSE s[i]
    BY <2>1, <2>4, ExceptSeq
  <2>6. DOMAIN t = 1..Len(s)   BY <2>5, LenProperties
  <2> HIDE DEF t
  <2>7. \A j \in DOMAIN t : Surviving(t[j])   BY <1>0, <2>4, <2>5, <2>6
  <2>8. \A j \in DOMAIN s : j \in DOMAIN t /\ t[j].type = s[j].type
    BY <1>0, <2>3, <2>4, <2>5, <2>6
  <2>9. h \in DOMAIN t /\ t[h].type = d.type   BY <2>1, <2>4, <2>5, <2>6
  <2> QED BY <2>2, <2>5, <2>7, <2>8, <2>9
<1> QED BY <1>1, <1>2

\* Merging leaves, of every type that was found, a detection.
LEMMA MergeKeeps ==
  ASSUME NEW ds \in Seq(DetectionRecord), \A i \in DOMAIN ds : Surviving(ds[i])
  PROVE  /\ MergeOverlapping(ds) \in Seq(DetectionRecord)
         /\ \A j \in DOMAIN MergeOverlapping(ds) : Surviving(MergeOverlapping(ds)[j])
         /\ \A i \in DOMAIN ds : \E j \in DOMAIN MergeOverlapping(ds) :
              MergeOverlapping(ds)[j].type = ds[i].type
<1>0. Len(ds) \in Nat /\ DOMAIN ds = 1..Len(ds)   BY LenProperties
<1>1. PICK f : Merges(f, ds, Len(ds)) /\ MergeOverlapping(ds) = f[Len(ds)]   BY <1>0, MergedByPlace
<1>2. \A n \in 0..Len(ds) : f[n] = IF n = 0 THEN <<>> ELSE MergeInto(f[n - 1], ds[n])
  BY <1>1 DEF Merges
<1> DEFINE Keeps(s, n) == /\ s \in Seq(DetectionRecord)
                          /\ \A j \in DOMAIN s : Surviving(s[j])
                          /\ \A i \in 1..n : \E j \in DOMAIN s : s[j].type = ds[i].type
           Bad == {n \in 0..Len(ds) : ~Keeps(f[n], n)}
<1>3. Keeps(<<>>, 0)   BY EmptySeq
<1>4. ASSUME NEW n \in 1..Len(ds), Keeps(f[n - 1], n - 1) PROVE Keeps(f[n], n)
  <2> DEFINE s == f[n - 1]
             t == f[n]
  <2>1. t = MergeInto(s, ds[n])   BY <1>0, <1>2
  <2>2. ds[n] \in DetectionRecord /\ Surviving(ds[n])   BY <1>0, ElementOfSeq
  <2>3. s \in Seq(DetectionRecord) /\ \A j \in DOMAIN s : Surviving(s[j])   BY <1>4
  <2>4. \A i \in 1..(n - 1) : \E j \in DOMAIN s : s[j].type = ds[i].type    BY <1>4
  <2> HIDE DEF s, t
  <2>5. /\ t \in Seq(DetectionRecord)
        /\ \A k \in DOMAIN t : Surviving(t[k])
        /\ \A j \in DOMAIN s : \E k \in DOMAIN t : t[k].type = s[j].type
        /\ \E k \in DOMAIN t : t[k].type = ds[n].type
    BY <2>1, <2>2, <2>3, MergeIntoKeeps
  <2>6. ASSUME NEW i \in 1..n PROVE \E k \in DOMAIN t : t[k].type = ds[i].type
    <3>1. CASE i = n   BY <2>5, <3>1
    <3>2. CASE i # n
      <4>1. i \in 1..(n - 1)   BY <1>0, <3>2
      <4> QED BY <2>4, <2>5, <4>1
    <3> QED BY <3>1, <3>2
  <2>7. Keeps(t, n)   BY <2>5, <2>6
  <2> QED BY <2>7 DEF t
<1> HIDE DEF Keeps
<1>5. Bad = {}
  <2> SUFFICES ASSUME Bad # {} PROVE FALSE   OBVIOUS
  <2>1. Bad \subseteq Nat   OBVIOUS
  <2>2. PICK n \in Bad : \A m \in Bad : n <= m   BY <2>1, LeastNat
  <2>3. n # 0
    <3>1. f[0] = <<>>   BY <1>0, <1>2
    <3> QED BY <1>3, <2>2, <3>1
  <2>4. n \in 1..Len(ds) /\ n - 1 \in 0..Len(ds) /\ n - 1 \notin Bad   BY <1>0, <2>2, <2>3
  <2>5. Keeps(f[n - 1], n - 1)   BY <2>4
  <2> QED BY <1>4, <2>2, <2>4, <2>5
<1>6. Keeps(f[Len(ds)], Len(ds))   BY <1>0, <1>5
<1> QED BY <1>0, <1>1, <1>6 DEF Keeps

-----------------------------------------------------------------------------
(***************************************************************************)
(* Scoring and deciding.                                                   *)
(***************************************************************************)
LEMMA TwoNumbers ==
  ASSUME NEW a \in Nat, NEW b \in Nat
  PROVE  /\ Min({a, b}) \in Nat
         /\ Max({a, b}) \in Nat /\ Max({a, b}) >= a /\ Max({a, b}) >= b
<1>1. \E x \in {a, b} : \A y \in {a, b} : x >= y
  <2>1. CASE a >= b   BY <2>1
  <2>2. CASE b >= a   BY <2>2
  <2> QED BY <2>1, <2>2
<1>2. Max({a, b}) \in {a, b} /\ \A y \in {a, b} : Max({a, b}) >= y   BY <1>1 DEF Max
<1>3. Min({a, b}) \in {a, b}   BY MinIsLeast
<1> QED BY <1>2, <1>3

LEMMA ScoreIsNat ==
  ASSUME NEW d \in DetectionRecord, NEW h, IsFiniteSet(h)
  PROVE  /\ RiskScore(d, h) \in Nat
         /\ d.type \in IntrinsicCriticalTypes /\ SufficientEvidence(d) => RiskScore(d, h) >= 8500
<1> DEFINE near == {k \in h : k.line = d.box.line}
           boost == KeywordBoost(d, h)
           weight == BaseScore(d.type) * Max({d.conf, 30})
           plain == Min({10000, weight + boost})
<1>1. IsFiniteSet(near)   BY FS_Subset
<1>2. Cardinality({k \in near : k.critical}) \in Nat /\ Cardinality({k \in near : ~k.critical}) \in Nat
  BY <1>1, FS_Subset, FS_CardinalityType
<1>3. boost \in Nat   BY <1>2 DEF KeywordBoost
<1>4. BaseScore(d.type) \in Nat   BY DEF BaseScore
<1>5. d.conf \in Nat   BY DEF DetectionRecord
<1>6. Max({d.conf, 30}) \in Nat   BY <1>5, TwoNumbers
<1>7. weight \in Nat   BY <1>4, <1>6
<1> HIDE DEF boost, weight
<1>8. plain \in Nat
  <2>1. weight + boost \in Nat /\ 10000 \in Nat   BY <1>3, <1>7
  <2> QED BY <2>1, TwoNumbers
<1>9. RiskScore(d, h) = IF d.type \in IntrinsicCriticalTypes /\ SufficientEvidence(d)
                        THEN Max({plain, 8500}) ELSE plain
  BY DEF RiskScore, boost, weight
<1> HIDE DEF plain
<1>10. Max({plain, 8500}) \in Nat /\ Max({plain, 8500}) >= 8500   BY <1>8, TwoNumbers
<1> QED BY <1>8, <1>9, <1>10

LEMMA FloorIsCritical ==
  ASSUME NEW score \in Nat, score >= 8500
  PROVE  FromScore(score) = "CRITICAL"
BY DEF FromScore

LEMMA ScoreOneKeeps ==
  ASSUME NEW d \in DetectionRecord, NEW h, IsFiniteSet(h)
  PROVE  /\ ScoreOne(d, h) \in DetectionRecord
         /\ \E r \in RiskLevels : ScoreOne(d, h) = [d EXCEPT !.risk = r]
         /\ d.type \in IntrinsicCriticalTypes /\ SufficientEvidence(d) /\ d.action = "NONE"
              => ScoreOne(d, h).risk = "CRITICAL"
<1>1. FromScore(RiskScore(d, h)) \in RiskLevels   BY DEF FromScore, RiskLevels
<1>2. d = [d EXCEPT !.risk = d.risk] /\ d.risk \in RiskLevels   BY DEF DetectionRecord
<1>3. d.type \in IntrinsicCriticalTypes /\ SufficientEvidence(d) => FromScore(RiskScore(d, h)) = "CRITICAL"
  <2> DEFINE s == RiskScore(d, h)
  <2>1. s \in Nat /\ (d.type \in IntrinsicCriticalTypes /\ SufficientEvidence(d) => s >= 8500)
    BY ScoreIsNat
  <2> HIDE DEF s
  <2> QED BY <2>1, FloorIsCritical DEF s
<1>4. CASE UserDecided(d)   BY <1>2, <1>4 DEF ScoreOne, UserDecided
<1>5. CASE ~UserDecided(d)
  <2>1. ScoreOne(d, h) = [d EXCEPT !.risk = FromScore(RiskScore(d, h))]   BY <1>5 DEF ScoreOne
  <2> HIDE DEF RiskScore
  <2> QED BY <1>1, <1>3, <2>1 DEF DetectionRecord
<1> QED BY <1>4, <1>5

\* What the risk engine makes of the findings.
LEMMA ScoreKeeps ==
  ASSUME NEW ds \in Seq(DetectionRecord), \A i \in DOMAIN ds : Surviving(ds[i]),
         NEW h, IsFiniteSet(h)
  PROVE  /\ \A j \in DOMAIN Score(ds, h) :
              LET d == Score(ds, h)[j]
              IN  /\ d \in DetectionRecord /\ Surviving(d)
                  /\ d.type \in IntrinsicCriticalTypes /\ SufficientEvidence(d)
                       => d.risk = "CRITICAL"
         /\ \A i \in DOMAIN ds : \E j \in DOMAIN Score(ds, h) : Score(ds, h)[j].type = ds[i].type
<1> DEFINE m == MergeOverlapping(ds)
<1>1. /\ m \in Seq(DetectionRecord) /\ \A j \in DOMAIN m : Surviving(m[j])
      /\ \A i \in DOMAIN ds : \E j \in DOMAIN m : m[j].type = ds[i].type
  BY MergeKeeps
<1>2. Score(ds, h) = [j \in DOMAIN m |-> ScoreOne(m[j], h)]   BY DEF Score
<1> HIDE DEF m
<1>3. \A j \in DOMAIN m : m[j] \in DetectionRecord   BY <1>1, LenProperties, ElementOfSeq
<1>4. ASSUME NEW j \in DOMAIN m
      PROVE  LET d == ScoreOne(m[j], h)
             IN  /\ d \in DetectionRecord /\ Surviving(d) /\ d.type = m[j].type
                 /\ d.type \in IntrinsicCriticalTypes /\ SufficientEvidence(d)
                      => d.risk = "CRITICAL"
  <2> DEFINE d == ScoreOne(m[j], h)
  <2>1. m[j] \in DetectionRecord /\ Surviving(m[j])   BY <1>1, <1>3
  <2>2. /\ d \in DetectionRecord
        /\ \E r \in RiskLevels : d = [m[j] EXCEPT !.risk = r]
        /\ m[j].type \in IntrinsicCriticalTypes /\ SufficientEvidence(m[j]) /\ m[j].action = "NONE"
             => d.risk = "CRITICAL"
    BY <2>1, ScoreOneKeeps
  <2> HIDE DEF d
  <2>3. d.type = m[j].type /\ d.action = m[j].action /\ d.layers = m[j].layers /\ d.unknown = m[j].unknown
    BY <2>1, <2>2 DEF DetectionRecord
  <2>4. Surviving(d)   BY <2>1, <2>3 DEF Surviving
  <2>5. d.type \in IntrinsicCriticalTypes /\ SufficientEvidence(d) => d.risk = "CRITICAL"
    BY <2>1, <2>2, <2>3 DEF Surviving, SufficientEvidence, FailSafeTypes
  <2> QED BY <2>2, <2>3, <2>4, <2>5 DEF d
<1>5. \A j \in DOMAIN m : Score(ds, h)[j] = ScoreOne(m[j], h)   BY <1>2
<1>6. DOMAIN Score(ds, h) = DOMAIN m   BY <1>2
<1> HIDE DEF Score
<1> QED BY <1>1, <1>4, <1>5, <1>6

LEMMA DecideOneKeeps ==
  ASSUME NEW d \in DetectionRecord, NEW strict \in BOOLEAN, NEW alias
  PROVE  /\ DecideOne(d, strict, alias) \in DetectionRecord
         /\ DecideOne(d, strict, alias).type = d.type
         /\ d.type \in FailSafeTypes /\ Surviving(d)
            /\ (d.type \in IntrinsicCriticalTypes /\ SufficientEvidence(d) => d.risk = "CRITICAL")
              => Safe(DecideOne(d, strict, alias))
<1> DEFINE failSafe == d.unknown /\ \/ d.type \in FailSafeTypes
                                     \/ d.risk \in {"HIGH", "CRITICAL"}
           e == DecideOne(d, strict, alias)
<1>1. /\ CriticalAction(alias) \in Actions \ {"NONE"}
      /\ d.risk # "CRITICAL" => RiskAction(d.risk) \in Actions
  BY DEF CriticalAction, RiskAction, Actions, DetectionRecord, RiskLevels
<1>2. CASE UserDecided(d)
  <2>1. e = d   BY <1>2 DEF DecideOne
  <2> QED BY <1>2, <2>1 DEF UserDecided, Surviving
<1>3. CASE ~UserDecided(d) /\ failSafe
  <2>1. e = [d EXCEPT !.needsReview = TRUE, !.action = "FULL_MASK"]   BY <1>3 DEF DecideOne
  <2> HIDE DEF e
  <2>2. e \in DetectionRecord /\ e.type = d.type /\ Safe(e)   BY <2>1 DEF DetectionRecord, Safe, Actions
  <2> QED BY <2>2 DEF e
<1>4. CASE ~UserDecided(d) /\ ~failSafe /\ d.risk = "CRITICAL"
  <2>1. e = [d EXCEPT !.action = IF strict THEN "FULL_MASK" ELSE CriticalAction(alias)]
    BY <1>4 DEF DecideOne
  <2> HIDE DEF e
  <2>2. e \in DetectionRecord /\ e.type = d.type /\ e.action # "NONE" /\ e.unknown = d.unknown
    BY <1>1, <2>1 DEF DetectionRecord, Actions
  <2>3. d.type \in FailSafeTypes => ~d.unknown   BY <1>4
  <2>4. d.type \in FailSafeTypes => Safe(e)      BY <2>2, <2>3 DEF Safe
  <2> QED BY <2>2, <2>4 DEF e
<1>5. CASE ~UserDecided(d) /\ ~failSafe /\ d.risk # "CRITICAL"
  <2>1. e = [d EXCEPT !.action = RiskAction(d.risk)]   BY <1>5 DEF DecideOne
  <2>2. ~(/\ d.type \in FailSafeTypes /\ Surviving(d)
          /\ d.type \in IntrinsicCriticalTypes /\ SufficientEvidence(d) => d.risk = "CRITICAL")
    BY <1>5 DEF Surviving, SufficientEvidence, FailSafeTypes
  <2> HIDE DEF e
  <2>3. e \in DetectionRecord /\ e.type = d.type   BY <1>1, <1>5, <2>1 DEF DetectionRecord
  <2> QED BY <2>2, <2>3 DEF e
<1> QED BY <1>2, <1>3, <1>4, <1>5
-----------------------------------------------------------------------------
(***************************************************************************)
(* Looking and escalating.                                                 *)
(***************************************************************************)
\* A look changes nothing but the call for a review.
LEMMA FlaggedSame ==
  ASSUME NEW ds, NEW ocr, \A i \in DOMAIN ds : ds[i] \in DetectionRecord
  PROVE  /\ DOMAIN Flagged(ds, ocr) = DOMAIN ds
         /\ \A i \in DOMAIN ds :
              LET f == Flagged(ds, ocr)[i]
              IN  /\ f \in DetectionRecord
                  /\ f.type = ds[i].type /\ f.action = ds[i].action /\ f.box = ds[i].box
                  /\ f.risk = ds[i].risk /\ f.legible = ds[i].legible /\ f.unknown = ds[i].unknown
                  /\ ds[i].needsReview => f.needsReview
<1>1. DOMAIN Flagged(ds, ocr) = DOMAIN ds   BY DEF Flagged
<1>2. ASSUME NEW i \in DOMAIN ds
      PROVE  Flagged(ds, ocr)[i] \in {ds[i], [ds[i] EXCEPT !.needsReview = TRUE]}
  BY DEF Flagged
<1> HIDE DEF Flagged
<1>3. ASSUME NEW i \in DOMAIN ds, NEW f \in {ds[i], [ds[i] EXCEPT !.needsReview = TRUE]}
      PROVE  /\ f \in DetectionRecord
             /\ f.type = ds[i].type /\ f.action = ds[i].action /\ f.box = ds[i].box
             /\ f.risk = ds[i].risk /\ f.legible = ds[i].legible /\ f.unknown = ds[i].unknown
             /\ ds[i].needsReview => f.needsReview
  <2>1. ds[i] \in DetectionRecord   OBVIOUS
  <2>2. CASE f = ds[i]   BY <2>1, <2>2
  <2>3. CASE f = [ds[i] EXCEPT !.needsReview = TRUE]   BY <2>1, <2>3 DEF DetectionRecord
  <2> QED BY <2>2, <2>3
<1> QED BY <1>1, <1>2, <1>3

LEMMA FlaggedPaintsTheSame ==
  ASSUME NEW ds, NEW ocr, \A i \in DOMAIN ds : ds[i] \in DetectionRecord
  PROVE  /\ Masks(Flagged(ds, ocr)) = Masks(ds)
         /\ \A o : Residual(Flagged(ds, ocr), o) = Residual(ds, o)
<1> DEFINE f == Flagged(ds, ocr)
<1>1. /\ DOMAIN f = DOMAIN ds
      /\ \A i \in DOMAIN ds : /\ f[i].action = ds[i].action /\ f[i].box = ds[i].box
                              /\ f[i].risk = ds[i].risk /\ f[i].legible = ds[i].legible
  BY FlaggedSame
<1> HIDE DEF f
<1>2. Masks(f) = Masks(ds)   BY <1>1 DEF Masks
<1>3. \A o : Residual(f, o) = Residual(ds, o)   BY <1>1 DEF Residual
<1> QED BY <1>2, <1>3 DEF f

LEMMA EscalateKeeps ==
  ASSUME NEW d \in DetectionRecord
  PROVE  /\ Escalate(d, Margin) \in DetectionRecord
         /\ Escalate(d, Margin).type = d.type
         /\ Safe(d) => Safe(Escalate(d, Margin))
         /\ Strength(Escalate(d, Margin).action) >= Strength(d.action)
         /\ Covers(Escalate(d, Margin).box, d.box)
<1> DEFINE b == Widen(d.box, Margin)
           a == Stronger(d.action)
           e == Escalate(d, Margin)
<1>1. d.box \in [line : Nat, x : Nat, width : Nat] /\ d.action \in Actions   BY DEF DetectionRecord
<1>2. Margin \in Nat   BY MarginPositive
<1>3. b \in [line : Nat, x : Nat, width : Nat]
  <2> DEFINE x == IF d.box.x >= Margin THEN d.box.x - Margin ELSE 0
             w == d.box.width + 2 * Margin
  <2>1. d.box.x \in Nat /\ d.box.width \in Nat   BY <1>1
  <2>2. x \in Nat /\ w \in Nat   BY <1>2, <2>1
  <2>3. b = [d.box EXCEPT !.x = x, !.width = w]   BY DEF Widen
  <2> HIDE DEF x, w, b
  <2> QED BY <1>1, <2>2, <2>3
<1>4. Covers(b, d.box)   BY <1>1, <1>2 DEF Widen, Covers
<1>5. /\ a \in Actions /\ a # "NONE" /\ (d.action = "FULL_MASK" => a = "FULL_MASK")
      /\ Strength(a) >= Strength(d.action)
  BY <1>1 DEF Stronger, Strength, Actions
<1>6. e = [d EXCEPT !.action = a, !.box = b]   BY DEF Escalate
<1> HIDE DEF a, b, e
<1>7. e \in DetectionRecord   BY <1>3, <1>5, <1>6 DEF DetectionRecord
<1>8. /\ e.type = d.type /\ e.action = a /\ e.box = b
      /\ e.unknown = d.unknown /\ e.needsReview = d.needsReview
  BY <1>6 DEF DetectionRecord
<1>9. Safe(d) => Safe(e)   BY <1>5, <1>8 DEF Safe
<1> QED BY <1>4, <1>5, <1>7, <1>8, <1>9 DEF e

\* The detections a turn of the loop leaves when it found something.
Retried(ds, ocr) == [i \in DOMAIN Flagged(ds, ocr) |->
                       IF i \in Residual(ds, ocr) THEN Escalate(Flagged(ds, ocr)[i], Margin)
                       ELSE Flagged(ds, ocr)[i]]

LEMMA RetriedKeeps ==
  ASSUME NEW ds, NEW ocr, \A i \in DOMAIN ds : ds[i] \in DetectionRecord
  PROVE  /\ DOMAIN Retried(ds, ocr) = DOMAIN ds
         /\ \A i \in DOMAIN ds :
              LET e == Retried(ds, ocr)[i]
              IN  /\ e \in DetectionRecord /\ e.type = ds[i].type /\ (Safe(ds[i]) => Safe(e))
                  /\ Strength(e.action) >= Strength(ds[i].action) /\ Covers(e.box, ds[i].box)
<1> DEFINE f == Flagged(ds, ocr)
           r == Retried(ds, ocr)
<1>1. /\ DOMAIN f = DOMAIN ds
      /\ \A i \in DOMAIN ds : /\ f[i] \in DetectionRecord
                              /\ f[i].type = ds[i].type /\ f[i].action = ds[i].action
                              /\ f[i].box = ds[i].box /\ f[i].unknown = ds[i].unknown
                              /\ ds[i].needsReview => f[i].needsReview
  BY FlaggedSame
<1>2. \A i \in DOMAIN ds : r[i] \in {f[i], Escalate(f[i], Margin)}   BY <1>1 DEF Retried
<1>3. DOMAIN r = DOMAIN ds   BY <1>1 DEF Retried
<1> HIDE DEF f, r
<1>4. ASSUME NEW i \in DOMAIN ds
      PROVE  /\ r[i] \in DetectionRecord /\ r[i].type = ds[i].type /\ (Safe(ds[i]) => Safe(r[i]))
             /\ Strength(r[i].action) >= Strength(ds[i].action) /\ Covers(r[i].box, ds[i].box)
  <2>1. Safe(ds[i]) => Safe(f[i])   BY <1>1 DEF Safe
  <2>2. CASE r[i] = Escalate(f[i], Margin)
    <3>1. /\ r[i] \in DetectionRecord /\ r[i].type = f[i].type /\ (Safe(f[i]) => Safe(r[i]))
          /\ Strength(r[i].action) >= Strength(f[i].action) /\ Covers(r[i].box, f[i].box)
      BY <1>1, <2>2, EscalateKeeps
    <3> QED BY <1>1, <2>1, <3>1
  <2>3. CASE r[i] = f[i]
    <3>1. /\ ds[i].box \in [line : Nat, x : Nat, width : Nat] /\ ds[i].action \in Actions
      BY DEF DetectionRecord
    <3>2. Strength(ds[i].action) \in Nat   BY <3>1 DEF Strength, Actions
    <3>3. Covers(ds[i].box, ds[i].box)     BY <3>1 DEF Covers
    <3> QED BY <1>1, <2>1, <2>3, <3>2, <3>3
  <2> QED BY <1>2, <2>2, <2>3
<1> QED BY <1>3, <1>4 DEF r

\* What policy leaves redacted.
LEMMA DecideKeeps ==
  ASSUME NEW ds, \A i \in DOMAIN ds : ds[i] \in DetectionRecord, NEW strict \in BOOLEAN, NEW alias
  PROVE  LET kept == Decide(ds, strict, alias)
         IN  /\ DOMAIN kept \subseteq DOMAIN ds
             /\ \A i \in DOMAIN kept : kept[i] = DecideOne(ds[i], strict, alias)
             /\ \A i \in DOMAIN kept : kept[i] \in DetectionRecord
             /\ \A i \in DOMAIN ds : DecideOne(ds[i], strict, alias).action # "NONE"
                                       => i \in DOMAIN kept
<1> DEFINE kept == Decide(ds, strict, alias)
<1>1. /\ DOMAIN kept = {k \in DOMAIN ds : DecideOne(ds[k], strict, alias).action # "NONE"}
      /\ \A i \in DOMAIN kept : kept[i] = DecideOne(ds[i], strict, alias)
  BY DEF Decide
<1> HIDE DEF kept
<1>2. \A i \in DOMAIN kept : kept[i] \in DetectionRecord   BY <1>1, DecideOneKeeps
<1> QED BY <1>1, <1>2 DEF kept
-----------------------------------------------------------------------------
(***************************************************************************)
(* The initial states.                                                     *)
(***************************************************************************)
LEMMA InitHolds == Init => IInv
<1> SUFFICES ASSUME Init PROVE IInv   OBVIOUS
<1> USE DEF Init
<1>1. config \in Configs
  <2>1. PICK base \in BaseConfigs, strict \in BOOLEAN, verify \in BOOLEAN, noVerify \in BOOLEAN :
          config = Resolve(base, strict, verify, noVerify)
    OBVIOUS
  <2> DEFINE moded == IF strict THEN ApplyStrictMode(base) ELSE base
  <2>2. base \in Configs
    <3>1. base.criticalAction \in ActionNames   BY DEF ActionNames
    <3> QED BY <3>1, ConfigsTyped DEF Configs
  <2>3. moded \in Configs
    <3>1. CASE strict
      <4>1. moded = [base EXCEPT !.strict = TRUE, !.verification = TRUE, !.criticalAction = "mask"]
        BY <3>1 DEF ApplyStrictMode
      <4>2. "mask" \in ActionNames   BY DEF ActionNames
      <4> HIDE DEF moded
      <4> QED BY <2>2, <4>1, <4>2 DEF Configs
    <3>2. CASE ~strict   BY <2>2, <3>2
    <3> QED BY <3>1, <3>2
  <2>4. config = [moded EXCEPT !.verification = (moded.verification \/ verify) /\ ~noVerify]
    BY <2>1 DEF Resolve
  <2> HIDE DEF moded
  <2> QED BY <2>3, <2>4 DEF Configs
<1>2. findings \in Seq(Findings)
  BY MaxFindingsNat DEF BoundedSeq, SeqOf
<1>3. IsFiniteSet(DOMAIN detections) /\ \A i \in DOMAIN detections : detections[i] \in DetectionRecord
  <2>1. DOMAIN detections = {}   OBVIOUS
  <2> QED BY <2>1, FS_EmptySet
<1>4. Kinds   BY <1>1, <1>2, <1>3 DEF Kinds, Stages, NoResult, Results
<1>5. Painted /\ Untouched   BY DEF Painted, Untouched, Before
<1>6. Checked   BY DEF Checked, Judged, Before, NoResult
<1>7. Scanned /\ Filed   BY DEF Scanned, Filed, Unfiled, Before
<1>8. Guarded   BY DEF Guarded
<1> QED BY <1>4, <1>5, <1>6, <1>7, <1>8 DEF IInv

-----------------------------------------------------------------------------
(***************************************************************************)
(* The steps, one lemma for each conjunct.                                 *)
(***************************************************************************)
\* What a turn of the loop that leaves it has written.
LastTurn(ocr) == /\ stage = "verifying" /\ stage' = "verified"
                 /\ detections' = Flagged(detections, ocr)
                 /\ look' = Looked(ocr)
                 /\ image' = image

LEMMA LoopIsLeft ==
  ASSUME IInv, AttemptPasses \/ LastAttemptFails
  PROVE  \E ocr \in [DOMAIN detections -> Outcomes] :
           /\ LastTurn(ocr)
           /\ \/ Residual(detections, ocr) = {} /\ verification' = [NoResult EXCEPT !.status = "PASSED", !.attempts = attempt]
              \/ verification' = [status |-> "FAILED", attempts |-> attempt,
                                  residual |-> Cardinality(Residual(detections, ocr)),
                                  review |-> \E i \in Residual(detections, ocr) : detections[i].risk = "CRITICAL"]
BY DEF AttemptPasses, LastAttemptFails, LastTurn

LEMMA ConfigFields ==
  ASSUME IInv
  PROVE  config.strict \in BOOLEAN /\ config.verification \in BOOLEAN /\ config.maxRetries \in Int
BY DEF IInv, Kinds, Configs

LEMMA ResidualFinite ==
  ASSUME Kinds, NEW ocr
  PROVE  Cardinality(Residual(detections, ocr)) \in Nat
<1>1. Residual(detections, ocr) \subseteq DOMAIN detections   BY DEF Residual
<1> QED BY <1>1, FS_Subset, FS_CardinalityType DEF Kinds

\* Of that, what the invariant needs.
LEMMA LoopVerdict ==
  ASSUME IInv, AttemptPasses \/ LastAttemptFails
  PROVE  \E ocr \in [DOMAIN detections -> Outcomes] :
           /\ LastTurn(ocr) /\ verification' \in Results
           /\ \/ Residual(detections, ocr) = {} /\ verification'.status = "PASSED"
              \/ /\ verification'.status = "FAILED"
                 /\ ~verification'.review => \A i \in Residual(detections, ocr) : detections[i].risk # "CRITICAL"
<1>1. PICK ocr \in [DOMAIN detections -> Outcomes] :
        /\ LastTurn(ocr)
        /\ \/ Residual(detections, ocr) = {} /\ verification' = [NoResult EXCEPT !.status = "PASSED", !.attempts = attempt]
           \/ verification' = [status |-> "FAILED", attempts |-> attempt,
                               residual |-> Cardinality(Residual(detections, ocr)),
                               review |-> \E i \in Residual(detections, ocr) : detections[i].risk = "CRITICAL"]
  BY LoopIsLeft
<1> DEFINE seen == \E i \in Residual(detections, ocr) : detections[i].risk = "CRITICAL"
           left == Cardinality(Residual(detections, ocr))
<1>2. left \in Int /\ seen \in BOOLEAN /\ attempt \in Int   BY ResidualFinite DEF IInv, Kinds
<1>3. CASE Residual(detections, ocr) = {} /\ verification' = [NoResult EXCEPT !.status = "PASSED", !.attempts = attempt]
  <2>1. NoResult \in Results   BY DEF NoResult, Results
  <2>2. verification' \in Results /\ verification'.status = "PASSED"   BY <1>2, <1>3, <2>1 DEF Results
  <2> QED BY <1>1, <1>3, <2>2
<1>4. CASE verification' = [status |-> "FAILED", attempts |-> attempt, residual |-> left, review |-> seen]
  <2>1. ~seen => \A i \in Residual(detections, ocr) : detections[i].risk # "CRITICAL"   OBVIOUS
  <2> HIDE DEF seen, left
  <2>2. verification' \in Results /\ verification'.status = "FAILED" /\ verification'.review = seen
    BY <1>2, <1>4 DEF Results
  <2> QED BY <1>1, <2>1, <2>2
<1> QED BY <1>1, <1>3, <1>4

LEMMA LoopGoesOn ==
  ASSUME EscalateAndRetry
  PROVE  \E ocr \in [DOMAIN detections -> Outcomes] :
           detections' = Retried(detections, ocr) /\ look' = Looked(ocr)
<1>1. PICK ocr \in [DOMAIN detections -> Outcomes] :
        /\ detections' = [i \in DOMAIN Flagged(detections, ocr) |->
                           IF i \in Residual(detections, ocr)
                           THEN Escalate(Flagged(detections, ocr)[i], Margin)
                           ELSE Flagged(detections, ocr)[i]]
        /\ look' = Looked(ocr)
  BY DEF EscalateAndRetry
<1> QED BY <1>1, Zenon DEF Retried

\* The detections after a step, and the file type of every field.
LEMMA DetectionsStep ==
  ASSUME IInv, Next
  PROVE  /\ IsFiniteSet(DOMAIN detections')
         /\ \A i \in DOMAIN detections' : detections'[i] \in DetectionRecord
<1>0. IsFiniteSet(DOMAIN detections) /\ \A i \in DOMAIN detections : detections[i] \in DetectionRecord
  BY DEF IInv, Kinds
<1>1. CASE ScoreFindings
  <2>1. findings \in Seq(DetectionRecord) /\ IsFiniteSet(hits)
    BY FindingsAsDetected, HitsFinite DEF IInv, Kinds
  <2>2. \A i \in DOMAIN findings : Surviving(findings[i])
    <3> SUFFICES ASSUME NEW i \in DOMAIN findings PROVE Surviving(findings[i])   OBVIOUS
    <3>1. findings[i] \in Findings   BY ElementOfSeq, LenProperties DEF IInv, Kinds
    <3> QED BY <3>1, FindingsAsDetected DEF Surviving
  <2>3. detections' = Score(findings, hits)   BY <1>1 DEF ScoreFindings
  <2>4. \A i \in DOMAIN detections' : detections'[i] \in DetectionRecord
    BY <2>1, <2>2, <2>3, ScoreKeeps
  <2>5. MergeOverlapping(findings) \in Seq(DetectionRecord)   BY <2>1, <2>2, MergeKeeps
  <2>6. DOMAIN detections' = 1..Len(MergeOverlapping(findings))
    BY <2>3, <2>5, LenProperties DEF Score
  <2>7. IsFiniteSet(DOMAIN detections')
    <3> DEFINE a == 1
               b == Len(MergeOverlapping(findings))
    <3>1. a \in Int /\ b \in Int   BY <2>5, LenProperties
    <3>2. DOMAIN detections' = a..b   BY <2>6
    <3> HIDE DEF a, b
    <3> QED BY <3>1, <3>2, FS_Interval
  <2> QED BY <2>4, <2>7
<1>2. CASE DecideActions
  <2>1. detections' = Decide(detections, config.strict, config.criticalAction) /\ config.strict \in BOOLEAN
    BY <1>2, ConfigFields DEF DecideActions, IInv, Kinds
  <2>2. DOMAIN detections' \subseteq DOMAIN detections
        /\ \A i \in DOMAIN detections' : detections'[i] \in DetectionRecord
    BY <1>0, <2>1, DecideKeeps
  <2> QED BY <1>0, <2>2, FS_Subset
<1>3. CASE AttemptPasses \/ LastAttemptFails
  <2>1. PICK ocr : LastTurn(ocr)   BY <1>3, LoopIsLeft
  <2>2. detections' = Flagged(detections, ocr)   BY <2>1 DEF LastTurn
  <2> QED BY <1>0, <2>2, FlaggedSame
<1>4. CASE EscalateAndRetry
  <2>1. PICK ocr : detections' = Retried(detections, ocr)   BY <1>4, LoopGoesOn
  <2> QED BY <1>0, <2>1, RetriedKeeps
<1>5. CASE detections' = detections   BY <1>0, <1>5
<1> QED
  BY <1>1, <1>2, <1>3, <1>4, <1>5
  DEF Next, StartVerification, SkipVerification, NoAttemptAllowed, SanityScan, Withhold,
      SaveImage, WriteReport, AppendAuditLine
LEMMA KindsStep == IInv /\ Next => Kinds'
<1> SUFFICES ASSUME IInv, Next PROVE Kinds'   OBVIOUS
<1>1. IsFiniteSet(DOMAIN detections') /\ \A i \in DOMAIN detections' : detections'[i] \in DetectionRecord
  BY DetectionsStep
<1>2. UNCHANGED <<config, findings, hits>>
  BY DEF Next, ScoreFindings, DecideActions, StartVerification, SkipVerification, AttemptPasses,
         LastAttemptFails, EscalateAndRetry, NoAttemptAllowed, SanityScan, Withhold, SaveImage,
         WriteReport, AppendAuditLine
<1>3. stage' \in Stages /\ attempt' \in Nat /\ scan' \in {"clean", "minor", "critical"}
  BY DEF IInv, Kinds, Stages, Next, ScoreFindings, DecideActions, StartVerification,
         SkipVerification, AttemptPasses, LastAttemptFails, EscalateAndRetry, NoAttemptAllowed,
         SanityScan, Withhold, SaveImage, WriteReport, AppendAuditLine
<1>4. verification' \in Results
  <2>1. /\ verification \in Results /\ attempt \in Nat /\ config.maxRetries \in Int
        /\ NoResult \in Results
    BY ConfigFields DEF IInv, Kinds, NoResult, Results
  <2>2. CASE AttemptPasses \/ LastAttemptFails   BY <2>2, LoopVerdict
  <2>3. CASE SkipVerification   BY <2>1, <2>3 DEF SkipVerification, Results
  <2>4. CASE NoAttemptAllowed   BY <2>1, <2>4 DEF NoAttemptAllowed, Results
  <2>5. CASE SanityScan
    <3>1. verification' = ApplySanityScan(verification, scan') /\ scan' \in {"clean", "minor", "critical"}
      BY <2>5 DEF SanityScan
    <3>2. verification.residual \in Int   BY <2>1 DEF Results
    <3>3. CASE scan' = "clean"   BY <2>1, <3>1, <3>3 DEF ApplySanityScan
    <3>4. CASE scan' = "minor"   BY <2>1, <3>1, <3>4 DEF ApplySanityScan, Results
    <3>5. CASE scan' = "critical"
      <4> DEFINE n == IF verification.residual > 1 THEN verification.residual ELSE 1
      <4>1. n \in Int   BY <3>2
      <4>2. verification' = [verification EXCEPT !.status = "FAILED", !.review = TRUE, !.residual = n]
        BY <3>1, <3>5 DEF ApplySanityScan
      <4> HIDE DEF n
      <4> QED BY <2>1, <4>1, <4>2 DEF Results
    <3> QED BY <3>1, <3>3, <3>4, <3>5
  <2>6. CASE ScoreFindings \/ DecideActions \/ StartVerification \/ EscalateAndRetry \/ Withhold
             \/ SaveImage \/ WriteReport \/ AppendAuditLine
    <3>1. verification' = verification
      BY <2>6 DEF ScoreFindings, DecideActions, StartVerification, EscalateAndRetry, Withhold,
                  SaveImage, WriteReport, AppendAuditLine
    <3> QED BY <2>1, <3>1
  <2> QED BY <2>2, <2>3, <2>4, <2>5, <2>6 DEF Next
<1> QED BY <1>1, <1>2, <1>3, <1>4 DEF IInv, Kinds

LEMMA PaintedStep == IInv /\ Next => Painted'
<1> SUFFICES ASSUME IInv, Next PROVE Painted'   OBVIOUS
<1>1. CASE AttemptPasses \/ LastAttemptFails
  <2>1. PICK ocr : LastTurn(ocr)   BY <1>1, LoopIsLeft
  <2>2. detections' = Flagged(detections, ocr) /\ image' = image /\ image = Masks(detections)
    BY <2>1 DEF LastTurn, IInv, Painted, Before
  <2>3. Masks(detections') = Masks(detections)
    BY <2>2, FlaggedPaintsTheSame DEF IInv, Kinds
  <2> QED BY <2>2, <2>3 DEF Painted, Masks
<1>2. CASE EscalateAndRetry   BY <1>2 DEF EscalateAndRetry, Painted, Masks
<1>3. CASE ScoreFindings \/ DecideActions   BY <1>3 DEF ScoreFindings, DecideActions, Painted, Before
<1>4. CASE StartVerification \/ SkipVerification
  <2>1. image' = Masks(detections) /\ detections' = detections
    BY <1>4 DEF StartVerification, SkipVerification
  <2> QED BY <2>1 DEF Painted, Masks
<1>5. CASE stage \notin Before /\ UNCHANGED <<image, detections>>
  <2>1. image = Masks(detections)   BY <1>5 DEF IInv, Painted
  <2> QED BY <1>5, <2>1 DEF Painted, Masks
<1> QED
  BY <1>1, <1>2, <1>3, <1>4, <1>5
  DEF Next, Before, NoAttemptAllowed, SanityScan, Withhold, SaveImage, WriteReport, AppendAuditLine

LEMMA UntouchedStep == IInv /\ Next => Untouched'
<1> SUFFICES ASSUME IInv, Next PROVE Untouched'   OBVIOUS
<1>1. Untouched /\ config' = config /\ attempt \in Nat /\ config.maxRetries \in Int
  BY ConfigFields DEF IInv, Kinds, Next, ScoreFindings, DecideActions, StartVerification, SkipVerification,
         AttemptPasses, LastAttemptFails, EscalateAndRetry, NoAttemptAllowed, SanityScan, Withhold,
         SaveImage, WriteReport, AppendAuditLine
<1>2. CASE AttemptPasses \/ LastAttemptFails
  BY <1>1, <1>2 DEF AttemptPasses, LastAttemptFails, Untouched, Before
<1>3. CASE EscalateAndRetry   BY <1>1, <1>3 DEF EscalateAndRetry, Untouched, Before
<1>4. CASE StartVerification \/ SkipVerification
  BY <1>1, <1>4 DEF StartVerification, SkipVerification, Untouched, Before
<1>5. CASE ScoreFindings \/ DecideActions
  BY <1>1, <1>5 DEF ScoreFindings, DecideActions, Untouched, Before
<1>6. CASE NoAttemptAllowed \/ SanityScan \/ Withhold \/ SaveImage \/ WriteReport \/ AppendAuditLine
  BY <1>1, <1>6 DEF NoAttemptAllowed, SanityScan, Withhold, SaveImage, WriteReport,
                    AppendAuditLine, Untouched, Before
<1> QED BY <1>2, <1>3, <1>4, <1>5, <1>6 DEF Next

LEMMA CheckedStep == IInv /\ Next => Checked'
<1> SUFFICES ASSUME IInv, Next PROVE Checked'   OBVIOUS
<1>1. CASE AttemptPasses \/ LastAttemptFails
  <2>1. PICK ocr \in [DOMAIN detections -> Outcomes] :
          /\ LastTurn(ocr)
          /\ \/ Residual(detections, ocr) = {} /\ verification'.status = "PASSED"
             \/ /\ verification'.status = "FAILED"
                /\ ~verification'.review => \A i \in Residual(detections, ocr) : detections[i].risk # "CRITICAL"
    BY <1>1, LoopVerdict
  <2>2. /\ detections' = Flagged(detections, ocr) /\ image' = image
        /\ look' = {[image |-> image', ocr |-> ocr]}
    BY <2>1 DEF LastTurn, Looked
  <2>3. /\ DOMAIN detections' = DOMAIN detections
        /\ \A i \in DOMAIN detections : detections'[i].risk = detections[i].risk
    BY <2>2, FlaggedSame DEF IInv, Kinds
  <2>4. Residual(detections', ocr) = Residual(detections, ocr)
    BY <2>2, FlaggedPaintsTheSame DEF IInv, Kinds
  <2>5. Uncleared' = Residual(detections, ocr)
    <3>1. Uncleared' = UNION {Residual(detections', l.ocr) : l \in look'}   BY DEF Uncleared, Residual
    <3>2. Uncleared' = Residual(detections', ocr)   BY <2>2, <3>1
    <3> QED BY <2>4, <3>2
  <2>6. LookedOnce'   BY <2>2, <2>3 DEF LookedOnce
  <2>7. Residual(detections, ocr) \subseteq DOMAIN detections   BY DEF Residual
  <2>8. verification'.status \in {"PASSED", "FAILED"}   BY <2>1
  <2>9. ASSUME verification'.status = "PASSED" PROVE LookedOnce' /\ Uncleared' = {}
    BY <2>1, <2>5, <2>6, <2>9
  <2>10. ASSUME ~verification'.review PROVE \A i \in Uncleared' : detections'[i].risk # "CRITICAL"
    BY <2>1, <2>3, <2>5, <2>7, <2>10
  <2> QED BY <2>8, <2>9, <2>10 DEF Checked
<1>2. CASE EscalateAndRetry \/ StartVerification \/ ScoreFindings \/ DecideActions
  <2>1. verification' = NoResult /\ ~Judged'
    BY <1>2 DEF EscalateAndRetry, StartVerification, ScoreFindings, DecideActions, IInv, Untouched,
                Before, Judged
  <2> QED BY <2>1 DEF Checked, NoResult
<1>3. CASE SkipVerification \/ NoAttemptAllowed
  <2>1. look' = {} /\ verification'.status \in {"SKIPPED", "FAILED"}
    <3>1. CASE SkipVerification   BY <3>1 DEF SkipVerification, NoResult, IInv, Untouched, Before
    <3>2. CASE NoAttemptAllowed   BY <3>2, ConfigFields DEF NoAttemptAllowed, IInv, Untouched, Before, Kinds
    <3> QED BY <1>3, <3>1, <3>2
  <2>2. Uncleared' = {}   BY <2>1 DEF Uncleared
  <2> QED BY <2>1, <2>2 DEF Checked
<1>4. ASSUME UNCHANGED <<detections, look, image>>
      PROVE  Uncleared' = Uncleared /\ LookedOnce' = LookedOnce
  BY <1>4 DEF Uncleared, Residual, LookedOnce
<1>5. CASE SanityScan
  <2>1. /\ Judged /\ Uncleared' = Uncleared /\ LookedOnce' = LookedOnce /\ look' = look
        /\ detections' = detections /\ scan' \in {"clean", "minor", "critical"}
        /\ verification' = ApplySanityScan(verification, scan')
    BY <1>4, <1>5 DEF SanityScan, Judged, Before
  <2>2. /\ verification'.status = verification.status \/ verification'.status = "FAILED"
        /\ ~verification'.review => ~verification.review
    BY <2>1 DEF ApplySanityScan, IInv, Kinds
  <2> QED BY <2>1, <2>2 DEF IInv, Checked
<1>6. CASE Withhold \/ SaveImage \/ WriteReport \/ AppendAuditLine
  <2>1. /\ Judged /\ Uncleared' = Uncleared /\ LookedOnce' = LookedOnce /\ look' = look
        /\ detections' = detections /\ verification' = verification
    BY <1>4, <1>6 DEF Withhold, SaveImage, WriteReport, AppendAuditLine, Judged, Before
  <2> QED BY <2>1 DEF IInv, Checked
<1> QED BY <1>1, <1>2, <1>3, <1>5, <1>6 DEF Next
LEMMA ScannedStep == IInv /\ Next => Scanned'
<1> SUFFICES ASSUME IInv, Next PROVE Scanned'   OBVIOUS
<1>1. CASE SanityScan
  <2>1. scan' \in {"clean", "minor", "critical"} /\ verification' = ApplySanityScan(verification, scan')
    BY <1>1 DEF SanityScan
  <2> QED BY <2>1 DEF ApplySanityScan, Scanned, IInv, Kinds
<1>2. CASE AttemptPasses \/ LastAttemptFails
  <2>1. scan' = "clean"   BY <1>2 DEF AttemptPasses, LastAttemptFails, IInv, Untouched, Before
  <2> QED BY <2>1 DEF Scanned
<1>3. CASE SkipVerification \/ NoAttemptAllowed
  <2>1. scan' = "clean"   BY <1>3 DEF SkipVerification, NoAttemptAllowed, IInv, Untouched, Before
  <2> QED BY <2>1 DEF Scanned
<1>4. CASE UNCHANGED <<scan, verification>>   BY <1>4 DEF Scanned, IInv
<1> QED
  BY <1>1, <1>2, <1>3, <1>4
  DEF Next, ScoreFindings, DecideActions, StartVerification, EscalateAndRetry, Withhold,
      SaveImage, WriteReport, AppendAuditLine

LEMMA FiledStep == IInv /\ Next => Filed'
<1> SUFFICES ASSUME IInv, Next PROVE Filed'   OBVIOUS
<1>1. CASE ScoreFindings \/ DecideActions \/ StartVerification \/ SkipVerification
           \/ AttemptPasses \/ LastAttemptFails \/ EscalateAndRetry \/ NoAttemptAllowed \/ SanityScan
  <2>1. output' = {} /\ report' = {} /\ audited' = {} /\ stage' \in Unfiled
    BY <1>1 DEF ScoreFindings, DecideActions, StartVerification, SkipVerification, AttemptPasses,
                LastAttemptFails, EscalateAndRetry, NoAttemptAllowed, SanityScan, IInv, Filed, Unfiled, Before
  <2> QED BY <2>1 DEF Filed, Unfiled, Before
<1>2. CASE Withhold
  <2>1. output' = {} /\ report' = {} /\ audited' = {} /\ stage' = "blocked"
    BY <1>2 DEF Withhold, IInv, Filed, Unfiled, Before
  <2> QED BY <2>1 DEF Filed, Unfiled, Before
<1>3. CASE SaveImage
  <2>1. output' = {image'} /\ report' = {} /\ audited' = {} /\ stage' = "released" /\ ~Blocked'
    BY <1>3 DEF SaveImage, IInv, Filed, Unfiled, Before, Blocked
  <2> QED BY <2>1 DEF Filed, Unfiled, Before
<1>4. CASE WriteReport
  <2>1. /\ stage \in {"released", "blocked"} /\ stage' = "reported"
        /\ UNCHANGED <<config, detections, image, verification, output, audited>>
        /\ report' = {[masks |-> Masks(detections), verification |-> verification, saved |-> stage = "released"]}
    BY <1>4 DEF WriteReport
  <2>2. image = Masks(detections)   BY <2>1 DEF IInv, Painted, Before
  <2>3. /\ stage = "released" => output = {image}
        /\ stage = "blocked" => output = {}
        /\ output \subseteq {image} /\ audited = {} /\ (output # {} => ~Blocked)
    BY <2>1 DEF IInv, Filed
  <2>4. (stage = "released") = (output # {})   BY <2>1, <2>3
  <2>5. report' = {[masks |-> image, verification |-> verification, saved |-> output # {}]}
    BY <2>1, <2>2, <2>4
  <2>6. /\ output' \subseteq {image'} /\ audited' = {} /\ (output' # {} => ~Blocked')
    BY <2>1, <2>3 DEF Blocked
  <2>7. report' \subseteq {[masks |-> image', verification |-> verification', saved |-> output' # {}]}
    BY <2>1, <2>5
  <2>8. stage' = "reported" /\ report' # {}   BY <2>1
  <2> QED BY <2>6, <2>7, <2>8 DEF Filed, Unfiled, Before
<1>5. CASE AppendAuditLine
  <2>1. /\ stage = "reported" /\ stage' = "done" /\ audited' = {Masks(detections)}
        /\ UNCHANGED <<config, detections, image, verification, output, report>>
    BY <1>5 DEF AppendAuditLine
  <2>2. image = Masks(detections)   BY <2>1 DEF IInv, Painted, Before
  <2>3. report # {}   BY <2>1 DEF IInv, Filed
  <2>4. /\ output \subseteq {image} /\ (output # {} => ~Blocked)
        /\ report \subseteq {[masks |-> image, verification |-> verification, saved |-> output # {}]}
    BY DEF IInv, Filed
  <2> QED BY <2>1, <2>2, <2>3, <2>4 DEF Filed, Unfiled, Before, Blocked
<1> QED BY <1>1, <1>2, <1>3, <1>4, <1>5 DEF Next

LEMMA GuardedStep == IInv /\ Next => Guarded'
<1> SUFFICES ASSUME IInv, Next PROVE Guarded'   OBVIOUS
<1> DEFINE Masked(ds) == \A i \in DOMAIN findings : findings[i].type \in FailSafeTypes =>
                           \E j \in DOMAIN ds : ds[j].type = findings[i].type /\ Safe(ds[j])
<1>0. UNCHANGED findings
  BY DEF Next, ScoreFindings, DecideActions, StartVerification, SkipVerification, AttemptPasses,
         LastAttemptFails, EscalateAndRetry, NoAttemptAllowed, SanityScan, Withhold, SaveImage,
         WriteReport, AppendAuditLine
<1>1. CASE ScoreFindings
  <2>1. findings \in Seq(DetectionRecord) /\ IsFiniteSet(hits)
    BY FindingsAsDetected, HitsFinite DEF IInv, Kinds
  <2>2. \A i \in DOMAIN findings : Surviving(findings[i])
    <3> SUFFICES ASSUME NEW i \in DOMAIN findings PROVE Surviving(findings[i])   OBVIOUS
    <3>1. findings[i] \in Findings   BY ElementOfSeq, LenProperties DEF IInv, Kinds
    <3> QED BY <3>1, FindingsAsDetected DEF Surviving
  <2>3. detections' = Score(findings, hits) /\ stage' = "scored"   BY <1>1 DEF ScoreFindings
  <2>4. /\ \A j \in DOMAIN detections' :
             /\ Surviving(detections'[j])
             /\ detections'[j].type \in IntrinsicCriticalTypes /\ SufficientEvidence(detections'[j])
                  => detections'[j].risk = "CRITICAL"
        /\ \A i \in DOMAIN findings : \E j \in DOMAIN detections' :
             detections'[j].type = findings[i].type
    BY <2>1, <2>2, <2>3, ScoreKeeps
  <2> QED BY <1>0, <2>3, <2>4 DEF Guarded
<1>2. CASE DecideActions
  <2>1. /\ stage = "scored" /\ config.strict \in BOOLEAN
        /\ detections' = Decide(detections, config.strict, config.criticalAction)
        /\ \A j \in DOMAIN detections : detections[j] \in DetectionRecord
    BY <1>2, ConfigFields DEF DecideActions, IInv, Kinds
  <2>2. ASSUME NEW i \in DOMAIN findings, findings[i].type \in FailSafeTypes
        PROVE  \E j \in DOMAIN detections' : detections'[j].type = findings[i].type /\ Safe(detections'[j])
    <3>1. PICK j \in DOMAIN detections : detections[j].type = findings[i].type
      BY <2>1 DEF IInv, Guarded
    <3> DEFINE e == DecideOne(detections[j], config.strict, config.criticalAction)
    <3>2. /\ Surviving(detections[j])
          /\ detections[j].type \in IntrinsicCriticalTypes /\ SufficientEvidence(detections[j])
               => detections[j].risk = "CRITICAL"
      BY <2>1 DEF IInv, Guarded
    <3>3. e.type = findings[i].type /\ Safe(e)   BY <2>1, <2>2, <3>1, <3>2, DecideOneKeeps
    <3>4. e.action # "NONE"   BY <3>3 DEF Safe
    <3>5. j \in DOMAIN detections' /\ detections'[j] = e   BY <2>1, <3>4, DecideKeeps
    <3> QED BY <3>3, <3>5
  <2> QED BY <1>0, <1>2, <2>2 DEF Guarded, DecideActions
<1>3. CASE AttemptPasses \/ LastAttemptFails
  <2>1. PICK ocr : LastTurn(ocr)   BY <1>3, LoopIsLeft
  <2>2. detections' = Flagged(detections, ocr) /\ stage = "verifying" /\ stage' = "verified"
    BY <2>1 DEF LastTurn
  <2>3. /\ DOMAIN detections' = DOMAIN detections
        /\ \A j \in DOMAIN detections : detections'[j].type = detections[j].type
                                        /\ (Safe(detections[j]) => Safe(detections'[j]))
    BY <2>2, FlaggedSame DEF IInv, Kinds, Safe
  <2>4. Masked(detections)   BY <2>2 DEF IInv, Guarded
  <2>5. Masked(detections')   BY <2>3, <2>4
  <2> QED BY <1>0, <2>2, <2>5 DEF Guarded
<1>4. CASE EscalateAndRetry
  <2>1. PICK ocr : detections' = Retried(detections, ocr)   BY <1>4, LoopGoesOn
  <2>2. stage = "verifying" /\ stage' = "verifying"   BY <1>4 DEF EscalateAndRetry
  <2>3. /\ DOMAIN detections' = DOMAIN detections
        /\ \A j \in DOMAIN detections : detections'[j].type = detections[j].type
                                        /\ (Safe(detections[j]) => Safe(detections'[j]))
    BY <2>1, RetriedKeeps DEF IInv, Kinds
  <2>4. Masked(detections)   BY <2>2 DEF IInv, Guarded
  <2>5. Masked(detections')   BY <2>3, <2>4
  <2> QED BY <1>0, <2>2, <2>5 DEF Guarded
<1>5. CASE stage \notin {"detected", "scored"} /\ stage' \notin {"detected", "scored"} /\ UNCHANGED detections
  <2>1. Masked(detections)   BY <1>5 DEF IInv, Guarded
  <2> QED BY <1>0, <1>5, <2>1 DEF Guarded
<1> QED
  BY <1>1, <1>2, <1>3, <1>4, <1>5
  DEF Next, StartVerification, SkipVerification, NoAttemptAllowed, SanityScan, Withhold, SaveImage,
      WriteReport, AppendAuditLine
LEMMA StutterKeeps == IInv /\ UNCHANGED vars => IInv'
<1> SUFFICES ASSUME IInv, UNCHANGED vars PROVE IInv'   OBVIOUS
<1> USE DEF vars
<1>1. Kinds' /\ Painted' /\ Untouched'   BY DEF IInv, Kinds, Painted, Untouched, Masks
<1>2. Checked'   BY DEF IInv, Checked, Judged, LookedOnce, Uncleared, Residual
<1>3. Scanned' /\ Filed'   BY DEF IInv, Scanned, Filed, Blocked
<1>4. Guarded'   BY DEF IInv, Guarded
<1> QED BY <1>1, <1>2, <1>3, <1>4 DEF IInv

LEMMA StepKeeps == IInv /\ [Next]_vars => IInv'
<1>1. IInv /\ Next => IInv'
  BY KindsStep, PaintedStep, UntouchedStep, CheckedStep, ScannedStep, FiledStep, GuardedStep, Zenon DEF IInv
<1> QED BY <1>1, StutterKeeps

LEMMA AlwaysIInv == Spec => []IInv
<1>1. Init => IInv   BY InitHolds
<1>2. IInv /\ [Next]_vars => IInv'   BY StepKeeps
<1> QED BY <1>1, <1>2, PTL DEF Spec

-----------------------------------------------------------------------------
\* Detections keep to their enums, and the verdict is one of the four there are.
THEOREM WellTyped == Spec => []TypeOK
<1>1. IInv => TypeOK
  <2> SUFFICES ASSUME IInv PROVE TypeOK   OBVIOUS
  <2>1. \A i \in DOMAIN detections : detections[i].action \in Actions /\ detections[i].risk \in RiskLevels
    BY DEF IInv, Kinds, DetectionRecord
  <2> QED BY <2>1, ConfigFields DEF IInv, Kinds, Results, TypeOK
<1> QED BY <1>1, AlwaysIInv, PTL

\* The report and the audit line describe the image that was saved, whatever
\* verification escalated on the way.
THEOREM ReportTellsTheImage == Spec => []ReportMatchesImage
<1>1. IInv => ReportMatchesImage
  <2> SUFFICES ASSUME IInv PROVE ReportMatchesImage   OBVIOUS
  <2>1. stage \notin {"detected", "scored", "decided"} => image = Masks(detections)
    BY DEF IInv, Painted, Before
  <2>2. \A r \in report : r.masks = image /\ (r.saved <=> output # {}) /\ output \subseteq {r.masks}
    <3> DEFINE saved == output # {}
    <3>1. /\ report \subseteq {[masks |-> image, verification |-> verification, saved |-> saved]}
          /\ output \subseteq {image}
      BY DEF IInv, Filed
    <3>2. saved \in BOOLEAN /\ (saved <=> output # {})   OBVIOUS
    <3> HIDE DEF saved
    <3> QED BY <3>1, <3>2
  <2>3. audited \subseteq {r.masks : r \in report}
    <3>1. CASE stage = "done"
      <4>1. PICK r : r \in report   BY <3>1 DEF IInv, Filed
      <4>2. audited = {image} /\ r.masks = image   BY <2>2, <3>1, <4>1 DEF IInv, Filed
      <4> QED BY <4>1, <4>2
    <3>2. CASE stage # "done"   BY <3>2 DEF IInv, Filed
    <3> QED BY <3>1, <3>2
  <2> QED BY <2>1, <2>2, <2>3 DEF ReportMatchesImage
<1> QED BY <1>1, AlwaysIInv, PTL

\* A PASSED verdict is about the very masks that are released: the last look was at
\* them, read no detection and left no CRITICAL one in doubt.
THEOREM PassedIsClean == Spec => []PassedMeansClean
<1>1. IInv => PassedMeansClean
  <2> SUFFICES ASSUME IInv, verification.status = "PASSED" PROVE PassedMeansClean
    BY DEF PassedMeansClean
  <2>1. scan # "critical"   BY DEF IInv, Scanned
  <2>2. PICK ocr \in [DOMAIN detections -> Outcomes] : look = {[image |-> image, ocr |-> ocr]}
    BY DEF IInv, Checked, LookedOnce
  <2>3. Residual(detections, ocr) = {}
    <3>1. Residual(detections, ocr) \subseteq Uncleared   BY <2>2 DEF Uncleared
    <3> QED BY <3>1 DEF IInv, Checked
  <2> DEFINE l == [image |-> image, ocr |-> ocr]
  <2>4. l \in look /\ l.image = image   BY <2>2
  <2>5. ASSUME NEW i \in DOMAIN detections, detections[i].legible
        PROVE  l.ocr[i] # "FOUND" /\ (detections[i].risk = "CRITICAL" => l.ocr[i] = "CLEAN")
    <3>1. ocr[i] \in Outcomes   OBVIOUS
    <3>2. i \notin Residual(detections, ocr)   BY <2>3
    <3> QED BY <2>5, <3>1, <3>2 DEF Residual, Outcomes
  <2> HIDE DEF l
  <2> QED BY <2>1, <2>4, <2>5 DEF PassedMeansClean
<1> QED BY <1>1, AlwaysIInv, PTL

\* Strict Mode writes no image in which an engine that ran, or the whole-image scan,
\* still read a critical value.
THEOREM StrictKeepsBack == Spec => []StrictWithholds
<1>1. IInv => StrictWithholds
  <2> SUFFICES ASSUME IInv, config.strict, output # {} PROVE scan # "critical" /\ Uncleared = {}
    BY DEF StrictWithholds
  <2>1. verification.status # "FAILED"   BY DEF IInv, Filed, Blocked
  <2>2. scan # "critical"   BY <2>1 DEF IInv, Scanned
  <2>3. verification.status \in {"PASSED", "SKIPPED"}
    <3>1. stage \notin Unfiled \/ stage = "done"   BY DEF IInv, Filed
    <3>2. Judged   BY <3>1 DEF Judged, Unfiled, Before
    <3> QED BY <2>1, <3>2 DEF IInv, Kinds, Results, Checked
  <2>4. Uncleared = {}
    <3>1. CASE verification.status = "PASSED"    BY <3>1 DEF IInv, Checked
    <3>2. CASE verification.status = "SKIPPED"   BY <3>2 DEF IInv, Checked, Uncleared
    <3> QED BY <2>3, <3>1, <3>2
  <2> QED BY <2>2, <2>4
<1> QED BY <1>1, AlwaysIInv, PTL

\* Through merge, score, policy and every escalation, a finding of a type that must
\* never be skipped has a masked detection of its type.
THEOREM FailSafeStaysMasked == Spec => []FailSafeFindingsMasked
<1>1. IInv => FailSafeFindingsMasked   BY DEF IInv, Guarded, Safe, FailSafeFindingsMasked
<1> QED BY <1>1, AlwaysIInv, PTL

\* What the scan saw, or the last look still read of CRITICAL data, is reported as in
\* need of review.
THEOREM LeftoversAreReviewed == Spec => []LeftoversReachAHuman
<1>1. IInv => LeftoversReachAHuman
  <2> SUFFICES ASSUME IInv, NEW r \in report,
                      scan # "clean" \/ \E i \in Uncleared : detections[i].risk = "CRITICAL"
               PROVE  r.verification.review
    BY DEF LeftoversReachAHuman
  <2>1. r.verification = verification   BY DEF IInv, Filed
  <2>2. Judged   BY DEF IInv, Filed, Unfiled, Before, Judged
  <2>3. verification.review   BY <2>2 DEF IInv, Checked, Scanned
  <2> QED BY <2>1, <2>3
<1> QED BY <1>1, AlwaysIInv, PTL

\* A retry never uncovers anything: every mask of the next image is as strong and
\* covers what it covered.
THEOREM RetriesOnlyStrengthen == Spec => MasksOnlyStrengthen
<1> DEFINE Grows == \A i \in DOMAIN image :
                     /\ i \in DOMAIN image'
                     /\ Strength(image'[i].action) >= Strength(image[i].action)
                     /\ Covers(image'[i].box, image[i].box)
<1>1. ASSUME IInv, [Next]_vars, stage = "verifying", image' # image PROVE Grows
  <2>1. EscalateAndRetry
    BY <1>1 DEF Next, vars, ScoreFindings, DecideActions, StartVerification, SkipVerification,
                AttemptPasses, LastAttemptFails, NoAttemptAllowed, SanityScan, Withhold, SaveImage,
                WriteReport, AppendAuditLine
  <2>2. PICK ocr : detections' = Retried(detections, ocr)   BY <2>1, LoopGoesOn
  <2>3. image = Masks(detections)    BY <1>1 DEF IInv, Painted, Before
  <2>4. image' = Masks(detections')   BY <2>1 DEF EscalateAndRetry
  <2>5. /\ DOMAIN detections' = DOMAIN detections
        /\ \A i \in DOMAIN detections :
             /\ Strength(detections'[i].action) >= Strength(detections[i].action)
             /\ Covers(detections'[i].box, detections[i].box)
    BY <1>1, <2>2, RetriedKeeps DEF IInv, Kinds
  <2>6. /\ DOMAIN image = DOMAIN detections /\ DOMAIN image' = DOMAIN detections
        /\ \A i \in DOMAIN detections :
             /\ image[i].action = detections[i].action /\ image[i].box = detections[i].box
             /\ image'[i].action = detections'[i].action /\ image'[i].box = detections'[i].box
    BY <2>3, <2>4, <2>5 DEF Masks
  <2> QED BY <2>5, <2>6
<1>2. IInv /\ [Next]_vars => [stage = "verifying" => Grows]_image   BY <1>1
<1> QED BY <1>2, AlwaysIInv, PTL DEF Spec, MasksOnlyStrengthen
=============================================================================
