-------------------------- MODULE ReviewFlowProofs --------------------------
(***************************************************************************)
(* Proofs about the image endpoints, for any requests, callers, images,    *)
(* submissions and limit on jobs.                                          *)
(*                                                                         *)
(* The first part is about the analysis alone: what the detectors find on  *)
(* any image and what of it is redacted in the end, whatever else they     *)
(* found.  A finding is safe from the merge if nothing that could be       *)
(* merged with it is surer of another place (Surest).  What a pattern      *)
(* matched always is: its matches are apart from each other, and every     *)
(* other layer is less sure.  What a label promises is, but for a          *)
(* pattern's finding of its type; a guess that was kept is.  Merging keeps *)
(* the box of what is surest (MergedFrom is the invariant of its loop),    *)
(* and scoring and policy redact what weighs enough (Weighs).              *)
(*                                                                         *)
(* The second part is about the requests.  The invariant (IInv) follows a  *)
(* request from its slot to its answer (Local): what its thread may have   *)
(* made (Made), and that an answer hands out only that (Sent); and a token *)
(* to the one review that spends it (Spending).                            *)
(*                                                                         *)
(* The last part shows that the endpoints implement two abstract           *)
(* specifications, a pool of slots and a redeemable token, by what a step  *)
(* may do to one request's thread and to the tokens (OneStep).             *)
(***************************************************************************)
EXTENDS ReviewFlow, FiniteSetTheorems, SequenceTheorems, TLAPS

-----------------------------------------------------------------------------
(***************************************************************************)
(* Numbers, and what is built place by place.                              *)
(***************************************************************************)
LEMMA LeastNat ==
  ASSUME NEW T, T \subseteq Nat, T # {}
  PROVE  \E x \in T : \A y \in T : x <= y
<1> DEFINE Smaller == {p \in Nat \X Nat : p[1] < p[2]}
<1>1. OpToRel(<, Nat) = Smaller   BY Zenon DEF OpToRel
<1>2. IsWellFoundedOn(Smaller, Nat)   BY <1>1, NatLessThanWellFounded
<1>3. PICK x \in T : \A y \in T : ~ (<<y, x>> \in Smaller)   BY <1>2, WFMin
<1>4. \A y \in T : x <= y
  <2> SUFFICES ASSUME NEW y \in T PROVE x <= y   OBVIOUS
  <2>1. x \in Nat /\ y \in Nat   OBVIOUS
  <2>2. ~(y < x)   BY <1>3, <2>1
  <2> QED BY <2>1, <2>2
<1> QED BY <1>4

\* The last of some places is one of them.
LEMMA LastPlace ==
  ASSUME NEW n \in Nat, NEW S, S \subseteq 0..n, S # {}
  PROVE  Max(S) \in S /\ \A y \in S : y <= Max(S)
<1> DEFINE T == {m \in Nat : \A y \in S : y <= m}
<1>1. n \in T   OBVIOUS
<1>2. PICK m \in T : \A k \in T : m <= k   BY <1>1, LeastNat
<1>3. m \in S
  <2> SUFFICES ASSUME m \notin S PROVE FALSE   OBVIOUS
  <2>1. \A y \in S : y \in Nat /\ y >= 0 /\ y <= m /\ y # m   BY <1>2
  <2>2. PICK y \in S : TRUE   OBVIOUS
  <2>3. m \in Nat /\ m # 0 /\ m - 1 \in Nat   BY <1>2, <2>1, <2>2
  <2>4. m - 1 \in T   BY <2>1, <2>3
  <2> QED BY <1>2, <2>3, <2>4
<1>4. \E x \in S : \A y \in S : x >= y
  <2>1. \A y \in S : m >= y   BY <1>2, <1>3
  <2> QED BY <1>3, <2>1
<1>5. Max(S) \in S /\ \A y \in S : Max(S) >= y   BY <1>4 DEF Max
<1> QED BY <1>5

\* The first of some places is one of them.
LEMMA FirstPlace ==
  ASSUME NEW S, S \subseteq Nat, S # {}
  PROVE  Min(S) \in S /\ \A y \in S : Min(S) <= y
<1>1. \E x \in S : \A y \in S : x <= y   BY LeastNat
<1> QED BY <1>1 DEF Min

\* T are the numbers a claim holds of.
LEMMA UpToPlace ==
  ASSUME NEW m \in Nat, NEW T, 0 \in T, \A n \in 1..m : n - 1 \in T => n \in T
  PROVE  \A n \in 0..m : n \in T
<1> DEFINE Bad == {n \in 0..m : n \notin T}
<1> SUFFICES ASSUME Bad # {} PROVE FALSE   OBVIOUS
<1>0. Bad \subseteq Nat   OBVIOUS
<1>1. PICK n \in Bad : \A k \in Bad : n <= k   BY <1>0, LeastNat
<1>2. n \in 1..m /\ n - 1 \in 0..m /\ n - 1 \notin Bad   BY <1>1
<1> QED BY <1>1, <1>2

\* What is built place by place, of values in U.
Built(f, m, base, step) ==
  f = [n \in 0..m |-> IF n = 0 THEN base ELSE step[<<n, f[n - 1]>>]]

LEMMA BuiltUpTo ==
  ASSUME NEW U, NEW base \in U, NEW m \in Nat, NEW step \in [(1..m) \X U -> U]
  PROVE  \E f \in [0..m -> U] : Built(f, m, base, step)
<1> DEFINE T == {k \in Nat : \E f \in [0..k -> U] : Built(f, k, base, step)}
<1>1. 0 \in T
  <2>1. [n \in 0..0 |-> base] \in [0..0 -> U]   OBVIOUS
  <2>2. Built([n \in 0..0 |-> base], 0, base, step)   BY DEF Built
  <2> QED BY <2>1, <2>2
<1>2. ASSUME NEW k \in 1..m, k - 1 \in T PROVE k \in T
  <2>1. PICK f \in [0..(k - 1) -> U] : Built(f, k - 1, base, step)   BY <1>2
  <2> DEFINE g == [n \in 0..k |-> IF n = k THEN step[<<k, f[k - 1]>>] ELSE f[n]]
  <2>2. k \in Nat /\ k - 1 \in 0..(k - 1) /\ k # 0   OBVIOUS
  <2>3. step[<<k, f[k - 1]>>] \in U   BY <2>2
  <2>4. \A n \in 0..k : n # k => n \in 0..(k - 1)   BY <2>2
  <2>5. g \in [0..k -> U]   BY <2>3, <2>4
  <2>6. \A n \in 0..(k - 1) : f[n] = IF n = 0 THEN base ELSE step[<<n, f[n - 1]>>]   BY <2>1 DEF Built
  <2>7. ASSUME NEW n \in 0..k PROVE g[n] = IF n = 0 THEN base ELSE step[<<n, g[n - 1]>>]
    <3>1. n - 1 # k /\ (n # 0 => g[n - 1] = f[n - 1])   BY <2>2
    <3>2. CASE n = k   BY <2>2, <3>1, <3>2
    <3>3. CASE n # k   BY <2>4, <2>6, <3>1, <3>3
    <3> QED BY <3>2, <3>3
  <2>8. Built(g, k, base, step)   BY <2>5, <2>7 DEF Built
  <2> QED BY <2>2, <2>5, <2>8
<1> HIDE DEF T
<1>3. m \in T   BY <1>1, <1>2, UpToPlace
<1> QED BY <1>3 DEF T

-----------------------------------------------------------------------------
LEMMA MembersOfConcat ==
  ASSUME NEW X, NEW s \in Seq(X), NEW t \in Seq(X)
  PROVE  s \o t \in Seq(X) /\ ToSet(s \o t) = ToSet(s) \cup ToSet(t)
<1>1. /\ s \o t \in Seq(X) /\ Len(s \o t) = Len(s) + Len(t)
      /\ \A i \in 1..Len(s) + Len(t) : (s \o t)[i] = IF i <= Len(s) THEN s[i] ELSE t[i - Len(s)]
  BY ConcatProperties
<1>2. /\ DOMAIN s = 1..Len(s) /\ DOMAIN t = 1..Len(t) /\ Len(s) \in Nat /\ Len(t) \in Nat
  BY LenProperties
<1>3. DOMAIN (s \o t) = 1..(Len(s) + Len(t))   BY <1>1, LenProperties
<1> DEFINE u == s \o t
<1>4. DOMAIN u = 1..(Len(s) + Len(t)) /\ \A i \in DOMAIN u : u[i] = IF i <= Len(s) THEN s[i] ELSE t[i - Len(s)]
  BY <1>1, <1>3
<1> HIDE DEF u
<1>5. ToSet(u) \subseteq ToSet(s) \cup ToSet(t)
  <2>1. \A i \in DOMAIN u : ~(i <= Len(s)) => i - Len(s) \in DOMAIN t   BY <1>2, <1>4
  <2>2. \A i \in DOMAIN u : i <= Len(s) => i \in DOMAIN s   BY <1>2, <1>4
  <2> QED BY <1>4, <2>1, <2>2 DEF ToSet
<1>6. ToSet(s) \subseteq ToSet(u)
  <2>1. \A i \in DOMAIN s : i \in DOMAIN u /\ u[i] = s[i]   BY <1>2, <1>4
  <2> QED BY <2>1 DEF ToSet
<1>7. ToSet(t) \subseteq ToSet(u)
  <2>1. \A i \in DOMAIN t : i + Len(s) \in DOMAIN u /\ u[i + Len(s)] = t[i]   BY <1>2, <1>4
  <2> QED BY <2>1 DEF ToSet
<1> QED BY <1>1, <1>5, <1>6, <1>7 DEF u

LEMMA MembersOfFour ==
  ASSUME NEW X, NEW a \in Seq(X), NEW b \in Seq(X), NEW c \in Seq(X), NEW e \in Seq(X)
  PROVE  /\ a \o b \o c \o e \in Seq(X)
         /\ ToSet(a \o b \o c \o e) = ToSet(a) \cup ToSet(b) \cup ToSet(c) \cup ToSet(e)
<1>1. PICK ab : ab = a \o b   OBVIOUS
<1>2. ab \in Seq(X) /\ ToSet(ab) = ToSet(a) \cup ToSet(b)   BY <1>1, MembersOfConcat
<1>3. PICK abc : abc = ab \o c   OBVIOUS
<1>4. abc \in Seq(X) /\ ToSet(abc) = ToSet(ab) \cup ToSet(c)   BY <1>2, <1>3, MembersOfConcat
<1>5. PICK all : all = abc \o e   OBVIOUS
<1>6. all \in Seq(X) /\ ToSet(all) = ToSet(abc) \cup ToSet(e)   BY <1>4, <1>5, MembersOfConcat
<1>7. all = a \o b \o c \o e   BY <1>1, <1>3, <1>5
<1>8. ToSet(all) = ToSet(a) \cup ToSet(b) \cup ToSet(c) \cup ToSet(e)   BY <1>2, <1>4, <1>6
<1> QED BY <1>6, <1>7, <1>8

LEMMA MembersOfAppend ==
  ASSUME NEW X, NEW s \in Seq(X), NEW x \in X
  PROVE  Append(s, x) \in Seq(X) /\ ToSet(Append(s, x)) = ToSet(s) \cup {x}
<1>1. Append(s, x) = s \o <<x>>   BY AppendIsConcat
<1>2. <<x>> \in Seq(X) /\ ToSet(<<x>>) = {x}   BY DEF ToSet
<1>3. s \o <<x>> \in Seq(X) /\ ToSet(s \o <<x>>) = ToSet(s) \cup ToSet(<<x>>)
  BY <1>2, MembersOfConcat, ZenonT(40)
<1> QED BY <1>1, <1>2, <1>3

LEMMA NoMembers ==
  ASSUME NEW X
  PROVE  <<>> \in Seq(X) /\ ToSet(<<>>) = {}
BY EmptySeq DEF ToSet

\* InOrder lists the places of a set.
LEMMA InOrderLists ==
  ASSUME NEW n \in Nat, NEW S, S \subseteq 1..n
  PROVE  InOrder(S) \in Seq(S) /\ ToSet(InOrder(S)) = S
<1> DEFINE last == Max(S \cup {0})
<1>1. last \in Nat /\ \A k \in S : k \in 1..last
  <2>1. S \cup {0} \subseteq 0..n /\ S \cup {0} # {}   OBVIOUS
  <2>2. last \in S \cup {0} /\ \A k \in S \cup {0} : k <= last   BY <2>1, LastPlace
  <2> HIDE DEF last
  <2>3. last \in Nat /\ \A k \in S : k <= last   BY <2>1, <2>2
  <2>4. \A k \in S : k \in Nat /\ k >= 1   OBVIOUS
  <2> QED BY <2>3, <2>4
<1> HIDE DEF last
<1> DEFINE More(k, s) == IF k \in S THEN Append(s, k) ELSE s
           Lists(f) == f = [k \in 0..last |-> IF k = 0 THEN <<>> ELSE More(k, f[k - 1])]
           step == [p \in (1..last) \X Seq(S) |-> More(p[1], p[2])]
<1>2. \E f : Lists(f)
  <2>1. <<>> \in Seq(S)   BY EmptySeq
  <2>2. \A k \in 1..last, s \in Seq(S) : More(k, s) \in Seq(S)   BY AppendProperties
  <2>3. step \in [(1..last) \X Seq(S) -> Seq(S)]   BY <2>2
  <2>4. PICK f \in [0..last -> Seq(S)] : Built(f, last, <<>>, step)   BY <1>1, <2>1, <2>3, BuiltUpTo
  <2>5. \A k \in 0..last : k # 0 => f[k - 1] \in Seq(S) /\ step[<<k, f[k - 1]>>] = More(k, f[k - 1])
    <3> SUFFICES ASSUME NEW k \in 0..last, k # 0
                 PROVE  f[k - 1] \in Seq(S) /\ step[<<k, f[k - 1]>>] = More(k, f[k - 1])
      OBVIOUS
    <3>1. k - 1 \in 0..last /\ k \in 1..last   BY <1>1
    <3> QED BY <2>4, <3>1
  <2> HIDE DEF step, More
  <2>6. Lists(f)   BY <2>4, <2>5, SMTT(40) DEF Built
  <2> QED BY <2>6
<1> DEFINE f == CHOOSE g : Lists(g)
<1>3. Lists(f)   BY <1>2
<1>4. InOrder(S) = f[last]   BY DEF InOrder, last
<1> HIDE DEF f
<1>10. \A k \in 0..last : f[k] = IF k = 0 THEN <<>> ELSE More(k, f[k - 1])   BY <1>3
<1> HIDE DEF Lists
<1> DEFINE T == {k \in Nat : k <= last => f[k] \in Seq(S) /\ ToSet(f[k]) = S \cap 1..k}
<1>5. 0 \in T
  <2>1. f[0] = <<>>   BY <1>1, <1>10
  <2>2. S \cap 1..0 = {}   OBVIOUS
  <2> QED BY <2>1, <2>2, NoMembers
<1>6. ASSUME NEW k \in 1..last, k - 1 \in T PROVE k \in T
  <2>1. f[k] = More(k, f[k - 1]) /\ k \in Nat
    <3>1. k \in 0..last /\ k # 0   BY <1>1
    <3> HIDE DEF More
    <3> QED BY <1>10, <3>1
  <2>2. f[k - 1] \in Seq(S) /\ ToSet(f[k - 1]) = S \cap 1..(k - 1)   BY <1>1, <1>6
  <2>3. CASE k \in S
    <3>1. f[k] = Append(f[k - 1], k)   BY <2>1, <2>3
    <3>2. f[k] \in Seq(S) /\ ToSet(f[k]) = ToSet(f[k - 1]) \cup {k}   BY <2>2, <2>3, <3>1, MembersOfAppend
    <3>3. S \cap 1..k = (S \cap 1..(k - 1)) \cup {k}   BY <2>1, <2>3
    <3> QED BY <2>1, <2>2, <3>2, <3>3
  <2>4. CASE k \notin S
    <3>1. S \cap 1..k = S \cap 1..(k - 1)   BY <2>1, <2>4
    <3> QED BY <2>1, <2>2, <2>4, <3>1
  <2> QED BY <2>3, <2>4
<1> HIDE DEF T
<1>7. last \in T   BY <1>1, <1>5, <1>6, UpToPlace
<1>8. f[last] \in Seq(S) /\ ToSet(f[last]) = S \cap 1..last   BY <1>1, <1>7 DEF T
<1>9. S \cap 1..last = S   BY <1>1
<1> QED BY <1>4, <1>8, <1>9

ImageOf(F, S) == {F[i] : i \in S}

\* The list of what a function says of the places of a set.
LEMMA Listed ==
  ASSUME NEW n \in Nat, NEW S, S \subseteq 1..n, NEW X, NEW F, \A i \in S : F[i] \in X
  PROVE  Those(F, S) \in Seq(X) /\ ToSet(Those(F, S)) = ImageOf(F, S)
<1> DEFINE at == InOrder(S)
           list == Those(F, S)
<1>1. at \in Seq(S) /\ ToSet(at) = S   BY InOrderLists
<1>2. list = [k \in DOMAIN at |-> F[at[k]]]   BY DEF Those
<1> HIDE DEF at, list
<1>3. Len(at) \in Nat /\ DOMAIN at = 1..Len(at) /\ \A k \in DOMAIN at : at[k] \in S
  BY <1>1, LenProperties, ElementOfSeq
<1>4. list \in [1..Len(at) -> X]   BY <1>2, <1>3
<1>5. list \in Seq(X)   BY <1>3, <1>4, SeqDef
<1>6. {at[k] : k \in DOMAIN at} = S   BY <1>1 DEF ToSet
<1>7. ToSet(list) = ImageOf(F, S)   BY <1>2, <1>3, <1>6 DEF ToSet, ImageOf
<1> QED BY <1>5, <1>7 DEF list

\* A list of lists becomes one list of all their members.
LEMMA Flattened ==
  ASSUME NEW X, NEW lists \in Seq(Seq(X))
  PROVE  FlattenSeq(lists) \in Seq(X) /\ ToSet(FlattenSeq(lists)) = UNION {ToSet(lists[l]) : l \in DOMAIN lists}
<1> DEFINE n == Len(lists)
<1>1. n \in Nat /\ DOMAIN lists = 1..n /\ \A l \in 1..n : lists[l] \in Seq(X)
  BY LenProperties, ElementOfSeq
<1> HIDE DEF n
<1>2. CASE n = 0
  <2>1. FlattenSeq(lists) = lists   BY <1>2 DEF FlattenSeq, n
  <2>2. DOMAIN lists = {}   BY <1>1, <1>2
  <2>3. lists = <<>>   BY <1>2, EmptySeq DEF n
  <2>4. UNION {ToSet(lists[l]) : l \in DOMAIN lists} = {}   BY <2>2
  <2> QED BY <2>1, <2>3, <2>4, NoMembers
<1>3. CASE n # 0
  <2> DEFINE Joins(f) == f = [i \in 1..n |-> IF i = 1 THEN lists[i] ELSE f[i - 1] \o lists[i]]
             step == [p \in (1..n) \X Seq(X) |-> IF p[1] = 1 THEN lists[1] ELSE p[2] \o lists[p[1]]]
  <2>1. \E f : Joins(f)
    <3>1. <<>> \in Seq(X)   BY EmptySeq
    <3>2. step \in [(1..n) \X Seq(X) -> Seq(X)]
      <4>1. \A i \in 1..n, s \in Seq(X) : s \o lists[i] \in Seq(X)   BY <1>1, ConcatProperties
      <4> QED BY <1>1, <4>1
    <3>3. PICK f \in [0..n -> Seq(X)] : Built(f, n, <<>>, step)   BY <1>1, <3>1, <3>2, BuiltUpTo
    <3> DEFINE g == [i \in 1..n |-> f[i]]
    <3>4. ASSUME NEW i \in 1..n PROVE g[i] = IF i = 1 THEN lists[i] ELSE g[i - 1] \o lists[i]
      <4>1. i \in 0..n /\ i # 0 /\ i - 1 \in 0..n /\ (i # 1 => i - 1 \in 1..n)   BY <1>1
      <4>2. f[i - 1] \in Seq(X) /\ f[i] = step[<<i, f[i - 1]>>]   BY <3>3, <4>1 DEF Built
      <4>3. f[i] = IF i = 1 THEN lists[1] ELSE f[i - 1] \o lists[i]   BY <4>1, <4>2
      <4> QED BY <4>1, <4>3
    <3>5. Joins(g)   BY <3>4, SMTT(40)
    <3> QED BY <3>5
  <2> DEFINE f == CHOOSE g : Joins(g)
  <2>2. Joins(f)   BY <2>1
  <2>3. FlattenSeq(lists) = f[n]   BY <1>3 DEF FlattenSeq, n
  <2> HIDE DEF f
  <2> DEFINE Upto(k) == UNION {ToSet(lists[l]) : l \in 1..k}
             T == {k \in Nat : k \in 1..n => f[k] \in Seq(X) /\ ToSet(f[k]) = Upto(k)}
  <2>4. 0 \in T   OBVIOUS
  <2>5. ASSUME NEW k \in 1..n, k - 1 \in T PROVE k \in T
    <3>1. lists[k] \in Seq(X)   BY <1>1
    <3>2. CASE k = 1
      <4>1. f[k] = lists[1]   BY <2>2, <3>2
      <4>2. Upto(1) = ToSet(lists[1])
        <5>1. 1..1 = {1}   OBVIOUS
        <5> QED BY <5>1
      <4> QED BY <3>1, <3>2, <4>1, <4>2
    <3>3. CASE k # 1
      <4>1. k - 1 \in 1..n /\ f[k - 1] \in Seq(X) /\ ToSet(f[k - 1]) = Upto(k - 1)   BY <1>1, <2>5, <3>3
      <4>2. f[k] = f[k - 1] \o lists[k]   BY <2>2, <3>3
      <4>3. f[k] \in Seq(X) /\ ToSet(f[k]) = ToSet(f[k - 1]) \cup ToSet(lists[k])
        BY <3>1, <4>1, <4>2, MembersOfConcat
      <4>4. Upto(k) = Upto(k - 1) \cup ToSet(lists[k])
        <5>1. 1..k = (1..(k - 1)) \cup {k}   BY <1>1
        <5> QED BY <5>1
      <4> HIDE DEF Upto
      <4>5. k \in Nat   BY <1>1
      <4> QED BY <4>1, <4>3, <4>4, <4>5
    <3> QED BY <3>2, <3>3
  <2> HIDE DEF T
  <2>6. n \in T
    <3>1. n \in Nat /\ n \in 0..n   BY <1>1
    <3>2. \A k \in 1..n : k - 1 \in T => k \in T   BY <2>5
    <3>3. \A k \in 0..n : k \in T   BY ONLY <2>4, <3>1, <3>2, UpToPlace
    <3> QED BY <3>1, <3>3
  <2>7. f[n] \in Seq(X) /\ ToSet(f[n]) = Upto(n)   BY <1>1, <1>3, <2>6 DEF T
  <2> QED BY <1>1, <2>3, <2>7
<1> QED BY <1>2, <1>3
-----------------------------------------------------------------------------
(***************************************************************************)
(* What a pattern matches.                                                 *)
(***************************************************************************)
\* starts are where the matches among the first m tokens start.
AreStarts(starts, ends, m) ==
  /\ starts \subseteq {i \in DOMAIN ends : ends[i] > 0 /\ i <= m}
  /\ \A i \in DOMAIN ends : ends[i] > 0 /\ i <= m =>
       (i \in starts <=> ~\E j \in starts : j < i /\ i <= ends[j])

LEMMA StartsExist ==
  ASSUME NEW n \in Nat, NEW ends \in [1..n -> Nat], NEW m \in Nat
  PROVE  \E starts : AreStarts(starts, ends, m)
<1> DEFINE T == {k \in Nat : \E starts : AreStarts(starts, ends, k)}
<1>1. 0 \in T
  <2>1. AreStarts({}, ends, 0)   BY DEF AreStarts
  <2> QED BY <2>1
<1>2. ASSUME NEW k \in 1..m, k - 1 \in T PROVE k \in T
  <2>1. PICK old : AreStarts(old, ends, k - 1)   BY <1>2
  <2>2. k \in Nat /\ \A i \in 1..n : i <= k <=> (i <= k - 1 \/ i = k)   OBVIOUS
  <2>3. /\ old \subseteq 1..n /\ \A i \in old : ends[i] > 0 /\ i <= k - 1 /\ i \in Nat /\ i < k /\ i # k
        /\ \A i \in 1..n : ends[i] > 0 /\ i <= k - 1 => (i \in old <=> ~\E j \in old : j < i /\ i <= ends[j])
    BY <2>1, <2>2 DEF AreStarts
  <2> DEFINE Taken(i) == \E j \in old : j < i /\ i <= ends[j]
             new == IF k \in 1..n /\ ends[k] > 0 /\ ~Taken(k) THEN old \cup {k} ELSE old
  <2>4. ASSUME NEW i \in 1..n, ends[i] > 0, i <= k
        PROVE  i \in new <=> ~\E j \in new : j < i /\ i <= ends[j]
    <3>1. (\E j \in new : j < i /\ i <= ends[j]) <=> Taken(i)
      <4>1. ~(k < i)   BY <2>2, <2>4
      <4> QED BY <4>1
    <3>2. i \in new <=> ~Taken(i)
      <4>1. CASE i = k   BY <2>3, <2>4, <4>1
      <4>2. CASE i # k
        <5>1. i <= k - 1   BY <2>2, <2>4, <4>2
        <5> QED BY <2>3, <2>4, <4>2, <5>1
      <4> QED BY <4>1, <4>2
    <3> QED BY <3>1, <3>2
  <2>5. new \subseteq {i \in 1..n : ends[i] > 0 /\ i <= k}   BY <2>2, <2>3
  <2> HIDE DEF new
  <2>6. AreStarts(new, ends, k)   BY <2>4, <2>5 DEF AreStarts
  <2> QED BY <2>2, <2>6
<1> HIDE DEF T
<1>3. \A k \in 1..m : k - 1 \in T => k \in T   BY <1>2
<1>4. m \in Nat /\ m \in 0..m   OBVIOUS
<1>5. m \in T   BY ONLY <1>1, <1>3, <1>4, UpToPlace
<1> QED BY <1>5 DEF T

\* A match starts where one could, unless an earlier match has taken the place.
LEMMA MatchStarts ==
  ASSUME NEW n \in Nat, NEW ends \in [1..n -> Nat]
  PROVE  /\ FindIter(ends) \subseteq {i \in 1..n : ends[i] > 0}
         /\ \A i \in 1..n : ends[i] > 0 =>
              (i \in FindIter(ends) <=> ~\E j \in FindIter(ends) : j < i /\ i <= ends[j])
<1> DEFINE S == {i \in DOMAIN ends : ends[i] > 0}
           Good(starts) == \A i \in S : i \in starts <=> ~\E j \in starts : j < i /\ i <= ends[j]
<1>1. S = {i \in 1..n : ends[i] > 0}   OBVIOUS
<1>2. \E starts \in SUBSET S : Good(starts)
  <2>1. PICK starts : AreStarts(starts, ends, n)   BY StartsExist
  <2>2. \A i \in 1..n : i <= n   OBVIOUS
  <2> QED BY <2>1, <2>2 DEF AreStarts
<1>3. FindIter(ends) = CHOOSE starts \in SUBSET S : Good(starts)   BY DEF FindIter
<1> HIDE DEF Good, S
<1>4. FindIter(ends) \in SUBSET S /\ Good(FindIter(ends))   BY <1>2, <1>3
<1> QED BY <1>1, <1>4 DEF Good

\* What a detector finds has the fields it is given.
Says(d, type, conf, l, a, b, layer, unknown) ==
  /\ d \in DetectionRecord /\ d.type = type /\ d.conf = conf /\ d.layers = {layer} /\ d.unknown = unknown
  /\ d.box = Box(l, a, b) /\ d.box.line = l /\ d.box.x = a /\ d.box.x + d.box.width = b + 1

LEMMA FoundHas ==
  ASSUME NEW type \in DetectionTypes, NEW conf \in Nat, NEW l \in Nat, NEW a \in Nat, NEW b \in Nat, a <= b,
         NEW layer \in Layers, NEW unknown \in BOOLEAN
  PROVE  Says(Found(type, conf, Box(l, a, b), layer, unknown), type, conf, l, a, b, layer, unknown)
<1> DEFINE d == Found(type, conf, Box(l, a, b), layer, unknown)
<1>1. b - a + 1 \in Nat /\ a + (b - a + 1) = b + 1   OBVIOUS
<1>2. PICK w \in Nat : w = b - a + 1   BY <1>1
<1>3. Box(l, a, b) = [line |-> l, x |-> a, width |-> w]   BY <1>2 DEF Box
<1>4. Box(l, a, b) \in [line : Nat, x : Nat, width : Nat]   BY <1>3
<1>5. "LOW" \in RiskLevels /\ "NONE" \in Actions /\ {layer} \in SUBSET Layers   BY DEF RiskLevels, Actions
<1>6. d \in DetectionRecord   BY <1>4, <1>5 DEF Found, DetectionRecord
<1>7. d.type = type /\ d.conf = conf /\ d.layers = {layer} /\ d.unknown = unknown /\ d.box = Box(l, a, b)
  BY DEF Found
<1>8. d.box.line = l /\ d.box.x = a /\ d.box.width = w   BY <1>3, <1>7
<1> QED BY <1>1, <1>2, <1>6, <1>7, <1>8 DEF Says

\* The matches of one pattern: of one type, and apart from each other.
AreMatches(list, l, type, conf, skip, ends, starts) ==
  /\ list \in Seq(DetectionRecord)
  /\ ToSet(list) = {Found(type, conf, Box(l, i + skip, ends[i]), "regex", FALSE) : i \in starts}
  /\ \A d \in ToSet(list) : /\ d.type = type /\ d.conf = conf /\ d.layers = {"regex"} /\ d.unknown = FALSE
                            /\ d.box.line = l
  /\ \A d, e \in ToSet(list) : Overlap(d.box, e.box) => d = e

LEMMA MatchesAre ==
  ASSUME NEW l \in Nat, NEW type \in DetectionTypes, NEW conf \in Nat, NEW skip \in Nat,
         NEW n \in Nat, NEW ends \in [1..n -> Nat], \A i \in 1..n : ends[i] > 0 => i + skip <= ends[i],
         NEW starts, starts \subseteq FindIter(ends)
  PROVE  AreMatches(Matches(l, type, conf, skip, ends, starts), l, type, conf, skip, ends, starts)
<1> DEFINE F == [i \in starts |-> Found(type, conf, Box(l, i + skip, ends[i]), "regex", FALSE)]
           list == Matches(l, type, conf, skip, ends, starts)
<1>1. /\ starts \subseteq 1..n /\ \A i \in starts : ends[i] > 0 /\ ends[i] \in Nat /\ i + skip \in Nat /\ i + skip <= ends[i]
  BY MatchStarts
<1>2. \A i \in starts : /\ F[i] \in DetectionRecord /\ F[i].type = type /\ F[i].conf = conf
                        /\ F[i].layers = {"regex"} /\ F[i].unknown = FALSE /\ F[i].box.line = l
                        /\ F[i].box.x = i + skip /\ F[i].box.x + F[i].box.width = ends[i] + 1
  <2> SUFFICES ASSUME NEW i \in starts
               PROVE  /\ F[i] \in DetectionRecord /\ F[i].type = type /\ F[i].conf = conf
                      /\ F[i].layers = {"regex"} /\ F[i].unknown = FALSE /\ F[i].box.line = l
                      /\ F[i].box.x = i + skip /\ F[i].box.x + F[i].box.width = ends[i] + 1
    OBVIOUS
  <2>1. PICK a \in Nat, b \in Nat : a = i + skip /\ b = ends[i] /\ a <= b   BY <1>1
  <2>2. F[i] = Found(type, conf, Box(l, a, b), "regex", FALSE)   BY <2>1
  <2> HIDE DEF F
  <2> DEFINE unknown == FALSE
             layer == "regex"
  <2>3. layer \in Layers /\ unknown \in BOOLEAN   BY DEF Layers
  <2> HIDE DEF unknown, layer
  <2>4. Says(Found(type, conf, Box(l, a, b), layer, unknown), type, conf, l, a, b, layer, unknown)
    BY <2>1, <2>3, FoundHas
  <2> USE DEF unknown, layer
  <2>5. Says(F[i], type, conf, l, a, b, "regex", FALSE)   BY <2>2, <2>4
  <2> QED BY <2>1, <2>5 DEF Says
<1>3. list \in Seq(DetectionRecord) /\ ToSet(list) = ImageOf(F, starts)
  <2>1. InOrder(starts) \in Seq(starts)   BY <1>1, InOrderLists
  <2>2. \A k \in DOMAIN InOrder(starts) : InOrder(starts)[k] \in starts   BY <2>1, LenProperties, ElementOfSeq
  <2>3. list = Those(F, starts)   BY <2>2 DEF Matches, Those
  <2>4. \A i \in starts : F[i] \in DetectionRecord   BY <1>2
  <2> HIDE DEF list, F
  <2> QED BY <1>1, <2>3, <2>4, Listed
<1>4. ImageOf(F, starts) = {Found(type, conf, Box(l, i + skip, ends[i]), "regex", FALSE) : i \in starts}
  BY DEF ImageOf
<1> HIDE DEF list, F
<1>5. ASSUME NEW i \in starts, NEW j \in starts, i < j PROVE ends[i] < j
  <2>1. i \in FindIter(ends) /\ j \in FindIter(ends) /\ j \in 1..n /\ ends[j] > 0 /\ ends[i] \in Nat   BY <1>1
  <2>2. ~(j <= ends[i])   BY <1>5, <2>1, MatchStarts
  <2> QED BY <2>1, <2>2
<1>6. ASSUME NEW i \in starts, NEW j \in starts, Overlap(F[i].box, F[j].box) PROVE i = j
  <2>1. i + skip < ends[j] + 1 /\ j + skip < ends[i] + 1   BY <1>2, <1>6 DEF Overlap
  <2>2. i \in Nat /\ j \in Nat /\ ends[i] \in Nat /\ ends[j] \in Nat   BY <1>1
  <2>3. ~(i < j)   BY <1>5, <2>1, <2>2
  <2>4. ~(j < i)   BY <1>5, <2>1, <2>2
  <2> QED BY <2>2, <2>3, <2>4
<1> QED BY <1>2, <1>3, <1>4, <1>6 DEF AreMatches, list, ImageOf

\* The run of tokens that are glued together ends in the line, and holds no ASCII
\* unless it is one token.
LEMMA GluedEndIs ==
  ASSUME NEW ts \in Seq(TokenKinds), NEW i \in 1..Len(ts)
  PROVE  /\ GluedEnd(ts, i) \in i..Len(ts)
         /\ ts[i] \in Ascii => GluedEnd(ts, i) = i
         /\ ts[i] \notin Ascii => \A k \in i..GluedEnd(ts, i) : ts[k] \notin Ascii
<1> DEFINE S == {j \in i..Len(ts) : \A k \in i..j : ts[k] \notin Ascii}
<1>1. Len(ts) \in Nat /\ i \in Nat   BY LenProperties
<1>2. CASE ts[i] \in Ascii   BY <1>1, <1>2 DEF GluedEnd
<1>3. CASE ts[i] \notin Ascii
  <2>1. GluedEnd(ts, i) = Max(S)   BY <1>3 DEF GluedEnd
  <2>2. i \in S
    <3>1. \A k \in i..i : k = i   BY <1>1
    <3> QED BY <1>1, <1>3, <3>1
  <2>3. S \subseteq 0..Len(ts)   BY <1>1
  <2>4. Max(S) \in S   BY <1>1, <2>2, <2>3, LastPlace
  <2> QED BY <1>3, <2>1, <2>4
<1> QED BY <1>2, <1>3

SecretEnds(ts) == [i \in DOMAIN ts |-> SecretEnd(ts, i)]
IdEnds(ts) == [i \in DOMAIN ts |-> TaiwanIdEnd(ts, i)]
PhoneEnds(ts) == [i \in DOMAIN ts |-> PhoneEnd(ts, i)]
CardEnds(ts) == [i \in DOMAIN ts |-> CardEnd(ts, i)]
Reach(ends, n, skip) == ends \in [1..n -> Nat] /\ \A i \in 1..n : ends[i] > 0 => i + skip <= ends[i]

LEMMA PatternsReach ==
  ASSUME NEW ts \in Seq(TokenKinds)
  PROVE  /\ Reach(SecretEnds(ts), Len(ts), 2) /\ Reach(IdEnds(ts), Len(ts), 0)
         /\ Reach(PhoneEnds(ts), Len(ts), 0) /\ Reach(CardEnds(ts), Len(ts), 0)
<1>1. Len(ts) \in Nat /\ DOMAIN ts = 1..Len(ts)   BY LenProperties
<1>2. ASSUME NEW i \in 1..Len(ts) PROVE SecretEnd(ts, i) \in Nat /\ (SecretEnd(ts, i) > 0 => i + 2 <= SecretEnd(ts, i))
  <2>1. CASE ts[i] = "password" /\ i + 2 <= Len(ts) /\ ts[i + 1] = "colon" /\ LongEnough(ts, i + 2)
    <3>1. SecretEnd(ts, i) = GluedEnd(ts, i + 2) /\ i + 2 \in 1..Len(ts)   BY <1>1, <2>1 DEF SecretEnd
    <3>2. GluedEnd(ts, i + 2) \in (i + 2)..Len(ts)   BY <3>1, GluedEndIs
    <3> QED BY <1>1, <3>1, <3>2
  <2>2. CASE ~(ts[i] = "password" /\ i + 2 <= Len(ts) /\ ts[i + 1] = "colon" /\ LongEnough(ts, i + 2))
    <3>1. SecretEnd(ts, i) = 0   BY <2>2 DEF SecretEnd
    <3> QED BY <3>1
  <2> QED BY <2>1, <2>2
<1>3. ASSUME NEW i \in 1..Len(ts) PROVE TaiwanIdEnd(ts, i) \in {0, i} /\ PhoneEnd(ts, i) \in {0, i}
  BY DEF TaiwanIdEnd, PhoneEnd
<1>4. ASSUME NEW i \in 1..Len(ts) PROVE CardEnd(ts, i) \in {0, i + 1}
  BY DEF CardEnd
<1>5. Reach(SecretEnds(ts), Len(ts), 2)   BY <1>1, <1>2 DEF SecretEnds, Reach
<1>6. Reach(IdEnds(ts), Len(ts), 0)       BY <1>1, <1>3 DEF IdEnds, Reach
<1>7. Reach(PhoneEnds(ts), Len(ts), 0)    BY <1>1, <1>3 DEF PhoneEnds, Reach
<1>8. Reach(CardEnds(ts), Len(ts), 0)     BY <1>1, <1>4 DEF CardEnds, Reach
<1> QED BY <1>5, <1>6, <1>7, <1>8

\* What the patterns find on a line.
Secrets(l, ts) == Matches(l, "SecretKeyValue", 90, 2, SecretEnds(ts), FindIter(SecretEnds(ts)))
Ids(l, ts) == Matches(l, "TaiwanID", 85, 0, IdEnds(ts), FindIter(IdEnds(ts)))
Phones(l, ts) == Matches(l, "PhoneTW", 85, 0, PhoneEnds(ts), FindIter(PhoneEnds(ts)))
CardStarts(ts) == {i \in FindIter(CardEnds(ts)) : LuhnValid(ts, i)}
Cards(l, ts) == Matches(l, "CreditCard", 93, 0, CardEnds(ts), CardStarts(ts))

LEMMA PatternsMatch ==
  ASSUME NEW l \in Nat, NEW ts \in Seq(TokenKinds)
  PROVE  /\ AreMatches(Secrets(l, ts), l, "SecretKeyValue", 90, 2, SecretEnds(ts), FindIter(SecretEnds(ts)))
         /\ AreMatches(Ids(l, ts), l, "TaiwanID", 85, 0, IdEnds(ts), FindIter(IdEnds(ts)))
         /\ AreMatches(Phones(l, ts), l, "PhoneTW", 85, 0, PhoneEnds(ts), FindIter(PhoneEnds(ts)))
         /\ AreMatches(Cards(l, ts), l, "CreditCard", 93, 0, CardEnds(ts), CardStarts(ts))
<1>1. Len(ts) \in Nat   BY LenProperties
<1>2. {"SecretKeyValue", "TaiwanID", "PhoneTW", "CreditCard"} \subseteq DetectionTypes
  BY DEF DetectionTypes, FailSafeTypes, IntrinsicCriticalTypes
<1>3. CardStarts(ts) \subseteq FindIter(CardEnds(ts))   BY DEF CardStarts
<1>4. AreMatches(Secrets(l, ts), l, "SecretKeyValue", 90, 2, SecretEnds(ts), FindIter(SecretEnds(ts)))
  BY <1>1, <1>2, PatternsReach, MatchesAre DEF Reach, Secrets
<1>5. AreMatches(Ids(l, ts), l, "TaiwanID", 85, 0, IdEnds(ts), FindIter(IdEnds(ts)))
  BY <1>1, <1>2, PatternsReach, MatchesAre DEF Reach, Ids
<1>6. AreMatches(Phones(l, ts), l, "PhoneTW", 85, 0, PhoneEnds(ts), FindIter(PhoneEnds(ts)))
  BY <1>1, <1>2, PatternsReach, MatchesAre DEF Reach, Phones
<1>7. AreMatches(Cards(l, ts), l, "CreditCard", 93, 0, CardEnds(ts), CardStarts(ts))
  BY <1>1, <1>2, <1>3, PatternsReach, MatchesAre DEF Reach, Cards
<1> QED BY <1>4, <1>5, <1>6, <1>7

\* What is found by a pattern on line l.
ByPattern(d, l) == /\ d.type \in {"SecretKeyValue", "TaiwanID", "PhoneTW", "CreditCard"}
                   /\ d.conf \in {85, 90, 93} /\ d.layers = {"regex"} /\ d.unknown = FALSE /\ d.box.line = l

LEMMA RegexLineFinds ==
  ASSUME NEW l \in Nat, NEW ts \in Seq(TokenKinds)
  PROVE  /\ RegexLine(l, ts) \in Seq(DetectionRecord)
         /\ ToSet(RegexLine(l, ts)) = ToSet(Secrets(l, ts)) \cup ToSet(Ids(l, ts))
                                      \cup ToSet(Phones(l, ts)) \cup ToSet(Cards(l, ts))
         /\ \A d \in ToSet(RegexLine(l, ts)) : ByPattern(d, l)
         /\ \A d, e \in ToSet(RegexLine(l, ts)) : d.type = e.type /\ Overlap(d.box, e.box) => d = e
<1>1. RegexLine(l, ts) = Secrets(l, ts) \o Ids(l, ts) \o Phones(l, ts) \o Cards(l, ts)
  BY DEF RegexLine, Secrets, Ids, Phones, Cards, CardStarts, SecretEnds, IdEnds, PhoneEnds, CardEnds
<1> DEFINE a == Secrets(l, ts)
           b == Ids(l, ts)
           c == Phones(l, ts)
           e == Cards(l, ts)
<1>2. /\ AreMatches(a, l, "SecretKeyValue", 90, 2, SecretEnds(ts), FindIter(SecretEnds(ts)))
      /\ AreMatches(b, l, "TaiwanID", 85, 0, IdEnds(ts), FindIter(IdEnds(ts)))
      /\ AreMatches(c, l, "PhoneTW", 85, 0, PhoneEnds(ts), FindIter(PhoneEnds(ts)))
      /\ AreMatches(e, l, "CreditCard", 93, 0, CardEnds(ts), CardStarts(ts))
  BY PatternsMatch
<1>3. RegexLine(l, ts) = a \o b \o c \o e   BY <1>1
<1> HIDE DEF a, b, c, e
<1>4. a \in Seq(DetectionRecord) /\ b \in Seq(DetectionRecord) /\ c \in Seq(DetectionRecord) /\ e \in Seq(DetectionRecord)
  BY <1>2 DEF AreMatches
<1>7. /\ RegexLine(l, ts) \in Seq(DetectionRecord)
      /\ ToSet(RegexLine(l, ts)) = ToSet(a) \cup ToSet(b) \cup ToSet(c) \cup ToSet(e)
  BY <1>3, <1>4, MembersOfFour
<1>8. /\ \A d \in ToSet(a) : d.type = "SecretKeyValue" /\ ByPattern(d, l)
      /\ \A d \in ToSet(b) : d.type = "TaiwanID" /\ ByPattern(d, l)
      /\ \A d \in ToSet(c) : d.type = "PhoneTW" /\ ByPattern(d, l)
      /\ \A d \in ToSet(e) : d.type = "CreditCard" /\ ByPattern(d, l)
  <2> DEFINE Says2(d, type, conf) == d.type = type /\ d.conf = conf /\ d.layers = {"regex"} /\ d.unknown = FALSE /\ d.box.line = l
  <2>1. \A d \in ToSet(a) : Says2(d, "SecretKeyValue", 90)   BY <1>2 DEF AreMatches
  <2>2. \A d \in ToSet(b) : Says2(d, "TaiwanID", 85)   BY <1>2 DEF AreMatches
  <2>3. \A d \in ToSet(c) : Says2(d, "PhoneTW", 85)   BY <1>2 DEF AreMatches
  <2>4. \A d \in ToSet(e) : Says2(d, "CreditCard", 93)   BY <1>2 DEF AreMatches
  <2> QED BY <2>1, <2>2, <2>3, <2>4 DEF ByPattern
<1>9. /\ \A d, f \in ToSet(a) : Overlap(d.box, f.box) => d = f
      /\ \A d, f \in ToSet(b) : Overlap(d.box, f.box) => d = f
      /\ \A d, f \in ToSet(c) : Overlap(d.box, f.box) => d = f
      /\ \A d, f \in ToSet(e) : Overlap(d.box, f.box) => d = f
  BY <1>2 DEF AreMatches
<1>10. \A d, f \in ToSet(RegexLine(l, ts)) : d.type = f.type /\ Overlap(d.box, f.box) => d = f
  BY <1>7, <1>8, <1>9
<1> QED BY <1>7, <1>8, <1>10 DEF a, b, c, e

-----------------------------------------------------------------------------
(***************************************************************************)
(* What the other detectors find on a line.                                *)
(***************************************************************************)
LEMMA OneMember ==
  ASSUME NEW X, NEW x \in X
  PROVE  <<x>> \in Seq(X) /\ ToSet(<<x>>) = {x}
BY DEF ToSet

\* A label is known, and ends in the line.
LEMMA LabelsAre ==
  ASSUME NEW ts \in Seq(TokenKinds)
  PROVE  /\ Labels(ts) \subseteq 1..Len(ts)
         /\ \A i \in Labels(ts) : LabelEnd(ts, i) \in i..Len(ts) /\ LabelEnd(ts, i) + 2 <= Len(ts)
<1>1. Len(ts) \in Nat /\ DOMAIN ts = 1..Len(ts)   BY LenProperties
<1>2. \A i \in 1..Len(ts) : LabelEnd(ts, i) \in {0, i, i + 1}   BY DEF LabelEnd
<1> QED BY <1>1, <1>2 DEF Labels

\* What is found by a label on line l.
ByLabel(d, l) == /\ d.type \in {"PersonalName", "Phone", "Passport"} /\ d.conf = 75
                 /\ d.layers = {"context"} /\ d.unknown = FALSE /\ d.box.line = l

\* What the first label of a line promises of the rest of it.
Promised(l, ts) ==
  Found(LabelType(ts[Min(Labels(ts))]), 75, Box(l, LabelEnd(ts, Min(Labels(ts))) + 2, Len(ts)), "context", FALSE)

LEMMA ContextLineFinds ==
  ASSUME NEW l \in Nat, NEW ts \in Seq(TokenKinds)
  PROVE  /\ ContextLine(l, ts) \in Seq(DetectionRecord)
         /\ ToSet(ContextLine(l, ts)) = IF Labels(ts) = {} THEN {} ELSE {Promised(l, ts)}
         /\ Labels(ts) # {} =>
              /\ ByLabel(Promised(l, ts), l) /\ Promised(l, ts).type = LabelType(ts[Min(Labels(ts))])
              /\ Promised(l, ts).box = Box(l, LabelEnd(ts, Min(Labels(ts))) + 2, Len(ts))
<1>1. CASE Labels(ts) = {}
  <2>1. ContextLine(l, ts) = <<>>   BY <1>1 DEF ContextLine
  <2> QED BY <1>1, <2>1, NoMembers
<1>2. CASE Labels(ts) # {}
  <2> DEFINE first == Min(Labels(ts))
             type == LabelType(ts[first])
             layer == "context"
             unknown == FALSE
  <2>1. ContextLine(l, ts) = <<Promised(l, ts)>>   BY <1>2 DEF ContextLine, Promised
  <2>2. first \in Labels(ts)   BY <1>2, LabelsAre, FirstPlace
  <2>3. LabelEnd(ts, first) + 2 \in Nat /\ Len(ts) \in Nat /\ LabelEnd(ts, first) + 2 <= Len(ts)
    BY <2>2, LabelsAre, LenProperties
  <2>4. type \in {"PersonalName", "Phone", "Passport"} /\ type \in DetectionTypes
    BY DEF LabelType, DetectionTypes, FailSafeTypes, IntrinsicCriticalTypes
  <2>5. layer \in Layers /\ unknown \in BOOLEAN   BY DEF Layers
  <2>6. PICK a \in Nat, b \in Nat : a = LabelEnd(ts, first) + 2 /\ b = Len(ts) /\ a <= b   BY <2>3
  <2> HIDE DEF type, layer, unknown
  <2>7. Says(Found(type, 75, Box(l, a, b), layer, unknown), type, 75, l, a, b, layer, unknown)
    BY <2>4, <2>5, <2>6, FoundHas
  <2> USE DEF layer, unknown
  <2>8. Promised(l, ts) = Found(type, 75, Box(l, a, b), layer, unknown)   BY <2>6 DEF Promised, type
  <2>9. Promised(l, ts) \in DetectionRecord /\ ByLabel(Promised(l, ts), l)
    BY <2>4, <2>7, <2>8 DEF Says, ByLabel
  <2>10. Promised(l, ts).type = type /\ Promised(l, ts).box = Box(l, a, b)   BY <2>7, <2>8 DEF Says
  <2> QED BY <1>2, <2>1, <2>6, <2>9, <2>10, OneMember DEF type
<1> QED BY <1>1, <1>2

\* What is found in one cell of line l by a detector that is not sure of it.
Unsure(d, l, types, conf, layer) ==
  /\ d.type \in types /\ d.conf = conf /\ d.layers = {layer} /\ d.unknown = TRUE
  /\ d.box.line = l /\ d.box.x \in Nat /\ d.box.x + d.box.width = d.box.x + 1

\* The finding at each place of S, of the type that Type gives it.
Finds(l, Type, S, conf, layer) == [i \in S |-> Found(Type[i], conf, Box(l, i, i), layer, TRUE)]

AllUnsure(list, l, types, conf, layer) ==
  list \in Seq(DetectionRecord) /\ \A d \in ToSet(list) : Unsure(d, l, types, conf, layer)

LEMMA UnsureFound ==
  ASSUME NEW l \in Nat, NEW ts \in Seq(TokenKinds), NEW S, S \subseteq DOMAIN ts,
         NEW types, types \subseteq DetectionTypes,
         NEW Type, \A i \in S : Type[i] \in types, NEW conf \in Nat, NEW layer \in Layers
  PROVE  AllUnsure(Those(Finds(l, Type, S, conf, layer), S), l, types, conf, layer)
<1> DEFINE F == Finds(l, Type, S, conf, layer)
<1>0. Len(ts) \in Nat /\ S \subseteq 1..Len(ts)   BY LenProperties
<1>1. ASSUME NEW i \in S PROVE F[i] \in DetectionRecord /\ Unsure(F[i], l, types, conf, layer)
  <2> DEFINE unknown == TRUE
  <2>1. unknown \in BOOLEAN /\ i \in Nat /\ i <= i /\ Type[i] \in DetectionTypes   BY <1>0
  <2> HIDE DEF unknown
  <2>2. Says(Found(Type[i], conf, Box(l, i, i), layer, unknown), Type[i], conf, l, i, i, layer, unknown)
    BY <2>1, FoundHas
  <2>3. F[i] = Found(Type[i], conf, Box(l, i, i), layer, unknown)   BY DEF Finds, unknown
  <2> QED BY <2>1, <2>2, <2>3 DEF Says, Unsure, unknown
<1> HIDE DEF F
<1>2. Those(F, S) \in Seq(DetectionRecord) /\ ToSet(Those(F, S)) = ImageOf(F, S)   BY <1>0, <1>1, Listed
<1> QED BY <1>1, <1>2 DEF ImageOf, F, AllUnsure

LEMMA CandidateLineFinds ==
  ASSUME NEW l \in Nat, NEW ts \in Seq(TokenKinds)
  PROVE  AllUnsure(CandidateLine(l, ts), l, {"BankAccount", "Passport"}, 50, "candidate_value")
<1> DEFINE S == {i \in DOMAIN ts : /\ i > 2 /\ ts[i - 1] = "colon" /\ CandidateType(ts[i]) # "none"
                                   /\ CjkRunLength(ts, i - 1) \in 2..6}
           Type == [i \in S |-> CandidateType(ts[i])]
           at == InOrder(S)
<1>1. Len(ts) \in Nat /\ S \subseteq 1..Len(ts) /\ S \subseteq DOMAIN ts   BY LenProperties
<1>2. \A i \in S : Type[i] \in {"BankAccount", "Passport"}   BY DEF CandidateType
<1>3. CandidateLine(l, ts) = [k \in DOMAIN at |-> Found(CandidateType(ts[at[k]]), 50, Box(l, at[k], at[k]),
                                                         "candidate_value", TRUE)]
  BY DEF CandidateLine
<1>4. \A k \in DOMAIN at : at[k] \in S
  <2>1. at \in Seq(S)   BY <1>1, InOrderLists
  <2> QED BY <2>1, LenProperties, ElementOfSeq
<1> HIDE DEF S
<1>5. CandidateLine(l, ts) = Those(Finds(l, Type, S, 50, "candidate_value"), S)
  BY <1>3, <1>4 DEF Those, Finds
<1>6. {"BankAccount", "Passport"} \subseteq DetectionTypes /\ "candidate_value" \in Layers
  BY DEF DetectionTypes, FailSafeTypes, IntrinsicCriticalTypes, Layers
<1>7. AllUnsure(Those(Finds(l, Type, S, 50, "candidate_value"), S), l, {"BankAccount", "Passport"}, 50, "candidate_value")
  <2> DEFINE types == {"BankAccount", "Passport"}
             layer == "candidate_value"
             conf == 50
  <2>1. types \subseteq DetectionTypes /\ layer \in Layers /\ conf \in Nat   BY <1>6
  <2>2. \A i \in S : Type[i] \in types   BY <1>2
  <2> HIDE DEF Type, types, layer, conf
  <2>3. AllUnsure(Those(Finds(l, Type, S, conf, layer), S), l, types, conf, layer)   BY <1>1, <2>1, <2>2, UnsureFound
  <2> QED BY <2>3 DEF types, layer, conf
<1> QED BY <1>5, <1>7

LEMMA BareNamesFinds ==
  ASSUME NEW l \in Nat, NEW ts \in Seq(TokenKinds)
  PROVE  AllUnsure(BareNames(l, ts), l, {"PersonalName"}, 45, "ai")
<1> DEFINE S == {i \in DOMAIN ts : ts[i] = "fullName"}
           Type == [i \in S |-> "PersonalName"]
           at == InOrder(S)
<1>1. Len(ts) \in Nat /\ S \subseteq 1..Len(ts) /\ S \subseteq DOMAIN ts   BY LenProperties
<1>2. BareNames(l, ts) = [k \in DOMAIN at |-> Found("PersonalName", 45, Box(l, at[k], at[k]), "ai", TRUE)]
  BY DEF BareNames
<1>3. \A k \in DOMAIN at : at[k] \in S
  <2>1. at \in Seq(S)   BY <1>1, InOrderLists
  <2> QED BY <2>1, LenProperties, ElementOfSeq
<1> HIDE DEF S
<1>4. \A i \in S : Type[i] \in {"PersonalName"}   OBVIOUS
<1>5. BareNames(l, ts) = Those(Finds(l, Type, S, 45, "ai"), S)   BY <1>2, <1>3 DEF Those, Finds
<1>6. {"PersonalName"} \subseteq DetectionTypes /\ "ai" \in Layers   BY DEF DetectionTypes, Layers
<1>7. AllUnsure(Those(Finds(l, Type, S, 45, "ai"), S), l, {"PersonalName"}, 45, "ai")
  <2> DEFINE types == {"PersonalName"}
             layer == "ai"
             conf == 45
  <2>1. types \subseteq DetectionTypes /\ layer \in Layers /\ conf \in Nat   BY <1>6
  <2>2. \A i \in S : Type[i] \in types   BY <1>4
  <2> HIDE DEF Type, types, layer, conf
  <2>3. AllUnsure(Those(Finds(l, Type, S, conf, layer), S), l, types, conf, layer)   BY <1>1, <2>1, <2>2, UnsureFound
  <2> QED BY <2>3 DEF types, layer, conf
<1> QED BY <1>5, <1>7

LEMMA OpaqueSecretsFinds ==
  ASSUME NEW l \in Nat, NEW ts \in Seq(TokenKinds)
  PROVE  AllUnsure(OpaqueSecrets(l, ts), l, {"OpaqueSecret"}, 50, "ai")
<1> DEFINE S == {i \in DOMAIN ts : ts[i] = "secret" /\ "password" \in ToSet(ts)}
           Type == [i \in S |-> "OpaqueSecret"]
           at == InOrder(S)
<1>1. Len(ts) \in Nat /\ S \subseteq 1..Len(ts) /\ S \subseteq DOMAIN ts   BY LenProperties
<1>2. OpaqueSecrets(l, ts) = [k \in DOMAIN at |-> Found("OpaqueSecret", 50, Box(l, at[k], at[k]), "ai", TRUE)]
  BY DEF OpaqueSecrets
<1>3. \A k \in DOMAIN at : at[k] \in S
  <2>1. at \in Seq(S)   BY <1>1, InOrderLists
  <2> QED BY <2>1, LenProperties, ElementOfSeq
<1> HIDE DEF S
<1>4. \A i \in S : Type[i] \in {"OpaqueSecret"}   OBVIOUS
<1>5. OpaqueSecrets(l, ts) = Those(Finds(l, Type, S, 50, "ai"), S)   BY <1>2, <1>3 DEF Those, Finds
<1>6. {"OpaqueSecret"} \subseteq DetectionTypes /\ "ai" \in Layers   BY DEF DetectionTypes, FailSafeTypes, Layers
<1>7. AllUnsure(Those(Finds(l, Type, S, 50, "ai"), S), l, {"OpaqueSecret"}, 50, "ai")
  <2> DEFINE types == {"OpaqueSecret"}
             layer == "ai"
             conf == 50
  <2>1. types \subseteq DetectionTypes /\ layer \in Layers /\ conf \in Nat   BY <1>6
  <2>2. \A i \in S : Type[i] \in types   BY <1>4
  <2> HIDE DEF Type, types, layer, conf
  <2>3. AllUnsure(Those(Finds(l, Type, S, conf, layer), S), l, types, conf, layer)   BY <1>1, <2>1, <2>2, UnsureFound
  <2> QED BY <2>3 DEF types, layer, conf
<1> QED BY <1>5, <1>7

LEMMA UserRuleLineFinds ==
  ASSUME NEW l \in Nat, NEW ts \in Seq(TokenKinds)
  PROVE  /\ UserRuleLine(l, ts) \in Seq(DetectionRecord)
         /\ \A d \in ToSet(UserRuleLine(l, ts)) : d.type = "UserRule"
<1> DEFINE S == {i \in DOMAIN ts : ts[i] = "word"}
           type == "UserRule"
           layer == "user_rule"
           unknown == FALSE
           d == Found(type, 90, Box(l, Min(S), Min(S)), layer, unknown)
<1>1. CASE "word" \notin ToSet(ts)
  <2>1. UserRuleLine(l, ts) = <<>>   BY <1>1 DEF UserRuleLine
  <2> QED BY <2>1, NoMembers
<1>2. CASE "word" \in ToSet(ts)
  <2>1. S \subseteq Nat /\ S # {}   BY <1>2, LenProperties DEF ToSet
  <2>2. Min(S) \in Nat /\ Min(S) <= Min(S)   BY <2>1, FirstPlace
  <2>3. UserRuleLine(l, ts) = <<[d EXCEPT !.risk = "HIGH", !.action = "BLUR"]>>   BY <1>2 DEF UserRuleLine
  <2>4. type \in DetectionTypes /\ layer \in Layers /\ unknown \in BOOLEAN   BY DEF DetectionTypes, Layers
  <2> HIDE DEF S, type, layer, unknown
  <2>5. Says(d, type, 90, l, Min(S), Min(S), layer, unknown)   BY <2>2, <2>4, FoundHas
  <2>6. d \in DetectionRecord /\ d.type = type   BY <2>5 DEF Says
  <2> HIDE DEF d
  <2>7. PICK e : e = [d EXCEPT !.risk = "HIGH", !.action = "BLUR"]   OBVIOUS
  <2>8. e \in DetectionRecord /\ e.type = type   BY <2>6, <2>7 DEF DetectionRecord, RiskLevels, Actions
  <2>9. UserRuleLine(l, ts) = <<e>>   BY <2>3, <2>7
  <2>10. <<e>> \in Seq(DetectionRecord) /\ ToSet(<<e>>) = {e}   BY <2>8, OneMember
  <2> QED BY <2>8, <2>9, <2>10 DEF type
<1> QED BY <1>1, <1>2

-----------------------------------------------------------------------------
(***************************************************************************)
(* What is found on the whole image.                                       *)
(***************************************************************************)
LEMMA EveryLine ==
  ASSUME NEW image \in Seq(Seq(TokenKinds)), NEW lists, lists = [l \in DOMAIN image |-> lists[l]],
         \A l \in DOMAIN image : lists[l] \in Seq(DetectionRecord)
  PROVE  /\ FlattenSeq(lists) \in Seq(DetectionRecord)
         /\ \A d : d \in ToSet(FlattenSeq(lists)) <=> \E l \in DOMAIN image : d \in ToSet(lists[l])
<1>1. DOMAIN image = 1..Len(image) /\ Len(image) \in Nat   BY LenProperties
<1>2. lists \in [1..Len(image) -> Seq(DetectionRecord)]   BY <1>1
<1>3. lists \in Seq(Seq(DetectionRecord))   BY <1>1, <1>2, SeqDef
<1>4. /\ FlattenSeq(lists) \in Seq(DetectionRecord)
      /\ ToSet(FlattenSeq(lists)) = UNION {ToSet(lists[l]) : l \in DOMAIN lists}
  BY <1>3, Flattened
<1>5. DOMAIN lists = DOMAIN image   OBVIOUS
<1> QED BY <1>4, <1>5

LEMMA Lines ==
  ASSUME NEW image \in Seq(Seq(TokenKinds)), NEW l \in DOMAIN image
  PROVE  l \in Nat /\ image[l] \in Seq(TokenKinds)
BY LenProperties, ElementOfSeq

\* What the detectors of a layer find, if it is switched on.
ByPatterns(image, on) == If(on, "regex", OnEveryLine(image, RegexLine))
ByLabels(image, on) == If(on, "context", OnEveryLine(image, ContextLine))
ByNames(image, on) == If(on, "ai", OnEveryLine(image, BareNames))
BySecrets(image, on) == IF {"ai", "keyword"} \subseteq on THEN OnEveryLine(image, OpaqueSecrets) ELSE <<>>
ByRules(image, on) == If(on, "rules", OnEveryLine(image, UserRuleLine))

\* What can be neither a claim nor a guess.
Aside(d) == d.type \in {"OpaqueSecret", "UserRule"} \/ (d.type = "PersonalName" /\ d.conf = 45)

LEMMA PatternsFind ==
  ASSUME NEW image \in Seq(Seq(TokenKinds)), NEW on
  PROVE  /\ ByPatterns(image, on) \in Seq(DetectionRecord)
         /\ \A d : d \in ToSet(ByPatterns(image, on)) <=>
                     "regex" \in on /\ \E l \in DOMAIN image : d \in ToSet(RegexLine(l, image[l]))
<1> DEFINE lists == [l \in DOMAIN image |-> RegexLine(l, image[l])]
<1>1. \A l \in DOMAIN image : lists[l] \in Seq(DetectionRecord)   BY Lines, RegexLineFinds
<1>2. lists = [l \in DOMAIN image |-> lists[l]] /\ \A l \in DOMAIN image : lists[l] = RegexLine(l, image[l])
  OBVIOUS
<1>3. OnEveryLine(image, RegexLine) = FlattenSeq(lists)   BY DEF OnEveryLine
<1> HIDE DEF lists
<1>4. /\ FlattenSeq(lists) \in Seq(DetectionRecord)
      /\ \A d : d \in ToSet(FlattenSeq(lists)) <=> \E l \in DOMAIN image : d \in ToSet(lists[l])
  BY <1>1, <1>2, EveryLine
<1>5. CASE "regex" \in on
  <2>1. ByPatterns(image, on) = FlattenSeq(lists)   BY <1>3, <1>5 DEF ByPatterns, If
  <2> QED BY <1>2, <1>4, <1>5, <2>1
<1>6. CASE "regex" \notin on
  <2>1. ByPatterns(image, on) = <<>>   BY <1>6 DEF ByPatterns, If
  <2> QED BY <1>6, <2>1, NoMembers
<1> QED BY <1>5, <1>6

LEMMA LabelsFind ==
  ASSUME NEW image \in Seq(Seq(TokenKinds)), NEW on
  PROVE  /\ ByLabels(image, on) \in Seq(DetectionRecord)
         /\ \A d : d \in ToSet(ByLabels(image, on)) <=>
                     "context" \in on /\ \E l \in DOMAIN image : d \in ToSet(ContextLine(l, image[l]))
<1> DEFINE lists == [l \in DOMAIN image |-> ContextLine(l, image[l])]
<1>1. \A l \in DOMAIN image : lists[l] \in Seq(DetectionRecord)   BY Lines, ContextLineFinds
<1>2. lists = [l \in DOMAIN image |-> lists[l]] /\ \A l \in DOMAIN image : lists[l] = ContextLine(l, image[l])
  OBVIOUS
<1>3. OnEveryLine(image, ContextLine) = FlattenSeq(lists)   BY DEF OnEveryLine
<1> HIDE DEF lists
<1>4. /\ FlattenSeq(lists) \in Seq(DetectionRecord)
      /\ \A d : d \in ToSet(FlattenSeq(lists)) <=> \E l \in DOMAIN image : d \in ToSet(lists[l])
  BY <1>1, <1>2, EveryLine
<1>5. CASE "context" \in on
  <2>1. ByLabels(image, on) = FlattenSeq(lists)   BY <1>3, <1>5 DEF ByLabels, If
  <2> QED BY <1>2, <1>4, <1>5, <2>1
<1>6. CASE "context" \notin on
  <2>1. ByLabels(image, on) = <<>>   BY <1>6 DEF ByLabels, If
  <2> QED BY <1>6, <2>1, NoMembers
<1> QED BY <1>5, <1>6

LEMMA GuessesFind ==
  ASSUME NEW image \in Seq(Seq(TokenKinds)), NEW on
  PROVE  /\ Guesses(image, on) \in Seq(DetectionRecord)
         /\ \A d \in ToSet(Guesses(image, on)) :
              \E l \in Nat : Unsure(d, l, {"BankAccount", "Passport"}, 50, "candidate_value")
<1> DEFINE lists == [l \in DOMAIN image |-> CandidateLine(l, image[l])]
<1>1. \A l \in DOMAIN image :
        /\ l \in Nat /\ lists[l] \in Seq(DetectionRecord)
        /\ \A d \in ToSet(lists[l]) : Unsure(d, l, {"BankAccount", "Passport"}, 50, "candidate_value")
  BY Lines, CandidateLineFinds DEF AllUnsure
<1>2. lists = [l \in DOMAIN image |-> lists[l]]   OBVIOUS
<1>3. OnEveryLine(image, CandidateLine) = FlattenSeq(lists)   BY DEF OnEveryLine
<1> HIDE DEF lists
<1>4. /\ FlattenSeq(lists) \in Seq(DetectionRecord)
      /\ \A d : d \in ToSet(FlattenSeq(lists)) <=> \E l \in DOMAIN image : d \in ToSet(lists[l])
  BY <1>1, <1>2, EveryLine
<1>5. CASE "context" \in on
  <2>1. Guesses(image, on) = FlattenSeq(lists)   BY <1>3, <1>5 DEF Guesses, If
  <2> QED BY <1>1, <1>4, <2>1
<1>6. CASE "context" \notin on
  <2>1. Guesses(image, on) = <<>>   BY <1>6 DEF Guesses, If
  <2> QED BY <2>1, NoMembers
<1> QED BY <1>5, <1>6

LEMMA OthersFind ==
  ASSUME NEW image \in Seq(Seq(TokenKinds)), NEW on
  PROVE  /\ ByNames(image, on) \in Seq(DetectionRecord) /\ BySecrets(image, on) \in Seq(DetectionRecord)
         /\ ByRules(image, on) \in Seq(DetectionRecord)
         /\ \A d \in ToSet(ByNames(image, on)) \cup ToSet(BySecrets(image, on)) \cup ToSet(ByRules(image, on)) : Aside(d)
<1> DEFINE names == [l \in DOMAIN image |-> BareNames(l, image[l])]
           secrets == [l \in DOMAIN image |-> OpaqueSecrets(l, image[l])]
           rules == [l \in DOMAIN image |-> UserRuleLine(l, image[l])]
<1>1. \A l \in DOMAIN image : names[l] \in Seq(DetectionRecord) /\ \A d \in ToSet(names[l]) : Aside(d)
  <2>1. \A l \in DOMAIN image : AllUnsure(names[l], l, {"PersonalName"}, 45, "ai")   BY Lines, BareNamesFinds
  <2> HIDE DEF names
  <2>2. \A l \in DOMAIN image : names[l] \in Seq(DetectionRecord) /\ \A d \in ToSet(names[l]) : d.type \in {"PersonalName"} /\ d.conf = 45
    BY <2>1 DEF AllUnsure, Unsure
  <2> QED BY <2>2 DEF Aside
<1>2. \A l \in DOMAIN image : secrets[l] \in Seq(DetectionRecord) /\ \A d \in ToSet(secrets[l]) : Aside(d)
  <2>1. \A l \in DOMAIN image : AllUnsure(secrets[l], l, {"OpaqueSecret"}, 50, "ai")   BY Lines, OpaqueSecretsFinds
  <2> HIDE DEF secrets
  <2>2. \A l \in DOMAIN image : secrets[l] \in Seq(DetectionRecord) /\ \A d \in ToSet(secrets[l]) : d.type \in {"OpaqueSecret"} /\ d.conf = 50
    BY <2>1 DEF AllUnsure, Unsure
  <2> QED BY <2>2 DEF Aside
<1>3. \A l \in DOMAIN image : rules[l] \in Seq(DetectionRecord) /\ \A d \in ToSet(rules[l]) : Aside(d)
  BY Lines, UserRuleLineFinds DEF Aside
<1>4. /\ names = [l \in DOMAIN image |-> names[l]] /\ secrets = [l \in DOMAIN image |-> secrets[l]]
      /\ rules = [l \in DOMAIN image |-> rules[l]]
  OBVIOUS
<1>5. /\ OnEveryLine(image, BareNames) = FlattenSeq(names) /\ OnEveryLine(image, OpaqueSecrets) = FlattenSeq(secrets)
      /\ OnEveryLine(image, UserRuleLine) = FlattenSeq(rules)
  BY DEF OnEveryLine
<1> HIDE DEF names, secrets, rules
<1> DEFINE Fine(list) == list \in Seq(DetectionRecord) /\ \A d \in ToSet(list) : Aside(d)
<1>6. Fine(FlattenSeq(names)) /\ Fine(FlattenSeq(secrets)) /\ Fine(FlattenSeq(rules))
  BY <1>1, <1>2, <1>3, <1>4, EveryLine
<1>7. Fine(<<>>)   BY NoMembers
<1> HIDE DEF Fine
<1>8. Fine(ByNames(image, on)) /\ Fine(BySecrets(image, on)) /\ Fine(ByRules(image, on))
  BY <1>5, <1>6, <1>7 DEF ByNames, BySecrets, ByRules, If
<1> QED BY <1>8 DEF Fine

\* The members of a list at some places are members of the list.
LEMMA ThoseAre ==
  ASSUME NEW X, NEW list \in Seq(X), NEW S, S \subseteq DOMAIN list
  PROVE  Those(list, S) \in Seq(X) /\ ToSet(Those(list, S)) = {list[i] : i \in S}
<1>1. Len(list) \in Nat /\ S \subseteq 1..Len(list)   BY LenProperties
<1>2. \A i \in S : list[i] \in X   BY <1>1, ElementOfSeq
<1>3. Those(list, S) \in Seq(X) /\ ToSet(Those(list, S)) = ImageOf(list, S)   BY <1>1, <1>2, Listed
<1> QED BY <1>3 DEF ImageOf

\* What is left of the guesses: those no claim overlaps.
LEMMA UnclaimedAre ==
  ASSUME NEW X, NEW guesses \in Seq(X), NEW claims
  PROVE  /\ Unclaimed(guesses, claims) \in Seq(X)
         /\ \A g : g \in ToSet(Unclaimed(guesses, claims)) <=>
                     g \in ToSet(guesses) /\ \A c \in ToSet(claims) : ~Overlap(g.box, c.box)
<1> DEFINE S == {k \in DOMAIN guesses : \A i \in DOMAIN claims : ~Overlap(guesses[k].box, claims[i].box)}
<1>1. Unclaimed(guesses, claims) = Those(guesses, S)   BY DEF Unclaimed
<1>2. Those(guesses, S) \in Seq(X) /\ ToSet(Those(guesses, S)) = {guesses[i] : i \in S}   BY ThoseAre
<1>3. \A g : g \in {guesses[i] : i \in S} <=>
               g \in ToSet(guesses) /\ \A c \in ToSet(claims) : ~Overlap(g.box, c.box)
  BY DEF ToSet
<1> QED BY <1>1, <1>2, <1>3

\* The canonical type, and nothing else changed.
CanonicalType(type) == IF type = "PhoneTW" THEN "Phone" ELSE type

LEMMA CanonicalIs ==
  ASSUME NEW d \in DetectionRecord
  PROVE  /\ Canonical(d) \in DetectionRecord /\ Canonical(d).type = CanonicalType(d.type)
         /\ Canonical(d).conf = d.conf /\ Canonical(d).box = d.box
         /\ Canonical(d).layers = d.layers /\ Canonical(d).unknown = d.unknown
<1>1. CASE d.type = "PhoneTW"
  <2>1. PICK e : e = [d EXCEPT !.type = "Phone"]   OBVIOUS
  <2>2. "Phone" \in DetectionTypes   BY DEF DetectionTypes
  <2>3. e \in DetectionRecord /\ e.type = "Phone" /\ e.conf = d.conf /\ e.box = d.box
        /\ e.layers = d.layers /\ e.unknown = d.unknown
    BY <2>1, <2>2 DEF DetectionRecord
  <2> QED BY <1>1, <2>1, <2>3 DEF Canonical, CanonicalType
<1>2. CASE d.type # "PhoneTW"   BY <1>2 DEF Canonical, CanonicalType
<1> QED BY <1>1, <1>2

\* All that is found before the types are canonical.
Finding(d, image, on) ==
  \/ d \in ToSet(ByPatterns(image, on)) \/ d \in ToSet(ByLabels(image, on))
  \/ d \in ToSet(Unclaimed(Guesses(image, on), Classified(image, on)))
  \/ d \in ToSet(ByNames(image, on)) \cup ToSet(BySecrets(image, on)) \cup ToSet(ByRules(image, on))

LEMMA ClaimsAre ==
  ASSUME NEW image \in Seq(Seq(TokenKinds)), NEW on
  PROVE  /\ Classified(image, on) \in Seq(DetectionRecord)
         /\ ToSet(Classified(image, on)) = ToSet(ByPatterns(image, on)) \cup ToSet(ByLabels(image, on))
<1>1. Classified(image, on) = ByPatterns(image, on) \o ByLabels(image, on)
  BY DEF Classified, ByPatterns, ByLabels
<1>2. ByPatterns(image, on) \in Seq(DetectionRecord) /\ ByLabels(image, on) \in Seq(DetectionRecord)
  BY PatternsFind, LabelsFind
<1> QED BY <1>1, <1>2, MembersOfConcat

LEMMA DetectFinds ==
  ASSUME NEW image \in Seq(Seq(TokenKinds)), NEW on
  PROVE  /\ Detect(image, on) \in Seq(DetectionRecord)
         /\ \A d : d \in ToSet(Detect(image, on)) <=>
                     \E e \in DetectionRecord : Finding(e, image, on) /\ d = Canonical(e)
<1> DEFINE claims == Classified(image, on)
           kept == Unclaimed(Guesses(image, on), claims)
           names == ByNames(image, on)
           secrets == BySecrets(image, on)
           rules == ByRules(image, on)
           found == claims \o kept \o names \o secrets \o rules
<1>1. Detect(image, on) = [i \in DOMAIN found |-> Canonical(found[i])]
  BY DEF Detect, ByNames, BySecrets, ByRules
<1>2. /\ claims \in Seq(DetectionRecord)
      /\ ToSet(claims) = ToSet(ByPatterns(image, on)) \cup ToSet(ByLabels(image, on))
  BY ClaimsAre
<1>3. kept \in Seq(DetectionRecord)   BY GuessesFind, UnclaimedAre
<1>4. names \in Seq(DetectionRecord) /\ secrets \in Seq(DetectionRecord) /\ rules \in Seq(DetectionRecord)
  BY OthersFind
<1>5. \A e : Finding(e, image, on) <=> \/ e \in ToSet(claims) \/ e \in ToSet(kept)
                                       \/ e \in ToSet(names) \cup ToSet(secrets) \cup ToSet(rules)
  BY <1>2 DEF Finding
<1> HIDE DEF claims, kept, names, secrets, rules
<1>6. found \in Seq(DetectionRecord) /\ \A e : e \in ToSet(found) <=> Finding(e, image, on)
  <2>1. PICK most : most = claims \o kept \o names \o secrets   OBVIOUS
  <2>2. /\ most \in Seq(DetectionRecord)
        /\ ToSet(most) = ToSet(claims) \cup ToSet(kept) \cup ToSet(names) \cup ToSet(secrets)
    BY <1>2, <1>3, <1>4, <2>1, MembersOfFour
  <2>3. found = most \o rules   BY <2>1
  <2>4. found \in Seq(DetectionRecord) /\ ToSet(found) = ToSet(most) \cup ToSet(rules)
    BY <1>4, <2>2, <2>3, MembersOfConcat
  <2> HIDE DEF found
  <2> QED BY <1>5, <2>2, <2>4
<1> HIDE DEF found
<1>7. Len(found) \in Nat /\ DOMAIN found = 1..Len(found) /\ \A i \in DOMAIN found : found[i] \in DetectionRecord
  BY <1>6, LenProperties, ElementOfSeq
<1>8. Detect(image, on) \in Seq(DetectionRecord)
  <2>1. \A i \in 1..Len(found) : Canonical(found[i]) \in DetectionRecord   BY <1>7, CanonicalIs
  <2>2. Detect(image, on) \in [1..Len(found) -> DetectionRecord]   BY <1>1, <1>7, <2>1
  <2> QED BY <1>7, <2>2, SeqDef
<1>9. \A d : d \in ToSet(Detect(image, on)) <=> \E i \in DOMAIN found : d = Canonical(found[i])
  BY <1>1 DEF ToSet
<1>10. \A e : e \in ToSet(found) <=> \E i \in DOMAIN found : e = found[i]   BY DEF ToSet
<1>11. \A d : d \in ToSet(Detect(image, on)) <=>
                \E e \in DetectionRecord : Finding(e, image, on) /\ d = Canonical(e)
  BY <1>6, <1>7, <1>9, <1>10
<1> QED BY <1>8, <1>11

-----------------------------------------------------------------------------
(***************************************************************************)
(* Which findings nothing found beside them can take away.                 *)
(***************************************************************************)
\* Nothing in D that could be merged with d is surer of another place.
Surest(D, d) ==
  \A e \in D : e.type = d.type /\ Overlap(e.box, d.box) =>
    e.conf < d.conf \/ (e.conf = d.conf /\ e.box = d.box)

\* What a finding of each kind can be.
KindOf(e, image, on) ==
  \/ /\ e \in ToSet(ByPatterns(image, on))
     /\ \E l \in DOMAIN image : e \in ToSet(RegexLine(l, image[l])) /\ ByPattern(e, l)
  \/ \E l \in DOMAIN image : Labels(image[l]) # {} /\ e = Promised(l, image[l]) /\ ByLabel(e, l)
  \/ /\ e \in ToSet(Unclaimed(Guesses(image, on), Classified(image, on)))
     /\ \A c \in ToSet(Classified(image, on)) : ~Overlap(e.box, c.box)
     /\ \E l \in Nat : Unsure(e, l, {"BankAccount", "Passport"}, 50, "candidate_value")
  \/ Aside(e)

LEMMA KindsOfFinding ==
  ASSUME NEW image \in Seq(Seq(TokenKinds)), NEW on, NEW e, Finding(e, image, on)
  PROVE  KindOf(e, image, on)
<1>1. CASE e \in ToSet(ByPatterns(image, on))
  <2>1. PICK l \in DOMAIN image : e \in ToSet(RegexLine(l, image[l]))   BY <1>1, PatternsFind
  <2>2. l \in Nat /\ image[l] \in Seq(TokenKinds)   BY Lines
  <2>3. ByPattern(e, l)   BY <2>1, <2>2, RegexLineFinds
  <2> QED BY <1>1, <2>1, <2>3 DEF KindOf
<1>2. CASE e \in ToSet(ByLabels(image, on))
  <2>1. PICK l \in DOMAIN image : e \in ToSet(ContextLine(l, image[l]))   BY <1>2, LabelsFind
  <2>2. l \in Nat /\ image[l] \in Seq(TokenKinds)   BY Lines
  <2>3. Labels(image[l]) # {} /\ e = Promised(l, image[l])
    <3>1. e \in IF Labels(image[l]) = {} THEN {} ELSE {Promised(l, image[l])}
      BY <2>1, <2>2, ContextLineFinds
    <3> QED BY <3>1
  <2>4. ByLabel(e, l)   BY <2>2, <2>3, ContextLineFinds
  <2> QED BY <2>3, <2>4 DEF KindOf
<1>3. CASE e \in ToSet(Unclaimed(Guesses(image, on), Classified(image, on)))
  <2>1. /\ e \in ToSet(Guesses(image, on))
        /\ \A c \in ToSet(Classified(image, on)) : ~Overlap(e.box, c.box)
    BY <1>3, GuessesFind, UnclaimedAre
  <2>2. \E l \in Nat : Unsure(e, l, {"BankAccount", "Passport"}, 50, "candidate_value")
    BY <2>1, GuessesFind
  <2> QED BY <1>3, <2>1, <2>2 DEF KindOf
<1>4. CASE e \in ToSet(ByNames(image, on)) \cup ToSet(BySecrets(image, on)) \cup ToSet(ByRules(image, on))
  BY <1>4, OthersFind DEF KindOf
<1> QED BY <1>1, <1>2, <1>3, <1>4 DEF Finding

LEMMA OverlapIsMutual ==
  ASSUME NEW a, NEW b, Overlap(a, b)
  PROVE  Overlap(b, a) /\ a.line = b.line
BY DEF Overlap

\* What a pattern found is never taken away.
LEMMA PatternIsSurest ==
  ASSUME NEW image \in Seq(Seq(TokenKinds)), NEW on, NEW d \in DetectionRecord, d \in ToSet(ByPatterns(image, on))
  PROVE  Surest(ToSet(Detect(image, on)), Canonical(d))
<1>1. PICK l \in DOMAIN image : d \in ToSet(RegexLine(l, image[l]))   BY PatternsFind
<1>2. l \in Nat /\ image[l] \in Seq(TokenKinds)   BY Lines
<1>3. ByPattern(d, l)   BY <1>1, <1>2, RegexLineFinds
<1>4. SUFFICES ASSUME NEW f \in ToSet(Detect(image, on)), f.type = Canonical(d).type, Overlap(f.box, Canonical(d).box)
               PROVE  f.conf < Canonical(d).conf \/ (f.conf = Canonical(d).conf /\ f.box = Canonical(d).box)
  BY DEF Surest
<1>5. PICK e \in DetectionRecord : Finding(e, image, on) /\ f = Canonical(e)   BY DetectFinds
<1>6. /\ CanonicalType(e.type) = CanonicalType(d.type) /\ Overlap(e.box, d.box) /\ e.box.line = d.box.line
      /\ f.conf = e.conf /\ f.box = e.box /\ Canonical(d).conf = d.conf /\ Canonical(d).box = d.box
  BY <1>4, <1>5, CanonicalIs, OverlapIsMutual
<1>7. KindOf(e, image, on)   BY <1>5, KindsOfFinding
<1>8. CASE \E m \in DOMAIN image : e \in ToSet(RegexLine(m, image[m])) /\ ByPattern(e, m)
  <2>1. PICK m \in DOMAIN image : e \in ToSet(RegexLine(m, image[m])) /\ ByPattern(e, m)   BY <1>8
  <2>2. m = l   BY <1>3, <1>6, <2>1 DEF ByPattern
  <2>3. e.type = d.type   BY <1>3, <1>6, <2>1 DEF ByPattern, CanonicalType
  <2>4. e = d   BY <1>1, <1>2, <1>6, <2>1, <2>2, <2>3, RegexLineFinds
  <2> QED BY <1>6, <2>4
<1>9. CASE \E m \in DOMAIN image : Labels(image[m]) # {} /\ e = Promised(m, image[m]) /\ ByLabel(e, m)
  BY <1>3, <1>6, <1>9 DEF ByLabel, ByPattern
<1>10. CASE \E m \in Nat : Unsure(e, m, {"BankAccount", "Passport"}, 50, "candidate_value")
  BY <1>3, <1>6, <1>10 DEF Unsure, ByPattern
<1>11. CASE Aside(e)   BY <1>3, <1>6, <1>11 DEF Aside, ByPattern, CanonicalType
<1> QED BY <1>7, <1>8, <1>9, <1>10, <1>11 DEF KindOf

\* What a label promised is taken away only by a pattern's finding of its type.
LEMMA LabelIsSurest ==
  ASSUME NEW image \in Seq(Seq(TokenKinds)), NEW on, NEW d \in DetectionRecord, d \in ToSet(ByLabels(image, on)),
         \A c \in ToSet(ByPatterns(image, on)) : CanonicalType(c.type) = d.type => ~Overlap(c.box, d.box)
  PROVE  Surest(ToSet(Detect(image, on)), d) /\ Canonical(d) = d
<1>1. PICK l \in DOMAIN image : d \in ToSet(ContextLine(l, image[l]))   BY LabelsFind
<1>2. l \in Nat /\ image[l] \in Seq(TokenKinds)   BY Lines
<1>3. d = Promised(l, image[l]) /\ ByLabel(d, l)
  <2>1. d \in IF Labels(image[l]) = {} THEN {} ELSE {Promised(l, image[l])}   BY <1>1, <1>2, ContextLineFinds
  <2>2. Labels(image[l]) # {} /\ d = Promised(l, image[l])   BY <2>1
  <2> QED BY <1>2, <2>2, ContextLineFinds
<1>4. Canonical(d) = d   BY <1>3 DEF ByLabel, Canonical
<1>5. ASSUME NEW f \in ToSet(Detect(image, on)), f.type = d.type, Overlap(f.box, d.box)
      PROVE  f.conf < d.conf \/ (f.conf = d.conf /\ f.box = d.box)
  <2>1. PICK e \in DetectionRecord : Finding(e, image, on) /\ f = Canonical(e)   BY DetectFinds
  <2>2. /\ CanonicalType(e.type) = d.type /\ Overlap(e.box, d.box) /\ e.box.line = d.box.line
        /\ f.conf = e.conf /\ f.box = e.box
    BY <1>5, <2>1, CanonicalIs, OverlapIsMutual
  <2>3. KindOf(e, image, on)   BY <2>1, KindsOfFinding
  <2>4. CASE e \in ToSet(ByPatterns(image, on))   BY <2>2, <2>4
  <2>5. CASE \E m \in DOMAIN image : Labels(image[m]) # {} /\ e = Promised(m, image[m]) /\ ByLabel(e, m)
    <3>1. PICK m \in DOMAIN image : e = Promised(m, image[m]) /\ ByLabel(e, m)   BY <2>5
    <3>2. m = l   BY <1>3, <2>2, <3>1 DEF ByLabel
    <3> QED BY <1>3, <2>2, <3>1, <3>2
  <2>6. CASE \E m \in Nat : Unsure(e, m, {"BankAccount", "Passport"}, 50, "candidate_value")
    BY <1>3, <2>2, <2>6 DEF Unsure, ByLabel
  <2>7. CASE Aside(e)   BY <1>3, <2>2, <2>7 DEF Aside, ByLabel, CanonicalType
  <2> QED BY <2>3, <2>4, <2>5, <2>6, <2>7 DEF KindOf
<1> QED BY <1>4, <1>5 DEF Surest

\* A guess that no claim overlaps is never taken away.
LEMMA KeptGuessIsSurest ==
  ASSUME NEW image \in Seq(Seq(TokenKinds)), NEW on, NEW d \in DetectionRecord,
         d \in ToSet(Unclaimed(Guesses(image, on), Classified(image, on)))
  PROVE  Surest(ToSet(Detect(image, on)), d) /\ Canonical(d) = d
<1>1. /\ d \in ToSet(Guesses(image, on))
      /\ \A c \in ToSet(Classified(image, on)) : ~Overlap(d.box, c.box)
  BY GuessesFind, UnclaimedAre
<1>2. PICK l \in Nat : Unsure(d, l, {"BankAccount", "Passport"}, 50, "candidate_value")
  BY <1>1, GuessesFind
<1>3. Canonical(d) = d   BY <1>2 DEF Unsure, Canonical
<1>4. ASSUME NEW f \in ToSet(Detect(image, on)), f.type = d.type, Overlap(f.box, d.box)
      PROVE  f.conf < d.conf \/ (f.conf = d.conf /\ f.box = d.box)
  <2>1. PICK e \in DetectionRecord : Finding(e, image, on) /\ f = Canonical(e)   BY DetectFinds
  <2>2. /\ CanonicalType(e.type) = d.type /\ Overlap(d.box, e.box)
        /\ f.conf = e.conf /\ f.box = e.box
    BY <1>4, <2>1, CanonicalIs, OverlapIsMutual
  <2>3. CASE e \in ToSet(ByPatterns(image, on)) \cup ToSet(ByLabels(image, on))
    BY <1>1, <2>2, <2>3, ClaimsAre
  <2>4. CASE e \in ToSet(Unclaimed(Guesses(image, on), Classified(image, on)))
    <3>1. e \in ToSet(Guesses(image, on))   BY <2>4, GuessesFind, UnclaimedAre
    <3>2. PICK m \in Nat : Unsure(e, m, {"BankAccount", "Passport"}, 50, "candidate_value")
      BY <3>1, GuessesFind
    <3>3. /\ d.box \in [line : Nat, x : Nat, width : Nat] /\ e.box \in [line : Nat, x : Nat, width : Nat]
      BY DEF DetectionRecord
    <3>4. d.box.x + d.box.width = d.box.x + 1 /\ e.box.x + e.box.width = e.box.x + 1
      BY <1>2, <3>2 DEF Unsure
    <3>5. d.box.line = e.box.line /\ d.box.x < e.box.x + e.box.width /\ e.box.x < d.box.x + d.box.width
      BY <2>2 DEF Overlap
    <3>6. d.box.x = e.box.x /\ d.box.width = e.box.width   BY <3>3, <3>4, <3>5, SMTT(40)
    <3>7. d.box = e.box
      <4>1. \A b \in [line : Nat, x : Nat, width : Nat] : b = [line |-> b.line, x |-> b.x, width |-> b.width]
        OBVIOUS
      <4>2. d.box = [line |-> d.box.line, x |-> d.box.x, width |-> d.box.width]   BY <3>3, <4>1
      <4>3. e.box = [line |-> e.box.line, x |-> e.box.x, width |-> e.box.width]   BY <3>3, <4>1
      <4> QED BY <3>5, <3>6, <4>2, <4>3
    <3>8. d.conf = e.conf   BY <1>2, <3>2 DEF Unsure
    <3> QED BY <2>2, <3>7, <3>8
  <2>5. CASE Aside(e)   BY <1>2, <2>2, <2>5 DEF Aside, Unsure, CanonicalType
  <2> QED BY <2>1, <2>3, <2>4, <2>5, OthersFind DEF Finding
<1> QED BY <1>3, <1>4 DEF Surest

-----------------------------------------------------------------------------
(***************************************************************************)
(* What merging leaves of the findings.                                    *)
(***************************************************************************)
SamePlace(m, d) == m.type = d.type /\ m.box = d.box /\ m.conf = d.conf

\* m is a list that merging the first n findings of ds may have left.
MergedFrom(m, ds, n) ==
  /\ m \in Seq(DetectionRecord)
  /\ \A x \in DOMAIN m : \E j \in 1..n : SamePlace(m[x], ds[j])
  /\ \A j \in 1..n : Surest(ToSet(ds), ds[j]) => \E x \in DOMAIN m : SamePlace(m[x], ds[j])

LEMMA AbsorbIs ==
  ASSUME NEW m \in DetectionRecord, NEW d \in DetectionRecord, m.type = d.type
  PROVE  /\ Absorb(m, d) \in DetectionRecord
         /\ d.conf > m.conf => SamePlace(Absorb(m, d), d)
         /\ ~(d.conf > m.conf) => SamePlace(Absorb(m, d), m)
<1> DEFINE base == IF d.conf > m.conf
                   THEN [m EXCEPT !.conf = d.conf, !.box = d.box, !.legible = d.legible] ELSE m
           a == [base EXCEPT !.layers = m.layers \cup d.layers, !.unknown = m.unknown /\ d.unknown]
<1>1. /\ base \in DetectionRecord
      /\ d.conf > m.conf => SamePlace(base, d)
      /\ ~(d.conf > m.conf) => SamePlace(base, m)
  BY DEF DetectionRecord, SamePlace
<1>2. m.layers \cup d.layers \in SUBSET Layers /\ (m.unknown /\ d.unknown) \in BOOLEAN
  BY DEF DetectionRecord
<1>3. Absorb(m, d) = a   BY DEF Absorb
<1> HIDE DEF base
<1>4. a \in DetectionRecord /\ a.type = base.type /\ a.box = base.box /\ a.conf = base.conf
  BY <1>1, <1>2 DEF DetectionRecord
<1> HIDE DEF a
<1> QED BY <1>1, <1>3, <1>4 DEF SamePlace

LEMMA MergeOneMore ==
  ASSUME NEW ds \in Seq(DetectionRecord), NEW n \in 1..Len(ds), NEW m, MergedFrom(m, ds, n - 1)
  PROVE  MergedFrom(MergeInto(m, ds[n]), ds, n)
<1> DEFINE d == ds[n]
           same == {i \in DOMAIN m : m[i].type = d.type /\ Overlap(m[i].box, d.box)}
<1>1. /\ Len(ds) \in Nat /\ DOMAIN ds = 1..Len(ds) /\ n \in Nat /\ \A j \in 1..n : j \in DOMAIN ds
      /\ \A j \in DOMAIN ds : ds[j] \in DetectionRecord /\ ds[j] \in ToSet(ds)
  BY LenProperties, ElementOfSeq DEF ToSet
<1>2. /\ m \in Seq(DetectionRecord) /\ Len(m) \in Nat /\ DOMAIN m = 1..Len(m)
      /\ \A x \in DOMAIN m : m[x] \in DetectionRecord
  BY LenProperties, ElementOfSeq DEF MergedFrom
<1>3. /\ \A x \in DOMAIN m : \E j \in 1..(n - 1) : SamePlace(m[x], ds[j])
      /\ \A j \in 1..(n - 1) : Surest(ToSet(ds), ds[j]) => \E x \in DOMAIN m : SamePlace(m[x], ds[j])
  BY DEF MergedFrom
<1>4. d \in DetectionRecord /\ d \in ToSet(ds) /\ n \in 1..n /\ (\A j \in 1..n : j = n \/ j \in 1..(n - 1))
      /\ 1..(n - 1) \subseteq 1..n
  BY <1>1
<1>5. CASE same = {}
  <2>1. PICK t : t = Append(m, d)   OBVIOUS
  <2>2. MergeInto(m, d) = t   BY <1>5, <2>1 DEF MergeInto
  <2>3. /\ t \in Seq(DetectionRecord) /\ Len(t) = Len(m) + 1
        /\ \A i \in 1..Len(m) : t[i] = m[i]
        /\ t[Len(m) + 1] = d
    BY <1>2, <1>4, <2>1, AppendProperties
  <2>4. DOMAIN t = 1..(Len(m) + 1)   BY <2>3, LenProperties
  <2>5. /\ \A x \in DOMAIN t : x = Len(m) + 1 \/ (x \in DOMAIN m /\ t[x] = m[x])
        /\ Len(m) + 1 \in DOMAIN t /\ \A x \in DOMAIN m : x \in DOMAIN t /\ t[x] = m[x]
    BY <1>2, <2>3, <2>4
  <2>6. SamePlace(t[Len(m) + 1], ds[n])   BY <2>3 DEF SamePlace
  <2>7. \A x \in DOMAIN t : \E j \in 1..n : SamePlace(t[x], ds[j])   BY <1>3, <1>4, <2>5, <2>6
  <2>8. \A j \in 1..n : Surest(ToSet(ds), ds[j]) => \E x \in DOMAIN t : SamePlace(t[x], ds[j])
    BY <1>3, <1>4, <2>5, <2>6
  <2> QED BY <2>2, <2>3, <2>7, <2>8 DEF MergedFrom
<1>6. CASE same # {}
  <2>1. PICK p : p = Min(same)   OBVIOUS
  <2>2. p \in DOMAIN m /\ m[p].type = d.type /\ Overlap(m[p].box, d.box)
    <3>1. same \subseteq Nat   BY <1>2
    <3>2. Min(same) \in same   BY <1>6, <3>1, FirstPlace
    <3> QED BY <2>1, <3>2
  <2>3. PICK a : a = Absorb(m[p], d)   OBVIOUS
  <2>4. /\ a \in DetectionRecord /\ (d.conf > m[p].conf => SamePlace(a, d))
        /\ (~(d.conf > m[p].conf) => SamePlace(a, m[p]))
    BY <1>2, <1>4, <2>2, <2>3, AbsorbIs
  <2>5. PICK t : t = [m EXCEPT ![p] = a]   OBVIOUS
  <2>6. MergeInto(m, d) = t   BY <1>6, <2>1, <2>3, <2>5 DEF MergeInto
  <2>7. t \in Seq(DetectionRecord)   BY <1>2, <2>2, <2>4, <2>5, ExceptSeq
  <2>8. DOMAIN t = DOMAIN m /\ \A x \in DOMAIN t : t[x] = IF x = p THEN a ELSE m[x]   BY <2>5
  <2>9. PICK i \in 1..(n - 1) : SamePlace(m[p], ds[i])   BY <1>3, <2>2
  <2>10. \E j \in 1..n : SamePlace(a, ds[j])
    <3>1. CASE d.conf > m[p].conf   BY <1>4, <2>4, <3>1
    <3>2. CASE ~(d.conf > m[p].conf)
      <4>1. SamePlace(a, ds[i])   BY <2>4, <2>9, <3>2 DEF SamePlace
      <4> QED BY <1>4, <4>1
    <3> QED BY <3>1, <3>2
  <2>11. \A x \in DOMAIN t : \E j \in 1..n : SamePlace(t[x], ds[j])   BY <1>3, <1>4, <2>8, <2>10
  <2>12. ASSUME NEW j \in 1..n, Surest(ToSet(ds), ds[j]) PROVE \E x \in DOMAIN t : SamePlace(t[x], ds[j])
    <3>1. CASE j = n
      <4>1. Surest(ToSet(ds), d) /\ ds[i] \in ToSet(ds) /\ ds[i].conf \in Nat /\ d.conf \in Nat
        BY <1>1, <1>4, <2>12, <3>1 DEF DetectionRecord
      <4>2. ds[i].type = d.type /\ Overlap(ds[i].box, d.box) /\ ds[i].conf = m[p].conf /\ ds[i].box = m[p].box
        BY <2>2, <2>9 DEF SamePlace
      <4>3. ds[i].conf < d.conf \/ (ds[i].conf = d.conf /\ ds[i].box = d.box)   BY <4>1, <4>2 DEF Surest
      <4>4. SamePlace(a, d)
        <5>1. CASE ds[i].conf < d.conf   BY <2>4, <4>1, <4>2, <5>1
        <5>2. CASE ds[i].conf = d.conf /\ ds[i].box = d.box
          <6>1. ~(d.conf > m[p].conf)   BY <4>1, <4>2, <5>2
          <6> QED BY <2>2, <2>4, <4>2, <5>2, <6>1 DEF SamePlace
        <5> QED BY <4>3, <5>1, <5>2
      <4> QED BY <2>2, <2>8, <3>1, <4>4
    <3>2. CASE j # n
      <4>1. PICK x \in DOMAIN m : SamePlace(m[x], ds[j])   BY <1>3, <1>4, <2>12, <3>2
      <4>2. CASE x # p   BY <2>8, <4>1, <4>2
      <4>3. CASE x = p
        <5>1. d.type = ds[j].type /\ Overlap(d.box, ds[j].box) /\ m[p].conf = ds[j].conf
          BY <2>2, <4>1, <4>3, OverlapIsMutual DEF SamePlace
        <5>2. d.conf < ds[j].conf \/ d.conf = ds[j].conf   BY <1>4, <2>12, <5>1 DEF Surest
        <5>3. ~(d.conf > m[p].conf)
          <6>1. d.conf \in Nat /\ ds[j].conf \in Nat   BY <1>1, <1>4 DEF DetectionRecord
          <6> QED BY <5>1, <5>2, <6>1
        <5>4. SamePlace(a, ds[j])   BY <2>4, <4>1, <4>3, <5>3 DEF SamePlace
        <5> QED BY <2>2, <2>8, <5>4
      <4> QED BY <4>2, <4>3
    <3> QED BY <3>1, <3>2
  <2> QED BY <2>6, <2>7, <2>11, <2>12 DEF MergedFrom
<1> QED BY <1>5, <1>6

\* Merging keeps the place of every finding that none beside it is surer of.
LEMMA MergeKeepsSurest ==
  ASSUME NEW ds \in Seq(DetectionRecord)
  PROVE  MergedFrom(MergeOverlapping(ds), ds, Len(ds))
<1> DEFINE n == Len(ds)
           Merges(f) == f = [k \in 0..n |-> IF k = 0 THEN <<>> ELSE MergeInto(f[k - 1], ds[k])]
<1>1. n \in Nat   BY LenProperties
<1>2. \E f : Merges(f)
  <2>1. ASSUME NEW s \in Seq(DetectionRecord), NEW k \in 1..n PROVE MergeInto(s, ds[k]) \in Seq(DetectionRecord)
    <3> DEFINE same == {i \in DOMAIN s : s[i].type = ds[k].type /\ Overlap(s[i].box, ds[k].box)}
    <3>1. ds[k] \in DetectionRecord /\ DOMAIN s = 1..Len(s) /\ Len(s) \in Nat   BY LenProperties, ElementOfSeq
    <3>2. CASE same = {}
      <4>1. MergeInto(s, ds[k]) = Append(s, ds[k])   BY <3>2 DEF MergeInto
      <4> QED BY <3>1, <4>1, AppendProperties
    <3>3. CASE same # {}
      <4>1. PICK p : p = Min(same)   OBVIOUS
      <4>2. p \in DOMAIN s /\ s[p].type = ds[k].type
        <5>1. same \subseteq Nat   BY <3>1
        <5>2. Min(same) \in same   BY <3>3, <5>1, FirstPlace
        <5> QED BY <4>1, <5>2
      <4>3. s[p] \in DetectionRecord   BY <3>1, <4>2, ElementOfSeq
      <4>4. PICK a : a = Absorb(s[p], ds[k])   OBVIOUS
      <4>5. a \in DetectionRecord   BY <3>1, <4>2, <4>3, <4>4, AbsorbIs
      <4>6. MergeInto(s, ds[k]) = [s EXCEPT ![p] = a]   BY <3>3, <4>1, <4>4 DEF MergeInto
      <4> QED BY <3>1, <4>2, <4>5, <4>6, ExceptSeq
    <3> QED BY <3>2, <3>3
  <2> DEFINE W == Seq(DetectionRecord)
             step == [q \in (1..n) \X W |-> MergeInto(q[2], ds[q[1]])]
  <2>2. step \in [(1..n) \X W -> W]   BY <2>1
  <2>3. <<>> \in W   BY EmptySeq
  <2>4. PICK f \in [0..n -> W] : Built(f, n, <<>>, step)   BY <1>1, <2>2, <2>3, BuiltUpTo
  <2>5. ASSUME NEW k \in 0..n PROVE f[k] = IF k = 0 THEN <<>> ELSE MergeInto(f[k - 1], ds[k])
    <3>1. k # 0 => k \in 1..n /\ k - 1 \in 0..n /\ f[k - 1] \in W   BY <1>1, <2>4
    <3> HIDE DEF W
    <3> QED BY <2>4, <3>1 DEF Built
  <2>6. Merges(f)   BY <2>4, <2>5
  <2> QED BY <2>6
<1>3. PICK f : f = CHOOSE g : Merges(g)   OBVIOUS
<1>4. Merges(f)   BY <1>2, <1>3
<1>5. MergeOverlapping(ds) = f[n]   BY <1>3 DEF MergeOverlapping
<1>6. \A k \in 0..n : f[k] = IF k = 0 THEN <<>> ELSE MergeInto(f[k - 1], ds[k])   BY <1>4
<1> HIDE DEF Merges
<1> DEFINE T == {k \in Nat : k <= n => MergedFrom(f[k], ds, k)}
<1>7. 0 \in T
  <2>1. f[0] = <<>>   BY <1>1, <1>6
  <2>2. MergedFrom(<<>>, ds, 0)   BY EmptySeq DEF MergedFrom
  <2> QED BY <2>1, <2>2
<1>8. ASSUME NEW k \in 1..n, k - 1 \in T PROVE k \in T
  <2>1. k \in 0..n /\ k # 0 /\ k \in Nat /\ k - 1 <= n   BY <1>1
  <2>2. f[k] = MergeInto(f[k - 1], ds[k])   BY <1>6, <2>1
  <2>3. MergedFrom(f[k - 1], ds, k - 1)   BY <1>8, <2>1
  <2>4. MergedFrom(f[k], ds, k)   BY <2>2, <2>3, MergeOneMore
  <2> QED BY <2>1, <2>4
<1> HIDE DEF T
<1>9. \A k \in 1..n : k - 1 \in T => k \in T   BY <1>8
<1>10. n \in 0..n   BY <1>1
<1> HIDE DEF n
<1>11. n \in T   BY ONLY <1>1, <1>7, <1>9, <1>10, UpToPlace
<1> USE DEF n
<1> QED BY <1>1, <1>5, <1>11 DEF T

-----------------------------------------------------------------------------
(***************************************************************************)
(* What is decided about a merged finding.                                 *)
(***************************************************************************)
LEMMA ImageIsFinite ==
  ASSUME NEW S, IsFiniteSet(S), NEW F
  PROVE  IsFiniteSet(ImageOf(F, S))
<1> DEFINE f == [i \in S |-> F[i]]
<1>1. f \in Surjection(S, ImageOf(F, S))   BY DEF Surjection, ImageOf
<1> QED BY <1>1, FS_Surjection

LEMMA HitsAreFinite ==
  ASSUME NEW image \in Seq(Seq(TokenKinds)), NEW on
  PROVE  IsFiniteSet(Hits(image, on))
<1>1. ASSUME NEW l \in DOMAIN image PROVE IsFiniteSet(KeywordsOfLine(l, image[l]))
  <2> DEFINE ts == image[l]
             S == {j \in DOMAIN ts : ts[j] = "password" \/ LabelEnd(ts, j) > 0}
             F == [i \in S |-> [line |-> l, critical |-> ts[i] \in {"password", "passportLabel"}, at |-> i]]
  <2>1. Len(ts) \in Nat /\ S \subseteq 1..Len(ts)   BY Lines, LenProperties
  <2>2. IsFiniteSet(S)   BY <2>1, FS_Interval, FS_Subset
  <2>3. KeywordsOfLine(l, ts) = ImageOf(F, S)   BY DEF KeywordsOfLine, ImageOf
  <2> HIDE DEF F, S
  <2> QED BY <2>2, <2>3, ImageIsFinite
<1> DEFINE K == [l \in DOMAIN image |-> KeywordsOfLine(l, image[l])]
<1>2. IsFiniteSet(ImageOf(K, DOMAIN image))
  <2>1. Len(image) \in Nat /\ DOMAIN image = 1..Len(image)   BY LenProperties
  <2>2. IsFiniteSet(DOMAIN image)   BY <2>1, FS_Interval
  <2> HIDE DEF K
  <2> QED BY <2>2, ImageIsFinite
<1>3. \A T \in ImageOf(K, DOMAIN image) : IsFiniteSet(T)   BY <1>1 DEF ImageOf
<1>4. KeywordHits(image) = UNION ImageOf(K, DOMAIN image)   BY DEF KeywordHits, ImageOf
<1> HIDE DEF K
<1>5. IsFiniteSet(KeywordHits(image))   BY <1>2, <1>3, <1>4, FS_UNION
<1> QED BY <1>5, FS_EmptySet DEF Hits

LEMMA BoostIsNatural ==
  ASSUME NEW d, NEW hits, IsFiniteSet(hits)
  PROVE  KeywordBoost(d, hits) \in Nat
<1> DEFINE near == {h \in hits : h.line = d.box.line}
           critical == {h \in near : h.critical}
           other == {h \in near : ~h.critical}
<1>1. IsFiniteSet(critical) /\ IsFiniteSet(other)
  <2>1. near \subseteq hits /\ critical \subseteq hits /\ other \subseteq hits   OBVIOUS
  <2> QED BY <2>1, FS_Subset
<1>2. Cardinality(critical) \in Nat /\ Cardinality(other) \in Nat   BY <1>1, FS_CardinalityType
<1>3. KeywordBoost(d, hits) = 2000 * Cardinality(critical) + 800 * Cardinality(other)   BY DEF KeywordBoost
<1> HIDE DEF critical, other
<1> QED BY <1>2, <1>3

\* The greater, and the lesser, of two numbers.
LEMMA OfTwo ==
  ASSUME NEW a \in Nat, NEW b \in Nat
  PROVE  /\ Max({a, b}) = IF a >= b THEN a ELSE b
         /\ Min({a, b}) = IF a <= b THEN a ELSE b
<1> DEFINE top == IF a >= b THEN a ELSE b
           low == IF a <= b THEN a ELSE b
<1>1. top \in {a, b} /\ (\A y \in {a, b} : top >= y) /\ \A x \in {a, b} : (\A y \in {a, b} : x >= y) => x = top
  OBVIOUS
<1>2. low \in {a, b} /\ (\A y \in {a, b} : low <= y) /\ \A x \in {a, b} : (\A y \in {a, b} : x <= y) => x = low
  OBVIOUS
<1> HIDE DEF top, low
<1>3. Max({a, b}) = top   BY <1>1 DEF Max
<1>4. Min({a, b}) = low   BY <1>2 DEF Min
<1> QED BY <1>3, <1>4 DEF top, low

\* Its type and confidence alone make the finding at least a MEDIUM risk.
Weighs(d) == d.conf >= 30 /\ BaseScore(d.type) * d.conf >= 3000

LEMMA ScoreIsHigh ==
  ASSUME NEW d \in DetectionRecord, Weighs(d), NEW hits, IsFiniteSet(hits)
  PROVE  RiskScore(d, hits) \in Nat /\ RiskScore(d, hits) >= 3000
<1>1. PICK boost \in Nat : boost = KeywordBoost(d, hits)   BY BoostIsNatural
<1>2. d.conf \in Nat /\ d.conf >= 30   BY DEF DetectionRecord, Weighs
<1>3. Max({d.conf, 30}) = d.conf   BY <1>2, OfTwo
<1>4. PICK base \in Nat : base = BaseScore(d.type)   BY DEF BaseScore
<1>5. PICK weight \in Nat : weight = base * d.conf /\ weight >= 3000   BY <1>2, <1>4 DEF Weighs
<1>6. PICK n \in Nat : n = weight + boost /\ n >= 3000   BY <1>5
<1>7. BaseScore(d.type) * Max({d.conf, 30}) + KeywordBoost(d, hits) = n   BY <1>1, <1>3, <1>4, <1>5, <1>6
<1>8. PICK plain : plain = Min({10000, n})   OBVIOUS
<1>9. plain = IF 10000 <= n THEN 10000 ELSE n   BY <1>8, OfTwo
<1>10. plain \in Nat /\ plain >= 3000   BY <1>6, <1>9
<1>11. RiskScore(d, hits) = IF d.type \in IntrinsicCriticalTypes /\ SufficientEvidence(d)
                            THEN Max({plain, 8500}) ELSE plain
  BY <1>7, <1>8 DEF RiskScore
<1>12. Max({plain, 8500}) = IF plain >= 8500 THEN plain ELSE 8500   BY <1>10, OfTwo
<1> QED BY <1>10, <1>11, <1>12

\* Scoring and deciding leave a finding where it is, and what weighs enough is redacted.
LEMMA DecidedIs ==
  ASSUME NEW d \in DetectionRecord, NEW hits, NEW strict
  PROVE  /\ DecideOne(ScoreOne(d, hits), strict, "full_mask") \in DetectionRecord
         /\ DecideOne(ScoreOne(d, hits), strict, "full_mask").type = d.type
         /\ DecideOne(ScoreOne(d, hits), strict, "full_mask").box = d.box
         /\ Weighs(d) /\ IsFiniteSet(hits) =>
              DecideOne(ScoreOne(d, hits), strict, "full_mask").action # "NONE"
<1>1. CASE UserDecided(d)
  <2>1. ScoreOne(d, hits) = d /\ DecideOne(d, strict, "full_mask") = d   BY <1>1 DEF ScoreOne, DecideOne
  <2> QED BY <1>1, <2>1 DEF UserDecided
<1>2. CASE ~UserDecided(d)
  <2>1. PICK level : level = FromScore(RiskScore(d, hits))   OBVIOUS
  <2>2. level \in RiskLevels   BY <2>1 DEF FromScore, RiskLevels
  <2>3. PICK e : e = [d EXCEPT !.risk = level]   OBVIOUS
  <2>4. /\ e \in DetectionRecord /\ e.type = d.type /\ e.box = d.box /\ e.risk = level /\ e.action = d.action
        /\ e.layers = d.layers
    BY <2>2, <2>3 DEF DetectionRecord
  <2>5. ScoreOne(d, hits) = e   BY <1>2, <2>1, <2>3 DEF ScoreOne
  <2>6. ~UserDecided(e)   BY <1>2, <2>4 DEF UserDecided
  <2>7. \E action \in Actions :
          /\ \E review \in BOOLEAN :
               DecideOne(e, strict, "full_mask") = [e EXCEPT !.needsReview = review, !.action = action]
          /\ level # "LOW" => action # "NONE"
    <3> DEFINE failSafe == e.unknown /\ (e.type \in FailSafeTypes \/ e.risk \in {"HIGH", "CRITICAL"})
    <3>0. e.needsReview \in BOOLEAN /\ \A action : [e EXCEPT !.action = action]
                                         = [e EXCEPT !.needsReview = e.needsReview, !.action = action]
      BY <2>4 DEF DetectionRecord
    <3>1. CASE failSafe
      <4>1. DecideOne(e, strict, "full_mask") = [e EXCEPT !.needsReview = TRUE, !.action = "FULL_MASK"]
        BY <2>6, <3>1 DEF DecideOne
      <4> QED BY <4>1 DEF Actions
    <3>2. CASE ~failSafe /\ e.risk = "CRITICAL"
      <4>1. CriticalAction("full_mask") = "FULL_MASK"   BY DEF CriticalAction
      <4>2. DecideOne(e, strict, "full_mask") = [e EXCEPT !.action = "FULL_MASK"]
        BY <2>6, <3>2, <4>1 DEF DecideOne
      <4> QED BY <3>0, <4>2 DEF Actions
    <3>3. CASE ~failSafe /\ e.risk # "CRITICAL"
      <4>1. DecideOne(e, strict, "full_mask") = [e EXCEPT !.action = RiskAction(e.risk)]
        BY <2>6, <3>3 DEF DecideOne
      <4>2. /\ RiskAction(e.risk) \in Actions
            /\ level # "LOW" => RiskAction(e.risk) # "NONE"
        BY <2>2, <2>4, <3>3 DEF RiskAction, RiskLevels, Actions
      <4> QED BY <3>0, <4>1, <4>2
    <3> QED BY <3>1, <3>2, <3>3
  <2>8. PICK action \in Actions, review \in BOOLEAN :
          /\ DecideOne(e, strict, "full_mask") = [e EXCEPT !.needsReview = review, !.action = action]
          /\ level # "LOW" => action # "NONE"
    BY <2>7
  <2>9. PICK f : f = [e EXCEPT !.needsReview = review, !.action = action]   OBVIOUS
  <2>10. f \in DetectionRecord /\ f.type = d.type /\ f.box = d.box /\ f.action = action
    BY <2>4, <2>9 DEF DetectionRecord
  <2>11. Weighs(d) /\ IsFiniteSet(hits) => level # "LOW"
    <3> SUFFICES ASSUME Weighs(d), IsFiniteSet(hits) PROVE level # "LOW"   OBVIOUS
    <3>1. PICK score : score = RiskScore(d, hits)   OBVIOUS
    <3>2. score \in Nat /\ score >= 3000   BY <3>1, ScoreIsHigh
    <3>3. FromScore(score) # "LOW"   BY <3>2 DEF FromScore
    <3> QED BY <2>1, <3>1, <3>3
  <2>12. DecideOne(ScoreOne(d, hits), strict, "full_mask") = f   BY <2>5, <2>8, <2>9
  <2> QED BY <2>8, <2>10, <2>11, <2>12
<1> QED BY <1>1, <1>2

-----------------------------------------------------------------------------
\* What the analysis of the image decides.
Findings(image, on, strict) == Decide(Score(Detect(image, on), Hits(image, on)), strict, "full_mask")

\* A finding is typed and redacted, at its place in the list.
LEMMA FindingsAreTyped ==
  ASSUME NEW image \in Seq(Seq(TokenKinds)), NEW on, NEW strict
  PROVE  /\ DOMAIN Findings(image, on, strict) \subseteq Nat \ {0}
         /\ \A i \in DOMAIN Findings(image, on, strict) :
              /\ Findings(image, on, strict)[i] \in DetectionRecord
              /\ Findings(image, on, strict)[i].action # "NONE"
<1>1. PICK hits : hits = Hits(image, on)   OBVIOUS
<1>2. PICK ds \in Seq(DetectionRecord) : ds = Detect(image, on)   BY DetectFinds
<1>3. PICK merged \in Seq(DetectionRecord) : merged = MergeOverlapping(ds)   BY MergeKeepsSurest DEF MergedFrom
<1>4. PICK scored : scored = [i \in DOMAIN merged |-> ScoreOne(merged[i], hits)]   OBVIOUS
<1>5. PICK found : found = Decide(scored, strict, "full_mask")   OBVIOUS
<1>6. Findings(image, on, strict) = found   BY <1>1, <1>2, <1>3, <1>4, <1>5 DEF Findings, Score
<1>7. DOMAIN merged = 1..Len(merged) /\ \A i \in DOMAIN merged : merged[i] \in DetectionRecord
  BY LenProperties, ElementOfSeq
<1>8. \A i \in DOMAIN found : /\ i \in DOMAIN merged /\ found[i].action # "NONE"
                              /\ found[i] = DecideOne(ScoreOne(merged[i], hits), strict, "full_mask")
  BY <1>4, <1>5 DEF Decide
<1>9. \A i \in DOMAIN found : found[i] \in DetectionRecord   BY <1>7, <1>8, DecidedIs
<1> QED BY <1>6, <1>7, <1>8, <1>9

\* What is surest of its place and weighs enough is redacted there, as what it is.
LEMMA SurestIsRedacted ==
  ASSUME NEW image \in Seq(Seq(TokenKinds)), NEW on, NEW strict, NEW d \in DetectionRecord,
         d \in ToSet(Detect(image, on)), Surest(ToSet(Detect(image, on)), d), Weighs(d)
  PROVE  \E e \in ImageOf(Findings(image, on, strict), DOMAIN Findings(image, on, strict)) :
           e.type = d.type /\ e.box = d.box
<1>1. PICK hits : hits = Hits(image, on) /\ IsFiniteSet(hits)   BY HitsAreFinite
<1>2. PICK ds \in Seq(DetectionRecord) : ds = Detect(image, on)   BY DetectFinds
<1>3. PICK merged : merged = MergeOverlapping(ds) /\ MergedFrom(merged, ds, Len(ds))   BY MergeKeepsSurest
<1>4. PICK scored : scored = [i \in DOMAIN merged |-> ScoreOne(merged[i], hits)]   OBVIOUS
<1>5. PICK found : found = Decide(scored, strict, "full_mask")   OBVIOUS
<1>6. Findings(image, on, strict) = found   BY <1>1, <1>2, <1>3, <1>4, <1>5 DEF Findings, Score
<1>7. PICK j \in 1..Len(ds) : ds[j] = d   BY <1>2, LenProperties DEF ToSet
<1>8. PICK x \in DOMAIN merged : SamePlace(merged[x], d)   BY <1>2, <1>3, <1>7 DEF MergedFrom
<1>9. merged[x] \in DetectionRecord   BY <1>3, LenProperties, ElementOfSeq DEF MergedFrom
<1>10. Weighs(merged[x])   BY <1>8 DEF Weighs, SamePlace
<1>11. PICK e : e = DecideOne(ScoreOne(merged[x], hits), strict, "full_mask")   OBVIOUS
<1>12. e.type = d.type /\ e.box = d.box /\ e.action # "NONE"
  BY <1>1, <1>8, <1>9, <1>10, <1>11, DecidedIs DEF SamePlace
<1>13. x \in DOMAIN found /\ found[x] = e   BY <1>4, <1>5, <1>11, <1>12 DEF Decide
<1> QED BY <1>6, <1>12, <1>13 DEF ImageOf

-----------------------------------------------------------------------------
(***************************************************************************)
(* Which cells of the image end up redacted.                               *)
(***************************************************************************)
\* The box is over the k-th cell of line l.
Over(box, l, k) == box.line = l /\ box.x <= k /\ k + 1 <= box.x + box.width

Redacted(found, l, k) == \E i \in DOMAIN found : Over(found[i].box, l, k)

LEMMA PatternRedacts ==
  ASSUME NEW image \in Seq(Seq(TokenKinds)), NEW on, NEW strict, NEW d, d \in ToSet(ByPatterns(image, on)),
         NEW l, NEW k, Over(d.box, l, k)
  PROVE  Redacted(Findings(image, on, strict), l, k)
<1>1. PICK m \in DOMAIN image : d \in ToSet(RegexLine(m, image[m]))   BY PatternsFind
<1>2. m \in Nat /\ image[m] \in Seq(TokenKinds)   BY Lines
<1>3. ByPattern(d, m)   BY <1>1, <1>2, RegexLineFinds
<1>4. d \in DetectionRecord
  <2>1. ByPatterns(image, on) \in Seq(DetectionRecord)   BY PatternsFind
  <2> QED BY <2>1, LenProperties, ElementOfSeq DEF ToSet
<1>5. PICK c \in DetectionRecord : c = Canonical(d)   BY <1>4, CanonicalIs
<1>6. c.type = CanonicalType(d.type) /\ c.conf = d.conf /\ c.box = d.box   BY <1>4, <1>5, CanonicalIs
<1>7. Surest(ToSet(Detect(image, on)), c)   BY <1>4, <1>5, PatternIsSurest
<1>8. c \in ToSet(Detect(image, on))   BY <1>4, <1>5, DetectFinds DEF Finding
<1>9. Weighs(c)
  <2>1. BaseScore(c.type) \in {95, 90, 55} /\ c.conf \in {85, 90, 93}
    BY <1>3, <1>6 DEF ByPattern, CanonicalType, BaseScore
  <2>2. \A b \in {95, 90, 55}, conf \in {85, 90, 93} : conf >= 30 /\ b * conf >= 3000   OBVIOUS
  <2> QED BY <2>1, <2>2 DEF Weighs
<1>10. PICK e \in ImageOf(Findings(image, on, strict), DOMAIN Findings(image, on, strict)) : e.box = c.box
  BY <1>7, <1>8, <1>9, SurestIsRedacted
<1>11. Over(c.box, l, k)   BY <1>6
<1> QED BY <1>10, <1>11 DEF Redacted, ImageOf

LEMMA LabelRedacts ==
  ASSUME NEW image \in Seq(Seq(TokenKinds)), NEW on, NEW strict, NEW d, d \in ToSet(ByLabels(image, on)),
         \A c \in ToSet(ByPatterns(image, on)) : CanonicalType(c.type) = d.type => ~Overlap(c.box, d.box),
         NEW l, NEW k, Over(d.box, l, k)
  PROVE  Redacted(Findings(image, on, strict), l, k)
<1>1. d \in DetectionRecord
  <2>1. ByLabels(image, on) \in Seq(DetectionRecord)   BY LabelsFind
  <2> QED BY <2>1, LenProperties, ElementOfSeq DEF ToSet
<1>2. Surest(ToSet(Detect(image, on)), d) /\ Canonical(d) = d   BY <1>1, LabelIsSurest
<1>3. d \in ToSet(Detect(image, on))   BY <1>1, <1>2, DetectFinds DEF Finding
<1>4. Weighs(d)
  <2>1. PICK m \in DOMAIN image : d \in ToSet(ContextLine(m, image[m]))   BY LabelsFind
  <2>2. m \in Nat /\ image[m] \in Seq(TokenKinds)   BY Lines
  <2>3. d \in IF Labels(image[m]) = {} THEN {} ELSE {Promised(m, image[m])}   BY <2>1, <2>2, ContextLineFinds
  <2>4. ByLabel(d, m)
    <3>1. Labels(image[m]) # {} /\ d = Promised(m, image[m])   BY <2>3
    <3> QED BY <2>2, <3>1, ContextLineFinds
  <2>5. BaseScore(d.type) \in {55, 88} /\ d.conf = 75   BY <2>4 DEF ByLabel, BaseScore
  <2>6. \A b \in {55, 88} : b * 75 >= 3000   OBVIOUS
  <2> QED BY <2>5, <2>6 DEF Weighs
<1> QED BY <1>1, <1>2, <1>3, <1>4, SurestIsRedacted DEF Redacted, ImageOf

LEMMA KeptGuessRedacts ==
  ASSUME NEW image \in Seq(Seq(TokenKinds)), NEW on, NEW strict, NEW d,
         d \in ToSet(Unclaimed(Guesses(image, on), Classified(image, on))),
         NEW l, NEW k, Over(d.box, l, k)
  PROVE  Redacted(Findings(image, on, strict), l, k)
<1>1. d \in DetectionRecord /\ d \in ToSet(Guesses(image, on))
  <2>1. /\ Guesses(image, on) \in Seq(DetectionRecord) /\ d \in ToSet(Guesses(image, on))
    BY GuessesFind, UnclaimedAre
  <2> QED BY <2>1, LenProperties, ElementOfSeq DEF ToSet
<1>2. Surest(ToSet(Detect(image, on)), d) /\ Canonical(d) = d   BY <1>1, KeptGuessIsSurest
<1>3. d \in ToSet(Detect(image, on))   BY <1>1, <1>2, DetectFinds DEF Finding
<1>4. Weighs(d)
  <2>1. PICK m \in Nat : Unsure(d, m, {"BankAccount", "Passport"}, 50, "candidate_value")   BY <1>1, GuessesFind
  <2>2. BaseScore(d.type) \in {85, 88} /\ d.conf = 50   BY <2>1 DEF Unsure, BaseScore
  <2>3. \A b \in {85, 88} : b * 50 >= 3000   OBVIOUS
  <2> QED BY <2>2, <2>3 DEF Weighs
<1> QED BY <1>1, <1>2, <1>3, <1>4, SurestIsRedacted DEF Redacted, ImageOf

-----------------------------------------------------------------------------
(***************************************************************************)
(* A guess gives way only to what is redacted in its place.                *)
(***************************************************************************)
\* The claim came from a label, and a surer finding of its type may absorb it.
Absorbed(c, image, on) ==
  /\ c.layers = {"context"}
  /\ \E d \in ToSet(Classified(image, on)) :
       /\ Canonical(d).type = c.type /\ d.conf > c.conf /\ Overlap(d.box, c.box)

LEMMA GuessIsRedactedOrAbsorbed ==
  ASSUME NEW image \in Seq(Seq(TokenKinds)), NEW on, NEW strict, NEW g \in ToSet(Guesses(image, on))
  PROVE  \/ Redacted(Findings(image, on, strict), g.box.line, g.box.x)
         \/ \E c \in ToSet(Classified(image, on)) : Overlap(c.box, g.box) /\ Absorbed(c, image, on)
<1>0. Classified(image, on) \in Seq(DetectionRecord) /\ Guesses(image, on) \in Seq(DetectionRecord)
  BY ClaimsAre, GuessesFind
<1>1. PICK l \in Nat : Unsure(g, l, {"BankAccount", "Passport"}, 50, "candidate_value")   BY GuessesFind
<1>2. g.box.x \in Nat /\ g.box.x + g.box.width = g.box.x + 1   BY <1>1 DEF Unsure
<1>3. CASE \A c \in ToSet(Classified(image, on)) : ~Overlap(g.box, c.box)
  <2>1. g \in ToSet(Unclaimed(Guesses(image, on), Classified(image, on)))   BY <1>0, <1>3, UnclaimedAre
  <2>2. Over(g.box, g.box.line, g.box.x)   BY <1>2 DEF Over
  <2> QED BY <2>1, <2>2, KeptGuessRedacts
<1>4. ASSUME NEW c \in ToSet(Classified(image, on)), Overlap(g.box, c.box)
      PROVE  \/ Redacted(Findings(image, on, strict), g.box.line, g.box.x)
             \/ Overlap(c.box, g.box) /\ Absorbed(c, image, on)
  <2>1. c \in DetectionRecord   BY <1>0, LenProperties, ElementOfSeq DEF ToSet
  <2>2. Overlap(c.box, g.box) /\ c.box.line = g.box.line   BY <1>4, OverlapIsMutual
  <2>3. Over(c.box, g.box.line, g.box.x)
    <3>1. c.box.x \in Nat /\ c.box.width \in Nat   BY <2>1 DEF DetectionRecord
    <3>2. g.box.x < c.box.x + c.box.width /\ c.box.x < g.box.x + g.box.width   BY <1>4 DEF Overlap
    <3> QED BY <1>2, <2>2, <3>1, <3>2 DEF Over
  <2>4. CASE c \in ToSet(ByPatterns(image, on))   BY <2>3, <2>4, PatternRedacts
  <2>5. CASE c \in ToSet(ByLabels(image, on))
    <3>1. CASE \A d \in ToSet(ByPatterns(image, on)) : CanonicalType(d.type) = c.type => ~Overlap(d.box, c.box)
      BY <2>3, <2>5, <3>1, LabelRedacts
    <3>2. ASSUME NEW d \in ToSet(ByPatterns(image, on)), CanonicalType(d.type) = c.type, Overlap(d.box, c.box)
          PROVE  Absorbed(c, image, on)
      <4>1. d \in ToSet(Classified(image, on))   BY <3>2, ClaimsAre
      <4>2. d \in DetectionRecord   BY <1>0, <4>1, LenProperties, ElementOfSeq DEF ToSet
      <4>3. Canonical(d).type = c.type   BY <3>2, <4>2, CanonicalIs
      <4>4. d.conf \in {85, 90, 93}
        <5>1. PICK m \in DOMAIN image : d \in ToSet(RegexLine(m, image[m]))   BY <3>2, PatternsFind
        <5>2. m \in Nat /\ image[m] \in Seq(TokenKinds)   BY Lines
        <5>3. ByPattern(d, m)   BY <5>1, <5>2, RegexLineFinds
        <5> QED BY <5>3 DEF ByPattern
      <4>5. c.conf = 75 /\ c.layers = {"context"}
        <5>1. PICK m \in DOMAIN image : c \in ToSet(ContextLine(m, image[m]))   BY <2>5, LabelsFind
        <5>2. m \in Nat /\ image[m] \in Seq(TokenKinds)   BY Lines
        <5>3. c \in IF Labels(image[m]) = {} THEN {} ELSE {Promised(m, image[m])}   BY <5>1, <5>2, ContextLineFinds
        <5>4. ByLabel(c, m)
          <6>1. Labels(image[m]) # {} /\ c = Promised(m, image[m])   BY <5>3
          <6> QED BY <5>2, <6>1, ContextLineFinds
        <5> QED BY <5>4 DEF ByLabel
      <4>6. d.conf > c.conf   BY <4>4, <4>5
      <4> QED BY <3>2, <4>1, <4>3, <4>5, <4>6 DEF Absorbed
    <3> QED BY <2>2, <3>1, <3>2
  <2> QED BY <2>4, <2>5, ClaimsAre
<1> QED BY <1>3, <1>4

-----------------------------------------------------------------------------
(***************************************************************************)
(* A value of a known format is redacted.                                  *)
(***************************************************************************)
\* A pattern matches wherever it could, if no earlier place reaches so far.
LEMMA StartsUnlessTaken ==
  ASSUME NEW n \in Nat, NEW ends \in [1..n -> Nat], NEW k \in 1..n, ends[k] > 0,
         \A j \in 1..n : j < k => ~(k <= ends[j])
  PROVE  k \in FindIter(ends)
<1>1. FindIter(ends) \subseteq {i \in 1..n : ends[i] > 0}   BY MatchStarts
<1>2. k \in FindIter(ends) <=> ~\E j \in FindIter(ends) : j < k /\ k <= ends[j]   BY MatchStarts
<1> QED BY <1>1, <1>2

LEMMA MatchBoxes ==
  ASSUME NEW list, NEW l, NEW type, NEW conf, NEW skip, NEW ends, NEW starts,
         AreMatches(list, l, type, conf, skip, ends, starts)
  PROVE  /\ \A i \in starts : \E d \in ToSet(list) : d.box = Box(l, i + skip, ends[i])
         /\ \A d \in ToSet(list) : d.type = type /\ \E i \in starts : d.box = Box(l, i + skip, ends[i])
<1> DEFINE F == [i \in starts |-> Found(type, conf, Box(l, i + skip, ends[i]), "regex", FALSE)]
<1>1. ToSet(list) = {F[i] : i \in starts} /\ \A d \in ToSet(list) : d.type = type   BY DEF AreMatches
<1>2. \A i \in starts : F[i].box = Box(l, i + skip, ends[i])   BY DEF Found
<1> HIDE DEF F
<1> QED BY <1>1, <1>2

\* The boxes of what each pattern finds.
LEMMA PatternBoxes ==
  ASSUME NEW l \in Nat, NEW ts \in Seq(TokenKinds)
  PROVE  /\ \A i \in FindIter(SecretEnds(ts)) : \E d \in ToSet(RegexLine(l, ts)) : d.box = Box(l, i + 2, SecretEnds(ts)[i])
         /\ \A i \in FindIter(IdEnds(ts)) : \E d \in ToSet(RegexLine(l, ts)) : d.box = Box(l, i + 0, IdEnds(ts)[i])
         /\ \A i \in FindIter(PhoneEnds(ts)) : \E d \in ToSet(RegexLine(l, ts)) : d.box = Box(l, i + 0, PhoneEnds(ts)[i])
         /\ \A i \in CardStarts(ts) : \E d \in ToSet(RegexLine(l, ts)) : d.box = Box(l, i + 0, CardEnds(ts)[i])
         /\ \A d \in ToSet(RegexLine(l, ts)) : d.type = "PhoneTW" =>
              \E i \in FindIter(PhoneEnds(ts)) : d.box = Box(l, i + 0, PhoneEnds(ts)[i])
<1> DEFINE secret == "SecretKeyValue"
           id == "TaiwanID"
           phone == "PhoneTW"
           card == "CreditCard"
           high == 90
           sure == 85
           checked == 93
           two == 2
           none == 0
<1>1. /\ AreMatches(Secrets(l, ts), l, secret, high, two, SecretEnds(ts), FindIter(SecretEnds(ts)))
      /\ AreMatches(Ids(l, ts), l, id, sure, none, IdEnds(ts), FindIter(IdEnds(ts)))
      /\ AreMatches(Phones(l, ts), l, phone, sure, none, PhoneEnds(ts), FindIter(PhoneEnds(ts)))
      /\ AreMatches(Cards(l, ts), l, card, checked, none, CardEnds(ts), CardStarts(ts))
  BY PatternsMatch
<1>2. secret # phone /\ id # phone /\ card # phone   OBVIOUS
<1> HIDE DEF secret, id, phone, card, high, sure, checked, two, none
<1>3. /\ \A i \in FindIter(SecretEnds(ts)) : \E d \in ToSet(Secrets(l, ts)) : d.box = Box(l, i + two, SecretEnds(ts)[i])
      /\ \A d \in ToSet(Secrets(l, ts)) : d.type = secret
  BY <1>1, MatchBoxes
<1>4. /\ \A i \in FindIter(IdEnds(ts)) : \E d \in ToSet(Ids(l, ts)) : d.box = Box(l, i + none, IdEnds(ts)[i])
      /\ \A d \in ToSet(Ids(l, ts)) : d.type = id
  BY <1>1, MatchBoxes
<1>5. /\ \A i \in FindIter(PhoneEnds(ts)) : \E d \in ToSet(Phones(l, ts)) : d.box = Box(l, i + none, PhoneEnds(ts)[i])
      /\ \A d \in ToSet(Phones(l, ts)) : \E i \in FindIter(PhoneEnds(ts)) : d.box = Box(l, i + none, PhoneEnds(ts)[i])
  BY <1>1, MatchBoxes
<1>6. /\ \A i \in CardStarts(ts) : \E d \in ToSet(Cards(l, ts)) : d.box = Box(l, i + none, CardEnds(ts)[i])
      /\ \A d \in ToSet(Cards(l, ts)) : d.type = card
  BY <1>1, MatchBoxes
<1>7. ToSet(RegexLine(l, ts)) = ToSet(Secrets(l, ts)) \cup ToSet(Ids(l, ts)) \cup ToSet(Phones(l, ts)) \cup ToSet(Cards(l, ts))
  BY RegexLineFinds
<1>8. \A d \in ToSet(RegexLine(l, ts)) : d.type = phone =>
        \E i \in FindIter(PhoneEnds(ts)) : d.box = Box(l, i + none, PhoneEnds(ts)[i])
  BY <1>2, <1>3, <1>4, <1>5, <1>6, <1>7
<1> USE DEF two, none, phone
<1> QED BY <1>3, <1>4, <1>5, <1>6, <1>7, <1>8

\* What a pattern finds on a line is redacted.
LEMMA MatchRedacts ==
  ASSUME NEW image \in Seq(Seq(TokenKinds)), NEW on, "regex" \in on, NEW strict, NEW l \in DOMAIN image,
         NEW a \in Nat, NEW b \in Nat, NEW d \in ToSet(RegexLine(l, image[l])), d.box = Box(l, a, b),
         NEW k \in a..b
  PROVE  Redacted(Findings(image, on, strict), l, k)
<1>1. Over(Box(l, a, b), l, k)   BY DEF Over, Box
<1>2. d \in ToSet(ByPatterns(image, on))   BY PatternsFind
<1>3. Over(d.box, l, k)   BY <1>1
<1> QED BY <1>2, <1>3, PatternRedacts

\* Where an ID, or a phone number, stands, its pattern matches.
LEMMA SingleTokenRedacted ==
  ASSUME NEW image \in Seq(Seq(TokenKinds)), NEW on, "regex" \in on, NEW strict, NEW l \in DOMAIN image,
         NEW k \in DOMAIN image[l], image[l][k] \in {"taiwanId", "phone"}
  PROVE  Redacted(Findings(image, on, strict), l, k)
<1>1. PICK ts \in Seq(TokenKinds) : ts = image[l] /\ l \in Nat   BY Lines
<1>2. Len(ts) \in Nat /\ DOMAIN ts = 1..Len(ts) /\ k \in 1..Len(ts) /\ k \in Nat   BY <1>1, LenProperties
<1>3. CASE ts[k] = "taiwanId"
  <2>1. PICK ends : ends = IdEnds(ts)   OBVIOUS
  <2>2. ends \in [1..Len(ts) -> Nat] /\ \A i \in 1..Len(ts) : ends[i] \in {0, i}
    BY <1>2, <2>1, PatternsReach DEF Reach, IdEnds, TaiwanIdEnd
  <2>3. ends[k] = k   BY <1>2, <1>3, <2>1 DEF IdEnds, TaiwanIdEnd
  <2>4. ASSUME NEW j \in 1..Len(ts), j < k PROVE ~(k <= ends[j])
    <3>1. ends[j] = 0 \/ ends[j] = j   BY <2>2
    <3>2. j \in Nat /\ k \in Nat   BY <1>2
    <3> QED BY <2>4, <3>1, <3>2
  <2>5. k \in FindIter(ends)
    <3>1. ends[k] > 0   BY <1>2, <2>3
    <3> QED BY <1>2, <2>2, <2>4, <3>1, StartsUnlessTaken
  <2>6. PICK d \in ToSet(RegexLine(l, ts)) : d.box = Box(l, k + 0, ends[k])   BY <1>1, <2>1, <2>5, PatternBoxes
  <2>7. d.box = Box(l, k, k) /\ k \in k..k   BY <1>2, <2>3, <2>6
  <2> QED BY <1>1, <1>2, <2>6, <2>7, MatchRedacts
<1>4. CASE ts[k] = "phone"
  <2>1. PICK ends : ends = PhoneEnds(ts)   OBVIOUS
  <2>2. ends \in [1..Len(ts) -> Nat] /\ \A i \in 1..Len(ts) : ends[i] \in {0, i}
    BY <1>2, <2>1, PatternsReach DEF Reach, PhoneEnds, PhoneEnd
  <2>3. ends[k] = k   BY <1>2, <1>4, <2>1 DEF PhoneEnds, PhoneEnd
  <2>4. ASSUME NEW j \in 1..Len(ts), j < k PROVE ~(k <= ends[j])
    <3>1. ends[j] = 0 \/ ends[j] = j   BY <2>2
    <3>2. j \in Nat /\ k \in Nat   BY <1>2
    <3> QED BY <2>4, <3>1, <3>2
  <2>5. k \in FindIter(ends)
    <3>1. ends[k] > 0   BY <1>2, <2>3
    <3> QED BY <1>2, <2>2, <2>4, <3>1, StartsUnlessTaken
  <2>6. PICK d \in ToSet(RegexLine(l, ts)) : d.box = Box(l, k + 0, ends[k])   BY <1>1, <2>1, <2>5, PatternBoxes
  <2>7. d.box = Box(l, k, k) /\ k \in k..k   BY <1>2, <2>3, <2>6
  <2> QED BY <1>1, <1>2, <2>6, <2>7, MatchRedacts
<1> QED BY <1>1, <1>3, <1>4

\* The keyword and the colon of a secret.
Keyword(ts, k) == k > 0 /\ k + 2 <= Len(ts) /\ ts[k] = "password" /\ ts[k + 1] = "colon"

\* A keyword takes the secret after it, unless it is the value of the match before.
LEMMA SecretRedacted ==
  ASSUME NEW image \in Seq(Seq(TokenKinds)), NEW on, "regex" \in on, NEW strict, NEW l \in DOMAIN image,
         NEW k \in DOMAIN image[l], image[l][k] = "secret", Keyword(image[l], k - 2), ~Keyword(image[l], k - 4)
  PROVE  Redacted(Findings(image, on, strict), l, k)
<1>1. PICK ts \in Seq(TokenKinds) : ts = image[l] /\ l \in Nat   BY Lines
<1>2. Len(ts) \in Nat /\ DOMAIN ts = 1..Len(ts) /\ k \in 1..Len(ts)   BY <1>1, LenProperties
<1>3. PICK s : s = k - 2   OBVIOUS
<1>4. /\ s \in 1..Len(ts) /\ s \in Nat /\ k = s + 2 /\ s + 2 <= Len(ts)
      /\ ts[s] = "password" /\ ts[s + 1] = "colon" /\ ts[s + 2] = "secret"
  BY <1>1, <1>2, <1>3, SMTT(40) DEF Keyword
<1>5. PICK ends : ends = SecretEnds(ts)   OBVIOUS
<1>6. ends \in [1..Len(ts) -> Nat]   BY <1>5, PatternsReach DEF Reach
<1>7. ends[s] = k
  <2>1. "secret" \in Ascii   BY DEF Ascii
  <2>2. LongEnough(ts, s + 2) /\ GluedEnd(ts, s + 2) = s + 2   BY <1>4, <2>1 DEF LongEnough, GluedEnd
  <2>3. SecretEnd(ts, s) = s + 2   BY <1>4, <2>2 DEF SecretEnd
  <2> QED BY <1>2, <1>4, <1>5, <2>3 DEF SecretEnds
<1>8. ASSUME NEW j \in 1..Len(ts), j < s, s <= ends[j] PROVE FALSE
  <2>1. /\ ts[j] = "password" /\ j + 2 <= Len(ts) /\ ts[j + 1] = "colon"
        /\ ends[j] = GluedEnd(ts, j + 2)
    <3>1. ends[j] = SecretEnd(ts, j) /\ ends[j] # 0   BY <1>2, <1>4, <1>5, <1>8 DEF SecretEnds
    <3> QED BY <3>1 DEF SecretEnd
  <2>2. j \in Nat /\ j + 2 \in 1..Len(ts) /\ j + 1 # s
    <3>1. j \in Nat /\ j + 2 \in 1..Len(ts)   BY <1>2, <2>1, SMTT(40)
    <3>2. ts[j + 1] # ts[s]   BY <1>4, <2>1
    <3> QED BY <3>1, <3>2
  <2>3. /\ GluedEnd(ts, j + 2) \in (j + 2)..Len(ts)
        /\ ts[j + 2] \in Ascii => GluedEnd(ts, j + 2) = j + 2
        /\ ts[j + 2] \notin Ascii => \A m \in (j + 2)..GluedEnd(ts, j + 2) : ts[m] \notin Ascii
    BY <2>2, GluedEndIs
  <2>4. CASE ts[j + 2] \in Ascii
    <3>1. j + 2 = s   BY <1>4, <1>8, <2>1, <2>2, <2>3, <2>4
    <3>2. j = k - 4   BY <1>4, <2>2, <3>1
    <3>3. Keyword(ts, k - 4)   BY <2>1, <2>2, <3>2 DEF Keyword
    <3> QED BY <1>1, <3>3
  <2>5. CASE ts[j + 2] \notin Ascii
    <3>1. s \in (j + 2)..GluedEnd(ts, j + 2)   BY <1>4, <1>8, <2>1, <2>2, <2>3
    <3>2. ts[s] \in Ascii   BY <1>4 DEF Ascii
    <3> QED BY <2>3, <2>5, <3>1, <3>2
  <2> QED BY <2>4, <2>5
<1>9. s \in FindIter(ends)
  <2>1. \A j \in 1..Len(ts) : j < s => ~(s <= ends[j])   BY <1>8
  <2>2. ends[s] > 0   BY <1>2, <1>7
  <2> QED BY <1>2, <1>4, <1>6, <2>1, <2>2, StartsUnlessTaken
<1>10. PICK d \in ToSet(RegexLine(l, ts)) : d.box = Box(l, s + 2, ends[s])   BY <1>1, <1>5, <1>9, PatternBoxes
<1>11. d.box = Box(l, k, k) /\ k \in k..k /\ k \in Nat   BY <1>2, <1>4, <1>7, <1>10
<1> QED BY <1>1, <1>10, <1>11, MatchRedacts

\* A card number in two tokens is found if no other digits precede it.
LEMMA CardRedacted ==
  ASSUME NEW image \in Seq(Seq(TokenKinds)), NEW on, "regex" \in on, NEW strict, NEW l \in DOMAIN image,
         NEW k \in DOMAIN image[l], k > 1, LuhnValid(image[l], k - 1),
         \A j \in 1..(k - 2) : Digits(image[l][j]) = 0
  PROVE  Redacted(Findings(image, on, strict), l, k)
<1>1. PICK ts \in Seq(TokenKinds) : ts = image[l] /\ l \in Nat   BY Lines
<1>2. Len(ts) \in Nat /\ DOMAIN ts = 1..Len(ts) /\ k \in 1..Len(ts)   BY <1>1, LenProperties
<1>3. PICK s : s = k - 1   OBVIOUS
<1>4. s \in 1..Len(ts) /\ s \in Nat /\ k = s + 1 /\ s < Len(ts)   BY <1>2, <1>3
<1>5. ts[s] = "cardHalf" /\ ts[s + 1] = "cardHalf"
  <2>1. SubSeq(ts, s, s + 1) = <<"cardHalf", "cardHalf">>   BY <1>1, <1>3 DEF LuhnValid
  <2>2. s + 1 \in 1..Len(ts) /\ 1 \in 1..2 /\ 2 \in 1..2   BY <1>4
  <2>3. SubSeq(ts, s, s + 1)[1] = ts[s] /\ SubSeq(ts, s, s + 1)[2] = ts[s + 1]
    BY <1>4, <2>2, SubSeqProperties
  <2>4. PICK t : t = SubSeq(ts, s, s + 1)   OBVIOUS
  <2>5. t = <<"cardHalf", "cardHalf">>   BY <2>1, <2>4
  <2>6. t[1] = "cardHalf" /\ t[2] = "cardHalf"   BY <2>5
  <2> QED BY <2>3, <2>4, <2>6
<1>6. PICK ends : ends = CardEnds(ts)   OBVIOUS
<1>7. ends \in [1..Len(ts) -> Nat]   BY <1>6, PatternsReach DEF Reach
<1>8. ends[s] = k
  <2>1. Digits(ts[s]) = 8 /\ Digits(ts[s + 1]) = 8   BY <1>5 DEF Digits
  <2>2. CardEnd(ts, s) = s + 1   BY <1>4, <2>1 DEF CardEnd
  <2> QED BY <1>2, <1>4, <1>6, <2>2 DEF CardEnds
<1>9. ASSUME NEW j \in 1..Len(ts), j < s, s <= ends[j] PROVE FALSE
  <2>1. ends[j] = CardEnd(ts, j) /\ ends[j] # 0   BY <1>2, <1>4, <1>6, <1>9 DEF CardEnds
  <2>2. ends[j] = j + 1 /\ Digits(ts[j]) + Digits(ts[j + 1]) \in 13..19   BY <2>1 DEF CardEnd
  <2>3. j \in Nat /\ j + 1 = s /\ j \in 1..(k - 2)   BY <1>4, <1>9, <2>2
  <2>4. Digits(ts[j]) = 0 /\ Digits(ts[j + 1]) = 8   BY <1>1, <1>5, <2>3 DEF Digits
  <2> QED BY <2>2, <2>4
<1>10. s \in CardStarts(ts)
  <2>1. \A j \in 1..Len(ts) : j < s => ~(s <= ends[j])   BY <1>9
  <2>2. ends[s] > 0   BY <1>2, <1>8
  <2>3. s \in FindIter(ends)   BY <1>2, <1>4, <1>7, <2>1, <2>2, StartsUnlessTaken
  <2> QED BY <1>1, <1>3, <1>6, <2>3 DEF CardStarts
<1>11. PICK d \in ToSet(RegexLine(l, ts)) : d.box = Box(l, s + 0, ends[s])   BY <1>1, <1>6, <1>10, PatternBoxes
<1>12. d.box = Box(l, s, k) /\ k \in s..k /\ k \in Nat   BY <1>2, <1>4, <1>8, <1>11
<1> QED BY <1>1, <1>4, <1>11, <1>12, MatchRedacts

\* The value after the first label of its line is redacted, unless the label promises
\* a phone number, and a surer one follows.
LEMMA LabelledRedacted ==
  ASSUME NEW image \in Seq(Seq(TokenKinds)), NEW on, "context" \in on, NEW strict, NEW l \in DOMAIN image,
         NEW k \in DOMAIN image[l], Labels(image[l]) # {}, k = LabelEnd(image[l], Min(Labels(image[l]))) + 2,
         LabelType(image[l][Min(Labels(image[l]))]) = "Phone" =>
           \A j \in k..Len(image[l]) : image[l][j] # "phone"
  PROVE  Redacted(Findings(image, on, strict), l, k)
<1>1. PICK ts \in Seq(TokenKinds) : ts = image[l] /\ l \in Nat   BY Lines
<1>2. Len(ts) \in Nat /\ DOMAIN ts = 1..Len(ts) /\ k \in 1..Len(ts) /\ k \in Nat   BY <1>1, LenProperties
<1>3. PICK d : d = Promised(l, ts)   OBVIOUS
<1>4. /\ d \in ToSet(ContextLine(l, ts)) /\ ByLabel(d, l) /\ d.type = LabelType(ts[Min(Labels(ts))])
      /\ d.box = Box(l, k, Len(ts))
  BY <1>1, <1>3, ContextLineFinds
<1>5. d \in ToSet(ByLabels(image, on))   BY <1>1, <1>4, LabelsFind
<1>6. d.box.line = l /\ d.box.x = k /\ d.box.x + d.box.width = Len(ts) + 1   BY <1>2, <1>4 DEF Box
<1>7. ASSUME NEW c \in ToSet(ByPatterns(image, on)), CanonicalType(c.type) = d.type, Overlap(c.box, d.box)
      PROVE  FALSE
  <2>1. PICK m \in DOMAIN image : c \in ToSet(RegexLine(m, image[m]))   BY PatternsFind
  <2>2. m \in Nat /\ image[m] \in Seq(TokenKinds)   BY Lines
  <2>3. ByPattern(c, m)   BY <2>1, <2>2, RegexLineFinds
  <2>4. m = l   BY <1>6, <1>7, <2>3 DEF ByPattern, Overlap
  <2>5. c.type = "PhoneTW" /\ d.type = "Phone"   BY <1>4, <1>7, <2>3 DEF ByPattern, ByLabel, CanonicalType
  <2>7. PICK i \in FindIter(PhoneEnds(ts)) : c.box = Box(l, i + 0, PhoneEnds(ts)[i])
    BY <1>1, <2>1, <2>4, <2>5, PatternBoxes
  <2>8. i \in 1..Len(ts) /\ PhoneEnds(ts)[i] > 0
    <3>1. PhoneEnds(ts) \in [1..Len(ts) -> Nat]   BY <1>1, PatternsReach DEF Reach
    <3> QED BY <1>2, <3>1, MatchStarts
  <2>9. ts[i] = "phone" /\ PhoneEnds(ts)[i] = i   BY <1>2, <2>8 DEF PhoneEnds, PhoneEnd
  <2>10. c.box = Box(l, i, i)   BY <2>7, <2>8, <2>9
  <2>11. i >= k
    <3>1. c.box.x = i /\ c.box.width = 1   BY <2>8, <2>10 DEF Box
    <3>2. d.box.x < c.box.x + c.box.width   BY <1>7 DEF Overlap
    <3> QED BY <1>2, <1>6, <2>8, <3>1, <3>2
  <2>12. i \in k..Len(ts)   BY <1>2, <2>8, <2>11
  <2> QED BY <1>1, <1>4, <2>5, <2>9, <2>12
<1>8. Over(d.box, l, k)   BY <1>2, <1>6 DEF Over
<1> QED BY <1>5, <1>7, <1>8, LabelRedacts

-----------------------------------------------------------------------------
(***************************************************************************)
(* The requests: the inductive invariant.                                  *)
(***************************************************************************)
Fields == {"pc", "thread", "kind", "user", "token", "items", "fits", "error", "out", "reply", "events"}
ReplyFields == {"status", "masks", "image"}
Shape == /\ req = [r \in Requests |-> req[r]]
         /\ \A r \in Requests : /\ req[r] = [f \in Fields |-> req[r][f]]
                                /\ req[r].reply = [f \in ReplyFields |-> req[r].reply[f]]
                                /\ req[r].out = [f \in ReplyFields |-> req[r].out[f]]

WellFound(ds) == /\ DOMAIN ds \subseteq Nat \ {0}
                 /\ \A i \in DOMAIN ds : ds[i] \in DetectionRecord /\ ds[i].action # "NONE"
Token == [owner : scenario.users, dets : Tailed(findings), spent : BOOLEAN, by : SUBSET Requests]
Given == /\ scenario \in Scenarios /\ WellFound(findings)
         /\ tokens \in Seq(Token)

\* Where a request's handler and thread are, and what it was let in with.
Placed(r) ==
  /\ req[r].pc \in {"idle", "waiting", "answered"} /\ req[r].kind \in Kinds
  /\ req[r].thread \in {"none", "started", "reviewing", "ended"}
  /\ req[r].token \in 0..Len(tokens)
  /\ req[r].pc = "waiting" => req[r].thread # "none"
  /\ req[r].pc = "idle" => req[r].thread = "none"
  /\ req[r].pc # "answered" => req[r].reply = NoReply
  /\ req[r].thread # "none" => req[r].user \in scenario.users
  /\ req[r].thread = "reviewing" => req[r].kind = "review"
  /\ req[r].kind = "review" /\ req[r].thread # "none" =>
       /\ req[r].token # 0 /\ req[r].items \in Seq(Item)
       /\ Needed(req[r].items) \subseteq Permissions[req[r].user]

\* What a thread has made, and from what.
Made(r) ==
  /\ req[r].thread # "ended" \/ req[r].error # "none" => req[r].out = NoReply
  /\ req[r].kind \in {"analyze", "redact"} /\ req[r].thread = "ended" => req[r].out.masks \in Tailed(findings)
  /\ req[r].kind = "review" /\ req[r].thread = "ended" /\ req[r].error = "none" =>
       /\ ~Invalid(DetsOf(r), req[r].items, req[r].fits)
       /\ req[r].events = Events(DetsOf(r), req[r].items)
       /\ \E tail \in Tails : req[r].out = ReviewOutcome(DetsOf(r), req[r].items, tail)
       /\ r \in tokens[req[r].token].by
  /\ req[r].kind = "review" /\ req[r].thread = "reviewing" => r \in tokens[req[r].token].by

\* An answer hands out nothing, or what the thread made, audited.
Sent(r) ==
  req[r].pc = "answered" =>
    \/ req[r].reply.masks = <<>> /\ req[r].reply.image = FALSE
    \/ /\ req[r].thread = "ended" /\ req[r].error = "none"
       /\ req[r].reply.masks = req[r].out.masks /\ req[r].reply.status = req[r].out.status
       /\ Emitted(r) \subseteq audit

Local(r) == Placed(r) /\ Made(r) /\ Sent(r)

Spending == \A t \in DOMAIN tokens :
  /\ ~tokens[t].spent => tokens[t].by = {}
  /\ \A r \in tokens[t].by : /\ tokens[t].by = {r}
                             /\ req[r].kind = "review" /\ req[r].token = t
                             /\ req[r].thread \in {"reviewing", "ended"}
                             /\ req[r].user = tokens[t].owner

Capacity == IsFiniteSet(Holding) /\ Cardinality(Holding) <= MaxJobs

IInv == Shape /\ Given /\ (\A r \in Requests : Local(r)) /\ Spending /\ Capacity
-----------------------------------------------------------------------------
(***************************************************************************)
(* What each action does to the request it is about.                       *)
(***************************************************************************)
Elsewhere(r) == \A q \in Requests : q # r => req'[q] = req[q]

LEMMA OneChanges ==
  ASSUME Shape, NEW r \in Requests, NEW x,
         x = [f \in Fields |-> x[f]],
         x.reply = [f \in ReplyFields |-> x.reply[f]], x.out = [f \in ReplyFields |-> x.out[f]],
         req' = [req EXCEPT ![r] = x]
  PROVE  Shape' /\ req'[r] = x /\ Elsewhere(r)
<1>1. req = [q \in Requests |-> req[q]]   BY DEF Shape
<1>2. req' = [q \in Requests |-> req'[q]] /\ req'[r] = x /\ Elsewhere(r)   BY <1>1 DEF Elsewhere
<1> QED BY <1>2 DEF Shape, Elsewhere

LEMMA NoReplyShape == NoReply = [f \in ReplyFields |-> NoReply[f]]
BY DEF NoReply, ReplyFields

LEMMA RefuseEffect ==
  ASSUME Shape, NEW r \in Requests, NEW kind, NEW user, NEW status, Refuse(r, kind, user, status)
  PROVE  /\ Shape' /\ Elsewhere(r) /\ UNCHANGED <<scenario, findings, tokens, audit>>
         /\ req'[r].pc = "answered" /\ req'[r].thread = "none" /\ req'[r].kind = kind
         /\ req'[r].token = 0 /\ req'[r].error = "none" /\ req'[r].out = NoReply
         /\ req'[r].reply.masks = <<>> /\ req'[r].reply.image = FALSE
<1> DEFINE answer == [NoReply EXCEPT !.status = status]
           x == [NoRequest EXCEPT !.pc = "answered", !.kind = kind, !.user = user, !.reply = answer]
<1>1. /\ answer = [f \in ReplyFields |-> answer[f]]
      /\ answer.masks = <<>> /\ answer.image = FALSE
  BY DEF NoReply, ReplyFields
<1> HIDE DEF answer
<1>2. /\ x = [f \in Fields |-> x[f]] /\ x.reply = answer /\ x.out = NoReply
      /\ x.pc = "answered" /\ x.thread = "none" /\ x.kind = kind /\ x.token = 0 /\ x.error = "none"
  BY DEF NoRequest, Fields
<1>3. req' = [req EXCEPT ![r] = x] /\ UNCHANGED <<scenario, findings, tokens, audit>>
  BY DEF Refuse, answer
<1> HIDE DEF x
<1>4. Shape' /\ req'[r] = x /\ Elsewhere(r)   BY <1>1, <1>2, <1>3, NoReplyShape, OneChanges
<1> QED BY <1>1, <1>2, <1>3, <1>4

LEMMA EnterEffect ==
  ASSUME Shape, NEW r \in Requests, NEW kind, NEW user, NEW token, NEW s, Enter(r, kind, user, token, s)
  PROVE  /\ Shape' /\ Elsewhere(r) /\ UNCHANGED <<scenario, findings, tokens, audit>>
         /\ req'[r].pc = "waiting" /\ req'[r].thread = "started" /\ req'[r].kind = kind
         /\ req'[r].user = user /\ req'[r].token = token /\ req'[r].items = s.items
         /\ req'[r].error = "none" /\ req'[r].out = NoReply /\ req'[r].reply = NoReply
<1> DEFINE x == [NoRequest EXCEPT !.pc = "waiting", !.thread = "started", !.kind = kind, !.user = user,
                                  !.token = token, !.items = s.items, !.fits = s.fits]
<1>1. /\ x = [f \in Fields |-> x[f]] /\ x.reply = NoReply /\ x.out = NoReply
      /\ x.pc = "waiting" /\ x.thread = "started" /\ x.kind = kind /\ x.user = user
      /\ x.token = token /\ x.items = s.items /\ x.error = "none"
  BY DEF NoRequest, Fields
<1>2. req' = [req EXCEPT ![r] = x] /\ UNCHANGED <<scenario, findings, tokens, audit>>   BY DEF Enter
<1> HIDE DEF x
<1>3. Shape' /\ req'[r] = x /\ Elsewhere(r)   BY <1>1, <1>2, NoReplyShape, OneChanges
<1> QED BY <1>1, <1>2, <1>3

LEMMA EndEffect ==
  ASSUME Shape, NEW r \in Requests, NEW error, NEW out, NEW events, End(r, error, out, events),
         out = [f \in ReplyFields |-> out[f]]
  PROVE  /\ Shape' /\ Elsewhere(r)
         /\ req'[r].thread = "ended" /\ req'[r].error = error /\ req'[r].out = out
         /\ req'[r].events = events /\ req'[r].pc = req[r].pc /\ req'[r].kind = req[r].kind
         /\ req'[r].user = req[r].user /\ req'[r].token = req[r].token
         /\ req'[r].items = req[r].items /\ req'[r].fits = req[r].fits /\ req'[r].reply = req[r].reply
<1> DEFINE x == [req[r] EXCEPT !.thread = "ended", !.error = error, !.out = out, !.events = events]
<1>1. req[r] = [f \in Fields |-> req[r][f]] /\ req = [q \in Requests |-> req[q]]   BY DEF Shape
<1>2. /\ x = [f \in Fields |-> x[f]] /\ x.thread = "ended" /\ x.error = error /\ x.out = out
      /\ x.events = events /\ x.pc = req[r].pc /\ x.kind = req[r].kind /\ x.user = req[r].user
      /\ x.token = req[r].token /\ x.items = req[r].items /\ x.fits = req[r].fits
      /\ x.reply = req[r].reply
  BY <1>1 DEF Fields
<1>3. req' = [req EXCEPT ![r] = x]   BY <1>1 DEF End
<1>4. req[r].reply = [f \in ReplyFields |-> req[r].reply[f]]   BY DEF Shape
<1> HIDE DEF x
<1>5. Shape' /\ req'[r] = x /\ Elsewhere(r)   BY <1>2, <1>3, <1>4, OneChanges
<1> QED BY <1>2, <1>5

LEMMA ConsumeEffect ==
  ASSUME Shape, NEW r \in Requests, req' = [req EXCEPT ![r].thread = "reviewing"]
  PROVE  /\ Shape' /\ Elsewhere(r)
         /\ req'[r].thread = "reviewing" /\ req'[r].error = req[r].error /\ req'[r].out = req[r].out
         /\ req'[r].pc = req[r].pc /\ req'[r].kind = req[r].kind
         /\ req'[r].user = req[r].user /\ req'[r].token = req[r].token
         /\ req'[r].items = req[r].items /\ req'[r].reply = req[r].reply
<1> DEFINE x == [req[r] EXCEPT !.thread = "reviewing"]
<1>1. req[r] = [f \in Fields |-> req[r][f]] /\ req = [q \in Requests |-> req[q]]   BY DEF Shape
<1>2. /\ x = [f \in Fields |-> x[f]] /\ x.thread = "reviewing" /\ x.error = req[r].error
      /\ x.out = req[r].out /\ x.pc = req[r].pc /\ x.kind = req[r].kind /\ x.user = req[r].user
      /\ x.token = req[r].token /\ x.items = req[r].items /\ x.reply = req[r].reply
  BY <1>1 DEF Fields
<1>3. req' = [req EXCEPT ![r] = x]   BY <1>1
<1>4. /\ req[r].reply = [f \in ReplyFields |-> req[r].reply[f]]
      /\ req[r].out = [f \in ReplyFields |-> req[r].out[f]]
  BY DEF Shape
<1> HIDE DEF x
<1>5. Shape' /\ req'[r] = x /\ Elsewhere(r)   BY <1>2, <1>3, <1>4, OneChanges
<1> QED BY <1>2, <1>5

\* An answer: the handler is done, the thread is left alone.
LEMMA ReplyEffect ==
  ASSUME Shape, NEW r \in Requests, NEW reply, reply = [f \in ReplyFields |-> reply[f]],
         req' = [req EXCEPT ![r] = [req[r] EXCEPT !.pc = "answered", !.reply = reply]]
  PROVE  /\ Shape' /\ Elsewhere(r)
         /\ req'[r].pc = "answered" /\ req'[r].reply = reply
         /\ req'[r].thread = req[r].thread /\ req'[r].error = req[r].error /\ req'[r].out = req[r].out
         /\ req'[r].kind = req[r].kind /\ req'[r].user = req[r].user /\ req'[r].token = req[r].token
         /\ req'[r].items = req[r].items /\ req'[r].fits = req[r].fits /\ req'[r].events = req[r].events
<1> DEFINE x == [req[r] EXCEPT !.pc = "answered", !.reply = reply]
<1>1. req[r] = [f \in Fields |-> req[r][f]]   BY DEF Shape
<1>2. /\ x = [f \in Fields |-> x[f]] /\ x.pc = "answered" /\ x.reply = reply
      /\ x.thread = req[r].thread /\ x.error = req[r].error /\ x.out = req[r].out
      /\ x.kind = req[r].kind /\ x.user = req[r].user /\ x.token = req[r].token
      /\ x.items = req[r].items /\ x.fits = req[r].fits /\ x.events = req[r].events
  BY <1>1 DEF Fields
<1>3. req[r].out = [f \in ReplyFields |-> req[r].out[f]]   BY DEF Shape
<1>4. req' = [req EXCEPT ![r] = x]   OBVIOUS
<1> HIDE DEF x
<1>5. Shape' /\ req'[r] = x /\ Elsewhere(r)   BY <1>2, <1>3, <1>4, OneChanges
<1> QED BY <1>2, <1>5
LEMMA OutcomeFields ==
  ASSUME NEW ds, NEW tail, NEW human
  PROVE  /\ Outcome(ds, tail, human) = [f \in ReplyFields |-> Outcome(ds, tail, human)[f]]
         /\ Outcome(ds, tail, human).masks = ds
BY DEF Outcome, ReplyFields

LEMMA AnswerEffect ==
  ASSUME Shape, NEW r \in Requests, Answer(r) \/ Timeout(r)
  PROVE  \E reply :
           /\ reply = [f \in ReplyFields |-> reply[f]]
           /\ req' = [req EXCEPT ![r] = [req[r] EXCEPT !.pc = "answered", !.reply = reply]]
           /\ \/ /\ reply.masks = req[r].reply.masks /\ reply.image = req[r].reply.image
                 /\ UNCHANGED <<tokens, audit>>
              \/ /\ Answer(r) /\ req[r].error = "none"
                 /\ reply.masks = req[r].out.masks /\ reply.status = req[r].out.status
                 /\ audit' = audit \cup Emitted(r)
                 /\ tokens' = IF req[r].kind = "analyze"
                              THEN Append(tokens, [owner |-> req[r].user, dets |-> req[r].out.masks,
                                                   spent |-> FALSE, by |-> {}])
                              ELSE tokens
<1>0. /\ req = [q \in Requests |-> req[q]] /\ req[r] = [f \in Fields |-> req[r][f]]
      /\ req[r].reply = [f \in ReplyFields |-> req[r].reply[f]]
      /\ req[r].out = [f \in ReplyFields |-> req[r].out[f]]
  BY SMTT(40) DEF Shape
<1>1. ASSUME NEW status, UNCHANGED <<tokens, audit>>,
             req' = [req EXCEPT ![r].pc = "answered", ![r].reply.status = status]
      PROVE  \E reply :
               /\ reply = [f \in ReplyFields |-> reply[f]]
               /\ req' = [req EXCEPT ![r] = [req[r] EXCEPT !.pc = "answered", !.reply = reply]]
               /\ reply.masks = req[r].reply.masks /\ reply.image = req[r].reply.image
  <2> DEFINE reply == [req[r].reply EXCEPT !.status = status]
  <2>1. /\ reply = [f \in ReplyFields |-> reply[f]]
        /\ reply.masks = req[r].reply.masks /\ reply.image = req[r].reply.image
    BY <1>0 DEF ReplyFields
  <2>2. req' = [req EXCEPT ![r] = [req[r] EXCEPT !.pc = "answered", !.reply = reply]]
    BY <1>0, <1>1 DEF Fields
  <2> HIDE DEF reply
  <2> QED BY <2>1, <2>2
<1>2. CASE Timeout(r)   BY <1>1, <1>2 DEF Timeout
<1>3. CASE Answer(r) /\ req[r].error # "none"   BY <1>1, <1>3 DEF Answer
<1>4. CASE Answer(r) /\ req[r].error = "none"
  <2> DEFINE shown == req[r].out.image /\ req[r].kind \in {"redact", "review"}
             reply == [req[r].out EXCEPT !.image = shown]
  <2>1. req' = [req EXCEPT ![r].pc = "answered", ![r].reply = reply]   BY <1>4 DEF Answer
  <2> HIDE DEF shown
  <2>2. /\ reply = [f \in ReplyFields |-> reply[f]]
        /\ reply.masks = req[r].out.masks /\ reply.status = req[r].out.status
    BY <1>0 DEF ReplyFields
  <2> HIDE DEF reply
  <2>3. req' = [req EXCEPT ![r] = [req[r] EXCEPT !.pc = "answered", !.reply = reply]]   BY <1>0, <2>1
  <2> QED BY <1>4, <2>2, <2>3 DEF Answer
<1> QED BY <1>2, <1>3, <1>4

-----------------------------------------------------------------------------
(***************************************************************************)
(* The others keep what they have.                                         *)
(***************************************************************************)
\* Tokens are only added, and spent.
Grows ==
  /\ UNCHANGED <<scenario, findings>> /\ audit \subseteq audit'
  /\ Len(tokens') \in Nat /\ Len(tokens) <= Len(tokens')
  /\ \A t \in 1..Len(tokens) : /\ tokens'[t].dets = tokens[t].dets /\ tokens'[t].owner = tokens[t].owner
                               /\ tokens[t].by \subseteq tokens'[t].by

LEMMA OutcomeStable ==
  ASSUME scenario' = scenario
  PROVE  \A dets, items, tail : ReviewOutcome(dets, items, tail)' = ReviewOutcome(dets, items, tail)
<1> SUFFICES ASSUME NEW dets, NEW items, NEW tail
             PROVE  ReviewOutcome(dets, items, tail)' = ReviewOutcome(dets, items, tail)
  OBVIOUS
<1>1. ScoredAdditions(dets, items)' = ScoredAdditions(dets, items)   BY Zenon DEF ScoredAdditions
<1>2. ReviewedFindings(dets, items)' = ReviewedFindings(dets, items)   BY <1>1, Zenon DEF ReviewedFindings
<1>3. \A ds, human : Outcome(ds, tail, human)' = Outcome(ds, tail, human)   BY Zenon DEF Outcome
<1> QED BY <1>2, <1>3 DEF ReviewOutcome, Outcome

LEMMA Places ==
  ASSUME Given
  PROVE  Len(tokens) \in Nat /\ DOMAIN tokens = 1..Len(tokens) /\ \A t \in 1..Len(tokens) : tokens[t] \in Token
BY LenProperties, ElementOfSeq DEF Given

\* The part of a request its thread works on.
SameWork(q) ==
  /\ req'[q].kind = req[q].kind /\ req'[q].thread = req[q].thread /\ req'[q].error = req[q].error
  /\ req'[q].out = req[q].out /\ req'[q].events = req[q].events /\ req'[q].items = req[q].items
  /\ req'[q].fits = req[q].fits /\ req'[q].token = req[q].token /\ req'[q].user = req[q].user

LEMMA MadeKeeps ==
  ASSUME Given, Grows, NEW q \in Requests, SameWork(q), Placed(q), Made(q)
  PROVE  Made(q)' /\ Emitted(q)' = Emitted(q)
<1> USE DEF SameWork
<1>0. Len(tokens) \in Nat   BY Places
<1>1. req[q].kind = "review" /\ req[q].thread # "none" =>
        /\ req[q].token \in 1..Len(tokens)
        /\ DetsOf(q)' = DetsOf(q) /\ tokens[req[q].token].by \subseteq tokens'[req'[q].token].by
  BY <1>0 DEF Placed, Grows, DetsOf
<1>2. ASSUME req[q].kind = "review", req[q].thread = "ended", req[q].error = "none"
      PROVE  /\ ~Invalid(DetsOf(q), req[q].items, req[q].fits)'
             /\ req'[q].events = Events(DetsOf(q), req[q].items)'
             /\ \E tail \in Tails : req'[q].out = ReviewOutcome(DetsOf(q), req[q].items, tail)'
             /\ q \in tokens'[req'[q].token].by
  <2>1. /\ ~Invalid(DetsOf(q), req[q].items, req[q].fits)
        /\ req[q].events = Events(DetsOf(q), req[q].items)
        /\ q \in tokens[req[q].token].by
    BY <1>2 DEF Made
  <2>2. PICK tail \in Tails : req[q].out = ReviewOutcome(DetsOf(q), req[q].items, tail)
    BY <1>2 DEF Made
  <2>3. DetsOf(q)' = DetsOf(q) /\ q \in tokens'[req'[q].token].by   BY <1>1, <1>2, <2>1
  <2>4. \A dets, items, t : ReviewOutcome(dets, items, t)' = ReviewOutcome(dets, items, t)
    BY OutcomeStable DEF Grows
  <2>5. ReviewOutcome(DetsOf(q), req[q].items, tail)' = ReviewOutcome(DetsOf(q), req[q].items, tail)
    BY <2>3, <2>4
  <2> QED BY <2>1, <2>2, <2>3, <2>5
<1>3. Made(q)'   BY <1>1, <1>2 DEF Made, Grows, Tailed
<1>4. Emitted(q)' = Emitted(q)   BY DEF Emitted, AuditType
<1> QED BY <1>3, <1>4

LEMMA OthersKeep ==
  ASSUME Given, Grows, NEW q \in Requests, req'[q] = req[q], Local(q)
  PROVE  Local(q)'
<1>0. Len(tokens) \in Nat   BY Places
<1>1. Placed(q)'   BY <1>0 DEF Local, Placed, Grows
<1>2. Made(q)' /\ Emitted(q)' = Emitted(q)   BY MadeKeeps DEF SameWork, Local
<1>3. Sent(q)'   BY <1>2 DEF Local, Sent, Grows
<1> QED BY <1>1, <1>2, <1>3 DEF Local

LEMMA Assemble ==
  ASSUME IInv, NEW r \in Requests, Grows, Elsewhere(r), Shape', tokens' \in Seq(Token),
         Local(r)', Spending', Capacity'
  PROVE  IInv'
<1>1. \A q \in Requests : Local(q)'   BY OthersKeep DEF IInv, Elsewhere
<1>2. Given'   BY DEF IInv, Given, Grows, WellFound, Token, Tailed
<1> QED BY <1>1, <1>2 DEF IInv

LEMMA SpendingKeeps ==
  ASSUME IInv, NEW r \in Requests, Elsewhere(r), UNCHANGED tokens,
         req[r].thread = "reviewing" \/ req[r].thread = "ended" =>
           /\ req'[r].kind = req[r].kind /\ req'[r].token = req[r].token /\ req'[r].user = req[r].user
           /\ req'[r].thread \in {"reviewing", "ended"}
  PROVE  Spending'
<1>1. \A t \in DOMAIN tokens : tokens[t].by \subseteq Requests   BY Places DEF IInv, Token
<1> QED BY <1>1 DEF IInv, Spending, Elsewhere

LEMMA CapacityKeeps ==
  ASSUME Capacity, NEW r \in Requests, Elsewhere(r),
         req'[r].thread \in {"started", "reviewing"} => req[r].thread \in {"started", "reviewing"}
  PROVE  Capacity'
<1>1. Holding' \subseteq Holding   BY DEF Holding, Elsewhere
<1>2. /\ IsFiniteSet(Holding') /\ Cardinality(Holding') <= Cardinality(Holding)
      /\ Cardinality(Holding') \in Nat /\ Cardinality(Holding) \in Nat
  BY <1>1, FS_Subset, FS_CardinalityType DEF Capacity
<1> QED BY <1>2, JobsPositive DEF Capacity

LEMMA SameTokens ==
  ASSUME IInv, UNCHANGED <<scenario, findings, tokens, audit>>
  PROVE  Grows /\ tokens' \in Seq(Token)
BY Places DEF IInv, Given, Grows

-----------------------------------------------------------------------------
(***************************************************************************)
(* The steps.                                                              *)
(***************************************************************************)
LEMMA RefuseKeeps ==
  ASSUME IInv, NEW r \in Requests, req[r].pc = "idle", NEW kind \in Kinds, NEW user, NEW status,
         Refuse(r, kind, user, status)
  PROVE  IInv'
<1>1. /\ Shape' /\ Elsewhere(r) /\ UNCHANGED <<scenario, findings, tokens, audit>>
      /\ req'[r].pc = "answered" /\ req'[r].thread = "none" /\ req'[r].kind = kind
      /\ req'[r].token = 0 /\ req'[r].error = "none" /\ req'[r].out = NoReply
      /\ req'[r].reply.masks = <<>> /\ req'[r].reply.image = FALSE
  BY RefuseEffect DEF IInv
<1>2. Grows /\ tokens' \in Seq(Token) /\ Len(tokens') \in Nat   BY <1>1, SameTokens DEF Grows
<1>3. req[r].thread = "none"   BY DEF IInv, Local, Placed
<1>4. Local(r)'   BY <1>1, <1>2 DEF Local, Placed, Made, Sent
<1>5. Spending'   BY <1>1, <1>3, SpendingKeeps
<1>6. Capacity'   BY <1>1, CapacityKeeps DEF IInv
<1> QED BY <1>1, <1>2, <1>4, <1>5, <1>6, Assemble

LEMMA EnterKeeps ==
  ASSUME IInv, NEW r \in Requests, req[r].pc = "idle", NEW kind \in Kinds, NEW user \in scenario.users,
         NEW token \in 0..Len(tokens), NEW s,
         kind = "review" => /\ token # 0 /\ s.items \in Seq(Item)
                            /\ Needed(s.items) \subseteq Permissions[user],
         Enter(r, kind, user, token, s)
  PROVE  IInv'
<1>1. /\ Shape' /\ Elsewhere(r) /\ UNCHANGED <<scenario, findings, tokens, audit>>
      /\ req'[r].pc = "waiting" /\ req'[r].thread = "started" /\ req'[r].kind = kind
      /\ req'[r].user = user /\ req'[r].token = token /\ req'[r].items = s.items
      /\ req'[r].error = "none" /\ req'[r].out = NoReply /\ req'[r].reply = NoReply
  BY EnterEffect DEF IInv
<1>2. Grows /\ tokens' \in Seq(Token)   BY <1>1, SameTokens
<1>3. req[r].thread = "none"   BY DEF IInv, Local, Placed
<1>4. Placed(r)'   BY <1>1 DEF Placed
<1>5. Made(r)' /\ Sent(r)'   BY <1>1 DEF Made, Sent
<1>6. Spending'   BY <1>1, <1>3, SpendingKeeps
<1>7. Capacity'
  <2>1. Holding' = Holding \cup {r} /\ r \notin Holding   BY <1>1, <1>3 DEF Holding, Elsewhere
  <2>2. /\ IsFiniteSet(Holding) /\ Cardinality(Holding) \in Nat /\ Cardinality(Holding) < MaxJobs
    BY FS_CardinalityType DEF IInv, Capacity, Enter
  <2>3. IsFiniteSet(Holding') /\ Cardinality(Holding') = Cardinality(Holding) + 1
    BY <2>1, <2>2, FS_AddElement
  <2> QED BY <2>2, <2>3, JobsPositive DEF Capacity
<1>8. Local(r)'   BY <1>4, <1>5 DEF Local
<1> QED BY <1>1, <1>2, <1>6, <1>7, <1>8, Assemble

LEMMA StartsKeep ==
  ASSUME IInv, NEW r \in Requests, NEW user \in scenario.users,
         \/ \E kind \in {"analyze", "redact", "verify"} : Image(r, kind, user)
         \/ \E t \in DOMAIN tokens, s \in scenario.submissions : Review(r, user, t, s)
  PROVE  IInv'
<1>0. Len(tokens) \in Nat /\ DOMAIN tokens = 1..Len(tokens)   BY Places DEF IInv
<1>1. ASSUME NEW kind \in {"analyze", "redact", "verify"}, Image(r, kind, user) PROVE IInv'
  <2>1. req[r].pc = "idle" /\ kind \in Kinds /\ kind # "review" /\ 0 \in 0..Len(tokens)
    BY <1>0, <1>1 DEF Image, Kinds
  <2>2. \/ \E status : Refuse(r, kind, user, status)
        \/ Enter(r, kind, user, 0, [items |-> <<>>, fits |-> TRUE])
    BY <1>1 DEF Image
  <2> QED BY <2>1, <2>2, RefuseKeeps, EnterKeeps
<1>2. ASSUME NEW t \in DOMAIN tokens, NEW s \in scenario.submissions, Review(r, user, t, s) PROVE IInv'
  <2>1. req[r].pc = "idle" /\ "review" \in Kinds /\ t # 0 /\ t \in 0..Len(tokens)
    BY <1>0, <1>2 DEF Review, Kinds
  <2>2. s.items \in Seq(Item)   BY SubmissionsTyped DEF IInv, Given
  <2>3. \/ \E status : Refuse(r, "review", user, status)
        \/ Needed(s.items) \subseteq Permissions[user] /\ Enter(r, "review", user, t, s)
    BY <1>2 DEF Review
  <2> QED BY <2>1, <2>2, <2>3, RefuseKeeps, EnterKeeps
<1> QED BY <1>1, <1>2
\* A thread that was at work has no answer to its name but a timeout's.
LEMMA EndKeeps ==
  ASSUME IInv, NEW r \in Requests, req[r].thread \in {"started", "reviewing"},
         NEW error, NEW out, NEW events, End(r, error, out, events),
         out = [f \in ReplyFields |-> out[f]],
         UNCHANGED <<scenario, findings, tokens, audit>>,
         error # "none" => out = NoReply,
         req[r].kind \in {"analyze", "redact"} => out.masks \in Tailed(findings),
         req[r].kind = "review" /\ error = "none" =>
           /\ ~Invalid(DetsOf(r), req[r].items, req[r].fits)
           /\ events = Events(DetsOf(r), req[r].items)
           /\ \E tail \in Tails : out = ReviewOutcome(DetsOf(r), req[r].items, tail)
           /\ r \in tokens[req[r].token].by
  PROVE  IInv'
<1>1. /\ Shape' /\ Elsewhere(r)
      /\ req'[r].thread = "ended" /\ req'[r].error = error /\ req'[r].out = out
      /\ req'[r].events = events /\ req'[r].pc = req[r].pc /\ req'[r].kind = req[r].kind
      /\ req'[r].user = req[r].user /\ req'[r].token = req[r].token
      /\ req'[r].items = req[r].items /\ req'[r].fits = req[r].fits /\ req'[r].reply = req[r].reply
  BY EndEffect DEF IInv
<1>2. Grows /\ tokens' \in Seq(Token)   BY SameTokens
<1>3. Placed(r) /\ Sent(r)   BY DEF IInv, Local
<1>4. Placed(r)'   BY <1>1, <1>3 DEF Placed
<1>5. Made(r)'
  <2>1. DetsOf(r)' = DetsOf(r)   BY <1>1 DEF DetsOf
  <2>2. \A dets, items, t : ReviewOutcome(dets, items, t)' = ReviewOutcome(dets, items, t)
    BY OutcomeStable
  <2>3. ASSUME req[r].kind = "review", error = "none"
        PROVE  \E tail \in Tails : out = ReviewOutcome(DetsOf(r), req[r].items, tail)'
    <3>1. PICK tail \in Tails : out = ReviewOutcome(DetsOf(r), req[r].items, tail)   BY <2>3
    <3>2. ReviewOutcome(DetsOf(r), req[r].items, tail)' = ReviewOutcome(DetsOf(r), req[r].items, tail)
      BY <1>1, <2>1, <2>2
    <3> QED BY <3>1, <3>2
  <2>4. req'[r].kind = "review" /\ req'[r].thread = "ended" /\ req'[r].error = "none" =>
          /\ ~Invalid(DetsOf(r), req[r].items, req[r].fits)'
          /\ req'[r].events = Events(DetsOf(r), req[r].items)'
          /\ \E tail \in Tails : req'[r].out = ReviewOutcome(DetsOf(r), req[r].items, tail)'
          /\ r \in tokens'[req'[r].token].by
    BY <1>1, <2>1, <2>3
  <2> QED BY <1>1, <2>4 DEF Made, Tailed
<1>6. Sent(r)'   BY <1>1, <1>3 DEF Sent
<1>7. Spending'   BY <1>1, SpendingKeeps
<1>8. Capacity'   BY <1>1, CapacityKeeps DEF IInv
<1>9. Local(r)'   BY <1>4, <1>5, <1>6 DEF Local
<1> QED BY <1>1, <1>2, <1>7, <1>8, <1>9, Assemble

LEMMA WorkKeeps ==
  ASSUME IInv, NEW r \in Requests, Work(r)
  PROVE  IInv'
<1>1. req[r].thread = "started" /\ req[r].kind # "review" /\ UNCHANGED <<scenario, findings, tokens, audit>>
  BY DEF Work
<1>2. PICK tail \in Tails, ds \in Tailed(findings) \cup {<<>>} :
        /\ End(r, "none", Outcome(ds, tail, FALSE), <<>>)
        /\ req[r].kind # "verify" => ds \in Tailed(findings)
  BY DEF Work
<1>3. /\ Outcome(ds, tail, FALSE) = [f \in ReplyFields |-> Outcome(ds, tail, FALSE)[f]]
      /\ Outcome(ds, tail, FALSE).masks = ds
  BY OutcomeFields
<1> QED BY <1>1, <1>2, <1>3, EndKeeps

LEMMA ConsumeKeeps ==
  ASSUME IInv, NEW r \in Requests, Consume(r)
  PROVE  IInv'
<1>1. CASE ~TokenAccepted(r)
  <2>1. PICK error \in {"409", "422"} : End(r, error, NoReply, <<>>)   BY <1>1 DEF Consume
  <2>2. req[r].thread = "started" /\ req[r].kind = "review" /\ UNCHANGED <<scenario, findings, tokens, audit>>
    BY <1>1 DEF Consume
  <2> QED BY <2>1, <2>2, NoReplyShape, EndKeeps
<1>2. CASE TokenAccepted(r)
  <2> DEFINE n == req[r].token
  <2>1. /\ req[r].thread = "started" /\ req[r].kind = "review" /\ UNCHANGED <<scenario, findings, audit>>
        /\ tokens' = [tokens EXCEPT ![n].spent = TRUE, ![n].by = {r}]
        /\ req' = [req EXCEPT ![r].thread = "reviewing"]
    BY <1>2 DEF Consume
  <2>2. /\ Shape' /\ Elsewhere(r)
        /\ req'[r].thread = "reviewing" /\ req'[r].error = req[r].error /\ req'[r].out = req[r].out
        /\ req'[r].pc = req[r].pc /\ req'[r].kind = req[r].kind
        /\ req'[r].user = req[r].user /\ req'[r].token = req[r].token
        /\ req'[r].items = req[r].items /\ req'[r].reply = req[r].reply
    BY <2>1, ConsumeEffect DEF IInv
  <2>3. /\ Len(tokens) \in Nat /\ DOMAIN tokens = 1..Len(tokens) /\ n \in 1..Len(tokens)
        /\ \A t \in 1..Len(tokens) : tokens[t] \in Token
    BY <2>1, Places DEF IInv, Local, Placed
  <2>4. tokens[n].owner = req[r].user /\ tokens[n].by = {}
    BY <1>2, <2>3 DEF TokenAccepted, IInv, Spending
  <2>5. PICK k : k = [tokens[n] EXCEPT !.spent = TRUE, !.by = {r}]   OBVIOUS
  <2>6. k \in Token /\ k.dets = tokens[n].dets /\ k.owner = tokens[n].owner /\ k.spent /\ k.by = {r}
    BY <2>3, <2>5 DEF Token
  <2>7. tokens' = [tokens EXCEPT ![n] = k]
    BY <2>1, <2>3, <2>5 DEF IInv, Given
  <2>8. /\ tokens' \in Seq(Token) /\ Len(tokens') = Len(tokens)
        /\ \A t \in 1..Len(tokens) : tokens'[t] = IF t = n THEN k ELSE tokens[t]
    BY <2>3, <2>6, <2>7, ExceptSeq DEF IInv, Given
  <2>9. DOMAIN tokens' = 1..Len(tokens)   BY <2>8, LenProperties, SMTT(40)
  <2>10. Grows   BY <2>1, <2>3, <2>4, <2>6, <2>8 DEF Grows
  <2>11. Placed(r)'   BY <2>1, <2>2, <2>8 DEF IInv, Local, Placed
  <2>12. Made(r)'   BY <2>1, <2>2, <2>3, <2>6, <2>8 DEF IInv, Local, Made
  <2>13. Sent(r)'   BY <2>1, <2>2 DEF IInv, Local, Sent
  <2>14. Spending'
    <3> SUFFICES ASSUME NEW t \in 1..Len(tokens)
                 PROVE  /\ ~tokens'[t].spent => tokens'[t].by = {}
                        /\ \A q \in tokens'[t].by :
                             /\ tokens'[t].by = {q}
                             /\ req'[q].kind = "review" /\ req'[q].token = t
                             /\ req'[q].thread \in {"reviewing", "ended"}
                             /\ req'[q].user = tokens'[t].owner
      BY <2>9, SMTT(40) DEF Spending
    <3>1. CASE t = n   BY <2>1, <2>2, <2>4, <2>6, <2>8, <3>1
    <3>2. CASE t # n
      <4>1. tokens'[t] = tokens[t] /\ tokens[t].by \subseteq Requests   BY <2>3, <2>8, <3>2 DEF Token
      <4>2. r \notin tokens[t].by   BY <2>1, <2>3 DEF IInv, Spending
      <4>3. \A q \in tokens[t].by : req'[q] = req[q]   BY <2>2, <4>1, <4>2 DEF Elsewhere
      <4> QED BY <2>3, <4>1, <4>3 DEF IInv, Spending
    <3> QED BY <3>1, <3>2
  <2>15. Capacity'   BY <2>1, <2>2, CapacityKeeps DEF IInv
  <2>16. Local(r)'   BY <2>11, <2>12, <2>13 DEF Local
  <2> QED BY <2>2, <2>8, <2>10, <2>14, <2>15, <2>16, Assemble
<1> QED BY <1>1, <1>2

LEMMA ProcessReviewKeeps ==
  ASSUME IInv, NEW r \in Requests, ProcessReview(r)
  PROVE  IInv'
<1>1. /\ req[r].thread = "reviewing" /\ UNCHANGED <<scenario, findings, tokens, audit>>
      /\ \/ \E error \in {"500", "422"} : End(r, error, NoReply, <<>>)
         \/ /\ ~Invalid(DetsOf(r), req[r].items, req[r].fits)
            /\ \E tail \in Tails :
                 End(r, "none", ReviewOutcome(DetsOf(r), req[r].items, tail), Events(DetsOf(r), req[r].items))
  BY DEF ProcessReview, DetsOf
<1>2. req[r].kind = "review" /\ r \in tokens[req[r].token].by   BY <1>1 DEF IInv, Local, Placed, Made
<1>3. CASE \E error \in {"500", "422"} : End(r, error, NoReply, <<>>)
  BY <1>1, <1>2, <1>3, NoReplyShape, EndKeeps
<1>4. ASSUME ~Invalid(DetsOf(r), req[r].items, req[r].fits), NEW tail \in Tails,
             End(r, "none", ReviewOutcome(DetsOf(r), req[r].items, tail), Events(DetsOf(r), req[r].items))
      PROVE  IInv'
  <2> DEFINE o == ReviewOutcome(DetsOf(r), req[r].items, tail)
  <2>1. o = [f \in ReplyFields |-> o[f]]   BY OutcomeFields DEF ReviewOutcome
  <2> QED BY <1>1, <1>2, <1>4, <2>1, EndKeeps
<1> QED BY <1>1, <1>3, <1>4

LEMMA AnswerKeeps ==
  ASSUME IInv, NEW r \in Requests, Answer(r) \/ Timeout(r)
  PROVE  IInv'
<1>1. PICK reply :
        /\ reply = [f \in ReplyFields |-> reply[f]]
        /\ req' = [req EXCEPT ![r] = [req[r] EXCEPT !.pc = "answered", !.reply = reply]]
        /\ \/ /\ reply.masks = req[r].reply.masks /\ reply.image = req[r].reply.image
              /\ UNCHANGED <<tokens, audit>>
           \/ /\ Answer(r) /\ req[r].error = "none"
              /\ reply.masks = req[r].out.masks /\ reply.status = req[r].out.status
              /\ audit' = audit \cup Emitted(r)
              /\ tokens' = IF req[r].kind = "analyze"
                           THEN Append(tokens, [owner |-> req[r].user, dets |-> req[r].out.masks,
                                                spent |-> FALSE, by |-> {}])
                           ELSE tokens
  BY AnswerEffect, ZenonT(40) DEF IInv
<1>2. /\ Shape' /\ Elsewhere(r) /\ SameWork(r)
      /\ req'[r].pc = "answered" /\ req'[r].reply = reply
  BY <1>1, ReplyEffect DEF IInv, SameWork
<1>3. req[r].pc = "waiting" /\ UNCHANGED <<scenario, findings>>   BY DEF Answer, Timeout
<1>4. Placed(r) /\ Made(r) /\ req[r].thread # "none" /\ req[r].reply = NoReply
  BY <1>3 DEF IInv, Local, Placed
<1>5. /\ Len(tokens) \in Nat /\ DOMAIN tokens = 1..Len(tokens) /\ tokens \in Seq(Token)
      /\ \A t \in 1..Len(tokens) : tokens[t] \in Token
  BY Places DEF IInv, Given
<1>6. /\ Grows /\ tokens' \in Seq(Token)
      /\ \A t \in DOMAIN tokens' : (t \in DOMAIN tokens /\ tokens'[t] = tokens[t]) \/ tokens'[t].by = {}
  <2>1. CASE UNCHANGED tokens
    <3>1. audit \subseteq audit'   BY <1>1
    <3> QED BY <1>3, <1>5, <2>1, <3>1 DEF Grows
  <2>2. CASE Answer(r) /\ req[r].error = "none" /\ req[r].kind = "analyze"
    <3>1. PICK k : k = [owner |-> req[r].user, dets |-> req[r].out.masks, spent |-> FALSE, by |-> {}]   OBVIOUS
    <3>2. req[r].thread = "ended"   BY <2>2 DEF Answer
    <3>3. k \in Token /\ k.by = {}   BY <1>4, <2>2, <3>1, <3>2 DEF Token, Placed, Made
    <3>4. tokens' = Append(tokens, k) /\ audit \subseteq audit'   BY <2>2, <3>1, <1>1 DEF Answer
    <3>5. /\ tokens' \in Seq(Token) /\ Len(tokens') = Len(tokens) + 1
          /\ \A t \in 1..Len(tokens) : tokens'[t] = tokens[t]
          /\ tokens'[Len(tokens) + 1] = k
      BY <1>5, <3>3, <3>4, AppendProperties
    <3>6. DOMAIN tokens' = 1..(Len(tokens) + 1)   BY <3>5, LenProperties
    <3>7. Grows   BY <1>3, <1>5, <3>4, <3>5 DEF Grows
    <3>8. ASSUME NEW t \in DOMAIN tokens'
          PROVE  (t \in DOMAIN tokens /\ tokens'[t] = tokens[t]) \/ tokens'[t].by = {}
      <4>1. CASE t = Len(tokens) + 1   BY <3>3, <3>5, <4>1
      <4>2. CASE t # Len(tokens) + 1
        <5>1. t \in 1..Len(tokens)   BY <1>5, <3>6, <4>2
        <5> QED BY <1>5, <3>5, <5>1
      <4> QED BY <4>1, <4>2
    <3> QED BY <3>5, <3>7, <3>8
  <2> QED BY <1>1, <2>1, <2>2
<1>7. Made(r)' /\ Emitted(r)' = Emitted(r)   BY <1>2, <1>4, <1>6, MadeKeeps DEF IInv
<1>8. Placed(r)'   BY <1>2, <1>4, <1>5, <1>6 DEF Placed, SameWork, Grows
<1>9. Sent(r)'
  <2>1. CASE reply.masks = req[r].reply.masks /\ reply.image = req[r].reply.image
    BY <1>2, <1>4, <2>1 DEF Sent, NoReply
  <2>2. CASE /\ Answer(r) /\ req[r].error = "none" /\ reply.masks = req[r].out.masks
             /\ reply.status = req[r].out.status /\ audit' = audit \cup Emitted(r)
    <3>1. req[r].thread = "ended"   BY <2>2 DEF Answer
    <3> QED BY <1>2, <1>7, <2>2, <3>1 DEF Sent, SameWork
  <2> QED BY <1>1, <2>1, <2>2
<1>10. Spending'
  <2> SUFFICES ASSUME NEW t \in DOMAIN tokens'
               PROVE  /\ ~tokens'[t].spent => tokens'[t].by = {}
                      /\ \A q \in tokens'[t].by :
                           /\ tokens'[t].by = {q}
                           /\ req'[q].kind = "review" /\ req'[q].token = t
                           /\ req'[q].thread \in {"reviewing", "ended"}
                           /\ req'[q].user = tokens'[t].owner
    BY DEF Spending
  <2>1. CASE tokens'[t].by = {}   BY <2>1
  <2>2. CASE t \in DOMAIN tokens /\ tokens'[t] = tokens[t]
    <3>1. tokens[t].by \subseteq Requests   BY <1>5, <2>2 DEF Token
    <3>2. \A q \in tokens[t].by : /\ req'[q].kind = req[q].kind /\ req'[q].token = req[q].token
                                 /\ req'[q].thread = req[q].thread /\ req'[q].user = req[q].user
      BY <1>2, <3>1 DEF Elsewhere, SameWork
    <3> QED BY <2>2, <3>2 DEF IInv, Spending
  <2> QED BY <1>6, <2>1, <2>2
<1>11. Capacity'   BY <1>2, CapacityKeeps DEF IInv, SameWork
<1>12. Local(r)'   BY <1>7, <1>8, <1>9 DEF Local
<1> QED BY <1>2, <1>6, <1>10, <1>11, <1>12, Assemble
-----------------------------------------------------------------------------
LEMMA AnalysisIsTyped ==
  ASSUME NEW s \in Scenarios
  PROVE  WellFound(Analysis(s))
<1>1. PICK image \in Seq(Seq(TokenKinds)), on \in {s.on}, strict \in {s.strict} : image = s.image
  BY ImagesTyped
<1>2. Analysis(s) = Findings(image, on, strict)   BY <1>1 DEF Analysis, Findings
<1> QED BY <1>2, FindingsAreTyped DEF WellFound

LEMMA InitHolds == Init => IInv
<1> SUFFICES ASSUME Init PROVE IInv   OBVIOUS
<1> USE DEF Init
<1>1. Given
  <2>1. WellFound(findings)   BY AnalysisIsTyped
  <2> QED BY <2>1, EmptySeq DEF Given
<1>2. tokens = <<>> /\ Len(tokens) = 0 /\ DOMAIN tokens = {}   OBVIOUS
<1>3. \A r \in Requests : /\ req[r].pc = "idle" /\ req[r].thread = "none" /\ req[r].kind = "verify"
                         /\ req[r].token = 0 /\ req[r].error = "none"
                         /\ req[r].out = NoReply /\ req[r].reply = NoReply
  BY DEF NoRequest
<1>4. Shape
  <2>1. NoRequest = [f \in Fields |-> NoRequest[f]] /\ NoRequest.reply = NoReply /\ NoRequest.out = NoReply
    BY DEF NoRequest, Fields
  <2> QED BY <2>1, NoReplyShape DEF Shape
<1>5. \A r \in Requests : Local(r)   BY <1>2, <1>3 DEF Local, Placed, Made, Sent, Kinds
<1>6. Spending   BY <1>2 DEF Spending
<1>7. Capacity
  <2>1. Holding = {}   BY <1>3 DEF Holding
  <2> QED BY <2>1, FS_EmptySet, JobsPositive DEF Capacity
<1> QED BY <1>1, <1>4, <1>5, <1>6, <1>7 DEF IInv

LEMMA StutterKeeps == IInv /\ UNCHANGED vars => IInv'
<1> SUFFICES ASSUME IInv, UNCHANGED vars PROVE IInv'   OBVIOUS
<1>1. UNCHANGED <<scenario, findings, tokens, req, audit>>   BY DEF vars
<1>2. Grows /\ tokens' \in Seq(Token)   BY <1>1, SameTokens
<1>3. \A q \in Requests : Local(q)'   BY <1>1, <1>2, OthersKeep DEF IInv
<1>4. Given' /\ Shape'   BY <1>1, <1>2 DEF IInv, Given, Grows, WellFound, Token, Tailed, Shape
<1>5. Spending'   BY <1>1 DEF IInv, Spending
<1>6. Capacity'
  <2>1. Holding' = Holding   BY <1>1 DEF Holding
  <2> QED BY <2>1 DEF IInv, Capacity
<1> QED BY <1>3, <1>4, <1>5, <1>6 DEF IInv

LEMMA StepKeeps == IInv /\ [Next]_vars => IInv'
<1> SUFFICES ASSUME IInv, [Next]_vars PROVE IInv'   OBVIOUS
<1>1. ASSUME NEW r \in Requests, Work(r) \/ Consume(r) \/ ProcessReview(r) \/ Answer(r) \/ Timeout(r)
      PROVE  IInv'
  BY <1>1, WorkKeeps, ConsumeKeeps, ProcessReviewKeeps, AnswerKeeps
<1>2. ASSUME NEW r \in Requests, NEW user \in scenario.users,
             \/ \E kind \in {"redact", "verify"} : Image(r, kind, user)
             \/ Len(tokens) < MaxTokens /\ Image(r, "analyze", user)
             \/ \E t \in DOMAIN tokens, s \in scenario.submissions : Review(r, user, t, s)
      PROVE  IInv'
  BY <1>2, StartsKeep
<1>3. CASE UNCHANGED vars   BY <1>3, StutterKeeps
<1> QED BY <1>1, <1>2, <1>3 DEF Next

LEMMA AlwaysIInv == Spec => []IInv
<1>1. Init => IInv   BY InitHolds
<1>2. IInv /\ [Next]_vars => IInv'   BY StepKeeps
<1> QED BY <1>1, <1>2, PTL DEF Spec

-----------------------------------------------------------------------------
(***************************************************************************)
(* What the review makes of a token's findings.                            *)
(***************************************************************************)
LEMMA StatusIsAnItems ==
  ASSUME NEW items \in Seq(Item), NEW d
  PROVE  Status(items, d) = "PENDING" \/ \E k \in DOMAIN items : items[k].det = d /\ items[k].status = Status(items, d)
<1> DEFINE about == {k \in DOMAIN items : items[k].det = d}
<1>1. Len(items) \in Nat /\ DOMAIN items = 1..Len(items)   BY LenProperties
<1>2. CASE about = {}   BY <1>2 DEF Status
<1>3. CASE about # {}
  <2>1. Max(about) \in about
    <3>1. about \subseteq 0..Len(items)   BY <1>1
    <3> QED BY <1>1, <1>3, <3>1, LastPlace
  <2>2. Status(items, d) = items[Max(about)].status   BY <1>3 DEF Status
  <2> QED BY <2>1, <2>2
<1> QED BY <1>2, <1>3

LEMMA KeptIsMasked ==
  ASSUME NEW dets, WellFound(dets), NEW items, NEW i \in DOMAIN dets, ~Dropped(dets[i], Status(items, i))
  PROVE  Masked(ReviewedFindings(dets, items), dets[i].type, dets[i].box, dets[i].action)
<1> DEFINE kept == Kept(dets, items)
           all == ReviewedFindings(dets, items)
<1>1. i \in DOMAIN kept /\ kept[i] = Rebuilt(dets[i], Status(items, i))   BY DEF Kept
<1>2. i \in Nat \ {0} /\ dets[i] \in DetectionRecord   BY DEF WellFound
<1>3. i \in DOMAIN all /\ all[i] = kept[i]   BY <1>1, <1>2 DEF ReviewedFindings
<1>4. kept[i].type = dets[i].type /\ kept[i].box = dets[i].box /\ kept[i].action = dets[i].action
  BY <1>1, <1>2 DEF Rebuilt, DetectionRecord
<1>5. dets[i].box \in [line : Nat, x : Nat, width : Nat] /\ dets[i].action \in Actions
  BY <1>2 DEF DetectionRecord
<1>6. Covers(dets[i].box, dets[i].box)   BY <1>5 DEF Covers
<1>7. Strength(dets[i].action) \in Nat   BY <1>5 DEF Strength, Actions
<1> QED BY <1>3, <1>4, <1>6, <1>7 DEF Masked

\* Verification's escalations leave what was found as it should be.
LEMMA TailedWellFound ==
  ASSUME NEW ds, WellFound(ds), NEW t \in Tailed(ds)
  PROVE  WellFound(t)
<1>1. CASE t = ds   BY <1>1
<1>2. CASE t = [i \in DOMAIN ds |-> IF ds[i].legible THEN Escalate(ds[i], 1) ELSE ds[i]]
  <2>1. ASSUME NEW d \in DetectionRecord, d.action # "NONE"
        PROVE  Escalate(d, 1) \in DetectionRecord /\ Escalate(d, 1).action # "NONE"
    <3> DEFINE b == Widen(d.box, 1)
               a == Stronger(d.action)
               x == IF d.box.x >= 1 THEN d.box.x - 1 ELSE 0
               w == d.box.width + 2 * 1
    <3>1. d.box \in [line : Nat, x : Nat, width : Nat] /\ d.action \in Actions   BY DEF DetectionRecord
    <3>2. d.box.x \in Nat /\ d.box.width \in Nat   BY <3>1
    <3>3. x \in Nat /\ w \in Nat   BY <3>2
    <3>4. b = [d.box EXCEPT !.x = x, !.width = w]   BY DEF Widen
    <3>5. b \in [line : Nat, x : Nat, width : Nat]
      <4> HIDE DEF x, w, b
      <4> QED BY <3>1, <3>3, <3>4
    <3>6. a \in Actions /\ a # "NONE"   BY <3>1 DEF Stronger, Actions
    <3>7. Escalate(d, 1) = [d EXCEPT !.action = a, !.box = b]   BY DEF Escalate
    <3> HIDE DEF a, b
    <3> QED BY <3>5, <3>6, <3>7 DEF DetectionRecord
  <2>2. DOMAIN t = DOMAIN ds /\ \A i \in DOMAIN ds : t[i] \in {ds[i], Escalate(ds[i], 1)}   BY <1>2
  <2>3. \A i \in DOMAIN ds : t[i] \in DetectionRecord /\ t[i].action # "NONE"   BY <2>1, <2>2 DEF WellFound
  <2> QED BY <2>2, <2>3 DEF WellFound
<1> QED BY <1>1, <1>2 DEF Tailed

\* A review that hands out an image, or any findings: what it is made of.
LEMMA HandedOut ==
  ASSUME IInv, NEW r \in Requests, req[r].kind = "review",
         req[r].reply.image \/ (req[r].pc = "answered" /\ req[r].reply.masks # <<>>)
  PROVE  /\ req[r].thread = "ended" /\ req[r].error = "none" /\ Emitted(r) \subseteq audit
         /\ req[r].token \in DOMAIN tokens /\ r \in tokens[req[r].token].by
         /\ req[r].items \in Seq(Item) /\ Needed(req[r].items) \subseteq Permissions[req[r].user]
         /\ WellFound(DetsOf(r))
         /\ ~Invalid(DetsOf(r), req[r].items, req[r].fits)
         /\ req[r].events = Events(DetsOf(r), req[r].items)
         /\ req[r].reply.masks = ReviewedFindings(DetsOf(r), req[r].items)
         /\ \E tail \in Tails : req[r].reply.status =
              Outcome(ReviewedFindings(DetsOf(r), req[r].items), tail, RejectedCritical(DetsOf(r), req[r].items)).status
<1>1. Placed(r) /\ Made(r) /\ Sent(r)   BY DEF IInv, Local
<1>2. req[r].pc = "answered"   BY <1>1 DEF Placed, NoReply
<1>3. /\ req[r].thread = "ended" /\ req[r].error = "none" /\ Emitted(r) \subseteq audit
      /\ req[r].reply.masks = req[r].out.masks /\ req[r].reply.status = req[r].out.status
  BY <1>1, <1>2 DEF Sent
<1>4. req[r].token \in DOMAIN tokens /\ tokens[req[r].token] \in Token
  BY <1>1, <1>3, Places DEF IInv, Placed
<1>5. WellFound(DetsOf(r))
  <2>1. DetsOf(r) \in Tailed(findings)   BY <1>4 DEF Token, DetsOf
  <2> QED BY <2>1, TailedWellFound DEF IInv, Given
<1>6. PICK tail \in Tails : req[r].out = ReviewOutcome(DetsOf(r), req[r].items, tail)   BY <1>1, <1>3 DEF Made
<1>7. req[r].out = Outcome(ReviewedFindings(DetsOf(r), req[r].items), tail, RejectedCritical(DetsOf(r), req[r].items))
  BY <1>6 DEF ReviewOutcome
<1>8. req[r].reply.masks = ReviewedFindings(DetsOf(r), req[r].items)   BY <1>3, <1>7, OutcomeFields
<1> QED BY <1>1, <1>3, <1>4, <1>5, <1>7, <1>8 DEF Placed, Made
-----------------------------------------------------------------------------
(***************************************************************************)
(* What a reviewer's addition comes to.                                    *)
(***************************************************************************)
\* heads is what Heads chooses, among the first n places.
AreHeads(heads, ds, n) ==
  /\ heads \subseteq DOMAIN ds \cap 1..n
  /\ \A i \in DOMAIN ds \cap 1..n :
       i \in heads <=> ~\E h \in heads : h < i /\ ds[h].type = ds[i].type /\ Overlap(ds[h].box, ds[i].box)

LEMMA HeadsExist ==
  ASSUME NEW ds, NEW n \in Nat
  PROVE  \E heads : AreHeads(heads, ds, n)
<1> DEFINE Bad == {k \in Nat : ~\E heads : AreHeads(heads, ds, k)}
<1> SUFFICES ASSUME Bad # {} PROVE FALSE   OBVIOUS
<1>1. PICK k \in Bad : \A j \in Bad : k <= j   BY LeastNat
<1>2. CASE k = 0
  <2>1. AreHeads({}, ds, 0)   BY DEF AreHeads
  <2> QED BY <1>1, <1>2, <2>1
<1>3. CASE k # 0
  <2>1. k \in Nat /\ k - 1 \in Nat /\ k - 1 \notin Bad   BY <1>1, <1>3
  <2>2. PICK old : AreHeads(old, ds, k - 1)   BY <2>1
  <2> DEFINE Covered(i) == \E h \in old : h < i /\ ds[h].type = ds[i].type /\ Overlap(ds[h].box, ds[i].box)
             heads == IF k \in DOMAIN ds /\ ~Covered(k) THEN old \cup {k} ELSE old
  <2>3. old \subseteq DOMAIN ds \cap 1..(k - 1) /\ \A i \in DOMAIN ds \cap 1..(k - 1) : i \in old <=> ~Covered(i)
    BY <2>2 DEF AreHeads
  <2>4. \A i \in 1..k : i \in Nat /\ (i = k \/ i \in 1..(k - 1)) /\ ~(k < i)   BY <2>1
  <2>5. \A i \in 1..(k - 1) : i \in 1..k /\ i # k   BY <2>1
  <2>6. k \notin old /\ k \in 1..k   BY <1>3, <2>1, <2>3
  <2>7. heads \subseteq DOMAIN ds \cap 1..k   BY <2>3, <2>5, <2>6
  <2>8. \A h \in heads : h \in old \/ h = k   OBVIOUS
  <2>9. \A h \in old : h \in heads   OBVIOUS
  <2>10. ASSUME NEW i \in DOMAIN ds \cap 1..k
         PROVE  /\ (\E h \in heads : h < i /\ ds[h].type = ds[i].type /\ Overlap(ds[h].box, ds[i].box)) <=> Covered(i)
                /\ i \in heads <=> ~Covered(i)
    <3>1. (\E h \in heads : h < i /\ ds[h].type = ds[i].type /\ Overlap(ds[h].box, ds[i].box)) <=> Covered(i)
      BY <2>4, <2>8, <2>9
    <3>2. i \in heads <=> ~Covered(i)
      <4>1. CASE i = k      BY <2>6, <4>1
      <4>2. CASE i # k      BY <2>3, <2>4, <2>8, <2>9, <4>2
      <4> QED BY <4>1, <4>2
    <3> QED BY <3>1, <3>2
  <2> HIDE DEF heads
  <2>11. AreHeads(heads, ds, k)   BY <2>7, <2>10 DEF AreHeads
  <2> QED BY <1>1, <2>11
<1> QED BY <1>2, <1>3

LEMMA HeadsChosen ==
  ASSUME NEW ds, NEW n \in Nat, DOMAIN ds \subseteq 1..n
  PROVE  AreHeads(Heads(ds), ds, n)
<1> DEFINE Good(heads) == \A i \in DOMAIN ds :
             i \in heads <=> ~\E h \in heads : h < i /\ ds[h].type = ds[i].type /\ Overlap(ds[h].box, ds[i].box)
<1>1. DOMAIN ds \cap 1..n = DOMAIN ds   OBVIOUS
<1>2. \E heads \in SUBSET DOMAIN ds : Good(heads)   BY <1>1, HeadsExist DEF AreHeads
<1>3. Heads(ds) = CHOOSE heads \in SUBSET DOMAIN ds : Good(heads)   BY DEF Heads
<1> HIDE DEF Good
<1>4. Heads(ds) \in SUBSET DOMAIN ds /\ Good(Heads(ds))   BY <1>2, <1>3
<1> QED BY <1>1, <1>4 DEF AreHeads, Good

\* Every reviewable type weighs at least MEDIUM when a reviewer is certain of it.
\* What a reviewer adds, as AsFinding makes it.
Certain(d) == /\ d.type \in ReviewableTypes /\ d.conf = 100 /\ d.unknown = FALSE
              /\ d.layers = {"manual_review"} /\ d.action = "NONE"
Scored(score) == FromScore(score) \in {"MEDIUM", "HIGH", "CRITICAL"}

LEMMA CertainIsMedium ==
  ASSUME NEW d, Certain(d)
  PROVE  Scored(RiskScore(d, {}))
<1>0. d.type \in ReviewableTypes /\ d.conf = 100 /\ d.unknown = FALSE /\ d.layers = {"manual_review"}
  BY DEF Certain
<1>1. KeywordBoost(d, {}) = 0
  <2>1. {k \in {} : k.line = d.box.line} = {}   OBVIOUS
  <2>2. {k \in {} : k.critical} = {} /\ {k \in {} : ~k.critical} = {}   OBVIOUS
  <2>3. KeywordBoost(d, {}) = 2000 * Cardinality({}) + 800 * Cardinality({})
    BY <2>1, <2>2 DEF KeywordBoost
  <2> QED BY <2>3, FS_EmptySet
<1>2. BaseScore(d.type) \in Nat /\ BaseScore(d.type) >= 55   BY <1>0 DEF BaseScore, ReviewableTypes
<1>3. Max({d.conf, 30}) = 100
  <2>0. d.conf = 100   BY <1>0
  <2>1. \A x \in {100, 30} : 100 >= x   OBVIOUS
  <2>2. \A x \in {100, 30} : (\A y \in {100, 30} : x >= y) => x = 100   OBVIOUS
  <2> QED BY <2>0, <2>1, <2>2 DEF Max
<1>4. ~SufficientEvidence(d)   BY <1>0 DEF SufficientEvidence, SureLayers
<1> DEFINE n == BaseScore(d.type) * Max({d.conf, 30}) + KeywordBoost(d, {})
<1>5. n \in Nat /\ n >= 3000   BY <1>1, <1>2, <1>3
<1>6. RiskScore(d, {}) = Min({10000, n})   BY <1>4 DEF RiskScore
<1> HIDE DEF n
<1>7. Min({10000, n}) \in {10000, n}
  <2>1. \E x \in {10000, n} : \A y \in {10000, n} : x <= y
    <3>1. CASE n <= 10000   BY <1>5, <3>1
    <3>2. CASE 10000 <= n   BY <1>5, <3>2
    <3> QED BY <1>5, <3>1, <3>2
  <2> QED BY <2>1 DEF Min
<1> DEFINE score == RiskScore(d, {})
<1>8. score \in Nat /\ score >= 3000   BY <1>5, <1>6, <1>7
<1> HIDE DEF score
<1>9. FromScore(score) \in {"MEDIUM", "HIGH", "CRITICAL"}   BY <1>8 DEF FromScore
<1> QED BY <1>9 DEF score, Scored

LEMMA CertainIsScored ==
  ASSUME NEW d, Certain(d)
  PROVE  \E level \in {"MEDIUM", "HIGH", "CRITICAL"} : ScoreOne(d, {}) = [d EXCEPT !.risk = level]
<1>1. PICK level : level = FromScore(RiskScore(d, {}))   OBVIOUS
<1>2. Scored(RiskScore(d, {}))   BY CertainIsMedium
<1>3. ~UserDecided(d)   BY DEF UserDecided, Certain
<1>4. ScoreOne(d, {}) = [d EXCEPT !.risk = level]   BY <1>1, <1>3 DEF ScoreOne
<1>5. level \in {"MEDIUM", "HIGH", "CRITICAL"}   BY <1>1, <1>2 DEF Scored
<1> QED BY <1>4, <1>5

LEMMA FoundWhereAdded ==
  ASSUME NEW item
  PROVE  AsFinding(item).type = item.type /\ AsFinding(item).box = item.box
BY DEF AsFinding, Found

LEMMA AdditionIsMasked ==
  ASSUME NEW dets, WellFound(dets), NEW items \in Seq(Item), NEW fits, ~Invalid(dets, items, fits),
         NEW k \in DOMAIN items, items[k].det = 0, ~Redundant(items[k], Kept(dets, items)),
         \A j \in 1..(k - 1) : items[j].det = 0 /\ items[j].type = items[k].type
                               => ~Overlap(items[j].box, items[k].box)
  PROVE  Masked(ReviewedFindings(dets, items), items[k].type, items[k].box, "PARTIAL_MASK")
<1> DEFINE ds == Additions(dets, items)
           scored == [j \in DOMAIN ds |-> IF j \in Heads(ds) THEN ScoreOne(ds[j], {}) ELSE ds[j]]
           added == ScoredAdditions(dets, items)
           d == AsFinding(items[k])
           e == DecideOne(ScoreOne(d, {}), scenario.strict, "full_mask")
<1>1. Len(items) \in Nat /\ DOMAIN items = 1..Len(items) /\ items[k] \in Item
  BY LenProperties, ElementOfSeq
<1>2. items[k].type \in ReviewableTypes /\ Fits(items[k].box)   BY DEF Invalid
<1>3. /\ DOMAIN ds = {j \in DOMAIN items : items[j].det = 0 /\ ~Redundant(items[j], Kept(dets, items))}
      /\ \A j \in DOMAIN ds : ds[j] = AsFinding(items[j])
  BY DEF Additions
<1>4. k \in DOMAIN ds /\ ds[k] = d   BY <1>3
<1>5. k \in Heads(ds)
  <2>1. AreHeads(Heads(ds), ds, Len(items)) /\ DOMAIN ds \subseteq 1..Len(items)   BY <1>1, <1>3, HeadsChosen
  <2>2. \A j \in DOMAIN ds : ds[j].type = items[j].type /\ ds[j].box = items[j].box
    <3> SUFFICES ASSUME NEW j \in DOMAIN ds PROVE ds[j].type = items[j].type /\ ds[j].box = items[j].box
      OBVIOUS
    <3>1. ds[j] = AsFinding(items[j])   BY <1>3
    <3> HIDE DEF ds
    <3> QED BY <3>1, FoundWhereAdded
  <2>3. \A h \in DOMAIN ds : h < k => h \in 1..(k - 1)   BY <1>1, <2>1
  <2>4. ~\E h \in Heads(ds) : h < k /\ ds[h].type = ds[k].type /\ Overlap(ds[h].box, ds[k].box)
    BY <1>3, <1>4, <2>1, <2>2, <2>3 DEF AreHeads
  <2> QED BY <1>1, <1>4, <2>1, <2>4 DEF AreHeads
<1> HIDE DEF ds
<1>6. /\ d.type = items[k].type /\ d.box = items[k].box /\ d.conf = 100 /\ d.unknown = FALSE
      /\ d.layers = {"manual_review"} /\ d.action = "NONE"
      /\ {"type", "box", "unknown", "action", "risk"} \subseteq DOMAIN d
  BY DEF AsFinding, Found
<1> HIDE DEF d
<1>7. PICK level \in {"MEDIUM", "HIGH", "CRITICAL"} : ScoreOne(d, {}) = [d EXCEPT !.risk = level]
  <2>1. Certain(d)   BY <1>2, <1>6 DEF Certain
  <2> QED BY <2>1, CertainIsScored
<1>8. PICK g : g = ScoreOne(d, {})   OBVIOUS
<1>9. /\ g.type = items[k].type /\ g.box = items[k].box /\ g.unknown = FALSE /\ g.action = "NONE"
      /\ g.risk \in {"MEDIUM", "HIGH", "CRITICAL"} /\ "action" \in DOMAIN g
  BY <1>6, <1>7, <1>8
<1>10. e.type = items[k].type /\ e.box = items[k].box /\ e.action \in Actions \ {"NONE"}
  <2>1. \E action \in Actions \ {"NONE"} : e = [g EXCEPT !.action = action]
    <3>1. ~UserDecided(g) /\ e = DecideOne(g, scenario.strict, "full_mask")   BY <1>8, <1>9 DEF UserDecided
    <3> HIDE DEF e
    <3>2. CASE g.risk = "CRITICAL"
      <4>1. e = [g EXCEPT !.action = IF scenario.strict THEN "FULL_MASK" ELSE CriticalAction("full_mask")]
        BY <1>9, <3>1, <3>2 DEF DecideOne
      <4>2. CriticalAction("full_mask") = "FULL_MASK"   BY DEF CriticalAction
      <4>3. e = [g EXCEPT !.action = "FULL_MASK"]   BY <4>1, <4>2
      <4> QED BY <4>3 DEF Actions
    <3>3. CASE g.risk \in {"MEDIUM", "HIGH"}
      <4>1. e = [g EXCEPT !.action = RiskAction(g.risk)]   BY <1>9, <3>1, <3>3 DEF DecideOne
      <4>2. RiskAction(g.risk) \in Actions \ {"NONE"}   BY <3>3 DEF RiskAction, Actions
      <4> QED BY <4>1, <4>2
    <3> QED BY <1>9, <3>2, <3>3
  <2> HIDE DEF e
  <2>2. PICK action \in Actions \ {"NONE"} : e = [g EXCEPT !.action = action]   BY <2>1
  <2> QED BY <1>9, <2>2
<1>11. k \in DOMAIN added /\ added[k] = e
  <2>1. k \in DOMAIN scored /\ scored[k] = ScoreOne(d, {})   BY <1>4, <1>5
  <2>2. added = Decide(scored, scenario.strict, "full_mask")   BY DEF ScoredAdditions, ds
  <2> HIDE DEF scored, added
  <2> QED BY <1>10, <2>1, <2>2 DEF Decide
<1> HIDE DEF e, added
<1> DEFINE all == ReviewedFindings(dets, items)
<1>12. k \in Nat /\ k > 0 /\ ~(-k > 0) /\ -(-k) = k   BY <1>1
<1>13. -k \in DOMAIN all /\ all[-k] = e
  <2>1. /\ DOMAIN all = DOMAIN Kept(dets, items) \cup {-j : j \in DOMAIN added}
        /\ \A p \in DOMAIN all : all[p] = IF p > 0 THEN Kept(dets, items)[p] ELSE added[-p]
    BY DEF ReviewedFindings, added
  <2>2. -k \in DOMAIN all   BY <1>11, <2>1
  <2>3. all[-k] = added[-(-k)]   BY <1>12, <2>1, <2>2
  <2> QED BY <1>11, <1>12, <2>2, <2>3
<1>14. Covers(items[k].box, items[k].box)   BY <1>1 DEF Covers, Item
<1>15. Strength(e.action) >= Strength("PARTIAL_MASK")   BY <1>10 DEF Strength, Actions
<1> HIDE DEF all
<1>16. Masked(all, items[k].type, items[k].box, "PARTIAL_MASK")   BY <1>10, <1>13, <1>14, <1>15 DEF Masked
<1> QED BY <1>16 DEF all
-----------------------------------------------------------------------------
(***************************************************************************)
(* The theorems.                                                           *)
(***************************************************************************)
\* The variables have their types, and no more threads work than there are slots,
\* those of requests answered 504 included.
THEOREM WellTyped == Spec => []TypeOK
<1>1. ASSUME IInv PROVE TypeOK
  <2> DEFINE Row == [owner : scenario.users, dets : {tokens[i].dets : i \in DOMAIN tokens},
                     spent : BOOLEAN, by : SUBSET Requests]
  <2>1. Len(tokens) \in Nat /\ tokens = [i \in 1..Len(tokens) |-> tokens[i]] /\ DOMAIN tokens = 1..Len(tokens)
    BY <1>1, LenProperties DEF IInv, Given
  <2>2. \A i \in DOMAIN tokens : tokens[i] \in Token   BY <1>1, <2>1, ElementOfSeq DEF IInv, Given
  <2>3. \A i \in DOMAIN tokens : tokens[i] \in Row   BY <2>2 DEF Token
  <2>4. tokens \in Seq(Row)
    <3> HIDE DEF Row
    <3> QED BY <2>1, <2>3, IsASeq
  <2>5. \A i \in DOMAIN findings : findings[i].action \in Actions \ {"NONE"}
    BY <1>1 DEF IInv, Given, WellFound, DetectionRecord
  <2> QED BY <1>1, <2>4, <2>5 DEF TypeOK, IInv, Local, Placed, Capacity, Holding
<1> QED BY <1>1, AlwaysIInv, PTL

\* A token is spent by one review alone, of its owner, who was permitted every item
\* it submitted; whatever a review makes, it spent its token for (service.py:170).
THEOREM SpentByOne == Spec => []SpentByOnePermittedReview
<1>1. ASSUME IInv, NEW r \in Requests, req[r].kind = "review", req[r].thread = "reviewing" \/ req[r].out # NoReply
      PROVE  r \in tokens[req[r].token].by
  BY <1>1 DEF IInv, Local, Made
<1>2. ASSUME IInv, NEW r \in Requests, NEW t \in DOMAIN tokens, r \in tokens[t].by
      PROVE  /\ tokens[t].by = {r} /\ req[r].user = tokens[t].owner
             /\ Needed(req[r].items) \subseteq Permissions[req[r].user]
  <2>1. /\ tokens[t].by = {r} /\ req[r].user = tokens[t].owner /\ req[r].kind = "review"
        /\ req[r].thread \in {"reviewing", "ended"}
    BY <1>2 DEF IInv, Spending
  <2>2. Placed(r)   BY <1>2 DEF IInv, Local
  <2> QED BY <2>1, <2>2 DEF Placed
<1>3. IInv => SpentByOnePermittedReview   BY <1>1, <1>2 DEF SpentByOnePermittedReview
<1> QED BY <1>3, AlwaysIInv, PTL

\* Rejecting a critical finding never ends as PASSED, however the tail ends
\* (review_service.py:258).
THEOREM RejectionSurfaces == Spec => []RejectedCriticalSurfaces
<1>1. ASSUME IInv, NEW r \in Requests, req[r].kind = "review", req[r].pc = "answered",
             req[r].reply.masks # <<>>, RejectedCritical(DetsOf(r), req[r].items)
      PROVE  req[r].reply.status \in {"NEEDS_REVIEW", "BLOCKED"}
  <2>1. PICK tail \in Tails : req[r].reply.status =
          Outcome(ReviewedFindings(DetsOf(r), req[r].items), tail, RejectedCritical(DetsOf(r), req[r].items)).status
    BY <1>1, HandedOut
  <2>2. \A ds, human : human => Outcome(ds, tail, human).status \in {"NEEDS_REVIEW", "BLOCKED"}
    BY DEF Outcome
  <2> QED BY <1>1, <2>1, <2>2
<1>2. IInv => RejectedCriticalSurfaces   BY <1>1 DEF RejectedCriticalSurfaces
<1> QED BY <1>2, AlwaysIInv, PTL

\* Whatever the items say, a reviewed image that is handed out masks every
\* intrinsically critical finding of its token, as strongly as the analysis decided
\* (review_service.py:170).
THEOREM CriticalStays == Spec => []CriticalStaysMasked
<1>1. ASSUME IInv, NEW r \in Reviewed, NEW i \in DOMAIN DetsOf(r), DetsOf(r)[i].type \in IntrinsicCriticalTypes
      PROVE  StillMasked(r, DetsOf(r)[i])
  <2>1. /\ WellFound(DetsOf(r))
        /\ req[r].reply.masks = ReviewedFindings(DetsOf(r), req[r].items)
    BY <1>1, HandedOut DEF Reviewed
  <2>2. ~Dropped(DetsOf(r)[i], Status(req[r].items, i))   BY <1>1 DEF Dropped
  <2> QED BY <2>1, <2>2, KeptIsMasked DEF StillMasked
<1>2. IInv => CriticalStaysMasked   BY <1>1 DEF CriticalStaysMasked
<1> QED BY <1>2, AlwaysIInv, PTL

\* A finding of the token is unmasked only by the token's owner, who may reject, by
\* the last item about it, and an audit event names the caller and the finding
\* (routes/review.py:121, service.py:170).
THEOREM OnlyARejectorUnmasks == Spec => []UnmaskedOnlyByItsRejector
<1>1. ASSUME IInv, NEW r \in Reviewed, NEW i \in DOMAIN DetsOf(r), ~StillMasked(r, DetsOf(r)[i])
      PROVE  /\ tokens[req[r].token].owner = req[r].user
             /\ "review.reject" \in Permissions[req[r].user]
             /\ Status(req[r].items, i) = "REJECTED"
             /\ \E e \in audit : /\ e.type = "REVIEW_REJECTED" /\ e.det = i
                                 /\ e.user = req[r].user /\ e.req = r
  <2> DEFINE items == req[r].items
             dets == DetsOf(r)
  <2>0. r \in Requests /\ req[r].kind = "review" /\ req[r].reply.image   BY DEF Reviewed
  <2>1. /\ Emitted(r) \subseteq audit /\ req[r].token \in DOMAIN tokens
        /\ r \in tokens[req[r].token].by
        /\ items \in Seq(Item) /\ Needed(items) \subseteq Permissions[req[r].user]
        /\ WellFound(dets) /\ req[r].events = Events(dets, items)
        /\ req[r].reply.masks = ReviewedFindings(dets, items)
    BY <1>1, <2>0, HandedOut
  <2>2. tokens[req[r].token].owner = req[r].user   BY <1>1, <2>1 DEF IInv, Spending
  <2>3. Status(items, i) = "REJECTED"
    <3>1. Dropped(dets[i], Status(items, i))   BY <1>1, <2>1, KeptIsMasked DEF StillMasked
    <3> QED BY <3>1 DEF Dropped
  <2>4. PICK k \in DOMAIN items : items[k].det = i /\ items[k].status = "REJECTED"
    BY <2>1, <2>3, StatusIsAnItems
  <2>5. "review.reject" \in Permissions[req[r].user]
    <3>1. "review.reject" \in NeededFor(items[k])   BY <2>4 DEF NeededFor
    <3>2. NeededFor(items[k]) \subseteq Needed(items)   BY <2>4 DEF Needed
    <3> QED BY <2>1, <3>1, <3>2
  <2> DEFINE event == Events(dets, items)[k]
  <2>6. /\ event.type = "REJECTED" /\ event.det = i
        /\ event \in ToSet(Events(dets, items))
    <3>1. i # 0   BY <1>1, <2>1 DEF WellFound
    <3>2. event = [det |-> i, item |-> k, type |-> "REJECTED"]   BY <2>4, <3>1 DEF Events
    <3>3. k \in DOMAIN Events(dets, items)   BY <2>4 DEF Events
    <3> QED BY <3>2, <3>3 DEF ToSet
  <2> HIDE DEF event
  <2>7. AuditType(r, event.type) = "REVIEW_REJECTED"   BY <2>0, <2>6 DEF AuditType
  <2>8. [type |-> "REVIEW_REJECTED", user |-> req[r].user, det |-> i, item |-> event.item, req |-> r] \in Emitted(r)
    <3>1. event \in {f \in ToSet(req[r].events) : AuditType(r, f.type) # "none"}   BY <2>1, <2>6, <2>7
    <3> QED BY <2>0, <2>6, <2>7, <3>1 DEF Emitted
  <2> QED BY <2>1, <2>2, <2>3, <2>5, <2>8
<1>2. IInv => UnmaskedOnlyByItsRejector   BY <1>1 DEF UnmaskedOnlyByItsRejector
<1> QED BY <1>2, AlwaysIInv, PTL

\* A region a reviewer adds is masked in the image handed out, unless it touches a
\* kept finding, or an earlier addition, of the same type (review_service.py:226, 246).
THEOREM AdditionMasked == Spec => []AdditionMaskedUnlessTouching
<1>1. ASSUME IInv, NEW r \in Reviewed, NEW k \in DOMAIN req[r].items, req[r].items[k].det = 0,
             ~Redundant(req[r].items[k], Kept(DetsOf(r), req[r].items)),
             ~\E j \in 1..(k - 1) : /\ req[r].items[j].det = 0 /\ req[r].items[j].type = req[r].items[k].type
                                     /\ Overlap(req[r].items[j].box, req[r].items[k].box)
      PROVE  Masked(req[r].reply.masks, req[r].items[k].type, req[r].items[k].box, "PARTIAL_MASK")
  <2>1. /\ req[r].items \in Seq(Item) /\ WellFound(DetsOf(r))
        /\ ~Invalid(DetsOf(r), req[r].items, req[r].fits)
        /\ req[r].reply.masks = ReviewedFindings(DetsOf(r), req[r].items)
    BY <1>1, HandedOut DEF Reviewed
  <2> QED BY <1>1, <2>1, AdditionIsMasked
<1>2. IInv => AdditionMaskedUnlessTouching   BY <1>1 DEF AdditionMaskedUnlessTouching
<1> QED BY <1>2, AlwaysIInv, PTL

-----------------------------------------------------------------------------
(***************************************************************************)
(* What the analysis must find.  The findings stay what the analysis of    *)
(* the image decided, which the first part says.                           *)
(***************************************************************************)
Analysed == scenario \in Scenarios /\ findings = Analysis(scenario)

LEMMA AlwaysAnalysed == Spec => []Analysed
<1>1. Init => Analysed   BY DEF Init, Analysed
<1>2. ASSUME [Next]_vars PROVE UNCHANGED <<scenario, findings>>
  <2>1. ASSUME NEW r \in Requests, Work(r) \/ Consume(r) \/ ProcessReview(r) \/ Answer(r) \/ Timeout(r)
        PROVE  UNCHANGED <<scenario, findings>>
    BY <2>1 DEF Work, Consume, ProcessReview, Answer, Timeout
  <2>2. ASSUME NEW r \in Requests, NEW user, NEW kind, Image(r, kind, user)
        PROVE  UNCHANGED <<scenario, findings>>
    BY <2>2 DEF Image, Refuse, Enter
  <2>3. ASSUME NEW r \in Requests, NEW user, NEW t, NEW s, Review(r, user, t, s)
        PROVE  UNCHANGED <<scenario, findings>>
    BY <2>3 DEF Review, Refuse, Enter
  <2>4. CASE UNCHANGED vars   BY <2>4 DEF vars
  <2> QED BY <1>2, <2>1, <2>2, <2>3, <2>4 DEF Next
<1>3. Analysed /\ [Next]_vars => Analysed'   BY <1>2 DEF Analysed
<1> QED BY <1>1, <1>3, PTL DEF Spec

LEMMA RedactedIsNotBare ==
  ASSUME Analysed, NEW l, NEW k \in Nat, Redacted(Findings(scenario.image, scenario.on, scenario.strict), l, k)
  PROVE  ~Bare(l, k)
<1>1. findings = Findings(scenario.image, scenario.on, scenario.strict)   BY DEF Analysed, Analysis, Findings
<1>2. PICK i \in DOMAIN findings : Over(findings[i].box, l, k)   BY <1>1 DEF Redacted
<1>3. findings[i] \in DetectionRecord   BY <1>2, AnalysisIsTyped DEF Analysed, WellFound
<1>4. PICK box \in [line : Nat, x : Nat, width : Nat] : box = findings[i].box   BY <1>3 DEF DetectionRecord
<1>5. box.line = l /\ box.x <= k /\ k + 1 <= box.x + box.width   BY <1>2, <1>4 DEF Over
<1>6. Box(l, k, k) = [line |-> l, x |-> k, width |-> 1]   BY DEF Box
<1>7. Covers(box, Box(l, k, k))   BY <1>4, <1>5, <1>6 DEF Covers
<1> QED BY <1>4, <1>7 DEF Bare

\* Whatever a line says, and whatever every other detector finds there: an ID, a
\* phone number, a secret after its keyword, a card number in two tokens and the value
\* after a label are masked, but for the exceptions the property names (pipeline.py:180).
THEOREM FormatsAreMasked == Spec => []KnownFormatsMasked
<1>1. ASSUME Analysed, {"regex", "context"} \subseteq scenario.on,
             NEW l \in DOMAIN scenario.image, NEW k \in DOMAIN scenario.image[l]
      PROVE  LET ts == scenario.image[l]
                 label == Min(Labels(ts))
                 SecretOf(j) == j > 0 /\ j + 2 <= Len(ts) /\ ts[j] = "password" /\ ts[j + 1] = "colon"
             IN  \/ ts[k] \in {"taiwanId", "phone"}
                 \/ ts[k] = "secret" /\ SecretOf(k - 2) /\ ~SecretOf(k - 4)
                 \/ /\ k > 1 /\ LuhnValid(ts, k - 1)
                    /\ \A j \in 1..(k - 2) : Digits(ts[j]) = 0
                 \/ /\ Labels(ts) # {} /\ k = LabelEnd(ts, label) + 2
                    /\ LabelType(ts[label]) = "Phone" => \A j \in k..Len(ts) : ts[j] # "phone"
                 => ~Bare(l, k)
  <2>1. PICK image \in Seq(Seq(TokenKinds)), on \in {scenario.on}, strict \in {scenario.strict} : image = scenario.image
    BY <1>1, ImagesTyped DEF Analysed
  <2>2. l \in DOMAIN image /\ k \in DOMAIN image[l] /\ "regex" \in on /\ "context" \in on   BY <1>1, <2>1
  <2>3. k \in Nat
    <3>1. image[l] \in Seq(TokenKinds)   BY <2>2, Lines
    <3> QED BY <2>2, <3>1, LenProperties
  <2>4. Redacted(Findings(image, on, strict), l, k) => ~Bare(l, k)   BY <1>1, <2>1, <2>3, RedactedIsNotBare
  <2>5. CASE image[l][k] \in {"taiwanId", "phone"}
    BY <2>1, <2>2, <2>4, <2>5, SingleTokenRedacted
  <2>6. CASE image[l][k] = "secret" /\ Keyword(image[l], k - 2) /\ ~Keyword(image[l], k - 4)
    BY <2>1, <2>2, <2>4, <2>6, SecretRedacted
  <2>7. CASE k > 1 /\ LuhnValid(image[l], k - 1) /\ \A j \in 1..(k - 2) : Digits(image[l][j]) = 0
    BY <2>1, <2>2, <2>4, <2>7, CardRedacted
  <2>8. CASE /\ Labels(image[l]) # {} /\ k = LabelEnd(image[l], Min(Labels(image[l]))) + 2
             /\ LabelType(image[l][Min(Labels(image[l]))]) = "Phone" =>
                  \A j \in k..Len(image[l]) : image[l][j] # "phone"
    BY <2>1, <2>2, <2>4, <2>8, LabelledRedacted
  <2> QED BY <2>1, <2>5, <2>6, <2>7, <2>8 DEF Keyword
<1>2. Analysed => KnownFormatsMasked   BY <1>1 DEF KnownFormatsMasked
<1> QED BY <1>2, AlwaysAnalysed, PTL

\* Whatever claimed the place of a guess, the place is masked, unless the claim came
\* from a label and a surer finding of its type absorbed it (candidate_value.py:137).
THEOREM GuessesGiveWay == Spec => []GuessGivesWayToAMask
<1>1. ASSUME Analysed, NEW g \in DOMAIN Guesses(scenario.image, scenario.on)
      PROVE  LET claims == Classified(scenario.image, scenario.on)
                 guess == Guesses(scenario.image, scenario.on)[g]
             IN  \/ ~Bare(guess.box.line, guess.box.x)
                 \/ \E c \in DOMAIN claims : /\ claims[c].layers = {"context"}
                                              /\ Overlap(claims[c].box, guess.box)
                                              /\ \E d \in DOMAIN claims :
                                                   /\ Canonical(claims[d]).type = claims[c].type
                                                   /\ claims[d].conf > claims[c].conf
                                                   /\ Overlap(claims[d].box, claims[c].box)
  <2>1. PICK image \in Seq(Seq(TokenKinds)), on \in {scenario.on}, strict \in {scenario.strict} : image = scenario.image
    BY <1>1, ImagesTyped DEF Analysed
  <2>2. PICK guess \in ToSet(Guesses(image, on)) : guess = Guesses(image, on)[g]   BY <1>1, <2>1 DEF ToSet
  <2>3. guess.box.x \in Nat   BY <2>1, <2>2, GuessesFind DEF Unsure
  <2>4. CASE Redacted(Findings(image, on, strict), guess.box.line, guess.box.x)
    BY <1>1, <2>1, <2>2, <2>3, <2>4, RedactedIsNotBare
  <2>5. CASE \E c \in ToSet(Classified(image, on)) : Overlap(c.box, guess.box) /\ Absorbed(c, image, on)
    BY <2>1, <2>2, <2>5 DEF Absorbed, ToSet
  <2> QED BY <2>1, <2>2, <2>4, <2>5, GuessIsRedactedOrAbsorbed
<1>2. Analysed => GuessGivesWayToAMask   BY <1>1 DEF GuessGivesWayToAMask
<1> QED BY <1>2, AlwaysAnalysed, PTL

-----------------------------------------------------------------------------
(***************************************************************************)
(* What the endpoints implement: the pool of slots that JobSlots, and the  *)
(* redeemable tokens that ReviewToken implements in detail.                *)
(***************************************************************************)
AtWork == {"started", "reviewing"}
Started(r) == /\ Cardinality(Holding) < MaxJobs /\ req[r].thread = "none" /\ req'[r].thread = "started"
              /\ UNCHANGED tokens
Turned(r) == req[r].thread = "none" /\ req'[r].thread = "none" /\ UNCHANGED tokens
Ended(r) == /\ req[r].thread \in AtWork /\ req'[r].thread = "ended" /\ req'[r].user = req[r].user
            /\ UNCHANGED tokens
Spent(r) == LET t == req[r].token IN
            /\ req[r].thread = "started" /\ req'[r].thread = "reviewing" /\ req'[r].user = req[r].user
            /\ t \in DOMAIN tokens /\ tokens[t].by = {} /\ tokens[t].owner = req[r].user
            /\ tokens' = [tokens EXCEPT ![t].spent = TRUE, ![t].by = {r}]
Told(r) == /\ req[r].thread # "none" /\ req'[r].thread = req[r].thread /\ req'[r].user = req[r].user
           /\ \/ UNCHANGED tokens
              \/ \E dets : tokens' = Append(tokens, [owner |-> req[r].user, dets |-> dets,
                                                     spent |-> FALSE, by |-> {}])

\* What a step may do to one request's thread, and to the tokens.
OneStep(r) == Elsewhere(r) /\ UNCHANGED scenario
              /\ (Started(r) \/ Turned(r) \/ Ended(r) \/ Spent(r) \/ Told(r))

LEMMA RefusedOrStarted ==
  ASSUME IInv, NEW r \in Requests, NEW kind, NEW user, NEW token, NEW s, req[r].pc = "idle",
         (\E status : Refuse(r, kind, user, status)) \/ Enter(r, kind, user, token, s)
  PROVE  OneStep(r)
<1>1. Shape /\ req[r].thread = "none"   BY DEF IInv, Local, Placed
<1>2. ASSUME NEW status, Refuse(r, kind, user, status) PROVE OneStep(r)
  <2>1. Elsewhere(r) /\ UNCHANGED <<scenario, tokens>> /\ req'[r].thread = "none"   BY <1>1, <1>2, RefuseEffect
  <2> QED BY <1>1, <2>1 DEF OneStep, Turned
<1>3. ASSUME Enter(r, kind, user, token, s) PROVE OneStep(r)
  <2>1. Elsewhere(r) /\ UNCHANGED <<scenario, tokens>> /\ req'[r].thread = "started"   BY <1>1, <1>3, EnterEffect
  <2>2. Cardinality(Holding) < MaxJobs   BY <1>3 DEF Enter
  <2> QED BY <1>1, <2>1, <2>2 DEF OneStep, Started
<1> QED BY <1>2, <1>3

LEMMA EndIsAStep ==
  ASSUME IInv, NEW r \in Requests, req[r].thread \in AtWork, UNCHANGED <<scenario, tokens>>,
         NEW error, NEW out, NEW events, End(r, error, out, events), out = [f \in ReplyFields |-> out[f]]
  PROVE  OneStep(r)
<1>1. Elsewhere(r) /\ req'[r].thread = "ended" /\ req'[r].user = req[r].user   BY EndEffect DEF IInv
<1> QED BY <1>1 DEF OneStep, Ended

LEMMA ThreadSteps ==
  ASSUME IInv, NEW r \in Requests, Work(r) \/ Consume(r) \/ ProcessReview(r)
  PROVE  OneStep(r)
<1>1. CASE Work(r)
  <2>1. req[r].thread \in AtWork /\ UNCHANGED <<scenario, tokens>>   BY <1>1 DEF Work, AtWork
  <2>2. PICK tail \in Tails, ds \in Tailed(findings) \cup {<<>>} : End(r, "none", Outcome(ds, tail, FALSE), <<>>)
    BY <1>1 DEF Work
  <2>3. Outcome(ds, tail, FALSE) = [f \in ReplyFields |-> Outcome(ds, tail, FALSE)[f]]   BY OutcomeFields
  <2> QED BY <2>1, <2>2, <2>3, EndIsAStep
<1>2. CASE ProcessReview(r)
  <2>1. req[r].thread \in AtWork /\ UNCHANGED <<scenario, tokens>>   BY <1>2 DEF ProcessReview, AtWork
  <2>2. \/ \E error \in {"500", "422"} : End(r, error, NoReply, <<>>)
        \/ \E tail \in Tails :
             End(r, "none", ReviewOutcome(DetsOf(r), req[r].items, tail), Events(DetsOf(r), req[r].items))
    BY <1>2 DEF ProcessReview, DetsOf
  <2>3. CASE \E error \in {"500", "422"} : End(r, error, NoReply, <<>>)
    BY <2>1, <2>3, NoReplyShape, EndIsAStep
  <2>4. ASSUME NEW tail \in Tails,
               End(r, "none", ReviewOutcome(DetsOf(r), req[r].items, tail), Events(DetsOf(r), req[r].items))
        PROVE  OneStep(r)
    <3> DEFINE o == ReviewOutcome(DetsOf(r), req[r].items, tail)
    <3>1. o = [f \in ReplyFields |-> o[f]]   BY OutcomeFields DEF ReviewOutcome
    <3> QED BY <2>1, <2>4, <3>1, EndIsAStep
  <2> QED BY <2>2, <2>3, <2>4
<1>3. CASE Consume(r) /\ ~TokenAccepted(r)
  <2>1. PICK error \in {"409", "422"} : End(r, error, NoReply, <<>>)   BY <1>3 DEF Consume
  <2>2. req[r].thread \in AtWork /\ UNCHANGED <<scenario, tokens>>   BY <1>3 DEF Consume, AtWork
  <2> QED BY <2>1, <2>2, NoReplyShape, EndIsAStep
<1>4. CASE Consume(r) /\ TokenAccepted(r)
  <2> DEFINE t == req[r].token
  <2>1. /\ req[r].thread = "started" /\ req[r].kind = "review" /\ UNCHANGED scenario
        /\ tokens' = [tokens EXCEPT ![t].spent = TRUE, ![t].by = {r}]
        /\ req' = [req EXCEPT ![r].thread = "reviewing"]
    BY <1>4 DEF Consume
  <2>2. Elsewhere(r) /\ req'[r].thread = "reviewing" /\ req'[r].user = req[r].user
    BY <2>1, ConsumeEffect DEF IInv
  <2>3. t \in DOMAIN tokens   BY <2>1, Places DEF IInv, Local, Placed
  <2>4. tokens[t].owner = req[r].user /\ tokens[t].by = {}   BY <1>4, <2>3 DEF TokenAccepted, IInv, Spending
  <2> QED BY <2>1, <2>2, <2>3, <2>4 DEF OneStep, Spent
<1> QED BY <1>1, <1>2, <1>3, <1>4

LEMMA AnswerIsAStep ==
  ASSUME IInv, NEW r \in Requests, Answer(r) \/ Timeout(r)
  PROVE  OneStep(r)
<1>1. PICK reply :
        /\ reply = [f \in ReplyFields |-> reply[f]]
        /\ req' = [req EXCEPT ![r] = [req[r] EXCEPT !.pc = "answered", !.reply = reply]]
        /\ \/ UNCHANGED tokens
           \/ tokens' = IF req[r].kind = "analyze"
                        THEN Append(tokens, [owner |-> req[r].user, dets |-> req[r].out.masks,
                                             spent |-> FALSE, by |-> {}])
                        ELSE tokens
  BY AnswerEffect, ZenonT(40) DEF IInv
<1>2. Elsewhere(r) /\ req'[r].thread = req[r].thread /\ req'[r].user = req[r].user
  BY <1>1, ReplyEffect DEF IInv
<1>3. UNCHANGED scenario /\ req[r].thread # "none"   BY DEF Answer, Timeout, IInv, Local, Placed
<1>4. \/ UNCHANGED tokens
      \/ \E dets : tokens' = Append(tokens, [owner |-> req[r].user, dets |-> dets, spent |-> FALSE, by |-> {}])
  BY <1>1
<1> QED BY <1>2, <1>3, <1>4 DEF OneStep, Told

LEMMA EveryStep ==
  ASSUME IInv, Next
  PROVE  \E r \in Requests : OneStep(r)
<1>1. ASSUME NEW r \in Requests, NEW user \in scenario.users,
             NEW kind \in {"analyze", "redact", "verify"}, Image(r, kind, user)
      PROVE  OneStep(r)
  <2>1. /\ req[r].pc = "idle"
        /\ \/ \E status : Refuse(r, kind, user, status)
           \/ Enter(r, kind, user, 0, [items |-> <<>>, fits |-> TRUE])
    BY <1>1 DEF Image
  <2> QED BY <2>1, RefusedOrStarted
<1>2. ASSUME NEW r \in Requests, NEW user \in scenario.users, NEW t \in DOMAIN tokens,
             NEW s \in scenario.submissions, Review(r, user, t, s)
      PROVE  OneStep(r)
  <2>1. /\ req[r].pc = "idle"
        /\ \/ \E status : Refuse(r, "review", user, status)
           \/ Enter(r, "review", user, t, s)
    BY <1>2 DEF Review
  <2> QED BY <2>1, RefusedOrStarted
<1> QED BY <1>1, <1>2, ThreadSteps, AnswerIsAStep DEF Next

-----------------------------------------------------------------------------
LEMMA PoolMoves == IInv /\ [Next]_vars => [Pool!Next]_Holding
<1> SUFFICES ASSUME IInv, Next PROVE Pool!Next \/ Holding' = Holding
  BY DEF vars, Holding
<1>1. PICK r \in Requests : OneStep(r)   BY EveryStep
<1>2. Elsewhere(r)   BY <1>1 DEF OneStep
<1>3. CASE Started(r)
  <2>1. r \notin Holding /\ Holding' = Holding \cup {r}   BY <1>2, <1>3 DEF Started, Holding, Elsewhere
  <2>2. Pool!Cardinality(Holding) = Cardinality(Holding)   BY DEF Pool!Cardinality, Cardinality
  <2>3. Pool!Take(r)   BY <1>3, <2>1, <2>2 DEF Started, Pool!Take
  <2> QED BY <2>3 DEF Pool!Next
<1>4. CASE Ended(r)
  <2>1. r \in Holding /\ Holding' = Holding \ {r}   BY <1>2, <1>4 DEF Ended, AtWork, Holding, Elsewhere
  <2>2. Pool!Give(r)   BY <2>1 DEF Pool!Give
  <2> QED BY <2>2 DEF Pool!Next
<1>5. CASE Turned(r) \/ Spent(r) \/ Told(r)
  BY <1>2, <1>5 DEF Turned, Spent, Told, Holding, Elsewhere
<1> QED BY <1>1, <1>3, <1>4, <1>5 DEF OneStep

\* A thread is started only while a slot is free and gives its slot back once, however
\* many requests were answered 504 before their thread ended (run_with_timeout).
THEOREM ThreadsFormAPool == Spec => PoolSpec
<1>1. Init => Pool!Init   BY DEF Init, Pool!Init, Holding, NoRequest
<1> QED BY <1>1, PoolMoves, AlwaysIInv, PTL DEF Spec, PoolSpec, Pool!Spec

-----------------------------------------------------------------------------
Issues == {[token |-> t, owner |-> tokens[t].owner] : t \in DOMAIN tokens}
RedeemedBy(t) == {[token |-> t, use |-> r, who |-> req[r].user] : r \in tokens[t].by}
Redemptions == UNION {RedeemedBy(t) : t \in DOMAIN tokens}

LEMMA RedemptionMoves == IInv /\ [Next]_vars => [Redeeming!Next]_<<Issues, Redemptions>>
<1> SUFFICES ASSUME IInv, Next PROVE Redeeming!Next \/ (Issues' = Issues /\ Redemptions' = Redemptions)
  BY DEF vars, Issues, Redemptions, RedeemedBy
<1>1. PICK r \in Requests : OneStep(r)   BY EveryStep
<1>2. Elsewhere(r)   BY <1>1 DEF OneStep
<1>3. /\ Len(tokens) \in Nat /\ DOMAIN tokens = 1..Len(tokens) /\ tokens \in Seq(Token)
      /\ \A t \in 1..Len(tokens) : tokens[t] \in Token /\ tokens[t].by \subseteq Requests
  BY Places DEF IInv, Given, Token
<1>4. \A t \in DOMAIN tokens : \A q \in tokens[t].by : req[q].thread \in {"reviewing", "ended"}
  BY DEF IInv, Spending
<1>5. ASSUME req'[r].user = req[r].user \/ req[r].thread = "none"
      PROVE  \A t \in DOMAIN tokens : \A q \in tokens[t].by : req'[q].user = req[q].user
  BY <1>2, <1>3, <1>4, <1>5 DEF Elsewhere
<1>6. ASSUME UNCHANGED tokens, req'[r].user = req[r].user \/ req[r].thread = "none"
      PROVE  Issues' = Issues /\ Redemptions' = Redemptions
  BY <1>5, <1>6 DEF Issues, Redemptions, RedeemedBy
<1>7. CASE Started(r) \/ Turned(r) \/ Ended(r)   BY <1>6, <1>7 DEF Started, Turned, Ended
<1>8. CASE Spent(r)
  <2>0. PICK n, use : n = req[r].token /\ use = [token |-> n, use |-> r, who |-> req[r].user]   OBVIOUS
  <2>1. /\ n \in DOMAIN tokens /\ tokens[n].by = {} /\ tokens[n].owner = req[r].user
        /\ tokens' = [tokens EXCEPT ![n].spent = TRUE, ![n].by = {r}]
        /\ req'[r].user = req[r].user /\ req[r].thread = "started"
    BY <1>8, <2>0 DEF Spent
  <2>2. /\ DOMAIN tokens' = DOMAIN tokens /\ tokens'[n].by = {r} /\ tokens'[n].owner = tokens[n].owner
        /\ \A t \in DOMAIN tokens : t # n => tokens'[t] = tokens[t]
    BY <1>3, <2>1 DEF Token
  <2>3. Issues' = Issues   BY <2>2 DEF Issues
  <2>4. Redemptions' = Redemptions \cup {use}
    <3>1. \A t \in DOMAIN tokens : t # n => RedeemedBy(t)' = RedeemedBy(t)
      BY <1>5, <2>1, <2>2 DEF RedeemedBy
    <3>2. RedeemedBy(n) = {} /\ RedeemedBy(n)' = {use}   BY <2>0, <2>1, <2>2 DEF RedeemedBy
    <3> QED BY <2>1, <2>2, <3>1, <3>2 DEF Redemptions
  <2>5. \E i \in Issues : i.token = n /\ i.owner \in {"nobody", req[r].user}
    <3>1. PICK i : i = [token |-> n, owner |-> tokens[n].owner]   OBVIOUS
    <3> QED BY <2>1, <3>1 DEF Issues
  <2>6. \A d \in Redemptions : d.token # n /\ d.use # r
    BY <1>4, <2>1 DEF Redemptions, RedeemedBy
  <2>7. PICK t \in Nat, who \in UNION {s.users : s \in Scenarios} : t = n /\ who = req[r].user
    BY <1>3, <2>1 DEF IInv, Local, Placed, Given
  <2>8. Redeeming!Redeem(t, r, who)
    BY <2>0, <2>3, <2>4, <2>5, <2>6, <2>7 DEF Redeeming!Redeem, Issues, Redemptions, RedeemedBy
  <2> QED BY <2>8, Zenon DEF Redeeming!Next
<1>9. CASE Told(r)
  <2>1. CASE UNCHANGED tokens   BY <1>6, <1>9, <2>1 DEF Told
  <2>2. ASSUME NEW dets,
               tokens' = Append(tokens, [owner |-> req[r].user, dets |-> dets, spent |-> FALSE, by |-> {}])
        PROVE  Redeeming!Next
    <3>0. PICK n, new : n = Len(tokens) + 1 /\ new = [token |-> n, owner |-> req[r].user]   OBVIOUS
    <3>1. PICK k : k = [owner |-> req[r].user, dets |-> dets, spent |-> FALSE, by |-> {}]   OBVIOUS
    <3>2. /\ DOMAIN tokens' = DOMAIN tokens \cup {n} /\ tokens'[n] = k
          /\ \A t \in DOMAIN tokens : tokens'[t] = tokens[t]
      BY <1>3, <2>2, <3>0, <3>1
    <3>3. Issues' = Issues \cup {new}   BY <3>0, <3>1, <3>2 DEF Issues
    <3>4. Redemptions' = Redemptions
      <4>1. \A t \in DOMAIN tokens : RedeemedBy(t)' = RedeemedBy(t)   BY <1>5, <1>9, <3>2 DEF Told, RedeemedBy
      <4>2. RedeemedBy(n)' = {}   BY <3>1, <3>2 DEF RedeemedBy
      <4> QED BY <3>2, <4>1, <4>2 DEF Redemptions
    <3>5. \A i \in Issues : i.token # n   BY <1>3, <3>0 DEF Issues
    <3>6. PICK t \in Nat, who \in UNION {s.users : s \in Scenarios} : t = n /\ who = req[r].user
      BY <1>3, <1>9, <3>0 DEF IInv, Local, Placed, Given, Told
    <3>7. Redeeming!Issue(t, who)
      BY <3>0, <3>3, <3>4, <3>5, <3>6 DEF Redeeming!Issue, Issues, Redemptions, RedeemedBy
    <3> QED BY <3>7, Zenon DEF Redeeming!Next
  <2> QED BY <1>9, <2>1, <2>2 DEF Told
<1> QED BY <1>1, <1>7, <1>8, <1>9 DEF OneStep

\* Every token of an analysis is redeemed at most once, by its owner, whatever reviews
\* race for it and whichever were answered before their thread came to it
\* (service.py:170).
THEOREM TokensRedeemedOnce == Spec => RedeemedAsPromised
<1>1. Init => Redeeming!Init
  BY DEF Init, Redeeming!Init
<1>2. IInv /\ [Next]_vars => [Redeeming!Next]_<<Issues, Redemptions>>   BY RedemptionMoves
<1> QED BY <1>1, <1>2, AlwaysIInv, PTL
  DEF Spec, RedeemedAsPromised, Redeeming!Spec, Redeeming!vars, Issues, Redemptions, RedeemedBy
=============================================================================
