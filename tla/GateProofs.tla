----------------------------- MODULE GateProofs -----------------------------
(***************************************************************************)
(* Proofs about what stands before the endpoints, for any configurations,  *)
(* users, requests and limits, in memory and in Redis, whatever fails.     *)
(*                                                                         *)
(* The invariant follows a request through the counters it is checked      *)
(* against (Waits, Covered, Refused, Entered, Fresh), and relates what the *)
(* two limiters store to the history of what they allowed (RedisCounts,    *)
(* StoreCounts): a stored count is never above the history, and, in memory, *)
(* no lower while the limiter is Tidy.                                     *)
(***************************************************************************)
EXTENDS Gate, FiniteSetTheorems, SequenceTheorems, WellFoundedInduction, TLAPS

Fields == {"pc", "call", "todo", "clock", "denied", "tries", "failed", "own", "asked", "window", "answer"}
Shape == /\ req = [r \in Requests |-> req[r]]
         /\ \A r \in Requests : req[r] = [f \in Fields |-> req[r][f]]

Typed == /\ config \in Configs /\ status \in {"starting", "running", "refused"}
         /\ status = "running" => Starts(config)
         /\ now \in 0..MaxTime /\ lastCleanup \in 0..now /\ latest \in Nat
         /\ built \in BOOLEAN /\ sessions \subseteq DOMAIN Roles
         /\ IsFiniteSet(charged)

\* The counters of a request, and whether it is being checked against them.
Planned(r) == Checks(req[r].call.class, req[r].asked, ClientIp(req[r].call))
KeysOf(checks) == {checks[i].key : i \in DOMAIN checks}
AtLimiter(r) == req[r].pc \in {"building", "limiting", "clocked"}
Passed(r) == req[r].pc \in {"authorizing", "inside"}

\* Where a request is, what it has still to ask, and what is behind it.
Waits(r) ==
  /\ req[r].pc \in {"idle", "arriving", "building", "limiting", "clocked", "authorizing", "inside", "answered"}
  /\ req[r].tries \in 0..RetryLimit /\ req[r].clock \in 0..now
  /\ req[r].denied \in BOOLEAN /\ req[r].failed \in BOOLEAN /\ req[r].own \in BOOLEAN
  /\ req[r].pc # "idle" => status = "running"
  /\ req[r].pc \in {"idle", "arriving"} =>
       /\ ~req[r].denied /\ ~req[r].failed /\ ~req[r].own /\ req[r].answer = "none"
       /\ \A x \in charged : x.req # r
  /\ AtLimiter(r) => /\ Has("rate") /\ ~req[r].failed
                     /\ req[r].todo \in {Planned(r), Tail(Planned(r))} /\ req[r].todo # <<>>
  /\ req[r].pc \in {"building", "clocked"} => ~Has("redis") /\ ~req[r].own
  /\ req[r].own => ~Has("redis")
  /\ req[r].failed => req[r].pc = "answered" \/ ~Has("redis")
  /\ Passed(r) => req[r].todo = <<>> /\ (req[r].denied => req[r].failed)
  /\ req[r].answer = "429" => req[r].denied

\* Every counter that applies has counted a request that passed, or has yet to.
Covered(r) ==
  /\ \A x \in ChargesOf(r) : x.key \in KeysOf(Planned(r))
  /\ (AtLimiter(r) \/ Passed(r)) /\ Has("rate") /\ ~req[r].failed /\ ~req[r].denied =>
       KeysOf(Planned(r)) \subseteq {x.key : x \in ChargesOf(r)} \cup KeysOf(req[r].todo)

ChargedIn(key, window) == {x \in charged : x.key = key /\ x.window = window}
Refused(r) ==
  req[r].denied =>
    \E i \in DOMAIN Planned(r) :
      Cardinality(ChargedIn(Planned(r)[i].key, req[r].window)) >= Planned(r)[i].capacity

Entered(r) ==
  req[r].pc = "inside" /\ Has("oidc") =>
    /\ req[r].call.user \in DOMAIN Roles /\ Permitted(req[r].call.user, req[r].call.class)
    /\ req[r].call.class # "REVIEW" =>
         \E e \in audit : e.req = r /\ e.type = "ALLOWED" /\ e.user = req[r].call.user

Local(r) == Waits(r) /\ Covered(r) /\ Refused(r) /\ Entered(r)

\* An increment is of a request's own key; the next one will be a new record.
Fresh(x) ==
  /\ x.req \in Requests /\ x.key \in KeysOf(Planned(x.req)) /\ x.window \in Nat /\ x.n \in Nat
  /\ AtLimiter(x.req) /\ x.key \in KeysOf(req[x.req].todo) =>
       x.key = Head(req[x.req].todo).key /\ x.n < req[x.req].tries

Within(x) == Cardinality(CountedIn(x.key, x.window)) <= CapacityOf(x.key)

RedisCounts ==
  /\ \A p \in DOMAIN counters : counters[p] \in Nat \ {0}
  /\ Has("redis") =>
       /\ DOMAIN counters = {<<x.key, x.window>> : x \in charged}
       /\ \A x \in charged : /\ Within(x)
                             /\ Cardinality(CountedIn(x.key, x.window)) <= counters[<<x.key, x.window>>]
                             /\ counters[<<x.key, x.window>>] <= Cardinality(ChargedIn(x.key, x.window))

\* No eviction, no late caller, no limiter of one's own.
Tidy == ~evicted /\ ~late /\ \A r \in Requests : ~req[r].own

Bucket == [window : Nat, count : Nat \ {0}, age : Nat]
Buckets == /\ IsFiniteSet(DOMAIN buckets) /\ Cardinality(DOMAIN buckets) <= MaxKeys
           /\ \E n \in Nat : \A k \in DOMAIN buckets : buckets[k].age <= n
           /\ \A k \in DOMAIN buckets : buckets[k] \in Bucket /\ buckets[k].window <= latest

StoreCounts ==
  /\ \A k \in DOMAIN buckets : buckets[k].count <= Cardinality(CountedIn(k, buckets[k].window))
  /\ ~Has("redis") /\ Tidy =>
       /\ \A x \in charged : Within(x) /\ x.window <= latest
       /\ \A x \in charged : x.window = latest => x.key \in DOMAIN buckets /\ buckets[x.key].window = latest
       /\ \A k \in DOMAIN buckets : Cardinality(CountedIn(k, buckets[k].window)) <= buckets[k].count

Counts == Buckets /\ RedisCounts /\ StoreCounts
IInv == Shape /\ Typed /\ Counts /\ (\A r \in Requests : Local(r)) /\ (\A x \in charged : Fresh(x))
-----------------------------------------------------------------------------
(***************************************************************************)
(* The counters a request is checked against.                              *)
(***************************************************************************)
LEMMA Limits ==
  /\ Capacity \in Nat \ {0} /\ Window \in Nat \ {0} /\ MaxKeys \in Nat \ {0}
  /\ CleanupInterval \in Nat \ {0} /\ RetryLimit \in Nat /\ MaxTime \in Nat
  /\ \A c \in Configs : c.multiplier \in Nat \ {0}
BY LimitsPositive, BoundsNat

LEMMA CapacityPositive ==
  ASSUME config \in Configs, NEW key
  PROVE  CapacityOf(key) \in Nat \ {0}
<1> DEFINE m == config.multiplier
<1>1. Capacity \in Nat \ {0} /\ m \in Nat \ {0}   BY Limits
<1> HIDE DEF m
<1>2. Capacity * m \in Nat \ {0}   BY <1>1
<1> QED BY <1>1, <1>2 DEF CapacityOf, m

\* A nonempty set of naturals has a least element.
Smaller == {p \in Nat \X Nat : p[1] < p[2]}

LEMMA SmallerIsWellFounded == IsWellFoundedOn(Smaller, Nat)
<1>1. OpToRel(<, Nat) = Smaller   BY Zenon DEF OpToRel, Smaller
<1> QED BY <1>1, NatLessThanWellFounded

LEMMA LeastNat ==
  ASSUME NEW T, T \subseteq Nat, T # {}
  PROVE  \E x \in T : \A y \in T : x <= y
<1>1. PICK x \in T : \A y \in T : ~ (<<y, x>> \in Smaller)   BY SmallerIsWellFounded, WFMin
<1>2. \A a, b \in Nat : a < b => <<a, b>> \in Smaller         BY DEF Smaller
<1>3. \A y \in T : x <= y
  <2> SUFFICES ASSUME NEW y \in T PROVE x <= y   OBVIOUS
  <2>1. x \in Nat /\ y \in Nat                   OBVIOUS
  <2>2. ~(y < x)                                 BY <1>1, <1>2, <2>1
  <2> QED BY <2>1, <2>2
<1> QED BY <1>3

LEMMA Pair ==
  ASSUME NEW a, NEW b
  PROVE  <<a>> \o <<b>> = <<a, b>>
<1>1. <<a>> \in Seq({a, b}) /\ <<b>> \in Seq({a, b}) /\ <<a, b>> \in Seq({a, b})   OBVIOUS
<1>2. Len(<<a>>) = 1 /\ Len(<<b>>) = 1 /\ Len(<<a, b>>) = 2   OBVIOUS
<1>3. /\ <<a>> \o <<b>> \in Seq({a, b}) /\ Len(<<a>> \o <<b>>) = 2
      /\ \A i \in 1..2 : (<<a>> \o <<b>>)[i] = <<a, b>>[i]
  BY <1>1, <1>2, ConcatProperties
<1> QED BY <1>1, <1>2, <1>3, SeqEqual

LEMMA Single ==
  ASSUME NEW a
  PROVE  DOMAIN <<a>> = {1} /\ <<a>> # <<>> /\ Head(<<a>>) = a /\ Tail(<<a>>) = <<>> /\ <<a>>[1] = a
OBVIOUS

\* One or two counters, of different keys.
InLayers(class, user) == user # "none" /\ class \in Layered
WellPlanned(c, class, user, ip) ==
  /\ InLayers(class, user) => DOMAIN c = {1, 2} /\ c # <<>> /\ Head(c) = c[1] /\ Tail(c) = <<c[2]>>
  /\ ~InLayers(class, user) => DOMAIN c = {1} /\ c # <<>> /\ Head(c) = c[1] /\ Tail(c) = <<>>
  /\ c[1].key = IF user = "none" THEN <<"anon", class, ip>> ELSE <<"identity", class, user>>
  /\ InLayers(class, user) => c[2].key = <<"client", class, ip>>
  /\ \A i \in DOMAIN c : c[i].capacity = CapacityOf(c[i].key)

LEMMA ChecksShape ==
  ASSUME NEW class, NEW user, NEW ip
  PROVE  WellPlanned(Checks(class, user, ip), class, user, ip)
<1> USE DEF WellPlanned, InLayers
<1> DEFINE c == Checks(class, user, ip)
           anon == [key |-> <<"anon", class, ip>>, capacity |-> Capacity]
           identity == [key |-> <<"identity", class, user>>, capacity |-> Capacity]
           client == [key |-> <<"client", class, ip>>, capacity |-> Capacity * config.multiplier]
<1>1. CASE user = "none"
  <2>1. c = <<anon>>   BY <1>1 DEF Checks, Key
  <2>2. anon.key = <<"anon", class, ip>> /\ anon.capacity = CapacityOf(anon.key)   BY DEF CapacityOf
  <2> HIDE DEF c, anon, identity, client
  <2>3. DOMAIN c = {1} /\ c # <<>> /\ Head(c) = c[1] /\ Tail(c) = <<>> /\ c[1] = anon   BY <2>1, Single
  <2>4. c[1].key = <<"anon", class, ip>>   BY <2>2, <2>3
  <2>5. \A i \in DOMAIN c : c[i].capacity = CapacityOf(c[i].key)   BY <2>2, <2>3
  <2> QED BY <1>1, <2>3, <2>4, <2>5 DEF c
<1>2. CASE user # "none" /\ class \in Layered
  <2>1. c = <<identity>> \o <<client>>   BY <1>2 DEF Checks, Key
  <2>2. identity.key = <<"identity", class, user>> /\ identity.capacity = CapacityOf(identity.key)
    BY DEF CapacityOf
  <2>3. client.key = <<"client", class, ip>> /\ client.capacity = CapacityOf(client.key)
    BY DEF CapacityOf
  <2> HIDE DEF c, anon, identity, client
  <2>4. c = <<identity, client>>   BY <2>1, Pair
  <2> QED BY <1>2, <2>2, <2>3, <2>4 DEF c
<1>3. CASE user # "none" /\ class \notin Layered
  <2>1. c = <<identity>>   BY <1>3 DEF Checks, Key
  <2>2. identity.key = <<"identity", class, user>> /\ identity.capacity = CapacityOf(identity.key)
    BY DEF CapacityOf
  <2> HIDE DEF c, anon, identity, client
  <2> QED BY <1>3, <2>1, <2>2, Single DEF c
<1> HIDE DEF c, anon, identity, client
<1> QED BY <1>1, <1>2, <1>3

LEMMA PlannedCapacity ==
  ASSUME NEW q, NEW i \in DOMAIN Planned(q)
  PROVE  Planned(q)[i].capacity = CapacityOf(Planned(q)[i].key)
<1>1. WellPlanned(Planned(q), req[q].call.class, req[q].asked, ClientIp(req[q].call))
  BY ChecksShape DEF Planned
<1> QED BY <1>1 DEF WellPlanned

\* What is left to ask: the first, and the others.
LeftOf(todo, plan) ==
  /\ \E i \in DOMAIN plan : Head(todo) = plan[i]
  /\ Head(todo).capacity = CapacityOf(Head(todo).key)
  /\ Tail(todo) \in {Tail(plan), <<>>}
  /\ KeysOf(todo) = {Head(todo).key} \cup KeysOf(Tail(todo))
  /\ Head(todo).key \notin KeysOf(Tail(todo))

LEMMA TodoShape ==
  ASSUME NEW class, NEW user, NEW ip, NEW todo,
         todo \in {Checks(class, user, ip), Tail(Checks(class, user, ip))}, todo # <<>>
  PROVE  LeftOf(todo, Checks(class, user, ip))
<1> USE DEF LeftOf
<1> DEFINE c == Checks(class, user, ip)
<1>1. WellPlanned(c, class, user, ip) /\ <<"identity", class, user>> # <<"client", class, ip>>
  BY ChecksShape
<1>2. todo \in {c, Tail(c)}   OBVIOUS
<1> HIDE DEF c
<1> USE DEF WellPlanned
<1>3. CASE todo = c /\ InLayers(class, user)
  <2>1. KeysOf(c) = {c[1].key, c[2].key} /\ KeysOf(<<c[2]>>) = {c[2].key}   BY <1>1, <1>3 DEF KeysOf
  <2>2. Tail(todo) = <<c[2]>> /\ Head(todo) = c[1] /\ 1 \in DOMAIN c   BY <1>1, <1>3
  <2>3. c[1].key # c[2].key   BY <1>1, <1>3 DEF InLayers
  <2>4. /\ KeysOf(todo) = {Head(todo).key} \cup KeysOf(Tail(todo))
        /\ Head(todo).key \notin KeysOf(Tail(todo))
    BY <1>3, <2>1, <2>2, <2>3
  <2> QED BY <1>1, <1>3, <2>2, <2>4 DEF c
<1>4. CASE todo = c /\ ~InLayers(class, user)
  <2>1. KeysOf(c) = {c[1].key} /\ KeysOf(<<>>) = {}   BY <1>1, <1>4 DEF KeysOf
  <2> QED BY <1>1, <1>4, <2>1 DEF c
<1>5. CASE todo = <<c[2]>> /\ InLayers(class, user)
  <2>1. KeysOf(todo) = {c[2].key} /\ KeysOf(<<>>) = {} /\ Head(todo) = c[2] /\ Tail(todo) = <<>>
    BY <1>5 DEF KeysOf
  <2> QED BY <1>1, <1>5, <2>1 DEF c
<1> QED BY <1>1, <1>2, <1>3, <1>4, <1>5
-----------------------------------------------------------------------------
(***************************************************************************)
(* The others keep what they have.                                         *)
(***************************************************************************)
Elsewhere(r) == \A q \in Requests : q # r => req'[q] = req[q]

LEMMA OneChanges ==
  ASSUME Shape, NEW r \in Requests, NEW x, x = [f \in Fields |-> x[f]], req' = [req EXCEPT ![r] = x]
  PROVE  Shape' /\ req'[r] = x /\ Elsewhere(r)
<1>1. req = [q \in Requests |-> req[q]]   BY DEF Shape
<1>2. req' = [q \in Requests |-> req'[q]] /\ req'[r] = x /\ Elsewhere(r)   BY <1>1 DEF Elsewhere
<1> QED BY <1>2 DEF Shape, Elsewhere

\* Nothing is taken back.
Onward == /\ UNCHANGED config /\ (status = "running" => status' = "running")
          /\ now' \in Nat /\ now <= now'
          /\ charged \subseteq charged' /\ IsFiniteSet(charged') /\ audit \subseteq audit'

LEMMA ConfigFixed ==
  ASSUME UNCHANGED config
  PROVE  /\ \A class, user, ip : Checks(class, user, ip)' = Checks(class, user, ip)
         /\ \A call : ClientIp(call)' = ClientIp(call)
         /\ \A key : CapacityOf(key)' = CapacityOf(key)
         /\ \A user, class : Permitted(user, class)' = Permitted(user, class)
<1>1. \A class, user, ip : Checks(class, user, ip)' = Checks(class, user, ip)
  <2> SUFFICES ASSUME NEW class, NEW user, NEW ip
               PROVE  Checks(class, user, ip)' = Checks(class, user, ip)
    OBVIOUS
  <2> QED BY Zenon DEF Checks
<1>2. \A call : ClientIp(call)' = ClientIp(call)   BY Zenon DEF ClientIp
<1>3. \A key : CapacityOf(key)' = CapacityOf(key)   BY Zenon DEF CapacityOf
<1>4. \A user, class : Permitted(user, class)' = Permitted(user, class)
  BY Zenon DEF Permitted, PermissionsOf, Has
<1> QED BY <1>1, <1>2, <1>3, <1>4

LEMMA PlanMade ==
  ASSUME UNCHANGED config, NEW q \in Requests, NEW user,
         req'[q].call = req[q].call, req'[q].asked = user
  PROVE  Planned(q)' = Checks(req[q].call.class, user, ClientIp(req[q].call))
<1>1. ClientIp(req[q].call)' = ClientIp(req[q].call)   BY ConfigFixed
<1> QED BY <1>1, ConfigFixed DEF Planned

LEMMA PlanFixed ==
  ASSUME UNCHANGED config, NEW q \in Requests,
         req'[q].call = req[q].call, req'[q].asked = req[q].asked
  PROVE  Planned(q)' = Planned(q)
BY PlanMade DEF Planned

\* A refusal keeps its reason.
LEMMA RefusedStays ==
  ASSUME Onward, NEW q \in Requests, Planned(q)' = Planned(q),
         req'[q].window = req[q].window, req'[q].denied = req[q].denied, Refused(q),
         config \in Configs, IsFiniteSet(charged)
  PROVE  Refused(q)'
<1> SUFFICES ASSUME req[q].denied PROVE Refused(q)'   BY DEF Refused
<1> DEFINE plan == Planned(q)
<1>1. PICK i \in DOMAIN plan :
        Cardinality(ChargedIn(plan[i].key, req[q].window)) >= plan[i].capacity
  BY DEF Refused
<1> DEFINE before == ChargedIn(plan[i].key, req[q].window)
           after == {x \in charged' : x.key = plan[i].key /\ x.window = req[q].window}
<1>2. before \subseteq after /\ after \subseteq charged' /\ before \subseteq charged
  BY DEF ChargedIn, Onward
<1>3. IsFiniteSet(after) /\ IsFiniteSet(before) /\ Cardinality(before) <= Cardinality(after)
  BY <1>2, FS_Subset DEF Onward
<1>4. plan[i].capacity \in Int
  <2>1. plan[i].capacity = CapacityOf(plan[i].key)   BY PlannedCapacity
  <2> QED BY <2>1, CapacityPositive
<1>5. Cardinality(before) \in Nat /\ Cardinality(after) \in Nat   BY <1>3, FS_CardinalityType
<1>6. Cardinality(after) >= plan[i].capacity   BY <1>1, <1>3, <1>4, <1>5
<1>7. after = ChargedIn(Planned(q)[i].key, req[q].window)'   BY DEF ChargedIn
<1>8. i \in DOMAIN (Planned(q)') /\ plan[i] = (Planned(q)')[i]   OBVIOUS
<1> HIDE DEF plan, before, after
<1> QED BY <1>1, <1>6, <1>7, <1>8 DEF Refused

LEMMA CoveredStays ==
  ASSUME UNCHANGED <<charged, config>>, NEW q, Planned(q)' = Planned(q), Covered(q),
         \/ req'[q].failed
         \/ ~(AtLimiter(q)' \/ Passed(q)')
         \/ /\ AtLimiter(q) \/ Passed(q)
            /\ req'[q].todo = req[q].todo /\ (req'[q].denied <=> req[q].denied)
            /\ req'[q].failed <=> req[q].failed
  PROVE  Covered(q)'
<1> DEFINE counted == {x.key : x \in ChargesOf(q)}
           plan == KeysOf(Planned(q))
           todo == KeysOf(req[q].todo)
<1>1. ChargesOf(q)' = ChargesOf(q)   BY DEF ChargesOf
<1>2. counted' = counted   BY <1>1
<1>3. plan' = plan /\ (req'[q].todo = req[q].todo => todo' = todo)   BY DEF KeysOf
<1>4. \A x \in ChargesOf(q) : x.key \in plan   BY DEF Covered
<1>5. (AtLimiter(q) \/ Passed(q)) /\ Has("rate") /\ ~req[q].failed /\ ~req[q].denied =>
        plan \subseteq counted \cup todo
  BY DEF Covered
<1>6. \A x \in ChargesOf(q)' : x.key \in plan'   BY <1>1, <1>3, <1>4
<1> HIDE DEF counted, plan, todo
<1>7. (AtLimiter(q)' \/ Passed(q)') /\ Has("rate")' /\ ~req'[q].failed /\ ~req'[q].denied =>
        plan' \subseteq counted' \cup todo'
  BY <1>2, <1>3, <1>5 DEF Has
<1> QED BY <1>6, <1>7 DEF Covered, counted, plan, todo

LEMMA OthersKeep ==
  ASSUME IInv, Onward, NEW q \in Requests, req'[q] = req[q],
         \A x \in charged' : x \in charged \/ x.req # q
  PROVE  Local(q)' /\ \A x \in charged : x.req = q => Fresh(x)'
<1>1. Planned(q)' = Planned(q)   BY PlanFixed DEF Onward
<1>2. Local(q) /\ Typed   BY DEF IInv
<1>3. ChargesOf(q)' = ChargesOf(q)   BY DEF ChargesOf, Onward
<1>4. Waits(q)'   BY <1>1, <1>2 DEF Local, Waits, AtLimiter, Passed, Onward, Has, Typed
<1>5. Covered(q)'   BY <1>1, <1>2, <1>3 DEF Local, Covered, KeysOf, AtLimiter, Passed, Onward, Has
<1>6. Refused(q)'   BY <1>1, <1>2, RefusedStays DEF Local, Typed
<1>7. Entered(q)'   BY <1>2, ConfigFixed DEF Local, Entered, Onward, Has
<1>8. ASSUME NEW x \in charged, x.req = q PROVE Fresh(x)'
  <2>1. Fresh(x)   BY DEF IInv
  <2> QED BY <1>1, <1>8, <2>1 DEF Fresh, KeysOf, AtLimiter
<1> QED BY <1>4, <1>5, <1>6, <1>7, <1>8 DEF Local

\* A step that counts nothing.
Quiet == UNCHANGED <<charged, counters, buckets, latest, late, evicted>>

LEMMA CountsKeep ==
  ASSUME IInv, Quiet, UNCHANGED config, \A r \in Requests : req[r].own => req'[r].own
  PROVE  Counts'
<1>1. Tidy' => Tidy   BY DEF Tidy, Quiet
<1>2. \A key : CapacityOf(key)' = CapacityOf(key)   BY ConfigFixed
<1>3. \A key, window : CountedIn(key, window)' = CountedIn(key, window)   BY DEF CountedIn, Quiet
<1>4. \A key, window : ChargedIn(key, window)' = ChargedIn(key, window)   BY DEF ChargedIn, Quiet
<1>5. \A x : Within(x)' <=> Within(x)   BY <1>2, <1>3 DEF Within
<1>6. Buckets'   BY DEF IInv, Counts, Buckets, Quiet, Bucket
<1>7. RedisCounts'   BY <1>3, <1>4, <1>5 DEF IInv, Counts, RedisCounts, Quiet, Has
<1>8. StoreCounts'   BY <1>1, <1>3, <1>5 DEF IInv, Counts, StoreCounts, Quiet, Has
<1> QED BY <1>6, <1>7, <1>8 DEF Counts

\* The step of one request that counts nothing.
LEMMA QuietKeeps ==
  ASSUME IInv, Quiet, Onward, NEW r \in Requests, Shape', Typed', Elsewhere(r),
         req[r].own => req'[r].own, Local(r)', \A x \in charged : x.req = r => Fresh(x)'
  PROVE  IInv'
<1>1. \A q \in Requests : Local(q)'   BY OthersKeep DEF Elsewhere, Quiet
<1>2. \A x \in charged' : Fresh(x)'
  <2> SUFFICES ASSUME NEW x \in charged PROVE Fresh(x)'   BY DEF Quiet
  <2>1. x.req \in Requests   BY DEF IInv, Fresh
  <2> QED BY <2>1, OthersKeep DEF Elsewhere, Quiet
<1>3. Counts'   BY CountsKeep DEF Elsewhere, Onward
<1> QED BY <1>1, <1>2, <1>3 DEF IInv

\* A step of no request.
LEMMA ElsewhereKeeps ==
  ASSUME IInv, Quiet, Onward, UNCHANGED req, Typed'
  PROVE  IInv'
<1>1. \A q \in Requests : Local(q)'   BY OthersKeep DEF Quiet
<1>2. \A x \in charged' : Fresh(x)'
  <2> SUFFICES ASSUME NEW x \in charged PROVE Fresh(x)'   BY DEF Quiet
  <2>1. x.req \in Requests   BY DEF IInv, Fresh
  <2> QED BY <2>1, OthersKeep DEF Quiet
<1>3. Counts'   BY CountsKeep DEF Onward
<1>4. Shape'   BY DEF IInv, Shape
<1> QED BY <1>1, <1>2, <1>3, <1>4 DEF IInv
-----------------------------------------------------------------------------
(***************************************************************************)
(* The actions that count nothing.                                         *)
(***************************************************************************)
LEMMA Numbers ==
  ASSUME Typed
  PROVE  MaxTime \in Nat /\ now \in Nat /\ lastCleanup \in Nat /\ RetryLimit \in Nat
BY Limits DEF Typed

LEMMA CreateAppKeeps == IInv /\ CreateApp => IInv'
<1> SUFFICES ASSUME IInv, CreateApp PROVE IInv'   OBVIOUS
<1>1. Quiet /\ UNCHANGED <<config, req, now, lastCleanup, sessions, audit, built>> /\ status = "starting"
  BY DEF CreateApp, Quiet
<1>2. status' = IF Starts(config) THEN "running" ELSE "refused"   BY DEF CreateApp
<1>3. Starts(config)' <=> Starts(config)
  BY <1>1, Zenon DEF Starts, ValidateProductionSecret, ValidateProductionAuthConfig,
       ValidateProductionAuditConfig, ValidateProductionRateLimitConfig, ValidateRedisConfig,
       SecretShared, ValidateDeploymentProfile
<1>4. Typed   BY DEF IInv
<1>5. Typed'   BY <1>1, <1>2, <1>3, <1>4 DEF Typed, Quiet
<1>6. Onward   BY <1>1, <1>4, Numbers DEF Onward, Quiet, Typed
<1> QED BY <1>1, <1>5, <1>6, ElsewhereKeeps

LEMMA TickKeeps == IInv /\ Tick => IInv'
<1> SUFFICES ASSUME IInv, Tick PROVE IInv'   OBVIOUS
<1>1. Quiet /\ UNCHANGED <<config, req, status, lastCleanup, sessions, audit, built>>
  BY DEF Tick, Quiet
<1>2. now' = now + 1 /\ now < MaxTime   BY DEF Tick
<1>3. Typed   BY DEF IInv
<1>4. Typed' /\ now' \in Nat /\ now <= now'   BY <1>1, <1>2, <1>3, Numbers DEF Typed, Quiet
<1>5. Onward   BY <1>1, <1>3, <1>4 DEF Onward, Quiet, Typed
<1> QED BY <1>1, <1>4, <1>5, ElsewhereKeeps

LEMMA SessionEndsKeeps ==
  ASSUME IInv, NEW user, SessionEnds(user)
  PROVE  IInv'
<1>1. Quiet /\ UNCHANGED <<config, req, status, now, lastCleanup, audit, built>> /\ sessions' \subseteq sessions
  BY DEF SessionEnds, Quiet
<1>2. Typed   BY DEF IInv
<1>3. Typed'   BY <1>1, <1>2 DEF Typed, Quiet
<1>4. Onward   BY <1>1, <1>2, Numbers DEF Onward, Quiet, Typed
<1> QED BY <1>1, <1>3, <1>4, ElsewhereKeeps

\* The variables a request's own step leaves alone.
Around == Quiet /\ UNCHANGED <<config, status, now, lastCleanup, sessions>>

LEMMA AroundKeeps ==
  ASSUME IInv, Around, built' \in BOOLEAN, audit \subseteq audit'
  PROVE  Typed' /\ Onward /\ IsFiniteSet(charged)
<1>1. Typed   BY DEF IInv
<1>2. Typed'   BY <1>1 DEF Typed, Around, Quiet
<1>3. Onward   BY <1>1, Numbers DEF Onward, Around, Quiet, Typed
<1> QED BY <1>1, <1>2, <1>3 DEF Typed

LEMMA ArriveKeeps ==
  ASSUME IInv, NEW r \in Requests, NEW call, Arrive(r, call)
  PROVE  IInv'
<1> DEFINE x == [req[r] EXCEPT !.pc = "arriving", !.call = call]
<1>1. req[r] = [f \in Fields |-> req[r][f]] /\ req = [q \in Requests |-> req[q]]   BY DEF IInv, Shape
<1>2. /\ x = [f \in Fields |-> x[f]] /\ x.pc = "arriving" /\ x.todo = req[r].todo /\ x.clock = req[r].clock
      /\ x.denied = req[r].denied /\ x.tries = req[r].tries /\ x.failed = req[r].failed
      /\ x.own = req[r].own /\ x.window = req[r].window /\ x.answer = req[r].answer
  BY <1>1 DEF Fields
<1>3. req' = [req EXCEPT ![r] = x]   BY <1>1 DEF Arrive
<1> HIDE DEF x
<1>4. Shape' /\ req'[r] = x /\ Elsewhere(r)   BY <1>2, <1>3, OneChanges DEF IInv
<1>5. Around /\ UNCHANGED <<built, audit>> /\ status = "running" /\ req[r].pc = "idle"
  BY DEF Arrive, Around, Quiet
<1>6. Typed' /\ Onward   BY <1>5, AroundKeeps DEF IInv, Typed
<1>7. Waits(r)   BY DEF IInv, Local
<1>8. Waits(r)'   BY <1>2, <1>4, <1>5, <1>7 DEF Waits, AtLimiter, Passed, Around, Quiet
<1>9. \A y \in charged : y.req # r   BY <1>5, <1>7 DEF Waits
<1>10. Covered(r)'   BY <1>2, <1>4, <1>5, <1>9 DEF Covered, ChargesOf, AtLimiter, Passed, Around, Quiet
<1>11. Refused(r)' /\ Entered(r)'   BY <1>2, <1>4, <1>5, <1>7 DEF Refused, Entered, Waits
<1>12. Local(r)'   BY <1>8, <1>10, <1>11 DEF Local
<1> QED BY <1>2, <1>4, <1>5, <1>6, <1>9, <1>12, QuietKeeps DEF Around

LEMMA IdentifyKeeps ==
  ASSUME IInv, NEW r \in Requests, Identify(r)
  PROVE  IInv'
<1> DEFINE user == Identified(req[r].call)
           plan == Checks(req[r].call.class, user, ClientIp(req[r].call))
           pc == IF Has("rate") THEN Backed ELSE "authorizing"
           todo == IF Has("rate") THEN plan ELSE <<>>
           x == [req[r] EXCEPT !.asked = user, !.tries = 0, !.pc = pc, !.todo = todo]
<1>1. req[r] = [f \in Fields |-> req[r][f]] /\ req = [q \in Requests |-> req[q]]   BY DEF IInv, Shape
<1>2. req' = [req EXCEPT ![r] = x]   BY <1>1 DEF Identify
<1> HIDE DEF user, plan, pc, todo
<1>3. /\ x = [f \in Fields |-> x[f]] /\ x.pc = pc /\ x.todo = todo /\ x.clock = req[r].clock
      /\ x.denied = req[r].denied /\ x.tries = 0 /\ x.failed = req[r].failed
      /\ x.own = req[r].own /\ x.window = req[r].window /\ x.answer = req[r].answer
      /\ x.call = req[r].call /\ x.asked = user
  BY <1>1 DEF Fields
<1> HIDE DEF x
<1>4. Shape' /\ req'[r] = x /\ Elsewhere(r)   BY <1>2, <1>3, OneChanges DEF IInv
<1>5. Around /\ UNCHANGED <<built, audit>> /\ req[r].pc = "arriving"
  BY DEF Identify, Around, Quiet
<1>6. Typed' /\ Onward   BY <1>5, AroundKeeps DEF IInv, Typed
<1>7. Waits(r) /\ status = "running"   BY <1>5 DEF IInv, Local, Waits
<1>8. Planned(r)' = plan /\ plan # <<>>
  <2>1. Planned(r)' = plan   BY <1>3, <1>4, <1>5, PlanMade DEF plan, Around
  <2>2. WellPlanned(plan, req[r].call.class, user, ClientIp(req[r].call))   BY ChecksShape DEF plan
  <2> QED BY <2>1, <2>2 DEF WellPlanned
<1>9. /\ pc \in {"building", "limiting", "authorizing"}
      /\ Has("rate") => pc # "authorizing" /\ todo = plan /\ (pc = "building" => ~Has("redis"))
      /\ ~Has("rate") => pc = "authorizing" /\ todo = <<>>
  BY DEF pc, todo, Backed
<1>10. \A y \in charged : y.req # r   BY <1>5, <1>7 DEF Waits
<1>11. Waits(r)'
  <2>1. 0 \in 0..RetryLimit   BY Limits
  <2> QED BY <1>3, <1>4, <1>5, <1>7, <1>8, <1>9, <2>1 DEF Waits, AtLimiter, Passed, Around, Quiet, Has
<1>12. Covered(r)'
  BY <1>3, <1>4, <1>5, <1>8, <1>9, <1>10, ZenonT(40) DEF Covered, ChargesOf, AtLimiter, Passed, Around, Quiet, Has, KeysOf
<1>13. Refused(r)' /\ Entered(r)'   BY <1>3, <1>4, <1>5, <1>7, <1>9 DEF Refused, Entered, Waits
<1>14. Local(r)'   BY <1>11, <1>12, <1>13 DEF Local
<1> QED BY <1>3, <1>4, <1>5, <1>6, <1>10, <1>14, QuietKeeps DEF Around

LEMMA BuildKeeps ==
  ASSUME IInv, NEW r \in Requests, Build(r)
  PROVE  IInv'
<1> DEFINE x == [req[r] EXCEPT !.pc = "limiting", !.own = built]
<1>1. req[r] = [f \in Fields |-> req[r][f]] /\ req = [q \in Requests |-> req[q]]   BY DEF IInv, Shape
<1>2. req' = [req EXCEPT ![r] = x]   BY <1>1 DEF Build
<1>3. /\ x = [f \in Fields |-> x[f]] /\ x.pc = "limiting" /\ x.todo = req[r].todo /\ x.clock = req[r].clock
      /\ x.denied = req[r].denied /\ x.tries = req[r].tries /\ x.failed = req[r].failed
      /\ x.own = built /\ x.window = req[r].window /\ x.answer = req[r].answer
      /\ x.call = req[r].call /\ x.asked = req[r].asked
  BY <1>1 DEF Fields
<1> HIDE DEF x
<1>4. Shape' /\ req'[r] = x /\ Elsewhere(r)   BY <1>2, <1>3, OneChanges DEF IInv
<1>5. Around /\ built' = TRUE /\ UNCHANGED audit /\ req[r].pc = "building"   BY DEF Build, Around, Quiet
<1>6. Typed' /\ Onward /\ IsFiniteSet(charged)   BY <1>5, AroundKeeps
<1>7. Local(r) /\ Waits(r) /\ Typed   BY DEF IInv, Local
<1>8. Planned(r)' = Planned(r)   BY <1>3, <1>4, <1>5, PlanFixed DEF Around
<1>9. Waits(r)'   BY <1>3, <1>4, <1>5, <1>7, <1>8 DEF Waits, Typed, AtLimiter, Passed, Around, Quiet, Has
<1>10. Covered(r)'
  BY <1>3, <1>4, <1>5, <1>7, <1>8, CoveredStays DEF Local, AtLimiter, Passed, Around, Quiet
<1>11. Refused(r)'   BY <1>3, <1>4, <1>6, <1>7, <1>8, RefusedStays DEF Local, Typed
<1>12. Local(r)'   BY <1>3, <1>4, <1>9, <1>10, <1>11 DEF Local, Entered
<1>13. ASSUME NEW y \in charged, y.req = r PROVE Fresh(y)'
  <2>1. Fresh(y)   BY DEF IInv
  <2> QED BY <1>3, <1>4, <1>5, <1>8, <1>13, <2>1 DEF Fresh, KeysOf, AtLimiter
<1> QED BY <1>3, <1>4, <1>5, <1>6, <1>7, <1>12, <1>13, QuietKeeps DEF Around, Waits

LEMMA ReadClockKeeps ==
  ASSUME IInv, NEW r \in Requests, ReadClock(r)
  PROVE  IInv'
<1> DEFINE x == [req[r] EXCEPT !.pc = "clocked", !.clock = now]
<1>1. req[r] = [f \in Fields |-> req[r][f]] /\ req = [q \in Requests |-> req[q]]   BY DEF IInv, Shape
<1>2. req' = [req EXCEPT ![r] = x]   BY <1>1 DEF ReadClock
<1>3. /\ x = [f \in Fields |-> x[f]] /\ x.pc = "clocked" /\ x.todo = req[r].todo /\ x.clock = now
      /\ x.denied = req[r].denied /\ x.tries = req[r].tries /\ x.failed = req[r].failed
      /\ x.own = req[r].own /\ x.window = req[r].window /\ x.answer = req[r].answer
      /\ x.call = req[r].call /\ x.asked = req[r].asked
  BY <1>1 DEF Fields
<1> HIDE DEF x
<1>4. Shape' /\ req'[r] = x /\ Elsewhere(r)   BY <1>2, <1>3, OneChanges DEF IInv
<1>5. /\ Around /\ UNCHANGED <<built, audit>> /\ req[r].pc = "limiting"
      /\ ~Has("redis") /\ ~req[r].own
  BY DEF ReadClock, Around, Quiet
<1>6. Local(r) /\ Waits(r) /\ Typed   BY DEF IInv, Local
<1>7. Typed' /\ Onward /\ IsFiniteSet(charged)   BY <1>5, <1>6, AroundKeeps DEF Typed
<1>8. Planned(r)' = Planned(r)   BY <1>3, <1>4, <1>5, PlanFixed DEF Around
<1>9. Waits(r)'
  <2>1. now \in 0..now   BY <1>6, Numbers
  <2> QED BY <1>3, <1>4, <1>5, <1>6, <1>8, <2>1 DEF Waits, AtLimiter, Passed, Around, Quiet, Has
<1>10. Covered(r)'
  BY <1>3, <1>4, <1>5, <1>6, <1>8, CoveredStays DEF Local, AtLimiter, Passed, Around, Quiet
<1>11. Refused(r)'   BY <1>3, <1>4, <1>6, <1>7, <1>8, RefusedStays DEF Local, Typed
<1>12. Local(r)'   BY <1>3, <1>4, <1>9, <1>10, <1>11 DEF Local, Entered
<1>13. ASSUME NEW y \in charged, y.req = r PROVE Fresh(y)'
  <2>1. Fresh(y)   BY DEF IInv
  <2> QED BY <1>3, <1>4, <1>5, <1>8, <1>13, <2>1 DEF Fresh, KeysOf, AtLimiter
<1> QED BY <1>3, <1>4, <1>5, <1>7, <1>12, <1>13, QuietKeeps DEF Around

\* A request that goes on uncounted, or is answered, has nothing left to ask.
Leaves(r, pc, failed, answer, todo) ==
  /\ pc \in {"authorizing", "inside", "answered"} /\ failed \in BOOLEAN
  /\ req' = [req EXCEPT ![r].pc = pc, ![r].failed = failed, ![r].todo = todo, ![r].answer = answer]
  /\ Around /\ UNCHANGED built /\ audit \subseteq audit' /\ req[r].pc # "idle"
  /\ \/ pc = "answered"
     \/ Passed(r) /\ todo = req[r].todo /\ (failed <=> req[r].failed)
     \/ failed /\ todo = <<>>
  /\ failed => pc = "answered" \/ ~Has("redis")
  /\ answer = "429" => req[r].answer = "429"
  /\ Entered(r)'

LEMMA LeavesKeeps ==
  ASSUME IInv, NEW r \in Requests, NEW pc, NEW failed, NEW answer, NEW todo, Leaves(r, pc, failed, answer, todo)
  PROVE  IInv'
<1> USE DEF Leaves
<1> DEFINE x == [req[r] EXCEPT !.pc = pc, !.failed = failed, !.todo = todo, !.answer = answer]
<1>1. req[r] = [f \in Fields |-> req[r][f]] /\ req = [q \in Requests |-> req[q]]   BY DEF IInv, Shape
<1>2. req' = [req EXCEPT ![r] = x]   BY <1>1
<1>3. /\ x = [f \in Fields |-> x[f]] /\ x.pc = pc /\ x.todo = todo /\ x.clock = req[r].clock
      /\ x.denied = req[r].denied /\ x.tries = req[r].tries /\ x.failed = failed
      /\ x.own = req[r].own /\ x.window = req[r].window /\ x.answer = answer
      /\ x.call = req[r].call /\ x.asked = req[r].asked
  BY <1>1 DEF Fields
<1> HIDE DEF x
<1>4. Shape' /\ req'[r] = x /\ Elsewhere(r)   BY <1>2, <1>3, OneChanges DEF IInv
<1>5. Local(r) /\ Waits(r) /\ Typed   BY DEF IInv, Local
<1>6. Typed' /\ Onward /\ IsFiniteSet(charged)   BY <1>5, AroundKeeps DEF Typed
<1>7. Planned(r)' = Planned(r)   BY <1>3, <1>4, PlanFixed DEF Around
<1>8. Waits(r)'   BY <1>3, <1>4, <1>5, <1>7 DEF Waits, AtLimiter, Passed, Around, Quiet, Has
<1>9. Covered(r)'
  <2>1. UNCHANGED <<charged, config>> /\ Covered(r)   BY <1>5 DEF Around, Quiet, Local
  <2>2. \/ req'[r].failed
        \/ ~(AtLimiter(r)' \/ Passed(r)')
        \/ /\ AtLimiter(r) \/ Passed(r)
           /\ req'[r].todo = req[r].todo /\ (req'[r].denied <=> req[r].denied)
           /\ req'[r].failed <=> req[r].failed
    BY <1>3, <1>4 DEF AtLimiter, Passed
  <2> QED BY <1>7, <2>1, <2>2, CoveredStays
<1>10. Refused(r)'   BY <1>3, <1>4, <1>5, <1>6, <1>7, RefusedStays DEF Local, Typed
<1>11. Local(r)'   BY <1>8, <1>9, <1>10 DEF Local
<1>12. ASSUME NEW y \in charged, y.req = r PROVE Fresh(y)'
  <2>1. Fresh(y)   BY DEF IInv
  <2> QED BY <1>3, <1>4, <1>7, <1>12, <2>1 DEF Fresh, KeysOf, AtLimiter
<1> QED BY <1>3, <1>4, <1>6, <1>11, <1>12, QuietKeeps DEF Around

LEMMA LimiterBreaksKeeps ==
  ASSUME IInv, NEW r \in Requests, LimiterBreaks(r)
  PROVE  IInv'
<1>1. req[r] = [f \in Fields |-> req[r][f]] /\ req = [q \in Requests |-> req[q]]   BY DEF IInv, Shape
<1>2. /\ req' = [req EXCEPT ![r].pc = "authorizing", ![r].failed = TRUE, ![r].todo = <<>>]
      /\ Around /\ UNCHANGED <<built, audit>> /\ req[r].pc = "limiting" /\ ~Has("redis")
  BY DEF LimiterBreaks, Around, Quiet
<1>3. req' = [req EXCEPT ![r].pc = "authorizing", ![r].failed = TRUE, ![r].todo = <<>>,
                         ![r].answer = req[r].answer]
  BY <1>1, <1>2 DEF Fields
<1>4. req'[r].pc = "authorizing"   BY <1>1, <1>2 DEF Fields
<1>5. Entered(r)'   BY <1>4 DEF Entered
<1> PICK answer : answer = req[r].answer   OBVIOUS
<1>6. Leaves(r, "authorizing", TRUE, answer, <<>>)   BY <1>2, <1>3, <1>5 DEF Leaves
<1> QED BY <1>6, LeavesKeeps

LEMMA RetriesKeeps ==
  ASSUME IInv, NEW r \in Requests, Around, UNCHANGED <<built, audit>>, req[r].pc \notin {"idle", "inside"},
         req[r].tries < RetryLimit, req' = [req EXCEPT ![r].tries = @ + 1]
  PROVE  IInv'
<1> DEFINE x == [req[r] EXCEPT !.tries = @ + 1]
<1>1. req[r] = [f \in Fields |-> req[r][f]] /\ req = [q \in Requests |-> req[q]]   BY DEF IInv, Shape
<1>2. req' = [req EXCEPT ![r] = x]   BY <1>1
<1>3. /\ x = [f \in Fields |-> x[f]] /\ x.pc = req[r].pc /\ x.todo = req[r].todo /\ x.clock = req[r].clock
      /\ x.denied = req[r].denied /\ x.tries = req[r].tries + 1 /\ x.failed = req[r].failed
      /\ x.own = req[r].own /\ x.window = req[r].window /\ x.answer = req[r].answer
      /\ x.call = req[r].call /\ x.asked = req[r].asked
  BY <1>1 DEF Fields
<1> HIDE DEF x
<1>4. Shape' /\ req'[r] = x /\ Elsewhere(r)   BY <1>2, <1>3, OneChanges DEF IInv
<1>5. Local(r) /\ Waits(r) /\ Typed   BY DEF IInv, Local
<1>6. Typed' /\ Onward /\ IsFiniteSet(charged)   BY <1>5, AroundKeeps DEF Typed
<1>7. Planned(r)' = Planned(r)   BY <1>3, <1>4, PlanFixed DEF Around
<1>8. req[r].tries \in Nat /\ req[r].tries + 1 \in 0..RetryLimit   BY <1>5, Limits DEF Waits
<1>9. Waits(r)'   BY <1>3, <1>4, <1>5, <1>7, <1>8 DEF Waits, AtLimiter, Passed, Around, Quiet, Has
<1>10. Covered(r)'   BY <1>3, <1>4, <1>5, <1>7, CoveredStays DEF Local, AtLimiter, Passed, Around, Quiet
<1>11. Refused(r)'   BY <1>3, <1>4, <1>5, <1>6, <1>7, RefusedStays DEF Local, Typed
<1>12. Local(r)'   BY <1>3, <1>4, <1>9, <1>10, <1>11 DEF Local, Entered
<1>13. ASSUME NEW y \in charged, y.req = r PROVE Fresh(y)'
  <2>1. Fresh(y) /\ y.n \in Nat   BY DEF IInv, Fresh
  <2> QED BY <1>3, <1>4, <1>7, <1>8, <1>13, <2>1 DEF Fresh, KeysOf, AtLimiter
<1> QED BY <1>3, <1>4, <1>6, <1>12, <1>13, QuietKeeps DEF Around

LEMMA CommandLostKeeps ==
  ASSUME IInv, NEW r \in Requests, CommandLost(r)
  PROVE  IInv'
<1>1. req[r] = [f \in Fields |-> req[r][f]] /\ req = [q \in Requests |-> req[q]]   BY DEF IInv, Shape
<1>2. /\ Around /\ UNCHANGED <<built, audit>> /\ req' = AfterError(r)
      /\ req[r].pc \in {"limiting", "arriving", "authorizing"}
  BY DEF CommandLost, Asking, Around, Quiet
<1>3. CASE req[r].tries < RetryLimit   BY <1>2, <1>3, RetriesKeeps DEF AfterError
<1>4. CASE ~(req[r].tries < RetryLimit)
  <2>1. req' = [req EXCEPT ![r].pc = "answered", ![r].failed = TRUE, ![r].answer = "503"]
    BY <1>2, <1>4 DEF AfterError, FailsClosed
  <2> PICK todo : todo = req[r].todo   OBVIOUS
  <2>2. req' = [req EXCEPT ![r].pc = "answered", ![r].failed = TRUE, ![r].todo = todo, ![r].answer = "503"]
    BY <1>1, <2>1 DEF Fields
  <2>3. req'[r].pc = "answered"   BY <1>1, <2>1 DEF Fields
  <2>4. Entered(r)'   BY <2>3 DEF Entered
  <2>5. Leaves(r, "answered", TRUE, "503", todo)   BY <1>2, <2>2, <2>4 DEF Leaves
  <2> QED BY <2>5, LeavesKeeps
<1> QED BY <1>3, <1>4

LEMMA AuthorizeKeeps ==
  ASSUME IInv, NEW r \in Requests, Authorize(r)
  PROVE  IInv'
<1> PICK user, class, todo, failed :
      user = Identified(req[r].call) /\ class = req[r].call.class /\ todo = req[r].todo /\ failed = req[r].failed
  OBVIOUS
<1> DEFINE event(type) == [type |-> type, user |-> user, class |-> class, req |-> r]
<1>1. req[r] = [f \in Fields |-> req[r][f]] /\ req = [q \in Requests |-> req[q]]   BY DEF IInv, Shape
<1>2. Around /\ UNCHANGED built /\ req[r].pc = "authorizing"   BY DEF Authorize, Around, Quiet
<1>3. PICK answer \in {"inside", "401", "403", "500"} :
        /\ req' = [req EXCEPT ![r].pc = IF answer = "inside" THEN "inside" ELSE "answered",
                              ![r].answer = answer]
        /\ audit \subseteq audit'
        /\ answer = "inside" /\ Has("oidc") =>
             /\ user # "none" /\ Permitted(user, class)
             /\ class # "REVIEW" => event("ALLOWED") \in audit'
  BY DEF Authorize
<1> DEFINE pc == IF answer = "inside" THEN "inside" ELSE "answered"
<1>4. req' = [req EXCEPT ![r].pc = pc, ![r].failed = failed, ![r].todo = todo, ![r].answer = answer]
  BY <1>1, <1>3 DEF Fields
<1>5. req'[r].pc = pc /\ req'[r].call = req[r].call   BY <1>1, <1>3 DEF Fields
<1>6. Local(r) /\ Waits(r) /\ Typed   BY DEF IInv, Local
<1>7. Entered(r)'
  <2> SUFFICES ASSUME answer = "inside", Has("oidc") PROVE Entered(r)'
    BY <1>2, <1>5 DEF Entered, Around, Has
  <2>1. user \in DOMAIN Roles /\ user = req[r].call.user   BY <1>3, <1>6 DEF Identified, Typed
  <2>2. class # "REVIEW" => event("ALLOWED") \in audit'   BY <1>3
  <2>3. event("ALLOWED").req = r /\ event("ALLOWED").type = "ALLOWED" /\ event("ALLOWED").user = user
    OBVIOUS
  <2>4. Permitted(user, class)'   BY <1>2, <1>3, ConfigFixed DEF Around
  <2> HIDE DEF event
  <2> QED BY <1>5, <2>1, <2>2, <2>3, <2>4 DEF Entered
<1>8. pc \in {"authorizing", "inside", "answered"} /\ failed \in BOOLEAN /\ answer # "429"
  BY <1>3, <1>6 DEF Waits
<1>9. failed => pc = "answered" \/ ~Has("redis")   BY <1>2, <1>6 DEF Waits
<1> HIDE DEF pc
<1>10. Leaves(r, pc, failed, answer, todo)   BY <1>2, <1>3, <1>4, <1>7, <1>8, <1>9 DEF Leaves, Passed
<1> QED BY <1>10, LeavesKeeps
-----------------------------------------------------------------------------
(***************************************************************************)
(* Checks: what they leave of the request.                                 *)
(***************************************************************************)
Locals == (\A q \in Requests : Local(q)) /\ \A y \in charged : Fresh(y)

LEMMA Gathered ==
  ASSUME IInv, Onward, NEW r \in Requests, Elsewhere(r), \A y \in charged' : y \in charged \/ y.req = r,
         Local(r)', \A y \in charged' : y.req = r => Fresh(y)'
  PROVE  Locals'
<1>1. \A q \in Requests : Local(q)'   BY OthersKeep DEF Elsewhere
<1>2. \A y \in charged' : Fresh(y)'
  <2> SUFFICES ASSUME NEW y \in charged', y.req # r PROVE Fresh(y)'   OBVIOUS
  <2>1. y \in charged /\ y.req \in Requests   BY DEF IInv, Fresh
  <2> QED BY <2>1, OthersKeep DEF Elsewhere
<1> QED BY <1>1, <1>2 DEF Locals

\* The check a request is at.
LEMMA AtCheck ==
  ASSUME IInv, NEW r \in Requests, AtLimiter(r)
  PROVE  /\ LeftOf(req[r].todo, Planned(r)) /\ req[r].tries \in Nat
         /\ Head(req[r].todo).key \in KeysOf(Planned(r)) \cap KeysOf(req[r].todo)
<1> PICK class, user, ip, todo :
      class = req[r].call.class /\ user = req[r].asked /\ ip = ClientIp(req[r].call) /\ todo = req[r].todo
  OBVIOUS
<1>1. Planned(r) = Checks(class, user, ip)   BY DEF Planned
<1>2. Waits(r) /\ req[r].tries \in Nat   BY Limits DEF IInv, Local, Waits
<1>3. todo \in {Checks(class, user, ip), Tail(Checks(class, user, ip))} /\ todo # <<>>
  BY <1>1, <1>2 DEF Waits
<1>4. LeftOf(todo, Planned(r))   BY <1>1, <1>3, TodoShape
<1>5. Head(todo).key \in KeysOf(Planned(r)) \cap KeysOf(todo)   BY <1>4 DEF LeftOf, KeysOf
<1> QED BY <1>2, <1>4, <1>5

\* An increment is new.
Increment(r, window, allowed) ==
  [req |-> r, key |-> Head(req[r].todo).key, window |-> window, n |-> req[r].tries, allowed |-> allowed]

LEMMA IncrementIsNew ==
  ASSUME IInv, NEW r \in Requests, AtLimiter(r), NEW window, NEW allowed
  PROVE  Increment(r, window, allowed) \notin charged
<1> PICK x : x = Increment(r, window, allowed)   OBVIOUS
<1>1. x.req = r /\ x.key = Head(req[r].todo).key /\ x.n = req[r].tries   BY DEF Increment
<1>2. x.key \in KeysOf(req[r].todo) /\ req[r].tries \in Nat   BY <1>1, AtCheck
<1>3. x \in charged => Fresh(x)   BY DEF IInv
<1>4. x \notin charged   BY <1>1, <1>2, <1>3 DEF Fresh
<1> QED BY <1>4

\* A request that is counted, or denied, and asks on or not.
Counting(r, window, allowed) ==
  /\ AtLimiter(r) /\ window \in Nat /\ allowed \in BOOLEAN
  /\ \/ charged' = charged \cup {Increment(r, window, allowed)}
     \/ ~allowed /\ UNCHANGED charged
  /\ UNCHANGED <<config, status, now, sessions, audit>>

LEMMA CountingIsOnward ==
  ASSUME IInv, NEW r \in Requests, NEW window, NEW allowed, Counting(r, window, allowed)
  PROVE  /\ Onward /\ \A y \in charged' : y \in charged \/ y = Increment(r, window, allowed)
         /\ \A y \in charged' : y \in charged \/ y.req = r
<1>1. IsFiniteSet(charged) /\ now \in Nat /\ now <= now   BY Numbers DEF IInv, Typed
<1>2. IsFiniteSet(charged')   BY <1>1, FS_AddElement DEF Counting
<1>3. Increment(r, window, allowed).req = r   BY DEF Increment
<1>4. \A y \in charged' : y \in charged \/ y = Increment(r, window, allowed)   BY DEF Counting
<1>5. Onward   BY <1>1, <1>2 DEF Onward, Counting
<1> QED BY <1>3, <1>4, <1>5

LEMMA CheckedKeeps ==
  ASSUME IInv, NEW r \in Requests, NEW window, NEW allowed, Counting(r, window, allowed),
         Checked(r, allowed, window), req[r].pc # "building", NEW check, check = Head(req[r].todo),
         ~allowed => Cardinality(ChargedIn(check.key, window)') >= check.capacity
  PROVE  Shape' /\ Locals' /\ \A q \in Requests : req'[q].own = req[q].own
<1> DEFINE rest == Tail(req[r].todo)
           denied == req[r].denied \/ ~allowed
           pc == CASE rest # <<>> -> "limiting"
                   [] rest = <<>> /\ denied -> "answered"
                   [] rest = <<>> /\ ~denied -> "authorizing"
           answer == IF rest = <<>> /\ denied THEN "429" ELSE req[r].answer
           last == IF allowed THEN req[r].window ELSE window
           x == [req[r] EXCEPT !.todo = rest, !.denied = denied, !.tries = 0, !.window = last, !.pc = pc,
                               !.answer = answer]
           new == Increment(r, window, allowed)
<1>1. req[r] = [f \in Fields |-> req[r][f]] /\ req = [q \in Requests |-> req[q]]   BY DEF IInv, Shape
<1>2. req' = [req EXCEPT ![r] = x]
  <2>1. req' = [req EXCEPT ![r].todo = rest, ![r].denied = denied, ![r].tries = 0, ![r].window = last,
                           ![r].pc = pc, ![r].answer = answer]
    BY <1>1 DEF Checked
  <2> HIDE DEF rest, denied, pc, answer, last
  <2> QED BY <1>1, <2>1, ZenonT(40)
<1>3. /\ pc \in {"limiting", "answered", "authorizing"} /\ (pc = "limiting" <=> rest # <<>>)
      /\ pc = "authorizing" => ~denied
      /\ answer = "429" => denied \/ req[r].answer = "429"
  <2> HIDE DEF rest, denied
  <2>1. CASE rest # <<>>             BY <2>1
  <2>2. CASE rest = <<>> /\ denied    BY <2>2
  <2>3. CASE rest = <<>> /\ ~denied   BY <2>3
  <2> QED BY <2>1, <2>2, <2>3
<1> HIDE DEF rest, pc, answer, last
<1> DEFINE key == check.key
<1>4. /\ x = [f \in Fields |-> x[f]] /\ x.pc = pc /\ x.todo = rest /\ x.clock = req[r].clock
      /\ x.denied = denied /\ x.tries = 0 /\ x.failed = req[r].failed
      /\ x.own = req[r].own /\ x.window = last /\ x.answer = answer
      /\ x.call = req[r].call /\ x.asked = req[r].asked
  BY <1>1 DEF Fields
<1> HIDE DEF x
<1>5. Shape' /\ req'[r] = x /\ Elsewhere(r)   BY <1>2, <1>4, OneChanges DEF IInv
<1>6. Local(r) /\ Waits(r) /\ Typed /\ AtLimiter(r) /\ allowed \in BOOLEAN /\ UNCHANGED <<config, status, now>>
  BY DEF IInv, Local, Counting
<1>7. Onward /\ \A y \in charged' : y \in charged \/ y = new   BY CountingIsOnward
<1>8. Planned(r)' = Planned(r)   BY <1>4, <1>5, PlanFixed DEF Counting
<1>9. /\ \E i \in DOMAIN Planned(r) : check = Planned(r)[i]
      /\ rest \in {Tail(Planned(r)), <<>>} /\ KeysOf(req[r].todo) = {key} \cup KeysOf(rest)
      /\ key \notin KeysOf(rest) /\ key \in KeysOf(Planned(r))
  BY <1>6, AtCheck DEF LeftOf, rest
<1>10. new.req = r /\ new.key = key /\ new.n = req[r].tries /\ new.window = window /\ new.allowed = allowed
  BY DEF Increment
<1>11. allowed => new \in charged'   BY DEF Counting
<1>12. 0 \in 0..RetryLimit /\ 0 \in Nat /\ req[r].tries \in Nat /\ window \in Nat
  BY <1>6, Limits DEF Waits, Counting
<1> HIDE DEF new
<1>13. Waits(r)'
  BY <1>3, <1>4, <1>5, <1>6, <1>8, <1>9, <1>12 DEF Waits, AtLimiter, Passed, Has
<1>14. Covered(r)'
  <2> DEFINE counted == {y.key : y \in ChargesOf(r)}
  <2>1. ChargesOf(r)' \subseteq ChargesOf(r) \cup {new} /\ ChargesOf(r) \subseteq ChargesOf(r)'
    BY <1>7 DEF ChargesOf, Onward
  <2>2. allowed => new \in ChargesOf(r)'   BY <1>10, <1>11 DEF ChargesOf
  <2>3. counted \subseteq counted' /\ (allowed => key \in counted')   BY <1>10, <2>1, <2>2
  <2>4. KeysOf(Planned(r))' = KeysOf(Planned(r)) /\ KeysOf(req[r].todo)' = KeysOf(rest)
    BY <1>4, <1>5, <1>8 DEF KeysOf
  <2>5. \A y \in ChargesOf(r)' : y.key \in KeysOf(Planned(r))'
    BY <1>6, <1>9, <1>10, <2>1, <2>4 DEF Local, Covered
  <2>6. Has("rate") /\ ~req[r].failed /\ ~req[r].denied =>
          KeysOf(Planned(r)) \subseteq counted \cup KeysOf(req[r].todo)
    BY <1>6 DEF Local, Covered
  <2> HIDE DEF counted
  <2>7. Has("rate")' /\ ~req'[r].failed /\ ~req'[r].denied =>
          KeysOf(Planned(r))' \subseteq counted' \cup KeysOf(req[r].todo)'
    BY <1>4, <1>5, <1>6, <1>9, <2>3, <2>4, <2>6 DEF Has
  <2> QED BY <2>5, <2>7 DEF Covered, counted
<1>15. Refused(r)'
  <2>1. CASE allowed
    <3>1. req'[r].denied = req[r].denied /\ req'[r].window = req[r].window
      BY <1>4, <1>5, <1>6, <2>1 DEF last, Waits
    <3> QED BY <1>6, <1>7, <1>8, <3>1, RefusedStays DEF Local, Typed
  <2>2. CASE ~allowed
    <3>1. PICK i \in DOMAIN Planned(r) : check = Planned(r)[i]   BY <1>9
    <3>2. req'[r].window = window   BY <1>4, <1>5, <2>2 DEF last
    <3>3. Cardinality(ChargedIn(key, window)') >= check.capacity   BY <2>2
    <3>4. i \in DOMAIN Planned(r)' /\ Planned(r)'[i].key = key /\ Planned(r)'[i].capacity = check.capacity
      BY <1>8, <3>1
    <3> QED BY <3>2, <3>3, <3>4 DEF Refused
  <2> QED BY <2>1, <2>2
<1>16. Local(r)'
  <2>1. req'[r].pc # "inside"   BY <1>3, <1>4, <1>5
  <2> QED BY <1>13, <1>14, <1>15, <2>1 DEF Local, Entered
<1>17. ASSUME NEW y \in charged', y.req = r PROVE Fresh(y)'
  <2>1. y.key \notin KeysOf(rest) /\ y.window \in Nat /\ y.n \in Nat /\ y.key \in KeysOf(Planned(r))
    <3>1. CASE y \in charged   BY <1>6, <1>9, <1>17, <3>1 DEF IInv, Fresh
    <3>2. CASE y = new          BY <1>9, <1>10, <1>12, <3>2
    <3> QED BY <1>7, <3>1, <3>2
  <2>2. KeysOf(Planned(r))' = KeysOf(Planned(r)) /\ KeysOf(req[r].todo)' = KeysOf(rest)
    BY <1>4, <1>5, <1>8 DEF KeysOf
  <2> QED BY <1>17, <2>1, <2>2 DEF Fresh
<1>18. Locals'   BY <1>5, <1>7, <1>10, <1>16, <1>17, Gathered
<1>19. \A q \in Requests : req'[q].own = req[q].own   BY <1>4, <1>5 DEF Elsewhere
<1> QED BY <1>5, <1>18, <1>19
-----------------------------------------------------------------------------
(***************************************************************************)
(* Checks: what the limiters count.                                        *)
(***************************************************************************)
LEMMA Cardinalities ==
  ASSUME IsFiniteSet(charged), NEW k, NEW w
  PROVE  /\ Cardinality(CountedIn(k, w)) \in Nat /\ Cardinality(ChargedIn(k, w)) \in Nat
         /\ Cardinality(CountedIn(k, w)) <= Cardinality(ChargedIn(k, w))
         /\ IsFiniteSet(CountedIn(k, w)) /\ IsFiniteSet(ChargedIn(k, w))
<1>1. CountedIn(k, w) \subseteq ChargedIn(k, w) /\ ChargedIn(k, w) \subseteq charged
  BY DEF CountedIn, ChargedIn
<1>2. IsFiniteSet(ChargedIn(k, w))   BY <1>1, FS_Subset
<1>3. IsFiniteSet(CountedIn(k, w)) /\ Cardinality(CountedIn(k, w)) <= Cardinality(ChargedIn(k, w))
  BY <1>1, <1>2, FS_Subset
<1> QED BY <1>2, <1>3, FS_CardinalityType

\* One record more.
LEMMA OneMore ==
  ASSUME IsFiniteSet(charged), NEW x, x \notin charged, charged' = charged \cup {x}, NEW k, NEW w
  PROVE  /\ Cardinality(CountedIn(k, w)') =
              IF x.key = k /\ x.window = w /\ x.allowed
              THEN Cardinality(CountedIn(k, w)) + 1 ELSE Cardinality(CountedIn(k, w))
         /\ Cardinality(ChargedIn(k, w)') =
              IF x.key = k /\ x.window = w
              THEN Cardinality(ChargedIn(k, w)) + 1 ELSE Cardinality(ChargedIn(k, w))
<1>1. CountedIn(k, w)' = IF x.key = k /\ x.window = w /\ x.allowed
                         THEN CountedIn(k, w) \cup {x} ELSE CountedIn(k, w)
  BY DEF CountedIn
<1>2. ChargedIn(k, w)' = IF x.key = k /\ x.window = w THEN ChargedIn(k, w) \cup {x} ELSE ChargedIn(k, w)
  BY DEF ChargedIn
<1>3. x \notin CountedIn(k, w) /\ x \notin ChargedIn(k, w)   BY DEF CountedIn, ChargedIn
<1>4. /\ Cardinality(CountedIn(k, w) \cup {x}) = Cardinality(CountedIn(k, w)) + 1
      /\ Cardinality(ChargedIn(k, w) \cup {x}) = Cardinality(ChargedIn(k, w)) + 1
  BY <1>3, Cardinalities, FS_AddElement
<1> QED BY <1>1, <1>2, <1>4

LEMMA WindowsAreNat ==
  ASSUME NEW t \in Nat
  PROVE  WindowOf(t) \in Nat
BY Limits DEF WindowOf

\* A bucket is swept away when its window is over.
LEMMA WindowIsOver ==
  ASSUME NEW t \in Nat, NEW w \in Nat, ~(t < (w + 1) * Window)
  PROVE  w < WindowOf(t)
<1> DEFINE q == t \div Window
<1>1. Window \in Nat \ {0}   BY Limits
<1>2. q \in Nat /\ t < (q + 1) * Window   BY <1>1
<1> HIDE DEF q
<1>3. ASSUME q <= w PROVE FALSE
  <2>1. (q + 1) * Window <= (w + 1) * Window   BY <1>1, <1>2, <1>3
  <2>2. (q + 1) * Window \in Nat /\ (w + 1) * Window \in Nat   BY <1>1, <1>2
  <2> QED BY <1>2, <2>1, <2>2
<1> QED BY <1>2, <1>3 DEF WindowOf, q

\* A bucket that is left alone is not above the history.
LEMMA BucketsBelow ==
  ASSUME IInv, UNCHANGED buckets, NEW x, x \notin charged, charged' = charged \cup {x},
         NEW k \in DOMAIN buckets
  PROVE  buckets[k].count <= Cardinality(CountedIn(k, buckets[k].window)')
<1> PICK v : v = buckets[k].window   OBVIOUS
<1>1. buckets[k].count \in Nat /\ buckets[k].count <= Cardinality(CountedIn(k, v))
  BY DEF IInv, Counts, StoreCounts, Buckets, Bucket
<1>2. IsFiniteSet(charged)   BY DEF IInv, Typed
<1>3. Cardinality(CountedIn(k, v)) \in Nat   BY <1>2, Cardinalities
<1>4. Cardinality(CountedIn(k, v)') = IF x.key = k /\ x.window = v /\ x.allowed
                                      THEN Cardinality(CountedIn(k, v)) + 1 ELSE Cardinality(CountedIn(k, v))
  BY <1>2, OneMore
<1>5. buckets[k].count <= Cardinality(CountedIn(k, v)')   BY <1>1, <1>3, <1>4
<1>6. CountedIn(k, v)' = CountedIn(k, buckets[k].window)'   BY DEF CountedIn
<1> QED BY <1>5, <1>6

LEMMA CheckInOwnKeeps ==
  ASSUME IInv, NEW r \in Requests, CheckInOwn(r)
  PROVE  IInv'
<1> PICK w, check : w = WindowOf(now) /\ check = Head(req[r].todo)   OBVIOUS
<1>1. /\ AtLimiter(r) /\ req[r].pc = "limiting" /\ req[r].own
      /\ charged' = charged \cup {Increment(r, w, TRUE)} /\ Checked(r, TRUE, w)
      /\ UNCHANGED <<config, status, now, built, buckets, lastCleanup, counters, sessions, audit,
                     latest, late, evicted>>
  BY DEF CheckInOwn, AtLimiter, Charge, Increment
<1>2. Typed /\ Waits(r) /\ now \in Nat   BY Numbers DEF IInv, Local
<1>3. w \in Nat   BY <1>2, WindowsAreNat
<1>4. Counting(r, w, TRUE)   BY <1>1, <1>3 DEF Counting
<1>5. Shape' /\ Locals' /\ \A q \in Requests : req'[q].own = req[q].own   BY <1>1, <1>4, CheckedKeeps
<1>6. Onward   BY <1>4, CountingIsOnward
<1>7. Typed'   BY <1>1, <1>2, <1>6 DEF Typed, Onward
<1>8. ~Has("redis") /\ ~Tidy'   BY <1>1, <1>2, <1>5 DEF Waits, Tidy
<1>9. Buckets'   BY <1>1 DEF IInv, Counts, Buckets, Bucket
<1>10. RedisCounts'   BY <1>1, <1>8 DEF IInv, Counts, RedisCounts, Has
<1>11. StoreCounts'
  <2> SUFFICES ASSUME NEW k \in DOMAIN buckets
               PROVE  buckets[k].count <= Cardinality(CountedIn(k, buckets[k].window)')
    BY <1>1, <1>8 DEF StoreCounts, Has, CountedIn
  <2> PICK x : x = Increment(r, w, TRUE)   OBVIOUS
  <2>1. x \notin charged /\ charged' = charged \cup {x}   BY <1>1, IncrementIsNew
  <2> QED BY <1>1, <2>1, BucketsBelow
<1> QED BY <1>5, <1>7, <1>9, <1>10, <1>11 DEF IInv, Counts, Locals

\* What Redis holds of a key and window.
StoredCount(p) == IF p \in DOMAIN counters THEN counters[p] ELSE 0

LEMMA RedisHolds ==
  ASSUME IInv, Has("redis"), NEW k, NEW w
  PROVE  /\ StoredCount(<<k, w>>) \in Nat
         /\ Cardinality(CountedIn(k, w)) <= StoredCount(<<k, w>>)
         /\ StoredCount(<<k, w>>) <= Cardinality(ChargedIn(k, w))
         /\ Cardinality(CountedIn(k, w)) <= CapacityOf(k)
<1>1. IsFiniteSet(charged) /\ config \in Configs /\ RedisCounts   BY DEF IInv, Typed, Counts
<1>2. CapacityOf(k) \in Nat \ {0}   BY <1>1, CapacityPositive
<1>3. CASE <<k, w>> \in DOMAIN counters
  <2>1. PICK x \in charged : <<k, w>> = <<x.key, x.window>>   BY <1>1, <1>3 DEF RedisCounts
  <2>2. x.key = k /\ x.window = w   BY <2>1
  <2> QED BY <1>1, <1>3, <2>2 DEF RedisCounts, Within, StoredCount
<1>4. CASE <<k, w>> \notin DOMAIN counters
  <2>1. \A x \in charged : ~(x.key = k /\ x.window = w)   BY <1>1, <1>4 DEF RedisCounts
  <2>2. CountedIn(k, w) = {} /\ ChargedIn(k, w) = {}   BY <2>1 DEF CountedIn, ChargedIn
  <2> QED BY <1>2, <1>4, <2>2, FS_EmptySet DEF StoredCount
<1> QED BY <1>3, <1>4

\* The script has run.
LEMMA ScriptKeeps ==
  ASSUME IInv, Has("redis"), UNCHANGED <<config, buckets, latest, late, evicted>>,
         NEW x, x \notin charged, charged' = charged \cup {x}, x.allowed \in BOOLEAN,
         counters' = Incremented(x.key, x.window),
         x.allowed => StoredCount(<<x.key, x.window>>) < CapacityOf(x.key)
  PROVE  Counts'
<1> PICK key, window, p : key = x.key /\ window = x.window /\ p = <<key, window>>   OBVIOUS
<1>1. IsFiniteSet(charged) /\ config \in Configs /\ RedisCounts   BY DEF IInv, Typed, Counts
<1>2. counters' = [k \in DOMAIN counters \cup {p} |-> IF k = p THEN StoredCount(p) + 1 ELSE counters[k]]
  BY DEF Incremented, Count, StoredCount
<1>3. DOMAIN counters' = DOMAIN counters \cup {p} /\ counters'[p] = StoredCount(p) + 1
      /\ \A k \in DOMAIN counters : k # p => counters'[k] = counters[k]
  BY <1>2
<1>4. StoredCount(p) \in Nat   BY RedisHolds
<1>5. \A k \in DOMAIN counters' : counters'[k] \in Nat \ {0}   BY <1>1, <1>3, <1>4 DEF RedisCounts
<1>6. DOMAIN counters' = {<<y.key, y.window>> : y \in charged'}   BY <1>1, <1>3 DEF RedisCounts
<1>7. ASSUME NEW y \in charged'
      PROVE  /\ Cardinality(CountedIn(y.key, y.window)') <= CapacityOf(y.key)
             /\ Cardinality(CountedIn(y.key, y.window)') <= counters'[<<y.key, y.window>>]
             /\ counters'[<<y.key, y.window>>] <= Cardinality(ChargedIn(y.key, y.window)')
  <2> PICK k, w : k = y.key /\ w = y.window   OBVIOUS
  <2>1. /\ Cardinality(CountedIn(k, w)') = IF x.key = k /\ x.window = w /\ x.allowed
                 THEN Cardinality(CountedIn(k, w)) + 1 ELSE Cardinality(CountedIn(k, w))
        /\ Cardinality(ChargedIn(k, w)') = IF x.key = k /\ x.window = w
                 THEN Cardinality(ChargedIn(k, w)) + 1 ELSE Cardinality(ChargedIn(k, w))
    BY <1>1, OneMore
  <2>2. /\ StoredCount(<<k, w>>) \in Nat
        /\ Cardinality(CountedIn(k, w)) <= StoredCount(<<k, w>>)
        /\ StoredCount(<<k, w>>) <= Cardinality(ChargedIn(k, w))
        /\ Cardinality(CountedIn(k, w)) <= CapacityOf(k)
    BY RedisHolds
  <2>3. /\ Cardinality(CountedIn(k, w)) \in Nat /\ Cardinality(ChargedIn(k, w)) \in Nat
        /\ CapacityOf(k) \in Nat
    BY <1>1, Cardinalities, CapacityPositive
  <2>4. CASE k = key /\ w = window
    <3>1. counters'[<<k, w>>] = StoredCount(<<k, w>>) + 1   BY <1>3, <2>4
    <3> QED BY <2>1, <2>2, <2>3, <2>4, <3>1
  <2>5. CASE ~(k = key /\ w = window)
    <3>1. <<k, w>> # p   BY <2>5
    <3>2. <<k, w>> \in DOMAIN counters   BY <1>3, <1>6, <3>1
    <3>3. counters'[<<k, w>>] = StoredCount(<<k, w>>)   BY <1>3, <3>1, <3>2 DEF StoredCount
    <3> QED BY <2>1, <2>2, <2>3, <2>5, <3>3
  <2> QED BY <2>4, <2>5
<1>8. RedisCounts'
  <2>1. \A y \in charged' : Within(y)'
    <3> SUFFICES ASSUME NEW y \in charged' PROVE Within(y)'   OBVIOUS
    <3>1. CapacityOf(y.key)' = CapacityOf(y.key)   BY ConfigFixed
    <3> QED BY <1>7, <3>1 DEF Within
  <2> QED BY <1>5, <1>6, <1>7, <2>1 DEF RedisCounts
<1>9. Buckets'   BY DEF IInv, Counts, Buckets, Bucket
<1>10. StoreCounts'
  <2> SUFFICES ASSUME NEW k \in DOMAIN buckets
               PROVE  buckets[k].count <= Cardinality(CountedIn(k, buckets[k].window)')
    BY DEF StoreCounts, Has, CountedIn
  <2> QED BY BucketsBelow
<1> QED BY <1>8, <1>9, <1>10 DEF Counts

LEMMA CheckInRedisKeeps ==
  ASSUME IInv, NEW r \in Requests, CheckInRedis(r)
  PROVE  IInv'
<1> PICK w, check : w = WindowOf(now) /\ check = Head(req[r].todo)   OBVIOUS
<1> DEFINE count == StoredCount(<<check.key, w>>)
           allowed == Allows(count, check.capacity)
<1>1. /\ AtLimiter(r) /\ req[r].pc = "limiting" /\ Has("redis")
      /\ UNCHANGED <<config, status, now, built, buckets, lastCleanup, sessions, audit, latest, late, evicted>>
  BY DEF CheckInRedis, AtLimiter
<1>2. Typed /\ now \in Nat /\ config \in Configs /\ IsFiniteSet(charged)   BY Numbers DEF IInv, Typed
<1>3. w \in Nat   BY <1>2, WindowsAreNat
<1>4. count \in Nat /\ count <= Cardinality(ChargedIn(check.key, w))   BY <1>1, RedisHolds
<1>5. Count(check.key, w) - 1 = count   BY <1>4 DEF Count, StoredCount
<1>6. /\ counters' = Incremented(check.key, w)
      /\ charged' = charged \cup {Increment(r, w, allowed)} /\ Checked(r, allowed, w)
  BY <1>5 DEF CheckInRedis, Charge, Increment
<1>7. check.capacity = CapacityOf(check.key) /\ CapacityOf(check.key) \in Nat
  BY <1>1, <1>2, AtCheck, CapacityPositive DEF LeftOf
<1>8. (allowed <=> count < check.capacity) /\ allowed \in BOOLEAN   BY DEF Allows
<1> HIDE DEF allowed, count
<1> PICK yes, x : yes = allowed /\ x = Increment(r, w, yes)   OBVIOUS
<1>9. x \notin charged /\ charged' = charged \cup {x}   BY <1>1, <1>6, IncrementIsNew
<1>10. x.key = check.key /\ x.window = w /\ x.allowed = yes   BY DEF Increment
<1>11. Counting(r, w, yes)   BY <1>1, <1>3, <1>6, <1>8 DEF Counting
<1>12. ~yes => Cardinality(ChargedIn(check.key, w)') >= check.capacity
  <2> SUFFICES ASSUME ~yes PROVE Cardinality(ChargedIn(check.key, w)') >= check.capacity   OBVIOUS
  <2>1. Cardinality(ChargedIn(check.key, w)') = Cardinality(ChargedIn(check.key, w)) + 1
    BY <1>2, <1>9, <1>10, OneMore
  <2>2. Cardinality(ChargedIn(check.key, w)) \in Nat   BY <1>2, Cardinalities
  <2> QED BY <1>4, <1>7, <1>8, <2>1, <2>2
<1>13. Checked(r, yes, w)   BY <1>6
<1>14. Shape' /\ Locals' /\ \A q \in Requests : req'[q].own = req[q].own
  BY <1>1, <1>11, <1>12, <1>13, CheckedKeeps
<1>15. Onward   BY <1>11, CountingIsOnward
<1>16. Typed'   BY <1>1, <1>2, <1>15 DEF Typed, Onward
<1>17. x.allowed => StoredCount(<<x.key, x.window>>) < CapacityOf(x.key)
  BY <1>7, <1>8, <1>10 DEF count
<1>18. Counts'   BY <1>1, <1>6, <1>8, <1>9, <1>10, <1>17, ScriptKeeps
<1> QED BY <1>14, <1>16, <1>18 DEF IInv, Locals

LEMMA ReplyLostKeeps ==
  ASSUME IInv, NEW r \in Requests, ReplyLost(r)
  PROVE  IInv'
<1> PICK w, check, x : w = WindowOf(now) /\ check = Head(req[r].todo) /\ x = Increment(r, w, FALSE)   OBVIOUS
<1>1. /\ AtLimiter(r) /\ req[r].pc = "limiting" /\ Has("redis") /\ req' = AfterError(r)
      /\ counters' = Incremented(check.key, w) /\ charged' = charged \cup {x}
      /\ UNCHANGED <<config, status, now, built, buckets, lastCleanup, sessions, audit, latest, late, evicted>>
  BY DEF ReplyLost, AtLimiter, Charge, Increment
<1>2. Typed /\ now \in Nat /\ Local(r) /\ Waits(r)   BY Numbers DEF IInv, Local
<1>3. w \in Nat   BY <1>2, WindowsAreNat
<1>4. /\ x.key = check.key /\ x.window = w /\ x.allowed = FALSE /\ x.req = r /\ x.n = req[r].tries
      /\ x \notin charged
  BY <1>1, IncrementIsNew DEF Increment
<1>5. Counting(r, w, FALSE)   BY <1>1, <1>3 DEF Counting
<1>6. Onward /\ (\A y \in charged' : y \in charged \/ y = x) /\ IsFiniteSet(charged)
  BY <1>2, <1>5, CountingIsOnward DEF Typed
<1>7. Typed'   BY <1>1, <1>2, <1>6 DEF Typed, Onward
<1>8. Counts'   BY <1>1, <1>4, ScriptKeeps
<1>9. PICK pc, failed, answer, tries :
        /\ req' = [req EXCEPT ![r] = [req[r] EXCEPT !.pc = pc, !.failed = failed, !.answer = answer, !.tries = tries]]
        /\ \/ /\ pc = "limiting" /\ failed = req[r].failed /\ answer = req[r].answer
              /\ tries = req[r].tries + 1 /\ req[r].tries < RetryLimit
           \/ pc = "answered" /\ failed = TRUE /\ answer = "503" /\ tries = req[r].tries
  <2>1. req[r] = [f \in Fields |-> req[r][f]] /\ req = [q \in Requests |-> req[q]]   BY DEF IInv, Shape
  <2>2. CASE req[r].tries < RetryLimit
    <3>1. req' = [req EXCEPT ![r] = [req[r] EXCEPT !.tries = req[r].tries + 1]]   BY <1>1, <2>1, <2>2 DEF AfterError
    <3>2. [req[r] EXCEPT !.tries = req[r].tries + 1] =
            [req[r] EXCEPT !.pc = "limiting", !.failed = req[r].failed, !.answer = req[r].answer,
                           !.tries = req[r].tries + 1]
      BY <1>1, <2>1 DEF Fields
    <3> QED BY <2>2, <3>1, <3>2
  <2>3. CASE ~(req[r].tries < RetryLimit)
    <3>1. req' = [req EXCEPT ![r] = [req[r] EXCEPT !.pc = "answered", !.failed = TRUE, !.answer = "503"]]
      BY <1>1, <2>1, <2>3 DEF AfterError, FailsClosed
    <3>2. [req[r] EXCEPT !.pc = "answered", !.failed = TRUE, !.answer = "503"] =
            [req[r] EXCEPT !.pc = "answered", !.failed = TRUE, !.answer = "503", !.tries = req[r].tries]
      BY <2>1 DEF Fields
    <3> QED BY <3>1, <3>2
  <2> QED BY <2>2, <2>3
<1> DEFINE z == [req[r] EXCEPT !.pc = pc, !.failed = failed, !.answer = answer, !.tries = tries]
<1>10. /\ z = [f \in Fields |-> z[f]] /\ z.pc = pc /\ z.todo = req[r].todo /\ z.clock = req[r].clock
       /\ z.denied = req[r].denied /\ z.tries = tries /\ z.failed = failed
       /\ z.own = req[r].own /\ z.window = req[r].window /\ z.answer = answer
       /\ z.call = req[r].call /\ z.asked = req[r].asked
  <2>1. req[r] = [f \in Fields |-> req[r][f]]   BY DEF IInv, Shape
  <2> QED BY <2>1 DEF Fields
<1>11. req' = [req EXCEPT ![r] = z]   BY <1>9
<1> HIDE DEF z
<1>12. Shape' /\ req'[r] = z /\ Elsewhere(r)   BY <1>10, <1>11, OneChanges DEF IInv
<1>13. Planned(r)' = Planned(r)   BY <1>1, <1>10, <1>12, PlanFixed
<1>14. req[r].tries \in Nat /\ tries \in 0..RetryLimit /\ (pc = "limiting" => tries \in Nat /\ req[r].tries < tries)
  BY <1>2, <1>9, Limits DEF Waits
<1>15. Waits(r)'
  BY <1>1, <1>2, <1>9, <1>10, <1>12, <1>13, <1>14 DEF Waits, AtLimiter, Passed, Has
<1>16. Covered(r)'
  <2>1. ChargesOf(r)' = ChargesOf(r)   BY <1>1, <1>4 DEF ChargesOf
  <2>2. KeysOf(Planned(r))' = KeysOf(Planned(r)) /\ KeysOf(req[r].todo)' = KeysOf(req[r].todo)
    BY <1>10, <1>12, <1>13 DEF KeysOf
  <2>3. {y.key : y \in ChargesOf(r)}' = {y.key : y \in ChargesOf(r)}   BY <2>1
  <2>4. Covered(r) /\ Waits(r)   BY <1>2 DEF Local
  <2>5. (\A y \in ChargesOf(r)' : y.key \in KeysOf(Planned(r))')   BY <2>1, <2>2, <2>4 DEF Covered
  <2>6. Has("rate") /\ ~req[r].failed /\ ~req[r].denied =>
          KeysOf(Planned(r)) \subseteq {y.key : y \in ChargesOf(r)} \cup KeysOf(req[r].todo)
    BY <1>1, <2>4 DEF Covered
  <2>7. (AtLimiter(r)' \/ Passed(r)') /\ Has("rate")' /\ ~req'[r].failed /\ ~req'[r].denied =>
          KeysOf(Planned(r))' \subseteq {y.key : y \in ChargesOf(r)}' \cup KeysOf(req[r].todo)'
    BY <1>1, <1>9, <1>10, <1>12, <2>2, <2>3, <2>6 DEF Has, AtLimiter, Passed
  <2> QED BY <2>5, <2>7 DEF Covered
<1>17. Refused(r)'
  BY <1>2, <1>6, <1>10, <1>12, <1>13, RefusedStays DEF Local, Typed
<1>18. Local(r)'
  <2>1. req'[r].pc # "inside"   BY <1>9, <1>10, <1>12
  <2> QED BY <1>15, <1>16, <1>17, <2>1 DEF Local, Entered
<1>19. ASSUME NEW y \in charged', y.req = r PROVE Fresh(y)'
  <2>1. KeysOf(Planned(r))' = KeysOf(Planned(r)) /\ KeysOf(req[r].todo)' = KeysOf(req[r].todo)
        /\ Head(req[r].todo)' = check
    BY <1>10, <1>12, <1>13 DEF KeysOf
  <2>2. CASE y = x
    <3>1. y.key \in KeysOf(Planned(r))   BY <1>1, <1>4, <2>2, AtCheck
    <3>2. AtLimiter(r)' => pc = "limiting"   BY <1>9, <1>10, <1>12 DEF AtLimiter
    <3> QED BY <1>3, <1>4, <1>10, <1>12, <1>14, <1>19, <2>1, <2>2, <3>1, <3>2 DEF Fresh
  <2>3. CASE y \in charged
    <3>1. Fresh(y)   BY <2>3 DEF IInv
    <3>2. AtLimiter(r)' => pc = "limiting"   BY <1>9, <1>10, <1>12 DEF AtLimiter
    <3> QED BY <1>1, <1>10, <1>12, <1>14, <1>19, <2>1, <3>1, <3>2 DEF Fresh
  <2> QED BY <1>6, <2>2, <2>3
<1>20. Locals'
  <2>1. \A y \in charged' : y \in charged \/ y.req = r   BY <1>4, <1>6
  <2> QED BY <1>6, <1>12, <1>18, <1>19, <2>1, Gathered
<1> QED BY <1>7, <1>8, <1>12, <1>20 DEF IInv, Locals
-----------------------------------------------------------------------------
(***************************************************************************)
(* The check in memory.                                                    *)
(***************************************************************************)
LEMMA SweptBuckets ==
  ASSUME IInv, NEW t \in Nat
  PROVE  /\ DOMAIN Swept(t) \subseteq DOMAIN buckets
         /\ \A k \in DOMAIN Swept(t) : Swept(t)[k] = buckets[k]
         /\ \A k \in DOMAIN buckets : k \notin DOMAIN Swept(t) => buckets[k].window < WindowOf(t)
<1> DEFINE live == {k \in DOMAIN buckets : t < (buckets[k].window + 1) * Window}
<1>1. CASE t - lastCleanup < CleanupInterval   BY <1>1 DEF Swept
<1>2. CASE ~(t - lastCleanup < CleanupInterval)
  <2>1. Swept(t) = [k \in live |-> buckets[k]]   BY <1>2 DEF Swept, Restrict
  <2>2. \A k \in DOMAIN buckets : buckets[k].window \in Nat   BY DEF IInv, Counts, Buckets, Bucket
  <2>3. \A k \in DOMAIN buckets : k \notin live => buckets[k].window < WindowOf(t)
    BY <2>2, WindowIsOver
  <2> QED BY <2>1, <2>3
<1> QED BY <1>1, <1>2

\* The least recently touched bucket is there.
LEMMA OldestIsThere ==
  ASSUME NEW bs, NEW n \in Nat, DOMAIN bs # {}, \A k \in DOMAIN bs : bs[k].age \in 0..n
  PROVE  Oldest(bs) \in DOMAIN bs
<1> DEFINE young == {n - bs[k].age : k \in DOMAIN bs}
<1>1. young \subseteq Nat /\ young # {}   OBVIOUS
<1>2. PICK least \in young : \A y \in young : least <= y
  <2> HIDE DEF young
  <2> QED BY <1>1, LeastNat
<1>3. PICK k \in DOMAIN bs : least = n - bs[k].age   OBVIOUS
<1>4. \A j \in DOMAIN bs : bs[j].age <= bs[k].age
  <2> SUFFICES ASSUME NEW j \in DOMAIN bs PROVE bs[j].age <= bs[k].age   OBVIOUS
  <2>1. n - bs[k].age <= n - bs[j].age   BY <1>2, <1>3
  <2>2. bs[j].age \in Int /\ bs[k].age \in Int   OBVIOUS
  <2> QED BY <2>1, <2>2
<1> HIDE DEF young
<1>5. \E m \in DOMAIN bs : \A j \in DOMAIN bs : bs[j].age <= bs[m].age   BY <1>4
<1> QED BY <1>5 DEF Oldest

\* There is room for the key, and nothing is lost unless there was none.
MakesRoom(bs, key, room) ==
  /\ DOMAIN room \subseteq DOMAIN bs /\ \A k \in DOMAIN room : room[k] = bs[k]
  /\ ~Full(bs, key) => room = bs
  /\ IsFiniteSet(DOMAIN room \cup {key}) /\ Cardinality(DOMAIN room \cup {key}) <= MaxKeys

LEMMA RoomIsMade ==
  ASSUME IInv, NEW bs, NEW key, DOMAIN bs \subseteq DOMAIN buckets,
         \A k \in DOMAIN bs : bs[k] = buckets[k]
  PROVE  MakesRoom(bs, key, WithRoom(bs, key))
<1> USE DEF MakesRoom
<1> DEFINE room == WithRoom(bs, key)
<1>1. IsFiniteSet(DOMAIN buckets) /\ Cardinality(DOMAIN buckets) <= MaxKeys /\ MaxKeys \in Nat \ {0}
  BY Limits DEF IInv, Counts, Buckets
<1>2. /\ IsFiniteSet(DOMAIN bs) /\ Cardinality(DOMAIN bs) \in Nat /\ Cardinality(DOMAIN bs) <= MaxKeys
  <2>1. Cardinality(DOMAIN buckets) \in Nat   BY <1>1, FS_CardinalityType
  <2> QED BY <1>1, <2>1, FS_Subset, FS_CardinalityType
<1>3. CASE ~Full(bs, key)
  <2>1. room = bs   BY <1>3 DEF WithRoom
  <2>2. CASE key \in DOMAIN bs
    <3>1. DOMAIN bs \cup {key} = DOMAIN bs   BY <2>2
    <3> QED BY <1>2, <2>1, <3>1
  <2>3. CASE key \notin DOMAIN bs
    <3>1. Cardinality(DOMAIN bs) < MaxKeys   BY <1>1, <1>2, <1>3, <2>3 DEF Full
    <3>2. IsFiniteSet(DOMAIN bs \cup {key}) /\ Cardinality(DOMAIN bs \cup {key}) = Cardinality(DOMAIN bs) + 1
      BY <1>2, <2>3, FS_AddElement
    <3> QED BY <1>1, <1>2, <2>1, <3>1, <3>2
  <2> QED BY <2>2, <2>3
<1>4. CASE Full(bs, key)
  <2> DEFINE rest == DOMAIN bs \ {Oldest(bs)}
  <2>1. room = [k \in rest |-> bs[k]]   BY <1>4 DEF WithRoom, Restrict
  <2>2. Oldest(bs) \in DOMAIN bs
    <3>1. DOMAIN bs # {}   BY <1>1, <1>4, FS_EmptySet DEF Full
    <3>2. PICK n \in Nat : \A k \in DOMAIN buckets : buckets[k].age <= n   BY DEF IInv, Counts, Buckets
    <3>3. \A k \in DOMAIN buckets : buckets[k].age \in Nat   BY DEF IInv, Counts, Buckets, Bucket
    <3>4. \A k \in DOMAIN bs : bs[k].age \in 0..n   BY <3>2, <3>3
    <3> QED BY <3>1, <3>4, OldestIsThere
  <2>3. IsFiniteSet(rest) /\ Cardinality(rest) = Cardinality(DOMAIN bs) - 1
    BY <1>2, <2>2, FS_RemoveElement
  <2>4. key \notin rest   BY <1>4 DEF Full
  <2>5. IsFiniteSet(rest \cup {key}) /\ Cardinality(rest \cup {key}) = Cardinality(DOMAIN bs)
    <3> HIDE DEF rest
    <3>1. IsFiniteSet(rest \cup {key}) /\ Cardinality(rest \cup {key}) = Cardinality(rest) + 1
      BY <2>3, <2>4, FS_AddElement
    <3> QED BY <1>2, <2>3, <3>1
  <2>6. DOMAIN room = rest /\ \A k \in rest : room[k] = bs[k]   BY <2>1
  <2> HIDE DEF rest, room
  <2>7. rest \subseteq DOMAIN bs   BY DEF rest
  <2> QED BY <1>2, <1>4, <2>5, <2>6, <2>7 DEF room
<1> QED BY <1>3, <1>4

\* What a check in memory works with and leaves.
MemoryCheck(r, t, w, key, capacity, bs, room, count, allowed) ==
  /\ t = req[r].clock /\ w = WindowOf(t) /\ bs = Swept(t) /\ room = WithRoom(bs, key)
  /\ count = Counted(bs, key, w) /\ (allowed <=> count < capacity) /\ allowed \in BOOLEAN
  /\ capacity = CapacityOf(key) /\ key = Head(req[r].todo).key

\* What the bucket of a key says of its window.
LEMMA CountIsBelow ==
  ASSUME IInv, NEW r \in Requests, NEW t \in Nat, NEW w, NEW key, NEW capacity, NEW bs, NEW room,
         NEW count, NEW allowed, MemoryCheck(r, t, w, key, capacity, bs, room, count, allowed)
  PROVE  /\ count \in Nat /\ count <= Cardinality(CountedIn(key, w))
         /\ ~Has("redis") /\ Tidy /\ ~(w < latest) => Cardinality(CountedIn(key, w)) <= count
<1>1. /\ DOMAIN bs \subseteq DOMAIN buckets /\ \A k \in DOMAIN bs : bs[k] = buckets[k]
      /\ \A k \in DOMAIN buckets : k \notin DOMAIN bs => buckets[k].window < w
  BY SweptBuckets DEF MemoryCheck
<1>2. IsFiniteSet(charged) /\ w \in Nat /\ latest \in Nat /\ StoreCounts
  BY WindowsAreNat DEF MemoryCheck, IInv, Typed, Counts
<1>3. \A k \in DOMAIN buckets : buckets[k] \in Bucket   BY DEF IInv, Counts, Buckets
<1>4. CASE key \in DOMAIN bs /\ bs[key].window = w
  <2>1. count = buckets[key].count /\ buckets[key].window = w /\ key \in DOMAIN buckets
    BY <1>1, <1>4 DEF MemoryCheck, Counted
  <2>2. count \in Nat   BY <1>3, <2>1 DEF Bucket
  <2> QED BY <1>2, <2>1, <2>2 DEF StoreCounts
<1>5. CASE ~(key \in DOMAIN bs /\ bs[key].window = w)
  <2>1. count = 0   BY <1>5 DEF MemoryCheck, Counted
  <2>2. ASSUME ~Has("redis"), Tidy, ~(w < latest), NEW y \in charged, y.key = key, y.window = w
        PROVE  FALSE
    <3>1. w <= latest   BY <2>2, <1>2 DEF StoreCounts
    <3>2. w = latest    BY <1>2, <2>2, <3>1
    <3>3. key \in DOMAIN buckets /\ buckets[key].window = w   BY <1>2, <2>2, <3>2 DEF StoreCounts
    <3>4. key \in DOMAIN bs   BY <1>1, <1>2, <3>3
    <3> QED BY <1>1, <1>5, <3>3, <3>4
  <2>3. ~Has("redis") /\ Tidy /\ ~(w < latest) => CountedIn(key, w) = {}   BY <2>2 DEF CountedIn
  <2>4. Cardinality(CountedIn(key, w)) \in Nat   BY <1>2, Cardinalities
  <2> QED BY <2>1, <2>3, <2>4, FS_EmptySet
<1> QED BY <1>4, <1>5

LEMMA CheckInMemoryKeeps ==
  ASSUME IInv, NEW r \in Requests, CheckInMemory(r)
  PROVE  IInv'
<1> PICK t, check, key, capacity :
      /\ t = req[r].clock /\ check = Head(req[r].todo) /\ key = check.key /\ capacity = check.capacity
  OBVIOUS
<1> PICK w, bs : w = WindowOf(t) /\ bs = Swept(t)   OBVIOUS
<1> PICK room, count : room = WithRoom(bs, key) /\ count = Counted(bs, key, w)   OBVIOUS
<1> DEFINE verdict == Allows(count, capacity)
<1>0. (verdict <=> count < capacity) /\ verdict \in BOOLEAN   BY DEF Allows
<1> HIDE DEF verdict
<1> PICK allowed : allowed = verdict   BY SMTT(40)
<1>1. /\ req[r].pc = "clocked"
      /\ lastCleanup' \in {lastCleanup, t}
      /\ buckets' = Touched(room, key, w, IF allowed THEN count + 1 ELSE count)
      /\ evicted' = (evicted \/ Full(bs, key))
      /\ latest' = (IF w > latest THEN w ELSE latest)
      /\ late' = (late \/ w < latest)
      /\ IF allowed THEN Charge(r, w, TRUE) ELSE UNCHANGED charged
      /\ Checked(r, allowed, w)
      /\ UNCHANGED <<config, status, now, built, counters, sessions, audit, faults>>
  BY DEF CheckInMemory, verdict
<1>2. Typed /\ Waits(r) /\ AtLimiter(r) /\ ~Has("redis") /\ now \in Nat
  BY <1>1, Numbers DEF IInv, Local, AtLimiter, Waits
<1>3. t \in Nat /\ t \in 0..now /\ w \in Nat /\ latest \in Nat /\ IsFiniteSet(charged) /\ config \in Configs
  <2>1. t \in 0..now /\ t \in Nat   BY <1>2 DEF Waits
  <2>2. w \in Nat   BY <2>1, WindowsAreNat
  <2> QED BY <1>2, <2>1, <2>2 DEF Typed
<1>4. capacity = CapacityOf(key) /\ capacity \in Nat \ {0}
  BY <1>2, <1>3, AtCheck, CapacityPositive DEF LeftOf
<1>5. (allowed <=> count < capacity) /\ allowed \in BOOLEAN   BY <1>0
<1>6. MemoryCheck(r, t, w, key, capacity, bs, room, count, allowed)   BY <1>4, <1>5 DEF MemoryCheck
<1>7. /\ count \in Nat /\ count <= Cardinality(CountedIn(key, w))
      /\ Tidy /\ ~(w < latest) => Cardinality(CountedIn(key, w)) <= count
  BY <1>2, <1>3, <1>6, CountIsBelow
<1>8. /\ DOMAIN bs \subseteq DOMAIN buckets /\ \A k \in DOMAIN bs : bs[k] = buckets[k]
      /\ \A k \in DOMAIN buckets : k \notin DOMAIN bs => buckets[k].window < w
  BY <1>3, SweptBuckets
<1>9. /\ DOMAIN room \subseteq DOMAIN bs /\ \A k \in DOMAIN room : room[k] = bs[k]
      /\ ~Full(bs, key) => room = bs
      /\ IsFiniteSet(DOMAIN room \cup {key}) /\ Cardinality(DOMAIN room \cup {key}) <= MaxKeys
  <2>1. MakesRoom(bs, key, WithRoom(bs, key))   BY <1>8, RoomIsMade
  <2> QED BY <2>1 DEF MakesRoom
<1> PICK x : x = Increment(r, w, TRUE)   OBVIOUS
<1>10. x \notin charged /\ x.key = key /\ x.window = w /\ x.allowed = TRUE
  BY <1>2, IncrementIsNew DEF Increment
<1>11. charged' = IF allowed THEN charged \cup {x} ELSE charged   BY <1>1 DEF Charge, Increment
<1>12. ASSUME NEW k, NEW v
       PROVE  /\ Cardinality(CountedIn(k, v)) \in Nat
              /\ Cardinality(CountedIn(k, v)') = IF allowed /\ k = key /\ v = w
                     THEN Cardinality(CountedIn(k, v)) + 1 ELSE Cardinality(CountedIn(k, v))
  <2>1. Cardinality(CountedIn(k, v)) \in Nat   BY <1>3, Cardinalities
  <2>2. CASE allowed
    <3>1. charged' = charged \cup {x}   BY <1>11, <2>2
    <3>2. Cardinality(CountedIn(k, v)') = IF x.key = k /\ x.window = v /\ x.allowed
                 THEN Cardinality(CountedIn(k, v)) + 1 ELSE Cardinality(CountedIn(k, v))
      <4>1. IsFiniteSet(charged) /\ x \notin charged   BY <1>3, <1>10
      <4> QED BY ONLY <3>1, <4>1, OneMore
    <3> QED BY <1>10, <2>1, <2>2, <3>2
  <2>3. CASE ~allowed
    <3>1. CountedIn(k, v)' = CountedIn(k, v)   BY <1>11, <2>3 DEF CountedIn
    <3> QED BY <2>1, <2>3, <3>1
  <2> QED BY <2>2, <2>3
<1>13. /\ \A k, v : Cardinality(CountedIn(k, v)) \in Nat
       /\ \A k, v : Cardinality(CountedIn(k, v)') = IF allowed /\ k = key /\ v = w
                     THEN Cardinality(CountedIn(k, v)) + 1 ELSE Cardinality(CountedIn(k, v))
  BY <1>12
<1>14. Counting(r, w, allowed)
  BY <1>1, <1>2, <1>3, <1>5, <1>11 DEF Counting
<1>15. ~allowed => Cardinality(ChargedIn(check.key, w)') >= check.capacity
  <2> SUFFICES ASSUME ~allowed PROVE Cardinality(ChargedIn(key, w)') >= capacity   OBVIOUS
  <2>1. ChargedIn(key, w)' = ChargedIn(key, w)   BY <1>11 DEF ChargedIn
  <2>2. /\ Cardinality(ChargedIn(key, w)) \in Nat /\ Cardinality(CountedIn(key, w)) \in Nat
        /\ Cardinality(CountedIn(key, w)) <= Cardinality(ChargedIn(key, w))
    BY <1>3, Cardinalities
  <2>3. Cardinality(ChargedIn(key, w)) >= capacity   BY <1>4, <1>5, <1>7, <2>2
  <2> QED BY <2>1, <2>3
<1>16. Shape' /\ Locals' /\ \A q \in Requests : req'[q].own = req[q].own
  BY <1>1, <1>14, <1>15, CheckedKeeps
<1>17. Onward   BY <1>14, CountingIsOnward
<1>18. latest' \in Nat /\ latest <= latest' /\ w <= latest' /\ (~(w < latest) => latest' = w)
  BY <1>1, <1>3
<1>19. Typed'   BY <1>1, <1>2, <1>3, <1>17, <1>18 DEF Typed, Onward
<1> DEFINE after == IF allowed THEN count + 1 ELSE count
<1>20. after \in Nat \ {0} /\ after <= Cardinality(CountedIn(key, w)')
  <2>1. Cardinality(CountedIn(key, w)) \in Nat   BY <1>13
  <2>2. Cardinality(CountedIn(key, w)') = IF allowed THEN Cardinality(CountedIn(key, w)) + 1
                                          ELSE Cardinality(CountedIn(key, w))
    BY <1>13, SMTT(40)
  <2> QED BY <1>4, <1>5, <1>7, <2>1, <2>2
<1> DEFINE touched == [window |-> w, count |-> after, age |-> 0]
<1>21. /\ DOMAIN buckets' = DOMAIN room \cup {key}
       /\ buckets'[key] = touched
       /\ \A k \in DOMAIN room : k # key => buckets'[k] = [room[k] EXCEPT !.age = @ + 1]
  BY <1>1 DEF Touched
<1>22. touched \in Bucket /\ touched.window = w /\ touched.count = after /\ touched.age = 0
  BY <1>3, <1>20 DEF Bucket
<1> HIDE DEF after, touched
<1>23. ASSUME NEW k \in DOMAIN buckets', k # key
       PROVE  /\ k \in DOMAIN bs /\ k \in DOMAIN buckets /\ buckets'[k] \in Bucket
              /\ buckets'[k].window = buckets[k].window /\ buckets'[k].count = buckets[k].count
              /\ buckets'[k].age = buckets[k].age + 1
  <2>1. k \in DOMAIN room /\ k \in DOMAIN buckets /\ room[k] = buckets[k]   BY <1>8, <1>9, <1>21, <1>23
  <2>2. buckets[k] \in Bucket   BY <2>1, SMTT(40) DEF IInv, Counts, Buckets
  <2>3. buckets'[k] = [buckets[k] EXCEPT !.age = @ + 1]   BY <1>21, <1>23, <2>1
  <2> QED BY <1>9, <2>1, <2>2, <2>3, SMTT(40) DEF Bucket
<1>24. Buckets'
  <2>1. IsFiniteSet(DOMAIN buckets') /\ Cardinality(DOMAIN buckets') <= MaxKeys   BY <1>9, <1>21
  <2>2. PICK n \in Nat : \A k \in DOMAIN buckets : buckets[k].age <= n   BY DEF IInv, Counts, Buckets
  <2>3. \A k \in DOMAIN buckets : buckets[k] \in Bucket /\ buckets[k].window <= latest
    BY DEF IInv, Counts, Buckets
  <2>4. ASSUME NEW k \in DOMAIN buckets'
        PROVE  buckets'[k] \in Bucket /\ buckets'[k].window <= latest' /\ buckets'[k].age <= n + 1
    <3>1. CASE k = key   BY <1>18, <1>21, <1>22, <3>1
    <3>2. CASE k # key
      <4>1. /\ buckets[k].window \in Nat /\ buckets[k].age \in Nat
            /\ buckets[k].window <= latest /\ buckets[k].age <= n
        BY <1>23, <2>2, <2>3, <3>2 DEF Bucket
      <4> QED BY <1>3, <1>18, <1>23, <3>2, <4>1
    <3> QED BY <3>1, <3>2, SMTT(40)
  <2> QED BY <2>1, <2>4, SMTT(40) DEF Buckets, Bucket
<1>25. RedisCounts'   BY <1>1, <1>2 DEF IInv, Counts, RedisCounts, Has
<1>26. ASSUME NEW k \in DOMAIN buckets'
       PROVE  buckets'[k].count <= Cardinality(CountedIn(k, buckets[k].window)')
  <2> PICK v : v = buckets'[k].window   OBVIOUS
  <2>1. buckets'[k].count <= Cardinality(CountedIn(k, v)')
    <3>1. CASE k = key   BY <1>20, <1>21, <1>22, <3>1
    <3>2. CASE k # key
      <4>1. buckets[k].count <= Cardinality(CountedIn(k, v))
        BY <1>23, <3>2 DEF IInv, Counts, StoreCounts
      <4> QED BY <1>13, <1>23, <3>2, <4>1
    <3> QED BY <3>1, <3>2, SMTT(40)
  <2> QED BY <2>1 DEF CountedIn
<1>27. ASSUME Tidy'
       PROVE  /\ \A y \in charged' : Within(y)' /\ y.window <= latest'
              /\ \A y \in charged' :
                   y.window = latest' => y.key \in DOMAIN buckets' /\ buckets'[y.key].window = latest'
              /\ \A k \in DOMAIN buckets' :
                   Cardinality(CountedIn(k, buckets[k].window)') <= buckets'[k].count
  <2>1. Tidy /\ ~(w < latest) /\ ~Full(bs, key)
    <3>1. ~evicted' /\ ~late' /\ \A q \in Requests : ~req'[q].own   BY <1>27 DEF Tidy
    <3>2. ~evicted /\ ~Full(bs, key) /\ ~late /\ ~(w < latest)   BY <1>1, <3>1
    <3> QED BY <1>16, <3>1, <3>2 DEF Tidy
  <2>2. room = bs /\ latest' = w /\ latest <= w   BY <1>3, <1>9, <1>18, <2>1
  <2>3. Cardinality(CountedIn(key, w)') <= after
    <3>1. Cardinality(CountedIn(key, w)) <= count /\ Cardinality(CountedIn(key, w)) \in Nat
      BY <1>7, <1>13, <2>1
    <3>2. Cardinality(CountedIn(key, w)') = IF allowed THEN Cardinality(CountedIn(key, w)) + 1
                                            ELSE Cardinality(CountedIn(key, w))
      BY <1>13
    <3> QED BY <1>7, <3>1, <3>2 DEF after
  <2>4. /\ \A y \in charged : Within(y) /\ y.window <= latest
        /\ \A y \in charged : y.window = latest => y.key \in DOMAIN buckets /\ buckets[y.key].window = latest
        /\ \A k \in DOMAIN buckets : Cardinality(CountedIn(k, buckets[k].window)) <= buckets[k].count
    BY <1>2, <2>1 DEF IInv, Counts, StoreCounts
  <2>5. \A y \in charged' : y \in charged \/ (allowed /\ y = x)   BY <1>11
  <2>6. ASSUME NEW y \in charged' PROVE Within(y)' /\ y.window <= latest'
    <3> PICK k, v : k = y.key /\ v = y.window   OBVIOUS
    <3>1. CapacityOf(k)' = CapacityOf(k) /\ CapacityOf(k) \in Nat   BY <1>1, <1>3, ConfigFixed, CapacityPositive
    <3>2. Cardinality(CountedIn(k, v)') <= CapacityOf(k)
      <4>1. CASE k = key /\ v = w /\ allowed
        <5>1. after = count + 1 /\ count < capacity   BY <1>5, <4>1 DEF after
        <5>2. Cardinality(CountedIn(key, w)') \in Nat   BY <1>13, <4>1
        <5> QED BY <1>4, <1>7, <2>3, <4>1, <5>1, <5>2
      <4>2. CASE ~(k = key /\ v = w /\ allowed)
        <5>1. y \in charged   BY <1>10, <2>5, <4>2
        <5>2. Cardinality(CountedIn(k, v)) <= CapacityOf(k)   BY <2>4, <5>1 DEF Within
        <5> QED BY <1>13, <4>2, <5>2
      <4> QED BY <4>1, <4>2
    <3>3. y.window <= latest'
      <4>1. CASE y \in charged
        <5>1. y.window \in Nat /\ y.window <= latest   BY <2>4, <4>1 DEF IInv, Fresh
        <5> QED BY <1>3, <2>2, <5>1
      <4>2. CASE y = x   BY <1>10, <1>18, <4>2
      <4> QED BY <2>5, <4>1, <4>2
    <3> QED BY <3>1, <3>2, <3>3 DEF Within
  <2>7. ASSUME NEW y \in charged', y.window = latest'
        PROVE  y.key \in DOMAIN buckets' /\ buckets'[y.key].window = latest'
    <3>1. CASE y.key = key   BY <1>21, <1>22, <2>2, <3>1
    <3>2. CASE y.key # key
      <4>1. y \in charged   BY <1>10, <2>5, <3>2
      <4>2. y.window = latest /\ latest = w   BY <1>3, <2>2, <2>4, <2>7, <4>1
      <4>3. y.key \in DOMAIN buckets /\ buckets[y.key].window = w   BY <2>4, <4>1, <4>2
      <4>4. y.key \in DOMAIN room   BY <1>3, <1>8, <2>2, <4>3
      <4> QED BY <1>21, <1>23, <2>2, <3>2, <4>3, <4>4
    <3> QED BY <3>1, <3>2
  <2>8. ASSUME NEW k \in DOMAIN buckets'
        PROVE  Cardinality(CountedIn(k, buckets[k].window)') <= buckets'[k].count
    <3> PICK v : v = buckets'[k].window   OBVIOUS
    <3>1. Cardinality(CountedIn(k, v)') <= buckets'[k].count
      <4>1. CASE k = key   BY <1>21, <1>22, <2>3, <4>1
      <4>2. CASE k # key
        <5>1. Cardinality(CountedIn(k, v)) <= buckets[k].count   BY <1>23, <2>4, <4>2
        <5> QED BY <1>13, <1>23, <4>2, <5>1
      <4> QED BY <4>1, <4>2, SMTT(40)
    <3> QED BY <3>1 DEF CountedIn
  <2> QED BY <2>6, <2>7, <2>8
<1>28. StoreCounts'   BY <1>26, <1>27 DEF StoreCounts
<1> QED BY <1>16, <1>19, <1>24, <1>25, <1>28 DEF IInv, Counts, Locals
-----------------------------------------------------------------------------
LEMMA InitHolds == Init => IInv
<1> SUFFICES ASSUME Init PROVE IInv   OBVIOUS
<1>1. /\ config \in Configs /\ status = "starting" /\ now = 0 /\ built = FALSE /\ lastCleanup = 0
      /\ buckets = [k \in {} |-> 0] /\ counters = [k \in {} |-> 0] /\ charged = {} /\ latest = 0
      /\ req = [r \in Requests |-> NoRequest] /\ sessions \subseteq DOMAIN Roles
  BY DEF Init
<1>2. DOMAIN buckets = {} /\ DOMAIN counters = {}   BY <1>1
<1>3. IsFiniteSet({}) /\ Cardinality({}) = 0   BY FS_EmptySet
<1>4. Shape   BY <1>1 DEF Shape, NoRequest, Fields
<1>5. Typed
  <2>1. MaxTime \in Nat   BY Limits
  <2>2. now \in 0..MaxTime /\ lastCleanup \in 0..now /\ latest \in Nat   BY <1>1, <2>1
  <2>3. built \in BOOLEAN /\ status # "running" /\ status \in {"starting", "running", "refused"}   BY <1>1
  <2>4. IsFiniteSet(charged)   BY <1>1, <1>3
  <2> QED BY <1>1, <2>2, <2>3, <2>4 DEF Typed
<1>6. Counts
  <2>1. Buckets   BY <1>2, <1>3, Limits DEF Buckets
  <2>2. RedisCounts   BY <1>1, <1>2 DEF RedisCounts
  <2>3. StoreCounts   BY <1>1, <1>2 DEF StoreCounts
  <2> QED BY <2>1, <2>2, <2>3 DEF Counts
<1>7. ASSUME NEW r \in Requests PROVE Local(r)
  <2>1. /\ req[r].pc = "idle" /\ req[r].tries = 0 /\ req[r].clock = 0 /\ req[r].denied = FALSE
        /\ req[r].failed = FALSE /\ req[r].own = FALSE /\ req[r].answer = "none"
    BY <1>1 DEF NoRequest
  <2>2. Waits(r)
    <3>1. RetryLimit \in Nat   BY Limits
    <3>2. req[r].tries \in 0..RetryLimit /\ req[r].clock \in 0..now   BY <1>1, <2>1, <3>1
    <3>3. req[r].denied \in BOOLEAN /\ req[r].failed \in BOOLEAN /\ req[r].own \in BOOLEAN   BY <2>1
    <3>4. /\ ~req[r].denied /\ ~req[r].failed /\ ~req[r].own /\ \A x \in charged : x.req # r
          /\ ~AtLimiter(r) /\ ~Passed(r)
      BY <1>1, <2>1 DEF AtLimiter, Passed
    <3> QED BY <2>1, <3>2, <3>3, <3>4 DEF Waits
  <2>3. Covered(r)   BY <1>1, <2>1 DEF Covered, ChargesOf, AtLimiter, Passed
  <2>4. Refused(r) /\ Entered(r)   BY <2>1 DEF Refused, Entered
  <2> QED BY <2>2, <2>3, <2>4 DEF Local
<1> QED BY <1>1, <1>4, <1>5, <1>6, <1>7 DEF IInv

LEMMA StutterKeeps == IInv /\ UNCHANGED vars => IInv'
<1> SUFFICES ASSUME IInv, UNCHANGED vars PROVE IInv'   OBVIOUS
<1>1. Quiet /\ UNCHANGED <<config, req, status, now, lastCleanup, sessions, audit, built>>
  BY DEF vars, Quiet
<1>2. Typed   BY DEF IInv
<1>3. Typed' /\ Onward   BY <1>1, <1>2, Numbers DEF Typed, Quiet, Onward
<1> QED BY <1>1, <1>3, ElsewhereKeeps

LEMMA StepKeeps == IInv /\ [Next]_vars => IInv'
<1> SUFFICES ASSUME IInv, [Next]_vars PROVE IInv'   OBVIOUS
<1>1. CASE CreateApp   BY <1>1, CreateAppKeeps
<1>2. CASE Tick   BY <1>2, TickKeeps
<1>3. CASE \E user \in sessions : SessionEnds(user)   BY <1>3, SessionEndsKeeps
<1>4. ASSUME NEW r \in Requests,
             \/ \E call \in config.calls : Arrive(r, call)
             \/ Identify(r) \/ Build(r) \/ CheckInOwn(r) \/ ReadClock(r) \/ CheckInMemory(r) \/ LimiterBreaks(r)
             \/ CheckInRedis(r) \/ CommandLost(r) \/ ReplyLost(r)
             \/ Authorize(r)
      PROVE  IInv'
  <2>1. CASE \E call \in config.calls : Arrive(r, call)   BY <2>1, ArriveKeeps
  <2>2. CASE Identify(r)        BY <2>2, IdentifyKeeps
  <2>3. CASE Build(r)           BY <2>3, BuildKeeps
  <2>4. CASE CheckInOwn(r)      BY <2>4, CheckInOwnKeeps
  <2>5. CASE ReadClock(r)       BY <2>5, ReadClockKeeps
  <2>6. CASE CheckInMemory(r)   BY <2>6, CheckInMemoryKeeps
  <2>7. CASE LimiterBreaks(r)   BY <2>7, LimiterBreaksKeeps
  <2>8. CASE CheckInRedis(r)    BY <2>8, CheckInRedisKeeps
  <2>9. CASE CommandLost(r)     BY <2>9, CommandLostKeeps
  <2>10. CASE ReplyLost(r)      BY <2>10, ReplyLostKeeps
  <2>11. CASE Authorize(r)      BY <2>11, AuthorizeKeeps
  <2> QED BY <1>4, <2>1, <2>2, <2>3, <2>4, <2>5, <2>6, <2>7, <2>8, <2>9, <2>10, <2>11
<1>5. CASE UNCHANGED vars   BY <1>5, StutterKeeps
<1> QED BY <1>1, <1>2, <1>3, <1>4, <1>5 DEF Next

LEMMA Always == Spec => []IInv
<1> QED BY InitHolds, StepKeeps, PTL DEF Spec
-----------------------------------------------------------------------------
(***************************************************************************)
(* The theorems.                                                           *)
(***************************************************************************)
\* The variables keep their types, and the in-memory limiter never tracks more keys
\* than it may, whatever it sweeps, evicts and counts (limiter.py:94).
THEOREM WellTyped == Spec => []TypeOK
<1>1. IInv => TypeOK
  <2> SUFFICES ASSUME IInv PROVE TypeOK   OBVIOUS
  <2>1. Typed /\ Buckets /\ RedisCounts   BY DEF IInv, Counts
  <2>2. \A r \in Requests : Waits(r)   BY DEF IInv, Local
  <2>3. \A r \in Requests : AtLimiter(r) => req[r].todo # <<>>   BY <2>2 DEF Waits
  <2> QED BY <2>1, <2>2, <2>3 DEF TypeOK, Typed, Buckets, Bucket, RedisCounts, Waits, AtLimiter
<1> QED BY <1>1, Always, PTL

\* Under an enterprise profile nobody is inside who was not signed in, permitted and
\* audited, and counted by every counter that applies; only the in-memory limiter
\* lets pass what it failed to count (deployment_profile.py:81).
THEOREM EnterpriseEnforced == Spec => []EnterpriseMeansEnforced
<1>1. IInv => EnterpriseMeansEnforced
  <2> SUFFICES ASSUME IInv, Enterprise(config), NEW r \in Inside
               PROVE  LET user == req[r].call.user
                      IN  /\ user \in DOMAIN Roles /\ Permitted(user, req[r].call.class)
                          /\ req[r].call.class # "REVIEW" =>
                               \E e \in audit : e.req = r /\ e.type = "ALLOWED" /\ e.user = user
                          /\ \/ {x.key : x \in ChargesOf(r)} =
                                  ToSet([i \in DOMAIN Planned(r) |-> Planned(r)[i].key])
                             \/ req[r].failed /\ config.profile = "single-instance-enterprise"
    BY DEF EnterpriseMeansEnforced, Planned
  <2>1. r \in Requests /\ req[r].pc = "inside"   BY DEF Inside
  <2>2. Waits(r) /\ Covered(r) /\ Entered(r) /\ Typed   BY <2>1 DEF IInv, Local
  <2>3. Starts(config)   BY <2>1, <2>2 DEF Waits, Typed
  <2>4. /\ Has("oidc") /\ Has("rate")
        /\ config.profile = "single-instance-enterprise" \/ Has("redis")
    <3>1. config.profile \in {"single-instance-enterprise", "multi-instance-enterprise"}
      BY DEF Enterprise, Profiles
    <3>2. Required(config.profile) \subseteq config.on   BY <2>3 DEF Starts, ValidateDeploymentProfile
    <3> QED BY <3>1, <3>2 DEF Required, Has
  <2>5. req[r].failed => config.profile = "single-instance-enterprise"   BY <2>1, <2>2, <2>4 DEF Waits
  <2>6. ToSet([i \in DOMAIN Planned(r) |-> Planned(r)[i].key]) = KeysOf(Planned(r))
    BY DEF ToSet, KeysOf
  <2>7. ~req[r].failed => {x.key : x \in ChargesOf(r)} = KeysOf(Planned(r))
    <3>1. Passed(r)   BY <2>1 DEF Passed
    <3>2. req[r].todo = <<>> /\ (req[r].denied => req[r].failed)   BY <2>2, <3>1 DEF Waits
    <3>3. KeysOf(req[r].todo) = {}   BY <3>2 DEF KeysOf
    <3>4. ~req[r].failed => KeysOf(Planned(r)) \subseteq {x.key : x \in ChargesOf(r)}
      BY <2>2, <2>4, <3>1, <3>2, <3>3 DEF Covered
    <3> QED BY <2>2, <3>4 DEF Covered
  <2>8. req[r].failed \in BOOLEAN   BY <2>2 DEF Waits
  <2> QED BY <2>1, <2>2, <2>4, <2>5, <2>6, <2>7, <2>8 DEF Entered
<1> QED BY <1>1, Always, PTL

\* No key gets more than its capacity out of one window: in Redis whatever is lost and
\* sent again, in memory unless a bucket was evicted, a caller came late or a limiter
\* was built twice (limiter.py:104, redis_limiter.py:33).
THEOREM CapacityKept == Spec => []WithinCapacity
<1>1. IInv => WithinCapacity
  <2> SUFFICES ASSUME IInv, Has("redis") \/ Tidy, NEW k, NEW w
               PROVE  Cardinality(CountedIn(k, w)) <= CapacityOf(k)
    BY DEF WithinCapacity, Tidy
  <2>1. \A x \in charged : Within(x)   BY DEF IInv, Counts, RedisCounts, StoreCounts
  <2>2. CASE CountedIn(k, w) = {}
    <3>1. CapacityOf(k) \in Nat \ {0}   BY CapacityPositive DEF IInv, Typed
    <3> QED BY <2>2, <3>1, FS_EmptySet
  <2>3. CASE CountedIn(k, w) # {}
    <3>1. PICK x : x \in CountedIn(k, w)   BY <2>3
    <3> QED BY <2>1, <3>1 DEF CountedIn, Within
  <2> QED BY <2>2, <2>3
<1> QED BY <1>1, Always, PTL

\* Whose key it is.
LEMMA KeyTells ==
  ASSUME NEW q, NEW k \in KeysOf(Planned(q))
  PROVE  /\ k[1] = "identity" => k = <<"identity", req[q].call.class, req[q].asked>>
         /\ k[1] = "client" => k = <<"client", req[q].call.class, ClientIp(req[q].call)>>
<1> PICK class, user, ip : class = req[q].call.class /\ user = req[q].asked /\ ip = ClientIp(req[q].call)
  OBVIOUS
<1> DEFINE plan == Checks(class, user, ip)
<1>1. Planned(q) = plan   BY DEF Planned
<1>2. WellPlanned(plan, class, user, ip)   BY ChecksShape
<1> HIDE DEF plan
<1>3. PICK i \in DOMAIN plan : k = plan[i].key   BY <1>1 DEF KeysOf
<1>4. k \in {<<"anon", class, ip>>, <<"identity", class, user>>, <<"client", class, ip>>}
  BY <1>2, <1>3 DEF WellPlanned
<1> QED BY <1>4

\* A signed-in caller is refused only by its own requests, or by as many from its
\* address for such an endpoint (ratelimit/dependencies.py:113).
THEOREM OwnBudget == Spec => []BudgetIsOnesOwn
<1>1. IInv => BudgetIsOnesOwn
  <2> SUFFICES ASSUME IInv, NEW r \in Requests, req[r].answer = "429", req[r].asked # "none"
               PROVE  \/ Cardinality({x \in charged : SameUser(x, r) /\ x.key[1] = "identity"}) >= Capacity
                      \/ /\ req[r].call.class \in Layered
                         /\ Cardinality({x \in charged : SameClient(x, r) /\ x.key[1] = "client"})
                              >= Capacity * config.multiplier
    BY DEF BudgetIsOnesOwn
  <2> DEFINE mine == {x \in charged : SameUser(x, r) /\ x.key[1] = "identity"}
             near == {x \in charged : SameClient(x, r) /\ x.key[1] = "client"}
  <2>1. PICK plan, class, user, ip, w :
          /\ plan = Planned(r) /\ class = req[r].call.class /\ user = req[r].asked
          /\ ip = ClientIp(req[r].call) /\ w = req[r].window
    OBVIOUS
  <2>2. WellPlanned(plan, class, user, ip) /\ user # "none"
    <3>1. WellPlanned(Checks(class, user, ip), class, user, ip)   BY ChecksShape
    <3> QED BY <2>1, <3>1 DEF Planned
  <2>3. PICK i \in DOMAIN plan : Cardinality(ChargedIn(plan[i].key, w)) >= plan[i].capacity
    <3>1. Refused(r) /\ req[r].denied   BY DEF IInv, Local, Waits
    <3> QED BY <2>1, <3>1 DEF Refused
  <2> PICK key, capacity : key = plan[i].key /\ capacity = plan[i].capacity   OBVIOUS
  <2>4. capacity = CapacityOf(key) /\ capacity \in Nat
    <3>1. capacity = CapacityOf(key)   BY <2>2 DEF WellPlanned
    <3> QED BY <3>1, CapacityPositive DEF IInv, Typed
  <2>5. IsFiniteSet(charged)   BY DEF IInv, Typed
  <2>6. ASSUME NEW S \in SUBSET charged, ChargedIn(key, w) \subseteq S PROVE Cardinality(S) >= capacity
    <3>1. IsFiniteSet(S) /\ IsFiniteSet(ChargedIn(key, w))   BY <2>5, <2>6, FS_Subset
    <3>2. /\ Cardinality(ChargedIn(key, w)) <= Cardinality(S)
          /\ Cardinality(ChargedIn(key, w)) \in Nat /\ Cardinality(S) \in Nat
      BY <2>6, <3>1, FS_Subset, FS_CardinalityType
    <3> QED BY <2>3, <2>4, <3>2
  <2>7. \A x \in charged : x.key \in KeysOf(Planned(x.req))   BY DEF IInv, Fresh
  <2>8. CASE key = <<"identity", class, user>>
    <3>1. capacity = Capacity   BY <2>4, <2>8 DEF CapacityOf
    <3>2. ASSUME NEW x \in charged, x.key = key, x.window = w PROVE x \in mine
      <4>1. x.key[1] = "identity" /\ x.key = <<"identity", class, user>>   BY <2>8, <3>2
      <4>2. x.key = <<"identity", req[x.req].call.class, req[x.req].asked>>   BY <2>7, <4>1, KeyTells
      <4>3. req[x.req].call.class = class /\ req[x.req].asked = user   BY <4>1, <4>2
      <4> QED BY <2>1, <3>2, <4>1, <4>3 DEF SameUser, Alike
    <3>3. ChargedIn(key, w) \subseteq mine   BY <3>2 DEF ChargedIn
    <3> HIDE DEF mine
    <3>4. mine \in SUBSET charged   BY DEF mine
    <3>5. Cardinality(mine) >= Capacity   BY <2>6, <3>1, <3>3, <3>4
    <3> QED BY <3>5 DEF mine
  <2>9. CASE key = <<"client", class, ip>> /\ class \in Layered
    <3>1. capacity = Capacity * config.multiplier   BY <2>4, <2>9 DEF CapacityOf
    <3>2. ASSUME NEW x \in charged, x.key = key, x.window = w PROVE x \in near
      <4>1. x.key[1] = "client" /\ x.key = <<"client", class, ip>>   BY <2>9, <3>2
      <4>2. x.key = <<"client", req[x.req].call.class, ClientIp(req[x.req].call)>>
        BY <2>7, <4>1, KeyTells
      <4>3. req[x.req].call.class = class /\ ClientIp(req[x.req].call) = ip   BY <4>1, <4>2
      <4> QED BY <2>1, <3>2, <4>1, <4>3 DEF SameClient, Alike
    <3>3. ChargedIn(key, w) \subseteq near   BY <3>2 DEF ChargedIn
    <3> HIDE DEF near
    <3>4. near \in SUBSET charged   BY DEF near
    <3>5. Cardinality(near) >= Capacity * config.multiplier   BY <2>6, <3>1, <3>3, <3>4
    <3> QED BY <2>1, <2>9, <3>5 DEF near
  <2>10. key = <<"identity", class, user>> \/ (key = <<"client", class, ip>> /\ class \in Layered)
    BY <2>2, <2>3 DEF WellPlanned, InLayers
  <2> QED BY <2>8, <2>9, <2>10
<1> QED BY <1>1, Always, PTL
=============================================================================
