------------------------- MODULE ReviewTokenProofs -------------------------
(***************************************************************************)
(* Proofs about the one-time review token, for any number of instances,    *)
(* callers, tokens and submissions, any lifetime and any clock granularity.*)
(*                                                                         *)
(* One use while valid is not inductive.  What makes it so: a call that    *)
(* has computed its marker's lifetime will set a marker that outlives the  *)
(* token (TimedLong); a call past the signature check runs where the       *)
(* signature is still good (ChecksHold); and as long as the token could    *)
(* pass the checks at all, the marker of an accepted one is still there    *)
(* (SpentStaysMarked).                                                     *)
(* An honest conflict rests on every marker having a call that set it      *)
(* (MarkedMeansClaimed), which the second part proves.  The third shows    *)
(* that the issuer implements the redeemable token of Redemption.          *)
(***************************************************************************)
EXTENDS ReviewToken, TLAPS

InFlight(s) == sub[s].pc \in {"checked", "timed"}
CouldVerify(t) == \E n \in deployment.nodes : SignatureValid(n, t)

\* now + TtlSeconds * TicksPerSecond needs now > 0 to tell "no marker" apart.
ClockRuns == now > 0

Minted == \A s \in Submissions : sub[s].pc # "idle" => sub[s].tok \in issued

IssuedWell == \A t \in issued : /\ token[t].exp > 0
                                /\ token[t].boot <= boot[token[t].node]

TimedLong == \A s \in Submissions : sub[s].pc = "timed" =>
               /\ sub[s].at <= now
               /\ sub[s].at + sub[s].ttl * TicksPerSecond > token[sub[s].tok].exp

ChecksHold == \A s \in Submissions : InFlight(s) =>
                /\ sub[s].node \in deployment.nodes
                /\ SignatureValid(sub[s].node, sub[s].tok)

SpentStaysMarked ==
  Sheltered => \A s \in Accepted :
    CouldVerify(sub[s].tok) => \/ now > token[sub[s].tok].exp
                               \/ marker[sub[s].tok] >= token[sub[s].tok].exp

IInv == /\ TypeOK /\ ClockRuns /\ Minted /\ IssuedWell /\ TimedLong
        /\ ChecksHold /\ SpentStaysMarked /\ OneUseWhileValid

-----------------------------------------------------------------------------
\* Whole seconds, rounded up, cover what is left of the lifetime.
LEMMA DivisionCovers ==
  ASSUME NEW d \in Nat \ {0}, NEW m \in Nat
  PROVE  /\ m \div d \in Nat
         /\ m < ((m \div d) + 1) * d
<1>1. m \div d \in Nat
  BY SMT
<1>2. m < ((m \div d) + 1) * d
  BY SMT
<1> QED BY <1>1, <1>2

\* max(1, int(remaining) + 1) seconds are always more than what remains.
LEMMA TtlCovers ==
  ASSUME NEW r \in Int
  PROVE  /\ Ttl(r) \in Nat \ {0}
         /\ r < Ttl(r) * TicksPerSecond
<1>1. CASE r < 0
  BY <1>1, TimeAssumption DEF Ttl
<1>2. CASE r >= 0
  <2>1. r \in Nat
    BY <1>2
  <2>2. Ttl(r) = (r \div TicksPerSecond) + 1
    BY <1>2 DEF Ttl
  <2>3. /\ r \div TicksPerSecond \in Nat
        /\ r < ((r \div TicksPerSecond) + 1) * TicksPerSecond
    BY <2>1, DivisionCovers, TimeAssumption
  <2> QED BY <2>2, <2>3
<1> QED BY <1>1, <1>2

\* A marker set from a time on lasts for a natural number of ticks.
LEMMA EndIsLater ==
  ASSUME NEW ttl \in Nat, NEW time \in Nat
  PROVE  time + ttl * TicksPerSecond \in Nat
<1>1. ttl * TicksPerSecond \in Nat
  BY TimeAssumption, SMT
<1> QED BY <1>1

LEMMA NodesAndTokens == /\ SomeNode \in Nodes
                        /\ NoCall \in SubRecord
<1>1. SomeNode \in Nodes
  BY SizeAssumption, Zenon DEF SomeNode
<1>2. (CHOOSE t \in Tokens : TRUE) \in Tokens
  BY SizeAssumption, Zenon
<1> QED BY <1>1, <1>2 DEF NoCall, SubRecord, States, Answers, Callers

LEMMA ReturnedType ==
  ASSUME NEW r \in SubRecord, NEW answer \in Answers
  PROVE  /\ Returned(r, answer) \in SubRecord
         /\ Returned(r, answer).pc = answer
         /\ Returned(r, answer).tok = r.tok
         /\ Returned(r, answer).who = r.who
         /\ Returned(r, answer).claimed = r.claimed
         /\ Returned(r, answer).inTime = FALSE
BY NodesAndTokens DEF Returned, NoCall, SubRecord, States, Answers, Callers

LEMMA WonType ==
  ASSUME NEW r \in SubRecord, NEW inTime \in BOOLEAN
  PROVE  LET new == [Returned(r, "accepted") EXCEPT !.claimed = TRUE, !.inTime = inTime]
         IN  /\ new \in SubRecord
             /\ new.pc = "accepted"
             /\ new.tok = r.tok
             /\ new.inTime = inTime
<1>1. Returned(r, "accepted") \in SubRecord /\ Returned(r, "accepted").pc = "accepted"
      /\ Returned(r, "accepted").tok = r.tok
  BY ReturnedType DEF Answers
<1> QED BY <1>1 DEF SubRecord

-----------------------------------------------------------------------------
LEMMA InitIInv == Init => IInv
<1> SUFFICES ASSUME Init PROVE IInv
  OBVIOUS
<1>1. TypeOK
  BY NodesAndTokens, SMT DEF Init, TypeOK, TokenRecord, Callers
<1>2. \A s \in Submissions : sub[s].pc = "idle"
  BY DEF Init, NoCall
<1> QED BY <1>1, <1>2 DEF Init, IInv, ClockRuns, Minted, IssuedWell, TimedLong,
           ChecksHold, SpentStaysMarked, OneUseWhileValid, Accepted, InFlight

-----------------------------------------------------------------------------
\* Steps that leave the deployment, the instances and the issued tokens alone
\* leave every signature as good as it was.
LEMMA SignaturesStay ==
  ASSUME UNCHANGED <<deployment, boot, token>>,
         NEW n, NEW t
  PROVE  SignatureValid(n, t)' <=> SignatureValid(n, t)
BY DEF SignatureValid

LEMMA TickStep == IInv /\ Tick => IInv'
<1> SUFFICES ASSUME IInv, Tick PROVE IInv'
  OBVIOUS
<1> USE DEF IInv, Tick
<1>1. TypeOK' /\ ClockRuns'
  BY DEF TypeOK, ClockRuns
<1>2. Minted' /\ IssuedWell'
  BY DEF Minted, IssuedWell
<1>3. TimedLong'
  BY DEF TimedLong, TypeOK, SubRecord
<1>4. ChecksHold'
  BY DEF ChecksHold, InFlight, SignatureValid
<1>5. SpentStaysMarked'
  <2> SUFFICES ASSUME Sheltered, NEW s \in Accepted, CouldVerify(sub[s].tok)
               PROVE  \/ now' > token[sub[s].tok].exp
                      \/ marker[sub[s].tok] >= token[sub[s].tok].exp
    BY DEF SpentStaysMarked, Sheltered, Shared, Accepted, CouldVerify, SignatureValid
  <2>1. token[sub[s].tok].exp \in Nat /\ now \in Nat
    BY DEF TypeOK, SubRecord, TokenRecord, Accepted
  <2> QED BY <2>1 DEF SpentStaysMarked
<1>6. OneUseWhileValid'
  BY DEF OneUseWhileValid, Accepted, Sheltered, Shared
<1> QED BY <1>1, <1>2, <1>3, <1>4, <1>5, <1>6

LEMMA IssueStep ==
  ASSUME IInv, NEW n \in Nodes, NEW t \in Tokens, NEW i \in Callers, Issue(n, t, i)
  PROVE  IInv'
<1> USE DEF IInv, Issue
<1>0. \A u \in issued : token'[u] = token[u] /\ u # t
  BY DEF TypeOK
<1>a. now + TtlSeconds * TicksPerSecond \in Nat /\ now + TtlSeconds * TicksPerSecond > 0
  <2>1. TtlSeconds * TicksPerSecond \in Nat
    BY TimeAssumption, SMT
  <2> QED BY <2>1 DEF TypeOK, ClockRuns
<1>b. token' = [token EXCEPT ![t] = [exp |-> now + TtlSeconds * TicksPerSecond,
                                     owner |-> i, node |-> n, boot |-> boot[n]]]
  OBVIOUS
<1>1. TypeOK'
  <2>1. [exp |-> now + TtlSeconds * TicksPerSecond, owner |-> i, node |-> n,
         boot |-> boot[n]] \in TokenRecord
    BY <1>a DEF TypeOK, TokenRecord
  <2> QED BY <2>1 DEF TypeOK
<1>2. ClockRuns' /\ Minted'
  BY DEF ClockRuns, Minted
<1>3. IssuedWell'
  <2> SUFFICES ASSUME NEW u \in issued'
               PROVE  token'[u].exp > 0 /\ token'[u].boot <= boot[token'[u].node]
    BY DEF IssuedWell
  <2>1. CASE u \in issued
    BY <1>0, <2>1 DEF IssuedWell
  <2>2. CASE u = t
    <3>1. token'[t] = [exp |-> now + TtlSeconds * TicksPerSecond, owner |-> i,
                       node |-> n, boot |-> boot[n]]
      BY DEF TypeOK
    <3>2. boot[n] \in Nat
      BY DEF TypeOK
    <3> QED BY <1>a, <2>2, <3>1, <3>2
  <2> QED BY <2>1, <2>2
<1>4. \A s \in Submissions : sub[s].pc # "idle" => token'[sub[s].tok] = token[sub[s].tok]
  BY <1>0 DEF Minted
<1>5. TimedLong'
  BY <1>4 DEF TimedLong
<1>6. ChecksHold'
  BY <1>4 DEF ChecksHold, InFlight, SignatureValid
<1>7. SpentStaysMarked'
  BY <1>4 DEF SpentStaysMarked, Sheltered, Shared, Accepted, CouldVerify, SignatureValid
<1>8. OneUseWhileValid'
  BY DEF OneUseWhileValid, Accepted, Sheltered, Shared
<1> QED BY <1>1, <1>2, <1>3, <1>5, <1>6, <1>7, <1>8

LEMMA SubmitStep ==
  ASSUME IInv, NEW s \in Submissions, NEW n \in Nodes, NEW t \in Tokens,
         NEW i \in Callers, Submit(s, n, t, i)
  PROVE  IInv'
<1> DEFINE call == [NoCall EXCEPT !.pc = "checked", !.tok = t, !.node = n, !.who = i]
<1> DEFINE verdict == Verdict(n, t, i)
<1> USE DEF IInv
<1>1. /\ n \in deployment.nodes /\ t \in issued
      /\ sub[s].pc = "idle"
      /\ UNCHANGED <<deployment, now, boot, issued, token, marker>>
      /\ sub' = [sub EXCEPT ![s] = IF verdict = "checked" THEN call
                                   ELSE Returned(call, verdict)]
  BY DEF Submit
<1>2. call \in SubRecord /\ call.pc = "checked" /\ call.tok = t /\ call.node = n
  BY NodesAndTokens DEF SubRecord, States
<1>3. verdict \in {"invalid", "expired", "checked"}
  BY Zenon DEF Verdict
<1>4. verdict = "checked" => SignatureValid(n, t)
  BY Zenon DEF Verdict
<1> HIDE DEF call, verdict
<1> DEFINE new == IF verdict = "checked" THEN call ELSE Returned(call, verdict)
<1>5. /\ new \in SubRecord
      /\ new.tok = t
      /\ new.pc \in {"invalid", "expired", "checked"}
      /\ new.pc = "checked" => SignatureValid(n, t) /\ new.node = n
  <2>1. CASE verdict = "checked"
    BY <1>2, <1>4, <2>1
  <2>2. CASE verdict # "checked"
    <3>1. verdict \in Answers
      BY <1>3, <2>2 DEF Answers
    <3> QED BY <1>2, <1>3, <2>2, <3>1, ReturnedType
  <2> QED BY <2>1, <2>2
<1>6. sub' = [sub EXCEPT ![s] = new]
  BY <1>1
<1> HIDE DEF new
<1>7. TypeOK' /\ ClockRuns' /\ IssuedWell'
  BY <1>1, <1>5, <1>6 DEF TypeOK, ClockRuns, IssuedWell
<1>8. sub'[s] = new /\ \A r \in Submissions : r # s => sub'[r] = sub[r]
  BY <1>6 DEF TypeOK
<1>9. Minted'
  BY <1>1, <1>5, <1>8 DEF Minted
<1>10. TimedLong'
  BY <1>1, <1>5, <1>8 DEF TimedLong
<1>11. ChecksHold'
  BY <1>1, <1>5, <1>8 DEF ChecksHold, InFlight, SignatureValid
<1>12. Accepted' = Accepted /\ s \notin Accepted
  BY <1>1, <1>5, <1>8 DEF Accepted
<1>13. SpentStaysMarked'
  BY <1>1, <1>8, <1>12
     DEF SpentStaysMarked, Sheltered, Shared, Accepted, CouldVerify, SignatureValid
<1>14. OneUseWhileValid'
  BY <1>1, <1>8, <1>12 DEF OneUseWhileValid, Sheltered, Shared
<1> QED BY <1>7, <1>9, <1>10, <1>11, <1>13, <1>14

LEMMA ComputeTtlStep ==
  ASSUME IInv, NEW s \in Submissions, ComputeTtl(s)
  PROVE  IInv'
<1> USE DEF IInv
<1> DEFINE t == sub[s].tok
<1> DEFINE new == [sub[s] EXCEPT !.pc = "timed", !.at = now,
                                 !.ttl = Ttl(token[t].exp - now)]
<1>1. /\ sub[s].pc = "checked"
      /\ UNCHANGED <<deployment, now, boot, issued, token, marker>>
      /\ sub' = [sub EXCEPT ![s] = new]
  BY DEF ComputeTtl
<1>2. token[t].exp \in Nat /\ now \in Nat /\ sub[s] \in SubRecord
  BY DEF TypeOK, TokenRecord, SubRecord
<1>3. /\ Ttl(token[t].exp - now) \in Nat \ {0}
      /\ token[t].exp - now < Ttl(token[t].exp - now) * TicksPerSecond
  BY <1>2, TtlCovers
<1>4. /\ new \in SubRecord /\ new.tok = t /\ new.node = sub[s].node
      /\ new.pc = "timed" /\ new.at = now /\ new.ttl = Ttl(token[t].exp - now)
  BY <1>2, <1>3 DEF SubRecord, States
<1>5. new.at + new.ttl * TicksPerSecond > token[t].exp
  <2>1. Ttl(token[t].exp - now) * TicksPerSecond \in Nat
    BY <1>3, TimeAssumption, SMT
  <2> QED BY <1>2, <1>3, <1>4, <2>1
<1>6. sub'[s] = new /\ \A r \in Submissions : r # s => sub'[r] = sub[r]
  BY <1>1 DEF TypeOK
<1>7. TypeOK' /\ ClockRuns' /\ IssuedWell'
  BY <1>1, <1>4 DEF TypeOK, ClockRuns, IssuedWell
<1> HIDE DEF new
<1>8. Minted'
  BY <1>1, <1>4, <1>6 DEF Minted
<1>9. TimedLong'
  BY <1>1, <1>2, <1>4, <1>5, <1>6 DEF TimedLong
<1>10. ChecksHold'
  BY <1>1, <1>4, <1>6 DEF ChecksHold, InFlight, SignatureValid
<1>11. Accepted' = Accepted /\ s \notin Accepted
  BY <1>1, <1>4, <1>6 DEF Accepted
<1>12. SpentStaysMarked'
  BY <1>1, <1>6, <1>11
     DEF SpentStaysMarked, Sheltered, Shared, Accepted, CouldVerify, SignatureValid
<1>13. OneUseWhileValid'
  BY <1>1, <1>6, <1>11 DEF OneUseWhileValid, Sheltered, Shared
<1> QED BY <1>7, <1>8, <1>9, <1>10, <1>12, <1>13

-----------------------------------------------------------------------------
\* What every step of a claim does, whatever the store and the outcome: it
\* drops no marker before its time, and a winner leaves one that outlives the
\* token where there was none.
LEMMA ClaimKeepsIInv ==
  ASSUME IInv, NEW s \in Submissions, sub[s].pc = "timed",
         UNCHANGED <<deployment, now, boot, issued, token>>,
         NEW new \in SubRecord,
         sub' = [sub EXCEPT ![s] = new],
         new.tok = sub[s].tok,
         \/ new.pc \in {"accepted", "conflict", "unavailable"}
         \/ new.pc = "timed" /\ new.at = sub[s].at /\ new.ttl = sub[s].ttl
                            /\ new.node = sub[s].node,
         marker' \in [Tokens -> Nat],
         \A u \in Tokens : \/ marker'[u] = marker[u]
                           \/ marker[u] < now
                           \/ marker'[u] > token[u].exp,
         new.pc = "accepted" => /\ marker'[sub[s].tok] > token[sub[s].tok].exp
                                /\ marker[sub[s].tok] < now
                                /\ new.inTime => now <= token[sub[s].tok].exp
  PROVE  IInv'
<1> USE DEF IInv
<1>1. sub'[s] = new /\ \A r \in Submissions : r # s => sub'[r] = sub[r]
  BY DEF TypeOK
<1>2. TypeOK' /\ ClockRuns' /\ IssuedWell'
  BY DEF TypeOK, ClockRuns, IssuedWell
<1>3. \A r \in Submissions : sub'[r].tok = sub[r].tok /\ sub[r].tok \in Tokens
  BY <1>1 DEF TypeOK, SubRecord
<1>4. Minted'
  BY <1>1, <1>3 DEF Minted
<1>5. TimedLong'
  BY <1>1 DEF TimedLong
<1>6. ChecksHold'
  BY <1>1 DEF ChecksHold, InFlight, SignatureValid
<1>7. \A r \in Accepted' : r # s => r \in Accepted
  BY <1>1 DEF Accepted
<1>8. now \in Nat /\ \A u \in Tokens : /\ marker[u] \in Nat /\ marker'[u] \in Nat
                                        /\ token[u].exp \in Nat
  BY DEF TypeOK, TokenRecord
<1>9. /\ Sheltered' <=> Sheltered
      /\ \A u : CouldVerify(u)' <=> CouldVerify(u)
  BY DEF Sheltered, Shared, CouldVerify, SignatureValid
<1>10. SpentStaysMarked'
  <2> SUFFICES ASSUME Sheltered, NEW r \in Accepted', CouldVerify(sub[r].tok)
               PROVE  \/ now > token[sub[r].tok].exp
                      \/ marker'[sub[r].tok] >= token[sub[r].tok].exp
    <3>1. \A r \in Accepted' : r \in Submissions
      BY DEF Accepted
    <3> QED BY <1>3, <1>9, <3>1 DEF SpentStaysMarked
  <2>1. r \in Submissions
    BY DEF Accepted
  <2>2. CASE r = s
    <3>1. new.pc = "accepted"
      BY <1>1, <2>2 DEF Accepted
    <3> QED BY <1>3, <1>8, <2>1, <2>2, <3>1
  <2>3. CASE r # s
    <3>1. \/ now > token[sub[r].tok].exp
          \/ marker[sub[r].tok] >= token[sub[r].tok].exp
      BY <1>7, <2>3 DEF SpentStaysMarked
    <3> QED BY <1>3, <1>8, <2>1, <3>1
  <2> QED BY <2>2, <2>3
<1>11. ASSUME Sheltered, NEW r \in Accepted', r # s, s \in Accepted',
              sub[r].tok = sub[s].tok
       PROVE  ~new.inTime
  <2>1. CouldVerify(sub[s].tok)
    BY DEF ChecksHold, InFlight, CouldVerify
  <2>2. \/ now > token[sub[s].tok].exp
        \/ marker[sub[s].tok] >= token[sub[s].tok].exp
    BY <1>7, <1>11, <2>1 DEF SpentStaysMarked
  <2>3. new.pc = "accepted"
    BY <1>1, <1>11 DEF Accepted
  <2>4. now > token[sub[s].tok].exp
    BY <1>3, <1>8, <2>2, <2>3
  <2>5. ~(now <= token[sub[s].tok].exp)
    BY <1>3, <1>8, <2>4
  <2> QED BY <2>3, <2>5, Zenon
<1>12. OneUseWhileValid'
  <2> SUFFICES ASSUME Sheltered, NEW r1 \in Accepted', NEW r2 \in Accepted', r1 # r2,
                      sub'[r1].tok = sub'[r2].tok
               PROVE  ~(sub'[r1].inTime /\ sub'[r2].inTime)
    BY <1>9 DEF OneUseWhileValid
  <2>1. r1 \in Submissions /\ r2 \in Submissions
    BY DEF Accepted
  <2>2. CASE r1 = s
    BY <1>1, <1>3, <1>11, <2>1, <2>2
  <2>3. CASE r2 = s
    BY <1>1, <1>3, <1>11, <2>1, <2>3
  <2>4. CASE r1 # s /\ r2 # s
    BY <1>1, <1>3, <1>7, <2>1, <2>4 DEF OneUseWhileValid
  <2> QED BY <2>2, <2>3, <2>4
<1> QED BY <1>2, <1>4, <1>5, <1>6, <1>10, <1>12

\* A marker set by a timed call, from any time since, outlives the token.
LEMMA EndOutlives ==
  ASSUME IInv, NEW s \in Submissions, sub[s].pc = "timed",
         NEW time \in Nat, time >= sub[s].at
  PROVE  EndOf(s, time) \in Nat /\ EndOf(s, time) > token[sub[s].tok].exp
<1>1. /\ sub[s].at \in Nat /\ sub[s].ttl \in Nat
      /\ token[sub[s].tok].exp \in Nat
  BY DEF IInv, TypeOK, SubRecord, TokenRecord
<1>2. sub[s].ttl * TicksPerSecond \in Nat
  BY <1>1, TimeAssumption, SMT
<1>3. sub[s].at + sub[s].ttl * TicksPerSecond > token[sub[s].tok].exp
  BY DEF IInv, TimedLong
<1> QED BY <1>1, <1>2, <1>3 DEF EndOf

\* No marker at a time that has come means none now, or one that is over.
LEMMA UnmarkedIsOver ==
  ASSUME IInv, NEW u \in Tokens, NEW time \in Nat, time <= now, ~Marked(u, time)
  PROVE  marker[u] < now
BY DEF IInv, TypeOK, ClockRuns, Marked

LEMMA MemoryClaimStep ==
  ASSUME IInv, NEW s \in Submissions, MemoryClaim(s)
  PROVE  IInv'
<1> DEFINE t == sub[s].tok
<1>1. /\ sub[s].pc = "timed" /\ sub[s] \in SubRecord /\ t \in Tokens
      /\ UNCHANGED <<deployment, now, boot, issued, token>>
  BY DEF MemoryClaim, IInv, TypeOK, SubRecord
<1>2. PICK read \in sub[s].at .. now :
        LET swept == [u \in Tokens |-> IF Marked(u, read) THEN marker[u] ELSE 0]
        IN  IF Marked(t, read)
            THEN marker' = swept /\ Refused(s)
            ELSE marker' = [swept EXCEPT ![t] = EndOf(s, read)] /\ Won(s)
  BY DEF MemoryClaim
<1> DEFINE swept == [u \in Tokens |-> IF Marked(u, read) THEN marker[u] ELSE 0]
<1>3. read \in Nat /\ read <= now /\ read >= sub[s].at
  BY <1>1, <1>2 DEF IInv, TypeOK, SubRecord
<1>4. /\ swept \in [Tokens -> Nat]
      /\ \A u \in Tokens : swept[u] = marker[u] \/ marker[u] < now
  <2>1. \A u \in Tokens : ~Marked(u, read) => marker[u] < now
    BY <1>3, UnmarkedIsOver
  <2> QED BY <2>1 DEF IInv, TypeOK
<1>5. CASE Marked(t, read)
  <2> DEFINE new == Returned(sub[s], "conflict")
  <2>1. marker' = swept /\ sub' = [sub EXCEPT ![s] = new]
    BY <1>2, <1>5 DEF Refused
  <2>2. new \in SubRecord /\ new.pc = "conflict" /\ new.tok = t
    BY <1>1, ReturnedType DEF Answers
  <2> HIDE DEF new, swept
  <2> QED BY <1>1, <1>4, <2>1, <2>2, ClaimKeepsIInv
<1>6. CASE ~Marked(t, read)
  <2> DEFINE inTime == now <= token[t].exp
  <2> DEFINE new == [Returned(sub[s], "accepted") EXCEPT !.claimed = TRUE,
                                                         !.inTime = inTime]
  <2>1. /\ marker' = [swept EXCEPT ![t] = EndOf(s, read)]
        /\ sub' = [sub EXCEPT ![s] = new]
    BY <1>2, <1>6 DEF Won
  <2>2. new \in SubRecord /\ new.pc = "accepted" /\ new.tok = t /\ new.inTime = inTime
    <3>1. inTime \in BOOLEAN
      OBVIOUS
    <3> HIDE DEF inTime
    <3> QED BY <1>1, <3>1, WonType, ZenonT(40)
  <2>3. EndOf(s, read) \in Nat /\ EndOf(s, read) > token[t].exp
    BY <1>1, <1>3, EndOutlives
  <2>4. marker[t] < now
    BY <1>1, <1>3, <1>6, UnmarkedIsOver
  <2>5. marker' \in [Tokens -> Nat] /\ marker'[t] = EndOf(s, read)
    BY <1>1, <1>4, <2>1, <2>3
  <2>6. \A u \in Tokens : u # t => marker'[u] = swept[u]
    BY <1>4, <2>1
  <2>7. new.inTime => now <= token[t].exp
    BY <2>2, Zenon
  <2> HIDE DEF new, swept, inTime
  <2> QED BY <1>1, <1>4, <2>1, <2>2, <2>3, <2>4, <2>5, <2>6, <2>7, ClaimKeepsIInv
<1> QED BY <1>5, <1>6

LEMMA RedisClaimStep ==
  ASSUME IInv, NEW s \in Submissions, RedisClaim(s)
  PROVE  IInv'
<1> DEFINE t == sub[s].tok
<1>1. /\ sub[s].pc = "timed" /\ sub[s] \in SubRecord /\ t \in Tokens
      /\ UNCHANGED <<deployment, now, boot, issued, token>>
      /\ marker \in [Tokens -> Nat] /\ now \in Nat
  BY DEF RedisClaim, IInv, TypeOK, SubRecord
<1>2. sub[s].at <= now
  BY <1>1 DEF IInv, TimedLong
<1>3. CASE Marked(t, now)
  <2> DEFINE new == Returned(sub[s], "conflict")
  <2>1. marker' = marker /\ sub' = [sub EXCEPT ![s] = new]
    BY <1>3 DEF RedisClaim, Refused
  <2>2. new \in SubRecord /\ new.pc = "conflict" /\ new.tok = t
    BY <1>1, ReturnedType DEF Answers
  <2> HIDE DEF new
  <2> QED BY <1>1, <2>1, <2>2, ClaimKeepsIInv
<1>4. CASE ~Marked(t, now)
  <2> DEFINE inTime == now <= token[t].exp
  <2> DEFINE new == [Returned(sub[s], "accepted") EXCEPT !.claimed = TRUE,
                                                         !.inTime = inTime]
  <2>1. /\ marker' = [marker EXCEPT ![t] = EndOf(s, now)]
        /\ sub' = [sub EXCEPT ![s] = new]
    BY <1>4 DEF RedisClaim, Won
  <2>2. new \in SubRecord /\ new.pc = "accepted" /\ new.tok = t /\ new.inTime = inTime
    <3>1. inTime \in BOOLEAN
      OBVIOUS
    <3> HIDE DEF inTime
    <3> QED BY <1>1, <3>1, WonType, ZenonT(40)
  <2>3. EndOf(s, now) \in Nat /\ EndOf(s, now) > token[t].exp
    BY <1>1, <1>2, EndOutlives
  <2>4. marker[t] < now
    BY <1>1, <1>4, UnmarkedIsOver
  <2>5. /\ marker' \in [Tokens -> Nat] /\ marker'[t] = EndOf(s, now)
        /\ \A u \in Tokens : u # t => marker'[u] = marker[u]
    BY <1>1, <2>1, <2>3
  <2>6. new.inTime => now <= token[t].exp
    BY <2>2, Zenon
  <2> HIDE DEF new, inTime
  <2> QED BY <1>1, <2>1, <2>2, <2>3, <2>4, <2>5, <2>6, ClaimKeepsIInv
<1> QED BY <1>3, <1>4

\* What a failed call leaves of a submission.
LEMMA AfterErrorType ==
  ASSUME NEW r \in SubRecord, r.pc = "timed"
  PROVE  /\ AfterError(r, "unavailable") \in SubRecord
         /\ AfterError(r, "unavailable").tok = r.tok
         /\ \/ AfterError(r, "unavailable").pc = "unavailable"
            \/ /\ AfterError(r, "unavailable").pc = "timed"
               /\ AfterError(r, "unavailable").at = r.at
               /\ AfterError(r, "unavailable").ttl = r.ttl
               /\ AfterError(r, "unavailable").node = r.node
<1>1. CASE r.tries < RetryLimit
  <2>1. AfterError(r, "unavailable") = [r EXCEPT !.tries = r.tries + 1]
    BY <1>1 DEF AfterError
  <2> QED BY <2>1 DEF SubRecord
<1>2. CASE ~(r.tries < RetryLimit)
  <2>1. AfterError(r, "unavailable") = Returned(r, "unavailable")
    BY <1>2 DEF AfterError
  <2>2. "unavailable" \in Answers
    BY DEF Answers
  <2>3. /\ Returned(r, "unavailable") \in SubRecord
        /\ Returned(r, "unavailable").pc = "unavailable"
        /\ Returned(r, "unavailable").tok = r.tok
    BY <2>2, ReturnedType
  <2> QED BY <2>1, <2>3, Zenon
<1> QED BY <1>1, <1>2

LEMMA FaultStep ==
  ASSUME IInv, NEW s \in Submissions, CommandLost(s) \/ ReplyLost(s)
  PROVE  IInv'
<1> DEFINE t == sub[s].tok
<1> DEFINE after == AfterError(sub[s], "unavailable")
<1>1. /\ sub[s].pc = "timed" /\ sub[s] \in SubRecord /\ t \in Tokens
      /\ UNCHANGED <<deployment, now, boot, issued, token>>
      /\ marker \in [Tokens -> Nat] /\ now \in Nat
  BY DEF CommandLost, ReplyLost, IInv, TypeOK, SubRecord
<1>2. sub[s].at <= now
  BY <1>1 DEF IInv, TimedLong
<1>3. /\ after \in SubRecord /\ after.tok = t
      /\ \/ after.pc = "unavailable"
         \/ after.pc = "timed" /\ after.at = sub[s].at /\ after.ttl = sub[s].ttl
                              /\ after.node = sub[s].node
  BY <1>1, AfterErrorType
<1>4. CASE marker' = marker /\ sub' = [sub EXCEPT ![s] = after]
  <2> HIDE DEF after
  <2> QED BY <1>1, <1>3, <1>4, ClaimKeepsIInv
<1>5. CASE /\ sub' = [sub EXCEPT ![s] = [after EXCEPT !.claimed = TRUE]]
           /\ marker' = [marker EXCEPT ![t] = EndOf(s, now)]
  <2> DEFINE new == [after EXCEPT !.claimed = TRUE]
  <2>1. /\ new \in SubRecord /\ new.tok = t
        /\ \/ new.pc = "unavailable"
           \/ new.pc = "timed" /\ new.at = sub[s].at /\ new.ttl = sub[s].ttl
                              /\ new.node = sub[s].node
    <3> HIDE DEF after
    <3> QED BY <1>3 DEF SubRecord
  <2>2. EndOf(s, now) \in Nat /\ EndOf(s, now) > token[t].exp
    BY <1>1, <1>2, EndOutlives
  <2>3. /\ marker' \in [Tokens -> Nat] /\ marker'[t] = EndOf(s, now)
        /\ \A u \in Tokens : u # t => marker'[u] = marker[u]
    BY <1>1, <1>5, <2>2
  <2>4. sub' = [sub EXCEPT ![s] = new]
    BY <1>5
  <2> HIDE DEF new
  <2> QED BY <1>1, <2>1, <2>2, <2>3, <2>4, ClaimKeepsIInv
<1>6. CASE CommandLost(s)
  BY <1>4, <1>6 DEF CommandLost
<1>7. CASE ReplyLost(s)
  <2>1. CASE Marked(t, now)
    BY <1>4, <1>7, <2>1 DEF ReplyLost
  <2>2. CASE ~Marked(t, now)
    BY <1>5, <1>7, <2>2 DEF ReplyLost
  <2> QED BY <2>1, <2>2
<1> QED BY <1>6, <1>7

\* A restart drops the calls of its instance.  Where it takes the markers too,
\* the instance is the only one and its generated key goes with them.
LEMMA RestartStep ==
  ASSUME IInv, NEW n \in Nodes, Restart(n)
  PROVE  IInv'
<1> USE DEF IInv
<1>1. /\ n \in deployment.nodes
      /\ boot' = [boot EXCEPT ![n] = @ + 1]
      /\ UNCHANGED <<deployment, now, issued, token>>
      /\ marker' = IF Shared THEN marker ELSE [t \in Tokens |-> 0]
  BY DEF Restart
<1>2. \A s \in Submissions :
        sub'[s] = IF sub[s].node = n /\ InFlight(s) THEN Returned(sub[s], "dropped")
                  ELSE sub[s]
  BY DEF Restart, InFlight
<1>3. \A s \in Submissions :
        /\ sub[s] \in SubRecord
        /\ Returned(sub[s], "dropped") \in SubRecord
        /\ Returned(sub[s], "dropped").pc = "dropped"
        /\ Returned(sub[s], "dropped").tok = sub[s].tok
  BY ReturnedType DEF TypeOK, Answers
<1>4. /\ boot' \in [Nodes -> Nat] /\ boot'[n] = boot[n] + 1
      /\ \A m \in Nodes : m # n => boot'[m] = boot[m]
  BY <1>1 DEF TypeOK
<1>5. TypeOK'
  <2>1. sub' \in [Submissions -> SubRecord]
    BY <1>2, <1>3 DEF Restart
  <2>2. marker' \in [Tokens -> Nat]
    BY <1>1 DEF TypeOK
  <2> QED BY <1>1, <1>4, <2>1, <2>2 DEF TypeOK
<1>6. ClockRuns' /\ IssuedWell'
  <2>1. \A t \in issued : token[t].node \in Nodes /\ token[t].boot \in Nat
    BY DEF TypeOK, TokenRecord
  <2>2. \A m \in Nodes : boot[m] \in Nat /\ boot'[m] >= boot[m]
    BY <1>4 DEF TypeOK
  <2>3. \A m \in Nodes : boot'[m] \in Nat
    BY <1>4
  <2> QED BY <1>1, <2>1, <2>2, <2>3 DEF ClockRuns, IssuedWell
<1>7. Minted'
  BY <1>1, <1>2, <1>3 DEF Minted, InFlight
<1>8. TimedLong'
  BY <1>1, <1>2, <1>3 DEF TimedLong, InFlight
<1>9. ChecksHold'
  <2> SUFFICES ASSUME NEW s \in Submissions, InFlight(s)'
               PROVE  /\ sub'[s].node \in deployment.nodes
                      /\ SignatureValid(sub[s].node, sub[s].tok)'
    BY <1>1 DEF ChecksHold
  <2>1. sub'[s] = sub[s] /\ InFlight(s) /\ sub[s].node # n
    BY <1>2, <1>3 DEF InFlight
  <2>2. sub[s].node \in Nodes
    BY <1>3 DEF SubRecord
  <2>3. boot'[sub[s].node] = boot[sub[s].node]
    BY <1>4, <2>1, <2>2
  <2> QED BY <1>1, <2>1, <2>3 DEF ChecksHold, SignatureValid
<1>10. /\ Accepted' = Accepted
       /\ \A s \in Accepted : sub'[s] = sub[s]
  BY <1>2, <1>3 DEF Accepted, InFlight
<1>11. SpentStaysMarked'
  <2> SUFFICES ASSUME Sheltered, NEW s \in Accepted, CouldVerify(sub[s].tok)'
               PROVE  \/ now > token[sub[s].tok].exp
                      \/ marker'[sub[s].tok] >= token[sub[s].tok].exp
    BY <1>1, <1>10 DEF SpentStaysMarked, Sheltered, Shared
  <2> DEFINE t == sub[s].tok
  <2>1. CASE Shared
    <3>1. deployment.explicit /\ CouldVerify(t)
      BY <1>1, <1>10, <2>1, DeploymentAssumption DEF TypeOK, Shared, CouldVerify, SignatureValid
    <3> QED BY <1>1, <2>1, <3>1 DEF SpentStaysMarked
  <2>2. CASE ~Shared
    <3>1. ~deployment.explicit
      BY <2>2 DEF Sheltered
    <3>2. PICK m \in deployment.nodes : token[t].node = m /\ token[t].boot = boot'[m]
      BY <1>1, <1>10, <3>1 DEF CouldVerify, SignatureValid
    <3>3. m = n
      BY <1>1, <2>2, DeploymentAssumption DEF TypeOK, Shared
    <3>4. t \in issued
      BY DEF Minted, Accepted
    <3>5. token[t].boot <= boot[n] /\ boot[n] \in Nat
      BY <3>2, <3>3, <3>4 DEF IssuedWell, TypeOK
    <3> QED BY <1>4, <3>2, <3>3, <3>5
  <2> QED BY <2>1, <2>2
<1>12. OneUseWhileValid'
  BY <1>1, <1>10 DEF OneUseWhileValid, Sheltered, Shared
<1> QED BY <1>5, <1>6, <1>7, <1>8, <1>9, <1>11, <1>12

-----------------------------------------------------------------------------
LEMMA StepKeepsIInv == IInv /\ [Next]_vars => IInv'
<1> SUFFICES ASSUME IInv, [Next]_vars PROVE IInv'
  OBVIOUS
<1>1. CASE Tick
  BY <1>1, TickStep
<1>2. ASSUME NEW n \in Nodes, NEW t \in Tokens, NEW i \in Callers, Issue(n, t, i)
      PROVE  IInv'
  BY <1>2, IssueStep
<1>3. ASSUME NEW n \in Nodes, NEW t \in Tokens, NEW i \in Callers,
             NEW s \in Submissions, Submit(s, n, t, i)
      PROVE  IInv'
  BY <1>3, SubmitStep
<1>4. ASSUME NEW s \in Submissions, ComputeTtl(s) PROVE IInv'
  BY <1>4, ComputeTtlStep
<1>5. ASSUME NEW s \in Submissions, Claim(s) PROVE IInv'
  BY <1>5, MemoryClaimStep, RedisClaimStep, FaultStep DEF Claim
<1>6. ASSUME NEW n \in Nodes, Restart(n) PROVE IInv'
  BY <1>6, RestartStep
<1>7. CASE UNCHANGED vars
  BY <1>7 DEF vars, IInv, TypeOK, ClockRuns, Minted, IssuedWell, TimedLong, ChecksHold,
     InFlight, SpentStaysMarked, OneUseWhileValid, Accepted, CouldVerify, Sheltered,
     Shared, SignatureValid
<1> QED BY <1>1, <1>2, <1>3, <1>4, <1>5, <1>6, <1>7 DEF Next

LEMMA IInvHolds == Spec => []IInv
BY InitIInv, StepKeepsIInv, PTL DEF Spec

(***************************************************************************)
(* TypeOK for every instance: among others, every computed lifetime is at  *)
(* least a second, so that Redis is never asked for EX 0 and a memory      *)
(* marker never ends before it begins (verify_and_consume, try_consume).   *)
(***************************************************************************)
THEOREM TokensWellTyped == Spec => []TypeOK
<1>1. IInv => TypeOK
  BY DEF IInv
<1> QED BY <1>1, IInvHolds, PTL

(***************************************************************************)
(* The promise of verify_and_consume, for every instance: while a token is *)
(* alive it is accepted once, whatever its submissions, instances, Redis   *)
(* failures and restarts do in between.                                    *)
(***************************************************************************)
THEOREM TokenUsedOnce == Spec => []OneUseWhileValid
<1>1. IInv => OneUseWhileValid
  BY DEF IInv
<1> QED BY <1>1, IInvHolds, PTL

-----------------------------------------------------------------------------
\* A conflict is answered where a marker was seen.  Behind every marker is a
\* call that set it, and no step takes that back: a call that returns, errs or
\* is dropped keeps its claim, and a fresh call starts on one without.
Claimant(t) == \E c \in Submissions : sub[c].claimed /\ sub[c].tok = t

MarkedMeansClaimed == \A t \in Tokens : marker[t] # 0 => Claimant(t)

IdleUnclaimed == \A s \in Submissions : sub[s].pc = "idle" => ~sub[s].claimed

ClaimsKept == \A c \in Submissions :
                sub[c].claimed => sub'[c].claimed /\ sub'[c].tok = sub[c].tok

CInv == MarkedMeansClaimed /\ IdleUnclaimed /\ ConflictMeansClaimed

LEMMA ClaimantsStay ==
  ASSUME ClaimsKept, NEW t, Claimant(t)
  PROVE  Claimant(t)'
BY DEF ClaimsKept, Claimant

\* What a step of one call, and what a step that sets no marker, has to show.
LEMMA CallStep ==
  ASSUME TypeOK, CInv, ClaimsKept, NEW s \in Submissions,
         \A c \in Submissions : c # s => sub'[c] = sub[c],
         sub'[s].pc # "idle" \/ sub'[s] = sub[s],
         sub'[s].pc = "conflict" => sub[s].pc = "conflict" \/ marker[sub[s].tok] # 0,
         sub'[s].tok = sub[s].tok \/ sub'[s].pc # "conflict",
         \A t \in Tokens : marker'[t] # 0 =>
           marker[t] # 0 \/ (sub'[s].claimed /\ sub'[s].tok = t)
  PROVE  CInv'
<1>1. MarkedMeansClaimed'
  <2> SUFFICES ASSUME NEW t \in Tokens, marker'[t] # 0 PROVE Claimant(t)'
    BY DEF MarkedMeansClaimed
  <2>1. CASE marker[t] # 0
    BY <2>1, ClaimantsStay DEF CInv, MarkedMeansClaimed
  <2>2. CASE sub'[s].claimed /\ sub'[s].tok = t
    BY <2>2 DEF Claimant
  <2> QED BY <2>1, <2>2
<1>2. IdleUnclaimed'
  BY DEF CInv, IdleUnclaimed
<1>3. ConflictMeansClaimed'
  <2> SUFFICES ASSUME NEW c \in Submissions, sub'[c].pc = "conflict"
               PROVE  \E k \in Submissions : sub'[k].claimed /\ sub'[k].tok = sub'[c].tok
    BY DEF ConflictMeansClaimed
  <2>1. sub'[c].tok = sub[c].tok /\ sub[c].tok \in Tokens
    BY DEF TypeOK, SubRecord
  <2>2. sub[c].pc = "conflict" \/ marker[sub[c].tok] # 0
    OBVIOUS
  <2>3. Claimant(sub[c].tok)
    BY <2>1, <2>2 DEF CInv, ConflictMeansClaimed, MarkedMeansClaimed, Claimant
  <2>4. Claimant(sub[c].tok)'
    BY <2>3, ClaimantsStay
  <2> QED BY <2>1, <2>4 DEF Claimant
<1> QED BY <1>1, <1>2, <1>3 DEF CInv

LEMMA InitCInv == Init => CInv
BY DEF Init, NoCall, CInv, MarkedMeansClaimed, IdleUnclaimed, ConflictMeansClaimed

LEMMA SubmitKeepsCInv ==
  ASSUME TypeOK, CInv, NEW s \in Submissions, NEW n \in Nodes, NEW t \in Tokens,
         NEW i \in Callers, Submit(s, n, t, i)
  PROVE  CInv'
<1> DEFINE call == [NoCall EXCEPT !.pc = "checked", !.tok = t, !.node = n, !.who = i]
<1>1. ~sub[s].claimed
  BY DEF Submit, CInv, IdleUnclaimed
<1>2. call \in SubRecord /\ call.pc = "checked"
  BY NodesAndTokens DEF SubRecord, States
<1>3. Verdict(n, t, i) \in {"invalid", "expired", "checked"}
  BY DEF Verdict
<1>4. sub'[s].pc \in {"invalid", "expired", "checked"}
  <2>1. Returned(call, "invalid").pc = "invalid" /\ Returned(call, "expired").pc = "expired"
    BY <1>2, ReturnedType DEF Answers
  <2>2. sub'[s] = IF Verdict(n, t, i) = "checked" THEN call ELSE Returned(call, Verdict(n, t, i))
    BY DEF Submit, TypeOK
  <2> HIDE DEF call
  <2> QED BY <1>2, <1>3, <2>1, <2>2
<1>5. marker' = marker /\ \A c \in Submissions : c # s => sub'[c] = sub[c]
  BY DEF Submit, TypeOK
<1>6. ClaimsKept
  BY <1>1, <1>5 DEF ClaimsKept
<1> QED BY <1>4, <1>5, <1>6, CallStep

LEMMA ComputeTtlKeepsCInv ==
  ASSUME TypeOK, CInv, NEW s \in Submissions, ComputeTtl(s)
  PROVE  CInv'
<1>1. /\ sub'[s].pc = "timed" /\ sub'[s].tok = sub[s].tok
      /\ sub'[s].claimed = sub[s].claimed
      /\ \A c \in Submissions : c # s => sub'[c] = sub[c]
      /\ marker' = marker
  BY DEF ComputeTtl, TypeOK, SubRecord
<1> QED BY <1>1, CallStep DEF ClaimsKept

\* The ways a claim can end for the call that makes it.
LEMMA RefusedKeepsClaims ==
  ASSUME TypeOK, NEW s \in Submissions, Refused(s)
  PROVE  /\ ClaimsKept /\ sub'[s].pc = "conflict" /\ sub'[s].tok = sub[s].tok
         /\ \A c \in Submissions : c # s => sub'[c] = sub[c]
<1>1. sub[s] \in SubRecord
  BY DEF TypeOK
<1>2. sub'[s] = Returned(sub[s], "conflict")
      /\ \A c \in Submissions : c # s => sub'[c] = sub[c]
  BY DEF Refused, TypeOK
<1>3. /\ Returned(sub[s], "conflict").pc = "conflict"
      /\ Returned(sub[s], "conflict").tok = sub[s].tok
      /\ Returned(sub[s], "conflict").claimed = sub[s].claimed
  BY <1>1, ReturnedType DEF Answers
<1> QED BY <1>2, <1>3 DEF ClaimsKept

LEMMA WonClaims ==
  ASSUME TypeOK, NEW s \in Submissions, Won(s)
  PROVE  /\ ClaimsKept /\ sub'[s].pc = "accepted" /\ sub'[s].tok = sub[s].tok
         /\ sub'[s].claimed
         /\ \A c \in Submissions : c # s => sub'[c] = sub[c]
<1>1. sub[s] \in SubRecord
  BY DEF TypeOK
<1>2. /\ sub'[s] = [Returned(sub[s], "accepted") EXCEPT
                      !.claimed = TRUE, !.inTime = now <= token[sub[s].tok].exp]
      /\ \A c \in Submissions : c # s => sub'[c] = sub[c]
  BY DEF Won, TypeOK
<1>3. /\ Returned(sub[s], "accepted") \in SubRecord
      /\ Returned(sub[s], "accepted").pc = "accepted"
      /\ Returned(sub[s], "accepted").tok = sub[s].tok
  BY <1>1, ReturnedType DEF Answers
<1>4. sub'[s].pc = "accepted" /\ sub'[s].tok = sub[s].tok /\ sub'[s].claimed
  BY <1>2, <1>3 DEF SubRecord
<1> QED BY <1>2, <1>4 DEF ClaimsKept

LEMMA ErrorKeepsClaims ==
  ASSUME NEW r \in SubRecord, r.pc = "timed"
  PROVE  /\ AfterError(r, "unavailable") \in SubRecord
         /\ AfterError(r, "unavailable").pc \in {"timed", "unavailable"}
         /\ AfterError(r, "unavailable").tok = r.tok
         /\ AfterError(r, "unavailable").claimed = r.claimed
<1>1. CASE r.tries < RetryLimit
  BY <1>1 DEF AfterError, SubRecord
<1>2. CASE ~(r.tries < RetryLimit)
  BY <1>2, ReturnedType DEF AfterError, Answers
<1> QED BY <1>1, <1>2

LEMMA MemoryClaimKeepsCInv ==
  ASSUME TypeOK, CInv, NEW s \in Submissions, MemoryClaim(s)
  PROVE  CInv'
<1> DEFINE t == sub[s].tok
<1> DEFINE swept(read) == [u \in Tokens |-> IF Marked(u, read) THEN marker[u] ELSE 0]
<1>1. PICK read \in sub[s].at .. now :
        IF Marked(t, read) THEN marker' = swept(read) /\ Refused(s)
        ELSE marker' = [swept(read) EXCEPT ![t] = EndOf(s, read)] /\ Won(s)
  BY DEF MemoryClaim
<1>2. \A u \in Tokens : swept(read)[u] # 0 => marker[u] # 0
  BY DEF Marked
<1>3. CASE Marked(t, read)
  <2>1. Refused(s) /\ marker' = swept(read) /\ marker[t] # 0
    BY <1>1, <1>3 DEF Marked
  <2>2. \A u \in Tokens : marker'[u] # 0 => marker[u] # 0
    BY <1>2, <2>1
  <2> QED BY <2>1, <2>2, RefusedKeepsClaims, CallStep
<1>4. CASE ~Marked(t, read)
  <2>1. Won(s) /\ marker' = [swept(read) EXCEPT ![t] = EndOf(s, read)]
    BY <1>1, <1>4
  <2>2. \A u \in Tokens : marker'[u] # 0 => marker[u] # 0 \/ u = t
    BY <1>2, <2>1
  <2> QED BY <2>1, <2>2, WonClaims, CallStep
<1> QED BY <1>3, <1>4

LEMMA RedisClaimKeepsCInv ==
  ASSUME TypeOK, CInv, NEW s \in Submissions, RedisClaim(s)
  PROVE  CInv'
<1>1. CASE Marked(sub[s].tok, now)
  <2>1. Refused(s) /\ marker' = marker /\ marker[sub[s].tok] # 0
    BY <1>1 DEF RedisClaim, Marked
  <2> QED BY <2>1, RefusedKeepsClaims, CallStep
<1>2. CASE ~Marked(sub[s].tok, now)
  <2>1. Won(s) /\ marker' = [marker EXCEPT ![sub[s].tok] = EndOf(s, now)]
    BY <1>2 DEF RedisClaim
  <2>2. \A u \in Tokens : marker'[u] # 0 => marker[u] # 0 \/ u = sub[s].tok
    BY <2>1 DEF TypeOK
  <2> QED BY <2>1, <2>2, WonClaims, CallStep
<1> QED BY <1>1, <1>2

\* A lost command claims nothing; a lost reply may have claimed, and says so.
LEMMA FaultKeepsCInv ==
  ASSUME TypeOK, CInv, NEW s \in Submissions, CommandLost(s) \/ ReplyLost(s)
  PROVE  CInv'
<1> DEFINE after == AfterError(sub[s], "unavailable")
<1>1. sub[s] \in SubRecord /\ sub[s].pc = "timed"
  BY DEF TypeOK, CommandLost, ReplyLost
<1>2. /\ after \in SubRecord /\ after.pc \in {"timed", "unavailable"}
      /\ after.tok = sub[s].tok /\ after.claimed = sub[s].claimed
  BY <1>1, ErrorKeepsClaims
<1>3. CASE sub' = [sub EXCEPT ![s] = after] /\ marker' = marker
  <2>1. sub'[s] = after /\ \A c \in Submissions : c # s => sub'[c] = sub[c]
    BY <1>3 DEF TypeOK
  <2> HIDE DEF after
  <2>2. ClaimsKept
    BY <1>2, <2>1 DEF ClaimsKept
  <2> QED BY <1>2, <1>3, <2>1, <2>2, CallStep
<1>4. CASE /\ sub' = [sub EXCEPT ![s] = [after EXCEPT !.claimed = TRUE]]
           /\ marker' = [marker EXCEPT ![sub[s].tok] = EndOf(s, now)]
  <2>1. /\ sub'[s] = [after EXCEPT !.claimed = TRUE]
        /\ \A c \in Submissions : c # s => sub'[c] = sub[c]
    BY <1>4 DEF TypeOK
  <2> HIDE DEF after
  <2>2. /\ sub'[s].claimed /\ sub'[s].tok = sub[s].tok
        /\ sub'[s].pc \in {"timed", "unavailable"}
    BY <1>2, <2>1 DEF SubRecord
  <2>3. ClaimsKept
    BY <2>1, <2>2 DEF ClaimsKept
  <2>4. \A u \in Tokens : marker'[u] # 0 => marker[u] # 0 \/ u = sub[s].tok
    BY <1>4 DEF TypeOK
  <2> QED BY <2>1, <2>2, <2>3, <2>4, CallStep
<1> QED BY <1>3, <1>4 DEF CommandLost, ReplyLost

LEMMA RestartKeepsCInv ==
  ASSUME TypeOK, CInv, NEW n \in Nodes, Restart(n)
  PROVE  CInv'
<1>1. \A t \in Tokens : marker'[t] # 0 => marker[t] # 0
  BY DEF Restart
<1>2. ASSUME NEW s \in Submissions
      PROVE  /\ sub'[s].tok = sub[s].tok /\ sub'[s].claimed = sub[s].claimed
             /\ sub'[s].pc = sub[s].pc \/ sub'[s].pc = "dropped"
  <2>1. sub[s] \in SubRecord
    BY DEF TypeOK
  <2>2. sub'[s] = IF sub[s].node = n /\ sub[s].pc \in {"checked", "timed"}
                  THEN Returned(sub[s], "dropped") ELSE sub[s]
    BY DEF Restart
  <2>3. /\ Returned(sub[s], "dropped").pc = "dropped"
        /\ Returned(sub[s], "dropped").tok = sub[s].tok
        /\ Returned(sub[s], "dropped").claimed = sub[s].claimed
    BY <2>1, ReturnedType DEF Answers
  <2> QED BY <2>2, <2>3
<1>3. ClaimsKept
  BY <1>2 DEF ClaimsKept
<1>4. MarkedMeansClaimed'
  BY <1>1, <1>3, ClaimantsStay DEF CInv, MarkedMeansClaimed
<1>5. IdleUnclaimed'
  BY <1>2 DEF CInv, IdleUnclaimed
<1>6. ConflictMeansClaimed'
  BY <1>2 DEF CInv, ConflictMeansClaimed
<1> QED BY <1>4, <1>5, <1>6 DEF CInv

LEMMA StepKeepsCInv == TypeOK /\ CInv /\ [Next]_vars => CInv'
<1> SUFFICES ASSUME TypeOK, CInv, [Next]_vars PROVE CInv'
  OBVIOUS
<1>1. CASE sub' = sub /\ marker' = marker
  BY <1>1 DEF CInv, MarkedMeansClaimed, Claimant, IdleUnclaimed, ConflictMeansClaimed
<1>2. ASSUME NEW n \in Nodes, NEW t \in Tokens, NEW i \in Callers,
             NEW s \in Submissions, Submit(s, n, t, i)
      PROVE  CInv'
  BY <1>2, SubmitKeepsCInv
<1>3. ASSUME NEW s \in Submissions, ComputeTtl(s) PROVE CInv'
  BY <1>3, ComputeTtlKeepsCInv
<1>4. ASSUME NEW s \in Submissions, Claim(s) PROVE CInv'
  BY <1>4, MemoryClaimKeepsCInv, RedisClaimKeepsCInv, FaultKeepsCInv DEF Claim
<1>5. ASSUME NEW n \in Nodes, Restart(n) PROVE CInv'
  BY <1>5, RestartKeepsCInv
<1> QED BY <1>1, <1>2, <1>3, <1>4, <1>5 DEF Next, Tick, Issue, vars

(***************************************************************************)
(* The two replay stores never answer REVIEW_CONFLICT for a token nobody   *)
(* has claimed, for any number of submissions, retries, lost commands and  *)
(* restarts: an unreachable Redis is an error and not a "no"               *)
(* (RedisReplayStore.try_consume, verify_and_consume).                     *)
(***************************************************************************)
THEOREM ConflictIsHonest == Spec => []ConflictMeansClaimed
<1>1. IInv => TypeOK
  BY DEF IInv
<1>2. CInv => ConflictMeansClaimed
  BY DEF CInv
<1> QED BY <1>1, <1>2, IInvHolds, InitCInv, StepKeepsCInv, PTL DEF Spec

-----------------------------------------------------------------------------
(***************************************************************************)
(* The issuer implements the redeemable token of Redemption.  In addition  *)
(* to one use, this needs that a call past its checks is its token's       *)
(* owner's, or that the token is anybody's (Owning).                       *)
(***************************************************************************)
Owned(s) == sub[s].pc \in {"checked", "timed", "accepted"} => token[sub[s].tok].owner \in {Nobody, sub[s].who}
Owning == \A s \in Submissions : Owned(s)

\* Nobody wins: a call that was not accepted goes on, or ends, without being so.
Unwon(s) == \/ sub'[s] = sub[s]
            \/ sub[s].pc # "accepted" /\ sub'[s].pc # "accepted" /\ Owned(s)'
NobodyWins == UNCHANGED <<issued, token>> /\ \A s \in Submissions : Unwon(s)

\* Or one call does.
Wins(s) == /\ UNCHANGED <<issued, token>>
           /\ \A c \in Submissions : c # s => sub'[c] = sub[c]
           /\ sub[s].pc = "timed" /\ sub'[s].pc = "accepted"
           /\ sub'[s].tok = sub[s].tok /\ sub'[s].who = sub[s].who

LEMMA SubmitUnwon ==
  ASSUME TypeOK, NEW s \in Submissions, NEW n \in Nodes, NEW t \in Tokens, NEW i \in Callers,
         Submit(s, n, t, i)
  PROVE  NobodyWins
<1> DEFINE call == [NoCall EXCEPT !.pc = "checked", !.tok = t, !.node = n, !.who = i]
<1>1. call \in SubRecord /\ call.pc = "checked" /\ call.tok = t /\ call.who = i
  BY NodesAndTokens DEF SubRecord, States
<1>2. /\ sub[s].pc = "idle" /\ UNCHANGED <<issued, token>>
      /\ sub'[s] = IF Verdict(n, t, i) = "checked" THEN call ELSE Returned(call, Verdict(n, t, i))
      /\ \A c \in Submissions : c # s => sub'[c] = sub[c]
  BY DEF Submit, TypeOK
<1> HIDE DEF call
<1>3. CASE Verdict(n, t, i) = "checked"
  <2>1. token[t].owner \in {Nobody, i}
    <3> SUFFICES ASSUME token[t].owner \notin {Nobody, i} PROVE FALSE   OBVIOUS
    <3>1. now \in Nat /\ token[t].exp \in Nat   BY DEF TypeOK, TokenRecord
    <3>2. CASE now <= token[t].exp
      <4>1. ~(now > token[t].exp)   BY <3>1, <3>2
      <4> QED BY <1>3, <3>2, <4>1 DEF Verdict
    <3>3. CASE now > token[t].exp   BY <1>3, <3>3 DEF Verdict
    <3> QED BY <3>1, <3>2, <3>3
  <2>2. Owned(s)'   BY <1>1, <1>2, <1>3, <2>1 DEF Owned
  <2> QED BY <1>1, <1>2, <1>3, <2>2 DEF NobodyWins, Unwon
<1>4. CASE Verdict(n, t, i) # "checked"
  <2>1. Verdict(n, t, i) \in {"invalid", "expired"}   BY <1>4 DEF Verdict
  <2>2. \A answer \in {"invalid", "expired"} : Returned(call, answer).pc = answer
    <3>1. {"invalid", "expired"} \subseteq Answers   BY DEF Answers
    <3> QED BY <1>1, <3>1, ReturnedType
  <2>3. sub'[s].pc \in {"invalid", "expired"}   BY <1>2, <1>4, <2>1, <2>2
  <2> QED BY <1>2, <2>3 DEF NobodyWins, Unwon, Owned
<1> QED BY <1>3, <1>4

LEMMA ComputeTtlUnwon ==
  ASSUME TypeOK, Owning, NEW s \in Submissions, ComputeTtl(s)
  PROVE  NobodyWins
<1>1. /\ sub[s].pc = "checked" /\ sub'[s].pc = "timed" /\ UNCHANGED <<issued, token>>
      /\ sub'[s].tok = sub[s].tok /\ sub'[s].who = sub[s].who
      /\ \A c \in Submissions : c # s => sub'[c] = sub[c]
  BY DEF ComputeTtl, TypeOK, SubRecord
<1> QED BY <1>1 DEF NobodyWins, Unwon, Owned, Owning

LEMMA RefusedUnwon ==
  ASSUME TypeOK, NEW s \in Submissions, sub[s].pc = "timed", Refused(s), UNCHANGED <<issued, token>>
  PROVE  NobodyWins
<1>1. /\ sub'[s] = Returned(sub[s], "conflict") /\ sub[s] \in SubRecord
      /\ \A c \in Submissions : c # s => sub'[c] = sub[c]
  BY DEF Refused, TypeOK
<1>2. Returned(sub[s], "conflict").pc = "conflict"   BY <1>1, ReturnedType DEF Answers
<1>3. sub'[s].pc = "conflict"   BY <1>1, <1>2
<1> QED BY <1>1, <1>3 DEF NobodyWins, Unwon, Owned

LEMMA WonWins ==
  ASSUME TypeOK, NEW s \in Submissions, sub[s].pc = "timed", Won(s), UNCHANGED <<issued, token>>
  PROVE  Wins(s)
<1>1. /\ sub'[s] = [Returned(sub[s], "accepted") EXCEPT
                      !.claimed = TRUE, !.inTime = now <= token[sub[s].tok].exp]
      /\ sub[s] \in SubRecord
      /\ \A c \in Submissions : c # s => sub'[c] = sub[c]
  BY DEF Won, TypeOK
<1>2. /\ Returned(sub[s], "accepted") \in SubRecord
      /\ Returned(sub[s], "accepted").pc = "accepted"
      /\ Returned(sub[s], "accepted").tok = sub[s].tok
      /\ Returned(sub[s], "accepted").who = sub[s].who
  BY <1>1, ReturnedType DEF Answers
<1>3. sub'[s].pc = "accepted" /\ sub'[s].tok = sub[s].tok /\ sub'[s].who = sub[s].who
  BY <1>1, <1>2 DEF SubRecord
<1> QED BY <1>1, <1>3 DEF Wins

LEMMA FaultUnwon ==
  ASSUME TypeOK, Owning, NEW s \in Submissions, CommandLost(s) \/ ReplyLost(s)
  PROVE  NobodyWins
<1> DEFINE after == AfterError(sub[s], "unavailable")
<1>1. sub[s] \in SubRecord /\ sub[s].pc = "timed" /\ UNCHANGED <<issued, token>>
  BY DEF TypeOK, CommandLost, ReplyLost
<1>2. /\ after \in SubRecord /\ after.pc \in {"timed", "unavailable"}
      /\ after.tok = sub[s].tok /\ after.who = sub[s].who
  <2>1. CASE sub[s].tries < RetryLimit   BY <1>1, <2>1 DEF AfterError, SubRecord
  <2>2. CASE ~(sub[s].tries < RetryLimit)   BY <1>1, <2>2, ReturnedType DEF AfterError, Answers
  <2> QED BY <2>1, <2>2
<1>3. /\ sub'[s] = after \/ sub'[s] = [after EXCEPT !.claimed = TRUE]
      /\ \A c \in Submissions : c # s => sub'[c] = sub[c]
  BY DEF CommandLost, ReplyLost, TypeOK
<1> HIDE DEF after
<1>4. sub'[s].pc \in {"timed", "unavailable"} /\ sub'[s].tok = sub[s].tok /\ sub'[s].who = sub[s].who
  BY <1>2, <1>3 DEF SubRecord
<1> QED BY <1>1, <1>3, <1>4 DEF NobodyWins, Unwon, Owned, Owning

LEMMA ClaimsSettle ==
  ASSUME TypeOK, Owning, NEW s \in Submissions, Claim(s)
  PROVE  NobodyWins \/ Wins(s)
<1>1. CASE MemoryClaim(s) \/ RedisClaim(s)
  <2>1. sub[s].pc = "timed" /\ UNCHANGED <<issued, token>> /\ (Refused(s) \/ Won(s))
    BY <1>1 DEF MemoryClaim, RedisClaim
  <2> QED BY <2>1, RefusedUnwon, WonWins
<1> QED BY <1>1, FaultUnwon DEF Claim

LEMMA RestartUnwon ==
  ASSUME TypeOK, NEW n \in Nodes, Restart(n)
  PROVE  NobodyWins
<1>1. ASSUME NEW s \in Submissions PROVE Unwon(s)
  <2>1. /\ sub[s] \in SubRecord
        /\ sub'[s] = IF sub[s].node = n /\ sub[s].pc \in {"checked", "timed"}
                     THEN Returned(sub[s], "dropped") ELSE sub[s]
    BY DEF TypeOK, Restart
  <2>2. Returned(sub[s], "dropped").pc = "dropped"   BY <2>1, ReturnedType DEF Answers
  <2>3. sub'[s] = sub[s] \/ (sub[s].pc \in {"checked", "timed"} /\ sub'[s].pc = "dropped")   BY <2>1, <2>2
  <2> QED BY <2>3 DEF Unwon, Owned
<1> QED BY <1>1 DEF NobodyWins, Restart

\* A step issues a token, or a call wins, or nobody does.
Issues(t, i) == /\ t \notin issued /\ issued' = issued \cup {t} /\ UNCHANGED sub
                /\ token'[t].owner = i /\ \A u \in Tokens : u # t => token'[u] = token[u]

LEMMA EveryStep ==
  ASSUME TypeOK, Owning, [Next]_vars
  PROVE  \/ NobodyWins
         \/ \E s \in Submissions : Wins(s)
         \/ \E t \in Tokens, i \in Callers : Issues(t, i)
<1>1. ASSUME NEW n \in Nodes, NEW t \in Tokens, NEW i \in Callers, Issue(n, t, i) PROVE Issues(t, i)
  BY <1>1 DEF Issue, Issues, TypeOK
<1>2. CASE Tick \/ UNCHANGED vars   BY <1>2 DEF Tick, vars, NobodyWins, Unwon
<1> QED BY <1>1, <1>2, SubmitUnwon, ComputeTtlUnwon, ClaimsSettle, RestartUnwon DEF Next

LEMMA OwningKept == IInv /\ Owning /\ [Next]_vars => Owning'
<1> SUFFICES ASSUME IInv, Owning, [Next]_vars, NEW s \in Submissions PROVE Owned(s)'   BY DEF Owning
<1>0. TypeOK /\ Owned(s)   BY DEF IInv, Owning
<1>1. CASE NobodyWins   BY <1>0, <1>1 DEF NobodyWins, Unwon, Owned
<1>2. ASSUME NEW c \in Submissions, Wins(c) PROVE Owned(s)'   BY <1>0, <1>2 DEF Wins, Owned
<1>3. ASSUME NEW t \in Tokens, NEW i \in Callers, Issues(t, i) PROVE Owned(s)'
  <2>1. sub'[s] = sub[s]   BY <1>3 DEF Issues
  <2>2. sub[s].pc # "idle" => sub[s].tok # t /\ sub[s].tok \in Tokens   BY <1>0, <1>3 DEF IInv, Minted, Issues, TypeOK
  <2> QED BY <1>0, <1>3, <2>1, <2>2 DEF Owned, Issues
<1> QED BY <1>0, <1>1, <1>2, <1>3, EveryStep DEF Owning

-----------------------------------------------------------------------------
InTime == {a \in Accepted : sub[a].inTime}
Issuance == {[token |-> t, owner |-> token[t].owner] : t \in issued}
Use(s) == [token |-> sub[s].tok, use |-> s, who |-> sub[s].who]
Redemptions == {Use(s) : s \in InTime}

LEMMA RedemptionMoves ==
  IInv /\ Owning /\ Sheltered /\ IInv' /\ Sheltered' /\ [Next]_vars => [Redeeming!Next]_<<Issuance, Redemptions>>
<1> SUFFICES ASSUME IInv, Owning, IInv', Sheltered', [Next]_vars
             PROVE  Redeeming!Next \/ (Issuance' = Issuance /\ Redemptions' = Redemptions)
  OBVIOUS
<1>0. TypeOK   BY DEF IInv
<1>1. CASE NobodyWins
  <2>1. InTime' = InTime /\ \A s \in InTime : sub'[s] = sub[s]   BY <1>1 DEF NobodyWins, Unwon, InTime, Accepted
  <2>2. Redemptions' = Redemptions   BY <2>1 DEF Redemptions, Use
  <2>3. Issuance' = Issuance   BY <1>1 DEF NobodyWins, Issuance
  <2> QED BY <2>2, <2>3
<1>2. ASSUME NEW s \in Submissions, Wins(s)
      PROVE  Redeeming!Next \/ (Issuance' = Issuance /\ Redemptions' = Redemptions)
  <2>1. /\ \A c \in InTime : sub'[c] = sub[c] /\ c \in InTime' /\ c # s
        /\ InTime' \subseteq InTime \cup {s}
    BY <1>2 DEF Wins, InTime, Accepted
  <2>2. Issuance' = Issuance   BY <1>2 DEF Wins, Issuance
  <2>3. CASE s \notin InTime'
    <3>1. InTime' = InTime   BY <2>1, <2>3
    <3> QED BY <2>1, <2>2, <3>1 DEF Redemptions, Use
  <2>4. CASE s \in InTime'
    <3>1. PICK t \in Tokens, who \in Callers : t = sub[s].tok /\ who = sub[s].who   BY <1>0 DEF TypeOK, SubRecord
    <3>2. InTime' = InTime \cup {s} /\ Use(s)' = [token |-> t, use |-> s, who |-> who]
      BY <1>2, <2>1, <2>4, <3>1 DEF Wins, Use
    <3>3. \A c \in InTime : Use(c)' = Use(c)   BY <2>1 DEF Use
    <3>4. Redemptions' = Redemptions \cup {[token |-> t, use |-> s, who |-> who]}
      BY <3>2, <3>3 DEF Redemptions
    <3>5. \E i \in Issuance : i.token = t /\ i.owner \in {Nobody, who}
      <4>1. PICK i : i = [token |-> t, owner |-> token[t].owner]   OBVIOUS
      <4>2. t \in issued /\ token[t].owner \in {Nobody, who}
        BY <1>2, <3>1 DEF Wins, Owning, Owned, IInv, Minted
      <4> QED BY <4>1, <4>2 DEF Issuance
    <3>6. \A c \in InTime : sub[c].tok # t
      <4> SUFFICES ASSUME NEW c \in InTime, sub[c].tok = t PROVE FALSE   OBVIOUS
      <4>1. c # s /\ c \in Accepted' /\ s \in Accepted' /\ sub'[c].inTime /\ sub'[s].inTime
        BY <2>1, <2>4 DEF InTime
      <4>2. sub'[c].tok = sub'[s].tok   BY <1>2, <2>1, <3>1 DEF Wins
      <4> QED BY <4>1, <4>2 DEF IInv, OneUseWhileValid
    <3>7. \A d \in Redemptions : d.token # t /\ d.use # s   BY <2>1, <3>6 DEF Redemptions, Use
    <3>8. Redeeming!Redeem(t, s, who)
      BY <2>2, <3>4, <3>5, <3>7 DEF Redeeming!Redeem, Issuance, Redemptions, InTime, Use
    <3> QED BY <3>8, Zenon DEF Redeeming!Next
  <2> QED BY <2>3, <2>4
<1>3. ASSUME NEW t \in Tokens, NEW i \in Callers, Issues(t, i) PROVE Redeeming!Next
  <2>1. Redemptions' = Redemptions   BY <1>3 DEF Issues, Redemptions, InTime, Accepted, Use
  <2>2. Issuance' = Issuance \cup {[token |-> t, owner |-> i]}   BY <1>0, <1>3 DEF Issues, Issuance, TypeOK
  <2>3. \A j \in Issuance : j.token # t   BY <1>3 DEF Issues, Issuance
  <2>4. Redeeming!Issue(t, i)
    BY <2>1, <2>2, <2>3 DEF Redeeming!Issue, Issuance, Redemptions, InTime, Use
  <2> QED BY <2>4, Zenon DEF Redeeming!Next
<1> QED BY <1>0, <1>1, <1>2, <1>3, EveryStep

(***************************************************************************)
(* Both replay stores implement the redeemable token for any number of     *)
(* instances, submissions, retries, lost commands and restarts: while its  *)
(* token is alive a use is accepted once, after the token was issued, and  *)
(* of its owner.  The hypothesis excludes the deployment whose restart     *)
(* revives spent tokens (verify_and_consume).                              *)
(***************************************************************************)
THEOREM ImplementsRedemption == Spec /\ []Sheltered => RedeemedAsPromised
<1>1. Init => Redeeming!Init /\ Owning
  BY DEF Init, Redeeming!Init, Owning, Owned, NoCall, Accepted
<1>2. IInv /\ Owning /\ Sheltered /\ IInv' /\ Sheltered' /\ [Next]_vars
        => [Redeeming!Next]_<<Issuance, Redemptions>>
  BY RedemptionMoves
<1>3. IInv /\ Owning /\ [Next]_vars => Owning'   BY OwningKept
<1> QED BY <1>1, <1>2, <1>3, IInvHolds, PTL
  DEF Spec, RedeemedAsPromised, Redeeming!Spec, Redeeming!vars, Issuance, Redemptions, InTime, Use
-----------------------------------------------------------------------------
\* In memory no claim is made whose answer the call does not see.
ClaimedIsAccepted == ~Shared => \A s \in Submissions : sub[s].claimed => sub[s].pc = "accepted"

LEMMA ClaimedIsAcceptedKept == IInv /\ CInv /\ ClaimedIsAccepted /\ [Next]_vars => ClaimedIsAccepted'
<1> SUFFICES ASSUME IInv, CInv, ClaimedIsAccepted, [Next]_vars, ~Shared', NEW s \in Submissions, sub'[s].claimed
             PROVE  sub'[s].pc = "accepted"
  BY DEF ClaimedIsAccepted
<1>0. ~Shared /\ TypeOK /\ (sub[s].claimed => sub[s].pc = "accepted")
  BY ZenonT(40) DEF Next, vars, Tick, Issue, Submit, ComputeTtl, Claim, MemoryClaim, RedisClaim, CommandLost, ReplyLost,
     Restart, Shared, IInv, ClaimedIsAccepted
<1>1. CASE sub'[s] = sub[s]   BY <1>0, <1>1
<1>2. ASSUME NEW n \in Nodes, NEW t \in Tokens, NEW i \in Callers, NEW c \in Submissions, Submit(c, n, t, i), c = s
      PROVE  FALSE
  <2> DEFINE call == [NoCall EXCEPT !.pc = "checked", !.tok = t, !.node = n, !.who = i]
  <2>1. call \in SubRecord /\ call.claimed = FALSE   BY NodesAndTokens DEF NoCall, SubRecord, States
  <2>2. sub'[s] = IF Verdict(n, t, i) = "checked" THEN call ELSE Returned(call, Verdict(n, t, i))
    BY <1>0, <1>2 DEF Submit, TypeOK
  <2> HIDE DEF call
  <2>3. CASE Verdict(n, t, i) = "checked"   BY <2>1, <2>2, <2>3
  <2>4. CASE Verdict(n, t, i) # "checked"
    <3>1. Verdict(n, t, i) \in Answers   BY <2>4 DEF Verdict, Answers
    <3>2. Returned(call, Verdict(n, t, i)).claimed = FALSE   BY <2>1, <3>1, ReturnedType
    <3>3. sub'[s] = Returned(call, Verdict(n, t, i))   BY <2>2, <2>4
    <3> QED BY <1>2, <3>2, <3>3
  <2> QED BY <2>3, <2>4
<1>3. ASSUME NEW c \in Submissions, ComputeTtl(c), c = s PROVE FALSE
  BY <1>0, <1>3 DEF ComputeTtl, TypeOK, SubRecord
<1>4. ASSUME NEW c \in Submissions, Claim(c), c = s PROVE sub'[s].pc = "accepted"
  <2>1. sub[s].pc = "timed" /\ (Refused(s) \/ Won(s))
    BY <1>0, <1>4 DEF Claim, MemoryClaim, RedisClaim, CommandLost, ReplyLost
  <2>2. CASE Won(s)   BY <1>0, <2>2, WonClaims
  <2>3. CASE Refused(s)
    <3>1. sub'[s] = Returned(sub[s], "conflict") /\ sub[s] \in SubRecord   BY <1>0, <2>3 DEF Refused, TypeOK
    <3>2. sub[s].claimed = FALSE /\ "conflict" \in Answers   BY <1>0, <2>1, <3>1 DEF Answers, SubRecord
    <3>3. Returned(sub[s], "conflict").claimed = FALSE   BY <3>1, <3>2, ReturnedType
    <3>4. ~sub'[s].claimed   BY <3>1, <3>3
    <3> QED BY <3>4
  <2> QED BY <2>1, <2>2, <2>3
<1>5. ASSUME NEW n \in Nodes, Restart(n), sub'[s] # sub[s] PROVE FALSE
  <2>1. sub[s].pc \in {"checked", "timed"} /\ sub'[s] = Returned(sub[s], "dropped") /\ sub[s] \in SubRecord
    BY <1>0, <1>5 DEF Restart, TypeOK
  <2>2. sub[s].claimed = FALSE /\ "dropped" \in Answers   BY <1>0, <2>1 DEF Answers, SubRecord
  <2>3. Returned(sub[s], "dropped").claimed = FALSE   BY <2>1, <2>2, ReturnedType
  <2>4. ~sub'[s].claimed   BY <2>1, <2>3
  <2> QED BY <2>4
<1>6. ASSUME NEW c \in Submissions, c # s, ComputeTtl(c) \/ Claim(c) \/ \E n \in Nodes, t \in Tokens, i \in Callers : Submit(c, n, t, i)
      PROVE  sub'[s] = sub[s]
  <2>1. CASE Claim(c)   BY <1>0, <1>6, <2>1 DEF Claim, MemoryClaim, RedisClaim, CommandLost, ReplyLost, Refused, Won, TypeOK
  <2> QED BY <1>0, <1>6, <2>1 DEF ComputeTtl, Submit, TypeOK
<1>7. CASE Tick \/ UNCHANGED vars \/ \E n \in Nodes, t \in Tokens, i \in Callers : Issue(n, t, i)
  BY <1>1, <1>7 DEF Tick, vars, Issue
<1> QED BY <1>1, <1>2, <1>3, <1>4, <1>5, <1>6, <1>7 DEF Next

(***************************************************************************)
(* With the in-memory store, "already submitted" means that another        *)
(* submission of the token claimed it: a call is never refused for its own *)
(* marker, as it is when a reply of Redis is lost                          *)
(* (InMemoryReplayStore.try_consume).                                      *)
(***************************************************************************)
THEOREM ConflictInMemoryMeansAnother == Spec /\ []~Shared => []ConflictMeansAnother
<1>1. Init => ClaimedIsAccepted   BY DEF Init, NoCall, ClaimedIsAccepted
<1>2. IInv => TypeOK   BY DEF IInv
<1>3. CInv /\ ClaimedIsAccepted /\ ~Shared => ConflictMeansAnother
  BY DEF CInv, ClaimedIsAccepted, ConflictMeansClaimed, ConflictMeansAnother
<1> QED BY <1>1, <1>2, <1>3, ClaimedIsAcceptedKept, IInvHolds, InitCInv, StepKeepsCInv, PTL DEF Spec
=============================================================================
