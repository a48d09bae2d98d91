------------------------------ MODULE AuditLog ------------------------------
(***************************************************************************)
(* The security audit log: emit() of api/audit/service.py, which pool      *)
(* threads call while they serve requests, the hash chain that storage.py  *)
(* keeps in SQLite, retention, the integrity check, and an auditor who     *)
(* pages through GET /audit and is audited for it.                         *)
(*                                                                         *)
(* An event is built, and its time taken, before the store's lock is       *)
(* taken: events are chained in another order than their times.  The store *)
(* is built by the first emit that needs it, outside any lock; lru_cache   *)
(* keeps the result of whoever finishes first.                             *)
(*                                                                         *)
(* Nothing in the program calls delete_older_than: retention is an action  *)
(* of the environment.  An event with a field longer than build_event      *)
(* allows is logged and changes nothing here.  The log is enabled, and so  *)
(* is authorization: its audited ALLOW comes before every page.            *)
(***************************************************************************)
EXTENDS Integers, SequencesExt

CONSTANTS Threads,       \* pool threads that emit events
          Auditor,       \* the request of the auditor, one at a time
          Deployments,   \* [keyed, events, faults, restarts, cleanups]: is
                         \* AUDIT_INTEGRITY_KEY configured; the rest bounds
                         \* the emits, the failures of the database, the
                         \* restarts and the retention runs
          PageSize,      \* the auditor's limit, under max_query_page_size
          RangeTicks,    \* max_query_range_days
          MaxTime        \* bound: the last tick

ASSUME AuditorApart == Auditor \notin Threads
ASSUME PoolFinite == IsFiniteSet(Threads)
ASSUME DeploymentsKnown ==
  Deployments \subseteq [keyed : BOOLEAN, events : Nat, faults : Nat, restarts : Nat,
                         cleanups : Nat]
ASSUME PagesNotEmpty == PageSize \in Nat \ {0} /\ RangeTicks \in Nat
ASSUME ClockStarts == MaxTime \in Nat \ {0}

VARIABLES deployment,\* the deployment, fixed
          now,       \* the clock
          cache,     \* what get_audit_store has cached: a key, or neither
          drawn,     \* keys drawn by secrets.token_bytes
          call,      \* per caller: its emit
          inserted,  \* every row ever inserted: its place is its seq
          kept,      \* the table: the seqs of the rows still there
          outcome,   \* per emit: what became of the event
          reader,    \* the auditor's paging
          cutoff,    \* history: the latest retention cutoff
          cleanups, restarts,
          faults     \* how often the store could not be opened, written or read

vars == <<deployment, now, cache, drawn, call, inserted, kept, outcome, reader, cutoff,
          cleanups, restarts, faults>>

Callers == Threads \cup {Auditor}
Uncached == -2
NoStore == -1
Open == cache >= 0

NoCall == [pc |-> "idle", n |-> 0, time |-> 0, key |-> NoStore]
NotReading == [pc |-> "idle", offset |-> 0, seen |-> {}, want |-> {}, failed |-> FALSE]

Init == /\ deployment \in Deployments
        /\ now = 1
        /\ cache = Uncached
        /\ drawn = 0
        /\ call = [c \in Callers |-> NoCall]
        /\ inserted = <<>> /\ kept = {} /\ outcome = <<>>
        /\ reader = NotReading
        /\ cutoff = 0 /\ cleanups = 0 /\ restarts = 0 /\ faults = 0

Tick == /\ now < MaxTime
        /\ now' = now + 1
        /\ UNCHANGED <<deployment, cache, drawn, call, inserted, kept, outcome, reader,
                       cutoff, cleanups, restarts, faults>>

-----------------------------------------------------------------------------
(***************************************************************************)
(* emit(): the store, the event, the row.                                  *)
(***************************************************************************)
Hash(key, prev, id, time) == <<key, prev, id, time>>
Genesis(key) == <<key>>

\* event_id is a fresh uuid4.
EventIdFromClock(e) == e.time
EventId(e) == e.n

\* build_event reads the clock.
Stamped(key) == [pc |-> "stamped", n |-> Len(outcome) + 1, time |-> now, key |-> key]

\* get_audit_store finds nothing cached and starts to build a store.
StartOpening(c) ==
  /\ call[c].pc = "idle"
  /\ cache = Uncached
  /\ Len(outcome) < deployment.events
  /\ drawn' = IF deployment.keyed THEN drawn ELSE drawn + 1
  /\ call' = [call EXCEPT ![c] = [pc |-> "opening", n |-> Len(outcome) + 1, time |-> 0,
                                  key |-> drawn']]
  /\ outcome' = Append(outcome, "pending")
  /\ UNCHANGED <<deployment, now, cache, inserted, kept, reader, cutoff, cleanups, restarts,
                 faults>>

\* What the cache holds once one more construction has ended with r.
Cached(r) == IF cache = Uncached THEN r ELSE cache

\* This caller goes on with the store it built itself, cached or not.
Opened(c) ==
  /\ call[c].pc = "opening"
  /\ cache' = Cached(call[c].key)
  /\ call' = [call EXCEPT ![c].pc = "stamped", ![c].time = now]
  /\ UNCHANGED <<deployment, now, drawn, inserted, kept, outcome, reader, cutoff, cleanups,
                 restarts, faults>>

OpeningFails(c) ==
  /\ call[c].pc = "opening"
  /\ cache' = Cached(NoStore)
  /\ outcome' = [outcome EXCEPT ![call[c].n] = "unopened"]
  /\ call' = [call EXCEPT ![c] = NoCall]
  /\ faults < deployment.faults
  /\ faults' = faults + 1
  /\ UNCHANGED <<deployment, now, drawn, inserted, kept, reader, cutoff, cleanups, restarts>>

Emit(c) ==
  /\ call[c].pc = "idle"
  /\ Open
  /\ Len(outcome) < deployment.events
  /\ call' = [call EXCEPT ![c] = Stamped(cache)]
  /\ outcome' = Append(outcome, "pending")
  /\ UNCHANGED <<deployment, now, cache, drawn, inserted, kept, reader, cutoff, cleanups,
                 restarts, faults>>

\* A construction that failed is cached too: emit returns, and nobody hears of it.
Dropped(c) ==
  /\ call[c].pc = "idle"
  /\ cache = NoStore
  /\ Len(outcome) < deployment.events
  /\ outcome' = Append(outcome, "dropped")
  /\ UNCHANGED <<deployment, now, cache, drawn, call, inserted, kept, cutoff, cleanups, restarts,
                 faults>>

EmitDropped(c) == Dropped(c) /\ UNCHANGED reader

LastHashOfFirst(key) == IF kept = {} THEN Genesis(key) ELSE inserted[Min(kept)].hash

\* _last_hash
LastHash(key) == IF kept = {} THEN Genesis(key) ELSE inserted[Max(kept)].hash

\* The row append() inserts; "after" is history, the row that was the last one.
Row(e) == [id |-> EventId(e), n |-> e.n, time |-> e.time, key |-> e.key, prev |-> LastHash(e.key),
           hash |-> Hash(e.key, LastHash(e.key), EventId(e), e.time),
           after |-> IF kept = {} THEN 0 ELSE Max(kept)]

\* event_id is UNIQUE.
Taken(e) == \E s \in kept : inserted[s].id = EventId(e)

AppendRow(c) ==
  /\ call[c].pc = "stamped"
  /\ ~Taken(call[c])
  /\ inserted' = Append(inserted, Row(call[c]))
  /\ kept' = kept \cup {Len(inserted) + 1}
  /\ outcome' = [outcome EXCEPT ![call[c].n] = "stored"]
  /\ call' = [call EXCEPT ![c] = NoCall]
  /\ UNCHANGED <<deployment, now, cache, drawn, reader, cutoff, cleanups, restarts, faults>>

AppendFailsAndRetries(c) ==
  /\ call[c].pc = "stamped"
  /\ faults < deployment.faults
  /\ faults' = faults + 1
  /\ outcome' = [outcome EXCEPT ![call[c].n] = "lost"]
  /\ UNCHANGED <<deployment, now, cache, drawn, call, inserted, kept, reader, cutoff, cleanups,
                 restarts>>

\* The transaction is rolled back: a duplicate id, or the database fails.
AppendFails(c) ==
  /\ call[c].pc = "stamped"
  /\ outcome' = [outcome EXCEPT ![call[c].n] = "lost"]
  /\ call' = [call EXCEPT ![c] = NoCall]
  /\ IF Taken(call[c]) THEN UNCHANGED faults
     ELSE faults < deployment.faults /\ faults' = faults + 1
  /\ UNCHANGED <<deployment, now, cache, drawn, inserted, kept, reader, cutoff, cleanups, restarts>>

\* The process restarts: the cache and what was under way are gone.
Restart ==
  /\ restarts < deployment.restarts
  /\ restarts' = restarts + 1
  /\ cache' = Uncached
  /\ call' = [c \in Callers |-> NoCall]
  /\ outcome' = [i \in DOMAIN outcome |-> IF outcome[i] = "pending" THEN "lost" ELSE outcome[i]]
  /\ reader' = NotReading
  /\ UNCHANGED <<deployment, now, drawn, inserted, kept, cutoff, cleanups, faults>>

Expired(t) == {s \in kept : inserted[s].time < t}

\* delete_older_than
DeleteOlderThan(t) ==
  /\ cleanups < deployment.cleanups
  /\ Expired(t) # {}
  /\ cleanups' = cleanups + 1
  /\ kept' = kept \ Expired(t)
  /\ cutoff' = Max({cutoff, t})
  /\ UNCHANGED <<deployment, now, cache, drawn, call, inserted, outcome, reader, restarts, faults>>

-----------------------------------------------------------------------------
(***************************************************************************)
(* The integrity check and the auditor.                                    *)
(***************************************************************************)
\* ORDER BY seq ASC: the row that comes before row s, 0 at the first.
Before(s) == IF {u \in kept : u < s} = {} THEN 0 ELSE Max({u \in kept : u < s})

BadUnlinked(key, s) ==
  inserted[s].hash # Hash(key, inserted[s].prev, inserted[s].id, inserted[s].time)

\* Is this a row where verify_integrity stops?  The first row's prev is trusted.
Bad(key, s) ==
  LET r == inserted[s]
  IN \/ Before(s) # 0 /\ r.prev # inserted[Before(s)].hash
     \/ r.hash # Hash(key, r.prev, r.id, r.time)

\* The rows that verify_integrity of the store would report under a key.  Its caller in
\* service.py answers PASS where there is no store and FAIL where it cannot be read.
BadRows(key) == {s \in kept : Bad(key, s)}
Passes == BadRows(cache) = {}

InRange(s) == inserted[s].time >= now - RangeTicks

QueryOldestFirst(limit, offset) ==
  LET rows == {s \in kept : InRange(s)}
  IN {s \in rows : Cardinality({u \in rows : u < s}) \in offset..(offset + limit - 1)}

\* AuditStore.query as the route calls it, without filters: ORDER BY seq DESC.
Query(limit, offset) ==
  LET rows == {s \in kept : InRange(s)}
  IN {s \in rows : Cardinality({u \in rows : u > s}) \in offset..(offset + limit - 1)}

\* What a page leaves the auditor with, who asks on from where the last page ended
\* until one is short; "failed" is history: nobody looked in the table for it.
Paged(page, failed) ==
  LET first == reader.pc # "reading"
      short == Cardinality(page) < PageSize
  IN reader' = [pc |-> IF short THEN "done" ELSE "reading",
                offset |-> IF short THEN 0 ELSE reader.offset + Cardinality(page),
                seen |-> page \cup (IF first THEN {} ELSE reader.seen),
                want |-> IF first THEN {s \in kept : InRange(s)}
                         ELSE {s \in reader.want \cap kept : InRange(s)},
                failed |-> failed]

\* The route answers 200 and the page, and audits the access, result SUCCESS.  The
\* permission check before it has emitted its ALLOW, so the store's cache is filled.
AccessAudited ==
  /\ call[Auditor].pc = "idle"
  /\ Open
  /\ Len(outcome) < deployment.events
  /\ call' = [call EXCEPT ![Auditor] = Stamped(cache)]
  /\ outcome' = Append(outcome, "pending")
  /\ UNCHANGED <<deployment, now, cache, drawn, inserted, kept, cutoff, cleanups, restarts>>

ReadPage == Paged(Query(PageSize, reader.offset), FALSE) /\ AccessAudited /\ UNCHANGED faults

\* The SELECT fails: service.query makes an empty list of it.
ReadFails ==
  /\ faults < deployment.faults
  /\ faults' = faults + 1
  /\ Paged({}, TRUE)
  /\ AccessAudited

\* So it does where there is no store, which drops the audit of the access as well.
ReadNothing == Dropped(Auditor) /\ Paged({}, TRUE)

-----------------------------------------------------------------------------
Next == \/ Tick
        \/ Restart
        \/ ReadPage
        \/ ReadFails
        \/ ReadNothing
        \/ \E t \in 1..now : DeleteOlderThan(t)
        \/ \E c \in Threads : StartOpening(c) \/ Opened(c) \/ OpeningFails(c)
        \/ \E c \in Threads : Emit(c) \/ EmitDropped(c)
        \/ \E c \in Callers : AppendRow(c) \/ AppendFails(c)

Spec == Init /\ [][Next]_vars

-----------------------------------------------------------------------------
\* The types of the variables; the events not decided yet are those of the calls.
TypeOK ==
  /\ now \in 1..MaxTime /\ faults \in 0..deployment.faults
  /\ cache \in {Uncached, NoStore} \cup 0..drawn
  /\ \A c \in Callers : /\ call[c].pc \in {"idle", "opening", "stamped"}
                        /\ call[c].n \in 0..Len(outcome)
                        /\ call[c].time \in 0..now
  /\ kept \subseteq DOMAIN inserted
  /\ \A s \in DOMAIN inserted : inserted[s].after \in 0..(s - 1)
  /\ outcome \in Seq({"pending", "stored", "lost", "unopened", "dropped"})
  /\ {n \in DOMAIN outcome : outcome[n] = "pending"} = {call[c].n : c \in Callers} \ {0}
  /\ reader.pc \in {"idle", "reading", "done"} /\ reader.offset \in Nat

\* verify_integrity raises an alarm at a row only if the row was hashed under
\* another key than the cached one, or rows between it and the one before it
\* have been deleted: interleaved appends, out-of-order times and retention that
\* takes the oldest rows cause none (storage.py:237).
AlarmMeansHoleOrKeyChange ==
  Open => \A s \in BadRows(cache) : \/ inserted[s].key # cache
                                    \/ Before(s) \notin {0, s - 1}

\* When the check passes, every row but the first still follows the row that was
\* the last one when it was appended, and is of this key: no row was cut out of
\* the middle, whatever was deleted and restarted (storage.py:253).
PassMeansUncut ==
  Open /\ Passes => \A s \in kept : /\ inserted[s].key = cache
                                    /\ Before(s) # 0 => inserted[s].after = Before(s)

\* No event goes without a cause, and no cause takes more than its own: a failure of
\* the database loses one event, a restart those under way, and an event is dropped
\* unseen only after the construction of the store failed for an earlier one.  A stored
\* event leaves the table only when it is older than what retention was asked to delete
\* (service.py:62, storage.py:148: fully persisted or not at all, never overwritten).
LossesHaveACause ==
  /\ Cardinality({n \in DOMAIN outcome : outcome[n] \in {"lost", "unopened"}})
       <= faults + restarts * Cardinality(Callers)
  /\ \A n \in DOMAIN outcome :
       /\ outcome[n] = "dropped" => \E m \in 1..(n - 1) : outcome[m] = "unopened"
       /\ outcome[n] = "stored" =>
            \E s \in DOMAIN inserted : /\ inserted[s].n = n
                                       /\ s \in kept \/ inserted[s].time < cutoff

\* An auditor who has paged to the end, that is, to a short page, has seen every event
\* that was in range when the paging began and still is, although events came in and
\* the oldest went meanwhile, but for two causes: an event of a later seq carries an
\* earlier time, or the short page was none, because the database failed or a failed
\* construction of the store is cached; the answer does not tell (service.py:103).
MissedOnlyForACause ==
  reader.pc = "done" =>
    \/ reader.failed /\ faults > 0
    \/ \A s \in reader.want \ reader.seen :
         \E u \in DOMAIN inserted : u > s /\ inserted[u].time < inserted[s].time

\* Within one process, with nothing deleted, the chain verifies: with no key
\* configured one "per process" is generated and the chain is "verifiable only
\* within that process's lifetime" (audit/config.py:44-46).
OneProcessVerifies == restarts = 0 /\ cleanups = 0 /\ Open => Passes

\* With a configured key the integrity check never fails on a log nobody tampered
\* with, retention included: storage.py:237-244 calls the boundary expected,
\* "rather than reporting a false tamper alarm".
RetentionRaisesNoAlarm == deployment.keyed /\ Open => Passes
=============================================================================
