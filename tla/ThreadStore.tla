---------------------------- MODULE ThreadStore ----------------------------
(***************************************************************************)
(* One ThreadDO and its objects in the R2 bucket: appending a message,     *)
(* tiering bodies out to R2 (sweep, relieve, alarm), reading a message     *)
(* (get) and deleting one for good (remove and its callers).               *)
(*                                                                         *)
(* A Durable Object runs one event at a time, so every synchronous stretch *)
(* of a method is one step; other events run only where a method awaits.   *)
(* The awaits that matter here are the R2 calls: each put, get and delete  *)
(* is a step of its own, and everything below may happen between two.      *)
(*                                                                         *)
(* Sizes are counted in hot bodies: High and Low are the watermarks of     *)
(* #highWatermarkBytes and #lowWatermarkBytes in that unit.                *)
(*                                                                         *)
(* An operator named Bug... is a wrong version of the one after it, and    *)
(* shows that the properties notice the difference.                        *)
(***************************************************************************)
EXTENDS Integers, FiniteSets

CONSTANTS
    Msgs,      \* message ids, numbered in the order of received_at
    Legacy,    \* messages that may be old ones, already archived, that the
               \* backfill appends
    Sweepers,  \* activities that run sweep: alarm() and the operator's calls
    Alarm,     \* the member of Sweepers that is the alarm handler
    Readers,   \* concurrent calls of get()
    Purgers,   \* callers of remove() that then delete the keys it returned
    High, Low, \* watermarks, in hot bodies
    Budget,    \* RELIEF_BUDGET: bodies shed by one relief run
    Batch,     \* SWEEP_BATCH: bodies one sweep selects
    MaxFaults  \* bound on crashes, failed calls and lost objects

ASSUME MsgsAssumption == Msgs \subseteq Nat /\ IsFiniteSet(Msgs) /\ Legacy \subseteq Msgs
ASSUME AlarmAssumption == Alarm \in Sweepers
ASSUME WatermarkAssumption == Low \in Nat /\ High \in Nat /\ Low < High
ASSUME BoundsAssumption ==
    Budget \in Nat \ {0} /\ Batch \in Nat \ {0} /\ MaxFaults \in Nat

VARIABLES
    agePolicy, \* ARCHIVE_AFTER_DAYS > 0
    stage,     \* a message's life: "new", "put" (blobs stored), "row", "gone"
    hot,       \* messages whose body columns hold the body
    archived,  \* messages whose archived_at and body_r2_key are set
    r2,        \* the bucket: pairs of a message and "raw" or "body"
    alarmSet,  \* an alarm is scheduled
    sweeps,    \* the sweep each sweeper is running
    reads,     \* the get() each reader is running
    purges,    \* the keys each purger still has to delete
    faults,    \* crashes, failures and losses so far
    lost,      \* history: messages whose body.json was lost
    leaked,    \* history: objects a purger had still to delete when it died
    raced      \* history: messages removed while half swept

sql == <<stage, hot, archived>>
history == <<lost, leaked, raced>>
vars == <<agePolicy, stage, hot, archived, r2, alarmSet, sweeps, reads,
          purges, faults, lost, leaked, raced>>

Kinds == {"raw", "body"}
NoMsg == -1

Sweep == [pc: {"idle", "put", "mark"}, goal: Nat, done: Nat,
          todo: SUBSET Msgs, cur: Msgs \cup {NoMsg}, aging: BOOLEAN]
IdleSweep == [pc |-> "idle", goal |-> 0, done |-> 0, todo |-> {},
              cur |-> NoMsg, aging |-> FALSE]

Read == [pc: {"idle", "body", "raw", "empty"}, msg: Msgs \cup {NoMsg}]
IdleRead == [pc |-> "idle", msg |-> NoMsg]

Purge == [msg: Msgs \cup {NoMsg}, keys: SUBSET Kinds]

\* Every variable has its type.
TypeOK ==
    /\ agePolicy \in BOOLEAN
    /\ stage \in [Msgs -> {"new", "put", "row", "gone"}]
    /\ hot \subseteq Msgs /\ archived \subseteq Msgs
    /\ r2 \subseteq Msgs \X Kinds
    /\ alarmSet \in BOOLEAN
    /\ sweeps \in [Sweepers -> Sweep]
    /\ reads \in [Readers -> Read]
    /\ purges \in [Purgers -> Purge]
    /\ faults \in 0..MaxFaults
    /\ lost \subseteq Msgs /\ leaked \subseteq (Msgs \cup {NoMsg}) \X Kinds /\ raced \subseteq Msgs

\* The objects of an old message are in the bucket before the backfill runs.
Init ==
    /\ agePolicy \in BOOLEAN
    /\ \E old \in SUBSET Legacy :
         /\ stage = [m \in Msgs |-> IF m \in old THEN "put" ELSE "new"]
         /\ r2 = old \X Kinds
    /\ hot = {} /\ archived = {}
    /\ alarmSet = FALSE
    /\ sweeps = [s \in Sweepers |-> IdleSweep]
    /\ reads = [r \in Readers |-> IdleRead]
    /\ purges = [p \in Purgers |-> [msg |-> NoMsg, keys |-> {}]]
    /\ faults = 0
    /\ lost = {} /\ leaked = {} /\ raced = {}

-----------------------------------------------------------------------------
(* Writing *)

\* ingest() and send() store the raw MIME and the files under a fresh prefix
\* before the thread hears of the message.
PutRaw(m) ==
    /\ stage[m] = "new"
    /\ stage' = [stage EXCEPT ![m] = "put"]
    /\ r2' = r2 \cup {<<m, "raw">>}
    /\ UNCHANGED <<agePolicy, hot, archived, alarmSet, sweeps, reads, purges,
                   faults, history>>

OverHigh(hotNow) == Cardinality(hotNow) >= High

\* #ensureAlarm: an alarm only under pressure or an age policy, and never
\* over one that is already scheduled.
EnsureAlarm(hotNow) == alarmSet' = (alarmSet \/ agePolicy \/ OverHigh(hotNow))

\* append(). The backfill hands over the archived_at and body_r2_key it found.
Append(m) ==
    /\ stage[m] = "put"
    /\ stage' = [stage EXCEPT ![m] = "row"]
    /\ LET old == {k \in {m} : <<k, "body">> \in r2}
       IN  hot' = hot \cup ({m} \ old) /\ archived' = archived \cup old
    /\ EnsureAlarm(hot')
    /\ UNCHANGED <<agePolicy, r2, sweeps, reads, purges, faults, history>>

-----------------------------------------------------------------------------
(* Tiering *)

Least(a, b) == IF a < b THEN a ELSE b

\* ORDER BY received_at LIMIT n: the n oldest messages of S, all of them if
\* there are fewer.
Batches(n, S) ==
    {T \in SUBSET S : /\ Cardinality(T) = Least(n, Cardinality(S))
                      /\ \A m \in T, k \in S \ T : m < k}

\* The sweep of the rows the SELECT returned; with none it is over.
Selected(goal, done, todo, aging) ==
    IF todo = {} THEN IdleSweep
    ELSE [pc |-> "put", goal |-> goal, done |-> done, todo |-> todo,
          cur |-> NoMsg, aging |-> aging]

\* The rows sweep(cutoff) selects: still hot and received before the cutoff.
Aged(cutoff, hotNow) == Batches(Batch, {m \in hotNow : m < cutoff})

\* relieve(): nothing under the high watermark, otherwise a run sized up front.
ReliefGoal(hotNow) == Least(Budget, Cardinality(hotNow) - Low)

StartRelief(s) ==
    LET goal == ReliefGoal(hot)
    IN  \E todo \in Batches(Least(Batch, goal), hot) :
          sweeps' = [sweeps EXCEPT ![s] = Selected(goal, 0, todo, FALSE)]

\* Trusts one run to be enough.
BugAfterRelief(armed, done) ==
    /\ sweeps' = [sweeps EXCEPT ![Alarm] = IdleSweep]
    /\ alarmSet' = (armed \/ agePolicy)

\* alarm() once relieve() has returned: the age policy's sweep and the next
\* daily alarm, or an alarm only while relief is unsettled and progresses.
AfterRelief(armed, done) ==
    \/ /\ agePolicy
       /\ \E cutoff \in Msgs : \E todo \in Aged(cutoff, hot') :
            /\ sweeps' = [sweeps EXCEPT ![Alarm] = Selected(0, 0, todo, TRUE)]
            /\ alarmSet' = (armed \/ todo = {})
    \/ /\ ~agePolicy
       /\ sweeps' = [sweeps EXCEPT ![Alarm] = IdleSweep]
       /\ alarmSet' = (armed \/ (Cardinality(hot') > Low /\ done > 0))

AlarmFires ==
    /\ alarmSet
    /\ sweeps[Alarm].pc = "idle"
    /\ UNCHANGED <<agePolicy, sql, r2, reads, purges, faults, history>>
    /\ \/ OverHigh(hot) /\ StartRelief(Alarm) /\ alarmSet' = FALSE
       \/ ~OverHigh(hot) /\ AfterRelief(FALSE, 0)

\* The operator's /__dev/pressure and /__dev/sweep call the same methods.
OperatorRelieves(s) ==
    /\ s # Alarm /\ sweeps[s].pc = "idle"
    /\ OverHigh(hot)
    /\ StartRelief(s)
    /\ UNCHANGED <<agePolicy, sql, r2, alarmSet, reads, purges, faults, history>>

OperatorSweeps(s, cutoff) ==
    /\ s # Alarm /\ sweeps[s].pc = "idle"
    /\ \E todo \in Aged(cutoff, hot) :
         sweeps' = [sweeps EXCEPT ![s] = Selected(0, 0, todo, TRUE)]
    /\ UNCHANGED <<agePolicy, sql, r2, alarmSet, reads, purges, faults, history>>

\* Updates the row first and puts the object after.
BugPutBody(s) ==
    /\ sweeps[s].pc = "put"
    /\ \E m \in {k \in sweeps[s].todo : \A j \in sweeps[s].todo : k <= j} :
         /\ hot' = hot \ {m}
         /\ archived' = archived \cup {k \in {m} : stage[k] = "row"}
         /\ sweeps' = [sweeps EXCEPT ![s].pc = "mark", ![s].cur = m,
                                     ![s].todo = @ \ {m}]
    /\ UNCHANGED <<agePolicy, stage, r2, alarmSet, reads, purges, faults, history>>

\* The put of the oldest row left in the batch: the await inside sweep.
PutBody(s) ==
    /\ sweeps[s].pc = "put"
    /\ \E m \in {k \in sweeps[s].todo : \A j \in sweeps[s].todo : k <= j} :
         /\ r2' = r2 \cup {<<m, "body">>}
         /\ sweeps' = [sweeps EXCEPT ![s].pc = "mark", ![s].cur = m,
                                     ![s].todo = @ \ {m}]
    /\ UNCHANGED <<agePolicy, sql, alarmSet, reads, purges, faults, history>>

\* relieve's loop goes on while its target is not met and something is hot.
MoreToShed(s, done) == ~sweeps[s].aging /\ done < sweeps[s].goal /\ hot' # {}

\* After the done-th body: the next row of the batch, the next batch of
\* relieve's loop, or the end of the method that called sweep.
Continue(s, done) ==
    \/ /\ sweeps[s].todo # {}
       /\ sweeps' = [sweeps EXCEPT ![s].pc = "put", ![s].cur = NoMsg, ![s].done = done]
       /\ UNCHANGED alarmSet
    \/ /\ sweeps[s].todo = {} /\ MoreToShed(s, done)
       /\ \E todo \in Batches(Least(Batch, sweeps[s].goal - done), hot') :
            sweeps' = [sweeps EXCEPT ![s] = Selected(@.goal, done, todo, FALSE)]
       /\ UNCHANGED alarmSet
    \/ /\ sweeps[s].todo = {} /\ ~MoreToShed(s, done)
       /\ s # Alarm \/ sweeps[s].aging
       /\ sweeps' = [sweeps EXCEPT ![s] = IdleSweep]
       /\ alarmSet' = (alarmSet \/ s = Alarm)
    \/ /\ sweeps[s].todo = {} /\ ~MoreToShed(s, done)
       /\ s = Alarm /\ ~sweeps[s].aging
       /\ AfterRelief(alarmSet, done)

\* The UPDATE after the put. It counts as archived even when the row is gone.
Mark(s) ==
    /\ sweeps[s].pc = "mark"
    /\ hot' = hot \ {sweeps[s].cur}
    /\ archived' = archived \cup {m \in Msgs : m = sweeps[s].cur /\ stage[m] = "row"}
    /\ Continue(s, sweeps[s].done + 1)
    /\ UNCHANGED <<agePolicy, stage, r2, reads, purges, faults, history>>

-----------------------------------------------------------------------------
(* Reading *)

\* get() reads the row at once: a hot body is there, an archived one is fetched.
ReadStart(r, m) ==
    /\ reads[r].pc = "idle"
    /\ stage[m] = "row" /\ m \in archived
    /\ reads' = [reads EXCEPT ![r] = [pc |-> "body", msg |-> m]]
    /\ UNCHANGED <<agePolicy, sql, r2, alarmSet, sweeps, purges, faults, history>>

\* Has no second source.
BugHydrate(r) ==
    LET rd == reads[r] IN
    /\ rd.pc \in {"body", "raw"}
    /\ reads' = [reads EXCEPT ![r] = IF <<rd.msg, rd.pc>> \in r2 THEN IdleRead
                                     ELSE [@ EXCEPT !.pc = "empty"]]
    /\ UNCHANGED <<agePolicy, sql, r2, alarmSet, sweeps, purges, faults, history>>

\* #hydrate: body.json, and if that object is missing the raw MIME. With
\* neither, the message is shown without its body.
Hydrate(r) ==
    LET rd == reads[r] IN
    /\ \/ /\ rd.pc \in {"body", "raw"} /\ <<rd.msg, rd.pc>> \in r2
          /\ reads' = [reads EXCEPT ![r] = IdleRead]
       \/ /\ rd.pc = "body" /\ <<rd.msg, "body">> \notin r2
          /\ reads' = [reads EXCEPT ![r].pc = "raw"]
       \/ /\ rd.pc = "raw" /\ <<rd.msg, "raw">> \notin r2
          /\ reads' = [reads EXCEPT ![r].pc = "empty"]
    /\ UNCHANGED <<agePolicy, sql, r2, alarmSet, sweeps, purges, faults, history>>

\* The page with an empty body has been served.
ReadEmpty(r) ==
    /\ reads[r].pc = "empty"
    /\ reads' = [reads EXCEPT ![r] = IdleRead]
    /\ UNCHANGED <<agePolicy, sql, r2, alarmSet, sweeps, purges, faults, history>>

-----------------------------------------------------------------------------
(* Deleting *)

\* Forgets the object a sweep has written.
BugRemovedKeys(m) == {"raw"}

\* The keys remove() hands to its caller.
RemovedKeys(m) == {"raw"} \cup {k \in {"body"} : m \in archived}

HalfSwept(m) ==
    \/ \E s \in Sweepers : m \in sweeps[s].todo \cup {sweeps[s].cur}
    \/ <<m, "body">> \in r2 /\ m \notin archived

Remove(p, m) ==
    /\ purges[p].keys = {}
    /\ stage[m] = "row"
    /\ stage' = [stage EXCEPT ![m] = "gone"]
    /\ hot' = hot \ {m} /\ archived' = archived \ {m}
    /\ purges' = [purges EXCEPT ![p] = [msg |-> m, keys |-> RemovedKeys(m)]]
    /\ raced' = raced \cup {k \in {m} : HalfSwept(k)}
    /\ UNCHANGED <<agePolicy, r2, alarmSet, sweeps, reads, faults, lost, leaked>>

\* The caller deletes the keys in parallel, so in any order.
DeleteKey(p, k) ==
    /\ k \in purges[p].keys
    /\ r2' = r2 \ {<<purges[p].msg, k>>}
    /\ purges' = [purges EXCEPT ![p].keys = @ \ {k}]
    /\ UNCHANGED <<agePolicy, sql, alarmSet, sweeps, reads, faults, history>>

-----------------------------------------------------------------------------
(* Faults *)

\* A put or a get fails: its method throws. The platform runs a failed alarm again.
SweepFails(s) ==
    /\ sweeps[s].pc = "put" /\ faults < MaxFaults
    /\ faults' = faults + 1
    /\ sweeps' = [sweeps EXCEPT ![s] = IdleSweep]
    /\ alarmSet' = (alarmSet \/ s = Alarm)
    /\ UNCHANGED <<agePolicy, sql, r2, reads, purges, history>>

\* The object is evicted: every method in progress is lost, SQLite and the
\* alarm are not.
Crash ==
    /\ faults < MaxFaults
    /\ faults' = faults + 1
    /\ alarmSet' = (alarmSet \/ sweeps[Alarm].pc # "idle")
    /\ sweeps' = [s \in Sweepers |-> IdleSweep]
    /\ reads' = [r \in Readers |-> IdleRead]
    /\ UNCHANGED <<agePolicy, sql, r2, purges, history>>

\* The worker that called remove() dies before it has deleted every key.
PurgerDies(p) ==
    /\ purges[p].keys # {} /\ faults < MaxFaults
    /\ faults' = faults + 1
    /\ leaked' = leaked \cup ({purges[p].msg} \X purges[p].keys)
    /\ purges' = [purges EXCEPT ![p].keys = {}]
    /\ UNCHANGED <<agePolicy, sql, r2, alarmSet, sweeps, reads, lost, raced>>

\* The derived body.json of an archived message is lost.
LoseBody(m) ==
    /\ stage[m] = "row" /\ m \in archived /\ <<m, "body">> \in r2
    /\ faults < MaxFaults
    /\ faults' = faults + 1
    /\ r2' = r2 \ {<<m, "body">>}
    /\ lost' = lost \cup {m}
    /\ UNCHANGED <<agePolicy, sql, alarmSet, sweeps, reads, purges, leaked, raced>>

-----------------------------------------------------------------------------

Next ==
    \/ \E m \in Msgs : PutRaw(m) \/ Append(m) \/ LoseBody(m)
    \/ AlarmFires \/ Crash
    \/ \E s \in Sweepers : PutBody(s) \/ Mark(s) \/ SweepFails(s) \/ OperatorRelieves(s)
    \/ \E s \in Sweepers, cutoff \in Msgs : OperatorSweeps(s, cutoff)
    \/ \E r \in Readers : Hydrate(r) \/ ReadEmpty(r) \/ \E m \in Msgs : ReadStart(r, m)
    \/ \E p \in Purgers : PurgerDies(p) \/ \E m \in Msgs : Remove(p, m)
    \/ \E p \in Purgers, k \in Kinds : DeleteKey(p, k)

\* An alarm that is set fires, and the handler's R2 calls return.
Fairness ==
    /\ WF_vars(AlarmFires)
    /\ WF_vars(PutBody(Alarm))
    /\ WF_vars(Mark(Alarm))

Spec == Init /\ [][Next]_vars /\ Fairness

-----------------------------------------------------------------------------
(* Correctness *)

\* A listed message always has its raw MIME, and its body is in exactly one
\* of SQLite and (unless the object was lost) the archive. sweep puts before
\* it updates so that no reader and no crash finds the body in neither.
BodyKept ==
    \A m \in Msgs : stage[m] = "row" =>
        /\ <<m, "raw">> \in r2
        /\ m \in hot <=> m \notin archived
        /\ m \in archived => <<m, "body">> \in r2 \cup (lost \X {"body"})

\* get() never returns an archived message without its body while the message
\* still exists: the raw MIME stands in for a lost body.json.
ReadFindsBody ==
    \A r \in Readers : reads[r].pc = "empty" => stage[reads[r].msg] = "gone"

\* An object of a deleted message is on its way out, unless the purger died
\* holding its key or the message was removed between a sweep's put and update.
OrphanAccounted ==
    \A m \in Msgs, k \in Kinds :
        <<m, k>> \in r2 /\ stage[m] = "gone" =>
            \/ \E p \in Purgers : purges[p].msg = m /\ k \in purges[p].keys
            \/ <<m, k>> \in leaked
            \/ k = "body" /\ m \in raced

\* A deleted message never comes back: the UPDATE of a sweep that still holds
\* it must not give it a body again.
DeletedStaysDeleted ==
    [][\A m \in Msgs : stage[m] = "gone" =>
         stage'[m] = "gone" /\ m \notin hot' \cup archived']_vars

\* Over the high watermark, an alarm is scheduled or its handler is running:
\* no failure, crash or concurrent sweep loses the wake-up.
PressureHasAlarm ==
    OverHigh(hot) => alarmSet \/ sweeps[Alarm].pc # "idle"

\* Pressure is always relieved.
PressureRelieved == OverHigh(hot) ~> ~OverHigh(hot)
=============================================================================
