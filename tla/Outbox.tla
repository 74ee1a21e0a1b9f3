------------------------------- MODULE Outbox -------------------------------
(***************************************************************************)
(* What becomes of a message the owner of a mailbox sends.                 *)
(*                                                                         *)
(* send() runs in a stateless worker: it offers the message to the         *)
(* provider once, indexes it with what the provider said and, when it was  *)
(* refused for now, leaves a row in the MailboxDO's outbox. The alarm of   *)
(* the MailboxDO offers the due rows again (drainOutbox) until they are    *)
(* accepted, refused for good or out of attempts. A delivery status        *)
(* notification may come back for whatever the provider accepted           *)
(* (applyBounce), and the owner may purge the message at any time.         *)
(*                                                                         *)
(* Time is counted down: wake is how far off the alarm is, wait how far    *)
(* off a row's next_attempt_at, and Tick lets one unit pass.               *)
(*                                                                         *)
(* All messages go to one recipient: then a notification that does not     *)
(* name the message can be put down to the wrong one.                      *)
(*                                                                         *)
(* A Bug... operator is the operator that follows it with a mistake in it. *)
(***************************************************************************)
EXTENDS Integers, FiniteSets, FiniteSetsExt

CONSTANTS
    N,           \* messages sent
    MaxAttempts, \* MAX_ATTEMPTS
    Backoff,     \* BACKOFF_MS, in units of time
    Horizon,     \* the longest time an alarm is set ahead
    Limit,       \* rows a run of drainOutbox takes
    MaxFaults,   \* bound on workers and alarms that die and on lost answers
    MaxBounces   \* bound on delivery status notifications

ASSUME CountsAssumption ==
    /\ N \in Nat /\ MaxAttempts \in Nat \ {0} /\ Limit \in Nat \ {0}
    /\ Horizon \in Nat /\ MaxFaults \in Nat /\ MaxBounces \in Nat
ASSUME BackoffAssumption == Backoff \in [0..MaxAttempts - 1 -> 0..Horizon]

VARIABLES
    pc,         \* the next await of each send()
    verdict,    \* what each send() was told
    status,     \* messages.delivery_status
    rowId,      \* the copy whose Message-ID the row has, 0 for <unsent-...>
    outbox,     \* outbox.status
    attempts,   \* outbox.attempts
    wait,       \* outbox.next_attempt_at
    wake,       \* the alarm
    running,    \* the alarm handler is at work
    todo,       \* the rows it has yet to offer
    reply,      \* what it was told about the row it is at
    suppressed, \* the recipient is in suppressions
    accepted,   \* copies of each message the provider accepted
    faults, bounces,
    tries,      \* history: times each message was offered
    lost,       \* history: acceptances nobody learned of
    broken,     \* history: offers the alarm died on
    refused     \* history: messages refused for good

worker == <<pc, verdict>>
row == <<status, rowId>>
outboxRow == <<outbox, attempts, wait>>
handler == <<running, todo, reply>>
provider == <<accepted, tries, lost, refused>>
vars == <<pc, verdict, status, rowId, outbox, attempts, wait, wake, running,
          todo, reply, suppressed, accepted, faults, bounces, tries, lost,
          broken, refused>>

Msgs == 1..N
Never == Horizon + 1
Soonest(S) == Min(S \cup {Never})
Held == {"sent", "queued", "failed", "bounced"}
Listed == {m \in Msgs : status[m] \in Held}
Queued == {m \in Msgs : outbox[m] = "queued"}
NoReply == [msg |-> 0, says |-> "none", copy |-> 0]

\* Every variable has its type; a row is never offered more than MaxAttempts
\* times before it is given up.
TypeOK ==
    /\ pc \in [Msgs -> {"new", "deliver", "index", "enqueue", "done", "dead"}]
    /\ verdict \in [Msgs -> [says: {"none", "sent", "queued", "failed"}, copy: Nat]]
    /\ status \in [Msgs -> Held \cup {"none", "purged"}]
    /\ rowId \in [Msgs -> Nat]
    /\ outbox \in [Msgs -> {"none", "queued", "sent", "failed"}]
    /\ attempts \in [Msgs -> 0..MaxAttempts]
    /\ wait \in [Msgs -> 0..Horizon] /\ wake \in 0..Never
    /\ running \in BOOLEAN /\ todo \subseteq Msgs
    /\ reply \in [msg: Msgs \cup {0}, says: {"none", "sent", "queued", "failed"}, copy: Nat]
    /\ suppressed \in BOOLEAN
    /\ faults \in 0..MaxFaults /\ bounces \in 0..MaxBounces
    /\ \A h \in {accepted, tries, lost, broken} : h \in [Msgs -> Nat]
    /\ refused \subseteq Msgs

Init ==
    LET zero == [m \in Msgs |-> 0] IN
    /\ pc = [m \in Msgs |-> "new"]
    /\ verdict = [m \in Msgs |-> [says |-> "none", copy |-> 0]]
    /\ status = [m \in Msgs |-> "none"] /\ rowId = zero
    /\ outbox = [m \in Msgs |-> "none"] /\ attempts = zero /\ wait = zero
    /\ wake = Never
    /\ running = FALSE /\ todo = {} /\ reply = NoReply
    /\ suppressed = FALSE
    /\ faults = 0 /\ bounces = 0
    /\ accepted = zero /\ tries = zero /\ lost = zero /\ broken = zero
    /\ refused = {}

-----------------------------------------------------------------------------
(* The provider *)

\* What the provider makes of an offer: it takes the message, refuses it for
\* good or for now, or takes it and the answer is an error all the same.
Outcomes == {"taken", "refused", "later", "hidden"}

\* deliver() and classify(): what the caller makes of it, and the Message-ID it
\* gets, here the number of the copy.
Verdict(m, o) ==
    [says |-> CASE o = "taken" -> "sent"
                [] o = "refused" -> "failed"
                [] OTHER -> "queued",
     copy |-> IF o = "taken" THEN accepted[m] + 1 ELSE 0]

Offer(m, o) ==
    /\ o = "hidden" => faults < MaxFaults
    /\ tries' = [tries EXCEPT ![m] = @ + 1]
    /\ accepted' = [accepted EXCEPT ![m] = IF o \in {"taken", "hidden"} THEN @ + 1 ELSE @]
    /\ refused' = IF o = "refused" THEN refused \cup {m} ELSE refused
    /\ lost' = [lost EXCEPT ![m] = IF o = "hidden" THEN @ + 1 ELSE @]
    /\ faults' = IF o = "hidden" THEN faults + 1 ELSE faults

-----------------------------------------------------------------------------
(* The alarm and the backoff *)

\* nextAttemptDelay, Never for null.
NextAttemptDelay(a) == IF a < MaxAttempts THEN Backoff[a] ELSE Never

\* As checkPressure does: leaves an alarm alone that is set, however late.
BugWakeForOutbox(delay) == wake' = IF wake = Never THEN delay ELSE wake

\* #wakeForOutbox: the sooner of the alarm that is set, if any, and this one.
WakeForOutbox(delay) == wake' = Min({wake, delay})

\* Storage pressure, Gmail or a deletion of the mailbox wants the alarm sooner.
OtherWake(delay) ==
    /\ delay < wake
    /\ wake' = delay
    /\ UNCHANGED <<worker, row, outboxRow, handler, suppressed, provider,
                   faults, bounces, broken>>

Tick ==
    /\ \/ wake \in 1..Horizon
       \/ \E m \in Queued : wait[m] > 0
    /\ wake' = IF wake \in 1..Horizon THEN wake - 1 ELSE wake
    /\ wait' = [m \in Msgs |-> IF wait[m] > 0 THEN wait[m] - 1 ELSE 0]
    /\ UNCHANGED <<worker, row, outbox, attempts, handler, suppressed,
                   provider, faults, bounces, broken>>

-----------------------------------------------------------------------------
(* The steps of send *)

\* The messages are numbered in the order of their sentAt.
Send(m) ==
    /\ pc[m] = "new"
    /\ \A k \in Msgs : k < m => pc[k] # "new"
    /\ pc' = [pc EXCEPT ![m] = "deliver"]
    /\ UNCHANGED <<verdict, row, outboxRow, wake, handler, suppressed,
                   provider, faults, bounces, broken>>

Deliver(m) ==
    /\ pc[m] = "deliver"
    /\ pc' = [pc EXCEPT ![m] = "index"]
    /\ \E o \in Outcomes :
         /\ Offer(m, o)
         /\ verdict' = [verdict EXCEPT ![m] = Verdict(m, o)]
    /\ UNCHANGED <<row, outboxRow, wake, handler, suppressed, bounces, broken>>

MustQueue(m) == verdict[m].says = "queued"

\* The archived copy in R2, the thread and then the index, where the message
\* first shows.
Index(m) ==
    /\ pc[m] = "index"
    /\ pc' = [pc EXCEPT ![m] = IF MustQueue(m) THEN "enqueue" ELSE "done"]
    /\ status' = [status EXCEPT ![m] = verdict[m].says]
    /\ rowId' = [rowId EXCEPT ![m] = verdict[m].copy]
    /\ UNCHANGED <<verdict, outboxRow, wake, handler, suppressed, provider,
                   faults, bounces, broken>>

\* Starts the count as the column's default does.
BugFirstAttempts == 0
FirstAttempts == 1

Enqueue(m) ==
    /\ pc[m] = "enqueue"
    /\ pc' = [pc EXCEPT ![m] = "done"]
    /\ outbox' = [outbox EXCEPT ![m] = "queued"]
    /\ attempts' = [attempts EXCEPT ![m] = FirstAttempts]
    /\ wait' = [wait EXCEPT ![m] = NextAttemptDelay(0)]
    /\ WakeForOutbox(NextAttemptDelay(0))
    /\ UNCHANGED <<verdict, row, handler, suppressed, provider, faults, bounces, broken>>

\* The worker dies, or a call it makes throws.
SendFails(m) ==
    /\ pc[m] \in {"deliver", "index", "enqueue"} /\ faults < MaxFaults
    /\ faults' = faults + 1
    /\ pc' = [pc EXCEPT ![m] = "dead"]
    /\ UNCHANGED <<verdict, row, outboxRow, wake, handler, suppressed,
                   provider, bounces, broken>>

-----------------------------------------------------------------------------
(* The alarm: drainOutbox *)

\* dueOutbox
Due == {m \in Queued : wait[m] = 0}

AlarmFires ==
    /\ ~running /\ wake = 0
    /\ running' = TRUE
    /\ wake' = Never
    /\ \E picked \in SUBSET Due :
         /\ Cardinality(picked) = Min({Limit, Cardinality(Due)})
         /\ todo' = picked
    /\ UNCHANGED <<worker, row, outboxRow, reply, suppressed, provider,
                   faults, bounces, broken>>

\* The object is awaiting the provider: everything else may happen to it.
Retry(m) ==
    /\ running /\ reply = NoReply
    /\ m \in todo
    /\ todo' = todo \ {m}
    /\ \E o \in Outcomes :
         /\ Offer(m, o)
         /\ reply' = [msg |-> m, says |-> Verdict(m, o).says, copy |-> Verdict(m, o).copy]
    /\ UNCHANGED <<worker, row, outboxRow, wake, running, suppressed, bounces, broken>>

\* setDelivery: an UPDATE, of no row if the message was purged.
SetDelivery(m, s) ==
    status' = [status EXCEPT ![m] = IF m \in Listed THEN s ELSE @]

\* Marks the message and leaves the outbox row as it is.
BugAccepted(m, copy) ==
    /\ SetDelivery(m, "sent")
    /\ rowId' = [rowId EXCEPT ![m] = IF m \in Listed THEN copy ELSE @]
    /\ UNCHANGED <<outboxRow, wake>>

Accepted(m, copy) ==
    /\ outbox' = [outbox EXCEPT ![m] = "sent"]
    /\ SetDelivery(m, "sent")
    /\ rowId' = [rowId EXCEPT ![m] = IF m \in Listed THEN copy ELSE @]
    /\ UNCHANGED <<attempts, wait, wake>>

GiveUp(m) ==
    /\ outbox' = [outbox EXCEPT ![m] = "failed"]
    /\ SetDelivery(m, "failed")
    /\ UNCHANGED <<rowId, attempts, wait, wake>>

\* rescheduleOutbox
Reschedule(m, delay) ==
    /\ attempts' = [attempts EXCEPT ![m] = @ + 1]
    /\ wait' = [wait EXCEPT ![m] = delay]
    /\ WakeForOutbox(delay)
    /\ SetDelivery(m, "queued")
    /\ UNCHANGED <<rowId, outbox>>

\* The rest of the loop's body. attempts is read from the row again, which
\* only this handler changes.
Settle ==
    /\ reply # NoReply
    /\ LET m == reply.msg
           delay == NextAttemptDelay(attempts[m])
       IN  \/ reply.says = "sent" /\ Accepted(m, reply.copy)
           \/ reply.says = "failed" /\ GiveUp(m)
           \/ reply.says = "queued" /\ delay = Never /\ GiveUp(m)
           \/ reply.says = "queued" /\ delay # Never /\ Reschedule(m, delay)
    /\ reply' = NoReply
    /\ UNCHANGED <<worker, running, todo, suppressed, provider, faults,
                   bounces, broken>>

\* outboxStats().nextAttemptAt, and what relief and Gmail want.
Wants(other) == Soonest({other} \cup {wait[m] : m \in Queued})

\* The end of alarm(): the soonest of the wants replaces any alarm that was set
\* in the meantime.
Close(other) ==
    /\ running /\ todo = {} /\ reply = NoReply
    /\ running' = FALSE
    /\ wake' = IF Wants(other) = Never THEN wake ELSE Wants(other)
    /\ UNCHANGED <<worker, row, outboxRow, todo, reply, suppressed, provider,
                   faults, bounces, broken>>

\* The object restarts with the handler at work, which is run again. What the
\* provider said is forgotten.
AlarmDies ==
    /\ running /\ faults < MaxFaults
    /\ faults' = faults + 1
    /\ running' = FALSE /\ todo' = {} /\ reply' = NoReply
    /\ wake' = 0
    /\ LET at(m) == reply.msg = m IN
         /\ broken' = [m \in Msgs |-> broken[m] + IF at(m) THEN 1 ELSE 0]
         /\ lost' = [m \in Msgs |-> lost[m] + IF at(m) /\ reply.says = "sent" THEN 1 ELSE 0]
    /\ UNCHANGED <<worker, row, outboxRow, suppressed, accepted, tries,
                   refused, bounces>>

-----------------------------------------------------------------------------
(* Notifications and the owner *)

\* findOutboundByMessageId
Named(m, copy) == {k \in Listed : k = m /\ rowId[k] = copy}

\* findLatestOutboundTo
Latest ==
    LET open == {m \in Listed : status[m] # "bounced"}
    IN  IF open = {} THEN {} ELSE {Max(open)}

\* applyBounce: a notification about one copy of m. It may leave out the
\* Message-ID or the recipient.
Bounce(m, copy, named, addressed, permanent) ==
    /\ bounces < MaxBounces /\ copy \in 1..accepted[m]
    /\ bounces' = bounces + 1
    /\ LET byId == IF named THEN Named(m, copy) ELSE {}
           target == IF byId = {} /\ addressed THEN Latest ELSE byId
       IN  status' = [k \in Msgs |-> IF k \in target THEN "bounced" ELSE status[k]]
    /\ suppressed' = (suppressed \/ (permanent /\ addressed))
    /\ UNCHANGED <<worker, rowId, outboxRow, wake, handler, provider, faults, broken>>

\* unindex() leaves the outbox alone.
Purge(m) ==
    /\ m \in Listed
    /\ status' = [status EXCEPT ![m] = "purged"]
    /\ rowId' = [rowId EXCEPT ![m] = 0]
    /\ UNCHANGED <<worker, outboxRow, wake, handler, suppressed, provider,
                   faults, bounces, broken>>

-----------------------------------------------------------------------------

SendStep(m) == Deliver(m) \/ Index(m) \/ Enqueue(m)
Drain == Settle \/ \E m \in Msgs : Retry(m)
AlarmEnds == \E other \in 0..Never : Close(other)

Next ==
    \/ \E m \in Msgs : Send(m) \/ SendStep(m) \/ SendFails(m) \/ Purge(m)
    \/ AlarmFires \/ Drain \/ AlarmEnds \/ AlarmDies \/ Tick
    \/ \E delay \in 0..Horizon : OtherWake(delay)
    \/ \E m \in Msgs, copy \in 1..MaxFaults + 1, named, addressed, permanent \in BOOLEAN :
         Bounce(m, copy, named, addressed, permanent)

\* Time passes, an alarm that is due fires and the platform runs what was
\* started to its end, unless it dies: MaxFaults bounds how often.
Fairness ==
    /\ WF_vars(Tick) /\ WF_vars(AlarmFires) /\ WF_vars(Drain) /\ WF_vars(AlarmEnds)
    /\ \A m \in Msgs : WF_vars(SendStep(m))

Spec == Init /\ [][Next]_vars /\ Fairness

-----------------------------------------------------------------------------
(* Correctness *)

\* The attempts of a row count the offers of its message, those the alarm died
\* on apart, and it is given up only when it was refused for good or the
\* schedule of retries is at its end.
RetriesAsScheduled ==
    \A m \in Msgs :
        /\ outbox[m] = "queued" =>
             tries[m] = attempts[m] + broken[m] + IF reply.msg = m THEN 1 ELSE 0
        /\ outbox[m] \in {"sent", "failed"} => tries[m] = attempts[m] + broken[m] + 1
        /\ outbox[m] = "failed" => m \in refused \/ attempts[m] = MaxAttempts

\* While a row is queued the alarm is at work or set for no later than the row
\* is due, whoever else sets alarms, and when the rows are enqueued while the
\* handler runs.
QueuedHasWakeup ==
    \A m \in Queued : running \/ wake <= wait[m]

Stage ==
    [m \in Msgs |->
        CASE outbox[m] = "queued" -> "kept"
          [] outbox[m] # "queued" /\ pc[m] \in {"done", "dead"} -> "over"
          [] outbox[m] # "queued" /\ pc[m] = "new" -> "new"
          [] OTHER -> "sending"]

D == INSTANCE Delivery WITH
         stage <- Stage, shown <- status, copies <- accepted, unknown <- lost

\* Worker, alarm and provider together deliver as Delivery promises: no second
\* copy unless an answer was lost, nothing shown that is not known, nothing
\* changed once it is settled, and no row of the outbox queued for ever.
DeliversAsPromised == D!Spec
=============================================================================
