---------------------------- MODULE OutboxProofs ----------------------------
(***************************************************************************)
(* Proofs about Outbox, for any number of messages and any backoff: the    *)
(* inductive invariant behind RetriesAsScheduled and QueuedHasWakeup; that *)
(* each step of Outbox is a step of Delivery, or none; and that what       *)
(* Delivery promises is true, so that it is true of Outbox.                *)
(***************************************************************************)
EXTENDS Outbox, FiniteSetTheorems, TLAPS

-----------------------------------------------------------------------------
(* The inductive invariant *)

\* The handler has rows that are queued, and the row it is at is none of those
\* it has yet to offer.
HandlerOK ==
    /\ todo \subseteq Queued
    /\ running \/ (todo = {} /\ reply = NoReply)
    /\ reply # NoReply =>
         /\ reply.msg \in Queued \ todo /\ reply.says # "none"
         /\ reply.says = "failed" => reply.msg \in refused

\* Nobody knows of a copy of m that the provider took.
Unknown(m) == accepted[m] = lost[m]

\* Where a message is in its worker tells what may have become of it; what has
\* a row in the outbox is known to be taken only between Retry and Settle.
SendOK ==
    \A m \in Msgs :
        /\ accepted[m] \in {lost[m], lost[m] + 1}
        /\ outbox[m] # "none" => pc[m] = "done" /\ status[m] # "none"
        /\ outbox[m] = "none" => broken[m] = 0
        /\ pc[m] \in {"new", "deliver"} => tries[m] = 0 /\ accepted[m] = 0 /\ lost[m] = 0
        /\ pc[m] \in {"new", "deliver", "index"} => status[m] = "none"
        /\ pc[m] \in {"index", "enqueue"} =>
             /\ tries[m] = 1 /\ verdict[m].says # "none"
             /\ verdict[m].says = "sent" <=> ~ Unknown(m)
        /\ pc[m] = "enqueue" => verdict[m].says = "queued" /\ status[m] # "none"
        /\ outbox[m] = "queued" =>
             (Unknown(m) <=> ~ (reply.msg = m /\ reply.says = "sent"))

IInv == TypeOK /\ HandlerOK /\ SendOK /\ RetriesAsScheduled /\ QueuedHasWakeup

-----------------------------------------------------------------------------
(* The least and the greatest of a set of numbers *)

LEMMA LeastOfSet ==
    ASSUME NEW S, S \subseteq Nat, S # {}
    PROVE  /\ Min(S) \in S
           /\ \A n \in S : Min(S) <= n
<1> DEFINE below(n) == 0..n
            T == {below(n) : n \in S}
            R == StrictSubsetOrdering(Nat)
<1>1. T \subseteq FiniteSubsetsOf(Nat) /\ T # {}
  <2>1. \A n \in S : below(n) \subseteq Nat /\ IsFiniteSet(below(n))
    BY FS_Interval
  <2> QED
    BY <2>1 DEF FiniteSubsetsOf
<1>2. IsWellFoundedOn(R, FiniteSubsetsOf(Nat))
  BY FS_StrictSubsetOrderingWellFounded
<1>3. PICK t \in T : \A u \in T : ~ (<<u, t>> \in R)
  <2> HIDE DEF T, R
  <2> QED
    BY <1>1, <1>2, WFMin
<1>4. PICK n \in S : t = below(n)
  OBVIOUS
<1>5. \A k \in S : n <= k
  <2> SUFFICES ASSUME NEW k \in S, k < n PROVE FALSE
    OBVIOUS
  <2>1. below(k) \subseteq below(n) /\ below(k) # below(n)
    OBVIOUS
  <2>2. <<below(k), below(n)>> \in R
    BY <2>1 DEF StrictSubsetOrdering
  <2> QED
    BY <1>3, <1>4, <2>2
<1> QED
  BY <1>5 DEF Min

LEMMA GreatestOfSet ==
    ASSUME NEW n \in Nat, NEW S, S \subseteq 1..n, S # {}
    PROVE  /\ Max(S) \in S
           /\ \A k \in S : k <= Max(S)
<1> DEFINE T == {n - k : k \in S}
<1>1. T \subseteq Nat /\ T # {}
  <2>1. \A k \in S : n - k \in Nat
    OBVIOUS
  <2> QED
    BY <2>1
<1>2. Min(T) \in T /\ \A k \in T : Min(T) <= k
  <2> HIDE DEF T
  <2> QED
    BY <1>1, LeastOfSet
<1>3. PICK k \in S : Min(T) = n - k
  BY <1>2
<1>4. \A i \in S : i <= k
  <2> SUFFICES ASSUME NEW i \in S PROVE i <= k
    OBVIOUS
  <2>1. n - k <= n - i
    BY <1>2, <1>3
  <2> QED
    BY <2>1
<1> QED
  BY <1>4 DEF Max

\* An alarm set for the outbox is no later than it was, nor than asked for.
LEMMA Sooner ==
    ASSUME NEW a \in Nat, NEW b \in Nat
    PROVE  Min({a, b}) \in {a, b} /\ Min({a, b}) <= a /\ Min({a, b}) <= b
BY LeastOfSet

\* The schedule of retries.
LEMMA DelayType ==
    ASSUME NEW a \in 0..MaxAttempts
    PROVE  /\ a < MaxAttempts => NextAttemptDelay(a) \in 0..Horizon
           /\ a = MaxAttempts <=> NextAttemptDelay(a) = Never
BY CountsAssumption, BackoffAssumption DEF NextAttemptDelay, Never

-----------------------------------------------------------------------------
(* Each step keeps the invariant *)

\* What an offer changes, and what its caller makes of it.
LEMMA Offered ==
    ASSUME NEW m \in Msgs, NEW o \in Outcomes, TypeOK, Offer(m, o)
    PROVE  /\ Verdict(m, o) \in [says: {"sent", "queued", "failed"}, copy: Nat]
           /\ tries' = [tries EXCEPT ![m] = @ + 1]
           /\ accepted' \in [Msgs -> Nat] /\ lost' \in [Msgs -> Nat]
           /\ \A k \in Msgs \ {m} : accepted'[k] = accepted[k] /\ lost'[k] = lost[k]
           /\ accepted[m] = lost[m] =>
                /\ accepted'[m] \in {lost'[m], lost'[m] + 1}
                /\ accepted'[m] = lost'[m] <=> Verdict(m, o).says # "sent"
           /\ Verdict(m, o).says = "failed" => m \in refused'
           /\ refused \subseteq refused' /\ refused' \subseteq Msgs
           /\ faults' \in 0..MaxFaults
BY CountsAssumption DEF Offer, Verdict, Outcomes, TypeOK

LEMMA SendKeeps == ASSUME NEW m \in Msgs, IInv, Send(m) \/ SendFails(m) PROVE IInv'
<1> USE DEF IInv, Send, SendFails, row, outboxRow, handler, provider
<1>1. TypeOK'
  BY CountsAssumption DEF TypeOK
<1>2. HandlerOK'
  BY DEF TypeOK, HandlerOK, Queued
<1>3. SendOK'
  BY DEF TypeOK, HandlerOK, SendOK, Unknown
<1>4. RetriesAsScheduled'
  BY DEF TypeOK, SendOK, RetriesAsScheduled
<1>5. QueuedHasWakeup'
  BY DEF TypeOK, QueuedHasWakeup, Queued
<1> QED
  BY <1>1, <1>2, <1>3, <1>4, <1>5

LEMMA DeliverKeeps == ASSUME NEW m \in Msgs, IInv, Deliver(m) PROVE IInv'
<1> USE DEF IInv, Deliver, row, outboxRow, handler
<1>0. PICK o \in Outcomes : Offer(m, o) /\ verdict' = [verdict EXCEPT ![m] = Verdict(m, o)]
  OBVIOUS
<1>1. TypeOK'
  <2>1. verdict' \in [Msgs -> [says: {"none", "sent", "queued", "failed"}, copy: Nat]]
    BY <1>0, Offered DEF TypeOK
  <2>2. pc' \in [Msgs -> {"new", "deliver", "index", "enqueue", "done", "dead"}]
    BY DEF TypeOK
  <2>3. \A h \in {accepted', tries', lost', broken'} : h \in [Msgs -> Nat]
    BY <1>0, Offered DEF TypeOK
  <2> QED
    BY <1>0, <2>1, <2>2, <2>3, Offered DEF TypeOK
<1>2. HandlerOK'
  BY <1>0, Offered DEF TypeOK, HandlerOK, Queued
<1>3. SendOK'
  BY <1>0, Offered DEF TypeOK, HandlerOK, SendOK, Unknown, Queued
<1>4. RetriesAsScheduled'
  <2>1. outbox[m] = "none"
    BY DEF TypeOK, SendOK
  <2>2. \A k \in Msgs \ {m} : tries'[k] = tries[k]
    BY <1>0, Offered DEF TypeOK
  <2> QED
    BY <1>0, <2>1, <2>2, Offered DEF RetriesAsScheduled
<1>5. QueuedHasWakeup'
  BY DEF TypeOK, QueuedHasWakeup, Queued
<1> QED
  BY <1>1, <1>2, <1>3, <1>4, <1>5

LEMMA IndexKeeps == ASSUME NEW m \in Msgs, IInv, Index(m) PROVE IInv'
<1> USE DEF IInv, Index, MustQueue, outboxRow, handler, provider
<1>1. TypeOK'
  <2>1. verdict[m].says \in {"sent", "queued", "failed"} /\ verdict[m].copy \in Nat
    BY DEF TypeOK, SendOK
  <2> QED
    BY <2>1 DEF TypeOK, Held
<1>2. HandlerOK'
  BY DEF TypeOK, HandlerOK, Queued
<1>3. SendOK'
  BY DEF TypeOK, HandlerOK, SendOK, Unknown
<1>4. RetriesAsScheduled'
  BY DEF TypeOK, SendOK, RetriesAsScheduled
<1>5. QueuedHasWakeup'
  BY DEF TypeOK, QueuedHasWakeup, Queued
<1> QED
  BY <1>1, <1>2, <1>3, <1>4, <1>5

LEMMA EnqueueKeeps == ASSUME NEW m \in Msgs, IInv, Enqueue(m) PROVE IInv'
<1> USE DEF IInv, Enqueue, WakeForOutbox, FirstAttempts, row, handler, provider
<1> DEFINE delay == NextAttemptDelay(0)
<1>0. /\ delay \in 0..Horizon /\ 1 \in 0..MaxAttempts
      /\ wake' \in {wake, delay} /\ wake' <= wake /\ wake' <= delay
      /\ outbox[m] = "none" /\ reply.msg # m /\ m \notin todo
  <2>1. delay \in 0..Horizon /\ 1 \in 0..MaxAttempts
    BY CountsAssumption, DelayType
  <2>2. wake' \in {wake, delay} /\ wake' <= wake /\ wake' <= delay
    BY <2>1, Sooner DEF TypeOK
  <2>3. outbox[m] = "none" /\ reply.msg # m /\ m \notin todo
    BY DEF TypeOK, SendOK, HandlerOK, Queued, NoReply, Msgs
  <2> QED
    BY <2>1, <2>2, <2>3
<1> HIDE DEF delay
<1>1. TypeOK'
  BY <1>0, CountsAssumption DEF TypeOK, Never, delay
<1>2. HandlerOK'
  BY <1>0 DEF TypeOK, HandlerOK, Queued
<1>3. SendOK'
  BY <1>0 DEF TypeOK, HandlerOK, SendOK, Unknown
<1>4. RetriesAsScheduled'
  BY <1>0 DEF TypeOK, SendOK, RetriesAsScheduled
<1>5. QueuedHasWakeup'
  <2> SUFFICES ASSUME NEW k \in Msgs, outbox'[k] = "queued"
               PROVE  running \/ wake' <= wait'[k]
    BY DEF QueuedHasWakeup, Queued
  <2>1. CASE k = m
    BY <1>0, <2>1 DEF TypeOK, delay
  <2>2. CASE k # m
    BY <1>0, <2>2, CountsAssumption DEF TypeOK, QueuedHasWakeup, Queued, Never
  <2> QED
    BY <2>1, <2>2
<1> QED
  BY <1>1, <1>2, <1>3, <1>4, <1>5

LEMMA FiresKeeps == ASSUME IInv, AlarmFires PROVE IInv'
<1> USE DEF IInv, AlarmFires, Due, worker, row, outboxRow, provider
<1>1. TypeOK'
  <2>1. wake' = Never /\ todo' \subseteq Msgs
    BY DEF Queued
  <2> QED
    BY <2>1, CountsAssumption DEF TypeOK, Never
<1>2. HandlerOK'
  BY DEF TypeOK, HandlerOK, Queued
<1>3. SendOK'
  BY DEF TypeOK, HandlerOK, SendOK, Unknown
<1>4. RetriesAsScheduled'
  BY DEF TypeOK, SendOK, RetriesAsScheduled
<1>5. QueuedHasWakeup'
  BY DEF TypeOK, QueuedHasWakeup, Queued
<1> QED
  BY <1>1, <1>2, <1>3, <1>4, <1>5

LEMMA RetryKeeps == ASSUME NEW m \in Msgs, IInv, Retry(m) PROVE IInv'
<1> USE DEF IInv
<1>0. PICK o \in Outcomes :
        /\ Offer(m, o)
        /\ reply' = [msg |-> m, says |-> Verdict(m, o).says, copy |-> Verdict(m, o).copy]
  BY DEF Retry
<1>a. /\ reply = NoReply /\ running /\ m \in todo /\ todo' = todo \ {m}
      /\ UNCHANGED <<pc, verdict, status, rowId, outbox, attempts, wait, wake, running,
                     suppressed, bounces, broken>>
  BY DEF Retry, worker, row, outboxRow
<1>b. Verdict(m, o) \in [says: {"sent", "queued", "failed"}, copy: Nat]
  BY <1>0, Offered
<1>c. reply'.msg = m /\ reply'.says \in {"sent", "queued", "failed"} /\ reply'.copy \in Nat
  BY <1>0, <1>b
<1>d. reply'.says = "failed" => m \in refused'
  BY <1>0, Offered
<1>e. outbox[m] = "queued" /\ Unknown(m) /\ \A k \in Msgs : reply.msg # k
  BY <1>a DEF HandlerOK, SendOK, Queued, NoReply, Msgs
<1>f. tries' = [tries EXCEPT ![m] = @ + 1] /\ tries \in [Msgs -> Nat]
  BY <1>0 DEF Offer, TypeOK
<1>g. accepted' \in [Msgs -> Nat] /\ lost' \in [Msgs -> Nat] /\ broken \in [Msgs -> Nat]
  BY <1>0, Offered DEF TypeOK
<1>h. /\ \A k \in Msgs \ {m} : accepted'[k] = accepted[k] /\ lost'[k] = lost[k]
      /\ accepted'[m] \in {lost'[m], lost'[m] + 1}
      /\ accepted'[m] = lost'[m] <=> reply'.says # "sent"
      /\ refused \subseteq refused' /\ refused' \subseteq Msgs /\ faults' \in 0..MaxFaults
  BY <1>0, <1>e, Offered DEF Unknown
<1>1. TypeOK'
  <2>1. \A h \in {accepted', tries', lost', broken'} : h \in [Msgs -> Nat]
    BY <1>a, <1>f, <1>g
  <2>2. reply' \in [msg: Msgs \cup {0}, says: {"none", "sent", "queued", "failed"}, copy: Nat]
    BY <1>0, <1>b
  <2> QED
    BY <1>a, <1>h, <2>1, <2>2 DEF TypeOK
<1>2. HandlerOK'
  BY <1>a, <1>c, <1>d, <1>e DEF HandlerOK, Queued
<1>3. SendOK'
  <2>1. pc[m] = "done" /\ status[m] # "none"
    BY <1>e DEF SendOK
  <2>2. \A k \in Msgs \ {m} : tries'[k] = tries[k]
    BY <1>f
  <2> QED
    BY <1>a, <1>c, <1>e, <1>h, <2>1, <2>2 DEF SendOK, Unknown
<1>4. RetriesAsScheduled'
  <2> SUFFICES ASSUME NEW k \in Msgs
               PROVE  /\ outbox[k] = "queued" =>
                           tries'[k] = attempts[k] + broken[k] + IF reply'.msg = k THEN 1 ELSE 0
                      /\ outbox[k] \in {"sent", "failed"} => tries'[k] = attempts[k] + broken[k] + 1
                      /\ outbox[k] = "failed" => k \in refused' \/ attempts[k] = MaxAttempts
    BY <1>a DEF RetriesAsScheduled
  <2>1. CASE k = m
    <3>1. tries[m] = attempts[m] + broken[m]
      BY <1>e, <1>g DEF RetriesAsScheduled, TypeOK
    <3>2. tries'[m] = tries[m] + 1
      BY <1>f
    <3> QED
      BY <1>c, <1>e, <2>1, <3>1, <3>2
  <2>2. CASE k # m
    <3>1. tries'[k] = tries[k]
      BY <1>f, <2>2
    <3> QED
      BY <1>c, <1>e, <1>h, <2>2, <3>1 DEF RetriesAsScheduled
  <2> QED
    BY <2>1, <2>2
<1>5. QueuedHasWakeup'
  BY <1>a DEF QueuedHasWakeup, Queued
<1> QED
  BY <1>1, <1>2, <1>3, <1>4, <1>5

LEMMA SettleKeeps == ASSUME IInv, Settle PROVE IInv'
<1> USE DEF IInv, Settle, SetDelivery, worker, provider
<1> DEFINE m == reply.msg
           delay == NextAttemptDelay(attempts[m])
<1>0. /\ m \in Msgs /\ outbox[m] = "queued" /\ m \notin todo /\ running
      /\ pc[m] = "done" /\ status[m] # "none"
      /\ tries[m] = attempts[m] + broken[m] + 1
      /\ attempts[m] \in 0..MaxAttempts
      /\ reply' = NoReply /\ \A k \in Msgs : NoReply.msg # k
  BY DEF TypeOK, HandlerOK, SendOK, RetriesAsScheduled, Queued, NoReply, Msgs
<1>a. QueuedHasWakeup'
  BY <1>0 DEF QueuedHasWakeup
<1>b. reply' \in [msg: Msgs \cup {0}, says: {"none", "sent", "queued", "failed"}, copy: Nat]
  BY <1>0 DEF NoReply
<1>1. CASE reply.says = "sent" /\ Accepted(m, reply.copy)
  <2> USE DEF Accepted
  <2>1. TypeOK'
    BY <1>0, <1>1, <1>b DEF TypeOK, Held
  <2>2. HandlerOK'
    BY <1>0, <1>1 DEF TypeOK, HandlerOK, Queued
  <2>3. SendOK'
    BY <1>0, <1>1 DEF TypeOK, SendOK, Unknown
  <2>4. RetriesAsScheduled'
    BY <1>0, <1>1 DEF TypeOK, RetriesAsScheduled
  <2> QED
    BY <1>a, <2>1, <2>2, <2>3, <2>4
<1>2. CASE GiveUp(m) /\ (reply.says = "failed" \/ (reply.says = "queued" /\ delay = Never))
  <2> USE DEF GiveUp
  <2>1. TypeOK'
    BY <1>0, <1>2, <1>b DEF TypeOK, Held
  <2>2. HandlerOK'
    BY <1>0, <1>2 DEF TypeOK, HandlerOK, Queued
  <2>3. SendOK'
    BY <1>0, <1>2 DEF TypeOK, SendOK, Unknown
  <2>4. m \in refused \/ attempts[m] = MaxAttempts
    BY <1>0, <1>2, DelayType DEF HandlerOK
  <2>5. RetriesAsScheduled'
    BY <1>0, <1>2, <2>4 DEF TypeOK, RetriesAsScheduled
  <2> QED
    BY <1>a, <2>1, <2>2, <2>3, <2>5
<1>3. CASE reply.says = "queued" /\ delay # Never /\ Reschedule(m, delay)
  <2>1. delay \in 0..Horizon /\ attempts[m] + 1 \in 0..MaxAttempts
    BY <1>0, <1>3, CountsAssumption, DelayType
  <2>2. wake' \in 0..Never
    <3>1. wake' = Min({wake, delay}) /\ wake \in Nat /\ delay \in Nat /\ wake \in 0..Never
      BY <1>3, <2>1, CountsAssumption DEF Reschedule, WakeForOutbox, TypeOK, Never
    <3> HIDE DEF delay
    <3> QED
      BY <2>1, <3>1, Sooner, CountsAssumption DEF Never
  <2> USE DEF Reschedule
  <2> HIDE DEF delay
  <2>3. TypeOK'
    BY <1>0, <1>3, <1>b, <2>1, <2>2 DEF TypeOK, Held
  <2>4. HandlerOK'
    BY <1>0, <1>3 DEF TypeOK, HandlerOK, Queued
  <2>5. SendOK'
    BY <1>0, <1>3 DEF TypeOK, SendOK, Unknown, Held
  <2>6. RetriesAsScheduled'
    <3>1. /\ attempts'[m] = attempts[m] + 1 /\ outbox' = outbox /\ broken' = broken
          /\ tries' = tries /\ refused' = refused
          /\ \A k \in Msgs \ {m} : attempts'[k] = attempts[k]
      BY <1>0, <1>3 DEF TypeOK
    <3> QED
      BY <1>0, <3>1 DEF TypeOK, RetriesAsScheduled
  <2> QED
    BY <1>a, <2>3, <2>4, <2>5, <2>6
<1> QED
  BY <1>1, <1>2, <1>3

\* The alarm set at the end is no later than any row that is queued is due.
LEMMA WantsAll ==
    ASSUME TypeOK, NEW other \in 0..Never
    PROVE  /\ Wants(other) \in 0..Never
           /\ \A m \in Queued : Wants(other) <= wait[m] /\ Wants(other) # Never
<1> DEFINE S == ({other} \cup {wait[m] : m \in Queued}) \cup {Never}
<1>1. Never \in Nat /\ S \subseteq 0..Never
  BY CountsAssumption DEF TypeOK, Never, Queued
<1>2. Wants(other) = Min(S)
  BY DEF Wants, Soonest
<1>3. Min(S) \in S /\ \A n \in S : Min(S) <= n
  <2>1. S \subseteq Nat /\ S # {}
    BY <1>1
  <2> HIDE DEF S
  <2> QED
    BY <2>1, LeastOfSet
<1>4. \A m \in Queued : wait[m] \in S /\ wait[m] \in 0..Horizon
  BY DEF TypeOK, Queued
<1> QED
  BY <1>1, <1>2, <1>3, <1>4, CountsAssumption DEF Never

LEMMA CloseKeeps == ASSUME NEW other \in 0..Never, IInv, Close(other) PROVE IInv'
<1> USE DEF IInv, Close, worker, row, outboxRow, provider
<1>1. TypeOK'
  BY WantsAll DEF TypeOK
<1>2. HandlerOK'
  BY DEF TypeOK, HandlerOK, Queued
<1>3. SendOK'
  BY DEF TypeOK, HandlerOK, SendOK, Unknown
<1>4. RetriesAsScheduled'
  BY DEF TypeOK, SendOK, RetriesAsScheduled
<1>5. QueuedHasWakeup'
  BY WantsAll DEF QueuedHasWakeup, Queued
<1> QED
  BY <1>1, <1>2, <1>3, <1>4, <1>5

LEMMA DiesKeeps == ASSUME IInv, AlarmDies PROVE IInv'
<1> USE DEF IInv, AlarmDies, worker, row, outboxRow
<1>0. /\ \A m \in Msgs : broken'[m] = broken[m] + IF reply.msg = m THEN 1 ELSE 0
      /\ \A m \in Msgs : lost'[m] = lost[m] + IF reply.msg = m /\ reply.says = "sent" THEN 1 ELSE 0
      /\ reply' = NoReply /\ \A m \in Msgs : NoReply.msg # m
      /\ \A m \in Msgs : reply.msg = m => outbox[m] = "queued"
  BY DEF HandlerOK, Queued, NoReply, Msgs
<1>1. TypeOK'
  <2>1. broken' \in [Msgs -> Nat] /\ lost' \in [Msgs -> Nat]
    BY DEF TypeOK
  <2>2. \A h \in {accepted', tries', lost', broken'} : h \in [Msgs -> Nat]
    BY <2>1 DEF TypeOK
  <2>3. /\ reply' \in [msg: Msgs \cup {0}, says: {"none", "sent", "queued", "failed"}, copy: Nat]
        /\ faults' \in 0..MaxFaults /\ wake' \in 0..Never
    BY CountsAssumption DEF TypeOK, NoReply, Never
  <2> QED
    BY <2>2, <2>3 DEF TypeOK
<1>2. HandlerOK'
  BY DEF TypeOK, HandlerOK, Queued
<1>3. SendOK'
  BY <1>0 DEF TypeOK, SendOK, Unknown
<1>4. RetriesAsScheduled'
  BY <1>0 DEF TypeOK, RetriesAsScheduled
<1>5. QueuedHasWakeup'
  BY CountsAssumption DEF TypeOK, QueuedHasWakeup, Queued
<1> QED
  BY <1>1, <1>2, <1>3, <1>4, <1>5

LEMMA TimePasses ==
    ASSUME NEW delay \in 0..Horizon, IInv, Tick \/ OtherWake(delay) PROVE IInv'
<1> USE DEF IInv, Tick, OtherWake, worker, row, outboxRow, handler, provider
<1>0. /\ wake' \in 0..Never /\ wake' <= wake
      /\ \A m \in Msgs : wake <= wait[m] => wake' <= wait'[m]
      /\ wait' \in [Msgs -> 0..Horizon]
  BY CountsAssumption DEF TypeOK, Never
<1>1. TypeOK'
  BY <1>0 DEF TypeOK
<1>2. HandlerOK'
  BY DEF TypeOK, HandlerOK, Queued
<1>3. SendOK'
  BY DEF TypeOK, HandlerOK, SendOK, Unknown
<1>4. RetriesAsScheduled'
  BY DEF TypeOK, SendOK, RetriesAsScheduled
<1>5. QueuedHasWakeup'
  BY <1>0 DEF QueuedHasWakeup, Queued
<1> QED
  BY <1>1, <1>2, <1>3, <1>4, <1>5

\* A notification marks one message that is listed, or none.
LEMMA BounceMarks ==
    ASSUME NEW m \in Msgs, NEW copy, NEW named, NEW addressed, NEW permanent,
           TypeOK, Bounce(m, copy, named, addressed, permanent)
    PROVE  \/ status' = status
           \/ \E k \in Listed : status' = [status EXCEPT ![k] = "bounced"]
<1> DEFINE byId == IF named THEN Named(m, copy) ELSE {}
           target == IF byId = {} /\ addressed THEN Latest ELSE byId
<1>1. target = {} \/ \E k \in Listed : target = {k}
  <2>1. byId = {} \/ (m \in Listed /\ byId = {m})
    BY DEF Named
  <2>2. Latest = {} \/ \E k \in Listed : Latest = {k}
    <3> DEFINE open == {k \in Listed : status[k] # "bounced"}
    <3>1. CASE open = {}
      BY <3>1 DEF Latest
    <3>2. CASE open # {}
      <4>1. open \subseteq 1..N
        BY DEF Listed, Msgs
      <4>2. Max(open) \in open
        <5> HIDE DEF open
        <5> QED
          BY <3>2, <4>1, CountsAssumption, GreatestOfSet
      <4> QED
        BY <3>2, <4>2 DEF Latest
    <3> QED
      BY <3>1, <3>2
  <2> QED
    BY <2>1, <2>2
<1>2. status' = [k \in Msgs |-> IF k \in target THEN "bounced" ELSE status[k]]
  BY DEF Bounce
<1>3. status \in [Msgs -> Held \cup {"none", "purged"}] /\ Listed \subseteq Msgs
  BY DEF TypeOK, Listed
<1> HIDE DEF target
<1> QED
  BY <1>1, <1>2, <1>3

LEMMA BounceKeeps ==
    ASSUME NEW m \in Msgs, NEW copy, NEW named, NEW addressed, NEW permanent \in BOOLEAN,
           addressed \in BOOLEAN, IInv, Bounce(m, copy, named, addressed, permanent)
    PROVE  IInv'
<1> USE DEF IInv, worker, outboxRow, handler, provider
<1>0. \/ status' = status
      \/ \E k \in Listed : status' = [status EXCEPT ![k] = "bounced"]
  BY BounceMarks
<1>a. /\ bounces' \in 0..MaxBounces /\ suppressed' \in BOOLEAN
      /\ UNCHANGED <<pc, verdict, rowId, outbox, attempts, wait, wake, running, todo, reply,
                     accepted, faults, tries, lost, broken, refused>>
  BY CountsAssumption DEF Bounce, TypeOK
<1>1. TypeOK'
  BY <1>0, <1>a DEF TypeOK, Held
<1>2. HandlerOK'
  BY <1>a DEF HandlerOK, Queued
<1>3. SendOK'
  <2>1. \A k \in Msgs : /\ status[k] = "none" => status'[k] = "none"
                        /\ status[k] # "none" => status'[k] # "none"
    BY <1>0 DEF TypeOK, Listed, Held
  <2> QED
    BY <1>a, <2>1 DEF SendOK, Unknown
<1>4. RetriesAsScheduled'
  BY <1>a DEF RetriesAsScheduled
<1>5. QueuedHasWakeup'
  BY <1>a DEF QueuedHasWakeup, Queued
<1> QED
  BY <1>1, <1>2, <1>3, <1>4, <1>5

LEMMA PurgeKeeps == ASSUME NEW m \in Msgs, IInv, Purge(m) PROVE IInv'
<1> USE DEF IInv, Purge, Listed, Held, worker, outboxRow, handler, provider
<1>1. TypeOK'
  BY CountsAssumption DEF TypeOK
<1>2. HandlerOK'
  BY DEF TypeOK, HandlerOK, Queued
<1>3. SendOK'
  BY DEF TypeOK, HandlerOK, SendOK, Unknown
<1>4. RetriesAsScheduled'
  BY DEF TypeOK, SendOK, RetriesAsScheduled
<1>5. QueuedHasWakeup'
  BY DEF TypeOK, QueuedHasWakeup, Queued
<1> QED
  BY <1>1, <1>2, <1>3, <1>4, <1>5

LEMMA Initially == Init => IInv
<1> SUFFICES ASSUME Init PROVE IInv
  OBVIOUS
<1> USE CountsAssumption DEF Init
<1>1. TypeOK
  <2>1. \A h \in {accepted, tries, lost, broken} : h \in [Msgs -> Nat]
    OBVIOUS
  <2>2. /\ attempts \in [Msgs -> 0..MaxAttempts] /\ wait \in [Msgs -> 0..Horizon]
        /\ wake \in 0..Never /\ faults \in 0..MaxFaults /\ bounces \in 0..MaxBounces
    BY DEF Never
  <2>3. reply \in [msg: Msgs \cup {0}, says: {"none", "sent", "queued", "failed"}, copy: Nat]
    BY DEF NoReply
  <2>4. verdict \in [Msgs -> [says: {"none", "sent", "queued", "failed"}, copy: Nat]]
    OBVIOUS
  <2> QED
    BY <2>1, <2>2, <2>3, <2>4 DEF TypeOK, Held
<1>2. HandlerOK /\ RetriesAsScheduled /\ QueuedHasWakeup
  BY DEF HandlerOK, RetriesAsScheduled, QueuedHasWakeup, Queued
<1>3. SendOK
  BY DEF SendOK, Unknown
<1> QED
  BY <1>1, <1>2, <1>3 DEF IInv

LEMMA Stepwise == IInv /\ [Next]_vars => IInv'
<1> SUFFICES ASSUME IInv, [Next]_vars PROVE IInv'
  OBVIOUS
<1>1. ASSUME NEW m \in Msgs, Send(m) \/ SendStep(m) \/ SendFails(m) \/ Purge(m) PROVE IInv'
  BY <1>1, SendKeeps, DeliverKeeps, IndexKeeps, EnqueueKeeps, PurgeKeeps DEF SendStep
<1>2. CASE AlarmFires
  BY <1>2, FiresKeeps
<1>3. CASE Drain
  BY <1>3, SettleKeeps, RetryKeeps DEF Drain
<1>4. CASE AlarmEnds
  BY <1>4, CloseKeeps DEF AlarmEnds
<1>5. CASE AlarmDies
  BY <1>5, DiesKeeps
<1>6. CASE Tick
  BY <1>6, TimePasses, CountsAssumption
<1>7. ASSUME NEW delay \in 0..Horizon, OtherWake(delay) PROVE IInv'
  BY <1>7, TimePasses
<1>8. ASSUME NEW m \in Msgs, NEW copy \in 1..MaxFaults + 1,
             NEW named \in BOOLEAN, NEW addressed \in BOOLEAN, NEW permanent \in BOOLEAN,
             Bounce(m, copy, named, addressed, permanent)
      PROVE  IInv'
  BY <1>8, BounceKeeps
<1>9. CASE UNCHANGED vars
  <2> USE <1>9 DEF vars
  <2>1. TypeOK' = TypeOK
    BY DEF TypeOK
  <2>2. HandlerOK' = HandlerOK /\ SendOK' = SendOK
    BY DEF HandlerOK, SendOK, Unknown, Queued
  <2>3. RetriesAsScheduled' = RetriesAsScheduled /\ QueuedHasWakeup' = QueuedHasWakeup
    BY DEF RetriesAsScheduled, QueuedHasWakeup, Queued
  <2> QED
    BY <2>1, <2>2, <2>3 DEF IInv
<1> QED
  BY <1>1, <1>2, <1>3, <1>4, <1>5, <1>6, <1>7, <1>8, <1>9 DEF Next

LEMMA Invariance == Spec => []IInv
BY Initially, Stepwise, PTL DEF Spec

\* Every variable of Outbox keeps its type.
THEOREM TypeCorrect == Spec => []TypeOK
<1>1. IInv => TypeOK
  BY DEF IInv
<1> QED
  BY <1>1, Invariance, PTL

\* However often workers and alarms die and answers are lost, a row's attempts
\* count the offers of its message, and no row is given up before its time.
THEOREM KeepsSchedule == Spec => []RetriesAsScheduled
<1>1. IInv => RetriesAsScheduled
  BY DEF IInv
<1> QED
  BY <1>1, Invariance, PTL

\* Whatever sets the alarm, and whenever rows are enqueued, a queued row has the
\* alarm at work or set for no later than it is due.
THEOREM NoRowForgotten == Spec => []QueuedHasWakeup
<1>1. IInv => QueuedHasWakeup
  BY DEF IInv
<1> QED
  BY <1>1, Invariance, PTL

-----------------------------------------------------------------------------
(* The refinement of Delivery *)

\* How far the delivery of m is.
StageOf(m) ==
    IF outbox[m] = "queued" THEN "kept"
    ELSE IF pc[m] \in {"done", "dead"} THEN "over"
    ELSE IF pc[m] = "new" THEN "new" ELSE "sending"

LEMMA StageIs == Stage = [m \in Msgs |-> StageOf(m)]
BY DEF Stage, StageOf

\* What a step leaves alone of its worker and its outbox row is at the stage
\* it was at.
LEMMA StageKept ==
    ASSUME UNCHANGED <<pc, outbox>>
    PROVE  Stage' = Stage
BY DEF Stage

LEMMA StageMoved ==
    ASSUME NEW m \in Msgs, TypeOK, NEW s, StageOf(m)' = s,
           \A k \in Msgs \ {m} : pc'[k] = pc[k] /\ outbox'[k] = outbox[k]
    PROVE  Stage' = [Stage EXCEPT ![m] = s]
<1>1. Stage' = [k \in Msgs |-> StageOf(k)']
  BY DEF Stage, StageOf
<1>2. \A k \in Msgs \ {m} : StageOf(k)' = StageOf(k)
  BY DEF StageOf
<1> HIDE DEF StageOf
<1> QED
  BY <1>1, <1>2, StageIs

LEMMA DeliversSend ==
    ASSUME NEW m \in Msgs, IInv, Send(m) \/ SendFails(m)
    PROVE  D!Begin(m) \/ D!Lose(m)
<1>1. UNCHANGED <<status, accepted, lost>> /\ outbox' = outbox
  BY DEF Send, SendFails, row, provider, outboxRow
<1>2. outbox[m] = "none"
  BY DEF IInv, SendOK, TypeOK, Send, SendFails
<1>3. \A k \in Msgs \ {m} : pc'[k] = pc[k] /\ outbox'[k] = outbox[k]
  BY <1>1 DEF Send, SendFails, IInv, TypeOK
<1>4. CASE Send(m)
  <2>1. StageOf(m) = "new" /\ StageOf(m)' = "sending"
    BY <1>1, <1>2, <1>4 DEF Send, StageOf, IInv, TypeOK
  <2> QED
    BY <1>1, <1>3, <2>1, StageIs, StageMoved DEF D!Begin, IInv
<1>5. CASE SendFails(m)
  <2>1. StageOf(m) = "sending" /\ StageOf(m)' = "over"
    BY <1>1, <1>2, <1>5 DEF SendFails, StageOf, IInv, TypeOK
  <2> QED
    BY <1>1, <1>3, <2>1, StageIs, StageMoved DEF D!Lose, IInv
<1> QED
  BY <1>4, <1>5

\* An offer is a copy taken, or nothing.
LEMMA OfferTakes ==
    ASSUME NEW m \in Msgs, NEW o \in Outcomes, TypeOK, Offer(m, o), Unknown(m),
           StageOf(m) \in {"sending", "kept"}, Stage' = Stage, status' = status
    PROVE  D!Take(m) \/ UNCHANGED D!vars
<1>1. CASE o \in {"taken", "hidden"}
  <2>1. accepted' = [accepted EXCEPT ![m] = @ + 1]
    BY <1>1 DEF Offer
  <2>2. lost' \in {lost, [lost EXCEPT ![m] = @ + 1]}
    BY DEF Offer, TypeOK
  <2>3. ~ (accepted[m] > lost[m])
    BY DEF Unknown, TypeOK
  <2> QED
    BY <2>1, <2>2, <2>3, StageIs DEF D!Take, D!Delivering, D!Known
<1>2. CASE o \notin {"taken", "hidden"}
  <2>1. accepted' = accepted /\ lost' = lost
    BY <1>2 DEF Offer, TypeOK
  <2> QED
    BY <2>1 DEF D!vars
<1> QED
  BY <1>1, <1>2

LEMMA DeliversOffer ==
    ASSUME NEW m \in Msgs, IInv, Deliver(m) \/ Retry(m)
    PROVE  D!Take(m) \/ UNCHANGED D!vars
<1>1. PICK o \in Outcomes : Offer(m, o)
  BY DEF Deliver, Retry
<1>2. CASE Deliver(m)
  <2>1. Unknown(m) /\ outbox[m] = "none" /\ pc[m] = "deliver"
    BY <1>2 DEF IInv, SendOK, TypeOK, Deliver, Unknown
  <2>2. status' = status /\ outbox' = outbox /\ pc' = [pc EXCEPT ![m] = "index"]
    BY <1>2 DEF Deliver, row, outboxRow
  <2>3. \A k \in Msgs \ {m} : pc'[k] = pc[k] /\ outbox'[k] = outbox[k]
    BY <2>2 DEF IInv, TypeOK
  <2>4. StageOf(m) = "sending" /\ StageOf(m)' = "sending"
    BY <2>1, <2>2 DEF StageOf, IInv, TypeOK
  <2>5. Stage' = Stage
    <3>1. Stage' = [Stage EXCEPT ![m] = "sending"]
      BY <2>3, <2>4, StageMoved DEF IInv
    <3> QED
      BY <2>4, <3>1, StageIs
  <2> QED
    BY <1>1, <2>1, <2>2, <2>4, <2>5, OfferTakes DEF IInv
<1>3. CASE Retry(m)
  <2>1. Unknown(m) /\ outbox[m] = "queued"
    BY <1>3 DEF IInv, HandlerOK, SendOK, Queued, Retry, NoReply, Msgs
  <2>2. status' = status /\ Stage' = Stage
    BY <1>3, StageKept DEF Retry, row, worker, outboxRow
  <2>3. StageOf(m) = "kept"
    BY <2>1 DEF StageOf
  <2> QED
    BY <1>1, <2>1, <2>2, <2>3, OfferTakes DEF IInv
<1> QED
  BY <1>2, <1>3

LEMMA DeliversIndex ==
    ASSUME NEW m \in Msgs, IInv, Index(m)
    PROVE  \E s \in {"queued", "sent", "failed"} : D!Record(m, s)
<1> DEFINE s == verdict[m].says
<1>1. /\ s \in {"queued", "sent", "failed"} /\ outbox[m] = "none"
      /\ s = "sent" <=> accepted[m] > lost[m]
  BY DEF IInv, SendOK, TypeOK, Index, Unknown
<1>2. /\ status[m] = "none" /\ status' = [status EXCEPT ![m] = s]
      /\ UNCHANGED <<accepted, lost, outbox>>
  BY DEF IInv, SendOK, Index, provider, outboxRow
<1>3. pc' = [pc EXCEPT ![m] = IF s = "queued" THEN "enqueue" ELSE "done"]
  BY DEF Index, MustQueue
<1>4. StageOf(m) = "sending" /\ StageOf(m)' = IF s = "queued" THEN "sending" ELSE "over"
  BY <1>1, <1>2, <1>3 DEF StageOf, Index, IInv, TypeOK
<1>5. \A k \in Msgs \ {m} : pc'[k] = pc[k] /\ outbox'[k] = outbox[k]
  BY <1>2, <1>3 DEF IInv, TypeOK
<1> HIDE DEF s
<1>6. Stage' = [Stage EXCEPT ![m] = IF s = "queued" THEN "sending" ELSE "over"]
  BY <1>4, <1>5, StageMoved DEF IInv
<1>7. Stage[m] = "sending"
  BY <1>4, StageIs
<1>8. D!Record(m, s)
  BY <1>1, <1>2, <1>6, <1>7 DEF D!Record, D!Delivering, D!Known
<1> QED
  BY <1>1, <1>8

LEMMA DeliversEnqueue == ASSUME NEW m \in Msgs, IInv, Enqueue(m) PROVE D!Keep(m)
<1>1. outbox[m] = "none" /\ ~ (accepted[m] > lost[m]) /\ pc[m] = "enqueue"
  BY DEF IInv, SendOK, TypeOK, Enqueue, Unknown
<1>2. /\ pc' = [pc EXCEPT ![m] = "done"] /\ outbox' = [outbox EXCEPT ![m] = "queued"]
      /\ UNCHANGED <<status, accepted, lost>>
  BY DEF Enqueue, row, provider
<1>3. StageOf(m) = "sending" /\ StageOf(m)' = "kept"
  BY <1>1, <1>2 DEF StageOf, IInv, TypeOK
<1>4. \A k \in Msgs \ {m} : pc'[k] = pc[k] /\ outbox'[k] = outbox[k]
  BY <1>2 DEF IInv, TypeOK
<1> QED
  BY <1>1, <1>2, <1>3, <1>4, StageIs, StageMoved DEF D!Keep, D!Known, IInv

LEMMA DeliversSettle ==
    ASSUME IInv, Settle
    PROVE  \E m \in Msgs, s \in {"queued", "sent", "failed"} : D!Record(m, s)
<1>0. PICK m \in Msgs : m = reply.msg
  BY DEF IInv, HandlerOK, Queued, Settle
<1>1. /\ m \in Msgs /\ outbox[m] = "queued" /\ pc[m] = "done" /\ status[m] # "none"
      /\ reply.says = "sent" <=> accepted[m] > lost[m]
      /\ UNCHANGED <<pc, accepted, lost>>
  <2>1. m \in Msgs /\ outbox[m] = "queued" /\ pc[m] = "done" /\ status[m] # "none"
    BY <1>0 DEF IInv, HandlerOK, SendOK, Queued, Settle, NoReply
  <2>2. reply.says = "sent" <=> accepted[m] > lost[m]
    BY <1>0, <2>1 DEF IInv, SendOK, TypeOK, Unknown
  <2> QED
    BY <2>1, <2>2 DEF Settle, worker, provider
<1>2. PICK s \in {"queued", "sent", "failed"} :
        /\ s = "sent" <=> reply.says = "sent"
        /\ status' = [status EXCEPT ![m] = IF m \in Listed THEN s ELSE @]
        /\ outbox' = [outbox EXCEPT ![m] = s]
  <2> DEFINE delay == NextAttemptDelay(attempts[m])
  <2>1. CASE reply.says = "sent" /\ Accepted(m, reply.copy)
    BY <2>1 DEF Accepted, SetDelivery
  <2>2. CASE GiveUp(m) /\ reply.says # "sent"
    BY <2>2 DEF GiveUp, SetDelivery
  <2>3. CASE reply.says = "queued" /\ Reschedule(m, delay)
    BY <1>1, <2>3 DEF Reschedule, SetDelivery, IInv, TypeOK
  <2> QED
    BY <1>0, <2>1, <2>2, <2>3 DEF Settle
<1>3. status' = [status EXCEPT ![m] = IF @ = "purged" THEN @ ELSE s]
  BY <1>1, <1>2 DEF Listed, Held, IInv, TypeOK
<1>4. StageOf(m) = "kept" /\ StageOf(m)' = IF s = "queued" THEN "kept" ELSE "over"
  BY <1>1, <1>2 DEF StageOf, IInv, TypeOK
<1>5. \A k \in Msgs \ {m} : pc'[k] = pc[k] /\ outbox'[k] = outbox[k]
  BY <1>1, <1>2 DEF IInv, TypeOK
<1>6. Stage' = [Stage EXCEPT ![m] = IF s = "queued" THEN "kept" ELSE "over"]
  BY <1>1, <1>4, <1>5, StageMoved DEF IInv
<1>7. Stage[m] = "kept"
  BY <1>1, <1>4, StageIs
<1>8. D!Record(m, s)
  BY <1>1, <1>2, <1>3, <1>6, <1>7 DEF D!Record, D!Delivering, D!Known
<1> QED
  BY <1>1, <1>8
LEMMA DeliversDeath ==
    ASSUME IInv, AlarmDies
    PROVE  (\E m \in Msgs : D!Forget(m)) \/ UNCHANGED D!vars
<1>1. status' = status /\ accepted' = accepted /\ Stage' = Stage
  BY StageKept DEF AlarmDies, worker, row, outboxRow
<1>2. lost' = [m \in Msgs |-> lost[m] + IF reply.msg = m /\ reply.says = "sent" THEN 1 ELSE 0]
  BY DEF AlarmDies
<1>3. CASE reply # NoReply /\ reply.says = "sent"
  <2>1. PICK m \in Msgs : m = reply.msg
    BY <1>3 DEF IInv, HandlerOK, Queued
  <2>2. outbox[m] = "queued" /\ ~ Unknown(m)
    BY <1>3, <2>1 DEF IInv, HandlerOK, SendOK, Queued
  <2>3. accepted[m] > lost[m] /\ StageOf(m) = "kept"
    BY <2>2 DEF IInv, SendOK, TypeOK, Unknown, StageOf
  <2>4. lost' = [lost EXCEPT ![m] = @ + 1]
    <3>1. \A k \in Msgs : lost'[k] = IF k = m THEN lost[k] + 1 ELSE lost[k]
      BY <1>2, <1>3, <2>1 DEF IInv, TypeOK
    <3> QED
      BY <1>2, <3>1 DEF IInv, TypeOK
  <2> QED
    BY <1>1, <2>3, <2>4, StageIs DEF D!Forget, D!Delivering, D!Known
<1>4. CASE reply = NoReply \/ reply.says # "sent"
  <2>1. \A m \in Msgs : ~ (reply.msg = m /\ reply.says = "sent")
    BY <1>4 DEF NoReply
  <2>2. lost' = lost
    BY <1>2, <2>1 DEF IInv, TypeOK
  <2> QED
    BY <1>1, <2>2 DEF D!vars
<1> QED
  BY <1>3, <1>4

LEMMA DeliversBounce ==
    ASSUME NEW m \in Msgs, NEW copy, NEW named, NEW addressed, NEW permanent,
           IInv, Bounce(m, copy, named, addressed, permanent)
    PROVE  (\E k \in Msgs : D!Bounce(k)) \/ UNCHANGED D!vars
<1>1. accepted' = accepted /\ lost' = lost /\ Stage' = Stage
  BY StageKept DEF Bounce, worker, outboxRow, provider
<1>2. accepted[m] > 0
  BY DEF Bounce, IInv, TypeOK
<1>3. CASE status' = status
  BY <1>1, <1>3 DEF D!vars
<1>4. ASSUME NEW k \in Listed, status' = [status EXCEPT ![k] = "bounced"]
      PROVE  D!Bounce(k) /\ k \in Msgs
  BY <1>1, <1>2, <1>4 DEF D!Bounce, D!Shown, Listed, Held
<1> QED
  BY <1>3, <1>4, BounceMarks DEF IInv

LEMMA DeliversPurge == ASSUME NEW m \in Msgs, IInv, Purge(m) PROVE D!Purge(m)
<1>1. accepted' = accepted /\ lost' = lost /\ Stage' = Stage
  BY StageKept DEF Purge, worker, outboxRow, provider
<1> QED
  BY <1>1 DEF Purge, Listed, Held, D!Purge, D!Shown

\* The alarm and the clock say nothing to the owner or the provider.
LEMMA DeliversNothing ==
    ASSUME NEW n \in Nat,
           AlarmFires \/ Close(n) \/ Tick \/ OtherWake(n) \/ UNCHANGED vars
    PROVE  UNCHANGED D!vars
<1>1. UNCHANGED <<pc, outbox, status, accepted, lost>>
  BY DEF AlarmFires, Close, Tick, OtherWake, vars, worker, row, outboxRow, provider
<1> QED
  BY <1>1, StageKept DEF D!vars

LEMMA DeliversInit == Init => D!Init
<1> SUFFICES ASSUME Init PROVE D!Init
  OBVIOUS
<1>1. \A m \in Msgs : StageOf(m) = "new"
  BY DEF Init, StageOf
<1> QED
  BY <1>1, StageIs DEF Init, D!Init

LEMMA DeliversStep == IInv /\ [Next]_vars => [D!Next]_D!vars
<1> SUFFICES ASSUME IInv, [Next]_vars PROVE [D!Next]_D!vars
  OBVIOUS
<1>1. ASSUME NEW m \in Msgs, Send(m) \/ SendStep(m) \/ SendFails(m) \/ Purge(m)
      PROVE  [D!Next]_D!vars
  <2>1. CASE Send(m) \/ SendFails(m)
    BY <2>1, DeliversSend DEF D!Next
  <2>2. CASE SendStep(m)
    BY <2>2, DeliversOffer, DeliversIndex, DeliversEnqueue DEF SendStep, D!Next
  <2>3. CASE Purge(m)
    BY <2>3, DeliversPurge DEF D!Next
  <2> QED
    BY <1>1, <2>1, <2>2, <2>3
<1>2. CASE Drain
  BY <1>2, DeliversSettle, DeliversOffer DEF Drain, D!Next
<1>3. CASE AlarmFires \/ AlarmEnds \/ Tick \/ UNCHANGED vars
  <2>1. 0..Never \subseteq Nat /\ 0 \in Nat
    BY CountsAssumption DEF Never
  <2> QED
    BY <1>3, <2>1, DeliversNothing DEF AlarmEnds
<1>4. CASE AlarmDies
  BY <1>4, DeliversDeath DEF D!Next
<1>5. ASSUME NEW delay \in 0..Horizon, OtherWake(delay) PROVE [D!Next]_D!vars
  BY <1>5, DeliversNothing
<1>6. ASSUME NEW m \in Msgs, NEW copy \in 1..MaxFaults + 1,
             NEW named \in BOOLEAN, NEW addressed \in BOOLEAN, NEW permanent \in BOOLEAN,
             Bounce(m, copy, named, addressed, permanent)
      PROVE  [D!Next]_D!vars
  BY <1>6, DeliversBounce DEF D!Next
<1> QED
  BY <1>1, <1>2, <1>3, <1>4, <1>5, <1>6 DEF Next

\* Whatever the workers, the alarm, the provider and the owner do, the owner is
\* shown, and the provider has taken, what Delivery allows, step by step. That
\* each message is settled in the end is left to TLC.
THEOREM ImplementsDelivery == Spec => D!Safety
BY DeliversInit, DeliversStep, Invariance, PTL DEF Spec, D!Safety

-----------------------------------------------------------------------------
(* What Delivery promises is true *)

\* What was given up is over: no copy of it is taken any more.
GivenUp == \A m \in Msgs : status[m] = "failed" => Stage[m] = "over"

\* The inductive invariant.
DInv == D!TypeOK /\ GivenUp /\ D!Truthful

LEMMA DeliveryInit == D!Init => DInv
BY DEF D!Init, DInv, D!TypeOK, GivenUp, D!Truthful, D!Known

LEMMA DTakeKeeps == ASSUME NEW m \in Msgs, DInv, D!Take(m) PROVE DInv'
<1> USE DEF DInv
<1>1. D!TypeOK'
  BY DEF D!Take, D!TypeOK
<1>2. GivenUp'
  BY DEF D!Take, GivenUp
<1>3. accepted[m] <= lost[m]
  BY DEF D!Take, D!Known, D!TypeOK
<1>4. D!Truthful'
  <2> SUFFICES ASSUME NEW k \in Msgs
               PROVE /\ accepted'[k] <= lost'[k] + 1
                     /\ status'[k] = "sent" => accepted'[k] > 0
                     /\ status'[k] = "failed" => ~ (accepted'[k] > lost'[k])
    BY DEF D!Truthful, D!Known
  <2>1. CASE k = m
    <3>1. accepted'[m] = accepted[m] + 1 /\ lost'[m] \in {lost[m], lost[m] + 1}
      BY DEF D!Take, D!TypeOK
    <3>2. status'[m] # "failed"
      BY DEF D!Take, GivenUp, D!Delivering
    <3> QED
      BY <1>3, <2>1, <3>1, <3>2 DEF D!TypeOK
  <2>2. CASE k # m
    BY <2>2 DEF D!Take, D!TypeOK, D!Truthful, D!Known
  <2> QED
    BY <2>1, <2>2
<1> QED
  BY <1>1, <1>2, <1>4

LEMMA DForgetKeeps == ASSUME NEW m \in Msgs, DInv, D!Forget(m) PROVE DInv'
<1> USE DEF DInv
<1>1. D!TypeOK' /\ GivenUp'
  BY DEF D!Forget, D!TypeOK, GivenUp
<1>2. D!Truthful'
  BY DEF D!Forget, D!TypeOK, D!Truthful, D!Known
<1> QED
  BY <1>1, <1>2

LEMMA DRecordKeeps ==
    ASSUME NEW m \in Msgs, NEW s \in {"queued", "sent", "failed"}, DInv, D!Record(m, s)
    PROVE  DInv'
<1> USE DEF DInv
<1>1. D!TypeOK'
  BY DEF D!Record, D!TypeOK
<1>2. GivenUp'
  <2> SUFFICES ASSUME NEW k \in Msgs, status'[k] = "failed" PROVE Stage'[k] = "over"
    BY DEF GivenUp
  <2>1. CASE k = m
    BY <2>1 DEF D!Record, D!TypeOK
  <2>2. CASE k # m
    BY <2>2 DEF D!Record, D!TypeOK, GivenUp
  <2> QED
    BY <2>1, <2>2
<1>3. D!Truthful'
  BY DEF D!Record, D!TypeOK, D!Truthful, D!Known
<1> QED
  BY <1>1, <1>2, <1>3

\* The other steps leave the accepted alone, and show nothing as sent or failed
\* that was not.
LEMMA DOthersKeep ==
    ASSUME NEW m \in Msgs, DInv,
           D!Begin(m) \/ D!Keep(m) \/ D!Lose(m) \/ D!Bounce(m) \/ D!Purge(m)
    PROVE  DInv'
<1> USE DEF DInv
<1>1. CASE D!Begin(m) \/ D!Keep(m) \/ D!Lose(m)
  BY <1>1 DEF D!Begin, D!Keep, D!Lose, D!TypeOK, GivenUp, D!Truthful, D!Known
<1>2. CASE D!Bounce(m) \/ D!Purge(m)
  BY <1>2 DEF D!Bounce, D!Purge, D!TypeOK, GivenUp, D!Truthful, D!Known
<1> QED
  BY <1>1, <1>2

LEMMA DStepwise == DInv /\ [D!Next]_D!vars => DInv'
<1> SUFFICES ASSUME DInv, [D!Next]_D!vars PROVE DInv'
  OBVIOUS
<1>1. CASE D!Next
  BY <1>1, DTakeKeeps, DForgetKeeps, DRecordKeeps, DOthersKeep DEF D!Next
<1>2. CASE UNCHANGED D!vars
  BY <1>2 DEF D!vars, DInv, D!TypeOK, GivenUp, D!Truthful, D!Known
<1> QED
  BY <1>1, <1>2

\* Whoever delivers as Delivery promises takes no second copy but for one that
\* nobody learned of, shows nothing as sent that was not taken, and gives up
\* nothing that is known to have been (deliver, settleOutbox, setDelivery).
THEOREM DeliveryIsTruthful == D!Safety => []D!Truthful
<1>1. DInv => D!Truthful
  BY DEF DInv
<1>2. D!Safety => []DInv
  BY DeliveryInit, DStepwise, PTL DEF D!Safety
<1> QED
  BY <1>1, <1>2, PTL

\* No message is taken twice but for a copy nobody learned of, none is shown as
\* sent that was not taken, or as failed that is known to have been.
THEOREM OutboxIsTruthful == Spec => []D!Truthful
BY ImplementsDelivery, DeliveryIsTruthful, PTL
==============================================================================
