------------------------------ MODULE Import -------------------------------
(***************************************************************************)
(* Bringing past mail of a Gmail account into its mailbox: the ImportDO.   *)
(*                                                                         *)
(* Its alarm first lists the ids of a window of time, then brings the      *)
(* messages in, a batch per alarm and a few workers at a time, then lists  *)
(* the window once more for what is missing. The handler works on a copy   *)
(* of the import's state and writes it back at the end, while a person     *)
(* connects, asks for older mail or disconnects, Google withdraws its      *)
(* grant, calls fail and the object restarts.                              *)
(*                                                                         *)
(* Storing a message in the mailbox (ingest) is one step here: Ingest is   *)
(* about its interleavings. Counts that are only shown, the texts of       *)
(* errors and the lengths of delays are left out.                          *)
(*                                                                         *)
(* A Bug... operator is the operator that follows it with a mistake in it. *)
(***************************************************************************)
EXTENDS Integers, FiniteSets

CONSTANTS
    N,           \* messages at Gmail, numbered from the newest
    Targets,     \* the last messages of the windows one can ask for
    PageSize,    \* ids in a page of Gmail's list
    PagesPerRun, \* PAGES_PER_RUN
    Batch,       \* BATCH
    Workers,     \* there are PARALLEL of them
    MaxAttempts, \* MAX_ATTEMPTS
    SortBudget,  \* sortBudget
    Kinds,       \* the kinds the messages may be of
    MaxCalls,    \* bound on imports asked for
    MaxFaults    \* bound on calls that fail and on restarts

ASSUME SizesAssumption ==
    /\ {N, PageSize, PagesPerRun, Batch, MaxAttempts} \subseteq Nat \ {0}
    /\ {SortBudget, MaxCalls, MaxFaults} \subseteq Nat
    /\ Kinds \subseteq [1..N -> {"fine", "poison", "unfit"}]
    /\ IsFiniteSet(Workers) /\ Workers # {} /\ Targets \subseteq 1..N

VARIABLES
    gmail,  \* messages still at Gmail
    stored, \* messages in the mailbox
    linked, \* gmail_ext: messages known to have been brought in
    st,     \* meta 'state'
    queue,  \* the rows of the queue
    tries,  \* their attempts
    skipped,\* the rows of skipped
    alarm,  \* is an alarm set?
    run,    \* what the alarm's handler is doing
    work,   \* what each worker of a batch is doing
    kind,   \* fine, impossible to bring in, or one that Busta does not take: over
            \* the size limit, a draft, spam
    conn,   \* the account's connection to Gmail
    grant,  \* does Google accept Busta's access?
    calls, faults,
    asked,  \* history: messages of this import given to the rules
    gaveUp, \* history: messages given up on
    excuse  \* history: what happened to this import

import == <<st, queue, tries, skipped, alarm>>
outside == <<kind, gmail, stored, linked, conn, grant>>
history == <<asked, gaveUp, excuse>>
vars == <<kind, gmail, stored, linked, st, queue, tries, skipped, alarm, run, work, conn, grant,
          calls, faults, asked, gaveUp, excuse>>

Mail == 1..N

\* ImportState. A window is the messages after from and up to to (query and
\* coveredAfter); token is the last one listed, 0 when it is null; counted
\* stands for total > 0.
State == [phase: {"none", "listing", "importing", "paused", "done"}, from: 0..N, to: 0..N,
          token: 0..N, counted: BOOLEAN, sorted: Nat, reconciled: BOOLEAN]
NoState == [phase |-> "none", from |-> 0, to |-> 0, token |-> 0, counted |-> FALSE,
            sorted |-> 0, reconciled |-> FALSE]

\* The handler: its copy of the state, the last message it listed and the pages
\* it read, the batch it has yet to take with the attempts as it read them,
\* whether a worker was refused, and (history) whether the import was cancelled
\* under it.
IdleRun == [pc |-> "idle", st |-> NoState, at |-> 0, pages |-> 0, todo |-> {},
            tries |-> [m \in Mail |-> 0], refused |-> FALSE, stale |-> FALSE]
IdleWork == [pc |-> "idle", m |-> 0, sort |-> FALSE, fresh |-> FALSE]

Active == st.phase \in {"listing", "importing"}

\* Every variable has its type, and the attempts of a row stay below the limit.
TypeOK ==
    /\ kind \in Kinds
    /\ gmail \subseteq Mail /\ stored \subseteq Mail /\ linked \subseteq stored
    /\ st \in State
    /\ queue \subseteq Mail /\ skipped \subseteq Mail
    /\ tries \in [Mail -> 0..MaxAttempts - 1]
    /\ alarm \in BOOLEAN
    /\ run \in [pc: {"idle", "list", "work", "recon"}, st: State, at: 0..N,
                pages: 0..PagesPerRun - 1, todo: SUBSET Mail,
                tries: [Mail -> 0..MaxAttempts - 1], refused: BOOLEAN, stale: BOOLEAN]
    /\ work \in [Workers -> [pc: {"idle", "fetch", "store", "link", "sort"},
                             m: 0..N, sort: BOOLEAN, fresh: BOOLEAN]]
    /\ conn \in {"off", "live", "leaving"} /\ grant \in BOOLEAN
    /\ calls \in 0..MaxCalls /\ faults \in 0..MaxFaults
    /\ asked \in Nat /\ gaveUp \subseteq Mail
    /\ excuse \subseteq {"revived", "abandoned", "uncounted"}

Init ==
    /\ kind \in Kinds
    /\ gmail = Mail /\ stored = {} /\ linked = {}
    /\ st = NoState /\ queue = {} /\ tries = [m \in Mail |-> 0] /\ skipped = {}
    /\ alarm = FALSE /\ run = IdleRun /\ work = [w \in Workers |-> IdleWork]
    /\ conn = "off" /\ grant = FALSE
    /\ calls = 0 /\ faults = 0
    /\ asked = 0 /\ gaveUp = {} /\ excuse = {}

-----------------------------------------------------------------------------
(* The alarm *)

\* INSERT OR IGNORE INTO queue
Enqueue(ms) == queue' = queue \cup ms

\* A row that is deleted takes its attempts with it.
Dequeue(m) ==
    /\ queue' = queue \ {m}
    /\ tries' = [tries EXCEPT ![m] = 0]

\* The handler ends and writes s as the state.
Finish(s) ==
    /\ st' = s
    /\ run' = IdleRun
    /\ excuse' = IF run.stale THEN excuse \cup {"revived"} ELSE excuse

\* The handler starts a list at this message.
From(s) == IF s.token = 0 THEN s.from ELSE s.token

Fire ==
    /\ alarm /\ run.pc = "idle"
    /\ alarm' = FALSE
    /\ \/ ~Active /\ UNCHANGED run
       \/ /\ st.phase = "listing"
          /\ run' = [IdleRun EXCEPT !.pc = "list", !.st = st, !.at = From(st)]
       \/ /\ st.phase = "importing"
          /\ \E batch \in SUBSET queue :
               /\ Cardinality(batch) = IF Cardinality(queue) < Batch THEN Cardinality(queue) ELSE Batch
               /\ run' = [IdleRun EXCEPT !.pc = "work", !.st = st, !.todo = batch, !.tries = tries]
    /\ UNCHANGED <<outside, st, queue, tries, skipped, work, calls, faults, history>>

\* The next page of the list: its messages, and whether another one follows.
PageEnd == IF run.at + PageSize < run.st.to THEN run.at + PageSize ELSE run.st.to
Page == {m \in gmail : run.at < m /\ m <= PageEnd}
LastPage == PageEnd = run.st.to

ListPage ==
    /\ run.pc = "list" /\ grant
    /\ Enqueue(Page)
    /\ LET s == [run.st EXCEPT !.counted = @ \/ Page # {}] IN
         IF LastPage \/ run.pages + 1 = PagesPerRun
         THEN /\ Finish([s EXCEPT !.token = IF LastPage THEN 0 ELSE PageEnd,
                                  !.phase = IF LastPage THEN "importing" ELSE @])
              /\ alarm' = TRUE
         ELSE /\ run' = [run EXCEPT !.st = s, !.at = PageEnd, !.pages = @ + 1]
              /\ UNCHANGED <<st, alarm, excuse>>
    /\ UNCHANGED <<outside, tries, skipped, work, calls, faults, asked, gaveUp>>

\* A call that lists fails: for want of access, or for another reason.
Refused ==
    /\ Finish([run.st EXCEPT !.phase = "paused"])
    /\ UNCHANGED alarm

ListFails ==
    /\ run.pc \in {"list", "recon"}
    /\ \/ ~grant /\ Refused /\ UNCHANGED faults
       \/ /\ faults < MaxFaults /\ faults' = faults + 1
          /\ \/ Refused
             \/ Finish(run.st) /\ alarm' = TRUE
    /\ UNCHANGED <<outside, queue, tries, skipped, work, calls, asked, gaveUp>>

\* Tests the count that was saved when the batch began.
BugWithinBudget == st.sorted < SortBudget

WithinBudget == run.st.sorted < SortBudget

\* A worker is done with its message: stored, or else known, a duplicate, too
\* large or gone.
Done(w, m, isNew) ==
    /\ Dequeue(m)
    /\ run' = [run EXCEPT !.todo = @ \ {m}, !.st.sorted = IF isNew THEN @ + 1 ELSE @]
    /\ work' = [work EXCEPT ![w] = IdleWork]

\* A worker takes the next message of the batch: is it there already?
Take(w) ==
    /\ run.pc = "work" /\ work[w].pc = "idle" /\ ~run.refused
    /\ \E m \in run.todo :
         \/ m \in linked /\ Done(w, m, FALSE)
         \/ /\ m \notin linked
            /\ run' = [run EXCEPT !.todo = @ \ {m}]
            /\ work' = [work EXCEPT ![w] = [pc |-> "fetch", m |-> m, sort |-> WithinBudget, fresh |-> FALSE]]
            /\ UNCHANGED <<queue, tries>>
    /\ UNCHANGED <<outside, st, skipped, alarm, calls, faults, history>>

Go(w, pc) == work' = [work EXCEPT ![w].pc = pc] /\ UNCHANGED <<queue, tries, run>>

Poisoned(m) == m \in gmail /\ kind[m] = "poison"

\* The message from Gmail, which may have been deleted there (404).
Fetch(w) ==
    /\ work[w].pc = "fetch" /\ grant /\ ~Poisoned(work[w].m)
    /\ IF work[w].m \in gmail /\ kind[work[w].m] = "fine" THEN Go(w, "store") ELSE Done(w, work[w].m, FALSE)
    /\ UNCHANGED <<outside, st, skipped, alarm, calls, faults, history>>

\* ingest, one worker at a time (exclusive).
Store(w) ==
    /\ work[w].pc = "store" /\ \A v \in Workers : work[v].pc # "link"
    /\ stored' = stored \cup {work[w].m}
    /\ work' = [work EXCEPT ![w].pc = "link", ![w].fresh = work[w].m \notin stored]
    /\ UNCHANGED <<kind, gmail, linked, conn, grant, import, run, calls, faults, history>>

\* linkGmail
Link(w) ==
    /\ work[w].pc = "link"
    /\ linked' = linked \cup {work[w].m}
    /\ IF work[w].fresh /\ work[w].sort THEN Go(w, "sort") ELSE Done(w, work[w].m, work[w].fresh)
    /\ UNCHANGED <<kind, gmail, stored, conn, grant, st, skipped, alarm, calls, faults, history>>

\* fileMessage
Sort(w) ==
    /\ work[w].pc = "sort"
    /\ Done(w, work[w].m, TRUE)
    /\ asked' = asked + 1
    /\ UNCHANGED <<outside, st, skipped, alarm, calls, faults, gaveUp, excuse>>

\* The worker stops, and its message stays in the queue.
Stays(w) == work' = [work EXCEPT ![w] = IdleWork]

LastTry(m) == run.tries[m] + 1 >= MaxAttempts

\* A failure that is the message's: it is tried again, or given up on.
Miss(w) ==
    LET m == work[w].m IN
    /\ Stays(w) /\ UNCHANGED run
    /\ IF ~LastTry(m)
       THEN /\ tries' = [tries EXCEPT ![m] = IF m \in queue THEN @ + 1 ELSE @]
            /\ UNCHANGED <<queue, skipped, gaveUp>>
       ELSE /\ Dequeue(m)
            /\ skipped' = skipped \cup {m}
            /\ gaveUp' = gaveUp \cup {m}

\* A worker was refused: it stops, and the others take no more.
Deny(w) ==
    /\ Stays(w)
    /\ run' = [run EXCEPT !.refused = TRUE]
    /\ UNCHANGED <<queue, tries, skipped, gaveUp>>

WorkFails(w) ==
    /\ work[w].pc # "idle"
    /\ \/ /\ work[w].pc = "fetch" /\ UNCHANGED <<linked, faults, asked, excuse>>
          /\ \/ ~grant /\ Deny(w)
             \/ grant /\ Poisoned(work[w].m) /\ Miss(w)
       \/ /\ faults < MaxFaults /\ faults' = faults + 1
          /\ \/ Miss(w)
             \/ Stays(w) /\ UNCHANGED <<run, queue, tries, skipped, gaveUp>>
             \/ work[w].pc = "fetch" /\ Deny(w)
          /\ \/ UNCHANGED linked
             \/ work[w].pc = "link" /\ linked' = linked \cup {work[w].m}
          /\ IF work[w].pc = "sort"
             THEN asked' = asked + 1 /\ excuse' = excuse \cup {"uncounted"}
             ELSE UNCHANGED <<asked, excuse>>
    /\ UNCHANGED <<kind, gmail, stored, conn, grant, st, alarm, calls>>

\* Ends without the second list.
BugBatchEnds ==
    /\ run.pc = "work" /\ \A w \in Workers : work[w].pc = "idle"
    /\ run.todo = {} \/ run.refused
    /\ \/ run.refused /\ Refused
       \/ /\ ~run.refused /\ queue # {}
          /\ Finish(run.st) /\ alarm' = TRUE
       \/ /\ ~run.refused /\ queue = {}
          /\ Finish([run.st EXCEPT !.phase = "done", !.reconciled = TRUE]) /\ UNCHANGED alarm
    /\ UNCHANGED <<outside, queue, tries, skipped, work, calls, faults, asked, gaveUp>>

\* The end of a batch.
BatchEnds ==
    /\ run.pc = "work" /\ \A w \in Workers : work[w].pc = "idle"
    /\ run.todo = {} \/ run.refused
    /\ \/ run.refused /\ Refused
       \/ /\ ~run.refused /\ queue # {}
          /\ Finish(run.st) /\ alarm' = TRUE
       \/ /\ ~run.refused /\ queue = {} /\ run.st.reconciled
          /\ Finish([run.st EXCEPT !.phase = "done"]) /\ UNCHANGED alarm
       \/ /\ ~run.refused /\ queue = {} /\ ~run.st.reconciled
          /\ st' = run.st
          /\ run' = [run EXCEPT !.pc = "recon", !.at = run.st.from, !.tries = IdleRun.tries]
          /\ excuse' = IF run.stale THEN excuse \cup {"revived"} ELSE excuse
          /\ UNCHANGED alarm
    /\ UNCHANGED <<outside, queue, tries, skipped, work, calls, faults, asked, gaveUp>>

\* Forgets that it has done so.
BugReconcile ==
    /\ run.pc = "recon" /\ grant
    /\ Enqueue(Page \ linked)
    /\ IF LastPage
       THEN /\ skipped' = {}
            /\ Finish(run.st) /\ alarm' = TRUE
       ELSE /\ run' = [run EXCEPT !.at = PageEnd]
            /\ UNCHANGED <<st, skipped, alarm, excuse>>
    /\ UNCHANGED <<outside, tries, work, calls, faults, asked, gaveUp>>

\* #reconcile: the window is listed again, and what is not known is queued.
Reconcile ==
    /\ run.pc = "recon" /\ grant
    /\ Enqueue(Page \ linked)
    /\ IF LastPage
       THEN /\ skipped' = {}
            /\ Finish([run.st EXCEPT !.reconciled = TRUE]) /\ alarm' = TRUE
       ELSE /\ run' = [run EXCEPT !.at = PageEnd]
            /\ UNCHANGED <<st, skipped, alarm, excuse>>
    /\ UNCHANGED <<outside, tries, work, calls, faults, asked, gaveUp>>

\* The object restarts; the platform runs the alarm again.
Crash ==
    /\ run.pc # "idle" /\ faults < MaxFaults
    /\ faults' = faults + 1
    /\ run' = IdleRun /\ work' = [w \in Workers |-> IdleWork]
    /\ alarm' = TRUE
    /\ excuse' = excuse \cup {"uncounted"}
    /\ UNCHANGED <<outside, st, queue, tries, skipped, calls, asked, gaveUp>>

-----------------------------------------------------------------------------
(* The person, and Google *)

\* start, for a window.
Begin(from, to) ==
    /\ st' = [NoState EXCEPT !.phase = "listing", !.from = from, !.to = to]
    /\ alarm' = TRUE
    /\ asked' = 0

\* resume
Resume ==
    /\ st' = [st EXCEPT !.phase = IF st.token # 0 \/ ~st.counted THEN "listing" ELSE "importing"]
    /\ alarm' = TRUE

\* Back from Google's consent: the vault has its token, and the import starts,
\* or goes on if there is one.
Connect ==
    /\ conn # "leaving" /\ calls < MaxCalls
    /\ calls' = calls + 1
    /\ conn' = "live" /\ grant' = TRUE
    /\ \/ /\ st = NoState
          /\ \E to \in Targets : Begin(0, to)
          /\ gaveUp' = {} /\ excuse' = {}
       \/ st.phase = "paused" /\ Resume /\ UNCHANGED <<asked, gaveUp, excuse>>
       \/ /\ st.phase \in {"listing", "importing", "done"}
          /\ UNCHANGED <<st, alarm, asked, gaveUp, excuse>>
    /\ UNCHANGED <<kind, gmail, stored, linked, queue, tries, skipped, run, work, faults>>

\* "Bring in older mail": start, with older, when there is any. That the import
\* is paused is not looked at, only that the mailbox has not met a refusal yet.
Older ==
    /\ conn = "live" /\ calls < MaxCalls
    /\ calls' = calls + 1
    /\ ~Active /\ st # NoState
    /\ \E to \in Targets : to > st.to /\ Begin(st.to, to)
    /\ excuse' = (excuse \ {"uncounted"}) \cup (IF st.phase = "paused" THEN {"abandoned"} ELSE {})
    /\ UNCHANGED <<outside, queue, tries, skipped, run, work, faults, gaveUp>>

\* Disconnecting, which can be repeated, cancels the import ...
Cancel ==
    /\ conn # "leaving" /\ calls > 0
    /\ conn' = "leaving"
    /\ st' = NoState /\ queue' = {} /\ tries' = [m \in Mail |-> 0]
    /\ alarm' = FALSE
    /\ run' = [run EXCEPT !.stale = run.pc # "idle"]
    /\ UNCHANGED <<kind, gmail, stored, linked, skipped, work, grant, calls, faults, history>>

\* ... and gives Google its access back.
Disconnect ==
    /\ conn = "leaving"
    /\ conn' = "off" /\ grant' = FALSE
    /\ UNCHANGED <<kind, gmail, stored, linked, import, run, work, calls, faults, history>>

\* The person withdraws Busta's access at Google.
Withdraw ==
    /\ grant /\ faults < MaxFaults
    /\ grant' = FALSE /\ faults' = faults + 1
    /\ UNCHANGED <<kind, gmail, stored, linked, conn, import, run, work, calls, history>>

\* A message is deleted at Gmail.
Vanish(m) ==
    /\ m \in gmail /\ faults < MaxFaults
    /\ gmail' = gmail \ {m} /\ faults' = faults + 1
    /\ UNCHANGED <<kind, stored, linked, conn, grant, import, run, work, calls, history>>

-----------------------------------------------------------------------------

WorkStep(w) == Take(w) \/ Fetch(w) \/ Store(w) \/ Link(w) \/ Sort(w) \/ WorkFails(w)
AlarmStep == Fire \/ ListPage \/ ListFails \/ BatchEnds \/ Reconcile

Next ==
    \/ AlarmStep \/ Crash
    \/ \E w \in Workers : WorkStep(w)
    \/ Connect \/ Older \/ Cancel \/ Disconnect \/ Withdraw
    \/ \E m \in Mail : Vanish(m)

\* The platform runs an alarm that is set and goes on with what it started.
Fairness == WF_vars(AlarmStep) /\ \A w \in Workers : WF_vars(WorkStep(w))

Spec == Init /\ [][Next]_vars /\ Fairness

-----------------------------------------------------------------------------
(* Correctness *)

\* An import that is done has brought in all mail down to where it says it
\* covers, but for what it gave up on, what is too large and what Gmail no
\* longer has: whatever failed, paused or restarted meanwhile. Exceptions: a
\* cancelled import that was written back, and one replaced while it was paused.
DoneMeansAll ==
    st.phase = "done" /\ excuse \cap {"revived", "abandoned"} = {} =>
        \A m \in gmail : m <= st.to => m \in linked \cup gaveUp \/ kind[m] = "unfit"

\* The rules are asked about no more messages than the budget allows, and those
\* the other workers were at when it ran out, unless a count was lost.
SortsBounded ==
    "uncounted" \notin excuse => asked <= SortBudget + Cardinality(Workers) - 1

\* An import under way comes to its end, or to a stop that is shown.
ImportEnds == Active ~> ~Active
=============================================================================
