---------------------------- MODULE ImportProofs ----------------------------
(***************************************************************************)
(* Proofs about the two ways mail comes in (Arrivals). Of Import, for any  *)
(* messages, windows, workers and bounds: its types, that "done" means     *)
(* all, and the bound on sorts. Of Ingest (its names begin with D!), for   *)
(* any runs, mails and replies, and however often runs fail, purgers die   *)
(* and the mailbox is deleted: the invariants TLC checks with three runs.  *)
(***************************************************************************)
EXTENDS Arrivals, FiniteSetTheorems, TLAPS

-----------------------------------------------------------------------------
(* Import: the inductive invariant *)

\* What the workers hold, none twice, and how often each was tried at most.
HeldOK ==
    /\ run.pc # "work" => \A w \in Workers : work[w].pc = "idle"
    /\ \A m \in run.todo : tries[m] <= run.tries[m]
    /\ \A w \in Workers : work[w].pc # "idle" =>
         /\ work[w].m \in Mail \ run.todo
         /\ tries[work[w].m] <= run.tries[work[w].m]
         /\ work[w].pc \in {"link", "sort"} => work[w].m \in stored
         /\ \A v \in Workers \ {w} : work[v].pc # "idle" => work[v].m # work[w].m

\* The copy the handler works on is of the import there is, unless that was
\* cancelled meanwhile.
CopyOK ==
    run.pc # "idle" =>
      /\ run.st.phase \in {"listing", "importing"}
      /\ ~run.stale =>
           /\ st.phase \in {"listing", "importing"}
           /\ run.st.from = st.from /\ run.st.to = st.to
           /\ run.st.reconciled = st.reconciled

Clean == excuse \cap {"revived", "abandoned"} = {}
Settled(m) == m \in linked \cup gaveUp \/ kind[m] = "unfit" \/ m \notin gmail
Brought(k) == \A m \in Mail : m <= k => Settled(m)
Listed(k) == \A m \in Mail : m <= k => Settled(m) \/ m \in queue

WindowOK ==
    Clean /\ st.phase # "none" =>
      /\ Brought(st.from)
      /\ st.reconciled => Listed(st.to)
      /\ st.phase = "done" => Brought(st.to)
      /\ run.pc = "recon" /\ ~run.stale => Listed(run.at)

Sorting == {w \in Workers : work[w].pc # "idle" /\ work[w].sort}
CountOK ==
    /\ \A w \in Sorting : SortBudget > 0
    /\ "uncounted" \notin excuse =>
         /\ run.pc = "idle" /\ st.phase # "none" => asked <= st.sorted
         /\ run.pc # "idle" => asked <= run.st.sorted
         /\ asked + Cardinality(Sorting) <= SortBudget + Cardinality(Workers) - 1

\* What a worker sorts has been linked, and was within the budget.
LinkedOK == \A w \in Workers : work[w].pc = "sort" => work[w].m \in linked /\ work[w].sort

\* There is an import, or there is none.
NoneOK == st.phase = "none" => st = NoState

IInv == TypeOK /\ HeldOK /\ LinkedOK /\ NoneOK /\ CopyOK /\ WindowOK /\ CountOK

-----------------------------------------------------------------------------
(* Types *)

Run == [pc: {"idle", "list", "work", "recon"}, st: State, at: 0..N,
        pages: 0..PagesPerRun - 1, todo: SUBSET Mail,
        tries: [Mail -> 0..MaxAttempts - 1], refused: BOOLEAN, stale: BOOLEAN]
Work == [pc: {"idle", "fetch", "store", "link", "sort"}, m: 0..N, sort: BOOLEAN, fresh: BOOLEAN]

LEMMA Sizes ==
    /\ N \in Nat \ {0} /\ PageSize \in Nat \ {0} /\ PagesPerRun \in Nat \ {0}
    /\ Batch \in Nat \ {0} /\ MaxAttempts \in Nat \ {0}
    /\ SortBudget \in Nat /\ MaxCalls \in Nat /\ MaxFaults \in Nat
BY SizesAssumption

LEMMA Nothing == IdleRun \in Run /\ IdleWork \in Work /\ NoState \in State
<1>1. NoState \in State
  BY Sizes DEF NoState, State
<1>2. [m \in Mail |-> 0] \in [Mail -> 0..MaxAttempts - 1]
  BY Sizes
<1>3. IdleRun \in Run
  BY <1>1, <1>2, Sizes DEF IdleRun, Run
<1>4. IdleWork \in Work
  BY Sizes DEF IdleWork, Work
<1> QED
  BY <1>1, <1>3, <1>4

LEMMA InitTyped == Init => TypeOK
<1> SUFFICES ASSUME Init PROVE TypeOK
  OBVIOUS
<1> USE DEF Init
<1>1. run \in Run /\ work \in [Workers -> Work] /\ st \in State
  BY Nothing
<1>2. tries \in [Mail -> 0..MaxAttempts - 1]
  BY Sizes
<1>3. calls \in 0..MaxCalls /\ faults \in 0..MaxFaults /\ asked \in Nat
  BY Sizes
<1>4. alarm \in BOOLEAN /\ grant \in BOOLEAN
  OBVIOUS
<1> QED
  BY <1>1, <1>2, <1>3, <1>4 DEF TypeOK, Run, Work

\* The handler ends with a state.
LEMMA FinishTyped ==
    ASSUME TypeOK, NEW s \in State, Finish(s)
    PROVE  st' \in State /\ run' \in Run /\ excuse' \subseteq {"revived", "abandoned", "uncounted"}
BY Nothing DEF TypeOK, Finish

LEMMA PageEnds == ASSUME TypeOK PROVE PageEnd \in 0..N /\ Page \subseteq Mail
<1>1. run.at \in 0..N /\ run.st.to \in 0..N
  BY DEF TypeOK, State
<1>2. Page \subseteq Mail
  BY DEF TypeOK, Page
<1> QED
  BY <1>1, <1>2, Sizes DEF PageEnd

LEMMA DequeueTyped ==
    ASSUME TypeOK, NEW m \in Mail, Dequeue(m)
    PROVE  queue' \subseteq Mail /\ tries' \in [Mail -> 0..MaxAttempts - 1]
BY Sizes DEF TypeOK, Dequeue

LEMMA WorkTyped ==
    ASSUME TypeOK, NEW w \in Workers, NEW j \in Work, work' = [work EXCEPT ![w] = j]
    PROVE  work' \in [Workers -> Work]
BY DEF TypeOK, Work

LEMMA DoneTyped ==
    ASSUME TypeOK, NEW w \in Workers, NEW m \in Mail, NEW isNew \in BOOLEAN, Done(w, m, isNew)
    PROVE  /\ queue' \subseteq Mail /\ tries' \in [Mail -> 0..MaxAttempts - 1]
           /\ run' \in Run /\ work' \in [Workers -> Work]
<1>1. run \in Run
  BY DEF TypeOK, Run
<1>2. run' \in Run
  <2> DEFINE k == IF isNew THEN run.st.sorted + 1 ELSE run.st.sorted
  <2>1. run.st \in State /\ run.st.sorted \in Nat
    BY <1>1 DEF Run, State
  <2>2. [run.st EXCEPT !.sorted = k] \in State
    BY <2>1 DEF State
  <2>3. run' = [run EXCEPT !.todo = @ \ {m}, !.st = [run.st EXCEPT !.sorted = k]]
    BY <1>1 DEF Done, Run, State
  <2> QED
    BY <1>1, <2>2, <2>3 DEF Run
<1>3. work' \in [Workers -> Work]
  BY WorkTyped, Nothing DEF Done
<1> QED
  BY <1>2, <1>3, DequeueTyped DEF Done

LEMMA GoTyped ==
    ASSUME TypeOK, NEW w \in Workers, NEW next \in {"fetch", "store", "link", "sort"}, Go(w, next)
    PROVE  /\ queue' \subseteq Mail /\ tries' \in [Mail -> 0..MaxAttempts - 1]
           /\ run' \in Run /\ work' \in [Workers -> Work]
<1>1. work' \in [Workers -> Work]
  BY DEF TypeOK, Work, Go
<1> QED
  BY <1>1 DEF TypeOK, Run, Go

\* What the rest of the proof uses of the types.
LEMMA Has == ASSUME TypeOK
    PROVE  /\ run \in Run /\ work \in [Workers -> Work] /\ st \in State
           /\ queue \subseteq Mail /\ skipped \subseteq Mail
           /\ tries \in [Mail -> 0..MaxAttempts - 1] /\ alarm \in BOOLEAN
           /\ asked \in Nat /\ excuse \subseteq {"revived", "abandoned", "uncounted"}
           /\ gaveUp \subseteq Mail /\ linked \subseteq stored /\ stored \subseteq Mail
           /\ gmail \subseteq Mail
BY DEF TypeOK, Run, Work

\* From its parts.
LEMMA Retyped ==
    ASSUME TypeOK,
           kind' = kind /\ gmail' \subseteq gmail /\ stored' \subseteq Mail /\ linked' \subseteq stored',
           st' \in State, queue' \subseteq Mail, skipped' \subseteq Mail,
           tries' \in [Mail -> 0..MaxAttempts - 1], alarm' \in BOOLEAN, run' \in Run,
           work' \in [Workers -> Work], conn' \in {"off", "live", "leaving"}, grant' \in BOOLEAN,
           calls' \in 0..MaxCalls, faults' \in 0..MaxFaults, asked' \in Nat, gaveUp' \subseteq Mail,
           excuse' \subseteq {"revived", "abandoned", "uncounted"}
    PROVE  TypeOK'
BY DEF TypeOK, Run, Work

LEMMA FireTyped == ASSUME TypeOK, Fire PROVE TypeOK'
<1> USE Has
<1>1. run' \in Run
  <2>1. CASE UNCHANGED run
    BY <2>1
  <2>2. CASE run' = [IdleRun EXCEPT !.pc = "list", !.st = st, !.at = From(st)]
    <3>1. From(st) \in 0..N
      BY DEF From, State
    <3> QED
      BY <2>2, <3>1, Nothing DEF Run
  <2>3. ASSUME NEW batch \in SUBSET queue,
               run' = [IdleRun EXCEPT !.pc = "work", !.st = st, !.todo = batch, !.tries = tries]
        PROVE  run' \in Run
    BY <2>3, Nothing DEF Run
  <2> QED
    BY <2>1, <2>2, <2>3 DEF Fire
<1> QED
  BY <1>1 DEF Fire, outside, history, TypeOK, Run, Work

LEMMA ListPageTyped == ASSUME TypeOK, ListPage PROVE TypeOK'
<1> USE Has
<1> DEFINE s == [run.st EXCEPT !.counted = @ \/ Page # {}]
           t == [s EXCEPT !.token = IF LastPage THEN 0 ELSE PageEnd,
                          !.phase = IF LastPage THEN "importing" ELSE @]
<1>1. s \in State /\ t \in State
  <2>1. run.st \in State /\ (run.st.counted \/ Page # {}) \in BOOLEAN
    BY DEF Run
  <2>2. s \in State
    BY <2>1 DEF State
  <2>3. (IF LastPage THEN 0 ELSE PageEnd) \in 0..N
    BY PageEnds, Sizes
  <2> QED
    BY <2>2, <2>3 DEF State
<1>2. st' \in State /\ run' \in Run /\ excuse' \subseteq {"revived", "abandoned", "uncounted"} /\ alarm' \in BOOLEAN
  <2>1. CASE LastPage \/ run.pages + 1 = PagesPerRun
    BY <2>1, <1>1, FinishTyped DEF ListPage
  <2>2. CASE ~(LastPage \/ run.pages + 1 = PagesPerRun)
    <3>1. run.pages + 1 \in 0..PagesPerRun - 1
      BY <2>2, Sizes DEF Run
    <3>2. run' = [run EXCEPT !.st = s, !.at = PageEnd, !.pages = @ + 1]
      BY <2>2 DEF ListPage
    <3>3. run' \in Run
      BY <1>1, <3>1, <3>2, PageEnds DEF Run
    <3> QED
      BY <2>2, <3>3 DEF ListPage
  <2> QED
    BY <2>1, <2>2
<1>3. queue' \subseteq Mail
  BY PageEnds DEF ListPage, Enqueue
<1> QED
  BY <1>2, <1>3 DEF ListPage, outside, TypeOK, Run, Work

LEMMA ListFailsTyped == ASSUME TypeOK, ListFails PROVE TypeOK'
<1> USE Has
<1>1. run.st \in State /\ [run.st EXCEPT !.phase = "paused"] \in State
  BY DEF Run, State
<1>2. st' \in State /\ run' \in Run /\ excuse' \subseteq {"revived", "abandoned", "uncounted"}
  BY <1>1, FinishTyped DEF ListFails, Refused
<1>3. faults' \in 0..MaxFaults
  BY Sizes DEF ListFails, TypeOK
<1>4. alarm' \in BOOLEAN
  BY DEF ListFails, Refused
<1> QED
  BY <1>2, <1>3, <1>4 DEF ListFails, outside, TypeOK, Run, Work

LEMMA TakeTyped == ASSUME TypeOK, NEW w \in Workers, Take(w) PROVE TypeOK'
<1> USE Has
<1>1. PICK m \in run.todo :
        \/ m \in linked /\ Done(w, m, FALSE)
        \/ /\ m \notin linked
           /\ run' = [run EXCEPT !.todo = @ \ {m}]
           /\ work' = [work EXCEPT ![w] = [pc |-> "fetch", m |-> m, sort |-> WithinBudget, fresh |-> FALSE]]
           /\ UNCHANGED <<queue, tries>>
  BY DEF Take
<1>2. m \in Mail
  BY DEF Run
<1>3. /\ queue' \subseteq Mail /\ tries' \in [Mail -> 0..MaxAttempts - 1]
      /\ run' \in Run /\ work' \in [Workers -> Work]
  <2>1. CASE Done(w, m, FALSE)
    BY <2>1, <1>2, DoneTyped
  <2>2. CASE run' = [run EXCEPT !.todo = @ \ {m}]
             /\ work' = [work EXCEPT ![w] = [pc |-> "fetch", m |-> m, sort |-> WithinBudget, fresh |-> FALSE]]
             /\ UNCHANGED <<queue, tries>>
    <3>1. [pc |-> "fetch", m |-> m, sort |-> WithinBudget, fresh |-> FALSE] \in Work
      BY <1>2, Sizes DEF Work, WithinBudget, Mail
    <3>2. work' \in [Workers -> Work]
      BY <2>2, <3>1, WorkTyped
    <3> QED
      BY <2>2, <3>2 DEF Run
  <2> QED
    BY <1>1, <2>1, <2>2
<1> QED
  BY <1>3 DEF Take, outside, history, TypeOK, Run, Work

LEMMA HoldsMail == ASSUME TypeOK, HeldOK, NEW w \in Workers, work[w].pc # "idle" PROVE work[w].m \in Mail
BY DEF HeldOK

LEMMA FetchTyped == ASSUME TypeOK, HeldOK, NEW w \in Workers, Fetch(w) PROVE TypeOK'
<1> USE Has
<1>1. work[w].m \in Mail
  BY HoldsMail DEF Fetch
<1>2. /\ queue' \subseteq Mail /\ tries' \in [Mail -> 0..MaxAttempts - 1]
      /\ run' \in Run /\ work' \in [Workers -> Work]
  BY <1>1, DoneTyped, GoTyped DEF Fetch
<1> QED
  BY <1>2 DEF Fetch, outside, history, TypeOK, Run, Work

LEMMA StoreTyped == ASSUME TypeOK, HeldOK, NEW w \in Workers, Store(w) PROVE TypeOK'
<1> USE Has
<1>1. work[w].m \in Mail
  BY HoldsMail DEF Store
<1>2. work' \in [Workers -> Work]
  BY DEF Store, Work
<1> QED
  BY <1>1, <1>2 DEF Store, import, history, TypeOK, Run, Work

LEMMA LinkTyped == ASSUME TypeOK, HeldOK, NEW w \in Workers, Link(w) PROVE TypeOK'
<1> USE Has
<1>1. work[w].m \in Mail /\ work[w].m \in stored /\ work[w].fresh \in BOOLEAN
  BY HoldsMail DEF Link, HeldOK, Work
<1>2. /\ queue' \subseteq Mail /\ tries' \in [Mail -> 0..MaxAttempts - 1]
      /\ run' \in Run /\ work' \in [Workers -> Work]
  BY <1>1, DoneTyped, GoTyped DEF Link
<1> QED
  BY <1>1, <1>2 DEF Link, history, TypeOK, Run, Work

LEMMA SortTyped == ASSUME TypeOK, HeldOK, NEW w \in Workers, Sort(w) PROVE TypeOK'
<1> USE Has
<1>1. work[w].m \in Mail
  BY HoldsMail DEF Sort
<1>2. /\ queue' \subseteq Mail /\ tries' \in [Mail -> 0..MaxAttempts - 1]
      /\ run' \in Run /\ work' \in [Workers -> Work]
  BY <1>1, DoneTyped DEF Sort
<1> QED
  BY <1>2 DEF Sort, outside, history, TypeOK, Run, Work

LEMMA MissTyped ==
    ASSUME TypeOK, HeldOK, NEW w \in Workers, work[w].pc # "idle",
           Miss(w) \/ (Stays(w) /\ UNCHANGED <<run, queue, tries, skipped, gaveUp>>) \/ Deny(w)
    PROVE  /\ queue' \subseteq Mail /\ tries' \in [Mail -> 0..MaxAttempts - 1]
           /\ run' \in Run /\ work' \in [Workers -> Work]
           /\ skipped' \subseteq Mail /\ gaveUp' \subseteq Mail
<1> USE Has
<1> DEFINE m == work[w].m
<1>1. m \in Mail
  BY HoldsMail
<1>2. work' \in [Workers -> Work]
  BY WorkTyped, Nothing DEF Miss, Stays, Deny
<1>3. CASE Miss(w)
  <2>1. CASE ~LastTry(m)
    <3>1. tries[m] + 1 \in 0..MaxAttempts - 1
      <4>1. tries[m] <= run.tries[m]
        BY DEF HeldOK
      <4>2. run.tries[m] + 1 < MaxAttempts
        BY <2>1, <1>1, Sizes DEF LastTry, Run
      <4> QED
        BY <4>1, <4>2, <1>1, Sizes DEF Run
    <3>2. tries' \in [Mail -> 0..MaxAttempts - 1]
      BY <1>3, <2>1, <3>1, <1>1 DEF Miss
    <3> QED
      BY <1>2, <1>3, <2>1, <3>2 DEF Miss
  <2>2. CASE LastTry(m)
    BY <1>1, <1>2, <1>3, <2>2, DequeueTyped DEF Miss
  <2> QED
    BY <2>1, <2>2
<1>4. CASE Stays(w) /\ UNCHANGED <<run, queue, tries, skipped, gaveUp>>
  BY <1>2, <1>4
<1>5. CASE Deny(w)
  BY <1>2, <1>5 DEF Deny, Run
<1> QED
  BY <1>3, <1>4, <1>5

LEMMA WorkFailsTyped == ASSUME TypeOK, HeldOK, NEW w \in Workers, WorkFails(w) PROVE TypeOK'
<1> USE Has
<1>0. work[w].pc # "idle"
  BY DEF WorkFails
<1>1. Miss(w) \/ (Stays(w) /\ UNCHANGED <<run, queue, tries, skipped, gaveUp>>) \/ Deny(w)
  BY DEF WorkFails
<1>2. /\ queue' \subseteq Mail /\ tries' \in [Mail -> 0..MaxAttempts - 1]
      /\ run' \in Run /\ work' \in [Workers -> Work]
      /\ skipped' \subseteq Mail /\ gaveUp' \subseteq Mail
  BY <1>0, <1>1, MissTyped
<1>3. linked' \subseteq stored
  BY DEF WorkFails, HeldOK
<1>4. faults' \in 0..MaxFaults
  BY Sizes DEF WorkFails, TypeOK
<1>5. asked' \in Nat /\ excuse' \subseteq {"revived", "abandoned", "uncounted"}
  <2>1. \/ UNCHANGED <<asked, excuse>>
        \/ asked' = asked + 1 /\ excuse' = excuse \cup {"uncounted"}
    BY DEF WorkFails
  <2> QED
    BY <2>1
<1> QED
  BY <1>2, <1>3, <1>4, <1>5 DEF WorkFails, TypeOK, Run, Work

LEMMA BatchEndsTyped == ASSUME TypeOK, BatchEnds PROVE TypeOK'
<1> USE Has
<1>1. /\ run.st \in State /\ [run.st EXCEPT !.phase = "paused"] \in State
      /\ [run.st EXCEPT !.phase = "done"] \in State
  BY DEF Run, State
<1>2. [run EXCEPT !.pc = "recon", !.at = run.st.from, !.tries = IdleRun.tries] \in Run
  <2>1. run.st.from \in 0..N /\ IdleRun.tries \in [Mail -> 0..MaxAttempts - 1]
    BY Nothing DEF Run, State
  <2> QED
    BY <2>1 DEF Run
<1>3. st' \in State /\ run' \in Run /\ excuse' \subseteq {"revived", "abandoned", "uncounted"} /\ alarm' \in BOOLEAN
  BY <1>1, <1>2, FinishTyped DEF BatchEnds, Refused
<1> QED
  BY <1>3 DEF BatchEnds, outside, TypeOK, Run, Work

LEMMA ReconcileTyped == ASSUME TypeOK, Reconcile PROVE TypeOK'
<1> USE Has
<1>1. [run.st EXCEPT !.reconciled = TRUE] \in State
  BY DEF Run, State
<1>2. [run EXCEPT !.at = PageEnd] \in Run
  BY PageEnds DEF Run
<1>3. queue' \subseteq Mail
  BY PageEnds DEF Reconcile, Enqueue
<1>4. st' \in State /\ run' \in Run /\ excuse' \subseteq {"revived", "abandoned", "uncounted"} /\ alarm' \in BOOLEAN
      /\ skipped' \subseteq Mail
  BY <1>1, <1>2, FinishTyped DEF Reconcile
<1> QED
  BY <1>3, <1>4 DEF Reconcile, outside, TypeOK, Run, Work

LEMMA CrashTyped == ASSUME TypeOK, Crash PROVE TypeOK'
<1> USE Has
<1>1. run' \in Run /\ work' \in [Workers -> Work]
  BY Nothing DEF Crash
<1>2. faults' \in 0..MaxFaults
  BY Sizes DEF Crash, TypeOK
<1> QED
  BY <1>1, <1>2 DEF Crash, outside, TypeOK, Run, Work

LEMMA BeginTyped ==
    ASSUME TypeOK, NEW from \in 0..N, NEW to \in Targets, Begin(from, to)
    PROVE  st' \in State /\ alarm' = TRUE /\ asked' = 0
<1>1. to \in 0..N
  BY SizesAssumption
<1> QED
  BY <1>1, Nothing DEF Begin, State

LEMMA ConnectTyped == ASSUME TypeOK, Connect PROVE TypeOK'
<1> USE Has
<1>1. st' \in State /\ alarm' \in BOOLEAN /\ asked' \in Nat
  <2>1. ASSUME NEW to \in Targets, Begin(0, to) PROVE st' \in State /\ alarm' \in BOOLEAN /\ asked' \in Nat
    <3>1. 0 \in 0..N
      BY Sizes
    <3>2. st' \in State /\ alarm' = TRUE /\ asked' = 0
      BY ONLY TypeOK, <2>1, <3>1, BeginTyped
    <3> QED
      BY <3>2
  <2>2. ASSUME Resume, UNCHANGED asked PROVE st' \in State /\ alarm' \in BOOLEAN /\ asked' \in Nat
    BY <2>2 DEF Resume, State
  <2> QED
    BY <2>1, <2>2 DEF Connect
<1>2. calls' \in 0..MaxCalls
  BY Sizes DEF Connect, TypeOK
<1> QED
  BY <1>1, <1>2 DEF Connect, TypeOK, Run, Work

LEMMA OlderTyped == ASSUME TypeOK, Older PROVE TypeOK'
<1> USE Has
<1>1. st.to \in 0..N
  BY DEF State
<1>2. st' \in State /\ alarm' \in BOOLEAN /\ asked' \in Nat
  <2>1. PICK to \in Targets : Begin(st.to, to)
    BY DEF Older
  <2>2. st' \in State /\ alarm' = TRUE /\ asked' = 0
    BY ONLY TypeOK, <1>1, <2>1, BeginTyped
  <2> QED
    BY <2>2
<1>3. calls' \in 0..MaxCalls
  BY Sizes DEF Older, TypeOK
<1> QED
  BY <1>2, <1>3 DEF Older, outside, TypeOK, Run, Work

LEMMA CancelTyped == ASSUME TypeOK, Cancel PROVE TypeOK'
<1> USE Has
<1>1. tries' \in [Mail -> 0..MaxAttempts - 1]
  BY Sizes DEF Cancel
<1>2. run' \in Run
  BY DEF Cancel, Run
<1> QED
  BY <1>1, <1>2, Nothing DEF Cancel, history, TypeOK, Run, Work

LEMMA OutsideTyped ==
    ASSUME TypeOK, Disconnect \/ Withdraw \/ \E m \in Mail : Vanish(m) PROVE TypeOK'
<1> USE Sizes
<1>1. CASE Disconnect
  BY <1>1 DEF Disconnect, import, history, TypeOK
<1>2. CASE Withdraw
  <2>1. faults' \in 0..MaxFaults
    BY <1>2 DEF Withdraw, TypeOK
  <2>2. grant' = FALSE
    BY <1>2 DEF Withdraw
  <2> QED
    BY <1>2, <2>1, <2>2 DEF Withdraw, import, history, TypeOK
<1>3. ASSUME NEW m \in Mail, Vanish(m) PROVE TypeOK'
  BY <1>3 DEF Vanish, import, history, TypeOK
<1> QED
  BY <1>1, <1>2, <1>3

LEMMA TypeStep == TypeOK /\ HeldOK /\ [Next]_vars => TypeOK'
<1> SUFFICES ASSUME TypeOK, HeldOK, [Next]_vars PROVE TypeOK'
  OBVIOUS
<1>1. CASE AlarmStep
  BY <1>1, FireTyped, ListPageTyped, ListFailsTyped, BatchEndsTyped, ReconcileTyped DEF AlarmStep
<1>2. ASSUME NEW w \in Workers, WorkStep(w) PROVE TypeOK'
  BY <1>2, TakeTyped, FetchTyped, StoreTyped, LinkTyped, SortTyped, WorkFailsTyped DEF WorkStep
<1>3. CASE UNCHANGED vars
  BY <1>3 DEF vars, TypeOK
<1> QED
  BY <1>1, <1>2, <1>3, CrashTyped, ConnectTyped, OlderTyped, CancelTyped, OutsideTyped DEF Next

-----------------------------------------------------------------------------
(* What the workers hold *)

LEMMA HeldIdle ==
    ASSUME \A w \in Workers : work'[w].pc = "idle", run'.todo = {}
    PROVE  HeldOK'
BY DEF HeldOK

LEMMA HeldStill ==
    ASSUME TypeOK, HeldOK, work' = work, run'.pc = run.pc, run'.todo = run.todo,
           run'.tries = run.tries, stored' = stored, \A m \in Mail : tries'[m] <= run.tries[m] \/ tries'[m] = tries[m]
    PROVE  HeldOK'
<1> USE Has
<1>1. run.todo \subseteq Mail
  BY DEF Run
<1> QED
  BY <1>1 DEF HeldOK

\* A worker goes on with its message, or is done with it.
LEMMA HeldGoes ==
    ASSUME TypeOK, HeldOK, NEW w \in Workers, run'.pc = run.pc, run'.tries = run.tries,
           run'.todo \subseteq run.todo, stored \subseteq stored',
           NEW j \in Work, work' = [work EXCEPT ![w] = j],
           run.pc = "work",
           j.pc # "idle" => /\ work[w].pc # "idle" /\ j.m = work[w].m
                            /\ j.pc \in {"link", "sort"} => j.m \in stored',
           \A m \in Mail : tries'[m] <= tries[m] \/
               (m = work[w].m /\ work[w].pc # "idle" /\ j.pc = "idle"),
           tries' \in [Mail -> 0..MaxAttempts - 1]
    PROVE  HeldOK'
<1> USE Has
<1>0. run.todo \subseteq Mail /\ \A m \in Mail : run.tries[m] \in 0..MaxAttempts - 1
  BY DEF Run
<1>1. work'[w] = j /\ \A v \in Workers \ {w} : work'[v] = work[v]
  OBVIOUS
<1>2. \A m \in Mail : tries[m] \in Nat /\ tries'[m] \in Nat /\ run.tries[m] \in Nat
  BY <1>0
<1>3. \A m \in run'.todo : tries'[m] <= run'.tries[m]
  <2> SUFFICES ASSUME NEW m \in run'.todo PROVE tries'[m] <= run.tries[m]
    OBVIOUS
  <2>1. m \in Mail /\ m \in run.todo /\ tries[m] <= run.tries[m]
    BY <1>0 DEF HeldOK
  <2>2. tries'[m] <= tries[m]
    BY <2>1 DEF HeldOK
  <2> QED
    BY <2>1, <2>2, <1>2
<1>4. ASSUME NEW v \in Workers, work'[v].pc # "idle"
      PROVE  /\ work'[v].m \in Mail \ run'.todo
             /\ tries'[work'[v].m] <= run'.tries[work'[v].m]
             /\ work'[v].pc \in {"link", "sort"} => work'[v].m \in stored'
  <2>1. work[v].pc # "idle" /\ work'[v].m = work[v].m
    BY <1>1, <1>4
  <2>2. work[v].m \in Mail \ run.todo /\ tries[work[v].m] <= run.tries[work[v].m]
    BY <2>1 DEF HeldOK
  <2>3. ~(work[v].m = work[w].m /\ work[w].pc # "idle" /\ j.pc = "idle")
    BY <2>1, <1>1, <1>4 DEF HeldOK
  <2>4. tries'[work[v].m] <= tries[work[v].m]
    BY <2>2, <2>3
  <2>5. work'[v].pc \in {"link", "sort"} => work'[v].m \in stored'
    BY <1>1, <2>1 DEF HeldOK
  <2> QED
    BY <2>1, <2>2, <2>4, <2>5, <1>2
<1>5. \A v, u \in Workers : work'[v].pc # "idle" /\ work'[u].pc # "idle" /\ u # v => work'[v].m # work'[u].m
  BY <1>1 DEF HeldOK
<1> QED
  BY <1>3, <1>4, <1>5 DEF HeldOK

LEMMA DequeueLess ==
    ASSUME TypeOK, NEW m \in Mail, Dequeue(m)
    PROVE  tries' \in [Mail -> 0..MaxAttempts - 1] /\ \A n \in Mail : tries'[n] <= tries[n]
BY Has, Sizes DEF Dequeue

LEMMA DoneHeld ==
    ASSUME TypeOK, HeldOK, NEW w \in Workers, NEW m \in Mail, NEW isNew \in BOOLEAN, Done(w, m, isNew),
           run.pc = "work", stored' = stored
    PROVE  HeldOK'
<1>1. run'.pc = run.pc /\ run'.tries = run.tries /\ run'.todo \subseteq run.todo
  BY Has DEF Done, Run
<1>2. tries' \in [Mail -> 0..MaxAttempts - 1] /\ \A n \in Mail : tries'[n] <= tries[n]
  BY DequeueLess DEF Done
<1>3. IdleWork \in Work /\ IdleWork.pc = "idle" /\ work' = [work EXCEPT ![w] = IdleWork]
  BY Nothing DEF IdleWork, Done
<1> QED
  BY <1>1, <1>2, <1>3, HeldGoes

LEMMA NoMore ==
    ASSUME TypeOK PROVE \A m \in Mail : tries[m] <= tries[m]
BY Has, Sizes

LEMMA GoHeld ==
    ASSUME TypeOK, HeldOK, NEW w \in Workers, NEW next \in {"store", "sort"}, Go(w, next),
           run.pc = "work", work[w].pc # "idle", stored' = stored, next = "sort" => work[w].m \in stored
    PROVE  HeldOK'
<1> DEFINE j == [work[w] EXCEPT !.pc = next]
<1>1. j \in Work /\ j.pc = next /\ j.m = work[w].m
  BY Has DEF Work
<1>2. work' = [work EXCEPT ![w] = j] /\ UNCHANGED <<queue, tries, run>>
  BY Has DEF Go, Work
<1>3. tries' \in [Mail -> 0..MaxAttempts - 1] /\ \A n \in Mail : tries'[n] <= tries[n]
  BY <1>2, Has, NoMore
<1> HIDE DEF j
<1> QED
  BY <1>1, <1>2, <1>3, HeldGoes

LEMMA Working == ASSUME HeldOK, NEW w \in Workers, work[w].pc # "idle" PROVE run.pc = "work"
BY DEF HeldOK

LEMMA TakeHeld == ASSUME TypeOK, HeldOK, NEW w \in Workers, Take(w) PROVE HeldOK'
<1> USE Has
<1>1. PICK m \in run.todo :
        \/ m \in linked /\ Done(w, m, FALSE)
        \/ /\ m \notin linked
           /\ run' = [run EXCEPT !.todo = @ \ {m}]
           /\ work' = [work EXCEPT ![w] = [pc |-> "fetch", m |-> m, sort |-> WithinBudget, fresh |-> FALSE]]
           /\ UNCHANGED <<queue, tries>>
  BY DEF Take
<1>2. m \in Mail /\ run.pc = "work" /\ stored' = stored /\ work[w].pc = "idle"
  BY DEF Run, Take, outside
<1>3. CASE Done(w, m, FALSE)
  BY <1>2, <1>3, DoneHeld
<1>4. CASE run' = [run EXCEPT !.todo = @ \ {m}]
           /\ work' = [work EXCEPT ![w] = [pc |-> "fetch", m |-> m, sort |-> WithinBudget, fresh |-> FALSE]]
           /\ UNCHANGED <<queue, tries>>
  <2>1. run'.todo = run.todo \ {m} /\ run'.pc = run.pc /\ run'.tries = run.tries
    BY <1>4 DEF Run
  <2>2. work'[w].m = m /\ work'[w].pc = "fetch" /\ \A v \in Workers \ {w} : work'[v] = work[v]
    BY <1>4
  <2>3. ASSUME NEW v \in Workers, v # w, work[v].pc # "idle" PROVE work[v].m # m
    BY <2>3 DEF HeldOK
  <2>4. \A n \in run'.todo : tries'[n] <= run'.tries[n]
    BY <1>4, <2>1 DEF HeldOK
  <2>5. ASSUME NEW v \in Workers, work'[v].pc # "idle"
        PROVE  /\ work'[v].m \in Mail \ run'.todo
               /\ tries'[work'[v].m] <= run'.tries[work'[v].m]
               /\ work'[v].pc \in {"link", "sort"} => work'[v].m \in stored'
    <3>1. CASE v = w
      <4>1. tries[m] <= run.tries[m]
        BY DEF HeldOK
      <4> QED
        BY <3>1, <4>1, <1>2, <1>4, <2>1, <2>2
    <3>2. CASE v # w
      <4>1. work'[v] = work[v] /\ work[v].pc # "idle"
        BY <3>2, <2>2, <2>5
      <4> QED
        BY <4>1, <1>2, <1>4, <2>1 DEF HeldOK
    <3> QED
      BY <3>1, <3>2
  <2>6. ASSUME NEW v \in Workers, NEW u \in Workers, u # v, work'[v].pc # "idle", work'[u].pc # "idle"
        PROVE  work'[v].m # work'[u].m
    <3>1. CASE v # w /\ u # w
      BY <2>6, <3>1, <2>2 DEF HeldOK
    <3>2. CASE v = w \/ u = w
      BY <2>6, <3>2, <2>2, <2>3
    <3> QED
      BY <3>1, <3>2
  <2> QED
    BY <1>2, <2>1, <2>4, <2>5, <2>6 DEF HeldOK
<1> QED
  BY <1>1, <1>3, <1>4

LEMMA FetchHeld == ASSUME TypeOK, HeldOK, NEW w \in Workers, Fetch(w) PROVE HeldOK'
<1>1. work[w].pc = "fetch" /\ run.pc = "work" /\ work[w].m \in Mail /\ stored' = stored
  BY HoldsMail, Working DEF Fetch, outside
<1>2. Go(w, "store") \/ Done(w, work[w].m, FALSE)
  BY DEF Fetch
<1> QED
  BY <1>1, <1>2, GoHeld, DoneHeld

LEMMA StoreHeld == ASSUME TypeOK, HeldOK, NEW w \in Workers, Store(w) PROVE HeldOK'
<1> USE Has
<1> DEFINE j == [work[w] EXCEPT !.pc = "link", !.fresh = work[w].m \notin stored]
<1>1. work[w].pc = "store" /\ run.pc = "work" /\ stored' = stored \cup {work[w].m}
  BY Working DEF Store
<1>2. j \in Work /\ j.pc = "link" /\ j.m = work[w].m
  BY DEF Work
<1>3. work' = [work EXCEPT ![w] = j] /\ tries' = tries /\ run' = run
  BY DEF Store, Work, import
<1>4. tries' \in [Mail -> 0..MaxAttempts - 1] /\ \A n \in Mail : tries'[n] <= tries[n]
  BY <1>3, NoMore
<1> HIDE DEF j
<1> QED
  BY <1>1, <1>2, <1>3, <1>4, HeldGoes

LEMMA LinkHeld == ASSUME TypeOK, HeldOK, NEW w \in Workers, Link(w) PROVE HeldOK'
<1>1. /\ work[w].pc = "link" /\ run.pc = "work" /\ work[w].m \in Mail /\ stored' = stored
      /\ work[w].m \in stored /\ work[w].fresh \in BOOLEAN
  BY HoldsMail, Working, Has DEF Link, HeldOK, Work
<1>2. Go(w, "sort") \/ Done(w, work[w].m, work[w].fresh)
  BY DEF Link
<1> QED
  BY <1>1, <1>2, GoHeld, DoneHeld

LEMMA SortHeld == ASSUME TypeOK, HeldOK, NEW w \in Workers, Sort(w) PROVE HeldOK'
<1>1. work[w].pc = "sort" /\ run.pc = "work" /\ work[w].m \in Mail /\ stored' = stored
  BY HoldsMail, Working DEF Sort, outside
<1> QED
  BY <1>1, DoneHeld DEF Sort

LEMMA WorkFailsHeld == ASSUME TypeOK, HeldOK, NEW w \in Workers, WorkFails(w) PROVE HeldOK'
<1> USE Has
<1>1. work[w].pc # "idle" /\ run.pc = "work" /\ work[w].m \in Mail /\ stored' = stored
  BY HoldsMail, Working DEF WorkFails
<1>2. Miss(w) \/ (Stays(w) /\ UNCHANGED <<run, queue, tries, skipped, gaveUp>>) \/ Deny(w)
  BY DEF WorkFails
<1>3. tries' \in [Mail -> 0..MaxAttempts - 1]
  BY <1>1, <1>2, MissTyped
<1>4. IdleWork \in Work /\ IdleWork.pc = "idle" /\ work' = [work EXCEPT ![w] = IdleWork]
  BY <1>2, Nothing DEF IdleWork, Stays, Miss, Deny
<1>5. run'.pc = run.pc /\ run'.tries = run.tries /\ run'.todo = run.todo
  BY <1>2 DEF Miss, Deny, Run
<1>6. \A m \in Mail : tries'[m] <= tries[m] \/ m = work[w].m
  <2>1. CASE Miss(w)
    BY <2>1, <1>1, DequeueLess, NoMore DEF Miss
  <2>2. CASE tries' = tries
    BY <2>2, NoMore
  <2> QED
    BY <1>2, <2>1, <2>2 DEF Deny
<1> QED
  BY <1>1, <1>3, <1>4, <1>5, <1>6, HeldGoes

LEMMA AlarmHeld == ASSUME TypeOK, HeldOK, AlarmStep PROVE HeldOK'
<1> USE Has
<1>0. run.todo \subseteq Mail
  BY DEF Run
<1>1. ASSUME Fire PROVE HeldOK'
  <2>1. \A w \in Workers : work'[w].pc = "idle"
    BY <1>1 DEF Fire, HeldOK
  <2>2. CASE run'.todo = {}
    BY <2>1, <2>2, HeldIdle
  <2>3. ASSUME NEW batch \in SUBSET queue,
               run' = [IdleRun EXCEPT !.pc = "work", !.st = st, !.todo = batch, !.tries = tries]
        PROVE  HeldOK'
    <3>1. run'.todo = batch /\ run'.tries = tries /\ tries' = tries /\ batch \subseteq Mail
      BY <1>1, <2>3 DEF IdleRun, Fire
    <3>2. \A m \in batch : tries[m] <= tries[m]
      BY <3>1, NoMore
    <3> QED
      BY <2>1, <3>1, <3>2 DEF HeldOK
  <2>4. CASE run' = run
    <3>1. tries' = tries /\ work' = work /\ stored' = stored
      BY <1>1 DEF Fire, outside
    <3> QED
      BY <2>4, <3>1, HeldStill
  <2>5. CASE run' = [IdleRun EXCEPT !.pc = "list", !.st = st, !.at = From(st)]
    BY <2>2, <2>5 DEF IdleRun
  <2> QED
    BY <1>1, <2>3, <2>4, <2>5 DEF Fire
<1>2. ASSUME ListPage \/ ListFails \/ BatchEnds \/ Reconcile PROVE HeldOK'
  <2>1. \A w \in Workers : work'[w].pc = "idle"
    BY <1>2 DEF ListPage, ListFails, BatchEnds, Reconcile, HeldOK
  <2>2. CASE run'.todo = {}
    BY <2>1, <2>2, HeldIdle
  <2>3. CASE run'.todo # {}
    <3>1. run' # IdleRun
      BY <2>3 DEF IdleRun
    <3>2. run'.todo = run.todo /\ run'.tries = run.tries
      BY <1>2, <3>1, <2>3 DEF ListPage, ListFails, BatchEnds, Reconcile, Refused, Finish, Run
    <3>3. tries' = tries
      BY <1>2 DEF ListPage, ListFails, BatchEnds, Reconcile
    <3> QED
      BY <2>1, <3>2, <3>3 DEF HeldOK
  <2> QED
    BY <2>2, <2>3
<1> QED
  BY <1>1, <1>2 DEF AlarmStep

LEMMA HeldStep == TypeOK /\ HeldOK /\ [Next]_vars => HeldOK'
<1> SUFFICES ASSUME TypeOK, HeldOK, [Next]_vars PROVE HeldOK'
  OBVIOUS
<1>1. ASSUME NEW w \in Workers, WorkStep(w) PROVE HeldOK'
  BY <1>1, TakeHeld, FetchHeld, StoreHeld, LinkHeld, SortHeld, WorkFailsHeld DEF WorkStep
<1>2. ASSUME Crash PROVE HeldOK'
  BY <1>2, HeldIdle DEF Crash, IdleRun, IdleWork
<1>3. ASSUME Cancel PROVE HeldOK'
  <2>1. run'.pc = run.pc /\ run'.todo = run.todo /\ run'.tries = run.tries /\ work' = work /\ stored' = stored
    BY <1>3, Has DEF Cancel, Run
  <2>2. \A m \in Mail : tries'[m] <= run.tries[m]
    BY <1>3, Has, Sizes DEF Cancel, Run
  <2> QED
    BY <2>1, <2>2, HeldStill
<1>4. ASSUME \/ Connect \/ Older \/ Disconnect \/ Withdraw \/ UNCHANGED vars
             \/ \E m \in Mail : Vanish(m)
      PROVE  HeldOK'
  <2>1. UNCHANGED <<run, work, tries, stored>>
    BY <1>4 DEF Connect, Older, Disconnect, Withdraw, Vanish, vars, import, outside
  <2> QED
    BY <2>1, HeldStill
<1> QED
  BY <1>1, <1>2, <1>3, <1>4, AlarmHeld DEF Next

LEMMA HeldInit == Init => HeldOK
BY DEF Init, HeldOK, IdleRun, IdleWork

\* Each variable has its type, and no message is tried more often than it may
\* be (ImportDO).
THEOREM TypeCorrect == Spec => []TypeOK
<1>1. TypeOK /\ HeldOK /\ [Next]_vars => (TypeOK /\ HeldOK)'
  BY TypeStep, HeldStep
<1> QED
  BY <1>1, InitTyped, HeldInit, PTL DEF Spec

-----------------------------------------------------------------------------
(* The handler's copy *)

LEMMA CopyStill ==
    ASSUME CopyOK, st' = st,
           run'.pc # "idle" =>
               /\ run.pc # "idle" /\ run'.stale = run.stale /\ run'.st.phase = run.st.phase
               /\ run'.st.from = run.st.from /\ run'.st.to = run.st.to
               /\ run'.st.reconciled = run.st.reconciled
    PROVE  CopyOK'
BY DEF CopyOK

LEMMA CopyIdle == ASSUME run' = IdleRun PROVE CopyOK'
BY DEF CopyOK, IdleRun

LEMMA DoneCopy ==
    ASSUME TypeOK, NEW w \in Workers, NEW m \in Mail, NEW isNew \in BOOLEAN, Done(w, m, isNew)
    PROVE  /\ run'.pc = run.pc /\ run'.stale = run.stale /\ run'.st.phase = run.st.phase
           /\ run'.st.from = run.st.from /\ run'.st.to = run.st.to
           /\ run'.st.reconciled = run.st.reconciled /\ run'.at = run.at
           /\ run'.st.sorted = IF isNew THEN run.st.sorted + 1 ELSE run.st.sorted
BY Has DEF Done, Run, State

\* A worker's step changes nothing of the copy but the count.
LEMMA WorkCopy ==
    ASSUME TypeOK, HeldOK, NEW w \in Workers, WorkStep(w)
    PROVE  /\ run'.pc = "work" /\ run.pc = "work"
           /\ run'.stale = run.stale /\ run'.st.phase = run.st.phase
           /\ run'.st.from = run.st.from /\ run'.st.to = run.st.to
           /\ run'.st.reconciled = run.st.reconciled /\ st' = st
           /\ run'.st.sorted \in {run.st.sorted, run.st.sorted + 1}
<1> USE Has
<1> DEFINE Ok == /\ run'.pc = run.pc /\ run'.stale = run.stale /\ run'.st.phase = run.st.phase
                 /\ run'.st.from = run.st.from /\ run'.st.to = run.st.to
                 /\ run'.st.reconciled = run.st.reconciled
                 /\ run'.st.sorted \in {run.st.sorted, run.st.sorted + 1}
<1>1. run.pc = "work" /\ st' = st
  BY Working DEF WorkStep, Take, Fetch, Store, Link, Sort, WorkFails, import
<1>2. ASSUME Take(w) PROVE Ok
  <2>1. PICK m \in run.todo : Done(w, m, FALSE) \/ run' = [run EXCEPT !.todo = @ \ {m}]
    BY <1>2 DEF Take
  <2>2. m \in Mail
    BY DEF Run
  <2> QED
    BY <2>1, <2>2, DoneCopy DEF Run
<1>3. ASSUME Fetch(w) \/ Link(w) \/ Sort(w) PROVE Ok
  <2>1. work[w].m \in Mail /\ work[w].fresh \in BOOLEAN
    BY <1>3, HoldsMail DEF Fetch, Link, Sort, Work
  <2>2. UNCHANGED run \/ \E isNew \in BOOLEAN : Done(w, work[w].m, isNew)
    BY <1>3, <2>1 DEF Fetch, Link, Sort, Go
  <2> QED
    BY <2>1, <2>2, DoneCopy
<1>4. ASSUME Store(w) \/ WorkFails(w) PROVE Ok
  BY <1>4 DEF Store, WorkFails, Miss, Deny, Run
<1> QED
  BY <1>1, <1>2, <1>3, <1>4 DEF WorkStep

LEMMA CopyStep == TypeOK /\ HeldOK /\ CopyOK /\ [Next]_vars => CopyOK'
<1> SUFFICES ASSUME TypeOK, HeldOK, CopyOK, [Next]_vars PROVE CopyOK'
  OBVIOUS
<1> USE Has
<1>1. ASSUME NEW w \in Workers, WorkStep(w) PROVE CopyOK'
  BY <1>1, WorkCopy, CopyStill
<1>2. ASSUME Fire PROVE CopyOK'
  BY <1>2 DEF Fire, CopyOK, IdleRun, Run
<1>3. ASSUME ListPage PROVE CopyOK'
  <2>1. CASE run' = IdleRun
    BY <2>1, CopyIdle
  <2>2. CASE run' # IdleRun
    <3>1. run' = [run EXCEPT !.st = [run.st EXCEPT !.counted = @ \/ Page # {}], !.at = PageEnd, !.pages = @ + 1]
          /\ st' = st
      BY <1>3, <2>2 DEF ListPage, Finish
    <3>2. run'.st = [run.st EXCEPT !.counted = @ \/ Page # {}] /\ run'.pc = run.pc /\ run'.stale = run.stale
      BY <3>1 DEF Run
    <3> QED
      BY <1>3, <3>1, <3>2, CopyStill DEF State, Run, ListPage
  <2> QED
    BY <2>1, <2>2
<1>4. ASSUME ListFails PROVE CopyOK'
  BY <1>4, CopyIdle DEF ListFails, Refused, Finish
<1>5. ASSUME BatchEnds PROVE CopyOK'
  <2>1. CASE run' = IdleRun
    BY <2>1, CopyIdle
  <2>2. CASE run' # IdleRun
    <3>1. st' = run.st /\ run' = [run EXCEPT !.pc = "recon", !.at = run.st.from, !.tries = IdleRun.tries]
      BY <1>5, <2>2 DEF BatchEnds, Refused, Finish
    <3>2. run'.st = run.st /\ run.pc # "idle"
      BY <1>5, <3>1 DEF Run, BatchEnds
    <3> QED
      BY <3>1, <3>2 DEF CopyOK
  <2> QED
    BY <2>1, <2>2
<1>6. ASSUME Reconcile PROVE CopyOK'
  <2>1. CASE run' = IdleRun
    BY <2>1, CopyIdle
  <2>2. CASE run' # IdleRun
    BY <1>6, <2>2, CopyStill DEF Reconcile, Finish, Run
  <2> QED
    BY <2>1, <2>2
<1>7. ASSUME Crash PROVE CopyOK'
  BY <1>7, CopyIdle DEF Crash
<1>8. ASSUME Connect \/ Older PROVE CopyOK'
  <2>1. run' = run
    BY <1>8 DEF Connect, Older
  <2>2. CASE st' = st
    BY <2>1, <2>2, CopyStill
  <2>3. CASE st' # st
    <3>1. st.phase \in {"none", "paused", "done"}
      BY <1>8, <2>3 DEF Connect, Older, NoState, Active, State
    <3> QED
      BY <3>1, <2>1 DEF CopyOK
  <2> QED
    BY <2>2, <2>3
<1>9. ASSUME Cancel PROVE CopyOK'
  <2>1. run' = [run EXCEPT !.stale = run.pc # "idle"]
    BY <1>9 DEF Cancel
  <2>2. run'.pc # "idle" => run'.stale /\ run'.st = run.st /\ run.pc # "idle"
    BY <2>1 DEF Run
  <2> QED
    BY <2>2 DEF CopyOK
<1>10. ASSUME Disconnect \/ Withdraw \/ (\E m \in Mail : Vanish(m)) \/ UNCHANGED vars PROVE CopyOK'
  BY <1>10, CopyStill DEF Disconnect, Withdraw, Vanish, vars, import
<1> QED
  BY <1>1, <1>2, <1>3, <1>4, <1>5, <1>6, <1>7, <1>8, <1>9, <1>10 DEF Next, AlarmStep

-----------------------------------------------------------------------------
(* What is brought in *)

\* No message that is settled is unsettled, and none leaves the queue unsettled.
Keeps == \A m \in Mail : /\ Settled(m) => Settled(m)'
                         /\ m \in queue => m \in queue' \/ Settled(m)'

LEMMA Kept ==
    ASSUME Keeps, NEW k PROVE (Brought(k) => Brought(k)') /\ (Listed(k) => Listed(k)')
BY DEF Keeps, Brought, Listed

LEMMA QuietKeeps ==
    ASSUME kind' = kind, gmail' \subseteq gmail, linked \subseteq linked', gaveUp \subseteq gaveUp',
           queue \subseteq queue'
    PROVE  Keeps
BY DEF Keeps, Settled

LEMMA DoneKeeps ==
    ASSUME kind' = kind, gmail' = gmail, linked \subseteq linked', gaveUp \subseteq gaveUp',
           NEW m \in Mail, Settled(m)', queue \ {m} \subseteq queue'
    PROVE  Keeps
BY DEF Keeps, Settled

LEMMA IdleMoves ==
    ASSUME TypeOK, NEW w \in Workers, work' = [work EXCEPT ![w] = IdleWork]
    PROVE  work'[w].pc = "idle" /\ \A v \in Workers \ {w} : work'[v] = work[v]
BY Has DEF IdleWork

LEMMA GoMoves ==
    ASSUME TypeOK, NEW w \in Workers, NEW next \in {"fetch", "store", "link", "sort"}, Go(w, next)
    PROVE  /\ work'[w].pc = next /\ work'[w].m = work[w].m /\ work'[w].sort = work[w].sort
           /\ \A v \in Workers \ {w} : work'[v] = work[v]
BY Has DEF Go, Work

\* A worker's step is its own.
LEMMA WorkMoves ==
    ASSUME TypeOK, NEW w \in Workers, WorkStep(w)
    PROVE  /\ linked \subseteq linked'
           /\ \A v \in Workers \ {w} : work'[v] = work[v]
           /\ work'[w].pc = "sort" => work'[w].m \in linked' /\ work'[w].sort
           /\ work'[w].pc # "idle" /\ work'[w].sort => work[w].pc = "idle" \/ work[w].sort
<1> USE Has
<1> DEFINE Ok == /\ linked \subseteq linked'
                 /\ \A v \in Workers \ {w} : work'[v] = work[v]
                 /\ work'[w].pc = "sort" => work'[w].m \in linked' /\ work'[w].sort
                 /\ work'[w].pc # "idle" /\ work'[w].sort => work[w].pc = "idle" \/ work[w].sort
<1>1. ASSUME linked \subseteq linked', work' = [work EXCEPT ![w] = IdleWork] PROVE Ok
  BY <1>1, IdleMoves
<1>2. ASSUME Take(w) PROVE Ok
  <2>1. PICK m \in run.todo :
          \/ work' = [work EXCEPT ![w] = IdleWork]
          \/ work' = [work EXCEPT ![w] = [pc |-> "fetch", m |-> m, sort |-> WithinBudget, fresh |-> FALSE]]
    BY <1>2 DEF Take, Done
  <2>2. work[w].pc = "idle" /\ linked' = linked
    BY <1>2 DEF Take, outside
  <2>3. CASE work' = [work EXCEPT ![w] = [pc |-> "fetch", m |-> m, sort |-> WithinBudget, fresh |-> FALSE]]
    BY <2>2, <2>3
  <2> QED
    BY <2>1, <2>2, <2>3, <1>1
<1>3. ASSUME Fetch(w) PROVE Ok
  <2>1. linked' = linked /\ (Go(w, "store") \/ work' = [work EXCEPT ![w] = IdleWork])
    BY <1>3 DEF Fetch, Done, outside
  <2> QED
    BY <2>1, <1>1, GoMoves
<1>4. ASSUME Store(w) PROVE Ok
  <2>1. work'[w].pc = "link" /\ work'[w].sort = work[w].sort
        /\ \A v \in Workers \ {w} : work'[v] = work[v]
    BY <1>4 DEF Store, Work
  <2> QED
    BY <1>4, <2>1 DEF Store
<1>5. ASSUME Link(w) PROVE Ok
  <2>1. /\ linked' = linked \cup {work[w].m}
        /\ (Go(w, "sort") /\ work[w].sort) \/ work' = [work EXCEPT ![w] = IdleWork]
    BY <1>5 DEF Link, Done
  <2> QED
    BY <2>1, <1>1, GoMoves
<1>6. ASSUME Sort(w) PROVE Ok
  BY <1>6, <1>1 DEF Sort, Done, outside
<1>7. ASSUME WorkFails(w) PROVE Ok
  <2>1. linked \subseteq linked' /\ work' = [work EXCEPT ![w] = IdleWork]
    BY <1>7 DEF WorkFails, Miss, Deny, Stays
  <2> QED
    BY <2>1, <1>1
<1> QED
  BY <1>2, <1>3, <1>4, <1>5, <1>6, <1>7 DEF WorkStep

LEMMA FireStill ==
    ASSUME Fire
    PROVE  UNCHANGED <<kind, gmail, stored, linked, st, queue, tries, work, asked, gaveUp, excuse>>
<1>1. kind' = kind /\ gmail' = gmail /\ stored' = stored /\ linked' = linked
  BY ONLY Fire, Zenon DEF Fire, outside
<1>2. st' = st /\ queue' = queue /\ tries' = tries /\ work' = work
  BY ONLY Fire, Zenon DEF Fire
<1>3. asked' = asked /\ gaveUp' = gaveUp /\ excuse' = excuse
  BY ONLY Fire, Zenon DEF Fire, history
<1> QED
  BY <1>1, <1>2, <1>3

\* What the handler does when it starts.
LEMMA FireRuns ==
    ASSUME Fire
    PROVE  /\ run.pc = "idle"
           /\ \/ run' = run
              \/ st.phase = "listing" /\ run' = [IdleRun EXCEPT !.pc = "list", !.st = st, !.at = From(st)]
              \/ \E batch \in SUBSET queue :
                   st.phase = "importing" /\
                   run' = [IdleRun EXCEPT !.pc = "work", !.st = st, !.todo = batch, !.tries = tries]
BY ONLY Fire, Zenon DEF Fire

LEMMA FireCopy ==
    ASSUME Fire
    PROVE  \/ run' = run /\ run.pc = "idle"
           \/ run'.pc \in {"list", "work"} /\ run'.st = st /\ st.phase \in {"listing", "importing"}
<1>1. CASE st.phase = "listing" /\ run' = [IdleRun EXCEPT !.pc = "list", !.st = st, !.at = From(st)]
  BY ONLY <1>1 DEF IdleRun
<1>2. ASSUME NEW batch \in SUBSET queue, st.phase = "importing",
             run' = [IdleRun EXCEPT !.pc = "work", !.st = st, !.todo = batch, !.tries = tries]
      PROVE  run'.pc \in {"list", "work"} /\ run'.st = st /\ st.phase \in {"listing", "importing"}
  BY ONLY <1>2 DEF IdleRun
<1>3. \/ run' = run /\ run.pc = "idle"
      \/ st.phase = "listing" /\ run' = [IdleRun EXCEPT !.pc = "list", !.st = st, !.at = From(st)]
      \/ \E batch \in SUBSET queue :
           st.phase = "importing" /\
           run' = [IdleRun EXCEPT !.pc = "work", !.st = st, !.todo = batch, !.tries = tries]
  BY FireRuns, Zenon
<1> QED
  BY ONLY <1>1, <1>2, <1>3, Zenon

LEMMA LinkedStep == TypeOK /\ HeldOK /\ LinkedOK /\ [Next]_vars => LinkedOK'
<1> SUFFICES ASSUME TypeOK, HeldOK, LinkedOK, [Next]_vars PROVE LinkedOK'
  OBVIOUS
<1> USE Has
<1>1. ASSUME NEW w \in Workers, WorkStep(w) PROVE LinkedOK'
  <2>1. linked \subseteq linked' /\ \A v \in Workers \ {w} : work'[v] = work[v]
    BY <1>1, WorkMoves
  <2>2. work'[w].pc = "sort" => work'[w].m \in linked' /\ work'[w].sort
    BY <1>1, WorkMoves
  <2> QED
    BY <2>1, <2>2 DEF LinkedOK
<1>2. ASSUME Crash PROVE LinkedOK'
  BY <1>2 DEF Crash, IdleWork, LinkedOK
<1>3. ASSUME AlarmStep PROVE LinkedOK'
  <2>1. work' = work /\ linked' = linked
    <3>1. CASE Fire
      BY <3>1, FireStill
    <3>2. CASE ListPage
      BY <3>2 DEF ListPage, outside
    <3>3. CASE ListFails
      BY <3>3 DEF ListFails, outside
    <3>4. CASE BatchEnds
      BY <3>4 DEF BatchEnds, outside
    <3>5. CASE Reconcile
      BY <3>5 DEF Reconcile, outside
    <3> QED
      BY <1>3, <3>1, <3>2, <3>3, <3>4, <3>5 DEF AlarmStep
  <2> QED
    BY <2>1 DEF LinkedOK
<1>4. ASSUME \/ Connect \/ Older \/ Cancel \/ Disconnect \/ Withdraw \/ UNCHANGED vars
             \/ \E m \in Mail : Vanish(m)
      PROVE  LinkedOK'
  <2>1. work' = work /\ linked' = linked
    BY <1>4 DEF Connect, Older, Cancel, Disconnect, Withdraw, Vanish, vars, outside
  <2> QED
    BY <2>1 DEF LinkedOK
<1> QED
  BY <1>1, <1>2, <1>3, <1>4 DEF Next

LEMMA WorkKeeps ==
    ASSUME TypeOK, HeldOK, LinkedOK, NEW w \in Workers, WorkStep(w) PROVE Keeps /\ excuse \subseteq excuse'
<1> USE Has
<1>1. ASSUME Take(w) PROVE Keeps
  <2>1. PICK m \in run.todo : (m \in linked /\ Done(w, m, FALSE)) \/ UNCHANGED queue
    BY <1>1 DEF Take
  <2>2. m \in Mail /\ kind' = kind /\ gmail' = gmail /\ linked' = linked /\ gaveUp' = gaveUp
    BY <1>1 DEF Run, Take, outside, history
  <2>3. CASE m \in linked /\ Done(w, m, FALSE)
    <3>1. queue' = queue \ {m} /\ Settled(m)'
      BY <2>2, <2>3 DEF Done, Dequeue, Settled
    <3> QED
      BY <2>2, <3>1, DoneKeeps
  <2> QED
    BY <2>1, <2>2, <2>3, QuietKeeps
<1>2. ASSUME Fetch(w) PROVE Keeps
  <2>1. /\ work[w].m \in Mail /\ kind' = kind /\ gmail' = gmail /\ linked' = linked /\ gaveUp' = gaveUp
        /\ kind \in [1..N -> {"fine", "poison", "unfit"}]
    BY <1>2, HoldsMail, SizesAssumption DEF Fetch, outside, history, TypeOK
  <2>2. CASE work[w].m \in gmail /\ kind[work[w].m] = "fine"
    BY <1>2, <2>1, <2>2, QuietKeeps DEF Fetch, Go
  <2>3. CASE ~(work[w].m \in gmail /\ kind[work[w].m] = "fine")
    <3>1. PICK m \in Mail : m = work[w].m
      BY <2>1
    <3>2. m \notin gmail \/ kind[m] = "unfit"
      BY <1>2, <2>1, <2>3, <3>1 DEF Fetch, Poisoned, Mail
    <3>3. queue' = queue \ {m}
      BY <1>2, <2>3, <3>1 DEF Fetch, Done, Dequeue
    <3>4. Settled(m)'
      BY <2>1, <3>2 DEF Settled
    <3> QED
      BY <2>1, <3>3, <3>4, DoneKeeps
  <2> QED
    BY <2>2, <2>3
<1>3. ASSUME Store(w) PROVE Keeps
  BY <1>3, QuietKeeps DEF Store, import, history
<1>4. ASSUME Link(w) PROVE Keeps
  <2>1. PICK m \in Mail : m = work[w].m
    BY <1>4, HoldsMail DEF Link
  <2>2. kind' = kind /\ gmail' = gmail /\ gaveUp' = gaveUp /\ linked' = linked \cup {m}
    BY <1>4, <2>1 DEF Link, history
  <2>3. queue \ {m} \subseteq queue'
    BY <1>4, <2>1 DEF Link, Go, Done, Dequeue
  <2>4. Settled(m)'
    BY <2>2 DEF Settled
  <2> QED
    BY <2>2, <2>3, <2>4, DoneKeeps
<1>5. ASSUME Sort(w) PROVE Keeps
  <2>1. PICK m \in Mail : m = work[w].m
    BY <1>5, HoldsMail DEF Sort
  <2>2. kind' = kind /\ gmail' = gmail /\ gaveUp' = gaveUp /\ linked' = linked /\ queue' = queue \ {m}
    BY <1>5, <2>1 DEF Sort, outside, Done, Dequeue
  <2>3. m \in linked
    BY <1>5, <2>1 DEF LinkedOK, Sort
  <2>4. Settled(m)'
    BY <2>2, <2>3 DEF Settled
  <2> QED
    BY <2>2, <2>4, DoneKeeps
<1>6. ASSUME WorkFails(w) PROVE Keeps
  <2>1. /\ work[w].m \in Mail /\ kind' = kind /\ gmail' = gmail /\ linked \subseteq linked'
    BY <1>6, HoldsMail DEF WorkFails
  <2>2. \/ queue' = queue /\ gaveUp \subseteq gaveUp'
        \/ queue' = queue \ {work[w].m} /\ gaveUp' = gaveUp \cup {work[w].m}
    BY <1>6 DEF WorkFails, Miss, Deny, Dequeue
  <2>3. CASE queue' = queue /\ gaveUp \subseteq gaveUp'
    BY <2>1, <2>3, QuietKeeps
  <2>4. CASE queue' = queue \ {work[w].m} /\ gaveUp' = gaveUp \cup {work[w].m}
    <3>1. PICK m \in Mail : m = work[w].m
      BY <2>1
    <3>2. Settled(m)'
      BY <2>4, <3>1 DEF Settled
    <3> QED
      BY <2>1, <2>4, <3>1, <3>2, DoneKeeps
  <2> QED
    BY <2>2, <2>3, <2>4
<1>7. excuse \subseteq excuse'
  BY DEF WorkStep, Take, Fetch, Store, Link, Sort, WorkFails, history
<1> QED
  BY <1>1, <1>2, <1>3, <1>4, <1>5, <1>6, <1>7 DEF WorkStep

LEMMA FinishNone ==
    ASSUME NEW s, Finish(s), s.phase # "none" PROVE NoneOK'
BY DEF Finish, NoneOK

LEMMA NoneStep == TypeOK /\ HeldOK /\ CopyOK /\ NoneOK /\ [Next]_vars => NoneOK'
<1> SUFFICES ASSUME TypeOK, HeldOK, CopyOK, NoneOK, [Next]_vars PROVE NoneOK'
  OBVIOUS
<1> USE Has
<1>0. ASSUME st' = st PROVE NoneOK'
  BY <1>0 DEF NoneOK
<1>1. ASSUME NEW w \in Workers, WorkStep(w) PROVE NoneOK'
  BY <1>0, <1>1, WorkCopy
<1>2. ASSUME Fire PROVE NoneOK'
  BY <1>0, <1>2, FireStill
<1>3. ASSUME ListPage \/ ListFails \/ BatchEnds \/ Reconcile PROVE NoneOK'
  <2>1. run.pc # "idle" /\ run.st \in State
    BY <1>3 DEF ListPage, ListFails, BatchEnds, Reconcile, Run
  <2>2. run.st.phase \in {"listing", "importing"}
    BY <2>1 DEF CopyOK
  <2>3. CASE ListPage
    <3> DEFINE s == [run.st EXCEPT !.counted = @ \/ Page # {}]
               t == [s EXCEPT !.token = IF LastPage THEN 0 ELSE PageEnd,
                              !.phase = IF LastPage THEN "importing" ELSE @]
    <3>1. t.phase # "none"
      BY <2>1, <2>2 DEF State
    <3>2. st' = st \/ Finish(t)
      BY <2>3 DEF ListPage
    <3> QED
      BY <1>0, <3>1, <3>2, FinishNone
  <2>4. CASE ListFails \/ BatchEnds \/ Reconcile
    <3>1. [run.st EXCEPT !.phase = "paused"].phase # "none" /\ [run.st EXCEPT !.phase = "done"].phase # "none"
          /\ [run.st EXCEPT !.reconciled = TRUE].phase # "none"
      BY <2>1, <2>2 DEF State
    <3>2. \/ st' = st \/ st' = run.st \/ Finish([run.st EXCEPT !.phase = "paused"])
          \/ Finish([run.st EXCEPT !.phase = "done"]) \/ Finish([run.st EXCEPT !.reconciled = TRUE])
      BY <2>4 DEF ListFails, BatchEnds, Reconcile, Refused, Finish
    <3> QED
      BY <1>0, <2>2, <3>1, <3>2, FinishNone DEF NoneOK
  <2> QED
    BY <1>3, <2>3, <2>4
<1>4. ASSUME Connect \/ Older \/ Cancel PROVE NoneOK'
  <2>1. \/ st' = st \/ st' = NoState
        \/ \E from, to : Begin(from, to)
        \/ Resume
    BY <1>4 DEF Connect, Older, Cancel
  <2>2. ASSUME NEW from, NEW to, Begin(from, to) PROVE NoneOK'
    BY <2>2 DEF Begin, NoneOK, NoState
  <2>3. ASSUME Resume PROVE NoneOK'
    BY <2>3 DEF Resume, NoneOK, State
  <2> QED
    BY <1>0, <2>1, <2>2, <2>3 DEF NoneOK
<1>5. ASSUME Crash \/ Disconnect \/ Withdraw \/ (\E m \in Mail : Vanish(m)) \/ UNCHANGED vars PROVE NoneOK'
  BY <1>0, <1>5 DEF Crash, Disconnect, Withdraw, Vanish, vars, import
<1> QED
  BY <1>1, <1>2, <1>3, <1>4, <1>5 DEF Next, AlarmStep

LEMMA WindowStill ==
    ASSUME TypeOK, WindowOK, Keeps, excuse \subseteq excuse', st' = st,
           run'.pc = "recon" /\ ~run'.stale => run.pc = "recon" /\ ~run.stale /\ run'.at = run.at
    PROVE  WindowOK'
<1> SUFFICES ASSUME Clean', st'.phase # "none"
             PROVE  /\ Brought(st.from)'
                    /\ st'.reconciled => Listed(st.to)'
                    /\ st'.phase = "done" => Brought(st.to)'
                    /\ run'.pc = "recon" /\ ~run'.stale => Listed(run.at)'
  BY DEF WindowOK
<1>1. Clean
  BY DEF Clean
<1> QED
  BY <1>1 DEF WindowOK, Keeps, Brought, Listed

\* The handler ends: what it writes is about the window of its copy.
LEMMA WindowFinish ==
    ASSUME TypeOK, CopyOK, WindowOK, Keeps, run.pc # "idle", NEW s \in State, Finish(s),
           s.from = run.st.from, s.to = run.st.to,
           ~run.stale /\ Clean /\ s.reconciled /\ ~run.st.reconciled =>
             \A m \in Mail : m <= run.st.to => Settled(m)' \/ m \in queue',
           ~run.stale /\ Clean /\ s.phase = "done" => \A m \in Mail : m <= run.st.to => Settled(m)'
    PROVE  WindowOK'
<1> SUFFICES ASSUME Clean'
             PROVE  /\ Brought(st.from)'
                    /\ st'.reconciled => Listed(st.to)'
                    /\ st'.phase = "done" => Brought(st.to)'
  BY DEF WindowOK, Finish, IdleRun
<1>1. ~run.stale /\ Clean
  BY DEF Clean, Finish
<1>2. st' = s /\ s.from = st.from /\ s.to = st.to /\ run.st.reconciled = st.reconciled /\ st.phase # "none"
  BY <1>1 DEF CopyOK, Finish
<1>3. Brought(st.from) /\ (st.reconciled => Listed(st.to))
  BY <1>1, <1>2 DEF WindowOK
<1>4. Brought(st.from)'
  BY <1>2, <1>3 DEF Keeps, Brought
<1>5. st'.reconciled => Listed(st.to)'
  BY <1>1, <1>2, <1>3 DEF Keeps, Listed
<1>6. st'.phase = "done" => Brought(st.to)'
  BY <1>1, <1>2 DEF Brought
<1> QED
  BY <1>4, <1>5, <1>6

LEMMA ListPageWindow == ASSUME TypeOK, CopyOK, WindowOK, ListPage PROVE WindowOK'
<1> USE Has
<1> DEFINE s == [run.st EXCEPT !.counted = @ \/ Page # {}]
           t == [s EXCEPT !.token = IF LastPage THEN 0 ELSE PageEnd,
                          !.phase = IF LastPage THEN "importing" ELSE @]
<1>1. Keeps
  BY QuietKeeps DEF ListPage, Enqueue, outside
<1>2. run.pc = "list" /\ run.st \in State
  BY DEF ListPage, Run
<1>3. CASE Finish(t)
  <2>1. s.counted = (run.st.counted \/ Page # {}) /\ s \in State
    BY <1>2 DEF State
  <2>2. t \in State
    <3>1. (IF LastPage THEN 0 ELSE PageEnd) \in 0..N
      BY PageEnds, Sizes
    <3> QED
      BY <2>1, <3>1 DEF State
  <2>3. t.from = run.st.from /\ t.to = run.st.to /\ t.reconciled = run.st.reconciled /\ t.phase # "done"
    <3>1. run.st.phase # "done"
      BY <1>2 DEF CopyOK
    <3> QED
      BY <1>2, <3>1 DEF State
  <2> HIDE DEF t
  <2> QED
    BY <1>1, <1>2, <1>3, <2>2, <2>3, WindowFinish
<1>4. CASE UNCHANGED <<st, alarm, excuse>> /\ run' = [run EXCEPT !.st = s, !.at = PageEnd, !.pages = @ + 1]
  <2>1. run'.pc = "list"
    BY <1>2, <1>4 DEF Run
  <2> QED
    BY <1>1, <1>4, <2>1, WindowStill
<1> QED
  BY <1>3, <1>4 DEF ListPage

LEMMA ListFailsWindow == ASSUME TypeOK, CopyOK, WindowOK, ListFails PROVE WindowOK'
<1> USE Has
<1>1. Keeps
  BY QuietKeeps DEF ListFails, outside
<1>2. run.pc # "idle" /\ run.st \in State
  BY DEF ListFails, Run
<1>3. run.st.phase # "done"
  BY <1>2 DEF CopyOK
<1>4. Finish(run.st) \/ Finish([run.st EXCEPT !.phase = "paused"])
  BY DEF ListFails, Refused
<1>5. CASE Finish(run.st)
  BY <1>1, <1>2, <1>3, <1>5, WindowFinish
<1>6. CASE Finish([run.st EXCEPT !.phase = "paused"])
  <2> DEFINE t == [run.st EXCEPT !.phase = "paused"]
  <2>1. t \in State /\ t.from = run.st.from /\ t.to = run.st.to /\ t.reconciled = run.st.reconciled
        /\ t.phase # "done" /\ Finish(t)
    BY <1>2, <1>6 DEF State
  <2> HIDE DEF t
  <2> QED
    BY <1>1, <1>2, <2>1, WindowFinish
<1> QED
  BY <1>4, <1>5, <1>6

LEMMA BatchEndsWindow == ASSUME TypeOK, CopyOK, WindowOK, BatchEnds PROVE WindowOK'
<1> USE Has
<1>1. Keeps /\ queue' = queue
  BY QuietKeeps DEF BatchEnds, outside
<1>2. run.pc = "work" /\ run.pc # "idle" /\ run.st \in State
  BY DEF BatchEnds, Run
<1>3. run.st.phase # "done"
  BY <1>2 DEF CopyOK
<1>4. CASE Finish(run.st)
  BY <1>1, <1>2, <1>3, <1>4, WindowFinish
<1>5. CASE Finish([run.st EXCEPT !.phase = "paused"])
  <2> DEFINE t == [run.st EXCEPT !.phase = "paused"]
  <2>1. t \in State /\ t.from = run.st.from /\ t.to = run.st.to /\ t.reconciled = run.st.reconciled
        /\ t.phase # "done" /\ Finish(t)
    BY <1>2, <1>5 DEF State
  <2> HIDE DEF t
  <2> QED
    BY <1>1, <1>2, <2>1, WindowFinish
<1>6. CASE queue = {} /\ run.st.reconciled /\ Finish([run.st EXCEPT !.phase = "done"])
  <2> DEFINE t == [run.st EXCEPT !.phase = "done"]
  <2>1. t \in State /\ t.from = run.st.from /\ t.to = run.st.to /\ t.reconciled = run.st.reconciled
        /\ Finish(t)
    BY <1>2, <1>6 DEF State
  <2>2. ~run.stale /\ Clean => \A m \in Mail : m <= run.st.to => Settled(m)'
    <3> SUFFICES ASSUME ~run.stale, Clean, NEW m \in Mail, m <= run.st.to PROVE Settled(m)'
      OBVIOUS
    <3>1. st.reconciled /\ st.to = run.st.to /\ st.phase # "none"
      BY <1>2, <1>6 DEF CopyOK
    <3>2. Settled(m)
      BY <1>6, <3>1 DEF WindowOK, Listed
    <3> QED
      BY <1>1, <3>2 DEF Keeps
  <2> HIDE DEF t
  <2> QED
    BY <1>1, <1>2, <1>6, <2>1, <2>2, WindowFinish
<1>7. CASE /\ st' = run.st
           /\ run' = [run EXCEPT !.pc = "recon", !.at = run.st.from, !.tries = IdleRun.tries]
           /\ excuse' = IF run.stale THEN excuse \cup {"revived"} ELSE excuse
           /\ ~run.st.reconciled
  <2>1. run'.at = run.st.from /\ run'.stale = run.stale
    BY <1>7 DEF Run
  <2> SUFFICES ASSUME Clean'
               PROVE  Brought(st.from)' /\ Listed(run.at)'
    BY <1>3, <1>7 DEF WindowOK
  <2>2. ~run.stale /\ Clean
    BY <1>7 DEF Clean
  <2>3. st'.from = st.from /\ run'.at = st.from /\ st.phase # "none"
    BY <1>2, <1>7, <2>1, <2>2 DEF CopyOK
  <2>4. Brought(st.from)
    BY <2>2, <2>3 DEF WindowOK
  <2> QED
    BY <1>1, <2>3, <2>4 DEF Keeps, Brought, Listed
<1> QED
  BY <1>4, <1>5, <1>6, <1>7 DEF BatchEnds, Refused

\* The next page of the second list.
LEMMA Relisted ==
    ASSUME TypeOK, Listed(run.at), Keeps, Enqueue(Page \ linked), gmail' = gmail, linked' = linked
    PROVE  \A m \in Mail : m <= PageEnd => Settled(m)' \/ m \in queue'
<1> SUFFICES ASSUME NEW m \in Mail, m <= PageEnd PROVE Settled(m)' \/ m \in queue'
  OBVIOUS
<1>1. CASE m <= run.at
  BY <1>1 DEF Listed, Keeps
<1>2. CASE ~(m <= run.at)
  <2>1. run.at \in 0..N
    BY Has DEF Run
  <2>2. run.at < m
    BY <1>2, <2>1, Sizes DEF Mail
  <2>3. CASE m \in gmail
    BY <2>2, <2>3 DEF Page, Enqueue, Settled
  <2>4. CASE m \notin gmail
    BY <2>4 DEF Settled
  <2> QED
    BY <2>3, <2>4
<1> QED
  BY <1>1, <1>2

LEMMA ReconcileWindow == ASSUME TypeOK, CopyOK, WindowOK, Reconcile PROVE WindowOK'
<1> USE Has
<1>1. Keeps /\ gmail' = gmail /\ linked' = linked /\ Enqueue(Page \ linked)
  BY QuietKeeps DEF Reconcile, Enqueue, outside
<1>2. run.pc = "recon" /\ run.pc # "idle" /\ run.st \in State
  BY DEF Reconcile, Run
<1>3. run.st.phase # "done"
  BY <1>2 DEF CopyOK
<1>4. ~run.stale /\ Clean => \A m \in Mail : m <= PageEnd => Settled(m)' \/ m \in queue'
  <2> SUFFICES ASSUME ~run.stale, Clean PROVE \A m \in Mail : m <= PageEnd => Settled(m)' \/ m \in queue'
    OBVIOUS
  <2>1. st.phase # "none"
    BY <1>2 DEF CopyOK
  <2>2. Listed(run.at)
    BY <1>2, <2>1 DEF WindowOK
  <2> QED
    BY <1>1, <2>2, Relisted
<1>5. CASE LastPage /\ Finish([run.st EXCEPT !.reconciled = TRUE])
  <2> DEFINE t == [run.st EXCEPT !.reconciled = TRUE]
  <2>1. t \in State /\ t.from = run.st.from /\ t.to = run.st.to /\ t.phase # "done" /\ Finish(t)
    BY <1>2, <1>3, <1>5 DEF State
  <2>2. PageEnd = run.st.to
    BY <1>5 DEF LastPage
  <2> HIDE DEF t
  <2> QED
    BY <1>1, <1>2, <1>4, <2>1, <2>2, WindowFinish
<1>6. CASE run' = [run EXCEPT !.at = PageEnd] /\ UNCHANGED <<st, skipped, alarm, excuse>>
  <2>1. run'.at = PageEnd /\ run'.stale = run.stale /\ run'.pc = run.pc
    BY <1>6 DEF Run
  <2> SUFFICES ASSUME Clean', st'.phase # "none"
               PROVE  /\ Brought(st.from)'
                      /\ st'.reconciled => Listed(st.to)'
                      /\ st'.phase = "done" => Brought(st.to)'
                      /\ run'.pc = "recon" /\ ~run'.stale => Listed(run.at)'
    BY DEF WindowOK
  <2>2. Clean /\ st.phase # "none"
    BY <1>6 DEF Clean
  <2>3. run'.pc = "recon" /\ ~run'.stale => Listed(run.at)'
    BY <1>4, <2>1, <2>2 DEF Listed
  <2> QED
    BY <1>1, <1>6, <2>2, <2>3 DEF WindowOK, Keeps, Brought, Listed
<1> QED
  BY <1>5, <1>6 DEF Reconcile

\* A window is asked for: it begins where the one before it ended.
LEMMA BeginWindow ==
    ASSUME TypeOK, CopyOK, NEW from, NEW to, Begin(from, to), run' = run,
           ~(st.phase \in {"listing", "importing"}),
           Clean' => \A m \in Mail : m <= from => Settled(m)'
    PROVE  WindowOK'
<1>1. st'.phase = "listing" /\ ~st'.reconciled /\ st'.from = from
  BY DEF Begin, NoState
<1>2. ~(run'.pc = "recon" /\ ~run'.stale)
  BY DEF CopyOK
<1> QED
  BY <1>1, <1>2 DEF WindowOK, Brought

LEMMA ConnectWindow == ASSUME TypeOK, CopyOK, WindowOK, Connect PROVE WindowOK'
<1> USE Has
<1>1. run' = run /\ kind' = kind /\ gmail' = gmail /\ linked' = linked /\ queue' = queue
  BY DEF Connect
<1>2. ASSUME NEW to \in Targets, st = NoState, Begin(0, to) PROVE WindowOK'
  <2>1. \A m \in Mail : ~(m <= 0)
    BY Sizes DEF Mail
  <2>2. st.phase = "none"
    BY <1>2 DEF NoState
  <2> QED
    BY <1>1, <1>2, <2>1, <2>2, BeginWindow
<1>3. CASE st.phase = "paused" /\ Resume /\ UNCHANGED <<asked, gaveUp, excuse>>
  <2>1. /\ st'.from = st.from /\ st'.to = st.to /\ st'.reconciled = st.reconciled
        /\ st'.phase # "done"
    BY <1>3 DEF Resume, State
  <2>2. \A m \in Mail : Settled(m)' = Settled(m)
    BY <1>1, <1>3 DEF Settled
  <2>3. Clean' = Clean /\ st.phase # "none"
    BY <1>3 DEF Clean
  <2> QED
    BY <1>1, <2>1, <2>2, <2>3 DEF WindowOK, Brought, Listed
<1>4. CASE UNCHANGED <<st, alarm, asked, gaveUp, excuse>>
  <2>1. Keeps
    BY <1>1, <1>4, QuietKeeps
  <2> QED
    BY <1>1, <1>4, <2>1, WindowStill
<1> QED
  BY <1>2, <1>3, <1>4 DEF Connect

LEMMA OlderWindow == ASSUME TypeOK, NoneOK, CopyOK, WindowOK, Older PROVE WindowOK'
<1> USE Has
<1>1. run' = run /\ kind' = kind /\ gmail' = gmail /\ linked' = linked /\ gaveUp' = gaveUp
  BY DEF Older, outside
<1>2. PICK to \in Targets : Begin(st.to, to)
  BY DEF Older
<1>3. PICK from \in 0..N : from = st.to
  BY DEF State
<1>4. st.phase \in {"paused", "done"}
  BY DEF Older, Active, NoneOK, State
<1>5. ASSUME Clean', NEW m \in Mail, m <= from PROVE Settled(m)'
  <2>1. excuse' = (excuse \ {"uncounted"}) \cup (IF st.phase = "paused" THEN {"abandoned"} ELSE {})
    BY DEF Older
  <2>2. Clean /\ st.phase = "done"
    BY <1>4, <1>5, <2>1 DEF Clean
  <2>3. Settled(m)
    BY <1>3, <1>5, <2>2 DEF WindowOK, Brought
  <2> QED
    BY <1>1, <2>3 DEF Settled
<1> QED
  BY <1>1, <1>2, <1>3, <1>4, <1>5, BeginWindow

LEMMA WindowStep ==
    TypeOK /\ HeldOK /\ LinkedOK /\ NoneOK /\ CopyOK /\ WindowOK /\ [Next]_vars => WindowOK'
<1> SUFFICES ASSUME TypeOK, HeldOK, LinkedOK, NoneOK, CopyOK, WindowOK, [Next]_vars PROVE WindowOK'
  OBVIOUS
<1>1. ASSUME NEW w \in Workers, WorkStep(w) PROVE WindowOK'
  <2>1. Keeps /\ excuse \subseteq excuse'
    BY <1>1, WorkKeeps
  <2>2. st' = st /\ run'.pc # "recon"
    BY <1>1, WorkCopy
  <2> QED
    BY <2>1, <2>2, WindowStill
<1>2. ASSUME Fire PROVE WindowOK'
  <2>1. Keeps
    BY <1>2, FireStill, QuietKeeps
  <2>2. run'.pc # "recon"
    BY ONLY <1>2, FireCopy
  <2> QED
    BY <1>2, <2>1, <2>2, FireStill, WindowStill
<1>3. ASSUME Cancel PROVE WindowOK'
  BY <1>3 DEF Cancel, NoState, WindowOK
<1>4. ASSUME Crash PROVE WindowOK'
  <2>1. Keeps
    BY <1>4, QuietKeeps DEF Crash, outside
  <2> QED
    BY <1>4, <2>1, WindowStill DEF Crash, IdleRun
<1>5. ASSUME Disconnect \/ Withdraw \/ (\E m \in Mail : Vanish(m)) \/ UNCHANGED vars PROVE WindowOK'
  <2>1. kind' = kind /\ gmail' \subseteq gmail /\ linked' = linked /\ gaveUp' = gaveUp /\ queue' = queue
        /\ st' = st /\ run' = run /\ excuse' = excuse
    BY <1>5 DEF Disconnect, Withdraw, Vanish, vars, import, history
  <2>2. Keeps
    BY <2>1, QuietKeeps
  <2> QED
    BY <2>1, <2>2, WindowStill
<1> QED
  BY <1>1, <1>2, <1>3, <1>4, <1>5, ListPageWindow, ListFailsWindow, BatchEndsWindow, ReconcileWindow,
     ConnectWindow, OlderWindow DEF Next, AlarmStep

-----------------------------------------------------------------------------
(* What is counted *)

LEMMA Few ==
    /\ IsFiniteSet(Workers) /\ Cardinality(Workers) \in Nat \ {0}
    /\ \A S \in SUBSET Workers : /\ IsFiniteSet(S) /\ Cardinality(S) \in Nat
                               /\ Cardinality(S) <= Cardinality(Workers)
<1>1. IsFiniteSet(Workers) /\ Workers # {}
  BY SizesAssumption
<1>2. Cardinality(Workers) \in Nat \ {0}
  BY <1>1, FS_CardinalityType, FS_EmptySet
<1>3. ASSUME NEW S \in SUBSET Workers
      PROVE  IsFiniteSet(S) /\ Cardinality(S) \in Nat /\ Cardinality(S) <= Cardinality(Workers)
  BY <1>1, FS_Subset, FS_CardinalityType
<1> QED
  BY <1>1, <1>2, <1>3

LEMMA Fewer ==
    ASSUME NEW S \in SUBSET Workers, NEW T \in SUBSET S
    PROVE  Cardinality(T) \in Nat /\ Cardinality(S) \in Nat /\ Cardinality(T) <= Cardinality(S)
BY Few, FS_Subset

\* No worker is given leave to ask, and the count is carried on.
LEMMA CountStill ==
    ASSUME TypeOK, TypeOK', CountOK, asked' = asked, excuse \subseteq excuse', Sorting' \subseteq Sorting,
           "uncounted" \notin excuse' /\ run'.pc = "idle" /\ st'.phase # "none" =>
               \/ run.pc = "idle" /\ st.phase # "none" /\ st'.sorted = st.sorted
               \/ run.pc # "idle" /\ st'.sorted = run.st.sorted,
           "uncounted" \notin excuse' /\ run'.pc # "idle" =>
               \/ run.pc = "idle" /\ st.phase # "none" /\ run'.st.sorted = st.sorted
               \/ run.pc # "idle" /\ run'.st.sorted \in {run.st.sorted, run.st.sorted + 1}
    PROVE  CountOK'
<1>1. Cardinality(Sorting') \in Nat /\ Cardinality(Sorting) \in Nat
      /\ Cardinality(Sorting') <= Cardinality(Sorting)
  <2>1. Sorting \in SUBSET Workers
    BY DEF Sorting
  <2> QED
    BY <2>1, Fewer
<1>2. asked \in Nat /\ run.st.sorted \in Nat /\ st.sorted \in Nat /\ SortBudget \in Nat
      /\ Cardinality(Workers) \in Nat
  BY Has, Few, Sizes DEF Run, State
<1>3. \A w \in Sorting' : SortBudget > 0
  BY DEF CountOK
<1>4. ASSUME "uncounted" \notin excuse'
      PROVE  /\ run'.pc = "idle" /\ st'.phase # "none" => asked' <= st'.sorted
             /\ run'.pc # "idle" => asked' <= run'.st.sorted
             /\ asked' + Cardinality(Sorting') <= SortBudget + Cardinality(Workers) - 1
  <2>1. "uncounted" \notin excuse
    BY <1>4
  <2>2. asked + Cardinality(Sorting) <= SortBudget + Cardinality(Workers) - 1
    BY <2>1 DEF CountOK
  <2>3. /\ run.pc = "idle" /\ st.phase # "none" => asked <= st.sorted
        /\ run.pc # "idle" => asked <= run.st.sorted
    BY <2>1 DEF CountOK
  <2>4. asked' + Cardinality(Sorting') <= SortBudget + Cardinality(Workers) - 1
    BY <1>1, <1>2, <2>2
  <2> QED
    BY <1>2, <1>4, <2>3, <2>4
<1> QED
  BY <1>3, <1>4 DEF CountOK

\* The count starts again.
LEMMA CountBegins ==
    ASSUME TypeOK, CountOK, NEW from, NEW to, Begin(from, to), run' = run, work' = work
    PROVE  CountOK'
<1>1. Sorting' = Sorting /\ Sorting \in SUBSET Workers
  BY DEF Sorting
<1>2. Cardinality(Sorting) \in Nat /\ Cardinality(Sorting) <= Cardinality(Workers)
      /\ Cardinality(Workers) \in Nat \ {0} /\ SortBudget \in Nat
  BY <1>1, Few, Sizes
<1>3. Cardinality(Sorting) <= SortBudget + Cardinality(Workers) - 1
  <2>1. CASE Sorting = {}
    BY <2>1, <1>2, FS_EmptySet
  <2>2. CASE Sorting # {}
    <3>1. SortBudget > 0
      BY <2>2 DEF CountOK
    <3> QED
      BY <1>2, <3>1
  <2> QED
    BY <2>1, <2>2
<1>4. asked' = 0 /\ st'.sorted = 0
  BY DEF Begin, NoState
<1>5. run'.pc # "idle" => asked' <= run'.st.sorted
  BY <1>4, Has DEF Run, State
<1>6. asked' + Cardinality(Sorting') <= SortBudget + Cardinality(Workers) - 1
  BY <1>1, <1>2, <1>3, <1>4
<1>7. \A w \in Sorting' : SortBudget > 0
  BY <1>1 DEF CountOK
<1> QED
  BY <1>4, <1>5, <1>6, <1>7 DEF CountOK

LEMMA CountLost ==
    ASSUME CountOK, Sorting' \subseteq Sorting, "uncounted" \in excuse' PROVE CountOK'
BY DEF CountOK

LEMMA CountFinish ==
    ASSUME TypeOK, TypeOK', CountOK, NEW s, Finish(s), s.sorted = run.st.sorted, run.pc # "idle",
           asked' = asked, work' = work
    PROVE  CountOK'
<1>1. run'.pc = "idle" /\ st'.sorted = run.st.sorted /\ excuse \subseteq excuse'
  BY DEF Finish, IdleRun
<1>2. Sorting' = Sorting
  BY DEF Sorting
<1> QED
  BY <1>1, <1>2, CountStill

LEMMA StillSorting ==
    ASSUME TypeOK, NEW w \in Workers, WorkStep(w), work[w].pc # "idle" \/ ~work'[w].sort
    PROVE  Sorting' \subseteq Sorting
<1>1. \A v \in Workers \ {w} : work'[v] = work[v]
  BY WorkMoves
<1>2. work'[w].pc # "idle" /\ work'[w].sort => work[w].pc = "idle" \/ work[w].sort
  BY WorkMoves
<1> QED
  BY <1>1, <1>2 DEF Sorting

LEMMA WorkStill ==
    ASSUME TypeOK, TypeOK', HeldOK, CountOK, NEW w \in Workers, WorkStep(w), Sorting' \subseteq Sorting,
           asked' = asked, excuse \subseteq excuse'
    PROVE  CountOK'
<1>1. run.pc = "work" /\ run'.pc = "work" /\ run'.st.sorted \in {run.st.sorted, run.st.sorted + 1}
  BY WorkCopy
<1> QED
  BY <1>1, CountStill

LEMMA TakeCount == ASSUME TypeOK, TypeOK', HeldOK, CountOK, NEW w \in Workers, Take(w) PROVE CountOK'
<1>1. WorkStep(w)
  BY DEF WorkStep
<1>2. work[w].pc = "idle" /\ run.pc = "work" /\ asked' = asked /\ excuse' = excuse /\ st' = st
  BY DEF Take, history
<1>3. CASE Sorting' \subseteq Sorting
  BY <1>1, <1>2, <1>3, WorkStill
<1>4. CASE ~(Sorting' \subseteq Sorting)
  <2>1. work'[w].pc # "idle" /\ work'[w].sort
    BY <1>1, <1>4, WorkMoves DEF Sorting
  <2>2. PICK m \in run.todo : \/ Done(w, m, FALSE)
                             \/ /\ run' = [run EXCEPT !.todo = @ \ {m}]
                                /\ work' = [work EXCEPT ![w] = [pc |-> "fetch", m |-> m, sort |-> WithinBudget, fresh |-> FALSE]]
    BY DEF Take
  <2>3. ~Done(w, m, FALSE)
    BY <2>1, IdleMoves DEF Done
  <2>4. run'.st = run.st /\ run'.pc = "work"
    BY <1>2, <2>2, <2>3, Has DEF Run
  <2>5. run.st.sorted < SortBudget
    <3>1. work' = [work EXCEPT ![w] = [pc |-> "fetch", m |-> m, sort |-> WithinBudget, fresh |-> FALSE]]
      BY <2>2, <2>3
    <3>2. WithinBudget
      BY <2>1, <3>1, Has
    <3> QED
      BY <3>2 DEF WithinBudget
  <2>6. run.st.sorted \in Nat /\ SortBudget \in Nat /\ asked \in Nat
    BY Has, Sizes DEF Run, State
  <2>7. Sorting' \in SUBSET Workers
    BY DEF Sorting
  <2>8. Cardinality(Sorting') \in Nat /\ Cardinality(Sorting') <= Cardinality(Workers)
        /\ Cardinality(Workers) \in Nat
    BY <2>7, Few
  <2>9. SortBudget > 0
    BY <2>5, <2>6
  <2>10. ASSUME "uncounted" \notin excuse'
         PROVE  /\ asked' <= run'.st.sorted
                /\ asked' + Cardinality(Sorting') <= SortBudget + Cardinality(Workers) - 1
    <3>1. asked <= run.st.sorted
      BY <1>2, <2>10 DEF CountOK
    <3> QED
      BY <1>2, <2>4, <2>5, <2>6, <2>8, <3>1
  <2> QED
    BY <2>4, <2>9, <2>10 DEF CountOK
<1> QED
  BY <1>3, <1>4

LEMMA SortCount == ASSUME TypeOK, TypeOK', HeldOK, LinkedOK, CountOK, NEW w \in Workers, Sort(w) PROVE CountOK'
<1>1. WorkStep(w)
  BY DEF WorkStep
<1>2. work[w].pc = "sort" /\ asked' = asked + 1 /\ excuse' = excuse /\ Done(w, work[w].m, TRUE)
  BY DEF Sort
<1>3. work[w].sort /\ work[w].m \in Mail
  BY <1>2, HoldsMail DEF LinkedOK
<1>4. work'[w].pc = "idle" /\ \A v \in Workers \ {w} : work'[v] = work[v]
  BY <1>2, IdleMoves DEF Done
<1>5. Sorting' = Sorting \ {w} /\ w \in Sorting /\ Sorting \in SUBSET Workers
  BY <1>2, <1>3, <1>4 DEF Sorting
<1>6. Cardinality(Sorting') = Cardinality(Sorting) - 1 /\ Cardinality(Sorting) \in Nat
      /\ Cardinality(Workers) \in Nat
  BY <1>5, Few, FS_RemoveElement
<1>7. run.pc = "work" /\ run'.pc = "work" /\ run'.st.sorted = run.st.sorted + 1
  BY <1>1, <1>2, <1>3, WorkCopy, DoneCopy
<1>8. run.st.sorted \in Nat /\ SortBudget \in Nat /\ asked \in Nat
  BY Has, Sizes DEF Run, State
<1>9. ASSUME "uncounted" \notin excuse'
      PROVE  /\ asked' <= run'.st.sorted
             /\ asked' + Cardinality(Sorting') <= SortBudget + Cardinality(Workers) - 1
  <2>1. asked <= run.st.sorted
    BY <1>2, <1>7, <1>9 DEF CountOK
  <2>2. asked + Cardinality(Sorting) <= SortBudget + Cardinality(Workers) - 1
    BY <1>2, <1>9 DEF CountOK
  <2> QED
    BY <1>2, <1>6, <1>7, <1>8, <2>1, <2>2
<1> QED
  BY <1>5, <1>7, <1>9 DEF CountOK

LEMMA WorkCount ==
    ASSUME TypeOK, TypeOK', HeldOK, LinkedOK, CountOK, NEW w \in Workers, WorkStep(w) PROVE CountOK'
<1>1. ASSUME Fetch(w) \/ Store(w) \/ Link(w) PROVE CountOK'
  <2>1. work[w].pc # "idle" /\ asked' = asked /\ excuse' = excuse
    BY <1>1 DEF Fetch, Store, Link, history
  <2> QED
    BY <2>1, StillSorting, WorkStill
<1>2. ASSUME WorkFails(w) PROVE CountOK'
  <2>1. work[w].pc # "idle"
    BY <1>2 DEF WorkFails
  <2>2. Sorting' \subseteq Sorting
    BY <2>1, StillSorting
  <2>3. \/ asked' = asked /\ excuse' = excuse
        \/ "uncounted" \in excuse'
    BY <1>2 DEF WorkFails
  <2> QED
    BY <2>2, <2>3, WorkStill, CountLost
<1> QED
  BY <1>1, <1>2, TakeCount, SortCount DEF WorkStep

LEMMA AlarmCount == ASSUME TypeOK, TypeOK', CountOK, AlarmStep PROVE CountOK'
<1> USE Has
<1>1. ASSUME Fire PROVE CountOK'
  <2>1. asked' = asked /\ excuse' = excuse /\ st' = st /\ work' = work
    BY <1>1, FireStill
  <2>2. \/ run' = run /\ run.pc = "idle"
        \/ run'.pc \in {"list", "work"} /\ run'.st = st /\ st.phase \in {"listing", "importing"}
    BY <1>1, FireCopy
  <2>3. run.pc = "idle"
    BY ONLY <1>1, Zenon DEF Fire
  <2>4. Sorting' = Sorting
    BY <2>1 DEF Sorting
  <2> QED
    BY <2>1, <2>2, <2>3, <2>4, CountStill
<1>2. ASSUME ListPage \/ ListFails \/ BatchEnds \/ Reconcile PROVE CountOK'
  <2>1. run.pc # "idle" /\ run.st \in State /\ asked' = asked /\ work' = work
    BY <1>2 DEF ListPage, ListFails, BatchEnds, Reconcile, Run
  <2>2. Sorting' = Sorting
    BY <2>1 DEF Sorting
  <2>3. CASE ListPage
    <3> DEFINE s == [run.st EXCEPT !.counted = @ \/ Page # {}]
               t == [s EXCEPT !.token = IF LastPage THEN 0 ELSE PageEnd,
                              !.phase = IF LastPage THEN "importing" ELSE @]
    <3>1. s.sorted = run.st.sorted /\ t.sorted = run.st.sorted
      BY <2>1 DEF State
    <3>2. CASE Finish(t)
      BY <2>1, <3>1, <3>2, CountFinish
    <3>3. CASE UNCHANGED <<st, alarm, excuse>> /\ run' = [run EXCEPT !.st = s, !.at = PageEnd, !.pages = @ + 1]
      <4>1. run'.pc = run.pc /\ run'.st = s
        BY <3>3 DEF Run
      <4> QED
        BY <2>1, <2>2, <3>1, <3>3, <4>1, CountStill
    <3> QED
      BY <2>3, <3>2, <3>3 DEF ListPage
  <2>4. CASE ListFails \/ BatchEnds \/ Reconcile
    <3>1. /\ [run.st EXCEPT !.phase = "paused"].sorted = run.st.sorted
          /\ [run.st EXCEPT !.phase = "done"].sorted = run.st.sorted
          /\ [run.st EXCEPT !.reconciled = TRUE].sorted = run.st.sorted
      BY <2>1 DEF State
    <3>2. CASE \/ Finish(run.st) \/ Finish([run.st EXCEPT !.phase = "paused"])
               \/ Finish([run.st EXCEPT !.phase = "done"]) \/ Finish([run.st EXCEPT !.reconciled = TRUE])
      BY <2>1, <3>1, <3>2, CountFinish
    <3>3. CASE ~\/ Finish(run.st) \/ Finish([run.st EXCEPT !.phase = "paused"])
                \/ Finish([run.st EXCEPT !.phase = "done"]) \/ Finish([run.st EXCEPT !.reconciled = TRUE])
      <4>1. run'.pc # "idle" /\ run'.st = run.st /\ excuse \subseteq excuse'
        BY <2>1, <2>4, <3>3 DEF ListFails, BatchEnds, Reconcile, Refused, Run
      <4> QED
        BY <2>1, <2>2, <4>1, CountStill
    <3> QED
      BY <3>2, <3>3
  <2> QED
    BY <1>2, <2>3, <2>4
<1> QED
  BY <1>1, <1>2 DEF AlarmStep

LEMMA CountStep ==
    TypeOK /\ TypeOK' /\ HeldOK /\ LinkedOK /\ CopyOK /\ CountOK /\ [Next]_vars => CountOK'
<1> SUFFICES ASSUME TypeOK, TypeOK', HeldOK, LinkedOK, CopyOK, CountOK, [Next]_vars PROVE CountOK'
  OBVIOUS
<1> USE Has
<1>1. ASSUME Crash PROVE CountOK'
  <2>1. Sorting' = {} /\ "uncounted" \in excuse'
    BY <1>1 DEF Crash, Sorting, IdleWork
  <2> QED
    BY <2>1, CountLost
<1>2. ASSUME Connect PROVE CountOK'
  <2>1. run' = run /\ work' = work /\ Sorting' = Sorting
    BY <1>2 DEF Connect, Sorting
  <2>2. ASSUME NEW to, Begin(0, to) PROVE CountOK'
    BY <2>1, <2>2, CountBegins
  <2>3. CASE st.phase = "paused" /\ Resume /\ UNCHANGED <<asked, gaveUp, excuse>>
    <3>1. st'.sorted = st.sorted /\ st.phase # "none"
      BY <2>3 DEF Resume, State
    <3> QED
      BY <2>1, <2>3, <3>1, CountStill
  <2>4. CASE UNCHANGED <<st, alarm, asked, gaveUp, excuse>>
    BY <2>1, <2>4, CountStill
  <2> QED
    BY <1>2, <2>2, <2>3, <2>4 DEF Connect
<1>3. ASSUME Older PROVE CountOK'
  <2>1. PICK to \in Targets : Begin(st.to, to)
    BY <1>3 DEF Older
  <2>2. run' = run /\ work' = work
    BY <1>3 DEF Older
  <2> QED
    BY <2>1, <2>2, CountBegins
<1>4. ASSUME Cancel PROVE CountOK'
  <2>1. run'.pc = run.pc /\ run'.st = run.st
    BY <1>4 DEF Cancel, Run
  <2>2. asked' = asked /\ excuse' = excuse /\ work' = work /\ st'.phase = "none"
    BY <1>4 DEF Cancel, history, NoState
  <2>3. Sorting' = Sorting
    BY <2>2 DEF Sorting
  <2> QED
    BY <2>1, <2>2, <2>3, CountStill
<1>5. ASSUME Disconnect \/ Withdraw \/ (\E m \in Mail : Vanish(m)) \/ UNCHANGED vars PROVE CountOK'
  <2>1. run' = run /\ st' = st /\ asked' = asked /\ excuse' = excuse /\ work' = work
    BY <1>5 DEF Disconnect, Withdraw, Vanish, vars, import, history
  <2>2. Sorting' = Sorting
    BY <2>1 DEF Sorting
  <2> QED
    BY <2>1, <2>2, CountStill
<1> QED
  BY <1>1, <1>2, <1>3, <1>4, <1>5, WorkCount, AlarmCount DEF Next

-----------------------------------------------------------------------------

LEMMA InitInv == Init => IInv
<1> SUFFICES ASSUME Init PROVE IInv
  OBVIOUS
<1>1. TypeOK /\ HeldOK
  BY InitTyped, HeldInit
<1>2. LinkedOK /\ NoneOK /\ CopyOK /\ WindowOK
  BY DEF Init, LinkedOK, NoneOK, CopyOK, WindowOK, IdleRun, IdleWork, NoState
<1>3. CountOK
  <2>1. Sorting = {}
    BY DEF Init, Sorting, IdleWork
  <2>2. asked = 0 /\ run.pc = "idle" /\ st.phase = "none"
    BY DEF Init, IdleRun, NoState
  <2> QED
    BY <2>1, <2>2, Few, Sizes, FS_EmptySet DEF CountOK
<1> QED
  BY <1>1, <1>2, <1>3 DEF IInv

LEMMA InvStep == IInv /\ [Next]_vars => IInv'
BY TypeStep, HeldStep, LinkedStep, NoneStep, CopyStep, WindowStep, CountStep DEF IInv

LEMMA InvCovers == IInv => DoneMeansAll /\ SortsBounded
<1> SUFFICES ASSUME IInv PROVE DoneMeansAll /\ SortsBounded
  OBVIOUS
<1>1. DoneMeansAll
  BY Has DEF IInv, DoneMeansAll, WindowOK, Clean, Brought, Settled
<1>2. SortsBounded
  <2>1. Sorting \in SUBSET Workers
    BY DEF Sorting
  <2>2. Cardinality(Sorting) \in Nat /\ Cardinality(Workers) \in Nat /\ asked \in Nat /\ SortBudget \in Nat
    BY <2>1, Few, Has, Sizes DEF IInv
  <2> QED
    BY <2>2 DEF IInv, CountOK, SortsBounded
<1> QED
  BY <1>1, <1>2

\* An import that says it is done has brought in, given up on or left out as
\* unfit every message of its window that Gmail still has (#reconcile).
THEOREM DoneHasAll == Spec => []DoneMeansAll
<1> QED
  BY InitInv, InvStep, InvCovers, PTL DEF Spec

\* The rules are asked about at most the budget, and what the other workers
\* had in hand when it ran out (sortBudget, #work).
THEOREM SortsAreBounded == Spec => []SortsBounded
<1> QED
  BY InitInv, InvStep, InvCovers, PTL DEF Spec

-----------------------------------------------------------------------------
(* Ingest: the inductive invariant *)

\* A run that has listed its message, or found it listed, touches nothing more.
Past == {"answer", "done", "failed"}

\* How far a run is tells what it has written. Who is about to answer knows of a
\* row for its mail, if only of one that is deleted by now.
RunOK ==
    \A r \in Runs :
        /\ pc[r] # "idle" => mail[r] \in Mails
        /\ r \in listed \cup dropped => pc[r] \in Past
        /\ pc[r] \in {"append", "index"} => r \in blobs
        /\ pc[r] = "index" => r \in copies
        /\ pc[r] = "answer" => \E q \in listed \cup dropped : mail[q] = mail[r]

\* A purger is at work on a message that was listed: no run is still writing it.
PurgeOK ==
    \A p \in D!Purgers :
        /\ purges[p].msg \in Runs => pc[purges[p].msg] \in Past
        /\ purges[p].pc \in {"remove", "delete"} => purges[p].msg \in Runs

\* Strengthens ListedHasBody: only a purger past its remove excuses a row
\* without its body, as one that dies before that has taken nothing.
BodyOrPurge ==
    \A r \in listed :
        \/ r \in copies /\ r \in blobs
        \/ \E p \in D!Purgers : purges[p].msg = r /\ purges[p].pc = "delete"
        \/ r \in leaked

\* The run did not find its mail listed.
Cleared(r) == pc[r] \in {"resolve", "append", "index"} \/ r \in listed

\* Strengthens TwiceOnlyByOverlap to runs that are yet to list their message.
ClearedByOverlap ==
    \A q, r \in Runs : q # r /\ Cleared(q) /\ Cleared(r) /\ mail[q] = mail[r] =>
        <<q, r>> \in overlapped \/ <<r, q>> \in overlapped

\* A run that joined a thread is done resolving, and the parent is a mail.
JoinedKnown ==
    \A r \in joined :
        /\ pc[r] \notin {"idle", "check", "resolve"}
        /\ Parent[mail[r]] \in Mails /\ thread[r] \in Runs

\* What a purger may be doing.
Purge == [pc: {"idle", "remove", "delete", "forget"}, msg: Runs \cup {NoThread}, keys: BOOLEAN]

IngestInv ==
    /\ D!TypeOK /\ RunOK /\ PurgeOK /\ BodyOrPurge /\ ClearedByOverlap
    /\ D!AcceptedKept /\ JoinedKnown /\ D!RepliesStayTogether

-----------------------------------------------------------------------------
(* The steps of a run *)

LEMMA BeginKeeps ==
  ASSUME NEW r \in Runs, NEW e \in Mails, IngestInv, D!Begin(r, e)
  PROVE IngestInv'
<1> USE DEF IngestInv
<1>1. /\ pc[r] = "idle" /\ pc' = [pc EXCEPT ![r] = "check"] /\ mail' = [mail EXCEPT ![r] = e]
      /\ UNCHANGED <<thread, blobs, copies, listed, msgids, owned, purging, wipes, purges,
                     accepted, slips, dropped, leaked, overlapped, joined>>
  BY DEF D!Begin, D!stores, D!index, D!owner, D!history
<1>2. r \notin listed \cup dropped \cup joined
  BY <1>1 DEF RunOK, JoinedKnown, Past
<1>3. D!TypeOK'
  BY <1>1 DEF D!TypeOK, D!InFlight
<1>4. RunOK'
  BY <1>1, <1>2 DEF D!TypeOK, RunOK, Past
<1>5. PurgeOK'
  BY <1>1 DEF D!TypeOK, PurgeOK, Past
<1>6. BodyOrPurge'
  BY <1>1 DEF BodyOrPurge
<1>7. ClearedByOverlap'
  BY <1>1, <1>2 DEF D!TypeOK, ClearedByOverlap, Cleared
<1>8. D!AcceptedKept'
  BY <1>1, <1>2 DEF D!TypeOK, D!AcceptedKept
<1>9. JoinedKnown' /\ D!RepliesStayTogether'
  BY <1>1, <1>2 DEF D!TypeOK, JoinedKnown, D!RepliesStayTogether
<1> QED
  BY <1>3, <1>4, <1>5, <1>6, <1>7, <1>8, <1>9

LEMMA CheckKeeps == ASSUME NEW r \in Runs, IngestInv, D!Check(r) PROVE IngestInv'
<1> USE DEF IngestInv
<1> DEFINE dup == D!Listed(mail[r]) # {}
<1>1. /\ pc[r] = "check" /\ pc' = [pc EXCEPT ![r] = IF dup THEN "answer" ELSE "resolve"]
      /\ overlapped' = overlapped \cup
           {<<q, r>> : q \in {q \in Runs \ {r} : ~dup /\ mail[q] = mail[r] /\ pc[q] \in D!InFlight}}
      /\ UNCHANGED <<mail, thread, blobs, copies, listed, msgids, owned, purging, wipes, purges,
                     accepted, slips, dropped, leaked, joined>>
  BY DEF D!Check, D!stores, D!index, D!owner
<1>2. r \notin listed \cup dropped \cup joined
  BY <1>1 DEF RunOK, JoinedKnown, Past
<1>3. dup => \E q \in listed : mail[q] = mail[r]
  BY DEF D!Listed
<1>4. ~ dup => \A q \in listed : mail[q] # mail[r]
  BY DEF D!Listed
<1>5. overlapped \subseteq overlapped'
      /\ (~ dup => \A q \in Runs \ {r} : mail[q] = mail[r] /\ pc[q] \in D!InFlight => <<q, r>> \in overlapped')
  BY <1>1
<1>6. overlapped' \subseteq Runs \X Runs
  BY <1>1 DEF D!TypeOK
<1> HIDE DEF dup
<1>7. D!TypeOK'
  BY <1>1, <1>6 DEF D!TypeOK, D!InFlight
<1>8. RunOK'
  BY <1>1, <1>2, <1>3 DEF D!TypeOK, RunOK, Past
<1>9. PurgeOK'
  BY <1>1 DEF D!TypeOK, PurgeOK, Past
<1>10. BodyOrPurge'
  BY <1>1 DEF BodyOrPurge
<1>11. ClearedByOverlap'
  <2> SUFFICES ASSUME NEW p \in Runs, NEW q \in Runs, p # q, Cleared(p)', Cleared(q)',
                      mail[p] = mail[q]
               PROVE  <<p, q>> \in overlapped' \/ <<q, p>> \in overlapped'
    BY <1>1 DEF ClearedByOverlap
  <2>1. CASE p # r /\ q # r
    BY <1>1, <1>5, <2>1 DEF D!TypeOK, ClearedByOverlap, Cleared
  <2>2. ASSUME NEW k \in Runs \ {r}, Cleared(k)', Cleared(r)', mail[k] = mail[r]
        PROVE  <<k, r>> \in overlapped'
    <3>1. ~ dup
      BY <1>1, <1>2, <2>2 DEF D!TypeOK, Cleared
    <3>2. pc[k] \in D!InFlight
      BY <1>1, <1>4, <2>2, <3>1 DEF D!TypeOK, Cleared, D!InFlight
    <3> QED
      BY <1>5, <2>2, <3>1, <3>2
  <2> QED
    BY <2>1, <2>2
<1>12. D!AcceptedKept'
  BY <1>1 DEF D!AcceptedKept
<1>13. JoinedKnown' /\ D!RepliesStayTogether'
  BY <1>1, <1>2 DEF D!TypeOK, JoinedKnown, D!RepliesStayTogether
<1> QED
  BY <1>7, <1>8, <1>9, <1>10, <1>11, <1>12, <1>13

LEMMA ResolveKeeps == ASSUME NEW r \in Runs, IngestInv, D!Resolve(r) PROVE IngestInv'
<1> USE DEF IngestInv
<1> DEFINE up == D!Known(Parent[mail[r]])
<1>1. /\ pc[r] = "resolve" /\ pc' = [pc EXCEPT ![r] = "append"] /\ blobs' = blobs \cup {r}
      /\ thread' = [thread EXCEPT ![r] = IF up = NoThread THEN r ELSE up]
      /\ joined' = joined \cup {q \in {r} : up # NoThread}
      /\ UNCHANGED <<mail, copies, listed, msgids, owned, purging, wipes, purges,
                     accepted, slips, dropped, leaked, overlapped>>
  BY DEF D!Resolve, D!index, D!owner
<1>2. r \notin listed \cup dropped \cup joined /\ mail[r] \in Mails
  BY <1>1 DEF RunOK, JoinedKnown, Past
<1>3. /\ Parent[mail[r]] \in Mails \cup {NoMail} /\ up \in Runs \cup {NoThread}
      /\ up # NoThread => Parent[mail[r]] \in Mails /\ up = msgids[Parent[mail[r]]]
  BY <1>2, ArrivalsAssumption DEF D!Known, D!TypeOK
<1> HIDE DEF up
<1>4. thread' \in [Runs -> Runs \cup {NoThread}] /\ joined' \subseteq Runs
  BY <1>1, <1>3 DEF D!TypeOK
<1>5. D!TypeOK'
  BY <1>1, <1>4 DEF D!TypeOK, D!InFlight
<1>6. RunOK'
  BY <1>1, <1>2 DEF D!TypeOK, RunOK, Past
<1>7. PurgeOK'
  BY <1>1 DEF D!TypeOK, PurgeOK, Past
<1>8. BodyOrPurge'
  BY <1>1 DEF BodyOrPurge
<1>9. ClearedByOverlap'
  BY <1>1 DEF D!TypeOK, ClearedByOverlap, Cleared
<1>10. D!AcceptedKept'
  BY <1>1 DEF D!AcceptedKept
<1>11. JoinedKnown' /\ D!RepliesStayTogether'
  <2> SUFFICES ASSUME NEW k \in joined'
               PROVE  /\ pc'[k] \notin {"idle", "check", "resolve"}
                      /\ Parent[mail[k]] \in Mails /\ thread'[k] \in Runs
                      /\ thread'[k] = msgids[Parent[mail[k]]]
    BY <1>1 DEF JoinedKnown, D!RepliesStayTogether
  <2>1. CASE k = r
    BY <1>1, <1>2, <1>3, <2>1, ArrivalsAssumption DEF D!TypeOK
  <2>2. CASE k # r
    BY <1>1, <2>2 DEF D!TypeOK, JoinedKnown, D!RepliesStayTogether
  <2> QED
    BY <2>1, <2>2
<1> QED
  BY <1>5, <1>6, <1>7, <1>8, <1>9, <1>10, <1>11

LEMMA AppendKeeps == ASSUME NEW r \in Runs, IngestInv, D!Append(r) PROVE IngestInv'
<1> USE DEF IngestInv
<1>1. /\ pc[r] = "append" /\ pc' = [pc EXCEPT ![r] = "index"] /\ copies' = copies \cup {r}
      /\ UNCHANGED <<mail, thread, blobs, listed, msgids, owned, purging, wipes, purges,
                     accepted, slips, dropped, leaked, overlapped, joined>>
  BY DEF D!Append, D!index, D!owner, D!history
<1>2. D!TypeOK'
  BY <1>1 DEF D!TypeOK, D!InFlight
<1>3. RunOK'
  BY <1>1 DEF D!TypeOK, RunOK, Past
<1>4. PurgeOK'
  BY <1>1 DEF D!TypeOK, PurgeOK, Past
<1>5. BodyOrPurge'
  BY <1>1 DEF BodyOrPurge
<1>6. ClearedByOverlap'
  BY <1>1 DEF D!TypeOK, ClearedByOverlap, Cleared
<1>7. D!AcceptedKept' /\ JoinedKnown' /\ D!RepliesStayTogether'
  BY <1>1 DEF D!TypeOK, D!AcceptedKept, JoinedKnown, D!RepliesStayTogether
<1> QED
  BY <1>2, <1>3, <1>4, <1>5, <1>6, <1>7

LEMMA IndexKeeps == ASSUME NEW r \in Runs, IngestInv, D!Index(r) PROVE IngestInv'
<1> USE DEF IngestInv
<1> DEFINE e == mail[r]
<1>1. /\ pc[r] = "index" /\ pc' = [pc EXCEPT ![r] = "answer"] /\ listed' = listed \cup {r}
      /\ msgids' = [msgids EXCEPT ![e] = IF @ = NoThread THEN thread[r] ELSE @]
      /\ UNCHANGED <<mail, thread, blobs, copies, owned, purging, wipes, purges,
                     accepted, slips, dropped, leaked, overlapped, joined>>
  BY DEF D!Index, D!Learn, D!stores, D!owner, D!history
<1>2. e \in Mails /\ r \in blobs /\ r \in copies
  BY <1>1 DEF RunOK
<1>3. msgids' \in [Mails -> Runs \cup {NoThread}]
      /\ \A x \in Mails : msgids[x] # NoThread => msgids'[x] = msgids[x]
  BY <1>1, <1>2 DEF D!TypeOK
<1>4. D!TypeOK'
  BY <1>1, <1>3 DEF D!TypeOK, D!InFlight
<1>5. RunOK'
  BY <1>1 DEF D!TypeOK, RunOK, Past
<1>6. PurgeOK'
  BY <1>1 DEF D!TypeOK, PurgeOK, Past
<1>7. BodyOrPurge'
  BY <1>1, <1>2 DEF BodyOrPurge
<1>8. ClearedByOverlap'
  BY <1>1 DEF D!TypeOK, ClearedByOverlap, Cleared
<1>9. D!AcceptedKept'
  BY <1>1 DEF D!AcceptedKept
<1>10. JoinedKnown' /\ D!RepliesStayTogether'
  BY <1>1, <1>3, ArrivalsAssumption DEF D!TypeOK, JoinedKnown, D!RepliesStayTogether
<1> QED
  BY <1>4, <1>5, <1>6, <1>7, <1>8, <1>9, <1>10

LEMMA EndKeeps ==
  ASSUME NEW r \in Runs, IngestInv, D!Answer(r) \/ D!RunFails(r)
  PROVE IngestInv'
<1> USE DEF IngestInv
<1>1. /\ pc[r] \in D!InFlight /\ pc' \in {[pc EXCEPT ![r] = "done"], [pc EXCEPT ![r] = "failed"]}
      /\ slips' \in 0..MaxSlips
      /\ UNCHANGED <<mail, thread, blobs, copies, listed, msgids, owned, purging, wipes, purges,
                     dropped, leaked, overlapped, joined>>
  BY ArrivalsAssumption DEF D!Answer, D!RunFails, D!InFlight, D!TypeOK, D!stores, D!index, D!owner, D!history
<1>2. accepted' = accepted \/ (pc[r] = "answer" /\ accepted' = accepted \cup {mail[r]})
  BY DEF D!Answer, D!RunFails
<1>3. D!TypeOK'
  BY <1>1, <1>2 DEF D!TypeOK, RunOK
<1>4. RunOK'
  BY <1>1 DEF D!TypeOK, RunOK, Past, D!InFlight
<1>5. PurgeOK'
  BY <1>1 DEF D!TypeOK, PurgeOK, Past
<1>6. BodyOrPurge'
  BY <1>1 DEF BodyOrPurge
<1>7. ClearedByOverlap'
  BY <1>1 DEF D!TypeOK, ClearedByOverlap, Cleared
<1>8. D!AcceptedKept'
  BY <1>1, <1>2 DEF D!TypeOK, D!AcceptedKept, RunOK
<1>9. JoinedKnown' /\ D!RepliesStayTogether'
  BY <1>1 DEF D!TypeOK, JoinedKnown, D!RepliesStayTogether
<1> QED
  BY <1>3, <1>4, <1>5, <1>6, <1>7, <1>8, <1>9

-----------------------------------------------------------------------------
(* The owner *)

\* Claiming an address and asking for its deletion touch no message.
LEMMA OwnerKeeps == ASSUME IngestInv, D!Claim \/ D!StartPurge PROVE IngestInv'
<1> USE DEF IngestInv
<1>1. /\ owned' \in BOOLEAN /\ purging' \in BOOLEAN /\ wipes' \in 0..MaxWipes
      /\ UNCHANGED <<pc, mail, thread, blobs, copies, listed, msgids, purges,
                     accepted, slips, dropped, leaked, overlapped, joined>>
  <2>1. CASE D!Claim
    BY <2>1 DEF D!Claim, D!TypeOK, D!runVars, D!stores, D!index, D!history
  <2>2. CASE D!StartPurge
    BY <2>2, ArrivalsAssumption DEF D!StartPurge, D!TypeOK, D!runVars, D!stores, D!index, D!history
  <2> QED
    BY <2>1, <2>2
<1>2. D!TypeOK'
  BY <1>1 DEF D!TypeOK
<1>3. RunOK' /\ PurgeOK' /\ BodyOrPurge'
  BY <1>1 DEF RunOK, PurgeOK, BodyOrPurge
<1>4. ClearedByOverlap' /\ D!AcceptedKept' /\ JoinedKnown' /\ D!RepliesStayTogether'
  BY <1>1 DEF ClearedByOverlap, Cleared, D!AcceptedKept, JoinedKnown, D!RepliesStayTogether
<1> QED
  BY <1>2, <1>3, <1>4

\* What only moves a purger on, off a message it was not yet deleting.
LEMMA PickKeeps ==
    ASSUME NEW p \in D!Purgers, IngestInv, purges[p].pc = "idle",
           \/ \E r \in listed :
                purges' = [purges EXCEPT ![p] = [pc |-> "remove", msg |-> r, keys |-> FALSE]]
           \/ purges' = [purges EXCEPT ![p].pc = "forget"],
           UNCHANGED <<pc, mail, thread, blobs, copies, listed, msgids, owned, purging, wipes,
                       accepted, slips, dropped, leaked, overlapped, joined>>
    PROVE  IngestInv'
<1> USE DEF IngestInv
<1>1. \A q \in D!Purgers \ {p} : purges'[q] = purges[q]
  BY DEF D!TypeOK
<1>2. /\ purges'[p].msg \in listed \cup {purges[p].msg}
      /\ purges'[p].pc = "remove" => purges'[p].msg \in listed
      /\ purges'[p].pc \in {"remove", "forget"}
  BY DEF D!TypeOK
<1>3. D!TypeOK'
  <2>1. \A r \in Runs : [pc |-> "remove", msg |-> r, keys |-> FALSE] \in Purge
    BY DEF Purge
  <2>2. purges \in [D!Purgers -> Purge] /\ listed \subseteq Runs
    BY DEF D!TypeOK, Purge
  <2>3. [purges[p] EXCEPT !.pc = "forget"] \in Purge
    BY <2>2 DEF Purge
  <2>4. purges' = [purges EXCEPT ![p] = [purges[p] EXCEPT !.pc = "forget"]]
        \/ \E r \in listed : purges' = [purges EXCEPT ![p] = [pc |-> "remove", msg |-> r, keys |-> FALSE]]
    OBVIOUS
  <2>5. purges' \in [D!Purgers -> Purge]
    <3> HIDE DEF IngestInv
    <3> QED
      BY <2>1, <2>2, <2>3, <2>4
  <2> QED
    BY <2>5 DEF D!TypeOK, Purge
<1>4. PurgeOK'
  BY <1>1, <1>2 DEF D!TypeOK, PurgeOK, RunOK
<1>5. BodyOrPurge'
  BY <1>1, <1>2 DEF BodyOrPurge
<1>6. RunOK'
  BY DEF RunOK
<1>7. ClearedByOverlap' /\ D!AcceptedKept' /\ JoinedKnown' /\ D!RepliesStayTogether'
  BY DEF ClearedByOverlap, Cleared, D!AcceptedKept, JoinedKnown, D!RepliesStayTogether
<1> QED
  BY <1>3, <1>4, <1>5, <1>6, <1>7

LEMMA RemoveKeeps ==
  ASSUME NEW p \in D!Purgers, IngestInv, D!Remove(p)
  PROVE IngestInv'
<1> USE DEF IngestInv
<1> DEFINE r == purges[p].msg
<1>1. /\ purges[p].pc = "remove" /\ copies' = copies \ {r}
      /\ purges' = [purges EXCEPT ![p].pc = "delete", ![p].keys = (r \in copies)]
      /\ UNCHANGED <<pc, mail, thread, blobs, listed, msgids, owned, purging, wipes,
                     accepted, slips, dropped, leaked, overlapped, joined>>
  BY DEF D!Remove, D!runVars, D!index, D!owner, D!history
<1>2. /\ \A q \in D!Purgers : purges'[q].msg = purges[q].msg
      /\ \A q \in D!Purgers \ {p} : purges'[q] = purges[q]
      /\ purges'[p].pc = "delete" /\ purges'[p].keys = (r \in copies)
  BY <1>1 DEF D!TypeOK
<1>3. r \in Runs /\ pc[r] \in Past
  BY <1>1 DEF PurgeOK
<1>4. D!TypeOK'
  <2>1. (r \in copies) \in BOOLEAN
    OBVIOUS
  <2>2. purges' \in [D!Purgers -> Purge]
    BY <1>1, <2>1 DEF D!TypeOK, Purge
  <2> QED
    BY <1>1, <2>2 DEF D!TypeOK, Purge
<1>5. RunOK'
  BY <1>1, <1>3 DEF RunOK, Past
<1>6. PurgeOK'
  BY <1>1, <1>2, <1>3 DEF PurgeOK
<1>7. BodyOrPurge'
  BY <1>1, <1>2 DEF BodyOrPurge
<1>8. ClearedByOverlap' /\ D!AcceptedKept' /\ JoinedKnown' /\ D!RepliesStayTogether'
  BY <1>1 DEF ClearedByOverlap, Cleared, D!AcceptedKept, JoinedKnown, D!RepliesStayTogether
<1> QED
  BY <1>4, <1>5, <1>6, <1>7, <1>8

LEMMA DeleteKeeps ==
  ASSUME NEW p \in D!Purgers, IngestInv, D!Delete(p)
  PROVE IngestInv'
<1> USE DEF IngestInv
<1> DEFINE r == purges[p].msg
<1>1. /\ purges[p].pc = "delete" /\ blobs' \in {blobs, blobs \ {r}}
      /\ listed' = listed \ {r} /\ dropped' = dropped \cup {r}
      /\ purges' = [purges EXCEPT ![p] = D!NoPurge]
      /\ UNCHANGED <<pc, mail, thread, copies, msgids, owned, purging, wipes,
                     accepted, slips, leaked, overlapped, joined>>
  BY DEF D!Delete, D!runVars, D!owner
<1>2. /\ \A q \in D!Purgers \ {p} : purges'[q] = purges[q]
      /\ purges'[p].pc = "idle" /\ purges'[p].msg = NoThread
  BY <1>1 DEF D!TypeOK, D!NoPurge
<1>3. r \in Runs /\ pc[r] \in Past
  BY <1>1 DEF PurgeOK
<1>4. D!TypeOK'
  BY <1>1, <1>3 DEF D!TypeOK, D!NoPurge
<1>5. RunOK'
  BY <1>1, <1>3 DEF RunOK, Past
<1>6. PurgeOK'
  BY <1>1, <1>2, ArrivalsAssumption DEF PurgeOK
<1>7. BodyOrPurge'
  BY <1>1, <1>2 DEF BodyOrPurge
<1>8. ClearedByOverlap'
  BY <1>1 DEF ClearedByOverlap, Cleared
<1>9. D!AcceptedKept' /\ JoinedKnown' /\ D!RepliesStayTogether'
  BY <1>1, <1>3 DEF D!AcceptedKept, JoinedKnown, D!RepliesStayTogether
<1> QED
  BY <1>4, <1>5, <1>6, <1>7, <1>8, <1>9

LEMMA DeleteAllKeeps == ASSUME IngestInv, D!DeleteAll PROVE IngestInv'
<1> USE DEF IngestInv
<1>1. /\ purges' = [purges EXCEPT ![Wiper] = D!NoPurge]
      /\ listed' = {} /\ joined' = {} /\ msgids' = [e \in Mails |-> NoThread]
      /\ owned' \in BOOLEAN /\ purging' \in BOOLEAN
      /\ dropped' = dropped \cup listed /\ leaked' = leaked \cup listed
      /\ UNCHANGED <<pc, mail, thread, blobs, copies, wipes, accepted, slips, overlapped>>
  BY DEF D!DeleteAll, D!runVars, D!stores
<1>2. /\ \A q \in D!Purgers \ {Wiper} : purges'[q] = purges[q]
      /\ purges'[Wiper].pc = "idle" /\ purges'[Wiper].msg = NoThread
  BY <1>1 DEF D!TypeOK, D!NoPurge, D!Purgers
<1>3. D!TypeOK'
  BY <1>1 DEF D!TypeOK, D!NoPurge
<1>4. RunOK'
  BY <1>1 DEF RunOK
<1>5. PurgeOK'
  BY <1>1, <1>2, ArrivalsAssumption DEF PurgeOK
<1>6. BodyOrPurge' /\ JoinedKnown' /\ D!RepliesStayTogether'
  BY <1>1 DEF BodyOrPurge, JoinedKnown, D!RepliesStayTogether
<1>7. ClearedByOverlap'
  BY <1>1 DEF ClearedByOverlap, Cleared
<1>8. D!AcceptedKept'
  BY <1>1 DEF D!AcceptedKept
<1> QED
  BY <1>3, <1>4, <1>5, <1>6, <1>7, <1>8

\* A purge that is cut off leaves what it was at behind, if it had begun.
LEMMA CutOffKeeps ==
    ASSUME NEW p \in D!Purgers, IngestInv, (D!RemoveFails /\ p = Wiper) \/ D!PurgerDies(p)
    PROVE  IngestInv'
<1> USE DEF IngestInv
<1> DEFINE r == purges[p].msg
<1>1. /\ purges' \in {[purges EXCEPT ![p].pc = "delete"], [purges EXCEPT ![p] = D!NoPurge]}
      /\ leaked \subseteq leaked' /\ leaked' \subseteq Runs /\ slips' \in 0..MaxSlips
      /\ purges[p].pc = "delete" => r \in leaked'
      /\ purges'[p].pc = "delete" => purges[p].pc = "remove"
      /\ UNCHANGED <<pc, mail, thread, blobs, copies, listed, msgids, owned, purging, wipes,
                     accepted, dropped, overlapped, joined>>
  <2>1. CASE D!RemoveFails /\ p = Wiper
    BY <2>1, ArrivalsAssumption DEF D!RemoveFails, D!TypeOK, PurgeOK, D!runVars, D!stores, D!index, D!owner
  <2>2. CASE D!PurgerDies(p)
    BY <2>2, ArrivalsAssumption DEF D!PurgerDies, D!TypeOK, PurgeOK, D!NoPurge, D!runVars, D!stores, D!index, D!owner
  <2> QED
    BY <2>1, <2>2
<1>2. /\ \A q \in D!Purgers \ {p} : purges'[q] = purges[q]
      /\ purges'[p].msg \in {r, NoThread}
      /\ purges'[p].pc \in {"remove", "delete"} => purges'[p].msg = r /\ purges[p].pc = "remove"
  BY <1>1 DEF D!TypeOK, D!NoPurge
<1>3. D!TypeOK'
  <2>1. D!NoPurge \in Purge
    BY DEF D!NoPurge, Purge
  <2>2. purges' \in [D!Purgers -> Purge]
    BY <1>1, <2>1 DEF D!TypeOK, Purge
  <2> QED
    BY <1>1, <2>2 DEF D!TypeOK, Purge
<1>4. PurgeOK'
  BY <1>1, <1>2, ArrivalsAssumption DEF PurgeOK
<1>5. BodyOrPurge'
  BY <1>1, <1>2 DEF BodyOrPurge
<1>6. RunOK'
  BY <1>1 DEF RunOK
<1>7. ClearedByOverlap' /\ D!AcceptedKept' /\ JoinedKnown' /\ D!RepliesStayTogether'
  BY <1>1 DEF ClearedByOverlap, Cleared, D!AcceptedKept, JoinedKnown, D!RepliesStayTogether
<1> QED
  BY <1>3, <1>4, <1>5, <1>6, <1>7

-----------------------------------------------------------------------------

LEMMA Initially == D!Init => IngestInv
<1> SUFFICES ASSUME D!Init PROVE IngestInv
  OBVIOUS
<1> USE DEF D!Init
<1>1. D!TypeOK
  <2>1. purges \in [D!Purgers -> Purge]
    BY DEF D!NoPurge, Purge
  <2>2. 0 \in 0..MaxSlips /\ 0 \in 0..MaxWipes
    BY ArrivalsAssumption
  <2> QED
    BY <2>1, <2>2 DEF D!TypeOK, Purge
<1>2. PurgeOK
  BY ArrivalsAssumption DEF PurgeOK, D!NoPurge
<1>3. RunOK /\ BodyOrPurge /\ ClearedByOverlap
  BY DEF RunOK, BodyOrPurge, ClearedByOverlap, Cleared
<1>4. D!AcceptedKept /\ JoinedKnown /\ D!RepliesStayTogether
  BY DEF D!AcceptedKept, JoinedKnown, D!RepliesStayTogether
<1> QED
  BY <1>1, <1>2, <1>3, <1>4 DEF IngestInv

LEMMA Stepwise == IngestInv /\ [D!Next]_D!vars => IngestInv'
<1> SUFFICES ASSUME IngestInv, [D!Next]_D!vars PROVE IngestInv'
  OBVIOUS
<1>1. ASSUME NEW r \in Runs, NEW e \in Mails, D!Begin(r, e) PROVE IngestInv'
  BY <1>1, BeginKeeps
<1>2. ASSUME NEW r \in Runs, D!Step(r) PROVE IngestInv'
  BY <1>2, CheckKeeps, ResolveKeeps, AppendKeeps, IndexKeeps, EndKeeps DEF D!Step
<1>3. ASSUME NEW r \in Runs, D!PurgeMessage(r) PROVE IngestInv'
  <2>1. User \in D!Purgers
    BY DEF D!Purgers
  <2> QED
    BY <1>3, <2>1, PickKeeps DEF D!PurgeMessage, D!runVars, D!stores, D!index, D!owner, D!history
<1>4. ASSUME NEW r \in Runs, D!PickRow(r) PROVE IngestInv'
  <2>1. Wiper \in D!Purgers
    BY DEF D!Purgers
  <2> QED
    BY <1>4, <2>1, PickKeeps DEF D!PickRow, D!runVars, D!stores, D!index, D!owner, D!history
<1>5. CASE D!ForgetMailbox
  <2>1. Wiper \in D!Purgers
    BY DEF D!Purgers
  <2> QED
    BY <1>5, <2>1, PickKeeps DEF D!ForgetMailbox, D!runVars, D!stores, D!index, D!owner, D!history
<1>6. ASSUME NEW p \in D!Purgers, D!Remove(p) \/ D!Delete(p) \/ D!PurgerDies(p) PROVE IngestInv'
  BY <1>6, RemoveKeeps, DeleteKeeps, CutOffKeeps
<1>7. CASE D!RemoveFails
  BY <1>7, CutOffKeeps DEF D!Purgers
<1>8. CASE D!Claim \/ D!StartPurge
  BY <1>8, OwnerKeeps
<1>9. CASE D!DeleteAll
  BY <1>9, DeleteAllKeeps
<1>10. CASE UNCHANGED D!vars
  <2> USE <1>10 DEF D!vars
  <2>1. D!TypeOK'
    BY DEF IngestInv, D!TypeOK
  <2>2. RunOK' /\ PurgeOK' /\ BodyOrPurge' /\ ClearedByOverlap'
    BY DEF IngestInv, RunOK, PurgeOK, BodyOrPurge, ClearedByOverlap, Cleared
  <2>3. D!AcceptedKept' /\ JoinedKnown' /\ D!RepliesStayTogether'
    BY DEF IngestInv, D!AcceptedKept, JoinedKnown, D!RepliesStayTogether
  <2> QED
    BY <2>1, <2>2, <2>3 DEF IngestInv
<1> QED
  BY <1>1, <1>2, <1>3, <1>4, <1>5, <1>6, <1>7, <1>8, <1>9, <1>10 DEF D!Next

LEMMA Invariance == IngestSpec => []IngestInv
<1>1. IngestInit => IngestInv
  BY Initially DEF IngestInit
<1>2. IngestInv /\ [IngestNext]_<<vars, ingest>> => IngestInv'
  BY Stepwise DEF IngestNext, ingest, D!vars
<1> QED
  BY <1>1, <1>2, PTL DEF IngestSpec

\* Every variable of Ingest keeps its type.
THEOREM IngestTypeCorrect == IngestSpec => []D!TypeOK
<1>1. IngestInv => D!TypeOK
  BY DEF IngestInv
<1> QED
  BY <1>1, Invariance, PTL

\* No crash of a run lists a message whose body or files are not there, and no
\* run still writes what a purge takes away.
THEOREM BodyBeforeRow == IngestSpec => []ListedHasBody
<1>1. IngestInv => ListedHasBody
  BY DEF IngestInv, BodyOrPurge, D!ListedHasBody, ListedHasBody
<1> QED
  BY <1>1, Invariance, PTL

\* The check for the Message-ID fails only runs that were in flight together.
THEOREM DuplicateOnlyByRace == IngestSpec => []TwiceOnlyByOverlap
<1>1. IngestInv => TwiceOnlyByOverlap
  BY DEF IngestInv, D!TypeOK, ClearedByOverlap, Cleared, D!TwiceOnlyByOverlap, TwiceOnlyByOverlap
<1> QED
  BY <1>1, Invariance, PTL

\* No mail is answered for that the mailbox never had.
THEOREM AnsweredIsKept == IngestSpec => []AcceptedKept
<1>1. IngestInv => AcceptedKept
  BY DEF IngestInv, AcceptedKept
<1> QED
  BY <1>1, Invariance, PTL

\* Whatever is delivered twice or purged meanwhile, the replies to one mail that
\* found it are in one thread.
THEOREM RepliesInOneThread == IngestSpec => []RepliesStayTogether
<1>1. IngestInv => RepliesStayTogether
  BY DEF IngestInv, RepliesStayTogether
<1> QED
  BY <1>1, Invariance, PTL
=============================================================================
