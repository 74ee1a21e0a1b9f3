----------------------------- MODULE GmailProofs -----------------------------
(***************************************************************************)
(* Proofs about GmailSync, for any messages and any bounds: its variables  *)
(* are typed; an account is shown as disconnected only for cause; the      *)
(* saved position in Gmail's history passes no message that was not        *)
(* brought in; and the two sides agree once nothing is under way between   *)
(* them. What the ends and the awaits of a tick have in common is proved   *)
(* once, and each action leads to one of them.                             *)
(***************************************************************************)
EXTENDS GmailSync, FiniteSetTheorems, WellFoundedInduction, TLAPS

Tick == [pc: {"idle", "renew", "drain", "profile", "list", "bring", "behind", "recent", "catchup"},
         todo: SUBSET Row, at: Nat, latest: Nat, ids: SUBSET Msgs,
         saw: {"none", "good", "bad"}, gen: 0..MaxConnects]
Job == {NoJob} \cup [g: Msgs, trashed: BOOLEAN, step: {"fetch", "store", "link", "labels"}]
Entry == [kind: {"add", "trash", "untrash", "del"}, g: Msgs]

\* The types, by what changes together.
LogTyped ==
    /\ glog \in Seq(Entry)
    /\ gmail \in [Msgs -> {"absent", "in", "trash", "gone"}]
    /\ floor \in 0..Len(glog) /\ pushed \in 0..Len(glog)
StateTyped ==
    /\ conn \in {"none", "live", "reconnect"}
    /\ hist \in {None} \cup 0..Len(glog) /\ start \in 0..Len(glog)
    /\ pending \in BOOLEAN /\ renewDue \in BOOLEAN /\ pollDue \in BOOLEAN
RunTyped ==
    /\ wake \in Now..Never
    /\ tick \in Tick /\ tick.at <= Len(glog) /\ tick.latest <= Len(glog)
    /\ job \in [Jobs -> Job]
    /\ job["sync"].step # "none" <=> tick.pc \in {"bring", "catchup"}
MailTyped ==
    /\ grant \in {"none", "good", "bad"}
    /\ leaving \in {"no", "wipe", "forget"} /\ signIn \in BOOLEAN
    /\ box \in [Msgs -> {"none", "stored", "linked"}]
    /\ trashed \in [Msgs -> BOOLEAN]
    /\ outbox \subseteq Row
    /\ changes \in Nat /\ connects \in 0..MaxConnects
    /\ missed \subseteq Msgs /\ apart \subseteq Msgs
Typed == LogTyped /\ StateTyped /\ RunTyped /\ MailTyped

LEMMA InitTyped == Init => Typed
<1> SUFFICES ASSUME Init PROVE Typed
  OBVIOUS
<1> USE DEF Init
<1>0. MaxConnects \in Nat /\ Len(<<>>) = 0 /\ glog = <<>>
  BY BoundsAssumption
<1>1. Idle \in Tick /\ NoJob \in Job
  BY <1>0 DEF Idle, NoJob, Tick, Job
<1>2. LogTyped
  BY <1>0 DEF LogTyped
<1>b. pending \in BOOLEAN /\ renewDue \in BOOLEAN /\ pollDue \in BOOLEAN /\ signIn \in BOOLEAN
  OBVIOUS
<1>3. StateTyped
  BY <1>0, <1>b DEF StateTyped, None
<1>4. RunTyped
  BY <1>0, <1>1 DEF RunTyped, Now, Never, Idle, NoJob, Jobs
<1>5. MailTyped
  BY <1>0, <1>b DEF MailTyped
<1> QED
  BY <1>2, <1>3, <1>4, <1>5 DEF Typed

\* The newest of some messages.
LEMMA NewestOf ==
    ASSUME NEW S, S \subseteq Msgs, S # {}
    PROVE  Max(S) \in S
<1> DEFINE above(n) == {k \in S : k >= n}
           T == {above(n) : n \in S}
           R == StrictSubsetOrdering(S)
<1>1. S \subseteq Nat /\ IsFiniteSet(S)
  BY MsgsAssumption, FS_Subset
<1>2. T \subseteq FiniteSubsetsOf(S) /\ T # {}
  <2>1. \A n \in S : above(n) \in SUBSET S
    OBVIOUS
  <2>2. \A n \in S : above(n) \in FiniteSubsetsOf(S)
    BY <1>1, <2>1, FS_Subset DEF FiniteSubsetsOf
  <2> HIDE DEF above
  <2> QED
    BY <2>2
<1>3. IsWellFoundedOn(R, FiniteSubsetsOf(S))
  BY FS_StrictSubsetOrderingWellFounded
<1>4. PICK t \in T : \A u \in T : ~ (<<u, t>> \in R)
  <2> HIDE DEF T, R
  <2> QED
    BY <1>2, <1>3, WFMin
<1>5. PICK n \in S : t = above(n)
  OBVIOUS
<1>6. \A k \in S : n >= k
  <2> SUFFICES ASSUME NEW k \in S, k > n PROVE FALSE
    BY <1>1
  <2>0. k \in Nat /\ n \in Nat /\ \A m \in S : m \in Nat
    BY <1>1
  <2>a. above(k) \subseteq above(n)
    <3> SUFFICES ASSUME NEW j \in S, j >= k PROVE j >= n
      OBVIOUS
    <3> QED
      BY <2>0
  <2>b. n \in above(n)
    BY <2>0
  <2>c. n \notin above(k)
    BY <2>0
  <2>1. above(k) \subseteq above(n) /\ above(k) # above(n)
    BY <2>a, <2>b, <2>c
  <2>2. <<above(k), above(n)>> \in R
    BY <2>1 DEF StrictSubsetOrdering
  <2> QED
    BY <1>4, <1>5, <2>2
<1> QED
  BY <1>6 DEF Max

LEMMA Sooner == ASSUME NEW a \in Now..Never, NEW b \in Now..Never PROVE Min({a, b}) \in Now..Never
<1>1. \E x \in {a, b} : \A y \in {a, b} : x <= y
  BY DEF Now, Never
<1> QED
  BY <1>1 DEF Min

-----------------------------------------------------------------------------
(* What the ends of a tick, and its calls, leave *)

\* A tick and its job of a right type, whatever the log.
Fit(t, j, n) ==
    /\ t \in Tick /\ t.at <= n /\ t.latest <= n
    /\ j \in [Jobs -> Job]
    /\ j["sync"].step # "none" <=> t.pc \in {"bring", "catchup"}

LEMMA FitGrows ==
    ASSUME NEW t, NEW j, NEW m \in Nat, NEW n \in Nat, m <= n, Fit(t, j, m) PROVE Fit(t, j, n)
BY DEF Fit, Tick

LEMMA EndFits ==
    ASSUME Typed, End, NEW n \in Nat
    PROVE  Fit(tick', job', n)
<1>1. Idle \in Tick /\ NoJob \in Job
  BY BoundsAssumption DEF Idle, NoJob, Tick, Job
<1>2. tick' = Idle /\ job' = [job EXCEPT !["sync"] = NoJob] /\ job \in [Jobs -> Job]
  BY DEF End, Typed, RunTyped
<1> QED
  BY <1>1, <1>2 DEF Fit, Idle, NoJob, Jobs

\* What every end and every call leaves: n bounds the positions of the log.
Going(n) ==
    /\ Fit(tick', job', n)
    /\ wake' \in Now..Never /\ conn' \in {"none", "live", "reconnect"}

LEMMA FailGoes == ASSUME Typed, NEW auth \in BOOLEAN, Fail(auth), NEW n \in Nat PROVE Going(n)
<1>1. Fit(tick', job', n)
  BY EndFits DEF Fail
<1>2. wake' \in Now..Never /\ conn' \in {"none", "live", "reconnect"}
  BY DEF Fail, Typed, RunTyped, StateTyped, Now, Soon, Never
<1> QED
  BY <1>1, <1>2 DEF Going

LEMMA FinishGoes == ASSUME Typed, NEW rows, Finish(rows), NEW n \in Nat PROVE Going(n)
<1>1. Fit(tick', job', n)
  BY EndFits DEF Finish
<1>2. wake' \in Now..Never /\ conn' = conn
  BY DEF Finish, Now, Soon, Far, Never
<1> QED
  BY <1>1, <1>2 DEF Going, Typed, StateTyped

LEMMA AskGoes ==
    ASSUME Typed, NEW t \in Tick, NEW w \in Now..Never, Ask(t, w), NEW n \in Nat,
           t.at <= n, t.latest <= n, t.pc \notin {"bring", "catchup"}, job["sync"].step = "none"
    PROVE  Going(n)
<1>1. tick' = [t EXCEPT !.saw = grant] /\ wake' = w /\ conn' = conn /\ job' = job
  BY DEF Ask
<1>2. tick' \in Tick
  BY <1>1 DEF Tick, Typed, MailTyped
<1>3. tick'.at = t.at /\ tick'.latest = t.latest /\ tick'.pc = t.pc
  BY <1>1 DEF Tick
<1> QED
  BY <1>1, <1>2, <1>3 DEF Going, Fit, Typed, RunTyped, StateTyped

LEMMA AfterDrainGoes ==
    ASSUME Typed, NEW t \in Tick, NEW rows, NEW h \in {None} \cup Nat, NEW poll \in BOOLEAN,
           NEW w \in Now..Never, AfterDrain(t, rows, h, poll, w), NEW n \in Nat,
           t.latest <= n, h <= n, job["sync"].step = "none"
    PROVE  Going(n) /\ pollDue' \in BOOLEAN /\ pending' \in BOOLEAN
<1>0. pollDue' \in BOOLEAN
  BY DEF AfterDrain
<1>1. CASE conn = "none"
  <2>1. Fail(FALSE) /\ pending' = pending
    BY <1>1 DEF AfterDrain
  <2> QED
    BY <1>0, <2>1, FailGoes DEF Typed, StateTyped
<1>2. CASE conn # "none" /\ ~pending /\ ~poll
  <2>1. Finish(rows) /\ pending' = pending
    BY <1>2 DEF AfterDrain
  <2> QED
    BY <1>0, <2>1, FinishGoes DEF Typed, StateTyped
<1>3. CASE conn # "none" /\ ~ (~pending /\ ~poll)
  <2> DEFINE u == [t EXCEPT !.pc = IF h = None THEN "profile" ELSE "list",
                            !.at = IF h = None THEN 0 ELSE h]
  <2>1. Ask(u, w) /\ pending' = FALSE
    BY <1>3 DEF AfterDrain
  <2>2. u \in Tick /\ u.at <= n /\ u.latest <= n /\ u.pc \notin {"bring", "catchup"}
    <3>1. /\ (IF h = None THEN "profile" ELSE "list") \in {"profile", "list"}
          /\ (IF h = None THEN 0 ELSE h) \in Nat /\ (IF h = None THEN 0 ELSE h) <= n
      BY DEF None
    <3> QED
      BY <3>1 DEF Tick
  <2> HIDE DEF u
  <2> QED
    BY <1>0, <2>1, <2>2, AskGoes
<1> QED
  BY <1>1, <1>2, <1>3

LEMMA DrainGoes ==
    ASSUME Typed, NEW t \in Tick, NEW h \in {None} \cup Nat, NEW poll \in BOOLEAN,
           NEW w \in Now..Never, Drain(t, h, poll, w), NEW n \in Nat,
           t.at <= n, t.latest <= n, h <= n, job["sync"].step = "none"
    PROVE  Going(n) /\ pollDue' \in BOOLEAN /\ pending' \in BOOLEAN
<1> DEFINE due == {r \in outbox : r.due}
<1>1. CASE due = {}
  BY <1>1, AfterDrainGoes DEF Drain
<1>2. CASE due # {}
  <2> DEFINE u == [t EXCEPT !.pc = "drain", !.todo = due]
  <2>1. Ask(u, w) /\ pollDue' = poll /\ pending' = pending
    BY <1>2 DEF Drain
  <2>0. due \in SUBSET Row
    BY DEF Typed, MailTyped
  <2> HIDE DEF due
  <2>2. u \in Tick /\ u.at <= n /\ u.latest <= n /\ u.pc \notin {"bring", "catchup"}
    BY <2>0 DEF Tick
  <2> HIDE DEF u
  <2> QED
    BY <2>1, <2>2, AskGoes DEF Typed, StateTyped
<1> QED
  BY <1>1, <1>2

LEMMA SetHistTyped ==
    ASSUME Typed, NEW n \in Nat, Len(glog) <= n, NEW h \in 0..n, SetHist(h)
    PROVE  hist' \in {None} \cup 0..n /\ start' \in 0..n
BY DEF SetHist, Typed, StateTyped, LogTyped

LEMMA SyncedGoes ==
    ASSUME Typed, NEW h \in 0..Len(glog), Synced(h), glog' = glog
    PROVE  Going(Len(glog')) /\ StateTyped'
<1>1. Len(glog) \in Nat
  BY DEF Typed, LogTyped
<1>2. Going(Len(glog')) /\ conn' = conn
  BY <1>1, FinishGoes DEF Synced, Finish
<1>3. hist' \in {None} \cup 0..Len(glog') /\ start' \in 0..Len(glog')
  BY <1>1, SetHistTyped DEF Synced
<1>4. pollDue' \in BOOLEAN /\ pending' \in BOOLEAN /\ renewDue' \in BOOLEAN
  BY DEF Synced, Typed, StateTyped
<1> QED
  BY <1>2, <1>3, <1>4 DEF StateTyped, Typed

LEMMA JobDoneGoes ==
    ASSUME Typed, NEW a \in Jobs, job[a].step # "none", JobDone(a), glog' = glog
    PROVE  Going(Len(glog')) /\ StateTyped'
<1>0. Len(glog) \in Nat /\ NoJob \in Job
  BY DEF Typed, LogTyped, NoJob, Job
<1>1. ASSUME UNCHANGED <<state, start, wake>>, Fit(tick', job', Len(glog'))
      PROVE  Going(Len(glog')) /\ StateTyped'
  BY <1>1 DEF Going, state, Typed, StateTyped, RunTyped
<1>2. CASE a = "import"
  <2>1. job' = [job EXCEPT !["import"] = NoJob] /\ UNCHANGED <<state, wake, tick, start>>
    BY <1>2 DEF JobDone
  <2>2. Fit(tick', job', Len(glog'))
    BY <1>0, <2>1 DEF Fit, Typed, RunTyped, Jobs
  <2> QED
    BY <1>1, <2>1, <2>2
<1>3. CASE a = "sync" /\ tick.pc = "bring"
  <2>1. CASE tick.at + 1 < tick.latest
    <3>1. /\ tick' = [tick EXCEPT !.pc = "list", !.at = @ + 1, !.saw = grant]
          /\ job' = [job EXCEPT !["sync"] = NoJob]
          /\ UNCHANGED <<state, wake, start>>
      BY <1>3, <2>1 DEF JobDone
    <3>2. tick' \in Tick /\ tick'.at = tick.at + 1 /\ tick'.latest = tick.latest /\ tick'.pc = "list"
      <4>1. tick \in Tick /\ tick.at + 1 \in Nat /\ grant \in {"none", "good", "bad"}
        BY DEF Typed, RunTyped, MailTyped, Tick
      <4> QED
        BY <3>1, <4>1 DEF Tick
    <3>3. Fit(tick', job', Len(glog'))
      BY <1>0, <2>1, <3>1, <3>2 DEF Fit, Typed, RunTyped, Jobs, NoJob, Tick
    <3> QED
      BY <1>1, <3>1, <3>3
  <2>2. CASE ~ (tick.at + 1 < tick.latest)
    <3>1. Synced(tick.latest) /\ tick.latest \in 0..Len(glog)
      BY <1>3, <2>2 DEF JobDone, Typed, RunTyped, Tick
    <3> QED
      BY <3>1, SyncedGoes
  <2> QED
    BY <2>1, <2>2
<1>4. CASE a = "sync" /\ tick.pc # "bring"
  <2> DEFINE rest == tick.ids \ {job["sync"].g}
  <2>1. CASE rest = {}
    <3>1. Synced(tick.latest) /\ tick.latest \in 0..Len(glog)
      BY <1>4, <2>1 DEF JobDone, Typed, RunTyped, Tick
    <3> QED
      BY <3>1, SyncedGoes
  <2>2. CASE rest # {}
    <3>1. /\ tick' = [tick EXCEPT !.ids = rest, !.saw = grant]
          /\ job' = [job EXCEPT !["sync"] = [NoJob EXCEPT !.g = Max(rest), !.step = "fetch"]]
          /\ UNCHANGED <<state, wake, start>>
      BY <1>4, <2>2 DEF JobDone
    <3>2. rest \subseteq Msgs
      BY DEF Typed, RunTyped, Tick
    <3>3. Max(rest) \in Msgs
      BY <2>2, <3>2, NewestOf
    <3>4. [NoJob EXCEPT !.g = Max(rest), !.step = "fetch"] \in Job
      BY <3>3 DEF NoJob, Job
    <3>5. tick.pc = "catchup"
      BY <1>4 DEF Typed, RunTyped
    <3> HIDE DEF rest
    <3>6. tick' \in Tick /\ tick'.at = tick.at /\ tick'.latest = tick.latest /\ tick'.pc = "catchup"
      BY <3>1, <3>2, <3>5 DEF Typed, RunTyped, MailTyped, Tick
    <3>7. Fit(tick', job', Len(glog'))
      BY <1>0, <3>1, <3>4, <3>6 DEF Fit, Typed, RunTyped, Jobs, NoJob
    <3> QED
      BY <1>1, <3>1, <3>7
  <2> QED
    BY <2>1, <2>2
<1> QED
  BY <1>2, <1>3, <1>4 DEF Jobs

LEMMA NextStepGoes ==
    ASSUME Typed, NEW a \in Jobs, NEW s \in {"store", "link", "labels"}, job[a].step # "none",
           NextStep(a, s), glog' = glog
    PROVE  Going(Len(glog')) /\ StateTyped'
<1>0. Len(glog) \in Nat
  BY DEF Typed, LogTyped
<1>1. job' = [job EXCEPT ![a].step = s] /\ UNCHANGED <<state, wake, tick, start>>
  BY DEF NextStep
<1>2. job[a] \in Job /\ job[a] # NoJob
  BY DEF Typed, RunTyped, NoJob
<1>3. [job[a] EXCEPT !.step = s] \in Job
  BY <1>2 DEF Job
<1>4. job' \in [Jobs -> Job] /\ (job'["sync"].step # "none" <=> tick.pc \in {"bring", "catchup"})
  BY <1>1, <1>2, <1>3 DEF Typed, RunTyped, Job, Jobs
<1>5. Fit(tick', job', Len(glog'))
  BY <1>1, <1>4 DEF Fit, Typed, RunTyped
<1> QED
  BY <1>0, <1>1, <1>5 DEF Going, Typed, RunTyped, StateTyped, state

-----------------------------------------------------------------------------
(* The types *)

LEMMA GoesTyped ==
    ASSUME Typed, Going(Len(glog')) PROVE RunTyped'
BY DEF Going, Fit, RunTyped

\* What a step leaves alone keeps its type while the log grows.
LEMMA KeptTyped ==
    ASSUME Typed, LogTyped', Len(glog) <= Len(glog')
    PROVE  /\ UNCHANGED <<state, start>> => StateTyped'
           /\ UNCHANGED <<wake, tick, job>> => RunTyped'
<1>0. Len(glog) \in Nat /\ Len(glog') \in Nat
  BY DEF Typed, LogTyped
<1>1. UNCHANGED <<state, start>> => StateTyped'
  BY <1>0 DEF state, StateTyped, Typed
<1>2. UNCHANGED <<wake, tick, job>> => RunTyped'
  BY <1>0 DEF RunTyped, Typed, Tick
<1> QED
  BY <1>1, <1>2

LEMMA Entries == ASSUME Typed PROVE \A i \in 1..Len(glog) : glog[i] \in Entry /\ glog[i].g \in Msgs
<1>1. \A i \in 1..Len(glog) : glog[i] \in Entry
  BY DEF Typed, LogTyped
<1> QED
  BY <1>1 DEF Entry

LEMMA SameLog == ASSUME Typed, UNCHANGED google PROVE LogTyped' /\ Len(glog) <= Len(glog')
BY DEF Typed, LogTyped, google

LEMMA LongerLog ==
    ASSUME Typed, NEW e \in Entry, glog' = Append(glog, e),
           gmail' \in [Msgs -> {"absent", "in", "trash", "gone"}],
           UNCHANGED <<floor, pushed>>
    PROVE  /\ LogTyped' /\ Len(glog') = Len(glog) + 1 /\ Len(glog) <= Len(glog')
           /\ glog'[Len(glog')] = e /\ \A i \in 1..Len(glog) : glog'[i] = glog[i]
<1>1. glog \in Seq(Entry) /\ Len(glog) \in Nat
  BY DEF Typed, LogTyped
<1>2. glog' \in Seq(Entry) /\ Len(glog') = Len(glog) + 1
  BY <1>1
<1> QED
  BY <1>1, <1>2 DEF Typed, LogTyped

LEMMA MailKept ==
    ASSUME Typed, UNCHANGED <<account, mail, outbox, changes, missed>>, apart' \subseteq Msgs
    PROVE  MailTyped'
BY DEF Typed, MailTyped, account, mail

\* What the owner or an answer of the outbox does at Gmail.
LEMMA AtGmailTyped == ASSUME Typed, AtGmail PROVE Typed'
<1>1. PICK g \in Msgs : Arrive(g) \/ Relabel(g)
  BY DEF AtGmail
<1>2. LogTyped' /\ Len(glog) <= Len(glog')
  <2>1. CASE Arrive(g)
    <3>1. [kind |-> "add", g |-> g] \in Entry /\ gmail' \in [Msgs -> {"absent", "in", "trash", "gone"}]
      BY <2>1 DEF Arrive, Entry, Typed, LogTyped
    <3> QED
      BY <2>1, <3>1, LongerLog DEF Arrive, AtGmail
  <2>2. CASE Relabel(g)
    <3>1. PICK to \in {"in", "trash", "gone"} :
            /\ gmail' = [gmail EXCEPT ![g] = to]
            /\ glog' = Append(glog, [g |-> g,
                   kind |-> CASE to = "trash" -> "trash" [] to = "in" -> "untrash" [] OTHER -> "del"])
      BY <2>2 DEF Relabel
    <3>2. gmail' \in [Msgs -> {"absent", "in", "trash", "gone"}]
      BY <3>1 DEF Typed, LogTyped
    <3>3. [g |-> g, kind |-> CASE to = "trash" -> "trash" [] to = "in" -> "untrash" [] OTHER -> "del"] \in Entry
      BY DEF Entry
    <3> QED
      BY <3>1, <3>2, <3>3, LongerLog DEF AtGmail
  <2> QED
    BY <1>1, <2>1, <2>2
<1>3. apart' \subseteq Msgs
  BY <1>1 DEF Arrive, Relabel, Apart, Overlap, Typed, MailTyped
<1> QED
  BY <1>2, <1>3, KeptTyped, MailKept DEF AtGmail, Typed

LEMMA ForgetTyped == ASSUME Typed, Forget PROVE Typed'
<1>1. LogTyped' /\ Len(glog) <= Len(glog')
  BY DEF Forget, Typed, LogTyped
<1>2. UNCHANGED <<state, start, wake, tick, job, account, mail, outbox, changes, missed, apart>>
  BY DEF Forget, history
<1> QED
  BY <1>1, <1>2, KeptTyped, MailKept DEF Typed, MailTyped

LEMMA WithdrawTyped == ASSUME Typed, Withdraw PROVE Typed'
<1>1. UNCHANGED <<state, start, wake, tick, job, google>>
  BY DEF Withdraw, history
<1>2. MailTyped'
  BY DEF Withdraw, history, mail, Typed, MailTyped
<1> QED
  BY <1>1, <1>2, SameLog, KeptTyped DEF Typed

LEMMA GmailPushedTyped == ASSUME Typed, GmailPushed PROVE Typed'
<1>1. LogTyped' /\ Len(glog) <= Len(glog')
  BY DEF GmailPushed, Typed, LogTyped
<1>2. StateTyped'
  BY DEF GmailPushed, Typed, StateTyped, history
<1>3. wake' \in Now..Never
  <2>1. wake \in Now..Never /\ Now \in Now..Never
    BY DEF Typed, RunTyped, Now, Never
  <2> QED
    BY <2>1, Sooner DEF GmailPushed, Wake
<1>4. RunTyped'
  BY <1>3 DEF GmailPushed, Typed, RunTyped
<1> QED
  BY <1>1, <1>2, <1>4, MailKept DEF Typed, MailTyped, GmailPushed, history

LEMMA InBustaTyped == ASSUME Typed, InBusta PROVE Typed'
<1>1. PICK g \in Msgs :
        /\ box[g] # "none" /\ changes < MaxChanges
        /\ changes' = changes + 1
        /\ trashed' = [trashed EXCEPT ![g] = ~@]
        /\ ToGmail(g, IF trashed[g] THEN "untrash" ELSE "trash")
        /\ Apart(IF conn # "none" /\ g \in Linked THEN Overlap(g) ELSE {g})
        /\ UNCHANGED <<google, account, state, box, tick, job, events, faults,
                       start, missed>>
  BY DEF InBusta
<1>0. MaxChanges \in Nat /\ MaxTries \in Nat
  BY BoundsAssumption
<1> DEFINE op == IF trashed[g] THEN "untrash" ELSE "trash"
           r == [seq |-> changes + 1, g |-> g, op |-> op, attempts |-> 0, due |-> TRUE]
<1>2. r \in Row
  <2>1. changes + 1 \in 1..MaxChanges /\ op \in {"trash", "untrash"} /\ 0 \in 0..MaxTries
    BY <1>0, <1>1 DEF Typed, MailTyped
  <2> QED
    BY <2>1 DEF Row
<1>3. outbox' \subseteq Row /\ wake' \in Now..Never
  <2>1. wake \in Now..Never /\ Soon \in Now..Never
    BY DEF Typed, RunTyped, Now, Soon, Never
  <2>2. Min({wake, Soon}) \in Now..Never
    BY <2>1, Sooner
  <2> HIDE DEF r
  <2>3. \/ outbox' = outbox \cup {r} /\ wake' = Min({wake, Soon})
        \/ outbox' = outbox /\ wake' = wake
    BY <1>1 DEF ToGmail, Wake, r, op
  <2> QED
    BY <1>2, <2>1, <2>2, <2>3 DEF Typed, MailTyped
<1>4. trashed' \in [Msgs -> BOOLEAN]
  BY <1>1 DEF Typed, MailTyped
<1>5. apart' \subseteq Msgs
  BY <1>1 DEF Apart, Overlap, Typed, MailTyped
<1>6. MailTyped'
  BY <1>1, <1>3, <1>4, <1>5 DEF Typed, MailTyped, account
<1>7. LogTyped' /\ Len(glog) <= Len(glog')
  BY <1>1, SameLog
<1>8. RunTyped'
  BY <1>1, <1>3, <1>7 DEF Typed, RunTyped, google
<1> QED
  BY <1>1, <1>6, <1>7, <1>8, KeptTyped DEF Typed

LEMMA RetryDueTyped == ASSUME Typed, RetryDue PROVE Typed'
<1>1. PICK r \in outbox :
        /\ outbox' = (outbox \ {r}) \cup {[r EXCEPT !.due = TRUE]}
        /\ UNCHANGED <<google, account, state, wake, mail, tick, job, events,
                       changes, faults, history>>
  BY DEF RetryDue
<1>2. r \in Row
  BY DEF Typed, MailTyped
<1>3. [r EXCEPT !.due = TRUE] \in Row
  BY <1>2 DEF Row
<1>4. outbox' \subseteq Row
  BY <1>1, <1>3 DEF Typed, MailTyped
<1>5. MailTyped'
  BY <1>1, <1>4 DEF Typed, MailTyped, account, mail, history
<1> QED
  BY <1>1, <1>5, SameLog, KeptTyped DEF Typed, history

LEMMA AlarmFiresTyped == ASSUME Typed, AlarmFires PROVE Typed'
<1>0. /\ MaxConnects \in Nat /\ Len(glog) \in Nat /\ glog' = glog
      /\ UNCHANGED <<google, account, mail, outbox, changes, start, missed, apart>>
  BY BoundsAssumption DEF AlarmFires, google, history, Typed, LogTyped
<1>1. LogTyped' /\ Len(glog) <= Len(glog') /\ MailTyped'
  BY <1>0, SameLog, MailKept DEF Typed, MailTyped
<1>2. CASE conn # "live"
  <2>1. wake' = Never /\ UNCHANGED <<state, tick, job>>
    BY <1>2 DEF AlarmFires
  <2>2. RunTyped'
    BY <1>0, <2>1 DEF Typed, RunTyped, Never, Now
  <2> QED
    BY <1>0, <1>1, <2>1, <2>2, KeptTyped DEF Typed
<1>3. CASE conn = "live"
  <2> DEFINE t == [Idle EXCEPT !.gen = connects]
  <2>1. PICK poll \in BOOLEAN :
            IF renewDue
            THEN Ask([t EXCEPT !.pc = "renew"], Never) /\ pollDue' = poll /\ UNCHANGED pending
            ELSE Drain(t, hist, poll, Never)
    BY <1>3 DEF AlarmFires, Typed, StateTyped
  <2> DEFINE u == [t EXCEPT !.pc = "renew"]
  <2>2. /\ t \in Tick /\ t.at <= Len(glog) /\ t.latest <= Len(glog)
        /\ u \in Tick /\ u.at <= Len(glog) /\ u.latest <= Len(glog)
        /\ u.pc \notin {"bring", "catchup"}
    <3>1. Idle \in Tick /\ Idle.at = 0 /\ Idle.latest = 0 /\ connects \in 0..MaxConnects
      BY <1>0 DEF Tick, Idle, Typed, MailTyped
    <3>2. t \in Tick /\ t.at = 0 /\ t.latest = 0
      BY <3>1 DEF Tick
    <3> HIDE DEF t
    <3>3. u \in Tick /\ u.at = 0 /\ u.latest = 0 /\ u.pc = "renew"
      BY <3>2 DEF Tick
    <3> HIDE DEF u
    <3> QED
      BY <1>0, <3>2, <3>3
  <2> HIDE DEF t
  <2>3. /\ Never \in Now..Never /\ hist \in {None} \cup Nat /\ hist <= Len(glog)
        /\ job["sync"].step = "none"
    BY <1>0 DEF Now, Never, None, Typed, StateTyped, RunTyped, AlarmFires
  <2>4. Going(Len(glog)) /\ pollDue' \in BOOLEAN /\ pending' \in BOOLEAN
    <3>1. CASE renewDue
      <4>1. Ask(u, Never) /\ pollDue' = poll /\ pending' = pending
        BY <2>1, <3>1
      <4> HIDE DEF u
      <4>2. Going(Len(glog))
        BY <1>0, <2>2, <2>3, <4>1, AskGoes
      <4> QED
        BY <4>1, <4>2 DEF Typed, StateTyped
    <3>2. CASE ~ renewDue
      <4>1. Drain(t, hist, poll, Never)
        BY <2>1, <3>2
      <4> HIDE DEF u
      <4> QED
        BY <1>0, <2>2, <2>3, <4>1, DrainGoes
    <3> QED
      BY <3>1, <3>2
  <2>5. hist' = hist /\ renewDue' = renewDue
    BY <1>3 DEF AlarmFires
  <2>6. StateTyped'
    BY <1>0, <2>4, <2>5 DEF Going, Typed, StateTyped
  <2> QED
    BY <1>0, <1>1, <2>4, <2>6, GoesTyped DEF Typed
<1> QED
  BY <1>2, <1>3

LEMMA FailedCallTyped == ASSUME Typed, FailedCall PROVE Typed'
<1>0. Len(glog) \in Nat /\ glog' = glog /\ UNCHANGED <<google, account, mail, outbox, changes, missed, apart, start>>
  BY DEF FailedCall, google, history, Typed, LogTyped
<1>1. LogTyped' /\ MailTyped'
  BY <1>0, SameLog, MailKept DEF Typed, MailTyped
<1>2. Going(Len(glog))
  BY <1>0, FailGoes DEF FailedCall
<1>3. StateTyped'
  BY <1>0, <1>2 DEF FailedCall, Going, Typed, StateTyped
<1> QED
  BY <1>0, <1>1, <1>2, <1>3, GoesTyped DEF Typed

LEMMA RenewWatchTyped == ASSUME Typed, RenewWatch PROVE Typed'
<1>0. Len(glog) \in Nat /\ glog' = glog /\ UNCHANGED <<google, account, mail, outbox, changes, missed, apart>>
  BY DEF RenewWatch, google, Typed, LogTyped
<1>1. LogTyped' /\ MailTyped'
  BY <1>0, SameLog, MailKept DEF Typed, MailTyped
<1> DEFINE h == IF hist = None THEN Len(glog) ELSE hist
<1>2. h \in 0..Len(glog) /\ h \in {None} \cup Nat
  BY <1>0 DEF Typed, StateTyped
<1>3. CASE conn = "none"
  <2>1. Fail(FALSE) /\ UNCHANGED <<hist, start, pending, renewDue, pollDue>>
    BY <1>3 DEF RenewWatch
  <2>2. Going(Len(glog))
    BY <1>0, <2>1, FailGoes
  <2>3. StateTyped'
    BY <1>0, <2>1, <2>2 DEF Going, Typed, StateTyped
  <2> QED
    BY <1>0, <1>1, <2>2, <2>3, GoesTyped DEF Typed
<1>4. CASE conn # "none"
  <2>1. renewDue' = FALSE /\ SetHist(h) /\ Drain(tick, h, pollDue, wake)
    BY <1>4 DEF RenewWatch
  <2>2. /\ tick \in Tick /\ tick.at <= Len(glog) /\ tick.latest <= Len(glog) /\ job["sync"].step = "none"
        /\ wake \in Now..Never /\ pollDue \in BOOLEAN
    BY DEF Typed, RunTyped, RenewWatch, StateTyped
  <2> HIDE DEF h
  <2>3. Going(Len(glog)) /\ pollDue' \in BOOLEAN /\ pending' \in BOOLEAN
    BY <1>0, <1>2, <2>1, <2>2, DrainGoes
  <2>4. hist' \in {None} \cup 0..Len(glog) /\ start' \in 0..Len(glog)
    BY <1>0, <1>2, <2>1, SetHistTyped
  <2>5. StateTyped'
    BY <1>0, <2>1, <2>3, <2>4 DEF Going, StateTyped
  <2> QED
    BY <1>0, <1>1, <2>3, <2>5, GoesTyped DEF Typed
<1> QED
  BY <1>3, <1>4

LEMMA RowsTyped ==
    ASSUME Typed, NEW r \in Row
    PROVE  OutboxDone(r) \subseteq Row /\ (r.attempts < MaxTries => OutboxRetry(r) \subseteq Row)
<1>0. outbox \subseteq Row /\ MaxTries \in Nat
  BY BoundsAssumption DEF Typed, MailTyped
<1>1. OutboxDone(r) \subseteq Row
  BY <1>0 DEF OutboxDone
<1>2. ASSUME r.attempts < MaxTries PROVE OutboxRetry(r) \subseteq Row
  <2> SUFFICES ASSUME NEW q \in outbox
               PROVE  (IF q.seq = r.seq THEN [q EXCEPT !.attempts = r.attempts + 1, !.due = FALSE] ELSE q) \in Row
    BY DEF OutboxRetry
  <2>1. q \in Row /\ r.attempts + 1 \in 0..MaxTries
    BY <1>0, <1>2 DEF Row
  <2> QED
    BY <2>1 DEF Row
<1> QED
  BY <1>1, <1>2

\* The end of a change that is sent, or not, when these rows are left.
SentOn(r, rows) ==
    LET rest == tick.todo \ {r} IN
    /\ outbox' = rows
    /\ UNCHANGED <<hist, start, renewDue>>
    /\ IF rest = {} THEN AfterDrain([tick EXCEPT !.todo = {}], rows, hist, pollDue, wake)
       ELSE Ask([tick EXCEPT !.todo = rest], wake) /\ UNCHANGED <<pending, pollDue>>

\* The outcomes of SendChange: applied; kept for another try; given up; or the
\* tick ends, for want of a grant.
Sends(r) ==
    /\ tick.pc = "drain" /\ r \in tick.todo
    /\ UNCHANGED <<floor, pushed, account, mail, events, changes, missed>>
    /\ \/ /\ gmail[r.g] # "gone" /\ Apply(r) /\ SentOn(r, OutboxDone(r)) /\ UNCHANGED apart
       \/ /\ SentOn(r, OutboxDone(r)) /\ Apart({r.g}) /\ UNCHANGED <<glog, gmail>>
       \/ /\ r.attempts < MaxTries /\ SentOn(r, OutboxRetry(r)) /\ UNCHANGED <<glog, gmail, apart>>
       \/ /\ r.attempts < MaxTries /\ outbox' = OutboxRetry(r) /\ Fail(TRUE) /\ Unauthorized
          /\ UNCHANGED <<glog, gmail, hist, start, pending, renewDue, pollDue, apart>>

LEMMA SendsOne == SendChange => \E r \in tick.todo : Sends(r)
<1> SUFFICES ASSUME SendChange PROVE \E r \in tick.todo : Sends(r)
  OBVIOUS
<1> USE DEF SendChange
<1>1. PICK r \in tick.todo :
        LET rest == tick.todo \ {r}
            again == r.attempts < MaxTries
            On(rows) ==
                /\ outbox' = rows
                /\ UNCHANGED <<hist, start, renewDue>>
                /\ IF rest = {} THEN AfterDrain([tick EXCEPT !.todo = {}], rows, hist, pollDue, wake)
                   ELSE Ask([tick EXCEPT !.todo = rest], wake) /\ UNCHANGED <<pending, pollDue>>
            GiveUp == On(OutboxDone(r)) /\ Apart({r.g})
        IN \/ /\ Answers /\ gmail[r.g] # "gone"
              /\ Apply(r) /\ On(OutboxDone(r)) /\ UNCHANGED apart
           \/ /\ Answers /\ gmail[r.g] = "gone"
              /\ GiveUp /\ UNCHANGED <<glog, gmail>>
           \/ /\ Failing /\ UNCHANGED <<glog, gmail>>
              /\ IF again THEN On(OutboxRetry(r)) /\ UNCHANGED apart ELSE GiveUp
           \/ /\ Failing /\ UNCHANGED <<glog, gmail>>
              /\ GiveUp
           \/ /\ Unauthorized /\ UNCHANGED <<glog, gmail, faults>>
              /\ IF again
                 THEN /\ outbox' = OutboxRetry(r) /\ Fail(TRUE)
                      /\ UNCHANGED <<hist, start, pending, renewDue, pollDue, missed, apart>>
                 ELSE GiveUp
  BY Zenon
<1>2. tick.pc = "drain" /\ UNCHANGED <<floor, pushed, account, mail, events, changes, missed>>
  OBVIOUS
<1> QED
  BY <1>1, <1>2, Zenon DEF Sends, SentOn

\* Whatever a tick does on with its changes, its types are right.
LEMMA SentOnTyped ==
    ASSUME Typed, tick.pc = "drain", NEW r, NEW rows \in SUBSET Row, SentOn(r, rows),
           LogTyped', Len(glog) <= Len(glog'),
           UNCHANGED <<account, mail, changes, missed>>, apart' \subseteq Msgs
    PROVE  Typed'
<1>0. /\ Len(glog) \in Nat /\ Len(glog') \in Nat /\ job["sync"].step = "none"
      /\ wake \in Now..Never /\ tick \in Tick /\ tick.at <= Len(glog) /\ tick.latest <= Len(glog)
      /\ pollDue \in BOOLEAN /\ pending \in BOOLEAN /\ renewDue \in BOOLEAN
      /\ hist \in {None} \cup Nat /\ hist <= Len(glog')
  BY DEF Typed, LogTyped, RunTyped, StateTyped, None
<1>1. MailTyped'
  BY DEF SentOn, Typed, MailTyped, account, mail
<1> DEFINE rest == tick.todo \ {r}
<1>2. Going(Len(glog')) /\ pollDue' \in BOOLEAN /\ pending' \in BOOLEAN
  <2>1. CASE rest = {}
    <3> DEFINE u == [tick EXCEPT !.todo = {}]
    <3>1. AfterDrain(u, rows, hist, pollDue, wake)
      BY <2>1 DEF SentOn
    <3>2. u \in Tick /\ u.latest <= Len(glog')
      BY <1>0 DEF Tick
    <3> HIDE DEF u
    <3> QED
      BY <1>0, <3>1, <3>2, AfterDrainGoes
  <2>2. CASE rest # {}
    <3> DEFINE u == [tick EXCEPT !.todo = rest]
    <3>1. Ask(u, wake) /\ pending' = pending /\ pollDue' = pollDue
      BY <2>2 DEF SentOn
    <3>2. u \in Tick /\ u.at <= Len(glog') /\ u.latest <= Len(glog') /\ u.pc \notin {"bring", "catchup"}
      BY <1>0 DEF Tick
    <3> HIDE DEF u
    <3> QED
      BY <1>0, <3>1, <3>2, AskGoes
  <2> QED
    BY <2>1, <2>2
<1>3. UNCHANGED <<hist, start, renewDue>>
  BY DEF SentOn
<1>4. StateTyped'
  BY <1>0, <1>2, <1>3 DEF Going, Typed, StateTyped
<1> QED
  BY <1>1, <1>2, <1>4, GoesTyped DEF Typed

LEMMA ApplyTyped ==
    ASSUME Typed, NEW r \in Row, Apply(r), UNCHANGED <<floor, pushed>>
    PROVE  LogTyped' /\ Len(glog) <= Len(glog')
<1> DEFINE to == IF r.op = "trash" THEN "trash" ELSE "in"
<1>1. CASE gmail[r.g] = to
  BY <1>1, SameLog DEF Apply, google
<1>2. CASE gmail[r.g] # to
  <2>1. gmail' = [gmail EXCEPT ![r.g] = to] /\ glog' = Append(glog, [kind |-> r.op, g |-> r.g])
    BY <1>2 DEF Apply
  <2>2. r.g \in Msgs /\ r.op \in {"trash", "untrash"}
    BY DEF Row
  <2>3. gmail' \in [Msgs -> {"absent", "in", "trash", "gone"}] /\ [kind |-> r.op, g |-> r.g] \in Entry
    BY <2>1, <2>2 DEF Typed, LogTyped, Entry
  <2> QED
    BY <2>1, <2>3, LongerLog
<1> QED
  BY <1>1, <1>2

LEMMA SendChangeTyped == ASSUME Typed, SendChange PROVE Typed'
<1>1. PICK r \in tick.todo : Sends(r)
  BY SendsOne
<1>2. /\ r \in Row /\ r.g \in Msgs /\ tick.pc = "drain"
      /\ UNCHANGED <<floor, pushed, account, mail, events, changes, missed>>
  BY <1>1 DEF Sends, Typed, RunTyped, Tick, Row
<1>3. CASE gmail[r.g] # "gone" /\ Apply(r) /\ SentOn(r, OutboxDone(r)) /\ UNCHANGED apart
  BY <1>2, <1>3, ApplyTyped, RowsTyped, SentOnTyped DEF Typed, MailTyped
<1>4. CASE SentOn(r, OutboxDone(r)) /\ Apart({r.g}) /\ UNCHANGED <<glog, gmail>>
  <2>1. apart' \subseteq Msgs /\ UNCHANGED google
    BY <1>2, <1>4 DEF Apart, Typed, MailTyped, google
  <2> QED
    BY <1>2, <1>4, <2>1, SameLog, RowsTyped, SentOnTyped
<1>5. CASE r.attempts < MaxTries /\ SentOn(r, OutboxRetry(r)) /\ UNCHANGED <<glog, gmail, apart>>
  <2>1. apart' \subseteq Msgs /\ UNCHANGED google
    BY <1>2, <1>5 DEF Typed, MailTyped, google
  <2> QED
    BY <1>2, <1>5, <2>1, SameLog, RowsTyped, SentOnTyped
<1>6. CASE /\ r.attempts < MaxTries /\ outbox' = OutboxRetry(r) /\ Fail(TRUE)
           /\ UNCHANGED <<glog, gmail, hist, start, pending, renewDue, pollDue, apart>>
  <2>1. UNCHANGED google /\ Len(glog) \in Nat
    BY <1>2, <1>6 DEF google, Typed, LogTyped
  <2>2. Going(Len(glog'))
    BY <1>6, <2>1, FailGoes DEF google
  <2>3. StateTyped'
    BY <1>6, <2>2 DEF Going, Typed, StateTyped
  <2>4. MailTyped'
    BY <1>2, <1>6, RowsTyped DEF Typed, MailTyped, account, mail
  <2> QED
    BY <2>1, <2>2, <2>3, <2>4, SameLog, GoesTyped DEF Typed
<1> QED
  BY <1>1, <1>3, <1>4, <1>5, <1>6 DEF Sends

\* What a call of Gmail leaves when only the tick goes on.
LEMMA TickTyped ==
    ASSUME Typed, Going(Len(glog')) /\ StateTyped', UNCHANGED <<google, account, outbox, changes>>,
           box' \in [Msgs -> {"none", "stored", "linked"}], trashed' \in [Msgs -> BOOLEAN],
           missed' \subseteq Msgs, apart' \subseteq Msgs
    PROVE  Typed'
<1>1. MailTyped'
  BY DEF Typed, MailTyped, account
<1> QED
  BY <1>1, GoesTyped, SameLog DEF Typed

\* The tick waits for another answer of Google.
LEMMA WaitGoes ==
    ASSUME Typed, NEW t \in Tick, Ask(t, wake), t.at <= Len(glog), t.latest <= Len(glog),
           t.pc \notin {"bring", "catchup"}, job["sync"].step = "none",
           UNCHANGED <<hist, start, pending, renewDue, pollDue>>, glog' = glog
    PROVE  Going(Len(glog')) /\ StateTyped'
<1>1. wake \in Now..Never /\ Len(glog) \in Nat
  BY DEF Typed, RunTyped, LogTyped
<1>2. Going(Len(glog'))
  BY <1>1, AskGoes
<1> QED
  BY <1>2 DEF Going, Typed, StateTyped

\* The tick begins to bring a message in.
Begins(a, g) == job' = [job EXCEPT ![a] = [NoJob EXCEPT !.g = g, !.step = "fetch"]]
LEMMA BeginsJob ==
    ASSUME Typed, NEW a \in Jobs, NEW g \in Msgs, Begins(a, g)
    PROVE  /\ job' \in [Jobs -> Job] /\ job'[a].step = "fetch" /\ job'[a].g = g
           /\ \A b \in Jobs \ {a} : job'[b] = job[b]
<1>1. [NoJob EXCEPT !.g = g, !.step = "fetch"] \in Job
  BY DEF NoJob, Job
<1>2. [NoJob EXCEPT !.g = g, !.step = "fetch"].step = "fetch" /\ [NoJob EXCEPT !.g = g, !.step = "fetch"].g = g
  BY DEF NoJob
<1> QED
  BY <1>1, <1>2 DEF Begins, Typed, RunTyped

LEMMA BringGoes ==
    ASSUME Typed, NEW t \in Tick, tick' = t, t.at <= Len(glog), t.latest <= Len(glog),
           t.pc \in {"bring", "catchup"}, NEW g \in Msgs, Begins("sync", g),
           UNCHANGED <<state, wake, start>>, glog' = glog
    PROVE  Going(Len(glog')) /\ StateTyped'
<1>1. job' \in [Jobs -> Job] /\ job'["sync"].step = "fetch"
  BY BeginsJob DEF Jobs
<1>2. Fit(tick', job', Len(glog'))
  BY <1>1 DEF Fit
<1> QED
  BY <1>2 DEF Going, state, Typed, StateTyped, RunTyped

LEMMA ProfileTyped == ASSUME Typed, Profile PROVE Typed'
<1>1. Synced(Len(glog)) /\ UNCHANGED <<google, account, mail, outbox, changes, missed, apart>>
  BY DEF Profile
<1>2. Len(glog) \in 0..Len(glog) /\ glog' = glog
  BY <1>1 DEF Typed, LogTyped, google
<1> QED
  BY <1>1, <1>2, SyncedGoes, TickTyped DEF Typed, MailTyped, mail

LEMMA ListHistoryTyped == ASSUME Typed, ListHistory PROVE Typed'
<1>0. /\ Len(glog) \in Nat /\ Len(glog) \in 0..Len(glog) /\ glog' = glog /\ job["sync"].step = "none" /\ tick \in Tick
      /\ tick.at <= Len(glog) /\ tick.latest <= Len(glog) /\ tick.at \in Nat
      /\ grant \in {"none", "good", "bad"}
      /\ UNCHANGED <<google, account, box, outbox, changes, missed, apart>>
  BY DEF ListHistory, google, Typed, LogTyped, RunTyped, MailTyped, Tick
<1>1. Going(Len(glog')) /\ StateTyped' /\ trashed' \in [Msgs -> BOOLEAN]
  <2>1. CASE tick.at = Len(glog)
    <3>1. Synced(Len(glog)) /\ trashed' = trashed
      BY <2>1 DEF ListHistory
    <3> QED
      BY <1>0, <3>1, SyncedGoes DEF Typed, MailTyped
  <2>2. CASE tick.at # Len(glog)
    <3> DEFINE r == glog[tick.at + 1]
    <3>1. r \in Entry /\ r.g \in Msgs /\ tick.at + 1 <= Len(glog)
      BY <1>0, <2>2, Entries
    <3>2. CASE r.kind = "add"
      <4> DEFINE t == [tick EXCEPT !.pc = "bring", !.latest = Len(glog), !.saw = grant]
      <4>1. tick' = t /\ Begins("sync", r.g) /\ UNCHANGED <<state, wake, start, trashed>>
        BY <2>2, <3>2 DEF ListHistory, Begins
      <4>a. t \in Tick
        BY <1>0 DEF Tick
      <4>2. t.at = tick.at /\ t.latest = Len(glog) /\ t.pc = "bring"
        BY <1>0 DEF Tick
      <4> HIDE DEF t, r
      <4> QED
        BY <1>0, <3>1, <4>a, <4>1, <4>2, BringGoes DEF Typed, MailTyped
    <3>3. CASE r.kind # "add"
      <4>1. /\ trashed' = IF r.g \in Linked THEN [trashed EXCEPT ![r.g] = r.kind # "untrash"] ELSE trashed
            /\ IF tick.at + 1 < Len(glog)
               THEN /\ Ask([tick EXCEPT !.at = @ + 1, !.latest = Len(glog)], wake)
                    /\ UNCHANGED <<hist, start, pending, renewDue, pollDue>>
               ELSE Synced(Len(glog))
        BY <2>2, <3>3 DEF ListHistory
      <4>2. trashed' \in [Msgs -> BOOLEAN]
        BY <4>1 DEF Typed, MailTyped
      <4>3. CASE tick.at + 1 < Len(glog)
        <5> DEFINE t == [tick EXCEPT !.at = @ + 1, !.latest = Len(glog)]
        <5>1. Ask(t, wake) /\ UNCHANGED <<hist, start, pending, renewDue, pollDue>>
          BY <4>1, <4>3
        <5>0. tick.at + 1 \in Nat /\ tick.pc = "list"
          BY <1>0 DEF ListHistory
        <5>2. t \in Tick
          BY <1>0, <5>0 DEF Tick
        <5>3. t.at = tick.at + 1 /\ t.latest = Len(glog) /\ t.pc = "list"
          BY <1>0, <5>0 DEF Tick
        <5> HIDE DEF t, r
        <5> QED
          BY <1>0, <4>2, <4>3, <5>1, <5>2, <5>3, WaitGoes
      <4>4. CASE ~ (tick.at + 1 < Len(glog))
        BY <1>0, <4>1, <4>2, <4>4, SyncedGoes
      <4> QED
        BY <4>3, <4>4
    <3> QED
      BY <3>2, <3>3
  <2> QED
    BY <2>1, <2>2
<1> QED
  BY <1>0, <1>1, TickTyped DEF Typed, MailTyped

LEMMA TooFarBehindTyped == ASSUME Typed, TooFarBehind PROVE Typed'
<1> DEFINE t == [tick EXCEPT !.pc = "behind"]
<1>1. /\ Ask(t, wake) /\ UNCHANGED <<hist, start, pending, renewDue, pollDue>> /\ glog' = glog
      /\ UNCHANGED <<google, account, mail, outbox, changes, missed, apart>> /\ job["sync"].step = "none"
  BY DEF TooFarBehind, history, google, Typed, RunTyped
<1>2. t \in Tick /\ t.at <= Len(glog) /\ t.latest <= Len(glog) /\ t.pc = "behind"
  BY DEF Typed, RunTyped, Tick
<1> HIDE DEF t
<1>3. Going(Len(glog')) /\ StateTyped'
  BY <1>1, <1>2, WaitGoes
<1> QED
  BY <1>1, <1>3, TickTyped DEF Typed, MailTyped, mail

LEMMA CatchUpTyped == ASSUME Typed, CatchUp PROVE Typed'
<1> DEFINE t == [tick EXCEPT !.pc = "recent", !.latest = Len(glog)]
<1>1. /\ Ask(t, wake) /\ UNCHANGED <<hist, start, pending, renewDue, pollDue>> /\ glog' = glog
      /\ UNCHANGED <<google, account, mail, outbox, changes, missed>> /\ job["sync"].step = "none"
      /\ apart' = apart \cup {glog[i].g : i \in tick.at + 1..Len(glog)}
  BY DEF CatchUp, Apart, google, Typed, RunTyped
<1>0. Len(glog) \in Nat /\ tick \in Tick /\ tick.at \in Nat /\ tick.at <= Len(glog)
  BY DEF Typed, LogTyped, RunTyped, Tick
<1>a. t \in Tick
  BY <1>0 DEF Tick
<1>2. t.at = tick.at /\ t.latest = Len(glog) /\ t.pc = "recent"
  BY <1>0 DEF Tick
<1>3. apart' \subseteq Msgs
  <2>1. \A i \in tick.at + 1..Len(glog) : glog[i].g \in Msgs
    BY <1>0, Entries
  <2> QED
    BY <1>1, <2>1 DEF Typed, MailTyped
<1> HIDE DEF t
<1>4. Going(Len(glog')) /\ StateTyped'
  BY <1>0, <1>a, <1>1, <1>2, WaitGoes
<1> QED
  BY <1>1, <1>3, <1>4, TickTyped DEF Typed, MailTyped, mail

LEMMA RecentTyped == ASSUME Typed, Recent PROVE Typed'
<1> DEFINE all == {g \in Msgs : gmail[g] = "in"}
           page == {g \in all : Cardinality({h \in all : h > g}) < ListMax}
<1>0. /\ Len(glog) \in Nat /\ tick \in Tick /\ tick.at <= Len(glog) /\ tick.latest \in 0..Len(glog)
      /\ grant \in {"none", "good", "bad"} /\ page \subseteq Msgs /\ glog' = glog
      /\ UNCHANGED <<google, account, mail, outbox, changes, apart>>
  BY DEF Recent, google, Typed, LogTyped, RunTyped, MailTyped, Tick
<1>1. missed' \subseteq Msgs
  <2>1. missed' = missed \cup ({glog[i].g : i \in 1..Len(glog)} \ page)
    BY DEF Recent
  <2>2. \A i \in 1..Len(glog) : glog[i].g \in Msgs
    BY Entries
  <2> QED
    BY <2>1, <2>2 DEF Typed, MailTyped
<1>2. Going(Len(glog')) /\ StateTyped'
  <2>1. CASE page = {}
    <3>1. Synced(tick.latest)
      BY <2>1 DEF Recent
    <3> QED
      BY <1>0, <3>1, SyncedGoes
  <2>2. CASE page # {}
    <3> DEFINE t == [tick EXCEPT !.pc = "catchup", !.ids = page, !.saw = grant]
    <3>1. tick' = t /\ Begins("sync", Max(page)) /\ UNCHANGED <<state, wake, start>>
      BY <2>2 DEF Recent, Begins
    <3> HIDE DEF page
    <3>a. t \in Tick
      BY <1>0 DEF Tick
    <3>2. t.at = tick.at /\ t.latest = tick.latest /\ t.pc = "catchup"
      BY <1>0 DEF Tick
    <3>3. Max(page) \in Msgs
      BY <1>0, <2>2, NewestOf
    <3> HIDE DEF t
    <3> QED
      BY <1>0, <3>a, <3>1, <3>2, <3>3, BringGoes
  <2> QED
    BY <2>1, <2>2
<1> QED
  BY <1>0, <1>1, <1>2, TickTyped DEF Typed, MailTyped, mail

\* Of the steps of the two jobs.
LEMMA ImportBeginsTyped == ASSUME Typed, ImportBegins PROVE Typed'
<1>1. PICK g \in Here \ Linked :
        /\ Begins("import", g)
        /\ UNCHANGED <<google, grant, leaving, signIn, connects, state, wake, mail, outbox, tick, events,
                       changes, faults, history>>
  BY DEF ImportBegins, Begins
<1>2. g \in Msgs /\ "import" \in Jobs /\ "sync" \in Jobs
  BY DEF Here, Jobs
<1>3. RunTyped'
  BY <1>1, <1>2, BeginsJob DEF Typed, RunTyped, google
<1>4. MailTyped'
  BY <1>1 DEF Typed, MailTyped, mail, history
<1> QED
  BY <1>1, <1>3, <1>4, SameLog, KeptTyped DEF Typed, history

LEMMA HalfwayTyped == ASSUME Typed, NEW a \in Jobs PROVE Halfway(a) \subseteq Msgs
<1>1. job[a] \in Job
  BY DEF Typed, RunTyped
<1> QED
  BY <1>1 DEF Halfway, Job, NoJob

LEMMA ImportFailsTyped == ASSUME Typed, ImportFails PROVE Typed'
<1>1. /\ job' = [job EXCEPT !["import"] = NoJob]
      /\ apart' = apart \cup Halfway("import")
      /\ UNCHANGED <<google, account, state, wake, mail, outbox, tick, events, changes, start, missed>>
  BY DEF ImportFails, Apart
<1>2. NoJob \in Job /\ Halfway("import") \subseteq Msgs
  BY HalfwayTyped DEF Job, Jobs
<1>3. RunTyped'
  BY <1>1, <1>2 DEF Typed, RunTyped, Jobs, google
<1> QED
  BY <1>1, <1>2, <1>3, SameLog, KeptTyped, MailKept DEF Typed, MailTyped

LEMMA StepsOf == ASSUME Typed, NEW a \in Jobs, job[a].step # "none" PROVE job[a].g \in Msgs
<1>1. job[a] \in Job
  BY DEF Typed, RunTyped
<1> QED
  BY <1>1 DEF Job, NoJob

LEMMA FetchTyped == ASSUME Typed, NEW a \in Jobs, Fetch(a) PROVE Typed'
<1>0. /\ glog' = glog /\ job[a].step = "fetch" /\ Len(glog) \in Nat
      /\ UNCHANGED <<google, account, mail, outbox, events, changes, faults, missed, apart>>
  BY DEF Fetch, google, Typed, LogTyped
<1>1. CASE JobDone(a)
  BY <1>0, <1>1, JobDoneGoes, TickTyped DEF Typed, MailTyped, mail
<1>2. CASE /\ job' = [job EXCEPT ![a].step = "store", ![a].trashed = gmail[job[a].g] = "trash"]
           /\ UNCHANGED <<state, wake, tick, start>>
  <2>1. job[a] \in Job /\ job[a] # NoJob
    BY <1>0 DEF Typed, RunTyped, NoJob
  <2>2. [job[a] EXCEPT !.step = "store", !.trashed = gmail[job[a].g] = "trash"] \in Job
    BY <2>1 DEF Job
  <2>3. job' = [job EXCEPT ![a] = [job[a] EXCEPT !.step = "store", !.trashed = gmail[job[a].g] = "trash"]]
    BY <1>2 DEF Typed, RunTyped
  <2>4. job' \in [Jobs -> Job] /\ (job'["sync"].step # "none" <=> tick.pc \in {"bring", "catchup"})
    BY <1>0, <2>1, <2>2, <2>3 DEF Typed, RunTyped, Job, Jobs
  <2>5. Going(Len(glog')) /\ StateTyped'
    BY <1>0, <1>2, <2>4 DEF Going, Fit, Typed, RunTyped, StateTyped, state
  <2> QED
    BY <1>0, <2>5, TickTyped DEF Typed, MailTyped, mail
<1> QED
  BY <1>1, <1>2 DEF Fetch

LEMMA StoreTyped == ASSUME Typed, NEW a \in Jobs, Store(a) PROVE Typed'
<1>0. /\ glog' = glog /\ job[a].step = "store" /\ Len(glog) \in Nat /\ NextStep(a, "link")
      /\ UNCHANGED <<google, account, trashed, outbox, events, changes, faults, missed, apart>>
      /\ box' = [box EXCEPT ![job[a].g] = IF @ = "none" THEN "stored" ELSE @]
  BY DEF Store, google, Typed, LogTyped
<1>1. box' \in [Msgs -> {"none", "stored", "linked"}]
  BY <1>0 DEF Typed, MailTyped
<1> QED
  BY <1>0, <1>1, NextStepGoes, TickTyped DEF Typed, MailTyped

LEMMA LinkTyped == ASSUME Typed, NEW a \in Jobs, Link(a) PROVE Typed'
<1>0. /\ glog' = glog /\ job[a].step = "link" /\ Len(glog) \in Nat /\ NextStep(a, "labels")
      /\ UNCHANGED <<google, account, trashed, outbox, events, changes, faults, missed, apart>>
      /\ box' = [box EXCEPT ![job[a].g] = "linked"]
  BY DEF Link, google, Typed, LogTyped
<1>1. box' \in [Msgs -> {"none", "stored", "linked"}]
  BY <1>0 DEF Typed, MailTyped
<1> QED
  BY <1>0, <1>1, NextStepGoes, TickTyped DEF Typed, MailTyped

LEMMA LabelsTyped == ASSUME Typed, NEW a \in Jobs, Labels(a) PROVE Typed'
<1>0. /\ glog' = glog /\ job[a].step = "labels" /\ JobDone(a)
      /\ UNCHANGED <<google, account, box, outbox, events, changes, faults, missed, apart>>
      /\ trashed' = [trashed EXCEPT ![job[a].g] = job[a].trashed]
  BY DEF Labels, google
<1>1. job[a] \in Job /\ job[a] # NoJob
  BY <1>0 DEF Typed, RunTyped, NoJob
<1>2. job[a].trashed \in BOOLEAN
  BY <1>1 DEF Job
<1>3. trashed' \in [Msgs -> BOOLEAN]
  BY <1>0, <1>2 DEF Typed, MailTyped
<1> QED
  BY <1>0, <1>3, JobDoneGoes, TickTyped DEF Typed, MailTyped

LEMMA TickDiesTyped == ASSUME Typed, TickDies PROVE Typed'
<1>0. /\ End /\ wake' = Min({wake, Now}) /\ apart' = apart \cup Halfway("sync") /\ Len(glog) \in Nat
      /\ UNCHANGED <<google, account, state, mail, outbox, events, changes, start, missed>> /\ glog' = glog
  BY DEF TickDies, Wake, Apart, google, Typed, LogTyped
<1>1. Halfway("sync") \subseteq Msgs
  BY HalfwayTyped DEF Jobs
<1>2. wake' \in Now..Never
  <2>1. wake \in Now..Never /\ Now \in Now..Never
    BY DEF Typed, RunTyped, Now, Never
  <2> QED
    BY <1>0, <2>1, Sooner
<1>3. Fit(tick', job', Len(glog'))
  BY <1>0, EndFits
<1>4. Going(Len(glog')) /\ StateTyped'
  BY <1>0, <1>2, <1>3 DEF Going, state, Typed, StateTyped
<1> QED
  BY <1>0, <1>1, <1>4, TickTyped DEF Typed, MailTyped, mail

\* Of connecting and disconnecting.
LEMMA SignInTyped == ASSUME Typed, SignIn PROVE Typed'
<1>1. UNCHANGED <<google, state, wake, tick, job, start>>
  BY DEF SignIn, history
<1>2. MailTyped'
  BY BoundsAssumption DEF SignIn, history, mail, Typed, MailTyped
<1> QED
  BY <1>1, <1>2, SameLog, KeptTyped DEF Typed

LEMMA ConnectGmailTyped == ASSUME Typed, ConnectGmail PROVE Typed'
<1>1. UNCHANGED <<google, tick, job, start>> /\ Len(glog) \in Nat /\ glog' = glog
  BY DEF ConnectGmail, history, google, Typed, LogTyped
<1>2. MailTyped'
  BY DEF ConnectGmail, history, mail, Typed, MailTyped
<1>3. wake' \in Now..Never
  <2>1. wake \in Now..Never /\ Now \in Now..Never
    BY DEF Typed, RunTyped, Now, Never
  <2> QED
    BY <2>1, Sooner DEF ConnectGmail, Wake
<1>4. pollDue' \in BOOLEAN
  BY DEF ConnectGmail, Typed, StateTyped
<1>5. StateTyped'
  BY <1>1, <1>4 DEF ConnectGmail, Typed, StateTyped
<1>6. RunTyped'
  BY <1>1, <1>3 DEF Typed, RunTyped
<1> QED
  BY <1>1, <1>2, <1>5, <1>6, SameLog DEF Typed

LEMMA DisconnectGmailTyped == ASSUME Typed, DisconnectGmail PROVE Typed'
<1>0. UNCHANGED <<google, signIn, connects, imports, wake, mail, tick, job, events, changes,
                  faults, start, missed>> /\ glog' = glog /\ Len(glog) \in Nat
  BY DEF DisconnectGmail, google, Typed, LogTyped
<1>1. RunTyped'
  BY <1>0 DEF Typed, RunTyped
<1>2. leaving' \in {"no", "wipe", "forget"} /\ grant' \in {"none", "good", "bad"}
  BY DEF DisconnectGmail, Leave, Typed, MailTyped
<1>3. CASE UNCHANGED <<state, outbox, apart>>
  <2>1. StateTyped'
    BY <1>0, <1>3 DEF Typed, StateTyped, state
  <2>2. MailTyped'
    BY <1>0, <1>2, <1>3 DEF Typed, MailTyped, mail
  <2> QED
    BY <1>0, <1>1, <2>1, <2>2, SameLog DEF Typed
<1>4. CASE /\ conn' = "none" /\ hist' = None /\ pending' = FALSE
           /\ renewDue' = FALSE /\ pollDue' = FALSE /\ outbox' = {}
           /\ Apart({r.g : r \in outbox} \cup {glog[i].g : i \in (hist + 1..Len(glog)) \ {0}})
  <2>1. {r.g : r \in outbox} \subseteq Msgs
    BY DEF Typed, MailTyped, Row
  <2>2. (hist + 1..Len(glog)) \ {0} \subseteq 1..Len(glog)
    BY <1>0 DEF Typed, StateTyped, None
  <2>3. \A i \in (hist + 1..Len(glog)) \ {0} : glog[i].g \in Msgs
    BY <2>2, Entries
  <2>4. apart' \subseteq Msgs
    BY <1>4, <2>1, <2>3 DEF Apart, Typed, MailTyped
  <2>5. StateTyped'
    BY <1>0, <1>4 DEF Typed, StateTyped
  <2>6. MailTyped'
    BY <1>0, <1>2, <1>4, <2>4 DEF Typed, MailTyped, mail
  <2> QED
    BY <1>0, <1>1, <2>5, <2>6, SameLog DEF Typed
<1> QED
  BY <1>3, <1>4 DEF DisconnectGmail

LEMMA RenewalComesTyped == ASSUME Typed, RenewalComes PROVE Typed'
<1>1. /\ UNCHANGED <<google, account, conn, hist, pending, pollDue, wake, mail, outbox, tick, job,
                     events, changes, history>>
      /\ renewDue' = TRUE /\ glog' = glog
  BY DEF RenewalComes, google
<1>2. StateTyped' /\ RunTyped'
  BY <1>1 DEF Typed, StateTyped, RunTyped, history
<1> QED
  BY <1>1, <1>2, SameLog, MailKept DEF Typed, MailTyped, history

LEMMA Untouched == ASSUME Typed, UNCHANGED vars PROVE Typed'
<1>1. UNCHANGED <<google, state, account, mail, outbox, changes, wake, tick, job, start, missed, apart>>
  BY DEF vars, google, state, account, mail
<1> QED
  BY <1>1, SameLog, KeptTyped, MailKept DEF Typed, MailTyped

LEMMA TypeStep == Typed /\ [Next]_vars => Typed'
BY AtGmailTyped, ForgetTyped, WithdrawTyped, GmailPushedTyped, InBustaTyped, RetryDueTyped,
   AlarmFiresTyped, FailedCallTyped, RenewWatchTyped, SendChangeTyped, ProfileTyped, ListHistoryTyped,
   TooFarBehindTyped, CatchUpTyped, RecentTyped, ImportBeginsTyped, ImportFailsTyped, FetchTyped,
   StoreTyped, LinkTyped, LabelsTyped, TickDiesTyped, SignInTyped, ConnectGmailTyped,
   DisconnectGmailTyped, RenewalComesTyped, Untouched DEF Next

\* Every variable of a sync has its type, whatever fails and is begun again.
THEOREM TypeCorrect == Spec => []TypeOK
<1>1. Typed => TypeOK
  <2> SUFFICES ASSUME Typed PROVE TypeOK
    OBVIOUS
  <2>1. glog \in Seq([kind: {"add", "trash", "untrash", "del"}, g: Msgs])
    BY DEF Typed, LogTyped, Entry
  <2>2. tick \in Tick /\ tick.at \in 0..Len(glog) /\ tick.latest \in 0..Len(glog)
    BY DEF Typed, RunTyped, LogTyped, Tick
  <2>3. ASSUME NEW j \in Job
        PROVE  j \in [g: Msgs \cup {0}, trashed: BOOLEAN,
                     step: {"none", "fetch", "store", "link", "labels"}]
    <3>1. CASE j = NoJob
      BY <3>1 DEF NoJob
    <3>2. CASE j # NoJob
      BY <2>3, <3>2 DEF Job
    <3> QED
      BY <3>1, <3>2
  <2>4. job \in [Jobs -> [g: Msgs \cup {0}, trashed: BOOLEAN,
                          step: {"none", "fetch", "store", "link", "labels"}]]
    BY <2>3 DEF Typed, RunTyped
  <2>5. /\ tick.todo \subseteq Row /\ tick.ids \subseteq Msgs /\ tick.gen \in 0..MaxConnects
        /\ tick.saw \in {"none", "good", "bad"}
        /\ tick.pc \in {"idle", "renew", "drain", "profile", "list", "bring",
                        "behind", "recent", "catchup"}
    BY <2>2 DEF Tick
  <2>6. pending \in BOOLEAN /\ renewDue \in BOOLEAN /\ pollDue \in BOOLEAN /\ signIn \in BOOLEAN
    BY DEF Typed, StateTyped, MailTyped
  <2>7. missed \cup apart \subseteq Msgs
    BY DEF Typed, MailTyped
  <2> HIDE DEF Row
  <2> QED
    BY <2>1, <2>2, <2>4, <2>5, <2>6, <2>7 DEF TypeOK, Typed, LogTyped, StateTyped, RunTyped, MailTyped
<1> QED
  BY <1>1, InitTyped, TypeStep, PTL DEF Spec

-----------------------------------------------------------------------------
(* Who is asked to connect again *)

\* A token that was not good when a call was made, and is now, is of a sign-in
\* that came after the tick began.
SeenOK ==
    tick.pc # "idle" =>
        /\ tick.gen <= connects
        /\ grant = "good" /\ tick.saw # "good" => tick.gen # connects

\* The tick is over, or calls Google with the token there is.
Looks(t) == tick' = Idle \/ (tick'.saw = grant /\ tick'.gen = t.gen)

LEMMA AskLooks == ASSUME NEW t \in Tick, NEW w, Ask(t, w) PROVE Looks(t)
BY DEF Ask, Looks, Tick

LEMMA DrainLooks ==
    ASSUME Typed, NEW t \in Tick, NEW rows, NEW h \in {None} \cup Nat, NEW poll, NEW w,
           AfterDrain(t, rows, h, poll, w) \/ Drain(t, h, poll, w)
    PROVE  Looks(t)
<1>1. ASSUME NEW q, AfterDrain(t, q, h, poll, w) PROVE Looks(t)
  <2>1. CASE End
    BY <2>1 DEF End, Looks
  <2>2. CASE ~ End
    <3> DEFINE u == [t EXCEPT !.pc = IF h = None THEN "profile" ELSE "list",
                              !.at = IF h = None THEN 0 ELSE h]
    <3>1. Ask(u, w)
      BY <1>1, <2>2 DEF AfterDrain, Fail, Finish
    <3>2. u.gen = t.gen /\ u \in Tick
      <4>1. /\ (IF h = None THEN "profile" ELSE "list") \in {"profile", "list"}
            /\ (IF h = None THEN 0 ELSE h) \in Nat
        BY DEF None
      <4> QED
        BY <4>1 DEF Tick
    <3> HIDE DEF u
    <3> QED
      BY <3>1, <3>2, AskLooks DEF Looks
  <2> QED
    BY <2>1, <2>2
<1>2. CASE Drain(t, h, poll, w)
  <2> DEFINE due == {r \in outbox : r.due}
             u == [t EXCEPT !.pc = "drain", !.todo = due]
  <2>1. CASE due = {}
    BY <1>1, <1>2, <2>1 DEF Drain
  <2>2. CASE due # {}
    <3>1. Ask(u, w)
      BY <1>2, <2>2 DEF Drain
    <3>2. due \in SUBSET Row
      BY DEF Typed, MailTyped
    <3> HIDE DEF due
    <3>3. u.gen = t.gen /\ u \in Tick
      BY <3>2 DEF Tick
    <3> HIDE DEF u
    <3> QED
      BY <3>1, <3>3, AskLooks DEF Looks
  <2> QED
    BY <2>1, <2>2
<1> QED
  BY <1>1, <1>2

LEMMA SyncedLooks == ASSUME NEW h, NEW t, Synced(h) PROVE Looks(t)
BY DEF Synced, Finish, End, Looks

LEMMA JobLooks ==
    ASSUME Typed, NEW a \in Jobs, JobDone(a) PROVE Looks(tick) \/ tick' = tick
<1> tick \in Tick
  BY DEF Typed, RunTyped
<1> DEFINE rest == tick.ids \ {job[a].g}
<1>1. CASE a = "import"
  BY <1>1 DEF JobDone
<1>2. CASE Synced(tick.latest)
  BY <1>2, SyncedLooks
<1>3. CASE tick' = [tick EXCEPT !.pc = "list", !.at = @ + 1, !.saw = grant]
  BY <1>3 DEF Looks, Tick
<1>4. CASE tick' = [tick EXCEPT !.ids = rest, !.saw = grant]
  BY <1>4 DEF Looks, Tick
<1> QED
  BY <1>1, <1>2, <1>3, <1>4 DEF JobDone

LEMMA TickLooks ==
    ASSUME Typed, \/ FailedCall \/ RenewWatch \/ SendChange \/ Profile \/ ListHistory
                  \/ TooFarBehind \/ CatchUp \/ Recent \/ TickDies
                  \/ \E a \in Jobs : Fetch(a) \/ Store(a) \/ Link(a) \/ Labels(a)
    PROVE  Looks(tick) \/ tick' = tick
<1>0. tick \in Tick /\ Len(glog) \in Nat /\ hist \in {None} \cup Nat
  BY DEF Typed, RunTyped, LogTyped, StateTyped
<1>1. CASE FailedCall \/ TickDies
  BY <1>1 DEF FailedCall, TickDies, Fail, End, Looks
<1>2. CASE RenewWatch
  <2>1. CASE conn = "none"
    BY <1>2, <2>1 DEF RenewWatch, Fail, End, Looks
  <2>2. CASE conn # "none"
    <3> DEFINE h == IF hist = None THEN Len(glog) ELSE hist
    <3>1. Drain(tick, h, pollDue, wake) /\ h \in {None} \cup Nat
      BY <1>0, <1>2, <2>2 DEF RenewWatch
    <3> HIDE DEF h
    <3> QED
      BY <1>0, <3>1, DrainLooks
  <2> QED
    BY <2>1, <2>2
<1>3. CASE SendChange
  <2>1. PICK r \in tick.todo : Sends(r)
    BY <1>3, SendsOne
  <2>2. CASE Fail(TRUE)
    BY <2>2 DEF Fail, End, Looks
  <2>3. ASSUME NEW rows, SentOn(r, rows) PROVE Looks(tick)
    <3> DEFINE rest == tick.todo \ {r}
               u == [tick EXCEPT !.todo = rest]
    <3>1. u \in Tick /\ u.gen = tick.gen
      BY <1>0 DEF Tick
    <3>2. AfterDrain(u, rows, hist, pollDue, wake) \/ Ask(u, wake)
      BY <2>3 DEF SentOn
    <3> HIDE DEF u
    <3>3. Looks(u)
      BY <1>0, <3>1, <3>2, DrainLooks, AskLooks
    <3> QED
      BY <3>1, <3>3 DEF Looks
  <2> QED
    BY <2>1, <2>2, <2>3 DEF Sends
<1>4. CASE Profile
  BY <1>4, SyncedLooks DEF Profile
<1>5. CASE ListHistory
  <2>1. CASE Synced(Len(glog))
    BY <2>1, SyncedLooks
  <2>2. CASE tick' = [tick EXCEPT !.pc = "bring", !.latest = Len(glog), !.saw = grant]
    BY <1>0, <2>2 DEF Looks, Tick
  <2>3. CASE Ask([tick EXCEPT !.at = @ + 1, !.latest = Len(glog)], wake)
    BY <1>0, <2>3 DEF Ask, Looks, Tick
  <2> QED
    BY <1>5, <2>1, <2>2, <2>3 DEF ListHistory
<1>6. CASE TooFarBehind \/ CatchUp
  BY <1>0, <1>6 DEF TooFarBehind, CatchUp, Ask, Looks, Tick
<1>7. CASE Recent
  <2>1. CASE Synced(tick.latest)
    BY <2>1, SyncedLooks
  <2>2. ASSUME NEW page, tick' = [tick EXCEPT !.pc = "catchup", !.ids = page, !.saw = grant]
        PROVE Looks(tick)
    BY <1>0, <2>2 DEF Looks, Tick
  <2> QED
    BY <1>7, <2>1, <2>2 DEF Recent
<1>8. CASE \E a \in Jobs : Fetch(a) \/ Store(a) \/ Link(a) \/ Labels(a)
  BY <1>8, JobLooks DEF Fetch, Store, Link, Labels, NextStep
<1> QED
  BY <1>1, <1>2, <1>3, <1>4, <1>5, <1>6, <1>7, <1>8

LEMMA SeenStep == Typed /\ SeenOK /\ [Next]_vars => SeenOK'
<1> SUFFICES ASSUME Typed, SeenOK, [Next]_vars PROVE SeenOK'
  OBVIOUS
<1>0. connects \in Nat /\ tick \in Tick /\ tick.gen \in Nat
  BY BoundsAssumption DEF Typed, MailTyped, RunTyped, Tick
<1>1. CASE \/ AtGmail \/ Forget \/ GmailPushed \/ InBusta \/ RetryDue \/ RenewalComes
           \/ ImportBegins \/ ImportFails \/ ConnectGmail \/ UNCHANGED vars
  BY <1>1 DEF SeenOK, AtGmail, Forget, GmailPushed, InBusta, RetryDue, RenewalComes,
              ImportBegins, ImportFails, ConnectGmail, vars, account
<1>2. CASE \/ FailedCall \/ RenewWatch \/ SendChange \/ Profile \/ ListHistory
           \/ TooFarBehind \/ CatchUp \/ Recent \/ TickDies
           \/ \E a \in Jobs : Fetch(a) \/ Store(a) \/ Link(a) \/ Labels(a)
  <2>1. grant' = grant /\ connects' = connects
    <3>1. CASE SendChange
      BY <3>1, SendsOne DEF Sends, account
    <3> QED
      BY <1>2, <3>1 DEF FailedCall, RenewWatch, Profile, ListHistory, TooFarBehind, CatchUp, Recent,
                   TickDies, Fetch, Store, Link, Labels, account
  <2>2. Looks(tick) \/ tick' = tick
    BY <1>2, TickLooks
  <2>3. tick.pc # "idle" \/ tick' = tick
    BY <1>2, <2>2 DEF FailedCall, RenewWatch, SendChange, Profile, ListHistory, TooFarBehind, CatchUp,
                Recent, TickDies, Fetch, Store, Link, Labels, Typed, RunTyped, Jobs, JobDone, NextStep
  <2> QED
    BY <1>0, <2>1, <2>2, <2>3 DEF SeenOK, Looks, Idle
<1>3. CASE AlarmFires
  <2>1. grant' = grant /\ connects' = connects
    BY <1>3 DEF AlarmFires, account
  <2>2. CASE conn # "live"
    BY <1>3, <2>1, <2>2 DEF AlarmFires, SeenOK
  <2>3. CASE conn = "live"
    <3> DEFINE t == [Idle EXCEPT !.gen = connects]
               u == [t EXCEPT !.pc = "renew"]
    <3>1. \E poll \in BOOLEAN : Ask(u, Never) \/ Drain(t, hist, poll, Never)
      BY <1>3, <2>3 DEF AlarmFires, Typed, StateTyped
    <3>2. t \in Tick /\ t.gen = connects
      <4>1. Idle \in Tick /\ connects \in 0..MaxConnects
        BY BoundsAssumption DEF Tick, Idle, Typed, MailTyped
      <4> QED
        BY <4>1 DEF Tick
    <3> HIDE DEF t
    <3>3. u \in Tick /\ u.gen = connects
      BY <3>2 DEF Tick
    <3> HIDE DEF u
    <3>4. hist \in {None} \cup Nat
      BY DEF Typed, StateTyped
    <3>5. Looks(t) \/ Looks(u)
      BY <3>1, <3>2, <3>3, <3>4, AskLooks, DrainLooks
    <3> QED
      BY <1>0, <2>1, <3>2, <3>3, <3>5 DEF SeenOK, Looks, Idle
  <2> QED
    BY <2>2, <2>3
<1>4. CASE Withdraw \/ SignIn \/ DisconnectGmail
  BY <1>0, <1>4 DEF SeenOK, Withdraw, SignIn, DisconnectGmail
<1> QED
  BY <1>1, <1>2, <1>3, <1>4 DEF Next

LEMMA SeenInit == Init => SeenOK
BY DEF Init, SeenOK, Idle

\* An account is only said to need reconnecting when Google takes no token the
\* vault has, but by a tick from before the last sign-in (handleError).
THEOREM ReconnectOnlyForCauseAlways == Spec => ReconnectOnlyForCause
<1>1. Typed /\ SeenOK /\ [Next]_vars =>
        [conn = "live" /\ conn' = "reconnect" => grant # "good" \/ tick.gen # connects]_vars
  <2> SUFFICES ASSUME Typed, SeenOK, Next, conn = "live", conn' = "reconnect"
               PROVE  grant # "good" \/ tick.gen # connects
    OBVIOUS
  <2>1. tick.pc # "idle" /\ Unauthorized
    <3>1. CASE FailedCall
      <4>1. tick.pc # "idle"
        BY <3>1 DEF FailedCall, Typed, RunTyped
      <4>2. Unauthorized
        BY <3>1 DEF FailedCall, Fail
      <4> QED
        BY <4>1, <4>2
    <3>2. CASE SendChange
      <4>1. PICK r \in tick.todo : Sends(r)
        BY <3>2, SendsOne
      <4>2. ASSUME NEW rows, SentOn(r, rows) PROVE FALSE
        BY <4>2 DEF SentOn, AfterDrain, Finish, Fail, Ask
      <4> QED
        BY <4>1, <4>2 DEF Sends
    <3>3. CASE \/ AtGmail \/ Forget \/ Withdraw \/ GmailPushed \/ InBusta \/ RetryDue
               \/ ImportBegins \/ ImportFails \/ TickDies \/ SignIn \/ ConnectGmail
               \/ DisconnectGmail \/ RenewalComes
      BY <3>3 DEF AtGmail, Forget, Withdraw, GmailPushed, InBusta, RetryDue, ImportBegins, ImportFails,
                  TickDies, SignIn, ConnectGmail, DisconnectGmail, RenewalComes, state
    <3>4. ASSUME NEW h, Synced(h) PROVE FALSE
      BY <3>4 DEF Synced, Finish
    <3>5. ASSUME NEW t, NEW h, NEW poll, NEW w, Drain(t, h, poll, w) PROVE FALSE
      BY <3>5 DEF Drain, AfterDrain, Finish, Fail, Ask
    <3>6. CASE AlarmFires \/ RenewWatch
      BY <3>5, <3>6 DEF AlarmFires, RenewWatch, Fail, Ask, state
    <3>7. CASE Profile \/ ListHistory \/ TooFarBehind \/ CatchUp \/ Recent
      BY <3>4, <3>7 DEF Profile, ListHistory, TooFarBehind, CatchUp, Recent, Ask, state
    <3>8. CASE \E a \in Jobs : Fetch(a) \/ Store(a) \/ Link(a) \/ Labels(a)
      BY <3>4, <3>8 DEF Fetch, Store, Link, Labels, JobDone, NextStep, state
    <3> QED
      BY <3>1, <3>2, <3>3, <3>6, <3>7, <3>8 DEF Next
  <2> QED
    BY <2>1 DEF SeenOK, Unauthorized
<1> QED
  BY <1>1, InitTyped, TypeStep, SeenInit, SeenStep, PTL DEF Spec, ReconnectOnlyForCause

-----------------------------------------------------------------------------
(* What the position in Gmail's history has passed *)

Brought(g) == g \in Linked \cup Unwanted \cup missed \/ gmail[g] = "gone"
Covers(k) == \A i \in start + 1..k : glog[i].kind = "add" => Brought(glog[i].g)

Listing == {"list", "bring", "behind"}

\* A job that is about to set the labels has linked its message.
LabelsOK == \A a \in Jobs : job[a].step = "labels" => job[a].g \in Linked

\* All that a tick has passed since following began has been brought in; what it
\* is bringing in comes next, or was listed by the catch-up.
FollowOK ==
    /\ tick.pc = "profile" => hist = None
    /\ tick.pc \in Listing /\ hist # None => Covers(tick.at)
    /\ tick.pc = "bring" =>
         /\ tick.at < tick.latest
         /\ glog[tick.at + 1].kind = "add" /\ glog[tick.at + 1].g = job["sync"].g
    /\ tick.pc = "catchup" =>
         /\ job["sync"].g \in tick.ids
         /\ \A i \in 1..tick.latest :
              glog[i].kind = "add" => Brought(glog[i].g) \/ glog[i].g \in tick.ids

SkipInv == LabelsOK /\ FollowOK /\ NothingSkipped

\* The log is only added to, and what is brought in stays so.
Grows ==
    /\ Len(glog) <= Len(glog') /\ \A i \in 1..Len(glog) : glog'[i] = glog[i]
    /\ \A g \in Msgs : Brought(g) => Brought(g)'

LEMMA GrowsStill ==
    ASSUME Typed, UNCHANGED <<glog, gmail>>, Linked \subseteq Linked', missed \subseteq missed'
    PROVE  Grows
BY DEF Grows, Brought, Typed, LogTyped

LEMMA Appended ==
    ASSUME Typed, NEW g \in Msgs, gmail[g] # "gone", NEW to, gmail' = [gmail EXCEPT ![g] = to],
           NEW e, glog' = Append(glog, e), UNCHANGED <<box, missed>>
    PROVE  Grows
<1>1. glog \in Seq(Entry) /\ gmail \in [Msgs -> {"absent", "in", "trash", "gone"}]
  BY DEF Typed, LogTyped
<1>2. Len(glog') = Len(glog) + 1 /\ \A i \in 1..Len(glog) : glog'[i] = glog[i]
  BY <1>1
<1>3. \A k \in Msgs : gmail[k] = "gone" => gmail'[k] = "gone"
  BY <1>1
<1> QED
  BY <1>1, <1>2, <1>3 DEF Grows, Brought, Linked

LEMMA AtGmailGrows == ASSUME Typed, AtGmail PROVE Grows
<1>1. PICK g \in Msgs : Arrive(g) \/ Relabel(g)
  BY DEF AtGmail
<1>2. UNCHANGED <<box, missed>>
  BY DEF AtGmail, mail
<1>3. gmail[g] # "gone" /\ \E to, e : gmail' = [gmail EXCEPT ![g] = to] /\ glog' = Append(glog, e)
  BY <1>1 DEF Arrive, Relabel, Here
<1> QED
  BY <1>2, <1>3, Appended

LEMMA SendsGrows == ASSUME Typed, SendChange PROVE Grows
<1>1. PICK r \in tick.todo : Sends(r)
  BY SendsOne
<1>2. r.g \in Msgs /\ UNCHANGED <<box, missed>>
  BY <1>1 DEF Sends, mail, Typed, RunTyped, Tick, Row
<1>3. CASE UNCHANGED <<glog, gmail>>
  BY <1>2, <1>3, GrowsStill DEF Linked
<1>4. CASE gmail[r.g] # "gone" /\ Apply(r)
  <2>1. \/ UNCHANGED <<glog, gmail>>
        \/ \E to, e : gmail' = [gmail EXCEPT ![r.g] = to] /\ glog' = Append(glog, e)
    BY <1>4 DEF Apply
  <2> QED
    BY <1>2, <1>3, <1>4, <2>1, Appended
<1> QED
  BY <1>1, <1>3, <1>4 DEF Sends

LEMMA StepGrows == Typed /\ [Next]_vars => Grows
<1> SUFFICES ASSUME Typed, [Next]_vars PROVE Grows
  OBVIOUS
<1>1. CASE AtGmail \/ SendChange
  BY <1>1, AtGmailGrows, SendsGrows
<1>2. CASE \/ Forget \/ Withdraw \/ GmailPushed \/ InBusta \/ RetryDue \/ RenewalComes \/ AlarmFires
           \/ FailedCall \/ RenewWatch \/ Profile \/ ListHistory \/ TooFarBehind \/ CatchUp
           \/ ImportBegins \/ ImportFails \/ TickDies \/ SignIn \/ ConnectGmail
           \/ DisconnectGmail \/ UNCHANGED vars
  <2>1. UNCHANGED <<glog, gmail, box, missed>>
    BY <1>2 DEF Forget, Withdraw, GmailPushed, InBusta, RetryDue, RenewalComes, AlarmFires, FailedCall,
                RenewWatch, Profile, ListHistory, TooFarBehind, CatchUp, ImportBegins, ImportFails,
                TickDies, SignIn, ConnectGmail, DisconnectGmail, vars, google, mail, history
  <2> QED
    BY <2>1, GrowsStill DEF Linked
<1>3. CASE Recent
  BY <1>3, GrowsStill DEF Recent, google, mail, Linked
<1>4. CASE \E a \in Jobs : Fetch(a) \/ Labels(a)
  BY <1>4, GrowsStill DEF Fetch, Labels, google, mail, Linked
<1>5. ASSUME NEW a \in Jobs, Store(a) \/ Link(a) PROVE Grows
  <2>1. UNCHANGED <<glog, gmail, missed>>
    BY <1>5 DEF Store, Link, google
  <2>2. \/ box' = [box EXCEPT ![job[a].g] = IF @ = "none" THEN "stored" ELSE @]
        \/ box' = [box EXCEPT ![job[a].g] = "linked"]
    BY <1>5 DEF Store, Link
  <2>3. box \in [Msgs -> {"none", "stored", "linked"}]
    BY DEF Typed, MailTyped
  <2>4. Linked \subseteq Linked'
    BY <2>2, <2>3 DEF Linked
  <2> QED
    BY <2>1, <2>4, GrowsStill
<1> QED
  BY <1>1, <1>2, <1>3, <1>4, <1>5 DEF Next

\* What is covered stays so.
LEMMA CoversStill ==
    ASSUME Typed, Grows, start' = start, NEW k \in 0..Len(glog), Covers(k)
    PROVE  Covers(k)'
<1>0. start \in Nat /\ Len(glog) \in Nat
  BY DEF Typed, StateTyped, LogTyped
<1>1. \A i \in start + 1..k : i \in 1..Len(glog) /\ glog'[i] = glog[i] /\ glog[i].g \in Msgs
  BY <1>0, Entries DEF Grows
<1> QED
  BY <1>1 DEF Covers, Grows

LEMMA SkippedStill ==
    ASSUME Typed, Grows, NothingSkipped, start' = start, hist' \in {hist, None}
    PROVE  NothingSkipped'
<1>1. CASE hist' = None
  BY <1>1 DEF NothingSkipped
<1>2. CASE hist' # None
  <2>1. hist \in 0..Len(glog) /\ hist' = hist /\ Covers(hist)
    BY <1>2 DEF Typed, StateTyped, NothingSkipped, Covers, Brought
  <2>2. Covers(hist)'
    BY <2>1, CoversStill
  <2> QED
    BY <2>1, <2>2 DEF NothingSkipped, Covers, Brought
<1> QED
  BY <1>1, <1>2

\* Whoever leaves the tick and its job alone leaves it where it is.
LEMMA FollowStill ==
    ASSUME Typed, Grows, FollowOK, start' = start, hist' \in {hist, None}, tick' = tick,
           job'["sync"].g = job["sync"].g
    PROVE  FollowOK'
<1>0. tick.at \in 0..Len(glog) /\ tick.latest \in 0..Len(glog) /\ Len(glog) \in Nat
  BY DEF Typed, RunTyped, Tick, LogTyped
<1>1. tick.pc \in Listing /\ hist' # None => Covers(tick.at)'
  BY <1>0, CoversStill DEF FollowOK
<1>2. tick.pc = "bring" => glog'[tick.at + 1] = glog[tick.at + 1]
  BY <1>0 DEF FollowOK, Grows
<1>3. \A i \in 1..tick.latest : glog'[i] = glog[i] /\ glog[i].g \in Msgs
  BY <1>0, Entries DEF Grows
<1>4. tick.pc = "catchup" =>
        \A i \in 1..tick.latest :
            (glog[i].kind = "add" => Brought(glog[i].g) \/ glog[i].g \in tick.ids)'
  <2> SUFFICES ASSUME tick.pc = "catchup", NEW i \in 1..tick.latest, glog'[i].kind = "add"
               PROVE  Brought(glog[i].g)' \/ glog'[i].g \in tick'.ids
    OBVIOUS
  <2>1. PICK g \in Msgs : g = glog[i].g /\ glog'[i] = glog[i]
    BY <1>3
  <2>2. Brought(g) \/ g \in tick.ids
    BY <2>1 DEF FollowOK
  <2>3. Brought(g) => Brought(g)'
    BY DEF Grows
  <2>4. Brought(g)' => Brought(glog[i].g)'
    BY <2>1 DEF Brought
  <2> QED
    BY <2>1, <2>2, <2>3, <2>4
<1>5. tick.pc = "profile" => hist' = None
  BY DEF FollowOK
<1>6. tick'.pc = "catchup" => job'["sync"].g \in tick'.ids
  BY DEF FollowOK
<1> HIDE DEF Brought
<1> QED
  BY <1>1, <1>2, <1>4, <1>5, <1>6 DEF FollowOK

LEMMA FollowIdle == ASSUME tick' = Idle PROVE FollowOK'
BY DEF FollowOK, Idle, Listing

\* The position that is saved covers what is before it.
LEMMA SyncedSkips ==
    ASSUME Typed, Grows, NothingSkipped, NEW h \in 0..Len(glog), Synced(h),
           hist # None /\ start' = start => Covers(h)'
    PROVE  FollowOK' /\ NothingSkipped'
<1>1. FollowOK'
  BY FollowIdle DEF Synced, Finish, End
<1>2. ASSUME conn = "none" PROVE NothingSkipped'
  BY <1>2, SkippedStill DEF Synced, SetHist
<1>3. ASSUME conn # "none" PROVE NothingSkipped'
  <2>1. hist' = h /\ start' = IF hist = None THEN h ELSE start
    BY <1>3 DEF Synced, SetHist
  <2>2. CASE hist = None
    BY <2>1, <2>2 DEF NothingSkipped
  <2>3. CASE hist # None
    BY <2>1, <2>3 DEF NothingSkipped, Covers, Brought
  <2> QED
    BY <2>2, <2>3
<1> QED
  BY <1>1, <1>2, <1>3

\* No job comes to its labels by this step.
Unlabelled == \A a \in Jobs : job'[a] = job[a] \/ job'[a].step # "labels"

LEMMA EndsUnlabelled ==
    ASSUME Typed, End \/ UNCHANGED job PROVE Unlabelled
BY DEF End, Unlabelled, NoJob, Jobs, Typed, RunTyped

LEMMA BeginsUnlabelled ==
    ASSUME Typed, NEW a \in Jobs, NEW g, Begins(a, g) PROVE Unlabelled
<1>1. [NoJob EXCEPT !.g = g, !.step = "fetch"].step = "fetch"
  BY DEF NoJob
<1> QED
  BY <1>1 DEF Begins, Unlabelled, Jobs, Typed, RunTyped

LEMMA DrainUnlabelled ==
    ASSUME Typed, NEW t, NEW rows, NEW h, NEW poll, NEW w,
           Drain(t, h, poll, w) \/ AfterDrain(t, rows, h, poll, w) \/ Ask(t, w)
    PROVE  Unlabelled
BY EndsUnlabelled DEF Drain, AfterDrain, Ask, Fail, Finish

LEMMA SyncedUnlabelled == ASSUME Typed, NEW h, Synced(h) PROVE Unlabelled
BY EndsUnlabelled DEF Synced, Finish

LEMMA JobUnlabelled == ASSUME Typed, NEW a \in Jobs, JobDone(a) PROVE Unlabelled
<1>1. \/ job' = [job EXCEPT !["import"] = NoJob] \/ job' = [job EXCEPT !["sync"] = NoJob]
      \/ \E h : Synced(h)
      \/ \E g : Begins("sync", g)
  <2> DEFINE g == Max(tick.ids \ {job[a].g})
  <2>1. \/ job' = [job EXCEPT !["import"] = NoJob] \/ job' = [job EXCEPT !["sync"] = NoJob]
        \/ Synced(tick.latest)
        \/ Begins("sync", g)
    BY Zenon DEF JobDone, Begins
  <2> QED
    BY <2>1, Zenon
<1>2. CASE job' = [job EXCEPT !["import"] = NoJob] \/ job' = [job EXCEPT !["sync"] = NoJob]
  BY <1>2 DEF Unlabelled, NoJob, Jobs, Typed, RunTyped
<1> QED
  BY <1>1, <1>2, SyncedUnlabelled, BeginsUnlabelled DEF Jobs

LEMMA FetchUnlabelled == ASSUME Typed, NEW a \in Jobs, Fetch(a) PROVE Unlabelled
<1>1. CASE job' = [job EXCEPT ![a].step = "store", ![a].trashed = gmail[job[a].g] = "trash"]
  <2>1. job[a] \in Job /\ job[a] # NoJob
    BY DEF Typed, RunTyped, Fetch, NoJob
  <2>2. [job[a] EXCEPT !.step = "store", !.trashed = gmail[job[a].g] = "trash"].step = "store"
    BY <2>1 DEF Job
  <2>3. job' = [job EXCEPT ![a] = [job[a] EXCEPT !.step = "store", !.trashed = gmail[job[a].g] = "trash"]]
    BY <1>1 DEF Typed, RunTyped
  <2> QED
    BY <2>2, <2>3 DEF Unlabelled, Typed, RunTyped
<1> QED
  BY <1>1, JobUnlabelled DEF Fetch

LEMMA StoreUnlabelled == ASSUME Typed, NEW a \in Jobs, Store(a) PROVE Unlabelled
<1>1. job[a] \in Job /\ job[a] # NoJob /\ job' = [job EXCEPT ![a].step = "link"]
  BY DEF Typed, RunTyped, Store, NextStep, NoJob
<1> QED
  BY <1>1 DEF Unlabelled, Typed, RunTyped, Job

LEMMA LinkedStays ==
    ASSUME Typed, NEW a \in Jobs, Store(a) \/ Link(a) PROVE Linked \subseteq Linked'
<1>1. \/ box' = [box EXCEPT ![job[a].g] = IF @ = "none" THEN "stored" ELSE @]
      \/ box' = [box EXCEPT ![job[a].g] = "linked"]
  BY DEF Store, Link
<1> QED
  BY <1>1 DEF Linked, Typed, MailTyped

LEMMA LabelsStep == Typed /\ LabelsOK /\ [Next]_vars => LabelsOK'
<1> SUFFICES ASSUME Typed, LabelsOK, [Next]_vars PROVE LabelsOK'
  OBVIOUS
<1>0. ASSUME Unlabelled, Linked \subseteq Linked' PROVE LabelsOK'
  BY <1>0 DEF LabelsOK, Unlabelled
<1>1. CASE \/ AtGmail \/ Forget \/ Withdraw \/ GmailPushed \/ InBusta \/ RetryDue \/ RenewalComes
           \/ SignIn \/ ConnectGmail \/ DisconnectGmail \/ UNCHANGED vars
  <2>1. UNCHANGED <<box, job>>
    BY <1>1 DEF AtGmail, Forget, Withdraw, GmailPushed, InBusta, RetryDue, RenewalComes, SignIn, ConnectGmail,
                DisconnectGmail, vars, mail
  <2> QED
    BY <1>0, <2>1 DEF Unlabelled, Linked
<1>2. CASE AlarmFires \/ RenewWatch \/ SendChange \/ FailedCall \/ TickDies
  <2>1. UNCHANGED box
    BY <1>2, SendsOne DEF AlarmFires, RenewWatch, Sends, FailedCall, TickDies, mail
  <2>2. Unlabelled
    <3>1. CASE SendChange
      BY <3>1, SendsOne, DrainUnlabelled, EndsUnlabelled DEF Sends, SentOn, Fail
    <3>2. CASE AlarmFires \/ RenewWatch
      BY <3>2, DrainUnlabelled, EndsUnlabelled DEF AlarmFires, RenewWatch, Fail
    <3>3. CASE FailedCall \/ TickDies
      BY <3>3, EndsUnlabelled DEF FailedCall, TickDies, Fail
    <3> QED
      BY <1>2, <3>1, <3>2, <3>3
  <2> QED
    BY <1>0, <2>1, <2>2 DEF Linked
<1>3. CASE Profile \/ ListHistory \/ TooFarBehind \/ CatchUp \/ Recent
  <2>1. UNCHANGED box
    BY <1>3 DEF Profile, ListHistory, TooFarBehind, CatchUp, Recent, mail
  <2>2. \/ \E h : Synced(h)
        \/ \E g : Begins("sync", g)
        \/ \E t, w : Ask(t, w)
    <3>1. CASE Profile \/ TooFarBehind \/ CatchUp
      BY <3>1 DEF Profile, TooFarBehind, CatchUp
    <3>2. CASE ListHistory
      <4>1. \/ Synced(Len(glog))
            \/ Begins("sync", glog[tick.at + 1].g)
            \/ Ask([tick EXCEPT !.at = @ + 1, !.latest = Len(glog)], wake)
        BY <3>2, Zenon DEF ListHistory, Begins
      <4> QED
        BY <4>1, Zenon
    <3>3. CASE Recent
      <4> DEFINE all == {g \in Msgs : gmail[g] = "in"}
                 page == {g \in all : Cardinality({h \in all : h > g}) < ListMax}
                 g == Max(page)
      <4>1. \/ Synced(tick.latest)
            \/ Begins("sync", g)
        BY <3>3, Zenon DEF Recent, Begins
      <4> QED
        BY <4>1, Zenon
    <3> QED
      BY <1>3, <3>1, <3>2, <3>3
  <2>3. Unlabelled
    BY <2>2, SyncedUnlabelled, BeginsUnlabelled, DrainUnlabelled DEF Jobs
  <2> QED
    BY <1>0, <2>1, <2>3 DEF Linked
<1>4. CASE ImportBegins \/ ImportFails
  <2>0. ASSUME ImportBegins PROVE mail' = mail /\ \E g : Begins("import", g)
    BY <2>0, Zenon DEF ImportBegins, Begins
  <2>1. UNCHANGED box
    BY <1>4, <2>0 DEF ImportFails, mail
  <2>2. Unlabelled
    <3>1. CASE ImportBegins
      BY <2>0, <3>1, BeginsUnlabelled DEF Jobs
    <3>2. CASE ImportFails
      BY <3>2 DEF ImportFails, Unlabelled, NoJob, Jobs, Typed, RunTyped
    <3> QED
      BY <1>4, <3>1, <3>2
  <2> QED
    BY <1>0, <2>1, <2>2 DEF Linked
<1>5. ASSUME NEW a \in Jobs, Fetch(a) \/ Store(a) \/ Labels(a) PROVE LabelsOK'
  <2>1. Linked \subseteq Linked'
    BY <1>5, LinkedStays DEF Fetch, Labels, mail, Linked
  <2>2. Unlabelled
    BY <1>5, FetchUnlabelled, StoreUnlabelled, JobUnlabelled DEF Labels
  <2> QED
    BY <1>0, <2>1, <2>2
<1>6. ASSUME NEW a \in Jobs, Link(a) PROVE LabelsOK'
  <2>1. Linked \subseteq Linked' /\ job[a].g \in Msgs
    BY <1>6, LinkedStays, StepsOf DEF Link
  <2>2. job[a].g \in Linked'
    BY <1>6, <2>1 DEF Link, Linked, Typed, MailTyped
  <2>3. job[a] \in Job /\ job[a] # NoJob /\ job' = [job EXCEPT ![a].step = "labels"]
    BY <1>6 DEF Typed, RunTyped, Link, NextStep, NoJob
  <2>4. \A b \in Jobs : job'[b].g = job[b].g /\ (b = a \/ job'[b] = job[b])
    BY <2>3 DEF Typed, RunTyped, Job
  <2> QED
    BY <2>1, <2>2, <2>4 DEF LabelsOK
<1> QED
  BY <1>1, <1>2, <1>3, <1>4, <1>5, <1>6 DEF Next

\* FollowOK and NothingSkipped, a step at a time.
Kept == FollowOK' /\ NothingSkipped'

\* A step that leaves the tick and the position alone.
LEMMA QuietKept ==
    ASSUME Typed, Grows, FollowOK, NothingSkipped, start' = start, hist' \in {hist, None},
           tick' = tick, job'["sync"].g = job["sync"].g
    PROVE  Kept
BY FollowStill, SkippedStill DEF Kept

LEMMA EndKept ==
    ASSUME Typed, Grows, NothingSkipped, start' = start, hist' = hist, End
    PROVE  Kept
BY FollowIdle, SkippedStill DEF Kept, End

LEMMA SyncedKept ==
    ASSUME Typed, Grows, NothingSkipped, NEW h \in 0..Len(glog), Synced(h),
           hist # None /\ start' = start => Covers(h)'
    PROVE  Kept
BY SyncedSkips DEF Kept

\* The tick goes on from the position it is given, which covers what is before it.
LEMMA AfterDrainFollows ==
    ASSUME Typed, NEW t \in Tick, NEW rows, NEW h \in {None} \cup Nat, NEW poll, NEW w,
           AfterDrain(t, rows, h, poll, w), hist' = h, h # None => Covers(h)'
    PROVE  FollowOK'
<1>1. CASE End
  BY <1>1, FollowIdle DEF End
<1>2. CASE ~ End
  <2> DEFINE u == [t EXCEPT !.pc = IF h = None THEN "profile" ELSE "list",
                            !.at = IF h = None THEN 0 ELSE h]
  <2>1. Ask(u, w)
    BY <1>2 DEF AfterDrain, Fail, Finish
  <2>2. /\ (IF h = None THEN "profile" ELSE "list") \in {"profile", "list"}
        /\ (IF h = None THEN 0 ELSE h) \in Nat
    BY DEF None
  <2>3. u \in Tick /\ u.pc = (IF h = None THEN "profile" ELSE "list") /\ (h # None => u.at = h)
    BY <2>2 DEF Tick
  <2> HIDE DEF u
  <2>4. tick'.pc = u.pc /\ tick'.at = u.at
    BY <2>1, <2>3 DEF Ask, Tick
  <2>5. CASE h = None
    BY <2>3, <2>4, <2>5 DEF FollowOK, Listing
  <2>6. CASE h # None
    <3>1. tick'.pc = "list" /\ tick'.at = h
      BY <2>3, <2>4, <2>6
    <3>2. Covers(tick.at)'
      BY <2>6, <3>1 DEF Covers
    <3> QED
      BY <3>1, <3>2 DEF FollowOK
  <2> QED
    BY <2>5, <2>6
<1> QED
  BY <1>1, <1>2

LEMMA AskDrainFollows ==
    ASSUME NEW t \in Tick, t.pc = "drain", NEW w, Ask(t, w) PROVE FollowOK'
BY DEF Ask, Tick, FollowOK, Listing

LEMMA DrainFollows ==
    ASSUME Typed, NEW t \in Tick, NEW h \in {None} \cup Nat, NEW poll, NEW w,
           Drain(t, h, poll, w), hist' = h, h # None => Covers(h)'
    PROVE  FollowOK'
<1> DEFINE due == {r \in outbox : r.due}
           u == [t EXCEPT !.pc = "drain", !.todo = due]
<1>1. CASE due = {}
  BY <1>1, AfterDrainFollows DEF Drain
<1>2. CASE due # {}
  <2>1. Ask(u, w)
    BY <1>2 DEF Drain
  <2>2. due \in SUBSET Row
    BY DEF Typed, MailTyped
  <2> HIDE DEF due
  <2>3. u \in Tick /\ u.pc = "drain"
    BY <2>2 DEF Tick
  <2> HIDE DEF u
  <2> QED
    BY <2>1, <2>3, AskDrainFollows
<1> QED
  BY <1>1, <1>2

\* What the saved position covers, it still covers.
LEMMA HistCovers ==
    ASSUME Typed, Grows, NothingSkipped, start' = start, NEW h, h = hist, h # None
    PROVE  Covers(h)'
<1>1. h \in 0..Len(glog) /\ Covers(h)
  BY DEF Typed, StateTyped, NothingSkipped, Covers, Brought
<1> QED
  BY <1>1, CoversStill

LEMMA AlarmKept ==
    ASSUME Typed, Grows, FollowOK, NothingSkipped, AlarmFires PROVE Kept
<1>0. UNCHANGED <<hist, start>> /\ hist \in {None} \cup Nat
  <2>1. start' = start
    BY DEF AlarmFires, history
  <2>2. hist' = hist
    BY DEF AlarmFires, state
  <2> QED
    BY <2>1, <2>2 DEF Typed, StateTyped
<1>1. CASE conn # "live"
  BY <1>0, <1>1, QuietKept DEF AlarmFires
<1>2. CASE conn = "live"
  <2> DEFINE t == [Idle EXCEPT !.gen = connects]
             u == [t EXCEPT !.pc = "renew"]
  <2>1. \E poll \in BOOLEAN : Ask(u, Never) \/ Drain(t, hist, poll, Never)
    BY <1>2 DEF AlarmFires, Typed, StateTyped
  <2>2. t \in Tick
    <3>1. Idle \in Tick /\ connects \in 0..MaxConnects
      BY BoundsAssumption DEF Tick, Idle, Typed, MailTyped
    <3> QED
      BY <3>1 DEF Tick
  <2> HIDE DEF t
  <2>3. u \in Tick /\ u.pc = "renew"
    BY <2>2 DEF Tick
  <2> HIDE DEF u
  <2>4. ASSUME Ask(u, Never) PROVE FollowOK'
    <3>1. tick'.pc = "renew"
      BY <2>3, <2>4 DEF Ask, Tick
    <3> QED
      BY <3>1 DEF FollowOK, Listing
  <2>5. ASSUME NEW poll, Drain(t, hist, poll, Never) PROVE FollowOK'
    <3>1. PICK h : h = hist
      OBVIOUS
    <3>2. h # None => Covers(h)'
      BY <1>0, <3>1, HistCovers
    <3>3. Drain(t, h, poll, Never) /\ hist' = h /\ h \in {None} \cup Nat
      BY <1>0, <2>5, <3>1
    <3> QED
      BY <2>2, <3>2, <3>3, DrainFollows
  <2>6. FollowOK'
    BY <2>1, <2>4, <2>5
  <2> QED
    BY <1>0, <2>6, SkippedStill DEF Kept
<1> QED
  BY <1>1, <1>2

LEMMA RenewKept ==
    ASSUME Typed, Grows, FollowOK, NothingSkipped, RenewWatch PROVE Kept
<1>0. PICK h : h = IF hist = None THEN Len(glog) ELSE hist
  OBVIOUS
<1>1. CASE conn = "none"
  <2>1. Fail(FALSE) /\ UNCHANGED <<hist, start>>
    BY <1>1 DEF RenewWatch
  <2> QED
    BY <2>1, EndKept DEF Fail
<1>2. CASE conn # "none"
  <2>1. /\ Drain(tick, h, pollDue, wake) /\ hist' = h
        /\ start' = IF hist = None THEN h ELSE start
    BY <1>0, <1>2 DEF RenewWatch, SetHist
  <2>2. h \in Nat /\ tick \in Tick
    BY <1>0 DEF Typed, LogTyped, StateTyped, RunTyped
  <2>3. Covers(h)' /\ NothingSkipped'
    <3>1. CASE hist = None
      BY <2>1, <2>2, <3>1 DEF Covers, NothingSkipped
    <3>2. CASE hist # None
      BY <1>0, <2>1, <3>2, HistCovers, SkippedStill
    <3> QED
      BY <3>1, <3>2
  <2>4. FollowOK'
    BY <2>1, <2>2, <2>3, DrainFollows
  <2> QED
    BY <2>3, <2>4 DEF Kept
<1> QED
  BY <1>1, <1>2

LEMMA SendKept ==
    ASSUME Typed, Grows, FollowOK, NothingSkipped, SendChange PROVE Kept
<1>1. PICK r \in tick.todo : Sends(r)
  BY SendsOne
<1>0. hist \in {None} \cup Nat /\ tick \in Tick /\ tick.pc = "drain"
  BY DEF SendChange, Typed, StateTyped, RunTyped
<1>2. start' = start /\ hist' = hist
  BY <1>1 DEF Sends, SentOn
<1>3. CASE Fail(TRUE)
  BY <1>2, <1>3, EndKept DEF Fail
<1>4. ASSUME NEW rows, SentOn(r, rows) PROVE FollowOK'
  <2> DEFINE rest == tick.todo \ {r}
             u == [tick EXCEPT !.todo = rest]
  <2>0. PICK h : h = hist
    OBVIOUS
  <2>1. u \in Tick /\ u.pc = "drain"
    BY <1>0 DEF Tick
  <2>2. AfterDrain(u, rows, h, pollDue, wake) \/ Ask(u, wake)
    BY <1>4, <2>0 DEF SentOn
  <2>3. hist' = h /\ (h # None => Covers(h)')
    BY <1>2, <2>0, HistCovers
  <2> HIDE DEF u
  <2> QED
    BY <1>0, <2>0, <2>1, <2>2, <2>3, AfterDrainFollows, AskDrainFollows
<1> QED
  BY <1>1, <1>2, <1>3, <1>4, SkippedStill DEF Sends, Kept

\* What a page of the history brings is covered once its record is applied.
LEMMA OneMoreCovered ==
    ASSUME Typed, Grows, UNCHANGED <<start, glog>>, NEW k \in Nat, k < Len(glog),
           Covers(k), glog[k + 1].kind = "add" => Brought(glog[k + 1].g)'
    PROVE  Covers(k + 1)'
<1>0. start \in Nat /\ Len(glog) \in Nat
  BY DEF Typed, StateTyped, LogTyped
<1>1. Covers(k)'
  BY <1>0, CoversStill
<1>2. \A i \in start + 1..k + 1 : i = k + 1 \/ i \in start + 1..k
  BY <1>0
<1> QED
  BY <1>1, <1>2 DEF Covers, Brought

LEMMA ListKept ==
    ASSUME Typed, Grows, FollowOK, NothingSkipped, ListHistory PROVE Kept
<1>0. /\ tick \in Tick /\ tick.at \in 0..Len(glog) /\ Len(glog) \in Nat /\ tick.pc = "list"
      /\ glog' = glog /\ (hist # None => Covers(tick.at))
  BY DEF ListHistory, Typed, RunTyped, Tick, LogTyped, google, FollowOK, Listing
<1> PICK n \in Nat : n = Len(glog)
  BY <1>0
<1> PICK k \in 0..n : k = tick.at
  BY <1>0
<1>1. CASE k = n
  <2>1. Synced(n)
    BY <1>1 DEF ListHistory
  <2>2. hist # None /\ start' = start => Covers(n)'
    BY <1>0, <1>1, CoversStill
  <2> QED
    BY <1>0, <2>1, <2>2, SyncedKept
<1>2. CASE k # n /\ glog[k + 1].kind = "add"
  <2>1. /\ tick' = [tick EXCEPT !.pc = "bring", !.latest = Len(glog), !.saw = grant]
        /\ Begins("sync", glog[k + 1].g)
        /\ UNCHANGED <<state, wake, start>>
    BY <1>2 DEF ListHistory, Begins
  <2>2. glog[k + 1].g \in Msgs
    BY <1>0, <1>2, Entries
  <2>3. job'["sync"].g = glog[k + 1].g
    BY <2>1, <2>2, BeginsJob DEF Jobs
  <2>4. tick'.pc = "bring" /\ tick'.at = k /\ tick'.latest = n
    BY <1>0, <2>1 DEF Tick
  <2>5. hist' = hist /\ start' = start
    BY <2>1 DEF state
  <2>6. hist # None => Covers(k)'
    BY <1>0, <2>5, CoversStill
  <2>7. hist' # None => Covers(tick.at)'
    BY <2>4, <2>5, <2>6 DEF Covers
  <2>8. FollowOK'
    BY <1>0, <1>2, <2>3, <2>4, <2>7 DEF FollowOK
  <2> QED
    BY <2>5, <2>8, SkippedStill DEF Kept
<1>3. CASE k # n /\ glog[k + 1].kind # "add"
  <2>0. k + 1 \in 0..n /\ k < n
    BY <1>3
  <2>1. hist # None /\ start' = start => Covers(k + 1)'
    BY <1>0, <1>3, <2>0, OneMoreCovered
  <2>2. CASE k + 1 < n
    <3>1. /\ Ask([tick EXCEPT !.at = @ + 1, !.latest = Len(glog)], wake)
          /\ UNCHANGED <<hist, start, pending, renewDue, pollDue>>
      BY <1>3, <2>2 DEF ListHistory
    <3>2. tick'.pc = "list" /\ tick'.at = k + 1
      BY <1>0, <3>1 DEF Ask, Tick
    <3>3. hist' # None => Covers(tick.at)'
      BY <2>1, <3>1, <3>2 DEF Covers
    <3>4. FollowOK'
      BY <3>2, <3>3 DEF FollowOK
    <3> QED
      BY <3>1, <3>4, SkippedStill DEF Kept
  <2>3. CASE ~ (k + 1 < n)
    <3>1. Synced(n) /\ k + 1 = n
      BY <1>3, <2>0, <2>3 DEF ListHistory
    <3> QED
      BY <1>0, <2>0, <2>1, <3>1, SyncedKept
  <2> QED
    BY <2>2, <2>3
<1> QED
  BY <1>1, <1>2, <1>3

LEMMA ProfileKept ==
    ASSUME Typed, Grows, FollowOK, NothingSkipped, Profile PROVE Kept
<1>1. hist = None /\ Synced(Len(glog)) /\ Len(glog) \in 0..Len(glog)
  BY DEF Profile, FollowOK, Typed, LogTyped
<1> QED
  BY <1>1, SyncedKept

LEMMA BehindKept ==
    ASSUME Typed, Grows, FollowOK, NothingSkipped, TooFarBehind PROVE Kept
<1>1. /\ hist' = hist /\ start' = start /\ tick \in Tick /\ tick.at \in 0..Len(glog) /\ tick.pc = "list"
      /\ Ask([tick EXCEPT !.pc = "behind"], wake)
  BY DEF TooFarBehind, history, Typed, RunTyped, Tick
<1>2. tick'.pc = "behind" /\ tick'.at = tick.at
  BY <1>1 DEF Ask, Tick
<1>3. PICK k \in 0..Len(glog) : k = tick.at
  BY <1>1
<1>4. hist # None => Covers(k)'
  BY <1>1, <1>3, CoversStill DEF FollowOK, Listing
<1>5. hist' # None => Covers(tick.at)'
  BY <1>1, <1>2, <1>3, <1>4 DEF Covers
<1>6. FollowOK'
  BY <1>2, <1>5 DEF FollowOK
<1> QED
  BY <1>1, <1>6, SkippedStill DEF Kept

LEMMA CatchUpKept ==
    ASSUME Typed, Grows, FollowOK, NothingSkipped, CatchUp PROVE Kept
<1>1. /\ hist' = hist /\ start' = start /\ tick \in Tick
      /\ Ask([tick EXCEPT !.pc = "recent", !.latest = Len(glog)], wake)
  BY DEF CatchUp, Typed, RunTyped
<1>2. tick'.pc = "recent"
  BY <1>1 DEF Ask, Tick
<1>3. FollowOK'
  BY <1>2 DEF FollowOK, Listing
<1> QED
  BY <1>1, <1>3, SkippedStill DEF Kept

\* A catch-up lists what there is, or leaves it out and says so.
LEMMA RecentKept ==
    ASSUME Typed, Grows, FollowOK, NothingSkipped, Recent PROVE Kept
<1> DEFINE all == {g \in Msgs : gmail[g] = "in"}
           page == {g \in all : Cardinality({h \in all : h > g}) < ListMax}
<1>0. /\ tick \in Tick /\ tick.latest \in 0..Len(glog) /\ Len(glog) \in Nat /\ glog' = glog
      /\ page \subseteq Msgs
  BY DEF Recent, Typed, RunTyped, Tick, LogTyped, google
<1>1. missed' = missed \cup ({glog[i].g : i \in 1..Len(glog)} \ page)
  BY DEF Recent
<1>2. CASE page = {}
  <2>1. Synced(tick.latest)
    BY <1>2 DEF Recent
  <2> PICK k \in 0..Len(glog) : k = tick.latest
    BY <1>0
  <2>2. start \in Nat
    BY DEF Typed, StateTyped
  <2>3. start' = start => Covers(k)'
    <3> SUFFICES ASSUME start' = start PROVE Covers(k)'
      OBVIOUS
    <3>1. \A i \in start + 1..k : glog'[i].g \in missed'
      BY <1>0, <1>1, <1>2, <2>2
    <3> QED
      BY <3>1 DEF Covers, Brought
  <2> QED
    BY <1>0, <2>1, <2>3, SyncedKept
<1>3. CASE page # {}
  <2>1. /\ tick' = [tick EXCEPT !.pc = "catchup", !.ids = page, !.saw = grant]
        /\ Begins("sync", Max(page))
        /\ UNCHANGED <<state, wake, start>>
    BY <1>3 DEF Recent, Begins
  <2>2. Max(page) \in page /\ Max(page) \in Msgs
    BY <1>0, <1>3, NewestOf
  <2>3. job'["sync"].g = Max(page)
    BY <2>1, <2>2, BeginsJob DEF Jobs
  <2> PICK p : p = page
    OBVIOUS
  <2> HIDE DEF page
  <2>4. tick'.pc = "catchup" /\ tick'.ids = p /\ tick'.latest = tick.latest
    BY <1>0, <2>1 DEF Tick
  <2>5. \A i \in 1..tick.latest : glog'[i].g \in p \/ glog'[i].g \in missed'
    BY <1>0, <1>1
  <2>6. FollowOK'
    BY <2>2, <2>3, <2>4, <2>5 DEF FollowOK, Listing, Brought
  <2> QED
    BY <2>1, <2>6, SkippedStill DEF Kept, state
<1> QED
  BY <1>2, <1>3

\* A message is done with: it is brought in, and with it what comes up to it.
LEMMA JobKept ==
    ASSUME Typed, Grows, FollowOK, NothingSkipped, NEW a \in Jobs, job[a].step # "none",
           JobDone(a), UNCHANGED <<glog, missed>>, Brought(job[a].g)
    PROVE  Kept
<1>0. /\ tick \in Tick /\ tick.at \in 0..Len(glog) /\ tick.latest \in 0..Len(glog) /\ Len(glog) \in Nat
      /\ start \in Nat
  BY DEF Typed, RunTyped, Tick, LogTyped, StateTyped
<1> PICK g \in Msgs : g = job[a].g
  BY StepsOf
<1> PICK n \in 0..Len(glog) : n = tick.latest
  BY <1>0
<1>1. Brought(g)'
  BY DEF Grows
<1>2. CASE a = "import"
  <2>1. job' = [job EXCEPT !["import"] = NoJob] /\ UNCHANGED <<state, wake, tick, start>>
    BY <1>2 DEF JobDone
  <2>2. job'["sync"] = job["sync"]
    BY <2>1 DEF Typed, RunTyped, Jobs
  <2> QED
    BY <2>1, <2>2, QuietKept DEF state
<1>3. CASE a = "sync" /\ tick.pc = "bring"
  <2> PICK k \in 0..Len(glog) : k = tick.at
    BY <1>0
  <2>1. k < n /\ glog[k + 1].g = g /\ (hist # None => Covers(k))
    BY <1>3 DEF FollowOK, Listing
  <2>2. hist # None /\ start' = start => Covers(k + 1)'
    <3> SUFFICES ASSUME hist # None, start' = start PROVE Covers(k + 1)'
      OBVIOUS
    <3>1. Brought(glog[k + 1].g)'
      BY <1>1, <2>1 DEF Brought
    <3> QED
      BY <1>0, <2>1, <3>1, OneMoreCovered
  <2>3. CASE k + 1 < n
    <3>1. /\ tick' = [tick EXCEPT !.pc = "list", !.at = @ + 1, !.saw = grant]
          /\ UNCHANGED <<state, wake, start>>
      BY <1>3, <2>3 DEF JobDone
    <3>2. tick'.pc = "list" /\ tick'.at = k + 1
      BY <1>0, <3>1 DEF Tick
    <3>3. hist' # None => Covers(tick.at)'
      BY <2>2, <3>1, <3>2 DEF Covers, state
    <3>4. FollowOK'
      BY <3>2, <3>3 DEF FollowOK
    <3> QED
      BY <3>1, <3>4, SkippedStill DEF Kept, state
  <2>4. CASE ~ (k + 1 < n)
    <3>1. Synced(n) /\ k + 1 = n
      BY <1>3, <2>1, <2>4 DEF JobDone
    <3> QED
      BY <2>2, <3>1, SyncedKept
  <2> QED
    BY <2>3, <2>4
<1>4. CASE a = "sync" /\ tick.pc # "bring"
  <2> PICK rest : rest = tick.ids \ {g}
    OBVIOUS
  <2>0. tick.pc = "catchup"
    BY <1>4 DEF Typed, RunTyped
  <2>1. \A i \in 1..n : glog'[i].kind = "add" => Brought(glog[i].g)' \/ glog'[i].g \in rest
    <3> SUFFICES ASSUME NEW i \in 1..n, glog'[i].kind = "add", glog'[i].g \notin rest
                 PROVE  Brought(glog[i].g)'
      OBVIOUS
    <3>1. PICK m \in Msgs : m = glog[i].g /\ m = glog'[i].g
      BY <1>0, Entries
    <3>2. Brought(m) \/ m \in tick.ids
      BY <2>0, <3>1 DEF FollowOK
    <3>3. Brought(m)'
      BY <1>1, <3>1, <3>2 DEF Grows
    <3> QED
      BY <3>1, <3>3 DEF Brought
  <2>2. CASE rest = {}
    <3>1. Synced(n)
      BY <1>4, <2>2 DEF JobDone
    <3>2. Covers(n)'
      <4>1. start' \in Nat
        BY <1>0, <3>1 DEF Synced, SetHist
      <4> QED
        BY <2>1, <2>2, <4>1 DEF Covers
    <3> QED
      BY <3>1, <3>2, SyncedKept
  <2>3. CASE rest # {}
    <3>1. /\ tick' = [tick EXCEPT !.ids = rest, !.saw = grant]
          /\ Begins("sync", Max(rest))
          /\ UNCHANGED <<state, wake, start>>
      BY <1>4, <2>3 DEF JobDone, Begins
    <3>2. Max(rest) \in rest /\ Max(rest) \in Msgs
      BY <1>0, <2>3, NewestOf DEF Tick
    <3>3. job'["sync"].g = Max(rest)
      BY <3>1, <3>2, BeginsJob DEF Jobs
    <3>4. tick'.pc = "catchup" /\ tick'.ids = rest /\ tick'.latest = n
      BY <1>0, <2>0, <3>1 DEF Tick
    <3>5. FollowOK'
      BY <2>1, <3>2, <3>3, <3>4 DEF FollowOK, Listing
    <3> QED
      BY <3>1, <3>5, SkippedStill DEF Kept, state
  <2> QED
    BY <2>2, <2>3
<1> QED
  BY <1>2, <1>3, <1>4 DEF Jobs

LEMMA FetchKept ==
    ASSUME Typed, Grows, FollowOK, NothingSkipped, NEW a \in Jobs, Fetch(a) PROVE Kept
<1>0. job[a].step = "fetch" /\ UNCHANGED <<glog, missed>>
  BY DEF Fetch, google
<1>1. CASE /\ box[job[a].g] = "linked" \/ gmail[job[a].g] = "gone" \/ job[a].g \in Unwanted
           /\ JobDone(a)
  <2>1. Brought(job[a].g)
    BY <1>0, <1>1, StepsOf DEF Brought, Linked
  <2> QED
    BY <1>0, <1>1, <2>1, JobKept
<1>2. CASE /\ job' = [job EXCEPT ![a].step = "store", ![a].trashed = gmail[job[a].g] = "trash"]
           /\ UNCHANGED <<state, wake, tick, start>>
  <2>1. job[a] \in Job /\ job[a] # NoJob
    BY <1>0 DEF Typed, RunTyped, NoJob
  <2>2. job' = [job EXCEPT ![a] = [job[a] EXCEPT !.step = "store", !.trashed = gmail[job[a].g] = "trash"]]
    BY <1>2 DEF Typed, RunTyped
  <2>3. job'["sync"].g = job["sync"].g
    BY <2>1, <2>2 DEF Typed, RunTyped, Job, Jobs
  <2> QED
    BY <1>2, <2>3, QuietKept DEF state
<1> QED
  BY <1>1, <1>2 DEF Fetch

LEMMA NextKept ==
    ASSUME Typed, Grows, FollowOK, NothingSkipped, NEW a \in Jobs, Store(a) \/ Link(a) PROVE Kept
<1>1. PICK s : NextStep(a, s)
  BY DEF Store, Link
<1>2. job[a] \in Job /\ job[a] # NoJob
  BY DEF Typed, RunTyped, NoJob, Store, Link
<1>3. job'["sync"].g = job["sync"].g
  BY <1>1, <1>2 DEF NextStep, Typed, RunTyped, Job, Jobs
<1> QED
  BY <1>1, <1>3, QuietKept DEF NextStep, state

LEMMA LabelsKept ==
    ASSUME Typed, Grows, LabelsOK, FollowOK, NothingSkipped, NEW a \in Jobs, Labels(a) PROVE Kept
<1>1. job[a].step = "labels" /\ JobDone(a) /\ UNCHANGED <<glog, missed>> /\ Brought(job[a].g)
  BY DEF Labels, google, LabelsOK, Brought
<1> QED
  BY <1>1, JobKept

LEMMA KeptStep == Typed /\ SkipInv /\ [Next]_vars => SkipInv'
<1> SUFFICES ASSUME Typed, LabelsOK, FollowOK, NothingSkipped, [Next]_vars PROVE LabelsOK' /\ Kept
  BY DEF SkipInv, Kept
<1>0. LabelsOK' /\ Grows
  BY LabelsStep, StepGrows
<1>1. CASE \/ AtGmail \/ Forget \/ Withdraw \/ GmailPushed \/ InBusta \/ RetryDue \/ RenewalComes
           \/ SignIn \/ ConnectGmail \/ DisconnectGmail \/ UNCHANGED vars
  <2>1. UNCHANGED <<start, tick, job>>
    BY <1>1 DEF AtGmail, Forget, Withdraw, GmailPushed, InBusta, RetryDue, RenewalComes, SignIn, ConnectGmail,
                DisconnectGmail, vars, history
  <2>2. hist' \in {hist, None}
    BY <1>1 DEF AtGmail, Forget, Withdraw, GmailPushed, InBusta, RetryDue, RenewalComes, SignIn, ConnectGmail,
                DisconnectGmail, vars, state
  <2> QED
    BY <1>0, <2>1, <2>2, QuietKept
<1>2. CASE ImportBegins \/ ImportFails
  <2>1. \E j : tick' = tick /\ state' = state /\ start' = start /\ job' = [job EXCEPT !["import"] = j]
    <3>1. CASE ImportBegins
      BY <3>1, Zenon DEF ImportBegins, history
    <3>2. CASE ImportFails
      BY <3>2, Zenon DEF ImportFails
    <3> QED
      BY <1>2, <3>1, <3>2
  <2>2. hist' = hist /\ job'["sync"] = job["sync"]
    BY <2>1 DEF state, Typed, RunTyped, Jobs
  <2> QED
    BY <1>0, <2>1, <2>2, QuietKept
<1>3. CASE FailedCall \/ TickDies
  <2>1. End /\ hist' = hist /\ start' = start
    BY <1>3 DEF FailedCall, TickDies, Fail, state, history
  <2> QED
    BY <1>0, <2>1, EndKept
<1>4. CASE AlarmFires \/ RenewWatch \/ SendChange
  BY <1>0, <1>4, AlarmKept, RenewKept, SendKept
<1>5. CASE Profile \/ ListHistory \/ TooFarBehind \/ CatchUp \/ Recent
  BY <1>0, <1>5, ProfileKept, ListKept, BehindKept, CatchUpKept, RecentKept
<1>6. CASE \E a \in Jobs : Fetch(a) \/ Store(a) \/ Link(a) \/ Labels(a)
  BY <1>0, <1>6, FetchKept, NextKept, LabelsKept
<1> QED
  BY <1>0, <1>1, <1>2, <1>3, <1>4, <1>5, <1>6 DEF Next

LEMMA SkipInit == Init => SkipInv
BY DEF Init, SkipInv, LabelsOK, FollowOK, NothingSkipped, Listing, Idle, NoJob, Jobs

\* The position of Gmail's history is saved only when all up to it is in the
\* mailbox (syncHistory): what arrived since following began, and is not gone
\* again, is linked, unless a catch-up over more than a page left it out.
THEOREM NothingSkippedAlways == Spec => []NothingSkipped
<1>1. Init => Typed /\ SkipInv
  BY InitTyped, SkipInit
<1>2. Typed /\ SkipInv /\ [Next]_vars => Typed' /\ SkipInv'
  BY TypeStep, KeptStep
<1>3. SkipInv => NothingSkipped
  BY DEF SkipInv
<1> QED
  BY <1>1, <1>2, <1>3, PTL DEF Spec

-----------------------------------------------------------------------------
(* How far the two sides are in step *)

Catching == {"recent", "catchup"}

\* Where a change of this kind leaves a message at Gmail.
Leaves(kind) == CASE kind = "trash" -> "trash" [] kind = "del" -> "gone" [] OTHER -> "in"

\* Gmail has each message where the last entry about it says; what is done to a
\* message comes after its arrival.
LogOK ==
    /\ \A i \in 1..Len(glog) :
         /\ gmail[glog[i].g] # "absent"
         /\ \/ gmail[glog[i].g] = Leaves(glog[i].kind)
            \/ \E j \in i + 1..Len(glog) : glog[j].g = glog[i].g /\ glog[j].kind # "add"
    /\ \A g \in Msgs : box[g] # "none" => gmail[g] # "absent"

\* The position in the history up to which the mailbox has what was done at Gmail:
\* the saved one, or the one the tick has come to.
Spot(t, h, n) ==
    IF h = None THEN n
    ELSE IF t.pc \in Listing THEN t.at
    ELSE IF t.pc \in Catching THEN t.latest
    ELSE h
Pos == Spot(tick, hist, Len(glog))

PosOK ==
    /\ hist # None => hist <= Pos
    /\ conn = "none" => hist = None
    /\ conn = "live" /\ hist = None => renewDue

\* What a tick goes on to list after the account was disconnected is left out of
\* account.
PassedOK ==
    hist = None /\ tick.pc \in Listing =>
        \A i \in tick.at + 1..Len(glog) : glog[i].kind # "add" => glog[i].g \in apart

\* A message is as at Gmail; or Gmail's history will tell; or Gmail will be told;
\* or it is about to get its labels.
Level(g) == trashed[g] <=> gmail[g] # "in"
Ahead(g) == \E i \in Pos + 1..Len(glog) : glog[i].g = g /\ glog[i].kind # "add"
Asked(g) == \E r \in outbox : r.g = g /\ (r.op = "trash" <=> trashed[g])
Labelling(g) == \E a \in Jobs : job[a].step = "labels" /\ job[a].g = g
Settled(g) == Level(g) \/ Ahead(g) \/ Asked(g) \/ Labelling(g)
Agree == \A g \in Linked \ apart : Settled(g)

\* The labels a job has are Gmail's, but for what the history will tell.
Taken(a) == job[a].step \in {"store", "link", "labels"}
Apt(a) ==
    \/ job[a].g \in apart
    \/ job[a].trashed <=> gmail[job[a].g] # "in"
    \/ (a = "sync" /\ Ahead(job[a].g))
TakenOK == \A a \in Jobs : Taken(a) => gmail[job[a].g] # "absent" /\ Apt(a)

\* A change waits once; the tick sends only what waits, or what was given up
\* meanwhile; and no change waits for what the import queue is bringing in.
Held == IF tick.pc = "drain" THEN tick.todo ELSE {}
Single(S) == \A r, q \in S : r.seq = q.seq => r = q
RowsOK ==
    /\ Single(outbox) /\ Single(Held)
    /\ \A r \in outbox \cup Held :
         /\ r.g \in Linked /\ r.seq <= changes
         /\ job["import"].step # "none" /\ r.g = job["import"].g => r.g \in apart
    /\ \A r \in Held :
         /\ \A q \in outbox : q.seq = r.seq => q.g = r.g /\ q.op = r.op
         /\ r.g \in apart \/ (hist # None /\ \E q \in outbox : q.seq = r.seq)

AgreeInv == LogOK /\ PosOK /\ PassedOK /\ Agree /\ TakenOK /\ RowsOK

\* The position passes only arrivals, and entries about the messages of S and those
\* left out of account.
Forward(S) == \A i \in Pos + 1..Pos' : glog'[i].kind = "add" \/ glog'[i].g \in apart' \cup S
Placed(S) == PosOK' /\ PassedOK' /\ Forward(S)

LEMMA SpotTyped ==
    ASSUME NEW t \in Tick, NEW n \in Nat, t.at <= n, t.latest <= n, NEW h \in {None} \cup 0..n
    PROVE  Spot(t, h, n) \in 0..n
BY DEF Spot, Tick, None

LEMMA PosTyped == ASSUME Typed PROVE Pos \in 0..Len(glog) /\ Len(glog) \in Nat
<1>1. /\ tick \in Tick /\ Len(glog) \in Nat /\ tick.at <= Len(glog) /\ tick.latest <= Len(glog)
      /\ hist \in {None} \cup 0..Len(glog)
  BY DEF Typed, LogTyped, StateTyped, RunTyped
<1> QED
  BY <1>1, SpotTyped DEF Pos

LEMMA PosAfter == ASSUME Typed' PROVE Pos' \in 0..Len(glog') /\ Len(glog') \in Nat
<1>1. /\ tick' \in Tick /\ Len(glog') \in Nat /\ tick'.at <= Len(glog') /\ tick'.latest <= Len(glog')
      /\ hist' \in {None} \cup 0..Len(glog')
  BY DEF Typed, LogTyped, StateTyped, RunTyped
<1> QED
  BY <1>1, SpotTyped DEF Pos

\* What the history will tell it still will, unless it is passed.
LEMMA AheadStill ==
    ASSUME Typed, Typed', Grows, NEW S, Forward(S), NEW g \in Msgs, g \notin apart', g \notin S, Ahead(g)
    PROVE  Ahead(g)'
<1>1. PICK i \in Pos + 1..Len(glog) : glog[i].g = g /\ glog[i].kind # "add"
  BY DEF Ahead
<1>2. Pos \in 0..Len(glog) /\ Len(glog) \in Nat
  BY PosTyped
<1>3. Pos' \in 0..Len(glog') /\ Len(glog') \in Nat
  BY PosAfter
<1>4. glog'[i] = glog[i] /\ i \in Nat /\ i <= Len(glog')
  BY <1>1, <1>2, <1>3 DEF Grows
<1>5. PICK n \in Nat, k \in Nat, j \in Nat : n = Len(glog') /\ k = Pos' /\ j = i
  BY <1>3, <1>4
<1>6. ~ (j <= k)
  <2> SUFFICES ASSUME j <= k PROVE FALSE
    OBVIOUS
  <2>1. i \in Pos + 1..Pos'
    BY <1>2, <1>5
  <2> QED
    BY <1>1, <1>4, <2>1 DEF Forward
<1>7. j <= n
  BY <1>4, <1>5
<1>8. j \in k + 1..n
  BY <1>6, <1>7
<1>9. glog'[j].g = g /\ glog'[j].kind # "add"
  BY <1>1, <1>4, <1>5
<1> QED
  BY <1>5, <1>8, <1>9 DEF Ahead

-----------------------------------------------------------------------------
(* What each step passes *)

\* A tick that ends, or a step that leaves tick and position alone, passes nothing.
LEMMA Behind ==
    ASSUME Typed, Pos' <= Pos, Pos' \in Int PROVE Forward({})
BY PosTyped DEF Forward

LEMMA StandsPlaced ==
    ASSUME Typed, PosOK, PassedOK, UNCHANGED <<glog, hist, tick>>, apart \subseteq apart',
           conn' = conn \/ (conn' # "none" /\ (hist # None \/ renewDue')),
           renewDue => renewDue' \/ hist # None \/ conn' # "live"
    PROVE  Placed({})
<1>1. Pos' = Pos /\ Pos \in Int
  BY PosTyped DEF Pos
<1>2. PosOK'
  BY <1>1 DEF PosOK
<1>3. PassedOK'
  BY DEF PassedOK
<1> QED
  BY <1>1, <1>2, <1>3, Behind DEF Placed

LEMMA EndsPlaced ==
    ASSUME Typed, PosOK, UNCHANGED <<glog, hist, renewDue>>, tick' = Idle,
           conn' = conn \/ (conn = "live" /\ conn' = "reconnect")
    PROVE  Placed({})
<1>1. Pos' = IF hist = None THEN Len(glog) ELSE hist
  BY DEF Pos, Spot, Idle, Listing, Catching
<1>2. Pos' <= Pos /\ Pos' \in Int /\ (hist # None => hist <= Pos')
  BY <1>1, PosTyped DEF PosOK, Pos, Spot, Typed, StateTyped
<1>3. PosOK'
  BY <1>2 DEF PosOK
<1>4. PassedOK'
  BY DEF PassedOK, Idle, Listing
<1> QED
  BY <1>2, <1>3, <1>4, Behind DEF Placed

\* The position that is saved is where the tick has come to.
LEMMA SyncedPlaces ==
    ASSUME Typed, PosOK, NEW h \in 0..Len(glog), Synced(h), glog' = glog
    PROVE  /\ PosOK' /\ PassedOK' /\ (Pos' = h \/ (hist = None /\ Pos' = Pos)) /\ Pos' \in Int
<1>1. tick' = Idle /\ conn' = conn /\ renewDue' = renewDue
  BY DEF Synced, Finish, End
<1>2. PassedOK'
  BY <1>1 DEF PassedOK, Idle, Listing
<1>3. CASE conn = "none"
  <2>1. hist = None /\ hist' = None
    BY <1>3 DEF Synced, SetHist, PosOK
  <2>2. Pos' = Len(glog) /\ Pos = Len(glog)
    BY <2>1 DEF Pos, Spot
  <2> QED
    BY <1>1, <1>2, <2>1, <2>2, PosTyped DEF PosOK
<1>4. CASE conn # "none"
  <2>1. hist' = h /\ h # None
    BY <1>4 DEF Synced, SetHist, None
  <2>2. Pos' = h
    BY <1>1, <2>1 DEF Pos, Spot, Idle, Listing, Catching
  <2> QED
    BY <1>1, <1>2, <1>4, <2>1, <2>2 DEF PosOK
<1> QED
  BY <1>3, <1>4

\* A tick that sends changes, or begins to list, is at the saved position.
LEMMA AfterDrainPlaces ==
    ASSUME NEW t \in Tick, NEW rows, NEW h \in {None} \cup Nat, NEW poll, NEW w,
           AfterDrain(t, rows, h, poll, w), hist' = h
    PROVE  /\ Pos' = IF h = None THEN Len(glog') ELSE h
           /\ PassedOK' /\ conn' = conn /\ Held' = {}
<1>1. CASE End
  <2>1. conn' = conn
    BY <1>1 DEF AfterDrain, Fail, Finish, Ask
  <2> QED
    BY <1>1, <2>1 DEF End, Idle, Pos, Spot, PassedOK, Held, Listing, Catching
<1>2. CASE ~ End
  <2> DEFINE u == [t EXCEPT !.pc = IF h = None THEN "profile" ELSE "list",
                            !.at = IF h = None THEN 0 ELSE h]
  <2>1. Ask(u, w)
    BY <1>2 DEF AfterDrain, Fail, Finish
  <2>2. /\ (IF h = None THEN "profile" ELSE "list") \in {"profile", "list"}
        /\ (IF h = None THEN 0 ELSE h) \in Nat
    BY DEF None
  <2>3. u \in Tick /\ u.pc = (IF h = None THEN "profile" ELSE "list") /\ (h # None => u.at = h)
    BY <2>2 DEF Tick
  <2> HIDE DEF u
  <2>4. tick'.pc = u.pc /\ tick'.at = u.at /\ conn' = conn
    BY <2>1, <2>3 DEF Ask, Tick
  <2> QED
    BY <2>3, <2>4 DEF Pos, Spot, PassedOK, Held, Listing, Catching
<1> QED
  BY <1>1, <1>2

LEMMA DrainPlaces ==
    ASSUME Typed, NEW t \in Tick, NEW h \in {None} \cup Nat, NEW poll, NEW w, Drain(t, h, poll, w), hist' = h
    PROVE  /\ Pos' = IF h = None THEN Len(glog') ELSE h
           /\ PassedOK' /\ conn' = conn /\ (Held' = {} \/ Held' = {r \in outbox : r.due})
<1> DEFINE due == {r \in outbox : r.due}
           u == [t EXCEPT !.pc = "drain", !.todo = due]
<1>1. CASE due = {}
  BY <1>1, AfterDrainPlaces DEF Drain
<1>2. CASE due # {}
  <2>1. Ask(u, w)
    BY <1>2 DEF Drain
  <2>2. due \in SUBSET Row
    BY DEF Typed, MailTyped
  <2>3. PICK d : d = due
    OBVIOUS
  <2> HIDE DEF due
  <2>4. u \in Tick /\ u.pc = "drain" /\ u.todo = due
    BY <2>2 DEF Tick
  <2> HIDE DEF u
  <2>5. tick'.pc = "drain" /\ tick'.todo = due /\ conn' = conn
    BY <2>1, <2>4 DEF Ask, Tick
  <2> QED
    BY <2>5 DEF Pos, Spot, PassedOK, Held, Listing, Catching, due
<1> QED
  BY <1>1, <1>2

\* Something is done to a message at Gmail.
Moved(g, kind) ==
    /\ glog' = Append(glog, [kind |-> kind, g |-> g])
    /\ gmail' = [gmail EXCEPT ![g] = Leaves(kind)]
    /\ kind = "add" <=> gmail[g] = "absent"
Kinds == {"add", "trash", "untrash", "del"}

LEMMA MovedLog ==
    ASSUME Typed, NEW g \in Msgs, NEW kind \in Kinds, Moved(g, kind)
    PROVE  /\ Len(glog') = Len(glog) + 1 /\ Len(glog) \in Nat
           /\ glog'[Len(glog) + 1] = [kind |-> kind, g |-> g]
           /\ \A i \in 1..Len(glog) : glog'[i] = glog[i] /\ glog[i].g \in Msgs
           /\ gmail'[g] = Leaves(kind) /\ \A m \in Msgs \ {g} : gmail'[m] = gmail[m]
           /\ gmail'[g] # "absent"
<1>1. glog \in Seq(Entry) /\ [kind |-> kind, g |-> g] \in Entry /\ gmail \in [Msgs -> {"absent", "in", "trash", "gone"}]
  BY DEF Typed, LogTyped, Entry, Kinds
<1>2. Leaves(kind) # "absent"
  BY DEF Leaves
<1>3. \A i \in 1..Len(glog) : glog[i].g \in Msgs
  BY Entries
<1> QED
  BY <1>1, <1>2, <1>3 DEF Moved

LEMMA AtGmailMoves ==
    ASSUME Typed, AtGmail
    PROVE  \E g \in Msgs, kind \in Kinds :
             /\ Moved(g, kind)
             /\ kind # "add" /\ (hist = None \/ g = job["import"].g) => g \in apart'
<1>1. PICK g \in Msgs : Arrive(g) \/ Relabel(g)
  BY DEF AtGmail
<1>2. CASE Arrive(g)
  <2>1. Moved(g, "add")
    BY <1>2 DEF Arrive, Moved, Leaves
  <2> QED
    BY <2>1 DEF Kinds
<1>3. CASE Relabel(g)
  <2>1. PICK to \in {"in", "trash", "gone"} \ {gmail[g]} :
          /\ g \in Here
          /\ gmail' = [gmail EXCEPT ![g] = to]
          /\ glog' = Append(glog, [g |-> g,
                 kind |-> CASE to = "trash" -> "trash" [] to = "in" -> "untrash" [] OTHER -> "del"])
          /\ Apart(IF hist = None THEN {g} ELSE Overlap(g))
    BY <1>3, Zenon DEF Relabel
  <2> DEFINE kind == CASE to = "trash" -> "trash" [] to = "in" -> "untrash" [] OTHER -> "del"
  <2>2. kind \in Kinds /\ kind # "add" /\ Leaves(kind) = to
    BY DEF Kinds, Leaves
  <2>3. gmail[g] # "absent"
    BY <2>1 DEF Here
  <2>4. [g |-> g, kind |-> kind] = [kind |-> kind, g |-> g]
    OBVIOUS
  <2>5. Moved(g, kind)
    BY <2>1, <2>2, <2>3, <2>4 DEF Moved
  <2>6. hist = None \/ g = job["import"].g => g \in apart'
    BY <2>1 DEF Apart, Overlap
  <2> HIDE DEF kind
  <2> QED
    BY <2>2, <2>5, <2>6
<1> QED
  BY <1>1, <1>2, <1>3

LEMMA AtGmailPlaced == ASSUME Typed, PosOK, PassedOK, AtGmail PROVE Placed({})
<1>1. PICK g \in Msgs, kind \in Kinds :
        Moved(g, kind) /\ (kind # "add" /\ (hist = None \/ g = job["import"].g) => g \in apart')
  BY AtGmailMoves
<1>2. UNCHANGED <<tick, hist, conn, renewDue>>
  BY DEF AtGmail, state
<1>3. apart \subseteq apart'
  BY DEF AtGmail, Arrive, Relabel, Apart
<1>4. /\ Len(glog') = Len(glog) + 1 /\ Len(glog) \in Nat /\ glog'[Len(glog) + 1] = [kind |-> kind, g |-> g]
      /\ \A i \in 1..Len(glog) : glog'[i] = glog[i]
  BY <1>1, MovedLog
<1>5. CASE hist # None
  <2>1. Pos' = Pos
    BY <1>2, <1>5 DEF Pos, Spot
  <2> QED
    BY <1>2, <1>5, <2>1, PosTyped, Behind DEF Placed, PosOK, PassedOK
<1>6. CASE hist = None
  <2>1. Pos = Len(glog) /\ Pos' = Len(glog) + 1
    BY <1>2, <1>4, <1>6 DEF Pos, Spot
  <2>2. kind = "add" \/ g \in apart'
    BY <1>1, <1>6
  <2>3. Forward({})
    <3>1. \A i \in Len(glog) + 1..Len(glog) + 1 : i = Len(glog) + 1
      BY <1>4
    <3> QED
      BY <1>4, <2>1, <2>2, <3>1 DEF Forward
  <2>4. PassedOK'
    <3> SUFFICES ASSUME tick.pc \in Listing, NEW i \in tick.at + 1..Len(glog) + 1, glog'[i].kind # "add"
                 PROVE  glog'[i].g \in apart'
      BY <1>2, <1>4 DEF PassedOK
    <3>1. tick.at \in Nat
      BY DEF Typed, RunTyped, Tick
    <3>2. CASE i = Len(glog) + 1
      BY <1>4, <2>2, <3>2
    <3>3. CASE i # Len(glog) + 1
      BY <1>3, <1>4, <1>6, <3>1, <3>3 DEF PassedOK
    <3> QED
      BY <3>2, <3>3
  <2> QED
    BY <1>2, <1>6, <2>3, <2>4 DEF Placed, PosOK
<1> QED
  BY <1>5, <1>6

\* All that was to be followed and sent is left out of account.
LEMMA DisconnectPlaced == ASSUME Typed, PosOK, PassedOK, DisconnectGmail PROVE Placed({})
<1>1. UNCHANGED <<glog, tick>>
  BY DEF DisconnectGmail, google
<1>2. CASE UNCHANGED <<state, outbox, apart>>
  BY <1>1, <1>2, StandsPlaced DEF state
<1>3. CASE /\ conn' = "none" /\ hist' = None /\ renewDue' = FALSE
           /\ Apart({r.g : r \in outbox} \cup {glog[i].g : i \in (hist + 1..Len(glog)) \ {0}})
  <2>1. Pos \in 0..Len(glog) /\ Len(glog) \in Nat /\ hist \in {None} \cup 0..Len(glog)
    BY PosTyped DEF Typed, StateTyped
  <2>2. \A i \in 1..Len(glog) : hist = None \/ hist + 1 <= i => glog[i].g \in apart'
    <3> SUFFICES ASSUME NEW i \in 1..Len(glog), hist = None \/ hist + 1 <= i PROVE glog[i].g \in apart'
      OBVIOUS
    <3>1. i \in (hist + 1..Len(glog)) \ {0}
      BY <2>1 DEF None
    <3> QED
      BY <1>3, <3>1 DEF Apart
  <2>3. Pos' = Len(glog)
    BY <1>1, <1>3 DEF Pos, Spot
  <2>4. Forward({})
    <3> SUFFICES ASSUME NEW i \in Pos + 1..Len(glog) PROVE glog'[i].g \in apart'
      BY <1>1, <2>3 DEF Forward
    <3> QED
      BY <1>1, <2>1, <2>2 DEF PosOK, None
  <2>5. PassedOK'
    <3> SUFFICES ASSUME tick.pc \in Listing, NEW i \in tick.at + 1..Len(glog) PROVE glog[i].g \in apart'
      BY <1>1 DEF PassedOK
    <3>1. tick.at \in Nat
      BY DEF Typed, RunTyped, Tick
    <3>2. hist # None => hist <= tick.at
      BY DEF PosOK, Pos, Spot
    <3> QED
      BY <2>1, <2>2, <3>1, <3>2 DEF None
  <2> QED
    BY <1>3, <2>4, <2>5 DEF Placed, PosOK
<1> QED
  BY <1>2, <1>3 DEF DisconnectGmail

LEMMA AlarmPlaced == ASSUME Typed, PosOK, PassedOK, AlarmFires PROVE Placed({})
<1>0. /\ UNCHANGED <<hist, renewDue, glog, apart>> /\ hist \in {None} \cup Nat /\ tick.pc = "idle"
      /\ Len(glog) \in Nat
  <2>1. UNCHANGED <<google, history>> /\ tick.pc = "idle"
    BY DEF AlarmFires
  <2>2. UNCHANGED <<hist, renewDue>>
    BY DEF AlarmFires, state
  <2> QED
    BY <2>1, <2>2 DEF Typed, StateTyped, LogTyped, google, history
<1>1. CASE conn # "live"
  BY <1>0, <1>1, StandsPlaced DEF AlarmFires, state
<1>2. CASE conn = "live"
  <2> DEFINE t == [Idle EXCEPT !.gen = connects]
             u == [t EXCEPT !.pc = "renew"]
  <2>1. \E poll \in BOOLEAN : Ask(u, Never) \/ Drain(t, hist, poll, Never)
    BY <1>2 DEF AlarmFires, Typed, StateTyped
  <2>2. t \in Tick
    <3>1. Idle \in Tick /\ connects \in 0..MaxConnects
      BY BoundsAssumption DEF Tick, Idle, Typed, MailTyped
    <3> QED
      BY <3>1 DEF Tick
  <2> HIDE DEF t
  <2>3. u \in Tick /\ u.pc = "renew"
    BY <2>2 DEF Tick
  <2> HIDE DEF u
  <2>4. Pos = IF hist = None THEN Len(glog) ELSE hist
    BY <1>0 DEF Pos, Spot, Listing, Catching
  <2>5. Pos' = Pos /\ PassedOK' /\ conn' = conn
    <3>1. CASE Ask(u, Never)
      <4>1. tick'.pc = "renew" /\ conn' = conn
        BY <2>3, <3>1 DEF Ask, Tick
      <4> QED
        BY <1>0, <2>4, <4>1 DEF Pos, Spot, PassedOK, Listing, Catching
    <3>2. ASSUME NEW poll, Drain(t, hist, poll, Never) PROVE Pos' = Pos /\ PassedOK' /\ conn' = conn
      <4>1. PICK h : h = hist
        OBVIOUS
      <4>2. Drain(t, h, poll, Never) /\ hist' = h /\ h \in {None} \cup Nat
        BY <1>0, <3>2, <4>1
      <4> QED
        BY <1>0, <2>2, <2>4, <4>1, <4>2, DrainPlaces
    <3> QED
      BY <2>1, <3>1, <3>2
  <2> QED
    BY <1>0, <2>4, <2>5, PosTyped, Behind DEF Placed, PosOK
<1> QED
  BY <1>1, <1>2

LEMMA RenewPlaced == ASSUME Typed, PosOK, PassedOK, RenewWatch PROVE Placed({})
<1>0. PICK h : h = IF hist = None THEN Len(glog) ELSE hist
  OBVIOUS
<1>1. glog' = glog /\ tick \in Tick /\ h \in Nat /\ h # None /\ Pos = h
  BY <1>0 DEF RenewWatch, google, Typed, LogTyped, StateTyped, RunTyped, Pos, Spot, Listing, Catching, None
<1>2. CASE conn = "none"
  BY <1>1, <1>2, EndsPlaced DEF RenewWatch, Fail, End
<1>3. CASE conn # "none"
  <2>1. Drain(tick, h, pollDue, wake) /\ hist' = h
    BY <1>0, <1>3 DEF RenewWatch, SetHist
  <2>2. Pos' = h /\ PassedOK' /\ conn' = conn
    BY <1>1, <2>1, DrainPlaces
  <2> QED
    BY <1>1, <1>3, <2>1, <2>2, Behind DEF Placed, PosOK
<1> QED
  BY <1>2, <1>3

\* A change that reaches Gmail changes nothing there, or is an entry of its own.
LEMMA ApplyMoves ==
    ASSUME Typed, LogOK, NEW r \in Row, r.g \in Linked, Apply(r)
    PROVE  UNCHANGED <<glog, gmail>> \/ (r.op \in Kinds \ {"add"} /\ Moved(r.g, r.op))
<1> DEFINE to == IF r.op = "trash" THEN "trash" ELSE "in"
<1>1. CASE gmail[r.g] = to
  BY <1>1 DEF Apply
<1>2. CASE gmail[r.g] # to
  <2>1. gmail' = [gmail EXCEPT ![r.g] = to] /\ glog' = Append(glog, [kind |-> r.op, g |-> r.g])
    BY <1>2 DEF Apply
  <2>2. r.op \in {"trash", "untrash"} /\ r.g \in Msgs
    BY DEF Row
  <2>3. gmail[r.g] # "absent"
    BY <2>2 DEF LogOK, Linked
  <2>4. Leaves(r.op) = to
    BY <2>2 DEF Leaves
  <2> QED
    BY <2>1, <2>2, <2>3, <2>4 DEF Moved, Kinds
<1> QED
  BY <1>1, <1>2

\* What the tick does on with its changes leaves the position where it was.
LEMMA SentOnPlaces ==
    ASSUME Typed, tick.pc = "drain", NEW r, NEW rows, SentOn(r, rows)
    PROVE  /\ Pos' = IF hist = None THEN Len(glog') ELSE hist
           /\ PassedOK' /\ conn' = conn /\ (Held' = {} \/ Held' = tick.todo \ {r})
           /\ hist' = hist /\ renewDue' = renewDue
<1> DEFINE rest == tick.todo \ {r}
           u == [tick EXCEPT !.todo = rest]
<1>0. PICK h : h = hist
  OBVIOUS
<1>1. tick \in Tick /\ h \in {None} \cup Nat
  BY <1>0 DEF Typed, RunTyped, StateTyped
<1>2. u \in Tick /\ u.pc = "drain" /\ u.todo = rest
  BY <1>1 DEF Tick
<1>3. hist' = h /\ renewDue' = renewDue
  BY <1>0 DEF SentOn
<1>4. AfterDrain(u, rows, h, pollDue, wake) \/ Ask(u, wake)
  BY <1>0 DEF SentOn
<1> HIDE DEF u
<1>5. CASE Ask(u, wake)
  <2>1. tick'.pc = "drain" /\ tick'.todo = rest /\ conn' = conn
    BY <1>2, <1>5 DEF Ask, Tick
  <2> QED
    BY <1>0, <1>3, <2>1 DEF Pos, Spot, PassedOK, Held, Listing, Catching
<1>6. CASE AfterDrain(u, rows, h, pollDue, wake)
  BY <1>0, <1>1, <1>2, <1>3, <1>6, AfterDrainPlaces
<1> QED
  BY <1>4, <1>5, <1>6

LEMMA SendPlaced == ASSUME Typed, LogOK, PosOK, PassedOK, RowsOK, SendChange PROVE Placed({})
<1>1. PICK r \in tick.todo : Sends(r)
  BY SendsOne
<1>a. tick.pc = "drain" /\ Len(glog) \in Nat /\ tick.todo \subseteq Row
  BY <1>1 DEF Sends, Typed, RunTyped, LogTyped, Tick
<1>b. r \in Row /\ r \in Held /\ r.g \in Msgs
  BY <1>1, <1>a DEF Held, Row
<1>c. r.g \in Linked
  BY <1>b DEF RowsOK
<1>2. /\ tick.pc = "drain" /\ r \in Row /\ r \in Held /\ r.g \in Linked /\ r.g \in Msgs
      /\ apart \subseteq apart' /\ Len(glog) \in Nat
  BY <1>1, <1>a, <1>b, <1>c DEF Sends, Apart
<1>3. Pos = IF hist = None THEN Len(glog) ELSE hist
  BY <1>2 DEF Pos, Spot, Listing, Catching
<1>4. CASE Fail(TRUE) /\ UNCHANGED <<glog, hist, renewDue>>
  BY <1>4, EndsPlaced DEF Fail, End
<1>5. ASSUME NEW rows, SentOn(r, rows) PROVE Placed({})
  <2>1. /\ Pos' = IF hist = None THEN Len(glog') ELSE hist
        /\ PassedOK' /\ conn' = conn /\ hist' = hist /\ renewDue' = renewDue
    BY <1>2, <1>5, SentOnPlaces
  <2>2. PosOK'
    BY <2>1, <1>3 DEF PosOK
  <2>3. CASE hist # None \/ glog' = glog
    BY <1>3, <2>1, <2>2, <2>3, PosTyped, Behind DEF Placed
  <2>4. CASE hist = None /\ Moved(r.g, r.op) /\ r.op \in Kinds
    <3>1. r.g \in apart'
      BY <1>2, <2>4 DEF RowsOK
    <3>a. PICK g \in Msgs, kind \in Kinds : g = r.g /\ kind = r.op
      BY <1>2, <2>4
    <3>b. Moved(g, kind)
      BY <2>4, <3>a
    <3>c. Len(glog') = Len(glog) + 1 /\ glog'[Len(glog) + 1] = [kind |-> kind, g |-> g]
      BY <3>b, MovedLog
    <3>2. Len(glog') = Len(glog) + 1 /\ glog'[Len(glog) + 1].g = r.g
      BY <3>a, <3>c
    <3>3. \A i \in Pos + 1..Pos' : i = Len(glog) + 1
      BY <1>2, <1>3, <2>1, <2>4, <3>2
    <3> QED
      BY <2>1, <2>2, <3>1, <3>2, <3>3 DEF Placed, Forward
  <2>5. glog' = glog \/ (Moved(r.g, r.op) /\ r.op \in Kinds)
    BY <1>1, <1>2, ApplyMoves DEF Sends
  <2> QED
    BY <2>3, <2>4, <2>5
<1> QED
  BY <1>1, <1>4, <1>5 DEF Sends

\* The history is followed by an entry at a time.
Passing == IF tick.at < Len(glog) /\ glog[tick.at + 1].kind # "add" THEN {glog[tick.at + 1].g} ELSE {}

LEMMA OneFurther ==
    ASSUME Typed, glog' = glog, tick.pc \in {"list", "bring"}, NEW n \in Int, n <= tick.at + 1,
           tick.at < Len(glog), NEW S, glog[tick.at + 1].kind = "add" \/ glog[tick.at + 1].g \in S,
           Pos' = n \/ Pos' = Pos
    PROVE  Forward(S)
<1>1. tick.at \in Nat /\ Len(glog) \in Nat /\ Pos \in 0..Len(glog) /\ (hist # None => Pos = tick.at)
      /\ (hist = None => Pos = Len(glog))
  BY PosTyped DEF Typed, RunTyped, Tick, LogTyped, Pos, Spot, Listing
<1>2. \A i \in Pos + 1..Pos' : i = tick.at + 1
  BY <1>1
<1> QED
  BY <1>2 DEF Forward

LEMMA OnwardPlaces ==
    ASSUME Typed, PosOK, PassedOK, UNCHANGED <<glog, conn, hist, renewDue>>, apart \subseteq apart',
           tick.pc \in Listing, tick'.pc \in Listing, tick'.at \in {tick.at, tick.at + 1}
    PROVE  PosOK' /\ PassedOK' /\ Pos' = IF hist = None THEN Pos ELSE tick'.at
<1>1. tick.at \in Nat /\ Len(glog) \in Nat
  BY DEF Typed, RunTyped, Tick, LogTyped
<1>2. Pos' = IF hist = None THEN Pos ELSE tick'.at
  BY DEF Pos, Spot
<1>3. hist # None => Pos = tick.at /\ hist \in Nat
  BY DEF Pos, Spot, Typed, StateTyped
<1>4. PosOK'
  BY <1>1, <1>2, <1>3 DEF PosOK
<1>5. PassedOK'
  BY <1>1 DEF PassedOK
<1> QED
  BY <1>2, <1>4, <1>5

LEMMA ListPlaced == ASSUME Typed, PosOK, PassedOK, ListHistory PROVE Placed(Passing)
<1>0. /\ tick \in Tick /\ tick.at \in 0..Len(glog) /\ Len(glog) \in Nat /\ tick.pc = "list"
      /\ glog' = glog /\ apart' = apart /\ tick.pc \in Listing
  BY DEF ListHistory, Typed, RunTyped, Tick, LogTyped, google, Listing
<1> PICK n \in Nat : n = Len(glog)
  BY <1>0
<1> PICK k \in 0..n : k = tick.at
  BY <1>0
<1>1. CASE k = n
  <2>1. Synced(n) /\ n \in 0..Len(glog)
    BY <1>1 DEF ListHistory
  <2>2. PosOK' /\ PassedOK' /\ (Pos' = n \/ Pos' = Pos) /\ Pos' \in Int
    BY <1>0, <2>1, SyncedPlaces
  <2>3. Pos = n
    BY <1>0, <1>1 DEF Pos, Spot
  <2>4. Forward(Passing)
    BY <2>2, <2>3 DEF Forward
  <2> QED
    BY <2>2, <2>4 DEF Placed
<1>2. CASE k # n /\ glog[k + 1].kind = "add"
  <2>1. /\ tick' = [tick EXCEPT !.pc = "bring", !.latest = Len(glog), !.saw = grant]
        /\ UNCHANGED <<conn, hist, renewDue>>
    BY <1>2 DEF ListHistory, state
  <2>2. tick'.pc \in Listing /\ tick'.at = tick.at
    BY <1>0, <2>1 DEF Tick, Listing
  <2>3. PosOK' /\ PassedOK' /\ Pos' = IF hist = None THEN Pos ELSE tick.at
    BY <1>0, <2>1, <2>2, OnwardPlaces
  <2>4. Pos' = Pos
    BY <1>0, <2>3 DEF Pos, Spot
  <2> QED
    BY <2>3, <2>4, PosTyped DEF Placed, Forward
<1>3. CASE k # n /\ glog[k + 1].kind # "add"
  <2>0. k < n /\ Passing = {glog[tick.at + 1].g} /\ tick.at < Len(glog)
    BY <1>3 DEF Passing
  <2>1. CASE k + 1 < n
    <3>1. /\ Ask([tick EXCEPT !.at = @ + 1, !.latest = Len(glog)], wake)
          /\ UNCHANGED <<hist, renewDue>>
      BY <1>3, <2>1 DEF ListHistory
    <3>2. tick'.pc \in Listing /\ tick'.at = tick.at + 1 /\ conn' = conn
      BY <1>0, <3>1 DEF Ask, Tick, Listing
    <3>3. PosOK' /\ PassedOK' /\ Pos' = IF hist = None THEN Pos ELSE tick.at + 1
      BY <1>0, <3>1, <3>2, OnwardPlaces
    <3> QED
      BY <1>0, <2>0, <3>3, OneFurther DEF Placed
  <2>2. CASE ~ (k + 1 < n)
    <3>1. Synced(n) /\ n \in 0..Len(glog) /\ n <= tick.at + 1
      BY <1>3, <2>0, <2>2 DEF ListHistory
    <3>2. PosOK' /\ PassedOK' /\ (Pos' = n \/ Pos' = Pos)
      BY <1>0, <3>1, SyncedPlaces
    <3> QED
      BY <1>0, <2>0, <3>1, <3>2, OneFurther DEF Placed
  <2> QED
    BY <2>1, <2>2
<1> QED
  BY <1>1, <1>2, <1>3

\* With no position, a tick takes the one that Gmail is at.
LEMMA ProfilePlaced == ASSUME Typed, PosOK, FollowOK, Profile PROVE Placed({})
<1> PICK n \in Nat : n = Len(glog)
  BY PosTyped
<1>1. hist = None /\ Synced(n) /\ n \in 0..Len(glog) /\ glog' = glog /\ Pos = n
  BY DEF Profile, FollowOK, google, Pos, Spot
<1>2. PosOK' /\ PassedOK' /\ (Pos' = n \/ Pos' = Pos)
  BY <1>1, SyncedPlaces
<1> QED
  BY <1>1, <1>2, Behind DEF Placed

LEMMA BehindPlaced == ASSUME Typed, PosOK, PassedOK, TooFarBehind PROVE Placed({})
<1>1. /\ tick \in Tick /\ tick.pc = "list" /\ Ask([tick EXCEPT !.pc = "behind"], wake)
      /\ UNCHANGED <<glog, hist, renewDue, apart>>
  BY DEF TooFarBehind, google, history, Typed, RunTyped
<1>2. tick'.pc = "behind" /\ tick'.at = tick.at /\ conn' = conn
  BY <1>1 DEF Ask, Tick
<1>3. PosOK' /\ PassedOK' /\ Pos' = IF hist = None THEN Pos ELSE tick.at
  BY <1>1, <1>2, OnwardPlaces DEF Listing
<1>4. hist # None => Pos = tick.at
  BY <1>1 DEF Pos, Spot, Listing
<1> QED
  BY <1>3, <1>4, PosTyped, Behind DEF Placed

\* What a catch-up passes is left out of account.
LEMMA CatchUpPlaced == ASSUME Typed, PosOK, PassedOK, CatchUp PROVE Placed({})
<1> PICK n \in Nat : n = Len(glog)
  BY PosTyped
<1>1. /\ tick \in Tick /\ tick.pc = "behind" /\ Ask([tick EXCEPT !.pc = "recent", !.latest = n], wake)
      /\ UNCHANGED <<glog, hist, renewDue>> /\ hist \in {None} \cup 0..n
  BY DEF CatchUp, google, Typed, RunTyped, StateTyped
<1>2. tick'.pc = "recent" /\ tick'.latest = n /\ conn' = conn
  BY <1>1 DEF Ask, Tick
<1>3. Pos' = n /\ Pos = IF hist = None THEN n ELSE tick.at
  BY <1>1, <1>2 DEF Pos, Spot, Listing, Catching
<1>4. \A i \in tick.at + 1..n : glog'[i].g \in apart'
  BY <1>1 DEF CatchUp, Apart
<1>5. Forward({})
  BY <1>3, <1>4 DEF Forward
<1> QED
  BY <1>1, <1>2, <1>3, <1>5 DEF Placed, PosOK, PassedOK, Listing

\* While it brings in what is recent, the position stays.
LEMMA CatchingPlaced ==
    ASSUME Typed, PosOK, glog' = glog, tick.pc \in Catching,
           \/ Synced(tick.latest)
           \/ tick'.pc \in Catching /\ tick'.latest = tick.latest /\ UNCHANGED <<conn, hist, renewDue>>
    PROVE  Placed({})
<1>1. tick.latest \in 0..Len(glog) /\ Len(glog) \in Nat
  BY DEF Typed, RunTyped, LogTyped, Tick
<1>2. Pos = IF hist = None THEN Len(glog) ELSE tick.latest
  BY DEF Pos, Spot, Listing, Catching
<1>3. PosOK' /\ PassedOK' /\ (Pos' = tick.latest \/ Pos' = Pos)
  <2>1. CASE Synced(tick.latest)
    <3> PICK k \in 0..Len(glog) : k = tick.latest
      BY <1>1
    <3> QED
      BY <2>1, SyncedPlaces
  <2>2. CASE tick'.pc \in Catching /\ tick'.latest = tick.latest /\ UNCHANGED <<conn, hist, renewDue>>
    <3>1. Pos' = Pos
      BY <2>2 DEF Pos, Spot, Listing, Catching
    <3> QED
      BY <2>2, <3>1 DEF PosOK, PassedOK, Listing, Catching
  <2> QED
    BY <2>1, <2>2
<1> QED
  BY <1>1, <1>2, <1>3, Behind DEF Placed

LEMMA RecentPlaced == ASSUME Typed, PosOK, Recent PROVE Placed({})
<1> DEFINE all == {g \in Msgs : gmail[g] = "in"}
           page == {g \in all : Cardinality({h \in all : h > g}) < ListMax}
<1>1. tick \in Tick /\ tick.pc = "recent" /\ glog' = glog
  BY DEF Recent, Typed, RunTyped, google
<1>2. CASE page = {}
  BY <1>1, <1>2, CatchingPlaced DEF Recent, Catching
<1>3. CASE page # {}
  <2>1. /\ tick' = [tick EXCEPT !.pc = "catchup", !.ids = page, !.saw = grant]
        /\ UNCHANGED <<conn, hist, renewDue>>
    BY <1>3 DEF Recent, state
  <2> HIDE DEF page
  <2>2. tick'.pc = "catchup" /\ tick'.latest = tick.latest
    BY <1>1, <2>1 DEF Tick
  <2> QED
    BY <1>1, <2>1, <2>2, CatchingPlaced DEF Catching
<1> QED
  BY <1>2, <1>3

\* A message is done with, and its arrival is passed.
LEMMA JobPlaced ==
    ASSUME Typed, PosOK, PassedOK, FollowOK, NEW a \in Jobs, job[a].step # "none", JobDone(a),
           UNCHANGED <<glog, apart>>
    PROVE  Placed({})
<1>0. /\ tick \in Tick /\ tick.at \in 0..Len(glog) /\ tick.latest \in 0..Len(glog) /\ Len(glog) \in Nat
  BY DEF Typed, RunTyped, Tick, LogTyped
<1>1. CASE a = "import"
  <2>1. UNCHANGED <<state, tick>>
    BY <1>1 DEF JobDone
  <2> QED
    BY <2>1, StandsPlaced DEF state
<1>2. CASE a = "sync" /\ tick.pc = "bring"
  <2>1. tick.at < tick.latest /\ glog[tick.at + 1].kind = "add"
    BY <1>2 DEF FollowOK
  <2>2. CASE tick.at + 1 < tick.latest
    <3>1. /\ tick' = [tick EXCEPT !.pc = "list", !.at = @ + 1, !.saw = grant]
          /\ UNCHANGED <<conn, hist, renewDue>>
      BY <1>2, <2>2 DEF JobDone, state
    <3>2. tick'.pc = "list" /\ tick'.at = tick.at + 1
      BY <1>0, <3>1 DEF Tick
    <3>3. PosOK' /\ PassedOK' /\ Pos' = IF hist = None THEN Pos ELSE tick.at + 1
      BY <1>2, <3>1, <3>2, OnwardPlaces DEF Listing
    <3> PICK n \in Nat : n = tick.at + 1
      BY <1>0
    <3>4. (Pos' = n \/ Pos' = Pos) /\ tick.at < Len(glog)
      BY <1>0, <2>1, <3>3
    <3>5. Forward({})
      BY <1>0, <1>2, <2>1, <3>4, OneFurther
    <3> QED
      BY <3>3, <3>5 DEF Placed
  <2>3. CASE ~ (tick.at + 1 < tick.latest)
    <3> PICK k \in 0..Len(glog) : k = tick.latest
      BY <1>0
    <3>1. Synced(k) /\ k <= tick.at + 1
      BY <1>0, <1>2, <2>3 DEF JobDone
    <3>2. PosOK' /\ PassedOK' /\ (Pos' = k \/ Pos' = Pos)
      BY <3>1, SyncedPlaces
    <3>3. Forward({})
      BY <1>0, <1>2, <2>1, <3>1, <3>2, OneFurther
    <3> QED
      BY <3>2, <3>3 DEF Placed
  <2> QED
    BY <2>2, <2>3
<1>3. CASE a = "sync" /\ tick.pc # "bring"
  <2> DEFINE rest == tick.ids \ {job[a].g}
  <2>1. tick.pc = "catchup"
    BY <1>3 DEF Typed, RunTyped
  <2>2. CASE rest = {}
    BY <1>3, <2>1, <2>2, CatchingPlaced DEF JobDone, Catching
  <2>3. CASE rest # {}
    <3>1. tick' = [tick EXCEPT !.ids = rest, !.saw = grant] /\ UNCHANGED <<conn, hist, renewDue>>
      BY <1>3, <2>3 DEF JobDone, state
    <3> HIDE DEF rest
    <3>2. tick'.pc = "catchup" /\ tick'.latest = tick.latest
      BY <1>0, <2>1, <3>1 DEF Tick
    <3> QED
      BY <2>1, <3>1, <3>2, CatchingPlaced DEF Catching
  <2> QED
    BY <2>2, <2>3
<1> QED
  BY <1>1, <1>2, <1>3 DEF Jobs

\* All steps: what the position passes is told of in the message that the record
\* at hand is about, and in none else.
LEMMA PlacedStep ==
    ASSUME Typed, LogOK, PosOK, PassedOK, RowsOK, FollowOK, [Next]_vars
    PROVE  Placed({}) \/ (ListHistory /\ Placed(Passing))
<1>1. CASE \/ Forget \/ Withdraw \/ GmailPushed \/ InBusta \/ RetryDue \/ RenewalComes \/ SignIn
           \/ ImportBegins \/ ImportFails \/ UNCHANGED vars
  <2>0. ImportBegins => UNCHANGED <<google, state, tick, history>>
    BY Zenon DEF ImportBegins
  <2>1. UNCHANGED <<google, state, tick>> \/ (GmailPushed \/ RenewalComes \/ Forget)
    BY <1>1, <2>0 DEF Withdraw, InBusta, RetryDue, SignIn, ImportFails, vars, google, state
  <2>2. UNCHANGED <<glog, hist, tick, conn>> /\ (renewDue => renewDue')
    BY <2>1 DEF GmailPushed, RenewalComes, Forget, google, state
  <2>3. apart \subseteq apart'
    BY <1>1, <2>0 DEF Forget, Withdraw, GmailPushed, InBusta, RetryDue, RenewalComes, SignIn, ImportFails,
                     vars, history, Apart
  <2> QED
    BY <2>2, <2>3, StandsPlaced
<1>2. CASE ConnectGmail
  <2>1. /\ UNCHANGED <<glog, tick, apart>> /\ conn' = "live" /\ renewDue'
        /\ hist' = IF conn = "none" THEN None ELSE hist
    BY <1>2 DEF ConnectGmail, google, history
  <2>2. hist' = hist
    BY <2>1 DEF PosOK
  <2> QED
    BY <2>1, <2>2, StandsPlaced
<1>3. CASE FailedCall \/ TickDies
  <2>1. tick' = Idle /\ UNCHANGED <<glog, hist, renewDue>> /\ (conn' = conn \/ (conn = "live" /\ conn' = "reconnect"))
    BY <1>3 DEF FailedCall, TickDies, Fail, End, google, state
  <2> QED
    BY <2>1, EndsPlaced
<1>4. CASE AtGmail \/ AlarmFires \/ RenewWatch \/ SendChange \/ DisconnectGmail
  BY <1>4, AtGmailPlaced, AlarmPlaced, RenewPlaced, SendPlaced, DisconnectPlaced
<1>5. CASE Profile \/ ListHistory \/ TooFarBehind \/ CatchUp \/ Recent
  BY <1>5, ProfilePlaced, ListPlaced, BehindPlaced, CatchUpPlaced, RecentPlaced
<1>6. ASSUME NEW a \in Jobs, Fetch(a) \/ Labels(a) PROVE Placed({})
  <2>1. UNCHANGED <<glog, apart>> /\ job[a].step # "none"
    BY <1>6 DEF Fetch, Labels, google
  <2>2. CASE JobDone(a)
    BY <2>1, <2>2, JobPlaced
  <2>3. CASE UNCHANGED <<state, tick>>
    BY <2>1, <2>3, StandsPlaced DEF state
  <2> QED
    BY <1>6, <2>2, <2>3 DEF Fetch, Labels
<1>7. ASSUME NEW a \in Jobs, Store(a) \/ Link(a) PROVE Placed({})
  <2>1. UNCHANGED <<glog, apart, state, tick>>
    BY <1>7 DEF Store, Link, NextStep, google
  <2> QED
    BY <2>1, StandsPlaced DEF state
<1> QED
  BY <1>1, <1>2, <1>3, <1>4, <1>5, <1>6, <1>7 DEF Next

-----------------------------------------------------------------------------
(* Gmail's history and its mail *)

LEMMA LogMoved ==
    ASSUME Typed, LogOK, NEW g \in Msgs, NEW kind \in Kinds, Moved(g, kind), box' = box
    PROVE  LogOK'
<1> PICK n \in Nat : n = Len(glog)
  BY PosTyped
<1>1. /\ Len(glog') = n + 1
      /\ \A i \in 1..n : glog'[i] = glog[i] /\ glog[i].g \in Msgs
      /\ gmail'[g] = Leaves(kind) /\ \A m \in Msgs \ {g} : gmail'[m] = gmail[m]
      /\ gmail'[g] # "absent"
  BY MovedLog
<1>2. glog'[n + 1].g = g /\ glog'[n + 1].kind = kind
  <2>1. glog'[n + 1] = [kind |-> kind, g |-> g]
    BY MovedLog
  <2> QED
    BY <2>1
<1>3. ASSUME NEW i \in 1..n + 1
      PROVE  /\ gmail'[glog'[i].g] # "absent"
             /\ \/ gmail'[glog'[i].g] = Leaves(glog'[i].kind)
                \/ \E j \in i + 1..n + 1 : glog'[j].g = glog'[i].g /\ glog'[j].kind # "add"
  <2>1. CASE i = n + 1
    BY <1>1, <1>2, <2>1
  <2>2. CASE i \in 1..n /\ glog[i].g = g
    <3>1. gmail[g] # "absent"
      BY <2>2 DEF LogOK
    <3>2. kind # "add"
      BY <3>1 DEF Moved
    <3>3. n + 1 \in i + 1..n + 1
      BY <2>2
    <3> QED
      BY <1>1, <1>2, <2>2, <3>2, <3>3
  <2>3. CASE i \in 1..n /\ glog[i].g # g
    <3> PICK m \in Msgs \ {g} : m = glog[i].g
      BY <1>1, <2>3
    <3>1. /\ gmail[m] # "absent"
          /\ \/ gmail[m] = Leaves(glog[i].kind)
             \/ \E j \in i + 1..n : glog[j].g = m /\ glog[j].kind # "add"
      BY <2>3 DEF LogOK
    <3>2. \A j \in i + 1..n : j \in i + 1..n + 1 /\ glog'[j] = glog[j]
      BY <1>1, <2>3
    <3>3. gmail'[m] = gmail[m] /\ glog'[i] = glog[i]
      BY <1>1, <2>3
    <3> QED
      BY <3>1, <3>2, <3>3
  <2> QED
    BY <2>1, <2>2, <2>3
<1>4. \A m \in Msgs : box[m] # "none" => gmail'[m] # "absent"
  BY <1>1 DEF LogOK
<1> QED
  BY <1>1, <1>3, <1>4 DEF LogOK

LEMMA LogKept == ASSUME LogOK, UNCHANGED <<glog, gmail, box>> PROVE LogOK'
BY DEF LogOK

\* Only what is at Gmail is stored.
LEMMA LogStored ==
    ASSUME Typed, LogOK, TakenOK, NEW a \in Jobs, Store(a) \/ Link(a) PROVE LogOK'
<1>1. UNCHANGED <<glog, gmail>> /\ job[a].g \in Msgs /\ gmail[job[a].g] # "absent"
  BY StepsOf DEF Store, Link, google, TakenOK, Taken
<1>2. \A g \in Msgs \ {job[a].g} : box'[g] = box[g]
  BY DEF Store, Link, Typed, MailTyped
<1> QED
  BY <1>1, <1>2 DEF LogOK

LEMMA SendMoves ==
    ASSUME Typed, LogOK, RowsOK, NEW r, Sends(r)
    PROVE  /\ r \in Row /\ r \in Held /\ r.g \in Linked
           /\ UNCHANGED <<glog, gmail>> \/ (r.op \in Kinds \ {"add"} /\ Moved(r.g, r.op))
<1>1. tick.pc = "drain" /\ r \in tick.todo /\ tick.todo \subseteq Row
  BY DEF Sends, Typed, RunTyped, Tick
<1>2. r \in Row /\ r \in Held
  BY <1>1 DEF Held
<1>3. r.g \in Linked
  BY <1>2 DEF RowsOK
<1> QED
  BY <1>2, <1>3, ApplyMoves DEF Sends

LEMMA LogStep == ASSUME Typed, LogOK, TakenOK, RowsOK, [Next]_vars PROVE LogOK'
<1>1. CASE AtGmail
  BY <1>1, AtGmailMoves, LogMoved DEF AtGmail, mail
<1>2. CASE SendChange
  <2>1. PICK r : Sends(r)
    BY <1>2, SendsOne
  <2>2. box' = box /\ r \in Row
    BY <2>1, SendMoves DEF Sends, mail
  <2>3. UNCHANGED <<glog, gmail>> \/ \E g \in Msgs, kind \in Kinds : Moved(g, kind)
    BY <2>1, <2>2, SendMoves DEF Row
  <2> QED
    BY <2>2, <2>3, LogKept, LogMoved
<1>3. CASE \/ Forget \/ Withdraw \/ GmailPushed \/ InBusta \/ RetryDue \/ RenewalComes \/ AlarmFires
           \/ FailedCall \/ RenewWatch \/ Profile \/ ListHistory \/ TooFarBehind \/ CatchUp \/ Recent
           \/ ImportBegins \/ ImportFails \/ TickDies \/ SignIn \/ ConnectGmail
           \/ DisconnectGmail \/ UNCHANGED vars
  <2>0. ImportBegins \/ Recent => UNCHANGED <<google, mail>>
    <3>1. ImportBegins => UNCHANGED <<google, mail>>
      BY Zenon DEF ImportBegins
    <3> QED
      BY <3>1 DEF Recent
  <2>1. UNCHANGED <<glog, gmail, box>>
    BY <1>3, <2>0 DEF Forget, Withdraw, GmailPushed, InBusta, RetryDue, RenewalComes, AlarmFires, FailedCall,
                RenewWatch, Profile, ListHistory, TooFarBehind, CatchUp, ImportFails,
                TickDies, SignIn, ConnectGmail, DisconnectGmail, vars, google, mail
  <2> QED
    BY <2>1, LogKept
<1>4. CASE \E a \in Jobs : Fetch(a) \/ Labels(a)
  BY <1>4, LogKept DEF Fetch, Labels, google, mail
<1>5. CASE \E a \in Jobs : Store(a) \/ Link(a)
  BY <1>5, LogStored
<1> QED
  BY <1>1, <1>2, <1>3, <1>4, <1>5 DEF Next

-----------------------------------------------------------------------------
(* Jobs, and the changes a tick holds *)

\* A job stays, is over, or is the tick's next.
Onto(a) == job'[a] \in {job[a], NoJob} \/ (a = "sync" /\ job'[a].step = "fetch")

\* A step that takes nothing up but the tick's next message.
Steady == (\A a \in Jobs : Onto(a)) /\ Held' \subseteq Held /\ (hist # None => hist' # None)

LEMMA OntoEnds == ASSUME Typed, End \/ UNCHANGED job PROVE \A a \in Jobs : Onto(a)
BY DEF End, Onto, Jobs, Typed, RunTyped

LEMMA OntoBegins == ASSUME Typed, NEW g, Begins("sync", g) PROVE \A a \in Jobs : Onto(a)
<1>1. [NoJob EXCEPT !.g = g, !.step = "fetch"].step = "fetch"
  BY DEF NoJob
<1> QED
  BY <1>1 DEF Begins, Onto, Jobs, Typed, RunTyped

LEMMA QuietSteady ==
    ASSUME Typed, UNCHANGED <<tick, job>>, hist # None => hist' # None PROVE Steady
BY OntoEnds DEF Steady, Held

LEMMA EndSteady == ASSUME Typed, End, hist' = hist PROVE Steady
BY OntoEnds DEF Steady, Held, End, Idle

LEMMA SyncedSteady == ASSUME Typed, NEW h \in Nat, Synced(h) PROVE Steady
<1>1. End /\ hist' \in {hist, h}
  BY DEF Synced, Finish, SetHist
<1> QED
  BY <1>1, OntoEnds DEF Steady, Held, End, Idle, None

LEMMA WaitSteady ==
    ASSUME Typed, NEW t \in Tick, NEW w, Ask(t, w), t.pc # "drain", hist' = hist PROVE Steady
<1>1. tick'.pc # "drain" /\ job' = job
  BY DEF Ask, Tick
<1> QED
  BY <1>1, OntoEnds DEF Steady, Held

LEMMA BringSteady ==
    ASSUME Typed, NEW g, Begins("sync", g), tick'.pc # "drain", hist' = hist PROVE Steady
BY OntoBegins DEF Steady, Held

LEMMA JobSteady == ASSUME Typed, NEW a \in Jobs, job[a].step # "none", JobDone(a) PROVE Steady
<1>0. tick \in Tick /\ tick.latest \in Nat
  BY DEF Typed, RunTyped, Tick
<1>1. CASE a = "import"
  <2>1. job' = [job EXCEPT !["import"] = NoJob] /\ UNCHANGED <<state, tick>>
    BY <1>1 DEF JobDone
  <2> QED
    BY <2>1 DEF Steady, Onto, Held, state, Jobs, Typed, RunTyped
<1>2. CASE a = "sync" /\ Synced(tick.latest)
  BY <1>0, <1>2, SyncedSteady
<1>3. CASE a = "sync" /\ tick.pc = "bring" /\ ~ Synced(tick.latest)
  <2>1. /\ tick' = [tick EXCEPT !.pc = "list", !.at = @ + 1, !.saw = grant]
        /\ job' = [job EXCEPT !["sync"] = NoJob]
        /\ UNCHANGED state
    BY <1>3 DEF JobDone
  <2>2. tick'.pc = "list"
    BY <1>0, <2>1 DEF Tick
  <2> QED
    BY <2>1, <2>2 DEF Steady, Onto, Held, state, Jobs, Typed, RunTyped
<1>4. CASE a = "sync" /\ tick.pc # "bring" /\ ~ Synced(tick.latest)
  <2> DEFINE rest == tick.ids \ {job[a].g}
  <2>1. /\ tick' = [tick EXCEPT !.ids = rest, !.saw = grant]
        /\ Begins("sync", Max(rest)) /\ UNCHANGED state
    BY <1>4 DEF JobDone, Begins
  <2>2. tick'.pc = tick.pc /\ tick.pc # "drain"
    BY <1>0, <1>4, <2>1 DEF Tick, Typed, RunTyped
  <2> QED
    BY <2>1, <2>2, BringSteady DEF state
<1> QED
  BY <1>1, <1>2, <1>3, <1>4 DEF Jobs

LEMMA ListSteady == ASSUME Typed, ListHistory PROVE Steady
<1>0. tick \in Tick /\ Len(glog) \in Nat /\ tick.at + 1 \in Nat /\ tick.pc = "list"
  BY DEF ListHistory, Typed, RunTyped, Tick, LogTyped
<1>1. CASE Synced(Len(glog))
  BY <1>0, <1>1, SyncedSteady
<1>2. CASE /\ tick' = [tick EXCEPT !.pc = "bring", !.latest = Len(glog), !.saw = grant]
           /\ Begins("sync", glog[tick.at + 1].g)
           /\ UNCHANGED state
  <2>1. tick'.pc = "bring"
    BY <1>0, <1>2 DEF Tick
  <2> QED
    BY <1>2, <2>1, BringSteady DEF state
<1>3. CASE Ask([tick EXCEPT !.at = @ + 1, !.latest = Len(glog)], wake) /\ hist' = hist
  <2>1. [tick EXCEPT !.at = @ + 1, !.latest = Len(glog)] \in Tick
        /\ [tick EXCEPT !.at = @ + 1, !.latest = Len(glog)].pc = "list"
    BY <1>0 DEF Tick
  <2> QED
    BY <1>3, <2>1, WaitSteady
<1> QED
  BY <1>1, <1>2, <1>3, Zenon DEF ListHistory, Begins

LEMMA SyncSteady ==
    ASSUME Typed, Profile \/ TooFarBehind \/ CatchUp \/ Recent PROVE Steady
<1>0. tick \in Tick /\ tick.latest \in Nat /\ Len(glog) \in Nat
  BY DEF Typed, RunTyped, Tick, LogTyped
<1>1. CASE Profile
  BY <1>0, <1>1, SyncedSteady DEF Profile
<1>2. CASE TooFarBehind
  <2>1. [tick EXCEPT !.pc = "behind"] \in Tick /\ [tick EXCEPT !.pc = "behind"].pc = "behind"
    BY <1>0 DEF Tick
  <2> QED
    BY <1>2, <2>1, WaitSteady DEF TooFarBehind
<1>3. CASE CatchUp
  <2> DEFINE u == [tick EXCEPT !.pc = "recent", !.latest = Len(glog)]
  <2>1. u \in Tick /\ u.pc = "recent"
    BY <1>0 DEF Tick
  <2>2. Ask(u, wake) /\ hist' = hist
    BY <1>3 DEF CatchUp
  <2> HIDE DEF u
  <2> QED
    BY <2>1, <2>2, WaitSteady
<1>4. CASE Recent
  <2> DEFINE all == {g \in Msgs : gmail[g] = "in"}
             page == {g \in all : Cardinality({h \in all : h > g}) < ListMax}
  <2>1. CASE page = {}
    BY <1>0, <1>4, <2>1, SyncedSteady DEF Recent
  <2>2. CASE page # {}
    <3>1. /\ tick' = [tick EXCEPT !.pc = "catchup", !.ids = page, !.saw = grant]
          /\ Begins("sync", Max(page)) /\ UNCHANGED state
      BY <1>4, <2>2 DEF Recent, Begins
    <3>2. tick'.pc = "catchup"
      BY <1>0, <3>1 DEF Tick
    <3> QED
      BY <3>1, <3>2, BringSteady DEF state
  <2> QED
    BY <2>1, <2>2
<1> QED
  BY <1>1, <1>2, <1>3, <1>4

\* The import queue, and what goes on with a message.
Takes(a) ==
    /\ job[a].step = "fetch" /\ box[job[a].g] # "linked" /\ job[a].g \in Here \ Unwanted
    /\ job' = [job EXCEPT ![a].step = "store", ![a].trashed = gmail[job[a].g] = "trash"]
    /\ UNCHANGED <<google, state, mail, outbox, tick, changes, apart>>

LEMMA FetchTakes ==
    ASSUME Typed, NEW a \in Jobs, Fetch(a) PROVE Takes(a) \/ (Steady /\ JobDone(a))
<1>1. CASE JobDone(a)
  BY <1>1, JobSteady DEF Fetch
<1>2. CASE ~ JobDone(a)
  BY <1>2, Zenon DEF Fetch, Takes
<1> QED
  BY <1>1, <1>2

\* The changes a tick holds to send are those that are due when it comes to them,
\* and it has a position to follow from.
LEMMA DrainHolds ==
    ASSUME Typed, PosOK, AlarmFires \/ RenewWatch
    PROVE  /\ \A a \in Jobs : Onto(a)
           /\ Held' \subseteq Held \/ (Held' = {r \in outbox : r.due} /\ hist' # None)
           /\ hist # None => hist' # None
<1>0. tick \in Tick /\ hist \in {None} \cup Nat /\ Len(glog) \in Nat
  BY DEF Typed, RunTyped, StateTyped, LogTyped, None
<1>1. ASSUME NEW t, NEW h, NEW poll, NEW w, Drain(t, h, poll, w) PROVE \A a \in Jobs : Onto(a)
  BY <1>1, OntoEnds DEF Drain, AfterDrain, Ask, Fail, Finish
<1>2. CASE RenewWatch
  <2> PICK h : h = IF hist = None THEN Len(glog) ELSE hist
    OBVIOUS
  <2>1. h \in Nat /\ h # None
    BY <1>0 DEF None
  <2>2. CASE conn = "none"
    BY <1>2, <2>2, EndSteady DEF RenewWatch, Fail, Steady
  <2>3. CASE conn # "none"
    <3>1. Drain(tick, h, pollDue, wake) /\ hist' = h
      BY <1>2, <2>3 DEF RenewWatch, SetHist
    <3>2. Held' = {} \/ Held' = {r \in outbox : r.due}
      BY <1>0, <2>1, <3>1, DrainPlaces
    <3> QED
      BY <1>1, <2>1, <3>1, <3>2
  <2> QED
    BY <2>2, <2>3
<1>3. CASE AlarmFires /\ conn # "live"
  BY <1>3, QuietSteady DEF AlarmFires, state, Steady
<1>4. CASE AlarmFires /\ conn = "live"
  <2> DEFINE t == [Idle EXCEPT !.gen = connects]
             u == [t EXCEPT !.pc = "renew"]
  <2>1. \E poll \in BOOLEAN : (renewDue /\ Ask(u, Never)) \/ (~renewDue /\ Drain(t, hist, poll, Never))
    BY <1>4 DEF AlarmFires, Typed, StateTyped
  <2>2. t \in Tick
    <3>1. Idle \in Tick /\ connects \in 0..MaxConnects
      BY BoundsAssumption DEF Tick, Idle, Typed, MailTyped
    <3> QED
      BY <3>1 DEF Tick
  <2>3. hist' = hist
    BY <1>4 DEF AlarmFires
  <2> HIDE DEF t
  <2>4. u \in Tick /\ u.pc = "renew"
    BY <2>2 DEF Tick
  <2> HIDE DEF u
  <2>5. CASE Ask(u, Never)
    BY <2>3, <2>4, <2>5, WaitSteady DEF Steady
  <2>6. ASSUME NEW poll, ~renewDue, Drain(t, hist, poll, Never)
        PROVE  (\A a \in Jobs : Onto(a)) /\ (Held' = {} \/ (Held' = {r \in outbox : r.due} /\ hist' # None))
    <3> PICK h \in {None} \cup Nat : h = hist
      BY <1>0
    <3>1. hist # None
      BY <1>4, <2>6 DEF PosOK
    <3>2. Drain(t, h, poll, Never) /\ hist' = h
      BY <2>3, <2>6
    <3>3. Held' = {} \/ Held' = {r \in outbox : r.due}
      BY <2>2, <3>2, DrainPlaces
    <3> QED
      BY <1>1, <2>3, <2>6, <3>1, <3>3
  <2> QED
    BY <2>1, <2>3, <2>5, <2>6
<1> QED
  BY <1>2, <1>3, <1>4

LEMMA SendSteady == ASSUME Typed, NEW r, Sends(r) PROVE Steady
<1>1. tick.pc = "drain" /\ Held = tick.todo
  BY DEF Sends, Held
<1>2. CASE Fail(TRUE) /\ hist' = hist
  BY <1>2, EndSteady DEF Fail
<1>3. ASSUME NEW rows, SentOn(r, rows) PROVE Steady
  <2>1. Held' \subseteq Held /\ hist' = hist
    BY <1>1, <1>3, SentOnPlaces
  <2>2. End \/ UNCHANGED job
    BY <1>3 DEF SentOn, AfterDrain, Ask, Fail, Finish
  <2> QED
    BY <2>1, <2>2, OntoEnds DEF Steady
<1> QED
  BY <1>2, <1>3 DEF Sends

LEMMA SteadyStep ==
    ASSUME Typed, PosOK, [Next]_vars
    PROVE  \/ Steady \/ AlarmFires \/ RenewWatch \/ DisconnectGmail \/ ImportBegins
           \/ \E a \in Jobs : Takes(a) \/ Store(a) \/ Link(a)
<1>1. CASE \/ AtGmail \/ Forget \/ Withdraw \/ GmailPushed \/ InBusta \/ RetryDue \/ RenewalComes
           \/ SignIn \/ UNCHANGED vars
  <2>1. UNCHANGED <<tick, job, hist>>
    BY <1>1 DEF AtGmail, Forget, Withdraw, GmailPushed, InBusta, RetryDue, RenewalComes, SignIn, vars, state
  <2> QED
    BY <2>1, QuietSteady
<1>2. CASE ConnectGmail
  <2>1. UNCHANGED <<tick, job>> /\ hist' = IF conn = "none" THEN None ELSE hist
    BY <1>2 DEF ConnectGmail
  <2> QED
    BY <2>1, QuietSteady DEF PosOK
<1>3. CASE ImportFails
  BY <1>3 DEF ImportFails, Steady, Onto, Held, state, Jobs, Typed, RunTyped
<1>4. CASE FailedCall \/ TickDies
  BY <1>4, EndSteady DEF FailedCall, TickDies, Fail, state
<1>5. CASE SendChange
  BY <1>5, SendsOne, SendSteady
<1>6. CASE Profile \/ ListHistory \/ TooFarBehind \/ CatchUp \/ Recent
  BY <1>6, ListSteady, SyncSteady
<1>7. CASE \E a \in Jobs : Fetch(a) \/ Labels(a)
  BY <1>7, FetchTakes, JobSteady DEF Labels
<1> QED
  BY <1>1, <1>2, <1>3, <1>4, <1>5, <1>6, <1>7 DEF Next

-----------------------------------------------------------------------------
(* The changes that wait *)

\* The import queue takes nothing up that a change waits for.
Importing == job'["import"].step # "none" => job["import"].step # "none" /\ job'["import"].g = job["import"].g

LEMMA OntoImports == ASSUME \A a \in Jobs : Onto(a) PROVE Importing
BY DEF Onto, Importing, NoJob, Jobs

LEMMA TakesImports ==
    ASSUME Typed, NEW a \in Jobs, Takes(a) \/ Store(a) \/ Link(a)
    PROVE  Importing /\ \A b \in Jobs : job'[b].g = job[b].g /\ (b # a => job'[b] = job[b])
<1>1. job[a] \in Job /\ job[a] # NoJob /\ job \in [Jobs -> Job] /\ job[a].step # "none"
  BY DEF Typed, RunTyped, NoJob, Takes, Store, Link
<1>2. \E j : j.g = job[a].g /\ job' = [job EXCEPT ![a] = j]
  <2>1. CASE Takes(a)
    <3> PICK t : t = (gmail[job[a].g] = "trash")
      OBVIOUS
    <3> PICK j : j = [job[a] EXCEPT !.step = "store", !.trashed = t]
      OBVIOUS
    <3>1. job' = [job EXCEPT ![a].step = "store", ![a].trashed = t]
      BY <2>1 DEF Takes
    <3>2. job' = [job EXCEPT ![a] = j]
      BY <1>1, <3>1
    <3>3. j.g = job[a].g
      BY <1>1 DEF Job
    <3> QED
      BY <3>2, <3>3
  <2>2. CASE Store(a) \/ Link(a)
    <3>1. PICK s : job' = [job EXCEPT ![a].step = s]
      BY <2>2 DEF Store, Link, NextStep
    <3> PICK j : j = [job[a] EXCEPT !.step = s]
      OBVIOUS
    <3>2. job' = [job EXCEPT ![a] = j]
      BY <1>1, <3>1
    <3>3. j.g = job[a].g
      BY <1>1 DEF Job
    <3> QED
      BY <3>2, <3>3
  <2> QED
    BY <2>1, <2>2
<1>3. \A b \in Jobs : job'[b].g = job[b].g /\ (b # a => job'[b] = job[b])
  BY <1>1, <1>2 DEF Job
<1> QED
  BY <1>1, <1>3 DEF Importing, Jobs

\* The rows that are left are of those there were.
LEMMA RowsStay ==
    ASSUME Typed, RowsOK, Held' \subseteq Held, Importing, changes' = changes,
           Linked \subseteq Linked', apart \subseteq apart', Single(outbox'),
           \A q \in outbox' : \E p \in outbox : p.seq = q.seq /\ p.g = q.g /\ p.op = q.op,
           \A r \in Held' : r.g \in apart' \/ (hist' # None /\ \E q \in outbox' : q.seq = r.seq)
    PROVE  RowsOK'
<1>1. Single(Held')
  BY DEF RowsOK, Single
<1>2. \A r \in outbox' \cup Held' : \E p \in outbox \cup Held : p.g = r.g /\ p.seq = r.seq
  OBVIOUS
<1>3. \A r \in outbox' \cup Held' :
         /\ r.g \in Linked' /\ r.seq <= changes'
         /\ job'["import"].step # "none" /\ r.g = job'["import"].g => r.g \in apart'
  BY <1>2 DEF RowsOK, Importing
<1>4. \A r \in Held' : \A q \in outbox' : q.seq = r.seq => q.g = r.g /\ q.op = r.op
  BY DEF RowsOK
<1> QED
  BY <1>1, <1>3, <1>4 DEF RowsOK, Single

\* As most steps leave them.
LEMMA RowsLeft ==
    ASSUME Typed, RowsOK, Held' \subseteq Held, Importing, UNCHANGED <<changes, outbox>>,
           Linked \subseteq Linked', apart \subseteq apart', hist # None => hist' # None
    PROVE  RowsOK'
<1>1. Single(outbox')
  BY DEF RowsOK, Single
<1>2. \A r \in Held' : r.g \in apart' \/ (hist' # None /\ \E q \in outbox' : q.seq = r.seq)
  BY DEF RowsOK
<1> QED
  BY <1>1, <1>2, RowsStay

LEMMA RowsSent == ASSUME Typed, RowsOK, SendChange PROVE RowsOK'
<1>1. PICK r \in tick.todo : Sends(r)
  BY SendsOne
<1>2. /\ tick.pc = "drain" /\ Held = tick.todo /\ changes' = changes /\ box' = box
      /\ apart \subseteq apart' /\ r \in Held
  BY <1>1 DEF Sends, Held, mail, Apart
<1>3. Held' \subseteq Held /\ Importing /\ (hist # None => hist' # None)
  BY <1>1, SendSteady, OntoImports DEF Steady
<1>4. Single(outbox) /\ Single(Held)
  BY DEF RowsOK
<1>5. CASE outbox' = OutboxDone(r) /\ SentOn(r, OutboxDone(r))
  <2>1. outbox' \subseteq outbox /\ \A q \in outbox : q.seq # r.seq => q \in outbox'
    BY <1>5 DEF OutboxDone
  <2>2. Single(outbox')
    BY <1>4, <2>1 DEF Single
  <2>3. \A q \in Held' : q \in Held /\ q # r
    BY <1>2, <1>5, SentOnPlaces
  <2>4. \A q \in Held' : q.seq # r.seq
    BY <1>2, <1>4, <2>3 DEF Single
  <2>5. \A q \in Held' : q.g \in apart' \/ (hist' # None /\ \E p \in outbox' : p.seq = q.seq)
    BY <1>2, <1>3, <2>1, <2>3, <2>4 DEF RowsOK
  <2> QED
    BY <1>2, <1>3, <2>1, <2>2, <2>5, RowsStay DEF Linked
<1>6. CASE outbox' = OutboxRetry(r)
  <2> DEFINE next(q) == IF q.seq = r.seq THEN [q EXCEPT !.attempts = r.attempts + 1, !.due = FALSE] ELSE q
  <2>1. \A q \in outbox : next(q).seq = q.seq /\ next(q).g = q.g /\ next(q).op = q.op
    BY DEF Typed, MailTyped, Row
  <2>2. outbox' = {next(q) : q \in outbox}
    BY <1>6, Zenon DEF OutboxRetry
  <2> HIDE DEF next
  <2>3. Single(outbox')
    BY <1>4, <2>1, <2>2 DEF Single
  <2>4. \A q \in outbox' : \E p \in outbox : p.seq = q.seq /\ p.g = q.g /\ p.op = q.op
    BY <2>1, <2>2
  <2>5. \A q \in Held' : q.g \in apart' \/ (hist' # None /\ \E p \in outbox' : p.seq = q.seq)
    BY <1>2, <1>3, <2>1, <2>2 DEF RowsOK
  <2> QED
    BY <1>2, <1>3, <2>3, <2>4, <2>5, RowsStay DEF Linked
<1> QED
  BY <1>1, <1>5, <1>6 DEF Sends, SentOn

LEMMA RowsDue == ASSUME Typed, RowsOK, RetryDue PROVE RowsOK'
<1>1. PICK r \in outbox : outbox' = (outbox \ {r}) \cup {[r EXCEPT !.due = TRUE]}
  BY DEF RetryDue
<1>2. UNCHANGED <<hist, box, tick, job, changes, apart>>
  BY DEF RetryDue, state, mail, history
<1>d. PICK d : d = [r EXCEPT !.due = TRUE]
  OBVIOUS
<1>3. d.seq = r.seq /\ d.g = r.g /\ d.op = r.op
  BY <1>d DEF Typed, MailTyped, Row
<1>a. outbox' = (outbox \ {r}) \cup {d}
  BY <1>1, <1>d
<1>4. Single(outbox')
  BY <1>3, <1>a DEF RowsOK, Single
<1>5. \A q \in Held' : q.g \in apart' \/ (hist' # None /\ \E p \in outbox' : p.seq = q.seq)
  <2>1. \A p \in outbox : \E q \in outbox' : q.seq = p.seq
    BY <1>3, <1>a
  <2> QED
    BY <1>2, <2>1 DEF RowsOK, Held
<1>6. Held' = Held /\ Importing /\ Linked' = Linked
  BY <1>2 DEF Held, Importing, Linked
<1> QED
  BY <1>2, <1>3, <1>4, <1>5, <1>6, <1>a, RowsStay

\* A change in Busta waits under a number of its own.
LEMMA RowsAdded == ASSUME Typed, RowsOK, InBusta PROVE RowsOK'
<1>1. PICK g \in Msgs :
        /\ ToGmail(g, IF trashed[g] THEN "untrash" ELSE "trash")
        /\ Apart(IF conn # "none" /\ g \in Linked THEN Overlap(g) ELSE {g})
  BY DEF InBusta
<1>2. UNCHANGED <<hist, box, tick, job>> /\ changes' = changes + 1 /\ apart \subseteq apart'
      /\ changes \in Nat /\ Held' = Held /\ Linked' = Linked
  BY <1>1 DEF InBusta, state, Apart, Typed, MailTyped, Held, Linked
<1>3. \A r \in outbox \cup Held : r.seq \in Nat /\ r.seq <= changes
  BY DEF RowsOK, Typed, MailTyped, RunTyped, Tick, Row, Held
<1>4. CASE outbox' = outbox
  BY <1>2, <1>3, <1>4 DEF RowsOK, Single
<1>5. CASE outbox' # outbox
  <2> PICK row : row = [seq |-> changes + 1, g |-> g, op |-> IF trashed[g] THEN "untrash" ELSE "trash",
                        attempts |-> 0, due |-> TRUE]
    OBVIOUS
  <2>1. row.seq = changes + 1 /\ row.g = g
    OBVIOUS
  <2>2. outbox' = outbox \cup {row} /\ g \in Linked /\ Apart(Overlap(g))
    BY <1>1, <1>5 DEF ToGmail
  <2>3. g = job["import"].g => g \in apart'
    BY <2>2 DEF Apart, Overlap
  <2>4. \A r \in outbox \cup Held : r.seq # row.seq
    BY <1>2, <1>3, <2>1
  <2>5. Single(outbox') /\ Single(Held')
    BY <1>2, <2>2, <2>4 DEF RowsOK, Single
  <2>6. \A r \in outbox' \cup Held' :
           /\ r.g \in Linked' /\ r.seq <= changes'
           /\ job'["import"].step # "none" /\ r.g = job'["import"].g => r.g \in apart'
    <3> SUFFICES ASSUME NEW r \in outbox \cup Held \cup {row}
                 PROVE  /\ r.g \in Linked' /\ r.seq <= changes'
                        /\ job'["import"].step # "none" /\ r.g = job'["import"].g => r.g \in apart'
      BY <1>2, <2>2
    <3>1. CASE r = row
      BY <1>2, <2>1, <2>2, <2>3, <3>1
    <3>2. CASE r \in outbox \cup Held
      BY <1>2, <1>3, <3>2 DEF RowsOK
    <3> QED
      BY <3>1, <3>2
  <2>7. \A r \in Held' :
           /\ \A q \in outbox' : q.seq = r.seq => q.g = r.g /\ q.op = r.op
           /\ r.g \in apart' \/ (hist' # None /\ \E q \in outbox' : q.seq = r.seq)
    BY <1>2, <2>2, <2>4 DEF RowsOK
  <2> QED
    BY <2>5, <2>6, <2>7 DEF RowsOK, Single
<1> QED
  BY <1>4, <1>5

LEMMA RowsHeld == ASSUME Typed, PosOK, RowsOK, AlarmFires \/ RenewWatch PROVE RowsOK'
<1>1. UNCHANGED <<outbox, changes, box, apart>>
  BY DEF AlarmFires, RenewWatch, mail, history
<1>2. /\ Importing /\ (hist # None => hist' # None)
      /\ Held' \subseteq Held \/ (Held' = {r \in outbox : r.due} /\ hist' # None)
  BY DrainHolds, OntoImports
<1>3. CASE Held' \subseteq Held
  BY <1>1, <1>2, <1>3, RowsLeft DEF Linked
<1>4. CASE Held' = {r \in outbox : r.due} /\ hist' # None
  BY <1>1, <1>2, <1>4 DEF RowsOK, Single, Importing, Linked
<1> QED
  BY <1>2, <1>3, <1>4

\* What waited when the account was disconnected is left out of account.
LEMMA RowsGone == ASSUME Typed, RowsOK, DisconnectGmail PROVE RowsOK'
<1>1. UNCHANGED <<tick, job, changes, box>>
  BY DEF DisconnectGmail, mail
<1>2. Held' = Held /\ Importing /\ Linked' = Linked
  BY <1>1 DEF Held, Importing, Linked
<1>3. CASE UNCHANGED <<state, outbox, apart>>
  BY <1>1, <1>2, <1>3, RowsLeft DEF state
<1>4. CASE outbox' = {} /\ Apart({r.g : r \in outbox} \cup {glog[i].g : i \in (hist + 1..Len(glog)) \ {0}})
  <2>1. apart \subseteq apart' /\ \A r \in outbox : r.g \in apart'
    BY <1>4 DEF Apart
  <2>2. \A r \in Held : r.g \in apart'
    BY <2>1 DEF RowsOK
  <2> QED
    BY <1>1, <1>2, <1>4, <2>1, <2>2, RowsStay DEF Single
<1> QED
  BY <1>3, <1>4 DEF DisconnectGmail

LEMMA RowsImport == ASSUME Typed, RowsOK, ImportBegins PROVE RowsOK'
<1>1. PICK g \in Msgs \ Linked : Begins("import", g)
  BY Zenon DEF ImportBegins, Begins, Here
<1>2. UNCHANGED <<google, state, mail, outbox, tick, changes, history>>
  BY Zenon DEF ImportBegins
<1>3. job'["import"].g = g /\ UNCHANGED <<hist, box, tick, outbox, changes, apart>>
  BY <1>1, <1>2, BeginsJob DEF Jobs, state, mail, history
<1>4. Held' = Held /\ Linked' = Linked
  BY <1>3 DEF Held, Linked
<1> QED
  BY <1>3, <1>4 DEF RowsOK, Single

LEMMA RowsStep == ASSUME Typed, PosOK, RowsOK, [Next]_vars PROVE RowsOK'
<1>1. CASE SendChange \/ RetryDue \/ InBusta \/ AlarmFires \/ RenewWatch \/ DisconnectGmail \/ ImportBegins
  BY <1>1, RowsSent, RowsDue, RowsAdded, RowsHeld, RowsGone, RowsImport
<1>2. ASSUME NEW a \in Jobs, Takes(a) \/ Store(a) \/ Link(a) PROVE RowsOK'
  <2>1. UNCHANGED <<outbox, changes, apart, tick, hist>>
    BY <1>2 DEF Takes, Store, Link, NextStep, state
  <2>2. Linked \subseteq Linked'
    BY <1>2, LinkedStays DEF Takes, mail, Linked
  <2> QED
    BY <1>2, <2>1, <2>2, TakesImports, RowsLeft DEF Held
<1>3. CASE /\ Steady
           /\ \/ AtGmail \/ Forget \/ Withdraw \/ GmailPushed \/ FailedCall \/ Profile \/ ListHistory
              \/ TooFarBehind \/ CatchUp \/ Recent \/ ImportFails \/ TickDies \/ SignIn \/ ConnectGmail
              \/ RenewalComes \/ UNCHANGED vars \/ \E a \in Jobs : Fetch(a) \/ Labels(a)
  <2>1. UNCHANGED <<outbox, changes, box>>
    BY <1>3 DEF AtGmail, Forget, Withdraw, GmailPushed, FailedCall, Profile, ListHistory, TooFarBehind, CatchUp,
                Recent, ImportFails, TickDies, SignIn, ConnectGmail, RenewalComes, vars, mail, Fetch, Labels
  <2>2. apart \subseteq apart'
    BY <1>3 DEF AtGmail, Arrive, Relabel, Forget, Withdraw, GmailPushed, FailedCall, Profile, ListHistory,
                TooFarBehind, CatchUp, Recent, ImportFails, TickDies, SignIn, ConnectGmail, RenewalComes, vars,
                history, Apart, Fetch, Labels
  <2> QED
    BY <1>3, <2>1, <2>2, OntoImports, RowsLeft DEF Steady, Linked
<1> QED
  BY <1>1, <1>2, <1>3, SteadyStep DEF Next

-----------------------------------------------------------------------------
(* What steps leave alone *)

LEMMA ApartGrows == ASSUME Typed, [Next]_vars PROVE apart \subseteq apart'
<1>1. CASE SendChange
  BY <1>1, SendsOne DEF Sends, Apart
<1>2. CASE ImportBegins
  <2>1. history' = history
    BY <1>2, Zenon DEF ImportBegins
  <2> QED
    BY <2>1 DEF history
<1>3. CASE AtGmail \/ InBusta \/ CatchUp \/ ImportFails \/ TickDies \/ DisconnectGmail
  BY <1>3 DEF AtGmail, Arrive, Relabel, InBusta, CatchUp, ImportFails, TickDies, DisconnectGmail, Apart
<1>4. CASE \/ Forget \/ Withdraw \/ GmailPushed \/ RetryDue \/ AlarmFires \/ FailedCall \/ RenewWatch \/ Profile
           \/ ListHistory \/ TooFarBehind \/ Recent \/ SignIn \/ ConnectGmail \/ RenewalComes \/ UNCHANGED vars
           \/ \E a \in Jobs : Fetch(a) \/ Store(a) \/ Link(a) \/ Labels(a)
  BY <1>4 DEF Forget, Withdraw, GmailPushed, RetryDue, AlarmFires, FailedCall, RenewWatch, Profile,
              ListHistory, TooFarBehind, Recent, SignIn, ConnectGmail, RenewalComes, vars, history,
              Fetch, Store, Link, Labels
<1> QED
  BY <1>1, <1>2, <1>3, <1>4 DEF Next

LEMMA GmailKept == ASSUME [Next]_vars PROVE UNCHANGED <<glog, gmail>> \/ AtGmail \/ SendChange
<1>1. CASE ImportBegins
  <2>1. google' = google
    BY <1>1, Zenon DEF ImportBegins
  <2> QED
    BY <2>1 DEF google
<1>2. CASE \/ Forget \/ Withdraw \/ GmailPushed \/ InBusta \/ RetryDue \/ RenewalComes \/ AlarmFires
           \/ FailedCall \/ RenewWatch \/ Profile \/ ListHistory \/ TooFarBehind \/ CatchUp \/ Recent
           \/ ImportFails \/ TickDies \/ SignIn \/ ConnectGmail \/ DisconnectGmail \/ UNCHANGED vars
           \/ \E a \in Jobs : Fetch(a) \/ Store(a) \/ Link(a) \/ Labels(a)
  BY <1>2 DEF Forget, Withdraw, GmailPushed, InBusta, RetryDue, RenewalComes, AlarmFires, FailedCall,
              RenewWatch, Profile, ListHistory, TooFarBehind, CatchUp, Recent, ImportFails, TickDies, SignIn,
              ConnectGmail, DisconnectGmail, vars, google, Fetch, Store, Link, Labels
<1> QED
  BY <1>1, <1>2 DEF Next

-----------------------------------------------------------------------------
(* The labels a job has *)

LEMMA AptStill ==
    ASSUME Typed, Typed', Grows, apart \subseteq apart', NEW a \in Jobs, NEW g \in Msgs,
           job[a].g = g, job'[a].g = g, job'[a].trashed = job[a].trashed, gmail'[g] = gmail[g],
           a = "sync" => Forward({}), Apt(a)
    PROVE  Apt(a)'
<1>1. CASE g \in apart'
  BY <1>1 DEF Apt
<1>2. CASE g \notin apart' /\ (job[a].trashed <=> gmail[g] # "in")
  BY <1>2 DEF Apt
<1>3. CASE g \notin apart' /\ a = "sync" /\ Ahead(g)
  <2>1. Ahead(g)'
    BY <1>3, AheadStill
  <2> QED
    BY <1>3, <2>1 DEF Apt, Ahead
<1> QED
  BY <1>1, <1>2, <1>3 DEF Apt, Ahead

\* What is done to the message meanwhile, Gmail's history will tell the tick.
LEMMA MovedAhead ==
    ASSUME Typed, NEW g \in Msgs, NEW kind \in Kinds \ {"add"}, Moved(g, kind), Pos' = Pos
    PROVE  Ahead(g)'
<1>1. Len(glog') = Len(glog) + 1 /\ Len(glog) \in Nat /\ glog'[Len(glog) + 1] = [kind |-> kind, g |-> g]
  BY MovedLog
<1>2. Pos \in 0..Len(glog)
  BY PosTyped
<1>3. Len(glog) + 1 \in Pos' + 1..Len(glog')
  BY <1>1, <1>2
<1>4. glog'[Len(glog) + 1].g = g /\ glog'[Len(glog) + 1].kind # "add"
  BY <1>1
<1> QED
  BY <1>3, <1>4 DEF Ahead

\* The job goes on with what it has.
LEMMA TakenOn ==
    ASSUME Typed, Typed', Grows, PosOK, LogOK, RowsOK, TakenOK, apart \subseteq apart',
           NEW a \in Jobs, Taken(a), job'[a].g = job[a].g, job'[a].trashed = job[a].trashed,
           a = "sync" => Forward({}),
           \/ gmail' = gmail
           \/ AtGmail
           \/ SendChange
    PROVE  gmail'[job'[a].g] # "absent" /\ Apt(a)'
<1> PICK g \in Msgs : g = job[a].g
  BY StepsOf DEF Taken
<1>1. gmail[g] # "absent" /\ Apt(a)
  BY DEF TakenOK
<1>2. ASSUME gmail'[g] = gmail[g] PROVE gmail'[job'[a].g] # "absent" /\ Apt(a)'
  BY <1>1, <1>2, AptStill
<1>3. ASSUME NEW m \in Msgs, NEW kind \in Kinds, Moved(m, kind),
             m = g => kind # "add" /\ (g \in apart' \/ (a = "sync" /\ Pos' = Pos))
      PROVE  gmail'[job'[a].g] # "absent" /\ Apt(a)'
  <2>1. gmail'[m] # "absent" /\ \A n \in Msgs \ {m} : gmail'[n] = gmail[n]
    BY <1>3, MovedLog
  <2>2. CASE m # g
    BY <1>2, <2>1, <2>2
  <2>3. CASE m = g /\ g \in apart'
    BY <2>1, <2>3 DEF Apt
  <2>4. CASE m = g /\ a = "sync" /\ Pos' = Pos
    <3>1. Ahead(m)'
      BY <1>3, <2>4, MovedAhead
    <3>2. Apt(a)'
      BY <2>4, <3>1 DEF Apt, Ahead
    <3> QED
      BY <2>1, <2>4, <3>2
  <2> QED
    BY <1>3, <2>2, <2>3, <2>4
<1>4. CASE AtGmail
  <2>1. PICK m \in Msgs, kind \in Kinds :
          Moved(m, kind) /\ (kind # "add" /\ (hist = None \/ m = job["import"].g) => m \in apart')
    BY <1>4, AtGmailMoves
  <2>2. UNCHANGED <<tick, hist>>
    BY <1>4 DEF AtGmail, state
  <2>3. hist # None => Pos' = Pos
    BY <2>2 DEF Pos, Spot
  <2>4. m = g => kind # "add"
    BY <1>1, <2>1 DEF Moved
  <2> QED
    BY <1>3, <2>1, <2>3, <2>4 DEF Jobs
<1>5. CASE SendChange
  <2>1. PICK r : Sends(r)
    BY <1>5, SendsOne
  <2>2. /\ r \in Row /\ r \in Held /\ r.g \in Msgs
        /\ UNCHANGED <<glog, gmail>> \/ (r.op \in Kinds \ {"add"} /\ Moved(r.g, r.op))
    BY <2>1, SendMoves DEF Row
  <2>3. a = "import"
    BY <2>1 DEF Sends, Typed, RunTyped, Taken, Jobs
  <2>4. r.g = g => g \in apart'
    BY <2>2, <2>3 DEF RowsOK, Taken
  <2>5. PICK m \in Msgs, kind \in {r.op} : m = r.g
    BY <2>2
  <2> QED
    BY <1>2, <1>3, <2>2, <2>4, <2>5 DEF Kinds
<1> QED
  BY <1>2, <1>4, <1>5

LEMMA TakenStep ==
    ASSUME Typed, Typed', Grows, LogOK, PosOK, PassedOK, RowsOK, TakenOK, FollowOK, [Next]_vars
    PROVE  TakenOK'
<1> SUFFICES ASSUME NEW a \in Jobs, Taken(a)' PROVE gmail'[job'[a].g] # "absent" /\ Apt(a)'
  BY DEF TakenOK
<1>1. Placed({}) \/ (ListHistory /\ Placed(Passing))
  BY PlacedStep
<1>2. apart \subseteq apart'
  BY ApartGrows
<1>3. \/ gmail' = gmail \/ AtGmail \/ SendChange
  BY GmailKept
<1>4. CASE Taken(a) /\ job'[a].g = job[a].g /\ job'[a].trashed = job[a].trashed
  <2>1. a = "sync" => Forward({})
    <3>1. ListHistory => a # "sync"
      BY <1>4 DEF ListHistory, Taken, Typed, RunTyped
    <3> QED
      BY <1>1, <3>1 DEF Placed
  <2> QED
    BY <1>2, <1>3, <1>4, <2>1, TakenOn
<1>5. CASE Onto(a)
  <2>1. job'[a] = job[a]
    BY <1>5 DEF Onto, Taken, NoJob
  <2> QED
    BY <1>4, <2>1 DEF Taken
<1>6. CASE Takes(a)
  <2>1. job[a] \in Job /\ job[a] # NoJob
    BY <1>6 DEF Takes, NoJob, Typed, RunTyped
  <2>2. job'[a].g = job[a].g /\ job'[a].trashed = (gmail[job[a].g] = "trash")
    <3>1. PICK t \in BOOLEAN : t = (gmail[job[a].g] = "trash")
      OBVIOUS
    <3>2. job' = [job EXCEPT ![a].step = "store", ![a].trashed = t]
      BY <1>6, <3>1 DEF Takes
    <3>3. job'[a] = [job[a] EXCEPT !.step = "store", !.trashed = t]
      BY <3>2 DEF Typed, RunTyped
    <3> QED
      BY <2>1, <3>1, <3>3 DEF Job
  <2>3. gmail' = gmail /\ gmail[job[a].g] \in {"in", "trash"}
    BY <1>6 DEF Takes, google, Here
  <2> QED
    BY <2>2, <2>3 DEF Apt
<1>7. CASE Store(a) \/ Link(a)
  <2>1. PICK s : job' = [job EXCEPT ![a].step = s]
    BY <1>7 DEF Store, Link, NextStep
  <2>2. job[a] \in Job /\ job[a] # NoJob /\ job'[a] = [job[a] EXCEPT !.step = s]
    BY <1>7, <2>1 DEF Store, Link, NoJob, Typed, RunTyped
  <2>3. Taken(a) /\ job'[a].g = job[a].g /\ job'[a].trashed = job[a].trashed
    BY <1>7, <2>2 DEF Job, Store, Link, Taken
  <2> QED
    BY <1>4, <2>3
<1>8. CASE job'[a] = job[a]
  BY <1>4, <1>8 DEF Taken
<1>9. \/ Onto(a) \/ Takes(a) \/ Store(a) \/ Link(a) \/ job'[a] = job[a]
  <2>1. CASE Steady \/ AlarmFires \/ RenewWatch
    BY <2>1, DrainHolds DEF Steady
  <2>2. CASE DisconnectGmail
    BY <2>2 DEF DisconnectGmail
  <2>3. CASE ImportBegins
    <3>1. PICK g \in Msgs : Begins("import", g)
      BY <2>3, Zenon DEF ImportBegins, Begins, Here
    <3>2. job'["import"].step = "fetch" /\ job'["sync"] = job["sync"]
      BY <3>1, BeginsJob DEF Jobs
    <3> QED
      BY <3>2 DEF Taken, Jobs
  <2>4. ASSUME NEW b \in Jobs, Takes(b) \/ Store(b) \/ Link(b)
        PROVE  Takes(a) \/ Store(a) \/ Link(a) \/ job'[a] = job[a]
    BY <2>4, TakesImports
  <2> QED
    BY <2>1, <2>2, <2>3, <2>4, SteadyStep
<1> QED
  BY <1>5, <1>6, <1>7, <1>8, <1>9

-----------------------------------------------------------------------------
(* The two sides, a step at a time *)

LEMMA BeginsAside == ASSUME Typed, NEW g, Begins("sync", g) PROVE job'["import"] = job["import"]
BY DEF Begins, Jobs, Typed, RunTyped

LEMMA ImportAside ==
    ASSUME Typed, End \/ UNCHANGED job \/ (\E g : Begins("sync", g)) \/ (\E h : Synced(h))
    PROVE  job'["import"] = job["import"]
<1>1. ASSUME NEW g, Begins("sync", g) PROVE job'["import"] = job["import"]
  BY <1>1, BeginsAside
<1>2. CASE End \/ UNCHANGED job \/ \E h : Synced(h)
  BY <1>2 DEF Synced, Finish, End, Jobs, Typed, RunTyped
<1> QED
  BY <1>1, <1>2

LEMMA JobAside ==
    ASSUME Typed, NEW a \in Jobs, NEW b \in Jobs \ {a}, JobDone(a) PROVE job'[b] = job[b]
<1>1. CASE a = "import"
  BY <1>1 DEF JobDone, Jobs, Typed, RunTyped
<1>2. CASE a = "sync"
  <2> DEFINE g == Max(tick.ids \ {job[a].g})
  <2>1. job' = [job EXCEPT !["sync"] = NoJob] \/ Synced(tick.latest) \/ Begins("sync", g)
    BY <1>2, Zenon DEF JobDone, Begins
  <2>2. CASE job' = [job EXCEPT !["sync"] = NoJob]
    BY <1>2, <2>2 DEF Jobs, Typed, RunTyped
  <2>3. CASE Synced(tick.latest) \/ Begins("sync", g)
    <3> HIDE DEF g
    <3> QED
      BY <1>2, <2>3, ImportAside DEF Jobs
  <2> QED
    BY <2>1, <2>2, <2>3
<1> QED
  BY <1>1, <1>2 DEF Jobs

LEMMA DrainEnds ==
    ASSUME NEW t, NEW rows, NEW h, NEW poll, NEW w,
           Drain(t, h, poll, w) \/ AfterDrain(t, rows, h, poll, w) \/ Ask(t, w)
    PROVE  End \/ UNCHANGED job
BY DEF Drain, AfterDrain, Ask, Fail, Finish

LEMMA ListEnds ==
    ASSUME ListHistory PROVE UNCHANGED job \/ (\E g : Begins("sync", g)) \/ (\E h : Synced(h))
<1>1. Synced(Len(glog)) \/ Begins("sync", glog[tick.at + 1].g) \/ UNCHANGED job
  BY Zenon DEF ListHistory, Begins, Ask
<1> QED
  BY <1>1, Zenon

\* The labels are set, or it is left out of account that they are not.
LEMMA LabelsCome ==
    ASSUME Typed, NEW b \in Jobs, job[b].step = "labels", [Next]_vars
    PROVE  job'[b] = job[b] \/ Labels(b) \/ job[b].g \in apart'
<1>1. CASE \/ AtGmail \/ Forget \/ Withdraw \/ GmailPushed \/ InBusta \/ RetryDue \/ RenewalComes
           \/ SignIn \/ ConnectGmail \/ DisconnectGmail \/ UNCHANGED vars
  BY <1>1 DEF AtGmail, Forget, Withdraw, GmailPushed, InBusta, RetryDue, RenewalComes, SignIn, ConnectGmail,
              DisconnectGmail, vars
<1>2. CASE AlarmFires \/ RenewWatch \/ SendChange \/ FailedCall
  <2>1. End \/ UNCHANGED job
    <3>1. CASE SendChange
      BY <3>1, SendsOne, DrainEnds DEF Sends, SentOn, Fail
    <3>2. CASE AlarmFires \/ RenewWatch
      BY <3>2, DrainEnds DEF AlarmFires, RenewWatch, Fail
    <3>3. CASE FailedCall
      BY <3>3 DEF FailedCall, Fail
    <3> QED
      BY <1>2, <3>1, <3>2, <3>3
  <2>2. b = "import"
    BY <1>2 DEF AlarmFires, RenewWatch, SendChange, FailedCall, Jobs, Typed, RunTyped
  <2> QED
    BY <2>1, <2>2, ImportAside
<1>3. CASE Profile \/ ListHistory \/ TooFarBehind \/ CatchUp \/ Recent
  <2>1. UNCHANGED job \/ (\E g : Begins("sync", g)) \/ (\E h : Synced(h))
    <3>1. CASE Profile \/ TooFarBehind \/ CatchUp
      BY <3>1 DEF Profile, TooFarBehind, CatchUp, Ask
    <3>2. CASE ListHistory
      BY <3>2, ListEnds
    <3>3. CASE Recent
      <4> DEFINE all == {g \in Msgs : gmail[g] = "in"}
                 page == {g \in all : Cardinality({h \in all : h > g}) < ListMax}
                 g == Max(page)
      <4>1. Synced(tick.latest) \/ Begins("sync", g)
        BY <3>3, Zenon DEF Recent, Begins
      <4> QED
        BY <4>1, Zenon
    <3> QED
      BY <1>3, <3>1, <3>2, <3>3
  <2>2. b = "import"
    BY <1>3 DEF Profile, ListHistory, TooFarBehind, CatchUp, Recent, Jobs, Typed, RunTyped
  <2> QED
    BY <2>1, <2>2, ImportAside
<1>4. CASE TickDies
  BY <1>4, ImportAside DEF TickDies, Halfway, Apart, Jobs
<1>5. CASE ImportFails
  BY <1>5 DEF ImportFails, Halfway, Apart, Jobs, Typed, RunTyped
<1>6. CASE ImportBegins
  <2>1. PICK g \in Msgs : Begins("import", g)
    BY <1>6, Zenon DEF ImportBegins, Begins, Here
  <2>2. job["import"] = NoJob
    BY <1>6, Zenon DEF ImportBegins
  <2> QED
    BY <2>1, <2>2, BeginsJob DEF NoJob, Jobs
<1>7. ASSUME NEW a \in Jobs, Fetch(a) \/ Labels(a) PROVE job'[b] = job[b] \/ Labels(b)
  <2>1. CASE Takes(a) \/ JobDone(a)
    BY <1>7, <2>1, TakesImports, JobAside DEF Takes, Fetch
  <2> QED
    BY <1>7, <2>1, FetchTakes DEF Labels
<1>8. ASSUME NEW a \in Jobs, Store(a) \/ Link(a) PROVE job'[b] = job[b]
  BY <1>8, TakesImports DEF Store, Link
<1> QED
  BY <1>1, <1>2, <1>3, <1>4, <1>5, <1>6, <1>7, <1>8 DEF Next

\* A message that the step is not about.
LEMMA SettledStill ==
    ASSUME Typed, Typed', Grows, NEW g \in Msgs \ apart', NEW S, Forward(S), g \notin S,
           trashed'[g] = trashed[g], gmail'[g] = gmail[g],
           Asked(g) => Settled(g)', Labelling(g) => Settled(g)', Settled(g)
    PROVE  Settled(g)'
<1>1. CASE Level(g)
  BY <1>1 DEF Settled, Level
<1>2. CASE Ahead(g)
  BY <1>2, AheadStill DEF Settled
<1> QED
  BY <1>1, <1>2 DEF Settled

LEMMA LabellingStill ==
    ASSUME Typed, [Next]_vars, NEW g \in Msgs \ apart', \A a \in Jobs : Labels(a) => job[a].g # g, Labelling(g)
    PROVE  Settled(g)'
<1>1. PICK a \in Jobs : job[a].step = "labels" /\ job[a].g = g
  BY DEF Labelling
<1>2. job'[a] = job[a]
  BY <1>1, LabelsCome
<1> QED
  BY <1>1, <1>2 DEF Settled, Labelling

\* What is done at Gmail is told of, or left out of account.
LEMMA AtGmailAgrees ==
    ASSUME Typed, Typed', Grows, LogOK, PosOK, PassedOK, Agree, AtGmail PROVE Agree'
<1> SUFFICES ASSUME NEW g \in Linked' \ apart' PROVE Settled(g)'
  BY DEF Agree
<1>1. PICK m \in Msgs, kind \in Kinds :
        Moved(m, kind) /\ (kind # "add" /\ (hist = None \/ m = job["import"].g) => m \in apart')
  BY AtGmailMoves
<1>2. UNCHANGED <<tick, hist, box, trashed, outbox, job>>
  BY DEF AtGmail, state, mail
<1>3. g \in Linked /\ g \in Msgs /\ g \notin apart
  BY <1>2 DEF Linked, AtGmail, Arrive, Relabel, Apart
<1>4. Settled(g) /\ gmail[g] # "absent"
  BY <1>3 DEF Agree, LogOK, Linked
<1>5. CASE m = g
  <2>1. kind # "add"
    BY <1>1, <1>4, <1>5 DEF Moved
  <2>2. Pos' = Pos
    BY <1>1, <1>2, <1>5, <2>1 DEF Pos, Spot
  <2> QED
    BY <1>1, <1>5, <2>1, <2>2, MovedAhead DEF Settled, Ahead
<1>6. CASE m # g
  <2>1. gmail'[g] = gmail[g]
    <3>1. \A n \in Msgs \ {m} : gmail'[n] = gmail[n]
      BY <1>1, MovedLog
    <3> QED
      BY <1>3, <1>6, <3>1
  <2>2. Forward({})
    BY AtGmailPlaced DEF Placed
  <2>3. Asked(g) \/ Labelling(g) => Settled(g)'
    BY <1>2 DEF Asked, Labelling, Settled
  <2> QED
    BY <1>2, <1>3, <1>4, <2>1, <2>2, <2>3, SettledStill
<1> QED
  BY <1>5, <1>6

\* A change in Busta waits to be sent, or is left out of account.
LEMMA InBustaAgrees ==
    ASSUME Typed, Typed', Grows, PosOK, PassedOK, Agree, InBusta PROVE Agree'
<1> SUFFICES ASSUME NEW g \in Linked' \ apart' PROVE Settled(g)'
  BY DEF Agree
<1>1. PICK m \in Msgs :
        /\ trashed' = [trashed EXCEPT ![m] = ~@]
        /\ ToGmail(m, IF trashed[m] THEN "untrash" ELSE "trash")
        /\ Apart(IF conn # "none" /\ m \in Linked THEN Overlap(m) ELSE {m})
  BY DEF InBusta
<1>2. UNCHANGED <<glog, gmail, tick, hist, conn, renewDue, box, job>>
  BY DEF InBusta, google, state
<1>3. g \in Linked /\ g \in Msgs /\ g \notin apart /\ apart \subseteq apart' /\ outbox \subseteq outbox'
  BY <1>1, <1>2 DEF Linked, Apart, ToGmail
<1>4. CASE m = g
  <2>1. conn # "none" /\ g \in Linked
    BY <1>1, <1>3, <1>4 DEF Apart
  <2> PICK row : row = [seq |-> changes + 1, g |-> g, op |-> IF trashed[g] THEN "untrash" ELSE "trash",
                        attempts |-> 0, due |-> TRUE]
    OBVIOUS
  <2>2. row \in outbox'
    BY <1>1, <1>4, <2>1 DEF ToGmail
  <2>3. trashed'[g] = ~ trashed[g]
    BY <1>1, <1>3, <1>4 DEF Typed, MailTyped
  <2>4. row.g = g /\ (row.op = "trash" <=> ~ trashed[g])
    OBVIOUS
  <2> QED
    BY <2>2, <2>3, <2>4 DEF Settled, Asked
<1>5. CASE m # g
  <2>1. trashed'[g] = trashed[g]
    BY <1>1, <1>3, <1>5 DEF Typed, MailTyped
  <2>2. Forward({})
    BY <1>2, <1>3, StandsPlaced DEF Placed
  <2>3. Asked(g) \/ Labelling(g) => Settled(g)'
    BY <1>2, <1>3, <2>1 DEF Asked, Labelling, Settled
  <2>4. Settled(g)
    BY <1>3 DEF Agree
  <2> QED
    BY <1>2, <1>3, <2>1, <2>2, <2>3, <2>4, SettledStill
<1> QED
  BY <1>4, <1>5

\* A change that is sent takes effect, and history tells of it, unless it was so
\* at Gmail already.
LEMMA SendAgrees ==
    ASSUME Typed, Typed', Grows, LogOK, PosOK, PassedOK, RowsOK, Agree, SendChange PROVE Agree'
<1> SUFFICES ASSUME NEW g \in Linked' \ apart' PROVE Settled(g)'
  BY DEF Agree
<1>1. PICK r \in tick.todo : Sends(r)
  BY SendsOne
<1>2. /\ UNCHANGED <<box, trashed>> /\ tick.pc = "drain" /\ apart \subseteq apart'
      /\ r \in Row /\ r \in Held /\ r.g \in Msgs
      /\ UNCHANGED <<glog, gmail>> \/ (r.op \in Kinds \ {"add"} /\ Moved(r.g, r.op))
  <2>1. r \in Row /\ r \in Held /\ (UNCHANGED <<glog, gmail>> \/ (r.op \in Kinds \ {"add"} /\ Moved(r.g, r.op)))
    BY <1>1, SendMoves
  <2>2. UNCHANGED <<box, trashed>> /\ tick.pc = "drain" /\ apart \subseteq apart'
    BY <1>1 DEF Sends, mail, Apart
  <2>3. r.g \in Msgs
    BY <2>1 DEF Row
  <2> QED
    BY <2>1, <2>2, <2>3
<1>3. g \in Linked /\ g \in Msgs /\ g \notin apart
  BY <1>2 DEF Linked
<1>4. Settled(g) /\ Forward({})
  BY <1>3, SendPlaced DEF Agree, Placed
<1>5. Labelling(g) => Settled(g)'
  <2>1. End \/ UNCHANGED job
    BY <1>1, DrainEnds DEF Sends, SentOn, Fail
  <2>2. job["sync"].step # "labels"
    BY <1>2 DEF Typed, RunTyped
  <2> QED
    BY <2>1, <2>2, ImportAside DEF Labelling, Settled, Jobs
\* Who waits with another change still does.
<1>6. ASSUME NEW q \in outbox, q.g = g, q.op = "trash" <=> trashed[g], q.seq # r.seq \/ outbox' = OutboxRetry(r)
      PROVE  Settled(g)'
  <2>1. \E p \in outbox' : p.g = g /\ p.op = q.op
    <3>1. CASE q.seq # r.seq /\ outbox' = OutboxDone(r)
      BY <1>6, <3>1 DEF OutboxDone
    <3>2. CASE outbox' = OutboxRetry(r)
      <4> DEFINE next(p) == IF p.seq = r.seq THEN [p EXCEPT !.attempts = r.attempts + 1, !.due = FALSE] ELSE p
      <4>1. next(q).g = q.g /\ next(q).op = q.op
        BY DEF Typed, MailTyped, Row
      <4>2. outbox' = {next(p) : p \in outbox}
        BY <3>2, Zenon DEF OutboxRetry
      <4> HIDE DEF next
      <4> QED
        BY <1>6, <4>1, <4>2
    <3> QED
      BY <1>1, <1>6, <3>1, <3>2 DEF Sends, SentOn
  <2> QED
    BY <1>2, <1>6, <2>1 DEF Settled, Asked
<1>7. ASSUME NEW q \in outbox, q.g = g, q.op = "trash" <=> trashed[g], q.seq = r.seq, outbox' # OutboxRetry(r)
      PROVE  Settled(g)'
  <2>1. q.g = r.g /\ q.op = r.op
    BY <1>2, <1>7 DEF RowsOK
  <2>2. /\ Apply(r) /\ SentOn(r, OutboxDone(r)) /\ UNCHANGED apart
    BY <1>1, <1>7, <2>1 DEF Sends, SentOn, Apart
  <2>3. hist # None
    BY <1>2, <1>3, <1>7, <2>1 DEF RowsOK
  <2>4. Pos' = Pos
    <3>1. Pos' = hist
      BY <1>2, <2>2, <2>3, SentOnPlaces
    <3> QED
      BY <1>2, <2>3, <3>1 DEF Pos, Spot, Listing, Catching
  <2>5. CASE Moved(r.g, r.op) /\ r.op \in Kinds \ {"add"}
    <3> PICK kind \in Kinds \ {"add"} : kind = r.op
      BY <2>5
    <3>1. Ahead(g)'
      BY <1>3, <1>7, <2>1, <2>4, <2>5, MovedAhead
    <3> QED
      BY <3>1 DEF Settled
  <2>6. CASE UNCHANGED <<glog, gmail>>
    <3>1. gmail[g] = IF r.op = "trash" THEN "trash" ELSE "in"
      <4>1. gmail[r.g] = (IF r.op = "trash" THEN "trash" ELSE "in")
            \/ gmail' = [gmail EXCEPT ![r.g] = IF r.op = "trash" THEN "trash" ELSE "in"]
        BY <2>2 DEF Apply
      <4> QED
        BY <1>2, <1>7, <2>1, <2>6, <4>1 DEF Typed, LogTyped
    <3> QED
      BY <1>2, <1>7, <2>1, <2>6, <3>1 DEF Settled, Level
  <2> QED
    BY <1>2, <2>5, <2>6
<1>8. Asked(g) => Settled(g)'
  BY <1>6, <1>7 DEF Asked
<1>9. CASE gmail'[g] = gmail[g]
  BY <1>2, <1>3, <1>4, <1>5, <1>8, <1>9, SettledStill
<1>10. CASE gmail'[g] # gmail[g]
  <2>1. PICK m \in Msgs, kind \in Kinds \ {"add"} : m = r.g /\ kind = r.op
    BY <1>2, <1>10
  <2>2. Moved(m, kind)
    BY <1>2, <1>10, <2>1
  <2>3. m = g
    <3>1. \A n \in Msgs \ {m} : gmail'[n] = gmail[n]
      BY <2>2, MovedLog
    <3> QED
      BY <1>3, <1>10, <3>1
  <2>4. hist # None
    BY <1>1, <1>2, <1>3, <1>10, <2>1, <2>3 DEF RowsOK, Sends
  <2>5. Pos' = Pos
    <3>1. Pos' = hist
      BY <1>1, <1>2, <1>10, <2>4, SentOnPlaces DEF Sends
    <3> QED
      BY <1>2, <2>4, <3>1 DEF Pos, Spot, Listing, Catching
  <2>6. Ahead(m)'
    BY <2>2, <2>5, MovedAhead
  <2> QED
    BY <2>3, <2>6 DEF Settled, Ahead
<1> QED
  BY <1>9, <1>10

\* A record that is applied leaves the mailbox as Gmail is, but for the records
\* that come after it.
LEMMA AppliedAgrees ==
    ASSUME Typed, Typed', LogOK, PassedOK, ListHistory, NEW g \in Passing \ apart',
           trashed'[g] = (glog[tick.at + 1].kind # "untrash")
    PROVE  Settled(g)'
<1> PICK n \in Nat : n = Len(glog)
  BY PosTyped
<1>0. /\ tick \in Tick /\ tick.pc = "list" /\ UNCHANGED <<glog, gmail, apart>>
      /\ tick.at \in Nat /\ hist \in {None} \cup Nat
  BY DEF ListHistory, google, Typed, RunTyped, StateTyped, Tick
<1> PICK k \in Nat : k = tick.at
  BY <1>0
<1>1. k < n /\ glog[k + 1].g = g /\ glog[k + 1].kind # "add" /\ k + 1 \in 1..n
  BY DEF Passing
<1>2. glog[k + 1].kind \in Kinds
  BY <1>1, Entries DEF Entry, Kinds
<1>3. CASE gmail[g] = Leaves(glog[k + 1].kind)
  <2>1. Level(g)'
    BY <1>0, <1>1, <1>2, <1>3 DEF Level, Leaves, Kinds
  <2> QED
    BY <2>1 DEF Settled
<1>4. CASE gmail[g] # Leaves(glog[k + 1].kind)
  <2>1. PICK j \in k + 2..n : glog[j].g = g /\ glog[j].kind # "add"
    BY <1>1, <1>4 DEF LogOK
  <2>2. hist # None
    BY <1>0, <1>1 DEF PassedOK, Listing
  <2>3. Ask([tick EXCEPT !.at = @ + 1, !.latest = Len(glog)], wake) /\ hist' = hist
    BY <1>1, <2>1 DEF ListHistory
  <2>4. tick'.pc = "list" /\ tick'.at = k + 1
    BY <1>0, <2>3 DEF Ask, Tick
  <2>5. Pos' = k + 1
    BY <2>2, <2>3, <2>4 DEF Pos, Spot, Listing
  <2>6. Ahead(g)'
    BY <1>0, <2>1, <2>5 DEF Ahead
  <2> QED
    BY <2>6 DEF Settled
<1> QED
  BY <1>3, <1>4

LEMMA ListAgrees ==
    ASSUME Typed, Typed', Grows, LogOK, PosOK, PassedOK, Agree, ListHistory PROVE Agree'
<1> SUFFICES ASSUME NEW g \in Linked' \ apart' PROVE Settled(g)'
  BY DEF Agree
<1>1. /\ UNCHANGED <<glog, gmail, box, outbox, apart>> /\ tick.pc = "list" /\ trashed \in [Msgs -> BOOLEAN]
      /\ Placed(Passing)
  BY ListPlaced DEF ListHistory, google, Typed, MailTyped
<1>2. g \in Linked /\ g \in Msgs /\ g \notin apart
  BY <1>1 DEF Linked
<1>3. \/ trashed' = trashed
      \/ /\ tick.at # Len(glog) /\ glog[tick.at + 1].kind # "add" /\ glog[tick.at + 1].g \in Linked
         /\ trashed' = [trashed EXCEPT ![glog[tick.at + 1].g] = glog[tick.at + 1].kind # "untrash"]
  BY DEF ListHistory
<1>4. CASE g \in Passing /\ trashed' # trashed
  BY <1>2, <1>3, <1>4, AppliedAgrees DEF Passing, Typed, MailTyped
<1>5. CASE g \in Passing /\ trashed' = trashed
  <2>1. glog[tick.at + 1].g = g /\ glog[tick.at + 1].kind # "add" /\ tick.at # Len(glog)
    BY <1>5 DEF Passing
  <2>2. trashed' = [trashed EXCEPT ![g] = glog[tick.at + 1].kind # "untrash"]
    BY <1>2, <2>1 DEF ListHistory
  <2> QED
    BY <1>1, <1>2, <1>5, <2>2, AppliedAgrees
<1>6. CASE g \notin Passing
  <2>1. trashed'[g] = trashed[g]
    <3>1. tick.at \in Nat /\ Len(glog) \in Nat /\ tick.at <= Len(glog)
      BY DEF Typed, RunTyped, Tick, LogTyped
    <3>2. tick.at # Len(glog) /\ glog[tick.at + 1].kind # "add" => g # glog[tick.at + 1].g
      BY <1>6, <3>1 DEF Passing
    <3> QED
      BY <1>1, <1>2, <1>3, <3>2
  <2>2. Asked(g) => Settled(g)'
    BY <1>1, <2>1 DEF Asked, Settled
  <2>3. Labelling(g) => Settled(g)'
    <3>1. job'["import"] = job["import"]
      BY ListEnds, ImportAside
    <3>2. job["sync"].step # "labels"
      BY <1>1 DEF Typed, RunTyped
    <3> QED
      BY <3>1, <3>2 DEF Labelling, Settled, Jobs
  <2> QED
    BY <1>1, <1>2, <1>6, <2>1, <2>2, <2>3, SettledStill DEF Placed, Agree
<1> QED
  BY <1>4, <1>5, <1>6

\* A message that is linked gets its labels.
LEMMA LinkAgrees ==
    ASSUME Typed, Typed', Grows, PosOK, PassedOK, Agree, NEW a \in Jobs, Link(a) PROVE Agree'
<1> SUFFICES ASSUME NEW g \in Linked' \ apart' PROVE Settled(g)'
  BY DEF Agree
<1>1. UNCHANGED <<glog, gmail, trashed, outbox, apart, state, tick>>
  BY DEF Link, NextStep, google
<1>2. job' = [job EXCEPT ![a].step = "labels"] /\ job[a] \in Job /\ job[a] # NoJob /\ job[a].step = "link"
  BY DEF Link, NextStep, Typed, RunTyped, NoJob
<1>3. job'[a].step = "labels" /\ job'[a].g = job[a].g
  BY <1>2 DEF Typed, RunTyped, Job
<1>4. CASE g = job[a].g
  BY <1>3, <1>4 DEF Settled, Labelling
<1>5. CASE g # job[a].g
  <2>1. g \in Linked /\ g \in Msgs
    BY <1>5 DEF Link, Linked, Typed, MailTyped
  <2>2. Settled(g) /\ Forward({})
    BY <1>1, <2>1, StandsPlaced DEF Agree, Placed, state
  <2>3. Asked(g) => Settled(g)'
    BY <1>1 DEF Asked, Settled
  <2>4. Labelling(g) => Settled(g)'
    <3>1. \A b \in Jobs \ {a} : job'[b] = job[b]
      BY TakesImports
    <3> QED
      BY <1>2, <3>1 DEF Labelling, Settled
  <2> QED
    BY <1>1, <2>1, <2>2, <2>3, <2>4, SettledStill
<1> QED
  BY <1>4, <1>5

\* The labels are Gmail's, but for what its history will tell.
LEMMA LabelsAgree ==
    ASSUME Typed, Typed', Grows, PosOK, PassedOK, FollowOK, TakenOK, Agree, NEW a \in Jobs, Labels(a)
    PROVE  Agree'
<1> SUFFICES ASSUME NEW g \in Linked' \ apart' PROVE Settled(g)'
  BY DEF Agree
<1>1. /\ UNCHANGED <<glog, gmail, box, outbox, apart>> /\ job[a].step = "labels" /\ JobDone(a)
      /\ trashed' = [trashed EXCEPT ![job[a].g] = job[a].trashed]
  BY DEF Labels, google
<1>2. g \in Linked /\ g \in Msgs /\ Placed({})
  BY <1>1, JobPlaced DEF Linked
<1>3. CASE g = job[a].g
  <2>1. (job[a].trashed <=> gmail[g] # "in") \/ Ahead(g)
    BY <1>1, <1>3 DEF TakenOK, Taken, Apt
  <2>2. trashed'[g] = job[a].trashed
    BY <1>1, <1>2, <1>3 DEF Typed, MailTyped
  <2>3. Ahead(g) => Ahead(g)'
    BY <1>2, AheadStill DEF Placed
  <2> QED
    BY <1>1, <2>1, <2>2, <2>3 DEF Settled, Level
<1>4. CASE g # job[a].g
  <2>1. trashed'[g] = trashed[g] /\ Settled(g)
    BY <1>1, <1>2, <1>4 DEF Agree, Typed, MailTyped
  <2>2. Asked(g) => Settled(g)'
    BY <1>1, <2>1 DEF Asked, Settled
  <2>3. Labelling(g) => Settled(g)'
    <3>1. \A b \in Jobs \ {a} : job'[b] = job[b]
      BY <1>1, JobAside
    <3> QED
      BY <1>4, <3>1 DEF Labelling, Settled
  <2> QED
    BY <1>1, <1>2, <2>1, <2>2, <2>3, SettledStill DEF Placed
<1> QED
  BY <1>3, <1>4

\* All other steps leave the messages and the changes as they are, or leave them
\* out of account.
LEMMA OtherAgrees ==
    ASSUME Typed, Typed', Grows, [Next]_vars, Placed({}), Agree, UNCHANGED <<gmail, trashed>>,
           Linked' \subseteq Linked, apart \subseteq apart',
           \A r \in outbox : r.g \in apart' \/ \E q \in outbox' : q.g = r.g /\ q.op = r.op,
           \A a \in Jobs : ~ Labels(a)
    PROVE  Agree'
<1> SUFFICES ASSUME NEW g \in Linked' \ apart' PROVE Settled(g)'
  BY DEF Agree
<1>1. g \in Msgs /\ Settled(g)
  BY DEF Agree, Linked
<1>2. Asked(g) => Settled(g)'
  BY DEF Asked, Settled
<1>3. Labelling(g) => Settled(g)'
  BY <1>1, LabellingStill
<1> QED
  BY <1>1, <1>2, <1>3, SettledStill DEF Placed

LEMMA AgreeStep ==
    ASSUME Typed, Typed', Grows, LogOK, PosOK, PassedOK, FollowOK, TakenOK, RowsOK, Agree, [Next]_vars
    PROVE  Agree'
<1>1. CASE \/ AtGmail \/ InBusta \/ SendChange \/ ListHistory \/ \E a \in Jobs : Link(a) \/ Labels(a)
  BY <1>1, AtGmailAgrees, InBustaAgrees, SendAgrees, ListAgrees, LinkAgrees, LabelsAgree
<1>2. CASE ~ (\/ AtGmail \/ InBusta \/ SendChange \/ ListHistory \/ \E a \in Jobs : Link(a) \/ Labels(a))
  <2>1. Placed({})
    BY <1>2, PlacedStep
  <2>2. UNCHANGED gmail /\ apart \subseteq apart'
    BY <1>2, GmailKept, ApartGrows
  <2>3. UNCHANGED trashed /\ Linked' \subseteq Linked
    <3>1. CASE ImportBegins
      <4>1. mail' = mail
        BY <3>1, Zenon DEF ImportBegins
      <4> QED
        BY <4>1 DEF mail, Linked
    <3>2. CASE \E a \in Jobs : Store(a)
      BY <3>2 DEF Store, Linked, Typed, MailTyped
    <3>3. CASE \/ Forget \/ Withdraw \/ GmailPushed \/ RetryDue \/ RenewalComes \/ AlarmFires \/ FailedCall
               \/ RenewWatch \/ Profile \/ TooFarBehind \/ CatchUp \/ Recent \/ ImportFails \/ TickDies
               \/ SignIn \/ ConnectGmail \/ DisconnectGmail \/ UNCHANGED vars \/ \E a \in Jobs : Fetch(a)
      <4>1. UNCHANGED <<trashed, box>>
        BY <3>3 DEF Forget, Withdraw, GmailPushed, RetryDue, RenewalComes, AlarmFires, FailedCall,
                    RenewWatch, Profile, TooFarBehind, CatchUp, Recent, ImportFails, TickDies, SignIn,
                    ConnectGmail, DisconnectGmail, vars, mail, Fetch
      <4> QED
        BY <4>1 DEF Linked
    <3> QED
      BY <1>2, <3>1, <3>2, <3>3 DEF Next
  <2>4. \A r \in outbox : r.g \in apart' \/ \E q \in outbox' : q.g = r.g /\ q.op = r.op
    <3>1. CASE ImportBegins
      <4>1. outbox' = outbox
        BY <3>1, Zenon DEF ImportBegins
      <4> QED
        BY <4>1
    <3>2. CASE RetryDue
      <4>1. PICK p \in outbox : outbox' = (outbox \ {p}) \cup {[p EXCEPT !.due = TRUE]}
        BY <3>2 DEF RetryDue
      <4>d. PICK d : d = [p EXCEPT !.due = TRUE]
        OBVIOUS
      <4>2. d.g = p.g /\ d.op = p.op
        BY <4>d DEF Typed, MailTyped, Row
      <4>3. \A r \in outbox : r = p \/ r \in outbox'
        BY <4>1
      <4>4. d \in outbox'
        BY <4>1, <4>d
      <4> QED
        BY <4>2, <4>3, <4>4
    <3>3. CASE DisconnectGmail
      BY <3>3 DEF DisconnectGmail, Apart
    <3>4. CASE \/ Forget \/ Withdraw \/ GmailPushed \/ RenewalComes \/ AlarmFires \/ FailedCall
               \/ RenewWatch \/ Profile \/ TooFarBehind \/ CatchUp \/ Recent \/ ImportFails \/ TickDies
               \/ SignIn \/ ConnectGmail \/ UNCHANGED vars \/ \E a \in Jobs : Fetch(a) \/ Store(a)
      <4>1. outbox' = outbox
        BY <3>4 DEF Forget, Withdraw, GmailPushed, RenewalComes, AlarmFires, FailedCall,
                    RenewWatch, Profile, TooFarBehind, CatchUp, Recent, ImportFails, TickDies, SignIn,
                    ConnectGmail, vars, Fetch, Store
      <4> QED
        BY <4>1
    <3> QED
      BY <1>2, <3>1, <3>2, <3>3, <3>4 DEF Next
  <2> QED
    BY <1>2, <2>1, <2>2, <2>3, <2>4, OtherAgrees
<1> QED
  BY <1>1, <1>2

LEMMA AgreeInit == Init => AgreeInv
<1> SUFFICES ASSUME Init PROVE AgreeInv
  OBVIOUS
<1> USE DEF Init
<1>0. glog = <<>> /\ Len(glog) = 0 /\ tick.pc = "idle"
  BY DEF Idle
<1>1. LogOK /\ PosOK /\ PassedOK
  BY <1>0 DEF LogOK, PosOK, PassedOK, Listing
<1>2. Agree /\ TakenOK /\ RowsOK
  BY <1>0 DEF Agree, Linked, TakenOK, Taken, NoJob, RowsOK, Held, Single
<1> QED
  BY <1>1, <1>2 DEF AgreeInv

LEMMA AgreeInvStep == Typed /\ SkipInv /\ AgreeInv /\ [Next]_vars => AgreeInv'
<1> SUFFICES ASSUME Typed, FollowOK, LogOK, PosOK, PassedOK, Agree, TakenOK, RowsOK, [Next]_vars PROVE AgreeInv'
  BY DEF SkipInv, AgreeInv
<1>1. Typed' /\ Grows
  BY TypeStep, StepGrows
<1>2. PosOK' /\ PassedOK'
  BY PlacedStep DEF Placed
<1>3. LogOK' /\ RowsOK'
  BY LogStep, RowsStep
<1>4. TakenOK' /\ Agree'
  BY <1>1, TakenStep, AgreeStep
<1> QED
  BY <1>2, <1>3, <1>4 DEF AgreeInv

\* At rest nothing is ahead, nothing waits, and nothing is about to be labelled.
LEMMA AgreesAtRest == Typed /\ AgreeInv => SidesAgree
<1> SUFFICES ASSUME Typed, Agree, AtRest, NEW g \in Linked \ apart PROVE Level(g)
  BY DEF AgreeInv, SidesAgree, Level
<1>1. outbox = {} /\ tick.pc = "idle" /\ hist = Len(glog) /\ Len(glog) \in Nat /\ job["import"] = NoJob
  BY PosTyped DEF AtRest
<1>2. Pos = Len(glog)
  BY <1>1 DEF Pos, Spot, Listing, Catching
<1>3. ~ Ahead(g)
  BY <1>1, <1>2 DEF Ahead
<1>4. ~ Asked(g)
  BY <1>1 DEF Asked
<1>5. ~ Labelling(g)
  BY <1>1 DEF Labelling, Jobs, NoJob, Typed, RunTyped
<1> QED
  BY <1>3, <1>4, <1>5 DEF Agree, Settled

\* The two sides agree on a message once nothing is under way between them
\* (gmail-sync.ts, drainOutbox and applyHistory; MailboxDO.#toGmail), whatever was
\* retried, interleaved or disconnected, but for the messages a change was given up
\* for, or that changed out of sight of the history.
THEOREM SidesAgreeAlways == Spec => []SidesAgree
<1>1. Init => Typed /\ SkipInv /\ AgreeInv
  BY InitTyped, SkipInit, AgreeInit
<1>2. Typed /\ SkipInv /\ AgreeInv /\ [Next]_vars => Typed' /\ SkipInv' /\ AgreeInv'
  BY TypeStep, KeptStep, AgreeInvStep
<1>3. Typed /\ AgreeInv => SidesAgree
  BY AgreesAtRest
<1> QED
  BY <1>1, <1>2, <1>3, PTL DEF Spec

=============================================================================
