------------------------------ MODULE Wakeups ------------------------------
(***************************************************************************)
(* What waits for an alarm: a ThreadDO over its watermark, a MailboxDO     *)
(* over its own, one that follows Gmail, and an AskDO with a question.     *)
(* They share no state, so a behaviour is one of them: scene says which.   *)
(***************************************************************************)
EXTENDS ThreadStore

CONSTANTS
    Mail, Unwanted, MaxEvents, MaxChanges, MaxTries,      \* GmailSync
    ListMax, MaxImports, MaxConnects,
    Rows, Ours, Chars, Floor,                             \* MailboxRelief
    IndexHigh, IndexLow, IndexBudget,
    Questions, Links, Browsers, Phones,                   \* TextedLinks
    MaxAttempts, MaxPinFails, MaxReissues, MaxOpens, MaxSlips

\* A mailbox holds finitely many messages, and a run of relief takes a number of
\* them; what Gmail numbers is numbered from 1, and so are links; a step is tried
\* at least once.
ASSUME WakeupsAssumption ==
    /\ IsFiniteSet(Rows) /\ IndexBudget \in Nat
    /\ Mail \in SUBSET (Nat \ {0}) /\ IsFiniteSet(Mail) /\ Unwanted \subseteq Mail
    /\ \A b \in {MaxEvents, MaxChanges, MaxTries, ListMax, MaxImports, MaxConnects} : b \in Nat
    /\ IsFiniteSet(Links) /\ Links = 1..Cardinality(Links) /\ MaxAttempts \in Nat \ {0}
    /\ \A b \in {MaxPinFails, MaxReissues, MaxOpens, MaxSlips} : b \in Nat

VARIABLES
    scene,
    \* GmailSync
    glog, gmail, floor, pushed, grant, conn, hist, pending, renewDue, pollDue,
    wake, box, trashed, outbox, tick, job, leaving, signIn, events, changes,
    imports, connects, start, missed, apart,
    \* MailboxRelief
    seq, lastSeq, trimmed, fts, wakeup, handler, relief, purging, come,
    unchecked, unasked,
    \* TextedLinks
    hook, ask, alarm, at, qlog, links, opens, last, link, try, re, made, tries,
    texted, slips, unlogged, opened

G == INSTANCE GmailSync WITH Msgs <- Mail

I == INSTANCE MailboxRelief WITH
        Msgs <- Rows, High <- IndexHigh, Low <- IndexLow, Budget <- IndexBudget

L == INSTANCE TextedLinks WITH MaxTries <- MaxOpens, MaxFaults <- MaxSlips

thread == <<agePolicy, stage, hot, archived, r2, alarmSet, sweeps, reads, purges,
            lost, leaked, raced>>
mailbox == <<glog, gmail, floor, pushed, grant, conn, hist, pending, renewDue, pollDue,
             wake, box, trashed, outbox, tick, job, leaving, signIn, events, changes,
             imports, connects, start, missed, apart>>
depth == <<seq, lastSeq, trimmed, fts, wakeup, handler, relief, purging, come,
           unchecked, unasked>>
question == <<hook, ask, alarm, at, qlog, links, opens, last, link, try, re, made,
              tries, texted, slips, unlogged, opened>>
threadVars == <<thread, faults>>
mailboxVars == <<mailbox, faults>>
depthVars == <<depth, faults>>
questionVars == <<question, faults>>
allVars == <<scene, thread, mailbox, depth, question, faults>>

WakeupsInit ==
    /\ Init /\ G!Init /\ I!Init /\ L!Init
    /\ scene \in {"thread", "mailbox", "index", "question"}
    /\ scene # "thread" => ~agePolicy

InThread(A) == scene = "thread" /\ A
InMailbox(A) == scene = "mailbox" /\ A
InIndex(A) == scene = "index" /\ A
InQuestion(A) == scene = "question" /\ A

WakeupsNext ==
    \/ InThread(Next) /\ UNCHANGED <<scene, mailbox, depth, question>>
    \/ InMailbox(G!Next) /\ UNCHANGED <<scene, thread, depth, question>>
    \/ InIndex(I!Next) /\ UNCHANGED <<scene, thread, mailbox, question>>
    \/ InQuestion(L!Next) /\ UNCHANGED <<scene, thread, mailbox, depth>>

\* Each alarm that is set fires, and what its run awaits comes.
WakeupsSpec ==
    /\ WakeupsInit /\ [][WakeupsNext]_allVars
    /\ WF_threadVars(InThread(AlarmFires))
    /\ WF_threadVars(InThread(PutBody(Alarm)))
    /\ WF_threadVars(InThread(Mark(Alarm)))
    /\ WF_mailboxVars(InMailbox(G!Ticking))
    /\ WF_mailboxVars(InMailbox(G!RetryDue))
    /\ WF_depthVars(InIndex(I!AlarmFires))
    /\ WF_depthVars(InIndex(I!AlarmStep))
    /\ \A q \in Questions : WF_questionVars(InQuestion(L!AskSteps(q)))

-----------------------------------------------------------------------------
(* What the alarms bring about, and what relief may cost *)

\* A thread over the high watermark comes back under it, however often an
\* alarm's run fails or the object restarts; so does a mailbox, if it was asked
\* about after the last write, or its bodies are all given up (alarm, relieve).
SpaceRelieved == PressureRelieved /\ I!IndexRelieved

\* What is trimmed stays found by its header, and only the oldest is trimmed
\* (MailboxDO.relieve, index, unindex).
SearchDepth == I!SearchDepth

\* Whatever fails on the way, the sync comes to each position of Gmail's
\* history, or the account is disconnected (gmailTick, syncHistory).
CaughtUp == G!CaughtUp

\* A question an AskDO has taken up is answered, or said to have failed, in the
\* log as well, unless a call that logs it failed (AskDO.alarm).
QuestionSettles == L!QuestionSettles
=============================================================================
