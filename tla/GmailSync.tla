----------------------------- MODULE GmailSync -----------------------------
(***************************************************************************)
(* Keeping a connected Gmail account and its mailbox in step.              *)
(*                                                                         *)
(* The alarm of the MailboxDO runs gmailTick: renew the watch when it is   *)
(* due, send Gmail the changes made in Busta (the gmail_outbox), follow    *)
(* Gmail's history from the saved position. Every call of Gmail is an      *)
(* await, through the vault that holds the token. Meanwhile the owner      *)
(* changes mail on either side, Gmail pushes, the import queue brings in   *)
(* older mail, and the owner disconnects and connects the account again.   *)
(*                                                                         *)
(* Gmail's history is glog; a position in it is a historyId. Of the labels *)
(* a message has, the model follows TRASH, which deletion sets as well.    *)
(* listHistory gives one record a page. wake says how far off the alarm    *)
(* is.                                                                     *)
(*                                                                         *)
(* A Bug... operator is the operator that follows it with a mistake in it. *)
(***************************************************************************)
EXTENDS Integers, Sequences, FiniteSets, FiniteSetsExt

CONSTANTS
    Msgs,        \* Gmail messages, numbered in order of arrival
    Unwanted,    \* those that are drafts, spam, chats or too large
    MaxEvents,   \* bound on changes made at Gmail
    MaxChanges,  \* bound on changes made in Busta
    MaxTries,    \* attempts a change is retried for (8 in the code)
    ListMax,     \* messages a page of listMessages holds
    MaxFaults,   \* bound on failed calls and ticks that die
    MaxImports,  \* bound on messages the import queue takes up
    MaxConnects  \* bound on sign-ins

ASSUME MsgsAssumption ==
    Msgs \in SUBSET (Nat \ {0}) /\ IsFiniteSet(Msgs) /\ Unwanted \subseteq Msgs
ASSUME BoundsAssumption ==
    \A b \in {MaxEvents, MaxChanges, MaxTries, ListMax, MaxFaults, MaxImports, MaxConnects} : b \in Nat

VARIABLES
    glog,     \* Gmail's history
    gmail,    \* where Gmail has each message
    floor,    \* the position before which Gmail has forgotten its history
    pushed,   \* the position Gmail last pushed for
    grant,    \* the token in the vault, and whether Google takes it
    conn,     \* meta "gmail": absent, live, needs_reconnect
    hist,     \* its historyId
    pending,  \* its pending
    renewDue, \* its watchRenewAt has passed
    pollDue,  \* it has no lastSyncAt, or one of POLL_MS ago
    wake,     \* the alarm
    box,      \* messages and gmail_ext: stored, and linked to the Gmail id
    trashed,  \* messages.deleted_at is set
    outbox,   \* gmail_outbox
    tick,     \* gmailTick
    job,      \* importGmailMessage, of the tick and of the import queue
    leaving,  \* the next await of disconnectGmail
    signIn,   \* the token is stored, connectGmail not yet called
    events, changes, faults, imports, connects,
    start,    \* history: where following began
    missed,   \* history: messages a catch-up did not list
    apart     \* history: messages that may be left different on the two sides

google == <<glog, gmail, floor, pushed>>
state == <<conn, hist, pending, renewDue, pollDue>>
mail == <<box, trashed>>
account == <<grant, leaving, signIn, connects, imports>>
history == <<start, missed, apart>>
vars == <<glog, gmail, floor, pushed, grant, conn, hist, pending, renewDue,
          pollDue, wake, box, trashed, outbox, tick, job, leaving, signIn, events,
          changes, faults, imports, connects, start, missed, apart>>

None == -1
Now == 0 Soon == 1 Far == 2 Never == 3  \* at once, in minutes, in POLL_MS, not set
Jobs == {"sync", "import"}
NoJob == [g |-> 0, step |-> "none", trashed |-> FALSE]
Idle == [pc |-> "idle", todo |-> {}, at |-> 0, latest |-> 0, ids |-> {},
         saw |-> "none", gen |-> 0]
Row == [seq: 1..MaxChanges, g: Msgs, op: {"trash", "untrash"},
        attempts: 0..MaxTries, due: BOOLEAN]
Here == {g \in Msgs : gmail[g] \in {"in", "trash"}}
Linked == {g \in Msgs : box[g] = "linked"}

\* Every variable has its type; only the tick's own job runs without it.
TypeOK ==
    /\ glog \in Seq([kind: {"add", "trash", "untrash", "del"}, g: Msgs])
    /\ gmail \in [Msgs -> {"absent", "in", "trash", "gone"}]
    /\ floor \in 0..Len(glog) /\ pushed \in 0..Len(glog)
    /\ grant \in {"none", "good", "bad"}
    /\ conn \in {"none", "live", "reconnect"}
    /\ hist \in {None} \cup 0..Len(glog) /\ start \in 0..Len(glog)
    /\ pending \in BOOLEAN /\ renewDue \in BOOLEAN /\ pollDue \in BOOLEAN
    /\ wake \in Now..Never
    /\ box \in [Msgs -> {"none", "stored", "linked"}]
    /\ trashed \in [Msgs -> BOOLEAN]
    /\ outbox \subseteq Row /\ tick.todo \subseteq Row
    /\ tick.pc \in {"idle", "renew", "drain", "profile", "list", "bring",
                    "behind", "recent", "catchup"}
    /\ tick.at \in 0..Len(glog) /\ tick.latest \in 0..Len(glog)
    /\ tick.ids \subseteq Msgs /\ tick.gen \in 0..MaxConnects
    /\ tick.saw \in {"none", "good", "bad"}
    /\ job \in [Jobs -> [g: Msgs \cup {0}, trashed: BOOLEAN,
                         step: {"none", "fetch", "store", "link", "labels"}]]
    /\ job["sync"].step # "none" <=> tick.pc \in {"bring", "catchup"}
    /\ leaving \in {"no", "wipe", "forget"} /\ signIn \in BOOLEAN
    /\ missed \cup apart \subseteq Msgs

Init ==
    /\ glog = <<>> /\ gmail = [g \in Msgs |-> "absent"] /\ floor = 0 /\ pushed = 0
    /\ grant = "none" /\ conn = "none" /\ hist = None /\ pending = FALSE
    /\ renewDue = FALSE /\ pollDue = FALSE /\ wake = Never
    /\ box = [g \in Msgs |-> "none"] /\ trashed = [g \in Msgs |-> FALSE]
    /\ outbox = {} /\ tick = Idle /\ job = [a \in Jobs |-> NoJob]
    /\ leaving = "no" /\ signIn = FALSE
    /\ events = 0 /\ changes = 0 /\ faults = 0 /\ imports = 0 /\ connects = 0
    /\ start = 0 /\ missed = {} /\ apart = {}

-----------------------------------------------------------------------------
(* Gmail: the account's mail, its history and its pushes *)

Apart(S) == apart' = apart \cup S
\* A change made while the import queue is bringing the message in.
Overlap(g) == {g} \cap {job["import"].g}

Arrive(g) ==
    /\ gmail[g] = "absent" /\ \A h \in Msgs : h < g => gmail[h] # "absent"
    /\ gmail' = [gmail EXCEPT ![g] = "in"]
    /\ glog' = Append(glog, [kind |-> "add", g |-> g])
    /\ UNCHANGED apart

\* The owner trashes, restores or deletes a message at Gmail.
Relabel(g) ==
    \E to \in {"in", "trash", "gone"} \ {gmail[g]} :
        /\ g \in Here
        /\ gmail' = [gmail EXCEPT ![g] = to]
        /\ glog' = Append(glog, [g |-> g,
               kind |-> CASE to = "trash" -> "trash" [] to = "in" -> "untrash" [] OTHER -> "del"])
        /\ Apart(IF hist = None THEN {g} ELSE Overlap(g))

AtGmail ==
    /\ events < MaxEvents /\ events' = events + 1
    /\ \E g \in Msgs : Arrive(g) \/ Relabel(g)
    /\ UNCHANGED <<floor, pushed, account, state, wake, mail, outbox, tick, job,
                   changes, faults, start, missed>>

\* Gmail forgets the history there is so far.
Forget ==
    /\ floor < Len(glog) /\ faults < MaxFaults
    /\ floor' = Len(glog) /\ faults' = faults + 1
    /\ UNCHANGED <<glog, gmail, pushed, account, state, wake, mail, outbox, tick, job,
                   events, changes, history>>

\* The owner takes Busta's access away at Google.
Withdraw ==
    /\ grant = "good" /\ faults < MaxFaults
    /\ grant' = "bad" /\ faults' = faults + 1
    /\ UNCHANGED <<google, leaving, signIn, connects, imports, state, wake, mail, outbox,
                   tick, job, events, changes, history>>

\* #wake: the sooner of the alarm that is set and this one.
Wake(at) == wake' = Min({wake, at})

\* gmailPushed, for all the changes so far, if it comes at all (one that comes
\* while pending is set, or once all is followed, only costs a sync).
GmailPushed ==
    /\ conn = "live" /\ ~pending /\ hist < Len(glog)
    /\ pushed' = Len(glog)
    /\ pending' = TRUE
    /\ Wake(Now)
    /\ UNCHANGED <<glog, gmail, floor, account, conn, hist, renewDue, pollDue, mail, outbox,
                   tick, job, events, changes, faults, history>>

-----------------------------------------------------------------------------
(* Changes made in Busta *)

\* trash and restore with #toGmail: recorded for Gmail when the account is
\* connected and the message is linked.
ToGmail(g, op) ==
    LET row == [seq |-> changes + 1, g |-> g, op |-> op, attempts |-> 0, due |-> TRUE] IN
    IF conn # "none" /\ g \in Linked
    THEN outbox' = outbox \cup {row} /\ Wake(Soon)
    ELSE UNCHANGED <<outbox, wake>>

InBusta ==
    \E g \in Msgs :
        /\ box[g] # "none" /\ changes < MaxChanges
        /\ changes' = changes + 1
        /\ trashed' = [trashed EXCEPT ![g] = ~@]
        /\ ToGmail(g, IF trashed[g] THEN "untrash" ELSE "trash")
        /\ Apart(IF conn # "none" /\ g \in Linked THEN Overlap(g) ELSE {g})
        /\ UNCHANGED <<google, account, state, box, tick, job, events, faults,
                       start, missed>>

\* The next_at of a row that is to be retried comes.
RetryDue ==
    \E r \in outbox :
        /\ ~r.due
        /\ outbox' = (outbox \ {r}) \cup {[r EXCEPT !.due = TRUE]}
        /\ UNCHANGED <<google, account, state, wake, mail, tick, job, events,
                       changes, faults, history>>

-----------------------------------------------------------------------------
(* The end of a tick, and of the alarm *)

End == tick' = Idle /\ job' = [job EXCEPT !["sync"] = NoJob]

\* Takes every failure for a lost grant.
BugFailAuth(auth) ==
    /\ End
    /\ conn' = IF conn = "live" THEN "reconnect" ELSE conn
    /\ wake' = IF auth THEN wake ELSE Soon

\* handleError: 401 stops the sync until the owner connects again, anything
\* else is tried again in minutes. update does nothing once the state is gone.
Fail(auth) ==
    /\ End
    /\ conn' = IF auth /\ conn = "live" THEN "reconnect" ELSE conn
    /\ wake' = IF auth THEN wake ELSE Soon

\* The return of gmailTick and the setAlarm that ends alarm(): whatever #wake
\* set meanwhile is overwritten. Without a state its fields are a TypeError.
Finish(rows) ==
    /\ End
    /\ UNCHANGED conn
    /\ wake' = CASE conn = "none" -> Soon
                 [] conn # "none" /\ renewDue' -> Now
                 [] OTHER -> IF \E r \in rows : r.due THEN Soon ELSE Far

SetHist(h) ==
    IF conn = "none" THEN UNCHANGED <<hist, start>>
    ELSE hist' = h /\ start' = IF hist = None THEN h ELSE start

\* The end of syncHistory.
Synced(h) ==
    /\ SetHist(h)
    /\ pollDue' = (pollDue /\ conn = "none")
    /\ UNCHANGED <<pending, renewDue>>
    /\ Finish(outbox)

\* The tick goes on to an await of Google; w is the alarm as it stands.
Ask(t, w) == tick' = [t EXCEPT !.saw = grant] /\ wake' = w /\ UNCHANGED <<conn, job>>

\* Relies on the pushes.
BugAfterDrain(t, rows, h, poll, w) ==
    /\ pollDue' = poll
    /\ CASE conn = "none" -> Fail(FALSE) /\ UNCHANGED pending
         [] conn # "none" /\ ~pending -> Finish(rows) /\ UNCHANGED pending
         [] OTHER ->
              /\ pending' = FALSE
              /\ Ask([t EXCEPT !.pc = IF h = None THEN "profile" ELSE "list",
                               !.at = IF h = None THEN 0 ELSE h], w)

\* After drainOutbox left these rows: syncHistory from h if something happened
\* or it is time (poll), else the end.
AfterDrain(t, rows, h, poll, w) ==
    /\ pollDue' = poll
    /\ CASE conn = "none" -> Fail(FALSE) /\ UNCHANGED pending
         [] conn # "none" /\ ~pending /\ ~poll -> Finish(rows) /\ UNCHANGED pending
         [] OTHER ->
              /\ pending' = FALSE
              /\ Ask([t EXCEPT !.pc = IF h = None THEN "profile" ELSE "list",
                               !.at = IF h = None THEN 0 ELSE h], w)

\* drainOutbox takes the rows that are due (25 at most: no instance has more).
Drain(t, h, poll, w) ==
    LET due == {r \in outbox : r.due} IN
    IF due = {} THEN AfterDrain(t, outbox, h, poll, w)
    ELSE /\ Ask([t EXCEPT !.pc = "drain", !.todo = due], w)
         /\ pollDue' = poll /\ UNCHANGED pending

-----------------------------------------------------------------------------
(* gmailTick *)

\* The alarm goes off. Time has passed: POLL_MS if that is what it was set for.
AlarmFires ==
    /\ wake # Never /\ tick.pc = "idle"
    /\ IF conn # "live"
       THEN wake' = Never /\ UNCHANGED <<state, tick, job>>
       ELSE LET t == [Idle EXCEPT !.gen = connects] IN
            /\ UNCHANGED <<hist, renewDue>>
            /\ \E poll \in IF wake = Far THEN {TRUE} ELSE {pollDue, TRUE} :
                 IF renewDue
                 THEN Ask([t EXCEPT !.pc = "renew"], Never) /\ pollDue' = poll /\ UNCHANGED pending
                 ELSE Drain(t, hist, poll, Never)
    /\ UNCHANGED <<google, account, mail, outbox, events, changes, faults, history>>

\* What a call of Gmail comes back with: 401 when the vault has no token that
\* Google takes, when it was made or now; a failure at any time.
Unauthorized == grant # "good" \/ tick.saw # "good"
Failing == faults < MaxFaults /\ faults' = faults + 1
Answers == grant = "good" /\ UNCHANGED faults

FailedCall ==
    /\ tick.pc \in {"renew", "profile", "list", "behind", "recent"}
         \/ job["sync"].step = "fetch"
    /\ \/ Unauthorized /\ Fail(TRUE) /\ UNCHANGED faults
       \/ Failing /\ Fail(FALSE)
    /\ UNCHANGED <<google, account, hist, pending, renewDue, pollDue, mail,
                   outbox, events, changes, history>>

\* renewWatch. The first watch fixes where history starts.
RenewWatch ==
    /\ tick.pc = "renew" /\ Answers
    /\ LET h == IF hist = None THEN Len(glog) ELSE hist IN
       IF conn = "none"
       THEN Fail(FALSE) /\ UNCHANGED <<hist, start, pending, renewDue, pollDue>>
       ELSE renewDue' = FALSE /\ SetHist(h) /\ Drain(tick, h, pollDue, wake)
    /\ UNCHANGED <<google, account, mail, outbox, events, changes, missed, apart>>

\* A change reaches Gmail; history has it if it changed anything.
Apply(r) ==
    LET to == IF r.op = "trash" THEN "trash" ELSE "in" IN
    IF gmail[r.g] = to THEN UNCHANGED <<glog, gmail>>
    ELSE /\ gmail' = [gmail EXCEPT ![r.g] = to]
         /\ glog' = Append(glog, [kind |-> r.op, g |-> r.g])

\* outboxDone and outboxRetry, which find no row after a disconnect.
BugOutboxRetry(r) == {q \in outbox : q.seq # r.seq}  \* tries once
OutboxDone(r) == {q \in outbox : q.seq # r.seq}
OutboxRetry(r) ==
    {IF q.seq = r.seq THEN [q EXCEPT !.attempts = r.attempts + 1, !.due = FALSE] ELSE q : q \in outbox}

\* One change of drainOutbox: sent, kept for another try, or given up. A 401
\* that is to be tried again ends the tick.
SendChange ==
    /\ tick.pc = "drain"
    /\ \E r \in tick.todo : \A q \in tick.todo : r.seq <= q.seq
        /\ LET rest == tick.todo \ {r}
               again == r.attempts < MaxTries
               Next(rows) ==
                   /\ outbox' = rows
                   /\ UNCHANGED <<hist, start, renewDue>>
                   /\ IF rest = {} THEN AfterDrain([tick EXCEPT !.todo = {}], rows, hist, pollDue, wake)
                      ELSE Ask([tick EXCEPT !.todo = rest], wake) /\ UNCHANGED <<pending, pollDue>>
               GiveUp == Next(OutboxDone(r)) /\ Apart({r.g})
           IN \/ /\ Answers /\ gmail[r.g] # "gone"
                 /\ Apply(r) /\ Next(OutboxDone(r)) /\ UNCHANGED apart
              \/ /\ Answers /\ gmail[r.g] = "gone"
                 /\ GiveUp /\ UNCHANGED <<glog, gmail>>
              \/ /\ Failing /\ UNCHANGED <<glog, gmail>>
                 /\ IF again THEN Next(OutboxRetry(r)) /\ UNCHANGED apart ELSE GiveUp
              \/ /\ Failing /\ UNCHANGED <<glog, gmail>>  \* refused for good
                 /\ GiveUp
              \/ /\ Unauthorized /\ UNCHANGED <<glog, gmail, faults>>
                 /\ IF again
                    THEN /\ outbox' = OutboxRetry(r) /\ Fail(TRUE)
                         /\ UNCHANGED <<hist, start, pending, renewDue, pollDue, missed, apart>>
                    ELSE GiveUp
    /\ UNCHANGED <<floor, pushed, account, mail, events, changes, missed>>

-----------------------------------------------------------------------------
(* syncHistory *)

\* No position to follow from: from here on.
Profile ==
    /\ tick.pc = "profile" /\ Answers
    /\ Synced(Len(glog))
    /\ UNCHANGED <<google, account, mail, outbox, events, changes, missed, apart>>

\* A record is applied: the next page if there is one, else the position at the
\* last page is saved.
Onward(at) ==
    IF at < tick.latest
    THEN /\ Ask([tick EXCEPT !.pc = "list", !.at = at], wake)
         /\ UNCHANGED <<hist, start, pending, renewDue, pollDue>>
    ELSE Synced(tick.latest)

\* A page of listHistory and, unless it is new mail, its record: applyHistory
\* changes what is linked, and does not tell Gmail (applyRemote).
ListHistory ==
    /\ tick.pc = "list" /\ floor <= tick.at /\ Answers
    /\ IF tick.at = Len(glog)
       THEN Synced(Len(glog)) /\ UNCHANGED trashed
       ELSE LET r == glog[tick.at + 1] IN
            IF r.kind = "add"
            THEN /\ tick' = [tick EXCEPT !.pc = "bring", !.latest = Len(glog), !.saw = grant]
                 /\ job' = [job EXCEPT !["sync"] = [NoJob EXCEPT !.g = r.g, !.step = "fetch"]]
                 /\ UNCHANGED <<state, wake, start, trashed>>
            ELSE /\ trashed' = IF r.g \in Linked THEN [trashed EXCEPT ![r.g] = r.kind # "untrash"]
                               ELSE trashed
                 /\ IF tick.at + 1 < Len(glog)
                    THEN /\ Ask([tick EXCEPT !.at = @ + 1, !.latest = Len(glog)], wake)
                         /\ UNCHANGED <<hist, start, pending, renewDue, pollDue>>
                    ELSE Synced(Len(glog))
    /\ UNCHANGED <<google, account, box, outbox, events, changes, missed, apart>>

\* Too far behind: catch up from where the account is now.
TooFarBehind ==
    /\ tick.pc = "list" /\ floor > tick.at /\ Answers
    /\ Ask([tick EXCEPT !.pc = "behind"], wake)
    /\ UNCHANGED <<google, account, hist, pending, renewDue, pollDue, mail,
                   outbox, events, changes, history>>

CatchUp ==
    /\ tick.pc = "behind" /\ Answers
    /\ Ask([tick EXCEPT !.pc = "recent", !.latest = Len(glog)], wake)
    /\ Apart({glog[i].g : i \in tick.at + 1..Len(glog)})
    /\ UNCHANGED <<google, account, hist, pending, renewDue, pollDue, mail,
                   outbox, events, changes, start, missed>>

\* Takes the position of the profile and lists nothing.
BugRecent ==
    /\ tick.pc = "recent" /\ Answers
    /\ Synced(tick.latest)
    /\ UNCHANGED <<google, account, mail, outbox, events, changes, missed, apart>>

\* The first page of listMessages, newest first, without the trash.
Recent ==
    LET all == {g \in Msgs : gmail[g] = "in"}
        page == {g \in all : Cardinality({h \in all : h > g}) < ListMax} IN
    /\ tick.pc = "recent" /\ Answers
    /\ missed' = missed \cup ({glog[i].g : i \in 1..Len(glog)} \ page)
    /\ IF page = {} THEN Synced(tick.latest)
       ELSE /\ tick' = [tick EXCEPT !.pc = "catchup", !.ids = page, !.saw = grant]
            /\ job' = [job EXCEPT !["sync"] = [NoJob EXCEPT !.g = Max(page), !.step = "fetch"]]
            /\ UNCHANGED <<state, wake, start>>
    /\ UNCHANGED <<google, account, mail, outbox, events, changes, apart>>

-----------------------------------------------------------------------------
(* importGmailMessage, in the tick and in the import queue *)

\* The message is done with, as it should be or because it is gone at Gmail.
JobDone(a) ==
    IF a = "import"
    THEN job' = [job EXCEPT !["import"] = NoJob] /\ UNCHANGED <<state, wake, tick, start>>
    ELSE IF tick.pc = "bring" THEN
         IF tick.at + 1 < tick.latest
         THEN /\ tick' = [tick EXCEPT !.pc = "list", !.at = @ + 1, !.saw = grant]
              /\ job' = [job EXCEPT !["sync"] = NoJob]
              /\ UNCHANGED <<state, wake, start>>
         ELSE Synced(tick.latest)
    ELSE LET rest == tick.ids \ {job[a].g} IN
         IF rest = {} THEN Synced(tick.latest)
         ELSE /\ tick' = [tick EXCEPT !.ids = rest, !.saw = grant]
              /\ job' = [job EXCEPT !["sync"] = [NoJob EXCEPT !.g = Max(rest), !.step = "fetch"]]
              /\ UNCHANGED <<state, wake, start>>

NextStep(a, s) ==
    /\ job' = [job EXCEPT ![a].step = s]
    /\ UNCHANGED <<state, wake, tick, start>>

\* The import queue takes up a message (one that is known would end at once).
ImportBegins ==
    \E g \in Here \ Linked :
        /\ conn = "live" /\ job["import"] = NoJob /\ imports < MaxImports
        /\ imports' = imports + 1
        /\ job' = [job EXCEPT !["import"] = [NoJob EXCEPT !.g = g, !.step = "fetch"]]
        /\ UNCHANGED <<google, grant, leaving, signIn, connects, state, wake, mail, outbox, tick, events,
                       changes, faults, history>>

\* A message that is known from now on, and has not got its labels.
Halfway(a) == IF job[a].step = "labels" THEN {job[a].g} ELSE {}

\* The import queue gives the message up for now, or dies.
ImportFails ==
    /\ job["import"] # NoJob /\ Failing
    /\ job' = [job EXCEPT !["import"] = NoJob]
    /\ Apart(Halfway("import"))
    /\ UNCHANGED <<google, account, state, wake, mail, outbox, tick, events,
                   changes, start, missed>>

\* gmailKnown, and if it is not known its labels and its bytes.
Fetch(a) ==
    LET g == job[a].g IN
    /\ job[a].step = "fetch"
    /\ \/ /\ \/ box[g] = "linked"
             \/ grant = "good" /\ (gmail[g] = "gone" \/ g \in Unwanted)
          /\ JobDone(a)
       \/ /\ box[g] # "linked" /\ grant = "good" /\ g \in Here \ Unwanted
          /\ job' = [job EXCEPT ![a].step = "store", ![a].trashed = gmail[g] = "trash"]
          /\ UNCHANGED <<state, wake, tick, start>>
    /\ UNCHANGED <<google, account, mail, outbox, events, changes, faults, missed, apart>>

\* ingest: stored, or found to be stored already.
Store(a) ==
    LET g == job[a].g IN
    /\ job[a].step = "store"
    /\ box' = [box EXCEPT ![g] = IF @ = "none" THEN "stored" ELSE @]
    /\ NextStep(a, "link")
    /\ UNCHANGED <<google, account, trashed, outbox, events, changes, faults, missed, apart>>

\* linkGmail.
Link(a) ==
    /\ job[a].step = "link"
    /\ box' = [box EXCEPT ![job[a].g] = "linked"]
    /\ NextStep(a, "labels")
    /\ UNCHANGED <<google, account, trashed, outbox, events, changes, faults, missed, apart>>

\* applyGmailLabels, with the labels fetched before.
Labels(a) ==
    /\ job[a].step = "labels"
    /\ trashed' = [trashed EXCEPT ![job[a].g] = job[a].trashed]
    /\ JobDone(a)
    /\ UNCHANGED <<google, account, box, outbox, events, changes, faults, missed, apart>>

\* The object is restarted under the alarm, which is then run again.
TickDies ==
    /\ tick.pc # "idle" /\ Failing
    /\ End /\ Wake(Now)
    /\ Apart(Halfway("sync"))
    /\ UNCHANGED <<google, account, state, mail, outbox, events, changes, start, missed>>

-----------------------------------------------------------------------------
(* Connecting and disconnecting *)

\* The sign-in's callback: the token goes to the vault, then connectGmail.
SignIn ==
    /\ ~signIn /\ connects < MaxConnects
    /\ grant' = "good" /\ signIn' = TRUE /\ connects' = connects + 1
    /\ UNCHANGED <<google, leaving, imports, state, wake, mail, outbox, tick, job, events,
                   changes, faults, history>>

ConnectGmail ==
    /\ signIn /\ signIn' = FALSE
    /\ conn' = "live" /\ pending' = TRUE /\ renewDue' = TRUE
    /\ hist' = IF conn = "none" THEN None ELSE hist
    /\ pollDue' = (conn = "none" \/ pollDue)
    /\ Wake(Now)
    /\ UNCHANGED <<google, grant, leaving, connects, imports, mail, outbox, tick, job,
                   events, changes, faults, history>>

\* disconnectGmail: after stopWatch, which changes nothing here, the vault asks
\* Google to revoke its token; the vault forgets what it holds; then the state
\* and the changes that wait go.
Leave(from, to) == leaving = from /\ leaving' = to

DisconnectGmail ==
    /\ \/ /\ Leave("no", "wipe") /\ conn # "none"
          /\ grant' \in {grant, IF grant = "good" THEN "bad" ELSE grant}
          /\ UNCHANGED <<state, outbox, apart>>
       \/ Leave("wipe", "forget") /\ grant' = "none" /\ UNCHANGED <<state, outbox, apart>>
       \/ /\ Leave("forget", "no")
          /\ conn' = "none" /\ hist' = None /\ pending' = FALSE
          /\ renewDue' = FALSE /\ pollDue' = FALSE /\ outbox' = {}
          /\ Apart({r.g : r \in outbox} \cup {glog[i].g : i \in (hist + 1..Len(glog)) \ {0}})
          /\ UNCHANGED grant
    /\ UNCHANGED <<google, signIn, connects, imports, wake, mail, tick, job, events,
                   changes, faults, start, missed>>

\* A day has passed since the watch was renewed.
RenewalComes ==
    /\ conn = "live" /\ ~renewDue /\ faults < MaxFaults
    /\ renewDue' = TRUE /\ faults' = faults + 1
    /\ UNCHANGED <<google, account, conn, hist, pending, pollDue, wake, mail,
                   outbox, tick, job, events, changes, history>>

Ticking ==
    \/ AlarmFires \/ RenewWatch \/ SendChange \/ Profile \/ ListHistory
    \/ TooFarBehind \/ CatchUp \/ Recent
    \/ Fetch("sync") \/ Store("sync") \/ Link("sync") \/ Labels("sync")
    \/ Unauthorized /\ FailedCall

Next ==
    \/ AtGmail \/ Forget \/ Withdraw \/ GmailPushed \/ InBusta \/ RetryDue
    \/ AlarmFires \/ FailedCall \/ RenewWatch \/ SendChange
    \/ Profile \/ ListHistory \/ TooFarBehind \/ CatchUp \/ Recent
    \/ ImportBegins \/ ImportFails
    \/ \E a \in Jobs : Fetch(a) \/ Store(a) \/ Link(a) \/ Labels(a)
    \/ TickDies \/ SignIn \/ ConnectGmail \/ DisconnectGmail \/ RenewalComes

\* Alarms that are set go off and the calls they make come back; what is asked
\* to be retried later is retried.
Fairness == WF_vars(Ticking) /\ WF_vars(RetryDue)

Spec == Init /\ [][Next]_vars /\ Fairness

-----------------------------------------------------------------------------
(* What is to hold *)

\* gmail-sync.ts, syncHistory: the position is saved only when all up to it is
\* in the mailbox. What arrived at Gmail after following began, and is not gone
\* again, is linked, whatever failed and was begun again meanwhile; only a
\* catch-up over more than a page of messages may leave some out.
NothingSkipped ==
    hist # None =>
        \A i \in start + 1..hist :
            LET g == glog[i].g IN
            glog[i].kind = "add" =>
                g \in Linked \cup Unwanted \cup missed \/ gmail[g] = "gone"

\* Both sides agree on a message once nothing is under way between them, with
\* the retries and the echoes of the owner's own changes there were, unless a
\* change was given up (refused, out of attempts, made before the link, or
\* disconnected), Gmail forgot its history, or it changed while the import
\* queue was bringing it in.
AtRest ==
    /\ conn = "live" /\ outbox = {} /\ tick.pc = "idle" /\ hist = Len(glog)
    /\ job["import"] = NoJob

SidesAgree ==
    AtRest => \A g \in Linked \ apart :
                  trashed[g] <=> gmail[g] # "in"

\* handleError: an account is only said to need reconnecting when Google takes
\* no token the vault has; a tick from before the last sign-in may be wrong.
ReconnectOnlyForCause ==
    [][conn = "live" /\ conn' = "reconnect" => grant # "good" \/ tick.gen # connects]_vars

\* Whatever fails on the way (a bounded number of times), the sync comes to
\* each position of Gmail's history, or the account is disconnected.
CaughtUp ==
    \A n \in 1..(MaxEvents + MaxChanges) :
        conn = "live" /\ Len(glog) >= n ~> hist >= n \/ conn # "live"
=============================================================================
