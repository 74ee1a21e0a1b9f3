------------------------------ MODULE Ingest -------------------------------
(***************************************************************************)
(* The inbound path of one mailbox, and what takes mail out of it again.   *)
(*                                                                         *)
(* ingest() runs in a stateless worker: every call to the MailboxDO, to a  *)
(* ThreadDO or to R2 is an await, so runs for the same mail interleave at  *)
(* each of them and may die at each of them. The sender tries again until  *)
(* it is told the mail was taken. Meanwhile the owner purges messages from *)
(* the Trash and may delete the whole mailbox (#purgeStep).                *)
(*                                                                         *)
(* A run r uses its own name as the message id, the R2 prefix and the id   *)
(* of a thread it starts: each is a fresh UUID in the code.                *)
(***************************************************************************)
EXTENDS Integers, FiniteSets

CONSTANTS      \* Arrivals says what is assumed of them
    Runs,      \* calls of ingest()
    Mails,     \* mails, told apart by Message-ID
    NoMail,    \* no mail: the parent of a mail that is not a reply
    Parent,    \* the mail each mail replies to
    NoThread,  \* no thread
    User,      \* the worker that serves the owner's purge of one message
    Wiper,     \* the MailboxDO's alarm deleting the whole mailbox
    MaxFaults, \* bound on runs that fail and purgers that die
    MaxWipes   \* bound on deletions of the whole mailbox

VARIABLES
    pc,        \* the next await of each run
    mail,      \* the mail each run carries
    thread,    \* the thread each run resolved
    blobs,     \* runs whose objects are in R2
    copies,    \* runs whose message is in its ThreadDO
    listed,    \* runs whose message is a row of the mailbox index
    msgids,    \* the thread each Message-ID is known in
    owned,     \* owner_org_id is set
    purging,   \* the mailbox is being deleted
    purges,    \* what each purger is doing
    accepted,  \* mails whose sender was told they were taken
    faults, wipes,
    dropped,   \* history: messages the owner deleted
    leaked,    \* history: messages a failed or overtaken purge left behind
    overlapped,\* history: pairs of runs of a mail in flight at the same time
    joined     \* history: runs that resolved when their parent was known

runVars == <<pc, mail, thread>>
index == <<listed, msgids>>
stores == <<blobs, copies>>
owner == <<owned, purging, wipes>>
history == <<dropped, leaked, overlapped, joined>>
vars == <<pc, mail, thread, blobs, copies, listed, msgids,
          owned, purging, purges, accepted, faults, wipes, dropped, leaked,
          overlapped, joined>>

Purgers == {User, Wiper}
InFlight == {"check", "resolve", "append", "index", "answer"}
NoPurge == [pc |-> "idle", msg |-> NoThread, keys |-> FALSE]

\* Every variable has its type.
TypeOK ==
    /\ pc \in [Runs -> {"idle", "done", "failed"} \cup InFlight]
    /\ mail \in [Runs -> Mails \cup {NoMail}]
    /\ thread \in [Runs -> Runs \cup {NoThread}]
    /\ blobs \subseteq Runs /\ copies \subseteq Runs
    /\ listed \subseteq Runs
    /\ msgids \in [Mails -> Runs \cup {NoThread}]
    /\ owned \in BOOLEAN /\ purging \in BOOLEAN
    /\ purges \in [Purgers -> [pc: {"idle", "remove", "delete", "forget"},
                               msg: Runs \cup {NoThread}, keys: BOOLEAN]]
    /\ accepted \subseteq Mails
    /\ faults \in 0..MaxFaults /\ wipes \in 0..MaxWipes
    /\ dropped \subseteq Runs /\ leaked \subseteq Runs
    /\ overlapped \subseteq Runs \X Runs /\ joined \subseteq Runs

Init ==
    /\ pc = [r \in Runs |-> "idle"]
    /\ mail = [r \in Runs |-> NoMail]
    /\ thread = [r \in Runs |-> NoThread]
    /\ blobs = {} /\ copies = {} /\ listed = {}
    /\ msgids = [e \in Mails |-> NoThread]
    /\ owned = FALSE /\ purging = FALSE
    /\ purges = [p \in Purgers |-> NoPurge]
    /\ accepted = {}
    /\ faults = 0 /\ wipes = 0
    /\ dropped = {} /\ leaked = {} /\ overlapped = {} /\ joined = {}

-----------------------------------------------------------------------------
(* The steps of ingest *)

\* A sender offers a mail, for the first time or again, whatever became of
\* the earlier attempts. Without an owner it is rejected, which changes nothing.
Begin(r, e) ==
    /\ pc[r] = "idle"
    /\ owned
    /\ pc' = [pc EXCEPT ![r] = "check"]
    /\ mail' = [mail EXCEPT ![r] = e]
    /\ UNCHANGED <<thread, stores, index, owner, purges, accepted, faults, history>>

Listed(e) == {r \in listed : mail[r] = e}

\* Does not look for a row.
BugCheck(r) ==
    /\ pc[r] = "check"
    /\ pc' = [pc EXCEPT ![r] = "resolve"]
    /\ overlapped' = overlapped \cup
          {<<q, r>> : q \in {q \in Runs \ {r} : mail[q] = mail[r] /\ pc[q] \in InFlight}}
    /\ UNCHANGED <<mail, thread, stores, index, owner, purges, accepted, faults,
                   dropped, leaked, joined>>

\* findByMessageId: a mail that has a row already is a duplicate.
Check(r) ==
    /\ pc[r] = "check"
    /\ LET dup == Listed(mail[r]) # {}
       IN  /\ pc' = [pc EXCEPT ![r] = IF dup THEN "answer" ELSE "resolve"]
           /\ overlapped' = overlapped \cup
                {<<q, r>> : q \in {q \in Runs \ {r} : ~dup /\ mail[q] = mail[r] /\ pc[q] \in InFlight}}
    /\ UNCHANGED <<mail, thread, stores, index, owner, purges, accepted, faults,
                   dropped, leaked, joined>>

\* The thread a Message-ID is known in, if it is.
Known(e) == IF e = NoMail THEN NoThread ELSE msgids[e]

\* Looks the parent up among the rows instead of in msgids.
BugResolve(r) ==
    /\ pc[r] = "resolve"
    /\ pc' = [pc EXCEPT ![r] = "append"]
    /\ blobs' = blobs \cup {r}
    /\ LET up == Listed(Parent[mail[r]])
       IN  thread' = [thread EXCEPT ![r] =
                        IF up = {} THEN r ELSE thread[CHOOSE q \in up : TRUE]]
    /\ joined' = joined \cup {q \in {r} : Known(Parent[mail[r]]) # NoThread}
    /\ UNCHANGED <<mail, copies, index, owner, purges, accepted, faults, dropped,
                   leaked, overlapped>>

\* resolveThread: the parent's thread if its Message-ID was ever indexed here.
\* The puts to R2 that follow are under a prefix nobody else knows yet, so they
\* are part of the step.
Resolve(r) ==
    /\ pc[r] = "resolve"
    /\ pc' = [pc EXCEPT ![r] = "append"]
    /\ blobs' = blobs \cup {r}
    /\ LET up == Known(Parent[mail[r]])
       IN  /\ thread' = [thread EXCEPT ![r] = IF up = NoThread THEN r ELSE up]
           /\ joined' = joined \cup {q \in {r} : up # NoThread}
    /\ UNCHANGED <<mail, copies, index, owner, purges, accepted, faults, dropped,
                   leaked, overlapped>>

\* Does not await the append, which is lost.
BugAppend(r) ==
    /\ pc[r] = "append"
    /\ pc' = [pc EXCEPT ![r] = "index"]
    /\ UNCHANGED <<mail, thread, stores, index, owner, purges, accepted, faults, history>>

\* The thread first, the index after.
Append(r) ==
    /\ pc[r] = "append"
    /\ pc' = [pc EXCEPT ![r] = "index"]
    /\ copies' = copies \cup {r}
    /\ UNCHANGED <<mail, thread, blobs, index, owner, purges, accepted, faults, history>>

\* INSERT INTO msgids ... ON CONFLICT DO NOTHING.
Learn(r) ==
    msgids' = [msgids EXCEPT ![mail[r]] = IF @ = NoThread THEN thread[r] ELSE @]

\* index(): one transaction of the MailboxDO.
Index(r) ==
    /\ pc[r] = "index"
    /\ pc' = [pc EXCEPT ![r] = "answer"]
    /\ listed' = listed \cup {r}
    /\ Learn(r)
    /\ UNCHANGED <<mail, thread, stores, owner, purges, accepted, faults, history>>

\* The sender learns that the mail was taken.
Answer(r) ==
    /\ pc[r] = "answer"
    /\ pc' = [pc EXCEPT ![r] = "done"]
    /\ accepted' = accepted \cup {mail[r]}
    /\ UNCHANGED <<mail, thread, stores, index, owner, purges, faults, history>>

\* Takes an error for an answer.
BugRunFails(r) ==
    /\ pc[r] \in InFlight /\ faults < MaxFaults
    /\ faults' = faults + 1
    /\ pc' = [pc EXCEPT ![r] = "answer"]
    /\ UNCHANGED <<mail, thread, stores, index, owner, purges, accepted, history>>

\* A call throws and the mail is refused for now, or the worker dies.
RunFails(r) ==
    /\ pc[r] \in InFlight /\ faults < MaxFaults
    /\ faults' = faults + 1
    /\ pc' = [pc EXCEPT ![r] = "failed"]
    /\ UNCHANGED <<mail, thread, stores, index, owner, purges, accepted, history>>

-----------------------------------------------------------------------------
(* The owner *)

Claim ==
    /\ ~owned
    /\ owned' = TRUE
    /\ UNCHANGED <<runVars, stores, index, purging, wipes, purges, accepted, faults, history>>

\* The purge action takes a row it read from the Trash. Restoring a row changes
\* nothing here, so any listed row may be the one.
PurgeMessage(r) ==
    /\ purges[User].pc = "idle"
    /\ r \in listed
    /\ purges' = [purges EXCEPT ![User] = [pc |-> "remove", msg |-> r, keys |-> FALSE]]
    /\ UNCHANGED <<runVars, stores, index, owner, accepted, faults, history>>

\* startPurge
StartPurge ==
    /\ owned /\ ~purging /\ wipes < MaxWipes
    /\ purging' = TRUE
    /\ wipes' = wipes + 1
    /\ UNCHANGED <<runVars, stores, index, owned, purges, accepted, faults, history>>

\* #purgeStep takes the rows one after the other.
PickRow(r) ==
    /\ purging /\ purges[Wiper].pc = "idle"
    /\ r \in listed
    /\ purges' = [purges EXCEPT ![Wiper] = [pc |-> "remove", msg |-> r, keys |-> FALSE]]
    /\ UNCHANGED <<runVars, stores, index, owner, accepted, faults, history>>

\* ThreadDO.remove returns the keys of a message it still has.
Remove(p) ==
    /\ purges[p].pc = "remove"
    /\ LET r == purges[p].msg IN
         /\ copies' = copies \ {r}
         /\ purges' = [purges EXCEPT ![p].pc = "delete", ![p].keys = (r \in copies)]
    /\ UNCHANGED <<runVars, blobs, index, owner, accepted, faults, history>>

\* The caller deletes the objects under the keys it got, then unindex(), which
\* leaves msgids alone. Nothing looks at the objects in between.
Delete(p) ==
    /\ purges[p].pc = "delete"
    /\ LET r == purges[p].msg IN
         /\ blobs' = IF purges[p].keys THEN blobs \ {r} ELSE blobs
         /\ listed' = listed \ {r}
         /\ dropped' = dropped \cup {r}
    /\ purges' = [purges EXCEPT ![p] = NoPurge]
    /\ UNCHANGED <<runVars, copies, msgids, owner, accepted, faults,
                   leaked, overlapped, joined>>

\* No rows are left: the organization forgets the address (an await) ...
ForgetMailbox ==
    /\ purging /\ purges[Wiper].pc = "idle"
    /\ listed = {}
    /\ purges' = [purges EXCEPT ![Wiper].pc = "forget"]
    /\ UNCHANGED <<runVars, stores, index, owner, accepted, faults, history>>

\* ... and deleteAll takes with it whatever was indexed in the meantime.
DeleteAll ==
    /\ purges[Wiper].pc = "forget"
    /\ purges' = [purges EXCEPT ![Wiper] = NoPurge]
    /\ listed' = {}
    /\ msgids' = [e \in Mails |-> NoThread]
    /\ owned' = FALSE /\ purging' = FALSE
    /\ dropped' = dropped \cup listed
    /\ leaked' = leaked \cup listed
    /\ joined' = {}
    /\ UNCHANGED <<runVars, stores, wipes, accepted, faults, overlapped>>

\* #purgeStep swallows a failed remove and unlists the row all the same.
RemoveFails ==
    /\ purges[Wiper].pc = "remove" /\ faults < MaxFaults
    /\ faults' = faults + 1
    /\ purges' = [purges EXCEPT ![Wiper].pc = "delete"]
    /\ leaked' = leaked \cup {purges[Wiper].msg}
    /\ UNCHANGED <<runVars, stores, index, owner, accepted, dropped, overlapped, joined>>

\* The worker serving the purge dies, or the MailboxDO restarts; its alarm
\* then begins again.
PurgerDies(p) ==
    /\ purges[p].pc # "idle" /\ faults < MaxFaults
    /\ faults' = faults + 1
    /\ purges' = [purges EXCEPT ![p] = NoPurge]
    /\ leaked' = leaked \cup {r \in Runs : r = purges[p].msg /\ purges[p].pc = "delete"}
    /\ UNCHANGED <<runVars, stores, index, owner, accepted, dropped, overlapped, joined>>

-----------------------------------------------------------------------------

Step(r) ==
    \/ Check(r) \/ Resolve(r) \/ Append(r) \/ Index(r) \/ Answer(r)
    \/ RunFails(r)

Next ==
    \/ \E r \in Runs, e \in Mails : Begin(r, e)
    \/ \E r \in Runs : Step(r) \/ PurgeMessage(r) \/ PickRow(r)
    \/ \E p \in Purgers : Remove(p) \/ Delete(p) \/ PurgerDies(p)
    \/ Claim \/ StartPurge \/ ForgetMailbox \/ DeleteAll \/ RemoveFails

Spec == Init /\ [][Next]_vars

-----------------------------------------------------------------------------
(* Correctness *)

\* A listed message has its body and its files, unless a purge is at work on it
\* or was cut off. The thread is written before the index so that a crash
\* never lists a message whose body is not there.
ListedHasBody ==
    \A r \in listed :
        \/ r \in copies /\ r \in blobs
        \/ \E p \in Purgers : purges[p].msg = r
        \/ r \in leaked

\* A mail is listed twice only by runs that were in flight at the same time:
\* once a row is there, a redelivery is recognised.
TwiceOnlyByOverlap ==
    \A q, r \in listed : q # r /\ mail[q] = mail[r] =>
        <<q, r>> \in overlapped \/ <<r, q>> \in overlapped

\* A mail whose sender was told it was taken is listed, or the owner deleted it.
AcceptedKept ==
    \A e \in accepted : \E r \in Runs : mail[r] = e /\ r \in listed \cup dropped

\* Replies that found their parent all stay in one thread, also when the parent
\* was delivered twice or has been purged since.
RepliesStayTogether ==
    \A r \in joined : thread[r] = msgids[Parent[mail[r]]]
=============================================================================
