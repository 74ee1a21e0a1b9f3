------------------------------ MODULE Backfill ------------------------------
(***************************************************************************)
(* Moving a mailbox's old messages into threads of their own.              *)
(*                                                                         *)
(* Up to schema 2 the MailboxDO kept whole messages. #migrate parks them   *)
(* in messages_legacy, and whoever opens the mailbox or brings mail in     *)
(* first calls backfill(): it appends each one to a ThreadDO, an await,    *)
(* and indexes it. While it awaits, the object serves everyone else, and   *)
(* another caller finds the backfill still pending and begins one too.     *)
(*                                                                         *)
(* A thread is the run that named it and the old thread it stands for: the *)
(* id is drawn anew by each run.                                           *)
(*                                                                         *)
(* A Bug... operator is the operator that follows it with a mistake in it. *)
(***************************************************************************)
EXTENDS Naturals

CONSTANTS
    N,         \* legacy messages, numbered in the order of received_at
    OldThread, \* the thread each was in
    Runs,      \* calls of backfill()
    None,      \* no thread, and no run
    MaxFaults  \* bound on appends that fail and restarts of the object

VARIABLES
    pending, \* backfill_pending, and the legacy tables with it
    run,     \* what each call is at
    copies,  \* the messages each thread has
    row,     \* the thread in each message's row of the index
    msgids,  \* the thread each Message-ID is known in
    read,    \* messages.read
    replies, \* the thread a reply to each message went to
    faults,
    deleted, \* history: messages the owner purged
    opened,  \* history: messages the owner read once they were listed
    again    \* history: a run began after another that had not finished

vars == <<pending, run, copies, row, msgids, read, replies, faults, deleted,
          opened, again>>

Msgs == 1..N
Busy(b) == run[b].pc \in {"append", "index"}
NoThread == <<None, None>>

Init ==
    /\ pending = TRUE
    /\ run = [b \in Runs |-> [pc |-> "idle", at |-> 1]]
    /\ copies = {}
    /\ row = [m \in Msgs |-> NoThread] /\ msgids = row /\ replies = row
    /\ read = [m \in Msgs |-> FALSE]
    /\ faults = 0
    /\ deleted = {} /\ opened = {} /\ again = FALSE

-----------------------------------------------------------------------------
(* backfill *)

\* A page of the inbox or an arriving mail finds the backfill pending.
Begin(b) ==
    /\ run[b].pc = "idle"
    /\ pending
    /\ run' = [run EXCEPT ![b].pc = "append"]
    /\ again' = (again \/ \E c \in Runs : Busy(c) \/ run[c].pc = "failed")
    /\ UNCHANGED <<pending, copies, row, msgids, read, replies, faults, deleted, opened>>

\* Draws an id for each message.
BugThread(b, m) == <<b, m>>

\* threadIds: one new thread for each old one.
Thread(b, m) == <<b, OldThread[m]>>

\* The message's attachments are read from the legacy table and all of it is
\* appended to the thread.
Append(b) ==
    /\ run[b].pc = "append" /\ pending
    /\ copies' = copies \cup {<<Thread(b, run[b].at), run[b].at>>}
    /\ run' = [run EXCEPT ![b].pc = "index"]
    /\ UNCHANGED <<pending, row, msgids, read, replies, faults, deleted, opened, again>>

\* Another run has dropped the tables: the query throws.
TablesGone(b) ==
    /\ run[b].pc = "append" /\ ~pending
    /\ run' = [run EXCEPT ![b].pc = "failed"]
    /\ UNCHANGED <<pending, copies, row, msgids, read, replies, faults, deleted, opened, again>>

\* ON CONFLICT: a message that has a row keeps its thread, a Message-ID that is
\* known keeps its own.
First(known, t) == IF known = NoThread THEN t ELSE known

\* After the last message the tables are dropped and the flag cleared.
Pending(m) == m < N

\* index(), the read flag of the legacy row (here unread), and the end of the
\* loop: no await between them.
Index(b) ==
    /\ run[b].pc = "index"
    /\ LET m == run[b].at
           t == Thread(b, m)
       IN  /\ row' = [row EXCEPT ![m] = IF @ = NoThread THEN t ELSE @]
           /\ msgids' = [msgids EXCEPT ![m] = First(@, t)]
           /\ read' = [read EXCEPT ![m] = FALSE]
           /\ pending' = (pending /\ Pending(m))
           /\ run' = [run EXCEPT ![b] = IF m < N THEN [pc |-> "append", at |-> m + 1]
                                        ELSE [pc |-> "done", at |-> m]]
    /\ UNCHANGED <<copies, replies, faults, deleted, opened, again>>

\* Goes on to index a message that was not appended.
BugAppendFails(b) ==
    /\ run[b].pc = "append" /\ faults < MaxFaults
    /\ faults' = faults + 1
    /\ run' = [run EXCEPT ![b].pc = "index"]
    /\ UNCHANGED <<pending, copies, row, msgids, read, replies, deleted, opened, again>>

AppendFails(b) ==
    /\ run[b].pc = "append" /\ faults < MaxFaults
    /\ faults' = faults + 1
    /\ run' = [run EXCEPT ![b].pc = "failed"]
    /\ UNCHANGED <<pending, copies, row, msgids, read, replies, deleted, opened, again>>

\* The object restarts: every run is lost, what they wrote is not.
Restart ==
    /\ faults < MaxFaults
    /\ faults' = faults + 1
    /\ run' = [b \in Runs |-> IF Busy(b) THEN [run[b] EXCEPT !.pc = "failed"] ELSE run[b]]
    /\ UNCHANGED <<pending, copies, row, msgids, read, replies, deleted, opened, again>>

-----------------------------------------------------------------------------
(* Everyone else *)

Open(m) ==
    /\ row[m] # NoThread
    /\ read' = [read EXCEPT ![m] = TRUE]
    /\ opened' = opened \cup {m}
    /\ UNCHANGED <<pending, run, copies, row, msgids, replies, faults, deleted, again>>

\* The purge of one message, whose steps are Ingest's.
Purge(m) ==
    /\ row[m] # NoThread
    /\ copies' = copies \ {<<row[m], m>>}
    /\ row' = [row EXCEPT ![m] = NoThread]
    /\ deleted' = deleted \cup {m}
    /\ UNCHANGED <<pending, run, msgids, read, replies, faults, opened, again>>

\* ingest() waits for a pending backfill before it resolves a reply's thread.
Ready == ~pending

Reply(m) ==
    /\ Ready
    /\ replies[m] = NoThread
    /\ replies' = [replies EXCEPT ![m] = IF msgids[m] = NoThread THEN <<None, m>> ELSE msgids[m]]
    /\ UNCHANGED <<pending, run, copies, row, msgids, read, faults, deleted, opened, again>>

-----------------------------------------------------------------------------

Next ==
    \/ \E b \in Runs : Begin(b) \/ Append(b) \/ TablesGone(b) \/ Index(b) \/ AppendFails(b)
    \/ \E m \in Msgs : Open(m) \/ Purge(m) \/ Reply(m)
    \/ Restart

Spec == Init /\ [][Next]_vars

-----------------------------------------------------------------------------
(* Correctness *)

\* "Legacy tables are dropped only once it succeeds": from then on every old
\* message is listed and in the thread its row names, unless the owner purged it.
LegacyKept ==
    \A m \in Msgs :
        IF row[m] = NoThread THEN pending \/ m \in deleted
        ELSE <<row[m], m>> \in copies

\* A conversation stays one: a reply to an old message joins it, however many
\* runs moved it. And unless a second run began before the first was done, or
\* after it failed, the old messages of a thread share their new one, what the
\* owner purged stays gone and what he read stays read.
MovedOnce ==
    /\ \A m \in Msgs \ deleted : replies[m] # NoThread => replies[m] = row[m]
    /\ again \/ /\ \A m, k \in Msgs :
                     NoThread \notin {row[m], row[k]} /\ OldThread[m] = OldThread[k]
                     => row[m] = row[k]
                /\ \A m \in deleted : row[m] = NoThread
                /\ \A m \in opened : read[m]
=============================================================================
