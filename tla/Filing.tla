------------------------------ MODULE Filing -------------------------------
(***************************************************************************)
(* Which folder each received message of one mailbox is filed in.          *)
(*                                                                         *)
(* Sorting runs in a worker, mostly in the background: it takes a list of  *)
(* the folders, asks a model about each message (which takes seconds) and  *)
(* writes the answer to the MailboxDO. Meanwhile a person files messages,  *)
(* deletes folders, undoes a sort or starts another. The MailboxDO's calls *)
(* are atomic; everything between two of them is an interleaving.          *)
(*                                                                         *)
(* Rules and +addresses may be edited at any time, so which folders have a *)
(* rule, which one a +address leads to and what the model answers are      *)
(* choices. A sort does all its messages at once: the code does six at a   *)
(* time. How sure the model is, and whether it failed, is left out.        *)
(*                                                                         *)
(* A Bug... operator is the operator that follows it with a mistake in it. *)
(***************************************************************************)
EXTENDS Integers, FiniteSets

CONSTANTS
    Msgs,     \* received messages
    Folders,  \* folder ids, each a fresh UUID
    NoFolder, \* NULL in folder_id and folder_suggest
    Sorters,  \* workers that run fileMessage, sortRecent or sortInto
    All,      \* the undo key of "Sort mail again"
    NoKey,    \* a sort that cannot be undone
    NoChoice, \* no person has filed the message
    MaxSorts, \* bound on calls
    MaxFaults \* bound on sorters that are cut off

ASSUME NamesAssumption ==
    /\ {NoFolder, All, NoKey, NoChoice} \cap Folders = {}
    /\ NoKey # All /\ NoChoice # NoFolder
ASSUME BoundsAssumption == MaxSorts \in Nat /\ MaxFaults \in Nat

VARIABLES
    folders,  \* the rows of the folders table
    deleted,  \* ids that were folders
    listed,   \* messages in the index
    row,      \* how each message is filed
    undo,     \* sort_undo: for each key, how messages were filed before
    sort,     \* what each sorter is doing
    job,      \* where each sorter is with each message
    hand,     \* a person's choice on its way
    sorts, faults,
    chosen,   \* history: the choice a person made and nobody took back
    late,     \* history: messages that something still knew a folder for
              \* when it was deleted
    stuck,    \* history: messages nobody finishes sorting
    by,       \* history: the key of the sort that filed each message last
    cut       \* history: keys and messages forgotten while being sorted

table == <<folders, deleted>>
history == <<chosen, late, stuck, by, cut>>
vars == <<folders, deleted, listed, row, undo, sort, job, hand, sorts, faults,
          chosen, late, stuck, by, cut>>

Places == Folders \cup {NoFolder}
Keys == Folders \cup {All}

\* The folder_ columns of a row: you stands for folder_source = 'you', pending
\* for folder_state = 'pending'.
Row == [folder: Places, suggest: Places, you: BOOLEAN, pending: BOOLEAN]
Unfiled == [folder |-> NoFolder, suggest |-> NoFolder, you |-> FALSE, pending |-> FALSE]
NoRecord == [folder |-> NoFolder, suggest |-> NoFolder, you |-> TRUE, pending |-> TRUE]

IdleSort == [pc |-> "idle", key |-> NoKey, list |-> {}]
NoJob == [pc |-> "none", list |-> {}]
Idle == [pc |-> "idle", msg |-> NoFolder, folder |-> NoFolder]

\* Every variable has its type; a row that is filed has no suggestion, and one
\* that a person filed is not being sorted.
TypeOK ==
    /\ folders \subseteq Folders /\ deleted \subseteq Folders \ folders
    /\ listed \subseteq Msgs
    /\ row \in [Msgs -> Row]
    /\ \A m \in Msgs : /\ row[m].folder = NoFolder \/ row[m].suggest = NoFolder
                       /\ ~(row[m].you /\ row[m].pending)
    /\ undo \in [Keys -> [Msgs -> Row \cup {NoRecord}]]
    /\ sort \in [Sorters -> [pc: {"idle", "pick", "clear", "work"}, key: Keys \cup {NoKey},
                             list: SUBSET Folders]]
    /\ job \in [Sorters -> [Msgs -> [pc: {"none", "own", "remember", "list", "mark", "judge", "move"},
                                     list: SUBSET Folders]]]
    /\ hand \in [pc: {"idle", "file"}, msg: Msgs \cup {NoFolder}, folder: Places]
    /\ sorts \in 0..MaxSorts /\ faults \in 0..MaxFaults
    /\ chosen \in [Msgs -> Places \cup {NoChoice}]
    /\ late \subseteq Msgs /\ stuck \subseteq Msgs
    /\ by \in [Msgs -> Keys \cup {NoKey}]
    /\ cut \subseteq Keys \X Msgs

Init ==
    /\ folders = {} /\ deleted = {}
    /\ listed = Msgs
    /\ row = [m \in Msgs |-> Unfiled]
    /\ undo = [k \in Keys |-> [m \in Msgs |-> NoRecord]]
    /\ sort = [s \in Sorters |-> IdleSort]
    /\ job = [s \in Sorters |-> [m \in Msgs |-> NoJob]]
    /\ hand = Idle
    /\ sorts = 0 /\ faults = 0
    /\ chosen = [m \in Msgs |-> NoChoice]
    /\ late = {} /\ stuck = {} /\ cut = {}
    /\ by = [m \in Msgs |-> NoKey]

-----------------------------------------------------------------------------
(* The MailboxDO's calls that write a row *)

Filed(f) == [Unfiled EXCEPT !.folder = f]
Unsure(f) == [Unfiled EXCEPT !.suggest = f]

\* What fileMessage makes of the scores of these folders, or of a failed call.
Decisions(list) == {Unfiled} \cup {Filed(f) : f \in list} \cup {Unsure(f) : f \in list}

\* Forgets that a person may have filed it.
BugOpen(m) == m \in listed

\* A message a rule may file.
Open(m) == m \in listed /\ ~row[m].you

\* MailboxDO.fileMessage, for a decision of the sort with this key.
FileRow(m, d, key) ==
    /\ row' = [row EXCEPT ![m] = IF Open(m) THEN d ELSE @]
    /\ by' = [by EXCEPT ![m] = IF Open(m) THEN key ELSE @]

-----------------------------------------------------------------------------
(* Sorting *)

\* A sorter goes on with these jobs, and is done when there are none.
Work(s, jobs) ==
    /\ job' = [job EXCEPT ![s] = jobs]
    /\ sort' = [sort EXCEPT ![s] = IF \A m \in Msgs : jobs[m] = NoJob THEN IdleSort
                                   ELSE [@ EXCEPT !.pc = "work", !.list = {}]]

NextJob(s, m, pc, list) == Work(s, [job[s] EXCEPT ![m] = [pc |-> pc, list |-> list]])
JobDone(s, m) == Work(s, [job[s] EXCEPT ![m] = NoJob])

Doing(s, m, pc) == sort[s].pc = "work" /\ job[s][m].pc = pc

\* A message arrives, a person asks for it to be sorted again, or explains why
\* it should have been filed elsewhere: fileMessage alone.
SortOne(s, m) ==
    /\ sort[s].pc = "idle" /\ sorts < MaxSorts /\ m \in listed
    /\ NextJob(s, m, "list", {})
    /\ sorts' = sorts + 1
    /\ UNCHANGED <<table, listed, row, undo, hand, faults, history>>

\* sortRecent lists the folders ...
SortRecent(s, key) ==
    /\ sort[s].pc = "idle" /\ sorts < MaxSorts /\ folders # {}
    /\ sort' = [sort EXCEPT ![s] = [pc |-> "pick", key |-> key, list |-> folders]]
    /\ sorts' = sorts + 1
    /\ UNCHANGED <<table, listed, row, undo, job, hand, faults, history>>

\* ... and sortInto gets the one that changed.
SortInto(s, f) ==
    /\ sort[s].pc = "idle" /\ sorts < MaxSorts /\ f \in folders
    /\ sort' = [sort EXCEPT ![s] = [pc |-> "pick", key |-> f, list |-> {f}]]
    /\ sorts' = sorts + 1
    /\ UNCHANGED <<table, listed, row, undo, job, hand, faults, history>>

\* What a sorter does first with a message it picked.
FirstJob(s, m) ==
    LET key == sort[s].key IN
    CASE key = NoKey -> [pc |-> "mark", list |-> sort[s].list]
      [] key # NoKey /\ key = row[m].folder -> [pc |-> "own", list |-> {}]
      [] OTHER -> [pc |-> "remember", list |-> sort[s].list]

\* sortCandidates: those of the open messages that are in the window and the
\* places asked for.
Pick(s) ==
    /\ sort[s].pc = "pick"
    /\ \E todo \in SUBSET {m \in Msgs : Open(m)} :
         LET jobs == [m \in Msgs |-> IF m \in todo THEN FirstJob(s, m) ELSE NoJob] IN
         \/ sort[s].key = NoKey /\ Work(s, jobs)
         \/ /\ sort[s].key # NoKey
            /\ sort' = [sort EXCEPT ![s].pc = "clear", ![s].list = {}]
            /\ job' = [job EXCEPT ![s] = jobs]
    /\ UNCHANGED <<table, listed, row, undo, hand, sorts, faults, history>>

\* The messages that sorts with this key have already remembered: if they move
\* them from now on, that cannot be undone.
Cutting(k) ==
    {m \in Msgs : \E s \in Sorters : /\ sort[s].key = k
                                    /\ job[s][m].pc \in {"list", "mark", "judge", "move"}}

\* The undo records of a key are deleted.
Forget(k) ==
    /\ undo' = [undo EXCEPT ![k] = [m \in Msgs |-> NoRecord]]
    /\ cut' = cut \cup ({k} \X Cutting(k))

\* startSortUndo
Clear(s) ==
    /\ sort[s].pc = "clear"
    /\ Forget(sort[s].key)
    /\ by' = [m \in Msgs |-> IF by[m] = sort[s].key THEN NoKey ELSE by[m]]
    /\ Work(s, job[s])
    /\ UNCHANGED <<table, listed, row, hand, sorts, faults, chosen, late, stuck>>

\* Does not await the write, which is lost.
BugRecord(k, m) == UNCHANGED undo

\* rememberForUndo: INSERT OR IGNORE INTO sort_undo.
Record(k, m) ==
    undo' = [undo EXCEPT ![k][m] = IF m \in listed /\ @ = NoRecord THEN row[m] ELSE @]

\* A message of the sort's own folder, or of "Sort mail again", is remembered
\* and then sorted; any other that the model puts in the sort's folder is
\* remembered and then moved there.
Remember(s, m) ==
    /\ \/ Doing(s, m, "own") /\ NextJob(s, m, "list", {})
       \/ /\ Doing(s, m, "remember")
          /\ NextJob(s, m, IF sort[s].key = All THEN "mark" ELSE "move", job[s][m].list)
    /\ Record(sort[s].key, m)
    /\ UNCHANGED <<table, listed, row, hand, sorts, faults, history>>

\* The model says the message does not go in the sort's folder.
LeaveOut(s, m) ==
    /\ Doing(s, m, "remember") /\ sort[s].key \in Folders
    /\ JobDone(s, m)
    /\ UNCHANGED <<table, listed, row, undo, hand, sorts, faults, history>>

Move(s, m) ==
    /\ Doing(s, m, "move")
    /\ FileRow(m, Filed(sort[s].key), sort[s].key)
    /\ JobDone(s, m)
    /\ UNCHANGED <<table, listed, undo, hand, sorts, faults, chosen, late, stuck, cut>>

\* fileMessage: the folders, when it was not given them.
List(s, m) ==
    /\ Doing(s, m, "list")
    /\ IF folders = {} THEN JobDone(s, m) ELSE NextJob(s, m, "mark", folders)
    /\ UNCHANGED <<table, listed, row, undo, hand, sorts, faults, history>>

\* fileMessage: a message sent to a folder's +address goes there.
FileByAddress(s, m) ==
    /\ Doing(s, m, "mark")
    /\ \E f \in job[s][m].list : FileRow(m, Filed(f), sort[s].key)
    /\ JobDone(s, m)
    /\ UNCHANGED <<table, listed, undo, hand, sorts, faults, chosen, late, stuck, cut>>

\* fileMessage: otherwise the model is asked, if a folder has a rule.
Mark(s, m) ==
    /\ Doing(s, m, "mark")
    /\ \/ /\ Open(m)
          /\ row' = [row EXCEPT ![m].pending = TRUE]
          /\ NextJob(s, m, "judge", job[s][m].list)
       \/ JobDone(s, m) /\ UNCHANGED row
    /\ UNCHANGED <<table, listed, undo, hand, sorts, faults, history>>

\* fileMessage: the model's answer, or that it failed to give one.
Judge(s, m) ==
    /\ Doing(s, m, "judge")
    /\ \E d \in Decisions(job[s][m].list) : FileRow(m, d, sort[s].key)
    /\ JobDone(s, m)
    /\ UNCHANGED <<table, listed, undo, hand, sorts, faults, chosen, late, stuck, cut>>

\* The worker is cut off: the platform bounds how long it may go on.
SorterDies(s) ==
    /\ sort[s].pc # "idle" /\ faults < MaxFaults
    /\ faults' = faults + 1
    /\ Work(s, [m \in Msgs |-> NoJob])
    /\ stuck' = stuck \cup {m \in Msgs : job[s][m].pc = "judge"}
    /\ UNCHANGED <<table, listed, row, undo, hand, sorts, chosen, late, by, cut>>

-----------------------------------------------------------------------------
(* The person *)

\* saveFolder, for a new one.
CreateFolder(f) ==
    /\ f \notin folders \cup deleted
    /\ folders' = folders \cup {f}
    /\ UNCHANGED <<deleted, listed, row, undo, sort, job, hand, sorts, faults, history>>

\* A folder, or none, is picked from the list ...
Choose(m, f) ==
    /\ hand.pc = "idle" /\ m \in listed /\ f \in folders \cup {NoFolder}
    /\ hand' = [pc |-> "file", msg |-> m, folder |-> f]
    /\ UNCHANGED <<table, listed, row, undo, sort, job, sorts, faults, history>>

\* ... and the message is filed there.
FileByHand ==
    /\ hand.pc = "file"
    /\ hand' = Idle
    /\ LET m == hand.msg
           d == [Filed(hand.folder) EXCEPT !.you = TRUE]
       IN  IF m \in listed
           THEN /\ row' = [row EXCEPT ![m] = d]
                /\ chosen' = [chosen EXCEPT ![m] = hand.folder]
                /\ by' = [by EXCEPT ![m] = NoKey]
           ELSE UNCHANGED <<row, chosen, by>>
    /\ UNCHANGED <<table, listed, undo, sort, job, sorts, faults, late, stuck, cut>>

\* Messages that something other than their row still knows the folder for.
Knowing(f) ==
    {m \in Msgs :
        \/ \E s \in Sorters : f \in sort[s].list \cup job[s][m].list \cup {sort[s].key}
        \/ hand.msg = m /\ hand.folder = f
        \/ \E k \in Keys \ {f} : f \in {undo[k][m].folder, undo[k][m].suggest}}

\* Leaves suggestions of the folder alone.
BugNaming(f) == {m \in listed : row[m].folder = f}

Naming(f) == {m \in listed : f \in {row[m].folder, row[m].suggest}}

\* deleteFolder
DeleteFolder(f) ==
    /\ f \in folders
    /\ folders' = folders \ {f} /\ deleted' = deleted \cup {f}
    /\ row' = [m \in Msgs |-> IF m \in Naming(f) THEN Unfiled ELSE row[m]]
    /\ Forget(f)
    /\ by' = [m \in Msgs |-> IF m \in Naming(f) \/ by[m] = f THEN NoKey ELSE by[m]]
    /\ chosen' = [m \in Msgs |-> IF m \in Naming(f) THEN NoChoice ELSE chosen[m]]
    /\ late' = late \cup Knowing(f)
    /\ UNCHANGED <<listed, sort, job, hand, sorts, faults, stuck>>

\* undoSort
Undo(k) ==
    /\ \E m \in Msgs : undo[k][m] # NoRecord
    /\ LET back == {m \in Msgs : Open(m) /\ undo[k][m] # NoRecord} IN
         /\ row' = [m \in Msgs |-> IF m \in back THEN undo[k][m] ELSE row[m]]
         /\ by' = [m \in Msgs |-> IF m \in back THEN NoKey ELSE by[m]]
         /\ stuck' = stuck \cup {m \in back : undo[k][m].pending}
    /\ Forget(k)
    /\ UNCHANGED <<table, listed, sort, job, hand, sorts, faults, chosen, late>>

\* A message is deleted for good. Its undo records stay.
Purge(m) ==
    /\ m \in listed
    /\ listed' = listed \ {m}
    /\ row' = [row EXCEPT ![m] = Unfiled]
    /\ chosen' = [chosen EXCEPT ![m] = NoChoice]
    /\ by' = [by EXCEPT ![m] = NoKey]
    /\ UNCHANGED <<table, undo, sort, job, hand, sorts, faults, late, stuck, cut>>

-----------------------------------------------------------------------------

Next ==
    \/ \E s \in Sorters : Pick(s) \/ Clear(s) \/ SorterDies(s)
    \/ \E s \in Sorters, key \in {All, NoKey} : SortRecent(s, key)
    \/ \E s \in Sorters, f \in Folders : SortInto(s, f)
    \/ \E s \in Sorters, m \in Msgs :
         \/ SortOne(s, m) \/ Remember(s, m) \/ LeaveOut(s, m) \/ Move(s, m)
         \/ List(s, m) \/ FileByAddress(s, m) \/ Mark(s, m) \/ Judge(s, m)
    \/ \E f \in Folders : CreateFolder(f) \/ DeleteFolder(f)
    \/ \E m \in Msgs, f \in Places : Choose(m, f)
    \/ FileByHand
    \/ \E k \in Keys : Undo(k)
    \/ \E m \in Msgs : Purge(m)

Spec == Init /\ [][Next]_vars

-----------------------------------------------------------------------------
(* Correctness *)

\* A person's choice always wins: it stands until they choose again or delete
\* the folder, whatever sorts and undos were under way.
PersonWins ==
    \A m \in listed : chosen[m] # NoChoice =>
        row[m] = [Filed(chosen[m]) EXCEPT !.you = TRUE]

\* A message names a folder that was deleted only when a sort, a person's
\* choice or an undo record still knew the folder at that moment.
DanglingAccounted ==
    \A m \in listed : {row[m].folder, row[m].suggest} \cap deleted # {} => m \in late

\* What the last sort with an undo moved can be put back, unless the sort was
\* undone, or started again, while it was at that message.
MovedCanBeUndone ==
    \A m \in listed : by[m] # NoKey =>
        undo[by[m]][m] # NoRecord \/ <<by[m], m>> \in cut

\* A message shown as being sorted is being sorted, unless the sorter was cut
\* off or an undo brought that state back.
PendingIsBeingSorted ==
    \A m \in listed : row[m].pending =>
        m \in stuck \/ \E s \in Sorters : job[s][m].pc = "judge"
=============================================================================
