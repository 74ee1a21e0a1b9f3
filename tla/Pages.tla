------------------------------- MODULE Pages -------------------------------
(***************************************************************************)
(* Three things a person's requests to the pages do to a mailbox: writing  *)
(* a draft, changing a folder's rule, and opening a mailbox whose old      *)
(* messages have still to be moved. They share no state, so a behaviour    *)
(* is one of them: scene says which.                                       *)
(***************************************************************************)
EXTENDS Naturals

CONSTANTS
    MaxFaults,
    Requests, Wiper, MaxWipes,                               \* Drafts
    N, OldThread, Runs, None,                                \* Backfill
    Tabs, Mail, RuleTexts, Fits, Mine, MaxPosts, MaxEdits,   \* Rules
    Windows, Covers, SortWindow, ShortWindow

\* The deletion of the mailbox is no request on a draft; there is something to
\* move, and each run is a thread of its own; a folder begins with a rule, and
\* each window takes in some of the mail.
ASSUME PagesAssumption ==
    /\ Wiper \notin Requests /\ N \in Nat \ {0} /\ None \notin Runs /\ RuleTexts # {}
    /\ Covers \in [Windows -> SUBSET Mail] /\ {SortWindow, ShortWindow} \subseteq Windows

VARIABLES
    scene,
    \* Drafts
    draft, r2, req, mailed, wipes, cut, late, gone,
    \* Backfill
    pending, run, copies, row, msgids, read, replies, deleted, opened, again,
    \* Rules
    rule, prev, place, cache, page, post, job, posts, edits, missed, outrun, sure,
    \* each of them
    faults

D == INSTANCE Drafts
B == INSTANCE Backfill
R == INSTANCE Rules WITH Msgs <- Mail

drafts == <<draft, r2, req, mailed, wipes, cut, late, gone>>
legacy == <<pending, run, copies, row, msgids, read, replies, deleted, opened, again>>
folder == <<rule, prev, place, cache, page, post, job, posts, edits, missed, outrun, sure>>
vars == <<scene, drafts, legacy, folder, faults>>

Init ==
    /\ D!Init /\ B!Init /\ R!Init
    /\ scene \in {"drafts", "legacy", "folder"}
    /\ scene # "folder" => rule = (CHOOSE text \in RuleTexts : TRUE)

Next ==
    /\ scene' = scene
    /\ \/ scene = "drafts" /\ D!Next /\ UNCHANGED <<legacy, folder>>
       \/ scene = "legacy" /\ B!Next /\ UNCHANGED <<drafts, folder>>
       \/ scene = "folder" /\ R!Next /\ UNCHANGED <<drafts, legacy>>

Spec == Init /\ [][Next]_vars

-----------------------------------------------------------------------------
(* What is to hold of each *)

\* A mail has every file its draft had when Send was pressed, unless the draft
\* was sent, discarded or wiped by another before they were read (sendFromForm).
SentWithItsFiles == D!SentWithItsFiles

\* A file that was uploaded is gone only if a mail took it along, its owner
\* discarded it, or it was saved while the draft was being sent (sendFromForm).
UnsentKept == D!UnsentKept

\* An old message is in the thread its row names, once the old tables are gone
\* at the latest, unless the owner purged it (backfill).
LegacyKept == B!LegacyKept

\* A conversation stays one, with the replies it gets; moved once, what the
\* owner purged stays gone and what he read stays read (backfill, index, ingest).
MovedOnce == B!MovedOnce

\* What is counted or listed of a check, and the explanation, is of the rule and
\* the window beside it, though tabs fill and read the explanation that is kept at
\* the same time (WhyNot, SortPlaces, ThreadDO.explain).
ToldOfItsRule == R!ToldOfItsRule

\* Mail a sort has looked at since the rule changed is in the folder just if the
\* rule fits it; not counted is what is out of its window or places, what the
\* model failed on, and what an older sort filed since (sortInto, sortRecent).
FolderFits == R!FolderFits
=============================================================================
