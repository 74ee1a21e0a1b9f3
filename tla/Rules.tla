-------------------------------- MODULE Rules --------------------------------
(***************************************************************************)
(* Changing a folder's rule, from the pages where a person does it.        *)
(*                                                                         *)
(* A person has the folder's editor open in one tab (with the rule tester  *)
(* and "Sort mail I already have") and "Why not this folder?" in another.  *)
(* Each tab holds the rule as it was when the tab was opened, what was     *)
(* typed since, and the outcome of a check that may still be running. What *)
(* a tab posts is served by a worker that saves the rule and then sorts    *)
(* mail of a window, judging each message with a model that may fail.      *)
(*                                                                         *)
(* One folder, and mail that is in it or in Messages; mail filed by hand,  *)
(* other folders and undoing a sort are in module Filing. Fits stands for  *)
(* the model: it gives one answer to one question, and the tester, the     *)
(* sort and the filing of one message ask the same one. Two texts are      *)
(* taken to have different hashes.                                         *)
(*                                                                         *)
(* A Bug... operator is the operator that follows it with a mistake in it. *)
(***************************************************************************)
EXTENDS Naturals, FiniteSets, Functions

CONSTANTS
    Tabs,        \* pages a person has open
    Msgs,        \* received messages
    RuleTexts,   \* what a rule may say
    Fits,        \* for each text, the messages the model files by it
    Windows,     \* days and limit, as one value
    Covers,      \* for each window, the messages it takes in
    SortWindow,  \* what the editor begins with: 30 days, 200 messages
    ShortWindow, \* what why/save and folders/undo sort: 7 days, 100 messages
    Mine,        \* the message "Why not this folder?" was asked of
    None,        \* no rule: nothing asked, nothing kept, nothing to undo
    MaxPosts,    \* bound on forms posted
    MaxEdits,    \* bound on changes typed
    MaxFaults    \* bound on workers that die and calls of the model that fail

VARIABLES
    rule, prev, \* rule and prev_rule of the folder's row
    place,      \* whether each message is in the folder
    cache,      \* the explanation the ThreadDO keeps for Mine: the hash of its
                \* row, and the rule it is really of
    page,       \* what each tab shows
    post,       \* the form of each tab that a worker serves
    job,        \* what is left to sort for it: each message, the rule it is
                \* judged by (None: not read yet) and what is done with it
    posts, edits, faults,
    missed,     \* history: what the sort of each form does not look at, or what
                \* was filed since by a rule that is no longer the folder's
    outrun,     \* history: forms whose sort began before the rule was changed
    sure        \* history: messages a sort by the rule has looked at

server == <<rule, prev, place, cache>>
work == <<post, job>>
counts == <<posts, edits, faults>>
seen == <<missed, outrun, sure>>
vars == <<rule, prev, place, cache, page, post, job, posts, edits, faults,
          missed, outrun, sure>>

Closed == [at |-> "closed", base |-> None, text |-> None, win |-> SortWindow,
           asked |-> None, shown |-> None, late |-> FALSE, told |-> None, tidy |-> None]
NoPost == [pc |-> "idle", text |-> None, tested |-> None, look |-> {}, win |-> SortWindow]
NoJob == << >>

Busy(t) == post[t].pc # "idle"

Init ==
    /\ rule \in RuleTexts /\ prev = None
    /\ place = [m \in Msgs |-> m \in Fits[rule]]
    /\ cache = None
    /\ page = [t \in Tabs |-> Closed]
    /\ post = [t \in Tabs |-> NoPost] /\ job = [t \in Tabs |-> NoJob]
    /\ posts = 0 /\ edits = 0 /\ faults = 0
    /\ missed = [t \in Tabs |-> Msgs] /\ outrun = {} /\ sure = Msgs

-----------------------------------------------------------------------------
(* In the browser *)

Open(t, at) ==
    /\ page[t].at = "closed" /\ ~Busy(t) /\ posts < MaxPosts
    /\ page' = [page EXCEPT ![t] = [Closed EXCEPT !.at = at, !.base = rule, !.text = rule]]
    /\ UNCHANGED <<server, work, counts, seen>>

OpenEditor(t) == Open(t, "editor")

\* The panel asks for the folder, and with it for an explanation.
OpenWhy(t) == Open(t, "loading")

\* What comes is of the rule it was asked of; the form holds that rule and what
\* the explanation suggests to add.
Told(t, of, text) == page' = [page EXCEPT ![t].at = "why", ![t].told = of, ![t].text = text]

\* ThreadDO.explain looks for one that it keeps, by the hash of the rule, and
\* asks a model otherwise.
Kept(t) == cache # None /\ cache.hash = page[t].base

Explain(t) ==
    /\ page[t].at = "loading"
    /\ IF Kept(t)
       THEN \E text \in RuleTexts : Told(t, cache.of, text)
       ELSE page' = [page EXCEPT ![t].at = "asking"]
    /\ UNCHANGED <<server, work, counts, seen>>

\* The model's answer is put in place of the one that is kept, with its hash.
BugKeep(t) == IF cache = None THEN [hash |-> page[t].base, of |-> page[t].base]
              ELSE [cache EXCEPT !.of = page[t].base]
Keep(t) == [hash |-> page[t].base, of |-> page[t].base]

Explained(t) ==
    /\ page[t].at = "asking"
    /\ \E text \in RuleTexts : Told(t, page[t].base, text)
    /\ cache' = Keep(t)
    /\ UNCHANGED <<rule, prev, place, work, counts, seen>>

\* "Couldn't explain this one right now." To try again is to open it again.
NotExplained(t) ==
    /\ page[t].at = "asking" /\ faults < MaxFaults
    /\ page' = [page EXCEPT ![t] = Closed]
    /\ faults' = faults + 1
    /\ UNCHANGED <<server, work, posts, edits, seen>>

\* A change of the text or the window drops what SortPlaces counts and WhyNot
\* lists of the old one. (The tester's own list stays.)
BugType(t, text, win) == [page[t] EXCEPT !.text = text, !.win = win]
Type(t, text, win) ==
    [page[t] EXCEPT !.text = text, !.win = win, !.shown = None, !.late = FALSE]

\* WhyNot shows its tidy panel instead of the form, the editor beside it.
FormShown(t) == page[t].at = "editor" \/ (page[t].at = "why" /\ page[t].tidy = None)

Edit(t, text) ==
    /\ FormShown(t) /\ edits < MaxEdits /\ text # page[t].text
    /\ page' = [page EXCEPT ![t] = Type(t, text, page[t].win)]
    /\ edits' = edits + 1
    /\ UNCHANGED <<server, work, posts, faults, seen>>

\* Days and limit, under "Where to look".
Resize(t, win) ==
    /\ page[t].at = "editor" /\ edits < MaxEdits /\ win # page[t].win
    /\ page' = [page EXCEPT ![t] = Type(t, page[t].text, win)]
    /\ edits' = edits + 1
    /\ UNCHANGED <<server, work, posts, faults, seen>>

\* A rewrite is proposed of the text as it is now; it may say anything.
Tidy(t, text) ==
    /\ FormShown(t) /\ page[t].tidy = None /\ edits < MaxEdits
    /\ page' = [page EXCEPT ![t].tidy = text]
    /\ edits' = edits + 1
    /\ UNCHANGED <<server, work, posts, faults, seen>>

\* "Use tidied version": put into the editor as if it had been typed; WhyNot
\* drops what it lists only if the rule is another one then.
UseTidied(t) ==
    /\ page[t].tidy # None
    /\ LET same == page[t].at = "why" /\ page[t].tidy = page[t].text
           now == IF same THEN page[t] ELSE Type(t, page[t].tidy, page[t].win)
       IN  page' = [page EXCEPT ![t] = [now EXCEPT !.tidy = None]]
    /\ UNCHANGED <<server, work, counts, seen>>

\* What is in the form now.
Now(t) == [rule |-> page[t].text, win |-> page[t].win]

\* "Test this rule". The old test counts until a batch of the new one comes.
Test(t) ==
    /\ page[t].at = "editor" /\ page[t].asked = None
    /\ page' = [page EXCEPT ![t].asked = Now(t)]
    /\ UNCHANGED <<server, work, counts, seen>>

\* "Check it"
Check(t) ==
    /\ FormShown(t) /\ page[t].at = "why" /\ page[t].asked = None
    /\ page' = [page EXCEPT ![t].asked = Now(t), ![t].shown = None]
    /\ UNCHANGED <<server, work, counts, seen>>

\* What was found is shown even if the form has been changed meanwhile. It has
\* verdicts over some messages once it is done.
Shown(t, over) ==
    [page[t] EXCEPT !.shown = [rule |-> page[t].asked.rule, win |-> page[t].asked.win,
                               over |-> over],
                    !.late = page[t].asked # Now(t)]

\* A batch that is not the last.
Batch(t) ==
    /\ page[t].at = "editor" /\ page[t].asked # None
    /\ page' = [page EXCEPT ![t] = Shown(t, {})]
    /\ UNCHANGED <<server, work, counts, seen>>

\* The last batch of the test. Messages that could not be checked have no
\* verdict; if none has, nothing is shown.
Tested(t) ==
    /\ page[t].at = "editor" /\ page[t].asked # None
    /\ \E failed \in SUBSET Covers[page[t].asked.win] :
         LET over == Covers[page[t].asked.win] \ failed
             now == IF over = {} THEN [page[t] EXCEPT !.shown = None, !.late = FALSE]
                    ELSE Shown(t, over)
         IN  /\ page' = [page EXCEPT ![t] = [now EXCEPT !.asked = None]]
             /\ faults' = faults + (IF failed = {} THEN 0 ELSE 1) /\ faults' <= MaxFaults
    /\ UNCHANGED <<server, work, posts, edits, seen>>

\* Both versions have been compared on recent mail.
Compared(t) ==
    /\ page[t].at = "why" /\ page[t].asked # None
    /\ page' = [page EXCEPT ![t] = [Shown(t, {}) EXCEPT !.asked = None]]
    /\ UNCHANGED <<server, work, counts, seen>>

\* It failed, or was stopped.
NoAnswer(t) ==
    /\ page[t].asked # None
    /\ page' = [page EXCEPT ![t].asked = None]
    /\ UNCHANGED <<server, work, counts, seen>>

-----------------------------------------------------------------------------
(* Saving *)

Posting(t, form) ==
    /\ ~Busy(t) /\ posts < MaxPosts
    /\ post' = [post EXCEPT ![t] = form]
    /\ posts' = posts + 1
    /\ page' = [page EXCEPT ![t] = Closed]

\* SortPlaces puts a finished test into the form, the window, and where to look
\* (nowhere: not to sort).
EditorForm(t, look) ==
    [pc |-> "write", text |-> page[t].text, look |-> look, win |-> page[t].win,
     tested |-> IF page[t].shown # None /\ page[t].shown.over # {} THEN page[t].shown ELSE None]

\* folders/save, up to reading the folder: its own mail is only looked at if the
\* rule is another one.
SaveFolder(t) ==
    /\ page[t].at = "editor"
    /\ \E look \in SUBSET {"messages", "folder"} :
         Posting(t, EditorForm(t, IF page[t].text = rule THEN look \ {"folder"} ELSE look))
    /\ UNCHANGED <<server, job, edits, faults, seen>>

\* why/save, which the panel offers once the text differs from what it loaded.
WhySave(t) ==
    /\ page[t].at = "why" /\ FormShown(t) /\ page[t].text # page[t].base
    /\ Posting(t, [NoPost EXCEPT !.pc = "add", !.text = page[t].text, !.win = ShortWindow])
    /\ UNCHANGED <<server, job, edits, faults, seen>>

\* The rule becomes that text for form t, which is certain to file own. If it was
\* another rule, no message is sure to fit and no sort at work looks by it.
Changes(t, text, own) ==
    /\ rule' = text
    /\ missed' = [u \in Tabs |-> IF u = t THEN Msgs \ own
                                ELSE IF text = rule THEN missed[u] ELSE Msgs]
    /\ outrun' = (IF text = rule THEN outrun ELSE {u \in Tabs : Busy(u)}) \ {t}
    /\ sure' = IF text = rule THEN sure ELSE {}

\* MailboxDO.saveFolder: the rule before is kept for Undo, unless it is the same.
Save(t, own) ==
    /\ prev' = IF post[t].text = rule THEN prev ELSE rule
    /\ Changes(t, post[t].text, own)

Write(t) ==
    /\ post[t].pc = "write"
    /\ Save(t, {})
    /\ post' = [post EXCEPT ![t].pc = IF post[t].look = {} THEN "end" ELSE "places"]
    /\ UNCHANGED <<place, cache, page, job, counts>>

\* What is done with a message: it is moved in, or checked and moved in if it
\* fits, or sorted, that is filed where it fits.
ToDo(by, kind) == [by |-> by, kind |-> kind]

\* why/save files the message it was asked of before it sorts.
WriteWhy(t) ==
    /\ post[t].pc = "add"
    /\ Save(t, {Mine})
    /\ post' = [post EXCEPT ![t].pc = "first"]
    /\ job' = [job EXCEPT ![t] = [m \in {Mine} |-> ToDo(None, "sort")]]
    /\ UNCHANGED <<place, cache, page, counts>>

\* folders/undo: undoRule, then sortRecent.
Undo(t) ==
    /\ page[t].at \in {"closed", "editor"} /\ prev # None
    /\ Posting(t, [NoPost EXCEPT !.pc = "list", !.win = ShortWindow])
    /\ Changes(t, prev, {}) /\ prev' = None
    /\ UNCHANGED <<place, cache, job, edits, faults>>

\* folders/resort: "Sort mail again", of the list of folders.
SortAgain(t) ==
    /\ page[t].at = "closed" /\ Posting(t, [NoPost EXCEPT !.pc = "list"])
    /\ UNCHANGED <<server, job, edits, faults, seen>>

-----------------------------------------------------------------------------
(* Sorting *)

\* The verdicts of a test are used while they are of the rule that is saved, and
\* of the window that is sorted.
BugUsable(tested, win) == tested # None /\ tested.win = win
Usable(tested, win) == tested # None /\ tested.rule = rule /\ tested.win = win

\* A sort begins on these messages; by the rule as it is now.
Looks(t, msgs) ==
    /\ missed' = [missed EXCEPT ![t] = @ \ msgs]
    /\ outrun' = outrun \ {t}
    /\ post' = [post EXCEPT ![t].pc = "sort"]

\* sortInto. What the test found in goes in, what it found out stays where it is
\* unless that is the folder; the rest is checked. The folder's own mail is
\* judged by all rules.
SortInto(t) ==
    /\ post[t].pc = "places"
    /\ LET tested == post[t].tested
           known == IF Usable(tested, post[t].win) THEN tested.over ELSE {}
           found == IF known = {} THEN {} ELSE known \cap Fits[tested.rule]
           rows == {m \in Covers[post[t].win] :
                      (IF place[m] THEN "folder" ELSE "messages") \in post[t].look}
           resort == {m \in rows : place[m] /\ m \notin found}
           move == {m \in rows : ~place[m] /\ m \in found}
           check == {m \in rows : ~place[m] /\ m \notin known}
       IN  /\ job' = [job EXCEPT ![t] =
                        [m \in resort \cup move \cup check |->
                           CASE m \in resort -> ToDo(None, "sort")
                             [] m \in move -> ToDo(tested.rule, "move")
                             [] OTHER -> ToDo(rule, "check")]]
           /\ Looks(t, rows)
    /\ UNCHANGED <<server, page, counts, sure>>

\* sortRecent: every message by the folders as they are listed now. After
\* why/save it comes when the message it was asked of has been filed.
SortRecent(t) ==
    /\ post[t].pc \in {"list", "first"} /\ job[t] = NoJob
    /\ job' = [job EXCEPT ![t] = [m \in Covers[post[t].win] |-> ToDo(rule, "sort")]]
    /\ Looks(t, Covers[post[t].win])
    /\ UNCHANGED <<server, page, counts, sure>>

\* fileMessage without a list of folders: it reads the rules when it begins.
ReadRules(t, m) ==
    /\ m \in DOMAIN job[t] /\ job[t][m].by = None
    /\ job' = [job EXCEPT ![t][m].by = rule]
    /\ UNCHANGED <<server, page, post, counts, seen>>

\* judgeForFolder: whether it goes in; mail elsewhere that does not stays there.
Judged(t, m) == m \in Fits[job[t][m].by]
Done(t, m) == job' = [job EXCEPT ![t] = Restrict(@, DOMAIN @ \ {m})]

\* Nobody's sort has made sure of m.
Lost(m) == missed' = [u \in Tabs |-> missed[u] \cup {m}] /\ sure' = sure \ {m}

\* The model has answered, or had before, and the message is filed.
FileMessage(t, m) ==
    /\ m \in DOMAIN job[t] /\ job[t][m].by # None
    /\ place' = [place EXCEPT ![m] = Judged(t, m) \/ (job[t][m].kind # "sort" /\ @)]
    /\ Done(t, m)
    /\ IF t \in outrun /\ job[t][m].by # rule /\ (job[t][m].kind = "sort" \/ Judged(t, m))
       THEN Lost(m)
       ELSE UNCHANGED <<missed, sure>>
    /\ UNCHANGED <<rule, prev, cache, page, post, counts, outrun>>

\* The model fails. fileMessage records that, which takes the message out of the
\* folder; a message that was only to be checked stays where it is.
NotJudged(t, m) ==
    /\ m \in DOMAIN job[t] /\ job[t][m].by # None /\ job[t][m].kind # "move"
    /\ faults < MaxFaults /\ faults' = faults + 1
    /\ Done(t, m)
    /\ IF job[t][m].kind = "sort"
       THEN place' = [place EXCEPT ![m] = FALSE] /\ Lost(m)
       ELSE missed' = [missed EXCEPT ![t] = @ \cup {m}] /\ UNCHANGED <<place, sure>>
    /\ UNCHANGED <<rule, prev, cache, page, post, posts, edits, outrun>>

\* Nobody serves the form of t any more.
Leave(t) ==
    /\ post' = [post EXCEPT ![t] = NoPost] /\ job' = [job EXCEPT ![t] = NoJob]
    /\ missed' = [missed EXCEPT ![t] = Msgs] /\ outrun' = outrun \ {t}

\* What it has looked at is sure, and what was before unless it was lost.
End(t) ==
    /\ post[t].pc \in {"sort", "end"} /\ job[t] = NoJob
    /\ Leave(t)
    /\ sure' = sure \cup (Msgs \ missed[t])
    /\ UNCHANGED <<server, page, counts>>

\* The worker dies, or its time for background work is over.
Die(t) ==
    /\ Busy(t) /\ faults < MaxFaults
    /\ faults' = faults + 1
    /\ Leave(t)
    /\ UNCHANGED <<server, page, posts, edits, sure>>

-----------------------------------------------------------------------------
Finished ==
    /\ posts = MaxPosts /\ \A t \in Tabs : page[t].at = "closed" /\ ~Busy(t)
    /\ UNCHANGED vars

Next ==
    \/ \E t \in Tabs :
         \/ OpenEditor(t) \/ OpenWhy(t) \/ Explain(t) \/ Explained(t) \/ NotExplained(t)
         \/ \E text \in RuleTexts : Edit(t, text) \/ Tidy(t, text)
         \/ \E win \in Windows : Resize(t, win)
         \/ UseTidied(t) \/ Test(t) \/ Check(t) \/ Batch(t)
         \/ Tested(t) \/ Compared(t) \/ NoAnswer(t)
         \/ SaveFolder(t) \/ WhySave(t) \/ Write(t) \/ WriteWhy(t) \/ Undo(t) \/ SortAgain(t)
         \/ SortInto(t) \/ SortRecent(t) \/ End(t) \/ Die(t)
         \/ \E m \in Msgs : ReadRules(t, m) \/ FileMessage(t, m) \/ NotJudged(t, m)
    \/ Finished

Spec == Init /\ [][Next]_vars

-----------------------------------------------------------------------------
\* What SortPlaces counts and WhyNot lists is of the rule and the window in the
\* form beside it, unless those were changed between the question and the answer;
\* and the explanation is of the rule it is shown with, though tabs that loaded
\* different rules fill and read the one the ThreadDO keeps at the same time
\* (WhyNot's and SortPlaces' effects, ThreadDO.explain).
ToldOfItsRule ==
    \A t \in Tabs :
        /\ page[t].shown # None =>
             \/ page[t].shown.rule = page[t].text /\ page[t].shown.win = page[t].win
             \/ page[t].late
        /\ page[t].told # None => page[t].told = page[t].base

\* A message that a sort has looked at since the rule last changed is in the
\* folder just if the rule fits it, whoever else saves, sorts or undoes. It may
\* not be if it is outside the window or the places of the sort, if the model
\* failed on it, or if a sort that the change overtook filed it since (sortInto,
\* sortRecent, fileMessage).
FolderFits == \A m \in sure : place[m] <=> m \in Fits[rule]
=============================================================================
