------------------------------- MODULE Drafts -------------------------------
(***************************************************************************)
(* A draft and the files staged for it.                                    *)
(*                                                                         *)
(* The row of the draft is in the MailboxDO, the files uploaded with it    *)
(* are objects in R2. A worker that serves Save, Send or Discard crosses   *)
(* from one to the other at every await, while another worker serves the   *)
(* same person's other request, or an alarm deletes the whole mailbox.     *)
(*                                                                         *)
(* A request r that uploads uses its own name as the key of what it        *)
(* uploads, a fresh UUID in the code. A form holds one file at most, so    *)
(* the files of a draft are a set of one or none.                          *)
(*                                                                         *)
(* A Bug... operator is the operator that follows it with a mistake in it. *)
(***************************************************************************)
EXTENDS Naturals, FiniteSets

CONSTANTS
    Requests,  \* POSTs of the compose form
    Wiper,     \* the alarm that deletes the mailbox, not a request
    MaxFaults, \* bound on workers that die and sends that fail
    MaxWipes   \* bound on deletions of the mailbox

VARIABLES
    draft,   \* the drafts row: whether it is there, and attachments_json
    r2,      \* the objects staged under drafts/
    req,     \* what each request is doing, and what it holds
    mailed,  \* the mails that went out: the request and the files in them
    faults, wipes,
    cut,     \* history: sends whose files were deleted before they were read
    late,    \* history: files saved while a send of the draft was under way
    gone     \* history: files deleted by the owner's wish

history == <<cut, late, gone>>
vars == <<draft, r2, req, mailed, faults, wipes, cut, late, gone>>

Actors == Requests \cup {Wiper}
NoRow == [there |-> FALSE, files |-> {}]
Fresh == [kind |-> "none", pc |-> "idle", files |-> {}, got |-> {}, keys |-> {}]
Busy(a) == req[a].pc \notin {"idle", "done", "dead"}
Sending(r) == req[r].kind = "send" /\ Busy(r)
Steps(r, pc) == req' = [req EXCEPT ![r].pc = pc]

Init ==
    /\ draft = NoRow /\ r2 = {}
    /\ req = [r \in Actors |-> Fresh]
    /\ mailed = {} /\ faults = 0 /\ wipes = 0 /\ cut = {}
    /\ late = {} /\ gone = {}

-----------------------------------------------------------------------------
(* Saving: saveDraftFromForm *)

\* The form is posted with a file to upload or without one.
Save(r) ==
    /\ req[r].pc = "idle"
    /\ \E files \in {{}, {r}} :
         req' = [req EXCEPT ![r] = [Fresh EXCEPT !.kind = "save", !.files = files,
                                    !.pc = IF files = {} THEN "save" ELSE "put"]]
    /\ UNCHANGED <<draft, r2, mailed, faults, wipes, history>>

\* Each file goes to R2 before the row names it.
Put(r) ==
    /\ req[r].pc = "put"
    /\ r2' = r2 \cup req[r].files
    /\ Steps(r, "save")
    /\ UNCHANGED <<draft, mailed, faults, wipes, history>>

\* COALESCE(excluded.attachments_json, drafts.attachments_json).
KeptFiles(new) == IF new = {} THEN draft.files ELSE new

\* Deletes what is replaced at once.
BugSaveDraft(r) ==
    /\ req[r].pc = "save"
    /\ draft' = [there |-> TRUE, files |-> KeptFiles(req[r].files)]
    /\ r2' = r2 \ (draft.files \ draft'.files)
    /\ Steps(r, "done")
    /\ UNCHANGED <<mailed, faults, wipes, history>>

\* saveDraft: inserts or updates. What it replaces stays in R2.
SaveDraft(r) ==
    /\ req[r].pc = "save"
    /\ draft' = [there |-> TRUE, files |-> KeptFiles(req[r].files)]
    /\ late' = IF \E q \in Requests : Sending(q) THEN late \cup req[r].files ELSE late
    /\ Steps(r, "done")
    /\ UNCHANGED <<r2, mailed, faults, wipes, cut, gone>>

-----------------------------------------------------------------------------
(* Sending: sendFromForm *)

\* getDraft: the draft may be gone by now, and is then no reason not to send.
Send(r) ==
    /\ req[r].pc = "idle"
    /\ req' = [req EXCEPT ![r] = [Fresh EXCEPT !.kind = "send", !.pc = "collect",
                                  !.files = draft.files]]
    /\ UNCHANGED <<draft, r2, mailed, faults, wipes, history>>

\* collectAttachments: an object that is gone is skipped.
Collect(r) ==
    /\ req[r].pc = "collect"
    /\ req' = [req EXCEPT ![r].pc = "send", ![r].got = req[r].files \cap r2]
    /\ UNCHANGED <<draft, r2, mailed, faults, wipes, history>>

\* send() returns: the mail is with the provider or in the outbox.
Sent(r) ==
    /\ req[r].pc = "send"
    /\ mailed' = mailed \cup {[by |-> r, files |-> req[r].got]}
    /\ Steps(r, "delete")
    /\ UNCHANGED <<draft, r2, faults, wipes, history>>

\* Discards the draft whatever became of the send.
BugSendThrows(r) ==
    /\ req[r].pc = "send" /\ faults < MaxFaults
    /\ faults' = faults + 1
    /\ Steps(r, "delete")
    /\ UNCHANGED <<draft, r2, mailed, wipes, history>>

\* send() throws, before the mail went out or after: the draft is kept.
SendThrows(r) ==
    /\ req[r].pc = "send" /\ faults < MaxFaults
    /\ faults' = faults + 1
    /\ \E out \in SUBSET {[by |-> r, files |-> req[r].got]} : mailed' = mailed \cup out
    /\ Steps(r, "done")
    /\ UNCHANGED <<draft, r2, wipes, history>>

Discard(r) ==
    /\ req[r].pc = "idle"
    /\ req' = [req EXCEPT ![r] = [Fresh EXCEPT !.kind = "discard", !.pc = "delete"]]
    /\ UNCHANGED <<draft, r2, mailed, faults, wipes, history>>

\* startPurge. The steps before the drafts are Ingest's.
Wipe ==
    /\ ~Busy(Wiper) /\ wipes < MaxWipes
    /\ wipes' = wipes + 1
    /\ req' = [req EXCEPT ![Wiper] = [Fresh EXCEPT !.kind = "wipe", !.pc = "delete"]]
    /\ UNCHANGED <<draft, r2, mailed, faults, history>>

\* deleteDraft: the row goes, the r2_key of each of its attachments is returned.
DeleteDraft(a) ==
    /\ req[a].pc = "delete"
    /\ draft' = NoRow
    /\ req' = [req EXCEPT ![a].pc = "drop", ![a].keys = draft.files]
    /\ UNCHANGED <<r2, mailed, faults, wipes, history>>

\* The caller deletes the objects under the keys it got. A send that has read
\* the row and not yet the objects goes without them.
Drop(a) ==
    /\ req[a].pc = "drop"
    /\ r2' = r2 \ req[a].keys
    /\ cut' = cut \cup {r \in Requests : req[r].pc = "collect" /\ req[r].files \cap req[a].keys # {}}
    /\ gone' = IF req[a].kind = "send" THEN gone ELSE gone \cup req[a].keys
    /\ Steps(a, IF a = Wiper THEN "forget" ELSE "done")
    /\ UNCHANGED <<draft, mailed, faults, wipes, late>>

\* deleteAll takes a draft that was saved in the meantime with it.
DeleteAll ==
    /\ req[Wiper].pc = "forget"
    /\ draft' = NoRow
    /\ Steps(Wiper, "done")
    /\ UNCHANGED <<r2, mailed, faults, wipes, cut, late, gone>>

\* A worker dies, or the alarm does and is run again.
Dies(a) ==
    /\ Busy(a) /\ faults < MaxFaults
    /\ faults' = faults + 1
    /\ Steps(a, IF a = Wiper THEN "delete" ELSE "dead")
    /\ UNCHANGED <<draft, r2, mailed, wipes, cut, late, gone>>

-----------------------------------------------------------------------------

Next ==
    \/ \E r \in Requests :
         \/ Save(r) \/ Put(r) \/ SaveDraft(r)
         \/ Send(r) \/ Collect(r) \/ Sent(r) \/ SendThrows(r) \/ Discard(r)
    \/ \E a \in Actors : DeleteDraft(a) \/ Drop(a) \/ Dies(a)
    \/ Wipe \/ DeleteAll

Spec == Init /\ [][Next]_vars

-----------------------------------------------------------------------------
(* Correctness *)

\* collectAttachments skips what is gone "rather than fail the send": even so a
\* mail has every file its draft had when Send was pressed, unless the same draft
\* was sent, discarded or wiped by another request before the objects were read.
SentWithItsFiles ==
    \A m \in mailed : m.by \notin cut => m.files = req[m.by].files

\* The objects a save has put into R2.
Uploaded ==
    {r \in Requests : req[r].kind = "save" /\ r \in req[r].files /\ req[r].pc \in {"save", "done"}}

\* sendFromForm discards the draft only once the send succeeded: a file that was
\* uploaded is gone only if a mail took it along, the owner discarded it, or it
\* was saved while the draft was being sent.
UnsentKept ==
    \A f \in Uploaded \ r2 : f \in gone \cup late \cup UNION {m.files : m \in mailed}
=============================================================================
