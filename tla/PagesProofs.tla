----------------------------- MODULE PagesProofs -----------------------------
(***************************************************************************)
(* Proofs about what a person's requests to the pages do: drafts and their *)
(* files (Drafts), the move of old mail (Backfill), and the pages of a     *)
(* folder's rule (Rules), each for every value of its constants.           *)
(*                                                                         *)
(* The invariant of each of the three is about the state of that one: what *)
(* happens in another scene leaves it alone.                               *)
(***************************************************************************)
EXTENDS Pages, FiniteSets, TLAPS

USE PagesAssumption

-----------------------------------------------------------------------------
(* Drafts *)

Pcs == {"idle", "put", "save", "collect", "send", "delete", "drop", "forget", "done", "dead"}
Kinds == {"none", "save", "send", "discard", "wipe"}

DraftTyped ==
    /\ draft \in [there : BOOLEAN, files : SUBSET Requests]
    /\ req \in [D!Actors -> [kind : Kinds, pc : Pcs, files : SUBSET Requests,
                             got : SUBSET Requests, keys : SUBSET Requests]]
    /\ req[Wiper].kind \in {"none", "wipe"}

\* What a request is, by where it is: a file has the name of the save that
\* uploads it.
PlaceOK ==
    \A r \in Requests :
        /\ req[r].pc \in {"put", "save"} => req[r].kind = "save"
        /\ req[r].pc \in {"delete", "drop"} => req[r].kind # "save"
        /\ req[r].pc \in {"collect", "send"} => req[r].kind = "send"
        /\ req[r].kind = "save" => req[r].files \subseteq {r}

\* A request to save whose row has been written.
Written(f) == f \in Requests /\ req[f].kind = "save" /\ req[f].pc = "done"

\* The files the row names, or is about to, are there, and no request is about
\* to delete them: the row that named those is gone, and only one save ever names
\* a file.
RowOK ==
    /\ \A r \in Requests : req[r].pc = "save" => req[r].files \subseteq r2
    /\ \A f \in draft.files : f \in r2 /\ Written(f)
    /\ \A a \in D!Actors : req[a].pc = "drop" =>
         \A f \in req[a].keys : f \notin draft.files /\ Written(f)

\* A send that nobody cut has the files it read in the row.
CollectOK ==
    \A r \in Requests \ cut :
        /\ req[r].pc = "collect" => req[r].files \subseteq r2
        /\ req[r].pc = "send" => req[r].got = req[r].files

\* A mail is of a request that is past sending, and has its files.
MailOK ==
    \A m \in mailed :
        /\ m.by \in Requests /\ req[m.by].pc \in {"delete", "drop", "done", "dead"}
        /\ m.by \notin cut => m.files = req[m.by].files

Out(f) == \E m \in mailed : f \in m.files

\* Of the files the row names while it is being sent, each is in the send, or
\* was saved during one; so is what the send is about to delete.
SendHasThem ==
    \A r \in Requests : req[r].kind = "send" =>
        /\ req[r].pc = "collect" => \A f \in draft.files : f \in req[r].files \cup late
        /\ req[r].pc = "send" => \A f \in draft.files : f \in req[r].got \cup late
        /\ req[r].pc = "delete" => \A f \in draft.files : f \in late \/ Out(f)
        /\ req[r].pc = "drop" => \A f \in req[r].keys : f \in late \/ Out(f)

\* UnsentKept, with Out for the union.
Kept == \A f \in D!Uploaded : f \in r2 \cup gone \cup late \/ Out(f)

DraftInv == DraftTyped /\ PlaceOK /\ RowOK /\ CollectOK /\ MailOK /\ SendHasThem /\ Kept

LEMMA DraftInit == ASSUME D!Init PROVE DraftInv
BY DEF D!Init, D!NoRow, D!Fresh, D!Actors, D!Uploaded, DraftInv, DraftTyped, PlaceOK, RowOK,
       CollectOK, MailOK, SendHasThem, Kept, Out, Pcs, Kinds, Written

LEMMA SaveKeeps ==
    ASSUME NEW r \in Requests, DraftInv, D!Save(r) PROVE DraftInv'
<1> USE DEF DraftInv, D!Actors, D!history
<1>1. PICK files \in {{}, {r}} :
        req' = [req EXCEPT ![r] = [D!Fresh EXCEPT !.kind = "save", !.files = files,
                                   !.pc = IF files = {} THEN "save" ELSE "put"]]
  BY DEF D!Save
<1>2. /\ req[r].pc = "idle" /\ req'[r].kind = "save" /\ req'[r].files = files
      /\ req'[r].pc = (IF files = {} THEN "save" ELSE "put")
      /\ req'[r].keys = {} /\ req'[r].got = {}
      /\ \A a \in D!Actors \ {r} : req'[a] = req[a]
  BY <1>1 DEF D!Save, D!Fresh, DraftTyped
<1>3. UNCHANGED <<draft, r2, mailed, cut, late, gone>>
  BY DEF D!Save
<1>4. DraftTyped'
  BY <1>1, <1>3 DEF DraftTyped, D!Fresh, Pcs, Kinds
<1>5. PlaceOK'
  BY <1>2 DEF PlaceOK
<1>6. RowOK'
  BY <1>2, <1>3 DEF RowOK, Written, DraftTyped
<1>7. CollectOK' /\ MailOK'
  BY <1>2, <1>3 DEF CollectOK, MailOK
<1>8. SendHasThem'
  BY <1>2, <1>3 DEF SendHasThem, Out
<1>9. Kept'
  BY <1>2, <1>3 DEF Kept, Out, D!Uploaded
<1> QED
  BY <1>4, <1>5, <1>6, <1>7, <1>8, <1>9

\* Of a request that steps, which pc it comes from and goes to, and what else
\* of it changes.
LEMMA StepsTo ==
    ASSUME NEW a \in D!Actors, NEW pc \in Pcs, DraftTyped, D!Steps(a, pc)
    PROVE  /\ req'[a].pc = pc
           /\ \A b \in D!Actors :
                /\ req'[b].kind = req[b].kind /\ req'[b].files = req[b].files
                /\ req'[b].got = req[b].got /\ req'[b].keys = req[b].keys
                /\ b # a => req'[b].pc = req[b].pc
           /\ req' \in [D!Actors -> [kind : Kinds, pc : Pcs, files : SUBSET Requests,
                                     got : SUBSET Requests, keys : SUBSET Requests]]
BY DEF D!Steps, DraftTyped

LEMMA PutKeeps ==
    ASSUME NEW r \in Requests, DraftInv, D!Put(r) PROVE DraftInv'
<1> USE DEF DraftInv, D!Actors
<1>1. /\ req[r].pc = "put" /\ r2' = r2 \cup req[r].files /\ D!Steps(r, "save")
      /\ UNCHANGED <<draft, mailed, cut, late, gone>>
  BY DEF D!Put, D!history
<1>2. "save" \in Pcs /\ r \in D!Actors
  BY DEF Pcs
<1>3. DraftTyped'
  BY <1>1, <1>2, StepsTo DEF DraftTyped
<1>4. PlaceOK'
  BY <1>1, <1>2, StepsTo DEF PlaceOK
<1>5. RowOK'
  <2>1. \A k \in Requests : req'[k].pc = "save" => req'[k].files \subseteq r2'
    BY <1>1, <1>2, StepsTo DEF RowOK
  <2>2. \A f : Written(f) => Written(f)'
    BY <1>1, <1>2, StepsTo DEF Written
  <2> QED
    BY <1>1, <1>2, <2>1, <2>2, StepsTo DEF RowOK
<1>6. CollectOK' /\ MailOK'
  BY <1>1, <1>2, StepsTo DEF CollectOK, MailOK
<1>7. SendHasThem'
  BY <1>1, <1>2, StepsTo DEF SendHasThem, Out, PlaceOK
<1>8. Kept'
  BY <1>1, <1>2, StepsTo DEF Kept, Out, D!Uploaded
<1> QED
  BY <1>3, <1>4, <1>5, <1>6, <1>7, <1>8

LEMMA SaveDraftKeeps ==
    ASSUME NEW r \in Requests, DraftInv, D!SaveDraft(r) PROVE DraftInv'
<1> USE DEF DraftInv, D!Actors
<1>1. /\ req[r].pc = "save" /\ D!Steps(r, "done")
      /\ UNCHANGED <<r2, mailed, cut, gone>>
  BY DEF D!SaveDraft
<1>2. "done" \in Pcs /\ r \in D!Actors
  BY DEF Pcs
<1>3. draft' = [there |-> TRUE, files |-> IF req[r].files = {} THEN draft.files ELSE req[r].files]
  BY DEF D!SaveDraft, D!KeptFiles
<1>4. /\ late \subseteq late'
      /\ (\E q \in Requests : D!Sending(q)) => req[r].files \subseteq late'
  BY DEF D!SaveDraft
<1>5. DraftTyped'
  <2>1. draft' \in [there : BOOLEAN, files : SUBSET Requests]
    BY <1>3 DEF DraftTyped
  <2> QED
    BY <1>1, <1>2, <2>1, StepsTo DEF DraftTyped
<1>6. PlaceOK'
  BY <1>1, <1>2, StepsTo DEF PlaceOK
<1>7. RowOK'
  BY <1>1, <1>2, <1>3, StepsTo DEF RowOK, Written, PlaceOK
<1>8. CollectOK' /\ MailOK'
  <2>1. CollectOK'
    BY <1>1, <1>2, StepsTo DEF CollectOK
  <2>2. MailOK'
    BY <1>1, <1>2, StepsTo DEF MailOK
  <2> QED
    BY <2>1, <2>2
<1>9. SendHasThem'
  BY <1>1, <1>2, <1>3, <1>4, StepsTo DEF SendHasThem, Out, PlaceOK, D!Sending, D!Busy
<1>10. Kept'
  BY <1>1, <1>2, <1>4, StepsTo DEF Kept, Out, D!Uploaded
<1> QED
  BY <1>5, <1>6, <1>7, <1>8, <1>9, <1>10

LEMMA SendKeeps ==
    ASSUME NEW r \in Requests, DraftInv, D!Send(r) PROVE DraftInv'
<1> USE DEF DraftInv, D!Actors
<1>1. /\ req' = [req EXCEPT ![r] = [D!Fresh EXCEPT !.kind = "send", !.pc = "collect",
                                                   !.files = draft.files]]
      /\ req[r].pc = "idle" /\ UNCHANGED <<draft, r2, mailed, cut, late, gone>>
  BY DEF D!Send, D!history
<1>2. /\ req'[r].kind = "send" /\ req'[r].files = draft.files /\ req'[r].pc = "collect"
      /\ req'[r].keys = {} /\ req'[r].got = {}
      /\ \A a \in D!Actors \ {r} : req'[a] = req[a]
  BY <1>1 DEF D!Fresh, DraftTyped
<1>3. DraftTyped'
  BY <1>1 DEF DraftTyped, D!Fresh, Pcs, Kinds
<1>4. PlaceOK'
  BY <1>2 DEF PlaceOK
<1>5. RowOK'
  BY <1>1, <1>2 DEF RowOK, Written, DraftTyped
<1>6. CollectOK' /\ MailOK'
  BY <1>1, <1>2 DEF CollectOK, MailOK, RowOK
<1>7. SendHasThem'
  BY <1>1, <1>2 DEF SendHasThem, Out
<1>8. Kept'
  BY <1>1, <1>2 DEF Kept, Out, D!Uploaded
<1> QED
  BY <1>3, <1>4, <1>5, <1>6, <1>7, <1>8

LEMMA CollectKeeps ==
    ASSUME NEW r \in Requests, DraftInv, D!Collect(r) PROVE DraftInv'
<1> USE DEF DraftInv, D!Actors
<1>1. /\ req[r].pc = "collect"
      /\ req' = [req EXCEPT ![r].pc = "send", ![r].got = req[r].files \cap r2]
      /\ UNCHANGED <<draft, r2, mailed, cut, late, gone>>
  BY DEF D!Collect, D!history
<1>2. /\ req'[r].pc = "send" /\ req'[r].got = req[r].files \cap r2
      /\ req'[r].kind = req[r].kind /\ req'[r].files = req[r].files
      /\ req'[r].keys = req[r].keys
      /\ \A a \in D!Actors \ {r} : req'[a] = req[a]
  BY <1>1 DEF DraftTyped
<1>3. DraftTyped'
  <2>1. req[r].files \cap r2 \in SUBSET Requests
    BY DEF DraftTyped
  <2>2. PICK got \in SUBSET Requests : req' = [req EXCEPT ![r].pc = "send", ![r].got = got]
    BY <1>1, <2>1
  <2>3. req' \in [D!Actors -> [kind : Kinds, pc : Pcs, files : SUBSET Requests,
                              got : SUBSET Requests, keys : SUBSET Requests]]
    <3>1. "send" \in Pcs /\ r \in D!Actors /\ DraftTyped
      BY DEF Pcs
    <3> HIDE DEF DraftInv, D!Actors
    <3> QED
      BY <2>2, <3>1 DEF DraftTyped
  <2> QED
    BY <1>1, <1>2, <2>3 DEF DraftTyped
<1>4. PlaceOK'
  BY <1>1, <1>2 DEF PlaceOK
<1>5. RowOK'
  BY <1>1, <1>2 DEF RowOK, Written, DraftTyped
<1>6. CollectOK' /\ MailOK'
  <2>1. r \notin cut => req[r].files \cap r2 = req[r].files
    BY <1>1 DEF CollectOK
  <2>2. CollectOK'
    BY <1>1, <1>2, <2>1 DEF CollectOK
  <2>3. MailOK'
    BY <1>1, <1>2 DEF MailOK
  <2> QED
    BY <2>2, <2>3
<1>7. SendHasThem'
  BY <1>1, <1>2 DEF SendHasThem, Out, RowOK
<1>8. Kept'
  BY <1>1, <1>2 DEF Kept, Out, D!Uploaded
<1> QED
  BY <1>3, <1>4, <1>5, <1>6, <1>7, <1>8

\* The mail goes out, and the send returns or not.
LEMMA SentKeeps ==
    ASSUME NEW r \in Requests, DraftInv,
           D!Sent(r) \/ D!SendThrows(r)
    PROVE  DraftInv'
<1> USE DEF DraftInv, D!Actors
<1> DEFINE mail == [by |-> r, files |-> req[r].got]
<1>1. PICK pc \in {"delete", "done"} :
        /\ D!Steps(r, pc) /\ req[r].pc = "send" /\ mailed' \in {mailed, mailed \cup {mail}}
        /\ pc = "delete" => mail \in mailed'
        /\ UNCHANGED <<draft, r2, cut, late, gone>>
  BY DEF D!Sent, D!SendThrows, D!history
<1>2. pc \in Pcs /\ r \in D!Actors
  BY DEF Pcs
<1>3. DraftTyped'
  BY <1>1, <1>2, StepsTo DEF DraftTyped
<1>4. PlaceOK'
  BY <1>1, <1>2, StepsTo DEF PlaceOK
<1>5. RowOK'
  <2>1. \A b \in D!Actors : /\ req'[b].keys = req[b].keys /\ req'[b].files = req[b].files
                            /\ req'[b].pc \in {"save", "drop"} => req'[b].pc = req[b].pc
    BY <1>1, <1>2, StepsTo
  <2>2. \A f : Written(f) => Written(f)'
    BY <1>1, <1>2, StepsTo DEF Written, D!Steps
  <2> QED
    BY <1>1, <2>1, <2>2 DEF RowOK
<1>6. CollectOK'
  BY <1>1, <1>2, StepsTo DEF CollectOK
<1>7. MailOK'
  BY <1>1, <1>2, StepsTo DEF MailOK, CollectOK
<1>8. \A f : Out(f) => Out(f)'
  BY <1>1 DEF Out
<1>9. pc = "delete" => \A f \in req[r].got : Out(f)'
  BY <1>1 DEF Out
<1>10. SendHasThem'
  BY <1>1, <1>2, <1>8, <1>9, StepsTo DEF SendHasThem
<1>11. Kept'
  BY <1>1, <1>2, <1>8, StepsTo DEF Kept, D!Uploaded, PlaceOK
<1> QED
  BY <1>3, <1>4, <1>5, <1>6, <1>7, <1>10, <1>11

\* A request that begins with deleting the row: Discard, or the mailbox's end.
LEMMA DiscardKeeps ==
    ASSUME NEW a \in D!Actors, DraftInv,
           (a \in Requests /\ D!Discard(a)) \/ (a = Wiper /\ D!Wipe)
    PROVE  DraftInv'
<1> USE DEF DraftInv, D!Actors
<1>1. PICK kind \in {"discard", "wipe"} :
        /\ req' = [req EXCEPT ![a] = [D!Fresh EXCEPT !.kind = kind, !.pc = "delete"]]
        /\ a = Wiper => kind = "wipe"
        /\ a \in Requests => req[a].pc = "idle"
        /\ UNCHANGED <<draft, r2, mailed, cut, late, gone>>
  BY DEF D!Discard, D!Wipe, D!history
<1>2. /\ req'[a].kind = kind /\ req'[a].files = {} /\ req'[a].pc = "delete"
      /\ req'[a].keys = {} /\ req'[a].got = {}
      /\ \A b \in D!Actors \ {a} : req'[b] = req[b]
  BY <1>1 DEF D!Fresh, DraftTyped
<1>3. DraftTyped'
  BY <1>1 DEF DraftTyped, D!Fresh, Pcs, Kinds
<1>4. PlaceOK'
  BY <1>2 DEF PlaceOK
<1>5. RowOK'
  BY <1>1, <1>2 DEF RowOK, Written, DraftTyped
<1>6. CollectOK' /\ MailOK'
  BY <1>1, <1>2 DEF CollectOK, MailOK, RowOK
<1>7. SendHasThem'
  BY <1>1, <1>2 DEF SendHasThem, Out
<1>8. Kept'
  BY <1>1, <1>2 DEF Kept, Out, D!Uploaded
<1> QED
  BY <1>3, <1>4, <1>5, <1>6, <1>7, <1>8

LEMMA DeleteDraftKeeps ==
    ASSUME NEW a \in D!Actors, DraftInv, D!DeleteDraft(a)
    PROVE  DraftInv'
<1> USE DEF DraftInv, D!Actors
<1>1. /\ req[a].pc = "delete" /\ draft' = [there |-> FALSE, files |-> {}]
      /\ req' = [req EXCEPT ![a].pc = "drop", ![a].keys = draft.files]
      /\ UNCHANGED <<r2, mailed, cut, late, gone>>
  BY DEF D!DeleteDraft, D!NoRow, D!history
<1>2. /\ req'[a].kind = req[a].kind /\ req'[a].files = req[a].files /\ req'[a].pc = "drop"
      /\ req'[a].keys = draft.files /\ req'[a].got = req[a].got
      /\ \A b \in D!Actors \ {a} : req'[b] = req[b]
  BY <1>1 DEF DraftTyped
<1>3. DraftTyped'
  BY <1>1 DEF DraftTyped, Pcs
<1>4. PlaceOK'
  BY <1>1, <1>2 DEF PlaceOK
<1>5. RowOK'
  BY <1>1, <1>2 DEF RowOK, Written, DraftTyped
<1>6. CollectOK' /\ MailOK'
  BY <1>1, <1>2 DEF CollectOK, MailOK, RowOK
<1>7. SendHasThem'
  BY <1>1, <1>2 DEF SendHasThem, Out
<1>8. Kept'
  <2>1. D!Uploaded' \subseteq D!Uploaded
    BY <1>1, <1>2 DEF D!Uploaded
  <2> QED
    BY <1>1, <2>1 DEF Kept, Out
<1> QED
  BY <1>3, <1>4, <1>5, <1>6, <1>7, <1>8

LEMMA DropKeeps ==
    ASSUME NEW a \in D!Actors, DraftInv, D!Drop(a) PROVE DraftInv'
<1> USE DEF DraftInv, D!Actors
<1>1. PICK pc \in {"forget", "done"} :
        /\ req[a].pc = "drop" /\ r2' = r2 \ req[a].keys /\ D!Steps(a, pc)
        /\ a # Wiper => pc = "done"
        /\ cut' = cut \cup {r \in Requests : req[r].pc = "collect"
                                             /\ req[r].files \cap req[a].keys # {}}
        /\ gone' = IF req[a].kind = "send" THEN gone ELSE gone \cup req[a].keys
        /\ UNCHANGED <<draft, mailed, late>>
  BY DEF D!Drop
<1>2. pc \in Pcs
  BY DEF Pcs
<1>3. DraftTyped'
  BY <1>1, <1>2, StepsTo DEF DraftTyped
<1>4. PlaceOK'
  BY <1>1, <1>2, StepsTo DEF PlaceOK
<1>5. RowOK'
  <2>1. \A f : Written(f) => Written(f)' /\ req[f].pc = "done"
    BY <1>1, <1>2, StepsTo DEF Written
  <2>2. ASSUME NEW k \in Requests, req'[k].pc = "save" PROVE req'[k].files \subseteq r2'
    <3>1. req[k].pc = "save" /\ req'[k].files = req[k].files
      BY <1>1, <1>2, <2>2, StepsTo
    <3>2. req[k].files \subseteq r2 /\ req[k].files \subseteq {k}
      BY <3>1 DEF RowOK, PlaceOK
    <3>3. k \notin req[a].keys
      BY <1>1, <2>1, <3>1 DEF RowOK
    <3> QED
      BY <1>1, <3>1, <3>2, <3>3
  <2>3. \A f \in draft'.files : f \in r2' /\ Written(f)'
    BY <1>1, <2>1 DEF RowOK
  <2>4. ASSUME NEW b \in D!Actors, req'[b].pc = "drop"
        PROVE  req[b].pc = "drop" /\ req'[b].keys = req[b].keys
    BY <1>1, <1>2, <2>4, StepsTo
  <2>5. \A b \in D!Actors : req'[b].pc = "drop" =>
          \A f \in req'[b].keys : f \notin draft'.files /\ Written(f)'
    BY <1>1, <2>1, <2>4 DEF RowOK
  <2> QED
    BY <2>2, <2>3, <2>5 DEF RowOK
<1>6. CollectOK'
  BY <1>1, <1>2, StepsTo DEF CollectOK
<1>7. MailOK'
  BY <1>1, <1>2, StepsTo DEF MailOK
<1>8. SendHasThem'
  BY <1>1, <1>2, StepsTo DEF SendHasThem, Out
<1>9. \A f \in req[a].keys : f \in gone' \cup late \/ Out(f)
  BY <1>1 DEF SendHasThem, DraftTyped
<1>10. Kept'
  <2>1. D!Uploaded' \subseteq D!Uploaded \cup {a}
    BY <1>1, <1>2, StepsTo DEF D!Uploaded
  <2>2. a \notin D!Uploaded'
    BY <1>1, <1>2, StepsTo DEF D!Uploaded, PlaceOK
  <2>3. gone \subseteq gone' /\ UNCHANGED <<late, mailed>>
    BY <1>1
  <2> QED
    BY <1>1, <1>9, <2>1, <2>2, <2>3 DEF Kept, Out
<1> QED
  BY <1>3, <1>4, <1>5, <1>6, <1>7, <1>8, <1>10

\* What is saved while the mailbox is deleted goes with it; and what dies.
LEMMA DraftDiesKeeps ==
    ASSUME NEW a \in D!Actors, DraftInv,
           D!Dies(a) \/ (a = Wiper /\ D!DeleteAll)
    PROVE  DraftInv'
<1> USE DEF DraftInv, D!Actors
<1>1. PICK pc \in {"delete", "dead", "done"} :
        /\ D!Steps(a, pc)
        /\ a # Wiper => pc = "dead"
        /\ req[a].pc \notin {"idle", "done"}
        /\ draft' \in {draft, [there |-> FALSE, files |-> {}]}
        /\ UNCHANGED <<r2, mailed, cut, late, gone>>
  BY DEF D!Dies, D!DeleteAll, D!NoRow, D!Busy
<1>2. pc \in Pcs
  BY DEF Pcs
<1>3. DraftTyped'
  <2>1. draft' \in [there : BOOLEAN, files : SUBSET Requests]
    <3>1. [there |-> FALSE, files |-> {}] \in [there : BOOLEAN, files : SUBSET Requests]
      OBVIOUS
    <3> QED
      BY <1>1, <3>1 DEF DraftTyped
  <2> QED
    BY <1>1, <1>2, <2>1, StepsTo DEF DraftTyped
<1>4. PlaceOK'
  BY <1>1, <1>2, StepsTo DEF PlaceOK
<1>5. RowOK'
  <2>1. draft'.files \subseteq draft.files
    BY <1>1
  <2>2. \A f : Written(f) => Written(f)'
    BY <1>1, <1>2, StepsTo DEF Written
  <2>3. \A r \in Requests : req'[r].pc = "save" => req[r].pc = "save" /\ r # a
    BY <1>1, <1>2, StepsTo
  <2>4. \A b \in D!Actors : req'[b].pc = "drop" => req[b].pc = "drop" /\ b # a
    BY <1>1, <1>2, StepsTo
  <2> QED
    BY <1>1, <1>2, <2>1, <2>2, <2>3, <2>4, StepsTo DEF RowOK
<1>6. CollectOK' /\ MailOK'
  BY <1>1, <1>2, StepsTo DEF CollectOK, MailOK
<1>7. SendHasThem'
  BY <1>1, <1>2, StepsTo DEF SendHasThem, Out
<1>8. Kept'
  BY <1>1, <1>2, StepsTo DEF Kept, Out, D!Uploaded
<1> QED
  BY <1>3, <1>4, <1>5, <1>6, <1>7, <1>8

LEMMA DraftStep == ASSUME DraftInv, [D!Next]_D!vars PROVE DraftInv'
<1>1. CASE D!Next
  BY <1>1, SaveKeeps, PutKeeps, SaveDraftKeeps, SendKeeps, CollectKeeps, SentKeeps,
     DiscardKeeps, DeleteDraftKeeps, DropKeeps, DraftDiesKeeps
     DEF D!Next, D!Actors
<1>2. CASE UNCHANGED D!vars
  BY <1>2 DEF D!vars, DraftInv, DraftTyped, PlaceOK, RowOK, CollectOK, MailOK, SendHasThem, Kept,
       Out, D!Uploaded, Written
<1> QED
  BY <1>1, <1>2

\* What happens in the other scenes leaves the draft alone.
LEMMA DraftScene == ASSUME DraftInv, [Next]_vars PROVE DraftInv'
<1>1. CASE UNCHANGED drafts
  BY <1>1 DEF drafts, DraftInv, DraftTyped, PlaceOK, RowOK, Written, CollectOK, MailOK,
       SendHasThem, Out, Kept, D!Uploaded
<1>2. CASE D!Next
  BY <1>2, DraftStep
<1> QED
  BY <1>1, <1>2 DEF Next, vars

\* A mail goes out with every file its draft had when Send was pressed, unless
\* another request cut it (sendFromForm, collectAttachments, deleteDraft).
THEOREM SentWithItsFilesAlways == Spec => []SentWithItsFiles
<1>1. DraftInv => SentWithItsFiles
  BY DEF DraftInv, MailOK, D!SentWithItsFiles, SentWithItsFiles
<1>2. Init => DraftInv
  BY DraftInit DEF Init
<1> QED
  BY <1>1, <1>2, DraftScene, PTL DEF Spec

\* What was uploaded disappears in no other way than UnsentKept names, whatever
\* requests of a draft overlap and wherever they die (saveDraft, deleteDraft).
THEOREM UnsentKeptAlways == Spec => []UnsentKept
<1>1. DraftInv => UnsentKept
  BY DEF DraftInv, Kept, Out, D!UnsentKept, UnsentKept
<1>2. Init => DraftInv
  BY DraftInit DEF Init
<1> QED
  BY <1>1, <1>2, DraftScene, PTL DEF Spec

-----------------------------------------------------------------------------
(* Backfill *)

\* A call begins with the first message; a value of each table is read at its
\* message only.
MoveTyped ==
    /\ pending \in BOOLEAN /\ again \in BOOLEAN
    /\ run \in [Runs -> [pc : {"idle", "append", "index", "failed", "done"}, at : B!Msgs]]
    /\ row = [m \in B!Msgs |-> row[m]]
    /\ msgids = [m \in B!Msgs |-> msgids[m]]
    /\ replies = [m \in B!Msgs |-> replies[m]]
    /\ read = [m \in B!Msgs |-> read[m]]
    /\ deleted \subseteq B!Msgs /\ opened \subseteq B!Msgs
    /\ \A b \in Runs : run[b].pc = "idle" => run[b].at = 1

Past(b, m) == run[b].at > m \/ run[b].pc = "done"
Begun(b) == run[b].pc # "idle"

\* A row is from a run that is past its message, and so is what the owner did
\* with it; a message a run is past is listed, or was purged since.
PastOK ==
    \A m \in B!Msgs :
        /\ row[m] # B!NoThread => \E b \in Runs : Past(b, m) /\ row[m] = B!Thread(b, m)
        /\ m \in deleted \cup opened => \E b \in Runs : Past(b, m)
        /\ \A b \in Runs : Past(b, m) => row[m] # B!NoThread \/ m \in deleted

\* Until the tables are dropped no run is done; what a run is about to index is
\* appended.
RunOK ==
    \A b \in Runs :
        /\ run[b].pc = "done" => ~ pending
        /\ run[b].pc = "index" => <<B!Thread(b, run[b].at), run[b].at>> \in copies

\* A Message-ID leads where the row does, and so do replies.
SameThread ==
    \A m \in B!Msgs \ deleted :
        /\ msgids[m] = row[m]
        /\ replies[m] # B!NoThread => replies[m] = row[m]

\* With no second run, what the owner did lasts.
OneRun ==
    again \/ /\ \A b, c \in Runs : Begun(b) /\ Begun(c) => b = c
             /\ \A m \in deleted : row[m] = B!NoThread
             /\ \A m \in opened : read[m]

MoveInv == MoveTyped /\ PastOK /\ RunOK /\ SameThread /\ OneRun /\ B!LegacyKept

LEMMA MoveInit == ASSUME B!Init PROVE MoveInv
<1>1. /\ pending = TRUE /\ again = FALSE /\ deleted = {} /\ opened = {}
      /\ run = [b \in Runs |-> [pc |-> "idle", at |-> 1]]
      /\ row = [m \in B!Msgs |-> B!NoThread] /\ msgids = row /\ replies = row
      /\ read = [m \in B!Msgs |-> FALSE]
  BY DEF B!Init
<1>2. 1 \in B!Msgs /\ \A m \in B!Msgs : ~ (1 > m)
  BY DEF B!Msgs
<1>3. MoveTyped
  BY <1>1, <1>2 DEF MoveTyped
<1>4. PastOK
  BY <1>1, <1>2 DEF PastOK, Past
<1>5. RunOK /\ SameThread /\ OneRun /\ B!LegacyKept
  BY <1>1 DEF RunOK, SameThread, OneRun, Begun, B!LegacyKept
<1> QED
  BY <1>3, <1>4, <1>5 DEF MoveInv

LEMMA ThreadsDiffer ==
    ASSUME NEW b \in Runs, NEW c \in Runs, NEW m
    PROVE  B!Thread(b, m) # B!NoThread /\ (B!Thread(b, m) = B!Thread(c, m) => b = c)
BY DEF B!Thread, B!NoThread

\* A run that stops, or begins, is past the same messages.
LEMMA SamePast ==
    ASSUME NEW pc, NEW S \in SUBSET Runs, MoveTyped, pc # "done",
           \A b \in S : run[b].pc # "done",
           run' = [b \in Runs |-> IF b \in S THEN [run[b] EXCEPT !.pc = pc] ELSE run[b]]
    PROVE  /\ \A m : \A b \in Runs : Past(b, m)' <=> Past(b, m)
           /\ \A b \in Runs : /\ run'[b].at = run[b].at
                              /\ run'[b].pc = IF b \in S THEN pc ELSE run[b].pc
BY DEF MoveTyped, Past

LEMMA BeginKeeps ==
    ASSUME MoveInv, NEW b \in Runs, B!Begin(b) PROVE MoveInv'
<1> USE DEF MoveInv
<1>1. /\ run[b].pc = "idle" /\ pending
      /\ run' = [run EXCEPT ![b].pc = "append"]
      /\ again' = (again \/ \E c \in Runs : B!Busy(c) \/ run[c].pc = "failed")
      /\ UNCHANGED <<pending, copies, row, msgids, read, replies, deleted, opened>>
  BY DEF B!Begin
<1>2. /\ \A m : \A c \in Runs : Past(c, m)' <=> Past(c, m)
      /\ \A c \in Runs : run'[c].at = run[c].at /\ (c # b => run'[c].pc = run[c].pc)
      /\ run'[b].pc = "append"
  BY <1>1 DEF MoveTyped, Past
<1>3. MoveTyped'
  BY <1>1, <1>2 DEF MoveTyped
<1>4. PastOK'
  BY <1>1, <1>2 DEF PastOK
<1>5. RunOK'
  BY <1>1, <1>2 DEF RunOK
<1>6. SameThread' /\ B!LegacyKept'
  BY <1>1 DEF SameThread, B!LegacyKept
<1>7. OneRun'
  <2>1. again' \/ \A c \in Runs : ~ Begun(c)
    BY <1>1 DEF Begun, B!Busy, RunOK, MoveTyped
  <2> QED
    BY <1>1, <1>2, <2>1 DEF OneRun, Begun, MoveTyped
<1> QED
  BY <1>3, <1>4, <1>5, <1>6, <1>7

LEMMA AppendKeeps ==
    ASSUME MoveInv, NEW b \in Runs, B!Append(b) PROVE MoveInv'
<1> USE DEF MoveInv
<1>1. /\ run[b].pc = "append"
      /\ run' = [run EXCEPT ![b].pc = "index"]
      /\ copies' = copies \cup {<<B!Thread(b, run[b].at), run[b].at>>}
      /\ UNCHANGED <<pending, row, msgids, read, replies, deleted, opened, again>>
  BY DEF B!Append
<1>2. /\ \A m : \A c \in Runs : Past(c, m)' <=> Past(c, m)
      /\ \A c \in Runs : run'[c].at = run[c].at /\ (c # b => run'[c].pc = run[c].pc)
      /\ run'[b].pc = "index"
  BY <1>1 DEF MoveTyped, Past
<1>3. MoveTyped'
  BY <1>1, <1>2 DEF MoveTyped
<1>4. PastOK'
  BY <1>1, <1>2 DEF PastOK
<1>5. RunOK'
  BY <1>1, <1>2 DEF RunOK
<1>6. SameThread' /\ B!LegacyKept'
  BY <1>1 DEF SameThread, B!LegacyKept
<1>7. OneRun'
  BY <1>1, <1>2 DEF OneRun, Begun
<1> QED
  BY <1>3, <1>4, <1>5, <1>6, <1>7

\* A run that fails, by itself or with the object.
LEMMA FailsKeeps ==
    ASSUME MoveInv,
           B!Restart \/ \E b \in Runs : B!TablesGone(b) \/ B!AppendFails(b)
    PROVE  MoveInv'
<1> USE DEF MoveInv
<1>1. PICK S \in SUBSET Runs :
        /\ \A b \in S : B!Busy(b)
        /\ run' = [b \in Runs |-> IF b \in S THEN [run[b] EXCEPT !.pc = "failed"] ELSE run[b]]
        /\ UNCHANGED <<pending, copies, row, msgids, read, replies, deleted, opened, again>>
  <2>1. CASE B!Restart
    <3> WITNESS {b \in Runs : B!Busy(b)} \in SUBSET Runs
    <3> QED
      BY <2>1 DEF B!Restart
  <2>2. CASE \E b \in Runs : B!TablesGone(b) \/ B!AppendFails(b)
    <3>1. PICK b \in Runs : B!TablesGone(b) \/ B!AppendFails(b)
      BY <2>2
    <3> WITNESS {b} \in SUBSET Runs
    <3> QED
      BY <3>1 DEF B!TablesGone, B!AppendFails, B!Busy, MoveTyped
  <2> QED
    BY <2>1, <2>2
<1>2. /\ \A m : \A b \in Runs : Past(b, m)' <=> Past(b, m)
      /\ \A b \in Runs : /\ run'[b].at = run[b].at
                         /\ run'[b].pc = IF b \in S THEN "failed" ELSE run[b].pc
  <2>1. \A b \in S : run[b].pc # "done"
    BY <1>1 DEF B!Busy
  <2> QED
    BY <1>1, <2>1, SamePast
<1>3. MoveTyped'
  BY <1>1, <1>2 DEF MoveTyped
<1>4. PastOK'
  BY <1>1, <1>2 DEF PastOK
<1>5. RunOK'
  BY <1>1, <1>2 DEF RunOK
<1>6. SameThread' /\ B!LegacyKept'
  BY <1>1 DEF SameThread, B!LegacyKept
<1>7. OneRun'
  BY <1>1, <1>2 DEF OneRun, Begun, B!Busy
<1> QED
  BY <1>3, <1>4, <1>5, <1>6, <1>7

LEMMA IndexKeeps ==
    ASSUME MoveInv, NEW b \in Runs, B!Index(b) PROVE MoveInv'
<1> USE DEF MoveInv
<1> DEFINE m == run[b].at
           t == B!Thread(b, m)
<1>1. /\ run[b].pc = "index" /\ m \in B!Msgs
      /\ row' = [row EXCEPT ![m] = IF @ = B!NoThread THEN t ELSE @]
      /\ msgids' = [msgids EXCEPT ![m] = IF @ = B!NoThread THEN t ELSE @]
      /\ read' = [read EXCEPT ![m] = FALSE]
      /\ pending' = (pending /\ m < N)
      /\ run' = [run EXCEPT ![b] = IF m < N THEN [pc |-> "append", at |-> m + 1]
                                   ELSE [pc |-> "done", at |-> m]]
      /\ UNCHANGED <<copies, replies, deleted, opened, again>>
  BY DEF B!Index, B!First, B!Pending, MoveTyped
<1> HIDE DEF m
<1>2. /\ \A k \in B!Msgs \ {m} : row'[k] = row[k] /\ msgids'[k] = msgids[k] /\ read'[k] = read[k]
      /\ row'[m] = IF row[m] = B!NoThread THEN t ELSE row[m]
      /\ msgids'[m] = IF msgids[m] = B!NoThread THEN t ELSE msgids[m]
  BY <1>1 DEF MoveTyped
<1>3. /\ \A k \in B!Msgs : Past(b, k)' <=> Past(b, k) \/ k = m
      /\ \A c \in Runs \ {b} : run'[c] = run[c] /\ \A k \in B!Msgs : Past(c, k)' <=> Past(c, k)
      /\ run'[b].pc = IF m < N THEN "append" ELSE "done"
      /\ ~ Past(b, m)
  BY <1>1 DEF MoveTyped, Past, B!Msgs, m
<1>4. MoveTyped'
  <2>1. m < N => m + 1 \in B!Msgs
    BY <1>1 DEF B!Msgs
  <2>2. run' \in [Runs -> [pc : {"idle", "append", "index", "failed", "done"}, at : B!Msgs]]
    BY <1>1, <2>1 DEF MoveTyped
  <2>3. \A c \in Runs : run'[c].pc = "idle" => run'[c].at = 1
    BY <1>1, <1>3 DEF MoveTyped
  <2> QED
    BY <1>1, <2>2, <2>3 DEF MoveTyped
<1>5. row'[m] # B!NoThread
  BY <1>2, ThreadsDiffer
<1>6. PastOK'
  <2> SUFFICES ASSUME NEW k \in B!Msgs
               PROVE /\ row'[k] # B!NoThread =>
                          \E c \in Runs : Past(c, k)' /\ row'[k] = B!Thread(c, k)
                     /\ k \in deleted \cup opened => \E c \in Runs : Past(c, k)'
                     /\ \A c \in Runs : Past(c, k)' => row'[k] # B!NoThread \/ k \in deleted
    BY <1>1 DEF PastOK
  <2>1. CASE k = m
    BY <1>1, <1>2, <1>3, <1>5, <2>1 DEF PastOK
  <2>2. CASE k # m
    BY <1>1, <1>2, <1>3, <2>2 DEF PastOK
  <2> QED
    BY <2>1, <2>2
<1>7. RunOK'
  <2> SUFFICES ASSUME NEW c \in Runs
               PROVE /\ run'[c].pc = "done" => ~ pending'
                     /\ run'[c].pc = "index" =>
                          <<B!Thread(c, run'[c].at), run'[c].at>> \in copies
    BY <1>1 DEF RunOK, B!Thread
  <2>1. CASE c = b
    <3>1. run'[c].pc # "index" /\ (run'[c].pc = "done" => ~ (m < N))
      BY <1>3, <2>1
    <3> QED
      BY <1>1, <3>1
  <2>2. CASE c # b
    <3>1. run'[c] = run[c]
      BY <1>3, <2>2
    <3> QED
      BY <1>1, <3>1 DEF RunOK
  <2> QED
    BY <2>1, <2>2
<1>8. SameThread'
  BY <1>1, <1>2, <1>5 DEF SameThread
<1>9. OneRun'
  <2> SUFFICES ASSUME ~ again PROVE OneRun'
    BY <1>1 DEF OneRun
  <2>1. \A c \in Runs : Begun(c)' <=> Begun(c)
    BY <1>1, <1>3 DEF Begun
  <2>2. m \notin deleted \cup opened
    <3> SUFFICES ASSUME m \in deleted \cup opened PROVE FALSE
      OBVIOUS
    <3>1. PICK c \in Runs : Past(c, m)
      BY <1>1 DEF PastOK
    <3>2. Begun(c) /\ Begun(b)
      BY <1>1, <3>1 DEF Begun, Past, MoveTyped, B!Msgs
    <3> QED
      BY <1>3, <3>1, <3>2 DEF OneRun
  <2> QED
    BY <1>1, <1>2, <2>1, <2>2 DEF OneRun, MoveTyped
<1>10. B!LegacyKept'
  <2> SUFFICES ASSUME NEW k \in B!Msgs
               PROVE IF row'[k] = B!NoThread THEN pending' \/ k \in deleted
                     ELSE <<row'[k], k>> \in copies
    BY <1>1 DEF B!LegacyKept
  <2>1. CASE k = m
    BY <1>1, <1>2, <1>5, <2>1 DEF B!LegacyKept, RunOK, m
  <2>2. CASE k # m
    <3>1. row'[k] = row[k]
      BY <1>2, <2>2
    <3>2. CASE pending /\ ~ pending'
      <4>1. Past(b, k)
        <5>1. m \in 1..N /\ k \in 1..N /\ N \in Nat /\ ~ (m < N)
          BY <1>1, <3>2 DEF B!Msgs
        <5>2. m > k
          BY <2>2, <5>1
        <5> QED
          BY <5>2 DEF Past, m
      <4> QED
        BY <3>1, <4>1 DEF PastOK, B!LegacyKept
    <3>3. CASE ~ (pending /\ ~ pending')
      BY <1>1, <3>1, <3>3 DEF B!LegacyKept
    <3> QED
      BY <3>2, <3>3
  <2> QED
    BY <2>1, <2>2
<1> QED
  BY <1>4, <1>6, <1>7, <1>8, <1>9, <1>10

LEMMA OpenKeeps ==
    ASSUME MoveInv, NEW m \in B!Msgs, B!Open(m) PROVE MoveInv'
<1> USE DEF MoveInv
<1>1. /\ row[m] # B!NoThread
      /\ read' = [read EXCEPT ![m] = TRUE] /\ opened' = opened \cup {m}
      /\ UNCHANGED <<pending, run, copies, row, msgids, replies, deleted, again>>
  BY DEF B!Open
<1>2. \A k : \A b \in Runs : Past(b, k)' <=> Past(b, k)
  BY <1>1 DEF Past
<1>3. MoveTyped'
  BY <1>1 DEF MoveTyped
<1>4. PastOK'
  BY <1>1, <1>2 DEF PastOK
<1>5. RunOK' /\ SameThread' /\ B!LegacyKept'
  BY <1>1 DEF RunOK, SameThread, B!LegacyKept
<1>6. OneRun'
  BY <1>1 DEF OneRun, Begun, MoveTyped
<1> QED
  BY <1>3, <1>4, <1>5, <1>6

LEMMA PurgeKeeps ==
    ASSUME MoveInv, NEW m \in B!Msgs, B!Purge(m) PROVE MoveInv'
<1> USE DEF MoveInv
<1>1. /\ row[m] # B!NoThread /\ copies' = copies \ {<<row[m], m>>}
      /\ row' = [row EXCEPT ![m] = B!NoThread] /\ deleted' = deleted \cup {m}
      /\ UNCHANGED <<pending, run, msgids, read, replies, opened, again>>
  BY DEF B!Purge
<1>2. row'[m] = B!NoThread /\ \A k \in B!Msgs \ {m} : row'[k] = row[k]
  BY <1>1 DEF MoveTyped
<1>3. \A k : \A b \in Runs : Past(b, k)' <=> Past(b, k)
  BY <1>1 DEF Past
<1>4. MoveTyped'
  BY <1>1 DEF MoveTyped
<1>5. PastOK'
  <2> SUFFICES ASSUME NEW k \in B!Msgs
               PROVE /\ row'[k] # B!NoThread =>
                          \E b \in Runs : Past(b, k) /\ row'[k] = B!Thread(b, k)
                     /\ k \in deleted' \cup opened => \E b \in Runs : Past(b, k)
                     /\ \A b \in Runs : Past(b, k) => row'[k] # B!NoThread \/ k \in deleted'
    BY <1>1, <1>3 DEF PastOK
  <2> QED
    BY <1>1, <1>2 DEF PastOK
<1>6. RunOK'
  <2> SUFFICES ASSUME NEW b \in Runs, run[b].pc = "index",
                      <<B!Thread(b, run[b].at), run[b].at>> = <<row[m], m>>
               PROVE FALSE
    BY <1>1 DEF RunOK
  <2>1. PICK c \in Runs : Past(c, m) /\ row[m] = B!Thread(c, m)
    BY <1>1 DEF PastOK
  <2>2. c = b /\ run[b].at = m
    BY <2>1, ThreadsDiffer
  <2> QED
    BY <2>1, <2>2 DEF Past, B!Msgs
<1>7. SameThread' /\ B!LegacyKept'
  BY <1>1, <1>2 DEF SameThread, B!LegacyKept
<1>8. OneRun'
  BY <1>1, <1>2 DEF OneRun, Begun, MoveTyped
<1> QED
  BY <1>4, <1>5, <1>6, <1>7, <1>8

LEMMA ReplyKeeps ==
    ASSUME MoveInv, NEW m \in B!Msgs, B!Reply(m) PROVE MoveInv'
<1> USE DEF MoveInv
<1>1. /\ ~ pending
      /\ replies' = [replies EXCEPT ![m] = IF msgids[m] = B!NoThread THEN <<None, m>>
                                           ELSE msgids[m]]
      /\ UNCHANGED <<pending, run, copies, row, msgids, read, deleted, opened, again>>
  BY DEF B!Reply, B!Ready
<1>2. \A k : \A b \in Runs : Past(b, k)' <=> Past(b, k)
  BY <1>1 DEF Past
<1>3. MoveTyped'
  BY <1>1 DEF MoveTyped
<1>4. PastOK'
  BY <1>1, <1>2 DEF PastOK
<1>5. RunOK' /\ B!LegacyKept' /\ OneRun'
  BY <1>1 DEF RunOK, B!LegacyKept, OneRun, Begun
<1>6. SameThread'
  BY <1>1 DEF SameThread, B!LegacyKept, MoveTyped
<1> QED
  BY <1>3, <1>4, <1>5, <1>6

LEMMA MoveStep == ASSUME MoveInv, [B!Next]_B!vars PROVE MoveInv'
<1>1. CASE B!Next
  BY <1>1, BeginKeeps, AppendKeeps, FailsKeeps, IndexKeeps, OpenKeeps, PurgeKeeps, ReplyKeeps
     DEF B!Next
<1>2. CASE UNCHANGED B!vars
  BY <1>2 DEF B!vars, MoveInv, MoveTyped, PastOK, Past, RunOK, SameThread, OneRun, Begun,
       B!LegacyKept
<1> QED
  BY <1>1, <1>2

LEMMA MoveScene == ASSUME MoveInv, [Next]_vars PROVE MoveInv'
<1>1. CASE UNCHANGED legacy
  BY <1>1 DEF legacy, MoveInv, MoveTyped, PastOK, Past, RunOK, SameThread, OneRun, Begun,
       B!LegacyKept
<1>2. CASE B!Next
  BY <1>2, MoveStep
<1> QED
  BY <1>1, <1>2 DEF Next, vars

\* No old message is lost, whichever runs of the backfill fail, restart or
\* overlap, and whatever the owner does meanwhile (backfill).
THEOREM LegacyKeptAlways == Spec => []LegacyKept
<1>1. MoveInv => LegacyKept
  BY DEF MoveInv, LegacyKept
<1>2. Init => MoveInv
  BY MoveInit DEF Init
<1> QED
  BY <1>1, <1>2, MoveScene, PTL DEF Spec

\* Replies join the conversation always; without a second run its old messages
\* stay together, and what the owner purged or read stays so (backfill, index).
THEOREM MovedOnceAlways == Spec => []MovedOnce
<1>1. ASSUME MoveInv PROVE MovedOnce
  <2> USE <1>1 DEF MoveInv
  <2>1. ASSUME ~ again, NEW m \in B!Msgs, NEW k \in B!Msgs,
               row[m] # B!NoThread, row[k] # B!NoThread, OldThread[m] = OldThread[k]
        PROVE  row[m] = row[k]
    <3>1. PICK b \in Runs : Past(b, m) /\ row[m] = B!Thread(b, m)
      BY <2>1 DEF PastOK
    <3>2. PICK c \in Runs : Past(c, k) /\ row[k] = B!Thread(c, k)
      BY <2>1 DEF PastOK
    <3>3. Begun(b) /\ Begun(c)
      BY <3>1, <3>2 DEF Begun, Past, MoveTyped, B!Msgs
    <3> QED
      BY <2>1, <3>1, <3>2, <3>3 DEF OneRun, B!Thread
  <2> QED
    BY <2>1 DEF B!MovedOnce, MovedOnce, SameThread, OneRun
<1>2. Init => MoveInv
  BY MoveInit DEF Init
<1> QED
  BY <1>1, <1>2, MoveScene, PTL DEF Spec

-----------------------------------------------------------------------------
(* Rules *)

Texts == RuleTexts \cup {None}
Asks == {None} \cup [rule : Texts, win : Windows]
Verdicts == {None} \cup [rule : Texts, win : Windows, over : SUBSET Mail]
Page == [at : {"closed", "editor", "loading", "asking", "why"}, base : Texts, text : Texts,
         win : Windows, asked : Asks, shown : Verdicts, late : BOOLEAN, told : Texts,
         tidy : Texts]
PageTyped ==
    /\ page \in [Tabs -> Page] /\ rule \in Texts /\ prev \in Texts
    /\ cache \in {None} \cup [hash : Texts, of : Texts]

\* The explanation that is kept is of the rule whose hash it has.
CacheTrue == cache # None => cache.of = cache.hash

\* What a page shows is of its rule, and it lists nothing before there is a form.
Tells(p) ==
    /\ p.shown # None =>
         /\ p.at \in {"editor", "why"}
         /\ (p.shown.rule = p.text /\ p.shown.win = p.win) \/ p.late
    /\ p.told # None => p.told = p.base

\* A change of the form drops what was shown of the old one; what comes late is
\* marked.
PageInv == PageTyped /\ CacheTrue /\ \A t \in Tabs : Tells(page[t])

LEMMA ClosedPage == R!Closed \in Page /\ Tells(R!Closed)
BY DEF R!Closed, Page, Texts, Asks, Verdicts, Tells

LEMMA PageInit == R!Init => PageInv
BY ClosedPage DEF R!Init, PageInv, PageTyped, CacheTrue, Texts

\* The page of one tab changes, to one that still tells of its rule.
LEMMA PageTells ==
    ASSUME PageInv, NEW t \in Tabs, NEW p \in Page, Tells(p),
           page' = [page EXCEPT ![t] = p]
    PROVE  page' \in [Tabs -> Page] /\ \A u \in Tabs : Tells(page'[u])
BY DEF PageInv, PageTyped

LEMMA PageKeeps ==
    ASSUME PageInv, NEW t \in Tabs, NEW p \in Page, Tells(p),
           page' = [page EXCEPT ![t] = p], UNCHANGED <<rule, prev, cache>>
    PROVE  PageInv'
BY PageTells DEF PageInv, PageTyped, CacheTrue, Tells

LEMMA OpenTells ==
    ASSUME PageInv, NEW t \in Tabs, R!OpenEditor(t) \/ R!OpenWhy(t) PROVE PageInv'
<1>1. PICK at \in {"editor", "loading"} :
        /\ page' = [page EXCEPT ![t] = [R!Closed EXCEPT !.at = at, !.base = rule, !.text = rule]]
        /\ UNCHANGED <<rule, prev, cache>>
  BY DEF R!OpenEditor, R!OpenWhy, R!Open, R!server
<1> DEFINE p == [R!Closed EXCEPT !.at = at, !.base = rule, !.text = rule]
<1>2. p \in Page
  BY ClosedPage DEF Page, PageInv, PageTyped
<1>3. Tells(p)
  BY DEF R!Closed, Tells
<1>4. page' = [page EXCEPT ![t] = p]
  BY <1>1
<1> QED
  BY <1>1, <1>2, <1>3, <1>4, PageKeeps

\* The explanation comes for the rule the panel was opened with, and the form
\* with it: nothing has been listed before.
LEMMA ToldTells ==
    ASSUME PageInv, NEW t \in Tabs, page[t].at \in {"loading", "asking"},
           NEW text \in RuleTexts, R!Told(t, page[t].base, text)
    PROVE  page' \in [Tabs -> Page] /\ \A u \in Tabs : Tells(page'[u])
<1> DEFINE p == [page[t] EXCEPT !.at = "why", !.told = page[t].base, !.text = text]
<1>1. page[t] \in Page /\ Tells(page[t])
  BY DEF PageInv, PageTyped
<1>2. p \in Page
  BY <1>1 DEF Page, Texts
<1>3. Tells(p)
  BY <1>1 DEF Page, Tells
<1>4. page' = [page EXCEPT ![t] = p]
  BY DEF R!Told, PageInv, PageTyped
<1> QED
  BY <1>2, <1>3, <1>4, PageTells

LEMMA ExplainTells ==
    ASSUME PageInv, NEW t \in Tabs, R!Explain(t) \/ R!Explained(t) \/ R!NotExplained(t)
    PROVE  PageInv'
<1>1. page[t] \in Page /\ Tells(page[t]) /\ page[t].base \in Texts
  BY DEF PageInv, PageTyped, Page
<1>2. CASE R!Explain(t) /\ R!Kept(t)
  <2>1. PICK text \in RuleTexts : R!Told(t, cache.of, text)
    BY <1>2 DEF R!Explain
  <2>2. cache.of = page[t].base
    BY <1>2 DEF R!Kept, PageInv, CacheTrue
  <2>3. page[t].at \in {"loading", "asking"} /\ UNCHANGED <<rule, prev, cache>>
    BY <1>2 DEF R!Explain, R!server
  <2> QED
    BY <2>1, <2>2, <2>3, ToldTells DEF PageInv, PageTyped, CacheTrue, Tells
<1>3. CASE R!Explain(t) /\ ~ R!Kept(t)
  <2> DEFINE p == [page[t] EXCEPT !.at = "asking"]
  <2>1. page' = [page EXCEPT ![t] = p] /\ UNCHANGED <<rule, prev, cache>>
    BY <1>3 DEF R!Explain, R!server, PageInv, PageTyped
  <2>2. p \in Page
    BY <1>1 DEF Page
  <2>3. Tells(p)
    BY <1>1, <1>3 DEF R!Explain, Page, Tells
  <2> QED
    BY <2>1, <2>2, <2>3, PageKeeps
<1>4. CASE R!Explained(t)
  <2>1. PICK text \in RuleTexts : R!Told(t, page[t].base, text)
    BY <1>4 DEF R!Explained
  <2>2. /\ page[t].at \in {"loading", "asking"} /\ UNCHANGED <<rule, prev>>
        /\ cache' = [hash |-> page[t].base, of |-> page[t].base]
    BY <1>4 DEF R!Explained, R!Keep
  <2>3. page' \in [Tabs -> Page] /\ \A u \in Tabs : Tells(page'[u])
    BY <2>1, <2>2, ToldTells
  <2> QED
    BY <1>1, <2>2, <2>3 DEF PageInv, PageTyped, CacheTrue, Tells
<1>5. CASE R!NotExplained(t)
  BY <1>5, ClosedPage, PageKeeps DEF R!NotExplained, R!server
<1> QED
  BY <1>2, <1>3, <1>4, <1>5

\* What is typed, or taken from the tidied rule, is a text, and drops what was
\* shown.
LEMMA TypeTells ==
    ASSUME NEW t \in Tabs, page[t] \in Page, Tells(page[t]), NEW text \in Texts,
           NEW win \in Windows
    PROVE  R!Type(t, text, win) \in Page /\ Tells(R!Type(t, text, win))
<1>1. None \in Verdicts
  BY DEF Verdicts
<1>2. R!Type(t, text, win) \in Page
  BY <1>1 DEF R!Type, Page
<1>3. /\ R!Type(t, text, win).shown = None /\ R!Type(t, text, win).told = page[t].told
      /\ R!Type(t, text, win).base = page[t].base
  BY DEF R!Type, Page
<1> QED
  BY <1>2, <1>3 DEF Tells

LEMMA TidyTells ==
    ASSUME NEW p \in Page, Tells(p), NEW text \in Texts
    PROVE  [p EXCEPT !.tidy = text] \in Page /\ Tells([p EXCEPT !.tidy = text])
<1>1. [p EXCEPT !.tidy = text] \in Page
  BY DEF Page
<1>2. Tells([p EXCEPT !.tidy = text])
  BY DEF Page, Tells
<1> QED
  BY <1>1, <1>2

LEMMA EditTells ==
    ASSUME PageInv, NEW t \in Tabs,
           \/ R!UseTidied(t)
           \/ \E text \in RuleTexts : R!Edit(t, text) \/ R!Tidy(t, text)
           \/ \E win \in Windows : R!Resize(t, win)
    PROVE  PageInv'
<1>1. UNCHANGED <<rule, prev, cache>>
  BY DEF R!UseTidied, R!Edit, R!Tidy, R!Resize, R!server
<1>2. /\ page[t] \in Page /\ Tells(page[t]) /\ None \in Texts
      /\ page[t].text \in Texts /\ page[t].win \in Windows /\ page[t].tidy \in Texts
  BY DEF PageInv, PageTyped, Page, Texts
<1>3. CASE R!UseTidied(t)
  <2>1. PICK now \in {page[t], R!Type(t, page[t].tidy, page[t].win)} :
          page' = [page EXCEPT ![t] = [now EXCEPT !.tidy = None]]
    BY <1>3 DEF R!UseTidied
  <2>2. now \in Page /\ Tells(now)
    BY <1>2, <2>1, TypeTells
  <2> QED
    BY <1>1, <1>2, <2>1, <2>2, TidyTells, PageKeeps
<1>4. ASSUME NEW text \in RuleTexts, R!Edit(t, text) PROVE PageInv'
  BY <1>1, <1>2, <1>4, TypeTells, PageKeeps DEF R!Edit, Texts
<1>5. ASSUME NEW text \in RuleTexts, R!Tidy(t, text) PROVE PageInv'
  <2>1. page' = [page EXCEPT ![t] = [page[t] EXCEPT !.tidy = text]]
    BY <1>5 DEF R!Tidy, PageInv, PageTyped
  <2> QED
    BY <1>1, <1>2, <2>1, TidyTells, PageKeeps DEF Texts
<1>6. ASSUME NEW win \in Windows, R!Resize(t, win) PROVE PageInv'
  BY <1>1, <1>2, <1>6, TypeTells, PageKeeps DEF R!Resize
<1> QED
  BY <1>3, <1>4, <1>5, <1>6

\* What was asked of is the form then, and what comes is of what was asked.
LEMMA ShownTells ==
    ASSUME NEW t \in Tabs, page[t] \in Page, Tells(page[t]), page[t].asked # None,
           page[t].at \in {"editor", "why"}, NEW over \in SUBSET Mail
    PROVE  R!Shown(t, over) \in Page /\ Tells(R!Shown(t, over))
<1>1. PICK old \in BOOLEAN : old = (page[t].asked # R!Now(t))
  OBVIOUS
<1> DEFINE v == [rule |-> page[t].asked.rule, win |-> page[t].asked.win, over |-> over]
<1>2. R!Shown(t, over) = [page[t] EXCEPT !.shown = v, !.late = old]
  BY <1>1 DEF R!Shown
<1>3. v \in Verdicts
  BY DEF Page, Asks, Verdicts
<1>4. ASSUME ~ old PROVE v.rule = page[t].text /\ v.win = page[t].win
  <2>1. page[t].asked = [rule |-> page[t].text, win |-> page[t].win]
    BY <1>1, <1>4 DEF R!Now
  <2> QED
    BY <2>1
<1> HIDE DEF v
<1>5. R!Shown(t, over) \in Page
  BY <1>2, <1>3 DEF Page
<1>6. Tells(R!Shown(t, over))
  BY <1>2, <1>4 DEF Page, Tells
<1> QED
  BY <1>5, <1>6

LEMMA AskedTells ==
    ASSUME NEW p \in Page, Tells(p), NEW a \in Asks
    PROVE  [p EXCEPT !.asked = a] \in Page /\ Tells([p EXCEPT !.asked = a])
<1>1. [p EXCEPT !.asked = a] \in Page
  BY DEF Page
<1>2. Tells([p EXCEPT !.asked = a])
  BY DEF Page, Tells
<1> QED
  BY <1>1, <1>2

\* A test or a check that finds nothing to show leaves nothing.
LEMMA NothingTells ==
    ASSUME NEW p \in Page, Tells(p), NEW old \in BOOLEAN
    PROVE  /\ [p EXCEPT !.shown = None, !.late = old] \in Page
           /\ Tells([p EXCEPT !.shown = None, !.late = old])
<1>1. [p EXCEPT !.shown = None, !.late = old] \in Page
  <2>1. None \in Verdicts
    BY DEF Verdicts
  <2> QED
    BY <2>1 DEF Page
<1>2. Tells([p EXCEPT !.shown = None, !.late = old])
  BY DEF Page, Tells
<1> QED
  BY <1>1, <1>2

LEMMA CheckTells ==
    ASSUME PageInv, NEW t \in Tabs,
           R!Test(t) \/ R!Check(t) \/ R!Batch(t) \/ R!Tested(t) \/ R!Compared(t) \/ R!NoAnswer(t)
    PROVE  PageInv'
<1>1. UNCHANGED <<rule, prev, cache>>
  BY DEF R!Test, R!Check, R!Batch, R!Tested, R!Compared, R!NoAnswer, R!server
<1>2. page[t] \in Page /\ Tells(page[t]) /\ None \in Asks
  BY DEF PageInv, PageTyped, Asks
<1>3. R!Now(t) \in Asks
  BY <1>2 DEF R!Now, Page, Asks
<1>4. CASE R!Test(t)
  <2>1. page' = [page EXCEPT ![t] = [page[t] EXCEPT !.asked = R!Now(t)]]
    BY <1>4 DEF R!Test, PageInv, PageTyped
  <2> QED
    BY <1>1, <1>2, <1>3, <2>1, AskedTells, PageKeeps
<1>5. CASE R!Check(t)
  <2> DEFINE p == [page[t] EXCEPT !.shown = None, !.late = page[t].late]
  <2>1. page' = [page EXCEPT ![t] = [p EXCEPT !.asked = R!Now(t)]]
    BY <1>2, <1>5 DEF R!Check, PageInv, PageTyped, Page
  <2>2. p \in Page /\ Tells(p)
    BY <1>2, NothingTells DEF Page
  <2> QED
    BY <1>1, <1>3, <2>1, <2>2, AskedTells, PageKeeps
<1>6. CASE R!Batch(t)
  BY <1>1, <1>2, <1>6, ShownTells, PageKeeps DEF R!Batch
<1>7. CASE R!Tested(t)
  <2>1. PICK failed \in SUBSET Covers[page[t].asked.win] :
          LET over == Covers[page[t].asked.win] \ failed
              now == IF over = {} THEN [page[t] EXCEPT !.shown = None, !.late = FALSE]
                     ELSE R!Shown(t, over)
          IN  page' = [page EXCEPT ![t] = [now EXCEPT !.asked = None]]
    BY <1>7 DEF R!Tested
  <2> DEFINE over == Covers[page[t].asked.win] \ failed
             now == IF over = {} THEN [page[t] EXCEPT !.shown = None, !.late = FALSE]
                    ELSE R!Shown(t, over)
  <2>2. page[t].asked # None /\ page[t].at = "editor"
    BY <1>7 DEF R!Tested
  <2>3. over \in SUBSET Mail
    BY <1>2, <2>2, PagesAssumption DEF Page, Asks
  <2>4. now \in Page /\ Tells(now)
    BY <1>2, <2>2, <2>3, ShownTells, NothingTells
  <2>5. page' = [page EXCEPT ![t] = [now EXCEPT !.asked = None]]
    BY <2>1
  <2> HIDE DEF over, now
  <2> QED
    BY <1>1, <1>2, <2>4, <2>5, AskedTells, PageKeeps
<1>8. CASE R!Compared(t)
  <2>1. R!Shown(t, {}) \in Page /\ Tells(R!Shown(t, {}))
    BY <1>2, <1>8, ShownTells DEF R!Compared
  <2> QED
    BY <1>1, <1>2, <1>8, <2>1, AskedTells, PageKeeps DEF R!Compared
<1>9. CASE R!NoAnswer(t)
  <2>1. page' = [page EXCEPT ![t] = [page[t] EXCEPT !.asked = None]]
    BY <1>9 DEF R!NoAnswer, PageInv, PageTyped
  <2> QED
    BY <1>1, <1>2, <2>1, AskedTells, PageKeeps
<1> QED
  BY <1>4, <1>5, <1>6, <1>7, <1>8, <1>9

\* A tab that posts is closed, and starts with nothing.
LEMMA PostTells ==
    ASSUME PageInv, NEW t \in Tabs,
           R!SaveFolder(t) \/ R!WhySave(t) \/ R!Undo(t) \/ R!SortAgain(t)
    PROVE  PageInv'
<1>1. page' = [page EXCEPT ![t] = R!Closed] /\ cache' = cache
  BY DEF R!SaveFolder, R!WhySave, R!Undo, R!SortAgain, R!Posting, R!server
<1>2. rule' \in Texts /\ prev' \in Texts
  BY DEF R!SaveFolder, R!WhySave, R!Undo, R!SortAgain, R!Changes, R!server, Texts, PageInv, PageTyped
<1>3. page' \in [Tabs -> Page] /\ \A u \in Tabs : Tells(page'[u])
  BY <1>1, ClosedPage, PageTells
<1> QED
  BY <1>1, <1>2, <1>3 DEF PageInv, PageTyped, CacheTrue, Tells

Form == [pc : {"idle", "write", "add", "places", "first", "list", "sort", "end"},
         text : Texts, tested : Verdicts, look : SUBSET {"messages", "folder"},
         win : Windows]
Judging == [by : Texts, kind : {"move", "check", "sort"}]

FormTyped ==
    /\ post \in [Tabs -> Form]
    /\ place \in [Mail -> BOOLEAN]
    /\ missed \in [Tabs -> SUBSET Mail] /\ sure \subseteq Mail
    /\ DOMAIN job = Tabs
    /\ \A t \in Tabs : \A m \in DOMAIN job[t] : job[t][m] \in Judging

Fitting(m) == place[m] <=> m \in Fits[rule]

\* What is to be done with m makes it fit, if it is judged by the rule.
Coming(t, m) == job[t][m].kind # "sort" => (place[m] => m \in Fits[rule])

\* How far the sort of a form is. Before it begins it has looked at nothing; a
\* form the rule was changed under counts for nothing; and of any other each
\* message it has looked at fits, or will once it is filed by the rule.
TabOK(t) ==
    /\ post[t].pc \notin {"first", "sort"} => DOMAIN job[t] = {} /\ missed[t] = Mail
    /\ t \in outrun => missed[t] = Mail
    /\ t \notin outrun => \A m \in DOMAIN job[t] : job[t][m].by \in {None, rule}
    /\ \A m \in Mail \ missed[t] : IF m \in DOMAIN job[t] THEN Coming(t, m) ELSE Fitting(m)

WorkInv == PageInv /\ FormTyped /\ (\A t \in Tabs : TabOK(t)) /\ R!FolderFits

LEMMA NoPostForm == R!NoPost \in Form /\ R!NoPost.pc = "idle" /\ DOMAIN R!NoJob = {}
<1>1. DOMAIN << >> = {}
  OBVIOUS
<1> QED
  BY <1>1 DEF R!NoPost, Form, Texts, Verdicts, R!NoJob

LEMMA WorkInit == R!Init => WorkInv
<1> SUFFICES ASSUME R!Init PROVE WorkInv
  OBVIOUS
<1>1. /\ post = [t \in Tabs |-> R!NoPost] /\ job = [t \in Tabs |-> R!NoJob]
      /\ place = [m \in Mail |-> m \in Fits[rule]] /\ sure = Mail
      /\ missed = [t \in Tabs |-> Mail] /\ outrun = {}
  BY DEF R!Init
<1>2. FormTyped
  BY <1>1, NoPostForm DEF FormTyped
<1>3. \A t \in Tabs : TabOK(t)
  BY <1>1, NoPostForm DEF TabOK
<1>4. R!FolderFits
  BY <1>1 DEF R!FolderFits
<1> QED
  BY <1>2, <1>3, <1>4, PageInit DEF WorkInv

\* What happens in a tab leaves the work alone.
LEMMA TabKeeps ==
    ASSUME WorkInv, PageInv', UNCHANGED <<post, job, place, rule, missed, outrun, sure>>
    PROVE  WorkInv'
BY DEF WorkInv, FormTyped, TabOK, Coming, Fitting, R!FolderFits

\* A page stays what it is while its form is served.
LEMMA PageStays ==
    ASSUME PageInv, UNCHANGED <<page, cache>>, rule' \in Texts, prev' \in Texts PROVE PageInv'
BY DEF PageInv, PageTyped, CacheTrue, Tells

\* A form is posted, and nothing has been done for it.
LEMMA SavePosts ==
    ASSUME WorkInv, NEW t \in Tabs, R!SaveFolder(t) \/ R!WhySave(t) \/ R!SortAgain(t)
    PROVE  WorkInv'
<1> USE DEF WorkInv
<1>1. PICK form :
        /\ R!Posting(t, form)
        /\ \/ \E look \in SUBSET {"messages", "folder"} : form = R!EditorForm(t, look)
           \/ form = [R!NoPost EXCEPT !.pc = "add", !.text = page[t].text, !.win = ShortWindow]
           \/ form = [R!NoPost EXCEPT !.pc = "list"]
        /\ UNCHANGED <<rule, place, job, missed, outrun, sure>>
  <2>1. CASE R!SaveFolder(t)
    <3>1. PICK look \in SUBSET {"messages", "folder"} :
            R!Posting(t, R!EditorForm(t, IF page[t].text = rule THEN look \ {"folder"} ELSE look))
      BY <2>1 DEF R!SaveFolder
    <3>2. (IF page[t].text = rule THEN look \ {"folder"} ELSE look) \in SUBSET {"messages", "folder"}
      OBVIOUS
    <3> QED
      BY <2>1, <3>1, <3>2 DEF R!SaveFolder, R!server, R!seen
  <2>2. CASE R!WhySave(t)
    BY <2>2 DEF R!WhySave, R!server, R!seen
  <2>3. CASE R!SortAgain(t)
    BY <2>3 DEF R!SortAgain, R!server, R!seen
  <2> QED
    BY <2>1, <2>2, <2>3
<1>2. form \in Form /\ form.pc \in {"write", "add", "list"}
  <2>1. page[t].text \in Texts /\ page[t].shown \in Verdicts /\ page[t].win \in Windows
        /\ None \in Verdicts
    BY DEF PageInv, PageTyped, Page, Verdicts
  <2>2. CASE \E look \in SUBSET {"messages", "folder"} : form = R!EditorForm(t, look)
    BY <2>1, <2>2 DEF R!EditorForm, Form
  <2>3. CASE form = [R!NoPost EXCEPT !.pc = "add", !.text = page[t].text, !.win = ShortWindow]
    BY <2>1, <2>3, NoPostForm, PagesAssumption DEF Form
  <2>4. CASE form = [R!NoPost EXCEPT !.pc = "list"]
    BY <2>4, NoPostForm DEF Form
  <2> QED
    BY <1>1, <2>2, <2>3, <2>4
<1>3. /\ post' = [post EXCEPT ![t] = form] /\ post[t].pc = "idle"
  BY <1>1 DEF R!Posting, R!Busy
<1>4. FormTyped'
  BY <1>1, <1>2, <1>3 DEF FormTyped
<1>5. \A u \in Tabs : TabOK(u)'
  BY <1>1, <1>2, <1>3 DEF FormTyped, TabOK, Coming, Fitting
<1>6. R!FolderFits'
  BY <1>1 DEF R!FolderFits
<1> QED
  BY <1>4, <1>5, <1>6, PostTells

\* The rule becomes a text. If it was another, every form at work is outrun by
\* it, and no message is sure; the form that did it will judge by it.
LEMMA ChangeKeeps ==
    ASSUME WorkInv, PageInv', NEW t \in Tabs, NEW text, NEW own, R!Changes(t, text, own),
           NEW form \in Form, post' = [post EXCEPT ![t] = form],
           NEW j, DOMAIN job' = Tabs, job'[t] = j, place' = place,
           \A u \in Tabs \ {t} : job'[u] = job[u],
           own \subseteq DOMAIN j, form.pc # "first" => DOMAIN j = {}, form.pc # "sort",
           \A m \in DOMAIN j : j[m] \in Judging /\ j[m].by = None /\ j[m].kind = "sort"
    PROVE  WorkInv'
<1> USE DEF WorkInv
<1>1. /\ post'[t] = form /\ \A u \in Tabs \ {t} : post'[u] = post[u]
      /\ post' \in [Tabs -> Form]
  BY DEF FormTyped
<1>2. /\ rule' = text /\ t \notin outrun'
      /\ text = rule => UNCHANGED sure /\ \A u \in Tabs \ {t} : u \in outrun' <=> u \in outrun
      /\ text # rule => sure' = {} /\ \A u \in Tabs \ {t} : u \in outrun' <=> R!Busy(u)
  BY DEF R!Changes
<1>3. /\ missed' \in [Tabs -> SUBSET Mail] /\ missed'[t] = Mail \ own
      /\ \A u \in Tabs \ {t} : missed'[u] = IF text = rule THEN missed[u] ELSE Mail
  <2>1. CASE text = rule
    <3>1. missed' = [u \in Tabs |-> IF u = t THEN Mail \ own ELSE missed[u]]
      BY <2>1 DEF R!Changes
    <3> QED
      BY <2>1, <3>1 DEF FormTyped
  <2>2. CASE text # rule
    <3>1. missed' = [u \in Tabs |-> IF u = t THEN Mail \ own ELSE Mail]
      BY <2>2 DEF R!Changes
    <3> QED
      BY <2>2, <3>1
  <2> QED
    BY <2>1, <2>2
<1>4. FormTyped'
  BY <1>1, <1>2, <1>3 DEF FormTyped
<1>5. TabOK(t)'
  BY <1>1, <1>2, <1>3 DEF TabOK, Coming
<1>6. ASSUME NEW u \in Tabs \ {t} PROVE TabOK(u)'
  <2>1. CASE text = rule
    BY <1>1, <1>2, <1>3, <2>1 DEF TabOK, Coming, Fitting
  <2>2. CASE text # rule
    BY <1>1, <1>2, <1>3, <2>2 DEF TabOK, R!Busy
  <2> QED
    BY <2>1, <2>2
<1>7. R!FolderFits'
  BY <1>2 DEF R!FolderFits
<1> QED
  BY <1>4, <1>5, <1>6, <1>7

LEMMA UndoPosts == ASSUME WorkInv, NEW t \in Tabs, R!Undo(t) PROVE WorkInv'
<1> DEFINE form == [R!NoPost EXCEPT !.pc = "list", !.win = ShortWindow]
<1>1. /\ ~ R!Busy(t) /\ post' = [post EXCEPT ![t] = form] /\ R!Changes(t, prev, {})
      /\ job' = job /\ place' = place
  BY DEF R!Undo, R!Posting
<1>2. form \in Form /\ form.pc = "list"
  BY NoPostForm, PagesAssumption DEF Form
<1>3. DOMAIN job' = Tabs /\ \A u \in Tabs : job'[u] = job[u]
  BY <1>1 DEF WorkInv, FormTyped
<1>4. DOMAIN job[t] = {}
  BY <1>1 DEF WorkInv, TabOK, R!Busy
<1>5. PageInv'
  BY PostTells DEF WorkInv
<1> HIDE DEF form
<1> QED
  BY <1>1, <1>2, <1>3, <1>4, <1>5, ChangeKeeps

LEMMA WriteKeeps ==
    ASSUME WorkInv, NEW t \in Tabs, R!Write(t) \/ R!WriteWhy(t) PROVE WorkInv'
<1>1. post[t] \in Form /\ rule \in Texts /\ prev \in Texts
  BY DEF WorkInv, FormTyped, PageInv, PageTyped
<1>2. PageInv'
  <2>1. rule' \in Texts /\ prev' \in Texts /\ UNCHANGED <<page, cache>>
    BY <1>1 DEF R!Write, R!WriteWhy, R!Save, R!Changes, Form
  <2> QED
    BY <2>1, PageStays DEF WorkInv
<1>3. CASE R!Write(t)
  <2>1. PICK pc \in {"end", "places"} : post' = [post EXCEPT ![t] = [post[t] EXCEPT !.pc = pc]]
    BY <1>3 DEF R!Write, WorkInv, FormTyped
  <2>2. [post[t] EXCEPT !.pc = pc] \in Form /\ [post[t] EXCEPT !.pc = pc].pc = pc
    BY <1>1 DEF Form
  <2>3. /\ R!Changes(t, post[t].text, {}) /\ place' = place
        /\ DOMAIN job' = Tabs /\ (\A u \in Tabs : job'[u] = job[u]) /\ DOMAIN job[t] = {}
    BY <1>3 DEF R!Write, R!Save, WorkInv, FormTyped, TabOK
  <2> QED
    BY <1>2, <2>1, <2>2, <2>3, ChangeKeeps
<1>4. CASE R!WriteWhy(t)
  <2> DEFINE j == [m \in {Mine} |-> R!ToDo(None, "sort")]
  <2>1. post' = [post EXCEPT ![t] = [post[t] EXCEPT !.pc = "first"]]
    BY <1>4 DEF R!WriteWhy, WorkInv, FormTyped
  <2>2. [post[t] EXCEPT !.pc = "first"] \in Form /\ [post[t] EXCEPT !.pc = "first"].pc = "first"
    BY <1>1 DEF Form
  <2>3. /\ R!Changes(t, post[t].text, {Mine}) /\ place' = place
        /\ DOMAIN job' = Tabs /\ job'[t] = j /\ \A u \in Tabs \ {t} : job'[u] = job[u]
    BY <1>4 DEF R!WriteWhy, R!Save, WorkInv, FormTyped
  <2>4. DOMAIN j = {Mine}
    OBVIOUS
  <2>5. \A m \in DOMAIN j : j[m] \in Judging /\ j[m].by = None /\ j[m].kind = "sort"
    BY DEF R!ToDo, Judging, Texts
  <2> HIDE DEF j
  <2> QED
    BY <1>2, <2>1, <2>2, <2>3, <2>4, <2>5, ChangeKeeps
<1> QED
  BY <1>3, <1>4

\* A sort begins. What it will not touch fits already, or it has not looked at.
LEMMA LooksKeeps ==
    ASSUME WorkInv, NEW t \in Tabs, NEW msgs, R!Looks(t, msgs),
           NEW j, job' = [job EXCEPT ![t] = j],
           UNCHANGED <<rule, prev, place, cache, page, sure>>,
           \A m \in DOMAIN j : j[m] \in Judging /\ j[m].by \in {None, rule},
           \A m \in msgs \cap Mail :
             IF m \in DOMAIN j THEN j[m].kind # "sort" => ~ place[m] ELSE Fitting(m),
           DOMAIN job[t] = {}, DOMAIN j \subseteq msgs
    PROVE  WorkInv'
<1> USE DEF WorkInv
<1>1. /\ DOMAIN job' = Tabs /\ job'[t] = j /\ \A u \in Tabs \ {t} : job'[u] = job[u]
  BY DEF FormTyped
<1>2. /\ post'[t].pc = "sort" /\ post' \in [Tabs -> Form]
      /\ \A u \in Tabs \ {t} : post'[u] = post[u]
  <2>1. post' = [post EXCEPT ![t] = [post[t] EXCEPT !.pc = "sort"]] /\ post[t] \in Form
    BY DEF R!Looks, FormTyped
  <2>2. [post[t] EXCEPT !.pc = "sort"] \in Form /\ [post[t] EXCEPT !.pc = "sort"].pc = "sort"
    BY <2>1 DEF Form
  <2> QED
    BY <2>1, <2>2 DEF FormTyped
<1>3. /\ missed' \in [Tabs -> SUBSET Mail] /\ missed'[t] = missed[t] \ msgs
      /\ \A u \in Tabs \ {t} : missed'[u] = missed[u]
      /\ t \notin outrun' /\ \A u \in Tabs \ {t} : u \in outrun' <=> u \in outrun
  BY DEF R!Looks, FormTyped
<1>4. PageInv'
  BY PageStays DEF PageInv, PageTyped
<1>5. FormTyped'
  BY <1>1, <1>2, <1>3 DEF FormTyped
<1>6. TabOK(t)'
  <2> SUFFICES ASSUME NEW m \in Mail \ missed'[t]
               PROVE IF m \in DOMAIN j THEN Coming(t, m)' ELSE Fitting(m)'
    BY <1>1, <1>2, <1>3 DEF TabOK
  <2>1. CASE m \in msgs
    BY <1>1, <2>1 DEF Coming, Fitting
  <2>2. CASE m \notin msgs
    <3>1. m \in Mail \ missed[t] /\ m \notin DOMAIN j
      BY <1>3, <2>2
    <3>2. Fitting(m)
      BY <3>1 DEF TabOK
    <3> QED
      BY <3>1, <3>2 DEF Fitting
  <2> QED
    BY <2>1, <2>2
<1>7. ASSUME NEW u \in Tabs \ {t} PROVE TabOK(u)'
  BY <1>1, <1>2, <1>3 DEF TabOK, Coming, Fitting
<1>8. R!FolderFits'
  BY DEF R!FolderFits
<1> QED
  BY <1>4, <1>5, <1>6, <1>7, <1>8

LEMMA SortIntoKeeps == ASSUME WorkInv, NEW t \in Tabs, R!SortInto(t) PROVE WorkInv'
<1> DEFINE tested == post[t].tested
           known == IF R!Usable(tested, post[t].win) THEN tested.over ELSE {}
           found == IF known = {} THEN {} ELSE known \cap Fits[tested.rule]
           rows == {m \in Covers[post[t].win] :
                      (IF place[m] THEN "folder" ELSE "messages") \in post[t].look}
           resort == {m \in rows : place[m] /\ m \notin found}
           move == {m \in rows : ~place[m] /\ m \in found}
           check == {m \in rows : ~place[m] /\ m \notin known}
           todo(m) == CASE m \in resort -> R!ToDo(None, "sort")
                        [] m \in move -> R!ToDo(tested.rule, "move")
                        [] OTHER -> R!ToDo(rule, "check")
           work == resort \cup move \cup check
           j == [m \in work |-> todo(m)]
<1>1. /\ job' = [job EXCEPT ![t] = j] /\ R!Looks(t, rows) /\ post[t].pc = "places"
      /\ UNCHANGED <<rule, prev, place, cache, page, sure>>
  BY DEF R!SortInto, R!server
<1>2. known # {} => known \subseteq tested.over /\ tested.rule = rule
  BY DEF R!Usable
<1>3. found \subseteq known /\ \A m \in known : m \in found <=> m \in Fits[rule]
  BY <1>2
<1>4. DOMAIN j = work /\ work \subseteq rows
  OBVIOUS
<1>5. ASSUME NEW m \in work
      PROVE  todo(m) \in Judging /\ todo(m).by \in {None, rule} /\ (todo(m).kind # "sort" => ~ place[m])
  <2>1. None \in Texts /\ rule \in Texts
    BY DEF Texts, WorkInv, PageInv, PageTyped
  <2>2. CASE m \in resort
    BY <2>1, <2>2 DEF R!ToDo, Judging
  <2>3. CASE m \in move
    <3>1. tested.rule = rule /\ m \notin resort /\ ~ place[m]
      BY <1>2, <1>3, <2>3
    <3>2. todo(m) = R!ToDo(rule, "move")
      BY <2>3, <3>1
    <3> QED
      BY <2>1, <3>1, <3>2 DEF R!ToDo, Judging
  <2>4. CASE m \in check
    <3>1. m \notin resort /\ m \notin move /\ ~ place[m]
      BY <1>3, <2>4
    <3>2. todo(m) = R!ToDo(rule, "check")
      BY <3>1
    <3> QED
      BY <2>1, <3>1, <3>2 DEF R!ToDo, Judging
  <2> QED
    BY <2>2, <2>3, <2>4
<1>6. ASSUME NEW m \in rows, m \notin work PROVE Fitting(m)
  BY <1>3, <1>6 DEF Fitting
<1>7. DOMAIN job[t] = {}
  BY <1>1 DEF WorkInv, TabOK
<1>8. \A m \in work : j[m] = todo(m)
  OBVIOUS
<1> HIDE DEF rows, work, todo, j
<1>9. \A m \in DOMAIN j : j[m] \in Judging /\ j[m].by \in {None, rule}
  BY <1>4, <1>5, <1>8
<1>10. \A m \in rows \cap Mail :
         IF m \in DOMAIN j THEN j[m].kind # "sort" => ~ place[m] ELSE Fitting(m)
  BY <1>4, <1>5, <1>6, <1>8
<1> QED
  BY <1>1, <1>4, <1>7, <1>9, <1>10, LooksKeeps

LEMMA SortRecentKeeps == ASSUME WorkInv, NEW t \in Tabs, R!SortRecent(t) PROVE WorkInv'
<1> DEFINE msgs == Covers[post[t].win]
           j == [m \in msgs |-> R!ToDo(rule, "sort")]
<1>1. /\ job[t] = R!NoJob /\ job' = [job EXCEPT ![t] = j] /\ R!Looks(t, msgs)
      /\ UNCHANGED <<rule, prev, place, cache, page, sure>>
  BY DEF R!SortRecent, R!server
<1>2. DOMAIN job[t] = {}
  BY <1>1, NoPostForm
<1>3. DOMAIN j = msgs
  OBVIOUS
<1>4. \A m \in DOMAIN j : j[m] \in Judging /\ j[m].by = rule /\ j[m].kind = "sort"
  BY DEF R!ToDo, Judging, WorkInv, PageInv, PageTyped
<1> HIDE DEF msgs, j
<1>5. \A m \in DOMAIN j : j[m] \in Judging /\ j[m].by \in {None, rule}
  BY <1>4
<1>6. \A m \in msgs \cap Mail :
        IF m \in DOMAIN j THEN j[m].kind # "sort" => ~ place[m] ELSE Fitting(m)
  BY <1>3, <1>4
<1>7. DOMAIN j \subseteq msgs
  BY <1>3
<1> QED
  BY <1>1, <1>2, <1>5, <1>6, <1>7, LooksKeeps

LEMMA ReadRulesKeeps ==
    ASSUME WorkInv, NEW t \in Tabs, NEW m \in Mail, R!ReadRules(t, m) PROVE WorkInv'
<1> USE DEF WorkInv
<1>1. /\ m \in DOMAIN job[t] /\ job' = [job EXCEPT ![t][m].by = rule]
      /\ UNCHANGED <<post, rule, prev, place, cache, page, missed, outrun, sure>>
  BY DEF R!ReadRules, R!server, R!seen
<1>2. /\ DOMAIN job' = Tabs /\ \A u \in Tabs \ {t} : job'[u] = job[u]
      /\ DOMAIN job'[t] = DOMAIN job[t]
      /\ \A k \in DOMAIN job[t] \ {m} : job'[t][k] = job[t][k]
      /\ job'[t][m] = [job[t][m] EXCEPT !.by = rule]
  BY <1>1 DEF FormTyped
<1>3. /\ job'[t][m].by = rule /\ job'[t][m].kind = job[t][m].kind
      /\ job'[t][m] \in Judging
  BY <1>1, <1>2 DEF FormTyped, Judging, PageInv, PageTyped
<1>4. PageInv'
  BY <1>1, PageStays DEF PageInv, PageTyped
<1>5. FormTyped'
  BY <1>1, <1>2, <1>3 DEF FormTyped
<1>6. TabOK(t)'
  <2>1. \A k \in DOMAIN job[t] : /\ job'[t][k].kind = job[t][k].kind
                                 /\ job'[t][k].by \in {job[t][k].by, rule}
    BY <1>2, <1>3
  <2> QED
    BY <1>1, <1>2, <2>1 DEF TabOK, Coming, Fitting
<1>7. ASSUME NEW u \in Tabs \ {t} PROVE TabOK(u)'
  BY <1>1, <1>2 DEF TabOK, Coming, Fitting
<1>8. R!FolderFits'
  BY <1>1 DEF R!FolderFits
<1> QED
  BY <1>4, <1>5, <1>6, <1>7, <1>8

\* A message of a sort is done with.
LEMMA DoneJob ==
    ASSUME WorkInv, NEW t \in Tabs, NEW m, m \in DOMAIN job[t], R!Done(t, m)
    PROVE  /\ DOMAIN job' = Tabs /\ \A u \in Tabs \ {t} : job'[u] = job[u]
           /\ DOMAIN job'[t] = DOMAIN job[t] \ {m}
           /\ \A k \in DOMAIN job'[t] : job'[t][k] = job[t][k]
           /\ post[t].pc \in {"first", "sort"}
<1>1. job' = [job EXCEPT ![t] = [k \in DOMAIN job[t] \ {m} |-> job[t][k]]]
  BY DEF R!Done, R!Restrict, WorkInv, FormTyped
<1>2. post[t].pc \in {"first", "sort"}
  BY DEF WorkInv, TabOK
<1> QED
  BY <1>1, <1>2 DEF WorkInv, FormTyped

LEMMA FileMessageKeeps ==
    ASSUME WorkInv, NEW t \in Tabs, NEW m \in Mail, R!FileMessage(t, m) PROVE WorkInv'
<1> USE DEF WorkInv
<1>1. /\ m \in DOMAIN job[t] /\ job[t][m].by # None /\ R!Done(t, m)
      /\ UNCHANGED <<post, rule, prev, cache, page, outrun>>
  BY DEF R!FileMessage
<1> DEFINE older == t \in outrun /\ job[t][m].by # rule
                   /\ (job[t][m].kind = "sort" \/ R!Judged(t, m))
<1>2. /\ DOMAIN job' = Tabs /\ \A u \in Tabs \ {t} : job'[u] = job[u]
      /\ DOMAIN job'[t] = DOMAIN job[t] \ {m}
      /\ \A k \in DOMAIN job'[t] : job'[t][k] = job[t][k]
      /\ post[t].pc \in {"first", "sort"}
  BY <1>1, DoneJob
<1>3. /\ place' \in [Mail -> BOOLEAN] /\ \A k \in Mail \ {m} : place'[k] = place[k]
      /\ place'[m] <=> R!Judged(t, m) \/ (job[t][m].kind # "sort" /\ place[m])
  <2>1. PICK b \in BOOLEAN : b <=> R!Judged(t, m) \/ (job[t][m].kind # "sort" /\ place[m])
    OBVIOUS
  <2>2. place' = [place EXCEPT ![m] = b]
    BY <2>1 DEF R!FileMessage, R!Judged, FormTyped
  <2> QED
    BY <2>1, <2>2 DEF FormTyped
<1>4. /\ older => /\ missed' = [u \in Tabs |-> missed[u] \cup {m}]
                 /\ sure' = sure \ {m}
      /\ ~ older => UNCHANGED <<missed, sure>>
  BY DEF R!FileMessage, R!Lost
<1>5. older \/ job[t][m].by = rule \/ place'[m] = place[m]
  <2> SUFFICES ASSUME ~ older, job[t][m].by # rule PROVE place'[m] = place[m]
    OBVIOUS
  <2>1. t \in outrun
    BY <1>1 DEF TabOK
  <2>2. job[t][m].kind # "sort" /\ ~ R!Judged(t, m)
    BY <2>1
  <2> QED
    BY <1>3, <2>2 DEF FormTyped
<1>6. job[t][m].by = rule => (R!Judged(t, m) <=> m \in Fits[rule])
  BY DEF R!Judged
<1>7. missed' \in [Tabs -> SUBSET Mail] /\ \A u \in Tabs : missed[u] \subseteq missed'[u]
  BY <1>4 DEF FormTyped
<1> HIDE DEF older
<1>8. PageInv'
  BY <1>1, PageStays DEF PageInv, PageTyped
<1>9. FormTyped'
  BY <1>1, <1>2, <1>3, <1>4, <1>7 DEF FormTyped
<1>10. ASSUME NEW u \in Tabs PROVE TabOK(u)'
  <2>1. ASSUME NEW k \in Mail \ missed'[u]
        PROVE  IF k \in DOMAIN job'[u] THEN Coming(u, k)' ELSE Fitting(k)'
    <3>1. k \in Mail \ missed[u]
      BY <1>7, <2>1
    <3>2. IF k \in DOMAIN job[u] THEN Coming(u, k) ELSE Fitting(k)
      BY <3>1 DEF TabOK
    <3>3. k # m => place'[k] = place[k]
      BY <1>3
    <3>4. CASE k # m
      BY <1>1, <1>2, <3>2, <3>3, <3>4 DEF Coming, Fitting
    <3>5. CASE k = m /\ u # t
      <4>1. ~ older
        BY <1>4, <2>1, <3>5 DEF FormTyped
      <4>2. CASE place'[m] = place[m]
        BY <1>1, <1>2, <3>2, <3>5, <4>2 DEF Coming, Fitting
      <4>3. CASE job[t][m].by = rule
        <5>1. place'[m] <=> m \in Fits[rule] \/ (job[t][m].kind # "sort" /\ place[m])
          BY <1>3, <1>6, <4>3
        <5> QED
          BY <1>1, <1>2, <3>2, <3>5, <5>1 DEF Coming, Fitting
      <4> QED
        BY <1>5, <4>1, <4>2, <4>3
    <3>6. CASE k = m /\ u = t
      <4>1. t \notin outrun
        BY <3>1, <3>6 DEF TabOK
      <4>2. job[t][m].by = rule
        BY <1>1, <4>1 DEF TabOK
      <4>3. place'[m] <=> m \in Fits[rule] \/ (job[t][m].kind # "sort" /\ place[m])
        BY <1>3, <1>6, <4>2
      <4>4. Coming(t, m)
        BY <1>1, <3>2, <3>6
      <4>5. place'[m] <=> m \in Fits[rule]
        BY <4>3, <4>4 DEF Coming
      <4> QED
        BY <1>1, <1>2, <3>6, <4>5 DEF Fitting
    <3> QED
      BY <3>4, <3>5, <3>6
  <2>2. u \in outrun => missed'[u] = Mail
    BY <1>7 DEF TabOK
  <2>3. u \notin outrun => \A k \in DOMAIN job'[u] : job'[u][k].by \in {None, rule}
    BY <1>2 DEF TabOK
  <2>4. post[u].pc \notin {"first", "sort"} => DOMAIN job'[u] = {} /\ missed'[u] = Mail
    <3>1. ASSUME post[u].pc \notin {"first", "sort"}
          PROVE  u # t /\ DOMAIN job[u] = {} /\ missed[u] = Mail
      BY <1>2, <3>1 DEF TabOK
    <3> QED
      BY <1>2, <1>7, <3>1
  <2> QED
    BY <1>1, <2>1, <2>2, <2>3, <2>4 DEF TabOK
<1>11. R!FolderFits'
  <2> SUFFICES ASSUME NEW k \in sure' PROVE place'[k] <=> k \in Fits[rule]
    BY <1>1 DEF R!FolderFits
  <2>1. k \in sure /\ (k = m => ~ older)
    BY <1>4
  <2>2. place[k] <=> k \in Fits[rule]
    BY <2>1 DEF R!FolderFits
  <2>3. CASE k = m
    BY <1>3, <1>5, <1>6, <2>1, <2>2, <2>3
  <2>4. CASE k # m
    BY <1>4, <2>1, <2>2, <2>4 DEF R!FileMessage
  <2> QED
    BY <2>3, <2>4
<1> QED
  BY <1>8, <1>9, <1>10, <1>11

\* A call of the model that failed leaves one message no sort is sure of.
LEMMA NotJudgedKeeps ==
    ASSUME WorkInv, NEW t \in Tabs, NEW m \in Mail, R!NotJudged(t, m) PROVE WorkInv'
<1> USE DEF WorkInv
<1>1. /\ m \in DOMAIN job[t] /\ R!Done(t, m)
      /\ UNCHANGED <<post, rule, prev, cache, page, outrun>>
  BY DEF R!NotJudged
<1>2. /\ DOMAIN job' = Tabs /\ \A u \in Tabs \ {t} : job'[u] = job[u]
      /\ DOMAIN job'[t] = DOMAIN job[t] \ {m}
      /\ \A k \in DOMAIN job'[t] : job'[t][k] = job[t][k]
      /\ post[t].pc \in {"first", "sort"}
  BY <1>1, DoneJob
<1>3. /\ place' \in [Mail -> BOOLEAN] /\ \A k \in Mail \ {m} : place'[k] = place[k]
      /\ missed' \in [Tabs -> SUBSET Mail] /\ \A u \in Tabs : missed[u] \subseteq missed'[u]
      /\ m \in missed'[t] /\ sure' \subseteq sure
      /\ \/ UNCHANGED place
         \/ m \notin sure' /\ \A u \in Tabs : m \in missed'[u]
  <2>1. CASE job[t][m].kind = "sort"
    <3>1. /\ place' = [place EXCEPT ![m] = FALSE]
          /\ missed' = [u \in Tabs |-> missed[u] \cup {m}] /\ sure' = sure \ {m}
      BY <2>1 DEF R!NotJudged, R!Lost
    <3>2. /\ place' \in [Mail -> BOOLEAN] /\ \A k \in Mail \ {m} : place'[k] = place[k]
      BY <3>1 DEF FormTyped
    <3>3. /\ missed' \in [Tabs -> SUBSET Mail]
          /\ \A u \in Tabs : m \in missed'[u] /\ missed[u] \subseteq missed'[u]
      BY <3>1 DEF FormTyped
    <3> QED
      BY <3>1, <3>2, <3>3
  <2>2. CASE job[t][m].kind # "sort"
    BY <2>2 DEF R!NotJudged, FormTyped
  <2> QED
    BY <2>1, <2>2
<1>4. PageInv'
  BY <1>1, PageStays DEF PageInv, PageTyped
<1>5. FormTyped'
  BY <1>1, <1>2, <1>3 DEF FormTyped
<1>6. ASSUME NEW u \in Tabs PROVE TabOK(u)'
  <2>1. ASSUME NEW k \in Mail \ missed'[u]
        PROVE  IF k \in DOMAIN job'[u] THEN Coming(u, k)' ELSE Fitting(k)'
    <3>1. k \in Mail \ missed[u] /\ place'[k] = place[k]
      BY <1>3, <2>1
    <3>2. IF k \in DOMAIN job[u] THEN Coming(u, k) ELSE Fitting(k)
      BY <3>1 DEF TabOK
    <3>3. u = t => k # m
      BY <1>3, <2>1
    <3> QED
      BY <1>1, <1>2, <3>1, <3>2, <3>3 DEF Coming, Fitting
  <2>2. u \in outrun => missed'[u] = Mail
    BY <1>3 DEF TabOK
  <2>3. u \notin outrun => \A k \in DOMAIN job'[u] : job'[u][k].by \in {None, rule}
    BY <1>2 DEF TabOK
  <2>4. post[u].pc \notin {"first", "sort"} => DOMAIN job'[u] = {} /\ missed'[u] = Mail
    <3>1. ASSUME post[u].pc \notin {"first", "sort"}
          PROVE  u # t /\ DOMAIN job[u] = {} /\ missed[u] = Mail
      BY <1>2, <3>1 DEF TabOK
    <3> QED
      BY <1>2, <1>3, <3>1
  <2> QED
    BY <1>1, <2>1, <2>2, <2>3, <2>4 DEF TabOK
<1>7. R!FolderFits'
  <2> SUFFICES ASSUME NEW k \in sure' PROVE place'[k] <=> k \in Fits[rule]
    BY <1>1 DEF R!FolderFits
  <2>1. k \in sure /\ place'[k] = place[k]
    BY <1>3 DEF FormTyped
  <2> QED
    BY <2>1 DEF R!FolderFits
<1> QED
  BY <1>4, <1>5, <1>6, <1>7

\* A form has been served, or its worker died.
LEMMA EndKeeps ==
    ASSUME WorkInv, NEW t \in Tabs, R!End(t) \/ R!Die(t) PROVE WorkInv'
<1> USE DEF WorkInv
<1>1. R!Leave(t) /\ UNCHANGED <<rule, prev, place, cache, page>>
  BY DEF R!End, R!Die, R!server
<1>2. /\ post' \in [Tabs -> Form] /\ post'[t].pc = "idle"
      /\ \A u \in Tabs \ {t} : post'[u] = post[u]
  BY <1>1, NoPostForm DEF R!Leave, FormTyped
<1>3. /\ DOMAIN job' = Tabs /\ DOMAIN job'[t] = {}
      /\ \A u \in Tabs \ {t} : job'[u] = job[u]
  BY <1>1, NoPostForm DEF R!Leave, FormTyped
<1>4. /\ missed' \in [Tabs -> SUBSET Mail] /\ missed'[t] = Mail
      /\ \A u \in Tabs \ {t} : missed'[u] = missed[u]
      /\ t \notin outrun' /\ \A u \in Tabs \ {t} : u \in outrun' <=> u \in outrun
  BY <1>1 DEF R!Leave, FormTyped
<1>5. PageInv'
  BY <1>1, PageStays DEF PageInv, PageTyped
<1>6. FormTyped'
  <2>1. sure' \subseteq Mail
    BY DEF R!End, R!Die, FormTyped
  <2> QED
    BY <1>1, <1>2, <1>3, <1>4, <2>1 DEF FormTyped
<1>7. ASSUME NEW u \in Tabs PROVE TabOK(u)'
  <2>1. CASE u = t
    BY <1>2, <1>3, <1>4, <2>1 DEF TabOK
  <2>2. CASE u # t
    BY <1>1, <1>2, <1>3, <1>4, <2>2 DEF TabOK, Coming, Fitting
  <2> QED
    BY <2>1, <2>2
<1>8. R!FolderFits'
  <2>1. ASSUME NEW k \in Mail \ missed[t], R!End(t) PROVE Fitting(k)
    <3>1. DOMAIN job[t] = {}
      BY <2>1, NoPostForm DEF R!End
    <3> QED
      BY <2>1, <3>1 DEF TabOK
  <2>2. CASE R!End(t)
    BY <1>1, <2>1, <2>2 DEF R!FolderFits, R!End, Fitting
  <2>3. CASE R!Die(t)
    BY <1>1, <2>3 DEF R!FolderFits, R!Die
  <2> QED
    BY <2>2, <2>3
<1> QED
  BY <1>5, <1>6, <1>7, <1>8

LEMMA WorkStays == ASSUME WorkInv, UNCHANGED folder PROVE WorkInv'
BY DEF folder, WorkInv, PageInv, PageTyped, CacheTrue, Tells, FormTyped, TabOK, Coming,
   Fitting, R!FolderFits

LEMMA WorkStep == ASSUME WorkInv, R!Next PROVE WorkInv'
<1>1. ASSUME NEW t \in Tabs,
             R!OpenEditor(t) \/ R!OpenWhy(t) \/ R!Explain(t) \/ R!Explained(t) \/ R!NotExplained(t)
             \/ (\E text \in RuleTexts : R!Edit(t, text) \/ R!Tidy(t, text))
             \/ (\E win \in Windows : R!Resize(t, win))
             \/ R!UseTidied(t) \/ R!Test(t) \/ R!Check(t) \/ R!Batch(t)
             \/ R!Tested(t) \/ R!Compared(t) \/ R!NoAnswer(t)
      PROVE  WorkInv'
  <2>1. PageInv'
    BY <1>1, OpenTells, ExplainTells, EditTells, CheckTells DEF WorkInv
  <2>2. UNCHANGED <<post, job, place, rule, missed, outrun, sure>>
    BY <1>1 DEF R!OpenEditor, R!OpenWhy, R!Open, R!Explain, R!Explained, R!NotExplained,
         R!Edit, R!Tidy, R!Resize, R!UseTidied, R!Test, R!Check, R!Batch, R!Tested,
         R!Compared, R!NoAnswer, R!server, R!work, R!seen
  <2> QED
    BY <2>1, <2>2, TabKeeps
<1>2. CASE R!Finished
  BY <1>2, WorkStays DEF R!Finished, R!vars, folder
<1> QED
  BY <1>1, <1>2, SavePosts, UndoPosts, WriteKeeps, SortIntoKeeps, SortRecentKeeps,
     ReadRulesKeeps, FileMessageKeeps, NotJudgedKeeps, EndKeeps DEF R!Next

LEMMA RuleScene == ASSUME WorkInv, [Next]_vars PROVE WorkInv'
BY WorkStays, WorkStep DEF Next, vars

\* No tab counts or lists what a check found of another rule or window than its
\* own, but what was under way when they were changed, and none shows the
\* explanation of another rule (WhyNot, SortPlaces, ThreadDO.explain).
THEOREM ToldOfItsRuleAlways == Spec => []ToldOfItsRule
<1>1. WorkInv => ToldOfItsRule
  BY DEF WorkInv, PageInv, Tells, ToldOfItsRule, R!ToldOfItsRule
<1>2. Init => WorkInv
  BY WorkInit DEF Init
<1> QED
  BY <1>1, <1>2, RuleScene, PTL DEF Spec

\* Mail that a sort has looked at since the rule changed is in the folder just if
\* the rule fits it, whatever other forms are served, fail or are cut off
\* (sortInto, sortRecent, fileMessage).
THEOREM FolderFitsAlways == Spec => []FolderFits
<1>1. WorkInv => FolderFits
  BY DEF WorkInv, FolderFits
<1>2. Init => WorkInv
  BY WorkInit DEF Init
<1> QED
  BY <1>1, <1>2, RuleScene, PTL DEF Spec
=============================================================================
