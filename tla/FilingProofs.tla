---------------------------- MODULE FilingProofs ----------------------------
(***************************************************************************)
(* The invariants of Filing hold for every set of messages, folders and    *)
(* sorters and all bounds.                                                 *)
(***************************************************************************)
EXTENDS Filing, TLAPS

Job == [pc: {"none", "own", "remember", "list", "mark", "judge", "move"},
        list: SUBSET Folders]
Sorting == [pc: {"idle", "pick", "clear", "work"}, key: Keys \cup {NoKey},
            list: SUBSET Folders]

\* A filed row has no suggestion and one filed by a person is not being sorted.
Coherent(r) ==
    /\ r.folder = NoFolder \/ r.suggest = NoFolder
    /\ ~(r.you /\ r.pending)

\* So had a row when it was recorded for undo.
RecordsOK == \A k \in Keys, m \in Msgs : undo[k][m] = NoRecord \/ Coherent(undo[k][m])

\* A sorter has jobs only once it has picked its messages, and does nothing
\* about them before it has cleared the old records.
PhaseOK ==
    \A s \in Sorters :
        /\ sort[s].pc = "idle" => sort[s] = IdleSort
        /\ sort[s].pc \in {"idle", "pick"} => \A m \in Msgs : job[s][m] = NoJob
        /\ sort[s].pc = "clear" =>
             \A m \in Msgs : job[s][m].pc \in {"none", "own", "remember"}

\* Only a sort with an undo record has something to clear or to remember, and
\* only a folder's own sort moves messages there.
KeysOK ==
    \A s \in Sorters :
        /\ sort[s].pc = "clear" => sort[s].key \in Keys
        /\ \A m \in Msgs : /\ job[s][m].pc \in {"own", "remember"} => sort[s].key \in Keys
                           /\ job[s][m].pc = "move" => sort[s].key \in Folders

\* What still knows a deleted folder for a message knew it when it was deleted.
KnownLate ==
    \A f \in deleted, m \in Msgs :
        /\ \A s \in Sorters : f \in sort[s].list \cup job[s][m].list \cup {sort[s].key} => m \in late
        /\ hand.msg = m /\ hand.folder = f => m \in late
        /\ \A k \in Keys : f \in {undo[k][m].folder, undo[k][m].suggest} => m \in late

\* A message a person filed was not filed last by a sort.
YouBy == \A m \in listed : row[m].you => by[m] = NoKey

Remembered == {"list", "mark", "judge", "move"}

\* A sort remembers a message before it goes on with it.
JobRecorded ==
    \A s \in Sorters, m \in listed :
        job[s][m].pc \in Remembered /\ sort[s].key # NoKey =>
            undo[sort[s].key][m] # NoRecord \/ <<sort[s].key, m>> \in cut

\* The inductive invariant.
IInv ==
    /\ TypeOK /\ RecordsOK /\ PhaseOK /\ KeysOK /\ KnownLate /\ YouBy /\ JobRecorded
    /\ PersonWins /\ DanglingAccounted /\ MovedCanBeUndone /\ PendingIsBeingSorted

-----------------------------------------------------------------------------
(* What the operators of Filing do, point by point *)

\* Sorter s does job j next with message m.
Goes(s, m, j) ==
    /\ job' \in [Sorters -> [Msgs -> Job]] /\ sort' \in [Sorters -> Sorting]
    /\ \A t \in Sorters, n \in Msgs : job'[t][n] = IF t = s /\ n = m THEN j ELSE job[t][n]
    /\ \A t \in Sorters : t # s => sort'[t] = sort[t]
    /\ sort'[s].list = {}
    /\ \/ sort'[s].pc = "idle" /\ sort'[s] = IdleSort /\ \A n \in Msgs : job'[s][n] = NoJob
       \/ sort'[s].pc = "work" /\ sort'[s].key = sort[s].key

LEMMA KeysApart == NoKey \notin Keys /\ All \notin Folders /\ NoFolder \notin Folders
BY NamesAssumption DEF Keys

LEMMA WorkShape ==
    ASSUME sort \in [Sorters -> Sorting], job \in [Sorters -> [Msgs -> Job]],
           NEW s \in Sorters, NEW jobs \in [Msgs -> Job], Work(s, jobs)
    PROVE  /\ job' \in [Sorters -> [Msgs -> Job]] /\ sort' \in [Sorters -> Sorting]
           /\ job'[s] = jobs
           /\ \A t \in Sorters : t # s => job'[t] = job[t] /\ sort'[t] = sort[t]
           /\ sort'[s].list = {}
           /\ \/ sort'[s].pc = "idle" /\ sort'[s] = IdleSort /\ \A n \in Msgs : jobs[n] = NoJob
              \/ sort'[s].pc = "work" /\ sort'[s].key = sort[s].key
<1> DEFINE w == IF \A m \in Msgs : jobs[m] = NoJob THEN IdleSort
                ELSE [sort[s] EXCEPT !.pc = "work", !.list = {}]
<1>1. sort' = [sort EXCEPT ![s] = w] /\ job' = [job EXCEPT ![s] = jobs]
  BY DEF Work
<1>2. w \in Sorting /\ w.list = {}
  BY DEF Sorting, IdleSort
<1>3. \/ w.pc = "idle" /\ w = IdleSort /\ \A n \in Msgs : jobs[n] = NoJob
      \/ w.pc = "work" /\ w.key = sort[s].key
  BY DEF Sorting, IdleSort
<1> HIDE DEF w
<1> QED
  BY <1>1, <1>2, <1>3

LEMMA NextJobShape ==
    ASSUME sort \in [Sorters -> Sorting], job \in [Sorters -> [Msgs -> Job]],
           NEW s \in Sorters, NEW m \in Msgs, NEW pc, NEW list,
           [pc |-> pc, list |-> list] \in Job, NextJob(s, m, pc, list)
    PROVE  Goes(s, m, [pc |-> pc, list |-> list])
<1> DEFINE jobs == [job[s] EXCEPT ![m] = [pc |-> pc, list |-> list]]
<1>1. jobs \in [Msgs -> Job] /\ Work(s, jobs)
  BY DEF NextJob
<1>2. \A n \in Msgs : jobs[n] = IF n = m THEN [pc |-> pc, list |-> list] ELSE job[s][n]
  OBVIOUS
<1> HIDE DEF jobs
<1> QED
  BY <1>1, <1>2, WorkShape DEF Goes

LEMMA JobDoneShape ==
    ASSUME sort \in [Sorters -> Sorting], job \in [Sorters -> [Msgs -> Job]],
           NEW s \in Sorters, NEW m \in Msgs, JobDone(s, m)
    PROVE  Goes(s, m, NoJob)
<1> DEFINE jobs == [job[s] EXCEPT ![m] = NoJob]
<1>1. jobs \in [Msgs -> Job] /\ Work(s, jobs)
  BY DEF JobDone, NoJob, Job
<1>2. \A n \in Msgs : jobs[n] = IF n = m THEN NoJob ELSE job[s][n]
  OBVIOUS
<1> HIDE DEF jobs
<1> QED
  BY <1>1, <1>2, WorkShape DEF Goes

\* A decision is written unless a person has filed the message.
LEMMA FileRowShape ==
    ASSUME row \in [Msgs -> Row], by \in [Msgs -> Keys \cup {NoKey}], NEW m \in Msgs,
           NEW d \in Row, NEW key \in Keys \cup {NoKey}, FileRow(m, d, key)
    PROVE  /\ row' \in [Msgs -> Row] /\ by' \in [Msgs -> Keys \cup {NoKey}]
           /\ \A n \in Msgs : row'[n] = IF n = m /\ Open(m) THEN d ELSE row[n]
           /\ \A n \in Msgs : by'[n] = IF n = m /\ Open(m) THEN key ELSE by[n]
BY DEF FileRow

LEMMA DecisionsOK ==
    ASSUME NEW list \in SUBSET Folders, NEW d \in Decisions(list)
    PROVE  /\ d \in Row /\ Coherent(d) /\ ~d.you /\ ~d.pending
           /\ \A f \in Folders : f \in {d.folder, d.suggest} => f \in list
<1>1. CASE d = Unfiled
  BY <1>1, KeysApart DEF Unfiled, Row, Places, Coherent
<1>2. ASSUME NEW g \in list, d = Filed(g) \/ d = Unsure(g)
      PROVE  /\ d \in Row /\ Coherent(d) /\ ~d.you /\ ~d.pending
             /\ \A f \in Folders : f \in {d.folder, d.suggest} => f \in list
  <2>1. \/ d = [folder |-> g, suggest |-> NoFolder, you |-> FALSE, pending |-> FALSE]
        \/ d = [folder |-> NoFolder, suggest |-> g, you |-> FALSE, pending |-> FALSE]
    BY <1>2 DEF Filed, Unsure, Unfiled
  <2>2. g \in Folders
    OBVIOUS
  <2>3. d \in Row
    <3>1. PICK a \in Places, b \in Places :
              d = [folder |-> a, suggest |-> b, you |-> FALSE, pending |-> FALSE]
      BY <2>1, <2>2 DEF Places
    <3> QED
      BY <3>1 DEF Row
  <2>4. Coherent(d) /\ ~d.you /\ ~d.pending
    BY <2>1 DEF Coherent
  <2>5. d.folder \in {g, NoFolder} /\ d.suggest \in {g, NoFolder}
    BY <2>1
  <2> QED
    BY <2>3, <2>4, <2>5, KeysApart
<1> QED
  BY <1>1, <1>2 DEF Decisions

LEMMA FiledOK ==
    ASSUME NEW f \in Places
    PROVE  /\ Filed(f) \in Row /\ Coherent(Filed(f)) /\ ~Filed(f).you /\ ~Filed(f).pending
           /\ Filed(f).folder = f /\ Filed(f).suggest = NoFolder
BY DEF Filed, Unfiled, Row, Places, Coherent
\* The record of a message that is listed is a row.
LEMMA RecordShape ==
    ASSUME undo \in [Keys -> [Msgs -> Row \cup {NoRecord}]], row \in [Msgs -> Row],
           NEW k \in Keys, NEW m \in Msgs, Record(k, m)
    PROVE  /\ undo' \in [Keys -> [Msgs -> Row \cup {NoRecord}]]
           /\ \A l \in Keys, n \in Msgs :
                undo'[l][n] = IF l = k /\ n = m /\ m \in listed /\ undo[k][m] = NoRecord
                              THEN row[m] ELSE undo[l][n]
BY DEF Record

LEMMA ForgetShape ==
    ASSUME undo \in [Keys -> [Msgs -> Row \cup {NoRecord}]], cut \subseteq Keys \X Msgs,
           NEW k \in Keys, Forget(k)
    PROVE  /\ undo' \in [Keys -> [Msgs -> Row \cup {NoRecord}]]
           /\ \A l \in Keys, n \in Msgs :
                undo'[l][n] = IF l = k THEN NoRecord ELSE undo[l][n]
           /\ cut' \subseteq Keys \X Msgs /\ cut \subseteq cut'
           /\ \A s \in Sorters, n \in Msgs :
                sort[s].key = k /\ job[s][n].pc \in Remembered => <<k, n>> \in cut'
BY DEF Forget, Cutting, Remembered

LEMMA FiledByHand ==
    ASSUME NEW f
    PROVE  [Filed(f) EXCEPT !.you = TRUE] =
               [folder |-> f, suggest |-> NoFolder, you |-> TRUE, pending |-> FALSE]
<1>1. ASSUME NEW r, r = Filed(f)
      PROVE  r = [folder |-> f, suggest |-> NoFolder, you |-> FALSE, pending |-> FALSE]
  BY <1>1 DEF Filed, Unfiled
<1>2. ASSUME NEW r, r = [folder |-> f, suggest |-> NoFolder, you |-> FALSE, pending |-> FALSE],
             NEW q, q = [r EXCEPT !.you = TRUE]
      PROVE  q = [folder |-> f, suggest |-> NoFolder, you |-> TRUE, pending |-> FALSE]
  BY <1>2
<1>3. PICK r : r = Filed(f)
  OBVIOUS
<1>4. PICK q : q = [r EXCEPT !.you = TRUE]
  OBVIOUS
<1> QED
  BY <1>1, <1>2, <1>3, <1>4

-----------------------------------------------------------------------------
(* Sorters *)

\* A sorter that goes on with a message leaves its phases in order.
LEMMA PhaseKept ==
    ASSUME TypeOK, PhaseOK, NEW s \in Sorters, NEW m \in Msgs, NEW j \in Job,
           sort[s].pc \in {"idle", "work"}, Goes(s, m, j)
    PROVE  PhaseOK'
<1> SUFFICES ASSUME NEW t \in Sorters
             PROVE  /\ sort'[t].pc = "idle" => sort'[t] = IdleSort
                    /\ sort'[t].pc \in {"idle", "pick"} => \A n \in Msgs : job'[t][n] = NoJob
                    /\ sort'[t].pc = "clear" =>
                         \A n \in Msgs : job'[t][n].pc \in {"none", "own", "remember"}
  BY DEF PhaseOK
<1>1. CASE t = s
  BY <1>1 DEF Goes, IdleSort
<1>2. CASE t # s
  BY <1>2 DEF Goes, PhaseOK
<1> QED
  BY <1>1, <1>2

\* ... and with a key.
LEMMA KeysKept ==
    ASSUME TypeOK, KeysOK, NEW s \in Sorters, NEW m \in Msgs, NEW j \in Job, Goes(s, m, j),
           j.pc \in {"own", "remember"} => sort[s].key \in Keys,
           j.pc = "move" => sort[s].key \in Folders
    PROVE  KeysOK'
<1> SUFFICES ASSUME NEW t \in Sorters
             PROVE  /\ sort'[t].pc = "clear" => sort'[t].key \in Keys
                    /\ \A n \in Msgs :
                         /\ job'[t][n].pc \in {"own", "remember"} => sort'[t].key \in Keys
                         /\ job'[t][n].pc = "move" => sort'[t].key \in Folders
  BY DEF KeysOK
<1>1. CASE t = s
  <2>1. CASE sort'[s].pc = "idle"
    BY <1>1, <2>1 DEF Goes, NoJob
  <2>2. CASE sort'[s].pc = "work" /\ sort'[s].key = sort[s].key
    <3> SUFFICES ASSUME NEW n \in Msgs
                 PROVE  /\ job'[s][n].pc \in {"own", "remember"} => sort[s].key \in Keys
                        /\ job'[s][n].pc = "move" => sort[s].key \in Folders
      BY <1>1, <2>2
    <3>1. job'[s][n] = j \/ job'[s][n] = job[s][n]
      BY DEF Goes
    <3> QED
      BY <3>1 DEF KeysOK
  <2> QED
    BY <2>1, <2>2 DEF Goes
<1>2. CASE t # s
  <2>1. sort'[t] = sort[t] /\ \A n \in Msgs : job'[t][n] = job[t][n]
    BY <1>2 DEF Goes
  <2> QED
    BY <2>1 DEF KeysOK
<1> QED
  BY <1>1, <1>2

\* What its jobs know of deleted folders was known before, if it learns nothing.
LEMMA KnownKept ==
    ASSUME TypeOK, KnownLate, NEW s \in Sorters, NEW m \in Msgs, NEW j \in Job, Goes(s, m, j),
           j.list \cap deleted # {} => m \in late,
           UNCHANGED <<deleted, hand, late>>,
           \A k \in Keys, n \in Msgs, f \in deleted :
               f \in {undo'[k][n].folder, undo'[k][n].suggest} => n \in late
    PROVE  KnownLate'
<1> SUFFICES ASSUME NEW f \in deleted, NEW n \in Msgs
             PROVE  /\ \A t \in Sorters :
                         f \in sort'[t].list \cup job'[t][n].list \cup {sort'[t].key} => n \in late
                    /\ hand.msg = n /\ hand.folder = f => n \in late
                    /\ \A k \in Keys :
                         f \in {undo'[k][n].folder, undo'[k][n].suggest} => n \in late
  BY DEF KnownLate
<1>1. f \in Folders /\ f # NoKey
  BY KeysApart DEF TypeOK, Keys
<1>2. ASSUME NEW t \in Sorters, f \in sort'[t].list \cup job'[t][n].list \cup {sort'[t].key}
      PROVE  n \in late
  <2>1. CASE t # s
    BY <1>2, <2>1 DEF Goes, KnownLate
  <2>2. CASE t = s /\ f \in job'[t][n].list
    BY <2>2 DEF Goes, KnownLate
  <2>3. CASE t = s /\ f = sort'[t].key
    BY <1>1, <2>3 DEF Goes, KnownLate, IdleSort
  <2> QED
    BY <1>2, <2>1, <2>2, <2>3 DEF Goes
<1> QED
  BY <1>2 DEF KnownLate

\* A sorter that goes on with a message, and writes no row.
LEMMA GoesOn ==
    ASSUME IInv, NEW s \in Sorters, NEW m \in Msgs, NEW j \in Job, Goes(s, m, j),
           sort[s].pc \in {"idle", "work"}, job[s][m].pc # "judge",
           j.list \cap deleted # {} => m \in late,
           j.pc \in Remembered => sort[s].key = NoKey \/ job[s][m].pc \in Remembered,
           j.pc \notin {"own", "remember", "move"}, sorts' \in 0..MaxSorts,
           UNCHANGED <<table, listed, row, undo, hand, faults, history>>
    PROVE  IInv'
<1> USE DEF table, history
<1>1. TypeOK'
  BY DEF IInv, TypeOK, Goes, Job, Sorting
<1>2. PhaseOK'
  BY PhaseKept DEF IInv
<1>3. KnownLate'
  <2>1. \A k \in Keys, n \in Msgs, f \in deleted :
           f \in {undo'[k][n].folder, undo'[k][n].suggest} => n \in late
    BY DEF IInv, KnownLate
  <2> QED
    BY <2>1, KnownKept DEF IInv
<1>4. JobRecorded'
  <2> SUFFICES ASSUME NEW t \in Sorters, NEW n \in listed,
                      job'[t][n].pc \in Remembered, sort'[t].key # NoKey
               PROVE  undo[sort'[t].key][n] # NoRecord \/ <<sort'[t].key, n>> \in cut
    BY DEF JobRecorded
  <2>1. n \in Msgs
    BY DEF IInv, TypeOK
  <2>2. sort'[t].key = sort[t].key
    BY DEF Goes, IdleSort
  <2>3. job[t][n].pc \in Remembered
    BY <2>1, <2>2 DEF Goes
  <2> QED
    BY <2>2, <2>3 DEF IInv, JobRecorded
<1>5. PendingIsBeingSorted'
  BY DEF IInv, TypeOK, PendingIsBeingSorted, Goes
<1>6. RecordsOK' /\ YouBy' /\ PersonWins' /\ DanglingAccounted' /\ MovedCanBeUndone'
  BY DEF IInv, RecordsOK, Coherent, YouBy, PersonWins, DanglingAccounted, MovedCanBeUndone
<1>7. KeysOK'
  BY KeysKept DEF IInv
<1> QED
  BY <1>1, <1>2, <1>3, <1>4, <1>5, <1>6, <1>7 DEF IInv
\* A sorter that is done with a message files it, unless a person has.
LEMMA Decided ==
    ASSUME IInv, NEW s \in Sorters, NEW m \in Msgs, NEW d \in Row,
           Coherent(d), ~d.you, ~d.pending, FileRow(m, d, sort[s].key), Goes(s, m, NoJob),
           sort[s].pc = "work", job[s][m].pc \in Remembered,
           \A f \in deleted : f \in {d.folder, d.suggest} => m \in late,
           UNCHANGED <<table, listed, undo, hand, sorts, faults, chosen, late, stuck, cut>>
    PROVE  IInv'
<1> USE DEF table
<1>1. sort[s].key \in Keys \cup {NoKey} /\ NoJob \in Job
  BY DEF IInv, TypeOK, NoJob, Job
<1>2. /\ row' \in [Msgs -> Row] /\ by' \in [Msgs -> Keys \cup {NoKey}]
      /\ \A n \in Msgs : row'[n] = IF n = m /\ Open(m) THEN d ELSE row[n]
      /\ \A n \in Msgs : by'[n] = IF n = m /\ Open(m) THEN sort[s].key ELSE by[n]
  BY <1>1, FileRowShape DEF IInv, TypeOK
<1>3. TypeOK'
  BY <1>2 DEF IInv, TypeOK, Goes, Job, Sorting, Coherent
<1>4. PhaseOK'
  BY <1>1, PhaseKept DEF IInv
<1>5. KnownLate'
  <2>1. \A k \in Keys, n \in Msgs, f \in deleted :
           f \in {undo'[k][n].folder, undo'[k][n].suggest} => n \in late
    BY DEF IInv, KnownLate
  <2>2. NoJob.list \cap deleted = {}
    BY DEF NoJob
  <2> QED
    BY <1>1, <2>1, <2>2, KnownKept DEF IInv
<1>6. YouBy'
  BY <1>2 DEF IInv, TypeOK, YouBy
<1>7. JobRecorded'
  <2> SUFFICES ASSUME NEW t \in Sorters, NEW n \in listed,
                      job'[t][n].pc \in Remembered, sort'[t].key # NoKey
               PROVE  undo[sort'[t].key][n] # NoRecord \/ <<sort'[t].key, n>> \in cut
    BY DEF JobRecorded
  <2>1. n \in Msgs
    BY DEF IInv, TypeOK
  <2>2. sort'[t].key = sort[t].key
    BY DEF Goes, IdleSort
  <2>3. job[t][n].pc \in Remembered
    BY <2>1, <2>2 DEF Goes, NoJob, Remembered
  <2> QED
    BY <2>2, <2>3 DEF IInv, JobRecorded
<1>8. PersonWins'
  BY <1>2 DEF IInv, TypeOK, PersonWins, Open, Filed, Unfiled
<1>9. DanglingAccounted'
  BY <1>2 DEF IInv, TypeOK, DanglingAccounted
<1>10. MovedCanBeUndone'
  BY <1>2 DEF IInv, TypeOK, MovedCanBeUndone, JobRecorded
<1>11. PendingIsBeingSorted'
  <2> SUFFICES ASSUME NEW n \in listed, row'[n].pending, n \notin stuck
               PROVE  \E t \in Sorters : job'[t][n].pc = "judge"
    BY DEF PendingIsBeingSorted
  <2>1. n \in Msgs
    BY DEF IInv, TypeOK
  <2>2. row[n].pending /\ ~(n = m /\ Open(m))
    BY <1>2, <2>1
  <2>3. n # m
    BY <2>1, <2>2 DEF Open, IInv, TypeOK
  <2> QED
    BY <2>1, <2>2, <2>3 DEF IInv, PendingIsBeingSorted, Goes
<1>12. RecordsOK'
  BY DEF IInv, RecordsOK, Coherent
<1>13. KeysOK'
  <2>1. NoJob.pc = "none"
    BY DEF NoJob
  <2> QED
    BY <1>1, <2>1, KeysKept DEF IInv
<1> QED
  BY <1>3, <1>4, <1>5, <1>6, <1>7, <1>8, <1>9, <1>10, <1>11, <1>12, <1>13 DEF IInv

\* What a sorter with work knows of deleted folders was known when they were
\* deleted.
LEMMA JobKnown ==
    ASSUME IInv, NEW s \in Sorters, NEW m \in Msgs
    PROVE  /\ \A f \in deleted : f \in Folders /\ f # NoKey
           /\ \A f \in deleted : f \in job[s][m].list \cup {sort[s].key} => m \in late
           /\ sort[s].key \in Keys \cup {NoKey} /\ job[s][m] \in Job /\ job[s][m].list \subseteq Folders
BY KeysApart DEF IInv, TypeOK, KnownLate, Job, Keys

LEMMA DecidedSteps ==
    ASSUME IInv, NEW s \in Sorters, NEW m \in Msgs,
           Move(s, m) \/ FileByAddress(s, m) \/ Judge(s, m)
    PROVE  IInv'
<1>1. Goes(s, m, NoJob)
  BY JobDoneShape DEF IInv, TypeOK, Job, Sorting, Move, FileByAddress, Judge
<1>2. CASE Move(s, m)
  <2> DEFINE k == sort[s].key
  <2>1. k \in Folders /\ k \in Places
    BY <1>2 DEF Move, Doing, IInv, KeysOK, Places
  <2>2. /\ Filed(k) \in Row /\ Coherent(Filed(k)) /\ ~Filed(k).you /\ ~Filed(k).pending
        /\ Filed(k).folder = k /\ Filed(k).suggest = NoFolder
    BY <2>1, FiledOK
  <2>3. \A f \in deleted : f \in {Filed(k).folder, Filed(k).suggest} => m \in late
    BY <2>2, JobKnown, KeysApart
  <2>4. FileRow(m, Filed(k), sort[s].key)
    BY <1>2 DEF Move
  <2>5. sort[s].pc = "work" /\ job[s][m].pc \in Remembered
    BY <1>2 DEF Move, Doing, Remembered
  <2>6. UNCHANGED <<table, listed, undo, hand, sorts, faults, chosen, late, stuck, cut>>
    BY <1>2 DEF Move
  <2> HIDE DEF k
  <2> QED
    BY <1>1, <2>2, <2>3, <2>4, <2>5, <2>6, Decided
<1>3. CASE FileByAddress(s, m)
  <2>1. PICK g \in job[s][m].list : FileRow(m, Filed(g), sort[s].key)
    BY <1>3 DEF FileByAddress
  <2>2. /\ Filed(g) \in Row /\ Coherent(Filed(g)) /\ ~Filed(g).you /\ ~Filed(g).pending
        /\ Filed(g).folder = g /\ Filed(g).suggest = NoFolder
    BY JobKnown, FiledOK DEF Places
  <2>3. \A f \in deleted : f \in {Filed(g).folder, Filed(g).suggest} => m \in late
    BY <2>2, JobKnown, KeysApart
  <2>4. sort[s].pc = "work" /\ job[s][m].pc \in Remembered
    BY <1>3 DEF FileByAddress, Doing, Remembered
  <2>5. UNCHANGED <<table, listed, undo, hand, sorts, faults, chosen, late, stuck, cut>>
    BY <1>3 DEF FileByAddress
  <2> QED
    BY <1>1, <2>1, <2>2, <2>3, <2>4, <2>5, Decided
<1>4. CASE Judge(s, m)
  <2>1. PICK d \in Decisions(job[s][m].list) : FileRow(m, d, sort[s].key)
    BY <1>4 DEF Judge
  <2>2. /\ d \in Row /\ Coherent(d) /\ ~d.you /\ ~d.pending
        /\ \A f \in Folders : f \in {d.folder, d.suggest} => f \in job[s][m].list
    BY JobKnown, DecisionsOK
  <2>3. \A f \in deleted : f \in {d.folder, d.suggest} => m \in late
    BY <2>2, JobKnown
  <2>4. sort[s].pc = "work" /\ job[s][m].pc \in Remembered
    BY <1>4 DEF Judge, Doing, Remembered
  <2>5. UNCHANGED <<table, listed, undo, hand, sorts, faults, chosen, late, stuck, cut>>
    BY <1>4 DEF Judge
  <2> QED
    BY <1>1, <2>1, <2>2, <2>3, <2>4, <2>5, Decided
<1> QED
  BY <1>2, <1>3, <1>4
\* Mark, when no folder has a rule.
GiveUp(s, m) ==
    /\ Doing(s, m, "mark") /\ JobDone(s, m)
    /\ UNCHANGED <<table, listed, row, undo, hand, sorts, faults, history>>

\* The steps of a sorter that write nothing.
LEMMA QuietSteps ==
    ASSUME IInv, NEW s \in Sorters, NEW m \in Msgs,
           \/ SortOne(s, m)
           \/ LeaveOut(s, m)
           \/ List(s, m)
           \/ GiveUp(s, m)
    PROVE  IInv'
<1> USE DEF Job, Remembered
<1>0. sort \in [Sorters -> Sorting] /\ job \in [Sorters -> [Msgs -> Job]]
      /\ folders \subseteq Folders /\ folders \cap deleted = {} /\ NoJob \in Job
      /\ NoJob.pc = "none" /\ NoJob.list = {}
      /\ sorts \in 0..MaxSorts
  BY DEF IInv, TypeOK, Sorting, NoJob
<1>1. CASE SortOne(s, m)
  <2> DEFINE j == [pc |-> "list", list |-> {}]
  <2>1. j \in Job /\ Goes(s, m, j)
    BY <1>0, <1>1, NextJobShape DEF SortOne
  <2>2. sort[s].pc = "idle" /\ sort[s].key = NoKey /\ job[s][m].pc # "judge"
    BY <1>0, <1>1 DEF SortOne, IInv, PhaseOK, IdleSort
  <2>3. sorts' \in 0..MaxSorts
    BY <1>0, <1>1, BoundsAssumption DEF SortOne
  <2>4. UNCHANGED <<table, listed, row, undo, hand, faults, history>>
    BY <1>1 DEF SortOne
  <2>5. j.pc = "list" /\ j.list = {}
    OBVIOUS
  <2> HIDE DEF j
  <2> QED
    BY <2>1, <2>2, <2>3, <2>4, <2>5, GoesOn
<1>2. CASE List(s, m) /\ folders # {}
  <2> DEFINE j == [pc |-> "mark", list |-> folders]
  <2>1. j \in Job /\ Goes(s, m, j)
    BY <1>0, <1>2, NextJobShape DEF List
  <2>2. sort[s].pc = "work" /\ job[s][m].pc = "list"
    BY <1>2 DEF List, Doing
  <2>3. UNCHANGED <<table, listed, row, undo, hand, sorts, faults, history>>
    BY <1>2 DEF List
  <2>4. j.pc = "mark" /\ j.list \cap deleted = {}
    BY <1>0
  <2> HIDE DEF j
  <2> QED
    BY <1>0, <2>1, <2>2, <2>3, <2>4, GoesOn
<1>3. CASE \/ LeaveOut(s, m)
           \/ List(s, m) /\ folders = {}
           \/ GiveUp(s, m)
  <2>1. Goes(s, m, NoJob)
    BY <1>0, <1>3, JobDoneShape DEF LeaveOut, List, GiveUp
  <2>2. sort[s].pc = "work" /\ job[s][m].pc # "judge"
    BY <1>3 DEF LeaveOut, List, GiveUp, Doing
  <2>3. UNCHANGED <<table, listed, row, undo, hand, sorts, faults, history>>
    BY <1>3 DEF LeaveOut, List, GiveUp
  <2> QED
    BY <1>0, <2>1, <2>2, <2>3, GoesOn
<1> QED
  BY <1>1, <1>2, <1>3

\* A message shown as being sorted.
LEMMA MarkStep ==
    ASSUME IInv, NEW s \in Sorters, NEW m \in Msgs, Mark(s, m)
    PROVE  IInv'
<1>1. CASE JobDone(s, m) /\ UNCHANGED row
  <2>1. GiveUp(s, m)
    BY <1>1 DEF Mark, GiveUp
  <2> QED
    BY <2>1, QuietSteps
<1>2. CASE /\ Open(m) /\ row' = [row EXCEPT ![m].pending = TRUE]
           /\ NextJob(s, m, "judge", job[s][m].list)
  <2> USE DEF table, history
  <2> DEFINE j == [pc |-> "judge", list |-> job[s][m].list]
  <2>1. sort[s].pc = "work" /\ job[s][m].pc = "mark"
    BY DEF Mark, Doing
  <2>2. j \in Job /\ Goes(s, m, j)
    BY <1>2, NextJobShape DEF IInv, TypeOK, Job, Sorting
  <2>3. j.pc = "judge" /\ j.list = job[s][m].list
    OBVIOUS
  <2>4. UNCHANGED <<table, listed, undo, hand, sorts, faults, history>>
    BY DEF Mark
  <2>5. /\ row' \in [Msgs -> Row]
        /\ \A n \in Msgs : n # m => row'[n] = row[n]
        /\ row'[m].folder = row[m].folder /\ row'[m].suggest = row[m].suggest
        /\ ~row'[m].you /\ ~row[m].you
    <3> DEFINE r == [row[m] EXCEPT !.pending = TRUE]
    <3>1. row \in [Msgs -> Row] /\ row' = [row EXCEPT ![m] = r]
      BY <1>2 DEF IInv, TypeOK
    <3>2. r \in Row /\ r.folder = row[m].folder /\ r.suggest = row[m].suggest /\ r.you = row[m].you
      BY <3>1 DEF Row
    <3>3. ~row[m].you
      BY <1>2 DEF Open
    <3> HIDE DEF r
    <3> QED
      BY <3>1, <3>2, <3>3
  <2> HIDE DEF j
  <2>6. TypeOK'
    <3>1. sort' \in [Sorters -> Sorting] /\ job' \in [Sorters -> [Msgs -> Job]]
      BY <2>2 DEF Goes
    <3>2. \A n \in Msgs : /\ row'[n].folder = NoFolder \/ row'[n].suggest = NoFolder
                          /\ ~(row'[n].you /\ row'[n].pending)
      BY <2>5 DEF IInv, TypeOK
    <3> QED
      BY <2>4, <2>5, <3>1, <3>2 DEF IInv, TypeOK, Job, Sorting
  <2>7. PhaseOK' /\ KeysOK'
    BY <2>1, <2>2, <2>3, PhaseKept, KeysKept DEF IInv
  <2>8. KnownLate'
    <3>1. \A k \in Keys, n \in Msgs, f \in deleted :
             f \in {undo'[k][n].folder, undo'[k][n].suggest} => n \in late
      BY <2>4 DEF IInv, KnownLate
    <3> QED
      BY <2>2, <2>3, <2>4, <3>1, KnownKept, JobKnown DEF IInv
  <2>9. JobRecorded'
    <3> SUFFICES ASSUME NEW t \in Sorters, NEW n \in listed,
                        job'[t][n].pc \in Remembered, sort'[t].key # NoKey
                 PROVE  undo[sort'[t].key][n] # NoRecord \/ <<sort'[t].key, n>> \in cut
      BY <2>4 DEF JobRecorded
    <3>1. n \in Msgs
      BY DEF IInv, TypeOK
    <3>2. sort'[t].key = sort[t].key
      BY <2>2 DEF Goes, IdleSort
    <3>3. job[t][n].pc \in Remembered
      BY <2>1, <2>2, <3>1 DEF Goes, Remembered
    <3> QED
      BY <3>2, <3>3 DEF IInv, JobRecorded
  <2>10. PendingIsBeingSorted'
    <3> SUFFICES ASSUME NEW n \in listed, row'[n].pending, n \notin stuck
                 PROVE  \E t \in Sorters : job'[t][n].pc = "judge"
      BY <2>4 DEF PendingIsBeingSorted
    <3>1. CASE n = m
      BY <2>2, <2>3, <3>1 DEF Goes
    <3>2. CASE n # m
      BY <2>2, <2>5, <3>2 DEF IInv, TypeOK, PendingIsBeingSorted, Goes
    <3> QED
      BY <3>1, <3>2
  <2>11. PersonWins'
    BY <2>4, <2>5 DEF IInv, TypeOK, PersonWins, Filed, Unfiled
  <2>12. RecordsOK' /\ YouBy' /\ DanglingAccounted' /\ MovedCanBeUndone'
    BY <2>4, <2>5
       DEF IInv, TypeOK, RecordsOK, Coherent, YouBy, DanglingAccounted, MovedCanBeUndone
  <2> QED
    BY <2>6, <2>7, <2>8, <2>9, <2>10, <2>11, <2>12 DEF IInv
<1> QED
  BY <1>1, <1>2 DEF Mark

\* A message is remembered before it is moved.
LEMMA RememberStep ==
    ASSUME IInv, NEW s \in Sorters, NEW m \in Msgs, Remember(s, m)
    PROVE  IInv'
<1> USE DEF table, history
<1> DEFINE k == sort[s].key
<1>1. sort[s].pc = "work" /\ job[s][m].pc \in {"own", "remember"} /\ k \in Keys
  BY DEF Remember, Doing, IInv, KeysOK
<1>2. UNCHANGED <<table, listed, row, hand, sorts, faults, history>>
  BY DEF Remember
<1>3. PICK j \in Job : /\ Goes(s, m, j) /\ j.pc \in {"list", "mark", "move"}
                       /\ j.pc = "move" => k \in Folders
                       /\ j.list \subseteq job[s][m].list
  <2>1. CASE job[s][m].pc = "own"
    <3>1. NextJob(s, m, "list", {}) /\ [pc |-> "list", list |-> {}] \in Job
      BY <2>1 DEF Remember, Doing, Job
    <3>2. Goes(s, m, [pc |-> "list", list |-> {}])
      BY <3>1, NextJobShape DEF IInv, TypeOK, Job, Sorting
    <3> QED
      BY <3>1, <3>2
  <2>2. CASE job[s][m].pc = "remember"
    <3> DEFINE pc == IF k = All THEN "mark" ELSE "move"
    <3>1. NextJob(s, m, pc, job[s][m].list)
      BY <2>2 DEF Remember, Doing
    <3>2. pc \in {"mark", "move"} /\ [pc |-> pc, list |-> job[s][m].list] \in Job
      BY JobKnown DEF Job
    <3>3. Goes(s, m, [pc |-> pc, list |-> job[s][m].list])
      BY <3>1, <3>2, NextJobShape DEF IInv, TypeOK, Job, Sorting
    <3>4. pc = "move" => k \in Folders
      BY <1>1 DEF Keys
    <3> HIDE DEF pc
    <3> QED
      BY <3>2, <3>3, <3>4
  <2> QED
    BY <1>1, <2>1, <2>2
<1>4. /\ undo' \in [Keys -> [Msgs -> Row \cup {NoRecord}]]
      /\ \A l \in Keys, n \in Msgs :
           undo'[l][n] = IF l = k /\ n = m /\ m \in listed /\ undo[k][m] = NoRecord
                         THEN row[m] ELSE undo[l][n]
  <2>1. Record(k, m)
    BY DEF Remember
  <2> HIDE DEF k
  <2> QED
    BY <1>1, <2>1, RecordShape DEF IInv, TypeOK
<1>5. \A n \in Msgs : row[n] # NoRecord /\ Coherent(row[n])
  BY DEF IInv, TypeOK, NoRecord, Coherent
<1> HIDE DEF k
<1>6. TypeOK'
  <2>1. sort' \in [Sorters -> Sorting] /\ job' \in [Sorters -> [Msgs -> Job]]
    BY <1>3 DEF Goes
  <2> QED
    BY <1>2, <1>4, <2>1 DEF IInv, TypeOK, Job, Sorting
<1>7. RecordsOK'
  BY <1>4, <1>5 DEF IInv, RecordsOK, Coherent
<1>8. PhaseOK' /\ KeysOK'
  BY <1>1, <1>3, PhaseKept, KeysKept DEF IInv, k
<1>9. KnownLate'
  <2>1. \A l \in Keys, n \in Msgs, f \in deleted :
           f \in {undo'[l][n].folder, undo'[l][n].suggest} => n \in late
    BY <1>4 DEF IInv, KnownLate, DanglingAccounted
  <2>2. j.list \cap deleted # {} => m \in late
    BY <1>3, JobKnown
  <2> QED
    BY <1>2, <1>3, <2>1, <2>2, KnownKept DEF IInv
<1>10. JobRecorded'
  <2> SUFFICES ASSUME NEW t \in Sorters, NEW n \in listed,
                      job'[t][n].pc \in Remembered, sort'[t].key # NoKey
               PROVE  undo'[sort'[t].key][n] # NoRecord \/ <<sort'[t].key, n>> \in cut
    BY <1>2 DEF JobRecorded
  <2> sort'[t].key = sort[t].key
    BY <1>3 DEF Goes, IdleSort
  <2>1. n \in Msgs /\ sort'[t].key = sort[t].key /\ sort[t].key \in Keys
    BY DEF IInv, TypeOK
  <2>2. CASE t = s /\ n = m
    BY <1>4, <1>5, <2>1, <2>2 DEF k
  <2>3. CASE ~(t = s /\ n = m)
    <3>1. job[t][n].pc \in Remembered
      BY <1>3, <2>1, <2>3 DEF Goes
    <3>2. undo[sort[t].key][n] # NoRecord \/ <<sort[t].key, n>> \in cut
      BY <2>1, <3>1 DEF IInv, JobRecorded
    <3> QED
      BY <1>4, <1>5, <2>1, <3>2
  <2> QED
    BY <2>2, <2>3
<1>11. MovedCanBeUndone'
  BY <1>2, <1>4, <1>5 DEF IInv, TypeOK, MovedCanBeUndone
<1>12. PendingIsBeingSorted'
  <2> SUFFICES ASSUME NEW n \in listed, row[n].pending, n \notin stuck
               PROVE  \E t \in Sorters : job'[t][n].pc = "judge"
    BY <1>2 DEF PendingIsBeingSorted
  <2>1. n \in Msgs
    BY DEF IInv, TypeOK
  <2>2. PICK t \in Sorters : job[t][n].pc = "judge"
    BY DEF IInv, PendingIsBeingSorted
  <2>3. job'[t][n] = job[t][n]
    BY <1>1, <1>3, <2>1, <2>2 DEF Goes
  <2> QED
    BY <2>2, <2>3
<1>13. YouBy' /\ PersonWins' /\ DanglingAccounted'
  BY <1>2 DEF IInv, YouBy, PersonWins, DanglingAccounted
<1> QED
  BY <1>6, <1>7, <1>8, <1>9, <1>10, <1>11, <1>12, <1>13 DEF IInv
\* What a sorter's own state does not touch.
LEMMA SorterOnly ==
    ASSUME IInv, sort' \in [Sorters -> Sorting], job' \in [Sorters -> [Msgs -> Job]],
           sorts' \in 0..MaxSorts, faults' \in 0..MaxFaults, stuck' \in SUBSET Msgs,
           UNCHANGED <<table, listed, row, undo, hand, chosen, late, by, cut>>
    PROVE  /\ TypeOK' /\ RecordsOK' /\ YouBy' /\ PersonWins' /\ DanglingAccounted'
           /\ MovedCanBeUndone'
<1> USE DEF table
<1>1. TypeOK'
  BY DEF IInv, TypeOK, Job, Sorting
<1>2. RecordsOK' /\ YouBy' /\ PersonWins' /\ DanglingAccounted' /\ MovedCanBeUndone'
  BY DEF IInv, RecordsOK, Coherent, YouBy, PersonWins, DanglingAccounted, MovedCanBeUndone
<1> QED
  BY <1>1, <1>2

\* A sort begins.
LEMMA BeginSteps ==
    ASSUME IInv, NEW s \in Sorters,
           \/ \E key \in {All, NoKey} : SortRecent(s, key)
           \/ \E f \in Folders : SortInto(s, f)
    PROVE  IInv'
<1> USE DEF table, history
<1>1. PICK key \in Keys \cup {NoKey}, list \in SUBSET Folders :
           /\ sort' = [sort EXCEPT ![s] = [pc |-> "pick", key |-> key, list |-> list]]
           /\ list \cap deleted = {} /\ key \notin deleted
  BY KeysApart DEF SortRecent, SortInto, IInv, TypeOK, Keys
<1>2. /\ sort[s].pc = "idle" /\ sorts' = sorts + 1 /\ sorts < MaxSorts
      /\ UNCHANGED <<table, listed, row, undo, job, hand, faults, history>>
  BY DEF SortRecent, SortInto
<1>3. sorts' \in 0..MaxSorts
  BY <1>2, BoundsAssumption DEF IInv, TypeOK
<1>4. sort \in [Sorters -> Sorting] /\ job \in [Sorters -> [Msgs -> Job]]
  BY DEF IInv, TypeOK, Job, Sorting
<1>5. /\ sort' \in [Sorters -> Sorting] /\ \A t \in Sorters : t # s => sort'[t] = sort[t]
      /\ sort'[s].pc = "pick" /\ sort'[s].key = key /\ sort'[s].list = list
  BY <1>1, <1>4 DEF Sorting
<1>6. \A m \in Msgs : job[s][m] = NoJob
  BY <1>2 DEF IInv, PhaseOK
<1>7. /\ TypeOK' /\ RecordsOK' /\ YouBy' /\ PersonWins' /\ DanglingAccounted'
      /\ MovedCanBeUndone'
  BY <1>2, <1>3, <1>4, <1>5, SorterOnly DEF IInv, TypeOK
<1>8. PhaseOK'
  BY <1>2, <1>5, <1>6 DEF IInv, PhaseOK
<1>9. KeysOK'
  BY <1>2, <1>5, <1>6 DEF IInv, KeysOK, NoJob
<1>10. KnownLate'
  BY <1>1, <1>2, <1>5 DEF IInv, KnownLate
<1>11. JobRecorded'
  <2> SUFFICES ASSUME NEW t \in Sorters, NEW n \in listed,
                      job[t][n].pc \in Remembered, sort'[t].key # NoKey
               PROVE  undo[sort'[t].key][n] # NoRecord \/ <<sort'[t].key, n>> \in cut
    BY <1>2 DEF JobRecorded
  <2>1. t # s
    BY <1>6 DEF NoJob, Remembered, IInv, TypeOK
  <2> QED
    BY <1>5, <2>1 DEF IInv, JobRecorded
<1>12. PendingIsBeingSorted'
  BY <1>2 DEF IInv, PendingIsBeingSorted
<1> QED
  BY <1>7, <1>8, <1>9, <1>10, <1>11, <1>12 DEF IInv

\* The new records know no more of deleted folders ...
StillKnown ==
    \A k \in Keys, n \in Msgs, f \in deleted :
        f \in {undo'[k][n].folder, undo'[k][n].suggest} => n \in late

\* ... and have what the sorters remembered.
StillRecorded ==
    \A t \in Sorters, n \in listed :
        job[t][n].pc \in Remembered /\ sort[t].key # NoKey =>
            undo'[sort[t].key][n] # NoRecord \/ <<sort[t].key, n>> \in cut'

\* When the records of a key are forgotten, the jobs they were for are cut.
LEMMA ForgetKept ==
    ASSUME IInv, NEW k \in Keys, Forget(k)
    PROVE  RecordsOK' /\ StillKnown /\ StillRecorded
<1>1. /\ \A l \in Keys, n \in Msgs : undo'[l][n] = IF l = k THEN NoRecord ELSE undo[l][n]
      /\ cut \subseteq cut'
      /\ \A s \in Sorters, n \in Msgs :
           sort[s].key = k /\ job[s][n].pc \in Remembered => <<k, n>> \in cut'
  BY ForgetShape DEF IInv, TypeOK
<1>2. RecordsOK'
  BY <1>1 DEF IInv, RecordsOK, Coherent
<1>3. StillKnown
  <2> SUFFICES ASSUME NEW l \in Keys, NEW n \in Msgs, NEW f \in deleted,
                      f \in {undo'[l][n].folder, undo'[l][n].suggest}
               PROVE  n \in late
    BY DEF StillKnown
  <2>1. f # NoFolder
    BY KeysApart DEF IInv, TypeOK
  <2>2. l # k
    BY <1>1, <2>1 DEF NoRecord
  <2> QED
    BY <1>1, <2>2 DEF IInv, KnownLate
<1>4. StillRecorded
  <2> SUFFICES ASSUME NEW t \in Sorters, NEW n \in listed,
                      job[t][n].pc \in Remembered, sort[t].key # NoKey
               PROVE  undo'[sort[t].key][n] # NoRecord \/ <<sort[t].key, n>> \in cut'
    BY DEF StillRecorded
  <2>1. n \in Msgs /\ sort[t].key \in Keys
    BY DEF IInv, TypeOK
  <2>2. undo[sort[t].key][n] # NoRecord \/ <<sort[t].key, n>> \in cut
    BY DEF IInv, JobRecorded
  <2> QED
    BY <1>1, <2>1, <2>2
<1> QED
  BY <1>2, <1>3, <1>4

\* A sorter's jobs are replaced, all at once.
Replaced(s, jobs) ==
    /\ job' \in [Sorters -> [Msgs -> Job]] /\ sort' \in [Sorters -> Sorting]
    /\ job'[s] = jobs
    /\ \A t \in Sorters : t # s => job'[t] = job[t] /\ sort'[t] = sort[t]
    /\ sort'[s].list = {}
    /\ \/ sort'[s].pc = "idle" /\ sort'[s] = IdleSort /\ \A n \in Msgs : jobs[n] = NoJob
       \/ sort'[s].pc = "work" /\ sort'[s].key = sort[s].key
       \/ /\ sort'[s].pc = "clear" /\ sort'[s].key = sort[s].key /\ sort[s].key \in Keys
          /\ \A n \in Msgs : jobs[n].pc \in {"none", "own", "remember"}

\* ... with jobs that know no more folders and have nothing remembered.
LEMMA ReplacedKept ==
    ASSUME IInv, NEW s \in Sorters, NEW jobs \in [Msgs -> Job], Replaced(s, jobs),
           \A n \in Msgs : jobs[n].list \subseteq sort[s].list \cup job[s][n].list,
           \A n \in Msgs : jobs[n].pc \in Remembered => sort[s].key = NoKey,
           \A n \in Msgs : jobs[n].pc \in {"own", "remember"} => sort[s].key \in Keys,
           \A n \in Msgs : jobs[n].pc # "move",
           UNCHANGED <<deleted, hand, late, listed>>
    PROVE  /\ PhaseOK' /\ KeysOK'
           /\ StillKnown => KnownLate'
           /\ StillRecorded => JobRecorded'
<1>1. PhaseOK'
  <2> SUFFICES ASSUME NEW t \in Sorters
               PROVE  /\ sort'[t].pc = "idle" => sort'[t] = IdleSort
                      /\ sort'[t].pc \in {"idle", "pick"} => \A n \in Msgs : job'[t][n] = NoJob
                      /\ sort'[t].pc = "clear" =>
                           \A n \in Msgs : job'[t][n].pc \in {"none", "own", "remember"}
    BY DEF PhaseOK
  <2>1. CASE t = s
    BY <2>1 DEF Replaced, IdleSort
  <2>2. CASE t # s
    BY <2>2 DEF Replaced, IInv, PhaseOK
  <2> QED
    BY <2>1, <2>2
<1>2. KeysOK'
  <2> SUFFICES ASSUME NEW t \in Sorters
               PROVE  /\ sort'[t].pc = "clear" => sort'[t].key \in Keys
                      /\ \A n \in Msgs :
                           /\ job'[t][n].pc \in {"own", "remember"} => sort'[t].key \in Keys
                           /\ job'[t][n].pc = "move" => sort'[t].key \in Folders
    BY DEF KeysOK
  <2>1. CASE t = s
    BY <2>1 DEF Replaced, NoJob, IdleSort
  <2>2. CASE t # s
    BY <2>2 DEF Replaced, IInv, KeysOK
  <2> QED
    BY <2>1, <2>2
<1>3. ASSUME StillKnown PROVE KnownLate'
  <2> SUFFICES ASSUME NEW f \in deleted, NEW n \in Msgs, NEW t \in Sorters,
                      f \in sort'[t].list \cup job'[t][n].list \cup {sort'[t].key}
               PROVE  n \in late
    BY <1>3 DEF KnownLate, IInv, StillKnown
  <2>1. f # NoKey
    BY JobKnown
  <2>2. CASE t # s
    BY <2>2 DEF Replaced, IInv, KnownLate
  <2>3. CASE t = s
    <3>1. f \in jobs[n].list \/ f = sort[s].key
      BY <2>1, <2>3 DEF Replaced, IdleSort
    <3> QED
      BY <3>1 DEF IInv, KnownLate
  <2> QED
    BY <2>2, <2>3
<1>4. ASSUME StillRecorded PROVE JobRecorded'
  <2> SUFFICES ASSUME NEW t \in Sorters, NEW n \in listed,
                      job'[t][n].pc \in Remembered, sort'[t].key # NoKey
               PROVE  undo'[sort'[t].key][n] # NoRecord \/ <<sort'[t].key, n>> \in cut'
    BY <1>4 DEF JobRecorded
  <2>1. n \in Msgs
    BY DEF IInv, TypeOK
  <2>2. CASE t = s
    BY <2>1, <2>2 DEF Replaced, IdleSort
  <2>3. CASE t # s
    BY <1>4, <2>3 DEF Replaced, StillRecorded
  <2> QED
    BY <2>2, <2>3
<1> QED
  BY <1>1, <1>2, <1>3, <1>4
LEMMA UndoUntouched ==
    ASSUME IInv, UNCHANGED <<undo, cut>>
    PROVE  StillKnown /\ StillRecorded
BY DEF IInv, KnownLate, JobRecorded, StillKnown, StillRecorded

\* A sort has its messages.
LEMMA PickStep ==
    ASSUME IInv, NEW s \in Sorters, Pick(s)
    PROVE  IInv'
<1> USE DEF table, history
<1>1. sort[s].pc = "pick" /\ UNCHANGED <<table, listed, row, undo, hand, sorts, faults, history>>
  BY DEF Pick
<1>2. PICK todo \in SUBSET {m \in Msgs : Open(m)} :
         LET jobs == [m \in Msgs |-> IF m \in todo THEN FirstJob(s, m) ELSE NoJob] IN
         \/ sort[s].key = NoKey /\ Work(s, jobs)
         \/ /\ sort[s].key # NoKey
            /\ sort' = [sort EXCEPT ![s].pc = "clear", ![s].list = {}]
            /\ job' = [job EXCEPT ![s] = jobs]
  BY DEF Pick
<1> DEFINE jobs == [m \in Msgs |-> IF m \in todo THEN FirstJob(s, m) ELSE NoJob]
<1>3. sort \in [Sorters -> Sorting] /\ job \in [Sorters -> [Msgs -> Job]]
  BY DEF IInv, TypeOK, Job, Sorting
<1>4. \A m \in Msgs : /\ FirstJob(s, m) \in Job /\ FirstJob(s, m).list \subseteq sort[s].list
                      /\ FirstJob(s, m).pc \in {"own", "remember", "mark"}
                      /\ FirstJob(s, m).pc = "mark" <=> sort[s].key = NoKey
  BY <1>3 DEF FirstJob, Job, Sorting
<1>5. /\ jobs \in [Msgs -> Job]
      /\ \A m \in Msgs : /\ jobs[m].list \subseteq sort[s].list
                         /\ jobs[m].pc \in {"none", "own", "remember", "mark"}
                         /\ jobs[m].pc = "mark" => sort[s].key = NoKey
                         /\ jobs[m].pc \in {"own", "remember"} => sort[s].key # NoKey
  BY <1>4 DEF NoJob, Job
<1>6. Replaced(s, jobs)
  <2>1. CASE sort[s].key = NoKey /\ Work(s, jobs)
    <3> HIDE DEF jobs
    <3> QED
      BY <1>3, <1>5, <2>1, WorkShape DEF Replaced
  <2>2. CASE /\ sort[s].key # NoKey
             /\ sort' = [sort EXCEPT ![s].pc = "clear", ![s].list = {}]
             /\ job' = [job EXCEPT ![s] = jobs]
    <3> DEFINE w == [sort[s] EXCEPT !.pc = "clear", !.list = {}]
    <3>1. sort' = [sort EXCEPT ![s] = w]
      BY <1>3, <2>2
    <3>2. w \in Sorting /\ w.pc = "clear" /\ w.list = {} /\ w.key = sort[s].key
      BY <1>3 DEF Sorting
    <3>3. sort[s].key \in Keys
      BY <1>3, <2>2 DEF Sorting
    <3>4. \A n \in Msgs : jobs[n].pc \in {"none", "own", "remember"}
      <4> HIDE DEF jobs
      <4> QED
        BY <1>5, <2>2
    <3> HIDE DEF w, jobs
    <3> QED
      BY <1>3, <1>5, <2>2, <3>1, <3>2, <3>3, <3>4 DEF Replaced
  <2> QED
    BY <1>2, <2>1, <2>2
<1>7. sort[s].key # NoKey => sort[s].key \in Keys
  BY <1>3 DEF Sorting
<1> HIDE DEF jobs
<1>8. sort' \in [Sorters -> Sorting] /\ job' \in [Sorters -> [Msgs -> Job]]
  BY <1>6 DEF Replaced
<1>9. /\ TypeOK' /\ RecordsOK' /\ YouBy' /\ PersonWins' /\ DanglingAccounted'
      /\ MovedCanBeUndone'
  BY <1>1, <1>8, SorterOnly DEF IInv, TypeOK
<1>10. StillKnown /\ StillRecorded
  BY <1>1, UndoUntouched
<1>11. PhaseOK' /\ KeysOK' /\ KnownLate' /\ JobRecorded'
  <2>1. \A n \in Msgs : /\ jobs[n].list \subseteq sort[s].list \cup job[s][n].list
                        /\ jobs[n].pc \in Remembered => sort[s].key = NoKey
                        /\ jobs[n].pc \in {"own", "remember"} => sort[s].key \in Keys
                        /\ jobs[n].pc # "move"
    BY <1>5, <1>7 DEF Remembered
  <2>2. jobs \in [Msgs -> Job] /\ UNCHANGED <<deleted, hand, late, listed>>
    BY <1>1, <1>5
  <2> QED
    BY <1>6, <1>10, <2>1, <2>2, ReplacedKept
<1>12. PendingIsBeingSorted'
  <2> SUFFICES ASSUME NEW n \in listed, row[n].pending, n \notin stuck
               PROVE  \E t \in Sorters : job'[t][n].pc = "judge"
    BY <1>1 DEF PendingIsBeingSorted
  <2>1. n \in Msgs
    BY DEF IInv, TypeOK
  <2>2. PICK t \in Sorters : job[t][n].pc = "judge"
    BY DEF IInv, PendingIsBeingSorted
  <2>3. t # s
    BY <1>1, <2>1, <2>2 DEF IInv, PhaseOK, NoJob
  <2> QED
    BY <1>6, <2>2, <2>3 DEF Replaced
<1> QED
  BY <1>9, <1>11, <1>12 DEF IInv

\* The records of the sort before are cleared.
LEMMA ClearStep ==
    ASSUME IInv, NEW s \in Sorters, Clear(s)
    PROVE  IInv'
<1> USE DEF table
<1> DEFINE k == sort[s].key
<1>1. /\ sort[s].pc = "clear" /\ k \in Keys /\ k # NoKey /\ Forget(k)
      /\ Work(s, job[s])
      /\ by' = [m \in Msgs |-> IF by[m] = k THEN NoKey ELSE by[m]]
      /\ UNCHANGED <<table, listed, row, hand, sorts, faults, chosen, late, stuck>>
  BY KeysApart DEF Clear, IInv, KeysOK
<1>2. /\ sort \in [Sorters -> Sorting] /\ job \in [Sorters -> [Msgs -> Job]]
      /\ by \in [Msgs -> Keys \cup {NoKey}]
  BY DEF IInv, TypeOK, Job, Sorting
<1>3. Replaced(s, job[s])
  BY <1>1, <1>2, WorkShape DEF Replaced
<1>4. \A n \in Msgs : job[s][n].pc \in {"none", "own", "remember"}
  BY <1>1 DEF IInv, PhaseOK
<1>5. RecordsOK' /\ StillKnown /\ StillRecorded
  BY <1>1, ForgetKept
<1>6. PhaseOK' /\ KeysOK' /\ KnownLate' /\ JobRecorded'
  BY <1>1, <1>2, <1>3, <1>4, <1>5, ReplacedKept DEF Remembered
<1>7. /\ undo' \in [Keys -> [Msgs -> Row \cup {NoRecord}]]
      /\ \A l \in Keys, n \in Msgs : undo'[l][n] = IF l = k THEN NoRecord ELSE undo[l][n]
      /\ cut' \subseteq Keys \X Msgs /\ cut \subseteq cut'
  BY <1>1, ForgetShape DEF IInv, TypeOK
<1>8. /\ by' \in [Msgs -> Keys \cup {NoKey}]
      /\ \A m \in Msgs : by'[m] = IF by[m] = k THEN NoKey ELSE by[m]
  BY <1>1, <1>2
<1> HIDE DEF k
<1>9. TypeOK'
  <2>1. sort' \in [Sorters -> Sorting] /\ job' \in [Sorters -> [Msgs -> Job]]
    BY <1>3 DEF Replaced
  <2> QED
    BY <1>1, <1>7, <1>8, <2>1 DEF IInv, TypeOK, Job, Sorting
<1>10. YouBy' /\ PersonWins' /\ DanglingAccounted'
  BY <1>1, <1>8 DEF IInv, TypeOK, YouBy, PersonWins, DanglingAccounted
<1>11. MovedCanBeUndone'
  BY <1>1, <1>7, <1>8 DEF IInv, TypeOK, MovedCanBeUndone
<1>12. PendingIsBeingSorted'
  BY <1>1, <1>3 DEF IInv, PendingIsBeingSorted, Replaced
<1> QED
  BY <1>5, <1>6, <1>9, <1>10, <1>11, <1>12 DEF IInv

\* A sorter is cut off.
LEMMA DiesStep ==
    ASSUME IInv, NEW s \in Sorters, SorterDies(s)
    PROVE  IInv'
<1> USE DEF table
<1> DEFINE jobs == [m \in Msgs |-> NoJob]
<1>1. /\ Work(s, jobs) /\ faults < MaxFaults /\ faults' = faults + 1
      /\ stuck' = stuck \cup {m \in Msgs : job[s][m].pc = "judge"}
      /\ UNCHANGED <<table, listed, row, undo, hand, sorts, chosen, late, by, cut>>
  BY DEF SorterDies
<1>2. sort \in [Sorters -> Sorting] /\ job \in [Sorters -> [Msgs -> Job]]
  BY DEF IInv, TypeOK, Job, Sorting
<1>3. /\ jobs \in [Msgs -> Job]
      /\ \A m \in Msgs : jobs[m] = NoJob /\ jobs[m].list = {} /\ jobs[m].pc = "none"
  BY DEF NoJob, Job
<1> HIDE DEF jobs
<1>4. Replaced(s, jobs)
  BY <1>1, <1>2, <1>3, WorkShape DEF Replaced
<1>5. StillKnown /\ StillRecorded
  BY <1>1, UndoUntouched
<1>6. PhaseOK' /\ KeysOK' /\ KnownLate' /\ JobRecorded'
  BY <1>1, <1>3, <1>4, <1>5, ReplacedKept DEF Remembered
<1>7. /\ TypeOK' /\ RecordsOK' /\ YouBy' /\ PersonWins' /\ DanglingAccounted'
      /\ MovedCanBeUndone'
  <2>1. sort' \in [Sorters -> Sorting] /\ job' \in [Sorters -> [Msgs -> Job]]
    BY <1>4 DEF Replaced
  <2>2. faults' \in 0..MaxFaults
    BY <1>1, BoundsAssumption DEF IInv, TypeOK
  <2>3. sorts' \in 0..MaxSorts /\ stuck' \in SUBSET Msgs
    BY <1>1 DEF IInv, TypeOK
  <2> QED
    BY <1>1, <2>1, <2>2, <2>3, SorterOnly
<1>8. PendingIsBeingSorted'
  <2> SUFFICES ASSUME NEW n \in listed, row[n].pending, n \notin stuck'
               PROVE  \E t \in Sorters : job'[t][n].pc = "judge"
    BY <1>1 DEF PendingIsBeingSorted
  <2>1. n \in Msgs /\ n \notin stuck
    BY <1>1 DEF IInv, TypeOK
  <2>2. PICK t \in Sorters : job[t][n].pc = "judge"
    BY <2>1 DEF IInv, PendingIsBeingSorted
  <2>3. t # s
    BY <1>1, <2>1, <2>2
  <2> QED
    BY <1>4, <2>2, <2>3 DEF Replaced
<1> QED
  BY <1>6, <1>7, <1>8 DEF IInv
-----------------------------------------------------------------------------
(* The person *)

\* What the rows do not touch.
LEMMA SortersUntouched ==
    ASSUME IInv, UNCHANGED <<sort, job>>
    PROVE  /\ PhaseOK' /\ KeysOK'
           /\ listed' \subseteq listed /\ StillRecorded => JobRecorded'
<1>1. PhaseOK' /\ KeysOK'
  BY DEF IInv, PhaseOK, KeysOK, IdleSort, NoJob
<1>2. listed' \subseteq listed /\ StillRecorded => JobRecorded'
  BY DEF JobRecorded, StillRecorded
<1> QED
  BY <1>1, <1>2

LEMMA CreateStep ==
    ASSUME IInv, NEW f \in Folders, CreateFolder(f)
    PROVE  IInv'
<1> USE DEF history
<1>1. /\ f \notin deleted /\ folders' = folders \cup {f}
      /\ UNCHANGED <<deleted, listed, row, undo, sort, job, hand, sorts, faults, history>>
  BY DEF CreateFolder
<1>2. TypeOK'
  BY <1>1 DEF IInv, TypeOK
<1>3. PhaseOK' /\ KeysOK' /\ JobRecorded'
  BY <1>1, UndoUntouched, SortersUntouched
<1>4. KnownLate'
  BY <1>1 DEF IInv, KnownLate
<1>5. RecordsOK' /\ YouBy' /\ PersonWins' /\ DanglingAccounted' /\ MovedCanBeUndone'
      /\ PendingIsBeingSorted'
  BY <1>1 DEF IInv, RecordsOK, Coherent, YouBy, PersonWins, DanglingAccounted, MovedCanBeUndone,
              PendingIsBeingSorted
<1> QED
  BY <1>2, <1>3, <1>4, <1>5 DEF IInv

LEMMA ChooseStep ==
    ASSUME IInv, NEW m \in Msgs, NEW f \in Places, Choose(m, f)
    PROVE  IInv'
<1> USE DEF table, history
<1>1. /\ f \in folders \cup {NoFolder} /\ hand' = [pc |-> "file", msg |-> m, folder |-> f]
      /\ UNCHANGED <<table, listed, row, undo, sort, job, sorts, faults, history>>
  BY DEF Choose
<1>2. TypeOK'
  BY <1>1 DEF IInv, TypeOK
<1>3. PhaseOK' /\ KeysOK' /\ JobRecorded'
  BY <1>1, UndoUntouched, SortersUntouched
<1>4. KnownLate'
  BY <1>1, KeysApart DEF IInv, TypeOK, KnownLate
<1>5. RecordsOK' /\ YouBy' /\ PersonWins' /\ DanglingAccounted' /\ MovedCanBeUndone'
      /\ PendingIsBeingSorted'
  BY <1>1 DEF IInv, RecordsOK, Coherent, YouBy, PersonWins, DanglingAccounted, MovedCanBeUndone,
              PendingIsBeingSorted
<1> QED
  BY <1>2, <1>3, <1>4, <1>5 DEF IInv

LEMMA ByHandStep ==
    ASSUME IInv, FileByHand
    PROVE  IInv'
<1> USE DEF table
<1> DEFINE m == hand.msg
           d == [folder |-> hand.folder, suggest |-> NoFolder, you |-> TRUE, pending |-> FALSE]
<1>1. /\ hand' = Idle
      /\ UNCHANGED <<table, listed, undo, sort, job, sorts, faults, late, stuck, cut>>
  BY DEF FileByHand
<1>2. hand.folder \in Places /\ row \in [Msgs -> Row] /\ listed \subseteq Msgs
      /\ by \in [Msgs -> Keys \cup {NoKey}] /\ chosen \in [Msgs -> Places \cup {NoChoice}]
  BY DEF IInv, TypeOK
<1>3. d \in Row /\ d.folder = hand.folder /\ d.suggest = NoFolder /\ d.you /\ ~d.pending
  BY <1>2 DEF Row, Places
<1>4. [Filed(hand.folder) EXCEPT !.you = TRUE] = d
  BY FiledByHand
<1>5. \A n \in Msgs : /\ row'[n] = IF n = m /\ m \in listed THEN d ELSE row[n]
                      /\ chosen'[n] = IF n = m /\ m \in listed THEN hand.folder ELSE chosen[n]
                      /\ by'[n] = IF n = m /\ m \in listed THEN NoKey ELSE by[n]
  <2> HIDE DEF d
  <2> QED
    BY <1>2, <1>4 DEF FileByHand
<1>6. /\ row' \in [Msgs -> Row] /\ by' \in [Msgs -> Keys \cup {NoKey}]
      /\ chosen' \in [Msgs -> Places \cup {NoChoice}]
  <2> HIDE DEF d
  <2> QED
    BY <1>2, <1>3, <1>4 DEF FileByHand
<1>7. PersonWins'
  <2> SUFFICES ASSUME NEW n \in listed, chosen'[n] # NoChoice
               PROVE  row'[n] = [Filed(chosen'[n]) EXCEPT !.you = TRUE]
    BY <1>1 DEF PersonWins
  <2>1. CASE n = m
    <3> HIDE DEF d
    <3> QED
      BY <1>2, <1>4, <1>5, <2>1
  <2>2. CASE n # m
    <3> HIDE DEF d
    <3> QED
      BY <1>2, <1>5, <2>2 DEF IInv, PersonWins
  <2> QED
    BY <2>1, <2>2
<1> HIDE DEF d, m
<1>8. TypeOK'
  <2>1. \A n \in Msgs : /\ row'[n].folder = NoFolder \/ row'[n].suggest = NoFolder
                        /\ ~(row'[n].you /\ row'[n].pending)
    BY <1>3, <1>5 DEF IInv, TypeOK
  <2>2. hand' \in [pc: {"idle", "file"}, msg: Msgs \cup {NoFolder}, folder: Places]
    BY <1>1 DEF Idle, Places
  <2> QED
    BY <1>1, <1>6, <2>1, <2>2 DEF IInv, TypeOK
<1>9. PhaseOK' /\ KeysOK' /\ JobRecorded'
  BY <1>1, UndoUntouched, SortersUntouched
<1>10. KnownLate'
  BY <1>1, KeysApart DEF IInv, TypeOK, KnownLate, Idle
<1>11. DanglingAccounted'
  BY <1>1, <1>2, <1>3, <1>5, KeysApart DEF IInv, TypeOK, DanglingAccounted, KnownLate, m
<1>12. YouBy' /\ MovedCanBeUndone'
  BY <1>1, <1>2, <1>5 DEF IInv, YouBy, MovedCanBeUndone
<1>13. PendingIsBeingSorted'
  BY <1>1, <1>2, <1>3, <1>5 DEF IInv, PendingIsBeingSorted
<1>14. RecordsOK'
  BY <1>1 DEF IInv, RecordsOK, Coherent
<1> QED
  BY <1>7, <1>8, <1>9, <1>10, <1>11, <1>12, <1>13, <1>14 DEF IInv
\* A folder is deleted, with the records of its sorts.
LEMMA DeleteStep ==
    ASSUME IInv, NEW f \in Folders, DeleteFolder(f)
    PROVE  IInv'
<1>1. /\ f \in folders /\ folders' = folders \ {f} /\ deleted' = deleted \cup {f}
      /\ row' = [m \in Msgs |-> IF m \in Naming(f) THEN Unfiled ELSE row[m]]
      /\ Forget(f)
      /\ by' = [m \in Msgs |-> IF m \in Naming(f) \/ by[m] = f THEN NoKey ELSE by[m]]
      /\ chosen' = [m \in Msgs |-> IF m \in Naming(f) THEN NoChoice ELSE chosen[m]]
      /\ late' = late \cup Knowing(f)
      /\ UNCHANGED <<listed, sort, job, hand, sorts, faults, stuck>>
  BY DEF DeleteFolder
<1>2. /\ row \in [Msgs -> Row] /\ by \in [Msgs -> Keys \cup {NoKey}]
      /\ chosen \in [Msgs -> Places \cup {NoChoice}] /\ listed \subseteq Msgs
  BY DEF IInv, TypeOK
<1>3. f \in Keys /\ f # NoFolder /\ f # NoKey
  BY KeysApart DEF Keys
<1>4. Unfiled \in Row /\ Unfiled.folder = NoFolder /\ Unfiled.suggest = NoFolder
      /\ ~Unfiled.you /\ ~Unfiled.pending
  BY DEF Unfiled, Row, Places
<1>5. /\ undo' \in [Keys -> [Msgs -> Row \cup {NoRecord}]]
      /\ \A l \in Keys, n \in Msgs : undo'[l][n] = IF l = f THEN NoRecord ELSE undo[l][n]
      /\ cut' \subseteq Keys \X Msgs /\ cut \subseteq cut'
  BY <1>1, <1>3, ForgetShape DEF IInv, TypeOK
<1>6. RecordsOK' /\ StillKnown /\ StillRecorded
  BY <1>1, <1>3, ForgetKept
<1>7. PhaseOK' /\ KeysOK' /\ JobRecorded'
  BY <1>1, <1>6, SortersUntouched
<1>8. TypeOK'
  <2>1. row' \in [Msgs -> Row] /\ by' \in [Msgs -> Keys \cup {NoKey}]
        /\ chosen' \in [Msgs -> Places \cup {NoChoice}]
    BY <1>1, <1>2, <1>4
  <2>2. \A n \in Msgs : /\ row'[n].folder = NoFolder \/ row'[n].suggest = NoFolder
                        /\ ~(row'[n].you /\ row'[n].pending)
    BY <1>1, <1>4 DEF IInv, TypeOK
  <2>3. late' \subseteq Msgs
    BY <1>1 DEF IInv, TypeOK, Knowing
  <2>4. folders' \subseteq Folders /\ deleted' \subseteq Folders \ folders'
    BY <1>1 DEF IInv, TypeOK
  <2> QED
    BY <1>1, <1>5, <2>1, <2>2, <2>3, <2>4 DEF IInv, TypeOK
<1>9. KnownLate'
  <2> SUFFICES ASSUME NEW g \in deleted', NEW n \in Msgs
               PROVE  /\ \A s \in Sorters :
                           g \in sort[s].list \cup job[s][n].list \cup {sort[s].key} => n \in late'
                      /\ hand.msg = n /\ hand.folder = g => n \in late'
                      /\ \A k \in Keys :
                           g \in {undo'[k][n].folder, undo'[k][n].suggest} => n \in late'
    BY <1>1 DEF KnownLate
  <2>1. CASE g \in deleted
    BY <1>1, <1>6, <2>1 DEF IInv, KnownLate, StillKnown
  <2>2. CASE g = f
    <3>1. ASSUME NEW k \in Keys, f \in {undo'[k][n].folder, undo'[k][n].suggest}
          PROVE  n \in Knowing(f)
      <4>1. k # f
        BY <1>3, <1>5, <3>1 DEF NoRecord
      <4> QED
        BY <1>5, <3>1, <4>1 DEF Knowing
    <3>2. /\ \A s \in Sorters :
               f \in sort[s].list \cup job[s][n].list \cup {sort[s].key} => n \in Knowing(f)
          /\ hand.msg = n /\ hand.folder = f => n \in Knowing(f)
      BY DEF Knowing
    <3> QED
      BY <1>1, <2>2, <3>1, <3>2
  <2> QED
    BY <1>1, <2>1, <2>2
<1>10. YouBy'
  BY <1>1, <1>2, <1>4 DEF IInv, YouBy
<1>11. PersonWins'
  BY <1>1, <1>2 DEF IInv, PersonWins
<1>12. DanglingAccounted'
  <2> SUFFICES ASSUME NEW n \in listed, NEW g \in deleted',
                      g \in {row'[n].folder, row'[n].suggest}
               PROVE  n \in late
    BY <1>1 DEF DanglingAccounted
  <2>1. n \in Msgs /\ g \in Folders /\ g # NoFolder
    BY <1>1, <1>2, KeysApart DEF IInv, TypeOK
  <2>2. n \notin Naming(f) /\ row'[n] = row[n]
    BY <1>1, <1>4, <2>1
  <2>3. g # f
    BY <2>2 DEF Naming
  <2> QED
    BY <1>1, <2>2, <2>3 DEF IInv, DanglingAccounted
<1>13. MovedCanBeUndone'
  BY <1>1, <1>2, <1>5 DEF IInv, MovedCanBeUndone
<1>14. PendingIsBeingSorted'
  BY <1>1, <1>2, <1>4 DEF IInv, PendingIsBeingSorted
<1> QED
  BY <1>6, <1>7, <1>8, <1>9, <1>10, <1>11, <1>12, <1>13, <1>14 DEF IInv

\* A sort is undone: what is not the person's is put back.
LEMMA UndoStep ==
    ASSUME IInv, NEW k \in Keys, Undo(k)
    PROVE  IInv'
<1> USE DEF table
<1> DEFINE back == {m \in Msgs : Open(m) /\ undo[k][m] # NoRecord}
<1>1. /\ row' = [m \in Msgs |-> IF m \in back THEN undo[k][m] ELSE row[m]]
      /\ by' = [m \in Msgs |-> IF m \in back THEN NoKey ELSE by[m]]
      /\ stuck' = stuck \cup {m \in back : undo[k][m].pending}
      /\ Forget(k)
      /\ UNCHANGED <<table, listed, sort, job, hand, sorts, faults, chosen, late>>
  BY DEF Undo
<1>2. /\ row \in [Msgs -> Row] /\ by \in [Msgs -> Keys \cup {NoKey}] /\ listed \subseteq Msgs
      /\ undo \in [Keys -> [Msgs -> Row \cup {NoRecord}]] /\ stuck \subseteq Msgs
  BY DEF IInv, TypeOK
<1>3. \A m \in back : /\ m \in listed /\ ~row[m].you
                      /\ undo[k][m] \in Row /\ Coherent(undo[k][m])
  BY <1>2 DEF Open, IInv, RecordsOK
<1>4. back \subseteq Msgs /\ \A m \in Msgs \ back : Open(m) => undo[k][m] = NoRecord
  OBVIOUS
<1>5. /\ undo' \in [Keys -> [Msgs -> Row \cup {NoRecord}]]
      /\ \A l \in Keys, n \in Msgs : undo'[l][n] = IF l = k THEN NoRecord ELSE undo[l][n]
      /\ cut' \subseteq Keys \X Msgs /\ cut \subseteq cut'
  BY <1>1, ForgetShape DEF IInv, TypeOK
<1>6. RecordsOK' /\ StillKnown /\ StillRecorded
  BY <1>1, ForgetKept
<1>7. PhaseOK' /\ KeysOK' /\ JobRecorded'
  BY <1>1, <1>6, SortersUntouched
<1> HIDE DEF back
<1>8. TypeOK'
  <2>1. row' \in [Msgs -> Row] /\ by' \in [Msgs -> Keys \cup {NoKey}] /\ stuck' \subseteq Msgs
    BY <1>1, <1>2, <1>3, <1>4
  <2>2. \A n \in Msgs : /\ row'[n].folder = NoFolder \/ row'[n].suggest = NoFolder
                        /\ ~(row'[n].you /\ row'[n].pending)
    BY <1>1, <1>3 DEF IInv, TypeOK, Coherent
  <2> QED
    BY <1>1, <1>5, <2>1, <2>2 DEF IInv, TypeOK
<1>9. KnownLate'
  BY <1>1, <1>6 DEF IInv, KnownLate, StillKnown
<1>10. PersonWins'
  <2> SUFFICES ASSUME NEW n \in listed, chosen[n] # NoChoice
               PROVE  row'[n] = [Filed(chosen[n]) EXCEPT !.you = TRUE]
    BY <1>1 DEF PersonWins
  <2>1. row[n] = [Filed(chosen[n]) EXCEPT !.you = TRUE]
    BY DEF IInv, PersonWins
  <2>2. row[n].you
    BY <2>1 DEF Filed, Unfiled
  <2>3. n \notin back
    BY <1>3, <2>2
  <2> QED
    BY <1>1, <1>2, <2>1, <2>3
<1>11. DanglingAccounted'
  BY <1>1, <1>2 DEF IInv, DanglingAccounted, KnownLate
<1>12. MovedCanBeUndone'
  <2> SUFFICES ASSUME NEW n \in listed, by'[n] # NoKey
               PROVE  undo'[by'[n]][n] # NoRecord \/ <<by'[n], n>> \in cut'
    BY <1>1 DEF MovedCanBeUndone
  <2>1. n \in Msgs /\ n \notin back /\ by'[n] = by[n] /\ by[n] \in Keys
    BY <1>1, <1>2
  <2>2. ~row[n].you
    BY <2>1 DEF IInv, YouBy
  <2>3. undo[k][n] = NoRecord
    BY <1>4, <2>1, <2>2 DEF Open
  <2>4. undo[by[n]][n] # NoRecord \/ <<by[n], n>> \in cut
    BY <2>1 DEF IInv, MovedCanBeUndone
  <2> QED
    BY <1>5, <2>1, <2>3, <2>4
<1>13. YouBy'
  BY <1>1, <1>2 DEF IInv, YouBy
<1>14. PendingIsBeingSorted'
  BY <1>1, <1>2 DEF IInv, PendingIsBeingSorted
<1> QED
  BY <1>6, <1>7, <1>8, <1>9, <1>10, <1>11, <1>12, <1>13, <1>14 DEF IInv

LEMMA PurgeStep ==
    ASSUME IInv, NEW m \in Msgs, Purge(m)
    PROVE  IInv'
<1> USE DEF table
<1>1. /\ listed' = listed \ {m} /\ row' = [row EXCEPT ![m] = Unfiled]
      /\ chosen' = [chosen EXCEPT ![m] = NoChoice] /\ by' = [by EXCEPT ![m] = NoKey]
      /\ UNCHANGED <<table, undo, sort, job, hand, sorts, faults, late, stuck, cut>>
  BY DEF Purge
<1>2. /\ row \in [Msgs -> Row] /\ by \in [Msgs -> Keys \cup {NoKey}]
      /\ chosen \in [Msgs -> Places \cup {NoChoice}] /\ listed \subseteq Msgs
  BY DEF IInv, TypeOK
<1>3. Unfiled \in Row /\ Unfiled.folder = NoFolder /\ ~Unfiled.you
  BY DEF Unfiled, Row, Places
<1>4. \A n \in listed' : /\ n \in listed /\ row'[n] = row[n] /\ chosen'[n] = chosen[n]
                         /\ by'[n] = by[n]
  BY <1>1, <1>2
<1>5. TypeOK'
  <2>1. row' \in [Msgs -> Row] /\ by' \in [Msgs -> Keys \cup {NoKey}]
        /\ chosen' \in [Msgs -> Places \cup {NoChoice}]
    BY <1>1, <1>2, <1>3
  <2>2. \A n \in Msgs : /\ row'[n].folder = NoFolder \/ row'[n].suggest = NoFolder
                        /\ ~(row'[n].you /\ row'[n].pending)
    BY <1>1, <1>2, <1>3 DEF IInv, TypeOK
  <2> QED
    BY <1>1, <2>1, <2>2 DEF IInv, TypeOK
<1>6. PhaseOK' /\ KeysOK' /\ JobRecorded'
  BY <1>1, UndoUntouched, SortersUntouched
<1>7. KnownLate' /\ RecordsOK'
  BY <1>1 DEF IInv, KnownLate, RecordsOK, Coherent
<1>8. YouBy' /\ PersonWins'
  BY <1>1, <1>4 DEF IInv, YouBy, PersonWins
<1>9. DanglingAccounted' /\ PendingIsBeingSorted'
  BY <1>1, <1>4 DEF IInv, DanglingAccounted, PendingIsBeingSorted
<1>10. MovedCanBeUndone'
  BY <1>1, <1>4 DEF IInv, MovedCanBeUndone
<1> QED
  BY <1>5, <1>6, <1>7, <1>8, <1>9, <1>10 DEF IInv

-----------------------------------------------------------------------------

LEMMA InitIInv == Init => IInv
<1> SUFFICES ASSUME Init PROVE IInv
  OBVIOUS
<1>1. TypeOK
  <2>1. Unfiled \in Row /\ Unfiled.folder = NoFolder /\ ~Unfiled.you
    BY DEF Unfiled, Row, Places
  <2>2. IdleSort \in Sorting /\ NoJob \in Job
    BY DEF IdleSort, NoJob, Sorting, Job
  <2>3. Idle \in [pc: {"idle", "file"}, msg: Msgs \cup {NoFolder}, folder: Places]
    BY DEF Idle, Places
  <2>4. 0 \in 0..MaxSorts /\ 0 \in 0..MaxFaults
    BY BoundsAssumption
  <2> QED
    BY <2>1, <2>2, <2>3, <2>4 DEF Init, TypeOK, Sorting, Job
<1>2. RecordsOK /\ PhaseOK /\ KeysOK /\ KnownLate
  BY DEF Init, RecordsOK, PhaseOK, KeysOK, KnownLate, IdleSort, NoJob
<1>3. YouBy /\ PersonWins /\ DanglingAccounted /\ MovedCanBeUndone
  BY DEF Init, YouBy, PersonWins, DanglingAccounted, MovedCanBeUndone
<1>4. JobRecorded /\ PendingIsBeingSorted
  BY DEF Init, JobRecorded, PendingIsBeingSorted, NoJob, Remembered, Unfiled, IdleSort
<1> QED
  BY <1>1, <1>2, <1>3, <1>4 DEF IInv

LEMMA StepIInv == IInv /\ [Next]_vars => IInv'
<1> SUFFICES ASSUME IInv, [Next]_vars PROVE IInv'
  OBVIOUS
<1>1. CASE UNCHANGED vars
  <2> USE <1>1 DEF vars, IInv
  <2>1. TypeOK'
    BY DEF TypeOK
  <2>2. PhaseOK' /\ KeysOK' /\ KnownLate' /\ JobRecorded'
    BY DEF PhaseOK, KeysOK, KnownLate, JobRecorded
  <2>3. RecordsOK' /\ YouBy' /\ PersonWins' /\ DanglingAccounted' /\ MovedCanBeUndone'
        /\ PendingIsBeingSorted'
    BY DEF RecordsOK, YouBy, PersonWins, DanglingAccounted, MovedCanBeUndone, PendingIsBeingSorted
  <2> QED
    BY <2>1, <2>2, <2>3
<1>2. ASSUME NEW s \in Sorters, Pick(s) \/ Clear(s) \/ SorterDies(s) PROVE IInv'
  BY <1>2, PickStep, ClearStep, DiesStep
<1>3. ASSUME NEW s \in Sorters, NEW key \in {All, NoKey}, SortRecent(s, key) PROVE IInv'
  BY <1>3, BeginSteps
<1>4. ASSUME NEW s \in Sorters, NEW f \in Folders, SortInto(s, f) PROVE IInv'
  BY <1>4, BeginSteps
<1>5. ASSUME NEW s \in Sorters, NEW m \in Msgs,
             \/ SortOne(s, m) \/ Remember(s, m) \/ LeaveOut(s, m) \/ Move(s, m)
             \/ List(s, m) \/ FileByAddress(s, m) \/ Mark(s, m) \/ Judge(s, m)
      PROVE  IInv'
  BY <1>5, QuietSteps, RememberStep, DecidedSteps, MarkStep
<1>6. ASSUME NEW f \in Folders, CreateFolder(f) \/ DeleteFolder(f) PROVE IInv'
  BY <1>6, CreateStep, DeleteStep
<1>7. ASSUME NEW m \in Msgs, NEW f \in Places, Choose(m, f) PROVE IInv'
  BY <1>7, ChooseStep
<1>8. ASSUME NEW k \in Keys, Undo(k) PROVE IInv'
  BY <1>8, UndoStep
<1>9. ASSUME NEW m \in Msgs, Purge(m) PROVE IInv'
  BY <1>9, PurgeStep
<1> QED
  BY <1>1, <1>2, <1>3, <1>4, <1>5, <1>6, <1>7, <1>8, <1>9, ByHandStep DEF Next

LEMMA Invariant == Spec => []IInv
BY InitIInv, StepIInv, PTL DEF Spec

-----------------------------------------------------------------------------
(* What follows *)

\* Every variable has its type, and a row is never both filed and a suggestion.
THEOREM TypeCorrect == Spec => []TypeOK
<1>1. IInv => TypeOK
  BY DEF IInv
<1> QED
  BY <1>1, Invariant, PTL

\* The choice a person made in the list stands against every sort and undo, in
\* whatever order their calls reach the MailboxDO.
THEOREM PersonWinsAlways == Spec => []PersonWins
<1>1. IInv => PersonWins
  BY DEF IInv
<1> QED
  BY <1>1, Invariant, PTL

\* A row names a deleted folder only if something still knew that folder for
\* the message when deleteFolder ran.
THEOREM DanglingAccountedAlways == Spec => []DanglingAccounted
<1>1. IInv => DanglingAccounted
  BY DEF IInv
<1> QED
  BY <1>1, Invariant, PTL

\* What the last sort with an undo moved has its record in sort_undo, unless
\* the records were dropped while the sort was at it.
THEOREM MovedCanBeUndoneAlways == Spec => []MovedCanBeUndone
<1>1. IInv => MovedCanBeUndone
  BY DEF IInv
<1> QED
  BY <1>1, Invariant, PTL

\* A message is shown as being sorted only while a sorter is at it, or after a
\* sorter was cut off or an undo brought the state back.
THEOREM PendingIsBeingSortedAlways == Spec => []PendingIsBeingSorted
<1>1. IInv => PendingIsBeingSorted
  BY DEF IInv
<1> QED
  BY <1>1, Invariant, PTL
=============================================================================
