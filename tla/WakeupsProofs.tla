--------------------------- MODULE WakeupsProofs ---------------------------
(***************************************************************************)
(* Proofs about the objects of Wakeups. First ThreadStore: type            *)
(* correctness, and the inductive invariant behind BodyKept,               *)
(* ReadFindsBody, OrphanAccounted and PressureHasAlarm. Then MailboxRelief *)
(* (its names begin with I!): whatever is trimmed, deleted and numbered,   *)
(* and whatever the sizes, the full-text index has one row for each listed *)
(* message, its own, and the newest ones keep their bodies.                *)
(***************************************************************************)
EXTENDS Wakeups, FiniteSetTheorems, WellFoundedInduction, TLAPS

-----------------------------------------------------------------------------
(* The inductive invariant *)

\* Only rows have a body or a mark, and blobs are stored before the append.
StageOK ==
    /\ \A m \in hot \cup archived : stage[m] = "row"
    /\ \A m \in Msgs : stage[m] = "put" => <<m, "raw">> \in r2

\* A sweep updates only after its put, and any message it holds is a row
\* still or was removed under it.
SweepOK ==
    \A s \in Sweepers :
        /\ sweeps[s].pc = "mark" =>
             /\ sweeps[s].cur \in Msgs
             /\ <<sweeps[s].cur, "body">> \in r2 \cup (lost \X {"body"})
                  \/ stage[sweeps[s].cur] = "gone"
        /\ \A m \in Msgs : m \in sweeps[s].todo \cup {sweeps[s].cur} =>
             stage[m] = "row" \/ (stage[m] = "gone" /\ m \in raced)

ReadOK ==
    \A r \in Readers : reads[r].pc # "idle" =>
        reads[r].msg \in Msgs /\ stage[reads[r].msg] \in {"row", "gone"}

\* Keys are deleted only for messages that are gone.
PurgeOK ==
    \A p \in Purgers : purges[p].keys # {} =>
        purges[p].msg \in Msgs /\ stage[purges[p].msg] = "gone"

IInv ==
    /\ TypeOK
    /\ StageOK /\ SweepOK /\ ReadOK /\ PurgeOK
    /\ BodyKept /\ ReadFindsBody /\ OrphanAccounted

-----------------------------------------------------------------------------
(* What the helpers of a sweep return *)

\* A sweep that has selected rows and not yet put one.
Fresh(w, rows) ==
    w \in Sweep /\ w.pc # "mark" /\ w.cur = NoMsg /\ w.todo \subseteq rows

\* The sizes the watermarks are compared with are numbers.
LEMMA HotSize ==
    ASSUME NEW S, S \subseteq Msgs
    PROVE  IsFiniteSet(S) /\ Cardinality(S) \in Nat
BY MsgsAssumption, FS_Subset, FS_CardinalityType

\* What a SELECT returns starts a well-formed sweep of those rows.
LEMMA SelectedFresh ==
    ASSUME NEW rows, rows \subseteq Msgs, NEW todo, todo \subseteq rows,
           NEW goal \in Nat, NEW done \in Nat, NEW aging \in BOOLEAN
    PROVE  Fresh(Selected(goal, done, todo, aging), rows)
BY DEF Selected, Fresh, Sweep, IdleSweep

LEMMA BatchSubset ==
    ASSUME NEW n, NEW S, NEW T \in Batches(n, S)
    PROVE  T \subseteq S
BY DEF Batches

\* Over the high watermark the goal of a relief run is at least one body.
LEMMA GoalPositive ==
    ASSUME hot \subseteq Msgs, OverHigh(hot)
    PROVE  ReliefGoal(hot) \in Nat \ {0}
<1>1. Cardinality(hot) \in Nat
  BY HotSize
<1>2. Cardinality(hot) - Low \in Nat \ {0}
  BY <1>1, WatermarkAssumption DEF OverHigh
<1> QED
  BY <1>2, BoundsAssumption DEF ReliefGoal, Least

\* relieve() starts a sweep of hot rows, and finds at least one.
LEMMA StartReliefFresh ==
    ASSUME TypeOK, OverHigh(hot), NEW s \in Sweepers, StartRelief(s)
    PROVE  \E w : /\ Fresh(w, hot) /\ w.pc # "idle"
                  /\ sweeps' = [sweeps EXCEPT ![s] = w]
<1> DEFINE goal == ReliefGoal(hot)
<1>1. hot \subseteq Msgs
  BY DEF TypeOK
<1>2. goal \in Nat \ {0}
  BY <1>1, GoalPositive
<1>3. PICK todo \in Batches(Least(Batch, goal), hot) :
        sweeps' = [sweeps EXCEPT ![s] = Selected(goal, 0, todo, FALSE)]
  BY DEF StartRelief
<1>4. todo # {}
  <2>1. Cardinality(hot) \in Nat \ {0}
    BY <1>1, HotSize, WatermarkAssumption DEF OverHigh
  <2>2. Least(Least(Batch, goal), Cardinality(hot)) # 0
    BY <1>2, <2>1, BoundsAssumption DEF Least
  <2>3. Cardinality(todo) # 0
    BY <1>3, <2>2 DEF Batches
  <2> QED
    BY <2>3, FS_EmptySet
<1>5. Fresh(Selected(goal, 0, todo, FALSE), hot)
  BY <1>1, <1>2, <1>3, BatchSubset, SelectedFresh
<1>6. Selected(goal, 0, todo, FALSE).pc # "idle"
  BY <1>4 DEF Selected
<1> QED
  BY <1>3, <1>5, <1>6

\* However alarm() ends, its next sweep is well formed, and over the high
\* watermark it leaves an alarm or a sweep behind once it has made progress.
LEMMA AfterReliefFresh ==
    ASSUME hot' \subseteq Msgs, NEW armed \in BOOLEAN, NEW done \in Nat,
           AfterRelief(armed, done)
    PROVE  \E w : /\ Fresh(w, hot')
                  /\ sweeps' = [sweeps EXCEPT ![Alarm] = w]
                  /\ alarmSet' \in BOOLEAN
                  /\ OverHigh(hot') /\ done > 0 => alarmSet' \/ w.pc # "idle"
<1>1. CASE agePolicy /\ \E cutoff \in Msgs : \E todo \in Aged(cutoff, hot') :
             /\ sweeps' = [sweeps EXCEPT ![Alarm] = Selected(0, 0, todo, TRUE)]
             /\ alarmSet' = (armed \/ todo = {})
  <2>1. PICK cutoff \in Msgs : \E todo \in Aged(cutoff, hot') :
             /\ sweeps' = [sweeps EXCEPT ![Alarm] = Selected(0, 0, todo, TRUE)]
             /\ alarmSet' = (armed \/ todo = {})
    BY <1>1
  <2>2. PICK todo \in Aged(cutoff, hot') :
             /\ sweeps' = [sweeps EXCEPT ![Alarm] = Selected(0, 0, todo, TRUE)]
             /\ alarmSet' = (armed \/ todo = {})
    BY <2>1
  <2>3. todo \subseteq hot'
    BY <2>2, BatchSubset DEF Aged
  <2>4. Fresh(Selected(0, 0, todo, TRUE), hot')
    BY <2>3, SelectedFresh
  <2>5. alarmSet' \/ Selected(0, 0, todo, TRUE).pc # "idle"
    BY <2>2 DEF Selected
  <2> QED
    BY <2>2, <2>4, <2>5
<1>2. CASE ~agePolicy /\ sweeps' = [sweeps EXCEPT ![Alarm] = IdleSweep]
           /\ alarmSet' = (armed \/ (Cardinality(hot') > Low /\ done > 0))
  <2>1. Fresh(IdleSweep, hot')
    BY DEF Fresh, IdleSweep, Sweep
  <2>2. OverHigh(hot') => Cardinality(hot') > Low
    BY HotSize, WatermarkAssumption DEF OverHigh
  <2> QED
    BY <1>2, <2>1, <2>2
<1> QED
  BY <1>1, <1>2 DEF AfterRelief

\* After a body the sweeper holds only rows it held before or that are hot.
LEMMA ContinueShape ==
    ASSUME TypeOK, hot' \subseteq hot, NEW s \in Sweepers,
           NEW done \in Nat \ {0}, Continue(s, done)
    PROVE  \E w : /\ w \in Sweep /\ w.pc # "mark" /\ w.cur = NoMsg
                  /\ w.todo \subseteq sweeps[s].todo \cup hot'
                  /\ sweeps' = [sweeps EXCEPT ![s] = w]
                  /\ alarmSet' \in BOOLEAN /\ (alarmSet => alarmSet')
                  /\ s = Alarm /\ OverHigh(hot') => alarmSet' \/ w.pc # "idle"
<1> USE DEF TypeOK
<1>1. sweeps[s] \in Sweep /\ hot' \subseteq Msgs /\ alarmSet \in BOOLEAN
  OBVIOUS
<1>2. CASE /\ sweeps[s].todo # {}
           /\ sweeps' = [sweeps EXCEPT ![s].pc = "put", ![s].cur = NoMsg, ![s].done = done]
           /\ UNCHANGED alarmSet
  <2> DEFINE w == [sweeps[s] EXCEPT !.pc = "put", !.cur = NoMsg, !.done = done]
  <2>1. sweeps' = [sweeps EXCEPT ![s] = w]
    BY <1>2
  <2>2. w \in Sweep /\ w.pc = "put" /\ w.cur = NoMsg /\ w.todo = sweeps[s].todo
    BY <1>1 DEF Sweep
  <2> QED
    BY <1>1, <1>2, <2>1, <2>2
<1>3. CASE /\ sweeps[s].todo = {} /\ MoreToShed(s, done)
           /\ \E todo \in Batches(Least(Batch, sweeps[s].goal - done), hot') :
                sweeps' = [sweeps EXCEPT ![s] = Selected(@.goal, done, todo, FALSE)]
           /\ UNCHANGED alarmSet
  <2> DEFINE g == sweeps[s].goal
  <2>1. g \in Nat /\ done < g /\ hot' # {}
    BY <1>1, <1>3 DEF MoreToShed, Sweep
  <2>2. PICK todo \in Batches(Least(Batch, g - done), hot') :
          sweeps' = [sweeps EXCEPT ![s] = Selected(g, done, todo, FALSE)]
    BY <1>3
  <2>3. todo \subseteq hot'
    BY <2>2, BatchSubset
  <2>4. Fresh(Selected(g, done, todo, FALSE), hot')
    BY <1>1, <2>1, <2>3, SelectedFresh
  <2>5. todo # {}
    <3>1. Cardinality(hot') \in Nat /\ Cardinality(hot') # 0
      BY <1>1, <2>1, HotSize, FS_EmptySet
    <3>2. Least(Least(Batch, g - done), Cardinality(hot')) # 0
      BY <2>1, <3>1, BoundsAssumption DEF Least
    <3>3. Cardinality(todo) # 0
      BY <2>2, <3>2 DEF Batches
    <3> QED
      BY <3>3, FS_EmptySet
  <2>6. Selected(g, done, todo, FALSE).pc # "idle"
    BY <2>5 DEF Selected
  <2> QED
    BY <1>1, <1>3, <2>2, <2>4, <2>6 DEF Fresh
<1>4. CASE /\ sweeps[s].todo = {} /\ ~MoreToShed(s, done)
           /\ s # Alarm \/ sweeps[s].aging
           /\ sweeps' = [sweeps EXCEPT ![s] = IdleSweep]
           /\ alarmSet' = (alarmSet \/ s = Alarm)
  BY <1>1, <1>4 DEF IdleSweep, Sweep
<1>5. CASE /\ sweeps[s].todo = {} /\ ~MoreToShed(s, done)
           /\ s = Alarm /\ ~sweeps[s].aging
           /\ AfterRelief(alarmSet, done)
  <2>1. PICK w : /\ Fresh(w, hot')
                 /\ sweeps' = [sweeps EXCEPT ![Alarm] = w]
                 /\ alarmSet' \in BOOLEAN
                 /\ OverHigh(hot') /\ done > 0 => alarmSet' \/ w.pc # "idle"
    BY <1>1, <1>5, AfterReliefFresh
  <2>2. alarmSet => alarmSet'
    BY <1>5 DEF AfterRelief
  <2>3. done > 0
    OBVIOUS
  <2> QED
    BY <1>5, <2>1, <2>2, <2>3 DEF Fresh
<1> QED
  BY <1>2, <1>3, <1>4, <1>5 DEF Continue

-----------------------------------------------------------------------------
(* Type correctness *)

LEMMA TypeStep == TypeOK /\ [Next]_vars => TypeOK'
<1> SUFFICES ASSUME TypeOK, [Next]_vars PROVE TypeOK'
  OBVIOUS
<1>1. ASSUME NEW m \in Msgs, PutRaw(m) PROVE TypeOK'
  BY <1>1 DEF TypeOK, PutRaw, Kinds, history
<1>2. ASSUME NEW m \in Msgs, Append(m) PROVE TypeOK'
  BY <1>2 DEF TypeOK, Append, EnsureAlarm, OverHigh, history
<1>3. ASSUME NEW m \in Msgs, LoseBody(m) PROVE TypeOK'
  BY <1>3, BoundsAssumption DEF TypeOK, LoseBody, sql
<1>4. ASSUME AlarmFires PROVE TypeOK'
  <2>1. hot' \subseteq Msgs /\ hot' = hot
    BY <1>4 DEF AlarmFires, TypeOK, sql
  <2>2. CASE OverHigh(hot) /\ StartRelief(Alarm) /\ alarmSet' = FALSE
    <3>1. PICK w : /\ Fresh(w, hot) /\ w.pc # "idle"
                   /\ sweeps' = [sweeps EXCEPT ![Alarm] = w]
      BY <2>2, AlarmAssumption, StartReliefFresh
    <3> QED
      BY <1>4, <2>2, <3>1 DEF AlarmFires, TypeOK, Fresh, sql, history
  <2>3. CASE AfterRelief(FALSE, 0)
    <3>1. PICK w : /\ Fresh(w, hot')
                   /\ sweeps' = [sweeps EXCEPT ![Alarm] = w]
                   /\ alarmSet' \in BOOLEAN
      BY <2>1, <2>3, AfterReliefFresh
    <3> QED
      BY <1>4, <3>1 DEF AlarmFires, TypeOK, Fresh, sql, history
  <2> QED
    BY <1>4, <2>2, <2>3 DEF AlarmFires
<1>5. ASSUME Crash PROVE TypeOK'
  BY <1>5, BoundsAssumption
  DEF TypeOK, Crash, IdleSweep, Sweep, IdleRead, Read, sql, history
<1>6. ASSUME NEW s \in Sweepers, PutBody(s) PROVE TypeOK'
  <2>1. PICK m \in {k \in sweeps[s].todo : \A j \in sweeps[s].todo : k <= j} :
          /\ r2' = r2 \cup {<<m, "body">>}
          /\ sweeps' = [sweeps EXCEPT ![s].pc = "mark", ![s].cur = m,
                                      ![s].todo = @ \ {m}]
    BY <1>6 DEF PutBody
  <2>2. sweeps[s] \in Sweep /\ m \in Msgs
    BY <2>1 DEF TypeOK, Sweep
  <2> DEFINE w == [sweeps[s] EXCEPT !.pc = "mark", !.cur = m, !.todo = @ \ {m}]
  <2>3. w \in Sweep
    BY <2>2 DEF Sweep
  <2>4. sweeps' = [sweeps EXCEPT ![s] = w]
    BY <2>1
  <2>5. sweeps' \in [Sweepers -> Sweep]
    BY <2>3, <2>4 DEF TypeOK
  <2>6. r2' \subseteq Msgs \X Kinds
    BY <2>1, <2>2 DEF TypeOK, Kinds
  <2> QED
    BY <1>6, <2>5, <2>6 DEF TypeOK, PutBody, sql, history
<1>7. ASSUME NEW s \in Sweepers, Mark(s) PROVE TypeOK'
  <2>1. sweeps[s].done + 1 \in Nat \ {0}
    BY DEF TypeOK, Sweep
  <2>2. PICK w : /\ w \in Sweep /\ sweeps' = [sweeps EXCEPT ![s] = w]
                 /\ alarmSet' \in BOOLEAN
    BY <1>7, <2>1, ContinueShape DEF Mark
  <2> QED
    BY <1>7, <2>2 DEF TypeOK, Mark, history
<1>8. ASSUME NEW s \in Sweepers, SweepFails(s) PROVE TypeOK'
  BY <1>8, BoundsAssumption DEF TypeOK, SweepFails, IdleSweep, Sweep, sql, history
<1>9. ASSUME NEW s \in Sweepers, OperatorRelieves(s) PROVE TypeOK'
  <2>1. PICK w : /\ Fresh(w, hot) /\ sweeps' = [sweeps EXCEPT ![s] = w]
    BY <1>9, StartReliefFresh DEF OperatorRelieves
  <2> QED
    BY <1>9, <2>1 DEF TypeOK, OperatorRelieves, Fresh, sql, history
<1>10. ASSUME NEW s \in Sweepers, NEW cutoff \in Msgs, OperatorSweeps(s, cutoff)
       PROVE  TypeOK'
  <2>1. PICK todo \in Aged(cutoff, hot) :
          sweeps' = [sweeps EXCEPT ![s] = Selected(0, 0, todo, TRUE)]
    BY <1>10 DEF OperatorSweeps
  <2>2. Fresh(Selected(0, 0, todo, TRUE), hot)
    BY <2>1, BatchSubset, SelectedFresh DEF Aged, TypeOK
  <2> QED
    BY <1>10, <2>1, <2>2 DEF TypeOK, OperatorSweeps, Fresh, sql, history
<1>11. ASSUME NEW r \in Readers, Hydrate(r) PROVE TypeOK'
  BY <1>11 DEF TypeOK, Hydrate, IdleRead, Read, sql, history
<1>12. ASSUME NEW r \in Readers, ReadEmpty(r) PROVE TypeOK'
  BY <1>12 DEF TypeOK, ReadEmpty, IdleRead, Read, sql, history
<1>13. ASSUME NEW r \in Readers, NEW m \in Msgs, ReadStart(r, m) PROVE TypeOK'
  BY <1>13 DEF TypeOK, ReadStart, Read, sql, history
<1>14. ASSUME NEW p \in Purgers, PurgerDies(p) PROVE TypeOK'
  <2>1. purges[p] \in Purge /\ purges[p].keys # {}
    BY <1>14 DEF PurgerDies, TypeOK
  <2> QED
    BY <1>14, <2>1, BoundsAssumption DEF TypeOK, PurgerDies, Purge, sql
<1>15. ASSUME NEW p \in Purgers, NEW m \in Msgs, Remove(p, m) PROVE TypeOK'
  BY <1>15 DEF TypeOK, Remove, RemovedKeys, Purge, Kinds
<1>16. ASSUME NEW p \in Purgers, NEW k \in Kinds, DeleteKey(p, k) PROVE TypeOK'
  BY <1>16 DEF TypeOK, DeleteKey, Purge, sql, history
<1>17. CASE UNCHANGED vars
  BY <1>17 DEF TypeOK, vars
<1> QED
  BY <1>1, <1>2, <1>3, <1>4, <1>5, <1>6, <1>7, <1>8, <1>9, <1>10, <1>11, <1>12,
     <1>13, <1>14, <1>15, <1>16, <1>17 DEF Next

LEMMA InitTyped == Init => TypeOK
<1> SUFFICES ASSUME Init PROVE TypeOK
  OBVIOUS
<1>1. PICK old \in SUBSET Legacy :
        /\ stage = [m \in Msgs |-> IF m \in old THEN "put" ELSE "new"]
        /\ r2 = old \X Kinds
  BY DEF Init
<1>2. stage \in [Msgs -> {"new", "put", "row", "gone"}]
  BY <1>1
<1>3. r2 \subseteq Msgs \X Kinds
  BY <1>1, MsgsAssumption
<1>4. IdleSweep \in Sweep /\ IdleRead \in Read
  BY DEF IdleSweep, Sweep, IdleRead, Read
<1>5. [msg |-> NoMsg, keys |-> {}] \in Purge
  BY DEF Purge
<1>6. 0 \in 0..MaxFaults
  BY BoundsAssumption
<1> QED
  BY <1>2, <1>3, <1>4, <1>5, <1>6 DEF Init, TypeOK

\* In every reachable state every variable has its type.
THEOREM TypeCorrect == Spec => []TypeOK
<1>1. Init => TypeOK
  BY InitTyped
<1> QED
  BY <1>1, TypeStep, PTL DEF Spec

-----------------------------------------------------------------------------
(* Safety *)

\* Starting or dropping a sweep, or dropping a read, breaks nothing.
LEMMA SweepStarts ==
    ASSUME IInv, TypeOK', UNCHANGED <<sql, r2, purges, history>>,
           \A s \in Sweepers : sweeps'[s] = sweeps[s] \/ Fresh(sweeps'[s], hot),
           \A r \in Readers : reads'[r] = reads[r] \/ reads'[r] = IdleRead
    PROVE  IInv'
<1> USE DEF IInv, sql, history
<1>1. StageOK' /\ PurgeOK' /\ BodyKept' /\ OrphanAccounted'
  BY DEF StageOK, PurgeOK, BodyKept, OrphanAccounted
<1>2. SweepOK'
  <2> SUFFICES ASSUME NEW s \in Sweepers
               PROVE  /\ sweeps'[s].pc = "mark" =>
                           /\ sweeps'[s].cur \in Msgs
                           /\ <<sweeps'[s].cur, "body">> \in r2 \cup (lost \X {"body"})
                                \/ stage[sweeps'[s].cur] = "gone"
                      /\ \A m \in Msgs : m \in sweeps'[s].todo \cup {sweeps'[s].cur} =>
                           stage[m] = "row" \/ (stage[m] = "gone" /\ m \in raced)
    BY DEF SweepOK
  <2>1. CASE sweeps'[s] = sweeps[s]
    BY <2>1 DEF SweepOK
  <2>2. CASE Fresh(sweeps'[s], hot)
    BY <2>2, MsgsAssumption DEF Fresh, StageOK, NoMsg
  <2> QED
    BY <2>1, <2>2
<1>3. ReadOK' /\ ReadFindsBody'
  BY DEF ReadOK, ReadFindsBody, IdleRead
<1> QED
  BY <1>1, <1>2, <1>3

\* A step of a reader, which touches nothing else.
LEMMA ReadSteps ==
    ASSUME IInv, TypeOK', UNCHANGED <<sql, r2, sweeps, purges, history>>,
           ReadOK', ReadFindsBody'
    PROVE  IInv'
BY DEF IInv, StageOK, SweepOK, PurgeOK, BodyKept, OrphanAccounted, sql, history

LEMMA InitInv == Init => IInv
<1> SUFFICES ASSUME Init PROVE IInv
  OBVIOUS
<1>1. PICK old \in SUBSET Legacy :
        /\ stage = [m \in Msgs |-> IF m \in old THEN "put" ELSE "new"]
        /\ r2 = old \X Kinds
  BY DEF Init
<1>2. \A m \in Msgs : /\ stage[m] \in {"new", "put"}
                      /\ stage[m] = "put" => m \in old
  BY <1>1
<1>3. StageOK /\ BodyKept /\ OrphanAccounted
  BY <1>1, <1>2 DEF Init, StageOK, BodyKept, OrphanAccounted, Kinds
<1>4. SweepOK
  BY MsgsAssumption DEF Init, SweepOK, IdleSweep, NoMsg
<1>5. ReadOK /\ PurgeOK /\ ReadFindsBody
  BY DEF Init, ReadOK, PurgeOK, ReadFindsBody, IdleRead
<1> QED
  BY <1>3, <1>4, <1>5, InitTyped DEF IInv

\* One step per action, and under it one per conjunct the action can disturb.
LEMMA InvStep == IInv /\ [Next]_vars => IInv'
<1> SUFFICES ASSUME IInv, [Next]_vars PROVE IInv'
  OBVIOUS
<1>0. TypeOK /\ TypeOK'
  BY TypeStep DEF IInv
<1>1. ASSUME NEW m \in Msgs, PutRaw(m) PROVE IInv'
  <2> USE <1>0, <1>1 DEF PutRaw, history
  <2>1. stage'[m] = "put" /\ \A k \in Msgs \ {m} : stage'[k] = stage[k]
    BY DEF TypeOK
  <2>2. r2 \subseteq r2' /\ <<m, "raw">> \in r2'
    OBVIOUS
  <2>3. \A j \in Msgs, k \in Kinds : <<j, k>> \in r2' /\ stage'[j] = "gone" => <<j, k>> \in r2
    BY <2>1
  <2>4. StageOK' /\ BodyKept'
    BY <2>1, <2>2 DEF IInv, StageOK, BodyKept, TypeOK
  <2>5. SweepOK'
    BY <2>1, <2>2 DEF IInv, SweepOK
  <2>6. ReadOK' /\ PurgeOK' /\ ReadFindsBody'
    BY <2>1 DEF IInv, ReadOK, PurgeOK, ReadFindsBody
  <2>7. OrphanAccounted'
    BY <2>1, <2>3 DEF IInv, OrphanAccounted
  <2> QED
    BY <2>4, <2>5, <2>6, <2>7 DEF IInv
<1>2. ASSUME NEW m \in Msgs, Append(m) PROVE IInv'
  <2> USE <1>0, <1>2 DEF Append, history
  <2>1. stage'[m] = "row" /\ stage[m] = "put" /\ \A k \in Msgs \ {m} : stage'[k] = stage[k]
    BY DEF TypeOK
  <2>2. \A k \in Msgs \ {m} : (k \in hot' <=> k \in hot) /\ (k \in archived' <=> k \in archived)
    OBVIOUS
  <2>3. /\ m \in hot' <=> m \notin archived'
        /\ m \in archived' => <<m, "body">> \in r2
    BY <2>1 DEF IInv, StageOK
  <2>4. StageOK'
    BY <2>1, <2>2 DEF IInv, StageOK, TypeOK
  <2>5. BodyKept'
    BY <2>1, <2>2, <2>3 DEF IInv, StageOK, BodyKept
  <2>6. SweepOK'
    BY <2>1 DEF IInv, SweepOK
  <2>7. ReadOK' /\ PurgeOK' /\ ReadFindsBody' /\ OrphanAccounted'
    BY <2>1 DEF IInv, ReadOK, PurgeOK, ReadFindsBody, OrphanAccounted
  <2> QED
    BY <2>4, <2>5, <2>6, <2>7 DEF IInv
<1>3. ASSUME NEW m \in Msgs, LoseBody(m) PROVE IInv'
  <2> USE <1>0, <1>3 DEF LoseBody, sql
  <2>1. r2' = r2 \ {<<m, "body">>} /\ lost' = lost \cup {m} /\ stage[m] = "row"
    OBVIOUS
  <2>2. StageOK' /\ BodyKept'
    BY <2>1 DEF IInv, StageOK, BodyKept
  <2>3. SweepOK'
    BY <2>1 DEF IInv, SweepOK
  <2>4. ReadOK' /\ PurgeOK' /\ ReadFindsBody' /\ OrphanAccounted'
    BY <2>1 DEF IInv, ReadOK, PurgeOK, ReadFindsBody, OrphanAccounted
  <2> QED
    BY <2>2, <2>3, <2>4 DEF IInv
<1>4. ASSUME AlarmFires PROVE IInv'
  <2>1. hot' \subseteq Msgs /\ hot' = hot
    BY <1>0, <1>4 DEF AlarmFires, TypeOK, sql
  <2>2. \E w : Fresh(w, hot) /\ sweeps' = [sweeps EXCEPT ![Alarm] = w]
    <3>1. CASE OverHigh(hot) /\ StartRelief(Alarm)
      BY <1>0, <3>1, AlarmAssumption, StartReliefFresh
    <3>2. CASE AfterRelief(FALSE, 0)
      <4>1. PICK w : Fresh(w, hot') /\ sweeps' = [sweeps EXCEPT ![Alarm] = w]
        BY <2>1, <3>2, AfterReliefFresh
      <4> QED
        BY <2>1, <4>1
    <3> QED
      BY <1>4, <3>1, <3>2 DEF AlarmFires
  <2>3. \A s \in Sweepers : sweeps'[s] = sweeps[s] \/ Fresh(sweeps'[s], hot)
    BY <1>0, <2>2 DEF TypeOK
  <2> QED
    BY <1>0, <1>4, <2>3, SweepStarts DEF AlarmFires, sql, history
<1>5. ASSUME Crash PROVE IInv'
  <2>1. Fresh(IdleSweep, hot)
    BY DEF Fresh, IdleSweep, Sweep
  <2>2. \A s \in Sweepers : Fresh(sweeps'[s], hot)
    BY <1>5, <2>1 DEF Crash
  <2> QED
    BY <1>0, <1>5, <2>2, SweepStarts DEF Crash, sql, history
<1>6. ASSUME NEW s \in Sweepers, PutBody(s) PROVE IInv'
  <2> USE <1>0
  <2>1. PICK m \in {k \in sweeps[s].todo : \A j \in sweeps[s].todo : k <= j} :
          /\ r2' = r2 \cup {<<m, "body">>}
          /\ sweeps' = [sweeps EXCEPT ![s].pc = "mark", ![s].cur = m,
                                      ![s].todo = @ \ {m}]
    BY <1>6 DEF PutBody
  <2>2. UNCHANGED <<sql, reads, purges, history>>
    BY <1>6 DEF PutBody
  <2>3. m \in Msgs /\ m \in sweeps[s].todo /\ r2 \subseteq r2' /\ <<m, "body">> \in r2'
    BY <2>1 DEF TypeOK, Sweep
  <2>4. stage[m] = "row" \/ (stage[m] = "gone" /\ m \in raced)
    BY <2>3 DEF IInv, SweepOK
  <2>5. /\ sweeps'[s].cur = m /\ sweeps'[s].todo \subseteq sweeps[s].todo
        /\ \A t \in Sweepers \ {s} : sweeps'[t] = sweeps[t]
    BY <2>1 DEF TypeOK, Sweep
  <2>6. SweepOK'
    <3> SUFFICES ASSUME NEW t \in Sweepers
                 PROVE  /\ sweeps'[t].pc = "mark" =>
                             /\ sweeps'[t].cur \in Msgs
                             /\ <<sweeps'[t].cur, "body">> \in r2' \cup (lost \X {"body"})
                                  \/ stage[sweeps'[t].cur] = "gone"
                        /\ \A k \in Msgs : k \in sweeps'[t].todo \cup {sweeps'[t].cur} =>
                             stage[k] = "row" \/ (stage[k] = "gone" /\ k \in raced)
      BY <2>2 DEF SweepOK, sql, history
    <3>1. CASE t = s
      BY <2>3, <2>4, <2>5, <3>1 DEF IInv, SweepOK
    <3>2. CASE t # s
      BY <2>3, <2>5, <3>2 DEF IInv, SweepOK
    <3> QED
      BY <3>1, <3>2
  <2>7. StageOK' /\ BodyKept' /\ ReadOK' /\ ReadFindsBody' /\ PurgeOK'
    BY <2>2, <2>3 DEF IInv, StageOK, BodyKept, ReadOK, ReadFindsBody, PurgeOK, sql, history
  <2>8. OrphanAccounted'
    BY <2>1, <2>2, <2>3, <2>4 DEF IInv, OrphanAccounted, sql, history
  <2> QED
    BY <2>6, <2>7, <2>8 DEF IInv
<1>7. ASSUME NEW s \in Sweepers, Mark(s) PROVE IInv'
  <2> USE <1>0
  <2> DEFINE cur == sweeps[s].cur
  <2>1. /\ hot' = hot \ {cur}
        /\ archived' = archived \cup {m \in Msgs : m = cur /\ stage[m] = "row"}
        /\ UNCHANGED <<stage, r2, reads, purges, history>>
    BY <1>7 DEF Mark
  <2>2. /\ cur \in Msgs
        /\ <<cur, "body">> \in r2 \cup (lost \X {"body"}) \/ stage[cur] = "gone"
    BY <1>7 DEF Mark, IInv, SweepOK
  <2>3. sweeps[s].done + 1 \in Nat \ {0}
    BY DEF TypeOK, Sweep
  <2>4. PICK w : /\ w \in Sweep /\ w.pc # "mark" /\ w.cur = NoMsg
                 /\ w.todo \subseteq sweeps[s].todo \cup hot'
                 /\ sweeps' = [sweeps EXCEPT ![s] = w]
    BY <1>7, <2>1, <2>3, ContinueShape DEF Mark
  <2>5. StageOK'
    BY <2>1 DEF IInv, StageOK
  <2>6. BodyKept'
    BY <2>1, <2>2 DEF IInv, BodyKept, history
  <2>7. SweepOK'
    <3> SUFFICES ASSUME NEW t \in Sweepers
                 PROVE  /\ sweeps'[t].pc = "mark" =>
                             /\ sweeps'[t].cur \in Msgs
                             /\ <<sweeps'[t].cur, "body">> \in r2 \cup (lost \X {"body"})
                                  \/ stage[sweeps'[t].cur] = "gone"
                        /\ \A k \in Msgs : k \in sweeps'[t].todo \cup {sweeps'[t].cur} =>
                             stage[k] = "row" \/ (stage[k] = "gone" /\ k \in raced)
      BY <2>1 DEF SweepOK, history
    <3>1. CASE t = s
      <4>1. sweeps'[t] = w
        BY <2>4, <3>1 DEF TypeOK
      <4>2. \A k \in Msgs : k \in w.todo => stage[k] = "row" \/ (stage[k] = "gone" /\ k \in raced)
        BY <2>1, <2>4 DEF IInv, SweepOK, StageOK
      <4>3. NoMsg \notin Msgs
        BY MsgsAssumption DEF NoMsg
      <4>4. w.pc # "mark" /\ w.cur = NoMsg
        BY <2>4
      <4> QED
        BY <4>1, <4>2, <4>3, <4>4
    <3>2. CASE t # s
      BY <2>4, <3>2 DEF IInv, SweepOK, TypeOK
    <3> QED
      BY <3>1, <3>2
  <2>8. ReadOK' /\ ReadFindsBody' /\ PurgeOK' /\ OrphanAccounted'
    BY <2>1 DEF IInv, ReadOK, ReadFindsBody, PurgeOK, OrphanAccounted, history
  <2> QED
    BY <2>5, <2>6, <2>7, <2>8 DEF IInv
<1>8. ASSUME NEW s \in Sweepers, SweepFails(s) PROVE IInv'
  <2>1. Fresh(IdleSweep, hot)
    BY DEF Fresh, IdleSweep, Sweep
  <2>2. \A t \in Sweepers : sweeps'[t] = sweeps[t] \/ Fresh(sweeps'[t], hot)
    BY <1>0, <1>8, <2>1 DEF SweepFails, TypeOK
  <2> QED
    BY <1>0, <1>8, <2>2, SweepStarts DEF SweepFails, sql, history
<1>9. ASSUME NEW s \in Sweepers, OperatorRelieves(s) PROVE IInv'
  <2>1. PICK w : Fresh(w, hot) /\ sweeps' = [sweeps EXCEPT ![s] = w]
    BY <1>0, <1>9, StartReliefFresh DEF OperatorRelieves
  <2>2. \A t \in Sweepers : sweeps'[t] = sweeps[t] \/ Fresh(sweeps'[t], hot)
    BY <1>0, <2>1 DEF TypeOK
  <2> QED
    BY <1>0, <1>9, <2>2, SweepStarts DEF OperatorRelieves, sql, history
<1>10. ASSUME NEW s \in Sweepers, NEW cutoff \in Msgs, OperatorSweeps(s, cutoff)
       PROVE  IInv'
  <2>1. PICK todo \in Aged(cutoff, hot) :
          sweeps' = [sweeps EXCEPT ![s] = Selected(0, 0, todo, TRUE)]
    BY <1>10 DEF OperatorSweeps
  <2>2. Fresh(Selected(0, 0, todo, TRUE), hot)
    BY <1>0, <2>1, BatchSubset, SelectedFresh DEF Aged, TypeOK
  <2>3. \A t \in Sweepers : sweeps'[t] = sweeps[t] \/ Fresh(sweeps'[t], hot)
    BY <1>0, <2>1, <2>2 DEF TypeOK
  <2> QED
    BY <1>0, <1>10, <2>3, SweepStarts DEF OperatorSweeps, sql, history
<1>11. ASSUME NEW r \in Readers, Hydrate(r) PROVE IInv'
  <2> USE <1>0, <1>11 DEF Hydrate
  <2>1. reads[r].msg \in Msgs /\ stage[reads[r].msg] \in {"row", "gone"}
    BY DEF IInv, ReadOK
  <2>2. /\ reads'[r].pc = "idle" \/ reads'[r].msg = reads[r].msg
        /\ reads'[r].pc = "empty" => <<reads[r].msg, "raw">> \notin r2
        /\ \A t \in Readers \ {r} : reads'[t] = reads[t]
    BY DEF TypeOK, Read, IdleRead
  <2>3. reads'[r].pc = "empty" => stage[reads[r].msg] = "gone"
    BY <2>1, <2>2 DEF IInv, BodyKept
  <2>4. ReadOK' /\ ReadFindsBody'
    BY <2>1, <2>2, <2>3 DEF IInv, ReadOK, ReadFindsBody, sql
  <2> QED
    BY <2>4, ReadSteps
<1>12. ASSUME NEW r \in Readers, ReadEmpty(r) PROVE IInv'
  <2>1. \A t \in Readers : reads'[t] = reads[t] \/ reads'[t] = IdleRead
    BY <1>0, <1>12 DEF ReadEmpty, TypeOK
  <2> QED
    BY <1>0, <1>12, <2>1, SweepStarts DEF ReadEmpty
<1>13. ASSUME NEW r \in Readers, NEW m \in Msgs, ReadStart(r, m) PROVE IInv'
  <2> USE <1>0, <1>13 DEF ReadStart
  <2>1. /\ reads'[r].pc = "body" /\ reads'[r].msg = m /\ stage[m] = "row"
        /\ \A t \in Readers \ {r} : reads'[t] = reads[t]
    BY DEF TypeOK
  <2>2. ReadOK' /\ ReadFindsBody'
    BY <2>1 DEF IInv, ReadOK, ReadFindsBody, sql
  <2> QED
    BY <2>2, ReadSteps
<1>14. ASSUME NEW p \in Purgers, PurgerDies(p) PROVE IInv'
  <2> USE <1>0, <1>14 DEF PurgerDies, sql
  <2>1. /\ leaked' = leaked \cup ({purges[p].msg} \X purges[p].keys)
        /\ purges'[p].keys = {} /\ purges'[p].msg = purges[p].msg
        /\ \A q \in Purgers \ {p} : purges'[q] = purges[q]
    BY DEF TypeOK, Purge
  <2>2. StageOK' /\ BodyKept' /\ SweepOK' /\ ReadOK' /\ ReadFindsBody'
    BY DEF IInv, StageOK, BodyKept, SweepOK, ReadOK, ReadFindsBody
  <2>3. PurgeOK'
    BY <2>1 DEF IInv, PurgeOK
  <2>4. OrphanAccounted'
    BY <2>1 DEF IInv, OrphanAccounted
  <2> QED
    BY <2>2, <2>3, <2>4 DEF IInv
<1>15. ASSUME NEW p \in Purgers, NEW m \in Msgs, Remove(p, m) PROVE IInv'
  <2> USE <1>0, <1>15 DEF Remove
  <2>1. /\ stage[m] = "row" /\ stage'[m] = "gone"
        /\ \A k \in Msgs \ {m} : stage'[k] = stage[k]
    BY DEF TypeOK
  <2>2. /\ purges'[p].msg = m /\ purges'[p].keys = RemovedKeys(m)
        /\ purges[p].keys = {}
        /\ \A q \in Purgers \ {p} : purges'[q] = purges[q]
    BY DEF TypeOK
  <2>3. raced \subseteq raced' /\ (HalfSwept(m) => m \in raced')
    OBVIOUS
  <2>4. StageOK'
    BY <2>1 DEF IInv, StageOK
  <2>5. BodyKept'
    BY <2>1 DEF IInv, BodyKept
  <2>6. SweepOK'
    BY <2>1, <2>3 DEF IInv, SweepOK, HalfSwept
  <2>7. ReadOK' /\ ReadFindsBody'
    BY <2>1 DEF IInv, ReadOK, ReadFindsBody
  <2>8. PurgeOK'
    BY <2>1, <2>2 DEF IInv, PurgeOK
  <2>9. OrphanAccounted'
    <3> SUFFICES ASSUME NEW j \in Msgs, NEW k \in Kinds, <<j, k>> \in r2, stage'[j] = "gone"
                 PROVE  \/ \E q \in Purgers : purges'[q].msg = j /\ k \in purges'[q].keys
                        \/ <<j, k>> \in leaked
                        \/ k = "body" /\ j \in raced'
      BY DEF OrphanAccounted
    <3>1. CASE j = m
      BY <2>2, <2>3, <3>1 DEF RemovedKeys, HalfSwept, Kinds
    <3>2. CASE j # m
      <4>1. stage[j] = "gone"
        BY <2>1, <3>2
      <4> QED
        BY <2>2, <2>3, <4>1 DEF IInv, OrphanAccounted
    <3> QED
      BY <3>1, <3>2
  <2> QED
    BY <2>4, <2>5, <2>6, <2>7, <2>8, <2>9 DEF IInv
<1>16. ASSUME NEW p \in Purgers, NEW k \in Kinds, DeleteKey(p, k) PROVE IInv'
  <2> USE <1>0, <1>16 DEF DeleteKey, sql, history
  <2> DEFINE m == purges[p].msg
  <2>1. m \in Msgs /\ stage[m] = "gone" /\ r2' = r2 \ {<<m, k>>}
    BY DEF IInv, PurgeOK
  <2>2. /\ purges'[p].msg = m /\ purges'[p].keys = purges[p].keys \ {k}
        /\ \A q \in Purgers \ {p} : purges'[q] = purges[q]
    BY DEF TypeOK, Purge
  <2>3. StageOK' /\ BodyKept' /\ SweepOK' /\ ReadOK' /\ ReadFindsBody'
    BY <2>1 DEF IInv, StageOK, BodyKept, SweepOK, ReadOK, ReadFindsBody
  <2>4. PurgeOK'
    BY <2>2 DEF IInv, PurgeOK
  <2>5. OrphanAccounted'
    BY <2>1, <2>2 DEF IInv, OrphanAccounted
  <2> QED
    BY <2>3, <2>4, <2>5 DEF IInv
<1>17. CASE UNCHANGED vars
  BY <1>0, <1>17, SweepStarts DEF vars, sql, history
<1> QED
  BY <1>1, <1>2, <1>3, <1>4, <1>5, <1>6, <1>7, <1>8, <1>9, <1>10, <1>11, <1>12,
     <1>13, <1>14, <1>15, <1>16, <1>17 DEF Next

LEMMA SafetyInv == Spec => []IInv
BY InitInv, InvStep, PTL DEF Spec

\* Whatever the interleaving of sweeps, removals, losses and crashes, a listed
\* message keeps its raw MIME and its body is in exactly one place.
THEOREM BodyIsKept == Spec => []BodyKept
<1>1. IInv => BodyKept
  BY DEF IInv
<1> QED
  BY <1>1, SafetyInv, PTL

\* get() serves an empty body only for a message deleted while it was reading.
THEOREM ReaderFindsBody == Spec => []ReadFindsBody
<1>1. IInv => ReadFindsBody
  BY DEF IInv
<1> QED
  BY <1>1, SafetyInv, PTL

\* The two ways an object outlives its message are the only ones.
THEOREM OrphansAccounted == Spec => []OrphanAccounted
<1>1. IInv => OrphanAccounted
  BY DEF IInv
<1> QED
  BY <1>1, SafetyInv, PTL

\* A step leaves a message that is gone as it is, without a body.
LEMMA GoneStep ==
    IInv /\ [Next]_vars =>
        \A m \in Msgs : stage[m] = "gone" =>
            stage'[m] = "gone" /\ m \notin hot' \cup archived'
<1> SUFFICES ASSUME IInv, [Next]_vars, NEW m \in Msgs, stage[m] = "gone"
             PROVE  stage'[m] = "gone" /\ m \notin hot' \cup archived'
  OBVIOUS
<1>1. IInv'
  BY InvStep
<1>2. stage'[m] = "gone"
  <2>1. \/ \E k \in Msgs : PutRaw(k) \/ Append(k)
        \/ \E p \in Purgers, k \in Msgs : Remove(p, k)
        \/ UNCHANGED stage
    BY DEF Next, vars, sql, LoseBody, AlarmFires, Crash, PutBody, Mark, SweepFails,
           OperatorRelieves, OperatorSweeps, Hydrate, ReadEmpty, ReadStart,
           PurgerDies, DeleteKey
  <2> QED
    BY <2>1 DEF PutRaw, Append, Remove, IInv, TypeOK
<1> QED
  BY <1>1, <1>2 DEF IInv, StageOK

\* Nothing brings a deleted message back, not even a sweep that still holds it.
THEOREM DeletedIsFinal == Spec => DeletedStaysDeleted
<1>1. IInv /\ [Next]_vars =>
        [\A m \in Msgs : stage[m] = "gone" =>
           stage'[m] = "gone" /\ m \notin hot' \cup archived']_vars
  BY GoneStep
<1> QED
  BY <1>1, SafetyInv, PTL DEF Spec, DeletedStaysDeleted

-----------------------------------------------------------------------------
(* The wake-up *)

\* Shedding or removing bodies never takes the thread over the high watermark.
LEMMA OverHighShrinks ==
    ASSUME hot \subseteq Msgs, hot' \subseteq hot, OverHigh(hot')
    PROVE  OverHigh(hot)
<1>1. IsFiniteSet(hot) /\ Cardinality(hot) \in Nat
  BY HotSize
<1>2. Cardinality(hot') <= Cardinality(hot) /\ Cardinality(hot') \in Nat
  BY <1>1, FS_Subset, FS_CardinalityType
<1> QED
  BY <1>1, <1>2, WatermarkAssumption DEF OverHigh

LEMMA PressureStep ==
    TypeOK /\ PressureHasAlarm /\ [Next]_vars => PressureHasAlarm'
<1> SUFFICES ASSUME TypeOK, PressureHasAlarm, [Next]_vars, OverHigh(hot')
             PROVE  alarmSet' \/ sweeps'[Alarm].pc # "idle"
  BY DEF PressureHasAlarm, OverHigh
<1> DEFINE Awake == alarmSet \/ sweeps[Alarm].pc # "idle"
<1>1. hot' \subseteq hot => Awake
  BY OverHighShrinks DEF TypeOK, PressureHasAlarm
<1>2. ASSUME NEW m \in Msgs, Append(m) PROVE Awake'
  BY <1>2 DEF Append, EnsureAlarm
<1>3. ASSUME AlarmFires PROVE Awake'
  <2>1. hot' = hot
    BY <1>3 DEF AlarmFires, sql
  <2>2. OverHigh(hot) /\ StartRelief(Alarm)
    BY <1>3, <2>1 DEF AlarmFires
  <2>3. PICK w : w.pc # "idle" /\ sweeps' = [sweeps EXCEPT ![Alarm] = w]
    BY <2>2, AlarmAssumption, StartReliefFresh
  <2> QED
    BY <2>3, AlarmAssumption DEF TypeOK
<1>4. ASSUME Crash PROVE Awake'
  BY <1>1, <1>4 DEF Crash, sql
<1>5. ASSUME NEW s \in Sweepers, PutBody(s) PROVE Awake'
  <2>1. Awake /\ UNCHANGED alarmSet
    BY <1>1, <1>5 DEF PutBody, sql
  <2>2. CASE s = Alarm
    BY <1>5, <2>2, AlarmAssumption DEF PutBody, TypeOK, Sweep
  <2>3. CASE s # Alarm
    BY <1>5, <2>1, <2>3, AlarmAssumption DEF PutBody, TypeOK, Sweep
  <2> QED
    BY <2>2, <2>3
<1>6. ASSUME NEW s \in Sweepers, Mark(s) PROVE Awake'
  <2>1. hot' \subseteq hot
    BY <1>6 DEF Mark
  <2>2. sweeps[s].done + 1 \in Nat \ {0}
    BY DEF TypeOK, Sweep
  <2>3. PICK w : /\ sweeps' = [sweeps EXCEPT ![s] = w]
                 /\ alarmSet => alarmSet'
                 /\ s = Alarm /\ OverHigh(hot') => alarmSet' \/ w.pc # "idle"
    BY <1>6, <2>1, <2>2, ContinueShape DEF Mark
  <2> QED
    BY <1>1, <2>1, <2>3, AlarmAssumption DEF TypeOK
<1>7. ASSUME NEW s \in Sweepers, SweepFails(s) PROVE Awake'
  BY <1>1, <1>7, AlarmAssumption DEF SweepFails, TypeOK, sql
<1>8. ASSUME NEW s \in Sweepers, s # Alarm, OperatorRelieves(s) PROVE Awake'
  BY <1>1, <1>8, AlarmAssumption DEF OperatorRelieves, StartRelief, TypeOK, sql
<1>9. ASSUME NEW s \in Sweepers, NEW cutoff \in Msgs, OperatorSweeps(s, cutoff)
      PROVE  Awake'
  BY <1>1, <1>9, AlarmAssumption DEF OperatorSweeps, TypeOK, sql
<1>10. ASSUME NEW p \in Purgers, NEW m \in Msgs, Remove(p, m) PROVE Awake'
  BY <1>1, <1>10 DEF Remove
<1>11. ASSUME UNCHANGED <<hot, alarmSet, sweeps>> PROVE Awake'
  BY <1>1, <1>11
<1> QED
  BY <1>2, <1>3, <1>4, <1>5, <1>6, <1>7, <1>8, <1>9, <1>10, <1>11
  DEF Next, PutRaw, LoseBody, Hydrate, ReadEmpty, ReadStart, PurgerDies, DeleteKey,
      OperatorRelieves, vars, sql

\* The thread is never over the high watermark with nobody coming to relieve it.
THEOREM PressureIsNoticed == Spec => []PressureHasAlarm
<1>1. Init => PressureHasAlarm
  <2>1. Cardinality({}) = 0
    BY FS_EmptySet
  <2>2. ~(0 >= High)
    BY WatermarkAssumption
  <2>3. Init => hot = {}
    BY DEF Init
  <2> QED
    BY <2>1, <2>2, <2>3 DEF PressureHasAlarm, OverHigh
<1>2. Init => TypeOK
  BY InitTyped
<1> QED
  BY <1>1, <1>2, TypeStep, PressureStep, PTL DEF Spec

-----------------------------------------------------------------------------
(* MailboxRelief *)

\* The row of the full-text index that message m is to have.
Entry(m) == [rowid |-> seq[m], id |-> m, body |-> m \notin trimmed]

\* Numbers are given once. What is trimmed is listed, and what is listed came.
NumbersOK ==
    /\ seq \in [Rows -> Nat] /\ lastSeq \in Nat
    /\ \A m \in Rows : seq[m] <= lastSeq
    /\ \A m, n \in I!Listed : seq[m] = seq[n] => m = n
    /\ trimmed \subseteq I!Listed /\ I!Listed \subseteq come

\* The inductive invariant: without the numbers being given once and in order, a
\* new row could make way for another, or be older than one that is trimmed.
DepthInv == NumbersOK /\ I!StaysFindable /\ I!NewestSearched

LEMMA Initially == I!Init => DepthInv
BY DEF I!Init, DepthInv, NumbersOK, I!StaysFindable, I!NewestSearched, I!Listed

\* A new number is nobody's, so no row makes way for the new one.
LEMMA IndexKeeps == ASSUME NEW m \in Rows, DepthInv, I!Index(m) PROVE DepthInv'
<1> USE DEF DepthInv
<1>1. /\ seq[m] = 0 /\ m \notin trimmed
      /\ seq' = [seq EXCEPT ![m] = lastSeq + 1] /\ lastSeq' = lastSeq + 1
      /\ trimmed' = trimmed /\ come' = come \cup {m}
  BY DEF I!Index, I!NextSeq, NumbersOK, I!Listed
<1>2. NumbersOK' /\ I!Listed' = I!Listed \cup {m}
  BY <1>1 DEF NumbersOK, I!Listed
<1>3. I!Hits({lastSeq + 1}) = {}
  BY DEF I!Hits, I!StaysFindable, NumbersOK, I!Listed
<1>4. fts' = fts \cup {[rowid |-> lastSeq + 1, id |-> m, body |-> TRUE]}
  BY <1>3 DEF I!Index, I!NextSeq
<1>5. \A n \in I!Listed : Entry(n)' = Entry(n)
  BY <1>1 DEF Entry, I!Listed, NumbersOK
<1>6. Entry(m)' = [rowid |-> lastSeq + 1, id |-> m, body |-> TRUE]
  BY <1>1 DEF Entry, NumbersOK
<1>7. fts = {Entry(n) : n \in I!Listed}
  BY DEF I!StaysFindable, Entry
<1>8. fts' = {Entry(n)' : n \in I!Listed'}
  BY <1>2, <1>4, <1>5, <1>6, <1>7
<1>9. I!StaysFindable'
  BY <1>8 DEF I!StaysFindable, Entry
<1>10. I!NewestSearched'
  <2>1. \A n \in I!Listed' : n # m => n \in I!Listed /\ seq'[n] = seq[n] /\ seq'[n] < seq'[m]
    BY <1>1, <1>2 DEF NumbersOK, I!Listed
  <2>2. SUFFICES ASSUME NEW k \in I!Listed', NEW n \in I!Listed', k \in trimmed, seq'[n] < seq'[k]
                 PROVE  n \in trimmed
    BY <1>1 DEF I!NewestSearched
  <2>3. k # m /\ seq'[k] \in Nat /\ seq'[n] \in Nat
    BY <1>1, <1>2, <2>2 DEF NumbersOK, I!Listed
  <2>4. n # m
    BY <2>1, <2>2, <2>3
  <2> QED
    BY <2>1, <2>2, <2>3, <2>4 DEF I!NewestSearched
<1> QED
  BY <1>2, <1>9, <1>10

\* A purged message takes its row along, and nobody else's.
LEMMA UnindexedKeeps ==
    ASSUME NEW m \in I!Listed, DepthInv, I!Unindexed(m), UNCHANGED come PROVE DepthInv'
<1> USE DEF DepthInv
<1>0. m \in Rows
  BY DEF I!Listed
<1>1. /\ seq' = [seq EXCEPT ![m] = 0] /\ UNCHANGED <<lastSeq, come>>
      /\ trimmed' = trimmed \ {m} /\ fts' = fts \ I!Hits({seq[m]})
  BY DEF I!Unindexed
<1>2. NumbersOK' /\ I!Listed' = I!Listed \ {m}
  BY <1>0, <1>1 DEF NumbersOK, I!Listed
<1>3. \A n \in I!Listed' : Entry(n)' = Entry(n)
  BY <1>0, <1>1, <1>2 DEF Entry, I!Listed, NumbersOK
<1>4. fts = {Entry(n) : n \in I!Listed}
  BY DEF I!StaysFindable, Entry
<1>5. I!Hits({seq[m]}) = {Entry(m)}
  BY <1>4 DEF I!Hits, Entry, NumbersOK
<1>6. \A n \in I!Listed' : Entry(n) # Entry(m)
  BY <1>2 DEF Entry
<1>7. fts' = {Entry(n)' : n \in I!Listed'}
  BY <1>1, <1>2, <1>3, <1>4, <1>5, <1>6
<1>8. I!StaysFindable'
  BY <1>7 DEF I!StaysFindable, Entry
<1>9. \A n \in I!Listed' : n \in I!Listed /\ seq'[n] = seq[n] /\ (n \in trimmed' <=> n \in trimmed)
  BY <1>0, <1>1, <1>2 DEF I!Listed, NumbersOK
<1>10. I!NewestSearched'
  BY <1>9 DEF I!NewestSearched
<1> QED
  BY <1>2, <1>8, <1>10

\* A set of messages that are trimmed together: with each, all that are older.
Downward(S) == \A m \in S, n \in I!Whole : seq[n] < seq[m] => n \in S

\* Each trimmed message gets its row back, without the body.
LEMMA TrimKeeps ==
    ASSUME NEW S \in SUBSET I!Listed, Downward(S), DepthInv, I!Trim(S), UNCHANGED come
    PROVE  DepthInv'
<1> USE DEF DepthInv
<1> DEFINE New(n) == [rowid |-> seq[n], id |-> n, body |-> FALSE]
<1>1. /\ UNCHANGED <<seq, lastSeq, come>> /\ trimmed' = trimmed \cup S
      /\ fts' = (fts \ I!Hits({seq[n] : n \in S})) \cup {New(n) : n \in S}
  BY DEF I!Trim
<1>2. NumbersOK' /\ I!Listed' = I!Listed
  BY <1>1 DEF NumbersOK, I!Listed
<1>3. \A n \in I!Listed : Entry(n)' = IF n \in S THEN New(n) ELSE Entry(n)
  BY <1>1 DEF Entry
<1>4. fts = {Entry(n) : n \in I!Listed}
  BY DEF I!StaysFindable, Entry
<1>5. I!Hits({seq[n] : n \in S}) = {Entry(n) : n \in S}
  <2>1. \A n \in I!Listed : seq[n] \in {seq[k] : k \in S} <=> n \in S
    BY DEF NumbersOK
  <2>2. \A n \in I!Listed : Entry(n).rowid = seq[n]
    BY DEF Entry
  <2> QED
    BY <1>4, <2>1, <2>2 DEF I!Hits
<1>6. \A n, k \in I!Listed : Entry(n) = Entry(k) => n = k
  BY DEF Entry
<1> HIDE DEF New
<1>7. fts' = {Entry(n)' : n \in I!Listed'}
  BY <1>1, <1>2, <1>3, <1>4, <1>5, <1>6
<1>8. I!StaysFindable'
  BY <1>7 DEF I!StaysFindable, Entry
<1>9. I!NewestSearched'
  BY <1>1, <1>2 DEF I!NewestSearched, I!Whole, Downward
<1> QED
  BY <1>2, <1>8, <1>9

LEMMA WipeKeeps == ASSUME DepthInv, I!DeleteAll PROVE DepthInv'
BY DEF I!DeleteAll, DepthInv, NumbersOK, I!StaysFindable, I!NewestSearched, I!Listed

LEMMA Same == ASSUME DepthInv, UNCHANGED I!index, UNCHANGED come PROVE DepthInv'
BY DEF I!index, DepthInv, NumbersOK, I!StaysFindable, I!NewestSearched, I!Listed

\* A run of relief takes a number of messages.
LEMMA TargetNumber == I!Target \in Nat
<1> DEFINE above(n) == n..IndexBudget
           R == StrictSubsetOrdering(Nat)
<1>0. IndexBudget \in Nat
  BY WakeupsAssumption
<1>1. ASSUME NEW S \in SUBSET (0..IndexBudget), S # {}
      PROVE  I!Max(S) \in S
  <2> DEFINE T == {above(n) : n \in S}
  <2>1. T \subseteq FiniteSubsetsOf(Nat) /\ T # {}
    <3>1. \A n \in S : n \in Nat /\ n \in Int /\ IndexBudget \in Int
      BY <1>0
    <3>2. \A n \in S : above(n) \subseteq Nat
      BY <3>1
    <3>3. \A n \in S : IsFiniteSet(above(n))
      BY <3>1, FS_Interval
    <3>4. \A n \in S : above(n) \in FiniteSubsetsOf(Nat)
      BY <3>2, <3>3 DEF FiniteSubsetsOf
    <3> HIDE DEF above
    <3> QED
      BY <1>1, <3>4
  <2>2. IsWellFoundedOn(R, FiniteSubsetsOf(Nat))
    BY FS_StrictSubsetOrderingWellFounded
  <2>3. PICK t \in T : \A u \in T : ~ (<<u, t>> \in R)
    <3> HIDE DEF T, R
    <3> QED
      BY <2>1, <2>2, WFMin
  <2>4. PICK n \in S : t = above(n)
    OBVIOUS
  <2>5. \A k \in S : k <= n
    <3> SUFFICES ASSUME NEW k \in S, n < k PROVE FALSE
      BY <1>0
    <3>1. above(k) \subseteq above(n) /\ above(k) # above(n)
      BY <1>0
    <3>2. <<above(k), above(n)>> \in R
      BY <3>1, <1>0 DEF StrictSubsetOrdering
    <3> QED
      BY <2>3, <2>4, <3>2
  <2> QED
    BY <2>5 DEF I!Max
<1>2. PICK need : I!Target = I!Max({0} \cup {k \in 1..IndexBudget : k <= need})
  BY DEF I!Target
<1> QED
  BY <1>1, <1>2, <1>0

\* The oldest of a set take all that are older along: fewer rows come before them.
LEMMA OldestDownward ==
    ASSUME DepthInv, NEW k \in Nat
    PROVE  I!Oldest(I!Whole, k) \in SUBSET I!Listed /\ Downward(I!Oldest(I!Whole, k))
<1> DEFINE Before(m) == {n \in I!Whole : seq[n] < seq[m]}
<1>1. \A m \in I!Whole : seq[m] \in Nat /\ m \in I!Listed
  BY DEF DepthInv, NumbersOK, I!Whole, I!Listed
<1>2. \A m \in I!Whole : IsFiniteSet(Before(m)) /\ Cardinality(Before(m)) \in Nat
  BY WakeupsAssumption, FS_Subset, FS_CardinalityType DEF I!Whole, I!Listed
<1>3. ASSUME NEW m \in I!Whole, NEW n \in I!Whole, seq[n] < seq[m]
      PROVE  Cardinality(Before(n)) <= Cardinality(Before(m))
  <2>1. Before(n) \in SUBSET Before(m)
    BY <1>1, <1>3
  <2> QED
    BY <1>2, <2>1, FS_Subset
<1>4. I!Oldest(I!Whole, k) = {m \in I!Whole : Cardinality(Before(m)) < k}
  BY DEF I!Oldest, I!Cardinality, Cardinality
<1> HIDE DEF Before
<1>5. Downward(I!Oldest(I!Whole, k))
  BY <1>2, <1>3, <1>4 DEF Downward
<1> QED
  BY <1>1, <1>4, <1>5

LEMMA Stepwise == DepthInv /\ [I!Next]_(I!vars) => DepthInv'
<1> SUFFICES ASSUME DepthInv, [I!Next]_(I!vars) PROVE DepthInv'
  OBVIOUS
<1>1. CASE \E m \in Rows : I!Receive(m) \/ I!SendOut(m)
  BY <1>1, IndexKeeps DEF I!Receive, I!SendOut
<1>2. CASE \E m \in Rows : I!Purge(m) \/ I!PurgeStep(m)
  BY <1>2, UnindexedKeeps DEF I!Purge, I!PurgeStep
<1>3. CASE I!OperatorRelieves
  BY <1>3, TrimKeeps, TargetNumber, OldestDownward DEF I!OperatorRelieves
<1>4. CASE I!AlarmRelieves
  <2>1. CASE I!Over
    BY <1>4, <2>1, TrimKeeps, TargetNumber, OldestDownward DEF I!AlarmRelieves, I!Relieve
  <2>2. CASE ~I!Over
    BY <1>4, <2>2, Same DEF I!AlarmRelieves, I!Relieve
  <2> QED
    BY <2>1, <2>2
<1>5. CASE I!DeleteAll
  BY <1>5, WipeKeeps
<1>6. CASE \/ \E m \in Rows : I!CheckPressure(m) \/ I!RunDies(m)
           \/ I!OtherWake \/ I!StartPurge \/ I!AlarmFires \/ I!AlarmCloses \/ I!ForgetMailbox \/ I!AlarmDies
           \/ UNCHANGED I!vars
  BY <1>6, Same DEF I!CheckPressure, I!RunDies, I!OtherWake, I!StartPurge, I!AlarmFires, I!AlarmCloses,
                    I!ForgetMailbox, I!AlarmDies, I!vars, I!index
<1> QED
  BY <1>1, <1>2, <1>3, <1>4, <1>5, <1>6 DEF I!Next, I!AlarmStep

\* An alarm of another object leaves the index alone.
LEMMA InScene == [WakeupsNext]_allVars => [I!Next]_(I!vars) \/ UNCHANGED depth
BY DEF WakeupsNext, InThread, InMailbox, InIndex, InQuestion, allVars

\* Each listed message is found by one row of the full-text index, its own: with
\* its body unless it was trimmed, by its header alone if it was; and only the
\* oldest are trimmed (relieve, index, unindex, #nextSeq).
THEOREM SearchDepthAlways == WakeupsSpec => []SearchDepth
<1>1. WakeupsInit => DepthInv
  BY Initially DEF WakeupsInit
<1>2. DepthInv /\ [WakeupsNext]_allVars => DepthInv'
  <2>1. DepthInv /\ UNCHANGED depth => DepthInv'
    BY Same DEF depth, I!index
  <2> QED
    BY <2>1, InScene, Stepwise
<1>3. DepthInv => SearchDepth
  BY DEF DepthInv, SearchDepth, I!SearchDepth
<1> QED
  BY <1>1, <1>2, <1>3, PTL DEF WakeupsSpec
=============================================================================
