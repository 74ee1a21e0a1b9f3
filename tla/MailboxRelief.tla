----------------------------- MODULE MailboxRelief -----------------------------
(***************************************************************************)
(* A mailbox index that runs out of room gives up the depth of search.     *)
(*                                                                         *)
(* Every message of a MailboxDO has a row in messages and one in the full- *)
(* text index messages_fts, under the row's sequence number. Over the high *)
(* watermark the alarm re-indexes the oldest ones without their body. The  *)
(* alarm is one slot, shared with the outbox, Gmail and the deletion of    *)
(* the mailbox; who writes to the index asks for it (checkPressure).       *)
(*                                                                         *)
(* A row takes one unit and Chars[m] more for the body in the full-text    *)
(* index. relieve has no await, so it is one step; the number it trims at  *)
(* is worked out beforehand, and the size it reports afterwards is the one *)
(* before (the space is given back when the transaction commits).          *)
(*                                                                         *)
(* A Bug... operator is the operator that follows it with a mistake in it. *)
(***************************************************************************)
EXTENDS Integers, FiniteSets, FiniteSetsExt

CONSTANTS
    Msgs,     \* messages that arrive or are sent, each once
    Ours,     \* those of them the owner sends
    Chars,    \* the size of each one's body in the full-text index
    Floor,    \* the least a trimmed message is taken to give back
    High,     \* high watermark
    Low,      \* low watermark
    Budget,   \* TRIM_BUDGET
    MaxFaults \* bound on runs and alarms that die

VARIABLES
    seq,       \* messages.seq of each message, 0 for none
    lastSeq,   \* seq_counter
    trimmed,   \* messages whose fts_trimmed is set
    fts,       \* the rows of messages_fts
    wakeup,    \* the alarm's slot
    handler,   \* what the alarm's handler is at
    relief,    \* what relieve told it
    purging,   \* the mailbox is being deleted
    come,      \* messages that have come
    unchecked, \* messages of runs that have yet to call checkPressure
    faults,
    unasked    \* history: what was written last was not followed by a check

vars == <<seq, lastSeq, trimmed, fts, wakeup, handler, relief, purging, come,
          unchecked, faults, unasked>>
index == <<seq, lastSeq, trimmed, fts>>

Listed == {m \in Msgs : seq[m] # 0}
Hits(rows) == {e \in fts : e.rowid \in rows}
Settled == [settled |-> TRUE, exhausted |-> FALSE]

Init ==
    /\ seq = [m \in Msgs |-> 0] /\ lastSeq = 0 /\ trimmed = {} /\ fts = {}
    /\ wakeup = FALSE /\ handler = "idle" /\ relief = Settled
    /\ purging = FALSE
    /\ come = {} /\ unchecked = {} /\ faults = 0 /\ unasked = FALSE

\* databaseSize
Size == Cardinality(Listed)
        + MapThenSumSet(LAMBDA e : IF e.body THEN Chars[e.id] ELSE 0, fts)
Over == Size >= High

-----------------------------------------------------------------------------
(* Writing to the index *)

\* Numbers the rows by how many there are.
BugNextSeq == Cardinality(Listed) + 1

\* #nextSeq
NextSeq == lastSeq + 1

\* index() of a message it has no row of.
Index(m) ==
    /\ m \notin come
    /\ come' = come \cup {m}
    /\ seq' = [seq EXCEPT ![m] = NextSeq]
    /\ lastSeq' = NextSeq
    /\ fts' = (fts \ Hits({NextSeq})) \cup {[rowid |-> NextSeq, id |-> m, body |-> TRUE]}
    /\ UNCHANGED <<trimmed, wakeup, handler, relief, purging, faults>>

\* ingest() indexes, and calls checkPressure some awaits later.
Receive(m) ==
    /\ m \notin Ours
    /\ Index(m)
    /\ unchecked' = unchecked \cup {m}
    /\ UNCHANGED unasked

\* send() indexes without the size of the body, and does not ask.
SendOut(m) == m \in Ours /\ Index(m) /\ unasked' = TRUE /\ UNCHANGED unchecked

\* An alarm only under pressure, and never over one that is set.
CheckPressure(m) ==
    /\ m \in unchecked
    /\ unchecked' = unchecked \ {m}
    /\ wakeup' = (wakeup \/ Over)
    /\ unasked' = FALSE
    /\ UNCHANGED <<index, handler, relief, purging, come, faults>>

\* The run dies before it has asked.
RunDies(m) ==
    /\ m \in unchecked /\ faults < MaxFaults
    /\ unchecked' = unchecked \ {m}
    /\ faults' = faults + 1 /\ unasked' = TRUE
    /\ UNCHANGED <<index, wakeup, handler, relief, purging, come>>

\* unindex()
Unindexed(m) ==
    /\ fts' = fts \ Hits({seq[m]})
    /\ seq' = [seq EXCEPT ![m] = 0]
    /\ trimmed' = trimmed \ {m}
    /\ UNCHANGED lastSeq

\* The owner purges a message.
Purge(m) ==
    /\ m \in Listed
    /\ Unindexed(m)
    /\ UNCHANGED <<wakeup, handler, relief, purging, come, unchecked, faults,
                   unasked>>

\* #wake and #wakeForOutbox, for Gmail and the outbox.
OtherWake ==
    /\ ~wakeup /\ wakeup' = TRUE
    /\ UNCHANGED <<index, handler, relief, purging, come, unchecked, faults,
                   unasked>>

-----------------------------------------------------------------------------
(* Relief *)

Whole == Listed \ trimmed

\* Rounded up.
Ceil(a, b) == (a + b - 1) \div b

\* The run is sized by the average body_chars of those still whole (none is given
\* for what is sent), up to the budget.
Target ==
    LET chars == MapThenSumSet(LAMBDA m : Chars[m], Whole \ Ours)
        n == Cardinality(Whole)
        need == IF chars > n * Floor THEN Ceil((Size - Low) * n, chars)
                ELSE Ceil(Size - Low, Floor)
    IN Max({0} \cup {k \in 1..Budget : k <= need})

\* ORDER BY seq ASC
Oldest(S, k) == {m \in S : Cardinality({n \in S : seq[n] < seq[m]}) < k}

\* The oldest are indexed again on their header alone.
Trim(S) ==
    /\ fts' = (fts \ Hits({seq[m] : m \in S}))
              \cup {[rowid |-> seq[m], id |-> m, body |-> FALSE] : m \in S}
    /\ trimmed' = trimmed \cup S
    /\ UNCHANGED <<seq, lastSeq>>

\* relieve: nothing below the high watermark; exhausted when all are trimmed.
Relieve ==
    IF ~Over THEN relief' = Settled /\ UNCHANGED index
    ELSE /\ Trim(Oldest(Whole, Target))
         /\ relief' = [settled |-> FALSE, exhausted |-> Cardinality(Whole) < Target]

\* The development route calls it, whatever the alarm is at.
OperatorRelieves ==
    /\ Over
    /\ Trim(Oldest(Whole, Target))
    /\ UNCHANGED <<wakeup, handler, relief, purging, come, unchecked, faults,
                   unasked>>

-----------------------------------------------------------------------------
(* The alarm *)

\* The slot is empty while its handler runs; first the outbox is drained.
AlarmFires ==
    /\ wakeup /\ handler = "idle"
    /\ wakeup' = FALSE /\ handler' = "drain"
    /\ UNCHANGED <<index, relief, purging, come, unchecked, faults,
                   unasked>>

AlarmRelieves ==
    /\ handler = "drain"
    /\ Relieve
    /\ handler' = "rest"
    /\ UNCHANGED <<wakeup, purging, come, unchecked, faults,
                   unasked>>

\* Gmail's turn, then the sooner of what Gmail, relief and the outbox want.
Close(other) == other \/ (~relief.settled /\ ~relief.exhausted)

AlarmCloses ==
    /\ handler = "rest" /\ ~purging
    /\ \E other \in BOOLEAN : wakeup' = (wakeup \/ Close(other))
    /\ handler' = "idle"
    /\ UNCHANGED <<index, relief, purging, come, unchecked, faults,
                   unasked>>

\* The object restarts, or a call throws: it is run again.
AlarmDies ==
    /\ handler # "idle" /\ faults < MaxFaults
    /\ faults' = faults + 1
    /\ wakeup' = TRUE /\ handler' = "idle"
    /\ UNCHANGED <<index, relief, purging, come, unchecked, unasked>>

-----------------------------------------------------------------------------
(* Deletion of the mailbox; the steps of one message are in Ingest *)

StartPurge ==
    /\ ~purging /\ Listed # {}
    /\ purging' = TRUE /\ wakeup' = TRUE
    /\ UNCHANGED <<index, handler, relief, come, unchecked, faults,
                   unasked>>

PurgeStep(m) ==
    /\ handler = "rest" /\ purging /\ m \in Listed
    /\ Unindexed(m)
    /\ wakeup' = TRUE /\ handler' = "idle"
    /\ UNCHANGED <<relief, purging, come, unchecked, faults,
                   unasked>>

\* No rows are left: the organization forgets the address ...
ForgetMailbox ==
    /\ handler = "rest" /\ purging /\ Listed = {}
    /\ handler' = "forget"
    /\ UNCHANGED <<index, wakeup, relief, purging, come, unchecked, faults,
                   unasked>>

\* ... and deleteAll takes what has come since, and the alarm.
DeleteAll ==
    /\ handler = "forget"
    /\ seq' = [m \in Msgs |-> 0] /\ lastSeq' = 0 /\ trimmed' = {} /\ fts' = {}
    /\ wakeup' = FALSE /\ handler' = "idle" /\ purging' = FALSE
    /\ UNCHANGED <<relief, come, unchecked, faults,
                   unasked>>

-----------------------------------------------------------------------------
AlarmStep == AlarmRelieves \/ AlarmCloses \/ (\E m \in Msgs : PurgeStep(m))
             \/ ForgetMailbox \/ DeleteAll

Next ==
    \/ \E m \in Msgs : Receive(m) \/ SendOut(m) \/ CheckPressure(m) \/ RunDies(m) \/ Purge(m)
    \/ OtherWake \/ OperatorRelieves \/ StartPurge
    \/ AlarmFires \/ AlarmStep \/ AlarmDies

\* The platform runs an alarm that is set, and its handler goes on.
Fairness == WF_vars(AlarmFires) /\ WF_vars(AlarmStep)

Spec == Init /\ [][Next]_vars /\ Fairness

-----------------------------------------------------------------------------
(* Correctness *)

TypeOK ==
    /\ seq \in [Msgs -> Nat] /\ lastSeq \in Nat
    /\ trimmed \subseteq Msgs
    /\ fts \subseteq [rowid: Nat, id: Msgs, body: BOOLEAN]
    /\ wakeup \in BOOLEAN /\ handler \in {"idle", "drain", "rest", "forget"}
    /\ relief \in [settled: BOOLEAN, exhausted: BOOLEAN]
    /\ purging \in BOOLEAN /\ come \subseteq Msgs /\ unchecked \subseteq Msgs
    /\ faults \in Nat /\ unasked \in BOOLEAN

\* "They stay listed, stay readable, and stay findable by header; they lose only
\* body-search depth" (README): each listed message is found, by its own row of
\* the full-text index and no other, and with its body unless it was trimmed.
StaysFindable ==
    fts = {[rowid |-> seq[m], id |-> m, body |-> m \notin trimmed] : m \in Listed}

\* Only the oldest are trimmed: a message that is newer than one that is still
\* searched by its body is too.
NewestSearched ==
    \A m, n \in Listed : m \in trimmed /\ seq[n] < seq[m] => n \in trimmed

SearchDepth == StaysFindable /\ NewestSearched

\* Over the high watermark, and asked about since the last write, the index comes
\* back under it or has no body left to give up, however often the alarm dies.
IndexRelieved ==
    Over /\ unchecked = {} /\ ~unasked ~> ~Over \/ Whole = {}
=============================================================================
