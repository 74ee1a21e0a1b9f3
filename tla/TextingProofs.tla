---------------------------- MODULE TextingProofs ----------------------------
(***************************************************************************)
(* Proofs about Texting, for any accounts, numbers and requests under way: *)
(* the four invariants TLC checks with two of each. Then about Texts, for  *)
(* any questions, links and requests to open one: it runs Texting and      *)
(* TextedLinks, and there an answer is texted once, and a link opens one   *)
(* session, whatever is turned on and off meanwhile.                       *)
(***************************************************************************)
EXTENDS Texts, TLAPS

-----------------------------------------------------------------------------
(* The inductive invariant *)

FeatureSet == ToSet(Features)

Calls == {"idle", "check", "confirm", "release", "claim", "silence", "feature", "line",
          "lookup", "pause", "owner", "stop", "view"}

Request == [act: {"none", "verify", "remove", "feature", "notice"} \cup Words, pc: Calls,
            a: Accounts \cup {None}, n: Numbers \cup {None}, old: Numbers \cup {None},
            prev: Accounts \cup {None}, f: 0..Len(Features)]

\* A request has what the call it makes next needs.
RequestOK(r) ==
    /\ r.pc # "idle" <=> r.act # "none"
    /\ r.pc \in {"check", "confirm", "claim", "silence"} => r.act = "verify"
    /\ r.act = "verify" \/ r.pc \in {"owner", "stop"} => r.n # None
    /\ r.pc \notin {"idle", "owner"} => r.a # None
    /\ r.pc \in {"feature", "stop"} => r.f # 0
    /\ r.pc = "silence" => r.prev \in Accounts \ {r.a}
    /\ r.pc = "release" => r.old \in Numbers

RunsOK ==
    /\ run \in [Workers -> Request]
    /\ \A w \in Workers : RequestOK(run[w])

Typed ==
    /\ row \in [Accounts -> Recorded]
    /\ owner \in [Numbers -> Accounts \cup {None}]
    /\ codes \subseteq Numbers /\ changed \subseteq Numbers
    /\ agreed \in [Accounts -> [FeatureSet -> Numbers \cup {None}]]
    /\ cut \subseteq Accounts /\ crossed \subseteq Accounts /\ found \subseteq Accounts
    /\ stopped \subseteq Numbers

\* STOP turns the features off one by one, and none that is off comes on again
\* meanwhile, but by a page that was late.
StopSoFar ==
    \A w \in Workers : run[w].pc = "stop" /\ run[w].a \notin crossed =>
        \A i \in 1..run[w].f - 1 : Features[i] \notin row[run[w].a].features

IInv ==
    /\ Typed /\ RunsOK
    /\ NumberHasOneOwner /\ AgreedForNumber /\ ChangePauses /\ StopSoFar /\ StopStops

-----------------------------------------------------------------------------
(* The features and the requests *)

LEMMA ThreeFeatures ==
    /\ Len(Features) = 3 /\ DOMAIN Features = 1..3
    /\ FeatureSet = {"notify", "links", "ask"}
    /\ \A i \in 1..3 : Features[i] \in FeatureSet
    /\ \A f \in FeatureSet : \E i \in 1..3 : f = Features[i]
BY DEF Features, FeatureSet, ToSet

LEMMA IdleOK == Idle \in Request /\ RequestOK(Idle)
BY ThreeFeatures DEF Idle, Request, RequestOK, Calls

\* The other requests stay as they are.
Others(w) == \A u \in Workers \ {w} : run'[u] = run[u]

LEMMA Moves ==
    ASSUME NEW w \in Workers, RunsOK, NEW r \in Request, RequestOK(r),
           run' = [run EXCEPT ![w] = r]
    PROVE  RunsOK' /\ Others(w) /\ run'[w] = r
BY DEF RunsOK, Others

LEMMA Goes ==
    ASSUME NEW w \in Workers, RunsOK, NEW pc, Go(w, pc),
           pc \in {"idle", "claim", "confirm", "line", "lookup", "pause"},
           run[w].pc \notin {"idle", "owner"} \/ pc = "idle",
           pc \in {"claim", "confirm"} => run[w].act = "verify"
    PROVE  /\ RunsOK' /\ Others(w)
           /\ run'[w].pc = pc
           /\ pc # "idle" => /\ run'[w].a = run[w].a /\ run'[w].n = run[w].n
                             /\ run'[w].act = run[w].act
<1>1. CASE pc = "idle"
  <2>1. run' = [run EXCEPT ![w] = Idle]
    BY <1>1 DEF Go
  <2>2. RunsOK' /\ Others(w) /\ run'[w] = Idle
    BY <2>1, Moves, IdleOK
  <2> QED
    BY <1>1, <2>2 DEF Idle
<1>2. CASE pc # "idle"
  <2> DEFINE r == [run[w] EXCEPT !.pc = pc]
  <2>1. run' = [run EXCEPT ![w] = r]
    BY <1>2 DEF Go
  <2>2. run[w] \in Request /\ RequestOK(run[w])
    BY DEF RunsOK
  <2>3. r \in Request
    BY <2>2 DEF Request, Calls
  <2>4. /\ r.pc = pc /\ r.a = run[w].a /\ r.n = run[w].n /\ r.act = run[w].act
        /\ r.f = run[w].f /\ r.prev = run[w].prev /\ r.old = run[w].old
    BY <2>2 DEF Request
  <2> HIDE DEF r
  <2>5. RequestOK(r)
    BY <1>2, <2>2, <2>4 DEF RequestOK
  <2>6. RunsOK' /\ Others(w) /\ run'[w] = r
    BY <2>1, <2>3, <2>5, Moves
  <2> QED
    BY <2>4, <2>6
<1> QED
  BY <1>1, <1>2

-----------------------------------------------------------------------------
(* What leaves each property as it is *)

\* No account gets a number or a feature.
RowsShrink ==
    \A a \in Accounts : /\ row'[a].phone \in {row[a].phone, None}
                        /\ row'[a].features \subseteq row[a].features

HistoryGrows == cut \subseteq cut' /\ crossed \subseteq crossed'

\* Whoever is in the middle of a verification stays there, or is cut off.
LEMMA OwnerKept ==
    ASSUME NEW w, IInv, RowsShrink, HistoryGrows, Others(w), owner' = owner,
           run[w].pc \in {"release", "claim", "silence"} =>
               run'[w] = run[w] \/ {run[w].a, run[w].prev} \ {None} \subseteq cut'
    PROVE  NumberHasOneOwner'
<1> SUFFICES ASSUME NEW a \in Accounts, row'[a].phone # None
             PROVE  LET n == row[a].phone IN
                    \/ owner[n] = a
                    \/ a \in cut' \cup crossed'
                    \/ \E u \in Workers : /\ run'[u].act = "verify" /\ run'[u].n = n
                                          /\ \/ run'[u].a = a /\ run'[u].pc \in {"release", "claim"}
                                             \/ run'[u].prev = a /\ run'[u].pc = "silence"
  BY DEF NumberHasOneOwner, RowsShrink
<1>1. \/ owner[row[a].phone] = a
      \/ a \in cut \cup crossed
      \/ \E u \in Workers : /\ run[u].act = "verify" /\ run[u].n = row[a].phone
                            /\ \/ run[u].a = a /\ run[u].pc \in {"release", "claim"}
                               \/ run[u].prev = a /\ run[u].pc = "silence"
  BY DEF IInv, NumberHasOneOwner, RowsShrink
<1>2. a # None
  BY AccountsAssumption
<1> QED
  BY <1>1, <1>2 DEF HistoryGrows, Others

LEMMA AgreedKept ==
    ASSUME IInv, RowsShrink, HistoryGrows, agreed' = agreed
    PROVE  AgreedForNumber'
BY DEF IInv, AgreedForNumber, RowsShrink, HistoryGrows

LEMMA PausesKept ==
    ASSUME NEW w, IInv, HistoryGrows, Others(w), found' \subseteq found,
           \A a \in found' : row[a].paused => row'[a].paused,
           run[w].pc = "pause" =>
               run'[w] = run[w] \/ run[w].a \in cut' \/ row'[run[w].a].paused
    PROVE  ChangePauses'
BY DEF IInv, ChangePauses, HistoryGrows, Others

LEMMA StopSoFarKept ==
    ASSUME NEW w, IInv, RowsShrink, HistoryGrows, Others(w),
           run'[w].pc # "stop" \/ run'[w] = run[w]
    PROVE  StopSoFar'
<1> SUFFICES ASSUME NEW u \in Workers, run'[u].pc = "stop", run'[u].a \notin crossed',
                    NEW i \in 1..run'[u].f - 1
             PROVE  Features[i] \notin row'[run'[u].a].features
  BY DEF StopSoFar
<1>1. run'[u] = run[u]
  BY DEF Others
<1>2. Features[i] \notin row[run[u].a].features
  BY <1>1 DEF IInv, StopSoFar, HistoryGrows
<1>3. run[u].a \in Accounts
  BY <1>1 DEF IInv, RunsOK, RequestOK, Request
<1> QED
  BY <1>1, <1>2, <1>3 DEF RowsShrink

LEMMA StopsKept ==
    ASSUME IInv, RowsShrink, HistoryGrows, stopped' \subseteq stopped
    PROVE  StopStops'
BY AccountsAssumption DEF IInv, Typed, StopStops, RowsShrink, HistoryGrows

\* A step that gives no account anything, and no request a new part in a
\* verification or a STOP, keeps what is to hold.
LEMMA Bystander ==
    ASSUME NEW w, IInv, Typed', RunsOK', RowsShrink, Others(w),
           UNCHANGED <<owner, agreed, cut, crossed>>,
           stopped' \subseteq stopped, found' \subseteq found,
           \A a \in found' : row[a].paused => row'[a].paused,
           run'[w] = run[w]
           \/ /\ run[w].pc \notin {"release", "claim", "silence", "pause"}
              /\ run'[w].pc # "stop"
    PROVE  IInv'
<1>1. HistoryGrows
  BY DEF HistoryGrows
<1>2. NumberHasOneOwner'
  BY <1>1, OwnerKept
<1>3. AgreedForNumber' /\ StopStops'
  BY <1>1, AgreedKept, StopsKept
<1>4. ChangePauses'
  BY <1>1, PausesKept
<1>5. StopSoFar'
  BY <1>1, StopSoFarKept
<1> QED
  BY <1>2, <1>3, <1>4, <1>5 DEF IInv

\* A row that is written over with no number or feature it did not have.
LEMMA RowWritten ==
    ASSUME NEW a \in Accounts, Typed, NEW r \in Recorded, Row(a, r),
           r.phone \in {row[a].phone, None}, r.features \subseteq row[a].features
    PROVE  /\ row' \in [Accounts -> Recorded] /\ row'[a] = r /\ RowsShrink
           /\ \A b \in Accounts \ {a} : row'[b] = row[b]
BY DEF Typed, Row, RowsShrink

\* A request begins where no request was under way.
LEMMA Begins ==
    ASSUME NEW w \in Workers, RunsOK, NEW r, Begin(w, r), r \in Request, RequestOK(r)
    PROVE  /\ RunsOK' /\ Others(w) /\ run'[w] = r /\ run[w].pc = "idle"
           /\ UNCHANGED <<owner, faults>>
BY Moves DEF Begin

-----------------------------------------------------------------------------
(* The settings page *)

LEMMA StartPhoneVerifyKeeps ==
    ASSUME NEW a \in Accounts, NEW n \in Numbers, IInv, StartPhoneVerify(a, n)
    PROVE  IInv'
<1>1. /\ Row(a, [row[a] EXCEPT !.pending = n]) /\ codes' = codes \cup {n}
      /\ UNCHANGED <<owner, changed, run, cut, crossed, agreed, found, stopped>>
  BY DEF StartPhoneVerify, history
<1>2. row[a] \in Recorded /\ [row[a] EXCEPT !.pending = n] \in Recorded
  BY DEF IInv, Typed, Recorded
<1>3. /\ row' \in [Accounts -> Recorded] /\ RowsShrink
      /\ \A b \in Accounts : row'[b].paused = row[b].paused
  BY <1>1, <1>2, RowWritten DEF IInv, Recorded
<1>4. Typed' /\ RunsOK'
  BY <1>1, <1>3 DEF IInv, Typed, RunsOK
<1> QED
  BY <1>1, <1>3, <1>4, Bystander DEF Others, IInv, Typed

LEMMA VerifyBeginsKeeps ==
    ASSUME NEW w \in Workers, NEW a \in Accounts, IInv, VerifyBegins(w, a)
    PROVE  IInv'
<1> DEFINE r == [Idle EXCEPT !.act = "verify", !.pc = "check", !.a = a, !.n = row[a].pending]
<1>1. Begin(w, r) /\ UNCHANGED <<row, codes, changed, cut, crossed, agreed, found, stopped>>
  BY DEF VerifyBegins, twilio, history
<1>2. row[a].pending \in Numbers
  BY DEF VerifyBegins, IInv, Typed, Recorded
<1>3. r \in Request /\ RequestOK(r) /\ r.pc = "check"
  <2>1. r \in Request /\ r.act = "verify" /\ r.pc = "check" /\ r.a = a /\ r.n = row[a].pending
    BY <1>2, IdleOK DEF Request, Calls
  <2> HIDE DEF r
  <2> QED
    BY <1>2, <2>1, AccountsAssumption DEF RequestOK
<1> HIDE DEF r
<1>4. /\ RunsOK' /\ Others(w) /\ run'[w].pc = "check" /\ run[w].pc = "idle"
      /\ UNCHANGED owner
  BY <1>1, <1>3, Begins DEF IInv
<1>5. Typed' /\ RowsShrink
  BY <1>1, <1>4 DEF IInv, Typed, RowsShrink
<1> QED
  BY <1>1, <1>4, <1>5, Bystander

LEMMA CheckVerifyKeeps == ASSUME NEW w \in Workers, IInv, CheckVerify(w) PROVE IInv'
<1>1. /\ run[w].pc = "check" /\ codes' \subseteq codes
      /\ Go(w, "confirm") \/ Go(w, "idle")
      /\ UNCHANGED <<row, owner, changed, cut, crossed, agreed, found, stopped>>
  BY DEF CheckVerify, At, history
<1>2. run[w].act = "verify"
  BY <1>1 DEF IInv, RunsOK, RequestOK
<1>3. RunsOK' /\ Others(w) /\ run'[w].pc \in {"confirm", "idle"}
  BY <1>1, <1>2, Goes DEF IInv
<1>4. Typed' /\ RowsShrink
  BY <1>1 DEF IInv, Typed, RowsShrink
<1> QED
  BY <1>1, <1>3, <1>4, Bystander

\* The row an account has once its number is confirmed.
LEMMA ConfirmedIs ==
    ASSUME NEW r \in Recorded, NEW n \in Numbers
    PROVE  /\ Confirmed(r, n) \in Recorded /\ Confirmed(r, n).phone = n
           /\ r.phone = n => Confirmed(r, n).features = r.features
           /\ r.phone # n => Confirmed(r, n).features = {}
BY DEF Recorded, Confirmed

LEMMA ConfirmPhoneKeeps == ASSUME NEW w \in Workers, IInv, ConfirmPhone(w) PROVE IInv'
<1>0. PICK a \in Accounts, n \in Numbers : a = run[w].a /\ n = run[w].n /\ run[w].act = "verify"
  BY DEF IInv, RunsOK, RequestOK, Request, ConfirmPhone, At
<1> DEFINE old == row[a].phone
           r == [run[w] EXCEPT !.old = old, !.pc = IF old \in {None, n} THEN "claim" ELSE "release"]
<1>1. /\ run[w].pc = "confirm" /\ row' = [row EXCEPT ![a] = Confirmed(row[a], n)]
      /\ run' = [run EXCEPT ![w] = r]
      /\ changed' = changed \ {n} /\ found' = found \ {a}
      /\ UNCHANGED <<owner, codes, cut, crossed, agreed, stopped>>
  BY <1>0 DEF ConfirmPhone, At, Row
<1>2. row[a] \in Recorded /\ old \in Numbers \cup {None}
  BY DEF IInv, Typed, Recorded
<1>3. /\ row' \in [Accounts -> Recorded] /\ row'[a].phone = n
      /\ row'[a].features = (IF old = n THEN row[a].features ELSE {})
      /\ \A b \in Accounts \ {a} : row'[b] = row[b]
  BY <1>1, <1>2, ConfirmedIs DEF IInv, Typed
<1>4. run[w] \in Request /\ RequestOK(run[w])
  BY DEF IInv, RunsOK
<1>5. /\ r \in Request /\ RequestOK(r) /\ r.pc \in {"claim", "release"}
      /\ r.a = a /\ r.n = n /\ r.act = "verify"
  <2>1. r \in Request
    BY <1>2, <1>4 DEF Request, Calls
  <2>2. /\ r.pc = IF old \in {None, n} THEN "claim" ELSE "release"
        /\ r.a = a /\ r.n = n /\ r.act = "verify" /\ r.old = old
    BY <1>0, <1>4 DEF Request
  <2> HIDE DEF r
  <2> QED
    BY <1>2, <2>1, <2>2, AccountsAssumption DEF RequestOK
<1> HIDE DEF r
<1>6. RunsOK' /\ Others(w) /\ run'[w] = r
  BY <1>1, <1>5, Moves DEF IInv
<1>7. Typed'
  BY <1>1, <1>3 DEF IInv, Typed
<1>8. NumberHasOneOwner'
  <2> SUFFICES ASSUME NEW b \in Accounts, row'[b].phone # None
               PROVE  LET m == row'[b].phone IN
                      \/ owner[m] = b
                      \/ b \in cut \cup crossed
                      \/ \E u \in Workers : /\ run'[u].act = "verify" /\ run'[u].n = m
                                            /\ \/ run'[u].a = b /\ run'[u].pc \in {"release", "claim"}
                                               \/ run'[u].prev = b /\ run'[u].pc = "silence"
    BY <1>1 DEF NumberHasOneOwner
  <2>1. CASE b = a
    BY <1>3, <1>5, <1>6, <2>1
  <2>2. CASE b # a
    BY <1>1, <1>3, <1>6, <2>2 DEF IInv, NumberHasOneOwner, Others
  <2> QED
    BY <2>1, <2>2
<1>9. AgreedForNumber'
  BY <1>1, <1>3 DEF IInv, AgreedForNumber
<1>10. ChangePauses'
  BY <1>1, <1>3, <1>6, PausesKept DEF HistoryGrows, IInv, Typed
<1>11. StopSoFar'
  <2> SUFFICES ASSUME NEW u \in Workers, run'[u].pc = "stop", run'[u].a \notin crossed,
                      NEW i \in 1..run'[u].f - 1
               PROVE  Features[i] \notin row'[run'[u].a].features
    BY <1>1 DEF StopSoFar
  <2>1. run'[u] = run[u] /\ run[u].a \in Accounts
    BY <1>5, <1>6 DEF Others, IInv, RunsOK, RequestOK, Request
  <2>2. Features[i] \notin row[run[u].a].features
    BY <2>1 DEF IInv, StopSoFar
  <2> QED
    BY <1>3, <2>1, <2>2
<1>12. StopStops'
  BY <1>1, <1>3 DEF IInv, StopStops
<1> QED
  BY <1>6, <1>7, <1>8, <1>9, <1>10, <1>11, <1>12 DEF IInv

LEMMA ReleaseKeeps == ASSUME NEW w \in Workers, IInv, Release(w) PROVE IInv'
<1>0. PICK a \in Accounts, n \in Numbers : a = run[w].a /\ n = run[w].old
  BY DEF IInv, RunsOK, RequestOK, Request, Release, At
<1> DEFINE o == owner[n]
<1>1. /\ run[w].pc = "release"
      /\ owner' = [owner EXCEPT ![n] = IF Releases(a, o) THEN None ELSE o]
      /\ crossed' = IF o # None /\ UserOf[o] = UserOf[a] /\ row[o].phone = n
                    THEN crossed \cup {o} ELSE crossed
      /\ Go(w, IF run[w].act = "verify" THEN "claim" ELSE "idle")
      /\ UNCHANGED <<row, codes, changed, cut, agreed, found, stopped>>
  BY <1>0 DEF Release, At, twilio
<1>2. o \in Accounts \cup {None}
  BY DEF IInv, Typed
<1>3. /\ RunsOK' /\ Others(w) /\ run'[w].pc = IF run[w].act = "verify" THEN "claim" ELSE "idle"
      /\ run[w].act = "verify" => /\ run'[w].a = run[w].a /\ run'[w].n = run[w].n
                                  /\ run'[w].act = "verify"
  BY <1>1, Goes DEF IInv
<1>4. crossed \subseteq crossed' /\ crossed' \subseteq Accounts
  BY <1>1, <1>2 DEF IInv, Typed
<1>5. Typed'
  BY <1>1, <1>2, <1>4 DEF IInv, Typed
<1>6. RowsShrink /\ HistoryGrows
  BY <1>1, <1>4 DEF RowsShrink, HistoryGrows
<1>7. NumberHasOneOwner'
  <2> SUFFICES ASSUME NEW b \in Accounts, row[b].phone # None
               PROVE  LET m == row[b].phone IN
                      \/ owner'[m] = b
                      \/ b \in cut \cup crossed'
                      \/ \E u \in Workers : /\ run'[u].act = "verify" /\ run'[u].n = m
                                            /\ \/ run'[u].a = b /\ run'[u].pc \in {"release", "claim"}
                                               \/ run'[u].prev = b /\ run'[u].pc = "silence"
    BY <1>1 DEF NumberHasOneOwner
  <2> DEFINE m == row[b].phone
  <2>1. CASE owner[m] = b /\ b \notin crossed'
    <3>1. ~ (m = n /\ Releases(a, o))
      BY <1>1, <2>1 DEF Releases
    <3>2. m \in Numbers
      BY DEF IInv, Typed, Recorded
    <3> QED
      BY <1>1, <2>1, <3>1, <3>2 DEF IInv, Typed
  <2>2. CASE b \in cut \cup crossed
    BY <1>4, <2>2
  <2>3. ASSUME NEW u \in Workers, run[u].act = "verify", run[u].n = m,
               \/ run[u].a = b /\ run[u].pc \in {"release", "claim"}
               \/ run[u].prev = b /\ run[u].pc = "silence"
        PROVE  /\ run'[u].act = "verify" /\ run'[u].n = m
               /\ \/ run'[u].a = b /\ run'[u].pc \in {"release", "claim"}
                  \/ run'[u].prev = b /\ run'[u].pc = "silence"
    BY <1>1, <1>3, <2>3 DEF Others
  <2> QED
    BY <2>1, <2>2, <2>3 DEF IInv, NumberHasOneOwner
<1>8. AgreedForNumber' /\ StopStops'
  BY <1>1, <1>6, AgreedKept, StopsKept
<1>9. ChangePauses'
  BY <1>1, <1>3, <1>6, PausesKept
<1>10. StopSoFar'
  BY <1>3, <1>6, StopSoFarKept
<1> QED
  BY <1>3, <1>5, <1>7, <1>8, <1>9, <1>10 DEF IInv

LEMMA ClaimKeeps == ASSUME NEW w \in Workers, IInv, Claim(w) PROVE IInv'
<1>0. PICK a \in Accounts, n \in Numbers : a = run[w].a /\ n = run[w].n /\ run[w].act = "verify"
  BY DEF IInv, RunsOK, RequestOK, Request, Claim, At
<1> DEFINE prev == Previous(a, n)
           r == [run[w] EXCEPT !.pc = "silence", !.prev = prev]
<1>1. /\ run[w].pc = "claim" /\ owner' = [owner EXCEPT ![n] = a]
      /\ prev = None => Go(w, "idle")
      /\ prev # None => run' = [run EXCEPT ![w] = r]
      /\ UNCHANGED <<row, codes, changed, cut, crossed, agreed, found, stopped>>
  BY <1>0 DEF Claim, At, twilio, history
<1>2. prev \in (Accounts \cup {None}) \ {a} /\ (owner[n] # a => prev = owner[n])
  BY AccountsAssumption DEF IInv, Typed, Previous
<1>3. run[w] \in Request /\ RequestOK(run[w])
  BY DEF IInv, RunsOK
<1>4. /\ RunsOK' /\ Others(w) /\ run'[w].pc \in {"idle", "silence"}
      /\ prev # None => /\ run'[w].pc = "silence" /\ run'[w].prev = prev
                        /\ run'[w].n = n /\ run'[w].act = "verify"
  <2>1. CASE prev # None
    <3>1. run[w] \in Request /\ prev \in Accounts \cup {None}
      BY <1>2, <1>3
    <3>2. /\ r \in Request /\ r.pc = "silence" /\ r.prev = prev
          /\ r.a = a /\ r.n = n /\ r.act = "verify"
      BY <1>0, <3>1 DEF Request, Calls
    <3>3. RequestOK(r)
      <4> HIDE DEF r, prev
      <4> QED
        BY <1>2, <2>1, <3>2, AccountsAssumption DEF RequestOK
    <3>4. RunsOK' /\ Others(w) /\ run'[w] = r
      BY <1>1, <2>1, <3>2, <3>3, Moves DEF IInv
    <3> HIDE DEF r
    <3> QED
      BY <3>2, <3>4
  <2>2. CASE prev = None
    BY <1>1, <2>2, Goes DEF IInv
  <2> QED
    BY <2>1, <2>2
<1>5. Typed'
  BY <1>1 DEF IInv, Typed
<1>6. RowsShrink /\ HistoryGrows
  BY <1>1 DEF RowsShrink, HistoryGrows
<1>7. NumberHasOneOwner'
  <2> SUFFICES ASSUME NEW b \in Accounts, row[b].phone # None
               PROVE  LET m == row[b].phone IN
                      \/ owner'[m] = b
                      \/ b \in cut \cup crossed
                      \/ \E u \in Workers : /\ run'[u].act = "verify" /\ run'[u].n = m
                                            /\ \/ run'[u].a = b /\ run'[u].pc \in {"release", "claim"}
                                               \/ run'[u].prev = b /\ run'[u].pc = "silence"
    BY <1>1 DEF NumberHasOneOwner
  <2> DEFINE m == row[b].phone
  <2>0. owner'[n] = a /\ \A x \in Numbers \ {n} : owner'[x] = owner[x]
    BY <1>1 DEF IInv, Typed
  <2>1. m \in Numbers
    BY DEF IInv, Typed, Recorded
  <2>2. CASE m = n /\ b = a
    BY <2>0, <2>2
  <2>3. CASE owner[m] = b /\ m # n
    BY <2>0, <2>1, <2>3
  <2>4. CASE owner[m] = b /\ m = n /\ b # a
    <3>1. prev = b /\ b # None
      BY <1>2, <2>4, AccountsAssumption
    <3> HIDE DEF prev
    <3> QED
      BY <1>4, <2>4, <3>1
  <2>5. ASSUME NEW u \in Workers, run[u].act = "verify", run[u].n = m, ~ (m = n /\ b = a),
               \/ run[u].a = b /\ run[u].pc \in {"release", "claim"}
               \/ run[u].prev = b /\ run[u].pc = "silence"
        PROVE  u # w
    BY <1>0, <1>1, <2>5
  <2> QED
    BY <1>4, <2>2, <2>3, <2>4, <2>5 DEF IInv, NumberHasOneOwner, Others
<1>8. AgreedForNumber' /\ StopStops'
  BY <1>1, <1>6, AgreedKept, StopsKept
<1>9. ChangePauses'
  BY <1>1, <1>4, <1>6, PausesKept
<1>10. StopSoFar'
  BY <1>4, <1>6, StopSoFarKept
<1> QED
  BY <1>4, <1>5, <1>7, <1>8, <1>9, <1>10 DEF IInv

LEMMA RemovedIs ==
    ASSUME NEW r \in Recorded
    PROVE  Removed(r) \in Recorded /\ Removed(r).phone = None /\ Removed(r).features = {}
BY DEF Recorded, Removed

LEMMA SilenceKeeps == ASSUME NEW w \in Workers, IInv, Silence(w) PROVE IInv'
<1>0. PICK b \in Accounts : b = run[w].prev
  BY DEF IInv, RunsOK, RequestOK, Silence, At
<1>1. /\ run[w].pc = "silence" /\ Row(b, Removed(row[b])) /\ Go(w, "idle")
      /\ found' = found \ {b}
      /\ UNCHANGED <<owner, codes, changed, cut, crossed, agreed, stopped>>
  BY <1>0 DEF Silence, At, twilio
<1>2. row[b] \in Recorded
  BY DEF IInv, Typed
<1>3. /\ row' \in [Accounts -> Recorded] /\ RowsShrink /\ row'[b].phone = None
      /\ \A c \in Accounts \ {b} : row'[c] = row[c]
  BY <1>1, <1>2, RemovedIs, RowWritten DEF IInv
<1>4. RunsOK' /\ Others(w) /\ run'[w].pc = "idle"
  BY <1>1, Goes DEF IInv
<1>5. Typed' /\ HistoryGrows
  BY <1>1, <1>3 DEF IInv, Typed, HistoryGrows
<1>6. NumberHasOneOwner'
  <2> SUFFICES ASSUME NEW c \in Accounts, row'[c].phone # None
               PROVE  LET m == row'[c].phone IN
                      \/ owner[m] = c
                      \/ c \in cut \cup crossed
                      \/ \E u \in Workers : /\ run'[u].act = "verify" /\ run'[u].n = m
                                            /\ \/ run'[u].a = c /\ run'[u].pc \in {"release", "claim"}
                                               \/ run'[u].prev = c /\ run'[u].pc = "silence"
    BY <1>1 DEF NumberHasOneOwner
  <2>1. c # b /\ row'[c] = row[c]
    BY <1>3
  <2> QED
    BY <1>0, <1>1, <1>4, <2>1 DEF IInv, NumberHasOneOwner, Others
<1>7. AgreedForNumber' /\ StopStops'
  BY <1>1, <1>3, <1>5, AgreedKept, StopsKept
<1>8. ChangePauses'
  <2>1. \A a \in found' : row[a].paused => row'[a].paused
    BY <1>1, <1>3 DEF IInv, Typed
  <2> QED
    BY <1>1, <1>4, <1>5, <2>1, PausesKept
<1>9. StopSoFar'
  BY <1>3, <1>4, <1>5, StopSoFarKept
<1> QED
  BY <1>4, <1>5, <1>6, <1>7, <1>8, <1>9 DEF IInv

LEMMA RemovePhoneKeeps ==
    ASSUME NEW w \in Workers, NEW a \in Accounts, IInv, RemovePhone(w, a)
    PROVE  IInv'
<1> DEFINE r == [Idle EXCEPT !.act = "remove", !.pc = "release", !.a = a, !.old = row[a].phone]
<1>1. /\ Begin(w, r) /\ Row(a, Removed(row[a])) /\ found' = found \ {a}
      /\ UNCHANGED <<codes, changed, cut, crossed, agreed, stopped>>
  BY DEF RemovePhone, twilio
<1>2. row[a] \in Recorded /\ row[a].phone \in Numbers
  BY DEF RemovePhone, IInv, Typed, Recorded
<1>3. r \in Request /\ RequestOK(r) /\ r.pc = "release"
  <2>1. /\ r \in Request /\ r.act = "remove" /\ r.pc = "release" /\ r.a = a
        /\ r.old = row[a].phone
    BY <1>2, IdleOK DEF Request, Calls
  <2> HIDE DEF r
  <2> QED
    BY <1>2, <2>1, AccountsAssumption DEF RequestOK
<1> HIDE DEF r
<1>4. /\ RunsOK' /\ Others(w) /\ run'[w].pc = "release" /\ run[w].pc = "idle"
      /\ UNCHANGED owner
  BY <1>1, <1>3, Begins DEF IInv
<1>5. /\ row' \in [Accounts -> Recorded] /\ RowsShrink
      /\ \A c \in Accounts \ {a} : row'[c] = row[c]
  BY <1>1, <1>2, RemovedIs, RowWritten DEF IInv
<1>6. Typed' /\ \A c \in found' : row[c].paused => row'[c].paused
  BY <1>1, <1>4, <1>5 DEF IInv, Typed
<1> QED
  BY <1>1, <1>4, <1>5, <1>6, Bystander

LEMMA FeatureBeginsKeeps ==
    ASSUME NEW w \in Workers, NEW a \in Accounts, NEW i \in DOMAIN Features, IInv,
           FeatureBegins(w, a, i)
    PROVE  IInv'
<1> DEFINE r == [Idle EXCEPT !.act = "feature", !.pc = "feature", !.a = a, !.f = i,
                   !.n = row[a].phone]
<1>1. /\ Begin(w, r) /\ stopped' = stopped \ {row[a].phone}
      /\ UNCHANGED <<row, codes, changed, cut, crossed, agreed, found>>
  BY DEF FeatureBegins, twilio
<1>2. row[a].phone \in Numbers
  BY DEF FeatureBegins, IInv, Typed, Recorded
<1>3. r \in Request /\ RequestOK(r) /\ r.pc = "feature"
  <2>1. /\ r \in Request /\ r.act = "feature" /\ r.pc = "feature" /\ r.a = a /\ r.f = i
        /\ i # 0
    <3>1. i \in 0..Len(Features) /\ i # 0
      BY ThreeFeatures
    <3> QED
      BY <1>2, <3>1, IdleOK DEF Request, Calls
  <2> HIDE DEF r
  <2> QED
    BY <2>1, AccountsAssumption DEF RequestOK
<1> HIDE DEF r
<1>4. /\ RunsOK' /\ Others(w) /\ run'[w].pc = "feature" /\ run[w].pc = "idle"
      /\ UNCHANGED owner
  BY <1>1, <1>3, Begins DEF IInv
<1>5. Typed' /\ RowsShrink /\ stopped' \subseteq stopped
  BY <1>1, <1>4 DEF IInv, Typed, RowsShrink
<1> QED
  BY <1>1, <1>4, <1>5, Bystander

LEMMA FeatureOnKeeps == ASSUME NEW w \in Workers, IInv, FeatureOn(w) PROVE IInv'
<1>0. PICK a \in Accounts, f \in FeatureSet : a = run[w].a /\ f = Features[run[w].f]
  BY ThreeFeatures DEF IInv, RunsOK, RequestOK, Request, FeatureOn, At
<1> DEFINE n == run[w].n
           r == [row[a] EXCEPT !.features = @ \cup {f}]
<1>1. /\ run[w].pc = "feature" /\ row' = [row EXCEPT ![a] = r]
      /\ agreed' = [agreed EXCEPT ![a] = [agreed[a] EXCEPT ![f] = n]]
      /\ crossed' = IF \/ row[a].phone # n \/ n \in stopped
                       \/ \E u \in Workers : run[u].pc = "stop" /\ run[u].a = a
                    THEN crossed \cup {a} ELSE crossed
      /\ Go(w, "idle")
      /\ UNCHANGED <<owner, codes, changed, cut, found, stopped>>
  BY <1>0 DEF FeatureOn, At, Row, twilio
<1>2. row[a] \in Recorded /\ n \in Numbers \cup {None}
  BY DEF IInv, Typed, RunsOK, Request
<1>3. /\ row' \in [Accounts -> Recorded]
      /\ row'[a].phone = row[a].phone /\ row'[a].features = row[a].features \cup {f}
      /\ row'[a].paused = row[a].paused
      /\ \A b \in Accounts \ {a} : row'[b] = row[b]
  <2>1. /\ r \in Recorded /\ r.phone = row[a].phone /\ r.features = row[a].features \cup {f}
        /\ r.paused = row[a].paused
    BY <1>2 DEF Recorded, FeatureSet
  <2> HIDE DEF r
  <2> QED
    BY <1>1, <2>1 DEF IInv, Typed
<1>4. /\ agreed' \in [Accounts -> [FeatureSet -> Numbers \cup {None}]]
      /\ agreed'[a][f] = n
      /\ \A g \in FeatureSet \ {f} : agreed'[a][g] = agreed[a][g]
      /\ \A b \in Accounts \ {a} : agreed'[b] = agreed[b]
  BY <1>1, <1>2 DEF IInv, Typed
<1>5. /\ crossed \subseteq crossed' /\ crossed' \subseteq Accounts
      /\ a \notin crossed' =>
           /\ row[a].phone = n /\ n \notin stopped
           /\ \A u \in Workers : ~ (run[u].pc = "stop" /\ run[u].a = a)
  BY <1>1 DEF IInv, Typed
<1>6. RunsOK' /\ Others(w) /\ run'[w].pc = "idle"
  BY <1>1, Goes DEF IInv
<1>7. Typed' /\ HistoryGrows
  BY <1>1, <1>3, <1>4, <1>5 DEF IInv, Typed, HistoryGrows
<1>8. NumberHasOneOwner'
  <2>1. \A b \in Accounts : row'[b].phone = row[b].phone
    BY <1>3
  <2> QED
    BY <1>1, <1>5, <1>6, <2>1 DEF IInv, NumberHasOneOwner, Others
<1>9. AgreedForNumber'
  <2> SUFFICES ASSUME NEW b \in Accounts \ crossed', NEW g \in row'[b].features,
                      row'[b].phone # None
               PROVE  agreed'[b][g] = row'[b].phone
    BY DEF AgreedForNumber
  <2>1. g \in FeatureSet
    BY <1>3 DEF Recorded, FeatureSet
  <2>2. CASE b = a /\ g = f
    BY <1>3, <1>4, <1>5, <2>2
  <2>3. CASE b = a /\ g # f
    BY <1>3, <1>4, <1>5, <2>1, <2>3 DEF IInv, AgreedForNumber
  <2>4. CASE b # a
    BY <1>3, <1>4, <1>5, <2>4 DEF IInv, AgreedForNumber
  <2> QED
    BY <2>2, <2>3, <2>4
<1>10. ChangePauses'
  <2>1. \A b \in Accounts : row'[b].paused = row[b].paused
    BY <1>3
  <2> QED
    BY <1>1, <1>6, <1>7, <2>1, PausesKept DEF IInv, Typed
<1>11. StopSoFar'
  <2> SUFFICES ASSUME NEW u \in Workers, run'[u].pc = "stop", run'[u].a \notin crossed',
                      NEW i \in 1..run'[u].f - 1
               PROVE  Features[i] \notin row'[run'[u].a].features
    BY DEF StopSoFar
  <2>1. run'[u] = run[u] /\ run[u].a \in Accounts
    BY <1>6 DEF Others, IInv, RunsOK, RequestOK, Request
  <2>2. run[u].a # a
    BY <1>5, <2>1
  <2>3. Features[i] \notin row[run[u].a].features
    BY <1>5, <2>1 DEF IInv, StopSoFar
  <2> QED
    BY <1>3, <2>1, <2>2, <2>3
<1>12. StopStops'
  BY <1>1, <1>3, <1>5 DEF IInv, StopStops
<1> QED
  BY <1>6, <1>7, <1>8, <1>9, <1>10, <1>11, <1>12 DEF IInv

LEMMA FeatureOffKeeps ==
    ASSUME NEW a \in Accounts, NEW f, IInv, FeatureOff(a, f)
    PROVE  IInv'
<1> DEFINE r == [row[a] EXCEPT !.features = @ \ {f}]
<1>1. /\ Row(a, r)
      /\ UNCHANGED <<owner, codes, changed, run, cut, crossed, agreed, found, stopped>>
  BY DEF FeatureOff, twilio, history
<1>2. /\ r \in Recorded /\ r.phone = row[a].phone /\ r.paused = row[a].paused
      /\ r.features \subseteq row[a].features
  BY DEF IInv, Typed, Recorded
<1> HIDE DEF r
<1>3. /\ row' \in [Accounts -> Recorded] /\ RowsShrink
      /\ \A b \in Accounts : row'[b].paused = row[b].paused
  BY <1>1, <1>2, RowWritten DEF IInv
<1>4. Typed' /\ RunsOK'
  BY <1>1, <1>3 DEF IInv, Typed, RunsOK
<1> QED
  BY <1>1, <1>3, <1>4, Bystander DEF Others, IInv, Typed

-----------------------------------------------------------------------------
(* The line of a number *)

\* A row that is marked as checked, or not, or paused.
LEMMA Marked ==
    ASSUME NEW a \in Accounts, Typed, NEW b \in BOOLEAN,
           Row(a, [row[a] EXCEPT !.checked = b]) \/ Row(a, [row[a] EXCEPT !.paused = TRUE])
    PROVE  /\ row' \in [Accounts -> Recorded] /\ RowsShrink
           /\ \A c \in Accounts : row[c].paused => row'[c].paused
           /\ Row(a, [row[a] EXCEPT !.paused = TRUE]) => row'[a].paused
<1>1. row[a] \in Recorded
  BY DEF Typed
<1>2. CASE Row(a, [row[a] EXCEPT !.checked = b])
  <2> DEFINE r == [row[a] EXCEPT !.checked = b]
  <2>1. /\ r \in Recorded /\ r.phone = row[a].phone /\ r.features = row[a].features
        /\ r.paused = row[a].paused
    BY <1>1 DEF Recorded
  <2>2. /\ row' \in [Accounts -> Recorded] /\ RowsShrink /\ row'[a] = r
        /\ \A c \in Accounts \ {a} : row'[c] = row[c]
    BY <1>2, <2>1, RowWritten
  <2>3. Row(a, [row[a] EXCEPT !.paused = TRUE]) => row'[a].paused
    BY <1>1 DEF Row, Typed, Recorded
  <2> QED
    BY <2>1, <2>2, <2>3
<1>3. CASE Row(a, [row[a] EXCEPT !.paused = TRUE])
  <2> DEFINE r == [row[a] EXCEPT !.paused = TRUE]
  <2>1. /\ r \in Recorded /\ r.phone = row[a].phone /\ r.features = row[a].features
        /\ r.paused
    BY <1>1 DEF Recorded
  <2>2. /\ row' \in [Accounts -> Recorded] /\ RowsShrink /\ row'[a] = r
        /\ \A c \in Accounts \ {a} : row'[c] = row[c]
    BY <1>3, <2>1, RowWritten
  <2> QED
    BY <2>1, <2>2
<1> QED
  BY <1>2, <1>3

LEMMA LineKeeps == ASSUME NEW w \in Workers, IInv, Line(w) PROVE IInv'
<1>1. /\ run[w].pc = "line"
      /\ Go(w, "idle") \/ Go(w, "lookup")
      /\ UNCHANGED <<row, owner, codes, changed, cut, crossed, agreed, found, stopped>>
  BY DEF Line, At, Trusted, twilio, history
<1>2. RunsOK' /\ Others(w) /\ run'[w].pc \in {"idle", "lookup"}
  BY <1>1, Goes DEF IInv
<1>3. Typed' /\ RowsShrink
  BY <1>1 DEF IInv, Typed, RowsShrink
<1> QED
  BY <1>1, <1>2, <1>3, Bystander

LEMMA LookupKeeps == ASSUME NEW w \in Workers, IInv, Lookup(w) PROVE IInv'
<1>0. PICK a \in Accounts : a = run[w].a
  BY DEF IInv, RunsOK, RequestOK, Request, Lookup, At
<1>1. /\ run[w].pc = "lookup"
      /\ \/ /\ Row(a, [row[a] EXCEPT !.checked = TRUE])
            /\ \/ Go(w, "pause") /\ found \subseteq found' /\ found' \subseteq found \cup {a}
               \/ Go(w, "idle") /\ found' = found
         \/ Go(w, "idle") /\ row' = row /\ found' = found
      /\ UNCHANGED <<owner, codes, changed, cut, crossed, agreed, stopped>>
  BY <1>0 DEF Lookup, At, Trusted, twilio
<1>2. /\ row' \in [Accounts -> Recorded] /\ RowsShrink
      /\ \A c \in Accounts : row[c].paused => row'[c].paused
  <2>1. CASE row' = row
    BY <2>1 DEF IInv, Typed, RowsShrink
  <2>2. CASE Row(a, [row[a] EXCEPT !.checked = TRUE])
    BY <2>2, Marked DEF IInv
  <2> QED
    BY <1>1, <2>1, <2>2
<1>3. /\ RunsOK' /\ Others(w) /\ run'[w].pc \in {"idle", "pause"}
      /\ run'[w].pc = "pause" => run'[w].a = a
      /\ found' = found \/ (run'[w].pc = "pause" /\ found' \subseteq found \cup {a})
  <2>1. CASE Go(w, "idle") /\ found' = found
    BY <1>1, <2>1, Goes DEF IInv
  <2>2. CASE Go(w, "pause") /\ found' \subseteq found \cup {a}
    BY <1>0, <1>1, <2>2, Goes DEF IInv
  <2> QED
    BY <1>1, <2>1, <2>2
<1>4. Typed' /\ HistoryGrows
  BY <1>1, <1>2, <1>3 DEF IInv, Typed, HistoryGrows
<1>5. NumberHasOneOwner'
  BY <1>1, <1>2, <1>3, <1>4, OwnerKept
<1>6. AgreedForNumber' /\ StopStops'
  BY <1>1, <1>2, <1>4, AgreedKept, StopsKept
<1>7. ChangePauses'
  <2> SUFFICES ASSUME NEW b \in found' \ cut
               PROVE  row'[b].paused \/ \E u \in Workers : run'[u].a = b /\ run'[u].pc = "pause"
    BY <1>1 DEF ChangePauses
  <2>1. CASE b \in found
    <3>1. b \in Accounts
      BY <2>1 DEF IInv, Typed
    <3>2. row[b].paused \/ \E u \in Workers : run[u].a = b /\ run[u].pc = "pause"
      BY <2>1 DEF IInv, ChangePauses
    <3> QED
      BY <1>1, <1>2, <1>3, <3>1, <3>2 DEF Others
  <2>2. CASE b \notin found
    BY <1>3, <2>2
  <2> QED
    BY <2>1, <2>2
<1>8. StopSoFar'
  BY <1>2, <1>3, <1>4, StopSoFarKept
<1> QED
  BY <1>3, <1>4, <1>5, <1>6, <1>7, <1>8 DEF IInv

LEMMA PauseKeeps == ASSUME NEW w \in Workers, IInv, Pause(w) PROVE IInv'
<1>0. PICK a \in Accounts : a = run[w].a
  BY DEF IInv, RunsOK, RequestOK, Request, Pause, At
<1>1. /\ run[w].pc = "pause" /\ Go(w, "idle")
      /\ \/ Row(a, [row[a] EXCEPT !.paused = TRUE]) /\ cut' = cut
         \/ cut' = cut \cup {a} /\ row' = row
      /\ UNCHANGED <<owner, codes, changed, crossed, agreed, found, stopped>>
  BY <1>0 DEF Pause, At, Trusted, twilio
<1>2. /\ row' \in [Accounts -> Recorded] /\ RowsShrink
      /\ \A c \in Accounts : row[c].paused => row'[c].paused
      /\ a \in cut' \/ row'[a].paused
  <2>1. CASE cut' = cut \cup {a} /\ row' = row
    BY <2>1 DEF IInv, Typed, RowsShrink
  <2>2. CASE Row(a, [row[a] EXCEPT !.paused = TRUE])
    BY <2>2, Marked DEF IInv
  <2> QED
    BY <1>1, <2>1, <2>2
<1>3. RunsOK' /\ Others(w) /\ run'[w].pc = "idle"
  BY <1>1, Goes DEF IInv
<1>4. Typed' /\ HistoryGrows
  BY <1>1, <1>2 DEF IInv, Typed, HistoryGrows
<1>5. NumberHasOneOwner'
  BY <1>1, <1>2, <1>3, <1>4, OwnerKept
<1>6. AgreedForNumber' /\ StopStops'
  BY <1>1, <1>2, <1>4, AgreedKept, StopsKept
<1>7. ChangePauses'
  <2>1. \A c \in found' : row[c].paused => row'[c].paused
    BY <1>1, <1>2 DEF IInv, Typed
  <2> QED
    BY <1>0, <1>1, <1>2, <1>3, <1>4, <2>1, PausesKept
<1>8. StopSoFar'
  BY <1>2, <1>3, <1>4, StopSoFarKept
<1> QED
  BY <1>3, <1>4, <1>5, <1>6, <1>7, <1>8 DEF IInv

LEMMA CheckAgainKeeps == ASSUME NEW a \in Accounts, IInv, CheckAgain(a) PROVE IInv'
<1>1. /\ Row(a, [row[a] EXCEPT !.checked = FALSE])
      /\ UNCHANGED <<owner, codes, changed, run, cut, crossed, agreed, found, stopped>>
  BY DEF CheckAgain, twilio, history
<1>2. /\ row' \in [Accounts -> Recorded] /\ RowsShrink
      /\ \A c \in Accounts : row[c].paused => row'[c].paused
  BY <1>1, Marked DEF IInv
<1>3. Typed' /\ RunsOK'
  BY <1>1, <1>2 DEF IInv, Typed, RunsOK
<1> QED
  BY <1>1, <1>2, <1>3, Bystander DEF Others, IInv, Typed

LEMMA LineChangesKeeps == ASSUME NEW n \in Numbers, IInv, LineChanges(n) PROVE IInv'
<1>1. /\ changed' = changed \cup {n}
      /\ UNCHANGED <<row, owner, codes, run, cut, crossed, agreed, found, stopped>>
  BY DEF LineChanges, history
<1>2. Typed' /\ RunsOK' /\ RowsShrink
  BY <1>1 DEF IInv, Typed, RunsOK, RowsShrink
<1> QED
  BY <1>1, <1>2, Bystander DEF Others

-----------------------------------------------------------------------------
(* Notices, and texts that come in *)

LEMMA NoticeBeginsKeeps ==
    ASSUME NEW w \in Workers, NEW a \in Accounts, IInv, NoticeBegins(w, a)
    PROVE  IInv'
<1> DEFINE r == [Idle EXCEPT !.act = "notice", !.a = a, !.n = row[a].phone, !.pc = "line"]
<1>1. Begin(w, r) /\ UNCHANGED <<row, codes, changed, cut, crossed, agreed, found, stopped>>
  BY DEF NoticeBegins, twilio, history
<1>2. row[a].phone \in Numbers
  BY DEF NoticeBegins, IInv, Typed, Recorded
<1>3. r \in Request /\ RequestOK(r) /\ r.pc = "line"
  <2>1. r \in Request /\ r.act = "notice" /\ r.pc = "line" /\ r.a = a
    BY <1>2, IdleOK DEF Request, Calls
  <2> HIDE DEF r
  <2> QED
    BY <2>1, AccountsAssumption DEF RequestOK
<1> HIDE DEF r
<1>4. /\ RunsOK' /\ Others(w) /\ run'[w].pc = "line" /\ run[w].pc = "idle"
      /\ UNCHANGED owner
  BY <1>1, <1>3, Begins DEF IInv
<1>5. Typed' /\ RowsShrink
  BY <1>1, <1>4 DEF IInv, Typed, RowsShrink
<1> QED
  BY <1>1, <1>4, <1>5, Bystander

LEMMA TextComesInKeeps ==
    ASSUME NEW w \in Workers, NEW n \in Numbers, NEW word \in Words, IInv,
           TextComesIn(w, n, word)
    PROVE  IInv'
<1> DEFINE r == [Idle EXCEPT !.act = word, !.pc = "owner", !.n = n]
<1>1. Begin(w, r) /\ UNCHANGED <<row, codes, changed, cut, crossed, agreed, found, stopped>>
  BY DEF TextComesIn, twilio, history
<1>2. r \in Request /\ RequestOK(r) /\ r.pc = "owner"
  <2>1. r \in Request /\ r.act = word /\ r.pc = "owner" /\ r.n = n
    BY IdleOK DEF Request, Calls
  <2> HIDE DEF r
  <2> QED
    BY <2>1, AccountsAssumption DEF RequestOK, Words
<1> HIDE DEF r
<1>3. /\ RunsOK' /\ Others(w) /\ run'[w].pc = "owner" /\ run[w].pc = "idle"
      /\ UNCHANGED owner
  BY <1>1, <1>2, Begins DEF IInv
<1>4. Typed' /\ RowsShrink
  BY <1>1, <1>3 DEF IInv, Typed, RowsShrink
<1> QED
  BY <1>1, <1>3, <1>4, Bystander

\* STOP is over for a number: who has it and is not the one it was carried out
\* for is counted as missed.
LEMMA StoppedKeeps ==
    ASSUME IInv, NEW n \in Numbers, NEW o, Stopped(n, o), RowsShrink,
           o \in Accounts /\ o \notin crossed => row'[o].features = {}
    PROVE  StopStops' /\ crossed \subseteq crossed' /\ crossed' \subseteq Accounts
           /\ stopped' \subseteq Numbers
<1>1. /\ stopped' = stopped \cup {n}
      /\ crossed' = crossed \cup {b \in Accounts \ {o} : row[b].phone = n}
  BY DEF Stopped
<1>2. StopStops'
  <2> SUFFICES ASSUME NEW b \in Accounts \ crossed', row'[b].phone \in stopped'
               PROVE  row'[b].features = {}
    BY DEF StopStops
  <2>1. row'[b].phone = row[b].phone
    BY <1>1, AccountsAssumption DEF RowsShrink, IInv, Typed
  <2>2. CASE row[b].phone \in stopped
    BY <1>1, <2>2 DEF IInv, StopStops, RowsShrink
  <2>3. CASE row[b].phone = n
    <3>1. b = o
      BY <1>1, <2>3
    <3> QED
      BY <1>1, <3>1
  <2> QED
    BY <1>1, <2>1, <2>2, <2>3
<1> QED
  BY <1>1, <1>2 DEF IInv, Typed

LEMMA HandleKeeps == ASSUME NEW w \in Workers, IInv, Handle(w) PROVE IInv'
<1>0. PICK n \in Numbers : n = run[w].n
  BY DEF IInv, RunsOK, RequestOK, Request, Handle, At
<1> DEFINE o == owner[n]
           r == [run[w] EXCEPT !.a = o, !.f = 1, !.pc = IF run[w].act = "STOP" THEN "stop" ELSE "view"]
<1>1. /\ run[w].pc = "owner"
      /\ UNCHANGED <<row, owner, codes, changed, cut, agreed, found>>
      /\ o = None => Go(w, "idle") /\ (Stopped(n, None) \/ UNCHANGED <<stopped, crossed>>)
      /\ o # None => run' = [run EXCEPT ![w] = r] /\ UNCHANGED <<stopped, crossed>>
  BY <1>0 DEF Handle, At, twilio
<1>2. o \in Accounts \cup {None} /\ run[w] \in Request /\ RequestOK(run[w])
  BY DEF IInv, Typed, RunsOK
<1>3. RowsShrink
  BY <1>1 DEF RowsShrink
<1>4. /\ RunsOK' /\ Others(w)
      /\ run'[w].pc \in {"idle", "view", "stop"} /\ run'[w].pc = "stop" => run'[w].f = 1
  <2>1. CASE o = None
    BY <1>1, <2>1, Goes DEF IInv
  <2>2. CASE o # None
    <3>1. /\ r \in Request /\ r.a = o /\ r.f = 1 /\ r.act = run[w].act /\ r.n = n
          /\ r.pc \in {"stop", "view"}
      <4>1. 1 \in 0..Len(Features)
        BY ThreeFeatures
      <4> QED
        BY <1>0, <1>2, <4>1 DEF Request, Calls
    <3>2. RequestOK(r)
      <4> HIDE DEF r, o
      <4> QED
        BY <1>0, <1>1, <1>2, <2>2, <3>1, AccountsAssumption DEF RequestOK
    <3>3. RunsOK' /\ Others(w) /\ run'[w] = r
      BY <1>1, <2>2, <3>1, <3>2, Moves DEF IInv
    <3> HIDE DEF r
    <3> QED
      BY <3>1, <3>3
  <2> QED
    BY <2>1, <2>2
<1>5. /\ StopStops' /\ crossed \subseteq crossed' /\ crossed' \subseteq Accounts
      /\ stopped' \subseteq Numbers
  <2>1. CASE Stopped(n, None)
    BY <1>3, <2>1, StoppedKeeps, AccountsAssumption
  <2>2. CASE UNCHANGED <<stopped, crossed>>
    BY <1>1, <2>2 DEF IInv, Typed, StopStops
  <2> QED
    BY <1>1, <2>1, <2>2
<1>6. Typed' /\ HistoryGrows
  BY <1>1, <1>5 DEF IInv, Typed, HistoryGrows
<1>7. NumberHasOneOwner'
  BY <1>1, <1>3, <1>4, <1>6, OwnerKept
<1>8. AgreedForNumber'
  BY <1>1, <1>3, <1>6, AgreedKept
<1>9. ChangePauses'
  BY <1>1, <1>4, <1>6, PausesKept
<1>10. StopSoFar'
  <2> SUFFICES ASSUME NEW u \in Workers, run'[u].pc = "stop", run'[u].a \notin crossed',
                      NEW i \in 1..run'[u].f - 1
               PROVE  Features[i] \notin row[run'[u].a].features
    BY <1>1 DEF StopSoFar
  <2>1. u # w
    BY <1>4
  <2> QED
    BY <1>4, <1>5, <2>1 DEF IInv, StopSoFar, Others
<1> QED
  BY <1>4, <1>5, <1>6, <1>7, <1>8, <1>9, <1>10 DEF IInv

LEMMA StopKeeps == ASSUME NEW w \in Workers, IInv, Stop(w) PROVE IInv'
<1>0. PICK a \in Accounts, i \in 1..3 : a = run[w].a /\ i = run[w].f
  BY ThreeFeatures DEF IInv, RunsOK, RequestOK, Request, Stop, At
<1> DEFINE n == run[w].n
           r == [row[a] EXCEPT !.features = @ \ {Features[i]}]
           s == [run[w] EXCEPT !.f = i + 1]
<1>1. /\ run[w].pc = "stop" /\ Row(a, r)
      /\ i = 3 => Go(w, "idle") /\ Stopped(n, a)
      /\ i # 3 => run' = [run EXCEPT ![w] = s] /\ UNCHANGED <<stopped, crossed>>
      /\ UNCHANGED <<owner, codes, changed, cut, agreed, found>>
  BY <1>0, ThreeFeatures DEF Stop, At, LastFeature, twilio
<1>2. row[a] \in Recorded /\ run[w] \in Request /\ RequestOK(run[w])
  BY DEF IInv, Typed, RunsOK
<1>3. /\ row' \in [Accounts -> Recorded] /\ RowsShrink
      /\ row'[a].features = row[a].features \ {Features[i]}
      /\ \A b \in Accounts : row[b].paused => row'[b].paused
  <2>1. /\ r \in Recorded /\ r.phone = row[a].phone /\ r.paused = row[a].paused
        /\ r.features = row[a].features \ {Features[i]}
    BY <1>2 DEF Recorded
  <2> HIDE DEF r
  <2> QED
    BY <1>1, <2>1, RowWritten DEF IInv
<1>4. /\ RunsOK' /\ Others(w)
      /\ i = 3 => run'[w].pc = "idle"
      /\ i # 3 => run'[w].pc = "stop" /\ run'[w].f = i + 1 /\ run'[w].a = a
  <2>1. CASE i = 3
    BY <1>1, <2>1, Goes DEF IInv
  <2>2. CASE i # 3
    <3>1. s \in Request
      <4>1. i + 1 \in 0..Len(Features)
        BY <2>2, ThreeFeatures
      <4> QED
        BY <1>2, <4>1 DEF Request
    <3>2. /\ s.f = i + 1 /\ s.a = a /\ s.n = n /\ s.pc = "stop" /\ s.act = run[w].act
          /\ i + 1 # 0
      BY <1>0, <1>1, <1>2 DEF Request
    <3>3. RequestOK(s)
      <4> HIDE DEF s
      <4> QED
        BY <1>0, <1>1, <1>2, <3>2 DEF RequestOK
    <3>4. RunsOK' /\ Others(w) /\ run'[w] = s
      BY <1>1, <2>2, <3>1, <3>3, Moves DEF IInv
    <3> HIDE DEF s
    <3> QED
      BY <2>2, <3>2, <3>4
  <2> QED
    BY <2>1, <2>2
<1>5. a \notin crossed => \A j \in 1..i : Features[j] \notin row'[a].features
  BY <1>0, <1>1, <1>3 DEF IInv, StopSoFar
<1>6. /\ StopStops' /\ crossed \subseteq crossed' /\ crossed' \subseteq Accounts
      /\ stopped' \subseteq Numbers
  <2>1. CASE i # 3
    BY <1>1, <1>3, <2>1, StopsKept DEF HistoryGrows, IInv, Typed
  <2>2. CASE i = 3
    <3>1. n \in Numbers
      BY <1>1, <1>2 DEF Request, RequestOK
    <3>2. a \notin crossed => row'[a].features = {}
      <4>1. row'[a].features \subseteq FeatureSet
        BY <1>3 DEF Recorded, FeatureSet
      <4> QED
        BY <1>5, <2>2, <4>1, ThreeFeatures
    <3> QED
      BY <1>1, <1>3, <2>2, <3>1, <3>2, StoppedKeeps
  <2> QED
    BY <2>1, <2>2
<1>7. Typed' /\ HistoryGrows
  BY <1>1, <1>3, <1>6 DEF IInv, Typed, HistoryGrows
<1>8. NumberHasOneOwner'
  BY <1>1, <1>3, <1>4, <1>7, OwnerKept
<1>9. AgreedForNumber'
  BY <1>1, <1>3, <1>7, AgreedKept
<1>10. ChangePauses'
  <2>1. \A b \in found' : row[b].paused => row'[b].paused
    BY <1>1, <1>3 DEF IInv, Typed
  <2> QED
    BY <1>1, <1>4, <1>7, <2>1, PausesKept
<1>11. StopSoFar'
  <2> SUFFICES ASSUME NEW u \in Workers, run'[u].pc = "stop", run'[u].a \notin crossed',
                      NEW j \in 1..run'[u].f - 1
               PROVE  Features[j] \notin row'[run'[u].a].features
    BY DEF StopSoFar
  <2>1. CASE u = w
    BY <1>4, <1>5, <1>6, <2>1
  <2>2. CASE u # w
    <3>1. run'[u] = run[u] /\ run[u].a \in Accounts
      BY <1>4, <2>2 DEF Others, IInv, RunsOK, RequestOK, Request
    <3>2. Features[j] \notin row[run[u].a].features
      BY <1>6, <3>1 DEF IInv, StopSoFar
    <3> QED
      BY <1>3, <3>1, <3>2 DEF RowsShrink
  <2> QED
    BY <2>1, <2>2
<1> QED
  BY <1>4, <1>6, <1>7, <1>8, <1>9, <1>10, <1>11 DEF IInv

LEMMA ViewKeeps == ASSUME NEW w \in Workers, IInv, View(w) PROVE IInv'
<1>1. /\ run[w].pc = "view"
      /\ Go(w, "idle") \/ Go(w, "line")
      /\ UNCHANGED <<row, owner, codes, changed, cut, crossed, agreed, found, stopped>>
  BY DEF View, At, twilio, history
<1>2. RunsOK' /\ Others(w) /\ run'[w].pc \in {"idle", "line"}
  BY <1>1, Goes DEF IInv
<1>3. Typed' /\ RowsShrink
  BY <1>1 DEF IInv, Typed, RowsShrink
<1> QED
  BY <1>1, <1>2, <1>3, Bystander

LEMMA DiesKeeps == ASSUME NEW w \in Workers, IInv, Dies(w) PROVE IInv'
<1>1. /\ cut' = cut \cup ({run[w].a, run[w].prev} \ {None}) /\ Go(w, "idle")
      /\ UNCHANGED <<row, owner, codes, changed, crossed, agreed, found, stopped>>
  BY DEF Dies, twilio
<1>2. run[w] \in Request /\ RequestOK(run[w])
  BY DEF IInv, RunsOK
<1>3. RunsOK' /\ Others(w) /\ run'[w].pc = "idle"
  BY <1>1, Goes DEF IInv
<1>4. cut' \subseteq Accounts
  BY <1>1, <1>2 DEF IInv, Typed, Request
<1>5. Typed' /\ RowsShrink /\ HistoryGrows
  BY <1>1, <1>4 DEF IInv, Typed, RowsShrink, HistoryGrows
<1>6. NumberHasOneOwner'
  BY <1>1, <1>3, <1>5, OwnerKept
<1>7. AgreedForNumber' /\ StopStops'
  BY <1>1, <1>5, AgreedKept, StopsKept
<1>8. ChangePauses'
  <2>1. run[w].pc = "pause" => run[w].a \in cut'
    BY <1>1, <1>2 DEF RequestOK
  <2> QED
    BY <1>1, <1>3, <1>5, <2>1, PausesKept
<1>9. StopSoFar'
  BY <1>3, <1>5, StopSoFarKept
<1> QED
  BY <1>3, <1>5, <1>6, <1>7, <1>8, <1>9 DEF IInv

-----------------------------------------------------------------------------

LEMMA Initially == Init => IInv
<1> SUFFICES ASSUME Init PROVE IInv
  OBVIOUS
<1>0. PICK phone \in [Accounts -> Numbers \cup {None}], on \in {{}, FeatureSet} :
        /\ \A a, b \in Accounts : a # b /\ phone[a] # None => phone[a] # phone[b]
        /\ row = [a \in Accounts |-> [NoRow EXCEPT !.phone = phone[a],
                     !.features = IF phone[a] = None THEN {} ELSE on]]
        /\ owner = [n \in Numbers |->
                      IF \E a \in Accounts : phone[a] = n
                      THEN CHOOSE a \in Accounts : phone[a] = n ELSE None]
        /\ agreed = [a \in Accounts |-> [f \in FeatureSet |-> phone[a]]]
        /\ codes = {} /\ changed = {}
        /\ run = [w \in Workers |-> Idle]
        /\ cut = {} /\ crossed = {} /\ found = {} /\ stopped = {}
  BY DEF Init, FeatureSet
<1>1. \A a \in Accounts : /\ row[a] \in Recorded /\ row[a].phone = phone[a]
                          /\ row[a].features \subseteq FeatureSet
  <2> SUFFICES ASSUME NEW a \in Accounts
               PROVE  /\ row[a] \in Recorded /\ row[a].phone = phone[a]
                      /\ row[a].features \subseteq FeatureSet
    OBVIOUS
  <2> DEFINE mine == IF phone[a] = None THEN {} ELSE on
  <2>1. mine \subseteq FeatureSet
    BY <1>0
  <2>2. row[a] = [NoRow EXCEPT !.phone = phone[a], !.features = mine]
    BY <1>0
  <2> HIDE DEF mine
  <2> QED
    BY <2>1, <2>2 DEF NoRow, Recorded, FeatureSet
<1>2. \A n \in Numbers : \A a \in Accounts : phone[a] = n => owner[n] = a
  BY <1>0, AccountsAssumption
<1>3. Typed
  <2>1. \A n \in Numbers : owner[n] \in Accounts \cup {None}
    BY <1>0
  <2> QED
    BY <1>0, <1>1, <2>1 DEF Typed
<1>4. RunsOK
  BY <1>0, IdleOK DEF RunsOK
<1>5. NumberHasOneOwner
  <2>1. \A a \in Accounts : phone[a] \in Numbers \cup {None}
    OBVIOUS
  <2> QED
    BY <1>1, <1>2, <2>1 DEF NumberHasOneOwner
<1>6. AgreedForNumber
  BY <1>0, <1>1 DEF AgreedForNumber
<1>7. ChangePauses /\ StopStops
  <2>1. found = {} /\ stopped = {}
    BY <1>0
  <2> QED
    BY <2>1 DEF ChangePauses, StopStops
<1>8. StopSoFar
  BY <1>0 DEF StopSoFar, Idle
<1> QED
  BY <1>3, <1>4, <1>5, <1>6, <1>7, <1>8 DEF IInv

LEMMA Stepwise == IInv /\ [Next]_vars => IInv'
<1> SUFFICES ASSUME IInv, [Next]_vars PROVE IInv'
  OBVIOUS
<1>1. ASSUME NEW a \in Accounts, NEW n \in Numbers, StartPhoneVerify(a, n) PROVE IInv'
  BY <1>1, StartPhoneVerifyKeeps
<1>2. ASSUME NEW a \in Accounts,
             CheckAgain(a) \/ \E f \in FeatureSet : FeatureOff(a, f)
      PROVE  IInv'
  BY <1>2, CheckAgainKeeps, FeatureOffKeeps
<1>3. ASSUME NEW n \in Numbers, LineChanges(n) PROVE IInv'
  BY <1>3, LineChangesKeeps
<1>4. ASSUME NEW w \in Workers, NEW a \in Accounts,
             VerifyBegins(w, a) \/ RemovePhone(w, a) \/ NoticeBegins(w, a)
      PROVE  IInv'
  BY <1>4, VerifyBeginsKeeps, RemovePhoneKeeps, NoticeBeginsKeeps
<1>5. ASSUME NEW w \in Workers, NEW a \in Accounts, NEW i \in DOMAIN Features,
             FeatureBegins(w, a, i)
      PROVE  IInv'
  BY <1>5, FeatureBeginsKeeps
<1>6. ASSUME NEW w \in Workers, NEW n \in Numbers, NEW word \in Words,
             TextComesIn(w, n, word)
      PROVE  IInv'
  BY <1>6, TextComesInKeeps
<1>7. ASSUME NEW w \in Workers,
             \/ CheckVerify(w) \/ ConfirmPhone(w) \/ Release(w) \/ Claim(w) \/ Silence(w)
             \/ FeatureOn(w) \/ Line(w) \/ Lookup(w) \/ Pause(w)
             \/ Handle(w) \/ Stop(w) \/ View(w) \/ Dies(w)
      PROVE  IInv'
  BY <1>7, CheckVerifyKeeps, ConfirmPhoneKeeps, ReleaseKeeps, ClaimKeeps, SilenceKeeps,
     FeatureOnKeeps, LineKeeps, LookupKeeps, PauseKeeps, HandleKeeps, StopKeeps, ViewKeeps,
     DiesKeeps
<1>8. CASE UNCHANGED vars
  <2> USE <1>8 DEF vars
  <2>1. Typed' /\ RunsOK' /\ RowsShrink
    BY DEF IInv, Typed, RunsOK, RowsShrink
  <2> QED
    BY <2>1, Bystander DEF Others
<1> QED
  BY <1>1, <1>2, <1>3, <1>4, <1>5, <1>6, <1>7, <1>8 DEF Next, FeatureSet

LEMMA Invariance == Spec => []IInv
BY Initially, Stepwise, PTL DEF Spec

\* Every row and request of Texting has its fields, and nobody silences itself.
THEOREM TypeCorrect == Spec => []TypeOK
<1>1. IInv => TypeOK
  <2> SUFFICES ASSUME IInv PROVE TypeOK
    OBVIOUS
  <2>1. \A w \in Workers : run[w] \in Request /\ RequestOK(run[w])
    BY DEF IInv, RunsOK
  <2>2. \A w \in Workers :
         /\ run[w].act \in {"none", "verify", "remove", "feature", "notice"} \cup Words
         /\ run[w].pc \in Calls
         /\ run[w].pc # "idle" <=> run[w].act # "none"
         /\ run[w].a \in Accounts \cup {None} /\ run[w].n \in Numbers \cup {None}
         /\ run[w].pc = "silence" => run[w].prev \in Accounts \ {run[w].a}
         /\ run[w].pc = "release" => run[w].old \in Numbers
    BY <2>1 DEF Request, RequestOK
  <2> QED
    BY <2>2 DEF IInv, Typed, TypeOK, Calls
<1> QED
  BY <1>1, Invariance, PTL

\* However verifications, removals and deaths interleave, a number in a row is
\* mapped to that row, or a call that is known of has still to see to it.
THEOREM NewestVerificationWins == Spec => []NumberHasOneOwner
<1>1. IInv => NumberHasOneOwner
  BY DEF IInv
<1> QED
  BY <1>1, Invariance, PTL

\* No feature outlives the number it was agreed for.
THEOREM FeaturesAreOfTheNumber == Spec => []AgreedForNumber
<1>1. IInv => AgreedForNumber
  BY DEF IInv
<1> QED
  BY <1>1, Invariance, PTL

\* A line that was found to be changed is paused, or about to be, or the call
\* that pauses it failed.
THEOREM ChangedLinePauses == Spec => []ChangePauses
<1>1. IInv => ChangePauses
  BY DEF IInv
<1> QED
  BY <1>1, Invariance, PTL

\* After STOP nothing is on, though it takes a call for each feature and pages
\* are open meanwhile.
THEOREM StopIsFinal == Spec => []StopStops
<1>1. IInv => StopStops
  BY DEF IInv
<1> QED
  BY <1>1, Invariance, PTL

-----------------------------------------------------------------------------
(* The settings and the links, run together *)

\* Run together, each runs as it does alone: to the links, whatever the settings
\* page and STOP do is to switch them (tenant-do.ts, link-do.ts).
THEOREM EachRuns == TextsSpec => Spec /\ L!Init /\ [][L!Next]_L!vars
<1>1. TextsNext => [Next]_vars
  BY DEF TextsNext
<1>2. TextsNext => [L!Next]_L!vars
  <2> SUFFICES ASSUME Next, UNCHANGED own PROVE [L!Next]_L!vars
    BY DEF TextsNext
  <2> DEFINE on == "links" \in row[Me].features
             these == Opens(row[Me])
  <2>1. CASE on' = on /\ these' = these
    BY <2>1 DEF L!vars, own
  <2>2. CASE on' # on \/ these' # these
    <3>1. on' \in BOOLEAN /\ these' \in SUBSET L!Kinds
      BY DEF Opens, FEATURE, L!Kinds
    <3>2. "email" \in these' => on'
      BY DEF Opens, FEATURE
    <3>3. <<on, these>>' # <<on, these>>
      BY <2>2
    <3>4. L!Switch
      BY <3>1, <3>2, <3>3 DEF L!Switch, L!settings, L!asking, L!opening, own
    <3> QED
      BY <3>4 DEF L!Next
  <2> QED
    BY <2>1, <2>2
<1>3. UNCHANGED <<vars, own>> => UNCHANGED vars /\ UNCHANGED L!vars
  BY DEF vars, own, L!vars
<1> QED
  BY <1>1, <1>2, <1>3, PTL DEF TextsSpec, TextsInit, Spec

-----------------------------------------------------------------------------
(* Questions by text, and the one-time links *)

LEMMA SevenSteps == L!Reply = 6 /\ L!Done = 7
BY DEF L!Reply, L!Done, L!Steps

AskTyped ==
    /\ hook \in [Questions -> {"none", "start", "started", "dead"}]
    /\ ask \in [Questions -> [step : 0..7, attempts : Nat]]
    /\ at \in [Questions -> {"idle", "step", "text", "log", "sorry"}]
    /\ texted \in [Questions -> Nat] /\ slips \in [Questions -> Nat]
    /\ MaxAttempts \in Nat

\* Until an answer has been saved as texted, each text of it was a slip; the
\* alarm is at a step only while there are steps left.
AskOK ==
    \A q \in Questions :
        /\ hook[q] # "started" => texted[q] = 0 /\ ask[q].step = 0 /\ at[q] = "idle"
        /\ at[q] \in {"step", "text"} => ask[q].step \in 1..6
        /\ at[q] = "text" => ask[q].step = 6
        /\ ask[q].step \in 1..6 => texted[q] <= slips[q]

AskInv == AskTyped /\ AskOK /\ L!AnsweredOnce

LEMMA AskInit == ASSUME MaxAttempts \in Nat, L!Init PROVE AskInv
BY DEF L!Init, L!NoAsk, AskInv, AskTyped, AskOK, L!AnsweredOnce

\* The start of a question: nothing has been texted.
LEMMA HookKeeps ==
    ASSUME AskInv, NEW q \in Questions, L!QuestionComes(q) \/ L!HookDies(q) \/ L!Start(q)
    PROVE  AskInv'
<1>1. hook[q] # "started" /\ UNCHANGED <<at, texted, slips>>
  BY DEF L!QuestionComes, L!HookDies, L!Start
<1>2. texted[q] = 0 /\ ask[q].step = 0 /\ at[q] = "idle"
  BY <1>1 DEF AskInv, AskOK
<1>3. CASE L!QuestionComes(q) \/ L!HookDies(q)
  <2>1. PICK h \in {"start", "dead"} : hook' = [hook EXCEPT ![q] = h]
    BY <1>3 DEF L!QuestionComes, L!HookDies
  <2>2. ask' = ask
    BY <1>3 DEF L!QuestionComes, L!HookDies
  <2>3. AskTyped'
    BY <1>1, <2>1, <2>2 DEF AskInv, AskTyped
  <2>4. AskOK'
    BY <1>1, <1>2, <2>1, <2>2 DEF AskInv, AskTyped, AskOK
  <2>5. L!AnsweredOnce'
    BY <1>1 DEF AskInv, L!AnsweredOnce
  <2> QED
    BY <2>3, <2>4, <2>5 DEF AskInv
<1>4. CASE L!Start(q)
  <2>1. /\ hook' = [hook EXCEPT ![q] = "started"]
        /\ ask' = [ask EXCEPT ![q] = [step |-> 1, attempts |-> 0]]
    BY <1>4 DEF L!Start
  <2>2. AskTyped'
    BY <1>1, <2>1 DEF AskInv, AskTyped
  <2>3. AskOK'
    BY <1>1, <1>2, <2>1 DEF AskInv, AskTyped, AskOK
  <2>4. L!AnsweredOnce'
    BY <1>1 DEF AskInv, L!AnsweredOnce
  <2> QED
    BY <2>2, <2>3, <2>4 DEF AskInv
<1> QED
  BY <1>3, <1>4

\* One step of the alarm: what it saves, where it goes on and what it texts.
Turns(q, st, pc, n, s) ==
    /\ hook[q] = "started" /\ hook' = hook
    /\ st \in [step : 0..7, attempts : Nat] /\ n \in Nat /\ s \in Nat
    /\ pc \in {"idle", "step", "text", "log", "sorry"}
    /\ ask' = [ask EXCEPT ![q] = st] /\ at' = [at EXCEPT ![q] = pc]
    /\ texted' = [texted EXCEPT ![q] = n] /\ slips' = [slips EXCEPT ![q] = s]
    /\ pc \in {"step", "text"} => st.step \in 1..6
    /\ pc = "text" => st.step = 6
    /\ st.step \in 1..6 => n <= s
    /\ n <= 1 + s

LEMMA AlarmKeeps ==
    ASSUME AskInv, NEW q \in Questions, NEW st, NEW pc, NEW n, NEW s, Turns(q, st, pc, n, s)
    PROVE  AskInv'
<1> USE DEF Turns
<1>1. AskTyped'
  BY DEF AskInv, AskTyped
<1>2. AskOK'
  BY DEF AskInv, AskOK, AskTyped
<1>3. L!AnsweredOnce'
  BY DEF AskInv, AskTyped, L!AnsweredOnce
<1> QED
  BY <1>1, <1>2, <1>3 DEF AskInv

\* What an alarm finds of its question.
LEMMA Asked ==
    ASSUME AskInv, NEW q \in Questions
    PROVE  /\ ask[q] \in [step : 0..7, attempts : Nat] /\ ask[q].step \in 0..7
           /\ ask[q].attempts \in Nat /\ MaxAttempts \in Nat
           /\ at[q] \in {"idle", "step", "text", "log", "sorry"}
           /\ texted[q] \in Nat /\ slips[q] \in Nat /\ texted[q] <= 1 + slips[q]
           /\ at[q] # "idle" => hook[q] = "started"
           /\ ask[q].step # 0 => hook[q] = "started"
           /\ at[q] \in {"step", "text"} => ask[q].step \in 1..6
           /\ at[q] = "text" => ask[q].step = 6
           /\ ask[q].step \in 1..6 => texted[q] <= slips[q]
           /\ ask = [ask EXCEPT ![q] = ask[q]] /\ at = [at EXCEPT ![q] = at[q]]
           /\ texted = [texted EXCEPT ![q] = texted[q]]
           /\ slips = [slips EXCEPT ![q] = slips[q]]
<1>1. AskTyped /\ AskOK /\ L!AnsweredOnce
  BY DEF AskInv
<1>2. ask[q] \in [step : 0..7, attempts : Nat]
  BY <1>1 DEF AskTyped
<1>3. ask[q].step \in 0..7 /\ ask[q].attempts \in Nat
  BY <1>2
<1>4. /\ MaxAttempts \in Nat /\ at[q] \in {"idle", "step", "text", "log", "sorry"}
      /\ texted[q] \in Nat /\ slips[q] \in Nat /\ texted[q] <= 1 + slips[q]
  BY <1>1 DEF AskTyped, L!AnsweredOnce
<1>5. /\ at[q] # "idle" => hook[q] = "started"
      /\ ask[q].step # 0 => hook[q] = "started"
      /\ at[q] \in {"step", "text"} => ask[q].step \in 1..6
      /\ at[q] = "text" => ask[q].step = 6
      /\ ask[q].step \in 1..6 => texted[q] <= slips[q]
  BY <1>1 DEF AskOK
<1>6. /\ ask = [ask EXCEPT ![q] = ask[q]] /\ at = [at EXCEPT ![q] = at[q]]
      /\ texted = [texted EXCEPT ![q] = texted[q]]
      /\ slips = [slips EXCEPT ![q] = slips[q]]
  BY <1>1 DEF AskTyped
<1> QED
  BY <1>2, <1>3, <1>4, <1>5, <1>6

LEMMA FiresKeeps ==
    ASSUME AskInv, NEW q \in Questions, L!AlarmFires(q)
    PROVE  AskInv'
<1> DEFINE go == ask[q].step \notin {0, 7}
           st == IF go THEN ask[q] ELSE [step |-> 0, attempts |-> 0]
           pc == IF go THEN "step" ELSE "idle"
<1>1. at[q] = "idle" /\ UNCHANGED <<hook, texted, slips>>
  BY DEF L!AlarmFires
<1>2. at' = [at EXCEPT ![q] = pc] /\ ask' = [ask EXCEPT ![q] = st]
  BY <1>1, SevenSteps, Asked DEF L!AlarmFires, L!NoAsk
<1>3. st \in [step : 0..7, attempts : Nat] /\ pc \in {"idle", "step"}
  BY Asked
<1>4. pc = "step" => st.step \in 1..6
  BY Asked
<1>5. st.step \in 1..6 => texted[q] <= slips[q]
  BY Asked
<1>6. texted[q] \in Nat /\ slips[q] \in Nat /\ texted[q] <= 1 + slips[q]
      /\ texted = [texted EXCEPT ![q] = texted[q]] /\ slips = [slips EXCEPT ![q] = slips[q]]
  BY Asked
<1>7. CASE hook[q] = "started"
  <2>1. pc # "text"
    OBVIOUS
  <2> HIDE DEF st, pc
  <2>2. Turns(q, st, pc, texted[q], slips[q])
    BY <1>1, <1>2, <1>3, <1>4, <1>5, <1>6, <1>7, <2>1 DEF Turns
  <2> QED
    BY <2>2, AlarmKeeps
<1>8. CASE hook[q] # "started"
  <2>1. ~go /\ UNCHANGED at
    BY <1>1, <1>2, <1>8, Asked
  <2>2. ask' = [ask EXCEPT ![q] = [step |-> 0, attempts |-> 0]]
    BY <1>2, <2>1
  <2> HIDE DEF go
  <2>3. AskTyped'
    BY <1>1, <2>1, <2>2 DEF AskInv, AskTyped
  <2>4. AskOK'
    BY <1>1, <2>1, <2>2 DEF AskInv, AskTyped, AskOK
  <2>5. L!AnsweredOnce'
    BY <1>1 DEF AskInv, L!AnsweredOnce
  <2> QED
    BY <2>3, <2>4, <2>5 DEF AskInv
<1> QED
  BY <1>7, <1>8

\* A step that is taken and saved, the reply's link, and the text.
LEMMA StepKeeps ==
    ASSUME AskInv, NEW q \in Questions,
           L!StepSucceeds(q) \/ L!AnswerLink(q) \/ L!TextAnswer(q)
    PROVE  AskInv'
<1>1. at[q] \in {"step", "text"} /\ UNCHANGED <<hook, slips>>
  BY DEF L!StepSucceeds, L!AnswerLink, L!TextAnswer
<1>2. hook[q] = "started" /\ ask[q].step \in 1..6 /\ texted[q] <= slips[q]
  BY <1>1, Asked
<1>3. slips[q] \in Nat /\ texted[q] \in Nat /\ slips = [slips EXCEPT ![q] = slips[q]]
      /\ texted = [texted EXCEPT ![q] = texted[q]] /\ ask = [ask EXCEPT ![q] = ask[q]]
  BY Asked
<1> DEFINE st == [step |-> ask[q].step + 1, attempts |-> 0]
<1>4. st \in [step : 0..7, attempts : Nat] /\ st.step \in 2..7
  BY <1>2
<1>5. CASE L!StepSucceeds(q)
  <2>1. ask' = [ask EXCEPT ![q] = st] /\ at' = [at EXCEPT ![q] = "log"] /\ texted' = texted
    BY <1>5 DEF L!StepSucceeds, L!Save, L!Taken, L!Goto
  <2>2. st.step \in 1..6 => texted[q] <= slips[q]
    BY <1>2
  <2> HIDE DEF st
  <2>3. Turns(q, st, "log", texted[q], slips[q])
    BY <1>1, <1>2, <1>3, <1>4, <2>1, <2>2 DEF Turns
  <2> QED
    BY <2>3, AlarmKeeps
<1>6. CASE L!AnswerLink(q)
  <2>1. /\ at' = [at EXCEPT ![q] = "text"] /\ texted' = texted /\ ask' = ask
        /\ ask[q].step = 6
    BY <1>6, SevenSteps DEF L!AnswerLink, L!Goto
  <2>2. ask[q] \in [step : 0..7, attempts : Nat]
    BY Asked
  <2>3. Turns(q, ask[q], "text", texted[q], slips[q])
    BY <1>1, <1>2, <1>3, <2>1, <2>2 DEF Turns
  <2> QED
    BY <2>3, AlarmKeeps
<1>7. CASE L!TextAnswer(q)
  <2>1. /\ ask' = [ask EXCEPT ![q] = st] /\ at' = [at EXCEPT ![q] = "log"]
        /\ at[q] = "text" /\ texted' = [texted EXCEPT ![q] = texted[q] + 1]
    BY <1>7 DEF L!TextAnswer, L!Save, L!Taken, L!Goto, L!SendSms
  <2>2. st.step = 7 /\ texted[q] + 1 \in Nat /\ texted[q] + 1 <= 1 + slips[q]
    BY <1>2, <1>3, <2>1, Asked
  <2> HIDE DEF st
  <2>3. Turns(q, st, "log", texted[q] + 1, slips[q])
    BY <1>1, <1>2, <1>3, <1>4, <2>1, <2>2 DEF Turns
  <2> QED
    BY <2>3, AlarmKeeps
<1> QED
  BY <1>5, <1>6, <1>7

\* The log, the last try and the text that says so.
LEMMA LogKeeps ==
    ASSUME AskInv, NEW q \in Questions, L!LogStep(q) \/ L!GiveUp(q)
    PROVE  AskInv'
<1>1. /\ at' = [at EXCEPT ![q] = "idle"] /\ UNCHANGED <<hook, ask, texted, slips>>
      /\ at[q] # "idle"
  BY DEF L!LogStep, L!GiveUp, L!Goto
<1>2. Turns(q, ask[q], "idle", texted[q], slips[q])
  BY <1>1, Asked DEF Turns
<1> QED
  BY <1>2, AlarmKeeps

\* A text that was sent or not when the step was lost: one more text, one more slip.
LEMMA Slipped ==
    ASSUME AskInv, NEW q \in Questions,
           \/ UNCHANGED <<texted, slips>>
           \/ at[q] = "text" /\ L!SendSms(q) /\ slips' = [slips EXCEPT ![q] = @ + 1]
    PROVE  \E n, s \in Nat :
              /\ texted' = [texted EXCEPT ![q] = n] /\ slips' = [slips EXCEPT ![q] = s]
              /\ n <= 1 + s
              /\ ask[q].step \in 1..6 => n <= s
<1>1. CASE UNCHANGED <<texted, slips>>
  BY <1>1, Asked
<1>2. CASE at[q] = "text" /\ L!SendSms(q) /\ slips' = [slips EXCEPT ![q] = @ + 1]
  <2>1. /\ texted' = [texted EXCEPT ![q] = texted[q] + 1]
        /\ slips' = [slips EXCEPT ![q] = slips[q] + 1]
    BY <1>2 DEF L!SendSms
  <2>2. texted[q] \in Nat /\ slips[q] \in Nat /\ texted[q] <= slips[q]
    BY <1>2, Asked
  <2>3. /\ texted[q] + 1 \in Nat /\ slips[q] + 1 \in Nat
        /\ texted[q] + 1 <= 1 + (slips[q] + 1) /\ texted[q] + 1 <= slips[q] + 1
    BY <2>2
  <2> QED
    BY <2>1, <2>3
<1> QED
  BY <1>1, <1>2

LEMMA FailKeeps ==
    ASSUME AskInv, NEW q \in Questions, L!StepFails(q) \/ L!Dies(q)
    PROVE  AskInv'
<1>1. /\ at[q] # "idle" /\ hook' = hook
      /\ \/ UNCHANGED <<texted, slips>>
         \/ at[q] = "text" /\ L!SendSms(q) /\ slips' = [slips EXCEPT ![q] = @ + 1]
  BY DEF L!StepFails, L!Dies
<1>2. hook[q] = "started" /\ ask[q].step \in 0..7 /\ ask[q].attempts \in Nat
      /\ ask[q] \in [step : 0..7, attempts : Nat] /\ ask = [ask EXCEPT ![q] = ask[q]]
      /\ MaxAttempts \in Nat
  BY <1>1, Asked
<1>3. PICK n \in Nat, s \in Nat :
              /\ texted' = [texted EXCEPT ![q] = n] /\ slips' = [slips EXCEPT ![q] = s]
              /\ n <= 1 + s
              /\ ask[q].step \in 1..6 => n <= s
  BY <1>1, Slipped
<1>4. CASE L!StepFails(q)
  <2>1. PICK st \in {[step |-> 7, attempts |-> MaxAttempts],
                     [ask[q] EXCEPT !.attempts = ask[q].attempts + 1]}, pc \in {"sorry", "idle"} :
           ask' = [ask EXCEPT ![q] = st] /\ at' = [at EXCEPT ![q] = pc]
    BY <1>4, SevenSteps DEF L!StepFails, L!Again, L!Save, L!Goto
  <2>2. st \in [step : 0..7, attempts : Nat] /\ st.step \in {7, ask[q].step}
    BY <1>2
  <2>3. Turns(q, st, pc, n, s)
    BY <1>1, <1>2, <1>3, <2>1, <2>2 DEF Turns
  <2> QED
    BY <2>3, AlarmKeeps
<1>5. CASE L!Dies(q)
  <2>1. at' = [at EXCEPT ![q] = "idle"] /\ ask' = ask
    BY <1>5 DEF L!Dies, L!Goto
  <2>2. Turns(q, ask[q], "idle", n, s)
    BY <1>1, <1>2, <1>3, <2>1 DEF Turns
  <2> QED
    BY <2>2, AlarmKeeps
<1> QED
  BY <1>4, <1>5

LEMMA AskStep == ASSUME AskInv, [L!Next]_L!vars PROVE AskInv'
<1>1. ASSUME NEW q \in Questions,
             L!QuestionComes(q) \/ L!HookDies(q) \/ L!AskSteps(q) \/ L!StepFails(q) \/ L!Dies(q)
      PROVE  AskInv'
  BY <1>1, HookKeeps, FiresKeeps, StepKeeps, LogKeeps, FailKeeps DEF L!AskSteps
<1>2. CASE UNCHANGED <<hook, ask, at, texted, slips>>
  <2>1. AskTyped'
    BY <1>2 DEF AskInv, AskTyped
  <2>2. AskOK' /\ L!AnsweredOnce'
    BY <1>2 DEF AskInv, AskOK, L!AnsweredOnce
  <2> QED
    BY <2>1, <2>2 DEF AskInv
<1>3. L!Notice \/ L!Switch => UNCHANGED <<hook, ask, at, texted, slips>>
  BY DEF L!Notice, L!Switch, L!asking
<1>4. \A k \in Phones : L!LinkComes(k) \/ L!Reissue(k) => UNCHANGED <<hook, ask, at, texted, slips>>
  BY DEF L!LinkComes, L!Reissue, L!asking
<1>5. \A b \in Browsers : L!CheckPin(b) \/ L!FailPin(b) \/ L!Use(b)
          => UNCHANGED <<hook, ask, at, texted, slips>>
  BY DEF L!CheckPin, L!FailPin, L!Use, L!asking
<1>6. \A b \in Browsers, l \in Links, right \in BOOLEAN : L!TryPin(b, l, right)
          => UNCHANGED <<hook, ask, at, texted, slips>>
  BY DEF L!TryPin, L!asking
<1>7. \A l \in Links : L!Close(l) \/ L!Expire(l) => UNCHANGED <<hook, ask, at, texted, slips>>
  BY DEF L!Close, L!Expire, L!asking
<1>8. L!vars' = L!vars => UNCHANGED <<hook, ask, at, texted, slips>>
  BY DEF L!vars
<1> QED
  BY <1>1, <1>2, <1>3, <1>4, <1>5, <1>6, <1>7, <1>8 DEF L!Next

\* An answer is texted once, however often the alarm is run again: once more only
\* for each time the object died, or Twilio's answer was lost, between the text and
\* its being saved (ask-do.ts, alarm).
THEOREM AnsweredOnceAlways == TextsSpec => []AnsweredOnce
<1>1. L!Init => AskInv
  BY AskInit, TextsAssumption
<1>2. AskInv /\ [L!Next]_L!vars => AskInv'
  BY AskStep
<1>3. AskInv => AnsweredOnce
  BY DEF AskInv, AnsweredOnce
<1> QED
  BY <1>1, <1>2, <1>3, EachRuns, PTL

-----------------------------------------------------------------------------
(* The one-time links *)

LinkRow == [is : {"missing", "made", "expired"}, kind : L!Kinds, used : BOOLEAN, fails : Nat,
            open : BOOLEAN]

LinkTyped == made \in Nat /\ link \in [Links -> LinkRow] /\ opened \in [Links -> Nat]

\* A link a session started on was made, and is used or deleted; a link that is not
\* made yet has the number no other had.
LinkOK ==
    \A l \in Links :
        /\ link[l].is # "missing" => l \in 1..made
        /\ opened[l] # 0 => l \in 1..made
        /\ opened[l] # 0 => opened[l] = 1
        /\ opened[l] # 0 => link[l].used \/ link[l].is = "missing"

LinkInv == LinkTyped /\ LinkOK

LEMMA LinkInit == ASSUME L!Init PROVE LinkInv
<1>1. L!NoLink \in LinkRow /\ L!NoLink.is = "missing"
  BY DEF L!NoLink, L!Kinds, LinkRow
<1>2. made = 0 /\ link = [l \in Links |-> L!NoLink] /\ opened = [l \in Links |-> 0]
  BY DEF L!Init
<1>3. LinkTyped
  BY <1>1, <1>2 DEF LinkTyped
<1>4. LinkOK
  BY <1>1, <1>2 DEF LinkOK
<1> QED
  BY <1>3, <1>4 DEF LinkInv

\* A row that changes and no session that starts.
LEMMA RowKeeps ==
    ASSUME LinkInv, NEW l \in Links, NEW r \in LinkRow, made' = made, opened' = opened,
           link' = [link EXCEPT ![l] = r], link[l].used => r.used \/ r.is = "missing",
           r.is # "missing" => link[l].is # "missing"
    PROVE  LinkInv'
<1>1. LinkTyped'
  BY DEF LinkInv, LinkTyped
<1>2. LinkOK'
  BY DEF LinkInv, LinkOK, LinkTyped
<1> QED
  BY <1>1, <1>2 DEF LinkInv

LEMMA NoneMoves == ASSUME LinkInv, UNCHANGED <<made, link, opened>> PROVE LinkInv'
BY DEF LinkInv, LinkTyped, LinkOK

\* A link that is made has the next number, and no session has started on it.
LEMMA CreateKeeps ==
    ASSUME LinkInv, NEW kind \in L!Kinds, L!CreateLink(kind), opened' = opened
    PROVE  LinkInv'
<1>1. CASE made + 1 \notin Links
  BY <1>1, NoneMoves DEF L!CreateLink
<1>2. CASE made + 1 \in Links
  <2> DEFINE r == [L!NoLink EXCEPT !.is = "made", !.kind = kind]
  <2>1. made' = made + 1 /\ link' = [link EXCEPT ![made + 1] = r]
    BY <1>2 DEF L!CreateLink
  <2>2. r \in LinkRow
    BY DEF L!NoLink, L!Kinds, LinkRow
  <2> HIDE DEF r
  <2>3. LinkTyped'
    BY <1>2, <2>1, <2>2 DEF LinkInv, LinkTyped
  <2>4. made \in Nat /\ made + 1 \notin 1..made
    BY DEF LinkInv, LinkTyped
  <2>5. ASSUME NEW l \in Links
        PROVE  /\ link'[l].is # "missing" => l \in 1..made'
               /\ opened[l] # 0 => l \in 1..made'
               /\ opened[l] # 0 => opened[l] = 1
               /\ opened[l] # 0 => link'[l].used \/ link'[l].is = "missing"
    <3>1. CASE l = made + 1
      <4>1. opened[l] = 0
        BY <2>4, <3>1 DEF LinkInv, LinkOK
      <4>2. l \in 1..made'
        BY <2>1, <2>4, <3>1
      <4> QED
        BY <4>1, <4>2
    <3>2. CASE l # made + 1
      <4>1. link'[l] = link[l]
        BY <2>1, <3>2 DEF LinkInv, LinkTyped
      <4>2. l \in 1..made => l \in 1..made'
        BY <2>1, <2>4
      <4> QED
        BY <4>1, <4>2 DEF LinkInv, LinkOK
    <3> QED
      BY <3>1, <3>2
  <2>6. LinkOK'
    BY <2>5 DEF LinkOK
  <2> QED
    BY <2>3, <2>6 DEF LinkInv
<1> QED
  BY <1>1, <1>2

LEMMA FailPinKeeps == ASSUME LinkInv, NEW b \in Browsers, L!FailPin(b) PROVE LinkInv'
<1> DEFINE l == try[b].l
           r == [link[l] EXCEPT !.fails = link[l].fails + 1]
<1>1. made' = made /\ opened' = opened
  BY DEF L!FailPin
<1>2. link' = link \/ link' = [link EXCEPT ![l] = r]
  BY DEF L!FailPin
<1>3. CASE l \in Links
  <2>1. link[l] \in LinkRow
    BY <1>3 DEF LinkInv, LinkTyped
  <2>2. r \in LinkRow /\ r.used = link[l].used /\ r.is = link[l].is
    BY <2>1 DEF LinkRow
  <2> HIDE DEF l, r
  <2> QED
    BY <1>1, <1>2, <1>3, <2>2, RowKeeps, NoneMoves
<1>4. CASE l \notin Links
  <2> HIDE DEF l, r
  <2>1. link' = link
    BY <1>2, <1>4 DEF LinkInv, LinkTyped
  <2> QED
    BY <1>1, <2>1, NoneMoves
<1> QED
  BY <1>3, <1>4

LEMMA UseKeeps == ASSUME LinkInv, NEW b \in Browsers, L!Use(b) PROVE LinkInv'
<1> DEFINE l == try[b].l
           r == [link[l] EXCEPT !.used = TRUE, !.open = TRUE]
<1>1. made' = made
  BY DEF L!Use
<1>2. CASE ~L!Usable(l)
  <2>1. UNCHANGED <<link, opened>>
    BY <1>2 DEF L!Use
  <2> QED
    BY <1>1, <2>1, NoneMoves
<1>3. CASE L!Usable(l)
  <2>1. /\ link' = [link EXCEPT ![l] = r] /\ opened' = [opened EXCEPT ![l] = opened[l] + 1]
        /\ link[l].is = "made" /\ ~link[l].used
    BY <1>3 DEF L!Use, L!Usable
  <2>2. CASE l \notin Links
    <3> HIDE DEF l, r
    <3>1. link' = link /\ opened' = opened
      BY <2>1, <2>2 DEF LinkInv, LinkTyped
    <3> QED
      BY <1>1, <3>1, NoneMoves
  <2>3. CASE l \in Links
    <3>1. link[l] \in LinkRow
      BY <2>3 DEF LinkInv, LinkTyped
    <3>2. r \in LinkRow /\ r.used
      BY <3>1 DEF LinkRow
    <3>3. opened[l] = 0 /\ l \in 1..made
      BY <2>1, <2>3 DEF LinkInv, LinkOK
    <3> HIDE DEF l, r
    <3>4. LinkTyped'
      BY <1>1, <2>1, <2>3, <3>2, <3>3 DEF LinkInv, LinkTyped
    <3>5. opened' = [opened EXCEPT ![l] = 1]
      BY <2>1, <3>3
    <3>6. LinkOK'
      BY <1>1, <2>1, <2>3, <3>2, <3>3, <3>5 DEF LinkInv, LinkTyped, LinkOK
    <3> QED
      BY <3>4, <3>6 DEF LinkInv
  <2> QED
    BY <2>2, <2>3
<1> QED
  BY <1>2, <1>3

\* A session that ends, and the two alarms of a link.
LEMMA AgesKeeps ==
    ASSUME LinkInv, NEW l \in Links, L!Close(l) \/ L!Expire(l)
    PROVE  LinkInv'
<1>1. link[l] \in LinkRow /\ made' = made /\ opened' = opened
  BY DEF LinkInv, LinkTyped, L!Close, L!Expire, L!opening
<1>2. CASE L!Close(l)
  <2> DEFINE r == [link[l] EXCEPT !.open = FALSE]
  <2>1. link' = [link EXCEPT ![l] = r]
    BY <1>2 DEF L!Close
  <2>2. r \in LinkRow /\ r.used = link[l].used /\ r.is = link[l].is
    BY <1>1 DEF LinkRow
  <2> HIDE DEF r
  <2> QED
    BY <1>1, <2>1, <2>2, RowKeeps
<1>3. CASE L!Expire(l)
  <2> DEFINE r == IF link[l].is = "made" THEN [link[l] EXCEPT !.is = "expired"] ELSE L!NoLink
  <2>1. link' = [link EXCEPT ![l] = r] /\ link[l].is # "missing"
    BY <1>3 DEF L!Expire
  <2>2. r \in LinkRow
    BY <1>1 DEF LinkRow, L!NoLink, L!Kinds
  <2>3. link[l].used => r.used \/ r.is = "missing"
    BY <1>1 DEF LinkRow, L!NoLink, L!Kinds
  <2> HIDE DEF r
  <2> QED
    BY <1>1, <2>1, <2>2, <2>3, RowKeeps
<1> QED
  BY <1>2, <1>3

LEMMA LinkStep == ASSUME LinkInv, [L!Next]_L!vars PROVE LinkInv'
<1>1. ASSUME NEW q \in Questions,
             L!QuestionComes(q) \/ L!HookDies(q) \/ L!AskSteps(q) \/ L!StepFails(q) \/ L!Dies(q)
      PROVE  LinkInv'
  <2>1. CASE L!AnswerLink(q)
    <3>1. L!CreateLink("answer") \/ UNCHANGED <<made, link>>
      BY <2>1 DEF L!AnswerLink
    <3>2. opened' = opened
      BY <2>1 DEF L!AnswerLink, L!opening
    <3> QED
      BY <3>1, <3>2, CreateKeeps, NoneMoves DEF L!Kinds
  <2>2. CASE ~L!AnswerLink(q)
    <3>1. UNCHANGED <<made, link, opened>>
      BY <1>1, <2>2 DEF L!QuestionComes, L!HookDies, L!AskSteps, L!Start, L!AlarmFires,
        L!StepSucceeds, L!TextAnswer, L!LogStep, L!GiveUp, L!StepFails, L!Dies, L!opening
    <3> QED
      BY <3>1, NoneMoves
  <2> QED
    BY <2>1, <2>2
<1>2. L!Notice => LinkInv'
  BY CreateKeeps DEF L!Notice, L!opening, L!Kinds
<1>3. L!Switch \/ L!vars' = L!vars => LinkInv'
  BY NoneMoves DEF L!Switch, L!opening, L!vars
<1>4. \A k \in Phones : L!LinkComes(k) => LinkInv'
  BY NoneMoves DEF L!LinkComes, L!opening
<1>5. \A k \in Phones : L!Reissue(k) => LinkInv'
  BY CreateKeeps DEF L!Reissue, L!opening, L!Kinds
<1>6. \A b \in Browsers : L!CheckPin(b) => LinkInv'
  BY NoneMoves DEF L!CheckPin
<1>7. \A b \in Browsers, l \in Links, right \in BOOLEAN : L!TryPin(b, l, right) => LinkInv'
  BY NoneMoves DEF L!TryPin
<1> QED
  BY <1>1, <1>2, <1>3, <1>4, <1>5, <1>6, <1>7, FailPinKeeps, UseKeeps, AgesKeeps DEF L!Next

\* "It works once" (link-do.ts): however many requests found a link ready, and
\* however many texts made links at once, one session starts on each.
THEOREM UsedOnceAlways == TextsSpec => []UsedOnce
<1>1. L!Init => LinkInv
  BY LinkInit
<1>2. LinkInv /\ [L!Next]_L!vars => LinkInv'
  BY LinkStep
<1>3. LinkInv => UsedOnce
  BY DEF LinkInv, LinkTyped, LinkOK, L!UsedOnce, UsedOnce
<1> QED
  BY <1>1, <1>2, <1>3, EachRuns, PTL
=============================================================================
