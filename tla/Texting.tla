------------------------------ MODULE Texting ------------------------------
(***************************************************************************)
(* Texting: whose number a number is, and what may be texted to it.        *)
(*                                                                         *)
(* An account is a person in an organization: a row of the texting table   *)
(* in the TenantDO of the organization. The PhoneDO of a number names the  *)
(* account that verified it last, for the texts that come in. The two are  *)
(* written by separate calls: of the settings page (verify, remove, turn a *)
(* feature on), of the hook for texts that come in (STOP, LINK, a          *)
(* question) and of a notice that mail was filed. Each of them reads a row *)
(* and acts on what it read several awaits later. run[w] is one request,   *)
(* pc the call it makes next.                                              *)
(*                                                                         *)
(* Of the features, "subject" only words the texts and is left out. The    *)
(* caps of texts an hour and questions a day may refuse at any time.       *)
(*                                                                         *)
(* A Bug... operator is the operator that follows it with a mistake in it. *)
(***************************************************************************)
EXTENDS Naturals, Sequences, FiniteSets, SequencesExt

CONSTANTS
    Accounts,     \* pairs of a person and an organization
    UserOf,       \* the person of each
    Numbers,      \* phone numbers
    Workers,      \* requests that may be under way at once
    None,
    MaxCodes,     \* bound on codes sent
    MaxRequests,  \* bound on requests, texts that come in among them
    MaxFaults     \* bound on requests cut off, failed pauses and changed lines

ASSUME AccountsAssumption == DOMAIN UserOf = Accounts /\ None \notin Accounts \cup Numbers
ASSUME BoundsAssumption ==
    \A b \in {MaxCodes, MaxRequests, MaxFaults} : b \in Nat

VARIABLES
    row,       \* texting
    owner,     \* PhoneDO: owner
    codes,     \* numbers Twilio Verify has a code out for
    changed,   \* numbers whose SIM or carrier changed since they were verified
    run,       \* requests
    sent,      \* codes sent
    begun,     \* requests begun
    faults,
    cut,       \* history: accounts a request about them was cut off
    crossed,   \* history: accounts a late call undid something newer of
    agreed,    \* history: the number each feature was turned on for
    found,     \* history: accounts a look-up found a changed line of
    stopped    \* history: numbers STOP was carried out for

vars == <<row, owner, codes, changed, run, sent, begun, faults,
          cut, crossed, agreed, found, stopped>>
twilio == <<codes, changed, sent>>
history == <<cut, crossed, agreed, found, stopped>>

Features == <<"notify", "links", "ask">>
Words == {"STOP", "LINK", "ASK"}
Idle == [act |-> "none", pc |-> "idle", a |-> None, n |-> None, old |-> None,
         prev |-> None, f |-> 0]
NoRow == [phone |-> None, pending |-> None, paused |-> FALSE, checked |-> FALSE,
          features |-> {}]

Recorded == [phone: Numbers \cup {None}, pending: Numbers \cup {None},
             paused: BOOLEAN, features: SUBSET ToSet(Features),
             checked: BOOLEAN]  \* line_checked_at is under 6 hours ago

\* Rows and requests have their fields; nobody silences itself.
TypeOK ==
    /\ row \in [Accounts -> Recorded]
    /\ owner \in [Numbers -> Accounts \cup {None}]
    /\ codes \subseteq Numbers /\ changed \subseteq Numbers
    /\ \A w \in Workers :
         /\ run[w].act \in {"none", "verify", "remove", "feature", "notice"} \cup Words
         /\ run[w].pc \in {"idle", "check", "confirm", "release", "claim", "silence",
                           "feature", "line", "lookup", "pause", "owner", "stop", "view"}
         /\ run[w].pc # "idle" <=> run[w].act # "none"
         /\ run[w].a \in Accounts \cup {None} /\ run[w].n \in Numbers \cup {None}
         /\ run[w].pc = "silence" => run[w].prev \in Accounts \ {run[w].a}
         /\ run[w].pc = "release" => run[w].old \in Numbers
    /\ cut \cup crossed \cup found \subseteq Accounts /\ stopped \subseteq Numbers

\* Some accounts have a number, with every feature on or none, and codes have been sent.
Init ==
    \E phone \in [Accounts -> Numbers \cup {None}], on \in {{}, ToSet(Features)} :
        /\ \A a, b \in Accounts : a # b /\ phone[a] # None => phone[a] # phone[b]
        /\ row = [a \in Accounts |-> [NoRow EXCEPT !.phone = phone[a],
                     !.features = IF phone[a] = None THEN {} ELSE on]]
        /\ owner = [n \in Numbers |->
                      IF \E a \in Accounts : phone[a] = n
                      THEN CHOOSE a \in Accounts : phone[a] = n ELSE None]
        /\ agreed = [a \in Accounts |-> [f \in ToSet(Features) |-> phone[a]]]
        /\ codes = {} /\ changed = {}
        /\ run = [w \in Workers |-> Idle]
        /\ sent = 0 /\ begun = 0 /\ faults = 0
        /\ cut = {} /\ crossed = {} /\ found = {} /\ stopped = {}

-----------------------------------------------------------------------------
(* Requests *)

Row(a, new) == row' = [row EXCEPT ![a] = new]
Begin(w, r) ==
    /\ run[w].pc = "idle" /\ begun < MaxRequests
    /\ begun' = begun + 1 /\ run' = [run EXCEPT ![w] = r]
    /\ UNCHANGED <<owner, faults>>
At(w, pc) == run[w].pc = pc /\ UNCHANGED begun
Go(w, pc) == run' = [run EXCEPT ![w] = IF pc = "idle" THEN Idle ELSE [@ EXCEPT !.pc = pc]]

-----------------------------------------------------------------------------
(* The settings page *)

\* startPhoneVerify, and Twilio sends a code.
StartPhoneVerify(a, n) ==
    /\ sent < MaxCodes /\ sent' = sent + 1
    /\ Row(a, [row[a] EXCEPT !.pending = n]) /\ codes' = codes \cup {n}
    /\ UNCHANGED <<owner, changed, run, begun, faults, history>>

\* The code is entered: for the number that waits for one now.
VerifyBegins(w, a) ==
    /\ row[a].pending # None
    /\ Begin(w, [Idle EXCEPT !.act = "verify", !.pc = "check", !.a = a,
                   !.n = row[a].pending])
    /\ UNCHANGED <<row, twilio, history>>

CheckVerify(w) ==
    /\ At(w, "check")
    /\ IF run[w].n \in codes THEN codes' = codes \ {run[w].n} /\ Go(w, "confirm")
                             ELSE Go(w, "idle") /\ UNCHANGED codes
    /\ UNCHANGED <<row, owner, changed, sent, faults, history>>

\* Keeps the features that were agreed to for another number.
BugConfirmed(r, n) == [r EXCEPT !.phone = n, !.pending = None, !.paused = FALSE]

\* confirmPhone. A new number starts with every feature off.
Confirmed(r, n) ==
    [r EXCEPT !.phone = n, !.pending = None, !.paused = FALSE,
              !.features = IF r.phone = n THEN @ ELSE {}]

ConfirmPhone(w) ==
    LET a == run[w].a old == row[a].phone IN
    /\ At(w, "confirm")
    /\ Row(a, Confirmed(row[a], run[w].n))
    /\ run' = [run EXCEPT ![w] = [@ EXCEPT !.old = old,
                 !.pc = IF old \in {None, run[w].n} THEN "claim" ELSE "release"]]
    /\ changed' = changed \ {run[w].n} /\ found' = found \ {a}
    /\ UNCHANGED <<owner, codes, sent, faults, cut, crossed, agreed, stopped>>

\* release forgets a mapping that is of this person, in whichever organization.
Releases(a, o) == o # None /\ UserOf[o] = UserOf[a]

Release(w) ==
    LET a == run[w].a n == run[w].old o == owner[n] IN
    /\ At(w, "release")
    /\ owner' = [owner EXCEPT ![n] = IF Releases(a, @) THEN None ELSE @]
    /\ crossed' = IF o # None /\ UserOf[o] = UserOf[a] /\ row[o].phone = n
                  THEN crossed \cup {o} ELSE crossed
    /\ Go(w, IF run[w].act = "verify" THEN "claim" ELSE "idle")
    /\ UNCHANGED <<row, twilio, faults, cut, agreed, found, stopped>>

\* Whoever verified a number before keeps it.
BugPrevious(a, n) == None

\* Whoever the number was of, unless it is the account itself.
Previous(a, n) == IF owner[n] = a THEN None ELSE owner[n]

\* claim: the newest verification wins.
Claim(w) ==
    LET a == run[w].a prev == Previous(a, run[w].n) IN
    /\ At(w, "claim")
    /\ owner' = [owner EXCEPT ![run[w].n] = a]
    /\ IF prev = None THEN Go(w, "idle")
       ELSE run' = [run EXCEPT ![w] = [@ EXCEPT !.pc = "silence", !.prev = prev]]
    /\ UNCHANGED <<row, twilio, faults, history>>

\* removePhone: of whoever had the number before, and of the owner who asks.
Removed(r) == [r EXCEPT !.phone = None, !.pending = None, !.paused = FALSE, !.features = {}]

Silence(w) ==
    /\ At(w, "silence")
    /\ Row(run[w].prev, Removed(row[run[w].prev]))
    /\ Go(w, "idle") /\ found' = found \ {run[w].prev}
    /\ UNCHANGED <<owner, twilio, faults, cut, crossed, agreed, stopped>>

RemovePhone(w, a) ==
    /\ row[a].phone # None
    /\ Begin(w, [Idle EXCEPT !.act = "remove", !.pc = "release", !.a = a,
                   !.old = row[a].phone])
    /\ Row(a, Removed(row[a])) /\ found' = found \ {a}
    /\ UNCHANGED <<twilio, cut, crossed, agreed, stopped>>

\* A feature is turned on by a page that found the phone verified.
FeatureBegins(w, a, i) ==
    /\ row[a].phone # None /\ ~row[a].paused /\ Features[i] \notin row[a].features
    /\ Begin(w, [Idle EXCEPT !.act = "feature", !.pc = "feature", !.a = a, !.f = i,
                   !.n = row[a].phone])
    /\ stopped' = stopped \ {row[a].phone}
    /\ UNCHANGED <<row, twilio, cut, crossed, agreed, found>>

FeatureOn(w) ==
    LET a == run[w].a IN
    /\ At(w, "feature")
    /\ Row(a, [row[a] EXCEPT !.features = @ \cup {Features[run[w].f]}])
    /\ agreed' = [agreed EXCEPT ![a][Features[run[w].f]] = run[w].n]
    /\ crossed' = IF \/ row[a].phone # run[w].n \/ run[w].n \in stopped
                     \/ \E u \in Workers : run[u].pc = "stop" /\ run[u].a = a
                  THEN crossed \cup {a} ELSE crossed
    /\ Go(w, "idle")
    /\ UNCHANGED <<owner, twilio, faults, cut, found, stopped>>

FeatureOff(a, f) ==
    /\ f \in row[a].features /\ begun < MaxRequests /\ begun' = begun + 1
    /\ Row(a, [row[a] EXCEPT !.features = @ \ {f}])
    /\ UNCHANGED <<owner, twilio, run, faults, history>>

-----------------------------------------------------------------------------
(* lineStillTrusted, of a notice, of LINK and of a question *)

\* The line is taken to be the one verified: what the request is for is sent
\* (TextedLinks has what comes of it), and it is done.
Trusted(w) == Go(w, "idle")

Line(w) ==
    /\ At(w, "line")
    /\ IF row[run[w].a].checked THEN Trusted(w) ELSE Go(w, "lookup")
    /\ UNCHANGED <<row, owner, twilio, faults, history>>

\* The look-up is marked as made before the account is paused. One that fails is
\* not marked, and the line is trusted.
Lookup(w) ==
    LET a == run[w].a IN
    /\ At(w, "lookup")
    /\ \/ /\ Row(a, [row[a] EXCEPT !.checked = TRUE])
          /\ IF run[w].n \in changed THEN Go(w, "pause") ELSE Trusted(w)
          /\ found' = found \cup (IF run[w].n \in changed /\ row[a].phone = run[w].n THEN {a} ELSE {})
          /\ UNCHANGED faults
       \/ /\ faults < MaxFaults /\ faults' = faults + 1
          /\ Trusted(w) /\ UNCHANGED <<row, found>>
    /\ UNCHANGED <<owner, twilio, cut, crossed, agreed, stopped>>

\* Goes on as if nothing had been found.
BugPause(w) ==
    /\ At(w, "pause") /\ Trusted(w)
    /\ UNCHANGED <<row, owner, twilio, faults, history>>

\* pauseTexting; a call that fails is taken for a look-up that failed.
Pause(w) ==
    LET a == run[w].a IN
    /\ At(w, "pause")
    /\ \/ Row(a, [row[a] EXCEPT !.paused = TRUE]) /\ Go(w, "idle") /\ UNCHANGED <<faults, cut>>
       \/ /\ faults < MaxFaults /\ faults' = faults + 1
          /\ cut' = cut \cup {a} /\ Trusted(w) /\ UNCHANGED row
    /\ UNCHANGED <<owner, twilio, crossed, agreed, found, stopped>>

\* Hours pass, longer than any request takes, and the line may be checked again.
CheckAgain(a) ==
    /\ row[a].checked /\ Row(a, [row[a] EXCEPT !.checked = FALSE])
    /\ \A w \in Workers : run[w].pc = "idle"
    /\ UNCHANGED <<owner, twilio, run, begun, faults, history>>

\* The SIM of a number, or its carrier, changes.
LineChanges(n) ==
    /\ n \notin changed /\ faults < MaxFaults
    /\ changed' = changed \cup {n} /\ faults' = faults + 1
    /\ UNCHANGED <<row, owner, codes, sent, run, begun, history>>

-----------------------------------------------------------------------------
(* notifyFiled *)

\* Mail is filed in a folder the account follows: textingForFolder. The line
\* is checked if the text is to have a link.
NoticeBegins(w, a) ==
    LET r == row[a] IN
    /\ r.phone # None /\ {"notify", "links"} \subseteq r.features /\ ~r.paused
    /\ Begin(w, [Idle EXCEPT !.act = "notice", !.a = a, !.n = r.phone,
                   !.pc = "line"])
    /\ UNCHANGED <<row, twilio, history>>

-----------------------------------------------------------------------------
(* smsWebhook *)

\* A text comes in for the first time (firstDelivery) and is handled in the
\* background. Posted again it is dropped, or, once 50 others have come, handled
\* as another text of the same words would be.
TextComesIn(w, n, word) ==
    /\ Begin(w, [Idle EXCEPT !.act = word, !.pc = "owner", !.n = n])
    /\ UNCHANGED <<row, twilio, history>>

\* STOP is carried out, for account a: another that has the number is missed.
Stopped(n, a) ==
    /\ stopped' = stopped \cup {n}
    /\ crossed' = crossed \cup {b \in Accounts \ {a} : row[b].phone = n}

Handle(w) ==
    LET o == owner[run[w].n] IN
    /\ At(w, "owner")
    /\ IF o = None
       THEN /\ Go(w, "idle")  \* an unknown number
            /\ IF run[w].act = "STOP" THEN Stopped(run[w].n, None)
               ELSE UNCHANGED <<stopped, crossed>>
       ELSE /\ run' = [run EXCEPT ![w] = [@ EXCEPT !.a = o, !.f = 1,
                         !.pc = IF run[w].act = "STOP" THEN "stop" ELSE "view"]]
            /\ UNCHANGED <<stopped, crossed>>
    /\ UNCHANGED <<row, owner, twilio, faults, cut, agreed, found>>

\* Turns off what is texted, and leaves links and questions.
BugLastFeature == 1

\* STOP turns every feature off, one call each.
LastFeature == Len(Features)

Stop(w) ==
    LET a == run[w].a i == run[w].f IN
    /\ At(w, "stop")
    /\ Row(a, [row[a] EXCEPT !.features = @ \ {Features[i]}])
    /\ IF i = LastFeature
       THEN Go(w, "idle") /\ Stopped(run[w].n, a)
       ELSE run' = [run EXCEPT ![w].f = i + 1] /\ UNCHANGED <<stopped, crossed>>
    /\ UNCHANGED <<owner, twilio, faults, cut, agreed, found>>

\* The row of the owner: nothing is said if its number is another by now.
View(w) ==
    LET r == row[run[w].a] IN
    /\ At(w, "view")
    /\ Go(w, IF r.phone # run[w].n \/ r.paused THEN "idle"
             ELSE IF run[w].act = "LINK"
             THEN IF "links" \in r.features THEN "line" ELSE "idle"
             ELSE IF "ask" \in r.features THEN "line" ELSE "idle")
    /\ UNCHANGED <<row, owner, twilio, faults, history>>

\* The worker dies under a request, or a call it makes fails.
Dies(w) ==
    /\ run[w].pc # "idle" /\ faults < MaxFaults /\ faults' = faults + 1
    /\ cut' = cut \cup ({run[w].a, run[w].prev} \ {None})
    /\ Go(w, "idle")
    /\ UNCHANGED <<row, owner, twilio, begun, crossed, agreed, found, stopped>>

Next ==
    \/ \E a \in Accounts, n \in Numbers : StartPhoneVerify(a, n)
    \/ \E a \in Accounts : CheckAgain(a) \/ \E f \in ToSet(Features) : FeatureOff(a, f)
    \/ \E n \in Numbers : LineChanges(n)
    \/ \E w \in Workers :
         \/ \E a \in Accounts : VerifyBegins(w, a) \/ RemovePhone(w, a) \/ NoticeBegins(w, a)
         \/ \E a \in Accounts, i \in DOMAIN Features : FeatureBegins(w, a, i)
         \/ \E n \in Numbers, word \in Words : TextComesIn(w, n, word)
         \/ CheckVerify(w) \/ ConfirmPhone(w) \/ Release(w) \/ Claim(w) \/ Silence(w)
         \/ FeatureOn(w) \/ Line(w) \/ Lookup(w) \/ Pause(w)
         \/ Handle(w) \/ Stop(w) \/ View(w) \/ Dies(w)

Spec == Init /\ [][Next]_vars

-----------------------------------------------------------------------------
(* What is to hold *)

\* "The newest verification wins" (phone-do.ts): a row's number is mapped to
\* that row, or the verification that will see to it is still under way, or was
\* cut off, or a release of an earlier number or organization came late. So
\* mail is texted to the account that verified the number last, and to no other.
NumberHasOneOwner ==
    \A a \in Accounts :
        LET n == row[a].phone IN
        n # None =>
            \/ owner[n] = a
            \/ a \in cut \cup crossed
            \/ \E w \in Workers : /\ run[w].act = "verify" /\ run[w].n = n
                                  /\ \/ run[w].a = a /\ run[w].pc \in {"release", "claim"}
                                     \/ run[w].prev = a /\ run[w].pc = "silence"

\* "A new number starts with every feature off (they were agreed for the old
\* one)" (tenant-do.ts, confirmPhone): what is on was turned on while the number
\* was the one it is now, unless the page that turned it on was overtaken.
AgreedForNumber ==
    \A a \in Accounts \ crossed : \A f \in row[a].features :
        row[a].phone # None => agreed[a][f] = row[a].phone

\* Once a look-up has found that the line is no longer the one verified, the
\* account is paused until it verifies again, unless the call that pauses it
\* has still to come, or failed (it is not made again: the look-up counts).
ChangePauses ==
    \A a \in found \ cut :
        row[a].paused \/ \E w \in Workers : run[w].a = a /\ run[w].pc = "pause"

\* "STOP turns every feature off" (inbound.ts): after it, an account that has
\* the number has nothing on until it turns something on again, unless STOP came
\* when the number was mapped to another, or an earlier page was late.
StopStops ==
    \A a \in Accounts \ crossed :
        row[a].phone \in stopped => row[a].features = {}
=============================================================================
