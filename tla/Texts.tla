------------------------------- MODULE Texts -------------------------------
(***************************************************************************)
(* What one person has to do with Busta by text: the number and the        *)
(* features of each account (Texting), and the questions, and the links    *)
(* to mail, of one of them (TextedLinks). They meet in the row of that     *)
(* account, which the settings page, STOP and a changed line write: its    *)
(* feature "links" is what a notice and an answer ask for, and its number, *)
(* its pause and the feature of the kind of link what the page of a link   *)
(* asks for.                                                               *)
(***************************************************************************)
EXTENDS Texting

CONSTANTS
    Me,        \* the account
    MaxSlips,  \* bound on faults of questions
    Questions, Links, Browsers, Phones, MaxAttempts, MaxPinFails, MaxReissues, MaxTries

ASSUME TextsAssumption ==
    /\ Me \in Accounts
    /\ IsFiniteSet(Links) /\ Links = 1..Cardinality(Links)
    /\ MaxAttempts \in Nat \ {0}
    /\ \A b \in {MaxPinFails, MaxReissues, MaxTries, MaxSlips} : b \in Nat

VARIABLES hook, ask, alarm, at, qlog, last, link, try, re, made, tries, slipped,
          texted, slips, unlogged, opened

\* The feature a link kind depends on (web/src/lib/links.ts).
FEATURE == [email |-> "links", answer |-> "ask"]

\* The kinds of link an account may open now.
Opens(r) ==
    {kind \in DOMAIN FEATURE : r.phone # None /\ ~r.paused /\ FEATURE[kind] \in r.features}

L == INSTANCE TextedLinks
       WITH links <- "links" \in row[Me].features, opens <- Opens(row[Me]),
            faults <- slipped, MaxFaults <- MaxSlips

own == <<hook, ask, alarm, at, qlog, last, link, try, re, made, tries, slipped,
         texted, slips, unlogged, opened>>

TextsInit == Init /\ L!Init

\* A step of either leaves the other alone, but for the feature.
TextsNext ==
    \/ Next /\ UNCHANGED own
    \/ UNCHANGED vars /\ L!Next

TextsSpec == TextsInit /\ [][TextsNext]_<<vars, own>>

-----------------------------------------------------------------------------
(* What is to hold *)

\* An answer is texted once, and once more for each time the object died, or
\* Twilio's answer was lost, between the text and its being saved (ask-do.ts).
AnsweredOnce == L!AnsweredOnce

\* "It works once" (link-do.ts), whoever turns links off and on meanwhile.
UsedOnce == L!UsedOnce
=============================================================================
