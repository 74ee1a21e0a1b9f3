---------------------------- MODULE TextedLinks ----------------------------
(***************************************************************************)
(* Questions by text, and the one-time links Busta texts.                  *)
(*                                                                         *)
(* A question that came in is logged in the TenantDO and handed to an      *)
(* AskDO, whose alarm takes one step of it each time and saves it: plan,   *)
(* candidates, score, read, reason, reply. A step that fails is tried      *)
(* again, three times in all; the object may die at any await, and its     *)
(* alarm is run again. The reply makes a link to the full answer, as a     *)
(* notice and LINK make one to an email. A link is a LinkDO; the page that *)
(* opens it asks for its status, the settings and the PIN, and then uses   *)
(* it, in calls of their own.                                              *)
(*                                                                         *)
(* What a step finds, and what is written, is left out; so is the time a   *)
(* retry waits. There is one account; links and opens are what its         *)
(* settings come to, which change beside all of this.                      *)
(*                                                                         *)
(* A Bug... operator is the operator that follows it with a mistake in it. *)
(***************************************************************************)
EXTENDS Naturals, Sequences, FiniteSets

CONSTANTS
    Questions,    \* questions that may come in
    Links,        \* links that may be made, 1..n
    Browsers,     \* requests to open a link that may be under way at once
    Phones,       \* LINK texts that may be handled at once
    MaxAttempts,  \* tries of one step (3 in the code)
    MaxPinFails,  \* wrong PINs that lock a link (5 in the code)
    MaxReissues,  \* links LINK gives for one email (3 in the code)
    MaxTries,     \* bound on requests to open a link
    MaxFaults     \* bound on failed calls, lost answers and deaths

VARIABLES
    hook,     \* the hook of each question
    ask,      \* AskDO: what is saved, step and attempts
    alarm,    \* AskDO: "none", "set", or "late", for 30 days on
    at,       \* AskDO: the alarm that runs
    qlog,     \* TenantDO: questions.status
    links,    \* TenantDO: the feature "links" is on
    opens,    \* TenantDO: the kinds of link the settings let be opened
    last,     \* TenantDO: last_notified.reissues
    link,     \* LinkDO
    try,      \* requests to open a link
    re,       \* LINK texts being handled: the reissues they read
    made,     \* links made
    tries, faults,
    texted,   \* history: how often each answer was texted
    slips,    \* history: faults between the text and its being saved
    unlogged, \* history: questions a call of logQuestion failed for
    opened    \* history: sessions started on each link

vars == <<hook, ask, alarm, at, qlog, links, opens, last, link, try, re, made, tries,
          faults, texted, slips, unlogged, opened>>
asking == <<hook, ask, alarm, at, qlog, texted, slips, unlogged>>
opening == <<try, tries, opened>>
settings == <<links, opens>>

Steps == <<"plan", "candidates", "score", "read", "reason", "reply", "done">>
Reply == Len(Steps) - 1
Done == Len(Steps)
NoAsk == [step |-> 0, attempts |-> 0]
Kinds == {"email", "answer"}
NoLink == [is |-> "missing", kind |-> "email", used |-> FALSE, fails |-> 0, open |-> FALSE]
NoText == MaxReissues + 1
NoTry == [pc |-> "idle", l |-> 1, kind |-> "email", right |-> FALSE]

\* The state is typed; no question has been tried more often than it may be,
\* and no email linked more often.
TypeOK ==
    /\ hook \in [Questions -> {"none", "start", "started", "dead"}]
    /\ \A q \in Questions : /\ ask[q].step \in 0..Done
                            /\ ask[q].attempts \in 0..MaxAttempts
                            /\ ask[q].attempts = MaxAttempts => ask[q].step = Done
    /\ alarm \in [Questions -> {"none", "set", "late"}]
    /\ at \in [Questions -> {"idle", "step", "text", "log", "sorry"}]
    /\ qlog \in [Questions -> {"none", "working", "answered", "failed"}]
    /\ links \in BOOLEAN /\ opens \subseteq Kinds /\ ("email" \in opens => links)
    /\ last \in 0..MaxReissues
    /\ \A l \in Links : /\ link[l].is \in {"missing", "made", "expired"} /\ link[l].kind \in Kinds
                        /\ link[l].is # "missing" => l <= made
                        /\ link[l].open => link[l].used
    /\ \A b \in Browsers : try[b].pc \in {"idle", "texting", "use", "fail"}
                            /\ try[b].l \in Links /\ try[b].kind \in Kinds
    /\ re \in [Phones -> 0..NoText]
    /\ made \in 0..Cardinality(Links)

Init ==
    /\ hook = [q \in Questions |-> "none"] /\ ask = [q \in Questions |-> NoAsk]
    /\ alarm = [q \in Questions |-> "none"] /\ at = [q \in Questions |-> "idle"]
    /\ qlog = [q \in Questions |-> "none"]
    /\ links = TRUE /\ opens = Kinds /\ last = MaxReissues /\ link = [l \in Links |-> NoLink]
    /\ try = [b \in Browsers |-> NoTry] /\ re = [k \in Phones |-> NoText]
    /\ made = 0 /\ tries = 0 /\ faults = 0
    /\ texted = [q \in Questions |-> 0] /\ slips = [q \in Questions |-> 0]
    /\ unlogged = {} /\ opened = [l \in Links |-> 0]

Fault == faults < MaxFaults /\ faults' = faults + 1

\* createLink; the links beyond the bound are not followed.
CreateLink(kind) ==
    IF made + 1 \notin Links THEN UNCHANGED <<made, link>>
    ELSE /\ made' = made + 1
         /\ link' = [link EXCEPT ![made + 1] = 
                        [NoLink EXCEPT !.is = "made", !.kind = kind]]

-----------------------------------------------------------------------------
(* A question comes in: inbound.ts *)

QuestionComes(q) ==
    /\ hook[q] = "none"
    /\ hook' = [hook EXCEPT ![q] = "start"]
    /\ qlog' = [qlog EXCEPT ![q] = "working"]
    /\ UNCHANGED <<ask, alarm, at, settings, last, link, re, made, faults, texted,
                   slips, unlogged, opening>>

\* AskDO.start, after "Looking..." has been texted.
Start(q) ==
    /\ hook[q] = "start"
    /\ hook' = [hook EXCEPT ![q] = "started"]
    /\ ask' = [ask EXCEPT ![q] = [step |-> 1, attempts |-> 0]]
    /\ alarm' = [alarm EXCEPT ![q] = "set"]
    /\ UNCHANGED <<at, qlog, settings, last, link, re, made, faults, texted, slips,
                   unlogged, opening>>

HookDies(q) ==
    /\ hook[q] = "start" /\ Fault
    /\ hook' = [hook EXCEPT ![q] = "dead"]
    /\ UNCHANGED <<ask, alarm, at, qlog, settings, last, link, re, made, texted,
                   slips, unlogged, opening>>

-----------------------------------------------------------------------------
(* AskDO.alarm *)

\* A question that is done is forgotten, whatever set the alarm.
AlarmFires(q) ==
    /\ alarm[q] # "none" /\ at[q] = "idle"
    /\ alarm' = [alarm EXCEPT ![q] = "none"]
    /\ IF ask[q].step \in {0, Done}
       THEN ask' = [ask EXCEPT ![q] = NoAsk] /\ UNCHANGED at
       ELSE at' = [at EXCEPT ![q] = "step"] /\ UNCHANGED ask
    /\ UNCHANGED <<hook, qlog, settings, last, link, re, made, faults, texted, slips,
                   unlogged, opening>>

\* Saves what is left to do, and not that nothing is.
BugTaken(st) == IF st.step = Reply THEN st ELSE [step |-> st.step + 1, attempts |-> 0]

\* The step is taken, and saved before anything else is called.
Taken(st) == [step |-> st.step + 1, attempts |-> 0]

Save(q, st) == ask' = [ask EXCEPT ![q] = st]
Goto(q, pc) == at' = [at EXCEPT ![q] = pc]

\* #step, all but the reply.
StepSucceeds(q) ==
    /\ at[q] = "step" /\ ask[q].step # Reply
    /\ Save(q, Taken(ask[q])) /\ Goto(q, "log")
    /\ UNCHANGED <<hook, alarm, qlog, settings, last, link, re, made, faults, texted,
                   slips, unlogged, opening>>

\* The reply: a link to the full answer, if links are on, and then the text.
AnswerLink(q) ==
    /\ at[q] = "step" /\ ask[q].step = Reply
    /\ IF links THEN CreateLink("answer") ELSE UNCHANGED <<link, made>>
    /\ Goto(q, "text")
    /\ UNCHANGED <<hook, ask, alarm, qlog, settings, last, re, faults, texted, slips,
                   unlogged, opening>>

SendSms(q) == texted' = [texted EXCEPT ![q] = @ + 1]

TextAnswer(q) ==
    /\ at[q] = "text" /\ SendSms(q)
    /\ Save(q, Taken(ask[q])) /\ Goto(q, "log")
    /\ UNCHANGED <<hook, alarm, qlog, settings, last, link, re, made, faults, slips,
                   unlogged, opening>>

\* logQuestion, and the next alarm.
LogStep(q) ==
    LET finished == ask[q].step = Done IN
    /\ at[q] = "log" /\ Goto(q, "idle")
    /\ qlog' = [qlog EXCEPT ![q] = IF finished THEN "answered" ELSE "working"]
    /\ alarm' = [alarm EXCEPT ![q] = IF finished THEN "late" ELSE "set"]
    /\ UNCHANGED <<hook, ask, settings, last, link, re, made, faults, texted, slips,
                   unlogged, opening>>

\* Forgets the alarm of the next try.
BugAgain(q, st) ==
    IF st.attempts + 1 >= MaxAttempts
    THEN Save(q, [step |-> Done, attempts |-> MaxAttempts]) /\ Goto(q, "sorry") /\ UNCHANGED alarm
    ELSE Save(q, [st EXCEPT !.attempts = @ + 1]) /\ Goto(q, "idle") /\ UNCHANGED alarm

\* The catch: another try in seconds, or none.
Again(q, st) ==
    IF st.attempts + 1 >= MaxAttempts
    THEN Save(q, [step |-> Done, attempts |-> MaxAttempts]) /\ Goto(q, "sorry") /\ UNCHANGED alarm
    ELSE /\ Save(q, [st EXCEPT !.attempts = @ + 1]) /\ Goto(q, "idle")
         /\ alarm' = [alarm EXCEPT ![q] = "set"]

\* A call fails: in a step, when the text is sent, or when it is logged.
StepFails(q) ==
    /\ at[q] \in {"step", "text", "log"} /\ Fault
    /\ Again(q, ask[q])
    /\ \/ UNCHANGED <<texted, slips>>
       \/ at[q] = "text" /\ SendSms(q) /\ slips' = [slips EXCEPT ![q] = @ + 1]
    /\ unlogged' = IF at[q] = "log" THEN unlogged \cup {q} ELSE unlogged
    /\ UNCHANGED <<hook, qlog, settings, last, link, re, made, opening>>

\* Logged as failed, and a text to say so; no alarm is set.
GiveUp(q) ==
    /\ at[q] = "sorry" /\ Goto(q, "idle")
    /\ qlog' = [qlog EXCEPT ![q] = "failed"]
    /\ UNCHANGED <<hook, ask, alarm, settings, last, link, re, made, faults, texted,
                   slips, unlogged, opening>>

\* The object dies, or the log fails outside the try: the alarm is run again.
Dies(q) ==
    /\ at[q] # "idle" /\ Fault
    /\ Goto(q, "idle") /\ alarm' = [alarm EXCEPT ![q] = "set"]
    /\ \/ UNCHANGED <<texted, slips>>
       \/ at[q] = "text" /\ SendSms(q) /\ slips' = [slips EXCEPT ![q] = @ + 1]
    /\ unlogged' = IF at[q] \in {"log", "sorry"} THEN unlogged \cup {q} ELSE unlogged
    /\ UNCHANGED <<hook, ask, qlog, settings, last, link, re, made, opening>>

-----------------------------------------------------------------------------
(* Links to emails: notify.ts and LINK *)

\* A notice with a link: the email LINK gives links to from now on.
Notice ==
    /\ links /\ CreateLink("email") /\ last' = 0
    /\ UNCHANGED <<asking, settings, re, faults, opening>>

Linkable == last < MaxReissues

\* LINK: the last email, 12 hours and 3 times. The line is checked, the link made
\* and counted from what was read before.
LinkComes(k) ==
    /\ re[k] = NoText /\ links /\ Linkable
    /\ re' = [re EXCEPT ![k] = last]
    /\ UNCHANGED <<asking, settings, last, link, made, faults, opening>>

Reissue(k) ==
    /\ re[k] # NoText /\ re' = [re EXCEPT ![k] = NoText]
    /\ CreateLink("email") /\ last' = re[k] + 1
    /\ UNCHANGED <<asking, settings, faults, opening>>

\* A feature is turned on or off, or the account is paused or gets another number.
Switch ==
    /\ links' \in BOOLEAN /\ opens' \in SUBSET Kinds
    /\ ("email" \in opens' => links') /\ settings' # settings
    /\ UNCHANGED <<asking, last, link, re, made, faults, opening>>

-----------------------------------------------------------------------------
(* Opening a link: web/src/lib/links.ts, LinkDO *)

Locked(l) == link[l].fails >= MaxPinFails

\* Relies on the status the page asked for.
BugUsable(l) == TRUE

Usable(l) == link[l].is = "made" /\ ~link[l].used /\ ~Locked(l)

\* tryPin: status, and if it is ready the settings, then the PIN.
TryPin(b, l, right) ==
    /\ try[b].pc = "idle" /\ tries < MaxTries /\ tries' = tries + 1
    /\ link[l].is = "made" /\ ~link[l].used /\ ~Locked(l)
    /\ try' = [try EXCEPT ![b] = [pc |-> "texting", l |-> l, kind |-> link[l].kind,
                                    right |-> right]]
    /\ UNCHANGED <<asking, settings, last, link, re, made, faults, opened>>

\* An email asks for the feature "links", an answer for "ask", and both for a phone
\* that is not paused.
CheckPin(b) ==
    /\ try[b].pc = "texting"
    /\ try' = [try EXCEPT ![b] = IF try[b].kind \notin opens THEN NoTry
                 ELSE [@ EXCEPT !.pc = IF try[b].right THEN "use" ELSE "fail"]]
    /\ UNCHANGED <<asking, settings, last, link, re, made, tries, faults, opened>>

FailPin(b) ==
    LET l == try[b].l IN
    /\ try[b].pc = "fail" /\ try' = [try EXCEPT ![b] = NoTry]
    /\ link' = IF link[l].is = "missing" THEN link ELSE [link EXCEPT ![l].fails = @ + 1]
    /\ UNCHANGED <<asking, settings, last, re, made, tries, faults, opened>>

Use(b) ==
    LET l == try[b].l IN
    /\ try[b].pc = "use" /\ try' = [try EXCEPT ![b] = NoTry]
    /\ IF Usable(l)
       THEN /\ link' = [link EXCEPT ![l].used = TRUE, ![l].open = TRUE]
            /\ opened' = [opened EXCEPT ![l] = @ + 1]
       ELSE UNCHANGED <<link, opened>>
    /\ UNCHANGED <<asking, settings, last, re, made, tries, faults>>

\* "Done", or half an hour has passed.
Close(l) ==
    /\ link[l].open /\ link' = [link EXCEPT ![l].open = FALSE]
    /\ UNCHANGED <<asking, settings, last, re, made, faults, opening>>

\* 12 hours pass; another day, and the link is deleted.
Expire(l) ==
    /\ link' = [link EXCEPT ![l] = IF @.is = "made" THEN [@ EXCEPT !.is = "expired"] ELSE NoLink]
    /\ link[l].is # "missing" /\ ~link[l].open
    /\ UNCHANGED <<asking, settings, last, re, made, faults, opening>>

AskSteps(q) ==
    \/ Start(q) \/ AlarmFires(q) \/ StepSucceeds(q) \/ AnswerLink(q)
    \/ TextAnswer(q) \/ LogStep(q) \/ GiveUp(q)

Next ==
    \/ \E q \in Questions : QuestionComes(q) \/ HookDies(q) \/ AskSteps(q) \/ StepFails(q) \/ Dies(q)
    \/ Notice \/ Switch
    \/ \E k \in Phones : LinkComes(k) \/ Reissue(k)
    \/ \E b \in Browsers : CheckPin(b) \/ FailPin(b) \/ Use(b)
                           \/ \E l \in Links, right \in BOOLEAN : TryPin(b, l, right)
    \/ \E l \in Links : Close(l) \/ Expire(l)

-----------------------------------------------------------------------------
(* What is to hold *)

\* An answer is texted once, and once more for each time the object died, or
\* Twilio's answer was lost, between the text and its being saved.
AnsweredOnce == \A q \in Questions : texted[q] <= 1 + slips[q]

\* "It works once" (link-do.ts): however many requests found the link ready, one
\* session starts on it.
UsedOnce == \A l \in Links : opened[l] <= 1

\* A question an AskDO has taken up is answered, or said to have failed, in the
\* log as well, unless a call that logs it failed.
QuestionSettles ==
    \A q \in Questions :
        hook[q] = "started" ~> qlog[q] \in {"answered", "failed"} \/ q \in unlogged
=============================================================================
