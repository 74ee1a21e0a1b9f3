----------------------------- MODULE Provision -----------------------------
(***************************************************************************)
(* Who owns an address, and which addresses an organization lists.         *)
(*                                                                         *)
(* The MailboxDO of an address says who owns it; the TenantDO of an        *)
(* organization lists its addresses and remembers how first-mailbox setup  *)
(* ended. No call changes both. A request claims the address and then      *)
(* lists it: first-mailbox setup on a page load, Retry, a Gmail account    *)
(* that is connected. An admin adopts a system address: it is transferred, *)
(* listed, and unlisted at the system's organization, which the first mail *)
(* for it claimed it for. Deleting a connected account's mail ends with    *)
(* the address unlisted and its object wiped. A request may die between    *)
(* any two calls, and a call may fail or lose its answer.                  *)
(*                                                                         *)
(* Left out: labels, colors, the claim form (MULTI_MAILBOX is off) and the *)
(* development route. GmailSync has what connecting starts, ThreadStore    *)
(* and Filing what deleting a message does.                                *)
(*                                                                         *)
(* A Bug... operator is the operator that follows it with a mistake in it. *)
(***************************************************************************)
EXTENDS Naturals

CONSTANTS       \* Overview says what is assumed of them
    Orgs,       \* organizations people belong to
    Admins,     \* those whose members may adopt a system address
    System,     \* SYSTEM_ORG_ID
    None,       \* nobody
    Names,      \* addresses that usernames give
    Reports,    \* system addresses
    Gmails,     \* addresses of Gmail accounts
    Requests,   \* requests and mail that may be under way at once
    MaxFaults   \* bound on deaths and failed calls

Addresses == Names \cup Reports \cup Gmails
Owners == Orgs \cup {System}

VARIABLES
    owner,   \* MailboxDO: meta owner_org_id
    purge,   \* MailboxDO: the alarm that deletes: "no", "on", "unlisted"
    listed,  \* TenantDO: mailboxes
    flag,    \* TenantDO: tenant_flags.auto_provision
    req,     \* what each request is at
    faults,
    given,   \* history: the addresses setup listed for an organization
    torn,    \* history: addresses a fault left claimed and not listed
    raced    \* history: addresses listed while they were being deleted

vars == <<owner, purge, listed, flag, req, faults, given, torn, raced>>
history == <<given, torn, raced>>

Idle == [op |-> "none", pc |-> "idle", o |-> None, a |-> None]

TypeOK ==
    /\ owner \in [Addresses -> Owners \cup {None}]
    /\ purge \in [Addresses -> {"no", "on", "unlisted"}]
    /\ listed \in [Owners -> SUBSET Addresses]
    /\ flag \in [Orgs -> {"none", "running", "done", "failed"}]
    /\ req \in [Requests ->
                  [op : {"none", "load", "retry", "adopt", "mail", "connect"},
                   pc : {"idle", "name", "owner", "claim", "list", "unlist",
                         "done", "failed", "again"},
                   o : Owners \cup {None}, a : Addresses \cup {None}]]
    /\ faults \in 0..MaxFaults
    /\ given \in [Orgs -> SUBSET Names]
    /\ torn \in SUBSET Addresses /\ raced \in SUBSET Addresses

Init ==
    /\ owner = [a \in Addresses |-> None]
    /\ purge = [a \in Addresses |-> "no"]
    /\ listed = [o \in Owners |-> {}]
    /\ flag = [o \in Orgs |-> "none"]
    /\ req = [r \in Requests |-> Idle]
    /\ faults = 0
    /\ given = [o \in Orgs |-> {}]
    /\ torn = {} /\ raced = {}

At(r, pc) == req[r].pc = pc
Go(r, pc) == req' = [req EXCEPT ![r].pc = pc]
Answer(r) == req' = [req EXCEPT ![r] = Idle]
Begin(r, op, pc, o, a) ==
    /\ At(r, "idle")
    /\ req' = [req EXCEPT ![r] = [op |-> op, pc |-> pc, o |-> o, a |-> a]]

----------------------------------------------------------------------------
(* First-mailbox setup, on a page load: claimAutoProvision, and then what  *)
(* autoProvisionFirstMailbox does. Only an outcome object is settled, and  *)
(* "running" is one.                                                       *)

BugUnsettled(o) == flag[o] \in {"none", "running"} /\ listed[o] = {}
Unsettled(o) == flag[o] = "none" /\ listed[o] = {}

Load(r, o) ==
    /\ Unsettled(o)
    /\ Begin(r, "load", "name", o, None)
    /\ flag' = [flag EXCEPT ![o] = "running"]
    /\ UNCHANGED <<owner, purge, listed, faults, history>>

\* clerkUsername: whose username depends on who loaded the page.
Name(r) ==
    /\ At(r, "name")
    /\ \/ \E a \in Names :
             req' = [req EXCEPT ![r].a = a, ![r].pc = "owner"]
       \/ Go(r, "failed")
       \/ Go(r, "again")
    /\ UNCHANGED <<owner, purge, listed, flag, faults, history>>

\* Somebody else's address is refused before it is claimed.
Owner(r) ==
    /\ At(r, "owner")
    /\ Go(r, IF owner[req[r].a] \in {None, req[r].o} THEN "claim" ELSE "failed")
    /\ UNCHANGED <<owner, purge, listed, flag, faults, history>>

\* finishAutoProvision: a retryable end releases the claim.
Finish(r) ==
    /\ req[r].pc \in {"done", "failed", "again"}
    /\ flag' = [flag EXCEPT ![req[r].o] = IF At(r, "again") THEN "none" ELSE req[r].pc]
    /\ Answer(r)
    /\ UNCHANGED <<owner, purge, listed, faults, given, torn, raced>>

----------------------------------------------------------------------------
(* The other requests.                                                     *)

\* POST /mailboxes/<address>/retry, by the organization that owns it.
Retry(r, o, a) ==
    /\ owner[a] = o
    /\ Begin(r, "retry", "claim", o, a)
    /\ UNCHANGED <<owner, purge, listed, flag, faults, history>>

\* MailboxDO.transfer is a compare-and-set.
Transferable(a) == owner[a] = System

Adopt(r, o, a) ==
    /\ Transferable(a)
    /\ Begin(r, "adopt", "list", o, a)
    /\ owner' = [owner EXCEPT ![a] = o]
    /\ UNCHANGED <<purge, listed, flag, faults, history>>

\* Mail for a system address nobody owns yet.
MailIn(r, a) ==
    /\ owner[a] = None
    /\ Begin(r, "mail", "claim", System, a)
    /\ UNCHANGED <<owner, purge, listed, flag, faults, history>>

\* Google vouches for the address; one that is here already is not claimed.
Connect(r, o, a) ==
    /\ owner[a] \in {None, o}
    /\ Begin(r, "connect", IF owner[a] = None THEN "claim" ELSE "list", o, a)
    /\ UNCHANGED <<owner, purge, listed, flag, faults, history>>

----------------------------------------------------------------------------
(* Claim, then list: provisionMailbox and its like.                        *)

BugGranted(o, a) == TRUE
Granted(o, a) == owner[a] \in {None, o}

\* Mail lists a system address whether its claim won or not.
Claim(r) ==
    /\ At(r, "claim")
    /\ LET o == req[r].o
           a == req[r].a
           won == Granted(o, a) \/ req[r].op = "mail"
       IN /\ owner' = [owner EXCEPT ![a] = IF @ = None THEN o ELSE @]
          /\ CASE won -> Go(r, "list")
               [] ~won /\ req[r].op = "load" -> Go(r, "failed")
               [] OTHER -> Answer(r)
    /\ UNCHANGED <<purge, listed, flag, faults, history>>

\* addMailbox upserts.
List(r) ==
    /\ At(r, "list")
    /\ LET o == req[r].o
           a == req[r].a
           op == req[r].op
       IN /\ listed' = [listed EXCEPT ![o] = @ \cup {a}]
          /\ torn' = IF owner[a] = o THEN torn \ {a} ELSE torn
          /\ raced' = IF purge[a] = "no" THEN raced ELSE raced \cup {a}
          /\ given' = IF op = "load" THEN [given EXCEPT ![o] = @ \cup {a}] ELSE given
          /\ CASE op = "load" -> Go(r, "done")
               [] op = "adopt" -> Go(r, "unlist")
               [] OTHER -> Answer(r)
    /\ UNCHANGED <<owner, purge, flag, faults>>

Unlist(r) ==
    /\ At(r, "unlist")
    /\ listed' = [listed EXCEPT ![System] = @ \ {req[r].a}]
    /\ Answer(r)
    /\ UNCHANGED <<owner, purge, flag, faults, given, torn, raced>>

----------------------------------------------------------------------------
(* Deleting a connected account, and faults.                               *)

\* startPurge, of an account its organization still lists.
Delete(a) ==
    /\ owner[a] # None
    /\ purge[a] = "no"
    /\ purge' = [purge EXCEPT ![a] = "on"]
    /\ UNCHANGED <<owner, listed, flag, req, faults, given, torn, raced>>

\* The last #purgeStep: removeMailbox, then deleteAll.
PurgeUnlists(a) ==
    /\ purge[a] = "on"
    /\ listed' = [listed EXCEPT ![owner[a]] = @ \ {a}]
    /\ purge' = [purge EXCEPT ![a] = "unlisted"]
    /\ UNCHANGED <<owner, flag, req, faults, history>>

PurgeWipes(a) ==
    /\ purge[a] = "unlisted"
    /\ owner' = [owner EXCEPT ![a] = None]
    /\ purge' = [purge EXCEPT ![a] = "no"]
    /\ raced' = IF \E r \in Requests : req[r].a = a /\ At(r, "list")
                THEN raced \cup {a} ELSE raced
    /\ torn' = torn \ {a}
    /\ UNCHANGED <<listed, flag, req, faults, given>>

Fault == faults < MaxFaults /\ faults' = faults + 1
Tear(r) == torn' = IF At(r, "list") THEN torn \cup {req[r].a} ELSE torn

\* removeMailbox fails or the object dies: the alarm runs again.
PurgeAgain(a) ==
    /\ purge[a] = "unlisted"
    /\ Fault
    /\ purge' = [purge EXCEPT ![a] = "on"]
    /\ torn' = torn \cup {a}
    /\ UNCHANGED <<owner, listed, flag, req, given, raced>>

\* The worker dies, or a call fails that the request does not catch.
Dies(r) ==
    /\ ~ At(r, "idle")
    /\ Fault
    /\ Answer(r)
    /\ Tear(r)
    /\ UNCHANGED <<owner, purge, listed, flag, given, raced>>

\* claim or addMailbox fails, or its answer is lost: setup tries again later.
Errs(r) ==
    /\ req[r].op = "load"
    /\ req[r].pc \in {"claim", "list", "done"}
    /\ Fault
    /\ Go(r, "again")
    /\ Tear(r)
    /\ UNCHANGED <<owner, purge, listed, flag, given, raced>>

Next ==
    \/ \E r \in Requests :
         \/ Name(r) \/ Owner(r) \/ Finish(r) \/ Claim(r) \/ List(r) \/ Unlist(r)
         \/ Dies(r) \/ Errs(r)
         \/ \E o \in Orgs : \/ Load(r, o)
                            \/ \E a \in Addresses : Retry(r, o, a)
                            \/ \E a \in Gmails : Connect(r, o, a)
         \/ \E o \in Admins, a \in Reports : Adopt(r, o, a)
         \/ \E a \in Reports : MailIn(r, a)
    \/ \E a \in Gmails : \/ Delete(a) \/ PurgeUnlists(a) \/ PurgeWipes(a)
                         \/ PurgeAgain(a)

Spec == Init /\ [][Next]_vars

----------------------------------------------------------------------------
(* Properties.                                                             *)

Listing(o, a) == \E r \in Requests : At(r, "list") /\ req[r].o = o /\ req[r].a = a

\* The two objects of an address agree, whatever the order of the requests on
\* it: an organization lists only what it owns, and what it owns it lists,
\* once the request that claimed it has, unless a fault tore the two apart or
\* the address was listed while it was being deleted.
ListedIffOwned ==
    \A o \in Orgs, a \in Addresses \ raced :
        /\ a \in listed[o] => owner[a] = o
        /\ owner[a] = o => \/ a \in listed[o] \/ Listing(o, a)
                           \/ a \in torn \/ purge[a] = "unlisted"

\* First-mailbox setup gives an organization one address, however many of
\* its members load a page at once, and however often setup failed half-way.
OneFirstMailbox == \A o \in Orgs : \A a, b \in given[o] : a = b
============================================================================
