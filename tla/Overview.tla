------------------------------ MODULE Overview ------------------------------
(***************************************************************************)
(* What a person sees first: the addresses their organization lists        *)
(* (Provision), and the mail of each (this module extends Lists). The two  *)
(* share no state. ProvisionSpec is of addresses whose mail nobody reads,  *)
(* Spec of mailboxes that change no owner.                                 *)
(***************************************************************************)
EXTENDS Lists

CONSTANTS Orgs, Admins, System, None, Names, Reports, Gmails, Requests, MaxFaults  \* Provision

\* The system's organization is nobody's; an address is a username's, one of the
\* system's or a Gmail account's.
ASSUME OverviewAssumption ==
    /\ Admins \subseteq Orgs
    /\ System \notin Orgs /\ None \notin Orgs /\ System # None
    /\ Names \cap Reports = {} /\ Names \cap Gmails = {} /\ Reports \cap Gmails = {}
    /\ MaxFaults \in Nat

VARIABLES owner, dropping, listed, flag, req, faults, given, torn, raced

P == INSTANCE Provision WITH purge <- dropping

addresses == <<owner, dropping, listed, flag, req, faults, given, torn, raced>>

ProvisionInit == Init /\ P!Init
ProvisionNext == P!Next /\ UNCHANGED vars
ProvisionSpec == ProvisionInit /\ [][ProvisionNext]_<<vars, addresses>>

-----------------------------------------------------------------------------
(* What is to hold of provisioning *)

\* The two objects of an address agree, whatever the order of the requests on
\* it: an organization lists only what it owns, and what it owns it lists,
\* once the request that claimed it has, unless a fault tore the two apart or
\* the address was listed while it was being deleted (claim, addMailbox,
\* removeMailbox, #purgeStep).
ListedIffOwned == P!ListedIffOwned

\* First-mailbox setup gives an organization one address, however many of
\* its members load a page at once, and however often setup failed half-way
\* (claimAutoProvision, autoProvisionFirstMailbox).
OneFirstMailbox == P!OneFirstMailbox
=============================================================================
