------------------------------ MODULE Arrivals ------------------------------
(***************************************************************************)
(* The two ways mail comes into a mailbox: Gmail's, that an import brings  *)
(* in (this module extends Import), and what is sent to it (Ingest). They  *)
(* share no state. IngestSpec is of a mailbox whose Gmail is not imported, *)
(* Spec of one that mail is not sent to.                                   *)
(***************************************************************************)
EXTENDS Import

CONSTANTS Mails, Runs, NoMail, Parent, NoThread, User, Wiper, MaxSlips, MaxWipes  \* Ingest

\* What stands for no mail and for no thread is none; the owner who deletes a
\* message is not the alarm that deletes the mailbox; a reply has one parent.
ASSUME ArrivalsAssumption ==
    /\ NoMail \notin Mails /\ NoThread \notin Runs /\ User # Wiper
    /\ Parent \in [Mails -> Mails \cup {NoMail}]
    /\ MaxSlips \in Nat /\ MaxWipes \in Nat

VARIABLES
    pc, mail, thread, blobs, copies, listed, msgids, owned, purging, purges,
    accepted, slips, wipes, dropped, leaked, overlapped, joined

D == INSTANCE Ingest WITH faults <- slips, MaxFaults <- MaxSlips

ingest == <<pc, mail, thread, blobs, copies, listed, msgids, owned, purging, purges,
            accepted, slips, wipes, dropped, leaked, overlapped, joined>>

IngestInit == Init /\ D!Init
IngestNext == D!Next /\ UNCHANGED vars
IngestSpec == IngestInit /\ [][IngestNext]_<<vars, ingest>>

-----------------------------------------------------------------------------
(* What is to hold of ingest *)


\* A listed message has its body and its files, unless a purge is at work on it
\* or was cut off. The thread is written before the index so that a crash
\* never lists a message whose body is not there (ingest, purgeMessage).
ListedHasBody == D!ListedHasBody

\* A mail is listed twice only by runs that were in flight at the same time:
\* once a row is there, a redelivery is recognised (ingest, hasMessage).
TwiceOnlyByOverlap == D!TwiceOnlyByOverlap

\* A mail whose sender was told it was taken is listed, or the owner deleted it
\* (ingest, the email handler).
AcceptedKept == D!AcceptedKept

\* Replies that found their parent all stay in one thread, also when the parent
\* was delivered twice or has been purged since (resolveThread, index).
RepliesStayTogether == D!RepliesStayTogether
=============================================================================
