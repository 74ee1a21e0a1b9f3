------------------------------- MODULE Lists -------------------------------
(***************************************************************************)
(* The lists of mail and the search, page after page, while mail arrives,  *)
(* is starred, archived, thrown away, restored and purged (mailbox-do.ts:  *)
(* list, searchText and the flag setters; web/src/lib/mail-data.ts and     *)
(* accounts.ts: the pages; index.ts: the actions on one message).          *)
(*                                                                         *)
(* A reader follows the links of a list over several accounts, each its    *)
(* own MailboxDO with its own sequence numbers, or of a search in one.     *)
(* Every page asks each account in a call of its own. A list over one      *)
(* account is the page of that mailbox, which keeps a position likewise.   *)
(*                                                                         *)
(* Left out: the filters by folder, label and unread, which narrow a view  *)
(* as the bin does; sent mail, which is one more bin; how a row is drawn.  *)
(***************************************************************************)
EXTENDS Integers, FiniteSets, FiniteSetsExt

CONSTANTS
    Accounts,   \* 1..n, in the order the pages ask them
    Msgs,       \* messages, each arriving once, in some account
    Matching,   \* those that match what is searched for
    Times,      \* their dates
    Views,      \* the bins a list is asked for
    PageSize,   \* INBOX_PAGE_SIZE
    Window,     \* SEARCH_WINDOW
    Limit,      \* how many results a call of searchText returns at most
    MaxScan,    \* how many numbers it inspects at most
    MaxFlips    \* bounds what others do to messages and accounts

ASSUME ListsAssumption ==
    /\ Cardinality(Accounts) \in Nat \ {0} /\ Accounts = 1..Cardinality(Accounts)
    /\ IsFiniteSet(Msgs) /\ Matching \subseteq Msgs
    /\ IsFiniteSet(Times) /\ Times # {} /\ Times \subseteq Nat \ {0}
    /\ Views \subseteq {"messages", "archive", "trash"}
    /\ {PageSize, Window, Limit, MaxScan} \subseteq Nat \ {0} /\ MaxFlips \in Nat

VARIABLES
    slot,      \* account, received_at and seq of each message, for good
    stored, starred, archived, trashed,  \* the rows, and their columns
    bodies,    \* the messages whose body is in its thread
    counter,   \* seq_counter of each account
    shown,     \* accounts that are not hidden
    purge,     \* a request to delete a message for good
    reader,    \* the page being put together, and the position of the link
    page,      \* history: the page each message was shown on, 0 if on none
    twice,     \* history: messages shown a second time
    steady,    \* history: in view, and left alone, since the first page began
    crowded,   \* history: starred messages that did not fit on the first page
    restored,  \* history: restored while a purge had passed its check
    flips      \* bound

mail == <<slot, stored, starred, archived, trashed, bodies, counter>>
history == <<page, twice, steady, crowded>>
vars == <<mail, shown, purge, reader, history, restored, flips>>

Nowhere == [acct |-> 0, at |-> 0, seq |-> 0]
Top == <<Max(Times) + 1, 0>>
Over == <<0, 0>>                                    \* "done"
NoPurge == [pc |-> "idle", msgs |-> {}]
NoReader ==
    [pc |-> "idle", view |-> "none", first |-> FALSE, page |-> 0, taking |-> {},
     todo |-> {}, cursor |-> [a \in Accounts |-> Top], pinned |-> {},
     rest |-> [a \in Accounts |-> {}], seek |-> 0]

\* Every variable has its type; no two messages of an account have one number.
TypeOK ==
    /\ slot \in [Msgs -> [acct : Accounts \cup {0}, at : Times \cup {0}, seq : Nat]]
    /\ stored \cup bodies \subseteq {m \in Msgs : slot[m] # Nowhere}
    /\ starred \cup archived \cup trashed \subseteq stored
    /\ counter \in [Accounts -> Nat] /\ shown \subseteq Accounts
    /\ \A m, n \in Msgs : m # n /\ slot[m] # Nowhere =>
           <<slot[m].acct, slot[m].seq>> # <<slot[n].acct, slot[n].seq>>
    /\ purge \in [pc : {"idle", "remove", "unindex"}, msgs : SUBSET Msgs]
    /\ reader \in [pc : {"idle", "asking", "page", "seeking", "over"},
                   view : Views \cup {"none", "search"}, first : BOOLEAN, page : Nat,
                   taking : SUBSET Accounts, todo : SUBSET (Accounts \X {"rest", "starred"}),
                   cursor : [Accounts -> Nat \X Nat], pinned : SUBSET Msgs,
                   rest : [Accounts -> SUBSET Msgs], seek : Nat]
    /\ page \in [Msgs -> Nat] /\ restored \subseteq Msgs
    /\ twice \subseteq Msgs /\ steady \subseteq Msgs /\ crowded \subseteq Msgs
    /\ flips \in 0..MaxFlips

Init ==
    /\ slot = [m \in Msgs |-> Nowhere] /\ bodies = {}
    /\ stored = {} /\ starred = {} /\ archived = {} /\ trashed = {}
    /\ counter = [a \in Accounts |-> 0] /\ shown = Accounts
    /\ purge = NoPurge /\ reader = NoReader
    /\ page = [m \in Msgs |-> 0] /\ twice = {} /\ steady = {} /\ crowded = {}
    /\ restored = {} /\ flips = 0

-----------------------------------------------------------------------------
(* What others do meanwhile *)

\* index: the next number of its account, at any date (an import's is old).
Arrive(m, a, t) ==
    /\ slot[m] = Nowhere
    /\ slot' = [slot EXCEPT ![m] = [acct |-> a, at |-> t, seq |-> counter[a] + 1]]
    /\ counter' = [counter EXCEPT ![a] = @ + 1]
    /\ stored' = stored \cup {m} /\ bodies' = bodies \cup {m}
    /\ UNCHANGED <<starred, archived, trashed, shown, purge, reader, history,
                   restored, flips>>

\* A change of one row: the reader can no longer count on it.
Flip(m) ==
    /\ m \in stored /\ flips < MaxFlips
    /\ flips' = flips + 1 /\ steady' = steady \ {m}
    /\ UNCHANGED <<slot, stored, bodies, counter, shown, purge, reader, page,
                   twice, crowded>>

SetStarred(m) ==
    /\ starred' = IF m \in starred THEN starred \ {m} ELSE starred \cup {m}
    /\ Flip(m) /\ UNCHANGED <<archived, trashed, restored>>

SetArchived(m) ==
    /\ archived' = IF m \in archived THEN archived \ {m} ELSE archived \cup {m}
    /\ Flip(m) /\ UNCHANGED <<starred, trashed, restored>>

Trash(m) ==
    /\ m \notin trashed /\ trashed' = trashed \cup {m}
    /\ Flip(m) /\ UNCHANGED <<starred, archived, restored>>

Restore(m) ==
    /\ m \in trashed /\ trashed' = trashed \ {m}
    /\ restored' = restored \cup (purge.msgs \cap {m})
    /\ Flip(m) /\ UNCHANGED <<starred, archived>>

\* Purges what is not in the Trash as well.
BugPurgeable(m) == m \in stored

\* The purge action's look-up, and its refusal of live mail.
Purgeable(m) == m \in trashed

PurgeBegins(m) ==
    /\ purge = NoPurge /\ flips < MaxFlips /\ flips' = flips + 1
    /\ m \in stored /\ Purgeable(m)
    /\ purge' = [pc |-> "remove", msgs |-> {m}]
    /\ UNCHANGED <<mail, shown, reader, history, restored>>

\* ThreadDO.remove, and the deletion of its keys.
PurgeRemoves ==
    /\ purge.pc = "remove"
    /\ bodies' = bodies \ purge.msgs /\ purge' = [purge EXCEPT !.pc = "unindex"]
    /\ UNCHANGED <<slot, stored, starred, archived, trashed, counter, shown,
                   reader, history, restored, flips>>

Unindex ==
    /\ purge.pc = "unindex" /\ purge' = NoPurge
    /\ stored' = stored \ purge.msgs /\ starred' = starred \ purge.msgs
    /\ archived' = archived \ purge.msgs /\ trashed' = trashed \ purge.msgs
    /\ steady' = steady \ purge.msgs
    /\ UNCHANGED <<slot, bodies, counter, shown, reader, page, twice, crowded,
                   restored, flips>>

\* An account is hidden from the combined views, or shown again.
SetShown(a) ==
    /\ flips < MaxFlips /\ flips' = flips + 1
    /\ shown' = IF a \in shown THEN shown \ {a} ELSE shown \cup {a}
    /\ steady' = {m \in steady : slot[m].acct # a}
    /\ UNCHANGED <<mail, purge, reader, page, twice, crowded, restored>>

-----------------------------------------------------------------------------
(* MailboxDO.list *)

InView(m, v) ==
    CASE v = "trash"    -> m \in trashed
      [] v = "archive"  -> m \in archived \ trashed
      [] v = "messages" -> m \in stored \ (archived \cup trashed)

Position(m) == <<slot[m].at, slot[m].seq>>
Older(p, q) == p[1] < q[1] \/ (p[1] = q[1] /\ p[2] < q[2])

\* ORDER BY received_at DESC, seq DESC; accounts in their order when they tie.
Before(m, n) ==
    \/ Older(Position(n), Position(m))
    \/ Position(m) = Position(n) /\ slot[m].acct < slot[n].acct
Newest(S, k) == {m \in S : Cardinality({n \in S : Before(n, m)}) < k}

\* The page cursor: the (received_at, seq) of the last row shown.
After(m, cursor) == Older(Position(m), cursor)

Candidates(a, star) ==
    {m \in stored : slot[m].acct = a /\ InView(m, reader.view)
        /\ (star = "starred" => m \in starred)
        /\ (star = "rest" /\ reader.first => m \notin starred)}

-----------------------------------------------------------------------------
(* A list, page by page (loadInbox, loadCombinedList) *)

\* What a page asks each account for: on the first, the starred ones too.
Asks(taking, n, first, cursor) ==
    {<<a, "rest">> : a \in {b \in taking : cursor[b] # Over}}
    \cup IF first /\ n = 1 THEN taking \X {"starred"} ELSE {}

Open(v, first) ==
    /\ reader = NoReader
    /\ reader' = [NoReader EXCEPT !.pc = "asking", !.view = v, !.first = first, !.page = 1,
                    !.taking = shown, !.todo = Asks(shown, 1, first, NoReader.cursor)]
    /\ steady' = {m \in stored : InView(m, v) /\ slot[m].acct \in shown}
    /\ UNCHANGED <<mail, shown, purge, page, twice, crowded, restored, flips>>

\* One call of list: a page of starred rows, or one row more than a page.
Ask(a) ==
    /\ reader.pc = "asking"
    /\ \/ /\ <<a, "starred">> \in reader.todo
          /\ LET all == Candidates(a, "starred") IN
             /\ reader' = [reader EXCEPT !.todo = @ \ {<<a, "starred">>},
                                         !.pinned = @ \cup Newest(all, PageSize)]
             /\ crowded' = crowded \cup (all \ Newest(all, PageSize))
       \/ /\ <<a, "rest">> \in reader.todo
          /\ LET all == {m \in Candidates(a, "rest") : After(m, reader.cursor[a])} IN
             reader' = [reader EXCEPT !.todo = @ \ {<<a, "rest">>},
                                      !.rest[a] = Newest(all, PageSize + 1)]
          /\ UNCHANGED crowded
    /\ UNCHANGED <<mail, shown, purge, page, twice, steady, restored, flips>>

\* Takes each account's first rows in turn and does not sort them together.
BugPart ==
    LET some == {a \in reader.taking : reader.rest[a] # {}}
    IN  UNION {Newest(reader.rest[a], PageSize) : a \in {b \in some : \A c \in some : b <= c}}

\* The rows that come next, of all accounts together.
Part == Newest(UNION {reader.rest[a] : a \in reader.taking}, PageSize)

\* An account that contributed nothing is taken to have nothing more.
BugNextCursor(a) ==
    LET mine == Part \cap reader.rest[a]
    IN  IF reader.cursor[a] = Over \/ mine = {} THEN Over
        ELSE Position(CHOOSE m \in mine : \A n \in mine : ~Before(m, n))

\* Where the next page goes on in an account: "done" when all it had was shown
\* and fitted, else after its last row shown, else where it was.
NextCursor(a) ==
    LET mine == Part \cap reader.rest[a]
    IN  IF \/ reader.cursor[a] = Over
           \/ mine = reader.rest[a] /\ Cardinality(mine) <= PageSize
        THEN Over
        ELSE IF mine = {} THEN reader.cursor[a]
        ELSE Position(CHOOSE m \in mine : \A n \in mine : ~Before(m, n))

Show(S, n) ==
    /\ page' = [m \in Msgs |-> IF m \in S THEN n ELSE page[m]]
    /\ twice' = twice \cup {m \in S : page[m] # 0}

\* All have answered: the page is drawn, with a link to the next one if any.
\* An account that does not take part leaves the link.
Draw ==
    /\ reader.pc = "asking" /\ reader.todo = {}
    /\ LET next == [a \in Accounts |-> IF a \in reader.taking THEN NextCursor(a) ELSE Top]
           more == \E a \in reader.taking : next[a] # Over
       IN reader' = [reader EXCEPT !.pc = IF more THEN "page" ELSE "over",
                         !.cursor = next, !.pinned = {}, !.rest = NoReader.rest]
    /\ Show(Part \cup reader.pinned, reader.page)
    /\ UNCHANGED <<mail, shown, purge, steady, crowded, restored, flips>>

Follow ==
    /\ reader.pc = "page"
    /\ LET n == reader.page + 1
       IN reader' = [reader EXCEPT !.pc = "asking", !.page = n, !.taking = shown,
                         !.todo = Asks(shown, n, reader.first, reader.cursor)]
    /\ UNCHANGED <<mail, shown, purge, history, restored, flips>>

-----------------------------------------------------------------------------
(* A search, call by call (searchText, LoadMore) *)

Hits(a, lo, hi) ==
    {m \in (stored \cap Matching) \ trashed :
        slot[m].acct = a /\ slot[m].seq \in lo..(hi - 1)}
Last(S, k) == {m \in S : Cardinality({n \in S : slot[n].seq > slot[m].seq}) < k}

\* Where the slices of the numbers below the cursor end.
Floors(cursor) == {f \in 0..(cursor - 1) : f = 0 \/ (cursor - f) % Window = 0}

\* The loop goes from slice to slice until the page is full, the budget spent, or
\* none are left. The call goes on strictly below the last row returned.
Walk(a, cursor) ==
    LET enough(f) == \/ Cardinality(Hits(a, f, cursor)) >= Limit
                     \/ cursor - f >= MaxScan \/ f = 0
        floor == Max({f \in Floors(cursor) : enough(f)})
        found == Last(Hits(a, floor, cursor), Limit)
    IN  [found |-> found,
         cursor |-> IF Cardinality(found) >= Limit THEN Min({slot[m].seq : m \in found}) ELSE floor]

Search ==
    /\ reader = NoReader
    /\ reader' = [NoReader EXCEPT !.pc = "seeking", !.view = "search", !.taking = {1},
                                  !.seek = counter[1] + 1]
    /\ steady' = Hits(1, 0, counter[1] + 1)
    /\ UNCHANGED <<mail, shown, purge, page, twice, crowded, restored, flips>>

SearchOn ==
    /\ reader.pc = "seeking"
    /\ LET w == Walk(1, reader.seek) IN
       /\ reader' = [reader EXCEPT !.pc = IF w.cursor = 0 THEN "over" ELSE "seeking",
                         !.seek = w.cursor, !.page = @ + 1]
       /\ Show(w.found, reader.page + 1)
    /\ UNCHANGED <<mail, shown, purge, steady, crowded, restored, flips>>

-----------------------------------------------------------------------------

Next ==
    \/ \E m \in Msgs, a \in Accounts, t \in Times : Arrive(m, a, t)
    \/ \E m \in Msgs : SetStarred(m) \/ SetArchived(m) \/ Trash(m) \/ Restore(m)
    \/ \E m \in Msgs : PurgeBegins(m)
    \/ PurgeRemoves \/ Unindex
    \/ \E a \in Accounts : SetShown(a) \/ Ask(a)
    \/ \E v \in Views, first \in BOOLEAN : Open(v, first)
    \/ Draw \/ Follow \/ Search \/ SearchOn

Spec == Init /\ [][Next]_vars

-----------------------------------------------------------------------------
(* Correctness *)

\* "So paging never skips or repeats a message" (loadCombinedList): whoever
\* follows the links to the end has seen what stayed in view once, unless it is
\* a starred message that the page of starred ones had no room for. The same
\* of a search, which goes on strictly below the last row returned.
ShownOnce ==
    \A m \in steady \ crowded :
        m \notin twice /\ (reader.pc = "over" => page[m] # 0)

\* Newest first across pages and accounts: what comes on a later page is not
\* newer than what came on an earlier one, but for those pinned to the first.
NewestFirst ==
    \A m, n \in steady :
        /\ reader.view # "search" /\ ~(reader.first /\ m \in starred)
        /\ page[m] # 0 /\ page[m] < page[n]
        => Before(m, n)

\* A message that is not in the Trash has its body, unless it was restored when
\* a purge had already looked (index.ts, the purge action).
LiveHasBody == stored \ (trashed \cup restored) \subseteq bodies
=============================================================================
