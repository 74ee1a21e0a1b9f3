---------------------------- MODULE ListsProofs ----------------------------
(***************************************************************************)
(* Proofs about what a person sees (Overview): the lists of a mailbox, and *)
(* the addresses an organization lists. Of Lists, for any accounts,        *)
(* messages, page size and bounds: its types, and that a list that is      *)
(* paged through shows a message once, newest first, and only with its     *)
(* body there. Of Provision (its names begin with P!), for any             *)
(* organizations, addresses and requests, and any number of faults: the    *)
(* invariants TLC checks with two of each.                                 *)
(***************************************************************************)
EXTENDS Overview, FiniteSetTheorems, WellFoundedInduction, TLAPS

-----------------------------------------------------------------------------
(* Lists: the inductive invariant *)

\* The messages that were placed in a mailbox, and those pinned to the first page.
Placed(m) == slot[m] # Nowhere
Pinned(m) == reader.first /\ m \in starred
Listing == reader.view \in Views

\* A placed message has a number its account has given out.
PlaceOK ==
    \A m \in Msgs : Placed(m) => /\ slot[m].acct \in Accounts /\ slot[m].at \in Times
                                 /\ slot[m].seq \in 1..counter[slot[m].acct]

\* A list has the views of lists, a search its own; only accounts that take
\* part are asked.
ModeOK ==
    /\ reader.view = "none" => reader.pc = "idle"
    /\ reader.pc \in {"asking", "page"} => reader.view \in Views
    /\ reader.pc = "seeking" => reader.view = "search" /\ reader.seek # 0
    /\ reader.todo \subseteq reader.taking \X {"rest", "starred"}
    /\ reader.pc \in {"asking", "page"} => reader.page # 0
    /\ reader.pc # "asking" => reader.todo = {}
    /\ \A a \in Accounts : <<a, "starred">> \in reader.todo => reader.first /\ reader.page = 1

\* Before the first page, nothing has been shown.
FreshOK ==
    reader.pc = "idle" =>
        /\ reader = NoReader /\ steady = {} /\ crowded = {} /\ twice = {}
        /\ page = [m \in Msgs |-> 0]

\* What stays in view belongs to an account that takes part.
SteadyOK ==
    \A m \in steady :
        /\ m \in stored
        /\ Listing => InView(m, reader.view) /\ slot[m].acct \in shown \cap reader.taking
        /\ reader.view = "search" => m \in Matching \ trashed /\ slot[m].acct = 1

Comes(n, a) == Placed(n) /\ slot[n].acct = a /\ After(n, reader.cursor[a])

\* What the accounts have answered comes after their cursors.
RestOK ==
    /\ \A a \in Accounts : \A n \in reader.rest[a] : Comes(n, a)
    /\ \A a \in Accounts : reader.pc # "asking" \/ <<a, "rest">> \in reader.todo => reader.rest[a] = {}

\* An answer leaves out only what comes after all of it, when it is full.
AnswerOK ==
    reader.pc = "asking" =>
    \A m \in steady : LET a == slot[m].acct IN
        ~Pinned(m) /\ After(m, reader.cursor[a]) =>
            \/ <<a, "rest">> \in reader.todo
            \/ m \in reader.rest[a]
            \/ Cardinality(reader.rest[a]) > PageSize /\ \A n \in reader.rest[a] : Before(n, m)

FirstPage == reader.pc = "asking" /\ reader.page = 1

\* A pinned message is on the first page, if it has room.
PinnedOK ==
    /\ ~FirstPage => reader.pinned = {}
    /\ Listing => \A m \in steady :
         /\ ~Pinned(m) => m \notin reader.pinned
         /\ Pinned(m) =>
              /\ m \notin twice
              /\ \A a \in Accounts : m \notin reader.rest[a]
              /\ FirstPage => /\ page[m] = 0
                              /\ \/ <<slot[m].acct, "starred">> \in reader.todo
                                 \/ m \in reader.pinned \cup crowded
              /\ ~FirstPage => page[m] = 1 \/ (page[m] = 0 /\ m \in crowded)

\* The others have been shown down to the cursor of their account, once.
CursorOK ==
    Listing => \A m \in steady : ~Pinned(m) =>
        m \notin twice /\ (page[m] # 0 <=> ~After(m, reader.cursor[slot[m].acct]))

OverOK == reader.pc = "over" /\ Listing => \A a \in reader.taking : reader.cursor[a] = Over

\* In their order.
OrderOK ==
    /\ \A m \in Msgs : page[m] <= reader.page /\ (reader.pc = "asking" => page[m] < reader.page)
    /\ Listing => \A m, n \in steady :
         ~Pinned(m) /\ ~Pinned(n) /\ page[m] # 0 /\ (page[n] = 0 \/ page[m] < page[n]) => Before(m, n)

\* A search has shown what is not below its position, once.
SearchOK ==
    reader.view = "search" =>
        /\ reader.pc = "over" => reader.seek = 0
        /\ \A m \in steady : m \notin twice /\ (page[m] # 0 <=> slot[m].seq >= reader.seek)

\* A message that a purge has got to is in the Trash, or was restored under it.
BodyOK ==
    /\ purge.msgs \subseteq trashed \cup restored
    /\ stored \ bodies \subseteq IF purge.pc = "unindex" THEN purge.msgs ELSE {}

ListOK == /\ ModeOK /\ FreshOK /\ SteadyOK /\ RestOK /\ AnswerOK /\ PinnedOK /\ CursorOK /\ OverOK
          /\ OrderOK /\ SearchOK
IInv == TypeOK /\ PlaceOK /\ ListOK /\ BodyOK

-----------------------------------------------------------------------------
(* The least and the greatest, and the first ones of an order *)

LEMMA Least ==
    ASSUME NEW S, S \subseteq Nat, S # {} PROVE Min(S) \in S /\ \A k \in S : Min(S) <= k
<1> DEFINE below(n) == 0..n
           T == {below(n) : n \in S}
           R == StrictSubsetOrdering(Nat)
<1>1. T \subseteq FiniteSubsetsOf(Nat) /\ T # {}
  <2>1. \A n \in S : below(n) \subseteq Nat /\ IsFiniteSet(below(n))
    BY FS_Interval
  <2> QED
    BY <2>1 DEF FiniteSubsetsOf
<1>2. IsWellFoundedOn(R, FiniteSubsetsOf(Nat))
  BY FS_StrictSubsetOrderingWellFounded
<1>3. PICK t \in T : \A u \in T : ~ (<<u, t>> \in R)
  <2> HIDE DEF T, R
  <2> QED
    BY <1>1, <1>2, WFMin
<1>4. PICK n \in S : t = below(n)
  OBVIOUS
<1>5. \A k \in S : n <= k
  <2> SUFFICES ASSUME NEW k \in S, k < n PROVE FALSE
    OBVIOUS
  <2>1. below(k) \subseteq below(n) /\ below(k) # below(n)
    OBVIOUS
  <2>2. <<below(k), below(n)>> \in R
    BY <2>1 DEF StrictSubsetOrdering
  <2> QED
    BY <1>3, <1>4, <2>2
<1> QED
  BY <1>5 DEF Min

\* R puts the members of S in a strict order, the first ones to the left.
Ordered(S, R) ==
    /\ \A x \in S : <<x, x>> \notin R
    /\ \A x, y \in S : x # y => <<x, y>> \in R \/ <<y, x>> \in R
    /\ \A x, y, z \in S : <<x, y>> \in R /\ <<y, z>> \in R => <<x, z>> \in R

Ahead(S, R, m) == {n \in S : <<n, m>> \in R}
First(S, R, k) == {m \in S : Cardinality(Ahead(S, R, m)) < k}

LEMMA FirstOne ==
    ASSUME NEW S, IsFiniteSet(S), S # {}, NEW R, Ordered(S, R)
    PROVE  \E x \in S : \A y \in S : y = x \/ <<x, y>> \in R
<1> DEFINE T == {Cardinality(Ahead(S, R, x)) : x \in S}
<1>1. \A x \in S : IsFiniteSet(Ahead(S, R, x)) /\ Cardinality(Ahead(S, R, x)) \in Nat
  BY FS_Subset, FS_CardinalityType DEF Ahead
<1>2. T \subseteq Nat /\ T # {}
  BY <1>1
<1>3. Min(T) \in T /\ \A k \in T : Min(T) <= k
  <2> HIDE DEF T
  <2> QED
    BY <1>2, Least
<1>4. PICK x \in S : Min(T) = Cardinality(Ahead(S, R, x))
  BY <1>3
<1>5. ASSUME NEW y \in S, y # x, <<x, y>> \notin R PROVE FALSE
  <2>1. <<y, x>> \in R
    BY <1>5 DEF Ordered
  <2>2. Ahead(S, R, y) \subseteq Ahead(S, R, x) /\ y \in Ahead(S, R, x) /\ y \notin Ahead(S, R, y)
    BY <2>1 DEF Ahead, Ordered
  <2>3. Cardinality(Ahead(S, R, y)) <= Cardinality(Ahead(S, R, x))
        /\ Cardinality(Ahead(S, R, y)) # Cardinality(Ahead(S, R, x))
    BY <1>1, <2>2, FS_Subset
  <2>4. Cardinality(Ahead(S, R, x)) <= Cardinality(Ahead(S, R, y))
    BY <1>3, <1>4
  <2> QED
    BY <1>1, <2>3, <2>4
<1> QED
  BY <1>5

LEMMA LastOne ==
    ASSUME NEW S, IsFiniteSet(S), S # {}, NEW R, Ordered(S, R)
    PROVE  \E x \in S : \A y \in S : y = x \/ <<y, x>> \in R
<1> DEFINE Q == {<<p[2], p[1]>> : p \in R \cap (S \X S)}
<1>1. \A x, y \in S : <<x, y>> \in Q <=> <<y, x>> \in R
  OBVIOUS
<1>2. Ordered(S, Q)
  BY <1>1 DEF Ordered
<1> HIDE DEF Q
<1>3. PICK x \in S : \A y \in S : y = x \/ <<x, y>> \in Q
  BY <1>2, FirstOne
<1> QED
  BY <1>1, <1>3

\* The first k of a set: nothing else is before them; there are k of them,
\* unless they are all there is.
LEMMA FirstOnes ==
    ASSUME NEW S, IsFiniteSet(S), NEW R, Ordered(S, R), NEW k \in Nat
    PROVE  /\ First(S, R, k) \subseteq S
           /\ \A m \in First(S, R, k), n \in S \ First(S, R, k) : <<m, n>> \in R
           /\ Cardinality(First(S, R, k)) \in Nat /\ Cardinality(First(S, R, k)) <= k
           /\ First(S, R, k) # S => Cardinality(First(S, R, k)) >= k
<1> DEFINE F == First(S, R, k)
<1>0. \A m \in S : IsFiniteSet(Ahead(S, R, m)) /\ Cardinality(Ahead(S, R, m)) \in Nat
  BY FS_Subset, FS_CardinalityType DEF Ahead
<1>1. F \subseteq S /\ IsFiniteSet(F) /\ Cardinality(F) \in Nat
  BY FS_Subset, FS_CardinalityType DEF First
<1>2. ASSUME NEW m \in F, NEW n \in S \ F PROVE <<m, n>> \in R
  <2> SUFFICES ASSUME <<m, n>> \notin R PROVE FALSE
    OBVIOUS
  <2>1. <<n, m>> \in R /\ m \in S /\ n \in S
    BY <1>1, <1>2 DEF Ordered
  <2>2. Ahead(S, R, n) \subseteq Ahead(S, R, m)
    BY <2>1 DEF Ahead, Ordered
  <2>3. Cardinality(Ahead(S, R, n)) <= Cardinality(Ahead(S, R, m))
    BY <1>0, <2>1, <2>2, FS_Subset
  <2> QED
    BY <1>0, <1>2, <2>1, <2>3 DEF First
<1>3. Cardinality(F) <= k
  <2>1. CASE F = {}
    BY <2>1, FS_EmptySet
  <2>2. CASE F # {}
    <3>1. Ordered(F, R)
      BY <1>1 DEF Ordered
    <3>2. PICK x \in F : \A y \in F : y = x \/ <<y, x>> \in R
      <4> HIDE DEF F
      <4> QED
        BY <1>1, <2>2, <3>1, LastOne
    <3>3. F \ {x} \subseteq Ahead(S, R, x) /\ x \in S
      BY <1>1, <3>2 DEF Ahead
    <3>4. Cardinality(F \ {x}) <= Cardinality(Ahead(S, R, x)) /\ Cardinality(F \ {x}) = Cardinality(F) - 1
      BY <1>0, <1>1, <3>3, FS_Subset, FS_RemoveElement
    <3>5. Cardinality(Ahead(S, R, x)) < k
      BY <3>2 DEF First
    <3> QED
      BY <1>0, <1>1, <3>3, <3>4, <3>5
  <2> QED
    BY <2>1, <2>2
<1>4. ASSUME F # S PROVE Cardinality(F) >= k
  <2> DEFINE G == S \ F
  <2>1. G # {} /\ IsFiniteSet(G) /\ Ordered(G, R)
    BY <1>1, <1>4, FS_Subset DEF Ordered
  <2>2. PICK x \in G : \A y \in G : y = x \/ <<x, y>> \in R
    <3> HIDE DEF G
    <3> QED
      BY <2>1, FirstOne
  <2>3. Ahead(S, R, x) \subseteq F
    <3> SUFFICES ASSUME NEW y \in Ahead(S, R, x), y \notin F PROVE FALSE
      OBVIOUS
    <3>1. y \in G /\ <<y, x>> \in R /\ x \in S /\ y \in S
      BY DEF Ahead
    <3> QED
      BY <2>2, <3>1 DEF Ordered
  <2>4. ~(Cardinality(Ahead(S, R, x)) < k)
    BY <2>2 DEF First
  <2>5. Cardinality(Ahead(S, R, x)) <= Cardinality(F)
    BY <1>1, <2>3, FS_Subset
  <2> QED
    BY <1>0, <1>1, <2>2, <2>4, <2>5
<1> QED
  BY <1>1, <1>2, <1>3, <1>4

-----------------------------------------------------------------------------
(* Types *)

Reader == [pc : {"idle", "asking", "page", "seeking", "over"},
           view : Views \cup {"none", "search"}, first : BOOLEAN, page : Nat,
           taking : SUBSET Accounts, todo : SUBSET (Accounts \X {"rest", "starred"}),
           cursor : [Accounts -> Nat \X Nat], pinned : SUBSET Msgs,
           rest : [Accounts -> SUBSET Msgs], seek : Nat]

LEMMA Sizes ==
    /\ PageSize \in Nat \ {0} /\ Window \in Nat \ {0} /\ Limit \in Nat \ {0} /\ MaxScan \in Nat \ {0}
    /\ MaxFlips \in Nat /\ IsFiniteSet(Msgs) /\ Matching \subseteq Msgs /\ 1 \in Accounts
    /\ Accounts \subseteq Nat \ {0} /\ Times \subseteq Nat \ {0} /\ IsFiniteSet(Times) /\ Times # {}
    /\ Views \subseteq {"messages", "archive", "trash"}
<1>1. Cardinality(Accounts) \in Nat \ {0} /\ Accounts = 1..Cardinality(Accounts)
  BY ListsAssumption
<1>2. Accounts \subseteq Nat \ {0} /\ 1 \in Accounts
  BY <1>1
<1> QED
  BY <1>2, ListsAssumption

LEMMA Greatest ==
    ASSUME NEW S, S \subseteq Nat, IsFiniteSet(S), S # {} PROVE Max(S) \in S /\ \A t \in S : t <= Max(S)
<1> DEFINE R == {p \in S \X S : p[1] < p[2]}
<1>1. \A x, y \in S : <<x, y>> \in R <=> x < y
  OBVIOUS
<1>2. Ordered(S, R)
  <2> HIDE DEF R
  <2>1. \A x \in S : <<x, x>> \notin R
    BY <1>1
  <2>2. \A x, y \in S : x # y => <<x, y>> \in R \/ <<y, x>> \in R
    BY <1>1
  <2>3. \A x, y, z \in S : <<x, y>> \in R /\ <<y, z>> \in R => <<x, z>> \in R
    BY <1>1
  <2> QED
    BY <2>1, <2>2, <2>3 DEF Ordered
<1> HIDE DEF R
<1>3. PICK x \in S : \A y \in S : y = x \/ <<y, x>> \in R
  BY <1>2, LastOne
<1>4. \A y \in S : x >= y
  <2> SUFFICES ASSUME NEW y \in S PROVE x >= y
    OBVIOUS
  <2>1. y = x \/ y < x
    BY <1>1, <1>3
  <2> QED
    BY <2>1
<1> QED
  BY <1>4 DEF Max

LEMMA Latest == Max(Times) \in Nat /\ \A t \in Times : t <= Max(Times)
<1>1. Times \subseteq Nat /\ Times # {} /\ IsFiniteSet(Times)
  BY Sizes
<1> QED
  BY <1>1, Greatest

LEMMA Has == ASSUME TypeOK
    PROVE  /\ slot \in [Msgs -> [acct : Accounts \cup {0}, at : Times \cup {0}, seq : Nat]]
           /\ reader \in Reader /\ page \in [Msgs -> Nat] /\ counter \in [Accounts -> Nat]
           /\ stored \subseteq Msgs /\ bodies \subseteq Msgs /\ shown \subseteq Accounts
           /\ \A m \in stored : Placed(m)
           /\ starred \subseteq stored /\ archived \subseteq stored /\ trashed \subseteq stored
           /\ twice \subseteq Msgs /\ steady \subseteq Msgs /\ crowded \subseteq Msgs /\ restored \subseteq Msgs
           /\ purge.pc \in {"idle", "remove", "unindex"} /\ purge.msgs \subseteq Msgs
BY DEF TypeOK, Reader, Placed

LEMMA Start == NoReader \in Reader /\ Top \in Nat \X Nat /\ Over \in Nat \X Nat
<1>1. Top \in Nat \X Nat /\ Over \in Nat \X Nat
  BY Latest DEF Top, Over
<1> QED
  BY <1>1 DEF NoReader, Reader

\* A change of the reader only.
LEMMA ReaderTyped ==
    ASSUME TypeOK, reader' \in Reader, UNCHANGED <<mail, shown, purge, restored, flips>>,
           page' \in [Msgs -> Nat], twice' \subseteq Msgs, steady' \subseteq Msgs, crowded' \subseteq Msgs
    PROVE  TypeOK'
BY DEF TypeOK, Reader, mail

LEMMA Newer == ASSUME NEW S, NEW k PROVE Newest(S, k) \subseteq S
BY DEF Newest

LEMMA OpenTyped == ASSUME TypeOK, NEW v \in Views, NEW first \in BOOLEAN, Open(v, first) PROVE TypeOK'
<1> USE Has
<1> DEFINE todo == Asks(shown, 1, first, NoReader.cursor)
<1>1. todo \in SUBSET (Accounts \X {"rest", "starred"})
  BY DEF Asks
<1>2. reader' \in Reader
  BY <1>1, Start DEF Open, NoReader, Reader
<1>3. steady' \subseteq Msgs
  BY DEF Open
<1> QED
  BY <1>2, <1>3, ReaderTyped DEF Open

LEMMA AskTyped == ASSUME TypeOK, NEW a \in Accounts, Ask(a) PROVE TypeOK'
<1> USE Has
<1>1. reader' \in Reader /\ crowded' \subseteq Msgs
  <2>1. CASE /\ reader' = [reader EXCEPT !.todo = @ \ {<<a, "starred">>},
                                        !.pinned = @ \cup Newest(Candidates(a, "starred"), PageSize)]
             /\ crowded' = crowded \cup (Candidates(a, "starred") \ Newest(Candidates(a, "starred"), PageSize))
    <3>1. Candidates(a, "starred") \subseteq Msgs
      BY DEF Candidates
    <3>2. Newest(Candidates(a, "starred"), PageSize) \subseteq Msgs
      BY <3>1, Newer
    <3> QED
      BY <2>1, <3>1, <3>2 DEF Reader
  <2>2. CASE /\ reader' = [reader EXCEPT !.todo = @ \ {<<a, "rest">>},
                 !.rest[a] = Newest({m \in Candidates(a, "rest") : After(m, reader.cursor[a])}, PageSize + 1)]
             /\ UNCHANGED crowded
    <3> DEFINE got == Newest({m \in Candidates(a, "rest") : After(m, reader.cursor[a])}, PageSize + 1)
               rest == [reader.rest EXCEPT ![a] = got]
    <3>1. got \subseteq Msgs
      BY Newer DEF Candidates
    <3> HIDE DEF got
    <3>2. rest \in [Accounts -> SUBSET Msgs]
      BY <3>1 DEF Reader
    <3>3. reader' = [reader EXCEPT !.todo = @ \ {<<a, "rest">>}, !.rest = rest]
      BY <2>2 DEF Reader, got
    <3> HIDE DEF rest
    <3>4. reader \in Reader
      OBVIOUS
    <3>5. reader' \in Reader
      BY ONLY <3>2, <3>3, <3>4 DEF Reader
    <3> QED
      BY <2>2, <3>5
  <2> QED
    BY <2>1, <2>2 DEF Ask
<1> QED
  BY <1>1, ReaderTyped DEF Ask

-----------------------------------------------------------------------------
(* The order of the messages *)

LEMMA PlacedAt ==
    ASSUME TypeOK, PlaceOK, NEW m \in Msgs, Placed(m)
    PROVE  /\ slot[m].acct \in Accounts /\ slot[m].acct \in Nat /\ slot[m].at \in Times
           /\ slot[m].at \in Nat \ {0} /\ slot[m].seq \in Nat \ {0}
           /\ slot[m].seq <= counter[slot[m].acct] /\ Position(m) \in Nat \X Nat
<1>1. slot[m].acct \in Accounts /\ slot[m].at \in Times /\ slot[m].seq \in 1..counter[slot[m].acct]
  BY DEF PlaceOK
<1>2. counter[slot[m].acct] \in Nat
  BY <1>1, Has
<1>3. slot[m].seq \in Nat \ {0} /\ slot[m].seq <= counter[slot[m].acct]
  BY <1>1, <1>2
<1>4. slot[m].acct \in Nat /\ slot[m].at \in Nat \ {0}
  BY <1>1, Sizes
<1> QED
  BY <1>1, <1>3, <1>4 DEF Position

LEMMA Apart ==
    ASSUME TypeOK, NEW m \in Msgs, NEW n \in Msgs, m # n, Placed(m)
    PROVE  ~(slot[m].acct = slot[n].acct /\ slot[m].seq = slot[n].seq)
BY DEF TypeOK, Placed

Sooner(m, n) ==
    \/ slot[n].at < slot[m].at
    \/ slot[n].at = slot[m].at /\ slot[n].seq < slot[m].seq
    \/ slot[n].at = slot[m].at /\ slot[n].seq = slot[m].seq /\ slot[m].acct < slot[n].acct

LEMMA BeforeMeans ==
    ASSUME NEW m, NEW n PROVE Before(m, n) <=> Sooner(m, n)
BY DEF Before, Older, Position, Sooner

LEMMA AfterMeans ==
    ASSUME NEW m, NEW x, NEW y
    PROVE  After(m, <<x, y>>) <=> slot[m].at < x \/ (slot[m].at = x /\ slot[m].seq < y)
BY DEF After, Older, Position

AllPlaced(S) == S \subseteq Msgs /\ \A m \in S : Placed(m)

LEMMA InOrder ==
    ASSUME TypeOK, PlaceOK, NEW S, AllPlaced(S)
    PROVE  Ordered(S, {p \in S \X S : Before(p[1], p[2])})
<1> DEFINE R == {p \in S \X S : Before(p[1], p[2])}
<1>1. \A x, y \in S : <<x, y>> \in R <=> Sooner(x, y)
  BY BeforeMeans
<1>2. \A x \in S : slot[x].at \in Nat /\ slot[x].seq \in Nat /\ slot[x].acct \in Nat
  BY PlacedAt DEF AllPlaced
<1>3. \A x, y \in S : x # y => ~(slot[x].acct = slot[y].acct /\ slot[x].seq = slot[y].seq)
  BY Apart DEF AllPlaced
<1> HIDE DEF R
<1>4. \A x \in S : <<x, x>> \notin R
  BY <1>1, <1>2 DEF Sooner
<1>5. \A x, y \in S : x # y => <<x, y>> \in R \/ <<y, x>> \in R
  BY <1>1, <1>2, <1>3 DEF Sooner
<1>6. \A x, y, z \in S : <<x, y>> \in R /\ <<y, z>> \in R => <<x, z>> \in R
  BY <1>1, <1>2 DEF Sooner
<1>7. Ordered(S, R)
  BY <1>4, <1>5, <1>6 DEF Ordered
<1> QED
  BY <1>7 DEF R

LEMMA NewestOnes ==
    ASSUME TypeOK, PlaceOK, NEW S, AllPlaced(S), NEW k \in Nat
    PROVE  /\ Newest(S, k) \subseteq S
           /\ \A m \in Newest(S, k), n \in S \ Newest(S, k) : Before(m, n)
           /\ Cardinality(Newest(S, k)) \in Nat /\ Cardinality(Newest(S, k)) <= k
           /\ Newest(S, k) # S => Cardinality(Newest(S, k)) >= k
<1> DEFINE R == {p \in S \X S : Before(p[1], p[2])}
<1>1. Ordered(S, R) /\ IsFiniteSet(S)
  BY InOrder, Sizes, FS_Subset DEF AllPlaced
<1>2. \A m \in S : Ahead(S, R, m) = {n \in S : Before(n, m)}
  BY DEF Ahead
<1>3. Newest(S, k) = First(S, R, k)
  BY <1>2 DEF Newest, First
<1>4. \A m, n \in S : <<m, n>> \in R => Before(m, n)
  OBVIOUS
<1> HIDE DEF R
<1>5. /\ First(S, R, k) \subseteq S
      /\ \A m \in First(S, R, k), n \in S \ First(S, R, k) : <<m, n>> \in R
      /\ Cardinality(First(S, R, k)) \in Nat /\ Cardinality(First(S, R, k)) <= k
      /\ First(S, R, k) # S => Cardinality(First(S, R, k)) >= k
  BY <1>1, FirstOnes
<1> QED
  BY <1>3, <1>4, <1>5

LEMMA BeforeOrder ==
    ASSUME TypeOK, PlaceOK, NEW x \in Msgs, NEW y \in Msgs, NEW z \in Msgs, Placed(x), Placed(y), Placed(z)
    PROVE  /\ x # y => Before(x, y) \/ Before(y, x)
           /\ ~Before(x, x)
           /\ Before(x, y) /\ Before(y, z) => Before(x, z)
<1>1. \A u \in {x, y, z} : slot[u].at \in Nat /\ slot[u].seq \in Nat /\ slot[u].acct \in Nat
  BY PlacedAt
<1>2. x # y => ~(slot[x].acct = slot[y].acct /\ slot[x].seq = slot[y].seq)
  BY Apart
<1>3. /\ Before(x, y) <=> Sooner(x, y)
      /\ Before(y, x) <=> Sooner(y, x)
      /\ Before(x, x) <=> Sooner(x, x)
      /\ Before(y, z) <=> Sooner(y, z)
      /\ Before(x, z) <=> Sooner(x, z)
  BY BeforeMeans
<1> QED
  BY <1>1, <1>2, <1>3 DEF Sooner

\* The last of some messages.
LEMMA LastIs ==
    ASSUME TypeOK, PlaceOK, NEW S, AllPlaced(S), S # {}
    PROVE  LET last == CHOOSE m \in S : \A n \in S : ~Before(m, n)
           IN  last \in S /\ \A n \in S : n = last \/ Before(n, last)
<1> DEFINE R == {p \in S \X S : Before(p[1], p[2])}
           last == CHOOSE m \in S : \A n \in S : ~Before(m, n)
<1>1. Ordered(S, R) /\ IsFiniteSet(S)
  BY InOrder, Sizes, FS_Subset DEF AllPlaced
<1>2. \A m, n \in S : <<m, n>> \in R <=> Before(m, n)
  OBVIOUS
<1> HIDE DEF R
<1>3. PICK x \in S : \A y \in S : y = x \/ <<y, x>> \in R
  BY <1>1, LastOne
<1>4. \A n \in S : ~Before(x, n)
  BY <1>1, <1>2, <1>3 DEF Ordered
<1>5. last \in S /\ \A n \in S : ~Before(last, n)
  BY <1>4
<1>6. \A n \in S : n = last \/ Before(n, last)
  BY <1>5, BeforeOrder DEF AllPlaced
<1> QED
  BY <1>5, <1>6

\* In one account, what comes later comes after the other's position.
LEMMA SameAccount ==
    ASSUME TypeOK, PlaceOK, NEW m \in Msgs, NEW n \in Msgs, Placed(m), Placed(n), slot[m].acct = slot[n].acct
    PROVE  /\ Before(m, n) <=> After(n, Position(m))
           /\ ~After(m, Position(m))
           /\ \A c \in Nat \X Nat : After(m, c) /\ Before(m, n) => After(n, c)
           /\ \A c \in Nat \X Nat : ~After(n, c) /\ After(m, c) => ~After(n, Position(m))
<1>1. \A u \in {m, n} : slot[u].at \in Nat /\ slot[u].seq \in Nat /\ slot[u].acct \in Nat
  BY PlacedAt
<1>2. Before(m, n) <=> Sooner(m, n)
  BY BeforeMeans
<1>3. Position(m) = <<slot[m].at, slot[m].seq>>
  BY DEF Position
<1>4. /\ After(n, Position(m)) <=> slot[n].at < slot[m].at \/ (slot[n].at = slot[m].at /\ slot[n].seq < slot[m].seq)
      /\ ~After(m, Position(m))
  BY <1>1, <1>3, AfterMeans
<1>5. ASSUME NEW x \in Nat, NEW y \in Nat
      PROVE  /\ After(m, <<x, y>>) /\ Before(m, n) => After(n, <<x, y>>)
             /\ ~After(n, <<x, y>>) /\ After(m, <<x, y>>) => ~After(n, Position(m))
  <2>1. /\ After(m, <<x, y>>) <=> slot[m].at < x \/ (slot[m].at = x /\ slot[m].seq < y)
        /\ After(n, <<x, y>>) <=> slot[n].at < x \/ (slot[n].at = x /\ slot[n].seq < y)
    BY AfterMeans
  <2> QED
    BY <1>1, <1>2, <1>4, <2>1 DEF Sooner
<1>6. \A c \in Nat \X Nat : c = <<c[1], c[2]>> /\ c[1] \in Nat /\ c[2] \in Nat
  OBVIOUS
<1>7. \A c \in Nat \X Nat : After(m, c) /\ Before(m, n) => After(n, c)
  BY <1>5, <1>6
<1>8. \A c \in Nat \X Nat : ~After(n, c) /\ After(m, c) => ~After(n, Position(m))
  BY <1>5, <1>6
<1> QED
  BY <1>1, <1>2, <1>4, <1>7, <1>8 DEF Sooner

LEMMA AfterTop ==
    ASSUME TypeOK, PlaceOK, NEW m \in Msgs, Placed(m) PROVE After(m, Top) /\ ~After(m, Over)
<1>1. slot[m].at \in Nat \ {0} /\ slot[m].at \in Times /\ slot[m].seq \in Nat \ {0}
  BY PlacedAt
<1>2. slot[m].at <= Max(Times) /\ Max(Times) \in Nat
  BY <1>1, Latest
<1> QED
  BY <1>1, <1>2, AfterMeans DEF Top, Over

\* A call of the search returns what there is from where it stopped to where it
\* began.
LEMMA WalkIs ==
    ASSUME TypeOK, PlaceOK, NEW a \in Accounts, NEW c \in Nat \ {0}
    PROVE  /\ Walk(a, c).cursor \in Nat /\ Walk(a, c).cursor < c
           /\ Walk(a, c).found \subseteq Hits(a, 0, c)
           /\ \A m \in Hits(a, 0, c) : m \in Walk(a, c).found <=> slot[m].seq >= Walk(a, c).cursor
<1> USE Has
<1> DEFINE enough(f) == \/ Cardinality(Hits(a, f, c)) >= Limit
                        \/ c - f >= MaxScan \/ f = 0
           ends == {f \in Floors(c) : enough(f)}
           floor == Max(ends)
           H == Hits(a, floor, c)
           found == Last(H, Limit)
           to == IF Cardinality(found) >= Limit THEN Min({slot[m].seq : m \in found}) ELSE floor
           R == {p \in H \X H : slot[p[1]].seq > slot[p[2]].seq}
<1>1. Walk(a, c) = [found |-> found, cursor |-> to]
  BY DEF Walk
<1>2. floor \in 0..(c - 1)
  <2>1. ends \subseteq 0..(c - 1) /\ 0 \in ends
    BY DEF Floors
  <2>2. IsFiniteSet(0..(c - 1))
    <3>1. 0 \in Int /\ c - 1 \in Int
      OBVIOUS
    <3> QED
      BY ONLY <3>1, FS_Interval
  <2>3. IsFiniteSet(ends) /\ ends \subseteq Nat /\ ends # {}
    BY <2>1, <2>2, FS_Subset
  <2> HIDE DEF ends
  <2> QED
    BY <2>1, <2>3, Greatest
<1> HIDE DEF floor
<1>3. \A m \in stored : slot[m].seq \in Nat
  BY PlacedAt
<1>4. \A f \in 0..(c - 1) : /\ Hits(a, f, c) \subseteq Hits(a, 0, c) /\ Hits(a, f, c) \subseteq stored
                            /\ \A m \in Hits(a, 0, c) : m \in Hits(a, f, c) <=> slot[m].seq >= f
                            /\ \A m \in Hits(a, f, c) : slot[m].seq < c
  BY <1>3 DEF Hits
<1>5. H \subseteq stored /\ \A m \in H : slot[m].seq \in Nat /\ slot[m].seq >= floor /\ slot[m].seq < c
  BY <1>2, <1>3, <1>4
<1>6. \A m, n \in H : m # n => slot[m].seq # slot[n].seq
  <2> SUFFICES ASSUME NEW m \in H, NEW n \in H, m # n PROVE slot[m].seq # slot[n].seq
    OBVIOUS
  <2>1. slot[m].acct = slot[n].acct
    BY DEF Hits
  <2> QED
    BY <1>5, <2>1, Apart
<1>7. IsFiniteSet(H)
  BY <1>5, Sizes, FS_Subset
<1> HIDE DEF H
<1>8. \A m, n \in H : <<m, n>> \in R <=> slot[m].seq > slot[n].seq
  OBVIOUS
<1>9. found = First(H, R, Limit)
  <2>1. \A m \in H : Ahead(H, R, m) = {n \in H : slot[n].seq > slot[m].seq}
    BY DEF Ahead
  <2> QED
    BY <2>1 DEF Last, First
<1> HIDE DEF R
<1>10. Ordered(H, R)
  <2>1. \A x \in H : <<x, x>> \notin R
    BY <1>5, <1>8
  <2>2. \A x, y \in H : x # y => <<x, y>> \in R \/ <<y, x>> \in R
    <3> SUFFICES ASSUME NEW x \in H, NEW y \in H, x # y PROVE <<x, y>> \in R \/ <<y, x>> \in R
      OBVIOUS
    <3>1. slot[x].seq \in Nat /\ slot[y].seq \in Nat
      BY <1>5
    <3>2. slot[x].seq # slot[y].seq
      BY <1>6
    <3>3. slot[x].seq > slot[y].seq \/ slot[y].seq > slot[x].seq
      BY ONLY <3>1, <3>2
    <3> QED
      BY <1>8, <3>3
  <2>3. \A x, y, z \in H : <<x, y>> \in R /\ <<y, z>> \in R => <<x, z>> \in R
    BY <1>5, <1>8
  <2> QED
    BY <2>1, <2>2, <2>3 DEF Ordered
<1>11. /\ found \subseteq H /\ \A m \in found, n \in H \ found : <<m, n>> \in R
       /\ found # H => Cardinality(found) >= Limit
  BY <1>7, <1>9, <1>10, Sizes, FirstOnes
<1>12. \A m \in found, n \in H \ found : slot[m].seq > slot[n].seq
  BY <1>8, <1>11
<1> HIDE DEF found
<1>13. CASE ~(Cardinality(found) >= Limit)
  <2>1. found = H /\ to = floor
    BY <1>11, <1>13
  <2>2. H \subseteq Hits(a, 0, c) /\ \A m \in Hits(a, 0, c) : m \in H <=> slot[m].seq >= floor
    BY <1>2, <1>4 DEF H
  <2>3. floor \in Nat /\ floor < c
    BY <1>2
  <2> HIDE DEF to
  <2>4. Walk(a, c).found = H /\ Walk(a, c).cursor = floor
    BY <1>1, <2>1
  <2> QED
    BY <2>2, <2>3, <2>4
<1>14. CASE Cardinality(found) >= Limit
  <2>1. found # {}
    <3>1. Limit > 0 /\ Limit \in Nat
      BY Sizes
    <3>2. Cardinality({}) = 0
      BY FS_EmptySet
    <3> QED
      BY ONLY <1>14, <3>1, <3>2
  <2>2. {slot[m].seq : m \in found} \subseteq Nat /\ {slot[m].seq : m \in found} # {}
    BY <1>5, <1>11, <2>1
  <2>3. to \in {slot[m].seq : m \in found} /\ \A m \in found : to <= slot[m].seq
    <3> DEFINE seqs == {slot[m].seq : m \in found}
    <3>1. to = Min(seqs)
      BY <1>14
    <3>2. \A m \in found : slot[m].seq \in seqs
      OBVIOUS
    <3>3. seqs \subseteq Nat /\ seqs # {}
      BY <2>2
    <3> HIDE DEF seqs, to
    <3>4. to \in seqs /\ \A k \in seqs : to <= k
      BY <3>1, <3>3, Least
    <3> QED
      BY <3>2, <3>4 DEF seqs
  <2>4. PICK r \in found : to = slot[r].seq
    BY <2>3
  <2>5. to \in Nat /\ to >= floor /\ to < c
    BY <1>5, <1>11, <2>4
  <2>6. ASSUME NEW m \in Hits(a, 0, c) PROVE m \in found <=> slot[m].seq >= to
    <3>1. m \in found => slot[m].seq >= to
      BY <1>5, <1>11, <2>3, <2>5
    <3>2. ASSUME slot[m].seq >= to, m \notin found PROVE FALSE
      <4>1. slot[m].seq \in Nat
        BY <1>3 DEF Hits
      <4>2. m \in H
        BY <1>2, <1>4, <2>5, <3>2, <4>1 DEF H
      <4>3. slot[r].seq > slot[m].seq
        BY <1>12, <3>2, <4>2
      <4> QED
        BY <2>4, <2>5, <3>2, <4>1, <4>3
    <3> QED
      BY <3>1, <3>2
  <2>7. found \subseteq Hits(a, 0, c)
    BY <1>2, <1>4, <1>11 DEF H
  <2> HIDE DEF to
  <2> QED
    BY <1>1, <2>5, <2>6, <2>7
<1> QED
  BY <1>13, <1>14

-----------------------------------------------------------------------------
(* What others do: types, places and bodies *)

LEMMA ArriveTyped ==
    ASSUME TypeOK, PlaceOK, NEW m \in Msgs, NEW a \in Accounts, NEW t \in Times, Arrive(m, a, t)
    PROVE  TypeOK' /\ PlaceOK'
<1> USE Has, Sizes
<1>1. counter[a] \in Nat /\ a \in Nat \ {0} /\ t \in Nat \ {0}
  OBVIOUS
<1> DEFINE new == [acct |-> a, at |-> t, seq |-> counter[a] + 1]
<1>2. slot'[m] = new /\ \A n \in Msgs \ {m} : slot'[n] = slot[n]
  BY DEF Arrive
<1>3. slot' \in [Msgs -> [acct : Accounts \cup {0}, at : Times \cup {0}, seq : Nat]]
  BY <1>1 DEF Arrive
<1>4. new # Nowhere
  BY <1>1 DEF Nowhere
<1>5. \A n \in Msgs : Placed(n)' <=> n = m \/ Placed(n)
  BY <1>2, <1>4 DEF Placed
<1>6. counter'[a] = counter[a] + 1 /\ (\A b \in Accounts \ {a} : counter'[b] = counter[b])
      /\ counter' \in [Accounts -> Nat]
  BY <1>1 DEF Arrive
<1>7. \A n \in Msgs \ {m} : slot[n].acct = a => slot[n].seq \in Nat /\ slot[n].seq <= counter[a]
  <2> SUFFICES ASSUME NEW n \in Msgs \ {m}, slot[n].acct = a
               PROVE  slot[n].seq \in Nat /\ slot[n].seq <= counter[a]
    OBVIOUS
  <2>1. Placed(n)
    BY <1>1 DEF Placed, Nowhere
  <2> QED
    BY <2>1, PlacedAt
<1>8. ASSUME NEW x \in Msgs, NEW y \in Msgs, x # y, slot'[x] # Nowhere
      PROVE  <<slot'[x].acct, slot'[x].seq>> # <<slot'[y].acct, slot'[y].seq>>
  <2>1. CASE x = m
    BY <1>1, <1>2, <1>7, <1>8, <2>1
  <2>2. CASE y = m
    BY <1>1, <1>2, <1>7, <1>8, <2>2
  <2>3. CASE x # m /\ y # m
    BY <1>2, <1>8, <2>3 DEF TypeOK
  <2> QED
    BY <2>1, <2>2, <2>3
<1>9. PlaceOK'
  <2> SUFFICES ASSUME NEW n \in Msgs, Placed(n)'
               PROVE  /\ slot'[n].acct \in Accounts /\ slot'[n].at \in Times
                      /\ slot'[n].seq \in 1..counter'[slot'[n].acct]
    BY DEF PlaceOK
  <2>1. CASE n = m
    BY <1>1, <1>2, <1>6, <2>1
  <2>2. CASE n # m
    <3>1. slot'[n] = slot[n] /\ Placed(n)
      BY <1>2, <1>5, <2>2
    <3>2. slot[n].acct \in Accounts /\ slot[n].at \in Times /\ slot[n].seq \in 1..counter[slot[n].acct]
      BY <3>1 DEF PlaceOK
    <3>3. counter[slot[n].acct] \in Nat /\ counter'[slot[n].acct] \in Nat
          /\ counter'[slot[n].acct] >= counter[slot[n].acct]
      <4>1. \A b \in Accounts : counter[b] \in Nat /\ counter'[b] \in Nat /\ counter'[b] >= counter[b]
        BY <1>6
      <4> QED
        BY ONLY <3>2, <4>1
    <3> QED
      BY <3>1, <3>2, <3>3
  <2> QED
    BY <2>1, <2>2
<1>10. stored' \cup bodies' \subseteq {n \in Msgs : slot'[n] # Nowhere}
  BY <1>5 DEF Arrive, Placed, TypeOK
<1>11. starred' \cup archived' \cup trashed' \subseteq stored'
  BY DEF Arrive
<1> QED
  BY <1>3, <1>6, <1>8, <1>9, <1>10, <1>11 DEF Arrive, TypeOK, history

\* The rows and the bodies change; nothing is placed.
LEMMA RowsTyped ==
    ASSUME TypeOK, PlaceOK, UNCHANGED <<slot, counter>>, stored' \subseteq stored, bodies' \subseteq bodies,
           starred' \cup archived' \cup trashed' \subseteq stored', shown' \subseteq Accounts,
           purge' \in [pc : {"idle", "remove", "unindex"}, msgs : SUBSET Msgs],
           UNCHANGED <<reader, page, twice, crowded>>, restored' \subseteq Msgs, steady' \subseteq steady,
           flips' \in 0..MaxFlips
    PROVE  TypeOK' /\ PlaceOK'
<1>1. stored' \cup bodies' \subseteq {m \in Msgs : slot'[m] # Nowhere}
  BY DEF TypeOK
<1>2. \A m, n \in Msgs : m # n /\ slot'[m] # Nowhere =>
           <<slot'[m].acct, slot'[m].seq>> # <<slot'[n].acct, slot'[n].seq>>
  BY DEF TypeOK
<1>3. TypeOK'
  BY <1>1, <1>2 DEF TypeOK
<1> QED
  BY <1>3 DEF PlaceOK, Placed

LEMMA FlipTyped ==
    ASSUME TypeOK, PlaceOK, NEW m \in Msgs, Flip(m), starred' \cup archived' \cup trashed' \subseteq stored,
           restored' \subseteq Msgs
    PROVE  TypeOK' /\ PlaceOK'
<1>1. flips' \in 0..MaxFlips
  BY Sizes DEF Flip, TypeOK
<1>2. purge' \in [pc : {"idle", "remove", "unindex"}, msgs : SUBSET Msgs] /\ shown' \subseteq Accounts
  BY DEF Flip, TypeOK
<1> QED
  BY <1>1, <1>2, RowsTyped DEF Flip

LEMMA BodyKept ==
    ASSUME TypeOK, BodyOK, UNCHANGED <<stored, bodies, purge>>,
           trashed \cup restored \subseteq trashed' \cup restored' \/ purge.msgs \subseteq trashed' \cup restored'
    PROVE  BodyOK'
BY DEF BodyOK

LEMMA RowsKeep ==
    ASSUME TypeOK, PlaceOK, BodyOK, NEW m \in Msgs,
           SetStarred(m) \/ SetArchived(m) \/ Trash(m) \/ Restore(m)
    PROVE  TypeOK' /\ PlaceOK' /\ BodyOK'
<1> USE Has
<1>0. m \in stored /\ UNCHANGED <<stored, bodies, purge>> /\ Flip(m)
  BY DEF SetStarred, SetArchived, Trash, Restore, Flip
<1>1. starred' \cup archived' \cup trashed' \subseteq stored /\ restored' \subseteq Msgs
  BY <1>0 DEF SetStarred, SetArchived, Trash, Restore
<1>2. purge.msgs \subseteq trashed' \cup restored'
  BY DEF SetStarred, SetArchived, Trash, Restore, BodyOK
<1> QED
  BY <1>0, <1>1, <1>2, FlipTyped, BodyKept

LEMMA PurgeKeeps ==
    ASSUME TypeOK, PlaceOK, BodyOK,
           (\E m \in Msgs : PurgeBegins(m)) \/ PurgeRemoves \/ Unindex
    PROVE  TypeOK' /\ PlaceOK' /\ BodyOK'
<1> USE Has, Sizes
<1>1. CASE \E m \in Msgs : PurgeBegins(m)
  <2>1. PICK m \in Msgs : PurgeBegins(m)
    BY <1>1
  <2>2. /\ purge' = [pc |-> "remove", msgs |-> {m}] /\ m \in trashed
        /\ UNCHANGED <<mail, shown, reader, history, restored>> /\ flips < MaxFlips /\ flips' = flips + 1
        /\ purge.pc = "idle"
    BY <2>1 DEF PurgeBegins, Purgeable, NoPurge
  <2>3. purge' \in [pc : {"idle", "remove", "unindex"}, msgs : SUBSET Msgs] /\ flips' \in 0..MaxFlips
    BY <2>2 DEF TypeOK
  <2>4. TypeOK' /\ PlaceOK'
    BY <2>2, <2>3, RowsTyped DEF mail, history
  <2> QED
    BY <2>2, <2>4 DEF BodyOK, mail
<1>2. CASE PurgeRemoves
  <2>1. /\ purge.pc = "remove" /\ bodies' = bodies \ purge.msgs /\ purge' = [purge EXCEPT !.pc = "unindex"]
        /\ UNCHANGED <<slot, stored, starred, archived, trashed, counter, shown,
                       reader, history, restored, flips>>
    BY <1>2 DEF PurgeRemoves
  <2>2. purge' \in [pc : {"idle", "remove", "unindex"}, msgs : SUBSET Msgs] /\ flips' \in 0..MaxFlips
        /\ purge'.pc = "unindex" /\ purge'.msgs = purge.msgs
    BY <2>1 DEF TypeOK
  <2>3. TypeOK' /\ PlaceOK'
    BY <2>1, <2>2, RowsTyped DEF history
  <2> QED
    BY <2>1, <2>2, <2>3 DEF BodyOK
<1>3. CASE Unindex
  <2>1. /\ purge.pc = "unindex" /\ purge' = NoPurge
        /\ stored' = stored \ purge.msgs /\ starred' = starred \ purge.msgs
        /\ archived' = archived \ purge.msgs /\ trashed' = trashed \ purge.msgs
        /\ steady' = steady \ purge.msgs
        /\ UNCHANGED <<slot, bodies, counter, shown, reader, page, twice, crowded, restored, flips>>
    BY <1>3 DEF Unindex
  <2>2. purge' \in [pc : {"idle", "remove", "unindex"}, msgs : SUBSET Msgs] /\ flips' \in 0..MaxFlips
    BY <2>1 DEF TypeOK, NoPurge
  <2>3. starred' \cup archived' \cup trashed' \subseteq stored'
    BY <2>1
  <2>4. TypeOK' /\ PlaceOK'
    BY <2>1, <2>2, <2>3, RowsTyped
  <2> QED
    BY <2>1, <2>4 DEF BodyOK, NoPurge
<1> QED
  BY <1>1, <1>2, <1>3

LEMMA ShownKeeps ==
    ASSUME TypeOK, PlaceOK, BodyOK, NEW a \in Accounts, SetShown(a)
    PROVE  TypeOK' /\ PlaceOK' /\ BodyOK'
<1>1. shown' \subseteq Accounts /\ flips' \in 0..MaxFlips /\ steady' \subseteq steady
  BY Has, Sizes DEF SetShown, TypeOK
<1>2. starred' \cup archived' \cup trashed' \subseteq stored'
  BY Has DEF SetShown, mail
<1>3. purge' \in [pc : {"idle", "remove", "unindex"}, msgs : SUBSET Msgs] /\ restored' \subseteq Msgs
  BY DEF SetShown, TypeOK
<1>4. TypeOK' /\ PlaceOK'
  BY <1>1, <1>2, <1>3, RowsTyped DEF SetShown, mail
<1> QED
  BY <1>4 DEF SetShown, mail, BodyOK

-----------------------------------------------------------------------------
(* What the reader does: types *)

\* Changing a part of the reader.
LEMMA Changed ==
    ASSUME NEW r \in Reader
    PROVE  /\ \A x \in {"idle", "asking", "page", "seeking", "over"} :
                  [r EXCEPT !.pc = x] \in Reader
           /\ \A x \in Nat : [r EXCEPT !.page = x] \in Reader
           /\ \A x \in SUBSET Accounts : [r EXCEPT !.taking = x] \in Reader
           /\ \A x \in SUBSET (Accounts \X {"rest", "starred"}) : [r EXCEPT !.todo = x] \in Reader
           /\ \A x \in [Accounts -> Nat \X Nat] : [r EXCEPT !.cursor = x] \in Reader
           /\ \A x \in SUBSET Msgs : [r EXCEPT !.pinned = x] \in Reader
           /\ \A x \in [Accounts -> SUBSET Msgs] : [r EXCEPT !.rest = x] \in Reader
           /\ \A x \in Nat : [r EXCEPT !.seek = x] \in Reader
BY DEF Reader

LEMMA FollowTyped == ASSUME TypeOK, Follow PROVE TypeOK'
<1> USE Has
<1> DEFINE todo == Asks(shown, reader.page + 1, reader.first, reader.cursor)
<1>1. todo \in SUBSET (Accounts \X {"rest", "starred"})
  BY DEF Asks
<1>2. reader' = [reader EXCEPT !.pc = "asking", !.page = reader.page + 1, !.taking = shown, !.todo = todo]
  BY DEF Follow
<1> HIDE DEF todo
<1>3. reader' \in Reader
  <2>1. reader \in Reader /\ reader.page + 1 \in Nat /\ shown \in SUBSET Accounts
    BY DEF Reader
  <2> DEFINE r1 == [reader EXCEPT !.pc = "asking"]
             r2 == [r1 EXCEPT !.page = reader.page + 1]
             r3 == [r2 EXCEPT !.taking = shown]
             r4 == [r3 EXCEPT !.todo = todo]
  <2>2. reader' = r4
    BY <1>2
  <2>3. r1 \in Reader
    BY <2>1, Changed
  <2> HIDE DEF r1
  <2>4. r2 \in Reader
    BY <2>1, <2>3, Changed
  <2> HIDE DEF r2
  <2>5. r3 \in Reader
    BY <2>1, <2>4, Changed
  <2> HIDE DEF r3
  <2>6. r4 \in Reader
    BY <1>1, <2>5, Changed
  <2> HIDE DEF r4
  <2> QED
    BY <2>2, <2>6
<1> QED
  BY <1>3, ReaderTyped DEF Follow, history

\* What the next page is taken from, and what it takes.
Given == UNION {reader.rest[a] : a \in reader.taking}

LEMMA PartIs ==
    ASSUME TypeOK, PlaceOK, RestOK
    PROVE  /\ AllPlaced(Given) /\ Part \subseteq Given
           /\ \A m \in Part, n \in Given \ Part : Before(m, n)
           /\ IsFiniteSet(Part) /\ Cardinality(Part) \in Nat /\ Cardinality(Part) <= PageSize
<1> USE Has
<1>1. AllPlaced(Given)
  <2>1. reader.taking \subseteq Accounts /\ \A a \in Accounts : reader.rest[a] \subseteq Msgs
    BY DEF Reader
  <2>2. \A a \in Accounts : \A n \in reader.rest[a] : Placed(n)
    BY DEF RestOK, Comes
  <2> QED
    BY ONLY <2>1, <2>2 DEF Given, AllPlaced
<1>2. Part = Newest(Given, PageSize) /\ PageSize \in Nat
  BY Sizes DEF Part, Given
<1>3. IsFiniteSet(Given)
  BY <1>1, Sizes, FS_Subset DEF AllPlaced
<1>4. /\ Part \subseteq Given /\ \A m \in Part, n \in Given \ Part : Before(m, n)
      /\ Cardinality(Part) \in Nat /\ Cardinality(Part) <= PageSize
  BY <1>1, <1>2, NewestOnes
<1> QED
  BY <1>1, <1>3, <1>4, FS_Subset

\* Where an account goes on: nowhere, if all it gave was shown; else after the
\* last of it that was shown, or where it was.
LEMMA NextIs ==
    ASSUME TypeOK, PlaceOK, RestOK, NEW a \in reader.taking
    PROVE  /\ NextCursor(a) \in Nat \X Nat
           /\ \/ reader.cursor[a] = Over /\ NextCursor(a) = Over
              \/ Part \cap reader.rest[a] = reader.rest[a] /\ Cardinality(reader.rest[a]) <= PageSize
                 /\ NextCursor(a) = Over
              \/ Part \cap reader.rest[a] = {} /\ NextCursor(a) = reader.cursor[a]
              \/ /\ Part \cap reader.rest[a] # reader.rest[a]
                 /\ \E l \in Part \cap reader.rest[a] :
                      /\ NextCursor(a) = Position(l)
                      /\ \A n \in Part \cap reader.rest[a] : n = l \/ Before(n, l)
<1> USE Has
<1> DEFINE mine == Part \cap reader.rest[a]
           l == CHOOSE m \in mine : \A n \in mine : ~Before(m, n)
<1>1. a \in Accounts /\ reader.cursor[a] \in Nat \X Nat
  BY DEF Reader
<1>2. AllPlaced(mine) /\ Cardinality(mine) <= PageSize
  <2>1. mine \subseteq Part /\ AllPlaced(mine)
    BY PartIs DEF AllPlaced
  <2>2. Cardinality(mine) \in Nat /\ Cardinality(mine) <= Cardinality(Part)
    BY <2>1, PartIs, FS_Subset, FS_CardinalityType
  <2> QED
    BY <2>1, <2>2, PartIs, Sizes
<1>3. NextCursor(a) = IF reader.cursor[a] = Over \/ (mine = reader.rest[a] /\ Cardinality(mine) <= PageSize)
                      THEN Over ELSE IF mine = {} THEN reader.cursor[a] ELSE Position(l)
  BY DEF NextCursor
<1> HIDE DEF mine
<1>4. mine # {} => l \in mine /\ \A n \in mine : n = l \/ Before(n, l)
  BY <1>2, LastIs
<1>5. mine # {} => Position(l) \in Nat \X Nat
  BY <1>2, <1>4, PlacedAt DEF AllPlaced
<1> HIDE DEF l
<1>6. /\ NextCursor(a) \in Nat \X Nat
      /\ \/ reader.cursor[a] = Over /\ NextCursor(a) = Over
         \/ mine = reader.rest[a] /\ Cardinality(reader.rest[a]) <= PageSize /\ NextCursor(a) = Over
         \/ mine = {} /\ NextCursor(a) = reader.cursor[a]
         \/ /\ mine # reader.rest[a]
            /\ l \in mine /\ NextCursor(a) = Position(l) /\ \A n \in mine : n = l \/ Before(n, l)
  BY <1>1, <1>2, <1>3, <1>4, <1>5, Start
<1> QED
  BY <1>6 DEF mine

Next1 == [a \in Accounts |-> IF a \in reader.taking THEN NextCursor(a) ELSE Top]

LEMMA DrawIs ==
    ASSUME TypeOK, Draw
    PROVE  /\ reader.pc = "asking" /\ reader.todo = {}
           /\ reader' = [reader EXCEPT
                !.pc = IF \E a \in reader.taking : Next1[a] # Over THEN "page" ELSE "over",
                !.cursor = Next1, !.pinned = {}, !.rest = NoReader.rest]
           /\ Show(Part \cup reader.pinned, reader.page)
           /\ UNCHANGED <<mail, shown, purge, steady, crowded, restored, flips>>
BY DEF Draw, Next1

LEMMA ShowTyped ==
    ASSUME TypeOK, NEW S, S \subseteq Msgs, NEW n \in Nat, Show(S, n) PROVE page' \in [Msgs -> Nat] /\ twice' \subseteq Msgs
<1>1. page \in [Msgs -> Nat] /\ twice \subseteq Msgs
  BY Has
<1>2. page' = [m \in Msgs |-> IF m \in S THEN n ELSE page[m]] /\ twice' = twice \cup {m \in S : page[m] # 0}
  BY DEF Show
<1> QED
  BY <1>1, <1>2

LEMMA DrawTyped == ASSUME TypeOK, PlaceOK, RestOK, Draw PROVE TypeOK'
<1> USE Has
<1>1. Next1 \in [Accounts -> Nat \X Nat]
  BY NextIs, Start DEF Next1
<1>2. NoReader.rest \in [Accounts -> SUBSET Msgs]
  BY DEF NoReader
<1>3. reader' \in Reader
  <2>1. reader \in Reader
    OBVIOUS
  <2> DEFINE pc == IF \E a \in reader.taking : Next1[a] # Over THEN "page" ELSE "over"
             none == NoReader.rest
             r1 == [reader EXCEPT !.pc = pc]
             r2 == [r1 EXCEPT !.cursor = Next1]
             r3 == [r2 EXCEPT !.pinned = {}]
             r4 == [r3 EXCEPT !.rest = none]
  <2>2. reader' = r4
    BY DrawIs
  <2>3. pc \in {"idle", "asking", "page", "seeking", "over"} /\ none \in [Accounts -> SUBSET Msgs]
    BY <1>2
  <2> HIDE DEF pc, none
  <2>4. r1 \in Reader
    BY <2>1, <2>3, Changed
  <2> HIDE DEF r1
  <2>5. r2 \in Reader
    BY <1>1, <2>4, Changed
  <2> HIDE DEF r2
  <2>6. r3 \in Reader
    BY <2>5, Changed
  <2> HIDE DEF r3
  <2>7. r4 \in Reader
    BY <2>3, <2>6, Changed
  <2> HIDE DEF r4
  <2> QED
    BY <2>2, <2>7
<1>4. reader.page \in Nat
  BY DEF Reader
<1>5. page' \in [Msgs -> Nat] /\ twice' \subseteq Msgs
  <2>1. Part \cup reader.pinned \subseteq Msgs
    BY PartIs DEF AllPlaced, Reader
  <2> QED
    BY <1>4, <2>1, DrawIs, ShowTyped
<1> QED
  BY <1>3, <1>5, ReaderTyped, DrawIs

LEMMA SearchTyped == ASSUME TypeOK, Search PROVE TypeOK'
<1> USE Has, Sizes
<1>1. counter[1] + 1 \in Nat
  OBVIOUS
<1>2. reader' \in Reader
  BY <1>1, Start DEF Search, NoReader, Reader
<1>3. steady' \subseteq Msgs
  BY DEF Search, Hits
<1> QED
  BY <1>2, <1>3, ReaderTyped DEF Search

\* A call of the search that returned some messages, and goes on at a number.
Called(found, to) ==
    /\ found \subseteq Hits(1, 0, reader.seek) /\ to \in Nat /\ to < reader.seek
    /\ \A m \in Hits(1, 0, reader.seek) : m \in found <=> slot[m].seq >= to
    /\ reader' = [reader EXCEPT !.pc = IF to = 0 THEN "over" ELSE "seeking",
                                !.seek = to, !.page = reader.page + 1]
    /\ Show(found, reader.page + 1)

LEMMA SearchOnIs ==
    ASSUME TypeOK, PlaceOK, ModeOK, SearchOn
    PROVE  /\ reader.seek \in Nat \ {0} /\ reader.pc = "seeking" /\ reader.view = "search"
           /\ UNCHANGED <<mail, shown, purge, steady, crowded, restored, flips>>
           /\ \E found, to : Called(found, to)
<1>1. reader.seek \in Nat \ {0} /\ reader.pc = "seeking" /\ reader.view = "search"
  BY Has DEF SearchOn, ModeOK, Reader
<1>2. 1 \in Accounts
  BY Sizes
<1> DEFINE w == Walk(1, reader.seek)
           found == w.found
           to == w.cursor
<1>3. /\ to \in Nat /\ to < reader.seek
      /\ found \subseteq Hits(1, 0, reader.seek)
      /\ \A m \in Hits(1, 0, reader.seek) : m \in found <=> slot[m].seq >= to
  BY <1>1, <1>2, WalkIs
<1>4. /\ reader' = [reader EXCEPT !.pc = IF to = 0 THEN "over" ELSE "seeking",
                                  !.seek = to, !.page = reader.page + 1]
      /\ Show(found, reader.page + 1)
      /\ UNCHANGED <<mail, shown, purge, steady, crowded, restored, flips>>
  BY DEF SearchOn
<1> HIDE DEF found, to
<1>5. Called(found, to)
  BY <1>3, <1>4 DEF Called
<1> QED
  BY <1>1, <1>4, <1>5

LEMMA SearchOnTyped == ASSUME TypeOK, PlaceOK, ModeOK, SearchOn PROVE TypeOK'
<1> USE Has
<1>1. PICK found, to : Called(found, to)
  BY SearchOnIs
<1>2. reader' \in Reader /\ reader.page + 1 \in Nat
  <2>1. reader \in Reader /\ reader.page + 1 \in Nat
    BY DEF Reader
  <2> DEFINE pc == IF to = 0 THEN "over" ELSE "seeking"
             r1 == [reader EXCEPT !.pc = pc]
             r2 == [r1 EXCEPT !.seek = to]
             r3 == [r2 EXCEPT !.page = reader.page + 1]
  <2>2. reader' = r3 /\ to \in Nat
    BY <1>1 DEF Called
  <2>3. pc \in {"idle", "asking", "page", "seeking", "over"}
    OBVIOUS
  <2> HIDE DEF pc
  <2>4. r1 \in Reader
    BY <2>1, <2>3, Changed
  <2> HIDE DEF r1
  <2>5. r2 \in Reader
    BY <2>2, <2>4, Changed
  <2> HIDE DEF r2
  <2>6. r3 \in Reader
    BY <2>1, <2>5, Changed
  <2> HIDE DEF r3
  <2> QED
    BY <2>1, <2>2, <2>6
<1>3. page' \in [Msgs -> Nat] /\ twice' \subseteq Msgs
  BY <1>1, <1>2, ShowTyped DEF Called, Hits
<1> QED
  BY <1>2, <1>3, ReaderTyped, SearchOnIs

LEMMA ReaderPlaced ==
    ASSUME PlaceOK, BodyOK, UNCHANGED <<mail, purge, restored>> PROVE PlaceOK' /\ BodyOK'
BY DEF PlaceOK, BodyOK, Placed, mail

-----------------------------------------------------------------------------
(* What others do leaves the lists as they are *)

\* A message that stays in view keeps its place and what the lists go by.
Same(m) ==
    /\ m \in stored' /\ slot'[m] = slot[m]
    /\ (m \in starred' <=> m \in starred) /\ (m \in archived' <=> m \in archived)
    /\ (m \in trashed' <=> m \in trashed)
    /\ slot[m].acct \in shown => slot[m].acct \in shown'

Others ==
    /\ UNCHANGED <<reader, page, twice, crowded>> /\ steady' \subseteq steady
    /\ \A m \in Msgs : Placed(m) => slot'[m] = slot[m]
    /\ \A m \in steady' : Same(m)

LEMMA PlacesKept ==
    ASSUME TypeOK, PlaceOK, ListOK, Others
    PROVE  /\ \A m \in steady' : m \in steady /\ m \in Msgs /\ Placed(m) /\ slot'[m] = slot[m] /\ m \in stored
           /\ \A a \in Accounts : \A n \in reader.rest[a] : n \in Msgs /\ Placed(n) /\ slot'[n] = slot[n]
<1> USE Has
<1>1. \A m \in steady' : m \in steady /\ m \in stored
  BY DEF Others, ListOK, SteadyOK
<1>2. \A a \in Accounts : \A n \in reader.rest[a] : n \in Msgs /\ Placed(n)
  BY DEF ListOK, RestOK, Reader, Comes
<1> QED
  BY <1>1, <1>2 DEF Others

LEMMA OthersFresh == ASSUME TypeOK, PlaceOK, ListOK, Others PROVE FreshOK' /\ OverOK' /\ ModeOK'
<1>1. FreshOK'
  BY DEF ListOK, FreshOK, Others
<1>2. OverOK' /\ ModeOK'
  BY DEF ListOK, OverOK, ModeOK, Others, Listing
<1> QED
  BY <1>1, <1>2

LEMMA ViewsAre ==
    ASSUME NEW m
    PROVE  /\ InView(m, "trash") <=> m \in trashed
           /\ InView(m, "archive") <=> m \in archived \ trashed
           /\ InView(m, "messages") <=> m \in stored \ (archived \cup trashed)
BY DEF InView

LEMMA SameView ==
    ASSUME NEW m \in stored, Same(m), NEW v \in Views PROVE InView(m, v)' <=> InView(m, v)
<1>1. v \in {"trash", "archive", "messages"}
  BY Sizes
<1>2. CASE v = "trash"
  BY <1>2 DEF InView, Same
<1>3. CASE v = "archive"
  BY <1>3 DEF InView, Same
<1>4. CASE v = "messages"
  BY <1>4 DEF InView, Same
<1> QED
  BY <1>1, <1>2, <1>3, <1>4

LEMMA OthersSteady == ASSUME TypeOK, PlaceOK, ListOK, Others PROVE SteadyOK'
<1> SUFFICES ASSUME NEW m \in steady'
             PROVE  /\ m \in stored'
                    /\ Listing => InView(m, reader.view)' /\ slot'[m].acct \in shown' \cap reader.taking
                    /\ reader.view = "search" => m \in Matching \ trashed' /\ slot'[m].acct = 1
  BY DEF SteadyOK, Others, Listing
<1>1. m \in steady /\ m \in stored /\ slot'[m] = slot[m]
  BY PlacesKept
<1>2. Same(m) /\ reader' = reader
  BY DEF Others
<1>3. /\ Listing => InView(m, reader.view) /\ slot[m].acct \in shown \cap reader.taking
      /\ reader.view = "search" => m \in Matching \ trashed /\ slot[m].acct = 1
  BY <1>1 DEF ListOK, SteadyOK
<1>4. Listing => (InView(m, reader.view)' <=> InView(m, reader.view))
  <2> SUFFICES ASSUME Listing PROVE InView(m, reader.view)' <=> InView(m, reader.view)
    OBVIOUS
  <2>1. PICK v \in Views : v = reader.view
    BY DEF Listing
  <2>2. InView(m, v)' <=> InView(m, v)
    BY <1>1, <1>2, SameView
  <2> QED
    BY <1>2, <2>1, <2>2
<1> QED
  BY <1>1, <1>2, <1>3, <1>4 DEF Same

LEMMA OthersRest == ASSUME TypeOK, PlaceOK, ListOK, Others PROVE RestOK' /\ AnswerOK'
<1>0. reader' = reader
  BY DEF Others
<1>1. ASSUME NEW a \in Accounts, NEW n \in reader.rest[a] PROVE Comes(n, a)'
  <2>1. Comes(n, a) /\ slot'[n] = slot[n]
    BY PlacesKept DEF ListOK, RestOK
  <2> QED
    BY <1>0, <2>1 DEF Placed, After, Position, Comes
<1>2. RestOK'
  <2>1. \A a \in Accounts : reader.pc # "asking" \/ <<a, "rest">> \in reader.todo => reader.rest[a] = {}
    BY DEF ListOK, RestOK
  <2> QED
    BY <1>0, <1>1, <2>1 DEF RestOK
<1>3. ASSUME NEW m \in steady', reader.pc = "asking", ~Pinned(m)', (After(m, reader.cursor[slot[m].acct]))'
      PROVE  LET a == slot[m].acct IN
               \/ <<a, "rest">> \in reader.todo
               \/ m \in reader.rest[a]
               \/ Cardinality(reader.rest[a]) > PageSize /\ \A n \in reader.rest[a] : Before(n, m)'
  <2> DEFINE a == slot[m].acct
  <2>1. m \in steady /\ slot'[m] = slot[m] /\ m \in Msgs /\ Placed(m)
    BY PlacesKept
  <2>2. ~Pinned(m) /\ After(m, reader.cursor[a])
    BY <1>0, <1>3, <2>1 DEF Pinned, After, Position, Others, Same
  <2>3. \/ <<a, "rest">> \in reader.todo
        \/ m \in reader.rest[a]
        \/ Cardinality(reader.rest[a]) > PageSize /\ \A n \in reader.rest[a] : Before(n, m)
    BY <1>3, <2>1, <2>2 DEF ListOK, AnswerOK
  <2>4. a \in Accounts
    BY <2>1, PlacedAt
  <2>5. \A n \in reader.rest[a] : Before(n, m) => Before(n, m)'
    BY <2>1, <2>4, PlacesKept DEF Before, Position
  <2> QED
    BY <2>3, <2>5
<1>4. \A m \in steady' : slot'[m] = slot[m]
  BY PlacesKept
<1>5. AnswerOK'
  BY <1>0, <1>3, <1>4 DEF AnswerOK
<1> QED
  BY <1>2, <1>5

LEMMA OthersPinned == ASSUME TypeOK, PlaceOK, ListOK, Others PROVE PinnedOK'
<1>0. /\ reader' = reader /\ page' = page /\ twice' = twice /\ crowded' = crowded
      /\ FirstPage' = FirstPage /\ Listing' = Listing
  BY DEF Others, FirstPage, Listing
<1>1. \A m \in steady' : m \in steady /\ slot'[m] = slot[m] /\ (Pinned(m)' <=> Pinned(m))
  BY <1>0, PlacesKept DEF Pinned, Others, Same
<1>2. PinnedOK
  BY DEF ListOK
<1> QED
  BY <1>0, <1>1, <1>2 DEF PinnedOK

LEMMA OthersOrder == ASSUME TypeOK, PlaceOK, ListOK, Others PROVE CursorOK' /\ OrderOK' /\ SearchOK'
<1>0. /\ reader' = reader /\ page' = page /\ twice' = twice /\ Listing' = Listing
  BY DEF Others, Listing
<1>1. \A m \in steady' : m \in steady /\ slot'[m] = slot[m] /\ (Pinned(m)' <=> Pinned(m))
  BY <1>0, PlacesKept DEF Pinned, Others, Same
<1>2. CursorOK'
  BY <1>0, <1>1 DEF CursorOK, ListOK, After, Position
<1>3. SearchOK'
  BY <1>0, <1>1 DEF SearchOK, ListOK
<1>4. \A m, n \in steady' : Before(m, n)' <=> Before(m, n)
  BY <1>1 DEF Before, Position
<1>5. OrderOK'
  BY <1>0, <1>1, <1>4 DEF OrderOK, ListOK
<1> QED
  BY <1>2, <1>3, <1>5

LEMMA OthersKeep == ASSUME TypeOK, PlaceOK, ListOK, Others PROVE ListOK'
BY OthersFresh, OthersSteady, OthersRest, OthersPinned, OthersOrder DEF ListOK

OtherStep ==
    \/ \E m \in Msgs, a \in Accounts, t \in Times : Arrive(m, a, t)
    \/ \E m \in Msgs : SetStarred(m) \/ SetArchived(m) \/ Trash(m) \/ Restore(m)
    \/ \E m \in Msgs : PurgeBegins(m)
    \/ PurgeRemoves \/ Unindex
    \/ \E a \in Accounts : SetShown(a)

LEMMA OthersAre == ASSUME TypeOK, PlaceOK, ListOK, BodyOK, OtherStep PROVE Others
<1> USE Has
<1>0. \A m \in steady : m \in stored /\ m \in Msgs /\ Placed(m)
  BY DEF ListOK, SteadyOK
<1>1. CASE \E m \in Msgs, a \in Accounts, t \in Times : Arrive(m, a, t)
  <2>1. PICK m \in Msgs, a \in Accounts, t \in Times : Arrive(m, a, t)
    BY <1>1
  <2>2. ~Placed(m) /\ \A n \in Msgs \ {m} : slot'[n] = slot[n]
    BY <2>1 DEF Arrive, Placed
  <2> QED
    BY <1>0, <2>1, <2>2 DEF Arrive, Others, Same, history
<1>2. CASE \E m \in Msgs : SetStarred(m) \/ SetArchived(m) \/ Trash(m) \/ Restore(m)
  <2>1. PICK m \in Msgs : SetStarred(m) \/ SetArchived(m) \/ Trash(m) \/ Restore(m)
    BY <1>2
  <2>2. /\ UNCHANGED <<slot, stored, shown, reader, page, twice, crowded>> /\ steady' = steady \ {m}
    BY <2>1 DEF SetStarred, SetArchived, Trash, Restore, Flip
  <2>3. \A n \in steady' : /\ (n \in starred' <=> n \in starred) /\ (n \in archived' <=> n \in archived)
                           /\ (n \in trashed' <=> n \in trashed)
    BY <2>1, <2>2 DEF SetStarred, SetArchived, Trash, Restore
  <2> QED
    BY <1>0, <2>2, <2>3 DEF Others, Same
<1>3. CASE (\E m \in Msgs : PurgeBegins(m)) \/ PurgeRemoves
  BY <1>0, <1>3 DEF PurgeBegins, PurgeRemoves, Others, Same, mail, history
<1>4. CASE Unindex
  BY <1>0, <1>4 DEF Unindex, Others, Same
<1>5. CASE \E a \in Accounts : SetShown(a)
  BY <1>0, <1>5 DEF SetShown, Others, Same, mail
<1> QED
  BY <1>1, <1>2, <1>3, <1>4, <1>5 DEF OtherStep

LEMMA OthersStep == ASSUME IInv, OtherStep PROVE IInv'
<1> USE DEF IInv
<1>1. ListOK'
  BY OthersAre, OthersKeep
<1>2. TypeOK' /\ PlaceOK'
  BY ArriveTyped, RowsKeep, PurgeKeeps, ShownKeeps DEF OtherStep
<1>3. CASE \E m \in Msgs, a \in Accounts, t \in Times : Arrive(m, a, t)
  <2>1. BodyOK'
    BY <1>3 DEF Arrive, BodyOK
  <2> QED
    BY <1>1, <1>2, <2>1
<1>4. BodyOK'
  BY <1>3, RowsKeep, PurgeKeeps, ShownKeeps DEF OtherStep
<1> QED
  BY <1>1, <1>2, <1>4

-----------------------------------------------------------------------------
(* A list begins, or a search *)

LEMMA OpenStep ==
    ASSUME TypeOK, PlaceOK, ListOK, NEW v \in Views, NEW first \in BOOLEAN, Open(v, first) PROVE ListOK'
<1> USE Has
<1> DEFINE todo == Asks(shown, 1, first, NoReader.cursor)
<1>1. /\ reader'.pc = "asking" /\ reader'.view = v /\ reader'.first = first /\ reader'.page = 1
      /\ reader'.taking = shown /\ reader'.todo = todo
      /\ reader'.cursor = [a \in Accounts |-> Top] /\ reader'.pinned = {}
      /\ reader'.rest = [a \in Accounts |-> {}]
  BY DEF Open, NoReader
<1>2. /\ reader.pc = "idle" /\ UNCHANGED <<mail, shown, purge, page, twice, crowded, restored, flips>>
      /\ steady' = {m \in stored : InView(m, v) /\ slot[m].acct \in shown}
  BY DEF Open, NoReader
<1>3. crowded = {} /\ twice = {} /\ page = [m \in Msgs |-> 0]
  BY <1>2 DEF ListOK, FreshOK
<1>4. \A m \in steady' : m \in stored /\ m \in Msgs /\ slot[m].acct \in shown /\ slot[m].acct \in Accounts /\ InView(m, v)
                         /\ page[m] = 0 /\ After(m, Top)
  BY <1>2, <1>3, AfterTop, PlacedAt
<1>5. v \notin {"none", "search"} /\ Top # Over
  BY Sizes, Latest DEF Top, Over
<1>6. \A a \in shown : <<a, "rest">> \in todo /\ (first => <<a, "starred">> \in todo)
  BY <1>5 DEF Asks, NoReader
<1>7. todo \subseteq shown \X {"rest", "starred"} /\ \A a \in Accounts : <<a, "starred">> \in todo => first
  BY DEF Asks
<1> HIDE DEF todo
<1>8. \A m \in steady' : /\ m \in stored' /\ slot'[m].acct \in shown' \cap reader'.taking
                         /\ slot'[m].acct \in shown /\ slot'[m].acct \in Accounts
                         /\ page'[m] = 0
  BY <1>1, <1>2, <1>4 DEF mail
<1>9. \A m \in steady' : InView(m, v)' /\ (After(m, Top))'
  BY <1>2, <1>4 DEF mail, InView, After, Position
<1>11. ModeOK'
  BY <1>1, <1>5, <1>7 DEF ModeOK
<1>12. FreshOK' /\ OverOK' /\ SearchOK'
  BY <1>1, <1>5 DEF FreshOK, OverOK, SearchOK
<1>13. SteadyOK'
  BY <1>1, <1>5, <1>8, <1>9 DEF SteadyOK
<1>14. RestOK'
  BY <1>1 DEF RestOK
<1>15. AnswerOK'
  BY <1>1, <1>6, <1>8 DEF AnswerOK
<1>16. PinnedOK'
  BY <1>1, <1>2, <1>3, <1>6, <1>8 DEF PinnedOK, FirstPage, Pinned
<1>17. CursorOK'
  <2>1. \A m \in steady' : reader'.cursor[slot'[m].acct] = Top
    BY <1>1, <1>8
  <2>2. twice' = {}
    BY <1>2, <1>3
  <2> QED
    BY <1>8, <1>9, <2>1, <2>2 DEF CursorOK
<1>18. OrderOK'
  BY <1>1, <1>2, <1>3, <1>8 DEF OrderOK
<1> QED
  BY <1>11, <1>12, <1>13, <1>14, <1>15, <1>16, <1>17, <1>18 DEF ListOK

LEMMA SearchStep == ASSUME TypeOK, PlaceOK, ListOK, Search PROVE ListOK'
<1> USE Has, Sizes
<1>1. /\ reader'.pc = "seeking" /\ reader'.view = "search" /\ reader'.page = 0
      /\ reader'.todo = {} /\ reader'.pinned = {} /\ reader'.seek = counter[1] + 1
      /\ reader'.rest = [a \in Accounts |-> {}] /\ reader'.taking = {1}
  BY DEF Search, NoReader
<1>2. /\ reader.pc = "idle" /\ UNCHANGED <<mail, shown, purge, page, twice, crowded, restored, flips>>
      /\ steady' = Hits(1, 0, counter[1] + 1)
  BY DEF Search, NoReader
<1>3. crowded = {} /\ twice = {} /\ page = [m \in Msgs |-> 0]
  BY <1>2 DEF ListOK, FreshOK
<1>4. counter[1] \in Nat
  OBVIOUS
<1>5. \A m \in steady' : /\ m \in stored' /\ m \in Msgs /\ m \in Matching \ trashed' /\ slot'[m].acct = 1
                         /\ slot'[m].seq \in Nat /\ slot'[m].seq < counter[1] + 1
  BY <1>2, <1>4, PlacedAt DEF Hits, mail
<1>6. ~Listing'
  BY <1>1 DEF Listing
<1>7. ModeOK'
  BY <1>1, <1>4 DEF ModeOK
<1>8. FreshOK' /\ OverOK' /\ AnswerOK'
  BY <1>1 DEF FreshOK, OverOK, AnswerOK
<1>9. SteadyOK'
  BY <1>5, <1>6 DEF SteadyOK
<1>10. RestOK'
  BY <1>1 DEF RestOK
<1>11. PinnedOK' /\ CursorOK'
  BY <1>1, <1>6 DEF PinnedOK, CursorOK
<1>12. SearchOK'
  BY <1>1, <1>2, <1>3, <1>4, <1>5 DEF SearchOK
<1>13. OrderOK'
  BY <1>1, <1>2, <1>3, <1>6 DEF OrderOK
<1> QED
  BY <1>7, <1>8, <1>9, <1>10, <1>11, <1>12, <1>13 DEF ListOK

-----------------------------------------------------------------------------
(* The reader follows the link to the next page *)

LEMMA FollowStep == ASSUME TypeOK, PlaceOK, ListOK, Follow PROVE ListOK'
<1> USE Has
<1> DEFINE todo == Asks(shown, reader.page + 1, reader.first, reader.cursor)
<1>1. reader.pc = "page" /\ UNCHANGED <<mail, shown, purge, history, restored, flips>>
      /\ reader' = [reader EXCEPT !.pc = "asking", !.page = reader.page + 1, !.taking = shown, !.todo = todo]
  BY DEF Follow
<1>0. reader.page \in Nat \ {0} /\ reader.view \in Views
  BY <1>1 DEF ListOK, ModeOK, Reader
<1> HIDE DEF todo
<1>2. /\ reader'.pc = "asking" /\ reader'.page = reader.page + 1 /\ reader'.taking = shown
      /\ reader'.todo = todo /\ reader'.view = reader.view /\ reader'.first = reader.first
      /\ reader'.cursor = reader.cursor /\ reader'.pinned = reader.pinned
      /\ reader'.rest = reader.rest
  BY <1>1 DEF Reader
<1>3. todo \subseteq shown \X {"rest", "starred"} /\ (\A a \in Accounts : <<a, "starred">> \notin todo)
      /\ \A a \in shown : reader.cursor[a] # Over => <<a, "rest">> \in todo
  BY <1>0 DEF Asks, todo
<1>4. /\ slot' = slot /\ stored' = stored /\ starred' = starred /\ archived' = archived /\ trashed' = trashed
      /\ shown' = shown /\ page' = page /\ twice' = twice /\ steady' = steady /\ crowded' = crowded
  BY <1>1 DEF mail, history
<1>5. \A m \in steady : m \in stored /\ m \in Msgs /\ Placed(m) /\ slot[m].acct \in shown /\ slot[m].acct \in Accounts
  BY <1>0, PlacedAt DEF ListOK, SteadyOK, Listing
<1>6. /\ \A m \in steady : /\ (Pinned(m)' <=> Pinned(m))
                           /\ (After(m, reader.cursor[slot[m].acct])' <=> After(m, reader.cursor[slot[m].acct]))
                           /\ InView(m, reader.view)' <=> InView(m, reader.view)
      /\ \A m, n \in steady : Before(m, n)' <=> Before(m, n)
  BY <1>2, <1>4 DEF Pinned, After, Position, Before, InView
<1>7. "search" \notin Views /\ "none" \notin Views
  BY Sizes
<1>8. /\ ~FirstPage /\ ~FirstPage' /\ Listing /\ Listing'
  BY <1>0, <1>1, <1>2 DEF FirstPage, Listing
<1>11. ModeOK'
  BY <1>0, <1>2, <1>3, <1>7 DEF ModeOK
<1>12. FreshOK' /\ OverOK' /\ SearchOK'
  BY <1>0, <1>2, <1>7 DEF FreshOK, OverOK, SearchOK
<1>13. SteadyOK'
  BY <1>0, <1>2, <1>4, <1>5, <1>6, <1>7, <1>8 DEF SteadyOK, ListOK
<1>14. RestOK'
  <2>1. \A a \in Accounts : reader.rest[a] = {}
    BY <1>1 DEF ListOK, RestOK
  <2> QED
    BY <1>2, <2>1 DEF RestOK
<1>15. AnswerOK'
  <2>1. \A m \in steady : After(m, reader.cursor[slot[m].acct]) => <<slot[m].acct, "rest">> \in todo
    BY <1>3, <1>5, AfterTop
  <2> QED
    BY <1>2, <1>4, <1>6, <2>1 DEF AnswerOK
<1>16. PinnedOK'
  BY <1>2, <1>4, <1>6, <1>8 DEF PinnedOK, ListOK
<1>17. CursorOK'
  BY <1>2, <1>4, <1>6, <1>8 DEF CursorOK, ListOK
<1>18. OrderOK'
  <2>1. \A m \in Msgs : page[m] \in Nat /\ page[m] <= reader.page
    BY DEF ListOK, OrderOK
  <2>2. \A m \in Msgs : page'[m] <= reader'.page /\ page'[m] < reader'.page
    BY <1>0, <1>2, <1>4, <2>1
  <2>3. \A m, n \in steady :
            ~Pinned(m) /\ ~Pinned(n) /\ page[m] # 0 /\ (page[n] = 0 \/ page[m] < page[n]) => Before(m, n)
    BY <1>8 DEF ListOK, OrderOK
  <2> QED
    BY <1>4, <1>6, <2>2, <2>3 DEF OrderOK
<1> QED
  BY <1>11, <1>12, <1>13, <1>14, <1>15, <1>16, <1>17, <1>18 DEF ListOK

-----------------------------------------------------------------------------
(* An account answers *)

\* The reader and its history after one call of list.
LEMMA AskIs ==
    ASSUME TypeOK, NEW a \in Accounts, Ask(a)
    PROVE  /\ reader.pc = "asking" /\ UNCHANGED <<mail, shown, purge, page, twice, steady, restored, flips>>
           /\ reader'.pc = "asking" /\ reader'.view = reader.view /\ reader'.first = reader.first
           /\ reader'.page = reader.page /\ reader'.taking = reader.taking /\ reader'.cursor = reader.cursor
           /\ LET all == Candidates(a, "starred")
                  old == {m \in Candidates(a, "rest") : After(m, reader.cursor[a])}
              IN  \/ /\ <<a, "starred">> \in reader.todo /\ reader'.todo = reader.todo \ {<<a, "starred">>}
                     /\ reader'.pinned = reader.pinned \cup Newest(all, PageSize) /\ reader'.rest = reader.rest
                     /\ crowded' = crowded \cup (all \ Newest(all, PageSize))
                  \/ /\ <<a, "rest">> \in reader.todo /\ reader'.todo = reader.todo \ {<<a, "rest">>}
                     /\ reader'.pinned = reader.pinned /\ crowded' = crowded
                     /\ reader'.rest = [reader.rest EXCEPT ![a] = Newest(old, PageSize + 1)]
<1> USE Has
<1> DEFINE all == Candidates(a, "starred")
           old == {m \in Candidates(a, "rest") : After(m, reader.cursor[a])}
           pins == Newest(all, PageSize)
           got == Newest(old, PageSize + 1)
<1>1. /\ reader.pc = "asking" /\ UNCHANGED <<mail, shown, purge, page, twice, steady, restored, flips>>
      /\ \/ /\ <<a, "starred">> \in reader.todo
            /\ reader' = [reader EXCEPT !.todo = @ \ {<<a, "starred">>}, !.pinned = @ \cup pins]
            /\ crowded' = crowded \cup (all \ pins)
         \/ /\ <<a, "rest">> \in reader.todo /\ crowded' = crowded
            /\ reader' = [reader EXCEPT !.todo = @ \ {<<a, "rest">>}, !.rest[a] = got]
  BY DEF Ask
<1> HIDE DEF all, old, pins, got
<1>2. CASE /\ <<a, "starred">> \in reader.todo
           /\ reader' = [reader EXCEPT !.todo = @ \ {<<a, "starred">>}, !.pinned = @ \cup pins]
           /\ crowded' = crowded \cup (all \ pins)
  BY <1>1, <1>2 DEF Reader, all, old, pins, got
<1>3. CASE /\ <<a, "rest">> \in reader.todo /\ crowded' = crowded
           /\ reader' = [reader EXCEPT !.todo = @ \ {<<a, "rest">>}, !.rest[a] = got]
  BY <1>1, <1>3 DEF Reader, all, old, pins, got
<1> QED
  BY <1>1, <1>2, <1>3

LEMMA CandidatesAre ==
    ASSUME TypeOK, NEW a \in Accounts, NEW star
    PROVE  /\ AllPlaced(Candidates(a, star))
           /\ \A m \in Candidates(a, star) : slot[m].acct = a
                 /\ (star = "starred" => m \in starred)
                 /\ (star = "rest" /\ reader.first => m \notin starred)
BY Has DEF Candidates, AllPlaced

\* What an answer leaves as it was.
LEMMA AskKeeps ==
    ASSUME TypeOK, PlaceOK, ListOK, NEW a \in Accounts, Ask(a)
    PROVE  /\ slot' = slot /\ stored' = stored /\ starred' = starred /\ archived' = archived /\ trashed' = trashed
           /\ shown' = shown /\ page' = page /\ twice' = twice /\ steady' = steady
           /\ \A m \in steady : /\ m \in stored /\ m \in Msgs /\ Placed(m)
                                /\ slot[m].acct \in shown \cap reader.taking /\ slot[m].acct \in Accounts
                                /\ InView(m, reader.view)
                                /\ (Pinned(m)' <=> Pinned(m))
                                /\ (After(m, reader.cursor[slot[m].acct])' <=> After(m, reader.cursor[slot[m].acct]))
           /\ \A m, n : Before(m, n)' <=> Before(m, n)
           /\ \A n, b : Comes(n, b)' <=> Comes(n, b)
           /\ Listing /\ Listing' /\ FirstPage' = FirstPage /\ reader.view # "none" /\ reader.view # "search"
           /\ ModeOK' /\ FreshOK' /\ OverOK' /\ SearchOK' /\ SteadyOK' /\ CursorOK' /\ OrderOK'
<1> USE Has
<1>1. /\ reader.pc = "asking" /\ reader'.pc = "asking" /\ reader'.view = reader.view /\ reader'.first = reader.first
      /\ reader'.page = reader.page /\ reader'.taking = reader.taking /\ reader'.cursor = reader.cursor
      /\ reader'.todo \subseteq reader.todo
      /\ UNCHANGED <<mail, shown, purge, page, twice, steady, restored, flips>>
  BY AskIs
<1>2. /\ slot' = slot /\ stored' = stored /\ starred' = starred /\ archived' = archived /\ trashed' = trashed
      /\ shown' = shown /\ page' = page /\ twice' = twice /\ steady' = steady
  BY <1>1 DEF mail
<1>3. reader.view \in Views /\ Listing /\ Listing' /\ FirstPage' = FirstPage
      /\ reader.view # "none" /\ reader.view # "search"
  BY <1>1, Sizes DEF ListOK, ModeOK, Listing, FirstPage
<1>4. \A m \in steady : /\ m \in stored /\ m \in Msgs /\ Placed(m)
                        /\ slot[m].acct \in shown \cap reader.taking /\ slot[m].acct \in Accounts
                        /\ InView(m, reader.view)
  BY <1>3, PlacedAt DEF ListOK, SteadyOK
<1>5. /\ \A m \in steady : /\ (Pinned(m)' <=> Pinned(m))
                           /\ (After(m, reader.cursor[slot[m].acct])' <=> After(m, reader.cursor[slot[m].acct]))
                           /\ InView(m, reader.view)' <=> InView(m, reader.view)
      /\ \A m, n : Before(m, n)' <=> Before(m, n)
  BY <1>1, <1>2 DEF Pinned, After, Position, Before, InView
<1>11. \A n, b : Comes(n, b)' <=> Comes(n, b)
  BY <1>1, <1>2 DEF Comes, Placed, After, Position, Older
<1>6. ModeOK'
  BY <1>1, <1>3 DEF ListOK, ModeOK
<1>7. FreshOK' /\ OverOK' /\ SearchOK'
  BY <1>1, <1>3 DEF FreshOK, OverOK, SearchOK
<1>8. SteadyOK'
  BY <1>1, <1>2, <1>3, <1>4, <1>5 DEF SteadyOK
<1>9. CursorOK'
  BY <1>1, <1>2, <1>3, <1>5 DEF ListOK, CursorOK
<1>10. OrderOK'
  BY <1>1, <1>2, <1>3, <1>5 DEF ListOK, OrderOK
<1> QED
  BY <1>2, <1>3, <1>4, <1>5, <1>6, <1>7, <1>8, <1>9, <1>10, <1>11

LEMMA AskStep == ASSUME TypeOK, PlaceOK, ListOK, NEW a \in Accounts, Ask(a) PROVE ListOK'
<1> USE Has
<1>0. reader.pc = "asking" /\ reader'.pc = "asking" /\ reader'.cursor = reader.cursor
  BY AskIs
<1>1. PageSize \in Nat /\ PageSize + 1 \in Nat
  BY Sizes
<1> DEFINE all == Candidates(a, "starred")
           old == {m \in Candidates(a, "rest") : After(m, reader.cursor[a])}
           pins == Newest(all, PageSize)
           got == Newest(old, PageSize + 1)
<1>2. CASE /\ <<a, "starred">> \in reader.todo /\ reader'.todo = reader.todo \ {<<a, "starred">>}
           /\ reader'.pinned = reader.pinned \cup pins /\ reader'.rest = reader.rest
           /\ crowded' = crowded \cup (all \ pins)
  <2>1. reader.first /\ reader.page = 1 /\ FirstPage /\ FirstPage'
    BY <1>0, <1>2, AskKeeps DEF ListOK, ModeOK, FirstPage
  <2>2. pins \subseteq all /\ all \subseteq starred
    BY Newer, CandidatesAre
  <2>3. \A m \in steady : Pinned(m) /\ slot[m].acct = a => m \in all
    BY AskKeeps DEF Candidates, Pinned
  <2> HIDE DEF all, pins
  <2>4. RestOK'
    <3>1. \A b \in Accounts : \A n \in reader.rest[b] : Comes(n, b)'
      BY AskKeeps DEF ListOK, RestOK
    <3>2. \A b \in Accounts : <<b, "rest">> \in reader.todo => reader.rest[b] = {}
      BY DEF ListOK, RestOK
    <3> QED
      BY <1>0, <1>2, <3>1, <3>2 DEF RestOK
  <2>5. AnswerOK'
    <3>1. \A m \in steady :
            ~Pinned(m) /\ After(m, reader.cursor[slot[m].acct]) =>
                \/ <<slot[m].acct, "rest">> \in reader.todo
                \/ m \in reader.rest[slot[m].acct]
                \/ /\ Cardinality(reader.rest[slot[m].acct]) > PageSize
                   /\ \A n \in reader.rest[slot[m].acct] : Before(n, m)
      BY <1>0 DEF ListOK, AnswerOK
    <3> QED
      BY <1>2, <3>1, AskKeeps DEF AnswerOK
  <2>6. PinnedOK'
    <3>1. \A m \in steady :
            /\ ~Pinned(m) => m \notin reader.pinned
            /\ Pinned(m) =>
              /\ m \notin twice
              /\ \A b \in Accounts : m \notin reader.rest[b]
              /\ page[m] = 0
              /\ \/ <<slot[m].acct, "starred">> \in reader.todo
                 \/ m \in reader.pinned \cup crowded
      BY <2>1, AskKeeps DEF ListOK, PinnedOK
    <3>2. \A m \in steady : ~Pinned(m) => m \notin pins
      BY <2>1, <2>2 DEF Pinned
    <3>3. \A m \in steady : Pinned(m) => \/ <<slot[m].acct, "starred">> \in reader'.todo
                                         \/ m \in reader'.pinned \cup crowded'
      BY <1>2, <2>3, <3>1
    <3> QED
      BY <1>2, <2>1, <3>1, <3>2, <3>3, AskKeeps DEF PinnedOK
  <2> QED
    BY <2>4, <2>5, <2>6, AskKeeps DEF ListOK
<1>3. CASE /\ <<a, "rest">> \in reader.todo /\ reader'.todo = reader.todo \ {<<a, "rest">>}
           /\ reader'.pinned = reader.pinned /\ crowded' = crowded
           /\ reader'.rest = [reader.rest EXCEPT ![a] = got]
  <2>1. AllPlaced(old)
    BY CandidatesAre DEF AllPlaced
  <2>2. /\ got \subseteq old
        /\ \A m \in got, n \in old \ got : Before(m, n)
        /\ got # old => Cardinality(got) >= PageSize + 1
        /\ Cardinality(got) \in Nat
    BY <1>1, <2>1, NewestOnes
  <2>3. \A m \in old : Comes(m, a) /\ (reader.first => m \notin starred)
    BY CandidatesAre DEF Comes, AllPlaced
  <2>4. \A m \in steady : ~Pinned(m) /\ After(m, reader.cursor[slot[m].acct]) /\ slot[m].acct = a => m \in old
    BY AskKeeps DEF Candidates, Pinned
  <2> HIDE DEF old, got
  <2>5. reader'.rest[a] = got /\ \A b \in Accounts \ {a} : reader'.rest[b] = reader.rest[b]
    BY <1>3 DEF Reader
  <2>6. RestOK'
    <3>1. \A b \in Accounts : \A n \in reader'.rest[b] : Comes(n, b)
      BY <2>2, <2>3, <2>5 DEF ListOK, RestOK
    <3>2. \A b \in Accounts : \A n \in reader'.rest[b] : Comes(n, b)'
      BY <3>1, AskKeeps
    <3>3. \A b \in Accounts : <<b, "rest">> \in reader'.todo => reader'.rest[b] = {}
      BY <1>3, <2>5 DEF ListOK, RestOK
    <3> QED
      BY <1>0, <3>2, <3>3 DEF RestOK
  <2>7. AnswerOK'
    <3>1. \A m \in steady :
            ~Pinned(m) /\ After(m, reader.cursor[slot[m].acct]) =>
                \/ <<slot[m].acct, "rest">> \in reader.todo
                \/ m \in reader.rest[slot[m].acct]
                \/ /\ Cardinality(reader.rest[slot[m].acct]) > PageSize
                   /\ \A n \in reader.rest[slot[m].acct] : Before(n, m)
      BY <1>0 DEF ListOK, AnswerOK
    <3>2. \A m \in steady :
            ~Pinned(m) /\ After(m, reader.cursor[slot[m].acct]) =>
                \/ <<slot[m].acct, "rest">> \in reader'.todo
                \/ m \in reader'.rest[slot[m].acct]
                \/ /\ Cardinality(reader'.rest[slot[m].acct]) > PageSize
                   /\ \A n \in reader'.rest[slot[m].acct] : Before(n, m)
      <4> SUFFICES ASSUME NEW m \in steady, ~Pinned(m), After(m, reader.cursor[slot[m].acct])
                   PROVE  \/ <<slot[m].acct, "rest">> \in reader'.todo
                          \/ m \in reader'.rest[slot[m].acct]
                          \/ /\ Cardinality(reader'.rest[slot[m].acct]) > PageSize
                             /\ \A n \in reader'.rest[slot[m].acct] : Before(n, m)
        OBVIOUS
      <4>1. slot[m].acct \in Accounts
        BY AskKeeps
      <4>2. CASE slot[m].acct # a
        BY <1>3, <2>5, <3>1, <4>1, <4>2
      <4>3. CASE slot[m].acct = a
        <5>1. m \in old
          BY <2>4, <4>3
        <5>2. m \in got \/ (Cardinality(got) > PageSize /\ \A n \in got : Before(n, m))
          BY <1>1, <2>2, <5>1
        <5> QED
          BY <2>5, <4>3, <5>2
      <4> QED
        BY <4>2, <4>3
    <3> QED
      BY <3>2, AskKeeps DEF AnswerOK
  <2>8. PinnedOK'
    <3>1. /\ ~FirstPage => reader.pinned = {}
          /\ \A m \in steady :
              /\ ~Pinned(m) => m \notin reader.pinned
              /\ Pinned(m) =>
                /\ m \notin twice
                /\ \A b \in Accounts : m \notin reader.rest[b]
                /\ FirstPage => /\ page[m] = 0
                                /\ \/ <<slot[m].acct, "starred">> \in reader.todo
                                   \/ m \in reader.pinned \cup crowded
                /\ ~FirstPage => page[m] = 1 \/ (page[m] = 0 /\ m \in crowded)
      BY AskKeeps DEF ListOK, PinnedOK
    <3>2. \A m \in steady : Pinned(m) => \A b \in Accounts : m \notin reader'.rest[b]
      BY <2>2, <2>3, <2>5, <3>1 DEF Pinned
    <3>3. \A m \in steady : <<slot[m].acct, "starred">> \in reader.todo => <<slot[m].acct, "starred">> \in reader'.todo
      BY <1>3
    <3> QED
      BY <1>3, <3>1, <3>2, <3>3, AskKeeps DEF PinnedOK
  <2> QED
    BY <2>6, <2>7, <2>8, AskKeeps DEF ListOK
<1> QED
  BY <1>2, <1>3, AskIs

-----------------------------------------------------------------------------
(* The page is drawn *)

\* The reader and its history after a page is drawn.
LEMMA DrawnIs ==
    ASSUME TypeOK, Draw
    PROVE  /\ reader.pc = "asking" /\ reader.todo = {} /\ reader.page \in Nat
           /\ reader'.pc \in {"page", "over"} /\ reader'.view = reader.view /\ reader'.first = reader.first
           /\ reader'.pc = "over" => \A a \in reader.taking : Next1[a] = Over
           /\ reader'.page = reader.page /\ reader'.taking = reader.taking /\ reader'.todo = {}
           /\ reader'.cursor = Next1 /\ reader'.pinned = {} /\ reader'.rest = [a \in Accounts |-> {}]
           /\ slot' = slot /\ stored' = stored /\ starred' = starred /\ archived' = archived /\ trashed' = trashed
           /\ shown' = shown /\ steady' = steady /\ crowded' = crowded
           /\ \A m \in Msgs : page'[m] = IF m \in Part \cup reader.pinned THEN reader.page ELSE page[m]
           /\ twice' = twice \cup {m \in Part \cup reader.pinned : page[m] # 0}
<1> USE Has
<1> DEFINE pc == IF \E a \in reader.taking : Next1[a] # Over THEN "page" ELSE "over"
<1>1. /\ reader.pc = "asking" /\ reader.todo = {}
      /\ reader' = [reader EXCEPT !.pc = pc, !.cursor = Next1, !.pinned = {}, !.rest = NoReader.rest]
      /\ Show(Part \cup reader.pinned, reader.page)
      /\ UNCHANGED <<mail, shown, purge, steady, crowded, restored, flips>>
  BY DrawIs
<1>2. NoReader.rest = [a \in Accounts |-> {}] /\ reader.page \in Nat
  BY DEF NoReader, Reader
<1>3. pc \in {"page", "over"} /\ (pc = "over" => \A a \in reader.taking : Next1[a] = Over)
  OBVIOUS
<1> HIDE DEF pc
<1>4. /\ reader'.pc = pc /\ reader'.view = reader.view /\ reader'.first = reader.first
      /\ reader'.page = reader.page /\ reader'.taking = reader.taking /\ reader'.todo = {}
      /\ reader'.cursor = Next1 /\ reader'.pinned = {} /\ reader'.rest = [a \in Accounts |-> {}]
  BY <1>1, <1>2 DEF Reader
<1>5. /\ slot' = slot /\ stored' = stored /\ starred' = starred /\ archived' = archived /\ trashed' = trashed
      /\ shown' = shown /\ steady' = steady /\ crowded' = crowded
  BY <1>1 DEF mail
<1>6. /\ \A m \in Msgs : page'[m] = IF m \in Part \cup reader.pinned THEN reader.page ELSE page[m]
      /\ twice' = twice \cup {m \in Part \cup reader.pinned : page[m] # 0}
  BY <1>1 DEF Show
<1> QED
  BY <1>1, <1>2, <1>3, <1>4, <1>5, <1>6

\* What is in view when a page is drawn.
LEMMA ThenSteady ==
    ASSUME TypeOK, PlaceOK, ListOK, Draw
    PROVE  /\ reader.view \in Views /\ Listing /\ reader.page # 0 /\ "search" \notin Views /\ "none" \notin Views
           /\ \A m \in steady : /\ m \in stored /\ m \in Msgs /\ Placed(m)
                                /\ slot[m].acct \in shown \cap reader.taking /\ slot[m].acct \in Accounts
                                /\ InView(m, reader.view)
           /\ RestOK
BY DrawnIs, Sizes, Has, PlacedAt DEF ListOK, ModeOK, SteadyOK, Listing

\* A message the accounts gave is of the account that gave it.
LEMMA InPart ==
    ASSUME TypeOK, PlaceOK, RestOK, NEW m \in Part
    PROVE  m \in reader.rest[slot[m].acct] /\ Comes(m, slot[m].acct) /\ m \in Msgs
<1>1. m \in Given
  BY PartIs
<1>2. PICK a \in reader.taking : m \in reader.rest[a]
  BY <1>1 DEF Given
<1>3. a \in Accounts /\ m \in Msgs
  BY <1>2, Has DEF Reader
<1> QED
  BY <1>2, <1>3 DEF RestOK, Comes

\* What a page leaves out comes after what it shows.
LEMMA PartFirst ==
    ASSUME TypeOK, PlaceOK, ListOK, Draw, NEW n \in steady, ~Pinned(n), page[n] = 0, n \notin Part,
           NEW m \in Part
    PROVE  Before(m, n)
<1> DEFINE a == slot[n].acct
<1>1. After(n, reader.cursor[a]) /\ a \in reader.taking /\ a \in Accounts /\ Placed(n) /\ n \in Msgs
  BY ThenSteady DEF ListOK, CursorOK
<1>2. \/ n \in reader.rest[a]
      \/ Cardinality(reader.rest[a]) > PageSize /\ \A x \in reader.rest[a] : Before(x, n)
  BY <1>1, DrawnIs DEF ListOK, AnswerOK
<1>3. CASE n \in reader.rest[a]
  <2>1. n \in Given \ Part
    BY <1>1, <1>3 DEF Given
  <2> QED
    BY <2>1, ThenSteady, PartIs
<1>4. CASE Cardinality(reader.rest[a]) > PageSize /\ \A x \in reader.rest[a] : Before(x, n)
  <2>1. PICK x \in reader.rest[a] : x \notin Part
    <3> SUFFICES ASSUME reader.rest[a] \subseteq Part PROVE FALSE
      OBVIOUS
    <3>1. Cardinality(reader.rest[a]) \in Nat /\ Cardinality(reader.rest[a]) <= Cardinality(Part)
      BY ThenSteady, PartIs, FS_Subset, FS_CardinalityType
    <3> QED
      BY <1>4, <3>1, ThenSteady, PartIs, Sizes
  <2>2. x \in Given \ Part /\ x \in Msgs /\ Placed(x)
    BY <1>1, <2>1, ThenSteady, PartIs DEF Given, AllPlaced
  <2>3. Before(m, x) /\ m \in Msgs /\ Placed(m)
    BY <2>2, ThenSteady, PartIs, InPart DEF Comes
  <2> QED
    BY <1>1, <1>4, <2>1, <2>2, <2>3, BeforeOrder
<1> QED
  BY <1>2, <1>3, <1>4

\* A message has been shown when the next page of its account begins after it.
LEMMA DrawnDown ==
    ASSUME TypeOK, PlaceOK, ListOK, Draw, NEW m \in steady, ~Pinned(m)
    PROVE  /\ page[m] # 0 \/ m \in Part <=> ~After(m, Next1[slot[m].acct])
           /\ page[m] # 0 => m \notin Part
<1> DEFINE a == slot[m].acct
           c == reader.cursor[a]
<1>1. a \in reader.taking /\ a \in Accounts /\ Placed(m) /\ m \in Msgs /\ RestOK /\ c \in Nat \X Nat
  BY ThenSteady, Has DEF Reader
<1>2. page[m] # 0 <=> ~After(m, c)
  BY ThenSteady DEF ListOK, CursorOK
<1>3. page[m] # 0 => m \notin Part
  BY <1>1, <1>2, InPart DEF Comes
<1>4. Next1[a] = NextCursor(a)
  BY <1>1 DEF Next1
<1>5. ~After(m, Over)
  BY <1>1, AfterTop
<1>6. m \in Part => m \in reader.rest[a]
  BY <1>1, InPart
<1>7. page[m] = 0 /\ m \notin Part => reader.rest[a] # Part \cap reader.rest[a] \/ Cardinality(reader.rest[a]) > PageSize
  BY <1>1, <1>2, DrawnIs DEF ListOK, AnswerOK
<1>8. CASE c = Over /\ NextCursor(a) = Over
  BY <1>2, <1>3, <1>4, <1>5, <1>8
<1>9. CASE Part \cap reader.rest[a] = reader.rest[a] /\ Cardinality(reader.rest[a]) <= PageSize /\ NextCursor(a) = Over
  <2>1. ~(Cardinality(reader.rest[a]) > PageSize)
    <3>1. Cardinality(reader.rest[a]) \in Nat
      BY <1>1, <1>9, PartIs, FS_Subset, FS_CardinalityType
    <3> QED
      BY <1>9, <3>1, Sizes
  <2> QED
    BY <1>3, <1>4, <1>5, <1>7, <1>9, <2>1
<1>10. CASE Part \cap reader.rest[a] = {} /\ NextCursor(a) = c
  BY <1>2, <1>4, <1>6, <1>10
<1>11. CASE \E l \in Part \cap reader.rest[a] :
                      /\ NextCursor(a) = Position(l)
                      /\ \A n \in Part \cap reader.rest[a] : n = l \/ Before(n, l)
  <2>1. PICK l \in Part \cap reader.rest[a] :
                      /\ NextCursor(a) = Position(l)
                      /\ \A n \in Part \cap reader.rest[a] : n = l \/ Before(n, l)
    BY <1>11
  <2>2. Comes(l, a) /\ l \in Msgs
    BY <1>1, InPart DEF RestOK
  <2>3. Placed(l) /\ slot[l].acct = a /\ After(l, c)
    BY <2>2 DEF Comes
  <2>4. /\ Before(l, m) <=> After(m, Position(l))
        /\ ~After(m, c) => ~After(m, Position(l))
        /\ ~After(l, Position(l))
    BY <1>1, <2>2, <2>3, SameAccount
  <2>5. m \in Part => ~Before(l, m)
    BY <1>1, <1>6, <2>1, <2>2, <2>3, BeforeOrder
  <2>6. page[m] = 0 /\ m \notin Part => Before(l, m)
    BY PartFirst
  <2> QED
    BY <1>2, <1>3, <1>4, <2>1, <2>4, <2>5, <2>6
<1> QED
  BY <1>1, <1>3, <1>8, <1>9, <1>10, <1>11, NextIs

LEMMA DrawnSteady ==
    ASSUME TypeOK, PlaceOK, ListOK, Draw
    PROVE  /\ ModeOK' /\ FreshOK' /\ SearchOK' /\ SteadyOK' /\ RestOK' /\ AnswerOK' /\ OverOK'
           /\ Listing' /\ ~FirstPage'
           /\ \A m \in steady : Pinned(m)' <=> Pinned(m)
           /\ \A m, n : Before(m, n)' <=> Before(m, n)
           /\ \A m \in steady : (After(m, reader.cursor[slot[m].acct]))' <=> After(m, Next1[slot[m].acct])
<1>1. /\ reader'.pc \in {"page", "over"} /\ reader'.view = reader.view /\ reader'.first = reader.first
      /\ reader'.pc = "over" => \A a \in reader.taking : Next1[a] = Over
      /\ reader'.page = reader.page /\ reader'.taking = reader.taking /\ reader'.todo = {}
      /\ reader'.cursor = Next1 /\ reader'.rest = [a \in Accounts |-> {}]
      /\ slot' = slot /\ stored' = stored /\ starred' = starred /\ archived' = archived /\ trashed' = trashed
      /\ shown' = shown /\ steady' = steady
  BY DrawnIs
<1>2. /\ reader.view \in Views /\ reader.page # 0 /\ "search" \notin Views /\ "none" \notin Views
      /\ \A m \in steady : /\ m \in stored
                           /\ slot[m].acct \in shown \cap reader.taking
                           /\ InView(m, reader.view)
  BY ThenSteady
<1>3. /\ \A m \in steady : /\ (Pinned(m)' <=> Pinned(m))
                           /\ InView(m, reader.view)' <=> InView(m, reader.view)
      /\ \A m, n : Before(m, n)' <=> Before(m, n)
      /\ \A m \in steady : (After(m, reader.cursor[slot[m].acct]))' <=> After(m, Next1[slot[m].acct])
  BY <1>1 DEF Pinned, After, Position, Before, InView, Older
<1>4. ModeOK' /\ FreshOK' /\ SearchOK' /\ OverOK' /\ AnswerOK' /\ RestOK'
  BY <1>1, <1>2 DEF ModeOK, FreshOK, SearchOK, OverOK, AnswerOK, RestOK
<1>5. SteadyOK'
  BY <1>1, <1>2, <1>3 DEF SteadyOK
<1>6. Listing' /\ ~FirstPage'
  BY <1>1, <1>2 DEF Listing, FirstPage
<1> QED
  BY <1>3, <1>4, <1>5, <1>6

LEMMA DrawnPinned == ASSUME TypeOK, PlaceOK, ListOK, Draw PROVE PinnedOK'
<1> USE Has
<1>1. /\ reader'.pinned = {} /\ reader'.rest = [a \in Accounts |-> {}] /\ steady' = steady /\ crowded' = crowded
      /\ \A m \in Msgs : page'[m] = IF m \in Part \cup reader.pinned THEN reader.page ELSE page[m]
      /\ twice' = twice \cup {m \in Part \cup reader.pinned : page[m] # 0}
      /\ reader.todo = {} /\ reader.page \in Nat
  BY DrawnIs
<1>2. \A m \in steady : m \in Msgs /\ slot[m].acct \in Accounts
  BY ThenSteady
<1>3. /\ ~FirstPage => reader.pinned = {}
      /\ \A m \in steady :
           Pinned(m) =>
                /\ m \notin twice
                /\ \A b \in Accounts : m \notin reader.rest[b]
                /\ FirstPage => /\ page[m] = 0
                                /\ \/ <<slot[m].acct, "starred">> \in reader.todo
                                   \/ m \in reader.pinned \cup crowded
                /\ ~FirstPage => page[m] = 1 \/ (page[m] = 0 /\ m \in crowded)
  BY ThenSteady DEF ListOK, PinnedOK
<1>4. \A m \in Part : m \in reader.rest[slot[m].acct]
  BY InPart, ThenSteady
<1>5. FirstPage => reader.page = 1
  BY DEF FirstPage
<1>6. ASSUME NEW m \in steady, Pinned(m)
      PROVE  m \notin twice' /\ (page'[m] = 1 \/ (page'[m] = 0 /\ m \in crowded))
  <2>1. m \notin Part
    BY <1>2, <1>3, <1>4, <1>6
  <2>2. CASE FirstPage
    BY <1>1, <1>2, <1>3, <1>5, <1>6, <2>1, <2>2
  <2>3. CASE ~FirstPage
    BY <1>1, <1>2, <1>3, <1>6, <2>1, <2>3
  <2> QED
    BY <2>2, <2>3
<1>7. \A m \in steady' : Pinned(m)' => m \notin twice' /\ (page'[m] = 1 \/ (page'[m] = 0 /\ m \in crowded'))
  BY <1>1, <1>6, DrawnSteady
<1>8. \A b \in Accounts : reader'.rest[b] = {}
  BY <1>1
<1> QED
  BY <1>1, <1>7, <1>8, DrawnSteady DEF PinnedOK

LEMMA DrawnPages ==
    ASSUME TypeOK, PlaceOK, ListOK, Draw
    PROVE  \A m \in steady : ~Pinned(m) =>
               /\ m \in Msgs /\ m \notin twice' /\ page[m] \in Nat /\ page[m] < reader.page
               /\ page'[m] = IF m \in Part THEN reader.page ELSE page[m]
               /\ page[m] # 0 => m \notin Part
               /\ page'[m] # 0 <=> ~After(m, Next1[slot[m].acct])
<1> SUFFICES ASSUME NEW m \in steady, ~Pinned(m)
             PROVE  /\ m \in Msgs /\ m \notin twice' /\ page[m] \in Nat /\ page[m] < reader.page
                    /\ page'[m] = IF m \in Part THEN reader.page ELSE page[m]
                    /\ page[m] # 0 => m \notin Part
                    /\ page'[m] # 0 <=> ~After(m, Next1[slot[m].acct])
  OBVIOUS
<1>1. m \in Msgs /\ Listing /\ reader.page # 0 /\ page[m] \in Nat
  BY ThenSteady, Has
<1>2. page[m] < reader.page
  BY <1>1, DrawnIs DEF ListOK, OrderOK
<1>3. m \notin reader.pinned /\ m \notin twice
  BY <1>1 DEF ListOK, PinnedOK, CursorOK
<1>4. page'[m] = IF m \in Part THEN reader.page ELSE page[m]
  BY <1>1, <1>3, DrawnIs
<1>5. /\ page[m] # 0 \/ m \in Part <=> ~After(m, Next1[slot[m].acct])
      /\ page[m] # 0 => m \notin Part
  BY DrawnDown
<1>6. m \notin twice'
  BY <1>3, <1>5, DrawnIs
<1> QED
  BY <1>1, <1>2, <1>4, <1>5, <1>6

LEMMA DrawStep == ASSUME TypeOK, PlaceOK, ListOK, Draw PROVE ListOK'
<1>1. /\ reader'.page = reader.page /\ steady' = steady /\ reader'.pc # "asking" /\ reader.page \in Nat
      /\ \A m \in Msgs : page'[m] = IF m \in Part \cup reader.pinned THEN reader.page ELSE page[m]
  BY DrawnIs
<1>2. CursorOK'
  <2>1. \A m \in steady' : ~Pinned(m)' =>
            m \notin twice' /\ (page'[m] # 0 <=> ~(After(m, reader.cursor[slot[m].acct]))')
    BY <1>1, DrawnPages, DrawnSteady
  <2> QED
    BY <2>1 DEF CursorOK, After, Position, Older
<1>3. \A m \in Msgs : page[m] \in Nat /\ page[m] <= reader.page
  BY Has DEF ListOK, OrderOK
<1>4. \A m \in Msgs : page'[m] <= reader'.page
  BY <1>1, <1>3
<1>5. ASSUME NEW m \in steady, NEW n \in steady, ~Pinned(m), ~Pinned(n), page'[m] # 0,
             page'[n] = 0 \/ page'[m] < page'[n]
      PROVE  Before(m, n)
  <2>1. /\ page[m] # 0 => m \notin Part /\ page'[m] = page[m]
        /\ page[n] # 0 => n \notin Part /\ page'[n] = page[n]
        /\ m \in Part => page'[m] = reader.page
        /\ n \in Part => page'[n] = reader.page
        /\ m \notin Part => page'[m] = page[m]
        /\ page[m] \in Nat /\ page[n] \in Nat /\ page[m] < reader.page /\ page[n] < reader.page
    BY <1>5, DrawnPages
  <2>2. \A x, y \in steady :
            ~Pinned(x) /\ ~Pinned(y) /\ page[x] # 0 /\ (page[y] = 0 \/ page[x] < page[y]) => Before(x, y)
    BY ThenSteady DEF ListOK, OrderOK
  <2>3. CASE page[m] # 0
    BY <1>5, <2>1, <2>2, <2>3
  <2>4. CASE page[m] = 0
    <3>1. m \in Part /\ page[n] = 0 /\ n \notin Part
      BY <1>1, <1>5, <2>1, <2>4
    <3> QED
      BY <1>5, <3>1, PartFirst
  <2> QED
    BY <2>3, <2>4
<1>6. OrderOK'
  BY <1>1, <1>4, <1>5, DrawnSteady DEF OrderOK
<1> QED
  BY <1>2, <1>6, DrawnSteady, DrawnPinned DEF ListOK

-----------------------------------------------------------------------------
(* A call of the search *)

LEMMA SearchOnStep == ASSUME TypeOK, PlaceOK, ListOK, SearchOn PROVE ListOK'
<1> USE Has
<1>1. /\ reader.seek \in Nat \ {0} /\ reader.pc = "seeking" /\ reader.view = "search"
      /\ UNCHANGED <<mail, shown, purge, steady, crowded, restored, flips>>
  BY SearchOnIs DEF ListOK
<1>2. PICK found, to : Called(found, to)
  BY SearchOnIs DEF ListOK
<1>3. /\ to \in Nat /\ to < reader.seek
      /\ \A m \in Hits(1, 0, reader.seek) : m \in found <=> slot[m].seq >= to
      /\ found \subseteq Hits(1, 0, reader.seek)
      /\ \A m \in Msgs : page'[m] = IF m \in found THEN reader.page + 1 ELSE page[m]
      /\ twice' = twice \cup {m \in found : page[m] # 0}
  BY <1>2 DEF Called, Show
<1>4. /\ reader'.pc = (IF to = 0 THEN "over" ELSE "seeking") /\ reader'.seek = to
      /\ reader'.page = reader.page + 1 /\ reader'.view = reader.view /\ reader'.first = reader.first
      /\ reader'.taking = reader.taking /\ reader'.todo = reader.todo /\ reader'.cursor = reader.cursor
      /\ reader'.pinned = reader.pinned /\ reader'.rest = reader.rest /\ reader.page \in Nat
  BY <1>2 DEF Called, Reader
<1>5. "search" \notin Views /\ ~Listing /\ ~Listing' /\ reader'.view = "search" /\ ~FirstPage
  BY <1>1, <1>4, Sizes DEF Listing, FirstPage
<1>6. /\ slot' = slot /\ stored' = stored /\ trashed' = trashed /\ steady' = steady /\ crowded' = crowded
  BY <1>1 DEF mail
<1>7. \A m \in steady : /\ m \in stored /\ m \in Msgs /\ m \in Matching \ trashed /\ slot[m].acct = 1
                        /\ slot[m].seq \in Nat /\ page[m] \in Nat
                        /\ m \notin twice /\ (page[m] # 0 <=> slot[m].seq >= reader.seek)
  BY <1>1, PlacedAt DEF ListOK, SteadyOK, SearchOK
<1>8. \A m \in steady : m \in Hits(1, 0, reader.seek) <=> slot[m].seq < reader.seek
  BY <1>1, <1>7 DEF Hits
<1>9. \A m \in Hits(1, 0, reader.seek) : ~(slot[m].seq >= reader.seek)
  <2> SUFFICES ASSUME NEW m \in Hits(1, 0, reader.seek) PROVE ~(slot[m].seq >= reader.seek)
    OBVIOUS
  <2>1. m \in stored /\ slot[m].seq \in 0..(reader.seek - 1)
    BY DEF Hits
  <2> QED
    BY <1>1, <2>1
<1>10. ModeOK'
  BY <1>1, <1>3, <1>4, <1>5 DEF ListOK, ModeOK
<1>11. FreshOK' /\ OverOK' /\ AnswerOK'
  BY <1>4, <1>5 DEF FreshOK, OverOK, AnswerOK
<1>12. SteadyOK'
  BY <1>5, <1>6, <1>7 DEF SteadyOK
<1>13. RestOK'
  <2>1. \A a \in Accounts : reader.rest[a] = {}
    BY <1>1 DEF ListOK, RestOK
  <2> QED
    BY <1>4, <2>1 DEF RestOK
<1>14. PinnedOK'
  BY <1>4, <1>5 DEF ListOK, PinnedOK
<1>15. CursorOK'
  BY <1>5 DEF CursorOK
<1>16. OrderOK'
  <2>1. \A m \in Msgs : page[m] \in Nat /\ page[m] <= reader.page
    BY DEF ListOK, OrderOK
  <2>2. \A m \in Msgs : page'[m] <= reader'.page
    BY <1>3, <1>4, <2>1
  <2> QED
    BY <1>4, <1>5, <2>2 DEF OrderOK
<1>17. SearchOK'
  <2>1. ASSUME NEW m \in steady PROVE m \notin twice' /\ (page'[m] # 0 <=> slot[m].seq >= to)
    BY <1>1, <1>3, <1>4, <1>7, <1>8, <2>1
  <2>2. reader'.pc = "over" => reader'.seek = 0
    BY <1>4
  <2> QED
    BY <1>4, <1>6, <2>1, <2>2 DEF SearchOK
<1> QED
  BY <1>10, <1>11, <1>12, <1>13, <1>14, <1>15, <1>16, <1>17 DEF ListOK

-----------------------------------------------------------------------------
(* The theorems *)

LEMMA InitHolds == ASSUME Init PROVE IInv
<1> USE Sizes DEF Init
<1>1. reader = NoReader /\ reader \in Reader
  BY Start
<1>2. slot \in [Msgs -> [acct : Accounts \cup {0}, at : Times \cup {0}, seq : Nat]]
  BY DEF Nowhere
<1>3. \A m \in Msgs : slot[m] = Nowhere
  OBVIOUS
<1>4. TypeOK
  BY <1>1, <1>2, <1>3 DEF TypeOK, Reader, NoPurge
<1>5. PlaceOK
  BY <1>3 DEF PlaceOK, Placed
<1>6. BodyOK
  BY DEF BodyOK, NoPurge
<1>7. /\ reader.pc = "idle" /\ reader.view = "none" /\ reader.todo = {} /\ reader.pinned = {} /\ reader.page = 0
      /\ \A a \in Accounts : reader.rest[a] = {}
  BY <1>1 DEF NoReader
<1>8. \A m \in Msgs : page[m] = 0
  OBVIOUS
<1>9. ListOK
  BY <1>1, <1>7, <1>8 DEF ListOK, ModeOK, FreshOK, SteadyOK, RestOK, AnswerOK, PinnedOK, CursorOK, OverOK,
        OrderOK, SearchOK, FirstPage, Listing
<1> QED
  BY <1>4, <1>5, <1>6, <1>9 DEF IInv

LEMMA ReaderStep ==
    ASSUME IInv, UNCHANGED <<mail, purge, restored>>, TypeOK', ListOK' PROVE IInv'
BY ReaderPlaced DEF IInv

LEMMA StepHolds == ASSUME IInv, [Next]_vars PROVE IInv'
<1> USE DEF IInv
<1>1. CASE OtherStep
  BY <1>1, OthersStep
<1>2. CASE \E a \in Accounts : Ask(a)
  <2>1. PICK a \in Accounts : Ask(a)
    BY <1>2
  <2>2. TypeOK' /\ ListOK'
    BY <2>1, AskTyped, AskStep
  <2>3. UNCHANGED <<mail, purge, restored>>
    BY <2>1 DEF Ask
  <2> QED
    BY <2>2, <2>3, ReaderPlaced
<1>3. CASE \E v \in Views, first \in BOOLEAN : Open(v, first)
  <2>1. PICK v \in Views, first \in BOOLEAN : Open(v, first)
    BY <1>3
  <2>2. TypeOK' /\ ListOK'
    BY <2>1, OpenTyped, OpenStep
  <2>3. UNCHANGED <<mail, purge, restored>>
    BY <2>1 DEF Open
  <2> QED
    BY <2>2, <2>3, ReaderPlaced
<1>4. CASE Draw
  BY <1>4, DrawTyped, DrawStep, ReaderStep DEF Draw, ListOK
<1>5. CASE Follow
  BY <1>5, FollowTyped, FollowStep, ReaderStep DEF Follow
<1>6. CASE Search
  BY <1>6, SearchTyped, SearchStep, ReaderStep DEF Search
<1>7. CASE SearchOn
  BY <1>7, SearchOnTyped, SearchOnStep, ReaderStep DEF SearchOn, ListOK
<1>8. CASE UNCHANGED vars
  <2>1. /\ UNCHANGED <<slot, stored, starred, archived, trashed, bodies, counter>>
        /\ UNCHANGED <<page, twice, steady, crowded>> /\ UNCHANGED <<shown, purge, reader, restored, flips>>
    BY <1>8 DEF vars, mail, history
  <2>2. Others
    BY <2>1, Has DEF Others, Same, ListOK, SteadyOK
  <2>3. ListOK'
    BY <2>2, OthersKeep
  <2>4. TypeOK' /\ PlaceOK' /\ BodyOK'
    BY <2>1 DEF TypeOK, PlaceOK, BodyOK, Placed
  <2> QED
    BY <2>3, <2>4
<1> QED
  BY <1>1, <1>2, <1>3, <1>4, <1>5, <1>6, <1>7, <1>8 DEF Next, OtherStep

LEMMA Invariant == Spec => []IInv
<1>1. Init => IInv
  BY InitHolds
<1>2. IInv /\ [Next]_vars => IInv'
  BY StepHolds
<1> QED
  BY <1>1, <1>2, PTL DEF Spec

\* Every variable has its type, and no two messages of an account one number.
THEOREM TypeCorrect == Spec => []TypeOK
<1>1. IInv => TypeOK
  BY DEF IInv
<1> QED
  BY <1>1, Invariant, PTL

\* Paging never skips or repeats a message that stays in view, in a list over
\* any accounts and in a search, whatever others do between the calls.
THEOREM ShownOnceAlways == Spec => []ShownOnce
<1>1. ASSUME IInv PROVE ShownOnce
  <2> USE <1>1 DEF IInv
  <2> SUFFICES ASSUME NEW m \in steady, m \notin crowded
               PROVE  m \notin twice /\ (reader.pc = "over" => page[m] # 0)
    BY DEF ShownOnce
  <2>1. m \in stored /\ m \in Msgs /\ Placed(m) /\ slot[m].seq \in Nat
    BY Has, PlacedAt DEF ListOK, SteadyOK
  <2>2. reader.view \in Views \cup {"none", "search"}
    BY Has DEF Reader
  <2>3. CASE reader.view \in Views
    <3>1. Listing /\ slot[m].acct \in reader.taking
      BY <2>3 DEF Listing, ListOK, SteadyOK
    <3>2. CASE Pinned(m)
      <4>1. m \notin twice /\ (~FirstPage => page[m] = 1)
        BY <3>1, <3>2 DEF ListOK, PinnedOK
      <4> QED
        BY <4>1 DEF FirstPage
    <3>3. CASE ~Pinned(m)
      <4>1. m \notin twice /\ (page[m] # 0 <=> ~After(m, reader.cursor[slot[m].acct]))
        BY <3>1, <3>3 DEF ListOK, CursorOK
      <4>2. reader.pc = "over" => reader.cursor[slot[m].acct] = Over
        BY <3>1 DEF ListOK, OverOK
      <4> QED
        BY <2>1, <4>1, <4>2, AfterTop
    <3> QED
      BY <3>2, <3>3
  <2>4. CASE reader.view = "none"
    BY <2>4 DEF ListOK, ModeOK, FreshOK
  <2>5. CASE reader.view = "search"
    BY <2>1, <2>5 DEF ListOK, SearchOK
  <2> QED
    BY <2>2, <2>3, <2>4, <2>5
<1> QED
  BY <1>1, Invariant, PTL

\* What comes on a later page is older, but for what is pinned to the first.
THEOREM NewestFirstAlways == Spec => []NewestFirst
<1>1. ASSUME IInv PROVE NewestFirst
  <2> SUFFICES ASSUME NEW m \in steady, NEW n \in steady, reader.view # "search", ~Pinned(m),
                      page[m] # 0, page[m] < page[n]
               PROVE  Before(m, n)
    BY DEF NewestFirst, Pinned
  <2> USE <1>1 DEF IInv
  <2>1. m \in Msgs /\ n \in Msgs /\ page[m] \in Nat /\ page[n] \in Nat
    BY Has
  <2>2. reader.view \in Views
    BY Has DEF Reader, ListOK, ModeOK, FreshOK
  <2>3. ~Pinned(n)
    <3> SUFFICES ASSUME Pinned(n) PROVE FALSE
      OBVIOUS
    <3>1. page[n] = 0 \/ page[n] = 1
      BY <2>2 DEF ListOK, PinnedOK, Listing
    <3> QED
      BY <2>1, <3>1
  <2> QED
    BY <2>2, <2>3 DEF ListOK, OrderOK, Listing
<1> QED
  BY <1>1, Invariant, PTL

\* A message that is not in the Trash keeps its body, unless it was restored
\* under a purge that had passed its check.
THEOREM LiveHasBodyAlways == Spec => []LiveHasBody
<1>1. IInv => LiveHasBody
  BY DEF IInv, BodyOK, LiveHasBody
<1> QED
  BY <1>1, Invariant, PTL

-----------------------------------------------------------------------------
(* Provision: the inductive invariant *)

\* The type of a request.
Request ==
    [op : {"none", "load", "retry", "adopt", "mail", "connect"},
     pc : {"idle", "name", "owner", "claim", "list", "unlist", "done", "failed", "again"},
     o : P!Owners \cup {None}, a : P!Addresses \cup {None}]

\* What a request is about, by what it does.
RequestsOK ==
    \A r \in Requests :
        /\ P!At(r, "idle") => req[r] = P!Idle
        /\ req[r].pc \in {"owner", "claim", "list", "unlist"} =>
             req[r].a \in P!Addresses /\ req[r].o \in P!Owners
        /\ req[r].pc \in {"name", "owner", "done", "failed", "again"} => req[r].op = "load"
        /\ req[r].op = "load" => /\ req[r].o \in Orgs
                                 /\ req[r].pc \in {"owner", "claim", "list"} => req[r].a \in Names
        /\ req[r].op = "mail" => req[r].o = System

\* An organization lists what it owns.
ListedOwned ==
    \A o \in Orgs, a \in P!Addresses \ raced : a \in listed[o] => owner[a] = o

\* Nobody is about to list what another owns.
ListingOwned ==
    \A r \in Requests :
        P!At(r, "list") /\ req[r].o \in Orgs /\ req[r].a \notin raced
        => owner[req[r].a] = req[r].o

\* What is being deleted is owned, and listed by none once it is unlisted.
PurgesOK ==
    \A a \in P!Addresses :
        /\ dropping[a] # "no" => owner[a] # None
        /\ dropping[a] = "unlisted" /\ a \notin raced => \A o \in Orgs : a \notin listed[o]

\* What an organization owns it lists, or there is a reason.
OwnedListed ==
    \A o \in Orgs, a \in P!Addresses \ raced :
        owner[a] = o => \/ a \in listed[o] \/ P!Listing(o, a)
                       \/ a \in torn \/ dropping[a] = "unlisted"

\* One page load at a time sets an organization up, and none once it lists
\* what an earlier one gave it.
SetupsOK ==
    /\ \A r \in Requests :
         req[r].op = "load" =>
             /\ flag[req[r].o] = "running"
             /\ req[r].pc \in {"name", "owner", "claim", "list"} => given[req[r].o] = {}
             /\ \A q \in Requests : req[q].op = "load" /\ req[q].o = req[r].o => q = r
    /\ \A o \in Orgs : given[o] \subseteq listed[o] /\ \A a, b \in given[o] : a = b

\* The inductive invariant.
ProvisionInv == P!TypeOK /\ RequestsOK /\ ListedOwned /\ ListingOwned /\ PurgesOK /\ OwnedListed /\ SetupsOK

-----------------------------------------------------------------------------
(* Each action keeps the invariant *)

LEMMA LoadKeeps ==
  ASSUME NEW r \in Requests, NEW o \in Orgs, ProvisionInv, P!Load(r, o)
  PROVE ProvisionInv'
<1> USE OverviewAssumption DEF ProvisionInv, P!Addresses, P!Owners
<1>1. P!TypeOK'
  BY DEF P!Load, P!Begin, P!history, P!TypeOK
<1>2. RequestsOK'
  BY DEF P!Load, P!Begin, P!At, RequestsOK
<1>3. ListedOwned'
  BY DEF P!Load, P!history, ListedOwned
<1>4. ListingOwned'
  BY DEF P!Load, P!Begin, P!At, P!history, ListingOwned
<1>5. PurgesOK'
  BY DEF P!Load, P!history, PurgesOK
<1>6. OwnedListed'
  BY DEF P!Load, P!Begin, P!At, P!history, OwnedListed, P!Listing
<1>7. SetupsOK'
  BY DEF P!Load, P!Begin, P!At, P!history, P!Unsettled, P!TypeOK, SetupsOK
<1> QED
  BY <1>1, <1>2, <1>3, <1>4, <1>5, <1>6, <1>7

LEMMA NameKeeps ==
  ASSUME NEW r \in Requests, ProvisionInv, P!Name(r)
  PROVE ProvisionInv'
<1> USE OverviewAssumption DEF ProvisionInv, P!Addresses, P!Owners
<1>0. /\ req[r].pc = "name" /\ req[r].op = "load" /\ req[r].o \in Orgs
      /\ UNCHANGED <<owner, dropping, listed, flag, faults, given, torn, raced>>
  BY DEF P!Name, P!At, P!history, RequestsOK
<1>10. req \in [Requests -> Request]
  BY DEF P!TypeOK, Request
<1>8. PICK q1 \in Request :
        /\ req' = [req EXCEPT ![r] = q1]
        /\ q1.op = "load" /\ q1.o = req[r].o /\ q1.a \in Names \cup {req[r].a}
        /\ q1.pc \in {"owner", "failed", "again"}
        /\ q1.pc = "owner" => q1.a \in Names
  <2> HIDE DEF ProvisionInv
  <2>1. ASSUME NEW a \in Names, req' = [req EXCEPT ![r].a = a, ![r].pc = "owner"]
        PROVE  \E q1 \in Request :
                 /\ req' = [req EXCEPT ![r] = q1]
                 /\ q1.op = "load" /\ q1.o = req[r].o /\ q1.a \in Names \cup {req[r].a}
                 /\ q1.pc \in {"owner", "failed", "again"}
                 /\ q1.pc = "owner" => q1.a \in Names
    <3> USE <1>0, <1>10 DEF Request
    <3> WITNESS [req[r] EXCEPT !.a = a, !.pc = "owner"] \in Request
    <3> QED
      BY <2>1
  <2>2. ASSUME NEW next \in {"failed", "again"}, P!Go(r, next)
        PROVE  \E q1 \in Request :
                 /\ req' = [req EXCEPT ![r] = q1]
                 /\ q1.op = "load" /\ q1.o = req[r].o /\ q1.a \in Names \cup {req[r].a}
                 /\ q1.pc \in {"owner", "failed", "again"}
                 /\ q1.pc = "owner" => q1.a \in Names
    <3> USE <1>0, <1>10 DEF Request
    <3> WITNESS [req[r] EXCEPT !.pc = next] \in Request
    <3> QED
      BY <2>2 DEF P!Go
  <2> QED
    BY <2>1, <2>2 DEF P!Name
<1>9. /\ \A q \in Requests : q # r => req'[q] = req[q]
      /\ req'[r].op = "load" /\ req'[r].o = req[r].o /\ req'[r].a \in Names \cup {req[r].a}
      /\ req'[r].pc \in {"owner", "failed", "again"}
      /\ req'[r].pc = "owner" => req'[r].a \in Names
  BY <1>8, <1>10
<1>1. P!TypeOK'
  BY <1>0, <1>8, <1>10 DEF P!TypeOK, Request
<1>2. RequestsOK'
  BY <1>0, <1>9 DEF P!TypeOK, RequestsOK, P!At
<1>3. ListedOwned'
  BY <1>0, <1>9 DEF P!TypeOK, RequestsOK, ListedOwned
<1>4. ListingOwned'
  BY <1>0, <1>9 DEF P!TypeOK, RequestsOK, ListingOwned, P!At
<1>5. PurgesOK'
  BY <1>0, <1>9 DEF P!TypeOK, RequestsOK, PurgesOK
<1>6. OwnedListed'
  BY <1>0, <1>9 DEF P!TypeOK, RequestsOK, OwnedListed, P!Listing, P!At
<1>7. SetupsOK'
  BY <1>0, <1>9 DEF P!TypeOK, RequestsOK, SetupsOK
<1> QED
  BY <1>1, <1>2, <1>3, <1>4, <1>5, <1>6, <1>7

LEMMA OwnerKeeps ==
  ASSUME NEW r \in Requests, ProvisionInv, P!Owner(r)
  PROVE ProvisionInv'
<1> USE OverviewAssumption DEF ProvisionInv, P!Addresses, P!Owners
<1>1. P!TypeOK'
  BY DEF P!Owner, P!Go, P!history, P!TypeOK
<1>2. RequestsOK'
  BY DEF P!Owner, P!At, P!Go, RequestsOK
<1>3. ListedOwned'
  BY DEF P!Owner, P!history, ListedOwned
<1>4. ListingOwned'
  BY DEF P!Owner, P!At, P!Go, P!history, ListingOwned
<1>5. PurgesOK'
  BY DEF P!Owner, P!history, PurgesOK
<1>6. OwnedListed'
  BY DEF P!Owner, P!At, P!Go, P!history, OwnedListed, P!Listing
<1>7. SetupsOK'
  BY DEF P!Owner, P!At, P!Go, P!history, RequestsOK, SetupsOK
<1> QED
  BY <1>1, <1>2, <1>3, <1>4, <1>5, <1>6, <1>7

LEMMA FinishKeeps ==
  ASSUME NEW r \in Requests, ProvisionInv, P!Finish(r)
  PROVE ProvisionInv'
<1> USE OverviewAssumption DEF ProvisionInv, P!Addresses, P!Owners
<1>1. P!TypeOK'
  BY DEF P!Finish, P!At, P!Answer, P!Idle, P!TypeOK
<1>2. RequestsOK'
  BY DEF P!Finish, P!At, P!Answer, P!Idle, RequestsOK
<1>3. ListedOwned'
  BY DEF P!Finish, ListedOwned
<1>4. ListingOwned'
  BY DEF P!Finish, P!At, P!Answer, P!Idle, ListingOwned
<1>5. PurgesOK'
  BY DEF P!Finish, PurgesOK
<1>6. OwnedListed'
  BY DEF P!Finish, P!At, P!Answer, OwnedListed, P!Listing
<1>7. SetupsOK'
  BY DEF P!Finish, P!Answer, P!Idle, P!TypeOK, RequestsOK, SetupsOK
<1> QED
  BY <1>1, <1>2, <1>3, <1>4, <1>5, <1>6, <1>7

LEMMA RetryKeeps ==
    ASSUME NEW r \in Requests, NEW o \in Orgs, NEW a \in P!Addresses, ProvisionInv, P!Retry(r, o, a)
    PROVE  ProvisionInv'
<1> USE OverviewAssumption DEF ProvisionInv, P!Addresses, P!Owners
<1>1. P!TypeOK'
  BY DEF P!Retry, P!Begin, P!history, P!TypeOK
<1>2. RequestsOK'
  BY DEF P!Retry, P!Begin, P!At, RequestsOK
<1>3. ListedOwned'
  BY DEF P!Retry, P!history, ListedOwned
<1>4. ListingOwned'
  BY DEF P!Retry, P!Begin, P!At, P!history, ListingOwned
<1>5. PurgesOK'
  BY DEF P!Retry, P!history, PurgesOK
<1>6. OwnedListed'
  BY DEF P!Retry, P!Begin, P!At, P!history, OwnedListed, P!Listing
<1>7. SetupsOK'
  BY DEF P!Retry, P!Begin, P!history, SetupsOK
<1> QED
  BY <1>1, <1>2, <1>3, <1>4, <1>5, <1>6, <1>7

LEMMA AdoptKeeps ==
    ASSUME NEW r \in Requests, NEW o \in Admins, NEW a \in Reports, ProvisionInv, P!Adopt(r, o, a)
    PROVE  ProvisionInv'
<1> USE OverviewAssumption DEF ProvisionInv, P!Addresses, P!Owners
<1>1. P!TypeOK'
  BY DEF P!Adopt, P!Begin, P!history, P!TypeOK
<1>2. RequestsOK'
  BY DEF P!Adopt, P!Begin, P!At, RequestsOK
<1>3. ListedOwned'
  BY DEF P!Adopt, P!Transferable, P!history, ListedOwned
<1>4. ListingOwned'
  BY DEF P!Adopt, P!Transferable, P!Begin, P!At, P!history, P!TypeOK, ListingOwned
<1>5. PurgesOK'
  BY DEF P!Adopt, P!history, PurgesOK
<1>6. OwnedListed'
  BY DEF P!Adopt, P!Begin, P!At, P!history, P!TypeOK, OwnedListed, P!Listing
<1>7. SetupsOK'
  BY DEF P!Adopt, P!Transferable, P!Begin, P!history, SetupsOK
<1> QED
  BY <1>1, <1>2, <1>3, <1>4, <1>5, <1>6, <1>7

LEMMA MailInKeeps ==
    ASSUME NEW r \in Requests, NEW a \in Reports, ProvisionInv, P!MailIn(r, a)
    PROVE  ProvisionInv'
<1> USE OverviewAssumption DEF ProvisionInv, P!Addresses, P!Owners
<1>1. P!TypeOK'
  BY DEF P!MailIn, P!Begin, P!history, P!TypeOK
<1>2. RequestsOK'
  BY DEF P!MailIn, P!Begin, P!At, RequestsOK
<1>3. ListedOwned'
  BY DEF P!MailIn, P!history, ListedOwned
<1>4. ListingOwned'
  BY DEF P!MailIn, P!Begin, P!At, P!history, ListingOwned
<1>5. PurgesOK'
  BY DEF P!MailIn, P!history, PurgesOK
<1>6. OwnedListed'
  BY DEF P!MailIn, P!Begin, P!At, P!history, OwnedListed, P!Listing
<1>7. SetupsOK'
  BY DEF P!MailIn, P!Begin, P!history, RequestsOK, SetupsOK
<1> QED
  BY <1>1, <1>2, <1>3, <1>4, <1>5, <1>6, <1>7

LEMMA ConnectKeeps ==
    ASSUME NEW r \in Requests, NEW o \in Orgs, NEW a \in Gmails, ProvisionInv, P!Connect(r, o, a)
    PROVE  ProvisionInv'
<1> USE OverviewAssumption DEF ProvisionInv, P!Addresses, P!Owners
<1>1. P!TypeOK'
  BY DEF P!Connect, P!Begin, P!history, P!TypeOK
<1>2. RequestsOK'
  BY DEF P!Connect, P!Begin, P!At, RequestsOK
<1>3. ListedOwned'
  BY DEF P!Connect, P!history, ListedOwned
<1>4. ListingOwned'
  BY DEF P!Connect, P!Begin, P!At, P!history, ListingOwned
<1>5. PurgesOK'
  BY DEF P!Connect, P!history, PurgesOK
<1>6. OwnedListed'
  BY DEF P!Connect, P!Begin, P!At, P!history, OwnedListed, P!Listing
<1>7. SetupsOK'
  BY DEF P!Connect, P!Begin, P!history, SetupsOK
<1> QED
  BY <1>1, <1>2, <1>3, <1>4, <1>5, <1>6, <1>7

LEMMA ClaimKeeps ==
  ASSUME NEW r \in Requests, ProvisionInv, P!Claim(r)
  PROVE ProvisionInv'
<1> USE OverviewAssumption DEF ProvisionInv, P!Addresses, P!Owners
<1> DEFINE oo == req[r].o
            aa == req[r].a
<1>0. /\ req[r].pc = "claim" /\ oo \in Orgs \cup {System} /\ aa \in P!Addresses
      /\ owner' = [owner EXCEPT ![aa] = IF @ = None THEN oo ELSE @]
      /\ UNCHANGED <<dropping, listed, flag, faults, given, torn, raced>>
  BY DEF P!Claim, P!At, P!history, RequestsOK
<1>8. /\ req' = [req EXCEPT ![r] = req'[r]]
      /\ \/ /\ req'[r] = [req[r] EXCEPT !.pc = "list"]
            /\ owner[aa] \in {None, oo} \/ req[r].op = "mail"
         \/ /\ req'[r] = [req[r] EXCEPT !.pc = "failed"] \/ req'[r] = P!Idle
            /\ owner[aa] \notin {None, oo}
            /\ req'[r] # P!Idle => req[r].op = "load"
  <2>1. CASE P!Granted(oo, aa) \/ req[r].op = "mail"
    <3>1. P!Go(r, "list")
      BY <2>1 DEF P!Claim
    <3>2. owner[aa] \in {None, oo} \/ req[r].op = "mail"
      BY <2>1 DEF P!Granted
    <3> QED
      BY <3>1, <3>2 DEF P!Go, P!TypeOK
  <2>2. CASE ~ P!Granted(oo, aa) /\ req[r].op = "load"
    BY <2>2 DEF P!Claim, P!Granted, P!Go, P!TypeOK
  <2>3. CASE ~ P!Granted(oo, aa) /\ req[r].op \notin {"mail", "load"}
    BY <2>3 DEF P!Claim, P!Granted, P!Answer, P!TypeOK
  <2> QED
    BY <2>1, <2>2, <2>3
<1>9. /\ \A q \in Requests : q # r => req'[q] = req[q]
      /\ req'[r] = P!Idle \/ (/\ req'[r].op = req[r].op /\ req'[r].o = oo /\ req'[r].a = aa
                            /\ req'[r].pc \in {"list", "failed"})
      /\ req'[r].pc = "list" => owner'[aa] = oo \/ req[r].op = "mail"
      /\ req'[r].pc = "failed" => req[r].op = "load"
      /\ owner[aa] = None => req'[r].pc = "list" /\ req'[r] # P!Idle
  BY <1>0, <1>8 DEF P!TypeOK, P!Idle
<1>10. \A b \in P!Addresses : owner'[b] = owner[b] \/ (b = aa /\ owner[b] = None /\ owner'[b] = oo)
  BY <1>0 DEF P!TypeOK
<1>1. P!TypeOK'
  BY <1>0, <1>8 DEF P!TypeOK, P!Idle
<1>2. RequestsOK'
  BY <1>0, <1>9, <1>10 DEF P!TypeOK, RequestsOK, P!At, P!Idle
<1>3. ListedOwned'
  BY <1>0, <1>9, <1>10 DEF P!TypeOK, RequestsOK, ListedOwned, P!Idle
<1>4. ListingOwned'
  BY <1>0, <1>9, <1>10 DEF P!TypeOK, RequestsOK, ListingOwned, P!At, P!Idle
<1>5. PurgesOK'
  BY <1>0, <1>9, <1>10 DEF P!TypeOK, RequestsOK, PurgesOK, P!Idle
<1>6. OwnedListed'
  BY <1>0, <1>9, <1>10 DEF P!TypeOK, RequestsOK, OwnedListed, P!Listing, P!At, P!Idle
<1>7. SetupsOK'
  BY <1>0, <1>9, <1>10 DEF P!TypeOK, RequestsOK, SetupsOK, P!Idle
<1> QED
  BY <1>1, <1>2, <1>3, <1>4, <1>5, <1>6, <1>7

LEMMA ListKeeps ==
  ASSUME NEW r \in Requests, ProvisionInv, P!List(r)
  PROVE ProvisionInv'
<1> USE OverviewAssumption DEF ProvisionInv, P!Addresses, P!Owners
<1> DEFINE oo == req[r].o
            aa == req[r].a
<1>0. /\ req[r].pc = "list" /\ oo \in Orgs \cup {System} /\ aa \in P!Addresses
      /\ listed' = [listed EXCEPT ![oo] = @ \cup {aa}]
      /\ torn' = IF owner[aa] = oo THEN torn \ {aa} ELSE torn
      /\ raced' = IF dropping[aa] = "no" THEN raced ELSE raced \cup {aa}
      /\ UNCHANGED <<owner, dropping, flag, faults>>
      /\ req[r].op = "load" => oo \in Orgs /\ aa \in Names
  BY DEF P!List, P!At, RequestsOK
<1>7. given' = IF req[r].op = "load" THEN [given EXCEPT ![oo] = @ \cup {aa}] ELSE given
  BY DEF P!List
<1>8. /\ req' = [req EXCEPT ![r] = req'[r]]
      /\ \/ req[r].op = "load" /\ req'[r] = [req[r] EXCEPT !.pc = "done"]
         \/ req[r].op = "adopt" /\ req'[r] = [req[r] EXCEPT !.pc = "unlist"]
         \/ req[r].op \notin {"load", "adopt"} /\ req'[r] = P!Idle
  <2>1. CASE req[r].op = "load"
    BY <2>1 DEF P!List, P!Go, P!TypeOK
  <2>2. CASE req[r].op = "adopt"
    BY <2>2 DEF P!List, P!Go, P!TypeOK
  <2>3. CASE req[r].op \notin {"load", "adopt"}
    BY <2>3 DEF P!List, P!Answer, P!TypeOK
  <2> QED
    BY <2>1, <2>2, <2>3
<1>9. /\ \A q \in Requests : q # r => req'[q] = req[q]
      /\ \/ req'[r] = P!Idle
         \/ /\ req'[r].op = req[r].op /\ req'[r].o = oo /\ req'[r].a = aa
            /\ \/ req'[r].op = "load" /\ req'[r].pc = "done"
               \/ req'[r].op = "adopt" /\ req'[r].pc = "unlist"
  BY <1>0, <1>8 DEF P!TypeOK
<1>10. \A o \in P!Owners : listed[o] \subseteq listed'[o]
                         /\ listed'[o] \subseteq (IF o = oo THEN listed[o] \cup {aa} ELSE listed[o])
                         /\ aa \in listed'[oo]
  BY <1>0 DEF P!TypeOK
<1>1. P!TypeOK'
  BY <1>0, <1>7, <1>8 DEF P!TypeOK, P!Idle
<1>2. RequestsOK'
  BY <1>0, <1>9, <1>10 DEF P!TypeOK, RequestsOK, P!At, P!Idle
<1>3. ListedOwned'
  BY <1>0, <1>9, <1>10 DEF P!TypeOK, RequestsOK, ListedOwned, ListingOwned,
                           PurgesOK, P!At, P!Idle
<1>4. ListingOwned'
  BY <1>0, <1>9, <1>10 DEF P!TypeOK, RequestsOK, ListingOwned, P!At, ListedOwned, ListingOwned,
                           PurgesOK, P!At, P!Idle
<1>5. PurgesOK'
  BY <1>0, <1>9, <1>10 DEF P!TypeOK, RequestsOK, PurgesOK, ListedOwned, ListingOwned,
                           PurgesOK, P!At, P!Idle
<1>6. OwnedListed'
  BY <1>0, <1>9, <1>10 DEF P!TypeOK, RequestsOK, OwnedListed, P!Listing, P!At, P!Idle
<1>11. SetupsOK'
  <2> USE OverviewAssumption
  <2>1. CASE req[r].op # "load"
    <3>1. given' = given
      BY <1>7, <2>1
    <3>2. \A q \in Requests : req'[q].op = "load" => req'[q] = req[q]
      BY <1>9, <2>1 DEF P!Idle
    <3>3. \A o \in Orgs : given'[o] \subseteq listed'[o] /\ \A a, b \in given'[o] : a = b
      BY <1>10, <3>1 DEF SetupsOK
    <3>4. ASSUME NEW p \in Requests, req'[p].op = "load"
          PROVE  /\ flag'[req'[p].o] = "running"
                 /\ req'[p].pc \in {"name", "owner", "claim", "list"} => given'[req'[p].o] = {}
                 /\ \A q \in Requests : req'[q].op = "load" /\ req'[q].o = req'[p].o => q = p
      <4>1. req[p].op = "load" /\ req'[p] = req[p] /\ flag' = flag
        BY <1>0, <3>2, <3>4
      <4>2. \A q \in Requests : req'[q].op = "load" /\ req'[q].o = req'[p].o => q = p
        BY <3>2, <4>1 DEF SetupsOK
      <4> QED
        BY <3>1, <4>1, <4>2 DEF SetupsOK
    <3> QED
      BY <3>3, <3>4 DEF SetupsOK
  <2>2. CASE req[r].op = "load"
    <3>1. given[oo] = {}
      BY <1>0, <2>2 DEF SetupsOK
    <3>2. \A o \in Orgs : given'[o] = IF o = oo THEN {aa} ELSE given[o]
      BY <1>0, <1>7, <2>2, <3>1 DEF P!TypeOK
    <3>3. \A o \in Orgs : given'[o] \subseteq listed'[o] /\ \A a, b \in given'[o] : a = b
      BY <1>10, <3>2 DEF SetupsOK
    <3>4. \A q \in Requests \ {r} : req'[q].op = "load" => req[q].op = "load" /\ req[q].o # oo
      BY <1>9, <2>2 DEF SetupsOK
    <3>5. req'[r].op = "load" => req'[r].o = oo /\ req'[r].pc = "done"
      BY <1>9, <2>2 DEF P!Idle
    <3>6. ASSUME NEW p \in Requests, req'[p].op = "load", p # r
          PROVE  /\ req'[p] = req[p] /\ req'[p].o # oo /\ flag'[req'[p].o] = "running"
                 /\ req'[p].pc \in {"name", "owner", "claim", "list"} => given[req'[p].o] = {}
                 /\ \A q \in Requests : req'[q].op = "load" /\ req'[q].o = req'[p].o => q = p
      <4>1. req'[p] = req[p] /\ req[p].op = "load" /\ req[p].o # oo
        BY <1>9, <3>4, <3>6
      <4>2. flag[req[p].o] = "running" /\ (req[p].pc \in {"name", "owner", "claim", "list"} => given[req[p].o] = {})
        BY <4>1 DEF SetupsOK
      <4>3. \A q \in Requests : req'[q].op = "load" /\ req'[q].o = req'[p].o => q = p
        BY <1>9, <3>4, <3>5, <4>1 DEF SetupsOK
      <4> QED
        BY <1>0, <4>1, <4>2, <4>3
    <3>7. req'[r].op = "load" =>
            /\ flag'[req'[r].o] = "running"
            /\ \A q \in Requests : req'[q].op = "load" /\ req'[q].o = req'[r].o => q = r
      BY <1>0, <1>9, <2>2, <3>4, <3>5 DEF SetupsOK
    <3>8. \A p \in Requests : req'[p].op = "load" => req'[p].o \in Orgs
      BY <1>0, <1>9, <2>2, <3>5 DEF RequestsOK
    <3> HIDE DEF ProvisionInv, P!Addresses, P!Owners
    <3> QED
      BY <3>2, <3>3, <3>5, <3>6, <3>7, <3>8 DEF SetupsOK
  <2> QED
    BY <2>1, <2>2
<1> QED
  BY <1>1, <1>2, <1>3, <1>4, <1>5, <1>6, <1>11

LEMMA UnlistKeeps ==
  ASSUME NEW r \in Requests, ProvisionInv, P!Unlist(r)
  PROVE ProvisionInv'
<1> USE OverviewAssumption DEF ProvisionInv, P!Addresses, P!Owners
<1>1. P!TypeOK'
  BY DEF P!Unlist, P!Answer, P!Idle, P!TypeOK
<1>2. RequestsOK'
  BY DEF P!Unlist, P!At, P!Answer, P!Idle, RequestsOK
<1>3. ListedOwned'
  BY DEF P!Unlist, ListedOwned
<1>4. ListingOwned'
  BY DEF P!Unlist, P!At, P!Answer, P!Idle, ListingOwned
<1>5. PurgesOK'
  BY DEF P!Unlist, PurgesOK
<1>6. OwnedListed'
  BY DEF P!Unlist, P!At, P!Answer, OwnedListed, P!Listing
<1>7. SetupsOK'
  <2>1. \A o \in Orgs : listed'[o] = listed[o]
    BY DEF P!Unlist, P!TypeOK
  <2>2. \A q \in Requests : req'[q].op = "load" => req'[q] = req[q]
    BY DEF P!Unlist, P!Answer, P!Idle, P!TypeOK
  <2>3. UNCHANGED <<flag, given>>
    BY DEF P!Unlist
  <2> HIDE DEF ProvisionInv, P!Addresses, P!Owners
  <2>4. SetupsOK /\ RequestsOK
    BY DEF ProvisionInv
  <2> QED
    BY <2>1, <2>2, <2>3, <2>4 DEF RequestsOK, SetupsOK
<1> QED
  BY <1>1, <1>2, <1>3, <1>4, <1>5, <1>6, <1>7

LEMMA DeleteKeeps ==
  ASSUME NEW a \in Gmails, ProvisionInv, P!Delete(a)
  PROVE ProvisionInv'
<1> USE OverviewAssumption DEF ProvisionInv, P!Addresses, P!Owners
<1>1. P!TypeOK'
  BY DEF P!Delete, P!TypeOK
<1>2. RequestsOK'
  BY DEF P!Delete, RequestsOK, P!At
<1>3. ListedOwned'
  BY DEF P!Delete, ListedOwned
<1>4. ListingOwned'
  BY DEF P!Delete, ListingOwned, P!At
<1>5. PurgesOK'
  BY DEF P!Delete, PurgesOK
<1>6. OwnedListed'
  BY DEF P!Delete, OwnedListed, P!Listing, P!At
<1>7. SetupsOK'
  BY DEF P!Delete, SetupsOK
<1> QED
  BY <1>1, <1>2, <1>3, <1>4, <1>5, <1>6, <1>7

LEMMA PurgeUnlistsKeeps ==
  ASSUME NEW a \in Gmails, ProvisionInv, P!PurgeUnlists(a)
  PROVE ProvisionInv'
<1> USE OverviewAssumption DEF ProvisionInv, P!Addresses, P!Owners
<1>1. P!TypeOK'
  BY DEF P!PurgeUnlists, P!history, P!TypeOK
<1>2. RequestsOK'
  BY DEF P!PurgeUnlists, RequestsOK, P!At
<1>3. ListedOwned'
  BY DEF P!PurgeUnlists, P!history, ListedOwned
<1>4. ListingOwned'
  BY DEF P!PurgeUnlists, P!history, ListingOwned, P!At
<1>5. PurgesOK'
  BY DEF P!PurgeUnlists, P!history, P!TypeOK, PurgesOK, ListedOwned
<1>6. OwnedListed'
  BY DEF P!PurgeUnlists, P!history, P!TypeOK, OwnedListed, P!Listing, P!At
<1>7. SetupsOK'
  BY DEF P!PurgeUnlists, P!history, P!TypeOK, SetupsOK
<1> QED
  BY <1>1, <1>2, <1>3, <1>4, <1>5, <1>6, <1>7

LEMMA PurgeWipesKeeps ==
  ASSUME NEW a \in Gmails, ProvisionInv, P!PurgeWipes(a)
  PROVE ProvisionInv'
<1> USE OverviewAssumption DEF ProvisionInv, P!Addresses, P!Owners
<1>1. P!TypeOK'
  BY DEF P!PurgeWipes, P!TypeOK
<1>2. RequestsOK'
  BY DEF P!PurgeWipes, P!At, RequestsOK
<1>3. ListedOwned'
  BY DEF P!PurgeWipes, ListedOwned, PurgesOK
<1>4. ListingOwned'
  BY DEF P!PurgeWipes, P!At, ListingOwned
<1>5. PurgesOK'
  BY DEF P!PurgeWipes, P!TypeOK, PurgesOK
<1>6. OwnedListed'
  BY DEF P!PurgeWipes, P!At, P!TypeOK, OwnedListed, P!Listing
<1>7. SetupsOK'
  BY DEF P!PurgeWipes, SetupsOK
<1> QED
  BY <1>1, <1>2, <1>3, <1>4, <1>5, <1>6, <1>7

LEMMA PurgeAgainKeeps ==
  ASSUME NEW a \in Gmails, ProvisionInv, P!PurgeAgain(a)
  PROVE ProvisionInv'
<1> USE OverviewAssumption DEF ProvisionInv, P!Addresses, P!Owners
<1>1. P!TypeOK'
  BY DEF P!PurgeAgain, P!Fault, P!TypeOK
<1>2. RequestsOK'
  BY DEF P!PurgeAgain, RequestsOK, P!At
<1>3. ListedOwned'
  BY DEF P!PurgeAgain, ListedOwned
<1>4. ListingOwned'
  BY DEF P!PurgeAgain, ListingOwned, P!At
<1>5. PurgesOK'
  BY DEF P!PurgeAgain, PurgesOK
<1>6. OwnedListed'
  BY DEF P!PurgeAgain, OwnedListed, P!Listing, P!At
<1>7. SetupsOK'
  BY DEF P!PurgeAgain, SetupsOK
<1> QED
  BY <1>1, <1>2, <1>3, <1>4, <1>5, <1>6, <1>7

LEMMA DiesKeeps ==
  ASSUME NEW r \in Requests, ProvisionInv, P!Dies(r)
  PROVE ProvisionInv'
<1> USE OverviewAssumption DEF ProvisionInv, P!Addresses, P!Owners
<1>1. P!TypeOK'
  BY DEF P!Dies, P!Fault, P!Tear, P!At, P!Answer, P!Idle, P!TypeOK, RequestsOK
<1>2. RequestsOK'
  BY DEF P!Dies, P!At, P!Answer, P!Idle, RequestsOK
<1>3. ListedOwned'
  BY DEF P!Dies, ListedOwned
<1>4. ListingOwned'
  BY DEF P!Dies, P!At, P!Answer, P!Idle, ListingOwned
<1>5. PurgesOK'
  BY DEF P!Dies, PurgesOK
<1>6. OwnedListed'
  BY DEF P!Dies, P!Tear, P!At, P!Answer, OwnedListed, P!Listing
<1>7. SetupsOK'
  BY DEF P!Dies, P!Fault, P!Answer, P!Idle, RequestsOK, SetupsOK
<1> QED
  BY <1>1, <1>2, <1>3, <1>4, <1>5, <1>6, <1>7

LEMMA ErrsKeeps ==
  ASSUME NEW r \in Requests, ProvisionInv, P!Errs(r)
  PROVE ProvisionInv'
<1> USE OverviewAssumption DEF ProvisionInv, P!Addresses, P!Owners
<1>1. P!TypeOK'
  BY DEF P!Errs, P!Fault, P!Tear, P!At, P!Go, P!TypeOK, RequestsOK
<1>2. RequestsOK'
  BY DEF P!Errs, P!At, P!Go, RequestsOK
<1>3. ListedOwned'
  BY DEF P!Errs, ListedOwned
<1>4. ListingOwned'
  BY DEF P!Errs, P!At, P!Go, ListingOwned
<1>5. PurgesOK'
  BY DEF P!Errs, PurgesOK
<1>6. OwnedListed'
  BY DEF P!Errs, P!Tear, P!At, P!Go, OwnedListed, P!Listing
<1>7. SetupsOK'
  BY DEF P!Errs, P!Go, SetupsOK
<1> QED
  BY <1>1, <1>2, <1>3, <1>4, <1>5, <1>6, <1>7

-----------------------------------------------------------------------------
(* So it always holds *)

LEMMA Initially == P!Init => ProvisionInv
BY OverviewAssumption DEF P!Init, P!Idle, P!At, P!Listing, ProvisionInv, P!TypeOK, RequestsOK, ListedOwned, ListingOwned, PurgesOK,
       OwnedListed, SetupsOK, P!Owners

LEMMA Stepwise == ProvisionInv /\ [P!Next]_P!vars => ProvisionInv'
<1> SUFFICES ASSUME ProvisionInv, [P!Next]_P!vars PROVE ProvisionInv'
  OBVIOUS
<1>1. CASE P!Next
  <2>1. CASE \E r \in Requests :
               \/ P!Name(r) \/ P!Owner(r) \/ P!Finish(r) \/ P!Claim(r) \/ P!List(r) \/ P!Unlist(r)
               \/ P!Dies(r) \/ P!Errs(r)
               \/ \E o \in Orgs : \/ P!Load(r, o)
                                  \/ \E a \in P!Addresses : P!Retry(r, o, a)
                                  \/ \E a \in Gmails : P!Connect(r, o, a)
               \/ \E o \in Admins, a \in Reports : P!Adopt(r, o, a)
               \/ \E a \in Reports : P!MailIn(r, a)
    BY <2>1, NameKeeps, OwnerKeeps, FinishKeeps, ClaimKeeps, ListKeeps, UnlistKeeps, DiesKeeps,
       ErrsKeeps, LoadKeeps, RetryKeeps, ConnectKeeps, AdoptKeeps, MailInKeeps
  <2>2. CASE \E a \in Gmails : P!Delete(a) \/ P!PurgeUnlists(a) \/ P!PurgeWipes(a) \/ P!PurgeAgain(a)
    BY <2>2, DeleteKeeps, PurgeUnlistsKeeps, PurgeWipesKeeps, PurgeAgainKeeps
  <2> QED
    BY <1>1, <2>1, <2>2 DEF P!Next
<1>2. CASE UNCHANGED P!vars
  BY <1>2 DEF P!vars, ProvisionInv, P!TypeOK, RequestsOK, ListedOwned, ListingOwned, PurgesOK,
              OwnedListed,
              SetupsOK, P!At, P!Listing
<1> QED
  BY <1>1, <1>2

LEMMA ProvisionInvariant == ProvisionSpec => []ProvisionInv
<1>1. ProvisionInit => ProvisionInv
  BY Initially DEF ProvisionInit
<1>2. ProvisionInv /\ [ProvisionNext]_<<vars, addresses>> => ProvisionInv'
  BY Stepwise DEF ProvisionNext, addresses, P!vars
<1> QED
  BY <1>1, <1>2, PTL DEF ProvisionSpec

\* What an organization lists it owns, and what it owns it lists, unless the
\* listing is on its way, a fault tore the two apart, or the address was listed
\* while it was being deleted.
THEOREM ListedIffOwnedAlways == ProvisionSpec => []ListedIffOwned
<1>1. ProvisionInv => ListedIffOwned
  BY DEF ProvisionInv, ListedOwned, OwnedListed, P!ListedIffOwned, ListedIffOwned
<1> QED
  BY <1>1, ProvisionInvariant, PTL

\* First-mailbox setup gives an organization one address at most, whoever loads
\* a page when, and whatever failed on the way.
THEOREM OneFirstMailboxAlways == ProvisionSpec => []OneFirstMailbox
<1>1. ProvisionInv => OneFirstMailbox
  BY DEF ProvisionInv, SetupsOK, P!OneFirstMailbox, OneFirstMailbox
<1> QED
  BY <1>1, ProvisionInvariant, PTL
=============================================================================
