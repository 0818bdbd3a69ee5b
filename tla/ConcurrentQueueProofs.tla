----------------------- MODULE ConcurrentQueueProofs ------------------------
(***************************************************************************)
(* Proofs about ConcurrentQueue, for every number of threads, of lanes and *)
(* of pushes, and every size of a page.                                    *)
(***************************************************************************)
EXTENDS ConcurrentQueue, Sums

(* The page a ticket's slot is in, by the ticket that it was allocated     *)
(* for, the ticket of its last slot and the page behind it.                *)
PageOf(k) == k - NQueue * Index(k)
EndOf(p) == p + NQueue * (ItemsPerPage - 1)
Behind(p) == p + NQueue * ItemsPerPage

-----------------------------------------------------------------------------
(* Whose push and whose pop have passed the turn on. *)
Pushed(k) == Rounded(k) < laneTail[Lane(k)]
Popped(k) == Rounded(k) < laneHead[Lane(k)]

(* One of a set of places where the thread with a ticket is. *)
Is(k, places) == \E t \in Threads : pc[t] \in places /\ ticket[t] = k

Kinds ==
  /\ head \in Nat /\ tail \in 0 .. MaxPushes
  /\ laneHead \in [Lanes -> Nat] /\ laneTail \in [Lanes -> 0 .. MaxPushes + NQueue]
  /\ headPage \in [Lanes -> Pages \union {NoPage}]
  /\ tailPage \in [Lanes -> Pages \union {NoPage}]
  /\ lock \in [Lanes -> {{}} \union {{t} : t \in Threads}]
  /\ next \in [Pages -> Pages \union {NoPage}]
  /\ mask \in [Pages -> SUBSET Slots]
  /\ slots \in [Pages -> [Slots -> Items \union {Nothing}]]
  /\ pc \in [Threads -> Location]
  /\ ticket \in [Threads -> Nat]
  /\ page \in [Threads -> Pages \union {NoPage}]
  /\ other \in [Threads -> Pages \union {NoPage}]
  /\ result \in [Threads -> Items \union {Pending, Nothing}]

(* A push has a ticket of its own that was drawn and whose turn is now, or *)
(* is to come while it waits.                                              *)
PushTurns ==
  \A t \in Threads : pc[t] \in Pushing =>
    /\ ticket[t] < tail /\ ~Pushed(ticket[t])
    /\ pc[t] # "turn" => Rounded(ticket[t]) = laneTail[MyLane(t)]

(* So has a pop; the item is there when it has waited for it.              *)
PopTurns ==
  \A t \in Threads : pc[t] \in Popping =>
    /\ ticket[t] < head
    /\ Popped(ticket[t]) <=> pc[t] = "free"
    /\ pc[t] \notin {"mine", "free"} => Rounded(ticket[t]) = laneHead[MyLane(t)]
    /\ pc[t] \notin {"mine", "filled"} => Pushed(ticket[t])

Decisions ==
  \A t \in Threads : pc[t] \in Deciding =>
    /\ ticket[t] <= head /\ result[t] = Pending
    /\ pc[t] = "cas" => ticket[t] < tail

OwnTickets ==
  \A t, u \in Threads :
    \/ pc[t] \in Pushing /\ pc[u] \in Pushing
    \/ pc[t] \in Popping /\ pc[u] \in Popping
    => ticket[t] # ticket[u] \/ t = u

(* The turns pass over no ticket that was not drawn, pops are behind       *)
(* pushes, and the thread of a ticket whose turn is to come is there.      *)
Order ==
  /\ head <= tail
  /\ \A l \in Lanes : laneHead[l] <= laneTail[l]
  /\ \A k \in Nat :
       /\ Pushed(k) => k < tail /\ Rounded(k) + NQueue <= laneTail[Lane(k)]
       /\ Popped(k) => k < head
       /\ k < tail /\ ~Pushed(k) => Is(k, Pushing)
       /\ k < head /\ ~Popped(k) => Is(k, Popping)

AllOrNone == (\E t \in Threads : pc[t] = "gone") => \A t \in Threads : pc[t] = "gone"

Turns == Kinds /\ PushTurns /\ PopTurns /\ Decisions /\ OwnTickets /\ Order /\ AllOrNone

-----------------------------------------------------------------------------
(* Whether a page has been appended to the list of its lane, whether       *)
(* tail_page has been set to it, whether it has been removed, tail_page    *)
(* cleared, and the page deallocated.                                      *)
Linked(p) == Pushed(p) \/ Is(p, {"last", "store", "advance"})
Ended(p) == Pushed(p) \/ Is(p, {"store", "advance"})
Unlinked(p) == Popped(EndOf(p)) \/ Is(EndOf(p), {"unlast", "pass"})
Cleared(p) == Popped(EndOf(p)) \/ Is(EndOf(p), {"pass"})
Freed(p) == Popped(EndOf(p)) /\ ~Is(EndOf(p), {"free"})

IsPage(p) == p \in Nat /\ Index(p) = 0

(* head_page is the first page that was appended and not removed. *)
HeadRight ==
  /\ \A p \in Nat : IsPage(p) /\ Linked(p) /\ ~Unlinked(p) =>
       headPage[Lane(p)] # NoPage /\ headPage[Lane(p)] <= p
  /\ \A l \in Lanes, p \in Pages : headPage[l] = p =>
       IsPage(p) /\ Lane(p) = l /\ Linked(p) /\ ~Unlinked(p)

(* tail_page is the last. *)
TailRight ==
  /\ \A p \in Nat : IsPage(p) /\ Ended(p) /\ ~Cleared(p) =>
       tailPage[Lane(p)] # NoPage /\ p <= tailPage[Lane(p)]
  /\ \A l \in Lanes, p \in Pages : tailPage[l] = p =>
       IsPage(p) /\ Lane(p) = l /\ Ended(p) /\ ~Cleared(p)

NextPage(p) == IF Linked(Behind(p)) THEN Behind(p) ELSE NoPage

NextRight ==
  \A p \in Pages : IsPage(p) =>
    /\ ~Linked(p) => next[p] = NoPage
    /\ Linked(p) /\ ~Unlinked(p) => next[p] = NextPage(p)

Locked ==
  \A t \in Threads : pc[t] \in {"link", "last", "unlink", "unlast"} => lock[MyLane(t)] = {t}

(* What the locals of a push and of a pop are. *)
PushLocals ==
  \A t \in Threads :
    /\ pc[t] = "out" => page[t] = NoPage
    /\ pc[t] = "turn" => page[t] = IF Index(ticket[t]) = 0 THEN ticket[t] ELSE NoPage
    /\ pc[t] \in {"lock", "link", "last"} => page[t] = ticket[t] /\ Index(ticket[t]) = 0
    /\ pc[t] = "tail" => Index(ticket[t]) # 0
    /\ pc[t] \in {"store", "advance"} => page[t] = PageOf(ticket[t])
    /\ pc[t] = "link" => other[t] = tailPage[MyLane(t)]

PopLocals ==
  \A t \in Threads :
    /\ pc[t] \in {"unlock", "unlink", "unlast", "pass", "free"} => page[t] = PageOf(ticket[t])
    /\ pc[t] \in {"unlock", "unlink", "unlast", "free"} => LastSlot(t)
    /\ pc[t] \in {"unlink", "unlast"} =>
         \A p \in Pages : page[t] = p => other[t] = NextPage(p)

Here == \A t \in Threads : pc[t] # "gone"

Listed == HeadRight /\ TailRight /\ NextRight /\ Locked /\ PushLocals /\ PopLocals

Lists == Here => Listed

-----------------------------------------------------------------------------
(* Whether the item of a ticket has been stored, and taken. *)
Stored(k) == Pushed(k) \/ Is(k, {"advance"})
Taken(k) == Popped(k) \/ Is(k, {"unlock", "unlink", "unlast", "pass"})

LiveRight == live = {p \in Pages : Index(p) = 0 /\ p < tail /\ ~Freed(p)}
MaskRight == \A p \in Pages : IsPage(p) => \A i \in mask[p] : Stored(p + NQueue * i)
SlotRight ==
  \A k \in Nat : Stored(k) /\ ~Taken(k) => slots[PageOf(k)][Index(k)] = k

Stocked == LiveRight /\ MaskRight /\ SlotRight

Contents == Here => Stocked

(* The inductive invariant. *)
IInv == Turns /\ Lists /\ Contents

-----------------------------------------------------------------------------
(* Tickets and lanes. *)
LEMMA Remainder ==
  ASSUME NEW n \in Nat, NEW m \in Nat \ {0}
  PROVE  n % m \in 0 .. m - 1 /\ n = m * (n \div m) + (n % m)
  OBVIOUS

LEMMA RemainderIs ==
  ASSUME NEW q \in Nat, NEW m \in Nat \ {0}, NEW r \in 0 .. m - 1
  PROVE  (m * q + r) % m = r /\ (m * q + r) \div m = q
<1> DEFINE n == m * q + r
<1>1. n \in Nat /\ q * m <= n /\ n < q * m + m
  OBVIOUS
<1>2. n \div m = q
  BY <1>1, QuotientIs
<1>3. n = m * (n \div m) + (n % m)
  BY <1>1, Remainder
<1> QED BY <1>1, <1>2, <1>3

(* A lane has every NQueue-th ticket. *)
LEMMA LaneOf ==
  ASSUME NEW k \in Nat
  PROVE  k % NQueue \in Lanes /\ Lane(k) = Lane(k % NQueue) /\ Lane(k) \in Lanes
<1> DEFINE c == k % NQueue
           q == k \div NQueue
           d == (c * Phi) \div NQueue
           e == (c * Phi) % NQueue
<1>1. c \in 0 .. NQueue - 1 /\ q \in Nat /\ k = NQueue * q + c
  BY SizesAssumption, Remainder, Quotient
<1>2. c * Phi \in Nat /\ Phi \in Nat
  BY <1>1, PhiAssumption, SizesAssumption
<1>3. e \in 0 .. NQueue - 1 /\ d \in Nat /\ c * Phi = NQueue * d + e
  BY <1>2, SizesAssumption, Remainder, Quotient
<1> HIDE DEF c, q, d, e
<1>4. k * Phi = NQueue * (q * Phi + d) + e /\ q * Phi + d \in Nat
  <2>1. k * Phi = NQueue * (q * Phi) + c * Phi
    BY <1>1, <1>2, SizesAssumption
  <2>2. q * Phi \in Nat
    BY <1>1, <1>2
  <2> QED BY <1>3, <2>1, <2>2, SizesAssumption
<1>5. (k * Phi) % NQueue = e
  <2> DEFINE n == q * Phi + d
  <2>1. n \in Nat /\ k * Phi = NQueue * n + e
    BY <1>4
  <2> HIDE DEF n
  <2>2. (NQueue * n + e) % NQueue = e
    BY <1>3, <2>1, SizesAssumption, RemainderIs
  <2> QED BY <2>1, <2>2, Zenon
<1> QED BY <1>1, <1>3, <1>5 DEF c, e, Lane, Lanes

LEMMA SameLane ==
  ASSUME NEW k \in Nat, NEW m \in Nat
  PROVE  Lane(k) = Lane(m) <=> k % NQueue = m % NQueue
  BY LaneOf, PhiAssumption

(* Within a lane, rounding down changes no distance. *)
LEMMA Rounding ==
  ASSUME NEW k \in Nat
  PROVE  /\ Rounded(k) \in Nat /\ Rounded(k) <= k /\ k < Rounded(k) + NQueue
         /\ Rounded(k) = NQueue * (k \div NQueue)
  BY SizesAssumption, Remainder, Quotient DEF Rounded

LEMMA InLane ==
  ASSUME NEW k \in Nat, NEW m \in Nat, Lane(k) = Lane(m)
  PROVE  /\ Rounded(k) - Rounded(m) = k - m
         /\ k < m => k + NQueue <= m /\ Rounded(k) + NQueue <= Rounded(m)
<1>1. k % NQueue = m % NQueue
  BY SameLane
<1>2. /\ k % NQueue \in 0 .. NQueue - 1 /\ m % NQueue \in 0 .. NQueue - 1
  BY SizesAssumption, Remainder
<1>3. Rounded(k) - Rounded(m) = k - m
  BY <1>1, <1>2, SizesAssumption DEF Rounded
<1> DEFINE q == k \div NQueue
           r == m \div NQueue
<1>4. /\ q \in Nat /\ r \in Nat /\ NQueue \in Nat \ {0}
      /\ Rounded(k) = NQueue * q /\ Rounded(m) = NQueue * r
      /\ Rounded(k) \in Nat /\ Rounded(m) \in Nat
  BY SizesAssumption, Quotient, Rounding
<1> HIDE DEF q, r
<1>5. ASSUME k < m PROVE Rounded(k) + NQueue <= Rounded(m)
  <2>1. NQueue * q < NQueue * r
    BY <1>3, <1>4, <1>5
  <2>2. q < r
    <3>1. ASSUME r <= q PROVE NQueue * r <= NQueue * q
      <4>1. CASE r = q
        BY <4>1, <1>4
      <4>2. CASE r < q
        BY <4>2, <1>4, Multiples
      <4> QED BY <3>1, <1>4, <4>1, <4>2
    <3> QED BY <1>4, <2>1, <3>1
  <2>3. (q + 1) * NQueue <= r * NQueue
    BY <1>4, <2>2, Multiples
  <2> QED BY <1>4, <2>3
<1> QED BY <1>3, <1>4, <1>5, SizesAssumption

(* A lane has one ticket in each round. *)
LEMMA OneRound ==
  ASSUME NEW k \in Nat, NEW m \in Nat, Lane(k) = Lane(m), Rounded(k) = Rounded(m)
  PROVE  k = m
<1>1. Rounded(k) - Rounded(m) = k - m
  BY InLane
<1>2. Rounded(k) \in Nat
  BY Rounding
<1> QED BY ONLY <1>1, <1>2, k \in Nat, m \in Nat, Rounded(k) = Rounded(m)

(* A ticket is made of its page, its slot and the remainder of its lane. *)
LEMMA TicketMade ==
  ASSUME NEW a \in Nat, NEW i \in Slots, NEW c \in Lanes
  PROVE  LET k == NQueue * (ItemsPerPage * a + i) + c
         IN  /\ k \in Nat /\ k % NQueue = c /\ Index(k) = i
             /\ PageOf(k) = NQueue * (ItemsPerPage * a) + c
<1> DEFINE b == ItemsPerPage * a + i
           k == NQueue * b + c
<1>1. b \in Nat /\ NQueue \in Nat \ {0} /\ ItemsPerPage \in Nat \ {0} /\ c \in 0 .. NQueue - 1
      /\ i \in 0 .. ItemsPerPage - 1
  BY SizesAssumption DEF Slots, Lanes
<1>2. b % ItemsPerPage = i
  BY <1>1, RemainderIs
<1>3. k \in Nat /\ k = NQueue * (ItemsPerPage * a) + NQueue * i + c
  BY <1>1
<1> HIDE DEF b
<1>4. k % NQueue = c /\ k \div NQueue = b
  BY <1>1, RemainderIs
<1> HIDE DEF k
<1>5. Index(k) = i
  BY <1>2, <1>4 DEF Index
<1>6. PageOf(k) = NQueue * (ItemsPerPage * a) + c
  BY <1>1, <1>3, <1>5 DEF PageOf
<1> QED BY <1>3, <1>4, <1>5, <1>6 DEF k, b

LEMMA TicketParts ==
  ASSUME NEW k \in Nat
  PROVE  /\ Index(k) \in Slots /\ k % NQueue \in Lanes
         /\ \E a \in Nat : k = NQueue * (ItemsPerPage * a + Index(k)) + (k % NQueue)
<1> DEFINE b == k \div NQueue
<1>1. b \in Nat /\ k % NQueue \in 0 .. NQueue - 1 /\ k = NQueue * b + (k % NQueue)
  BY SizesAssumption, Remainder, Quotient
<1>2. Index(k) = b % ItemsPerPage
  BY DEF Index
<1> HIDE DEF b
<1> DEFINE a == b \div ItemsPerPage
<1>3. a \in Nat /\ Index(k) \in 0 .. ItemsPerPage - 1 /\ b = ItemsPerPage * a + Index(k)
  BY <1>1, <1>2, SizesAssumption, Remainder, Quotient
<1> HIDE DEF a
<1> QED BY <1>1, <1>3 DEF Slots, Lanes

(* A ticket's page is in its lane and starts with its first slot. *)
LEMMA PageOfTicket ==
  ASSUME NEW k \in Nat
  PROVE  /\ PageOf(k) \in Nat /\ PageOf(k) <= k /\ Index(k) \in 0 .. ItemsPerPage - 1
         /\ Lane(PageOf(k)) = Lane(k) /\ Index(PageOf(k)) = 0
         /\ k = PageOf(k) + NQueue * Index(k)
         /\ Index(k) = 0 <=> PageOf(k) = k
<1>1. /\ Index(k) \in Slots /\ k % NQueue \in Lanes
  BY TicketParts
<1>2. PICK a \in Nat : k = NQueue * (ItemsPerPage * a + Index(k)) + (k % NQueue)
  BY TicketParts
<1>3. PageOf(k) = NQueue * (ItemsPerPage * a) + (k % NQueue)
  BY <1>1, <1>2, TicketMade
<1>4. 0 \in Slots
  BY SizesAssumption DEF Slots
<1>5. ItemsPerPage * a + 0 = ItemsPerPage * a
  BY SizesAssumption
<1>6. PageOf(k) \in Nat /\ PageOf(k) % NQueue = k % NQueue /\ Index(PageOf(k)) = 0
  BY <1>1, <1>3, <1>4, <1>5, TicketMade
<1>7. Lane(PageOf(k)) = Lane(k)
  BY <1>6, SameLane
<1>8. NQueue * Index(k) \in Nat /\ (NQueue * Index(k) = 0 <=> Index(k) = 0)
  BY <1>1, SizesAssumption DEF Slots
<1>9. k = PageOf(k) + NQueue * Index(k) /\ PageOf(k) <= k
  BY <1>6, <1>8 DEF PageOf
<1> QED BY <1>1, <1>6, <1>7, <1>8, <1>9 DEF Slots

(* A page ends with its last slot, and the one behind it starts there. *)
LEMMA PageEnds ==
  ASSUME NEW p \in Nat, Index(p) = 0
  PROVE  /\ EndOf(p) \in Nat /\ p <= EndOf(p) /\ Lane(EndOf(p)) = Lane(p)
         /\ Index(EndOf(p)) = ItemsPerPage - 1 /\ PageOf(EndOf(p)) = p
         /\ Behind(p) \in Nat /\ p < Behind(p) /\ Lane(Behind(p)) = Lane(p)
         /\ Index(Behind(p)) = 0 /\ PageOf(Behind(p)) = Behind(p)
         /\ EndOf(p) + NQueue = Behind(p)
<1> DEFINE c == p % NQueue
           i == ItemsPerPage - 1
<1>1. c \in Lanes /\ i \in Slots /\ 0 \in Slots
  BY TicketParts, SizesAssumption DEF Slots
<1>2. PICK a \in Nat : p = NQueue * (ItemsPerPage * a + 0) + c
  BY TicketParts
<1>3. c \in Nat /\ NQueue \in Nat \ {0} /\ ItemsPerPage \in Nat \ {0}
  BY <1>1, SizesAssumption DEF Lanes
<1> HIDE DEF c
<1>4. EndOf(p) = NQueue * (ItemsPerPage * a + i) + c
  BY <1>2, <1>3 DEF EndOf
<1>5. EndOf(p) \in Nat /\ EndOf(p) % NQueue = c /\ Index(EndOf(p)) = i
      /\ PageOf(EndOf(p)) = NQueue * (ItemsPerPage * a) + c
  BY <1>1, <1>4, TicketMade
<1>6. ItemsPerPage * a + 0 = ItemsPerPage * a
  BY <1>3
<1>7. Behind(p) = NQueue * (ItemsPerPage * (a + 1) + 0) + c
  BY <1>2, <1>3 DEF Behind
<1>8. Behind(p) \in Nat /\ Behind(p) % NQueue = c /\ Index(Behind(p)) = 0
  BY <1>1, <1>7, TicketMade
<1>9. /\ EndOf(p) + NQueue = Behind(p) /\ p <= EndOf(p) /\ p < Behind(p)
  <2>1. NQueue * (ItemsPerPage - 1) \in Nat
        /\ NQueue * ItemsPerPage = NQueue * (ItemsPerPage - 1) + NQueue
    BY <1>3
  <2> QED BY <1>3, <2>1 DEF EndOf, Behind
<1>10. Lane(EndOf(p)) = Lane(p) /\ Lane(Behind(p)) = Lane(p)
  BY <1>5, <1>8, SameLane DEF c
<1>11. PageOf(Behind(p)) = Behind(p)
  BY <1>8, PageOfTicket
<1> QED BY <1>2, <1>5, <1>6, <1>8, <1>9, <1>10, <1>11

(* Pages of a lane do not overlap. *)
LEMMA PagesApart ==
  ASSUME NEW p \in Nat, NEW q \in Nat, Index(p) = 0, Index(q) = 0, Lane(p) = Lane(q), p < q
  PROVE  Behind(p) <= q
<1> DEFINE c == p % NQueue
           s == NQueue * ItemsPerPage
<1>1. c = q % NQueue /\ c \in Nat /\ NQueue \in Nat \ {0} /\ ItemsPerPage \in Nat \ {0}
  BY SameLane, SizesAssumption, Remainder
<1>2. PICK a \in Nat : p = NQueue * (ItemsPerPage * a + 0) + c
  BY TicketParts
<1>3. PICK b \in Nat : q = NQueue * (ItemsPerPage * b + 0) + c
  BY <1>1, TicketParts
<1> HIDE DEF c
<1>4. s \in Nat /\ p = a * s + c /\ q = b * s + c
  BY <1>1, <1>2, <1>3
<1>5. Behind(p) = p + s
  BY DEF Behind
<1> HIDE DEF s
<1>6. a < b
  <2>1. CASE a = b
    BY <1>4, <2>1
  <2>2. CASE b < a
    <3>1. (b + 1) * s <= a * s
      BY <1>4, <2>2, Multiples
    <3>2. (b + 1) * s = b * s + s /\ a * s \in Nat /\ b * s \in Nat
      BY <1>4
    <3> QED BY <1>1, <1>4, <3>1, <3>2
  <2> QED BY <2>1, <2>2
<1>7. (a + 1) * s <= b * s
  BY <1>4, <1>6, Multiples
<1>8. (a + 1) * s = a * s + s /\ a * s \in Nat /\ b * s \in Nat
  BY <1>4
<1> QED BY <1>1, <1>4, <1>5, <1>7, <1>8

(* The tickets of a page. *)
LEMMA OfPage ==
  ASSUME NEW p \in Nat, NEW k \in Nat, Index(p) = 0, Lane(k) = Lane(p)
  PROVE  /\ p <= k /\ k < Behind(p) <=> PageOf(k) = p
         /\ p <= k /\ k <= EndOf(p) <=> PageOf(k) = p
         /\ PageOf(k) < p <=> k < p
         /\ PageOf(k) = p => (Index(k) = ItemsPerPage - 1 <=> k = EndOf(p))
<1> DEFINE q == PageOf(k)
<1>1. /\ q \in Nat /\ q <= k /\ Lane(q) = Lane(p) /\ Index(q) = 0
      /\ k = q + NQueue * Index(k) /\ Index(k) \in 0 .. ItemsPerPage - 1
  BY PageOfTicket
<1> HIDE DEF q
<1>2. /\ Behind(p) \in Nat /\ EndOf(p) + NQueue = Behind(p) /\ EndOf(p) \in Nat
      /\ Lane(EndOf(p)) = Lane(p)
      /\ Behind(q) \in Nat /\ EndOf(q) + NQueue = Behind(q) /\ EndOf(q) \in Nat
  BY <1>1, PageEnds
<1>3. k <= EndOf(q)
  <2>1. Index(k) <= ItemsPerPage - 1 /\ Index(k) \in Nat /\ ItemsPerPage - 1 \in Nat
        /\ NQueue \in Nat
    BY <1>1, SizesAssumption
  <2>2. NQueue * Index(k) <= NQueue * (ItemsPerPage - 1) /\ NQueue * Index(k) \in Nat
        /\ NQueue * (ItemsPerPage - 1) \in Nat
    BY <2>1
  <2> QED BY <1>1, <2>2 DEF EndOf
<1>4. q < p => k < p
  <2> SUFFICES ASSUME q < p PROVE k < p
    OBVIOUS
  <2>1. Behind(q) <= p
    BY <1>1, PagesApart
  <2> QED BY <1>2, <1>3, <2>1, SizesAssumption
<1>5. p < q => Behind(p) <= q
  BY <1>1, PagesApart
<1>6. q = p => (Index(k) = ItemsPerPage - 1 <=> k = EndOf(p))
  <2> SUFFICES ASSUME q = p PROVE Index(k) = ItemsPerPage - 1 <=> k = EndOf(p)
    OBVIOUS
  <2>1. k = EndOf(p) => Index(k) = ItemsPerPage - 1
    BY PageEnds
  <2> QED BY <1>1, <2>1 DEF EndOf
<1> QED BY <1>1, <1>2, <1>3, <1>4, <1>5, <1>6, SizesAssumption DEF q

-----------------------------------------------------------------------------
(* A ticket behind another of its lane is pushed, and popped, after it. *)
LEMMA Earlier ==
  ASSUME NEW k \in Nat, NEW m \in Nat, Lane(k) = Lane(m), k <= m, Kinds
  PROVE  /\ Pushed(m) => Pushed(k)
         /\ Popped(m) => Popped(k)
         /\ Rounded(k) <= Rounded(m)
<1>1. Rounded(k) - Rounded(m) = k - m /\ Rounded(k) \in Nat /\ Rounded(m) \in Nat
  BY InLane, Rounding
<1>2. laneTail[Lane(k)] \in Nat /\ laneHead[Lane(k)] \in Nat
  BY LaneOf DEF Kinds
<1> QED BY <1>1, <1>2 DEF Pushed, Popped

(* Threads have tickets that are numbers; what is drawn fits the bound. *)
LEMMA Drawn ==
  ASSUME Turns, NEW t \in Threads
  PROVE  /\ ticket[t] \in Nat /\ MyLane(t) \in Lanes /\ MyLane(t) = Lane(ticket[t])
         /\ pc[t] \in Pushing => ticket[t] \in Tickets /\ PageOf(ticket[t]) \in Pages
         /\ pc[t] \in Popping => ticket[t] \in Tickets /\ PageOf(ticket[t]) \in Pages
<1>1. ticket[t] \in Nat /\ head \in Nat /\ tail \in 0 .. MaxPushes /\ head <= tail
  BY DEF Turns, Kinds, Order
<1>2. MyLane(t) \in Lanes
  BY <1>1, LaneOf DEF MyLane
<1>3. PageOf(ticket[t]) \in Nat /\ PageOf(ticket[t]) <= ticket[t]
  BY <1>1, PageOfTicket
<1>4. pc[t] \in Pushing \/ pc[t] \in Popping => ticket[t] < tail
  BY <1>1 DEF Turns, PushTurns, PopTurns
<1>5. ticket[t] < tail => ticket[t] \in Tickets /\ PageOf(ticket[t]) \in Pages
  BY <1>1, <1>3, SizesAssumption DEF Tickets, Pages
<1>6. MyLane(t) = Lane(ticket[t])
  BY DEF MyLane
<1> QED BY <1>1, <1>2, <1>4, <1>5, <1>6

(* The pop whose turn it is finds its page at the head of the list. *)
LEMMA TakesHead ==
  ASSUME Turns, HeadRight, NEW t \in Threads, pc[t] = "take"
  PROVE  headPage[MyLane(t)] = PageOf(ticket[t])
<1> DEFINE k == ticket[t]
           p == PageOf(k)
           e == EndOf(p)
           q == headPage[Lane(k)]
<1>1. /\ k \in Nat /\ p \in Nat /\ p <= k /\ Lane(p) = Lane(k) /\ Index(p) = 0
      /\ Lane(k) \in Lanes /\ MyLane(t) = Lane(k)
  BY Drawn, PageOfTicket
<1>2. /\ e \in Nat /\ k <= e /\ Lane(e) = Lane(k)
  BY <1>1, PageEnds, OfPage
<1>3. Pushed(k) /\ Rounded(k) = laneHead[Lane(k)] /\ Kinds /\ pc[t] \in Popping
  BY <1>1 DEF Turns, PopTurns, Popping
<1> HIDE DEF k, p, e, q
<1>4. Pushed(p)
  BY <1>1, <1>3, Earlier
<1>5. Rounded(k) <= Rounded(e) /\ Rounded(k) \in Nat /\ Rounded(e) \in Nat
      /\ Rounded(k) - Rounded(e) = k - e
  BY <1>1, <1>2, <1>3, Earlier, Rounding, InLane
<1>6. ~Popped(e)
  BY <1>2, <1>3, <1>5 DEF Popped
<1>7. ~Is(e, {"unlast", "pass"})
  <2> SUFFICES ASSUME NEW u \in Threads, pc[u] \in {"unlast", "pass"}, ticket[u] = e
               PROVE  FALSE
    BY DEF Is
  <2>1. Rounded(e) = laneHead[Lane(e)] /\ pc[u] \in Popping
    BY DEF Turns, PopTurns, Popping, MyLane
  <2>2. e = k
    BY <1>1, <1>2, <1>3, <1>5, <2>1
  <2>3. u = t
    BY <1>3, <2>1, <2>2 DEF Turns, OwnTickets, k
  <2> QED BY <2>3
<1>8. q # NoPage /\ q <= p
  BY <1>1, <1>4, <1>6, <1>7 DEF HeadRight, IsPage, Linked, Unlinked, e, q
<1>9. q \in Nat /\ Index(q) = 0 /\ Lane(q) = Lane(k) /\ ~Unlinked(q)
  <2>1. q \in Pages
    BY <1>1, <1>3, <1>8 DEF Kinds, q
  <2> QED BY <1>1, <2>1 DEF HeadRight, IsPage, q
<1>10. ASSUME q < p PROVE FALSE
  <2>1. Behind(q) <= p /\ EndOf(q) + NQueue = Behind(q) /\ EndOf(q) \in Nat
        /\ Lane(EndOf(q)) = Lane(k)
    BY <1>1, <1>9, <1>10, PagesApart, PageEnds
  <2>2. EndOf(q) < k
    BY <1>1, <2>1, SizesAssumption
  <2>3. Rounded(EndOf(q)) < Rounded(k)
    BY <1>1, <1>5, <2>1, <2>2, InLane, Rounding, SizesAssumption
  <2> QED BY <1>3, <1>9, <2>1, <2>3 DEF Popped, Unlinked
<1> QED BY <1>1, <1>8, <1>9, <1>10 DEF k, p, q

(* The push whose turn it is, and that allocated no page, finds its page   *)
(* at the tail of the list.                                                *)
LEMMA ReadsTail ==
  ASSUME Turns, TailRight, PushLocals, NEW t \in Threads, pc[t] = "tail"
  PROVE  tailPage[MyLane(t)] = PageOf(ticket[t])
<1> DEFINE k == ticket[t]
           p == PageOf(k)
           e == EndOf(p)
           q == tailPage[Lane(k)]
<1>1. /\ k \in Nat /\ p \in Nat /\ p <= k /\ Lane(p) = Lane(k) /\ Index(p) = 0
      /\ Lane(k) \in Lanes /\ MyLane(t) = Lane(k)
  BY Drawn, PageOfTicket
<1>2. /\ e \in Nat /\ k <= e /\ Lane(e) = Lane(k)
  BY <1>1, PageEnds, OfPage
<1>3. ~Pushed(k) /\ Rounded(k) = laneTail[Lane(k)] /\ Kinds /\ pc[t] \in Pushing /\ Index(k) # 0
  BY <1>1 DEF Turns, PushTurns, Pushing, PushLocals
<1>4. p # k
  BY <1>1, <1>3
<1> HIDE DEF k, p, e, q
<1>5. Rounded(p) < Rounded(k) /\ Rounded(k) <= Rounded(e)
  <2>1. Rounded(p) - Rounded(k) = p - k /\ Rounded(p) \in Nat /\ Rounded(k) \in Nat
    BY <1>1, InLane, Rounding
  <2>2. Rounded(k) <= Rounded(e)
    BY <1>1, <1>2, <1>3, Earlier
  <2> QED BY <1>1, <1>4, <2>1, <2>2
<1>6. Pushed(p) /\ ~Pushed(e)
  BY <1>1, <1>2, <1>3, <1>5, Earlier DEF Pushed
<1>7. ~Cleared(p)
  <2>1. ~Popped(e)
    <3>1. Rounded(e) \in Nat /\ laneHead[Lane(e)] <= laneTail[Lane(e)]
          /\ laneHead[Lane(e)] \in Nat /\ laneTail[Lane(e)] \in Nat
      BY <1>1, <1>2, Rounding DEF Turns, Order, Kinds
    <3> QED BY <1>6, <3>1 DEF Pushed, Popped
  <2>2. ~Is(e, {"pass"})
    BY <1>6 DEF Is, Turns, PopTurns, Popping
  <2> QED BY <2>1, <2>2 DEF Cleared, e
<1>8. q # NoPage /\ p <= q
  BY <1>1, <1>6, <1>7 DEF TailRight, IsPage, Ended, q
<1>9. q \in Nat /\ Index(q) = 0 /\ Lane(q) = Lane(k) /\ Ended(q)
  <2>1. q \in Pages
    BY <1>1, <1>3, <1>8 DEF Kinds, q
  <2> QED BY <1>1, <2>1 DEF TailRight, IsPage, q
<1>10. q < k
  <2>1. CASE Pushed(q)
    <3>1. Rounded(q) < Rounded(k)
      BY <1>3, <1>9, <2>1 DEF Pushed
    <3> QED BY <1>1, <1>9, <3>1, InLane, Rounding
  <2>2. CASE Is(q, {"store", "advance"})
    <3>1. PICK u \in Threads : pc[u] \in {"store", "advance"} /\ ticket[u] = q
      BY <2>2 DEF Is
    <3>2. Rounded(q) = laneTail[Lane(q)]
      BY <3>1 DEF Turns, PushTurns, Pushing, MyLane
    <3>3. q = k
      BY <1>1, <1>3, <1>9, <3>2, InLane, Rounding
    <3> QED BY <1>3, <1>9, <3>3
  <2> QED BY <1>9, <2>1, <2>2 DEF Ended
<1>11. q <= p
  BY <1>1, <1>9, <1>10, OfPage DEF p
<1> QED BY <1>1, <1>8, <1>9, <1>11 DEF k, p, q

-----------------------------------------------------------------------------
(* What an action of a thread does. *)
Push(t) == PushTurn(t) \/ ReadTailPage(t) \/ LinkLock(t) \/ LinkPage(t) \/ LinkLast(t)
             \/ Store(t) \/ Advance(t)
Pop(t) == CheckEmpty(t) \/ CheckSome(t) \/ CasDraws(t) \/ CasFails(t)
            \/ PopTurn(t) \/ PopFilled(t) \/ TakeItem(t)
            \/ UnlinkLock(t) \/ UnlinkPage(t) \/ UnlinkLast(t) \/ PassTurn(t) \/ FreePage(t)

(* Every counter, pointer and local stays of its kind. *)
LEMMA PushKinds ==
  ASSUME IInv, NEW t \in Threads, PushTicket(t) \/ Push(t)
  PROVE  Kinds'
<1>0. /\ Kinds /\ ticket[t] \in Nat /\ MyLane(t) \in Lanes /\ Index(ticket[t]) \in Slots
      /\ pc[t] \in Pushing => ticket[t] \in Tickets
      /\ NQueue \in Nat \ {0} /\ MaxPushes \in Nat
  BY Drawn, TicketParts, SizesAssumption DEF IInv, Turns
<1>1. CASE PushTicket(t)
  <2>1. tail \in Nat /\ tail \in Pages /\ tail + 1 \in 0 .. MaxPushes
    BY <1>0, <1>1 DEF PushTicket, Kinds, Pages, Tickets
  <2>2. page' \in [Threads -> Pages \union {NoPage}]
    BY <1>0, <1>1, <2>1 DEF PushTicket, AllocatePage, Kinds
  <2> QED BY <1>0, <1>1, <2>1, <2>2
          DEF PushTicket, GoTo, Kinds, laneVars, Location, Pushing
<1>2. CASE PushTurn(t)
  BY <1>0, <1>2 DEF PushTurn, GoTo, Kinds, queueVars, laneVars, pageVars, localVars, Location,
                    Pushing
<1>3. CASE ReadTailPage(t)
  BY <1>0, <1>3 DEF ReadTailPage, GoTo, Kinds, queueVars, laneVars, pageVars, Location, Pushing
<1>4. CASE LinkLock(t)
  <2>1. lock' \in [Lanes -> {{}} \union {{u} : u \in Threads}]
    BY <1>0, <1>4 DEF LinkLock, Acquire, Kinds
  <2> QED BY <1>0, <1>4, <2>1 DEF LinkLock, GoTo, Kinds, queueVars, pageVars, Location, Pushing
<1>5. CASE LinkPage(t)
  <2>1. next' \in [Pages -> Pages \union {NoPage}] /\ headPage' \in [Lanes -> Pages \union {NoPage}]
    BY <1>0, <1>5 DEF LinkPage, Kinds
  <2> QED BY <1>0, <1>5, <2>1 DEF LinkPage, GoTo, Kinds, queueVars, localVars, Location, Pushing
<1>6. CASE LinkLast(t)
  <2>1. lock' \in [Lanes -> {{}} \union {{u} : u \in Threads}]
    BY <1>0, <1>6 DEF LinkLast, Release, Kinds
  <2> QED BY <1>0, <1>6, <2>1
          DEF LinkLast, GoTo, Kinds, queueVars, pageVars, localVars, Location, Pushing
<1>7. CASE Store(t)
  <2>1. ticket[t] \in Items
    BY <1>0, <1>7 DEF Store, At, Pushing, Items
  <2>2. slots' \in [Pages -> [Slots -> Items \union {Nothing}]]
    BY <1>0, <1>7, <2>1 DEF Store, Kinds
  <2>3. mask' \in [Pages -> SUBSET Slots]
    BY <1>0, <1>7 DEF Store, Kinds
  <2> QED BY <1>0, <1>7, <2>2, <2>3
          DEF Store, GoTo, Kinds, queueVars, laneVars, localVars, Location, Pushing
<1>8. CASE Advance(t)
  <2>1. laneTail[MyLane(t)] = Rounded(ticket[t]) /\ ticket[t] \in 0 .. MaxPushes - 1
    BY <1>0, <1>8 DEF Advance, At, IInv, Turns, PushTurns, Pushing, Tickets
  <2>2. Rounded(ticket[t]) \in Nat /\ Rounded(ticket[t]) <= ticket[t]
    BY <1>0, Rounding
  <2>3. laneTail[MyLane(t)] + NQueue \in 0 .. MaxPushes + NQueue
    BY <1>0, <2>1, <2>2
  <2>4. laneTail' \in [Lanes -> 0 .. MaxPushes + NQueue]
    BY <1>0, <1>8, <2>3 DEF Advance, Kinds
  <2> QED BY <1>0, <1>8, <2>4
          DEF Advance, Leave, GoTo, Kinds, queueVars, pageVars, Location
<1> QED BY <1>1, <1>2, <1>3, <1>4, <1>5, <1>6, <1>7, <1>8 DEF Push

LEMMA PopKinds ==
  ASSUME IInv, NEW t \in Threads, CallPop(t) \/ Pop(t)
  PROVE  Kinds'
<1>0. /\ Kinds /\ ticket[t] \in Nat /\ MyLane(t) \in Lanes /\ Index(ticket[t]) \in Slots
      /\ pc[t] \in Popping => ticket[t] \in Tickets /\ PageOf(ticket[t]) \in Pages
      /\ NQueue \in Nat \ {0} /\ MaxPushes \in Nat
      /\ Rounded(ticket[t]) + NQueue \in Nat
  <2>1. Kinds /\ Turns
    BY DEF IInv, Turns
  <2>2. ticket[t] \in Nat
    BY <2>1, Drawn
  <2>3. Rounded(ticket[t]) \in Nat /\ Index(ticket[t]) \in Slots
    BY <2>2, TicketParts, Rounding
  <2> QED BY <2>1, <2>2, <2>3, Drawn, SizesAssumption
<1>00. pc[t] # "gone" => Lists /\ Here
  BY DEF IInv, Turns, AllOrNone, Here
<1> USE DEF Location, Deciding, Popping
<1>1. CASE CallPop(t)
  BY <1>0, <1>1 DEF CallPop, GoTo, Kinds, queueVars, laneVars, pageVars
<1>2. CASE CheckEmpty(t)
  BY <1>0, <1>2 DEF CheckEmpty, Leave, GoTo, Kinds, queueVars, laneVars, pageVars
<1>3. CASE CheckSome(t)
  BY <1>0, <1>3 DEF CheckSome, GoTo, Kinds, queueVars, laneVars, pageVars, localVars
<1>4. CASE CasDraws(t)
  BY <1>0, <1>4 DEF CasDraws, GoTo, Kinds, laneVars, pageVars, localVars
<1>5. CASE CasFails(t)
  BY <1>0, <1>5 DEF CasFails, GoTo, Kinds, queueVars, laneVars, pageVars
<1>6. CASE PopTurn(t)
  BY <1>0, <1>6 DEF PopTurn, GoTo, Kinds, queueVars, laneVars, pageVars, localVars
<1>7. CASE PopFilled(t)
  BY <1>0, <1>7 DEF PopFilled, GoTo, Kinds, queueVars, laneVars, pageVars, localVars
<1>8. CASE TakeItem(t)
  <2>1. headPage[MyLane(t)] = PageOf(ticket[t]) /\ PageOf(ticket[t]) \in Pages
    BY <1>0, <1>00, <1>8, TakesHead DEF TakeItem, At, IInv, Lists, Listed
  <2>2. slots[headPage[MyLane(t)]][Index(ticket[t])] \in Items \union {Nothing}
    BY <1>0, <2>1 DEF Kinds
  <2>3. slots' \in [Pages -> [Slots -> Items \union {Nothing}]]
    BY <1>0, <1>8 DEF TakeItem, Kinds
  <2>4. result' \in [Threads -> Items \union {Pending, Nothing}]
    BY <1>0, <1>8, <2>2 DEF TakeItem, Kinds
  <2>5. page' \in [Threads -> Pages \union {NoPage}]
    BY <1>0, <1>8, <2>1 DEF TakeItem, Kinds
  <2>6. pc' \in [Threads -> Location]
    BY <1>0, <1>8 DEF TakeItem, Kinds, GoTo
  <2> QED BY <1>0, <1>8, <2>3, <2>4, <2>5, <2>6 DEF TakeItem, Kinds, queueVars, laneVars
<1>9. CASE UnlinkLock(t)
  <2>1. page[t] \in Pages
    BY <1>0, <1>00, <1>9 DEF UnlinkLock, At, Lists, Listed, PopLocals
  <2>2. other' \in [Threads -> Pages \union {NoPage}]
    BY <1>0, <1>9, <2>1 DEF UnlinkLock, Kinds
  <2>3. lock' \in [Lanes -> {{}} \union {{u} : u \in Threads}]
    BY <1>0, <1>9 DEF UnlinkLock, Acquire, Kinds
  <2> QED BY <1>0, <1>9, <2>2, <2>3 DEF UnlinkLock, GoTo, Kinds, queueVars, pageVars
<1>10. CASE UnlinkPage(t)
  BY <1>0, <1>10 DEF UnlinkPage, GoTo, Kinds, queueVars, pageVars, localVars
<1>11. CASE UnlinkLast(t)
  <2>1. lock' \in [Lanes -> {{}} \union {{u} : u \in Threads}]
    BY <1>0, <1>11 DEF UnlinkLast, Release, Kinds
  <2>2. tailPage' \in [Lanes -> Pages \union {NoPage}]
    BY <1>0, <1>11 DEF UnlinkLast, Kinds
  <2> QED BY <1>0, <1>11, <2>1, <2>2 DEF UnlinkLast, GoTo, Kinds, queueVars, pageVars, localVars
<1>12. CASE PassTurn(t)
  <2>1. laneHead' \in [Lanes -> Nat]
    BY <1>0, <1>12 DEF PassTurn, Kinds
  <2>2. /\ ticket' \in [Threads -> Nat] /\ page' \in [Threads -> Pages \union {NoPage}]
        /\ other' \in [Threads -> Pages \union {NoPage}] /\ pc' \in [Threads -> Location]
    <3>1. CASE LastSlot(t)
      BY <1>0, <1>12, <3>1 DEF PassTurn, GoTo, Kinds
    <3>2. CASE ~LastSlot(t)
      <4>1. Leave(t)
        BY <1>12, <3>2 DEF PassTurn
      <4> QED BY <1>0, <4>1 DEF Leave, GoTo, Kinds
    <3> QED BY <3>1, <3>2
  <2> QED BY <1>0, <1>12, <2>1, <2>2 DEF PassTurn, Kinds, queueVars, pageVars
<1>13. CASE FreePage(t)
  BY <1>0, <1>13 DEF FreePage, Leave, GoTo, Kinds, queueVars, laneVars
<1> QED BY <1>1, <1>2, <1>3, <1>4, <1>5, <1>6, <1>7, <1>8, <1>9, <1>10, <1>11, <1>12, <1>13
        DEF Pop

(* What an action does to the turns: from where to where its thread goes,  *)
(* and what becomes of the counters and tickets.                           *)
Goes(t, from, to) == pc[t] = from /\ pc' = [pc EXCEPT ![t] = to]
Counters == <<head, tail, laneHead, laneTail>>

Draws(t) ==
  /\ Goes(t, "out", "turn") /\ tail' = tail + 1
  /\ ticket' = [ticket EXCEPT ![t] = tail]
  /\ UNCHANGED <<head, laneHead, laneTail>>

(* The places between the first and the last of a push and of a pop.       *)
Storing == {"tail", "lock", "link", "last", "store", "advance"}
Removing == {"take", "unlock", "unlink", "unlast", "pass"}

Works(t, from, to) == Goes(t, from, to) /\ UNCHANGED <<Counters, ticket>>

ReachesTurn(t) ==
  /\ Rounded(ticket[t]) = laneTail[MyLane(t)]
  /\ \E to \in {"lock", "tail"} : Works(t, "turn", to)

Advances(t) ==
  /\ Goes(t, "advance", "out")
  /\ laneTail' = [laneTail EXCEPT ![MyLane(t)] = @ + NQueue]
  /\ ticket' = [ticket EXCEPT ![t] = 0]
  /\ UNCHANGED <<head, tail, laneHead>>

Asks(t) ==
  /\ Goes(t, "out", "check") /\ ticket' = [ticket EXCEPT ![t] = head]
  /\ result'[t] = Pending
  /\ UNCHANGED Counters

Fails(t) ==
  /\ Goes(t, "check", "out") /\ tail <= ticket[t]
  /\ ticket' = [ticket EXCEPT ![t] = 0] /\ result'[t] = Nothing
  /\ UNCHANGED Counters

Tries(t) == Works(t, "check", "cas") /\ ticket[t] < tail /\ UNCHANGED result

Wins(t) ==
  /\ Goes(t, "cas", "mine") /\ head = ticket[t] /\ head' = head + 1
  /\ UNCHANGED <<tail, laneHead, laneTail, ticket>>

Loses(t) ==
  /\ Goes(t, "cas", "check") /\ ticket' = [ticket EXCEPT ![t] = head]
  /\ UNCHANGED <<Counters, result>>

ReachesPop(t) == Works(t, "mine", "filled") /\ Rounded(ticket[t]) = laneHead[MyLane(t)]
SeesItem(t) == Works(t, "filled", "take") /\ laneTail[MyLane(t)] # Rounded(ticket[t])

Passes(t) ==
  /\ laneHead' = [laneHead EXCEPT ![MyLane(t)] = Rounded(ticket[t]) + NQueue]
  /\ \/ Goes(t, "pass", "free") /\ LastSlot(t) /\ UNCHANGED ticket
     \/ Goes(t, "pass", "out") /\ ~LastSlot(t) /\ ticket' = [ticket EXCEPT ![t] = 0]
  /\ UNCHANGED <<head, tail, laneTail>>

Frees(t) ==
  /\ Goes(t, "free", "out") /\ ticket' = [ticket EXCEPT ![t] = 0]
  /\ UNCHANGED Counters

WorkStep(t) ==
  \/ \E from \in Storing, to \in Storing : Works(t, from, to)
  \/ \E from \in Removing, to \in Removing : Works(t, from, to)

(* No action concerns the locals of another thread. *)
Others(t) ==
  \A u \in Threads : u # t =>
    pc'[u] = pc[u] /\ ticket'[u] = ticket[u] /\ result'[u] = result[u]

TurnStep(t) ==
  \/ Draws(t) \/ ReachesTurn(t) \/ WorkStep(t) \/ Advances(t)
  \/ Asks(t) \/ Fails(t) \/ Tries(t) \/ Wins(t) \/ Loses(t)
  \/ ReachesPop(t) \/ SeesItem(t) \/ Passes(t) \/ Frees(t)

LEMMA ActionTurns ==
  ASSUME Kinds, NEW t \in Threads, PushTicket(t) \/ Push(t) \/ CallPop(t) \/ Pop(t)
  PROVE  TurnStep(t) /\ Others(t)
<1> USE DEF Goes, Counters, Works, At, GoTo, queueVars, laneVars, pageVars, localVars
<1>1. PushTicket(t) => Draws(t)
  BY DEF PushTicket, Draws
<1>2. PushTurn(t) => ReachesTurn(t)
  BY DEF PushTurn, ReachesTurn
<1>3. ReadTailPage(t) \/ LinkLock(t) \/ LinkPage(t) \/ LinkLast(t) \/ Store(t) => WorkStep(t)
  BY DEF ReadTailPage, LinkLock, LinkPage, LinkLast, Store, WorkStep, Storing
<1>4. Advance(t) => Advances(t)
  BY DEF Advance, Advances, Leave
<1>5. CallPop(t) => Asks(t)
  BY DEF CallPop, Asks, Kinds
<1>6. ticket[t] \in Nat /\ tail \in Nat
  BY DEF Kinds
<1>7. CheckEmpty(t) => Fails(t)
  BY <1>6 DEF CheckEmpty, Fails, Leave, Kinds
<1>8. CheckSome(t) => Tries(t)
  BY <1>6 DEF CheckSome, Tries
<1>9. CasDraws(t) => Wins(t)
  BY DEF CasDraws, Wins
<1>10. CasFails(t) => Loses(t)
  BY DEF CasFails, Loses
<1>11. PopTurn(t) => ReachesPop(t)
  BY DEF PopTurn, ReachesPop
<1>12. PopFilled(t) => SeesItem(t)
  BY DEF PopFilled, SeesItem
<1>13. TakeItem(t) \/ UnlinkLock(t) \/ UnlinkPage(t) \/ UnlinkLast(t) => WorkStep(t)
  <2>1. TakeItem(t) => \E to \in {"unlock", "pass"} : Works(t, "take", to)
    BY DEF TakeItem
  <2> QED BY <2>1 DEF UnlinkLock, UnlinkPage, UnlinkLast, WorkStep, Removing
<1>14. PassTurn(t) => Passes(t)
  BY DEF PassTurn, Passes, Leave
<1>15. FreePage(t) => Frees(t)
  BY DEF FreePage, Frees, Leave
<1>16. TurnStep(t)
  BY <1>1, <1>2, <1>3, <1>4, <1>5, <1>7, <1>8, <1>9, <1>10, <1>11, <1>12, <1>13, <1>14, <1>15
     DEF TurnStep, Push, Pop
<1>17. \A u \in Threads : u # t => pc'[u] = pc[u] /\ ticket'[u] = ticket[u]
  BY <1>16 DEF TurnStep, Draws, ReachesTurn, WorkStep, Advances, Asks, Fails, Tries, Wins, Loses,
               ReachesPop, SeesItem, Passes, Frees, Kinds
<1>18. \A u \in Threads : u # t => result'[u] = result[u]
  BY DEF Push, Pop, PushTicket, PushTurn, ReadTailPage, LinkLock, LinkPage, LinkLast, Store,
         Advance, CallPop, CheckEmpty, CheckSome, CasDraws, CasFails, PopTurn, PopFilled, TakeItem,
         UnlinkLock, UnlinkPage, UnlinkLast, PassTurn, FreePage, Kinds
<1> QED BY <1>16, <1>17, <1>18 DEF Others

LEMMA AllDrawn ==
  ASSUME Turns
  PROVE  /\ Kinds /\ head \in Nat /\ tail \in Nat
         /\ \A u \in Threads : ticket[u] \in Nat /\ MyLane(u) \in Lanes
                               /\ Rounded(ticket[u]) \in Nat
<1>1. Kinds /\ head \in Nat /\ tail \in Nat
  BY SizesAssumption DEF Turns, Kinds
<1>2. \A u \in Threads : ticket[u] \in Nat /\ MyLane(u) \in Lanes
  BY Drawn
<1> QED BY <1>1, <1>2, Rounding

(* Every class of step keeps the turns. *)
LEMMA WorkTurns ==
  ASSUME Turns, Kinds', NEW t \in Threads, Others(t),
         WorkStep(t) \/ ReachesTurn(t) \/ ReachesPop(t) \/ SeesItem(t)
  PROVE  Turns'
<1> USE DEF Turns, Goes, Works, Counters
<1>0. /\ Kinds /\ \A u \in Threads : ticket[u] \in Nat /\ MyLane(u) \in Lanes
                                     /\ Rounded(ticket[u]) \in Nat
      /\ UNCHANGED <<Counters, ticket>>
  BY Drawn, Rounding DEF WorkStep, ReachesTurn, ReachesPop, SeesItem
<1>1. PICK from \in Pushing \union Popping, to \in Pushing \union Popping :
        /\ Works(t, from, to)
        /\ \/ from \in Storing /\ to \in Storing
           \/ from \in Removing /\ to \in Removing
           \/ from = "turn" /\ to \in Storing /\ Rounded(ticket[t]) = laneTail[MyLane(t)]
           \/ from = "mine" /\ to = "filled" /\ Rounded(ticket[t]) = laneHead[MyLane(t)]
           \/ from = "filled" /\ to = "take" /\ laneTail[MyLane(t)] # Rounded(ticket[t])
  BY DEF WorkStep, ReachesTurn, ReachesPop, SeesItem, Storing, Removing, Pushing, Popping
<1>2. /\ pc[t] = from /\ pc'[t] = to /\ \A u \in Threads : u # t => pc'[u] = pc[u]
      /\ from \in Pushing <=> to \in Pushing
      /\ from \in Popping <=> to \in Popping
      /\ from \notin Deciding /\ to \notin Deciding /\ from # "gone" /\ to # "gone"
  BY <1>0, <1>1 DEF Kinds, Storing, Removing, Pushing, Popping, Deciding
<1>3. \A k : Pushed(k)' = Pushed(k) /\ Popped(k)' = Popped(k)
  BY <1>0 DEF Pushed, Popped
<1>4. \A u \in Threads : /\ pc'[u] \in Pushing <=> pc[u] \in Pushing
                         /\ pc'[u] \in Popping <=> pc[u] \in Popping
                         /\ ticket'[u] = ticket[u] /\ MyLane(u)' = MyLane(u)
  BY <1>0, <1>2 DEF MyLane
<1>5. PushTurns'
  <2> SUFFICES ASSUME NEW u \in Threads, pc'[u] \in Pushing
               PROVE  /\ ticket[u] < tail /\ ~Pushed(ticket[u])
                      /\ pc'[u] # "turn" => Rounded(ticket[u]) = laneTail[MyLane(u)]
    BY <1>0, <1>3, <1>4 DEF PushTurns
  <2>1. ticket[u] < tail /\ ~Pushed(ticket[u])
    BY <1>4 DEF PushTurns
  <2>2. pc[u] # "turn" => Rounded(ticket[u]) = laneTail[MyLane(u)]
    BY <1>4 DEF PushTurns
  <2>3. from = "turn" \/ from # "turn"
    OBVIOUS
  <2> QED BY <1>1, <1>2, <2>1, <2>2 DEF Storing, Removing
<1>6. PopTurns'
  <2> SUFFICES ASSUME NEW u \in Threads, pc'[u] \in Popping
               PROVE  /\ ticket[u] < head
                      /\ Popped(ticket[u]) <=> pc'[u] = "free"
                      /\ pc'[u] \notin {"mine", "free"} => Rounded(ticket[u]) = laneHead[MyLane(u)]
                      /\ pc'[u] \notin {"mine", "filled"} => Pushed(ticket[u])
    BY <1>0, <1>3, <1>4 DEF PopTurns
  <2>1. /\ ticket[u] < head
        /\ Popped(ticket[u]) <=> pc[u] = "free"
        /\ pc[u] \notin {"mine", "free"} => Rounded(ticket[u]) = laneHead[MyLane(u)]
        /\ pc[u] \notin {"mine", "filled"} => Pushed(ticket[u])
    BY <1>4 DEF PopTurns
  <2>2. CASE u # t
    BY <1>2, <2>1, <2>2
  <2>3. CASE u = t /\ from # "filled"
    BY <1>1, <1>2, <2>1, <2>3 DEF Storing, Removing, Popping, Pushing
  <2>4. CASE u = t /\ from = "filled"
    <3>1. to = "take" /\ laneTail[MyLane(t)] # Rounded(ticket[t])
          /\ Rounded(ticket[t]) = laneHead[MyLane(t)]
      BY <1>1, <1>2, <2>1, <2>4 DEF Storing, Removing
    <3>2. laneHead[MyLane(t)] <= laneTail[MyLane(t)]
          /\ laneHead[MyLane(t)] \in Nat /\ laneTail[MyLane(t)] \in Nat
      BY <1>0 DEF Order, Kinds
    <3>3. Pushed(ticket[t])
      BY <3>1, <3>2 DEF Pushed, MyLane
    <3> QED BY <1>2, <2>1, <2>4, <3>1, <3>3
  <2> QED BY <2>2, <2>3, <2>4
<1>7. Decisions'
  <2> SUFFICES ASSUME NEW u \in Threads, pc'[u] \in Deciding
               PROVE  /\ ticket[u] <= head /\ result'[u] = Pending
                      /\ pc'[u] = "cas" => ticket[u] < tail
    BY <1>0, <1>4 DEF Decisions
  <2>1. u # t /\ pc'[u] = pc[u]
    BY <1>2
  <2>2. result'[u] = result[u]
    BY <2>1 DEF Others
  <2> QED BY <1>0, <2>1, <2>2 DEF Decisions
<1>8. OwnTickets'
  BY <1>4 DEF OwnTickets
<1>9. Order'
  <2>1. \A k : (Is(k, Pushing) => Is(k, Pushing)') /\ (Is(k, Popping) => Is(k, Popping)')
    BY <1>4 DEF Is
  <2> QED BY <1>0, <1>3, <2>1 DEF Order
<1>10. AllOrNone'
  BY <1>2 DEF AllOrNone
<1> QED BY <1>5, <1>6, <1>7, <1>8, <1>9, <1>10

LEMMA DrawTurns ==
  ASSUME Turns, Kinds', NEW t \in Threads, Others(t), Draws(t)
  PROVE  Turns'
<1> USE DEF Turns, Goes
<1>0. /\ Kinds /\ \A u \in Threads : ticket[u] \in Nat /\ MyLane(u) \in Lanes
                                     /\ Rounded(ticket[u]) \in Nat
      /\ tail \in Nat /\ tail' = tail + 1 /\ UNCHANGED <<head, laneHead, laneTail>>
      /\ head \in Nat /\ head <= tail
  BY Drawn, Rounding DEF Draws, Kinds, Order
<1>1. /\ pc[t] = "out" /\ pc'[t] = "turn" /\ ticket'[t] = tail
      /\ \A u \in Threads : u # t =>
           pc'[u] = pc[u] /\ ticket'[u] = ticket[u] /\ MyLane(u)' = MyLane(u)
  BY <1>0 DEF Draws, Kinds, Others, MyLane
<1>2. \A k : Pushed(k)' = Pushed(k) /\ Popped(k)' = Popped(k)
  BY <1>0 DEF Pushed, Popped
<1>3. "turn" \in Pushing /\ "turn" \notin Popping /\ "turn" \notin Deciding /\ "turn" # "gone"
      /\ "out" \notin Pushing /\ "out" \notin Popping /\ "out" \notin Deciding /\ "out" # "gone"
  BY DEF Pushing, Popping, Deciding
<1>4. ~Pushed(tail)
  BY <1>0 DEF Order
<1>5. PushTurns'
  <2> SUFFICES ASSUME NEW u \in Threads, pc'[u] \in Pushing
               PROVE  /\ ticket'[u] < tail + 1 /\ ~Pushed(ticket'[u])
                      /\ pc'[u] # "turn" => Rounded(ticket'[u]) = laneTail[MyLane(u)']
    BY <1>0, <1>2 DEF PushTurns
  <2>1. CASE u = t
    BY <1>0, <1>1, <1>4, <2>1
  <2>2. CASE u # t
    BY <1>0, <1>1, <2>2 DEF PushTurns
  <2> QED BY <2>1, <2>2
<1>6. PopTurns'
  <2> SUFFICES ASSUME NEW u \in Threads, pc'[u] \in Popping
               PROVE  /\ ticket'[u] < head
                      /\ Popped(ticket'[u]) <=> pc'[u] = "free"
                      /\ pc'[u] \notin {"mine", "free"} => Rounded(ticket'[u]) = laneHead[MyLane(u)']
                      /\ pc'[u] \notin {"mine", "filled"} => Pushed(ticket'[u])
    BY <1>0, <1>2 DEF PopTurns
  <2>1. u # t
    BY <1>1, <1>3
  <2> QED BY <1>1, <2>1 DEF PopTurns
<1>7. Decisions'
  <2> SUFFICES ASSUME NEW u \in Threads, pc'[u] \in Deciding
               PROVE  /\ ticket'[u] <= head /\ result'[u] = Pending
                      /\ pc'[u] = "cas" => ticket'[u] < tail + 1
    BY <1>0 DEF Decisions
  <2>1. u # t
    BY <1>1, <1>3
  <2> QED BY <1>0, <1>1, <2>1 DEF Decisions, Others
<1>8. OwnTickets'
  <2>1. \A u \in Threads : pc[u] \in Pushing => ticket[u] # tail
    BY <1>0 DEF PushTurns
  <2> QED BY <1>1, <1>3, <2>1 DEF OwnTickets
<1>9. Order'
  <2>1. \A k : Is(k, Pushing) => Is(k, Pushing)'
    BY <1>1, <1>3 DEF Is
  <2>2. \A k : Is(k, Popping) => Is(k, Popping)'
    BY <1>1, <1>3 DEF Is
  <2>3. \A k : k = tail => Is(k, Pushing)'
    BY <1>0, <1>1, <1>3 DEF Is
  <2>4. \A k \in Nat : k < tail + 1 => k < tail \/ k = tail
    BY <1>0
  <2> QED BY <1>0, <1>2, <2>1, <2>2, <2>3, <2>4 DEF Order
<1>10. AllOrNone'
  BY <1>1, <1>3 DEF AllOrNone
<1> QED BY <1>5, <1>6, <1>7, <1>8, <1>9, <1>10

(* A thread that decides whether to pop moves no turn. *)
LEMMA DecideTurns ==
  ASSUME Turns, Kinds', NEW t \in Threads, Others(t),
         Asks(t) \/ Fails(t) \/ Tries(t) \/ Loses(t)
  PROVE  Turns'
<1> USE DEF Turns, Goes, Counters
<1>0. /\ Kinds /\ \A u \in Threads : ticket[u] \in Nat /\ MyLane(u) \in Lanes
                                     /\ Rounded(ticket[u]) \in Nat
      /\ UNCHANGED Counters /\ head \in Nat /\ tail \in Nat
  BY AllDrawn DEF Asks, Fails, Tries, Works, Loses
<1>1. \A u \in Threads : u # t =>
        pc'[u] = pc[u] /\ ticket'[u] = ticket[u] /\ MyLane(u)' = MyLane(u)
  BY DEF Others, MyLane
<1>2. /\ pc[t] \in {"out", "check", "cas"} /\ pc'[t] \in {"out", "check", "cas"}
      /\ pc'[t] # "out" => ticket'[t] <= head /\ result'[t] = Pending
      /\ pc'[t] = "cas" => ticket'[t] < tail
  BY <1>0 DEF Asks, Fails, Tries, Works, Loses, Kinds, Decisions, Deciding
<1>3. \A k : Pushed(k)' = Pushed(k) /\ Popped(k)' = Popped(k)
  BY <1>0 DEF Pushed, Popped
<1>4. \A x \in {"out", "check", "cas"} : x \notin Pushing /\ x \notin Popping /\ x # "gone"
  BY DEF Pushing, Popping
<1>5. PushTurns' /\ PopTurns'
  BY <1>0, <1>1, <1>2, <1>3, <1>4 DEF PushTurns, PopTurns
<1>6. Decisions'
  <2> SUFFICES ASSUME NEW u \in Threads, pc'[u] \in Deciding
               PROVE  /\ ticket'[u] <= head /\ result'[u] = Pending
                      /\ pc'[u] = "cas" => ticket'[u] < tail
    BY <1>0 DEF Decisions
  <2>1. CASE u = t
    BY <1>2, <2>1 DEF Deciding
  <2>2. CASE u # t
    BY <1>1, <2>2 DEF Decisions, Others
  <2> QED BY <2>1, <2>2
<1>7. OwnTickets'
  BY <1>1, <1>2, <1>4 DEF OwnTickets
<1>8. Order'
  <2>1. \A k : (Is(k, Pushing) => Is(k, Pushing)') /\ (Is(k, Popping) => Is(k, Popping)')
    BY <1>1, <1>2, <1>4 DEF Is
  <2> QED BY <1>0, <1>3, <2>1 DEF Order
<1>9. AllOrNone'
  BY <1>1, <1>2, <1>4 DEF AllOrNone
<1> QED BY <1>5, <1>6, <1>7, <1>8, <1>9

LEMMA WinTurns ==
  ASSUME Turns, Kinds', NEW t \in Threads, Others(t), Wins(t)
  PROVE  Turns'
<1> USE DEF Turns, Goes
<1>0. /\ Kinds /\ \A u \in Threads : ticket[u] \in Nat /\ MyLane(u) \in Lanes
                                     /\ Rounded(ticket[u]) \in Nat
      /\ head' = head + 1 /\ UNCHANGED <<tail, laneHead, laneTail, ticket>>
      /\ head \in Nat /\ tail \in Nat
  BY AllDrawn DEF Wins
<1>1. /\ pc[t] = "cas" /\ pc'[t] = "mine" /\ ticket[t] = head
      /\ \A u \in Threads : /\ u # t => pc'[u] = pc[u]
                            /\ ticket'[u] = ticket[u] /\ MyLane(u)' = MyLane(u)
  BY <1>0 DEF Wins, Kinds, Others, MyLane
<1>2. \A k : Pushed(k)' = Pushed(k) /\ Popped(k)' = Popped(k)
  BY <1>0 DEF Pushed, Popped
<1>3. "mine" \in Popping /\ "mine" \notin Pushing /\ "mine" \notin Deciding /\ "mine" # "gone"
      /\ "cas" \notin Pushing /\ "cas" \notin Popping /\ "cas" \in Deciding /\ "cas" # "gone"
  BY DEF Pushing, Popping, Deciding
<1>4. ~Popped(head) /\ head < tail
  BY <1>0, <1>1, <1>3 DEF Order, Decisions
<1>5. PushTurns'
  <2> SUFFICES ASSUME NEW u \in Threads, pc'[u] \in Pushing
               PROVE  /\ ticket[u] < tail /\ ~Pushed(ticket[u])
                      /\ pc'[u] # "turn" => Rounded(ticket[u]) = laneTail[MyLane(u)]
    BY <1>0, <1>1, <1>2 DEF PushTurns
  <2>1. u # t
    BY <1>1, <1>3
  <2> QED BY <1>1, <2>1 DEF PushTurns
<1>6. PopTurns'
  <2> SUFFICES ASSUME NEW u \in Threads, pc'[u] \in Popping
               PROVE  /\ ticket[u] < head + 1
                      /\ Popped(ticket[u]) <=> pc'[u] = "free"
                      /\ pc'[u] \notin {"mine", "free"} => Rounded(ticket[u]) = laneHead[MyLane(u)]
                      /\ pc'[u] \notin {"mine", "filled"} => Pushed(ticket[u])
    BY <1>0, <1>1, <1>2 DEF PopTurns
  <2>1. CASE u = t
    BY <1>0, <1>1, <1>4, <2>1
  <2>2. CASE u # t
    BY <1>0, <1>1, <2>2 DEF PopTurns
  <2> QED BY <2>1, <2>2
<1>7. Decisions'
  <2> SUFFICES ASSUME NEW u \in Threads, pc'[u] \in Deciding
               PROVE  /\ ticket[u] <= head + 1 /\ result'[u] = Pending
                      /\ pc'[u] = "cas" => ticket[u] < tail
    BY <1>0, <1>1 DEF Decisions
  <2>1. u # t
    BY <1>1, <1>3
  <2> QED BY <1>0, <1>1, <2>1 DEF Decisions, Others
<1>8. OwnTickets'
  <2>1. \A u \in Threads : pc[u] \in Popping => ticket[u] # head
    BY <1>0 DEF PopTurns
  <2> QED BY <1>1, <1>3, <2>1 DEF OwnTickets
<1>9. Order'
  <2>1. \A k : Is(k, Pushing) => Is(k, Pushing)'
    BY <1>1, <1>3 DEF Is
  <2>2. \A k : Is(k, Popping) => Is(k, Popping)'
    BY <1>1, <1>3 DEF Is
  <2>3. \A k : k = head => Is(k, Popping)'
    BY <1>0, <1>1, <1>3 DEF Is
  <2>4. \A k \in Nat : (k < head + 1 => k < head \/ k = head) /\ (k < head => k < head + 1)
    BY <1>0
  <2>5. head + 1 <= tail
    BY <1>0, <1>4
  <2> QED BY <1>0, <1>2, <2>1, <2>2, <2>3, <2>4, <2>5 DEF Order
<1>10. AllOrNone'
  BY <1>1, <1>3 DEF AllOrNone
<1> QED BY <1>5, <1>6, <1>7, <1>8, <1>9, <1>10

(* Passing the turn on passes over one ticket. *)
LEMMA PassesOne ==
  ASSUME Turns, NEW t \in Threads, ticket[t] \in Nat,
         NEW c \in [Lanes -> Int], NEW d,
         c[MyLane(t)] = Rounded(ticket[t]),
         d = [c EXCEPT ![MyLane(t)] = Rounded(ticket[t]) + NQueue],
         NEW m \in Nat
  PROVE  /\ Rounded(m) < d[Lane(m)] <=> Rounded(m) < c[Lane(m)] \/ m = ticket[t]
         /\ d[Lane(m)] = IF Lane(m) = MyLane(t) THEN Rounded(ticket[t]) + NQueue ELSE c[Lane(m)]
<1> DEFINE k == ticket[t]
<1>1. k \in Nat /\ Lane(k) = MyLane(t) /\ Lane(k) \in Lanes /\ Lane(m) \in Lanes
      /\ Rounded(k) \in Nat /\ Rounded(m) \in Nat /\ NQueue \in Nat \ {0}
  BY LaneOf, Rounding, SizesAssumption DEF MyLane
<1> HIDE DEF k
<1>2. CASE Lane(m) # Lane(k)
  BY <1>1, <1>2 DEF k
<1>3. CASE Lane(m) = Lane(k)
  <2>1. /\ Rounded(k) - Rounded(m) = k - m
        /\ k < m => Rounded(k) + NQueue <= Rounded(m)
    BY <1>1, <1>3, InLane
  <2>2. d[Lane(m)] = Rounded(k) + NQueue /\ c[Lane(m)] = Rounded(k)
    BY <1>1, <1>3 DEF k
  <2>3. Rounded(m) < Rounded(k) + NQueue <=> Rounded(m) < Rounded(k) \/ m = k
    BY <1>1, <2>1
  <2> QED BY <1>1, <1>3, <2>2, <2>3 DEF k
<1> QED BY <1>2, <1>3

LEMMA AdvanceTurns ==
  ASSUME Turns, Kinds', NEW t \in Threads, Others(t), Advances(t)
  PROVE  /\ Turns'
         /\ \A k \in Nat : /\ Pushed(k)' <=> Pushed(k) \/ k = ticket[t]
                           /\ Popped(k)' <=> Popped(k)
<1> USE DEF Turns, Goes
<1> DEFINE L == MyLane(t)
<1>0. /\ Kinds /\ \A u \in Threads : ticket[u] \in Nat /\ MyLane(u) \in Lanes
                                     /\ Rounded(ticket[u]) \in Nat
      /\ UNCHANGED <<head, tail, laneHead>> /\ head \in Nat /\ tail \in Nat
      /\ NQueue \in Nat \ {0}
  BY AllDrawn, SizesAssumption DEF Advances
<1>1. /\ pc[t] = "advance" /\ pc'[t] = "out" /\ ticket'[t] = 0
      /\ \A u \in Threads : u # t =>
           pc'[u] = pc[u] /\ ticket'[u] = ticket[u] /\ MyLane(u)' = MyLane(u)
  BY <1>0 DEF Advances, Kinds, Others, MyLane
<1>2. laneTail \in [Lanes -> Int] /\ laneTail[L] = Rounded(ticket[t]) /\ ticket[t] < tail
  BY <1>0, <1>1, SizesAssumption DEF Kinds, PushTurns, Pushing
<1>3. laneTail' = [laneTail EXCEPT ![L] = Rounded(ticket[t]) + NQueue]
  BY <1>2 DEF Advances
<1>4. \A m \in Nat :
        /\ Rounded(m) < laneTail'[Lane(m)] <=> Rounded(m) < laneTail[Lane(m)] \/ m = ticket[t]
        /\ laneTail'[Lane(m)] = IF Lane(m) = MyLane(t) THEN Rounded(ticket[t]) + NQueue
                                ELSE laneTail[Lane(m)]
  BY <1>0, <1>2, <1>3, PassesOne
<1>5. \A k \in Nat : /\ Pushed(k)' <=> Pushed(k) \/ k = ticket[t]
                     /\ Popped(k)' <=> Popped(k)
  BY <1>0, <1>4 DEF Pushed, Popped
<1>6. "out" \notin Pushing /\ "out" \notin Popping /\ "out" \notin Deciding /\ "out" # "gone"
      /\ "advance" \in Pushing /\ "advance" \notin Popping /\ "advance" \notin Deciding
      /\ "advance" # "gone"
  BY DEF Pushing, Popping, Deciding
<1>7. \A u \in Threads : u # t /\ pc[u] \in Pushing => ticket[u] # ticket[t]
  BY <1>1, <1>6 DEF OwnTickets
<1>8. PushTurns'
  <2> SUFFICES ASSUME NEW u \in Threads, pc'[u] \in Pushing
               PROVE  /\ ticket'[u] < tail /\ ~Pushed(ticket[u])' /\ ticket'[u] = ticket[u]
                      /\ pc'[u] # "turn" => Rounded(ticket'[u]) = laneTail'[MyLane(u)']
    BY <1>0 DEF PushTurns, Pushed
  <2>1. u # t /\ pc[u] \in Pushing /\ pc'[u] = pc[u] /\ ticket'[u] = ticket[u]
        /\ MyLane(u)' = Lane(ticket[u]) /\ ticket[u] \in Nat
    BY <1>0, <1>1, <1>6 DEF MyLane
  <2>2. ticket[u] < tail /\ ~Pushed(ticket[u]) /\ ticket[u] # ticket[t]
    BY <1>7, <2>1 DEF PushTurns
  <2>3. \A k \in Nat : k = ticket[u] => ~Pushed(k)'
    BY <1>5, <2>2
  <2>4. ASSUME pc[u] # "turn" PROVE Rounded(ticket[u]) = laneTail'[Lane(ticket[u])]
    <3>1. Rounded(ticket[u]) = laneTail[Lane(ticket[u])]
      BY <2>1, <2>4 DEF PushTurns, MyLane
    <3>2. Lane(ticket[u]) # L
      <4>1. ASSUME Lane(ticket[u]) = L PROVE FALSE
        <5>1. Rounded(ticket[u]) = Rounded(ticket[t]) /\ Lane(ticket[u]) = Lane(ticket[t])
          BY <1>2, <3>1, <4>1 DEF MyLane
        <5>2. ticket[u] \in Nat /\ ticket[t] \in Nat /\ ticket[u] # ticket[t]
          BY <1>0, <2>1, <2>2
        <5> QED BY <5>1, <5>2, OneRound
      <4> QED BY <4>1
    <3> QED BY <1>4, <2>1, <3>1, <3>2
  <2> QED BY <2>1, <2>2, <2>3, <2>4 DEF Pushed
<1>9. PopTurns'
  <2> SUFFICES ASSUME NEW u \in Threads, pc'[u] \in Popping
               PROVE  /\ ticket'[u] < head
                      /\ Popped(ticket'[u]) <=> pc'[u] = "free"
                      /\ pc'[u] \notin {"mine", "free"} => Rounded(ticket'[u]) = laneHead[MyLane(u)']
                      /\ pc'[u] \notin {"mine", "filled"}
                           => Rounded(ticket'[u]) < laneTail'[Lane(ticket'[u])]
    BY <1>0 DEF PopTurns, Popped, Pushed
  <2>1. u # t
    BY <1>1, <1>6
  <2> QED BY <1>0, <1>1, <1>4, <2>1 DEF PopTurns, Pushed
<1>10. Decisions'
  BY <1>0, <1>1, <1>6 DEF Decisions, Others
<1>11. OwnTickets'
  BY <1>1, <1>6 DEF OwnTickets
<1>12. Order'
  <2>1. \A k \in Nat : k # ticket[t] => (Is(k, Pushing) => Is(k, Pushing)')
    BY <1>1, <1>6 DEF Is
  <2>2. \A k \in Nat : Is(k, Popping) => Is(k, Popping)'
    BY <1>1, <1>6 DEF Is
  <2>3. \A l \in Lanes : laneHead[l] <= laneTail'[l]
    BY <1>0, <1>2, <1>3 DEF Order, Kinds
  <2>4. \A k \in Nat : Pushed(k)' => k < tail
    BY <1>2, <1>5 DEF Order
  <2>5. \A k \in Nat : Pushed(k)' => Rounded(k) + NQueue <= laneTail'[Lane(k)]
    <3> SUFFICES ASSUME NEW k \in Nat, Pushed(k)'
                 PROVE  Rounded(k) + NQueue <= laneTail'[Lane(k)]
      OBVIOUS
    <3>1. CASE k = ticket[t]
      BY <1>0, <1>4, <3>1 DEF MyLane
    <3>2. CASE k # ticket[t]
      <4>1. Pushed(k) /\ Rounded(k) + NQueue <= laneTail[Lane(k)]
        BY <1>5, <3>2 DEF Order
      <4>2. laneTail[Lane(k)] <= laneTail'[Lane(k)] /\ laneTail'[Lane(k)] \in Int
            /\ laneTail[Lane(k)] \in Int /\ Rounded(k) \in Nat
        <5>1. Lane(k) \in Lanes /\ Rounded(k) \in Nat /\ laneTail[Lane(k)] \in Int
          BY <1>2, LaneOf, Rounding
        <5>2. laneTail'[Lane(k)] = IF Lane(k) = L THEN Rounded(ticket[t]) + NQueue
                                   ELSE laneTail[Lane(k)]
          BY <1>4
        <5>3. Lane(k) = L => laneTail[Lane(k)] = Rounded(ticket[t])
          BY <1>2
        <5> HIDE DEF L
        <5> QED BY <1>0, <5>1, <5>2, <5>3
      <4> QED BY <1>0, <4>1, <4>2
    <3> QED BY <3>1, <3>2
  <2> QED BY <1>0, <1>5, <2>1, <2>2, <2>3, <2>4, <2>5 DEF Order
<1>13. AllOrNone'
  BY <1>1, <1>6 DEF AllOrNone
<1> QED BY <1>5, <1>8, <1>9, <1>10, <1>11, <1>12, <1>13

LEMMA PassTurns ==
  ASSUME Turns, Kinds', NEW t \in Threads, Others(t), Passes(t)
  PROVE  /\ Turns'
         /\ \A k \in Nat : /\ Popped(k)' <=> Popped(k) \/ k = ticket[t]
                           /\ Pushed(k)' <=> Pushed(k)
<1> USE DEF Turns, Goes
<1> DEFINE L == MyLane(t)
<1>0. /\ Kinds /\ \A u \in Threads : ticket[u] \in Nat /\ MyLane(u) \in Lanes
                                     /\ Rounded(ticket[u]) \in Nat
      /\ UNCHANGED <<head, tail, laneTail>> /\ head \in Nat /\ tail \in Nat
      /\ NQueue \in Nat \ {0}
  BY AllDrawn, SizesAssumption DEF Passes
<1>1. /\ pc[t] = "pass"
      /\ \/ pc'[t] = "free" /\ ticket'[t] = ticket[t]
         \/ pc'[t] = "out"
      /\ \A u \in Threads : u # t =>
           pc'[u] = pc[u] /\ ticket'[u] = ticket[u] /\ MyLane(u)' = MyLane(u)
  BY <1>0 DEF Passes, Kinds, Others, MyLane
<1>2. laneHead \in [Lanes -> Int] /\ laneHead[L] = Rounded(ticket[t]) /\ ticket[t] < head
      /\ Pushed(ticket[t])
  <2>1. laneHead \in [Lanes -> Int]
    BY <1>0 DEF Kinds
  <2> QED BY <1>0, <1>1, <2>1 DEF PopTurns, Popping
<1>3. laneHead' = [laneHead EXCEPT ![L] = Rounded(ticket[t]) + NQueue]
  BY DEF Passes
<1>4. \A m \in Nat :
        /\ Rounded(m) < laneHead'[Lane(m)] <=> Rounded(m) < laneHead[Lane(m)] \/ m = ticket[t]
        /\ laneHead'[Lane(m)] = IF Lane(m) = MyLane(t) THEN Rounded(ticket[t]) + NQueue
                                ELSE laneHead[Lane(m)]
  BY <1>0, <1>2, <1>3, PassesOne
<1>5. \A k \in Nat : /\ Popped(k)' <=> Popped(k) \/ k = ticket[t]
                     /\ Pushed(k)' <=> Pushed(k)
  BY <1>0, <1>4 DEF Pushed, Popped
<1>6. /\ \A x \in {"out", "free", "pass"} : x \notin Pushing /\ x \notin Deciding /\ x # "gone"
      /\ "out" \notin Popping /\ "free" \in Popping /\ "pass" \in Popping
  BY DEF Pushing, Popping, Deciding
<1>7. \A u \in Threads : u # t /\ pc[u] \in Popping => ticket[u] # ticket[t]
  BY <1>1, <1>6 DEF OwnTickets
<1>8. PushTurns'
  <2> SUFFICES ASSUME NEW u \in Threads, pc'[u] \in Pushing
               PROVE  /\ ticket'[u] < tail /\ ~Pushed(ticket'[u])
                      /\ pc'[u] # "turn" => Rounded(ticket'[u]) = laneTail[MyLane(u)']
    BY <1>0 DEF PushTurns, Pushed
  <2>1. u # t
    BY <1>1, <1>6
  <2> QED BY <1>1, <2>1 DEF PushTurns
<1>9. PopTurns'
  <2> SUFFICES ASSUME NEW u \in Threads, pc'[u] \in Popping
               PROVE  /\ ticket'[u] < head /\ ticket'[u] = ticket[u]
                      /\ Popped(ticket[u])' <=> pc'[u] = "free"
                      /\ pc'[u] \notin {"mine", "free"} => Rounded(ticket'[u]) = laneHead'[MyLane(u)']
                      /\ pc'[u] \notin {"mine", "filled"} => Pushed(ticket'[u])
    BY <1>0 DEF PopTurns, Popped, Pushed
  <2>1. ticket[u] < head /\ ticket'[u] = ticket[u] /\ MyLane(u)' = Lane(ticket[u])
        /\ ticket[u] \in Nat /\ pc[u] \in Popping
    BY <1>0, <1>1, <1>6 DEF PopTurns, MyLane
  <2>2. pc'[u] \notin {"mine", "filled"} => Pushed(ticket'[u])
    BY <1>1, <2>1 DEF PopTurns
  <2>3. ASSUME NEW k \in Nat, k = ticket[u] PROVE Popped(k)' <=> pc'[u] = "free"
    <3>1. CASE u = t
      BY <1>1, <1>5, <1>6, <2>3, <3>1
    <3>2. CASE u # t
      BY <1>1, <1>5, <1>7, <2>1, <2>3, <3>2 DEF PopTurns
    <3> QED BY <3>1, <3>2
  <2>4. ASSUME pc'[u] \notin {"mine", "free"} PROVE Rounded(ticket[u]) = laneHead'[Lane(ticket[u])]
    <3>1. u # t /\ ticket[u] # ticket[t]
      BY <1>1, <1>6, <1>7, <2>1, <2>4
    <3>2. Rounded(ticket[u]) = laneHead[Lane(ticket[u])]
      BY <1>1, <2>1, <2>4, <3>1 DEF PopTurns, MyLane
    <3>3. Lane(ticket[u]) # L
      <4>1. ASSUME Lane(ticket[u]) = L PROVE FALSE
        <5>1. Rounded(ticket[u]) = Rounded(ticket[t]) /\ Lane(ticket[u]) = Lane(ticket[t])
          BY <1>2, <3>2, <4>1 DEF MyLane
        <5>2. ticket[u] \in Nat /\ ticket[t] \in Nat /\ ticket[u] # ticket[t]
          BY <1>0, <2>1, <3>1
        <5> QED BY <5>1, <5>2, OneRound
      <4> QED BY <4>1
    <3> QED BY <1>4, <2>1, <3>2, <3>3
  <2> QED BY <2>1, <2>2, <2>3, <2>4 DEF Popped
<1>10. Decisions'
  BY <1>0, <1>1, <1>6 DEF Decisions, Others
<1>11. OwnTickets'
  BY <1>1, <1>6 DEF OwnTickets
<1>12. Order'
  <2>1. \A k \in Nat : Is(k, Pushing) => Is(k, Pushing)'
    BY <1>1, <1>6 DEF Is
  <2>2. \A k \in Nat : k # ticket[t] => (Is(k, Popping) => Is(k, Popping)')
    BY <1>1, <1>6 DEF Is
  <2>3. \A l \in Lanes : laneHead'[l] <= laneTail[l]
    <3>1. Rounded(ticket[t]) + NQueue <= laneTail[L]
      BY <1>0, <1>2 DEF Order, MyLane
    <3> QED BY <1>0, <1>2, <1>3, <3>1 DEF Order, Kinds
  <2> QED BY <1>0, <1>2, <1>5, <2>1, <2>2, <2>3 DEF Order
<1>13. AllOrNone'
  BY <1>1, <1>6 DEF AllOrNone
<1> QED BY <1>5, <1>8, <1>9, <1>10, <1>11, <1>12, <1>13

LEMMA FreeTurns ==
  ASSUME Turns, Kinds', NEW t \in Threads, Others(t), Frees(t)
  PROVE  Turns'
<1> USE DEF Turns, Goes, Counters
<1>0. /\ Kinds /\ \A u \in Threads : ticket[u] \in Nat /\ MyLane(u) \in Lanes
                                     /\ Rounded(ticket[u]) \in Nat
      /\ UNCHANGED Counters
  BY AllDrawn DEF Frees
<1>1. /\ pc[t] = "free" /\ pc'[t] = "out"
      /\ \A u \in Threads : u # t =>
           pc'[u] = pc[u] /\ ticket'[u] = ticket[u] /\ MyLane(u)' = MyLane(u)
  BY <1>0 DEF Frees, Kinds, Others, MyLane
<1>2. \A k : Pushed(k)' = Pushed(k) /\ Popped(k)' = Popped(k)
  BY <1>0 DEF Pushed, Popped
<1>3. "out" \notin Pushing /\ "out" \notin Popping /\ "out" \notin Deciding /\ "out" # "gone"
      /\ "free" \in Popping /\ "free" \notin Pushing
  BY DEF Pushing, Popping, Deciding
<1>4. PushTurns' /\ PopTurns'
  BY <1>0, <1>1, <1>2, <1>3 DEF PushTurns, PopTurns
<1>5. Decisions' /\ OwnTickets'
  BY <1>0, <1>1, <1>3 DEF Decisions, OwnTickets, Others
<1>6. Order'
  <2>1. \A k : Is(k, Pushing) => Is(k, Pushing)'
    BY <1>1, <1>3 DEF Is
  <2>2. \A k \in Nat : ~Popped(k) => (Is(k, Popping) => Is(k, Popping)')
    BY <1>1, <1>3 DEF Is, PopTurns
  <2> QED BY <1>0, <1>2, <2>1, <2>2 DEF Order
<1>7. AllOrNone'
  BY <1>1, <1>3 DEF AllOrNone
<1> QED BY <1>4, <1>5, <1>6, <1>7

LEMMA TurnsStep ==
  ASSUME Turns, Kinds', NEW t \in Threads, TurnStep(t), Others(t)
  PROVE  Turns'
  BY WorkTurns, DrawTurns, DecideTurns, WinTurns, AdvanceTurns, PassTurns, FreeTurns DEF TurnStep

-----------------------------------------------------------------------------
(* From where to where each action takes its thread. *)
Act(t) == PushTicket(t) \/ Push(t) \/ CallPop(t) \/ Pop(t)
Route(t, from, to) == pc[t] = from /\ pc'[t] = to
Stays(t) == ticket'[t] = ticket[t] /\ laneTail' = laneTail /\ laneHead' = laneHead

LEMMA Routes ==
  ASSUME Kinds, NEW t \in Threads, Act(t)
  PROVE  /\ PushTicket(t) => Route(t, "out", "turn") /\ UNCHANGED <<laneHead, laneTail>>
         /\ PushTurn(t) => (Route(t, "turn", "lock") \/ Route(t, "turn", "tail")) /\ Stays(t)
         /\ ReadTailPage(t) => Route(t, "tail", "store") /\ Stays(t)
         /\ LinkLock(t) => Route(t, "lock", "link") /\ Stays(t)
         /\ LinkPage(t) => Route(t, "link", "last") /\ Stays(t)
         /\ LinkLast(t) => Route(t, "last", "store") /\ Stays(t)
         /\ Store(t) => Route(t, "store", "advance") /\ Stays(t)
         /\ Advance(t) => Route(t, "advance", "out") /\ laneHead' = laneHead
         /\ CallPop(t) => Route(t, "out", "check") /\ UNCHANGED <<laneHead, laneTail>>
         /\ CheckEmpty(t) => Route(t, "check", "out") /\ UNCHANGED <<laneHead, laneTail>>
         /\ CheckSome(t) => Route(t, "check", "cas") /\ UNCHANGED <<laneHead, laneTail>>
         /\ CasDraws(t) => Route(t, "cas", "mine") /\ Stays(t)
         /\ CasFails(t) => Route(t, "cas", "check") /\ UNCHANGED <<laneHead, laneTail>>
         /\ PopTurn(t) => Route(t, "mine", "filled") /\ Stays(t)
         /\ PopFilled(t) => Route(t, "filled", "take") /\ Stays(t)
         /\ TakeItem(t) => /\ IF LastSlot(t) THEN Route(t, "take", "unlock")
                              ELSE Route(t, "take", "pass")
                           /\ Stays(t)
         /\ UnlinkLock(t) => Route(t, "unlock", "unlink") /\ Stays(t)
         /\ UnlinkPage(t) => Route(t, "unlink", "unlast") /\ Stays(t)
         /\ UnlinkLast(t) => Route(t, "unlast", "pass") /\ Stays(t)
         /\ PassTurn(t) => /\ IF LastSlot(t)
                              THEN Route(t, "pass", "free") /\ ticket'[t] = ticket[t]
                              ELSE Route(t, "pass", "out")
                           /\ laneTail' = laneTail
         /\ FreePage(t) => Route(t, "free", "out") /\ UNCHANGED <<laneHead, laneTail>>
<1> USE DEF Route, Stays, At, GoTo, Kinds, queueVars, laneVars, pageVars, localVars
<1>1. /\ PushTicket(t) => Route(t, "out", "turn") /\ UNCHANGED <<laneHead, laneTail>>
      /\ PushTurn(t) => (Route(t, "turn", "lock") \/ Route(t, "turn", "tail")) /\ Stays(t)
      /\ ReadTailPage(t) => Route(t, "tail", "store") /\ Stays(t)
      /\ LinkLock(t) => Route(t, "lock", "link") /\ Stays(t)
  BY DEF PushTicket, PushTurn, ReadTailPage, LinkLock
<1>2. /\ LinkPage(t) => Route(t, "link", "last") /\ Stays(t)
      /\ LinkLast(t) => Route(t, "last", "store") /\ Stays(t)
      /\ Store(t) => Route(t, "store", "advance") /\ Stays(t)
      /\ Advance(t) => Route(t, "advance", "out") /\ laneHead' = laneHead
  BY DEF LinkPage, LinkLast, Store, Advance, Leave
<1>3. /\ CallPop(t) => Route(t, "out", "check") /\ UNCHANGED <<laneHead, laneTail>>
      /\ CheckEmpty(t) => Route(t, "check", "out") /\ UNCHANGED <<laneHead, laneTail>>
      /\ CheckSome(t) => Route(t, "check", "cas") /\ UNCHANGED <<laneHead, laneTail>>
      /\ CasDraws(t) => Route(t, "cas", "mine") /\ Stays(t)
      /\ CasFails(t) => Route(t, "cas", "check") /\ UNCHANGED <<laneHead, laneTail>>
  BY DEF CallPop, CheckEmpty, CheckSome, CasDraws, CasFails, Leave
<1>4. /\ PopTurn(t) => Route(t, "mine", "filled") /\ Stays(t)
      /\ PopFilled(t) => Route(t, "filled", "take") /\ Stays(t)
      /\ UnlinkLock(t) => Route(t, "unlock", "unlink") /\ Stays(t)
      /\ UnlinkPage(t) => Route(t, "unlink", "unlast") /\ Stays(t)
      /\ UnlinkLast(t) => Route(t, "unlast", "pass") /\ Stays(t)
  BY DEF PopTurn, PopFilled, UnlinkLock, UnlinkPage, UnlinkLast
<1>5. ASSUME TakeItem(t)
      PROVE  /\ IF LastSlot(t) THEN Route(t, "take", "unlock") ELSE Route(t, "take", "pass")
             /\ Stays(t)
  <2>1. CASE LastSlot(t)
    BY <1>5, <2>1 DEF TakeItem
  <2>2. CASE ~LastSlot(t)
    BY <1>5, <2>2 DEF TakeItem
  <2> QED BY <2>1, <2>2
<1>6. ASSUME PassTurn(t)
      PROVE  /\ IF LastSlot(t) THEN Route(t, "pass", "free") /\ ticket'[t] = ticket[t]
                ELSE Route(t, "pass", "out")
             /\ laneTail' = laneTail
  <2>1. CASE LastSlot(t)
    BY <1>6, <2>1 DEF PassTurn
  <2>2. CASE ~LastSlot(t)
    BY <1>6, <2>2 DEF PassTurn, Leave
  <2> QED BY <2>1, <2>2
<1>7. FreePage(t) => Route(t, "free", "out") /\ UNCHANGED <<laneHead, laneTail>>
  BY DEF FreePage, Leave
<1> QED BY <1>1, <1>2, <1>3, <1>4, <1>5, <1>6, <1>7

(* Who is where: everybody but the thread that acts stays. *)
LEMMA IsStep ==
  ASSUME NEW t \in Threads, Others(t), NEW k, NEW A
  PROVE  /\ Is(k, A) <=> \/ \E u \in Threads : u # t /\ pc[u] \in A /\ ticket[u] = k
                         \/ pc[t] \in A /\ ticket[t] = k
         /\ Is(k, A)' <=> \/ \E u \in Threads : u # t /\ pc[u] \in A /\ ticket[u] = k
                          \/ pc'[t] \in A /\ ticket'[t] = k
  BY DEF Is, Others

(* How the turns that have been passed on change. *)
LEMMA PushedStep ==
  ASSUME Turns, Kinds', NEW t \in Threads, Act(t), NEW k \in Nat
  PROVE  /\ Pushed(k)' <=> Pushed(k) \/ (Advance(t) /\ k = ticket[t])
         /\ Popped(k)' <=> Popped(k) \/ (PassTurn(t) /\ k = ticket[t])
<1>1. TurnStep(t) /\ Others(t)
  BY ActionTurns DEF Act, Turns
<1>2. CASE Advance(t)
  <2>1. Advances(t) /\ ~PassTurn(t)
    BY <1>2 DEF Advance, Advances, Leave, Goes, GoTo, At, queueVars, PassTurn
  <2> QED BY <1>1, <1>2, <2>1, AdvanceTurns
<1>3. CASE PassTurn(t)
  <2>1. Passes(t) /\ ~Advance(t)
    BY <1>3 DEF PassTurn, Passes, Leave, Goes, GoTo, At, queueVars, Advance
  <2> QED BY <1>1, <1>3, <2>1, PassTurns
<1>4. CASE ~Advance(t) /\ ~PassTurn(t)
  <2>1. laneTail' = laneTail /\ laneHead' = laneHead
    BY <1>4, Routes DEF Act, Push, Pop, Stays, Turns
  <2> QED BY <1>4, <2>1 DEF Pushed, Popped
<1> QED BY <1>2, <1>3, <1>4

(* The same as a table of places. *)
LEMMA Moves ==
  ASSUME Kinds, NEW t \in Threads, Act(t)
  PROVE  /\ pc[t] \in Location \ {"gone"} /\ pc'[t] # "gone"
         /\ pc[t] = "out" => pc'[t] \in {"turn", "check"}
         /\ pc[t] = "turn" => pc'[t] \in {"lock", "tail"}
         /\ pc[t] = "tail" => pc'[t] = "store"
         /\ pc[t] = "lock" => pc'[t] = "link"
         /\ pc[t] = "link" => pc'[t] = "last" /\ LinkPage(t)
         /\ pc[t] = "last" => pc'[t] = "store"
         /\ pc[t] = "store" => pc'[t] = "advance"
         /\ pc[t] = "advance" => pc'[t] = "out" /\ Advance(t)
         /\ pc[t] = "check" => pc'[t] \in {"out", "cas"}
         /\ pc[t] = "cas" => pc'[t] \in {"check", "mine"}
         /\ pc[t] = "mine" => pc'[t] = "filled"
         /\ pc[t] = "filled" => pc'[t] = "take"
         /\ pc[t] = "take" => pc'[t] = IF LastSlot(t) THEN "unlock" ELSE "pass"
         /\ pc[t] = "unlock" => pc'[t] = "unlink"
         /\ pc[t] = "unlink" => pc'[t] = "unlast"
         /\ pc[t] = "unlast" => pc'[t] = "pass"
         /\ pc[t] = "pass" => /\ pc'[t] = IF LastSlot(t) THEN "free" ELSE "out"
                              /\ LastSlot(t) => ticket'[t] = ticket[t]
                              /\ PassTurn(t)
         /\ pc[t] = "free" => pc'[t] = "out"
         /\ pc[t] \in ({"turn", "mine", "filled"} \union Storing \union Removing) \ {"advance", "pass"}
              => ticket'[t] = ticket[t]
<1> USE DEF Route, Stays
<1>1. CASE PushTicket(t) \/ CallPop(t) \/ CheckEmpty(t) \/ CheckSome(t) \/ CasFails(t)
  BY <1>1, Routes DEF Storing, Removing, Location, Pushing, Deciding, Popping
<1>2. CASE PushTurn(t) \/ ReadTailPage(t) \/ LinkLock(t)
  BY <1>2, Routes DEF Storing, Removing, Location, Pushing, Deciding, Popping
<1>3. CASE LinkPage(t)
  <2>1. pc[t] = "link" /\ pc'[t] = "last" /\ ticket'[t] = ticket[t]
    BY <1>3, Routes
  <2>2. pc[t] = "link" => pc'[t] = "last" /\ LinkPage(t)
    BY <1>3, <2>1, Zenon
  <2> QED BY <2>1, <2>2 DEF Storing, Removing, Location, Pushing, Deciding, Popping
<1>4. CASE LinkLast(t) \/ Store(t)
  BY <1>4, Routes DEF Storing, Removing, Location, Pushing, Deciding, Popping
<1>5. CASE Advance(t)
  <2>1. pc[t] = "advance" /\ pc'[t] = "out"
    BY <1>5, Routes
  <2>2. pc[t] = "advance" => pc'[t] = "out" /\ Advance(t)
    BY <1>5, <2>1, Zenon
  <2> QED BY <2>1, <2>2 DEF Storing, Removing, Location, Pushing, Deciding, Popping
<1>6. CASE CasDraws(t) \/ PopTurn(t) \/ PopFilled(t) \/ UnlinkLock(t) \/ UnlinkPage(t)
             \/ UnlinkLast(t) \/ FreePage(t)
  BY <1>6, Routes DEF Storing, Removing, Location, Pushing, Deciding, Popping
<1>7. CASE TakeItem(t)
  BY <1>7, Routes DEF Storing, Removing, Location, Pushing, Deciding, Popping
<1>8. CASE PassTurn(t)
  BY <1>8, Routes DEF Storing, Removing, Location, Pushing, Deciding, Popping
<1> QED BY <1>1, <1>2, <1>3, <1>4, <1>5, <1>6, <1>7, <1>8 DEF Act, Push, Pop

(* What becomes of a page, and of an item, and by which step of whom. *)
LEMMA PushStages ==
  ASSUME Turns, PushLocals, Kinds', NEW t \in Threads, Act(t), NEW p \in Nat
  PROVE  /\ Stored(p)' <=> Stored(p) \/ (pc[t] = "store" /\ p = ticket[t])
         /\ Index(p) = 0 =>
              /\ Linked(p)' <=> Linked(p) \/ (pc[t] = "link" /\ p = ticket[t])
              /\ Ended(p)' <=> Ended(p) \/ (pc[t] = "last" /\ p = ticket[t])
<1>1. Kinds /\ Others(t)
  BY ActionTurns DEF Act, Turns
<1>2. Pushed(p)' <=> Pushed(p) \/ (pc[t] = "advance" /\ p = ticket[t])
  <2>1. Advance(t) => pc[t] = "advance"
    BY DEF Advance, At
  <2> QED BY <1>1, <2>1, PushedStep, Moves
<1>3. pc[t] = "tail" => Index(ticket[t]) # 0
  BY DEF PushLocals
<1>4. Linked(p)' <=> Pushed(p)' \/ Is(p, {"last", "store", "advance"})'
  BY DEF Linked
<1>5. Ended(p)' <=> Pushed(p)' \/ Is(p, {"store", "advance"})'
  BY DEF Ended
<1>6. Stored(p)' <=> Pushed(p)' \/ Is(p, {"advance"})'
  BY DEF Stored
<1>7. Stored(p)' <=> Stored(p) \/ (pc[t] = "store" /\ p = ticket[t])
  <2> DEFINE E == \E u \in Threads : u # t /\ pc[u] \in {"advance"} /\ ticket[u] = p
  <2>1. /\ Is(p, {"advance"}) <=> E \/ (pc[t] \in {"advance"} /\ ticket[t] = p)
        /\ Is(p, {"advance"})' <=> E \/ (pc'[t] \in {"advance"} /\ ticket'[t] = p)
    BY <1>1, IsStep
  <2> HIDE DEF E
  <2> QED BY <1>1, <1>2, <1>6, <2>1, Moves DEF Stored, Storing, Location, Pushing, Popping, Deciding
<1>8. Index(p) = 0 => (Linked(p)' <=> Linked(p) \/ (pc[t] = "link" /\ p = ticket[t]))
  <2> DEFINE A == {"last", "store", "advance"}
             E == \E u \in Threads : u # t /\ pc[u] \in A /\ ticket[u] = p
  <2>1. /\ Is(p, A) <=> E \/ (pc[t] \in A /\ ticket[t] = p)
        /\ Is(p, A)' <=> E \/ (pc'[t] \in A /\ ticket'[t] = p)
    BY <1>1, IsStep
  <2> HIDE DEF E
  <2> QED BY <1>1, <1>2, <1>3, <1>4, <2>1, Moves
          DEF Linked, Storing, Location, Pushing, Popping, Deciding
<1>9. Index(p) = 0 => (Ended(p)' <=> Ended(p) \/ (pc[t] = "last" /\ p = ticket[t]))
  <2> DEFINE A == {"store", "advance"}
             E == \E u \in Threads : u # t /\ pc[u] \in A /\ ticket[u] = p
  <2>1. /\ Is(p, A) <=> E \/ (pc[t] \in A /\ ticket[t] = p)
        /\ Is(p, A)' <=> E \/ (pc'[t] \in A /\ ticket'[t] = p)
    BY <1>1, IsStep
  <2> HIDE DEF E
  <2> QED BY <1>1, <1>2, <1>3, <1>5, <2>1, Moves
          DEF Ended, Storing, Location, Pushing, Popping, Deciding
<1> QED BY <1>7, <1>8, <1>9

LEMMA PopStages ==
  ASSUME Turns, Kinds', NEW t \in Threads, Act(t), NEW p \in Nat
  PROVE  /\ Taken(p)' <=> Taken(p) \/ (pc[t] = "take" /\ p = ticket[t])
         /\ Index(p) = 0 =>
              /\ Unlinked(p)' <=> Unlinked(p) \/ (pc[t] = "unlink" /\ ticket[t] = EndOf(p))
              /\ Cleared(p)' <=> Cleared(p) \/ (pc[t] = "unlast" /\ ticket[t] = EndOf(p))
              /\ Freed(p)' <=> Freed(p) \/ (pc[t] = "free" /\ ticket[t] = EndOf(p))
<1>1. Kinds /\ Others(t)
  BY ActionTurns DEF Act, Turns
<1>2. \A k \in Nat : Popped(k)' <=> Popped(k) \/ (pc[t] = "pass" /\ k = ticket[t])
  <2>1. PassTurn(t) => pc[t] = "pass"
    BY DEF PassTurn, At
  <2> QED BY <1>1, <2>1, PushedStep, Moves
<1>3. Taken(p)' <=> Taken(p) \/ (pc[t] = "take" /\ p = ticket[t])
  <2> DEFINE A == {"unlock", "unlink", "unlast", "pass"}
             E == \E u \in Threads : u # t /\ pc[u] \in A /\ ticket[u] = p
  <2>1. /\ Is(p, A) <=> E \/ (pc[t] \in A /\ ticket[t] = p)
        /\ Is(p, A)' <=> E \/ (pc'[t] \in A /\ ticket'[t] = p)
    BY <1>1, IsStep
  <2>2. Taken(p)' <=> Popped(p)' \/ Is(p, A)'
    BY DEF Taken
  <2> HIDE DEF E
  <2> QED BY <1>1, <1>2, <2>1, <2>2, Moves DEF Taken, Removing, Location, Pushing, Popping, Deciding
<1> SUFFICES ASSUME Index(p) = 0
             PROVE  /\ Unlinked(p)' <=> Unlinked(p) \/ (pc[t] = "unlink" /\ ticket[t] = EndOf(p))
                    /\ Cleared(p)' <=> Cleared(p) \/ (pc[t] = "unlast" /\ ticket[t] = EndOf(p))
                    /\ Freed(p)' <=> Freed(p) \/ (pc[t] = "free" /\ ticket[t] = EndOf(p))
  BY <1>3
<1> DEFINE e == EndOf(p)
<1>4. e \in Nat /\ Index(e) = ItemsPerPage - 1
  BY PageEnds
<1>5. ticket[t] = e => LastSlot(t)
  BY <1>4 DEF LastSlot
<1>6. /\ Unlinked(p)' <=> Popped(e)' \/ Is(e, {"unlast", "pass"})'
      /\ Cleared(p)' <=> Popped(e)' \/ Is(e, {"pass"})'
      /\ Freed(p)' <=> Popped(e)' /\ ~Is(e, {"free"})'
      /\ Unlinked(p) <=> Popped(e) \/ Is(e, {"unlast", "pass"})
      /\ Cleared(p) <=> Popped(e) \/ Is(e, {"pass"})
      /\ Freed(p) <=> Popped(e) /\ ~Is(e, {"free"})
  BY DEF Unlinked, Cleared, Freed
<1> HIDE DEF e
<1>7. Unlinked(p)' <=> Unlinked(p) \/ (pc[t] = "unlink" /\ ticket[t] = e)
  <2> DEFINE A == {"unlast", "pass"}
             E == \E u \in Threads : u # t /\ pc[u] \in A /\ ticket[u] = e
  <2>1. /\ Is(e, A) <=> E \/ (pc[t] \in A /\ ticket[t] = e)
        /\ Is(e, A)' <=> E \/ (pc'[t] \in A /\ ticket'[t] = e)
    BY <1>1, IsStep DEF e
  <2> HIDE DEF E
  <2> QED BY <1>1, <1>2, <1>4, <1>5, <1>6, <2>1, Moves
          DEF Removing, Location, Pushing, Popping, Deciding
<1>8. Cleared(p)' <=> Cleared(p) \/ (pc[t] = "unlast" /\ ticket[t] = e)
  <2> DEFINE A == {"pass"}
             E == \E u \in Threads : u # t /\ pc[u] \in A /\ ticket[u] = e
  <2>1. /\ Is(e, A) <=> E \/ (pc[t] \in A /\ ticket[t] = e)
        /\ Is(e, A)' <=> E \/ (pc'[t] \in A /\ ticket'[t] = e)
    BY <1>1, IsStep DEF e
  <2> HIDE DEF E
  <2> QED BY <1>1, <1>2, <1>4, <1>5, <1>6, <2>1, Moves
          DEF Removing, Location, Pushing, Popping, Deciding
<1>9. Freed(p)' <=> Freed(p) \/ (pc[t] = "free" /\ ticket[t] = e)
  <2> DEFINE A == {"free"}
             E == \E u \in Threads : u # t /\ pc[u] \in A /\ ticket[u] = e
  <2>1. /\ Is(e, A) <=> E \/ (pc[t] \in A /\ ticket[t] = e)
        /\ Is(e, A)' <=> E \/ (pc'[t] \in A /\ ticket'[t] = e)
    BY <1>1, IsStep DEF e
  <2>2. pc[t] = "pass" /\ ticket[t] = e => ~Popped(e)
    BY DEF Turns, PopTurns, Popping
  <2>3. pc[t] = "free" /\ ticket[t] = e => Popped(e) /\ ~E
    BY DEF Turns, PopTurns, Popping, OwnTickets
  <2> HIDE DEF E
  <2> QED BY <1>1, <1>2, <1>4, <1>5, <1>6, <2>1, <2>2, <2>3, Moves
          DEF Removing, Location, Pushing, Popping, Deciding
<1> QED BY <1>7, <1>8, <1>9 DEF e

-----------------------------------------------------------------------------
(* The order in which pages come and go. *)
LEMMA PageFacts ==
  ASSUME Turns, NEW p \in Nat, Index(p) = 0
  PROVE  /\ Linked(p) => p < tail /\ p \in Pages
         /\ Ended(p) => Linked(p)
         /\ Cleared(p) => Unlinked(p)
         /\ Unlinked(p) => Pushed(EndOf(p)) /\ Pushed(p)
         /\ Freed(p) => Cleared(p)
<1>1. /\ EndOf(p) \in Nat /\ p <= EndOf(p) /\ Lane(EndOf(p)) = Lane(p) /\ Lane(p) \in Lanes
  BY PageEnds, LaneOf
<1>2. Kinds
  BY DEF Turns
<1>3. Pushed(EndOf(p)) => Pushed(p)
  BY <1>1, <1>2, Earlier
<1>4. Popped(EndOf(p)) => Pushed(EndOf(p))
  <2>1. laneHead[Lane(p)] \in Nat /\ laneTail[Lane(p)] \in Nat /\ Rounded(EndOf(p)) \in Nat
        /\ laneHead[Lane(p)] <= laneTail[Lane(p)]
    BY <1>1, <1>2, Rounding DEF Turns, Order, Kinds
  <2> QED BY <1>1, <2>1 DEF Pushed, Popped
<1>5. Is(EndOf(p), {"unlast", "pass"}) => Pushed(EndOf(p))
  BY DEF Is, Turns, PopTurns, Popping
<1>6. Linked(p) => p < tail
  <2>1. Pushed(p) => p < tail
    BY DEF Turns, Order
  <2>2. Is(p, {"last", "store", "advance"}) => p < tail
    BY DEF Is, Turns, PushTurns, Pushing
  <2> QED BY <2>1, <2>2 DEF Linked
<1>7. p < tail => p \in Pages
  BY <1>2, SizesAssumption DEF Kinds, Pages, Tickets
<1>8. Ended(p) => Linked(p)
  BY DEF Ended, Linked, Is
<1>9. Cleared(p) => Unlinked(p)
  BY DEF Cleared, Unlinked, Is
<1> QED BY <1>3, <1>4, <1>5, <1>6, <1>7, <1>8, <1>9 DEF Unlinked, Freed, Cleared

LEMMA LinkedAfter ==
  ASSUME Turns, NEW m \in Nat, NEW q \in Nat, Lane(m) = Lane(q), m < q, Linked(q)
  PROVE  Pushed(m)
<1>1. Rounded(m) < Rounded(q) /\ Rounded(m) \in Nat /\ Rounded(q) \in Nat
  BY InLane, Rounding
<1>2. laneTail[Lane(q)] \in Nat
  BY LaneOf DEF Turns, Kinds
<1>3. Pushed(q) => Pushed(m)
  BY <1>1, <1>2 DEF Pushed
<1>4. ASSUME Is(q, {"last", "store", "advance"}) PROVE Pushed(m)
  <2>1. Rounded(q) = laneTail[Lane(q)]
    BY <1>4 DEF Is, Turns, PushTurns, Pushing, MyLane
  <2> QED BY <1>1, <2>1 DEF Pushed
<1> QED BY <1>3, <1>4 DEF Linked

LEMMA UnlinkedAfter ==
  ASSUME Turns, NEW m \in Nat, NEW q \in Nat, Index(q) = 0, Lane(m) = Lane(q), m < EndOf(q),
         Unlinked(q)
  PROVE  Popped(m)
<1> DEFINE e == EndOf(q)
<1>0. e \in Nat /\ Lane(m) = Lane(e) /\ m < e
  BY PageEnds
<1> HIDE DEF e
<1>1. Rounded(m) < Rounded(e) /\ Rounded(m) \in Nat /\ Rounded(e) \in Nat
  BY <1>0, InLane, Rounding
<1>2. laneHead[Lane(e)] \in Nat
  BY <1>0, LaneOf DEF Turns, Kinds
<1>3. Popped(e) => Popped(m)
  BY <1>0, <1>1, <1>2 DEF Popped
<1>4. ASSUME Is(e, {"unlast", "pass"}) PROVE Popped(m)
  <2>1. Rounded(e) = laneHead[Lane(e)]
    BY <1>4 DEF Is, Turns, PopTurns, Popping, MyLane
  <2> QED BY <1>0, <1>1, <2>1 DEF Popped
<1> QED BY <1>3, <1>4 DEF Unlinked, e

(* The push whose turn it is: every ticket before its own is through, and  *)
(* none from its own on.                                                   *)
LEMMA PushNow ==
  ASSUME Turns, NEW t \in Threads, pc[t] \in Storing, NEW m \in Nat, Lane(m) = MyLane(t)
  PROVE  /\ Pushed(m) <=> m < ticket[t]
         /\ m > ticket[t] => ~Linked(m)
         /\ Index(ticket[t]) = 0 => ~Unlinked(ticket[t])
         /\ pc[t] \in {"lock", "link"} => ~Linked(ticket[t])
<1> DEFINE k == ticket[t]
<1>1. k \in Nat /\ Lane(m) = Lane(k)
  BY Drawn
<1>2. ~Pushed(k) /\ Rounded(k) = laneTail[Lane(k)] /\ pc[t] \in Pushing
  BY <1>1 DEF Turns, PushTurns, Storing, Pushing
<1>3. pc[t] \in {"lock", "link"} => ~Is(k, {"last", "store", "advance"})
  BY <1>2 DEF Is, Turns, OwnTickets, Pushing
<1> HIDE DEF k
<1>4. Rounded(k) - Rounded(m) = k - m /\ Rounded(k) \in Nat /\ Rounded(m) \in Nat
  BY <1>1, InLane, Rounding
<1>5. Pushed(m) <=> m < k
  BY <1>1, <1>2, <1>4 DEF Pushed
<1>6. m > k => ~Linked(m)
  BY <1>1, <1>2, LinkedAfter
<1>7. Index(k) = 0 => ~Unlinked(k)
  BY <1>1, <1>2, PageFacts
<1>8. pc[t] \in {"lock", "link"} => ~Linked(k)
  BY <1>2, <1>3 DEF Linked
<1> QED BY <1>5, <1>6, <1>7, <1>8 DEF k

(* The pop whose turn it is, in the same way. *)
LEMMA PopNow ==
  ASSUME Turns, NEW t \in Threads, pc[t] \in Removing, NEW m \in Nat, Lane(m) = MyLane(t)
  PROVE  /\ Popped(m) <=> m < ticket[t]
         /\ m <= ticket[t] => Pushed(m)
<1> DEFINE k == ticket[t]
<1>1. k \in Nat /\ Lane(m) = Lane(k)
  BY Drawn
<1>2. ~Popped(k) /\ Rounded(k) = laneHead[Lane(k)] /\ Pushed(k)
  BY <1>1 DEF Turns, PopTurns, Removing, Popping, MyLane
<1> HIDE DEF k
<1>4. Rounded(k) - Rounded(m) = k - m /\ Rounded(k) \in Nat /\ Rounded(m) \in Nat
  BY <1>1, InLane, Rounding
<1>5. Popped(m) <=> m < k
  BY <1>1, <1>2, <1>4 DEF Popped
<1>6. m <= k => Pushed(m)
  BY <1>1, <1>2, Earlier DEF Turns
<1> QED BY <1>5, <1>6 DEF k

(* The pop of the last slot of a page removes this page, and no other is   *)
(* before it.                                                              *)
LEMMA LastPop ==
  ASSUME Turns, NEW t \in Threads, pc[t] \in Removing, LastSlot(t),
         NEW q \in Nat, Index(q) = 0, Lane(q) = MyLane(t)
  PROVE  LET p == PageOf(ticket[t])
         IN  /\ p \in Pages /\ Index(p) = 0 /\ Lane(p) = MyLane(t) /\ ticket[t] = EndOf(p)
             /\ Linked(p) /\ Ended(p)
             /\ q < p => Cleared(q) /\ Unlinked(q)
             /\ q > p => ~Unlinked(q)
             /\ Unlinked(p) <=> pc[t] \in {"unlast", "pass"}
             /\ Cleared(p) <=> pc[t] = "pass"
<1> DEFINE k == ticket[t]
           p == PageOf(k)
<1>1. /\ k \in Nat /\ p \in Nat /\ p <= k /\ Lane(p) = Lane(k) /\ Index(p) = 0
      /\ Lane(q) = Lane(k) /\ MyLane(t) = Lane(k) /\ p \in Pages
  <2>1. pc[t] \in Popping
    BY DEF Removing, Popping
  <2> QED BY <2>1, Drawn, PageOfTicket
<1>2. k = EndOf(p)
  BY <1>1, OfPage DEF LastSlot
<1>3. \A m \in Nat : Lane(m) = Lane(k) => (Popped(m) <=> m < k) /\ (m <= k => Pushed(m))
  BY <1>1, PopNow
<1>4. \A u \in Threads : ticket[u] = k /\ pc[u] \in Popping => u = t
  BY DEF Turns, OwnTickets, Removing, Popping
<1>5. Is(k, {"unlast", "pass"}) <=> pc[t] \in {"unlast", "pass"}
  BY <1>4 DEF Is, Popping
<1>6. Is(k, {"pass"}) <=> pc[t] = "pass"
  BY <1>4 DEF Is, Popping
<1> HIDE DEF k, p
<1>7. Linked(p) /\ Ended(p)
  BY <1>1, <1>3 DEF Linked, Ended
<1>8. Unlinked(p) <=> pc[t] \in {"unlast", "pass"}
  BY <1>1, <1>2, <1>3, <1>5 DEF Unlinked
<1>9. Cleared(p) <=> pc[t] = "pass"
  BY <1>1, <1>2, <1>3, <1>6 DEF Cleared
<1>10. EndOf(q) \in Nat /\ Lane(EndOf(q)) = Lane(q) /\ EndOf(q) + NQueue = Behind(q)
  BY PageEnds
<1>11. q < p => Cleared(q) /\ Unlinked(q)
  <2> SUFFICES ASSUME q < p PROVE Popped(EndOf(q))
    BY DEF Cleared, Unlinked
  <2>1. Behind(q) <= p
    BY <1>1, PagesApart
  <2> QED BY <1>1, <1>3, <1>10, <2>1, SizesAssumption
<1>12. q > p => ~Unlinked(q)
  <2> SUFFICES ASSUME q > p, Unlinked(q) PROVE FALSE
    OBVIOUS
  <2>1. k < EndOf(q)
    <3>1. Behind(p) <= q /\ EndOf(p) + NQueue = Behind(p) /\ q <= EndOf(q) /\ Behind(p) \in Nat
      BY <1>1, PagesApart, PageEnds
    <3> QED BY <1>1, <1>2, <1>10, <3>1, SizesAssumption
  <2>2. Popped(k)
    BY <1>1, <2>1, UnlinkedAfter
  <2> QED BY <1>1, <1>3, <2>2
<1> QED BY <1>1, <1>2, <1>7, <1>8, <1>9, <1>11, <1>12 DEF k, p

(* One thread is at the list of a lane. *)
LEMMA Alone ==
  ASSUME Turns, Locked, NEW t \in Threads, NEW u \in Threads, MyLane(t) = MyLane(u),
         pc[t] \in {"link", "last", "unlink", "unlast"},
         pc[u] \in {"link", "last", "unlink", "unlast"}
  PROVE  t = u
  BY DEF Locked

-----------------------------------------------------------------------------
(* Which action a thread takes, by its place, and what actions leave alone. *)
LEMMA ActionAt ==
  ASSUME Kinds, NEW t \in Threads, Act(t)
  PROVE  /\ pc[t] = "turn" => PushTurn(t)
         /\ pc[t] = "tail" => ReadTailPage(t)
         /\ pc[t] = "lock" => LinkLock(t)
         /\ pc[t] = "link" => LinkPage(t)
         /\ pc[t] = "last" => LinkLast(t)
         /\ pc[t] = "store" => Store(t)
         /\ pc[t] = "advance" => Advance(t)
         /\ pc[t] = "take" => TakeItem(t)
         /\ pc[t] = "unlock" => UnlinkLock(t)
         /\ pc[t] = "unlink" => UnlinkPage(t)
         /\ pc[t] = "unlast" => UnlinkLast(t)
         /\ pc[t] = "pass" => PassTurn(t)
         /\ pc[t] = "free" => FreePage(t)
<1>1. pc[t] = "turn" => PushTurn(t)
  BY Routes DEF Act, Push, Pop, Route
<1>2. pc[t] = "tail" => ReadTailPage(t)
  BY Routes DEF Act, Push, Pop, Route
<1>3. pc[t] = "lock" => LinkLock(t)
  BY Routes DEF Act, Push, Pop, Route
<1>4. pc[t] = "link" => LinkPage(t)
  BY Routes DEF Act, Push, Pop, Route
<1>5. pc[t] = "last" => LinkLast(t)
  BY Routes DEF Act, Push, Pop, Route
<1>6. pc[t] = "store" => Store(t)
  BY Routes DEF Act, Push, Pop, Route
<1>7. pc[t] = "advance" => Advance(t)
  BY Routes DEF Act, Push, Pop, Route
<1>8. pc[t] = "take" => TakeItem(t)
  BY Routes DEF Act, Push, Pop, Route
<1>9. pc[t] = "unlock" => UnlinkLock(t)
  BY Routes DEF Act, Push, Pop, Route
<1>10. pc[t] = "unlink" => UnlinkPage(t)
  BY Routes DEF Act, Push, Pop, Route
<1>11. pc[t] = "unlast" => UnlinkLast(t)
  BY Routes DEF Act, Push, Pop, Route
<1>12. pc[t] = "pass" => PassTurn(t)
  BY Routes DEF Act, Push, Pop, Route
<1>13. pc[t] = "free" => FreePage(t)
  BY Routes DEF Act, Push, Pop, Route
<1> QED BY <1>1, <1>2, <1>3, <1>4, <1>5, <1>6, <1>7, <1>8, <1>9, <1>10, <1>11, <1>12, <1>13

LEMMA Untouched ==
  ASSUME Kinds, NEW t \in Threads, Act(t)
  PROVE  /\ pc[t] \notin {"link", "unlink"} => headPage' = headPage
         /\ pc[t] \notin {"last", "unlast"} => tailPage' = tailPage
         /\ pc[t] # "link" => next' = next
         /\ pc[t] \notin {"lock", "last", "unlock", "unlast"} => lock' = lock
         /\ pc[t] # "store" => mask' = mask
         /\ pc[t] \notin {"store", "take"} => slots' = slots
         /\ pc[t] \notin {"out", "free"} => live' = live
         /\ \A u \in Threads : u # t => page'[u] = page[u] /\ other'[u] = other[u]
<1> USE DEF At, GoTo, Leave, queueVars, laneVars, pageVars, localVars, Kinds
<1>1. CASE PushTicket(t)
  BY <1>1 DEF PushTicket, AllocatePage
<1>2. CASE PushTurn(t) \/ ReadTailPage(t)
  BY <1>2 DEF PushTurn, ReadTailPage
<1>3. CASE LinkLock(t) \/ UnlinkLock(t)
  BY <1>3 DEF LinkLock, UnlinkLock
<1>4. CASE LinkPage(t) \/ LinkLast(t) \/ Store(t)
  BY <1>4 DEF LinkPage, LinkLast, Store
<1>5. CASE Advance(t) \/ CallPop(t) \/ CheckEmpty(t) \/ CheckSome(t) \/ CasDraws(t) \/ CasFails(t)
             \/ PopTurn(t) \/ PopFilled(t)
  BY <1>5 DEF Advance, CallPop, CheckEmpty, CheckSome, CasDraws, CasFails, PopTurn, PopFilled
<1>6. CASE TakeItem(t) \/ UnlinkPage(t) \/ UnlinkLast(t)
  BY <1>6 DEF TakeItem, UnlinkPage, UnlinkLast
<1>7. CASE PassTurn(t) \/ FreePage(t)
  BY <1>7 DEF PassTurn, FreePage
<1> QED BY <1>1, <1>2, <1>3, <1>4, <1>5, <1>6, <1>7 DEF Act, Push, Pop

-----------------------------------------------------------------------------
(* The invariant of the lists, one part at a time: the head of the list.   *)
LEMMA HeadFrame ==
  ASSUME Turns, Listed, Kinds', NEW t \in Threads, Act(t), pc[t] \notin {"link", "unlink"}
  PROVE  HeadRight'
<1>1. headPage' = headPage
  BY Untouched DEF Turns
<1>2. \A p \in Nat : Index(p) = 0 => /\ Linked(p)' <=> Linked(p)
                                     /\ Unlinked(p)' <=> Unlinked(p)
  BY PushStages, PopStages DEF Listed
<1>3. \A p \in Pages : p \in Nat
  BY DEF Pages, Tickets
<1> QED BY <1>1, <1>2, <1>3 DEF Listed, HeadRight, IsPage

(* The push of the first slot of a page in its turn. *)
LEMMA LinkingPage ==
  ASSUME Turns, Listed, NEW t \in Threads, pc[t] \in {"link", "last"}
  PROVE  LET k == ticket[t]
         IN  /\ k \in Pages /\ k \in Nat /\ IsPage(k) /\ Lane(k) = MyLane(t) /\ page[t] = k
             /\ MyLane(t) \in Lanes
             /\ pc[t] = "link" => ~Linked(k) /\ other[t] = tailPage[MyLane(t)]
             /\ ~Unlinked(k) /\ ~Cleared(k)
             /\ \A p \in Nat : Index(p) = 0 /\ Lane(p) = MyLane(t) =>
                  /\ p < k => Pushed(p) /\ Linked(p) /\ Ended(p)
                  /\ p < k => (Unlinked(p) <=> Cleared(p))
                  /\ p > k => ~Linked(p) /\ ~Ended(p)
<1> DEFINE k == ticket[t]
<1>1. /\ pc[t] \in Pushing /\ pc[t] \in Storing /\ Index(k) = 0 /\ page[t] = k
      /\ pc[t] = "link" => other[t] = tailPage[MyLane(t)]
  BY DEF Listed, PushLocals, Pushing, Storing
<1>2. k \in Pages /\ k \in Nat /\ Lane(k) = MyLane(t) /\ MyLane(t) \in Lanes
  BY <1>1, Drawn DEF Pages
<1>3. /\ pc[t] = "link" => ~Linked(k)
      /\ ~Unlinked(k)
  BY <1>1, <1>2, PushNow
<1>4. ~Cleared(k)
  BY <1>1, <1>2, <1>3, PageFacts
<1>5. ASSUME NEW p \in Nat, Index(p) = 0, Lane(p) = MyLane(t)
      PROVE  /\ p < k => Pushed(p) /\ Linked(p) /\ Ended(p)
             /\ p < k => (Unlinked(p) <=> Cleared(p))
             /\ p > k => ~Linked(p) /\ ~Ended(p)
  <2>1. /\ Pushed(p) <=> p < k
        /\ p > k => ~Linked(p)
    BY <1>1, <1>5, PushNow
  <2>2. /\ Ended(p) => Linked(p)
        /\ Cleared(p) => Unlinked(p)
    BY <1>5, PageFacts
  <2>3. ASSUME Unlinked(p), ~Cleared(p) PROVE FALSE
    <3>1. PICK u \in Threads : pc[u] = "unlast" /\ ticket[u] = EndOf(p)
      BY <2>3 DEF Unlinked, Cleared, Is
    <3>2. MyLane(u) = MyLane(t)
      BY <1>5, <3>1, PageEnds DEF MyLane
    <3> QED BY <3>1, <3>2, Alone DEF Listed
  <2> QED BY <2>1, <2>2, <2>3 DEF Linked, Ended
<1> HIDE DEF k
<1>6. IsPage(k)
  BY <1>1, <1>2 DEF IsPage
<1> QED BY <1>1, <1>2, <1>3, <1>4, <1>5, <1>6 DEF k

LEMMA HeadLink ==
  ASSUME Turns, Listed, Kinds', NEW t \in Threads, Act(t), pc[t] = "link"
  PROVE  HeadRight'
<1> DEFINE k == ticket[t]
           l == MyLane(t)
<1>1. /\ k \in Pages /\ k \in Nat /\ Index(k) = 0 /\ Lane(k) = l /\ page[t] = k /\ l \in Lanes
      /\ ~Linked(k) /\ other[t] = tailPage[l] /\ ~Unlinked(k)
      /\ \A p \in Nat : Index(p) = 0 /\ Lane(p) = l =>
           /\ p < k => Linked(p) /\ Ended(p) /\ (Unlinked(p) <=> Cleared(p))
           /\ p > k => ~Linked(p)
  BY LinkingPage DEF IsPage
<1>2. \A p \in Nat : Index(p) = 0 =>
        /\ Linked(p)' <=> Linked(p) \/ p = k
        /\ Unlinked(p)' <=> Unlinked(p)
  BY PushStages, PopStages DEF Listed
<1>3. LinkPage(t) /\ Kinds
  BY ActionAt DEF Turns
<1>4. \A p \in Pages : p \in Nat
  BY DEF Pages, Tickets
<1>5. headPage' = IF other[t] # NoPage THEN headPage ELSE [headPage EXCEPT ![l] = k]
  BY <1>1, <1>3 DEF LinkPage
<1>6. HeadRight /\ TailRight /\ headPage \in [Lanes -> Pages \union {NoPage}]
      /\ k # NoPage
  BY <1>1, <1>3 DEF Listed, Kinds, NoPage
<1> HIDE DEF k, l
<1>7. CASE other[t] # NoPage
  <2> DEFINE r == tailPage[l]
  <2>1. r \in Pages /\ r \in Nat /\ Index(r) = 0 /\ Lane(r) = l /\ Ended(r) /\ ~Cleared(r)
    <3>1. r # NoPage
      BY <1>1, <1>7
    <3>2. r \in Pages
      BY <1>1, <1>3, <3>1 DEF Kinds
    <3> QED BY <1>1, <1>4, <1>6, <3>1, <3>2 DEF TailRight, IsPage
  <2> HIDE DEF r
  <2>2. Linked(r)
    BY <2>1, PageFacts
  <2>3. r < k
    BY <1>1, <2>1, <2>2
  <2>4. ~Unlinked(r)
    BY <1>1, <2>1, <2>3
  <2>5. headPage[l] # NoPage /\ headPage[l] <= r
    BY <1>6, <2>1, <2>2, <2>4 DEF HeadRight, IsPage
  <2>6. headPage[l] \in Nat /\ headPage[l] <= k
    <3>1. headPage[l] \in Pages
      BY <1>1, <1>6, <2>5
    <3> DEFINE h == headPage[l]
    <3>2. h \in Nat /\ h <= r /\ r \in Nat /\ r < k /\ k \in Nat
      BY <1>1, <1>4, <2>1, <2>3, <2>5, <3>1
    <3> HIDE DEF h
    <3>3. h \in Nat /\ h <= k
      BY ONLY <3>2
    <3> QED BY <3>3 DEF h
  <2>7. headPage' = headPage
    BY <1>5, <1>7
  <2>8. ASSUME NEW p \in Nat, IsPage(p), Linked(p)', ~Unlinked(p)'
        PROVE  headPage[Lane(p)] # NoPage /\ headPage[Lane(p)] <= p
    <3>1. (Linked(p) \/ p = k) /\ ~Unlinked(p)
      BY <1>2, <2>8 DEF IsPage
    <3>2. CASE Linked(p)
      BY <1>6, <2>8, <3>1, <3>2 DEF HeadRight
    <3>3. CASE p = k
      BY <1>1, <2>5, <2>6, <3>3
    <3> QED BY <3>1, <3>2, <3>3
  <2>9. ASSUME NEW m \in Lanes, NEW p \in Pages, headPage[m] = p
        PROVE  IsPage(p) /\ Lane(p) = m /\ Linked(p)' /\ ~Unlinked(p)'
    BY <1>2, <1>4, <1>6, <2>9 DEF HeadRight, IsPage
  <2> QED BY <2>7, <2>8, <2>9 DEF HeadRight
<1>8. CASE other[t] = NoPage
  <2>1. headPage'[l] = k /\ \A m \in Lanes : m # l => headPage'[m] = headPage[m]
    BY <1>1, <1>5, <1>6, <1>8
  <2>2. ASSUME NEW p \in Nat, IsPage(p), Linked(p)', ~Unlinked(p)'
        PROVE  headPage'[Lane(p)] # NoPage /\ headPage'[Lane(p)] <= p
    <3>1. CASE Lane(p) # l
      BY <1>1, <1>2, <1>6, <2>1, <2>2, <3>1, LaneOf DEF HeadRight, IsPage
    <3>2. CASE Lane(p) = l
      <4>1. ~(p < k)
        BY <1>1, <1>2, <1>6, <1>8, <2>2, <3>2 DEF TailRight, IsPage
      <4> QED BY <1>1, <1>6, <2>1, <3>2, <4>1
    <3> QED BY <3>1, <3>2
  <2>3. ASSUME NEW m \in Lanes, NEW p \in Pages, headPage'[m] = p
        PROVE  IsPage(p) /\ Lane(p) = m /\ Linked(p)' /\ ~Unlinked(p)'
    <3>1. CASE m = l
      BY <1>1, <1>2, <2>1, <2>3, <3>1 DEF IsPage
    <3>2. CASE m # l
      BY <1>2, <1>4, <1>6, <2>1, <2>3, <3>2 DEF HeadRight, IsPage
    <3> QED BY <3>1, <3>2
  <2> QED BY <2>2, <2>3 DEF HeadRight
<1> QED BY <1>7, <1>8

(* The pop of the last slot of a page. *)
LEMMA UnlinkingPage ==
  ASSUME Turns, Listed, NEW t \in Threads, pc[t] \in {"unlock", "unlink", "unlast"}
  PROVE  LET p == page[t]
             b == Behind(p)
         IN  /\ p = PageOf(ticket[t]) /\ p \in Pages /\ p \in Nat /\ Index(p) = 0 /\ Lane(p) = MyLane(t)
             /\ MyLane(t) \in Lanes /\ ticket[t] = EndOf(p) /\ Linked(p) /\ Ended(p)
             /\ Unlinked(p) <=> pc[t] = "unlast"
             /\ ~Cleared(p)
             /\ b \in Nat /\ Index(b) = 0 /\ Lane(b) = MyLane(t) /\ p < b
             /\ pc[t] \in {"unlink", "unlast"} => other[t] = NextPage(p)
             /\ \A q \in Nat : Index(q) = 0 /\ Lane(q) = MyLane(t) =>
                  /\ q < p => Cleared(q) /\ Unlinked(q)
                  /\ q > p => ~Unlinked(q) /\ ~Cleared(q)
                  /\ q > p /\ Linked(q) => Linked(b) /\ b <= q
<1> DEFINE k == ticket[t]
           p == PageOf(k)
           b == Behind(p)
<1>1. /\ pc[t] \in Popping /\ pc[t] \in Removing /\ LastSlot(t) /\ page[t] = p
  BY DEF Listed, PopLocals, Popping, Removing
<1>2. /\ p \in Pages /\ p \in Nat /\ Index(p) = 0 /\ Lane(p) = MyLane(t) /\ MyLane(t) \in Lanes
      /\ k \in Nat
  BY <1>1, Drawn, PageOfTicket
<1>3. k = EndOf(p) /\ Linked(p) /\ Ended(p) /\ (Unlinked(p) <=> pc[t] = "unlast") /\ ~Cleared(p)
  BY <1>1, <1>2, LastPop
<1>4. pc[t] \in {"unlink", "unlast"} => other[t] = NextPage(p)
  BY <1>1, <1>2 DEF Listed, PopLocals
<1>5. b \in Nat /\ Index(b) = 0 /\ Lane(b) = MyLane(t) /\ p < b
  BY <1>2, PageEnds
<1>6. ASSUME NEW q \in Nat, Index(q) = 0, Lane(q) = MyLane(t)
      PROVE  /\ q < p => Cleared(q) /\ Unlinked(q)
             /\ q > p => ~Unlinked(q) /\ ~Cleared(q)
             /\ q > p /\ Linked(q) => Linked(b) /\ b <= q
  <2>1. /\ q < p => Cleared(q) /\ Unlinked(q)
        /\ q > p => ~Unlinked(q)
    BY <1>1, <1>6, LastPop
  <2>2. Cleared(q) => Unlinked(q)
    BY <1>6, PageFacts
  <2>3. ASSUME q > p, Linked(q) PROVE Linked(b) /\ b <= q
    <3>1. b <= q
      BY <1>2, <1>6, <2>3, PagesApart
    <3>2. b < q => Linked(b)
      BY <1>5, <1>6, <2>3, LinkedAfter DEF Linked
    <3> QED BY <1>5, <1>6, <2>3, <3>1, <3>2
  <2> QED BY <2>1, <2>2, <2>3
<1> HIDE DEF k, p, b
<1>7. p = PageOf(ticket[t]) /\ b = Behind(p) /\ k = ticket[t]
  BY DEF k, p, b
<1> QED BY <1>1, <1>2, <1>3, <1>4, <1>5, <1>6, <1>7

LEMMA HeadUnlink ==
  ASSUME Turns, Listed, Kinds', NEW t \in Threads, Act(t), pc[t] = "unlink"
  PROVE  HeadRight'
<1> DEFINE p == page[t]
           b == Behind(p)
           l == MyLane(t)
<1>1. /\ p \in Pages /\ p \in Nat /\ Index(p) = 0 /\ Lane(p) = l /\ l \in Lanes
      /\ ticket[t] = EndOf(p) /\ ~Unlinked(p) /\ Linked(p)
      /\ b \in Nat /\ Index(b) = 0 /\ Lane(b) = l /\ p < b
      /\ other[t] = NextPage(p)
      /\ \A q \in Nat : Index(q) = 0 /\ Lane(q) = l =>
           /\ q < p => Unlinked(q)
           /\ q > p => ~Unlinked(q)
           /\ q > p /\ Linked(q) => Linked(b) /\ b <= q
  BY UnlinkingPage
<1>2. UnlinkPage(t) /\ Kinds
  BY ActionAt DEF Turns
<1>3. \A q \in Pages : q \in Nat
  BY DEF Pages, Tickets
<1>4. headPage' = [headPage EXCEPT ![l] = other[t]]
  BY <1>2 DEF UnlinkPage
<1>5. HeadRight /\ headPage \in [Lanes -> Pages \union {NoPage}]
  BY <1>2 DEF Listed, Kinds
<1>6. headPage'[l] = other[t] /\ \A m \in Lanes : m # l => headPage'[m] = headPage[m]
  BY <1>1, <1>4, <1>5
<1>7. other[t] = IF Linked(b) THEN b ELSE NoPage
  BY <1>1 DEF NextPage
<1>8. Linked(b) => b \in Pages
  BY <1>1, PageFacts
<1> HIDE DEF p, b, l
<1>9. ASSUME NEW q \in Nat, Index(q) = 0
      PROVE  /\ Linked(q)' <=> Linked(q)
             /\ Unlinked(q)' <=> Unlinked(q) \/ q = p
  <2>1. /\ Linked(q)' <=> Linked(q)
        /\ Unlinked(q)' <=> Unlinked(q) \/ ticket[t] = EndOf(q)
    BY <1>9, PushStages, PopStages DEF Listed
  <2>2. EndOf(p) = EndOf(q) => p = q
    BY <1>1, <1>9, PageEnds
  <2> QED BY <1>1, <2>1, <2>2
<1>10. ASSUME NEW q \in Nat, IsPage(q), Linked(q)', ~Unlinked(q)'
       PROVE  headPage'[Lane(q)] # NoPage /\ headPage'[Lane(q)] <= q
  <2>1. CASE Lane(q) # l
    BY <1>5, <1>6, <1>9, <1>10, <2>1, LaneOf DEF HeadRight, IsPage
  <2>2. CASE Lane(q) = l
    <3>1. q > p /\ Linked(q)
      BY <1>1, <1>9, <1>10, <2>2 DEF IsPage
    <3>2. Linked(b) /\ b <= q
      BY <1>1, <1>10, <2>2, <3>1 DEF IsPage
    <3> QED BY <1>1, <1>6, <1>7, <2>2, <3>2 DEF NoPage
  <2> QED BY <2>1, <2>2
<1>11. ASSUME NEW m \in Lanes, NEW q \in Pages, headPage'[m] = q
       PROVE  IsPage(q) /\ Lane(q) = m /\ Linked(q)' /\ ~Unlinked(q)'
  <2>1. CASE m # l
    <3>1. IsPage(q) /\ Lane(q) = m /\ Linked(q) /\ ~Unlinked(q)
      BY <1>5, <1>6, <1>11, <2>1 DEF HeadRight
    <3> QED BY <1>1, <1>3, <1>9, <2>1, <3>1 DEF IsPage
  <2>2. CASE m = l
    <3>1. q = b /\ Linked(b)
      BY <1>3, <1>6, <1>7, <1>11, <2>2 DEF NoPage
    <3> QED BY <1>1, <1>9, <2>2, <3>1 DEF IsPage
  <2> QED BY <2>1, <2>2
<1> QED BY <1>10, <1>11 DEF HeadRight

(* The tail of the list. *)
LEMMA TailFrame ==
  ASSUME Turns, Listed, Kinds', NEW t \in Threads, Act(t), pc[t] \notin {"last", "unlast"}
  PROVE  TailRight'
<1>1. tailPage' = tailPage
  BY Untouched DEF Turns
<1>2. \A p \in Nat : Index(p) = 0 => /\ Ended(p)' <=> Ended(p)
                                     /\ Cleared(p)' <=> Cleared(p)
  BY PushStages, PopStages DEF Listed
<1>3. \A p \in Pages : p \in Nat
  BY DEF Pages, Tickets
<1> QED BY <1>1, <1>2, <1>3 DEF Listed, TailRight, IsPage

LEMMA TailLink ==
  ASSUME Turns, Listed, Kinds', NEW t \in Threads, Act(t), pc[t] = "last"
  PROVE  TailRight'
<1> DEFINE k == ticket[t]
           l == MyLane(t)
<1>1. /\ k \in Pages /\ k \in Nat /\ Index(k) = 0 /\ Lane(k) = l /\ page[t] = k /\ l \in Lanes
      /\ ~Cleared(k)
      /\ \A p \in Nat : Index(p) = 0 /\ Lane(p) = l => (p > k => ~Ended(p))
  BY LinkingPage DEF IsPage
<1>2. \A p \in Nat : Index(p) = 0 =>
        /\ Ended(p)' <=> Ended(p) \/ p = k
        /\ Cleared(p)' <=> Cleared(p)
  BY PushStages, PopStages DEF Listed
<1>3. LinkLast(t) /\ Kinds
  BY ActionAt DEF Turns
<1>4. \A p \in Pages : p \in Nat
  BY DEF Pages, Tickets
<1>5. tailPage' = [tailPage EXCEPT ![l] = k] /\ tailPage \in [Lanes -> Pages \union {NoPage}]
      /\ TailRight
  BY <1>1, <1>3 DEF LinkLast, Kinds, Listed
<1>6. tailPage'[l] = k /\ \A m \in Lanes : m # l => tailPage'[m] = tailPage[m]
  BY <1>1, <1>5
<1> HIDE DEF k, l
<1>7. ASSUME NEW p \in Nat, IsPage(p), Ended(p)', ~Cleared(p)'
      PROVE  tailPage'[Lane(p)] # NoPage /\ p <= tailPage'[Lane(p)]
  <2>1. CASE Lane(p) # l
    BY <1>1, <1>2, <1>5, <1>6, <1>7, <2>1, LaneOf DEF TailRight, IsPage
  <2>2. CASE Lane(p) = l
    BY <1>1, <1>2, <1>6, <1>7, <2>2 DEF IsPage, NoPage
  <2> QED BY <2>1, <2>2
<1>8. ASSUME NEW m \in Lanes, NEW p \in Pages, tailPage'[m] = p
      PROVE  IsPage(p) /\ Lane(p) = m /\ Ended(p)' /\ ~Cleared(p)'
  <2>1. CASE m = l
    BY <1>1, <1>2, <1>6, <1>8, <2>1 DEF IsPage
  <2>2. CASE m # l
    BY <1>2, <1>4, <1>5, <1>6, <1>8, <2>2 DEF TailRight, IsPage
  <2> QED BY <2>1, <2>2
<1> QED BY <1>7, <1>8 DEF TailRight

LEMMA TailUnlink ==
  ASSUME Turns, Listed, Kinds', NEW t \in Threads, Act(t), pc[t] = "unlast"
  PROVE  TailRight'
<1> DEFINE p == page[t]
           b == Behind(p)
           l == MyLane(t)
<1>1. /\ p \in Pages /\ p \in Nat /\ Index(p) = 0 /\ Lane(p) = l /\ l \in Lanes
      /\ ticket[t] = EndOf(p) /\ ~Cleared(p) /\ Ended(p)
      /\ b \in Nat /\ Index(b) = 0 /\ Lane(b) = l /\ p < b
      /\ other[t] = NextPage(p)
      /\ \A q \in Nat : Index(q) = 0 /\ Lane(q) = l =>
           /\ q < p => Cleared(q)
           /\ q > p => ~Cleared(q)
           /\ q > p /\ Linked(q) => Linked(b) /\ b <= q
  BY UnlinkingPage
<1>2. UnlinkLast(t) /\ Kinds
  BY ActionAt DEF Turns
<1>3. \A q \in Pages : q \in Nat
  BY DEF Pages, Tickets
<1>4. tailPage' = IF other[t] = NoPage THEN [tailPage EXCEPT ![l] = NoPage] ELSE tailPage
  BY <1>2 DEF UnlinkLast
<1>5. TailRight /\ tailPage \in [Lanes -> Pages \union {NoPage}]
  BY <1>2 DEF Listed, Kinds
<1>6. other[t] = IF Linked(b) THEN b ELSE NoPage
  BY <1>1 DEF NextPage
<1>7. ~Is(b, {"last"})
  <2> SUFFICES ASSUME NEW u \in Threads, pc[u] = "last", ticket[u] = b PROVE FALSE
    BY DEF Is
  <2>1. MyLane(u) = MyLane(t)
    BY <1>1 DEF MyLane
  <2> QED BY <2>1, Alone DEF Listed
<1> HIDE DEF p, b, l
<1>8. ASSUME NEW q \in Nat, Index(q) = 0
      PROVE  /\ Ended(q)' <=> Ended(q)
             /\ Cleared(q)' <=> Cleared(q) \/ q = p
             /\ Ended(q) => Linked(q)
  <2>1. /\ Ended(q)' <=> Ended(q)
        /\ Cleared(q)' <=> Cleared(q) \/ ticket[t] = EndOf(q)
    BY <1>8, PushStages, PopStages DEF Listed
  <2>2. EndOf(p) = EndOf(q) => p = q
    BY <1>1, <1>8, PageEnds
  <2>3. Ended(q) => Linked(q)
    BY <1>8, PageFacts
  <2> QED BY <1>1, <2>1, <2>2, <2>3
<1>9. CASE Linked(b)
  <2>1. tailPage' = tailPage
    BY <1>1, <1>4, <1>6, <1>9 DEF NoPage
  <2>2. Ended(b)
    BY <1>7, <1>9 DEF Linked, Ended, Is
  <2>3. tailPage[l] # NoPage /\ b <= tailPage[l]
    BY <1>1, <1>5, <2>2 DEF TailRight, IsPage
  <2>4. ASSUME NEW q \in Nat, IsPage(q), Ended(q)', ~Cleared(q)'
        PROVE  tailPage[Lane(q)] # NoPage /\ q <= tailPage[Lane(q)]
    BY <1>5, <1>8, <2>4 DEF TailRight, IsPage
  <2>5. ASSUME NEW m \in Lanes, NEW q \in Pages, tailPage[m] = q
        PROVE  IsPage(q) /\ Lane(q) = m /\ Ended(q)' /\ ~Cleared(q)'
    <3>1. IsPage(q) /\ Lane(q) = m /\ Ended(q) /\ ~Cleared(q)
      BY <1>5, <2>5 DEF TailRight
    <3>2. q # p
      BY <1>1, <2>3, <2>5, <3>1
    <3> QED BY <1>3, <1>8, <3>1, <3>2 DEF IsPage
  <2> QED BY <2>1, <2>4, <2>5 DEF TailRight
<1>10. CASE ~Linked(b)
  <2>1. tailPage'[l] = NoPage /\ \A m \in Lanes : m # l => tailPage'[m] = tailPage[m]
    BY <1>1, <1>4, <1>5, <1>6, <1>10
  <2>2. ASSUME NEW q \in Nat, IsPage(q), Ended(q)', ~Cleared(q)'
        PROVE  tailPage'[Lane(q)] # NoPage /\ q <= tailPage'[Lane(q)]
    <3>1. Lane(q) # l
      BY <1>1, <1>8, <1>10, <2>2 DEF IsPage
    <3> QED BY <1>5, <1>8, <2>1, <2>2, <3>1, LaneOf DEF TailRight, IsPage
  <2>3. ASSUME NEW m \in Lanes, NEW q \in Pages, tailPage'[m] = q
        PROVE  IsPage(q) /\ Lane(q) = m /\ Ended(q)' /\ ~Cleared(q)'
    <3>1. m # l
      BY <1>3, <2>1, <2>3 DEF NoPage
    <3>2. IsPage(q) /\ Lane(q) = m /\ Ended(q) /\ ~Cleared(q)
      BY <1>5, <2>1, <2>3, <3>1 DEF TailRight
    <3> QED BY <1>1, <1>3, <1>8, <3>1, <3>2 DEF IsPage
  <2> QED BY <2>2, <2>3 DEF TailRight
<1> QED BY <1>9, <1>10

(* The next fields. *)
LEMMA NextFrame ==
  ASSUME Turns, Listed, Kinds', NEW t \in Threads, Act(t), pc[t] # "link"
  PROVE  NextRight'
<1>1. next' = next
  BY Untouched DEF Turns
<1>2. \A p \in Nat : Index(p) = 0 => /\ Linked(p)' <=> Linked(p)
                                     /\ Unlinked(p) => Unlinked(p)'
  BY PushStages, PopStages DEF Listed
<1>3. \A p \in Pages : p \in Nat
  BY DEF Pages, Tickets
<1>4. ASSUME NEW p \in Pages, IsPage(p)
      PROVE  NextPage(p)' = NextPage(p)
  <2>1. Behind(p) \in Nat /\ Index(Behind(p)) = 0
    BY <1>4, PageEnds DEF IsPage
  <2>2. CASE Linked(Behind(p))
    <3>1. Linked(Behind(p))'
      BY <1>2, <2>1, <2>2
    <3> QED BY <2>2, <3>1 DEF NextPage
  <2>3. CASE ~Linked(Behind(p))
    <3>1. ~Linked(Behind(p))'
      BY <1>2, <2>1, <2>3
    <3> QED BY <2>3, <3>1 DEF NextPage
  <2> QED BY <2>2, <2>3
<1>5. NextRight
  BY DEF Listed
<1>6. ASSUME NEW p \in Pages, IsPage(p)
      PROVE  /\ ~Linked(p)' => next[p] = NoPage
             /\ Linked(p)' /\ ~Unlinked(p)' => next[p] = NextPage(p)'
  BY <1>2, <1>4, <1>5, <1>6 DEF NextRight, IsPage
<1> QED BY <1>1, <1>6 DEF NextRight

LEMMA NextLink ==
  ASSUME Turns, Listed, Kinds', NEW t \in Threads, Act(t), pc[t] = "link"
  PROVE  NextRight'
<1> DEFINE k == ticket[t]
           l == MyLane(t)
           r == tailPage[l]
<1>1. /\ k \in Pages /\ k \in Nat /\ Index(k) = 0 /\ Lane(k) = l /\ page[t] = k /\ l \in Lanes
      /\ ~Linked(k) /\ other[t] = r
      /\ \A p \in Nat : Index(p) = 0 /\ Lane(p) = l =>
           /\ p < k => Linked(p) /\ Ended(p) /\ (Unlinked(p) <=> Cleared(p))
           /\ p > k => ~Linked(p)
  BY LinkingPage DEF IsPage
<1>2. \A p \in Nat : Index(p) = 0 =>
        /\ Linked(p)' <=> Linked(p) \/ p = k
        /\ Unlinked(p)' <=> Unlinked(p)
  BY PushStages, PopStages DEF Listed
<1>3. LinkPage(t) /\ Kinds
  BY ActionAt DEF Turns
<1>4. \A p \in Pages : p \in Nat /\ p # NoPage
  BY DEF Pages, Tickets, NoPage
<1>5. next' = IF r # NoPage THEN [next EXCEPT ![r] = k] ELSE next
  BY <1>1, <1>3 DEF LinkPage
<1>6. /\ NextRight /\ TailRight /\ next \in [Pages -> Pages \union {NoPage}]
      /\ r \in Pages \union {NoPage}
  BY <1>1, <1>3 DEF Listed, Kinds
<1>7. r # NoPage => r \in Nat /\ Index(r) = 0 /\ Lane(r) = l /\ Ended(r) /\ ~Cleared(r) /\ Linked(r)
  <2>1. r # NoPage => r \in Nat /\ Index(r) = 0 /\ Lane(r) = l /\ Ended(r) /\ ~Cleared(r)
    BY <1>1, <1>4, <1>6 DEF TailRight, IsPage
  <2> QED BY <2>1, PageFacts
<1>8. r # k
  BY <1>1, <1>4, <1>7
<1> HIDE DEF k, l, r
(* The page before the new one is the last of the list. *)
<1>9. r # NoPage => Behind(r) = k
  <2> SUFFICES ASSUME r # NoPage PROVE Behind(r) = k
    OBVIOUS
  <2> DEFINE b == Behind(r)
  <2>1. r < k
    BY <1>1, <1>7, <1>8
  <2>2. b \in Nat /\ Index(b) = 0 /\ Lane(b) = l /\ r < b /\ EndOf(r) + NQueue = b
        /\ EndOf(r) \in Nat /\ Lane(EndOf(r)) = l
    BY <1>7, PageEnds
  <2>3. b <= k
    BY <1>1, <1>7, <2>1, PagesApart
  <2>4. ASSUME b < k PROVE FALSE
    <3>1. Ended(b)
      BY <1>1, <2>2, <2>4
    <3>2. ~Cleared(b)
      <4>1. EndOf(r) < EndOf(b)
        <5>1. b <= EndOf(b) /\ EndOf(b) \in Nat
          BY <2>2, PageEnds
        <5> QED BY <2>2, <5>1, SizesAssumption
      <4>2. Unlinked(b) => Popped(EndOf(r))
        BY <2>2, <4>1, UnlinkedAfter
      <4> QED BY <1>7, <2>2, <4>2, PageFacts DEF Cleared
    <3>3. b <= r
      BY <1>6, <2>2, <3>1, <3>2 DEF TailRight, IsPage, r, l
    <3> QED BY <1>7, <2>2, <3>3
  <2> QED BY <1>1, <2>2, <2>3, <2>4
<1>10. ASSUME NEW p \in Pages, IsPage(p)
       PROVE  /\ ~Linked(p)' => next'[p] = NoPage
              /\ Linked(p)' /\ ~Unlinked(p)' => next'[p] = NextPage(p)'
  <2> DEFINE b == Behind(p)
  <2>1. /\ p \in Nat /\ Index(p) = 0 /\ b \in Nat /\ Index(b) = 0 /\ p < b /\ Lane(b) = Lane(p)
    BY <1>4, <1>10, PageEnds DEF IsPage
  <2>2. /\ ~Linked(p) => next[p] = NoPage
        /\ Linked(p) /\ ~Unlinked(p) => next[p] = IF Linked(b) THEN b ELSE NoPage
    BY <1>6, <1>10 DEF NextRight, NextPage
  <2>3. /\ Linked(p)' <=> Linked(p) \/ p = k
        /\ Linked(b)' <=> Linked(b) \/ b = k
        /\ Unlinked(p)' <=> Unlinked(p)
    BY <1>2, <2>1
  <2>4. NextPage(p)' = IF Linked(b)' THEN b ELSE NoPage
    BY DEF NextPage
  <2> HIDE DEF b
  <2>5. CASE p = k
    <3>1. next'[p] = NoPage
      BY <1>1, <1>5, <1>6, <1>8, <2>2, <2>5
    <3>2. ~Linked(b) /\ b # k
      BY <1>1, <2>1, <2>5
    <3> QED BY <2>3, <2>4, <2>5, <3>1, <3>2
  <2>6. CASE b = k
    <3>1. Linked(p) /\ Ended(p) /\ (Unlinked(p) <=> Cleared(p))
      BY <1>1, <2>1, <2>6
    <3>2. ASSUME ~Cleared(p) PROVE r = p
      <4>1. r # NoPage /\ p <= r
        BY <1>1, <1>6, <2>1, <2>6, <3>1, <3>2 DEF TailRight, IsPage, r
      <4>2. r < k /\ Behind(r) = k
        BY <1>1, <1>7, <1>8, <1>9, <4>1
      <4>3. p < r => b <= r
        BY <1>1, <1>7, <2>1, <2>6, <4>1, PagesApart DEF b
      <4> QED BY <1>1, <1>7, <2>1, <2>6, <4>1, <4>2, <4>3
    <3>3. r = p => next'[p] = k
      BY <1>4, <1>5, <1>6
    <3> QED BY <2>3, <2>4, <2>6, <3>1, <3>2, <3>3
  <2>7. CASE p # k /\ b # k
    <3>1. p # r
      BY <1>4, <1>9, <2>7 DEF b
    <3>2. next'[p] = next[p]
      BY <1>5, <1>6, <3>1
    <3> QED BY <2>2, <2>3, <2>4, <2>7, <3>2
  <2> QED BY <2>5, <2>6, <2>7
<1> QED BY <1>10 DEF NextRight

(* page_mutex. *)
LEMMA LockedStep ==
  ASSUME Turns, Listed, Kinds', NEW t \in Threads, Act(t)
  PROVE  Locked'
<1> DEFINE A == {"link", "last", "unlink", "unlast"}
<1>1. Kinds /\ Others(t) /\ Locked
  BY ActionTurns DEF Act, Turns, Listed
<1>2. MyLane(t) \in Lanes
  BY Drawn
<1>3. ASSUME NEW u \in Threads, u # t, pc'[u] \in A
      PROVE  lock'[MyLane(u)'] = {u}
  <2>1. pc[u] \in A /\ MyLane(u)' = MyLane(u) /\ lock[MyLane(u)] = {u} /\ MyLane(u) \in Lanes
    BY <1>1, <1>3, Drawn DEF Others, MyLane, Locked
  <2>2. CASE pc[t] \in {"lock", "unlock"}
    <3>1. lock[MyLane(t)] = {} /\ lock' = [lock EXCEPT ![MyLane(t)] = {t}]
      BY <1>1, <2>2, ActionAt DEF LinkLock, UnlinkLock, Acquire
    <3> QED BY <1>1, <2>1, <3>1 DEF Kinds
  <2>3. CASE pc[t] \in {"last", "unlast"}
    <3>1. lock' = [lock EXCEPT ![MyLane(t)] = {}]
      BY <1>1, <2>3, ActionAt DEF LinkLast, UnlinkLast, Release
    <3>2. MyLane(u) # MyLane(t)
      BY <1>3, <2>1, <2>3, Alone DEF Listed
    <3> QED BY <1>1, <2>1, <3>1, <3>2 DEF Kinds
  <2>4. CASE pc[t] \notin {"lock", "last", "unlock", "unlast"}
    BY <1>1, <2>1, <2>4, Untouched
  <2> QED BY <2>2, <2>3, <2>4
<1>4. ASSUME pc'[t] \in A PROVE lock'[MyLane(t)'] = {t}
  <2>1. pc[t] \in {"lock", "unlock"} \/ pc[t] \in {"link", "unlink"}
    BY <1>1, <1>4, Moves DEF Location, Pushing, Popping, Deciding
  <2>2. ticket'[t] = ticket[t]
    BY <1>1, <2>1, Moves DEF Storing, Removing
  <2>3. MyLane(t)' = MyLane(t)
    BY <2>2 DEF MyLane
  <2>4. CASE pc[t] \in {"lock", "unlock"}
    <3>1. lock' = [lock EXCEPT ![MyLane(t)] = {t}]
      BY <1>1, <2>4, ActionAt DEF LinkLock, UnlinkLock, Acquire
    <3> QED BY <1>1, <1>2, <2>3, <3>1 DEF Kinds
  <2>5. CASE pc[t] \in {"link", "unlink"}
    <3>1. lock' = lock
      BY <1>1, <2>5, Untouched
    <3> QED BY <1>1, <2>3, <2>5, <3>1 DEF Locked
  <2> QED BY <2>1, <2>4, <2>5
<1> QED BY <1>3, <1>4 DEF Locked

(* The locals of a push. *)
LEMMA PushLocalsStep ==
  ASSUME Turns, Listed, Kinds', NEW t \in Threads, Act(t)
  PROVE  PushLocals'
<1> DEFINE k == ticket[t]
<1>1. Kinds /\ Others(t) /\ PushLocals
  BY ActionTurns DEF Act, Turns, Listed
<1>2. k \in Nat /\ MyLane(t) \in Lanes /\ k # NoPage
  BY Drawn DEF NoPage
<1>3. ASSUME NEW u \in Threads, u # t
      PROVE  /\ pc'[u] = pc[u] /\ ticket'[u] = ticket[u] /\ page'[u] = page[u] /\ other'[u] = other[u]
             /\ MyLane(u)' = MyLane(u)
             /\ pc[u] = "link" => tailPage'[MyLane(u)] = tailPage[MyLane(u)]
  <2>1. pc'[u] = pc[u] /\ ticket'[u] = ticket[u] /\ page'[u] = page[u] /\ other'[u] = other[u]
    BY <1>1, <1>3, Untouched DEF Others
  <2>2. ASSUME pc[u] = "link" PROVE tailPage'[MyLane(u)] = tailPage[MyLane(u)]
    <3>1. CASE pc[t] \in {"last", "unlast"}
      <4>1. MyLane(u) # MyLane(t) /\ MyLane(u) \in Lanes
        BY <1>3, <2>2, <3>1, Alone, Drawn DEF Listed
      <4>2. \/ tailPage' = [tailPage EXCEPT ![MyLane(t)] = page[t]]
            \/ tailPage' = [tailPage EXCEPT ![MyLane(t)] = NoPage]
            \/ tailPage' = tailPage
        BY <1>1, <3>1, ActionAt DEF LinkLast, UnlinkLast
      <4> QED BY <1>1, <4>1, <4>2 DEF Kinds
    <3>2. CASE pc[t] \notin {"last", "unlast"}
      BY <1>1, <3>2, Untouched
    <3> QED BY <3>1, <3>2
  <2> QED BY <2>1, <2>2 DEF MyLane
<1>4. pc'[t] = "out" => page'[t] = NoPage
  <2>1. Advance(t) \/ CheckEmpty(t) \/ FreePage(t) => page'[t] = NoPage
    BY <1>1 DEF Advance, CheckEmpty, FreePage, Leave, Kinds
  <2>2. PassTurn(t) => page'[t] = NoPage \/ pc'[t] = "free"
    BY <1>1 DEF PassTurn, Leave, GoTo, Kinds
  <2> QED BY <1>1, <2>1, <2>2, Routes DEF Act, Push, Pop, Route
<1>5. pc'[t] = "turn" => page'[t] = IF Index(ticket'[t]) = 0 THEN ticket'[t] ELSE NoPage
  <2> SUFFICES ASSUME pc'[t] = "turn"
               PROVE  page'[t] = IF Index(ticket'[t]) = 0 THEN ticket'[t] ELSE NoPage
    OBVIOUS
  <2>1. PushTicket(t) /\ pc[t] = "out"
    BY <1>1, Routes DEF Act, Push, Pop, Route
  <2>2. ticket'[t] = tail /\ page[t] = NoPage
    BY <1>1, <2>1 DEF PushTicket, Kinds, PushLocals
  <2>3. page' = IF Index(tail) = 0 THEN [page EXCEPT ![t] = tail] ELSE page
    BY <2>1 DEF PushTicket, AllocatePage
  <2> QED BY <1>1, <2>2, <2>3 DEF Kinds
<1>6. pc'[t] \in {"lock", "tail"} =>
        /\ pc'[t] = "lock" => page'[t] = ticket'[t] /\ Index(ticket'[t]) = 0
        /\ pc'[t] = "tail" => Index(ticket'[t]) # 0
  <2> SUFFICES ASSUME pc'[t] \in {"lock", "tail"}
               PROVE  /\ pc'[t] = "lock" => page'[t] = k /\ Index(k) = 0
                      /\ pc'[t] = "tail" => Index(k) # 0
                      /\ ticket'[t] = k
    OBVIOUS
  <2>1. pc[t] = "turn"
    BY <1>1, Moves DEF Location, Pushing, Deciding, Popping
  <2>2. page' = page /\ ticket' = ticket /\ pc'[t] = IF page[t] # NoPage THEN "lock" ELSE "tail"
    BY <1>1, <2>1, ActionAt DEF PushTurn, localVars, GoTo, Kinds
  <2> QED BY <1>1, <1>2, <2>1, <2>2 DEF PushLocals
<1>7. pc'[t] = "link" => /\ page'[t] = ticket'[t] /\ Index(ticket'[t]) = 0
                         /\ other'[t] = tailPage'[MyLane(t)']
  <2> SUFFICES ASSUME pc'[t] = "link"
               PROVE  /\ page'[t] = ticket'[t] /\ Index(ticket'[t]) = 0
                      /\ other'[t] = tailPage'[MyLane(t)']
    OBVIOUS
  <2>1. pc[t] = "lock"
    BY <1>1, Moves DEF Location, Pushing, Deciding, Popping
  <2>2. page' = page /\ ticket' = ticket /\ tailPage' = tailPage /\ other'[t] = tailPage[MyLane(t)]
    BY <1>1, <2>1, ActionAt DEF LinkLock, Kinds
  <2>3. MyLane(t)' = MyLane(t)
    BY <2>2 DEF MyLane
  <2> QED BY <1>1, <2>1, <2>2, <2>3 DEF PushLocals
<1>8. pc'[t] = "last" => page'[t] = ticket'[t] /\ Index(ticket'[t]) = 0
  <2> SUFFICES ASSUME pc'[t] = "last" PROVE page'[t] = ticket'[t] /\ Index(ticket'[t]) = 0
    OBVIOUS
  <2>1. pc[t] = "link"
    BY <1>1, Moves DEF Location, Pushing, Deciding, Popping
  <2>2. page' = page /\ ticket' = ticket
    BY <1>1, <2>1, ActionAt DEF LinkPage, localVars
  <2> QED BY <1>1, <2>1, <2>2 DEF PushLocals
<1>9. pc'[t] = "store" => page'[t] = PageOf(ticket'[t])
  <2> SUFFICES ASSUME pc'[t] = "store" PROVE page'[t] = PageOf(ticket'[t])
    OBVIOUS
  <2>1. pc[t] \in {"tail", "last"}
    BY <1>1, Moves DEF Location, Pushing, Deciding, Popping
  <2>2. ticket'[t] = k
    BY <1>1, <2>1, Moves DEF Storing
  <2>3. CASE pc[t] = "tail"
    <3>1. page'[t] = tailPage[MyLane(t)]
      BY <1>1, <2>3, ActionAt DEF ReadTailPage, Kinds
    <3>2. tailPage[MyLane(t)] = PageOf(ticket[t])
      BY <2>3, ReadsTail DEF Listed
    <3> QED BY <2>2, <3>1, <3>2
  <2>4. CASE pc[t] = "last"
    <3>1. page' = page
      BY <1>1, <2>4, ActionAt DEF LinkLast, localVars
    <3>2. page[t] = k /\ PageOf(k) = k
      BY <1>1, <1>2, <2>4, PageOfTicket DEF PushLocals
    <3> QED BY <2>2, <3>1, <3>2
  <2> QED BY <2>1, <2>3, <2>4
<1>10. pc'[t] = "advance" => page'[t] = PageOf(ticket'[t])
  <2> SUFFICES ASSUME pc'[t] = "advance" PROVE page'[t] = PageOf(ticket'[t])
    OBVIOUS
  <2>1. pc[t] = "store"
    BY <1>1, Moves DEF Location, Pushing, Deciding, Popping
  <2>2. page' = page /\ ticket' = ticket
    BY <1>1, <2>1, ActionAt DEF Store, localVars
  <2> QED BY <1>1, <2>1, <2>2 DEF PushLocals
<1> HIDE DEF k
<1>11. ASSUME NEW u \in Threads
       PROVE  /\ pc'[u] = "out" => page'[u] = NoPage
              /\ pc'[u] = "turn" => page'[u] = IF Index(ticket'[u]) = 0 THEN ticket'[u] ELSE NoPage
              /\ pc'[u] \in {"lock", "link", "last"} => page'[u] = ticket'[u] /\ Index(ticket'[u]) = 0
              /\ pc'[u] = "tail" => Index(ticket'[u]) # 0
              /\ pc'[u] \in {"store", "advance"} => page'[u] = PageOf(ticket'[u])
              /\ pc'[u] = "link" => other'[u] = tailPage'[MyLane(u)']
  <2>1. CASE u = t
    BY <1>4, <1>5, <1>6, <1>7, <1>8, <1>9, <1>10, <2>1
  <2>2. CASE u # t
    BY <1>1, <1>3, <2>2 DEF PushLocals
  <2> QED BY <2>1, <2>2
<1> QED BY <1>11 DEF PushLocals

(* The locals of a pop. *)
LEMMA PopLocalsStep ==
  ASSUME Turns, Listed, Kinds', NEW t \in Threads, Act(t)
  PROVE  PopLocals'
<1> DEFINE k == ticket[t]
<1>1. Kinds /\ Others(t) /\ PopLocals
  BY ActionTurns DEF Act, Turns, Listed
<1>2. k \in Nat /\ MyLane(t) \in Lanes
  BY Drawn
<1>3. \A p \in Pages : p \in Nat
  BY DEF Pages, Tickets
<1>4. ASSUME NEW p \in Pages, Index(p) = 0, pc[t] # "link" \/ Lane(p) # MyLane(t)
      PROVE  NextPage(p)' = NextPage(p)
  <2>1. Behind(p) \in Nat /\ Index(Behind(p)) = 0 /\ Lane(Behind(p)) = Lane(p)
    BY <1>3, <1>4, PageEnds
  <2>2. pc[t] = "link" => Behind(p) # ticket[t]
    BY <1>4, <2>1 DEF MyLane
  <2>3. Linked(Behind(p))' <=> Linked(Behind(p))
    BY <2>1, <2>2, PushStages DEF Listed
  <2> QED BY <2>3 DEF NextPage
<1>5. ASSUME NEW u \in Threads, u # t
      PROVE  /\ pc'[u] = pc[u] /\ ticket'[u] = ticket[u] /\ page'[u] = page[u] /\ other'[u] = other[u]
             /\ pc[u] \in {"unlink", "unlast"} => \A p \in Pages : page[u] = p => other[u] = NextPage(p)'
  <2>1. pc'[u] = pc[u] /\ ticket'[u] = ticket[u] /\ page'[u] = page[u] /\ other'[u] = other[u]
    BY <1>1, <1>5, Untouched DEF Others
  <2>2. ASSUME pc[u] \in {"unlink", "unlast"}, NEW p \in Pages, page[u] = p
        PROVE  other[u] = NextPage(p)'
    <3>1. Index(p) = 0 /\ Lane(p) = MyLane(u) /\ other[u] = NextPage(p)
      BY <2>2, UnlinkingPage
    <3>2. pc[t] # "link" \/ Lane(p) # MyLane(t)
      BY <1>5, <2>2, <3>1, Alone DEF Listed
    <3> QED BY <1>4, <3>1, <3>2
  <2> QED BY <2>1, <2>2
<1>6. ASSUME pc'[t] \in {"unlock", "unlink", "unlast", "pass", "free"}
      PROVE  /\ page'[t] = PageOf(ticket'[t])
             /\ pc'[t] \in {"unlock", "unlink", "unlast", "free"} => LastSlot(t)'
             /\ ticket'[t] = k
  <2>1. pc[t] \in {"take", "unlock", "unlink", "unlast", "pass"}
    BY <1>1, <1>6, Moves DEF Location, Pushing, Deciding, Popping
  <2>2. /\ ticket'[t] = k
        /\ pc'[t] \in {"unlock", "unlink", "unlast", "free"} => LastSlot(t)
    <3>1. CASE pc[t] \in {"take", "pass"}
      BY <1>1, <1>6, <3>1, Moves DEF Removing
    <3>2. CASE pc[t] \in {"unlock", "unlink", "unlast"}
      BY <1>1, <3>2, Moves DEF Removing, PopLocals
    <3> QED BY <2>1, <3>1, <3>2
  <2>3. LastSlot(t)' <=> LastSlot(t)
    BY <2>2 DEF LastSlot
  <2>4. page'[t] = PageOf(k)
    <3>1. CASE pc[t] = "take"
      <4>1. page'[t] = headPage[MyLane(t)]
        <5>1. TakeItem(t)
          BY <1>1, <3>1, ActionAt
        <5>2. page' = [page EXCEPT ![t] = headPage[MyLane(t)]]
          BY <5>1 DEF TakeItem
        <5> QED BY <1>1, <5>2 DEF Kinds
      <4>2. headPage[MyLane(t)] = PageOf(ticket[t])
        BY <3>1, TakesHead DEF Listed
      <4> QED BY <4>1, <4>2
    <3>2. CASE pc[t] \in {"unlock", "unlink", "unlast"}
      <4>1. page' = page
        BY <1>1, <3>2, ActionAt DEF UnlinkLock, UnlinkPage, UnlinkLast, localVars
      <4> QED BY <1>1, <3>2, <4>1 DEF PopLocals
    <3>3. CASE pc[t] = "pass"
      <4>1. page' = page
        BY <1>1, <1>6, <3>3, ActionAt, Moves DEF PassTurn
      <4> QED BY <1>1, <3>3, <4>1 DEF PopLocals
    <3> QED BY <2>1, <3>1, <3>2, <3>3
  <2> QED BY <2>2, <2>3, <2>4
<1>7. ASSUME pc'[t] \in {"unlink", "unlast"}, NEW p \in Pages, page'[t] = p
      PROVE  other'[t] = NextPage(p)'
  <2>1. pc[t] \in {"unlock", "unlink"}
    BY <1>1, <1>7, Moves DEF Location, Pushing, Deciding, Popping
  <2>2. /\ page[t] = PageOf(k) /\ PageOf(k) \in Nat /\ Index(PageOf(k)) = 0 /\ page' = page
        /\ Linked(p) /\ (pc[t] = "unlock" => ~Unlinked(p))
        /\ pc[t] = "unlink" => other[t] = NextPage(p)
    <3>1. page' = page
      BY <1>1, <2>1, ActionAt DEF UnlinkLock, UnlinkPage, localVars
    <3> QED BY <1>7, <2>1, <3>1, UnlinkingPage
  <2>3. NextPage(p)' = NextPage(p)
    BY <1>4, <1>7, <2>1, <2>2
  <2>4. CASE pc[t] = "unlock"
    <3>1. other'[t] = next[p]
      BY <1>1, <1>7, <2>2, <2>4, ActionAt DEF UnlinkLock, Kinds
    <3>2. next[p] = NextPage(p)
      BY <1>7, <2>2, <2>4 DEF Listed, NextRight, IsPage
    <3> QED BY <2>3, <3>1, <3>2
  <2>5. CASE pc[t] = "unlink"
    <3>1. other' = other
      BY <1>1, <2>5, ActionAt DEF UnlinkPage, localVars
    <3> QED BY <2>2, <2>3, <2>5, <3>1
  <2> QED BY <2>1, <2>4, <2>5
<1> HIDE DEF k
<1>8. ASSUME NEW u \in Threads
      PROVE  /\ pc'[u] \in {"unlock", "unlink", "unlast", "pass", "free"} => page'[u] = PageOf(ticket'[u])
             /\ pc'[u] \in {"unlock", "unlink", "unlast", "free"} => LastSlot(u)'
             /\ pc'[u] \in {"unlink", "unlast"} =>
                  \A p \in Pages : page'[u] = p => other'[u] = NextPage(p)'
  <2>1. CASE u = t
    BY <1>6, <1>7, <2>1
  <2>2. CASE u # t
    <3>1. LastSlot(u)' <=> LastSlot(u)
      BY <1>5, <2>2 DEF LastSlot
    <3> QED BY <1>1, <1>5, <2>2, <3>1 DEF PopLocals
  <2> QED BY <2>1, <2>2
<1> QED BY <1>8 DEF PopLocals

LEMMA ListedStep ==
  ASSUME Turns, Listed, Kinds', NEW t \in Threads, Act(t)
  PROVE  Listed'
<1>1. HeadRight'
  BY HeadFrame, HeadLink, HeadUnlink
<1>2. TailRight'
  BY TailFrame, TailLink, TailUnlink
<1>3. NextRight'
  BY NextFrame, NextLink
<1> QED BY <1>1, <1>2, <1>3, LockedStep, PushLocalsStep, PopLocalsStep DEF Listed

-----------------------------------------------------------------------------
(* The invariant of the pages' contents, one part at a time. *)
LEMMA TailStep ==
  ASSUME Turns, NEW t \in Threads, Act(t)
  PROVE  tail' = IF PushTicket(t) THEN tail + 1 ELSE tail
<1>1. Kinds
  BY DEF Turns
<1>2. PushTicket(t) => tail' = tail + 1
  BY DEF PushTicket
<1>4. Push(t) => tail' = tail
  BY DEF Push, PushTurn, ReadTailPage, LinkLock, LinkPage, LinkLast, Store, Advance, queueVars
<1>5. CallPop(t) \/ Pop(t) => tail' = tail
  BY DEF CallPop, Pop, CheckEmpty, CheckSome, CasDraws, CasFails, PopTurn, PopFilled, TakeItem,
         UnlinkLock, UnlinkPage, UnlinkLast, PassTurn, FreePage, queueVars
<1>6. CASE PushTicket(t)
  BY <1>2, <1>6
<1>7. CASE ~PushTicket(t)
  BY <1>4, <1>5, <1>7 DEF Act
<1> QED BY <1>6, <1>7

LEMMA LiveStep ==
  ASSUME Turns, Listed, LiveRight, Kinds', NEW t \in Threads, Act(t)
  PROVE  LiveRight'
<1>1. Kinds /\ tail \in Nat /\ MaxPushes \in Nat
  BY AllDrawn, SizesAssumption DEF Turns
<1>2. \A p \in Pages : p \in Nat /\ (Index(p) = 0 =>
        (Freed(p)' <=> Freed(p) \/ (pc[t] = "free" /\ ticket[t] = EndOf(p))))
  BY PopStages DEF Pages, Tickets
<1>3. CASE PushTicket(t)
  <2>1. pc[t] = "out" /\ tail' = tail + 1 /\ tail < MaxPushes
        /\ live' = IF Index(tail) = 0 THEN live \union {tail} ELSE live
    BY <1>3 DEF PushTicket, At, AllocatePage
  <2>2. tail \in Pages
    BY <1>1, <2>1 DEF Pages, Tickets
  <2>3. Index(tail) = 0 => ~Freed(tail)
    <3>1. Index(tail) = 0 /\ Freed(tail) => Linked(tail)
      BY <1>1, PageFacts DEF Linked
    <3>2. Index(tail) = 0 /\ Linked(tail) => tail < tail
      BY <1>1, PageFacts
    <3> QED BY <1>1, <3>1, <3>2
  <2>4. \A p \in Pages : Index(p) = 0 => (Freed(p)' <=> Freed(p))
    BY <1>2, <2>1
  <2>5. ASSUME NEW p
        PROVE  p \in live' <=> p \in Pages /\ Index(p) = 0 /\ p < tail' /\ ~Freed(p)'
    <3>1. p \in live <=> p \in Pages /\ Index(p) = 0 /\ p < tail /\ ~Freed(p)
      BY DEF LiveRight
    <3>2. CASE p = tail
      BY <1>1, <2>1, <2>2, <2>3, <2>4, <3>1, <3>2
    <3>3. CASE p # tail
      <4>1. p \in live' <=> p \in live
        BY <2>1, <3>3
      <4>2. p \in Pages => (p < tail' <=> p < tail)
        BY <1>1, <1>2, <2>1, <3>3
      <4> QED BY <2>4, <3>1, <4>1, <4>2
    <3> QED BY <3>2, <3>3
  <2>6. \A p \in live' : p \in Pages
    BY <2>5
  <2> QED BY <2>5, <2>6 DEF LiveRight
<1>4. CASE ~PushTicket(t)
  <2>1. tail' = tail
    BY <1>4, TailStep
  <2>2. CASE pc[t] = "free"
    <3> DEFINE q == PageOf(ticket[t])
    <3>1. live' = live \ {q} /\ LastSlot(t)
      BY <1>1, <2>2, ActionAt DEF FreePage, Listed, PopLocals
    <3>2. q \in Nat /\ Index(q) = 0 /\ ticket[t] = EndOf(q)
      <4>1. ticket[t] \in Nat
        BY Drawn
      <4>2. q \in Nat /\ Index(q) = 0 /\ Lane(q) = Lane(ticket[t])
        BY <4>1, PageOfTicket
      <4> QED BY <3>1, <4>1, <4>2, OfPage DEF LastSlot
    <3> HIDE DEF q
    <3>3. \A p \in Pages : Index(p) = 0 => (Freed(p)' <=> Freed(p) \/ p = q)
      <4> SUFFICES ASSUME NEW p \in Pages, Index(p) = 0
                   PROVE  Freed(p)' <=> Freed(p) \/ p = q
        OBVIOUS
      <4>1. EndOf(p) = EndOf(q) => p = q
        BY <1>2, <3>2, PageEnds
      <4> QED BY <1>2, <2>2, <3>2, <4>1
    <3> QED BY <2>1, <3>1, <3>3 DEF LiveRight
  <2>3. CASE pc[t] # "free"
    <3>1. live' = live
      <4>1. pc[t] # "out" => live' = live
        BY <1>1, <2>3, Untouched
      <4>2. CallPop(t) => live' = live
        BY DEF CallPop, pageVars
      <4>3. pc[t] = "out" => CallPop(t)
        BY <1>1, <1>4, Routes DEF Act, Push, Pop, Route
      <4> QED BY <4>1, <4>2, <4>3
    <3>2. \A p \in Pages : Index(p) = 0 => (Freed(p)' <=> Freed(p))
      BY <1>2, <2>3
    <3> QED BY <2>1, <3>1, <3>2 DEF LiveRight
  <2> QED BY <2>2, <2>3
<1> QED BY <1>3, <1>4

(* A push that is about to store has a slot of its page for itself. *)
LEMMA Storer ==
  ASSUME Turns, PushLocals, NEW t \in Threads, pc[t] \in {"store", "advance"}
  PROVE  /\ ticket[t] \in Tickets /\ ticket[t] \in Nat /\ page[t] = PageOf(ticket[t])
         /\ PageOf(ticket[t]) \in Pages /\ Index(ticket[t]) \in Slots
         /\ Index(PageOf(ticket[t])) = 0
         /\ ticket[t] = PageOf(ticket[t]) + NQueue * Index(ticket[t])
<1>1. pc[t] \in Pushing
  BY DEF Pushing
<1>2. ticket[t] \in Nat /\ ticket[t] \in Tickets /\ PageOf(ticket[t]) \in Pages
  BY <1>1, Drawn
<1>3. page[t] = PageOf(ticket[t])
  BY DEF PushLocals
<1> QED BY <1>2, <1>3, PageOfTicket DEF Slots

LEMMA MaskStep ==
  ASSUME Turns, Listed, MaskRight, Kinds', NEW t \in Threads, Act(t)
  PROVE  MaskRight'
<1>1. Kinds /\ PushLocals
  BY DEF Turns, Listed
<1>2. ASSUME NEW p \in Pages, NEW i \in Slots
      PROVE  /\ p + NQueue * i \in Nat
             /\ Stored(p + NQueue * i)' <=> \/ Stored(p + NQueue * i)
                                            \/ pc[t] = "store" /\ p + NQueue * i = ticket[t]
  <2>1. p + NQueue * i \in Nat
    <3>1. p \in Nat /\ i \in Nat /\ NQueue \in Nat
      BY SizesAssumption DEF Pages, Tickets, Slots
    <3> QED BY <3>1
  <2> QED BY <1>1, <2>1, PushStages
<1>3. ASSUME NEW p \in Pages, IsPage(p), NEW i \in mask'[p]
      PROVE  Stored(p + NQueue * i)'
  <2>1. i \in Slots
    BY <1>3 DEF Kinds
  <2>2. i \in mask[p] => Stored(p + NQueue * i)'
    BY <1>2, <1>3, <2>1 DEF MaskRight
  <2>3. ASSUME i \notin mask[p]
        PROVE  pc[t] = "store" /\ p + NQueue * i = ticket[t]
    <3>1. pc[t] = "store" /\ Store(t)
      BY <1>1, <1>3, <2>3, Untouched, ActionAt
    <3>2. mask' = [mask EXCEPT ![page[t]] = @ \union {Index(ticket[t])}]
      BY <3>1 DEF Store
    <3>3. page[t] = p /\ i = Index(ticket[t])
      BY <1>1, <1>3, <2>3, <3>2 DEF Kinds
    <3>4. ticket[t] = page[t] + NQueue * Index(ticket[t])
      BY <1>1, <3>1, Storer
    <3> QED BY <3>1, <3>3, <3>4
  <2> QED BY <1>2, <2>1, <2>2, <2>3
<1> QED BY <1>3 DEF MaskRight

LEMMA SlotStep ==
  ASSUME Turns, Listed, SlotRight, Kinds', NEW t \in Threads, Act(t)
  PROVE  SlotRight'
<1> DEFINE k == ticket[t]
           q == PageOf(k)
           j == Index(k)
<1>1. Kinds /\ PushLocals
  BY DEF Turns, Listed
<1>2. \A m \in Nat : /\ Stored(m)' <=> Stored(m) \/ (pc[t] = "store" /\ m = k)
                     /\ Taken(m)' <=> Taken(m) \/ (pc[t] = "take" /\ m = k)
  BY <1>1, PushStages, PopStages
<1>3. \A m \in Nat : m = PageOf(m) + NQueue * Index(m)
  BY PageOfTicket
<1>4. k = q + NQueue * j
  <2>1. k \in Nat
    BY Drawn
  <2> QED BY <1>3, <2>1
<1>5. CASE pc[t] \notin {"store", "take"}
  <2>1. slots' = slots
    BY <1>1, <1>5, Untouched
  <2> QED BY <1>2, <1>5, <2>1 DEF SlotRight
<1>6. CASE pc[t] = "store"
  <2>1. slots' = [slots EXCEPT ![q][j] = k] /\ q \in Pages /\ j \in Slots
    BY <1>1, <1>6, ActionAt, Storer DEF Store
  <2> HIDE DEF k, q, j
  <2>2. slots'[q][j] = k
    BY <1>1, <2>1 DEF Kinds
  <2>3. \A r, i : r # q \/ i # j => slots'[r][i] = slots[r][i] \/ r \notin Pages \/ i \notin Slots
    BY <1>1, <2>1 DEF Kinds
  <2>4. ASSUME NEW m \in Nat, Stored(m)', ~Taken(m)'
        PROVE  slots'[PageOf(m)][Index(m)] = m
    <3>1. CASE m = k
      BY <2>2, <3>1 DEF q, j
    <3>2. CASE m # k
      <4>1. PageOf(m) # q \/ Index(m) # j
        BY <1>3, <1>4, <3>2
      <4>2. Stored(m) /\ ~Taken(m)
        BY <1>2, <2>4, <3>2
      <4>3. slots[PageOf(m)][Index(m)] = m
        BY <4>2 DEF SlotRight
      <4>5. slots'[PageOf(m)][Index(m)] = slots[PageOf(m)][Index(m)]
        <5>1. PageOf(m) \in Pages /\ Index(m) \in Slots
          <6>1. m < tail
            BY <4>2 DEF Stored, Turns, Order, Is, PushTurns, Pushing
          <6>2. PageOf(m) \in Nat /\ PageOf(m) <= m /\ Index(m) \in Slots
            BY PageOfTicket DEF Slots
          <6> QED BY <1>1, <6>1, <6>2, SizesAssumption DEF Kinds, Pages, Tickets
        <5> QED BY <2>3, <4>1, <5>1
      <4> QED BY <4>3, <4>5
    <3> QED BY <3>1, <3>2
  <2> QED BY <2>4 DEF SlotRight
<1>7. CASE pc[t] = "take"
  <2>1. TakeItem(t) /\ headPage[MyLane(t)] = q
    BY <1>1, <1>7, ActionAt, TakesHead DEF Listed
  <2>2. slots' = [slots EXCEPT ![q][j] = Nothing]
    BY <2>1 DEF TakeItem
  <2> HIDE DEF k, q, j
  <2>3. \A r, i : r # q \/ i # j => slots'[r][i] = slots[r][i] \/ r \notin Pages \/ i \notin Slots
    BY <1>1, <2>2 DEF Kinds
  <2>4. ASSUME NEW m \in Nat, Stored(m)', ~Taken(m)'
        PROVE  slots'[PageOf(m)][Index(m)] = m
    <3>1. m # k /\ Stored(m) /\ ~Taken(m)
      BY <1>2, <1>7, <2>4
    <3>2. slots[PageOf(m)][Index(m)] = m
      BY <3>1 DEF SlotRight
    <3>3. PageOf(m) # q \/ Index(m) # j
      BY <1>3, <1>4, <3>1
    <3>4. PageOf(m) \in Pages /\ Index(m) \in Slots
      <4>1. m < tail
        BY <3>1 DEF Stored, Turns, Order, Is, PushTurns, Pushing
      <4>2. PageOf(m) \in Nat /\ PageOf(m) <= m /\ Index(m) \in Slots
        BY PageOfTicket DEF Slots
      <4> QED BY <1>1, <4>1, <4>2, SizesAssumption DEF Kinds, Pages, Tickets
    <3> QED BY <2>3, <3>2, <3>3, <3>4
  <2> QED BY <2>4 DEF SlotRight
<1> QED BY <1>5, <1>6, <1>7

LEMMA ActKeeps ==
  ASSUME IInv, NEW t \in Threads, Act(t)
  PROVE  IInv'
<1>1. Kinds'
  BY PushKinds, PopKinds DEF Act
<1>2. Turns
  BY DEF IInv
<1>3. TurnStep(t) /\ Others(t)
  BY <1>2, ActionTurns DEF Act, Turns
<1>4. Turns'
  BY <1>1, <1>2, <1>3, TurnsStep
<1>5. Here
  <2>1. pc[t] # "gone"
    BY <1>2, Moves DEF Turns
  <2> QED BY <1>2, <2>1 DEF Turns, AllOrNone, Here
<1>6. Listed /\ Stocked
  BY <1>5 DEF IInv, Lists, Contents
<1>7. Listed'
  BY <1>1, <1>2, <1>6, ListedStep
<1>8. Stocked'
  BY <1>1, <1>2, <1>6, LiveStep, MaskStep, SlotStep DEF Stocked
<1> QED BY <1>4, <1>7, <1>8 DEF IInv, Lists, Contents

-----------------------------------------------------------------------------
(* The queue at the start, destroyed, and left alone. *)
LEMMA InitInvariant == Init => IInv
<1> SUFFICES ASSUME Init PROVE IInv
  OBVIOUS
<1> USE DEF Init
<1>1. Kinds
  BY SizesAssumption DEF Kinds, Location, NoPage, Nothing, Pending
<1>2. \A t \in Threads : pc[t] = "out"
  OBVIOUS
<1>3. \A k \in Nat : ~Pushed(k) /\ ~Popped(k)
  <2> SUFFICES ASSUME NEW k \in Nat PROVE ~Pushed(k) /\ ~Popped(k)
    OBVIOUS
  <2>1. Rounded(k) \in Nat /\ Lane(k) \in Lanes
    BY LaneOf, Rounding
  <2>2. laneTail[Lane(k)] = 0 /\ laneHead[Lane(k)] = 0
    BY <2>1
  <2> QED BY <2>1, <2>2 DEF Pushed, Popped
<1>4. \A k, A : "out" \notin A => ~Is(k, A)
  BY <1>2 DEF Is
<1>5. Turns
  <2>1. PushTurns /\ PopTurns /\ Decisions /\ OwnTickets /\ AllOrNone
    BY <1>2 DEF PushTurns, PopTurns, Decisions, OwnTickets, AllOrNone, Pushing, Popping, Deciding
  <2>2. Order
    BY <1>3 DEF Order
  <2> QED BY <1>1, <2>1, <2>2 DEF Turns
<1>6. Listed
  <2>1. \A p \in Nat : ~Linked(p) /\ ~Ended(p)
    BY <1>3, <1>4 DEF Linked, Ended
  <2>2. \A p \in Pages : p \in Nat /\ p # NoPage
    BY DEF Pages, Tickets, NoPage
  <2>3. HeadRight
    BY <2>1, <2>2 DEF HeadRight
  <2>4. TailRight
    BY <2>1, <2>2 DEF TailRight
  <2>5. NextRight
    BY <2>1, <2>2 DEF NextRight
  <2>6. Locked /\ PushLocals /\ PopLocals
    BY <1>2 DEF Locked, PushLocals, PopLocals
  <2> QED BY <2>3, <2>4, <2>5, <2>6 DEF Listed
<1>7. Stocked
  <2>1. \A k \in Nat : ~Stored(k)
    BY <1>3, <1>4 DEF Stored
  <2>2. LiveRight
    BY DEF LiveRight, Pages, Tickets
  <2>3. MaskRight /\ SlotRight
    BY <2>1 DEF MaskRight, SlotRight
  <2> QED BY <2>2, <2>3 DEF Stocked
<1> QED BY <1>5, <1>6, <1>7 DEF IInv, Lists, Contents

LEMMA DestroyKeeps ==
  ASSUME IInv, Destroy
  PROVE  IInv'
<1>1. Turns /\ Kinds /\ Order
  BY DEF IInv, Turns
<1>2. /\ \A t \in Threads : pc[t] = "out" /\ pc'[t] = "gone"
      /\ UNCHANGED <<head, tail, laneHead, laneTail>>
  BY DEF Destroy, At, queueVars
<1>3. Kinds'
  <2>1. tailPage' \in [Lanes -> Pages \union {NoPage}] /\ pc' \in [Threads -> Location]
    BY DEF Destroy, Location
  <2> QED BY <1>1, <2>1 DEF Destroy, Kinds, queueVars, localVars
<1>4. (PushTurns /\ PopTurns /\ Decisions /\ OwnTickets /\ AllOrNone)'
  BY <1>2 DEF PushTurns, PopTurns, Decisions, OwnTickets, AllOrNone, Pushing, Popping, Deciding
<1>5. Order'
  <2>1. \A k : /\ Pushed(k)' <=> Pushed(k)
               /\ Popped(k)' <=> Popped(k)
    BY <1>2 DEF Pushed, Popped
  <2>2. \A k : ~Is(k, Pushing) /\ ~Is(k, Popping)
    BY <1>2 DEF Is, Pushing, Popping
  <2> QED BY <1>1, <1>2, <2>1, <2>2 DEF Order
<1>6. ~Here'
  BY <1>2, ThreadsAssumption DEF Here
<1> QED BY <1>3, <1>4, <1>5, <1>6 DEF IInv, Turns, Lists, Contents

LEMMA StutterKeeps ==
  ASSUME IInv, UNCHANGED vars
  PROVE  IInv'
<1> USE DEF vars, queueVars, laneVars, pageVars, localVars
<1>1. \A k : /\ Pushed(k)' <=> Pushed(k)
             /\ Popped(k)' <=> Popped(k)
  BY DEF Pushed, Popped
<1>2. \A k, A : Is(k, A)' <=> Is(k, A)
  BY DEF Is
<1>3. \A t : MyLane(t)' = MyLane(t) /\ (LastSlot(t)' <=> LastSlot(t))
  BY DEF MyLane, LastSlot
<1>4. Turns'
  <2>1. Kinds' /\ Decisions' /\ OwnTickets' /\ AllOrNone'
    BY DEF IInv, Turns, Kinds, Decisions, OwnTickets, AllOrNone
  <2>2. PushTurns' /\ PopTurns'
    BY <1>1, <1>3 DEF IInv, Turns, PushTurns, PopTurns
  <2>3. Order'
    BY <1>1, <1>2 DEF IInv, Turns, Order
  <2> QED BY <2>1, <2>2, <2>3 DEF Turns
<1>5. \A p : /\ Linked(p)' <=> Linked(p)
             /\ Ended(p)' <=> Ended(p)
             /\ Unlinked(p)' <=> Unlinked(p)
             /\ Cleared(p)' <=> Cleared(p)
             /\ Freed(p)' <=> Freed(p)
             /\ Stored(p)' <=> Stored(p)
             /\ Taken(p)' <=> Taken(p)
  BY <1>1, <1>2 DEF Linked, Ended, Unlinked, Cleared, Freed, Stored, Taken
<1>6. \A p : NextPage(p)' = NextPage(p)
  <2> SUFFICES ASSUME NEW p PROVE NextPage(p)' = NextPage(p)
    OBVIOUS
  <2>1. Linked(Behind(p))' <=> Linked(Behind(p))
    BY <1>5
  <2> QED BY <2>1 DEF NextPage
<1>7. Listed => Listed'
  <2>1. HeadRight => HeadRight'
    BY <1>5 DEF HeadRight
  <2>2. TailRight => TailRight'
    BY <1>5 DEF TailRight
  <2>3. NextRight => NextRight'
    BY <1>5, <1>6 DEF NextRight
  <2>4. Locked => Locked'
    BY <1>3 DEF Locked
  <2>5. PushLocals => PushLocals'
    BY <1>3 DEF PushLocals
  <2>6. PopLocals => PopLocals'
    BY <1>3, <1>6 DEF PopLocals
  <2> QED BY <2>1, <2>2, <2>3, <2>4, <2>5, <2>6 DEF Listed
<1>8. Stocked => Stocked'
  BY <1>5 DEF Stocked, LiveRight, MaskRight, SlotRight
<1>9. Here' => Here
  BY DEF Here
<1> QED BY <1>4, <1>7, <1>8, <1>9 DEF IInv, Lists, Contents

LEMMA NextInvariant == IInv /\ [Next]_vars => IInv'
<1> SUFFICES ASSUME IInv, [Next]_vars PROVE IInv'
  OBVIOUS
<1>1. ASSUME NEW t \in Pushers, PushTicket(t) PROVE IInv'
  <2>1. t \in Threads /\ Act(t)
    BY <1>1 DEF Threads, Act
  <2> QED BY <2>1, ActKeeps
<1>2. ASSUME NEW t \in Poppers, CallPop(t) PROVE IInv'
  <2>1. t \in Threads /\ Act(t)
    BY <1>2 DEF Threads, Act
  <2> QED BY <2>1, ActKeeps
<1>3. ASSUME NEW t \in Threads, Step(t) PROVE IInv'
  <2>1. Act(t)
    BY <1>3 DEF Act, Step, Push, Pop
  <2> QED BY <2>1, ActKeeps
<1>4. CASE Destroy
  BY <1>4, DestroyKeeps
<1>5. CASE Gone
  BY <1>5, StutterKeeps DEF Gone
<1>6. CASE UNCHANGED vars
  BY <1>6, StutterKeeps
<1> QED BY <1>1, <1>2, <1>3, <1>4, <1>5, <1>6 DEF Next

(* Between any two accesses of any threads, the turns of the lanes, the    *)
(* pages from the heads of their lists to the tails, with those that are   *)
(* under way to be linked, cleared or freed, and the items in their slots  *)
(* fit the tickets drawn.                                                  *)
THEOREM Invariance == Spec => []IInv
<1>1. Init => IInv
  BY InitInvariant
<1>2. IInv /\ [Next]_vars => IInv'
  BY NextInvariant
<1> QED BY <1>1, <1>2, PTL DEF Spec

-----------------------------------------------------------------------------
(* What the invariant says of a page that somebody is at. *)
LEMMA HereNow ==
  ASSUME IInv, NEW t \in Threads, pc[t] # "gone"
  PROVE  Turns /\ Kinds /\ Listed /\ Stocked
<1>1. Here
  BY DEF IInv, Turns, AllOrNone, Here
<1> QED BY <1>1 DEF IInv, Turns, Lists, Contents

LEMMA CallersPageLive ==
  ASSUME IInv, NEW t \in Threads, pc[t] \in Pushing \union Popping
  PROVE  PageOf(ticket[t]) \in live
<1> DEFINE k == ticket[t]
           p == PageOf(k)
           e == EndOf(p)
<1>1. pc[t] # "gone"
  BY DEF Pushing, Popping
<1>2. Turns /\ Kinds /\ Listed /\ Stocked
  BY <1>1, HereNow
<1>3. /\ k \in Nat /\ p \in Nat /\ p <= k /\ Lane(p) = Lane(k) /\ Index(p) = 0 /\ p \in Pages
      /\ k \in Tickets /\ MyLane(t) = Lane(k)
  BY <1>2, Drawn, PageOfTicket
<1>4. /\ e \in Nat /\ k <= e /\ Lane(e) = Lane(k)
  BY <1>3, PageEnds, OfPage
<1>5. p < tail /\ tail \in Nat
  <2>1. k < tail
    BY <1>2, <1>3 DEF Turns, PushTurns, PopTurns, Order, Kinds
  <2> QED BY <1>2, <1>3, <2>1, AllDrawn
<1>6. ~Freed(p)
  <2>1. CASE pc[t] = "free"
    <3>1. LastSlot(t)
      BY <1>2, <2>1 DEF Listed, PopLocals
    <3>2. k = e
      BY <1>3, <3>1, OfPage DEF LastSlot
    <3>3. Is(k, {"free"})
      BY <2>1 DEF Is
    <3> QED BY <3>2, <3>3 DEF Freed
  <2>2. CASE pc[t] # "free"
    <3>1. ~Popped(k)
      <4>1. CASE pc[t] \in Popping
        BY <1>2, <2>2, <4>1 DEF Turns, PopTurns
      <4>2. CASE pc[t] \in Pushing
        <5>1. ~Pushed(k)
          BY <1>2, <4>2 DEF Turns, PushTurns
        <5>2. /\ laneHead[Lane(k)] \in Nat /\ laneTail[Lane(k)] \in Nat /\ Rounded(k) \in Nat
              /\ laneHead[Lane(k)] <= laneTail[Lane(k)]
          BY <1>2, <1>3, LaneOf, Rounding DEF Turns, Order, Kinds
        <5> QED BY <5>1, <5>2 DEF Pushed, Popped
      <4> QED BY <4>1, <4>2
    <3>2. ~Popped(e)
      BY <1>2, <1>3, <1>4, <3>1, Earlier
    <3> QED BY <3>2 DEF Freed
  <2> QED BY <2>1, <2>2
<1> QED BY <1>2, <1>3, <1>5, <1>6 DEF Stocked, LiveRight

LEMMA TouchedRight ==
  ASSUME IInv, NEW t \in Threads
  PROVE  /\ At(t, "tail") => tailPage[MyLane(t)] \in live
         /\ pc[t] \in {"lock", "link", "last", "store", "advance", "unlock", "unlink", "pass"}
              => page[t] \in live
         /\ At(t, "link") => other[t] \in live \union {NoPage}
         /\ At(t, "store") => Index(ticket[t]) \notin mask[page[t]]
         /\ At(t, "take") =>
              /\ headPage[MyLane(t)] \in live
              /\ slots[headPage[MyLane(t)]][Index(ticket[t])] = ticket[t]
<1> USE DEF At
<1>1. ASSUME pc[t] = "tail" PROVE tailPage[MyLane(t)] \in live
  <2>1. tailPage[MyLane(t)] = PageOf(ticket[t])
    BY <1>1, HereNow, ReadsTail DEF Listed
  <2> QED BY <1>1, <2>1, CallersPageLive DEF Pushing
<1>2. ASSUME pc[t] \in {"lock", "link", "last", "store", "advance", "unlock", "unlink", "pass"}
      PROVE  page[t] \in live
  <2>1. Turns /\ Listed
    BY <1>2, HereNow
  <2>2. ticket[t] \in Nat
    BY <2>1, Drawn
  <2>3. page[t] = PageOf(ticket[t])
    BY <1>2, <2>1, <2>2, PageOfTicket DEF Listed, PushLocals, PopLocals
  <2> QED BY <1>2, <2>3, CallersPageLive DEF Pushing, Popping
<1>3. ASSUME pc[t] = "link" PROVE other[t] \in live \union {NoPage}
  <2> DEFINE r == tailPage[MyLane(t)]
  <2>1. Turns /\ Listed /\ Kinds /\ Stocked
    BY <1>3, HereNow
  <2>2. other[t] = r /\ MyLane(t) \in Lanes
    BY <1>3, <2>1, Drawn DEF Listed, PushLocals
  <2>3. ASSUME r # NoPage PROVE r \in live
    <3>1. r \in Pages
      BY <2>1, <2>2, <2>3 DEF Kinds
    <3>2. Index(r) = 0 /\ Ended(r) /\ ~Cleared(r) /\ r \in Nat
      BY <2>1, <2>2, <3>1 DEF Listed, TailRight, IsPage
    <3> HIDE DEF r
    <3>3. r < tail /\ ~Freed(r)
      BY <2>1, <3>2, PageFacts
    <3> QED BY <2>1, <3>1, <3>2, <3>3 DEF Stocked, LiveRight
  <2> QED BY <2>2, <2>3
<1>4. ASSUME pc[t] = "store" PROVE Index(ticket[t]) \notin mask[page[t]]
  <2> DEFINE k == ticket[t]
  <2>1. Turns /\ Listed /\ Stocked
    BY <1>4, HereNow
  <2>2. /\ page[t] = PageOf(k) /\ PageOf(k) \in Pages /\ IsPage(PageOf(k))
        /\ k = PageOf(k) + NQueue * Index(k)
    BY <1>4, <2>1, Storer, PageOfTicket DEF Listed, IsPage
  <2>3. Index(k) \in mask[page[t]] => Stored(k)
    BY <2>1, <2>2 DEF Stocked, MaskRight
  <2>4. ~Pushed(k) /\ ~Is(k, {"advance"})
    BY <1>4, <2>1 DEF Turns, PushTurns, OwnTickets, Is, Pushing
  <2> QED BY <2>3, <2>4 DEF Stored
<1>5. ASSUME pc[t] = "take"
      PROVE  /\ headPage[MyLane(t)] \in live
             /\ slots[headPage[MyLane(t)]][Index(ticket[t])] = ticket[t]
  <2> DEFINE k == ticket[t]
  <2>1. Turns /\ Listed /\ Stocked
    BY <1>5, HereNow
  <2>2. headPage[MyLane(t)] = PageOf(k) /\ k \in Nat
    BY <1>5, <2>1, TakesHead, Drawn DEF Listed
  <2>3. Pushed(k) /\ ~Popped(k)
    BY <1>5, <2>1 DEF Turns, PopTurns, Popping
  <2>4. ~Is(k, {"unlock", "unlink", "unlast", "pass"})
    BY <1>5, <2>1 DEF Turns, OwnTickets, Is, Popping
  <2>5. slots[PageOf(k)][Index(k)] = k
    BY <2>1, <2>2, <2>3, <2>4 DEF Stocked, SlotRight, Stored, Taken
  <2>6. PageOf(k) \in live
    BY <1>5, CallersPageLive DEF Popping
  <2> QED BY <2>2, <2>5, <2>6
<1> QED BY <1>1, <1>2, <1>3, <1>4, <1>5

(* Whoever touches a page of the queue touches one that is allocated, a    *)
(* push finds its slot free, a pop finds its item, and no two calls are at *)
(* the same slot for the same purpose.                                     *)
THEOREM PagesLiveCorrect == Spec => []PagesLive
<1>1. IInv => PagesLive
  <2> SUFFICES ASSUME IInv PROVE PagesLive
    OBVIOUS
  <2>1. OwnTickets
    BY DEF IInv, Turns
  <2>2. \A t \in Threads : \A u \in Threads \ {t} :
          (pc[t] \in Pushing /\ pc[u] \in Pushing) \/ (pc[t] \in Popping /\ pc[u] \in Popping)
            => ticket[t] # ticket[u]
    BY <2>1 DEF OwnTickets
  <2> QED BY <2>2, TouchedRight DEF PagesLive
<1> QED BY <1>1, Invariance, PTL

-----------------------------------------------------------------------------
(* The queue as Fifo sees it: the tickets that were pushed and not popped. *)
Segment(h, n) == [i \in 1 .. n - h |-> h + i - 1]
Results ==
  [t \in Threads |-> IF pc[t] \in {"mine", "filled", "take"} THEN ticket[t] ELSE result[t]]

LEMMA ItemIs ==
  ASSUME IInv, Here, NEW k \in Nat, k < tail, ~Taken(k)
  PROVE  ItemOf(k) = k
<1>1. Turns /\ Stocked
  BY DEF IInv, Contents
<1>2. CASE \E t \in Threads : pc[t] \in Pushing \ {"advance"} /\ ticket[t] = k
  BY <1>2 DEF ItemOf
<1>3. CASE ~\E t \in Threads : pc[t] \in Pushing \ {"advance"} /\ ticket[t] = k
  <2>1. Pushed(k) \/ Is(k, Pushing)
    BY <1>1 DEF Turns, Order
  <2>2. Stored(k)
    BY <1>3, <2>1 DEF Stored, Is
  <2>3. slots[PageOf(k)][Index(k)] = k
    BY <1>1, <2>2 DEF Stocked, SlotRight
  <2> QED BY <1>3, <2>3 DEF ItemOf, PageOf
<1> QED BY <1>2, <1>3

LEMMA AbstractIs ==
  IInv /\ Here => AbstractQueue = Segment(head, tail) /\ AbstractResult = Results
<1> SUFFICES ASSUME IInv, Here
             PROVE  AbstractQueue = Segment(head, tail) /\ AbstractResult = Results
  OBVIOUS
<1>1. Turns /\ head \in Nat /\ tail \in Nat /\ head <= tail
  BY AllDrawn DEF IInv, Turns, Order
<1>2. ASSUME NEW i \in 1 .. tail - head PROVE ItemOf(head + i - 1) = head + i - 1
  <2> DEFINE k == head + i - 1
  <2>1. k \in Nat /\ k < tail /\ ~(k < head)
    BY <1>1
  <2> HIDE DEF k
  <2>2. ~Popped(k)
    BY <1>1, <2>1 DEF Turns, Order
  <2>3. ~Is(k, {"unlock", "unlink", "unlast", "pass"})
    BY <1>1, <2>1 DEF Turns, PopTurns, Is, Popping
  <2>4. ItemOf(k) = k
    BY <2>1, <2>2, <2>3, ItemIs DEF Taken
  <2> QED BY <2>4 DEF k
<1>3. AbstractQueue = Segment(head, tail)
  BY <1>2 DEF AbstractQueue, Segment
<1>4. ASSUME NEW t \in Threads, pc[t] \in {"mine", "filled", "take"}
      PROVE  ItemOf(ticket[t]) = ticket[t]
  <2> DEFINE k == ticket[t]
  <2>1. k \in Nat /\ k < tail /\ ~Popped(k)
    BY <1>1, <1>4, Drawn DEF Turns, PopTurns, Popping
  <2>2. ~Is(k, {"unlock", "unlink", "unlast", "pass"})
    BY <1>1, <1>4 DEF Turns, OwnTickets, Is, Popping
  <2> HIDE DEF k
  <2>3. ItemOf(k) = k
    BY <2>1, <2>2, ItemIs DEF Taken
  <2> QED BY <2>3 DEF k
<1>5. AbstractResult = Results
  BY <1>4 DEF AbstractResult, Results
<1> QED BY <1>3, <1>5

LEMMA AbstractNext ==
  (IInv /\ Here => AbstractQueue = Segment(head, tail) /\ AbstractResult = Results)'
BY AbstractIs, PTL

LEMMA SegmentFacts ==
  ASSUME NEW h \in Nat, NEW n \in Nat, h <= n
  PROVE  /\ Segment(h, n) \in Seq(Nat) /\ Len(Segment(h, n)) = n - h
         /\ Append(Segment(h, n), n) = Segment(h, n + 1)
         /\ h = n <=> Segment(h, n) = << >>
         /\ h < n => Head(Segment(h, n)) = h /\ Tail(Segment(h, n)) = Segment(h + 1, n)
<1> DEFINE s == Segment(h, n)
<1>1. s \in Seq(Nat) /\ Len(s) = n - h /\ DOMAIN s = 1 .. n - h
  BY DEF Segment
<1>2. Append(s, n) = Segment(h, n + 1)
  BY <1>1 DEF Segment
<1>3. h = n <=> s = << >>
  BY <1>1
<1>4. h < n => Head(s) = h
  BY <1>1 DEF Segment
<1>5. h < n => Tail(s) = Segment(h + 1, n)
  BY <1>1 DEF Segment
<1> QED BY <1>1, <1>2, <1>3, <1>4, <1>5

(* What each action does to the counters and to what the pops have.        *)
LEMMA ActFifo ==
  ASSUME IInv, IInv', Here, Here', NEW t \in Threads, Act(t)
  PROVE  F!FifoNext \/ UNCHANGED F!fifoVars
<1> DEFINE Q == AbstractQueue
           R == AbstractResult
<1>1. Turns /\ Kinds /\ head \in Nat /\ tail \in Nat /\ head <= tail
  BY AllDrawn DEF IInv, Turns, Order
<1>2. Q = Segment(head, tail) /\ R = Results
  BY AbstractIs
<1>3. Q' = Segment(head', tail') /\ R' = Results'
  BY AbstractNext
<1>4. Others(t)
  BY <1>1, ActionTurns DEF Act
<1>5. R = [u \in Threads |-> R[u]] /\ R' = [u \in Threads |-> R'[u]]
  BY <1>2, <1>3 DEF Results
<1>6. \A u \in Threads : u # t => R'[u] = R[u]
  BY <1>2, <1>3, <1>4 DEF Results, Others
<1>7. R[t] = (IF pc[t] \in {"mine", "filled", "take"} THEN ticket[t] ELSE result[t])
      /\ R'[t] = (IF pc'[t] \in {"mine", "filled", "take"} THEN ticket'[t] ELSE result'[t])
  BY <1>2, <1>3 DEF Results
<1> HIDE DEF Q, R
<1>8. R'[t] = R[t] => R' = R
  BY <1>5, <1>6
<1>9. \A v : R'[t] = v => R' = [R EXCEPT ![t] = v]
  BY <1>5, <1>6
<1>10. head' = head /\ tail' = tail => Q' = Q
  BY <1>2, <1>3
<1>11. CASE PushTicket(t)
  <2>1. tail' = tail + 1 /\ head' = head /\ tail \in Items
    BY <1>1, <1>11, SizesAssumption DEF PushTicket, Items, Tickets
  <2>2. pc[t] = "out" /\ pc'[t] = "turn" /\ result' = result
    BY <1>1, <1>11, Routes DEF PushTicket, Route
  <2>3. Q' = Append(Q, tail)
    BY <1>1, <1>2, <1>3, <2>1, SegmentFacts
  <2>4. R' = R
    BY <1>7, <1>8, <2>2
  <2>5. F!Put(tail)
    BY <2>3, <2>4 DEF F!Put, Q, R
  <2> QED BY <2>1, <2>5 DEF F!FifoNext
<1>12. CASE CallPop(t)
  <2>1. head' = head /\ tail' = tail /\ result'[t] = Pending
    BY <1>1, <1>12 DEF CallPop, queueVars, Kinds
  <2>2. pc'[t] = "check"
    BY <1>1, <1>12, Routes DEF Route
  <2>3. R' = [R EXCEPT ![t] = Pending] /\ Q' = Q
    BY <1>7, <1>9, <1>10, <2>1, <2>2
  <2>4. F!BeginPop(t)
    BY <2>3 DEF F!BeginPop, Q, R
  <2> QED BY <2>4 DEF F!FifoNext
<1>13. CASE CheckEmpty(t)
  <2>1. head' = head /\ tail' = tail /\ result'[t] = Nothing /\ tail - ticket[t] <= 0
    BY <1>1, <1>13 DEF CheckEmpty, queueVars, Kinds
  <2>2. pc[t] = "check" /\ pc'[t] = "out"
    BY <1>1, <1>13, Routes DEF Route
  <2>3. ticket[t] \in Nat /\ ticket[t] <= head /\ result[t] = Pending
    BY <1>1, <2>2, Drawn DEF Turns, Decisions, Deciding
  <2>4. head = tail
    BY <1>1, <2>1, <2>3
  <2>5. Q = << >> /\ Q' = Q /\ R[t] = Pending /\ R' = [R EXCEPT ![t] = Nothing]
    BY <1>1, <1>2, <1>7, <1>9, <1>10, <2>1, <2>2, <2>3, <2>4, SegmentFacts
  <2>6. F!FindEmpty(t)
    BY <2>5 DEF F!FindEmpty, Q, R
  <2> QED BY <2>6 DEF F!FifoNext
<1>14. CASE CasDraws(t)
  <2>1. head' = head + 1 /\ tail' = tail /\ head = ticket[t] /\ ticket' = ticket
    BY <1>1, <1>14 DEF CasDraws, localVars
  <2>2. pc[t] = "cas" /\ pc'[t] = "mine"
    BY <1>1, <1>14, Routes DEF Route
  <2>3. ticket[t] < tail /\ result[t] = Pending
    BY <1>1, <2>2 DEF Turns, Decisions, Deciding
  <2>4. Q # << >> /\ Head(Q) = head /\ Q' = Tail(Q)
    <3>1. head < tail /\ head # tail
      BY <1>1, <2>1, <2>3
    <3>2. Segment(head, tail) # << >> /\ Head(Segment(head, tail)) = head
          /\ Tail(Segment(head, tail)) = Segment(head + 1, tail)
      BY <1>1, <3>1, SegmentFacts
    <3> QED BY <1>2, <1>3, <2>1, <3>2
  <2>5. R[t] = Pending /\ R' = [R EXCEPT ![t] = Head(Q)]
    BY <1>7, <1>9, <2>1, <2>2, <2>3, <2>4
  <2>6. F!Get(t)
    BY <2>4, <2>5 DEF F!Get, Q, R
  <2> QED BY <2>6 DEF F!FifoNext
<1>15. CASE TakeItem(t)
  <2>1. head' = head /\ tail' = tail
    BY <1>15 DEF TakeItem, queueVars
  <2>2. pc[t] = "take" /\ pc'[t] \notin {"mine", "filled", "take"}
    BY <1>1, <1>15, Routes DEF Route
  <2>3. result' = [result EXCEPT ![t] = slots[headPage[MyLane(t)]][Index(ticket[t])]]
    BY <1>15 DEF TakeItem
  <2>4. result'[t] = ticket[t]
    BY <1>1, <2>2, <2>3, TouchedRight DEF At, Kinds
  <2>5. Q' = Q /\ R' = R
    BY <1>7, <1>8, <1>10, <2>1, <2>2, <2>4
  <2> QED BY <2>5 DEF F!fifoVars, Q, R
<1>16. CASE Push(t)
  <2>1. head' = head /\ tail' = tail /\ result' = result
    BY <1>16 DEF Push, PushTurn, ReadTailPage, LinkLock, LinkPage, LinkLast, Store, Advance,
                 queueVars, localVars
  <2>2. pc[t] \notin {"mine", "filled", "take"} /\ pc'[t] \notin {"mine", "filled", "take"}
    BY <1>1, <1>16, Routes DEF Push, Route, Act
  <2>3. Q' = Q /\ R' = R
    BY <1>7, <1>8, <1>10, <2>1, <2>2
  <2> QED BY <2>3 DEF F!fifoVars, Q, R
<1>17. CASE CheckSome(t) \/ CasFails(t) \/ UnlinkLock(t) \/ UnlinkPage(t) \/ UnlinkLast(t)
              \/ PassTurn(t) \/ FreePage(t)
  <2>1. head' = head /\ tail' = tail /\ result' = result
    BY <1>17 DEF CheckSome, CasFails, UnlinkLock, UnlinkPage, UnlinkLast, PassTurn, FreePage,
                 queueVars, localVars
  <2>2. pc[t] \notin {"mine", "filled", "take"} /\ pc'[t] \notin {"mine", "filled", "take"}
    BY <1>1, <1>17, Routes DEF Pop, Route, Act
  <2>3. Q' = Q /\ R' = R
    BY <1>7, <1>8, <1>10, <2>1, <2>2
  <2> QED BY <2>3 DEF F!fifoVars, Q, R
<1>18. CASE PopTurn(t) \/ PopFilled(t)
  <2>1. head' = head /\ tail' = tail /\ result' = result /\ ticket' = ticket
    BY <1>18 DEF PopTurn, PopFilled, queueVars, localVars
  <2>2. pc[t] \in {"mine", "filled", "take"} /\ pc'[t] \in {"mine", "filled", "take"}
    BY <1>1, <1>18, Routes DEF Pop, Route, Act
  <2>3. Q' = Q /\ R' = R
    BY <1>7, <1>8, <1>10, <2>1, <2>2
  <2> QED BY <2>3 DEF F!fifoVars, Q, R
<1> QED BY <1>11, <1>12, <1>13, <1>14, <1>15, <1>16, <1>17, <1>18 DEF Act, Pop

LEMMA DestroyFifo ==
  ASSUME IInv, Destroy
  PROVE  UNCHANGED F!fifoVars
<1>1. head = tail /\ head' = head /\ tail' = tail /\ result' = result /\ tail \in Nat
  BY AllDrawn DEF Destroy, queueVars, localVars, IInv
<1>2. \A u \in Threads : pc[u] = "out" /\ pc'[u] = "gone"
  BY DEF Destroy, At
<1>3. 1 .. tail - head = {} /\ 1 .. tail' - head' = {}
  BY <1>1
<1>4. AbstractQueue' = AbstractQueue
  BY <1>3 DEF AbstractQueue
<1>5. AbstractResult' = AbstractResult
  BY <1>1, <1>2 DEF AbstractResult
<1> QED BY <1>4, <1>5 DEF F!fifoVars

LEMMA StutterFifo ==
  ASSUME UNCHANGED vars
  PROVE  UNCHANGED F!fifoVars
<1> USE DEF vars, queueVars, laneVars, pageVars, localVars
<1>1. \A k : ItemOf(k)' = ItemOf(k)
  BY DEF ItemOf
<1>2. AbstractQueue' = AbstractQueue
  BY <1>1 DEF AbstractQueue
<1>3. AbstractResult' = AbstractResult
  <2>1. \A t : ItemOf(ticket[t])' = ItemOf(ticket[t])
    BY DEF ItemOf
  <2> QED BY <2>1 DEF AbstractResult
<1> QED BY <1>2, <1>3 DEF F!fifoVars

LEMMA NextFifo == IInv /\ IInv' /\ [Next]_vars => [F!FifoNext]_(F!fifoVars)
<1> SUFFICES ASSUME IInv, IInv', [Next]_vars PROVE F!FifoNext \/ UNCHANGED F!fifoVars
  OBVIOUS
<1>1. ASSUME NEW t \in Threads, Act(t) PROVE F!FifoNext \/ UNCHANGED F!fifoVars
  <2>1. pc[t] # "gone" /\ pc'[t] # "gone"
    BY <1>1, Moves DEF IInv, Turns
  <2>2. Here
    BY <2>1 DEF IInv, Turns, AllOrNone, Here
  <2>3. Here'
    BY <2>1 DEF IInv, Turns, AllOrNone, Here
  <2> QED BY <1>1, <2>2, <2>3, ActFifo
<1>2. ASSUME NEW t \in Pushers, PushTicket(t) PROVE F!FifoNext \/ UNCHANGED F!fifoVars
  <2>1. t \in Threads /\ Act(t)
    BY <1>2 DEF Threads, Act
  <2> QED BY <1>1, <2>1
<1>3. ASSUME NEW t \in Poppers, CallPop(t) PROVE F!FifoNext \/ UNCHANGED F!fifoVars
  <2>1. t \in Threads /\ Act(t)
    BY <1>3 DEF Threads, Act
  <2> QED BY <1>1, <2>1
<1>4. ASSUME NEW t \in Threads, Step(t) PROVE F!FifoNext \/ UNCHANGED F!fifoVars
  <2>1. Act(t)
    BY <1>4 DEF Act, Step, Push, Pop
  <2> QED BY <1>1, <2>1
<1>5. CASE Destroy
  BY <1>5, DestroyFifo
<1>6. CASE Gone
  BY <1>6, StutterFifo DEF Gone
<1>7. CASE UNCHANGED vars
  BY <1>7, StutterFifo
<1> QED BY <1>2, <1>3, <1>4, <1>5, <1>6, <1>7 DEF Next

LEMMA InitFifo == Init => F!FifoInit
<1> SUFFICES ASSUME Init PROVE F!FifoInit
  OBVIOUS
<1>1. AbstractQueue = << >>
  BY DEF Init, AbstractQueue
<1>2. AbstractResult = [t \in Threads |-> Nothing]
  BY DEF Init, AbstractResult
<1> QED BY <1>1, <1>2 DEF F!FifoInit

(* The lanes, pages and turns together are a FIFO: items come out once, in *)
(* the order of the tickets of their pushes, and a try_pop() fails only at *)
(* a moment when nothing is queued.                                        *)
THEOREM FifoCorrect == Spec => ImplementsFifo
<1>1. Init => F!FifoInit
  BY InitFifo
<1>2. IInv /\ IInv' /\ [Next]_vars => [F!FifoNext]_(F!fifoVars)
  BY NextFifo
<1> QED BY <1>1, <1>2, Invariance, PTL DEF Spec, ImplementsFifo, F!FifoSpec

-----------------------------------------------------------------------------
(* The pages of a list.  Chain unfolds to what its recursion says. *)
Follows(f, n, p) ==
  f = [i \in 0 .. n |-> IF i = 0 THEN {p}
                        ELSE f[i - 1] \union {next[x] : x \in f[i - 1] \ {NoPage}}]

LEMMA ChainExists ==
  ASSUME NEW p, NEW n \in Nat
  PROVE  \E f : Follows(f, n, p)
<1> DEFINE P == {m \in Nat : \E f : Follows(f, m, p)}
<1>1. 0 \in P
  <2> DEFINE g == [i \in 0 .. 0 |-> {p}]
  <2>1. Follows(g, 0, p)
    BY DEF Follows
  <2> QED BY <2>1
<1>2. ASSUME NEW m \in P PROVE m + 1 \in P
  <2>1. PICK f : Follows(f, m, p)
    OBVIOUS
  <2> DEFINE last == f[m] \union {next[x] : x \in f[m] \ {NoPage}}
             g == [i \in 0 .. m + 1 |-> IF i = m + 1 THEN last ELSE f[i]]
             h == [i \in 0 .. m + 1 |-> IF i = 0 THEN {p}
                     ELSE g[i - 1] \union {next[x] : x \in g[i - 1] \ {NoPage}}]
  <2>2. m \in Nat
    OBVIOUS
  <2>3. ASSUME NEW i \in 0 .. m + 1 PROVE g[i] = h[i]
    <3>1. CASE i = m + 1
      <4>1. g[i - 1] = f[m] /\ i # 0
        BY <2>2, <3>1
      <4> HIDE DEF last
      <4>2. g[i] = last
        BY <2>2, <3>1
      <4> HIDE DEF g
      <4>3. h[i] = g[i - 1] \union {next[x] : x \in g[i - 1] \ {NoPage}}
        BY <4>1
      <4> QED BY <4>1, <4>2, <4>3 DEF last
    <3>2. CASE i = 0
      <4>1. f[0] = {p}
        BY <2>1, <2>2 DEF Follows
      <4>2. g[0] = f[0]
        BY <2>2
      <4> QED BY <2>2, <3>2, <4>1, <4>2
    <3>3. CASE i \in 1 .. m
      <4>1. i \in 0 .. m /\ i - 1 \in 0 .. m /\ i # 0
        BY <2>2, <3>3
      <4>2. f[i] = f[i - 1] \union {next[x] : x \in f[i - 1] \ {NoPage}}
        BY <2>1, <4>1 DEF Follows
      <4>3. g[i] = f[i] /\ g[i - 1] = f[i - 1]
        BY <2>2, <3>3
      <4> HIDE DEF g
      <4>4. h[i] = g[i - 1] \union {next[x] : x \in g[i - 1] \ {NoPage}}
        BY <4>1
      <4> QED BY <4>2, <4>3, <4>4
    <3> QED BY <2>2, <3>1, <3>2, <3>3
  <2>4. g = h
    <3>1. g = [i \in 0 .. m + 1 |-> g[i]] /\ h = [i \in 0 .. m + 1 |-> h[i]]
      OBVIOUS
    <3> HIDE DEF g, h
    <3> QED BY <2>3, <3>1
  <2>5. Follows(g, m + 1, p)
    BY <2>4 DEF Follows
  <2> HIDE DEF g
  <2> QED BY <2>2, <2>5
<1> HIDE DEF P
<1>3. P = Nat
  <2>1. P \in SUBSET Nat
    BY DEF P
  <2> QED BY <1>1, <1>2, <2>1, NatInd
<1> QED BY <1>3 DEF P

LEMMA ChainIs ==
  ASSUME NEW p
  PROVE  \E f : /\ f[0] = {p}
                /\ \A n \in 0 .. MaxPushes - 1 :
                     f[n + 1] = f[n] \union {next[x] : x \in f[n] \ {NoPage}}
                /\ Chain(p) = f[MaxPushes] \ {NoPage}
<1> DEFINE from == CHOOSE f : Follows(f, MaxPushes, p)
<1>0. MaxPushes \in Nat
  BY SizesAssumption
<1>1. Follows(from, MaxPushes, p)
  BY <1>0, ChainExists
<1>2. Chain(p) = from[MaxPushes] \ {NoPage}
  BY DEF Chain, Follows
<1> HIDE DEF from
<1>3. from[0] = {p}
  BY <1>0, <1>1 DEF Follows
<1>4. ASSUME NEW n \in 0 .. MaxPushes - 1
      PROVE  from[n + 1] = from[n] \union {next[x] : x \in from[n] \ {NoPage}}
  <2>1. n + 1 \in 0 .. MaxPushes /\ n + 1 # 0 /\ (n + 1) - 1 = n
    BY <1>0
  <2> DEFINE i == n + 1
  <2>2. from[i] = from[i - 1] \union {next[x] : x \in from[i - 1] \ {NoPage}}
    <3> HIDE DEF i
    <3> QED BY <1>1, <2>1 DEF Follows, i
  <2> QED BY <2>1, <2>2
<1> QED BY <1>2, <1>3, <1>4

(* It stays within a set that the next fields do not leave. *)
LEMMA ChainWithin ==
  ASSUME NEW X, NEW p \in X, \A x \in X \ {NoPage} : next[x] \in X
  PROVE  Chain(p) \subseteq X \ {NoPage}
<1>0. MaxPushes \in Nat
  BY SizesAssumption
<1>1. PICK f : /\ f[0] = {p}
               /\ \A n \in 0 .. MaxPushes - 1 :
                    f[n + 1] = f[n] \union {next[x] : x \in f[n] \ {NoPage}}
               /\ Chain(p) = f[MaxPushes] \ {NoPage}
  BY ChainIs
<1> DEFINE P == {n \in Nat : n <= MaxPushes => f[n] \subseteq X}
<1>2. 0 \in P
  BY <1>1
<1>3. ASSUME NEW n \in P PROVE n + 1 \in P
  <2> SUFFICES ASSUME n + 1 <= MaxPushes PROVE f[n + 1] \subseteq X
    OBVIOUS
  <2>1. n \in 0 .. MaxPushes - 1 /\ f[n] \subseteq X
    BY <1>0
  <2>2. f[n + 1] = f[n] \union {next[x] : x \in f[n] \ {NoPage}}
    BY <1>1, <2>1
  <2> QED BY <2>1, <2>2
<1> HIDE DEF P
<1>4. P = Nat
  <2>1. P \in SUBSET Nat
    BY DEF P
  <2> QED BY <1>2, <1>3, <2>1, NatInd
<1> QED BY <1>0, <1>1, <1>4 DEF P

LEMMA PageBefore ==
  ASSUME NEW h \in Nat, NEW q \in Nat, Index(h) = 0, Index(q) = 0, Lane(h) = Lane(q), h < q
  PROVE  \E r \in Nat : Index(r) = 0 /\ Lane(r) = Lane(q) /\ h <= r /\ r < q /\ Behind(r) = q
<1> DEFINE c == q % NQueue
<1>1. /\ c = h % NQueue /\ c \in Lanes /\ c \in Nat /\ 0 \in Slots
      /\ NQueue \in Nat \ {0} /\ ItemsPerPage \in Nat \ {0}
  BY SameLane, SizesAssumption, TicketParts DEF Lanes, Slots
<1>2. PICK a \in Nat : q = NQueue * (ItemsPerPage * a + 0) + c
  BY TicketParts
<1>3. PICK b \in Nat : h = NQueue * (ItemsPerPage * b + 0) + c
  BY <1>1, TicketParts
<1> HIDE DEF c
<1>4. a # 0
  <2>1. CASE a = 0
    <3>1. q = c
      BY <1>1, <1>2, <2>1
    <3>2. ItemsPerPage * b \in Nat
      BY <1>1, <1>3
    <3>3. NQueue * (ItemsPerPage * b + 0) \in Nat
      BY <1>1, <3>2
    <3>4. h >= c
      BY <1>1, <1>3, <3>3
    <3> QED BY <1>1, <3>1, <3>4
  <2> QED BY <2>1
<1> DEFINE r == NQueue * (ItemsPerPage * (a - 1) + 0) + c
<1>5. a - 1 \in Nat
  BY <1>4
<1>6. r \in Nat /\ r % NQueue = c /\ Index(r) = 0
  BY <1>1, <1>5, TicketMade
<1>7. Behind(r) = q
  BY <1>1, <1>2, <1>5 DEF Behind
<1> HIDE DEF r
<1>8. Lane(r) = Lane(q)
  BY <1>6, SameLane DEF c
<1>9. r < q
  BY <1>6, <1>7, PageEnds
<1>10. h <= r
  <2>1. r < h => Behind(r) <= h
    BY <1>6, <1>8, PagesApart
  <2> QED BY <1>6, <1>7, <2>1
<1> QED BY <1>6, <1>7, <1>8, <1>9, <1>10

(* The list of a lane has every page of it that was appended and not       *)
(* removed.                                                                *)
LEMMA ChainReaches ==
  ASSUME Turns, Listed, NEW p \in Pages, IsPage(p), Linked(p), ~Unlinked(p)
  PROVE  p \in Chain(headPage[Lane(p)])
<1> DEFINE l == Lane(p)
           h == headPage[l]
<1>0. MaxPushes \in Nat /\ (\A q \in Pages : q \in Nat /\ q < MaxPushes /\ q # NoPage) /\ l \in Lanes
  BY SizesAssumption, LaneOf DEF Pages, Tickets, NoPage, IsPage
<1>1. h # NoPage /\ h <= p
  BY <1>0 DEF Listed, HeadRight
<1>2. h \in Pages
  BY <1>0, <1>1 DEF Turns, Kinds
<1>3. h \in Nat /\ Index(h) = 0 /\ Lane(h) = l /\ Linked(h) /\ ~Unlinked(h)
  BY <1>0, <1>2 DEF Listed, HeadRight, IsPage
<1> HIDE DEF h, l
<1>4. PICK f : /\ f[0] = {h}
               /\ \A n \in 0 .. MaxPushes - 1 :
                    f[n + 1] = f[n] \union {next[x] : x \in f[n] \ {NoPage}}
               /\ Chain(h) = f[MaxPushes] \ {NoPage}
  BY ChainIs
<1> DEFINE Near(q, n) == /\ q \in Pages /\ Index(q) = 0 /\ Lane(q) = l /\ h <= q /\ q - h <= n
                         /\ Linked(q) /\ ~Unlinked(q)
           P == {n \in Nat : n <= MaxPushes => \A q \in Pages : Near(q, n) => q \in f[n]}
<1>5. 0 \in P
  <2> SUFFICES ASSUME NEW q \in Pages, Near(q, 0) PROVE q \in f[0]
    OBVIOUS
  <2>1. q = h
    BY <1>0, <1>3
  <2> QED BY <1>4, <2>1
<1>6. ASSUME NEW n \in P PROVE n + 1 \in P
  <2> SUFFICES ASSUME n + 1 <= MaxPushes, NEW q \in Pages, Near(q, n + 1) PROVE q \in f[n + 1]
    OBVIOUS
  <2>1. n \in Nat /\ n \in 0 .. MaxPushes - 1 /\ \A r \in Pages : Near(r, n) => r \in f[n]
    BY <1>0
  <2>2. f[n + 1] = f[n] \union {next[x] : x \in f[n] \ {NoPage}}
    BY <1>4, <2>1
  <2>3. q \in Nat /\ Index(q) = 0 /\ Lane(q) = l /\ h <= q /\ q - h <= n + 1 /\ Linked(q) /\ ~Unlinked(q)
    BY <1>0
  <2>4. CASE q = h
    <3>1. Near(q, n)
      BY <1>3, <2>1, <2>3, <2>4
    <3> QED BY <2>1, <2>2, <3>1
  <2>5. CASE h < q
    <3>1. PICK r \in Nat : Index(r) = 0 /\ Lane(r) = l /\ h <= r /\ r < q /\ Behind(r) = q
      BY <1>3, <2>3, <2>5, PageBefore
    <3>2. Linked(r)
      BY <2>3, <3>1, LinkedAfter DEF Linked
    <3>3. r \in Pages
      BY <3>1, <3>2, PageFacts
    <3>4. ~Unlinked(r)
      <4>1. CASE r = h
        BY <1>3, <4>1
      <4>2. CASE h < r
        <5>1. /\ EndOf(h) \in Nat /\ Lane(EndOf(h)) = l /\ EndOf(h) + NQueue = Behind(h)
              /\ Behind(h) <= r /\ r <= EndOf(r) /\ EndOf(r) \in Nat
          BY <1>3, <3>1, <4>2, PageEnds, PagesApart
        <5>2. EndOf(h) < EndOf(r)
          BY <3>1, <5>1, SizesAssumption
        <5>3. Unlinked(r) => Popped(EndOf(h))
          BY <3>1, <5>1, <5>2, UnlinkedAfter
        <5> QED BY <1>3, <5>3 DEF Unlinked
      <4> QED BY <1>3, <3>1, <4>1, <4>2
    <3>5. Near(r, n)
      BY <1>3, <2>1, <2>3, <3>1, <3>2, <3>3, <3>4
    <3>6. r \in f[n] /\ r # NoPage
      BY <1>0, <2>1, <3>3, <3>5
    <3>7. next[r] = q
      BY <2>3, <3>1, <3>2, <3>3, <3>4 DEF Listed, NextRight, NextPage, IsPage
    <3> QED BY <2>2, <3>6, <3>7
  <2> QED BY <1>3, <2>3, <2>4, <2>5
<1> HIDE DEF P
<1>7. P = Nat
  <2>1. P \in SUBSET Nat
    BY DEF P
  <2> QED BY <1>5, <1>6, <2>1, NatInd
<1>8. Near(p, MaxPushes)
  BY <1>0, <1>1, <1>3 DEF IsPage, l
<1>9. p \in f[MaxPushes] /\ p # NoPage
  BY <1>0, <1>7, <1>8 DEF P
<1> QED BY <1>4, <1>9 DEF h, l

(* A page that is allocated is still to be appended, in the list, or       *)
(* removed and about to be deallocated.                                    *)
LEMMA LiveSomewhere ==
  ASSUME Turns, Listed, Stocked, NEW p \in live
  PROVE  \/ \E t \in Threads : page[t] = p /\ pc[t] \in {"turn", "lock", "link"}
         \/ p \in Chain(headPage[Lane(p)])
         \/ \E t \in Threads : page[t] = p /\ pc[t] \in {"unlast", "pass", "free"}
<1> DEFINE e == EndOf(p)
<1>1. p \in Pages /\ p \in Nat /\ Index(p) = 0 /\ p < tail /\ ~Freed(p)
  BY DEF Stocked, LiveRight, Pages, Tickets
<1>2. CASE ~Linked(p)
  <2>1. ~Pushed(p) /\ ~Is(p, {"last", "store", "advance"})
    BY <1>2 DEF Linked
  <2>2. PICK t \in Threads : pc[t] \in Pushing /\ ticket[t] = p
    BY <1>1, <2>1 DEF Turns, Order, Is
  <2>3. pc[t] \in {"turn", "lock", "link"}
    BY <1>1, <2>1, <2>2 DEF Is, Pushing, Listed, PushLocals
  <2>4. page[t] = p
    BY <1>1, <2>2, <2>3 DEF Listed, PushLocals
  <2> QED BY <2>3, <2>4
<1>3. CASE Linked(p) /\ ~Unlinked(p)
  BY <1>1, <1>3, ChainReaches DEF IsPage
<1>4. CASE Unlinked(p)
  <2>1. Is(e, {"unlast", "pass"}) \/ Is(e, {"free"})
    BY <1>1, <1>4 DEF Unlinked, Freed
  <2>2. PICK t \in Threads : pc[t] \in {"unlast", "pass", "free"} /\ ticket[t] = e
    BY <2>1 DEF Is
  <2>3. page[t] = PageOf(e)
    BY <2>2 DEF Listed, PopLocals
  <2>4. PageOf(e) = p
    BY <1>1, PageEnds
  <2> QED BY <2>2, <2>3, <2>4
<1> QED BY <1>2, <1>3, <1>4

(* With no call under way and as many pops as pushes, a lane has no page   *)
(* but the one at its tail.                                                *)
LEMMA Quiet ==
  ASSUME Turns, Listed, \A t \in Threads : pc[t] = "out", head = tail,
         NEW p \in Nat, Index(p) = 0, p < tail, ~Popped(EndOf(p))
  PROVE  /\ Linked(p) /\ Ended(p) /\ ~Unlinked(p) /\ ~Cleared(p)
         /\ ~Linked(Behind(p))
         /\ headPage[Lane(p)] = p /\ tailPage[Lane(p)] = p
<1> DEFINE l == Lane(p)
           h == headPage[l]
           r == tailPage[l]
<1>1. \A k, A : "out" \notin A => ~Is(k, A)
  BY DEF Is
<1>2. l \in Lanes /\ Kinds /\ tail \in Nat
  BY LaneOf, AllDrawn
<1>3. \A k \in Nat : k < tail => Pushed(k) /\ Popped(k)
  BY <1>1 DEF Turns, Order, Pushing, Popping
<1>4. Linked(p) /\ Ended(p) /\ ~Unlinked(p) /\ ~Cleared(p)
  BY <1>1, <1>3 DEF Linked, Ended, Unlinked, Cleared
<1>5. /\ EndOf(p) \in Nat /\ Lane(EndOf(p)) = l /\ EndOf(p) + NQueue = Behind(p)
      /\ Behind(p) \in Nat /\ Index(Behind(p)) = 0 /\ Lane(Behind(p)) = l
  BY PageEnds
(* No later page of the lane: its first ticket would have been popped.     *)
<1>6. ASSUME NEW q \in Nat, Index(q) = 0, Lane(q) = l, p < q PROVE ~Linked(q)
  <2> SUFFICES ASSUME Linked(q) PROVE FALSE
    OBVIOUS
  <2>1. q < tail
    BY <1>6, PageFacts
  <2>2. Behind(p) <= q
    BY <1>6, PagesApart
  <2>3. EndOf(p) < tail
    BY <1>2, <1>5, <1>6, <2>1, <2>2, SizesAssumption
  <2> QED BY <1>3, <1>5, <2>3
<1>7. ~Linked(Behind(p))
  BY <1>5, <1>6, PageEnds
<1>8. h = p
  <2>1. h # NoPage /\ h <= p
    BY <1>4 DEF Listed, HeadRight, IsPage
  <2>2. h \in Pages
    BY <1>2, <2>1 DEF Kinds
  <2>3. h \in Nat /\ Index(h) = 0 /\ Lane(h) = l /\ ~Unlinked(h) /\ Linked(h)
    BY <1>2, <2>2 DEF Listed, HeadRight, IsPage, Pages, Tickets
  <2> HIDE DEF h
  <2>4. h < p => FALSE
    <3> SUFFICES ASSUME h < p PROVE FALSE
      OBVIOUS
    <3>1. EndOf(h) \in Nat /\ EndOf(h) + NQueue = Behind(h) /\ Behind(h) <= p
      BY <2>3, PageEnds, PagesApart
    <3>2. EndOf(h) < tail
      BY <1>2, <3>1, SizesAssumption
    <3> QED BY <1>3, <2>3, <3>1, <3>2 DEF Unlinked
  <2> QED BY <2>1, <2>3, <2>4
<1>9. r = p
  <2>1. r # NoPage /\ p <= r
    BY <1>4 DEF Listed, TailRight, IsPage
  <2>2. r \in Pages
    BY <1>2, <2>1 DEF Kinds
  <2>3. r \in Nat /\ Index(r) = 0 /\ Lane(r) = l /\ Ended(r)
    BY <1>2, <2>2 DEF Listed, TailRight, IsPage, Pages, Tickets
  <2> HIDE DEF r
  <2>4. Linked(r)
    BY <2>3, PageFacts
  <2> QED BY <1>6, <2>1, <2>3, <2>4
<1> QED BY <1>4, <1>7, <1>8, <1>9

LEMMA QuietLanes ==
  ASSUME Turns, Listed, \A t \in Threads : pc[t] = "out", head = tail, NEW l \in Lanes
  PROVE  headPage[l] = tailPage[l] /\ Cardinality(Chain(headPage[l])) <= 1
<1>1. \A k, A : "out" \notin A => ~Is(k, A)
  BY DEF Is
<1>2. Kinds /\ \A q \in Pages : q \in Nat /\ q # NoPage
  BY DEF Turns, Pages, Tickets, NoPage
<1>3. CASE headPage[l] # NoPage
  <2> DEFINE p == headPage[l]
  <2>1. p \in Pages /\ p \in Nat /\ Index(p) = 0 /\ Lane(p) = l /\ Linked(p) /\ ~Unlinked(p)
    BY <1>2, <1>3 DEF Kinds, Listed, HeadRight, IsPage
  <2>2. p < tail /\ ~Popped(EndOf(p))
    BY <2>1, PageFacts DEF Unlinked
  <2>3. ~Linked(Behind(p)) /\ tailPage[l] = p
    BY <2>1, <2>2, Quiet
  <2>4. next[p] = NoPage
    BY <2>1, <2>3 DEF Listed, NextRight, NextPage, IsPage
  <2> HIDE DEF p
  <2>5. Chain(p) \subseteq {p, NoPage} \ {NoPage}
    BY <2>4, ChainWithin
  <2>6. Chain(p) = {} \/ Chain(p) = {p}
    BY <2>5
  <2>7. Cardinality({}) = 0 /\ Cardinality({p}) = 1
    BY FS_EmptySet, FS_Singleton
  <2>8. Cardinality(Chain(p)) <= 1
    BY <2>6, <2>7
  <2> QED BY <2>3, <2>8 DEF p
<1>4. CASE headPage[l] = NoPage
  <2>1. tailPage[l] = NoPage
    <3> SUFFICES ASSUME tailPage[l] # NoPage PROVE FALSE
      OBVIOUS
    <3> DEFINE r == tailPage[l]
    <3>1. r \in Pages /\ r \in Nat /\ Index(r) = 0 /\ Lane(r) = l /\ Ended(r) /\ ~Cleared(r)
      BY <1>2 DEF Kinds, Listed, TailRight, IsPage
    <3> HIDE DEF r
    <3>2. r < tail /\ ~Popped(EndOf(r))
      BY <3>1, PageFacts DEF Cleared
    <3> QED BY <1>2, <1>4, <3>1, <3>2, Quiet
  <2>2. Chain(NoPage) \subseteq {NoPage} \ {NoPage}
    BY ChainWithin
  <2>3. Cardinality(Chain(NoPage)) = 0
    <3>1. Chain(NoPage) = {}
      BY <2>2
    <3> QED BY <3>1, FS_EmptySet
  <2> QED BY <1>4, <2>1, <2>3
<1> QED BY <1>3, <1>4

(* The queue that is gone has no page. *)
Emptied == ~Here => live = {}

LEMMA EmptiedStep == IInv /\ Emptied /\ [Next]_vars => Emptied'
<1> SUFFICES ASSUME IInv, Emptied, [Next]_vars, ~Here' PROVE live' = {}
  BY DEF Emptied
<1>1. ASSUME NEW t \in Threads, Act(t) PROVE FALSE
  <2>1. Kinds' /\ pc[t] # "gone" /\ pc'[t] # "gone"
    BY <1>1, Moves, PushKinds, PopKinds DEF IInv, Turns, Act
  <2>2. IInv'
    BY <1>1, ActKeeps
  <2> QED BY <2>1, <2>2 DEF IInv, Turns, AllOrNone, Here
<1>2. ASSUME NEW t \in Pushers, PushTicket(t) PROVE FALSE
  <2>1. t \in Threads /\ Act(t)
    BY <1>2 DEF Threads, Act
  <2> QED BY <1>1, <2>1
<1>3. ASSUME NEW t \in Poppers, CallPop(t) PROVE FALSE
  <2>1. t \in Threads /\ Act(t)
    BY <1>3 DEF Threads, Act
  <2> QED BY <1>1, <2>1
<1>4. ASSUME NEW t \in Threads, Step(t) PROVE FALSE
  <2>1. Act(t)
    BY <1>4 DEF Act, Step, Push, Pop
  <2> QED BY <1>1, <2>1
<1>5. CASE Destroy
  <2>1. /\ \A t \in Threads : pc[t] = "out"
        /\ head = tail /\ live' = live \ {tailPage[l] : l \in Lanes}
    BY <1>5 DEF Destroy, At
  <2>2. Here
    BY <2>1 DEF Here
  <2>3. Turns /\ Listed /\ Stocked
    BY <2>2 DEF IInv, Lists, Contents
  <2>4. ASSUME NEW p \in live PROVE \E l \in Lanes : p = tailPage[l]
    <3>1. p \in Nat /\ Index(p) = 0 /\ p < tail /\ ~Freed(p)
      BY <2>3 DEF Stocked, LiveRight, Pages, Tickets
    <3>2. ~Popped(EndOf(p))
      BY <2>1, <3>1 DEF Freed, Is
    <3>3. tailPage[Lane(p)] = p
      BY <2>1, <2>3, <3>1, <3>2, Quiet
    <3>4. Lane(p) \in Lanes
      BY <3>1, LaneOf
    <3> QED BY <3>3, <3>4
  <2> QED BY <2>1, <2>4
<1>6. CASE UNCHANGED vars
  BY <1>6 DEF vars, pageVars, Here, Emptied
<1>7. CASE Gone
  BY <1>6, <1>7 DEF Gone
<1> QED BY <1>2, <1>3, <1>4, <1>5, <1>6, <1>7 DEF Next

(* No page is lost or freed twice, a queue that nobody uses has at most    *)
(* one page in each lane, as internal_finish_clear() asserts, and a queue  *)
(* that is gone has none.                                                  *)
THEOREM PagesKeptCorrect == Spec => []PagesKept
<1>1. Init => Emptied
  BY ThreadsAssumption DEF Init, Emptied, Here
<1>2. IInv /\ Emptied /\ [Next]_vars => Emptied'
  BY EmptiedStep
<1>3. IInv /\ Emptied => PagesKept
  <2> SUFFICES ASSUME IInv, Emptied PROVE PagesKept
    OBVIOUS
  <2> DEFINE Hands == {page[t] : t \in {u \in Threads :
                         pc[u] \in {"turn", "lock", "link", "last", "unlast", "pass", "free"}}}
             InLists == UNION {Chain(headPage[l]) : l \in Lanes}
  <2>1. live \subseteq InLists \union Hands
    <3> SUFFICES ASSUME NEW p \in live PROVE p \in InLists \union Hands
      OBVIOUS
    <3>1. Turns /\ Listed /\ Stocked
      BY DEF Emptied, IInv, Lists, Contents
    <3>2. Lane(p) \in Lanes
      BY <3>1, LaneOf DEF Stocked, LiveRight, Pages, Tickets
    <3>3. \/ \E t \in Threads : page[t] = p /\ pc[t] \in {"turn", "lock", "link"}
          \/ p \in Chain(headPage[Lane(p)])
          \/ \E t \in Threads : page[t] = p /\ pc[t] \in {"unlast", "pass", "free"}
      BY <3>1, LiveSomewhere
    <3> QED BY <3>2, <3>3
  <2>2. (\A t \in Threads : pc[t] = "gone") => live = {}
    BY ThreadsAssumption DEF Emptied, Here
  <2>3. ASSUME \A t \in Threads : pc[t] = "out", head = tail, NEW l \in Lanes
        PROVE  headPage[l] = tailPage[l] /\ Cardinality(Chain(headPage[l])) <= 1
    <3>1. Turns /\ Listed
      BY <2>3 DEF Here, IInv, Lists
    <3> QED BY <2>3, <3>1, QuietLanes
  <2> HIDE DEF Hands, InLists
  <2> QED BY <2>1, <2>2, <2>3 DEF PagesKept, At, Hands, InLists
<1> QED BY <1>1, <1>2, <1>3, Invariance, PTL DEF Spec
=============================================================================
