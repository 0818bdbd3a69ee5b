-------------------------- MODULE ConcurrentQueue --------------------------
(***************************************************************************)
(* tbb::concurrent_queue of minitbb (tbb/internal/_concurrent_queue_impl.h *)
(* and tbb/concurrent_queue.h), the queue inside JobQueueT.  A push or a   *)
(* pop draws a ticket from one of two global counters.  The ticket names a *)
(* lane (a micro_queue) and a slot in a list of pages of that lane; each   *)
(* lane has counters of its own that say whose turn it is.                 *)
(*                                                                         *)
(* An action is one access to shared memory, or several where only one of  *)
(* them is to something that another thread may change meanwhile.  Items   *)
(* are pointers, so copying one throws nothing.  An allocation that fails  *)
(* is left out: its exception would leave run() inside the team, which     *)
(* ends the program.  Tickets do not wrap around 64 bits.                  *)
(***************************************************************************)
EXTENDS Integers, Sequences, FiniteSets

CONSTANTS
  Pushers,       \* the threads that may call push()
  Poppers,       \* the threads that may call try_pop()
  NQueue,        \* n_queue, the number of lanes
  Phi,           \* phi, which spreads neighbouring tickets over the lanes
  ItemsPerPage,  \* items_per_page
  MaxPushes      \* bound: calls of push()

ASSUME SizesAssumption ==
  /\ NQueue \in Nat \ {0}
  /\ ItemsPerPage \in Nat \ {0}
  /\ MaxPushes \in Nat

Threads == Pushers \union Poppers

ASSUME ThreadsAssumption == Threads # {}

VARIABLES
  head,        \* head_counter and tail_counter of the whole queue: the next
  tail,        \* ticket of a pop and of a push
  laneHead,    \* head_counter and tail_counter of each lane: the ticket,
  laneTail,    \* rounded down, whose pop or push is next
  headPage,    \* head_page and tail_page of each lane
  tailPage,
  lock,        \* page_mutex of each lane: the thread in it
  next,        \* the next field of each page
  mask,        \* the mask of each page: the slots with an item
  slots,       \* the items of each page
  live,        \* the pages that are allocated
  pc,          \* where each thread is
  ticket,      \* the locals of each thread: k
  page,        \* p
  other,       \* q
  result       \* *dst, or what the thread is about to push

queueVars == <<head, tail>>
laneVars == <<laneHead, laneTail, headPage, tailPage, lock>>
pageVars == <<next, mask, slots, live>>
localVars == <<ticket, page, other, result>>
vars == <<queueVars, laneVars, pageVars, localVars, pc>>

Tickets == 0 .. MaxPushes - 1
Lanes == 0 .. NQueue - 1
Slots == 0 .. ItemsPerPage - 1

(* A page is named by the ticket that it was allocated for. *)
Pages == Tickets
NoPage == -1

(* An item is named by the ticket its push draws. *)
Items == Tickets
Pending == -1
Nothing == -2

(* k*phi%n_queue *)
Lane(k) == (k * Phi) % NQueue

(* phi has no divisor in common with n_queue: as many tickets in a row as  *)
(* there are lanes are of different lanes.                                 *)
ASSUME PhiAssumption ==
  Phi \in Nat /\ \A i, j \in Lanes : Lane(i) = Lane(j) => i = j

(* k &= -n_queue *)
Rounded(k) == k - (k % NQueue)

(* modulo_power_of_two( k/n_queue, items_per_page ) *)
Index(k) == (k \div NQueue) % ItemsPerPage

(***************************************************************************)
(* "out"     in no call, or the queue is gone                              *)
(* "turn"    push: waits for its turn                                      *)
(* "tail"    push: about to read tail_page                                 *)
(* "lock"    push: about to enter page_mutex, with a new page              *)
(* "link"    push: about to append that page                               *)
(* "last"    push: about to make it tail_page                              *)
(* "store"   push: about to write the item                                 *)
(* "advance" push: about to pass the turn on                               *)
(* "check"   pop: about to compare it with tail_counter                    *)
(* "cas"     pop: about to draw the ticket                                 *)
(* "mine"    pop: waits for its turn                                       *)
(* "filled"  pop: waits for the push of that ticket                        *)
(* "take"    pop: about to read the item                                   *)
(* "unlock"  pop: about to enter page_mutex, its page is used up           *)
(* "unlink"  pop: about to remove the page                                 *)
(* "unlast"  pop: about to clear tail_page if that was the last page       *)
(* "pass"    pop: about to pass the turn on                                *)
(* "free"    pop: about to deallocate the page                             *)
(***************************************************************************)
Pushing == {"turn", "tail", "lock", "link", "last", "store", "advance"}
Deciding == {"check", "cas"}
Popping == {"mine", "filled", "take", "unlock", "unlink", "unlast", "pass", "free"}
Location == {"out", "gone"} \union Pushing \union Deciding \union Popping

(* Every counter, pointer and local holds what its place allows. *)
TypeOK ==
  /\ head \in 0 .. MaxPushes /\ tail \in 0 .. MaxPushes
  /\ laneHead \in [Lanes -> 0 .. MaxPushes + NQueue]
  /\ laneTail \in [Lanes -> 0 .. MaxPushes + NQueue]
  /\ headPage \in [Lanes -> Pages \union {NoPage}]
  /\ tailPage \in [Lanes -> Pages \union {NoPage}]
  /\ \A l \in Lanes : lock[l] \subseteq Threads /\ Cardinality(lock[l]) <= 1
  /\ next \in [Pages -> Pages \union {NoPage}]
  /\ mask \in [Pages -> SUBSET Slots]
  /\ slots \in [Pages -> [Slots -> Items \union {Nothing}]]
  /\ live \subseteq Pages
  /\ pc \in [Threads -> Location]
  /\ ticket \in [Threads -> 0 .. MaxPushes]
  /\ page \in [Threads -> Pages \union {NoPage}]
  /\ other \in [Threads -> Pages \union {NoPage}]
  /\ result \in [Threads -> Items \union {Pending, Nothing}]

Init ==
  /\ head = 0 /\ tail = 0
  /\ laneHead = [l \in Lanes |-> 0]
  /\ laneTail = [l \in Lanes |-> 0]
  /\ headPage = [l \in Lanes |-> NoPage]
  /\ tailPage = [l \in Lanes |-> NoPage]
  /\ lock = [l \in Lanes |-> {}]
  /\ next = [p \in Pages |-> NoPage]
  /\ mask = [p \in Pages |-> {}]
  /\ slots = [p \in Pages |-> [i \in Slots |-> Nothing]]
  /\ live = {}
  /\ pc = [t \in Threads |-> "out"]
  /\ ticket = [t \in Threads |-> 0]
  /\ page = [t \in Threads |-> NoPage]
  /\ other = [t \in Threads |-> NoPage]
  /\ result = [t \in Threads |-> Nothing]

-----------------------------------------------------------------------------
At(t, place) == pc[t] = place

GoTo(t, place) == pc' = [pc EXCEPT ![t] = place]

MyLane(t) == Lane(ticket[t])

(* The end of a call: nothing is kept of its locals but the result. *)
Leave(t) ==
  /\ GoTo(t, "out")
  /\ ticket' = [ticket EXCEPT ![t] = 0]
  /\ page' = [page EXCEPT ![t] = NoPage]
  /\ other' = [other EXCEPT ![t] = NoPage]

(* The push of the first slot of a page allocates it, before its turn.     *)
AllocatePage(t, k) ==
  IF Index(k) = 0
    THEN /\ page' = [page EXCEPT ![t] = k]
         /\ live' = live \union {k}
    ELSE UNCHANGED <<page, live>>

(* internal_push(): tail_counter++ draws the ticket. *)
PushTicket(t) ==
  /\ At(t, "out") /\ tail < MaxPushes
  /\ tail' = tail + 1
  /\ ticket' = [ticket EXCEPT ![t] = tail]
  /\ AllocatePage(t, tail)
  /\ GoTo(t, "turn")
  /\ UNCHANGED <<head, laneVars, next, mask, slots, other, result>>

(* spin_wait_until_my_turn( tail_counter, k ) *)
PushTurn(t) ==
  /\ At(t, "turn")
  /\ laneTail[MyLane(t)] = Rounded(ticket[t])
  /\ GoTo(t, IF page[t] # NoPage THEN "lock" ELSE "tail")
  /\ UNCHANGED <<queueVars, laneVars, pageVars, localVars>>

(* p = tail_page, the page that an earlier push appended. *)
ReadTailPage(t) ==
  /\ At(t, "tail")
  /\ page' = [page EXCEPT ![t] = tailPage[MyLane(t)]]
  /\ GoTo(t, "store")
  /\ UNCHANGED <<queueVars, laneVars, pageVars, ticket, other, result>>

Acquire(t) ==
  /\ lock[MyLane(t)] = {}
  /\ lock' = [lock EXCEPT ![MyLane(t)] = {t}]

Release(t) == lock' = [lock EXCEPT ![MyLane(t)] = {}]

LinkLock(t) ==
  /\ At(t, "lock")
  /\ Acquire(t)
  /\ other' = [other EXCEPT ![t] = tailPage[MyLane(t)]]
  /\ GoTo(t, "link")
  /\ UNCHANGED <<queueVars, laneHead, laneTail, headPage, tailPage, pageVars,
                 ticket, page, result>>

(* Behind the last page, or as the only one. *)
LinkPage(t) ==
  /\ At(t, "link")
  /\ IF other[t] # NoPage
       THEN /\ next' = [next EXCEPT ![other[t]] = page[t]]
            /\ UNCHANGED headPage
       ELSE /\ headPage' = [headPage EXCEPT ![MyLane(t)] = page[t]]
            /\ UNCHANGED next
  /\ GoTo(t, "last")
  /\ UNCHANGED <<queueVars, laneHead, laneTail, tailPage, lock, mask, slots,
                 live, localVars>>

LinkLast(t) ==
  /\ At(t, "last")
  /\ tailPage' = [tailPage EXCEPT ![MyLane(t)] = page[t]]
  /\ Release(t)
  /\ GoTo(t, "store")
  /\ UNCHANGED <<queueVars, laneHead, laneTail, headPage, pageVars, localVars>>

(* copy_item() and the mark that the item is present. *)
Store(t) ==
  /\ At(t, "store")
  /\ slots' = [slots EXCEPT ![page[t]][Index(ticket[t])] = ticket[t]]
  /\ mask' = [mask EXCEPT ![page[t]] = @ \union {Index(ticket[t])}]
  /\ GoTo(t, "advance")
  /\ UNCHANGED <<queueVars, laneVars, next, live, localVars>>

(* tail_counter += n_queue *)
Advance(t) ==
  /\ At(t, "advance")
  /\ laneTail' = [laneTail EXCEPT ![MyLane(t)] = @ + NQueue]
  /\ Leave(t)
  /\ UNCHANGED <<queueVars, laneHead, headPage, tailPage, lock, pageVars, result>>

-----------------------------------------------------------------------------
(* internal_try_pop() is called and reads k = head_counter. *)
CallPop(t) ==
  /\ At(t, "out")
  /\ result' = [result EXCEPT ![t] = Pending]
  /\ ticket' = [ticket EXCEPT ![t] = head]
  /\ GoTo(t, "check")
  /\ UNCHANGED <<queueVars, laneVars, pageVars, page, other>>

(* Mistake: one item left is taken for none. *)
CheckEmptyEarly(t) ==
  /\ At(t, "check")
  /\ tail - ticket[t] <= 1
  /\ result' = [result EXCEPT ![t] = Nothing]
  /\ Leave(t)
  /\ UNCHANGED <<queueVars, laneVars, pageVars>>

(* tail_counter-k <= 0: the queue is empty. *)
CheckEmpty(t) ==
  /\ At(t, "check")
  /\ tail - ticket[t] <= 0
  /\ result' = [result EXCEPT ![t] = Nothing]
  /\ Leave(t)
  /\ UNCHANGED <<queueVars, laneVars, pageVars>>

CheckSome(t) ==
  /\ At(t, "check")
  /\ tail - ticket[t] > 0
  /\ GoTo(t, "cas")
  /\ UNCHANGED <<queueVars, laneVars, pageVars, localVars>>

(* head_counter.compare_and_swap( k+1, k ) succeeds: the ticket is ours. *)
CasDraws(t) ==
  /\ At(t, "cas")
  /\ head = ticket[t]
  /\ head' = head + 1
  /\ GoTo(t, "mine")
  /\ UNCHANGED <<tail, laneVars, pageVars, localVars>>

(* Mistake: the retry uses the old value again. *)
CasFailsStale(t) ==
  /\ At(t, "cas")
  /\ head # ticket[t]
  /\ GoTo(t, "check")
  /\ UNCHANGED <<queueVars, laneVars, pageVars, localVars>>

(* Another thread snatched the item: retry with the value that was seen. *)
CasFails(t) ==
  /\ At(t, "cas")
  /\ head # ticket[t]
  /\ ticket' = [ticket EXCEPT ![t] = head]
  /\ GoTo(t, "check")
  /\ UNCHANGED <<queueVars, laneVars, pageVars, page, other, result>>

(* spin_wait_until_eq( head_counter, k ) *)
PopTurn(t) ==
  /\ At(t, "mine")
  /\ laneHead[MyLane(t)] = Rounded(ticket[t])
  /\ GoTo(t, "filled")
  /\ UNCHANGED <<queueVars, laneVars, pageVars, localVars>>

(* spin_wait_while_eq( tail_counter, k ) *)
PopFilled(t) ==
  /\ At(t, "filled")
  /\ laneTail[MyLane(t)] # Rounded(ticket[t])
  /\ GoTo(t, "take")
  /\ UNCHANGED <<queueVars, laneVars, pageVars, localVars>>

(* Mistake: the page goes with its last but one slot. *)
LastSlotEarly(t) == Index(ticket[t]) = ItemsPerPage - 2

LastSlot(t) == Index(ticket[t]) = ItemsPerPage - 1

(* p = head_page and assign_and_destroy_item().  Slots without a mark are  *)
(* those of pushes whose allocation or copy threw, and there are none.     *)
TakeItem(t) ==
  /\ At(t, "take")
  /\ LET p == headPage[MyLane(t)]
     IN /\ page' = [page EXCEPT ![t] = p]
        /\ result' = [result EXCEPT ![t] = slots[p][Index(ticket[t])]]
        /\ slots' = [slots EXCEPT ![p][Index(ticket[t])] = Nothing]
  /\ GoTo(t, IF LastSlot(t) THEN "unlock" ELSE "pass")
  /\ UNCHANGED <<queueVars, laneVars, next, mask, live, ticket, other>>

(* ~micro_queue_pop_finalizer(), when the last slot of the page was taken. *)
UnlinkLock(t) ==
  /\ At(t, "unlock")
  /\ Acquire(t)
  /\ other' = [other EXCEPT ![t] = next[page[t]]]
  /\ GoTo(t, "unlink")
  /\ UNCHANGED <<queueVars, laneHead, laneTail, headPage, tailPage, pageVars,
                 ticket, page, result>>

UnlinkPage(t) ==
  /\ At(t, "unlink")
  /\ headPage' = [headPage EXCEPT ![MyLane(t)] = other[t]]
  /\ GoTo(t, "unlast")
  /\ UNCHANGED <<queueVars, laneHead, laneTail, tailPage, lock, pageVars, localVars>>

(* Mistake: tail_page is left pointing to the page. *)
UnlinkKeepsTail(t) ==
  /\ At(t, "unlast")
  /\ Release(t)
  /\ GoTo(t, "pass")
  /\ UNCHANGED <<queueVars, laneHead, laneTail, headPage, tailPage, pageVars, localVars>>

UnlinkLast(t) ==
  /\ At(t, "unlast")
  /\ tailPage' = IF other[t] = NoPage
                   THEN [tailPage EXCEPT ![MyLane(t)] = NoPage]
                   ELSE tailPage
  /\ Release(t)
  /\ GoTo(t, "pass")
  /\ UNCHANGED <<queueVars, laneHead, laneTail, headPage, pageVars, localVars>>

(* head_counter = my_ticket, which is k+n_queue *)
PassTurn(t) ==
  /\ At(t, "pass")
  /\ laneHead' = [laneHead EXCEPT ![MyLane(t)] = Rounded(ticket[t]) + NQueue]
  /\ IF LastSlot(t)
       THEN GoTo(t, "free") /\ UNCHANGED <<ticket, page, other>>
       ELSE Leave(t)
  /\ UNCHANGED <<queueVars, laneTail, headPage, tailPage, lock, pageVars, result>>

(* deallocate_page( p ) *)
FreePage(t) ==
  /\ At(t, "free")
  /\ live' = live \ {page[t]}
  /\ Leave(t)
  /\ UNCHANGED <<queueVars, laneVars, next, mask, slots, result>>

-----------------------------------------------------------------------------
(* ~concurrent_queue(), called by one thread when no call is under way.   *)
(* clear() pops until the queue is empty, with the actions above, and     *)
(* internal_finish_clear() frees the page at the tail of each lane.       *)
Destroy ==
  /\ \A t \in Threads : At(t, "out")
  /\ head = tail
  /\ live' = live \ {tailPage[l] : l \in Lanes}
  /\ tailPage' = [l \in Lanes |-> NoPage]
  /\ pc' = [t \in Threads |-> "gone"]
  /\ UNCHANGED <<queueVars, laneHead, laneTail, headPage, lock, next, mask, slots,
                 localVars>>

Gone == (\A t \in Threads : At(t, "gone")) /\ UNCHANGED vars

Step(t) ==
  \/ PushTurn(t) \/ ReadTailPage(t) \/ LinkLock(t) \/ LinkPage(t) \/ LinkLast(t)
  \/ Store(t) \/ Advance(t)
  \/ CheckEmpty(t) \/ CheckSome(t) \/ CasDraws(t) \/ CasFails(t)
  \/ PopTurn(t) \/ PopFilled(t) \/ TakeItem(t)
  \/ UnlinkLock(t) \/ UnlinkPage(t) \/ UnlinkLast(t) \/ PassTurn(t) \/ FreePage(t)

Next ==
  \/ \E t \in Pushers : PushTicket(t)
  \/ \E t \in Poppers : CallPop(t)
  \/ \E t \in Threads : Step(t)
  \/ Destroy
  \/ Gone

(* A thread inside a call is run by the operating system again and again;  *)
(* nobody has to call.                                                     *)
Spec ==
  /\ Init
  /\ [][Next]_vars
  /\ \A t \in Threads : WF_vars(Step(t))

-----------------------------------------------------------------------------
(* Whoever touches a page touches one that is allocated: a push its page,  *)
(* or the tail_page it is about to read, whose slot is still free; a pop   *)
(* the head_page, whose slot has the item of its ticket; and no two are at *)
(* the same slot for the same purpose.                                     *)
PagesLive ==
  \A t \in Threads :
    /\ At(t, "tail") => tailPage[MyLane(t)] \in live
    /\ pc[t] \in {"lock", "link", "last", "store", "advance", "unlock", "unlink", "pass"}
         => page[t] \in live
    /\ At(t, "link") => other[t] \in live \union {NoPage}
    /\ At(t, "store") => Index(ticket[t]) \notin mask[page[t]]
    /\ At(t, "take") =>
         /\ headPage[MyLane(t)] \in live
         /\ slots[headPage[MyLane(t)]][Index(ticket[t])] = ticket[t]
    /\ \A u \in Threads \ {t} :
         (pc[t] \in Pushing /\ pc[u] \in Pushing) \/ (pc[t] \in Popping /\ pc[u] \in Popping)
           => ticket[t] # ticket[u]

(* The pages from p to the end of its list. *)
Chain(p) ==
  LET from[n \in 0 .. MaxPushes] ==
        IF n = 0 THEN {p}
        ELSE from[n - 1] \union {next[x] : x \in from[n - 1] \ {NoPage}}
  IN from[MaxPushes] \ {NoPage}

(* No page is lost or freed twice: every allocated page is in the list of  *)
(* a lane, or in the hands of the one thread that is about to append it or *)
(* has removed it; with all calls over a lane has at most one page, as the *)
(* assertion in internal_finish_clear() says, and after it there is none.  *)
PagesKept ==
  LET Held == {page[t] : t \in {u \in Threads :
                 pc[u] \in {"turn", "lock", "link", "last", "unlast", "pass", "free"}}}
      Listed == UNION {Chain(headPage[l]) : l \in Lanes}
  IN /\ live \subseteq Listed \union Held
     /\ (\A t \in Threads : At(t, "gone")) => live = {}
     /\ (\A t \in Threads : At(t, "out")) /\ head = tail =>
          \A l \in Lanes : headPage[l] = tailPage[l] /\ Cardinality(Chain(headPage[l])) <= 1

-----------------------------------------------------------------------------
(* The item of a ticket: with its push until that has stored it, then in   *)
(* its slot, in the page of its lane that was allocated for the first      *)
(* ticket of that page.                                                    *)
ItemOf(k) ==
  LET pagenr == k - NQueue * Index(k)
  IN IF \E t \in Threads : pc[t] \in Pushing \ {"advance"} /\ ticket[t] = k
       THEN k
       ELSE slots[pagenr][Index(k)]

AbstractQueue == [i \in 1 .. tail - head |-> ItemOf(head + i - 1)]

(* A pop has its item from the moment it draws the ticket. *)
AbstractResult ==
  [t \in Threads |->
     IF pc[t] \in {"mine", "filled", "take"} THEN ItemOf(ticket[t]) ELSE result[t]]

F == INSTANCE Fifo WITH queue <- AbstractQueue, result <- AbstractResult

(* However pushes and pops interleave in the lanes, the queue is a FIFO:   *)
(* items come out once, in the order of the pushes' tickets, and a         *)
(* try_pop() fails only at a moment when nothing is queued, on which the   *)
(* end of the job queue relies.                                            *)
ImplementsFifo == F!FifoSpec

(* Every call ends: a thread that waits for a turn gets it, and a pop that *)
(* is overtaken does not retry forever, the pushes being finitely many.    *)
CallsEnd == \A t \in Threads : pc[t] \in Pushing \union Deciding \union Popping ~> At(t, "out")
=============================================================================
