------------------------- MODULE LazyCounterProofs -------------------------
(***************************************************************************)
(* Proofs about LazyCounter, for every number of workers, slots, strings   *)
(* and updates.                                                            *)
(***************************************************************************)
EXTENDS LazyCounter, Sums

(* A slot that is being taken from is some worker's. *)
TakesFromWorker ==
  \A a \in Agent : pc[a] = "take" => slot[a] \in Thread /\ slot[a] < Slots

(* An agent has an aggregate between the test of the flag and the addition *)
(* to the counter only, so that the test, which resets it, loses nothing.  *)
AggregatesInFlight ==
  \A a \in Agent : pc[a] \notin {"scan", "take", "put"} => agg[a] = 0

(* The inductive invariant of Conservation. *)
IInv == TypeOK /\ TakesFromWorker /\ AggregatesInFlight /\ Conservation

(* At most one of the workers calls update(). *)
Lone == \A t, u \in Thread : updates[t] > 0 /\ updates[u] > 0 => t = u

(* The agents in update() were counted when they came in, and the main     *)
(* thread comes when the workers have left.                                *)
CallsCounted ==
  /\ \A t \in Thread : pc[t] \in InUpdate => updates[t] > 0
  /\ pc[Main] # "ready" => \A t \in Thread : pc[t] = "out"

(* Nothing held anywhere is positive, and a slot being taken from holds    *)
(* what was loaded from it or less.                                        *)
NothingPositive ==
  /\ \A t \in Thread : delta[t] <= 0
  /\ \A a \in Agent : agg[a] <= 0
  /\ \A a \in Agent : pc[a] = "take" => seen[a] <= 0 /\ delta[slot[a]] <= seen[a]

(* The inductive invariant of LoneUpdaterNeverBelow. *)
LoneInv == IInv /\ CallsCounted /\ (Lone => NothingPositive)

-----------------------------------------------------------------------------
LEMMA Agents ==
  /\ NumThreads \in Nat \ {0} /\ Slots \in Nat /\ Total \in Nat /\ MaxUpdates \in Nat
  /\ Thread \subseteq Nat /\ IsFiniteSet(Thread)
  /\ Thread \subseteq Agent /\ Main \in Agent /\ Main \notin Thread
  /\ IsFiniteSet(Agent) /\ Agent = Thread \union {Main}
<1>1. IsFiniteSet(Thread)
  BY LazyAssumption, FS_Interval DEF Thread
<1>2. IsFiniteSet(Thread \union {Main})
  BY <1>1, FS_AddElement
<1>3. Thread \subseteq Nat /\ Main \notin Thread
  BY LazyAssumption DEF Thread, Main
<1> QED BY <1>1, <1>2, <1>3, LazyAssumption DEF Agent

(* How many workers have a section in hand. *)
LEMMA HeldCount ==
  /\ Held \in Nat
  /\ (\E t \in Thread : pc[t] \in InUpdate) => Held >= 1
<1> DEFINE H == {t \in Thread : pc[t] \in InUpdate}
<1>1. H \subseteq Thread /\ IsFiniteSet(Thread)
  BY Agents
<1>2. IsFiniteSet(H)
  BY ONLY <1>1, FS_Subset
<1>3. Cardinality(H) \in Nat /\ (Cardinality(H) = 0 <=> H = {})
  BY ONLY <1>2, FS_CardinalityType, FS_EmptySet
<1>4. (\E t \in Thread : pc[t] \in InUpdate) => H # {}
  OBVIOUS
<1> HIDE DEF H
<1>5. Held = Cardinality(H)
  BY DEF Held, H
<1> QED BY <1>3, <1>4, <1>5

(* What is reported leaves the sections in hand. *)
LEMMA AddLeavesHeld ==
  ASSUME TypeOK, NEW t \in Thread, AddDelta(t)
  PROVE  /\ \E n \in 1 .. rest : delta' = [delta EXCEPT ![t] = delta[t] - n] /\ rest' = rest - n
         /\ rest' >= Held
<1>1. PICK n \in 1 .. rest - Held : delta' = [delta EXCEPT ![t] = @ - n] /\ rest' = rest - n
  BY DEF AddDelta
<1>2. rest \in Nat /\ Held \in Nat
  BY Agents, HeldCount DEF TypeOK
<1> HIDE DEF Held
<1>3. n \in 1 .. rest /\ rest - n >= Held
  BY <1>1, <1>2
<1> QED BY <1>1, <1>3

(* The sums of slots and of aggregates after a change of one of them. *)
LEMMA DeltaSum ==
  ASSUME TypeOK, NEW t \in Thread, NEW n \in Int
  PROVE  /\ SumFunctionOnSet([delta EXCEPT ![t] = n], Thread)
              = SumFunctionOnSet(delta, Thread) + n - delta[t]
         /\ SumFunctionOnSet(delta, Thread) \in Int
<1>1. delta \in [Thread -> Int]
  BY DEF TypeOK
<1>2. IsFiniteSet(Thread) /\ \A u \in Thread : delta[u] \in Int
  BY <1>1, Agents
<1>3. SumFunctionOnSet(delta, Thread) \in Int
  BY <1>2, SumInt
<1>4. SumFunctionOnSet([delta EXCEPT ![t] = n], Thread)
        = SumFunctionOnSet(delta, Thread) + n - delta[t]
  BY <1>1, <1>2, SumExcept
<1> QED BY <1>3, <1>4

LEMMA AggSum ==
  ASSUME TypeOK, NEW a \in Agent, NEW n \in Int
  PROVE  /\ SumFunctionOnSet([agg EXCEPT ![a] = n], Agent)
              = SumFunctionOnSet(agg, Agent) + n - agg[a]
         /\ SumFunctionOnSet(agg, Agent) \in Int
<1>1. agg \in [Agent -> Int]
  BY DEF TypeOK
<1>2. IsFiniteSet(Agent) /\ \A b \in Agent : agg[b] \in Int
  BY <1>1, Agents
<1>3. SumFunctionOnSet(agg, Agent) \in Int
  BY <1>2, SumInt
<1>4. SumFunctionOnSet([agg EXCEPT ![a] = n], Agent)
        = SumFunctionOnSet(agg, Agent) + n - agg[a]
  BY <1>1, <1>2, SumExcept
<1> QED BY <1>3, <1>4

LEMMA TypeInitial == Init => TypeOK
<1> SUFFICES ASSUME Init PROVE TypeOK
  OBVIOUS
<1>1. 0 \in 0 .. Slots /\ 0 \in 0 .. MaxUpdates /\ Total \in 0 .. Total /\ Total \in Int
  BY Agents
<1>2. counter \in Int /\ rest \in 0 .. Total
  BY <1>1 DEF Init
<1>3. delta \in [Thread -> Int]
  BY DEF Init
<1>4. pc \in [Agent -> {"ready", "flag", "test", "scan", "take", "put", "clear", "out"}]
  BY DEF Init
<1>5. slot \in [Agent -> 0 .. Slots] /\ seen \in [Agent -> Int] /\ agg \in [Agent -> Int]
  BY <1>1 DEF Init
<1>6. updates \in [Thread -> 0 .. MaxUpdates]
  BY <1>1 DEF Init
<1>7. changed \in BOOLEAN
  BY Zenon DEF Init
<1> QED BY <1>2, <1>3, <1>4, <1>5, <1>6, <1>7 DEF TypeOK

LEMMA TypeStep == TypeOK /\ TakesFromWorker /\ [Next]_vars => TypeOK'
<1> SUFFICES ASSUME TypeOK, TakesFromWorker, [Next]_vars PROVE TypeOK'
  OBVIOUS
<1> USE Agents
<1>1. ASSUME NEW t \in Thread, AddDelta(t) PROVE TypeOK'
  <2>1. PICK n \in 1 .. rest : delta' = [delta EXCEPT ![t] = @ - n] /\ rest' = rest - n
    BY <1>1, AddLeavesHeld
  <2>2. delta' \in [Thread -> Int] /\ rest' \in 0 .. Total
    BY <2>1 DEF TypeOK
  <2> QED BY <1>1, <2>2 DEF AddDelta, GoTo, TypeOK
<1>2. ASSUME NEW t \in Thread, AddFlag(t) PROVE TypeOK'
  BY <1>2 DEF AddFlag, GoTo, TypeOK
<1>3. ASSUME NEW t \in Thread, CallUpdate(t) PROVE TypeOK'
  BY <1>3 DEF CallUpdate, GoTo, TypeOK
<1>4. ASSUME NEW t \in Thread, Leave(t) PROVE TypeOK'
  BY <1>4 DEF Leave, GoTo, TypeOK
<1>5. ASSUME CallFinalUpdate PROVE TypeOK'
  BY <1>5 DEF CallFinalUpdate, GoTo, TypeOK
<1>6. ASSUME NEW a \in Agent, TestFlag(a) PROVE TypeOK'
  BY <1>6 DEF TestFlag, Return, TypeOK
<1>7. ASSUME NEW a \in Agent, Scan(a) PROVE TypeOK'
  BY <1>7 DEF Scan, TypeOK
<1>8. ASSUME NEW a \in Agent, TakeDelta(a) PROVE TypeOK'
  BY <1>8 DEF TakeDelta, GoTo, TypeOK, TakesFromWorker
<1>9. ASSUME NEW a \in Agent, ScanEnds(a) PROVE TypeOK'
  BY <1>9 DEF ScanEnds, GoTo, TypeOK
<1>10. ASSUME NEW a \in Agent, PutAggregate(a) PROVE TypeOK'
  BY <1>10 DEF PutAggregate, GoTo, TypeOK
<1>11. ASSUME NEW a \in Agent, ClearFlag(a) PROVE TypeOK'
  BY <1>11 DEF ClearFlag, Return, TypeOK
<1>12. ASSUME UNCHANGED vars PROVE TypeOK'
  BY <1>12 DEF vars, TypeOK
<1> QED
  BY <1>1, <1>2, <1>3, <1>4, <1>5, <1>6, <1>7, <1>8, <1>9, <1>10, <1>11, <1>12
     DEF Next, Update, Finished

-----------------------------------------------------------------------------
(* The sums are integers. *)
LEMMA SumsAreIntegers ==
  ASSUME TypeOK
  PROVE  SumFunctionOnSet(delta, Thread) \in Int /\ SumFunctionOnSet(agg, Agent) \in Int
<1>1. 0 \in Thread /\ Main \in Agent /\ 0 \in Int
  BY Agents, LazyAssumption DEF Thread
<1>2. SumFunctionOnSet(delta, Thread) \in Int
  BY <1>1, DeltaSum
<1>3. SumFunctionOnSet(agg, Agent) \in Int
  BY <1>1, AggSum
<1> QED BY <1>2, <1>3

LEMMA TakesStep == TypeOK /\ TakesFromWorker /\ [Next]_vars => TakesFromWorker'
<1> SUFFICES ASSUME TypeOK, TakesFromWorker, [Next]_vars,
                    NEW a \in Agent, pc'[a] = "take"
             PROVE  slot'[a] \in Thread /\ slot'[a] < Slots
  BY DEF TakesFromWorker
<1> USE Agents DEF TypeOK, TakesFromWorker
<1>1. ASSUME NEW t \in Thread, AddDelta(t) \/ AddFlag(t) \/ CallUpdate(t) \/ Leave(t)
      PROVE  slot'[a] \in Thread /\ slot'[a] < Slots
  BY <1>1 DEF AddDelta, AddFlag, CallUpdate, Leave, GoTo
<1>2. ASSUME CallFinalUpdate \/ UNCHANGED vars PROVE slot'[a] \in Thread /\ slot'[a] < Slots
  BY <1>2 DEF CallFinalUpdate, vars, GoTo
<1>3. ASSUME NEW b \in Agent, Scan(b) PROVE slot'[a] \in Thread /\ slot'[a] < Slots
  BY <1>3 DEF Scan
<1>4. ASSUME NEW b \in Agent, TestFlag(b) \/ ClearFlag(b)
      PROVE  slot'[a] \in Thread /\ slot'[a] < Slots
  BY <1>4 DEF TestFlag, ClearFlag, Return
<1>5. ASSUME NEW b \in Agent, TakeDelta(b) \/ ScanEnds(b) \/ PutAggregate(b)
      PROVE  slot'[a] \in Thread /\ slot'[a] < Slots
  BY <1>5 DEF TakeDelta, ScanEnds, PutAggregate, GoTo
<1> QED
  BY <1>1, <1>2, <1>3, <1>4, <1>5 DEF Next, Update, Finished

LEMMA InFlightStep ==
  TypeOK /\ AggregatesInFlight /\ [Next]_vars => AggregatesInFlight'
<1> SUFFICES ASSUME TypeOK, AggregatesInFlight, [Next]_vars,
                    NEW a \in Agent, pc'[a] \notin {"scan", "take", "put"}
             PROVE  agg'[a] = 0
  BY DEF AggregatesInFlight
<1> USE Agents DEF TypeOK, AggregatesInFlight
<1>1. ASSUME NEW t \in Thread, AddDelta(t) \/ AddFlag(t) \/ CallUpdate(t) \/ Leave(t)
      PROVE  agg'[a] = 0
  BY <1>1 DEF AddDelta, AddFlag, CallUpdate, Leave, GoTo
<1>2. ASSUME CallFinalUpdate \/ UNCHANGED vars PROVE agg'[a] = 0
  BY <1>2 DEF CallFinalUpdate, vars, GoTo
<1>3. ASSUME NEW b \in Agent, Scan(b) PROVE agg'[a] = 0
  BY <1>3 DEF Scan
<1>4. ASSUME NEW b \in Agent, TestFlag(b) \/ ClearFlag(b) PROVE agg'[a] = 0
  BY <1>4 DEF TestFlag, ClearFlag, Return
<1>5. ASSUME NEW b \in Agent, TakeDelta(b) \/ ScanEnds(b) \/ PutAggregate(b)
      PROVE  agg'[a] = 0
  BY <1>5 DEF TakeDelta, ScanEnds, PutAggregate, GoTo
<1> QED
  BY <1>1, <1>2, <1>3, <1>4, <1>5 DEF Next, Update, Finished

LEMMA ConservationInitial == Init => Conservation
<1> SUFFICES ASSUME Init PROVE Conservation
  OBVIOUS
<1>1. SumFunctionOnSet(delta, Thread) = 0 /\ SumFunctionOnSet(agg, Agent) = 0
  BY Agents, SumZero DEF Init
<1> QED BY <1>1, Agents DEF Init, Conservation

LEMMA ConservationStep ==
  IInv /\ [Next]_vars => Conservation'
<1> SUFFICES ASSUME TypeOK, TakesFromWorker, AggregatesInFlight, Conservation, [Next]_vars
             PROVE  Conservation'
  BY DEF IInv
<1> DEFINE D == SumFunctionOnSet(delta, Thread)
           A == SumFunctionOnSet(agg, Agent)
<1>0. /\ D \in Int /\ A \in Int /\ counter \in Int /\ rest \in 0 .. Total /\ Total \in Nat
      /\ counter + D + A = rest
  BY SumsAreIntegers, Agents DEF TypeOK, Conservation
<1>1. ASSUME NEW t \in Thread, AddDelta(t) PROVE Conservation'
  <2>1. PICK n \in 1 .. rest : /\ delta' = [delta EXCEPT ![t] = delta[t] - n]
                               /\ rest' = rest - n
    BY <1>1, AddLeavesHeld
  <2>2. delta[t] \in Int /\ delta[t] - n \in Int
    BY <1>0, <2>1 DEF TypeOK
  <2>3. D' = D + (delta[t] - n) - delta[t]
    BY <2>1, <2>2, DeltaSum
  <2>4. A' = A /\ counter' = counter
    BY <1>1 DEF AddDelta
  <2> HIDE DEF D, A
  <2>5. counter' + D' + A' = rest'
    BY <1>0, <2>1, <2>2, <2>3, <2>4
  <2> QED BY <2>5 DEF Conservation, D, A
<1>2. ASSUME NEW a \in Agent, TakeDelta(a) PROVE Conservation'
  <2> DEFINE t == slot[a]
  <2>1. t \in Thread /\ seen[a] \in Int /\ delta[t] \in Int /\ agg[a] \in Int
    BY <1>2 DEF TakeDelta, GoTo, TakesFromWorker, TypeOK
  <2>2. /\ delta' = [delta EXCEPT ![t] = delta[t] - seen[a]]
        /\ agg' = [agg EXCEPT ![a] = agg[a] + seen[a]]
        /\ counter' = counter /\ rest' = rest
    BY <1>2 DEF TakeDelta
  <2> HIDE DEF t
  <2>3. delta[t] - seen[a] \in Int /\ agg[a] + seen[a] \in Int
    BY <2>1
  <2>4. D' = D + (delta[t] - seen[a]) - delta[t]
    BY <2>1, <2>2, <2>3, DeltaSum
  <2>5. A' = A + (agg[a] + seen[a]) - agg[a]
    BY <2>2, <2>3, AggSum
  <2> HIDE DEF D, A
  <2>6. counter' + D' + A' = rest'
    BY <1>0, <2>1, <2>2, <2>4, <2>5
  <2> QED BY <2>6 DEF Conservation, D, A
<1>3. ASSUME NEW a \in Agent, PutAggregate(a) PROVE Conservation'
  <2>1. agg' = [agg EXCEPT ![a] = 0] /\ counter' = counter + agg[a] /\ agg[a] \in Int
    BY <1>3 DEF PutAggregate, TypeOK
  <2>2. A' = A + 0 - agg[a]
    <3>1. 0 \in Int
      OBVIOUS
    <3>2. SumFunctionOnSet([agg EXCEPT ![a] = 0], Agent) = A + 0 - agg[a]
      BY <3>1, AggSum
    <3> QED BY <2>1, <3>2
  <2>3. D' = D /\ rest' = rest
    BY <1>3 DEF PutAggregate
  <2> HIDE DEF D, A
  <2>4. counter' + D' + A' = rest'
    BY <1>0, <2>1, <2>2, <2>3
  <2> QED BY <2>4 DEF Conservation, D, A
<1>4. ASSUME NEW a \in Agent, TestFlag(a) PROVE Conservation'
  <2>1. agg' = agg
    BY <1>4 DEF TestFlag, AggregatesInFlight, TypeOK
  <2> QED BY <1>4, <2>1 DEF TestFlag, Conservation
<1>5. ASSUME UNCHANGED <<counter, delta, agg, rest>> PROVE Conservation'
  BY <1>5 DEF Conservation
<1> QED
  BY <1>1, <1>2, <1>3, <1>4, <1>5
     DEF Next, Update, Finished, vars, AddFlag, CallUpdate, Leave, CallFinalUpdate,
         Scan, ScanEnds, ClearFlag

-----------------------------------------------------------------------------
LEMMA InitIInv == Init => IInv
  BY TypeInitial, ConservationInitial, Agents
     DEF IInv, Init, TakesFromWorker, AggregatesInFlight

LEMMA NextIInv == IInv /\ [Next]_vars => IInv'
  BY TypeStep, TakesStep, InFlightStep, ConservationStep DEF IInv

LEMMA Invariance == Spec => []IInv
  BY InitIInv, NextIInv, PTL DEF Spec

(* Every value is of its kind: no slot beyond the last one is collected,   *)
(* and never are more strings reported than there are.                     *)
THEOREM TypeCorrect == Spec => []TypeOK
<1>1. IInv => TypeOK
  BY DEF IInv
<1> QED BY <1>1, Invariance, PTL

(* However adds and updates interleave, by any number of workers, counter, *)
(* slots and aggregates hold the strings not reported.                     *)
THEOREM ConservationCorrect == Spec => []Conservation
<1>1. IInv => Conservation
  BY DEF IInv
<1> QED BY <1>1, Invariance, PTL

-----------------------------------------------------------------------------
LEMMA CallsStep == TypeOK /\ CallsCounted /\ [Next]_vars => CallsCounted'
<1> SUFFICES ASSUME TypeOK, CallsCounted, [Next]_vars PROVE CallsCounted'
  OBVIOUS
<1> USE Agents DEF TypeOK, CallsCounted, InUpdate
<1>1. ASSUME NEW t \in Thread, AddDelta(t) \/ AddFlag(t) \/ CallUpdate(t) \/ Leave(t)
      PROVE  CallsCounted'
  BY <1>1 DEF AddDelta, AddFlag, CallUpdate, Leave, GoTo
<1>2. ASSUME CallFinalUpdate \/ UNCHANGED vars PROVE CallsCounted'
  BY <1>2 DEF CallFinalUpdate, vars, GoTo
<1>3. ASSUME NEW b \in Agent, Scan(b) PROVE CallsCounted'
  BY <1>3 DEF Scan
<1>4. ASSUME NEW b \in Agent, TestFlag(b) \/ ClearFlag(b) PROVE CallsCounted'
  BY <1>4 DEF TestFlag, ClearFlag, Return
<1>5. ASSUME NEW b \in Agent, TakeDelta(b) \/ ScanEnds(b) \/ PutAggregate(b)
      PROVE  CallsCounted'
  BY <1>5 DEF TakeDelta, ScanEnds, PutAggregate, GoTo
<1> QED
  BY <1>1, <1>2, <1>3, <1>4, <1>5 DEF Next, Update, Finished

(* With a lone updater no two agents are in update(). *)
LEMMA OneInside ==
  ASSUME TypeOK, CallsCounted, Lone, NEW a \in Agent, NEW b \in Agent,
         pc[a] \in InUpdate, pc[b] \in InUpdate
  PROVE  a = b
<1>1. CASE a = Main \/ b = Main
  BY <1>1, Agents DEF CallsCounted, InUpdate
<1>2. CASE a \in Thread /\ b \in Thread
  BY <1>2 DEF CallsCounted, Lone
<1> QED BY <1>1, <1>2, Agents

LEMMA NothingPositiveStep ==
  ASSUME IInv, CallsCounted, Lone, NothingPositive, [Next]_vars
  PROVE  NothingPositive'
<1> USE Agents DEF TypeOK, NothingPositive, TakesFromWorker, IInv
<1>1. ASSUME NEW t \in Thread, AddDelta(t) PROVE NothingPositive'
  <2>1. PICK n \in 1 .. rest : delta' = [delta EXCEPT ![t] = delta[t] - n]
    BY <1>1, AddLeavesHeld
  <2>2. n \in Nat
    BY <2>1
  <2>3. \A u \in Thread : delta[u] \in Int /\ delta'[u] \in Int /\ delta'[u] <= delta[u]
    BY <2>1, <2>2
  <2>4. pc' = [pc EXCEPT ![t] = "flag"] /\ seen' = seen /\ slot' = slot /\ agg' = agg
    BY <1>1 DEF AddDelta, GoTo
  <2>5. \A a \in Agent : pc'[a] = "take" => pc[a] = "take"
    BY <2>4
  <2>6. \A a \in Agent : pc'[a] = "take" => seen'[a] <= 0 /\ delta'[slot'[a]] <= seen'[a]
    <3> SUFFICES ASSUME NEW a \in Agent, pc'[a] = "take"
                 PROVE  seen'[a] <= 0 /\ delta'[slot'[a]] <= seen'[a]
      OBVIOUS
    <3>1. seen[a] \in Int /\ seen[a] <= 0 /\ slot[a] \in Thread /\ delta[slot[a]] <= seen[a]
      BY <2>5
    <3> QED BY <2>3, <2>4, <3>1
  <2>7. \A u \in Thread : delta'[u] <= 0
    BY <2>3
  <2> QED BY <2>4, <2>6, <2>7
<1>2. ASSUME NEW t \in Thread, AddFlag(t) \/ CallUpdate(t) \/ Leave(t)
      PROVE  NothingPositive'
  BY <1>2 DEF AddFlag, CallUpdate, Leave, GoTo
<1>3. ASSUME CallFinalUpdate \/ UNCHANGED vars PROVE NothingPositive'
  BY <1>3 DEF CallFinalUpdate, vars, GoTo
<1>4. ASSUME NEW b \in Agent, Scan(b) PROVE NothingPositive'
  BY <1>4 DEF Scan
<1>5. ASSUME NEW b \in Agent, TestFlag(b) \/ ClearFlag(b) PROVE NothingPositive'
  BY <1>5 DEF TestFlag, ClearFlag, Return
<1>6. ASSUME NEW b \in Agent, TakeDelta(b) PROVE NothingPositive'
  <2>1. /\ pc[b] = "take" /\ pc' = [pc EXCEPT ![b] = "scan"]
        /\ delta' = [delta EXCEPT ![slot[b]] = @ - seen[b]]
        /\ agg' = [agg EXCEPT ![b] = @ + seen[b]]
    BY <1>6 DEF TakeDelta, GoTo
  <2>2. \A a \in Agent : pc'[a] # "take"
    BY <2>1, OneInside DEF InUpdate
  <2>3. /\ slot[b] \in Thread /\ seen[b] \in Int /\ seen[b] <= 0
        /\ delta[slot[b]] <= seen[b]
    BY <2>1
  <2>4. \A u \in Thread : delta'[u] <= 0
    BY <2>1, <2>3
  <2>5. \A a \in Agent : agg'[a] <= 0
    BY <2>1, <2>3
  <2> QED BY <2>2, <2>4, <2>5
<1>7. ASSUME NEW b \in Agent, ScanEnds(b) \/ PutAggregate(b) PROVE NothingPositive'
  BY <1>7 DEF ScanEnds, PutAggregate, GoTo
<1> QED
  BY <1>1, <1>2, <1>3, <1>4, <1>5, <1>6, <1>7 DEF Next, Update, Finished

(* An updater that was not alone never is again. *)
LEMMA LoneBefore == TypeOK /\ [Next]_vars /\ Lone' => Lone
<1> SUFFICES ASSUME TypeOK, [Next]_vars, Lone' PROVE Lone
  OBVIOUS
<1>1. \A t \in Thread : updates[t] \in Nat /\ updates'[t] \in Nat /\ updates[t] <= updates'[t]
  <2>1. CASE UNCHANGED updates
    BY <2>1, Agents DEF TypeOK
  <2>2. ASSUME NEW u \in Thread, CallUpdate(u)
        PROVE  \A t \in Thread : /\ updates[t] \in Nat /\ updates'[t] \in Nat
                                 /\ updates[t] <= updates'[t]
    BY <2>2, Agents DEF TypeOK, CallUpdate
  <2> QED
    BY <2>1, <2>2
       DEF Next, Update, Finished, vars, AddDelta, AddFlag, Leave, CallFinalUpdate,
           TestFlag, Scan, TakeDelta, ScanEnds, PutAggregate, ClearFlag
<1> QED BY <1>1 DEF Lone

LEMMA InitLoneInv == Init => LoneInv
<1> SUFFICES ASSUME Init PROVE LoneInv
  OBVIOUS
<1>1. CallsCounted /\ NothingPositive
  BY Agents DEF Init, CallsCounted, InUpdate, NothingPositive
<1> QED BY <1>1, InitIInv DEF LoneInv

LEMMA NextLoneInv == LoneInv /\ [Next]_vars => LoneInv'
<1> SUFFICES ASSUME LoneInv, [Next]_vars PROVE LoneInv'
  OBVIOUS
<1>1. IInv' /\ CallsCounted'
  BY NextIInv, CallsStep DEF LoneInv, IInv
<1>2. Lone' => NothingPositive'
  BY LoneBefore, NothingPositiveStep DEF LoneInv, IInv
<1> QED BY <1>1, <1>2 DEF LoneInv

(* Where nothing is positive, the counter is not below what rests. *)
LEMMA NeverBelow == LoneInv => LoneUpdaterNeverBelow
<1> SUFFICES ASSUME LoneInv, Lone
             PROVE  counter >= rest /\ \A t \in Thread : delta[t] <= 0
  BY DEF LoneUpdaterNeverBelow, Lone
<1>1. TypeOK /\ NothingPositive /\ Conservation
  BY DEF LoneInv, IInv
<1> DEFINE zero == [a \in Agent |-> 0]
<1>2. \A a \in Agent : zero[a] = 0 /\ zero[a] \in Int /\ agg[a] \in Int /\ agg[a] <= zero[a]
  BY <1>1 DEF TypeOK, NothingPositive
<1>3. \A t \in Thread : zero[t] = 0 /\ zero[t] \in Int /\ delta[t] \in Int /\ delta[t] <= zero[t]
  BY <1>1, Agents DEF TypeOK, NothingPositive
<1> HIDE DEF zero
<1>4. SumFunctionOnSet(zero, Agent) = 0 /\ SumFunctionOnSet(zero, Thread) = 0
  BY <1>2, <1>3, Agents, SumZero
<1>5. SumFunctionOnSet(agg, Agent) <= 0
  <2>1. SumFunctionOnSet(agg, Agent) <= SumFunctionOnSet(zero, Agent)
    BY ONLY <1>2, Agents, SumMonotone
  <2> QED BY <1>4, <2>1
<1>6. SumFunctionOnSet(delta, Thread) <= 0
  <2>1. SumFunctionOnSet(delta, Thread) <= SumFunctionOnSet(zero, Thread)
    BY ONLY <1>3, Agents, SumMonotone
  <2> QED BY <1>4, <2>1
<1>7. counter >= rest
  <2>1. /\ SumFunctionOnSet(delta, Thread) \in Int /\ SumFunctionOnSet(agg, Agent) \in Int
        /\ counter \in Int /\ rest \in Int
    BY <1>1, SumsAreIntegers, Agents DEF TypeOK
  <2> QED BY <1>1, <1>5, <1>6, <2>1 DEF Conservation
<1> QED BY <1>1, <1>7 DEF NothingPositive

(* With one updater, and the main thread behind it, no slot ever has the   *)
(* wrong sign, and update() never answers less than what rests.            *)
THEOREM LoneUpdaterCorrect == Spec => []LoneUpdaterNeverBelow
  BY InitLoneInv, NextLoneInv, NeverBelow, PTL DEF Spec

-----------------------------------------------------------------------------
(* While a worker is in update() something is still to be reported, and    *)
(* workers leave when nothing is.                                          *)
UpdatersHold ==
  /\ (\E t \in Thread : pc[t] \in InUpdate) => rest >= 1
  /\ (\E t \in Thread : pc[t] = "out") => rest = 0

(* Until the main thread has read the flag: when the last string has been  *)
(* reported, the flag is up or goes up, unless there is nothing to collect. *)
FlagKept ==
  pc[Main] \in {"ready", "test"} /\ rest = 0 =>
    \/ changed
    \/ \E t \in Thread : pc[t] = "flag"
    \/ \A t \in Thread : delta[t] = 0

(* The main thread alone empties one slot after the other. *)
MainCollects ==
  /\ pc[Main] \in {"scan", "take"} =>
       \A t \in Thread : t < slot[Main] => delta[t] = 0
  /\ pc[Main] = "take" => seen[Main] = delta[slot[Main]]
  /\ pc[Main] \in {"put", "clear", "out"} => \A t \in Thread : delta[t] = 0

(* The inductive invariant of NothingRests. *)
RestInv == IInv /\ CallsCounted /\ UpdatersHold /\ FlagKept /\ MainCollects

LEMMA UpdatersStep == TypeOK /\ UpdatersHold /\ [Next]_vars => UpdatersHold'
<1> SUFFICES ASSUME TypeOK, UpdatersHold, [Next]_vars PROVE UpdatersHold'
  OBVIOUS
<1> USE Agents DEF TypeOK, UpdatersHold, InUpdate
<1>1. ASSUME NEW t \in Thread, AddDelta(t) PROVE UpdatersHold'
  <2>1. rest' >= Held /\ rest' \in Int /\ Held \in Nat /\ rest \in Nat /\ rest' < rest
    BY <1>1, AddLeavesHeld, HeldCount
  <2>2. (\E u \in Thread : pc[u] \in InUpdate) => Held >= 1
    BY HeldCount
  <2>3. pc' = [pc EXCEPT ![t] = "flag"]
    BY <1>1 DEF AddDelta, GoTo
  <2>4. ASSUME NEW u \in Thread, pc'[u] \in InUpdate PROVE rest' >= 1
    <3>1. pc[u] \in InUpdate
      BY <2>3, <2>4
    <3> HIDE DEF Held
    <3> QED BY <2>1, <2>2, <3>1
  <2>5. ASSUME NEW u \in Thread, pc'[u] = "out" PROVE FALSE
    <3>1. pc[u] = "out"
      BY <2>3, <2>5
    <3>2. rest = 0
      BY <3>1
    <3>3. \E n \in 1 .. rest : TRUE
      BY <1>1, AddLeavesHeld
    <3> QED BY <3>2, <3>3
  <2> QED BY <2>4, <2>5
<1>2. ASSUME NEW t \in Thread, CallUpdate(t) PROVE UpdatersHold'
  <2>1. rest > Held /\ Held \in Nat /\ rest' = rest /\ pc' = [pc EXCEPT ![t] = "test"]
    BY <1>2, HeldCount DEF CallUpdate, GoTo
  <2> HIDE DEF Held
  <2>2. rest' >= 1 /\ rest # 0
    BY <2>1
  <2> QED BY <2>1, <2>2
<1>3. ASSUME NEW t \in Thread, AddFlag(t) \/ Leave(t) PROVE UpdatersHold'
  BY <1>3 DEF AddFlag, Leave, GoTo
<1>4. ASSUME CallFinalUpdate \/ UNCHANGED vars PROVE UpdatersHold'
  BY <1>4 DEF CallFinalUpdate, vars, GoTo
<1>5. ASSUME NEW a \in Agent, Update(a) PROVE UpdatersHold'
  <2>1. rest' = rest /\ pc[a] \in InUpdate
    BY <1>5 DEF Update, TestFlag, Scan, TakeDelta, ScanEnds, PutAggregate, ClearFlag, GoTo
  <2>2. \A t \in Thread \ {a} : pc'[t] = pc[t]
    BY <1>5 DEF Update, TestFlag, Scan, TakeDelta, ScanEnds, PutAggregate, ClearFlag, GoTo, Return
  <2>3. a \in Thread => pc'[a] # "out"
    BY <1>5 DEF Update, TestFlag, Scan, TakeDelta, ScanEnds, PutAggregate, ClearFlag, GoTo, Return
  <2> QED BY <2>1, <2>2, <2>3
<1> QED
  BY <1>1, <1>2, <1>3, <1>4, <1>5 DEF Next, Finished

LEMMA FlagStep ==
  TypeOK /\ CallsCounted /\ UpdatersHold /\ FlagKept /\ [Next]_vars => FlagKept'
<1> SUFFICES ASSUME TypeOK, CallsCounted, UpdatersHold, FlagKept, [Next]_vars PROVE FlagKept'
  OBVIOUS
<1> USE Agents DEF TypeOK
<1>1. ASSUME NEW t \in Thread, AddDelta(t) PROVE FlagKept'
  BY <1>1 DEF AddDelta, GoTo, FlagKept
<1>2. ASSUME NEW t \in Thread, AddFlag(t) PROVE FlagKept'
  BY <1>2 DEF AddFlag, FlagKept
<1>3. ASSUME NEW t \in Thread, CallUpdate(t) PROVE FlagKept'
  <2>1. rest > Held /\ Held \in Nat /\ rest' = rest
    BY <1>3, HeldCount DEF CallUpdate
  <2> HIDE DEF Held
  <2>2. rest' # 0
    BY <2>1
  <2> QED BY <2>2 DEF FlagKept
<1>4. ASSUME NEW t \in Thread, Leave(t) PROVE FlagKept'
  BY <1>4 DEF Leave, GoTo, FlagKept
<1>5. ASSUME CallFinalUpdate \/ UNCHANGED vars PROVE FlagKept'
  BY <1>5 DEF CallFinalUpdate, vars, GoTo, FlagKept
<1>6. ASSUME NEW t \in Thread, Update(t) PROVE FlagKept'
  <2>1. rest' = rest /\ pc[t] \in InUpdate
    BY <1>6 DEF Update, TestFlag, Scan, TakeDelta, ScanEnds, PutAggregate, ClearFlag, GoTo, InUpdate
  <2>2. rest' # 0
    BY <2>1 DEF UpdatersHold
  <2> QED BY <2>2 DEF FlagKept
<1>7. ASSUME Update(Main) PROVE FlagKept'
  <2>1. pc'[Main] \notin {"ready", "test"}
    BY <1>7 DEF Update, TestFlag, Scan, TakeDelta, ScanEnds, PutAggregate, ClearFlag, GoTo, Return
  <2> QED BY <2>1 DEF FlagKept
<1> QED
  BY <1>1, <1>2, <1>3, <1>4, <1>5, <1>6, <1>7 DEF Next, Finished

LEMMA SomeWorker == \E t \in Thread : TRUE
<1>1. 0 \in Thread
  BY LazyAssumption DEF Thread
<1> QED BY <1>1

LEMMA MainStep ==
  ASSUME Slots >= NumThreads, RestInv, [Next]_vars
  PROVE  MainCollects'
<1> USE Agents DEF TypeOK, IInv, RestInv
<1>1. ASSUME NEW t \in Thread, pc[t] # "out" PROVE pc[Main] = "ready"
  BY <1>1 DEF CallsCounted
<1>2. ASSUME NEW t \in Thread,
             AddDelta(t) \/ AddFlag(t) \/ CallUpdate(t) \/ Leave(t) \/ Update(t)
      PROVE  MainCollects'
  <2>1. pc[t] # "out" /\ pc'[Main] = pc[Main]
    BY <1>2 DEF AddDelta, AddFlag, CallUpdate, Leave, Update, TestFlag, Scan, TakeDelta,
         ScanEnds, PutAggregate, ClearFlag, GoTo, Return
  <2> QED BY <1>1, <2>1 DEF MainCollects
<1>3. ASSUME CallFinalUpdate PROVE MainCollects'
  BY <1>3 DEF CallFinalUpdate, GoTo, MainCollects
<1>4. ASSUME UNCHANGED vars PROVE MainCollects'
  BY <1>4 DEF vars, MainCollects
<1>5. ASSUME TestFlag(Main) PROVE MainCollects'
  <2>1. CASE changed
    BY <1>5, <2>1 DEF TestFlag, Return, MainCollects
  <2>2. CASE ~changed
    <3>1. \A t \in Thread : pc[t] = "out"
      BY <1>5 DEF TestFlag, CallsCounted
    <3>2. \E t \in Thread : TRUE
      BY ONLY SomeWorker
    <3>3. rest = 0 /\ ~ \E t \in Thread : pc[t] = "flag"
      BY <3>1, <3>2 DEF UpdatersHold
    <3>4. \A t \in Thread : delta[t] = 0
      BY <1>5, <2>2, <3>3 DEF TestFlag, FlagKept
    <3> QED BY <1>5, <2>2, <3>4 DEF TestFlag, Return, MainCollects
  <2> QED BY <2>1, <2>2
<1>6. ASSUME Scan(Main) PROVE MainCollects'
  BY <1>6 DEF Scan, MainCollects
<1>7. ASSUME TakeDelta(Main) PROVE MainCollects'
  <2>1. pc' = [pc EXCEPT ![Main] = "scan"] /\ pc[Main] = "take"
    BY <1>7 DEF TakeDelta, GoTo
  <2>2. /\ slot[Main] \in Thread /\ slot' = [slot EXCEPT ![Main] = slot[Main] + 1]
        /\ delta' = [delta EXCEPT ![slot[Main]] = delta[slot[Main]] - seen[Main]]
        /\ seen[Main] = delta[slot[Main]]
    BY <1>7, <2>1 DEF TakeDelta, TakesFromWorker, MainCollects
  <2>3. \A t \in Thread : t < slot[Main] => delta[t] = 0
    BY <2>1 DEF MainCollects
  <2>4. ASSUME NEW t \in Thread, t < slot'[Main] PROVE delta'[t] = 0
    <3>1. CASE t = slot[Main]
      BY <2>2, <3>1
    <3>2. CASE t # slot[Main]
      BY <2>2, <2>3, <2>4, <3>2
    <3> QED BY <3>1, <3>2
  <2> QED BY <2>1, <2>4 DEF MainCollects
<1>8. ASSUME ScanEnds(Main) PROVE MainCollects'
  <2>1. /\ pc' = [pc EXCEPT ![Main] = "put"] /\ pc[Main] = "scan" /\ delta' = delta
        /\ slot[Main] = Slots
    BY <1>8 DEF ScanEnds, GoTo
  <2>2. \A t \in Thread : t < Slots
    BY DEF Thread
  <2> QED BY <2>1, <2>2 DEF MainCollects
<1>9. ASSUME PutAggregate(Main) \/ ClearFlag(Main) PROVE MainCollects'
  BY <1>9 DEF PutAggregate, ClearFlag, GoTo, Return, MainCollects
<1> QED
  BY <1>2, <1>3, <1>4, <1>5, <1>6, <1>7, <1>8, <1>9 DEF Next, Update, Finished

LEMMA InitRestInv == Init => RestInv
<1> SUFFICES ASSUME Init PROVE RestInv
  OBVIOUS
<1>1. CallsCounted /\ UpdatersHold /\ FlagKept /\ MainCollects
  BY Agents DEF Init, CallsCounted, InUpdate, UpdatersHold, FlagKept, MainCollects
<1> QED BY <1>1, InitIInv DEF RestInv

LEMMA NextRestInv ==
  ASSUME Slots >= NumThreads, RestInv, [Next]_vars PROVE RestInv'
<1>1. IInv' /\ CallsCounted'
  BY NextIInv, CallsStep DEF RestInv, IInv
<1>2. UpdatersHold' /\ FlagKept'
  BY UpdatersStep, FlagStep DEF RestInv, IInv
<1> QED BY <1>1, <1>2, MainStep DEF RestInv

(* Slots and aggregates are empty when the main thread is done. *)
LEMMA NothingLeft == RestInv => NothingRests
<1> SUFFICES ASSUME RestInv, pc[Main] = "out" PROVE counter = 0
  BY DEF NothingRests
<1>1. \A t \in Thread : pc[t] = "out"
  BY DEF RestInv, CallsCounted
<1>2. rest = 0
  <2>1. \E t \in Thread : TRUE
    BY SomeWorker
  <2> QED BY <1>1, <2>1 DEF RestInv, UpdatersHold
<1>3. \A t \in Thread : delta[t] = 0
  BY DEF RestInv, MainCollects
<1>4. \A a \in Agent : agg[a] = 0
  BY <1>1, Agents DEF RestInv, IInv, AggregatesInFlight
<1>5. SumFunctionOnSet(delta, Thread) = 0 /\ SumFunctionOnSet(agg, Agent) = 0
  BY <1>3, <1>4, Agents, SumZero
<1> QED BY <1>2, <1>5 DEF RestInv, IInv, Conservation, TypeOK

(* If there is a slot for every worker, the assertion of the main thread   *)
(* holds, although flags are lost in between.                              *)
THEOREM NothingRestsCorrect ==
  ASSUME Slots >= NumThreads PROVE Spec => []NothingRests
<1>1. RestInv /\ [Next]_vars => RestInv'
  BY NextRestInv
<1> QED BY <1>1, InitRestInv, NothingLeft, PTL DEF Spec
=============================================================================
