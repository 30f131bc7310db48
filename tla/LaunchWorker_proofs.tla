-------------------------- MODULE LaunchWorker_proofs --------------------------
(***************************************************************************)
(* The launch lane's invariants, for every ring size and every set of      *)
(* launches.  The heart is the order of the ring: it is proved by distance *)
(* from the head, where wrap-around is a case split instead of a modulus.  *)
(* Then the refinement: the ring, read from its head, is LaunchQueue.      *)
(***************************************************************************)
EXTENDS LaunchWorker, FiniteSetTheorems, SequenceTheorems, TLAPS

\* How far slot i is behind the head: the inverse of At.
Dist(i) == IF i >= head THEN i - head ELSE i - head + kSlots

\* The ring's order by distance.
InRing == \A i \in Slots : slots[i].state # "Empty" <=> Dist(i) < count

Sorted == \A i, j \in Slots :
             Dist(i) < Dist(j) /\ Dist(j) < count
               => Progress[slots[i].state] >= Progress[slots[j].state]

Pinned == /\ \A i \in Slots : slots[i].state = "Running" <=> running = i
          /\ running # -1 <=> pc \in {"launch", "publish"}

\* Where the UI thread may be, and what an absent thread leaves behind.
UiShape == /\ ui \in {"stopping", "scan", "destroy"} => Joinable /\ stop
           /\ stop => Joinable
           /\ ~Joinable => count = 0

\* A wait that ran out is remembered by the scan that follows it.
WaitShape == /\ waits <= 1
             /\ ui = "stopping" /\ bounded => ~waitedOut /\ waits = 0
             /\ Joinable /\ waits = 1 => waitedOut \/ (ui = "scan" /\ bounded)

\* What the scan saw stays true: a stopped worker begins nothing.
ScanHolds == Joinable /\ report = "Exiting" => stop /\ running = -1

\* No window, no queue; and a host is destroyed without one.
NoQueue == /\ target # "set" => posted = 0
           /\ ui = "destroy" => target # "set"

RingInv == /\ TypeOK
           /\ InRing
           /\ Sorted
           /\ Pinned
           /\ UiShape
           /\ WaitShape
           /\ ScanHolds
           /\ LaunchesAreWoken
           /\ ResultsArePosted

IInv == RingInv /\ OneMessage /\ NoQueue

-----------------------------------------------------------------------------
(* Arithmetic of the ring.                                                 *)

LEMMA SizeFacts == kSlots \in Nat \ {0} /\ Slots = 0 .. kSlots - 1 /\ -1 \notin Slots
  BY LaunchAssumption DEF Slots

LEMMA EmptySlotFacts == /\ EmptySlots \in [Slots -> Slot]
                        /\ \A i \in Slots : EmptySlots[i] = EmptySlot
                        /\ EmptySlot \in Slot
                        /\ EmptySlot.state = "Empty"
  BY DEF EmptySlots, EmptySlot, Slot, SlotStates

LEMMA ProgressFacts == /\ Progress["Complete"] = 3
                       /\ Progress["Running"] = 2
                       /\ Progress["Queued"] = 1
  BY DEF Progress

\* At and Dist are inverse to each other.
LEMMA AtFacts ==
  ASSUME head \in Slots
  PROVE  /\ \A p \in Slots : At(p) \in Slots /\ Dist(At(p)) = p
         /\ \A i \in Slots : Dist(i) \in Slots /\ At(Dist(i)) = i
  <1>1. \A p \in Slots : At(p) = IF head + p < kSlots THEN head + p
                                                      ELSE head + p - kSlots
    BY SizeFacts DEF At
  <1>2. \A i \in Slots : Dist(i) \in Slots
    BY SizeFacts DEF Dist
  <1>3. \A p \in Slots : At(p) \in Slots /\ Dist(At(p)) = p
    BY <1>1, SizeFacts DEF Dist
  <1>4. \A i \in Slots : At(Dist(i)) = i
    BY <1>1, <1>2, SizeFacts DEF Dist
  <1> QED BY <1>2, <1>3, <1>4

\* The same facts in the terms of arithmetic.
LEMMA Measures ==
  ASSUME TypeOK
  PROVE  /\ kSlots \in Nat \ {0} /\ -1 \notin Slots
         /\ count \in Nat /\ count <= kSlots
         /\ head \in Slots /\ Dist(head) = 0
         /\ \A i \in Slots : /\ i \in Nat /\ i < kSlots
                             /\ Dist(i) \in Nat /\ Dist(i) < kSlots
                             /\ At(Dist(i)) = i
         /\ \A p \in Nat : p < kSlots => /\ p \in Slots /\ At(p) \in Slots
                                         /\ Dist(At(p)) = p
  <1>1. head \in Slots /\ count \in 0 .. kSlots
    BY DEF TypeOK
  <1>2. Dist(head) = 0
    BY <1>1, SizeFacts DEF Dist
  <1>3. \A i \in Slots : i \in Nat /\ i < kSlots
    BY SizeFacts
  <1>4. \A p \in Nat : p < kSlots => p \in Slots
    BY SizeFacts
  <1>5. count \in Nat /\ count <= kSlots
    BY <1>1, SizeFacts
  <1> HIDE DEF TypeOK
  <1> QED BY <1>1, <1>2, <1>3, <1>4, <1>5, AtFacts, SizeFacts

\* The order by distance is the order of the ring.
LEMMA RingFromDist == TypeOK /\ InRing /\ Sorted /\ Pinned => RingIsInOrder
  <1> SUFFICES ASSUME TypeOK, InRing, Sorted, Pinned PROVE RingIsInOrder
    OBVIOUS
  <1>1. head \in Slots /\ count \in 0 .. kSlots
    BY DEF TypeOK
  <1>2. 0 .. kSlots - 1 = Slots /\ 0 .. count - 1 \subseteq Slots
    BY <1>1, SizeFacts DEF Slots
  <1>3. \A p \in Slots : slots[At(p)].state # "Empty" <=> p < count
    BY <1>1, AtFacts DEF InRing
  <1>4. \A p, q \in 0 .. count - 1 :
           p < q => Progress[slots[At(p)].state] >= Progress[slots[At(q)].state]
    <2> SUFFICES ASSUME NEW p \in 0 .. count - 1, NEW q \in 0 .. count - 1, p < q
                 PROVE  Progress[slots[At(p)].state]
                          >= Progress[slots[At(q)].state]
      OBVIOUS
    <2>1. At(p) \in Slots /\ At(q) \in Slots /\ Dist(At(p)) = p /\ Dist(At(q)) = q
      BY <1>1, <1>2, AtFacts
    <2>2. q < count
      BY <1>1
    <2> QED BY <2>1, <2>2 DEF Sorted
  <1> QED BY <1>2, <1>3, <1>4 DEF RingIsInOrder, Pinned

-----------------------------------------------------------------------------
\* The initial state satisfies the inductive invariant.
LEMMA InitInv == Init => IInv
  <1> SUFFICES ASSUME Init PROVE IInv
    OBVIOUS
  <1>1. TypeOK
    <2>1. slots \in [Slots -> Slot]
      BY EmptySlotFacts DEF Init
    <2>2. head \in Slots /\ count \in 0 .. kSlots
      BY SizeFacts DEF Init
    <2> QED BY <2>1, <2>2 DEF Init, TypeOK, ThreadStates, UiStates, Reports
  <1>2. \A i \in Slots : slots[i].state = "Empty" /\ ~(Dist(i) < count)
    <2>1. \A i \in Slots : Dist(i) \in Slots
      BY <1>1, AtFacts DEF TypeOK
    <2>2. \A i \in Slots : ~(Dist(i) < count)
      BY <2>1, SizeFacts DEF Init
    <2> QED BY <2>2, EmptySlotFacts DEF Init
  <1>3. InRing /\ Sorted /\ Pinned
    BY <1>2, SizeFacts DEF InRing, Sorted, Pinned, Init
  <1>4. UiShape /\ WaitShape /\ ScanHolds /\ LaunchesAreWoken /\ ResultsArePosted
    BY <1>2 DEF Init, UiShape, WaitShape, ScanHolds, LaunchesAreWoken,
                ResultsArePosted, InState, Joinable
  <1>5. OneMessage /\ NoQueue
    BY DEF Init, OneMessage, Posting, NoQueue
  <1> QED BY <1>1, <1>3, <1>4, <1>5 DEF IInv, RingInv

\* Steps that leave the ring alone leave its order alone.
LEMMA RingKept ==
  ASSUME InRing, Sorted, slots' = slots, head' = head, count' = count
  PROVE  InRing' /\ Sorted'
  BY DEF InRing, Sorted, Dist

\* A stop or a destruction that has joined leaves an empty ring.
LEMMA ResetEmpties ==
  ASSUME TypeOK, Reset, running' = running, running = -1
  PROVE  /\ slots' \in [Slots -> Slot]
         /\ \A i \in Slots : slots'[i].state = "Empty"
         /\ InRing' /\ Sorted'
  <1>1. \A i \in Slots : slots'[i].state = "Empty"
    BY EmptySlotFacts DEF Reset
  <1>2. \A i \in Slots : Dist(i)' = i
    BY SizeFacts DEF Reset, Dist
  <1>3. count' = 0
    BY DEF Reset
  <1>4. InRing' /\ Sorted'
    BY <1>1, <1>2, <1>3, SizeFacts DEF InRing, Sorted
  <1> QED BY <1>1, <1>4, EmptySlotFacts DEF Reset

\* A request, by whichever thread, keeps the count of messages.
LEMMA MessageStep ==
  ASSUME TypeOK, OneMessage, NoQueue, [Next]_vars
  PROVE  OneMessage' /\ NoQueue'
  <1> USE DEF ringVars, threadVars, postVars, stopVars, OneMessage, NoQueue, Posting,
              TypeOK
  <1>1. CASE UNCHANGED vars
    BY <1>1 DEF vars
  <1>2. CASE Signal \/ \E l \in Launches : Enqueue(l)
    BY <1>2 DEF Signal, Enqueue, Joinable
  <1>3. CASE Receive \/ DrainBegin
    BY <1>3 DEF Receive, DrainBegin
  <1>4. CASE DrainLog \/ DrainEnd
    BY <1>4 DEF DrainLog, DrainEnd
  <1>5. CASE \/ \E positive \in BOOLEAN : StopBegin(positive)
             \/ StopJoins \/ StopTimesOut \/ StopScan
    BY <1>5 DEF StopBegin, StopJoins, StopTimesOut, StopScan, Reset
  <1>6. CASE Destroy \/ Destroyed
    BY <1>6 DEF Destroy, Destroyed, Reset
  <1>7. CASE Wait \/ Pick \/ PickNothing \/ LaunchReturns \/ Publish
    BY <1>7 DEF Wait, Pick, PickNothing, LaunchReturns, Publish
  <1>8. CASE LaneRequest
    BY <1>8 DEF LaneRequest, Notify, LaneAt, Exchange, Post, PostFails
  <1>9. CASE OtherRequest
    BY <1>9 DEF OtherRequest, OtherAt, Exchange, Post, PostFails
  <1>10. CASE SetTarget \/ ClearTarget
    BY <1>10 DEF SetTarget, ClearTarget
  <1> QED
    BY <1>1, <1>2, <1>3, <1>4, <1>5, <1>6, <1>7, <1>8, <1>9, <1>10
       DEF Next, Drain, Stopping, Worker

\* Every step preserves the inductive invariant: one step per action.
LEMMA NextInv == IInv /\ [Next]_vars => IInv'
  <1> SUFFICES ASSUME IInv, [Next]_vars PROVE RingInv'
    BY MessageStep DEF IInv, RingInv
  <1> USE DEF IInv, RingInv, ringVars, threadVars, postVars, stopVars, Posting
  <1>1. CASE Signal
    <2>1. InRing' /\ Sorted' /\ slots' = slots
      BY <1>1, RingKept DEF Signal
    <2>2. TypeOK' /\ Pinned'
      BY <1>1 DEF Signal, TypeOK, Pinned, ThreadStates, UiStates, Reports
    <2>3. UiShape' /\ WaitShape' /\ ScanHolds'
      BY <1>1, <2>1 DEF Signal, UiShape, WaitShape, ScanHolds, Pinned, Joinable, TypeOK,
                       InState
    <2>7. LaunchesAreWoken' /\ ResultsArePosted'
      BY <1>1 DEF Signal, LaunchesAreWoken, ResultsArePosted, InState, TypeOK, UiShape,
                  Joinable
    <2> QED BY <2>1, <2>2, <2>3, <2>7
  <1>2. CASE Receive \/ DrainBegin \/ SetTarget \/ ClearTarget
    <2>1. /\ UNCHANGED <<ringVars, stop, wake, waitedOut, threadVars, other, lost, logging,
                         stopVars>>
          /\ ui \in {"idle", "ack"} /\ ui' \in {"idle", "ack", "drain"}
      BY <1>2 DEF Receive, DrainBegin, SetTarget, ClearTarget
    <2>2. InRing' /\ Sorted'
      BY <2>1, RingKept
    <2>3. target' \in {"unset", "set", "cleared"} /\ pending' \in BOOLEAN
      BY <1>2, Zenon DEF Receive, DrainBegin, SetTarget, ClearTarget, TypeOK
    <2>4. posted' \in Nat
      BY <1>2 DEF Receive, DrainBegin, SetTarget, ClearTarget, TypeOK
    <2>5. TypeOK'
      BY <2>1, <2>3, <2>4 DEF TypeOK, UiStates
    <2>6. Pinned' /\ UiShape' /\ WaitShape' /\ ScanHolds'
      BY <2>1 DEF Pinned, UiShape, WaitShape, ScanHolds, Joinable
    <2>7. LaunchesAreWoken'
      BY <2>1 DEF LaunchesAreWoken, InState
    <2>8. ResultsArePosted'
      BY <1>2, <2>1 DEF Receive, DrainBegin, SetTarget, ClearTarget, ResultsArePosted, InState,
                        TypeOK
    <2> QED BY <2>2, <2>5, <2>6, <2>7, <2>8
  <1>3. CASE DrainEnd
    <2>1. InRing' /\ Sorted' /\ slots' = slots
      BY <1>3, RingKept DEF DrainEnd
    <2>2. TypeOK' /\ Pinned'
      BY <1>3 DEF DrainEnd, TypeOK, Pinned, ThreadStates, UiStates, Reports
    <2>3. UiShape' /\ WaitShape' /\ ScanHolds'
      BY <1>3, <2>1 DEF DrainEnd, UiShape, WaitShape, ScanHolds, Pinned, Joinable, TypeOK,
                       InState
    <2>6. InState("Complete") = {}
      <3> SUFFICES ASSUME NEW i \in Slots, slots[i].state = "Complete" PROVE FALSE
        BY DEF InState
      <3>1. /\ head \in Slots /\ Dist(head) = 0
            /\ Dist(i) \in Nat /\ count \in Nat /\ Dist(i) < count
            /\ Dist(i) = 0 => i = head
        BY Measures DEF InRing
      <3>2. slots[head].state # "Empty" /\ slots[head].state # "Complete"
        BY <1>3, <3>1 DEF DrainEnd, InRing
      <3>3. slots[head].state \in {"Queued", "Running"}
        BY <3>1, <3>2 DEF TypeOK, Slot, SlotStates
      <3>4. Dist(head) < Dist(i)
        BY <3>1, <3>2
      <3>5. Progress[slots[head].state] >= Progress[slots[i].state]
        BY <3>1, <3>4 DEF Sorted
      <3> QED BY <3>3, <3>5, ProgressFacts
    <2>7. LaunchesAreWoken' /\ ResultsArePosted'
      BY <1>3, <2>6 DEF DrainEnd, LaunchesAreWoken, ResultsArePosted, InState
    <2> QED BY <2>1, <2>2, <2>3, <2>7
  <1>4. CASE \E positive \in BOOLEAN : StopBegin(positive)
    <2>1. InRing' /\ Sorted' /\ slots' = slots
      BY <1>4, RingKept DEF StopBegin
    <2>2. TypeOK' /\ Pinned'
      BY <1>4 DEF StopBegin, TypeOK, Pinned, ThreadStates, UiStates, Reports
    <2>3. UiShape' /\ ScanHolds'
      BY <1>4 DEF StopBegin, UiShape, ScanHolds, Joinable
    <2>4. waits \in {0, 1} /\ (waits = 1 => waitedOut)
      BY <1>4 DEF StopBegin, WaitShape, TypeOK
    <2>5. WaitShape'
      <3>1. PICK positive \in BOOLEAN : StopBegin(positive)
        BY <1>4
      <3>2. waits' = waits /\ waitedOut' = waitedOut /\ ui' = "stopping"
        BY <3>1 DEF StopBegin
      <3>3. bounded' => ~waitedOut
        BY <3>1 DEF StopBegin
      <3>4. bounded' => waits = 0
        BY <2>4, <3>3
      <3>5. waits <= 1
        BY DEF WaitShape
      <3> QED BY <2>4, <3>2, <3>3, <3>4, <3>5 DEF WaitShape
    <2>7. LaunchesAreWoken' /\ ResultsArePosted'
      BY <1>4 DEF StopBegin, LaunchesAreWoken, ResultsArePosted, InState, TypeOK, UiShape,
                  Joinable
    <2> QED BY <2>1, <2>2, <2>3, <2>5, <2>7
  <1>5. CASE StopTimesOut
    <2>1. InRing' /\ Sorted' /\ slots' = slots
      BY <1>5, RingKept DEF StopTimesOut
    <2>3. waits' \in Nat /\ WaitShape'
      BY <1>5 DEF StopTimesOut, UiShape, WaitShape, Joinable, TypeOK
    <2>4. UiShape' /\ ScanHolds'
      BY <1>5 DEF StopTimesOut, UiShape, ScanHolds, Joinable
    <2>2. TypeOK' /\ Pinned'
      BY <1>5, <2>3 DEF StopTimesOut, TypeOK, Pinned, ThreadStates, UiStates, Reports
    <2>7. LaunchesAreWoken' /\ ResultsArePosted'
      BY <1>5 DEF StopTimesOut, LaunchesAreWoken, ResultsArePosted, InState, TypeOK, UiShape,
                  Joinable
    <2> QED BY <2>1, <2>2, <2>3, <2>4, <2>7
  <1>6. CASE StopScan
    <2>1. InRing' /\ Sorted' /\ slots' = slots
      BY <1>6, RingKept DEF StopScan
    <2>2. TypeOK' /\ Pinned'
      BY <1>6 DEF StopScan, TypeOK, Pinned, ThreadStates, UiStates, Reports
    <2>3. UiShape' /\ WaitShape'
      BY <1>6 DEF StopScan, UiShape, WaitShape, Joinable, TypeOK
    <2>4. InState("Running") = {} => running = -1
      BY SizeFacts DEF InState, Pinned, TypeOK
    <2>5. ScanHolds'
      BY <1>6, <2>4 DEF StopScan, ScanHolds, UiShape, Joinable
    <2>7. LaunchesAreWoken' /\ ResultsArePosted'
      BY <1>6 DEF StopScan, LaunchesAreWoken, ResultsArePosted, InState, TypeOK, UiShape,
                  Joinable
    <2> QED BY <2>1, <2>2, <2>3, <2>5, <2>7
  <1>7. CASE Destroy
    <2>1. InRing' /\ Sorted' /\ slots' = slots
      BY <1>7, RingKept DEF Destroy
    <2>2. TypeOK' /\ Pinned'
      BY <1>7 DEF Destroy, TypeOK, Pinned, ThreadStates, UiStates, Reports
    <2>3. UiShape' /\ WaitShape' /\ ScanHolds'
      BY <1>7, <2>1 DEF Destroy, UiShape, WaitShape, ScanHolds, Pinned, Joinable, TypeOK,
                       InState
    <2>7. LaunchesAreWoken' /\ ResultsArePosted'
      BY <1>7 DEF Destroy, LaunchesAreWoken, ResultsArePosted, InState, TypeOK, UiShape,
                  Joinable
    <2> QED BY <2>1, <2>2, <2>3, <2>7
  <1>8. CASE Wait
    <2>1. InRing' /\ Sorted' /\ slots' = slots
      BY <1>8, RingKept DEF Wait
    <2>2. TypeOK' /\ Pinned'
      BY <1>8 DEF Wait, TypeOK, Pinned, ThreadStates, UiStates, Reports
    <2>3. UiShape' /\ WaitShape' /\ ScanHolds'
      BY <1>8, <2>1 DEF Wait, UiShape, WaitShape, ScanHolds, Pinned, Joinable, TypeOK,
                       InState
    <2>7. LaunchesAreWoken' /\ ResultsArePosted'
      BY <1>8 DEF Wait, LaunchesAreWoken, ResultsArePosted, InState, TypeOK, UiShape,
                  Joinable
    <2> QED BY <2>1, <2>2, <2>3, <2>7
  <1>9. CASE PickNothing
    <2>1. InRing' /\ Sorted' /\ slots' = slots
      BY <1>9, RingKept DEF PickNothing
    <2>2. TypeOK' /\ Pinned'
      BY <1>9 DEF PickNothing, TypeOK, Pinned, ThreadStates, UiStates, Reports
    <2>3. UiShape' /\ WaitShape' /\ ScanHolds'
      BY <1>9, <2>1 DEF PickNothing, UiShape, WaitShape, ScanHolds, Pinned, Joinable, TypeOK,
                       InState
    <2>6. Queued = {} => InState("Queued") = {}
      <3> SUFFICES ASSUME NEW i \in Slots, slots[i].state = "Queued"
                   PROVE  Dist(i) \in Queued
        BY DEF InState
      <3>1. Dist(i) \in Nat /\ At(Dist(i)) = i /\ count \in Nat /\ Dist(i) < count
        BY Measures DEF InRing
      <3>2. Dist(i) \in 0 .. count - 1
        BY <3>1
      <3> QED BY <3>1, <3>2 DEF Queued
    <2>7. LaunchesAreWoken' /\ ResultsArePosted'
      BY <1>9, <2>6 DEF PickNothing, LaunchesAreWoken, ResultsArePosted, InState
    <2> QED BY <2>1, <2>2, <2>3, <2>7
  <1>10. CASE LaunchReturns
    <2>1. InRing' /\ Sorted' /\ slots' = slots
      BY <1>10, RingKept DEF LaunchReturns
    <2>2. TypeOK' /\ Pinned'
      BY <1>10 DEF LaunchReturns, TypeOK, Pinned, ThreadStates, UiStates, Reports
    <2>3. UiShape' /\ WaitShape' /\ ScanHolds'
      BY <1>10, <2>1 DEF LaunchReturns, UiShape, WaitShape, ScanHolds, Pinned, Joinable, TypeOK,
                       InState
    <2>7. LaunchesAreWoken' /\ ResultsArePosted'
      BY <1>10 DEF LaunchReturns, LaunchesAreWoken, ResultsArePosted, InState, TypeOK, UiShape,
                  Joinable
    <2> QED BY <2>1, <2>2, <2>3, <2>7
  <1>11. CASE LaneRequest \/ OtherRequest
    <2>1. /\ UNCHANGED <<ringVars, stop, wake, waitedOut, running, ui, logging, stopVars, target>>
          /\ \/ pc' = pc
             \/ /\ pc \in {"notify", "exchange", "post"}
                /\ pc' \in {"exchange", "post", "pick"}
          /\ other' \in {"idle", "post"}
      BY <1>11 DEF LaneRequest, Notify, LaneAt, OtherRequest, OtherAt, Exchange, Post, PostFails,
                   TypeOK
    <2>2. InRing' /\ Sorted'
      BY <2>1, RingKept
    <2>3. ASSUME Notify PROVE pending' \in BOOLEAN /\ lost' \in BOOLEAN /\ posted' \in Nat
      BY <2>3, Zenon DEF Notify, TypeOK
    <2>4. ASSUME Exchange PROVE pending' \in BOOLEAN /\ lost' \in BOOLEAN /\ posted' \in Nat
      BY <2>4, Zenon DEF Exchange, TypeOK
    <2>5. ASSUME Post \/ PostFails
          PROVE  pending' \in BOOLEAN /\ lost' \in BOOLEAN /\ posted' \in Nat
      <3>1. pending' \in BOOLEAN /\ lost' \in BOOLEAN
        BY <2>5, Zenon DEF Post, PostFails, TypeOK
      <3>2. posted' \in Nat
        BY <2>5 DEF Post, PostFails, TypeOK
      <3> QED BY <3>1, <3>2
    <2>6. pending' \in BOOLEAN /\ lost' \in BOOLEAN /\ posted' \in Nat
      BY <1>11, <2>3, <2>4, <2>5 DEF LaneRequest, OtherRequest
    <2>7. pc' \in ThreadStates
      BY <2>1 DEF TypeOK, ThreadStates
    <2>8. TypeOK'
      BY <2>1, <2>6, <2>7 DEF TypeOK
    <2>9. Pinned' /\ UiShape' /\ WaitShape' /\ ScanHolds'
      BY <2>1 DEF Pinned, UiShape, WaitShape, ScanHolds, Joinable
    <2>10. LaunchesAreWoken'
      BY <2>1 DEF LaunchesAreWoken, InState
    <2>11. InState("Complete")' = InState("Complete")
      BY <2>1 DEF InState
    <2>13. ASSUME LaneRequest PROVE ResultsArePosted'
      <3>1. ASSUME Notify PROVE ResultsArePosted'
        BY <2>11, <3>1 DEF Notify, LaneAt, ResultsArePosted, TypeOK
      <3>2. ASSUME LaneAt("exchange", IF pending THEN "pick" ELSE "post"), Exchange
            PROVE  ResultsArePosted'
        <4>1. pending /\ target # "cleared" => other = "post" \/ posted > 0 \/ ui = "ack"
          BY <3>2 DEF LaneAt, OneMessage
        <4>2. ~pending => pc' = "post"
          BY <3>2 DEF LaneAt
        <4>3. UNCHANGED <<target, posted, other, ui>>
          BY <3>2 DEF LaneAt, Exchange
        <4> QED BY <4>1, <4>2, <4>3 DEF ResultsArePosted
      <3>3. ASSUME Post PROVE ResultsArePosted'
        BY <3>3 DEF Post, ResultsArePosted, TypeOK
      <3>4. ASSUME PostFails PROVE ResultsArePosted'
        BY <3>4 DEF PostFails, ResultsArePosted
      <3> QED BY <2>13, <3>1, <3>2, <3>3, <3>4 DEF LaneRequest
    <2>14. ASSUME OtherRequest PROVE ResultsArePosted'
      BY <2>14, <2>11 DEF OtherRequest, OtherAt, Exchange, Post, PostFails,
                          ResultsArePosted, OneMessage, TypeOK
    <2>12. ResultsArePosted'
      BY <1>11, <2>13, <2>14
    <2> QED BY <2>2, <2>8, <2>9, <2>10, <2>12
  <1>12. CASE StopJoins
    <2>1. running = -1
      BY <1>12 DEF StopJoins, Pinned
    <2>2. /\ slots' \in [Slots -> Slot] /\ InRing' /\ Sorted'
          /\ \A i \in Slots : slots'[i].state = "Empty"
      BY <1>12, <2>1, ResetEmpties DEF StopJoins
    <2>a. head' \in Slots /\ count' \in 0 .. kSlots
      BY <1>12, SizeFacts DEF StopJoins, Reset
    <2>3. TypeOK'
      BY <1>12, <2>a, <2>2 DEF StopJoins, Reset, TypeOK, ThreadStates, UiStates, Reports
    <2>4. Pinned' /\ UiShape' /\ ScanHolds'
      BY <1>12, <2>1, <2>2, SizeFacts
         DEF StopJoins, Reset, Pinned, UiShape, ScanHolds, Joinable
    <2>5. WaitShape'
      BY <1>12 DEF StopJoins, Reset, WaitShape, Joinable
    <2>6. LaunchesAreWoken' /\ ResultsArePosted'
      BY <2>2 DEF LaunchesAreWoken, ResultsArePosted, InState
    <2> QED BY <2>2, <2>3, <2>4, <2>5, <2>6
  <1>13. CASE Destroyed
    <2>1. running = -1
      BY <1>13 DEF Destroyed, Pinned
    <2>2. /\ slots' \in [Slots -> Slot] /\ InRing' /\ Sorted'
          /\ \A i \in Slots : slots'[i].state = "Empty"
      BY <1>13, <2>1, ResetEmpties DEF Destroyed
    <2>a. head' \in Slots /\ count' \in 0 .. kSlots
      BY <1>13, SizeFacts DEF Destroyed, Reset
    <2>3. TypeOK'
      BY <1>13, <2>a, <2>2 DEF Destroyed, Reset, TypeOK, ThreadStates, UiStates, Reports
    <2>4. Pinned' /\ UiShape' /\ ScanHolds'
      BY <1>13, <2>1, <2>2, SizeFacts
         DEF Destroyed, Reset, Pinned, UiShape, ScanHolds, Joinable
    <2>5. WaitShape'
      BY <1>13 DEF Destroyed, Reset, WaitShape, Joinable
    <2>6. LaunchesAreWoken' /\ ResultsArePosted'
      BY <2>2 DEF LaunchesAreWoken, ResultsArePosted, InState
    <2> QED BY <2>2, <2>3, <2>4, <2>5, <2>6
  <1>14. CASE Publish
    <2>1. running \in Slots /\ slots[running].state = "Running"
      BY <1>14 DEF Publish, Pinned, TypeOK
    <2>2. /\ slots' \in [Slots -> Slot]
          /\ slots'[running].state = "Complete"
          /\ \A i \in Slots \ {running} : slots'[i] = slots[i]
      BY <1>14, <2>1 DEF Publish, TypeOK, Slot, SlotStates
    <2>3. TypeOK' /\ Pinned'
      BY <1>14, <2>1, <2>2, SizeFacts
         DEF Publish, TypeOK, Pinned, ThreadStates, UiStates
    <2>4. head' = head /\ count' = count /\ \A i : Dist(i)' = Dist(i)
      BY <1>14 DEF Publish, Dist
    <2>5. InRing'
      BY <2>1, <2>2, <2>4 DEF InRing
    <2>6. \A i \in Slots : /\ slots[i].state \in SlotStates
                           /\ slots'[i].state \in SlotStates
      BY <2>2 DEF TypeOK, Slot
    <2>7. Sorted'
      <3> SUFFICES ASSUME NEW i \in Slots, NEW j \in Slots,
                          Dist(i) < Dist(j), Dist(j) < count
                   PROVE  Progress[slots'[i].state] >= Progress[slots'[j].state]
        BY <2>4 DEF Sorted
      <3>1. Progress[slots[i].state] >= Progress[slots[j].state]
        BY DEF Sorted
      <3>2. Dist(i) \in Nat /\ Dist(j) \in Nat /\ count \in Nat /\ i # j
        BY Measures
      <3>3. slots[i].state # "Empty" /\ slots[j].state # "Empty"
        BY <3>2 DEF InRing
      <3>4. slots'[i].state # "Empty" /\ slots'[j].state # "Empty"
        BY <2>1, <2>2, <3>3
      <3>5. CASE j = running
        <4>1. slots[i].state = "Complete"
          BY <2>1, <2>6, <3>1, <3>2, <3>3, <3>5, ProgressFacts DEF Pinned, SlotStates
        <4> QED BY <4>1, <2>2, <3>2, <3>5, ProgressFacts
      <3>6. CASE i = running
        BY <2>2, <2>6, <3>4, <3>6, ProgressFacts DEF SlotStates
      <3>7. CASE i # running /\ j # running
        BY <2>2, <3>1, <3>7
      <3> QED BY <3>5, <3>6, <3>7
    <2>8. UiShape' /\ WaitShape' /\ ScanHolds'
      BY <1>14 DEF Publish, UiShape, WaitShape, ScanHolds, Joinable
    <2>9. LaunchesAreWoken' /\ ResultsArePosted'
      BY <1>14 DEF Publish, LaunchesAreWoken, ResultsArePosted
    <2> QED BY <2>3, <2>5, <2>7, <2>8, <2>9
  <1>15. CASE Pick
    <2>1. PICK offset \in Queued :
             /\ \A q \in Queued : offset <= q
             /\ running' = At(offset)
             /\ slots' = [slots EXCEPT ![At(offset)].state = "Running"]
      BY <1>15 DEF Pick
    <2> DEFINE k == At(offset)
    <2>a. offset \in Nat /\ offset < count /\ slots[At(offset)].state = "Queued"
      BY Measures DEF Queued
    <2>2. /\ offset \in Nat /\ offset < count
          /\ k \in Slots /\ Dist(k) = offset /\ slots[k].state = "Queued"
      BY <2>a, Measures
    <2>3. /\ slots' \in [Slots -> Slot]
          /\ slots'[k].state = "Running"
          /\ \A i \in Slots \ {k} : slots'[i] = slots[i]
      BY <2>1, <2>2 DEF TypeOK, Slot, SlotStates
    <2>4. running = -1 /\ \A i \in Slots : slots[i].state # "Running"
      BY <1>15, SizeFacts DEF Pick, Pinned
    <2>5. TypeOK' /\ Pinned'
      BY <1>15, <2>1, <2>2, <2>3, <2>4, SizeFacts
         DEF Pick, TypeOK, Pinned, ThreadStates, UiStates
    <2>6. head' = head /\ count' = count /\ \A i : Dist(i)' = Dist(i)
      BY <1>15 DEF Pick, Dist
    <2>7. InRing'
      BY <2>2, <2>3, <2>6 DEF InRing
    <2>8. Sorted'
      <3> SUFFICES ASSUME NEW i \in Slots, NEW j \in Slots,
                          Dist(i) < Dist(j), Dist(j) < count
                   PROVE  Progress[slots'[i].state] >= Progress[slots'[j].state]
        BY <2>6 DEF Sorted
      <3>1. Progress[slots[i].state] >= Progress[slots[j].state]
        BY DEF Sorted
      <3>2. /\ Dist(i) \in Nat /\ Dist(j) \in Nat /\ count \in Nat /\ i # j
            /\ At(Dist(i)) = i
        BY Measures
      <3>a. Dist(i) < count /\ (Dist(i) \in 0 .. count - 1)
        BY <3>2
      <3>3. /\ slots[i].state \in {"Complete", "Queued"}
            /\ slots[j].state \in {"Complete", "Queued"}
        BY <2>4, <3>a DEF InRing, TypeOK, Slot, SlotStates
      <3>4. CASE j = k
        <4>1. Dist(i) \notin Queued
          BY <2>1, <2>2, <3>2, <3>4 DEF Queued
        <4>2. slots[i].state # "Queued"
          BY <4>1, <3>2, <3>a DEF Queued
        <4> QED BY <4>2, <2>3, <3>2, <3>3, <3>4, ProgressFacts
      <3>5. CASE i = k
        <4>1. slots[j].state = "Queued"
          BY <2>2, <3>1, <3>3, <3>5, ProgressFacts
        <4> QED BY <4>1, <2>3, <3>2, <3>5, ProgressFacts
      <3>6. CASE i # k /\ j # k
        BY <2>3, <3>1, <3>6
      <3> QED BY <3>4, <3>5, <3>6
    <2>9. UiShape' /\ WaitShape'
      BY <1>15 DEF Pick, UiShape, WaitShape, Joinable
    <2>10. ScanHolds'
      BY <1>15 DEF Pick, ScanHolds, Joinable
    <2>11. LaunchesAreWoken'
      BY <1>15 DEF Pick, LaunchesAreWoken
    <2>12. ResultsArePosted'
      <3>1. InState("Complete")' = InState("Complete")
        BY <2>2, <2>3 DEF InState
      <3> QED BY <3>1, <1>15 DEF Pick, ResultsArePosted
    <2> QED BY <2>5, <2>7, <2>8, <2>9, <2>10, <2>11, <2>12
  <1>16. CASE \E l \in Launches : Enqueue(l)
    <2>1. PICK l \in Launches : Enqueue(l)
      BY <1>16
    <2> DEFINE k == At(count)
    <2>a. count < kSlots
      BY <2>1 DEF Enqueue
    <2>2. /\ count \in Nat /\ kSlots \in Nat /\ k \in Slots /\ Dist(k) = count
          /\ \A i \in Slots : Dist(i) \in Nat /\ At(Dist(i)) = i
      BY <2>a, Measures
    <2>3. \A i \in Slots : Dist(i)' = Dist(i) /\ (Dist(i) = count => i = k)
      BY <2>1, <2>2 DEF Enqueue, Dist
    <2>4. /\ slots' \in [Slots -> Slot]
          /\ slots'[k].state = "Queued"
          /\ \A i \in Slots \ {k} : slots'[i] = slots[i]
      BY <2>1, <2>2 DEF Enqueue, TypeOK, Slot, SlotStates
    <2>5. slots[k].state = "Empty" /\ running # k
      <3>1. ~(Dist(k) < count)
        BY <2>2
      <3> QED BY <2>2, <3>1 DEF InRing, Pinned
    <2>6. count' = count + 1 /\ count' \in 0 .. kSlots
      BY <2>1, <2>2, <2>a DEF Enqueue
    <2>7. TypeOK'
      BY <2>1, <2>4, <2>6 DEF Enqueue, TypeOK, ThreadStates, UiStates, Reports
    <2>8. Pinned'
      BY <2>1, <2>4, <2>5 DEF Enqueue, Pinned, Joinable
    <2>9. InRing'
      <3> SUFFICES ASSUME NEW i \in Slots
                   PROVE  slots'[i].state # "Empty" <=> Dist(i) < count + 1
        BY <2>3, <2>6 DEF InRing
      <3>1. CASE i = k
        BY <2>2, <2>4, <3>1
      <3>2. CASE i # k
        <4>1. Dist(i) # count /\ Dist(i) \in Nat
          BY <2>2, <2>3, <3>2
        <4>2. Dist(i) < count + 1 <=> Dist(i) < count
          BY <4>1, <2>2
        <4> QED BY <4>2, <2>4, <3>2 DEF InRing
      <3> QED BY <3>1, <3>2
    <2>10. Sorted'
      <3> SUFFICES ASSUME NEW i \in Slots, NEW j \in Slots,
                          Dist(i) < Dist(j), Dist(j) < count + 1
                   PROVE  Progress[slots'[i].state] >= Progress[slots'[j].state]
        BY <2>3, <2>6 DEF Sorted
      <3>a. Dist(i) < count /\ i # k
        BY <2>2
      <3>1. slots'[i] = slots[i] /\ slots[i].state \in SlotStates \ {"Empty"}
        BY <2>4, <3>a DEF InRing, TypeOK, Slot
      <3>2. CASE j = k
        BY <2>4, <3>1, <3>2, ProgressFacts DEF SlotStates
      <3>3. CASE j # k
        <4>1. Dist(j) < count
          BY <2>2, <2>3, <3>3
        <4> QED BY <4>1, <2>4, <3>1, <3>3 DEF Sorted
      <3> QED BY <3>2, <3>3
    <2>11. WaitShape'
      BY <2>1 DEF Enqueue, WaitShape, Joinable, TypeOK
    <2>12. UiShape' /\ ScanHolds'
      BY <2>1 DEF Enqueue, UiShape, ScanHolds, Joinable
    <2>13. LaunchesAreWoken'
      BY <2>1 DEF Enqueue, LaunchesAreWoken
    <2>14. ResultsArePosted'
      <3>1. InState("Complete")' \subseteq InState("Complete")
        BY <2>2, <2>4 DEF InState
      <3>2. pc \in {"notify", "exchange", "post"} => pc' = pc
        BY <2>1 DEF Enqueue, Joinable
      <3> QED BY <2>1, <3>1, <3>2 DEF Enqueue, ResultsArePosted
    <2> QED BY <2>7, <2>8, <2>9, <2>10, <2>11, <2>12, <2>13, <2>14
  <1>17. CASE DrainLog
    <2>1. /\ head \in Slots /\ head \in Nat /\ kSlots \in Nat \ {0} /\ head < kSlots
          /\ count \in Nat /\ count > 0 /\ count <= kSlots
          /\ Dist(head) = 0
          /\ \A i \in Slots : /\ i \in Nat /\ i < kSlots
                              /\ Dist(i) \in Nat /\ Dist(i) < kSlots
                              /\ (Dist(i) = 0 => i = head)
      BY <1>17, Measures DEF DrainLog
    <2>2. /\ slots' \in [Slots -> Slot]
          /\ slots'[head].state = "Empty"
          /\ \A i \in Slots \ {head} : slots'[i] = slots[i]
      BY <1>17, <2>1, EmptySlotFacts DEF DrainLog, TypeOK
    <2>3. running # head /\ slots[head].launch \in Launches \union {NoLaunch}
      BY <1>17, <2>1 DEF DrainLog, Pinned, TypeOK, Slot
    <2>4. head' = (IF head + 1 < kSlots THEN head + 1 ELSE 0) /\ head' \in Nat
      <3>1. head' = (head + 1) % kSlots
        BY <1>17 DEF DrainLog
      <3> QED BY <2>1, <3>1
    <2>5. count' = count - 1 /\ count' \in Nat
      BY <1>17, <2>1 DEF DrainLog
    <2>6. head' \in Slots /\ count' \in 0 .. kSlots
      BY <2>1, <2>4, <2>5, SizeFacts
    <2> DEFINE D(i) == IF i >= head' THEN i - head' ELSE i - head' + kSlots
    <2>7. \A i \in Slots : Dist(i)' = D(i)
      BY DEF Dist
    <2>8. D(head) = kSlots - 1
      BY <2>1, <2>4 DEF Dist
    <2>9. \A i \in Slots \ {head} : D(i) = Dist(i) - 1
      BY <2>1, <2>4 DEF Dist
    <2>10. TypeOK'
      BY <1>17, <2>2, <2>3, <2>6 DEF DrainLog, TypeOK, UiStates
    <2>11. Pinned'
      BY <1>17, <2>1, <2>2, <2>3 DEF DrainLog, Pinned
    <2>12. InRing'
      <3>1. ~(D(head) < count')
        BY <2>1, <2>5, <2>8
      <3>2. \A i \in Slots \ {head} : D(i) < count' <=> Dist(i) < count
        BY <2>1, <2>5, <2>9
      <3> QED BY <2>1, <2>2, <2>7, <3>1, <3>2 DEF InRing
    <2>13. Sorted'
      <3> SUFFICES ASSUME NEW i \in Slots, NEW j \in Slots,
                          D(i) < D(j), D(j) < count'
                   PROVE  Progress[slots'[i].state] >= Progress[slots'[j].state]
        BY <2>7 DEF Sorted
      <3>1. j # head
        BY <2>1, <2>5, <2>8
      <3>2. D(j) < kSlots - 1
        BY <2>1, <2>9, <3>1
      <3>3. i # head
        BY <2>1, <2>8, <2>9, <3>1, <3>2
      <3>4. Dist(i) < Dist(j) /\ Dist(j) < count
        BY <2>1, <2>5, <2>9, <3>1, <3>3
      <3> QED BY <2>2, <3>1, <3>3, <3>4 DEF Sorted
    <2>14. UiShape' /\ WaitShape' /\ ScanHolds'
      BY <1>17, <2>1 DEF DrainLog, UiShape, WaitShape, ScanHolds, Joinable
    <2>15. LaunchesAreWoken' /\ ResultsArePosted'
      <3>1. InState("Queued")' \subseteq InState("Queued")
        BY <2>1, <2>2 DEF InState
      <3> QED BY <1>17, <3>1 DEF DrainLog, LaunchesAreWoken, ResultsArePosted
    <2> QED BY <2>10, <2>11, <2>12, <2>13, <2>14, <2>15
  <1>98. CASE UNCHANGED vars
    <2>1. InRing' /\ Sorted'
      BY <1>98, RingKept DEF vars
    <2> QED BY <1>98, <2>1
            DEF vars, TypeOK, Pinned, UiShape, WaitShape, ScanHolds,
                LaunchesAreWoken, ResultsArePosted, InState, Joinable
  <1> QED BY <1>1, <1>2, <1>3, <1>4, <1>5, <1>6, <1>7, <1>8, <1>9, <1>10, <1>11, <1>12, <1>13, <1>14, <1>15, <1>16, <1>17, <1>98
          DEF Next, Worker, Drain, Stopping

\* The inductive invariant holds in every reachable state.
THEOREM Invariance == Spec => []IInv
  <1> QED BY InitInv, NextInv, PTL DEF Spec

\* Types, for any ring and launches; count never exceeds the slots (Enqueue's
\* busy check and the drain's decrement).
THEOREM TypeCorrect == Spec => []TypeOK
  <1>1. IInv => TypeOK
    BY DEF IInv, RingInv
  <1> QED BY <1>1, Invariance, PTL

\* The ring stays in order while it wraps, is drained and is reset (Enqueue,
\* DrainCompletions, Worker and Stop share it).
THEOREM RingOrder == Spec => []RingIsInOrder
  <1>1. IInv => RingIsInOrder
    BY RingFromDist DEF IInv, RingInv
  <1> QED BY <1>1, Invariance, PTL

\* Stop's Exiting stays true of its worker.
THEOREM ExitingIsTruthful == Spec => []ExitingMeansNoLaunch
  <1>1. IInv => ExitingMeansNoLaunch
    BY DEF IInv, RingInv, ScanHolds, UiShape, ExitingMeansNoLaunch
  <1> QED BY <1>1, Invariance, PTL

\* Stop's bound is waited once per thread.
THEOREM OneBoundedWait == Spec => []StopWaitsOnce
  <1>1. IInv => StopWaitsOnce
    BY DEF IInv, RingInv, WaitShape, StopWaitsOnce
  <1> QED BY <1>1, Invariance, PTL

\* Enqueue strands no launch, and the worker no result: as long as the window is
\* there, only a request that found none or whose post failed leaves one behind,
\* until the next request, the worker's own or another thread's.
THEOREM NothingStranded == Spec => []NothingIsStranded
  <1>1. IInv => NothingIsStranded
    BY DEF IInv, RingInv, NothingIsStranded
  <1> QED BY <1>1, Invariance, PTL

-----------------------------------------------------------------------------
(* The abstract queue.  A ring is seen from outside its variables here: sl  *)
(* are its slots, h its head and n its count, before or after a step.       *)

AllLaunches == Launches \union {NoLaunch}
SlotAt(sl, h, p) == sl[(h + p) % kSlots]
Offsets(sl, h, n, s) == {p \in 0 .. n - 1 : SlotAt(sl, h, p).state = s}
Stretch(sl, h, first, n) == [k \in 1 .. n |-> SlotAt(sl, h, first + k - 1).launch]

\* Results up to offset c, waiting launches from offset b, and between them at
\* most the launch in progress.
Split(sl, h, n, c, b) ==
  /\ c \in Nat /\ b \in Nat /\ c <= b /\ b <= n
  /\ \A p \in 0 .. n - 1 : /\ SlotAt(sl, h, p).state = "Complete" <=> p < c
                           /\ SlotAt(sl, h, p).state = "Queued" <=> p >= b

RingSplits == \E c, b \in Nat : Split(slots, head, count, c, b)

\* What the mapping gives for the queue's variables.
Pending == IF IsOpen THEN Waiting ELSE <<>>
InLaunch == IF running = -1 THEN NoLaunch ELSE slots[running].launch

\* The ring's arithmetic.
LEMMA SlotAtFacts ==
  ASSUME NEW sl \in [Slots -> Slot], NEW h \in Slots, NEW p \in Nat
  PROVE  (h + p) % kSlots \in Slots /\ SlotAt(sl, h, p) \in Slot
  <1>1. (h + p) % kSlots \in Slots
    BY SizeFacts
  <1> QED BY <1>1 DEF SlotAt

LEMMA SlotAtWraps ==
  ASSUME NEW h \in Slots, NEW p \in Slots
  PROVE  (h + p) % kSlots = IF h + p < kSlots THEN h + p ELSE h + p - kSlots
  BY SizeFacts

\* A stretch of the ring is a sequence of launches.
LEMMA StretchIsSeq ==
  ASSUME NEW sl \in [Slots -> Slot], NEW h \in Slots, NEW first \in Nat, NEW n \in Nat
  PROVE  /\ Stretch(sl, h, first, n) \in Seq(AllLaunches)
         /\ Len(Stretch(sl, h, first, n)) = n
         /\ \A k \in 1 .. n : Stretch(sl, h, first, n)[k] = SlotAt(sl, h, first + k - 1).launch
  <1> DEFINE s == Stretch(sl, h, first, n)
  <1>1. \A k \in 1 .. n : SlotAt(sl, h, first + k - 1).launch \in AllLaunches
    <2> SUFFICES ASSUME NEW k \in 1 .. n PROVE SlotAt(sl, h, first + k - 1).launch \in AllLaunches
      OBVIOUS
    <2>1. first + k - 1 \in Nat
      OBVIOUS
    <2> QED BY <2>1, SlotAtFacts DEF Slot, AllLaunches
  <1>2. s \in [1 .. n -> AllLaunches] /\ \A k \in 1 .. n : s[k] = SlotAt(sl, h, first + k - 1).launch
    BY <1>1 DEF Stretch
  <1> HIDE DEF s
  <1>3. s \in Seq(AllLaunches)
    BY <1>2, SeqDef, Zenon
  <1>4. DOMAIN s = 1 .. n /\ DOMAIN s = 1 .. Len(s) /\ Len(s) \in Nat
    BY <1>2, <1>3, LenProperties
  <1>5. Len(s) = n
    BY <1>4
  <1> QED BY <1>2, <1>3, <1>5 DEF s

\* How many launches are answered, and how many wait.
LEMMA SplitSizes ==
  ASSUME NEW sl, NEW h, NEW n \in Nat, NEW c, NEW b, Split(sl, h, n, c, b)
  PROVE  /\ Cardinality(Offsets(sl, h, n, "Complete")) = c
         /\ Cardinality(Offsets(sl, h, n, "Queued")) = n - b
         /\ n - Cardinality(Offsets(sl, h, n, "Queued")) = b
  <1>1. c \in Nat /\ b \in Nat /\ c <= b /\ b <= n
    BY DEF Split
  <1>2. Offsets(sl, h, n, "Complete") = 0 .. c - 1
    BY <1>1 DEF Split, Offsets
  <1>3. Offsets(sl, h, n, "Queued") = b .. n - 1
    BY <1>1 DEF Split, Offsets
  <1>4. Cardinality(0 .. c - 1) = IF 0 > c - 1 THEN 0 ELSE c - 1 - 0 + 1
    BY <1>1, FS_Interval
  <1>5. Cardinality(b .. n - 1) = IF b > n - 1 THEN 0 ELSE n - 1 - b + 1
    BY <1>1, FS_Interval
  <1>6. Cardinality(Offsets(sl, h, n, "Complete")) = c
    BY <1>1, <1>2, <1>4
  <1>7. Cardinality(Offsets(sl, h, n, "Queued")) = n - b
    BY <1>1, <1>3, <1>5
  <1> QED BY <1>1, <1>6, <1>7

\* The two sequences of the mapping, before and after a step.
LEMMA MappedRing ==
  ASSUME TypeOK, NEW c, NEW b, Split(slots, head, count, c, b)
  PROVE  Results = Stretch(slots, head, 0, c) /\ Waiting = Stretch(slots, head, b, count - b)
  <1>1. Answered = Offsets(slots, head, count, "Complete") /\ Queued = Offsets(slots, head, count, "Queued")
    BY DEF Answered, Queued, Offsets, SlotAt, At
  <1>2. \A first, n : Part(first, n) = Stretch(slots, head, first, n)
    BY DEF Part, Stretch, SlotAt, At
  <1>3. count \in Nat
    BY SizeFacts DEF TypeOK
  <1> QED BY <1>1, <1>2, <1>3, SplitSizes DEF Results, Waiting

LEMMA MappedRingNext ==
  ASSUME TypeOK', NEW c, NEW b, Split(slots', head', count', c, b)
  PROVE  Results' = Stretch(slots', head', 0, c) /\ Waiting' = Stretch(slots', head', b, count' - b)
  <1>1. Answered' = Offsets(slots', head', count', "Complete") /\ Queued' = Offsets(slots', head', count', "Queued")
    BY DEF Answered, Queued, Offsets, SlotAt, At
  <1>2. Results' = Stretch(slots', head', 0, Cardinality(Offsets(slots', head', count', "Complete")))
    BY <1>1 DEF Results, Part, Stretch, SlotAt, At
  <1>3. Waiting' = Stretch(slots', head', count' - Cardinality(Offsets(slots', head', count', "Queued")),
                           Cardinality(Offsets(slots', head', count', "Queued")))
    BY <1>1 DEF Waiting, Part, Stretch, SlotAt, At
  <1>4. count' \in Nat
    BY SizeFacts DEF TypeOK
  <1>5. /\ Cardinality(Offsets(slots', head', count', "Complete")) = c
        /\ Cardinality(Offsets(slots', head', count', "Queued")) = count' - b
        /\ count' - Cardinality(Offsets(slots', head', count', "Queued")) = b
    BY <1>4, SplitSizes
  <1> QED BY <1>2, <1>3, <1>5

\* Sequences by length and elements.
LEMMA TailOf ==
  ASSUME NEW S, NEW s \in Seq(S), NEW t \in Seq(S), Len(s) > 0, Len(t) = Len(s) - 1,
         \A k \in 1 .. Len(t) : t[k] = s[k + 1]
  PROVE  s # <<>> /\ Head(s) = s[1] /\ t = Tail(s)
  <1>1. s # <<>>
    BY EmptySeq
  <1>2. Head(s) = s[1]
    BY <1>1
  <1>3. t = Tail(s)
    BY <1>1, HeadTailProperties, SeqEqual
  <1> QED BY <1>1, <1>2, <1>3

LEMMA AppendOf ==
  ASSUME NEW S, NEW s \in Seq(S), NEW t \in Seq(S), NEW e \in S, Len(t) = Len(s) + 1, t[Len(t)] = e,
         \A k \in 1 .. Len(s) : t[k] = s[k]
  PROVE  t = Append(s, e)
  <1>1. Append(s, e) \in Seq(S) /\ Len(Append(s, e)) = Len(s) + 1 /\ Len(s) \in Nat
    OBVIOUS
  <1>2. \A k \in 1 .. Len(t) : Append(s, e)[k] = t[k]
    BY <1>1
  <1> QED BY <1>1, <1>2, SeqEqual

\* Two rings, one of them after a step, that hold the same n launches.
Agree(tl, g, e, sl, h, f, n) ==
  \A p \in 0 .. n - 1 : SlotAt(tl, g, e + p).launch = SlotAt(sl, h, f + p).launch

LEMMA StretchSame ==
  ASSUME NEW sl, NEW h, NEW f \in Nat, NEW n \in Nat, NEW tl, NEW g, NEW e \in Nat,
         Agree(tl, g, e, sl, h, f, n)
  PROVE  Stretch(tl, g, e, n) = Stretch(sl, h, f, n)
  <1>1. \A k \in 1 .. n : SlotAt(tl, g, e + k - 1).launch = SlotAt(sl, h, f + k - 1).launch
    <2> SUFFICES ASSUME NEW k \in 1 .. n
                 PROVE  SlotAt(tl, g, e + k - 1).launch = SlotAt(sl, h, f + k - 1).launch
      OBVIOUS
    <2>1. k - 1 \in 0 .. n - 1 /\ e + (k - 1) = e + k - 1 /\ f + (k - 1) = f + k - 1
      OBVIOUS
    <2> QED BY <2>1 DEF Agree
  <1> QED BY <1>1 DEF Stretch

LEMMA StretchTail ==
  ASSUME NEW sl \in [Slots -> Slot], NEW h \in Slots, NEW f \in Nat, NEW n \in Nat,
         NEW tl \in [Slots -> Slot], NEW g \in Slots, NEW e \in Nat,
         Agree(tl, g, e, sl, h, f + 1, n)
  PROVE  /\ Stretch(sl, h, f, n + 1) # <<>>
         /\ Head(Stretch(sl, h, f, n + 1)) = SlotAt(sl, h, f).launch
         /\ Stretch(tl, g, e, n) = Tail(Stretch(sl, h, f, n + 1))
  <1> DEFINE s == Stretch(sl, h, f, n + 1)
             t == Stretch(tl, g, e, n)
  <1>1. s \in Seq(AllLaunches) /\ Len(s) = n + 1
        /\ \A k \in 1 .. n + 1 : s[k] = SlotAt(sl, h, f + k - 1).launch
    <2>1. n + 1 \in Nat
      OBVIOUS
    <2> QED BY <2>1, StretchIsSeq
  <1>2. t \in Seq(AllLaunches) /\ Len(t) = n /\ \A k \in 1 .. n : t[k] = SlotAt(tl, g, e + k - 1).launch
    BY StretchIsSeq
  <1> HIDE DEF s, t
  <1>3. \A k \in 1 .. n : t[k] = s[k + 1]
    <2> SUFFICES ASSUME NEW k \in 1 .. n PROVE t[k] = s[k + 1]
      OBVIOUS
    <2>1. f + 1 \in Nat /\ k + 1 \in 1 .. n + 1 /\ f + 1 + k - 1 = f + (k + 1) - 1
      OBVIOUS
    <2>2. SlotAt(tl, g, e + k - 1).launch = SlotAt(sl, h, f + 1 + k - 1).launch
      <3>1. k - 1 \in 0 .. n - 1 /\ e + (k - 1) = e + k - 1 /\ f + 1 + (k - 1) = f + 1 + k - 1
        OBVIOUS
      <3> QED BY <3>1 DEF Agree
    <2>3. t[k] = SlotAt(tl, g, e + k - 1).launch /\ s[k + 1] = SlotAt(sl, h, f + (k + 1) - 1).launch
      BY <1>1, <1>2, <2>1
    <2> QED BY <2>1, <2>2, <2>3
  <1>4. s # <<>> /\ Head(s) = s[1] /\ t = Tail(s)
    <2>1. s \in Seq(AllLaunches) /\ t \in Seq(AllLaunches)
      BY <1>1, <1>2
    <2>2. Len(s) > 0 /\ Len(t) = Len(s) - 1
      BY <1>1, <1>2
    <2>3. \A k \in 1 .. Len(t) : t[k] = s[k + 1]
      BY <1>2, <1>3
    <2> QED BY <2>1, <2>2, <2>3, TailOf
  <1>5. s[1] = SlotAt(sl, h, f).launch
    <2>1. f + 1 - 1 = f /\ 1 \in 1 .. n + 1
      OBVIOUS
    <2> QED BY <1>1, <2>1
  <1> QED BY <1>4, <1>5 DEF s, t

LEMMA StretchAppend ==
  ASSUME NEW sl \in [Slots -> Slot], NEW h \in Slots, NEW f \in Nat, NEW n \in Nat,
         NEW tl \in [Slots -> Slot], Agree(tl, h, f, sl, h, f, n)
  PROVE  Stretch(tl, h, f, n + 1) = Append(Stretch(sl, h, f, n), SlotAt(tl, h, f + n).launch)
  <1> DEFINE s == Stretch(sl, h, f, n)
             t == Stretch(tl, h, f, n + 1)
             x == SlotAt(tl, h, f + n).launch
  <1>1. s \in Seq(AllLaunches) /\ Len(s) = n /\ \A k \in 1 .. n : s[k] = SlotAt(sl, h, f + k - 1).launch
    BY StretchIsSeq
  <1>2. t \in Seq(AllLaunches) /\ Len(t) = n + 1
        /\ \A k \in 1 .. n + 1 : t[k] = SlotAt(tl, h, f + k - 1).launch
    <2>1. n + 1 \in Nat
      OBVIOUS
    <2> QED BY <2>1, StretchIsSeq
  <1>3. x \in AllLaunches
    BY SlotAtFacts DEF Slot, AllLaunches
  <1> HIDE DEF s, t
  <1>4. \A k \in 1 .. n : t[k] = s[k]
    <2> SUFFICES ASSUME NEW k \in 1 .. n PROVE t[k] = s[k]
      OBVIOUS
    <2>1. k \in 1 .. n + 1 /\ k - 1 \in 0 .. n - 1 /\ f + (k - 1) = f + k - 1
      OBVIOUS
    <2>2. SlotAt(tl, h, f + k - 1).launch = SlotAt(sl, h, f + k - 1).launch
      BY <2>1 DEF Agree
    <2> QED BY <1>1, <1>2, <2>1, <2>2
  <1>5. t[n + 1] = x
    <2>1. f + (n + 1) - 1 = f + n /\ n + 1 \in 1 .. n + 1
      OBVIOUS
    <2> QED BY <1>2, <2>1
  <1> HIDE DEF x
  <1>6. t = Append(s, x)
    <2>1. s \in Seq(AllLaunches) /\ t \in Seq(AllLaunches)
      BY <1>1, <1>2
    <2>2. Len(t) = Len(s) + 1 /\ t[Len(t)] = x
      BY <1>1, <1>2, <1>5
    <2>3. \A k \in 1 .. Len(s) : t[k] = s[k]
      BY <1>1, <1>4
    <2> QED BY <1>3, <2>1, <2>2, <2>3, AppendOf
  <1> QED BY <1>6 DEF s, t, x

LEMMA StretchEmpty ==
  ASSUME NEW sl \in [Slots -> Slot], NEW h \in Slots, NEW f \in Nat
  PROVE  Stretch(sl, h, f, 0) = <<>>
  BY StretchIsSeq, EmptySeq

\* One slot of the ring is written.
Written(sl, h, q, r) == [sl EXCEPT ![(h + q) % kSlots] = r]

LEMMA SlotWritten ==
  ASSUME NEW sl \in [Slots -> Slot], NEW h \in Slots, NEW q \in Slots, NEW r, NEW p \in Slots
  PROVE  SlotAt(Written(sl, h, q, r), h, p) = IF p = q THEN r ELSE SlotAt(sl, h, p)
  <1> DEFINE i == (h + p) % kSlots
             j == (h + q) % kSlots
  <1>1. /\ i = IF h + p < kSlots THEN h + p ELSE h + p - kSlots
        /\ j = IF h + q < kSlots THEN h + q ELSE h + q - kSlots
    BY SlotAtWraps
  <1>2. SlotAt(Written(sl, h, q, r), h, p) = [sl EXCEPT ![j] = r][i] /\ SlotAt(sl, h, p) = sl[i]
    BY DEF SlotAt, Written
  <1> HIDE DEF i, j
  <1>3. i \in Slots /\ j \in Slots /\ (i = j <=> p = q)
    BY <1>1, SizeFacts
  <1> QED BY <1>2, <1>3

LEMMA SlotAtHead ==
  ASSUME NEW sl, NEW h \in Slots
  PROVE  SlotAt(sl, h, 0) = sl[h]
  <1>1. PICK p \in Slots : p = 0
    BY SizeFacts
  <1> DEFINE i == (h + p) % kSlots
  <1>2. i = IF h + p < kSlots THEN h + p ELSE h + p - kSlots
    BY SlotAtWraps
  <1>3. SlotAt(sl, h, p) = sl[i]
    BY DEF SlotAt
  <1> HIDE DEF i
  <1>4. i = h
    BY <1>1, <1>2, SizeFacts
  <1> QED BY <1>1, <1>3, <1>4

\* The abstract queue's actions, by what the mapping makes of a step.
LEMMA QueueSame ==
  ASSUME IsOpen' = IsOpen, Pending' = Pending, InLaunch' = InLaunch, Results' = Results, logging' = logging
  PROVE  [Queue!Next]_(Queue!vars)
  BY DEF Queue!vars, Pending, InLaunch

LEMMA QueueOpens ==
  ASSUME NEW l \in Launches, ~IsOpen, IsOpen', InLaunch = NoLaunch, Results = <<>>, Pending' = <<l>>,
         InLaunch' = InLaunch, Results' = Results, logging' = logging
  PROVE  Queue!Next
  <1>1. Queue!Open(l)
    BY DEF Queue!Open, Pending, InLaunch
  <1> QED BY <1>1 DEF Queue!Next

LEMMA QueueSubmits ==
  ASSUME NEW l \in Launches, IsOpen, IsOpen', Pending' = Append(Pending, l),
         InLaunch' = InLaunch, Results' = Results, logging' = logging
  PROVE  Queue!Next
  <1>1. Queue!Submit(l)
    BY DEF Queue!Submit, Pending, InLaunch
  <1> QED BY <1>1 DEF Queue!Next

LEMMA QueueBegins ==
  ASSUME IsOpen, IsOpen', Pending # <<>>, InLaunch = NoLaunch, InLaunch' = Head(Pending),
         Pending' = Tail(Pending), Results' = Results, logging' = logging
  PROVE  Queue!Next
  <1>1. Queue!Begin
    BY DEF Queue!Begin, Pending, InLaunch
  <1> QED BY <1>1 DEF Queue!Next

LEMMA QueueFinishes ==
  ASSUME IsOpen' = IsOpen, InLaunch # NoLaunch, InLaunch' = NoLaunch, Results' = Append(Results, InLaunch),
         Pending' = Pending, logging' = logging
  PROVE  Queue!Next
  <1>1. Queue!Finish
    BY DEF Queue!Finish, Pending, InLaunch
  <1> QED BY <1>1 DEF Queue!Next

LEMMA QueueLogs ==
  ASSUME IsOpen' = IsOpen, Results # <<>>, logging' = Head(Results), Results' = Tail(Results),
         Pending' = Pending, InLaunch' = InLaunch
  PROVE  Queue!Next
  <1>1. Queue!Log
    BY DEF Queue!Log, Pending, InLaunch
  <1> QED BY <1>1 DEF Queue!Next

LEMMA QueueLogged ==
  ASSUME IsOpen' = IsOpen, Results' = Results, Pending' = Pending, InLaunch' = InLaunch,
         logging # NoLaunch, logging' = NoLaunch
  PROVE  Queue!Next
  <1>1. Queue!Logged
    BY DEF Queue!Logged, Pending, InLaunch
  <1> QED BY <1>1 DEF Queue!Next

LEMMA QueueCloses ==
  ASSUME IsOpen, ~IsOpen', Pending' = <<>>, Results' = Results, InLaunch' = InLaunch, logging' = logging
  PROVE  Queue!Next
  <1>1. Queue!Close
    BY DEF Queue!Close, Pending, InLaunch
  <1> QED BY <1>1 DEF Queue!Next

LEMMA QueueClears ==
  ASSUME ~IsOpen, IsOpen' = IsOpen, InLaunch = NoLaunch, InLaunch' = InLaunch, Results' = <<>>,
         Pending' = Pending, logging' = logging
  PROVE  Queue!Next
  <1>1. Queue!Clear
    BY DEF Queue!Clear, Pending, InLaunch
  <1> QED BY <1>1 DEF Queue!Next

\* A ring that is left alone.
LEMMA SameRing ==
  ASSUME slots' = slots, head' = head, count' = count
  PROVE  Results' = Results /\ Waiting' = Waiting /\ (RingSplits => RingSplits')
  BY DEF Results, Waiting, Part, Answered, Queued, At, RingSplits

\* What the inductive invariant says in terms of offsets.
LEMMA RingFacts ==
  ASSUME IInv
  PROVE  /\ slots \in [Slots -> Slot] /\ head \in Slots /\ count \in Nat /\ count <= kSlots
         /\ \A p \in Slots : SlotAt(slots, head, p).state # "Empty" <=> p < count
         /\ \A p \in Slots : SlotAt(slots, head, p).state = "Running" <=> running = (head + p) % kSlots
         /\ running # -1 => /\ running \in Slots /\ slots[running].state = "Running"
                            /\ \E r \in Slots : r < count /\ running = (head + r) % kSlots
         /\ running # -1 <=> pc \in {"launch", "publish"}
  <1>1. TypeOK
    BY DEF IInv, RingInv
  <1>2. slots \in [Slots -> Slot] /\ head \in Slots /\ count \in Nat /\ count <= kSlots
    BY <1>1, Measures DEF TypeOK
  <1>3. \A p \in Slots : SlotAt(slots, head, p) = slots[At(p)] /\ At(p) = (head + p) % kSlots
                         /\ At(p) \in Slots /\ Dist(At(p)) = p
    BY <1>2, AtFacts DEF SlotAt, At
  <1>4. \A p \in Slots : SlotAt(slots, head, p).state # "Empty" <=> p < count
    BY <1>3 DEF IInv, RingInv, InRing
  <1>5. \A p \in Slots : SlotAt(slots, head, p).state = "Running" <=> running = (head + p) % kSlots
    BY <1>3 DEF IInv, RingInv, Pinned
  <1>6. running # -1 => running \in Slots /\ slots[running].state = "Running"
    BY <1>1 DEF IInv, RingInv, Pinned, TypeOK
  <1>7. ASSUME running # -1 PROVE \E r \in Slots : r < count /\ running = (head + r) % kSlots
    <2>1. running \in Slots /\ slots[running].state = "Running"
      BY <1>6, <1>7
    <2>2. Dist(running) \in Slots /\ At(Dist(running)) = running
      BY <1>2, <2>1, AtFacts
    <2>3. Dist(running) < count
      BY <2>1 DEF IInv, RingInv, InRing
    <2> QED BY <1>3, <2>2, <2>3
  <1>8. running # -1 <=> pc \in {"launch", "publish"}
    BY DEF IInv, RingInv, Pinned
  <1> QED BY <1>2, <1>4, <1>5, <1>6, <1>7, <1>8

LEMMA EnqueueImplements ==
  ASSUME IInv, TypeOK', RingSplits, NEW l \in Launches, Enqueue(l)
  PROVE  RingSplits' /\ Queue!Next
  <1> DEFINE r == [launch |-> l, state |-> "Queued"]
  <1>1. PICK c, b \in Nat : Split(slots, head, count, c, b)
    BY DEF RingSplits
  <1>2. slots \in [Slots -> Slot] /\ head \in Slots /\ count \in Slots /\ count \in Nat
    BY RingFacts, SizeFacts DEF Enqueue
  <1>3. UNCHANGED <<head, stop, running, logging>> /\ count' = count + 1
    BY DEF Enqueue
  <1>0. slots' = Written(slots, head, count, r)
    BY DEF Enqueue, At, Written
  <1>4. r.launch = l /\ r.state = "Queued"
    OBVIOUS
  <1> HIDE DEF r
  <1>5. \A p \in Slots : SlotAt(slots', head, p) = IF p = count THEN r ELSE SlotAt(slots, head, p)
    <2> SUFFICES ASSUME NEW p \in Slots
                 PROVE  SlotAt(slots', head, p) = IF p = count THEN r ELSE SlotAt(slots, head, p)
      OBVIOUS
    <2>1. SlotAt(Written(slots, head, count, r), head, p) = IF p = count THEN r ELSE SlotAt(slots, head, p)
      BY <1>2, SlotWritten
    <2> QED BY <1>0, <2>1
  <1>6. slots' \in [Slots -> Slot]
    BY DEF TypeOK
  <1>7. c <= b /\ b <= count
    BY <1>1 DEF Split
  <1>8. \A p \in 0 .. count : p \in Slots
    BY <1>2, SizeFacts
  <1>9. Split(slots', head', count', c, b)
    <2>1. ASSUME NEW p \in 0 .. count' - 1
          PROVE  /\ SlotAt(slots', head', p).state = "Complete" <=> p < c
                 /\ SlotAt(slots', head', p).state = "Queued" <=> p >= b
      <3>1. p \in 0 .. count /\ p \in Slots
        BY <1>2, <1>3, <1>8
      <3>2. CASE p = count
        BY <1>3, <1>4, <1>5, <1>7, <3>1, <3>2
      <3>3. CASE p # count
        <4>1. p \in 0 .. count - 1 /\ SlotAt(slots', head', p) = SlotAt(slots, head, p)
          BY <1>2, <1>3, <1>5, <3>1, <3>3
        <4> QED BY <1>1, <4>1 DEF Split
      <3> QED BY <3>2, <3>3
    <2>2. b <= count'
      BY <1>2, <1>3, <1>7
    <2> QED BY <1>7, <2>1, <2>2 DEF Split
  <1>10. Results = Stretch(slots, head, 0, c) /\ Waiting = Stretch(slots, head, b, count - b)
    BY <1>1, MappedRing DEF IInv, RingInv
  <1>11. Results' = Stretch(slots', head, 0, c) /\ Waiting' = Stretch(slots', head, b, count - b + 1)
    <2>1. count' - b = count - b + 1
      BY <1>2, <1>3
    <2> QED BY <1>3, <1>9, <2>1, MappedRingNext
  <1>12. Results' = Results
    <2>1. Agree(slots', head, 0, slots, head, 0, c)
      BY <1>2, <1>5, <1>7, <1>8 DEF Agree
    <2> QED BY <1>10, <1>11, <2>1, StretchSame
  <1>13. Waiting' = Append(Waiting, l)
    <2>1. PICK m \in Nat : m = count - b
      BY <1>2, <1>7
    <2>2. b + m = count
      BY <1>2, <2>1
    <2>3. Agree(slots', head, b, slots, head, b, m)
      BY <1>2, <1>5, <1>8, <2>2 DEF Agree
    <2>4. SlotAt(slots', head, b + m).launch = l
      BY <1>2, <1>4, <1>5, <2>2
    <2> QED BY <1>2, <1>6, <1>10, <1>11, <2>1, <2>3, <2>4, StretchAppend
  <1>14. InLaunch' = InLaunch
    <2>1. (head + count) % kSlots # running
      <3>1. SlotAt(slots, head, count).state = "Empty"
        BY <1>2, RingFacts
      <3> QED BY <1>2, <3>1, RingFacts
    <2>2. running # -1 => slots'[running] = slots[running]
      BY <1>0, <1>2, <2>1, RingFacts DEF Written
    <2> QED BY <1>3, <2>2 DEF InLaunch
  <1>15. CASE Joinable
    <2>1. IsOpen /\ IsOpen'
      BY <1>3, <1>15 DEF Enqueue, IsOpen, Joinable
    <2>2. Pending' = Append(Pending, l)
      BY <1>13, <2>1 DEF Pending
    <2> QED BY <1>3, <1>9, <1>12, <1>14, <2>1, <2>2, QueueSubmits DEF RingSplits
  <1>16. CASE ~Joinable
    <2>1. ~IsOpen /\ IsOpen' /\ count = 0 /\ running = -1
      BY <1>3, <1>16, RingFacts DEF Enqueue, IsOpen, Joinable, IInv, RingInv, UiShape
    <2>2. c = 0 /\ b = 0 /\ count - b = 0
      BY <1>7, <2>1
    <2>3. Results = <<>> /\ Waiting = <<>>
      BY <1>2, <1>10, <2>2, StretchEmpty
    <2>4. Pending' = <<l>>
      BY <1>13, <2>1, <2>3 DEF Pending
    <2> QED BY <1>3, <1>9, <1>12, <1>14, <2>1, <2>3, <2>4, QueueOpens DEF RingSplits, InLaunch
  <1> QED BY <1>15, <1>16

LEMMA DrainLogImplements ==
  ASSUME IInv, TypeOK', RingSplits, DrainLog
  PROVE  RingSplits' /\ Queue!Next
  <1>1. PICK c, b \in Nat : Split(slots, head, count, c, b)
    BY DEF RingSplits
  <1>2. /\ slots \in [Slots -> Slot] /\ head \in Slots /\ count \in Nat /\ count # 0 /\ count <= kSlots
        /\ slots' \in [Slots -> Slot] /\ head' \in Slots
    BY RingFacts DEF DrainLog, TypeOK
  <1>3. /\ logging' = slots[head].launch /\ slots' = [slots EXCEPT ![head] = EmptySlot]
        /\ head' = (head + 1) % kSlots /\ count' = count - 1 /\ slots[head].state = "Complete"
        /\ UNCHANGED <<stop, pc, running>>
    BY DEF DrainLog, threadVars
  <1>4. c <= b /\ b <= count
    BY <1>1 DEF Split
  <1>5. SlotAt(slots, head, 0) = slots[head]
    BY <1>2, SlotAtHead
  <1>6. c > 0
    <2>1. 0 \in 0 .. count - 1
      BY <1>2
    <2> QED BY <1>1, <1>3, <1>5, <2>1 DEF Split
  <1>7. \A p \in 0 .. count - 2 : SlotAt(slots', head', p) = SlotAt(slots, head, p + 1)
    <2> SUFFICES ASSUME NEW p \in 0 .. count - 2
                 PROVE  SlotAt(slots', head', p) = SlotAt(slots, head, p + 1)
      OBVIOUS
    <2>1. p \in Slots /\ p + 1 \in Slots /\ 1 \in Slots
      BY <1>2, SizeFacts
    <2> DEFINE i == (head' + p) % kSlots
               j == (head + (p + 1)) % kSlots
    <2>2. /\ i = IF head' + p < kSlots THEN head' + p ELSE head' + p - kSlots
          /\ j = IF head + (p + 1) < kSlots THEN head + (p + 1) ELSE head + (p + 1) - kSlots
          /\ head' = IF head + 1 < kSlots THEN head + 1 ELSE head + 1 - kSlots
      BY <1>2, <1>3, <2>1, SlotAtWraps
    <2>3. SlotAt(slots', head', p) = slots'[i] /\ SlotAt(slots, head, p + 1) = slots[j]
      BY DEF SlotAt
    <2> HIDE DEF i, j
    <2>4. i = j /\ i # head /\ i \in Slots
      BY <1>2, <2>1, <2>2, SizeFacts
    <2> QED BY <1>2, <1>3, <2>3, <2>4
  <1>8. Split(slots', head', count', c - 1, b - 1)
    <2>1. c - 1 \in Nat /\ b - 1 \in Nat /\ c - 1 <= b - 1 /\ b - 1 <= count'
      BY <1>2, <1>3, <1>4, <1>6
    <2>2. ASSUME NEW p \in 0 .. count' - 1
          PROVE  /\ SlotAt(slots', head', p).state = "Complete" <=> p < c - 1
                 /\ SlotAt(slots', head', p).state = "Queued" <=> p >= b - 1
      <3>1. p \in 0 .. count - 2 /\ p + 1 \in 0 .. count - 1
        BY <1>2, <1>3
      <3>2. SlotAt(slots', head', p) = SlotAt(slots, head, p + 1)
        BY <1>7, <3>1
      <3>3. /\ SlotAt(slots, head, p + 1).state = "Complete" <=> p + 1 < c
            /\ SlotAt(slots, head, p + 1).state = "Queued" <=> p + 1 >= b
        BY <1>1, <3>1 DEF Split
      <3> QED BY <3>2, <3>3
    <2> QED BY <2>1, <2>2 DEF Split
  <1>9. Results = Stretch(slots, head, 0, c) /\ Waiting = Stretch(slots, head, b, count - b)
    BY <1>1, MappedRing DEF IInv, RingInv
  <1>10. Results' = Stretch(slots', head', 0, c - 1) /\ Waiting' = Stretch(slots', head', b - 1, count - b)
    <2>1. count' - (b - 1) = count - b
      BY <1>2, <1>3
    <2> QED BY <1>8, <2>1, MappedRingNext
  <1>11. Results # <<>> /\ Head(Results) = slots[head].launch /\ Results' = Tail(Results)
    <2>1. PICK d \in Nat : c = d + 1 /\ c - 1 = d
      BY <1>6
    <2>2. Agree(slots', head', 0, slots, head, 0 + 1, d)
      <3> SUFFICES ASSUME NEW p \in 0 .. d - 1
                   PROVE  SlotAt(slots', head', 0 + p).launch = SlotAt(slots, head, 0 + 1 + p).launch
        BY DEF Agree
      <3>1. 0 + p = p /\ 0 + 1 + p = p + 1 /\ p \in 0 .. count - 2
        BY <1>2, <1>4, <2>1
      <3> QED BY <1>7, <3>1
    <2>3. /\ Stretch(slots, head, 0, d + 1) # <<>>
          /\ Head(Stretch(slots, head, 0, d + 1)) = SlotAt(slots, head, 0).launch
          /\ Stretch(slots', head', 0, d) = Tail(Stretch(slots, head, 0, d + 1))
      BY <1>2, <2>2, StretchTail
    <2> QED BY <1>5, <1>9, <1>10, <2>1, <2>3
  <1>12. Waiting' = Waiting
    <2>1. PICK a \in Nat, m \in Nat : a = b - 1 /\ m = count - b
      BY <1>2, <1>4, <1>6
    <2>2. Agree(slots', head', a, slots, head, b, m)
      <3> SUFFICES ASSUME NEW p \in 0 .. m - 1
                   PROVE  SlotAt(slots', head', a + p).launch = SlotAt(slots, head, b + p).launch
        BY DEF Agree
      <3>1. a + p + 1 = b + p /\ a + p \in 0 .. count - 2
        BY <1>2, <1>4, <2>1
      <3> QED BY <1>7, <3>1
    <2> QED BY <1>9, <1>10, <2>1, <2>2, StretchSame
  <1>13. InLaunch' = InLaunch
    <2>1. running # -1 => slots'[running] = slots[running]
      BY <1>2, <1>3, RingFacts
    <2> QED BY <1>3, <2>1 DEF InLaunch
  <1>14. IsOpen' = IsOpen /\ Pending' = Pending
    BY <1>3, <1>12 DEF IsOpen, Joinable, Pending
  <1>15. RingSplits'
    <2>1. c - 1 \in Nat /\ b - 1 \in Nat
      BY <1>4, <1>6
    <2> QED BY <1>8, <2>1 DEF RingSplits
  <1> QED BY <1>3, <1>11, <1>13, <1>14, <1>15, QueueLogs

\* A slot that is not free carries a launch.
Carried == \A i \in Slots : slots[i].state # "Empty" => slots[i].launch # NoLaunch

LEMMA PickImplements ==
  ASSUME IInv, TypeOK', RingSplits, Pick
  PROVE  RingSplits' /\ Queue!Next
  <1>1. PICK c, b \in Nat : Split(slots, head, count, c, b)
    BY DEF RingSplits
  <1>2. /\ slots \in [Slots -> Slot] /\ head \in Slots /\ count \in Nat /\ count <= kSlots
        /\ slots' \in [Slots -> Slot]
    BY RingFacts DEF TypeOK
  <1>3. PICK o \in Queued : /\ \A q \in Queued : o <= q
                            /\ running' = At(o)
                            /\ slots' = [slots EXCEPT ![At(o)].state = "Running"]
    BY DEF Pick
  <1>4. UNCHANGED <<head, count, stop, logging>> /\ running = -1 /\ IsOpen /\ IsOpen'
    BY RingFacts DEF Pick, IsOpen, Joinable
  <1>5. c <= b /\ b <= count
    BY <1>1 DEF Split
  <1>6. \A p \in 0 .. count - 1 : p \in Slots
    BY <1>2, SizeFacts
  <1>7. Queued = {p \in 0 .. count - 1 : SlotAt(slots, head, p).state = "Queued"}
    BY DEF Queued, SlotAt, At
  <1>8. o = b /\ b \in 0 .. count - 1 /\ b \in Slots
    <2>1. o \in 0 .. count - 1 /\ o >= b
      BY <1>1, <1>3, <1>7 DEF Split
    <2>2. b \in 0 .. count - 1
      BY <1>2, <1>5, <2>1
    <2>3. b \in Queued
      BY <1>1, <1>7, <2>2 DEF Split
    <2>4. o <= b
      BY <1>3, <2>3
    <2> QED BY <1>6, <2>1, <2>2, <2>4
  <1> DEFINE r == [SlotAt(slots, head, b) EXCEPT !.state = "Running"]
  <1>9. SlotAt(slots, head, b) \in Slot
    BY <1>2, SlotAtFacts
  <1>10. r.state = "Running" /\ r.launch = SlotAt(slots, head, b).launch
    BY <1>9 DEF Slot
  <1>11. slots' = Written(slots, head, b, r)
    BY <1>3, <1>8 DEF Written, SlotAt, At
  <1> HIDE DEF r
  <1>12. ASSUME NEW p \in Slots
         PROVE  SlotAt(slots', head, p) = IF p = b THEN r ELSE SlotAt(slots, head, p)
    <2>1. SlotAt(Written(slots, head, b, r), head, p) = IF p = b THEN r ELSE SlotAt(slots, head, p)
      BY <1>2, <1>8, SlotWritten
    <2> QED BY <1>11, <2>1
  <1>13. Split(slots', head', count', c, b + 1)
    <2>1. ASSUME NEW p \in 0 .. count' - 1
          PROVE  /\ SlotAt(slots', head', p).state = "Complete" <=> p < c
                 /\ SlotAt(slots', head', p).state = "Queued" <=> p >= b + 1
      <3>1. p \in 0 .. count - 1 /\ p \in Slots
        BY <1>4, <1>6
      <3>2. CASE p = b
        BY <1>4, <1>5, <1>10, <1>12, <3>1, <3>2
      <3>3. CASE p # b
        <4>1. SlotAt(slots', head', p) = SlotAt(slots, head, p)
          BY <1>4, <1>12, <3>1, <3>3
        <4>2. /\ SlotAt(slots, head, p).state = "Complete" <=> p < c
              /\ SlotAt(slots, head, p).state = "Queued" <=> p >= b
          BY <1>1, <3>1 DEF Split
        <4> QED BY <3>1, <3>3, <4>1, <4>2
      <3> QED BY <3>2, <3>3
    <2>2. c <= b + 1 /\ b + 1 <= count' /\ b + 1 \in Nat
      BY <1>2, <1>4, <1>5, <1>8
    <2> QED BY <2>1, <2>2 DEF Split
  <1>14. PICK m \in Nat : count - b = m + 1 /\ count' - (b + 1) = m /\ b + 1 + m = count
    <2>1. count - b - 1 \in Nat
      BY <1>2, <1>8
    <2> QED BY <1>2, <1>4, <2>1
  <1>15. Results = Stretch(slots, head, 0, c) /\ Waiting = Stretch(slots, head, b, m + 1)
    BY <1>1, <1>14, MappedRing DEF IInv, RingInv
  <1>16. Results' = Stretch(slots', head, 0, c) /\ Waiting' = Stretch(slots', head, b + 1, m)
    BY <1>4, <1>13, <1>14, MappedRingNext
  <1>17. Results' = Results
    <2>1. Agree(slots', head, 0, slots, head, 0, c)
      BY <1>2, <1>5, <1>6, <1>8, <1>12 DEF Agree
    <2> QED BY <1>15, <1>16, <2>1, StretchSame
  <1>18. Waiting # <<>> /\ Head(Waiting) = SlotAt(slots, head, b).launch /\ Waiting' = Tail(Waiting)
    <2>1. PICK e \in Nat : e = b + 1
      OBVIOUS
    <2>2. Agree(slots', head, e, slots, head, b + 1, m)
      <3> SUFFICES ASSUME NEW p \in 0 .. m - 1
                   PROVE  SlotAt(slots', head, e + p).launch = SlotAt(slots, head, b + 1 + p).launch
        BY DEF Agree
      <3>1. PICK q \in Slots : q = b + 1 + p /\ q = e + p /\ q # b
        BY <1>2, <1>6, <1>14, <2>1
      <3> QED BY <1>12, <3>1
    <2>3. /\ Stretch(slots, head, b, m + 1) # <<>>
          /\ Head(Stretch(slots, head, b, m + 1)) = SlotAt(slots, head, b).launch
          /\ Stretch(slots', head, e, m) = Tail(Stretch(slots, head, b, m + 1))
      BY <1>2, <2>2, StretchTail
    <2> QED BY <1>15, <1>16, <2>1, <2>3
  <1>19. InLaunch = NoLaunch /\ InLaunch' = SlotAt(slots, head, b).launch
    <2>1. running' \in Slots /\ slots'[running'] = SlotAt(slots', head, b)
      <3>1. running' = (head + b) % kSlots
        BY <1>3, <1>8 DEF At
      <3>2. (head + b) % kSlots \in Slots
        BY <1>2, SlotAtFacts
      <3> QED BY <3>1, <3>2 DEF SlotAt
    <2>2. running' # -1
      BY <2>1, SizeFacts
    <2>3. SlotAt(slots', head, b).launch = SlotAt(slots, head, b).launch
      BY <1>8, <1>10, <1>12
    <2> QED BY <1>4, <2>1, <2>2, <2>3 DEF InLaunch
  <1>20. Pending # <<>> /\ Pending' = Tail(Pending) /\ InLaunch' = Head(Pending)
    BY <1>4, <1>18, <1>19 DEF Pending
  <1>21. RingSplits'
    <2>1. b + 1 \in Nat
      OBVIOUS
    <2> QED BY <1>13, <2>1 DEF RingSplits
  <1> QED BY <1>4, <1>17, <1>19, <1>20, <1>21, QueueBegins

LEMMA PublishImplements ==
  ASSUME IInv, TypeOK', RingSplits, Carried, Publish
  PROVE  RingSplits' /\ Queue!Next
  <1>1. PICK c, b \in Nat : Split(slots, head, count, c, b)
    BY DEF RingSplits
  <1>2. /\ slots \in [Slots -> Slot] /\ head \in Slots /\ count \in Nat /\ count <= kSlots
        /\ slots' \in [Slots -> Slot]
    BY RingFacts DEF TypeOK
  <1>3. /\ slots' = [slots EXCEPT ![running].state = "Complete"] /\ running' = -1
        /\ running # -1 /\ running \in Slots /\ slots[running].state = "Running"
    BY RingFacts DEF Publish
  <1>4. UNCHANGED <<head, count, stop, logging>> /\ IsOpen' = IsOpen
    BY DEF Publish, IsOpen, Joinable
  <1>5. c <= b /\ b <= count
    BY <1>1 DEF Split
  <1>6. \A p \in 0 .. count - 1 : p \in Slots
    BY <1>2, SizeFacts
  \* The launch in progress is the first that is not answered.
  <1>7. c \in 0 .. count - 1 /\ c \in Slots /\ c < b /\ running = (head + c) % kSlots
    <2>1. PICK q \in Slots : q < count /\ running = (head + q) % kSlots
      BY <1>3, RingFacts
    <2>2. q \in 0 .. count - 1
      BY <1>2, <2>1, SizeFacts
    <2>3. SlotAt(slots, head, q).state = "Running"
      BY <2>1, RingFacts
    <2>4. c <= q /\ q < b
      BY <1>1, <2>2, <2>3 DEF Split
    <2>5. c \in 0 .. count - 1 /\ c \in Slots /\ c < b
      BY <1>2, <1>6, <2>2, <2>4
    <2>6. SlotAt(slots, head, c).state \notin {"Complete", "Queued"}
      BY <1>1, <2>5 DEF Split
    <2>7. SlotAt(slots, head, c).state # "Empty" /\ SlotAt(slots, head, c) \in Slot
      BY <1>2, <2>5, RingFacts, SlotAtFacts
    <2>8. SlotAt(slots, head, c).state = "Running"
      BY <2>6, <2>7 DEF Slot, SlotStates
    <2> QED BY <2>5, <2>8, RingFacts
  <1> DEFINE r == [SlotAt(slots, head, c) EXCEPT !.state = "Complete"]
  <1>8. SlotAt(slots, head, c) \in Slot /\ SlotAt(slots, head, c) = slots[running]
    <2>1. SlotAt(slots, head, c) \in Slot
      BY <1>2, SlotAtFacts
    <2> QED BY <1>7, <2>1 DEF SlotAt
  <1>9. r.state = "Complete" /\ r.launch = slots[running].launch
    BY <1>8 DEF Slot
  <1>10. slots' = Written(slots, head, c, r)
    BY <1>3, <1>7, <1>8 DEF Written
  <1> HIDE DEF r
  <1>11. ASSUME NEW p \in Slots
         PROVE  SlotAt(slots', head, p) = IF p = c THEN r ELSE SlotAt(slots, head, p)
    <2>1. c \in Slots
      BY <1>7
    <2>2. SlotAt(Written(slots, head, c, r), head, p) = IF p = c THEN r ELSE SlotAt(slots, head, p)
      BY <1>2, <2>1, SlotWritten
    <2> QED BY <1>10, <2>2
  <1>12. Split(slots', head', count', c + 1, b)
    <2>1. ASSUME NEW p \in 0 .. count' - 1
          PROVE  /\ SlotAt(slots', head', p).state = "Complete" <=> p < c + 1
                 /\ SlotAt(slots', head', p).state = "Queued" <=> p >= b
      <3>1. p \in 0 .. count - 1 /\ p \in Slots
        BY <1>4, <1>6
      <3>2. CASE p = c
        BY <1>4, <1>7, <1>9, <1>11, <3>1, <3>2
      <3>3. CASE p # c
        <4>1. SlotAt(slots', head', p) = SlotAt(slots, head, p)
          BY <1>4, <1>11, <3>1, <3>3
        <4>2. /\ SlotAt(slots, head, p).state = "Complete" <=> p < c
              /\ SlotAt(slots, head, p).state = "Queued" <=> p >= b
          BY <1>1, <3>1 DEF Split
        <4> QED BY <3>1, <3>3, <4>1, <4>2
      <3> QED BY <3>2, <3>3
    <2>2. c + 1 <= b /\ b <= count' /\ c + 1 \in Nat
      BY <1>2, <1>4, <1>5, <1>7
    <2> QED BY <2>1, <2>2 DEF Split
  <1>13. PICK m \in Nat : m = count - b
    BY <1>2, <1>5
  <1>14. Results = Stretch(slots, head, 0, c) /\ Waiting = Stretch(slots, head, b, m)
    BY <1>1, <1>13, MappedRing DEF IInv, RingInv
  <1>15. Results' = Stretch(slots', head, 0, c + 1) /\ Waiting' = Stretch(slots', head, b, m)
    BY <1>4, <1>12, <1>13, MappedRingNext
  <1>16. Results' = Append(Results, slots[running].launch)
    <2>1. Agree(slots', head, 0, slots, head, 0, c)
      BY <1>2, <1>5, <1>6, <1>7, <1>11 DEF Agree
    <2>2. SlotAt(slots', head, 0 + c).launch = slots[running].launch
      BY <1>7, <1>9, <1>11
    <2>3. Stretch(slots', head, 0, c + 1)
            = Append(Stretch(slots, head, 0, c), SlotAt(slots', head, 0 + c).launch)
      BY <1>2, <2>1, StretchAppend
    <2> QED BY <1>14, <1>15, <2>2, <2>3
  <1>17. Waiting' = Waiting
    <2>1. Agree(slots', head, b, slots, head, b, m)
      <3> SUFFICES ASSUME NEW p \in 0 .. m - 1
                   PROVE  SlotAt(slots', head, b + p).launch = SlotAt(slots, head, b + p).launch
        BY DEF Agree
      <3>1. PICK q \in Slots : q = b + p /\ q # c
        BY <1>2, <1>6, <1>7, <1>13
      <3> QED BY <1>11, <3>1
    <2> QED BY <1>14, <1>15, <2>1, StretchSame
  <1>18. InLaunch = slots[running].launch /\ InLaunch # NoLaunch /\ InLaunch' = NoLaunch
    <2>1. slots[running].launch # NoLaunch
      BY <1>3 DEF Carried
    <2> QED BY <1>3, <2>1 DEF InLaunch
  <1>19. Pending' = Pending
    BY <1>4, <1>17 DEF Pending
  <1>20. RingSplits'
    <2>1. c + 1 \in Nat
      OBVIOUS
    <2> QED BY <1>12, <2>1 DEF RingSplits
  <1> QED BY <1>4, <1>16, <1>18, <1>19, <1>20, QueueFinishes

LEMMA DrainEndImplements ==
  ASSUME IInv, RingSplits, DrainEnd
  PROVE  RingSplits' /\ [Queue!Next]_(Queue!vars)
  <1>1. UNCHANGED <<slots, head, count, stop, pc, running>> /\ logging' = NoLaunch
    BY DEF DrainEnd, ringVars, threadVars
  <1>2. RingSplits' /\ Results' = Results /\ Waiting' = Waiting
    BY <1>1, SameRing
  <1>3. IsOpen' = IsOpen /\ Pending' = Pending /\ InLaunch' = InLaunch
    BY <1>1, <1>2 DEF IsOpen, Joinable, Pending, InLaunch
  <1>4. CASE logging = NoLaunch
    BY <1>1, <1>2, <1>3, <1>4, QueueSame
  <1>5. CASE logging # NoLaunch
    BY <1>1, <1>2, <1>3, <1>5, QueueLogged
  <1> QED BY <1>4, <1>5

\* The stop event is set: the first time it closes the lane.
LEMMA StopImplements ==
  ASSUME IInv, RingSplits, Destroy \/ \E positive \in BOOLEAN : StopBegin(positive)
  PROVE  RingSplits' /\ [Queue!Next]_(Queue!vars)
  <1>1. UNCHANGED <<slots, head, count, running, logging>> /\ stop' = TRUE
    BY DEF StopBegin, Destroy, ringVars, threadVars
  <1>2. RingSplits' /\ Results' = Results
    BY <1>1, SameRing
  <1>3. ~IsOpen' /\ InLaunch' = InLaunch
    BY <1>1 DEF IsOpen, InLaunch
  <1>4. Pending' = <<>>
    BY <1>3 DEF Pending
  <1>5. CASE IsOpen
    BY <1>1, <1>2, <1>3, <1>4, <1>5, QueueCloses
  <1>6. CASE ~IsOpen
    <2>1. IsOpen' = IsOpen
      BY <1>3, <1>6 DEF IsOpen
    <2>2. Pending' = Pending
      BY <1>4, <1>6 DEF Pending
    <2> QED BY <1>1, <1>2, <1>3, <2>1, <2>2, QueueSame
  <1> QED BY <1>5, <1>6

\* The join empties the ring of a lane that is closed already.
LEMMA JoinImplements ==
  ASSUME IInv, TypeOK', StopJoins \/ Destroyed
  PROVE  RingSplits' /\ Queue!Next
  <1>1. /\ count' = 0 /\ pc' = "none" /\ UNCHANGED <<running, logging>>
        /\ ui \in {"stopping", "destroy"} /\ pc = "exited"
    BY DEF StopJoins, Destroyed, Reset
  <1>2. running = -1 /\ stop
    BY <1>1, RingFacts DEF IInv, RingInv, UiShape
  <1>3. ~IsOpen /\ ~IsOpen' /\ IsOpen' = IsOpen
    BY <1>1, <1>2 DEF IsOpen, Joinable
  <1>4. Pending' = Pending
    BY <1>3 DEF Pending
  <1>5. InLaunch = NoLaunch /\ InLaunch' = InLaunch
    BY <1>1, <1>2 DEF InLaunch
  <1>6. Split(slots', head', count', 0, 0)
    <2>1. 0 .. count' - 1 = {}
      BY <1>1
    <2> QED BY <1>1, <2>1 DEF Split
  <1>7. Results' = <<>>
    <2>1. Results' = Stretch(slots', head', 0, 0)
      BY <1>6, MappedRingNext
    <2>2. slots' \in [Slots -> Slot] /\ head' \in Slots
      BY DEF TypeOK
    <2> QED BY <2>1, <2>2, StretchEmpty
  <1> QED BY <1>1, <1>3, <1>4, <1>5, <1>6, <1>7, QueueClears DEF RingSplits

\* The steps the queue does not see.
LEMMA AsideImplements ==
  ASSUME RingSplits,
         \/ Signal \/ Receive \/ DrainBegin \/ SetTarget \/ ClearTarget \/ StopTimesOut \/ StopScan
         \/ Wait \/ PickNothing \/ LaunchReturns \/ LaneRequest \/ OtherRequest
         \/ UNCHANGED vars
  PROVE  RingSplits' /\ [Queue!Next]_(Queue!vars)
  <1>1. UNCHANGED <<slots, head, count, stop, running, logging>> /\ (Joinable' = Joinable)
    BY DEF Signal, DrainBegin, StopTimesOut, StopScan, Wait, PickNothing, LaunchReturns,
           Receive, SetTarget, ClearTarget, LaneRequest, Notify, LaneAt, OtherRequest, OtherAt,
           vars, ringVars, threadVars, Joinable
  <1>2. RingSplits' /\ Results' = Results /\ Waiting' = Waiting
    BY <1>1, SameRing
  <1>3. IsOpen' = IsOpen
    BY <1>1 DEF IsOpen
  <1>4. Pending' = Pending /\ InLaunch' = InLaunch
    BY <1>1, <1>2, <1>3 DEF Pending, InLaunch
  <1> QED BY <1>1, <1>2, <1>3, <1>4, QueueSame

\* A slot is given its launch with its state.
LEMMA CarriedNext ==
  ASSUME TypeOK, Pinned, Carried, [Next]_vars
  PROVE  Carried'
  <1> USE DEF ringVars
  <1>1. ASSUME slots' = slots PROVE Carried'
    BY <1>1 DEF Carried
  <1>2. ASSUME NEW i \in Slots, NEW s \in SlotStates, slots[i].state # "Empty",
               slots' = [slots EXCEPT ![i].state = s]
        PROVE  Carried'
    <2>1. slots'[i].launch = slots[i].launch /\ \A j \in Slots \ {i} : slots'[j] = slots[j]
      BY <1>2 DEF TypeOK, Slot
    <2> QED BY <1>2, <2>1 DEF Carried
  <1>3. CASE Pick
    <2>1. PICK o \in Queued : slots' = [slots EXCEPT ![At(o)].state = "Running"]
      BY <1>3 DEF Pick
    <2>2. slots[At(o)].state = "Queued" /\ At(o) \in Slots
      BY Measures DEF Queued
    <2> QED BY <1>2, <2>1, <2>2 DEF SlotStates
  <1>4. CASE Publish
    <2>1. running \in Slots /\ slots[running].state = "Running"
      BY <1>4, SizeFacts DEF Publish, Pinned, TypeOK
    <2> QED BY <1>2, <1>4, <2>1 DEF Publish, SlotStates
  <1>5. ASSUME NEW l \in Launches, Enqueue(l) PROVE Carried'
    <2>1. slots' = [slots EXCEPT ![At(count)] = [launch |-> l, state |-> "Queued"]]
      BY <1>5 DEF Enqueue
    <2>2. \A i \in Slots : slots'[i] = slots[i] \/ slots'[i].launch = l
      BY <2>1 DEF TypeOK
    <2> QED BY <2>2, LaunchAssumption DEF Carried
  <1>6. CASE DrainLog
    <2>1. slots' = [slots EXCEPT ![head] = EmptySlot]
      BY <1>6 DEF DrainLog
    <2>2. \A i \in Slots : slots'[i] = slots[i] \/ slots'[i] = EmptySlot
      BY <2>1 DEF TypeOK
    <2> QED BY <2>2, EmptySlotFacts DEF Carried
  <1>7. CASE StopJoins \/ Destroyed
    <2>1. slots' = EmptySlots
      BY <1>7 DEF StopJoins, Destroyed, Reset
    <2> QED BY <2>1, EmptySlotFacts DEF Carried
  <1>8. CASE \/ Signal \/ Receive \/ DrainBegin \/ SetTarget \/ ClearTarget \/ DrainEnd \/ StopTimesOut \/ StopScan \/ Destroy
             \/ (\E positive \in BOOLEAN : StopBegin(positive))
             \/ Wait \/ PickNothing \/ LaunchReturns \/ LaneRequest \/ OtherRequest
         \/ UNCHANGED vars
    <2>1. slots' = slots
      BY <1>8 DEF Signal, DrainBegin, DrainEnd, StopTimesOut, StopScan, Destroy, StopBegin,
                  Wait, PickNothing, LaunchReturns, Receive, SetTarget, ClearTarget,
                  LaneRequest, Notify, LaneAt, OtherRequest, OtherAt, vars
    <2> QED BY <1>1, <2>1
  <1> QED BY <1>3, <1>4, <1>5, <1>6, <1>7, <1>8 DEF Next, Worker, Drain, Stopping

\* Every step of the worker is a step of the queue, or one it does not see.
LEMMA StepImplements ==
  ASSUME IInv, Carried, RingSplits, [Next]_vars
  PROVE  RingSplits' /\ [Queue!Next]_(Queue!vars)
  <1>1. TypeOK'
    BY NextInv DEF IInv, RingInv
  <1>2. CASE \E l \in Launches : Enqueue(l)
    BY <1>1, <1>2, EnqueueImplements
  <1>3. CASE DrainLog
    BY <1>1, <1>3, DrainLogImplements
  <1>4. CASE Pick
    BY <1>1, <1>4, PickImplements
  <1>5. CASE Publish
    BY <1>1, <1>5, PublishImplements
  <1>6. CASE DrainEnd
    BY <1>6, DrainEndImplements
  <1>7. CASE Destroy \/ \E positive \in BOOLEAN : StopBegin(positive)
    BY <1>7, StopImplements
  <1>8. CASE StopJoins \/ Destroyed
    BY <1>1, <1>8, JoinImplements
  <1>9. CASE \/ Signal \/ Receive \/ DrainBegin \/ SetTarget \/ ClearTarget \/ StopTimesOut \/ StopScan
             \/ Wait \/ PickNothing \/ LaunchReturns \/ LaneRequest \/ OtherRequest
         \/ UNCHANGED vars
    BY <1>9, AsideImplements
  <1> QED BY <1>2, <1>3, <1>4, <1>5, <1>6, <1>7, <1>8, <1>9 DEF Next, Worker, Drain, Stopping

LEMMA InitImplements == Init => Carried /\ RingSplits /\ Queue!Init
  <1> SUFFICES ASSUME Init PROVE Carried /\ RingSplits /\ Queue!Init
    OBVIOUS
  <1>1. /\ slots = EmptySlots /\ head = 0 /\ count = 0 /\ pc = "none" /\ running = -1
        /\ logging = NoLaunch
    BY DEF Init
  <1>2. TypeOK
    BY InitInv DEF IInv, RingInv
  <1>3. Split(slots, head, count, 0, 0)
    <2>1. 0 .. count - 1 = {}
      BY <1>1
    <2> QED BY <1>1, <2>1 DEF Split
  <1>4. Carried
    BY <1>1, EmptySlotFacts DEF Carried
  <1>5. Results = <<>>
    <2>1. Results = Stretch(slots, head, 0, 0)
      BY <1>2, <1>3, MappedRing
    <2> QED BY <1>2, <2>1, StretchEmpty DEF TypeOK
  <1>6. ~IsOpen
    BY <1>1 DEF IsOpen, Joinable
  <1>7. Queue!Init
    BY <1>1, <1>5, <1>6 DEF Queue!Init, IsOpen, Joinable
  <1> QED BY <1>3, <1>4, <1>7 DEF RingSplits

\* Launches are performed once, one at a time and in the order they were
\* accepted, their results are logged in that order, and a stop lets only the
\* launch in progress go on: the ring of LaunchWorker, whatever its size and
\* however it wraps, is the queue its header promises.
THEOREM QueueIsImplemented == Spec => ImplementsQueue
  <1> DEFINE Inv == IInv /\ Carried /\ RingSplits
  <1>1. Init => Inv /\ Queue!Init
    BY InitInv, InitImplements
  <1>2. Inv /\ [Next]_vars => Inv' /\ [Queue!Next]_(Queue!vars)
    BY NextInv, CarriedNext, StepImplements DEF IInv, RingInv
  <1> HIDE DEF Inv
  <1> QED BY <1>1, <1>2, PTL DEF Spec, ImplementsQueue, Queue!Spec
================================================================================
