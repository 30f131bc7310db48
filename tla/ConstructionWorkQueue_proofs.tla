-------------------- MODULE ConstructionWorkQueue_proofs --------------------
(***************************************************************************)
(* The construction lane's invariants, for every number of slots and every *)
(* set of units.                                                           *)
(***************************************************************************)
EXTENDS ConstructionWorkQueue, FiniteSetTheorems, TLAPS

\* A slot holds a unit exactly when it is not empty.
Shape == \A i \in Slots : slots[i].state = "Empty" <=> slots[i].work = NoWork

\* What the UI thread's position says about its locals and the lane.
UiShape ==
  /\ ui = "callback" => cursor # -1
  /\ ui \in {"idle", "ack", "drain", "collect", "deliver"} => cursor = -1
  /\ ui \in {"scan", "bounded", "join"} => Running /\ stop
  /\ stop => Running
  /\ completed => Running

\* A stop in progress waits only if no earlier one has; a spent wait is
\* remembered.
WaitShape ==
  /\ ui \in {"scan", "bounded"} /\ bounded => ~waitedOut
  /\ waits <= 1
  /\ Running /\ waits = 1 => waitedOut

\* What Stop's lock section saw stays true: a stopped lane starts nothing.
ScanHolds ==
  /\ ui = "bounded" /\ ~inProgress => selected = -1
  /\ Running /\ report = "Exiting" => stop /\ selected = -1

\* _completed covers every uncollected result of an open lane, and a request, a
\* message or a drain still to come covers the flag, unless the last request
\* failed.
FlagCovers ==
  ~stop => /\ InState("Complete") # {} => completed \/ ui = "collect"
           /\ target # "cleared" /\ completed =>
                \/ pc \in {"notify", "exchange"}
                \/ Posting
                \/ posted > 0
                \/ ui \in {"ack", "drain"}
                \/ lost

LaneShape == /\ TypeOK
             /\ Shape
             /\ RunningSlotIsPinned
             /\ UiShape
             /\ WaitShape
             /\ ScanHolds
             /\ FlagCovers

IInv == LaneShape /\ OneMessage

LEMMA SlotsFacts == /\ Slots \subseteq Int
                    /\ Capacity - 1 \in Slots
                    /\ -1 \notin Slots
  BY ConstructionAssumption DEF Slots

LEMMA EmptySlotFacts == /\ EmptySlots \in [Slots -> Slot]
                        /\ \A i \in Slots : EmptySlots[i] = EmptySlot
                        /\ EmptySlot \in Slot
                        /\ EmptySlot.work = NoWork
                        /\ EmptySlot.state = "Empty"
  BY DEF EmptySlots, EmptySlot, Slot, SlotStates

\* The initial state satisfies the inductive invariant.
LEMMA InitInv == Init => IInv
  <1> SUFFICES ASSUME Init PROVE IInv
    OBVIOUS
  <1>1. TypeOK
    <2>1. slots \in [Slots -> Slot] /\ batch \in [Slots -> Slot]
      BY EmptySlotFacts DEF Init
    <2>2. lastSelected \in Slots
      BY SlotsFacts DEF Init
    <2> QED BY <2>1, <2>2 DEF Init, TypeOK, WorkerStates, UiStates, Reports
  <1>2. Shape /\ RunningSlotIsPinned
    BY EmptySlotFacts, SlotsFacts DEF Init, Shape, RunningSlotIsPinned
  <1>3. UiShape /\ WaitShape /\ ScanHolds /\ FlagCovers
    BY EmptySlotFacts
       DEF Init, UiShape, WaitShape, ScanHolds, FlagCovers, InState
  <1>4. OneMessage
    BY DEF Init, OneMessage, Posting
  <1> QED BY <1>1, <1>2, <1>3, <1>4 DEF IInv, LaneShape

\* A request, by whichever worker, keeps the count of messages.
LEMMA MessageStep ==
  ASSUME TypeOK, OneMessage, [Next]_vars
  PROVE  OneMessage'
  <1> USE DEF queueVars, workerVars, postVars, drainVars, stopVars, OneMessage,
              Posting, TypeOK
  <1>1. CASE UNCHANGED vars
    BY <1>1 DEF vars
  <1>2. CASE \/ Start \/ \E w \in Work : Enqueue(w)
             \/ \E positive, join \in BOOLEAN : StopBegin(positive, join)
    BY <1>2 DEF Start, Enqueue, StopBegin, MaySubmit, Running
  <1>3. CASE Receive \/ Acknowledge \/ DrainBegin
    BY <1>3 DEF Receive, Acknowledge, DrainBegin
  <1>4. CASE Collect \/ Deliver \/ CompleteReturns \/ DrainEnd
    BY <1>4 DEF Collect, Deliver, CompleteReturns, DrainEnd
  <1>5. CASE Stopping
    BY <1>5 DEF Stopping, StopScan, StopJoins, StopGivesUp, JoinEnd, Reset, Resume
  <1>6. CASE Wake \/ Pick \/ PickNothing \/ RunReturns \/ Publish
    BY <1>6 DEF Wake, Pick, PickNothing, RunReturns, Publish
  <1>7. CASE LaneRequest
    BY <1>7 DEF LaneRequest, Notify, LaneAt, Exchange, Post, PostFails
  <1>8. CASE OtherRequest
    BY <1>8 DEF OtherRequest, OtherAt, Exchange, Post, PostFails
  <1>9. CASE SetTarget \/ ClearTarget
    BY <1>9 DEF SetTarget, ClearTarget, MaySubmit
  <1> QED
    BY <1>1, <1>2, <1>3, <1>4, <1>5, <1>6, <1>7, <1>8, <1>9 DEF Next, Drain, Worker

\* Every step preserves the inductive invariant: one step per action.
LEMMA NextInv == IInv /\ [Next]_vars => IInv'
  <1> SUFFICES ASSUME IInv, [Next]_vars PROVE LaneShape'
    BY MessageStep DEF IInv, LaneShape
  <1> USE DEF IInv, LaneShape, queueVars, workerVars, postVars, drainVars, stopVars,
              Running, Posting
  <1>1. CASE Start
    <2>1. slots' = slots /\ Shape'
      BY <1>1 DEF Start, Shape
    <2>2. TypeOK'
      BY <1>1, SlotsFacts DEF Start, TypeOK, WorkerStates, UiStates,
                           Reports
    <2>3. RunningSlotIsPinned'
      BY <1>1, <2>1, SlotsFacts DEF Start, RunningSlotIsPinned, TypeOK
    <2>4. UiShape' /\ WaitShape'
      BY <1>1 DEF Start, UiShape, WaitShape, TypeOK, MaySubmit, FlagCovers
    <2>5. ScanHolds' /\ FlagCovers'
      BY <1>1, <2>1 DEF Start, ScanHolds, FlagCovers, UiShape, InState, TypeOK,
                          MaySubmit, RunningSlotIsPinned
    <2> QED BY <2>1, <2>2, <2>3, <2>4, <2>5
  <1>2. CASE Deliver
    <2>1. slots' = slots /\ Shape'
      BY <1>2 DEF Deliver, Shape
    <2>2. TypeOK'
      BY <1>2, SlotsFacts DEF Deliver, TypeOK, WorkerStates, UiStates,
                           Reports
    <2>3. RunningSlotIsPinned'
      BY <1>2, <2>1, SlotsFacts DEF Deliver, RunningSlotIsPinned, TypeOK
    <2>4. UiShape' /\ WaitShape'
      BY <1>2, SlotsFacts DEF Deliver, UiShape, WaitShape, TypeOK, MaySubmit, FlagCovers
    <2>5. ScanHolds' /\ FlagCovers'
      BY <1>2, <2>1 DEF Deliver, ScanHolds, FlagCovers, UiShape, InState, TypeOK,
                          MaySubmit, RunningSlotIsPinned
    <2> QED BY <2>1, <2>2, <2>3, <2>4, <2>5
  <1>3. CASE DrainEnd
    <2>1. slots' = slots /\ Shape'
      BY <1>3 DEF DrainEnd, Shape
    <2>2. TypeOK'
      BY <1>3, SlotsFacts, EmptySlotFacts DEF DrainEnd, TypeOK, WorkerStates, UiStates,
                           Reports
    <2>3. RunningSlotIsPinned'
      BY <1>3, <2>1, SlotsFacts DEF DrainEnd, RunningSlotIsPinned, TypeOK
    <2>4. UiShape' /\ WaitShape'
      BY <1>3 DEF DrainEnd, UiShape, WaitShape, TypeOK, MaySubmit, FlagCovers
    <2>5. ScanHolds' /\ FlagCovers'
      BY <1>3, <2>1 DEF DrainEnd, ScanHolds, FlagCovers, UiShape, InState, TypeOK,
                          MaySubmit, RunningSlotIsPinned
    <2> QED BY <2>1, <2>2, <2>3, <2>4, <2>5
  <1>4. CASE StopGivesUp
    <2>1. slots' = slots /\ Shape'
      BY <1>4 DEF StopGivesUp, Shape
    <2>2. TypeOK'
      BY <1>4, SlotsFacts DEF StopGivesUp, Resume, TypeOK, WorkerStates, UiStates,
                           Reports
    <2>3. RunningSlotIsPinned'
      BY <1>4, <2>1, SlotsFacts DEF StopGivesUp, Resume, RunningSlotIsPinned, TypeOK
    <2>4. UiShape' /\ WaitShape'
      BY <1>4 DEF StopGivesUp, Resume, UiShape, WaitShape, TypeOK, MaySubmit, FlagCovers
    <2>5. ScanHolds' /\ FlagCovers'
      BY <1>4, <2>1 DEF StopGivesUp, Resume, ScanHolds, FlagCovers, UiShape, InState, TypeOK,
                          MaySubmit, RunningSlotIsPinned
    <2> QED BY <2>1, <2>2, <2>3, <2>4, <2>5
  <1>5. CASE Wake
    <2>1. slots' = slots /\ Shape'
      BY <1>5 DEF Wake, Shape
    <2>2. TypeOK'
      BY <1>5, SlotsFacts DEF Wake, TypeOK, WorkerStates, UiStates,
                           Reports
    <2>3. RunningSlotIsPinned'
      BY <1>5, <2>1, SlotsFacts DEF Wake, RunningSlotIsPinned, TypeOK
    <2>4. UiShape' /\ WaitShape'
      BY <1>5 DEF Wake, UiShape, WaitShape, TypeOK, MaySubmit, FlagCovers
    <2>5. ScanHolds' /\ FlagCovers'
      BY <1>5, <2>1 DEF Wake, ScanHolds, FlagCovers, UiShape, InState, TypeOK,
                          MaySubmit, RunningSlotIsPinned
    <2> QED BY <2>1, <2>2, <2>3, <2>4, <2>5
  <1>6. CASE PickNothing
    <2>1. slots' = slots /\ Shape'
      BY <1>6 DEF PickNothing, Shape
    <2>2. TypeOK'
      BY <1>6, SlotsFacts DEF PickNothing, TypeOK, WorkerStates, UiStates,
                           Reports
    <2>3. RunningSlotIsPinned'
      BY <1>6, <2>1, SlotsFacts DEF PickNothing, RunningSlotIsPinned, TypeOK
    <2>4. UiShape' /\ WaitShape'
      BY <1>6 DEF PickNothing, UiShape, WaitShape, TypeOK, MaySubmit, FlagCovers
    <2>5. ScanHolds' /\ FlagCovers'
      BY <1>6, <2>1 DEF PickNothing, ScanHolds, FlagCovers, UiShape, InState, TypeOK,
                          MaySubmit, RunningSlotIsPinned
    <2> QED BY <2>1, <2>2, <2>3, <2>4, <2>5
  <1>7. CASE RunReturns
    <2>1. slots' = slots /\ Shape'
      BY <1>7 DEF RunReturns, Shape
    <2>2. TypeOK'
      BY <1>7, SlotsFacts DEF RunReturns, TypeOK, WorkerStates, UiStates,
                           Reports
    <2>3. RunningSlotIsPinned'
      BY <1>7, <2>1, SlotsFacts DEF RunReturns, RunningSlotIsPinned, TypeOK
    <2>4. UiShape' /\ WaitShape'
      BY <1>7 DEF RunReturns, UiShape, WaitShape, TypeOK, MaySubmit, FlagCovers
    <2>5. ScanHolds' /\ FlagCovers'
      BY <1>7, <2>1 DEF RunReturns, ScanHolds, FlagCovers, UiShape, InState, TypeOK,
                          MaySubmit, RunningSlotIsPinned
    <2> QED BY <2>1, <2>2, <2>3, <2>4, <2>5
  <1>8. CASE LaneRequest \/ OtherRequest
    <2>1. /\ UNCHANGED <<queueVars, selected, ui, drainVars, stopVars, target>>
          /\ pc \notin {"none", "run", "publish"} => pc' \notin {"none", "run", "publish"}
          /\ pc \in {"none", "run", "publish"} => pc' = pc
      BY <1>8 DEF LaneRequest, Notify, LaneAt, OtherRequest, OtherAt, Exchange, Post, PostFails
    <2>6. pc' \in WorkerStates /\ other' \in {"idle", "post"}
      BY <1>8 DEF LaneRequest, Notify, LaneAt, OtherRequest, OtherAt, TypeOK, WorkerStates
    <2>7. ASSUME Notify PROVE TypeOK'
      <3>1. lost' \in BOOLEAN /\ UNCHANGED <<pending, posted>>
        BY <2>7, Zenon DEF Notify, TypeOK
      <3> QED BY <2>1, <2>6, <3>1 DEF TypeOK
    <2>8. ASSUME Exchange PROVE TypeOK'
      <3>1. pending' \in BOOLEAN /\ lost' \in BOOLEAN /\ posted' = posted
        BY <2>8 DEF Exchange
      <3> QED BY <2>1, <2>6, <3>1 DEF TypeOK
    <2>9. ASSUME Post \/ PostFails PROVE TypeOK'
      <3>1. pending' \in BOOLEAN /\ lost' \in BOOLEAN
        BY <2>9, Zenon DEF Post, PostFails, TypeOK
      <3>2. posted' \in Nat
        BY <2>9 DEF Post, PostFails, TypeOK
      <3> QED BY <2>1, <2>6, <3>1, <3>2 DEF TypeOK
    <2>2. TypeOK'
      BY <1>8, <2>7, <2>8, <2>9 DEF LaneRequest, OtherRequest
    <2>3. Shape' /\ RunningSlotIsPinned' /\ UiShape' /\ WaitShape' /\ ScanHolds'
      BY <2>1, <2>2 DEF Shape, RunningSlotIsPinned, UiShape, WaitShape, ScanHolds, TypeOK
    <2>4. InState("Complete")' = InState("Complete")
      BY <2>1 DEF InState
    <2>5. FlagCovers'
      BY <1>8, <2>1, <2>4
         DEF LaneRequest, Notify, LaneAt, OtherRequest, OtherAt, Exchange, Post,
             PostFails, FlagCovers, OneMessage, TypeOK
    <2> QED BY <2>2, <2>3, <2>5
  <1>9. CASE DrainBegin
    <2>1. /\ UNCHANGED <<slots, lastSelected, stop, ready, waitedOut,
                        workerVars, postVars, drainVars, stopVars>>
          /\ \/ Running /\ ~stop /\ completed' = FALSE /\ ui' = "collect"
             \/ ~(Running /\ ~stop /\ completed) /\ completed' = completed /\ ui' = "idle"
          /\ ui = "drain"
      BY <1>9 DEF DrainBegin
    <2>8. completed' \in BOOLEAN /\ ui' \in UiStates
      BY <2>1 DEF TypeOK, UiStates
    <2>2. TypeOK'
      BY <2>1, <2>8 DEF TypeOK
    <2>3. Shape' /\ RunningSlotIsPinned'
      BY <2>1 DEF Shape, RunningSlotIsPinned
    <2>4. UiShape'
      <3>1. ui' \in {"idle", "collect"} /\ Running' = Running
        BY <2>1
      <3>2. cursor' = -1 /\ stop' = stop
        BY <2>1 DEF UiShape
      <3>3. completed' => Running
        BY <2>1 DEF UiShape
      <3> QED BY <3>1, <3>2, <3>3 DEF UiShape
    <2>7. WaitShape' /\ ScanHolds'
      BY <2>1 DEF WaitShape, ScanHolds
    <2>5. InState("Complete")' = InState("Complete")
      BY <2>1 DEF InState
    <2>6. FlagCovers'
      BY <2>1, <2>5 DEF FlagCovers, UiShape
    <2> QED BY <2>2, <2>3, <2>4, <2>6, <2>7
  <1>20. CASE Receive \/ Acknowledge \/ SetTarget \/ ClearTarget
    <2>1. UNCHANGED <<queueVars, workerVars, other, lost, drainVars, stopVars>>
      BY <1>20 DEF Receive, Acknowledge, SetTarget, ClearTarget
    <2>2. \/ ui = "idle" /\ ui' = "ack"
          \/ ui = "ack" /\ ui' = "drain"
          \/ ui' = ui
      BY <1>20 DEF Receive, Acknowledge, SetTarget, ClearTarget
    <2>7. ui' \in UiStates
      BY <2>2 DEF TypeOK, UiStates
    <2>8. /\ target' \in {"unset", "set", "cleared"}
          /\ pending' \in BOOLEAN
      BY <1>20 DEF Receive, Acknowledge, SetTarget, ClearTarget, TypeOK
    <2>9. posted' \in Nat
      BY <1>20 DEF Receive, Acknowledge, SetTarget, ClearTarget, TypeOK
    <2>3. TypeOK'
      BY <2>1, <2>7, <2>8, <2>9 DEF TypeOK
    <2>4. Shape' /\ RunningSlotIsPinned' /\ UiShape' /\ WaitShape' /\ ScanHolds'
      BY <2>1, <2>2 DEF Shape, RunningSlotIsPinned, UiShape, WaitShape, ScanHolds
    <2>5. InState("Complete")' = InState("Complete")
      BY <2>1 DEF InState
    <2>6. FlagCovers'
      BY <1>20, <2>1, <2>5
         DEF Receive, Acknowledge, SetTarget, ClearTarget, FlagCovers, MaySubmit, TypeOK
    <2> QED BY <2>3, <2>4, <2>6
  <1>10. CASE CompleteReturns
    <2>1. cursor \in Slots /\ batch' \in [Slots -> Slot]
      BY <1>10, EmptySlotFacts DEF CompleteReturns, UiShape, TypeOK
    <2>2. TypeOK'
      BY <1>10, <2>1 DEF CompleteReturns, TypeOK, UiStates
    <2> QED BY <1>10, <2>2
               DEF CompleteReturns, Shape, RunningSlotIsPinned, UiShape,
                   WaitShape, ScanHolds, FlagCovers, InState
  <1>11. CASE \E positive, join \in BOOLEAN : StopBegin(positive, join)
    <2>1. PICK positive, join \in BOOLEAN : StopBegin(positive, join)
      BY <1>11
    <2>2. bounded' \in BOOLEAN /\ (bounded' => ~waitedOut)
      BY <2>1 DEF StopBegin, TypeOK
    <2>3. TypeOK'
      BY <2>1, <2>2 DEF StopBegin, TypeOK, UiStates
    <2>4. Shape' /\ RunningSlotIsPinned'
      BY <2>1 DEF StopBegin, Shape, RunningSlotIsPinned
    <2>5. ScanHolds'
      BY <2>1 DEF StopBegin, ScanHolds
    <2> QED BY <2>1, <2>2, <2>3, <2>4, <2>5
               DEF StopBegin, UiShape, WaitShape, FlagCovers, InState
  <1>12. CASE \E w \in Work : Enqueue(w)
    <2>1. PICK w \in Work : Enqueue(w)
      BY <1>12
    <2>2. PICK i \in InState("Empty") :
             slots' = [slots EXCEPT ![i] = [work |-> w, state |-> "Queued"]]
      BY <2>1 DEF Enqueue
    <2>3. /\ slots' \in [Slots -> Slot]
          /\ \A j \in Slots : j # i => slots'[j] = slots[j]
          /\ i \in Slots /\ slots[i].state = "Empty"
          /\ slots'[i].work = w /\ slots'[i].state = "Queued" /\ w # NoWork
      BY <2>2, ConstructionAssumption DEF InState, TypeOK, Slot, SlotStates
    <2>4. TypeOK'
      BY <2>1, <2>3 DEF Enqueue, TypeOK
    <2>5. Shape' /\ RunningSlotIsPinned'
      BY <2>1, <2>3 DEF Enqueue, Shape, RunningSlotIsPinned
    <2>6. InState("Complete")' = InState("Complete")
      BY <2>3 DEF InState
    <2> QED BY <2>1, <2>4, <2>5, <2>6
               DEF Enqueue, UiShape, WaitShape, ScanHolds, FlagCovers
  <1>13. CASE Collect
    <2>1. /\ slots' \in [Slots -> Slot] /\ batch' \in [Slots -> Slot]
          /\ InState("Complete")' = {}
          /\ \A i \in Slots : \/ slots'[i] = slots[i]
                              \/ slots[i].state = "Complete"
                                 /\ slots'[i] = EmptySlot
      BY <1>13, EmptySlotFacts DEF Collect, TypeOK, InState
    <2>2. TypeOK'
      BY <1>13, <2>1 DEF Collect, TypeOK, UiStates
    <2>3. Shape' /\ RunningSlotIsPinned'
      BY <1>13, <2>1, EmptySlotFacts DEF Collect, Shape, RunningSlotIsPinned,
                                         TypeOK
    <2> QED BY <1>13, <2>1, <2>2, <2>3
               DEF Collect, UiShape, WaitShape, ScanHolds, FlagCovers
  <1>14. CASE StopScan
    <2>1. /\ slots' \in [Slots -> Slot]
          /\ \A i \in Slots : \/ slots'[i] = slots[i]
                              \/ slots[i].state # "Running"
                                 /\ slots'[i] = EmptySlot
      BY <1>14, EmptySlotFacts DEF StopScan, TypeOK
    <2>2. TypeOK'
      BY <1>14, <2>1 DEF StopScan, TypeOK, UiStates
    <2>3. Shape' /\ RunningSlotIsPinned'
      BY <1>14, <2>1, EmptySlotFacts DEF StopScan, Shape, RunningSlotIsPinned,
                                         TypeOK
    <2>4. InState("Running") = {} => selected = -1
      BY DEF RunningSlotIsPinned, InState, TypeOK
    <2> QED BY <1>14, <2>2, <2>3, <2>4
               DEF StopScan, UiShape, WaitShape, ScanHolds, FlagCovers
  <1>15. CASE StopJoins
    <2>1. TypeOK'
      BY <1>15, SlotsFacts, EmptySlotFacts
         DEF StopJoins, Reset, Resume, TypeOK, WorkerStates, UiStates, Reports
    <2>2. Shape' /\ RunningSlotIsPinned'
      BY <1>15, SlotsFacts, EmptySlotFacts
         DEF StopJoins, Reset, Shape, RunningSlotIsPinned
    <2>3. FlagCovers'
      BY <1>15, EmptySlotFacts DEF StopJoins, Reset, FlagCovers, InState
    <2>4. UiShape' /\ WaitShape' /\ ScanHolds'
      BY <1>15 DEF StopJoins, Reset, Resume, UiShape, WaitShape, ScanHolds
    <2> QED BY <2>1, <2>2, <2>3, <2>4
  <1>16. CASE JoinEnd
    <2>1. TypeOK'
      BY <1>16, SlotsFacts, EmptySlotFacts
         DEF JoinEnd, Reset, Resume, TypeOK, WorkerStates, UiStates, Reports
    <2>2. Shape' /\ RunningSlotIsPinned'
      BY <1>16, SlotsFacts, EmptySlotFacts
         DEF JoinEnd, Reset, Shape, RunningSlotIsPinned
    <2>3. FlagCovers'
      BY <1>16, EmptySlotFacts DEF JoinEnd, Reset, FlagCovers, InState
    <2>4. UiShape' /\ WaitShape' /\ ScanHolds'
      BY <1>16 DEF JoinEnd, Reset, Resume, UiShape, WaitShape, ScanHolds
    <2> QED BY <2>1, <2>2, <2>3, <2>4
  <1>17. CASE Pick
    <2>1. PICK i \in InState("Queued") :
             /\ selected' = i
             /\ lastSelected' = i
             /\ slots' = [slots EXCEPT ![i].state = "Running"]
      BY <1>17 DEF Pick
    <2>2. i \in Slots /\ slots[i].state = "Queued" /\ i # -1
      BY <2>1, SlotsFacts DEF InState
    <2>3. /\ slots' \in [Slots -> Slot]
          /\ \A j \in Slots : /\ slots'[j].work = slots[j].work
                              /\ slots'[j].state = IF j = i THEN "Running"
                                                   ELSE slots[j].state
      BY <2>1, <2>2 DEF TypeOK, Slot, SlotStates
    <2>4. TypeOK'
      BY <1>17, <2>1, <2>2, <2>3 DEF Pick, TypeOK, WorkerStates
    <2>5. Shape'
      BY <2>2, <2>3 DEF Shape
    <2>6. RunningSlotIsPinned'
      BY <1>17, <2>1, <2>2, <2>3, SlotsFacts
         DEF Pick, RunningSlotIsPinned, Shape
    <2>7. InState("Complete")' = InState("Complete")
      BY <2>2, <2>3 DEF InState
    <2> QED BY <1>17, <2>4, <2>5, <2>6, <2>7
               DEF Pick, UiShape, WaitShape, ScanHolds, FlagCovers
  <1>18. CASE Publish
    <2>1. selected \in Slots /\ slots[selected].state = "Running"
      BY <1>18 DEF Publish, RunningSlotIsPinned, TypeOK
    <2>2. /\ slots' \in [Slots -> Slot]
          /\ \A j \in Slots : /\ slots'[j].work = slots[j].work
                              /\ slots'[j].state = IF j = selected
                                                   THEN "Complete"
                                                   ELSE slots[j].state
      BY <1>18, <2>1 DEF Publish, TypeOK, Slot, SlotStates
    <2>3. TypeOK'
      BY <1>18, <2>2 DEF Publish, TypeOK, WorkerStates
    <2>4. Shape'
      BY <2>1, <2>2 DEF Shape
    <2>5. RunningSlotIsPinned'
      BY <1>18, <2>1, <2>2, SlotsFacts DEF Publish, RunningSlotIsPinned
    <2> QED BY <1>18, <2>3, <2>4, <2>5
               DEF Publish, UiShape, WaitShape, ScanHolds, FlagCovers
  <1>19. CASE UNCHANGED vars
    <2> QED BY <1>19 DEF vars, TypeOK, Shape, RunningSlotIsPinned, UiShape,
                       WaitShape, ScanHolds, FlagCovers, InState
  <1> QED
    BY <1>1, <1>2, <1>3, <1>4, <1>5, <1>6, <1>7, <1>8, <1>9, <1>10, <1>11, <1>12, <1>13, <1>14, <1>15, <1>16, <1>17, <1>18, <1>19, <1>20
       DEF Next, Drain, Stopping, Worker

\* The inductive invariant holds of every reachable state.
LEMMA Invariance == Spec => []IInv
  <1> QED BY InitInv, NextInv, PTL DEF Spec

\* Every variable keeps its type.
THEOREM TypeCorrect == Spec => []TypeOK
  <1>1. IInv => TypeOK
    BY DEF IInv, LaneShape
  <1> QED BY <1>1, Invariance, PTL

\* A running unit keeps its slot, whatever is collected, stopped or discarded.
THEOREM RunningIsPinned == Spec => []RunningSlotIsPinned
  <1>1. IInv => RunningSlotIsPinned
    BY DEF IInv, LaneShape
  <1> QED BY <1>1, Invariance, PTL

\* StopResult::Exiting is never said of a lane that runs, or will run, a unit.
THEOREM ExitingIsTruthful == Spec => []ExitingMeansNoWork
  <1>1. IInv => ExitingMeansNoWork
    BY DEF IInv, LaneShape, ScanHolds, UiShape, ExitingMeansNoWork
  <1> QED BY <1>1, Invariance, PTL

\* One thread costs the UI thread at most one bounded wait.
THEOREM OneBoundedWait == Spec => []StopWaitsOnce
  <1>1. IInv => StopWaitsOnce
    BY DEF IInv, LaneShape, WaitShape, StopWaitsOnce
  <1> QED BY <1>1, Invariance, PTL

\* A result of an open lane is announced, although every request may find no
\* window, share its message with another worker's, or fail to post it: until the
\* window goes, only a failed request leaves a result behind, and the next request
\* makes up for it.
THEOREM WakeupsAreKept == Spec => []NoLostWakeup
  <1>1. IInv => NoLostWakeup
    BY DEF IInv, LaneShape, FlagCovers, NoLostWakeup
  <1> QED BY <1>1, Invariance, PTL

\* What the lane tells the host: what the stops of one thread report and cost, and
\* that its results are announced.
THEOREM LaneHonest == Spec => []LaneIsHonest
  <1>1. IInv => LaneIsHonest
    BY DEF IInv, LaneShape, ScanHolds, UiShape, WaitShape, FlagCovers, LaneIsHonest,
           StopIsHonest, ExitingMeansNoWork, StopWaitsOnce, NoLostWakeup
  <1> QED BY <1>1, Invariance, PTL

-----------------------------------------------------------------------------
(* The abstract lane                                                        *)

\* A lane without a worker holds nothing; the drain's array holds results
\* only, none of them outside a drain, and Complete is called for one of them.
LaneInv ==
  /\ ~Running => \A i \in Slots : slots[i].state = "Empty"
  /\ cursor = -1 /\ ui # "deliver" => \A i \in Slots : batch[i].state = "Empty"
  /\ \A i \in Slots : batch[i].state \in {"Empty", "Complete"}
  /\ \A i \in Slots : batch[i].state = "Empty" <=> batch[i].work = NoWork
  /\ cursor # -1 => batch[cursor].state = "Complete"

LEMMA InitLane == ASSUME Init PROVE LaneInv
  BY EmptySlotFacts DEF Init, LaneInv

\* The slots that hold a unit's result.
Results(a, w) == {i \in Slots : a[i].work = w /\ a[i].state = "Complete"}
InRun == IF selected = -1 THEN NoWork ELSE slots[selected].work
InCall == IF cursor = -1 THEN NoWork ELSE batch[cursor].work
Owed == IF IsOpen THEN {slots[i].work : i \in InState("Queued")} ELSE {}

LEMMA NextLane == ASSUME IInv, LaneInv, [Next]_vars PROVE LaneInv'
  <1> USE DEF IInv, LaneShape, TypeOK
  <1> USE DEF queueVars, workerVars, drainVars, stopVars
  <1>1. CASE UNCHANGED vars
    BY <1>1 DEF vars, LaneInv, Running
  <1>2. CASE Start \/ DrainBegin \/ \E p, j \in BOOLEAN : StopBegin(p, j)
    <2>1. /\ UNCHANGED <<slots, batch, cursor>> /\ ui' # "deliver" /\ (~Running' => ~Running)
          /\ ui # "deliver"
      BY <1>2 DEF Start, DrainBegin, StopBegin, MaySubmit, Running
    <2> QED BY <2>1 DEF LaneInv
  <1>3. CASE Wake \/ PickNothing \/ RunReturns \/ LaneRequest
    <2>1. UNCHANGED <<slots, batch, cursor, ui>> /\ Running'
      BY <1>3 DEF Wake, PickNothing, RunReturns, LaneRequest, Notify, LaneAt, Running
    <2> QED BY <2>1 DEF LaneInv
  <1>12. CASE Receive \/ Acknowledge \/ SetTarget \/ ClearTarget \/ OtherRequest
    <2>1. /\ UNCHANGED <<slots, batch, cursor, pc>>
          /\ ui' = ui \/ (ui # "deliver" /\ ui' # "deliver")
      BY <1>12 DEF Receive, Acknowledge, SetTarget, ClearTarget, OtherRequest, OtherAt
    <2> QED BY <2>1 DEF LaneInv, Running
  <1>4. CASE Deliver
    <2>1. UNCHANGED <<slots, batch, pc>> /\ cursor' \in Slots /\ batch[cursor'].state = "Complete"
      BY <1>4 DEF Deliver
    <2> QED BY <2>1, SlotsFacts DEF LaneInv, Running
  <1>5. ASSUME NEW w \in Work, Enqueue(w) PROVE LaneInv'
    <2>1. UNCHANGED <<batch, cursor, ui, pc>> /\ Running
      BY <1>5 DEF Enqueue
    <2> QED BY <2>1 DEF LaneInv, Running
  <1>6. CASE Collect
    <2>1. /\ \A i \in Slots : /\ slots[i].state = "Complete" => slots'[i] = EmptySlot /\ batch'[i] = slots[i]
                              /\ slots[i].state # "Complete" => slots'[i] = slots[i] /\ batch'[i] = EmptySlot
          /\ ui' = "deliver" /\ UNCHANGED <<pc, cursor>> /\ cursor = -1
      BY <1>6 DEF Collect, UiShape
    <2> QED BY <2>1, EmptySlotFacts DEF LaneInv, Running, Shape
  <1>7. CASE DrainEnd
    <2>1. /\ \A i \in Slots : batch'[i] = EmptySlot
          /\ UNCHANGED <<slots, pc, cursor>> /\ cursor = -1
      BY <1>7, EmptySlotFacts DEF DrainEnd, UiShape
    <2> QED BY <2>1, EmptySlotFacts DEF LaneInv, Running
  <1>8. CASE CompleteReturns
    <2>1. ui' = "deliver" /\ UNCHANGED <<slots, pc>> /\ cursor' = -1
      BY <1>8 DEF CompleteReturns
    <2>2. \A i \in Slots : batch'[i] = IF i = cursor THEN EmptySlot ELSE batch[i]
      BY <1>8 DEF CompleteReturns
    <2> QED BY <2>1, <2>2, EmptySlotFacts DEF LaneInv, Running
  <1>9. CASE StopScan \/ StopGivesUp
    <2>1. /\ UNCHANGED <<batch, cursor, pc>> /\ Running
          /\ ui \in {"scan", "bounded"}
      BY <1>9 DEF StopScan, StopGivesUp, UiShape
    <2> QED BY <2>1 DEF LaneInv, Running
  <1>10. CASE StopJoins \/ JoinEnd
    <2>1. /\ \A i \in Slots : slots'[i] = EmptySlot
          /\ UNCHANGED <<batch, cursor>> /\ ui \in {"bounded", "join"}
      BY <1>10, EmptySlotFacts DEF StopJoins, JoinEnd, Reset
    <2> QED BY <2>1, EmptySlotFacts DEF LaneInv
  <1>11. CASE Pick \/ Publish
    <2>1. UNCHANGED <<batch, cursor, ui>> /\ Running'
      BY <1>11 DEF Pick, Publish, Running
    <2> QED BY <2>1 DEF LaneInv
  <1> QED
    BY <1>1, <1>2, <1>3, <1>4, <1>5, <1>6, <1>7, <1>8, <1>9, <1>10, <1>11, <1>12
       DEF Next, Drain, Worker, Stopping

LEMMA ResultsFinite ==
  ASSUME NEW a, NEW w
  PROVE  IsFiniteSet(Results(a, w)) /\ Cardinality(Results(a, w)) \in Nat
  <1>1. IsFiniteSet(Slots)
    BY ConstructionAssumption, FS_Interval DEF Slots
  <1>2. Results(a, w) \in SUBSET Slots
    BY DEF Results
  <1>3. IsFiniteSet(Results(a, w))
    BY <1>1, <1>2, FS_Subset
  <1> QED BY <1>3, FS_CardinalityType

\* The mapping, before and after a step.
LEMMA AnswersOf ==
  ASSUME NEW w
  PROVE  Answers(w) = IF IsOpen THEN Cardinality(Results(slots, w)) + Cardinality(Results(batch, w) \ {cursor})
                                ELSE 0
  BY DEF Answers, Results

LEMMA AnswersNext ==
  ASSUME NEW w
  PROVE  Answers(w)' = IF IsOpen' THEN Cardinality(Results(slots', w)) + Cardinality(Results(batch', w) \ {cursor'})
                                  ELSE 0
  BY DEF Answers, Results

LEMMA OwedOf ==
  ASSUME NEW w
  PROVE  w \in Owed <=> IsOpen /\ \E i \in Slots : slots[i].work = w /\ slots[i].state = "Queued"
  BY DEF Owed, InState

LEMMA OwedNext ==
  ASSUME NEW w
  PROVE  w \in Owed' <=> IsOpen' /\ \E i \in Slots : slots'[i].work = w /\ slots'[i].state = "Queued"
  BY DEF Owed, InState

\* The abstract lane's actions, by what the mapping makes of a step.
SameAnswers == \A u \in Work : Answers(u)' = Answers(u)

LEMMA LaneSame ==
  ASSUME IsOpen' = IsOpen, Owed' = Owed, InRun' = InRun, InCall' = InCall, SameAnswers
  PROVE  [Lane!Next]_(Lane!vars)
  BY DEF Lane!vars, InRun, InCall, SameAnswers, Owed

LEMMA LaneOpens ==
  ASSUME ~IsOpen, IsOpen', InRun = NoWork, Owed' = Owed, InRun' = InRun, InCall' = InCall, SameAnswers
  PROVE  Lane!Next
  <1>1. Lane!Open
    BY DEF Lane!Open, InRun, InCall, SameAnswers, Owed
  <1> QED BY <1>1 DEF Lane!Next

LEMMA LaneRequested ==
  ASSUME NEW w \in Work, IsOpen, IsOpen', Owed' = Owed \cup {w}, InRun' = InRun, InCall' = InCall, SameAnswers
  PROVE  Lane!Next
  <1>1. Lane!Request(w)
    BY DEF Lane!Request, InRun, InCall, SameAnswers, Owed
  <1> QED BY <1>1 DEF Lane!Next

LEMMA LaneBegins ==
  ASSUME NEW w \in Work, IsOpen, IsOpen', InRun = NoWork, w \in Owed, InRun' = w,
         Owed' = Owed \/ Owed' = Owed \ {w}, InCall' = InCall, SameAnswers
  PROVE  Lane!Next
  <1>1. Lane!Begin(w)
    BY DEF Lane!Begin, InRun, InCall, SameAnswers, Owed
  <1> QED BY <1>1 DEF Lane!Next

LEMMA LaneFinishes ==
  ASSUME NEW w \in Work, IsOpen' = IsOpen, InRun = w, InRun' = NoWork, Owed' = Owed, InCall' = InCall,
         \A u \in Work : Answers(u)' = IF u = w /\ IsOpen THEN Answers(u) + 1 ELSE Answers(u)
  PROVE  Lane!Next
  <1>1. Lane!Finish
    BY ConstructionAssumption DEF Lane!Finish, InRun, InCall, Owed
  <1> QED BY <1>1 DEF Lane!Next

LEMMA LaneCompletes ==
  ASSUME NEW w \in Work, IsOpen, IsOpen', InRun' = InRun, Owed' = Owed, InCall = NoWork, InCall' = w,
         Answers(w) > 0, \A u \in Work : Answers(u)' = IF u = w THEN Answers(u) - 1 ELSE Answers(u)
  PROVE  Lane!Next
  <1>1. Lane!Complete(w)
    BY DEF Lane!Complete, InRun, InCall, Owed
  <1> QED BY <1>1 DEF Lane!Next

LEMMA LaneReturns ==
  ASSUME IsOpen' = IsOpen, Owed' = Owed, InRun' = InRun, InCall # NoWork, InCall' = NoWork, SameAnswers
  PROVE  Lane!Next
  <1>1. Lane!Return
    BY DEF Lane!Return, InRun, InCall, SameAnswers, Owed
  <1> QED BY <1>1 DEF Lane!Next

LEMMA LaneCloses ==
  ASSUME IsOpen, ~IsOpen', Owed' = {}, InRun' = InRun, InCall' = InCall,
         \A u \in Work : Answers(u)' = 0
  PROVE  Lane!Next
  <1>1. Lane!Close
    BY DEF Lane!Close, InRun, InCall, Owed
  <1> QED BY <1>1 DEF Lane!Next

LEMMA KeptAnswers ==
  ASSUME IsOpen' = IsOpen,
         \A i \in Slots : /\ slots'[i].state = "Complete" <=> slots[i].state = "Complete"
                          /\ slots[i].state = "Complete" => slots'[i].work = slots[i].work,
         \A i \in Slots : /\ batch'[i].state = "Complete" /\ i # cursor' <=> batch[i].state = "Complete" /\ i # cursor
                          /\ batch[i].state = "Complete" /\ i # cursor => batch'[i].work = batch[i].work
  PROVE  SameAnswers
  <1> SUFFICES ASSUME NEW w \in Work PROVE Answers(w)' = Answers(w)
    BY DEF SameAnswers
  <1>1. Results(slots', w) = Results(slots, w)
    BY DEF Results
  <1>2. Results(batch', w) \ {cursor'} = Results(batch, w) \ {cursor}
    BY DEF Results
  <1> QED BY <1>1, <1>2, AnswersOf, AnswersNext

\* Where the worker's slot is left alone, so is the unit it runs.
LEMMA KeptRun ==
  ASSUME IInv, selected' = selected,
         \A i \in Slots : slots[i].state = "Running" => slots'[i].work = slots[i].work
  PROVE  InRun' = InRun
  <1>1. selected # -1 => selected \in Slots /\ slots[selected].state = "Running"
    BY DEF IInv, LaneShape, RunningSlotIsPinned, TypeOK
  <1> QED BY <1>1 DEF InRun

\* A step that leaves slots, batch and positions alone, and the lane open or
\* closed as it was.
LEMMA AsideIsSame ==
  ASSUME UNCHANGED <<slots, batch, cursor, selected>>, IsOpen' = IsOpen
  PROVE  [Lane!Next]_(Lane!vars)
  <1>1. SameAnswers
    BY KeptAnswers
  <1>2. Owed' = Owed
    BY DEF Owed, InState
  <1> QED BY <1>1, <1>2, LaneSame DEF InRun, InCall

\* A step of a closed lane that ends no run and no Complete.
LEMMA ClosedIsSame ==
  ASSUME ~IsOpen, ~IsOpen', InRun' = InRun, InCall' = InCall
  PROVE  [Lane!Next]_(Lane!vars)
  <1>1. Owed' = Owed
    BY DEF Owed
  <1>2. SameAnswers
    BY AnswersOf, AnswersNext DEF SameAnswers
  <1>3. IsOpen' = IsOpen
    BY DEF IsOpen
  <1> QED BY <1>1, <1>2, <1>3, LaneSame

LEMMA StartImplements == ASSUME IInv, LaneInv, Start PROVE Lane!Next
  <1>1. /\ ~IsOpen /\ IsOpen' /\ UNCHANGED <<slots, batch, cursor, selected>>
        /\ ui = "idle" /\ cursor = -1 /\ selected = -1 /\ ~Running
    BY DEF Start, IsOpen, Running, queueVars, drainVars, IInv, LaneShape, UiShape, RunningSlotIsPinned
  <1>2. \A i \in Slots : slots[i].state = "Empty" /\ batch[i].state = "Empty"
    BY <1>1 DEF LaneInv
  <1>3. Owed' = Owed
    <2>1. ASSUME NEW u PROVE u \in Owed' <=> u \in Owed
      BY <1>1, <1>2, OwedOf, OwedNext
    <2> QED BY <2>1
  <1>4. SameAnswers
    <2> SUFFICES ASSUME NEW w \in Work PROVE Answers(w)' = Answers(w)
      BY DEF SameAnswers
    <2>1. Results(slots', w) = {} /\ Results(batch', w) \ {cursor'} = {}
      BY <1>1, <1>2 DEF Results
    <2> QED BY <1>1, <2>1, AnswersOf, AnswersNext, FS_EmptySet
  <1> QED BY <1>1, <1>3, <1>4, LaneOpens DEF InRun, InCall

LEMMA RequestImplements == ASSUME IInv, NEW w \in Work, Enqueue(w) PROVE Lane!Next
  <1>1. UNCHANGED <<batch, cursor, selected, pc, stop>> /\ IsOpen /\ IsOpen'
    BY DEF Enqueue, workerVars, drainVars, IsOpen, Running
  <1> DEFINE r == [work |-> w, state |-> "Queued"]
  <1>2. PICK i \in InState("Empty") : slots' = [slots EXCEPT ![i] = r]
    BY DEF Enqueue
  <1>3. r.work = w /\ r.state = "Queued"
    OBVIOUS
  <1> HIDE DEF r
  <1>4. i \in Slots /\ slots[i].state = "Empty" /\ slots'[i] = r
        /\ \A j \in Slots \ {i} : slots'[j] = slots[j]
    BY <1>2 DEF InState, IInv, LaneShape, TypeOK
  <1>5. Owed' = Owed \cup {w}
    <2>1. ASSUME NEW u PROVE u \in Owed' <=> (u \in Owed \/ u = w)
      BY <1>1, <1>3, <1>4, OwedOf, OwedNext
    <2> QED BY <2>1
  <1>6. \A j \in Slots : /\ slots'[j].state = "Complete" <=> slots[j].state = "Complete"
                         /\ slots[j].state \in {"Running", "Complete"} => slots'[j].work = slots[j].work
    BY <1>3, <1>4
  <1>7. SameAnswers
    BY <1>1, <1>6, KeptAnswers
  <1>8. InRun' = InRun
    BY <1>1, <1>6, KeptRun
  <1> QED BY <1>1, <1>5, <1>7, <1>8, LaneRequested DEF InCall

LEMMA CollectImplements == ASSUME IInv, LaneInv, Collect PROVE [Lane!Next]_(Lane!vars)
  <1>1. /\ \A i \in Slots : /\ slots[i].state = "Complete" => slots'[i] = EmptySlot /\ batch'[i] = slots[i]
                            /\ slots[i].state # "Complete" => slots'[i] = slots[i] /\ batch'[i] = EmptySlot
        /\ ui = "collect" /\ UNCHANGED <<pc, stop, selected, cursor>>
    BY DEF Collect, workerVars
  <1>2. cursor = -1 /\ \A i \in Slots : batch[i].state = "Empty"
    BY <1>1 DEF IInv, LaneShape, UiShape, LaneInv
  <1>3. IsOpen' = IsOpen
    BY <1>1 DEF IsOpen, Running
  <1>4. Owed' = Owed
    <2>1. ASSUME NEW u PROVE u \in Owed' <=> u \in Owed
      BY <1>1, <1>3, EmptySlotFacts, OwedOf, OwedNext
    <2> QED BY <2>1
  <1>5. SameAnswers
    <2> SUFFICES ASSUME NEW w \in Work PROVE Answers(w)' = Answers(w)
      BY DEF SameAnswers
    <2>1. Results(slots', w) = {} /\ Results(batch, w) \ {cursor} = {}
      BY <1>1, <1>2, EmptySlotFacts DEF Results
    <2>2. Results(batch', w) \ {cursor'} = Results(slots, w)
      BY <1>1, <1>2, EmptySlotFacts, SlotsFacts DEF Results
    <2> QED BY <1>3, <2>1, <2>2, AnswersOf, AnswersNext, FS_EmptySet, ResultsFinite
  <1>6. InRun' = InRun
    BY <1>1, KeptRun
  <1>7. InCall' = InCall
    BY <1>1, <1>2 DEF InCall
  <1> QED BY <1>3, <1>4, <1>5, <1>6, <1>7, LaneSame

LEMMA DeliverImplements == ASSUME IInv, LaneInv, Deliver PROVE Lane!Next
  <1>1. PICK i \in Slots : batch[i].state = "Complete" /\ cursor' = i
    BY DEF Deliver
  <1>2. IsOpen /\ IsOpen' /\ cursor = -1 /\ UNCHANGED <<slots, batch, selected>>
    BY DEF Deliver, IsOpen, Running, queueVars, workerVars, IInv, LaneShape, UiShape
  <1> DEFINE w == batch[i].work
  <1>3. w \in Work
    BY <1>1 DEF IInv, LaneShape, TypeOK, LaneInv, Slot
  <1>4. Owed' = Owed
    <2>1. ASSUME NEW u PROVE u \in Owed' <=> u \in Owed
      BY <1>2, OwedOf, OwedNext
    <2> QED BY <2>1
  <1>5. InRun' = InRun /\ InCall = NoWork /\ InCall' = w
    BY <1>1, <1>2, SlotsFacts DEF InRun, InCall
  <1>6. ASSUME NEW u \in Work
        PROVE  /\ Answers(u)' = IF u = w THEN Answers(u) - 1 ELSE Answers(u)
               /\ u = w => Answers(u) > 0
    <2>1. Results(batch, u) \ {cursor} = Results(batch, u)
      BY <1>2, SlotsFacts DEF Results
    <2>2. i \in Results(batch, u) <=> u = w
      BY <1>1 DEF Results
    <2>3. Cardinality(Results(batch, u) \ {i}) =
            IF u = w THEN Cardinality(Results(batch, u)) - 1 ELSE Cardinality(Results(batch, u))
      BY <2>2, ResultsFinite, FS_RemoveElement
    <2>4. Cardinality(Results(batch, u) \ {i}) \in Nat
      BY ResultsFinite, FS_RemoveElement, FS_CardinalityType
    <2>5. Answers(u) = Cardinality(Results(slots, u)) + Cardinality(Results(batch, u))
      BY <1>2, <2>1, AnswersOf
    <2>6. Answers(u)' = Cardinality(Results(slots, u)) + Cardinality(Results(batch, u) \ {i})
      BY <1>1, <1>2, AnswersNext
    <2> QED BY <2>3, <2>4, <2>5, <2>6, ResultsFinite
  <1> HIDE DEF w
  <1> QED BY <1>2, <1>3, <1>4, <1>5, <1>6, LaneCompletes

LEMMA CompleteReturnsImplements == ASSUME IInv, LaneInv, CompleteReturns PROVE Lane!Next
  <1>1. cursor \in Slots /\ batch[cursor].state = "Complete" /\ batch[cursor].work # NoWork
    BY DEF CompleteReturns, IInv, LaneShape, TypeOK, UiShape, LaneInv
  <1>2. /\ UNCHANGED <<slots, selected>> /\ IsOpen' = IsOpen /\ cursor' = -1
        /\ \A i \in Slots : batch'[i] = IF i = cursor THEN EmptySlot ELSE batch[i]
    BY <1>1 DEF CompleteReturns, queueVars, workerVars, IsOpen, Running, IInv, LaneShape, TypeOK
  <1>3. SameAnswers
    <2>1. \A i \in Slots : /\ batch'[i].state = "Complete" /\ i # cursor' <=> batch[i].state = "Complete" /\ i # cursor
                           /\ batch[i].state = "Complete" /\ i # cursor => batch'[i].work = batch[i].work
      BY <1>1, <1>2, EmptySlotFacts, SlotsFacts
    <2> QED BY <1>2, <2>1, KeptAnswers
  <1>4. Owed' = Owed
    <2>1. ASSUME NEW u PROVE u \in Owed' <=> u \in Owed
      BY <1>2, OwedOf, OwedNext
    <2> QED BY <2>1
  <1>5. InRun' = InRun
    BY <1>2 DEF InRun
  <1>6. InCall # NoWork /\ InCall' = NoWork
    BY <1>1, <1>2, SlotsFacts DEF InCall
  <1> QED BY <1>2, <1>3, <1>4, <1>5, <1>6, LaneReturns

LEMMA DrainEndImplements == ASSUME IInv, LaneInv, DrainEnd PROVE [Lane!Next]_(Lane!vars)
  <1>1. /\ \A i \in Slots : batch'[i] = EmptySlot
        /\ UNCHANGED <<slots, pc, stop, selected, cursor>> /\ cursor = -1
        /\ IsOpen => \A i \in Slots : batch[i].state # "Complete"
    BY EmptySlotFacts DEF DrainEnd, queueVars, workerVars, IInv, LaneShape, UiShape, IsOpen
  <1>2. IsOpen' = IsOpen
    BY <1>1 DEF IsOpen, Running
  <1>3. Owed' = Owed
    <2>1. ASSUME NEW u PROVE u \in Owed' <=> u \in Owed
      BY <1>1, <1>2, OwedOf, OwedNext
    <2> QED BY <2>1
  <1>4. SameAnswers
    <2>1. CASE IsOpen
      BY <1>1, <1>2, <2>1, EmptySlotFacts, KeptAnswers
    <2>2. CASE ~IsOpen
      BY <1>2, <2>2, AnswersOf, AnswersNext DEF SameAnswers
    <2> QED BY <2>1, <2>2
  <1>5. InRun' = InRun /\ InCall' = InCall
    BY <1>1 DEF InRun, InCall
  <1> QED BY <1>2, <1>3, <1>4, <1>5, LaneSame

\* The first stop closes the lane, before its lock section discards anything.
LEMMA StopBeginImplements ==
  ASSUME NEW p, NEW j, StopBegin(p, j)
  PROVE  [Lane!Next]_(Lane!vars)
  <1>1. ~IsOpen' /\ UNCHANGED <<slots, batch, cursor, selected>>
    BY DEF StopBegin, IsOpen, workerVars, drainVars
  <1>2. InRun' = InRun /\ InCall' = InCall
    BY <1>1 DEF InRun, InCall
  <1>3. CASE IsOpen
    <2>1. Owed' = {}
      BY <1>1 DEF Owed
    <2>2. \A u \in Work : Answers(u)' = 0
      BY <1>1, AnswersNext
    <2> QED BY <1>1, <1>2, <1>3, <2>1, <2>2, LaneCloses
  <1>4. CASE ~IsOpen
    BY <1>1, <1>2, <1>4, ClosedIsSame
  <1> QED BY <1>3, <1>4

LEMMA StoppingImplements == ASSUME IInv, Stopping PROVE [Lane!Next]_(Lane!vars)
  <1> USE DEF queueVars, workerVars, drainVars, stopVars
  <1>1. ~IsOpen
    BY DEF Stopping, StopScan, StopJoins, StopGivesUp, JoinEnd, IInv, LaneShape, UiShape, IsOpen
  <1>2. CASE StopScan
    <2>1. /\ \A i \in Slots : slots[i].state = "Running" => slots'[i] = slots[i]
          /\ UNCHANGED <<batch, cursor, selected, pc, stop>>
      BY <1>2 DEF StopScan
    <2>2. InRun' = InRun /\ InCall' = InCall
      BY <2>1, KeptRun DEF InCall
    <2>3. ~IsOpen'
      BY <1>1, <2>1 DEF IsOpen, Running
    <2> QED BY <1>1, <2>2, <2>3, ClosedIsSame
  <1>3. CASE StopGivesUp
    <2>1. UNCHANGED <<slots, batch, cursor, selected, pc, stop>>
      BY <1>3 DEF StopGivesUp
    <2> QED BY <2>1, AsideIsSame DEF IsOpen, Running
  <1>4. CASE StopJoins \/ JoinEnd
    <2>1. UNCHANGED <<batch, cursor>> /\ selected = -1 /\ selected' = -1 /\ ~IsOpen'
      BY <1>4 DEF StopJoins, JoinEnd, Reset, IsOpen, Running, IInv, LaneShape, RunningSlotIsPinned
    <2>2. InRun' = InRun /\ InCall' = InCall
      BY <2>1 DEF InRun, InCall
    <2> QED BY <1>1, <2>1, <2>2, ClosedIsSame
  <1> QED BY <1>2, <1>3, <1>4 DEF Stopping

LEMMA PickImplements == ASSUME IInv, Pick PROVE Lane!Next
  <1>1. PICK i \in Slots : /\ slots[i].state = "Queued"
                           /\ selected' = i
                           /\ slots' = [slots EXCEPT ![i].state = "Running"]
    BY DEF Pick, InState
  <1>2. IsOpen /\ IsOpen' /\ UNCHANGED <<batch, cursor>> /\ selected = -1
    BY DEF Pick, IsOpen, Running, drainVars, IInv, LaneShape, RunningSlotIsPinned
  <1> DEFINE w == slots[i].work
  <1>3. w \in Work /\ slots[i] \in Slot
    BY <1>1 DEF IInv, LaneShape, TypeOK, Shape, Slot
  <1>4. /\ slots'[i].work = w /\ slots'[i].state = "Running"
        /\ \A j \in Slots \ {i} : slots'[j] = slots[j]
    BY <1>1, <1>3 DEF Slot, IInv, LaneShape, TypeOK
  <1>5. w \in Owed
    BY <1>1, <1>2, OwedOf
  <1>6. SameAnswers
    BY <1>1, <1>2, <1>4, KeptAnswers
  <1>7. ASSUME NEW u PROVE /\ u \in Owed' => u \in Owed
                           /\ u \in Owed /\ u # w => u \in Owed'
    BY <1>1, <1>2, <1>4, OwedOf, OwedNext
  <1>8. Owed' = Owed \/ Owed' = Owed \ {w}
    <2> HIDE DEF w
    <2>1. CASE w \in Owed'
      BY <1>7, <2>1
    <2>2. CASE w \notin Owed'
      BY <1>7, <2>2
    <2> QED BY <2>1, <2>2
  <1>9. InRun = NoWork /\ InRun' = w
    BY <1>1, <1>2, <1>4, SlotsFacts DEF InRun
  <1>10. InCall' = InCall
    BY <1>2 DEF InCall
  <1> HIDE DEF w
  <1> QED BY <1>2, <1>3, <1>5, <1>6, <1>8, <1>9, <1>10, LaneBegins

LEMMA PublishImplements == ASSUME IInv, Publish PROVE Lane!Next
  <1>1. selected \in Slots /\ slots[selected].state = "Running"
    BY DEF Publish, IInv, LaneShape, RunningSlotIsPinned, TypeOK
  <1>2. IsOpen' = IsOpen /\ UNCHANGED <<batch, cursor>> /\ selected' = -1
    BY DEF Publish, IsOpen, Running, drainVars
  <1> DEFINE w == slots[selected].work
  <1>3. w \in Work /\ slots[selected] \in Slot
    BY <1>1 DEF IInv, LaneShape, TypeOK, Shape, Slot
  <1>4. /\ slots'[selected].work = w /\ slots'[selected].state = "Complete"
        /\ \A j \in Slots \ {selected} : slots'[j] = slots[j]
    BY <1>1, <1>3 DEF Publish, Slot, IInv, LaneShape, TypeOK
  <1>5. Owed' = Owed
    <2>1. ASSUME NEW u PROVE u \in Owed' <=> u \in Owed
      BY <1>1, <1>2, <1>4, OwedOf, OwedNext
    <2> QED BY <2>1
  <1>6. ASSUME NEW u \in Work PROVE Answers(u)' = IF u = w /\ IsOpen THEN Answers(u) + 1 ELSE Answers(u)
    <2>1. Results(slots', u) = IF u = w THEN Results(slots, u) \cup {selected} ELSE Results(slots, u)
      BY <1>1, <1>4 DEF Results
    <2>2. selected \notin Results(slots, u)
      BY <1>1 DEF Results
    <2>3. Cardinality(Results(slots', u)) =
            IF u = w THEN Cardinality(Results(slots, u)) + 1 ELSE Cardinality(Results(slots, u))
      BY <2>1, <2>2, ResultsFinite, FS_AddElement
    <2>4. Cardinality(Results(batch, u) \ {cursor}) \in Nat
      BY ResultsFinite, FS_RemoveElement, FS_CardinalityType
    <2> HIDE DEF w
    <2>5. CASE IsOpen
      <3>1. Answers(u) = Cardinality(Results(slots, u)) + Cardinality(Results(batch, u) \ {cursor})
        BY <2>5, AnswersOf
      <3>2. Answers(u)' = Cardinality(Results(slots', u)) + Cardinality(Results(batch, u) \ {cursor})
        BY <1>2, <2>5, AnswersNext
      <3> QED BY <2>3, <2>4, <2>5, <3>1, <3>2, ResultsFinite
    <2>6. CASE ~IsOpen
      BY <1>2, <2>6, AnswersOf, AnswersNext
    <2> QED BY <2>5, <2>6
  <1>7. InRun = w /\ InRun' = NoWork
    BY <1>1, <1>2, SlotsFacts DEF InRun
  <1>8. InCall' = InCall
    BY <1>2 DEF InCall
  <1> HIDE DEF w
  <1> QED BY <1>2, <1>3, <1>5, <1>6, <1>7, <1>8, LaneFinishes

\* Every step maps to a step of the abstract lane or to a stutter.
LEMMA StepImplements == ASSUME IInv, LaneInv, [Next]_vars PROVE [Lane!Next]_(Lane!vars)
  <1> USE DEF queueVars, workerVars, drainVars, stopVars
  <1>1. CASE UNCHANGED vars
    BY <1>1, AsideIsSame DEF vars, IsOpen, Running
  <1>2. CASE Receive \/ Acknowledge \/ DrainBegin \/ SetTarget \/ ClearTarget \/ OtherRequest
    <2>1. UNCHANGED <<slots, batch, cursor, selected, pc, stop>>
      BY <1>2 DEF Receive, Acknowledge, DrainBegin, SetTarget, ClearTarget, OtherRequest, OtherAt
    <2> QED BY <2>1, AsideIsSame DEF IsOpen, Running
  <1>3. CASE Wake \/ PickNothing \/ RunReturns \/ LaneRequest
    <2>1. UNCHANGED <<slots, batch, cursor, selected, stop>> /\ Running /\ Running'
      BY <1>3 DEF Wake, PickNothing, RunReturns, LaneRequest, Notify, LaneAt, Running
    <2> QED BY <2>1, AsideIsSame DEF IsOpen
  <1>4. CASE Start
    BY <1>4, StartImplements
  <1>5. ASSUME NEW w \in Work, Enqueue(w) PROVE Lane!Next
    BY <1>5, RequestImplements
  <1>6. CASE Collect
    BY <1>6, CollectImplements
  <1>7. CASE Deliver
    BY <1>7, DeliverImplements
  <1>8. CASE DrainEnd
    BY <1>8, DrainEndImplements
  <1>9. CASE CompleteReturns
    BY <1>9, CompleteReturnsImplements
  <1>10. CASE StopBegin(FALSE, TRUE) \/ \E p \in BOOLEAN : StopBegin(p, FALSE)
    BY <1>10, StopBeginImplements
  <1>11. CASE Stopping
    BY <1>11, StoppingImplements
  <1>12. CASE Pick
    BY <1>12, PickImplements
  <1>13. CASE Publish
    BY <1>13, PublishImplements
  <1> HIDE DEF queueVars, workerVars, drainVars, stopVars
  <1> QED
    BY <1>1, <1>2, <1>3, <1>4, <1>5, <1>6, <1>7, <1>8, <1>9, <1>10, <1>11, <1>12, <1>13 DEF Next, Drain, Worker

LEMMA InitImplements == ASSUME Init PROVE Lane!Init
  <1>1. ~IsOpen /\ InRun = NoWork /\ InCall = NoWork
    BY DEF Init, IsOpen, Running, InRun, InCall
  <1>2. Owed = {}
    BY <1>1 DEF Owed
  <1>3. \A w \in Work : Answers(w) = 0
    BY <1>1, AnswersOf
  <1> QED BY <1>1, <1>2, <1>3 DEF Lane!Init, InRun, InCall, Owed

LEMMA LaneInvariance == Spec => [](IInv /\ LaneInv)
  <1>1. Init => IInv /\ LaneInv
    BY InitInv, InitLane
  <1>2. IInv /\ LaneInv /\ [Next]_vars => (IInv /\ LaneInv)'
    BY NextInv, NextLane
  <1> QED BY <1>1, <1>2, PTL DEF Spec

\* THEOREM: the queue implements the abstract lane, for any number of units
\* and slots: accepted units run once and complete once; a stop drops what is
\* queued, suppresses every completion, also those of a drain it interrupts,
\* and lets a unit still running end unanswered.
THEOREM LaneIsImplemented == Spec => ImplementsLane
  <1>1. Init => Lane!Init
    BY InitImplements
  <1>2. IInv /\ LaneInv /\ [Next]_vars => [Lane!Next]_(Lane!vars)
    BY StepImplements
  <1> QED BY <1>1, <1>2, LaneInvariance, PTL DEF Spec, ImplementsLane, Lane!Spec
=============================================================================
