----------------------- MODULE ControlWorkQueue_proofs -----------------------
(***************************************************************************)
(* The control lane's invariants for every number of slots and every set   *)
(* of units.  IInv is the inductive invariant: the type invariant, the     *)
(* shape of slots and batch, where each thread's locals are meaningful, and*)
(* the three-way exclusion that makes the wake message unique.             *)
(***************************************************************************)
EXTENDS ControlWorkQueue, FiniteSetTheorems, TLAPS

\* A slot without a unit is empty, a slot with one is not; the batch holds
\* results only.
Shape ==
  /\ \A i \in Slots : slots[i].state = "Empty" <=> slots[i].work = NoWork
  /\ \A i \in Slots : /\ batch[i].state \in {"Empty", "Complete"}
                      /\ batch[i].state = "Empty" <=> batch[i].work = NoWork

\* At most one of: a message in the queue, one being acknowledged, one about
\* to be posted.
OneMessage == /\ pc = "post" => posted = 0 /\ ui # "ack"
              /\ ui = "ack" => posted = 0

\* _completed covers every uncollected result, and a UI visit covers it.
FlagCovers ==
  /\ InState("Complete") # {} => completed \/ ui \in {"collect", "join"}
  /\ completed => \/ pc \in {"notify", "post"}
                  \/ posted > 0
                  \/ ui \in {"ack", "drain", "join"}
                  \/ postLost

\* A callback is on the stack exactly where cursor points at a result.
CursorShape == /\ ui = "callback" => cursor # -1
               /\ cursor # -1 => batch[cursor].state = "Complete"
               /\ ui \notin {"callback", "join"} => cursor = -1
               /\ ui = "join" => Running

IInv == /\ TypeOK
        /\ Shape
        /\ OneSlotPerUnit
        /\ RunningSlotIsPinned
        /\ OneMessage
        /\ PostsAreCoalesced
        /\ FlagCovers
        /\ CursorShape

LEMMA SlotsFacts == /\ Slots \subseteq Int
                    /\ Capacity - 1 \in Slots
                    /\ -1 \notin Slots
  BY ControlAssumption DEF Slots

LEMMA EmptySlotFacts == /\ EmptySlot \in Slot
                        /\ EmptySlot.work = NoWork
                        /\ EmptySlot.state = "Empty"
  BY DEF EmptySlot, Slot, SlotStates

\* The initial state satisfies the inductive invariant.
LEMMA InitInv == Init => IInv
  <1> SUFFICES ASSUME Init PROVE IInv
    OBVIOUS
  <1>1. \A i \in Slots : slots[i] = EmptySlot /\ batch[i] = EmptySlot
    BY DEF Init, EmptySlots
  <1>2. TypeOK
    <2>1. EmptySlots \in [Slots -> Slot]
      BY EmptySlotFacts DEF EmptySlots
    <2>2. slots \in [Slots -> Slot] /\ batch \in [Slots -> Slot]
      BY <2>1 DEF Init
    <2>3. lastSelected \in Slots /\ posted \in 0 .. 1
      BY SlotsFacts DEF Init
    <2> QED BY <2>2, <2>3 DEF Init, TypeOK, WorkerStates, UiStates
  <1>3. Shape /\ OneSlotPerUnit /\ RunningSlotIsPinned
    BY <1>1, SlotsFacts, EmptySlotFacts
       DEF Init, Shape, OneSlotPerUnit, RunningSlotIsPinned
  <1>4. OneMessage /\ PostsAreCoalesced /\ FlagCovers /\ CursorShape
    BY <1>1, EmptySlotFacts
       DEF Init, OneMessage, PostsAreCoalesced, FlagCovers, CursorShape, InState
  <1> QED BY <1>2, <1>3, <1>4 DEF IInv

LEMMA EnqueueInv == ASSUME IInv, NEW w \in Work, Coalesce(w) \/ Admit(w) 
                    PROVE  /\ slots' \in [Slots -> Slot]
                           /\ ready' \in BOOLEAN
                           /\ \A i \in Slots : slots'[i].state = "Empty" <=> slots'[i].work = NoWork
                           /\ \A i, j \in Slots : slots'[i].work = slots'[j].work /\ slots'[i].work # NoWork => i = j
                           /\ \A i \in Slots : slots'[i].state = "Running" <=> slots[i].state = "Running"
                           /\ \A i \in Slots : slots'[i].state = "Complete" <=> slots[i].state = "Complete"
  <1> USE DEF IInv, TypeOK, Shape, OneSlotPerUnit
  <1>1. CASE Coalesce(w)
    <2>1. PICK i \in Holding(w) :
             slots' = [slots EXCEPT ![i].rerun = @ \/ slots[i].state # "Queued"]
      BY <1>1 DEF Coalesce
    <2>2. slots' \in [Slots -> Slot]
      <3>1. i \in Slots /\ slots[i] \in Slot
        BY DEF Holding
      <3> DEFINE r == [slots[i] EXCEPT !.rerun = @ \/ slots[i].state # "Queued"]
      <3>2. r.rerun \in BOOLEAN
        BY <3>1 DEF Slot
      <3>3. r \in Slot
        BY <3>1, <3>2 DEF Slot
      <3>4. slots' = [slots EXCEPT ![i] = r]
        BY <2>1, <3>1
      <3> QED BY <3>1, <3>3, <3>4
    <2>3. \A j \in Slots : slots'[j].state = slots[j].state /\ slots'[j].work = slots[j].work
      BY <2>1 DEF Holding, Slot
    <2> QED BY <1>1, <2>2, <2>3 DEF Coalesce
  <1>2. CASE Admit(w)
    <2>0. w # NoWork
      BY ControlAssumption
    <2>1. PICK i \in InState("Empty") :
             slots' = [slots EXCEPT ![i] = [work |-> w, state |-> "Queued", rerun |-> FALSE]]
      BY <1>2 DEF Admit
    <2>2. slots' \in [Slots -> Slot]
      BY <2>1 DEF InState, Slot, SlotStates
    <2>3. \A j \in Slots : j # i => slots'[j] = slots[j]
      BY <2>1 DEF InState
    <2>4. slots'[i].work = w /\ slots'[i].state = "Queued" /\ i \in Slots /\ slots[i].state = "Empty"
      BY <2>1 DEF InState
    <2>5. \A j \in Slots : slots[j].work # w
      BY <1>2 DEF Admit, Holding
    <2> QED BY <1>2, <2>0, <2>2, <2>3, <2>4, <2>5 DEF Admit
  <1> QED BY <1>1, <1>2

\* What an action that leaves slots and batch alone need not argue about.
LEMMA SameSlots ==
  ASSUME IInv, UNCHANGED <<slots, batch>>
  PROVE  /\ slots' \in [Slots -> Slot] /\ batch' \in [Slots -> Slot]
         /\ Shape'
         /\ OneSlotPerUnit'
         /\ \A s : InState(s)' = InState(s)
  BY DEF IInv, TypeOK, Shape, OneSlotPerUnit, InState

\* Every step preserves the inductive invariant: one step per action.
LEMMA NextInv == IInv /\ [Next]_vars => IInv'
  <1> SUFFICES ASSUME IInv, [Next]_vars PROVE IInv'
    OBVIOUS
  <1> USE DEF IInv
  <1> USE DEF queueVars, workerVars, uiVars, postVars
  <1>1. CASE Start
    <2>1. UNCHANGED <<slots, batch>>
      BY <1>1 DEF Start
    <2>2. TypeOK'
      BY <1>1, <2>1, SlotsFacts DEF Start, TypeOK, WorkerStates, UiStates
    <2>3. Shape' /\ OneSlotPerUnit'
      BY <2>1, SameSlots
    <2>4. RunningSlotIsPinned'
      BY <1>1, <2>1, SlotsFacts DEF Start, RunningSlotIsPinned, TypeOK, Running
    <2>5. OneMessage' /\ PostsAreCoalesced'
      BY <1>1 DEF Start, OneMessage, PostsAreCoalesced, TypeOK, Running
    <2>6. FlagCovers' /\ CursorShape'
      BY <1>1, <2>1, SameSlots
         DEF Start, FlagCovers, CursorShape, OneMessage, PostsAreCoalesced,
             TypeOK, Running
    <2> QED BY <2>2, <2>3, <2>4, <2>5, <2>6
  <1>2. CASE Receive
    <2>1. UNCHANGED <<slots, batch>>
      BY <1>2 DEF Receive
    <2>2. TypeOK'
      BY <1>2, <2>1, SlotsFacts DEF Receive, TypeOK, WorkerStates, UiStates
    <2>3. Shape' /\ OneSlotPerUnit'
      BY <2>1, SameSlots
    <2>4. RunningSlotIsPinned'
      BY <1>2, <2>1, SlotsFacts DEF Receive, RunningSlotIsPinned, TypeOK
    <2>5. OneMessage' /\ PostsAreCoalesced'
      BY <1>2 DEF Receive, OneMessage, PostsAreCoalesced, TypeOK
    <2>6. FlagCovers' /\ CursorShape'
      BY <1>2, <2>1, SameSlots
         DEF Receive, FlagCovers, CursorShape, OneMessage, PostsAreCoalesced,
             TypeOK, Running
    <2> QED BY <2>2, <2>3, <2>4, <2>5, <2>6
  <1>3. CASE Acknowledge
    <2>1. UNCHANGED <<slots, batch>>
      BY <1>3 DEF Acknowledge
    <2>2. TypeOK'
      BY <1>3, <2>1, SlotsFacts DEF Acknowledge, TypeOK, WorkerStates, UiStates
    <2>3. Shape' /\ OneSlotPerUnit'
      BY <2>1, SameSlots
    <2>4. RunningSlotIsPinned'
      BY <1>3, <2>1, SlotsFacts DEF Acknowledge, RunningSlotIsPinned, TypeOK
    <2>5. OneMessage' /\ PostsAreCoalesced'
      BY <1>3 DEF Acknowledge, OneMessage, PostsAreCoalesced, TypeOK
    <2>6. FlagCovers' /\ CursorShape'
      BY <1>3, <2>1, SameSlots
         DEF Acknowledge, FlagCovers, CursorShape, OneMessage, PostsAreCoalesced,
             TypeOK, Running
    <2> QED BY <2>2, <2>3, <2>4, <2>5, <2>6
  <1>4. CASE DrainBegin
    <2>1. UNCHANGED <<slots, batch>>
      BY <1>4 DEF DrainBegin
    <2>2. TypeOK'
      BY <1>4, <2>1, SlotsFacts DEF DrainBegin, TypeOK, WorkerStates, UiStates
    <2>3. Shape' /\ OneSlotPerUnit'
      BY <2>1, SameSlots
    <2>4. RunningSlotIsPinned'
      BY <1>4, <2>1, SlotsFacts DEF DrainBegin, RunningSlotIsPinned, TypeOK
    <2>5. OneMessage' /\ PostsAreCoalesced'
      BY <1>4 DEF DrainBegin, OneMessage, PostsAreCoalesced, TypeOK
    <2>6. FlagCovers' /\ CursorShape'
      BY <1>4, <2>1, SameSlots
         DEF DrainBegin, FlagCovers, CursorShape, OneMessage, PostsAreCoalesced,
             TypeOK, Running
    <2> QED BY <2>2, <2>3, <2>4, <2>5, <2>6
  <1>5. CASE Deliver
    <2>1. UNCHANGED <<slots, batch>>
      BY <1>5 DEF Deliver
    <2>2. TypeOK'
      BY <1>5, <2>1, SlotsFacts DEF Deliver, TypeOK, WorkerStates, UiStates
    <2>3. Shape' /\ OneSlotPerUnit'
      BY <2>1, SameSlots
    <2>4. RunningSlotIsPinned'
      BY <1>5, <2>1, SlotsFacts DEF Deliver, RunningSlotIsPinned, TypeOK
    <2>5. OneMessage' /\ PostsAreCoalesced'
      BY <1>5 DEF Deliver, OneMessage, PostsAreCoalesced, TypeOK
    <2>6. FlagCovers' /\ CursorShape'
      BY <1>5, <2>1, SameSlots, SlotsFacts
         DEF Deliver, FlagCovers, CursorShape, OneMessage, PostsAreCoalesced,
             TypeOK, Running
    <2> QED BY <2>2, <2>3, <2>4, <2>5, <2>6
  <1>6. CASE StopBegin
    <2>1. UNCHANGED <<slots, batch>>
      BY <1>6 DEF StopBegin
    <2>2. TypeOK'
      BY <1>6, <2>1, SlotsFacts DEF StopBegin, TypeOK, WorkerStates, UiStates
    <2>3. Shape' /\ OneSlotPerUnit'
      BY <2>1, SameSlots
    <2>4. RunningSlotIsPinned'
      BY <1>6, <2>1, SlotsFacts DEF StopBegin, RunningSlotIsPinned, TypeOK
    <2>5. OneMessage' /\ PostsAreCoalesced'
      BY <1>6 DEF StopBegin, MaySubmit, OneMessage, PostsAreCoalesced,
                       TypeOK
    <2>6. FlagCovers' /\ CursorShape'
      BY <1>6, <2>1, SameSlots
         DEF StopBegin, FlagCovers, CursorShape, OneMessage, PostsAreCoalesced,
             TypeOK, Running
    <2> QED BY <2>2, <2>3, <2>4, <2>5, <2>6
  <1>7. CASE Wake
    <2>1. UNCHANGED <<slots, batch>>
      BY <1>7 DEF Wake
    <2>2. TypeOK'
      BY <1>7, <2>1, SlotsFacts DEF Wake, TypeOK, WorkerStates, UiStates
    <2>3. Shape' /\ OneSlotPerUnit'
      BY <2>1, SameSlots
    <2>4. RunningSlotIsPinned'
      BY <1>7, <2>1, SlotsFacts DEF Wake, RunningSlotIsPinned, TypeOK
    <2>5. OneMessage' /\ PostsAreCoalesced'
      BY <1>7 DEF Wake, OneMessage, PostsAreCoalesced, TypeOK
    <2>6. FlagCovers' /\ CursorShape'
      BY <1>7, <2>1, SameSlots
         DEF Wake, FlagCovers, CursorShape, OneMessage, PostsAreCoalesced,
             TypeOK, Running
    <2> QED BY <2>2, <2>3, <2>4, <2>5, <2>6
  <1>8. CASE CheckStop
    <2>1. UNCHANGED <<slots, batch>>
      BY <1>8 DEF CheckStop
    <2>2. TypeOK'
      BY <1>8, <2>1, SlotsFacts DEF CheckStop, TypeOK, WorkerStates, UiStates
    <2>3. Shape' /\ OneSlotPerUnit'
      BY <2>1, SameSlots
    <2>4. RunningSlotIsPinned'
      BY <1>8, <2>1, SlotsFacts DEF CheckStop, RunningSlotIsPinned, TypeOK
    <2>5. OneMessage' /\ PostsAreCoalesced'
      BY <1>8 DEF CheckStop, OneMessage, PostsAreCoalesced, TypeOK
    <2>6. FlagCovers' /\ CursorShape'
      BY <1>8, <2>1, SameSlots
         DEF CheckStop, FlagCovers, CursorShape, OneMessage, PostsAreCoalesced,
             TypeOK, Running
    <2> QED BY <2>2, <2>3, <2>4, <2>5, <2>6
  <1>9. CASE PickNothing
    <2>1. UNCHANGED <<slots, batch>>
      BY <1>9 DEF PickNothing
    <2>2. TypeOK'
      BY <1>9, <2>1, SlotsFacts DEF PickNothing, TypeOK, WorkerStates, UiStates
    <2>3. Shape' /\ OneSlotPerUnit'
      BY <2>1, SameSlots
    <2>4. RunningSlotIsPinned'
      BY <1>9, <2>1, SlotsFacts DEF PickNothing, RunningSlotIsPinned, TypeOK
    <2>5. OneMessage' /\ PostsAreCoalesced'
      BY <1>9 DEF PickNothing, OneMessage, PostsAreCoalesced, TypeOK
    <2>6. FlagCovers' /\ CursorShape'
      BY <1>9, <2>1, SameSlots
         DEF PickNothing, FlagCovers, CursorShape, OneMessage, PostsAreCoalesced,
             TypeOK, Running
    <2> QED BY <2>2, <2>3, <2>4, <2>5, <2>6
  <1>10. CASE RunReturns
    <2>1. UNCHANGED <<slots, batch>>
      BY <1>10 DEF RunReturns
    <2>2. TypeOK'
      BY <1>10, <2>1, SlotsFacts DEF RunReturns, TypeOK, WorkerStates, UiStates
    <2>3. Shape' /\ OneSlotPerUnit'
      BY <2>1, SameSlots
    <2>4. RunningSlotIsPinned'
      BY <1>10, <2>1, SlotsFacts DEF RunReturns, RunningSlotIsPinned, TypeOK
    <2>5. OneMessage' /\ PostsAreCoalesced'
      BY <1>10 DEF RunReturns, OneMessage, PostsAreCoalesced, TypeOK
    <2>6. FlagCovers' /\ CursorShape'
      BY <1>10, <2>1, SameSlots
         DEF RunReturns, FlagCovers, CursorShape, OneMessage, PostsAreCoalesced,
             TypeOK, Running
    <2> QED BY <2>2, <2>3, <2>4, <2>5, <2>6
  <1>11. CASE Notify
    <2>1. UNCHANGED <<slots, batch>>
      BY <1>11 DEF Notify
    <2>2. TypeOK'
      BY <1>11, <2>1, SlotsFacts DEF Notify, TypeOK, WorkerStates, UiStates
    <2>3. Shape' /\ OneSlotPerUnit'
      BY <2>1, SameSlots
    <2>4. RunningSlotIsPinned'
      BY <1>11, <2>1, SlotsFacts DEF Notify, RunningSlotIsPinned, TypeOK
    <2>5. OneMessage' /\ PostsAreCoalesced'
      BY <1>11 DEF Notify, OneMessage, PostsAreCoalesced, TypeOK
    <2>6. FlagCovers' /\ CursorShape'
      BY <1>11, <2>1, SameSlots
         DEF Notify, FlagCovers, CursorShape, OneMessage, PostsAreCoalesced,
             TypeOK, Running
    <2> QED BY <2>2, <2>3, <2>4, <2>5, <2>6
  <1>12. CASE Post
    <2>1. UNCHANGED <<slots, batch>>
      BY <1>12 DEF Post
    <2>2. TypeOK'
      <3>1. posted' = 1
        BY <1>12 DEF Post, OneMessage
      <3>2. posted' \in 0 .. 1
        BY <3>1
      <3> QED BY <1>12, <2>1, <3>2 DEF Post, TypeOK, WorkerStates
    <2>3. Shape' /\ OneSlotPerUnit'
      BY <2>1, SameSlots
    <2>4. RunningSlotIsPinned'
      BY <1>12, <2>1, SlotsFacts DEF Post, RunningSlotIsPinned, TypeOK
    <2>5. OneMessage' /\ PostsAreCoalesced'
      BY <1>12 DEF Post, OneMessage, PostsAreCoalesced, TypeOK
    <2>6. FlagCovers' /\ CursorShape'
      BY <1>12, <2>1, SameSlots
         DEF Post, FlagCovers, CursorShape, OneMessage, PostsAreCoalesced,
             TypeOK, Running
    <2> QED BY <2>2, <2>3, <2>4, <2>5, <2>6
  <1>13. CASE PostFails
    <2>1. UNCHANGED <<slots, batch>>
      BY <1>13 DEF PostFails
    <2>2. TypeOK'
      BY <1>13, <2>1, SlotsFacts DEF PostFails, TypeOK, WorkerStates, UiStates
    <2>3. Shape' /\ OneSlotPerUnit'
      BY <2>1, SameSlots
    <2>4. RunningSlotIsPinned'
      BY <1>13, <2>1, SlotsFacts DEF PostFails, RunningSlotIsPinned, TypeOK
    <2>5. OneMessage' /\ PostsAreCoalesced'
      BY <1>13 DEF PostFails, OneMessage, PostsAreCoalesced, TypeOK
    <2>6. FlagCovers' /\ CursorShape'
      BY <1>13, <2>1, SameSlots
         DEF PostFails, FlagCovers, CursorShape, OneMessage, PostsAreCoalesced,
             TypeOK, Running
    <2> QED BY <2>2, <2>3, <2>4, <2>5, <2>6
  <1>14. CASE \E w \in Work : Enqueue(w)
    <2>1. /\ slots' \in [Slots -> Slot] /\ ready' \in BOOLEAN
          /\ UNCHANGED <<batch, selected, pc, ui, cursor, completed, posted,
                        pending, postLost>>
          /\ Shape' /\ OneSlotPerUnit' /\ RunningSlotIsPinned'
          /\ InState("Complete")' = InState("Complete")
      BY <1>14, EnqueueInv
         DEF Enqueue, Shape, OneSlotPerUnit, RunningSlotIsPinned, InState
    <2>2. TypeOK'
      BY <1>14, <2>1 DEF Enqueue, TypeOK
    <2> QED
      BY <2>1, <2>2
         DEF OneMessage, PostsAreCoalesced, FlagCovers, CursorShape, Running
  <1>15. CASE Collect
    <2>1. /\ slots' \in [Slots -> Slot] /\ batch' \in [Slots -> Slot]
          /\ InState("Complete")' = {}
          /\ \A i \in Slots : slots'[i].state = "Running"
                                <=> slots[i].state = "Running"
      BY <1>15, EmptySlotFacts DEF Collect, TypeOK, InState
    <2>2. TypeOK'
      BY <1>15, <2>1 DEF Collect, TypeOK, UiStates
    <2>3. Shape' /\ OneSlotPerUnit'
      BY <1>15, EmptySlotFacts DEF Collect, Shape, OneSlotPerUnit, TypeOK
    <2>4. RunningSlotIsPinned' /\ OneMessage' /\ PostsAreCoalesced'
      BY <1>15, <2>1
         DEF Collect, RunningSlotIsPinned, OneMessage, PostsAreCoalesced
    <2>5. FlagCovers' /\ CursorShape'
      BY <1>15, <2>1 DEF Collect, FlagCovers, CursorShape, Running
    <2> QED BY <2>2, <2>3, <2>4, <2>5
  <1>16. CASE DrainEnd
    <2>1. TypeOK'
      <3>1. EmptySlots \in [Slots -> Slot]
        BY EmptySlotFacts DEF EmptySlots
      <3> QED BY <1>16, <3>1 DEF DrainEnd, TypeOK, UiStates
    <2>2. Shape' /\ OneSlotPerUnit'
      BY <1>16, EmptySlotFacts
         DEF DrainEnd, Shape, OneSlotPerUnit, EmptySlots
    <2>3. RunningSlotIsPinned' /\ OneMessage' /\ PostsAreCoalesced'
      BY <1>16 DEF DrainEnd, RunningSlotIsPinned, OneMessage,
                   PostsAreCoalesced
    <2>4. FlagCovers' /\ CursorShape'
      BY <1>16 DEF DrainEnd, FlagCovers, CursorShape, InState
    <2> QED BY <2>1, <2>2, <2>3, <2>4
  <1>17. CASE CompleteReturns
    <2>1. cursor \in Slots /\ batch[cursor].work \in Work
      BY <1>17 DEF CompleteReturns, CursorShape, Shape, TypeOK, Slot
    <2>2. /\ slots' \in [Slots -> Slot] /\ ready' \in BOOLEAN
          /\ \A i \in Slots : slots'[i].state = "Empty"
                                <=> slots'[i].work = NoWork
          /\ OneSlotPerUnit'
          /\ \A i \in Slots : slots'[i].state = "Running"
                                <=> slots[i].state = "Running"
          /\ InState("Complete")' = InState("Complete")
      <3>1. CASE UNCHANGED <<slots, ready>>
        BY <3>1 DEF TypeOK, Shape, OneSlotPerUnit, InState
      <3>2. CASE \E w \in Work : Coalesce(w) \/ Admit(w)
        BY <3>2, EnqueueInv DEF OneSlotPerUnit, InState
      <3> QED BY <1>17, <2>1, <3>1, <3>2 DEF CompleteReturns
    <2>3. /\ batch' \in [Slots -> Slot]
          /\ \A i \in Slots : batch'[i] = IF i = cursor THEN EmptySlot ELSE batch[i]
      BY <1>17, EmptySlotFacts DEF CompleteReturns, TypeOK
    <2>4. TypeOK'
      BY <1>17, <2>2, <2>3, SlotsFacts DEF CompleteReturns, TypeOK, UiStates
    <2>5. Shape'
      BY <2>2, <2>3, EmptySlotFacts DEF Shape
    <2>6. RunningSlotIsPinned' /\ OneMessage' /\ PostsAreCoalesced'
      BY <1>17, <2>2 DEF CompleteReturns, RunningSlotIsPinned, OneMessage,
                         PostsAreCoalesced
    <2>7. FlagCovers' /\ CursorShape'
      BY <1>17, <2>2 DEF CompleteReturns, FlagCovers, CursorShape, Running
    <2> QED BY <2>2, <2>4, <2>5, <2>6, <2>7
  <1>18. CASE StopEnd
    <2>1. /\ \A i \in Slots : slots'[i] = EmptySlot
          /\ slots' \in [Slots -> Slot]
      BY <1>18, EmptySlotFacts DEF StopEnd, EmptySlots
    <2>2. TypeOK'
      BY <1>18, <2>1 DEF StopEnd, TypeOK, WorkerStates, UiStates
    <2>3. Shape' /\ OneSlotPerUnit'
      BY <1>18, <2>1, EmptySlotFacts DEF StopEnd, Shape, OneSlotPerUnit
    <2>4. RunningSlotIsPinned' /\ OneMessage' /\ PostsAreCoalesced'
      BY <1>18, <2>1, SlotsFacts, EmptySlotFacts
         DEF StopEnd, RunningSlotIsPinned, OneMessage, PostsAreCoalesced
    <2>5. FlagCovers' /\ CursorShape'
      BY <1>18, <2>1, EmptySlotFacts
         DEF StopEnd, FlagCovers, CursorShape, InState
    <2> QED BY <2>2, <2>3, <2>4, <2>5
  <1>19. CASE Pick
    <2>1. PICK i \in InState("Queued") :
             /\ selected' = i
             /\ lastSelected' = i
             /\ slots' = [slots EXCEPT ![i].state = "Running"]
      BY <1>19 DEF Pick
    <2>2. i \in Slots /\ slots[i].state = "Queued" /\ i # -1
      BY <2>1, SlotsFacts DEF InState
    <2>3. /\ slots' \in [Slots -> Slot]
          /\ \A j \in Slots : /\ slots'[j].work = slots[j].work
                              /\ slots'[j].state = IF j = i THEN "Running"
                                                   ELSE slots[j].state
      BY <2>1, <2>2 DEF TypeOK, Slot, SlotStates
    <2>4. TypeOK'
      BY <1>19, <2>1, <2>2, <2>3 DEF Pick, TypeOK, WorkerStates
    <2>5. Shape' /\ OneSlotPerUnit'
      BY <1>19, <2>2, <2>3 DEF Pick, Shape, OneSlotPerUnit
    <2>6. RunningSlotIsPinned' /\ OneMessage' /\ PostsAreCoalesced'
      BY <1>19, <2>1, <2>2, <2>3, SlotsFacts
         DEF Pick, RunningSlotIsPinned, OneMessage, PostsAreCoalesced
    <2>7. FlagCovers' /\ CursorShape'
      BY <1>19, <2>2, <2>3 DEF Pick, FlagCovers, CursorShape, InState, Running
    <2> QED BY <2>4, <2>5, <2>6, <2>7
  <1>20. CASE Publish
    <2>1. selected \in Slots /\ slots[selected].state = "Running"
      BY <1>20 DEF Publish, RunningSlotIsPinned, TypeOK
    <2>2. /\ slots' \in [Slots -> Slot]
          /\ \A j \in Slots : /\ slots'[j].work = slots[j].work
                              /\ slots'[j].state = IF j = selected
                                                   THEN "Complete"
                                                   ELSE slots[j].state
      BY <1>20, <2>1 DEF Publish, TypeOK, Slot, SlotStates
    <2>3. TypeOK'
      BY <1>20, <2>2 DEF Publish, TypeOK, WorkerStates
    <2>4. Shape' /\ OneSlotPerUnit'
      BY <1>20, <2>1, <2>2 DEF Publish, Shape, OneSlotPerUnit
    <2>5. RunningSlotIsPinned' /\ OneMessage' /\ PostsAreCoalesced'
      BY <1>20, <2>1, <2>2, SlotsFacts
         DEF Publish, RunningSlotIsPinned, OneMessage, PostsAreCoalesced
    <2>6. FlagCovers' /\ CursorShape'
      BY <1>20 DEF Publish, FlagCovers, CursorShape, Running
    <2> QED BY <2>3, <2>4, <2>5, <2>6
  <1>21. CASE UNCHANGED vars
    <2>1. UNCHANGED <<slots, batch>>
      BY <1>21 DEF vars
    <2>2. TypeOK' /\ Shape' /\ OneSlotPerUnit'
      BY <1>21, SameSlots DEF vars, TypeOK
    <2> QED
      BY <1>21, <2>2
         DEF vars, RunningSlotIsPinned, OneMessage, PostsAreCoalesced,
             FlagCovers, CursorShape, InState, Running
  <1> QED
    BY <1>1, <1>2, <1>3, <1>4, <1>5, <1>6, <1>7, <1>8, <1>9, <1>10, <1>11,
       <1>12, <1>13, <1>14, <1>15, <1>16, <1>17, <1>18, <1>19, <1>20, <1>21
       DEF Next, Drain, Worker

\* The inductive invariant holds of every reachable state.
LEMMA Invariance == Spec => []IInv
  <1> QED BY InitInv, NextInv, PTL DEF Spec

\* Slots, thread positions, batch and wake counter keep their types; at most
\* one wake message is ever in the UI queue.
THEOREM TypeCorrect == Spec => []TypeOK
  <1>1. IInv => TypeOK
    BY DEF IInv
  <1> QED BY <1>1, Invariance, PTL

\* No unit ever occupies two slots, for any number of units and slots.
THEOREM UnitsAreUnique == Spec => []OneSlotPerUnit
  <1>1. IInv => OneSlotPerUnit
    BY DEF IInv
  <1> QED BY <1>1, Invariance, PTL

\* The slot the worker publishes into is the one it took.
THEOREM RunningIsPinned == Spec => []RunningSlotIsPinned
  <1>1. IInv => RunningSlotIsPinned
    BY DEF IInv
  <1> QED BY <1>1, Invariance, PTL

\* The pending flag stands for exactly one message on its way.
THEOREM PostsCoalesce == Spec => []PostsAreCoalesced
  <1>1. IInv => PostsAreCoalesced
    BY DEF IInv
  <1> QED BY <1>1, Invariance, PTL

\* A published result is covered by a UI visit, unless the post itself failed.
THEOREM WakeupsAreKept == Spec => []NoLostWakeup
  <1>1. IInv => NoLostWakeup
    BY DEF IInv, FlagCovers, NoLostWakeup
  <1> QED BY <1>1, Invariance, PTL

-----------------------------------------------------------------------------
(* The abstract lane                                                        *)

\* A lane without a worker holds nothing, a drain that has not collected or is
\* over has no results in its array, and an empty slot asks for no rerun.
LaneInv ==
  /\ ~Running => \A i \in Slots : slots[i].state = "Empty"
  /\ cursor = -1 /\ ui # "deliver" => \A i \in Slots : batch[i].state = "Empty"
  /\ \A i \in Slots : /\ slots[i].state = "Empty" => ~slots[i].rerun
                      /\ batch[i].state = "Empty" => ~batch[i].rerun

LEMMA InitLane == ASSUME Init PROVE LaneInv
  BY EmptySlotFacts DEF Init, LaneInv, EmptySlots, EmptySlot

\* What Enqueue does to the slots.
LEMMA EnqueueStep ==
  ASSUME IInv, NEW w \in Work, Coalesce(w) \/ Admit(w)
  PROVE  /\ Running
         /\ \E i \in Slots :
              /\ slots'[i].work = w /\ (slots'[i].state = "Queued" \/ slots'[i].rerun)
              /\ slots'[i].state # "Empty"
              /\ \/ slots'[i].state = slots[i].state /\ slots[i].work = w
                 \/ /\ slots[i].state = "Empty" /\ slots'[i].state = "Queued"
              /\ \A j \in Slots \ {i} : slots'[j] = slots[j]
  <1> USE DEF IInv, TypeOK
  <1>1. CASE Coalesce(w)
    <2>1. PICK i \in Holding(w) :
             slots' = [slots EXCEPT ![i].rerun = @ \/ slots[i].state # "Queued"]
      BY <1>1 DEF Coalesce
    <2>2. i \in Slots /\ slots[i].work = w /\ slots[i] \in Slot
      BY <2>1 DEF Holding
    <2>3. slots[i].state # "Empty"
      BY <2>2, ControlAssumption DEF Shape
    <2> DEFINE r == [slots[i] EXCEPT !.rerun = @ \/ slots[i].state # "Queued"]
    <2>4. r.work = w /\ r.state = slots[i].state /\ (r.state = "Queued" \/ r.rerun)
      BY <2>2 DEF Slot
    <2>5. slots' = [slots EXCEPT ![i] = r]
      BY <2>1, <2>2
    <2> HIDE DEF r
    <2>6. slots'[i] = r /\ \A j \in Slots \ {i} : slots'[j] = slots[j]
      BY <2>2, <2>5
    <2> QED BY <1>1, <2>2, <2>3, <2>4, <2>6 DEF Coalesce
  <1>2. CASE Admit(w)
    <2> DEFINE r == [work |-> w, state |-> "Queued", rerun |-> FALSE]
    <2>1. PICK i \in InState("Empty") : slots' = [slots EXCEPT ![i] = r]
      BY <1>2 DEF Admit
    <2>2. r.work = w /\ r.state = "Queued"
      OBVIOUS
    <2> HIDE DEF r
    <2>3. i \in Slots /\ slots[i].state = "Empty" /\ slots'[i] = r
          /\ \A j \in Slots \ {i} : slots'[j] = slots[j]
      BY <2>1 DEF InState
    <2> QED BY <1>2, <2>2, <2>3 DEF Admit
  <1> QED BY <1>1, <1>2

LEMMA NextLane == ASSUME IInv, LaneInv, [Next]_vars PROVE LaneInv'
  <1> USE DEF IInv, TypeOK
  <1> USE DEF queueVars, workerVars, uiVars, postVars
  <1>1. CASE UNCHANGED vars
    BY <1>1 DEF vars, LaneInv, Running
  <1>2. CASE Start \/ Receive \/ Acknowledge \/ DrainBegin \/ StopBegin
    <2>1. /\ UNCHANGED <<slots, batch, cursor>> /\ ui' # "deliver" /\ (~Running' => ~Running)
          /\ ui = "deliver" => FALSE
      BY <1>2 DEF Start, Receive, Acknowledge, DrainBegin, StopBegin, MaySubmit, Running
    <2> QED BY <2>1 DEF LaneInv
  <1>3. CASE Wake \/ CheckStop \/ PickNothing \/ RunReturns \/ Notify \/ Post \/ PostFails
    <2>1. UNCHANGED <<slots, batch, cursor, ui>> /\ Running'
      BY <1>3 DEF Wake, CheckStop, PickNothing, RunReturns, Notify, Post, PostFails, Running
    <2> QED BY <2>1 DEF LaneInv
  <1>4. CASE Deliver
    <2>1. UNCHANGED <<slots, batch, pc>> /\ cursor' # -1
      BY <1>4, SlotsFacts DEF Deliver
    <2> QED BY <2>1 DEF LaneInv, Running
  <1>5. ASSUME NEW w \in Work, Enqueue(w) PROVE LaneInv'
    <2>1. UNCHANGED <<batch, cursor, ui, pc>> /\ (Coalesce(w) \/ Admit(w))
      BY <1>5 DEF Enqueue
    <2>2. Running /\ \E i \in Slots : slots'[i].state # "Empty" /\ \A j \in Slots \ {i} : slots'[j] = slots[j]
      BY <2>1, EnqueueStep
    <2> QED BY <2>1, <2>2 DEF LaneInv, Running
  <1>6. CASE Collect
    <2>1. /\ \A i \in Slots : /\ slots[i].state = "Complete" => slots'[i] = EmptySlot /\ batch'[i] = slots[i]
                              /\ slots[i].state # "Complete" => slots'[i] = slots[i] /\ batch'[i] = EmptySlot
          /\ ui' = "deliver" /\ pc' = pc
      BY <1>6 DEF Collect
    <2>2. EmptySlot.state = "Empty" /\ ~EmptySlot.rerun
      BY DEF EmptySlot
    <2> QED BY <2>1, <2>2 DEF LaneInv, Running
  <1>7. CASE DrainEnd
    <2>1. /\ \A i \in Slots : batch'[i] = EmptySlot
          /\ UNCHANGED <<slots, pc>>
      BY <1>7 DEF DrainEnd, EmptySlots
    <2>2. EmptySlot.state = "Empty" /\ ~EmptySlot.rerun
      BY DEF EmptySlot
    <2> QED BY <2>1, <2>2 DEF LaneInv, Running
  <1>8. CASE CompleteReturns
    <2>1. cursor \in Slots /\ batch[cursor].work \in Work /\ ui' = "deliver" /\ pc' = pc
      BY <1>8 DEF CompleteReturns, CursorShape, Shape, Slot
    <2>2. \A i \in Slots : batch'[i] = IF i = cursor THEN EmptySlot ELSE batch[i]
      BY <1>8, <2>1 DEF CompleteReturns
    <2>3. EmptySlot.state = "Empty" /\ ~EmptySlot.rerun
      BY DEF EmptySlot
    <2>4. \/ slots' = slots
          \/ Running /\ \E i \in Slots : slots'[i].state # "Empty" /\ \A j \in Slots \ {i} : slots'[j] = slots[j]
      BY <1>8, <2>1, EnqueueStep DEF CompleteReturns
    <2> QED BY <2>1, <2>2, <2>3, <2>4 DEF LaneInv, Running
  <1>9. CASE StopEnd
    <2>1. /\ \A i \in Slots : slots'[i] = EmptySlot
          /\ UNCHANGED <<batch, cursor>> /\ ui # "deliver"
      BY <1>9 DEF StopEnd, EmptySlots
    <2>2. EmptySlot.state = "Empty" /\ ~EmptySlot.rerun
      BY DEF EmptySlot
    <2> QED BY <2>1, <2>2 DEF LaneInv
  <1>10. CASE Pick
    <2>1. PICK i \in Slots : /\ slots[i].state = "Queued"
                             /\ slots' = [slots EXCEPT ![i].state = "Running"]
      BY <1>10 DEF Pick, InState
    <2>2. /\ slots'[i].state = "Running" /\ \A j \in Slots \ {i} : slots'[j] = slots[j]
      BY <2>1 DEF Slot
    <2>3. UNCHANGED <<batch, cursor, ui>> /\ Running'
      BY <1>10 DEF Pick, Running
    <2> QED BY <2>2, <2>3 DEF LaneInv
  <1>11. CASE Publish
    <2>1. selected \in Slots
      BY <1>11 DEF Publish, RunningSlotIsPinned
    <2>2. /\ slots'[selected].state = "Complete" /\ \A j \in Slots \ {selected} : slots'[j] = slots[j]
      BY <1>11, <2>1 DEF Publish, Slot
    <2>3. UNCHANGED <<batch, cursor, ui>> /\ Running'
      BY <1>11 DEF Publish, Running
    <2> QED BY <2>1, <2>2, <2>3 DEF LaneInv
  <1> QED
    BY <1>1, <1>2, <1>3, <1>4, <1>5, <1>6, <1>7, <1>8, <1>9, <1>10, <1>11 DEF Next, Drain, Worker

\* The slots that hold a unit's result.
Results(a, w) == {i \in Slots : a[i].work = w /\ a[i].state = "Complete"}
InRun == IF selected = -1 THEN NoWork ELSE slots[selected].work
InCall == IF cursor = -1 THEN NoWork ELSE batch[cursor].work
Asks(i) == slots[i].state = "Queued" \/ slots[i].rerun

LEMMA ResultsFinite ==
  ASSUME NEW a, NEW w
  PROVE  IsFiniteSet(Results(a, w)) /\ Cardinality(Results(a, w)) \in Nat
  <1>1. IsFiniteSet(Slots)
    BY ControlAssumption, FS_Interval DEF Slots
  <1>2. Results(a, w) \in SUBSET Slots
    BY DEF Results
  <1>3. IsFiniteSet(Results(a, w))
    BY <1>1, <1>2, FS_Subset
  <1> QED BY <1>3, FS_CardinalityType

LEMMA AnswersOf ==
  ASSUME NEW w
  PROVE  Answers(w) = IF Running THEN Cardinality(Results(slots, w)) + Cardinality(Results(batch, w) \ {cursor})
                                 ELSE 0
  BY DEF Answers, Results

LEMMA OwedOf ==
  ASSUME NEW w
  PROVE  w \in Owed <=> /\ Running
                        /\ \/ \E i \in Slots : slots[i].work = w /\ Asks(i)
                           \/ \E i \in Slots : batch[i].work = w /\ batch[i].rerun
  BY DEF Owed, Asks

\* The units that are owed a run are the widgets' own.
LEMMA OwedIsWork == ASSUME IInv, LaneInv PROVE Owed \subseteq Work
  <1> SUFFICES ASSUME NEW w \in Owed PROVE w \in Work
    OBVIOUS
  <1>1. CASE \E i \in Slots : slots[i].work = w /\ Asks(i)
    <2>1. PICK i \in Slots : slots[i].work = w /\ Asks(i)
      BY <1>1
    <2>2. slots[i].state # "Empty" /\ slots[i] \in Slot
      BY <2>1 DEF Asks, LaneInv, IInv, TypeOK
    <2> QED BY <2>1, <2>2 DEF IInv, Shape, Slot
  <1>2. CASE \E i \in Slots : batch[i].work = w /\ batch[i].rerun
    <2>1. PICK i \in Slots : batch[i].work = w /\ batch[i].rerun
      BY <1>2
    <2>2. batch[i].state # "Empty" /\ batch[i] \in Slot
      BY <2>1 DEF LaneInv, IInv, TypeOK
    <2> QED BY <2>1, <2>2 DEF IInv, Shape, Slot
  <1> QED BY <1>1, <1>2, OwedOf

\* The abstract lane's actions, by what the mapping makes of a step.
SameAnswers == \A u \in Work : Answers(u)' = Answers(u)

LEMMA LaneSame ==
  ASSUME Running' = Running, Owed' = Owed, InRun' = InRun, InCall' = InCall, SameAnswers
  PROVE  [Lane!Next]_(Lane!vars)
  BY DEF Lane!vars, InRun, InCall, SameAnswers

LEMMA LaneOpens ==
  ASSUME ~Running, Running', InRun = NoWork, Owed' = Owed, InRun' = InRun, InCall' = InCall, SameAnswers
  PROVE  Lane!Next
  <1>1. Lane!Open
    BY DEF Lane!Open, InRun, InCall, SameAnswers
  <1> QED BY <1>1 DEF Lane!Next

LEMMA LaneRequested ==
  ASSUME NEW w \in Work, Running, Running', Owed' = Owed \cup {w}, InRun' = InRun, InCall' = InCall, SameAnswers
  PROVE  Lane!Next
  <1>1. Lane!Request(w)
    BY DEF Lane!Request, InRun, InCall, SameAnswers
  <1> QED BY <1>1 DEF Lane!Next

LEMMA LaneBegins ==
  ASSUME NEW w \in Work, Running, Running', InRun = NoWork, w \in Owed, InRun' = w,
         Owed' = Owed \/ Owed' = Owed \ {w}, InCall' = InCall, SameAnswers
  PROVE  Lane!Next
  <1>1. Lane!Begin(w)
    BY DEF Lane!Begin, InRun, InCall, SameAnswers
  <1> QED BY <1>1 DEF Lane!Next

LEMMA LaneFinishes ==
  ASSUME NEW w \in Work, Running, Running', InRun = w, InRun' = NoWork, Owed' = Owed, InCall' = InCall,
         \A u \in Work : Answers(u)' = IF u = w THEN Answers(u) + 1 ELSE Answers(u)
  PROVE  Lane!Next
  <1>1. Lane!Finish
    BY ControlAssumption DEF Lane!Finish, InRun, InCall
  <1> QED BY <1>1 DEF Lane!Next

LEMMA LaneCompletes ==
  ASSUME NEW w \in Work, Running, Running', InRun' = InRun, Owed' = Owed, InCall = NoWork, InCall' = w,
         Answers(w) > 0, \A u \in Work : Answers(u)' = IF u = w THEN Answers(u) - 1 ELSE Answers(u)
  PROVE  Lane!Next
  <1>1. Lane!Complete(w)
    BY DEF Lane!Complete, InRun, InCall
  <1> QED BY <1>1 DEF Lane!Next

LEMMA LaneReturns ==
  ASSUME Running' = Running, Owed' = Owed, InRun' = InRun, InCall # NoWork, InCall' = NoWork, SameAnswers
  PROVE  Lane!Next
  <1>1. Lane!Return
    BY DEF Lane!Return, InRun, InCall, SameAnswers
  <1> QED BY <1>1 DEF Lane!Next

LEMMA LaneCloses ==
  ASSUME Running, ~Running', Owed' = {}, InRun' = InRun, InCall' = InCall,
         \A u \in Work : Answers(u)' = 0
  PROVE  Lane!Next
  <1>1. Lane!Close
    BY DEF Lane!Close, InRun, InCall
  <1> QED BY <1>1 DEF Lane!Next

\* The mapping after a step.
LEMMA AnswersNext ==
  ASSUME NEW w
  PROVE  Answers(w)' = IF Running' THEN Cardinality(Results(slots', w)) + Cardinality(Results(batch', w) \ {cursor'})
                                   ELSE 0
  BY DEF Answers, Results

LEMMA OwedNext ==
  ASSUME NEW w
  PROVE  w \in Owed' <=> /\ Running'
                         /\ \/ \E i \in Slots : slots'[i].work = w /\ (slots'[i].state = "Queued" \/ slots'[i].rerun)
                            \/ \E i \in Slots : batch'[i].work = w /\ batch'[i].rerun
  BY DEF Owed

LEMMA KeptAnswers ==
  ASSUME Running' = Running,
         \A i \in Slots : /\ slots'[i].state = "Complete" <=> slots[i].state = "Complete"
                          /\ slots[i].state = "Complete" => slots'[i].work = slots[i].work,
         \A i \in Slots : /\ batch'[i].state = "Complete" /\ i # cursor' <=> batch[i].state = "Complete" /\ i # cursor
                          /\ batch[i].state = "Complete" /\ i # cursor => batch'[i].work = batch[i].work
  PROVE  SameAnswers
  <1> SUFFICES ASSUME NEW w \in Work PROVE Answers(w)' = Answers(w)
    BY DEF SameAnswers
  <1>1. Results(slots', w) = Results(slots, w)
    BY DEF Results
  <1>2. Results(batch', w) \ {cursor'} = Results(batch, w) \ {cursor}
    BY DEF Results
  <1> QED BY <1>1, <1>2, AnswersOf, AnswersNext

\* A step of a thread that leaves slots, batch and positions alone.
LEMMA AsideIsSame ==
  ASSUME UNCHANGED <<slots, batch, cursor, selected>>, Running' = Running
  PROVE  [Lane!Next]_(Lane!vars)
  <1>1. SameAnswers
    BY KeptAnswers
  <1>2. Owed' = Owed
    <2>1. ASSUME NEW u PROVE u \in Owed' <=> u \in Owed
      BY OwedOf, OwedNext DEF Asks
    <2> QED BY <2>1
  <1> QED BY <1>1, <1>2, LaneSame DEF InRun, InCall

LEMMA StartImplements == ASSUME IInv, LaneInv, Start PROVE Lane!Next
  <1>1. /\ ~Running /\ Running' /\ selected' = -1 /\ UNCHANGED <<slots, batch, cursor>>
        /\ ui = "idle" /\ cursor = -1 /\ selected = -1
    BY DEF Start, Running, uiVars, IInv, CursorShape, RunningSlotIsPinned, TypeOK
  <1>2. \A i \in Slots : /\ slots[i].state = "Empty" /\ ~slots[i].rerun
                         /\ batch[i].state = "Empty" /\ ~batch[i].rerun
    BY <1>1 DEF LaneInv
  <1>3. Owed' = Owed
    BY <1>1, <1>2, OwedOf, OwedNext
  <1>4. SameAnswers
    <2> SUFFICES ASSUME NEW w \in Work PROVE Answers(w)' = Answers(w)
      BY DEF SameAnswers
    <2>1. Results(slots', w) = {} /\ Results(batch', w) \ {cursor'} = {}
      BY <1>1, <1>2 DEF Results
    <2> QED BY <1>1, <2>1, AnswersOf, AnswersNext, FS_EmptySet
  <1> QED BY <1>1, <1>3, <1>4, LaneOpens DEF InRun, InCall

LEMMA RequestImplements == ASSUME IInv, LaneInv, NEW w \in Work, Enqueue(w) PROVE Lane!Next
  <1>1. UNCHANGED <<batch, cursor, selected, pc>> /\ (Coalesce(w) \/ Admit(w))
    BY DEF Enqueue, workerVars, uiVars
  <1>2. Running /\ Running' /\
        \E i \in Slots :
              /\ slots'[i].work = w /\ (slots'[i].state = "Queued" \/ slots'[i].rerun)
              /\ \/ slots'[i].state = slots[i].state /\ slots[i].work = w
                 \/ slots[i].state = "Empty" /\ slots'[i].state = "Queued"
              /\ \A j \in Slots \ {i} : slots'[j] = slots[j]
    BY <1>1, EnqueueStep DEF Running
  <1>3. PICK i \in Slots :
              /\ slots'[i].work = w /\ (slots'[i].state = "Queued" \/ slots'[i].rerun)
              /\ \/ slots'[i].state = slots[i].state /\ slots[i].work = w
                 \/ slots[i].state = "Empty" /\ slots'[i].state = "Queued"
              /\ \A j \in Slots \ {i} : slots'[j] = slots[j]
    BY <1>2
  <1>4. Owed' = Owed \cup {w}
    <2>1. ASSUME NEW u PROVE u \in Owed' <=> u \in Owed \/ u = w
      <3>1. Asks(i) => slots[i].work = w
        BY <1>3 DEF Asks, LaneInv
      <3>2. (\E j \in Slots : slots'[j].work = u /\ (slots'[j].state = "Queued" \/ slots'[j].rerun))
              <=> u = w \/ \E j \in Slots : slots[j].work = u /\ Asks(j)
        BY <1>3, <3>1 DEF Asks
      <3> QED BY <1>1, <1>2, <3>2, OwedOf, OwedNext
    <2> QED BY <2>1
  <1>5. SameAnswers
    BY <1>1, <1>2, <1>3, KeptAnswers
  <1>6. InRun' = InRun
    <2>1. selected # -1 => selected \in Slots /\ slots[selected].state = "Running"
      BY DEF IInv, RunningSlotIsPinned, TypeOK
    <2>2. selected # -1 => slots'[selected].work = slots[selected].work
      BY <1>3, <2>1
    <2> QED BY <1>1, <2>2 DEF InRun
  <1> QED BY <1>1, <1>2, <1>4, <1>5, <1>6, LaneRequested DEF InCall

LEMMA CollectImplements == ASSUME IInv, LaneInv, Collect PROVE [Lane!Next]_(Lane!vars)
  <1>1. /\ \A i \in Slots : /\ slots[i].state = "Complete" => slots'[i] = EmptySlot /\ batch'[i] = slots[i]
                            /\ slots[i].state # "Complete" => slots'[i] = slots[i] /\ batch'[i] = EmptySlot
        /\ ui = "collect" /\ UNCHANGED <<pc, selected, cursor>>
    BY DEF Collect, workerVars
  <1>2. EmptySlot.state = "Empty" /\ ~EmptySlot.rerun
    BY DEF EmptySlot
  <1>3. cursor = -1 /\ \A i \in Slots : batch[i].state = "Empty" /\ ~batch[i].rerun
    BY <1>1 DEF IInv, CursorShape, LaneInv
  <1>4. Running' = Running
    BY <1>1 DEF Running
  <1>5. Owed' = Owed
    <2>1. ASSUME NEW u PROVE u \in Owed' <=> u \in Owed
      BY <1>1, <1>2, <1>3, <1>4, OwedOf, OwedNext DEF Asks
    <2> QED BY <2>1
  <1>6. SameAnswers
    <2> SUFFICES ASSUME NEW w \in Work PROVE Answers(w)' = Answers(w)
      BY DEF SameAnswers
    <2>1. Results(slots', w) = {} /\ Results(batch, w) \ {cursor} = {}
      BY <1>1, <1>2, <1>3 DEF Results
    <2>2. Results(batch', w) \ {cursor'} = Results(slots, w)
      BY <1>1, <1>2, <1>3, SlotsFacts DEF Results
    <2> QED BY <1>4, <2>1, <2>2, AnswersOf, AnswersNext, FS_EmptySet, ResultsFinite
  <1>7. InRun' = InRun /\ InCall' = InCall
    <2>1. selected # -1 => selected \in Slots /\ slots[selected].state = "Running"
      BY DEF IInv, RunningSlotIsPinned, TypeOK
    <2> QED BY <1>1, <1>3, <2>1 DEF InRun, InCall
  <1> QED BY <1>4, <1>5, <1>6, <1>7, LaneSame

LEMMA DeliverImplements == ASSUME IInv, Deliver PROVE Lane!Next
  <1>1. PICK i \in Slots : batch[i].state = "Complete" /\ cursor' = i
    BY DEF Deliver
  <1>2. Running /\ Running' /\ cursor = -1 /\ UNCHANGED <<slots, batch, selected>>
    BY DEF Deliver, Running, queueVars, workerVars, IInv, CursorShape
  <1> DEFINE w == batch[i].work
  <1>3. w \in Work
    BY <1>1 DEF IInv, TypeOK, Shape, Slot
  <1>4. Owed' = Owed
    <2>1. ASSUME NEW u PROVE u \in Owed' <=> u \in Owed
      BY <1>2, OwedOf, OwedNext DEF Asks
    <2> QED BY <2>1
  <1>5. InRun' = InRun /\ InCall = NoWork /\ InCall' = w
    BY <1>1, <1>2, SlotsFacts DEF InRun, InCall
  <1>6. ASSUME NEW u \in Work
        PROVE  /\ Answers(u)' = IF u = w THEN Answers(u) - 1 ELSE Answers(u)
               /\ u = w => Answers(u) > 0
    <2>1. Results(batch, u) \ {cursor} = Results(batch, u)
      BY <1>2, SlotsFacts DEF Results
    <2>2. i \in Results(batch, u) <=> u = w
      BY <1>1 DEF Results
    <2>3. Cardinality(Results(batch, u) \ {i}) =
            IF u = w THEN Cardinality(Results(batch, u)) - 1 ELSE Cardinality(Results(batch, u))
      BY <2>2, ResultsFinite, FS_RemoveElement
    <2>4. Cardinality(Results(batch, u) \ {i}) \in Nat
      BY ResultsFinite, FS_RemoveElement, FS_CardinalityType
    <2>5. Answers(u) = Cardinality(Results(slots, u)) + Cardinality(Results(batch, u))
      BY <1>2, <2>1, AnswersOf
    <2>6. Answers(u)' = Cardinality(Results(slots, u)) + Cardinality(Results(batch, u) \ {i})
      BY <1>1, <1>2, AnswersNext
    <2> QED BY <2>3, <2>4, <2>5, <2>6, ResultsFinite
  <1> HIDE DEF w
  <1> QED BY <1>2, <1>3, <1>4, <1>5, <1>6, LaneCompletes

LEMMA DrainEndImplements == ASSUME IInv, LaneInv, DrainEnd PROVE [Lane!Next]_(Lane!vars)
  <1>1. /\ \A i \in Slots : batch'[i] = EmptySlot
        /\ UNCHANGED <<slots, pc, selected, cursor>> /\ cursor = -1
        /\ Running => \A i \in Slots : batch[i].state # "Complete"
    BY DEF DrainEnd, EmptySlots, queueVars, workerVars, IInv, CursorShape
  <1>2. EmptySlot.state = "Empty" /\ ~EmptySlot.rerun
    BY DEF EmptySlot
  <1>3. Running' = Running
    BY <1>1 DEF Running
  <1>4. ASSUME Running, NEW i \in Slots PROVE batch[i].state = "Empty" /\ ~batch[i].rerun
    <2>1. batch[i].state \in {"Empty", "Complete"}
      BY <1>4 DEF IInv, Shape
    <2>2. batch[i].state # "Complete"
      BY <1>1, <1>4
    <2> QED BY <2>1, <2>2, <1>4 DEF LaneInv
  <1>5. Owed' = Owed
    <2>1. ASSUME NEW u PROVE u \in Owed' <=> u \in Owed
      BY <1>1, <1>2, <1>3, <1>4, OwedOf, OwedNext DEF Asks
    <2> QED BY <2>1
  <1>6. SameAnswers
    <2>1. CASE Running
      BY <1>1, <1>2, <1>3, <1>4, <2>1, KeptAnswers
    <2>2. CASE ~Running
      BY <1>3, <2>2, AnswersOf, AnswersNext DEF SameAnswers
    <2> QED BY <2>1, <2>2
  <1> QED BY <1>1, <1>3, <1>5, <1>6, LaneSame DEF InRun, InCall

\* With a slot for every unit no unit finds all of them taken.
LEMMA NeverBusy ==
  ASSUME IInv, IsFiniteSet(Work), Cardinality(Work) <= Capacity, NEW w \in Work
  PROVE  ~Busy(w)
  <1> SUFFICES ASSUME Busy(w) PROVE FALSE
    OBVIOUS
  <1> DEFINE f == [i \in Slots |-> slots[i].work]
  <1>1. \A i \in Slots : slots[i].work \in Work \ {w}
    BY DEF Busy, Holding, InState, IInv, TypeOK, Shape, Slot
  <1>2. f \in [Slots -> Work \ {w}]
    BY <1>1
  <1>3. IsFiniteSet(Slots) /\ Cardinality(Slots) = Capacity
    BY ControlAssumption, FS_Interval DEF Slots
  <1>4. IsFiniteSet(Work \ {w}) /\ Cardinality(Work \ {w}) = Cardinality(Work) - 1 /\ Cardinality(Work) \in Nat
    BY FS_RemoveElement, FS_CardinalityType
  <1>5. Cardinality(Work \ {w}) < Cardinality(Slots)
    BY <1>3, <1>4, ControlAssumption
  <1> HIDE DEF f
  <1>6. PICK i, j \in Slots : i # j /\ f[i] = f[j]
    BY <1>2, <1>3, <1>4, <1>5, FS_PigeonHole
  <1>7. slots[i].work = slots[j].work /\ slots[i].work # NoWork
    BY <1>1, <1>6, ControlAssumption DEF f
  <1> QED BY <1>6, <1>7 DEF IInv, OneSlotPerUnit

\* Where the worker's slot is left alone, so is the unit it runs.
LEMMA KeptRun ==
  ASSUME IInv, selected' = selected,
         \A i \in Slots : slots[i].state = "Running" => slots'[i].work = slots[i].work
  PROVE  InRun' = InRun
  <1>1. selected # -1 => selected \in Slots /\ slots[selected].state = "Running"
    BY DEF IInv, RunningSlotIsPinned, TypeOK
  <1> QED BY <1>1 DEF InRun

LEMMA PickImplements == ASSUME IInv, Pick PROVE Lane!Next
  <1>1. PICK i \in Slots : /\ slots[i].state = "Queued"
                           /\ selected' = i
                           /\ slots' = [slots EXCEPT ![i].state = "Running"]
    BY DEF Pick, InState
  <1>2. Running /\ Running' /\ UNCHANGED <<batch, cursor>> /\ selected = -1
    BY DEF Pick, Running, uiVars, IInv, RunningSlotIsPinned
  <1> DEFINE w == slots[i].work
  <1>3. w \in Work /\ slots[i] \in Slot
    BY <1>1 DEF IInv, TypeOK, Shape, Slot
  <1>4. /\ slots'[i].work = w /\ slots'[i].state = "Running" /\ slots'[i].rerun = slots[i].rerun
        /\ \A j \in Slots \ {i} : slots'[j] = slots[j]
    BY <1>1, <1>3 DEF Slot, IInv, TypeOK
  <1> HIDE DEF w
  <1>5. w \in Owed
    BY <1>1, <1>2, OwedOf DEF Asks, w
  <1>6. ASSUME NEW u PROVE /\ u \in Owed' => u \in Owed
                           /\ u \in Owed /\ u # w => u \in Owed'
    <2>1. (\E j \in Slots : slots'[j].work = u /\ (slots'[j].state = "Queued" \/ slots'[j].rerun))
            => \E j \in Slots : slots[j].work = u /\ Asks(j)
      BY <1>1, <1>4 DEF Asks, w
    <2>2. (u # w /\ \E j \in Slots : slots[j].work = u /\ Asks(j))
            => \E j \in Slots : slots'[j].work = u /\ (slots'[j].state = "Queued" \/ slots'[j].rerun)
      BY <1>1, <1>4 DEF Asks, w
    <2> QED BY <1>2, <2>1, <2>2, OwedOf, OwedNext
  <1>7. Owed' = Owed \/ Owed' = Owed \ {w}
    <2>1. CASE w \in Owed'
      BY <1>6, <2>1
    <2>2. CASE w \notin Owed'
      BY <1>6, <2>2
    <2> QED BY <2>1, <2>2
  <1>8. SameAnswers
    BY <1>1, <1>2, <1>4, KeptAnswers DEF w
  <1>9. InRun = NoWork /\ InRun' = w
    BY <1>1, <1>2, <1>4, SlotsFacts DEF InRun
  <1>10. InCall' = InCall
    BY <1>2 DEF InCall
  <1>11. w \in Work
    BY <1>3 DEF w
  <1> QED BY <1>2, <1>5, <1>7, <1>8, <1>9, <1>10, <1>11, LaneBegins

LEMMA PublishImplements == ASSUME IInv, Publish PROVE Lane!Next
  <1>1. selected \in Slots /\ slots[selected].state = "Running"
    BY DEF Publish, IInv, RunningSlotIsPinned, TypeOK
  <1>2. Running /\ Running' /\ UNCHANGED <<batch, cursor>> /\ selected' = -1
    BY DEF Publish, Running, uiVars
  <1> DEFINE w == slots[selected].work
  <1>3. w \in Work /\ slots[selected] \in Slot
    BY <1>1 DEF IInv, TypeOK, Shape, Slot
  <1>4. /\ slots'[selected].work = w /\ slots'[selected].state = "Complete"
        /\ slots'[selected].rerun = slots[selected].rerun
        /\ \A j \in Slots \ {selected} : slots'[j] = slots[j]
    BY <1>1, <1>3 DEF Publish, Slot, IInv, TypeOK
  <1>5. Owed' = Owed
    <2>1. ASSUME NEW u PROVE u \in Owed' <=> u \in Owed
      <3>1. (\E j \in Slots : slots'[j].work = u /\ (slots'[j].state = "Queued" \/ slots'[j].rerun))
              <=> \E j \in Slots : slots[j].work = u /\ Asks(j)
        BY <1>1, <1>4 DEF Asks
      <3> QED BY <1>2, <3>1, OwedOf, OwedNext
    <2> QED BY <2>1
  <1>6. ASSUME NEW u \in Work PROVE Answers(u)' = IF u = w THEN Answers(u) + 1 ELSE Answers(u)
    <2>1. Results(slots', u) = IF u = w THEN Results(slots, u) \cup {selected} ELSE Results(slots, u)
      BY <1>1, <1>4 DEF Results
    <2>2. selected \notin Results(slots, u)
      BY <1>1 DEF Results
    <2>3. Cardinality(Results(slots', u)) =
            IF u = w THEN Cardinality(Results(slots, u)) + 1 ELSE Cardinality(Results(slots, u))
      BY <2>1, <2>2, ResultsFinite, FS_AddElement
    <2>4. Cardinality(Results(batch, u) \ {cursor}) \in Nat
      BY ResultsFinite, FS_RemoveElement, FS_CardinalityType
    <2>5. Answers(u) = Cardinality(Results(slots, u)) + Cardinality(Results(batch, u) \ {cursor})
      BY <1>2, AnswersOf
    <2>6. Answers(u)' = Cardinality(Results(slots', u)) + Cardinality(Results(batch, u) \ {cursor})
      BY <1>2, AnswersNext
    <2> QED BY <2>3, <2>4, <2>5, <2>6, ResultsFinite
  <1>7. InRun = w /\ InRun' = NoWork
    BY <1>1, <1>2, SlotsFacts DEF InRun
  <1>8. InCall' = InCall
    BY <1>2 DEF InCall
  <1> HIDE DEF w
  <1> QED BY <1>2, <1>3, <1>5, <1>6, <1>7, <1>8, LaneFinishes

LEMMA CompleteReturnsImplements ==
  ASSUME IInv, LaneInv, CompleteReturns, IsFiniteSet(Work), Cardinality(Work) <= Capacity
  PROVE  Lane!Next
  <1> DEFINE w == batch[cursor].work
  <1>1. cursor \in Slots /\ batch[cursor].state = "Complete" /\ w \in Work
    BY DEF CompleteReturns, IInv, TypeOK, CursorShape, Shape, Slot
  <1>2. /\ UNCHANGED <<pc, selected>> /\ Running' = Running /\ cursor' = -1
        /\ \A i \in Slots : batch'[i] = IF i = cursor THEN EmptySlot ELSE batch[i]
    BY <1>1 DEF CompleteReturns, workerVars, Running, IInv, TypeOK
  <1>3. EmptySlot.state = "Empty" /\ ~EmptySlot.rerun
    BY DEF EmptySlot
  <1>4. \/ slots' = slots /\ ~(Running /\ batch[cursor].rerun)
        \/ Running /\ batch[cursor].rerun /\ (Coalesce(w) \/ Admit(w))
    BY <1>1, NeverBusy DEF CompleteReturns
  <1> HIDE DEF w
  <1>5. \/ slots' = slots /\ ~(Running /\ batch[cursor].rerun)
        \/ /\ Running /\ batch[cursor].rerun
           /\ \E i \in Slots :
                /\ slots'[i].work = w /\ (slots'[i].state = "Queued" \/ slots'[i].rerun)
                /\ \/ slots'[i].state = slots[i].state /\ slots[i].work = w
                   \/ slots[i].state = "Empty" /\ slots'[i].state = "Queued"
                /\ \A j \in Slots \ {i} : slots'[j] = slots[j]
    BY <1>1, <1>4, EnqueueStep
  <1>6. \A i \in Slots : /\ slots'[i].state = "Complete" <=> slots[i].state = "Complete"
                         /\ slots[i].state \in {"Running", "Complete"} => slots'[i].work = slots[i].work
    BY <1>5
  <1>7. SameAnswers
    <2>1. \A i \in Slots : /\ batch'[i].state = "Complete" /\ i # cursor' <=> batch[i].state = "Complete" /\ i # cursor
                           /\ batch[i].state = "Complete" /\ i # cursor => batch'[i].work = batch[i].work
      BY <1>1, <1>2, <1>3, SlotsFacts
    <2> QED BY <1>2, <1>6, <2>1, KeptAnswers
  <1>8. InRun' = InRun
    BY <1>2, <1>6, KeptRun
  <1>9. InCall # NoWork /\ InCall' = NoWork
    BY <1>1, <1>2, SlotsFacts, ControlAssumption DEF InCall, w
  <1>10. Owed' = Owed
    <2>1. ASSUME NEW u PROVE u \in Owed' <=> u \in Owed
      <3> DEFINE slotsAsk == \E j \in Slots : slots[j].work = u /\ Asks(j)
                 slotsAskNext == \E j \in Slots : slots'[j].work = u /\ (slots'[j].state = "Queued" \/ slots'[j].rerun)
                 batchAsks == \E j \in Slots : batch[j].work = u /\ batch[j].rerun
                 batchAsksNext == \E j \in Slots : batch'[j].work = u /\ batch'[j].rerun
      <3>1. batchAsks <=> (batchAsksNext \/ (u = w /\ batch[cursor].rerun))
        BY <1>1, <1>2, <1>3 DEF w
      <3>2. CASE Running /\ batch[cursor].rerun
        <4>1. PICK i \in Slots :
                /\ slots'[i].work = w /\ (slots'[i].state = "Queued" \/ slots'[i].rerun)
                /\ \/ slots'[i].state = slots[i].state /\ slots[i].work = w
                   \/ slots[i].state = "Empty" /\ slots'[i].state = "Queued"
                /\ \A j \in Slots \ {i} : slots'[j] = slots[j]
          BY <1>5, <3>2
        <4>2. Asks(i) => slots[i].work = w
          BY <4>1 DEF Asks, LaneInv
        <4>3. slotsAskNext <=> (u = w \/ slotsAsk)
          BY <4>1, <4>2 DEF Asks
        <4> HIDE DEF slotsAsk, slotsAskNext, batchAsks, batchAsksNext
        <4>4. (u \in Owed <=> slotsAsk \/ batchAsks) /\ (u \in Owed' <=> slotsAskNext \/ batchAsksNext)
          BY <1>2, <3>2, OwedOf, OwedNext DEF slotsAsk, slotsAskNext, batchAsks, batchAsksNext
        <4> QED BY <3>1, <3>2, <4>3, <4>4
      <3>3. CASE ~(Running /\ batch[cursor].rerun)
        <4>1. slotsAskNext <=> slotsAsk
          BY <1>5, <3>3 DEF Asks
        <4> HIDE DEF slotsAsk, slotsAskNext, batchAsks, batchAsksNext
        <4>2. (u \in Owed <=> Running /\ (slotsAsk \/ batchAsks))
              /\ (u \in Owed' <=> Running /\ (slotsAskNext \/ batchAsksNext))
          BY <1>2, OwedOf, OwedNext DEF slotsAsk, slotsAskNext, batchAsks, batchAsksNext
        <4> QED BY <3>1, <3>3, <4>1, <4>2
      <3> QED BY <3>2, <3>3
    <2> QED BY <2>1
  <1> QED BY <1>2, <1>7, <1>8, <1>9, <1>10, LaneReturns

LEMMA StopEndImplements == ASSUME IInv, StopEnd PROVE Lane!Next
  <1>1. Running /\ ~Running' /\ UNCHANGED <<batch, cursor>> /\ selected = -1 /\ selected' = -1
    BY DEF StopEnd, Running, IInv, RunningSlotIsPinned
  <1>2. Owed' = {}
    <2>1. ASSUME NEW u PROVE u \notin Owed'
      BY <1>1, OwedNext
    <2> QED BY <2>1
  <1>3. \A u \in Work : Answers(u)' = 0
    BY <1>1, AnswersNext
  <1>4. InRun' = InRun /\ InCall' = InCall
    BY <1>1 DEF InRun, InCall
  <1> QED BY <1>1, <1>2, <1>3, <1>4, LaneCloses

LEMMA StepImplements ==
  ASSUME IInv, LaneInv, [Next]_vars, IsFiniteSet(Work), Cardinality(Work) <= Capacity
  PROVE  [Lane!Next]_(Lane!vars)
  <1> USE DEF queueVars, workerVars, uiVars, postVars
  <1>1. CASE UNCHANGED vars
    BY <1>1, AsideIsSame DEF vars, Running
  <1>2. CASE Receive \/ Acknowledge \/ DrainBegin \/ StopBegin
    <2>1. UNCHANGED <<slots, batch, cursor, selected, pc>>
      BY <1>2 DEF Receive, Acknowledge, DrainBegin, StopBegin
    <2> QED BY <2>1, AsideIsSame DEF Running
  <1>3. CASE Wake \/ CheckStop \/ PickNothing \/ RunReturns \/ Notify \/ Post \/ PostFails
    <2>1. UNCHANGED <<slots, batch, cursor, selected>> /\ Running /\ Running'
      BY <1>3 DEF Wake, CheckStop, PickNothing, RunReturns, Notify, Post, PostFails, Running
    <2> QED BY <2>1, AsideIsSame
  <1>4. CASE Start
    BY <1>4, StartImplements
  <1>5. ASSUME NEW w \in Work, Enqueue(w) PROVE Lane!Next
    BY <1>5, RequestImplements
  <1>6. CASE Collect
    BY <1>6, CollectImplements
  <1>7. CASE Deliver
    BY <1>7, DeliverImplements
  <1>8. CASE DrainEnd
    BY <1>8, DrainEndImplements
  <1>9. CASE CompleteReturns
    BY <1>9, CompleteReturnsImplements
  <1>10. CASE StopEnd
    BY <1>10, StopEndImplements
  <1>11. CASE Pick
    BY <1>11, PickImplements
  <1>12. CASE Publish
    BY <1>12, PublishImplements
  <1> HIDE DEF queueVars, workerVars, uiVars, postVars
  <1> QED
    BY <1>1, <1>2, <1>3, <1>4, <1>5, <1>6, <1>7, <1>8, <1>9, <1>10, <1>11, <1>12 DEF Next, Drain, Worker

LEMMA InitImplements == ASSUME Init PROVE Lane!Init
  <1>1. ~Running /\ InRun = NoWork /\ InCall = NoWork
    BY DEF Init, Running, InRun, InCall
  <1>2. Owed = {}
    BY <1>1 DEF Owed
  <1>3. \A w \in Work : Answers(w) = 0
    BY <1>1, AnswersOf
  <1> QED BY <1>1, <1>2, <1>3 DEF Lane!Init, InRun, InCall

LEMMA LaneInvariance == Spec => [](IInv /\ LaneInv)
  <1>1. Init => IInv /\ LaneInv
    BY InitInv, InitLane
  <1>2. IInv /\ LaneInv /\ [Next]_vars => (IInv /\ LaneInv)'
    BY NextInv, NextLane
  <1> QED BY <1>1, <1>2, PTL DEF Spec

\* THEOREM: with a slot for every unit, the lane keeps the promise of
\* Widget.h: every accepted request is answered by a run that begins after it,
\* one unit runs at a time, each run is completed once and none after a stop.
\* (With fewer slots the rerun a Complete asks for may find all of them taken
\* and is dropped: the lane's constant Capacity is what the promise rests on.)
THEOREM LaneIsImplemented ==
  ASSUME IsFiniteSet(Work), Cardinality(Work) <= Capacity
  PROVE  Spec => ImplementsLane
  <1>1. Init => Lane!Init
    BY InitImplements
  <1>2. IInv /\ LaneInv /\ [Next]_vars => [Lane!Next]_(Lane!vars)
    BY StepImplements
  <1> QED BY <1>1, <1>2, LaneInvariance, PTL DEF Spec, ImplementsLane, Lane!Spec

\* THEOREM: under the same condition an accepted request is dropped by nothing
\* but a stop: it stays owed until the worker takes its unit.
THEOREM AcceptedAreKept ==
  ASSUME IsFiniteSet(Work), Cardinality(Work) <= Capacity
  PROVE  Spec => AcceptedIsKept
  <1> DEFINE kept == \A w \in Owed \ Owed' :
                       \/ ~Running'
                       \/ selected' # -1 /\ slots'[selected'].work = w
  <1>1. ASSUME IInv, LaneInv, [Next]_vars PROVE kept
    <2> SUFFICES ASSUME NEW w \in Owed, w \notin Owed', Running'
                 PROVE  selected' # -1 /\ slots'[selected'].work = w
      OBVIOUS
    <2>1. [Lane!Next]_(Lane!vars)
      BY <1>1, StepImplements
    <2>2. PICK u \in Work : InRun' = u /\ (Owed' = Owed \/ Owed' = Owed \ {u})
      BY <2>1 DEF Lane!Next, Lane!vars, Lane!Open, Lane!Finish, Lane!Return, Lane!Close, Lane!Request,
                  Lane!Begin, Lane!Complete, InRun
    <2>3. u = w /\ u # NoWork
      BY <2>2, ControlAssumption
    <2> QED BY <2>2, <2>3 DEF InRun
  <1>2. IInv /\ LaneInv /\ [Next]_vars => [kept]_vars
    BY <1>1
  <1> QED BY <1>2, LaneInvariance, PTL DEF Spec, AcceptedIsKept
=============================================================================
