--------------------------- MODULE ControlWorkQueue ---------------------------
(***************************************************************************)
(* The host's control lane (RedXe/ControlWorkQueue.cpp) with the PluginHost*)
(* code that feeds it and is woken by it (RedXe/PluginHost.cpp).           *)
(*                                                                         *)
(* Two threads: the UI thread (variable ui) and the lazy MTA worker        *)
(* (variable pc).  Every step is one lock section, one event or atomic     *)
(* access, or one callback boundary, so that all interleavings the locks   *)
(* allow are behaviours of the module.                                     *)
(***************************************************************************)
EXTENDS Integers, FiniteSets

CONSTANTS
  Work,         \* the IRedXeControlWork objects widgets submit
  NoWork,       \* a null work pointer
  Capacity,     \* ControlWorkQueue::Capacity
  PostMayFail   \* whether PostMessageW may fail

ASSUME ControlAssumption == /\ Capacity \in Nat \ {0}
                            /\ NoWork \notin Work
                            /\ PostMayFail \in BOOLEAN

Slots == 0 .. Capacity - 1
SlotStates == {"Empty", "Queued", "Running", "Complete"}
Slot == [work : Work \union {NoWork}, state : SlotStates, rerun : BOOLEAN]
EmptySlot == [work |-> NoWork, state |-> "Empty", rerun |-> FALSE]
EmptySlots == [i \in Slots |-> EmptySlot]

VARIABLES
  slots,        \* _slots
  lastSelected, \* _lastSelected: where the round robin stands
  completed,    \* _completed: some slot may hold a result
  stop,         \* _stop, a manual-reset event
  ready,        \* _ready, an auto-reset event
  pc,           \* where the worker thread is; "none" when not joinable
  selected,     \* the worker's local `selected`
  ui,           \* where the UI thread is
  batch,        \* DrainCompletions' local `ready` array
  cursor,       \* the index whose Complete is on the UI stack, or -1
  pending,      \* PluginHost::_pendingInvalidate
  posted,       \* kDataSnapshotInvalidateMessage in the UI queue
  postLost      \* the latest PostMessageW failed (history)

queueVars == <<slots, lastSelected, completed, stop, ready>>
workerVars == <<pc, selected>>
uiVars == <<ui, batch, cursor>>
postVars == <<pending, posted, postLost>>
vars == <<queueVars, workerVars, uiVars, postVars>>

\* _worker.joinable(); only the UI thread changes it.
Running == pc # "none"

\* The UI thread outside a drain, or inside a Complete callback, may submit.
MaySubmit == ui \in {"idle", "callback"}

InState(s) == {i \in Slots : slots[i].state = s}
Holding(w) == {i \in Slots : slots[i].work = w}

Init == /\ slots = EmptySlots
        /\ lastSelected = Capacity - 1
        /\ completed = FALSE
        /\ stop = FALSE
        /\ ready = FALSE
        /\ pc = "none"
        /\ selected = -1
        /\ ui = "idle"
        /\ batch = EmptySlots
        /\ cursor = -1
        /\ pending = FALSE
        /\ posted = 0
        /\ postLost = FALSE

-----------------------------------------------------------------------------
(* UI thread: submission.                                                  *)

\* QueueControlWork starts the lane on the first request.  A Complete that
\* stopped the lane is the last user code of a shutdown: it starts nothing.
Start == /\ ui = "idle"
         /\ ~Running
         /\ pc' = "wait"
         /\ selected' = -1
         /\ stop' = FALSE
         /\ ready' = FALSE
         /\ UNCHANGED <<slots, lastSelected, completed, uiVars, postVars>>

\* Mutant: a request that meets an uncollected result is forgotten.
CoalesceRunning(w) ==
  /\ Running
  /\ \E i \in Holding(w) :
        slots' = [slots EXCEPT ![i].rerun = @ \/ slots[i].state = "Running"]
  /\ UNCHANGED ready

\* Enqueue of a unit that already has a slot: one rerun, unless its run has
\* not begun yet.
Coalesce(w) ==
  /\ Running
  /\ \E i \in Holding(w) :
        slots' = [slots EXCEPT ![i].rerun = @ \/ slots[i].state # "Queued"]
  /\ UNCHANGED ready

\* Enqueue into the first empty slot.
Admit(w) ==
  /\ Running
  /\ Holding(w) = {}
  /\ \E i \in InState("Empty") :
        /\ \A j \in InState("Empty") : i <= j
        /\ slots' = [slots EXCEPT ![i] =
                       [work |-> w, state |-> "Queued", rerun |-> FALSE]]
  /\ ready' = TRUE

\* ERROR_BUSY: every slot is held by another unit.
Busy(w) == Running /\ Holding(w) = {} /\ InState("Empty") = {}

Enqueue(w) == /\ MaySubmit
              /\ Coalesce(w) \/ Admit(w)
              /\ UNCHANGED <<lastSelected, completed, stop, workerVars,
                             uiVars, postVars>>

-----------------------------------------------------------------------------
(* UI thread: AcknowledgeUiInvalidate and DrainCompletions.                *)

\* The message loop takes the coalesced message ...
Receive == /\ ui = "idle"
           /\ posted > 0
           /\ posted' = posted - 1
           /\ ui' = "ack"
           /\ UNCHANGED <<queueVars, workerVars, batch, cursor, pending,
                          postLost>>

\* ... and re-arms the post before it looks at any result.
Acknowledge == /\ ui = "ack"
               /\ pending' = FALSE
               /\ ui' = "drain"
               /\ UNCHANGED <<queueVars, workerVars, batch, cursor, posted,
                              postLost>>

\* _completed.exchange(false)
DrainBegin == /\ ui = "drain"
              /\ completed' = FALSE
              /\ ui' = IF completed THEN "collect" ELSE "idle"
              /\ UNCHANGED <<slots, lastSelected, stop, ready, workerVars,
                             batch, cursor, postVars>>

\* The lock section that moves every Complete slot to the local array.
Collect ==
  /\ ui = "collect"
  /\ batch' = [i \in Slots |-> IF slots[i].state = "Complete"
                               THEN slots[i] ELSE EmptySlot]
  /\ slots' = [i \in Slots |-> IF slots[i].state = "Complete"
                               THEN EmptySlot ELSE slots[i]]
  /\ ui' = "deliver"
  /\ UNCHANGED <<lastSelected, completed, stop, ready, workerVars, cursor,
                 postVars>>

\* The loop calls Complete of the next result in slot order.
Deliver ==
  /\ ui = "deliver"
  /\ Running
  /\ \E i \in Slots :
        /\ batch[i].state = "Complete"
        /\ \A j \in Slots : batch[j].state = "Complete" => i <= j
        /\ cursor' = i
  /\ ui' = "callback"
  /\ UNCHANGED <<queueVars, workerVars, batch, postVars>>

\* The loop ends: the array is used up, or a callback stopped the lane.
DrainEnd ==
  /\ ui = "deliver"
  /\ ~Running \/ \A i \in Slots : batch[i].state # "Complete"
  /\ batch' = EmptySlots
  /\ ui' = "idle"
  /\ UNCHANGED <<queueVars, workerVars, cursor, postVars>>

\* Complete returns; a coalesced rerun is enqueued, its result ignored.
CompleteReturns ==
  /\ ui = "callback"
  /\ IF Running /\ batch[cursor].rerun
     THEN LET w == batch[cursor].work
          IN  \/ Coalesce(w)
              \/ Admit(w)
              \/ Busy(w) /\ UNCHANGED <<slots, ready>>
     ELSE UNCHANGED <<slots, ready>>
  /\ batch' = [batch EXCEPT ![cursor] = EmptySlot]
  /\ cursor' = -1
  /\ ui' = "deliver"
  /\ UNCHANGED <<lastSelected, completed, stop, workerVars, postVars>>

-----------------------------------------------------------------------------
(* UI thread: Stop, which joins the worker.                                *)

StopBegin == /\ MaySubmit
             /\ Running
             /\ stop' = TRUE
             /\ ui' = "join"
             /\ UNCHANGED <<slots, lastSelected, completed, ready, workerVars,
                            batch, cursor, postVars>>

StopEnd == /\ ui = "join"
           /\ pc = "exited"
           /\ pc' = "none"
           /\ selected' = -1
           /\ slots' = EmptySlots
           /\ completed' = FALSE
           /\ stop' = FALSE
           /\ ready' = FALSE
           /\ ui' = IF cursor = -1 THEN "idle" ELSE "callback"
           /\ UNCHANGED <<lastSelected, batch, cursor, postVars>>

-----------------------------------------------------------------------------
(* The worker thread: Worker and its notify callback.                      *)

\* Mutant: the worker waits for work only.
WakeForWork == /\ pc = "wait"
               /\ ready
               /\ pc' = "check"
               /\ ready' = FALSE
               /\ UNCHANGED <<slots, lastSelected, completed, stop, selected,
                              uiVars, postVars>>

\* WaitForMultipleObjects reports the stop event before the ready event.
Wake == /\ pc = "wait"
        /\ stop \/ ready
        /\ pc' = IF stop THEN "exited" ELSE "check"
        /\ ready' = (stop /\ ready)
        /\ UNCHANGED <<slots, lastSelected, completed, stop, selected,
                       uiVars, postVars>>

\* The stop event is read outside the lock.
CheckStop == /\ pc = "check"
             /\ pc' = IF stop THEN "exited" ELSE "pick"
             /\ UNCHANGED <<queueVars, selected, uiVars, postVars>>

\* Mutant: every scan starts at the first slot.
OffsetFromZero(i) == i

\* How far slot i is from the slot served last.
Offset(i) == (i - lastSelected - 1 + Capacity) % Capacity

\* The first Queued slot after the one served last.
Pick == /\ pc = "pick"
        /\ \E i \in InState("Queued") :
              /\ \A j \in InState("Queued") : Offset(i) <= Offset(j)
              /\ selected' = i
              /\ lastSelected' = i
              /\ slots' = [slots EXCEPT ![i].state = "Running"]
        /\ pc' = "run"
        /\ UNCHANGED <<completed, stop, ready, uiVars, postVars>>

PickNothing == /\ pc = "pick"
               /\ InState("Queued") = {}
               /\ pc' = "wait"
               /\ UNCHANGED <<queueVars, selected, uiVars, postVars>>

\* Run returns, or is skipped: no apartment, or three seconds in the queue.
RunReturns == /\ pc = "run"
              /\ pc' = "publish"
              /\ UNCHANGED <<queueVars, selected, uiVars, postVars>>


\* The lock section that publishes the result.
Publish == /\ pc = "publish"
           /\ slots' = [slots EXCEPT ![selected].state = "Complete"]
           /\ completed' = TRUE
           /\ selected' = -1
           /\ pc' = "notify"
           /\ UNCHANGED <<lastSelected, stop, ready, uiVars, postVars>>

\* RequestUiInvalidate: _pendingInvalidate.exchange(1)
Notify == /\ pc = "notify"
          /\ pending' = TRUE
          /\ pc' = IF pending THEN "check" ELSE "post"
          /\ UNCHANGED <<queueVars, selected, uiVars, posted, postLost>>

\* RequestUiInvalidate: PostMessageW
Post == /\ pc = "post"
        /\ posted' = posted + 1
        /\ postLost' = FALSE
        /\ pc' = "check"
        /\ UNCHANGED <<queueVars, selected, uiVars, pending>>

\* RequestUiInvalidate: the failed PostMessageW
PostFails == /\ pc = "post"
             /\ PostMayFail
             /\ pending' = FALSE
             /\ postLost' = TRUE
             /\ pc' = "check"
             /\ UNCHANGED <<queueVars, selected, uiVars, posted>>

-----------------------------------------------------------------------------
Worker == \/ Wake
          \/ CheckStop
          \/ Pick
          \/ PickNothing
          \/ RunReturns
          \/ Publish
          \/ Notify
          \/ Post
          \/ PostFails

Drain == Receive \/ Acknowledge \/ DrainBegin \/ Collect \/ Deliver
         \/ DrainEnd \/ CompleteReturns

Next == \/ Start
        \/ \E w \in Work : Enqueue(w)
        \/ Drain
        \/ StopBegin
        \/ StopEnd
        \/ Worker

Spec == Init /\ [][Next]_vars

\* The worker and the message loop keep running, and Run and Complete return:
\* Widget.h binds Run to the cancel event and three seconds, and Complete to a
\* bounded UI callback.  Nobody is obliged to submit, start or stop.
Fairness == WF_vars(Worker) /\ WF_vars(Drain) /\ WF_vars(StopEnd)

FairSpec == Spec /\ Fairness

-----------------------------------------------------------------------------
(* Properties.                                                             *)

WorkerStates == {"none", "wait", "check", "pick", "run", "publish", "notify",
                 "post", "exited"}
UiStates == {"idle", "ack", "drain", "collect", "deliver", "callback", "join"}

TypeOK == /\ slots \in [Slots -> Slot]
          /\ lastSelected \in Slots
          /\ completed \in BOOLEAN
          /\ stop \in BOOLEAN
          /\ ready \in BOOLEAN
          /\ pc \in WorkerStates
          /\ selected \in Slots \union {-1}
          /\ ui \in UiStates
          /\ batch \in [Slots -> Slot]
          /\ cursor \in Slots \union {-1}
          /\ pending \in BOOLEAN
          /\ posted \in 0 .. 1
          /\ postLost \in BOOLEAN

\* A unit occupies at most one slot, whatever Complete callbacks resubmit
\* while the drain still holds older results: Enqueue coalesces, and only the
\* UI thread fills slots.
OneSlotPerUnit ==
  \A i, j \in Slots : slots[i].work = slots[j].work /\ slots[i].work # NoWork
                      => i = j

\* The slot the worker publishes into is the one it took: nothing the UI
\* thread does meanwhile (Enqueue, DrainCompletions) moves a Running slot.
RunningSlotIsPinned ==
  /\ \A i \in Slots : slots[i].state = "Running" <=> selected = i
  /\ selected # -1 <=> pc \in {"run", "publish"}

\* A published result always has a UI visit under way: a notification still
\* to be sent, a message in the queue, or a drain that has not collected yet.
\* Only a failed PostMessageW can leave one behind, until the next post.
NoLostWakeup ==
  InState("Complete") # {} =>
     \/ pc \in {"notify", "post"}
     \/ posted > 0
     \/ ui \in {"ack", "drain", "collect", "join"}
     \/ postLost

\* The pending flag counts exactly the message on its way, so completions
\* never flood the UI queue and never believe in a message that is not there.
PostsAreCoalesced ==
  pending <=> (posted > 0 \/ ui = "ack" \/ pc = "post")

\* Every queued unit is taken or dropped by a stop, however often other units
\* are resubmitted: the round robin starves nobody.
QueuedIsServed ==
  \A i \in Slots : slots[i].state = "Queued" ~> slots[i].state # "Queued"


\* Stop's join ends: the worker never needs the UI thread that waits for it.
StopTerminates == (ui = "join") ~> (ui # "join")

-----------------------------------------------------------------------------
(* The abstract lane.                                                      *)

\* Results the UI thread has not handed to Complete yet.
Answers(w) ==
  LET Of(a) == {i \in Slots : a[i].work = w /\ a[i].state = "Complete"}
  IN  IF Running THEN Cardinality(Of(slots)) + Cardinality(Of(batch) \ {cursor})
                 ELSE 0

\* Accepted and not begun: a Queued slot, or a rerun flag that is still set.
Owed == IF Running
        THEN {slots[i].work : i \in {j \in Slots :
                                slots[j].state = "Queued" \/ slots[j].rerun}}
             \union {batch[i].work : i \in {j \in Slots : batch[j].rerun}}
        ELSE {}

Lane == INSTANCE ControlLane WITH
          open <- Running,
          owed <- Owed,
          running <- IF selected = -1 THEN NoWork ELSE slots[selected].work,
          answers <- [w \in Work |-> Answers(w)],
          completing <- IF cursor = -1 THEN NoWork ELSE batch[cursor].work

\* An accepted request, coalesced or not, is dropped by nothing but a stop: it
\* stays owed until the worker takes its unit.
AcceptedIsKept ==
  [][\A w \in Owed \ Owed' : \/ ~Running'
                             \/ selected' # -1 /\ slots'[selected'].work = w]_vars

\* Every accepted request is answered by a run that begins after it, one unit
\* runs at a time, each run is completed once, and none after a stop.
ImplementsLane == Lane!Spec
=============================================================================
