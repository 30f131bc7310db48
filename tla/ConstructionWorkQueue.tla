------------------------ MODULE ConstructionWorkQueue ------------------------
(***************************************************************************)
(* The construction lane (RedXe/ConstructionWorkQueue.cpp): like the       *)
(* control lane, but its work may be an indivisible Shell call, so the UI  *)
(* thread never waits for it without a bound.  A stop that gives up leaves *)
(* the thread, the event and the running slot in place; a later stop or the*)
(* final Join takes them down.                                             *)
(*                                                                         *)
(* Its results are announced by RequestUiInvalidate (PluginHost.cpp), whose*)
(* flag and message it shares with every other worker; `other` is one.     *)
(***************************************************************************)
EXTENDS Integers, FiniteSets

CONSTANTS
  Work,      \* the IRedXeConstructionWork objects
  NoWork,    \* a null work pointer
  Capacity   \* ConstructionWorkQueue::Capacity

ASSUME ConstructionAssumption == /\ Capacity \in Nat \ {0}
                                 /\ NoWork \notin Work

Slots == 0 .. Capacity - 1
SlotStates == {"Empty", "Queued", "Running", "Complete"}
Slot == [work : Work \union {NoWork}, state : SlotStates]
EmptySlot == [work |-> NoWork, state |-> "Empty"]
EmptySlots == [i \in Slots |-> EmptySlot]

VARIABLES
  slots,        \* _slots
  lastSelected, \* _lastSelected
  completed,    \* _completed
  stop,         \* _stop: created by Start, set by Stop, closed by Reset
  ready,        \* _ready
  waitedOut,    \* _waitedOut: the bounded wait of this thread is spent
  pc,           \* where the worker is; "none" when not joinable
  selected,     \* the slot the worker's `running` points at, or -1
  target,       \* _uiWindow: "unset", "set" or "cleared"
  pending,      \* _pendingInvalidate
  posted,       \* kDataSnapshotInvalidateMessage in the UI queue
  other,        \* where another worker's RequestUiInvalidate is
  lost,         \* the last request had no window, or its post failed (history)
  ui,           \* where the UI thread is
  batch,        \* DrainCompletions' local `ready` array
  cursor,       \* the index whose Complete is on the UI stack, or -1
  bounded,      \* Stop's `wait` is not zero
  inProgress,   \* Stop's local `inProgress`
  joining,      \* the Stop is part of Join
  report,       \* what the last Stop returned since the thread started
  waits         \* positive waits that ran out on this thread (history)

queueVars == <<slots, lastSelected, completed, stop, ready, waitedOut>>
workerVars == <<pc, selected>>
drainVars == <<batch, cursor>>
stopVars == <<bounded, inProgress, joining, report, waits>>
postVars == <<target, pending, posted, other, lost>>
vars == <<queueVars, workerVars, postVars, ui, drainVars, stopVars>>

\* _worker.joinable()
Running == pc # "none"

\* The UI thread outside a drain, or inside a Complete callback, may submit.
MaySubmit == ui \in {"idle", "callback"}

InState(s) == {i \in Slots : slots[i].state = s}

Init == /\ slots = EmptySlots
        /\ lastSelected = Capacity - 1
        /\ completed = FALSE
        /\ stop = FALSE
        /\ ready = FALSE
        /\ waitedOut = FALSE
        /\ pc = "none"
        /\ selected = -1
        /\ target = "unset"
        /\ pending = FALSE
        /\ posted = 0
        /\ other = "idle"
        /\ lost = FALSE
        /\ ui = "idle"
        /\ batch = EmptySlots
        /\ cursor = -1
        /\ bounded = FALSE
        /\ inProgress = FALSE
        /\ joining = FALSE
        /\ report = "none"
        /\ waits = 0

-----------------------------------------------------------------------------
(* UI thread: Start, Enqueue, DrainCompletions.                            *)

\* QueueConstructionWork starts the lane, unless a stopped thread is still
\* there (E_UNEXPECTED).
Start == /\ ui = "idle"
         /\ ~Running
         /\ pc' = "wait"
         /\ report' = "none"
         /\ waits' = 0
         /\ UNCHANGED <<queueVars, selected, postVars, ui, drainVars, bounded,
                        inProgress, joining>>

\* Enqueue into the first empty slot; a unit that already has one is
\* coalesced without a rerun, a full queue refuses.  Both change nothing.
Enqueue(w) ==
  /\ MaySubmit
  /\ Running
  /\ ~stop
  /\ \A i \in Slots : slots[i].work # w
  /\ \E i \in InState("Empty") :
        /\ \A j \in InState("Empty") : i <= j
        /\ slots' = [slots EXCEPT ![i] = [work |-> w, state |-> "Queued"]]
  /\ ready' = TRUE
  /\ UNCHANGED <<lastSelected, completed, stop, waitedOut, workerVars, postVars, ui,
                 drainVars, stopVars>>

\* The message loop takes the message, which may be another worker's, ...
Receive ==
  /\ ui = "idle"
  /\ target = "set"
  /\ posted > 0
  /\ posted' = posted - 1
  /\ ui' = "ack"
  /\ UNCHANGED <<queueVars, workerVars, target, pending, other, lost, drainVars,
                 stopVars>>

\* ... and AcknowledgeUiInvalidate hands the flag back before it drains.
Acknowledge ==
  /\ ui = "ack"
  /\ pending' = FALSE
  /\ ui' = "drain"
  /\ UNCHANGED <<queueVars, workerVars, target, posted, other, lost, drainVars,
                 stopVars>>

\* _completed.exchange(false), in an open lane.
DrainBegin ==
  /\ ui = "drain"
  /\ IF Running /\ ~stop /\ completed
     THEN completed' = FALSE /\ ui' = "collect"
     ELSE completed' = completed /\ ui' = "idle"
  /\ UNCHANGED <<slots, lastSelected, stop, ready, waitedOut, workerVars,
                 postVars, drainVars, stopVars>>

\* The lock section that moves every Complete slot to the local array.
Collect ==
  /\ ui = "collect"
  /\ batch' = [i \in Slots |-> IF slots[i].state = "Complete"
                               THEN slots[i] ELSE EmptySlot]
  /\ slots' = [i \in Slots |-> IF slots[i].state = "Complete"
                               THEN EmptySlot ELSE slots[i]]
  /\ ui' = "deliver"
  /\ UNCHANGED <<lastSelected, completed, stop, ready, waitedOut, workerVars,
                 postVars, cursor, stopVars>>

\* Mutant: the loop does not notice a stop made by a callback.
DeliverAfterStop ==
  /\ ui = "deliver"
  /\ \E i \in Slots :
        /\ batch[i].state = "Complete"
        /\ \A j \in Slots : batch[j].state = "Complete" => i <= j
        /\ cursor' = i
  /\ ui' = "callback"
  /\ UNCHANGED <<queueVars, workerVars, postVars, batch, stopVars>>

\* The loop calls Complete of the next result, while the lane is open.
Deliver ==
  /\ ui = "deliver"
  /\ Running /\ ~stop
  /\ \E i \in Slots :
        /\ batch[i].state = "Complete"
        /\ \A j \in Slots : batch[j].state = "Complete" => i <= j
        /\ cursor' = i
  /\ ui' = "callback"
  /\ UNCHANGED <<queueVars, workerVars, postVars, batch, stopVars>>

\* Complete returns.
CompleteReturns ==
  /\ ui = "callback"
  /\ batch' = [batch EXCEPT ![cursor] = EmptySlot]
  /\ cursor' = -1
  /\ ui' = "deliver"
  /\ UNCHANGED <<queueVars, workerVars, postVars, stopVars>>

\* The loop ends, and the local array releases what is left in it.
DrainEnd ==
  /\ ui = "deliver"
  /\ ~Running \/ stop \/ \A i \in Slots : batch[i].state # "Complete"
  /\ batch' = EmptySlots
  /\ ui' = "idle"
  /\ UNCHANGED <<queueVars, workerVars, postVars, cursor, stopVars>>

-----------------------------------------------------------------------------
(* UI thread: Stop and Join.                                               *)

\* Mutant: every stop waits anew.
StopWaitsAgain(positive, join) ==
  /\ MaySubmit
  /\ Running
  /\ stop' = TRUE
  /\ bounded' = positive
  /\ joining' = join
  /\ ui' = "scan"
  /\ UNCHANGED <<slots, lastSelected, completed, ready, waitedOut, workerVars,
                 postVars, drainVars, inProgress, report, waits>>

\* Stop(timeout) sets the event; a thread whose wait is spent gets none.
StopBegin(positive, join) ==
  /\ MaySubmit
  /\ Running
  /\ stop' = TRUE
  /\ bounded' = (positive /\ ~waitedOut)
  /\ joining' = join
  /\ ui' = "scan"
  /\ UNCHANGED <<slots, lastSelected, completed, ready, waitedOut, workerVars,
                 postVars, drainVars, inProgress, report, waits>>

\* The lock section: everything but the running unit is discarded.
StopScan ==
  /\ ui = "scan"
  /\ inProgress' = (InState("Running") # {})
  /\ slots' = [i \in Slots |-> IF slots[i].state = "Running"
                               THEN slots[i] ELSE EmptySlot]
  /\ ui' = "bounded"
  /\ UNCHANGED <<lastSelected, completed, stop, ready, waitedOut, workerVars,
                 postVars, drainVars, bounded, joining, report, waits>>

\* Where the UI thread goes on once the stop is over.
Resume == IF cursor = -1 THEN "idle" ELSE "callback"

\* Reset, after the thread has been joined.
Reset == /\ pc' = "none"
         /\ selected' = -1
         /\ slots' = EmptySlots
         /\ completed' = FALSE
         /\ stop' = FALSE
         /\ ready' = FALSE
         /\ lastSelected' = Capacity - 1
         /\ waitedOut' = FALSE

\* The thread ended in time: StopResult::Stopped.
StopJoins == /\ ui = "bounded"
             /\ pc = "exited"
             /\ Reset
             /\ ui' = Resume
             /\ report' = "Stopped"
             /\ UNCHANGED <<postVars, drainVars, bounded, inProgress, joining,
                            waits>>

\* Mutant: a stop that finds a unit running waits for it.
StopWaitsForRun ==
  /\ ui = "bounded"
  /\ pc # "exited"
  /\ ~inProgress
  /\ waitedOut' = (waitedOut \/ inProgress \/ bounded)
  /\ waits' = IF bounded THEN waits + 1 ELSE waits
  /\ report' = IF inProgress THEN "WorkInProgress" ELSE "Exiting"
  /\ ui' = IF joining THEN "join" ELSE Resume
  /\ UNCHANGED <<slots, lastSelected, completed, stop, ready, workerVars, postVars,
                 drainVars, bounded, inProgress, joining>>

\* The wait ran out, or was zero: the thread and its slot stay.
StopGivesUp ==
  /\ ui = "bounded"
  /\ pc # "exited"
  /\ waitedOut' = (waitedOut \/ inProgress \/ bounded)
  /\ waits' = IF bounded THEN waits + 1 ELSE waits
  /\ report' = IF inProgress THEN "WorkInProgress" ELSE "Exiting"
  /\ ui' = IF joining THEN "join" ELSE Resume
  /\ UNCHANGED <<slots, lastSelected, completed, stop, ready, workerVars, postVars,
                 drainVars, bounded, inProgress, joining>>

\* Join, the destructor's: waits for the thread without a bound.
JoinEnd == /\ ui = "join"
           /\ pc = "exited"
           /\ Reset
           /\ ui' = Resume
           /\ UNCHANGED <<postVars, drainVars, stopVars>>

-----------------------------------------------------------------------------
(* The worker thread.  Dispatching window messages of its apartment changes*)
(* nothing here.                                                           *)

\* The stop event is reported before the ready event.
Wake == /\ pc = "wait"
        /\ stop \/ ready
        /\ pc' = IF stop THEN "exited" ELSE "pick"
        /\ ready' = (stop /\ ready)
        /\ UNCHANGED <<slots, lastSelected, completed, stop, waitedOut,
                       selected, postVars, ui, drainVars, stopVars>>

\* How far slot i is from the slot served last.
Offset(i) == (i - lastSelected - 1 + Capacity) % Capacity

\* The lock section reads the stop event and takes the next Queued slot.
Pick == /\ pc = "pick"
        /\ ~stop
        /\ \E i \in InState("Queued") :
              /\ \A j \in InState("Queued") : Offset(i) <= Offset(j)
              /\ selected' = i
              /\ lastSelected' = i
              /\ slots' = [slots EXCEPT ![i].state = "Running"]
        /\ pc' = "run"
        /\ UNCHANGED <<completed, stop, ready, waitedOut, postVars, ui, drainVars,
                       stopVars>>

PickNothing == /\ pc = "pick"
               /\ stop \/ InState("Queued") = {}
               /\ pc' = IF stop THEN "exited" ELSE "wait"
               /\ UNCHANGED <<queueVars, selected, postVars, ui, drainVars,
                              stopVars>>

\* Run returns, or was skipped: no apartment, or three seconds in the queue.
RunReturns == /\ pc = "run"
              /\ pc' = "publish"
              /\ UNCHANGED <<queueVars, selected, postVars, ui, drainVars,
                             stopVars>>

\* The result goes back to the pinned slot; nobody is told after a stop.
Publish == /\ pc = "publish"
           /\ slots' = [slots EXCEPT ![selected].state = "Complete"]
           /\ selected' = -1
           /\ completed' = (completed \/ ~stop)
           /\ pc' = IF stop THEN "pick" ELSE "notify"
           /\ UNCHANGED <<lastSelected, stop, ready, waitedOut, postVars, ui,
                          drainVars, stopVars>>

-----------------------------------------------------------------------------
(* RequestUiInvalidate, by the lane's _notify and by another worker.       *)

LaneAt(from, to) ==
  /\ pc = from /\ pc' = to
  /\ UNCHANGED <<queueVars, selected, other, ui, drainVars, stopVars>>

OtherAt(from, to) ==
  /\ other = from /\ other' = to
  /\ UNCHANGED <<queueVars, workerVars, ui, drainVars, stopVars>>

\* The flag is taken, or a message is believed to be on its way.
Exchange == /\ pending' = TRUE
            /\ lost' = (lost /\ ~pending)
            /\ UNCHANGED <<target, posted>>

\* PostMessageW succeeds, if the window is still there, ...
Post == /\ target = "set"
        /\ posted' = posted + 1
        /\ lost' = FALSE
        /\ UNCHANGED <<target, pending>>

\* Mutant: the failed post keeps the flag.
PostFailsSilently == /\ lost' = TRUE
                     /\ UNCHANGED <<target, pending, posted>>

\* ... or fails, and the flag is handed back.
PostFails == /\ pending' = FALSE
             /\ lost' = TRUE
             /\ UNCHANGED <<target, posted>>

\* A result without a window is announced to nobody.
Notify == /\ LaneAt("notify", IF target = "set" THEN "exchange" ELSE "pick")
          /\ lost' = (lost \/ target # "set")
          /\ UNCHANGED <<target, pending, posted>>

LaneRequest ==
  \/ Notify
  \/ LaneAt("exchange", IF pending THEN "pick" ELSE "post") /\ Exchange
  \/ LaneAt("post", "pick") /\ Post
  \/ LaneAt("post", "pick") /\ PostFails

OtherRequest ==
  \/ target = "set" /\ OtherAt("idle", IF pending THEN "idle" ELSE "post") /\ Exchange
  \/ OtherAt("post", "idle") /\ Post
  \/ OtherAt("post", "idle") /\ PostFails

\* SetUiInvalidateTarget(window), once the window has a renderer.
SetTarget ==
  /\ ui = "idle"
  /\ target = "unset"
  /\ target' = "set"
  /\ UNCHANGED <<queueVars, workerVars, pending, posted, other, lost, ui,
                 drainVars, stopVars>>

\* SetUiInvalidateTarget(nullptr), when the window closes with its queue, and at
\* shutdown.
ClearTarget ==
  /\ MaySubmit
  /\ target = "set"
  /\ target' = "cleared"
  /\ pending' = FALSE
  /\ posted' = 0
  /\ UNCHANGED <<queueVars, workerVars, other, lost, ui, drainVars, stopVars>>

-----------------------------------------------------------------------------
Worker == Wake \/ Pick \/ PickNothing \/ RunReturns \/ Publish \/ LaneRequest

Drain == Receive \/ Acknowledge \/ DrainBegin \/ Collect \/ Deliver \/ CompleteReturns \/ DrainEnd

Stopping == StopScan \/ StopJoins \/ StopGivesUp \/ JoinEnd

Next == \/ Start
        \/ \E w \in Work : Enqueue(w)
        \/ Drain
        \/ SetTarget
        \/ ClearTarget
        \/ OtherRequest
        \/ \E positive \in BOOLEAN : StopBegin(positive, FALSE)
        \/ StopBegin(FALSE, TRUE)
        \/ Stopping
        \/ Worker

Spec == Init /\ [][Next]_vars

\* The worker's own code and the message loop keep running, but nothing makes
\* an indivisible Shell call return: no fairness for RunReturns.
Fairness == /\ WF_vars(Wake \/ Pick \/ PickNothing \/ Publish \/ LaneRequest)
            /\ WF_vars(Drain)
            /\ WF_vars(StopScan) /\ WF_vars(StopJoins) /\ WF_vars(StopGivesUp)
            /\ WF_vars(JoinEnd)

FairSpec == Spec /\ Fairness

-----------------------------------------------------------------------------
(* Properties.                                                             *)

WorkerStates == {"none", "wait", "pick", "run", "publish", "notify", "exchange",
                 "post", "exited"}
UiStates == {"idle", "ack", "drain", "collect", "deliver", "callback", "scan",
             "bounded", "join"}
Reports == {"none", "Stopped", "Exiting", "WorkInProgress"}

TypeOK == /\ slots \in [Slots -> Slot]
          /\ lastSelected \in Slots
          /\ completed \in BOOLEAN
          /\ stop \in BOOLEAN
          /\ ready \in BOOLEAN
          /\ waitedOut \in BOOLEAN
          /\ pc \in WorkerStates
          /\ selected \in Slots \union {-1}
          /\ target \in {"unset", "set", "cleared"}
          /\ pending \in BOOLEAN
          /\ posted \in Nat
          /\ other \in {"idle", "post"}
          /\ lost \in BOOLEAN
          /\ ui \in UiStates
          /\ batch \in [Slots -> Slot]
          /\ cursor \in Slots \union {-1}
          /\ bounded \in BOOLEAN
          /\ inProgress \in BOOLEAN
          /\ joining \in BOOLEAN
          /\ report \in Reports
          /\ waits \in Nat

\* The worker reads and writes its unit only through the slot it took: that
\* slot keeps the unit through Run, whatever the UI thread collects, stops or
\* discards meanwhile, also after a stop that gave up.
RunningSlotIsPinned ==
  /\ \A i \in Slots : slots[i].state = "Running" <=> selected = i
  /\ selected # -1 <=> pc \in {"run", "publish"}
  /\ selected # -1 => slots[selected].work # NoWork

\* StopResult::Exiting promises that no unit is inside Run, nor will be: what
\* lets the host tell a stuck Shell call from a slow thread exit.
ExitingMeansNoWork == stop /\ report = "Exiting" => selected = -1

\* However often the host is shut down, one thread costs the UI thread at most
\* one bounded wait.
StopWaitsOnce == waits <= 1

Posting == pc = "post" \/ other = "post"

\* While the window lives, the flag stands for one message: one that a worker
\* is about to post or to give up, one in the queue, or one about to be
\* acknowledged.
OneMessage ==
  target # "cleared" =>
    /\ posted <= 1
    /\ pending <=> (Posting \/ posted = 1 \/ ui = "ack")
    /\ pc = "post" => other # "post"
    /\ Posting => posted = 0 /\ ui # "ack"
    /\ ui = "ack" => posted = 0

\* An open lane never holds a result that nobody will come for: its own request
\* or another worker's, a message or a drain is still to come, although the drain
\* races the next result and the flag is another worker's as often as the lane's.
\* Only a request that found no window, or whose post failed, leaves one behind,
\* and only until the next: a failed post never leaves the flag set.
NoLostWakeup ==
  InState("Complete") # {} /\ ~stop /\ target # "cleared" =>
     \/ pc \in {"notify", "exchange"}
     \/ Posting
     \/ posted > 0
     \/ ui \in {"ack", "drain", "collect"}
     \/ lost

\* Session end and process exit each stop the lane, with and without time left,
\* over a Shell call that may never return: what each stop reports is true, and
\* all of them together wait once.
StopIsHonest == ExitingMeansNoWork /\ StopWaitsOnce

\* What the lane tells the host can be relied on: what a stop reports, and that a
\* result of an open lane is announced.
LaneIsHonest == StopIsHonest /\ NoLostWakeup

\* A stop ends even if the running Shell call never does.
StopIsBounded == ui \in {"scan", "bounded"} ~> ui \notin {"scan", "bounded"}

-----------------------------------------------------------------------------
(* The abstract lane: closed by the stop event, not by the join.           *)

IsOpen == Running /\ ~stop

\* Results of w that Complete has not been called for.
Answers(w) ==
  LET Of(a) == {i \in Slots : a[i].work = w /\ a[i].state = "Complete"}
  IN  IF IsOpen THEN Cardinality(Of(slots)) + Cardinality(Of(batch) \ {cursor})
                ELSE 0

Lane == INSTANCE ControlLane WITH
          open <- IsOpen,
          owed <- IF IsOpen THEN {slots[i].work : i \in InState("Queued")}
                            ELSE {},
          running <- IF selected = -1 THEN NoWork ELSE slots[selected].work,
          answers <- [w \in Work |-> Answers(w)],
          completing <- IF cursor = -1 THEN NoWork ELSE batch[cursor].work

\* Accepted units run once and complete once; a stop drops what is queued,
\* suppresses every completion, also those of a drain it interrupts, and lets
\* a unit still running end unanswered.
ImplementsLane == Lane!Spec
=============================================================================
