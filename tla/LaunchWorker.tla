----------------------------- MODULE LaunchWorker -----------------------------
(***************************************************************************)
(* The launch lane (RedXe/LaunchWorker.cpp): a ring of slots between the   *)
(* UI thread, which accepts launches and logs their results, and one thread*)
(* that performs them.  A launch can block in the shell for as long as it  *)
(* likes, so a stop gives up after one bounded wait.                       *)
(*                                                                         *)
(* Requests are abstract; an identical one may be accepted again.  Results *)
(* are announced by RequestHostActionDrain (PluginHost.cpp), whose flag and*)
(* message the lane shares with the threads that queue actions; `other` is *)
(* one of them.                                                            *)
(***************************************************************************)
EXTENDS Integers, Sequences, FiniteSets

CONSTANTS
  Launches,  \* the launch requests
  NoLaunch,  \* the request of a free slot
  kSlots     \* LaunchWorker::kSlots

ASSUME LaunchAssumption == /\ kSlots \in Nat \ {0}
                           /\ NoLaunch \notin Launches

Slots == 0 .. kSlots - 1
SlotStates == {"Empty", "Queued", "Running", "Complete"}
Slot == [launch : Launches \union {NoLaunch}, state : SlotStates]
EmptySlot == [launch |-> NoLaunch, state |-> "Empty"]
EmptySlots == [i \in Slots |-> EmptySlot]

VARIABLES
  slots,     \* _slots
  head,      \* _head
  count,     \* _count
  stop,      \* _stop: the manual-reset event
  wake,      \* _wake: the auto-reset event; a restart does not reset it
  waitedOut, \* _waitedOut
  pc,        \* where the thread is; "none" when it is not joinable
  running,   \* the worker's local `running` as a slot index, or -1
  target,    \* _uiWindow: "unset", "set" or "cleared"
  pending,   \* _pendingHostActionPost
  posted,    \* kHostActionMessage in the UI queue
  other,     \* where another thread's RequestHostActionDrain is
  lost,      \* the last request had no window, or its post failed (history)
  ui,        \* where the UI thread is
  logging,   \* the launch DrainCompletions logs, or NoLaunch
  bounded,   \* Stop's `wait` is not zero
  report,    \* what the last Stop returned since the thread started
  waits      \* positive waits that ran out on this thread (history)

ringVars == <<slots, head, count>>
threadVars == <<pc, running>>
stopVars == <<bounded, report, waits>>
postVars == <<target, pending, posted, other, lost>>
vars == <<ringVars, stop, wake, waitedOut, threadVars, postVars, ui, logging,
          stopVars>>

\* _thread.joinable()
Joinable == pc # "none"

InState(s) == {i \in Slots : slots[i].state = s}

\* The slot at a distance from the head.
At(offset) == (head + offset) % kSlots

Init == /\ slots = EmptySlots
        /\ head = 0
        /\ count = 0
        /\ stop = FALSE
        /\ wake = FALSE
        /\ waitedOut = FALSE
        /\ pc = "none"
        /\ running = -1
        /\ target = "unset"
        /\ pending = FALSE
        /\ posted = 0
        /\ other = "idle"
        /\ lost = FALSE
        /\ ui = "idle"
        /\ logging = NoLaunch
        /\ bounded = FALSE
        /\ report = "none"
        /\ waits = 0

-----------------------------------------------------------------------------
(* UI thread: Enqueue and DrainCompletions.                                *)

\* Enqueue starts the thread for the first launch and copies the request to
\* the slot past the tail.  ERROR_BUSY, and E_UNEXPECTED while a stopped
\* thread is still there, change nothing.
Enqueue(l) ==
  /\ ui = "idle"
  /\ Joinable => ~stop
  /\ count < kSlots
  /\ slots' = [slots EXCEPT ![At(count)] = [launch |-> l, state |-> "Queued"]]
  /\ count' = count + 1
  /\ IF Joinable THEN UNCHANGED <<pc, report, waits>>
                 ELSE pc' = "wait" /\ report' = "none" /\ waits' = 0
  /\ ui' = "signal"
  /\ UNCHANGED <<head, stop, wake, waitedOut, running, postVars, logging, bounded>>

\* The wake event is set after the lock is released.
Signal == /\ ui = "signal"
          /\ wake' = TRUE
          /\ ui' = "idle"
          /\ UNCHANGED <<ringVars, stop, waitedOut, threadVars, postVars, logging,
                         stopVars>>

\* The message loop takes the message, which may be another thread's, ...
Receive == /\ ui = "idle"
           /\ target = "set"
           /\ posted > 0
           /\ posted' = posted - 1
           /\ ui' = "ack"
           /\ UNCHANGED <<ringVars, stop, wake, waitedOut, threadVars, target,
                          pending, other, lost, logging, stopVars>>

\* ... and DrainHostActions hands the flag back before it drains.
DrainBegin == /\ ui = "ack"
              /\ pending' = FALSE
              /\ ui' = "drain"
              /\ UNCHANGED <<ringVars, stop, wake, waitedOut, threadVars,
                             target, posted, other, lost, logging, stopVars>>

\* One round of the loop: the head slot is freed under the lock, then logged.
DrainLog == /\ ui = "drain"
            /\ count # 0
            /\ slots[head].state = "Complete"
            /\ logging' = slots[head].launch
            /\ slots' = [slots EXCEPT ![head] = EmptySlot]
            /\ head' = (head + 1) % kSlots
            /\ count' = count - 1
            /\ UNCHANGED <<stop, wake, waitedOut, threadVars, postVars, ui,
                           stopVars>>

\* Mutant: the drain may end after any result, as if it logged one a message.
DrainEndEarly == /\ ui = "drain"
                 /\ logging' = NoLaunch
                 /\ ui' = "idle"
                 /\ UNCHANGED <<ringVars, stop, wake, waitedOut, threadVars,
                                postVars, stopVars>>

DrainEnd == /\ ui = "drain"
            /\ count = 0 \/ slots[head].state # "Complete"
            /\ logging' = NoLaunch
            /\ ui' = "idle"
            /\ UNCHANGED <<ringVars, stop, wake, waitedOut, threadVars, postVars,
                           stopVars>>

-----------------------------------------------------------------------------
(* UI thread: Stop and the destructor.                                     *)

\* Stop sets the event and waits, unless a wait of this thread has already run
\* out.  The program clears the target first; its tests also stop with one.
StopBegin(positive) ==
  /\ ui = "idle"
  /\ Joinable
  /\ stop' = TRUE
  /\ bounded' = (positive /\ ~waitedOut)
  /\ ui' = "stopping"
  /\ UNCHANGED <<ringVars, wake, waitedOut, threadVars, postVars, logging, report,
                 waits>>

\* After the join: the ring is emptied and the stop event reset.
Reset == /\ pc' = "none"
         /\ slots' = EmptySlots
         /\ head' = 0
         /\ count' = 0
         /\ waitedOut' = FALSE
         /\ stop' = FALSE

\* The thread ended within the wait.
StopJoins == /\ ui = "stopping"
             /\ pc = "exited"
             /\ Reset
             /\ report' = "Stopped"
             /\ ui' = "idle"
             /\ UNCHANGED <<wake, running, postVars, logging, bounded, waits>>

\* Mutant: the stop waits for as long as a launch is in progress.
StopWaitsForLaunch == /\ ui = "stopping"
                      /\ pc # "exited"
                      /\ running = -1
                      /\ waits' = IF bounded THEN waits + 1 ELSE waits
                      /\ ui' = "scan"
                      /\ UNCHANGED <<ringVars, stop, wake, waitedOut, threadVars,
                                     postVars, logging, bounded, report>>

\* The wait ran out, or was zero.
StopTimesOut == /\ ui = "stopping"
                /\ pc # "exited"
                /\ waits' = IF bounded THEN waits + 1 ELSE waits
                /\ ui' = "scan"
                /\ UNCHANGED <<ringVars, stop, wake, waitedOut, threadVars,
                               postVars, logging, bounded, report>>

\* The lock section after the wait decides what Stop reports.  Queued slots
\* stay where they are; the worker will not take them.
StopScan ==
  LET launching == InState("Running") # {}
  IN  /\ ui = "scan"
      /\ waitedOut' = (waitedOut \/ launching \/ bounded)
      /\ report' = IF launching THEN "LaunchInProgress" ELSE "Exiting"
      /\ ui' = "idle"
      /\ UNCHANGED <<ringVars, stop, wake, threadVars, postVars, logging, bounded,
                     waits>>

\* The destructor of a private host, whose target Shutdown has cleared, waits
\* without a bound.
Destroy == /\ ui = "idle"
           /\ target # "set"
           /\ Joinable
           /\ stop' = TRUE
           /\ ui' = "destroy"
           /\ UNCHANGED <<ringVars, wake, waitedOut, threadVars, postVars, logging,
                          stopVars>>

\* The join returns; the next host has a new worker, with new events, and a flag
\* of its own.
Destroyed == /\ ui = "destroy"
             /\ pc = "exited"
             /\ Reset
             /\ wake' = FALSE
             /\ target' = "unset"
             /\ pending' = FALSE
             /\ other' = "idle"
             /\ lost' = FALSE
             /\ ui' = "idle"
             /\ UNCHANGED <<running, posted, logging, stopVars>>

-----------------------------------------------------------------------------
(* The worker thread.  The messages its apartment dispatches change nothing*)
(* here.                                                                   *)

\* The wait prefers the stop event and consumes the wake event.
Wait == /\ pc = "wait"
        /\ stop \/ wake
        /\ pc' = IF stop THEN "exited" ELSE "pick"
        /\ wake' = (stop /\ wake)
        /\ UNCHANGED <<ringVars, stop, waitedOut, running, postVars, ui, logging,
                       stopVars>>

Queued == {offset \in 0 .. count - 1 : slots[At(offset)].state = "Queued"}

\* Mutant: the search starts at the first slot instead of the head.
PickFromZero == /\ pc = "pick"
                /\ ~stop
                /\ \E i \in InState("Queued") :
                      /\ \A j \in InState("Queued") : i <= j
                      /\ running' = i
                      /\ slots' = [slots EXCEPT ![i].state = "Running"]
                /\ pc' = "launch"
                /\ UNCHANGED <<head, count, stop, wake, waitedOut, postVars, ui,
                               logging, stopVars>>

\* The lock section reads the stop event and takes the first Queued slot from
\* the head.
Pick == /\ pc = "pick"
        /\ ~stop
        /\ \E offset \in Queued :
              /\ \A q \in Queued : offset <= q
              /\ running' = At(offset)
              /\ slots' = [slots EXCEPT ![At(offset)].state = "Running"]
        /\ pc' = "launch"
        /\ UNCHANGED <<head, count, stop, wake, waitedOut, postVars, ui, logging,
                       stopVars>>

PickNothing == /\ pc = "pick"
               /\ stop \/ Queued = {}
               /\ pc' = IF stop THEN "exited" ELSE "wait"
               /\ UNCHANGED <<ringVars, stop, wake, waitedOut, running, postVars,
                              ui, logging, stopVars>>

\* _perform returns, or was skipped for want of an apartment.
LaunchReturns == /\ pc = "launch"
                 /\ pc' = "publish"
                 /\ UNCHANGED <<ringVars, stop, wake, waitedOut, running, postVars,
                                ui, logging, stopVars>>

Publish == /\ pc = "publish"
           /\ slots' = [slots EXCEPT ![running].state = "Complete"]
           /\ running' = -1
           /\ pc' = "notify"
           /\ UNCHANGED <<head, count, stop, wake, waitedOut, postVars, ui,
                          logging, stopVars>>

-----------------------------------------------------------------------------
(* RequestHostActionDrain, by NotifyLaunchFinished and by a thread that has*)
(* queued an action.                                                       *)

LaneAt(from, to) ==
  /\ pc = from /\ pc' = to
  /\ UNCHANGED <<ringVars, stop, wake, waitedOut, running, other, ui, logging,
                 stopVars>>

OtherAt(from, to) ==
  /\ other = from /\ other' = to
  /\ UNCHANGED <<ringVars, stop, wake, waitedOut, threadVars, ui, logging,
                 stopVars>>

\* The flag is taken, or a message is believed to be on its way.
Exchange == /\ pending' = TRUE
            /\ lost' = (lost /\ ~pending)
            /\ UNCHANGED <<target, posted>>

\* PostMessageW succeeds, if the window is still there, ...
Post == /\ target = "set"
        /\ posted' = posted + 1
        /\ lost' = FALSE
        /\ UNCHANGED <<target, pending>>

\* Mutant: the failed post keeps the flag.
PostFailsSilently == /\ lost' = TRUE
                     /\ UNCHANGED <<target, pending, posted>>

\* ... or fails, and the flag is handed back.
PostFails == /\ pending' = FALSE
             /\ lost' = TRUE
             /\ UNCHANGED <<target, posted>>

\* A launch that ends without a window, before the first or after the last, is
\* announced to nobody.
Notify == /\ LaneAt("notify", IF target = "set" THEN "exchange" ELSE "pick")
          /\ lost' = (lost \/ target # "set")
          /\ UNCHANGED <<target, pending, posted>>

LaneRequest ==
  \/ Notify
  \/ LaneAt("exchange", IF pending THEN "pick" ELSE "post") /\ Exchange
  \/ LaneAt("post", "pick") /\ Post
  \/ LaneAt("post", "pick") /\ PostFails

OtherRequest ==
  \/ target = "set" /\ OtherAt("idle", IF pending THEN "idle" ELSE "post") /\ Exchange
  \/ OtherAt("post", "idle") /\ Post
  \/ OtherAt("post", "idle") /\ PostFails

\* SetUiInvalidateTarget(window), once the window has a renderer.
SetTarget ==
  /\ ui = "idle"
  /\ target = "unset"
  /\ target' = "set"
  /\ UNCHANGED <<ringVars, stop, wake, waitedOut, threadVars, pending, posted,
                 other, lost, ui, logging, stopVars>>

\* SetUiInvalidateTarget(nullptr), when the window closes with its queue, and at
\* shutdown.  It hands back the other message's flag and not this one.
ClearTarget ==
  /\ ui = "idle"
  /\ target = "set"
  /\ target' = "cleared"
  /\ posted' = 0
  /\ UNCHANGED <<ringVars, stop, wake, waitedOut, threadVars, pending, other,
                 lost, ui, logging, stopVars>>

-----------------------------------------------------------------------------
Worker == Wait \/ Pick \/ PickNothing \/ LaunchReturns \/ Publish \/ LaneRequest

Drain == Receive \/ DrainBegin \/ DrainLog \/ DrainEnd

Stopping == \/ \E positive \in BOOLEAN : StopBegin(positive)
            \/ StopJoins \/ StopTimesOut \/ StopScan \/ Destroy \/ Destroyed

Next == \/ \E l \in Launches : Enqueue(l)
        \/ Signal \/ Drain \/ Stopping \/ Worker
        \/ SetTarget \/ ClearTarget \/ OtherRequest

Spec == Init /\ [][Next]_vars

\* The thread's own code and the UI thread keep running, and the message loop
\* reaches every posted message (it is served in order, so other work cannot
\* starve it).  Nothing makes a launch in the shell return.
Fairness == /\ WF_vars(Wait \/ Pick \/ PickNothing \/ Publish \/ LaneRequest)
            /\ WF_vars(Signal)
            /\ SF_vars(Receive)
            /\ WF_vars(DrainBegin \/ DrainLog \/ DrainEnd)
            /\ WF_vars(StopJoins \/ StopTimesOut) /\ WF_vars(StopScan)
            /\ WF_vars(Destroyed)

FairSpec == Spec /\ Fairness

-----------------------------------------------------------------------------
(* Properties.                                                             *)

ThreadStates == {"none", "wait", "pick", "launch", "publish", "notify", "exchange",
                 "post", "exited"}
UiStates == {"idle", "signal", "ack", "drain", "stopping", "scan", "destroy"}
Reports == {"none", "Stopped", "Exiting", "LaunchInProgress"}

TypeOK == /\ slots \in [Slots -> Slot]
          /\ head \in Slots
          /\ count \in 0 .. kSlots
          /\ stop \in BOOLEAN
          /\ wake \in BOOLEAN
          /\ waitedOut \in BOOLEAN
          /\ pc \in ThreadStates
          /\ running \in Slots \union {-1}
          /\ target \in {"unset", "set", "cleared"}
          /\ pending \in BOOLEAN
          /\ posted \in Nat
          /\ other \in {"idle", "post"}
          /\ lost \in BOOLEAN
          /\ ui \in UiStates
          /\ logging \in Launches \union {NoLaunch}
          /\ bounded \in BOOLEAN
          /\ report \in Reports
          /\ waits \in Nat

\* How far a slot of the ring has got, for comparing neighbours.
Progress == [Complete |-> 3, Running |-> 2, Queued |-> 1]

\* The ring read from its head is results, then at most one launch in progress,
\* then launches waiting, and free slots only behind the tail.  On it rests that
\* launches are performed and logged in order, that Enqueue never writes the
\* slot the worker holds without the lock, and that a drain which stops at the
\* first slot that is not Complete has left no result behind.
RingIsInOrder ==
  /\ \A p \in 0 .. kSlots - 1 : slots[At(p)].state # "Empty" <=> p < count
  /\ \A p, q \in 0 .. count - 1 :
        p < q => Progress[slots[At(p)].state] >= Progress[slots[At(q)].state]
  /\ \A i \in Slots : slots[i].state = "Running" <=> running = i

\* Exiting tells the host that no launch was in progress when the wait ran out,
\* so that it reports none: the worker must not begin one afterwards either.
ExitingMeansNoLaunch == stop /\ report = "Exiting" => running = -1

\* One thread costs the UI thread at most one wait that runs out, however often
\* the runtime is shut down.
StopWaitsOnce == waits <= 1

\* An accepted launch has a wake-up under way until the worker is looking, in
\* spite of the event being set after the slot is visible, and of a stale event
\* left by an earlier thread.
LaunchesAreWoken ==
  InState("Queued") # {} /\ ~stop =>
     \/ ui = "signal"
     \/ wake
     \/ pc \in {"pick", "launch", "publish", "notify", "exchange", "post"}

Posting == pc = "post" \/ other = "post"

\* Until the target is cleared, the flag stands for one message: one that a
\* thread is about to post or to give up, one in the queue, or one about to be
\* acknowledged.
OneMessage ==
  target # "cleared" =>
    /\ posted <= 1
    /\ pending <=> (Posting \/ posted = 1 \/ ui = "ack")
    /\ pc = "post" => other # "post"
    /\ Posting => posted = 0 /\ ui # "ack"
    /\ ui = "ack" => posted = 0

\* As long as the window lives, a result waiting to be logged has a request, a
\* message or a drain still to come, also when its launch outlived a stop and
\* although the flag is another thread's as often as the lane's.  Only a request
\* that found no window, or whose post failed, leaves one behind, and only until
\* the next: a failed post never leaves the flag set.
ResultsArePosted ==
  InState("Complete") # {} /\ target # "cleared" =>
     \/ pc \in {"notify", "exchange"}
     \/ Posting
     \/ posted > 0
     \/ ui \in {"ack", "drain"}
     \/ lost

\* Neither a launch nor a result is left behind while there is someone to tell.
NothingIsStranded == LaunchesAreWoken /\ ResultsArePosted

\* A stop ends although the launch in the shell may not.
StopIsBounded == ui \in {"stopping", "scan"} ~> ui \notin {"stopping", "scan"}

-----------------------------------------------------------------------------
(* The abstract queue.                                                     *)

IsOpen == Joinable /\ ~stop

\* The ring's results come first and its waiting launches last (RingIsInOrder).
Answered == {offset \in 0 .. count - 1 : slots[At(offset)].state = "Complete"}

\* The n launches of the ring from an offset on.
Part(first, n) == [k \in 1 .. n |-> slots[At(first + k - 1)].launch]

Results == Part(0, Cardinality(Answered))

Waiting == Part(count - Cardinality(Queued), Cardinality(Queued))

Queue == INSTANCE LaunchQueue WITH
           open <- IsOpen,
           queued <- IF IsOpen THEN Waiting ELSE <<>>,
           launching <- IF running = -1 THEN NoLaunch ELSE slots[running].launch,
           finished <- Results

\* Launches are performed once, one at a time and in order, their results are
\* logged in that order, and a stop lets only the launch in progress go on.
ImplementsQueue == Queue!Spec
=============================================================================
