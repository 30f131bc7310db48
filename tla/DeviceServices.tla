---------------------------- MODULE DeviceServices ----------------------------
(***************************************************************************)
(* The services of the host and their device lanes (RedXe/PluginHost.cpp,  *)
(* StartServices to StopServices).  The UI thread creates, starts, re-     *)
(* configures and stops services as the document asks; a lane is a thread  *)
(* inside the service's RunDeviceWork.  A lane that overruns its stop is   *)
(* abandoned: its service stays, and the lane reports its late return with *)
(* a message, so that the service can be stopped and perhaps started again.*)
(*                                                                         *)
(* A service's settings are a model value; a document gives each service   *)
(* its settings or NoSettings.  How long a lane is waited for is a choice. *)
(***************************************************************************)
EXTENDS Integers, FiniteSets

CONSTANTS
  Count,       \* kRedXeBundledServices.size()
  Workers,     \* the slots whose service exposes IRedXeDeviceWorker
  MaxLanes,    \* kRedXeMaximumDeviceWorkers
  Settings,    \* the effective settings objects
  NoSettings   \* the document does not configure the service

Services == 0 .. Count - 1

ASSUME ServicesAssumption == /\ Count \in Nat \ {0}
                             /\ MaxLanes \in Nat
                             /\ Workers \subseteq Services
                             /\ NoSettings \notin Settings

VARIABLES
  document,    \* the services root of the document in force
  service,     \* slot.service exists
  settings,    \* slot.settings
  started,     \* slot.started
  stopPending, \* slot.stopPending
  stopEvent,   \* slot.stopEvent
  lane,        \* where slot.lane is; "none" when not joinable
  abandoned,   \* kLaneAbandoned in laneState, and slot.laneTombstoned
  live,        \* Start succeeded and Stop was not called (history)
  unsent,      \* lanes whose report could not be posted (history)
  window,      \* _uiWindow is set and the window is there
  posted,      \* a kServiceLaneMessage is in the window's queue
  ui,          \* where the UI thread is
  op,          \* the operation it performs
  index        \* the slot it has reached

slotVars == <<service, settings, started, stopPending, stopEvent>>
laneVars == <<lane, abandoned, unsent>>
uiVars == <<ui, op, index>>
vars == <<document, slotVars, laneVars, live, window, posted, uiVars>>

Document == [Services -> Settings \union {NoSettings}]

\* slot.lane.joinable()
Joinable(s) == lane[s] # "none"

\* RunDeviceWork has returned and the lane has said so: kLaneReturned.
Returned(s) == lane[s] \in {"post", "leave", "exited"}

AllFalse == [s \in Services |-> FALSE]

\* At startup the window is up, the document read, and StartServices begins. On
\* fresh slots it does what ApplyServiceSettings does.
Init == /\ document \in Document
        /\ service = AllFalse
        /\ settings = [s \in Services |-> NoSettings]
        /\ started = AllFalse
        /\ stopPending = AllFalse
        /\ stopEvent = [s \in Services |-> "none"]
        /\ lane = [s \in Services |-> "none"]
        /\ abandoned = AllFalse
        /\ live = AllFalse
        /\ unsent = {}
        /\ window = TRUE
        /\ posted = FALSE
        /\ ui = "visit" /\ op = "apply" /\ index = 0

-----------------------------------------------------------------------------
(* The UI thread's operations.                                             *)

\* A reload with a changed document ends in ApplyServiceSettings.
Reload(d) == /\ ui = "idle"
             /\ window
             /\ document' = d
             /\ ui' = "visit" /\ op' = "apply" /\ index' = 0
             /\ UNCHANGED <<slotVars, laneVars, live, window, posted>>

\* Mutant: the late lane's message is taken without an apply.
ReceiveOnly == /\ ui = "idle"
               /\ window
               /\ posted
               /\ posted' = FALSE
               /\ UNCHANGED <<document, slotVars, laneVars, live, window, uiVars>>

\* A late lane's message applies the document in force.
Receive == /\ ui = "idle"
           /\ window
           /\ posted
           /\ posted' = FALSE
           /\ ui' = "visit" /\ op' = "apply" /\ index' = 0
           /\ UNCHANGED <<document, slotVars, laneVars, live, window>>

\* CloseMainWindow and Shutdown take the post target away and stop all services,
\* signalling every lane before the first wait, from the last slot to the
\* first.  The runtime is shut down again at static destruction.
StopServices(o) ==
  /\ ui = "idle"
  /\ o = "close" <=> window
  /\ window' = FALSE
  /\ posted' = FALSE
  /\ stopEvent' = [s \in Services |-> IF Joinable(s) THEN "set" ELSE stopEvent[s]]
  /\ ui' = "visit" /\ op' = o /\ index' = Count - 1
  /\ UNCHANGED <<document, service, settings, started, stopPending, laneVars,
                 live>>

\* On to the next slot, or out.
Advance ==
  /\ index' = IF op = "apply" THEN index + 1 ELSE index - 1
  /\ IF index' \in Services
     THEN ui' = "visit" /\ UNCHANGED op
     ELSE ui' = "idle" /\ op' = "none"

-----------------------------------------------------------------------------
(* One slot of an apply.                                                   *)

Applying == ui = "visit" /\ op = "apply"
Configured(s) == document[s] # NoSettings

\* Mutant: a started service is settled whatever its settings are.
LeaveStarted == /\ Applying
                /\ ~stopPending[index]
                /\ IF Configured(index) THEN started[index] ELSE ~service[index]
                /\ Advance
                /\ UNCHANGED <<document, slotVars, laneVars, live, window, posted>>

\* Nothing to do: not configured and not there, or started with these settings.
Leave == /\ Applying
         /\ ~stopPending[index]
         /\ IF Configured(index)
            THEN started[index] /\ settings[index] = document[index]
            ELSE ~service[index]
         /\ Advance
         /\ UNCHANGED <<document, slotVars, laneVars, live, window, posted>>

\* CreateService fails: the module cannot be mapped or refuses.
CreateFails == /\ Applying
               /\ ~stopPending[index]
               /\ Configured(index) /\ ~service[index]
               /\ Advance
               /\ UNCHANGED <<document, slotVars, laneVars, live, window, posted>>

\* The service is created, or given its settings, whether it accepts them or
\* not.
Configure == /\ service' = [service EXCEPT ![index] = TRUE]
             /\ settings' = [settings EXCEPT ![index] = document[index]]

\* A started service with other settings than the document's.
Reapply == /\ Applying
           /\ ~stopPending[index]
           /\ Configured(index) /\ started[index]
           /\ settings[index] # document[index]
           /\ Configure
           /\ Advance
           /\ UNCHANGED <<document, started, stopPending, stopEvent, laneVars,
                          live, window, posted>>

\* Start fails; the service stays created for a later apply.
StartFails == /\ Applying
              /\ ~stopPending[index]
              /\ Configured(index) /\ ~started[index]
              /\ Configure
              /\ Advance
              /\ UNCHANGED <<document, started, stopPending, stopEvent, laneVars,
                             live, window, posted>>

\* Start succeeds.  The lane needs one of MaxLanes threads, events and a
\* thread; the service stays started without them.
Start(laneStarts) ==
  /\ Applying
  /\ ~stopPending[index]
  /\ Configured(index) /\ ~started[index]
  /\ Configure
  /\ started' = [started EXCEPT ![index] = TRUE]
  /\ live' = [live EXCEPT ![index] = TRUE]
  /\ IF /\ laneStarts
        /\ index \in Workers
        /\ Cardinality({s \in Services : Joinable(s)}) < MaxLanes
     THEN /\ lane' = [lane EXCEPT ![index] = "begin"]
          /\ stopEvent' = [stopEvent EXCEPT ![index] = "clear"]
     ELSE UNCHANGED <<lane, stopEvent>>
  /\ Advance
  /\ UNCHANGED <<document, stopPending, abandoned, unsent, window, posted>>

-----------------------------------------------------------------------------
(* StopService of one slot.                                                *)

\* A stop that timed out is retried first; a service the document no longer
\* configures is stopped, and so is every slot of StopServices.
Stopping == /\ ui = "visit"
            /\ \/ op # "apply"
               \/ stopPending[index]
               \/ ~Configured(index) /\ service[index]

\* Service->Stop, the release of the service, and the reset of the slot.  An
\* apply looks at the slot again and finds it fresh.
Release ==
  /\ service' = [service EXCEPT ![index] = FALSE]
  /\ settings' = [settings EXCEPT ![index] = NoSettings]
  /\ started' = [started EXCEPT ![index] = FALSE]
  /\ stopPending' = [stopPending EXCEPT ![index] = FALSE]
  /\ stopEvent' = [stopEvent EXCEPT ![index] = "none"]
  /\ lane' = [lane EXCEPT ![index] = "none"]
  /\ abandoned' = [abandoned EXCEPT ![index] = FALSE]
  /\ live' = [live EXCEPT ![index] = FALSE]
  /\ unsent' = unsent \ {index}
  /\ IF op = "apply" THEN ui' = "visit" /\ UNCHANGED <<op, index>>
                     ELSE Advance
  /\ UNCHANGED <<document, window, posted>>

StopIdle == /\ Stopping
            /\ ~Joinable(index)
            /\ Release

StopSignals == /\ Stopping
               /\ Joinable(index)
               /\ stopEvent' = [stopEvent EXCEPT ![index] = "set"]
               /\ ui' = "wait"
               /\ UNCHANGED <<document, service, settings, started, stopPending,
                              laneVars, live, window, posted, op, index>>

\* The thread is gone within the wait, or after the exchange found it leaving.
StopJoins == /\ ui \in {"wait", "join"}
             /\ lane[index] = "exited"
             /\ Release

\* The wait ran out; a tombstoned lane's and an exhausted budget's is zero.
StopTimesOut == /\ ui = "wait"
                /\ lane[index] # "exited"
                /\ ui' = "exchange"
                /\ UNCHANGED <<document, slotVars, laneVars, live, window, posted, op, index>>

\* The exchange finds the lane back: only its thread exit is left to wait for.
StopFindsReturned == /\ ui = "exchange"
                     /\ Returned(index)
                     /\ ui' = "join"
                     /\ UNCHANGED <<document, slotVars, laneVars, live, window,
                                    posted, op, index>>

\* Mutant: only a started service has a stop pending.
StopForgets == /\ ui = "exchange"
               /\ ~Returned(index)
               /\ abandoned' = [abandoned EXCEPT ![index] = TRUE]
               /\ stopPending' = [stopPending EXCEPT ![index] = started[index]]
               /\ started' = [started EXCEPT ![index] = FALSE]
               /\ Advance
               /\ UNCHANGED <<document, service, settings, stopEvent, lane, unsent,
                              live, window, posted>>

\* Mutant: a late lane's service is released with the slot.
StopReleases == /\ ui = "exchange"
                /\ ~Returned(index)
                /\ abandoned' = [abandoned EXCEPT ![index] = TRUE]
                /\ stopPending' = [stopPending EXCEPT
                                     ![index] = started[index] \/ @]
                /\ started' = [started EXCEPT ![index] = FALSE]
                /\ service' = [service EXCEPT ![index] = FALSE]
                /\ live' = [live EXCEPT ![index] = FALSE]
                /\ Advance
                /\ UNCHANGED <<document, settings, stopEvent, lane, unsent, window,
                               posted>>

\* Mutant: the lane is waited for until it returns.
StopInsists == /\ ui = "exchange"
               /\ ~Returned(index)
               /\ ui' = "wait"
               /\ UNCHANGED <<document, slotVars, laneVars, live, window, posted, op, index>>

\* It finds it out: the stop stays pending, the service and the lane stay, and
\* the lane will report.
StopGivesUp == /\ ui = "exchange"
               /\ ~Returned(index)
               /\ abandoned' = [abandoned EXCEPT ![index] = TRUE]
               /\ stopPending' = [stopPending EXCEPT
                                    ![index] = started[index] \/ @]
               /\ started' = [started EXCEPT ![index] = FALSE]
               /\ Advance
               /\ UNCHANGED <<document, service, settings, stopEvent, lane, unsent,
                              live, window, posted>>

-----------------------------------------------------------------------------
(* The lane of slot s.                                                     *)

LaneStep(s, from, to) ==
  /\ lane[s] = from
  /\ lane' = [lane EXCEPT ![s] = to]
  /\ UNCHANGED <<document, slotVars, abandoned, live, window, uiVars>>

LaneBegins(s) == LaneStep(s, "begin", "run") /\ UNCHANGED <<unsent, posted>>

\* RunDeviceWork returns, by itself or because of the stop event, and the
\* exchange tells the lane whether it was abandoned.
LaneReturns(s) == /\ LaneStep(s, "run", IF abandoned[s] THEN "post" ELSE "leave")
                  /\ UNCHANGED <<unsent, posted>>

LanePosts(s) == /\ LaneStep(s, "post", "leave")
                /\ window
                /\ posted' = TRUE
                /\ UNCHANGED unsent

\* There is no window any more, or PostMessage fails.
LanePostFails(s) == /\ LaneStep(s, "post", "leave")
                    /\ unsent' = unsent \union {s}
                    /\ UNCHANGED posted

LaneExits(s) == LaneStep(s, "leave", "exited") /\ UNCHANGED <<unsent, posted>>

-----------------------------------------------------------------------------
Apply == \/ Leave \/ CreateFails \/ Reapply \/ StartFails
         \/ \E laneStarts \in BOOLEAN : Start(laneStarts)

Stop == \/ StopIdle \/ StopSignals \/ StopJoins \/ StopTimesOut
        \/ StopFindsReturned \/ StopGivesUp

Lane(s) == LaneBegins(s) \/ LanePosts(s) \/ LanePostFails(s) \/ LaneExits(s)

Next == \/ \E d \in Document : Reload(d)
        \/ Receive
        \/ \E o \in {"close", "shutdown"} : StopServices(o)
        \/ Apply
        \/ Stop
        \/ \E s \in Services : Lane(s) \/ LaneReturns(s)

Spec == Init /\ [][Next]_vars

\* The UI thread finishes what it began and serves its queue in order; a lane's
\* host code runs on.  Nothing makes RunDeviceWork return.
Fairness == /\ WF_vars(Apply \/ Stop)
            /\ SF_vars(Receive)
            /\ \A s \in Services : WF_vars(Lane(s))

FairSpec == Spec /\ Fairness

-----------------------------------------------------------------------------
(* Properties.                                                             *)

LaneStates == {"none", "begin", "run", "post", "leave", "exited"}
UiStates == {"idle", "visit", "wait", "exchange", "join"}

TypeOK == /\ document \in Document
          /\ service \in [Services -> BOOLEAN]
          /\ settings \in Document
          /\ started \in [Services -> BOOLEAN]
          /\ stopPending \in [Services -> BOOLEAN]
          /\ stopEvent \in [Services -> {"none", "clear", "set"}]
          /\ lane \in [Services -> LaneStates]
          /\ abandoned \in [Services -> BOOLEAN]
          /\ live \in [Services -> BOOLEAN]
          /\ unsent \subseteq Services
          /\ window \in BOOLEAN
          /\ posted \in BOOLEAN
          /\ ui \in UiStates
          /\ op \in {"none", "apply", "close", "shutdown"}
          /\ index \in -1 .. Count
          /\ ui # "idle" => index \in Services

\* A service that was started and not stopped is either in service or waiting
\* for its lane, which then has its stop event, its service and a mark that
\* makes it report: however often the stop is retried, no slot forgets it.
PendingStopsAreKept ==
  \A s \in Services :
    /\ live[s] <=> started[s] \/ stopPending[s]
    /\ stopPending[s] => /\ Joinable(s) /\ abandoned[s] /\ service[s]
                         /\ stopEvent[s] = "set"
    /\ Joinable(s) => live[s] /\ service[s] /\ stopEvent[s] # "none"

\* The exchange of the two flags: a lane that comes back late is never missed by
\* both sides.  With the UI thread idle, its message is posted, unless there
\* was no window to post to.
LateReturnIsReported ==
  ui = "idle" /\ window =>
    \A s \in Services \ unsent :
       abandoned[s] /\ lane[s] \in {"leave", "exited"} => posted

\* After every apply a started service has the settings of the document in
\* force, and an unconfigured one is gone or on its way out, in spite of stops
\* that outlive several reloads.
DocumentIsInForce ==
  ui = "idle" /\ window =>
    \A s \in Services :
       /\ started[s] => settings[s] = document[s] /\ Configured(s)
       /\ service[s] /\ ~Configured(s) => stopPending[s]

\* The UI thread is never held by a lane inside RunDeviceWork.
UiIsFreed == ui # "idle" ~> ui = "idle"

\* A lane that returns late gives its slot back, if it can report it.
LateLaneIsReaped ==
  \A s \in Services :
     stopPending[s] /\ lane[s] = "leave" ~>
        ~stopPending[s] \/ s \in unsent \/ ~window

\* A stop ends on both sides: for the UI thread, and for the lane that outlived it.
StopsEnd == UiIsFreed /\ LateLaneIsReaped

-----------------------------------------------------------------------------
(* The contract of a service.                                              *)

Contract == INSTANCE ServiceContract WITH
              object <- service,
              work <- [s \in Services |->
                         CASE lane[s] = "begin" -> "to come"
                           [] lane[s] = "run" -> "in progress"
                           [] OTHER -> "over"]

\* However starts, stops, reloads, late lanes and shutdowns interleave, each
\* service sees only the sequences Service.h promises it.
ImplementsContract == Contract!Spec
=============================================================================
