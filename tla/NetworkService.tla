----------------------------- MODULE NetworkService -----------------------------
(***************************************************************************)
(* The network service of the plugin host (RedXe/PluginHost.cpp): widgets  *)
(* register on the UI thread, and one worker runs the due ones in turn.    *)
(* Hiding a widget cancels its run and waits for it, because the widget    *)
(* must be quiet when SetVisible(FALSE) reaches it; the wait is on one     *)
(* event that says the worker is idle, whatever it was running.            *)
(***************************************************************************)
EXTENDS NetworkContract

slotVars == <<networkSlots, access>>
workerVars == <<pc, armed, running>>
events == <<stop, wake, cancel, idle>>
uiVars == <<ui, call, told>>
vars == <<slotVars, workerVars, events, uiVars>>

Slots == 1 .. MaximumNetworkWidgets
Used == {i \in Slots : networkSlots[i] # NoWidget}
Of(w) == {i \in Used : networkSlots[i].widget = w}

\* due: its time has come, or is 0.
Slot == [widget : Widgets, active : BOOLEAN, due : BOOLEAN, inFlight : BOOLEAN]

ASSUME NetworkAssumption == NoWidget \notin Slot

NewSlot(w) == [widget |-> w, active |-> FALSE, due |-> TRUE, inFlight |-> FALSE]
Quiet(i) == [networkSlots[i] EXCEPT !.active = FALSE, !.due = TRUE]
InFlight == {i \in Used : networkSlots[i].inFlight}

Init ==
  /\ networkSlots = [i \in Slots |-> NoWidget]
  /\ access = TRUE
  /\ pc = "none" /\ armed = {} /\ running = NoWidget
  /\ stop = FALSE /\ wake = FALSE /\ cancel = FALSE /\ idle = TRUE
  /\ ui = "idle" /\ call = NoWidget /\ told = {}

-----------------------------------------------------------------------------
(* The UI thread                                                            *)

At(from, to) == ui = from /\ ui' = to

Return == ui' = "idle" /\ call' = NoWidget

\* The first free slot; with none the widget stays unregistered.
RegisterNetworkWidget(w) ==
  /\ ui = "idle"
  /\ Of(w) = {}
  /\ \E i \in Slots \ Used :
       /\ \A j \in Slots \ Used : i <= j
       /\ networkSlots' = [networkSlots EXCEPT ![i] = NewSlot(w)]
  /\ UNCHANGED <<access, workerVars, events, uiVars>>

\* A page that is shown activates its widgets, each once.
Activate(w) ==
  /\ At("idle", "ensure")
  /\ w \notin told
  /\ access
  /\ \E i \in Of(w) :
       networkSlots' = [networkSlots EXCEPT ![i].active = TRUE, ![i].due = TRUE]
  /\ call' = [op |-> "show", w |-> w]
  /\ told' = told \cup {w}
  /\ UNCHANGED <<access, workerVars, events>>

\* Mutant of Wakes: only a new worker is told.
WakesNever == FALSE

Wakes == TRUE

\* The worker starts with its events, or not at all.
EnsureNetworkWorker ==
  /\ ui = "ensure"
  /\ Return
  /\ \/ /\ pc = "none"
        /\ pc' = "scan" /\ armed' = {} /\ running' = NoWidget
        /\ stop' = FALSE /\ wake' = TRUE /\ cancel' = FALSE /\ idle' = TRUE
     \/ /\ pc = "none"
        /\ UNCHANGED <<workerVars, events>>
     \/ /\ pc # "none"
        /\ wake' = (wake \/ Wakes)
        /\ UNCHANGED <<workerVars, stop, cancel, idle>>
  /\ UNCHANGED <<slotVars, told>>

\* Mutant of Cancels: the event is set whoever runs.
CancelsAlways(i) == TRUE

Cancels(i) == networkSlots[i].inFlight

\* SetNetworkWidgetActive(FALSE), also the first half of UnregisterNetworkWidget.
\* The lock is released before the wait.
Deactivate(w, op) ==
  /\ ui = "idle"
  /\ \E i \in Of(w) :
       /\ networkSlots' = [networkSlots EXCEPT ![i] = Quiet(i)]
       /\ cancel' = (cancel \/ Cancels(i))
       /\ ui' = IF networkSlots[i].inFlight THEN "leave" ELSE "left"
  /\ call' = [op |-> op, w |-> w]
  /\ UNCHANGED <<access, workerVars, stop, wake, idle, told>>

\* SetNetworkAccessEnabled(FALSE) and StopNetworkService stop everything.
DeactivateAll(op) ==
  /\ ui = "idle"
  /\ access' = (access /\ op # "disable")
  /\ networkSlots' = [i \in Slots |-> IF i \in Used THEN Quiet(i) ELSE NoWidget]
  /\ ui' = IF InFlight = {} THEN "cancel" ELSE "cancelAndWait"
  /\ call' = [op |-> op, w |-> NoWidget]
  /\ UNCHANGED <<workerVars, events, told>>

CancelAll ==
  /\ \/ At("cancel", "left")
     \/ At("cancelAndWait", "leave")
  /\ cancel' = TRUE
  /\ UNCHANGED <<slotVars, workerVars, stop, wake, idle, call, told>>

EnableAccess ==
  /\ ui = "idle"
  /\ ~access
  /\ access' = TRUE
  /\ UNCHANGED <<networkSlots, workerVars, events, uiVars>>

\* WaitForSingleObject(_networkIdleEvent, INFINITE)
WaitForIdle ==
  /\ ui = "leave"
  /\ ui' = IF idle THEN "left" ELSE "waiting"
  /\ UNCHANGED <<slotVars, workerVars, events, call, told>>

Hidden ==
  /\ ui = "left"
  /\ call.op \in {"hide", "unregister"}
  /\ Return
  /\ told' = told \ {call.w}
  /\ networkSlots' = IF call.op = "hide" THEN networkSlots
              ELSE [i \in Slots |-> IF i \in Of(call.w) THEN NoWidget ELSE networkSlots[i]]
  /\ UNCHANGED <<access, workerVars, events>>

JoinNetworkWorker ==
  /\ call # NoWidget /\ call.op \in {"disable", "stop"}
  /\ \/ /\ At("left", "join")
        /\ stop' = TRUE
        /\ UNCHANGED <<networkSlots, workerVars, call, told>>
     \/ /\ ui = "join"
        /\ pc \in {"none", "exited"}
        /\ pc' = "none" /\ armed' = {} /\ running' = NoWidget
        /\ stop' = FALSE
        /\ networkSlots' = [i \in Slots |->
                              IF i \notin Used \/ call.op = "stop" THEN NoWidget
                              ELSE [networkSlots[i] EXCEPT !.inFlight = FALSE]]
        /\ told' = {}
        /\ Return
  /\ UNCHANGED <<access, wake, cancel, idle>>

-----------------------------------------------------------------------------
(* The worker: NetworkWorker                                                *)

Others == UNCHANGED <<access, ui, call, told>>

\* The timeout is that of the earliest active slot.
Scan ==
  /\ pc = "scan"
  /\ pc' = "wait"
  /\ armed' = {i \in Used : networkSlots[i].active /\ ~networkSlots[i].inFlight}
  /\ UNCHANGED <<networkSlots, running, events>>
  /\ Others

Woken == stop \/ wake \/ \E i \in armed \cap Used : networkSlots[i].due

\* WaitForMultipleObjects reports the stop event first.
Wait ==
  /\ pc = "wait"
  /\ Woken
  /\ pc' = IF stop THEN "exited" ELSE "pick"
  /\ wake' = (wake /\ stop)
  /\ UNCHANGED <<networkSlots, armed, running, stop, cancel, idle>>
  /\ Others

Due == {i \in Used : networkSlots[i].active /\ ~networkSlots[i].inFlight /\ networkSlots[i].due}

\* Mutant of Busy: the idle event stays set.
BusyNever == idle

Busy == FALSE

\* The first due slot; the events belong to its run from here.
Pick ==
  /\ pc = "pick"
  /\ \E i \in Due :
       /\ \A j \in Due : i <= j
       /\ networkSlots' = [networkSlots EXCEPT ![i].inFlight = TRUE]
       /\ running' = networkSlots[i].widget
  /\ pc' = "run"
  /\ idle' = Busy
  /\ cancel' = FALSE
  /\ UNCHANGED <<armed, stop, wake>>
  /\ Others

PickNothing ==
  /\ pc = "pick"
  /\ Due = {}
  /\ pc' = "scan"
  /\ UNCHANGED <<networkSlots, armed, running, events>>
  /\ Others

\* Mutant of Releases: only the run of an active widget is reported.
ReleasesActive(i) == networkSlots[i].active

Releases(i) == TRUE

\* RunNetworkWork returns; S_FALSE parks the widget, anything else gives it a
\* new time.  The event releases a thread that waits, even if it is reset at once.
Complete ==
  /\ pc = "run"
  /\ \E i \in Of(running) :
       /\ \E parks \in BOOLEAN :
            networkSlots' = [networkSlots EXCEPT ![i] =
                               [networkSlots[i] EXCEPT !.inFlight = FALSE,
                                                       !.active = networkSlots[i].active /\ ~parks,
                                                       !.due = ~networkSlots[i].active \/ parks]]
       /\ idle' = Releases(i)
       /\ ui' = IF ui = "waiting" /\ Releases(i) THEN "left" ELSE ui
  /\ pc' = "scan"
  /\ running' = NoWidget
  /\ UNCHANGED <<access, armed, stop, wake, cancel, call, told>>

\* Time passes while the worker sleeps or a widget runs: a delay, of a
\* millisecond to days, is longer than what the worker needs between two runs.
Tick(i) ==
  /\ pc = "run" \/ (pc = "wait" /\ ~Woken)
  /\ i \in Used /\ networkSlots[i].active /\ ~networkSlots[i].due
  /\ ~networkSlots[i].inFlight
  /\ networkSlots' = [networkSlots EXCEPT ![i].due = TRUE]
  /\ UNCHANGED <<workerVars, events>>
  /\ Others

-----------------------------------------------------------------------------
Worker == Scan \/ Wait \/ Pick \/ PickNothing \/ Complete
UiGoesOn == EnsureNetworkWorker \/ CancelAll \/ WaitForIdle \/ Hidden \/ JoinNetworkWorker

Next == \/ \E w \in Widgets : \/ RegisterNetworkWidget(w) \/ Activate(w)
                              \/ Deactivate(w, "hide") \/ Deactivate(w, "unregister")
        \/ DeactivateAll("disable") \/ DeactivateAll("stop") \/ EnableAccess
        \/ UiGoesOn
        \/ Worker
        \/ \E i \in Slots : Tick(i)

Spec == Init /\ [][Next]_vars

\* The threads go on, and RunNetworkWork returns: "It MUST return promptly when
\* cancelEvent is signaled", and its transfers have time limits.
FairSpec == Spec /\ WF_vars(Worker) /\ WF_vars(UiGoesOn)

-----------------------------------------------------------------------------
(* Properties, with those of NetworkContract                                *)

\* The UI thread gets out of every wait for the worker: cancellation, the idle
\* event and the end of the thread never wait for each other.
CallsReturn == ui # "idle" ~> ui = "idle"

\* An active widget whose time has come, waiting for the worker.
Waits(i) == i \in Due /\ pc # "none"

\* It waits no longer: it runs, was hidden, or nobody is left to run it.  A call
\* of the UI thread ends the obligation, as its activation is due at once and may
\* be of an earlier slot.
Served(i) == i \notin Due \/ pc = "none" \/ ui # "idle"

\* The worker is between two runs and no earlier slot is due.
TurnOf(i) == pc # "run" /\ \A j \in Due : i <= j

\* A due widget is run if its turn keeps coming: the worker takes the first due
\* slot and no wake-up for a later one is lost, whatever is shown, hidden, parked
\* or retried meanwhile.  The premise is what the code does not provide.
DueIsRun == \A i \in Slots : []<>TurnOf(i) => (Waits(i) ~> Served(i))

\* Plugins_API.md:275-276, "`S_OK` schedules the returned delay" and "a failure
\* retries after one minute", for every widget that stays visible: its next run
\* comes, whatever the delays the other widgets ask for.  Not so with three
\* widgets: two of earlier slots, each due again before the other's run ends,
\* keep the third from its turn.  So this is the property without the premise,
\* to be refuted and not part of a run.
ScheduledIsRun == \A i \in Slots : Waits(i) ~> Served(i)
===============================================================================
