----------------------------- MODULE NetworkContract -----------------------------
(***************************************************************************)
(* What the network service of the plugin host promises the widgets: the   *)
(* state the promises are about, and the promises.  NetworkService is how  *)
(* the host keeps them.                                                    *)
(***************************************************************************)
EXTENDS Integers, FiniteSets

CONSTANTS
  Widgets,
  NoWidget,
  MaximumNetworkWidgets

VARIABLES
  networkSlots,  \* _networkSlots: [1 .. MaximumNetworkWidgets -> NoWidget or a slot]
  access,   \* _networkAccessEnabled
  pc,       \* the worker: "none", "scan", "wait", "pick", "run", "exited"
  armed,    \* the slots its timeout was computed from
  running,  \* the widget whose RunNetworkWork it is in, or NoWidget
  stop, wake, cancel, idle,  \* the four events
  ui,       \* where the UI thread is
  call,     \* the call it is in, [op, w], or NoWidget
  told      \* history: the widgets last activated, once their hiding returned

\* Once a widget's hiding, its unregistering, the end of network access or of
\* the service has returned, the worker is not in the widget's code, nor enters
\* it, until the widget is shown again; and it enters none without access.
HiddenIsQuiet == pc = "run" => running \in told /\ (access \/ ui # "idle")

\* The one cancel event is for whichever widget runs: that widget sees it set
\* just when its own slot was made inactive, whatever was hidden before and
\* whatever was cancelled meanwhile.  A run nobody cancelled is not cut short,
\* and the UI thread does not wait out a transfer it should have cancelled.
\* Only a call that stops everything sets the event after it gives up the lock.
CancelIsOfItsRun ==
  \A i \in DOMAIN networkSlots :
    networkSlots[i] # NoWidget /\ networkSlots[i].inFlight /\ ui # "cancelAndWait"
      => (cancel <=> ~networkSlots[i].active)

\* Hiding a widget ends that widget's run, whole, and no other.
HidingIsSound == HiddenIsQuiet /\ CancelIsOfItsRun
===============================================================================
