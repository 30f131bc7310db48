--------------------------- MODULE ServiceContract ---------------------------
(***************************************************************************)
(* What a headless service may rely on (Common/PlugInterfaces/Service.h):  *)
(* its object outlives everything the host does with it; RunDeviceWork is  *)
(* called at most once after a Start that succeeded, never before it and   *)
(* never after Stop; Stop and the release of the object come only when that*)
(* call is over; and a service is not started again before it was stopped. *)
(***************************************************************************)
CONSTANT Services

VARIABLES
  object,  \* object[s]: the service object exists
  live,    \* live[s]: Start succeeded and Stop has not been called
  work     \* work[s]: RunDeviceWork is to come, in progress or over

vars == <<object, live, work>>

Init == /\ object = [s \in Services |-> FALSE]
        /\ live = [s \in Services |-> FALSE]
        /\ work = [s \in Services |-> "over"]

Create(s) == /\ ~object[s]
             /\ object' = [object EXCEPT ![s] = TRUE]
             /\ UNCHANGED <<live, work>>

\* Start succeeds, of an object that may be new; the host may have no thread to
\* spare for its device work.
Start(s) == /\ ~live[s]
            /\ object' = [object EXCEPT ![s] = TRUE]
            /\ live' = [live EXCEPT ![s] = TRUE]
            /\ \E w \in {"to come", "over"} : work' = [work EXCEPT ![s] = w]

BeginWork(s) == /\ work[s] = "to come"
                /\ work' = [work EXCEPT ![s] = "in progress"]
                /\ UNCHANGED <<object, live>>

EndWork(s) == /\ work[s] = "in progress"
              /\ work' = [work EXCEPT ![s] = "over"]
              /\ UNCHANGED <<object, live>>

\* Stop, if it was started, and the last release.
Retire(s) == /\ object[s]
             /\ work[s] = "over"
             /\ object' = [object EXCEPT ![s] = FALSE]
             /\ live' = [live EXCEPT ![s] = FALSE]
             /\ UNCHANGED work

Next == \E s \in Services :
           Create(s) \/ Start(s) \/ BeginWork(s) \/ EndWork(s) \/ Retire(s)

Spec == Init /\ [][Next]_vars
=============================================================================
