------------------------ MODULE DeviceServices_proofs ------------------------
(***************************************************************************)
(* The device services' invariants, for every number of services and lanes *)
(* and every set of settings.                                              *)
(***************************************************************************)
EXTENDS DeviceServices, TLAPS

\* The abandoned mark of a lane is the pending stop of its slot, and what is
\* started is there.
Marks == \A s \in Services : /\ abandoned[s] <=> stopPending[s]
                             /\ started[s] => service[s]

\* Where the UI thread may be.
UiShape == /\ ui = "idle" <=> op = "none"
           /\ op = "apply" => window
           /\ op \in {"close", "shutdown"} => ~window
           /\ ui \in {"wait", "exchange", "join"} => /\ Joinable(index)
                                                     /\ stopEvent[index] = "set"
           /\ ui = "join" => Returned(index)

\* A late return is posted, or the apply under way has not passed its slot.
Reported == window => \A s \in Services \ unsent :
              abandoned[s] /\ lane[s] \in {"leave", "exited"}
                => posted \/ (op = "apply" /\ index <= s)

\* The slots an apply has passed are as the document has them.
InForceAt(s) == /\ started[s] => settings[s] = document[s] /\ Configured(s)
                /\ service[s] /\ ~Configured(s) => stopPending[s]
InForce == window => \A s \in Services :
             ui = "idle" \/ (op = "apply" /\ s < index) => InForceAt(s)

IInv == /\ TypeOK
        /\ PendingStopsAreKept
        /\ Marks
        /\ UiShape
        /\ Reported
        /\ InForce

\* The first and the last slot, and the places before and after them.
LEMMA Ends == /\ 0 \in Services /\ 0 \in -1 .. Count
              /\ Count - 1 \in Services /\ Count - 1 \in -1 .. Count
              /\ \A s \in Services : s \in -1 .. Count
              /\ \A s \in Services : 0 <= s
  <1>1. Count \in Nat /\ Count > 0
    BY ServicesAssumption
  <1> QED BY <1>1 DEF Services

\* Where Advance leads, and the types it keeps.
Moved == /\ index \in Services
         /\ index' \in -1 .. Count
         /\ op # "none"
         /\ \/ ui' = "visit" /\ op' = op /\ index' \in Services
            \/ ui' = "idle" /\ op' = "none"
         /\ op = "apply" => \A s \in Services :
                               /\ s < index' => s < index \/ s = index
                               /\ index <= s => s = index \/ (index' <= s /\ ui' # "idle")
                               /\ ui' = "idle" => s < index \/ s = index

LEMMA AdvanceFacts ==
  ASSUME TypeOK, UiShape, ui # "idle", Advance
  PROVE  Moved
  <1>1. index \in Services /\ op \in {"apply", "close", "shutdown"}
    BY DEF TypeOK, UiShape
  <1>2. index' = IF op = "apply" THEN index + 1 ELSE index - 1
    BY DEF Advance
  <1>3. Count \in Nat /\ Count > 0
    BY ServicesAssumption
  <1>4. index' \in -1 .. Count
    BY <1>1, <1>2, <1>3 DEF Services
  <1>5. \/ ui' = "visit" /\ op' = op /\ index' \in Services
        \/ ui' = "idle" /\ op' = "none" /\ index' \notin Services
    BY DEF Advance
  <1>6. ASSUME op = "apply", NEW s \in Services
        PROVE  /\ s < index' => s < index \/ s = index
               /\ index <= s => s = index \/ (index' <= s /\ ui' # "idle")
               /\ ui' = "idle" => s < index \/ s = index
    <2>1. index' = index + 1
      BY <1>2, <1>6
    <2>2. ui' = "idle" => index' \notin Services
      BY <1>5
    <2> QED BY <1>1, <1>3, <1>6, <2>1, <2>2 DEF Services
  <1> QED BY <1>1, <1>4, <1>5, <1>6 DEF Moved

\* The initial state satisfies the inductive invariant.
LEMMA InitInv == Init => IInv
  <1> SUFFICES ASSUME Init PROVE IInv
    OBVIOUS
  <1>1. TypeOK
    BY Ends DEF Init, TypeOK, AllFalse, Document, LaneStates, UiStates
  <1>2. PendingStopsAreKept /\ Marks
    BY DEF Init, PendingStopsAreKept, Marks, AllFalse, Joinable
  <1>3. UiShape /\ Reported
    BY DEF Init, UiShape, Reported, AllFalse
  <1>4. InForce
    BY DEF Init, InForce, InForceAt, AllFalse
  <1> QED BY <1>1, <1>2, <1>3, <1>4 DEF IInv

\* Reload preserves the inductive invariant.
LEMMA ReloadInv == IInv /\ (\E d \in Document : Reload(d)) => IInv'
  <1> SUFFICES ASSUME IInv, \E d \in Document : Reload(d) PROVE IInv'
    OBVIOUS
  <1> USE DEF IInv, slotVars, laneVars, uiVars
  <1>0. PICK d \in Document : Reload(d)
    OBVIOUS
  <1>1. TypeOK'
    BY <1>0, Ends DEF Reload, TypeOK, Document, UiStates
  <1>2. PendingStopsAreKept'
    BY <1>0 DEF Reload, PendingStopsAreKept, Joinable
  <1>3. Marks'
    BY <1>0 DEF Reload, Marks
  <1>4. UiShape'
    BY <1>0 DEF Reload, UiShape, Joinable, Returned
  <1>5. Reported'
    BY <1>0, Ends DEF Reload, Reported
  <1>6. InForce'
    <2>1. \A s \in Services : ~(s < index')
      BY <1>0, Ends, ServicesAssumption DEF Reload, Services
    <2>2. ui' # "idle"
      BY <1>0 DEF Reload
    <2> QED BY <2>1, <2>2 DEF InForce
  <1> QED BY <1>1, <1>2, <1>3, <1>4, <1>5, <1>6

\* Receive preserves the inductive invariant.
LEMMA ReceiveInv == IInv /\ Receive => IInv'
  <1> SUFFICES ASSUME IInv, Receive PROVE IInv'
    OBVIOUS
  <1> USE DEF IInv, slotVars, laneVars, uiVars
  <1>1. TypeOK'
    BY Ends DEF Receive, TypeOK, Document, UiStates
  <1>2. PendingStopsAreKept'
    BY DEF Receive, PendingStopsAreKept, Joinable
  <1>3. Marks'
    BY DEF Receive, Marks
  <1>4. UiShape'
    BY DEF Receive, UiShape, Joinable, Returned
  <1>5. Reported'
    BY Ends DEF Receive, Reported
  <1>6. InForce'
    <2>1. \A s \in Services : ~(s < index')
      BY Ends, ServicesAssumption DEF Receive, Services
    <2>2. ui' # "idle"
      BY DEF Receive
    <2> QED BY <2>1, <2>2 DEF InForce
  <1> QED BY <1>1, <1>2, <1>3, <1>4, <1>5, <1>6

\* StopTimesOut preserves the inductive invariant.
LEMMA StopTimesOutInv == IInv /\ StopTimesOut => IInv'
  <1> SUFFICES ASSUME IInv, StopTimesOut PROVE IInv'
    OBVIOUS
  <1> USE DEF IInv, slotVars, laneVars, uiVars
  <1>1. TypeOK'
    BY DEF StopTimesOut, TypeOK, Document, UiStates
  <1>2. PendingStopsAreKept'
    BY DEF StopTimesOut, PendingStopsAreKept, Joinable
  <1>3. Marks'
    BY DEF StopTimesOut, Marks
  <1>4. UiShape'
    BY DEF StopTimesOut, UiShape, Joinable, Returned
  <1>5. Reported'
    BY DEF StopTimesOut, Reported
  <1>6. InForce'
    BY DEF StopTimesOut, InForce, InForceAt, Configured, UiShape, TypeOK
  <1> QED BY <1>1, <1>2, <1>3, <1>4, <1>5, <1>6

\* StopFindsReturned preserves the inductive invariant.
LEMMA StopFindsReturnedInv == IInv /\ StopFindsReturned => IInv'
  <1> SUFFICES ASSUME IInv, StopFindsReturned PROVE IInv'
    OBVIOUS
  <1> USE DEF IInv, slotVars, laneVars, uiVars
  <1>1. TypeOK'
    BY DEF StopFindsReturned, TypeOK, Document, UiStates
  <1>2. PendingStopsAreKept'
    BY DEF StopFindsReturned, PendingStopsAreKept, Joinable
  <1>3. Marks'
    BY DEF StopFindsReturned, Marks
  <1>4. UiShape'
    BY DEF StopFindsReturned, UiShape, Joinable, Returned
  <1>5. Reported'
    BY DEF StopFindsReturned, Reported
  <1>6. InForce'
    BY DEF StopFindsReturned, InForce, InForceAt, Configured, UiShape, TypeOK
  <1> QED BY <1>1, <1>2, <1>3, <1>4, <1>5, <1>6

\* StopServices preserves the inductive invariant.
LEMMA StopServicesInv == IInv /\ (\E o \in {"close", "shutdown"} : StopServices(o)) => IInv'
  <1> SUFFICES ASSUME IInv, \E o \in {"close", "shutdown"} : StopServices(o) PROVE IInv'
    OBVIOUS
  <1> USE DEF IInv, slotVars, laneVars, uiVars
  <1>0. PICK o \in {"close", "shutdown"} : StopServices(o)
    OBVIOUS
  <1>1. TypeOK'
    BY <1>0, Ends DEF StopServices, TypeOK, UiStates
  <1>2. PendingStopsAreKept'
    <2> SUFFICES ASSUME NEW s \in Services
                 PROVE  stopEvent'[s] = IF Joinable(s) THEN "set" ELSE stopEvent[s]
      BY <1>0 DEF StopServices, PendingStopsAreKept, Joinable
    <2> QED BY <1>0 DEF StopServices
  <1>3. Marks'
    BY <1>0 DEF StopServices, Marks
  <1>4. UiShape'
    BY <1>0 DEF StopServices, UiShape
  <1>5. Reported'
    BY <1>0 DEF StopServices, Reported
  <1>6. InForce'
    BY <1>0 DEF StopServices, InForce
  <1> QED BY <1>1, <1>2, <1>3, <1>4, <1>5, <1>6

\* Leave preserves the inductive invariant.
LEMMA LeaveInv == IInv /\ Leave => IInv'
  <1> SUFFICES ASSUME IInv, Leave PROVE IInv'
    OBVIOUS
  <1> USE DEF IInv, Moved, slotVars, laneVars, uiVars
  <1>a. ui # "idle" /\ op = "apply" /\ Advance
    BY DEF Leave, Applying
  <1>b. Moved
    BY <1>a, AdvanceFacts
  <1>1. TypeOK'
    BY <1>a, <1>b DEF Leave, TypeOK, UiStates
  <1>2. PendingStopsAreKept'
    BY DEF Leave, PendingStopsAreKept, Joinable
  <1>3. Marks'
    BY DEF Leave, Marks
  <1>4. UiShape'
    BY <1>a, <1>b DEF Leave, UiShape
  <1>5. Reported'
    BY <1>a, <1>b DEF Leave, Reported, Marks, UiShape
  <1>6. InForce'
    <2>1. InForceAt(index)
      BY <1>b DEF Leave, InForceAt, Configured, Marks
    <2> QED BY <1>a, <1>b, <2>1 DEF Leave, InForce, InForceAt, Configured, UiShape
  <1> QED BY <1>1, <1>2, <1>3, <1>4, <1>5, <1>6

\* CreateFails preserves the inductive invariant.
LEMMA CreateFailsInv == IInv /\ CreateFails => IInv'
  <1> SUFFICES ASSUME IInv, CreateFails PROVE IInv'
    OBVIOUS
  <1> USE DEF IInv, Moved, slotVars, laneVars, uiVars
  <1>a. ui # "idle" /\ op = "apply" /\ Advance
    BY DEF CreateFails, Applying
  <1>b. Moved
    BY <1>a, AdvanceFacts
  <1>1. TypeOK'
    BY <1>a, <1>b DEF CreateFails, TypeOK, UiStates
  <1>2. PendingStopsAreKept'
    BY DEF CreateFails, PendingStopsAreKept, Joinable
  <1>3. Marks'
    BY DEF CreateFails, Marks
  <1>4. UiShape'
    BY <1>a, <1>b DEF CreateFails, UiShape
  <1>5. Reported'
    BY <1>a, <1>b DEF CreateFails, Reported, Marks, UiShape
  <1>6. InForce'
    <2>1. InForceAt(index)
      BY <1>b DEF CreateFails, InForceAt, Configured, Marks
    <2> QED BY <1>a, <1>b, <2>1 DEF CreateFails, InForce, InForceAt, Configured, UiShape
  <1> QED BY <1>1, <1>2, <1>3, <1>4, <1>5, <1>6

\* Reapply preserves the inductive invariant.
LEMMA ReapplyInv == IInv /\ Reapply => IInv'
  <1> SUFFICES ASSUME IInv, Reapply PROVE IInv'
    OBVIOUS
  <1> USE DEF IInv, Moved, slotVars, laneVars, uiVars
  <1>a. ui # "idle" /\ op = "apply" /\ Advance
    BY DEF Reapply, Applying
  <1>b. Moved
    BY <1>a, AdvanceFacts
  <1>c. \A s \in Services : s # index =>
        /\ service'[s] = service[s]
        /\ settings'[s] = settings[s]
        /\ started'[s] = started[s]
        /\ stopPending'[s] = stopPending[s]
        /\ stopEvent'[s] = stopEvent[s]
        /\ lane'[s] = lane[s]
        /\ abandoned'[s] = abandoned[s]
        /\ live'[s] = live[s]
    BY <1>b DEF Reapply, Configure, TypeOK
  <1>d. /\ service'[index] /\ settings'[index] = document[index]
        /\ started'[index] /\ ~stopPending'[index] /\ ~abandoned'[index]
        /\ stopEvent'[index] = stopEvent[index] /\ lane'[index] = lane[index]
        /\ live'[index] = live[index] /\ document[index] # NoSettings
        /\ document' = document /\ ~stopPending[index] /\ started[index]
    BY <1>b DEF Reapply, Configure, TypeOK, Document, Configured, Marks
  <1>1. TypeOK'
    BY <1>a, <1>b DEF Reapply, Configure, TypeOK, Document, UiStates, LaneStates
  <1>2. PendingStopsAreKept'
    BY <1>b, <1>c, <1>d DEF PendingStopsAreKept, Marks, Joinable
  <1>3. Marks'
    BY <1>b, <1>c, <1>d DEF Marks
  <1>4. UiShape'
    BY <1>a, <1>b DEF Reapply, Configure, UiShape
  <1>5. Reported'
    BY <1>a, <1>b, <1>c, <1>d DEF Reapply, Configure, Reported, Marks, UiShape
  <1>6. InForce'
    <2>1. ASSUME NEW s \in Services, s = index PROVE InForceAt(s)'
      BY <2>1,  <1>b, <1>d DEF Reapply, Configure, InForceAt, Configured
    <2>2. ASSUME NEW s \in Services, InForceAt(s), s # index PROVE InForceAt(s)'
      BY <1>c, <2>2 DEF Reapply, Configure, InForceAt, Configured
    <2> QED BY <1>a, <1>b, <2>1, <2>2 DEF Reapply, Configure, InForce, UiShape
  <1> QED BY <1>1, <1>2, <1>3, <1>4, <1>5, <1>6

\* StartFails preserves the inductive invariant.
LEMMA StartFailsInv == IInv /\ StartFails => IInv'
  <1> SUFFICES ASSUME IInv, StartFails PROVE IInv'
    OBVIOUS
  <1> USE DEF IInv, Moved, slotVars, laneVars, uiVars
  <1>a. ui # "idle" /\ op = "apply" /\ Advance
    BY DEF StartFails, Applying
  <1>b. Moved
    BY <1>a, AdvanceFacts
  <1>c. \A s \in Services : s # index =>
        /\ service'[s] = service[s]
        /\ settings'[s] = settings[s]
        /\ started'[s] = started[s]
        /\ stopPending'[s] = stopPending[s]
        /\ stopEvent'[s] = stopEvent[s]
        /\ lane'[s] = lane[s]
        /\ abandoned'[s] = abandoned[s]
        /\ live'[s] = live[s]
    BY <1>b DEF StartFails, Configure, TypeOK
  <1>d. /\ service'[index] /\ settings'[index] = document[index]
        /\ ~started'[index] /\ ~stopPending'[index] /\ ~abandoned'[index]
        /\ stopEvent'[index] = stopEvent[index] /\ lane'[index] = lane[index]
        /\ live'[index] = live[index] /\ document[index] # NoSettings
        /\ document' = document /\ ~stopPending[index] /\ ~started[index]
    BY <1>b DEF StartFails, Configure, TypeOK, Document, Configured, Marks
  <1>1. TypeOK'
    BY <1>a, <1>b DEF StartFails, Configure, TypeOK, Document, UiStates, LaneStates
  <1>2. PendingStopsAreKept'
    BY <1>b, <1>c, <1>d DEF PendingStopsAreKept, Marks, Joinable
  <1>3. Marks'
    BY <1>b, <1>c, <1>d DEF Marks
  <1>4. UiShape'
    BY <1>a, <1>b DEF StartFails, Configure, UiShape
  <1>5. Reported'
    BY <1>a, <1>b, <1>c, <1>d DEF StartFails, Configure, Reported, Marks, UiShape
  <1>6. InForce'
    <2>1. ASSUME NEW s \in Services, s = index PROVE InForceAt(s)'
      BY <2>1,  <1>b, <1>d DEF StartFails, Configure, InForceAt, Configured
    <2>2. ASSUME NEW s \in Services, InForceAt(s), s # index PROVE InForceAt(s)'
      BY <1>c, <2>2 DEF StartFails, Configure, InForceAt, Configured
    <2> QED BY <1>a, <1>b, <2>1, <2>2 DEF StartFails, Configure, InForce, UiShape
  <1> QED BY <1>1, <1>2, <1>3, <1>4, <1>5, <1>6

\* Start preserves the inductive invariant.
LEMMA StartInv == IInv /\ (\E laneStarts \in BOOLEAN : Start(laneStarts)) => IInv'
  <1> SUFFICES ASSUME IInv, \E laneStarts \in BOOLEAN : Start(laneStarts) PROVE IInv'
    OBVIOUS
  <1> USE DEF IInv, Moved, slotVars, laneVars, uiVars
  <1>0. PICK laneStarts \in BOOLEAN : Start(laneStarts)
    OBVIOUS
  <1>a. ui # "idle" /\ op = "apply" /\ Advance
    BY <1>0 DEF Start, Applying
  <1>b. Moved
    BY <1>a, AdvanceFacts
  <1>e. \/ /\ lane' = [lane EXCEPT ![index] = "begin"]
           /\ stopEvent' = [stopEvent EXCEPT ![index] = "clear"]
        \/ lane' = lane /\ stopEvent' = stopEvent
    BY <1>0 DEF Start
  <1>f. /\ service' = [service EXCEPT ![index] = TRUE]
        /\ settings' = [settings EXCEPT ![index] = document[index]]
        /\ started' = [started EXCEPT ![index] = TRUE]
        /\ live' = [live EXCEPT ![index] = TRUE]
        /\ document' = document /\ stopPending' = stopPending
        /\ abandoned' = abandoned /\ unsent' = unsent
        /\ window' = window /\ posted' = posted
        /\ ~stopPending[index] /\ document[index] # NoSettings /\ ~started[index]
    BY <1>0 DEF Start, Configure, Configured
  <1>g. ~Joinable(index) /\ ~abandoned[index]
    BY <1>b, <1>f DEF PendingStopsAreKept, Marks
  <1>c. \A s \in Services : s # index =>
        /\ service'[s] = service[s]
        /\ settings'[s] = settings[s]
        /\ started'[s] = started[s]
        /\ stopPending'[s] = stopPending[s]
        /\ stopEvent'[s] = stopEvent[s]
        /\ lane'[s] = lane[s]
        /\ abandoned'[s] = abandoned[s]
        /\ live'[s] = live[s]
    BY <1>b, <1>e, <1>f DEF TypeOK
  <1>d. /\ service'[index] /\ settings'[index] = document[index]
        /\ started'[index] /\ ~stopPending'[index] /\ ~abandoned'[index]
        /\ live'[index] /\ document[index] # NoSettings
        /\ lane'[index] # "none" => stopEvent'[index] = "clear"
        /\ document' = document
    BY <1>b, <1>e, <1>f, <1>g DEF TypeOK, Document, Joinable
  <1>1. TypeOK'
    <2>1. /\ lane' \in [Services -> LaneStates]
          /\ stopEvent' \in [Services -> {"none", "clear", "set"}]
      BY <1>b, <1>e DEF TypeOK, LaneStates
    <2> QED BY <1>a, <1>b, <1>f, <2>1 DEF TypeOK, Document, UiStates
  <1>2. PendingStopsAreKept'
    BY <1>b, <1>c, <1>d DEF PendingStopsAreKept, Joinable
  <1>3. Marks'
    BY <1>b, <1>c, <1>d DEF Marks
  <1>4. UiShape'
    BY <1>a, <1>b, <1>f DEF UiShape
  <1>5. Reported'
    BY <1>a, <1>b, <1>c, <1>d, <1>f DEF Reported, UiShape
  <1>6. InForce'
    <2>1. ASSUME NEW s \in Services, s = index PROVE InForceAt(s)'
      BY <2>1,  <1>b, <1>d DEF InForceAt, Configured
    <2>2. ASSUME NEW s \in Services, InForceAt(s), s # index PROVE InForceAt(s)'
      BY <1>c, <1>f, <2>2 DEF InForceAt, Configured
    <2> QED BY <1>a, <1>b, <1>f, <2>1, <2>2 DEF InForce, UiShape
  <1> QED BY <1>1, <1>2, <1>3, <1>4, <1>5, <1>6

\* Resetting a slot preserves the inductive invariant.
LEMMA ReleaseInv == ASSUME IInv, ui # "idle", Release PROVE IInv'
  <1> USE DEF IInv, slotVars, laneVars, uiVars
  <1>b. /\ index \in Services
        /\ index' \in -1 .. Count
        /\ \/ ui' = "visit" /\ op' = op /\ index' \in Services /\ op # "none"
           \/ ui' = "idle" /\ op' = "none"
        /\ op = "apply" => ui' = "visit" /\ op' = op /\ index' = index
        /\ op # "apply" => op \in {"close", "shutdown"}
    <2>1. index \in Services /\ op \in {"apply", "close", "shutdown"}
      BY DEF TypeOK, UiShape
    <2>2. CASE op = "apply"
      BY <2>1, <2>2, Ends DEF Release, TypeOK
    <2>3. CASE op # "apply"
      <3>1. Advance
        BY <2>3 DEF Release
      <3> QED BY <2>1, <2>3, <3>1, AdvanceFacts DEF Moved
    <2> QED BY <2>2, <2>3
  <1>c. \A s \in Services : s # index =>
        /\ service'[s] = service[s]
        /\ settings'[s] = settings[s]
        /\ started'[s] = started[s]
        /\ stopPending'[s] = stopPending[s]
        /\ stopEvent'[s] = stopEvent[s]
        /\ lane'[s] = lane[s]
        /\ abandoned'[s] = abandoned[s]
        /\ live'[s] = live[s]
    BY <1>b DEF Release, TypeOK
  <1>d. /\ ~service'[index] /\ ~started'[index] /\ ~stopPending'[index]
        /\ ~abandoned'[index] /\ ~live'[index] /\ lane'[index] = "none"
    BY <1>b DEF Release, TypeOK
  <1>1. TypeOK'
    <2>1. op' \in {"none", "apply", "close", "shutdown"}
      BY <1>b DEF TypeOK
    <2> QED BY <1>b, <2>1 DEF Release, TypeOK, Document, UiStates, LaneStates
  <1>2. PendingStopsAreKept'
    BY <1>b, <1>c, <1>d DEF PendingStopsAreKept, Joinable
  <1>3. Marks'
    BY <1>b, <1>c, <1>d DEF Marks
  <1>4. UiShape'
    BY <1>b DEF Release, UiShape
  <1>5. Reported'
    BY <1>b, <1>c, <1>d DEF Release, Reported, UiShape
  <1>6. InForce'
    <2>1. ASSUME NEW s \in Services, InForceAt(s), s # index PROVE InForceAt(s)'
      BY <1>c, <2>1 DEF Release, InForceAt, Configured
    <2>2. ASSUME NEW s \in Services, s = index PROVE InForceAt(s)'
      BY <2>2,  <1>d DEF InForceAt
    <2> QED BY <1>b, <2>1, <2>2 DEF Release, InForce, UiShape
  <1> QED BY <1>1, <1>2, <1>3, <1>4, <1>5, <1>6

\* StopIdle preserves the inductive invariant.
LEMMA StopIdleInv == IInv /\ StopIdle => IInv'
  BY ReleaseInv DEF StopIdle, Stopping

\* StopJoins preserves the inductive invariant.
LEMMA StopJoinsInv == IInv /\ StopJoins => IInv'
  BY ReleaseInv DEF StopJoins

\* StopSignals preserves the inductive invariant.
LEMMA StopSignalsInv == IInv /\ StopSignals => IInv'
  <1> SUFFICES ASSUME IInv, StopSignals PROVE IInv'
    OBVIOUS
  <1> USE DEF IInv, slotVars, laneVars, uiVars
  <1>b. index \in Services /\ ui = "visit"
    BY DEF StopSignals, Stopping, TypeOK
  <1>c. \A s \in Services : s # index => stopEvent'[s] = stopEvent[s]
    BY <1>b DEF StopSignals, TypeOK
  <1>d. stopEvent'[index] = "set"
    BY <1>b DEF StopSignals, TypeOK
  <1>1. TypeOK'
    BY <1>b DEF StopSignals, TypeOK, UiStates
  <1>2. PendingStopsAreKept'
    BY <1>b, <1>c, <1>d DEF StopSignals, PendingStopsAreKept, Joinable
  <1>3. Marks'
    BY DEF StopSignals, Marks
  <1>4. UiShape'
    BY <1>b, <1>d DEF StopSignals, UiShape, Joinable
  <1>5. Reported'
    BY DEF StopSignals, Reported
  <1>6. InForce'
    BY <1>b DEF StopSignals, InForce, InForceAt, Configured
  <1> QED BY <1>1, <1>2, <1>3, <1>4, <1>5, <1>6

\* StopGivesUp preserves the inductive invariant.
LEMMA StopGivesUpInv == IInv /\ StopGivesUp => IInv'
  <1> SUFFICES ASSUME IInv, StopGivesUp PROVE IInv'
    OBVIOUS
  <1> USE DEF IInv, Moved, slotVars, laneVars, uiVars
  <1>a. ui # "idle" /\ Advance
    BY DEF StopGivesUp
  <1>b. Moved
    BY <1>a, AdvanceFacts
  <1>e. /\ Joinable(index) /\ live[index] /\ service[index] /\ stopEvent[index] = "set"
        /\ started[index] \/ stopPending[index]
        /\ lane[index] \in {"begin", "run"}
    BY <1>b DEF StopGivesUp, UiShape, PendingStopsAreKept, TypeOK, Joinable,
                Returned, LaneStates
  <1>f. stopPending' = [stopPending EXCEPT ![index] = TRUE]
    BY <1>b, <1>e DEF StopGivesUp, TypeOK
  <1>c. \A s \in Services : s # index =>
        /\ service'[s] = service[s]
        /\ settings'[s] = settings[s]
        /\ started'[s] = started[s]
        /\ stopPending'[s] = stopPending[s]
        /\ stopEvent'[s] = stopEvent[s]
        /\ lane'[s] = lane[s]
        /\ abandoned'[s] = abandoned[s]
        /\ live'[s] = live[s]
    BY <1>b, <1>f DEF StopGivesUp, TypeOK
  <1>d. /\ ~started'[index] /\ stopPending'[index] /\ abandoned'[index]
        /\ service'[index] /\ live'[index] /\ stopEvent'[index] = "set"
        /\ lane'[index] = lane[index]
    BY <1>b, <1>e, <1>f DEF StopGivesUp, TypeOK
  <1>1. TypeOK'
    BY <1>a, <1>b, <1>f DEF StopGivesUp, TypeOK, UiStates
  <1>2. PendingStopsAreKept'
    BY <1>b, <1>c, <1>d, <1>e DEF PendingStopsAreKept, Joinable
  <1>3. Marks'
    BY <1>b, <1>c, <1>d DEF Marks
  <1>4. UiShape'
    BY <1>a, <1>b DEF StopGivesUp, UiShape
  <1>5. Reported'
    <2> SUFFICES ASSUME window', NEW s \in Services \ unsent',
                        abandoned'[s] /\ lane'[s] \in {"leave", "exited"}
                 PROVE  posted' \/ (op' = "apply" /\ index' <= s)
      BY DEF Reported
    <2>1. s # index /\ abandoned[s] /\ lane[s] \in {"leave", "exited"}
      BY <1>b, <1>c, <1>d, <1>e
    <2>2. posted \/ (op = "apply" /\ index <= s)
      BY <2>1 DEF StopGivesUp, Reported
    <2>3. op = "apply"
      BY <1>b DEF StopGivesUp, UiShape, TypeOK
    <2>4. posted' = posted
      BY DEF StopGivesUp
    <2> QED BY <1>b, <2>1, <2>2, <2>3, <2>4
  <1>6. InForce'
    <2>1. ASSUME NEW s \in Services, s = index PROVE InForceAt(s)'
      BY <2>1,  <1>d DEF InForceAt
    <2>2. ASSUME NEW s \in Services, InForceAt(s), s # index PROVE InForceAt(s)'
      BY <1>c, <2>2 DEF StopGivesUp, InForceAt, Configured
    <2>3. window' => op = "apply"
      BY <1>b DEF StopGivesUp, UiShape, TypeOK
    <2> QED BY <1>a, <1>b, <2>1, <2>2, <2>3 DEF StopGivesUp, InForce, UiShape
  <1> QED BY <1>1, <1>2, <1>3, <1>4, <1>5, <1>6

\* LaneBegins preserves the inductive invariant.
LEMMA LaneBeginsInv == IInv /\ (\E k \in Services : LaneBegins(k)) => IInv'
  <1> SUFFICES ASSUME IInv, \E k \in Services : LaneBegins(k) PROVE IInv'
    OBVIOUS
  <1> USE DEF IInv, slotVars, laneVars, uiVars
  <1>0. PICK k \in Services : LaneBegins(k)
    OBVIOUS
  <1>c. \A s \in Services : s # k => lane'[s] = lane[s]
    BY <1>0 DEF LaneBegins, LaneStep, TypeOK
  <1>d. lane[k] = "begin" /\ lane'[k] = "run"
    BY <1>0 DEF LaneBegins, LaneStep, TypeOK
  <1>1. TypeOK'
    BY <1>0 DEF LaneBegins, LaneStep, TypeOK, LaneStates
  <1>2. PendingStopsAreKept'
    BY <1>0, <1>c, <1>d DEF LaneBegins, LaneStep, PendingStopsAreKept, Joinable
  <1>3. Marks'
    BY <1>0 DEF LaneBegins, LaneStep, Marks
  <1>4. UiShape'
    BY <1>0, <1>c, <1>d DEF LaneBegins, LaneStep, UiShape, Joinable, Returned, TypeOK
  <1>5. Reported'
    BY <1>0, <1>c, <1>d DEF LaneBegins, LaneStep, Reported
  <1>6. InForce'
    BY <1>0 DEF LaneBegins, LaneStep, InForce, InForceAt, Configured
  <1> QED BY <1>1, <1>2, <1>3, <1>4, <1>5, <1>6

\* LaneReturns preserves the inductive invariant.
LEMMA LaneReturnsInv == IInv /\ (\E k \in Services : LaneReturns(k)) => IInv'
  <1> SUFFICES ASSUME IInv, \E k \in Services : LaneReturns(k) PROVE IInv'
    OBVIOUS
  <1> USE DEF IInv, slotVars, laneVars, uiVars
  <1>0. PICK k \in Services : LaneReturns(k)
    OBVIOUS
  <1>c. \A s \in Services : s # k => lane'[s] = lane[s]
    BY <1>0 DEF LaneReturns, LaneStep, TypeOK
  <1>d. lane[k] = "run" /\ lane'[k] = IF abandoned[k] THEN "post" ELSE "leave"
    BY <1>0 DEF LaneReturns, LaneStep, TypeOK
  <1>1. TypeOK'
    BY <1>0 DEF LaneReturns, LaneStep, TypeOK, LaneStates
  <1>2. PendingStopsAreKept'
    BY <1>0, <1>c, <1>d DEF LaneReturns, LaneStep, PendingStopsAreKept, Joinable
  <1>3. Marks'
    BY <1>0 DEF LaneReturns, LaneStep, Marks
  <1>4. UiShape'
    BY <1>0, <1>c, <1>d DEF LaneReturns, LaneStep, UiShape, Joinable, Returned, TypeOK
  <1>5. Reported'
    BY <1>0, <1>c, <1>d DEF LaneReturns, LaneStep, Reported
  <1>6. InForce'
    BY <1>0 DEF LaneReturns, LaneStep, InForce, InForceAt, Configured
  <1> QED BY <1>1, <1>2, <1>3, <1>4, <1>5, <1>6

\* LanePosts preserves the inductive invariant.
LEMMA LanePostsInv == IInv /\ (\E k \in Services : LanePosts(k)) => IInv'
  <1> SUFFICES ASSUME IInv, \E k \in Services : LanePosts(k) PROVE IInv'
    OBVIOUS
  <1> USE DEF IInv, slotVars, laneVars, uiVars
  <1>0. PICK k \in Services : LanePosts(k)
    OBVIOUS
  <1>c. \A s \in Services : s # k => lane'[s] = lane[s]
    BY <1>0 DEF LanePosts, LaneStep, TypeOK
  <1>d. lane[k] = "post" /\ lane'[k] = "leave" /\ posted'
    BY <1>0 DEF LanePosts, LaneStep, TypeOK
  <1>1. TypeOK'
    BY <1>0 DEF LanePosts, LaneStep, TypeOK, LaneStates
  <1>2. PendingStopsAreKept'
    BY <1>0, <1>c, <1>d DEF LanePosts, LaneStep, PendingStopsAreKept, Joinable
  <1>3. Marks'
    BY <1>0 DEF LanePosts, LaneStep, Marks
  <1>4. UiShape'
    BY <1>0, <1>c, <1>d DEF LanePosts, LaneStep, UiShape, Joinable, Returned, TypeOK
  <1>5. Reported'
    BY <1>0, <1>c, <1>d DEF LanePosts, LaneStep, Reported
  <1>6. InForce'
    BY <1>0 DEF LanePosts, LaneStep, InForce, InForceAt, Configured
  <1> QED BY <1>1, <1>2, <1>3, <1>4, <1>5, <1>6

\* LanePostFails preserves the inductive invariant.
LEMMA LanePostFailsInv == IInv /\ (\E k \in Services : LanePostFails(k)) => IInv'
  <1> SUFFICES ASSUME IInv, \E k \in Services : LanePostFails(k) PROVE IInv'
    OBVIOUS
  <1> USE DEF IInv, slotVars, laneVars, uiVars
  <1>0. PICK k \in Services : LanePostFails(k)
    OBVIOUS
  <1>c. \A s \in Services : s # k => lane'[s] = lane[s]
    BY <1>0 DEF LanePostFails, LaneStep, TypeOK
  <1>d. lane[k] = "post" /\ lane'[k] = "leave" /\ k \in unsent'
    BY <1>0 DEF LanePostFails, LaneStep, TypeOK
  <1>1. TypeOK'
    BY <1>0 DEF LanePostFails, LaneStep, TypeOK, LaneStates
  <1>2. PendingStopsAreKept'
    BY <1>0, <1>c, <1>d DEF LanePostFails, LaneStep, PendingStopsAreKept, Joinable
  <1>3. Marks'
    BY <1>0 DEF LanePostFails, LaneStep, Marks
  <1>4. UiShape'
    BY <1>0, <1>c, <1>d DEF LanePostFails, LaneStep, UiShape, Joinable, Returned, TypeOK
  <1>5. Reported'
    BY <1>0, <1>c, <1>d DEF LanePostFails, LaneStep, Reported
  <1>6. InForce'
    BY <1>0 DEF LanePostFails, LaneStep, InForce, InForceAt, Configured
  <1> QED BY <1>1, <1>2, <1>3, <1>4, <1>5, <1>6

\* LaneExits preserves the inductive invariant.
LEMMA LaneExitsInv == IInv /\ (\E k \in Services : LaneExits(k)) => IInv'
  <1> SUFFICES ASSUME IInv, \E k \in Services : LaneExits(k) PROVE IInv'
    OBVIOUS
  <1> USE DEF IInv, slotVars, laneVars, uiVars
  <1>0. PICK k \in Services : LaneExits(k)
    OBVIOUS
  <1>c. \A s \in Services : s # k => lane'[s] = lane[s]
    BY <1>0 DEF LaneExits, LaneStep, TypeOK
  <1>d. lane[k] = "leave" /\ lane'[k] = "exited"
    BY <1>0 DEF LaneExits, LaneStep, TypeOK
  <1>1. TypeOK'
    BY <1>0 DEF LaneExits, LaneStep, TypeOK, LaneStates
  <1>2. PendingStopsAreKept'
    BY <1>0, <1>c, <1>d DEF LaneExits, LaneStep, PendingStopsAreKept, Joinable
  <1>3. Marks'
    BY <1>0 DEF LaneExits, LaneStep, Marks
  <1>4. UiShape'
    BY <1>0, <1>c, <1>d DEF LaneExits, LaneStep, UiShape, Joinable, Returned, TypeOK
  <1>5. Reported'
    BY <1>0, <1>c, <1>d DEF LaneExits, LaneStep, Reported
  <1>6. InForce'
    BY <1>0 DEF LaneExits, LaneStep, InForce, InForceAt, Configured
  <1> QED BY <1>1, <1>2, <1>3, <1>4, <1>5, <1>6

\* Every step preserves the inductive invariant.
LEMMA NextInv == IInv /\ [Next]_vars => IInv'
  <1> SUFFICES ASSUME IInv, [Next]_vars PROVE IInv'
    OBVIOUS
  <1>1. CASE UNCHANGED vars
    BY <1>1 DEF vars, slotVars, laneVars, uiVars, IInv, TypeOK,
                PendingStopsAreKept, Marks, UiShape, Reported, InForce, InForceAt,
                Joinable, Returned, Configured
  <1>2. CASE Next
    BY <1>2, ReloadInv, ReceiveInv, StopServicesInv, LeaveInv, CreateFailsInv,
       ReapplyInv, StartFailsInv, StartInv, StopIdleInv, StopSignalsInv,
       StopJoinsInv, StopTimesOutInv, StopFindsReturnedInv, StopGivesUpInv,
       LaneBeginsInv, LaneReturnsInv, LanePostsInv, LanePostFailsInv, LaneExitsInv
       DEF Next, Apply, Stop, Lane
  <1> QED BY <1>1, <1>2

\* The inductive invariant holds in every reachable state.
THEOREM Invariance == Spec => []IInv
  <1> QED BY InitInv, NextInv, PTL DEF Spec

\* Types, for any services; the walk over the slots never leaves them.
THEOREM TypeCorrect == Spec => []TypeOK
  <1>1. IInv => TypeOK
    BY DEF IInv
  <1> QED BY <1>1, Invariance, PTL

\* StopService and its retries forget no started service, and keep what a
\* running lane borrows.
THEOREM PendingStopsKept == Spec => []PendingStopsAreKept
  <1>1. IInv => PendingStopsAreKept
    BY DEF IInv
  <1> QED BY <1>1, Invariance, PTL

\* StopDeviceLane and DeviceLane never both miss a late return.
THEOREM LateReturnReported == Spec => []LateReturnIsReported
  <1>1. IInv => LateReturnIsReported
    BY DEF IInv, Reported, UiShape, LateReturnIsReported
  <1> QED BY <1>1, Invariance, PTL

\* ApplyServiceSettings leaves every slot as the document has it.
THEOREM DocumentInForce == Spec => []DocumentIsInForce
  <1>1. IInv => DocumentIsInForce
    BY DEF IInv, InForce, InForceAt, DocumentIsInForce
  <1> QED BY <1>1, Invariance, PTL

-----------------------------------------------------------------------------
(* The services implement the contract.                                    *)

\* What the contract sees of a lane.
WorkOf(l) == CASE l = "begin" -> "to come"
               [] l = "run" -> "in progress"
               [] OTHER -> "over"
work == [s \in Services |-> WorkOf(lane[s])]

\* The contract's actions in the variables of the host.
LEMMA ContractActions ==
  /\ service' = service /\ live' = live /\ work' = work => UNCHANGED Contract!vars
  /\ \A s \in Services :
       /\ /\ ~service[s]
          /\ service' = [service EXCEPT ![s] = TRUE]
          /\ live' = live /\ work' = work
          => Contract!Next
       /\ /\ ~live[s]
          /\ service' = [service EXCEPT ![s] = TRUE]
          /\ live' = [live EXCEPT ![s] = TRUE]
          /\ \E w \in {"to come", "over"} : work' = [work EXCEPT ![s] = w]
          => Contract!Next
       /\ /\ work[s] = "to come"
          /\ work' = [work EXCEPT ![s] = "in progress"]
          /\ service' = service /\ live' = live
          => Contract!Next
       /\ /\ work[s] = "in progress"
          /\ work' = [work EXCEPT ![s] = "over"]
          /\ service' = service /\ live' = live
          => Contract!Next
       /\ /\ service[s] /\ work[s] = "over"
          /\ service' = [service EXCEPT ![s] = FALSE]
          /\ live' = [live EXCEPT ![s] = FALSE]
          /\ work' = work
          => Contract!Next
  <1>1. ASSUME service' = service, live' = live, work' = work
        PROVE  UNCHANGED Contract!vars
    BY <1>1 DEF Contract!vars, work, WorkOf
  <1>2. ASSUME NEW s \in Services
        PROVE  /\ Contract!Create(s) <=> /\ ~service[s]
                                         /\ service' = [service EXCEPT ![s] = TRUE]
                                         /\ live' = live /\ work' = work
               /\ Contract!Start(s) <=>
                    /\ ~live[s]
                    /\ service' = [service EXCEPT ![s] = TRUE]
                    /\ live' = [live EXCEPT ![s] = TRUE]
                    /\ \E w \in {"to come", "over"} : work' = [work EXCEPT ![s] = w]
               /\ Contract!BeginWork(s) <=> /\ work[s] = "to come"
                                            /\ work' = [work EXCEPT ![s] = "in progress"]
                                            /\ service' = service /\ live' = live
               /\ Contract!EndWork(s) <=> /\ work[s] = "in progress"
                                          /\ work' = [work EXCEPT ![s] = "over"]
                                          /\ service' = service /\ live' = live
               /\ Contract!Retire(s) <=> /\ service[s] /\ work[s] = "over"
                                         /\ service' = [service EXCEPT ![s] = FALSE]
                                         /\ live' = [live EXCEPT ![s] = FALSE]
                                         /\ work' = work
    BY DEF Contract!Create, Contract!Start, Contract!BeginWork, Contract!EndWork,
           Contract!Retire, work, WorkOf
  <1>3. Contract!Next <=> \E s \in Services :
           \/ Contract!Create(s) \/ Contract!Start(s) \/ Contract!BeginWork(s)
           \/ Contract!EndWork(s) \/ Contract!Retire(s)
    BY DEF Contract!Next
  <1> QED BY <1>1, <1>2, <1>3

\* A lane's step seen as work.
LEMMA WorkStep ==
  ASSUME TypeOK, NEW i \in Services, NEW l, lane' = [lane EXCEPT ![i] = l]
  PROVE  /\ work' = [work EXCEPT ![i] = WorkOf(l)]
         /\ WorkOf(l) = WorkOf(lane[i]) => work' = work
  <1>1. /\ \A s \in Services : s # i => lane'[s] = lane[s]
        /\ lane'[i] = l
    BY DEF TypeOK
  <1>2. work' = [s \in Services |-> WorkOf(lane'[s])]
    BY DEF work
  <1>3. work' = [work EXCEPT ![i] = WorkOf(l)]
    <2>1. \A s \in Services : WorkOf(lane'[s]) = IF s = i THEN WorkOf(l) ELSE work[s]
      BY <1>1 DEF work
    <2>2. [work EXCEPT ![i] = WorkOf(l)]
            = [s \in Services |-> IF s = i THEN WorkOf(l) ELSE work[s]]
      BY DEF work
    <2> QED BY <1>2, <2>1, <2>2
  <1>4. ASSUME WorkOf(l) = WorkOf(lane[i]) PROVE work' = work
    BY <1>1, <1>2, <1>4 DEF work
  <1> QED BY <1>3, <1>4

\* The release of a slot retires its service, or there was none.
LEMMA ReleaseImplements ==
  ASSUME IInv, index \in Services, Release, lane[index] \in {"none", "exited"}
  PROVE  [Contract!Next]_(Contract!vars)
  <1> USE DEF IInv
  <1>1. work[index] = "over"
    BY DEF work, WorkOf
  <1>2. work' = work
    <2>1. lane' = [lane EXCEPT ![index] = "none"]
      BY DEF Release
    <2>2. WorkOf("none") = "over" /\ WorkOf(lane[index]) = "over"
      BY DEF WorkOf
    <2> QED BY <2>1, <2>2, WorkStep
  <1>3. /\ service' = [service EXCEPT ![index] = FALSE]
        /\ live' = [live EXCEPT ![index] = FALSE]
    BY DEF Release
  <1>4. CASE service[index]
    BY <1>1, <1>2, <1>3, <1>4, ContractActions
  <1>5. CASE ~service[index]
    <2>1. ~live[index]
      BY <1>5 DEF PendingStopsAreKept, Marks
    <2>2. service' = service /\ live' = live
      BY <1>3, <1>5, <2>1 DEF TypeOK
    <2> QED BY <1>2, <2>2, ContractActions
  <1> QED BY <1>4, <1>5

\* The lane leaves and reports unseen, and begins and ends its work.
LEMMA LaneImplements ==
  ASSUME IInv, NEW s \in Services, Lane(s) \/ LaneReturns(s)
  PROVE  [Contract!Next]_(Contract!vars)
  <1> USE DEF IInv
  <1>1. service' = service /\ live' = live
    BY DEF Lane, LaneBegins, LaneReturns, LanePosts, LanePostFails, LaneExits,
           LaneStep, slotVars
  <1>2. PICK l : lane' = [lane EXCEPT ![s] = l]
                 /\ \/ lane[s] = "begin" /\ l = "run"
                    \/ lane[s] = "run" /\ l \in {"post", "leave"}
                    \/ lane[s] = "post" /\ l = "leave"
                    \/ lane[s] = "leave" /\ l = "exited"
    BY DEF Lane, LaneBegins, LaneReturns, LanePosts, LanePostFails, LaneExits, LaneStep
  <1>3. work[s] = WorkOf(lane[s])
    BY DEF work
  <1>4. /\ work' = [work EXCEPT ![s] = WorkOf(l)]
        /\ WorkOf(l) = WorkOf(lane[s]) => work' = work
    BY <1>2, WorkStep
  <1>5. \/ WorkOf(lane[s]) = "to come" /\ WorkOf(l) = "in progress"
        \/ WorkOf(lane[s]) = "in progress" /\ WorkOf(l) = "over"
        \/ WorkOf(l) = WorkOf(lane[s])
    BY <1>2 DEF WorkOf
  <1>6. CASE WorkOf(lane[s]) = "to come" /\ WorkOf(l) = "in progress"
    BY <1>1, <1>3, <1>4, <1>6, ContractActions
  <1>7. CASE WorkOf(lane[s]) = "in progress" /\ WorkOf(l) = "over"
    BY <1>1, <1>3, <1>4, <1>7, ContractActions
  <1>8. CASE WorkOf(l) = WorkOf(lane[s])
    BY <1>1, <1>4, <1>8, ContractActions
  <1> QED BY <1>5, <1>6, <1>7, <1>8

\* One slot of an apply.
LEMMA ApplyImplements ==
  ASSUME IInv, Apply
  PROVE  [Contract!Next]_(Contract!vars)
  <1> USE DEF IInv, slotVars, laneVars
  <1>0. index \in Services
    BY DEF Apply, Leave, CreateFails, Reapply, StartFails, Start, Applying, TypeOK
  <1>1. CASE Leave \/ CreateFails
    <2>1. service' = service /\ live' = live /\ lane' = lane
      BY <1>1 DEF Leave, CreateFails
    <2> QED BY <2>1, ContractActions DEF work
  <1>2. CASE Reapply
    <2>1. service[index]
      BY <1>0, <1>2 DEF Reapply, Marks
    <2>2. service' = service /\ live' = live /\ lane' = lane
      BY <1>0, <1>2, <2>1 DEF Reapply, Configure, TypeOK
    <2> QED BY <2>2, ContractActions DEF work
  <1>3. CASE StartFails
    <2>1. service' = [service EXCEPT ![index] = TRUE] /\ live' = live /\ lane' = lane
      BY <1>3 DEF StartFails, Configure
    <2>2. work' = work
      BY <2>1 DEF work
    <2>3. CASE ~service[index]
      BY <1>0, <2>1, <2>2, <2>3, ContractActions
    <2>4. CASE service[index]
      <3>1. service' = service
        BY <1>0, <2>1, <2>4 DEF TypeOK
      <3> QED BY <2>1, <2>2, <3>1, ContractActions
    <2> QED BY <2>3, <2>4
  <1>4. ASSUME NEW laneStarts \in BOOLEAN, Start(laneStarts)
        PROVE  [Contract!Next]_(Contract!vars)
    <2>1. /\ service' = [service EXCEPT ![index] = TRUE]
          /\ live' = [live EXCEPT ![index] = TRUE]
          /\ lane' = [lane EXCEPT ![index] = "begin"] \/ lane' = lane
          /\ ~stopPending[index] /\ ~started[index]
      BY <1>4 DEF Start, Configure
    <2>2. ~live[index] /\ lane[index] = "none"
      BY <1>0, <2>1 DEF PendingStopsAreKept, Joinable
    <2>3. work[index] = "over"
      BY <1>0, <2>2 DEF work, WorkOf
    <2>4. \E w \in {"to come", "over"} : work' = [work EXCEPT ![index] = w]
      <3>1. CASE lane' = [lane EXCEPT ![index] = "begin"]
        <4>1. WorkOf("begin") = "to come"
          BY DEF WorkOf
        <4>2. work' = [work EXCEPT ![index] = WorkOf("begin")]
          BY <1>0, <3>1, WorkStep
        <4> QED BY <4>1, <4>2
      <3>2. CASE lane' = lane
        <4>1. work' = work
          BY <3>2 DEF work
        <4>2. work = [work EXCEPT ![index] = "over"]
          BY <2>3 DEF work
        <4> QED BY <4>1, <4>2
      <3> QED BY <2>1, <3>1, <3>2
    <2> QED BY <1>0, <2>1, <2>2, <2>4, ContractActions
  <1> QED BY <1>1, <1>2, <1>3, <1>4 DEF Apply

\* One step of a stop.
LEMMA StopImplements ==
  ASSUME IInv, Stop
  PROVE  [Contract!Next]_(Contract!vars)
  <1> USE DEF IInv, slotVars, laneVars
  <1>0. index \in Services
    BY DEF Stop, StopIdle, StopSignals, StopJoins, StopTimesOut, StopFindsReturned,
           StopGivesUp, Stopping, TypeOK
  <1>1. CASE StopIdle \/ StopJoins
    <2>1. Release /\ lane[index] \in {"none", "exited"}
      BY <1>1 DEF StopIdle, StopJoins, Joinable
    <2> QED BY <1>0, <2>1, ReleaseImplements
  <1>2. CASE StopSignals \/ StopTimesOut \/ StopFindsReturned \/ StopGivesUp
    <2>1. service' = service /\ live' = live /\ lane' = lane
      BY <1>2 DEF StopSignals, StopTimesOut, StopFindsReturned, StopGivesUp
    <2> QED BY <2>1, ContractActions DEF work
  <1> QED BY <1>1, <1>2 DEF Stop

\* Each service sees only the sequences Service.h promises it, for any number
\* of services, lanes and settings.
THEOREM ContractImplemented == Spec => ImplementsContract
  <1>1. Init => Contract!Init
    BY DEF Init, Contract!Init, AllFalse
  <1>2. ASSUME IInv, [Next]_vars
        PROVE  [Contract!Next]_(Contract!vars)
    <2>1. CASE UNCHANGED vars
      <3>1. service' = service /\ live' = live /\ lane' = lane
        BY <2>1 DEF vars, slotVars, laneVars
      <3> QED BY <3>1, ContractActions DEF work
    <2>2. CASE (\E d \in Document : Reload(d)) \/ Receive
                 \/ \E o \in {"close", "shutdown"} : StopServices(o)
      <3>1. service' = service /\ live' = live /\ lane' = lane
        BY <2>2 DEF Reload, Receive, StopServices, slotVars, laneVars
      <3> QED BY <3>1, ContractActions DEF work
    <2> QED BY <1>2, <2>1, <2>2, ApplyImplements, StopImplements, LaneImplements
        DEF Next
  <1> QED BY <1>1, <1>2, Invariance, PTL DEF Spec, ImplementsContract, Contract!Spec
=============================================================================
