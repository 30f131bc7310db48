--------------------------- MODULE DataService_proofs ---------------------------
(***************************************************************************)
(* Proofs about the data service, for any clients, providers, data sets    *)
(* and slots; what needs one client only says so.  Then, for any widgets   *)
(* and slots, about the other worker that calls out of the plugin host on  *)
(* behalf of the widgets, the network service.                             *)
(***************************************************************************)
EXTENDS DataService, NetworkContract, WellFoundedInduction, TLAPS

-----------------------------------------------------------------------------
(* Facts about the constants and the operators.                            *)

\* Slots and providers are numbers, and the walk over the providers stays inside.
LEMMA Sizes ==
  /\ Slots \subseteq Nat \ {0}
  /\ 1 \in Providers /\ Count \in Providers
  /\ \A p \in Providers : p # Count => p + 1 \in Providers
  BY DataAssumption DEF Slots, Providers

\* A set of slots that is not empty has a least one.
LEMMA LeastIsIn == ASSUME NEW S \in SUBSET Slots, S # {} PROVE Least(S) \in S
  <1> DEFINE R == {ss \in Nat \X Nat : ss[1] < ss[2]}
  <1>1. S \subseteq Nat
    BY Sizes
  <1>2. IsWellFoundedOn(R, Nat)
    BY NatLessThanWellFounded, Zenon DEF OpToRel
  <1>3. \A x, y \in S : y < x => <<y, x>> \in R
    BY <1>1
  <1> HIDE DEF R
  <1>4. PICK x \in S : \A y \in S : ~ (<<y, x>> \in R)
    BY <1>1, <1>2, WFMin
  <1>5. ASSUME NEW y \in S PROVE x <= y
    <2>1. ~ (y < x)
      BY <1>3, <1>4
    <2>2. x \in Nat /\ y \in Nat
      BY <1>1
    <2> QED BY <2>1, <2>2
  <1> QED BY <1>5 DEF Least

\* What the actions do to a slot keeps it one.
LEMMA SlotUpdates ==
  /\ Free \in Slot /\ Free.owner = Nobody /\ Free.inFlight = 0
  /\ \A r \in Slot, b \in BOOLEAN :
        LET turned == [r EXCEPT !.active = b]
        IN /\ turned \in Slot
           /\ turned.owner = r.owner /\ turned.dataSet = r.dataSet
           /\ turned.inFlight = r.inFlight /\ turned.active = b
  <1>1. Free \in Slot /\ Free.owner = Nobody /\ Free.inFlight = 0
    BY DEF Free, Slot
  <1>2. ASSUME NEW r \in Slot, NEW b \in BOOLEAN
        PROVE  /\ [r EXCEPT !.active = b] \in Slot
               /\ [r EXCEPT !.active = b].owner = r.owner
               /\ [r EXCEPT !.active = b].dataSet = r.dataSet
               /\ [r EXCEPT !.active = b].inFlight = r.inFlight
               /\ [r EXCEPT !.active = b].active = b
    BY DEF Slot
  <1> QED BY <1>1, <1>2

\* A subscription as it begins.
LEMMA MadeTyped ==
  ASSUME NEW c \in Clients, NEW d \in DataSets
  PROVE  LET made == [Free EXCEPT !.owner = c, !.dataSet = d]
         IN /\ made \in Slot
            /\ made.owner = c /\ made.dataSet = d /\ made.inFlight = 0
  <1> DEFINE made == [Free EXCEPT !.owner = c, !.dataSet = d]
  <1>1. Free \in Slot /\ Free.inFlight = 0 /\ c \in Clients \cup {Nobody} /\ d \in DataSets \cup {None}
    BY SlotUpdates
  <1>2. made \in Slot
    BY <1>1 DEF Slot
  <1>3. made.owner = c /\ made.dataSet = d /\ made.inFlight = 0
    BY <1>1 DEF Slot
  <1> QED BY <1>2, <1>3

\* A call that ends gives its reservation back.
LEMMA GivenBack ==
  ASSUME NEW r \in Slot, r.inFlight = 1
  PROVE  LET back == [r EXCEPT !.inFlight = @ - 1]
         IN /\ back \in Slot
            /\ back.owner = r.owner /\ back.dataSet = r.dataSet
            /\ back.inFlight = 0 /\ back.active = r.active
  BY DEF Slot

\* A reclaim touches one source and the records of its data sets.
LEMMA ReclaimTyped ==
  ASSUME NEW p, Reclaim(p), source \subseteq Providers, marked \subseteq DataSets, due \subseteq DataSets
  PROVE  source' \subseteq Providers /\ marked' \subseteq DataSets /\ due' \subseteq DataSets
  BY DEF Reclaim, Of

-----------------------------------------------------------------------------
(* The inductive invariant.                                                *)

\* What each client has at hand where it is.
ArgShape ==
  \A c \in Clients : /\ at[c] \in {"ensure", "subscribe"} => arg[c] \in DataSets
                     /\ at[c] \in {"drain", "remove"} => arg[c] \in Slots
                     /\ at[c] = "reclaim" => arg[c] \in Providers
                     /\ at[c] = "join" => stopping

\* What is in flight is what the worker has copied and not called yet; a slot in
\* use has its data set.
BatchShape ==
  /\ \A s \in Slots : Used(s) => slots[s].dataSet \in DataSets
  /\ \A s \in Slots : slots[s].inFlight = IF s \in batch THEN 1 ELSE 0
  /\ batch # {} <=> worker = "call"
  /\ worker = "rearm" => todo = {}

IInv == /\ TypeOK
        /\ ArgShape
        /\ BatchShape
        /\ QuietAfterReturn

\* The initial state satisfies the inductive invariant.
LEMMA InitInv == Init => IInv
  <1> SUFFICES ASSUME Init PROVE IInv
    OBVIOUS
  <1>1. TypeOK
    <2>1. slots \in [Slots -> Slot] /\ place \in Providers
      BY Sizes, SlotUpdates DEF Init
    <2> QED BY <2>1 DEF Init, TypeOK, ClientStates, WorkerStates
  <1>2. ArgShape /\ QuietAfterReturn
    BY DEF Init, ArgShape, QuietAfterReturn
  <1>3. BatchShape
    BY DEF Init, BatchShape, Free, Used
  <1> QED BY <1>1, <1>2, <1>3 DEF IInv

\* Every step preserves it: one step per action.
LEMMA NextInv == IInv /\ [Next]_vars => IInv'
  <1> SUFFICES ASSUME IInv, [Next]_vars PROVE IInv'
    OBVIOUS
  <1> USE DEF IInv, TypeOK, ArgShape, BatchShape, QuietAfterReturn,
             clientVars, workerVars, Used
  <1>1. ASSUME NEW c \in Clients, NEW p \in Providers, GetDataProvider(c, p) PROVE IInv'
    <2>1. TypeOK'
      BY <1>1 DEF GetDataProvider, ClientStates, WorkerStates, Slot
    <2>2. ArgShape'
      BY <1>1 DEF GetDataProvider
    <2>3. BatchShape' /\ QuietAfterReturn'
      BY <1>1 DEF GetDataProvider, Ending
    <2> QED BY <2>1, <2>2, <2>3
  <1>2. ASSUME NEW c \in Clients, NEW p \in Providers, ReleaseProvider(c, p) PROVE IInv'
    <2>1. TypeOK'
      BY <1>2 DEF ReleaseProvider, Goes, ClientStates, WorkerStates, Slot
    <2>2. ArgShape'
      BY <1>2 DEF ReleaseProvider, Goes
    <2>3. BatchShape' /\ QuietAfterReturn'
      BY <1>2 DEF ReleaseProvider, Goes, Ending
    <2> QED BY <2>1, <2>2, <2>3
  <1>3. ASSUME NEW c \in Clients, NEW d \in DataSets, SubscribeBegin(c, d) PROVE IInv'
    <2>1. TypeOK'
      BY <1>3 DEF SubscribeBegin, Goes, ClientStates, WorkerStates, Slot
    <2>2. ArgShape'
      BY <1>3 DEF SubscribeBegin, Goes
    <2>3. BatchShape' /\ QuietAfterReturn'
      BY <1>3 DEF SubscribeBegin, Goes, Ending
    <2> QED BY <2>1, <2>2, <2>3
  <1>4. ASSUME NEW c \in Clients, NEW s \in Slots, Activate(c, s) PROVE IInv'
    <2>1. TypeOK'
      <3>1. slots' \in [Slots -> Slot]
        BY <1>4, SlotUpdates DEF Activate
      <3> QED BY <1>4, <3>1 DEF Activate, ClientStates
    <2>2. ArgShape'
      BY <1>4 DEF Activate
    <2>3. BatchShape' /\ QuietAfterReturn'
      BY <1>4 DEF Activate, Ending
    <2> QED BY <2>1, <2>2, <2>3
  <1>5. ASSUME NEW c \in Clients, NEW s \in Slots, Deactivate(c, s) PROVE IInv'
    <2>1. TypeOK'
      <3>1. slots' \in [Slots -> Slot]
        BY <1>5, SlotUpdates DEF Deactivate, Goes
      <3> QED BY <1>5, <3>1 DEF Deactivate, Goes, ClientStates
    <2>2. ArgShape'
      BY <1>5 DEF Deactivate, Goes
    <2>3. BatchShape' /\ QuietAfterReturn'
      BY <1>5 DEF Deactivate, Goes, Ending
    <2> QED BY <2>1, <2>2, <2>3
  <1>6. ASSUME NEW c \in Clients, NEW s \in Slots, Release(c, s) PROVE IInv'
    <2>1. TypeOK'
      <3>1. slots' \in [Slots -> Slot]
        BY <1>6, SlotUpdates DEF Release, Goes
      <3> QED BY <1>6, <3>1 DEF Release, Goes, ClientStates
    <2>2. ArgShape'
      BY <1>6 DEF Release, Goes
    <2>3. BatchShape' /\ QuietAfterReturn'
      BY <1>6 DEF Release, Goes, Ending
    <2> QED BY <2>1, <2>2, <2>3
  <1>7. ASSUME NEW c \in Clients, Stop(c) PROVE IInv'
    <2>1. TypeOK'
      BY <1>7 DEF Stop, Goes, ClientStates, WorkerStates, Slot
    <2>2. ArgShape'
      BY <1>7 DEF Stop, Goes
    <2>3. BatchShape' /\ QuietAfterReturn'
      BY <1>7 DEF Stop, Goes, Ending
    <2> QED BY <2>1, <2>2, <2>3
  <1>8. ASSUME NEW c \in Clients, Drained(c) PROVE IInv'
    <2>1. TypeOK'
      BY <1>8 DEF Drained, Goes, ClientStates, WorkerStates, Slot
    <2>2. ArgShape'
      BY <1>8 DEF Drained, Goes
    <2>3. BatchShape' /\ QuietAfterReturn'
      BY <1>8 DEF Drained, Goes, Ending
    <2> QED BY <2>1, <2>2, <2>3
  <1>9. ASSUME NEW c \in Clients, Removed(c) PROVE IInv'
    <2>1. TypeOK'
      BY <1>9 DEF Removed, Goes, Free, ClientStates, WorkerStates, Slot
    <2>2. ArgShape'
      BY <1>9 DEF Removed, Goes, Free
    <2>3. BatchShape' /\ QuietAfterReturn'
      BY <1>9 DEF Removed, Goes, Free, Ending
    <2> QED BY <2>1, <2>2, <2>3
  <1>10. ASSUME NEW c \in Clients, Joined(c) PROVE IInv'
    <2>1. TypeOK'
      BY <1>10 DEF Joined, Goes, Free, ClientStates, WorkerStates, Slot
    <2>2. ArgShape'
      BY <1>10 DEF Joined, Goes, Free
    <2>3. BatchShape' /\ QuietAfterReturn'
      BY <1>10 DEF Joined, Goes, Free, Ending
    <2> QED BY <2>1, <2>2, <2>3
  <1>11. ASSUME NEW c \in Clients, EnsureWorker(c) PROVE IInv'
    <2>1. TypeOK'
      BY <1>11 DEF EnsureWorker, Goes, ClientStates, WorkerStates, Slot
    <2>2. ArgShape'
      BY <1>11 DEF EnsureWorker, Goes
    <2>3. BatchShape' /\ QuietAfterReturn'
      BY <1>11 DEF EnsureWorker, Goes, Ending
    <2> QED BY <2>1, <2>2, <2>3
  <1>12. ASSUME NEW c \in Clients, EnsureWorkerFails(c) PROVE IInv'
    <2>1. TypeOK'
      BY <1>12 DEF EnsureWorkerFails, Goes, ClientStates, WorkerStates, Slot
    <2>2. ArgShape'
      BY <1>12 DEF EnsureWorkerFails, Goes
    <2>3. BatchShape' /\ QuietAfterReturn'
      BY <1>12 DEF EnsureWorkerFails, Goes, Ending
    <2> QED BY <2>1, <2>2, <2>3
  <1>13. ASSUME NEW c \in Clients, SubscribeEnd(c) PROVE IInv'
    <2> DEFINE free == {r \in Slots : ~Used(r)}
    <2> DEFINE made == [Free EXCEPT !.owner = c, !.dataSet = arg[c]]
    <2>1. arg[c] \in DataSets
      BY <1>13 DEF SubscribeEnd, Goes
    <2>2. ArgShape'
      BY <1>13 DEF SubscribeEnd, Goes
    <2>3. at' \in [Clients -> ClientStates] /\ arg' \in [Clients -> Slots \cup DataSets \cup Providers \cup {None}]
      BY <1>13 DEF SubscribeEnd, Goes, ClientStates
    <2>4. \A s \in Slots : Ending(s) => Ending(s)'
      BY <1>13 DEF SubscribeEnd, Goes, Ending
    <2>5. CASE CanSubscribe(c)
      <3>1. Least(free) \in free
        BY <2>5, LeastIsIn DEF CanSubscribe
      <3>2. slots' = [slots EXCEPT ![Least(free)] = made]
        BY <1>13, <2>5 DEF SubscribeEnd
      <3>3. /\ made \in Slot /\ made.owner = c
            /\ made.dataSet = arg[c] /\ made.inFlight = 0
        BY <2>1, MadeTyped
      <3>4. change' = TRUE /\ UNCHANGED <<lease, source, needTrim, stopping, workerVars>>
        BY <1>13, <2>5 DEF SubscribeEnd
      <3> DEFINE new == Least(free)
      <3> HIDE DEF new, made
      <3>5. new \in Slots /\ ~Used(new) /\ new \notin batch
        BY <3>1 DEF new
      <3>6. TypeOK'
        BY <2>3, <3>2, <3>3, <3>4, <3>5 DEF new
      <3>7. BatchShape' /\ QuietAfterReturn'
        BY <2>1, <2>4, <3>2, <3>3, <3>4, <3>5 DEF new
      <3> QED BY <2>2, <3>6, <3>7
    <2>6. CASE ~CanSubscribe(c)
      <3>1. UNCHANGED <<slots, change, lease, source, needTrim, stopping, workerVars>>
        BY <1>13, <2>6 DEF SubscribeEnd
      <3> QED BY <2>2, <2>3, <2>4, <3>1
    <2> QED BY <2>5, <2>6
  <1>14. ASSUME NEW c \in Clients, RequestTrim(c) PROVE IInv'
    <2>1. TypeOK'
      BY <1>14 DEF RequestTrim, Goes, ClientStates, WorkerStates, Slot
    <2>2. ArgShape'
      BY <1>14 DEF RequestTrim, Goes
    <2>3. BatchShape' /\ QuietAfterReturn'
      BY <1>14 DEF RequestTrim, Goes, Ending
    <2> QED BY <2>1, <2>2, <2>3
  <1>15. ASSUME NEW c \in Clients, TrimHere(c) PROVE IInv'
    <2>1. TypeOK'
      BY <1>15, Sizes DEF TrimHere, Goes, TrimsHere, ClientStates, WorkerStates, Slot
    <2>2. ArgShape'
      BY <1>15, Sizes DEF TrimHere, Goes, TrimsHere
    <2>3. BatchShape' /\ QuietAfterReturn'
      BY <1>15, Sizes DEF TrimHere, Goes, TrimsHere, Ending
    <2> QED BY <2>1, <2>2, <2>3
  <1>16. ASSUME NEW c \in Clients, ReclaimHere(c) PROVE IInv'
    <2>1. TypeOK'
      BY <1>16, Sizes, ReclaimTyped DEF ReclaimHere, Goes, ClientStates, WorkerStates, Slot
    <2>2. ArgShape'
      BY <1>16, Sizes, ReclaimTyped DEF ReclaimHere, Goes
    <2>3. BatchShape' /\ QuietAfterReturn'
      BY <1>16, Sizes, ReclaimTyped DEF ReclaimHere, Goes, Ending
    <2> QED BY <2>1, <2>2, <2>3
  <1>17. ASSUME Mark PROVE IInv'
    <2>1. TypeOK'
      <3>1. Wanted \subseteq DataSets
        BY DEF Wanted
      <3> QED BY <1>17, <3>1, Sizes DEF Mark, WorkerGoes, WorkerStates
    <2>2. ArgShape'
      BY <1>17, Sizes DEF Mark, WorkerGoes
    <2>3. BatchShape' /\ QuietAfterReturn'
      BY <1>17, Sizes DEF Mark, WorkerGoes, Ending
    <2> QED BY <2>1, <2>2, <2>3
  <1>18. ASSUME Due PROVE IInv'
    <2>1. TypeOK'
      <3>1. due' \subseteq DataSets /\ taken' \subseteq DataSets /\ todo' \subseteq taken'
        BY <1>18 DEF Due, Of
      <3>2. worker' \in WorkerStates /\ place' \in Providers
        BY <1>18, Sizes DEF Due, NextPlace, WorkerStates
      <3>3. UNCHANGED <<clientVars, source, slots, needTrim, change, stopping, marked, batch>>
        BY <1>18 DEF Due
      <3> QED BY <3>1, <3>2, <3>3
    <2>2. ArgShape'
      BY <1>18, Sizes DEF Due, NextPlace
    <2>3. BatchShape' /\ QuietAfterReturn'
      BY <1>18, Sizes DEF Due, NextPlace, Ending
    <2> QED BY <2>1, <2>2, <2>3
  <1>19. ASSUME Collect PROVE IInv'
    <2>1. TypeOK'
      BY <1>19 DEF Collect, ClientStates, WorkerStates, Slot
    <2>2. ArgShape'
      BY <1>19 DEF Collect
    <2>3. BatchShape' /\ QuietAfterReturn'
      BY <1>19 DEF Collect, Ending
    <2> QED BY <2>1, <2>2, <2>3
  <1>20. ASSUME Reserve PROVE IInv'
    <2>1. TypeOK'
      BY <1>20 DEF Reserve, ClientStates, WorkerStates, Slot
    <2>2. ArgShape'
      BY <1>20 DEF Reserve
    <2>3. BatchShape' /\ QuietAfterReturn'
      BY <1>20 DEF Reserve, Ending
    <2> QED BY <2>1, <2>2, <2>3
  <1>21. ASSUME CallEnds PROVE IInv'
    <2> DEFINE last == Least(batch)
    <2>1. last \in batch /\ last \in Slots
      BY <1>21, LeastIsIn DEF CallEnds
    <2>2. /\ batch' = batch \ {last}
          /\ slots' = [slots EXCEPT ![last].inFlight = @ - 1]
          /\ worker' = IF batch' # {} THEN "call" ELSE IF todo # {} THEN "deliver" ELSE "rearm"
          /\ UNCHANGED <<clientVars, source, needTrim, change, stopping, place, marked, due, taken, todo>>
      BY <1>21 DEF CallEnds
    <2> HIDE DEF last
    <2>3. slots[last] \in Slot /\ slots[last].inFlight = 1
      BY <2>1
    <2>4. /\ slots' \in [Slots -> Slot]
          /\ \A s \in Slots : /\ slots'[s].owner = slots[s].owner
                              /\ slots'[s].dataSet = slots[s].dataSet
                              /\ slots'[s].active = slots[s].active
                              /\ slots'[s].inFlight = IF s = last THEN 0 ELSE slots[s].inFlight
      BY <2>1, <2>2, <2>3, GivenBack
    <2>5. worker' \in WorkerStates
      BY <2>2 DEF WorkerStates
    <2>6. TypeOK'
      BY <2>2, <2>4, <2>5
    <2>7. BatchShape' /\ QuietAfterReturn'
      BY <2>1, <2>2, <2>4 DEF Ending
    <2> QED BY <2>2, <2>6, <2>7
  <1>22. ASSUME Rearm PROVE IInv'
    <2>1. TypeOK'
      BY <1>22, Sizes DEF Rearm, NextPlace, ClientStates, WorkerStates, Slot
    <2>2. ArgShape'
      BY <1>22, Sizes DEF Rearm, NextPlace
    <2>3. BatchShape' /\ QuietAfterReturn'
      BY <1>22, Sizes DEF Rearm, NextPlace, Ending
    <2> QED BY <2>1, <2>2, <2>3
  <1>23. ASSUME Trim PROVE IInv'
    <2>1. TypeOK'
      BY <1>23 DEF Trim, WorkerGoes, ClientStates, WorkerStates, Slot
    <2>2. ArgShape'
      BY <1>23 DEF Trim, WorkerGoes
    <2>3. BatchShape' /\ QuietAfterReturn'
      BY <1>23 DEF Trim, WorkerGoes, Ending
    <2> QED BY <2>1, <2>2, <2>3
  <1>24. ASSUME ReclaimNext PROVE IInv'
    <2>1. TypeOK'
      BY <1>24, Sizes, ReclaimTyped DEF ReclaimNext, WorkerGoes, ClientStates, WorkerStates, Slot
    <2>2. ArgShape'
      BY <1>24, Sizes, ReclaimTyped DEF ReclaimNext, WorkerGoes
    <2>3. BatchShape' /\ QuietAfterReturn'
      BY <1>24, Sizes, ReclaimTyped DEF ReclaimNext, WorkerGoes, Ending
    <2> QED BY <2>1, <2>2, <2>3
  <1>25. ASSUME WakeToStop PROVE IInv'
    <2>1. TypeOK'
      BY <1>25 DEF WakeToStop, WorkerGoes, ClientStates, WorkerStates, Slot
    <2>2. ArgShape'
      BY <1>25 DEF WakeToStop, WorkerGoes
    <2>3. BatchShape' /\ QuietAfterReturn'
      BY <1>25 DEF WakeToStop, WorkerGoes, Ending
    <2> QED BY <2>1, <2>2, <2>3
  <1>26. ASSUME WakeToChange PROVE IInv'
    <2>1. TypeOK'
      BY <1>26 DEF WakeToChange, WorkerGoes, ClientStates, WorkerStates, Slot
    <2>2. ArgShape'
      BY <1>26 DEF WakeToChange, WorkerGoes
    <2>3. BatchShape' /\ QuietAfterReturn'
      BY <1>26 DEF WakeToChange, WorkerGoes, Ending
    <2> QED BY <2>1, <2>2, <2>3
  <1>27. ASSUME Changed PROVE IInv'
    <2>1. TypeOK'
      BY <1>27 DEF Changed, WorkerGoes, ClientStates, WorkerStates, Slot
    <2>2. ArgShape'
      BY <1>27 DEF Changed, WorkerGoes
    <2>3. BatchShape' /\ QuietAfterReturn'
      BY <1>27 DEF Changed, WorkerGoes, Ending
    <2> QED BY <2>1, <2>2, <2>3
  <1>28. ASSUME WakeToCollect PROVE IInv'
    <2>1. TypeOK'
      BY <1>28 DEF WakeToCollect, WorkerGoes, ClientStates, WorkerStates, Slot
    <2>2. ArgShape'
      BY <1>28 DEF WakeToCollect, WorkerGoes
    <2>3. BatchShape' /\ QuietAfterReturn'
      BY <1>28 DEF WakeToCollect, WorkerGoes, Ending
    <2> QED BY <2>1, <2>2, <2>3
  <1>29. ASSUME NEW d \in DataSets, Elapse(d) PROVE IInv'
    <2>1. TypeOK'
      BY <1>29 DEF Elapse, ClientStates, WorkerStates, Slot
    <2>2. ArgShape'
      BY <1>29 DEF Elapse
    <2>3. BatchShape' /\ QuietAfterReturn'
      BY <1>29 DEF Elapse, Ending
    <2> QED BY <2>1, <2>2, <2>3
  <1>30. CASE UNCHANGED vars
    BY <1>30 DEF vars, Ending
  <1> QED
    BY <1>1, <1>2, <1>3, <1>4, <1>5, <1>6, <1>7, <1>8, <1>9, <1>10, <1>11, <1>12, <1>13,
       <1>14, <1>15, <1>16, <1>17, <1>18, <1>19, <1>20, <1>21, <1>22, <1>23, <1>24, <1>25,
       <1>26, <1>27, <1>28, <1>29, <1>30
       DEF Next, Calling, Waiting, Continuing, Worker

\* The invariant holds throughout.
LEMMA Invariance == Spec => []IInv
  BY InitInv, NextInv, PTL DEF Spec

\* Types, and no slot ever has more than one call in flight.
THEOREM TypeCorrect == Spec => []TypeOK
  <1>1. IInv => TypeOK
    BY DEF IInv
  <1> QED BY <1>1, Invariance, PTL

\* SetActive(FALSE) and a release return only when the sink is out of reach.
THEOREM ReleasedIsQuiet == Spec => []QuietAfterReturn
  <1>1. IInv => QuietAfterReturn
    BY DEF IInv
  <1> QED BY <1>1, Invariance, PTL

-----------------------------------------------------------------------------
(* Sources, when the clients are one thread.                               *)

OnlyOne == \A b, c \in Clients : b = c

\* A client that reclaims does so without a worker.
KeptInv == /\ SourceIsKept
           /\ \A c \in Clients : at[c] = "reclaim" => worker = "none"

\* Every step keeps the sources that are leased or in use.
LEMMA NextKept == ASSUME OnlyOne, IInv, KeptInv, [Next]_vars PROVE KeptInv'
  <1> USE DEF IInv, TypeOK, ArgShape, BatchShape, KeptInv, SourceIsKept, OnlyOne,
              clientVars, workerVars, Used
  <1>1. ASSUME NEW c \in Clients, NEW p \in Providers, GetDataProvider(c, p) PROVE KeptInv'
    BY <1>1 DEF GetDataProvider
  <1>2. ASSUME NEW c \in Clients, NEW p \in Providers, ReleaseProvider(c, p) PROVE KeptInv'
    BY <1>2 DEF ReleaseProvider, Goes
  <1>3. ASSUME NEW c \in Clients, NEW d \in DataSets, SubscribeBegin(c, d) PROVE KeptInv'
    BY <1>3 DEF SubscribeBegin, Goes
  <1>4. ASSUME NEW c \in Clients, NEW s \in Slots, Activate(c, s) PROVE KeptInv'
    BY <1>4 DEF Activate
  <1>5. ASSUME NEW c \in Clients, NEW s \in Slots, Deactivate(c, s) PROVE KeptInv'
    BY <1>5 DEF Deactivate, Goes
  <1>6. ASSUME NEW c \in Clients, NEW s \in Slots, Release(c, s) PROVE KeptInv'
    BY <1>6 DEF Release, Goes
  <1>7. ASSUME NEW c \in Clients, Stop(c) PROVE KeptInv'
    BY <1>7 DEF Stop, Goes
  <1>8. ASSUME NEW c \in Clients, Drained(c) PROVE KeptInv'
    BY <1>8 DEF Drained, Goes
  <1>9. ASSUME NEW c \in Clients, Removed(c) PROVE KeptInv'
    BY <1>9, SlotUpdates DEF Removed, Goes
  <1>10. ASSUME NEW c \in Clients, Joined(c) PROVE KeptInv'
    BY <1>10, SlotUpdates DEF Joined, Goes
  <1>11. ASSUME NEW c \in Clients, EnsureWorker(c) PROVE KeptInv'
    BY <1>11 DEF EnsureWorker, Goes
  <1>12. ASSUME NEW c \in Clients, EnsureWorkerFails(c) PROVE KeptInv'
    BY <1>12 DEF EnsureWorkerFails, Goes
  <1>13. ASSUME NEW c \in Clients, SubscribeEnd(c) PROVE KeptInv'
    <2> DEFINE made == [Free EXCEPT !.owner = c, !.dataSet = arg[c]]
    <2> DEFINE new == Least({r \in Slots : ~Used(r)})
    <2>1. arg[c] \in DataSets /\ \A b \in Clients : at'[b] = "reclaim" => at[b] = "reclaim"
      BY <1>13 DEF SubscribeEnd, Goes
    <2>2. UNCHANGED <<lease, source, stopping, workerVars>>
      BY <1>13 DEF SubscribeEnd
    <2>3. CASE CanSubscribe(c)
      <3>1. slots' = [slots EXCEPT ![new] = made] /\ ProviderOf[arg[c]] \in source
        BY <1>13, <2>3 DEF SubscribeEnd, CanSubscribe
      <3>2. new \in Slots
        BY <2>3, LeastIsIn DEF CanSubscribe
      <3>3. made.dataSet = arg[c]
        BY <2>1, MadeTyped
      <3> HIDE DEF new, made
      <3> QED BY <2>1, <2>2, <3>1, <3>2, <3>3
    <2>4. CASE ~CanSubscribe(c)
      <3>1. UNCHANGED slots
        BY <1>13, <2>4 DEF SubscribeEnd
      <3> QED BY <2>1, <2>2, <3>1
    <2> QED BY <2>3, <2>4
  <1>14. ASSUME NEW c \in Clients, RequestTrim(c) PROVE KeptInv'
    BY <1>14 DEF RequestTrim, Goes
  <1>15. ASSUME NEW c \in Clients, TrimHere(c) PROVE KeptInv'
    BY <1>15 DEF TrimHere, Goes, TrimsHere
  <1>16. ASSUME NEW c \in Clients, ReclaimHere(c) PROVE KeptInv'
    BY <1>16 DEF ReclaimHere, Goes, Reclaim, Unleased
  <1>17. ASSUME Mark PROVE KeptInv'
    BY <1>17 DEF Mark, WorkerGoes
  <1>18. ASSUME Due PROVE KeptInv'
    BY <1>18 DEF Due, NextPlace, Of
  <1>19. ASSUME Collect PROVE KeptInv'
    BY <1>19 DEF Collect
  <1>20. ASSUME Reserve PROVE KeptInv'
    BY <1>20 DEF Reserve
  <1>21. ASSUME CallEnds PROVE KeptInv'
    BY <1>21 DEF CallEnds
  <1>22. ASSUME Rearm PROVE KeptInv'
    BY <1>22 DEF Rearm, NextPlace
  <1>23. ASSUME Trim PROVE KeptInv'
    BY <1>23 DEF Trim, WorkerGoes
  <1>24. ASSUME ReclaimNext PROVE KeptInv'
    BY <1>24 DEF ReclaimNext, WorkerGoes, Reclaim, Unleased
  <1>25. ASSUME WakeToStop PROVE KeptInv'
    BY <1>25 DEF WakeToStop, WorkerGoes
  <1>26. ASSUME WakeToChange PROVE KeptInv'
    BY <1>26 DEF WakeToChange, WorkerGoes
  <1>27. ASSUME Changed PROVE KeptInv'
    BY <1>27 DEF Changed, WorkerGoes
  <1>28. ASSUME WakeToCollect PROVE KeptInv'
    BY <1>28 DEF WakeToCollect, WorkerGoes
  <1>29. ASSUME NEW d \in DataSets, Elapse(d) PROVE KeptInv'
    BY <1>29 DEF Elapse
  <1>30. CASE UNCHANGED vars
    BY <1>30 DEF vars
  <1> QED
    BY <1>1, <1>2, <1>3, <1>4, <1>5, <1>6, <1>7, <1>8, <1>9, <1>10, <1>11, <1>12, <1>13,
       <1>14, <1>15, <1>16, <1>17, <1>18, <1>19, <1>20, <1>21, <1>22, <1>23, <1>24, <1>25,
       <1>26, <1>27, <1>28, <1>29, <1>30
       DEF Next, Calling, Waiting, Continuing, Worker

\* With one client, a leased source stays, and so do the records the worker is
\* about to write into.
THEOREM SourceKept == ASSUME OnlyOne PROVE Spec => []SourceIsKept
  <1>1. Init => KeptInv
    BY DEF Init, KeptInv, SourceIsKept, Used, Free
  <1>2. IInv /\ KeptInv /\ [Next]_vars => KeptInv'
    BY NextKept
  <1>3. KeptInv => SourceIsKept
    BY DEF KeptInv
  <1> QED BY <1>1, <1>2, <1>3, Invariance, PTL DEF Spec

-----------------------------------------------------------------------------
(* No activation is overlooked and no source forgotten: what ActiveIs-     *)
(* Collected and UnleasedIsReclaimed rest on, whatever the number of       *)
(* clients.                                                                *)

\* Until the service stops there is a worker before there is a subscription.
WorkerServes ==
  ~stopping => /\ worker # "exited"
               /\ worker = "none" => /\ \A s \in Slots : ~Used(s)
                                     /\ \A c \in Clients : at[c] # "subscribe"

SeenInv == ActivationIsSeen /\ WorkerServes

\* A client's step that leaves the worker's part alone, takes no subscription
\* further and makes no slot busier keeps the invariant.
LEMMA SeenSame ==
  ASSUME SeenInv, UNCHANGED <<stopping, worker, marked>>, change => change',
         \A s \in Slots : Used(s)' => /\ Used(s) /\ slots'[s].dataSet = slots[s].dataSet
                                      /\ slots'[s].active => slots[s].active \/ change',
         \A c \in Clients : at'[c] = "subscribe" => at[c] = "subscribe"
  PROVE  SeenInv'
  BY DEF SeenInv, ActivationIsSeen, WorkerServes

\* A reclaim takes out of the pass only what nobody subscribes to.
LEMMA ReclaimSeen ==
  ASSUME NEW p, Reclaim(p), UNCHANGED slots, NEW s \in Slots, Used(s), slots[s].dataSet \in marked
  PROVE  slots[s].dataSet \in marked'
  BY DEF Reclaim, Unleased, Of, Used

\* What the worker does with the slots in use or in the middle of its pass.
LEMMA WorkerSeen == ASSUME IInv, SeenInv, Worker PROVE SeenInv'
  <1> USE DEF SeenInv, ActivationIsSeen, WorkerServes, clientVars, Used
  <1>1. CASE Mark
    BY <1>1 DEF Mark, WorkerGoes, Wanted
  <1>2. CASE Due
    BY <1>2 DEF Due, NextPlace
  <1>3. CASE Collect
    BY <1>3 DEF Collect
  <1>4. CASE Reserve
    <2>1. \A s \in Slots : /\ slots'[s].owner = slots[s].owner
                           /\ slots'[s].dataSet = slots[s].dataSet
                           /\ slots'[s].active = slots[s].active
      BY <1>4 DEF Reserve, IInv, TypeOK, Slot
    <2> QED BY <1>4, <2>1 DEF Reserve
  <1>5. CASE CallEnds
    <2>1. \A s \in Slots : /\ slots'[s].owner = slots[s].owner
                           /\ slots'[s].dataSet = slots[s].dataSet
                           /\ slots'[s].active = slots[s].active
      BY <1>5 DEF CallEnds, IInv, TypeOK, Slot
    <2> QED BY <1>5, <2>1 DEF CallEnds
  <1>6. CASE Rearm
    BY <1>6 DEF Rearm, NextPlace
  <1>7. CASE Trim
    BY <1>7 DEF Trim, WorkerGoes
  <1>8. CASE ReclaimNext
    BY <1>8, ReclaimSeen DEF ReclaimNext, WorkerGoes
  <1>9. CASE WakeToStop \/ WakeToChange \/ Changed \/ WakeToCollect
    BY <1>9 DEF WakeToStop, WakeToChange, Changed, WakeToCollect, WorkerGoes
  <1> QED BY <1>1, <1>2, <1>3, <1>4, <1>5, <1>6, <1>7, <1>8, <1>9 DEF Worker

\* Every step keeps every activation in sight.
LEMMA NextSeen == ASSUME IInv, SeenInv, [Next]_vars PROVE SeenInv'
  <1> USE DEF clientVars, workerVars
  <1>1. ASSUME NEW c \in Clients,
               \/ \E p \in Providers : GetDataProvider(c, p) \/ ReleaseProvider(c, p)
               \/ \E d \in DataSets : SubscribeBegin(c, d)
               \/ Drained(c) \/ EnsureWorkerFails(c) \/ RequestTrim(c) \/ TrimHere(c)
        PROVE  SeenInv'
    <2>1. /\ UNCHANGED <<slots, stopping, worker, marked>>
          /\ change => change'
          /\ \A b \in Clients : at'[b] = "subscribe" => at[b] = "subscribe"
      BY <1>1 DEF GetDataProvider, ReleaseProvider, SubscribeBegin, Drained, EnsureWorkerFails,
         RequestTrim, TrimHere, TrimsHere, Goes, IInv, TypeOK
    <2> QED BY <2>1, SeenSame DEF Used
  <1>2. ASSUME NEW c \in Clients, NEW s \in Slots, Activate(c, s) \/ Deactivate(c, s) \/ Release(c, s)
        PROVE  SeenInv'
    <2>1. /\ UNCHANGED <<stopping, worker, marked>>
          /\ change => change'
          /\ \A b \in Clients : at'[b] = "subscribe" => at[b] = "subscribe"
      BY <1>2 DEF Activate, Deactivate, Release, Goes, IInv, TypeOK
    <2>2. \A r \in Slots : /\ slots'[r].owner = slots[r].owner
                           /\ slots'[r].dataSet = slots[r].dataSet
                           /\ slots'[r].active => slots[r].active \/ change'
      BY <1>2 DEF Activate, Deactivate, Release, IInv, TypeOK, Slot
    <2> QED BY <2>1, <2>2, SeenSame DEF Used
  <1>3. ASSUME NEW c \in Clients, Removed(c) PROVE SeenInv'
    <2>1. /\ UNCHANGED <<stopping, worker, marked, change>>
          /\ \A b \in Clients : at'[b] = "subscribe" => at[b] = "subscribe"
      BY <1>3 DEF Removed, Goes, IInv, TypeOK
    <2>2. \A r \in Slots : slots'[r] = slots[r] \/ slots'[r] = Free
      BY <1>3 DEF Removed, IInv, TypeOK
    <2> QED BY <2>1, <2>2, SeenSame, SlotUpdates DEF Used
  <1>4. ASSUME NEW c \in Clients, Stop(c) \/ Joined(c) PROVE SeenInv'
    <2>1. stopping'
      BY <1>4 DEF Stop, Joined, Goes, IInv, ArgShape
    <2> QED BY <2>1 DEF SeenInv, ActivationIsSeen, WorkerServes
  <1>5. ASSUME NEW c \in Clients, EnsureWorker(c) PROVE SeenInv'
    <2>1. CASE stopping
      BY <1>5, <2>1 DEF EnsureWorker, SeenInv, ActivationIsSeen, WorkerServes
    <2>2. CASE ~stopping
      <3>1. UNCHANGED <<slots, stopping, marked>> /\ worker' \notin {"none", "exited"}
        BY <1>5, <2>2 DEF EnsureWorker, SeenInv, WorkerServes
      <3>2. \/ worker = "none" /\ worker' = "mark"
            \/ UNCHANGED <<worker, change>>
        BY <1>5 DEF EnsureWorker
      <3> QED BY <2>2, <3>1, <3>2 DEF SeenInv, ActivationIsSeen, WorkerServes, Used
    <2> QED BY <2>1, <2>2
  <1>6. ASSUME NEW c \in Clients, SubscribeEnd(c) PROVE SeenInv'
    <2>1. /\ UNCHANGED <<stopping, worker, marked>>
          /\ \A b \in Clients : at'[b] = "subscribe" => at[b] = "subscribe"
          /\ at[c] = "subscribe"
      BY <1>6 DEF SubscribeEnd, Goes, IInv, TypeOK
    <2>2. CASE CanSubscribe(c)
      <3>1. change' /\ ~stopping /\ worker # "none"
        BY <1>6, <2>1, <2>2 DEF SubscribeEnd, CanSubscribe, SeenInv, WorkerServes
      <3> QED BY <2>1, <3>1 DEF SeenInv, ActivationIsSeen, WorkerServes
    <2>3. CASE ~CanSubscribe(c)
      BY <1>6, <2>1, <2>3, SeenSame DEF SubscribeEnd, Used
    <2> QED BY <2>2, <2>3
  <1>7. ASSUME NEW c \in Clients, ReclaimHere(c) PROVE SeenInv'
    <2>1. /\ UNCHANGED <<stopping, worker, slots, change>>
          /\ \A b \in Clients : at'[b] = "subscribe" => at[b] = "subscribe"
          /\ Reclaim(arg[c])
      BY <1>7 DEF ReclaimHere, Goes, IInv, TypeOK
    <2> QED BY <2>1, ReclaimSeen DEF SeenInv, ActivationIsSeen, WorkerServes, Used
  <1>8. ASSUME NEW d \in DataSets, Elapse(d) PROVE SeenInv'
    BY <1>8, SeenSame DEF Elapse, Used
  <1>9. CASE UNCHANGED vars
    BY <1>9, SeenSame DEF vars, Used
  <1> QED
    BY <1>1, <1>2, <1>3, <1>4, <1>5, <1>6, <1>7, <1>8, <1>9, WorkerSeen
       DEF Next, Calling, Waiting, Continuing

\* SetActive(TRUE) is never overlooked: the worker has the data set in its pass
\* or begins another before it sleeps (SetSubscriptionActive and _changeEvent against PluginHost::Worker).
THEOREM NoActivationLost == Spec => []ActivationIsSeen
  <1>1. Init => SeenInv
    BY DEF Init, SeenInv, ActivationIsSeen, WorkerServes, Used, Free
  <1>2. IInv /\ SeenInv /\ [Next]_vars => SeenInv'
    BY NextSeen
  <1>3. SeenInv => ActivationIsSeen
    BY DEF SeenInv
  <1> QED BY <1>1, <1>2, <1>3, Invariance, PTL DEF Spec

\* The worker asks for the order before it starts its walk at the first source.
RememberedInv == UnleasedIsRemembered /\ (worker = "trim" => place = 1)

\* Who is on the way stays on the way while the worker and the clients that
\* trim do not move and no order is taken back.
LEMMA ComingSame ==
  ASSUME UNCHANGED <<worker, place>>, needTrim => needTrim', change => change',
         \A c \in Clients : at[c] \in {"request", "trim", "reclaim"} => at'[c] = at[c] /\ arg'[c] = arg[c],
         NEW p, TrimIsComing(p)
  PROVE  TrimIsComing(p)'
  BY DEF TrimIsComing

\* A step that frees no source and loses nobody on the way keeps the invariant.
LEMMA RememberedSame ==
  ASSUME UnleasedIsRemembered, stopping' = stopping,
         \A p \in source' : Unleased(p)' => \/ TrimIsComing(p)'
                                            \/ /\ p \in source /\ Unleased(p)
                                               /\ TrimIsComing(p) => TrimIsComing(p)'
  PROVE  UnleasedIsRemembered'
  BY DEF UnleasedIsRemembered

\* Whether a source is leased depends on the facades and on whose the slots are.
LEMMA UnleasedSame ==
  ASSUME lease' = lease,
         \A s \in Slots : Used(s) => Used(s)' /\ slots'[s].dataSet = slots[s].dataSet,
         NEW p, Unleased(p)'
  PROVE  Unleased(p)
  BY DEF Unleased

\* After a reclaim the source is gone or leased.
LEMMA ReclaimDone ==
  ASSUME NEW p, Reclaim(p), UNCHANGED <<lease, slots>>
  PROVE  /\ source' \subseteq source
         /\ p \in source' => ~Unleased(p)
         /\ \A q : Unleased(q)' <=> Unleased(q)
  BY DEF Reclaim, Unleased, Used

\* The worker's steps: it takes the order at the end of its pass and walks all
\* the sources with it.
LEMMA WorkerRemembers == ASSUME IInv, RememberedInv, Worker PROVE RememberedInv'
  <1> USE DEF RememberedInv, IInv, TypeOK
  <1>1. ASSUME UNCHANGED <<clientVars, source, stopping>>,
               \A s \in Slots : Used(s) => Used(s)' /\ slots'[s].dataSet = slots[s].dataSet,
               \A p \in source : ~stopping /\ TrimIsComing(p) => TrimIsComing(p)'
        PROVE  UnleasedIsRemembered'
    <2>1. ASSUME NEW p \in source', Unleased(p)', ~stopping
          PROVE  TrimIsComing(p)'
      <3>1. Unleased(p)
        BY <1>1, <2>1, UnleasedSame DEF clientVars
      <3> QED BY <1>1, <2>1, <3>1 DEF UnleasedIsRemembered
    <2> QED BY <1>1, <2>1 DEF UnleasedIsRemembered
  <1>2. ASSUME \/ Mark \/ Due \/ Collect \/ Rearm \/ Changed \/ WakeToCollect \/ WakeToChange
        PROVE  RememberedInv'
    <2>1. /\ UNCHANGED <<clientVars, source, stopping, slots, needTrim>>
          /\ worker \notin {"none", "reclaim", "exited"}
          /\ worker' \notin {"none", "reclaim", "wait", "exited"}
          /\ worker' = "trim" => place' = 1
      BY <1>2 DEF Mark, Due, Collect, Rearm, Changed, WakeToCollect, WakeToChange, WorkerGoes, NextPlace
    <2>2. \A p \in source : TrimIsComing(p) => TrimIsComing(p)'
      BY <2>1 DEF TrimIsComing, clientVars
    <2> QED BY <1>1, <2>1, <2>2 DEF Used
  <1>3. ASSUME Reserve \/ CallEnds PROVE RememberedInv'
    <2>1. /\ UNCHANGED <<clientVars, source, stopping, needTrim, change, place>>
          /\ worker \in {"deliver", "call"} /\ worker' \in {"deliver", "call", "rearm"}
          /\ \A s \in Slots : /\ slots'[s].owner = slots[s].owner
                              /\ slots'[s].dataSet = slots[s].dataSet
      BY <1>3 DEF Reserve, CallEnds, Slot
    <2>2. \A p \in source : TrimIsComing(p) => TrimIsComing(p)'
      BY <2>1 DEF TrimIsComing, clientVars
    <2> QED BY <1>1, <2>1, <2>2 DEF Used
  <1>4. CASE Trim
    <2>1. /\ UNCHANGED <<clientVars, source, stopping, slots, change, place>>
          /\ worker = "trim" /\ place = 1
          /\ ~stopping => \/ needTrim /\ worker' = "reclaim"
                          \/ ~needTrim /\ worker' = "wait"
          /\ worker' # "trim"
      BY <1>4 DEF Trim, WorkerGoes
    <2>2. \A p \in source : p >= 1
      BY DEF Providers
    <2>3. \A p \in source : ~stopping /\ TrimIsComing(p) => TrimIsComing(p)'
      BY <2>1, <2>2 DEF TrimIsComing, clientVars
    <2> QED BY <1>1, <2>1, <2>3 DEF Used
  <1>5. CASE ReclaimNext
    <2>1. /\ UNCHANGED <<clientVars, stopping, slots, needTrim, change>>
          /\ Reclaim(place)
          /\ worker = "reclaim"
          /\ \/ place = Count /\ worker' = "wait"
             \/ place # Count /\ worker' = "reclaim" /\ place' = place + 1
      BY <1>5 DEF ReclaimNext, WorkerGoes
    <2>2. source' \subseteq source /\ (place \in source' => ~Unleased(place))
          /\ \A q : Unleased(q)' <=> Unleased(q)
      BY <2>1, ReclaimDone DEF clientVars
    <2>3. ASSUME NEW p \in source', p # place, TrimIsComing(p) PROVE TrimIsComing(p)'
      <3>1. p \in Nat /\ place \in Nat /\ p <= Count
        BY <2>2, <2>3 DEF Providers
      <3>2. place <= p => worker' = "reclaim" /\ place' <= p
        BY <2>1, <2>3, <3>1, DataAssumption
      <3> QED BY <2>1, <2>3, <3>2 DEF TrimIsComing, clientVars
    <2>4. UnleasedIsRemembered'
      BY <2>1, <2>2, <2>3, RememberedSame
    <2> QED BY <2>1, <2>4
  <1>6. CASE WakeToStop
    BY <1>6 DEF WakeToStop, WorkerGoes, UnleasedIsRemembered
  <1> QED BY <1>2, <1>3, <1>4, <1>5, <1>6 DEF Worker

\* Every step remembers every source nobody leases.
LEMMA NextRemembered == ASSUME IInv, RememberedInv, [Next]_vars PROVE RememberedInv'
  <1> USE DEF RememberedInv, IInv, TypeOK
  <1>1. ASSUME NEW c \in Clients, NEW p \in Providers, GetDataProvider(c, p) PROVE RememberedInv'
    <2>1. UNCHANGED <<at, arg, slots, needTrim, change, stopping, worker, place>>
          /\ lease' = [lease EXCEPT ![c] = @ \cup {p}] /\ source' = source \cup {p}
      BY <1>1 DEF GetDataProvider, workerVars
    <2>2. ~Unleased(p)' /\ \A q \in Providers : Unleased(q)' => Unleased(q)
      BY <2>1 DEF Unleased, Used
    <2>3. \A q \in Providers : TrimIsComing(q) => TrimIsComing(q)'
      BY <2>1, ComingSame
    <2>4. UnleasedIsRemembered'
      BY <2>1, <2>2, <2>3, RememberedSame
    <2> QED BY <2>1, <2>4
  <1>2. ASSUME NEW c \in Clients, NEW p \in Providers, ReleaseProvider(c, p) PROVE RememberedInv'
    <2>1. /\ UNCHANGED <<source, slots, needTrim, change, stopping, worker, place>>
          /\ lease' = [lease EXCEPT ![c] = @ \ {p}]
          /\ at[c] = "idle"
          /\ at' = [at EXCEPT ![c] = IF \E b \in Clients \ {c} : p \in lease[b] THEN "idle" ELSE "request"]
          /\ \A b \in Clients : b # c => at'[b] = at[b] /\ arg'[b] = arg[b]
      BY <1>2 DEF ReleaseProvider, Goes, workerVars
    <2>2. \A q \in Providers : TrimIsComing(q) => TrimIsComing(q)'
      BY <2>1, ComingSame
    <2>3. CASE at'[c] = "request"
      BY <2>1, <2>3 DEF UnleasedIsRemembered, TrimIsComing
    <2>4. CASE at'[c] # "request"
      <3>1. ~Unleased(p)' /\ \A q \in Providers : Unleased(q)' => Unleased(q)
        BY <2>1, <2>4 DEF Unleased, Used
      <3>2. UnleasedIsRemembered'
        BY <2>1, <2>2, <3>1, RememberedSame
      <3> QED BY <2>1, <3>2
    <2> QED BY <2>3, <2>4
  <1>3. ASSUME NEW c \in Clients,
               \/ \E d \in DataSets : SubscribeBegin(c, d)
               \/ Drained(c) \/ EnsureWorkerFails(c)
               \/ \E s \in Slots : Activate(c, s) \/ Deactivate(c, s) \/ Release(c, s)
        PROVE  RememberedInv'
    <2>1. /\ UNCHANGED <<lease, source, needTrim, stopping, worker, place>>
          /\ change => change'
          /\ \A b \in Clients : at[b] \in {"request", "trim", "reclaim"} => at'[b] = at[b] /\ arg'[b] = arg[b]
      BY <1>3 DEF SubscribeBegin, Drained, EnsureWorkerFails, Activate, Deactivate, Release, Goes,
         clientVars, workerVars
    <2>2. \A s \in Slots : slots'[s].owner = slots[s].owner /\ slots'[s].dataSet = slots[s].dataSet
      BY <1>3 DEF SubscribeBegin, Drained, EnsureWorkerFails, Activate, Deactivate, Release, Slot
    <2>3. \A q \in Providers : /\ TrimIsComing(q) => TrimIsComing(q)'
                               /\ Unleased(q)' => Unleased(q)
      BY <2>1, <2>2, ComingSame, UnleasedSame DEF Used
    <2>4. UnleasedIsRemembered'
      BY <2>1, <2>3, RememberedSame
    <2> QED BY <2>1, <2>4
  <1>4. ASSUME NEW c \in Clients, SubscribeEnd(c) PROVE RememberedInv'
    <2>1. /\ UNCHANGED <<lease, source, needTrim, stopping, worker, place>>
          /\ change => change'
          /\ \A b \in Clients : at[b] \in {"request", "trim", "reclaim"} => at'[b] = at[b] /\ arg'[b] = arg[b]
      BY <1>4 DEF SubscribeEnd, Goes, workerVars
    <2>2. \A s \in Slots : Used(s) => slots'[s] = slots[s]
      <3>1. CASE CanSubscribe(c)
        <4>1. Least({r \in Slots : ~Used(r)}) \in {r \in Slots : ~Used(r)}
          BY <3>1, LeastIsIn DEF CanSubscribe
        <4> QED BY <1>4, <3>1, <4>1 DEF SubscribeEnd
      <3>2. CASE ~CanSubscribe(c)
        BY <1>4, <3>2 DEF SubscribeEnd
      <3> QED BY <3>1, <3>2
    <2>3. \A q \in Providers : /\ TrimIsComing(q) => TrimIsComing(q)'
                               /\ Unleased(q)' => Unleased(q)
      BY <2>1, <2>2, ComingSame, UnleasedSame DEF Used
    <2>4. UnleasedIsRemembered'
      BY <2>1, <2>3, RememberedSame
    <2> QED BY <2>1, <2>4
  <1>5. ASSUME NEW c \in Clients, Removed(c) PROVE RememberedInv'
    <2>1. at'[c] = "request" /\ UNCHANGED <<worker, place>>
      BY <1>5 DEF Removed, Goes, workerVars
    <2>2. \A q : TrimIsComing(q)'
      BY <2>1 DEF TrimIsComing
    <2> QED BY <2>1, <2>2 DEF UnleasedIsRemembered
  <1>6. ASSUME NEW c \in Clients, EnsureWorker(c) PROVE RememberedInv'
    <2>1. /\ UNCHANGED <<lease, source, slots, needTrim, stopping, place>>
          /\ \A b \in Clients : at[b] \in {"request", "trim", "reclaim"} => at'[b] = at[b] /\ arg'[b] = arg[b]
          /\ \/ worker = "none" /\ worker' = "mark"
             \/ UNCHANGED <<worker, change>>
      BY <1>6 DEF EnsureWorker, Goes
    <2>2. \A q \in Providers : /\ TrimIsComing(q) => TrimIsComing(q)'
                               /\ Unleased(q)' => Unleased(q)
      BY <2>1 DEF TrimIsComing, Unleased, Used
    <2>3. UnleasedIsRemembered'
      BY <2>1, <2>2, RememberedSame
    <2> QED BY <2>1, <2>3
  <1>7. ASSUME NEW c \in Clients, RequestTrim(c) PROVE RememberedInv'
    <2>1. UNCHANGED <<stopping, worker, place>>
      BY <1>7 DEF RequestTrim, workerVars
    <2>2. ~stopping => needTrim' /\ (at'[c] = "trim" \/ change')
      BY <1>7 DEF RequestTrim, Goes
    <2>3. ~stopping => \A q : TrimIsComing(q)'
      BY <2>2 DEF TrimIsComing
    <2> QED BY <2>1, <2>3 DEF UnleasedIsRemembered
  <1>8. ASSUME NEW c \in Clients, TrimHere(c) PROVE RememberedInv'
    <2>1. /\ UNCHANGED <<lease, source, slots, stopping, worker, place>>
          /\ \A b \in Clients : b # c => at'[b] = at[b] /\ arg'[b] = arg[b]
          /\ at[c] = "trim"
          /\ change => change'
      BY <1>8 DEF TrimHere, Goes, workerVars
    <2>2. \A q \in Providers : Unleased(q)' => Unleased(q)
      BY <2>1 DEF Unleased, Used
    <2>3. CASE TrimsHere
      <3>1. at'[c] = "reclaim" /\ arg'[c] = 1
        BY <1>8, <2>3 DEF TrimHere, Goes
      <3>2. \A q \in Providers : 1 <= q
        BY DEF Providers
      <3>3. \A q \in Providers : TrimIsComing(q)'
        BY <3>1, <3>2 DEF TrimIsComing
      <3> QED BY <2>1, <3>3 DEF UnleasedIsRemembered
    <2>4. CASE ~TrimsHere /\ ~stopping
      <3>1. needTrim' = needTrim /\ (needTrim => change')
        BY <1>8, <2>4 DEF TrimHere, TrimsHere
      <3>2. \A q \in Providers : TrimIsComing(q) => TrimIsComing(q)'
        BY <2>1, <3>1 DEF TrimIsComing
      <3>3. UnleasedIsRemembered'
        BY <2>1, <2>2, <3>2, RememberedSame
      <3> QED BY <2>1, <3>3
    <2>5. CASE stopping
      BY <2>1, <2>5 DEF UnleasedIsRemembered
    <2> QED BY <2>3, <2>4, <2>5
  <1>9. ASSUME NEW c \in Clients, ReclaimHere(c) PROVE RememberedInv'
    <2>1. /\ UNCHANGED <<lease, slots, needTrim, change, stopping, worker, place>>
          /\ Reclaim(arg[c])
          /\ at[c] = "reclaim"
          /\ \A b \in Clients : b # c => at'[b] = at[b] /\ arg'[b] = arg[b]
          /\ arg[c] # Count => at'[c] = "reclaim" /\ arg'[c] = arg[c] + 1
      BY <1>9 DEF ReclaimHere, Goes
    <2>2. source' \subseteq source /\ (arg[c] \in source' => ~Unleased(arg[c]))
          /\ \A q : Unleased(q)' <=> Unleased(q)
      BY <2>1, ReclaimDone
    <2>3. ASSUME NEW q \in source', q # arg[c], TrimIsComing(q) PROVE TrimIsComing(q)'
      <3>1. q \in Nat /\ arg[c] \in Nat /\ q <= Count
        BY <2>1, <2>2, <2>3 DEF Providers, ArgShape
      <3>2. arg[c] <= q => at'[c] = "reclaim" /\ arg'[c] <= q
        BY <2>1, <2>3, <3>1, DataAssumption
      <3> QED BY <2>1, <2>3, <3>2 DEF TrimIsComing
    <2>4. UnleasedIsRemembered'
      BY <2>1, <2>2, <2>3, RememberedSame
    <2> QED BY <2>1, <2>4
  <1>10. ASSUME NEW c \in Clients, Stop(c) \/ Joined(c) PROVE RememberedInv'
    BY <1>10 DEF Stop, Joined, Goes, ArgShape, UnleasedIsRemembered, workerVars
  <1>11. ASSUME NEW d \in DataSets, Elapse(d) PROVE RememberedInv'
    BY <1>11 DEF Elapse, clientVars, UnleasedIsRemembered, TrimIsComing, Unleased, Used
  <1>12. CASE UNCHANGED vars
    BY <1>12 DEF vars, clientVars, workerVars, UnleasedIsRemembered, TrimIsComing, Unleased, Used
  <1> QED
    BY <1>1, <1>2, <1>3, <1>4, <1>5, <1>6, <1>7, <1>8, <1>9, <1>10, <1>11, <1>12, WorkerRemembers
       DEF Next, Calling, Waiting, Continuing

\* A source nobody leases is never forgotten: a trim that reaches it is on its
\* way (RequestDataSourceTrim's hand-over between the callers and the worker).
THEOREM NoSourceForgotten == Spec => []UnleasedIsRemembered
  <1>1. Init => RememberedInv
    BY DEF Init, RememberedInv, UnleasedIsRemembered
  <1>2. IInv /\ RememberedInv /\ [Next]_vars => RememberedInv'
    BY NextRemembered
  <1>3. RememberedInv => UnleasedIsRemembered
    BY DEF RememberedInv
  <1> QED BY <1>1, <1>2, <1>3, Invariance, PTL DEF Spec

\* Neither an activation nor a source that became idle is overlooked.
THEOREM NothingOverlooked == Spec => []NothingIsOverlooked
  <1> QED BY NoActivationLost, NoSourceForgotten, PTL DEF NothingIsOverlooked

-----------------------------------------------------------------------------
(* The network service: a hidden widget is quiet because its slot is       *)
(* inactive from the call's start, the idle event says exactly that no     *)
(* widget runs, and the only slot in flight is the running widget's, which *)
(* is the one the cancel event speaks of.                                  *)

Net == INSTANCE NetworkService

UiStates == {"idle", "ensure", "leave", "cancel", "cancelAndWait", "waiting", "left", "join"}

\* Ranges and the shape of a slot: types, for the fields the worker shares.
NetTypeOK ==
  /\ networkSlots \in [Net!Slots -> Net!Slot \cup {NoWidget}]
  /\ access \in BOOLEAN
  /\ pc \in {"none", "scan", "wait", "pick", "run", "exited"}
  /\ stop \in BOOLEAN /\ wake \in BOOLEAN /\ cancel \in BOOLEAN
  /\ ui \in UiStates

\* A widget has one slot (RegisterNetworkWidget looks for it first).
OneSlot == \A i, j \in Net!Used : networkSlots[i].widget = networkSlots[j].widget => i = j

\* The idle event is reset while a widget runs, and only then.
IdleMeansIdle == idle = (pc # "run")

\* The worker is in the code of a registered widget, and its slot says so.
InFlightRuns ==
  /\ \A i \in Net!Used : networkSlots[i].inFlight = (pc = "run" /\ networkSlots[i].widget = running)
  /\ pc = "run" => Net!Of(running) # {}

\* Only a widget that is shown is active or runs.
ShownRuns ==
  /\ \A i \in Net!Used : networkSlots[i].active => networkSlots[i].widget \in told
  /\ pc = "run" => running \in told

\* While it is hidden a widget's slot is inactive, and the way out of the call
\* is open only once its run is over.
HidingInv ==
  ui # "idle" /\ call.op \in {"hide", "unregister"} =>
    /\ ui \in {"leave", "waiting", "left"}
    /\ \A i \in Net!Of(call.w) : ~networkSlots[i].active
    /\ ui = "left" /\ pc = "run" => running # call.w

\* The same for the calls that stop everything.
StoppingInv ==
  /\ ui \in {"cancel", "cancelAndWait", "join"} => call.op \in {"disable", "stop"}
  /\ ui # "idle" /\ call.op \in {"disable", "stop"} =>
       \A i \in Net!Used : ~networkSlots[i].active

\* Without access there is a worker only until the call that took it returns.
AccessInv ==
  /\ ui = "ensure" => access /\ call.op = "show"
  /\ ~access /\ pc # "none" => ui # "idle" /\ call.op = "disable"

NetInv == /\ NetTypeOK
          /\ OneSlot
          /\ IdleMeansIdle
          /\ InFlightRuns
          /\ ShownRuns
          /\ HidingInv
          /\ StoppingInv
          /\ AccessInv
          /\ CancelIsOfItsRun

-----------------------------------------------------------------------------
\* NetworkAssumption of the instance.
NoneIsNull == NoWidget \notin Net!Slot

\* A used slot holds a record, and a change of it leaves it used.
LEMMA UsedIsSlot == ASSUME NetTypeOK PROVE \A i \in Net!Used : networkSlots[i] \in Net!Slot
  BY DEF NetTypeOK, Net!Used

LEMMA SlotIsUsed == ASSUME NoneIsNull PROVE \A s \in Net!Slot : s # NoWidget
  BY DEF NoneIsNull

\* The initial state satisfies the inductive invariant.
LEMMA NetInitInv == Net!Init => NetInv
  <1> SUFFICES ASSUME Net!Init PROVE NetInv
    OBVIOUS
  <1>1. Net!Used = {}
    BY DEF Net!Init, Net!Used
  <1> QED
    BY <1>1 DEF Net!Init, NetInv, NetTypeOK, UiStates, OneSlot, IdleMeansIdle, InFlightRuns, ShownRuns,
       HidingInv, StoppingInv, AccessInv, CancelIsOfItsRun, Net!Slots

\* In a state of the types the promise is about the used slots.
LEMMA CancelByUsed ==
  ASSUME NetTypeOK
  PROVE  CancelIsOfItsRun <=>
           (ui # "cancelAndWait" =>
              \A i \in Net!Used : networkSlots[i].inFlight => (cancel <=> ~networkSlots[i].active))
  <1>1. DOMAIN networkSlots = Net!Slots
    BY DEF NetTypeOK
  <1> QED BY <1>1 DEF CancelIsOfItsRun, Net!Used

\* The same of the next state.
LEMMA CancelByUsedNext ==
  ASSUME NetTypeOK',
         ui' # "cancelAndWait" =>
           \A i \in Net!Used' : networkSlots'[i].inFlight => (cancel' <=> ~networkSlots'[i].active)
  PROVE  CancelIsOfItsRun'
  <1>1. DOMAIN networkSlots' = Net!Slots
    BY DEF NetTypeOK
  <1> QED BY <1>1 DEF CancelIsOfItsRun, Net!Used

\* What a step that leaves the slots, the worker's run and told alone must still show.
LEMMA SlotsSame ==
  ASSUME NoneIsNull, NetInv, UNCHANGED <<networkSlots, running, told>>, NetTypeOK', IdleMeansIdle',
         (pc = "run") = (pc' = "run"), HidingInv', StoppingInv', AccessInv',
         CancelIsOfItsRun'
  PROVE NetInv'
  <1>1. Net!Used' = Net!Used /\ \A w : Net!Of(w)' = Net!Of(w)
    BY DEF Net!Used, Net!Of
  <1> QED
    BY <1>1 DEF NetInv, OneSlot, InFlightRuns, ShownRuns

\* Registration adds an inactive slot for a widget that has none.
LEMMA RegisterInv == ASSUME NoneIsNull, NetInv, NEW w \in Widgets, Net!RegisterNetworkWidget(w) PROVE NetInv'
  <1>1. PICK i \in Net!Slots \ Net!Used : networkSlots' = [networkSlots EXCEPT ![i] = Net!NewSlot(w)]
    BY DEF Net!RegisterNetworkWidget
  <1>2. Net!NewSlot(w) \in Net!Slot /\ Net!NewSlot(w) # NoWidget
    BY SlotIsUsed DEF Net!NewSlot, Net!Slot
  <1>3. NetTypeOK'
    BY <1>1, <1>2 DEF Net!RegisterNetworkWidget, NetInv, NetTypeOK, Net!workerVars, Net!events, Net!uiVars
  <1>4. /\ Net!Used' = Net!Used \cup {i}
        /\ i \notin Net!Used
        /\ \A j \in Net!Used : networkSlots'[j] = networkSlots[j]
        /\ networkSlots'[i] = Net!NewSlot(w)
    BY <1>1, <1>2 DEF NetInv, NetTypeOK, Net!Used
  <1>5. /\ Net!Of(w) = {} /\ ui = "idle"
        /\ UNCHANGED <<access, pc, armed, running, stop, wake, cancel, idle, ui, call, told>>
    BY DEF Net!RegisterNetworkWidget, Net!workerVars, Net!events, Net!uiVars
  <1>6. OneSlot'
    BY <1>4, <1>5 DEF NetInv, OneSlot, Net!Of, Net!NewSlot
  <1>7. InFlightRuns'
    <2>1. pc = "run" => running # w
      BY <1>5 DEF NetInv, InFlightRuns
    <2>2. \A v : Net!Of(v) \subseteq Net!Of(v)'
      BY <1>4 DEF Net!Of
    <2>3. pc = "run" => Net!Of(running)' # {}
      BY <1>5, <2>2 DEF NetInv, InFlightRuns
    <2>4. \A j \in Net!Used' : networkSlots'[j].inFlight = (pc = "run" /\ networkSlots'[j].widget = running)
      <3>1. \A j \in Net!Used : networkSlots'[j].inFlight = (pc = "run" /\ networkSlots'[j].widget = running)
        BY <1>4 DEF NetInv, InFlightRuns
      <3>2. networkSlots'[i].inFlight = FALSE /\ networkSlots'[i].widget = w
        BY <1>4 DEF Net!NewSlot
      <3>3. (pc = "run" /\ networkSlots'[i].widget = running) = FALSE
        BY <2>1, <3>2
      <3> QED BY <1>4, <3>1, <3>2, <3>3
    <2> QED BY <1>5, <2>3, <2>4 DEF InFlightRuns
  <1>8. ShownRuns'
    BY <1>4, <1>5 DEF NetInv, ShownRuns, Net!NewSlot
  <1>9. CancelIsOfItsRun'
    <2>1. networkSlots'[i].inFlight = FALSE
      BY <1>4 DEF Net!NewSlot
    <2> QED BY <1>3, <1>4, <1>5, <2>1, CancelByUsed, CancelByUsedNext DEF NetInv
  <1> QED
    BY <1>3, <1>5, <1>6, <1>7, <1>8, <1>9 DEF NetInv, IdleMeansIdle, HidingInv, StoppingInv, AccessInv

\* Showing a widget makes its slot active and it told.
LEMMA ActivateInv == ASSUME NoneIsNull, NetInv, NEW w \in Widgets, Net!Activate(w) PROVE NetInv'
  <1>1. PICK i \in Net!Of(w) : networkSlots' = [networkSlots EXCEPT ![i].active = TRUE, ![i].due = TRUE]
    BY DEF Net!Activate
  <1>2. networkSlots[i] \in Net!Slot /\ networkSlots[i].widget = w /\ i \in Net!Slots
    BY UsedIsSlot DEF NetInv, Net!Of, Net!Used
  <1>3. networkSlots'[i] \in Net!Slot /\ networkSlots'[i] # NoWidget /\ networkSlots'[i].widget = w
        /\ networkSlots'[i].inFlight = networkSlots[i].inFlight
    <2>1. networkSlots'[i] = [networkSlots[i] EXCEPT !.active = TRUE, !.due = TRUE]
      BY <1>1, <1>2 DEF NetInv, NetTypeOK
    <2> QED BY <1>2, <2>1, SlotIsUsed DEF Net!Slot
  <1>4. \A j \in Net!Slots : j # i => networkSlots'[j] = networkSlots[j]
    BY <1>1 DEF NetInv, NetTypeOK
  <1>5. /\ Net!Used' = Net!Used
        /\ \A j \in Net!Used : networkSlots'[j].widget = networkSlots[j].widget /\ networkSlots'[j].inFlight = networkSlots[j].inFlight
    BY <1>2, <1>3, <1>4 DEF Net!Used, Net!Of
  <1>6. /\ ui = "idle" /\ ui' = "ensure" /\ access
        /\ call' = [op |-> "show", w |-> w] /\ told' = told \cup {w}
        /\ UNCHANGED <<access, pc, armed, running, stop, wake, cancel, idle>>
    BY DEF Net!Activate, Net!At, Net!workerVars, Net!events
  <1>7. NetTypeOK'
    <2>1. networkSlots' \in [Net!Slots -> Net!Slot \cup {NoWidget}]
      BY <1>1, <1>2, <1>3, <1>4 DEF NetInv, NetTypeOK
    <2> QED BY <1>6, <2>1 DEF NetInv, NetTypeOK, UiStates
  <1>8. OneSlot' /\ InFlightRuns'
    BY <1>5, <1>6 DEF NetInv, OneSlot, InFlightRuns, Net!Of
  <1>9. ShownRuns'
    <2>1. \A j \in Net!Used' : networkSlots'[j].active => networkSlots'[j].widget \in told'
      BY <1>2, <1>3, <1>4, <1>5, <1>6 DEF NetInv, ShownRuns, Net!Used
    <2> QED BY <1>6, <2>1 DEF NetInv, ShownRuns
  <1>10. CancelIsOfItsRun'
    <2>1. ~networkSlots[i].inFlight /\ ~networkSlots'[i].inFlight
      BY <1>2, <1>3 DEF NetInv, InFlightRuns, ShownRuns, Net!Activate, Net!Of
    <2> QED BY <1>2, <1>4, <1>5, <1>6, <1>7, <2>1, CancelByUsed, CancelByUsedNext DEF NetInv, Net!Used
  <1> QED
    BY <1>6, <1>7, <1>8, <1>9, <1>10 DEF NetInv, IdleMeansIdle, HidingInv, StoppingInv, AccessInv

\* A slot that is made quiet keeps its widget and its run.
LEMMA QuietIsSlot ==
  ASSUME NoneIsNull, NetTypeOK, NEW i \in Net!Used
  PROVE Net!Quiet(i) \in Net!Slot /\ Net!Quiet(i) # NoWidget /\ Net!Quiet(i).widget = networkSlots[i].widget
        /\ Net!Quiet(i).inFlight = networkSlots[i].inFlight /\ ~Net!Quiet(i).active
  <1>1. networkSlots[i] \in Net!Slot
    BY UsedIsSlot
  <1> QED BY <1>1, SlotIsUsed DEF Net!Quiet, Net!Slot

\* Hiding a widget: its one slot is inactive, and if it does not run already now.
LEMMA DeactivateInv ==
  ASSUME NoneIsNull, NetInv, NEW w \in Widgets, NEW op \in {"hide", "unregister"}, Net!Deactivate(w, op)
  PROVE NetInv'
  <1>1. PICK i \in Net!Of(w) : /\ networkSlots' = [networkSlots EXCEPT ![i] = Net!Quiet(i)]
                               /\ cancel' = (cancel \/ networkSlots[i].inFlight)
                               /\ ui' = IF networkSlots[i].inFlight THEN "leave" ELSE "left"
    BY DEF Net!Deactivate, Net!Cancels
  <1>2. networkSlots[i] \in Net!Slot /\ networkSlots[i].widget = w /\ i \in Net!Slots /\ i \in Net!Used
    BY UsedIsSlot DEF NetInv, Net!Of, Net!Used
  <1>3. networkSlots'[i] = Net!Quiet(i) /\ \A j \in Net!Slots : j # i => networkSlots'[j] = networkSlots[j]
    BY <1>1, <1>2 DEF NetInv, NetTypeOK
  <1>4. Net!Quiet(i) \in Net!Slot /\ Net!Quiet(i) # NoWidget /\ Net!Quiet(i).widget = w
        /\ Net!Quiet(i).inFlight = networkSlots[i].inFlight /\ ~Net!Quiet(i).active
    BY <1>2, QuietIsSlot DEF NetInv
  <1>5. /\ Net!Used' = Net!Used
        /\ \A j \in Net!Used : /\ networkSlots'[j].widget = networkSlots[j].widget
                               /\ networkSlots'[j].inFlight = networkSlots[j].inFlight
                               /\ networkSlots'[j].active => networkSlots[j].active
    BY <1>2, <1>3, <1>4 DEF Net!Used
  <1>6. /\ ui = "idle" /\ call' = [op |-> op, w |-> w]
        /\ UNCHANGED <<access, pc, armed, running, stop, wake, idle, told>>
    BY DEF Net!Deactivate, Net!workerVars
  <1>7. NetTypeOK'
    <2>1. networkSlots' \in [Net!Slots -> Net!Slot \cup {NoWidget}]
      BY <1>1, <1>4 DEF NetInv, NetTypeOK
    <2>2. cancel' \in BOOLEAN
      BY <1>1, <1>2 DEF NetInv, NetTypeOK, Net!Slot
    <2> QED BY <1>1, <1>6, <2>1, <2>2 DEF NetInv, NetTypeOK, UiStates
  <1>8. OneSlot' /\ InFlightRuns' /\ ShownRuns'
    BY <1>5, <1>6 DEF NetInv, OneSlot, InFlightRuns, ShownRuns, Net!Of
  <1>9. HidingInv'
    <2>1. \A j \in Net!Of(w)' : j = i
      BY <1>2, <1>5 DEF NetInv, OneSlot, Net!Of
    <2>2. \A j \in Net!Of(w)' : ~networkSlots'[j].active
      BY <1>3, <1>4, <2>1
    <2>3. ~networkSlots[i].inFlight => ~(pc = "run" /\ running = w)
      BY <1>2 DEF NetInv, InFlightRuns
    <2>4. ui' = "left" /\ pc' = "run" => running' # w
      BY <1>1, <1>6, <2>3
    <2> QED BY <1>1, <1>6, <2>2, <2>4 DEF HidingInv
  <1>10. StoppingInv' /\ AccessInv' /\ IdleMeansIdle'
    BY <1>1, <1>6 DEF NetInv, StoppingInv, AccessInv, IdleMeansIdle
  <1>11. CancelIsOfItsRun'
    <2>1. ASSUME NEW j \in Net!Used, networkSlots[j].inFlight, j # i
          PROVE  cancel' <=> ~networkSlots'[j].active
      <3>1. ~networkSlots[i].inFlight
        BY <1>2, <2>1 DEF NetInv, InFlightRuns, OneSlot
      <3>2. cancel <=> ~networkSlots[j].active
        BY <1>6, <2>1, CancelByUsed DEF NetInv
      <3> QED BY <1>1, <1>3, <2>1, <3>1, <3>2 DEF Net!Used
    <2>2. networkSlots[i].inFlight => (cancel' <=> ~networkSlots'[i].active)
      BY <1>1, <1>3, <1>4
    <2> QED BY <1>5, <1>7, <2>1, <2>2, CancelByUsedNext
  <1> QED BY <1>7, <1>8, <1>9, <1>10, <1>11 DEF NetInv

\* Everything is stopped: every slot inactive, the runs as they are.
LEMMA DeactivateAllInv ==
  ASSUME NoneIsNull, NetInv, NEW op \in {"disable", "stop"}, Net!DeactivateAll(op) PROVE NetInv'
  <1>1. /\ networkSlots' = [i \in Net!Slots |-> IF i \in Net!Used THEN Net!Quiet(i) ELSE NoWidget]
        /\ ui = "idle" /\ ui' = (IF Net!InFlight = {} THEN "cancel" ELSE "cancelAndWait")
        /\ access' = (access /\ op # "disable")
        /\ call' = [op |-> op, w |-> NoWidget]
        /\ UNCHANGED <<pc, armed, running, stop, wake, cancel, idle, told>>
    BY DEF Net!DeactivateAll, Net!workerVars, Net!events
  <1>2. \A i \in Net!Used : /\ Net!Quiet(i) \in Net!Slot /\ Net!Quiet(i) # NoWidget
                            /\ Net!Quiet(i).widget = networkSlots[i].widget
                            /\ Net!Quiet(i).inFlight = networkSlots[i].inFlight /\ ~Net!Quiet(i).active
    BY QuietIsSlot DEF NetInv
  <1>3. /\ Net!Used' = Net!Used
        /\ \A i \in Net!Used : /\ networkSlots'[i].widget = networkSlots[i].widget
                               /\ networkSlots'[i].inFlight = networkSlots[i].inFlight
                               /\ ~networkSlots'[i].active
    BY <1>1, <1>2 DEF Net!Used
  <1>4. NetTypeOK'
    <2>1. networkSlots' \in [Net!Slots -> Net!Slot \cup {NoWidget}]
      BY <1>1, <1>2
    <2> QED BY <1>1, <2>1 DEF NetInv, NetTypeOK, UiStates
  <1>5. OneSlot' /\ InFlightRuns' /\ ShownRuns'
    <2>1. OneSlot'
      BY <1>3 DEF NetInv, OneSlot
    <2>2. Net!Of(running)' = Net!Of(running)
      BY <1>1, <1>3 DEF Net!Of
    <2>3. InFlightRuns'
      BY <1>1, <1>3, <2>2 DEF NetInv, InFlightRuns
    <2>4. ShownRuns'
      BY <1>1, <1>3 DEF NetInv, ShownRuns
    <2> QED BY <2>1, <2>3, <2>4
  <1>6. HidingInv' /\ StoppingInv' /\ IdleMeansIdle'
    BY <1>1, <1>3 DEF NetInv, HidingInv, StoppingInv, IdleMeansIdle
  <1>7. AccessInv'
    BY <1>1 DEF NetInv, NetTypeOK, AccessInv
  <1>8. CancelIsOfItsRun'
    <2>1. ui' # "cancelAndWait" => \A i \in Net!Used' : ~networkSlots'[i].inFlight
      BY <1>1, <1>3 DEF Net!InFlight
    <2> QED BY <1>4, <2>1, CancelByUsedNext
  <1> QED BY <1>4, <1>5, <1>6, <1>7, <1>8 DEF NetInv

\* Hiding returns: the widget is not running and its slot is inactive.
LEMMA HiddenInv == ASSUME NoneIsNull, NetInv, Net!Hidden PROVE NetInv'
  <1>1. /\ ui = "left" /\ call.op \in {"hide", "unregister"} /\ ui' = "idle" /\ call' = NoWidget
        /\ told' = told \ {call.w}
        /\ networkSlots' = IF call.op = "hide" THEN networkSlots
                    ELSE [i \in Net!Slots |-> IF i \in Net!Of(call.w) THEN NoWidget ELSE networkSlots[i]]
        /\ UNCHANGED <<access, pc, armed, running, stop, wake, cancel, idle>>
    BY DEF Net!Hidden, Net!Return, Net!workerVars, Net!events
  <1>2. /\ \A i \in Net!Of(call.w) : ~networkSlots[i].active
        /\ pc = "run" => running # call.w
    BY <1>1 DEF NetInv, HidingInv
  <1>3. /\ Net!Used' \subseteq Net!Used
        /\ \A i \in Net!Used' : networkSlots'[i] = networkSlots[i]
        /\ \A i \in Net!Used : networkSlots[i].widget # call.w => i \in Net!Used'
    BY <1>1 DEF NetInv, NetTypeOK, Net!Used, Net!Of
  <1>4. NetTypeOK'
    <2>1. networkSlots' \in [Net!Slots -> Net!Slot \cup {NoWidget}]
      BY <1>1 DEF NetInv, NetTypeOK
    <2> QED BY <1>1, <2>1 DEF NetInv, NetTypeOK, UiStates
  <1>5. OneSlot'
    BY <1>3 DEF NetInv, OneSlot
  <1>6. InFlightRuns'
    <2>1. \A i \in Net!Used' : networkSlots'[i].inFlight = (pc = "run" /\ networkSlots'[i].widget = running)
      BY <1>3 DEF NetInv, InFlightRuns
    <2>2. pc = "run" => Net!Of(running)' # {}
      <3>1. ASSUME pc = "run" PROVE \E i \in Net!Of(running) : i \in Net!Of(running)'
        <4>1. PICK i \in Net!Of(running) : TRUE
          BY <3>1 DEF NetInv, InFlightRuns
        <4>2. i \in Net!Used /\ networkSlots[i].widget = running /\ running # call.w
          BY <1>2, <3>1, <4>1 DEF Net!Of
        <4>3. i \in Net!Used' /\ networkSlots'[i] = networkSlots[i]
          BY <1>3, <4>2
        <4> QED BY <1>1, <4>1, <4>2, <4>3 DEF Net!Of
      <3> QED BY <3>1
    <2>3. \A i \in Net!Used' : networkSlots'[i].inFlight = (pc' = "run" /\ networkSlots'[i].widget = running')
      BY <1>1, <2>1
    <2>4. pc' = "run" => Net!Of(running)' # {}
      BY <1>1, <2>2
    <2> QED BY <2>3, <2>4 DEF InFlightRuns
  <1>7. ShownRuns'
    <2>1. \A i \in Net!Used' : networkSlots'[i].active => networkSlots'[i].widget \in told'
      BY <1>1, <1>2, <1>3 DEF NetInv, ShownRuns, Net!Of
    <2> QED BY <1>1, <1>2, <2>1 DEF NetInv, ShownRuns
  <1>8. CancelIsOfItsRun'
    BY <1>1, <1>3, <1>4, CancelByUsed, CancelByUsedNext DEF NetInv
  <1> QED
    BY <1>1, <1>4, <1>5, <1>6, <1>7, <1>8
       DEF NetInv, IdleMeansIdle, HidingInv, StoppingInv, AccessInv

\* The worker is joined: nothing runs and nothing is active.
LEMMA JoinInv == ASSUME NoneIsNull, NetInv, Net!JoinNetworkWorker PROVE NetInv'
  <1>1. call # NoWidget /\ call.op \in {"disable", "stop"} /\ UNCHANGED <<access, wake, cancel, idle>>
    BY DEF Net!JoinNetworkWorker
  <1>2. ASSUME ui = "left", ui' = "join", stop' = TRUE, UNCHANGED <<networkSlots, Net!workerVars, call, told>>
        PROVE NetInv'
    <2>1. NetTypeOK'
      BY <1>1, <1>2 DEF NetInv, NetTypeOK, UiStates, Net!workerVars
    <2>2. UNCHANGED <<networkSlots, running, told, pc, call>> /\ Net!Used' = Net!Used
      BY <1>2 DEF Net!workerVars, Net!Used
    <2>3. HidingInv' /\ StoppingInv' /\ AccessInv' /\ IdleMeansIdle'
      BY <1>1, <1>2, <2>2 DEF NetInv, HidingInv, StoppingInv, AccessInv, IdleMeansIdle
    <2>4. CancelIsOfItsRun'
      BY <1>1, <1>2 DEF NetInv, CancelIsOfItsRun
    <2> QED BY <2>1, <2>2, <2>3, <2>4, SlotsSame
  <1>3. ASSUME ui = "join", pc \in {"none", "exited"}, pc' = "none", stop' = FALSE, told' = {},
               networkSlots' = [i \in Net!Slots |-> IF i \notin Net!Used \/ call.op = "stop" THEN NoWidget
                                             ELSE [networkSlots[i] EXCEPT !.inFlight = FALSE]],
               Net!Return
        PROVE NetInv'
    <2>1. \A i \in Net!Used : networkSlots[i] \in Net!Slot /\ ~networkSlots[i].active
      BY <1>1, <1>3, UsedIsSlot DEF NetInv, StoppingInv
    <2>2. \A i \in Net!Used : LET s == [networkSlots[i] EXCEPT !.inFlight = FALSE]
                              IN /\ s \in Net!Slot /\ s # NoWidget /\ ~s.inFlight /\ ~s.active
                                 /\ s.widget = networkSlots[i].widget
      BY <2>1, SlotIsUsed DEF Net!Slot
    <2>3. /\ Net!Used' \subseteq Net!Used
          /\ \A i \in Net!Used' : /\ ~networkSlots'[i].active /\ networkSlots'[i].inFlight = FALSE
                                  /\ networkSlots'[i].widget = networkSlots[i].widget
      BY <1>3, <2>2 DEF Net!Used
    <2>4. NetTypeOK'
      <3>1. networkSlots' \in [Net!Slots -> Net!Slot \cup {NoWidget}]
        BY <1>3, <2>2
      <3> QED BY <1>1, <1>3, <3>1 DEF NetInv, NetTypeOK, UiStates, Net!Return
    <2>5. OneSlot'
      BY <2>3 DEF NetInv, OneSlot
    <2>6. InFlightRuns' /\ ShownRuns'
      BY <1>3, <2>3 DEF InFlightRuns, ShownRuns
    <2>7. CancelIsOfItsRun'
      BY <2>3, <2>4, CancelByUsedNext
    <2> QED
      BY <1>1, <1>3, <2>4, <2>5, <2>6, <2>7
         DEF NetInv, IdleMeansIdle, HidingInv, StoppingInv, AccessInv, Net!Return
  <1> QED BY <1>2, <1>3 DEF Net!JoinNetworkWorker, Net!At

\* A due slot is active, so the widget that is picked is shown.
LEMMA PickInv == ASSUME NoneIsNull, NetInv, Net!Pick PROVE NetInv'
  <1>1. PICK i \in Net!Due : /\ networkSlots' = [networkSlots EXCEPT ![i].inFlight = TRUE]
                             /\ running' = networkSlots[i].widget
    BY DEF Net!Pick
  <1>2. /\ pc = "pick" /\ pc' = "run" /\ idle' = FALSE /\ cancel' = FALSE
        /\ UNCHANGED <<armed, stop, wake, access, ui, call, told>>
    BY DEF Net!Pick, Net!Others, Net!Busy
  <1>3. i \in Net!Used /\ i \in Net!Slots /\ networkSlots[i] \in Net!Slot /\ networkSlots[i].active
    BY UsedIsSlot DEF NetInv, Net!Due, Net!Used
  <1>4. /\ networkSlots'[i] = [networkSlots[i] EXCEPT !.inFlight = TRUE]
        /\ \A j \in Net!Slots : j # i => networkSlots'[j] = networkSlots[j]
    BY <1>1, <1>3 DEF NetInv, NetTypeOK
  <1>5. /\ networkSlots'[i] \in Net!Slot /\ networkSlots'[i] # NoWidget /\ networkSlots'[i].inFlight = TRUE
        /\ networkSlots'[i].widget = networkSlots[i].widget /\ networkSlots'[i].active = networkSlots[i].active
    BY <1>3, <1>4, SlotIsUsed DEF Net!Slot
  <1>6. /\ Net!Used' = Net!Used
        /\ \A j \in Net!Used : networkSlots'[j].widget = networkSlots[j].widget /\ networkSlots'[j].active = networkSlots[j].active
    BY <1>3, <1>4, <1>5 DEF Net!Used
  <1>7. NetTypeOK'
    <2>1. networkSlots' \in [Net!Slots -> Net!Slot \cup {NoWidget}]
      BY <1>1, <1>4, <1>5 DEF NetInv, NetTypeOK
    <2> QED BY <1>2, <2>1 DEF NetInv, NetTypeOK
  <1>8. OneSlot'
    BY <1>6 DEF NetInv, OneSlot
  <1>9. InFlightRuns'
    <2>1. \A j \in Net!Used : j # i => networkSlots[j].inFlight = FALSE /\ networkSlots[j].widget # running'
      BY <1>1, <1>2, <1>3 DEF NetInv, InFlightRuns, OneSlot
    <2>2. \A j \in Net!Used : j # i => networkSlots'[j].inFlight = FALSE /\ networkSlots'[j].widget # running'
      BY <1>4, <2>1 DEF Net!Used
    <2>3. networkSlots'[i].inFlight = TRUE /\ networkSlots'[i].widget = running'
      BY <1>1, <1>5
    <2>4. \A j \in Net!Used' : networkSlots'[j].inFlight = (networkSlots'[j].widget = running')
      BY <1>6, <2>2, <2>3
    <2>5. i \in Net!Of(running)'
      BY <1>3, <1>6, <2>3 DEF Net!Of
    <2> QED BY <1>2, <2>4, <2>5 DEF InFlightRuns
  <1>10. ShownRuns'
    BY <1>1, <1>2, <1>3, <1>6 DEF NetInv, ShownRuns
  <1>11. HidingInv'
    <2>1. ui = "left" /\ call.op \in {"hide", "unregister"} => running' # call.w
      BY <1>1, <1>3 DEF NetInv, HidingInv, Net!Of
    <2> QED BY <1>2, <1>6, <2>1 DEF NetInv, HidingInv, Net!Of
  <1>12. StoppingInv' /\ AccessInv' /\ IdleMeansIdle'
    BY <1>2, <1>6 DEF NetInv, StoppingInv, AccessInv, IdleMeansIdle
  <1>13. CancelIsOfItsRun'
    <2>1. \A j \in Net!Used : j # i => ~networkSlots'[j].inFlight
      <3>1. \A j \in Net!Used : ~networkSlots[j].inFlight
        BY <1>2 DEF NetInv, InFlightRuns
      <3> QED BY <1>4, <3>1 DEF Net!Used
    <2>2. cancel' <=> ~networkSlots'[i].active
      BY <1>2, <1>3, <1>5
    <2> QED BY <1>6, <1>7, <2>1, <2>2, CancelByUsedNext
  <1> QED BY <1>7, <1>8, <1>9, <1>10, <1>11, <1>12, <1>13 DEF NetInv

\* A run ends: no slot is in flight and the event is set.
LEMMA CompleteInv == ASSUME NoneIsNull, NetInv, Net!Complete PROVE NetInv'
  <1>1. PICK i \in Net!Of(running), parks \in BOOLEAN :
          networkSlots' = [networkSlots EXCEPT ![i] =
                     [networkSlots[i] EXCEPT !.inFlight = FALSE,
                                      !.active = networkSlots[i].active /\ ~parks,
                                      !.due = ~networkSlots[i].active \/ parks]]
    BY DEF Net!Complete
  <1>2. /\ pc = "run" /\ pc' = "scan" /\ running' = NoWidget /\ idle' = TRUE
        /\ ui' = IF ui = "waiting" THEN "left" ELSE ui
        /\ UNCHANGED <<access, armed, stop, wake, cancel, call, told>>
    BY DEF Net!Complete, Net!Releases
  <1>3. i \in Net!Used /\ i \in Net!Slots /\ networkSlots[i] \in Net!Slot /\ networkSlots[i].widget = running
    BY UsedIsSlot DEF NetInv, Net!Of, Net!Used
  <1>4. /\ networkSlots'[i] = [networkSlots[i] EXCEPT !.inFlight = FALSE, !.active = networkSlots[i].active /\ ~parks,
                                        !.due = ~networkSlots[i].active \/ parks]
        /\ \A j \in Net!Slots : j # i => networkSlots'[j] = networkSlots[j]
    BY <1>1, <1>3 DEF NetInv, NetTypeOK
  <1>5. /\ networkSlots'[i] \in Net!Slot /\ networkSlots'[i] # NoWidget /\ networkSlots'[i].inFlight = FALSE
        /\ networkSlots'[i].widget = networkSlots[i].widget /\ (networkSlots'[i].active => networkSlots[i].active)
    BY <1>3, <1>4, SlotIsUsed DEF Net!Slot
  <1>6. /\ Net!Used' = Net!Used
        /\ \A j \in Net!Used : /\ networkSlots'[j].widget = networkSlots[j].widget
                               /\ networkSlots'[j].active => networkSlots[j].active
    BY <1>3, <1>4, <1>5 DEF Net!Used
  <1>7. NetTypeOK'
    <2>1. networkSlots' \in [Net!Slots -> Net!Slot \cup {NoWidget}]
      BY <1>1, <1>4, <1>5 DEF NetInv, NetTypeOK
    <2> QED BY <1>2, <2>1 DEF NetInv, NetTypeOK, UiStates
  <1>8. OneSlot'
    BY <1>6 DEF NetInv, OneSlot
  <1>9. InFlightRuns'
    <2>1. \A j \in Net!Used : j # i => networkSlots[j].inFlight = FALSE
      BY <1>2, <1>3 DEF NetInv, InFlightRuns, OneSlot
    <2>2. \A j \in Net!Used : networkSlots'[j].inFlight = FALSE
      BY <1>4, <1>5, <2>1 DEF Net!Used
    <2> QED BY <1>2, <1>6, <2>2 DEF InFlightRuns
  <1>10. ShownRuns'
    BY <1>2, <1>6 DEF NetInv, ShownRuns
  <1>11. HidingInv' /\ StoppingInv'
    BY <1>2, <1>6 DEF NetInv, HidingInv, StoppingInv, Net!Of
  <1>12. AccessInv' /\ IdleMeansIdle'
    BY <1>2 DEF NetInv, AccessInv, IdleMeansIdle
  <1>13. CancelIsOfItsRun'
    <2>1. \A j \in Net!Used' : ~networkSlots'[j].inFlight
      BY <1>2, <1>9 DEF InFlightRuns
    <2> QED BY <1>7, <2>1, CancelByUsedNext
  <1> QED BY <1>7, <1>8, <1>9, <1>10, <1>11, <1>12, <1>13 DEF NetInv

\* Time makes a slot due and changes nothing else.
LEMMA TickInv == ASSUME NoneIsNull, NetInv, NEW i \in Net!Slots, Net!Tick(i) PROVE NetInv'
  <1>1. /\ networkSlots' = [networkSlots EXCEPT ![i].due = TRUE]
        /\ i \in Net!Used
        /\ UNCHANGED <<access, pc, armed, running, stop, wake, cancel, idle, ui, call, told>>
    BY DEF Net!Tick, Net!Others, Net!workerVars, Net!events
  <1>2. /\ networkSlots'[i] = [networkSlots[i] EXCEPT !.due = TRUE]
        /\ \A j \in Net!Slots : j # i => networkSlots'[j] = networkSlots[j]
    BY <1>1 DEF NetInv, NetTypeOK
  <1>3. /\ networkSlots'[i] \in Net!Slot /\ networkSlots'[i] # NoWidget /\ networkSlots'[i].inFlight = networkSlots[i].inFlight
        /\ networkSlots'[i].widget = networkSlots[i].widget /\ networkSlots'[i].active = networkSlots[i].active
    <2>1. networkSlots[i] \in Net!Slot
      BY <1>1, UsedIsSlot DEF NetInv
    <2> QED BY <1>2, <2>1, SlotIsUsed DEF Net!Slot
  <1>4. /\ Net!Used' = Net!Used
        /\ \A j \in Net!Used : /\ networkSlots'[j].widget = networkSlots[j].widget
                               /\ networkSlots'[j].active = networkSlots[j].active
                               /\ networkSlots'[j].inFlight = networkSlots[j].inFlight
    BY <1>1, <1>2, <1>3 DEF Net!Used
  <1>5. NetTypeOK'
    <2>1. networkSlots' \in [Net!Slots -> Net!Slot \cup {NoWidget}]
      BY <1>1, <1>2, <1>3 DEF NetInv, NetTypeOK
    <2> QED BY <1>1, <2>1 DEF NetInv, NetTypeOK
  <1>6. OneSlot' /\ ShownRuns'
    BY <1>1, <1>4 DEF NetInv, OneSlot, ShownRuns
  <1>7. InFlightRuns'
    <2>1. Net!Of(running)' = Net!Of(running)
      BY <1>1, <1>4 DEF Net!Of
    <2> QED BY <1>1, <1>4, <2>1 DEF NetInv, InFlightRuns
  <1>8. HidingInv' /\ StoppingInv' /\ AccessInv' /\ IdleMeansIdle'
    BY <1>1, <1>4 DEF NetInv, HidingInv, StoppingInv, AccessInv, IdleMeansIdle, Net!Of
  <1>9. CancelIsOfItsRun'
    BY <1>1, <1>4, <1>5, CancelByUsed, CancelByUsedNext DEF NetInv
  <1> QED BY <1>5, <1>6, <1>7, <1>8, <1>9 DEF NetInv

\* The steps that leave the slots alone.
LEMMA QuietSteps ==
  ASSUME NoneIsNull, NetInv,
         Net!EnsureNetworkWorker \/ Net!CancelAll \/ Net!EnableAccess \/ Net!WaitForIdle
         \/ Net!Scan \/ Net!Wait \/ Net!PickNothing
  PROVE NetInv'
  <1> USE DEF NetInv, NetTypeOK, UiStates, IdleMeansIdle, Net!slotVars, Net!workerVars, Net!events, Net!uiVars
  <1>0. ASSUME UNCHANGED networkSlots PROVE Net!Used' = Net!Used /\ \A w : Net!Of(w)' = Net!Of(w)
    BY <1>0 DEF Net!Used, Net!Of
  <1>1. CASE Net!EnsureNetworkWorker
    <2>1. /\ ui = "ensure" /\ ui' = "idle" /\ access
          /\ UNCHANGED <<networkSlots, access, told, running>> \/ (pc = "none" /\ pc' = "scan")
          /\ UNCHANGED <<networkSlots, access, told>>
          /\ \/ pc' = pc /\ idle' = idle /\ running' = running
             \/ pc = "none" /\ pc' = "scan" /\ idle' = TRUE
      BY <1>1 DEF Net!EnsureNetworkWorker, Net!Return, AccessInv
    <2>2. NetTypeOK'
      BY <1>1, <2>1 DEF Net!EnsureNetworkWorker, Net!Wakes
    <2>3. IdleMeansIdle' /\ HidingInv' /\ StoppingInv' /\ AccessInv'
      BY <2>1 DEF HidingInv, StoppingInv, AccessInv
    <2>4. OneSlot' /\ InFlightRuns' /\ ShownRuns'
      BY <1>0, <2>1 DEF OneSlot, InFlightRuns, ShownRuns
    <2>5. CancelIsOfItsRun'
      <3>1. CASE pc = "none"
        <4>1. \A i \in Net!Used' : ~networkSlots'[i].inFlight
          BY <1>0, <2>1, <3>1 DEF InFlightRuns
        <4> QED BY <2>2, <4>1, CancelByUsedNext
      <3>2. CASE pc # "none"
        <4>1. cancel' = cancel
          BY <1>1, <3>2 DEF Net!EnsureNetworkWorker
        <4> QED BY <2>1, <4>1 DEF CancelIsOfItsRun
      <3> QED BY <3>1, <3>2
    <2> QED BY <2>2, <2>3, <2>4, <2>5
  <1>2. CASE Net!CancelAll
    <2>1. /\ ui \in {"cancel", "cancelAndWait"} /\ ui' \in {"left", "leave"} /\ cancel' = TRUE
          /\ UNCHANGED <<networkSlots, access, pc, running, stop, wake, idle, call, told>>
      BY <1>2 DEF Net!CancelAll, Net!At
    <2>2. call.op \in {"disable", "stop"}
      BY <2>1 DEF StoppingInv
    <2>3. HidingInv' /\ StoppingInv' /\ AccessInv'
      BY <1>0, <2>1, <2>2 DEF HidingInv, StoppingInv, AccessInv
    <2>4. NetTypeOK' /\ IdleMeansIdle'
      BY <2>1
    <2>5. CancelIsOfItsRun'
      <3>1. \A i \in Net!Used' : ~networkSlots'[i].active
        BY <1>0, <2>1, <2>2 DEF StoppingInv
      <3> QED BY <2>1, <2>4, <3>1, CancelByUsedNext
    <2> QED BY <2>1, <2>3, <2>4, <2>5, SlotsSame
  <1>3. CASE Net!EnableAccess
    <2>1. /\ ui = "idle" /\ ui' = "idle" /\ access' = TRUE
          /\ UNCHANGED <<networkSlots, pc, running, stop, wake, cancel, idle, call, told>>
      BY <1>3 DEF Net!EnableAccess
    <2>2. NetTypeOK' /\ IdleMeansIdle' /\ HidingInv' /\ StoppingInv' /\ AccessInv'
      BY <2>1 DEF HidingInv, StoppingInv, AccessInv
    <2>3. CancelIsOfItsRun'
      BY <2>1 DEF CancelIsOfItsRun
    <2> QED BY <2>1, <2>2, <2>3, SlotsSame
  <1>4. CASE Net!WaitForIdle
    <2>1. /\ ui = "leave" /\ ui' = IF idle THEN "left" ELSE "waiting"
          /\ UNCHANGED <<networkSlots, access, pc, running, stop, wake, cancel, idle, call, told>>
      BY <1>4 DEF Net!WaitForIdle
    <2>2. HidingInv'
      BY <1>0, <2>1 DEF HidingInv
    <2>3. NetTypeOK' /\ IdleMeansIdle' /\ StoppingInv' /\ AccessInv'
      BY <1>0, <2>1 DEF StoppingInv, AccessInv
    <2>4. CancelIsOfItsRun'
      BY <2>1 DEF CancelIsOfItsRun
    <2> QED BY <2>1, <2>2, <2>3, <2>4, SlotsSame
  <1>5. CASE Net!Scan \/ Net!Wait \/ Net!PickNothing
    <2>1. /\ pc \in {"scan", "wait", "pick"} /\ pc' \in {"wait", "exited", "pick", "scan"}
          /\ wake' \in BOOLEAN
          /\ UNCHANGED <<networkSlots, running, stop, cancel, idle, access, ui, call, told>>
      BY <1>5 DEF Net!Scan, Net!Wait, Net!PickNothing, Net!Others
    <2>2. HidingInv' /\ StoppingInv' /\ AccessInv'
      BY <1>0, <2>1 DEF HidingInv, StoppingInv, AccessInv
    <2>3. NetTypeOK' /\ IdleMeansIdle' /\ CancelIsOfItsRun'
      BY <2>1 DEF CancelIsOfItsRun
    <2> QED BY <2>1, <2>2, <2>3, SlotsSame
  <1> QED BY <1>1, <1>2, <1>3, <1>4, <1>5

\* Every step preserves the inductive invariant.
LEMMA NetNextInv == ASSUME NoneIsNull PROVE NetInv /\ [Net!Next]_(Net!vars) => NetInv'
  <1> SUFFICES ASSUME NetInv, [Net!Next]_(Net!vars) PROVE NetInv'
    OBVIOUS
  <1>1. CASE UNCHANGED Net!vars
    <2>1. UNCHANGED <<networkSlots, access, pc, armed, running, stop, wake, cancel, idle, ui, call, told>>
      BY <1>1 DEF Net!vars, Net!slotVars, Net!workerVars, Net!events, Net!uiVars
    <2>2. NetTypeOK' /\ IdleMeansIdle' /\ HidingInv' /\ StoppingInv' /\ AccessInv'
      BY <2>1 DEF NetInv, NetTypeOK, UiStates, Net!Slots, IdleMeansIdle, HidingInv, StoppingInv, AccessInv,
         Net!Of, Net!Used
    <2>3. CancelIsOfItsRun'
      BY <2>1 DEF NetInv, CancelIsOfItsRun
    <2> QED BY <2>1, <2>2, <2>3, SlotsSame
  <1>2. CASE Net!Next
    BY <1>2, RegisterInv, ActivateInv, DeactivateInv, DeactivateAllInv, HiddenInv, JoinInv,
       PickInv, CompleteInv, TickInv, QuietSteps
       DEF Net!Next, Net!UiGoesOn, Net!Worker
  <1> QED BY <1>1, <1>2

\* The inductive invariant holds in every reachable state.
THEOREM NetInvariance == ASSUME NoneIsNull PROVE Net!Spec => []NetInv
  <1>1. NetInv /\ [Net!Next]_(Net!vars) => NetInv'
    BY NetNextInv
  <1> QED BY <1>1, NetInitInv, PTL DEF Net!Spec

\* A widget that was hidden or unregistered, and every widget once network
\* access or the service has ended, is not in its network code
\* (SetNetworkWidgetActive's wait for the idle event against NetworkWorker).
THEOREM HiddenQuiet == ASSUME NoneIsNull PROVE Net!Spec => []HiddenIsQuiet
  <1>1. NetInv => HiddenIsQuiet
    BY DEF NetInv, NetTypeOK, ShownRuns, AccessInv, HiddenIsQuiet
  <1> QED BY <1>1, NetInvariance, PTL

\* The one cancel event speaks of the widget that runs, and of no other
\* (SetNetworkWidgetActive sets it under the lock, NetworkWorker resets it with
\* the slot it picks).
THEOREM CancelHitsItsRun == ASSUME NoneIsNull PROVE Net!Spec => []CancelIsOfItsRun
  <1>1. NetInv => CancelIsOfItsRun
    BY DEF NetInv
  <1> QED BY <1>1, NetInvariance, PTL

\* Hiding a widget stops that widget's run, whole, and no other.
THEOREM HidingSound == ASSUME NoneIsNull PROVE Net!Spec => []HidingIsSound
  <1> QED BY HiddenQuiet, CancelHitsItsRun, PTL DEF HidingIsSound

\* The UI thread waits for the idle event only while a run goes on, whose end
\* will set it: the wait cannot have missed the event.
WaitIsForARun == ui = "waiting" => pc = "run"

\* Only the end of the run takes the worker out of the widget's code.
LEMMA WaitNextInv == ASSUME NetInv, WaitIsForARun, [Net!Next]_(Net!vars) PROVE WaitIsForARun'
  <1> USE DEF WaitIsForARun, Net!At, Net!Return, Net!Others, Net!workerVars, Net!uiVars, Net!slotVars, Net!events
  <1>1. ASSUME NEW w \in Widgets,
               \/ Net!RegisterNetworkWidget(w) \/ Net!Activate(w)
               \/ Net!Deactivate(w, "hide") \/ Net!Deactivate(w, "unregister")
        PROVE  WaitIsForARun'
    BY <1>1 DEF Net!RegisterNetworkWidget, Net!Activate, Net!Deactivate
  <1>2. CASE Net!DeactivateAll("disable") \/ Net!DeactivateAll("stop") \/ Net!EnableAccess
    BY <1>2 DEF Net!DeactivateAll, Net!EnableAccess
  <1>3. CASE Net!UiGoesOn
    <2>1. CASE Net!WaitForIdle
      BY <2>1 DEF Net!WaitForIdle, NetInv, IdleMeansIdle
    <2>2. CASE Net!EnsureNetworkWorker \/ Net!CancelAll \/ Net!Hidden \/ Net!JoinNetworkWorker
      BY <2>2 DEF Net!EnsureNetworkWorker, Net!CancelAll, Net!Hidden, Net!JoinNetworkWorker
    <2> QED BY <1>3, <2>1, <2>2 DEF Net!UiGoesOn
  <1>4. CASE Net!Worker
    <2>1. CASE Net!Complete
      BY <2>1 DEF Net!Complete, Net!Releases
    <2>2. CASE Net!Scan \/ Net!Wait \/ Net!Pick \/ Net!PickNothing
      BY <2>2 DEF Net!Scan, Net!Wait, Net!Pick, Net!PickNothing
    <2> QED BY <1>4, <2>1, <2>2 DEF Net!Worker
  <1>5. ASSUME NEW i \in Net!Slots, Net!Tick(i) PROVE WaitIsForARun'
    BY <1>5 DEF Net!Tick
  <1>6. CASE UNCHANGED Net!vars
    BY <1>6 DEF Net!vars
  <1> QED BY <1>1, <1>2, <1>3, <1>4, <1>5, <1>6 DEF Net!Next

\* The idle event says what its waiters take it to say: it is set exactly while
\* the worker is in no widget's code (Pick and Complete, NetworkWorker), and a
\* wait for it began, and goes on, during a run.
THEOREM IdleEventIsHonest ==
  ASSUME NoneIsNull PROVE Net!Spec => [](IdleMeansIdle /\ InFlightRuns /\ WaitIsForARun)
  <1>1. NetInv => IdleMeansIdle /\ InFlightRuns
    BY DEF NetInv
  <1>2. Net!Init => WaitIsForARun
    BY DEF Net!Init, WaitIsForARun
  <1>3. NetInv /\ WaitIsForARun /\ [Net!Next]_(Net!vars) => WaitIsForARun'
    BY WaitNextInv
  <1> QED BY <1>1, <1>2, <1>3, NetInvariance, PTL DEF Net!Spec
================================================================================
