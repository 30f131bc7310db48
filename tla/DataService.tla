------------------------------ MODULE DataService ------------------------------
(***************************************************************************)
(* The data service of the host (RedXe/PluginHost.cpp, Subscribe to        *)
(* StopDataService): subscriptions that clients make, activate, deactivate *)
(* and release, and one acquisition worker that collects what is due and   *)
(* calls the sinks without the lock.  A source stays while somebody leases *)
(* it, by its facade or by a subscription; what nobody leases is trimmed,  *)
(* by the worker once there is one.                                        *)
(*                                                                         *)
(* Clocks are left out: a data set collected is due again at some later    *)
(* time.  Between two lock sections of a client or of the worker anything  *)
(* may happen; each action is one lock section or one callback's end.      *)
(***************************************************************************)
EXTENDS Integers, FiniteSets

CONSTANTS
  Clients,     \* the threads that use the service
  Nobody,      \* the owner of a free slot
  Count,       \* _providers.size()
  DataSets,    \* the data sets of all providers
  ProviderOf,  \* the provider of each
  Capacity     \* kMaximumSubscriptions

Providers == 1 .. Count
Slots == 1 .. Capacity

ASSUME DataAssumption == /\ Count \in Nat \ {0}
                         /\ Capacity \in Nat \ {0}
                         /\ Nobody \notin Clients
                         /\ ProviderOf \in [DataSets -> Providers]

VARIABLES
  at, arg,     \* where each client is, with the slot, data set or provider
  lease,       \* the providers whose facade each client holds
  source,      \* the providers that have their source
  slots,       \* _subscriptions; owner is who holds the Subscription object
  needTrim,    \* _dataSourcesNeedTrim
  change,      \* _changeEvent, auto-reset
  stopping,    \* _dataServiceStopping, and _stopEvent
  worker,      \* where the acquisition worker is
  place,       \* the provider it has reached
  marked,      \* the data sets marked active at the start of the pass
  due,         \* the data sets whose time has come
  taken,       \* what it collects of this provider
  todo,        \* what of it is not delivered yet
  batch        \* the slots whose sinks Deliver has copied; the least is in its call

clientVars == <<at, arg, lease>>
workerVars == <<worker, place, marked, due, taken, todo, batch>>
vars == <<clientVars, source, slots, needTrim, change, stopping, workerVars>>

None == 0
Free == [owner |-> Nobody, dataSet |-> None, active |-> FALSE, inFlight |-> 0]
Used(s) == slots[s].owner # Nobody
Of(p) == {d \in DataSets : ProviderOf[d] = p}
Least(S) == CHOOSE s \in S : \A r \in S : s <= r

Init == /\ at = [c \in Clients |-> "idle"]
        /\ arg = [c \in Clients |-> None]
        /\ lease = [c \in Clients |-> {}]
        /\ source = {}
        /\ slots = [s \in Slots |-> Free]
        /\ needTrim = FALSE
        /\ change = FALSE
        /\ stopping = FALSE
        /\ worker = "none"
        /\ place = 1
        /\ marked = {}
        /\ due = DataSets
        /\ taken = {}
        /\ todo = {}
        /\ batch = {}

Goes(c, from, to, x) == /\ at[c] = from
                        /\ at' = [at EXCEPT ![c] = to]
                        /\ arg' = [arg EXCEPT ![c] = x]

-----------------------------------------------------------------------------
(* Leases and their end.                                                   *)

\* Mutant: an inactive subscription is no lease.
UnleasedButInactive(p) == /\ \A c \in Clients : p \notin lease[c]
                          /\ \A s \in Slots : Used(s) /\ slots[s].active => ProviderOf[slots[s].dataSet] # p

\* Neither the facade nor a subscription is held.
Unleased(p) == /\ \A c \in Clients : p \notin lease[c]
               /\ \A s \in Slots : Used(s) => ProviderOf[slots[s].dataSet] # p

\* TrimIdleDataSources for one provider: its runtime starts afresh next time.
Reclaim(p) == IF p \in source /\ Unleased(p)
                THEN /\ source' = source \ {p}
                     /\ marked' = marked \ Of(p)
                     /\ due' = due \cup Of(p)
                ELSE UNCHANGED <<source, marked, due>>

-----------------------------------------------------------------------------
(* A client c.                                                             *)

\* EnsureProvider: the source is made if it is not there.
GetDataProvider(c, p) ==
  /\ at[c] = "idle"
  /\ ~stopping
  /\ p \notin lease[c]
  /\ lease' = [lease EXCEPT ![c] = @ \cup {p}]
  /\ source' = source \cup {p}
  /\ UNCHANGED <<at, arg, slots, needTrim, change, stopping, workerVars>>

\* DataProvider::Release; the last external reference asks for a trim.
ReleaseProvider(c, p) ==
  /\ p \in lease[c]
  /\ lease' = [lease EXCEPT ![c] = @ \ {p}]
  /\ Goes(c, "idle", IF \E b \in Clients \ {c} : p \in lease[b] THEN "idle" ELSE "request", None)
  /\ UNCHANGED <<source, slots, needTrim, change, stopping, workerVars>>

SubscribeBegin(c, d) ==
  /\ ~stopping
  /\ ProviderOf[d] \in lease[c] \cap source
  /\ Goes(c, "idle", "ensure", d)
  /\ UNCHANGED <<lease, source, slots, needTrim, change, stopping, workerVars>>

\* The first subscription starts the worker.
EnsureWorker(c) ==
  /\ Goes(c, "ensure", IF stopping THEN "idle" ELSE "subscribe", IF stopping THEN None ELSE arg[c])
  /\ IF worker = "none" /\ ~stopping
       THEN worker' = "mark" /\ change' = FALSE
       ELSE UNCHANGED <<worker, change>>
  /\ UNCHANGED <<lease, source, slots, needTrim, stopping, place, marked, due, taken, todo, batch>>

\* The events or the thread cannot be made.
EnsureWorkerFails(c) ==
  /\ Goes(c, "ensure", "idle", None)
  /\ worker = "none"
  /\ UNCHANGED <<lease, source, slots, needTrim, change, stopping, workerVars>>

CanSubscribe(c) == /\ ~stopping
                   /\ ProviderOf[arg[c]] \in source
                   /\ \E s \in Slots : ~Used(s)

\* The first free slot, inactive; or none is free, or the service stopped.
SubscribeEnd(c) ==
  /\ Goes(c, "subscribe", "idle", None)
  /\ IF CanSubscribe(c)
       THEN /\ slots' = [slots EXCEPT ![Least({s \in Slots : ~Used(s)})] =
                           [Free EXCEPT !.owner = c, !.dataSet = arg[c]]]
            /\ change' = TRUE
       ELSE UNCHANGED <<slots, change>>
  /\ UNCHANGED <<lease, source, needTrim, stopping, workerVars>>

\* Mutant: the worker is not told.
ActivateSilently(c, s) ==
  /\ at[c] = "idle"
  /\ ~stopping
  /\ slots[s].owner = c
  /\ ~slots[s].active
  /\ slots' = [slots EXCEPT ![s].active = TRUE]
  /\ UNCHANGED <<clientVars, source, needTrim, change, stopping, workerVars>>

\* SetActive(TRUE).
Activate(c, s) ==
  /\ at[c] = "idle"
  /\ ~stopping
  /\ slots[s].owner = c
  /\ ~slots[s].active
  /\ slots' = [slots EXCEPT ![s].active = TRUE]
  /\ change' = TRUE
  /\ UNCHANGED <<clientVars, source, needTrim, stopping, workerVars>>

\* SetActive(FALSE): first the flag, then the drain of what is on its way.
Deactivate(c, s) ==
  /\ ~stopping
  /\ slots[s].owner = c
  /\ slots[s].active
  /\ Goes(c, "idle", "drain", s)
  /\ slots' = [slots EXCEPT ![s].active = FALSE]
  /\ UNCHANGED <<lease, source, needTrim, change, stopping, workerVars>>

Drained(c) ==
  /\ Goes(c, "drain", "idle", None)
  /\ slots[arg[c]].inFlight = 0
  /\ change' = TRUE
  /\ UNCHANGED <<lease, source, slots, needTrim, stopping, workerVars>>

\* The last reference to a Subscription: RemoveSubscription.
Release(c, s) ==
  /\ slots[s].owner = c
  /\ Goes(c, "idle", "remove", s)
  /\ slots' = [slots EXCEPT ![s].active = FALSE]
  /\ UNCHANGED <<lease, source, needTrim, change, stopping, workerVars>>

\* Mutant: the slot is cleared at once.
RemovedAtOnce(c) ==
  /\ Goes(c, "remove", "request", None)
  /\ slots' = [slots EXCEPT ![arg[c]] = Free]
  /\ UNCHANGED <<lease, source, needTrim, change, stopping, workerVars>>

\* Mutant: nobody is asked to trim.
RemovedQuietly(c) ==
  /\ Goes(c, "remove", "idle", None)
  /\ slots[arg[c]].inFlight = 0
  /\ slots' = [slots EXCEPT ![arg[c]] = Free]
  /\ UNCHANGED <<lease, source, needTrim, change, stopping, workerVars>>

\* Its calls are over: the sink goes, and the slot is free.
Removed(c) ==
  /\ Goes(c, "remove", "request", None)
  /\ slots[arg[c]].inFlight = 0
  /\ slots' = [slots EXCEPT ![arg[c]] = Free]
  /\ UNCHANGED <<lease, source, needTrim, change, stopping, workerVars>>

\* RequestDataSourceTrim: the worker's task, or without one the caller's.
RequestTrim(c) ==
  /\ Goes(c, "request", IF worker = "none" /\ ~stopping THEN "trim" ELSE "idle", None)
  /\ needTrim' = (needTrim \/ ~stopping)
  /\ change' = (change \/ (worker # "none" /\ ~stopping))
  /\ UNCHANGED <<lease, source, slots, stopping, workerVars>>

TrimsHere == ~stopping /\ needTrim /\ worker = "none"

\* TrimIdleDataSources on the caller, unless a worker has come meanwhile.
TrimHere(c) ==
  /\ Goes(c, "trim", IF TrimsHere THEN "reclaim" ELSE "idle", IF TrimsHere THEN 1 ELSE None)
  /\ needTrim' = (needTrim /\ ~TrimsHere)
  /\ change' = (change \/ (~stopping /\ needTrim /\ worker # "none"))
  /\ UNCHANGED <<lease, source, slots, stopping, workerVars>>

ReclaimHere(c) ==
  /\ Goes(c, "reclaim", IF arg[c] = Count THEN "idle" ELSE "reclaim", IF arg[c] = Count THEN None ELSE arg[c] + 1)
  /\ Reclaim(arg[c])
  /\ UNCHANGED <<lease, slots, needTrim, change, stopping, worker, place, taken, todo, batch>>

\* StopDataService: the stop event, and the join.
Stop(c) ==
  /\ ~stopping
  /\ Goes(c, "idle", "join", None)
  /\ stopping' = TRUE
  /\ UNCHANGED <<lease, source, slots, needTrim, change, workerVars>>

\* The worker is gone: sinks and sources are released.
Joined(c) ==
  /\ Goes(c, "join", "idle", None)
  /\ worker \in {"none", "exited"}
  /\ worker' = "none"
  /\ slots' = [s \in Slots |-> Free]
  /\ source' = {}
  /\ marked' = {}
  /\ due' = DataSets
  /\ needTrim' = FALSE
  /\ change' = FALSE
  /\ UNCHANGED <<lease, stopping, place, taken, todo, batch>>

Waiting(c) == Drained(c) \/ Removed(c) \/ Joined(c)

Continuing(c) == \/ EnsureWorker(c) \/ EnsureWorkerFails(c) \/ SubscribeEnd(c)
                 \/ RequestTrim(c) \/ TrimHere(c) \/ ReclaimHere(c)

Calling(c) == \/ \E p \in Providers : GetDataProvider(c, p) \/ ReleaseProvider(c, p)
              \/ \E d \in DataSets : SubscribeBegin(c, d)
              \/ \E s \in Slots : Activate(c, s) \/ Deactivate(c, s) \/ Release(c, s)
              \/ Stop(c)

-----------------------------------------------------------------------------
(* The acquisition worker.                                                 *)

WorkerGoes(from, to) == worker = from /\ worker' = to

\* What is active, with one subscription or more.
Wanted == {slots[s].dataSet : s \in {r \in Slots : Used(r) /\ slots[r].active}}

\* A pass begins.
Mark == /\ WorkerGoes("mark", "due")
        /\ marked' = Wanted
        /\ place' = 1
        /\ UNCHANGED <<clientVars, source, slots, needTrim, change, stopping, due, taken, todo, batch>>

NextPlace == /\ place' = IF place = Count THEN 1 ELSE place + 1
             /\ worker' = IF place = Count THEN "trim" ELSE "due"

\* What is due of this provider; what is not active will be due at once when it is.
Due == LET mine == IF place \in source THEN Of(place) ELSE {}
           now == mine \cap marked \cap due
       IN /\ worker = "due"
          /\ due' = due \cup (mine \ marked)
          /\ taken' = now
          /\ todo' = now
          /\ IF now = {} THEN NextPlace ELSE worker' = "collect" /\ place' = place
          /\ UNCHANGED <<clientVars, source, slots, needTrim, change, stopping, marked, batch>>

\* CollectSnapshots, outside the lock; if it fails, nothing is delivered.
Collect == /\ worker = "collect"
           /\ \/ worker' = "deliver" /\ todo' = todo
              \/ worker' = "rearm" /\ todo' = {}
           /\ UNCHANGED <<clientVars, source, slots, needTrim, change, stopping, place, marked, due, taken, batch>>

\* Deliver reserves the active subscriptions of one data set.
Reserve == /\ worker = "deliver"
           /\ \E d \in todo :
                LET sinks == {s \in Slots : Used(s) /\ slots[s].active /\ slots[s].dataSet = d}
                IN /\ todo' = todo \ {d}
                   /\ batch' = sinks
                   /\ slots' = [s \in Slots |-> IF s \in sinks THEN [slots[s] EXCEPT !.inFlight = @ + 1]
                                                               ELSE slots[s]]
                   /\ worker' = IF sinks # {} THEN "call" ELSE IF todo' # {} THEN "deliver" ELSE "rearm"
           /\ UNCHANGED <<clientVars, source, needTrim, change, stopping, place, marked, due, taken>>

\* Mutant: the reservation of an inactive subscription is forgotten.
CallEndsActive ==
  /\ worker = "call"
  /\ LET s == Least(batch)
     IN /\ batch' = batch \ {s}
        /\ slots' = [slots EXCEPT ![s].inFlight = IF slots[s].active THEN @ - 1 ELSE @]
        /\ worker' = IF batch' # {} THEN "call" ELSE IF todo # {} THEN "deliver" ELSE "rearm"
  /\ UNCHANGED <<clientVars, source, needTrim, change, stopping, place, marked, due, taken, todo>>

\* OnDataSnapshot has returned; its reservation is given back, and the next
\* sink's call begins.
CallEnds ==
  /\ worker = "call"
  /\ LET s == Least(batch)
     IN /\ batch' = batch \ {s}
        /\ slots' = [slots EXCEPT ![s].inFlight = @ - 1]
        /\ worker' = IF batch' # {} THEN "call" ELSE IF todo # {} THEN "deliver" ELSE "rearm"
  /\ UNCHANGED <<clientVars, source, needTrim, change, stopping, place, marked, due, taken, todo>>

\* The next time of what was collected.
Rearm == /\ worker = "rearm"
         /\ due' = due \ taken
         /\ taken' = {}
         /\ NextPlace
         /\ UNCHANGED <<clientVars, source, slots, needTrim, change, stopping, marked, todo, batch>>

Trim == /\ WorkerGoes("trim", IF needTrim /\ ~stopping THEN "reclaim" ELSE "wait")
        /\ needTrim' = (needTrim /\ stopping)
        /\ UNCHANGED <<clientVars, source, slots, change, stopping, place, marked, due, taken, todo, batch>>

ReclaimNext == /\ WorkerGoes("reclaim", IF place = Count THEN "wait" ELSE "reclaim")
               /\ place' = IF place = Count THEN 1 ELSE place + 1
               /\ Reclaim(place)
               /\ UNCHANGED <<clientVars, slots, needTrim, change, stopping, taken, todo, batch>>

\* WaitForMultipleObjects: the stop event comes first.
WakeToStop == /\ WorkerGoes("wait", "exited")
              /\ stopping
              /\ UNCHANGED <<clientVars, source, slots, needTrim, change, stopping,
                             place, marked, due, taken, todo, batch>>

WakeToChange == /\ WorkerGoes("wait", "changed")
                /\ ~stopping
                /\ change
                /\ change' = FALSE
                /\ UNCHANGED <<clientVars, source, slots, needTrim, stopping,
                               place, marked, due, taken, todo, batch>>

\* Everything is due after a change.
Changed == /\ WorkerGoes("changed", "mark")
           /\ due' = DataSets
           /\ UNCHANGED <<clientVars, source, slots, needTrim, change, stopping,
                          place, marked, taken, todo, batch>>

\* The wait times out when something it knows to be active is due.
WakeToCollect == /\ WorkerGoes("wait", "mark")
                 /\ ~stopping
                 /\ ~change
                 /\ marked \cap due # {}
                 /\ UNCHANGED <<clientVars, source, slots, needTrim, change, stopping,
                                place, marked, due, taken, todo, batch>>

\* The time of a data set comes.
Elapse(d) == /\ d \in marked \ due
             /\ due' = due \cup {d}
             /\ UNCHANGED <<clientVars, source, slots, needTrim, change, stopping,
                            worker, place, marked, taken, todo, batch>>

Worker == \/ Mark \/ Due \/ Collect \/ Reserve \/ CallEnds \/ Rearm \/ Trim \/ ReclaimNext
          \/ WakeToStop \/ WakeToChange \/ Changed \/ WakeToCollect

Next == \/ \E c \in Clients : Calling(c) \/ Waiting(c) \/ Continuing(c)
        \/ Worker
        \/ \E d \in DataSets : Elapse(d)

Spec == Init /\ [][Next]_vars

\* The worker runs, sinks return, a client that is in a call goes on, and time passes.
FairSpec == /\ Spec
            /\ WF_vars(Worker)
            /\ \A c \in Clients : WF_vars(Waiting(c) \/ Continuing(c))
            /\ \A d \in DataSets : WF_vars(Elapse(d))

-----------------------------------------------------------------------------
(* Properties.                                                             *)

ClientStates == {"idle", "ensure", "subscribe", "drain", "remove", "request", "trim", "reclaim", "join"}
WorkerStates == {"none", "mark", "due", "collect", "deliver", "call", "rearm", "trim", "reclaim",
                 "wait", "changed", "exited"}
Slot == [owner : Clients \cup {Nobody}, dataSet : DataSets \cup {None}, active : BOOLEAN, inFlight : 0 .. 1]

TypeOK == /\ at \in [Clients -> ClientStates]
          /\ arg \in [Clients -> Slots \cup DataSets \cup Providers \cup {None}]
          /\ lease \in [Clients -> SUBSET Providers]
          /\ source \subseteq Providers
          /\ slots \in [Slots -> Slot]
          /\ needTrim \in BOOLEAN
          /\ change \in BOOLEAN
          /\ stopping \in BOOLEAN
          /\ worker \in WorkerStates
          /\ place \in Providers
          /\ marked \subseteq DataSets
          /\ due \subseteq DataSets
          /\ taken \subseteq DataSets
          /\ todo \subseteq taken
          /\ batch \subseteq Slots

Ending(s) == \E c \in Clients : at[c] \in {"drain", "remove"} /\ arg[c] = s

\* SetActive(FALSE) and the release of a subscription return only when its
\* sink is in no call and in no copy the worker will still call (Data.h): a
\* sink copied is active, or somebody is waiting for it.
QuietAfterReturn == \A s \in batch : Used(s) /\ (slots[s].active \/ Ending(s))

\* A source stays while a facade or a subscription leases it, an inactive or
\* ending one too, and while the worker is between collecting from it and
\* writing the next times into its records.
SourceIsKept ==
  /\ ~stopping => /\ \A c \in Clients : lease[c] \subseteq source
                  /\ \A s \in Slots : Used(s) => ProviderOf[slots[s].dataSet] \in source
  /\ worker \in {"collect", "deliver", "call", "rearm"} => place \in source

\* No activation is overlooked: what is active is in the worker's pass, or the
\* worker begins a new pass before it sleeps again.
ActivationIsSeen ==
  \A s \in Slots : Used(s) /\ slots[s].active =>
    slots[s].dataSet \in marked \/ change \/ stopping \/ worker \in {"changed", "mark"}

\* Somebody is on the way to the source of p with the order to trim: the client
\* about to ask, one that walks the sources itself or is about to, the worker at
\* its walk or before it.
TrimIsComing(p) ==
  \/ \E c \in Clients : at[c] = "request" \/ (at[c] = "reclaim" /\ arg[c] <= p)
  \/ worker = "reclaim" /\ place <= p
  \/ needTrim /\ \/ \E c \in Clients : at[c] = "trim"
                 \/ change
                 \/ worker \notin {"none", "reclaim", "wait", "exited"}

\* No source is forgotten: nobody leases it, so a trim that will reach it is on
\* its way, whoever of several clients and the worker has taken the order over.
UnleasedIsRemembered == ~stopping => \A p \in source : Unleased(p) => TrimIsComing(p)

\* What the callers leave to others is not lost between them: the change event
\* and the trim flag survive every pass, hand-over and failed start.
NothingIsOverlooked == ActivationIsSeen /\ UnleasedIsRemembered

\* What is activated gets into a collection, unless it is deactivated first or
\* the service stops.
ActiveIsCollected ==
  \A s \in Slots : slots[s].active ~> \/ ~slots[s].active
                                      \/ stopping
                                      \/ worker = "collect" /\ slots[s].dataSet \in taken

\* A source nobody leases any more is released.
UnleasedIsReclaimed == \A p \in Providers : p \in source /\ Unleased(p) ~> p \notin source \/ ~Unleased(p)

\* No call into the service waits for ever: not for a sink, not for the worker.
CallsReturn == \A c \in Clients : at[c] # "idle" ~> at[c] = "idle"
=============================================================================
