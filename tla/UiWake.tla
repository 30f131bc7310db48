-------------------------------- MODULE UiWake --------------------------------
(***************************************************************************)
(* One coalesced window message wakes the UI thread for every worker of    *)
(* the plugin host: the control and construction lanes, data deliveries,   *)
(* widget status reports and settings submissions all call                 *)
(* RequestUiInvalidate, and AcknowledgeUiInvalidate drains them in turn    *)
(* (RedXe/PluginHost.cpp).  RequestHostActionDrain and DrainHostActions are*)
(* the same protocol with a flag of their own.                             *)
(***************************************************************************)
EXTENDS Integers

CONSTANT Producers     \* the threads that publish something for the UI

VARIABLES
  ready,    \* ready[p]: p has published something the UI has not taken
  at,       \* where p's RequestUiInvalidate is
  target,   \* _uiWindow: "unset", "set", "cleared"
  pending,  \* _pendingInvalidate
  posted,   \* messages in the window's queue
  ui,       \* "idle", "ack" or "drain"
  todo,     \* producers the running drain has still to look at
  lost      \* the last attempt to post had no window or failed (history)

vars == <<ready, at, target, pending, posted, ui, todo, lost>>

Init == /\ ready = [p \in Producers |-> FALSE]
        /\ at = [p \in Producers |-> "idle"]
        /\ target = "unset"
        /\ pending = FALSE
        /\ posted = 0
        /\ ui = "idle"
        /\ todo = {}
        /\ lost = FALSE

Step(p, from, to) == at[p] = from /\ at' = [at EXCEPT ![p] = to]

-----------------------------------------------------------------------------
(* A producer p.                                                           *)

\* The result, its flag and then the wake-up, in this order.
Publish(p) == /\ Step(p, "idle", "load")
              /\ ready' = [ready EXCEPT ![p] = TRUE]
              /\ UNCHANGED <<target, pending, posted, ui, todo, lost>>

\* No window yet, or no longer: the request is dropped.
LoadTarget(p) == /\ Step(p, "load", IF target = "set" THEN "exchange" ELSE "idle")
                 /\ lost' = (lost \/ target # "set")
                 /\ UNCHANGED <<ready, target, pending, posted, ui, todo>>

\* _pendingInvalidate.exchange(1): a message is on its way already, or p posts.
Exchange(p) == /\ Step(p, "exchange", IF pending THEN "idle" ELSE "post")
               /\ pending' = TRUE
               /\ UNCHANGED <<ready, target, posted, ui, todo, lost>>

\* PostMessageW succeeds ...
Post(p) == /\ Step(p, "post", "idle")
           /\ posted' = posted + 1
           /\ lost' = FALSE
           /\ UNCHANGED <<ready, target, pending, ui, todo>>

\* ... or fails,
PostFails(p) == /\ Step(p, "post", "undo")
                /\ lost' = TRUE
                /\ UNCHANGED <<ready, target, pending, posted, ui, todo>>

\* and the flag is handed back.
Undo(p) == /\ Step(p, "undo", "idle")
           /\ pending' = FALSE
           /\ UNCHANGED <<ready, target, posted, ui, todo, lost>>

-----------------------------------------------------------------------------
(* The UI thread.                                                          *)

\* SetUiInvalidateTarget(window), once the window has a renderer.
SetTarget == /\ ui = "idle"
             /\ target = "unset"
             /\ target' = "set"
             /\ UNCHANGED <<ready, at, pending, posted, ui, todo, lost>>

\* SetUiInvalidateTarget(nullptr), when the window closes.  (Two
\* stores; no property speaks of what follows the first.)
ClearTarget == /\ ui = "idle"
               /\ target = "set"
               /\ target' = "cleared"
               /\ pending' = FALSE
               /\ UNCHANGED <<ready, at, posted, ui, todo, lost>>

\* The message loop takes the message.
Receive == /\ ui = "idle"
           /\ target = "set"
           /\ posted > 0
           /\ posted' = posted - 1
           /\ ui' = "ack"
           /\ UNCHANGED <<ready, at, target, pending, todo, lost>>

\* The flag is handed back before anything is drained.
Acknowledge == /\ ui = "ack"
               /\ pending' = FALSE
               /\ todo' = Producers
               /\ ui' = "drain"
               /\ UNCHANGED <<ready, at, target, posted, lost>>

\* One producer's turn: what it has published is taken.
Drain(p) == /\ ui = "drain"
            /\ p \in todo
            /\ ready' = [ready EXCEPT ![p] = FALSE]
            /\ todo' = todo \ {p}
            /\ UNCHANGED <<at, target, pending, posted, ui, lost>>

DrainEnd == /\ ui = "drain"
            /\ todo = {}
            /\ ui' = "idle"
            /\ UNCHANGED <<ready, at, target, pending, posted, todo, lost>>

-----------------------------------------------------------------------------
Request(p) == LoadTarget(p) \/ Exchange(p) \/ Post(p) \/ PostFails(p) \/ Undo(p)

Ui == Receive \/ Acknowledge \/ DrainEnd \/ \E p \in Producers : Drain(p)

Next == \/ SetTarget
        \/ ClearTarget
        \/ Ui
        \/ \E p \in Producers : Publish(p) \/ Request(p)

Spec == Init /\ [][Next]_vars

\* Threads inside RequestUiInvalidate go on and the message loop keeps running.
FairSpec == Spec /\ WF_vars(Ui) /\ \A p \in Producers : WF_vars(Request(p))

-----------------------------------------------------------------------------
(* Properties.                                                             *)

ThreadStates == {"idle", "load", "exchange", "post", "undo"}

TypeOK == /\ ready \in [Producers -> BOOLEAN]
          /\ at \in [Producers -> ThreadStates]
          /\ target \in {"unset", "set", "cleared"}
          /\ pending \in BOOLEAN
          /\ posted \in Nat
          /\ ui \in {"idle", "ack", "drain"}
          /\ todo \in SUBSET Producers
          /\ lost \in BOOLEAN

Posting == {p \in Producers : at[p] \in {"post", "undo"}}

\* While the window lives, the flag stands for one message and no more: one
\* thread about to post it or to hand it back, one message in the queue, or one
\* about to be acknowledged.  No number of workers floods the UI queue.
OneMessage ==
  target # "cleared" =>
    /\ posted <= 1
    /\ pending <=> (Posting # {} \/ posted = 1 \/ ui = "ack")
    /\ \A p, q \in Posting : p = q
    /\ Posting # {} => posted = 0 /\ ui # "ack"
    /\ ui = "ack" => posted = 0

\* What a worker has published is never left behind: its own request, another
\* worker's, a message or a drain is still to come, unless the last attempt to
\* post was dropped for want of a window or failed.
NoLostWakeup ==
  target # "cleared" =>
    \A p \in Producers :
      ready[p] => \/ at[p] \in {"load", "exchange"}
                  \/ Posting # {}
                  \/ posted > 0
                  \/ ui = "ack"
                  \/ p \in todo
                  \/ lost

\* If the window stays and posts succeed, everything published is taken.
PublishedIsTaken ==
  \A p \in Producers : ready[p] ~> ~ready[p] \/ lost \/ target = "cleared"
=============================================================================
