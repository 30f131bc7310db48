------------------------------ MODULE HostActions ------------------------------
(***************************************************************************)
(* Input actions of the host: the ring of requests any thread may fill and *)
(* the UI thread drains (RedXe/PluginHost.cpp), and the key chord and the  *)
(* mouse button that keys.down and mouse.down leave pressed until an up, a *)
(* deadline, the closing window or the shutdown releases them              *)
(* (RedXe/HostActions.cpp).                                                *)
(*                                                                         *)
(* Only the actions that press or release something are requests here; all *)
(* the others leave the holds alone.  A chord is one input: SendInput takes*)
(* or refuses it as a whole.  Device access is on.  Time passes in ticks,  *)
(* and is kept as what remains of each deadline and as the age of each     *)
(* request.                                                                *)
(***************************************************************************)
EXTENDS Integers, Sequences

CONSTANTS
  Keys, Buttons,   \* the chords and the buttons actions name
  None,            \* no chord or button recorded yet
  Threads,         \* the threads that call RequestAction
  Slots,           \* kHostActionRingSlots
  MaxAge,          \* kMaximumQueuedInputAgeMilliseconds
  HoldTime,        \* kHeldReleaseMilliseconds
  RetryTime,       \* kHeldReleaseRetryMilliseconds
  MaxAttempts,     \* kMaximumHeldReleaseAttempts
  MaxRequests      \* bound: requests and executions in a behaviour

ASSUME InputsAssumption == Keys \cap Buttons = {} /\ None \notin Keys \cup Buttons

ASSUME LimitsAssumption == /\ Slots \in Nat \ {0}
                           /\ MaxAge \in Nat
                           /\ HoldTime \in Nat
                           /\ RetryTime \in Nat
                           /\ MaxAttempts \in Nat \ {0}
                           /\ MaxRequests \in Nat

VARIABLES
  ring,     \* _hostActions from head on: [verb, input, age]
  at,       \* where each thread is in RequestAction
  pending,  \* _pendingHostActionPost
  posted,   \* kHostActionMessage in the window's queue
  lost,     \* the last attempt to post failed (history)
  ui,       \* "idle", or "drain" in DrainHostActions
  hold,     \* g_chord with g_heldChord, g_mouse with its flags, and their history
  timer,    \* what remains of kHeldInputTimerId
  phase,    \* "open", "closed" (no window), "shutdown"
  made      \* requests so far (bound)

ringVars == <<ring, at, pending, posted, lost>>
holdVars == <<hold, timer>>
vars == <<ringVars, ui, holdVars, phase, made>>

Inputs == Keys \cup Buttons
Verbs == {"down", "up"}
Kinds == {"chord", "button"}
KindOf(i) == IF i \in Keys THEN "chord" ELSE "button"
Of(kind) == {i \in Inputs : KindOf(i) = kind}
NoTimer == -1

\* A Hold and the input it is for.  History: what RedXe has pressed and not
\* released, what of it was given up, what the deadline released before the
\* up came, and what the last step injected.
NoHold == [input |-> None, held |-> FALSE, due |-> 0, failed |-> 0, expired |-> FALSE,
           pressed |-> {}, abandoned |-> {}, late |-> {}, sent |-> {}]

Init == /\ ring = <<>>
        /\ at = [t \in Threads |-> "idle"]
        /\ pending = FALSE
        /\ posted = 0
        /\ lost = FALSE
        /\ ui = "idle"
        /\ hold = [k \in Kinds |-> NoHold]
        /\ timer = NoTimer
        /\ phase = "open"
        /\ made = 0

-----------------------------------------------------------------------------
(* One hold h.  ok is what SendInput answers.                              *)

Quiet(h) == [h EXCEPT !.sent = {}]

\* BeginHold, for an input i just pressed.
Begin(h, i) == [h EXCEPT !.input = i, !.held = TRUE, !.due = HoldTime, !.failed = 0, !.expired = FALSE,
                         !.pressed = @ \cup {i}, !.abandoned = @ \ {i}, !.late = @ \ {i},
                         !.sent = @ \cup {<<"down", i>>}]

\* The up of i reaches the input queue.
Lift(h, i) == [h EXCEPT !.pressed = @ \ {i}, !.abandoned = @ \ {i}, !.sent = @ \cup {<<"up", i>>}]

\* Mutant: refusals are not counted.
ReleaseUncounted(h, ok, expired, retry) ==
  IF ~h.held THEN h
  ELSE IF ok
    THEN [Lift(h, h.input) EXCEPT !.held = FALSE, !.expired = expired, !.failed = 0,
                                  !.late = IF expired THEN @ \cup {h.input} ELSE @]
  ELSE IF retry THEN [h EXCEPT !.due = RetryTime]
  ELSE [h EXCEPT !.held = FALSE, !.expired = FALSE, !.failed = 0, !.abandoned = @ \cup {h.input}]

\* ReleaseChord, ReleaseMouse: a refused release is retried later, until the
\* attempts are used up or there is nobody left to retry it.
Release(h, ok, expired, retry) ==
  IF ~h.held THEN h
  ELSE IF ok
    THEN [Lift(h, h.input) EXCEPT !.held = FALSE, !.expired = expired, !.failed = 0,
                                  !.late = IF expired THEN @ \cup {h.input} ELSE @]
  ELSE IF retry /\ h.failed + 1 < MaxAttempts
    THEN [h EXCEPT !.failed = @ + 1, !.due = RetryTime]
  ELSE [h EXCEPT !.held = FALSE, !.expired = FALSE, !.failed = 0, !.abandoned = @ \cup {h.input}]

\* ExpireHeld's part for one hold.
Expire(h, ok) == IF h.held /\ h.due = 0 THEN Release(h, ok, TRUE, TRUE) ELSE h

\* Mutant: the new input is pressed over a refused release.
DownOverRefused(h, i, released, ok) ==
  LET r == Release(h, released, FALSE, TRUE) IN IF ok THEN Begin(r, i) ELSE r

\* keys.down, mouse.down: the hold before this one is released first.
Down(h, i, released, ok) ==
  LET r == Release(h, released, FALSE, TRUE) IN
  IF (h.held => released) /\ ok THEN Begin(r, i) ELSE r

\* keys.up, mouse.up: the end of the hold, the late up of an expired one, or a
\* release on its own.
Up(h, i, ok) ==
  LET u == [h EXCEPT !.late = @ \ {i}] IN
  IF h.held /\ i = h.input THEN Release(u, ok, FALSE, TRUE)
  ELSE IF h.expired /\ i = h.input THEN [u EXCEPT !.expired = FALSE]
  ELSE IF ok THEN Lift(u, i) ELSE u

\* Mutant: the timer is armed for the later deadline.
ArmLatest(h) ==
  IF phase # "open" THEN timer
  ELSE IF \A k \in Kinds : ~h[k].held THEN NoTimer
  ELSE CHOOSE d \in {h[k].due : k \in {j \in Kinds : h[j].held}} : \A k \in Kinds : h[k].held => h[k].due <= d

\* ArmHeldTimer: the earlier deadline.
Arm(h) ==
  IF phase # "open" THEN timer
  ELSE IF \A k \in Kinds : ~h[k].held THEN NoTimer
  ELSE CHOOSE d \in {h[k].due : k \in {j \in Kinds : h[j].held}} : \A k \in Kinds : h[k].held => d <= h[k].due

\* HostActions::Execute: what is due first, then the action.
Execute(verb, i) ==
  \E due \in [Kinds -> BOOLEAN], released, ok \in BOOLEAN :
    LET expired == [k \in Kinds |-> Expire(Quiet(hold[k]), due[k])]
        h == expired[KindOf(i)]
        after == [expired EXCEPT ![KindOf(i)] = IF verb = "down" THEN Down(h, i, released, ok) ELSE Up(h, i, ok)]
    IN hold' = after /\ timer' = Arm(after)

-----------------------------------------------------------------------------
(* RequestAction, by a thread t.                                           *)

Same(r, verb, i) == r.verb = verb /\ r.input = i

\* An identical request is pending: it takes the new time, and nothing is posted.
Coalesce(t, verb, i) ==
  /\ at[t] = "idle"
  /\ phase # "shutdown"
  /\ made < MaxRequests
  /\ \E n \in 1 .. Len(ring) : Same(ring[n], verb, i) /\ ring' = [ring EXCEPT ![n].age = 0]
  /\ made' = made + 1
  /\ UNCHANGED <<at, pending, posted, lost, ui, holdVars, phase>>

\* A new request; a full ring answers ERROR_BUSY.
Request(t, verb, i) ==
  /\ at[t] = "idle"
  /\ phase # "shutdown"
  /\ made < MaxRequests
  /\ \A n \in 1 .. Len(ring) : ~Same(ring[n], verb, i)
  /\ Len(ring) < Slots
  /\ ring' = Append(ring, [verb |-> verb, input |-> i, age |-> 0])
  /\ at' = [at EXCEPT ![t] = "ask"]
  /\ made' = made + 1
  /\ UNCHANGED <<pending, posted, lost, ui, holdVars, phase>>

\* RequestHostActionDrain: without a window, or with a message on its way, done.
Ask(t) == /\ at[t] = "ask"
          /\ at' = [at EXCEPT ![t] = IF phase = "open" /\ ~pending THEN "post" ELSE "idle"]
          /\ pending' = (pending \/ phase = "open")
          /\ UNCHANGED <<ring, posted, lost, ui, holdVars, phase, made>>

Post(t) == /\ at[t] = "post"
           /\ at' = [at EXCEPT ![t] = "idle"]
           /\ posted' = posted + 1
           /\ lost' = FALSE
           /\ UNCHANGED <<ring, pending, ui, holdVars, phase, made>>

\* PostMessageW fails: the flag is handed back, and the request stays.  (UiWake
\* has the two steps of it apart.)
PostFails(t) == /\ at[t] = "post"
                /\ at' = [at EXCEPT ![t] = "idle"]
                /\ pending' = FALSE
                /\ lost' = TRUE
                /\ UNCHANGED <<ring, posted, ui, holdVars, phase, made>>

-----------------------------------------------------------------------------
(* The UI thread.                                                          *)

\* Mutant: the flag is not handed back before the ring is drained.
ReceiveFlagged == /\ ui = "idle"
                  /\ phase = "open"
                  /\ posted > 0
                  /\ posted' = posted - 1
                  /\ ui' = "drain"
                  /\ UNCHANGED <<ring, at, pending, lost, holdVars, phase, made>>

\* The message, and the start of DrainHostActions.
Receive == /\ ui = "idle"
           /\ phase = "open"
           /\ posted > 0
           /\ posted' = posted - 1
           /\ pending' = FALSE
           /\ ui' = "drain"
           /\ UNCHANGED <<ring, at, lost, holdVars, phase, made>>

\* Mutant: the target of the up is not compared.
ReleasesAnyHold(r) ==
  LET h == hold[KindOf(r.input)] IN r.verb = "up" /\ (h.held \/ h.expired)

ReleasesTrackedHold(r) ==
  LET h == hold[KindOf(r.input)] IN r.verb = "up" /\ (h.held \/ h.expired) /\ r.input = h.input

IsExpiredInput(r) == r.age > MaxAge /\ ~ReleasesTrackedHold(r)

\* The oldest request is taken, and dropped for its age or executed.
DrainOne == /\ ui = "drain"
            /\ ring # <<>>
            /\ ring' = Tail(ring)
            /\ IF IsExpiredInput(Head(ring))
                 THEN hold' = [k \in Kinds |-> Quiet(hold[k])] /\ timer' = timer
                 ELSE Execute(Head(ring).verb, Head(ring).input)
            /\ UNCHANGED <<at, pending, posted, lost, ui, phase, made>>

DrainEnd == /\ ui = "drain"
            /\ ring = <<>>
            /\ ui' = "idle"
            /\ UNCHANGED <<ringVars, holdVars, phase, made>>

\* A widget's input handler calls ExecuteAction: no ring, no age.
ExecuteAction(verb, i) == /\ ui = "idle"
                          /\ phase # "shutdown"
                          /\ made < MaxRequests
                          /\ Execute(verb, i)
                          /\ made' = made + 1
                          /\ UNCHANGED <<ringVars, ui, phase>>

\* WM_TIMER, at its time or later.
OnHeldTimer == /\ ui = "idle"
               /\ timer = 0
               /\ \E due \in [Kinds -> BOOLEAN] :
                    LET after == [k \in Kinds |-> Expire(Quiet(hold[k]), due[k])]
                    IN hold' = after /\ timer' = Arm(after)
               /\ UNCHANGED <<ringVars, ui, phase, made>>

\* CloseMainWindow: the post target and the message queue go, and the holds get
\* their last attempt.
Close == /\ ui = "idle"
         /\ phase = "open"
         /\ phase' = "closed"
         /\ posted' = 0
         /\ \E ok \in [Kinds -> BOOLEAN] :
              hold' = [k \in Kinds |-> Release(Quiet(hold[k]), ok[k], FALSE, FALSE)]
         /\ timer' = NoTimer
         /\ UNCHANGED <<ring, at, pending, lost, ui, made>>

\* PluginHost::Shutdown: the ring is emptied, unless a stuck lane makes the
\* runtime stay; anything held since gets one more attempt.
Shutdown == /\ phase = "closed"
            /\ phase' = "shutdown"
            /\ \/ ring' = <<>> /\ pending' = FALSE
               \/ UNCHANGED <<ring, pending>>
            /\ \E ok \in [Kinds -> BOOLEAN] :
                 hold' = [k \in Kinds |-> [Release(Quiet(hold[k]), ok[k], FALSE, FALSE)
                                            EXCEPT !.due = 0, !.failed = 0, !.expired = FALSE]]
            /\ UNCHANGED <<at, posted, lost, ui, timer, made>>

-----------------------------------------------------------------------------
Less(n) == IF n > 0 THEN n - 1 ELSE n

\* A tick passes for the holds, the timer and the requests (whose age counts
\* to MaxAge + 1: older is all the same).
Tick == /\ \/ \E n \in 1 .. Len(ring) : ring[n].age <= MaxAge
           \/ \E k \in Kinds : hold[k].due > 0
        /\ ring' = [n \in 1 .. Len(ring) |-> [ring[n] EXCEPT !.age = IF @ <= MaxAge THEN @ + 1 ELSE @]]
        /\ hold' = [k \in Kinds |-> [Quiet(hold[k]) EXCEPT !.due = Less(@)]]
        /\ timer' = Less(timer)
        /\ UNCHANGED <<at, pending, posted, lost, ui, phase, made>>

Drain == Receive \/ DrainOne \/ DrainEnd

Requesting(t) == \/ \E verb \in Verbs, i \in Inputs : Coalesce(t, verb, i) \/ Request(t, verb, i)
                 \/ Ask(t) \/ Post(t) \/ PostFails(t)

Next == \/ \E t \in Threads : Requesting(t)
        \/ Drain
        \/ \E verb \in Verbs, i \in Inputs : ExecuteAction(verb, i)
        \/ OnHeldTimer
        \/ Close
        \/ Shutdown
        \/ Tick

Spec == Init /\ [][Next]_vars

\* Time passes, the message loop keeps running, and a closed host shuts down.
FairSpec == Spec /\ WF_vars(Tick) /\ WF_vars(Drain) /\ WF_vars(OnHeldTimer) /\ WF_vars(Shutdown)

-----------------------------------------------------------------------------
(* Properties.                                                             *)

Requests == [verb : Verbs, input : Inputs, age : 0 .. MaxAge + 1]

Holds(kind) == [input : Of(kind) \cup {None}, held : BOOLEAN, due : Nat, failed : 0 .. MaxAttempts - 1,
                expired : BOOLEAN, pressed : SUBSET Of(kind), abandoned : SUBSET Of(kind),
                late : SUBSET Of(kind), sent : SUBSET (Verbs \X Of(kind))]

TypeOK == /\ ring \in Seq(Requests)
          /\ Len(ring) <= Slots
          /\ at \in [Threads -> {"idle", "ask", "post"}]
          /\ pending \in BOOLEAN
          /\ posted \in Nat
          /\ lost \in BOOLEAN
          /\ ui \in {"idle", "drain"}
          /\ DOMAIN hold = Kinds
          /\ \A k \in Kinds : hold[k] \in Holds(k)
          /\ timer \in Nat \cup {NoTimer}
          /\ phase \in {"open", "closed", "shutdown"}
          /\ made \in 0 .. MaxRequests

\* What RedXe pressed and has not released is what its holds are for, and what
\* it gave up after the last attempt: no sequence of downs, ups, refusals and
\* deadlines leaves a key down that nobody will release.
HoldsAreExact ==
  \A k \in Kinds :
    LET h == hold[k] IN
    /\ h.abandoned \subseteq h.pressed
    /\ h.pressed \ h.abandoned = (IF h.held THEN {h.input} ELSE {})

\* While there is a window, its timer runs for every hold, and not for longer
\* than the hold's deadline or its next retry.
HoldIsTimed ==
  phase = "open" => \A k \in Kinds : hold[k].held => timer # NoTimer /\ timer <= hold[k].due

\* Whatever is pressed will be released: it has a hold, and the hold has a
\* deadline that is on its way (HostActions' holds and their one timer).
HoldsAreKept == HoldsAreExact /\ HoldIsTimed

\* A pending request is never left behind: a message, a drain or the thread
\* that will post is there, unless the last attempt to post failed.
RequestsAreWoken ==
  phase = "open" /\ ring # <<>> => \/ posted > 0
                                   \/ ui = "drain"
                                   \/ \E t \in Threads : at[t] # "idle"
                                   \/ lost

Taken == ui = "drain" /\ ring # <<>> /\ ring' = Tail(ring)

\* A request that waited too long presses nothing and lifts nothing but what
\* RedXe pressed itself; the up of a hold is not lost for its age.
AgedInputIsSafe ==
  [][Taken /\ Head(ring).age > MaxAge =>
       \A k \in Kinds :
         /\ \A s \in hold'[k].sent : s[1] = "up" /\ s[2] \in hold[k].pressed
         /\ hold[k].held /\ Head(ring).verb = "up" /\ Head(ring).input = hold[k].input =>
              ~hold'[k].held \/ hold'[k].failed > hold[k].failed]_vars

\* Every hold ends: by an up, its deadline and the retries, or the shutdown.
PressEnds == \A k \in Kinds : hold[k].held ~> ~hold[k].held

\* "Once the deadline has released a hold, the up naming the same chord or
\* button injects nothing" (Specs/Plugins/Plugins_Actions.md).
LateUpInjectsNothing ==
  [][hold' # hold => \A k \in Kinds : \A i \in hold[k].late : <<"up", i>> \notin hold'[k].sent]_vars
=============================================================================
