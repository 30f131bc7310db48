-------------------------- MODULE HostActions_proofs --------------------------
(***************************************************************************)
(* Proofs about the host's input actions, for any chords and buttons, any  *)
(* number of threads, any ring and any deadlines.                          *)
(***************************************************************************)
EXTENDS HostActions, SequenceTheorems, TLAPS

-----------------------------------------------------------------------------
(* One hold: what each operation on it keeps.                              *)

Exact(h) == /\ h.abandoned \subseteq h.pressed
            /\ h.pressed \ h.abandoned = (IF h.held THEN {h.input} ELSE {})

Good(kind, h) == h \in Holds(kind) /\ Exact(h)

\* The two kinds are apart, and every input is of the kind it names.
LEMMA KindFacts ==
  /\ \A i \in Inputs : KindOf(i) \in Kinds /\ i \in Of(KindOf(i)) /\ i # None
  /\ \A k \in Kinds : None \notin Of(k) /\ Of(k) \subseteq Inputs
  BY InputsAssumption DEF Inputs, KindOf, Kinds, Of

LEMMA NoHoldGood == ASSUME NEW k \in Kinds PROVE Good(k, NoHold) /\ ~NoHold.held
  BY LimitsAssumption DEF Good, Exact, Holds, NoHold

LEMMA QuietGood ==
  ASSUME NEW k \in Kinds, NEW h, Good(k, h)
  PROVE  /\ Good(k, Quiet(h))
         /\ Quiet(h).held = h.held
         /\ Quiet(h).due = h.due
         /\ Quiet(h).input = h.input
         /\ Quiet(h).pressed = h.pressed
         /\ Quiet(h).abandoned = h.abandoned
         /\ Quiet(h).failed = h.failed
         /\ Quiet(h).expired = h.expired
         /\ Quiet(h).sent = {}
  BY DEF Good, Exact, Holds, Quiet

\* What is pressed next is tracked, given that nothing is.
LEMMA BeginGood ==
  ASSUME NEW k \in Kinds, NEW h, Good(k, h), ~h.held, NEW i \in Of(k)
  PROVE  Good(k, Begin(h, i))
  <1>1. Begin(h, i) \in Holds(k)
    <2>1. /\ HoldTime \in Nat /\ 0 \in 0 .. MaxAttempts - 1
          /\ h.pressed \cup {i} \in SUBSET Of(k)
          /\ h.abandoned \ {i} \in SUBSET Of(k)
          /\ h.late \ {i} \in SUBSET Of(k)
          /\ h.sent \cup {<<"down", i>>} \in SUBSET (Verbs \X Of(k))
      BY LimitsAssumption DEF Good, Holds, Verbs
    <2>2. h \in Holds(k)
      BY DEF Good
    <2> QED BY <2>1, <2>2 DEF Holds, Begin
  <1>2. /\ Begin(h, i).pressed = h.pressed \cup {i}
        /\ Begin(h, i).abandoned = h.abandoned \ {i}
        /\ Begin(h, i).held = TRUE
        /\ Begin(h, i).input = i
    BY DEF Good, Holds, Begin
  <1> QED BY <1>1, <1>2 DEF Good, Exact

\* A release on its own, of something that is not held.
LEMMA LiftGood ==
  ASSUME NEW k \in Kinds, NEW h, Good(k, h), NEW i \in Of(k), h.held => i # h.input
  PROVE  Good(k, Lift(h, i))
  <1>1. Lift(h, i) \in Holds(k)
    <2>1. /\ h.pressed \ {i} \in SUBSET Of(k)
          /\ h.abandoned \ {i} \in SUBSET Of(k)
          /\ h.sent \cup {<<"up", i>>} \in SUBSET (Verbs \X Of(k))
      BY DEF Good, Holds, Verbs
    <2>2. h \in Holds(k)
      BY DEF Good
    <2> QED BY <2>1, <2>2 DEF Holds, Lift
  <1>2. /\ Lift(h, i).pressed = h.pressed \ {i}
        /\ Lift(h, i).abandoned = h.abandoned \ {i}
        /\ Lift(h, i).held = h.held
        /\ Lift(h, i).input = h.input
    BY DEF Good, Holds, Lift
  <1> QED BY <1>1, <1>2 DEF Good, Exact

\* The outcomes of a release: done, put off, or given up.
LEMMA ReleaseOutcomes ==
  ASSUME NEW k \in Kinds, NEW h, Good(k, h), h.held,
         NEW ok \in BOOLEAN, NEW expired \in BOOLEAN, NEW retry \in BOOLEAN
  PROVE  LET r == Release(h, ok, expired, retry) IN
         /\ r \in Holds(k)
         /\ r.input = h.input
         /\ ok => /\ ~r.held
                  /\ r.expired = expired
                  /\ r.pressed = h.pressed \ {h.input}
                  /\ r.abandoned = h.abandoned \ {h.input}
                  /\ r.sent = h.sent \cup {<<"up", h.input>>}
         /\ ~ok => r.pressed = h.pressed /\ r.sent = h.sent
         /\ ~ok /\ r.held => r.abandoned = h.abandoned /\ r.failed = h.failed + 1
         /\ ~ok /\ ~r.held => r.abandoned = h.abandoned \cup {h.input} /\ ~r.expired
         /\ r.held => ~ok /\ retry
  <1> DEFINE done == [Lift(h, h.input) EXCEPT !.held = FALSE, !.expired = expired, !.failed = 0,
                                              !.late = IF expired THEN @ \cup {h.input} ELSE @]
             later == [h EXCEPT !.failed = @ + 1, !.due = RetryTime]
             never == [h EXCEPT !.held = FALSE, !.expired = FALSE, !.failed = 0, !.abandoned = @ \cup {h.input}]
  <1>1. h.input \in Of(k) /\ h \in Holds(k)
    BY DEF Good, Exact, Holds
  <1>2. /\ done \in Holds(k)
        /\ done.input = h.input /\ ~done.held /\ done.expired = expired
        /\ done.pressed = h.pressed \ {h.input}
        /\ done.abandoned = h.abandoned \ {h.input}
        /\ done.sent = h.sent \cup {<<"up", h.input>>}
    <2>1. /\ h.pressed \ {h.input} \in SUBSET Of(k)
          /\ h.abandoned \ {h.input} \in SUBSET Of(k)
          /\ h.late \cup {h.input} \in SUBSET Of(k)
          /\ h.sent \cup {<<"up", h.input>>} \in SUBSET (Verbs \X Of(k))
          /\ 0 \in 0 .. MaxAttempts - 1
      BY <1>1, LimitsAssumption DEF Holds, Verbs
    <2>2. /\ Lift(h, h.input) \in Holds(k)
          /\ Lift(h, h.input).input = h.input
          /\ Lift(h, h.input).late = h.late
          /\ Lift(h, h.input).pressed = h.pressed \ {h.input}
          /\ Lift(h, h.input).abandoned = h.abandoned \ {h.input}
          /\ Lift(h, h.input).sent = h.sent \cup {<<"up", h.input>>}
      BY <1>1, <2>1 DEF Holds, Lift
    <2> QED BY <1>1, <2>1, <2>2 DEF Holds
  <1>3. h.failed + 1 < MaxAttempts =>
          /\ later \in Holds(k)
          /\ later.input = h.input /\ later.held /\ later.failed = h.failed + 1
          /\ later.pressed = h.pressed /\ later.abandoned = h.abandoned /\ later.sent = h.sent
    <2>1. h.failed + 1 < MaxAttempts => h.failed + 1 \in 0 .. MaxAttempts - 1
      BY <1>1, LimitsAssumption DEF Holds
    <2>2. RetryTime \in Nat
      BY LimitsAssumption
    <2> QED BY <1>1, <2>1, <2>2 DEF Holds
  <1>4. /\ never \in Holds(k)
        /\ never.input = h.input /\ ~never.held /\ ~never.expired
        /\ never.pressed = h.pressed /\ never.abandoned = h.abandoned \cup {h.input} /\ never.sent = h.sent
    <2>1. h.abandoned \cup {h.input} \in SUBSET Of(k) /\ 0 \in 0 .. MaxAttempts - 1
      BY <1>1, LimitsAssumption DEF Holds
    <2> QED BY <1>1, <2>1 DEF Holds
  <1> HIDE DEF done, later, never
  <1>5. Release(h, ok, expired, retry) =
          IF ok THEN done ELSE IF retry /\ h.failed + 1 < MaxAttempts THEN later ELSE never
    BY DEF Release, done, later, never
  <1> QED BY <1>2, <1>3, <1>4, <1>5

LEMMA ReleaseGood ==
  ASSUME NEW k \in Kinds, NEW h, Good(k, h),
         NEW ok \in BOOLEAN, NEW expired \in BOOLEAN, NEW retry \in BOOLEAN
  PROVE  Good(k, Release(h, ok, expired, retry))
  <1> DEFINE r == Release(h, ok, expired, retry)
  <1>1. CASE ~h.held
    BY <1>1 DEF Release
  <1>2. CASE h.held
    <2>1. r \in Holds(k) /\ Exact(r)
      <3> HIDE DEF r
      <3>1. /\ r \in Holds(k)
            /\ r.input = h.input
            /\ ok => /\ ~r.held
                     /\ r.pressed = h.pressed \ {h.input}
                     /\ r.abandoned = h.abandoned \ {h.input}
            /\ ~ok => r.pressed = h.pressed
            /\ ~ok /\ r.held => r.abandoned = h.abandoned
            /\ ~ok /\ ~r.held => r.abandoned = h.abandoned \cup {h.input}
        BY <1>2, ReleaseOutcomes DEF r
      <3>2. h.abandoned \subseteq h.pressed /\ h.pressed \ h.abandoned = {h.input}
        BY <1>2 DEF Good, Exact
      <3>3. CASE ok
        BY <3>1, <3>2, <3>3 DEF Exact
      <3>4. CASE ~ok /\ r.held
        BY <3>1, <3>2, <3>4 DEF Exact
      <3>5. CASE ~ok /\ ~r.held
        BY <3>1, <3>2, <3>5 DEF Exact
      <3> QED BY <3>1, <3>3, <3>4, <3>5
    <2> QED BY <2>1 DEF Good
  <1> QED BY <1>1, <1>2 DEF Good, Holds

LEMMA ExpireGood ==
  ASSUME NEW k \in Kinds, NEW h, Good(k, h), NEW ok \in BOOLEAN
  PROVE  Good(k, Expire(h, ok))
  BY ReleaseGood DEF Expire

LEMMA DownGood ==
  ASSUME NEW k \in Kinds, NEW h, Good(k, h), NEW i \in Of(k),
         NEW released \in BOOLEAN, NEW ok \in BOOLEAN
  PROVE  Good(k, Down(h, i, released, ok))
  <1> DEFINE r == Release(h, released, FALSE, TRUE)
  <1>1. Good(k, r)
    BY ReleaseGood
  <1>2. CASE h.held /\ released
    <2>1. ~r.held
      BY <1>2, ReleaseOutcomes
    <2>2. Good(k, Begin(r, i))
      BY <1>1, <2>1, BeginGood
    <2> QED BY <1>1, <2>2 DEF Down
  <1>3. CASE ~h.held
    <2>1. ~r.held
      BY <1>3 DEF Release
    <2>2. Good(k, Begin(r, i))
      BY <1>1, <2>1, BeginGood
    <2> QED BY <1>1, <2>2 DEF Down
  <1>4. CASE h.held /\ ~released
    BY <1>1, <1>4 DEF Down
  <1> QED BY <1>2, <1>3, <1>4

LEMMA UpGood ==
  ASSUME NEW k \in Kinds, NEW h, Good(k, h), NEW i \in Of(k), NEW ok \in BOOLEAN
  PROVE  Good(k, Up(h, i, ok))
  <1> DEFINE u == [h EXCEPT !.late = @ \ {i}]
  <1>1. Good(k, u) /\ u.held = h.held /\ u.input = h.input
    BY DEF Good, Exact, Holds
  <1>2. Good(k, [u EXCEPT !.expired = FALSE])
    BY <1>1 DEF Good, Exact, Holds
  <1>3. Good(k, Release(u, ok, FALSE, TRUE))
    BY <1>1, ReleaseGood
  <1>4. (h.held => i # h.input) => Good(k, Lift(u, i))
    BY <1>1, LiftGood
  <1>5. ~h.held => Good(k, Lift(u, i))
    BY <1>1, LiftGood
  <1> HIDE DEF u
  <1>6. Up(h, i, ok) = IF h.held /\ i = h.input THEN Release(u, ok, FALSE, TRUE)
                       ELSE IF h.expired /\ i = h.input THEN [u EXCEPT !.expired = FALSE]
                       ELSE IF ok THEN Lift(u, i) ELSE u
    BY DEF Up, u
  <1> QED BY <1>1, <1>2, <1>3, <1>4, <1>5, <1>6

-----------------------------------------------------------------------------
(* The timer.                                                              *)

LEMMA ArmTimed ==
  ASSUME NEW h, \A k \in Kinds : h[k] \in Holds(k), phase = "open"
  PROVE  /\ Arm(h) \in Nat \cup {NoTimer}
         /\ \A k \in Kinds : h[k].held => Arm(h) # NoTimer /\ Arm(h) <= h[k].due
  <1>1. \A k \in Kinds : h[k].due \in Nat
    BY DEF Holds
  <1>2. CASE \A k \in Kinds : ~h[k].held
    BY <1>2 DEF Arm
  <1>3. CASE \E k \in Kinds : h[k].held
    <2> DEFINE D == {h[k].due : k \in {j \in Kinds : h[j].held}}
               Earliest(d) == \A k \in Kinds : h[k].held => d <= h[k].due
    <2>1. \E d \in D : Earliest(d)
      <3>1. PICK m \in Kinds : h[m].held
        BY <1>3
      <3>2. CASE Earliest(h[m].due)
        BY <3>1, <3>2
      <3>3. CASE ~Earliest(h[m].due)
        <4>1. PICK n \in Kinds : h[n].held /\ ~(h[m].due <= h[n].due)
          BY <3>3
        <4>2. m # n /\ h[n].due <= h[m].due
          BY <1>1, <4>1
        <4>3. Kinds = {m, n}
          BY <4>2 DEF Kinds
        <4>4. Earliest(h[n].due)
          BY <1>1, <4>2, <4>3
        <4> QED BY <4>1, <4>4
      <3> QED BY <3>2, <3>3
    <2>2. Arm(h) = CHOOSE d \in D : Earliest(d)
      BY <1>3 DEF Arm
    <2>3. Arm(h) \in D /\ Earliest(Arm(h))
      <3> HIDE DEF D, Earliest
      <3> QED BY <2>1, <2>2
    <2>4. Arm(h) \in Nat
      BY <1>1, <2>3
    <2> QED BY <2>3, <2>4 DEF NoTimer
  <1> QED BY <1>2, <1>3

-----------------------------------------------------------------------------
(* The inductive invariant.                                                *)

HoldsOK == /\ \A k \in Kinds : Good(k, hold[k])
           /\ DOMAIN hold = Kinds
           /\ timer \in Nat \cup {NoTimer}
           /\ HoldIsTimed

RingOK == /\ ring \in Seq(Requests)
          /\ Len(ring) <= Slots
          /\ at \in [Threads -> {"idle", "ask", "post"}]
          /\ pending \in BOOLEAN
          /\ posted \in Nat
          /\ lost \in BOOLEAN

\* The flag stands for a message, or for a thread about to post it.
FlagIsPosted == phase = "open" /\ pending => posted > 0 \/ \E t \in Threads : at[t] = "post"

RestOK == /\ ui \in {"idle", "drain"}
          /\ phase \in {"open", "closed", "shutdown"}
          /\ made \in 0 .. MaxRequests

IInv == HoldsOK /\ RingOK /\ FlagIsPosted /\ RequestsAreWoken /\ RestOK

LEMMA InitOK == Init => IInv
  <1> SUFFICES ASSUME Init PROVE IInv
    OBVIOUS
  <1>1. HoldsOK
    BY NoHoldGood DEF Init, HoldsOK, HoldIsTimed, NoTimer
  <1>2. RingOK
    <2>1. ring \in Seq(Requests) /\ Len(ring) = 0
      BY DEF Init
    <2>2. at \in [Threads -> {"idle", "ask", "post"}]
      BY DEF Init
    <2>3. Len(ring) <= Slots
      BY <2>1, LimitsAssumption
    <2> QED BY <2>1, <2>2, <2>3 DEF Init, RingOK
  <1> QED BY <1>1, <1>2, LimitsAssumption DEF Init, IInv, FlagIsPosted, RequestsAreWoken, RestOK

\* HostActions::Execute keeps the holds.
LEMMA ExecuteOK ==
  ASSUME HoldsOK, NEW verb \in Verbs, NEW i \in Inputs, Execute(verb, i), phase' = phase
  PROVE  HoldsOK'
  <1>1. PICK due \in [Kinds -> BOOLEAN], released \in BOOLEAN, ok \in BOOLEAN :
          LET expired == [k \in Kinds |-> Expire(Quiet(hold[k]), due[k])]
              h == expired[KindOf(i)]
              after == [expired EXCEPT ![KindOf(i)] =
                          IF verb = "down" THEN Down(h, i, released, ok) ELSE Up(h, i, ok)]
          IN hold' = after /\ timer' = Arm(after)
    BY DEF Execute
  <1> DEFINE expired == [k \in Kinds |-> Expire(Quiet(hold[k]), due[k])]
             h == expired[KindOf(i)]
             new == IF verb = "down" THEN Down(h, i, released, ok) ELSE Up(h, i, ok)
             after == [expired EXCEPT ![KindOf(i)] = new]
  <1>2. \A k \in Kinds : Good(k, Expire(Quiet(hold[k]), due[k]))
    BY QuietGood, ExpireGood DEF HoldsOK
  <1>3. KindOf(i) \in Kinds /\ i \in Of(KindOf(i))
    BY KindFacts
  <1>4. Good(KindOf(i), new)
    BY <1>2, <1>3, DownGood, UpGood
  <1>5. DOMAIN after = Kinds /\ \A k \in Kinds : Good(k, after[k])
    <2> HIDE DEF new
    <2> QED BY <1>2, <1>3, <1>4
  <1>6. hold' = after /\ timer' = Arm(after)
    BY <1>1
  <1> HIDE DEF after
  <1>7. phase = "open" => /\ Arm(after) \in Nat \cup {NoTimer}
                          /\ \A k \in Kinds : after[k].held => Arm(after) # NoTimer /\ Arm(after) <= after[k].due
    BY <1>5, ArmTimed DEF Good
  <1>8. phase # "open" => Arm(after) = timer
    BY DEF Arm
  <1> QED BY <1>5, <1>6, <1>7, <1>8 DEF HoldsOK, HoldIsTimed

\* The holds as they are, with nothing injected.
LEMMA QuietOK ==
  ASSUME HoldsOK, hold' = [k \in Kinds |-> Quiet(hold[k])], timer' = timer, phase' = phase
  PROVE  HoldsOK'
  <1>1. \A k \in Kinds : Good(k, hold'[k]) /\ hold'[k].held = hold[k].held /\ hold'[k].due = hold[k].due
    BY QuietGood DEF HoldsOK
  <1> QED BY <1>1 DEF HoldsOK, HoldIsTimed

LEMMA TimerOK == ASSUME HoldsOK, OnHeldTimer PROVE HoldsOK'
  <1>1. PICK due \in [Kinds -> BOOLEAN] :
          LET after == [k \in Kinds |-> Expire(Quiet(hold[k]), due[k])]
          IN hold' = after /\ timer' = Arm(after)
    BY DEF OnHeldTimer
  <1> DEFINE after == [k \in Kinds |-> Expire(Quiet(hold[k]), due[k])]
  <1>2. DOMAIN after = Kinds /\ \A k \in Kinds : Good(k, after[k])
    BY QuietGood, ExpireGood DEF HoldsOK
  <1>3. hold' = after /\ timer' = Arm(after)
    BY <1>1
  <1> HIDE DEF after
  <1>4. phase = "open" => /\ Arm(after) \in Nat \cup {NoTimer}
                          /\ \A k \in Kinds : after[k].held => Arm(after) # NoTimer /\ Arm(after) <= after[k].due
    BY <1>2, ArmTimed DEF Good
  <1>5. phase # "open" => Arm(after) = timer
    BY DEF Arm
  <1>6. phase' = phase
    BY DEF OnHeldTimer
  <1> QED BY <1>2, <1>3, <1>4, <1>5, <1>6 DEF HoldsOK, HoldIsTimed

LEMMA CloseOK == ASSUME HoldsOK, Close PROVE HoldsOK'
  <1>1. PICK ok \in [Kinds -> BOOLEAN] :
          hold' = [k \in Kinds |-> Release(Quiet(hold[k]), ok[k], FALSE, FALSE)]
    BY DEF Close
  <1>2. \A k \in Kinds : Good(k, Release(Quiet(hold[k]), ok[k], FALSE, FALSE))
    BY QuietGood, ReleaseGood DEF HoldsOK
  <1>3. \A k \in Kinds : Good(k, hold'[k])
    BY <1>1, <1>2
  <1>4. timer' = NoTimer /\ phase' = "closed"
    BY DEF Close
  <1>5. HoldIsTimed'
    BY <1>4 DEF HoldIsTimed
  <1> QED BY <1>1, <1>3, <1>4, <1>5 DEF HoldsOK

LEMMA ShutdownOK == ASSUME HoldsOK, Shutdown PROVE HoldsOK'
  <1>1. PICK ok \in [Kinds -> BOOLEAN] :
          hold' = [k \in Kinds |-> [Release(Quiet(hold[k]), ok[k], FALSE, FALSE)
                                     EXCEPT !.due = 0, !.failed = 0, !.expired = FALSE]]
    BY DEF Shutdown
  <1>2. \A k \in Kinds : Good(k, Release(Quiet(hold[k]), ok[k], FALSE, FALSE))
    BY QuietGood, ReleaseGood DEF HoldsOK
  <1>3. ASSUME NEW k \in Kinds, NEW r, Good(k, r)
        PROVE  Good(k, [r EXCEPT !.due = 0, !.failed = 0, !.expired = FALSE])
    <2>1. 0 \in 0 .. MaxAttempts - 1
      BY LimitsAssumption
    <2> QED BY <1>3, <2>1 DEF Good, Exact, Holds
  <1>4. \A k \in Kinds : Good(k, hold'[k])
    BY <1>1, <1>2, <1>3
  <1> QED BY <1>1, <1>4 DEF Shutdown, HoldsOK, HoldIsTimed

\* Deadlines and the timer come nearer together.
LEMMA TickOK == ASSUME HoldsOK, Tick PROVE HoldsOK'
  <1>1. ASSUME NEW k \in Kinds
        PROVE  /\ Good(k, hold'[k])
               /\ hold'[k].held = hold[k].held
               /\ hold'[k].due = Less(hold[k].due)
    <2>1. Good(k, Quiet(hold[k])) /\ Quiet(hold[k]).held = hold[k].held /\ Quiet(hold[k]).due = hold[k].due
      BY QuietGood DEF HoldsOK
    <2>2. hold'[k] = [Quiet(hold[k]) EXCEPT !.due = Less(@)]
      BY DEF Tick
    <2>3. Less(hold[k].due) \in Nat
      BY DEF HoldsOK, Good, Holds, Less
    <2> DEFINE q == Quiet(hold[k])
    <2> HIDE DEF q
    <2>4. hold'[k] = [q EXCEPT !.due = Less(@)] /\ Good(k, q) /\ q.held = hold[k].held /\ q.due = hold[k].due
      BY <2>1, <2>2 DEF q
    <2> QED BY <2>3, <2>4 DEF Good, Exact, Holds
  <1>2. timer' \in Nat \cup {NoTimer}
    BY DEF Tick, HoldsOK, Less, NoTimer
  <1>3. phase' = "open" => \A k \in Kinds : hold'[k].held => timer' # NoTimer /\ timer' <= hold'[k].due
    <2> SUFFICES ASSUME phase' = "open", NEW k \in Kinds, hold'[k].held
                 PROVE  timer' # NoTimer /\ timer' <= hold'[k].due
      OBVIOUS
    <2>1. timer # NoTimer /\ timer <= hold[k].due /\ timer \in Nat /\ hold[k].due \in Nat
      BY <1>1 DEF Tick, HoldsOK, HoldIsTimed, Good, Holds, NoTimer
    <2>2. timer' = Less(timer) /\ hold'[k].due = Less(hold[k].due)
      BY <1>1 DEF Tick
    <2> QED BY <2>1, <2>2 DEF Less, NoTimer
  <1>4. DOMAIN hold' = Kinds
    BY DEF Tick
  <1> QED BY <1>1, <1>2, <1>3, <1>4 DEF HoldsOK, HoldIsTimed

-----------------------------------------------------------------------------
(* The ring.                                                               *)

\* Giving requests other ages keeps the ring a sequence of as many requests.
LEMMA RingMap ==
  ASSUME NEW s \in Seq(Requests), NEW f, DOMAIN f = 1 .. Len(s), f = [n \in 1 .. Len(s) |-> f[n]],
         \A n \in 1 .. Len(s) : f[n] \in Requests
  PROVE  f \in Seq(Requests) /\ Len(f) = Len(s)
  <1>1. Len(s) \in Nat
    OBVIOUS
  <1>2. f \in [1 .. Len(s) -> Requests]
    OBVIOUS
  <1>3. f \in Seq(Requests)
    BY <1>1, <1>2, SeqDef
  <1>4. Len(f) \in Nat /\ 1 .. Len(f) = 1 .. Len(s)
    BY <1>3, LenProperties
  <1> QED BY <1>1, <1>3, <1>4

LEMMA CoalesceRing ==
  ASSUME RingOK, NEW t \in Threads, NEW verb \in Verbs, NEW i \in Inputs, Coalesce(t, verb, i)
  PROVE  ring' \in Seq(Requests) /\ Len(ring') = Len(ring)
  <1>1. PICK n \in 1 .. Len(ring) : ring' = [ring EXCEPT ![n].age = 0]
    BY DEF Coalesce
  <1>2. ring \in Seq(Requests) /\ ring[n] \in Requests
    BY DEF RingOK
  <1>3. [ring[n] EXCEPT !.age = 0] \in Requests
    <2>1. 0 \in 0 .. MaxAge + 1
      BY LimitsAssumption
    <2> QED BY <1>2, <2>1 DEF Requests
  <1>4. ring' = [ring EXCEPT ![n] = [ring[n] EXCEPT !.age = 0]]
    BY <1>1
  <1> QED BY <1>2, <1>3, <1>4, ExceptSeq

LEMMA TickRing ==
  ASSUME RingOK, Tick
  PROVE  ring' \in Seq(Requests) /\ Len(ring') = Len(ring)
  <1> DEFINE older(r) == [r EXCEPT !.age = IF @ <= MaxAge THEN @ + 1 ELSE @]
  <1>1. ASSUME NEW r \in Requests PROVE older(r) \in Requests
    <2>1. (IF r.age <= MaxAge THEN r.age + 1 ELSE r.age) \in 0 .. MaxAge + 1
      BY LimitsAssumption DEF Requests
    <2> QED BY <2>1 DEF Requests
  <1>2. ring' = [n \in 1 .. Len(ring) |-> older(ring[n])]
    BY DEF Tick
  <1>3. ring \in Seq(Requests)
    BY DEF RingOK
  <1> HIDE DEF older
  <1>4. \A n \in 1 .. Len(ring) : ring'[n] \in Requests
    BY <1>1, <1>2, <1>3
  <1> QED BY <1>2, <1>3, <1>4, RingMap

-----------------------------------------------------------------------------
(* Every step keeps the invariant.                                         *)

LEMMA StepOK == IInv /\ [Next]_vars => IInv'
  <1> SUFFICES ASSUME IInv, [Next]_vars PROVE IInv'
    OBVIOUS
  <1> USE DEF ringVars, holdVars
  <1>1. ASSUME NEW t \in Threads, NEW verb \in Verbs, NEW i \in Inputs, Coalesce(t, verb, i) PROVE IInv'
    <2>0. made' \in 0 .. MaxRequests
      BY <1>1, LimitsAssumption DEF Coalesce, IInv, RestOK
    <2>1. HoldsOK' /\ RestOK'
      BY <1>1, <2>0 DEF Coalesce, IInv, HoldsOK, HoldIsTimed, RestOK
    <2>2. ring' \in Seq(Requests) /\ Len(ring') = Len(ring)
      BY <1>1, CoalesceRing DEF IInv
    <2>3. RingOK' /\ FlagIsPosted'
      BY <1>1, <2>2 DEF Coalesce, IInv, RingOK, FlagIsPosted
    <2>4. ring # <<>>
      BY <1>1 DEF Coalesce, IInv, RingOK
    <2>5. RequestsAreWoken'
      BY <1>1, <2>4 DEF Coalesce, IInv, RequestsAreWoken
    <2> QED BY <2>1, <2>3, <2>5 DEF IInv
  <1>2. ASSUME NEW t \in Threads, NEW verb \in Verbs, NEW i \in Inputs, Request(t, verb, i) PROVE IInv'
    <2>0. made' \in 0 .. MaxRequests
      BY <1>2, LimitsAssumption DEF Request, IInv, RestOK
    <2>1. HoldsOK' /\ RestOK'
      BY <1>2, <2>0 DEF Request, IInv, HoldsOK, HoldIsTimed, RestOK
    <2>2. [verb |-> verb, input |-> i, age |-> 0] \in Requests
      BY LimitsAssumption DEF Requests
    <2>3. ring' \in Seq(Requests) /\ Len(ring') <= Slots
      BY <1>2, <2>2, LimitsAssumption DEF Request, IInv, RingOK
    <2>4. RingOK' /\ at'[t] = "ask" /\ \A u \in Threads : u # t => at'[u] = at[u]
      BY <1>2, <2>3 DEF Request, IInv, RingOK
    <2>5. FlagIsPosted' /\ RequestsAreWoken'
      BY <1>2, <2>4 DEF Request, IInv, RingOK, FlagIsPosted, RequestsAreWoken
    <2> QED BY <2>1, <2>4, <2>5 DEF IInv
  <1>3. ASSUME NEW t \in Threads, Ask(t) PROVE IInv'
    <2>1. HoldsOK' /\ RestOK'
      BY <1>3 DEF Ask, IInv, HoldsOK, HoldIsTimed, RestOK
    <2>2. /\ RingOK'
          /\ at'[t] = IF phase = "open" /\ ~pending THEN "post" ELSE "idle"
          /\ \A u \in Threads : u # t => at'[u] = at[u]
      BY <1>3 DEF Ask, IInv, RingOK
    <2>3. at[t] = "ask"
      BY <1>3 DEF Ask
    <2>4. FlagIsPosted'
      <3>1. CASE phase = "open" /\ ~pending
        BY <1>3, <2>2, <3>1 DEF FlagIsPosted
      <3>2. CASE phase = "open" /\ pending
        BY <1>3, <2>2, <2>3, <3>2 DEF Ask, FlagIsPosted, IInv
      <3>3. CASE phase # "open"
        BY <1>3, <3>3 DEF Ask, FlagIsPosted
      <3> QED BY <3>1, <3>2, <3>3 DEF IInv, RingOK
    <2>5. RequestsAreWoken'
      <3>1. CASE phase = "open" /\ ~pending
        BY <2>2, <3>1 DEF RequestsAreWoken
      <3>2. CASE phase = "open" /\ pending
        BY <1>3, <2>2, <2>3, <3>2 DEF Ask, FlagIsPosted, RequestsAreWoken, IInv
      <3>3. CASE phase # "open"
        BY <1>3, <3>3 DEF Ask, RequestsAreWoken
      <3> QED BY <3>1, <3>2, <3>3 DEF IInv, RingOK
    <2> QED BY <2>1, <2>2, <2>4, <2>5 DEF IInv
  <1>4. ASSUME NEW t \in Threads, Post(t) PROVE IInv'
    <2>1. HoldsOK' /\ RestOK'
      BY <1>4 DEF Post, IInv, HoldsOK, HoldIsTimed, RestOK
    <2>2. posted' \in Nat /\ posted' > 0
      BY <1>4 DEF Post, IInv, RingOK
    <2>3. RingOK'
      BY <1>4, <2>2 DEF Post, IInv, RingOK
    <2> QED BY <2>1, <2>2, <2>3 DEF IInv, FlagIsPosted, RequestsAreWoken
  <1>5. ASSUME NEW t \in Threads, PostFails(t) PROVE IInv'
    <2>1. HoldsOK' /\ RestOK'
      BY <1>5 DEF PostFails, IInv, HoldsOK, HoldIsTimed, RestOK
    <2>2. RingOK' /\ ~pending' /\ lost'
      BY <1>5 DEF PostFails, IInv, RingOK
    <2> QED BY <2>1, <2>2 DEF IInv, FlagIsPosted, RequestsAreWoken
  <1>6. CASE Receive
    <2>1. HoldsOK' /\ RestOK'
      BY <1>6 DEF Receive, IInv, HoldsOK, HoldIsTimed, RestOK
    <2>2. posted' \in Nat
      BY <1>6 DEF Receive, IInv, RingOK
    <2>3. RingOK' /\ ~pending' /\ ui' = "drain"
      BY <1>6, <2>2 DEF Receive, IInv, RingOK
    <2> QED BY <2>1, <2>3 DEF IInv, FlagIsPosted, RequestsAreWoken
  <1>7. CASE DrainOne
    <2>1. ring # <<>> /\ ring \in Seq(Requests) /\ ring' = Tail(ring)
      BY <1>7 DEF DrainOne, IInv, RingOK
    <2>2. Head(ring) \in Requests /\ ring' \in Seq(Requests) /\ Len(ring') = Len(ring) - 1
      BY <2>1, HeadTailProperties
    <2>3. Head(ring).verb \in Verbs /\ Head(ring).input \in Inputs
      BY <2>2 DEF Requests
    <2>4. RingOK'
      <3>1. Len(ring') <= Slots
        BY <2>1, <2>2, LimitsAssumption, LenProperties DEF IInv, RingOK
      <3> QED BY <1>7, <2>2, <3>1 DEF DrainOne, IInv, RingOK
    <2>5. HoldsOK'
      <3>1. phase' = phase
        BY <1>7 DEF DrainOne
      <3>2. CASE IsExpiredInput(Head(ring))
        BY <1>7, <3>1, <3>2, QuietOK DEF DrainOne, IInv
      <3>3. CASE ~IsExpiredInput(Head(ring))
        BY <1>7, <2>3, <3>1, <3>3, ExecuteOK DEF DrainOne, IInv
      <3> QED BY <3>2, <3>3
    <2>6. RestOK' /\ FlagIsPosted' /\ RequestsAreWoken'
      BY <1>7 DEF DrainOne, IInv, RestOK, FlagIsPosted, RequestsAreWoken
    <2> QED BY <2>4, <2>5, <2>6 DEF IInv
  <1>8. CASE DrainEnd
    BY <1>8 DEF DrainEnd, IInv, HoldsOK, HoldIsTimed, RingOK, RestOK, FlagIsPosted, RequestsAreWoken
  <1>9. ASSUME NEW verb \in Verbs, NEW i \in Inputs, ExecuteAction(verb, i) PROVE IInv'
    <2>1. HoldsOK'
      BY <1>9, ExecuteOK DEF ExecuteAction, IInv
    <2>2. made' \in 0 .. MaxRequests
      BY <1>9, LimitsAssumption DEF ExecuteAction, IInv, RestOK
    <2>3. RestOK' /\ RingOK'
      BY <1>9, <2>2 DEF ExecuteAction, IInv, RestOK, RingOK
    <2> QED BY <1>9, <2>1, <2>3 DEF ExecuteAction, IInv, RingOK, RestOK, FlagIsPosted, RequestsAreWoken
  <1>10. CASE OnHeldTimer
    <2>1. HoldsOK'
      BY <1>10, TimerOK DEF IInv
    <2> QED BY <1>10, <2>1 DEF OnHeldTimer, IInv, RingOK, RestOK, FlagIsPosted, RequestsAreWoken
  <1>11. CASE Close
    <2>1. HoldsOK'
      BY <1>11, CloseOK DEF IInv
    <2> QED BY <1>11, <2>1 DEF Close, IInv, RingOK, RestOK, FlagIsPosted, RequestsAreWoken
  <1>12. CASE Shutdown
    <2>1. HoldsOK'
      BY <1>12, ShutdownOK DEF IInv
    <2>2. ring' \in Seq(Requests) /\ Len(ring') <= Slots
      <3>1. CASE ring' = <<>>
        BY <3>1, LimitsAssumption
      <3>2. CASE ring' = ring
        BY <3>2 DEF IInv, RingOK
      <3> QED BY <1>12, <3>1, <3>2 DEF Shutdown
    <2>3. RingOK'
      BY <1>12, <2>2 DEF Shutdown, IInv, RingOK
    <2> QED BY <1>12, <2>1, <2>3 DEF Shutdown, IInv, RestOK, FlagIsPosted, RequestsAreWoken
  <1>13. CASE Tick
    <2>1. HoldsOK'
      BY <1>13, TickOK DEF IInv
    <2>2. ring' \in Seq(Requests) /\ Len(ring') = Len(ring)
      BY <1>13, TickRing DEF IInv
    <2>3. RingOK'
      BY <1>13, <2>2 DEF Tick, IInv, RingOK
    <2>4. ring' # <<>> => ring # <<>>
      BY <2>2 DEF IInv, RingOK
    <2> QED BY <1>13, <2>1, <2>3, <2>4 DEF Tick, IInv, RestOK, FlagIsPosted, RequestsAreWoken
  <1>14. CASE UNCHANGED vars
    BY <1>14 DEF vars, IInv, HoldsOK, HoldIsTimed, RingOK, RestOK, FlagIsPosted, RequestsAreWoken
  <1> QED BY <1>1, <1>2, <1>3, <1>4, <1>5, <1>6, <1>7, <1>8, <1>9, <1>10, <1>11, <1>12, <1>13, <1>14
          DEF Next, Requesting, Drain

THEOREM Invariance == Spec => []IInv
  BY InitOK, StepOK, PTL DEF Spec

-----------------------------------------------------------------------------
(* The theorems.                                                           *)

\* Types: the ring never overruns its slots, refusals never reach the number
\* of attempts.
THEOREM TypeCorrect == Spec => []TypeOK
  <1>1. IInv => TypeOK
    BY DEF IInv, HoldsOK, Good, RingOK, RestOK, TypeOK
  <1> QED BY <1>1, Invariance, PTL

\* Nothing RedXe pressed is left without a hold, unless given up.
THEOREM HoldsExact == Spec => []HoldsAreExact
  <1>1. IInv => HoldsAreExact
    BY DEF IInv, HoldsOK, Good, Exact, HoldsAreExact
  <1> QED BY <1>1, Invariance, PTL

\* Every hold has its timer, in time.
THEOREM HoldsTimed == Spec => []HoldIsTimed
  <1>1. IInv => HoldIsTimed
    BY DEF IInv, HoldsOK
  <1> QED BY <1>1, Invariance, PTL

\* Whatever is pressed has a hold and the hold its timer.
THEOREM HoldsKept == Spec => []HoldsAreKept
  <1> QED BY HoldsExact, HoldsTimed, PTL DEF HoldsAreKept

\* No request is stranded, unless its post failed.
THEOREM RequestsWoken == Spec => []RequestsAreWoken
  <1>1. IInv => RequestsAreWoken
    BY DEF IInv
  <1> QED BY <1>1, Invariance, PTL

-----------------------------------------------------------------------------
(* Aged requests.                                                          *)

\* What r, the release of h, keeps of it.
Released(h, r, ok, expired) ==
  /\ r.input = h.input
  /\ ok => /\ ~r.held
           /\ r.expired = expired
           /\ r.pressed = h.pressed \ {h.input}
           /\ r.sent = h.sent \cup {<<"up", h.input>>}
  /\ ~ok => r.pressed = h.pressed /\ r.sent = h.sent
  /\ ~ok /\ r.held => r.failed = h.failed + 1
  /\ r.held => ~ok

LEMMA ReleaseFacts ==
  ASSUME NEW k \in Kinds, NEW h, Good(k, h), h.held,
         NEW ok \in BOOLEAN, NEW expired \in BOOLEAN, NEW retry \in BOOLEAN
  PROVE  Released(h, Release(h, ok, expired, retry), ok, expired)
  <1> DEFINE r == Release(h, ok, expired, retry)
  <1>1. /\ r.input = h.input
        /\ ok => /\ ~r.held
                 /\ r.expired = expired
                 /\ r.pressed = h.pressed \ {h.input}
                 /\ r.sent = h.sent \cup {<<"up", h.input>>}
        /\ ~ok => r.pressed = h.pressed /\ r.sent = h.sent
        /\ ~ok /\ r.held => r.failed = h.failed + 1
        /\ r.held => ~ok
    BY ReleaseOutcomes
  <1> HIDE DEF r
  <1> QED BY <1>1 DEF Released, r

\* ExpireHeld may release the hold, and has counted the refusal if it did not.
LEMMA ExpireOutcomes ==
  ASSUME NEW k \in Kinds, NEW h, Good(k, h), h.sent = {}, NEW ok \in BOOLEAN
  PROVE  LET e == Expire(h, ok) IN
         /\ e.held => h.held /\ e.input = h.input /\ e.failed >= h.failed /\ e.sent = {}
         /\ e.pressed \subseteq h.pressed
         /\ \A s \in e.sent : s[1] = "up" /\ s[2] \in h.pressed
         /\ ~e.held /\ h.held => e.expired \/ e.sent = {}
         /\ ~h.held => e = h
         /\ e.input = h.input
  <1> DEFINE e == Expire(h, ok)
  <1>1. CASE h.held /\ h.due = 0
    <2>1. e = Release(h, ok, TRUE, TRUE)
      BY <1>1 DEF Expire
    <2>2. h.input \in h.pressed /\ h.failed \in Nat
      BY <1>1, LimitsAssumption DEF Good, Exact, Holds
    <2> HIDE DEF e
    <2>3. /\ e.input = h.input
          /\ ok => ~e.held /\ e.expired /\ e.pressed = h.pressed \ {h.input} /\ e.sent = {<<"up", h.input>>}
          /\ ~ok => e.pressed = h.pressed /\ e.sent = {}
          /\ e.held => ~ok /\ e.failed = h.failed + 1
      <3>1. Released(h, e, ok, TRUE)
        BY <1>1, <2>1, ReleaseFacts
      <3> QED BY <3>1 DEF Released
    <2>4. e.held => h.held /\ e.input = h.input /\ e.failed >= h.failed /\ e.sent = {}
      BY <1>1, <2>2, <2>3
    <2>5. e.pressed \subseteq h.pressed
      BY <2>3
    <2>6. \A s \in e.sent : s[1] = "up" /\ s[2] \in h.pressed
      <3>1. e.sent \subseteq {<<"up", h.input>>}
        BY <2>3
      <3> QED BY <2>2, <3>1
    <2>7. ~e.held /\ h.held => e.expired \/ e.sent = {}
      BY <2>3
    <2> QED BY <1>1, <2>3, <2>4, <2>5, <2>6, <2>7 DEF e
  <1>2. CASE ~(h.held /\ h.due = 0)
    <2>1. e = h
      BY <1>2 DEF Expire
    <2>2. h.failed \in Int
      BY LimitsAssumption DEF Good, Holds
    <2> QED BY <2>1, <2>2
  <1> QED BY <1>1, <1>2

\* The up of a tracked hold lifts what RedXe pressed, or nothing, and does not
\* leave the hold as it was.
LEMMA TrackedUp ==
  ASSUME NEW k \in Kinds, NEW h, Good(k, h), h.sent = {}, h.held \/ h.expired,
         NEW due \in BOOLEAN, NEW ok \in BOOLEAN
  PROVE  LET u == Up(Expire(h, due), h.input, ok) IN
         /\ \A s \in u.sent : s[1] = "up" /\ s[2] \in h.pressed
         /\ h.held => ~u.held \/ u.failed > h.failed
  <1> DEFINE e == Expire(h, due)
             v == [e EXCEPT !.late = @ \ {h.input}]
             u == Up(e, h.input, ok)
  <1>1. /\ Good(k, e)
        /\ e.input = h.input
        /\ e.held => h.held /\ e.failed >= h.failed /\ e.sent = {}
        /\ \A s \in e.sent : s[1] = "up" /\ s[2] \in h.pressed
        /\ ~e.held /\ h.held => e.expired \/ e.sent = {}
        /\ ~h.held => e = h
    BY ExpireGood, ExpireOutcomes
  <1>2. h.failed \in Nat /\ (h.held => h.input \in h.pressed)
    BY LimitsAssumption DEF Good, Exact, Holds
  <1> HIDE DEF e
  <1>3. Good(k, v) /\ v.held = e.held /\ v.input = e.input /\ v.failed = e.failed /\ v.sent = e.sent
    BY <1>1 DEF Good, Exact, Holds
  <1>4. u = IF e.held THEN Release(v, ok, FALSE, TRUE)
            ELSE IF e.expired THEN [v EXCEPT !.expired = FALSE]
            ELSE IF ok THEN Lift(v, h.input) ELSE v
    BY <1>1 DEF Up
  <1>5. CASE e.held
    <2> DEFINE r == Release(v, ok, FALSE, TRUE)
    <2>1. e.failed \in Nat
      BY <1>1, LimitsAssumption DEF Good, Holds
    <2>2. v.held /\ v.sent = {} /\ v.input = h.input /\ h.held /\ h.input \in h.pressed
      BY <1>1, <1>2, <1>3, <1>5
    <2>3. /\ ok => ~r.held /\ r.sent = v.sent \cup {<<"up", v.input>>}
          /\ ~ok => r.sent = v.sent
          /\ r.held => ~ok /\ r.failed = v.failed + 1
      <3> HIDE DEF v
      <3>1. Released(v, r, ok, FALSE)
        BY <1>3, <2>2, ReleaseFacts
      <3> HIDE DEF r
      <3> QED BY <3>1 DEF Released
    <2> HIDE DEF v, r, u
    <2>4. u = r
      BY <1>4, <1>5 DEF r
    <2> QED BY <1>1, <1>2, <1>3, <1>5, <2>1, <2>2, <2>3, <2>4 DEF u, e
  <1>6. CASE ~e.held /\ e.expired
    <2>1. u = [v EXCEPT !.expired = FALSE]
      BY <1>4, <1>6
    <2>2. u.held = v.held /\ u.sent = v.sent
      BY <1>3, <2>1 DEF Good, Holds
    <2> QED BY <1>1, <1>3, <1>6, <2>2 DEF e
  <1>7. CASE ~e.held /\ ~e.expired
    <2>1. h.held /\ e.sent = {} /\ h.input \in h.pressed
      BY <1>1, <1>2, <1>7
    <2>2. u = IF ok THEN Lift(v, h.input) ELSE v
      BY <1>4, <1>7
    <2>3. Lift(v, h.input).held = v.held /\ Lift(v, h.input).sent = v.sent \cup {<<"up", h.input>>}
      BY <1>3 DEF Good, Holds, Lift
    <2>4. ~u.held /\ u.sent \subseteq {<<"up", h.input>>}
      BY <1>3, <1>7, <2>1, <2>2, <2>3
    <2> QED BY <2>1, <2>4 DEF e
  <1> QED BY <1>5, <1>6, <1>7

\* A step that leaves n of a hold h, for the request r: nothing is pressed,
\* nothing is lifted that RedXe did not press, and r is not lost on its hold.
Harmless(h, n, r) ==
  /\ \A s \in n.sent : s[1] = "up" /\ s[2] \in h.pressed
  /\ h.held /\ r.verb = "up" /\ r.input = h.input => ~n.held \/ n.failed > h.failed

\* What is held is of the kind of its hold.
LEMMA HeldKind ==
  ASSUME NEW k \in Kinds, NEW h, Good(k, h), h.held
  PROVE  h.input \in Of(k) /\ KindOf(h.input) = k
  <1>1. h.input \in Of(k)
    BY DEF Good, Exact, Holds
  <1> QED BY <1>1 DEF Of

LEMMA ExpiredHarmless ==
  ASSUME NEW k \in Kinds, NEW h, Good(k, h), NEW x \in BOOLEAN
  PROVE  \A s \in Expire(Quiet(h), x).sent : s[1] = "up" /\ s[2] \in h.pressed
  <1> DEFINE q == Quiet(h)
  <1>1. Good(k, q) /\ q.sent = {} /\ q.pressed = h.pressed
    BY QuietGood
  <1> HIDE DEF q
  <1>2. \A s \in Expire(q, x).sent : s[1] = "up" /\ s[2] \in q.pressed
    BY <1>1, ExpireOutcomes
  <1> QED BY <1>1, <1>2 DEF q

LEMMA TrackedHarmless ==
  ASSUME NEW k \in Kinds, NEW h, Good(k, h), h.held \/ h.expired,
         NEW x \in BOOLEAN, NEW ok \in BOOLEAN, NEW r
  PROVE  Harmless(h, Up(Expire(Quiet(h), x), h.input, ok), r)
  <1> DEFINE q == Quiet(h)
             u == Up(Expire(q, x), q.input, ok)
  <1>1. /\ Good(k, q) /\ q.sent = {} /\ q.pressed = h.pressed
        /\ q.held = h.held /\ q.expired = h.expired /\ q.input = h.input /\ q.failed = h.failed
    BY QuietGood
  <1> HIDE DEF q
  <1>2. /\ \A s \in u.sent : s[1] = "up" /\ s[2] \in q.pressed
        /\ q.held => ~u.held \/ u.failed > q.failed
    BY <1>1, TrackedUp
  <1>3. u = Up(Expire(Quiet(h), x), h.input, ok)
    BY <1>1 DEF q
  <1> HIDE DEF u
  <1> QED BY <1>1, <1>2, <1>3 DEF Harmless

LEMMA ExecutedHarmless ==
  ASSUME HoldsOK, NEW r \in Requests, ReleasesTrackedHold(r), Execute(r.verb, r.input)
  PROVE  \A k \in Kinds : Harmless(hold[k], hold'[k], r)
  <1> DEFINE i == r.input
             K == KindOf(i)
  <1>1. r.verb = "up" /\ i \in Inputs /\ (hold[K].held \/ hold[K].expired) /\ i = hold[K].input
    BY DEF ReleasesTrackedHold, Requests
  <1>2. K \in Kinds /\ \A k \in Kinds : Good(k, hold[k])
    BY <1>1, KindFacts DEF HoldsOK
  <1>3. PICK due \in [Kinds -> BOOLEAN], released \in BOOLEAN, ok \in BOOLEAN :
          LET expired == [k \in Kinds |-> Expire(Quiet(hold[k]), due[k])]
              h == expired[KindOf(i)]
              after == [expired EXCEPT ![KindOf(i)] =
                          IF r.verb = "down" THEN Down(h, i, released, ok) ELSE Up(h, i, ok)]
          IN hold' = after /\ timer' = Arm(after)
    BY DEF Execute
  <1>4. hold'[K] = Up(Expire(Quiet(hold[K]), due[K]), i, ok)
    BY <1>1, <1>2, <1>3
  <1>5. \A k \in Kinds \ {K} : hold'[k] = Expire(Quiet(hold[k]), due[k])
    BY <1>2, <1>3
  <1> HIDE DEF K, i
  <1>6. Harmless(hold[K], hold'[K], r)
    BY <1>1, <1>2, <1>4, TrackedHarmless
  <1>7. ASSUME NEW k \in Kinds \ {K} PROVE Harmless(hold[k], hold'[k], r)
    <2>1. \A s \in hold'[k].sent : s[1] = "up" /\ s[2] \in hold[k].pressed
      BY <1>2, <1>5, ExpiredHarmless
    <2>2. ~(hold[k].held /\ r.input = hold[k].input)
      BY <1>2, HeldKind DEF K, i
    <2> QED BY <2>1, <2>2 DEF Harmless
  <1> QED BY <1>6, <1>7

LEMMA DroppedHarmless ==
  ASSUME HoldsOK, NEW r \in Requests, ~ReleasesTrackedHold(r), hold' = [k \in Kinds |-> Quiet(hold[k])]
  PROVE  \A k \in Kinds : Harmless(hold[k], hold'[k], r)
  <1> SUFFICES ASSUME NEW k \in Kinds PROVE Harmless(hold[k], hold'[k], r)
    OBVIOUS
  <1>1. Good(k, hold[k])
    BY DEF HoldsOK
  <1>2. hold'[k].sent = {}
    BY <1>1, QuietGood
  <1>3. ~(hold[k].held /\ r.verb = "up" /\ r.input = hold[k].input)
    BY <1>1, HeldKind DEF ReleasesTrackedHold
  <1> QED BY <1>2, <1>3 DEF Harmless

LEMMA ShutdownHarmless ==
  ASSUME HoldsOK, NEW r, Shutdown
  PROVE  \A k \in Kinds : Harmless(hold[k], hold'[k], r)
  <1> SUFFICES ASSUME NEW k \in Kinds PROVE Harmless(hold[k], hold'[k], r)
    OBVIOUS
  <1>1. PICK ok \in [Kinds -> BOOLEAN] :
          hold' = [j \in Kinds |-> [Release(Quiet(hold[j]), ok[j], FALSE, FALSE)
                                     EXCEPT !.due = 0, !.failed = 0, !.expired = FALSE]]
    BY DEF Shutdown
  <1> DEFINE q == Quiet(hold[k])
             n == Release(q, ok[k], FALSE, FALSE)
  <1>2. /\ Good(k, hold[k]) /\ Good(k, q) /\ q.sent = {} /\ q.pressed = hold[k].pressed
        /\ q.held = hold[k].held
    BY QuietGood DEF HoldsOK
  <1>3. hold'[k] = [n EXCEPT !.due = 0, !.failed = 0, !.expired = FALSE]
    BY <1>1
  <1> HIDE DEF q
  <1>4. Good(k, n)
    BY <1>2, ReleaseGood
  <1> HIDE DEF n
  <1>5. hold'[k].held = n.held /\ hold'[k].sent = n.sent
    BY <1>3, <1>4 DEF Good, Holds
  <1>6. CASE q.held
    <2>1. /\ ~n.held
          /\ ok[k] => n.sent = q.sent \cup {<<"up", q.input>>}
          /\ ~ok[k] => n.sent = q.sent
      <3>1. ok[k] \in BOOLEAN
        BY <1>1
      <3>2. Released(q, n, ok[k], FALSE)
        BY <1>2, <1>6, <3>1, ReleaseFacts DEF n
      <3>3. ~n.held
        BY <1>2, <1>6, <3>1, ReleaseOutcomes DEF n
      <3> QED BY <3>2, <3>3 DEF Released
    <2>2. q.input \in q.pressed
      BY <1>2, <1>6 DEF Good, Exact
    <2>3. n.sent \subseteq {<<"up", q.input>>}
      BY <1>2, <2>1
    <2> QED BY <1>2, <1>5, <2>1, <2>2, <2>3 DEF Harmless
  <1>7. CASE ~q.held
    <2>1. n = q
      BY <1>7 DEF n, Release
    <2> QED BY <1>2, <1>5, <1>7, <2>1 DEF Harmless
  <1> QED BY <1>6, <1>7

\* The ring is one shorter only after DrainOne, or after a shutdown.
LEMMA TakenHarmless ==
  ASSUME IInv, Next, Taken, Head(ring).age > MaxAge
  PROVE  \A k \in Kinds : Harmless(hold[k], hold'[k], Head(ring))
  <1>1. /\ ring \in Seq(Requests) /\ ring # <<>> /\ ring' = Tail(ring) /\ ui = "drain"
        /\ Len(ring) \in Nat /\ Len(ring') = Len(ring) - 1 /\ Head(ring) \in Requests
    <2>1. ring \in Seq(Requests) /\ ring # <<>> /\ ring' = Tail(ring) /\ ui = "drain"
      BY DEF IInv, RingOK, Taken
    <2> QED BY <2>1, HeadTailProperties, LenProperties
  <1>2. HoldsOK /\ RingOK
    BY DEF IInv
  <1>3. ring' # ring /\ Len(ring') # Len(ring)
    <2>1. Len(ring) \in Nat /\ Len(ring') = Len(ring) - 1
      BY <1>1
    <2>2. Len(ring') # Len(ring)
      BY <2>1
    <2> QED BY <2>2, Zenon
  <1>4. ASSUME NEW t \in Threads, NEW verb \in Verbs, NEW i \in Inputs, Coalesce(t, verb, i) PROVE FALSE
    BY <1>2, <1>3, <1>4, CoalesceRing
  <1>5. ASSUME NEW t \in Threads, NEW verb \in Verbs, NEW i \in Inputs, Request(t, verb, i) PROVE FALSE
    <2>1. ring' = Append(ring, [verb |-> verb, input |-> i, age |-> 0])
      BY <1>5 DEF Request
    <2>2. [verb |-> verb, input |-> i, age |-> 0] \in Requests
      BY LimitsAssumption DEF Requests
    <2> DEFINE r == [verb |-> verb, input |-> i, age |-> 0]
    <2>3. Len(Append(ring, r)) = Len(ring) + 1
      <3> HIDE DEF r
      <3>1. r \in Requests
        BY <2>2 DEF r
      <3> QED BY <1>1, <3>1, AppendProperties, Zenon
    <2>4. Len(ring') = Len(ring) + 1
      BY <2>1, <2>3, Zenon
    <2>5. Len(ring) \in Nat /\ Len(ring') = Len(ring) - 1
      BY <1>1
    <2> QED BY <2>4, <2>5
  <1>6. ASSUME NEW t \in Threads, Ask(t) \/ Post(t) \/ PostFails(t) PROVE FALSE
    BY <1>3, <1>6 DEF Ask, Post, PostFails
  <1>7. CASE DrainOne
    <2>1. CASE IsExpiredInput(Head(ring))
      <3>1. ~ReleasesTrackedHold(Head(ring)) /\ hold' = [k \in Kinds |-> Quiet(hold[k])]
        BY <1>7, <2>1 DEF DrainOne, IsExpiredInput
      <3> QED BY <1>1, <1>2, <3>1, DroppedHarmless
    <2>2. CASE ~IsExpiredInput(Head(ring))
      <3>1. ReleasesTrackedHold(Head(ring)) /\ Execute(Head(ring).verb, Head(ring).input)
        BY <1>7, <2>2 DEF DrainOne, IsExpiredInput
      <3> QED BY <1>1, <1>2, <3>1, ExecutedHarmless
    <2> QED BY <2>1, <2>2
  <1>8. CASE Shutdown
    BY <1>2, <1>8, ShutdownHarmless
  <1>9. CASE Tick
    BY <1>2, <1>3, <1>9, TickRing
  <1>10. CASE Receive \/ DrainEnd \/ OnHeldTimer \/ Close
    BY <1>1, <1>3, <1>10 DEF Receive, DrainEnd, OnHeldTimer, Close, ringVars
  <1>11. ASSUME NEW verb \in Verbs, NEW i \in Inputs, ExecuteAction(verb, i) PROVE FALSE
    BY <1>1, <1>11 DEF ExecuteAction
  <1> QED BY <1>4, <1>5, <1>6, <1>7, <1>8, <1>9, <1>10, <1>11 DEF Next, Requesting, Drain

\* An aged request does no harm, whatever happened between its making and the
\* drain.
THEOREM AgedInputSafe == Spec => AgedInputIsSafe
  <1>1. IInv /\ [Next]_vars =>
          [Taken /\ Head(ring).age > MaxAge =>
             \A k \in Kinds :
               /\ \A s \in hold'[k].sent : s[1] = "up" /\ s[2] \in hold[k].pressed
               /\ hold[k].held /\ Head(ring).verb = "up" /\ Head(ring).input = hold[k].input =>
                    ~hold'[k].held \/ hold'[k].failed > hold[k].failed]_vars
    BY TakenHarmless DEF Harmless
  <1> QED BY <1>1, Invariance, PTL DEF Spec, AgedInputIsSafe

=============================================================================
