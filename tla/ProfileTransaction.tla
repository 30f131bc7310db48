-------------------------- MODULE ProfileTransaction --------------------------
(***************************************************************************)
(* A device profile applied as a compensated transaction                   *)
(* (Plugins/AVControl/ProfileTransaction.cpp): the worker moves mutes,     *)
(* levels, default routes and the camera source one helper call at a time, *)
(* records how to undo each, reads everything back, and undoes what it     *)
(* still owns if a step fails.  A mute or off the user asks for meanwhile  *)
(* is published in SafetyState and ends the transaction.                   *)
(***************************************************************************)
EXTENDS DeviceHelper

CONSTANT Profiles  \* levels: the profile sets the level too

Entries == [field : Fields, old : AnyValue, rev : Nat, restorable : BOOLEAN]

ASSUME ProfileAssumption ==
  /\ Profiles \subseteq [endpoint : Endpoints, camera : Cameras, first : RoleSet,
                         levels : BOOLEAN, level : Levels]
  /\ None \notin Profiles \cup Entries

VARIABLES
  published,  \* SafetyState, against the snapshot the transaction began with:
              \* the devices a mute or off was asked for since
  profile,
  at,       \* "first", "stage", "rollback", "done", or the Coordinator's
  step,     \* position in Plan
  leaves,   \* original: the flows whose prior endpoint is silent
  entry,    \* the Undo of the stage whose command is out
  undo,     \* the stack of compensations
  time,     \* "work", then "undo" (two thirds are gone), then "over"
  outcome   \* ApplyOutcome

txVars == <<profile, at, step, leaves, entry, undo, outcome>>

NoOutcome == [result |-> "ok", applied |-> FALSE, whole |-> TRUE, known |-> TRUE]

-----------------------------------------------------------------------------
(* The stages, in order: for each audio device a safe mute and a level, then *)
(* every role of every device, the camera, and the reading back.             *)

Stage(op, flow, role) == [op |-> op, flow |-> flow, role |-> role]

AudioStages == [i \in 1 .. 2 * Len(Flows) |->
                  Stage(IF i % 2 = 1 THEN "mute" ELSE "level", Flows[(i + 1) \div 2], None)]
RouteStages(first) ==
  LET n == Len(Flows)
  IN  [i \in 1 .. n * (RoleCount - first) |->
         Stage("route", Flows[((i - 1) % n) + 1], first + ((i - 1) \div n))]
Checks == <<Stage("camera", "camera", None), Stage("verify", "camera", None)>>

\* Mutant of Plan: the routes move before the safe mutes.
PlanRoutesFirst == RouteStages(profile.first) \o AudioStages \o Checks

Plan == AudioStages \o RouteStages(profile.first) \o Checks
Now == Plan[step]

Target(s) == CASE s.op = "mute" -> Mute(s.flow, profile.endpoint)
               [] s.op = "level" -> Level(s.flow, profile.endpoint)
               [] s.op = "route" -> Route(s.flow, s.role)
               [] OTHER -> Camera

\* What a stage wants its field to be.  A profile never asks for "unmuted".
Wanted(s) == CASE s.op = "mute" -> TRUE
               [] s.op = "level" -> profile.level
               [] s.op = "route" -> profile.endpoint
               [] OTHER -> [seen.hw[Camera].v EXCEPT !.source = profile.camera]

\* An endpoint that is muted, or of which nothing is known.
Silent(inv, f, e) == ~Present(inv, f, e) \/ inv.hw[Mute(f, e)].v

\* The mute stage is for leaving a silent endpoint; the level stage is optional.
Needed(s) == CASE s.op = "mute" -> s.flow \in leaves
               [] s.op = "level" -> profile.levels
               [] OTHER -> TRUE

Already(s) == s.op # "verify" /\ seen.hw[Target(s)].v = Wanted(s)

\* MatchProfile is not Custom: every route and the camera are the profile's.
Matches(inv) ==
  /\ \A f \in FlowSet : /\ Present(inv, f, profile.endpoint)
                        /\ \A r \in RoleSet :
                             r >= profile.first => inv.hw[Route(f, r)].v = profile.endpoint
  /\ inv.hw[Camera].v.source = profile.camera

\* The undo of a route is possible only if the endpoint it left is known.
Compensation(s) ==
  LET f == Target(s)
  IN  [field |-> f, old |-> seen.hw[f].v, rev |-> seen.hw[f].rev,
       restorable |-> s.op = "route" => Present(seen, s.flow, seen.hw[f].v)]

\* The reply's revision of a field; 0 for an endpoint it does not have.
Revision(field) == IF Reachable(seen, field, seen.hw[field].v) \/ field[1] = "route"
                   THEN seen.hw[field].rev ELSE 0

-----------------------------------------------------------------------------
Undisturbed == UNCHANGED <<world, helper, watching, changed, seen, trouble, histories>>

Finish(out) == at' = "done" /\ outcome' = out
GiveUp(out) == at' = "rollback" /\ outcome' = out

\* Transaction's constructor, with the snapshot, and Run's first observation.
Begin ==
  /\ profile' = profile
  /\ at' = "first"
  /\ published' = {}
  /\ undo' = <<>> /\ entry' = None /\ step' = 1 /\ leaves' = {}
  /\ outcome' = NoOutcome
  /\ Ask("observe", None, None, 0)

\* Unless every device of the profile is there, nothing is changed.
Preflight ==
  /\ at = "first"
  /\ answer # "none"
  /\ answer' = "none"
  /\ IF answer = "ok" /\ \A f \in FlowSet : Present(seen, f, profile.endpoint)
       THEN at' = "stage" /\ outcome' = outcome
       ELSE Finish([outcome EXCEPT !.result = IF answer = "lost" THEN "lost" ELSE "failed",
                                   !.known = answer # "lost"])
  /\ leaves' = {f \in FlowSet : Silent(seen, f, seen.hw[Route(f, profile.first)].v)}
  /\ UNCHANGED <<profile, step, entry, undo, call, published, time>>
  /\ Undisturbed

InStage(op) == at = "stage" /\ call = None /\ answer = "none" /\ Now.op \in op

\* Safety has priority, then the target must exist; at most one command is sent.
RunStage ==
  /\ InStage({"mute", "level", "route", "camera", "verify"})
  /\ LET s == Now
         missing == s.op # "verify" /\ ~Reachable(seen, Target(s), Wanted(s))
         Skip == step' = step + 1 /\ UNCHANGED <<at, outcome, entry, call>>
         Abort(result) == /\ GiveUp([outcome EXCEPT !.result = result])
                          /\ UNCHANGED <<step, entry, call>>
         Send == /\ entry' = IF s.op = "verify" THEN None ELSE Compensation(s)
                 /\ IF s.op = "verify"
                      THEN Ask("observe", None, None, 0)
                      ELSE Ask("set", Target(s), Wanted(s), seen.hw[Target(s)].rev)
                 /\ UNCHANGED <<at, step, outcome>>
     IN  IF s.op = "mute" /\ missing THEN Abort("failed")
         ELSE IF ~Needed(s) \/ (s.op = "mute" /\ Already(s)) THEN Skip
         ELSE IF published # {} THEN Abort("superseded")
         ELSE IF s.op = "route" /\ Already(s) THEN Skip
         ELSE IF missing THEN Abort("failed")
         ELSE IF Already(s) THEN Skip
         ELSE IF time # "work" THEN Abort("late")
         ELSE Send
  /\ UNCHANGED <<profile, leaves, undo, answer, published, time>>
  /\ Undisturbed

\* Mutant of Succeeded: a level that could not be set is passed over.
SucceededButLevel == answer = "ok" \/ Now.op = "level"

Succeeded == answer = "ok"

\* A stage that failed leaves a doubt unless the reply shows it changed nothing.
StageAnswered ==
  /\ at = "stage"
  /\ answer # "none"
  /\ answer' = "none"
  /\ LET known == outcome.known /\ answer # "lost"
         failed == [outcome EXCEPT !.result = answer, !.known = known]
     IN  IF entry = None
           THEN /\ IF answer = "ok" /\ Matches(seen)
                     THEN Finish([outcome EXCEPT !.applied = TRUE])
                     ELSE GiveUp(IF answer = "ok" THEN [outcome EXCEPT !.result = "failed"] ELSE failed)
                /\ UNCHANGED <<step, undo>>
         ELSE IF Succeeded
           THEN /\ undo' = <<[entry EXCEPT !.rev = Revision(entry.field)]>> \o undo
                /\ step' = step + 1
                /\ UNCHANGED <<at, outcome>>
           ELSE /\ GiveUp([failed EXCEPT !.whole =
                             @ /\ known /\ Revision(entry.field) = entry.rev])
                /\ UNCHANGED <<step, undo>>
  /\ entry' = None
  /\ UNCHANGED <<profile, leaves, call, published, time>>
  /\ Undisturbed

\* Rollback: the newest compensation first.  What cannot be restored, was
\* changed by another, or belongs to a device a later mute is for, stays.
Compensate ==
  /\ at = "rollback"
  /\ call = None /\ answer = "none"
  /\ IF undo = <<>>
       THEN Finish(outcome) /\ UNCHANGED <<undo, call>>
       ELSE LET u == Head(undo)
            IN  /\ undo' = Tail(undo)
                /\ at' = at
                /\ IF /\ u.restorable
                      /\ u.field[2] \notin published
                      /\ Revision(u.field) = u.rev /\ u.rev # 0
                      /\ time # "over"
                     THEN Ask("set", u.field, u.old, u.rev) /\ outcome' = outcome
                     ELSE call' = None /\ outcome' = [outcome EXCEPT !.whole = FALSE]
  /\ UNCHANGED <<profile, step, leaves, entry, answer, published, time>>
  /\ Undisturbed

\* Mutant of Undone: a compensation that fails is not counted.
UndoneAnyway == outcome

Undone == [outcome EXCEPT !.whole = @ /\ answer = "ok", !.known = @ /\ answer # "lost"]

Compensated ==
  /\ at = "rollback"
  /\ answer # "none"
  /\ answer' = "none"
  /\ outcome' = Undone
  /\ UNCHANGED <<profile, at, step, leaves, entry, undo, call, published, time>>
  /\ Undisturbed

TimePasses ==
  /\ at \in {"stage", "rollback"}
  /\ time # "over"
  /\ Trouble
  /\ time' = IF time = "work" THEN "undo" ELSE "over"
  /\ UNCHANGED <<world, link, histories, published, txVars>>

Transaction == Preflight \/ RunStage \/ StageAnswered \/ Compensate \/ Compensated
===============================================================================
