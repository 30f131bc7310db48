----------------------------- MODULE AVCoordinator -----------------------------
(***************************************************************************)
(* The coordinator of the audio and camera devices                         *)
(* (Plugins/AVControl/Coordinator.cpp): views on the UI thread submit       *)
(* mutes, levels and profiles; the host's control worker runs one of them, *)
(* or an observation, at a time; the completion comes back on the UI       *)
(* thread and is what the views show.  A change elsewhere reaches the view *)
(* over the helper's event and a one-shot thread pool wait.                *)
(***************************************************************************)
EXTENDS ProfileTransaction

CONSTANT MaxSubmits  \* bound: commands and profiles submitted, views shown

\* What a lane holds.
Commands == [field : Fields, v : AnyValue, rev : Nat, follow : BOOLEAN]

ASSUME CommandAssumption == None \notin Commands

VARIABLES
  visible,      \* some view is on screen (_visible)
  dirty,        \* _dirty
  armed,        \* the thread pool wait is set (_wait, _observing)
  asked,        \* [lane, profile, busy, observe, stop]: _commands, _profile,
                \* _profilePending, _observeRequested, _stopRequested
  running,      \* the command that was taken, or None
  stateKnown,   \* _stateKnown
  ranProfile,   \* _ranProfile
  role,         \* _controlledRole
  shown,        \* _current, and the role whose endpoints it holds
  submits,
  refused,      \* history: the host refused work that was queued
  muted,        \* history: <<flow, role>> whose last command was an acknowledged mute
  crossed       \* history: a profile for another role began since

uiVars == <<visible, dirty, armed, shown, submits>>
runVars == <<running, stateKnown, ranProfile, role>>
vars == <<helperVars, published, time, txVars, uiVars, asked, runVars, refused, muted, crossed>>

\* The Transaction object; "at" is shared with the coordinator's runs.
locals == <<step, entry, undo, leaves, published>>

Lanes == [op : {"switch"}, dev : Devices] \cup [op : {"level"}, dev : FlowSet]
NoLanes == [l \in Lanes |-> None]
Nothing == [lane |-> NoLanes, profile |-> None, busy |-> FALSE, observe |-> FALSE, stop |-> FALSE]

HasPending(a) == a.observe \/ a.stop \/ a.profile # None \/ a.lane # NoLanes

-----------------------------------------------------------------------------
(* The UI thread                                                            *)

\* Nothing is queued while a run is out.  A host that refuses the work clears
\* everything that was asked for.
Schedule(flying, a) ==
  IF flying \/ ~HasPending(a)
    THEN /\ asked' = a
         /\ at' = IF flying THEN at ELSE "idle"
         /\ UNCHANGED <<trouble, refused, ranProfile, stateKnown>>
    ELSE /\ ranProfile' = FALSE /\ stateKnown' = FALSE
         /\ \/ asked' = a /\ at' = "queued" /\ UNCHANGED <<trouble, refused>>
            \/ /\ Trouble
               /\ asked' = Nothing /\ at' = "idle" /\ refused' = TRUE

InFlight == at # "idle"
InTransaction == at \in {"first", "stage", "rollback", "done"}
OnUi == UNCHANGED <<world, link, histories, time, profile, step, entry, undo, leaves, outcome, role, crossed>>

\* Submit: a mute or off is published before it is queued; it replaces the one
\* that waits, and follows the route of a profile that is pending.
Submit(l, field, v, rev) ==
  /\ visible /\ shown.inv.known
  /\ submits < MaxSubmits
  /\ ~(asked.busy /\ l.op = "level")
  /\ submits' = submits + 1
  /\ published' = IF l.op = "switch" /\ InTransaction THEN published \cup {l.dev} ELSE published
  /\ Schedule(InFlight, [asked EXCEPT !.lane[l] =
                [field |-> field, v |-> v, rev |-> rev, follow |-> asked.busy]])
  /\ muted' = IF l.op = "switch" THEN {m \in muted : m[1] # l.dev} ELSE muted
  /\ UNCHANGED <<visible, dirty, armed, shown, running>>
  /\ OnUi

Shown(f) == shown.inv.hw[Route(f, shown.role)].v

Toggle(f) ==
  /\ Present(shown.inv, f, Shown(f))
  /\ LET field == Mute(f, Shown(f))
     IN  Submit([op |-> "switch", dev |-> f], field,
                ~shown.inv.hw[field].v, shown.inv.hw[field].rev)

ToggleCamera ==
  LET c == shown.inv.hw[Camera]
  IN  Submit([op |-> "switch", dev |-> "camera"], Camera, [c.v EXCEPT !.on = ~@], c.rev)

Slide(f, v) ==
  /\ Present(shown.inv, f, Shown(f))
  /\ LET field == Level(f, Shown(f))
     IN  v # shown.inv.hw[field].v /\ Submit([op |-> "level", dev |-> f], field, v, shown.inv.hw[field].rev)

\* SubmitProfile: one at a time; levels meant for the old route are dropped.
SubmitProfile(p) ==
  /\ visible
  /\ submits < MaxSubmits
  /\ ~asked.busy
  /\ submits' = submits + 1
  /\ Schedule(InFlight, [asked EXCEPT !.profile = p, !.busy = TRUE,
                !.lane = [l \in Lanes |-> IF l.op = "level" THEN None ELSE @[l]]])
  /\ UNCHANGED <<visible, dirty, armed, shown, running, published, muted>>
  /\ OnUi

\* The last view to leave cancels the wait and has the helper suspended.
SetSubscriberVisible ==
  /\ submits < MaxSubmits
  /\ submits' = submits + 1
  /\ visible' = ~visible
  /\ IF visible
       THEN /\ armed' = FALSE /\ dirty' = dirty
            /\ Schedule(InFlight, [asked EXCEPT !.observe = FALSE, !.stop = TRUE])
       ELSE /\ dirty' = TRUE
            /\ UNCHANGED <<armed, asked, at, trouble, refused, ranProfile, stateKnown>>
  /\ UNCHANGED <<shown, running, published, muted>>
  /\ OnUi

\* A frame of a visible view.
Prepare ==
  /\ visible
  /\ dirty
  /\ dirty' = FALSE
  /\ Schedule(InFlight, [asked EXCEPT !.observe = TRUE, !.stop = FALSE])
  /\ UNCHANGED <<visible, armed, shown, submits, running, published, muted>>
  /\ OnUi

\* The thread pool's one-shot callback.
Changed ==
  /\ armed /\ changed
  /\ armed' = FALSE /\ changed' = FALSE /\ dirty' = TRUE
  /\ UNCHANGED <<world, helper, watching, call, answer, seen, trouble, histories, published,
                 time, txVars, visible, asked, shown, submits, runVars, refused, muted, crossed>>

\* What is remembered of a run ends with it.
Fresh == /\ who' = [x \in Fields |-> "none"]
         /\ was' = <<>>
         /\ blind' = {} /\ raced' = {}
         /\ time' = "work"

\* A mute is the flow's last word once it is acknowledged for the endpoint the
\* controlled role leads to, until a newer command.  A profile that could not
\* be undone says so.
Acknowledged ==
  LET f == running.field[2]
      mute == /\ running # None /\ outcome.result = "ok"
              /\ running.field[1] = "mute" /\ running.v
              /\ asked.lane[[op |-> "switch", dev |-> f]] = None
              /\ running.follow \/ seen.hw[Route(f, role)].v = running.field[3]
              /\ \A x \in Fields : x[2] = f => who[x] # "other"
  IN  IF ranProfile /\ (~outcome.whole \/ blind # {}) THEN {}
      ELSE IF mute THEN muted \cup {<<f, role>>} ELSE muted

\* Mutants of Rearmed and StillBusy: the wait is not set again after it fired;
\* a profile that failed stays the pending one.
RearmedOnce == armed
StillBusyOnFailure == asked.busy /\ ~(ranProfile /\ outcome.applied)

Rearmed == armed \/ visible
StillBusy == asked.busy /\ ~ranProfile

\* The reply to a suspension holds the endpoints of role 0.
ShownRole == IF at = "suspended" THEN 0 ELSE role

Complete ==
  /\ at \in {"finished", "suspended"}
  /\ running' = None
  /\ shown' = IF stateKnown THEN [inv |-> seen, role |-> ShownRole]
              ELSE [shown EXCEPT !.inv.known = @ /\ outcome.result = "ok"]
  /\ armed' = Rearmed
  /\ Schedule(FALSE, [asked EXCEPT !.busy = StillBusy])
  /\ muted' = Acknowledged
  /\ crossed' = (crossed /\ muted' # {})
  /\ outcome' = NoOutcome
  /\ Fresh
  /\ UNCHANGED <<hw, gone, link, visible, dirty, submits, role, profile, locals>>

-----------------------------------------------------------------------------
(* The control worker: Run                                                  *)

LaneOrder == [i \in 1 .. Len(Flows) |-> [op |-> "switch", dev |-> Flows[i]]]
               \o <<[op |-> "switch", dev |-> "camera"]>>
               \o [i \in 1 .. Len(Flows) |-> [op |-> "level", dev |-> Flows[i]]]

\* The first lane that waits.
Foremost(l) ==
  \E i \in DOMAIN LaneOrder :
     /\ LaneOrder[i] = l
     /\ asked.lane[l] # None
     /\ \A j \in 1 .. i - 1 : asked.lane[LaneOrder[j]] = None

\* A new helper counts its revisions from one.
StartHelper ==
  /\ helper' = "up"
  /\ changed' = FALSE
  /\ hw' = [x \in Fields |-> [v |-> hw[x].v, rev |-> 1]]

Take(a, c, isProfile) ==
  /\ at = "queued"
  /\ asked' = a
  /\ running' = c
  /\ ranProfile' = isProfile
  /\ stateKnown' = FALSE
  /\ Fresh
  /\ UNCHANGED <<gone, watching, answer, seen, uiVars, role, refused, muted>>

\* What waited three seconds, was cancelled, or found no helper to start fails
\* without a call.
NotRun ==
  /\ Trouble
  /\ at' = "finished"
  /\ outcome' = [NoOutcome EXCEPT !.result = "lost"]
  /\ UNCHANGED <<hw, helper, changed, call, profile, locals>>

\* A helper that lives and does not watch is suspended.
Running ==
  /\ trouble' = trouble
  /\ IF helper # "up" THEN StartHelper
     ELSE /\ UNCHANGED <<helper, changed>>
          /\ IF watching THEN hw' = hw ELSE Resume

RunCommand(l) ==
  /\ Foremost(l)
  /\ Take([asked EXCEPT !.lane[l] = None], asked.lane[l], FALSE)
  /\ \/ NotRun
     \/ /\ Running
        /\ IF asked.lane[l].follow
             THEN at' = "follow" /\ Ask("observe", None, None, 0)
             ELSE /\ at' = "command"
                  /\ Ask("set", asked.lane[l].field, asked.lane[l].v, asked.lane[l].rev)
        /\ outcome' = NoOutcome
        /\ UNCHANGED <<profile, locals>>
  /\ crossed' = crossed

RunProfile ==
  /\ asked.lane = NoLanes
  /\ asked.profile # None
  /\ Take([asked EXCEPT !.profile = None], None, TRUE)
  /\ at' = "taken"
  /\ profile' = asked.profile
  /\ outcome' = NoOutcome
  /\ crossed' = (crossed \/ (muted # {} /\ asked.profile.first # role))
  /\ UNCHANGED <<hw, helper, changed, call, trouble, locals>>

\* The lock is free and the helper starts: a mute submitted since the profile
\* was taken falls before the snapshot.
ApplyProfile ==
  /\ at = "taken"
  /\ NotRun \/ (Running /\ Begin)
  /\ Fresh
  /\ UNCHANGED <<gone, watching, answer, seen, uiVars, asked, runVars, refused, muted, crossed>>

\* Without a command or a profile it observes, or stops the helper.
RunObserve ==
  /\ asked.lane = NoLanes
  /\ asked.profile = None
  /\ Take([asked EXCEPT !.observe = FALSE, !.stop = FALSE], None, FALSE)
  /\ \/ NotRun
     \/ /\ IF asked.stop
             THEN /\ IF helper = "up"
                       THEN at' = "suspend" /\ Ask("suspend", None, None, 0)
                       ELSE at' = "finished" /\ call' = None
                  /\ UNCHANGED <<hw, helper, changed, trouble>>
             ELSE at' = "observe" /\ Ask("observe", None, None, 0) /\ Running
        /\ outcome' = NoOutcome
        /\ UNCHANGED <<profile, locals>>
  /\ crossed' = crossed

\* The Transaction object and what it remembers exist only while it runs.
NoTransaction == /\ step' = 1 /\ entry' = None /\ undo' = <<>>
                 /\ leaves' = {} /\ published' = {}

EndRun(result, isKnown) ==
  /\ at' = IF at = "suspend" THEN "suspended" ELSE "finished"
  /\ outcome' = [outcome EXCEPT !.result = result]
  /\ stateKnown' = (isKnown /\ helper = "up" /\ result \notin {"lost", "late", "superseded"})

Worker == UNCHANGED <<gone, who, changed, seen, trouble, histories, time, uiVars,
                      asked, ranProfile, refused, muted, crossed, profile>>

\* A mute asked for during a profile goes to where the profile left the route.
Followed ==
  /\ at = "follow"
  /\ answer # "none"
  /\ answer' = "none"
  /\ LET f == running.field[2]
         e == seen.hw[Route(f, role)].v
         field == IF f = "camera" THEN Camera ELSE Mute(f, e)
         v == IF f = "camera" THEN [seen.hw[Camera].v EXCEPT !.on = running.v.on] ELSE running.v
     IN  IF answer = "ok" /\ (f = "camera" \/ Present(seen, f, e))
           THEN /\ at' = "command"
                /\ running' = [running EXCEPT !.field = field, !.v = v]
                /\ Ask("set", field, v, seen.hw[field].rev)
                /\ UNCHANGED <<outcome, stateKnown>>
           ELSE /\ EndRun(IF answer = "ok" THEN "failed" ELSE answer, TRUE)
                /\ UNCHANGED <<running, call>>
  /\ UNCHANGED <<hw, helper, watching, role, locals>>
  /\ Worker

Answered ==
  /\ at \in {"command", "observe"}
  /\ answer # "none"
  /\ answer' = "none"
  /\ EndRun(answer, TRUE)
  /\ UNCHANGED <<hw, helper, watching, call, running, role, locals>>
  /\ Worker

\* Only an armed camera keeps the helper.
Suspended ==
  /\ at = "suspend"
  /\ answer # "none"
  /\ answer' = "none"
  /\ EndRun(answer, TRUE)
  /\ IF answer # "ok" \/ ~hw[Camera].v.on
       THEN helper' = "none" /\ watching' = FALSE
       ELSE UNCHANGED <<helper, watching>>
  /\ UNCHANGED <<hw, call, running, role, locals>>
  /\ Worker

ProfileDone ==
  /\ at = "done"
  /\ EndRun(outcome.result, outcome.known)
  /\ role' = IF outcome.applied THEN profile.first ELSE role
  /\ NoTransaction
  /\ UNCHANGED <<hw, helper, watching, call, answer, running>>
  /\ Worker

outside == <<uiVars, asked, runVars, refused, muted, crossed>>

RunWork == \/ (\E l \in Lanes : RunCommand(l)) \/ RunProfile \/ ApplyProfile \/ RunObserve
           \/ Followed \/ Answered \/ Suspended \/ ProfileDone
           \/ Transaction /\ UNCHANGED outside

-----------------------------------------------------------------------------
\* The user's last word on a flow ends when somebody else changes the flow.
Elsewhen ==
  /\ World
  /\ muted' = {m \in muted : gone' = gone /\ \A x \in Fields : x[2] = m[1] => hw'[x] = hw[x]}
  /\ UNCHANGED <<published, time, txVars, uiVars, asked, runVars, refused, crossed>>

Init ==
  /\ HelperInit
  /\ published = {}
  /\ \E p \in Profiles : profile = p
  /\ at = "idle" /\ step = 1 /\ leaves = {} /\ entry = None /\ undo = <<>>
  /\ time = "work" /\ outcome = NoOutcome
  /\ visible = TRUE /\ dirty = TRUE /\ armed = FALSE
  /\ asked = Nothing /\ submits = 0
  /\ running = None /\ stateKnown = FALSE /\ ranProfile = FALSE
  /\ role = 0
  /\ shown = [inv |-> seen, role |-> role]
  /\ refused = FALSE /\ muted = {} /\ crossed = FALSE

User == \/ \E f \in FlowSet : Toggle(f) \/ \E v \in Levels : Slide(f, v)
        \/ ToggleCamera
        \/ \E p \in Profiles : SubmitProfile(p)
        \/ SetSubscriberVisible

Next == \/ User \/ Prepare \/ Changed \/ Complete
        \/ RunWork
        \/ HelperStep /\ UNCHANGED <<published, time, txVars, outside>>
        \/ Crash /\ UNCHANGED <<published, time, txVars, outside>>
        \/ TimePasses /\ UNCHANGED outside
        \/ Elsewhen

Spec == Init /\ [][Next]_vars

Fairness == /\ WF_vars(Prepare) /\ WF_vars(Changed) /\ WF_vars(Complete) /\ WF_vars(RunWork)
            /\ WF_vars(HelperStep /\ UNCHANGED <<published, time, txVars, outside>>)

FairSpec == Spec /\ Fairness

-----------------------------------------------------------------------------
(* Properties                                                               *)

\* The inventory is that of the devices.
Shows(inv) == inv.gone = gone /\ \A x \in Fields : inv.hw[x].v = hw[x].v

\* A profile that fails and calls its rollback complete has put back every
\* value it changed, unless somebody else took the field over or the change
\* itself could not be read back (rollbackComplete, shown to the user as
\* "partially applied" when false). The value is the one its first comparison
\* found; a change of another's before the write is lost, see OthersAreKept.
UndoIsHonest ==
  at = "done" /\ ~outcome.applied /\ outcome.whole =>
    \A x \in DOMAIN was \ blind :
      \/ who[x] = "other" \/ hw[x].v = was[x]
      \/ x = Camera /\ hw[x].v.source = was[x].source

\* A rollback writes only over the transaction's own value, whatever the user
\* or Windows did since; the exception is a field another changed while one of
\* the transaction's commands on it was between its comparison and its reading
\* back: such a change is written over, or its revision taken for RedXe's.
OthersAreKept ==
  [][at = "rollback" /\ call # None /\ call' # None /\ call.stage = "checked" /\ call'.stage = "changed"
       => who[call.field] = "redxe" \/ call.field \in raced]_vars

\* The same without the exception, as the design asks of a rollback: "Do not
\* overwrite a newer external/user revision."  The code does not do this: to be
\* refuted and not part of a run.
OthersAreNeverOverwritten ==
  [][at = "rollback" /\ call # None /\ call' # None /\ call.stage = "checked" /\ call'.stage = "changed"
       => who[call.field] = "redxe"]_vars

\* A profile reported as applied is in force in every setting it names, the
\* levels that the reading back does not compare included, except where
\* somebody else changed one since the profile began.
AppliedMeansInForce ==
  at = "done" /\ outcome.applied =>
    /\ \A f \in FlowSet :
         /\ \A r \in RoleSet : r >= profile.first =>
              hw[Route(f, r)].v = profile.endpoint \/ who[Route(f, r)] = "other"
         /\ profile.levels => LET x == Level(f, profile.endpoint)
                              IN  hw[x].v = profile.level \/ who[x] = "other"
    /\ helper = "up" => hw[Camera].v.source = profile.camera

\* A flow that was muted stays silent on the endpoint of the role it was muted
\* for, through profiles that are applied, fail, are superseded or rolled back
\* whole.  Left out: a profile for another first role than the controlled one.
MutedStaysSilent ==
  \A m \in muted : \/ crossed \/ ~outcome.whole \/ blind # {}
                   \/ Silent(Observation, m[1], hw[Route(m[1], m[2])].v)

\* The same of every profile, as the design asks: "The destination
\* microphone/output remains muted if either the previous controlled endpoint
\* or destination was muted."
MuteSurvivesProfiles ==
  \A m \in muted : Silent(Observation, m[1], hw[Route(m[1], m[2])].v)

\* No change is overlooked.  When nothing is under way, a visible view that
\* takes itself to know shows the devices as they are and the wait and the
\* helper's notifications are there for the next change, or a change has been
\* signalled or is about to be read.
ChangeIsNoticed ==
  at = "idle" /\ visible /\ ~refused /\ helper = "up" /\ shown.inv.known =>
    dirty \/ (armed /\ watching /\ (changed \/ Shows(shown.inv)))

\* What is asked for has a run to carry it out, and a profile keeps others out
\* ("pending") just as long as it waits or runs.
AskedIsScheduled ==
  /\ HasPending(asked) => at # "idle"
  /\ asked.busy <=> asked.profile # None \/ (ranProfile /\ at # "idle")

\* Between two runs nothing is left over that only a new request would move: no
\* change of the devices, no request and no pending profile.
NothingIsLeftOver == ChangeIsNoticed /\ AskedIsScheduled

\* A visible view comes to show what the devices are set to, whoever changed
\* it, or that it does not know, unless the host refused device work or the
\* helper is gone: nothing watches a helper that ends between two commands.
ShownIsCurrent ==
  <>[]visible => <>[](\/ refused \/ helper = "none" \/ ~shown.inv.known
                      \/ Shows(shown.inv))

\* Whatever was submitted is carried out or fails: nothing stays pending.
NothingStaysPending == []<>(asked.lane = NoLanes /\ ~asked.busy)
===============================================================================
