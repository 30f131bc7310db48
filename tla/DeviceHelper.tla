----------------------------- MODULE DeviceHelper -----------------------------
(***************************************************************************)
(* The devices, Windows and its user, and the helper process that reads    *)
(* and changes the devices for RedXe (Plugins/AVControl: AVControlBroker,  *)
(* BrokerMain, WindowsAudioBackend).  The caller has one command out at a  *)
(* time; the helper compares the revision, changes the device and reads    *)
(* everything back as three steps, and the world moves between them: no    *)
(* lock of RedXe's keeps Windows out.  A helper that crashes, hangs or is   *)
(* cancelled is ended, and the caller learns only that.                    *)
(*                                                                         *)
(* A field is one setting, with a value and a revision.  The helper counts *)
(* the revisions, so a new helper starts them over.                        *)
(***************************************************************************)
EXTENDS Integers, Sequences

CONSTANTS
  Flows,       \* the audio devices in order: <<"output", "microphone">>
  Endpoints,   \* the endpoints of each flow
  Cameras,
  RoleCount,   \* the roles of a default endpoint: 3
  Levels,
  None,        \* no endpoint, no command, no entry
  Starts,      \* the settings the devices may have at first: [Fields -> Values]
  MaxTrouble   \* bound: changes by Windows or its user, and failures of the
               \* helper, its devices or the queue

FlowSet == {Flows[i] : i \in DOMAIN Flows}
RoleSet == 0 .. RoleCount - 1
Devices == FlowSet \cup {"camera"}

Mute(f, e) == <<"mute", f, e>>
Level(f, e) == <<"level", f, e>>
Route(f, r) == <<"route", f, r>>
Camera == <<"camera", "camera", None>>

Fields == {Mute(f, e) : f \in FlowSet, e \in Endpoints}
          \cup {Level(f, e) : f \in FlowSet, e \in Endpoints}
          \cup {Route(f, r) : f \in FlowSet, r \in RoleSet}
          \cup {Camera}

Values(field) == CASE field[1] = "mute" -> BOOLEAN
                   [] field[1] = "level" -> Levels
                   [] field[1] = "route" -> Endpoints \cup {None}
                   [] OTHER -> [source : Cameras, on : BOOLEAN]

AnyValue == BOOLEAN \cup Levels \cup Endpoints \cup {None} \cup [source : Cameras, on : BOOLEAN]

Calls == [op : {"observe", "set", "suspend"}, field : Fields \cup {None}, v : AnyValue,
          rev : Nat, stage : {"sent", "checked", "changed", "refused"}]

ASSUME DeviceAssumption ==
  /\ Flows \in Seq(FlowSet) /\ Flows # <<>>
  /\ \A i, j \in DOMAIN Flows : Flows[i] = Flows[j] => i = j
  /\ "camera" \notin FlowSet
  /\ RoleCount \in Nat \ {0}
  /\ None \notin Endpoints /\ None \notin Calls
  /\ \A start \in Starts, x \in Fields : start[x] \in Values(x)

VARIABLES
  hw,        \* [Fields -> [v, rev]]: what the devices are set to
  gone,      \* endpoints <<flow, id>> that were unplugged
  helper,    \* "none" or "up"
  watching,  \* the helper listens to Windows' notifications
  changed,   \* the event it sets when one arrives
  call,      \* the command the helper is executing, or None
  answer,    \* "none", or the result the caller has not used yet
  seen,      \* the caller's reply buffer: [hw, gone, known]
  trouble,   \* how much of that there was
  who,       \* history: who wrote a field last in this operation
  was,       \* history: what RedXe's first change of a field was compared with
  blind,     \* history: fields whose change could not be read back
  raced      \* history: fields another changed while RedXe's own change of them
             \* was compared and not yet read back

world == <<hw, gone, who>>
link == <<helper, watching, changed, call, answer, seen>>
histories == <<was, blind, raced>>
helperVars == <<world, link, trouble, histories>>

Observation == [hw |-> hw, gone |-> gone, known |-> TRUE]

Present(inv, f, e) == e # None /\ <<f, e>> \notin inv.gone

\* The endpoint a mute or level belongs to, or a route leads to, has to be there.
Reachable(inv, field, v) ==
  CASE field[1] \in {"mute", "level"} -> Present(inv, field[2], field[3])
    [] field[1] = "route" -> Present(inv, field[2], v)
    [] OTHER -> TRUE

Ask(op, field, v, rev) ==
  call' = [op |-> op, field |-> field, v |-> v, rev |-> rev, stage |-> "sent"]

Trouble == trouble < MaxTrouble /\ trouble' = trouble + 1

Set(field, v) ==
  [hw EXCEPT ![field] = [v |-> v, rev |-> @.rev + (IF @.v = v THEN 0 ELSE 1)]]

-----------------------------------------------------------------------------
(* The helper                                                               *)

Commanded(stage) == call # None /\ call.op = "set" /\ call.stage = stage /\ helper = "up"

\* Mutant of Fits: the expected revision is not compared.
FitsAnyRevision == Reachable(Observation, call.field, call.v)

\* The command was meant for the device as it is.
Fits == hw[call.field].rev = call.rev /\ Reachable(Observation, call.field, call.v)

\* The helper has subscribed to every device before it compares.
Compare ==
  /\ Commanded("sent")
  /\ Fits
  /\ was' = [x \in DOMAIN was \cup {call.field} |-> IF x \in DOMAIN was THEN was[x] ELSE hw[x].v]
  /\ watching' = TRUE
  /\ call' = [call EXCEPT !.stage = "checked"]
  /\ UNCHANGED <<world, helper, changed, answer, seen, trouble, blind, raced>>

\* What was compared is written, whatever another wrote since.
Mutate ==
  /\ Commanded("checked")
  /\ Reachable(Observation, call.field, call.v)
  /\ hw' = Set(call.field, call.v)
  /\ who' = [who EXCEPT ![call.field] = "redxe"]
  /\ changed' = (changed \/ (watching /\ call.field # Camera))
  /\ call' = [call EXCEPT !.stage = "changed"]
  /\ UNCHANGED <<gone, helper, watching, answer, seen, trouble, histories>>

\* A stale revision, a device that is gone, or one that fails.
Refuse ==
  /\ \/ Commanded("sent") /\ ~Fits /\ trouble' = trouble
     \/ /\ Commanded("checked")
        /\ IF Reachable(Observation, call.field, call.v) THEN Trouble ELSE trouble' = trouble
  /\ call' = [call EXCEPT !.stage = "refused"]
  /\ UNCHANGED <<world, helper, watching, changed, answer, seen, histories>>

Served ==
  /\ call # None
  /\ helper = "up"
  /\ call.op = "observe" \/ call.stage \in {"changed", "refused"}

\* A mute or route that another already changed again is reported as a failure.
ReadBack ==
  /\ Served
  /\ seen' = Observation
  /\ answer' = IF \/ call.stage = "refused"
                  \/ /\ call.stage = "changed"
                     /\ call.field[1] \in {"mute", "route"}
                     /\ hw[call.field].v # call.v \/ ~Reachable(Observation, call.field, call.v)
                 THEN "failed" ELSE "ok"
  /\ call' = None
  /\ watching' = TRUE
  /\ UNCHANGED <<world, helper, changed, trouble, histories>>

\* The reply then holds the inventory from before the command.
ReadBackFails ==
  /\ Served
  /\ Trouble
  /\ seen' = [seen EXCEPT !.known = FALSE]
  /\ answer' = "failed"
  /\ blind' = IF call.stage = "changed" THEN blind \cup {call.field} ELSE blind
  /\ call' = None
  /\ watching' = TRUE
  /\ UNCHANGED <<world, helper, changed, was, raced>>

\* The audio backend goes; the next command that needs one resumes.
Suspend ==
  /\ call # None
  /\ call.op = "suspend"
  /\ helper = "up"
  /\ answer' = "ok"
  /\ call' = None
  /\ watching' = FALSE
  /\ UNCHANGED <<world, helper, changed, seen, trouble, histories>>

\* A new backend counts its revisions from one; the camera keeps its own.
Resume == hw' = [x \in Fields |-> IF x = Camera THEN hw[x] ELSE [v |-> hw[x].v, rev |-> 1]]

\* The camera feed ends with the helper.
Ended == /\ helper' = "none"
         /\ watching' = FALSE
         /\ hw' = Set(Camera, [hw[Camera].v EXCEPT !.on = FALSE])

\* A crash, a timeout, a cancelled run, a malformed reply: Execute stops the
\* helper and its command may have been carried out or not.
Lose ==
  /\ call # None
  /\ IF helper = "up"
       THEN Trouble /\ Ended
       ELSE UNCHANGED <<trouble, helper, watching, hw>>
  /\ answer' = "lost"
  /\ call' = None
  /\ UNCHANGED <<gone, who, changed, seen, histories>>

Crash ==
  /\ helper = "up"
  /\ call = None
  /\ Trouble
  /\ Ended
  /\ UNCHANGED <<gone, who, changed, call, answer, seen, histories>>

HelperStep == Compare \/ Mutate \/ Refuse \/ ReadBack \/ ReadBackFails \/ Suspend \/ Lose

-----------------------------------------------------------------------------
(* Windows and its user                                                     *)

Elsewhere(fields) ==
  /\ Trouble
  /\ who' = [x \in Fields |-> IF x \in fields THEN "other" ELSE who[x]]
  /\ raced' = raced \cup {x \in fields : call # None /\ call.stage \in {"checked", "changed"} /\ call.field = x}
  /\ changed' = (changed \/ watching)
  /\ UNCHANGED <<helper, watching, call, answer, seen, was, blind>>

Other(field, v) ==
  /\ field # Camera
  /\ hw[field].v # v
  /\ Reachable(Observation, field, v)
  /\ hw' = Set(field, v)
  /\ gone' = gone
  /\ Elsewhere({field})

\* Windows moves the roles of an unplugged endpoint to one that is left.
Unplug(f, e) ==
  /\ <<f, e>> \notin gone
  /\ gone' = gone \cup {<<f, e>>}
  /\ LET left == {x \in Endpoints : <<f, x>> \notin gone'}
         moved == {Route(f, r) : r \in {q \in RoleSet : hw[Route(f, q)].v = e}}
     IN  \E next \in IF left = {} THEN {None} ELSE left :
           /\ hw' = [x \in Fields |-> IF x \in moved THEN [v |-> next, rev |-> hw[x].rev + 1]
                                                     ELSE hw[x]]
           /\ Elsewhere(moved)

World == \/ \E field \in Fields : \E v \in Values(field) : Other(field, v)
         \/ \E f \in FlowSet, e \in Endpoints : Unplug(f, e)

HelperInit ==
  /\ \E start \in Starts : hw = [x \in Fields |-> [v |-> start[x], rev |-> 1]]
  /\ gone = {}
  /\ helper = "none" /\ watching = FALSE /\ changed = FALSE
  /\ call = None /\ answer = "none"
  /\ seen = [hw |-> hw, gone |-> {}, known |-> FALSE]
  /\ trouble = 0
  /\ who = [x \in Fields |-> "none"]
  /\ was = <<>>
  /\ blind = {} /\ raced = {}
===============================================================================
