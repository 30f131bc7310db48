------------------------------ MODULE SettingsStore ------------------------------
(***************************************************************************)
(* The settings document in memory and on disk.  Widgets' edits reach the  *)
(* UI thread at once or through a table other threads fill (PluginHost.cpp,*)
(* over the wake-up of UiWake); the UI thread patches the document and     *)
(* replaces the file, step by step while other programs change it, and     *)
(* reloads it when the watcher says so (Settings.cpp, Application.cpp).    *)
(***************************************************************************)
EXTENDS SettingsFile

CONSTANT MaxEdits   \* bound: submissions and interactive edits; edits are
                    \* numbered in the order they are made

ASSUME SettingsAssumption == IsFiniteSet(Widgets) /\ None \notin Nat

VARIABLES
  mem,       \* *_settings: the typed settings and their source document
  previous,  \* the document a failed persist goes back to
  applied, rejected, deferred,  \* _lastAppliedStamp, ... (None; 0 is the zero stamp)
  ui,        \* where the UI thread is
  todo,      \* the edits it still has to deliver: <<[w, id]>>
  loading,   \* TryLoadChanged: [stamp, doc]
  window,    \* "normal", "moving" (a size or move loop) or "iconic"
  replay,    \* _settingsReloadDeferred
  table,     \* _pendingSettings: [Widgets -> edit, 0 for none]
  at, pending, posted, lost,  \* of UiWake
  edits,
  posix,     \* the file system renames over an open file
  failed,    \* history: the edits whose persist failed
  late,      \* history: a change fell between the last check and the rename
  unread     \* history: the last load could not read the file

store == <<mem, previous, applied, rejected, deferred>>
queue == <<table, at, pending, posted, lost>>
vars == <<fileVars, watchVars, trouble, store, ui, todo, loading, window, replay,
          queue, edits, posix, failed, late, unread>>

Wake == INSTANCE UiWake WITH
          Producers <- Widgets,
          ready <- [w \in Widgets |-> table[w] # 0],
          target <- "set",
          ui <- IF ui = "ack" THEN "ack" ELSE IF ui = "idle" THEN "idle" ELSE "drain",
          todo <- {}

Stamp == IF file = None THEN 0 ELSE file.stamp

-----------------------------------------------------------------------------
(* The table and its wake-up: threads of the widgets                        *)

Elsewhere == UNCHANGED <<fileVars, watchVars, store, ui, todo, loading, window,
                         replay, posix, failed, late, unread>>

\* A later submission of an instance replaces the one that waits.
QueueWidgetSettings(w) ==
  /\ edits < MaxEdits
  /\ edits' = edits + 1
  /\ table' = [table EXCEPT ![w] = edits']
  /\ trouble' = trouble
  /\ Elsewhere
  /\ Wake!Publish(w)

RequestUiInvalidate(w) ==
  /\ UNCHANGED <<table, edits>>
  /\ Elsewhere
  /\ \/ Wake!LoadTarget(w) /\ trouble' = trouble
     \/ Wake!Exchange(w) /\ trouble' = trouble
     \/ Wake!Post(w) /\ trouble' = trouble
     \/ Wake!PostFails(w) /\ Trouble
     \/ Wake!Undo(w) /\ trouble' = trouble

-----------------------------------------------------------------------------
(* The UI thread: edits                                                     *)

OnUi == UNCHANGED <<watch, notified, mail, unsent, loading, window, replay, posix, late, unread>>
NoFile == UNCHANGED <<fileVars, signalled>>

ReceiveUi ==
  /\ ui = "idle"
  /\ ui' = "ack"
  /\ UNCHANGED <<trouble, store, todo, table, edits, failed>>
  /\ NoFile /\ OnUi
  /\ Wake!Receive

\* Mutant of AcknowledgeUiInvalidate: the flag is not handed back.
AcknowledgeNothing ==
  /\ ui = "ack"
  /\ ui' = "swap"
  /\ UNCHANGED <<trouble, store, todo, queue, edits, failed>>
  /\ NoFile /\ OnUi

AcknowledgeUiInvalidate ==
  /\ ui = "ack"
  /\ ui' = "swap"
  /\ pending' = FALSE
  /\ UNCHANGED <<trouble, store, todo, table, at, posted, lost, edits, failed>>
  /\ NoFile /\ OnUi

\* The whole table is detached before any of it is committed.
SwapTable ==
  /\ ui = "swap"
  /\ todo' \in SetToSeqs({[w |-> w, id |-> table[w]] : w \in {x \in Widgets : table[x] # 0}})
  /\ table' = [w \in Widgets |-> 0]
  /\ ui' = IF todo' = <<>> THEN "idle" ELSE "patch"
  /\ UNCHANGED <<trouble, store, at, pending, posted, lost, edits, failed>>
  /\ NoFile /\ OnUi

\* Mutant of Earlier: the interactive edit does not look into the table.
EarlierIgnored(w) == <<>>

Earlier(w) == IF table[w] = 0 THEN <<>> ELSE <<[w |-> w, id |-> table[w]]>>

\* A user's edit; an older one that waits for the same instance goes first.
PersistWidgetSettings(w) ==
  /\ ui = "idle"
  /\ edits < MaxEdits
  /\ edits' = edits + 1
  /\ todo' = Append(Earlier(w), [w |-> w, id |-> edits'])
  /\ table' = IF Earlier(w) = <<>> THEN table ELSE [table EXCEPT ![w] = 0]
  /\ ui' = "patch"
  /\ UNCHANGED <<trouble, store, at, pending, posted, lost, failed>>
  /\ NoFile /\ OnUi

-----------------------------------------------------------------------------
(* The UI thread: one edit is merged and the file replaced                  *)

Editing == UNCHANGED <<queue, edits>> /\ OnUi

\* On to the next edit; the guard goes with the call.
Settle == /\ todo' = Tail(todo)
          /\ ui' = IF Len(todo) > 1 THEN "patch" ELSE "idle"
          /\ guard' = None
          /\ previous' = None

\* Mutant of Undone: a failed persist leaves its edit in the document.
UndoneNever == mem

Undone == previous

\* A failure takes back the merge.
Fail == /\ Settle
        /\ failed' = failed \cup {Head(todo).id}
        /\ mem' = Undone
        /\ UNCHANGED <<file, held, stamps, signalled, applied, rejected, deferred>>

\* Mutant of Observed: the deferral is not recorded.
ObservedNever == deferred

Observed == Stamp

\* S_FALSE: the document on disk is not RedXe's to write, and the merge waits.
Defer == /\ Settle
         /\ deferred' = Observed
         /\ UNCHANGED <<file, held, stamps, signalled, mem, applied, rejected, trouble, failed>>

On(next) == ui' = next /\ UNCHANGED <<todo, failed>>

\* The merge, which may be rejected, or change nothing.
PatchWidgetInstanceSettings ==
  /\ ui = "patch"
  /\ \/ /\ mem' = [mem EXCEPT !.edit[Head(todo).w] = Head(todo).id]
        /\ On("open") /\ guard' = guard /\ previous' = mem /\ trouble' = trouble
     \/ /\ mem' = mem
        /\ IF deferred = None THEN Settle ELSE On("open") /\ guard' = guard /\ previous' = mem
        /\ UNCHANGED <<trouble, failed>>
     \/ /\ Trouble
        /\ Settle
        /\ failed' = failed \cup {Head(todo).id}
        /\ mem' = mem
  /\ UNCHANGED <<file, held, stamps, signalled, applied, rejected, deferred>>
  /\ Editing

\* ReplaceSettingsDocument: the guard opens only the file that was applied.
OpenGuard ==
  /\ ui = "open"
  /\ IF applied = None \/ held \/ Stamp # applied THEN Defer
     ELSE \/ /\ On("write")
             /\ guard' = applied
             /\ UNCHANGED <<file, held, stamps, signalled, store, trouble>>
          \/ Trouble /\ Fail
  /\ Editing

\* The temporary file.
WriteTemporary ==
  /\ ui = "write"
  /\ \/ On("check") /\ UNCHANGED <<fileVars, signalled, store, trouble>>
     \/ Trouble /\ Fail
  /\ Editing

\* Mutant of StillExpected: the name is not looked up again.
StillExpectedAlways == TRUE

StillExpected == Stamp = applied

CheckAgain ==
  /\ ui = "check"
  /\ IF StillExpected
       THEN On("rename") /\ UNCHANGED <<fileVars, signalled, store, trouble>>
       ELSE Defer
  /\ Editing

\* The stamp of the renamed file may be unreadable: the save stands.
Recorded(stamp) == /\ \/ applied' = stamp /\ trouble' = trouble
                      \/ applied' = None /\ Trouble
                   /\ deferred' = None

\* Over an open file, whose guard stays until the rename has happened; without
\* that in the file system, and for a file another program has opened, the guard
\* is given up first.
Rename ==
  /\ ui = "rename"
  /\ IF posix /\ ~held
       THEN \/ /\ Put(mem, TRUE)
               /\ Settle
               /\ Recorded(stamps')
               /\ UNCHANGED <<held, mem, rejected, failed>>
            \/ Trouble /\ Fail
       ELSE /\ On("classic")
            /\ guard' = None
            /\ UNCHANGED <<file, held, stamps, signalled, store, trouble>>
  /\ Editing

RenameClassic ==
  /\ ui = "classic"
  /\ IF held THEN Defer
     ELSE \/ /\ Put(mem, TRUE)
             /\ On("stamp")
             /\ UNCHANGED <<held, guard, store, trouble>>
          \/ Trouble /\ Fail
  /\ Editing

ReadStamp ==
  /\ ui = "stamp"
  /\ Settle
  /\ Recorded(IF file = None THEN None ELSE Stamp)
  /\ UNCHANGED <<file, held, stamps, signalled, mem, rejected, failed>>
  /\ Editing

-----------------------------------------------------------------------------
(* The UI thread: reloading                                                 *)

Reloading == UNCHANGED <<fileVars, signalled, watch, todo, edits, at, pending, posted, lost,
                         posix, failed, late, previous>>

\* Mutant of Acknowledged: the flag is not handed back.
AcknowledgedNever == notified

Acknowledged == FALSE

\* In a move loop the message is neither acknowledged nor followed.
OnSettingsChanged ==
  /\ ui = "idle"
  /\ mail > 0
  /\ mail' = mail - 1
  /\ IF window = "moving"
       THEN replay' = TRUE /\ UNCHANGED <<ui, notified>>
       ELSE ui' = "query" /\ notified' = Acknowledged /\ replay' = replay
  /\ UNCHANGED <<trouble, mem, applied, rejected, deferred, loading, window, table, unsent, unread>>
  /\ Reloading

\* TryLoadChanged: the stamp first; a version that was dealt with is not read.
QueryStamp ==
  /\ ui = "query"
  /\ IF file = None \/ Stamp \in {applied, rejected}
       THEN ui' = "idle" /\ loading' = None
       ELSE ui' = "load" /\ loading' = [stamp |-> Stamp, doc |-> mem]
  /\ UNCHANGED <<trouble, mem, applied, rejected, deferred, mail, notified, window, replay, table, unsent, unread>>
  /\ Reloading

LoadCandidate ==
  /\ ui = "load"
  /\ \/ /\ IF file = None \/ held THEN trouble' = trouble ELSE Trouble
        /\ ui' = "idle" /\ loading' = None /\ unread' = TRUE
        /\ rejected' = rejected
     \/ /\ file # None /\ ~held
        /\ IF file.valid
             THEN /\ ui' = "apply" /\ loading' = [loading EXCEPT !.doc = file.doc]
                  /\ rejected' = rejected
             ELSE /\ ui' = "idle" /\ loading' = None
                  /\ rejected' = loading.stamp
        /\ unread' = FALSE
        /\ trouble' = trouble
  /\ UNCHANGED <<mem, applied, deferred, mail, notified, window, replay, table, unsent>>
  /\ Reloading

\* A minimized window cannot size a rebuilt page.  An application that fails
\* is rolled back; edits that wait for an instance that is gone are discarded.
ApplySettings ==
  /\ ui = "apply"
  /\ ui' = "idle" /\ loading' = None
  /\ \/ /\ window = "iconic"
        /\ replay' = TRUE
        /\ UNCHANGED <<trouble, mem, applied, rejected, deferred, table>>
     \/ /\ mem' = loading.doc
        /\ applied' = loading.stamp /\ rejected' = None /\ deferred' = None
        /\ \E removed \in SUBSET Widgets :
             table' = [w \in Widgets |-> IF w \in removed THEN 0 ELSE table[w]]
        /\ UNCHANGED <<trouble, replay>>
     \/ /\ Trouble
        /\ rejected' = loading.stamp
        /\ UNCHANGED <<mem, applied, deferred, table, replay>>
  /\ UNCHANGED <<mail, notified, window, unsent, unread>>
  /\ Reloading

\* The end of a move, or a restored window, posts what was deferred.
ChangeWindow ==
  /\ ui = "idle"
  /\ \/ window = "normal" /\ Trouble /\ window' \in {"moving", "iconic"} /\ UNCHANGED <<replay, mail>>
     \/ /\ window # "normal" /\ window' = "normal"
        /\ \/ ~replay /\ UNCHANGED <<replay, mail, trouble>>
           \/ replay /\ replay' = FALSE /\ mail' = mail + 1 /\ trouble' = trouble
           \/ replay /\ Trouble /\ UNCHANGED <<replay, mail>>
  /\ UNCHANGED <<ui, mem, applied, rejected, deferred, loading, notified, table, unsent, unread>>
  /\ Reloading

\* The action redxe.settings.reload.
ForgetStamps ==
  /\ ui = "idle"
  /\ Trouble
  /\ applied' = None /\ rejected' = None
  /\ \/ mail' = mail + 1 /\ unsent' = unsent
     \/ mail' = mail /\ unsent' = TRUE
  /\ UNCHANGED <<ui, mem, deferred, loading, notified, window, replay, table, unread>>
  /\ Reloading

-----------------------------------------------------------------------------
Inside == UNCHANGED <<store, ui, todo, loading, window, replay, queue, edits, posix, failed, unread>>

\* Between the last check and the rename only what the guard lets through.
Outside ==
  /\ \/ SaveInPlace /\ late' = (late \/ ui \in {"classic", "stamp"})
     \/ (Replace \/ Delete) /\ late' = (late \/ ui \in {"rename", "classic", "stamp"})
     \/ (Hold \/ Release) /\ late' = late
  /\ Inside

Init ==
  /\ FileInit
  /\ mem = file.doc /\ previous = None
  /\ applied = 1 /\ rejected = None /\ deferred = None
  /\ ui = "idle" /\ todo = <<>> /\ loading = None
  /\ window = "normal" /\ replay = FALSE
  /\ table = [w \in Widgets |-> 0]
  /\ at = [w \in Widgets |-> "idle"] /\ pending = FALSE /\ posted = 0 /\ lost = FALSE
  /\ edits = 0
  /\ posix \in BOOLEAN
  /\ failed = {} /\ late = FALSE /\ unread = FALSE

Persist == PatchWidgetInstanceSettings \/ OpenGuard \/ WriteTemporary \/ CheckAgain
           \/ Rename \/ RenameClassic \/ ReadStamp

Ui == ReceiveUi \/ AcknowledgeUiInvalidate \/ SwapTable \/ Persist
      \/ OnSettingsChanged \/ QueryStamp \/ LoadCandidate \/ ApplySettings

Next == \/ Ui
        \/ \E w \in Widgets : QueueWidgetSettings(w) \/ RequestUiInvalidate(w) \/ PersistWidgetSettings(w)
        \/ ChangeWindow \/ ForgetStamps
        \/ Outside
        \/ Watcher /\ Inside /\ late' = late

Spec == Init /\ [][Next]_vars

\* The message loop takes both messages, and the threads inside a call go on.
\* Other programs owe nothing: one may hold the file for ever.
FairSpec ==
  /\ Spec
  /\ WF_vars(ReceiveUi) /\ WF_vars(OnSettingsChanged)
  /\ WF_vars(Ui)
  /\ \A w \in Widgets : WF_vars(RequestUiInvalidate(w))
  /\ WF_vars(Watcher /\ Inside /\ late' = late)

-----------------------------------------------------------------------------
(* Properties                                                               *)

\* What a thread queues reaches the document, fails, or is discarded with its
\* instance: it does not stay in the table, unless the post of its wake-up
\* failed ("S_OK means accepted, not committed").
QueuedIsDelivered == \A w \in Widgets : table[w] # 0 ~> table[w] = 0 \/ lost

\* An edit of an instance never overwrites one made after it, whichever way
\* the two came; only a reload or a failed persist goes back.
EditsInOrder ==
  [][\A w \in Widgets : mem'.edit[w] < mem.edit[w] => ui = "apply" \/ mem' = previous]_vars

\* An edit whose persist failed is neither on disk nor in memory, whatever is
\* saved after it ("A later partial save MUST NOT resurrect a rejected change").
FailedLeavesNoTrace ==
  \A w \in Widgets : /\ ui = "idle" => mem.edit[w] \notin failed
                     /\ file # None => file.doc.edit[w] \notin failed

\* While the file is the one last applied, what is in memory is on disk, or a
\* deferral is on record that the next persist makes good.
DeferredIsRecorded ==
  ui = "idle" /\ file # None /\ Stamp = applied => file.doc = mem \/ deferred # None \/ late

\* What a thread queued is not left behind: somebody is inside RequestUiInvalidate,
\* a message waits or is handled, or the last attempt to post failed.
EditIsOnItsWay ==
  \A w \in Widgets : table[w] # 0 => \/ \E v \in Widgets : at[v] # "idle"
                                     \/ posted > 0
                                     \/ ui \in {"ack", "swap"}
                                     \/ lost

\* The watcher or the message loop will have RedXe look at the file again, or
\* the last post of the message failed.
Awaited == signalled \/ watch.at # "wait" \/ mail > 0 \/ replay \/ unsent

\* A version that RedXe has neither applied nor rejected is not overlooked: it is
\* about to be looked at, or could not be read.  The stamp that is read before
\* the file, the notifications of RedXe's own renames, the coalescing of two
\* threads' messages and the deferrals of a moving window lose none.
SaveIsOnItsWay ==
  file # None /\ Stamp \notin {applied, rejected} =>
    Awaited \/ ui \in {"query", "load", "apply"} \/ unread

\* Nothing that is to reach the document or the file is forgotten: no edit in the
\* table, no deferred merge, no save of another program.
NothingIsForgotten == EditIsOnItsWay /\ DeferredIsRecorded /\ SaveIsOnItsWay

\* RedXe replaces no version of the file that it has not applied, except one
\* that came between its last check and the rename.
OthersSavesAreKept ==
  [][(ui \in {"rename", "classic"} /\ file' # file /\ file' # None /\ file'.doc = mem
       => (Stamp = applied \/ late))]_vars

\* Every save of another program is applied, or rejected, once the window is
\* neither moved nor minimized; what could not be read, or not be posted, waits
\* for the next change.
SavesAreFollowed ==
  <>[](window = "normal")
    => <>[](\/ file = None \/ Stamp = rejected \/ mem.outside = file.doc.outside
            \/ unread \/ unsent \/ replay \/ late)
===============================================================================
