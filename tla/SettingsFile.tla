------------------------------ MODULE SettingsFile ------------------------------
(***************************************************************************)
(* The settings file, the other programs that share it, and the thread     *)
(* that watches its directory (RedXe/SettingsWatcher.cpp, and the view of  *)
(* the file system RedXe/Settings.cpp relies on).  An editor may save in   *)
(* place, replace the file, delete it or keep it open; every version of    *)
(* the file has a stamp of its own.                                        *)
(***************************************************************************)
EXTENDS Integers, SequencesExt

CONSTANTS
  Widgets,     \* the widget instances whose settings are edited
  None,
  MaxTrouble   \* bound: what editors and the user do to the file or the window,
               \* and failed reads, writes, posts and applications

VARIABLES
  file,       \* [stamp, doc, valid], or None when it is missing
  held,       \* another program has it open and shares no writing or deleting
  guard,      \* the stamp of the file ReplaceSettingsDocument has open, or None
  stamps,     \* how many versions there were
  signalled,  \* the change notification
  watch,      \* WatchThread: [at |-> "arm", "wait" or "post", armed |-> BOOLEAN]
  notified,   \* _notificationPending
  mail,       \* kSettingsChangedMessage in the window's queue
  unsent,     \* history: the last post of that message failed
  trouble

fileVars == <<file, held, guard, stamps>>
watchVars == <<signalled, watch, notified, mail, unsent>>

\* A document: the last save of another program it descends from, and the last
\* edit of each widget.
NoEdits == [w \in Widgets |-> 0]

Trouble == trouble < MaxTrouble /\ trouble' = trouble + 1

\* The guard keeps writers out of the file it has open, under whatever name.
Guarded == file # None /\ guard = file.stamp

\* Any change of the directory.
Signal == signalled' = (signalled \/ watch.armed)

Put(doc, valid) ==
  /\ stamps' = stamps + 1
  /\ file' = [stamp |-> stamps', doc |-> doc, valid |-> valid]
  /\ Signal

-----------------------------------------------------------------------------
(* Other programs                                                           *)

Outsiders == UNCHANGED <<guard, watch, notified, mail, unsent>>

Saved ==
  \E valid \in BOOLEAN :
    Put([outside |-> stamps + 1, edit |-> IF file = None THEN NoEdits ELSE file.doc.edit], valid)

SaveInPlace == Trouble /\ file # None /\ ~Guarded /\ Saved /\ held' = held /\ Outsiders

\* An atomic replacement, which the guard's sharing lets through.
Replace == Trouble /\ ~held /\ Saved /\ held' = held /\ Outsiders

Delete ==
  /\ Trouble
  /\ file # None /\ ~held
  /\ file' = None
  /\ Signal
  /\ UNCHANGED <<held, stamps>>
  /\ Outsiders

Hold ==
  /\ Trouble
  /\ file # None /\ ~Guarded /\ ~held
  /\ held' = TRUE
  /\ UNCHANGED <<file, stamps, signalled>>
  /\ Outsiders

\* Closing a file is a change of the directory if it was written.
Release ==
  /\ held
  /\ held' = FALSE
  /\ (signalled' = signalled \/ Signal)
  /\ UNCHANGED <<file, stamps, trouble>>
  /\ Outsiders

-----------------------------------------------------------------------------
(* The watcher                                                              *)

Watching == UNCHANGED fileVars

\* What happened while nothing was armed is caught up by a post of its own.
Arm ==
  /\ watch.at = "arm"
  /\ watch' = [at |-> "post", armed |-> TRUE]
  /\ signalled' = FALSE
  /\ UNCHANGED <<notified, mail, unsent, trouble>>
  /\ Watching

\* FindNextChangeNotification arms it again before the debounce, or fails.
Noticed ==
  /\ watch.at = "wait"
  /\ signalled
  /\ signalled' = FALSE
  /\ \/ watch' = [watch EXCEPT !.at = "post"] /\ trouble' = trouble
     \/ watch' = [at |-> "post", armed |-> FALSE] /\ Trouble
  /\ UNCHANGED <<notified, mail, unsent>>
  /\ Watching

PostSettingsChanged ==
  /\ watch.at = "post"
  /\ watch' = [watch EXCEPT !.at = IF watch.armed THEN "wait" ELSE "arm"]
  /\ \/ notified /\ UNCHANGED <<notified, mail, unsent, trouble>>
     \/ ~notified /\ notified' = TRUE /\ mail' = mail + 1 /\ unsent' = FALSE /\ trouble' = trouble
     \/ ~notified /\ Trouble /\ unsent' = TRUE /\ UNCHANGED <<notified, mail>>
  /\ signalled' = signalled
  /\ Watching

Watcher == Arm \/ Noticed \/ PostSettingsChanged

FileInit ==
  /\ stamps = 1
  /\ file = [stamp |-> 1, doc |-> [outside |-> 0, edit |-> NoEdits], valid |-> TRUE]
  /\ held = FALSE /\ guard = None
  /\ signalled = FALSE /\ watch = [at |-> "wait", armed |-> TRUE]
  /\ notified = FALSE /\ mail = 0 /\ unsent = FALSE
  /\ trouble = 0
===============================================================================
