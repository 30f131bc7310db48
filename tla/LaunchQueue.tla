----------------------------- MODULE LaunchQueue -----------------------------
(***************************************************************************)
(* What the launch lane promises, without slots, events or threads         *)
(* (RedXe/LaunchWorker.h): accepted launches are performed once, one at a  *)
(* time, in the order they were accepted, and their results are logged in  *)
(* that order on the UI thread.  Closing the lane drops the launches that  *)
(* have not begun; the one in progress still ends, and it and the results  *)
(* not yet logged may still be logged until the lane is cleared.           *)
(***************************************************************************)
EXTENDS Sequences

CONSTANTS
  Launches,  \* the launch requests
  NoLaunch   \* "no launch"

VARIABLES
  open,      \* the lane accepts launches and begins them
  queued,    \* accepted launches that have not begun, oldest first
  launching, \* the launch the shell is performing, or NoLaunch
  finished,  \* launches whose result is not logged yet, oldest first
  logging    \* the launch whose result the UI thread is logging, or NoLaunch

vars == <<open, queued, launching, finished, logging>>

Init == /\ open = FALSE
        /\ queued = <<>>
        /\ launching = NoLaunch
        /\ finished = <<>>
        /\ logging = NoLaunch

\* The first request opens the lane.
Open(l) == /\ ~open
           /\ launching = NoLaunch
           /\ finished = <<>>
           /\ open' = TRUE
           /\ queued' = <<l>>
           /\ UNCHANGED <<launching, finished, logging>>

Submit(l) == /\ open
             /\ queued' = Append(queued, l)
             /\ UNCHANGED <<open, launching, finished, logging>>

Begin == /\ open
         /\ queued # <<>>
         /\ launching = NoLaunch
         /\ launching' = Head(queued)
         /\ queued' = Tail(queued)
         /\ UNCHANGED <<open, finished, logging>>

Finish == /\ launching # NoLaunch
          /\ finished' = Append(finished, launching)
          /\ launching' = NoLaunch
          /\ UNCHANGED <<open, queued, logging>>

\* Logging moves from one result to the next without a pause in between.
Log == /\ finished # <<>>
       /\ logging' = Head(finished)
       /\ finished' = Tail(finished)
       /\ UNCHANGED <<open, queued, launching>>

Logged == /\ logging # NoLaunch
          /\ logging' = NoLaunch
          /\ UNCHANGED <<open, queued, launching, finished>>

Close == /\ open
         /\ open' = FALSE
         /\ queued' = <<>>
         /\ UNCHANGED <<launching, finished, logging>>

Clear == /\ ~open
         /\ launching = NoLaunch
         /\ finished' = <<>>
         /\ UNCHANGED <<open, queued, launching, logging>>

Next == \/ \E l \in Launches : Open(l) \/ Submit(l)
        \/ Begin \/ Finish \/ Log \/ Logged \/ Close \/ Clear

Spec == Init /\ [][Next]_vars
=============================================================================
