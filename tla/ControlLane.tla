----------------------------- MODULE ControlLane -----------------------------
(***************************************************************************)
(* What a work lane of the host promises a widget, without slots, events or*)
(* threads (IRedXeHost::QueueControlWork and QueueConstructionWork,        *)
(* Common/PlugInterfaces/Host.h and Widget.h):                             *)
(*                                                                         *)
(*   - an accepted request, fresh or coalesced, stays owed until a run of  *)
(*     that unit BEGINS after it;                                          *)
(*   - one unit runs at a time, and every run yields exactly one           *)
(*     completion on the UI thread;                                        *)
(*   - closing the lane drops what is owed and suppresses completions; a   *)
(*     unit that is still running then ends without an answer, and the lane*)
(*     opens again only after it has.                                      *)
(***************************************************************************)
EXTENDS Naturals

CONSTANTS
  Work,     \* the IRedXeControlWork objects
  NoWork    \* "no unit is running"

VARIABLES
  open,     \* the lane accepts requests and delivers completions
  owed,     \* units with an accepted request that no run has yet answered
  running,  \* the unit inside Run, or NoWork
  answers,  \* answers[w]: results of w that Complete has not been called for
  completing \* the unit inside Complete, or NoWork

vars == <<open, owed, running, answers, completing>>

Init == /\ open = FALSE
        /\ owed = {}
        /\ running = NoWork
        /\ answers = [w \in Work |-> 0]
        /\ completing = NoWork

Open == /\ ~open
        /\ running = NoWork
        /\ open' = TRUE
        /\ UNCHANGED <<owed, running, answers, completing>>

Request(w) == /\ open
              /\ owed' = owed \union {w}
              /\ UNCHANGED <<open, running, answers, completing>>

\* A run answers the request it starts for; a request coalesced earlier may
\* still ask for one more run.
Begin(w) == /\ open
            /\ running = NoWork
            /\ w \in owed
            /\ running' = w
            /\ owed' \in {owed, owed \ {w}}
            /\ UNCHANGED <<open, answers, completing>>

Finish == /\ running # NoWork
          /\ answers' = [answers EXCEPT ![running] = IF open THEN @ + 1 ELSE @]
          /\ running' = NoWork
          /\ UNCHANGED <<open, owed, completing>>

Complete(w) == /\ open
               /\ completing = NoWork
               /\ answers[w] > 0
               /\ answers' = [answers EXCEPT ![w] = @ - 1]
               /\ completing' = w
               /\ UNCHANGED <<open, owed, running>>

Return == /\ completing # NoWork
          /\ completing' = NoWork
          /\ UNCHANGED <<open, owed, running, answers>>

Close == /\ open
         /\ open' = FALSE
         /\ owed' = {}
         /\ answers' = [w \in Work |-> 0]
         /\ UNCHANGED <<running, completing>>

Next == \/ Open
        \/ Finish
        \/ Return
        \/ Close
        \/ \E w \in Work : Request(w) \/ Begin(w) \/ Complete(w)

Spec == Init /\ [][Next]_vars
=============================================================================
