----------------------------- MODULE SavedState -----------------------------
(***************************************************************************)
(* What takeSnapshot and loadSnapshot promise together: a process that     *)
(* starts has the state that some earlier process had at the moment of its *)
(* last snapshot that succeeded.  Nothing is said of files.                *)
(***************************************************************************)
CONSTANTS Data,     \* the states of the process
          Empty     \* that of one that starts without a snapshot

VARIABLES up,       \* a process runs
          state,    \* its state
          writing,  \* the state being saved, if any
          saved     \* the state a start would find

vars == <<up, state, writing, saved>>

Init == up = TRUE /\ state = Empty /\ writing = {} /\ saved = Empty

Change == up /\ state' \in Data /\ UNCHANGED <<up, writing, saved>>

(* The state at one moment; changes go on while it is saved. *)
Copy == up /\ writing = {} /\ writing' = {state} /\ UNCHANGED <<up, state, saved>>

Save == up /\ saved' \in writing /\ writing' = {} /\ UNCHANGED <<up, state>>

GiveUp == up /\ writing' = {} /\ UNCHANGED <<up, state, saved>>

(* What was not saved is lost. *)
Crash == up /\ up' = FALSE /\ state' = Empty /\ writing' = {} /\ UNCHANGED saved

Restart == ~ up /\ up' = TRUE /\ state' = saved /\ UNCHANGED <<writing, saved>>

Next == Change \/ Copy \/ Save \/ GiveUp \/ Crash \/ Restart

Spec == Init /\ [][Next]_vars
=============================================================================
