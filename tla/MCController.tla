---------------------------- MODULE MCController ----------------------------
(* The controller for TLC: the jobs and the batches of the clients. *)
EXTENDS ControllerProperties, TLC

CONSTANTS j1, j2, c1, c2

(* One client, with a batch of two jobs. *)
OneBatch == c1 :> <<j1, j2>>

(* One client with one job. *)
OneJob == c1 :> <<j1>>

(* Two clients whose batches share a job, so that one of them meets a        *)
(* duplicate, after a job of its own or before it.                           *)
Overlapping == (c1 :> <<j1, j2>>) @@ (c2 :> <<j2>>)

DispatcherSymmetry == Permutations(Dispatcher)
=============================================================================
