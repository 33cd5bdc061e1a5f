---------------------------- MODULE MCShutdown ----------------------------
(* Controller.Stop for TLC: one client with one job or a batch, or two. *)
EXTENDS Shutdown, TLC

CONSTANTS j1, j2, c1, c2

OneJob == c1 :> <<j1>>

OneBatch == c1 :> <<j1, j2>>

OneJobEach == (c1 :> <<j1>>) @@ (c2 :> <<j2>>)
=============================================================================
