-------------------------- MODULE MCConnectorLock --------------------------
(* An instance of ConnectorLock: a process with two workers and two        *)
(* processes with one worker each.                                         *)
EXTENDS ConnectorLock, TLC

CONSTANTS p1, p2, p3, w1, w2, w3, w4

MixedProcOf == w1 :> p1 @@ w2 :> p1 @@ w3 :> p2 @@ w4 :> p3
=============================================================================
