----------------------------- MODULE MCHostGate ------------------------------
(* The main and the sub stream of a camera, next to another camera.        *)
EXTENDS HostGate, TLC

CONSTANTS main, sub, other, cam, cam2

Hosts == main :> cam @@ sub :> cam @@ other :> cam2
=============================================================================
