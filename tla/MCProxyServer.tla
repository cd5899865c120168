---------------------------- MODULE MCProxyServer ----------------------------
(* Two names one of which is the other's path for a low stream.            *)
EXTENDS ProxyServer

LowName(n) == IF n = "cam" THEN "low_cam" ELSE "low_low_cam"
=============================================================================
