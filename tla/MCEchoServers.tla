---------------------------- MODULE MCEchoServers ----------------------------
(* The instance of EchoServers for TLC; EchoServers.cfg has the bounds.    *)
EXTENDS EchoServers, TLC

MCQuota == <<2, 2>>
=============================================================================
