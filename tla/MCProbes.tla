------------------------------ MODULE MCProbes ------------------------------
(* Ping, ArpScan and NetlinkDump for TLC.  The three programs share        *)
(* nothing, so a behaviour is one of one of them.                          *)
EXTENDS Ping, ArpScan, NetlinkDump

VARIABLE tool
vars == <<tool, pingVars, arpVars, nlVars>>

Init ==
    /\ tool \in {"ping", "arp_scan", "nl_get_ipaddr"}
    /\ PingInit /\ ArpInit /\ NetlinkInit
    /\ tool # "arp_scan" => live = {}
    /\ tool # "nl_get_ipaddr" => addrs = <<>> /\ ~ joins

PingStep(A) == tool = "ping" /\ A /\ UNCHANGED <<tool, arpVars, nlVars>>
ArpStep(A) == tool = "arp_scan" /\ A /\ UNCHANGED <<tool, pingVars, nlVars>>
NetlinkStep(A) ==
    tool = "nl_get_ipaddr" /\ A /\ UNCHANGED <<tool, pingVars, arpVars>>

Next == PingStep(PingNext) \/ ArpStep(ArpNext) \/ NetlinkStep(NetlinkNext)

(* Every receive of ping and arp_scan has a timeout, and the kernel works  *)
(* off a dump, so the programs go on.                                      *)
Spec ==
    /\ Init /\ [][Next]_vars
    /\ WF_vars(PingStep(PingProgram))
    /\ WF_vars(ArpStep(ArpProgram)) /\ WF_vars(ArpStep(Answers))
    /\ WF_vars(NetlinkStep(NetlinkProgram)) /\ WF_vars(NetlinkStep(Kernel))

(* Each program ends: ping and arp_scan whatever the network does, the     *)
(* dump exactly if the kernel sends NLMSG_DONE in a datagram of its own.   *)
ToolEnds ==
    /\ tool = "ping" => PingEnds
    /\ tool = "arp_scan" => ScanEnds
    /\ tool = "nl_get_ipaddr" => DumpEnds
=============================================================================
