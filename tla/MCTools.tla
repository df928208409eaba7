------------------------------- MODULE MCTools -------------------------------
(* SimpleLog, OpServer, MpCs, UdpEcho, OsExec and Checksums for TLC.  They *)
(* share nothing, so a behaviour is one of one of them.                    *)
EXTENDS SimpleLog, OpServer, MpCs, UdpEcho, OsExec, Checksums

VARIABLE part
vars == <<part, logVars, opVars, mcsVars, udpVars, execVars, data>>

Init ==
    /\ LogInit /\ OpInit /\ McsInit /\ UdpInit /\ ExecInit /\ SumInit
    /\ part \in {"log", "op", "mp_cs", "uecho", "exec", "sums"}
    /\ part # "exec" => given = 0 /\ ~ ignores
    /\ part # "sums" => data = <<>>

Log(A) == /\ part = "log" /\ A
          /\ UNCHANGED <<part, opVars, mcsVars, udpVars, execVars, data>>
Op(A) == /\ part = "op" /\ A
         /\ UNCHANGED <<part, logVars, mcsVars, udpVars, execVars, data>>
Mcs(A) == /\ part = "mp_cs" /\ A
          /\ UNCHANGED <<part, logVars, opVars, udpVars, execVars, data>>
Udp(A) == /\ part = "uecho" /\ A
          /\ UNCHANGED <<part, logVars, opVars, mcsVars, execVars, data>>
Exec(A) == /\ part = "exec" /\ A
           /\ UNCHANGED <<part, logVars, opVars, mcsVars, udpVars, data>>
Sums(A) == /\ part = "sums" /\ A
           /\ UNCHANGED <<part, logVars, opVars, mcsVars, udpVars, execVars>>

Next ==
    \/ Log(LogNext) \/ Op(OpNext) \/ Mcs(McsNext)
    \/ Udp(UdpNext) \/ Exec(ExecNext) \/ Sums(SumNext)

(* A process that can run does, a datagram that is not lost arrives, and   *)
(* the users of op-client come to an end with their input.                 *)
Spec ==
    /\ Init /\ [][Next]_vars
    /\ WF_vars(Op(OpServerStep)) /\ WF_vars(Op(OpClientStep))
    /\ WF_vars(Mcs(McsServer)) /\ WF_vars(Mcs(McsClient))
    /\ WF_vars(Mcs(McsWait))
    /\ WF_vars(Udp(UdpProgram))
    /\ WF_vars(Exec(ExecProgram))

(* Each program ends, or is caught in the one wait that its source allows. *)
ToolsFinish ==
    /\ part = "op" => OpEnds
    /\ part = "mp_cs" => McsEnds
    /\ part = "uecho" => UdpEnds
    /\ part = "exec" => ExecEnds
=============================================================================
