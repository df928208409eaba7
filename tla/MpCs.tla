-------------------------------- MODULE MpCs --------------------------------
(***************************************************************************)
(* mp-cs.c: a parent forks a server and a client of n rounds and waits for *)
(* both.  Nothing makes the client wait until the server listens.          *)
(***************************************************************************)
EXTENDS Integers

CONSTANT McsRounds   \* n, the argument
ASSUME McsAssumption == McsRounds \in Nat

VARIABLES
    ms,     \* the server: where it is
    mc,     \* the client: where it is
    mi,     \* the client's loop counter
    mwait,  \* the parent: the child it waits for
    up,     \* messages to the server
    down    \* messages to the client

mcsVars == <<ms, mc, mi, mwait, up, down>>

McsTypeOK ==
    /\ ms \in {"init", "accept", "recv", "send", "exit"}
    /\ mc \in {"init", "send", "recv", "exit", "refused", "killed"}
    /\ mi \in 0 .. McsRounds
    /\ mwait \in {"fork", "pid1", "pid2", "exit"}
    /\ up \in 0 .. 1 /\ down \in 0 .. 1

McsInit ==
    /\ ms = "init" /\ mc = "init" /\ mi = 0 /\ mwait = "fork"
    /\ up = 0 /\ down = 0

(* server(9000), or its Assert: the port is not free, as after a last run. *)
McsListen ==
    /\ ms = "init" /\ ms' \in {"accept", "exit"}
    /\ UNCHANGED <<mc, mi, mwait, up, down>>

(* c_connect(): refused unless the server listens.  The connection is made *)
(* before accept() returns.                                                *)
McsConnect ==
    /\ mc = "init" /\ mwait # "fork"
    /\ mc' = IF ms = "accept" THEN "send" ELSE "refused"
    /\ UNCHANGED <<ms, mi, mwait, up, down>>

(* accept() is given an uninitialised length: a negative one is a DIE.     *)
McsAccept ==
    /\ ms = "accept" /\ mc \in {"send", "recv", "exit"}
    /\ ms' \in {"recv", "exit"}
    /\ UNCHANGED <<mc, mi, mwait, up, down>>

(* Mutant: the client sends its next message without a recv().             *)
McsSend_NoWait ==
    /\ mc = "send"
    /\ \/ mi = McsRounds /\ mc' = "exit" /\ UNCHANGED <<up, mi>>
       \/ /\ mi < McsRounds /\ up < 2 /\ mi' = mi + 1
          /\ up' = up + 1 /\ UNCHANGED mc
    /\ UNCHANGED <<ms, mwait, down>>

(* send() to a server that has died is lost; after an earlier one that was *)
(* answered with a reset it is a SIGPIPE.                                  *)
McsSend ==
    /\ mc = "send"
    /\ \/ mi = McsRounds /\ mc' = "exit" /\ UNCHANGED up
       \/ mi < McsRounds /\ ms # "exit" /\ mc' = "recv" /\ up' = up + 1
       \/ /\ mi < McsRounds /\ ms = "exit" /\ UNCHANGED up
          /\ mc' = "recv" \/ (mi > 0 /\ mc' = "killed")
    /\ UNCHANGED <<ms, mi, mwait, down>>

McsEcho ==
    \/ /\ ms = "recv" /\ up > 0
       /\ up' = up - 1 /\ ms' = "send"
       /\ UNCHANGED <<mc, mi, mwait, down>>
    \/ /\ ms = "send"
       /\ down' = down + 1 /\ ms' = "recv"
       /\ UNCHANGED <<mc, mi, mwait, up>>

(* recv() returns an answer, or 0 or -1 when the server has died: the      *)
(* client goes on alike.                                                   *)
McsRecv ==
    /\ mc = "recv" /\ (down > 0 \/ ms = "exit")
    /\ down' = 0 /\ mi' = mi + 1 /\ mc' = "send"
    /\ UNCHANGED <<ms, mwait, up>>

(* Mutant: the loop of the server goes on when recv() returns 0.           *)
McsHangup_GoesOn ==
    /\ ms = "recv" /\ up = 0 /\ mc = "exit"
    /\ UNCHANGED mcsVars

(* recv() returns 0 when the client has exited.                            *)
McsHangup ==
    /\ ms = "recv" /\ up = 0 /\ mc = "exit"
    /\ ms' = "exit"
    /\ UNCHANGED <<mc, mi, mwait, up, down>>

(* The second fork, and the two waitpid().                                 *)
McsWait ==
    /\ \/ mwait = "fork" /\ mwait' = "pid1"
       \/ mwait = "pid1" /\ ms = "exit" /\ mwait' = "pid2"
       \/ /\ mwait = "pid2" /\ mc \in {"exit", "refused", "killed"}
          /\ mwait' = "exit"
    /\ UNCHANGED <<ms, mc, mi, up, down>>

McsServer == McsListen \/ McsAccept \/ McsEcho \/ McsHangup
McsClient == McsConnect \/ McsSend \/ McsRecv
McsNext == McsServer \/ McsClient \/ McsWait

McsSpec == McsInit /\ [][McsNext]_mcsVars

-----------------------------------------------------------------------------
One(condition) == IF condition THEN 1 ELSE 0

(* The client was too early, and the server listens after all.             *)
McsStuck == mc = "refused" /\ ms = "accept"

(* While the server lives the two take turns: just when the client waits   *)
(* for an answer there is one message under way, to the server, at it or   *)
(* back.  A client that ends by itself has done all its rounds, and the    *)
(* parent ends last.                                                       *)
McsInStep ==
    /\ McsTypeOK
    /\ ms # "exit" => up + down + One(ms = "send") = One(mc = "recv")
    /\ mc = "exit" => mi = McsRounds
    /\ mwait = "exit" => ms = "exit" /\ mc \in {"exit", "refused", "killed"}

(* All three end if the client finds the server listening, or the server   *)
(* does not listen at all; if the client is too early, and the server then *)
(* listens, the server waits in accept and the parent in waitpid for ever. *)
McsEnds ==
    /\ <>(mwait = "exit" \/ McsStuck)
    /\ [](McsStuck => [](mwait # "exit"))
=============================================================================
