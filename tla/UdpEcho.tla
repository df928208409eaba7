------------------------------- MODULE UdpEcho -------------------------------
(***************************************************************************)
(* uecho-server.c and uecho-client.c over UDP: the network may lose,       *)
(* duplicate and reorder datagrams.  The client waits for one datagram per *)
(* line, without a timeout, and prints whatever it is.                     *)
(***************************************************************************)
EXTENDS Integers, Sequences, FiniteSets

CONSTANTS
    UClients,   \* clients
    ULines,     \* lines typed at each
    MaxLoss, MaxDup   \* bounds: datagrams lost and duplicated

ASSUME UdpAssumption ==
    ULines \in Nat /\ MaxLoss \in Nat /\ MaxDup \in Nat

VARIABLES
    upc,     \* upc[c]: where client c is
    net,     \* net[d]: copies of datagram d under way
    shown,   \* shown[c]: the numbers of the lines printed
    loss, dup  \* history: datagrams lost and duplicated

udpVars == <<upc, net, shown, loss, dup>>

Datagrams == [to : {"server", "client"}, peer : UClients, line : 1 .. ULines]

UdpInit ==
    /\ upc = [c \in UClients |-> "type"]
    /\ net = [d \in Datagrams |-> 0]
    /\ shown = [c \in UClients |-> <<>>]
    /\ loss = 0 /\ dup = 0

UdpTypeOK ==
    /\ upc \in [UClients -> {"type", "recv", "quit"}]
    /\ net \in [Datagrams -> 0 .. 1 + MaxDup]
    /\ shown \in [UClients -> Seq(1 .. ULines)]
    /\ loss \in 0 .. MaxLoss /\ dup \in 0 .. MaxDup

(* A line, or Q.                                                           *)
UdpSend(c) ==
    /\ upc[c] = "type"
    /\ LET k == Len(shown[c]) + 1 IN
       IF k <= ULines
       THEN /\ net' = [net EXCEPT ![[to |-> "server", peer |-> c,
                                     line |-> k]] = @ + 1]
            /\ upc' = [upc EXCEPT ![c] = "recv"]
       ELSE upc' = [upc EXCEPT ![c] = "quit"] /\ UNCHANGED net
    /\ UNCHANGED <<shown, loss, dup>>

UdpRecv(d) ==
    /\ d.to = "client" /\ net[d] > 0 /\ upc[d.peer] = "recv"
    /\ net' = [net EXCEPT ![d] = @ - 1]
    /\ shown' = [shown EXCEPT ![d.peer] = Append(@, d.line)]
    /\ upc' = [upc EXCEPT ![d.peer] = "type"]
    /\ UNCHANGED <<loss, dup>>

(* Mutant: the answer is sent before client_addr is filled in anew.        *)
Answer_Elsewhere(d) ==
    [to |-> "client", peer |-> CHOOSE c \in UClients : TRUE, line |-> d.line]

UdpAnswer(d) == [d EXCEPT !.to = "client"]

(* The server's loop: recvfrom() and sendto() to where it came from.       *)
UdpServe(d) ==
    /\ d.to = "server" /\ net[d] > 0
    /\ net' = [net EXCEPT ![d] = @ - 1, ![UdpAnswer(d)] = @ + 1]
    /\ UNCHANGED <<upc, shown, loss, dup>>

UdpLose(d) ==
    /\ net[d] > 0 /\ loss < MaxLoss
    /\ net' = [net EXCEPT ![d] = @ - 1] /\ loss' = loss + 1
    /\ UNCHANGED <<upc, shown, dup>>

UdpDup(d) ==
    /\ net[d] > 0 /\ dup < MaxDup
    /\ net' = [net EXCEPT ![d] = @ + 1] /\ dup' = dup + 1
    /\ UNCHANGED <<upc, shown, loss>>

UdpProgram == \/ \E c \in UClients : UdpSend(c)
              \/ \E d \in Datagrams : UdpRecv(d) \/ UdpServe(d)
UdpNext == UdpProgram \/ \E d \in Datagrams : UdpLose(d) \/ UdpDup(d)

UdpSpec == UdpInit /\ [][UdpNext]_udpVars

-----------------------------------------------------------------------------
(* What a client prints is one of its own lines sent before, at most as    *)
(* often as the network has copied it; and the very line it just sent as   *)
(* long as nothing was duplicated.  After one duplicate nothing brings the *)
(* answers back into step.                                                 *)
UdpEchoMatches ==
    /\ UdpTypeOK
    /\ \A c \in UClients : \A k \in 1 .. Len(shown[c]) :
          /\ shown[c][k] <= k
          /\ dup = 0 => shown[c][k] = k
          /\ Cardinality({j \in 1 .. Len(shown[c]) :
                             shown[c][j] = shown[c][k]}) <= 1 + dup

(* Every client gets through its lines unless a datagram is lost.          *)
UdpEnds == <>(loss > 0 \/ \A c \in UClients : upc[c] = "quit")
=============================================================================
