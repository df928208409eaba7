---------------------------- MODULE EchoService ----------------------------
(***************************************************************************)
(* What an echo server promises its clients: what comes back to a client   *)
(* is a prefix of what that client sent, each cell once and in order.      *)
(* Nothing is promised after either side has hung up.                      *)
(***************************************************************************)
EXTENDS Integers, Sequences

CONSTANTS Peers, Cells

VARIABLES sent,   \* sent[k]: all that client k has written
          back    \* back[k]: all that client k has read

vars == <<sent, back>>

Init ==
    /\ sent = [k \in Peers |-> <<>>]
    /\ back = [k \in Peers |-> <<>>]

Send(k) ==
    /\ sent'[k] \in Seq(Cells)
    /\ SubSeq(sent'[k], 1, Len(sent[k])) = sent[k]
    /\ sent' = [sent EXCEPT ![k] = sent'[k]]
    /\ UNCHANGED back

Return(k) ==
    /\ \E n \in Len(back[k]) + 1 .. Len(sent[k]) :
          back' = [back EXCEPT ![k] = SubSeq(sent[k], 1, n)]
    /\ UNCHANGED sent

Next == \E k \in Peers : Send(k) \/ Return(k)

Spec == Init /\ [][Next]_vars
=============================================================================
