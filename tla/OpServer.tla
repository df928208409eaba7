------------------------------ MODULE OpServer ------------------------------
(***************************************************************************)
(* op-server.c and op-client.c: a client sends the number of its operands, *)
(* the operands and an operator in one write, the server answers with the  *)
(* result.  The server serves one client after the other, five in all.     *)
(*                                                                         *)
(* A cell of the stream is the count, an operand or the operator; a read   *)
(* returns any number of the cells that have arrived.                      *)
(***************************************************************************)
EXTENDS Integers, Sequences, SequencesExt

CONSTANTS
    Serves,     \* clients served before the server ends (5)
    Operands,   \* values of an operand
    MaxOpnd     \* bound: operands of a request

ASSUME OpAssumption ==
    Serves \in Nat \ {0} /\ Operands \subseteq Int /\ MaxOpnd \in Nat

VARIABLES
    opc,      \* where the server's loop is
    turn,     \* i: clients served
    peer,     \* clnt_sock, a client or 0
    opnd_cnt, \* operands announced
    opmsg,    \* cells received of this client
    oclients, \* oclients[k]: state, request, answer
    obacklog, \* connections not accepted yet
    stream    \* stream[k]: cells sent and not read

opVars == <<opc, turn, peer, opnd_cnt, opmsg, oclients, obacklog, stream>>

OpClients == 1 .. Serves
Ops == {"*", "+", "-"}
Requests == [nums : BoundedSeq(Operands, MaxOpnd), op : Ops \cup {"/"}]
Nothing == [nums |-> <<>>, op |-> "?"]

OpTypeOK ==
    /\ opc \in {"accept", "count", "recv", "end", "dead"}
    /\ turn \in 0 .. Serves /\ peer \in 0 .. Serves
    /\ opnd_cnt \in 0 .. MaxOpnd
    /\ oclients \in [OpClients ->
          [st : {"new", "typing", "waiting", "done", "gone"},
           req : Requests \cup {Nothing}, res : Int]]

OpInit ==
    /\ opc = "accept" /\ turn = 0 /\ peer = 0
    /\ opnd_cnt = 0 /\ opmsg = <<>>
    /\ oclients = [k \in OpClients |->
                      [st |-> "new", req |-> Nothing, res |-> 0]]
    /\ obacklog = <<>> /\ stream = [k \in OpClients |-> <<>>]

-----------------------------------------------------------------------------
(* op-client                                                               *)
OpConnect(k) ==
    /\ oclients[k].st = "new"
    /\ oclients' = [oclients EXCEPT ![k].st = "typing"]
    /\ obacklog' = Append(obacklog, k)
    /\ UNCHANGED <<opc, turn, peer, opnd_cnt, opmsg, stream>>

OpSend(k, r) ==
    /\ oclients[k].st = "typing"
    /\ oclients' = [oclients EXCEPT ![k].st = "waiting", ![k].req = r]
    /\ stream' = [stream EXCEPT
                     ![k] = <<Len(r.nums)>> \o r.nums \o <<r.op>>]
    /\ UNCHANGED <<opc, turn, peer, opnd_cnt, opmsg, obacklog>>

(* Ended at the prompt, before anything was written.                       *)
OpAbort(k) ==
    /\ oclients[k].st = "typing"
    /\ oclients' = [oclients EXCEPT ![k].st = "gone"]
    /\ UNCHANGED <<opc, turn, peer, opnd_cnt, opmsg, obacklog, stream>>

-----------------------------------------------------------------------------
(* op-server                                                               *)
OpAccept ==
    /\ opc = "accept" /\ turn < Serves /\ obacklog # <<>>
    /\ opc' = "count" /\ peer' = Head(obacklog) /\ obacklog' = Tail(obacklog)
    /\ UNCHANGED <<turn, opnd_cnt, opmsg, oclients, stream>>

(* Mutant: recv_len is not set to 0 for the next client.                   *)
OpCount_NoReset ==
    /\ opc = "count" /\ stream[peer] # <<>>
    /\ opc' = "recv"
    /\ opnd_cnt' = Head(stream[peer])
    /\ stream' = [stream EXCEPT ![peer] = Tail(@)]
    /\ UNCHANGED <<turn, peer, opmsg, oclients, obacklog>>

(* read() of the count; 0 at the end of the stream, the count is then 0.   *)
OpCount ==
    /\ opc = "count"
    /\ stream[peer] # <<>> \/ oclients[peer].st = "gone"
    /\ opc' = "recv" /\ opmsg' = <<>>
    /\ IF stream[peer] # <<>>
       THEN /\ opnd_cnt' = Head(stream[peer])
            /\ stream' = [stream EXCEPT ![peer] = Tail(@)]
       ELSE opnd_cnt' = 0 /\ UNCHANGED stream
    /\ UNCHANGED <<turn, peer, oclients, obacklog>>

Incomplete == Len(opmsg) < opnd_cnt + 1

(* read() of what has arrived.  At the end of the stream it returns 0 for  *)
(* ever and the loop goes round.                                           *)
OpRecv(n) ==
    /\ opc = "recv" /\ Incomplete /\ n <= Len(stream[peer])
    /\ opmsg' = opmsg \o SubSeq(stream[peer], 1, n)
    /\ stream' = [stream EXCEPT ![peer] = SubSeq(@, n + 1, Len(@))]
    /\ UNCHANGED <<opc, turn, peer, opnd_cnt, oclients, obacklog>>

(* result, from nums[0] on, after each round of the loop.                  *)
add(nums) ==
    LET result[i \in 1 .. Len(nums)] ==
            IF i = 1 THEN nums[1] ELSE result[i - 1] + nums[i]
    IN  result[Len(nums)]
sub(nums) ==
    LET result[i \in 1 .. Len(nums)] ==
            IF i = 1 THEN nums[1] ELSE result[i - 1] - nums[i]
    IN  result[Len(nums)]
(* This loop starts at 0: the first operand is a factor twice.             *)
multi(nums) ==
    LET result[i \in 0 .. Len(nums)] ==
            IF i = 0 THEN nums[1] ELSE result[i - 1] * nums[i]
    IN  result[Len(nums)]

(* Without operands the functions read nums[0], bytes left in the buffer.  *)
calc(nums, op) ==
    IF nums = <<>> THEN Operands
    ELSE {CASE op = "*" -> multi(nums)
            [] op = "+" -> add(nums)
            [] op = "-" -> sub(nums)}

(* calc(), write() and close(); an operator without an entry in func calls *)
(* through an uninitialised pointer.                                       *)
OpAnswer ==
    /\ opc = "recv" /\ ~ Incomplete
    /\ IF Last(opmsg) \in Ops
       THEN /\ \E result \in calc(SubSeq(opmsg, 1, opnd_cnt), Last(opmsg)) :
                  oclients' = [oclients EXCEPT ![peer].st = "done",
                                               ![peer].res = result]
            /\ turn' = turn + 1 /\ peer' = 0
            /\ opc' = IF turn + 1 = Serves THEN "end" ELSE "accept"
       ELSE opc' = "dead" /\ UNCHANGED <<turn, peer, oclients>>
    /\ UNCHANGED <<opnd_cnt, opmsg, obacklog, stream>>

OpServerStep ==
    OpAccept \/ OpCount \/ OpAnswer \/ \E n \in 1 .. MaxOpnd + 1 : OpRecv(n)
OpClientStep == \E k \in OpClients :
    OpConnect(k) \/ OpAbort(k) \/ \E r \in Requests : OpSend(k, r)
OpNext == OpServerStep \/ OpClientStep

OpSpec == OpInit /\ [][OpNext]_opVars

-----------------------------------------------------------------------------
(* Every client that is answered gets the value of its own request however *)
(* the stream was cut: the sum, the first operand minus the others, or the *)
(* product times the first operand once more (the loop of multi).          *)
OpAnswersRight ==
    /\ OpTypeOK
    /\ \A k \in OpClients :
          LET r == oclients[k].req
              n == Len(r.nums)
              Sum[i \in 0 .. n] == IF i = 0 THEN 0 ELSE Sum[i-1] + r.nums[i]
              Prod[i \in 0 .. n] == IF i = 0 THEN 1 ELSE Prod[i-1] * r.nums[i]
          IN  oclients[k].st = "done" =>
                /\ r.op \in Ops
                /\ n > 0 => oclients[k].res =
                      CASE r.op = "+" -> Sum[n]
                        [] r.op = "-" -> 2 * r.nums[1] - Sum[n]
                        [] r.op = "*" -> r.nums[1] * Prod[n]

(* The server ends once all are answered, unless a client left before it   *)
(* sent anything (the read loop then spins for ever and nobody else is     *)
(* served) or named an operator the server does not have.                  *)
OpEnds ==
    \/ <>(opc = "end" /\ \A k \in OpClients : oclients[k].st = "done")
    \/ <>(\E k \in OpClients : oclients[k].st = "gone" \/
                               oclients[k].req.op = "/")
=============================================================================
