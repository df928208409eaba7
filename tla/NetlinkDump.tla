----------------------------- MODULE NetlinkDump -----------------------------
(***************************************************************************)
(* nl_get_ipaddr.c: a request for all addresses, then datagrams received   *)
(* one after the other until one *begins* with NLMSG_DONE.  A message is   *)
(* an address (its number, and whether it has a broadcast address), DONE   *)
(* or ERROR.                                                               *)
(***************************************************************************)
EXTENDS Integers, Sequences, SequencesExt

CONSTANTS
    MaxAddrs,   \* bound: addresses the kernel knows
    BatchSize   \* bound: messages that fit a datagram

ASSUME NetlinkAssumption == MaxAddrs \in Nat /\ BatchSize \in Nat \ {0}

VARIABLES
    npc,       \* where main is
    nh,        \* the messages from nh to the end of the buffer
    inbox,     \* datagrams the socket holds
    addrs,     \* the kernel: has address k a broadcast address too?
    dumped,    \* the kernel: addresses sent so far
    joins,     \* the kernel puts DONE behind the last address (Linux 6.9)
    over,      \* the kernel: the dump has ended, how
    logged     \* history: the lines with addresses

nlVars == <<npc, nh, inbox, addrs, dumped, joins, over, logged>>

Message == [type : {"NEWADDR"}, addr : 1 .. MaxAddrs, broadcast : BOOLEAN]
             \cup [type : {"DONE", "ERROR"}]
Line == {"IFA_ADDRESS", "IFA_BROADCAST"} \X (1 .. MaxAddrs)

NetlinkTypeOK ==
    /\ npc \in {"send", "recv", "parse", "exit"}
    /\ nh \in Seq(Message) /\ Len(nh) <= BatchSize
    /\ inbox \in Seq(Seq(Message))
    /\ addrs \in Seq(BOOLEAN) /\ dumped \in 0 .. Len(addrs)
    /\ joins \in BOOLEAN /\ over \in {"no", "own", "joined", "error"}
    /\ logged \in Seq(Line)

NetlinkInit ==
    /\ npc = "send" /\ nh = <<>> /\ inbox = <<>>
    /\ addrs \in BoundedSeq(BOOLEAN, MaxAddrs) /\ dumped = 0
    /\ joins \in BOOLEAN /\ over = "no" /\ logged = <<>>

(* The request RTM_GETADDR with NLM_F_DUMP.                                *)
SendDump ==
    /\ npc = "send" /\ npc' = "recv"
    /\ UNCHANGED <<nh, inbox, addrs, dumped, joins, over, logged>>

-----------------------------------------------------------------------------
(* The kernel's side.                                                      *)
NewAddr(k) == [type |-> "NEWADDR", addr |-> k, broadcast |-> addrs[k]]
Batch(n) == [k \in 1 .. n |-> NewAddr(dumped + k)]

DumpBatch(n) ==
    /\ npc # "send" /\ over = "no"
    /\ dumped + n <= Len(addrs)
    /\ \/ /\ ~ (joins /\ dumped + n = Len(addrs)) \/ n = BatchSize
          /\ inbox' = Append(inbox, Batch(n)) /\ UNCHANGED over
       \/ /\ joins /\ dumped + n = Len(addrs) /\ n < BatchSize
          /\ inbox' = Append(inbox, Append(Batch(n), [type |-> "DONE"]))
          /\ over' = "joined"
    /\ dumped' = dumped + n
    /\ UNCHANGED <<npc, nh, addrs, joins, logged>>

DumpDone ==
    /\ npc # "send" /\ over = "no" /\ dumped = Len(addrs)
    /\ inbox' = Append(inbox, <<[type |-> "DONE"]>>) /\ over' = "own"
    /\ UNCHANGED <<npc, nh, addrs, dumped, joins, logged>>

DumpRefused ==
    /\ npc # "send" /\ over = "no" /\ dumped = 0
    /\ inbox' = Append(inbox, <<[type |-> "ERROR"]>>) /\ over' = "error"
    /\ UNCHANGED <<npc, nh, addrs, dumped, joins, logged>>

-----------------------------------------------------------------------------
(* Mutant: the header is not looked at before the loop.                    *)
RecvMsg_NoTest ==
    /\ npc = "recv" /\ inbox # <<>>
    /\ nh' = Head(inbox) /\ inbox' = Tail(inbox)
    /\ npc' = "parse"
    /\ UNCHANGED <<addrs, dumped, joins, over, logged>>

(* try_recv: recvmsg(), and the test of the while loop, which sees only    *)
(* the first header of the buffer.                                         *)
RecvMsg ==
    /\ npc = "recv" /\ inbox # <<>>
    /\ nh' = Head(inbox) /\ inbox' = Tail(inbox)
    /\ npc' = IF Head(inbox)[1].type = "DONE" THEN "exit" ELSE "parse"
    /\ UNCHANGED <<addrs, dumped, joins, over, logged>>

(* Mutant: the attributes are left at the first that is logged.            *)
Attributes_FirstOnly(m) == << <<"IFA_ADDRESS", m.addr>> >>

(* The loop over the attributes of an address.                             *)
Attributes(m) ==
    << <<"IFA_ADDRESS", m.addr>> >> \o
    IF m.broadcast THEN << <<"IFA_BROADCAST", m.addr>> >> ELSE <<>>

(* One pass of the loop over the messages; DONE here is passed over.       *)
ParseMsg ==
    /\ npc = "parse" /\ nh # <<>> /\ Head(nh).type # "ERROR"
    /\ nh' = Tail(nh)
    /\ logged' = IF Head(nh).type = "NEWADDR"
                 THEN logged \o Attributes(Head(nh)) ELSE logged
    /\ UNCHANGED <<npc, inbox, addrs, dumped, joins, over>>

(* The buffer is at its end, or an ERROR breaks the loop: goto try_recv.   *)
TryRecv ==
    /\ npc = "parse" /\ (nh # <<>> => Head(nh).type = "ERROR")
    /\ npc' = "recv" /\ nh' = <<>>
    /\ UNCHANGED <<inbox, addrs, dumped, joins, over, logged>>

NetlinkProgram == SendDump \/ RecvMsg \/ ParseMsg \/ TryRecv
Kernel == (\E n \in 1 .. BatchSize : DumpBatch(n)) \/ DumpDone
NetlinkNext == NetlinkProgram \/ Kernel \/ DumpRefused

-----------------------------------------------------------------------------
(* Every address of the dump, and its broadcast address, is logged once    *)
(* and in order however the kernel cuts the dump into datagrams; nothing   *)
(* is missing when the program ends.                                       *)
DumpComplete ==
    LET wanted == FlattenSeq([k \in 1 .. Len(addrs) |->
            << <<"IFA_ADDRESS", k>> >> \o
            IF addrs[k] THEN << <<"IFA_BROADCAST", k>> >> ELSE <<>>])
    IN  /\ NetlinkTypeOK
        /\ IsPrefix(logged, wanted)
        /\ npc = "exit" => logged = wanted

(* The program ends exactly if the kernel's DONE comes in a datagram of    *)
(* its own: if DONE stands behind an address, or the dump is refused with  *)
(* an ERROR, the next recvmsg() waits for ever.                            *)
DumpEnds ==
    /\ [](npc = "exit" => over = "own")
    /\ over = "own" ~> npc = "exit"
=============================================================================
