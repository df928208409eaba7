------------------------------- MODULE ArpScan -------------------------------
(***************************************************************************)
(* arp_scan.c: every host number of the network is asked for its MAC       *)
(* address, up to three times.  Each try broadcasts a request and receives *)
(* one frame, or waits three seconds for none; whatever frame that is, it  *)
(* uses up the try.                                                        *)
(***************************************************************************)
EXTENDS Integers, Sequences, FiniteSets

CONSTANTS
    MaskNum,     \* mask_num, the length of the network's prefix
    Tries,       \* tries per host (3)
    MaxForeign,  \* bound: frames of others the socket is given
    MaxSlow      \* bound: answers that take more than the timeout

ASSUME ArpScanAssumption ==
    /\ MaskNum \in 1 .. 32   \* 1U << 32 is undefined
    /\ Tries \in Nat \ {0}
    /\ MaxForeign \in Nat /\ MaxSlow \in Nat

VARIABLES
    apc,       \* where main is
    host,      \* the host number of target_ip
    try,       \* the number of tries at it so far
    frames,    \* frames the packet socket holds
    live,      \* host numbers in use
    due,       \* answers on their way, in time for the receive
    delayed,   \* answers that come after it has timed out
    requests,  \* requests[h]: requests sent for host h
    answered,  \* hosts that have answered one
    reported,  \* hosts whose MAC address was printed
    foreign, slow  \* history: foreign frames and late answers so far

arpVars == <<apc, host, try, frames, live, due, delayed, requests, answered,
             reported, foreign, slow>>

(* ~create_mask(mask_num): the host number of the broadcast address.       *)
HostNum == 2 ^ (32 - MaskNum) - 1
Hosts == 1 .. HostNum - 1
Frame == [op : {"REQUEST", "REPLY"}, sender : Hosts, to : {"us", "other"}]
Answer(h) == [op |-> "REPLY", sender |-> h, to |-> "us"]

ArpTypeOK ==
    /\ apc \in {"send", "recv", "end"}
    /\ host \in 1 .. HostNum \cup {1} /\ try \in 0 .. Tries
    /\ frames \in Seq(Frame)
    /\ live \subseteq Hosts /\ due \in Seq(Hosts) /\ delayed \in Seq(Hosts)
    /\ requests \in [Hosts -> 0 .. Tries]
    /\ answered \subseteq Hosts /\ reported \subseteq Hosts
    /\ foreign \in 0 .. MaxForeign /\ slow \in 0 .. MaxSlow

ArpInit ==
    /\ apc = "send" /\ host = 1 /\ try = 0
    /\ frames = <<>> /\ live \in SUBSET Hosts
    /\ due = <<>> /\ delayed = <<>>
    /\ requests = [h \in Hosts |-> 0]
    /\ answered = {} /\ reported = {}
    /\ foreign = 0 /\ slow = 0

-----------------------------------------------------------------------------
(* main's for loops                                                        *)

(* arping(): pack_arp_msg() for the target and sendto().  A host in use    *)
(* will answer, in time or not.                                            *)
arping ==
    /\ apc = "send" /\ host < HostNum
    /\ apc' = "recv"
    /\ requests' = [requests EXCEPT ![host] = @ + 1]
    /\ \/ /\ due' = IF host \in live THEN Append(due, host) ELSE due
          /\ UNCHANGED <<delayed, slow>>
       \/ /\ host \in live /\ slow < MaxSlow
          /\ delayed' = Append(delayed, host) /\ slow' = slow + 1
          /\ UNCHANGED due
    /\ UNCHANGED <<host, try, frames, live, answered, reported, foreign>>

(* The try was for nothing: the next one, or the next host.                *)
NextTry ==
    /\ apc' = "send"
    /\ IF try + 1 < Tries
       THEN try' = try + 1 /\ UNCHANGED host
       ELSE try' = 0 /\ host' = host + 1

(* Mutant: the sender is not compared with the target.                     *)
IsReply_AnySender(f) == f.op = "REPLY" /\ f.to = "us"

(* Mutant: the opcode is compared without htons().                         *)
IsReply_HostOrder(f) == f.op = "0x0200" /\ f.to = "us" /\ f.sender = host

(* match_ip and match_mac: a reply to our addresses, from the target.      *)
IsReply(f) == f.op = "REPLY" /\ f.to = "us" /\ f.sender = host

(* recvfrom() returns a frame.                                             *)
Receive ==
    /\ apc = "recv" /\ frames # <<>>
    /\ IF IsReply(Head(frames))
       THEN /\ reported' = reported \cup {Head(frames).sender}
            /\ apc' = "send" /\ try' = 0 /\ host' = host + 1
       ELSE NextTry /\ UNCHANGED reported
    /\ frames' = Tail(frames)
    /\ UNCHANGED <<live, due, delayed, requests, answered, foreign, slow>>

(* recvfrom() fails with EAGAIN after three seconds.                       *)
ReceiveTimeout ==
    /\ apc = "recv" /\ frames = <<>> /\ due = <<>>
    /\ NextTry
    /\ UNCHANGED <<frames, live, due, delayed, requests, answered, reported,
                   foreign, slow>>

ScanEnd ==
    /\ apc = "send" /\ host >= HostNum
    /\ apc' = "end"
    /\ UNCHANGED <<host, try, frames, live, due, delayed, requests, answered,
                   reported, foreign, slow>>

-----------------------------------------------------------------------------
(* The network.                                                            *)
Answers ==
    /\ due # <<>>
    /\ answered' = answered \cup {Head(due)}
    /\ frames' = Append(frames, Answer(Head(due)))
    /\ due' = Tail(due)
    /\ UNCHANGED <<apc, host, try, live, delayed, requests, reported,
                   foreign, slow>>

LateArrival ==
    /\ delayed # <<>> /\ apc # "end"
    /\ answered' = answered \cup {Head(delayed)}
    /\ frames' = Append(frames, Answer(Head(delayed)))
    /\ delayed' = Tail(delayed)
    /\ UNCHANGED <<apc, host, try, live, due, requests, reported, foreign,
                   slow>>

ForeignFrame(f) ==
    /\ foreign < MaxForeign /\ apc # "end"
    /\ f.op = "REQUEST" \/ f.to = "other"
    /\ foreign' = foreign + 1
    /\ frames' = Append(frames, f)
    /\ UNCHANGED <<apc, host, try, live, due, delayed, requests, answered,
                   reported, slow>>

ArpProgram == arping \/ Receive \/ ReceiveTimeout \/ ScanEnd

ArpNext ==
    \/ ArpProgram
    \/ Answers \/ LateArrival
    \/ \E f \in Frame : ForeignFrame(f)

-----------------------------------------------------------------------------
(* A live host is left out of the report only when enough went wrong: at   *)
(* least Tries foreign frames and late answers so far.  The answers left   *)
(* over from one host never add up to a miss of the next.                  *)
MissNeedsNoise ==
    \A h \in live \ reported : h < host => foreign + slow >= Tries

(* Every address between the network's and the broadcast address is asked, *)
(* in order, Tries times, or fewer if it was reported; and only a host     *)
(* that has answered a request of this scan is reported: not one that      *)
(* merely asked for us, nor one whose answer was for another.              *)
ScanSound ==
    /\ ArpTypeOK
    /\ \A h \in Hosts : h < host =>
          requests[h] = Tries \/ (requests[h] > 0 /\ h \in reported)
    /\ \A h \in Hosts : h > host => requests[h] = 0
    /\ reported \subseteq answered

(* The scan ends.                                                          *)
ScanEnds == <>(apc = "end")
=============================================================================
