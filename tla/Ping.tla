-------------------------------- MODULE Ping --------------------------------
(***************************************************************************)
(* send_icmp_echo.c: n rounds of an ICMP echo request and one receive with *)
(* a timeout of a second, then the statistics.  The raw socket is given    *)
(* every ICMP packet the host receives, and neither the identifier nor the *)
(* sequence number of a packet is compared with the request's.             *)
(*                                                                         *)
(* Doubles are rationals <<numerator, denominator>>; times are small       *)
(* naturals, measured on the monotonic clock.                              *)
(***************************************************************************)
EXTENDS Integers, Sequences

CONSTANTS
    Rounds,    \* the argument count (4 if there is none)
    Rtts,      \* round-trip times, in microseconds
    MaxNoise   \* bound: packets that answer none of our requests

ASSUME PingAssumption ==
    /\ Rounds \in Nat /\ MaxNoise \in Nat
    /\ Rtts \subseteq Nat \ {0}   \* a system call takes over a microsecond

VARIABLES
    ppc,     \* where ping() is
    i,       \* its loop counter
    stats,   \* g_stats
    queue,   \* packets the raw socket holds
    asked,   \* requests on their way, not answered yet
    noise,   \* packets so far that answer none of our requests
    rtts,    \* history: the round-trip times counted
    lines    \* history: <<seq printed, packet it was printed for>>

pingVars == <<ppc, i, stats, queue, asked, noise, rtts, lines>>

(* type 0 of ours, type 0 of another ping, our own request on loopback,    *)
(* destination unreachable and the like.  RECV_BAD_PACKET cannot occur: a  *)
(* datagram has at least the 20 bytes of its IP header, and 8 would do.    *)
Packet == [type : {"reply", "foreign", "request", "error"},
           seq : 0 .. Rounds]
Rational == Int \X (Nat \ {0})

PingTypeOK ==
    /\ ppc \in {"send", "recv", "exit"}
    /\ i \in 0 .. Rounds
    /\ stats \in [sent : Nat, recv : Nat, lost : Nat, min_rtt : Nat,
                  max_rtt : Nat, total_rtt : Nat, c : Nat,
                  mean : Rational, m2 : Rational]
    /\ queue \in Seq(Packet) /\ asked \subseteq 0 .. Rounds
    /\ noise \in 0 .. MaxNoise
    /\ rtts \in Seq(Rtts)
    /\ lines \in Seq((1 .. Rounds) \X Packet)

PingInit ==
    /\ ppc = "send" /\ i = 0
    /\ stats = [sent |-> 0, recv |-> 0, lost |-> 0, min_rtt |-> 0,
                max_rtt |-> 0, total_rtt |-> 0, c |-> 0,
                mean |-> <<0, 1>>, m2 |-> <<0, 1>>]
    /\ queue = <<>> /\ asked = {} /\ noise = 0
    /\ rtts = <<>> /\ lines = <<>>

-----------------------------------------------------------------------------
(* Arithmetic of doubles, exact.                                           *)
Plus(a, b)  == <<a[1] * b[2] + b[1] * a[2], a[2] * b[2]>>
Minus(a, b) == <<a[1] * b[2] - b[1] * a[2], a[2] * b[2]>>
Times(a, b) == <<a[1] * b[1], a[2] * b[2]>>
Same(a, b)  == a[1] * b[2] = b[1] * a[2]

u64_min(a, b) == IF a < b THEN a ELSE b
u64_max(a, b) == IF a > b THEN a ELSE b

(* Mutant: the new mean is used for both differences.                      *)
update_rtt_stats_OneMean(s, rtt) ==
    LET n == s.c + 1
        mean1 == Plus(s.mean, Times(Minus(<<rtt, 1>>, s.mean), <<1, n>>))
        d == Minus(<<rtt, 1>>, mean1)
    IN  [s EXCEPT !.c = n, !.mean = mean1, !.m2 = Plus(@, Times(d, d))]

(* Welford's update of the mean and of the sum of squared differences.     *)
update_rtt_stats(s, rtt) ==
    LET d1 == Minus(<<rtt, 1>>, s.mean)
        n == s.c + 1
        mean1 == Plus(s.mean, Times(d1, <<1, n>>))
        d2 == Minus(<<rtt, 1>>, mean1)
    IN  [s EXCEPT !.c = n, !.mean = mean1, !.m2 = Plus(@, Times(d1, d2))]

(* min_rtt = 0 stands for "none yet".                                      *)
rtt_stats(s, rtt) ==
    LET least == IF s.min_rtt = 0 THEN rtt ELSE s.min_rtt IN
    update_rtt_stats([s EXCEPT !.total_rtt = @ + rtt,
                               !.min_rtt = u64_min(least, rtt),
                               !.max_rtt = u64_max(@, rtt)], rtt)

-----------------------------------------------------------------------------
(* The network: replies come in any order, or never; other traffic too.    *)
Reply(s) ==
    /\ s \in asked
    /\ asked' = asked \ {s}
    /\ queue' = Append(queue, [type |-> "reply", seq |-> s])
    /\ UNCHANGED <<ppc, i, stats, noise, rtts, lines>>

Noise(type) ==
    /\ ppc # "exit" /\ noise < MaxNoise
    /\ noise' = noise + 1
    /\ queue' = Append(queue, [type |-> type, seq |-> 0])
    /\ UNCHANGED <<ppc, i, stats, asked, rtts, lines>>

(* Mutant: the request is numbered from 0.                                 *)
Seq_FromZero == i

SeqNo == i + 1

(* send_icmp_echo(): the request with sequence number i + 1.               *)
send_icmp_echo ==
    /\ ppc = "send" /\ i < Rounds
    /\ ppc' = "recv"
    /\ asked' = asked \cup {SeqNo}
    /\ stats' = [stats EXCEPT !.sent = @ + 1]
    /\ UNCHANGED <<i, queue, noise, rtts, lines>>

(* What ping() makes of a packet: an echo reply is measured, whoever's it  *)
(* is; anything else is both received and lost.                            *)
Counted(p, rtt) ==
    LET s == [stats EXCEPT !.recv = @ + 1] IN
    IF p.type \in {"reply", "foreign"}
    THEN rtt_stats(s, rtt) ELSE [s EXCEPT !.lost = @ + 1]

(* recv_icmp_echo() finds a packet: the first of the queue.                *)
recv_icmp_echo(rtt) ==
    /\ ppc = "recv" /\ queue # <<>>
    /\ LET p == Head(queue)
           echo == p.type \in {"reply", "foreign"}
       IN  /\ stats' = Counted(p, rtt)
           /\ rtts' = IF echo THEN Append(rtts, rtt) ELSE rtts
           /\ lines' = IF echo THEN Append(lines, <<i + 1, p>>) ELSE lines
    /\ queue' = Tail(queue)
    /\ ppc' = "send" /\ i' = i + 1
    /\ UNCHANGED <<asked, noise>>

(* poll() returns 0 or -1, or recvfrom() fails: the round is over and is   *)
(* counted as neither received nor lost.                                   *)
RecvTimeout ==
    /\ ppc = "recv" /\ queue = <<>>
    /\ ppc' = "send" /\ i' = i + 1
    /\ UNCHANGED <<stats, queue, asked, noise, rtts, lines>>

(* ping() returns; print_stats() runs on exit.                             *)
Exit ==
    /\ ppc = "send" /\ i = Rounds
    /\ ppc' = "exit"
    /\ UNCHANGED <<i, stats, queue, asked, noise, rtts, lines>>

PingProgram ==
    \/ send_icmp_echo
    \/ \E rtt \in Rtts : recv_icmp_echo(rtt)
    \/ RecvTimeout
    \/ Exit

PingNext ==
    \/ PingProgram
    \/ \E s \in 0 .. Rounds : Reply(s)
    \/ \E t \in {"foreign", "request", "error"} : Noise(t)

-----------------------------------------------------------------------------
(* Every packet received was either measured or counted lost, at most one  *)
(* per request sent, and nothing is measured twice.                        *)
CountersAgree ==
    /\ stats.recv = stats.c + stats.lost
    /\ stats.recv <= stats.sent /\ stats.sent <= i + 1
    /\ stats.c = Len(rtts)

SumOf(f) == LET S[n \in 0 .. Len(rtts)] ==
                    IF n = 0 THEN 0 ELSE S[n - 1] + f[n]
            IN  S[Len(rtts)]

(* The counters that print_stats() shows agree with each other, and the    *)
(* running statistics are those of the whole sample by definition:         *)
(* the mean is total_rtt / c, m2 the sum of the squared differences from   *)
(* it, min and max the extremes (the comments derive Welford's recurrence; *)
(* c * m2 = c * sum of squares - square of the sum).                       *)
StatsAreTheSample ==
    LET n == stats.c
        squares == SumOf([k \in 1 .. Len(rtts) |-> rtts[k] * rtts[k]])
        total == SumOf(rtts)
    IN  /\ PingTypeOK /\ CountersAgree
        /\ stats.total_rtt = total
        /\ n > 0 =>
             /\ Same(stats.mean, <<total, n>>)
             /\ Same(stats.m2, <<n * squares - total * total, n>>)
             /\ \A k \in 1 .. n : /\ stats.min_rtt <= rtts[k]
                                  /\ rtts[k] <= stats.max_rtt
             /\ \E k \in 1 .. n : rtts[k] = stats.min_rtt
             /\ \E k \in 1 .. n : rtts[k] = stats.max_rtt

(* A line is printed for the reply to the very request it names as long as *)
(* no other packet has come and no earlier reply was missed: without a     *)
(* check of identifier and sequence number nothing else protects it.       *)
LineNamesItsReply ==
    noise = 0 /\ stats.recv = i =>
        \A k \in 1 .. Len(lines) : lines[k][2].seq = lines[k][1]

(* The program ends after its rounds whatever the network does.            *)
PingEnds == <>(ppc = "exit")
=============================================================================
