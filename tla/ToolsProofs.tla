----------------------------- MODULE ToolsProofs -----------------------------
(***************************************************************************)
(* Proofs about the programs that run alone: arp_scan, ping and the        *)
(* address dump, composed by MCProbes, for every number of rounds, hosts,  *)
(* tries, foreign packets and addresses; SimpleLog, who owns and closes    *)
(* the streams of the log's sink; UdpEcho, which lines uecho-client.c      *)
(* prints over a network that loses, duplicates and reorders; OpServer,    *)
(* which answers the calculator gives; MpCs, how the client and the server *)
(* take turns; OsExec, what os_exec runs and leaves behind.                *)
(***************************************************************************)
EXTENDS MCProbes, SimpleLog, UdpEcho, OpServer, MpCs, OsExec, NatLemmas,
        SequenceTheorems

-----------------------------------------------------------------------------
(* A step of the composition is a step of one program.                     *)
LEMMA OneTool ==
    /\ Init => PingInit /\ ArpInit /\ NetlinkInit
    /\ [Next]_vars => /\ [PingNext]_pingVars
                      /\ [ArpNext]_arpVars
                      /\ [NetlinkNext]_nlVars
  BY DEF Init, Next, vars, PingStep, ArpStep, NetlinkStep, pingVars, arpVars,
         nlVars

-----------------------------------------------------------------------------
(* arp_scan                                                                *)

(* The host number of the broadcast address fits 31 bits.                  *)
LEMMA HostNumType == HostNum \in Nat
  <1> DEFINE k == 32 - MaskNum
             Powers == {2^0, 2^1, 2^2, 2^3, 2^4, 2^5, 2^6, 2^7, 2^8, 2^9,
                      2^10, 2^11, 2^12, 2^13, 2^14, 2^15, 2^16, 2^17, 2^18,
                      2^19, 2^20, 2^21, 2^22, 2^23, 2^24, 2^25, 2^26, 2^27,
                      2^28, 2^29, 2^30, 2^31}
  <1>1. k \in 0 .. 31
    BY ArpScanAssumption
  <1> HIDE DEF k
  <1>2. k = 0 \/ k = 1 \/ k = 2 \/ k = 3 \/ k = 4 \/ k = 5 \/ k = 6 \/
        k = 7 \/ k = 8 \/ k = 9 \/ k = 10 \/ k = 11 \/ k = 12 \/ k = 13 \/
        k = 14 \/ k = 15 \/ k = 16 \/ k = 17 \/ k = 18 \/ k = 19 \/
        k = 20 \/ k = 21 \/ k = 22 \/ k = 23 \/ k = 24 \/ k = 25 \/
        k = 26 \/ k = 27 \/ k = 28 \/ k = 29 \/ k = 30 \/ k = 31
    BY <1>1
  <1>3. 2^k \in Powers
    BY <1>2, Zenon
  <1>4. \A x \in Powers : x \in Nat /\ x >= 1
    OBVIOUS
  <1> HIDE DEF Powers
  <1>5. 2^k \in Nat /\ 2^k >= 1
    BY <1>3, <1>4
  <1> QED BY <1>5 DEF HostNum, k

(* The requests sent so far are those of the tries made so far.            *)
ArpCounts ==
    /\ try < Tries
    /\ apc = "recv" => host < HostNum
    /\ apc = "end" => host >= HostNum
    /\ host < HostNum =>
          requests[host] = IF apc = "recv" THEN try + 1 ELSE try

(* A reply to us that the socket holds comes from a host that has answered.*)
RepliesTrue ==
    \A k \in 1 .. Len(frames) :
        frames[k].op = "REPLY" /\ frames[k].to = "us" =>
            frames[k].sender \in answered

ScanInv == ScanSound /\ ArpCounts /\ RepliesTrue

(* arp_scan starts in ScanInv.                                             *)
LEMMA ScanInit == ArpInit => ScanInv
  BY HostNumType, ArpScanAssumption
     DEF ArpInit, ScanInv, ScanSound, ArpTypeOK, ArpCounts, RepliesTrue, Hosts

(* Every step of arp_scan keeps ScanInv.                                   *)
LEMMA ScanNext == ScanInv /\ [ArpNext]_arpVars => ScanInv'
  <1> SUFFICES ASSUME ScanInv, [ArpNext]_arpVars PROVE ScanInv'
    OBVIOUS
  <1> USE HostNumType, ArpScanAssumption
  <1>h. /\ \A h \in Hosts : h \in Nat /\ 1 <= h /\ h < HostNum
        /\ \A h \in Nat : 1 <= h /\ h < HostNum => h \in Hosts
    BY DEF Hosts
  <1>0. \A h \in Hosts : Answer(h) \in Frame
    BY DEF Answer, Frame
  <1>1. CASE arping
    <2>1. /\ host \in Hosts /\ try \in 0 .. Tries - 1
          /\ requests[host] = try
          /\ requests \in [Hosts -> 0 .. Tries]
      <3>1. apc = "send" /\ host < HostNum
        BY <1>1 DEF arping
      <3>2. ArpTypeOK /\ ArpCounts
        BY DEF ScanInv, ScanSound
      <3>3. /\ host \in Nat /\ 1 <= host
            /\ try \in 0 .. Tries - 1
            /\ requests \in [Hosts -> 0 .. Tries]
        BY <3>2 DEF ArpTypeOK, ArpCounts
      <3>4. requests[host] = try
        BY <3>1, <3>2 DEF ArpCounts
      <3> QED BY <3>1, <3>3, <3>4, <1>h
    <2>2. /\ requests' \in [Hosts -> 0 .. Tries]
          /\ requests'[host] = try + 1
          /\ \A h \in Hosts \ {host} : requests'[h] = requests[h]
      BY <1>1, <2>1 DEF arping
    <2>3. due' \in Seq(Hosts) /\ delayed' \in Seq(Hosts)
          /\ slow' \in 0 .. MaxSlow
      <3>1. /\ due \in Seq(Hosts) /\ delayed \in Seq(Hosts)
            /\ slow \in 0 .. MaxSlow
        BY DEF ScanInv, ScanSound, ArpTypeOK
      <3>2. Append(due, host) \in Seq(Hosts)
            /\ Append(delayed, host) \in Seq(Hosts)
        BY <2>1, <3>1
      <3>3. /\ due' = due \/ due' = Append(due, host)
            /\ delayed' = delayed \/ delayed' = Append(delayed, host)
            /\ slow' = slow \/ (slow < MaxSlow /\ slow' = slow + 1)
        BY <1>1 DEF arping
      <3>4. slow' \in 0 .. MaxSlow
        BY <3>1, <3>3
      <3> QED BY <3>1, <3>2, <3>3, <3>4
    <2>4. ArpTypeOK'
      BY <1>1, <2>2, <2>3 DEF arping, ScanInv, ScanSound, ArpTypeOK
    <2>5. ScanSound'
      BY <1>1, <2>1, <2>2, <2>4 DEF arping, ScanInv, ScanSound
    <2>6. ArpCounts' /\ RepliesTrue'
      BY <1>1, <2>1, <2>2 DEF arping, ScanInv, ArpCounts, RepliesTrue
    <2> QED BY <2>5, <2>6 DEF ScanInv
  <1>2. CASE Receive
    <2>1. /\ Head(frames) \in Frame /\ Tail(frames) \in Seq(Frame)
          /\ IsReply(Head(frames)) => Head(frames).sender \in answered
          /\ RepliesTrue'
      BY <1>2 DEF Receive, ScanInv, ScanSound, ArpTypeOK, RepliesTrue, IsReply
    <2>2. /\ apc' = "send" /\ host < HostNum /\ host \in Nat \ {0}
          /\ try \in Nat /\ requests[host] = try + 1
          /\ host' \in 1 .. HostNum /\ try' \in 0 .. Tries - 1
          /\ \/ host' = host + 1 /\ try' = 0
             \/ host' = host /\ try' = try + 1
          /\ requests' = requests /\ answered' = answered
      BY <1>2 DEF Receive, NextTry, ScanInv, ScanSound, ArpTypeOK, ArpCounts
    <2>3. reported' \subseteq answered'
      BY <1>2, <2>1, <2>2 DEF Receive, ScanInv, ScanSound
    <2>4. reported \subseteq reported' /\ reported' \subseteq Hosts
      BY <1>2, <2>1 DEF Receive, ScanInv, ScanSound, ArpTypeOK, Frame
    <2>5. host' = host + 1 =>
              requests[host] = Tries
                  \/ (requests[host] > 0 /\ host \in reported')
      <3>1. CASE IsReply(Head(frames))
        BY <1>2, <2>2, <3>1 DEF Receive, IsReply
      <3>2. CASE ~ IsReply(Head(frames))
        BY <1>2, <2>2, <3>2 DEF Receive, NextTry, ScanInv, ArpCounts
      <3> QED BY <3>1, <3>2
    <2>6. ArpTypeOK'
      <3>1. frames' = Tail(frames)
            /\ UNCHANGED <<live, due, delayed, foreign, slow>>
        BY <1>2 DEF Receive
      <3>2. ArpTypeOK
        BY DEF ScanInv, ScanSound
      <3> QED BY <2>1, <2>2, <2>4, <3>1, <3>2 DEF ArpTypeOK
    <2>7. ArpCounts'
      <3>1. requests \in [Hosts -> 0 .. Tries]
            /\ \A h \in Hosts : h > host => requests[h] = 0
        BY DEF ScanInv, ScanSound, ArpTypeOK
      <3>2. host' < HostNum => host' \in Hosts
        BY <1>h, <2>2
      <3>3. host' < HostNum => requests'[host'] = try'
        BY <2>2, <3>1, <3>2
      <3> QED BY <2>2, <3>3 DEF ArpCounts
    <2>8. \A h \in Hosts : h < host' =>
              requests'[h] = Tries \/ (requests'[h] > 0 /\ h \in reported')
      BY <1>h, <2>2, <2>4, <2>5 DEF ScanInv, ScanSound
    <2>9. \A h \in Hosts : h > host' => requests'[h] = 0
      BY <1>h, <2>2 DEF ScanInv, ScanSound
    <2> QED BY <2>1, <2>3, <2>6, <2>7, <2>8, <2>9 DEF ScanInv, ScanSound
  <1>3. CASE ReceiveTimeout
    BY <1>3, <1>h DEF ReceiveTimeout, NextTry, ScanInv, ScanSound, ArpTypeOK,
                ArpCounts, RepliesTrue
  <1>4. CASE ScanEnd
    BY <1>4 DEF ScanEnd, ScanInv, ScanSound, ArpTypeOK, ArpCounts, RepliesTrue
  <1>5. CASE Answers
    <2>1. /\ Head(due) \in Hosts /\ Tail(due) \in Seq(Hosts)
          /\ frames \in Seq(Frame)
          /\ Answer(Head(due)) \in Frame
      BY <1>0, <1>5 DEF Answers, ScanInv, ScanSound, ArpTypeOK
    <2>2. RepliesTrue'
      <3>1. /\ frames' = Append(frames, Answer(Head(due)))
            /\ answered' = answered \cup {Head(due)}
        BY <1>5 DEF Answers
      <3>2. ASSUME NEW k \in 1 .. Len(frames')
            PROVE  frames'[k] = IF k <= Len(frames) THEN frames[k]
                                ELSE Answer(Head(due))
        BY <2>1, <3>1
      <3>3. Answer(Head(due)).sender \in answered'
        BY <3>1 DEF Answer
      <3> QED BY <2>1, <3>1, <3>2, <3>3 DEF ScanInv, RepliesTrue
    <2>3. /\ frames' \in Seq(Frame) /\ due' \in Seq(Hosts)
          /\ answered' \subseteq Hosts /\ answered \subseteq answered'
      BY <1>5, <2>1 DEF Answers, ScanInv, ScanSound, ArpTypeOK
    <2>4. ScanSound' /\ ArpCounts'
      BY <1>5, <2>3 DEF Answers, ScanInv, ScanSound, ArpTypeOK, ArpCounts
    <2> QED BY <2>2, <2>4 DEF ScanInv
  <1>6. CASE LateArrival
    <2>1. /\ Head(delayed) \in Hosts /\ Tail(delayed) \in Seq(Hosts)
          /\ frames \in Seq(Frame)
          /\ Answer(Head(delayed)) \in Frame
      BY <1>0, <1>6 DEF LateArrival, ScanInv, ScanSound, ArpTypeOK
    <2>2. RepliesTrue'
      <3>1. /\ frames' = Append(frames, Answer(Head(delayed)))
            /\ answered' = answered \cup {Head(delayed)}
        BY <1>6 DEF LateArrival
      <3>2. ASSUME NEW k \in 1 .. Len(frames')
            PROVE  frames'[k] = IF k <= Len(frames) THEN frames[k]
                                ELSE Answer(Head(delayed))
        BY <2>1, <3>1
      <3>3. Answer(Head(delayed)).sender \in answered'
        BY <3>1 DEF Answer
      <3> QED BY <2>1, <3>1, <3>2, <3>3 DEF ScanInv, RepliesTrue
    <2>3. /\ frames' \in Seq(Frame) /\ delayed' \in Seq(Hosts)
          /\ answered' \subseteq Hosts /\ answered \subseteq answered'
      BY <1>6, <2>1 DEF LateArrival, ScanInv, ScanSound, ArpTypeOK
    <2>4. ScanSound' /\ ArpCounts'
      BY <1>6, <2>3 DEF LateArrival, ScanInv, ScanSound, ArpTypeOK, ArpCounts
    <2> QED BY <2>2, <2>4 DEF ScanInv
  <1>7. ASSUME NEW f \in Frame, ForeignFrame(f) PROVE ScanInv'
    BY <1>7 DEF ForeignFrame, ScanInv, ScanSound, ArpTypeOK, ArpCounts,
                RepliesTrue
  <1>8. CASE UNCHANGED arpVars
    BY <1>8 DEF arpVars, ScanInv, ScanSound, ArpTypeOK, ArpCounts, RepliesTrue
  <1> QED BY <1>1, <1>2, <1>3, <1>4, <1>5, <1>6, <1>7, <1>8
         DEF ArpNext, ArpProgram

(* For every network and whatever frames arrive, and when: each host is    *)
(* asked in its turn and as often as main's loops say, and only a host     *)
(* that has answered is reported.                                          *)
THEOREM ScanIsSound == Spec => []ScanSound
  <1>1. Spec => [](ScanInv)
    BY ScanInit, ScanNext, OneTool, PTL DEF Spec
  <1> QED BY <1>1, PTL DEF ScanInv

(* Everything under way is accounted for by noise, but for the answer to   *)
(* the present request; and as long as the host asked for was not          *)
(* reported, all its answers are still under way.                          *)
UnderWay(fr, du, de) == Len(fr) + Len(du) + Len(de)

AnswersIn(fr, du, de, h) ==
    Occurs(fr, Answer(h)) + Occurs(du, h) + Occurs(de, h)

MissInv ==
    /\ Len(delayed) <= slow
    /\ UnderWay(frames, due, delayed) <=
          foreign + slow + (IF apc = "recv" THEN 1 ELSE 0)
    /\ host \in live =>
          AnswersIn(frames, due, delayed, host) >= requests[host]
    /\ MissNeedsNoise

(* The answers under way are a part of what is under way.                  *)
LEMMA AnswersType ==
    ASSUME NEW fr \in Seq(Frame), NEW du \in Seq(Hosts), NEW de \in Seq(Hosts),
           NEW h
    PROVE  /\ AnswersIn(fr, du, de, h) \in Nat
           /\ AnswersIn(fr, du, de, h) <= UnderWay(fr, du, de)
           /\ UnderWay(fr, du, de) \in Nat
           /\ Occurs(fr, Answer(h)) \in Nat
           /\ Occurs(du, h) \in Nat /\ Occurs(de, h) \in Nat
  <1>1. /\ Occurs(fr, Answer(h)) \in Nat
        /\ Occurs(fr, Answer(h)) <= Len(fr)
    BY OccursType
  <1>2. /\ Occurs(du, h) \in Nat /\ Occurs(du, h) <= Len(du)
        /\ Occurs(de, h) \in Nat /\ Occurs(de, h) <= Len(de)
    BY OccursType
  <1>3. Len(fr) \in Nat /\ Len(du) \in Nat /\ Len(de) \in Nat
    OBVIOUS
  <1> QED BY <1>1, <1>2, <1>3 DEF AnswersIn, UnderWay

(* Nothing is missed at first.                                             *)
LEMMA MissInit == ArpInit => MissInv
  <1> SUFFICES ASSUME ArpInit PROVE MissInv
    OBVIOUS
  <1>1. AnswersIn(frames, due, delayed, host) \in Nat
    BY AnswersType, ScanInit DEF ScanInv, ScanSound, ArpTypeOK
  <1>2. UnderWay(frames, due, delayed) = 0 /\ Len(delayed) = 0
    BY DEF ArpInit, UnderWay
  <1>3. host \in live => requests[host] = 0
    BY DEF ArpInit
  <1>4. \A h \in live : ~ (h < host)
    BY HostNumType DEF ArpInit, Hosts
  <1> QED BY <1>1, <1>2, <1>3, <1>4 DEF ArpInit, MissInv, MissNeedsNoise

(* Two counters that only grow.                                            *)
LEMMA SumGrows ==
    \A a, b, c, d, n \in Nat :
        c >= a /\ d >= b =>
            /\ (a + b >= n) => (c + d >= n)
            /\ (n <= a + b + 1) => (n <= c + d + 1)
  OBVIOUS

(* Every step of arp_scan keeps MissInv.                                   *)
LEMMA MissNext == ScanInv /\ ScanInv' /\ MissInv
    /\ [ArpNext]_arpVars => MissInv'
  <1> SUFFICES ASSUME ScanInv, ScanInv', MissInv, [ArpNext]_arpVars
               PROVE  MissInv'
    OBVIOUS
  <1> USE HostNumType, ArpScanAssumption
  <1> DEFINE N == UnderWay(frames, due, delayed)
             A(h) == AnswersIn(frames, due, delayed, h)
             N1 == UnderWay(frames', due', delayed')
             A1(h) == AnswersIn(frames', due', delayed', h)
  <1>a. /\ frames \in Seq(Frame) /\ due \in Seq(Hosts)
        /\ delayed \in Seq(Hosts) /\ slow \in Nat /\ foreign \in Nat
        /\ host \in Nat \ {0} /\ try \in Nat /\ live \subseteq Hosts
        /\ Hosts \subseteq Nat /\ requests \in [Hosts -> Nat]
    BY DEF ScanInv, ScanSound, ArpTypeOK, Hosts
  <1>b. N \in Nat /\ \A h : A(h) \in Nat /\ A(h) <= N
    BY <1>a, AnswersType
  <1>c. \A h : /\ Occurs(frames, Answer(h)) \in Nat
               /\ Occurs(due, h) \in Nat /\ Occurs(delayed, h) \in Nat
    BY <1>a, AnswersType
  <1>d. N1 \in Nat /\ \A h : A1(h) \in Nat /\ A1(h) <= N1
    BY AnswersType DEF ScanInv, ScanSound, ArpTypeOK
  <1>e. \A h \in Hosts : h > host => requests[h] = 0
    BY DEF ScanInv, ScanSound
  <1>f. \A h \in Hosts : Answer(h) \in Frame
    BY DEF Answer, Frame
  <1>n. slow \in Nat /\ foreign \in Nat /\ Tries \in Nat
    BY <1>a
  <1>m. MissNeedsNoise
    BY DEF MissInv
  <1>i. /\ Len(delayed) <= slow
        /\ N <= foreign + slow + (IF apc = "recv" THEN 1 ELSE 0)
        /\ host \in live => A(host) >= requests[host]
    BY DEF MissInv
  <1>l. Len(frames) \in Nat /\ Len(due) \in Nat /\ Len(delayed) \in Nat
    BY <1>a
  <1>j. (/\ Len(delayed') <= slow' /\ MissNeedsNoise'
         /\ N1 <= foreign' + slow' + (IF apc' = "recv" THEN 1 ELSE 0)
         /\ host' \in live' => A1(host') >= requests'[host'])
           => MissInv'
    BY DEF MissInv, AnswersIn, UnderWay, Answer
  <1> HIDE DEF N, A, N1, A1
  (* A try that ended for nothing.                                         *)
  <1>g. ASSUME NextTry, apc = "recv",
               UNCHANGED <<live, requests, reported, foreign, slow, delayed>>,
               N1 <= foreign + slow,
               host \in live => A1(host) >= requests[host]
        PROVE  MissInv'
    <2>1. host < HostNum /\ requests[host] = try + 1
      BY <1>g DEF ScanInv, ArpCounts
    <2>2. CASE try + 1 < Tries
      <3>1. host' = host /\ apc' = "send"
        BY <1>g, <2>2 DEF NextTry
      <3>2. MissNeedsNoise'
        BY <1>m, <1>g, <3>1 DEF MissNeedsNoise
      <3>3. N1 <= foreign' + slow' + (IF apc' = "recv" THEN 1 ELSE 0)
        BY <1>d, <1>g, <1>n, <3>1
      <3> QED BY <1>g, <1>i, <1>j, <3>1, <3>2, <3>3
    <2>3. CASE ~ (try + 1 < Tries)
      <3>1. requests[host] >= Tries /\ host' = host + 1 /\ apc' = "send"
        BY <1>g, <1>a, <2>1, <2>3 DEF NextTry
      <3>2. host' \in live' => requests'[host'] = 0
        BY <1>g, <1>a, <1>e, <3>1
      <3>3. host' \in live' => A1(host') >= requests'[host']
        BY <1>d, <3>2
      <3>4. host \in live => foreign + slow >= Tries
        BY <1>a, <1>d, <1>g, <3>1
      <3>5. MissNeedsNoise'
        <4>1. \A h \in live : h < host' => h < host \/ h = host
          BY <1>a, <3>1
        <4> QED BY <1>g, <1>m, <3>4, <4>1 DEF MissNeedsNoise
      <3>6. N1 <= foreign' + slow' + (IF apc' = "recv" THEN 1 ELSE 0)
        BY <1>d, <1>g, <1>n, <3>1
      <3> QED BY <1>g, <1>i, <1>j, <3>3, <3>5, <3>6
    <2> QED BY <2>2, <2>3
  (* A step of the network.                                                *)
  <1>k. ASSUME UNCHANGED <<apc, host, live, requests, reported>>,
               Len(delayed') <= slow', foreign' + slow' >= foreign + slow,
               foreign' + slow' \in Nat,
               N1 <= N + (foreign' + slow') - (foreign + slow),
               host \in live => A1(host) >= A(host)
        PROVE  MissInv'
    <2>1. MissNeedsNoise'
      <3>1. foreign + slow >= Tries => foreign' + slow' >= Tries
        BY <1>a, <1>k
      <3> QED BY <1>m, <1>k, <3>1 DEF MissNeedsNoise
    <2>2. host' \in live' => A1(host') >= requests'[host']
      BY <1>a, <1>b, <1>d, <1>i, <1>k
    <2>3. N1 <= foreign' + slow' + (IF apc' = "recv" THEN 1 ELSE 0)
      BY <1>a, <1>b, <1>d, <1>i, <1>k
    <2> QED BY <1>j, <1>k, <2>1, <2>2, <2>3
  <1>1. CASE arping
    <2>1. /\ apc = "send" /\ host < HostNum /\ apc' = "recv" /\ host \in Hosts
          /\ UNCHANGED <<host, frames, live, reported, foreign>>
          /\ requests'[host] = requests[host] + 1
      BY <1>1, <1>a DEF arping, Hosts
    <2>f. frames' = frames /\ foreign' = foreign /\ apc = "send"
      BY <2>1
    <2>2. CASE host \notin live
      <3>1. due' = due /\ delayed' = delayed /\ slow' = slow
        BY <1>1, <2>2 DEF arping
      <3>2. N1 = N
        BY <2>1, <3>1 DEF N1, N
      <3> QED BY <1>i, <1>j, <1>m, <1>a, <1>b, <2>1, <2>2, <3>1, <3>2
             DEF MissNeedsNoise
    <2>3. CASE host \in live
      <3>1. \/ due' = Append(due, host) /\ delayed' = delayed /\ slow' = slow
            \/ /\ due' = due /\ delayed' = Append(delayed, host)
               /\ slow' = slow + 1
        BY <1>1, <2>3 DEF arping
      <3>2. /\ Len(Append(due, host)) = Len(due) + 1
            /\ Len(Append(delayed, host)) = Len(delayed) + 1
        BY <1>a, <2>1
      <3>3. /\ Occurs(Append(due, host), host) = Occurs(due, host) + 1
            /\ Occurs(Append(delayed, host), host) = Occurs(delayed, host) + 1
        BY <1>a, <2>1, OccursAppend
      <3>4. N1 = N + 1
        <4>1. CASE due' = Append(due, host) /\ delayed' = delayed
          BY <1>l, <2>f, <3>2, <4>1 DEF N1, N, UnderWay
        <4>2. CASE due' = due /\ delayed' = Append(delayed, host)
          BY <1>l, <2>f, <3>2, <4>2 DEF N1, N, UnderWay
        <4> QED BY <3>1, <4>1, <4>2
      <3>5. A1(host) = A(host) + 1
        <4>1. CASE due' = Append(due, host) /\ delayed' = delayed
          BY <1>c, <2>f, <3>3, <4>1 DEF A1, A, AnswersIn
        <4>2. CASE due' = due /\ delayed' = Append(delayed, host)
          BY <1>c, <2>f, <3>3, <4>2 DEF A1, A, AnswersIn
        <4> QED BY <3>1, <4>1, <4>2
      <3>6. /\ Len(delayed') <= slow' /\ slow' \in Nat
            /\ slow' >= slow
        BY <1>n, <1>i, <1>l, <2>1, <3>1, <3>2
      <3>7. MissNeedsNoise'
        <4>1. foreign + slow >= Tries => foreign' + slow' >= Tries
          <5>1. foreign' \in Nat /\ foreign' >= foreign
            BY <1>n, <2>f
          <5> QED BY <1>n, <3>6, <5>1, SumGrows, Zenon
        <4> QED BY <1>m, <2>1, <4>1 DEF MissNeedsNoise
      <3>8. A1(host') >= requests'[host']
        BY <1>a, <1>b, <1>i, <2>1, <2>3, <3>5
      <3>9. N1 <= foreign' + slow' + 1
        <4>1. N1 <= foreign + slow + 1
          BY <1>n, <1>b, <1>i, <2>f, <3>4
        <4>2. foreign' \in Nat /\ foreign' >= foreign
          BY <1>n, <2>f
        <4> QED BY <1>d, <1>n, <3>6, <4>1, <4>2, SumGrows, Zenon
      <3> QED BY <1>j, <2>1, <3>6, <3>7, <3>8, <3>9
    <2> QED BY <2>2, <2>3
  <1>2. CASE Receive
    <2>1. /\ apc = "recv" /\ frames # <<>> /\ frames' = Tail(frames)
          /\ UNCHANGED <<live, due, delayed, requests, foreign, slow>>
      BY <1>2 DEF Receive
    <2>2. N1 = N - 1
      <3>1. Len(Tail(frames)) = Len(frames) - 1
        BY <1>a, <2>1
      <3> QED BY <1>l, <2>1, <3>1 DEF N1, N, UnderWay
    <2>3. CASE IsReply(Head(frames))
      <3>1. /\ host' = host + 1 /\ apc' = "send"
            /\ reported' = reported \cup {host}
        BY <1>2, <2>3 DEF Receive, IsReply
      <3>2. host' \in live' => requests'[host'] = 0
        BY <1>a, <1>e, <2>1, <3>1
      <3>3. host' \in live' => A1(host') >= requests'[host']
        BY <1>d, <3>2
      <3>4. MissNeedsNoise'
        BY <1>a, <1>m, <2>1, <3>1 DEF MissNeedsNoise
      <3> QED BY <1>a, <1>b, <1>i, <1>j, <2>1, <2>2, <3>1, <3>3, <3>4
    <2>4. CASE ~ IsReply(Head(frames))
      <3>1. NextTry /\ UNCHANGED reported
        BY <1>2, <2>4 DEF Receive
      <3>2. Head(frames) # Answer(host)
        BY <2>4 DEF IsReply, Answer
      <3>3. Occurs(frames', Answer(host)) = Occurs(frames, Answer(host))
        BY <1>a, <2>1, <3>2, OccursTail
      <3>4. A1(host) = A(host)
        BY <2>1, <3>3 DEF A1, A, AnswersIn
      <3> QED BY <1>a, <1>b, <1>g, <1>i, <2>1, <2>2, <3>1, <3>4
    <2> QED BY <2>3, <2>4
  <1>3. CASE ReceiveTimeout
    <2>1. /\ apc = "recv" /\ NextTry /\ frames = <<>> /\ due = <<>>
          /\ UNCHANGED <<frames, live, due, delayed, requests, reported,
                         foreign, slow>>
      BY <1>3 DEF ReceiveTimeout
    <2>2. A1(host) = A(host)
      BY <2>1 DEF A1, A
    <2>3. N1 = Len(delayed)
      BY <2>1, <1>l DEF N1, UnderWay
    <2> QED BY <1>a, <1>g, <1>i, <1>l, <2>1, <2>2, <2>3
  <1>4. CASE ScanEnd
    <2>1. /\ apc = "send" /\ apc' = "end"
          /\ UNCHANGED <<host, frames, live, due, delayed, requests, reported,
                         foreign, slow>>
      BY <1>4 DEF ScanEnd
    <2>2. N1 = N /\ A1(host) = A(host)
      BY <2>1 DEF N1, N, A1, A
    <2> QED BY <1>i, <1>j, <1>m, <2>1, <2>2 DEF MissNeedsNoise
  <1>5. CASE Answers
    <2>1. /\ due # <<>> /\ due' = Tail(due)
          /\ frames' = Append(frames, Answer(Head(due)))
          /\ UNCHANGED <<apc, host, live, requests, reported, delayed,
                         foreign, slow>>
      BY <1>5 DEF Answers
    <2>2. Head(due) \in Hosts /\ Len(Tail(due)) = Len(due) - 1
          /\ Len(Append(frames, Answer(Head(due)))) = Len(frames) + 1
      BY <1>a, <1>f, <2>1
    <2>3. N1 = N
      BY <1>l, <2>1, <2>2 DEF N1, N, UnderWay
    <2>4. A1(host) = A(host)
      <3>1. Answer(Head(due)) = Answer(host) <=> Head(due) = host
        BY DEF Answer
      <3>2. Occurs(frames', Answer(host)) =
               IF Head(due) = host THEN Occurs(frames, Answer(host)) + 1
                                   ELSE Occurs(frames, Answer(host))
        <4>1. Answer(Head(due)) \in Frame
          BY <1>f, <2>2
        <4> HIDE DEF Answer
        <4>2. Occurs(frames', Answer(host)) =
                 IF Answer(Head(due)) = Answer(host)
                 THEN Occurs(frames, Answer(host)) + 1
                 ELSE Occurs(frames, Answer(host))
          BY <1>a, <2>1, <4>1, OccursAppend
        <4> QED BY <3>1, <4>2
      <3>3. Occurs(due, host) =
               IF Head(due) = host THEN Occurs(due', host) + 1
                                   ELSE Occurs(due', host)
        BY <1>a, <2>1, OccursTail
      <3>4. Occurs(due', host) \in Nat
        BY AnswersType DEF ScanInv, ScanSound, ArpTypeOK
      <3> QED BY <1>c, <2>1, <3>2, <3>3, <3>4 DEF A1, A, AnswersIn
    <2> QED BY <1>a, <1>b, <1>i, <1>k, <2>1, <2>3, <2>4
  <1>6. CASE LateArrival
    <2>1. /\ delayed # <<>> /\ delayed' = Tail(delayed)
          /\ frames' = Append(frames, Answer(Head(delayed)))
          /\ UNCHANGED <<apc, host, live, requests, reported, due,
                         foreign, slow>>
      BY <1>6 DEF LateArrival
    <2>2. Head(delayed) \in Hosts /\ Len(Tail(delayed)) = Len(delayed) - 1
          /\ Len(Append(frames, Answer(Head(delayed)))) = Len(frames) + 1
      BY <1>a, <1>f, <2>1
    <2>3. N1 = N /\ Len(delayed') <= slow'
      BY <1>a, <1>i, <1>l, <2>1, <2>2 DEF N1, N, UnderWay
    <2>4. A1(host) = A(host)
      <3>1. Answer(Head(delayed)) = Answer(host) <=> Head(delayed) = host
        BY DEF Answer
      <3>2. Occurs(frames', Answer(host)) =
               IF Head(delayed) = host THEN Occurs(frames, Answer(host)) + 1
                                       ELSE Occurs(frames, Answer(host))
        <4>1. Answer(Head(delayed)) \in Frame
          BY <1>f, <2>2
        <4> HIDE DEF Answer
        <4>2. Occurs(frames', Answer(host)) =
                 IF Answer(Head(delayed)) = Answer(host)
                 THEN Occurs(frames, Answer(host)) + 1
                 ELSE Occurs(frames, Answer(host))
          BY <1>a, <2>1, <4>1, OccursAppend
        <4> QED BY <3>1, <4>2
      <3>3. Occurs(delayed, host) =
               IF Head(delayed) = host THEN Occurs(delayed', host) + 1
                                       ELSE Occurs(delayed', host)
        BY <1>a, <2>1, OccursTail
      <3>4. Occurs(delayed', host) \in Nat
        BY AnswersType DEF ScanInv, ScanSound, ArpTypeOK
      <3> QED BY <1>c, <2>1, <3>2, <3>3, <3>4 DEF A1, A, AnswersIn
    <2> QED BY <1>a, <1>b, <1>k, <2>1, <2>3, <2>4
  <1>7. ASSUME NEW f \in Frame, ForeignFrame(f) PROVE MissInv'
    <2>1. /\ frames' = Append(frames, f) /\ foreign' = foreign + 1
          /\ UNCHANGED <<apc, host, live, requests, reported, due, delayed,
                         slow>>
      BY <1>7 DEF ForeignFrame
    <2>2. Len(Append(frames, f)) = Len(frames) + 1
      BY <1>a
    <2>3. N1 = N + 1
      BY <1>l, <2>1, <2>2 DEF N1, N, UnderWay
    <2>4. A1(host) >= A(host)
      <3>1. Occurs(frames', Answer(host)) >= Occurs(frames, Answer(host))
        BY <1>a, <1>c, <2>1, OccursAppend
      <3>2. Occurs(frames', Answer(host)) \in Nat
        BY AnswersType DEF ScanInv, ScanSound, ArpTypeOK
      <3> QED BY <1>c, <2>1, <3>1, <3>2 DEF A1, A, AnswersIn
    <2> QED BY <1>a, <1>b, <1>i, <1>k, <2>1, <2>3, <2>4
  <1>8. CASE UNCHANGED arpVars
    BY <1>8 DEF arpVars, MissInv, MissNeedsNoise, UnderWay, AnswersIn, Answer
  <1> QED BY <1>1, <1>2, <1>3, <1>4, <1>5, <1>6, <1>7, <1>8
         DEF ArpNext, ArpProgram

(* However many hosts were scanned before: a host in use is missed only if *)
(* at least as many foreign frames and late answers came as it has tries.  *)
THEOREM MissesNeedNoise == Spec => []MissNeedsNoise
  <1>1. Spec => []ScanInv
    BY ScanInit, ScanNext, OneTool, PTL DEF Spec
  <1>2. Spec => []MissInv
    BY <1>1, MissInit, MissNext, OneTool, PTL DEF Spec
  <1> QED BY <1>2, PTL DEF MissInv

-----------------------------------------------------------------------------
(* ping                                                                    *)

Stats == [sent : Nat, recv : Nat, lost : Nat, min_rtt : Nat, max_rtt : Nat,
          total_rtt : Nat, c : Nat, mean : Rational, m2 : Rational]

(* x is the mean of n measurements with sum t, and y the sum of their      *)
(* squared differences from it, s being the sum of their squares.          *)
MeanIs(x, n, t) == x[1] * n = t * x[2] /\ (n = 0 => x[1] = 0)
SquaresIs(y, n, t, s) ==
    y[1] * n = (n * s - t * t) * y[2] /\ (n = 0 => y[1] = 0)

(* One more measurement r: Welford's recurrence takes the mean of n        *)
(* measurements to that of n + 1.                                          *)
NextMean(x, n, r) == Plus(x, Times(Minus(<<r, 1>>, x), <<1, n + 1>>))

(* The running mean of n + 1 samples from that of n.                       *)
LEMMA MeanStep ==
    ASSUME NEW n \in Nat, NEW t \in Int, NEW x \in Rational, NEW r \in Int,
           MeanIs(x, n, t)
    PROVE  NextMean(x, n, r) \in Rational
           /\ MeanIs(NextMean(x, n, r), n + 1, t + r)
  <1>0. PICK p \in Int, q \in Nat \ {0} : x = <<p, q>>
    BY DEF Rational
  <1> DEFINE a == r * q - p
             p1 == p * (q * (n + 1)) + a * q
             q1 == q * (q * (n + 1))
  <1>1. NextMean(x, n, r) = <<p1, q1>>
    BY <1>0 DEF NextMean, Plus, Times, Minus
  <1>2. p1 \in Int /\ q1 \in Int
    OBVIOUS
  <1>3. q1 > 0
    OBVIOUS
  <1>4. p * n = t * q
    BY <1>0 DEF MeanIs
  <1>5. p1 * (n + 1) = (t + r) * q1
    BY <1>4
  <1> HIDE DEF p1, q1
  <1>6. <<p1, q1>> \in Rational
    BY <1>2, <1>3 DEF Rational
  <1>7. MeanIs(<<p1, q1>>, n + 1, t + r)
    BY <1>5 DEF MeanIs
  <1> QED BY <1>1, <1>6, <1>7

(* ... and the sum of the squared differences to that of n + 1.            *)
NextSquares(y, x, x1, r) ==
    Plus(y, Times(Minus(<<r, 1>>, x), Minus(<<r, 1>>, x1)))

(* The running sum of squared deviations likewise.                         *)
LEMMA SquaresStep ==
    ASSUME NEW n \in Nat, NEW t \in Int, NEW s \in Int, NEW r \in Int,
           n = 0 => t = 0 /\ s = 0,
           NEW x \in Rational, MeanIs(x, n, t),
           NEW x1 \in Rational, MeanIs(x1, n + 1, t + r),
           NEW y \in Rational, SquaresIs(y, n, t, s)
    PROVE  /\ NextSquares(y, x, x1, r) \in Rational
           /\ SquaresIs(NextSquares(y, x, x1, r), n + 1, t + r, s + r * r)
  <1>a. PICK p \in Int, q \in Nat \ {0} : x = <<p, q>>
    BY DEF Rational
  <1>b. PICK p1 \in Int, q1 \in Nat \ {0} : x1 = <<p1, q1>>
    BY DEF Rational
  <1>c. PICK u \in Int, v \in Nat \ {0} : y = <<u, v>>
    BY DEF Rational
  <1>d. p * n = t * q
    BY <1>a DEF MeanIs
  <1>e. p1 * (n + 1) = (t + r) * q1
    BY <1>b DEF MeanIs
  <1>f. u * n = (n * s - t * t) * v
    BY <1>c DEF SquaresIs
  <1>g. n = 0 => u = 0
    BY <1>c DEF SquaresIs
  <1> DEFINE a == r * q - p
             b == r * q1 - p1
             u1 == u * (q * q1) + (a * b) * v
             v1 == v * (q * q1)
             w == (n + 1) * (s + r * r) - (t + r) * (t + r)
  <1>1. NextSquares(y, x, x1, r) = <<u1, v1>>
    BY <1>a, <1>b, <1>c DEF NextSquares, Plus, Times, Minus
  <1>2. /\ a \in Int /\ b \in Int /\ u1 \in Int /\ v1 \in Int /\ w \in Int
        /\ v1 > 0
    OBVIOUS
  <1>3. u1 * (n + 1) = w * v1
    <2>1. CASE n = 0
      <3>1. b = 0
        BY <1>e, <2>1
      <3>2. u1 = 0
        BY <1>g, <2>1, <3>1
      <3>3. w = 0
        BY <2>1
      <3> QED BY <1>2, <2>1, <3>2, <3>3
    <2>2. CASE n > 0
      <3>1. a * n = q * (r * n - t)
        BY <1>d
      <3>2. b * (n + 1) = q1 * (r * n - t)
        BY <1>e
      <3>3. (a * b) * (n * (n + 1)) = (q * q1) * ((r * n - t) * (r * n - t))
        <4>1. (a * b) * (n * (n + 1)) = (a * n) * (b * (n + 1))
          BY <1>2
        <4> HIDE DEF a, b
        <4> QED BY <1>2, <3>1, <3>2, <4>1
      <3>4. (u1 * (n + 1)) * n = (w * v1) * n
        <4> HIDE DEF a, b
        <4> QED BY <1>2, <1>f, <3>3
      <3> HIDE DEF u1, v1, w
      <3> QED BY <1>2, <2>2, <3>4
    <2> QED BY <2>1, <2>2
  <1> HIDE DEF u1, v1
  <1>4. <<u1, v1>> \in Rational
    BY <1>2 DEF Rational
  <1>5. SquaresIs(<<u1, v1>>, n + 1, t + r, s + r * r)
    BY <1>3 DEF SquaresIs
  <1> QED BY <1>1, <1>4, <1>5

(* The running statistics st are those of the sample q.                    *)
Fits(st, q) ==
    LET n == Len(q)
        t == SumTo(q, n)
        s == SumTo([k \in 1 .. n |-> q[k] * q[k]], n)
    IN  /\ st.c = n /\ st.total_rtt = t
        /\ MeanIs(st.mean, n, t) /\ SquaresIs(st.m2, n, t, s)
        /\ n = 0 => st.min_rtt = 0 /\ st.max_rtt = 0
        /\ \A k \in 1 .. n : st.min_rtt <= q[k] /\ q[k] <= st.max_rtt
        /\ n > 0 => /\ \E k \in 1 .. n : q[k] = st.min_rtt
                    /\ \E k \in 1 .. n : q[k] = st.max_rtt

(* The least and the greatest measurement, a and b, once r came too.       *)
LEMMA Extremes ==
    ASSUME NEW a \in Nat, NEW b \in Nat, NEW r \in Nat \ {0},
           NEW lo, lo = IF a = 0 \/ ~ (a < r) THEN r ELSE a,
           NEW hi, hi = IF b > r THEN b ELSE r
    PROVE  /\ lo \in Nat /\ hi \in Nat /\ lo <= r /\ r <= hi /\ b <= hi
           /\ a # 0 => lo <= a
           /\ lo = r \/ (lo = a /\ a # 0)
           /\ hi = r \/ (hi = b /\ b > r)
  OBVIOUS

(* rtt_stats() takes the statistics of a sample to those of the sample     *)
(* with one measurement more, and leaves the other counters alone.         *)
LEMMA SampleStep ==
    ASSUME NEW st \in Stats, NEW q \in Seq(Rtts), Fits(st, q), NEW r \in Rtts
    PROVE  /\ rtt_stats(st, r) \in Stats
           /\ rtt_stats(st, r).sent = st.sent
           /\ rtt_stats(st, r).recv = st.recv
           /\ rtt_stats(st, r).lost = st.lost
           /\ Fits(rtt_stats(st, r), Append(q, r))
  <1> DEFINE n == Len(q)
             t == SumTo(q, n)
             f == [k \in 1 .. n |-> q[k] * q[k]]
             s == SumTo(f, n)
             Q == Append(q, r)
             F == [k \in 1 .. n + 1 |-> Q[k] * Q[k]]
             R == rtt_stats(st, r)
  <1>1. /\ n \in Nat /\ r \in Nat \ {0} /\ Len(Q) = n + 1 /\ Q[n + 1] = r
        /\ \A k \in 1 .. n : q[k] \in Nat \ {0} /\ Q[k] = q[k]
    <2>1. n \in Nat /\ Len(Q) = n + 1 /\ Q[n + 1] = r
      OBVIOUS
    <2>2. \A k \in 1 .. n : q[k] \in Rtts /\ Q[k] = q[k]
      OBVIOUS
    <2>3. Rtts \subseteq Nat \ {0}
      BY PingAssumption
    <2> HIDE DEF n, Q
    <2> QED BY <2>1, <2>2, <2>3
  <1>2. t \in Int /\ SumTo(Q, n + 1) = t + r
    <2>1. \A k \in 1 .. n + 1 : Q[k] \in Int
      BY <1>1
    <2> HIDE DEF n, Q
    <2> QED BY <1>1, <2>1, SumStep
  <1>3. s \in Int /\ SumTo(F, n + 1) = s + r * r
    <2>1. \A k \in 1 .. n + 1 : F[k] \in Int
      BY <1>1
    <2>2. \A k \in 1 .. n : f[k] = F[k]
      BY <1>1
    <2>3. F[n + 1] = r * r
      BY <1>1
    <2> HIDE DEF n, f, F
    <2> QED BY <1>1, <2>1, <2>2, <2>3, SumStep
  <1>4. /\ st.c = n /\ st.total_rtt = t
        /\ MeanIs(st.mean, n, t) /\ SquaresIs(st.m2, n, t, s)
        /\ n = 0 => st.min_rtt = 0 /\ st.max_rtt = 0
        /\ \A k \in 1 .. n : st.min_rtt <= q[k] /\ q[k] <= st.max_rtt
        /\ n > 0 => /\ \E k \in 1 .. n : q[k] = st.min_rtt
                    /\ \E k \in 1 .. n : q[k] = st.max_rtt
    BY DEF Fits
  <1>5. n = 0 => t = 0 /\ s = 0
    BY SumEmpty
  <1>6. st.mean \in Rational /\ st.m2 \in Rational
    BY DEF Stats
  <1> DEFINE m == NextMean(st.mean, n, r)
             z == NextSquares(st.m2, st.mean, m, r)
  <1> HIDE DEF n, t, s, f, F, Q
  <1>7. m \in Rational /\ MeanIs(m, n + 1, t + r)
    <2>1. n \in Nat /\ t \in Int /\ r \in Int
      BY <1>1, <1>2
    <2> QED BY <1>4, <1>6, <2>1, MeanStep, Zenon
  <1>8. z \in Rational /\ SquaresIs(z, n + 1, t + r, s + r * r)
    <2>1. n \in Nat /\ t \in Int /\ r \in Int /\ s \in Int
      BY <1>1, <1>2, <1>3
    <2> HIDE DEF m
    <2> QED BY <1>4, <1>5, <1>6, <1>7, <2>1, SquaresStep, Zenon
  <1>9. R = [st EXCEPT !.total_rtt = st.total_rtt + r,
                       !.min_rtt = u64_min(IF st.min_rtt = 0 THEN r
                                           ELSE st.min_rtt, r),
                       !.max_rtt = u64_max(st.max_rtt, r),
                       !.c = n + 1, !.mean = m, !.m2 = z]
    BY <1>4 DEF rtt_stats, update_rtt_stats, Stats, NextMean, NextSquares
  <1> HIDE DEF m, z
  <1> HIDE DEF R
  <1>10. /\ R.total_rtt = t + r /\ R.c = n + 1
         /\ R.mean = m /\ R.m2 = z
         /\ R.max_rtt = IF st.max_rtt > r THEN st.max_rtt ELSE r
         /\ R.min_rtt = IF st.min_rtt = 0 \/ ~ (st.min_rtt < r) THEN r
                        ELSE st.min_rtt
         /\ R.sent = st.sent /\ R.recv = st.recv /\ R.lost = st.lost
    BY <1>4, <1>9 DEF u64_min, u64_max, Stats
  <1>13. st.min_rtt \in Nat /\ st.max_rtt \in Nat
    BY DEF Stats
  <1>e. /\ R.min_rtt \in Nat /\ R.max_rtt \in Nat /\ R.min_rtt <= r
        /\ r <= R.max_rtt /\ st.max_rtt <= R.max_rtt
        /\ st.min_rtt # 0 => R.min_rtt <= st.min_rtt
        /\ R.min_rtt = r \/ (R.min_rtt = st.min_rtt /\ st.min_rtt # 0)
        /\ R.max_rtt = r \/ (R.max_rtt = st.max_rtt /\ st.max_rtt > r)
    <2>1. r \in Nat \ {0}
      BY <1>1
    <2>2. /\ R.max_rtt = IF st.max_rtt > r THEN st.max_rtt ELSE r
          /\ R.min_rtt = IF st.min_rtt = 0 \/ ~ (st.min_rtt < r) THEN r
                         ELSE st.min_rtt
      BY <1>10
    <2> QED BY <1>13, <2>1, <2>2, Extremes
  <1>11. R \in Stats
    <2>1. t + r \in Nat /\ n + 1 \in Nat
      BY <1>1, <1>2, <1>4 DEF Stats
    <2>3. R = [st EXCEPT !.total_rtt = t + r, !.min_rtt = R.min_rtt,
                         !.max_rtt = R.max_rtt, !.c = n + 1,
                         !.mean = m, !.m2 = z]
      BY <1>4, <1>9 DEF Stats
    <2> QED BY <1>7, <1>8, <1>e, <2>1, <2>3 DEF Stats
  <1>12. /\ Len(Q) = n + 1 /\ SumTo(Q, Len(Q)) = t + r
         /\ SumTo([k \in 1 .. Len(Q) |-> Q[k] * Q[k]], Len(Q)) = s + r * r
    BY <1>1, <1>2, <1>3 DEF F
  <1>14. \A k \in 1 .. n + 1 : R.min_rtt <= Q[k] /\ Q[k] <= R.max_rtt
    <2>5. ASSUME NEW k \in 1 .. n
          PROVE  R.min_rtt <= Q[k] /\ Q[k] <= R.max_rtt
      <3>1. /\ Q[k] \in Nat /\ st.min_rtt <= Q[k] /\ Q[k] <= st.max_rtt
        BY <1>1, <1>4
      <3>2. R.min_rtt <= Q[k]
        <4>1. st.min_rtt # 0
          <5>1. n > 0
            BY <1>1
          <5>2. \A j \in 1 .. n : q[j] # 0
            BY <1>1
          <5> QED BY <1>4, <5>1, <5>2
        <4> QED BY <1>13, <1>e, <3>1, <4>1
      <3>3. Q[k] <= R.max_rtt
        BY <1>13, <1>e, <3>1
      <3> QED BY <3>2, <3>3
    <2>6. \A k \in 1 .. n + 1 : k \in 1 .. n \/ k = n + 1
      BY <1>1
    <2> QED BY <1>1, <1>e, <2>5, <2>6
  <1>15. /\ \E k \in 1 .. n + 1 : Q[k] = R.min_rtt
         /\ \E k \in 1 .. n + 1 : Q[k] = R.max_rtt
    <2>1. n + 1 \in 1 .. n + 1 /\ \A k \in 1 .. n : k \in 1 .. n + 1
      BY <1>1
    <2>0. \A x : (\E k \in 1 .. n : q[k] = x) => \E k \in 1 .. n + 1 : Q[k] = x
      BY <1>1, <2>1
    <2>2. \E k \in 1 .. n + 1 : Q[k] = R.min_rtt
      <3>1. CASE R.min_rtt = r
        BY <1>1, <2>1, <3>1
      <3>2. CASE R.min_rtt # r
        <4>1. R.min_rtt = st.min_rtt /\ st.min_rtt # 0
          BY <1>e, <3>2
        <4>2. n > 0
          BY <1>1, <1>4, <4>1
        <4>3. \E k \in 1 .. n : q[k] = R.min_rtt
          BY <1>4, <4>1, <4>2
        <4> QED BY <2>0, <4>3
      <3> QED BY <3>1, <3>2
    <2>3. \E k \in 1 .. n + 1 : Q[k] = R.max_rtt
      <3>1. CASE R.max_rtt = r
        BY <1>1, <2>1, <3>1
      <3>2. CASE R.max_rtt # r
        <4>1. R.max_rtt = st.max_rtt /\ st.max_rtt > r
          BY <1>e, <3>2
        <4>2. n > 0
          BY <1>1, <1>4, <1>13, <4>1
        <4>3. \E k \in 1 .. n : q[k] = R.max_rtt
          BY <1>4, <4>1, <4>2
        <4> QED BY <2>0, <4>3
      <3> QED BY <3>1, <3>2
    <2> QED BY <2>2, <2>3
  <1>16. /\ MeanIs(R.mean, n + 1, t + r)
         /\ SquaresIs(R.m2, n + 1, t + r, s + r * r)
    BY <1>7, <1>8, <1>10
  <1>17. Fits(R, Q)
    <2>1. n + 1 # 0 /\ n + 1 > 0
      BY <1>1
    <2> QED BY <1>10, <1>12, <1>14, <1>15, <1>16, <2>1 DEF Fits
  <1> QED BY <1>10, <1>11, <1>17 DEF R, Q

(* The counters st agree when ping() is at pc in round j.                  *)
Agree(st, pc, j) ==
    /\ st.recv = st.c + st.lost /\ st.recv <= j
    /\ st.sent = IF pc = "recv" THEN j + 1 ELSE j

PingInv ==
    /\ PingTypeOK /\ (ppc = "recv" => i < Rounds)
    /\ Agree(stats, ppc, i) /\ Fits(stats, rtts)

(* ping starts in PingInv.                                                 *)
LEMMA PingInvInit == Init => PingInv
  <1> SUFFICES ASSUME Init PROVE PingInv
    OBVIOUS
  <1>1. PingInit
    BY DEF Init
  <1>2. stats = [sent |-> 0, recv |-> 0, lost |-> 0, min_rtt |-> 0,
                 max_rtt |-> 0, total_rtt |-> 0, c |-> 0,
                 mean |-> <<0, 1>>, m2 |-> <<0, 1>>]
    BY <1>1 DEF PingInit
  <1>3. i = 0 /\ ppc = "send" /\ rtts = <<>>
    BY <1>1 DEF PingInit
  <1>4. stats \in Stats
    BY <1>2 DEF Stats, Rational
  <1>5. PingTypeOK
    BY <1>1, <1>4, PingAssumption DEF PingInit, PingTypeOK, Stats
  <1>6. Agree(stats, ppc, i)
    BY <1>2, <1>3 DEF Agree
  <1>7. Fits(stats, rtts)
    <2>1. \A g : SumTo(g, 0) = 0
      BY SumEmpty
    <2>2. Len(rtts) = 0
      BY <1>3
    <2>3. MeanIs(stats.mean, 0, 0) /\ SquaresIs(stats.m2, 0, 0, 0)
      BY <1>2 DEF MeanIs, SquaresIs
    <2>4. /\ stats.c = 0 /\ stats.total_rtt = 0
          /\ stats.min_rtt = 0 /\ stats.max_rtt = 0
      BY <1>2
    <2>5. 1 .. 0 = {} /\ ~ (0 > 0)
      OBVIOUS
    <2> QED BY <2>1, <2>2, <2>3, <2>4, <2>5 DEF Fits
  <1> QED BY <1>3, <1>5, <1>6, <1>7 DEF PingInv

(* A packet received: the statistics of the sample with the measurement.   *)
LEMMA CountedStep ==
    ASSUME NEW st \in Stats, NEW q \in Seq(Rtts), Fits(st, q), NEW r \in Rtts,
           NEW j \in Nat, Agree(st, "recv", j)
    PROVE  LET s1 == [st EXCEPT !.recv = @ + 1]
               echo == rtt_stats(s1, r)
               other == [s1 EXCEPT !.lost = @ + 1]
           IN  /\ echo \in Stats /\ other \in Stats
               /\ Agree(echo, "send", j + 1) /\ Agree(other, "send", j + 1)
               /\ Fits(echo, Append(q, r)) /\ Fits(other, q)
  <1> DEFINE s1 == [st EXCEPT !.recv = @ + 1]
             echo == rtt_stats(s1, r)
             other == [s1 EXCEPT !.lost = @ + 1]
  <1>1. /\ s1 \in Stats /\ s1.recv = st.recv + 1
        /\ s1.lost = st.lost /\ s1.sent = st.sent
    BY DEF Stats
  <1>2. /\ other \in Stats /\ other.recv = st.recv + 1
        /\ other.lost = st.lost + 1 /\ other.sent = st.sent
        /\ other.c = st.c
    <2>1. other = [s1 EXCEPT !.lost = s1.lost + 1]
      OBVIOUS
    <2>2. s1.c = st.c
      BY DEF Stats
    <2> HIDE DEF s1, other
    <2>3. s1.lost + 1 \in Nat
      BY <1>1 DEF Stats
    <2> QED BY <1>1, <2>1, <2>2, <2>3 DEF Stats
  <1>3. Fits(s1, q)
    <2>1. /\ s1.c = st.c /\ s1.total_rtt = st.total_rtt
          /\ s1.mean = st.mean /\ s1.m2 = st.m2
          /\ s1.min_rtt = st.min_rtt /\ s1.max_rtt = st.max_rtt
      BY DEF Stats
    <2> HIDE DEF s1
    <2> QED BY <2>1 DEF Fits
  <1>4. Fits(other, q)
    <2>1. /\ other.c = st.c /\ other.total_rtt = st.total_rtt
          /\ other.mean = st.mean /\ other.m2 = st.m2
          /\ other.min_rtt = st.min_rtt /\ other.max_rtt = st.max_rtt
      BY DEF Stats
    <2> HIDE DEF other
    <2> QED BY <2>1 DEF Fits
  <1> HIDE DEF s1
  <1>5. /\ echo \in Stats /\ Fits(echo, Append(q, r)) /\ echo.recv = s1.recv
        /\ echo.lost = s1.lost /\ echo.sent = s1.sent
    BY <1>1, <1>3, SampleStep
  <1> HIDE DEF echo, other
  <1>6. st.c = Len(q) /\ echo.c = Len(q) + 1
    <2>1. echo.c = Len(Append(q, r)) /\ st.c = Len(q)
      BY <1>5 DEF Fits
    <2> QED BY <2>1
  <1>7. /\ st.recv \in Nat /\ st.lost \in Nat /\ st.c \in Nat
        /\ st.recv = st.c + st.lost /\ st.recv <= j /\ st.sent = j + 1
    BY DEF Stats, Agree
  <1>8. Agree(echo, "send", j + 1)
    <2>1. echo.recv = echo.c + echo.lost /\ echo.recv <= j + 1
      BY <1>1, <1>5, <1>6, <1>7
    <2> QED BY <1>1, <1>5, <1>7, <2>1 DEF Agree
  <1>9. Agree(other, "send", j + 1)
    <2>1. other.recv = other.c + other.lost /\ other.recv <= j + 1
      BY <1>2, <1>7
    <2> QED BY <1>2, <1>7, <2>1 DEF Agree
  <1> QED BY <1>2, <1>4, <1>5, <1>8, <1>9 DEF echo, other, s1

(* Every step of ping keeps PingInv.                                       *)
LEMMA PingInvNext == PingInv /\ [Next]_vars => PingInv'
  <1> SUFFICES ASSUME PingInv, [Next]_vars PROVE PingInv'
    OBVIOUS
  <1> USE PingAssumption
  <1>t. /\ ppc \in {"send", "recv", "exit"} /\ i \in 0 .. Rounds
        /\ stats \in Stats
        /\ queue \in Seq(Packet) /\ asked \subseteq 0 .. Rounds
        /\ noise \in 0 .. MaxNoise /\ rtts \in Seq(Rtts)
        /\ lines \in Seq((1 .. Rounds) \X Packet)
    BY DEF PingInv, PingTypeOK, Stats
  <1>i. /\ Agree(stats, ppc, i) /\ Fits(stats, rtts)
        /\ ppc = "recv" => i < Rounds
    BY DEF PingInv
  <1>u. CASE UNCHANGED pingVars
    BY <1>t, <1>i, <1>u DEF PingInv, PingTypeOK, pingVars, Stats
  <1>1. ASSUME NEW s \in 0 .. Rounds, Reply(s) PROVE PingInv'
    <2>1. UNCHANGED <<ppc, i, stats, noise, rtts, lines>>
      BY <1>1 DEF Reply
    <2>2. asked' \subseteq 0 .. Rounds /\ queue' \in Seq(Packet)
      <3>1. [type |-> "reply", seq |-> s] \in Packet
        BY DEF Packet
      <3> QED BY <1>1, <1>t, <3>1 DEF Reply
    <2> QED BY <1>t, <1>i, <2>1, <2>2 DEF PingInv, PingTypeOK, Stats
  <1>2. ASSUME NEW type \in {"foreign", "request", "error"}, Noise(type)
        PROVE  PingInv'
    <2>1. UNCHANGED <<ppc, i, stats, asked, rtts, lines>>
      BY <1>2 DEF Noise
    <2>2. noise' \in 0 .. MaxNoise
      BY <1>2, <1>t DEF Noise
    <2>3. queue' \in Seq(Packet)
      <3>1. [type |-> type, seq |-> 0] \in Packet
        BY DEF Packet
      <3> QED BY <1>2, <1>t, <3>1 DEF Noise
    <2> QED BY <1>t, <1>i, <2>1, <2>2, <2>3 DEF PingInv, PingTypeOK, Stats
  <1>3. CASE send_icmp_echo
    <2>1. UNCHANGED <<i, queue, noise, rtts, lines>> /\ ppc' = "recv"
      BY <1>3 DEF send_icmp_echo
    <2>2. asked' \subseteq 0 .. Rounds /\ i < Rounds
      BY <1>3, <1>t DEF send_icmp_echo, SeqNo
    <2> DEFINE st == [stats EXCEPT !.sent = @ + 1]
    <2>3. stats' = st
      BY <1>3 DEF send_icmp_echo
    <2>4. /\ st \in Stats /\ st.sent = stats.sent + 1 /\ st.c = stats.c
          /\ st.recv = stats.recv /\ st.lost = stats.lost
          /\ st.total_rtt = stats.total_rtt
          /\ st.mean = stats.mean /\ st.m2 = stats.m2
          /\ st.min_rtt = stats.min_rtt /\ st.max_rtt = stats.max_rtt
      <3>1. stats \in Stats /\ stats.sent + 1 \in Nat
        BY <1>t DEF Stats
      <3>2. st \in Stats
        BY <3>1 DEF Stats
      <3>3. st.sent = stats.sent + 1
        BY <3>1 DEF Stats
      <3> QED BY <3>1, <3>2, <3>3 DEF Stats
    <2> HIDE DEF st
    <2>5. Fits(st, rtts)
      BY <1>i, <2>4 DEF Fits
    <2>6. Agree(st, "recv", i)
      <3>1. stats.sent = i
        BY <1>3, <1>i DEF Agree, send_icmp_echo
      <3> QED BY <1>i, <2>4, <3>1 DEF Agree
    <2>7. stats' \in Stats /\ Agree(stats', ppc', i') /\ Fits(stats', rtts')
      BY <2>1, <2>3, <2>4, <2>5, <2>6
    <2> QED BY <1>t, <2>1, <2>2, <2>7 DEF PingInv, PingTypeOK, Stats
  <1>4. ASSUME NEW r \in Rtts, recv_icmp_echo(r) PROVE PingInv'
    <2>1. /\ UNCHANGED <<asked, noise>> /\ ppc = "recv" /\ ppc' = "send"
          /\ i' = i + 1 /\ queue # <<>> /\ queue' = Tail(queue)
      BY <1>4 DEF recv_icmp_echo
    <2> DEFINE p == Head(queue)
               s1 == [stats EXCEPT !.recv = @ + 1]
               echo == rtt_stats(s1, r)
               other == [s1 EXCEPT !.lost = @ + 1]
    <2>2. p \in Packet /\ queue' \in Seq(Packet)
      BY <1>t, <2>1
    <2>3. i + 1 \in 1 .. Rounds /\ i \in Nat
      BY <1>t, <1>i, <2>1
    <2>4. /\ echo \in Stats /\ other \in Stats
          /\ Agree(echo, "send", i + 1) /\ Agree(other, "send", i + 1)
          /\ Fits(echo, Append(rtts, r)) /\ Fits(other, rtts)
      BY <1>t, <1>i, <2>1, <2>3, CountedStep
    <2>5. CASE p.type \in {"reply", "foreign"}
      <3>1. /\ stats' = echo /\ rtts' = Append(rtts, r)
            /\ lines' = Append(lines, <<i + 1, p>>)
        BY <1>4, <2>5 DEF recv_icmp_echo, Counted
      <3> HIDE DEF p, echo, other
      <3>2. stats' \in Stats /\ Agree(stats', ppc', i') /\ Fits(stats', rtts')
        BY <2>1, <2>4, <3>1
      <3>3. rtts' \in Seq(Rtts) /\ lines' \in Seq((1 .. Rounds) \X Packet)
        BY <1>t, <2>2, <2>3, <3>1
      <3> QED BY <1>t, <2>1, <2>2, <2>3, <3>2, <3>3
                 DEF PingInv, PingTypeOK, Stats
    <2>6. CASE p.type \notin {"reply", "foreign"}
      <3>1. stats' = other /\ UNCHANGED <<rtts, lines>>
        BY <1>4, <2>6 DEF recv_icmp_echo, Counted
      <3> HIDE DEF p, echo, other
      <3>2. stats' \in Stats /\ Agree(stats', ppc', i') /\ Fits(stats', rtts')
        BY <2>1, <2>4, <3>1
      <3> QED BY <1>t, <2>1, <2>2, <2>3, <3>1, <3>2
                 DEF PingInv, PingTypeOK, Stats
    <2> QED BY <2>5, <2>6
  <1>5. CASE RecvTimeout
    <2>1. /\ UNCHANGED <<stats, queue, asked, noise, rtts, lines>>
          /\ ppc = "recv" /\ ppc' = "send" /\ i' = i + 1
      BY <1>5 DEF RecvTimeout
    <2>2. i + 1 \in 0 .. Rounds
      BY <1>t, <1>i, <2>1
    <2>3. Agree(stats, "send", i + 1)
      BY <1>t, <1>i, <2>1 DEF Agree, Stats
    <2> QED BY <1>t, <1>i, <2>1, <2>2, <2>3 DEF PingInv, PingTypeOK, Stats
  <1>6. CASE Exit
    <2>1. /\ UNCHANGED <<i, stats, queue, asked, noise, rtts, lines>>
          /\ ppc = "send" /\ ppc' = "exit"
      BY <1>6 DEF Exit
    <2>2. Agree(stats, "exit", i)
      BY <1>i, <2>1 DEF Agree
    <2> QED BY <1>t, <1>i, <2>1, <2>2 DEF PingInv, PingTypeOK, Stats
  <1>7. PingNext \/ UNCHANGED pingVars
    BY OneTool
  <1> QED BY <1>u, <1>1, <1>2, <1>3, <1>4, <1>5, <1>6, <1>7
         DEF PingNext, PingProgram

(* Whatever packets come and however many rounds there are, the counters   *)
(* of ping agree and its running mean, sum of squared differences, least   *)
(* and greatest time are those of the whole sample.                        *)
THEOREM StatsAreRight == Spec => []StatsAreTheSample
  <1>1. PingInv => StatsAreTheSample
    <2> SUFFICES ASSUME PingInv PROVE StatsAreTheSample
      OBVIOUS
    <2> DEFINE n == Len(rtts)
               t == SumTo(rtts, n)
               f == [k \in 1 .. n |-> rtts[k] * rtts[k]]
               s == SumTo(f, n)
    <2>1. PingTypeOK /\ stats \in Stats /\ Fits(stats, rtts)
      BY DEF PingInv, PingTypeOK, Stats
    <2>2. /\ stats.c = n /\ stats.total_rtt = t
          /\ MeanIs(stats.mean, n, t) /\ SquaresIs(stats.m2, n, t, s)
          /\ \A k \in 1 .. n : stats.min_rtt <= rtts[k]
             /\ rtts[k] <= stats.max_rtt
          /\ n > 0 => /\ \E k \in 1 .. n : rtts[k] = stats.min_rtt
                      /\ \E k \in 1 .. n : rtts[k] = stats.max_rtt
      BY <2>1 DEF Fits
    <2>3. CountersAgree
      <3>1. Agree(stats, ppc, i) /\ i \in Nat
        BY DEF PingInv, PingTypeOK
      <3> QED BY <2>1, <2>2, <3>1 DEF CountersAgree, Agree, Stats
    <2>4. SumOf(rtts) = t /\ SumOf(f) = s
      BY DEF SumOf, SumTo
    <2>5. Same(stats.mean, <<t, n>>)
      <3> HIDE DEF t, n
      <3> QED BY <2>2 DEF MeanIs, Same
    <2>6. Same(stats.m2, <<n * s - t * t, n>>)
      <3> HIDE DEF s, t, n
      <3> QED BY <2>2 DEF SquaresIs, Same
    <2> HIDE DEF s, t
    <2> QED BY <2>1, <2>2, <2>3, <2>4, <2>5, <2>6 DEF StatsAreTheSample
  <1> QED BY <1>1, PingInvInit, PingInvNext, PTL DEF Spec

(* As long as no other packet came and every round got a packet, at most   *)
(* one of our requests or replies is about, the one of this round, and     *)
(* each line names the reply it was printed for.                           *)
InStep ==
    noise = 0 /\ stats.recv = i =>
        /\ \A k \in 1 .. Len(lines) : lines[k][2].seq = lines[k][1]
        /\ ppc # "recv" => asked = {} /\ queue = <<>>
        /\ ppc = "recv" =>
              \/ asked = {i + 1} /\ queue = <<>>
              \/ asked = {} /\ queue = <<[type |-> "reply", seq |-> i + 1]>>

(* Without foreign packets or timeouts: the reply waited for is the next.  *)
LEMMA InStepInit == Init => InStep
  BY OneTool DEF PingInit, InStep

(* Every step of ping keeps it so.                                         *)
LEMMA InStepNext == PingInv /\ InStep /\ [Next]_vars => InStep'
  <1> SUFFICES ASSUME PingInv, InStep, [Next]_vars,
                      noise' = 0, stats'.recv = i'
               PROVE  InStep'
    BY DEF InStep
  <1>t. /\ ppc \in {"send", "recv", "exit"} /\ i \in Nat /\ noise \in Nat
        /\ stats \in Stats /\ stats.recv \in Nat /\ stats.recv <= i
        /\ lines \in Seq((1 .. Rounds) \X Packet)
    BY DEF PingInv, PingTypeOK, Stats, Agree
  <1>u. CASE UNCHANGED pingVars
    BY <1>u DEF InStep, pingVars
  <1>1. ASSUME NEW s \in 0 .. Rounds, Reply(s) PROVE InStep'
    <2>1. /\ UNCHANGED <<ppc, i, stats, noise, lines>> /\ s \in asked
          /\ asked' = asked \ {s}
          /\ queue' = Append(queue, [type |-> "reply", seq |-> s])
      BY <1>1 DEF Reply
    <2>2. ppc = "recv" /\ asked = {i + 1} /\ queue = <<>>
      BY <2>1 DEF InStep
    <2>3. /\ asked' = {} /\ s = i + 1
          /\ queue' = <<[type |-> "reply", seq |-> i + 1]>>
      BY <2>1, <2>2
    <2> QED BY <2>1, <2>2, <2>3 DEF InStep
  <1>2. ASSUME NEW type \in {"foreign", "request", "error"}, Noise(type)
        PROVE  FALSE
    BY <1>2, <1>t DEF Noise
  <1>3. CASE send_icmp_echo
    <2>1. /\ UNCHANGED <<i, queue, noise, lines>> /\ ppc' = "recv"
          /\ ppc = "send" /\ asked' = asked \cup {i + 1}
      BY <1>3 DEF send_icmp_echo, SeqNo
    <2>2. stats'.recv = stats.recv
      BY <1>3, <1>t DEF send_icmp_echo, Stats
    <2>3. asked = {} /\ queue = <<>>
      BY <2>1, <2>2 DEF InStep
    <2> QED BY <2>1, <2>2, <2>3 DEF InStep
  <1>4. ASSUME NEW r \in Rtts, recv_icmp_echo(r) PROVE InStep'
    <2> DEFINE p == Head(queue)
    <2>1. /\ UNCHANGED <<asked, noise>> /\ ppc = "recv" /\ ppc' = "send"
          /\ i' = i + 1 /\ queue # <<>> /\ queue' = Tail(queue)
          /\ stats' = Counted(p, r)
          /\ lines' = IF p.type \in {"reply", "foreign"}
                      THEN Append(lines, <<i + 1, p>>) ELSE lines
      BY <1>4 DEF recv_icmp_echo
    <2>2. stats'.recv = stats.recv + 1
      <3> DEFINE s1 == [stats EXCEPT !.recv = @ + 1]
      <3>1. s1 \in Stats /\ s1.recv = stats.recv + 1
        <4>1. stats \in Stats /\ stats.recv + 1 \in Nat
          BY <1>t
        <4> QED BY <4>1 DEF Stats
      <3>2. rtt_stats(s1, r).recv = s1.recv
        <4> HIDE DEF s1
        <4> QED BY <3>1 DEF rtt_stats, update_rtt_stats, Stats
      <3>3. [s1 EXCEPT !.lost = @ + 1].recv = s1.recv
        <4> HIDE DEF s1
        <4> QED BY <3>1 DEF Stats
      <3>4. Counted(p, r) = IF p.type \in {"reply", "foreign"}
                            THEN rtt_stats(s1, r) ELSE [s1 EXCEPT !.lost = @ + 1]
        BY DEF Counted
      <3> HIDE DEF s1, p
      <3> QED BY <2>1, <3>1, <3>2, <3>3, <3>4
    <2>3. stats.recv = i
      BY <1>t, <2>1, <2>2
    <2>4. /\ asked = {} /\ queue = <<[type |-> "reply", seq |-> i + 1]>>
          /\ \A k \in 1 .. Len(lines) : lines[k][2].seq = lines[k][1]
      BY <2>1, <2>3 DEF InStep
    <2>5. p = [type |-> "reply", seq |-> i + 1] /\ queue' = <<>>
      BY <2>1, <2>4
    <2>6. lines' = Append(lines, <<i + 1, p>>)
      BY <2>1, <2>5
    <2> HIDE DEF p
    <2>7. \A k \in 1 .. Len(lines') : lines'[k][2].seq = lines'[k][1]
      <3>1. Len(lines') = Len(lines) + 1 /\ Len(lines) \in Nat
        BY <1>t, <2>6
      <3>2. /\ \A k \in 1 .. Len(lines) : lines'[k] = lines[k]
            /\ lines'[Len(lines) + 1] = <<i + 1, p>>
        BY <1>t, <2>6
      <3>3. p.seq = i + 1
        BY <2>5
      <3> QED BY <2>4, <3>1, <3>2, <3>3
    <2> QED BY <2>1, <2>4, <2>5, <2>7 DEF InStep
  <1>5. CASE RecvTimeout
    <2>1. stats' = stats /\ i' = i + 1
      BY <1>5 DEF RecvTimeout
    <2> QED BY <1>t, <2>1
  <1>6. CASE Exit
    BY <1>6 DEF Exit, InStep
  <1>7. PingNext \/ UNCHANGED pingVars
    BY OneTool
  <1> QED BY <1>u, <1>1, <1>2, <1>3, <1>4, <1>5, <1>6, <1>7
         DEF PingNext, PingProgram

(* Nothing in the program compares identifiers or sequence numbers; still, *)
(* without foreign packets and without a round that timed out every line   *)
(* names the reply it was printed for.                                     *)
THEOREM LinesNameReplies == Spec => []LineNamesItsReply
  <1>1. Spec => []PingInv
    BY PingInvInit, PingInvNext, PTL DEF Spec
  <1>2. InStep => LineNamesItsReply
    BY DEF InStep, LineNamesItsReply
  <1> QED BY <1>1, <1>2, InStepInit, InStepNext, PTL DEF Spec

-----------------------------------------------------------------------------
(* SimpleLog.                                                              *)

File == [st : {"unused", "open", "closed"}, by : {"nobody", "program", "log"},
         path : Names \cup {"none"}]
Sink == [fp : Streams \cup {NULL},
         file : Names \cup {"none", "?"}, owned : BOOLEAN]

(* The sink sk over the streams fl, as SinkSound says; and besides, an     *)
(* owned stream exists, and stdout never becomes the log's.                *)
Sound(fl, sk) ==
    /\ fl \in [Streams -> File] /\ sk \in Sink
    /\ sk.fp # NULL => fl[sk.fp].st = "open"
    /\ sk.fp # NULL /\ sk.file # "none" => sk.file = fl[sk.fp].path
    /\ \A f \in Streams : fl[f].by = "log" =>
          (fl[f].st = "open" <=> (sk.fp = f /\ sk.owned = TRUE))
    /\ sk.owned = TRUE => sk.fp # NULL /\ fl[sk.fp].by = "log"
    /\ fl[1].by = "program" /\ fl[1].path = "stdout" /\ fl[1].st # "unused"

LogInv ==
    /\ level \in Levels \cup {0} /\ misuse \in BOOLEAN /\ harm \in BOOLEAN
    /\ misuse = FALSE => harm = FALSE /\ Sound(file, sink)

(* stdout is a stream, and NULL is none.                                   *)
LEMMA StreamsAre == 1 \in Streams /\ NULL \notin Streams
    /\ Streams \subseteq Nat
  BY LogAssumption DEF Streams, NULL

(* The log starts in LogInv.                                               *)
LEMMA LogStarts == LogInit => LogInv
  <1> SUFFICES ASSUME LogInit PROVE LogInv
    OBVIOUS
  <1>1. /\ file \in [Streams -> File] /\ file[1].by = "program"
        /\ file[1].path = "stdout" /\ file[1].st = "open"
        /\ \A f \in Streams : file[f].by # "log"
    BY StreamsAre DEF LogInit, File, Names
  <1>2. sink \in Sink /\ sink.fp = NULL /\ sink.owned = FALSE
    BY DEF LogInit, Sink
  <1>3. level \in Levels \cup {0} /\ misuse = FALSE /\ harm = FALSE
    BY LogAssumption DEF LogInit
  <1>4. Sound(file, sink)
    BY <1>1, <1>2 DEF Sound
  <1> QED BY <1>3, <1>4 DEF LogInv

(* slog_set_sink(): after the old stream's close, of the streams the log   *)
(* opened only the new one can be open.  fl is file, perhaps with the new  *)
(* stream opened.                                                          *)
LEMMA SinkIsSet ==
    ASSUME Sound(file, sink), NEW fl \in [Streams -> File],
           NEW fp \in Streams \cup {NULL},
           NEW name \in Names \cup {"none", "?"},
           NEW owned \in BOOLEAN, harm = FALSE,
           slog_set_sink(fl, fp, name, owned),
           \A f \in Streams : f # fp => fl[f] = file[f],
           fp # NULL => fl[fp].st = "open"
               /\ (fl[fp].by = "log" <=> owned = TRUE)
                        /\ (name # "none" => name = fl[fp].path)
                        /\ ~ (sink.owned = TRUE /\ sink.fp = fp),
           owned = TRUE => fp # NULL,
           fl[1].by = "program" /\ fl[1].path = "stdout" /\ fl[1].st # "unused"
    PROVE  Sound(file', sink') /\ harm' = FALSE
  <1>1. /\ file' = slog_set_sink_fp(fl)
        /\ sink' = [fp |-> fp, file |-> name, owned |-> owned]
    BY DEF slog_set_sink
  <1>2. harm' = FALSE
    <2>1. sink.fp # NULL => file[sink.fp].st # "closed"
      BY DEF Sound
    <2> QED BY <2>1, Zenon DEF slog_set_sink
  <1>3. sink' \in Sink /\ sink'.fp = fp /\ sink'.file = name
        /\ sink'.owned = owned
    BY <1>1 DEF Sink
  <1>4. sink \in Sink /\ sink.fp \in Streams \cup {NULL}
        /\ sink.owned \in BOOLEAN
    BY DEF Sound, Sink
  <1>5. /\ file' \in [Streams -> File]
        /\ \A f \in Streams :
              /\ file'[f].by = fl[f].by /\ file'[f].path = fl[f].path
              /\ file'[f].st = IF sink.owned = TRUE /\ f = sink.fp THEN "closed"
                               ELSE fl[f].st
    <2>1. CASE sink.owned = TRUE /\ sink.fp # NULL
      <3>1. file' = [fl EXCEPT ![sink.fp].st = "closed"]
        BY <1>1, <2>1 DEF slog_set_sink_fp
      <3> QED BY <1>4, <2>1, <3>1 DEF File
    <2>2. CASE ~ (sink.owned = TRUE /\ sink.fp # NULL)
      <3>1. file' = fl
        BY <1>1, <1>4, <2>2 DEF slog_set_sink_fp
      <3>2. sink.owned = FALSE
        BY <1>4, <2>2 DEF Sound
      <3> QED BY <3>1, <3>2
    <2> QED BY <2>1, <2>2
  <1>6. fp # NULL => fp \in Streams /\ file'[fp].st = "open"
    BY <1>5
  <1>7. ASSUME NEW f \in Streams, file'[f].by = "log"
        PROVE  file'[f].st = "open" <=> (fp = f /\ owned = TRUE)
    <2>1. CASE f = fp
      BY <1>5, <1>6, <1>7, <2>1, StreamsAre
    <2>2. CASE f # fp
      <3>1. file[f].by = "log" /\ fl[f].st = file[f].st
        BY <1>5, <1>7, <2>2
      <3>2. fl[f].st = "open" => sink.fp = f /\ sink.owned = TRUE
        BY <3>1 DEF Sound
      <3> QED BY <1>5, <2>2, <3>2
    <2> QED BY <2>1, <2>2
  <1>8. file'[1].by = "program" /\ file'[1].path = "stdout"
        /\ file'[1].st # "unused"
    BY <1>5, StreamsAre
  <1>9. Sound(file', sink')
    BY <1>3, <1>5, <1>6, <1>7, <1>8 DEF Sound
  <1> QED BY <1>2, <1>9

(* fopen(): the new stream, and all the others as they were.               *)
LEMMA FileOpened ==
    ASSUME file \in [Streams -> File], NEW f \in Streams,
           NEW who \in {"program", "log"},
           NEW path \in Names, NextFree(f)
    PROVE  /\ Opened(f, who, path) \in [Streams -> File]
           /\ file[f].st = "unused"
           /\ Opened(f, who, path)[f].st = "open"
           /\ Opened(f, who, path)[f].by = who
           /\ Opened(f, who, path)[f].path = path
           /\ \A g \in Streams : g # f => Opened(f, who, path)[g] = file[g]
  BY DEF Opened, File, NextFree

(* Every call keeps LogInv.                                                *)
LEMMA LogStep == LogInv /\ [LogNext]_logVars => LogInv'
  <1> SUFFICES ASSUME LogInv, [LogNext]_logVars PROVE LogInv'
    OBVIOUS
  <1>t. /\ level \in Levels \cup {0} /\ misuse \in BOOLEAN /\ harm \in BOOLEAN
        /\ misuse = FALSE => harm = FALSE /\ Sound(file, sink)
    BY DEF LogInv
  <1>n. /\ Names \subseteq Names \cup {"none", "?"}
        /\ "none" \in Names \cup {"none", "?"}
        /\ "stdout" \in Names /\ Paths \subseteq Names
    BY DEF Names
  <1>1. ASSUME NEW fp \in Streams \cup {NULL}, simple_log_set_log_os(fp)
        PROVE  LogInv'
    <2>1. /\ fp # NULL => file[fp].st = "open"
          /\ slog_set_sink(file, fp, "none", FALSE)
          /\ misuse' = (misuse \/ (fp # NULL /\ file[fp].by = "log"))
          /\ level' = level
      BY <1>1 DEF simple_log_set_log_os
    <2>2. misuse' \in BOOLEAN /\ harm' \in BOOLEAN
      BY <2>1 DEF slog_set_sink
    <2>3. ASSUME misuse' = FALSE PROVE harm' = FALSE /\ Sound(file', sink')
      <3>1. misuse = FALSE /\ (fp # NULL => file[fp].by # "log")
        BY <1>t, <2>1, <2>3
      <3>2. harm = FALSE /\ Sound(file, sink)
        BY <1>t, <3>1
      <3>3. /\ file \in [Streams -> File]
            /\ file[1].by = "program" /\ file[1].path = "stdout"
            /\ file[1].st # "unused"
            /\ fp # NULL => ~ (sink.owned = TRUE /\ sink.fp = fp)
        BY <3>1, <3>2 DEF Sound
      <3> QED BY <1>n, <2>1, <3>1, <3>2, <3>3, SinkIsSet
    <2> QED BY <1>t, <2>1, <2>2, <2>3 DEF LogInv
  <1>2. ASSUME file[1].st = "open", SetLogFileStd PROVE LogInv'
    <2>1. slog_set_sink(file, 1, "stdout", FALSE) /\ level' = level
          /\ misuse' = misuse
      BY <1>2 DEF SetLogFileStd
    <2>2. harm' \in BOOLEAN
      BY <2>1 DEF slog_set_sink
    <2>3. ASSUME misuse = FALSE PROVE harm' = FALSE /\ Sound(file', sink')
      <3>1. harm = FALSE /\ Sound(file, sink)
        BY <1>t, <2>3
      <3>2. /\ file \in [Streams -> File] /\ 1 # NULL
            /\ 1 \in Streams \cup {NULL}
            /\ file[1].by = "program" /\ file[1].path = "stdout"
            /\ file[1].st # "unused"
            /\ ~ (sink.owned = TRUE /\ sink.fp = 1)
        BY <3>1, StreamsAre DEF Sound
      <3> QED BY <1>n, <1>2, <2>1, <3>1, <3>2, SinkIsSet
    <2> QED BY <1>t, <2>1, <2>2, <2>3 DEF LogInv
  <1>3. ASSUME NEW p \in Paths, NEW f \in Streams,
               simple_log_set_log_file(p, f)
        PROVE  LogInv'
    <2> DEFINE fl == Opened(f, "log", p)
    <2>1. /\ NextFree(f) /\ slog_set_sink(fl, f, p, TRUE)
          /\ level' = level /\ misuse' = misuse
      BY <1>3 DEF simple_log_set_log_file
    <2>2. harm' \in BOOLEAN
      BY <2>1 DEF slog_set_sink
    <2>3. ASSUME misuse = FALSE PROVE harm' = FALSE /\ Sound(file', sink')
      <3>1. harm = FALSE /\ Sound(file, sink)
        BY <1>t, <2>3
      <3>2. /\ file \in [Streams -> File] /\ f # NULL
            /\ f \in Streams \cup {NULL}
            /\ p \in Names
        BY <1>n, <3>1, StreamsAre DEF Sound
      <3>3. /\ fl \in [Streams -> File] /\ file[f].st = "unused"
            /\ fl[f].st = "open" /\ fl[f].by = "log" /\ fl[f].path = p
            /\ \A g \in Streams : g # f => fl[g] = file[g]
        BY <1>n, <2>1, <3>2, FileOpened
      <3> HIDE DEF fl
      <3>4. f # 1 /\ sink.fp # f
        BY <3>1, <3>2, <3>3 DEF Sound
      <3>5. fl[1].by = "program" /\ fl[1].path = "stdout"
            /\ fl[1].st # "unused"
        BY <3>1, <3>3, <3>4, StreamsAre DEF Sound
      <3> QED BY <1>n, <2>1, <3>1, <3>2, <3>3, <3>4, <3>5, SinkIsSet
    <2> QED BY <1>t, <2>1, <2>2, <2>3 DEF LogInv
  <1>4. ASSUME NEW f \in Streams, SetLogFileOwnName(f) PROVE LogInv'
    <2>1. misuse' = TRUE /\ level' = level
      BY <1>4 DEF SetLogFileOwnName
    <2>2. harm' \in BOOLEAN
      BY <1>4 DEF SetLogFileOwnName, slog_set_sink
    <2> QED BY <1>t, <2>1, <2>2 DEF LogInv
  <1>5. ASSUME NEW l \in Levels \cup {0}, set_log_level(l) PROVE LogInv'
    BY <1>t, <1>5 DEF set_log_level, LogInv
  <1>6. ASSUME NEW l \in Levels, simple_log_level_mesg(l) PROVE LogInv'
    <2>1. /\ sink.fp # NULL /\ harm' = (harm \/ file[sink.fp].st = "closed")
          /\ UNCHANGED <<file, sink, level, misuse>>
      BY <1>6 DEF simple_log_level_mesg
    <2>2. misuse = FALSE => file[sink.fp].st = "open"
      BY <1>t, <2>1 DEF Sound
    <2>3. harm' \in BOOLEAN /\ (misuse = FALSE => harm' = FALSE)
      BY <1>t, <2>1, <2>2
    <2> QED BY <1>t, <2>1, <2>3 DEF LogInv
  <1>7. ASSUME NEW p \in Paths, NEW f \in Streams, ProgramOpens(p, f)
        PROVE  LogInv'
    <2> DEFINE fl == Opened(f, "program", p)
    <2>1. NextFree(f) /\ file' = fl /\ UNCHANGED <<sink, level, misuse, harm>>
      BY <1>7 DEF ProgramOpens
    <2>2. ASSUME misuse = FALSE PROVE Sound(file', sink)
      <3>1. Sound(file, sink)
        BY <1>t, <2>2
      <3>2. /\ fl \in [Streams -> File] /\ file[f].st = "unused"
            /\ fl[f].st = "open" /\ fl[f].by = "program"
            /\ \A g \in Streams : g # f => fl[g] = file[g]
        <4>1. file \in [Streams -> File] /\ p \in Names
          BY <1>n, <3>1 DEF Sound
        <4> QED BY <2>1, <4>1, FileOpened
      <3> HIDE DEF fl
      <3>3. f # 1 /\ sink.fp # f /\ sink.fp \in Streams \cup {NULL}
        BY <3>1, <3>2, StreamsAre DEF Sound, Sink
      <3>4. fl[1] = file[1] /\ (sink.fp # NULL => fl[sink.fp] = file[sink.fp])
        BY <3>2, <3>3, StreamsAre
      <3>5. Sound(fl, sink)
        BY <3>1, <3>2, <3>4 DEF Sound
      <3> QED BY <2>1, <3>5
    <2> QED BY <1>t, <2>1, <2>2 DEF LogInv
  <1>8. ASSUME NEW f \in Streams, ProgramCloses(f) PROVE LogInv'
    <2>1. /\ file[f].st = "open" /\ (file[f].by = "program" \/ f = sink.fp)
          /\ file' = [file EXCEPT ![f].st = "closed"]
          /\ misuse' = (misuse \/ f = sink.fp)
             /\ UNCHANGED <<sink, level, harm>>
      BY <1>8 DEF ProgramCloses
    <2>2. misuse' \in BOOLEAN
      BY <2>1
    <2>3. ASSUME misuse' = FALSE PROVE harm = FALSE /\ Sound(file', sink)
      <3>1. misuse = FALSE /\ f # sink.fp
        BY <1>t, <2>1, <2>3
      <3>2. harm = FALSE /\ Sound(file, sink)
        BY <1>t, <3>1
      <3>3. /\ file' \in [Streams -> File]
            /\ \A g \in Streams : g # f => file'[g] = file[g]
            /\ file'[f].st = "closed" /\ file'[f].by = "program"
            /\ file'[f].path = file[f].path
        BY <2>1, <3>1, <3>2 DEF Sound, File
      <3>4. /\ sink.fp \in Streams \cup {NULL}
            /\ sink.fp # NULL => file'[sink.fp] = file[sink.fp]
        BY <3>1, <3>2, <3>3 DEF Sound, Sink
      <3>5. file'[1].by = "program" /\ file'[1].path = "stdout"
            /\ file'[1].st # "unused"
        BY <3>2, <3>3, StreamsAre DEF Sound
      <3>6. Sound(file', sink)
        BY <3>1, <3>2, <3>3, <3>4, <3>5 DEF Sound
      <3> QED BY <3>2, <3>6
    <2> QED BY <1>t, <2>1, <2>2, <2>3 DEF LogInv
  <1>9. CASE UNCHANGED logVars
    BY <1>t, <1>9 DEF logVars, LogInv
  <1> QED BY <1>1, <1>2, <1>3, <1>4, <1>5, <1>6, <1>7, <1>8, <1>9 DEF LogNext

(* slog_set_sink() over any number of streams and any sequence of          *)
(* set_log_os, set_log_file, fopen and fclose that keeps to its contract:  *)
(* the sink's stream is open, nothing is closed twice, and exactly the     *)
(* streams that set_log_file() opened are closed.                          *)
THEOREM SinkOwnsItsStream == LogSpec => []SinkSound
  <1>1. LogInv => SinkSound
    <2> SUFFICES ASSUME LogInv, misuse = FALSE PROVE SinkSound
      BY DEF SinkSound, LogInv
    <2>1. /\ level \in Levels \cup {0} /\ misuse \in BOOLEAN /\ harm = FALSE
          /\ Sound(file, sink)
      BY DEF LogInv
    <2>2. LogTypeOK
      BY <2>1 DEF LogTypeOK, Sound, File, Sink
    <2>3. sink.owned \in BOOLEAN
      BY <2>1 DEF Sound, Sink
    <2> QED BY <2>1, <2>2, <2>3 DEF SinkSound, Sound
  <1> QED BY <1>1, LogStarts, LogStep, PTL DEF LogSpec

-----------------------------------------------------------------------------
(* UdpEcho.                                                                *)

(* The datagrams with line k of client c, on their way there and back.     *)
Dg(to, c, k) == [to |-> to, peer |-> c, line |-> k]

SentBy(q, pc) == IF pc = "recv" THEN Len(q) + 1 ELSE Len(q)

(* Of a line that is sent there are at most 1 + dp copies, a under way to  *)
(* the server, b under way back and the ones shown in q; of others none.   *)
CopiesOf(a, b, q, k, pc, dp) ==
    a + b + Occurs(q, k) <= IF k <= SentBy(q, pc) THEN 1 + dp ELSE 0

ShownOf(q, dp) == \A j \in 1 .. Len(q) : q[j] <= j /\ (dp = 0 => q[j] = j)

UdpInv ==
    /\ upc \in [UClients -> {"type", "recv", "quit"}]
    /\ net \in [Datagrams -> Nat]
    /\ shown \in [UClients -> Seq(1 .. ULines)]
    /\ loss \in 0 .. MaxLoss /\ dup \in 0 .. MaxDup
    /\ \A c \in UClients :
          /\ SentBy(shown[c], upc[c]) <= ULines
          /\ ShownOf(shown[c], dup)
          /\ \A k \in 1 .. ULines :
                CopiesOf(net[Dg("server", c, k)], net[Dg("client", c, k)],
                         shown[c], k, upc[c], dup)

(* A datagram is determined by where it goes, its peer and its line.       *)
LEMMA DatagramsAre ==
    /\ \A to \in {"server", "client"}, c \in UClients, k \in 1 .. ULines :
          /\ Dg(to, c, k) \in Datagrams
          /\ Dg(to, c, k).to = to /\ Dg(to, c, k).peer = c
          /\ Dg(to, c, k).line = k
    /\ \A d \in Datagrams :
          /\ d.to \in {"server", "client"} /\ d.peer \in UClients
          /\ d.line \in 1 .. ULines /\ d = Dg(d.to, d.peer, d.line)
    /\ \A d \in Datagrams : UdpAnswer(d) = Dg("client", d.peer, d.line)
  BY DEF Datagrams, Dg, UdpAnswer

(* The programs start in UdpInv.                                           *)
LEMMA UdpStarts == UdpInit => UdpInv
  <1> SUFFICES ASSUME UdpInit PROVE UdpInv
    OBVIOUS
  <1>1. /\ upc \in [UClients -> {"type", "recv", "quit"}]
        /\ net \in [Datagrams -> Nat]
        /\ \A c \in UClients : upc[c] = "type" /\ shown[c] = <<>>
        /\ \A d \in Datagrams : net[d] = 0
        /\ loss = 0 /\ dup = 0
    BY DEF UdpInit
  <1>2. shown \in [UClients -> Seq(1 .. ULines)]
    <2>1. <<>> \in Seq(1 .. ULines)
      OBVIOUS
    <2> QED BY <2>1 DEF UdpInit
  <1>3. loss \in 0 .. MaxLoss /\ dup \in 0 .. MaxDup
    BY <1>1, UdpAssumption
  <1>4. ASSUME NEW c \in UClients
        PROVE  /\ SentBy(shown[c], upc[c]) <= ULines /\ ShownOf(shown[c], dup)
               /\ \A k \in 1 .. ULines :
                     CopiesOf(net[Dg("server", c, k)], net[Dg("client", c, k)],
                              shown[c], k, upc[c], dup)
    <2>1. Len(<<>>) = 0 /\ shown[c] = <<>> /\ upc[c] = "type"
      BY <1>1
    <2>2. SentBy(shown[c], upc[c]) = 0
      BY <2>1 DEF SentBy
    <2>3. ShownOf(shown[c], dup)
      BY <2>1 DEF ShownOf
    <2>4. ASSUME NEW k \in 1 .. ULines
          PROVE  CopiesOf(net[Dg("server", c, k)], net[Dg("client", c, k)],
                          shown[c], k, upc[c], dup)
      <3>1. net[Dg("server", c, k)] = 0 /\ net[Dg("client", c, k)] = 0
        BY <1>1, DatagramsAre
      <3>2. Occurs(shown[c], k) = 0
        BY <2>1, OccursEmpty
      <3>3. ~ (k <= 0)
        BY UdpAssumption
      <3> QED BY <2>2, <3>1, <3>2, <3>3 DEF CopiesOf
    <2> QED BY <2>2, <2>3, <2>4, UdpAssumption
  <1> QED BY <1>1, <1>2, <1>3, <1>4 DEF UdpInv

(* The network only moves, loses or copies what there is: the clients are  *)
(* as they were.  a and b are the copies of line k of client c before.     *)
LEMMA NetMoves ==
    ASSUME UdpInv, UNCHANGED <<upc, shown>>, net' \in [Datagrams -> Nat],
           loss' \in 0 .. MaxLoss, dup' \in 0 .. MaxDup,
           dup' = dup \/ dup' = dup + 1,
           \A c \in UClients, k \in 1 .. ULines :
              LET a == net[Dg("server", c, k)]
                  b == net[Dg("client", c, k)]
                  a1 == net'[Dg("server", c, k)]
                  b1 == net'[Dg("client", c, k)]
              IN  \/ a1 + b1 <= a + b
                  \/ a1 + b1 <= a + b + 1 /\ dup' = dup + 1 /\ a + b > 0
    PROVE  UdpInv'
  <1> SUFFICES ASSUME NEW c \in UClients
               PROVE  /\ SentBy(shown[c], upc[c]) <= ULines
                      /\ ShownOf(shown[c], dup')
                      /\ \A k \in 1 .. ULines :
                            CopiesOf(net'[Dg("server", c, k)],
                                     net'[Dg("client", c, k)],
                                     shown[c], k, upc[c], dup')
    BY DEF UdpInv
  <1>1. /\ SentBy(shown[c], upc[c]) <= ULines /\ ShownOf(shown[c], dup)
        /\ dup \in Nat /\ shown[c] \in Seq(1 .. ULines)
    BY UdpAssumption DEF UdpInv
  <1>2. ShownOf(shown[c], dup')
    BY <1>1 DEF ShownOf
  <1>3. ASSUME NEW k \in 1 .. ULines
        PROVE  CopiesOf(net'[Dg("server", c, k)], net'[Dg("client", c, k)],
                        shown[c], k, upc[c], dup')
    <2> DEFINE a == net[Dg("server", c, k)]
               b == net[Dg("client", c, k)]
               a1 == net'[Dg("server", c, k)]
               b1 == net'[Dg("client", c, k)]
               o == Occurs(shown[c], k)
               s == SentBy(shown[c], upc[c])
    <2>1. a \in Nat /\ b \in Nat /\ a1 \in Nat /\ b1 \in Nat
      BY DatagramsAre DEF UdpInv
    <2>2. o \in Nat
      BY <1>1, OccursType
    <2>3. a + b + o <= IF k <= s THEN 1 + dup ELSE 0
      BY DEF UdpInv, CopiesOf
    <2>4. a1 + b1 <= a + b
          \/ (a1 + b1 <= a + b + 1 /\ dup' = dup + 1 /\ a + b > 0)
      OBVIOUS
    <2> HIDE DEF a, b, a1, b1, o, s
    <2>5. a1 + b1 + o <= IF k <= s THEN 1 + dup' ELSE 0
      <3>1. CASE k <= s
        <4>1. a + b + o <= 1 + dup
          BY <2>3, <3>1
        <4>2. dup' \in Nat /\ dup' >= dup
          BY <1>1
        <4>3. a1 + b1 + o <= 1 + dup'
          <5>1. CASE a1 + b1 <= a + b
            BY <1>1, <2>1, <2>2, <4>1, <4>2, <5>1
          <5>2. CASE a1 + b1 <= a + b + 1 /\ dup' = dup + 1
            BY <1>1, <2>1, <2>2, <4>1, <4>2, <5>2
          <5> QED BY <2>4, <5>1, <5>2
        <4> QED BY <3>1, <4>3
      <3>2. CASE ~ (k <= s)
        <4>1. a + b + o <= 0
          BY <2>3, <3>2
        <4>2. a1 + b1 + o <= 0
          BY <1>1, <2>1, <2>2, <2>4, <4>1
        <4> QED BY <3>2, <4>2
      <3> QED BY <3>1, <3>2
    <2> QED BY <2>5 DEF CopiesOf, a1, b1, o, s
  <1> QED BY <1>1, <1>2, <1>3

(* Two datagrams are the same when what they say is.                       *)
LEMMA SameDatagram ==
    ASSUME NEW to \in {"server", "client"}, NEW c \in UClients,
           NEW k \in 1 .. ULines,
           NEW d \in Datagrams
    PROVE  Dg(to, c, k) = d <=> (d.to = to /\ d.peer = c /\ d.line = k)
  BY DatagramsAre

(* The server answers one datagram.                                        *)
LEMMA UdpServes ==
    ASSUME UdpInv, NEW d \in Datagrams, UdpServe(d) PROVE UdpInv'
  <1> DEFINE e == Dg("client", d.peer, d.line)
  <1>1. d.to = "server" /\ net[d] > 0 /\ UNCHANGED <<upc, shown, loss, dup>>
    BY DEF UdpServe
  <1>2. e \in Datagrams /\ e # d /\ e.to = "client" /\ e.peer = d.peer
        /\ e.line = d.line
    BY <1>1, DatagramsAre
  <1>3. net' = [net EXCEPT ![d] = @ - 1, ![e] = @ + 1]
    BY DatagramsAre DEF UdpServe
  <1>4. net \in [Datagrams -> Nat]
    BY DEF UdpInv
  <1> HIDE DEF e
  <1>5. /\ net' \in [Datagrams -> Nat]
        /\ net'[d] = net[d] - 1 /\ net'[e] = net[e] + 1
        /\ \A x \in Datagrams : (x # d /\ x # e) => net'[x] = net[x]
    BY <1>1, <1>2, <1>3, <1>4
  <1>6. ASSUME NEW c \in UClients, NEW k \in 1 .. ULines
        PROVE  net'[Dg("server", c, k)] + net'[Dg("client", c, k)]
                 <= net[Dg("server", c, k)] + net[Dg("client", c, k)]
    <2> DEFINE x == Dg("server", c, k)
               y == Dg("client", c, k)
    <2>1. /\ x \in Datagrams /\ y \in Datagrams
          /\ (x = d <=> y = e) /\ x # e /\ y # d
      BY <1>1, <1>2, DatagramsAre, SameDatagram
    <2> HIDE DEF x, y
    <2>2. net'[x] + net'[y] <= net[x] + net[y]
      <3>1. CASE x = d
        BY <1>4, <1>5, <2>1, <3>1
      <3>2. CASE x # d
        BY <1>4, <1>5, <2>1, <3>2
      <3> QED BY <3>1, <3>2
    <2> QED BY <2>2 DEF x, y
  <1>7. loss' \in 0 .. MaxLoss /\ dup' \in 0 .. MaxDup /\ dup' = dup
    BY <1>1 DEF UdpInv
  <1> QED BY <1>1, <1>5, <1>6, <1>7, NetMoves

(* UdpLose and UdpDup: one datagram less or, counted in dup, one more.     *)
LEMMA UdpUnreliable ==
    ASSUME UdpInv, NEW d \in Datagrams, UdpLose(d) \/ UdpDup(d) PROVE UdpInv'
  <1>1. /\ net[d] > 0 /\ UNCHANGED <<upc, shown>>
        /\ \/ /\ net' = [net EXCEPT ![d] = @ - 1] /\ dup' = dup
              /\ loss < MaxLoss /\ loss' = loss + 1
           \/ /\ net' = [net EXCEPT ![d] = @ + 1] /\ dup' = dup + 1
              /\ dup < MaxDup /\ loss' = loss
    BY DEF UdpLose, UdpDup
  <1>2. net \in [Datagrams -> Nat] /\ loss \in 0 .. MaxLoss
        /\ dup \in 0 .. MaxDup
    BY DEF UdpInv
  <1>3. /\ net' \in [Datagrams -> Nat]
        /\ \A x \in Datagrams : x # d => net'[x] = net[x]
        /\ \/ net'[d] = net[d] - 1 /\ dup' = dup
           \/ net'[d] = net[d] + 1 /\ dup' = dup + 1
    BY <1>1, <1>2
  <1>4. /\ loss' \in 0 .. MaxLoss /\ dup' \in 0 .. MaxDup
        /\ (dup' = dup \/ dup' = dup + 1)
    BY <1>1, <1>2, UdpAssumption
  <1>5. ASSUME NEW c \in UClients, NEW k \in 1 .. ULines
        PROVE  LET a == net[Dg("server", c, k)]
                   b == net[Dg("client", c, k)]
                   a1 == net'[Dg("server", c, k)]
                   b1 == net'[Dg("client", c, k)]
               IN  \/ a1 + b1 <= a + b
                   \/ a1 + b1 <= a + b + 1 /\ dup' = dup + 1 /\ a + b > 0
    <2> DEFINE x == Dg("server", c, k)
               y == Dg("client", c, k)
    <2>1. x \in Datagrams /\ y \in Datagrams /\ x # y
      BY DatagramsAre
    <2> HIDE DEF x, y
    <2>2. /\ net[x] \in Nat /\ net[y] \in Nat /\ net'[x] \in Nat
          /\ net'[y] \in Nat
      BY <1>2, <1>3, <2>1
    <2>3. \/ net'[x] + net'[y] <= net[x] + net[y]
          \/ net'[x] + net'[y] <= net[x] + net[y] + 1 /\ dup' = dup + 1
             /\ net[x] + net[y] > 0
      <3>1. CASE d # x /\ d # y
        BY <1>3, <2>1, <2>2, <3>1
      <3>2. CASE d = x
        BY <1>1, <1>3, <2>1, <2>2, <3>2
      <3>3. CASE d = y
        BY <1>1, <1>3, <2>1, <2>2, <3>3
      <3> QED BY <3>1, <3>2, <3>3
    <2> QED BY <2>3 DEF x, y
  <1> QED BY <1>1, <1>3, <1>4, <1>5, NetMoves

(* One client moves, and with it only the datagrams that are its own.      *)
LEMMA OneClient ==
    ASSUME UdpInv, NEW c \in UClients, UNCHANGED <<loss, dup>>,
           upc' \in [UClients -> {"type", "recv", "quit"}],
           shown' \in [UClients -> Seq(1 .. ULines)],
           net' \in [Datagrams -> Nat],
           \A e \in UClients \ {c} : upc'[e] = upc[e] /\ shown'[e] = shown[e],
           \A d \in Datagrams : d.peer # c => net'[d] = net[d],
           SentBy(shown'[c], upc'[c]) <= ULines,
           ShownOf(shown'[c], dup),
           \A k \in 1 .. ULines :
              CopiesOf(net'[Dg("server", c, k)], net'[Dg("client", c, k)],
                       shown'[c], k, upc'[c], dup)
    PROVE  UdpInv'
  <1> SUFFICES ASSUME NEW e \in UClients
               PROVE  /\ SentBy(shown'[e], upc'[e]) <= ULines
                      /\ ShownOf(shown'[e], dup)
                      /\ \A k \in 1 .. ULines :
                            CopiesOf(net'[Dg("server", e, k)],
                                     net'[Dg("client", e, k)],
                                     shown'[e], k, upc'[e], dup)
    BY DEF UdpInv
  <1>1. CASE e = c
    BY <1>1
  <1>2. CASE e # c
    <2>1. upc'[e] = upc[e] /\ shown'[e] = shown[e]
      BY <1>2
    <2>2. \A k \in 1 .. ULines :
             /\ net'[Dg("server", e, k)] = net[Dg("server", e, k)]
             /\ net'[Dg("client", e, k)] = net[Dg("client", e, k)]
      <3> TAKE k \in 1 .. ULines
      <3>1. /\ Dg("server", e, k) \in Datagrams /\ Dg("server", e, k).peer = e
            /\ Dg("client", e, k) \in Datagrams /\ Dg("client", e, k).peer = e
        BY DatagramsAre
      <3> QED BY <1>2, <3>1
    <2> QED BY <2>1, <2>2 DEF UdpInv
  <1> QED BY <1>1, <1>2

(* A client sends a line.                                                  *)
LEMMA UdpSends ==
    ASSUME UdpInv, NEW c \in UClients, UdpSend(c) PROVE UdpInv'
  <1> DEFINE q == shown[c]
             n == Len(q) + 1
  <1>1. /\ upc \in [UClients -> {"type", "recv", "quit"}]
        /\ net \in [Datagrams -> Nat]
        /\ shown \in [UClients -> Seq(1 .. ULines)] /\ dup \in Nat
        /\ SentBy(q, upc[c]) <= ULines /\ ShownOf(q, dup)
        /\ \A k \in 1 .. ULines :
              CopiesOf(net[Dg("server", c, k)], net[Dg("client", c, k)],
                       q, k, upc[c], dup)
    BY UdpAssumption DEF UdpInv
  <1>2. upc[c] = "type" /\ UNCHANGED <<shown, loss, dup>>
        /\ q \in Seq(1 .. ULines)
    BY <1>1 DEF UdpSend
  <1>3. Len(q) \in Nat /\ n \in Nat \ {0}
    BY <1>2
  <1>4. CASE n <= ULines
    <2> DEFINE d == Dg("server", c, n)
    <2>0. d \in Datagrams /\ d.peer = c
      BY <1>3, <1>4, DatagramsAre, UdpAssumption
    <2>1. net' = [net EXCEPT ![d] = @ + 1] /\ upc' = [upc EXCEPT ![c] = "recv"]
      BY <1>4 DEF UdpSend, Dg
    <2>2. /\ upc' \in [UClients -> {"type", "recv", "quit"}]
          /\ upc'[c] = "recv"
          /\ \A e \in UClients \ {c} : upc'[e] = upc[e]
      BY <1>1, <2>1
    <2> HIDE DEF d
    <2>3. /\ net' \in [Datagrams -> Nat] /\ net'[d] = net[d] + 1
          /\ \A x \in Datagrams : x # d => net'[x] = net[x]
      BY <1>1, <2>0, <2>1
    <2>4. SentBy(q, "recv") = n /\ SentBy(q, "type") = Len(q)
      BY DEF SentBy
    <2>5. ASSUME NEW k \in 1 .. ULines
          PROVE  CopiesOf(net'[Dg("server", c, k)], net'[Dg("client", c, k)],
                          q, k, "recv", dup)
      <3> DEFINE x == Dg("server", c, k)
                 y == Dg("client", c, k)
                 o == Occurs(q, k)
      <3>1. /\ x \in Datagrams /\ y \in Datagrams /\ y # d /\ (x = d <=> k = n)
        BY <1>3, <1>4, DatagramsAre, UdpAssumption DEF d
      <3>2. o \in Nat
        BY <1>2, OccursType
      <3>3. net[x] + net[y] + o <= IF k <= Len(q) THEN 1 + dup ELSE 0
        BY <1>1, <1>2, <2>4 DEF CopiesOf
      <3> HIDE DEF x, y, o, q
      <3>4. net'[x] + net'[y] + o <= IF k <= n THEN 1 + dup ELSE 0
        <4>1. net[x] \in Nat /\ net[y] \in Nat /\ net'[y] = net[y]
          BY <1>1, <2>3, <3>1
        <4>2. CASE k = n
          <5>1. net'[x] = net[x] + 1
            BY <2>3, <3>1, <4>2
          <5>2. net[x] + net[y] + o <= 0
            BY <1>3, <3>3, <4>2
          <5> QED BY <1>1, <1>3, <3>2, <4>1, <4>2, <5>1, <5>2
        <4>3. CASE k # n
          <5>1. net'[x] = net[x]
            BY <2>3, <3>1, <4>3
          <5>2. k <= n <=> k <= Len(q)
            BY <1>3, <4>3
          <5> QED BY <3>3, <4>1, <5>1, <5>2
        <4> QED BY <4>2, <4>3
      <3> QED BY <2>4, <3>4 DEF CopiesOf, x, y, o
    <2>6. \A x \in Datagrams : x.peer # c => net'[x] = net[x]
      BY <2>0, <2>3
    <2>7. shown' = shown /\ shown'[c] = q
      BY <1>2
    <2> HIDE DEF q
    <2> QED BY <1>1, <1>2, <1>4, <2>2, <2>3, <2>4, <2>5, <2>6, <2>7, OneClient
  <1>5. CASE ~ (n <= ULines)
    <2>1. UNCHANGED net /\ upc' = [upc EXCEPT ![c] = "quit"]
      BY <1>5 DEF UdpSend
    <2>2. /\ upc' \in [UClients -> {"type", "recv", "quit"}]
          /\ upc'[c] = "quit"
          /\ \A e \in UClients \ {c} : upc'[e] = upc[e]
      BY <1>1, <2>1
    <2>3. SentBy(q, "quit") = SentBy(q, "type")
      BY DEF SentBy
    <2>4. \A k \in 1 .. ULines :
             CopiesOf(net'[Dg("server", c, k)], net'[Dg("client", c, k)],
                      q, k, "quit", dup)
      BY <1>1, <1>2, <2>1, <2>3 DEF CopiesOf
    <2>7. shown' = shown /\ shown'[c] = q
      BY <1>2
    <2> HIDE DEF q
    <2> QED BY <1>1, <1>2, <2>1, <2>2, <2>3, <2>4, <2>7, OneClient
  <1> QED BY <1>4, <1>5

(* What is in a queue occurs there.                                        *)
LEMMA OccursSome ==
    ASSUME NEW S, NEW q \in Seq(S), NEW j \in 1 .. Len(q)
    PROVE  Occurs(q, q[j]) >= 1
  <1>1. IsFiniteSet(Places(q, q[j])) /\ j \in Places(q, q[j])
    BY OccursType DEF Places
  <1>2. Cardinality(Places(q, q[j])) # 0
    BY <1>1, FS_EmptySet
  <1> QED BY <1>2, OccursType DEF Occurs

(* A client receives an answer.                                            *)
LEMMA UdpReceives ==
    ASSUME UdpInv, NEW d \in Datagrams, UdpRecv(d) PROVE UdpInv'
  <1> DEFINE c == d.peer
             n == d.line
             q == shown[c]
             r == Append(q, n)
  <1>0. /\ d.to = "client" /\ net[d] > 0 /\ upc[c] = "recv"
        /\ net' = [net EXCEPT ![d] = @ - 1]
        /\ shown' = [shown EXCEPT ![c] = Append(@, n)]
        /\ upc' = [upc EXCEPT ![c] = "type"] /\ UNCHANGED <<loss, dup>>
    BY DEF UdpRecv
  <1>1. c \in UClients /\ n \in 1 .. ULines /\ d = Dg("client", c, n)
    BY <1>0, DatagramsAre
  <1> HIDE DEF c, n
  <1>2. /\ upc \in [UClients -> {"type", "recv", "quit"}]
        /\ net \in [Datagrams -> Nat]
        /\ shown \in [UClients -> Seq(1 .. ULines)] /\ dup \in Nat
        /\ SentBy(q, "recv") <= ULines /\ ShownOf(q, dup)
        /\ \A k \in 1 .. ULines :
              CopiesOf(net[Dg("server", c, k)], net[Dg("client", c, k)],
                       q, k, "recv", dup)
    BY <1>0, <1>1, UdpAssumption DEF UdpInv
  <1>3. q \in Seq(1 .. ULines) /\ Len(q) \in Nat
    BY <1>1, <1>2
  <1> HIDE DEF q
  <1>4. /\ r \in Seq(1 .. ULines) /\ Len(r) = Len(q) + 1 /\ r[Len(q) + 1] = n
        /\ \A j \in 1 .. Len(q) : r[j] = q[j]
    BY <1>1, <1>3
  <1>5. /\ upc' \in [UClients -> {"type", "recv", "quit"}] /\ upc'[c] = "type"
        /\ \A e \in UClients \ {c} : upc'[e] = upc[e]
    BY <1>0, <1>1, <1>2
  <1>6. /\ shown' \in [UClients -> Seq(1 .. ULines)] /\ shown'[c] = r
        /\ \A e \in UClients \ {c} : shown'[e] = shown[e]
    BY <1>0, <1>1, <1>2, <1>4 DEF q
  <1>7. /\ net' \in [Datagrams -> Nat] /\ net'[d] = net[d] - 1
        /\ \A x \in Datagrams : x # d => net'[x] = net[x]
    BY <1>0, <1>2
  <1>8. SentBy(q, "recv") = Len(q) + 1 /\ SentBy(r, "type") = Len(q) + 1
    BY <1>4 DEF SentBy
  <1>9. ASSUME NEW k \in 1 .. ULines
        PROVE  /\ Occurs(q, k) \in Nat
               /\ net[Dg("server", c, k)] \in Nat
               /\ net[Dg("client", c, k)] \in Nat
               /\ net[Dg("server", c, k)] + net[Dg("client", c, k)] + Occurs(q, k)
                    <= IF k <= Len(q) + 1 THEN 1 + dup ELSE 0
    <2>1. Occurs(q, k) \in Nat
      BY <1>3, OccursType
    <2>2. net[Dg("server", c, k)] \in Nat /\ net[Dg("client", c, k)] \in Nat
      BY <1>1, <1>2, DatagramsAre
    <2> QED BY <1>2, <1>8, <2>1, <2>2 DEF CopiesOf
  <1> HIDE DEF r
  <1>10. n <= Len(q) + 1
    <2> SUFFICES ASSUME ~ (n <= Len(q) + 1) PROVE FALSE
      OBVIOUS
    <2>1. net[Dg("server", c, n)] + net[d] + Occurs(q, n) <= 0
      BY <1>1, <1>9
    <2> QED BY <1>0, <1>1, <1>9, <2>1
  <1>11. ASSUME dup = 0 PROVE n = Len(q) + 1
    <2> SUFFICES ASSUME n # Len(q) + 1 PROVE FALSE
      OBVIOUS
    <2>1. n \in 1 .. Len(q)
      BY <1>1, <1>3, <1>10, UdpAssumption
    <2>2. q[n] = n
      BY <1>2, <1>11, <2>1 DEF ShownOf
    <2>3. Occurs(q, n) >= 1
      BY <1>3, <2>1, <2>2, OccursSome
    <2>4. net[Dg("server", c, n)] + net[d] + Occurs(q, n) <= 1
      BY <1>1, <1>9, <1>10, <1>11
    <2> QED BY <1>0, <1>1, <1>9, <2>3, <2>4
  <1>12. ShownOf(r, dup)
    <2> SUFFICES ASSUME NEW j \in 1 .. Len(r)
                 PROVE  r[j] <= j /\ (dup = 0 => r[j] = j)
      BY DEF ShownOf
    <2>1. CASE j = Len(q) + 1
      BY <1>4, <1>10, <1>11, <2>1
    <2>2. CASE j # Len(q) + 1
      <3>1. j \in 1 .. Len(q)
        BY <1>3, <1>4, <2>2
      <3> QED BY <1>2, <1>4, <3>1 DEF ShownOf
    <2> QED BY <2>1, <2>2
  <1>13. ASSUME NEW k \in 1 .. ULines
         PROVE  CopiesOf(net'[Dg("server", c, k)], net'[Dg("client", c, k)],
                         r, k, "type", dup)
    <2> DEFINE x == Dg("server", c, k)
               y == Dg("client", c, k)
               o == Occurs(q, k)
               o1 == Occurs(r, k)
    <2>1. x \in Datagrams /\ y \in Datagrams /\ x # d /\ (y = d <=> k = n)
      BY <1>0, <1>1, DatagramsAre
    <2>2. o1 = IF n = k THEN o + 1 ELSE o
      BY <1>1, <1>3, OccursAppend DEF r
    <2>3. /\ o \in Nat /\ net[x] \in Nat /\ net[y] \in Nat
          /\ net[x] + net[y] + o <= IF k <= Len(q) + 1 THEN 1 + dup ELSE 0
      BY <1>9
    <2> HIDE DEF x, y, o, o1
    <2>4. net'[x] + net'[y] + o1 = net[x] + net[y] + o
      <3>1. net'[x] = net[x]
        BY <1>7, <2>1
      <3>2. CASE k = n
        BY <1>7, <2>1, <2>2, <2>3, <3>1, <3>2
      <3>3. CASE k # n
        BY <1>7, <2>1, <2>2, <2>3, <3>1, <3>3
      <3> QED BY <3>2, <3>3
    <2> QED BY <1>8, <2>3, <2>4 DEF CopiesOf, x, y, o1
  <1>14. \A x \in Datagrams : x.peer # c => net'[x] = net[x]
    BY <1>7 DEF c
  <1>15. /\ SentBy(shown'[c], upc'[c]) <= ULines /\ ShownOf(shown'[c], dup)
         /\ \A k \in 1 .. ULines :
              CopiesOf(net'[Dg("server", c, k)], net'[Dg("client", c, k)],
                       shown'[c], k, upc'[c], dup)
    BY <1>2, <1>5, <1>6, <1>8, <1>12, <1>13
  <1>16. UNCHANGED <<loss, dup>>
    BY <1>0
  <1> QED BY <1>1, <1>5, <1>6, <1>7, <1>14, <1>15, <1>16, OneClient

(* Every step keeps UdpInv.                                                *)
LEMMA UdpStep == UdpInv /\ [UdpNext]_udpVars => UdpInv'
  <1> SUFFICES ASSUME UdpInv, [UdpNext]_udpVars PROVE UdpInv'
    OBVIOUS
  <1>1. CASE \E c \in UClients : UdpSend(c)
    BY <1>1, UdpSends
  <1>2. CASE \E d \in Datagrams : UdpRecv(d)
    BY <1>2, UdpReceives
  <1>3. CASE \E d \in Datagrams : UdpServe(d)
    BY <1>3, UdpServes
  <1>4. CASE \E d \in Datagrams : UdpLose(d) \/ UdpDup(d)
    BY <1>4, UdpUnreliable
  <1>5. CASE UNCHANGED udpVars
    BY <1>5 DEF UdpInv, udpVars
  <1> QED BY <1>1, <1>2, <1>3, <1>4, <1>5 DEF UdpNext, UdpProgram

(* What is in a sequence is of its elements' set.                          *)
LEMMA ItemOf ==
    ASSUME NEW S, NEW q \in Seq(S), NEW j \in 1 .. Len(q) PROVE q[j] \in S
  OBVIOUS

(* uecho-client.c, for any number of clients and lines and any number of   *)
(* datagrams lost, duplicated and reordered: what it prints is one of the  *)
(* lines it has sent, at most once more per duplicate, and while nothing   *)
(* was duplicated the very line it sent last.                              *)
THEOREM UdpClientsMatch == UdpSpec => []UdpEchoMatches
  <1>1. UdpInv => UdpEchoMatches
    <2> SUFFICES ASSUME UdpInv PROVE UdpEchoMatches
      OBVIOUS
    <2>0. /\ net \in [Datagrams -> Nat] /\ dup \in 0 .. MaxDup
          /\ shown \in [UClients -> Seq(1 .. ULines)]
      BY DEF UdpInv
    <2>1. ASSUME NEW c \in UClients, NEW k \in 1 .. ULines
          PROVE  /\ net[Dg("server", c, k)] <= 1 + dup
                 /\ net[Dg("client", c, k)] <= 1 + dup
                 /\ Occurs(shown[c], k) <= 1 + dup
      <3> DEFINE o == Occurs(shown[c], k)
      <3>1. net[Dg("server", c, k)] \in Nat /\ net[Dg("client", c, k)] \in Nat
        BY <2>0, DatagramsAre
      <3>2. o \in Nat
        BY <2>0, OccursType
      <3>3. net[Dg("server", c, k)] + net[Dg("client", c, k)] + o
              <= IF k <= SentBy(shown[c], upc[c]) THEN 1 + dup ELSE 0
        BY DEF UdpInv, CopiesOf
      <3> HIDE DEF o
      <3>4. net[Dg("server", c, k)] + net[Dg("client", c, k)] + o <= 1 + dup
        <4>1. CASE k <= SentBy(shown[c], upc[c])
          BY <3>3, <4>1
        <4>2. CASE ~ (k <= SentBy(shown[c], upc[c]))
          BY <2>0, <3>1, <3>2, <3>3, <4>2, UdpAssumption
        <4> QED BY <4>1, <4>2
      <3>5. /\ net[Dg("server", c, k)] <= 1 + dup
            /\ net[Dg("client", c, k)] <= 1 + dup /\ o <= 1 + dup
        BY <2>0, <3>1, <3>2, <3>4, UdpAssumption
      <3> QED BY <3>5 DEF o
    <2>2. ASSUME NEW d \in Datagrams PROVE net[d] \in 0 .. 1 + MaxDup
      <3>1. net[d] <= 1 + dup
        <4>1. d.to \in {"server", "client"} /\ d.peer \in UClients
              /\ d.line \in 1 .. ULines
              /\ d = Dg(d.to, d.peer, d.line)
          BY DatagramsAre
        <4>2. CASE d.to = "server"
          BY <2>1, <4>1, <4>2
        <4>3. CASE d.to = "client"
          BY <2>1, <4>1, <4>3
        <4> QED BY <4>1, <4>2, <4>3
      <3>2. net[d] \in Nat
        BY <2>0
      <3> QED BY <2>0, <3>1, <3>2, UdpAssumption
    <2>3. UdpTypeOK
      BY <2>0, <2>2 DEF UdpTypeOK, UdpInv
    <2>4. ASSUME NEW c \in UClients, NEW k \in 1 .. Len(shown[c])
          PROVE  /\ shown[c][k] <= k /\ (dup = 0 => shown[c][k] = k)
                 /\ Cardinality({j \in 1 .. Len(shown[c]) :
                                    shown[c][j] = shown[c][k]}) <= 1 + dup
      <3>1. shown[c][k] <= k /\ (dup = 0 => shown[c][k] = k)
        BY DEF UdpInv, ShownOf
      <3>2. shown[c][k] \in 1 .. ULines
        <4>1. shown[c] \in Seq(1 .. ULines)
          BY <2>0
        <4> QED BY <4>1, ItemOf
      <3>3. Occurs(shown[c], shown[c][k]) <= 1 + dup
        BY <2>1, <3>2
      <3> QED BY <3>1, <3>3 DEF Occurs, Places
    <2> QED BY <2>3, <2>4 DEF UdpEchoMatches
  <1> QED BY <1>1, UdpStarts, UdpStep, PTL DEF UdpSpec
-----------------------------------------------------------------------------
(* nl_get_ipaddr.c                                                         *)

(* The lines of address k, and those of the first n addresses.             *)
LinesOf(ad, k) ==
    << <<"IFA_ADDRESS", k>> >> \o
    IF ad[k] THEN << <<"IFA_BROADCAST", k>> >> ELSE <<>>
Wanted(ad, n) == FlattenSeq([k \in 1 .. n |-> LinesOf(ad, k)])

(* The concatenations of the first elements of f.                          *)
Joins(g, f, n) ==
    g = [k \in 1 .. n |-> IF k = 1 THEN f[k] ELSE g[k - 1] \o f[k]]
Joined(g, f, n, S) == g \in [1 .. n -> Seq(S)] /\ Joins(g, f, n)

(* One element more.                                                       *)
LEMMA JoinedMore ==
    ASSUME NEW n \in Nat, NEW f, NEW g, Joins(g, f, n), NEW m \in Nat,
           m + 1 <= n
    PROVE  g[m + 1] = IF m = 0 THEN f[1] ELSE g[m] \o f[m + 1]
  <1>1. \A k \in 1 .. n : g[k] = IF k = 1 THEN f[k] ELSE g[k - 1] \o f[k]
    BY Zenon DEF Joins
  <1>2. PICK j \in 1 .. n : j = m + 1 /\ (j = 1 <=> m = 0) /\ j - 1 = m
    OBVIOUS
  <1>3. g[j] = IF j = 1 THEN f[j] ELSE g[j - 1] \o f[j]
    BY <1>1, <1>2, Zenon
  <1>4. CASE m = 0
    BY <1>2, <1>3, <1>4
  <1>5. CASE m # 0
    <2>1. g[j] = g[j - 1] \o f[j]
      BY <1>2, <1>3, <1>5
    <2> QED BY <1>2, <1>5, <2>1, Zenon
  <1> QED BY <1>4, <1>5

(* There are concatenations of every length.                               *)
LEMMA JoinedExists ==
    ASSUME NEW S, NEW n \in Nat, NEW f, \A k \in 1 .. n : f[k] \in Seq(S)
    PROVE  \E g : Joined(g, f, n, S)
  <1> DEFINE Z == {m \in Nat : m <= n => \E g : Joined(g, f, m, S)}
  <1>1. 0 \in Z
    <2>1. Joined([k \in 1 .. 0 |-> <<>>], f, 0, S)
      BY DEF Joined, Joins
    <2> QED BY <2>1
  <1>2. ASSUME NEW m \in Nat, m \in Z PROVE m + 1 \in Z
    <2> SUFFICES ASSUME m + 1 <= n PROVE \E g : Joined(g, f, m + 1, S)
      OBVIOUS
    <2>1. PICK g : Joined(g, f, m, S)
      BY <1>2
    <2> DEFINE new == IF m = 0 THEN f[1] ELSE g[m] \o f[m + 1]
               h == [k \in 1 .. m + 1 |-> IF k = m + 1 THEN new ELSE g[k]]
    <2>2. f[m + 1] \in Seq(S) /\ \A k \in 1 .. m : g[k] \in Seq(S)
      BY <2>1 DEF Joined
    <2>3. new \in Seq(S)
      BY <2>2
    <2>4. h \in [1 .. m + 1 -> Seq(S)]
      BY <2>2, <2>3
    <2>5. \A k \in 1 .. m : g[k] = IF k = 1 THEN f[k] ELSE g[k - 1] \o f[k]
      BY <2>1 DEF Joined, Joins
    <2>6. \A k \in 1 .. m + 1 : h[k] = IF k = 1 THEN f[k] ELSE h[k - 1] \o f[k]
      <3> SUFFICES ASSUME NEW k \in 1 .. m + 1
                   PROVE  h[k] = IF k = 1 THEN f[k] ELSE h[k - 1] \o f[k]
        OBVIOUS
      <3>1. CASE k = m + 1 /\ m = 0
        BY <3>1
      <3>2. CASE k = m + 1 /\ m # 0
        <4>2. new = g[m] \o f[m + 1]
          BY <3>2
        <4> HIDE DEF new
        <4>1. h[k] = new /\ h[m] = g[m] /\ k - 1 = m /\ k # 1
          BY <3>2
        <4> HIDE DEF h
        <4>3. h[k] = h[k - 1] \o f[k]
          BY <3>2, <4>1, <4>2, Zenon
        <4> QED BY <4>1, <4>3
      <3>3. CASE k # m + 1
        <4>1. k \in 1 .. m /\ h[k] = g[k]
          BY <3>3
        <4>2. k # 1 => h[k - 1] = g[k - 1]
          BY <4>1
        <4> QED BY <2>5, <4>1, <4>2
      <3> QED BY <3>1, <3>2, <3>3
    <2> HIDE DEF h
    <2>7. h = [k \in 1 .. m + 1 |-> IF k = 1 THEN f[k] ELSE h[k - 1] \o f[k]]
      BY <2>4, <2>6
    <2> QED BY <2>4, <2>7 DEF Joined, Joins
  <1> HIDE DEF Z
  <1>3. n \in Z
    BY <1>1, <1>2, SetInduction
  <1> QED BY <1>3 DEF Z

(* FlattenSeq of a sequence that is not empty is the last of them.         *)
LEMMA FlattenIsJoined ==
    ASSUME NEW S, NEW n \in Nat, n # 0, NEW f, f \in [1 .. n -> Seq(S)]
    PROVE  \E g : Joined(g, f, n, S) /\ FlattenSeq(f) = g[n]
  <1> DEFINE h == CHOOSE g : g = [k \in 1 .. n |-> IF k = 1 THEN f[k]
                                                  ELSE g[k - 1] \o f[k]]
  <1>1. PICK g : Joined(g, f, n, S)
    BY JoinedExists
  <1>2. g = [k \in 1 .. n |-> IF k = 1 THEN f[k] ELSE g[k - 1] \o f[k]]
    BY <1>1 DEF Joined, Joins
  <1>3. h = [k \in 1 .. n |-> IF k = 1 THEN f[k] ELSE h[k - 1] \o f[k]]
    BY <1>2
  <1>4. Len(f) = n
    OBVIOUS
  <1>5. FlattenSeq(f) = h[n]
    BY <1>4 DEF FlattenSeq
  <1> HIDE DEF h
  <1>8. Joins(h, f, n)
    BY <1>3 DEF Joins
  <1>6. \A k \in 1 .. n : h[k] \in Seq(S)
    <2> DEFINE Z == {k \in Nat : k \in 1 .. n => h[k] \in Seq(S)}
    <2>1. 0 \in Z
      OBVIOUS
    <2>2. ASSUME NEW k \in Nat, k \in Z PROVE k + 1 \in Z
      <3> SUFFICES ASSUME k + 1 \in 1 .. n PROVE h[k + 1] \in Seq(S)
        OBVIOUS
      <3>1. f[k + 1] \in Seq(S)
        OBVIOUS
      <3>2. h[k + 1] = IF k = 0 THEN f[1] ELSE h[k] \o f[k + 1]
        <4>1. k + 1 <= n
          OBVIOUS
        <4> QED BY <1>8, <4>1, JoinedMore, Zenon
      <3>3. k # 0 => h[k] \in Seq(S)
        BY <2>2
      <3> QED BY <3>1, <3>2, <3>3
    <2> HIDE DEF Z
    <2>3. \A k \in Nat : k \in Z
      BY <2>1, <2>2, SetInduction
    <2> QED BY <2>3 DEF Z
  <1>7. h \in [1 .. n -> Seq(S)]
    BY <1>3, <1>6
  <1> QED BY <1>8, <1>5, <1>7 DEF Joined

(* Concatenations agree where the elements do.                             *)
LEMMA JoinedUnique ==
    ASSUME NEW S, NEW n \in Nat, NEW m \in Nat, n <= m, NEW f, NEW e,
           \A k \in 1 .. n : f[k] = e[k],
           NEW g, Joined(g, f, n, S), NEW h, Joined(h, e, m, S)
    PROVE  n # 0 => g[n] = h[n]
  <1> DEFINE Z == {k \in Nat : k \in 1 .. n => g[k] = h[k]}
  <1>1. 0 \in Z
    OBVIOUS
  <1>2. ASSUME NEW k \in Nat, k \in Z PROVE k + 1 \in Z
    <2> SUFFICES ASSUME k + 1 \in 1 .. n PROVE g[k + 1] = h[k + 1]
      OBVIOUS
    <2>0. k + 1 <= n /\ k + 1 <= m /\ Joins(g, f, n) /\ Joins(h, e, m)
      BY DEF Joined
    <2>1. g[k + 1] = IF k = 0 THEN f[1] ELSE g[k] \o f[k + 1]
      BY <2>0, JoinedMore
    <2>2. h[k + 1] = IF k = 0 THEN e[1] ELSE h[k] \o e[k + 1]
      BY <2>0, JoinedMore
    <2>3. k # 0 => g[k] = h[k]
      BY <1>2
    <2>4. f[k + 1] = e[k + 1] /\ f[1] = e[1]
      OBVIOUS
    <2> QED BY <2>1, <2>2, <2>3, <2>4
  <1> HIDE DEF Z
  <1>3. n \in Z
    BY <1>1, <1>2, SetInduction
  <1> QED BY <1>3 DEF Z

(* The lines of an address are lines.                                      *)
LEMMA LinesType ==
    ASSUME NEW ad, NEW k \in 1 .. MaxAddrs PROVE LinesOf(ad, k) \in Seq(Line)
  <1>1. <<"IFA_ADDRESS", k>> \in Line /\ <<"IFA_BROADCAST", k>> \in Line
    BY DEF Line
  <1>2. << <<"IFA_ADDRESS", k>> >> \in Seq(Line)
        /\ << <<"IFA_BROADCAST", k>> >> \in Seq(Line)
    BY <1>1
  <1> QED BY <1>2 DEF LinesOf

(* Each address adds its lines to those wanted.                            *)
LEMMA WantedStep ==
    ASSUME NEW ad, NEW n \in Nat, n + 1 <= MaxAddrs
    PROVE  /\ Wanted(ad, 0) = <<>>
           /\ Wanted(ad, n) \in Seq(Line)
           /\ Wanted(ad, n + 1) = Wanted(ad, n) \o LinesOf(ad, n + 1)
  <1> DEFINE f == [k \in 1 .. n |-> LinesOf(ad, k)]
             e == [k \in 1 .. n + 1 |-> LinesOf(ad, k)]
  <1>0. MaxAddrs \in Nat
    BY NetlinkAssumption
  <1>1. /\ f \in [1 .. n -> Seq(Line)] /\ e \in [1 .. n + 1 -> Seq(Line)]
        /\ e[n + 1] = LinesOf(ad, n + 1) /\ LinesOf(ad, n + 1) \in Seq(Line)
        /\ \A k \in 1 .. n : f[k] = e[k]
    BY <1>0, LinesType
  <1>2. Wanted(ad, n) = FlattenSeq(f) /\ Wanted(ad, n + 1) = FlattenSeq(e)
    BY DEF Wanted
  <1>3. Wanted(ad, 0) = <<>>
    <2>1. [k \in 1 .. 0 |-> LinesOf(ad, k)] = <<>>
      OBVIOUS
    <2> QED BY <2>1 DEF Wanted, FlattenSeq
  <1> HIDE DEF f, e
  <1>4. PICK h : Joined(h, e, n + 1, Line) /\ FlattenSeq(e) = h[n + 1]
    BY <1>1, FlattenIsJoined
  <1>5. h[n + 1] = IF n = 0 THEN e[1] ELSE h[n] \o e[n + 1]
    <2>1. n + 1 \in Nat /\ n + 1 <= n + 1 /\ Joins(h, e, n + 1)
      BY <1>4 DEF Joined
    <2> QED BY <2>1, JoinedMore, Zenon
  <1>6. CASE n = 0
    <2>1. Wanted(ad, n) = <<>>
      BY <1>3, <1>6
    <2>2. Wanted(ad, n + 1) = LinesOf(ad, n + 1)
      BY <1>1, <1>2, <1>4, <1>5, <1>6
    <2> QED BY <1>1, <1>3, <2>1, <2>2
  <1>7. CASE n # 0
    <2>1. PICK g : Joined(g, f, n, Line) /\ FlattenSeq(f) = g[n]
      BY <1>1, <1>7, FlattenIsJoined
    <2>2. g[n] = h[n]
      <3>1. n # 0 => g[n] = h[n]
        <4>1. PICK m \in Nat : m = n + 1 /\ n <= m
          OBVIOUS
        <4>2. Joined(h, e, m, Line) /\ Joined(g, f, n, Line)
          BY <1>4, <2>1, <4>1
        <4>3. \A k \in 1 .. n : f[k] = e[k]
          BY <1>1
        <4> QED BY <1>7, <4>1, <4>2, <4>3, JoinedUnique
      <3> QED BY <1>7, <3>1
    <2>3. g[n] \in Seq(Line)
      BY <1>7, <2>1 DEF Joined
    <2>4. Wanted(ad, n + 1) = g[n] \o e[n + 1]
      BY <1>2, <1>4, <1>5, <1>7, <2>2
    <2> QED BY <1>1, <1>2, <1>3, <2>1, <2>3, <2>4
  <1> QED BY <1>6, <1>7

(* A prefix stays one when the sequence grows.                             *)
LEMMA PrefixGrows ==
    ASSUME NEW S, NEW p \in Seq(S), NEW q \in Seq(S), NEW r \in Seq(S), NEW t,
           IsPrefix(p, q), t = q \o r
    PROVE  IsPrefix(p, t)
  <1>1. Len(p) <= Len(q) /\ SubSeq(p, 1, Len(p)) = SubSeq(q, 1, Len(p))
    BY DEF IsPrefix
  <1>2. t \in Seq(S) /\ Len(t) = Len(q) + Len(r)
        /\ \A k \in 1 .. Len(q) : t[k] = q[k]
    OBVIOUS
  <1>3. SubSeq(t, 1, Len(p)) = SubSeq(q, 1, Len(p))
    BY <1>1, <1>2
  <1> QED BY <1>1, <1>2, <1>3 DEF IsPrefix

(* Nothing but whole addresses is wanted: the lines of the first m are a   *)
(* prefix of those of the first n.                                         *)
LEMMA WantedPrefix ==
    ASSUME NEW ad, NEW m \in Nat, NEW n \in Nat, m <= n, n <= MaxAddrs
    PROVE  /\ Wanted(ad, m) \in Seq(Line)
           /\ IsPrefix(Wanted(ad, m), Wanted(ad, n))
  <1>0. MaxAddrs \in Nat
    BY NetlinkAssumption
  <1>1. Wanted(ad, 0) = <<>>
    <2>1. [k \in 1 .. 0 |-> LinesOf(ad, k)] = <<>>
      OBVIOUS
    <2> QED BY <2>1 DEF Wanted, FlattenSeq
  <1> DEFINE Y == {k \in Nat : k <= MaxAddrs => Wanted(ad, k) \in Seq(Line)}
             Z == {k \in Nat : m <= k /\ k <= n =>
                                 IsPrefix(Wanted(ad, m), Wanted(ad, k))}
  <1>2. \A k \in Nat : k \in Y
    <2>1. 0 \in Y
      <3>1. <<>> \in Seq(Line)
        OBVIOUS
      <3>2. Wanted(ad, 0) \in Seq(Line)
        BY <1>1, <3>1, Zenon
      <3> QED BY <3>2
    <2>2. ASSUME NEW k \in Nat, k \in Y PROVE k + 1 \in Y
      <3> SUFFICES ASSUME k + 1 <= MaxAddrs
                   PROVE  Wanted(ad, k + 1) \in Seq(Line)
        OBVIOUS
      <3>1. LinesOf(ad, k + 1) \in Seq(Line)
        BY <1>0, LinesType
      <3>2. Wanted(ad, k) \in Seq(Line)
        BY <1>0, <2>2
      <3>3. Wanted(ad, k + 1) = Wanted(ad, k) \o LinesOf(ad, k + 1)
        BY WantedStep
      <3>4. Wanted(ad, k) \o LinesOf(ad, k + 1) \in Seq(Line)
        BY <3>1, <3>2
      <3> QED BY <3>3, <3>4, Zenon
    <2> HIDE DEF Y
    <2> QED BY <2>1, <2>2, SetInduction
  <1>3. ASSUME NEW k \in Nat, k <= MaxAddrs PROVE Wanted(ad, k) \in Seq(Line)
    BY <1>2, <1>3
  <1>4. \A k \in Nat : k \in Z
    <2>1. ASSUME NEW k \in Nat, k = m, k <= n
          PROVE  IsPrefix(Wanted(ad, m), Wanted(ad, k))
      BY <1>0, <1>3, <2>1 DEF IsPrefix
    <2>2. 0 \in Z
      BY <2>1
    <2>3. ASSUME NEW k \in Nat, k \in Z PROVE k + 1 \in Z
      <3> SUFFICES ASSUME m <= k + 1, k + 1 <= n
                   PROVE  IsPrefix(Wanted(ad, m), Wanted(ad, k + 1))
        OBVIOUS
      <3>1. CASE m = k + 1
        BY <2>1, <3>1
      <3>2. CASE m <= k
        <4>1. IsPrefix(Wanted(ad, m), Wanted(ad, k))
          BY <1>0, <2>3, <3>2
        <4>2. /\ Wanted(ad, m) \in Seq(Line) /\ Wanted(ad, k) \in Seq(Line)
              /\ LinesOf(ad, k + 1) \in Seq(Line)
          BY <1>0, <1>3, LinesType
        <4>3. Wanted(ad, k + 1) = Wanted(ad, k) \o LinesOf(ad, k + 1)
          BY <1>0, WantedStep
        <4> QED BY <4>1, <4>2, <4>3, PrefixGrows
      <3> QED BY <3>1, <3>2
    <2> HIDE DEF Z
    <2> QED BY <2>2, <2>3, SetInduction
  <1> QED BY <1>0, <1>3, <1>4

(* Datagram d has the addresses x + 1 to y, and then perhaps the end.      *)
Carries(d, ad, x, y) ==
    /\ x <= y /\ (Len(d) = y - x \/ Len(d) = y - x + 1)
    /\ \A j \in 1 .. y - x : d[j] = [type |-> "NEWADDR", addr |-> x + j,
                                    broadcast |-> ad[x + j]]
    /\ Len(d) = y - x + 1 => d[Len(d)].type \in {"DONE", "ERROR"}

(* The datagrams in the socket carry the addresses b + 1 to n: the j-th    *)
(* begins after address s[j].                                              *)
Marks(s, in, ad, b, n) ==
    /\ s \in [1 .. Len(in) + 1 -> 0 .. n] /\ s[1] = b /\ s[Len(in) + 1] = n
    /\ \A j \in 1 .. Len(in) : /\ Carries(in[j], ad, s[j], s[j + 1])
                              /\ 1 <= Len(in[j]) /\ Len(in[j]) <= BatchSize

(* The first a addresses are logged, nh has those up to b, and inbox has   *)
(* the rest of those dumped.                                               *)
Under(a, b, s) ==
    /\ a \in Nat /\ b \in Nat /\ b <= dumped /\ logged = Wanted(addrs, a)
    /\ Carries(nh, addrs, a, b) /\ Marks(s, inbox, addrs, b, dumped)
    /\ npc \in {"send", "recv"} => nh = <<>>
    /\ npc = "exit" => a = Len(addrs)

DumpInv ==
    /\ NetlinkTypeOK /\ Len(addrs) <= MaxAddrs
    /\ \E a, b, s : Under(a, b, s)
    /\ \A j \in 1 .. Len(inbox) : inbox[j][1].type = "DONE" =>
          j = Len(inbox) /\ over # "no" /\ dumped = Len(addrs)

(* A datagram joins those in the socket.                                   *)
LEMMA MarksAppend ==
    ASSUME NEW in \in Seq(Seq(Message)), NEW d \in Seq(Message), NEW ad, NEW s,
           NEW b \in Nat, NEW n \in Nat, NEW m \in Nat, Marks(s, in, ad, b, n),
           Carries(d, ad, n, m), 1 <= Len(d), Len(d) <= BatchSize
    PROVE  \E s1 : Marks(s1, Append(in, d), ad, b, m)
  <1> DEFINE i1 == Append(in, d)
             s1 == [j \in 1 .. Len(in) + 2 |-> IF j = Len(in) + 2 THEN m ELSE s[j]]
  <1>1. n <= m
    BY DEF Carries
  <1>2. /\ Len(i1) = Len(in) + 1 /\ i1[Len(in) + 1] = d
        /\ \A j \in 1 .. Len(in) : i1[j] = in[j]
    OBVIOUS
  <1>3. /\ \A j \in 1 .. Len(in) + 1 : s1[j] = s[j] /\ s[j] \in 0 .. n
        /\ s1[Len(in) + 2] = m /\ s[1] = b /\ s[Len(in) + 1] = n
    BY DEF Marks
  <1> HIDE DEF i1
  <1>4. s1 \in [1 .. Len(i1) + 1 -> 0 .. m] /\ s1[1] = b /\ s1[Len(i1) + 1] = m
    <2>1. Len(in) \in Nat /\ Len(i1) + 1 = Len(in) + 2
      BY <1>2
    <2>2. s1 \in [1 .. Len(in) + 2 -> 0 .. m]
      <3>1. ASSUME NEW j \in 1 .. Len(in) + 2 PROVE s1[j] \in 0 .. m
        <4>1. CASE j = Len(in) + 2
          BY <4>1
        <4>2. CASE j # Len(in) + 2
          <5>1. j \in 1 .. Len(in) + 1
            BY <2>1, <4>2
          <5>2. s1[j] = s[j] /\ s[j] \in 0 .. n
            BY <1>3, <5>1
          <5> HIDE DEF s1
          <5> QED BY <1>1, <5>2
        <4> QED BY <4>1, <4>2
      <3> QED BY <3>1
    <2> HIDE DEF s1
    <2>3. s1[1] = s[1] /\ s1[Len(in) + 2] = m
      BY <1>3, <2>1
    <2> QED BY <1>3, <2>1, <2>2, <2>3
  <1> HIDE DEF s1
  <1>5. ASSUME NEW j \in 1 .. Len(i1)
        PROVE  /\ Carries(i1[j], ad, s1[j], s1[j + 1])
               /\ 1 <= Len(i1[j]) /\ Len(i1[j]) <= BatchSize
    <2>1. CASE j = Len(in) + 1
      <3>1. s1[j] = n /\ s1[j + 1] = m /\ i1[j] = d
        BY <1>2, <1>3, <2>1
      <3> QED BY <3>1
    <2>2. CASE j # Len(in) + 1
      <3>1. j \in 1 .. Len(in) /\ j + 1 \in 1 .. Len(in) + 1
        BY <1>2, <2>2
      <3>2. s1[j] = s[j] /\ s1[j + 1] = s[j + 1] /\ i1[j] = in[j]
        BY <1>2, <1>3, <3>1
      <3> QED BY <3>1, <3>2 DEF Marks
    <2> QED BY <2>1, <2>2
  <1>6. Marks(s1, i1, ad, b, m)
    BY <1>4, <1>5 DEF Marks
  <1> QED BY <1>6 DEF i1

(* The first datagram is taken.                                            *)
LEMMA MarksTail ==
    ASSUME NEW in \in Seq(Seq(Message)), in # <<>>, NEW ad, NEW s,
           NEW b \in Nat, NEW n \in Nat, Marks(s, in, ad, b, n)
    PROVE  \E c, s1 : /\ c \in 0 .. n /\ Carries(Head(in), ad, b, c)
                      /\ 1 <= Len(Head(in)) /\ Len(Head(in)) <= BatchSize
                      /\ Len(in) = 1 => c = n
                      /\ Marks(s1, Tail(in), ad, c, n)
  <1> DEFINE i1 == Tail(in)
             s1 == [j \in 1 .. Len(in) |-> s[j + 1]]
  <1>1. /\ Len(in) \in Nat \ {0} /\ Len(i1) = Len(in) - 1 /\ Head(in) = in[1]
        /\ \A j \in 1 .. Len(i1) : i1[j] = in[j + 1]
    OBVIOUS
  <1>2. /\ \A j \in 1 .. Len(in) + 1 : s[j] \in 0 .. n
        /\ s[1] = b /\ s[Len(in) + 1] = n
    BY DEF Marks
  <1>3. /\ s1 \in [1 .. Len(i1) + 1 -> 0 .. n]
        /\ \A j \in 1 .. Len(in) : s1[j] = s[j + 1]
    BY <1>1, <1>2
  <1>4. s1[1] = s[2] /\ s1[Len(i1) + 1] = n /\ s[2] \in 0 .. n
    BY <1>1, <1>2, <1>3
  <1> HIDE DEF i1, s1
  <1>5. ASSUME NEW j \in 1 .. Len(i1)
        PROVE  /\ Carries(i1[j], ad, s1[j], s1[j + 1])
               /\ 1 <= Len(i1[j]) /\ Len(i1[j]) <= BatchSize
    <2>1. PICK k \in 1 .. Len(in) : k = j + 1
      BY <1>1
    <2>2. i1[j] = in[k] /\ s1[j] = s[k] /\ s1[j + 1] = s[k + 1]
      BY <1>1, <1>3, <2>1
    <2>3. Carries(in[k], ad, s[k], s[k + 1]) /\ 1 <= Len(in[k])
          /\ Len(in[k]) <= BatchSize
      BY DEF Marks
    <2> QED BY <2>2, <2>3
  <1>6. Marks(s1, i1, ad, s[2], n)
    BY <1>3, <1>4, <1>5 DEF Marks
  <1>7. /\ Carries(Head(in), ad, b, s[2])
        /\ 1 <= Len(Head(in)) /\ Len(Head(in)) <= BatchSize
    <2>1. 1 \in 1 .. Len(in) /\ 1 + 1 = 2
      BY <1>1
    <2>2. Carries(in[1], ad, s[1], s[1 + 1]) /\ 1 <= Len(in[1])
          /\ Len(in[1]) <= BatchSize
      BY <2>1 DEF Marks
    <2> QED BY <1>1, <1>2, <2>1, <2>2
  <1>8. Len(in) = 1 => s[2] = n
    BY <1>2
  <1> QED BY <1>4, <1>6, <1>7, <1>8 DEF i1

-----------------------------------------------------------------------------
(* The types of the parts of the state.                                    *)
LEMMA DumpTypes ==
    ASSUME DumpInv
    PROVE  /\ MaxAddrs \in Nat /\ BatchSize \in Nat \ {0}
           /\ npc \in {"send", "recv", "parse", "exit"}
           /\ nh \in Seq(Message) /\ Len(nh) <= BatchSize
           /\ inbox \in Seq(Seq(Message)) /\ addrs \in Seq(BOOLEAN)
           /\ dumped \in Nat /\ dumped <= Len(addrs) /\ Len(addrs) \in Nat
           /\ joins \in BOOLEAN /\ over \in {"no", "own", "joined", "error"}
           /\ logged \in Seq(Line) /\ Len(addrs) <= MaxAddrs
  BY NetlinkAssumption DEF DumpInv, NetlinkTypeOK

(* An empty rest of the buffer carries nothing.                            *)
LEMMA CarriesNone ==
    ASSUME NEW d, NEW ad, NEW x \in Nat, NEW y \in Nat
    PROVE  /\ Carries(<<>>, ad, x, x)
           /\ Carries(d, ad, x, y) /\ d = <<>> => x = y
           /\ Carries(d, ad, x, y) /\ Len(d) > 0 /\ d[1].type # "NEWADDR"
                => x = y /\ Len(d) = 1
  <1>1. Carries(<<>>, ad, x, x)
    BY DEF Carries
  <1>2. Carries(d, ad, x, y) /\ d = <<>> => x = y
    BY DEF Carries
  <1>3. ASSUME Carries(d, ad, x, y), Len(d) > 0, d[1].type # "NEWADDR"
        PROVE  x = y /\ Len(d) = 1
    <2>1. x <= y /\ (Len(d) = y - x \/ Len(d) = y - x + 1)
      BY <1>3 DEF Carries
    <2>2. ~ (1 \in 1 .. y - x)
      <3> SUFFICES ASSUME 1 \in 1 .. y - x PROVE FALSE
        OBVIOUS
      <3>1. d[1] = [type |-> "NEWADDR", addr |-> x + 1,
            broadcast |-> ad[x + 1]]
        BY <1>3 DEF Carries
      <3>2. d[1].type = "NEWADDR"
        BY <3>1
      <3> QED BY <1>3, <3>2
    <2>3. x = y
      BY <2>1, <2>2
    <2>4. Len(d) = 0 \/ Len(d) = 1
      BY <2>1, <2>3
    <2> QED BY <1>3, <2>3, <2>4
  <1> QED BY <1>1, <1>2, <1>3

(* nl_get_ipaddr starts in DumpInv.                                        *)
LEMMA DumpStarts == NetlinkInit => DumpInv
  <1> SUFFICES ASSUME NetlinkInit PROVE DumpInv
    OBVIOUS
  <1>1. addrs \in Seq(BOOLEAN) /\ Len(addrs) <= MaxAddrs /\ Len(addrs) \in Nat
    <2>1. PICK m \in 0 .. MaxAddrs : addrs \in [1 .. m -> BOOLEAN]
      BY DEF NetlinkInit, BoundedSeq, SeqOf
    <2>2. m \in Nat /\ m <= MaxAddrs
      BY NetlinkAssumption
    <2> QED BY <2>1, <2>2
  <1>2. NetlinkTypeOK
    <2>1. /\ <<>> \in Seq(Message) /\ <<>> \in Seq(Seq(Message))
          /\ <<>> \in Seq(Line)
          /\ Len(<<>>) = 0
      OBVIOUS
    <2> QED BY <1>1, <2>1, NetlinkAssumption DEF NetlinkInit, NetlinkTypeOK
  <1>3. Under(0, 0, [j \in 1 .. 1 |-> 0])
    <2>1. logged = Wanted(addrs, 0)
      <3>1. [k \in 1 .. 0 |-> LinesOf(addrs, k)] = <<>>
        OBVIOUS
      <3> QED BY <3>1 DEF Wanted, FlattenSeq, NetlinkInit
    <2>2. Carries(<<>>, addrs, 0, 0)
      BY CarriesNone
    <2>3. Marks([j \in 1 .. 1 |-> 0], <<>>, addrs, 0, 0)
      BY DEF Marks
    <2> QED BY <2>1, <2>2, <2>3 DEF NetlinkInit, Under
  <1>4. \A j \in 1 .. Len(inbox) : FALSE
    BY DEF NetlinkInit
  <1> QED BY <1>1, <1>2, <1>3, <1>4 DEF DumpInv

(* A datagram that the kernel sends.                                       *)
LEMMA KernelSends ==
    ASSUME DumpInv, over = "no", NEW d \in Seq(Message), NEW m \in Nat,
           m <= Len(addrs), Carries(d, addrs, dumped, m),
           1 <= Len(d), Len(d) <= BatchSize, inbox' = Append(inbox, d),
           dumped' = m, over' \in {"no", "own", "joined", "error"},
           d[1].type = "DONE" => over' # "no" /\ m = Len(addrs),
           UNCHANGED <<npc, nh, addrs, joins, logged>>
    PROVE  DumpInv'
  <1>1. PICK a, b, s : Under(a, b, s)
    BY DEF DumpInv
  <1>2. PICK s1 : Marks(s1, Append(inbox, d), addrs, b, m)
    <2>1. b \in Nat /\ Marks(s, inbox, addrs, b, dumped)
      BY <1>1 DEF Under
    <2> QED BY <2>1, DumpTypes, MarksAppend
  <1>3. dumped <= m
    BY DEF Carries
  <1>4. Under(a, b, s1)'
    BY <1>1, <1>2, <1>3, DumpTypes DEF Under
  <1>5. \A j \in 1 .. Len(inbox') : inbox'[j][1].type = "DONE" =>
           j = Len(inbox') /\ over' # "no" /\ dumped' = Len(addrs')
    <2> SUFFICES ASSUME NEW j \in 1 .. Len(inbox'), inbox'[j][1].type = "DONE"
                 PROVE  j = Len(inbox') /\ over' # "no"
                        /\ dumped' = Len(addrs')
      OBVIOUS
    <2>1. /\ Len(inbox') = Len(inbox) + 1 /\ inbox'[Len(inbox) + 1] = d
          /\ \A k \in 1 .. Len(inbox) : inbox'[k] = inbox[k]
      BY DumpTypes
    <2>2. CASE j \in 1 .. Len(inbox)
      <3>1. inbox[j][1].type = "DONE"
        BY <2>1, <2>2
      <3> QED BY <2>2, <3>1 DEF DumpInv
    <2>3. CASE j = Len(inbox) + 1
      BY <2>1, <2>3
    <2>4. j \in 1 .. Len(inbox) \/ j = Len(inbox) + 1
      BY <2>1, DumpTypes
    <2> QED BY <2>2, <2>3, <2>4
  <1>6. NetlinkTypeOK'
    <2>1. inbox' \in Seq(Seq(Message))
      BY DumpTypes
    <2> QED BY <2>1, DumpTypes DEF NetlinkTypeOK
  <1>7. Len(addrs') <= MaxAddrs
    BY DumpTypes
  <1> QED BY <1>4, <1>5, <1>6, <1>7 DEF DumpInv

(* The addresses the kernel knows, in a datagram of their own or with the  *)
(* end behind them.                                                        *)
LEMMA KernelBatch ==
    ASSUME DumpInv, NEW n \in 1 .. BatchSize, DumpBatch(n) PROVE DumpInv'
  <1> DEFINE d == Batch(n)
             end == [type |-> "DONE"]
             m == dumped + n
  <1>0. n \in Nat \ {0} /\ n <= BatchSize
    BY DumpTypes
  <1>1. /\ over = "no" /\ m <= Len(addrs) /\ m \in Nat /\ dumped' = m
        /\ UNCHANGED <<npc, nh, addrs, joins, logged>>
    BY <1>0, DumpTypes DEF DumpBatch
  <1>2. \A j \in 1 .. n : /\ NewAddr(dumped + j) \in Message
                          /\ NewAddr(dumped + j).type = "NEWADDR"
    <2> SUFFICES ASSUME NEW j \in 1 .. n
                 PROVE  NewAddr(dumped + j) \in Message
                        /\ NewAddr(dumped + j).type = "NEWADDR"
      OBVIOUS
    <2>1. dumped + j \in 1 .. MaxAddrs /\ dumped + j \in 1 .. Len(addrs)
      BY <1>0, <1>1, DumpTypes
    <2>2. addrs[dumped + j] \in BOOLEAN
      BY <2>1, DumpTypes
    <2> QED BY <2>1, <2>2, Zenon DEF NewAddr, Message
  <1>3. d \in Seq(Message) /\ Len(d) = n
        /\ \A j \in 1 .. n : d[j] = NewAddr(dumped + j)
    BY <1>0, <1>2 DEF Batch
  <1>4. end \in Message /\ end.type = "DONE"
    BY DEF Message
  <1> HIDE DEF d, end
  <1>5. PICK x : x = Append(d, end)
    OBVIOUS
  <1>6. /\ x \in Seq(Message) /\ Len(x) = n + 1 /\ x[n + 1] = end
        /\ \A j \in 1 .. n : x[j] = NewAddr(dumped + j)
    <2>1. x \in Seq(Message) /\ Len(x) = Len(d) + 1 /\ x[Len(d) + 1] = end
      BY <1>3, <1>4, <1>5
    <2>2. \A j \in 1 .. Len(d) : x[j] = d[j]
      BY <1>3, <1>5
    <2> QED BY <1>3, <2>1, <2>2
  <1>7. \A j : NewAddr(dumped + j) = [type |-> "NEWADDR", addr |-> dumped + j,
                                      broadcast |-> addrs[dumped + j]]
    BY DEF NewAddr
  <1>8. Carries(d, addrs, dumped, m) /\ Carries(x, addrs, dumped, m)
    <2>1. /\ dumped <= m /\ m - dumped = n /\ Len(d) # m - dumped + 1
          /\ Len(x) = m - dumped + 1
      BY <1>0, <1>3, <1>6, DumpTypes
    <2>2. x[Len(x)].type \in {"DONE", "ERROR"}
      BY <1>4, <1>6
    <2> HIDE DEF m
    <2>3. Carries(d, addrs, dumped, m)
      BY <1>3, <1>7, <2>1 DEF Carries
    <2>4. Carries(x, addrs, dumped, m)
      BY <1>6, <1>7, <2>1, <2>2 DEF Carries
    <2> QED BY <2>3, <2>4
  <1>9. d[1].type = "NEWADDR" /\ x[1].type = "NEWADDR"
    BY <1>0, <1>2, <1>3, <1>6
  <1>10. CASE inbox' = Append(inbox, d) /\ UNCHANGED over
    <2>1. 1 <= Len(d) /\ Len(d) <= BatchSize /\ d[1].type # "DONE"
      BY <1>0, <1>3, <1>9
    <2>2. over' \in {"no", "own", "joined", "error"}
      BY <1>1, <1>10
    <2> HIDE DEF m
    <2> QED BY <1>1, <1>3, <1>8, <1>10, <2>1, <2>2, KernelSends
  <1>11. CASE n < BatchSize /\ inbox' = Append(inbox, x) /\ over' = "joined"
    <2>1. 1 <= Len(x) /\ Len(x) <= BatchSize /\ x[1].type # "DONE"
      BY <1>0, <1>6, <1>9, <1>11, DumpTypes
    <2>2. over' \in {"no", "own", "joined", "error"}
      BY <1>11
    <2> HIDE DEF m
    <2> QED BY <1>1, <1>6, <1>8, <1>11, <2>1, <2>2, KernelSends
  <1>12. \/ inbox' = Append(inbox, d) /\ UNCHANGED over
         \/ n < BatchSize /\ inbox' = Append(inbox, x) /\ over' = "joined"
    BY <1>5 DEF DumpBatch, d, end
  <1> QED BY <1>10, <1>11, <1>12

(* The end in a datagram of its own, or an error instead of the dump.      *)
LEMMA KernelEnds ==
    ASSUME DumpInv, DumpDone \/ DumpRefused PROVE DumpInv'
  <1> DEFINE D(t) == <<[type |-> t]>>
  <1>1. ASSUME NEW t \in {"DONE", "ERROR"}
        PROVE  /\ D(t) \in Seq(Message) /\ Len(D(t)) = 1 /\ D(t)[1].type = t
               /\ Carries(D(t), addrs, dumped, dumped) /\ 1 <= BatchSize
    <2>1. [type |-> t] \in Message
      BY DEF Message
    <2>2. D(t) \in Seq(Message) /\ Len(D(t)) = 1 /\ D(t)[1] = [type |-> t]
      BY <2>1
    <2> HIDE DEF D
    <2>3. Carries(D(t), addrs, dumped, dumped)
      BY <2>2, DumpTypes DEF Carries
    <2> QED BY <2>2, <2>3, DumpTypes
  <1>2. CASE DumpDone
    <2>1. PICK d : d = D("DONE")
      OBVIOUS
    <2>2. /\ d \in Seq(Message) /\ Len(d) = 1 /\ d[1].type = "DONE"
          /\ Carries(d, addrs, dumped, dumped) /\ 1 <= BatchSize
      BY <1>1, <2>1
    <2>3. /\ over = "no" /\ inbox' = Append(inbox, d) /\ dumped' = dumped
          /\ over' = "own" /\ dumped = Len(addrs)
          /\ UNCHANGED <<npc, nh, addrs, joins, logged>>
      BY <1>2, <2>1 DEF DumpDone
    <2>4. PICK m \in Nat : m = dumped
      BY DumpTypes
    <2>5. /\ m <= Len(addrs) /\ Carries(d, addrs, dumped, m) /\ dumped' = m
          /\ 1 <= Len(d) /\ Len(d) <= BatchSize
          /\ over' \in {"no", "own", "joined", "error"}
          /\ (d[1].type = "DONE" => over' # "no" /\ m = Len(addrs))
      BY <2>2, <2>3, <2>4, DumpTypes
    <2> QED BY <2>2, <2>3, <2>5, KernelSends
  <1>3. CASE DumpRefused
    <2>1. PICK d : d = D("ERROR")
      OBVIOUS
    <2>2. /\ d \in Seq(Message) /\ Len(d) = 1 /\ d[1].type = "ERROR"
          /\ Carries(d, addrs, dumped, dumped) /\ 1 <= BatchSize
      BY <1>1, <2>1
    <2>3. /\ over = "no" /\ inbox' = Append(inbox, d) /\ dumped' = dumped
          /\ over' = "error" /\ UNCHANGED <<npc, nh, addrs, joins, logged>>
      BY <1>3, <2>1 DEF DumpRefused
    <2>4. PICK m \in Nat : m = dumped
      BY DumpTypes
    <2>5. /\ m <= Len(addrs) /\ Carries(d, addrs, dumped, m) /\ dumped' = m
          /\ 1 <= Len(d) /\ Len(d) <= BatchSize
          /\ over' \in {"no", "own", "joined", "error"}
          /\ (d[1].type = "DONE" => over' # "no" /\ m = Len(addrs))
      BY <2>2, <2>3, <2>4, DumpTypes
    <2> QED BY <2>2, <2>3, <2>5, KernelSends
  <1> QED BY <1>2, <1>3

(* recvmsg: a datagram that begins with the end was the last.              *)
LEMMA DumpReceives == ASSUME DumpInv, RecvMsg PROVE DumpInv'
  <1>1. /\ npc = "recv" /\ inbox # <<>> /\ nh' = Head(inbox)
        /\ inbox' = Tail(inbox)
        /\ npc' = IF Head(inbox)[1].type = "DONE" THEN "exit" ELSE "parse"
        /\ UNCHANGED <<addrs, dumped, joins, over, logged>>
    BY DEF RecvMsg
  <1>2. PICK a, b, s : Under(a, b, s)
    BY DEF DumpInv
  <1>3. /\ a \in Nat /\ b \in Nat /\ b <= dumped /\ logged = Wanted(addrs, a)
        /\ Carries(nh, addrs, a, b) /\ Marks(s, inbox, addrs, b, dumped)
        /\ nh = <<>>
    BY <1>1, <1>2 DEF Under
  <1>4. a = b
    BY <1>3, CarriesNone
  <1>5. PICK c, s1 : /\ c \in 0 .. dumped /\ Carries(Head(inbox), addrs, b, c)
                     /\ 1 <= Len(Head(inbox)) /\ Len(Head(inbox)) <= BatchSize
                     /\ Len(inbox) = 1 => c = dumped
                     /\ Marks(s1, Tail(inbox), addrs, c, dumped)
    BY <1>1, <1>3, DumpTypes, MarksTail
  <1>6. /\ Len(inbox) \in Nat \ {0} /\ Len(inbox') = Len(inbox) - 1
        /\ Head(inbox) = inbox[1]
           /\ \A j \in 1 .. Len(inbox') : inbox'[j] = inbox[j + 1]
        /\ inbox' \in Seq(Seq(Message)) /\ nh' \in Seq(Message)
    BY <1>1, DumpTypes
  <1>7. Head(inbox)[1].type = "DONE" => a = Len(addrs)
    <2> SUFFICES ASSUME Head(inbox)[1].type = "DONE" PROVE a = Len(addrs)
      OBVIOUS
    <2>1. Len(inbox) = 1 /\ dumped = Len(addrs)
      BY <1>6 DEF DumpInv
    <2>2. b = c
      <3>1. c \in Nat /\ Len(Head(inbox)) > 0
            /\ Head(inbox)[1].type # "NEWADDR"
        BY <1>5, DumpTypes
      <3> QED BY <1>3, <1>5, <3>1, CarriesNone
    <2> QED BY <1>4, <1>5, <2>1, <2>2
  <1>8. Under(a, c, s1)'
    BY <1>1, <1>3, <1>4, <1>5, <1>7, DumpTypes DEF Under
  <1>9. \A j \in 1 .. Len(inbox') : inbox'[j][1].type = "DONE" =>
           j = Len(inbox') /\ over' # "no" /\ dumped' = Len(addrs')
    <2> SUFFICES ASSUME NEW j \in 1 .. Len(inbox'), inbox'[j][1].type = "DONE"
                 PROVE  j = Len(inbox') /\ over' # "no"
                        /\ dumped' = Len(addrs')
      OBVIOUS
    <2>1. PICK k \in 1 .. Len(inbox) : k = j + 1
      BY <1>6
    <2>2. inbox[k][1].type = "DONE"
      BY <1>6, <2>1
    <2>3. k = Len(inbox) /\ over # "no" /\ dumped = Len(addrs)
      BY <2>2 DEF DumpInv
    <2>4. j = Len(inbox')
      BY <1>6, <2>1, <2>3
    <2> QED BY <1>1, <2>3, <2>4
  <1>10. NetlinkTypeOK'
    <2>1. npc' \in {"send", "recv", "parse", "exit"} /\ Len(nh') <= BatchSize
      BY <1>1, <1>5
    <2> QED BY <1>1, <1>6, <2>1, DumpTypes DEF NetlinkTypeOK
  <1>11. Len(addrs') <= MaxAddrs
    BY <1>1, DumpTypes
  <1> QED BY <1>8, <1>9, <1>10, <1>11 DEF DumpInv

(* The steps of the program that leave the socket alone.                   *)
LEMMA DumpMoves ==
    ASSUME DumpInv, UNCHANGED <<inbox, addrs, dumped, joins, over>>,
           NEW a, NEW b, NEW s, Under(a, b, s)',
           npc' \in {"send", "recv", "parse", "exit"}, nh' \in Seq(Message),
           Len(nh') <= BatchSize, logged' \in Seq(Line)
    PROVE  DumpInv'
  <1>1. NetlinkTypeOK' /\ Len(addrs') <= MaxAddrs
    BY DumpTypes DEF NetlinkTypeOK
  <1> QED BY <1>1 DEF DumpInv

(* One message: the lines of the address that comes next.                  *)
LEMMA DumpParses == ASSUME DumpInv, ParseMsg PROVE DumpInv'
  <1>1. /\ npc = "parse" /\ nh # <<>> /\ Head(nh).type # "ERROR"
        /\ nh' = Tail(nh)
        /\ logged' = IF Head(nh).type = "NEWADDR"
                     THEN logged \o Attributes(Head(nh)) ELSE logged
        /\ UNCHANGED <<npc, inbox, addrs, dumped, joins, over>>
    BY DEF ParseMsg
  <1>2. PICK a, b, s : Under(a, b, s)
    BY DEF DumpInv
  <1>3. /\ a \in Nat /\ b \in Nat /\ b <= dumped /\ logged = Wanted(addrs, a)
        /\ Carries(nh, addrs, a, b) /\ Marks(s, inbox, addrs, b, dumped)
    BY <1>2 DEF Under
  <1>4. /\ Len(nh) \in Nat \ {0} /\ Len(nh') = Len(nh) - 1
        /\ nh' \in Seq(Message)
        /\ Head(nh) = nh[1] /\ \A j \in 1 .. Len(nh') : nh'[j] = nh[j + 1]
        /\ Len(nh') <= BatchSize
    BY <1>1, DumpTypes
  <1>5. CASE Head(nh).type # "NEWADDR"
    <2>1. a = b /\ Len(nh) = 1
      <3>1. Len(nh) > 0 /\ nh[1].type # "NEWADDR"
        BY <1>4, <1>5
      <3> QED BY <1>3, <3>1, CarriesNone
    <2>2. nh' = <<>> /\ logged' = logged
      BY <1>1, <1>4, <1>5, <2>1
    <2>3. Carries(nh', addrs, a, b)
      BY <1>3, <2>1, <2>2, CarriesNone
    <2>4. Under(a, b, s)'
      BY <1>1, <1>3, <2>2, <2>3 DEF Under
    <2> QED BY <1>1, <1>4, <2>2, <2>4, DumpTypes, DumpMoves
  <1>6. CASE Head(nh).type = "NEWADDR"
    <2>1. /\ a <= b /\ (Len(nh) = b - a \/ Len(nh) = b - a + 1)
          /\ \A j \in 1 .. b - a : nh[j] = [type |-> "NEWADDR", addr |-> a + j,
                                            broadcast |-> addrs[a + j]]
          /\ Len(nh) = b - a + 1 => nh[Len(nh)].type \in {"DONE", "ERROR"}
      BY <1>3 DEF Carries
    <2>2. a < b
      <3>1. CASE Len(nh) = b - a
        BY <1>3, <1>4, <3>1
      <3>2. CASE Len(nh) = b - a + 1 /\ a = b
        BY <1>3, <1>4, <1>6, <2>1, <3>2
      <3> QED BY <1>3, <2>1, <3>1, <3>2
    <2>3. nh[1] = [type |-> "NEWADDR", addr |-> a + 1,
          broadcast |-> addrs[a + 1]]
      BY <1>3, <2>1, <2>2
    <2>4. a + 1 \in 1 .. MaxAddrs
      BY <1>3, <2>2, DumpTypes
    <2>5. logged' = logged \o LinesOf(addrs, a + 1)
      <3>1. PICK x : x = Head(nh)
        OBVIOUS
      <3>2. x.addr = a + 1 /\ x.broadcast = addrs[a + 1]
        BY <1>4, <2>3, <3>1
      <3>3. Attributes(x) = LinesOf(addrs, a + 1)
        BY <3>2, Zenon DEF Attributes, LinesOf
      <3> QED BY <1>1, <1>6, <3>1, <3>3, Zenon
    <2>6. LinesOf(addrs, a + 1) \in Seq(Line)
      BY <2>4, LinesType
    <2>7. logged' \in Seq(Line)
      <3>1. logged \in Seq(Line)
        BY DumpTypes
      <3>2. PICK r \in Seq(Line) : r = LinesOf(addrs, a + 1)
        BY <2>6
      <3>3. logged \o r \in Seq(Line)
        BY <3>1
      <3> QED BY <2>5, <3>2, <3>3
    <2>8. logged' = Wanted(addrs, a + 1)
      <3>1. Wanted(addrs, a + 1) = Wanted(addrs, a) \o LinesOf(addrs, a + 1)
        <4>1. a + 1 <= MaxAddrs
          BY <2>4, DumpTypes
        <4> QED BY <1>3, <4>1, WantedStep, Zenon
      <3> QED BY <1>3, <2>5, <3>1, Zenon
    <2>9. Carries(nh', addrs, a + 1, b)
      <3>1. /\ a + 1 <= b
            /\ (Len(nh') = b - (a + 1) \/ Len(nh') = b - (a + 1) + 1)
        BY <1>3, <1>4, <2>1, <2>2
      <3>2. ASSUME NEW j \in 1 .. b - (a + 1)
            PROVE  nh'[j] = [type |-> "NEWADDR", addr |-> (a + 1) + j,
                             broadcast |-> addrs[(a + 1) + j]]
        <4>1. PICK k \in 1 .. b - a : k = j + 1 /\ a + k = (a + 1) + j
          BY <1>3
        <4>2. nh'[j] = nh[k]
          <5>1. j \in 1 .. Len(nh')
            BY <1>3, <1>4, <3>1
          <5>2. nh'[j] = nh[j + 1]
            BY <1>4, <5>1
          <5> QED BY <4>1, <5>2
        <4>3. nh[k] = [type |-> "NEWADDR", addr |-> a + k,
              broadcast |-> addrs[a + k]]
          BY <2>1
        <4> QED BY <4>1, <4>2, <4>3, Zenon
      <3>3. ASSUME Len(nh') = b - (a + 1) + 1
            PROVE  nh'[Len(nh')].type \in {"DONE", "ERROR"}
        <4>0. b - (a + 1) >= 0 /\ b - (a + 1) + 1 = b - a
          BY <1>3, <2>2
        <4>1. Len(nh) = b - a + 1 /\ Len(nh') \in 1 .. Len(nh')
              /\ Len(nh') + 1 = Len(nh)
          BY <1>3, <1>4, <3>3, <4>0
        <4>2. nh'[Len(nh')] = nh[Len(nh)]
          BY <1>4, <4>1
        <4> QED BY <2>1, <4>1, <4>2
      <3> QED BY <3>1, <3>2, <3>3 DEF Carries
    <2>10. Under(a + 1, b, s)'
      <3>1. a + 1 \in Nat /\ npc' = "parse"
        BY <1>1, <1>3
      <3> QED BY <1>1, <1>3, <2>8, <2>9, <3>1 DEF Under
    <2> QED BY <1>1, <1>4, <2>7, <2>10, DumpTypes, DumpMoves
  <1> QED BY <1>5, <1>6

(* goto try_recv, and the request.                                         *)
LEMMA DumpTurns == ASSUME DumpInv, TryRecv \/ SendDump PROVE DumpInv'
  <1>1. PICK a, b, s : Under(a, b, s)
    BY DEF DumpInv
  <1>2. /\ a \in Nat /\ b \in Nat /\ b <= dumped /\ logged = Wanted(addrs, a)
        /\ Carries(nh, addrs, a, b) /\ Marks(s, inbox, addrs, b, dumped)
        /\ npc = "send" => nh = <<>>
    BY <1>1 DEF Under
  <1>3. /\ npc' = "recv"
        /\ UNCHANGED <<inbox, addrs, dumped, joins, over, logged>>
        /\ nh' = <<>> /\ (nh # <<>> => nh[1].type # "NEWADDR" /\ Len(nh) > 0)
    <2>1. CASE TryRecv
      <3>1. npc = "parse" /\ npc' = "recv" /\ nh' = <<>>
            /\ (nh # <<>> => Head(nh).type = "ERROR")
            /\ UNCHANGED <<inbox, addrs, dumped, joins, over, logged>>
        BY <2>1 DEF TryRecv
      <3>2. nh # <<>> => Head(nh) = nh[1] /\ Len(nh) > 0
        BY DumpTypes
      <3> QED BY <3>1, <3>2
    <2>2. CASE SendDump
      BY <1>2, <2>2 DEF SendDump
    <2> QED BY <2>1, <2>2
  <1>4. a = b
    BY <1>2, <1>3, CarriesNone
  <1>5. Carries(<<>>, addrs, a, b)
    BY <1>2, <1>4, CarriesNone
  <1>6. Under(a, b, s)'
    BY <1>2, <1>3, <1>5 DEF Under
  <1>7. nh' \in Seq(Message) /\ Len(nh') <= BatchSize
    BY <1>3, DumpTypes
  <1> QED BY <1>3, <1>6, <1>7, DumpTypes, DumpMoves

(* Every step of nl_get_ipaddr and of the kernel keeps DumpInv.            *)
LEMMA DumpNext == DumpInv /\ [NetlinkNext]_nlVars => DumpInv'
  <1>1. ASSUME DumpInv, UNCHANGED nlVars PROVE DumpInv'
    BY <1>1 DEF nlVars, DumpInv, NetlinkTypeOK, Under
  <1> QED BY <1>1, KernelBatch, KernelEnds, DumpReceives, DumpParses, DumpTurns
          DEF NetlinkNext, NetlinkProgram, Kernel

(* What is logged is a prefix of the lines of all addresses, and all of    *)
(* them at the end.                                                        *)
LEMMA DumpInvMeans == DumpInv => DumpComplete
  <1> SUFFICES ASSUME DumpInv PROVE DumpComplete
    OBVIOUS
  <1>1. PICK a, b, s : Under(a, b, s)
    BY DEF DumpInv
  <1>2. /\ a \in Nat /\ a <= b /\ b \in Nat /\ b <= dumped
        /\ logged = Wanted(addrs, a)
        /\ npc = "exit" => a = Len(addrs)
    BY <1>1 DEF Under, Carries
  <1>3. IsPrefix(logged, Wanted(addrs, Len(addrs)))
    <2>1. a <= Len(addrs) /\ Len(addrs) \in Nat /\ Len(addrs) <= MaxAddrs
      BY <1>2, DumpTypes
    <2>2. IsPrefix(Wanted(addrs, a), Wanted(addrs, Len(addrs)))
      BY <1>2, <2>1, WantedPrefix
    <2> QED BY <1>2, <2>2
  <1>4. npc = "exit" => logged = Wanted(addrs, Len(addrs))
    BY <1>2
  <1> QED BY <1>3, <1>4 DEF DumpComplete, DumpInv, Wanted, LinesOf

(* nl_get_ipaddr.c logs the addresses of the dump once each and in order,  *)
(* and has logged all of them when it ends, for every number of addresses  *)
(* and every way the kernel cuts the dump into datagrams.                  *)
THEOREM DumpsAreComplete == Spec => []DumpComplete
  <1>1. Init => DumpInv
    BY OneTool, DumpStarts
  <1>2. DumpInv /\ [Next]_vars => DumpInv'
    BY OneTool, DumpNext
  <1> QED BY <1>1, <1>2, DumpInvMeans, PTL DEF Spec
-----------------------------------------------------------------------------
(* op-server.c                                                             *)

(* The product of the first n elements, as a recursive function.           *)
ProdTo(f, n) == LET P[k \in 0 .. n] == IF k = 0 THEN 1 ELSE P[k - 1] * f[k]
                IN  P[n]

(* What the answer to a request with operands should be.                   *)
Value(nums, op) ==
    CASE op = "+" -> SumTo(nums, Len(nums))
      [] op = "-" -> 2 * nums[1] - SumTo(nums, Len(nums))
      [] op = "*" -> nums[1] * ProdTo(nums, Len(nums))

(* The products of the first elements of f, up to n.                       *)
Products(g, f, n) ==
    /\ g \in [0 .. n -> Int] /\ g[0] = 1
    /\ \A k \in 1 .. n : g[k] = g[k - 1] * f[k]

(* There are products of every length.                                     *)
LEMMA ProductsExist ==
    ASSUME NEW n \in Nat, NEW f, \A k \in 1 .. n : f[k] \in Int
    PROVE  \E g : Products(g, f, n)
  <1> DEFINE Z == {m \in Nat : m <= n => \E g : Products(g, f, m)}
  <1>1. 0 \in Z
    <2>1. Products([k \in 0 .. 0 |-> 1], f, 0)
      BY DEF Products
    <2> QED BY <2>1
  <1>2. ASSUME NEW m \in Nat, m \in Z PROVE m + 1 \in Z
    <2> SUFFICES ASSUME m + 1 <= n PROVE \E g : Products(g, f, m + 1)
      OBVIOUS
    <2>1. PICK g : Products(g, f, m)
      BY <1>2
    <2>2. f[m + 1] \in Int /\ g[m] \in Int
      BY <2>1 DEF Products
    <2>3. PICK last \in Int : last = g[m] * f[m + 1]
      BY <2>2
    <2> DEFINE h == [k \in 0 .. m + 1 |-> IF k = m + 1 THEN last ELSE g[k]]
    <2>4. h \in [0 .. m + 1 -> Int] /\ h[0] = 1
      BY <2>1, <2>3 DEF Products
    <2>5. ASSUME NEW k \in 1 .. m + 1 PROVE h[k] = h[k - 1] * f[k]
      <3>1. CASE k = m + 1
        <4>1. h[k] = last /\ h[k - 1] = g[m]
          BY <3>1
        <4> QED BY <2>3, <3>1, <4>1
      <3>2. CASE k # m + 1
        <4>1. h[k] = g[k] /\ h[k - 1] = g[k - 1] /\ k \in 1 .. m
          BY <3>2
        <4> QED BY <2>1, <4>1 DEF Products
      <3> QED BY <3>1, <3>2
    <2> HIDE DEF h
    <2> QED BY <2>4, <2>5 DEF Products
  <1> HIDE DEF Z
  <1>3. n \in Z
    BY <1>1, <1>2, SetInduction
  <1> QED BY <1>3 DEF Z

(* The recursive function is the function of the products.                 *)
LEMMA ProdIsProduct ==
    ASSUME NEW n \in Nat, NEW f, \A k \in 1 .. n : f[k] \in Int,
           NEW g, Products(g, f, n)
    PROVE  ProdTo(f, n) = g[n]
  <1> DEFINE P == CHOOSE h : h = [k \in 0 .. n |-> IF k = 0 THEN 1
                                                  ELSE h[k - 1] * f[k]]
  <1>1. g = [k \in 0 .. n |-> IF k = 0 THEN 1 ELSE g[k - 1] * f[k]]
    BY DEF Products
  <1>2. P = [k \in 0 .. n |-> IF k = 0 THEN 1 ELSE P[k - 1] * f[k]]
    BY <1>1
  <1> HIDE DEF P
  <1>3. P[0] = 1 /\ \A k \in 1 .. n : P[k] = P[k - 1] * f[k]
    BY <1>2
  <1> DEFINE Z == {k \in Nat : k <= n => P[k] = g[k]}
  <1>4. 0 \in Z
    BY <1>3 DEF Products
  <1>5. ASSUME NEW k \in Nat, k \in Z PROVE k + 1 \in Z
    <2> SUFFICES ASSUME k + 1 <= n PROVE P[k + 1] = g[k + 1]
      OBVIOUS
    <2>1. PICK j \in 1 .. n : j = k + 1 /\ j - 1 = k
      OBVIOUS
    <2>2. P[j] = P[j - 1] * f[j] /\ g[j] = g[j - 1] * f[j]
      BY <1>3 DEF Products
    <2>3. P[j - 1] = g[j - 1]
      BY <1>5, <2>1
    <2> QED BY <2>1, <2>2, <2>3
  <1> HIDE DEF Z
  <1>6. n \in Z
    BY <1>4, <1>5, SetInduction
  <1>7. P[n] = g[n]
    BY <1>6 DEF Z
  <1> QED BY <1>7 DEF ProdTo, P

(* add() returns the sum.                                                  *)
LEMMA AddIsSum ==
    ASSUME NEW nums \in Seq(Int), nums # <<>>
    PROVE  add(nums) = SumTo(nums, Len(nums)) /\ add(nums) \in Int
  <1> DEFINE n == Len(nums)
             R == CHOOSE h : h = [e \in 1 .. n |-> IF e = 1 THEN nums[1]
                                                  ELSE h[e - 1] + nums[e]]
  <1>0. n \in Nat /\ n >= 1 /\ \A k \in 1 .. n : nums[k] \in Int
    OBVIOUS
  <1> HIDE DEF n
  <1>1. PICK g : Partial(g, nums, n) /\ SumTo(nums, n) = g[n]
    BY <1>0, SumIsPartial
  <1>2. \A e \in 1 .. n : g[e] = IF e = 1 THEN nums[1] ELSE g[e - 1] + nums[e]
    BY <1>0, <1>1 DEF Partial
  <1> DEFINE w == [e \in 1 .. n |-> g[e]]
  <1>3. w = [e \in 1 .. n |-> IF e = 1 THEN nums[1] ELSE w[e - 1] + nums[e]]
    BY <1>0, <1>2
  <1> HIDE DEF w
  <1>4. R = [e \in 1 .. n |-> IF e = 1 THEN nums[1] ELSE R[e - 1] + nums[e]]
    BY <1>3
  <1> HIDE DEF R
  <1> DEFINE Z == {k \in Nat : 1 <= k /\ k <= n => R[k] = g[k]}
  <1>5. 0 \in Z
    OBVIOUS
  <1>6. ASSUME NEW k \in Nat, k \in Z PROVE k + 1 \in Z
    BY <1>0, <1>2, <1>4, <1>6
  <1> HIDE DEF Z
  <1>7. n \in Z
    BY <1>0, <1>5, <1>6, SetInduction
  <1>8. R[n] = g[n] /\ g[n] \in Int
    BY <1>0, <1>1, <1>7 DEF Z, Partial
  <1> QED BY <1>1, <1>8 DEF add, R, n

(* sub() returns the first operand minus the others.                       *)
LEMMA SubIsDifference ==
    ASSUME NEW nums \in Seq(Int), nums # <<>>
    PROVE  /\ sub(nums) = 2 * nums[1] - SumTo(nums, Len(nums))
           /\ sub(nums) \in Int
  <1> DEFINE n == Len(nums)
             R == CHOOSE h : h = [e \in 1 .. n |-> IF e = 1 THEN nums[1]
                                                  ELSE h[e - 1] - nums[e]]
  <1>0. n \in Nat /\ n >= 1 /\ \A k \in 1 .. n : nums[k] \in Int
    OBVIOUS
  <1> HIDE DEF n
  <1>1. PICK g : Partial(g, nums, n) /\ SumTo(nums, n) = g[n]
    BY <1>0, SumIsPartial
  <1> DEFINE w == [e \in 1 .. n |-> 2 * nums[1] - g[e]]
  <1>2. \A e \in 1 .. n : w[e] = IF e = 1 THEN nums[1] ELSE w[e - 1] - nums[e]
    <2> SUFFICES ASSUME NEW e \in 1 .. n
                 PROVE  w[e] = IF e = 1 THEN nums[1] ELSE w[e - 1] - nums[e]
      OBVIOUS
    <2>0. e \in Int /\ e \in 0 .. n /\ e - 1 \in 0 .. n
      BY <1>0
    <2>1. /\ g[e] = g[e - 1] + nums[e] /\ g[0] = 0
          /\ g[e - 1] \in Int /\ g[e] \in Int /\ nums[e] \in Int
          /\ nums[1] \in Int
      <3>1. g \in [0 .. n -> Int] /\ g[0] = 0 /\ g[e] = g[e - 1] + nums[e]
        BY <1>1 DEF Partial
      <3>2. 1 \in 1 .. n
        BY <1>0
      <3> QED BY <1>0, <2>0, <3>1, <3>2
    <2>4. w[e] = 2 * nums[1] - g[e]
      OBVIOUS
    <2>2. CASE e = 1
      BY <1>0, <2>1, <2>2
    <2>3. CASE e # 1
      <3>1. e - 1 \in 1 .. n
        BY <1>0, <2>0, <2>3
      <3>2. w[e - 1] = 2 * nums[1] - g[e - 1]
        BY <3>1
      <3> HIDE DEF w
      <3> QED BY <2>1, <2>3, <2>4, <3>2
    <2> QED BY <2>2, <2>3
  <1>3. w = [e \in 1 .. n |-> IF e = 1 THEN nums[1] ELSE w[e - 1] - nums[e]]
    BY <1>0, <1>2
  <1>9. w[n] = 2 * nums[1] - g[n] /\ w[n] \in Int
    BY <1>0, <1>1 DEF Partial
  <1> HIDE DEF w
  <1>4. R = [e \in 1 .. n |-> IF e = 1 THEN nums[1] ELSE R[e - 1] - nums[e]]
    BY <1>3
  <1> HIDE DEF R
  <1> DEFINE Z == {k \in Nat : 1 <= k /\ k <= n => R[k] = w[k]}
  <1>5. 0 \in Z
    OBVIOUS
  <1>6. ASSUME NEW k \in Nat, k \in Z PROVE k + 1 \in Z
    BY <1>0, <1>2, <1>4, <1>6
  <1> HIDE DEF Z
  <1>7. n \in Z
    BY <1>0, <1>5, <1>6, SetInduction
  <1>8. R[n] = w[n]
    BY <1>0, <1>7 DEF Z
  <1> QED BY <1>1, <1>8, <1>9 DEF sub, R, n

(* multi() returns the product times the first operand.                    *)
LEMMA MultiIsProduct ==
    ASSUME NEW nums \in Seq(Int), nums # <<>>
    PROVE  /\ multi(nums) = nums[1] * ProdTo(nums, Len(nums))
           /\ multi(nums) \in Int
  <1> DEFINE n == Len(nums)
             a == nums[1]
             R == CHOOSE h : h = [e \in 0 .. n |-> IF e = 0 THEN nums[1]
                                                  ELSE h[e - 1] * nums[e]]
  <1>0. n \in Nat /\ n >= 1 /\ a \in Int /\ \A k \in 1 .. n : nums[k] \in Int
    OBVIOUS
  <1> HIDE DEF n
  <1>1. PICK g : Products(g, nums, n)
    BY <1>0, ProductsExist
  <1>2. ProdTo(nums, n) = g[n]
    BY <1>0, <1>1, ProdIsProduct
  <1> HIDE DEF a
  <1> DEFINE w == [e \in 0 .. n |-> a * g[e]]
  <1>3. \A x, y, z \in Int : (x * y) * z = x * (y * z)
    OBVIOUS
  <1>4. ASSUME NEW e \in 1 .. n PROVE w[e] = w[e - 1] * nums[e]
    <2>1. w[e] = a * g[e] /\ w[e - 1] = a * g[e - 1]
      BY <1>0
    <2>2. g[e] = g[e - 1] * nums[e] /\ g[e - 1] \in Int /\ nums[e] \in Int
      <3>1. g \in [0 .. n -> Int] /\ g[e] = g[e - 1] * nums[e]
        BY <1>1, Zenon DEF Products
      <3>2. e - 1 \in 0 .. n
        BY <1>0
      <3> QED BY <1>0, <3>1, <3>2
    <2> HIDE DEF w
    <2>3. (a * g[e - 1]) * nums[e] = a * (g[e - 1] * nums[e])
      BY <1>0, <1>3, <2>2, Zenon
    <2> QED BY <2>1, <2>2, <2>3, Zenon
  <1>5. w[0] = a /\ w[n] = a * g[n] /\ w[n] \in Int
    BY <1>0, <1>1 DEF Products
  <1>6. w = [e \in 0 .. n |-> w[e]]
    OBVIOUS
  <1> HIDE DEF w
  <1>7. w = [e \in 0 .. n |-> IF e = 0 THEN nums[1] ELSE w[e - 1] * nums[e]]
    <2>1. ASSUME NEW e \in 0 .. n
          PROVE  w[e] = IF e = 0 THEN nums[1] ELSE w[e - 1] * nums[e]
      <3>1. CASE e = 0
        BY <1>5, <3>1 DEF a
      <3>2. CASE e # 0
        <4>1. e \in 1 .. n
          BY <3>2
        <4> QED BY <1>4, <3>2, <4>1
      <3> QED BY <3>1, <3>2
    <2> QED BY <1>6, <2>1
  <1>8. R = [e \in 0 .. n |-> IF e = 0 THEN nums[1] ELSE R[e - 1] * nums[e]]
    BY <1>7
  <1> HIDE DEF R
  <1>9. R[0] = a /\ \A e \in 1 .. n : R[e] = R[e - 1] * nums[e]
    BY <1>0, <1>8 DEF a
  <1> DEFINE Z == {k \in Nat : k <= n => R[k] = w[k]}
  <1>10. 0 \in Z
    BY <1>5, <1>9
  <1>11. ASSUME NEW k \in Nat, k \in Z PROVE k + 1 \in Z
    <2> SUFFICES ASSUME k + 1 <= n PROVE R[k + 1] = w[k + 1]
      OBVIOUS
    <2>1. PICK j \in 1 .. n : j = k + 1 /\ j - 1 = k
      OBVIOUS
    <2>2. R[j - 1] = w[j - 1]
      BY <1>0, <1>11, <2>1
    <2>3. R[j] = R[j - 1] * nums[j] /\ w[j] = w[j - 1] * nums[j]
      BY <1>4, <1>9
    <2> QED BY <2>1, <2>2, <2>3
  <1> HIDE DEF Z
  <1>12. n \in Z
    BY <1>0, <1>10, <1>11, SetInduction
  <1>13. R[n] = w[n]
    BY <1>12 DEF Z
  <1> QED BY <1>2, <1>5, <1>13 DEF multi, R, n, a

(* calc() returns what it should.                                          *)
LEMMA CalcIsRight ==
    ASSUME NEW nums \in Seq(Operands), NEW op \in Ops,
           NEW result \in calc(nums, op)
    PROVE  result \in Int /\ (nums # <<>> => result = Value(nums, op))
  <1>1. CASE nums = <<>>
    BY <1>1, OpAssumption DEF calc
  <1>2. CASE nums # <<>>
    <2>1. nums \in Seq(Int)
      <3>1. Len(nums) \in Nat /\ nums \in [1 .. Len(nums) -> Operands]
        OBVIOUS
      <3>2. nums \in [1 .. Len(nums) -> Int]
        BY <3>1, OpAssumption
      <3> QED BY <3>1, <3>2
    <2>2. result = CASE op = "*" -> multi(nums)
                     [] op = "+" -> add(nums)
                     [] op = "-" -> sub(nums)
      BY <1>2, Zenon DEF calc
    <2>3. CASE op = "*"
      BY <1>2, <2>1, <2>2, <2>3, MultiIsProduct DEF Value
    <2>4. CASE op = "+"
      BY <1>2, <2>1, <2>2, <2>4, AddIsSum DEF Value
    <2>5. CASE op = "-"
      BY <1>2, <2>1, <2>2, <2>5, SubIsDifference DEF Value
    <2> QED BY <2>3, <2>4, <2>5 DEF Ops
  <1> QED BY <1>1, <1>2

(* The cells of a request, and those of its operands and operator.         *)
OpCells == Int \cup Ops \cup {"/"}
Body(r) == r.nums \o <<r.op>>

(* The answer of client k, if it has one, is that of its own request.      *)
Right(k) ==
    LET r == oclients[k].req
    IN  oclients[k].st = "done" =>
            /\ r.op \in Ops
            /\ Len(r.nums) > 0 => oclients[k].res = Value(r.nums, r.op)

(* Clients in the backlog are there once and wait to be served, and the    *)
(* server has a client exactly while it counts, receives or spins.         *)
Queued ==
    /\ obacklog \in Seq(OpClients)
    /\ \A e, j \in 1 .. Len(obacklog) : obacklog[e] = obacklog[j] => e = j
    /\ \A e \in 1 .. Len(obacklog) :
          /\ obacklog[e] # peer
          /\ oclients[obacklog[e]].st \in {"typing", "waiting", "gone"}
    /\ opc \in {"accept", "end"} => peer = 0
    /\ opc \in {"count", "recv"} => peer \in OpClients /\ turn < Serves

(* Where the request of client k is: not sent, whole on the stream, or, of *)
(* the client the server receives from, the count in opnd_cnt and the rest *)
(* divided between opmsg and the stream.                                   *)
OnItsWay(k) ==
    LET c == oclients[k]
    IN  /\ c.st \in {"new", "typing", "gone"} => stream[k] = <<>>
        /\ c.st \in {"new", "done"} => k # peer
        /\ c.st = "waiting" =>
              /\ c.req \in Requests
              /\ k # peer \/ opc = "count" =>
                    stream[k] = <<Len(c.req.nums)>> \o Body(c.req)
              /\ k = peer /\ opc = "recv" =>
                    /\ opnd_cnt = Len(c.req.nums)
                    /\ opmsg \o stream[k] = Body(c.req)
        /\ k = peer /\ opc = "recv" =>
              \/ c.st = "waiting"
              \/ c.st = "gone" /\ opmsg = <<>>

OpInv ==
    /\ OpTypeOK
    /\ opmsg \in Seq(OpCells) /\ stream \in [OpClients -> Seq(OpCells)]
    /\ Queued
    /\ \A k \in OpClients : OnItsWay(k) /\ Right(k)

(* A request's operands and cells.                                         *)
LEMMA RequestType ==
    ASSUME NEW r \in Requests
    PROVE  /\ r.nums \in Seq(Operands) /\ r.op \in Ops \cup {"/"}
           /\ Len(r.nums) \in Nat /\ Len(r.nums) \in 0 .. MaxOpnd
           /\ r.nums \in Seq(OpCells) /\ <<r.op>> \in Seq(OpCells)
           /\ <<Len(r.nums)>> \in Seq(OpCells)
           /\ Body(r) \in Seq(OpCells) /\ Body(r) # <<>>
           /\ <<Len(r.nums)>> \o Body(r) \in Seq(OpCells)
           /\ Head(<<Len(r.nums)>> \o Body(r)) = Len(r.nums)
           /\ Tail(<<Len(r.nums)>> \o Body(r)) = Body(r)
           /\ r # Nothing
  <1>1. r.nums \in BoundedSeq(Operands, MaxOpnd) /\ r.op \in Ops \cup {"/"}
    BY DEF Requests
  <1>2. PICK m \in 0 .. MaxOpnd : r.nums \in [1 .. m -> Operands]
    BY <1>1 DEF BoundedSeq, SeqOf
  <1>3. r.nums \in Seq(Operands) /\ Len(r.nums) = m
    BY <1>2, OpAssumption
  <1>4. r.nums \in Seq(OpCells)
    <2>1. r.nums \in [1 .. m -> OpCells]
      BY <1>2, OpAssumption DEF OpCells
    <2> QED BY <2>1, OpAssumption
  <1>5. r.op \in OpCells
    BY <1>1 DEF OpCells
  <1>6. Body(r) \in Seq(OpCells) /\ Body(r) # <<>>
    BY <1>4, <1>5 DEF Body
  <1>7. Len(r.nums) \in OpCells
    BY <1>2, <1>3 DEF OpCells
  <1> DEFINE s == <<Len(r.nums)>> \o Body(r)
  <1>8. s \in Seq(OpCells) /\ Head(s) = Len(r.nums) /\ Tail(s) = Body(r)
    BY <1>6, <1>7
  <1>9. r # Nothing
    BY <1>1 DEF Nothing, Ops
  <1>10. <<r.op>> \in Seq(OpCells) /\ <<Len(r.nums)>> \in Seq(OpCells)
    BY <1>5, <1>7
  <1> QED BY <1>1, <1>2, <1>3, <1>4, <1>6, <1>8, <1>9, <1>10

(* Three sequences of cells can be joined in either order.                 *)
LEMMA ThreeJoined ==
    \A x, y, z \in Seq(OpCells) : (x \o y) \o z = x \o (y \o z)
  BY ConcatAssociative

(* A sequence that is cut in two is joined again.                          *)
LEMMA CutJoined ==
    ASSUME NEW S, NEW s \in Seq(S), NEW n \in Nat, n <= Len(s)
    PROVE  /\ SubSeq(s, 1, n) \in Seq(S) /\ SubSeq(s, n + 1, Len(s)) \in Seq(S)
           /\ SubSeq(s, 1, n) \o SubSeq(s, n + 1, Len(s)) = s
  <1>1. 1 \in 1 .. Len(s) + 1 /\ n \in 1 - 1 .. Len(s)
        /\ Len(s) \in n .. Len(s)
    OBVIOUS
  <1>2. SubSeq(s, 1, n) \o SubSeq(s, n + 1, Len(s)) = SubSeq(s, 1, Len(s))
    BY <1>1, ConcatAdjacentSubSeq, Zenon
  <1>3. SubSeq(s, 1, Len(s)) = s
    OBVIOUS
  <1>4. SubSeq(s, 1, n) \in Seq(S) /\ SubSeq(s, n + 1, Len(s)) \in Seq(S)
    OBVIOUS
  <1> QED BY <1>2, <1>3, <1>4, Zenon

(* The server and the clients start with nothing sent.                     *)
LEMMA OpStarts == OpInit => OpInv
  BY OpAssumption
     DEF OpInit, OpInv, OpTypeOK, Queued, OnItsWay, Right, OpClients

(* A step of client k that leaves the server's state alone.                *)
LEMMA OpConnectKeeps ==
    ASSUME OpInv, NEW k \in OpClients, OpConnect(k) PROVE OpInv'
  <1> USE DEF OpInv
  <1>1. OpTypeOK'
    BY DEF OpConnect, OpTypeOK
  <1>2. opmsg' \in Seq(OpCells) /\ stream' \in [OpClients -> Seq(OpCells)]
    BY DEF OpConnect
  <1>3. /\ oclients[k].st = "new" /\ oclients'[k].st = "typing"
        /\ \A j \in OpClients : j # k => oclients'[j] = oclients[j]
    BY DEF OpConnect, OpTypeOK
  <1>4. k # peer
    BY <1>3 DEF OnItsWay
  <1>5. Queued'
    <2>1. obacklog' \in Seq(OpClients) /\ Len(obacklog') = Len(obacklog) + 1
      BY DEF OpConnect, Queued
    <2>2. /\ obacklog'[Len(obacklog) + 1] = k
          /\ \A e \in 1 .. Len(obacklog) : obacklog'[e] = obacklog[e]
      BY DEF OpConnect, Queued
    <2>3. \A e \in 1 .. Len(obacklog) : obacklog[e] # k
      BY <1>3 DEF Queued
    <2>4. UNCHANGED <<opc, peer, turn>>
      BY DEF OpConnect
    <2>5. \A e \in 1 .. Len(obacklog) : obacklog[e] \in OpClients
      BY DEF Queued
    <2>6. ASSUME NEW e \in 1 .. Len(obacklog')
          PROVE  \/ e \in 1 .. Len(obacklog) /\ obacklog'[e] = obacklog[e]
                 \/ e = Len(obacklog) + 1 /\ obacklog'[e] = k
      BY <2>1, <2>2
    <2>7. ASSUME NEW e \in 1 .. Len(obacklog')
          PROVE  /\ obacklog'[e] # peer
                 /\ oclients'[obacklog'[e]].st
                       \in {"typing", "waiting", "gone"}
      <3>1. CASE e = Len(obacklog) + 1 /\ obacklog'[e] = k
        BY <1>3, <1>4, <3>1
      <3>2. CASE e \in 1 .. Len(obacklog) /\ obacklog'[e] = obacklog[e]
        BY <1>3, <2>3, <2>5, <3>2 DEF Queued
      <3> QED BY <2>6, <3>1, <3>2
    <2>8. ASSUME NEW e \in 1 .. Len(obacklog'), NEW j \in 1 .. Len(obacklog'),
                 obacklog'[e] = obacklog'[j]
          PROVE  e = j
      BY <2>3, <2>6, <2>8 DEF Queued
    <2> QED BY <2>1, <2>4, <2>7, <2>8 DEF Queued
  <1>6. ASSUME NEW j \in OpClients PROVE OnItsWay(j)' /\ Right(j)'
    <2>1. UNCHANGED <<opc, peer, stream, opnd_cnt, opmsg>>
      BY DEF OpConnect
    <2>2. CASE j = k
      BY <1>3, <1>4, <2>1, <2>2 DEF OnItsWay, Right
    <2>3. CASE j # k
      BY <1>3, <2>1, <2>3 DEF OnItsWay, Right
    <2> QED BY <2>2, <2>3
  <1> QED BY <1>1, <1>2, <1>5, <1>6

(* A client writes its request.                                            *)
LEMMA OpSendKeeps ==
    ASSUME OpInv, NEW k \in OpClients, NEW r \in Requests, OpSend(k, r)
    PROVE  OpInv'
  <1> USE DEF OpInv
  <1> DEFINE s == <<Len(r.nums)>> \o Body(r)
  <1>0. s = <<Len(r.nums)>> \o r.nums \o <<r.op>> /\ s \in Seq(OpCells)
    <2> DEFINE x == <<Len(r.nums)>>
               y == r.nums
               z == <<r.op>>
    <2>1. x \in Seq(OpCells) /\ y \in Seq(OpCells) /\ z \in Seq(OpCells)
      BY RequestType
    <2> HIDE DEF x, y, z
    <2>2. (x \o y) \o z = x \o (y \o z)
      BY <2>1, ThreeJoined, Zenon
    <2> QED BY <2>2, RequestType DEF Body, x, y, z
  <1> HIDE DEF s
  <1>1. OpTypeOK'
    BY DEF OpSend, OpTypeOK
  <1>2. /\ stream'[k] = s
        /\ \A j \in OpClients : j # k => stream'[j] = stream[j]
        /\ opmsg' \in Seq(OpCells) /\ stream' \in [OpClients -> Seq(OpCells)]
    BY <1>0 DEF OpSend
  <1>3. /\ oclients[k].st = "typing"
        /\ oclients'[k].st = "waiting" /\ oclients'[k].req = r
        /\ \A j \in OpClients : j # k => oclients'[j] = oclients[j]
    BY DEF OpSend, OpTypeOK
  <1>4. UNCHANGED <<opc, turn, peer, opnd_cnt, opmsg, obacklog>>
    BY DEF OpSend
  <1>5. Queued'
    <2>1. ASSUME NEW e \in 1 .. Len(obacklog)
          PROVE  oclients'[obacklog[e]].st \in {"typing", "waiting", "gone"}
      <3>1. obacklog[e] \in OpClients
        BY DEF Queued
      <3>2. CASE obacklog[e] = k
        BY <1>3, <3>2
      <3>3. CASE obacklog[e] # k
        BY <1>3, <3>1, <3>3 DEF Queued
      <3> QED BY <3>2, <3>3
    <2> QED BY <1>4, <2>1 DEF Queued
  <1>6. ASSUME NEW j \in OpClients PROVE OnItsWay(j)' /\ Right(j)'
    <2>1. CASE j = k
      <3>1. ~ (k = peer /\ opc = "recv")
        BY <1>3 DEF OnItsWay
      <3>2. stream'[k] =
                <<Len(oclients'[k].req.nums)>> \o Body(oclients'[k].req)
        BY <1>2, <1>3 DEF s, Body
      <3> QED BY <1>3, <1>4, <2>1, <3>1, <3>2 DEF OnItsWay, Right
    <2>2. CASE j # k
      BY <1>2, <1>3, <1>4, <2>2 DEF OnItsWay, Right
    <2> QED BY <2>1, <2>2
  <1> QED BY <1>1, <1>2, <1>5, <1>6

(* A client leaves before it wrote anything.                               *)
LEMMA OpAbortKeeps ==
    ASSUME OpInv, NEW k \in OpClients, OpAbort(k) PROVE OpInv'
  <1> USE DEF OpInv
  <1>1. OpTypeOK'
    BY DEF OpAbort, OpTypeOK
  <1>2. UNCHANGED <<opc, turn, peer, opnd_cnt, opmsg, obacklog, stream>>
    BY DEF OpAbort
  <1>3. /\ oclients[k].st = "typing" /\ oclients'[k].st = "gone"
        /\ \A j \in OpClients : j # k => oclients'[j] = oclients[j]
    BY DEF OpAbort, OpTypeOK
  <1>4. Queued'
    <2>1. ASSUME NEW e \in 1 .. Len(obacklog)
          PROVE  oclients'[obacklog[e]].st \in {"typing", "waiting", "gone"}
      <3>1. obacklog[e] \in OpClients
        BY DEF Queued
      <3>2. CASE obacklog[e] = k
        BY <1>3, <3>2
      <3>3. CASE obacklog[e] # k
        BY <1>3, <3>1, <3>3 DEF Queued
      <3> QED BY <3>2, <3>3
    <2> QED BY <1>2, <2>1 DEF Queued
  <1>5. ASSUME NEW j \in OpClients PROVE OnItsWay(j)' /\ Right(j)'
    <2>1. CASE j = k
      BY <1>2, <1>3, <2>1 DEF OnItsWay, Right
    <2>2. CASE j # k
      BY <1>2, <1>3, <2>2 DEF OnItsWay, Right
    <2> QED BY <2>1, <2>2
  <1> QED BY <1>1, <1>2, <1>4, <1>5

(* The server takes the first client of the backlog.                       *)
LEMMA OpAcceptKeeps == OpInv /\ OpAccept => OpInv'
  <1> SUFFICES ASSUME OpInv, OpAccept PROVE OpInv'
    OBVIOUS
  <1> USE DEF OpInv
  <1>1. /\ opc = "accept" /\ opc' = "count" /\ turn < Serves /\ peer = 0
        /\ obacklog \in Seq(OpClients) /\ obacklog # <<>>
        /\ peer' = Head(obacklog) /\ obacklog' = Tail(obacklog)
        /\ UNCHANGED <<turn, opnd_cnt, opmsg, oclients, stream>>
    BY DEF OpAccept, Queued
  <1>2. /\ peer' = obacklog[1] /\ Len(obacklog) >= 1
        /\ peer' \in OpClients /\ obacklog' \in Seq(OpClients)
        /\ Len(obacklog') = Len(obacklog) - 1
        /\ \A e \in 1 .. Len(obacklog') : obacklog'[e] = obacklog[e + 1]
    BY <1>1
  <1>3. OpTypeOK'
    BY <1>1, <1>2 DEF OpTypeOK, OpClients
  <1>4. Queued'
    <2>1. ASSUME NEW e \in 1 .. Len(obacklog')
          PROVE  /\ e + 1 \in 1 .. Len(obacklog) /\ 1 \in 1 .. Len(obacklog)
                 /\ obacklog'[e] = obacklog[e + 1] /\ e + 1 # 1
      BY <1>1, <1>2
    <2>2. ASSUME NEW e \in 1 .. Len(obacklog')
          PROVE  /\ obacklog'[e] # peer'
                 /\ oclients[obacklog'[e]].st \in {"typing", "waiting", "gone"}
      BY <1>2, <2>1 DEF Queued
    <2>3. ASSUME NEW e \in 1 .. Len(obacklog'), NEW j \in 1 .. Len(obacklog'),
                 obacklog'[e] = obacklog'[j]
          PROVE  e = j
      <3>1. /\ e + 1 \in 1 .. Len(obacklog) /\ j + 1 \in 1 .. Len(obacklog)
            /\ obacklog[e + 1] = obacklog[j + 1]
        BY <2>1, <2>3
      <3>2. e + 1 = j + 1
        BY <3>1 DEF Queued
      <3> QED BY <3>2
    <2> QED BY <1>1, <1>2, <2>2, <2>3 DEF Queued
  <1>5. oclients[peer'].st \in {"typing", "waiting", "gone"}
    <2>1. 1 \in 1 .. Len(obacklog)
      BY <1>1, <1>2
    <2> QED BY <1>2, <2>1 DEF Queued
  <1>6. ASSUME NEW k \in OpClients PROVE OnItsWay(k)' /\ Right(k)'
    <2>1. k # peer
      BY <1>1 DEF OpClients
    <2> QED BY <1>1, <1>5, <2>1 DEF OnItsWay, Right
  <1> QED BY <1>1, <1>3, <1>4, <1>6

(* It reads the count, or the end of the stream of a client that left.     *)
LEMMA OpCountKeeps == OpInv /\ OpCount => OpInv'
  <1> SUFFICES ASSUME OpInv, OpCount PROVE OpInv'
    OBVIOUS
  <1> USE DEF OpInv
  <1>1. /\ opc = "count" /\ opc' = "recv" /\ opmsg' = <<>>
        /\ peer \in OpClients /\ turn < Serves
        /\ UNCHANGED <<turn, peer, oclients, obacklog>>
    BY DEF OpCount, Queued
  <1>2. oclients[peer].st \in {"new", "typing", "waiting", "done", "gone"}
    BY <1>1 DEF OpTypeOK
  <1>3. Queued'
    BY <1>1 DEF Queued
  <1>4. CASE stream[peer] # <<>>
    <2> DEFINE r == oclients[peer].req
    <2>1. oclients[peer].st = "waiting" /\ r \in Requests
      BY <1>1, <1>2, <1>4 DEF OnItsWay
    <2>2. stream[peer] = <<Len(r.nums)>> \o Body(r)
      BY <1>1, <2>1 DEF OnItsWay
    <2>3. /\ opnd_cnt' = Len(r.nums)
          /\ stream' = [stream EXCEPT ![peer] = Body(r)]
      BY <1>1, <1>4, <2>1, <2>2, RequestType DEF OpCount
    <2>4. /\ Body(r) \in Seq(OpCells) /\ Len(r.nums) \in 0 .. MaxOpnd
      BY <2>1, RequestType
    <2>5. opmsg' \o Body(r) = Body(r) /\ opmsg' \in Seq(OpCells)
      BY <1>1, <2>4
    <2>6. stream'[peer] = Body(r)
      BY <1>1, <2>3
    <2>7. OpTypeOK'
      BY <1>1, <2>3, <2>4 DEF OpTypeOK
    <2>8. stream' \in [OpClients -> Seq(OpCells)]
      BY <2>3, <2>4
    <2>9. ASSUME NEW k \in OpClients PROVE OnItsWay(k)' /\ Right(k)'
      <3>1. CASE k = peer
        BY <1>1, <2>1, <2>3, <2>5, <2>6, <3>1 DEF OnItsWay, Right
      <3>2. CASE k # peer
        <4>1. stream'[k] = stream[k]
          BY <2>3, <3>2
        <4> QED BY <1>1, <3>2, <4>1 DEF OnItsWay, Right
      <3> QED BY <3>1, <3>2
    <2> QED BY <1>3, <2>5, <2>7, <2>8, <2>9
  <1>5. CASE stream[peer] = <<>>
    <2>1. opnd_cnt' = 0 /\ UNCHANGED stream /\ oclients[peer].st = "gone"
      BY <1>5 DEF OpCount
    <2>2. OpTypeOK'
      BY <1>1, <2>1, OpAssumption DEF OpTypeOK
    <2>3. ASSUME NEW k \in OpClients PROVE OnItsWay(k)' /\ Right(k)'
      BY <1>1, <2>1 DEF OnItsWay, Right
    <2> QED BY <1>1, <1>3, <2>1, <2>2, <2>3
  <1> QED BY <1>4, <1>5

(* It reads n more cells.                                                  *)
LEMMA OpRecvKeeps ==
    ASSUME OpInv, NEW n \in 1 .. MaxOpnd + 1, OpRecv(n) PROVE OpInv'
  <1> USE DEF OpInv
  <1> DEFINE s == stream[peer]
             a == SubSeq(s, 1, n)
             b == SubSeq(s, n + 1, Len(s))
  <1>1. /\ opc = "recv" /\ n <= Len(s) /\ peer \in OpClients
        /\ opmsg' = opmsg \o a /\ stream' = [stream EXCEPT ![peer] = b]
        /\ UNCHANGED <<opc, turn, peer, opnd_cnt, oclients, obacklog>>
    BY DEF OpRecv, Queued
  <1>2. s \in Seq(OpCells) /\ n \in Nat /\ n >= 1
    BY <1>1, OpAssumption
  <1> HIDE DEF s
  <1>3. a \in Seq(OpCells) /\ b \in Seq(OpCells) /\ a \o b = s
    BY <1>1, <1>2, CutJoined
  <1> HIDE DEF a, b
  <1>4. oclients[peer].st = "waiting"
    <2>1. s # <<>>
      BY <1>1, <1>2
    <2> QED BY <1>1, <2>1 DEF OnItsWay, s
  <1>5. opmsg' \in Seq(OpCells) /\ stream' \in [OpClients -> Seq(OpCells)]
    BY <1>1, <1>3
  <1>6. opmsg' \o b = opmsg \o s
    <2>1. opmsg \in Seq(OpCells)
      OBVIOUS
    <2>2. (opmsg \o a) \o b = opmsg \o (a \o b)
      BY <1>3, <2>1, ThreeJoined, Zenon
    <2> QED BY <1>1, <1>3, <2>2
  <1>7. ASSUME NEW k \in OpClients PROVE OnItsWay(k)' /\ Right(k)'
    <2>1. CASE k = peer
      <3>1. stream'[k] = b
        BY <1>1, <2>1
      <3>2. opmsg' \o stream'[k] = opmsg \o stream[k]
        BY <1>6, <2>1, <3>1 DEF s
      <3> QED BY <1>1, <1>4, <2>1, <3>2 DEF OnItsWay, Right
    <2>2. CASE k # peer
      <3>1. stream'[k] = stream[k]
        BY <1>1, <2>2
      <3> QED BY <1>1, <2>2, <3>1 DEF OnItsWay, Right
    <2> QED BY <2>1, <2>2
  <1>8. OpTypeOK' /\ Queued'
    BY <1>1 DEF OpTypeOK, Queued
  <1> QED BY <1>5, <1>7, <1>8

(* What is complete is the whole request.                                  *)
LEMMA WholeRequest ==
    ASSUME NEW r \in Requests, NEW m \in Seq(OpCells), NEW s \in Seq(OpCells),
           m \o s = Body(r), Len(m) >= Len(r.nums) + 1
    PROVE  Last(m) = r.op /\ SubSeq(m, 1, Len(r.nums)) = r.nums
  <1> DEFINE n == Len(r.nums)
  <1>1. n \in Nat /\ r.nums \in Seq(Operands)
    BY RequestType
  <1>2. Len(Body(r)) = n + 1 /\ Body(r)[n + 1] = r.op
        /\ \A e \in 1 .. n : Body(r)[e] = r.nums[e]
    BY <1>1 DEF Body
  <1>3. Len(m) \in Nat /\ Len(s) \in Nat /\ Len(m \o s) = Len(m) + Len(s)
        /\ \A e \in 1 .. Len(m) : (m \o s)[e] = m[e]
    OBVIOUS
  <1>4. Len(m) = n + 1 /\ \A e \in 1 .. n + 1 : m[e] = Body(r)[e]
    BY <1>1, <1>2, <1>3
  <1>5. Last(m) = r.op
    BY <1>1, <1>2, <1>4 DEF Last
  <1>6. SubSeq(m, 1, n) \in Seq(OpCells) /\ Len(SubSeq(m, 1, n)) = n
        /\ \A e \in 1 .. n : SubSeq(m, 1, n)[e] = m[e]
    BY <1>1, <1>4
  <1>7. SubSeq(m, 1, n) = r.nums
    BY <1>1, <1>2, <1>4, <1>6
  <1> QED BY <1>5, <1>7

(* It answers the client.                                                  *)
LEMMA OpAnswerKeeps == OpInv /\ OpAnswer => OpInv'
  <1> SUFFICES ASSUME OpInv, OpAnswer PROVE OpInv'
    OBVIOUS
  <1> USE DEF OpInv
  <1> DEFINE r == oclients[peer].req
  <1>1. /\ opc = "recv" /\ ~ Incomplete /\ peer \in OpClients
        /\ turn < Serves
        /\ UNCHANGED <<opnd_cnt, opmsg, obacklog, stream>>
    BY DEF OpAnswer, Queued
  <1>2. Len(opmsg) \in Nat /\ opnd_cnt \in Nat /\ Len(opmsg) >= opnd_cnt + 1
    BY <1>1, OpAssumption DEF Incomplete, OpTypeOK
  <1>3. oclients[peer].st = "waiting"
    <2>1. opmsg # <<>>
      BY <1>2
    <2> QED BY <1>1, <2>1 DEF OnItsWay
  <1>4. /\ r \in Requests /\ opnd_cnt = Len(r.nums)
        /\ opmsg \o stream[peer] = Body(r)
    BY <1>1, <1>3 DEF OnItsWay
  <1>5. Last(opmsg) = r.op /\ SubSeq(opmsg, 1, opnd_cnt) = r.nums
    BY <1>1, <1>2, <1>4, WholeRequest
  <1>6. CASE r.op \in Ops
    <2>1. PICK result \in calc(r.nums, r.op) :
              oclients' = [oclients EXCEPT ![peer].st = "done",
                                           ![peer].res = result]
      BY <1>5, <1>6 DEF OpAnswer
    <2>2. /\ turn' = turn + 1 /\ peer' = 0
          /\ opc' = IF turn + 1 = Serves THEN "end" ELSE "accept"
      BY <1>5, <1>6 DEF OpAnswer
    <2>3. result \in Int /\ (r.nums # <<>> => result = Value(r.nums, r.op))
      BY <1>4, <1>6, RequestType, CalcIsRight
    <2>4. /\ oclients'[peer].st = "done" /\ oclients'[peer].res = result
          /\ oclients'[peer].req = r
          /\ \A k \in OpClients : k # peer => oclients'[k] = oclients[k]
      BY <1>1, <2>1 DEF OpTypeOK
    <2>5. OpTypeOK'
      <3>1. turn' \in 0 .. Serves /\ peer' \in 0 .. Serves
        BY <1>1, <2>2, OpAssumption DEF OpTypeOK
      <3> QED BY <1>1, <2>1, <2>2, <2>3, <3>1 DEF OpTypeOK
    <2>6. Queued'
      <3>1. ASSUME NEW e \in 1 .. Len(obacklog)
            PROVE  /\ obacklog[e] # peer'
                   /\ oclients'[obacklog[e]] = oclients[obacklog[e]]
        <4>1. obacklog[e] \in OpClients /\ obacklog[e] # peer
          BY DEF Queued
        <4> QED BY <2>2, <2>4, <4>1 DEF OpClients
      <3>2. opc' \in {"accept", "end"}
        BY <2>2
      <3> QED BY <1>1, <2>2, <3>1, <3>2 DEF Queued
    <2>7. ASSUME NEW k \in OpClients PROVE OnItsWay(k)' /\ Right(k)'
      <3>1. k # peer' /\ opc' \in {"accept", "end"}
        BY <2>2 DEF OpClients
      <3>2. CASE k = peer
        <4>1. Len(r.nums) > 0 => r.nums # <<>>
          BY <1>4, RequestType
        <4> QED BY <1>6, <2>3, <2>4, <3>1, <3>2, <4>1 DEF OnItsWay, Right
      <3>3. CASE k # peer
        BY <1>1, <2>4, <3>1, <3>3 DEF OnItsWay, Right
      <3> QED BY <3>2, <3>3
    <2> QED BY <1>1, <2>5, <2>6, <2>7
  <1>7. CASE r.op \notin Ops
    <2>1. opc' = "dead" /\ UNCHANGED <<turn, peer, oclients>>
      BY <1>5, <1>7 DEF OpAnswer
    <2>2. OpTypeOK' /\ Queued'
      BY <1>1, <2>1 DEF OpTypeOK, Queued
    <2>3. ASSUME NEW k \in OpClients PROVE OnItsWay(k)' /\ Right(k)'
      BY <1>1, <1>3, <2>1 DEF OnItsWay, Right
    <2> QED BY <1>1, <2>2, <2>3
  <1> QED BY <1>6, <1>7

(* Every step of the calculator keeps the invariant.                       *)
LEMMA OpStep == OpInv /\ [OpNext]_opVars => OpInv'
  <1> SUFFICES ASSUME OpInv, [OpNext]_opVars PROVE OpInv'
    OBVIOUS
  <1>1. CASE OpServerStep
    BY <1>1, OpAcceptKeeps, OpCountKeeps, OpAnswerKeeps, OpRecvKeeps
       DEF OpServerStep
  <1>2. CASE OpClientStep
    BY <1>2, OpConnectKeeps, OpAbortKeeps, OpSendKeeps DEF OpClientStep
  <1>3. CASE UNCHANGED opVars
    BY <1>3 DEF opVars, OpInv, OpTypeOK, Queued, OnItsWay, Right
  <1> QED BY <1>1, <1>2, <1>3 DEF OpNext

(* The invariant says what the run checks.                                 *)
LEMMA OpInvMeans == OpInv => OpAnswersRight
  <1> SUFFICES ASSUME OpInv PROVE OpAnswersRight
    OBVIOUS
  <1>1. OpTypeOK /\ \A k \in OpClients : Right(k)
    BY DEF OpInv
  <1> QED BY <1>1 DEF OpAnswersRight, Right, Value, SumTo, ProdTo

(* Every client of the calculator that is answered gets the value of its   *)
(* own request, for every number of clients and operands, every operand    *)
(* and every way the stream is cut.                                        *)
THEOREM CalculatorAnswersRight == OpSpec => []OpAnswersRight
  <1>1. OpInv => OpAnswersRight
    BY OpInvMeans
  <1> QED BY <1>1, OpStarts, OpStep, PTL DEF OpSpec

-----------------------------------------------------------------------------
(* mp-cs                                                                   *)

(* Until both are connected nothing is under way.  The parent waits for    *)
(* the server first, and a server never comes back.                        *)
McsInv ==
    /\ McsInStep
    /\ ms = "init" => mc \in {"init", "refused"}
    /\ mc = "init" => ms \in {"init", "accept", "exit"}
    /\ mc = "recv" => mi < McsRounds
    /\ mc = "refused" => ms \in {"init", "accept", "exit"}
    /\ mc = "killed" => ms = "exit"
    /\ mwait = "pid2" => ms = "exit"

(* The invariant holds before the first step of the three processes, ...   *)
LEMMA McsStarts == McsInit => McsInv
  BY McsAssumption DEF McsInit, McsInv, McsInStep, McsTypeOK, One

(* ... every step of the server keeps it, ...                              *)
LEMMA McsServerKeeps == McsInv /\ McsServer => McsInv'
  <1> SUFFICES ASSUME McsInv, McsServer PROVE McsInv'
    OBVIOUS
  <1> USE DEF McsInv, McsInStep, McsTypeOK, One
  <1>1. CASE McsListen
    BY <1>1 DEF McsListen
  <1>2. CASE McsAccept
    BY <1>2 DEF McsAccept
  <1>3. CASE McsEcho
    BY <1>3 DEF McsEcho
  <1>4. CASE McsHangup
    BY <1>4 DEF McsHangup
  <1> QED BY <1>1, <1>2, <1>3, <1>4 DEF McsServer

(* ... every step of the client, ...                                       *)
LEMMA McsClientKeeps == McsInv /\ McsClient => McsInv'
  <1> SUFFICES ASSUME McsInv, McsClient PROVE McsInv'
    OBVIOUS
  <1> USE McsAssumption DEF McsInv, McsInStep, McsTypeOK, One
  <1>1. CASE McsConnect
    BY <1>1 DEF McsConnect
  <1>2. CASE McsSend
    BY <1>2 DEF McsSend
  <1>3. CASE McsRecv
    BY <1>3 DEF McsRecv
  <1> QED BY <1>1, <1>2, <1>3 DEF McsClient

(* ... and the parent, which only waits.                                   *)
LEMMA McsParentKeeps == McsInv /\ (McsWait \/ UNCHANGED mcsVars) => McsInv'
  <1> SUFFICES ASSUME McsInv, McsWait \/ UNCHANGED mcsVars PROVE McsInv'
    OBVIOUS
  <1> USE DEF McsInv, McsInStep, McsTypeOK, One
  <1>1. CASE McsWait
    BY <1>1 DEF McsWait
  <1>2. CASE UNCHANGED mcsVars
    BY <1>2 DEF mcsVars
  <1> QED BY <1>1, <1>2

(* So it always holds.                                                     *)
LEMMA McsInvariant == McsSpec => []McsInv
  <1>1. McsInv /\ [McsNext]_mcsVars => McsInv'
    BY McsServerKeeps, McsClientKeeps, McsParentKeeps DEF McsNext
  <1> QED BY McsStarts, <1>1, PTL DEF McsSpec

(* The client and the server of mp-cs.c take turns while the server lives, *)
(* a client that ends by itself has done all its rounds, and the parent ends*)
(* last, for every number of rounds.                                       *)
THEOREM McsTakesTurns == McsSpec => []McsInStep
  <1>1. McsInv => McsInStep
    BY DEF McsInv
  <1> QED BY McsInvariant, <1>1, PTL

(* A client that is too early leaves the server in accept() and the parent *)
(* in its first waitpid() for ever: there is no way out of that state.     *)
THEOREM McsStuckForEver == McsSpec => [](McsStuck => [](mwait # "exit"))
  <1>1. McsStuck /\ [McsNext]_mcsVars => McsStuck'
    BY DEF McsStuck, McsNext, McsServer, McsClient, McsListen, McsAccept,
           McsEcho, McsHangup, McsConnect, McsSend, McsRecv, McsWait, mcsVars
  <1>2. McsInv /\ McsStuck => mwait # "exit"
    BY DEF McsInv, McsInStep, McsStuck
  <1> QED BY McsInvariant, <1>1, <1>2, PTL DEF McsSpec

-----------------------------------------------------------------------------
(* os_exec                                                                 *)

(* The loop over the arguments ends at the first that is missing or at the *)
(* end of the array; the child is there when the parent waits for it.      *)
ExecInv ==
    /\ ExecSafe
    /\ given \in Nat
    /\ xpc = "args" => child = "none" /\ argv <= given + 1
    /\ xpc = "fork" => child = "none" /\ argv = given + 1 /\ argv < 16
    /\ xpc = "wait" => child # "none"

(* os_exec() of util.c runs no program without a NULL behind its arguments,*)
(* and without a signal leaves no child behind, however many arguments a   *)
(* call gives.                                                             *)
THEOREM ExecIsSafe == ExecSpec => []ExecSafe
  <1> USE DEF ExecInv, ExecSafe, ExecTypeOK
  <1>1. ExecInit => ExecInv
    BY ExecAssumption DEF ExecInit
  <1>2. ExecInv /\ [ExecNext]_execVars => ExecInv'
    <2> SUFFICES ASSUME ExecInv, [ExecNext]_execVars PROVE ExecInv'
      OBVIOUS
    <2>1. CASE ExecArg
      BY <2>1 DEF ExecArg
    <2>2. CASE ExecArgsEnd
      BY <2>2 DEF ExecArgsEnd, TooMany
    <2>3. CASE ExecFork
      BY <2>3 DEF ExecFork
    <2>4. CASE ExecChild
      BY <2>4 DEF ExecChild
    <2>5. CASE ExecWait
      BY <2>5 DEF ExecWait
    <2>6. CASE ExecInterrupted
      BY <2>6 DEF ExecInterrupted
    <2>7. CASE UNCHANGED execVars
      BY <2>7 DEF execVars
    <2> QED BY <2>1, <2>2, <2>3, <2>4, <2>5, <2>6, <2>7
        DEF ExecNext, ExecProgram
  <1>3. ExecInv => ExecSafe
    OBVIOUS
  <1> QED BY <1>1, <1>2, <1>3, PTL DEF ExecSpec
=============================================================================
