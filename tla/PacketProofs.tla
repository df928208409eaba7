---------------------------- MODULE PacketProofs ----------------------------
(***************************************************************************)
(* The packets: packet_buff stays within its data area and implements the  *)
(* stack, for every capacity and length that its uint32_t fields can       *)
(* record; the checksums of the headers and of crc16.cpp are what their    *)
(* standards say, for data of every length and contents.                   *)
(*                                                                         *)
(* The checksums are loops over their data.  A loop has values, one for    *)
(* each number of elements, which two loops that step alike share; and the *)
(* operator ^ has its laws, from the bits of a word.  With these the two   *)
(* CRC loops are compared step by step: a step of the tables is eight      *)
(* shifts, since a shift is linear, and every entry of the tables is the   *)
(* CRC of its index, bit by bit.  The Internet checksum completes the sum  *)
(* of the groups to a multiple of 65535.                                   *)
(***************************************************************************)
EXTENDS PacketBuff, Checksums, NatLemmas, SequenceTheorems, TLAPS

(* A new data area is one of zero bytes.                                   *)
LEMMA ZeroedType ==
    ASSUME NEW n \in Nat
    PROVE  Zeroed(n) \in [0 .. n - 1 -> Byte]
  BY PacketAssumption DEF Zeroed

(* The invariant holds of no packet_buff at all.                           *)
LEMMA InitPointers == Init => PointersInData
  <1> SUFFICES ASSUME Init PROVE PointersInData
    OBVIOUS
  <1>1. mem = Zeroed(end) /\ end \in Nat
    BY DEF Init
  <1>2. mem \in [0 .. end - 1 -> Byte]
    BY <1>1, ZeroedType
  <1>3. live \in BOOLEAN /\ ~live
    BY Zenon DEF Init
  <1>4. head = 0 /\ end = 0 /\ tail = 0 /\ data_len = 0 /\ capacity = 0
    BY DEF Init
  <1> QED BY <1>2, <1>3, <1>4 DEF PointersInData

(* A length the data area has room for is not changed by the uint32_t      *)
(* arithmetic of data_len.                                                 *)
LEMMA NoWrap ==
    ASSUME NEW m \in Nat, m < U32
    PROVE  m % U32 = m
  BY PacketAssumption

(* Every call keeps the pointers inside and the fields in agreement.       *)
LEMMA NextPointers ==
    ASSUME PointersInData, [Next]_vars
    PROVE  PointersInData'
  <1> USE PacketAssumption
  <1>1. ASSUME NEW n \in AllocSizes, pktb_alloc(n)
        PROVE  PointersInData'
    <2>1. CASE UNCHANGED <<live, head, end, tail, data_len, capacity, size, mem>>
      BY <2>1 DEF PointersInData
    <2>2. CASE ~UNCHANGED <<live, head, end, tail, data_len, capacity, size, mem>>
      <3>1. (Hdr + n) % U32 = Hdr + n /\ n % U32 = n
        BY NoWrap
      <3>2. mem' \in [0 .. n - 1 -> Byte]
        BY <1>1, <2>2, ZeroedType DEF pktb_alloc
      <3>3. /\ live' = TRUE /\ head' = 0 /\ end' = n /\ tail' = 0
            /\ data_len' = 0 /\ capacity' = n /\ size' = Hdr + n
        BY <1>1, <2>2, <3>1 DEF pktb_alloc
      <3> QED BY <3>2, <3>3 DEF PointersInData
    <2> QED BY <2>1, <2>2
  <1>2. CASE pktb_free
    <2>1. mem' = Zeroed(end') /\ end' \in Nat
      BY <1>2 DEF pktb_free
    <2>2. mem' \in [0 .. end' - 1 -> Byte]
      BY <2>1, ZeroedType
    <2>3. live' \in BOOLEAN /\ ~live'
      BY <1>2, Zenon DEF pktb_free
    <2>4. head' = 0 /\ end' = 0 /\ tail' = 0 /\ data_len' = 0 /\ capacity' = 0
      BY <1>2 DEF pktb_free
    <2> QED BY <2>2, <2>3, <2>4 DEF PointersInData
  <1>3. CASE pktb_reset
    BY <1>3 DEF PointersInData, pktb_reset
  <1>4. ASSUME NEW n \in Lens, pktb_push(n)
        PROVE  PointersInData'
    <2>1. CASE end - tail < n
      BY <1>4, <2>1 DEF PointersInData, pktb_push
    <2>2. CASE ~(end - tail < n)
      <3>1. (data_len + n) % U32 = data_len + n
        BY <1>4, <2>2, NoWrap DEF PointersInData, pktb_push
      <3> QED BY <1>4, <2>2, <3>1 DEF PointersInData, pktb_push
    <2> QED BY <2>1, <2>2
  <1>5. ASSUME NEW n \in Lens, pktb_pop(n)
        PROVE  PointersInData'
    <2>1. CASE tail - head < n
      BY <1>5, <2>1 DEF PointersInData, pktb_pop
    <2>2. CASE ~(tail - head < n)
      <3>1. (data_len - n) % U32 = data_len - n
        BY <1>5, <2>2, NoWrap DEF PointersInData, pktb_pop
      <3> QED BY <1>5, <2>2, <3>1 DEF PointersInData, pktb_pop
    <2> QED BY <2>1, <2>2
  <1>6. ASSUME NEW a \in head .. tail - 1, NEW v \in Byte, Pack(a, v)
        PROVE  PointersInData'
    BY <1>6 DEF PointersInData, Pack
  <1>7. CASE UNCHANGED vars
    BY <1>7 DEF PointersInData, vars
  <1> QED BY <1>1, <1>2, <1>3, <1>4, <1>5, <1>6, <1>7 DEF Next

(* The pointers of a packet_buff never leave its data area, and data_len,  *)
(* capacity and size agree with them after every sequence of calls.        *)
THEOREM PointersSafe == Spec => []PointersInData
  BY InitPointers, NextPointers, PTL DEF Spec

-----------------------------------------------------------------------------
(* The packet as a sequence of bytes.                                      *)
LEMMA PacketType ==
    ASSUME PointersInData
    PROVE  /\ Packet \in Seq(Byte)
           /\ Len(Packet) = tail - head
           /\ Len(Packet) \in Nat
           /\ \A i \in 1 .. Len(Packet) : Packet[i] = mem[head + i - 1]
  <1>1. data_len \in Nat /\ head = 0 /\ data_len <= end
    BY DEF PointersInData
  <1>2. \A i \in 1 .. data_len : mem[head + i - 1] \in Byte
    BY <1>1 DEF PointersInData
  <1>3. Packet \in Seq(Byte) /\ Len(Packet) = data_len
    BY <1>1, <1>2 DEF Packet
  <1>4. \A i \in 1 .. data_len : Packet[i] = mem[head + i - 1]
    BY <1>1 DEF Packet
  <1> QED BY <1>1, <1>3, <1>4 DEF PointersInData

(* The packet depends on the pointers and the data only.                   *)
LEMMA SamePacket ==
    ASSUME UNCHANGED <<head, data_len, mem>>
    PROVE  Packet' = Packet
  BY DEF Packet

(* A packet of length 0 is the empty one.                                  *)
LEMMA EmptyPacket ==
    /\ data_len = 0 => Packet = <<>>
    /\ data_len' = 0 => Packet' = <<>>
  BY DEF Packet

(* The room of a packet_buff is its capacity.                              *)
LEMMA RoomType ==
    ASSUME PointersInData
    PROVE  /\ live => Room = capacity /\ Room # NULL
           /\ ~live => Room = NULL
  BY DEF Room, PointersInData, NULL

(* A call that keeps the packet_buff keeps its room.                       *)
LEMMA SameRoom ==
    ASSUME UNCHANGED <<live, capacity>>
    PROVE  Room' = Room
  BY DEF Room

(* Every call is a step of the stack.                                      *)
LEMMA StackStep ==
    ASSUME PointersInData, PointersInData', [Next]_vars
    PROVE  [Stack!Next]_(Stack!stackVars)
  <1> USE PacketAssumption
  <1> USE DEF NULL, Stack!NULL, Stack!NoPacket, Return, Stack!Return
  <1>0. /\ Len(Packet) = tail - head /\ Len(Packet) \in Nat
        /\ tail \in Nat /\ end \in Nat /\ head = 0
        /\ capacity \in Nat /\ capacity = end - head /\ tail <= end
    BY PacketType DEF PointersInData
  <1>1. ASSUME NEW n \in AllocSizes, pktb_alloc(n)
        PROVE  Stack!Create(n)
    <2>1. data_len = 0 /\ Room = NULL
      BY <1>1, RoomType DEF PointersInData, pktb_alloc
    <2>2. Packet' = <<>>
      BY <1>1, <2>1, EmptyPacket DEF pktb_alloc
    <2>3. Room' \in {n, NULL}
      <3>1. CASE UNCHANGED <<live, capacity>>
        BY <2>1, <3>1, SameRoom
      <3>2. CASE live' = TRUE /\ capacity' = n % U32
        BY <3>2, NoWrap DEF Room
      <3> QED BY <1>1, <3>1, <3>2 DEF pktb_alloc
    <2> QED BY <1>1, <2>1, <2>2, <2>3 DEF pktb_alloc, Stack!Create
  <1>2. CASE pktb_free
    <2>1. Packet' = <<>>
      BY <1>2, EmptyPacket DEF pktb_free
    <2>2. Room # NULL /\ Room' = NULL
      BY <1>2, RoomType DEF pktb_free, Room
    <2>3. ret' = [of |-> "free", at |-> -1]
      BY <1>2 DEF pktb_free
    <2> QED BY <2>1, <2>2, <2>3 DEF Stack!Destroy, Stack!Next
  <1>3. CASE pktb_reset
    <2>1. Packet' = <<>>
      BY <1>3, EmptyPacket DEF pktb_reset
    <2>2. Room # NULL /\ Room' = Room
      BY <1>3, RoomType, SameRoom DEF pktb_reset
    <2>3. ret' = ret
      BY <1>3 DEF pktb_reset
    <2> QED BY <2>1, <2>2, <2>3 DEF Stack!Empty, Stack!Next
  <1>4. ASSUME NEW n \in Lens, pktb_push(n)
        PROVE  Stack!Push(n) \/ Stack!Refuse(n)
    <2>0. Room = capacity /\ Room # NULL /\ Room' = Room /\ n \in Nat
      BY <1>4, RoomType, SameRoom DEF pktb_push
    <2>1. CASE end - tail < n
      <3>1. Packet' = Packet
        BY <1>4, <2>1, SamePacket DEF pktb_push
      <3>2. Len(Packet) + n > Room
        BY <1>0, <2>0, <2>1
      <3> QED BY <1>4, <2>0, <2>1, <3>1, <3>2 DEF pktb_push, Stack!Refuse
    <2>2. CASE ~(end - tail < n)
      <3>1. Len(Packet) + n <= Room /\ tail + n <= end
        BY <1>0, <2>0, <2>2
      <3>2. data_len' = Len(Packet) + n
        <4>1. tail' = tail + n
          BY <1>4, <2>2 DEF pktb_push
        <4>2. data_len' = tail' - head'
          BY DEF PointersInData
        <4> QED BY <1>0, <1>4, <4>1, <4>2 DEF pktb_push
      <3>3. mem' = mem /\ head' = head
        BY <1>4 DEF pktb_push
      <3>4. Packet' = [i \in 1 .. Len(Packet) + n |-> mem[head + i - 1]]
        BY <3>2, <3>3 DEF Packet
      <3>5. Packet' \in [1 .. Len(Packet) + n -> Byte]
        <4>1. mem \in [0 .. end - 1 -> Byte]
          BY DEF PointersInData
        <4>2. \A i \in 1 .. Len(Packet) + n : head + i - 1 \in 0 .. end - 1
          BY <1>0, <2>0, <3>1
        <4>3. \A i \in 1 .. Len(Packet) + n : mem[head + i - 1] \in Byte
          BY <4>1, <4>2
        <4> QED BY <3>4, <4>3
      <3>6. \A i \in 1 .. Len(Packet) : Packet'[i] = Packet[i]
        <4>1. \A i \in 1 .. Len(Packet) : i \in 1 .. Len(Packet) + n
          BY <1>0, <2>0
        <4> QED BY <3>4, <4>1, PacketType
      <3>7. ret' = [of |-> "push", at |-> Len(Packet)]
        <4>1. tail = Len(Packet)
          BY <1>0
        <4> QED BY <1>4, <2>2, <4>1 DEF pktb_push
      <3> QED BY <2>0, <3>1, <3>5, <3>6, <3>7 DEF Stack!Push
    <2> QED BY <2>1, <2>2
  <1>5. ASSUME NEW n \in Lens, pktb_pop(n)
        PROVE  Stack!Pop(n) \/ Stack!Refuse(n)
    <2>0. Room # NULL /\ Room' = Room /\ n \in Nat
      BY <1>5, RoomType, SameRoom DEF pktb_pop
    <2>1. CASE tail - head < n
      <3>1. Packet' = Packet
        BY <1>5, <2>1, SamePacket DEF pktb_pop
      <3>2. n > Len(Packet)
        BY <1>0, <2>0, <2>1
      <3> QED BY <1>5, <2>0, <2>1, <3>1, <3>2 DEF pktb_pop, Stack!Refuse
    <2>2. CASE ~(tail - head < n)
      <3>1. n <= Len(Packet) /\ tail - n = Len(Packet) - n
        BY <1>0, <2>0, <2>2
      <3>2. data_len' = Len(Packet) - n
        <4>1. tail' = tail - n
          BY <1>5, <2>2 DEF pktb_pop
        <4>2. data_len' = tail' - head'
          BY DEF PointersInData
        <4> QED BY <1>0, <1>5, <4>1, <4>2 DEF pktb_pop
      <3>3. mem' = mem /\ head' = head
        BY <1>5 DEF pktb_pop
      <3>4. Packet' = [i \in 1 .. Len(Packet) - n |-> Packet[i]]
        <4>1. Packet' = [i \in 1 .. Len(Packet) - n |-> mem[head + i - 1]]
          BY <3>2, <3>3 DEF Packet
        <4>2. \A i \in 1 .. Len(Packet) - n : i \in 1 .. Len(Packet)
          BY <1>0, <2>0, <3>1
        <4>3. \A i \in 1 .. Len(Packet) - n : Packet[i] = mem[head + i - 1]
          BY <4>2, PacketType
        <4> QED BY <4>1, <4>3
      <3>5. ret' = [of |-> "pop", at |-> Len(Packet) - n]
        <4>1. tail' = Len(Packet) - n /\ ret' = [of |-> "pop", at |-> tail']
          BY <1>5, <2>2, <3>1 DEF pktb_pop
        <4> QED BY <4>1
      <3> QED BY <2>0, <3>1, <3>4, <3>5 DEF Stack!Pop
    <2> QED BY <2>1, <2>2
  <1>6. ASSUME NEW a \in head .. tail - 1, NEW v \in Byte, Pack(a, v)
        PROVE  Stack!Store(a + 1, v) /\ a + 1 \in 1 .. Len(Packet)
    <2>1. a + 1 \in 1 .. Len(Packet) /\ a \in 0 .. end - 1
      BY <1>0
    <2>2. data_len' = data_len /\ head' = head /\ mem' = [mem EXCEPT ![a] = v]
      BY <1>6 DEF Pack
    <2>3. \A i \in 1 .. data_len : head + i - 1 \in 0 .. end - 1
      BY <1>0 DEF PointersInData
    <2>4. \A i \in 1 .. data_len :
             mem'[head + i - 1] = IF i = a + 1 THEN v ELSE mem[head + i - 1]
      BY <1>0, <2>1, <2>2, <2>3 DEF PointersInData
    <2>5. Packet' = [i \in 1 .. data_len |->
                        IF i = a + 1 THEN v ELSE mem[head + i - 1]]
      BY <2>2, <2>4 DEF Packet
    <2>6. Packet' = [Packet EXCEPT ![a + 1] = v]
      BY <2>1, <2>5 DEF Packet
    <2>7. Room' = Room /\ ret' = ret
      BY <1>6, SameRoom DEF Pack
    <2> QED BY <2>1, <2>6, <2>7 DEF Stack!Store
  <1>7. CASE UNCHANGED vars
    BY <1>7, SamePacket, SameRoom DEF vars, Stack!stackVars
  <1> QED BY <1>1, <1>2, <1>3, <1>4, <1>5, <1>6, <1>7 DEF Next, Stack!Next

(* packet_buff implements the stack: a successful push or pop changes only *)
(* the end of the packet, returns the position it promises, and a refused  *)
(* one changes nothing, after every sequence of calls.                     *)
THEOREM BuffImplementsStack == Spec => ImplementsStack
  <1>1. Init => Stack!Init
    BY EmptyPacket DEF Init, Stack!Init, Stack!NoPacket, NULL, Stack!NULL,
       Return, Stack!Return, Room
  <1> QED BY <1>1, PointersSafe, StackStep, PTL
          DEF Spec, ImplementsStack, Stack!Spec

-----------------------------------------------------------------------------
(* Words, their bits and the operator ^.                                   *)

(* Division with remainder.                                                *)
LEMMA Quotient ==
    ASSUME NEW n \in Nat \ {0}, NEW p \in Nat, NEW s \in Nat, s < n
    PROVE  (n * p + s) \div n = p /\ (n * p + s) % n = s
  <1> DEFINE a == n * p + s
             q == a \div n
             r == a % n
  <1>1. a \in Nat /\ q \in Int /\ r \in 0 .. n - 1 /\ a = n * q + r
    OBVIOUS
  <1> HIDE DEF q, r
  <1>2. n * (p - q) = r - s
    BY <1>1
  <1>3. \A d \in Int : d >= 1 => n * d >= n
    OBVIOUS
  <1>4. \A d \in Int : d <= -1 => n * d <= -n
    OBVIOUS
  <1>5. p - q = 0
    BY <1>1, <1>2, <1>3, <1>4
  <1>6. q = p /\ r = s
    BY <1>1, <1>2, <1>5
  <1> QED BY <1>6 DEF q, r, a

(* Division by twice a number is division by it and then by two.           *)
LEMMA DivTwice ==
    ASSUME NEW a \in Nat, NEW n \in Nat \ {0}
    PROVE  a \div (2 * n) = (a \div n) \div 2
  <1> DEFINE q == a \div n
             r == a % n
             p == q \div 2
             e == q % 2
  <1>1. q \in Nat /\ r \in 0 .. n - 1 /\ a = n * q + r
    OBVIOUS
  <1> HIDE DEF q, r
  <1>2. p \in Nat /\ e \in {0, 1} /\ q = 2 * p + e
    BY <1>1
  <1> HIDE DEF p, e
  <1>3. a = (2 * n) * p + (n * e + r)
    BY <1>1, <1>2
  <1>4. n * e + r \in Nat /\ n * e + r < 2 * n /\ 2 * n \in Nat \ {0}
    BY <1>1, <1>2
  <1>5. a \div (2 * n) = p
    BY <1>2, <1>3, <1>4, Quotient
  <1> QED BY <1>5 DEF p, q

(* The powers of two of a word.                                            *)
LEMMA Powers ==
    /\ 2^0 = 1 /\ 2^1 = 2 /\ 2^2 = 4 /\ 2^3 = 8 /\ 2^4 = 16 /\ 2^5 = 32
    /\ 2^6 = 64 /\ 2^7 = 128 /\ 2^8 = 256 /\ 2^9 = 512 /\ 2^10 = 1024
    /\ 2^11 = 2048 /\ 2^12 = 4096 /\ 2^13 = 8192 /\ 2^14 = 16384
    /\ 2^15 = 32768 /\ 2^16 = 65536
  OBVIOUS

(* The bits of a word, from the top.  *)
LEMMA Powers2 ==
    \A k \in 1 .. 16 : /\ 2^(16 - k) \in Nat \ {0}
                       /\ 2^(16 - (k - 1)) = 2 * 2^(16 - k)
  <1> SUFFICES ASSUME NEW k \in 1 .. 16
               PROVE  /\ 2^(16 - k) \in Nat \ {0}
                      /\ 2^(16 - (k - 1)) = 2 * 2^(16 - k)
    OBVIOUS
  <1> DEFINE j == 16 - k
  <1>1. j \in 0 .. 15 /\ 16 - (k - 1) = j + 1
    OBVIOUS
  <1> HIDE DEF j
  <1>2. 2^j \in Nat \ {0} /\ 2^(j + 1) = 2 * 2^j
    <2>0. CASE j = 0 /\ j + 1 = 1
      BY <2>0, Powers
    <2>1. CASE j = 1 /\ j + 1 = 2
      BY <2>1, Powers
    <2>2. CASE j = 2 /\ j + 1 = 3
      BY <2>2, Powers
    <2>3. CASE j = 3 /\ j + 1 = 4
      BY <2>3, Powers
    <2>4. CASE j = 4 /\ j + 1 = 5
      BY <2>4, Powers
    <2>5. CASE j = 5 /\ j + 1 = 6
      BY <2>5, Powers
    <2>6. CASE j = 6 /\ j + 1 = 7
      BY <2>6, Powers
    <2>7. CASE j = 7 /\ j + 1 = 8
      BY <2>7, Powers
    <2>8. CASE j = 8 /\ j + 1 = 9
      BY <2>8, Powers
    <2>9. CASE j = 9 /\ j + 1 = 10
      BY <2>9, Powers
    <2>10. CASE j = 10 /\ j + 1 = 11
      BY <2>10, Powers
    <2>11. CASE j = 11 /\ j + 1 = 12
      BY <2>11, Powers
    <2>12. CASE j = 12 /\ j + 1 = 13
      BY <2>12, Powers
    <2>13. CASE j = 13 /\ j + 1 = 14
      BY <2>13, Powers
    <2>14. CASE j = 14 /\ j + 1 = 15
      BY <2>14, Powers
    <2>15. CASE j = 15 /\ j + 1 = 16
      BY <2>15, Powers
    <2> QED BY <1>1, <2>0, <2>1, <2>2, <2>3, <2>4, <2>5, <2>6, <2>7, <2>8,
               <2>9, <2>10, <2>11, <2>12, <2>13, <2>14, <2>15
  <1> QED BY <1>1, <1>2 DEF j

(* What the two types are.                                                 *)
LEMMA Widths ==
    /\ \A n : n \in uint8_t <=> n \in Nat /\ n < 256
    /\ \A n : n \in uint16_t <=> n \in Nat /\ n < 65536
  <1>1. 2^8 = 256 /\ 2^16 = 65536
    BY Powers
  <1>2. \A m : m \in Nat => \A n : n \in 0 .. m - 1 <=> n \in Nat /\ n < m
    OBVIOUS
  <1>3. 2^8 \in Nat /\ 2^16 \in Nat
    BY <1>1
  <1>4. /\ \A n : n \in uint8_t <=> n \in Nat /\ n < 2^8
        /\ \A n : n \in uint16_t <=> n \in Nat /\ n < 2^16
    BY <1>2, <1>3, Zenon DEF uint8_t, uint16_t
  <1> QED BY <1>1, <1>4

(* A shorter prefix is the longer one, halved.                             *)
LEMMA TopSteps ==
    ASSUME NEW a \in uint16_t, NEW k \in 1 .. 16
    PROVE  /\ Top(a, k) \in Nat
           /\ Top(a, k - 1) = Top(a, k) \div 2
  <1>1. PICK n \in Nat \ {0} : n = 2^(16 - k)
    BY Powers2
  <1>2. 2^(16 - (k - 1)) = 2 * n
    BY <1>1, Powers2
  <1>3. a \in Nat
    BY Widths
  <1>4. a \div n \in Nat /\ a \div (2 * n) = (a \div n) \div 2
    BY <1>3, DivTwice
  <1> QED BY <1>1, <1>2, <1>4, Zenon DEF Top

(* No bits, and all bits.                                                  *)
LEMMA TopEnds ==
    ASSUME NEW a \in uint16_t
    PROVE Top(a, 0) = 0 /\ Top(a, 16) = a
  BY Powers, Widths DEF Top

(* Bit k of a word, from the top.                                          *)
Bit(a, k) == Top(a, k) % 2

(* A prefix is twice the one before and a bit.                             *)
LEMMA TopBits ==
    ASSUME NEW a \in uint16_t, NEW k \in 1 .. 16
    PROVE  /\ Top(a, k) \in Nat /\ Top(a, k - 1) \in Nat
           /\ Bit(a, k) \in {0, 1}
           /\ Top(a, k) = 2 * Top(a, k - 1) + Bit(a, k)
  <1>1. Top(a, k) \in Nat /\ Top(a, k - 1) = Top(a, k) \div 2
    BY TopSteps
  <1> DEFINE t == Top(a, k)
             p == t \div 2
             r == t % 2
  <1>2. t \in Nat
    BY <1>1
  <1> HIDE DEF t
  <1>3. p \in Nat /\ r \in {0, 1} /\ t = 2 * p + r
    BY <1>2
  <1> QED BY <1>1, <1>2, <1>3 DEF Bit, t

(* Numbers that are built from bits: each twice the one before and a bit.  *)
Horner(g, e, n) ==
    /\ g \in [0 .. n -> Nat] /\ g[0] = 0
    /\ \A k \in 1 .. n : g[k] = 2 * g[k - 1] + e[k]

(* There are such numbers for all bits.                                    *)
LEMMA HornerExists ==
    ASSUME NEW n \in Nat, NEW e, \A k \in 1 .. n : e[k] \in {0, 1}
    PROVE  \E g : Horner(g, e, n)
  <1> DEFINE Z == {m \in Nat : m <= n => \E g : Horner(g, e, m)}
  <1>1. 0 \in Z
    <2>1. Horner([k \in 0 .. 0 |-> 0], e, 0)
      BY DEF Horner
    <2> QED BY <2>1
  <1>2. ASSUME NEW m \in Nat, m \in Z PROVE m + 1 \in Z
    <2> SUFFICES ASSUME m + 1 <= n PROVE \E g : Horner(g, e, m + 1)
      OBVIOUS
    <2>1. PICK g : Horner(g, e, m)
      BY <1>2
    <2> DEFINE h == [k \in 0 .. m + 1 |->
                        IF k = m + 1 THEN 2 * g[m] + e[m + 1] ELSE g[k]]
    <2>2. e[m + 1] \in {0, 1} /\ g[m] \in Nat
      BY <2>1 DEF Horner
    <2>3. h \in [0 .. m + 1 -> Nat] /\ h[0] = 0
      BY <2>1, <2>2 DEF Horner
    <2>4. ASSUME NEW k \in 1 .. m + 1 PROVE h[k] = 2 * h[k - 1] + e[k]
      <3>1. CASE k = m + 1
        BY <3>1
      <3>2. CASE k # m + 1
        <4>1. h[k] = g[k] /\ h[k - 1] = g[k - 1] /\ k \in 1 .. m
          BY <3>2
        <4> QED BY <2>1, <4>1 DEF Horner
      <3> QED BY <3>1, <3>2
    <2> HIDE DEF h
    <2> QED BY <2>3, <2>4 DEF Horner
  <1> HIDE DEF Z
  <1>3. n \in Z
    BY <1>1, <1>2, SetInduction
  <1> QED BY <1>3 DEF Z

(* The bits determine the numbers.                                         *)
LEMMA HornerUnique ==
    ASSUME NEW n \in Nat, NEW e, NEW g, NEW h, Horner(g, e, n), h[0] = 0,
           \A k \in 1 .. n : h[k] = 2 * h[k - 1] + e[k]
    PROVE  \A k \in 0 .. n : g[k] = h[k]
  <1> DEFINE Z == {m \in Nat : m <= n => g[m] = h[m]}
  <1>1. 0 \in Z
    BY DEF Horner
  <1>2. ASSUME NEW m \in Nat, m \in Z PROVE m + 1 \in Z
    BY <1>2 DEF Horner
  <1> HIDE DEF Z
  <1>3. \A m \in Nat : m \in Z
    BY <1>1, <1>2, SetInduction
  <1> QED BY <1>3 DEF Z

(* The prefixes of a word are built from its bits.                         *)
LEMMA TopIsHorner ==
    ASSUME NEW a \in uint16_t
    PROVE  Horner([k \in 0 .. 16 |-> Top(a, k)], [k \in 1 .. 16 |-> Bit(a, k)],
                  16)
  <1> DEFINE t == [k \in 0 .. 16 |-> Top(a, k)]
             e == [k \in 1 .. 16 |-> Bit(a, k)]
  <1>1. ASSUME NEW k \in 0 .. 16 PROVE t[k] \in Nat
    <2>1. CASE k = 0
      BY <2>1, TopEnds
    <2>2. CASE k # 0
      BY <2>2, TopBits
    <2> QED BY <2>1, <2>2
  <1>2. ASSUME NEW k \in 1 .. 16 PROVE t[k] = 2 * t[k - 1] + e[k]
    BY TopBits
  <1>3. t[0] = 0 /\ t = [k \in 0 .. 16 |-> t[k]]
    BY TopEnds
  <1> HIDE DEF t, e
  <1>4. t \in [0 .. 16 -> Nat]
    BY <1>1, <1>3
  <1>5. Horner(t, e, 16)
    BY <1>2, <1>3, <1>4 DEF Horner
  <1> QED BY <1>5 DEF t, e

(* Words with the same bits are equal.                                     *)
LEMMA SameBits ==
    ASSUME NEW a \in uint16_t, NEW b \in uint16_t,
           \A k \in 1 .. 16 : Bit(a, k) = Bit(b, k)
    PROVE  a = b
  <1> DEFINE t == [k \in 0 .. 16 |-> Top(a, k)]
             u == [k \in 0 .. 16 |-> Top(b, k)]
             e == [k \in 1 .. 16 |-> Bit(a, k)]
             f == [k \in 1 .. 16 |-> Bit(b, k)]
  <1>1. e = f
    OBVIOUS
  <1>2. Horner(t, e, 16) /\ Horner(u, f, 16)
    BY TopIsHorner, Zenon
  <1>3. t[16] = a /\ u[16] = b
    BY TopEnds
  <1> HIDE DEF t, u, e, f
  <1>4. \A k \in 0 .. 16 : t[k] = u[k]
    <2>1. u[0] = 0 /\ \A k \in 1 .. 16 : u[k] = 2 * u[k - 1] + e[k]
      BY <1>1, <1>2 DEF Horner
    <2> QED BY <1>2, <2>1, HornerUnique
  <1> QED BY <1>3, <1>4

(* A number built from 16 bits is a word, with these bits.                 *)
LEMMA HornerBits ==
    ASSUME NEW g, NEW e, \A k \in 1 .. 16 : e[k] \in {0, 1}, Horner(g, e, 16)
    PROVE  g[16] \in uint16_t /\ \A k \in 1 .. 16 : Bit(g[16], k) = e[k]
  <1>1. /\ \A k \in 0 .. 16 : g[k] \in Nat
        /\ \A k \in 1 .. 16 : g[k] = 2 * g[k - 1] + e[k]
        /\ g[0] = 0
    BY DEF Horner
  <1>2. g[16] \in uint16_t
    <2>0. \A k \in 1 .. 16 : e[k] = 0 \/ e[k] = 1
      OBVIOUS
    <2>1. g[1] \in Nat /\ g[1] <= 1
      BY <1>1, <2>0
    <2>2. g[2] \in Nat /\ g[2] <= 3
      BY <1>1, <2>0, <2>1
    <2>3. g[3] \in Nat /\ g[3] <= 7
      BY <1>1, <2>0, <2>2
    <2>4. g[4] \in Nat /\ g[4] <= 15
      BY <1>1, <2>0, <2>3
    <2>5. g[5] \in Nat /\ g[5] <= 31
      BY <1>1, <2>0, <2>4
    <2>6. g[6] \in Nat /\ g[6] <= 63
      BY <1>1, <2>0, <2>5
    <2>7. g[7] \in Nat /\ g[7] <= 127
      BY <1>1, <2>0, <2>6
    <2>8. g[8] \in Nat /\ g[8] <= 255
      BY <1>1, <2>0, <2>7
    <2>9. g[9] \in Nat /\ g[9] <= 511
      BY <1>1, <2>0, <2>8
    <2>10. g[10] \in Nat /\ g[10] <= 1023
      BY <1>1, <2>0, <2>9
    <2>11. g[11] \in Nat /\ g[11] <= 2047
      BY <1>1, <2>0, <2>10
    <2>12. g[12] \in Nat /\ g[12] <= 4095
      BY <1>1, <2>0, <2>11
    <2>13. g[13] \in Nat /\ g[13] <= 8191
      BY <1>1, <2>0, <2>12
    <2>14. g[14] \in Nat /\ g[14] <= 16383
      BY <1>1, <2>0, <2>13
    <2>15. g[15] \in Nat /\ g[15] <= 32767
      BY <1>1, <2>0, <2>14
    <2>16. g[16] \in Nat /\ g[16] <= 65535
      BY <1>1, <2>0, <2>15
    <2> QED BY <2>16, Widths
  <1> DEFINE Z == {j \in Nat : j <= 16 => Top(g[16], 16 - j) = g[16 - j]}
  <1>3. 0 \in Z
    BY <1>2, TopEnds
  <1>4. ASSUME NEW j \in Nat, j \in Z PROVE j + 1 \in Z
    <2> SUFFICES ASSUME j + 1 <= 16
                 PROVE  Top(g[16], 16 - (j + 1)) = g[16 - (j + 1)]
      OBVIOUS
    <2>1. PICK k \in 1 .. 16 : k = 16 - j /\ k - 1 = 16 - (j + 1)
      OBVIOUS
    <2>2. Top(g[16], k) = g[k]
      BY <1>4, <2>1
    <2>3. Top(g[16], k - 1) = g[k] \div 2
      BY <1>2, <2>2, TopSteps
    <2>4. g[k] = 2 * g[k - 1] + e[k] /\ g[k - 1] \in Nat /\ e[k] \in {0, 1}
      BY <1>1
    <2>5. g[k] \div 2 = g[k - 1]
      BY <2>4
    <2> QED BY <2>1, <2>3, <2>5
  <1> HIDE DEF Z
  <1>5. \A j \in Nat : j \in Z
    BY <1>3, <1>4, SetInduction
  <1>6. ASSUME NEW k \in 1 .. 16 PROVE Bit(g[16], k) = e[k]
    <2>1. PICK j \in Nat : j <= 16 /\ 16 - j = k
      <3>1. 16 - k \in Nat /\ 16 - k <= 16 /\ 16 - (16 - k) = k
        OBVIOUS
      <3> QED BY <3>1
    <2>2. Top(g[16], k) = g[k]
      BY <1>5, <2>1 DEF Z
    <2>3. g[k] = 2 * g[k - 1] + e[k] /\ g[k - 1] \in Nat /\ e[k] \in {0, 1}
      BY <1>1
    <2>4. g[k] % 2 = e[k]
      BY <2>3
    <2> QED BY <2>2, <2>4 DEF Bit
  <1> QED BY <1>2, <1>6

(* The bits of an exclusive or.                                            *)
LEMMA XorBits ==
    ASSUME NEW a \in uint16_t, NEW b \in uint16_t
    PROVE  /\ Xor(a, b) \in uint16_t
           /\ \A k \in 1 .. 16 :
                Bit(Xor(a, b), k) = (Bit(a, k) + Bit(b, k)) % 2
  <1> DEFINE e == [k \in 1 .. 16 |-> Differ(a, b, k)]
             X == CHOOSE x : x = [k \in 0 .. 16 |-> IF k = 0 THEN 0
                    ELSE 2 * x[k - 1] + Differ(a, b, k)]
  <1>1. \A k \in 1 .. 16 : Top(a, k) \in Nat /\ Top(b, k) \in Nat
    BY TopBits
  <1>2. ASSUME NEW k \in 1 .. 16
        PROVE  e[k] \in {0, 1} /\ e[k] = Differ(a, b, k)
    <2>1. \A s, t \in Nat : (s + t) % 2 \in {0, 1}
      OBVIOUS
    <2> QED BY <1>1, <2>1, Zenon DEF Differ
  <1> HIDE DEF e
  <1>3. PICK g : Horner(g, e, 16)
    BY <1>2, HornerExists
  <1>4. g = [k \in 0 .. 16 |-> IF k = 0 THEN 0
                ELSE 2 * g[k - 1] + Differ(a, b, k)]
    <2>1. /\ g = [k \in 0 .. 16 |-> g[k]] /\ g[0] = 0
          /\ \A k \in 1 .. 16 : g[k] = 2 * g[k - 1] + e[k]
      BY <1>3 DEF Horner
    <2>2. ASSUME NEW k \in 0 .. 16
          PROVE  g[k] = IF k = 0 THEN 0
                        ELSE 2 * g[k - 1] + Differ(a, b, k)
      <3>1. CASE k = 0
        BY <2>1, <3>1
      <3>2. CASE k # 0
        <4>1. k \in 1 .. 16
          BY <3>2
        <4> QED BY <1>2, <2>1, <3>2, <4>1
      <3> QED BY <3>1, <3>2
    <2> QED BY <2>1, <2>2
  <1>5. X = [k \in 0 .. 16 |-> IF k = 0 THEN 0
                ELSE 2 * X[k - 1] + Differ(a, b, k)]
    BY <1>4
  <1> HIDE DEF X
  <1>6. X[0] = 0 /\ \A k \in 1 .. 16 : X[k] = 2 * X[k - 1] + e[k]
    <2>1. \A k \in 0 .. 16 : X[k] = IF k = 0 THEN 0
                ELSE 2 * X[k - 1] + Differ(a, b, k)
      BY <1>5
    <2>2. X[0] = 0
      BY <2>1
    <2>3. ASSUME NEW k \in 1 .. 16 PROVE X[k] = 2 * X[k - 1] + e[k]
      <3>1. k \in 0 .. 16 /\ k # 0
        OBVIOUS
      <3> QED BY <1>2, <2>1, <3>1, Zenon
    <2> QED BY <2>2, <2>3
  <1>7. g[16] = X[16]
    BY <1>3, <1>6, HornerUnique
  <1>8. Xor(a, b) = g[16]
    BY <1>7 DEF Xor, X
  <1>9. g[16] \in uint16_t /\ \A k \in 1 .. 16 : Bit(g[16], k) = e[k]
    BY <1>2, <1>3, HornerBits
  <1>10. ASSUME NEW k \in 1 .. 16
         PROVE  Differ(a, b, k) = (Bit(a, k) + Bit(b, k)) % 2
    <2>1. \A s, t \in Nat : (s + t) % 2 = ((s % 2) + (t % 2)) % 2
      OBVIOUS
    <2> QED BY <1>1, <2>1, Zenon DEF Bit, Differ
  <1> QED BY <1>2, <1>8, <1>9, <1>10

(* The bits of an exclusive or, and its type, in the form they are used.   *)

(* A bit is 0 or 1.                                                        *)
LEMMA BitType ==
    ASSUME NEW v \in uint16_t
    PROVE  \A k \in 1 .. 16 : Bit(v, k) \in {0, 1}
  BY TopBits

(* The operator ^ gives a word, whose bits say where the operands differ.  *)
LEMMA XorBit ==
    ASSUME NEW v \in uint16_t, NEW w \in uint16_t
    PROVE  /\ Xor(v, w) \in uint16_t
           /\ \A k \in 1 .. 16 :
                Bit(Xor(v, w), k) = IF Bit(v, k) = Bit(w, k) THEN 0 ELSE 1
  <1>1. Xor(v, w) \in uint16_t
    BY XorBits
  <1>2. ASSUME NEW k \in 1 .. 16
        PROVE  Bit(Xor(v, w), k) = IF Bit(v, k) = Bit(w, k) THEN 0 ELSE 1
    <2>1. Bit(v, k) \in {0, 1} /\ Bit(w, k) \in {0, 1}
      BY BitType
    <2>2. \A p, q \in {0, 1} : (p + q) % 2 = IF p = q THEN 0 ELSE 1
      OBVIOUS
    <2>3. Bit(Xor(v, w), k) = (Bit(v, k) + Bit(w, k)) % 2
      BY XorBits
    <2> QED BY <2>1, <2>2, <2>3, Zenon
  <1> QED BY <1>1, <1>2

(* The operator ^ is commutative ...                                       *)
LEMMA XorComm ==
    ASSUME NEW v \in uint16_t, NEW w \in uint16_t
    PROVE  Xor(v, w) = Xor(w, v)
  <1>1. Xor(v, w) \in uint16_t /\ Xor(w, v) \in uint16_t
    BY XorBit
  <1>2. ASSUME NEW k \in 1 .. 16 PROVE Bit(Xor(v, w), k) = Bit(Xor(w, v), k)
    <2>1. /\ Bit(Xor(v, w), k) = IF Bit(v, k) = Bit(w, k) THEN 0 ELSE 1
          /\ Bit(Xor(w, v), k) = IF Bit(w, k) = Bit(v, k) THEN 0 ELSE 1
      BY XorBit
    <2> QED BY <2>1
  <1> QED BY <1>1, <1>2, SameBits

(* ... and associative, ...                                                *)
LEMMA XorAssoc ==
    ASSUME NEW v \in uint16_t, NEW w \in uint16_t, NEW x \in uint16_t
    PROVE  Xor(Xor(v, w), x) = Xor(v, Xor(w, x))
  <1>1. Xor(v, w) \in uint16_t /\ Xor(w, x) \in uint16_t
    BY XorBit
  <1>2. Xor(Xor(v, w), x) \in uint16_t /\ Xor(v, Xor(w, x)) \in uint16_t
    BY <1>1, XorBit
  <1>3. ASSUME NEW k \in 1 .. 16
        PROVE  Bit(Xor(Xor(v, w), x), k) = Bit(Xor(v, Xor(w, x)), k)
    <2>1. /\ Bit(Xor(v, w), k) = IF Bit(v, k) = Bit(w, k) THEN 0 ELSE 1
          /\ Bit(Xor(w, x), k) = IF Bit(w, k) = Bit(x, k) THEN 0 ELSE 1
      BY XorBit
    <2>2. /\ Bit(Xor(Xor(v, w), x), k) =
                IF Bit(Xor(v, w), k) = Bit(x, k) THEN 0 ELSE 1
          /\ Bit(Xor(v, Xor(w, x)), k) =
                IF Bit(v, k) = Bit(Xor(w, x), k) THEN 0 ELSE 1
      BY <1>1, XorBit
    <2>3. Bit(v, k) \in {0, 1} /\ Bit(w, k) \in {0, 1} /\ Bit(x, k) \in {0, 1}
      BY BitType
    <2> QED BY <2>1, <2>2, <2>3
  <1> QED BY <1>2, <1>3, SameBits

(* (the bits of 0)                                                         *)
LEMMA ZeroBits == 0 \in uint16_t /\ \A k \in 1 .. 16 : Bit(0, k) = 0
  <1>1. ASSUME NEW k \in 1 .. 16 PROVE Bit(0, k) = 0
    <2>1. PICK n \in Nat \ {0} : n = 2^(16 - k)
      BY Powers2
    <2>2. (n * 0 + 0) \div n = 0 /\ n * 0 + 0 = 0
      BY Quotient
    <2> QED BY <2>1, <2>2 DEF Bit, Top
  <1> QED BY <1>1, Widths

(* ... 0 is neutral, and every word is its own inverse.                    *)
LEMMA XorZero ==
    ASSUME NEW v \in uint16_t
    PROVE  Xor(v, 0) = v /\ Xor(0, v) = v /\ Xor(v, v) = 0
  <1>1. Xor(v, 0) \in uint16_t /\ Xor(v, v) \in uint16_t /\ 0 \in uint16_t
    BY XorBit, ZeroBits
  <1>2. ASSUME NEW k \in 1 .. 16
        PROVE  Bit(Xor(v, 0), k) = Bit(v, k) /\ Bit(Xor(v, v), k) = Bit(0, k)
    <2>1. Bit(v, k) \in {0, 1} /\ Bit(0, k) = 0
      BY BitType, ZeroBits
    <2>2. Bit(Xor(v, 0), k) = IF Bit(v, k) = Bit(0, k) THEN 0 ELSE 1
      BY <1>1, XorBit
    <2>3. Bit(Xor(v, v), k) = IF Bit(v, k) = Bit(v, k) THEN 0 ELSE 1
      BY XorBit
    <2> QED BY <2>1, <2>2, <2>3
  <1>3. Xor(v, 0) = v /\ Xor(v, v) = 0
    BY <1>1, <1>2, SameBits
  <1> QED BY <1>1, <1>3, XorComm

(* The upper half of a word.                                               *)
LEMMA HalfBits ==
    ASSUME NEW v \in uint16_t
    PROVE  /\ v \div 2 \in uint16_t
           /\ Bit(v \div 2, 1) = 0
           /\ \A k \in 2 .. 16 : Bit(v \div 2, k) = Bit(v, k - 1)
  <1> DEFINE u == v \div 2
             Z == {j \in Nat : j <= 15 => Top(u, 16 - j) = Top(v, 15 - j)}
  <1>0. u \in uint16_t
    <2>1. v \in Nat /\ v < 65536
      BY Widths
    <2>2. u \in Nat /\ u < 65536
      BY <2>1
    <2> QED BY <2>2, Widths
  <1>1. 0 \in Z
    <2>1. Top(u, 16) = u /\ Top(v, 16) = v
      BY <1>0, TopEnds
    <2>2. Top(v, 15) = Top(v, 16) \div 2
      BY TopSteps
    <2> QED BY <2>1, <2>2
  <1> HIDE DEF u
  <1>2. ASSUME NEW j \in Nat, j \in Z PROVE j + 1 \in Z
    <2> SUFFICES ASSUME j + 1 <= 15
                 PROVE  Top(u, 16 - (j + 1)) = Top(v, 15 - (j + 1))
      OBVIOUS
    <2>1. PICK k \in 2 .. 16 : /\ k = 16 - j /\ k - 1 = 16 - (j + 1)
                               /\ k - 1 = 15 - j /\ k - 2 = 15 - (j + 1)
      OBVIOUS
    <2>2. Top(u, k) = Top(v, k - 1)
      BY <1>2, <2>1
    <2>3. Top(u, k - 1) = Top(u, k) \div 2
      BY <1>0, TopSteps
    <2>4. k - 1 \in 1 .. 16 /\ (k - 1) - 1 = k - 2
      OBVIOUS
    <2>5. Top(v, k - 2) = Top(v, k - 1) \div 2
      BY <2>4, TopSteps
    <2> QED BY <2>1, <2>2, <2>3, <2>5
  <1> HIDE DEF Z
  <1>3. \A j \in Nat : j \in Z
    BY <1>1, <1>2, SetInduction
  <1>4. ASSUME NEW k \in 1 .. 16 PROVE Top(u, k) = Top(v, k - 1)
    <2>1. 16 - k \in Nat /\ 16 - k <= 15 /\ 16 - (16 - k) = k
          /\ 15 - (16 - k) = k - 1
      OBVIOUS
    <2>2. 16 - k \in Z
      BY <1>3, <2>1
    <2>3. Top(u, 16 - (16 - k)) = Top(v, 15 - (16 - k))
      BY <2>1, <2>2 DEF Z
    <2> QED BY <2>1, <2>3
  <1>5. Bit(u, 1) = 0
    <2>1. Top(u, 1) = Top(v, 0) /\ Top(v, 0) = 0
      <3>1. 1 \in 1 .. 16 /\ 1 - 1 = 0
        OBVIOUS
      <3> QED BY <1>4, <3>1, TopEnds
    <2> QED BY <2>1 DEF Bit
  <1>6. \A k \in 2 .. 16 : Bit(u, k) = Bit(v, k - 1)
    BY <1>4 DEF Bit
  <1> QED BY <1>0, <1>5, <1>6 DEF u

(* Shifting an exclusive or to the right.                                  *)
LEMMA XorHalf ==
    ASSUME NEW v \in uint16_t, NEW w \in uint16_t
    PROVE  /\ Xor(v, w) \div 2 = Xor(v \div 2, w \div 2)
           /\ Xor(v, w) % 2 = IF v % 2 = w % 2 THEN 0 ELSE 1
  <1> DEFINE x == Xor(v, w)
             v2 == v \div 2
             w2 == w \div 2
             x2 == x \div 2
  <1>1. x \in uint16_t /\ v2 \in uint16_t /\ w2 \in uint16_t /\ x2 \in uint16_t
    BY XorBit, HalfBits
  <1>2. Xor(v2, w2) \in uint16_t
    BY <1>1, XorBit
  <1>3. ASSUME NEW k \in 1 .. 16 PROVE Bit(x2, k) = Bit(Xor(v2, w2), k)
    <2>1. Bit(Xor(v2, w2), k) = IF Bit(v2, k) = Bit(w2, k) THEN 0 ELSE 1
      BY <1>1, XorBit
    <2>2. CASE k = 1
      <3>1. Bit(v2, 1) = 0 /\ Bit(w2, 1) = 0 /\ Bit(x2, 1) = 0
        BY <1>1, HalfBits
      <3> QED BY <2>1, <2>2, <3>1
    <2>3. CASE k # 1
      <3>1. k \in 2 .. 16 /\ k - 1 \in 1 .. 16
        BY <2>3
      <3>2. /\ Bit(v2, k) = Bit(v, k - 1) /\ Bit(w2, k) = Bit(w, k - 1)
            /\ Bit(x2, k) = Bit(x, k - 1)
        BY <1>1, <3>1, HalfBits
      <3>3. Bit(x, k - 1) = IF Bit(v, k - 1) = Bit(w, k - 1) THEN 0 ELSE 1
        BY <3>1, XorBit
      <3> QED BY <2>1, <3>2, <3>3
    <2> QED BY <2>2, <2>3
  <1>4. x2 = Xor(v2, w2)
    BY <1>1, <1>2, <1>3, SameBits
  <1>5. Bit(x, 16) = IF Bit(v, 16) = Bit(w, 16) THEN 0 ELSE 1
    <2>1. 16 \in 1 .. 16
      OBVIOUS
    <2> QED BY <2>1, XorBit
  <1>6. Bit(x, 16) = x % 2 /\ Bit(v, 16) = v % 2 /\ Bit(w, 16) = w % 2
    BY <1>1, TopEnds DEF Bit
  <1> QED BY <1>4, <1>5, <1>6

(* Doubling a number, or adding an even one.                               *)
LEMMA Halving ==
    /\ \A c, t \in Nat : (2 * c + t) \div 2 = c + (t \div 2)
                        /\ (2 * c + t) % 2 = t % 2
    /\ \A t \in Nat : t \div 2 \in Nat
  OBVIOUS

(* The bits of a word made from two bytes: the eight of one, then the      *)
(* eight of the other.                                                     *)
LEMMA ByteIsWord ==
    ASSUME NEW h \in uint8_t, NEW l \in uint8_t
    PROVE  /\ h \in uint16_t /\ l \in uint16_t /\ 256 * h + l \in uint16_t
           /\ 256 * h \in uint16_t /\ h \in Nat /\ l \in Nat
           /\ (256 * h + l) \div 256 = h /\ (256 * h + l) % 256 = l
  <1>1. h \in Nat /\ h < 256 /\ l \in Nat /\ l < 256
    BY Widths
  <1>2. /\ 256 * h + l \in Nat /\ 256 * h + l < 65536
        /\ 256 * h \in Nat /\ 256 * h < 65536
        /\ h < 65536 /\ l < 65536
    BY <1>1
  <1>3. (256 * h + l) \div 256 = h /\ (256 * h + l) % 256 = l
    BY <1>1, Quotient
  <1> QED BY <1>1, <1>2, <1>3, Widths

(* A byte has no bit in the upper half, and whatever has none is a byte.   *)
LEMMA ByteBits ==
    ASSUME NEW v \in uint16_t
    PROVE  v \in uint8_t <=> \A k \in 1 .. 8 : Bit(v, k) = 0
  <1>1. /\ Top(v, 0) = 0
        /\ \A k \in 1 .. 8 : /\ Top(v, k) = 2 * Top(v, k - 1) + Bit(v, k)
                            /\ Top(v, k) \in Nat /\ Top(v, k - 1) \in Nat
                            /\ Bit(v, k) \in {0, 1}
    BY TopBits, TopEnds
  <1>2. Top(v, 8) = v \div 256 /\ v \in Nat
    BY Powers, Widths DEF Top
  <1>3. v \in uint8_t <=> Top(v, 8) = 0
    <2>1. v < 256 <=> v \div 256 = 0
      BY <1>2
    <2> QED BY <1>2, <2>1, Widths
  <1>4. ASSUME \A k \in 1 .. 8 : Bit(v, k) = 0 PROVE Top(v, 8) = 0
    <2> DEFINE Z == {k \in Nat : k <= 8 => Top(v, k) = 0}
    <2>1. 0 \in Z
      BY <1>1
    <2>2. ASSUME NEW k \in Nat, k \in Z PROVE k + 1 \in Z
      <3>1. CASE k + 1 <= 8
        <4>1. k + 1 \in 1 .. 8 /\ (k + 1) - 1 = k /\ k <= 8
          BY <3>1
        <4>2. Top(v, k + 1) = 2 * Top(v, k) + Bit(v, k + 1)
          BY <1>1, <4>1
        <4> QED BY <1>4, <2>2, <4>1, <4>2
      <3> QED BY <3>1
    <2> HIDE DEF Z
    <2>3. 8 \in Z
      BY <2>1, <2>2, SetInduction
    <2> QED BY <2>3 DEF Z
  <1>5. ASSUME Top(v, 8) = 0 PROVE \A k \in 1 .. 8 : Bit(v, k) = 0
    <2> DEFINE Z == {j \in Nat : j <= 8 => Top(v, 8 - j) = 0}
    <2>1. 0 \in Z
      BY <1>5
    <2>2. ASSUME NEW j \in Nat, j \in Z PROVE j + 1 \in Z
      <3>1. CASE j + 1 <= 8
        <4>1. PICK k \in 1 .. 8 : k = 8 - j /\ k - 1 = 8 - (j + 1)
          BY <3>1
        <4>2. Top(v, k) = 0
          BY <2>2, <3>1, <4>1
        <4>3. Top(v, k) = 2 * Top(v, k - 1) + Bit(v, k)
              /\ Top(v, k - 1) \in Nat /\ Bit(v, k) \in {0, 1}
          BY <1>1
        <4>4. Top(v, k - 1) = 0
          BY <4>2, <4>3
        <4> QED BY <4>1, <4>4
      <3> QED BY <3>1
    <2> HIDE DEF Z
    <2>3. \A j \in Nat : j \in Z
      BY <2>1, <2>2, SetInduction
    <2>4. ASSUME NEW k \in 1 .. 8 PROVE Bit(v, k) = 0
      <3>1. 8 - k \in Nat /\ 8 - k <= 8 /\ 8 - (8 - k) = k
        OBVIOUS
      <3>2. Top(v, 8 - (8 - k)) = 0
        BY <2>3, <3>1 DEF Z
      <3>3. Top(v, k) = 0
        BY <3>1, <3>2
      <3> QED BY <3>3 DEF Bit
    <2> QED BY <2>4
  <1> QED BY <1>3, <1>4, <1>5

(* The bits of two bytes, as a word has them.                              *)
LEMMA PairBits ==
    ASSUME NEW h \in uint8_t, NEW l \in uint8_t
    PROVE  /\ \A k \in 1 .. 8 : Bit(256 * h + l, k) = Bit(h, k + 8)
           /\ \A k \in 9 .. 16 : Bit(256 * h + l, k) = Bit(l, k)
  <1> DEFINE v == 256 * h + l
  <1>1. /\ v \in uint16_t /\ h \in uint16_t /\ l \in uint16_t
        /\ h \in Nat /\ l \in Nat /\ v = 256 * h + l
    BY ByteIsWord
  <1> HIDE DEF v
  <1>2. /\ \A k \in 1 .. 16 : Top(l, k - 1) = Top(l, k) \div 2
        /\ \A k \in 1 .. 16 : Top(h, k - 1) = Top(h, k) \div 2
        /\ \A k \in 1 .. 16 : Top(v, k - 1) = Top(v, k) \div 2
        /\ \A k \in 1 .. 16 : Top(l, k) \in Nat
    BY <1>1, TopSteps
  <1>16. Top(v, 16) = 256 * h + Top(l, 16) /\ Top(l, 16) \in Nat
    BY <1>1, TopEnds
  <1>15. Top(v, 15) = 128 * h + Top(l, 15) /\ Top(l, 15) \in Nat
    <2>1. /\ Top(v, 15) = (256 * h + Top(l, 16)) \div 2
          /\ Top(l, 15) = Top(l, 16) \div 2
      BY <1>2, <1>16
    <2> QED BY <1>1, <1>16, <2>1, Halving
  <1>14. Top(v, 14) = 64 * h + Top(l, 14) /\ Top(l, 14) \in Nat
    <2>1. /\ Top(v, 14) = (128 * h + Top(l, 15)) \div 2
          /\ Top(l, 14) = Top(l, 15) \div 2
      BY <1>2, <1>15
    <2> QED BY <1>1, <1>15, <2>1, Halving
  <1>13. Top(v, 13) = 32 * h + Top(l, 13) /\ Top(l, 13) \in Nat
    <2>1. /\ Top(v, 13) = (64 * h + Top(l, 14)) \div 2
          /\ Top(l, 13) = Top(l, 14) \div 2
      BY <1>2, <1>14
    <2> QED BY <1>1, <1>14, <2>1, Halving
  <1>12. Top(v, 12) = 16 * h + Top(l, 12) /\ Top(l, 12) \in Nat
    <2>1. /\ Top(v, 12) = (32 * h + Top(l, 13)) \div 2
          /\ Top(l, 12) = Top(l, 13) \div 2
      BY <1>2, <1>13
    <2> QED BY <1>1, <1>13, <2>1, Halving
  <1>11. Top(v, 11) = 8 * h + Top(l, 11) /\ Top(l, 11) \in Nat
    <2>1. /\ Top(v, 11) = (16 * h + Top(l, 12)) \div 2
          /\ Top(l, 11) = Top(l, 12) \div 2
      BY <1>2, <1>12
    <2> QED BY <1>1, <1>12, <2>1, Halving
  <1>10. Top(v, 10) = 4 * h + Top(l, 10) /\ Top(l, 10) \in Nat
    <2>1. /\ Top(v, 10) = (8 * h + Top(l, 11)) \div 2
          /\ Top(l, 10) = Top(l, 11) \div 2
      BY <1>2, <1>11
    <2> QED BY <1>1, <1>11, <2>1, Halving
  <1>9. Top(v, 9) = 2 * h + Top(l, 9) /\ Top(l, 9) \in Nat
    <2>1. /\ Top(v, 9) = (4 * h + Top(l, 10)) \div 2
          /\ Top(l, 9) = Top(l, 10) \div 2
      BY <1>2, <1>10
    <2> QED BY <1>1, <1>10, <2>1, Halving
  <1>8. Top(v, 8) = h + Top(l, 8) /\ Top(l, 8) \in Nat
    <2>1. /\ Top(v, 8) = (2 * h + Top(l, 9)) \div 2
          /\ Top(l, 8) = Top(l, 9) \div 2
      BY <1>2, <1>9
    <2> QED BY <1>1, <1>9, <2>1, Halving
  <1>7. ASSUME NEW k \in 9 .. 16 PROVE Bit(v, k) = Bit(l, k)
    <2>1. Bit(v, 9) = Bit(l, 9)
      BY <1>1, <1>9 DEF Bit
    <2>2. Bit(v, 10) = Bit(l, 10)
      BY <1>1, <1>10 DEF Bit
    <2>3. Bit(v, 11) = Bit(l, 11)
      BY <1>1, <1>11 DEF Bit
    <2>4. Bit(v, 12) = Bit(l, 12)
      BY <1>1, <1>12 DEF Bit
    <2>5. Bit(v, 13) = Bit(l, 13)
      BY <1>1, <1>13 DEF Bit
    <2>6. Bit(v, 14) = Bit(l, 14)
      BY <1>1, <1>14 DEF Bit
    <2>7. Bit(v, 15) = Bit(l, 15)
      BY <1>1, <1>15 DEF Bit
    <2>8. Bit(v, 16) = Bit(l, 16)
      BY <1>1, <1>16 DEF Bit
    <2> QED BY <2>1, <2>2, <2>3, <2>4, <2>5, <2>6, <2>7, <2>8
  <1>6. Top(l, 8) = 0
    BY <1>1, Powers, Widths DEF Top
  <1>5. Top(v, 8) = Top(h, 16)
    BY <1>1, <1>6, <1>8, TopEnds
  <1> DEFINE Z == {j \in Nat : j <= 8 => Top(v, 8 - j) = Top(h, 16 - j)}
  <1>4. \A j \in Nat : j \in Z
    <2>1. 0 \in Z
      BY <1>5
    <2>2. ASSUME NEW j \in Nat, j \in Z PROVE j + 1 \in Z
      <3> SUFFICES ASSUME j + 1 <= 8
                   PROVE  Top(v, 8 - (j + 1)) = Top(h, 16 - (j + 1))
        OBVIOUS
      <3>1. PICK k \in 1 .. 8 : /\ k = 8 - j /\ k - 1 = 8 - (j + 1)
                                /\ k + 8 = 16 - j /\ k + 7 = 16 - (j + 1)
        OBVIOUS
      <3>2. Top(v, k) = Top(h, k + 8)
        BY <2>2, <3>1
      <3>3. Top(v, k - 1) = Top(v, k) \div 2
        BY <1>2
      <3>4. k + 8 \in 1 .. 16 /\ (k + 8) - 1 = k + 7
        OBVIOUS
      <3>5. Top(h, k + 7) = Top(h, k + 8) \div 2
        BY <1>2, <3>4
      <3> QED BY <3>1, <3>2, <3>3, <3>5
    <2> HIDE DEF Z
    <2> QED BY <2>1, <2>2, SetInduction
  <1>3. ASSUME NEW k \in 1 .. 8 PROVE Bit(v, k) = Bit(h, k + 8)
    <2>1. /\ 8 - k \in Nat /\ 8 - k <= 8 /\ 8 - (8 - k) = k
          /\ 16 - (8 - k) = k + 8
      OBVIOUS
    <2>2. Top(v, 8 - (8 - k)) = Top(h, 16 - (8 - k))
      BY <1>4, <2>1
    <2> QED BY <2>1, <2>2 DEF Bit
  <1> QED BY <1>3, <1>7 DEF v

(* Exclusive or with a byte leaves the upper half alone.                   *)
LEMMA XorByte ==
    ASSUME NEW h \in uint8_t, NEW l \in uint8_t, NEW d \in uint8_t
    PROVE  /\ Xor(l, d) \in uint8_t
           /\ Xor(256 * h + l, d) = 256 * h + Xor(l, d)
  <1> DEFINE v == 256 * h + l
             x == Xor(l, d)
             w == 256 * h + x
  <1>1. v \in uint16_t /\ l \in uint16_t /\ d \in uint16_t
    BY ByteIsWord
  <1>2. x \in uint16_t /\ Xor(v, d) \in uint16_t
    BY <1>1, XorBit
  <1>3. /\ \A k \in 1 .. 8 : Bit(l, k) = 0 /\ Bit(d, k) = 0
    BY <1>1, ByteBits
  <1>4. x \in uint8_t
    <2>1. ASSUME NEW k \in 1 .. 8 PROVE Bit(x, k) = 0
      <3>1. Bit(x, k) = IF Bit(l, k) = Bit(d, k) THEN 0 ELSE 1
        BY <1>1, XorBit
      <3> QED BY <1>3, <3>1
    <2> QED BY <1>2, <2>1, ByteBits
  <1>5. w \in uint16_t
    BY <1>4, ByteIsWord
  <1>6. /\ \A k \in 1 .. 8 : Bit(v, k) = Bit(h, k + 8)
        /\ \A k \in 9 .. 16 : Bit(v, k) = Bit(l, k)
    BY PairBits
  <1>7. /\ \A k \in 1 .. 8 : Bit(w, k) = Bit(h, k + 8)
        /\ \A k \in 9 .. 16 : Bit(w, k) = Bit(x, k)
    BY <1>4, PairBits
  <1> HIDE DEF v, w
  <1>8. ASSUME NEW k \in 1 .. 16 PROVE Bit(Xor(v, d), k) = Bit(w, k)
    <2>1. Bit(Xor(v, d), k) = IF Bit(v, k) = Bit(d, k) THEN 0 ELSE 1
      BY <1>1, XorBit
    <2>2. Bit(v, k) \in {0, 1}
      BY <1>1, BitType
    <2>3. CASE k \in 1 .. 8
      <3>1. Bit(d, k) = 0 /\ Bit(v, k) = Bit(w, k)
        BY <1>3, <1>6, <1>7, <2>3
      <3> QED BY <2>1, <2>2, <3>1
    <2>4. CASE k \in 9 .. 16
      <3>1. Bit(x, k) = IF Bit(l, k) = Bit(d, k) THEN 0 ELSE 1
        BY <1>1, XorBit
      <3>2. Bit(v, k) = Bit(l, k) /\ Bit(w, k) = Bit(x, k)
        BY <1>6, <1>7, <2>4
      <3> QED BY <2>1, <3>1, <3>2
    <2> QED BY <2>3, <2>4
  <1>9. Xor(v, d) = w
    BY <1>2, <1>5, <1>8, SameBits
  <1> QED BY <1>4, <1>9 DEF v, w

-----------------------------------------------------------------------------
(* Loops.                                                                  *)

(* The values of a loop over the first n elements of s.                    *)
Run(a, step, first, s, n) ==
    a = [m \in 0 .. n |-> IF m = 0 THEN first ELSE step[s[m]][a[m - 1]]]

(* Every loop has such values, of the type its steps have.                 *)
LEMMA RunExists ==
    ASSUME NEW S, NEW T, NEW step \in [T -> [S -> S]], NEW first \in S,
           NEW s \in Seq(T), NEW n \in 0 .. Len(s)
    PROVE  \E a \in [0 .. n -> S] : Run(a, step, first, s, n)
  <1> DEFINE Z == {m \in Nat : m <= Len(s) =>
                      \E a \in [0 .. m -> S] : Run(a, step, first, s, m)}
  <1>1. 0 \in Z
    <2> DEFINE a == [m \in 0 .. 0 |-> first]
    <2>1. a \in [0 .. 0 -> S] /\ Run(a, step, first, s, 0)
      BY DEF Run
    <2> QED BY <2>1
  <1>2. ASSUME NEW m \in Nat, m \in Z PROVE m + 1 \in Z
    <2> SUFFICES ASSUME m + 1 <= Len(s)
                 PROVE  \E a \in [0 .. m + 1 -> S] :
                            Run(a, step, first, s, m + 1)
      OBVIOUS
    <2>1. PICK a \in [0 .. m -> S] : Run(a, step, first, s, m)
      BY <1>2
    <2> DEFINE e == step[s[m + 1]][a[m]]
               b == [k \in 0 .. m + 1 |-> IF k = m + 1 THEN e ELSE a[k]]
    <2>2. e \in S
      <3>1. m + 1 \in 1 .. Len(s) /\ m \in 0 .. m
        OBVIOUS
      <3>2. s[m + 1] \in T /\ a[m] \in S
        BY <3>1
      <3>3. step[s[m + 1]] \in [S -> S]
        BY <3>2
      <3> QED BY <3>2, <3>3
    <2> HIDE DEF e
    <2>3. b \in [0 .. m + 1 -> S]
      BY <2>2
    <2>4. ASSUME NEW k \in 0 .. m + 1
          PROVE  b[k] = IF k = 0 THEN first ELSE step[s[k]][b[k - 1]]
      <3>1. CASE k = m + 1
        <4>1. b[k] = e /\ b[k - 1] = a[m] /\ k # 0
          BY <3>1
        <4> QED BY <3>1, <4>1 DEF e
      <3>2. CASE k = 0
        <4>1. b[k] = a[0] /\ a[0] = first
          BY <2>1, <3>2 DEF Run
        <4> QED BY <3>2, <4>1
      <3>3. CASE k \in 1 .. m
        <4>1. b[k] = a[k] /\ b[k - 1] = a[k - 1]
          BY <3>3
        <4>2. a[k] = step[s[k]][a[k - 1]]
          BY <2>1, <3>3 DEF Run
        <4> QED BY <3>3, <4>1, <4>2
      <3> QED BY <3>1, <3>2, <3>3
    <2>5. b = [k \in 0 .. m + 1 |-> b[k]]
      BY <2>3
    <2> HIDE DEF b
    <2>6. Run(b, step, first, s, m + 1)
      BY <2>4, <2>5 DEF Run
    <2> QED BY <2>3, <2>6
  <1> HIDE DEF Z
  <1>3. n \in Z
    BY <1>1, <1>2, SetInduction
  <1> QED BY <1>3 DEF Z

(* Loops over sequences that begin alike take the same values.             *)
LEMMA RunUnique ==
    ASSUME NEW step, NEW first, NEW n \in Nat, NEW m \in Nat, n <= m,
           NEW s, NEW t, \A k \in 1 .. n : s[k] = t[k],
           NEW a, NEW b, Run(a, step, first, s, n), Run(b, step, first, t, m)
    PROVE  a[n] = b[n]
  <1> DEFINE Z == {k \in Nat : k <= n => a[k] = b[k]}
  <1>1. 0 \in Z
    <2>1. a[0] = first /\ b[0] = first
      BY DEF Run
    <2> QED BY <2>1
  <1>2. ASSUME NEW k \in Nat, k \in Z PROVE k + 1 \in Z
    <2>1. CASE k + 1 <= n
      <3>1. k + 1 \in 0 .. n /\ k + 1 \in 0 .. m /\ k + 1 # 0
            /\ (k + 1) - 1 = k /\ k + 1 \in 1 .. n
        BY <2>1
      <3>2. a[k + 1] = step[s[k + 1]][a[k]] /\ b[k + 1] = step[t[k + 1]][b[k]]
        BY <3>1 DEF Run
      <3> QED BY <1>2, <3>1, <3>2
    <2> QED BY <2>1
  <1> HIDE DEF Z
  <1>3. n \in Z
    BY <1>1, <1>2, SetInduction
  <1> QED BY <1>3 DEF Z

(* The loop takes the values of such a run, on every sequence that begins  *)
(* like s.                                                                 *)
Computes(a, step, first, T, s) ==
    /\ Run(a, step, first, s, Len(s))
    /\ \A t \in Seq(T) :
          (Len(t) <= Len(s) /\ \A k \in 1 .. Len(t) : t[k] = s[k])
             => Loop(step, first, t) = a[Len(t)]

(* Every loop has values that say what Loop is.                            *)
LEMMA LoopIsRun ==
    ASSUME NEW S, NEW T, NEW step \in [T -> [S -> S]], NEW first \in S,
           NEW s \in Seq(T)
    PROVE  \E a \in [0 .. Len(s) -> S] : Computes(a, step, first, T, s)
  <1>0. ASSUME NEW t \in Seq(T)
        PROVE  \E a \in [0 .. Len(t) -> S] : Run(a, step, first, t, Len(t))
    <2>1. Len(t) \in 0 .. Len(t)
      OBVIOUS
    <2> QED BY <2>1, RunExists
  <1>1. PICK a \in [0 .. Len(s) -> S] : Run(a, step, first, s, Len(s))
    BY <1>0
  <1>2. ASSUME NEW t \in Seq(T), Len(t) <= Len(s),
               \A k \in 1 .. Len(t) : t[k] = s[k]
        PROVE  Loop(step, first, t) = a[Len(t)]
    <2> DEFINE B == CHOOSE b : b = [m \in 0 .. Len(t) |->
                        IF m = 0 THEN first ELSE step[t[m]][b[m - 1]]]
    <2>1. PICK b : Run(b, step, first, t, Len(t))
      BY <1>0
    <2>2. B = [m \in 0 .. Len(t) |->
                        IF m = 0 THEN first ELSE step[t[m]][B[m - 1]]]
      BY <2>1 DEF Run
    <2>3. Loop(step, first, t) = B[Len(t)]
      BY DEF Loop
    <2> HIDE DEF B
    <2>4. Run(B, step, first, t, Len(t))
      BY <2>2 DEF Run
    <2>5. B[Len(t)] = a[Len(t)]
      BY <1>1, <1>2, <2>4, RunUnique
    <2> QED BY <2>3, <2>5
  <1> QED BY <1>1, <1>2 DEF Computes

(* A loop over nothing, and over one element more.                         *)
LEMMA LoopSteps ==
    ASSUME NEW S, NEW T, NEW step \in [T -> [S -> S]], NEW first \in S
    PROVE  /\ Loop(step, first, <<>>) = first
           /\ \A s \in Seq(T) : Loop(step, first, s) \in S
           /\ \A s \in Seq(T), e \in T :
                 Loop(step, first, Append(s, e)) =
                    step[e][Loop(step, first, s)]
  <1>0. ASSUME NEW s \in Seq(T)
        PROVE  \E a \in [0 .. Len(s) -> S] : /\ Computes(a, step, first, T, s)
                                           /\ Loop(step, first, s) = a[Len(s)]
    <2>1. PICK a \in [0 .. Len(s) -> S] : Computes(a, step, first, T, s)
      BY LoopIsRun
    <2>2. Loop(step, first, s) = a[Len(s)]
      BY <2>1 DEF Computes
    <2> QED BY <2>1, <2>2
  <1>1. ASSUME NEW s \in Seq(T) PROVE Loop(step, first, s) \in S
    <2>1. PICK a \in [0 .. Len(s) -> S] : Loop(step, first, s) = a[Len(s)]
      BY <1>0
    <2> QED BY <2>1
  <1>2. Loop(step, first, <<>>) = first
    <2> DEFINE s == <<>>
    <2>1. s \in Seq(T) /\ Len(s) = 0
      OBVIOUS
    <2> HIDE DEF s
    <2>2. PICK a \in [0 .. Len(s) -> S] : /\ Computes(a, step, first, T, s)
                                        /\ Loop(step, first, s) = a[Len(s)]
      BY <2>1, <1>0
    <2>3. Loop(step, first, s) = a[0]
      BY <2>1, <2>2
    <2>4. a[0] = first
      BY <2>1, <2>2 DEF Computes, Run
    <2> QED BY <2>3, <2>4 DEF s
  <1>3. ASSUME NEW s \in Seq(T), NEW e \in T
        PROVE  Loop(step, first, Append(s, e)) = step[e][Loop(step, first, s)]
    <2> DEFINE t == Append(s, e)
               n == Len(s)
    <2>1. /\ t \in Seq(T) /\ Len(t) = n + 1 /\ n \in Nat /\ t[n + 1] = e
          /\ \A k \in 1 .. n : s[k] = t[k]
      OBVIOUS
    <2> HIDE DEF t
    <2>2. PICK a \in [0 .. Len(t) -> S] : Computes(a, step, first, T, t)
      BY <2>1, LoopIsRun
    <2>3. Loop(step, first, t) = a[n + 1] /\ Loop(step, first, s) = a[n]
      BY <2>1, <2>2 DEF Computes
    <2>4. a[n + 1] = step[t[n + 1]][a[n]]
      <3>1. n + 1 \in 0 .. Len(t) /\ n + 1 # 0 /\ (n + 1) - 1 = n
        BY <2>1
      <3> QED BY <2>2, <3>1 DEF Computes, Run
    <2> QED BY <2>1, <2>3, <2>4 DEF t
  <1> QED BY <1>1, <1>2, <1>3

-----------------------------------------------------------------------------
(* The two CRCs.                                                           *)

(* What ^ adds to its first operand, halved: bit by bit from below.        *)
Gain(v, w) == Xor(v, w) - v

(* The gain, one bit at a time.                                            *)
LEMMA XorGain ==
    ASSUME NEW v \in uint16_t, NEW w \in Nat, NEW e \in {0, 1},
           2 * w + e < 65536
    PROVE  /\ Gain(v, 2 * w + e) =
                  2 * Gain(v \div 2, w) + IF e = 0 THEN 0 ELSE 1 - 2 * (v % 2)
           /\ Gain(v, 2 * w + e) \in Int
           /\ Gain(v \div 2, w) \in Int
           /\ v \div 2 \in uint16_t
  <1> DEFINE u == 2 * w + e
             x == Xor(v, u)
             v2 == v \div 2
             x2 == x \div 2
  <1>1. u \in uint16_t /\ u \div 2 = w /\ u % 2 = e /\ w \in uint16_t
    BY Widths
  <1> HIDE DEF u
  <1>2. x \in uint16_t /\ v2 \in uint16_t
    BY <1>1, XorBit, HalfBits
  <1>3. x \in Nat /\ v \in Nat
    BY <1>2, Widths
  <1>4. Xor(v2, w) = x2 /\ x % 2 = IF v % 2 = e THEN 0 ELSE 1
    BY <1>1, XorHalf
  <1>5. \A n \in Nat : n = 2 * (n \div 2) + (n % 2) /\ n % 2 \in {0, 1}
                      /\ n \div 2 \in Nat
    OBVIOUS
  <1> DEFINE p == x % 2
             q == v % 2
  <1>6. /\ x = 2 * x2 + p /\ p \in {0, 1} /\ x2 \in Nat
        /\ v = 2 * v2 + q /\ q \in {0, 1} /\ v2 \in Nat
    BY <1>3, <1>5
  <1>7. p = IF q = e THEN 0 ELSE 1
    BY <1>4
  <1> HIDE DEF x, v2, x2, p, q
  <1>8. x - v = 2 * (x2 - v2) + IF e = 0 THEN 0 ELSE 1 - 2 * q
    BY <1>6, <1>7
  <1>9. Gain(v, u) = x - v /\ Gain(v2, w) = x2 - v2
    BY <1>4 DEF Gain, x
  <1> QED BY <1>2, <1>3, <1>6, <1>8, <1>9 DEF u, v2, q

(* An even operand, and with it the others of the form m * w.              *)
GainBy(m) ==
    \A v \in uint16_t, w \in Nat :
        m * w < 65536 => /\ Gain(v, m * w) = m * Gain(v \div m, w)
                         /\ v \div m \in uint16_t
                         /\ Gain(v \div m, w) \in Int

(* This is so for 2, and with m for its double.                            *)
LEMMA GainByTwo == GainBy(2)
  <1> SUFFICES ASSUME NEW v \in uint16_t, NEW w \in Nat, 2 * w < 65536
               PROVE  /\ Gain(v, 2 * w) = 2 * Gain(v \div 2, w)
                      /\ v \div 2 \in uint16_t
                      /\ Gain(v \div 2, w) \in Int
    BY DEF GainBy
  <1>1. 0 \in {0, 1} /\ 2 * w + 0 = 2 * w
    OBVIOUS
  <1> QED BY <1>1, XorGain

(* (the double)                                                            *)
LEMMA GainTwice ==
    ASSUME NEW m \in Nat \ {0}, GainBy(m)
    PROVE  GainBy(2 * m)
  <1> SUFFICES ASSUME NEW v \in uint16_t, NEW w \in Nat, (2 * m) * w < 65536
               PROVE  /\ Gain(v, (2 * m) * w) =
                            (2 * m) * Gain(v \div (2 * m), w)
                      /\ v \div (2 * m) \in uint16_t
                      /\ Gain(v \div (2 * m), w) \in Int
    BY DEF GainBy
  <1> DEFINE u == 2 * w
             q == v \div m
  <1>1. /\ u \in Nat /\ (2 * m) * w = m * u
    OBVIOUS
  <1>2. Gain(v, m * u) = m * Gain(q, u) /\ q \in uint16_t
    BY <1>1 DEF GainBy
  <1>3. 2 * w < 65536
    <2>1. \A n \in Nat : m * n >= n
      OBVIOUS
    <2> QED BY <1>1, <2>1
  <1>4. /\ Gain(q, u) = 2 * Gain(q \div 2, w)
        /\ q \div 2 \in uint16_t
        /\ Gain(q \div 2, w) \in Int
    BY <1>2, <1>3, GainByTwo DEF GainBy
  <1>5. v \div (2 * m) = q \div 2
    BY Widths, DivTwice
  <1> HIDE DEF q
  <1> QED BY <1>1, <1>2, <1>4, <1>5

(* Exclusive or with 0xa001 of a word without the top bit, in arithmetic.  *)
LEMMA FlipA001 ==
    ASSUME NEW v \in Nat, v < 32768
    PROVE  Xor(v, 40961) =
               v + 40961 - 16384 * ((v \div 8192) % 2) - 2 * (v % 2)
  <1> DEFINE u == v \div 2
             q == v \div 8192
  <1>1. v \in uint16_t
    BY Widths
  <1>2. GainBy(4096)
    <2>1. GainBy(4) /\ GainBy(8) /\ GainBy(16)
      BY GainByTwo, GainTwice, 4 = 2 * 2, 8 = 2 * 4, 16 = 2 * 8
    <2>2. GainBy(32) /\ GainBy(64) /\ GainBy(128)
      BY <2>1, GainTwice, 32 = 2 * 16, 64 = 2 * 32, 128 = 2 * 64
    <2>3. GainBy(256) /\ GainBy(512) /\ GainBy(1024)
      BY <2>2, GainTwice, 256 = 2 * 128, 512 = 2 * 256, 1024 = 2 * 512
    <2> QED BY <2>3, GainTwice, 2048 = 2 * 1024, 4096 = 2 * 2048
  <1>3. /\ Gain(v, 40961) = 2 * Gain(u, 20480) + 1 - 2 * (v % 2)
        /\ u \in uint16_t
    BY <1>1, XorGain, 40961 = 2 * 20480 + 1
  <1>4. Gain(u, 20480) = 4096 * Gain(q, 5) /\ q \in uint16_t
    <2>1. u \div 4096 = q /\ 4096 * 5 = 20480
      OBVIOUS
    <2> HIDE DEF u, q
    <2> QED BY <1>2, <1>3, <2>1 DEF GainBy
  <1>5. q \in 0 .. 3
    OBVIOUS
  <1> HIDE DEF u, q
  <1>6. Gain(q, 5) = 2 * Gain(q \div 2, 2) + 1 - 2 * (q % 2)
        /\ q \div 2 \in uint16_t
    BY <1>4, XorGain, 5 = 2 * 2 + 1
  <1>7. Gain(q \div 2, 2) = 2 * Gain((q \div 2) \div 2, 1)
    BY <1>6, GainByTwo, 2 * 1 = 2 DEF GainBy
  <1>8. (q \div 2) \div 2 = 0
    BY <1>5
  <1>9. Gain(0, 1) = 1
    <2>1. 1 \in uint16_t
      BY Widths
    <2> QED BY <2>1, XorZero DEF Gain
  <1>10. Gain(q, 5) = 5 - 2 * (q % 2)
    BY <1>5, <1>6, <1>7, <1>8, <1>9
  <1>11. Gain(v, 40961) = 40961 - 16384 * (q % 2) - 2 * (v % 2)
    BY <1>3, <1>4, <1>5, <1>10
  <1>12. Xor(v, 40961) \in Nat
    <2>1. 40961 \in uint16_t
      BY Widths
    <2> QED BY <1>1, <2>1, XorBit, Widths
  <1> QED BY <1>11, <1>12 DEF q, Gain

(* A shift of the bit-by-bit CRC, in arithmetic.                           *)
Shifted(r) ==
    IF r % 2 = 0 THEN r \div 2
    ELSE (r \div 2) + 40961 - 16384 * ((r \div 16384) % 2)
                            - 2 * ((r \div 2) % 2)

(* The shift is this arithmetic.                                           *)
LEMMA ShiftIs ==
    ASSUME NEW r \in uint16_t
    PROVE  /\ ShiftA001(r) = Shifted(r)
           /\ ShiftA001(r) \in uint16_t
  <1>1. r \in Nat /\ r < 65536
    BY Widths
  <1>2. /\ r \div 2 \in Nat /\ r \div 2 < 32768
        /\ (r \div 2) \div 8192 = r \div 16384
    BY <1>1
  <1>3. r \div 2 \in uint16_t /\ 40961 \in uint16_t
    BY <1>2, Widths
  <1>4. Xor(r \div 2, 40961) \in uint16_t
    BY <1>3, XorBit
  <1>5. r % 2 \in {0, 1}
    BY <1>1
  <1>6. Xor(r \div 2, 40961) = (r \div 2) + 40961
            - 16384 * (((r \div 2) \div 8192) % 2) - 2 * ((r \div 2) % 2)
    BY <1>2, FlipA001
  <1> QED BY <1>2, <1>3, <1>4, <1>5, <1>6 DEF ShiftA001, Shifted

(* Words by their bits, the lowest first.                                  *)
Flip(x, y) == IF x = y THEN 0 ELSE 1
Of(b0, b1, b2, b3, b4, b5, b6, b7, b8, b9, b10, b11, b12, b13, b14, b15) ==
    b0 + 2 * b1 + 4 * b2 + 8 * b3 + 16 * b4 + 32 * b5 + 64 * b6 + 128 * b7
       + 256 * b8 + 512 * b9 + 1024 * b10 + 2048 * b11 + 4096 * b12
       + 8192 * b13 + 16384 * b14 + 32768 * b15

AllBits(b0, b1, b2, b3, b4, b5, b6, b7, b8, b9, b10, b11, b12, b13, b14,
        b15) ==
    {b0, b1, b2, b3, b4, b5, b6, b7, b8, b9, b10, b11, b12, b13, b14, b15}
        \subseteq {0, 1}

(* The CRC of a byte in its bits: p8 is their parity, and d1 to d8 are     *)
(* what the shifts add to bit 13.                                          *)
LEMMA TableEntry ==
    ASSUME NEW b0 \in {0, 1}, NEW b1 \in {0, 1}, NEW b2 \in {0, 1},
           NEW b3 \in {0, 1}, NEW b4 \in {0, 1}, NEW b5 \in {0, 1},
           NEW b6 \in {0, 1}, NEW b7 \in {0, 1},
           NEW p2, NEW p3, NEW p4, NEW p5, NEW p6, NEW p7, NEW p8,
           p2 = Flip(b0, b1), p3 = Flip(p2, b2), p4 = Flip(p3, b3),
           p5 = Flip(p4, b4), p6 = Flip(p5, b5), p7 = Flip(p6, b6),
           p8 = Flip(p7, b7),
           NEW n, n = 1 + Of(b0, b1, b2, b3, b4, b5, b6, b7,
                             0, 0, 0, 0, 0, 0, 0, 0)
    PROVE  256 * aucCRCLo[n] + aucCRCHi[n] =
               Of(p8, 0, 0, 0, 0, 0, b0, p2, Flip(p3, b0), Flip(p4, p2),
                  Flip(p5, p3), Flip(p6, p4), Flip(p7, p5), Flip(p8, p6),
                  p7, p8)
  BY DEF aucCRCLo, aucCRCHi, Of, Flip

(* Every entry of the tables is a byte.                                    *)
LEMMA TableByte ==
    ASSUME NEW n \in 1 .. 256
    PROVE  aucCRCLo[n] \in uint8_t /\ aucCRCHi[n] \in uint8_t
  <1>1. /\ aucCRCLo[n] \in Nat /\ aucCRCLo[n] < 256
        /\ aucCRCHi[n] \in Nat /\ aucCRCHi[n] < 256
    BY DEF aucCRCLo, aucCRCHi
  <1> QED BY <1>1, Widths

(* A shift moves every bit down; the lowest is added to three of them.     *)
LEMMA ShiftOf ==
    ASSUME NEW b0, NEW b1, NEW b2, NEW b3, NEW b4, NEW b5, NEW b6, NEW b7,
           NEW b8, NEW b9, NEW b10, NEW b11, NEW b12, NEW b13, NEW b14,
           NEW b15,
           AllBits(b0, b1, b2, b3, b4, b5, b6, b7, b8, b9, b10, b11, b12, b13,
                   b14, b15)
    PROVE  /\ Of(b0, b1, b2, b3, b4, b5, b6, b7, b8, b9, b10, b11, b12, b13,
                 b14, b15) \in uint16_t
           /\ ShiftA001(Of(b0, b1, b2, b3, b4, b5, b6, b7, b8, b9, b10, b11,
                           b12, b13, b14, b15)) =
                 Of(Flip(b0, b1), b2, b3, b4, b5, b6, b7, b8, b9, b10, b11,
                    b12, b13, Flip(b0, b14), b15, b0)
  <1>0. /\ b0 \in {0, 1} /\ b1 \in {0, 1} /\ b2 \in {0, 1} /\ b3 \in {0, 1}
        /\ b4 \in {0, 1} /\ b5 \in {0, 1} /\ b6 \in {0, 1} /\ b7 \in {0, 1}
        /\ b8 \in {0, 1} /\ b9 \in {0, 1} /\ b10 \in {0, 1} /\ b11 \in {0, 1}
        /\ b12 \in {0, 1} /\ b13 \in {0, 1} /\ b14 \in {0, 1} /\ b15 \in {0, 1}
    BY DEF AllBits
  <1> DEFINE r == Of(b0, b1, b2, b3, b4, b5, b6, b7, b8, b9, b10, b11, b12,
                     b13, b14, b15)
             h == b1 + 2 * b2 + 4 * b3 + 8 * b4 + 16 * b5 + 32 * b6 + 64 * b7
                     + 128 * b8 + 256 * b9 + 512 * b10 + 1024 * b11
                     + 2048 * b12 + 4096 * b13 + 8192 * b14 + 16384 * b15
             g == b2 + 2 * b3 + 4 * b4 + 8 * b5 + 16 * b6 + 32 * b7
                     + 64 * b8 + 128 * b9 + 256 * b10 + 512 * b11
                     + 1024 * b12 + 2048 * b13 + 4096 * b14 + 8192 * b15
             f == b0 + 2 * b1 + 4 * b2 + 8 * b3 + 16 * b4 + 32 * b5 + 64 * b6
                     + 128 * b7 + 256 * b8 + 512 * b9 + 1024 * b10 + 2048 * b11
                     + 4096 * b12 + 8192 * b13
  <1>1. /\ r = 2 * h + b0 /\ h \in Nat /\ h = 2 * g + b1 /\ g \in Nat
        /\ r = 16384 * (2 * b15 + b14) + f /\ f \in Nat /\ f < 16384
        /\ r \in Nat /\ r < 65536
    BY <1>0 DEF Of
  <1> HIDE DEF r, h, g, f
  <1>2. r \in uint16_t
    BY <1>1, Widths
  <1>3. r % 2 = b0 /\ r \div 2 = h /\ h % 2 = b1
    BY <1>0, <1>1
  <1>4. r \div 16384 = 2 * b15 + b14
    BY <1>0, <1>1
  <1>5. (r \div 16384) % 2 = b14
    BY <1>0, <1>4
  <1>6. ShiftA001(r) = IF b0 = 0 THEN h ELSE h + 40961 - 16384 * b14 - 2 * b1
    BY <1>2, <1>3, <1>5, <1>0, ShiftIs DEF Shifted
  <1>7. (IF b0 = 0 THEN h ELSE h + 40961 - 16384 * b14 - 2 * b1) =
            Of(Flip(b0, b1), b2, b3, b4, b5, b6, b7, b8, b9, b10, b11,
                    b12, b13, Flip(b0, b14), b15, b0)
    BY <1>0 DEF Of, Flip, h
  <1> QED BY <1>2, <1>6, <1>7 DEF r

(* Eight shifts of a byte: b0, p2 to p8 are shifted out, the sums of the    *)
(* bits so far.  The table holds the result.                               *)
LEMMA ByteIsTable ==
    ASSUME NEW b0, NEW b1, NEW b2, NEW b3, NEW b4, NEW b5, NEW b6, NEW b7,
           AllBits(b0, b1, b2, b3, b4, b5, b6, b7, 0, 0, 0, 0, 0, 0, 0, 0),
           NEW i,
           i = Of(b0, b1, b2, b3, b4, b5, b6, b7, 0, 0, 0, 0, 0, 0, 0, 0)
    PROVE  ByteA001(i) = 256 * aucCRCLo[1 + i] + aucCRCHi[1 + i]
  <1> DEFINE p2 == Flip(b0, b1)
             p3 == Flip(p2, b2)
             p4 == Flip(p3, b3)
             p5 == Flip(p4, b4)
             p6 == Flip(p5, b5)
             p7 == Flip(p6, b6)
             p8 == Flip(p7, b7)
             d3 == Flip(p3, b0)
             d4 == Flip(p4, p2)
             d5 == Flip(p5, p3)
             d6 == Flip(p6, p4)
             d7 == Flip(p7, p5)
             d8 == Flip(p8, p6)
  <1>1. /\ p2 = Flip(b0, b1) /\ p3 = Flip(p2, b2) /\ p4 = Flip(p3, b3)
        /\ p5 = Flip(p4, b4) /\ p6 = Flip(p5, b5) /\ p7 = Flip(p6, b6)
        /\ p8 = Flip(p7, b7) /\ d3 = Flip(p3, b0) /\ d4 = Flip(p4, p2)
        /\ d5 = Flip(p5, p3) /\ d6 = Flip(p6, p4) /\ d7 = Flip(p7, p5)
        /\ d8 = Flip(p8, p6)
    OBVIOUS
  <1>2. {p2, p3, p4, p5, p6, p7, p8, d3, d4, d5, d6, d7, d8} \subseteq {0, 1}
    <2>1. \A x, y : Flip(x, y) \in {0, 1}
      BY DEF Flip
    <2> QED BY <2>1
  <1> HIDE DEF p2, p3, p4, p5, p6, p7, p8, d3, d4, d5, d6, d7, d8
  <1>3. \A x \in {0, 1} : Flip(x, 0) = x
    BY DEF Flip
  <1>11. ShiftA001(Of(b0, b1, b2, b3, b4, b5, b6, b7, 0, 0, 0, 0, 0,
                      0, 0, 0)) =
            Of(p2, b2, b3, b4, b5, b6, b7, 0, 0, 0, 0, 0, 0, b0, 0, b0)
    BY <1>1, <1>2, <1>3, ShiftOf DEF AllBits
  <1>12. ShiftA001(Of(p2, b2, b3, b4, b5, b6, b7, 0, 0, 0, 0, 0, 0,
                      b0, 0, b0)) =
            Of(p3, b3, b4, b5, b6, b7, 0, 0, 0, 0, 0, 0, b0, p2, b0, p2)
    BY <1>1, <1>2, <1>3, ShiftOf DEF AllBits
  <1>13. ShiftA001(Of(p3, b3, b4, b5, b6, b7, 0, 0, 0, 0, 0, 0, b0,
                      p2, b0, p2)) =
            Of(p4, b4, b5, b6, b7, 0, 0, 0, 0, 0, 0, b0, p2, d3, p2, p3)
    BY <1>1, <1>2, <1>3, ShiftOf DEF AllBits
  <1>14. ShiftA001(Of(p4, b4, b5, b6, b7, 0, 0, 0, 0, 0, 0, b0, p2,
                      d3, p2, p3)) =
            Of(p5, b5, b6, b7, 0, 0, 0, 0, 0, 0, b0, p2, d3, d4, p3, p4)
    BY <1>1, <1>2, <1>3, ShiftOf DEF AllBits
  <1>15. ShiftA001(Of(p5, b5, b6, b7, 0, 0, 0, 0, 0, 0, b0, p2, d3,
                      d4, p3, p4)) =
            Of(p6, b6, b7, 0, 0, 0, 0, 0, 0, b0, p2, d3, d4, d5, p4, p5)
    BY <1>1, <1>2, <1>3, ShiftOf DEF AllBits
  <1>16. ShiftA001(Of(p6, b6, b7, 0, 0, 0, 0, 0, 0, b0, p2, d3, d4,
                      d5, p4, p5)) =
            Of(p7, b7, 0, 0, 0, 0, 0, 0, b0, p2, d3, d4, d5, d6, p5, p6)
    BY <1>1, <1>2, <1>3, ShiftOf DEF AllBits
  <1>17. ShiftA001(Of(p7, b7, 0, 0, 0, 0, 0, 0, b0, p2, d3, d4, d5,
                      d6, p5, p6)) =
            Of(p8, 0, 0, 0, 0, 0, 0, b0, p2, d3, d4, d5, d6, d7, p6, p7)
    BY <1>1, <1>2, <1>3, ShiftOf DEF AllBits
  <1>18. ShiftA001(Of(p8, 0, 0, 0, 0, 0, 0, b0, p2, d3, d4, d5, d6,
                      d7, p6, p7)) =
            Of(p8, 0, 0, 0, 0, 0, b0, p2, d3, d4, d5, d6, d7, d8, p7, p8)
    BY <1>1, <1>2, <1>3, ShiftOf DEF AllBits
  <1>19. ByteA001(i) =
            Of(p8, 0, 0, 0, 0, 0, b0, p2, d3, d4, d5, d6, d7, d8, p7, p8)
    BY <1>11, <1>12, <1>13, <1>14, <1>15, <1>16, <1>17, <1>18 DEF ByteA001
  <1>20. 256 * aucCRCLo[1 + i] + aucCRCHi[1 + i] =
            Of(p8, 0, 0, 0, 0, 0, b0, p2, d3, d4, d5, d6, d7, d8, p7, p8)
    <2>1. /\ b0 \in {0, 1} /\ b1 \in {0, 1} /\ b2 \in {0, 1} /\ b3 \in {0, 1}
          /\ b4 \in {0, 1} /\ b5 \in {0, 1} /\ b6 \in {0, 1} /\ b7 \in {0, 1}
      BY DEF AllBits
    <2> QED BY <1>1, <2>1, TableEntry
  <1> QED BY <1>19, <1>20

(* The table holds the CRC of every byte.                                  *)
LEMMA TableRight ==
    ASSUME NEW i \in uint8_t
    PROVE  ByteA001(i) = 256 * aucCRCLo[i + 1] + aucCRCHi[i + 1]
  <1> DEFINE i1 == i \div 2
             i2 == i1 \div 2
             i3 == i2 \div 2
             i4 == i3 \div 2
             i5 == i4 \div 2
             i6 == i5 \div 2
             b0 == i % 2
             b1 == i1 % 2
             b2 == i2 % 2
             b3 == i3 % 2
             b4 == i4 % 2
             b5 == i5 % 2
             b6 == i6 % 2
             b7 == i6 \div 2
  <1>1. i \in Nat /\ i < 256
    BY Widths
  <1>2. \A n \in Nat : n = 2 * (n \div 2) + (n % 2) /\ n % 2 \in {0, 1}
                      /\ n \div 2 \in Nat
    OBVIOUS
  <1>3. /\ i = 2 * i1 + b0 /\ b0 \in {0, 1} /\ i1 \in Nat
        /\ i1 = 2 * i2 + b1 /\ b1 \in {0, 1} /\ i2 \in Nat
        /\ i2 = 2 * i3 + b2 /\ b2 \in {0, 1} /\ i3 \in Nat
    BY <1>1, <1>2, Zenon
  <1>4. /\ i3 = 2 * i4 + b3 /\ b3 \in {0, 1} /\ i4 \in Nat
        /\ i4 = 2 * i5 + b4 /\ b4 \in {0, 1} /\ i5 \in Nat
        /\ i5 = 2 * i6 + b5 /\ b5 \in {0, 1} /\ i6 \in Nat
        /\ i6 = 2 * b7 + b6 /\ b6 \in {0, 1} /\ b7 \in Nat
    BY <1>2, <1>3, Zenon
  <1> HIDE DEF i1, i2, i3, i4, i5, i6, b0, b1, b2, b3, b4, b5, b6, b7
  <1>5. b7 \in {0, 1}
    BY <1>1, <1>3, <1>4
  <1>6. i = Of(b0, b1, b2, b3, b4, b5, b6, b7, 0, 0, 0, 0, 0, 0, 0, 0)
    BY <1>3, <1>4, <1>5 DEF Of
  <1>7. AllBits(b0, b1, b2, b3, b4, b5, b6, b7, 0, 0, 0, 0, 0, 0, 0, 0)
    BY <1>3, <1>4, <1>5 DEF AllBits
  <1>8. 1 + i = i + 1
    BY <1>1
  <1> QED BY <1>6, <1>7, <1>8, ByteIsTable

(* A shift is linear.                                                      *)
LEMMA ShiftLinear ==
    ASSUME NEW v \in uint16_t, 2 * v \in uint16_t, NEW t \in uint16_t
    PROVE  /\ ShiftA001(Xor(2 * v, t)) = Xor(v, ShiftA001(t))
           /\ ShiftA001(t) \in uint16_t
  <1> DEFINE x == Xor(2 * v, t)
             t2 == t \div 2
  <1>1. t \in Nat /\ v \in Nat /\ t % 2 \in {0, 1}
    BY Widths
  <1>2. (2 * v) \div 2 = v /\ (2 * v) % 2 = 0
    BY <1>1
  <1>3. x \div 2 = Xor(v, t2) /\ x % 2 = IF 0 = t % 2 THEN 0 ELSE 1
    BY <1>2, XorHalf
  <1>4. t2 \in uint16_t /\ 40961 \in uint16_t
    BY HalfBits, Widths
  <1>5. Xor(Xor(v, t2), 40961) = Xor(v, Xor(t2, 40961))
    BY <1>4, XorAssoc
  <1> HIDE DEF x
  <1>6. ShiftA001(x) = Xor(v, ShiftA001(t))
    BY <1>1, <1>3, <1>5 DEF ShiftA001
  <1> QED BY <1>6, ShiftIs DEF x

(* Eight shifts move the high byte out unchanged.                          *)
LEMMA ByteLinear ==
    ASSUME NEW h \in uint8_t, NEW i \in uint8_t
    PROVE  ByteA001(256 * h + i) = Xor(h, ByteA001(i))
  <1> DEFINE t1 == ShiftA001(i)
             t2 == ShiftA001(t1)
             t3 == ShiftA001(t2)
             t4 == ShiftA001(t3)
             t5 == ShiftA001(t4)
             t6 == ShiftA001(t5)
             t7 == ShiftA001(t6)
             t8 == ShiftA001(t7)
  <1>1. /\ 256 * h \in uint16_t /\ 128 * h \in uint16_t /\ 64 * h \in uint16_t
        /\ 32 * h \in uint16_t /\ 16 * h \in uint16_t /\ 8 * h \in uint16_t
        /\ 4 * h \in uint16_t /\ 2 * h \in uint16_t /\ h \in uint16_t
        /\ i \in uint16_t /\ h \in Nat
    <2>1. h \in Nat /\ h < 256 /\ i \in Nat /\ i < 256
      BY Widths
    <2>2. /\ 256 * h < 65536 /\ 128 * h < 65536 /\ 64 * h < 65536
          /\ 32 * h < 65536 /\ 16 * h < 65536 /\ 8 * h < 65536
          /\ 4 * h < 65536 /\ 2 * h < 65536 /\ h < 65536 /\ i < 65536
      BY <2>1
    <2>3. /\ 256 * h \in Nat /\ 128 * h \in Nat /\ 64 * h \in Nat
          /\ 32 * h \in Nat /\ 16 * h \in Nat /\ 8 * h \in Nat
          /\ 4 * h \in Nat /\ 2 * h \in Nat
      BY <2>1
    <2>4. \A n \in Nat : n < 65536 => n \in uint16_t
      BY Widths
    <2> QED BY <2>1, <2>2, <2>3, <2>4
  <1>2. Xor(256 * h, i) = 256 * h + i
    <2>1. 0 \in uint8_t
      BY Widths
    <2>2. Xor(256 * h + 0, i) = 256 * h + Xor(0, i)
      BY <2>1, XorByte
    <2>3. Xor(0, i) = i /\ 256 * h + 0 = 256 * h
      BY <1>1, XorZero
    <2> QED BY <2>2, <2>3
  <1> HIDE DEF t1, t2, t3, t4, t5, t6, t7, t8
  <1>11. ShiftA001(Xor(256 * h, i)) = Xor(128 * h, t1) /\ t1 \in uint16_t
    <2>1. 256 * h = 2 * (128 * h)
      BY <1>1
    <2> QED BY <1>1, <2>1, ShiftLinear DEF t1
  <1>12. ShiftA001(Xor(128 * h, t1)) = Xor(64 * h, t2) /\ t2 \in uint16_t
    <2>1. 128 * h = 2 * (64 * h)
      BY <1>1
    <2> QED BY <1>1, <1>11, <2>1, ShiftLinear DEF t2
  <1>13. ShiftA001(Xor(64 * h, t2)) = Xor(32 * h, t3) /\ t3 \in uint16_t
    <2>1. 64 * h = 2 * (32 * h)
      BY <1>1
    <2> QED BY <1>1, <1>12, <2>1, ShiftLinear DEF t3
  <1>14. ShiftA001(Xor(32 * h, t3)) = Xor(16 * h, t4) /\ t4 \in uint16_t
    <2>1. 32 * h = 2 * (16 * h)
      BY <1>1
    <2> QED BY <1>1, <1>13, <2>1, ShiftLinear DEF t4
  <1>15. ShiftA001(Xor(16 * h, t4)) = Xor(8 * h, t5) /\ t5 \in uint16_t
    <2>1. 16 * h = 2 * (8 * h)
      BY <1>1
    <2> QED BY <1>1, <1>14, <2>1, ShiftLinear DEF t5
  <1>16. ShiftA001(Xor(8 * h, t5)) = Xor(4 * h, t6) /\ t6 \in uint16_t
    <2>1. 8 * h = 2 * (4 * h)
      BY <1>1
    <2> QED BY <1>1, <1>15, <2>1, ShiftLinear DEF t6
  <1>17. ShiftA001(Xor(4 * h, t6)) = Xor(2 * h, t7) /\ t7 \in uint16_t
    <2>1. 4 * h = 2 * (2 * h)
      BY <1>1
    <2> QED BY <1>1, <1>16, <2>1, ShiftLinear DEF t7
  <1>18. ShiftA001(Xor(2 * h, t7)) = Xor(h, t8) /\ t8 \in uint16_t
    <2>1. 2 * h = 2 * (h)
      BY <1>1
    <2> QED BY <1>1, <1>17, <2>1, ShiftLinear DEF t8
  <1>19. ByteA001(256 * h + i) = Xor(h, t8)
    BY <1>2, <1>11, <1>12, <1>13, <1>14, <1>15, <1>16, <1>17, <1>18
       DEF ByteA001
  <1>20. ByteA001(i) = t8
    BY DEF ByteA001, t1, t2, t3, t4, t5, t6, t7, t8
  <1> QED BY <1>19, <1>20

(* A byte by the tables is a byte bit by bit.                              *)
LEMMA LookupRight ==
    ASSUME NEW crc \in Register, NEW byte \in uint8_t
    PROVE  /\ Lookup(crc, byte) \in Register
           /\ 256 * crc.hi + crc.lo \in uint16_t
           /\ 256 * Lookup(crc, byte).hi + Lookup(crc, byte).lo =
                  ByteA001(Xor(256 * crc.hi + crc.lo, byte))
  <1> DEFINE i == Xor(crc.lo, byte)
             H == aucCRCHi[i + 1]
             L == aucCRCLo[i + 1]
  <1>1. crc.hi \in uint8_t /\ crc.lo \in uint8_t
    BY DEF Register
  <1>2. /\ i \in uint8_t
        /\ Xor(256 * crc.hi + crc.lo, byte) = 256 * crc.hi + i
    BY <1>1, XorByte
  <1>3. L \in uint8_t /\ H \in uint8_t
    <2>1. i \in Nat /\ i < 256
      BY <1>2, Widths
    <2>2. i + 1 \in 1 .. 256
      BY <2>1
    <2> QED BY <2>2, TableByte
  <1>4. ByteA001(i) = 256 * L + H
    BY <1>2, TableRight
  <1> HIDE DEF i, L, H
  <1>5. ByteA001(256 * crc.hi + i) = Xor(crc.hi, 256 * L + H)
    BY <1>1, <1>2, <1>4, ByteLinear
  <1>6. Xor(crc.hi, 256 * L + H) = Xor(256 * L + H, crc.hi)
    BY <1>1, <1>3, ByteIsWord, XorComm
  <1>7. /\ Xor(256 * L + H, crc.hi) = 256 * L + Xor(H, crc.hi)
        /\ Xor(H, crc.hi) \in uint8_t
    BY <1>1, <1>3, XorByte
  <1>8. Xor(H, crc.hi) = Xor(crc.hi, H)
    BY <1>1, <1>3, ByteIsWord, XorComm
  <1>9. Lookup(crc, byte) = [lo |-> Xor(crc.hi, H), hi |-> L]
    BY DEF Lookup, i, H, L
  <1>10. 256 * crc.hi + crc.lo \in uint16_t
    BY <1>1, ByteIsWord
  <1> QED BY <1>2, <1>3, <1>5, <1>6, <1>7, <1>8, <1>9, <1>10 DEF Register

(* usMBCRC16 is the bit-by-bit CRC, for every data.                        *)
THEOREM TablesAreModbus ==
    ASSUME NEW d \in Seq(uint8_t)
    PROVE  usMBCRC16(d) = Modbus(d)
  <1> DEFINE T == [byte \in uint8_t |-> [c \in Register |-> Lookup(c, byte)]]
             M == [byte \in uint8_t |-> [crc \in uint16_t |->
                      ByteA001(Xor(crc, byte))]]
             start == [hi |-> 255, lo |-> 255]
  <1>1. T \in [uint8_t -> [Register -> Register]] /\ start \in Register
    <2>1. 255 \in uint8_t
      BY Widths
    <2> QED BY <2>1, LookupRight DEF Register
  <1>2. M \in [uint8_t -> [uint16_t -> uint16_t]] /\ 65535 \in uint16_t
    <2>1. ASSUME NEW byte \in uint8_t, NEW crc \in uint16_t
          PROVE  ByteA001(Xor(crc, byte)) \in uint16_t
      <3>1. Xor(crc, byte) \in uint16_t
        BY ByteIsWord, XorBit
      <3>2. \A r \in uint16_t : ShiftA001(r) \in uint16_t
        BY ShiftIs
      <3> QED BY <3>1, <3>2 DEF ByteA001
    <2> QED BY <2>1, Widths
  <1> HIDE DEF T, M, start
  <1>3. PICK a \in [0 .. Len(d) -> Register] :
                Computes(a, T, start, uint8_t, d)
    BY <1>1, LoopIsRun
  <1>4. PICK b \in [0 .. Len(d) -> uint16_t] :
            Computes(b, M, 65535, uint8_t, d)
    BY <1>2, LoopIsRun
  <1>5. Loop(T, start, d) = a[Len(d)] /\ Loop(M, 65535, d) = b[Len(d)]
    BY <1>3, <1>4 DEF Computes
  <1>6. Run(a, T, start, d, Len(d)) /\ Run(b, M, 65535, d, Len(d))
    BY <1>3, <1>4 DEF Computes
  <1> DEFINE Z == {n \in Nat : n <= Len(d) => 256 * a[n].hi + a[n].lo = b[n]}
  <1>7. 0 \in Z
    <2>1. a[0] = start /\ b[0] = 65535
      BY <1>6 DEF Run
    <2> QED BY <2>1 DEF start
  <1>8. ASSUME NEW n \in Nat, n \in Z PROVE n + 1 \in Z
    <2> SUFFICES ASSUME n + 1 <= Len(d)
                 PROVE  256 * a[n + 1].hi + a[n + 1].lo = b[n + 1]
      OBVIOUS
    <2>1. n + 1 \in 0 .. Len(d) /\ n + 1 # 0 /\ (n + 1) - 1 = n
          /\ n + 1 \in 1 .. Len(d) /\ n \in 0 .. Len(d)
      OBVIOUS
    <2>2. a[n + 1] = T[d[n + 1]][a[n]] /\ b[n + 1] = M[d[n + 1]][b[n]]
      <3>1. Run(a, T, start, d, Len(d))
        BY <1>6
      <3>2. a[n + 1] = T[d[n + 1]][a[n]]
        BY <2>1, <3>1 DEF Run
      <3>3. Run(b, M, 65535, d, Len(d))
        BY <1>6
      <3>4. b[n + 1] = M[d[n + 1]][b[n]]
        BY <2>1, <3>3 DEF Run
      <3> QED BY <3>2, <3>4
    <2>3. d[n + 1] \in uint8_t /\ a[n] \in Register /\ b[n] \in uint16_t
      BY <2>1
    <2>4. a[n + 1] = Lookup(a[n], d[n + 1])
          /\ b[n + 1] = ByteA001(Xor(b[n], d[n + 1]))
      BY <2>2, <2>3 DEF T, M
    <2>5. b[n] = 256 * a[n].hi + a[n].lo
      BY <1>8, <2>1
    <2> QED BY <2>3, <2>4, <2>5, LookupRight
  <1> HIDE DEF Z
  <1>9. Len(d) \in Z
    BY <1>7, <1>8, SetInduction
  <1>10. 256 * a[Len(d)].hi + a[Len(d)].lo = b[Len(d)]
    BY <1>9 DEF Z
  <1>11. usMBCRC16(d) = 256 * Loop(T, start, d).hi + Loop(T, start, d).lo
    BY DEF usMBCRC16, T, start
  <1>12. Modbus(d) = Loop(M, 65535, d)
    BY DEF Modbus, M
  <1> QED BY <1>5, <1>10, <1>11, <1>12

(* A byte of iot_calc_crc16 that meets no carry.                           *)
LEMMA NoCarry ==
    ASSUME NEW l \in uint8_t
    PROVE  Byte1021(l) = 256 * l
  <1>1. l \in Nat /\ l < 256
    BY Widths
  <1>2. ASSUME NEW r \in Nat, r < 32768 PROVE Shift1021(r) = 2 * r
    BY <1>2 DEF Shift1021
  <1>3. /\ Shift1021(l) = 2 * l /\ Shift1021(2 * l) = 4 * l
        /\ Shift1021(4 * l) = 8 * l /\ Shift1021(8 * l) = 16 * l
    BY <1>1, <1>2
  <1>4. /\ Shift1021(16 * l) = 32 * l /\ Shift1021(32 * l) = 64 * l
        /\ Shift1021(64 * l) = 128 * l /\ Shift1021(128 * l) = 256 * l
    BY <1>1, <1>2
  <1> QED BY <1>3, <1>4 DEF Byte1021

(* The type of its steps.                                                  *)
LEMMA CcittType ==
    /\ [byte \in uint8_t |-> [r \in uint16_t |-> Byte1021(Xor(r, 256 * byte))]]
            \in [uint8_t -> [uint16_t -> uint16_t]]
    /\ 0 \in uint16_t
  <1>1. ASSUME NEW r \in uint16_t PROVE Shift1021(r) \in uint16_t
    <2>1. (2 * r) % 65536 \in uint16_t /\ 4129 \in uint16_t
      BY Widths
    <2> QED BY <2>1, XorBit DEF Shift1021
  <1>2. ASSUME NEW byte \in uint8_t, NEW r \in uint16_t
        PROVE  Byte1021(Xor(r, 256 * byte)) \in uint16_t
    <2>1. Xor(r, 256 * byte) \in uint16_t
      BY ByteIsWord, XorBit
    <2> QED BY <1>1, <2>1 DEF Byte1021
  <1> QED BY <1>2, Widths

(* Data followed by its iot_calc_crc16 has the remainder 0.                *)
THEOREM RemainderZero ==
    ASSUME NEW d \in Seq(uint8_t), NEW crc, crc = iot_calc_crc16(d)
    PROVE  iot_calc_crc16(d \o <<Hi(crc), Lo(crc)>>) = 0
  <1> DEFINE S == [byte \in uint8_t |-> [r \in uint16_t |->
                      Byte1021(Xor(r, 256 * byte))]]
             h == Hi(crc)
             l == Lo(crc)
  <1>1. S \in [uint8_t -> [uint16_t -> uint16_t]] /\ 0 \in uint16_t
    BY CcittType
  <1>2. ASSUME NEW e \in Seq(uint8_t) PROVE iot_calc_crc16(e) = Loop(S, 0, e)
    BY DEF iot_calc_crc16
  <1> HIDE DEF S
  <1> DEFINE F(s) == Loop(S, 0, s)
  <1>0. /\ \A s \in Seq(uint8_t) : F(s) \in uint16_t
        /\ \A s \in Seq(uint8_t), e \in uint8_t : F(Append(s, e)) = S[e][F(s)]
    BY <1>1, LoopSteps
  <1>3. crc \in uint16_t /\ F(d) = crc
    BY <1>0, <1>2
  <1>4. h \in uint8_t /\ l \in uint8_t /\ crc = 256 * h + l
    <2>1. crc \in Nat /\ crc < 65536
      BY <1>3, Widths
    <2>2. h \in Nat /\ h < 256 /\ l \in Nat /\ l < 256 /\ crc = 256 * h + l
      BY <2>1 DEF Hi, Lo
    <2> QED BY <2>2, Widths
  <1> HIDE DEF h, l
  <1>5. d \o <<h, l>> = Append(Append(d, h), l)
    BY <1>4
  <1>6. /\ Append(d, h) \in Seq(uint8_t)
        /\ Append(Append(d, h), l) \in Seq(uint8_t)
    BY <1>4
  <1>7. F(Append(d, h)) = S[h][crc]
    BY <1>0, <1>3, <1>4
  <1>8. F(Append(Append(d, h), l)) = S[l][S[h][crc]]
    BY <1>0, <1>4, <1>6, <1>7
  <1>9. S[h][crc] = 256 * l
    <2>0. 0 \in uint8_t
      BY Widths
    <2>1. /\ 256 * h \in uint16_t /\ l \in uint16_t /\ 0 \in uint8_t
          /\ 256 * h + 0 = 256 * h
      BY <1>4, <2>0, ByteIsWord
    <2>2. Xor(256 * h, l) = 256 * h + l
      <3>1. Xor(256 * h + 0, l) = 256 * h + Xor(0, l)
        BY <1>4, <2>1, XorByte
      <3> QED BY <2>1, <3>1, XorZero
    <2>3. Xor(crc, 256 * h) = l
      <3>1. crc = Xor(l, 256 * h)
        BY <1>4, <2>1, <2>2, XorComm
      <3>2. Xor(Xor(l, 256 * h), 256 * h) = Xor(l, Xor(256 * h, 256 * h))
        BY <2>1, XorAssoc
      <3> QED BY <2>1, <3>1, <3>2, XorZero
    <2> QED BY <1>3, <1>4, <2>3, NoCarry DEF S
  <1>10. S[l][256 * l] = 0
    <2>0. 0 \in uint8_t
      BY Widths
    <2>1. 256 * l \in uint16_t /\ 0 \in uint8_t
      BY <1>4, <2>0, ByteIsWord
    <2>2. Xor(256 * l, 256 * l) = 0
      BY <2>1, XorZero
    <2>3. Byte1021(0) = 0
      BY <2>1, NoCarry
    <2> QED BY <1>4, <2>1, <2>2, <2>3 DEF S
  <1> QED BY <1>2, <1>5, <1>6, <1>8, <1>9, <1>10 DEF h, l

(* An exclusive or of numbers, from the lowest bit up.                     *)
Unlike(v, w) == IF v % 2 = w % 2 THEN 0 ELSE 1

(* The operator ^ is the lowest bit and twice what it is on the halves.    *)
LEMMA XorStep ==
    ASSUME NEW v \in uint16_t, NEW w \in uint16_t
    PROVE  /\ Xor(v, w) = 2 * Xor(v \div 2, w \div 2) + Unlike(v, w)
           /\ v \div 2 \in uint16_t /\ w \div 2 \in uint16_t
           /\ Xor(v, w) \in Nat /\ v \in Nat /\ w \in Nat
  <1> DEFINE x == Xor(v, w)
  <1>1. x \in Nat /\ v \in Nat /\ w \in Nat
    BY XorBit, Widths
  <1>2. \A n \in Nat : n = 2 * (n \div 2) + (n % 2)
    OBVIOUS
  <1>3. x = 2 * (x \div 2) + (x % 2)
    BY <1>1, <1>2
  <1>4. v \div 2 \in uint16_t /\ w \div 2 \in uint16_t
    BY HalfBits
  <1> QED BY <1>1, <1>3, <1>4, XorHalf DEF Unlike

(* Four bits at a time.                                                    *)
Unlike4(v, w) ==
    8 * Unlike(v \div 8, w \div 8) + 4 * Unlike(v \div 4, w \div 4)
       + 2 * Unlike(v \div 2, w \div 2) + Unlike(v, w)

(* The same, for the lowest four bits.                                     *)
LEMMA XorSteps ==
    ASSUME NEW v \in uint16_t, NEW w \in uint16_t
    PROVE  /\ Xor(v, w) = 16 * Xor(v \div 16, w \div 16) + Unlike4(v, w)
           /\ v \div 16 \in uint16_t /\ w \div 16 \in uint16_t
  <1> DEFINE v2 == v \div 2
             v4 == v2 \div 2
             v8 == v4 \div 2
             v16 == v8 \div 2
             w2 == w \div 2
             w4 == w2 \div 2
             w8 == w4 \div 2
             w16 == w8 \div 2
  <1>1. /\ v4 = v \div 4 /\ v8 = v \div 8 /\ v16 = v \div 16
        /\ w4 = w \div 4 /\ w8 = w \div 8 /\ w16 = w \div 16
    BY XorStep
  <1>2. Xor(v, w) = 2 * Xor(v2, w2) + Unlike(v, w)
        /\ v2 \in uint16_t /\ w2 \in uint16_t
    BY XorStep
  <1>3. Xor(v2, w2) = 2 * Xor(v4, w4) + Unlike(v2, w2)
        /\ v4 \in uint16_t /\ w4 \in uint16_t
    BY <1>2, XorStep
  <1>4. Xor(v4, w4) = 2 * Xor(v8, w8) + Unlike(v4, w4)
        /\ v8 \in uint16_t /\ w8 \in uint16_t
    BY <1>3, XorStep
  <1>5. Xor(v8, w8) = 2 * Xor(v16, w16) + Unlike(v8, w8)
        /\ v16 \in uint16_t /\ w16 \in uint16_t
    BY <1>4, XorStep
  <1>6. Xor(v16, w16) \in Nat
    BY <1>5, XorStep
  <1>7. \A x, y : Unlike(x, y) \in Nat
    BY DEF Unlike
  <1> DEFINE a == Unlike(v, w)
             b == Unlike(v2, w2)
             c == Unlike(v4, w4)
             d == Unlike(v8, w8)
             e == Xor(v16, w16)
  <1>8. a \in Nat /\ b \in Nat /\ c \in Nat /\ d \in Nat /\ e \in Nat
    BY <1>6, <1>7
  <1>9. Xor(v, w) = 2 * (2 * (2 * (2 * e + d) + c) + b) + a
    BY <1>2, <1>3, <1>4, <1>5
  <1>10. Unlike4(v, w) = 8 * d + 4 * c + 2 * b + a
    BY <1>1 DEF Unlike4
  <1> HIDE DEF v2, v4, v8, v16, w2, w4, w8, w16, a, b, c, d, e
  <1>11. Xor(v, w) = 16 * e + Unlike4(v, w)
    BY <1>8, <1>9, <1>10
  <1> QED BY <1>1, <1>5, <1>11 DEF e

(* The operator ^ as a sum, which evaluates it on numerals.                *)
LEMMA XorSum ==
    ASSUME NEW v \in uint16_t, NEW w \in uint16_t
    PROVE  Xor(v, w) = 4096 * Unlike4(v \div 4096, w \div 4096)
                       + 256 * Unlike4(v \div 256, w \div 256)
                       + 16 * Unlike4(v \div 16, w \div 16) + Unlike4(v, w)
  <1> DEFINE v1 == v \div 16
             v2 == v1 \div 16
             v3 == v2 \div 16
             v4 == v3 \div 16
             w1 == w \div 16
             w2 == w1 \div 16
             w3 == w2 \div 16
             w4 == w3 \div 16
             a == Unlike4(v, w)
             b == Unlike4(v1, w1)
             c == Unlike4(v2, w2)
             d == Unlike4(v3, w3)
  <1>1. v \in Nat /\ w \in Nat /\ v < 65536 /\ w < 65536
    BY Widths
  <1>2. v2 = v \div 256 /\ w2 = w \div 256
    BY <1>1
  <1>3. v3 = v \div 4096 /\ w3 = w \div 4096
    BY <1>1
  <1>4. v4 = 0 /\ w4 = 0
    BY <1>1
  <1>5. Xor(v, w) = 16 * Xor(v1, w1) + a
        /\ v1 \in uint16_t /\ w1 \in uint16_t
    BY XorSteps
  <1>6. Xor(v1, w1) = 16 * Xor(v2, w2) + b
        /\ v2 \in uint16_t /\ w2 \in uint16_t
    BY <1>5, XorSteps
  <1>7. Xor(v2, w2) = 16 * Xor(v3, w3) + c
        /\ v3 \in uint16_t /\ w3 \in uint16_t
    BY <1>6, XorSteps
  <1>8. Xor(v3, w3) = 16 * Xor(v4, w4) + d
        /\ v4 \in uint16_t /\ w4 \in uint16_t
    BY <1>7, XorSteps
  <1>9. Xor(v4, w4) = 0
    BY <1>4, <1>8, XorZero
  <1>10. \A x, y : Unlike4(x, y) \in Nat
    BY DEF Unlike4, Unlike
  <1>11. a \in Nat /\ b \in Nat /\ c \in Nat /\ d \in Nat
    BY <1>10
  <1>12. Xor(v, w) = 16 * (16 * (16 * (16 * 0 + d) + c) + b) + a
    BY <1>5, <1>6, <1>7, <1>8, <1>9
  <1> HIDE DEF v1, a, b, c, d
  <1>13. Xor(v, w) = 4096 * d + 256 * c + 16 * b + a
    BY <1>11, <1>12
  <1> QED BY <1>2, <1>3, <1>13 DEF v1, w1, a, b, c, d

(* Exclusive or with 0x1021, in arithmetic, and the shift that does it.    *)
LEMMA Flip1021 ==
    ASSUME NEW v \in uint16_t
    PROVE  Xor(v, 4129) = v + 4129 - 8192 * ((v \div 4096) % 2)
                          - 64 * ((v \div 32) % 2) - 2 * (v % 2)
  <1> DEFINE u == v \div 2
             t == u \div 16
             s == t \div 2
             r == s \div 64
  <1>1. v \in Nat /\ Xor(v, 4129) \in Nat
    <2>1. 4129 \in uint16_t
      BY Widths
    <2> QED BY <2>1, XorBit, Widths
  <1>2. t = v \div 32 /\ s = v \div 64 /\ r = v \div 4096
    BY <1>1
  <1>3. GainBy(16) /\ GainBy(64)
    <2>1. GainBy(4) /\ GainBy(8) /\ GainBy(16)
      BY GainByTwo, GainTwice, 4 = 2 * 2, 8 = 2 * 4, 16 = 2 * 8
    <2> QED BY <2>1, GainTwice, 32 = 2 * 16, 64 = 2 * 32
  <1>4. Gain(v, 4129) = 2 * Gain(u, 2064) + 1 - 2 * (v % 2)
        /\ u \in uint16_t
    BY XorGain, 4129 = 2 * 2064 + 1
  <1> HIDE DEF u
  <1>5. Gain(u, 2064) = 16 * Gain(t, 129) /\ t \in uint16_t
    BY <1>3, <1>4, 16 * 129 = 2064 DEF GainBy
  <1> HIDE DEF t
  <1>6. Gain(t, 129) = 2 * Gain(s, 64) + 1 - 2 * (t % 2) /\ s \in uint16_t
    BY <1>5, XorGain, 129 = 2 * 64 + 1
  <1> HIDE DEF s
  <1>7. Gain(s, 64) = 64 * Gain(r, 1) /\ r \in uint16_t
    BY <1>3, <1>6, 64 * 1 = 64 DEF GainBy
  <1> HIDE DEF r
  <1>8. Gain(r, 1) = 1 - 2 * (r % 2)
    <2>1. Gain(r, 1) = 2 * Gain(r \div 2, 0) + 1 - 2 * (r % 2)
          /\ r \div 2 \in uint16_t
      BY <1>7, XorGain, 1 = 2 * 0 + 1
    <2>2. Xor(r \div 2, 0) = r \div 2 /\ r \div 2 \in Nat
      BY <2>1, XorZero, Widths
    <2>3. Gain(r \div 2, 0) = 0
      BY <2>2 DEF Gain
    <2>4. r \in Nat
      BY <1>7, Widths
    <2> QED BY <2>1, <2>3, <2>4
  <1>9. v % 2 \in Nat /\ t % 2 \in Nat /\ r % 2 \in Nat
    BY <1>1, <1>5, <1>7, Widths
  <1>10. Gain(v, 4129) = 4129 - 8192 * (r % 2) - 64 * (t % 2) - 2 * (v % 2)
    BY <1>4, <1>5, <1>6, <1>7, <1>8, <1>9
  <1> QED BY <1>1, <1>2, <1>9, <1>10 DEF Gain

(* The shift is this arithmetic.                                           *)
LEMMA Shift1021Is ==
    ASSUME NEW r \in Nat, r < 65536
    PROVE  Shift1021(r) =
              LET v == (2 * r) % 65536
              IN  IF r < 32768 THEN v
                  ELSE v + 4129 - 8192 * ((v \div 4096) % 2)
                          - 64 * ((v \div 32) % 2)
  <1> DEFINE v == (2 * r) % 65536
  <1>1. v \in Nat /\ v < 65536 /\ v % 2 = 0
    <2>1. CASE r < 32768
      <3>1. v = 2 * r
        BY <2>1
      <3> QED BY <2>1, <3>1
    <2>2. CASE r >= 32768
      <3>1. v = 2 * r - 65536
        BY <2>2
      <3> QED BY <2>2, <3>1
    <2> QED BY <2>1, <2>2
  <1>2. v \in uint16_t
    BY <1>1, Widths
  <1>3. Shift1021(r) = IF r >= 32768 THEN Xor(v, 4129) ELSE v
    BY DEF Shift1021, v
  <1> HIDE DEF v
  <1>4. Xor(v, 4129) = v + 4129 - 8192 * ((v \div 4096) % 2)
                          - 64 * ((v \div 32) % 2)
    <2>1. 2 * (v % 2) = 0
      BY <1>1
    <2>2. Xor(v, 4129) = v + 4129 - 8192 * ((v \div 4096) % 2)
                          - 64 * ((v \div 32) % 2) - 2 * (v % 2)
      BY <1>2, Flip1021
    <2> QED BY <1>1, <2>1, <2>2
  <1> QED BY <1>3, <1>4 DEF v

(* The bytes of the frame.                                                 *)
LEMMA FrameIs ==
    /\ frame \in Seq(uint8_t) /\ Len(frame) = 8
    /\ frame[1] = 65 /\ frame[2] = 0 /\ frame[3] = 66 /\ frame[4] = 0
    /\ frame[5] = 67 /\ frame[6] = 0 /\ frame[7] = 10 /\ frame[8] = 0
    /\ \A k \in 1 .. 8 : frame[k] \in uint8_t
  <1>1. {65, 0, 66, 67, 10} \subseteq uint8_t
    BY Widths
  <1>2. frame \in Seq({65, 0, 66, 67, 10}) /\ Len(frame) = 8
    BY DEF frame
  <1>3. frame \in Seq(uint8_t)
    BY <1>1, <1>2
  <1> QED BY <1>2, <1>3 DEF frame

(* The values of a loop over the frame.                                    *)
OverFrame(a, step, first) ==
    /\ a[0] = first
    /\ \A k \in 1 .. 8 : a[k] = step[frame[k]][a[k - 1]]
    /\ Loop(step, first, frame) = a[8]

(* Every loop over the frame has such values.                              *)
LEMMA FrameRun ==
    ASSUME NEW S, NEW step \in [uint8_t -> [S -> S]], NEW first \in S
    PROVE  \E a \in [0 .. 8 -> S] : OverFrame(a, step, first)
  <1>1. PICK a \in [0 .. 8 -> S] : Computes(a, step, first, uint8_t, frame)
    BY LoopIsRun, FrameIs
  <1>2. Run(a, step, first, frame, 8) /\ Loop(step, first, frame) = a[8]
    BY <1>1, FrameIs DEF Computes
  <1>3. /\ a[0] = first
        /\ \A k \in 1 .. 8 : a[k] = step[frame[k]][a[k - 1]]
    BY <1>2 DEF Run
  <1> QED BY <1>2, <1>3 DEF OverFrame

(* Its value for the frame of main, by the tables.                         *)
LEMMA FrameTables == usMBCRC16(frame) = 61849
  <1> DEFINE T == [byte \in uint8_t |-> [c \in Register |-> Lookup(c, byte)]]
             start == [hi |-> 255, lo |-> 255]
  <1>1. T \in [uint8_t -> [Register -> Register]] /\ start \in Register
    <2>1. 255 \in uint8_t
      BY Widths
    <2> QED BY <2>1, LookupRight DEF Register
  <1> HIDE DEF T, start
  <1>2. PICK a \in [0 .. 8 -> Register] : OverFrame(a, T, start)
    BY <1>1, FrameRun
  <1>3. ASSUME NEW k \in 1 .. 8
        PROVE  a[k] = Lookup(a[k - 1], frame[k])
    <2>1. frame[k] \in uint8_t /\ a[k - 1] \in Register
      BY FrameIs
    <2> QED BY <1>2, <2>1 DEF OverFrame, T
  <1>4. usMBCRC16(frame) = 256 * a[8].hi + a[8].lo
    BY <1>2 DEF OverFrame, usMBCRC16, T, start
  <1>5. a[0] = [hi |-> 255, lo |-> 255]
    BY <1>2 DEF OverFrame, start
  <1>6. a[1] = [hi |-> 112, lo |-> 127]
    <2>0. {255, 65, 128} \subseteq uint16_t
      BY Widths
    <2>1. Xor(255, 65) = 190
      BY <2>0, XorSum DEF Unlike4, Unlike
    <2>2. Xor(255, 128) = 127
      BY <2>0, XorSum DEF Unlike4, Unlike
    <2>3. aucCRCHi[190 + 1] = 128 /\ aucCRCLo[190 + 1] = 112
      BY DEF aucCRCHi, aucCRCLo
    <2>4. a[1] = Lookup(a[0], 65)
      <3>1. 1 \in 1 .. 8 /\ 1 - 1 = 0
        OBVIOUS
      <3> QED BY <1>3, <3>1, FrameIs
    <2> QED BY <1>5, <2>1, <2>2, <2>3, <2>4 DEF Lookup
  <1>7. a[2] = [hi |-> 224, lo |-> 49]
    <2>0. {127, 0, 112, 65} \subseteq uint16_t
      BY Widths
    <2>1. Xor(127, 0) = 127
      BY <2>0, XorSum DEF Unlike4, Unlike
    <2>2. Xor(112, 65) = 49
      BY <2>0, XorSum DEF Unlike4, Unlike
    <2>3. aucCRCHi[127 + 1] = 65 /\ aucCRCLo[127 + 1] = 224
      BY DEF aucCRCHi, aucCRCLo
    <2>4. a[2] = Lookup(a[1], 0)
      <3>1. 2 \in 1 .. 8 /\ 2 - 1 = 1
        OBVIOUS
      <3> QED BY <1>3, <3>1, FrameIs
    <2> QED BY <1>6, <2>1, <2>2, <2>3, <2>4 DEF Lookup
  <1>8. a[3] = [hi |-> 229, lo |-> 161]
    <2>0. {49, 66, 224, 65} \subseteq uint16_t
      BY Widths
    <2>1. Xor(49, 66) = 115
      BY <2>0, XorSum DEF Unlike4, Unlike
    <2>2. Xor(224, 65) = 161
      BY <2>0, XorSum DEF Unlike4, Unlike
    <2>3. aucCRCHi[115 + 1] = 65 /\ aucCRCLo[115 + 1] = 229
      BY DEF aucCRCHi, aucCRCLo
    <2>4. a[3] = Lookup(a[2], 66)
      <3>1. 3 \in 1 .. 8 /\ 3 - 1 = 2
        OBVIOUS
      <3> QED BY <1>3, <3>1, FrameIs
    <2> QED BY <1>7, <2>1, <2>2, <2>3, <2>4 DEF Lookup
  <1>9. a[4] = [hi |-> 184, lo |-> 36]
    <2>0. {161, 0, 229, 193} \subseteq uint16_t
      BY Widths
    <2>1. Xor(161, 0) = 161
      BY <2>0, XorSum DEF Unlike4, Unlike
    <2>2. Xor(229, 193) = 36
      BY <2>0, XorSum DEF Unlike4, Unlike
    <2>3. aucCRCHi[161 + 1] = 193 /\ aucCRCLo[161 + 1] = 184
      BY DEF aucCRCHi, aucCRCLo
    <2>4. a[4] = Lookup(a[3], 0)
      <3>1. 4 \in 1 .. 8 /\ 4 - 1 = 3
        OBVIOUS
      <3> QED BY <1>3, <3>1, FrameIs
    <2> QED BY <1>8, <2>1, <2>2, <2>3, <2>4 DEF Lookup
  <1>10. a[5] = [hi |-> 234, lo |-> 249]
    <2>0. {36, 67, 184, 65} \subseteq uint16_t
      BY Widths
    <2>1. Xor(36, 67) = 103
      BY <2>0, XorSum DEF Unlike4, Unlike
    <2>2. Xor(184, 65) = 249
      BY <2>0, XorSum DEF Unlike4, Unlike
    <2>3. aucCRCHi[103 + 1] = 65 /\ aucCRCLo[103 + 1] = 234
      BY DEF aucCRCHi, aucCRCLo
    <2>4. a[5] = Lookup(a[4], 67)
      <3>1. 5 \in 1 .. 8 /\ 5 - 1 = 4
        OBVIOUS
      <3> QED BY <1>3, <3>1, FrameIs
    <2> QED BY <1>9, <2>1, <2>2, <2>3, <2>4 DEF Lookup
  <1>11. a[6] = [hi |-> 66, lo |-> 42]
    <2>0. {249, 0, 234, 192} \subseteq uint16_t
      BY Widths
    <2>1. Xor(249, 0) = 249
      BY <2>0, XorSum DEF Unlike4, Unlike
    <2>2. Xor(234, 192) = 42
      BY <2>0, XorSum DEF Unlike4, Unlike
    <2>3. aucCRCHi[249 + 1] = 192 /\ aucCRCLo[249 + 1] = 66
      BY DEF aucCRCHi, aucCRCLo
    <2>4. a[6] = Lookup(a[5], 0)
      <3>1. 6 \in 1 .. 8 /\ 6 - 1 = 5
        OBVIOUS
      <3> QED BY <1>3, <3>1, FrameIs
    <2> QED BY <1>10, <2>1, <2>2, <2>3, <2>4 DEF Lookup
  <1>12. a[7] = [hi |-> 216, lo |-> 67]
    <2>0. {42, 10, 66, 1} \subseteq uint16_t
      BY Widths
    <2>1. Xor(42, 10) = 32
      BY <2>0, XorSum DEF Unlike4, Unlike
    <2>2. Xor(66, 1) = 67
      BY <2>0, XorSum DEF Unlike4, Unlike
    <2>3. aucCRCHi[32 + 1] = 1 /\ aucCRCLo[32 + 1] = 216
      BY DEF aucCRCHi, aucCRCLo
    <2>4. a[7] = Lookup(a[6], 10)
      <3>1. 7 \in 1 .. 8 /\ 7 - 1 = 6
        OBVIOUS
      <3> QED BY <1>3, <3>1, FrameIs
    <2> QED BY <1>11, <2>1, <2>2, <2>3, <2>4 DEF Lookup
  <1>13. a[8] = [hi |-> 241, lo |-> 153]
    <2>0. {67, 0, 216, 65} \subseteq uint16_t
      BY Widths
    <2>1. Xor(67, 0) = 67
      BY <2>0, XorSum DEF Unlike4, Unlike
    <2>2. Xor(216, 65) = 153
      BY <2>0, XorSum DEF Unlike4, Unlike
    <2>3. aucCRCHi[67 + 1] = 65 /\ aucCRCLo[67 + 1] = 241
      BY DEF aucCRCHi, aucCRCLo
    <2>4. a[8] = Lookup(a[7], 0)
      <3>1. 8 \in 1 .. 8 /\ 8 - 1 = 7
        OBVIOUS
      <3> QED BY <1>3, <3>1, FrameIs
    <2> QED BY <1>12, <2>1, <2>2, <2>3, <2>4 DEF Lookup
  <1> QED BY <1>4, <1>13

(* And bit by bit.                                                         *)
LEMMA FrameBits == iot_calc_crc16(frame) = 19160
  <1> DEFINE S == [byte \in uint8_t |-> [r \in uint16_t |->
                      Byte1021(Xor(r, 256 * byte))]]
  <1>1. S \in [uint8_t -> [uint16_t -> uint16_t]] /\ 0 \in uint16_t
    BY CcittType
  <1>2. PICK a \in [0 .. 8 -> uint16_t] : OverFrame(a, S, 0)
    <2> HIDE DEF S
    <2> QED BY <1>1, FrameRun
  <1>3. ASSUME NEW k \in 1 .. 8
        PROVE  a[k] = Byte1021(Xor(a[k - 1], 256 * frame[k]))
    <2>1. frame[k] \in uint8_t /\ a[k - 1] \in uint16_t
      BY FrameIs
    <2> QED BY <1>2, <2>1 DEF OverFrame
  <1>4. iot_calc_crc16(frame) = a[8]
    BY <1>2 DEF OverFrame, iot_calc_crc16
  <1>5. a[0] = 0
    BY <1>2 DEF OverFrame
  <1>6. a[1] = 22757
    <2>0. {0, 16640} \subseteq uint16_t
      BY Widths
    <2>1. Xor(0, 16640) = 16640
      BY <2>0, XorSum DEF Unlike4, Unlike
    <2>2. /\ Shift1021(16640) = 33280
          /\ Shift1021(33280) = 5153
          /\ Shift1021(5153) = 10306
          /\ Shift1021(10306) = 20612
      BY Shift1021Is
    <2>3. /\ Shift1021(20612) = 41224
          /\ Shift1021(41224) = 21041
          /\ Shift1021(21041) = 42082
          /\ Shift1021(42082) = 22757
      BY Shift1021Is
    <2>4. a[1] = Byte1021(Xor(a[0], 256 * 65))
      <3>1. 1 \in 1 .. 8 /\ 1 - 1 = 0
        OBVIOUS
      <3> QED BY <1>3, <3>1, FrameIs
    <2> QED BY <1>5, <2>1, <2>2, <2>3, <2>4 DEF Byte1021
  <1>7. a[2] = 16125
    <2>0. {22757, 0} \subseteq uint16_t
      BY Widths
    <2>1. Xor(22757, 0) = 22757
      BY <2>0, XorSum DEF Unlike4, Unlike
    <2>2. /\ Shift1021(22757) = 45514
          /\ Shift1021(45514) = 29621
          /\ Shift1021(29621) = 59242
          /\ Shift1021(59242) = 57077
      BY Shift1021Is
    <2>3. /\ Shift1021(57077) = 44491
          /\ Shift1021(44491) = 19383
          /\ Shift1021(19383) = 38766
          /\ Shift1021(38766) = 16125
      BY Shift1021Is
    <2>4. a[2] = Byte1021(Xor(a[1], 256 * 0))
      <3>1. 2 \in 1 .. 8 /\ 2 - 1 = 1
        OBVIOUS
      <3> QED BY <1>3, <3>1, FrameIs
    <2> QED BY <1>6, <2>1, <2>2, <2>3, <2>4 DEF Byte1021
  <1>8. a[3] = 16923
    <2>0. {16125, 16896} \subseteq uint16_t
      BY Widths
    <2>1. Xor(16125, 16896) = 31997
      BY <2>0, XorSum DEF Unlike4, Unlike
    <2>2. /\ Shift1021(31997) = 63994
          /\ Shift1021(63994) = 58325
          /\ Shift1021(58325) = 55179
          /\ Shift1021(55179) = 48951
      BY Shift1021Is
    <2>3. /\ Shift1021(48951) = 28239
          /\ Shift1021(28239) = 56478
          /\ Shift1021(56478) = 43293
          /\ Shift1021(43293) = 16923
      BY Shift1021Is
    <2>4. a[3] = Byte1021(Xor(a[2], 256 * 66))
      <3>1. 3 \in 1 .. 8 /\ 3 - 1 = 2
        OBVIOUS
      <3> QED BY <1>3, <3>1, FrameIs
    <2> QED BY <1>7, <2>1, <2>2, <2>3, <2>4 DEF Byte1021
  <1>9. a[4] = 29574
    <2>0. {16923, 0} \subseteq uint16_t
      BY Widths
    <2>1. Xor(16923, 0) = 16923
      BY <2>0, XorSum DEF Unlike4, Unlike
    <2>2. /\ Shift1021(16923) = 33846
          /\ Shift1021(33846) = 6221
          /\ Shift1021(6221) = 12442
          /\ Shift1021(12442) = 24884
      BY Shift1021Is
    <2>3. /\ Shift1021(24884) = 49768
          /\ Shift1021(49768) = 38129
          /\ Shift1021(38129) = 14787
          /\ Shift1021(14787) = 29574
      BY Shift1021Is
    <2>4. a[4] = Byte1021(Xor(a[3], 256 * 0))
      <3>1. 4 \in 1 .. 8 /\ 4 - 1 = 3
        OBVIOUS
      <3> QED BY <1>3, <3>1, FrameIs
    <2> QED BY <1>8, <2>1, <2>2, <2>3, <2>4 DEF Byte1021
  <1>10. a[5] = 45139
    <2>0. {29574, 17152} \subseteq uint16_t
      BY Widths
    <2>1. Xor(29574, 17152) = 12422
      BY <2>0, XorSum DEF Unlike4, Unlike
    <2>2. /\ Shift1021(12422) = 24844
          /\ Shift1021(24844) = 49688
          /\ Shift1021(49688) = 37905
          /\ Shift1021(37905) = 14339
      BY Shift1021Is
    <2>3. /\ Shift1021(14339) = 28678
          /\ Shift1021(28678) = 57356
          /\ Shift1021(57356) = 53305
          /\ Shift1021(53305) = 45139
      BY Shift1021Is
    <2>4. a[5] = Byte1021(Xor(a[4], 256 * 67))
      <3>1. 5 \in 1 .. 8 /\ 5 - 1 = 4
        OBVIOUS
      <3> QED BY <1>3, <3>1, FrameIs
    <2> QED BY <1>9, <2>1, <2>2, <2>3, <2>4 DEF Byte1021
  <1>11. a[6] = 62683
    <2>0. {45139, 0} \subseteq uint16_t
      BY Widths
    <2>1. Xor(45139, 0) = 45139
      BY <2>0, XorSum DEF Unlike4, Unlike
    <2>2. /\ Shift1021(45139) = 28807
          /\ Shift1021(28807) = 57614
          /\ Shift1021(57614) = 53821
          /\ Shift1021(53821) = 46171
      BY Shift1021Is
    <2>3. /\ Shift1021(46171) = 30871
          /\ Shift1021(30871) = 61742
          /\ Shift1021(61742) = 62077
          /\ Shift1021(62077) = 62683
      BY Shift1021Is
    <2>4. a[6] = Byte1021(Xor(a[5], 256 * 0))
      <3>1. 6 \in 1 .. 8 /\ 6 - 1 = 5
        OBVIOUS
      <3> QED BY <1>3, <3>1, FrameIs
    <2> QED BY <1>10, <2>1, <2>2, <2>3, <2>4 DEF Byte1021
  <1>12. a[7] = 54737
    <2>0. {62683, 2560} \subseteq uint16_t
      BY Widths
    <2>1. Xor(62683, 2560) = 65243
      BY <2>0, XorSum DEF Unlike4, Unlike
    <2>2. /\ Shift1021(65243) = 60823
          /\ Shift1021(60823) = 51983
          /\ Shift1021(51983) = 34367
          /\ Shift1021(34367) = 7263
      BY Shift1021Is
    <2>3. /\ Shift1021(7263) = 14526
          /\ Shift1021(14526) = 29052
          /\ Shift1021(29052) = 58104
          /\ Shift1021(58104) = 54737
      BY Shift1021Is
    <2>4. a[7] = Byte1021(Xor(a[6], 256 * 10))
      <3>1. 7 \in 1 .. 8 /\ 7 - 1 = 6
        OBVIOUS
      <3> QED BY <1>3, <3>1, FrameIs
    <2> QED BY <1>11, <2>1, <2>2, <2>3, <2>4 DEF Byte1021
  <1>13. a[8] = 19160
    <2>0. {54737, 0} \subseteq uint16_t
      BY Widths
    <2>1. Xor(54737, 0) = 54737
      BY <2>0, XorSum DEF Unlike4, Unlike
    <2>2. /\ Shift1021(54737) = 48003
          /\ Shift1021(48003) = 26407
          /\ Shift1021(26407) = 52814
          /\ Shift1021(52814) = 36029
      BY Shift1021Is
    <2>3. /\ Shift1021(36029) = 2395
          /\ Shift1021(2395) = 4790
          /\ Shift1021(4790) = 9580
          /\ Shift1021(9580) = 19160
      BY Shift1021Is
    <2>4. a[8] = Byte1021(Xor(a[7], 256 * 0))
      <3>1. 8 \in 1 .. 8 /\ 8 - 1 = 7
        OBVIOUS
      <3> QED BY <1>3, <3>1, FrameIs
    <2> QED BY <1>12, <2>1, <2>2, <2>3, <2>4 DEF Byte1021
  <1> QED BY <1>4, <1>13

-----------------------------------------------------------------------------
(* The Internet checksum.                                                  *)

(* The groups are words, as many as there are pairs of bytes.              *)
LEMMA GroupsType ==
    ASSUME NEW d \in Seq(uint8_t)
    PROVE  /\ Groups(d) \in Seq(uint16_t)
           /\ Len(Groups(d)) = Len(d) \div 2
           /\ \A k \in 1 .. Len(d) \div 2 :
                 Groups(d)[k] = 256 * d[2 * k - 1] + d[2 * k]
  <1> DEFINE m == Len(d) \div 2
  <1>1. m \in Nat /\ 2 * m <= Len(d)
    OBVIOUS
  <1> HIDE DEF m
  <1>2. ASSUME NEW k \in 1 .. m
        PROVE  256 * d[2 * k - 1] + d[2 * k] \in uint16_t
    <2>1. 2 * k - 1 \in 1 .. Len(d) /\ 2 * k \in 1 .. Len(d)
      BY <1>1
    <2>2. d[2 * k - 1] \in uint8_t /\ d[2 * k] \in uint8_t
      BY <2>1
    <2> QED BY <2>2, ByteIsWord
  <1>3. [k \in 1 .. m |-> 256 * d[2 * k - 1] + d[2 * k]] \in Seq(uint16_t)
    BY <1>1, <1>2
  <1>4. Len([k \in 1 .. m |-> 256 * d[2 * k - 1] + d[2 * k]]) = m
    BY <1>1
  <1> QED BY <1>3, <1>4 DEF Groups, m

(* Add is a step of a loop over words.                                     *)
LEMMA AddType == Add \in [uint16_t -> [Nat -> Nat]] /\ 0 \in Nat
  BY Widths DEF Add

(* Two bytes more are a group more.                                        *)
Lengthens(d, e, m) ==
    /\ d \in Seq(uint8_t) /\ e \in Seq(uint8_t) /\ m \in Nat
    /\ Len(d) \div 2 = m /\ Len(e) \div 2 = m + 1
    /\ \A k \in 1 .. 2 * m : e[k] = d[k]

(* The sum then grows by this group.                                       *)
LEMMA PairAdds ==
    ASSUME NEW d, NEW e, NEW m, Lengthens(d, e, m)
    PROVE  /\ Loop(Add, 0, Groups(d)) \in Nat
           /\ Loop(Add, 0, Groups(e)) =
                 Loop(Add, 0, Groups(d)) + 256 * e[2 * m + 1] + e[2 * m + 2]
  <1> DEFINE g == Groups(d)
             h == Groups(e)
  <1>0. /\ d \in Seq(uint8_t) /\ e \in Seq(uint8_t) /\ m \in Nat
        /\ Len(d) \div 2 = m /\ Len(e) \div 2 = m + 1
        /\ \A k \in 1 .. 2 * m : e[k] = d[k]
    BY DEF Lengthens
  <1>1. /\ g \in Seq(uint16_t) /\ Len(g) = m
        /\ \A k \in 1 .. m : g[k] = 256 * d[2 * k - 1] + d[2 * k]
    BY <1>0, GroupsType
  <1>2. /\ h \in Seq(uint16_t) /\ Len(h) = m + 1
        /\ \A k \in 1 .. m + 1 : h[k] = 256 * e[2 * k - 1] + e[2 * k]
    BY <1>0, GroupsType
  <1> HIDE DEF g, h
  <1>3. ASSUME NEW k \in 1 .. m PROVE g[k] = h[k]
    <2>1. 2 * k - 1 \in 1 .. 2 * m /\ 2 * k \in 1 .. 2 * m /\ k \in 1 .. m + 1
      BY <1>0
    <2>2. e[2 * k - 1] = d[2 * k - 1] /\ e[2 * k] = d[2 * k]
      BY <1>0, <2>1
    <2> QED BY <1>0, <1>1, <1>2, <2>1, <2>2
  <1>4. PICK a \in [0 .. Len(h) -> Nat] : Computes(a, Add, 0, uint16_t, h)
    BY <1>0, <1>2, AddType, LoopIsRun
  <1>5. ASSUME NEW t \in Seq(uint16_t), Len(t) <= m + 1,
               \A k \in 1 .. Len(t) : t[k] = h[k]
        PROVE  Loop(Add, 0, t) = a[Len(t)]
    BY <1>0, <1>2, <1>4, <1>5 DEF Computes
  <1>6. Loop(Add, 0, h) = a[m + 1] /\ Loop(Add, 0, g) = a[m]
    <2>1. /\ Len(h) <= m + 1 /\ Len(g) <= m + 1
          /\ \A k \in 1 .. Len(g) : g[k] = h[k]
      BY <1>0, <1>1, <1>2, <1>3
    <2>2. Loop(Add, 0, h) = a[Len(h)]
      BY <1>0, <1>2, <1>5, <2>1
    <2>3. Loop(Add, 0, g) = a[Len(g)]
      BY <1>0, <1>1, <1>5, <2>1
    <2> QED BY <1>0, <1>1, <1>2, <2>2, <2>3
  <1>7. a[m + 1] = Add[h[m + 1]][a[m]]
    <2>1. Run(a, Add, 0, h, m + 1)
      BY <1>0, <1>2, <1>4 DEF Computes
    <2>2. m + 1 \in 0 .. m + 1 /\ m + 1 # 0 /\ (m + 1) - 1 = m
      BY <1>0
    <2> QED BY <1>0, <2>1, <2>2 DEF Run
  <1>8. h[m + 1] \in uint16_t /\ a[m] \in Nat
    BY <1>0, <1>2, <1>4
  <1>9. a[m + 1] = a[m] + h[m + 1]
    BY <1>0, <1>7, <1>8 DEF Add
  <1>10. h[m + 1] = 256 * e[2 * m + 1] + e[2 * m + 2]
    <2>1. m + 1 \in 1 .. m + 1 /\ 2 * (m + 1) - 1 = 2 * m + 1
          /\ 2 * (m + 1) = 2 * m + 2
      BY <1>0
    <2> QED BY <1>0, <1>2, <2>1
  <1>11. e[2 * m + 1] \in Nat /\ e[2 * m + 2] \in Nat
    <2>1. 2 * m + 1 \in 1 .. Len(e) /\ 2 * m + 2 \in 1 .. Len(e)
      BY <1>0
    <2> QED BY <1>0, <2>1, Widths
  <1> QED BY <1>0, <1>5, <1>6, <1>8, <1>9, <1>10, <1>11 DEF g, h

(* The sum fits 32 bits, as the length fits 16.                            *)
LEMMA SumBound ==
    ASSUME NEW d \in Seq(uint8_t)
    PROVE  /\ GroupSum(d) \in Nat
           /\ Len(d) < 65536 => GroupSum(d) < 65536 * 65536
           /\ GroupSum(d) = Loop(Add, 0, Groups(d))
                              + IF Len(d) % 2 = 1 THEN d[Len(d)] ELSE 0
  <1> DEFINE g == Groups(d)
             m == Len(d) \div 2
             odd == IF Len(d) % 2 = 1 THEN d[Len(d)] ELSE 0
  <1>1. g \in Seq(uint16_t) /\ Len(g) = m /\ m \in Nat
    BY GroupsType
  <1>2. odd \in Nat /\ odd < 256
    <2>1. CASE Len(d) % 2 = 1
      <3>1. Len(d) \in 1 .. Len(d)
        BY <2>1
      <3>2. d[Len(d)] \in uint8_t
        BY <3>1
      <3> QED BY <2>1, <3>2, Widths
    <2>2. CASE Len(d) % 2 # 1
      BY <2>2
    <2> QED BY <2>1, <2>2
  <1>3. Len(d) < 65536 => m < 32768
    OBVIOUS
  <1> HIDE DEF g, m, odd
  <1>4. PICK a \in [0 .. Len(g) -> Nat] : Computes(a, Add, 0, uint16_t, g)
    BY <1>1, AddType, LoopIsRun
  <1>5. Loop(Add, 0, g) = a[m]
    BY <1>1, <1>4 DEF Computes
  <1>6. a[0] = 0 /\ \A k \in 1 .. m : a[k] = Add[g[k]][a[k - 1]]
    BY <1>1, <1>4 DEF Computes, Run
  <1> DEFINE Z == {n \in Nat : n <= m => a[n] <= 65535 * n}
  <1>7. 0 \in Z
    BY <1>6
  <1>8. ASSUME NEW n \in Nat, n \in Z PROVE n + 1 \in Z
    <2> SUFFICES ASSUME n + 1 <= m PROVE a[n + 1] <= 65535 * (n + 1)
      OBVIOUS
    <2>1. n + 1 \in 1 .. m /\ n \in 0 .. m /\ n <= m
      BY <1>1
    <2>2. g[n + 1] \in uint16_t /\ a[n] \in Nat /\ a[n] <= 65535 * n
      BY <1>1, <1>4, <1>8, <2>1
    <2>3. a[n + 1] = Add[g[n + 1]][a[n]]
      BY <1>6, <2>1
    <2>4. a[n + 1] = a[n] + g[n + 1]
      BY <2>2, <2>3 DEF Add
    <2>5. g[n + 1] \in Nat /\ g[n + 1] < 65536
      BY <2>2, Widths
    <2> QED BY <2>2, <2>4, <2>5
  <1> HIDE DEF Z
  <1>9. m \in Z
    BY <1>1, <1>7, <1>8, SetInduction
  <1>10. a[m] <= 65535 * m /\ a[m] \in Nat
    BY <1>1, <1>4, <1>9 DEF Z
  <1>11. GroupSum(d) = a[m] + odd
    BY <1>5 DEF GroupSum, g, odd
  <1>12. a[m] + odd \in Nat /\ (Len(d) < 65536 => a[m] + odd < 65536 * 65536)
    BY <1>1, <1>2, <1>3, <1>10
  <1> QED BY <1>11, <1>12 DEF GroupSum

(* e is two sequences of bytes put together.                              *)
Joins(e, d, t) ==
    /\ e \in Seq(uint8_t) /\ Len(e) = Len(d) + Len(t)
    /\ \A k \in 1 .. Len(d) : e[k] = d[k]
    /\ \A k \in 1 .. Len(t) : e[Len(d) + k] = t[k]

(* The operator \o puts them together.                                     *)
LEMMA Joined ==
    ASSUME NEW d \in Seq(uint8_t), NEW t \in Seq(uint8_t)
    PROVE  Joins(d \o t, d, t)
  <1> DEFINE e == d \o t
             n == Len(d)
             j == Len(t)
  <1>1. n \in Nat /\ j \in Nat
    OBVIOUS
  <1>2. /\ e \in Seq(uint8_t) /\ Len(e) = n + j
        /\ \A i \in 1 .. n + j : e[i] = IF i <= n THEN d[i] ELSE t[i - n]
    BY ConcatProperties
  <1> HIDE DEF e, n, j
  <1>3. ASSUME NEW k \in 1 .. n PROVE e[k] = d[k]
    <2>1. k \in 1 .. n + j /\ k <= n
      BY <1>1
    <2> QED BY <1>2, <2>1
  <1>4. ASSUME NEW k \in 1 .. j PROVE e[n + k] = t[k]
    <2>1. n + k \in 1 .. n + j /\ ~(n + k <= n) /\ (n + k) - n = k
      BY <1>1
    <2> QED BY <1>2, <2>1
  <1>5. Joins(e, d, t)
    BY <1>1, <1>2, <1>3, <1>4 DEF Joins, n, j
  <1> QED BY <1>5 DEF e

(* An even number of bytes, and e, which is d with t behind it, whose      *)
(* groups sum to v.                                                        *)
Even(d) == d \in Seq(uint8_t) /\ Len(d) % 2 = 0

Appended(e, d, t, v) ==
    /\ Joins(e, d, t) /\ Even(d) /\ Even(e)
    /\ GroupSum(e) = GroupSum(d) + v
    /\ GroupSum(d) \in Nat /\ v \in Nat /\ v <= 131070

(* Two bytes add the group that they are.                                  *)
LEMMA TwoMore ==
    ASSUME NEW d, Even(d), NEW p \in uint8_t, NEW q \in uint8_t
    PROVE  Appended(d \o <<p, q>>, d, <<p, q>>, 256 * p + q)
  <1> DEFINE t == <<p, q>>
             e == d \o t
             n == Len(d)
             m == n \div 2
  <1>0. d \in Seq(uint8_t) /\ n \in Nat /\ n % 2 = 0
    BY DEF Even
  <1>1. t \in Seq(uint8_t) /\ Len(t) = 2 /\ t[1] = p /\ t[2] = q
    OBVIOUS
  <1> HIDE DEF t
  <1>2. Joins(e, d, t)
    BY <1>0, <1>1, Joined
  <1> HIDE DEF e
  <1>3. /\ e \in Seq(uint8_t) /\ Len(e) = n + 2
        /\ \A k \in 1 .. n : e[k] = d[k]
        /\ e[n + 1] = p /\ e[n + 2] = q
    BY <1>0, <1>1, <1>2 DEF Joins
  <1>4. m \in Nat /\ 2 * m = n /\ (n + 2) % 2 = 0 /\ (n + 2) \div 2 = m + 1
        /\ n \div 2 = m
    BY <1>0
  <1> HIDE DEF m
  <1>5. Lengthens(d, e, m)
    BY <1>0, <1>3, <1>4 DEF Lengthens
  <1>6. /\ Loop(Add, 0, Groups(d)) \in Nat
        /\ Loop(Add, 0, Groups(e)) =
              Loop(Add, 0, Groups(d)) + 256 * e[2 * m + 1] + e[2 * m + 2]
    BY <1>5, PairAdds
  <1>7. e[2 * m + 1] = p /\ e[2 * m + 2] = q
    BY <1>3, <1>4
  <1>8. p \in Nat /\ q \in Nat /\ p < 256 /\ q < 256
    BY Widths
  <1>9. /\ GroupSum(d) = Loop(Add, 0, Groups(d)) + 0
        /\ GroupSum(e) = Loop(Add, 0, Groups(e)) + 0
    BY <1>0, <1>3, <1>4 DEF GroupSum
  <1>10. GroupSum(e) = GroupSum(d) + (256 * p + q) /\ GroupSum(d) \in Nat
    BY <1>6, <1>7, <1>8, <1>9
  <1>11. Even(d) /\ Even(e)
    BY <1>0, <1>3, <1>4 DEF Even
  <1>12. 256 * p + q \in Nat /\ 256 * p + q <= 131070
    BY <1>8
  <1>13. Appended(e, d, t, 256 * p + q)
    BY <1>2, <1>10, <1>11, <1>12 DEF Appended
  <1> QED BY <1>13 DEF e, t

(* Four bytes: an address.                                                 *)
Pairs(a) == 256 * a[1] + a[2] + 256 * a[3] + a[4]
Four(a) == a \in Seq(uint8_t) /\ Len(a) = 4

(* Four bytes add two groups.                                              *)
LEMMA FourMore ==
    ASSUME NEW d, Even(d), NEW a, Four(a)
    PROVE  Appended(d \o a, d, a, Pairs(a))
  <1> DEFINE n == Len(d)
             p == a[1]
             q == a[2]
             r == a[3]
             s == a[4]
  <1>0. /\ d \in Seq(uint8_t) /\ n \in Nat /\ n % 2 = 0
        /\ a \in Seq(uint8_t) /\ Len(a) = 4
    BY DEF Even, Four
  <1>1. p \in uint8_t /\ q \in uint8_t /\ r \in uint8_t /\ s \in uint8_t
    BY <1>0
  <1> HIDE DEF p, q, r, s
  <1>2. /\ p \in Nat /\ p < 256 /\ q \in Nat /\ q < 256
        /\ r \in Nat /\ r < 256 /\ s \in Nat /\ s < 256
    BY <1>1, Widths
  <1>3. Pairs(a) = 256 * p + q + 256 * r + s
    BY DEF Pairs, p, q, r, s
  <1> DEFINE t == <<p, q>>
             b == d \o t
             e == d \o a
             j == (n \div 2) + 1
  <1>4. Appended(b, d, t, 256 * p + q)
    BY <1>1, TwoMore
  <1>5. Joins(e, d, a)
    BY <1>0, Joined
  <1>6. Len(t) = 2 /\ t[1] = p /\ t[2] = q
    OBVIOUS
  <1> HIDE DEF t, b, e
  <1>7. /\ b \in Seq(uint8_t) /\ Len(b) = n + 2
        /\ \A k \in 1 .. n : b[k] = d[k]
        /\ b[n + 1] = p /\ b[n + 2] = q
        /\ GroupSum(b) = GroupSum(d) + (256 * p + q) /\ GroupSum(d) \in Nat
    BY <1>0, <1>4, <1>6 DEF Appended, Joins
  <1>8. /\ e \in Seq(uint8_t) /\ Len(e) = n + 4
        /\ \A k \in 1 .. n : e[k] = d[k]
        /\ e[n + 1] = p /\ e[n + 2] = q /\ e[n + 3] = r /\ e[n + 4] = s
    BY <1>0, <1>5 DEF Joins, p, q, r, s
  <1>9. /\ j \in Nat /\ 2 * j = n + 2 /\ (n + 2) \div 2 = j
        /\ (n + 4) \div 2 = j + 1 /\ (n + 4) % 2 = 0 /\ (n + 2) % 2 = 0
        /\ 2 * j + 1 = n + 3 /\ 2 * j + 2 = n + 4
    BY <1>0
  <1> HIDE DEF n, j
  <1>10. ASSUME NEW k \in 1 .. n + 2 PROVE e[k] = b[k]
    <2>1. k \in 1 .. n \/ k = n + 1 \/ k = n + 2
      BY <1>0
    <2> QED BY <1>7, <1>8, <2>1
  <1>11. Lengthens(b, e, j)
    BY <1>7, <1>8, <1>9, <1>10 DEF Lengthens
  <1>12. /\ Loop(Add, 0, Groups(b)) \in Nat
         /\ Loop(Add, 0, Groups(e)) = Loop(Add, 0, Groups(b)) + 256 * r + s
    <2>1. /\ Loop(Add, 0, Groups(b)) \in Nat
          /\ Loop(Add, 0, Groups(e)) =
                Loop(Add, 0, Groups(b)) + 256 * e[2 * j + 1] + e[2 * j + 2]
      BY <1>11, PairAdds
    <2>2. e[2 * j + 1] = r /\ e[2 * j + 2] = s
      BY <1>8, <1>9
    <2> QED BY <2>1, <2>2
  <1>13. /\ GroupSum(b) = Loop(Add, 0, Groups(b)) + 0
         /\ GroupSum(e) = Loop(Add, 0, Groups(e)) + 0
    BY <1>7, <1>8, <1>9 DEF GroupSum
  <1>14. GroupSum(e) = GroupSum(d) + (256 * p + q + 256 * r + s)
    BY <1>2, <1>7, <1>12, <1>13
  <1>15. Even(d) /\ Even(e)
    BY <1>0, <1>8, <1>9 DEF Even
  <1>16. Pairs(a) \in Nat /\ Pairs(a) <= 131070
    BY <1>2, <1>3
  <1>17. Appended(e, d, a, Pairs(a))
    BY <1>3, <1>5, <1>7, <1>14, <1>15, <1>16 DEF Appended
  <1> QED BY <1>17 DEF e

(* No bytes have no sum.                                                   *)
LEMMA EmptySum == Even(<<>>) /\ GroupSum(<<>>) = 0
  <1> DEFINE d == <<>>
  <1>1. d \in Seq(uint8_t) /\ Len(d) = 0 /\ 0 \div 2 = 0 /\ 0 % 2 = 0
    OBVIOUS
  <1>2. /\ Groups(d) \in Seq(uint16_t) /\ Len(Groups(d)) = Len(d) \div 2
    BY <1>1, GroupsType
  <1> HIDE DEF d
  <1> DEFINE g == Groups(d)
  <1>3. g \in Seq(uint16_t) /\ Len(g) = 0
    BY <1>1, <1>2
  <1> HIDE DEF g
  <1>4. Loop(Add, 0, g) = 0
    <2>1. PICK r \in [0 .. Len(g) -> Nat] : Computes(r, Add, 0, uint16_t, g)
      BY <1>3, AddType, LoopIsRun
    <2>2. r[0] = 0
      BY <1>3, <2>1 DEF Computes, Run
    <2>3. Loop(Add, 0, g) = r[Len(g)]
      <3>1. Len(g) <= Len(g) /\ \A k \in 1 .. Len(g) : g[k] = g[k]
        BY <1>3
      <3> QED BY <1>3, <2>1, <3>1 DEF Computes
    <2> QED BY <1>3, <2>2, <2>3
  <1>5. Even(d)
    BY <1>1 DEF Even
  <1>6. GroupSum(d) = 0
    BY <1>1, <1>4 DEF GroupSum, g
  <1> QED BY <1>5, <1>6 DEF d

(* Two bytes more, whatever they are.                                      *)
LEMMA PairMore ==
    ASSUME NEW d, Even(d), NEW e, Even(e), Len(e) = Len(d) + 2,
           \A k \in 1 .. Len(d) : e[k] = d[k]
    PROVE  /\ GroupSum(d) \in Nat /\ GroupSum(e) \in Nat
           /\ GroupSum(e) =
                 GroupSum(d) + 256 * e[Len(d) + 1] + e[Len(d) + 2]
  <1> DEFINE n == Len(d)
             m == n \div 2
  <1>1. /\ d \in Seq(uint8_t) /\ e \in Seq(uint8_t) /\ n \in Nat
        /\ n % 2 = 0 /\ Len(e) = n + 2 /\ \A k \in 1 .. n : e[k] = d[k]
    BY DEF Even
  <1>2. n = Len(d)
    OBVIOUS
  <1> HIDE DEF n
  <1>3. /\ m \in Nat /\ 2 * m = n /\ (n + 2) \div 2 = m + 1
        /\ (n + 2) % 2 = 0
    BY <1>1
  <1>4. n \div 2 = m
    OBVIOUS
  <1> HIDE DEF m
  <1>5. Lengthens(d, e, m)
    BY <1>1, <1>2, <1>3, <1>4 DEF Lengthens
  <1>6. /\ Loop(Add, 0, Groups(d)) \in Nat
        /\ Loop(Add, 0, Groups(e)) =
              Loop(Add, 0, Groups(d)) + 256 * e[n + 1] + e[n + 2]
    BY <1>3, <1>5, PairAdds
  <1>7. GroupSum(d) = Loop(Add, 0, Groups(d)) + 0
    BY <1>1, <1>2 DEF GroupSum
  <1>8. GroupSum(e) = Loop(Add, 0, Groups(e)) + 0
    BY <1>1, <1>3 DEF GroupSum
  <1>9. e[n + 1] \in Nat /\ e[n + 2] \in Nat
    <2>1. n + 1 \in 1 .. Len(e) /\ n + 2 \in 1 .. Len(e)
      BY <1>1
    <2> QED BY <1>1, <2>1, Widths
  <1> QED BY <1>2, <1>6, <1>7, <1>8, <1>9

(* The groups of a sequence of even length add their sum.                  *)
LEMMA EvenMore ==
    ASSUME NEW d, Even(d), NEW t, Even(t)
    PROVE  /\ Even(d \o t) /\ Len(d \o t) = Len(d) + Len(t)
           /\ GroupSum(d \o t) = GroupSum(d) + GroupSum(t)
  <1> DEFINE n == Len(d)
             j == Len(t)
             m == j \div 2
             P(k) == SubSeq(t, 1, 2 * k)
             E(k) == d \o P(k)
             Z == {k \in Nat : k <= m =>
                       GroupSum(E(k)) = GroupSum(d) + GroupSum(P(k))}
  <1>1. /\ d \in Seq(uint8_t) /\ n \in Nat /\ n % 2 = 0 /\ n = Len(d)
        /\ t \in Seq(uint8_t) /\ j \in Nat /\ j % 2 = 0 /\ j = Len(t)
    BY DEF Even
  <1> HIDE DEF n, j
  <1>2. m \in Nat /\ 2 * m = j
    BY <1>1
  <1> HIDE DEF m
  <1>3. ASSUME NEW k \in Nat, k <= m
        PROVE  /\ P(k) \in Seq(uint8_t) /\ Len(P(k)) = 2 * k
               /\ \A i \in 1 .. 2 * k : P(k)[i] = t[i]
    <2>1. 2 * k \in Nat /\ 2 * k <= j
      BY <1>2, <1>3
    <2> DEFINE l == 2 * k
    <2> HIDE DEF l
    <2>2. /\ SubSeq(t, 1, l) \in Seq(uint8_t) /\ Len(SubSeq(t, 1, l)) = l
          /\ \A i \in 1 .. l : SubSeq(t, 1, l)[i] = t[i]
      BY <1>1, <2>1 DEF l
    <2> QED BY <2>2 DEF l
  <1> HIDE DEF P
  <1>4. ASSUME NEW k \in Nat, k <= m
        PROVE  Joins(E(k), d, P(k))
    BY <1>1, <1>3, <1>4, Joined
  <1> HIDE DEF E
  <1>5. ASSUME NEW k \in Nat, k <= m
        PROVE  /\ Even(P(k)) /\ Even(E(k)) /\ Len(E(k)) = n + 2 * k
               /\ \A i \in 1 .. n : E(k)[i] = d[i]
               /\ \A i \in 1 .. 2 * k : E(k)[n + i] = t[i]
    <2>1. /\ P(k) \in Seq(uint8_t) /\ Len(P(k)) = 2 * k
          /\ \A i \in 1 .. 2 * k : P(k)[i] = t[i]
      BY <1>3, <1>5
    <2>2. Joins(E(k), d, P(k))
      BY <1>4, <1>5
    <2>3. /\ E(k) \in Seq(uint8_t) /\ Len(E(k)) = n + 2 * k
          /\ \A i \in 1 .. n : E(k)[i] = d[i]
          /\ \A i \in 1 .. 2 * k : E(k)[n + i] = P(k)[i]
      BY <1>1, <2>1, <2>2 DEF Joins
    <2>4. (2 * k) % 2 = 0 /\ (n + 2 * k) % 2 = 0
      BY <1>1
    <2> QED BY <2>1, <2>3, <2>4 DEF Even
  <1>6. 0 \in Z
    <2>1. 0 <= m /\ Len(P(0)) = 0 /\ P(0) \in Seq(uint8_t)
      BY <1>2, <1>3
    <2>2. P(0) = <<>>
      BY <2>1
    <2>3. E(0) = d
      BY <1>1, <2>2, ConcatEmptySeq DEF E
    <2>4. GroupSum(<<>>) = 0
      BY EmptySum
    <2>5. GroupSum(d) \in Nat
      BY <1>1, SumBound
    <2> QED BY <2>2, <2>3, <2>4, <2>5
  <1>7. ASSUME NEW k \in Nat, k \in Z PROVE k + 1 \in Z
    <2> SUFFICES ASSUME k + 1 <= m
                 PROVE  GroupSum(E(k + 1)) = GroupSum(d) + GroupSum(P(k + 1))
      OBVIOUS
    <2> DEFINE x == P(k)
               y == P(k + 1)
               u == E(k)
               v == E(k + 1)
    <2>1. k <= m /\ k + 1 \in Nat /\ 2 * (k + 1) = 2 * k + 2
      BY <1>2
    <2>2. /\ Even(x) /\ Len(x) = 2 * k /\ \A i \in 1 .. 2 * k : x[i] = t[i]
          /\ Even(u) /\ Len(u) = n + 2 * k
          /\ \A i \in 1 .. n : u[i] = d[i]
          /\ \A i \in 1 .. 2 * k : u[n + i] = t[i]
      BY <1>3, <1>5, <2>1
    <2>3. /\ Even(y) /\ Len(y) = 2 * k + 2
          /\ \A i \in 1 .. 2 * k + 2 : y[i] = t[i]
          /\ Even(v) /\ Len(v) = n + 2 * k + 2
          /\ \A i \in 1 .. n : v[i] = d[i]
          /\ \A i \in 1 .. 2 * k + 2 : v[n + i] = t[i]
      BY <1>1, <1>3, <1>5, <2>1
    <2>4. GroupSum(u) = GroupSum(d) + GroupSum(x)
      BY <1>7, <2>1
    <2> HIDE DEF x, y, u, v
    <2>5. \A i \in 1 .. 2 * k : y[i] = x[i]
      BY <2>2, <2>3
    <2>6. ASSUME NEW i \in 1 .. n + 2 * k PROVE v[i] = u[i]
      <3>1. CASE i <= n
        BY <1>1, <2>2, <2>3, <3>1
      <3>2. CASE ~(i <= n)
        <4>1. i - n \in 1 .. 2 * k /\ i - n \in 1 .. 2 * k + 2
              /\ n + (i - n) = i
          BY <1>1, <3>2
        <4>2. u[n + (i - n)] = t[i - n] /\ v[n + (i - n)] = t[i - n]
          BY <2>2, <2>3, <4>1
        <4> QED BY <4>1, <4>2
      <3> QED BY <3>1, <3>2
    <2>7. /\ GroupSum(x) \in Nat
          /\ GroupSum(y) =
                GroupSum(x) + 256 * y[2 * k + 1] + y[2 * k + 2]
      <3>1. Len(y) = Len(x) + 2 /\ \A i \in 1 .. Len(x) : y[i] = x[i]
        BY <2>2, <2>3, <2>5
      <3>2. /\ GroupSum(x) \in Nat
            /\ GroupSum(y) =
                  GroupSum(x) + 256 * y[Len(x) + 1] + y[Len(x) + 2]
        BY <2>2, <2>3, <3>1, PairMore
      <3> QED BY <2>2, <3>2
    <2>8. /\ GroupSum(u) \in Nat
          /\ GroupSum(v) = GroupSum(u) + 256 * v[n + 2 * k + 1]
                                       + v[n + 2 * k + 2]
      <3>1. /\ Len(v) = Len(u) + 2
            /\ \A i \in 1 .. Len(u) : v[i] = u[i]
        BY <1>1, <2>2, <2>3, <2>6
      <3>2. /\ GroupSum(u) \in Nat
            /\ GroupSum(v) =
                  GroupSum(u) + 256 * v[Len(u) + 1] + v[Len(u) + 2]
        BY <2>2, <2>3, <3>1, PairMore
      <3> QED BY <2>2, <3>2
    <2>9. v[n + 2 * k + 1] = y[2 * k + 1] /\ v[n + 2 * k + 2] = y[2 * k + 2]
      <3>1. /\ 2 * k + 1 \in 1 .. 2 * k + 2 /\ 2 * k + 2 \in 1 .. 2 * k + 2
            /\ n + (2 * k + 1) = n + 2 * k + 1
            /\ n + (2 * k + 2) = n + 2 * k + 2
        BY <1>1
      <3>2. v[n + (2 * k + 1)] = t[2 * k + 1]
            /\ v[n + (2 * k + 2)] = t[2 * k + 2]
            /\ y[2 * k + 1] = t[2 * k + 1] /\ y[2 * k + 2] = t[2 * k + 2]
        BY <2>3, <3>1
      <3> QED BY <3>1, <3>2
    <2>10. y[2 * k + 1] \in Nat /\ y[2 * k + 2] \in Nat
      <3>1. y \in Seq(uint8_t) /\ 2 * k + 1 \in 1 .. Len(y)
            /\ 2 * k + 2 \in 1 .. Len(y)
        BY <2>3 DEF Even
      <3> QED BY <3>1, Widths
    <2>11. GroupSum(d) \in Nat
      BY <1>1, SumBound
    <2>12. GroupSum(v) = GroupSum(d) + GroupSum(y)
      BY <2>4, <2>7, <2>8, <2>9, <2>10, <2>11
    <2> QED BY <2>12 DEF v, y
  <1> HIDE DEF Z
  <1>8. m \in Z
    BY <1>2, <1>6, <1>7, SetInduction
  <1>9. GroupSum(E(m)) = GroupSum(d) + GroupSum(P(m))
    BY <1>2, <1>8 DEF Z
  <1>10. P(m) = t
    BY <1>1, <1>2 DEF P
  <1>11. Even(E(m)) /\ Len(E(m)) = n + j
    BY <1>2, <1>5
  <1> QED BY <1>1, <1>9, <1>10, <1>11 DEF E

(* The checksum completes the sum to a non-zero multiple of 65535.         *)
LEMMA Completes ==
    ASSUME NEW d \in Seq(uint8_t), GroupSum(d) < 65536 * 65536
    PROVE  /\ ipv4_checksum(d) \in Nat /\ ipv4_checksum(d) < 65536
           /\ ipv4_checksum(d) \in uint16_t
           /\ \E q \in Nat : GroupSum(d) + ipv4_checksum(d) = 65535 * (q + 1)
  <1> DEFINE s == GroupSum(d)
             q == s \div 65536
             r == s % 65536
             s1 == q + r
             s2 == s1 + (s1 \div 65536)
             c == 65535 - (s2 % 65536)
  <1>1. s \in Nat /\ s < 65536 * 65536
    BY SumBound
  <1> HIDE DEF s
  <1>2. /\ q \in Nat /\ r \in Nat /\ r < 65536 /\ s = 65536 * q + r
        /\ q < 65536
    BY <1>1
  <1> HIDE DEF q, r
  <1>3. c \in Nat /\ c < 65536 /\ \E p \in Nat : s + c = 65535 * (p + 1)
    <2>1. CASE s1 < 65536
      <3>1. s1 \div 65536 = 0
        BY <1>2, <2>1
      <3>2. s2 = s1 /\ s2 % 65536 = s1
        BY <1>2, <2>1, <3>1
      <3>3. s + c = 65535 * (q + 1)
        BY <1>2, <3>2
      <3>4. c \in Nat /\ c < 65536
        BY <1>2, <2>1, <3>2
      <3> HIDE DEF c
      <3> QED BY <1>2, <3>3, <3>4
    <2>2. CASE s1 >= 65536
      <3>1. s1 \div 65536 = 1 /\ s1 <= 131070
        BY <1>2, <2>2
      <3>2. s2 = s1 + 1 /\ s2 % 65536 = s1 - 65535
        BY <1>2, <2>2, <3>1
      <3>3. s + c = 65535 * ((q + 1) + 1)
        BY <1>2, <3>2
      <3>4. q + 1 \in Nat
        BY <1>2
      <3>5. c \in Nat /\ c < 65536
        BY <1>2, <2>2, <3>1, <3>2
      <3> QED BY <3>3, <3>4, <3>5
    <2> QED BY <1>2, <2>1, <2>2
  <1>4. ipv4_checksum(d) = c
    BY DEF ipv4_checksum, s, q, r
  <1> HIDE DEF c
  <1> QED BY <1>3, <1>4, Widths DEF s

(* A non-zero multiple of 65535 verifies, and nothing else.                *)
LEMMA Multiples ==
    /\ \A q \in Nat : 65535 * (q + 1) > 0 /\ (65535 * (q + 1)) % 65535 = 0
    /\ \A n \in Nat : n > 0 /\ n % 65535 = 0 => n = 65535 * (n \div 65535)
  <1>1. ASSUME NEW q \in Nat
        PROVE  65535 * (q + 1) > 0 /\ (65535 * (q + 1)) % 65535 = 0
    <2>1. 65535 * (q + 1) + 0 = 65535 * (q + 1) /\ q + 1 \in Nat
      OBVIOUS
    <2>2. (65535 * (q + 1) + 0) % 65535 = 0
      BY <2>1, Quotient
    <2> QED BY <2>1, <2>2
  <1>2. ASSUME NEW n \in Nat, n % 65535 = 0 PROVE n = 65535 * (n \div 65535)
    BY <1>2
  <1> QED BY <1>1, <1>2

(* The two bytes of a word.                                                *)
LEMMA HiLo ==
    ASSUME NEW v \in uint16_t
    PROVE  /\ Hi(v) \in uint8_t /\ Lo(v) \in uint8_t
           /\ Hi(v) \in Nat /\ Lo(v) \in Nat /\ Hi(v) < 256 /\ Lo(v) < 256
           /\ v = 256 * Hi(v) + Lo(v)
           /\ htons(v) \in uint16_t /\ htons(v) = 256 * Lo(v) + Hi(v)
           /\ Hi(htons(v)) = Lo(v) /\ Lo(htons(v)) = Hi(v)
           /\ htons(htons(v)) = v
  <1>1. v \in Nat /\ v < 65536
    BY Widths
  <1> DEFINE h == v \div 256
             l == v % 256
  <1>2. h \in Nat /\ l \in Nat /\ h < 256 /\ l < 256 /\ v = 256 * h + l
    BY <1>1
  <1>3. Hi(v) = h /\ Lo(v) = l
    BY DEF Hi, Lo
  <1> HIDE DEF h, l
  <1>4. htons(v) = 256 * l + h
    BY <1>3 DEF htons
  <1>5. (256 * l + h) \div 256 = l /\ (256 * l + h) % 256 = h
    BY <1>2, Quotient
  <1>6. Hi(htons(v)) = l /\ Lo(htons(v)) = h
    BY <1>4, <1>5 DEF Hi, Lo
  <1>7. htons(htons(v)) = 256 * h + l
    BY <1>6 DEF htons
  <1>8. htons(v) \in uint16_t
    BY <1>2, <1>4, Widths
  <1>9. h \in uint8_t /\ l \in uint8_t
    BY <1>2, Widths
  <1> QED BY <1>2, <1>3, <1>4, <1>6, <1>7, <1>8, <1>9

(* The sum of two bytes that stand alone.                                  *)
LEMMA TwoAlone ==
    ASSUME NEW p \in uint8_t, NEW q \in uint8_t
    PROVE  /\ Even(<<p, q>>) /\ GroupSum(<<p, q>>) = 256 * p + q
           /\ Len(<<p, q>>) = 2
  <1> DEFINE d == <<>>
             t == <<p, q>>
  <1>1. t \in Seq(uint8_t) /\ Len(t) = 2
    OBVIOUS
  <1>2. d \o t = t
    BY <1>1, ConcatEmptySeq
  <1>3. Even(d) /\ GroupSum(d) = 0
    BY EmptySum
  <1> HIDE DEF d
  <1>4. Appended(d \o t, d, t, 256 * p + q)
    BY <1>3, TwoMore
  <1> HIDE DEF t
  <1>5. Even(t) /\ GroupSum(t) = 256 * p + q
    BY <1>2, <1>3, <1>4 DEF Appended
  <1> QED BY <1>1, <1>5 DEF t

(* A field of a header.                                                    *)
LEMMA FieldMore ==
    ASSUME NEW d, Even(d), NEW w \in uint16_t
    PROVE  Appended(d \o Stored(w), d, Stored(w), htons(w))
  <1>1. Hi(w) \in uint8_t /\ Lo(w) \in uint8_t
        /\ htons(w) = 256 * Lo(w) + Hi(w)
    BY HiLo
  <1>2. Appended(d \o <<Lo(w), Hi(w)>>, d, <<Lo(w), Hi(w)>>,
                 256 * Lo(w) + Hi(w))
    BY <1>1, TwoMore
  <1> QED BY <1>1, <1>2 DEF Stored

(* What that says.                                                         *)
LEMMA Grows ==
    ASSUME NEW e, NEW d, NEW t, NEW v, Appended(e, d, t, v)
    PROVE  /\ Even(e) /\ Len(e) = Len(d) + Len(t)
           /\ GroupSum(e) = GroupSum(d) + v
           /\ v \in Nat /\ v <= 131070
  BY DEF Appended, Joins

(* The arguments of Header.                                                *)
Fields(len, id, protocol, src, dst) ==
    /\ len \in Nat /\ id \in uint16_t /\ protocol \in uint8_t
    /\ Four(src) /\ Four(dst)

(* The sum of its other groups, whatever the checksum is.                  *)
Others(len, id, protocol, src, dst) ==
    17664 + ((20 + len) % 65536) + id + 16384 + (16384 + protocol)
       + Pairs(src) + Pairs(dst)

Sums(h, K, sum) ==
    /\ h \in Seq(uint8_t) /\ GroupSum(h) = K + htons(sum)
    /\ K \in Nat /\ K < 600000
    /\ h[11] = Lo(sum) /\ h[12] = Hi(sum)

(* A header sums to its other groups and the checksum as it lies there.    *)
LEMMA HeaderSum ==
    ASSUME NEW len, NEW id, NEW protocol, NEW src, NEW dst,
           Fields(len, id, protocol, src, dst), NEW sum \in uint16_t
    PROVE  Sums(Header(len, id, protocol, sum, src, dst),
                Others(len, id, protocol, src, dst), sum)
  <1> DEFINE x == (20 + len) % 65536
             w1 == htons(x)
             w2 == htons(id)
             w3 == htons(16384)
             h1 == <<69, 0>>
             h2 == h1 \o Stored(w1)
             h3 == h2 \o Stored(w2)
             h4 == h3 \o Stored(w3)
             h5 == h4 \o <<64, protocol>>
             h6 == h5 \o Stored(sum)
             h7 == h6 \o src
             h8 == h7 \o dst
  <1>0. /\ len \in Nat /\ id \in uint16_t /\ protocol \in uint8_t
        /\ Four(src) /\ Four(dst)
    BY DEF Fields
  <1>1. Header(len, id, protocol, sum, src, dst) = h8
    BY DEF Header
  <1>2. x \in uint16_t /\ 16384 \in uint16_t
        /\ 69 \in uint8_t /\ 0 \in uint8_t /\ 64 \in uint8_t
    <2>1. x \in Nat /\ x < 65536
      BY <1>0
    <2> QED BY <2>1, Widths
  <1>3. /\ w1 \in uint16_t /\ htons(w1) = x
        /\ w2 \in uint16_t /\ htons(w2) = id
        /\ w3 \in uint16_t /\ htons(w3) = 16384
    BY <1>0, <1>2, HiLo
  <1> DEFINE a == Pairs(src)
             b == Pairs(dst)
             v == htons(sum)
             c == 256 * 64 + protocol
  <1>11. Even(h1) /\ GroupSum(h1) = 256 * 69 + 0 /\ Len(h1) = 2
    BY <1>2, TwoAlone
  <1> HIDE DEF h1, x, w1, w2, w3, a, b, v
  <1>12. Appended(h2, h1, Stored(w1), x)
    BY <1>3, <1>11, FieldMore
  <1>13. Appended(h3, h2, Stored(w2), id)
    <2>1. Even(h2)
      BY <1>12, Grows
    <2> HIDE DEF h2
    <2> QED BY <1>3, <2>1, FieldMore
  <1>14. Appended(h4, h3, Stored(w3), 16384)
    <2>1. Even(h3)
      BY <1>13, Grows
    <2> HIDE DEF h3
    <2> QED BY <1>3, <2>1, FieldMore
  <1>15. Appended(h5, h4, <<64, protocol>>, c)
    <2>1. Even(h4)
      BY <1>14, Grows
    <2> HIDE DEF h4
    <2> QED BY <1>0, <1>2, <2>1, TwoMore
  <1> HIDE DEF c
  <1>16. Appended(h6, h5, Stored(sum), v)
    <2>1. Even(h5)
      BY <1>15, Grows
    <2> HIDE DEF h5
    <2> QED BY <2>1, FieldMore DEF v
  <1>17. Appended(h7, h6, src, a)
    <2>1. Even(h6)
      BY <1>16, Grows
    <2> HIDE DEF h6
    <2> QED BY <1>0, <2>1, FourMore DEF a
  <1>18. Appended(h8, h7, dst, b)
    <2>1. Even(h7)
      BY <1>17, Grows
    <2> HIDE DEF h7
    <2> QED BY <1>0, <2>1, FourMore DEF b
  <1> HIDE DEF h2, h3, h4, h5, h6, h7, h8
  <1> DEFINE n8 == GroupSum(h8)
             K == 17664 + x + id + 16384 + (16384 + protocol) + a + b
  <1>19. Others(len, id, protocol, src, dst) = K
    BY DEF Others, x, a, b
  <1>20. n8 = 256 * 69 + 0 + x + id + 16384 + c + v + a + b
    BY <1>11, <1>12, <1>13, <1>14, <1>15, <1>16, <1>17, <1>18 DEF Appended
  <1>21. /\ x \in Nat /\ x <= 131070 /\ id \in Nat /\ id <= 131070
         /\ protocol \in Nat /\ protocol < 256 /\ v \in Nat
         /\ a \in Nat /\ a <= 131070 /\ b \in Nat /\ b <= 131070
    <2>1. protocol \in Nat /\ protocol < 256
      BY <1>0, Widths
    <2> QED BY <1>12, <1>13, <1>16, <1>17, <1>18, <2>1 DEF Appended
  <1> HIDE DEF n8
  <1>22. n8 = K + v /\ K \in Nat /\ K < 600000
    <2>1. c = 16384 + protocol
      BY <1>21 DEF c
    <2> QED BY <1>20, <1>21, <2>1
  <1> HIDE DEF K
  <1> DEFINE t == <<Lo(sum), Hi(sum)>>
  <1>23. t[1] = Lo(sum) /\ t[2] = Hi(sum) /\ Len(t) = 2 /\ Stored(sum) = t
    BY DEF Stored
  <1>24. /\ Len(Stored(w1)) = 2 /\ Len(Stored(w2)) = 2
         /\ Len(Stored(w3)) = 2 /\ Len(Stored(sum)) = 2
    BY DEF Stored
  <1> HIDE DEF t
  <1>25. Len(h5) = 10 /\ Len(h6) = 12 /\ Len(h7) = 16
    <2>1. Len(h2) = 4
      BY <1>11, <1>12, <1>24 DEF Appended, Joins
    <2>2. Len(h3) = 6
      BY <2>1, <1>13, <1>24 DEF Appended, Joins
    <2>3. Len(h4) = 8
      BY <2>2, <1>14, <1>24 DEF Appended, Joins
    <2>4. Len(h5) = 10
      BY <2>3, <1>15 DEF Appended, Joins
    <2>5. Len(h6) = 12
      BY <2>4, <1>16, <1>24 DEF Appended, Joins
    <2>6. Len(h7) = 16
      BY <2>5, <1>0, <1>17 DEF Appended, Joins, Four
    <2> QED BY <2>4, <2>5, <2>6
  <1>26. h6[11] = Lo(sum) /\ h6[12] = Hi(sum)
    <2>1. Joins(h6, h5, t)
      BY <1>16, <1>23 DEF Appended
    <2>2. \A k \in 1 .. 2 : h6[10 + k] = t[k]
      BY <1>23, <1>25, <2>1 DEF Joins
    <2> QED BY <1>23, <2>2
  <1>27. h8[11] = h6[11] /\ h8[12] = h6[12]
    BY <1>17, <1>18, <1>25 DEF Appended, Joins
  <1>28. h8 \in Seq(uint8_t)
    BY <1>18 DEF Appended, Even
  <1> QED BY <1>1, <1>19, <1>22, <1>26, <1>27, <1>28 DEF n8, v, Sums

(* The header of send_ipv4.c verifies; that of pack_ipv4_hdr if and only   *)
(* if the bytes of its checksum are equal.                                 *)
THEOREM HeadersVerify ==
    ASSUME NEW len, NEW id, NEW protocol, NEW src, NEW dst,
           Fields(len, id, protocol, src, dst)
    PROVE  LET zero == Header(len, id, protocol, 0, src, dst)
               sum == ipv4_checksum(zero)
               swapped == Header(len, id, protocol, htons(sum), src, dst)
               packed == Header(len, id, protocol, sum, src, dst)
           IN  /\ Verifies(swapped)
               /\ Verifies(packed) <=> packed[11] = packed[12]
  <1> DEFINE zero == Header(len, id, protocol, 0, src, dst)
             c == ipv4_checksum(zero)
             swapped == Header(len, id, protocol, htons(c), src, dst)
             packed == Header(len, id, protocol, c, src, dst)
             K == Others(len, id, protocol, src, dst)
  <1>1. 0 \in uint16_t /\ htons(0) = 0
    BY Widths DEF htons, Hi, Lo
  <1>2. zero \in Seq(uint8_t) /\ GroupSum(zero) = K /\ K \in Nat /\ K < 600000
    <2>1. Sums(zero, K, 0)
      BY <1>1, HeaderSum
    <2> HIDE DEF zero, K
    <2> QED BY <1>1, <2>1 DEF Sums
  <1>3. /\ c \in uint16_t /\ c \in Nat /\ c < 65536
        /\ \E q \in Nat : K + c = 65535 * (q + 1)
    <2>1. GroupSum(zero) < 65536 * 65536 /\ GroupSum(zero) = K
      BY <1>2
    <2> QED BY <1>2, <2>1, Completes
  <1> HIDE DEF c
  <1>4. htons(c) \in uint16_t /\ htons(htons(c)) = c
        /\ htons(c) = 256 * Lo(c) + Hi(c) /\ c = 256 * Hi(c) + Lo(c)
        /\ Hi(c) \in Nat /\ Lo(c) \in Nat /\ Hi(c) < 256 /\ Lo(c) < 256
    BY <1>3, HiLo
  <1>5. Sums(swapped, K, htons(c)) /\ Sums(packed, K, c)
    BY <1>3, <1>4, HeaderSum
  <1> HIDE DEF K, swapped, packed
  <1>6. /\ GroupSum(swapped) = K + c /\ GroupSum(packed) = K + htons(c)
        /\ packed[11] = Lo(c) /\ packed[12] = Hi(c)
    BY <1>4, <1>5 DEF Sums
  <1>7. PICK q \in Nat : K + c = 65535 * (q + 1)
    BY <1>3
  <1>8. Verifies(swapped)
    BY <1>6, <1>7, Multiples DEF Verifies
  <1> DEFINE h == Hi(c)
             l == Lo(c)
             s == K + htons(c)
             p == s \div 65535
  <1>9. s = 65535 * (q + 1) + 255 * (l - h) /\ s \in Nat /\ s > 0
    <2>1. /\ htons(c) = 256 * l + h /\ c = 256 * h + l
          /\ h \in Nat /\ l \in Nat /\ h < 256 /\ l < 256
      BY <1>4
    <2> DEFINE w == htons(c)
    <2> HIDE DEF h, l, w
    <2>2. K + w = 65535 * (q + 1) + 255 * (l - h)
      BY <1>2, <1>7, <2>1 DEF w
    <2>3. K + w \in Nat /\ K + w >= 65535 - 255 * 255
      BY <1>2, <1>3, <2>1, <2>2 DEF w
    <2> QED BY <2>2, <2>3 DEF w
  <1>10. ASSUME l = h PROVE Verifies(packed)
    <2>1. s = 65535 * (q + 1)
      BY <1>4, <1>9, <1>10
    <2> QED BY <1>6, <2>1, Multiples DEF Verifies
  <1>11. ASSUME Verifies(packed) PROVE l = h
    <2>1. s % 65535 = 0 /\ s = 65535 * p /\ p \in Nat
      BY <1>6, <1>9, <1>11, Multiples DEF Verifies
    <2>2. h \in Nat /\ l \in Nat /\ h < 256 /\ l < 256
      BY <1>4
    <2> HIDE DEF p, s, h, l
    <2>3. 65535 * p = 65535 * (q + 1) + 255 * (l - h)
      BY <1>9, <2>1
    <2>4. 257 * (p - (q + 1)) = l - h
      BY <2>1, <2>2, <2>3
    <2> QED BY <2>1, <2>2, <2>4
  <1>12. Verifies(packed) <=> packed[11] = packed[12]
    BY <1>6, <1>10, <1>11
  <1> QED BY <1>8, <1>12 DEF zero, c, swapped, packed

(* A request of ping verifies, whatever its identifier and number and its  *)
(* data of even length (MAGIC_LEN is 18).                                  *)
THEOREM RequestVerifies ==
    ASSUME NEW pid \in uint16_t, NEW seq \in uint16_t,
           NEW magic, Even(magic), Len(magic) < 65528
    PROVE  Verifies(ping_packet(pid, seq, magic))
  <1> DEFINE u == htons(pid)
             w == htons(seq)
             a == GroupSum(magic)
             h1 == <<8, 0>>
             h2(s) == h1 \o Stored(s)
             h3(s) == h2(s) \o Stored(u)
             h4(s) == h3(s) \o Stored(w)
             h5(s) == h4(s) \o magic
             K == 2048 + pid + seq + a
             c == icmp_checksum(h5(0))
  <1>1. ping_packet(pid, seq, magic) = h5(htons(c))
    BY DEF ping_packet
  <1>2. /\ u \in uint16_t /\ htons(u) = pid /\ w \in uint16_t /\ htons(w) = seq
        /\ pid \in Nat /\ pid < 65536 /\ seq \in Nat /\ seq < 65536
    BY HiLo, Widths
  <1>3. Even(h1) /\ GroupSum(h1) = 256 * 8 + 0 /\ Len(h1) = 2
    <2>1. 8 \in uint8_t /\ 0 \in uint8_t
      BY Widths
    <2> QED BY <2>1, TwoAlone
  <1> HIDE DEF u, w, a, h1
  <1>4. ASSUME NEW s \in uint16_t
        PROVE  /\ h5(s) \in Seq(uint8_t) /\ GroupSum(h5(s)) = K + htons(s)
               /\ Len(h5(s)) < 65536 /\ K \in Nat
    <2> DEFINE v == htons(s)
               g2 == h2(s)
               g3 == h3(s)
               g4 == h4(s)
               g5 == h5(s)
    <2>1. Appended(g2, h1, Stored(s), v)
      BY <1>3, FieldMore
    <2> HIDE DEF v
    <2>2. Appended(g3, g2, Stored(u), pid)
      <3>1. Even(g2)
        BY <2>1, Grows
      <3> HIDE DEF h2
      <3> QED BY <1>2, <3>1, FieldMore
    <2>3. Appended(g4, g3, Stored(w), seq)
      <3>1. Even(g3)
        BY <2>2, Grows
      <3> HIDE DEF h3
      <3> QED BY <1>2, <3>1, FieldMore
    <2>4. /\ Even(g5) /\ Len(g5) = Len(g4) + Len(magic)
          /\ GroupSum(g5) = GroupSum(g4) + a
      <3>1. Even(g4)
        BY <2>3, Grows
      <3> HIDE DEF h4
      <3> QED BY <3>1, EvenMore DEF a
    <2>5. Len(g2) = 4 /\ Len(g3) = 6 /\ Len(g4) = 8
      <3>1. Len(h1) = 2 /\ Len(Stored(s)) = 2 /\ Len(Stored(u)) = 2
            /\ Len(Stored(w)) = 2
        BY <1>3 DEF Stored
      <3> HIDE DEF g2, g3, g4
      <3>2. Len(g2) = 4
        BY <2>1, <3>1 DEF Appended, Joins
      <3>3. Len(g3) = 6
        BY <2>2, <3>1, <3>2 DEF Appended, Joins
      <3>4. Len(g4) = 8
        BY <2>3, <3>1, <3>3 DEF Appended, Joins
      <3> QED BY <3>2, <3>3, <3>4
    <2> HIDE DEF g2, g3, g4, g5
    <2>6. a \in Nat /\ Len(magic) \in Nat
      BY SumBound DEF a, Even
    <2>7. GroupSum(g5) = 2048 + v + pid + seq + a /\ v \in Nat
      BY <1>3, <2>1, <2>2, <2>3, <2>4 DEF Appended
    <2>8. GroupSum(g5) = K + v /\ K \in Nat
      BY <1>2, <2>6, <2>7
    <2>9. g5 \in Seq(uint8_t) /\ Len(g5) < 65536
      BY <2>4, <2>5, <2>6 DEF Even
    <2> QED BY <2>8, <2>9 DEF g5, v
  <1>5. 0 \in uint16_t /\ htons(0) = 0
    BY Widths DEF htons, Hi, Lo
  <1> HIDE DEF h5, K
  <1>6. /\ h5(0) \in Seq(uint8_t) /\ GroupSum(h5(0)) = K
        /\ Len(h5(0)) < 65536 /\ K \in Nat
    BY <1>4, <1>5
  <1>7. c = ipv4_checksum(h5(0))
    BY DEF icmp_checksum
  <1>8. c \in uint16_t /\ \E q \in Nat : K + c = 65535 * (q + 1)
    <2> DEFINE z == h5(0)
    <2>1. z \in Seq(uint8_t) /\ GroupSum(z) = K /\ GroupSum(z) < 65536 * 65536
      BY <1>6, SumBound
    <2>2. c = ipv4_checksum(z)
      BY <1>7
    <2> HIDE DEF z, c
    <2> QED BY <2>1, <2>2, Completes
  <1> HIDE DEF c
  <1>9. htons(c) \in uint16_t /\ htons(htons(c)) = c
    BY <1>8, HiLo
  <1>10. GroupSum(h5(htons(c))) = K + c
    BY <1>4, <1>9
  <1> QED BY <1>1, <1>8, <1>10, Multiples DEF Verifies, c

(* Data of odd length with a zero before its last byte has the same sum.   *)
LEMMA EvenSum ==
    ASSUME NEW d \in Seq(uint8_t), Len(d) % 2 = 1
    PROVE  LET n == Len(d)
               even == SubSeq(d, 1, n - 1) \o <<0, d[n]>>
           IN  Even(even) /\ GroupSum(even) = GroupSum(d)
  <1> DEFINE n == Len(d)
             f == SubSeq(d, 1, n - 1)
             t == <<0, d[n]>>
             e == f \o t
             m == n \div 2
  <1>1. n \in Nat /\ n >= 1 /\ m \in Nat /\ 2 * m + 1 = n
    OBVIOUS
  <1>0. n = Len(d) /\ n % 2 = 1
    OBVIOUS
  <1>2. /\ f \in Seq(uint8_t) /\ Len(f) = n - 1
        /\ \A k \in 1 .. n - 1 : f[k] = d[k]
    BY <1>1
  <1>3. d[n] \in uint8_t /\ 0 \in uint8_t /\ d[n] \in Nat
    BY <1>1, Widths
  <1>4. t \in Seq(uint8_t) /\ Len(t) = 2 /\ t[1] = 0 /\ t[2] = d[n]
    BY <1>3
  <1> HIDE DEF f, t, m, n
  <1>5. Joins(e, f, t)
    BY <1>2, <1>4, Joined
  <1> HIDE DEF e
  <1>6. /\ e \in Seq(uint8_t) /\ Len(e) = n + 1
        /\ \A k \in 1 .. n - 1 : e[k] = d[k]
        /\ e[n] = 0 /\ e[n + 1] = d[n]
    <2>1. /\ e \in Seq(uint8_t) /\ Len(e) = n + 1
          /\ \A k \in 1 .. n - 1 : e[k] = d[k]
      BY <1>1, <1>2, <1>4, <1>5 DEF Joins
    <2>2. \A k \in 1 .. 2 : e[(n - 1) + k] = t[k]
      BY <1>2, <1>4, <1>5 DEF Joins
    <2>3. (n - 1) + 1 = n /\ (n - 1) + 2 = n + 1
      BY <1>1
    <2>4. e[(n - 1) + 1] = t[1] /\ e[(n - 1) + 2] = t[2]
      BY <2>2
    <2> QED BY <1>4, <2>1, <2>3, <2>4
  <1>7. n \div 2 = m /\ (n + 1) \div 2 = m + 1 /\ n - 1 = 2 * m
        /\ 2 * m + 2 = n + 1 /\ (n + 1) % 2 = 0
    BY <1>1
  <1>8. Lengthens(d, e, m)
    BY <1>0, <1>1, <1>6, <1>7 DEF Lengthens
  <1>9. /\ Loop(Add, 0, Groups(d)) \in Nat
        /\ Loop(Add, 0, Groups(e)) = Loop(Add, 0, Groups(d)) + 256 * 0 + d[n]
    BY <1>1, <1>6, <1>7, <1>8, PairAdds
  <1>10. GroupSum(d) = Loop(Add, 0, Groups(d)) + d[n]
    BY <1>0 DEF GroupSum
  <1>11. GroupSum(e) = Loop(Add, 0, Groups(e)) + 0
    BY <1>6, <1>7 DEF GroupSum
  <1>12. GroupSum(e) = GroupSum(d)
    BY <1>3, <1>9, <1>10, <1>11
  <1>13. Even(e)
    BY <1>6, <1>7 DEF Even
  <1> QED BY <1>12, <1>13 DEF e, f, t, n

(* Data is as long as a uint16_t length can say.                           *)
DataType == data \in Seq(uint8_t) /\ Len(data) < 65536

(* The data of a run is such data.                                         *)
LEMMA DataTypes == SumSpec => []DataType
  <1> USE SumAssumption DEF DataType
  <1>1. SumInit => DataType
    <2> SUFFICES ASSUME SumInit PROVE DataType
      OBVIOUS
    <2>1. CASE \E b \in uint8_t : data = <<b>>
      BY <2>1
    <2>2. CASE data = <<>>
      BY <2>2
    <2>3. CASE data = frame
      BY <2>3, FrameIs
    <2> QED BY <2>1, <2>2, <2>3 DEF SumInit
  <1>2. DataType /\ [SumNext]_data => DataType'
    <2> SUFFICES ASSUME DataType, [SumNext]_data PROVE DataType'
      OBVIOUS
    <2>1. CASE SumNext
      <3>1. PICK b \in Bytes : Extend(b)
        BY <2>1 DEF SumNext
      <3>2. b \in uint8_t /\ MaxLen \in Nat /\ MaxLen < 65536
        BY Widths
      <3>3. Len(data) < MaxLen /\ data' = Append(data, b)
        BY <3>1 DEF Extend
      <3> QED BY <3>2, <3>3
    <2>2. CASE UNCHANGED data
      BY <2>2
    <2> QED BY <2>1, <2>2
  <1> QED BY <1>1, <1>2, PTL DEF SumSpec

(* Data of every length and contents verifies with its ipv4_checksum behind*)
(* it, data of odd length as the code pads it.                             *)
THEOREM DataVerifies ==
    ASSUME DataType
    PROVE  LET sum == ipv4_checksum(data)
               n == Len(data)
               even == IF n % 2 = 0 THEN data
                       ELSE SubSeq(data, 1, n - 1) \o <<0, data[n]>>
           IN  Verifies(even \o <<Hi(sum), Lo(sum)>>)
  <1> DEFINE c == ipv4_checksum(data)
             n == Len(data)
             even == IF n % 2 = 0 THEN data
                     ELSE SubSeq(data, 1, n - 1) \o <<0, data[n]>>
  <1>1. Even(even) /\ GroupSum(even) = GroupSum(data)
    <2>1. n \in Nat
      BY DEF DataType
    <2>2. CASE n % 2 = 0
      BY <2>2 DEF DataType, Even
    <2>3. CASE n % 2 # 0
      <3>1. n % 2 = 1
        BY <2>1, <2>3
      <3>2. even = SubSeq(data, 1, n - 1) \o <<0, data[n]>>
        BY <2>3
      <3>3. data \in Seq(uint8_t)
        BY DEF DataType
      <3> QED BY <3>1, <3>2, <3>3, EvenSum
    <2> QED BY <2>2, <2>3
  <1>2. /\ c \in uint16_t
        /\ \E q \in Nat : GroupSum(data) + c = 65535 * (q + 1)
    BY SumBound, Completes DEF DataType
  <1> HIDE DEF c, even
  <1>3. Hi(c) \in uint8_t /\ Lo(c) \in uint8_t /\ 256 * Hi(c) + Lo(c) = c
    BY <1>2, HiLo
  <1>4. Appended(even \o <<Hi(c), Lo(c)>>, even, <<Hi(c), Lo(c)>>, c)
    BY <1>1, <1>3, TwoMore
  <1>5. GroupSum(even \o <<Hi(c), Lo(c)>>) = GroupSum(data) + c
    BY <1>1, <1>4 DEF Appended
  <1> QED BY <1>2, <1>5, Multiples DEF Verifies, c, even

(* The checksums verify as RFC 1071 says, for data of every uint16_t       *)
(* length: of the data itself, of the header of send_ipv4.c and of the     *)
(* requests of ping always, of the header of pack_ipv4_hdr (ipv4.c) only   *)
(* when the two bytes of its checksum are equal.                           *)
THEOREM ChecksumsVerified == SumSpec => []ChecksumsVerify
  <1>1. ASSUME DataType PROVE ChecksumsVerify
    <2> DEFINE n == Len(data)
               len == 256 * data[1] + data[2]
               pid == 256 * data[3] + data[4]
               back == <<data[4], data[3], data[2], data[1]>>
               packed == pack_ipv4_hdr(data, back, 40, len, pid)
    <2>1. ASSUME n = 4
          PROVE  /\ Verifies(config_ip4_hdr(len, data, back, pid))
                 /\ Verifies(ping_packet(pid, len, data))
                 /\ Verifies(packed) <=> packed[11] = packed[12]
      <3>1. /\ data[1] \in uint8_t /\ data[2] \in uint8_t
            /\ data[3] \in uint8_t /\ data[4] \in uint8_t
        <4>1. \A k \in 1 .. 4 : data[k] \in uint8_t
          BY <1>1, <2>1 DEF DataType
        <4> QED BY <4>1
      <3>2. len \in uint16_t /\ pid \in uint16_t
        BY <3>1, ByteIsWord
      <3>8. 40 \in uint8_t /\ len \in Nat
        BY <3>2, Widths
      <3>3. Four(data) /\ Four(back)
        BY <1>1, <2>1, <3>1 DEF DataType, Four
      <3> HIDE DEF len, pid, back
      <3>4. Fields(len, pid, 40, data, back)
        BY <3>2, <3>3, <3>8 DEF Fields
      <3>5. Verifies(config_ip4_hdr(len, data, back, pid))
        BY <3>4, HeadersVerify DEF config_ip4_hdr
      <3>6. Verifies(packed) <=> packed[11] = packed[12]
        BY <3>4, HeadersVerify DEF pack_ipv4_hdr
      <3>7. Verifies(ping_packet(pid, len, data))
        <4>1. Even(data) /\ Len(data) < 65528
          BY <3>3 DEF Four, Even
        <4> QED BY <3>2, <4>1, RequestVerifies
      <3> QED BY <3>5, <3>6, <3>7
    <2> QED BY <1>1, <2>1, DataVerifies DEF ChecksumsVerify
  <1> QED BY <1>1, DataTypes, PTL

(* crc16.cpp agrees with the bit-by-bit definitions: usMBCRC16 is          *)
(* CRC-16/MODBUS, data followed by its iot_calc_crc16 leaves no remainder, *)
(* and for the frame of main both have the values that its comments give.  *)
THEOREM CrcsAgree == SumSpec => []CrcAgrees
  <1>1. ASSUME DataType PROVE CrcAgrees
    <2>1. data \in Seq(uint8_t)
      BY <1>1 DEF DataType
    <2>2. usMBCRC16(data) = Modbus(data)
      BY <2>1, TablesAreModbus
    <2>3. LET crc == iot_calc_crc16(data)
          IN  iot_calc_crc16(data \o <<Hi(crc), Lo(crc)>>) = 0
      BY <2>1, RemainderZero
    <2>4. data = frame =>
            usMBCRC16(data) = 61849 /\ iot_calc_crc16(data) = 19160
      BY FrameTables, FrameBits
    <2> QED BY <2>2, <2>3, <2>4 DEF CrcAgrees
  <1> QED BY <1>1, DataTypes, PTL
=============================================================================
