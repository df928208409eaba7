----------------------------- MODULE Checksums -----------------------------
(***************************************************************************)
(* The checksums of the packets and of crc16.cpp, as operators on          *)
(* sequences of bytes, with the headers that carry them.  data is the      *)
(* argument; it grows byte by byte.                                        *)
(***************************************************************************)
EXTENDS Integers, Sequences

CONSTANTS
    Bytes,   \* values of a byte, chosen at the edges
    MaxLen   \* bound: bytes of data

uint8_t == 0 .. 2^8 - 1
uint16_t == 0 .. 2^16 - 1

(* Lengths are passed as uint16_t (USHORT): no sum of 16-bit groups is     *)
(* then as large as 2^32.                                                  *)
ASSUME SumAssumption == Bytes \subseteq uint8_t /\ MaxLen \in uint16_t

VARIABLE data

(* main's frame in crc16.cpp, "A\0B\0C\0\n\0".                            *)
frame == <<65, 0, 66, 0, 67, 0, 10, 0>>

(* The frame, one byte of any value, or a few of the values in Bytes.      *)
SumInit == data \in {<<b>> : b \in uint8_t} \cup {<<>>, frame}
Extend(b) ==
    /\ Len(data) < MaxLen /\ (data # <<>> => data[1] \in Bytes)
    /\ data' = Append(data, b)
SumNext == \E b \in Bytes : Extend(b)

SumSpec == SumInit /\ [][SumNext]_data

(* A loop over a sequence: step[e] is what element e does to the value.    *)
Loop(step, first, s) ==
    LET a[n \in 0 .. Len(s)] ==
            IF n = 0 THEN first ELSE step[s[n]][a[n - 1]]
    IN  a[Len(s)]

Hi(v) == v \div 256
Lo(v) == v % 256

-----------------------------------------------------------------------------
(* The sum of the 16-bit groups, high byte first; an odd byte is added as  *)
(* a low one.                                                              *)
Groups(d) == [k \in 1 .. Len(d) \div 2 |-> 256 * d[2 * k - 1] + d[2 * k]]
Add == [group \in uint16_t |-> [sum \in Nat |-> sum + group]]
GroupSum(d) ==
    Loop(Add, 0, Groups(d)) + IF Len(d) % 2 = 1 THEN d[Len(d)] ELSE 0

(* Mutant: the carry of the first carry is dropped.                        *)
ipv4_checksum_OneFold(d) ==
    LET s1 == (GroupSum(d) \div 65536) + (GroupSum(d) % 65536)
    IN  65535 - (s1 % 65536)

(* The carries are added twice, the complement is taken.                   *)
ipv4_checksum(d) ==
    LET s1 == (GroupSum(d) \div 65536) + (GroupSum(d) % 65536)
        s2 == s1 + (s1 \div 65536)
    IN  65535 - (s2 % 65536)

(* The same statements, for a size_t length.                               *)
icmp_checksum(d) == ipv4_checksum(d)

(* A uint16_t as it lies in memory, low byte first, and htons().           *)
Stored(v) == <<Lo(v), Hi(v)>>
htons(v) == 256 * Lo(v) + Hi(v)

(* The 20 bytes up to and behind the checksum: version and ihl, tos,       *)
(* tot_len, id, DF, ttl, protocol; the addresses are in network order.     *)
Header(len, id, protocol, sum, src, dst) ==
    <<69, 0>> \o Stored(htons((20 + len) % 65536)) \o Stored(htons(id))
       \o Stored(htons(16384)) \o <<64, protocol>> \o Stored(sum)
       \o src \o dst

pack_ipv4_hdr(src, dst, protocol, data_len, pid) ==
    LET sum == ipv4_checksum(Header(data_len, pid, protocol, 0, src, dst))
    IN  Header(data_len, pid, protocol, sum, src, dst)

config_ip4_hdr(data_len, src_ip, dst_ip, pid) ==
    LET sum == ipv4_checksum(Header(data_len, pid, 40, 0, src_ip, dst_ip))
    IN  Header(data_len, pid, 40, htons(sum), src_ip, dst_ip)

(* send_icmp_echo(): type 8, code 0, checksum, identifier, sequence, data. *)
ping_packet(pid, seq, magic) ==
    LET With(sum) == <<8, 0>> \o Stored(sum) \o Stored(htons(pid))
                        \o Stored(htons(seq)) \o magic
    IN  With(htons(icmp_checksum(With(0))))

-----------------------------------------------------------------------------
aucCRCHi ==
    <<0, 193, 129, 64, 1, 192, 128, 65, 1, 192, 128, 65, 0, 193, 129, 64, 1,
      192, 128, 65, 0, 193, 129, 64, 0, 193, 129, 64, 1, 192, 128, 65, 1, 192,
      128, 65, 0, 193, 129, 64, 0, 193, 129, 64, 1, 192, 128, 65, 0, 193, 129,
      64, 1, 192, 128, 65, 1, 192, 128, 65, 0, 193, 129, 64, 1, 192, 128, 65,
      0, 193, 129, 64, 0, 193, 129, 64, 1, 192, 128, 65, 0, 193, 129, 64, 1,
      192, 128, 65, 1, 192, 128, 65, 0, 193, 129, 64, 0, 193, 129, 64, 1, 192,
      128, 65, 1, 192, 128, 65, 0, 193, 129, 64, 1, 192, 128, 65, 0, 193, 129,
      64, 0, 193, 129, 64, 1, 192, 128, 65, 1, 192, 128, 65, 0, 193, 129, 64,
      0, 193, 129, 64, 1, 192, 128, 65, 0, 193, 129, 64, 1, 192, 128, 65, 1,
      192, 128, 65, 0, 193, 129, 64, 0, 193, 129, 64, 1, 192, 128, 65, 1, 192,
      128, 65, 0, 193, 129, 64, 1, 192, 128, 65, 0, 193, 129, 64, 0, 193, 129,
      64, 1, 192, 128, 65, 0, 193, 129, 64, 1, 192, 128, 65, 1, 192, 128, 65,
      0, 193, 129, 64, 1, 192, 128, 65, 0, 193, 129, 64, 0, 193, 129, 64, 1,
      192, 128, 65, 1, 192, 128, 65, 0, 193, 129, 64, 0, 193, 129, 64, 1, 192,
      128, 65, 0, 193, 129, 64, 1, 192, 128, 65, 1, 192, 128, 65, 0, 193, 129,
      64>>

aucCRCLo ==
    <<0, 192, 193, 1, 195, 3, 2, 194, 198, 6, 7, 199, 5, 197, 196, 4, 204, 12,
      13, 205, 15, 207, 206, 14, 10, 202, 203, 11, 201, 9, 8, 200, 216, 24, 25,
      217, 27, 219, 218, 26, 30, 222, 223, 31, 221, 29, 28, 220, 20, 212, 213,
      21, 215, 23, 22, 214, 210, 18, 19, 211, 17, 209, 208, 16, 240, 48, 49,
      241, 51, 243, 242, 50, 54, 246, 247, 55, 245, 53, 52, 244, 60, 252, 253,
      61, 255, 63, 62, 254, 250, 58, 59, 251, 57, 249, 248, 56, 40, 232, 233,
      41, 235, 43, 42, 234, 238, 46, 47, 239, 45, 237, 236, 44, 228, 36, 37,
      229, 39, 231, 230, 38, 34, 226, 227, 35, 225, 33, 32, 224, 160, 96, 97,
      161, 99, 163, 162, 98, 102, 166, 167, 103, 165, 101, 100, 164, 108, 172,
      173, 109, 175, 111, 110, 174, 170, 106, 107, 171, 105, 169, 168, 104,
      120, 184, 185, 121, 187, 123, 122, 186, 190, 126, 127, 191, 125, 189,
      188, 124, 180, 116, 117, 181, 119, 183, 182, 118, 114, 178, 179, 115,
      177, 113, 112, 176, 80, 144, 145, 81, 147, 83, 82, 146, 150, 86, 87, 151,
      85, 149, 148, 84, 156, 92, 93, 157, 95, 159, 158, 94, 90, 154, 155, 91,
      153, 89, 88, 152, 136, 72, 73, 137, 75, 139, 138, 74, 78, 142, 143, 79,
      141, 77, 76, 140, 68, 132, 133, 69, 135, 71, 70, 134, 130, 66, 67, 131,
      65, 129, 128, 64>>

(* The first k bits of a word, from the top, and the operator ^: bit by    *)
(* bit, whether the operands differ.                                       *)
Top(v, k) == v \div 2^(16 - k)
Differ(v, w, k) == (Top(v, k) + Top(w, k)) % 2
Xor(v, w) ==
    LET x[k \in 0 .. 16] == IF k = 0 THEN 0 ELSE 2 * x[k - 1] + Differ(v, w, k)
    IN  x[16]

(* The register of usMBCRC16 after a byte.                                 *)
Register == [hi : uint8_t, lo : uint8_t]

(* Mutant: the two tables are exchanged.                                   *)
Lookup_Swapped(crc, byte) ==
    LET iIndex == Xor(crc.lo, byte)
    IN  [lo |-> Xor(crc.hi, aucCRCLo[iIndex + 1]), hi |-> aucCRCHi[iIndex + 1]]

Lookup(crc, byte) ==
    LET iIndex == Xor(crc.lo, byte)
    IN  [lo |-> Xor(crc.hi, aucCRCHi[iIndex + 1]), hi |-> aucCRCLo[iIndex + 1]]

(* crc16-modbus by tables.                                                 *)
usMBCRC16(d) ==
    LET step == [byte \in uint8_t |-> [c \in Register |-> Lookup(c, byte)]]
        crc == Loop(step, [hi |-> 255, lo |-> 255], d)
    IN  256 * crc.hi + crc.lo

(* One of the eight shifts of iot_calc_crc16, and all eight.               *)
Shift1021(r) ==
    LET shifted == (2 * r) % 65536
    IN  IF r >= 32768 THEN Xor(shifted, 4129) ELSE shifted
Byte1021(r) ==
    Shift1021(Shift1021(Shift1021(Shift1021(
        Shift1021(Shift1021(Shift1021(Shift1021(r))))))))

(* crc16-ccitt bit by bit.                                                 *)
iot_calc_crc16(d) ==
    LET step == [byte \in uint8_t |-> [crc \in uint16_t |->
                    Byte1021(Xor(crc, 256 * byte))]]
    IN  Loop(step, 0, d)

-----------------------------------------------------------------------------
(* What a receiver checks: all groups, checksum included, sum to 0xffff in *)
(* ones' complement, that is to a non-zero multiple of 65535.              *)
Verifies(d) == GroupSum(d) > 0 /\ GroupSum(d) % 65535 = 0

(* RFC 1071, which the comments of both functions cite: data of even       *)
(* length followed by its checksum verifies (data of odd length does so    *)
(* only with a zero put before its last byte, where the RFC puts it        *)
(* behind).  So do the requests of ping and the header of send_ipv4.c; the *)
(* header of pack_ipv4_hdr, whose checksum is not given to htons(),        *)
(* verifies only if the two bytes of the checksum are equal.               *)
ChecksumsVerify ==
    LET sum == ipv4_checksum(data)
        n == Len(data)
        even == IF n % 2 = 0 THEN data
                ELSE SubSeq(data, 1, n - 1) \o <<0, data[n]>>
        len == 256 * data[1] + data[2]
        pid == 256 * data[3] + data[4]
        back == <<data[4], data[3], data[2], data[1]>>
        packed == pack_ipv4_hdr(data, back, 40, len, pid)
    IN  /\ Verifies(even \o <<Hi(sum), Lo(sum)>>)
        /\ n = 4 =>
             /\ Verifies(config_ip4_hdr(len, data, back, pid))
             /\ Verifies(ping_packet(pid, len, data))
             /\ Verifies(packed) <=> packed[11] = packed[12]

(* The bit-by-bit definition of CRC-16/MODBUS: polynomial 0xA001           *)
(* (reflected), initial value 0xFFFF.                                      *)
ShiftA001(r) == IF r % 2 = 1 THEN Xor(r \div 2, 40961) ELSE r \div 2
ByteA001(r) ==
    ShiftA001(ShiftA001(ShiftA001(ShiftA001(
        ShiftA001(ShiftA001(ShiftA001(ShiftA001(r))))))))
Modbus(d) ==
    LET step == [byte \in uint8_t |-> [crc \in uint16_t |->
                    ByteA001(Xor(crc, byte))]]
    IN  Loop(step, 65535, d)

(* Every entry of the tables is right: with them usMBCRC16 is the bit-by-  *)
(* bit CRC.  Data followed by its iot_calc_crc16 has the remainder 0, as a *)
(* division by 0x11021 has.  For the frame of main both have the values    *)
(* its comments give, 0xf199 and 0x4ad8.                                   *)
CrcAgrees ==
    LET crc == iot_calc_crc16(data)
    IN  /\ usMBCRC16(data) = Modbus(data)
        /\ iot_calc_crc16(data \o <<Hi(crc), Lo(crc)>>) = 0
        /\ data = frame => usMBCRC16(data) = 61849 /\ crc = 19160
=============================================================================
