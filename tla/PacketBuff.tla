----------------------------- MODULE PacketBuff -----------------------------
(***************************************************************************)
(* src/lib/netpackets/src/packet_buff.c: a buffer for a packet under       *)
(* construction, used as send_vlan.c uses it.  Addresses are offsets from  *)
(* the data area; data_len, capacity and size are uint32_t.                *)
(***************************************************************************)
EXTENDS Integers, Sequences

CONSTANTS
    Byte,
    AllocSizes, \* arguments of pktb_alloc
    Lens,       \* arguments of pktb_push and pktb_pop
    Hdr,        \* sizeof(struct packet_buff)
    U32         \* 2^32

(* The block has to fit the uint32_t that records its size.                *)
ASSUME PacketAssumption ==
    /\ 0 \in Byte
    /\ Hdr \in Nat /\ U32 \in Nat
    /\ AllocSizes \subseteq Nat
    /\ Lens \subseteq Nat
    /\ \A n \in AllocSizes : Hdr + n < U32

VARIABLES
    live,                     \* is there a packet_buff?
    head, end, tail,          \* its pointers; data = head
    data_len, capacity, size, \* its uint32_t fields
    mem,                      \* the data area
    ret                       \* the last call and what it returned

vars == <<live, head, end, tail, data_len, capacity, size, mem, ret>>

NULL == -1
Return(call, at) == [of |-> call, at |-> at]

(* A zeroed data area of n bytes.                                          *)
Zeroed(n) == [a \in 0 .. n - 1 |-> 0]

Init ==
    /\ live = FALSE
    /\ head = 0 /\ end = 0 /\ tail = 0
    /\ data_len = 0 /\ capacity = 0 /\ size = 0
    /\ mem = Zeroed(0)
    /\ ret = Return("free", NULL)

(* malloc, which may fail, and memset.                                     *)
pktb_alloc(n) ==
    /\ ~live
    /\ ret' = Return("alloc", NULL)
    /\ \/ UNCHANGED <<live, head, end, tail, data_len, capacity, size, mem>>
       \/ /\ live' = TRUE
          /\ mem' = Zeroed(n)
          /\ size' = (Hdr + n) % U32
          /\ capacity' = n % U32
          /\ data_len' = 0
          /\ head' = 0 /\ end' = n /\ tail' = 0

(* free(): the caller drops its pointer.                                   *)
pktb_free ==
    /\ live
    /\ live' = FALSE
    /\ head' = 0 /\ end' = 0 /\ tail' = 0
    /\ data_len' = 0 /\ capacity' = 0 /\ size' = 0
    /\ mem' = Zeroed(0)
    /\ ret' = Return("free", NULL)

pktb_reset ==
    /\ live
    /\ tail' = head
    /\ data_len' = 0
    /\ UNCHANGED <<live, head, end, capacity, size, mem, ret>>

(* Mutant: the last byte is given out once more.                           *)
pktb_push_OffByOne(n) ==
    /\ live
    /\ \/ /\ end - tail + 1 < n
          /\ ret' = Return("push", NULL)
          /\ UNCHANGED <<tail, data_len>>
       \/ /\ ~(end - tail + 1 < n)
          /\ ret' = Return("push", tail)
          /\ tail' = tail + n
          /\ data_len' = (data_len + n) % U32
    /\ UNCHANGED <<live, head, end, capacity, size, mem>>

pktb_push(n) ==
    /\ live
    /\ \/ /\ end - tail < n
          /\ ret' = Return("push", NULL)
          /\ UNCHANGED <<tail, data_len>>
       \/ /\ ~(end - tail < n)
          /\ ret' = Return("push", tail)
          /\ tail' = tail + n
          /\ data_len' = (data_len + n) % U32
    /\ UNCHANGED <<live, head, end, capacity, size, mem>>

(* Mutant: pop returns the position before it moved tail.                  *)
pktb_pop_OldTail(n) ==
    /\ live
    /\ \/ /\ tail - head < n
          /\ ret' = Return("pop", NULL)
          /\ UNCHANGED <<tail, data_len>>
       \/ /\ ~(tail - head < n)
          /\ tail' = tail - n
          /\ data_len' = (data_len - n) % U32
          /\ ret' = Return("pop", tail)
    /\ UNCHANGED <<live, head, end, capacity, size, mem>>

pktb_pop(n) ==
    /\ live
    /\ \/ /\ tail - head < n
          /\ ret' = Return("pop", NULL)
          /\ UNCHANGED <<tail, data_len>>
       \/ /\ ~(tail - head < n)
          /\ tail' = tail - n
          /\ data_len' = (data_len - n) % U32
          /\ ret' = Return("pop", tail')
    /\ UNCHANGED <<live, head, end, capacity, size, mem>>

(* The user fills in a byte of a header it pushed.                         *)
Pack(a, v) ==
    /\ live /\ a \in head .. tail - 1
    /\ mem' = [mem EXCEPT ![a] = v]
    /\ UNCHANGED <<live, head, end, tail, data_len, capacity, size, ret>>

Next ==
    \/ \E n \in AllocSizes : pktb_alloc(n)
    \/ pktb_free \/ pktb_reset
    \/ \E n \in Lens : pktb_push(n) \/ pktb_pop(n)
    \/ \E a \in head .. tail - 1, v \in Byte : Pack(a, v)

Spec == Init /\ [][Next]_vars

-----------------------------------------------------------------------------
(* The pointers stay inside the data area, which is as large as asked for, *)
(* and the uint32_t fields that users read agree with them: data_len is    *)
(* the distance of the pointers, although each call updates the two apart. *)
PointersInData ==
    /\ live \in BOOLEAN
    /\ head \in Nat /\ tail \in Nat /\ end \in Nat
    /\ head = 0 /\ head <= tail /\ tail <= end
    /\ data_len = tail - head
    /\ capacity = end - head
    /\ live => size = Hdr + capacity /\ size < U32
    /\ ~live => end = 0
    /\ mem \in [0 .. end - 1 -> Byte]

(* The packet that send_frame(pktb->data, pktb_data_len(pktb)) transmits.  *)
Packet == [i \in 1 .. data_len |-> mem[head + i - 1]]

Room == IF live THEN capacity ELSE NULL

Stack == INSTANCE PacketStack WITH bytes <- Packet, room <- Room, ret <- ret

(* packet_buff implements the stack: whatever is pushed, popped, reset and *)
(* written, a call that succeeds changes only the end of the packet, and   *)
(* one that is refused changes nothing.                                    *)
ImplementsStack == Stack!Spec
=============================================================================
