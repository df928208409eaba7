----------------------------- MODULE PacketStack -----------------------------
(***************************************************************************)
(* What packet_buff promises: a packet is a sequence of bytes that grows   *)
(* and shrinks at its end and never exceeds the room it was created with.  *)
(* A refused call changes nothing.                                         *)
(***************************************************************************)
EXTENDS Integers, Sequences

CONSTANTS
    Byte,       \* values of a byte
    AllocSizes, \* capacities asked for
    Lens        \* lengths pushed and popped

VARIABLES
    bytes,  \* the packet, what send_frame transmits
    room,   \* its capacity, or NoPacket
    ret     \* the last call and what it returned: a position, or NULL

NoPacket == -1
NULL == -1
Return(call, at) == [of |-> call, at |-> at]

stackVars == <<bytes, room, ret>>

Init == bytes = <<>> /\ room = NoPacket /\ ret = Return("free", NULL)

Create(n) ==
    /\ room = NoPacket
    /\ room' \in {n, NoPacket} /\ bytes' = <<>> /\ ret' = Return("alloc", NULL)

Destroy ==
    /\ room # NoPacket
    /\ room' = NoPacket /\ bytes' = <<>> /\ ret' = Return("free", NULL)

(* The new bytes may have any value; the ones before them stay.            *)
Push(n) ==
    /\ room # NoPacket /\ Len(bytes) + n <= room
    /\ bytes' \in [1 .. Len(bytes) + n -> Byte]
    /\ \A i \in 1 .. Len(bytes) : bytes'[i] = bytes[i]
    /\ ret' = Return("push", Len(bytes)) /\ room' = room

Pop(n) ==
    /\ room # NoPacket /\ n <= Len(bytes)
    /\ bytes' = [i \in 1 .. Len(bytes) - n |-> bytes[i]]
    /\ ret' = Return("pop", Len(bytes) - n) /\ room' = room

Refuse(n) ==
    /\ room # NoPacket
    /\ \/ Len(bytes) + n > room /\ ret' = Return("push", NULL)
       \/ n > Len(bytes) /\ ret' = Return("pop", NULL)
    /\ UNCHANGED <<bytes, room>>

Empty ==
    /\ room # NoPacket
    /\ bytes' = <<>> /\ UNCHANGED <<room, ret>>

Store(i, v) ==
    /\ i \in 1 .. Len(bytes)
    /\ bytes' = [bytes EXCEPT ![i] = v] /\ UNCHANGED <<room, ret>>

Next ==
    \/ \E n \in AllocSizes : Create(n)
    \/ Destroy \/ Empty
    \/ \E n \in Lens : Push(n) \/ Pop(n) \/ Refuse(n)
    \/ \E i \in 1 .. Len(bytes), v \in Byte : Store(i, v)

Spec == Init /\ [][Next]_stackVars
=============================================================================
