------------------------------- MODULE Framing -------------------------------
(***************************************************************************)
(* How wrpc-go puts packets on a connection and takes them off again:      *)
(* PacketRequest and PacketResponse (protocol.go), readBody and the read   *)
(* loop that tcpConn.handle (server_tcp.go) and clientConn.recv            *)
(* (client.go) share.  One direction of one connection.                    *)
(*                                                                         *)
(* A byte is the record of the packet it belongs to and its place there.   *)
(* What matters of the four bytes of a header is the size they declare.    *)
(* Writers append whole packets, because a Write on a connection excludes  *)
(* the others.  Bytes arrive in pieces of any size up to the read buffer.  *)
(***************************************************************************)
EXTENDS Integers, Sequences, FiniteSetsExt

CONSTANTS
    BodySizes,     \* sizes of marshalled messages
    BadSizes,      \* sizes that a malformed header declares
    ReadSize,      \* ClientOptions.readSize, ServerOptions.readSize
    MaxPackets     \* bound: packets in a run

HeaderSize == 4

\* A marshalled message is never empty: its request id is not 0.
ASSUME FramingAssumption ==
    /\ BodySizes \subseteq Nat \ {0}
    /\ BadSizes \subseteq 0 .. HeaderSize
    /\ ReadSize \in Nat \ {0}
    /\ MaxPackets \in Nat

VARIABLES
    declared,     \* the size each packet on the connection declares
    wire,         \* bytes written and not yet read
    cut,          \* nothing more will be written
    pc,           \* the reader: in Read, splitting the buffer, or returned
    buf,          \* what it has read and not yet handed over
    invoked       \* the messages it handed to invoke

framingVars == <<declared, wire, cut, pc, buf, invoked>>

FramingInit ==
    /\ declared = <<>>
    /\ wire = <<>>
    /\ cut = FALSE
    /\ pc = "read"
    /\ buf = <<>>
    /\ invoked = <<>>

-----------------------------------------------------------------------------
(* Packets.                                                                *)

\* The bytes of packet k, whose body has n bytes.
Packet(k, n) == [i \in 1 .. HeaderSize + n |-> [packet |-> k, at |-> i]]

\* What UnPackRequest and UnPackResponse unmarshal: body[4:].
Message(body) == SubSeq(body, HeaderSize + 1, Len(body))

\* binary.LittleEndian.Uint32: the header at the head of bs, or 0 for bytes
\* that are not a header.
Uint32(bs) ==
    LET k == bs[1].packet IN
    IF \A i \in 1 .. HeaderSize : bs[i] = [packet |-> k, at |-> i]
    THEN declared[k] ELSE 0

\* Variant: a packet is complete when one more byte is there.
FullTooLate(bs) ==
    Len(bs) > HeaderSize /\ HeaderSize < Uint32(bs) /\ Uint32(bs) < Len(bs)

\* readBody, by its three results.
Full(bs) ==
    Len(bs) > HeaderSize /\ HeaderSize < Uint32(bs) /\ Uint32(bs) <= Len(bs)
Err(bs) ==
    Len(bs) > HeaderSize /\ Uint32(bs) <= HeaderSize
NeedRead(bs) ==
    ~Full(bs) /\ ~Err(bs)

-----------------------------------------------------------------------------
(* The writers.                                                            *)

Count == Len(declared)

Put(k, n, size) ==
    /\ ~cut
    /\ Count < MaxPackets
    /\ declared' = Append(declared, size)
    /\ wire' = wire \o Packet(k, n)
    /\ UNCHANGED <<cut, pc, buf, invoked>>

\* PacketRequest or PacketResponse, then Write.
WritePacket == \E n \in BodySizes : Put(Count + 1, n, HeaderSize + n)

\* The peer writes something else.
WriteMalformed ==
    \E n \in BodySizes, size \in BadSizes : Put(Count + 1, n, size)

\* The connection ends, and any number of the last bytes is lost.
Cut ==
    /\ ~cut
    /\ cut' = TRUE
    /\ \E n \in 0 .. Len(wire) : wire' = SubSeq(wire, 1, n)
    /\ UNCHANGED <<declared, pc, buf, invoked>>

-----------------------------------------------------------------------------
(* The reader.                                                             *)

\* Read returns some bytes.
Read ==
    /\ pc = "read"
    /\ \E n \in 1 .. Min({ReadSize, Len(wire)}) :
         /\ buf' = buf \o SubSeq(wire, 1, n)
         /\ wire' = SubSeq(wire, n + 1, Len(wire))
    /\ pc' = "split"
    /\ UNCHANGED <<declared, cut, invoked>>

\* Read fails: return.
ReadFails ==
    /\ pc = "read"
    /\ cut
    /\ wire = <<>>
    /\ pc' = "returned"
    /\ UNCHANGED <<declared, wire, cut, buf, invoked>>

\* Variant: the whole buffer is dropped with the packet.
RestDropped == <<>>

\* buf[n:]
Rest == SubSeq(buf, Uint32(buf) + 1, Len(buf))

\* A packet is complete: cut it off and invoke.
SplitFull ==
    /\ pc = "split"
    /\ Full(buf)
    /\ invoked' = Append(invoked, Message(SubSeq(buf, 1, Uint32(buf))))
    /\ buf' = Rest
    /\ UNCHANGED <<declared, wire, cut, pc>>

SplitNeedRead ==
    /\ pc = "split"
    /\ NeedRead(buf)
    /\ pc' = "read"
    /\ UNCHANGED <<declared, wire, cut, buf, invoked>>

SplitErr ==
    /\ pc = "split"
    /\ Err(buf)
    /\ pc' = "returned"
    /\ UNCHANGED <<declared, wire, cut, buf, invoked>>

Writer == WritePacket \/ WriteMalformed \/ Cut

\* recv asks conn.closed() before each Read (ReaderTop of Connector): a stream
\* that it leaves so is one that ends there, as after Cut.
Reader == Read \/ ReadFails \/ SplitFull \/ SplitNeedRead \/ SplitErr

FramingNext == Writer \/ Reader

FramingSpec == FramingInit /\ [][FramingNext]_framingVars

\* The goroutine of the reader is scheduled and bytes arrive.
FramingFairSpec == FramingSpec /\ WF_framingVars(Reader)

-----------------------------------------------------------------------------
(* Properties.                                                             *)

\* However the bytes of packets are grouped by Read, invoke gets the messages
\* whole, in the order they were written, and none after a malformed header.
InvokedInOrder ==
    \A k \in 1 .. Len(invoked) :
        /\ declared[k] > HeaderSize
        /\ invoked[k] = Message(Packet(k, declared[k] - HeaderSize))

\* Packets 1 .. k were written in full and well formed.
SoundUpTo(k) == k <= Count /\ \A j \in 1 .. k : declared[j] > HeaderSize

\* Every packet that is written on a connection that stays up is invoked,
\* with no need of further traffic: a reader that goes back to Read holds back
\* no complete packet, however many arrived together.
EveryPacketInvoked ==
    \A k \in 1 .. MaxPackets : SoundUpTo(k) ~> Len(invoked) >= k \/ cut

=============================================================================
