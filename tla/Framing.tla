------------------------------- MODULE Framing -------------------------------
(***************************************************************************)
(* sendFrame and recvFrame of src/transport/transport.cpp over the bytes   *)
(* of one direction of a TCP connection: write and read move any number of *)
(* bytes, at least one, and the loops around them go on to the end of the  *)
(* type, the length and the payload.                                       *)
(*                                                                         *)
(* A buffer that is being read holds the bytes of wire from base on; wire  *)
(* is all that was ever written, so that what was read stays in it.        *)
(***************************************************************************)
EXTENDS Naturals, Sequences

CONSTANTS
    Byte,
    Width,          \* bytes of a number (4)
    Words,          \* how many numbers there are (2^32)
    ToWire,         \* htonl: the bytes of a number
    FromWire,       \* ntohl
    SockBuf,        \* bytes the socket buffers hold
    Conversations   \* sequences of frames [type, payload] one side may send

ASSUME FramingAssumption ==
    /\ Width \in Nat \ {0} /\ Words \in Nat \ {0} /\ SockBuf \in Nat \ {0}
    /\ ToWire \in [0..(Words - 1) -> [1..Width -> Byte]]
    /\ \A n \in 0..(Words - 1) : FromWire[ToWire[n]] = n
    /\ \A m \in Conversations : m \in Seq([type : 0..(Words - 1), payload : Seq(Byte)])

VARIABLES
    messages,   \* the frames of this side, in order
    wire,       \* the bytes written
    frame,      \* the frame being written, or Len(messages) + 1
    put,        \* its bytes that are written
    starts,     \* history: where in wire each frame begins
    taken,      \* how many bytes were read
    base,       \* those of the frames received before
    delivered,  \* what recvFrame returned
    wpc,        \* the writer: writing, closed, or failed (an exception)
    rpc,        \* the reader: reading, failed (an exception), or stopped
    lost        \* the connection was reset

writer == <<wire, frame, put, starts, wpc>>
reader == <<taken, base, delivered, rpc>>
vars == <<messages, writer, reader, lost>>

(* The length is cast to 32 bits.                                          *)
Header(f) == ToWire[f.type] \o ToWire[Len(f.payload) % Words]
Encoding(f) == Header(f) \o f.payload

(* A read or write stays within the buffer its loop is about.              *)
BufferEnd(position, total) ==
    IF position < Width THEN Width ELSE IF position < 2 * Width THEN 2 * Width ELSE total

Init ==
    /\ messages \in Conversations
    /\ wire = <<>> /\ frame = 1 /\ put = 0 /\ starts = <<0>> /\ wpc = "writing"
    /\ taken = 0 /\ base = 0 /\ delivered = <<>> /\ rpc = "reading"
    /\ lost = FALSE

-----------------------------------------------------------------------------
Current == Encoding(messages[frame])
(* n bytes went out.                                                       *)
Written(n) ==
    IF put + n < Len(Current) THEN put' = put + n /\ UNCHANGED <<frame, starts>>
    ELSE put' = 0 /\ frame' = frame + 1 /\ starts' = Append(starts, Len(wire'))
(* A mutant: after a short write the loop starts from the buffer's         *)
(* beginning again.                                                        *)
BufferStart == IF put < Width THEN 0 ELSE IF put < 2 * Width THEN Width ELSE 2 * Width
WriteFromStart ==
    /\ wpc = "writing" /\ ~lost /\ frame <= Len(messages)
    /\ \E n \in 1..(BufferEnd(put, Len(Current)) - put) :
          /\ Len(wire) + n - taken <= SockBuf
          /\ wire' = wire \o SubSeq(Current, BufferStart + 1, BufferStart + n)
          /\ Written(n)
    /\ UNCHANGED <<messages, wpc, reader, lost>>
Write ==
    /\ wpc = "writing" /\ ~lost /\ frame <= Len(messages)
    /\ \E n \in 1..(BufferEnd(put, Len(Current)) - put) :
          /\ Len(wire) + n - taken <= SockBuf
          /\ wire' = wire \o SubSeq(Current, put + 1, put + n)
          /\ Written(n)
    /\ UNCHANGED <<messages, wpc, reader, lost>>
WriteFails ==
    /\ wpc = "writing" /\ (lost \/ rpc # "reading")
    /\ wpc' = "failed"
    /\ UNCHANGED <<messages, wire, frame, put, starts, reader, lost>>
(* The last frame is out.                                                  *)
Close ==
    /\ wpc = "writing" /\ frame > Len(messages)
    /\ wpc' = "closed"
    /\ UNCHANGED <<messages, wire, frame, put, starts, reader, lost>>
(* The process ends in the middle: what was written still arrives.         *)
Crash ==
    /\ wpc = "writing" /\ wpc' = "failed"
    /\ UNCHANGED <<messages, wire, frame, put, starts, reader, lost>>

-----------------------------------------------------------------------------
Number(from) == FromWire[SubSeq(wire, from + 1, from + Width)]
Announced == Number(base + Width)
(* A mutant: got <= len instead of got < len.                              *)
FrameEndInclusive == 2 * Width + Announced + 1
FrameEnd == 2 * Width + Announced
Received(upto) ==
    [type |-> Number(base), payload |-> SubSeq(wire, base + 2 * Width + 1, upto)]

(* A mutant: the payload comes from a single call of read, which may       *)
(* return less than was asked for.                                         *)
CompleteAtOnce(got, n) == got >= 2 * Width \/ (got + n = 2 * Width /\ Announced = 0)
Complete(got, n) == got + n >= 2 * Width /\ got + n = FrameEnd
Read ==
    /\ rpc = "reading"
    /\ LET got == taken - base
       IN  \E n \in 1..(BufferEnd(got, FrameEnd) - got) :
              /\ taken + n <= Len(wire)
              /\ taken' = taken + n
              /\ IF Complete(got, n)
                 THEN /\ delivered' = Append(delivered, Received(taken + n))
                      /\ base' = taken + n
                 ELSE UNCHANGED <<delivered, base>>
    /\ UNCHANGED <<messages, writer, rpc, lost>>
(* read returns 0 at the end of the stream, or an error.                   *)
ReadFails ==
    /\ rpc = "reading" /\ (lost \/ (wpc # "writing" /\ taken = Len(wire)))
    /\ rpc' = "failed"
    /\ UNCHANGED <<messages, writer, taken, base, delivered, lost>>
(* The receiver gives up for a reason of its own.                          *)
StopReading ==
    /\ rpc = "reading" /\ rpc' = "stopped"
    /\ UNCHANGED <<messages, writer, taken, base, delivered, lost>>
Reset ==
    /\ ~lost /\ lost' = TRUE
    /\ UNCHANGED <<messages, writer, reader>>

Next ==
    \/ Write \/ WriteFails \/ Close \/ Crash
    \/ Read \/ ReadFails \/ StopReading \/ Reset

Spec == Init /\ [][Next]_vars
(* Both ends are loops of blocking calls; one that can return does.        *)
FairSpec == Spec /\ WF_vars(Write \/ WriteFails \/ Close) /\ WF_vars(Read \/ ReadFails)

-----------------------------------------------------------------------------
TypeOK ==
    /\ messages \in Conversations
    /\ wire \in Seq(Byte) /\ frame \in 1..(Len(messages) + 1) /\ put \in Nat
    /\ starts \in Seq(Nat) /\ Len(starts) = frame
    /\ taken \in Nat /\ base \in Nat
    /\ delivered \in Seq([type : 0..(Words - 1), payload : Seq(Byte)])
    /\ wpc \in {"writing", "closed", "failed"} /\ rpc \in {"reading", "failed", "stopped"}
    /\ lost \in BOOLEAN

(* The wire is the encodings of the frames, one after the other, the last  *)
(* one cut off anywhere; the reader is inside the frame after those it     *)
(* delivered, and its first byte is where that frame begins.               *)
Size(i) == Len(Encoding(messages[i]))
WireOK ==
    /\ starts[frame] + put = Len(wire)
    /\ \A i \in 1..frame : starts[i] <= Len(wire)
    /\ frame <= Len(messages) => put < Size(frame)
    /\ frame > Len(messages) => put = 0
    /\ \A i \in 1..(frame - 1) : starts[i + 1] = starts[i] + Size(i)
    /\ \A i \in 1..Len(messages) : i <= frame =>
          \A j \in 1..Size(i) :
             starts[i] + j <= Len(wire) => wire[starts[i] + j] = Encoding(messages[i])[j]
ReaderOK ==
    /\ Len(delivered) < frame
    /\ base = starts[Len(delivered) + 1]
    /\ base <= taken /\ taken <= Len(wire)
    /\ taken - base < (IF Len(delivered) < Len(messages) THEN Size(Len(delivered) + 1) ELSE 1)
    /\ \A i \in 1..Len(delivered) : delivered[i] = messages[i]
FramingInv == TypeOK /\ WireOK /\ ReaderOK

Channel == INSTANCE FrameChannel WITH sent <- frame - 1
(* However the bytes are split, and wherever the connection is cut, the    *)
(* receiver gets the frames that were sent, whole and in order             *)
(* (transport.cpp:25-98).                                                  *)
ImplementsChannel == Channel!Spec

(* Every byte written is waited for: unless an end leaves or the           *)
(* connection is reset, all the frames arrive, through a buffer smaller    *)
(* than one of them.                                                       *)
AllArrive == <>(delivered = messages \/ lost \/ wpc = "failed" \/ rpc = "stopped")
=============================================================================
