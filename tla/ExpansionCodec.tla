--------------------------- MODULE ExpansionCodec ---------------------------
(***************************************************************************)
(* The framing of the Expansion serial line, main/expansion_protocol.c:    *)
(* expansion_protocol_encode on one side, on the other the byte-by-byte    *)
(* decoder as expansion_rx_task and receive_frame_sync drive it.  A frame  *)
(* is a type byte, a body and the XOR of all of them; only DATA frames     *)
(* carry their length.                                                     *)
(*                                                                         *)
(* The line may corrupt one byte of a frame.  One corruption is left out:  *)
(* a type byte turned into another type, or a length into another legal    *)
(* length, moves the place where the decoder looks for the checksum, and   *)
(* no decoder of this format can tell (see NoticeableDamage).              *)
(***************************************************************************)
EXTENDS Naturals, SequencesExt

CONSTANTS MaxData,       \* BRIDGE_EXPANSION_MAX_DATA
          Xor(_, _),     \* the exclusive or of two bytes
          Frames,        \* the frames the sender is asked to send
          Noise,         \* the bytes a corrupted byte may turn into
          MaxInFlight    \* bound on the frames sent and not yet decoded

Byte == 0..255

\* A BAUD_RATE frame, of 6 bytes, must fit the decoder's buffer, and the size
\* of a DATA frame must fit its byte.
ASSUME MaxDataAssumption == MaxData \in 3..255

\* The exclusive or of two bytes is a byte, and either of them undoes it.
ASSUME XorAssumption ==
    \A a, b \in Byte : /\ Xor(a, b) \in Byte
                       /\ Xor(Xor(a, b), b) = a /\ Xor(a, Xor(a, b)) = b

\* ExpansionFrameType, and the largest values of the two enumerations a
\* frame may carry.
Heartbeat == 1
Status    == 2
BaudRate  == 3
Control   == 4
Data      == 5
FrameTypes  == {Heartbeat, Status, BaudRate, Control, Data}
LastStatus  == 2         \* ExpansionFrameErrorBaudRate
LastControl == 1         \* ExpansionControlStopRpc

\* What an ExpansionFrame of each type carries: one field of its union, a uint32_t
\* rate or bytes.
WellFormed(f) ==
    /\ f \in [type : FrameTypes, content : Seq(Nat)]
    /\ f.type = Heartbeat => f.content = << >>
    /\ f.type \in {Status, Control} => Len(f.content) = 1 /\ f.content[1] \in Byte
    /\ f.type = BaudRate => /\ Len(f.content) = 1
                           /\ f.content[1] \div (256 * 256) < 256 * 256
    /\ f.type = Data => f.content \in Seq(Byte)

ASSUME FramesAssumption == \A f \in Frames : WellFormed(f)

VARIABLES wire,          \* the bytes in the UART's receive buffer
          inFlight,      \* the frames on the wire: frame, bytes, damaged
          decoder,       \* ExpansionDecoder: the used bytes and expected
          reading,       \* the reader has not met an error
          delivered      \* the last frame the decoder reported as ready

frameVars == <<wire, inFlight, decoder, reading, delivered>>

-----------------------------------------------------------------------------
(* Encoding.  A frame's content is the sequence of its fields: none, the    *)
(* status, the rate, the command, or the data bytes.                        *)

\* write_u32_le and read_u32_le
WriteU32(v) == << v % 256, (v \div 256) % 256, (v \div (256 * 256)) % 256,
                  (v \div (256 * 256 * 256)) % 256 >>
ReadU32(b)  == b[1] + 256 * b[2] + 256 * 256 * b[3] + 256 * 256 * 256 * b[4]

\* expansion_protocol_checksum
Checksum(bytes) == FoldLeft(Xor, 0, bytes)

\* The conditions under which expansion_protocol_encode returns true;
\* send_frame's buffer has room for the longest frame.
Encodable(f) ==
    /\ f.type \in FrameTypes
    /\ f.type = Control => f.content[1] <= LastControl
    /\ f.type = Data    => Len(f.content) <= MaxData

Body(f) ==
    CASE f.type = Heartbeat           -> << Heartbeat >>
      [] f.type \in {Status, Control} -> << f.type, f.content[1] >>
      [] f.type = BaudRate            -> << BaudRate >> \o WriteU32(f.content[1])
      [] f.type = Data                -> << Data, Len(f.content) >> \o f.content

Encode(f) == Append(Body(f), Checksum(Body(f)))

-----------------------------------------------------------------------------
(* Decoding *)

\* expansion_decoder_reset
EmptyDecoder == [bytes |-> << >>, expected |-> 0]

\* Mutant: the length of a DATA frame is not compared with the limit.
UnframeableTypeOnly(bytes) == Len(bytes) = 1 /\ bytes[1] \notin FrameTypes

\* decoder_set_expected returns false.
Unframeable(bytes) ==
    \/ Len(bytes) = 1 /\ bytes[1] \notin FrameTypes
    \/ Len(bytes) = 2 /\ bytes[1] = Data /\ bytes[2] > MaxData

FixedSize(type) == CASE type = Heartbeat           -> 2
                     [] type \in {Status, Control} -> 3
                     [] type = BaudRate            -> 6
                     [] type = Data                -> 0

\* Mutant: the checksum of a DATA frame is not counted.
ExpectedWithoutChecksum(bytes, expected) ==
    IF Len(bytes) = 1 THEN FixedSize(bytes[1])
    ELSE IF Len(bytes) = 2 /\ bytes[1] = Data THEN 2 + bytes[2]
    ELSE expected

\* decoder->expected after decoder_set_expected returned true.
Expected(bytes, expected) ==
    IF Len(bytes) = 1 THEN FixedSize(bytes[1])
    ELSE IF Len(bytes) = 2 /\ bytes[1] = Data THEN 3 + bytes[2]
    ELSE expected

\* The content of a whole frame.
Content(bytes) ==
    CASE bytes[1] = Heartbeat           -> << >>
      [] bytes[1] \in {Status, Control} -> << bytes[2] >>
      [] bytes[1] = BaudRate            -> << ReadU32(SubSeq(bytes, 2, 5)) >>
      [] bytes[1] = Data                -> SubSeq(bytes, 3, 2 + bytes[2])

Decode(bytes) == [type |-> bytes[1], content |-> Content(bytes)]

\* The values of a status and of a command are enumerations.
LegalValue(f) ==
    /\ f.type = Status  => f.content[1] <= LastStatus
    /\ f.type = Control => f.content[1] <= LastControl

\* Mutant: the checksum is not compared.
ResultWithoutChecksum(bytes, expected) ==
    IF Unframeable(bytes) THEN "Malformed"
    ELSE IF expected = 0 \/ Len(bytes) < expected THEN "NeedMore"
    ELSE IF Len(bytes) # expected \/ ~LegalValue(Decode(bytes)) THEN "Malformed"
    ELSE "FrameReady"

\* What expansion_decoder_push returns when the byte it added makes the
\* buffer bytes.
Result(bytes, expected) ==
    IF Unframeable(bytes) THEN "Malformed"
    ELSE IF expected = 0 \/ Len(bytes) < expected THEN "NeedMore"
    ELSE IF Len(bytes) # expected THEN "Malformed"
    ELSE IF Checksum(Front(bytes)) # Last(bytes) THEN "ChecksumError"
    ELSE IF ~LegalValue(Decode(bytes)) THEN "Malformed"
    ELSE "FrameReady"

-----------------------------------------------------------------------------
FrameInit ==
    /\ wire = << >>
    /\ inFlight = << >>
    /\ decoder = EmptyDecoder
    /\ reading = TRUE
    /\ delivered = [type |-> Heartbeat, content |-> << >>]

\* bytes, uint8_t each, reach the receive buffer in place of f's encoding.
Send(f, bytes) ==
    /\ reading
    /\ bytes \in Seq(Byte)
    /\ Len(inFlight) < MaxInFlight
    /\ wire' = wire \o bytes
    /\ inFlight' = Append(inFlight, [frame |-> f, bytes |-> bytes,
                                     damaged |-> bytes # Encode(f)])
    /\ UNCHANGED <<decoder, reading, delivered>>

\* send_frame on a line that does no harm.
SendFrame(f) == Encodable(f) /\ Send(f, Encode(f))

\* Byte i of f's encoding became b, and the decoder can tell.
NoticeableDamage(f, i, b) ==
    /\ b # Encode(f)[i]
    /\ i = 1 => b \notin FrameTypes
    /\ i = 2 /\ f.type = Data => b > MaxData

\* External: the line changes one byte of a frame.
SendDamaged(f) ==
    /\ Encodable(f)
    /\ \E i \in DOMAIN Encode(f), b \in Noise :
           /\ NoticeableDamage(f, i, b)
           /\ Send(f, [Encode(f) EXCEPT ![i] = b])

\* One iteration of the reader: uart_read_bytes returns a byte and the
\* decoder takes it.  An error ends the reader.
ReadByte ==
    /\ reading
    /\ wire # << >>
    /\ wire' = Tail(wire)
    /\ LET bytes    == Append(decoder.bytes, Head(wire))
           expected == IF Unframeable(bytes) THEN decoder.expected
                       ELSE Expected(bytes, decoder.expected)
           result   == IF Len(decoder.bytes) >= MaxData + 3 THEN "Malformed"
                       ELSE Result(bytes, expected)
       IN  /\ decoder' = IF result = "NeedMore"
                           THEN [bytes |-> bytes, expected |-> expected]
                           ELSE EmptyDecoder
           /\ inFlight' = IF result = "NeedMore" \/ inFlight = << >>
                            THEN inFlight ELSE Tail(inFlight)
           /\ reading' = (result \in {"NeedMore", "FrameReady"})
           /\ delivered' = IF result = "FrameReady" THEN Decode(bytes)
                           ELSE delivered

\* The link is established again: the receive buffer is flushed and the next
\* reader starts with a decoder of its own.
Reopen ==
    /\ ~reading
    /\ wire' = << >>
    /\ inFlight' = << >>
    /\ decoder' = EmptyDecoder
    /\ reading' = TRUE
    /\ UNCHANGED delivered

FrameNext ==
    \/ \E f \in Frames : SendFrame(f) \/ SendDamaged(f)
    \/ ReadByte
    \/ Reopen

FrameSpec == FrameInit /\ [][FrameNext]_frameVars

-----------------------------------------------------------------------------
(* Properties *)

\* Between two pushes the decoder waits for a byte it has room for: the
\* buffer is never full, whatever length the peer announces, and the frame it
\* expects fits.  The check of the buffer's size in expansion_decoder_push is
\* never what stops it.
DecoderFits ==
    /\ Len(decoder.bytes) < MaxData + 3
    /\ decoder.expected <= MaxData + 3
    /\ Len(decoder.bytes) >= 2 => Len(decoder.bytes) < decoder.expected
    /\ decoder.expected = 0 => Len(decoder.bytes) <= 1

\* The reader stays on the frame boundaries: what the decoder holds and what
\* is still to come are the encodings of the frames it has not reported, so
\* no byte of one frame is ever taken for part of another.
OnFrameBoundaries ==
    reading => decoder.bytes \o wire =
                 FlattenSeq([i \in DOMAIN inFlight |-> inFlight[i].bytes])

\* A frame is reported exactly when it arrived as it was sent and its value is
\* legal, and what is reported is the frame that was sent; every other frame
\* stops the reader.
FramesAreFaithful ==
    [][Len(inFlight') < Len(inFlight) /\ reading =>
         /\ reading' <=> ~Head(inFlight).damaged /\ LegalValue(Head(inFlight).frame)
         /\ reading' => delivered' = Head(inFlight).frame]_frameVars
=============================================================================
