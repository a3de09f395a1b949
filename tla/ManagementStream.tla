-------------------------- MODULE ManagementStream --------------------------
(***************************************************************************)
(* The bytes of one authenticated TCP connection: the receive loop of      *)
(* client_task (main/bridge_server.c), the message decoder and encoder     *)
(* (main/bridge_session.c), the write loop (main/bridge_io.c) and, in raw  *)
(* mode, the chunks of expansion_transport_send_rpc.  TCP cuts and joins   *)
(* messages anywhere, one receive may hold the end of a message, several   *)
(* whole ones, a begin and the first raw bytes; send may take any part.    *)
(*                                                                         *)
(* The 14-byte header is four cells: the magic, the command, the status    *)
(* and the payload size.  Version, flags and request id follow the status  *)
(* and are left out.  Which commands a session may give before it is       *)
(* authenticated is BridgeServer's matter.                                 *)
(***************************************************************************)
EXTENDS Naturals, SequencesExt

CONSTANTS MaxPayload,    \* BRIDGE_MANAGEMENT_MAX_PAYLOAD
          ReadBytes,     \* BRIDGE_TCP_READ_BYTES
          ChunkBytes,    \* BRIDGE_EXPANSION_MAX_DATA
          Writings,      \* what the client may write: sequences of cells
          MaxWritings    \* bound on how often it writes

HeaderSize == 4

ASSUME StreamSizesAssumption ==
    MaxPayload \in Nat /\ ReadBytes \in Nat \ {0} /\ ChunkBytes \in Nat \ {0}

ASSUME WritingsAssumption == Writings \subseteq Seq(Nat)

Magic == 70
\* BridgeCommand: those the authenticated handler tells apart.
Hello         == 1
GetBridgeInfo == 3
GetStatus     == 4
BeginRpcProxy == 5
EndRpcProxy   == 6
Ping          == 7
\* BridgeStatus
Ok           == 0
Malformed    == 1
Unavailable  == 5
TooLarge     == 6
InvalidState == 7

VARIABLES socket,        \* the bytes that arrived and were not received
          written,       \* how often the client wrote
          input,         \* the buffer of the last recv
          offset,        \* how much of it is consumed
          parser,        \* BridgeMessageDecoder: the used bytes and expected
          place,         \* where client_task is
          output,        \* what is left to write of the current response
          answers,       \* what the socket has taken
          rpc,           \* the raw bytes the Flipper has confirmed
          sent,          \* history: everything the client wrote
          decoded,       \* history: the messages decoded, encoded again
          owed           \* history: the responses given, encoded

streamVars == <<socket, written, input, offset, parser, place, output,
                answers, rpc, sent, decoded, owed>>

-----------------------------------------------------------------------------
(* Messages *)

\* bridge_message_encode, on the messages it accepts.
EncodeMessage(m) == <<Magic, m.command, m.status, Len(m.payload)>> \o m.payload

EncodableMessage(m) ==
    Len(m.payload) <= MaxPayload /\ m.command \in Hello..Ping

\* bridge_message_decoder_reset
EmptyParser == [bytes |-> << >>, expected |-> 0]

\* Mutant: the payload size is not compared with the limit.
HeaderTrusted(b) == IF b[1] # Magic \/ b[3] > InvalidState THEN "Malformed" ELSE "Good"

\* The checks on a whole header.
HeaderVerdict(b) ==
    IF b[1] # Magic \/ b[3] > InvalidState THEN "Malformed"
    ELSE IF b[4] > MaxPayload THEN "TooLarge"
    ELSE "Good"

\* The status send_response is called with.  A refused version or flag, like a
\* refused status, is answered without a payload, and json[512] has room for the
\* longest text of the two queries.
Answer(m, linkReady) ==
    IF m.status # Ok THEN Malformed
    ELSE CASE m.command \in {GetBridgeInfo, GetStatus, EndRpcProxy} ->
                IF m.payload = << >> THEN Ok ELSE Malformed
           [] m.command = Ping -> Ok
           [] m.command = BeginRpcProxy ->
                IF m.payload = << >> /\ linkReady THEN Ok ELSE Unavailable
           [] OTHER -> InvalidState

\* One cell stands for the JSON text of the two queries.
ResponsePayload(m, status) ==
    CASE m.command = Ping /\ status = Ok -> m.payload
      [] m.command \in {GetBridgeInfo, GetStatus} /\ status = Ok -> <<Magic>>
      [] OTHER -> << >>

\* The message send_response builds.
Response(m, status) == [command |-> m.command, status |-> status,
                        payload |-> ResponsePayload(m, status)]

\* What is unread of the buffer.
Remaining == SubSeq(input, offset + 1, Len(input))

-----------------------------------------------------------------------------
StreamInit ==
    /\ socket = << >> /\ written = 0
    /\ input = << >> /\ offset = 0
    /\ parser = EmptyParser
    /\ place = "recv"
    /\ output = << >> /\ answers = << >> /\ rpc = << >>
    /\ sent = << >> /\ decoded = << >> /\ owed = << >>

\* External: the client writes, without waiting for answers.
ClientWrites(cells) ==
    /\ place # "done"
    /\ written < MaxWritings
    /\ written' = written + 1
    /\ socket' = socket \o cells
    /\ sent' = sent \o cells
    /\ UNCHANGED <<input, offset, parser, place, output, answers, rpc, decoded, owed>>

\* recv, in client_task's loop or in rpc_proxy_run's, returns n bytes.
Receive(n) ==
    /\ place \in {"recv", "proxy"}
    /\ n <= Len(socket)
    /\ input' = SubSeq(socket, 1, n)
    /\ socket' = SubSeq(socket, n + 1, Len(socket))
    /\ offset' = 0
    /\ place' = IF place = "recv" THEN "push" ELSE "chunk"
    /\ UNCHANGED <<written, parser, output, answers, rpc, sent, decoded, owed>>

\* recv returns 0, fails, or the idle time is over.
ReceiveEnds ==
    /\ place \in {"recv", "proxy"}
    /\ place' = "done"
    /\ UNCHANGED <<socket, written, input, offset, parser, output, answers, rpc,
                   sent, decoded, owed>>

\* send_response: the response is about to be written, at the place next; one
\* that cannot be encoded ends the connection.
Respond(m, next) ==
    IF EncodableMessage(m)
      THEN /\ output' = EncodeMessage(m)
           /\ owed' = owed \o EncodeMessage(m)
           /\ place' = next
      ELSE /\ UNCHANGED <<output, owed>>
           /\ place' = "done"

\* The answer to a message that cannot be decoded.
Refusal(status) == [command |-> Hello, status |-> status, payload |-> << >>]

\* BridgeDecodeReady: the message is taken off the decoder and decoded.
PushReady(m) ==
    /\ offset' = offset + 1
    /\ parser' = EmptyParser
    /\ decoded' = decoded \o EncodeMessage(m)
    /\ \E linkReady \in BOOLEAN :
         LET status == Answer(m, linkReady) IN
           Respond(Response(m, status),
                   IF m.command = BeginRpcProxy /\ status = Ok THEN "begin" ELSE "write")

\* BridgeDecodeMalformed or BridgeDecodeTooLarge: answered, and the last word.
PushRefused(status) ==
    /\ offset' = offset + 1
    /\ parser' = EmptyParser
    /\ Respond(Refusal(status), "refuse")
    /\ UNCHANGED decoded

\* The loop of bridge_message_decoder_push takes one byte of the input.
PushByte ==
    /\ place = "push"
    /\ offset < Len(input)
    /\ LET b        == Append(parser.bytes, input[offset + 1])
           verdict  == IF Len(b) = HeaderSize THEN HeaderVerdict(b) ELSE "Good"
           expected == IF Len(b) = HeaderSize THEN HeaderSize + b[4]
                       ELSE parser.expected
       IN  IF Len(parser.bytes) >= HeaderSize + MaxPayload THEN PushRefused(TooLarge)
           ELSE IF verdict = "Malformed" THEN PushRefused(Malformed)
           ELSE IF verdict = "TooLarge" THEN PushRefused(TooLarge)
           ELSE IF expected > 0 /\ Len(b) = expected
             THEN PushReady([command |-> b[2], status |-> b[3],
                             payload |-> SubSeq(b, HeaderSize + 1, Len(b))])
           ELSE /\ offset' = offset + 1
                /\ parser' = [bytes |-> b, expected |-> expected]
                /\ UNCHANGED <<place, output, decoded, owed>>
    /\ UNCHANGED <<socket, written, input, answers, rpc, sent>>

\* The input is used up: back to recv.
InputUsed ==
    /\ place = "push"
    /\ offset = Len(input)
    /\ place' = "recv"
    /\ UNCHANGED <<socket, written, input, offset, parser, output, answers, rpc,
                   sent, decoded, owed>>

\* Mutant: what is left is counted from the start of the response.
WriteFromStart(n) == SubSeq(output, 1, Len(output) - n)

\* What bridge_io_write_all passes to the next send after one took n bytes.
WriteRest(n) == SubSeq(output, n + 1, Len(output))

\* An iteration of bridge_io_write_all: send takes n > 0 bytes.  An
\* interrupted send is tried again and changes nothing.
Write(n) ==
    /\ place \in {"write", "begin", "refuse"}
    /\ n \in 1..Len(output)
    /\ answers' = answers \o SubSeq(output, 1, n)
    /\ output' = WriteRest(n)
    /\ UNCHANGED <<socket, written, input, offset, parser, place, rpc, sent,
                   decoded, owed>>

\* The whole response is written.  After a begin the rest of the input is
\* the first of the raw bytes.
Written ==
    /\ place \in {"write", "begin", "refuse"}
    /\ output = << >>
    /\ place' = CASE place = "write"  -> "push"
                  [] place = "begin"  -> "chunk"
                  [] place = "refuse" -> "done"
    /\ UNCHANGED <<socket, written, input, offset, parser, output, answers, rpc,
                   sent, decoded, owed>>

\* send fails for good, or takes nothing.
WriteFails ==
    /\ place \in {"write", "begin", "refuse"}
    /\ output # << >>
    /\ place' = "done"
    /\ UNCHANGED <<socket, written, input, offset, parser, output, answers, rpc,
                   sent, decoded, owed>>

\* Mutant: a chunk longer than the limit is cut, and the rest forgotten.
ChunkForgetsRest(chunk) == Len(input)

\* offset += chunk
AfterChunk(chunk) == offset + chunk

\* One DATA frame of expansion_transport_send_rpc, confirmed.
SendChunk ==
    /\ place = "chunk"
    /\ offset < Len(input)
    /\ LET chunk == IF Len(Remaining) < ChunkBytes THEN Len(Remaining) ELSE ChunkBytes
       IN  /\ rpc' = rpc \o SubSeq(Remaining, 1, chunk)
           /\ offset' = AfterChunk(chunk)
    /\ UNCHANGED <<socket, written, input, parser, place, output, answers, sent,
                   decoded, owed>>

\* send_rpc returns: with all sent, or because the link failed.
ChunksEnd ==
    /\ place = "chunk"
    /\ place' \in (IF offset = Len(input) THEN {"proxy"} ELSE {"done"})
    /\ UNCHANGED <<socket, written, input, offset, parser, output, answers, rpc,
                   sent, decoded, owed>>

\* The slot is free again and the next client comes.
NextClient ==
    /\ place = "done"
    /\ place' = "recv"
    /\ parser' = EmptyParser
    /\ written' = 0 /\ offset' = 0
    /\ socket' = << >> /\ input' = << >>
    /\ output' = << >> /\ answers' = << >> /\ rpc' = << >>
    /\ sent' = << >> /\ decoded' = << >> /\ owed' = << >>

StreamNext ==
    \/ \E cells \in Writings : ClientWrites(cells)
    \/ \E n \in 1..ReadBytes : Receive(n)
    \/ ReceiveEnds
    \/ PushByte
    \/ InputUsed
    \/ \E n \in 1..(HeaderSize + MaxPayload) : Write(n)
    \/ Written
    \/ WriteFails
    \/ SendChunk
    \/ ChunksEnd
    \/ NextClient

StreamSpec == StreamInit /\ [][StreamNext]_streamVars

-----------------------------------------------------------------------------
(* Properties *)

\* The message decoder has room for the next byte and waits for a message
\* that fits: its buffer of a header and the largest payload never fills.
ParserFits ==
    /\ Len(parser.bytes) < HeaderSize + MaxPayload
    /\ parser.expected <= HeaderSize + MaxPayload
    /\ Len(parser.bytes) < HeaderSize => parser.expected = 0
    /\ Len(parser.bytes) >= HeaderSize => Len(parser.bytes) < parser.expected

\* However the client's bytes are cut: the messages decoded, the raw bytes
\* passed on, what the decoder holds, the unread input and the socket are, in
\* this order, exactly what the client wrote.
EveryByteCounts ==
    place \notin {"refuse", "done"} =>
        decoded \o rpc \o parser.bytes \o Remaining \o socket = sent

\* However send cuts them: what the client was sent and what is left to send
\* are the responses to its messages, each whole and in order.
AnswersAreWhole ==
    /\ answers \o output = owed
    /\ place \in {"recv", "push", "proxy", "chunk"} => output = << >>
=============================================================================
