----------------------- MODULE ManagementStreamProofs -----------------------
(***************************************************************************)
(* The byte path of a connection for every payload limit, every size of    *)
(* the receive buffer and of the chunks, and whatever the client writes:   *)
(* no byte is lost, doubled or reordered on the way in, no response is     *)
(* torn on the way out, and the decoder's buffer never fills.              *)
(***************************************************************************)
EXTENDS ManagementStream, SequenceTheorems, TLAPS

Cells == Seq(Nat)

Message == [command : Nat, status : Nat, payload : Cells]

-----------------------------------------------------------------------------
(* Sequences *)

\* What concatenation does to sequences of bytes.
LEMMA Joining ==
    /\ \A a, b \in Cells : a \o b \in Cells
    /\ \A a, b, c \in Cells : (a \o b) \o c = a \o (b \o c)
    /\ \A a \in Cells : a \o << >> = a /\ << >> \o a = a
    /\ << >> \in Cells
  BY ConcatProperties, ConcatAssociative, ConcatEmptySeq, SMTT(60) DEF Cells

\* A sequence is its first k elements and the rest.
LEMMA Splitting ==
    ASSUME NEW s \in Cells, NEW k \in 0..Len(s)
    PROVE  /\ SubSeq(s, 1, k) \in Cells
           /\ SubSeq(s, k + 1, Len(s)) \in Cells
           /\ SubSeq(s, 1, k) \o SubSeq(s, k + 1, Len(s)) = s
           /\ Len(SubSeq(s, 1, k)) = k
<1>1. Len(s) \in Nat /\ k \in Nat /\ s \in Seq(Nat)
  BY DEF Cells
<1>2. SubSeq(s, 1, k) \in Cells /\ Len(SubSeq(s, 1, k)) = k
  <2>1. \A i \in 1..k : s[i] \in Nat
    BY <1>1
  <2>2. QED
    BY <1>1, <2>1, SubSeqProperties DEF Cells
<1>3. SubSeq(s, k + 1, Len(s)) \in Cells
  <2>1. \A i \in (k + 1)..Len(s) : s[i] \in Nat
    BY <1>1
  <2>2. QED
    BY <1>1, <2>1, SubSeqProperties DEF Cells
<1>4. SubSeq(s, 1, k) \o SubSeq(s, k + 1, Len(s)) = SubSeq(s, 1, Len(s))
  <2>1. 1 \in 1..(Len(s) + 1) /\ k \in (1 - 1)..Len(s) /\ Len(s) \in k..Len(s)
    BY <1>1
  <2>2. QED
    BY <1>1, <2>1, ConcatAdjacentSubSeq
<1>5. SubSeq(s, 1, Len(s)) = s
  BY <1>1, SubSeqFull
<1>6. QED
  BY <1>2, <1>3, <1>4, <1>5

\* What is left after k elements begins with the next one.
LEMMA NextCell ==
    ASSUME NEW s \in Cells, NEW k \in Nat, k < Len(s)
    PROVE  /\ s[k + 1] \in Nat
           /\ SubSeq(s, k + 1, Len(s)) = << s[k + 1] >> \o SubSeq(s, (k + 1) + 1, Len(s))
<1>1. s \in Seq(Nat) /\ Len(s) \in Nat /\ k + 1 \in 1..Len(s) /\ Len(s) \in (k + 1)..Len(s)
  BY DEF Cells
<1>2. QED
  BY <1>1, SubSeqRecursiveFirst

\* What is left after k elements is its first n and what is left after k + n.
LEMMA NextCells ==
    ASSUME NEW s \in Cells, NEW k \in Nat, k < Len(s),
           NEW n \in 1..(Len(s) - k)
    PROVE  LET r == SubSeq(s, k + 1, Len(s)) IN
             r = SubSeq(r, 1, n) \o SubSeq(s, (k + n) + 1, Len(s))
<1> DEFINE r == SubSeq(s, k + 1, Len(s))
<1>1. s \in Seq(Nat) /\ Len(s) \in Nat /\ n \in Nat
  BY DEF Cells
<1>2. SubSeq(r, 1, n) = SubSeq(s, k + 1, k + n)
  <2>1. k + 1 \in 1..Len(s) /\ Len(s) \in 1..Len(s)
        /\ 1 \in 1..(Len(s) - (k + 1) + 1) /\ n \in 1..(Len(s) - (k + 1) + 1)
    BY <1>1
  <2>2. SubSeq(r, 1, n) = SubSeq(s, (k + 1) + 1 - 1, (k + 1) + n - 1)
    BY <1>1, <2>1, SubSeqOfSubSeq
  <2>3. (k + 1) + 1 - 1 = k + 1 /\ (k + 1) + n - 1 = k + n
    BY <1>1
  <2>4. QED
    BY <2>2, <2>3, Zenon
<1>3. SubSeq(s, k + 1, k + n) \o SubSeq(s, (k + n) + 1, Len(s)) = r
  <2>1. k + 1 \in 1..(Len(s) + 1) /\ k + n \in ((k + 1) - 1)..Len(s)
        /\ Len(s) \in (k + n)..Len(s)
    BY <1>1
  <2>2. QED
    BY <1>1, <2>1, ConcatAdjacentSubSeq
<1>4. QED
  BY <1>2, <1>3, Zenon

\* What appending one byte does.
LEMMA Extending ==
    ASSUME NEW s \in Cells, NEW c \in Nat
    PROVE  /\ Append(s, c) \in Cells
           /\ Append(s, c) = s \o <<c>>
           /\ Len(Append(s, c)) = Len(s) + 1
           /\ \A i \in 1..Len(s) : Append(s, c)[i] = s[i]
           /\ Append(s, c)[Len(s) + 1] = c
           /\ <<c>> \in Cells
  BY AppendProperties, AppendIsConcat DEF Cells

\* Concatenation as a symbol of its own, for which only these laws hold.
Join(a, b) == a \o b

\* The laws of Joining, for the symbol.
LEMMA JoinLaws ==
    /\ \A a, b \in Cells : Join(a, b) \in Cells
    /\ \A a, b, c \in Cells : Join(Join(a, b), c) = Join(a, Join(b, c))
    /\ \A a \in Cells : Join(a, << >>) = a
  BY Joining DEF Join

\* How each step regroups the bytes of EveryByteCounts.
LEMMA RegroupWrite ==
    ASSUME NEW a \in Cells, NEW s \in Cells, NEW x \in Cells
    PROVE  (a \o s) \o x = a \o (s \o x)
  BY Joining

\* PushByte moves x from the rest of the input to the parser.
LEMMA RegroupPush ==
    ASSUME NEW a \in Cells, NEW p \in Cells, NEW x \in Cells, NEW r \in Cells
    PROVE  (a \o p) \o (x \o r) = (a \o (p \o x)) \o r
<1>1. Join(Join(a, p), Join(x, r)) = Join(Join(a, Join(p, x)), r)
  BY JoinLaws, SMT
<1>2. QED
  BY <1>1, Zenon DEF Join

\* Receive moves x from the socket to an input that was used up.
LEMMA RegroupReceive ==
    ASSUME NEW a \in Cells, NEW x \in Cells, NEW s \in Cells
    PROVE  (a \o << >>) \o (x \o s) = (a \o x) \o s
<1>1. a \o << >> = a
  BY Joining
<1>2. (a \o x) \o s = a \o (x \o s)
  BY Joining
<1>3. QED
  BY <1>1, <1>2, Zenon

-----------------------------------------------------------------------------
(* Messages *)

\* Any command, status and payload make a message.
LEMMA RecordsAreMessages ==
    \A x, y \in Nat, z \in Cells :
        [command |-> x, status |-> y, payload |-> z] \in Message
  BY DEF Message

\* The message read from a whole buffer is encoded by the same bytes.
LEMMA MessagesRoundTrip ==
    ASSUME NEW b \in Cells, b[1] = Magic, Len(b) >= HeaderSize,
           Len(b) = HeaderSize + b[4],
           NEW m, m = [command |-> b[2], status |-> b[3],
                       payload |-> SubSeq(b, HeaderSize + 1, Len(b))]
    PROVE  m \in Message /\ EncodeMessage(m) = b
<1> USE DEF HeaderSize, Magic
<1>1. b \in Seq(Nat) /\ Len(b) \in Nat
  BY DEF Cells
<1>2. 4 \in 0..Len(b) /\ b[2] \in Nat /\ b[3] \in Nat /\ b[4] \in Nat
  <2>1. \A k \in Nat : k >= 4 => 4 \in 0..k /\ 2 \in 1..k /\ 3 \in 1..k /\ 4 \in 1..k
    OBVIOUS
  <2>2. \A i \in 1..Len(b) : b[i] \in Nat
    BY <1>1, ElementOfSeq, Zenon
  <2>3. QED
    BY <1>1, <2>1, <2>2, ZenonT(60)
<1> DEFINE p == SubSeq(b, 4 + 1, Len(b))
           h == SubSeq(b, 1, 4)
<1>3. /\ p \in Cells
      /\ h \in Cells
      /\ h \o p = b
      /\ Len(h) = 4
  BY <1>2, Splitting, ZenonT(60)
<1>4. m = [command |-> b[2], status |-> b[3], payload |-> p]
  OBVIOUS
<1>5. Len(p) = b[4]
  <2> HIDE DEF p, h
  <2>1. Len(b) = Len(h) + Len(p)
    BY <1>3, ConcatProperties, ZenonT(60) DEF Cells
  <2>2. Len(p) \in Nat
    BY <1>3 DEF Cells
  <2>3. QED
    BY <1>2, <1>3, <2>1, <2>2
<1>6. h = <<b[1], b[2], b[3], b[4]>>
  <2> DEFINE t == <<b[1], b[2], b[3], b[4]>>
  <2>1. \A i \in 1..4 : h[i] = b[i]
    BY <1>1, <1>2
  <2>2. t \in Seq(Nat) /\ Len(t) = 4 /\ \A i \in 1..4 : t[i] = b[i]
    BY <1>2
  <2> HIDE DEF h, t
  <2>3. h = t
    <3>1. h \in Seq(Nat) /\ Len(h) = Len(t) /\ \A i \in 1..Len(h) : h[i] = t[i]
      BY <1>3, <2>1, <2>2, Zenon DEF Cells
    <3>2. QED
      BY <2>2, <3>1, SeqEqual, Zenon
  <2>4. QED
    BY <2>3 DEF t
<1> HIDE DEF p, h
<1>7. m.command = b[2] /\ m.status = b[3] /\ m.payload = p
  BY <1>4
<1>8. EncodeMessage(m) = h \o p
  BY <1>5, <1>6, <1>7, Zenon DEF EncodeMessage
<1>9. m \in Message
  <2>1. b[2] \in Nat /\ b[3] \in Nat /\ p \in Cells
    BY <1>2, <1>3, Zenon
  <2>2. [command |-> b[2], status |-> b[3], payload |-> p] \in Message
    BY <2>1, RecordsAreMessages
  <2>3. QED
    BY <1>4, <2>2, Zenon
<1>10. QED
  BY <1>3, <1>8, <1>9

\* The encoding of a message is a sequence of bytes.
LEMMA EncodingTyped ==
    ASSUME NEW m \in Message
    PROVE  EncodeMessage(m) \in Cells
<1>1. m.command \in Nat /\ m.status \in Nat /\ m.payload \in Cells
  BY DEF Message
<1>2. <<Magic, m.command, m.status, Len(m.payload)>> \in Cells
  BY <1>1 DEF Cells, Magic
<1>3. QED
  BY <1>1, <1>2, Joining DEF EncodeMessage

\* The answer to a message is a message.
LEMMA ResponsesTyped ==
    ASSUME NEW m \in Message, NEW linkReady \in BOOLEAN
    PROVE  Response(m, Answer(m, linkReady)) \in Message
<1>1. m.command \in Nat /\ m.status \in Nat /\ m.payload \in Cells
  BY DEF Message
<1>2. Answer(m, linkReady) \in {Ok, Malformed, Unavailable, InvalidState}
  BY <1>1, Zenon DEF Answer
<1>3. Answer(m, linkReady) \in Nat
  BY <1>2 DEF Ok, Malformed, Unavailable, InvalidState
<1>4. <<Magic>> \in Cells /\ << >> \in Cells
  BY DEF Magic, Cells
<1>5. \A status : ResponsePayload(m, status) \in {m.payload, <<Magic>>, << >>}
  BY Zenon DEF ResponsePayload
<1>6. ResponsePayload(m, Answer(m, linkReady)) \in Cells
  BY <1>1, <1>4, <1>5, Zenon
<1>7. QED
  BY <1>1, <1>3, <1>6 DEF Message, Response

\* The answer to what could not be read is a message.
LEMMA RefusalsTyped ==
    ASSUME NEW status \in Nat
    PROVE  Refusal(status) \in Message
  BY Joining DEF Refusal, Message, Hello

-----------------------------------------------------------------------------
(* The invariant *)

StreamTyped ==
    /\ socket \in Cells /\ input \in Cells /\ output \in Cells /\ answers \in Cells
    /\ rpc \in Cells /\ sent \in Cells /\ decoded \in Cells /\ owed \in Cells
    /\ offset \in 0..Len(input)
    /\ parser \in [bytes : Cells, expected : Nat]

\* A buffer longer than a header has passed the header's checks.
ParserInv ==
    /\ Len(parser.bytes) < HeaderSize => parser.expected = 0
    /\ Len(parser.bytes) >= HeaderSize =>
         /\ parser.bytes[1] = Magic
         /\ parser.bytes[4] <= MaxPayload
         /\ parser.expected = HeaderSize + parser.bytes[4]
         /\ Len(parser.bytes) < parser.expected

\* What is empty at each place of client_task.
PlaceInv ==
    /\ place \in {"recv", "push", "write", "begin", "refuse", "chunk", "proxy", "done"}
    /\ place \in {"recv", "push", "proxy", "chunk"} => output = << >>
    /\ place \in {"recv", "push", "write", "begin"} => rpc = << >>
    /\ place \in {"write", "begin", "refuse", "chunk", "proxy"} => parser = EmptyParser
    /\ place \in {"recv", "proxy"} => offset = Len(input)

StreamInv == StreamTyped /\ ParserInv /\ PlaceInv /\ EveryByteCounts /\ AnswersAreWhole

USE StreamSizesAssumption, WritingsAssumption

\* The invariant holds at first.
LEMMA InitialStream == StreamInit => StreamInv
<1> SUFFICES ASSUME StreamInit PROVE StreamInv
  OBVIOUS
<1>1. StreamTyped /\ ParserInv /\ PlaceInv
  BY Joining DEF StreamInit, StreamTyped, ParserInv, PlaceInv, EmptyParser, HeaderSize
<1>2. Remaining = << >>
  BY DEF StreamInit, Remaining
<1>3. EveryByteCounts /\ AnswersAreWhole
  BY <1>2, Joining DEF StreamInit, EveryByteCounts, AnswersAreWhole, EmptyParser
<1>4. QED
  BY <1>1, <1>3 DEF StreamInv

\* What is left of the input is a sequence of bytes.
LEMMA RemainingTyped == StreamTyped => Remaining \in Cells
<1> SUFFICES ASSUME StreamTyped PROVE Remaining \in Cells
  OBVIOUS
<1>2. input \in Cells /\ offset \in 0..Len(input)
  BY DEF StreamTyped
<1>3. SubSeq(input, offset + 1, Len(input)) \in Cells
  BY <1>2, Splitting
<1>4. QED
  BY <1>3 DEF Remaining

\* Steps that move only the place, to one where the same things are empty.
LEMMA QuietStep ==
    ASSUME StreamInv, PlaceInv',
           UNCHANGED <<socket, input, offset, parser, output, answers, rpc, sent, decoded, owed>>,
           place \in {"refuse", "done"} => place' = "done"
    PROVE  StreamInv'
<1>1. StreamTyped' /\ ParserInv'
  BY DEF StreamInv, StreamTyped, ParserInv
<1>2. Remaining' = Remaining
  BY DEF Remaining
<1>3. EveryByteCounts'
  BY <1>2 DEF StreamInv, EveryByteCounts
<1>4. AnswersAreWhole'
  BY DEF StreamInv, AnswersAreWhole, PlaceInv
<1>5. QED
  BY <1>1, <1>3, <1>4 DEF StreamInv

\* The invariant survives what the client writes,
LEMMA WritesKeep ==
    ASSUME StreamInv, NEW cells \in Writings, ClientWrites(cells)
    PROVE  StreamInv'
<1>1. cells \in Cells
  BY DEF Cells
<1>2. StreamTyped'
  BY <1>1, Joining DEF ClientWrites, StreamInv, StreamTyped
<1>3. ParserInv' /\ PlaceInv' /\ AnswersAreWhole'
  BY DEF ClientWrites, StreamInv, ParserInv, PlaceInv, AnswersAreWhole
<1>4. EveryByteCounts'
  <2>1. SUFFICES ASSUME place \notin {"refuse", "done"}
                 PROVE  decoded \o rpc \o parser.bytes \o Remaining \o (socket \o cells)
                          = sent \o cells
    BY DEF ClientWrites, EveryByteCounts, Remaining
  <2>2. decoded \o rpc \o parser.bytes \o Remaining \o socket = sent
    BY <2>1 DEF StreamInv, EveryByteCounts
  <2> DEFINE a == decoded \o rpc \o parser.bytes \o Remaining
  <2>3. a \in Cells /\ socket \in Cells
    BY RemainingTyped, Joining DEF StreamInv, StreamTyped
  <2> HIDE DEF a
  <2>4. (a \o socket) \o cells = a \o (socket \o cells)
    BY <1>1, <2>3, RegroupWrite
  <2>5. QED
    BY <2>2, <2>4 DEF a
<1>5. QED
  BY <1>2, <1>3, <1>4 DEF StreamInv

\* a read from the socket, of any length,
LEMMA ReceiveKeeps ==
    ASSUME StreamInv, NEW n \in 1..ReadBytes, Receive(n)
    PROVE  StreamInv'
<1>1. /\ socket \in Cells /\ n \in 0..Len(socket)
      /\ decoded \in Cells /\ rpc \in Cells /\ parser.bytes \in Cells /\ input \in Cells
  <2>1. socket \in Seq(Nat) /\ n \in Nat /\ n <= Len(socket)
    BY DEF Receive, StreamInv, StreamTyped, Cells
  <2>2. QED
    BY <2>1 DEF StreamInv, StreamTyped
<1>2. /\ input' \in Cells /\ socket' \in Cells
      /\ input' \o socket' = socket
  BY <1>1, Splitting DEF Receive
<1>3. offset' = 0 /\ Len(input') \in Nat
  BY <1>2 DEF Receive, Cells
<1>4. StreamTyped'
  BY <1>2, <1>3 DEF Receive, StreamInv, StreamTyped
<1>5. ParserInv' /\ PlaceInv' /\ AnswersAreWhole'
  BY DEF Receive, StreamInv, ParserInv, PlaceInv, AnswersAreWhole
<1>6. EveryByteCounts'
  <2>1. Remaining = << >>
    <3>1. offset = Len(input) /\ Len(input) \in Nat
      BY <1>1 DEF Receive, StreamInv, PlaceInv, Cells
    <3>2. QED
      BY <3>1, SubSeqEmpty DEF Remaining
  <2>2. Remaining' = input'
    <3>1. SubSeq(input', 0 + 1, Len(input')) = input'
      BY <1>2, SubSeqFull DEF Cells
    <3>2. QED
      BY <1>3, <3>1 DEF Remaining
  <2> DEFINE a == decoded \o rpc \o parser.bytes
  <2>3. a \o << >> \o socket = sent
    BY <2>1 DEF StreamInv, EveryByteCounts, Receive
  <2>4. a \in Cells
    BY <1>1, Joining
  <2> HIDE DEF a
  <2>5. (a \o << >>) \o (input' \o socket') = (a \o input') \o socket'
    BY <1>2, <2>4, RegroupReceive
  <2>6. (a \o input') \o socket' = sent
    BY <1>2, <2>3, <2>5, Zenon
  <2>7. decoded' = decoded /\ rpc' = rpc /\ parser' = parser /\ sent' = sent
    BY DEF Receive
  <2>8. QED
    BY <2>2, <2>6, <2>7, Zenon DEF EveryByteCounts, a
<1>7. QED
  BY <1>4, <1>5, <1>6 DEF StreamInv

\* a partial write of an answer,
LEMMA WriteKeeps ==
    ASSUME StreamInv, NEW n, Write(n)
    PROVE  StreamInv'
<1>1. output \in Cells /\ answers \in Cells /\ n \in 0..Len(output)
  BY DEF Write, StreamInv, StreamTyped, Cells
<1> DEFINE x == SubSeq(output, 1, n)
           r == SubSeq(output, n + 1, Len(output))
<1>2. x \in Cells /\ r \in Cells /\ x \o r = output
  BY <1>1, Splitting
<1>3. answers' = answers \o x /\ output' = r /\ owed' = owed
  BY DEF Write, WriteRest
<1> HIDE DEF x, r
<1>4. StreamTyped'
  <2>1. answers' \in Cells /\ output' \in Cells
    BY <1>1, <1>2, <1>3, Joining
  <2>2. QED
    BY <2>1 DEF Write, StreamInv, StreamTyped
<1>5. ParserInv' /\ PlaceInv'
  BY DEF Write, StreamInv, ParserInv, PlaceInv
<1>6. EveryByteCounts'
  BY DEF Write, StreamInv, EveryByteCounts, Remaining
<1>7. AnswersAreWhole'
  <2>1. answers \o output = owed
    BY DEF StreamInv, AnswersAreWhole
  <2>2. (answers \o x) \o r = answers \o (x \o r)
    BY <1>1, <1>2, RegroupWrite
  <2>3. answers' \o output' = owed'
    BY <1>2, <1>3, <2>1, <2>2, Zenon
  <2>4. place' = place /\ place \in {"write", "begin", "refuse"}
    BY DEF Write
  <2>5. QED
    BY <2>3, <2>4 DEF AnswersAreWhole
<1>8. QED
  BY <1>4, <1>5, <1>6, <1>7 DEF StreamInv

\* a chunk of raw bytes on its way to the link
LEMMA ChunkKeeps ==
    ASSUME StreamInv, SendChunk
    PROVE  StreamInv'
<1>1. /\ input \in Cells /\ Len(input) \in Nat /\ offset \in Nat /\ offset < Len(input)
      /\ decoded \in Cells /\ rpc \in Cells /\ Remaining \in Cells /\ socket \in Cells
  BY RemainingTyped DEF SendChunk, AfterChunk, StreamInv, StreamTyped, Cells
<1>2. Len(Remaining) = Len(input) - offset
  <2>1. \A i \in (offset + 1)..Len(input) : input[i] \in Nat
    BY <1>1 DEF Cells
  <2>2. QED
    BY <1>1, <2>1, SubSeqProperties DEF Remaining
<1>3. PICK n \in 1..(Len(input) - offset) :
         rpc' = rpc \o SubSeq(Remaining, 1, n) /\ offset' = offset + n
  <2> DEFINE k == IF Len(Remaining) < ChunkBytes THEN Len(Remaining) ELSE ChunkBytes
  <2>1. rpc' = rpc \o SubSeq(Remaining, 1, k) /\ offset' = offset + k
    BY Zenon DEF SendChunk, AfterChunk
  <2>2. k \in 1..(Len(input) - offset)
    BY <1>1, <1>2
  <2> HIDE DEF k
  <2>3. QED
    BY <2>1, <2>2
<1> DEFINE x == SubSeq(Remaining, 1, n)
           r == SubSeq(input, (offset + n) + 1, Len(input))
<1>4. x \in Cells
  <2>1. n \in 0..Len(Remaining)
    BY <1>1, <1>2
  <2>2. QED
    BY <1>1, <2>1, Splitting
<1>5. Remaining = x \o r
  BY <1>1, NextCells DEF Remaining
<1>6. r \in Cells
  <2>1. offset + n \in 0..Len(input)
    BY <1>1
  <2>2. QED
    BY <1>1, <2>1, Splitting
<1>7. Remaining' = r
  BY <1>3 DEF SendChunk, AfterChunk, Remaining
<1>8. rpc' = rpc \o x /\ parser' = parser /\ parser = EmptyParser /\ decoded' = decoded
      /\ socket' = socket /\ sent' = sent /\ place = "chunk" /\ place' = place
  BY <1>3 DEF SendChunk, AfterChunk, StreamInv, PlaceInv
<1> HIDE DEF x, r
<1>9. StreamTyped'
  <2>1. rpc' \in Cells
    BY <1>1, <1>4, <1>8, Joining
  <2>2. offset' \in 0..Len(input')
    BY <1>1, <1>3 DEF SendChunk, AfterChunk
  <2>3. QED
    BY <2>1, <2>2 DEF SendChunk, AfterChunk, StreamInv, StreamTyped
<1>10. ParserInv' /\ PlaceInv' /\ AnswersAreWhole'
  BY DEF SendChunk, AfterChunk, StreamInv, ParserInv, PlaceInv, AnswersAreWhole
<1>11. EveryByteCounts'
  <2>1. decoded \o rpc \o << >> \o Remaining \o socket = sent
    BY <1>8 DEF StreamInv, EveryByteCounts, EmptyParser
  <2>2. decoded \o rpc \in Cells /\ rpc \o x \in Cells /\ decoded \o (rpc \o x) \in Cells
    BY <1>1, <1>4, Joining
  <2>3. (decoded \o rpc) \o << >> = decoded \o rpc
        /\ (decoded \o (rpc \o x)) \o << >> = decoded \o (rpc \o x)
    BY <2>2, Joining
  <2>4. (decoded \o rpc) \o (x \o r) = (decoded \o (rpc \o x)) \o r
    <3>1. decoded \in Cells /\ rpc \in Cells /\ x \in Cells /\ r \in Cells
      BY <1>1, <1>4, <1>6, Zenon
    <3>2. Join(Join(decoded, rpc), Join(x, r)) = Join(Join(decoded, Join(rpc, x)), r)
      BY <3>1, JoinLaws, SMT
    <3>3. QED
      BY <3>2, Zenon DEF Join
  <2>5. decoded \o (rpc \o x) \o << >> \o r \o socket = sent
    BY <1>5, <2>1, <2>3, <2>4, Zenon
  <2>6. parser'.bytes = << >>
    BY <1>8 DEF EmptyParser
  <2>7. QED
    BY <1>7, <1>8, <2>5, <2>6, Zenon DEF EveryByteCounts
<1>12. QED
  BY <1>9, <1>10, <1>11 DEF StreamInv

\* The response, if it can be encoded, is the next of the responses owed.
LEMMA RespondKeeps ==
    ASSUME StreamInv, place = "push", NEW m \in Message, NEW next, Respond(m, next),
           answers' = answers, next \in {"write", "begin", "refuse"}
    PROVE  /\ output' \in Cells /\ owed' \in Cells
           /\ AnswersAreWhole'
           /\ place' \in {next, "done"}
<1>1. output = << >> /\ answers \in Cells /\ owed \in Cells /\ answers \o output = owed
  BY DEF StreamInv, StreamTyped, PlaceInv, AnswersAreWhole
<1>2. CASE EncodableMessage(m)
  <2> DEFINE e == EncodeMessage(m)
  <2>1. e \in Cells
    BY EncodingTyped
  <2>2. output' = e /\ owed' = owed \o e /\ place' = next
    BY <1>2 DEF Respond
  <2> HIDE DEF e
  <2>3. owed = answers
    BY <1>1, Joining
  <2>4. answers' \o output' = owed'
    BY <2>2, <2>3
  <2>5. QED
    BY <1>1, <2>1, <2>2, <2>4, Joining DEF AnswersAreWhole
<1>3. CASE ~EncodableMessage(m)
  <2>1. output' = output /\ owed' = owed /\ place' = "done"
    BY <1>3 DEF Respond
  <2>2. answers' \o output' = owed'
    BY <1>1, <2>1, Zenon
  <2>3. QED
    BY <1>1, <2>1, <2>2, Joining DEF AnswersAreWhole
<1>4. QED
  BY <1>2, <1>3

\* A byte is taken off the input.
LEMMA ByteTaken ==
    ASSUME StreamTyped, offset < Len(input)
    PROVE  LET c == input[offset + 1]
               r == SubSeq(input, (offset + 1) + 1, Len(input)) IN
           /\ c \in Nat /\ r \in Cells
           /\ Remaining = <<c>> \o r
           /\ offset + 1 \in 0..Len(input)
           /\ Append(parser.bytes, c) \in Cells
           /\ Append(parser.bytes, c) = parser.bytes \o <<c>>
           /\ Len(Append(parser.bytes, c)) = Len(parser.bytes) + 1
           /\ \A i \in 1..Len(parser.bytes) : Append(parser.bytes, c)[i] = parser.bytes[i]
           /\ Append(parser.bytes, c)[Len(parser.bytes) + 1] = c
           /\ <<c>> \in Cells
<1>1. /\ input \in Cells /\ Len(input) \in Nat /\ offset \in Nat
      /\ parser.bytes \in Cells
  BY DEF StreamTyped, Cells
<1>2. offset + 1 \in 0..Len(input)
  BY <1>1
<1>3. input[offset + 1] \in Nat
      /\ Remaining = << input[offset + 1] >> \o SubSeq(input, (offset + 1) + 1, Len(input))
  BY <1>1, NextCell DEF Remaining
<1>4. SubSeq(input, (offset + 1) + 1, Len(input)) \in Cells
  BY <1>1, <1>2, Splitting
<1> DEFINE c == input[offset + 1]
<1>5. c \in Nat
  BY <1>3
<1> HIDE DEF c
<1>6. /\ Append(parser.bytes, c) \in Cells
      /\ Append(parser.bytes, c) = parser.bytes \o <<c>>
      /\ Len(Append(parser.bytes, c)) = Len(parser.bytes) + 1
      /\ \A i \in 1..Len(parser.bytes) : Append(parser.bytes, c)[i] = parser.bytes[i]
      /\ Append(parser.bytes, c)[Len(parser.bytes) + 1] = c
      /\ <<c>> \in Cells
  BY <1>1, <1>5, Extending
<1>7. QED
  BY <1>2, <1>3, <1>4, <1>6, Zenon DEF c

\* The header checks have been passed by every buffer of a header or more.
LEMMA HeaderPassed ==
    ASSUME StreamTyped, ParserInv, NEW b \in Cells, NEW c \in Nat,
           Len(b) = Len(parser.bytes) + 1,
           \A i \in 1..Len(parser.bytes) : b[i] = parser.bytes[i],
           Len(b) = HeaderSize => HeaderVerdict(b) = "Good",
           NEW expected,
           expected = IF Len(b) = HeaderSize THEN HeaderSize + b[4] ELSE parser.expected
    PROVE  /\ expected \in Nat
           /\ Len(b) < HeaderSize => expected = 0
           /\ Len(b) >= HeaderSize =>
                /\ b[1] = Magic /\ b[4] <= MaxPayload
                /\ expected = HeaderSize + b[4]
                /\ Len(b) <= expected
<1> DEFINE pb == parser.bytes
<1>1. pb \in Seq(Nat) /\ b \in Seq(Nat) /\ Len(pb) \in Nat /\ parser.expected \in Nat
  BY DEF StreamTyped, Cells
<1> USE DEF HeaderSize, Magic
<1>2. CASE Len(b) < 4
  <2>1. Len(pb) < 4 /\ Len(b) # 4
    BY <1>1, <1>2
  <2>2. expected = 0
    BY <2>1 DEF ParserInv
  <2>3. QED
    BY <1>1, <1>2, <2>2
<1>3. CASE Len(b) = 4
  <2>1. HeaderVerdict(b) = "Good" /\ expected = 4 + b[4]
    BY <1>3
  <2>2. b[1] = 70 /\ ~(b[4] > MaxPayload)
    BY <2>1 DEF HeaderVerdict
  <2>3. b[4] \in Nat
    <3>1. 4 \in 1..4
      OBVIOUS
    <3>2. QED
      BY <1>1, <1>3, <3>1, ElementOfSeq, Zenon
  <2>4. b[4] <= MaxPayload
    BY <2>2, <2>3
  <2>5. \A k \in Nat : 4 + k \in Nat /\ 4 <= 4 + k /\ ~(4 < 4)
    OBVIOUS
  <2>6. expected \in Nat /\ Len(b) <= expected /\ ~(Len(b) < 4)
    BY <1>3, <2>1, <2>3, <2>5, Zenon
  <2>7. QED
    BY <2>1, <2>2, <2>4, <2>6, Zenon
<1>4. CASE Len(b) > 4
  <2>1. Len(pb) >= 4 /\ Len(b) # 4
    BY <1>1, <1>4
  <2>2. 1 \in 1..Len(pb) /\ 4 \in 1..Len(pb)
    BY <1>1, <2>1
  <2>3. b[1] = pb[1] /\ b[4] = pb[4] /\ pb[4] \in Nat
    BY <1>1, <2>2, SMTT(60)
  <2>4. /\ pb[1] = 70 /\ pb[4] <= MaxPayload /\ parser.expected = 4 + pb[4]
        /\ Len(pb) < parser.expected
    BY <2>1 DEF ParserInv
  <2>5. expected = parser.expected
    BY <2>1
  <2>6. Len(b) <= expected /\ Len(b) >= 4
    <3>1. \A k, e \in Nat : k >= 4 /\ k < e => k + 1 <= e /\ k + 1 >= 4
      OBVIOUS
    <3>2. QED
      <4>1. Len(pb) \in Nat /\ parser.expected \in Nat /\ Len(pb) >= 4
            /\ Len(pb) < parser.expected
        BY <1>1, <2>1, <2>4, Zenon
      <4>2. Len(pb) + 1 <= parser.expected /\ Len(pb) + 1 >= 4
        BY <3>1, <4>1, Zenon
      <4>3. QED
        BY <2>5, <4>2, Zenon
  <2>7. QED
    BY <1>1, <1>4, <2>3, <2>4, <2>5, <2>6
<1>5. QED
  BY <1>1, <1>2, <1>3, <1>4

\* and a byte pushed to the parser, whatever the parser makes of it.
LEMMA PushKeeps ==
    ASSUME StreamInv, PushByte
    PROVE  StreamInv'
<1> DEFINE c == input[offset + 1]
           r == SubSeq(input, (offset + 1) + 1, Len(input))
           b == Append(parser.bytes, c)
           verdict == IF Len(b) = HeaderSize THEN HeaderVerdict(b) ELSE "Good"
           expected == IF Len(b) = HeaderSize THEN HeaderSize + b[4] ELSE parser.expected
           m == [command |-> b[2], status |-> b[3],
                 payload |-> SubSeq(b, HeaderSize + 1, Len(b))]
<1>1. /\ place = "push" /\ offset < Len(input) /\ StreamTyped /\ ParserInv
      /\ rpc = << >> /\ output = << >>
      /\ UNCHANGED <<socket, written, input, answers, rpc, sent>>
  BY DEF PushByte, StreamInv, PlaceInv
<1>2. /\ c \in Nat /\ r \in Cells
      /\ Remaining = <<c>> \o r
      /\ offset + 1 \in 0..Len(input)
      /\ b \in Cells
      /\ b = parser.bytes \o <<c>>
      /\ Len(b) = Len(parser.bytes) + 1
      /\ \A i \in 1..Len(parser.bytes) : b[i] = parser.bytes[i]
      /\ <<c>> \in Cells
  BY <1>1, ByteTaken, Zenon
<1>3. \/ \E status \in Nat : PushRefused(status)
      \/ verdict = "Good" /\ expected > 0 /\ Len(b) = expected /\ PushReady(m)
      \/ /\ verdict = "Good" /\ ~(expected > 0 /\ Len(b) = expected)
         /\ offset' = offset + 1
         /\ parser' = [bytes |-> b, expected |-> expected]
         /\ UNCHANGED <<place, output, decoded, owed>>
  <2>1. TooLarge \in Nat /\ Malformed \in Nat
    BY DEF TooLarge, Malformed
  <2>2. verdict \in {"Good", "Malformed", "TooLarge"}
    BY DEF HeaderVerdict
  <2>3. IF Len(parser.bytes) >= HeaderSize + MaxPayload THEN PushRefused(TooLarge)
        ELSE IF verdict = "Malformed" THEN PushRefused(Malformed)
        ELSE IF verdict = "TooLarge" THEN PushRefused(TooLarge)
        ELSE IF expected > 0 /\ Len(b) = expected THEN PushReady(m)
        ELSE /\ offset' = offset + 1
             /\ parser' = [bytes |-> b, expected |-> expected]
             /\ UNCHANGED <<place, output, decoded, owed>>
    BY DEF PushByte
  <2> HIDE DEF verdict, expected, b, m
  <2>4. QED
    BY <2>1, <2>2, <2>3, Zenon
<1>4. /\ verdict = "Good" => (Len(b) = HeaderSize => HeaderVerdict(b) = "Good")
      /\ expected = IF Len(b) = HeaderSize THEN HeaderSize + b[4] ELSE parser.expected
      /\ m = [command |-> b[2], status |-> b[3],
              payload |-> SubSeq(b, HeaderSize + 1, Len(b))]
  BY Zenon
<1>5. offset' = offset + 1 => Remaining' = r
  BY <1>1 DEF Remaining
<1> HIDE DEF c, r, b, verdict, expected, m
<1>6. ASSUME verdict = "Good"
      PROVE  /\ expected \in Nat
             /\ Len(b) < HeaderSize => expected = 0
             /\ Len(b) >= HeaderSize =>
                  /\ b[1] = Magic /\ b[4] <= MaxPayload
                  /\ expected = HeaderSize + b[4]
                  /\ Len(b) <= expected
  BY <1>1, <1>2, <1>4, <1>6, HeaderPassed
<1>7. decoded \o << >> \o parser.bytes \o (<<c>> \o r) \o socket = sent
  BY <1>1, <1>2 DEF StreamInv, EveryByteCounts
<1>8. /\ decoded \in Cells /\ parser.bytes \in Cells /\ <<c>> \in Cells /\ r \in Cells
      /\ socket \in Cells /\ decoded \o << >> = decoded
  <2>1. decoded \in Cells /\ parser.bytes \in Cells /\ socket \in Cells
    BY <1>1 DEF StreamTyped
  <2>2. QED
    BY <1>2, <2>1, Joining, Zenon
<1>9. (decoded \o b) \o r \o socket = sent
  <2>1. Join(Join(decoded, parser.bytes), Join(<<c>>, r))
          = Join(Join(decoded, Join(parser.bytes, <<c>>)), r)
    <3> DEFINE x == <<c>>
               pb == parser.bytes
    <3>1. decoded \in Cells /\ pb \in Cells /\ x \in Cells /\ r \in Cells
      BY <1>8, Zenon
    <3> HIDE DEF x, pb
    <3>2. Join(Join(decoded, pb), Join(x, r)) = Join(Join(decoded, Join(pb, x)), r)
      BY <3>1, JoinLaws, SMT
    <3>3. QED
      BY <3>2, Zenon DEF x, pb
  <2>2. (decoded \o parser.bytes) \o (<<c>> \o r) = (decoded \o b) \o r
    BY <1>2, <2>1, Zenon DEF Join
  <2>3. QED
    BY <1>7, <1>8, <2>2, Zenon
<1>10. CASE \E status \in Nat : PushRefused(status)
  <2>1. PICK status \in Nat : PushRefused(status)
    BY <1>10
  <2>2. /\ output' \in Cells /\ owed' \in Cells
        /\ AnswersAreWhole' /\ place' \in {"refuse", "done"}
    BY <1>1, <2>1, RefusalsTyped, RespondKeeps DEF PushRefused
  <2>3. offset' = offset + 1 /\ parser' = EmptyParser /\ decoded' = decoded
    BY <2>1 DEF PushRefused
  <2>4. StreamTyped'
    BY <1>1, <1>2, <2>2, <2>3, Joining DEF StreamTyped, EmptyParser
  <2>5. ParserInv'
    BY <2>3 DEF ParserInv, EmptyParser, HeaderSize
  <2>6. PlaceInv' /\ EveryByteCounts'
    BY <2>2, <2>3 DEF PlaceInv, EveryByteCounts
  <2>7. QED
    BY <2>2, <2>4, <2>5, <2>6 DEF StreamInv
<1>11. CASE verdict = "Good" /\ expected > 0 /\ Len(b) = expected /\ PushReady(m)
  <2>1. Len(b) \in Nat
    BY <1>2 DEF Cells
  <2>2. Len(b) >= HeaderSize
    <3>1. \A k \in Nat : k > 0 /\ ~(k >= 4) => k < 4 /\ k # 0
      OBVIOUS
    <3>2. QED
      BY <1>6, <1>11, <2>1, <3>1 DEF HeaderSize
  <2>3. b[1] = Magic /\ Len(b) = HeaderSize + b[4]
    BY <1>6, <1>11, <2>2, Zenon
  <2>4. m \in Message /\ EncodeMessage(m) = b
    BY <1>2, <1>4, <2>2, <2>3, MessagesRoundTrip
  <2>5. PICK linkReady \in BOOLEAN, next \in {"begin", "write"} :
          Respond(Response(m, Answer(m, linkReady)), next)
    <3>1. \E linkReady \in BOOLEAN :
            Respond(Response(m, Answer(m, linkReady)),
                    IF m.command = BeginRpcProxy /\ Answer(m, linkReady) = Ok
                      THEN "begin" ELSE "write")
      BY <1>11, Zenon DEF PushReady
    <3>2. QED
      BY <3>1, Zenon
  <2>6. Response(m, Answer(m, linkReady)) \in Message
    BY <2>4, ResponsesTyped
  <2>7. /\ output' \in Cells /\ owed' \in Cells
        /\ AnswersAreWhole' /\ place' \in {next, "done"}
    BY <1>1, <2>5, <2>6, RespondKeeps
  <2>8. offset' = offset + 1 /\ parser' = EmptyParser /\ decoded' = decoded \o b
    BY <1>11, <2>4 DEF PushReady
  <2>9. decoded' \in Cells
    BY <1>2, <1>8, <2>8, Joining
  <2>10. StreamTyped'
    BY <1>1, <1>2, <2>7, <2>8, <2>9, Joining DEF StreamTyped, EmptyParser
  <2>11. ParserInv'
    BY <2>8 DEF ParserInv, EmptyParser, HeaderSize
  <2>12. PlaceInv'
    BY <1>1, <2>5, <2>7, <2>8 DEF PlaceInv
  <2>13. EveryByteCounts'
    <3>1. decoded' \o << >> = decoded'
      BY <2>9, Joining
    <3>2. decoded' \o r \o socket = sent
      BY <1>9, <2>8, Zenon
    <3>3. parser'.bytes = << >> /\ rpc' = << >> /\ Remaining' = r /\ socket' = socket
          /\ sent' = sent
      BY <1>1, <1>5, <2>8 DEF EmptyParser
    <3>4. QED
      BY <3>1, <3>2, <3>3, Zenon DEF EveryByteCounts
  <2>14. QED
    BY <2>7, <2>10, <2>11, <2>12, <2>13 DEF StreamInv
<1>12. CASE /\ verdict = "Good" /\ ~(expected > 0 /\ Len(b) = expected)
            /\ offset' = offset + 1
            /\ parser' = [bytes |-> b, expected |-> expected]
            /\ UNCHANGED <<place, output, decoded, owed>>
  <2>1. Len(b) \in Nat /\ expected \in Nat
    BY <1>2, <1>6, <1>12 DEF Cells
  <2>2. parser'.bytes = b /\ parser'.expected = expected
        /\ parser' \in [bytes : Cells, expected : Nat]
    BY <1>2, <1>12, <2>1
  <2>3. StreamTyped'
    BY <1>1, <1>2, <1>12, <2>2 DEF StreamTyped
  <2>4. ParserInv'
    <3>1. \A k, e \in Nat : k >= 4 /\ k <= e /\ ~(e > 0 /\ k = e) => k < e
      OBVIOUS
    <3>2. Len(b) >= HeaderSize => Len(b) < expected
      BY <1>6, <1>12, <2>1, <3>1, Zenon DEF HeaderSize
    <3>3. QED
      BY <1>6, <1>12, <2>2, <3>2, Zenon DEF ParserInv
  <2>5. PlaceInv' /\ AnswersAreWhole'
    BY <1>1, <1>12 DEF StreamInv, PlaceInv, AnswersAreWhole
  <2>6. EveryByteCounts'
    <3>1. /\ parser'.bytes = b /\ rpc' = << >> /\ Remaining' = r /\ socket' = socket
          /\ sent' = sent /\ decoded' = decoded
      BY <1>1, <1>5, <1>12, <2>2
    <3>2. decoded \o << >> \o b \o r \o socket = sent
      BY <1>8, <1>9, Zenon
    <3>3. QED
      BY <3>1, <3>2, Zenon DEF EveryByteCounts
  <2>7. QED
    BY <2>3, <2>4, <2>5, <2>6 DEF StreamInv
<1>13. QED
  BY <1>3, <1>10, <1>11, <1>12

\* One step, whatever it is, keeps the invariant.
LEMMA StreamStep == StreamInv /\ [StreamNext]_streamVars => StreamInv'
<1> SUFFICES ASSUME StreamInv, [StreamNext]_streamVars PROVE StreamInv'
  OBVIOUS
<1>1. ASSUME NEW cells \in Writings, ClientWrites(cells) PROVE StreamInv'
  BY <1>1, WritesKeep
<1>2. ASSUME NEW n \in 1..ReadBytes, Receive(n) PROVE StreamInv'
  BY <1>2, ReceiveKeeps
<1>3. CASE ReceiveEnds
  <2>1. PlaceInv'
    BY <1>3 DEF ReceiveEnds, StreamInv, PlaceInv
  <2>2. QED
    BY <1>3, <2>1, QuietStep DEF ReceiveEnds
<1>4. CASE PushByte
  BY <1>4, PushKeeps
<1>5. CASE InputUsed
  <2>1. PlaceInv'
    BY <1>5 DEF InputUsed, StreamInv, PlaceInv
  <2>2. QED
    BY <1>5, <2>1, QuietStep DEF InputUsed
<1>6. ASSUME NEW n \in 1..(HeaderSize + MaxPayload), Write(n) PROVE StreamInv'
  BY <1>6, WriteKeeps
<1>7. CASE Written
  <2>1. place' \in {"push", "chunk", "done"} /\ (place' = "push" => place = "write")
        /\ (place' = "chunk" => place = "begin") /\ (place = "refuse" => place' = "done")
    BY <1>7, Zenon DEF Written
  <2>2. PlaceInv'
    BY <1>7, <2>1 DEF Written, StreamInv, PlaceInv
  <2>3. QED
    BY <1>7, <2>1, <2>2, QuietStep DEF Written
<1>8. CASE WriteFails
  <2>1. PlaceInv'
    BY <1>8 DEF WriteFails, StreamInv, PlaceInv
  <2>2. QED
    BY <1>8, <2>1, QuietStep DEF WriteFails
<1>9. CASE SendChunk
  BY <1>9, ChunkKeeps
<1>10. CASE ChunksEnd
  <2>1. place' \in {"proxy", "done"} /\ (place' = "proxy" => offset = Len(input))
    BY <1>10 DEF ChunksEnd
  <2>2. PlaceInv'
    BY <1>10, <2>1 DEF ChunksEnd, StreamInv, PlaceInv
  <2>3. QED
    BY <1>10, <2>2, QuietStep DEF ChunksEnd
<1>11. CASE NextClient
  <2>1. StreamInit'
    BY <1>11 DEF NextClient, StreamInit
  <2>2. StreamInit' => StreamInv'
    BY InitialStream, PTL
  <2>3. QED
    BY <2>1, <2>2
<1>12. CASE UNCHANGED streamVars
  BY <1>12 DEF streamVars, StreamInv, StreamTyped, ParserInv, PlaceInv, EveryByteCounts,
       AnswersAreWhole, Remaining
<1>13. QED
  BY <1>1, <1>2, <1>3, <1>4, <1>5, <1>6, <1>7, <1>8, <1>9, <1>10, <1>11, <1>12
     DEF StreamNext

\* The inductive invariant of the management stream.
LEMMA StreamInvariant == StreamSpec => []StreamInv
  BY InitialStream, StreamStep, PTL DEF StreamSpec

-----------------------------------------------------------------------------
\* However TCP cuts what the client writes, and whatever the sizes of the
\* buffers: every byte is decoded, passed on or still to be read, in order.
THEOREM NoByteIsLost == StreamSpec => []EveryByteCounts
  BY StreamInvariant, PTL DEF StreamInv

\* However send cuts the responses, the client gets each one whole before the
\* next begins.
THEOREM NoAnswerIsTorn == StreamSpec => []AnswersAreWhole
  BY StreamInvariant, PTL DEF StreamInv

\* The message decoder's buffer never fills.
THEOREM ParserNeverFills == StreamSpec => []ParserFits
<1>1. StreamInv => ParserFits
  <2> SUFFICES ASSUME StreamInv PROVE ParserFits
    OBVIOUS
  <2>1. Len(parser.bytes) \in Nat /\ parser.expected \in Nat /\ parser.bytes \in Seq(Nat)
    BY DEF StreamInv, StreamTyped, Cells
  <2>2. CASE Len(parser.bytes) < HeaderSize
    BY <2>1, <2>2 DEF StreamInv, ParserInv, ParserFits, HeaderSize
  <2>3. CASE Len(parser.bytes) >= HeaderSize
    <3>1. parser.bytes[4] \in Nat
      BY <2>1, <2>3 DEF HeaderSize
    <3>2. parser.bytes[4] <= MaxPayload /\ parser.expected = HeaderSize + parser.bytes[4]
          /\ Len(parser.bytes) < parser.expected
      BY <2>3 DEF StreamInv, ParserInv
    <3>3. QED
      BY <2>1, <2>3, <3>1, <3>2, SMTT(60) DEF ParserFits, HeaderSize
  <2>4. QED
    BY <2>1, <2>2, <2>3 DEF HeaderSize
<1>2. QED
  BY <1>1, StreamInvariant, PTL
=============================================================================
