------------------------------ MODULE MCCodecs ------------------------------
(* The two decoders on small instances.  They share nothing, so a behaviour  *)
(* follows one of them.                                                      *)
EXTENDS ExpansionCodec, ManagementStream
B == INSTANCE Bitwise

VARIABLE codec

XorTable == [a \in 0..255 |-> [b \in 0..255 |-> B!^^(a, b)]]
XorBytes(a, b) == XorTable[a][b]

\* Every type, the values at the ends of their ranges and one beyond; a DATA
\* frame whose last byte is the checksum of those before it.
SomeFrames ==
    {[type |-> 1, content |-> << >>], [type |-> 2, content |-> <<0>>],
     [type |-> 2, content |-> <<3>>], [type |-> 3, content |-> <<230400>>],
     [type |-> 4, content |-> <<1>>], [type |-> 4, content |-> <<2>>],
     [type |-> 5, content |-> << >>], [type |-> 5, content |-> <<5, 255, 252>>],
     [type |-> 5, content |-> <<1, 1, 1, 1>>]}

\* A ping whose payload looks like a header, an empty one, a begin, an
\* unknown command, a request too large and bytes of no message.
SomeWritings ==
    {<<70, 7, 0, 2, 70, 7>>, <<70, 7, 0, 0>>, <<70, 5, 0, 0>>, <<70, 9, 0, 0>>,
     <<70, 7, 0, 3, 1, 1, 1>>, <<0, 0, 0>>}

CodecsInit == FrameInit /\ StreamInit /\ codec \in {"frames", "stream"}

CodecsNext ==
    \/ codec = "frames" /\ FrameNext  /\ UNCHANGED <<streamVars, codec>>
    \/ codec = "stream" /\ StreamNext /\ UNCHANGED <<frameVars, codec>>

CodecsSpec == CodecsInit /\ [][CodecsNext]_<<frameVars, streamVars, codec>>
=============================================================================
