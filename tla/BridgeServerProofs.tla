-------------------------- MODULE BridgeServerProofs --------------------------
(***************************************************************************)
(* Theorems about BridgeServer, for every set of connections and every     *)
(* bound.                                                                  *)
(***************************************************************************)
EXTENDS BridgeServer, SequenceTheorems, TLAPS

-----------------------------------------------------------------------------
(* The client slot                                                         *)

\* Why the slot excludes: who holds it while the server task has it in hand.
SlotInv ==
    /\ task \in [Connections -> Places] /\ client_active \in BOOLEAN
    /\ SingleClient /\ SlotIsOwned
    /\ server \in {"spawn", "undo"} => \A c \in Connections : task[c] = "none"

\* A step of a client task moves that task only, and gives the slot back exactly
\* when the task ends.
LEMMA ClientTaskMoves ==
    ASSUME task \in [Connections -> Places], NEW c \in Connections, ClientTask(c)
    PROVE  /\ server' = server /\ task[c] # "none"
           /\ \/ /\ client_active' = client_active
                 /\ \E p \in Places \ {"none"} : task' = [task EXCEPT ![c] = p]
              \/ client_active' = FALSE /\ task' = [task EXCEPT ![c] = "none"]
<1> USE DEF Goto, Places
<1>1. server' = server
  BY DEF ClientTask, serverVars
<1>2. NextMessage(c) \/ Quit(c) \/ Respond(c)
        => \E p \in Places \ {"none"} : task' = [task EXCEPT ![c] = p]
  BY DEF NextMessage, Quit, Respond
<1>3. CASE Management(c)
  <2>1. client_active' = client_active
    BY <1>3 DEF Management
  <2>2. task[c] # "none"
    BY <1>3 DEF Management, HandleBegin, BeginRefused, BeginAsks,
       BeginUnavailable, BeginOpens, ManageRecv, ManageEnd, HandleHello,
       HandleAuthenticate, HandleQuery, HandleRefused, HandleFatal, Request
  <2>3. \E p \in Places \ {"none"} : task' = [task EXCEPT ![c] = p]
    BY <1>2, <1>3 DEF Management, HandleBegin, BeginRefused, BeginAsks,
       BeginUnavailable, BeginOpens, ManageRecv, ManageEnd, HandleHello,
       HandleAuthenticate, HandleQuery, HandleRefused, HandleFatal
  <2> QED
    BY <1>1, <2>1, <2>2, <2>3
<1>4. CASE RawMode(c)
  <2>1. client_active' = client_active
    BY <1>4 DEF RawMode
  <2>2. task[c] # "none"
    BY <1>4 DEF RawMode, BeginAnswered, BeginUnanswered, ProxyEnter, ProxySend,
       ProxyRecv, ProxyEnd, EndRpc, EndRpcAsks, EndRpcReturns
  <2>3. CASE task' = task
    <3>1. task' = [task EXCEPT ![c] = task[c]]
      BY <2>3
    <3> QED
      BY <1>1, <2>1, <2>2, <3>1
  <2>4. CASE ~(task' = task)
    <3>1. \E p \in Places \ {"none"} : task' = [task EXCEPT ![c] = p]
      BY <1>2, <1>4, <2>4 DEF RawMode, BeginAnswered, BeginUnanswered, ProxyEnter,
         ProxySend, ProxyRecv, ProxyEnd, ProxyEnds, EndRpc, EndRpcAsks, EndRpcReturns
    <3> QED
      BY <1>1, <2>1, <2>2, <3>1
  <2> QED
    BY <2>3, <2>4
<1>5. CASE Ending(c)
  BY <1>1, <1>5 DEF Ending, ClientClose, ClientRelease, Release
<1> QED
  BY <1>3, <1>4, <1>5 DEF ClientTask

\* The slot's inductive invariant: the server task holds the slot only while no
\* client task exists.
THEOREM SlotIsKept == Spec => []SlotInv
<1>1. Init => SlotInv
  <2> SUFFICES ASSUME Init PROVE SlotInv
    OBVIOUS
  <2>1. task \in [Connections -> Places] /\ \A c \in Connections : task[c] = "none"
    BY DEF Init, Places
  <2>2. client_active = FALSE /\ server = "accept"
    BY DEF Init
  <2>3. client_active \in BOOLEAN /\ SlotIsOwned
    BY <2>1, <2>2 DEF SlotIsOwned
  <2> QED
    BY <2>1, <2>2, <2>3 DEF SlotInv, SingleClient
<1>2. SlotInv /\ [Next]_vars => SlotInv'
  <2> SUFFICES ASSUME SlotInv, [Next]_vars PROVE SlotInv'
    OBVIOUS
  <2> USE DEF SlotInv, SingleClient, SlotIsOwned
  <2>1. ASSUME NEW c \in Connections, ServerTask(c) PROVE SlotInv'
    <3>1. CASE ServerAccept(c) \/ ServerBusy(c) \/ ServerReject(c)
      BY <3>1 DEF ServerAccept, ServerBusy, ServerReject
    <3>2. CASE ServerClaim(c)
      BY <3>2 DEF ServerClaim, Claim
    <3>3. CASE ServerSpawn(c)
      BY <3>3 DEF ServerSpawn, Places
    <3>4. CASE ServerSpawnFails(c)
      BY <3>4 DEF ServerSpawnFails
    <3>5. CASE ServerUndo(c)
      <4>1. client_active' = FALSE /\ task' = task /\ server' = "accept"
        BY <3>5 DEF ServerUndo, Release
      <4>2. \A d \in Connections : task'[d] = "none"
        BY <3>5, <4>1 DEF ServerUndo
      <4>3. client_active' \in BOOLEAN /\ SlotIsOwned'
        BY <4>1, <4>2
      <4> QED
        BY <4>1, <4>2, <4>3
    <3> QED
      BY <2>1, <3>1, <3>2, <3>3, <3>4, <3>5 DEF ServerTask
  <2>2. ASSUME NEW c \in Connections, ClientTask(c) PROVE SlotInv'
    <3>1. /\ server' = server /\ task[c] # "none"
          /\ \/ /\ client_active' = client_active
                /\ \E p \in Places \ {"none"} : task' = [task EXCEPT ![c] = p]
             \/ client_active' = FALSE /\ task' = [task EXCEPT ![c] = "none"]
      BY <2>2, ClientTaskMoves
    <3>2. \A d \in Connections : task[d] # "none" => d = c
      BY <3>1
    <3>3. client_active = TRUE /\ server \notin {"spawn", "undo"}
      BY <3>1
    <3>4. CASE client_active' = FALSE /\ task' = [task EXCEPT ![c] = "none"]
      <4>1. task' \in [Connections -> Places] /\ \A d \in Connections : task'[d] = "none"
        BY <3>2, <3>4 DEF Places
      <4>2. client_active' \in BOOLEAN /\ SlotIsOwned'
        BY <3>1, <3>3, <3>4, <4>1
      <4> QED
        BY <4>1, <4>2
    <3>5. ASSUME NEW p \in Places \ {"none"}, task' = [task EXCEPT ![c] = p],
                 client_active' = client_active
          PROVE  SlotInv'
      <4>1. task'[c] # "none" /\ \A d \in Connections : task'[d] # "none" => d = c
        BY <3>2, <3>5
      <4>2. client_active' \in BOOLEAN /\ SlotIsOwned'
        BY <3>3, <3>5, <4>1
      <4> QED
        BY <3>1, <3>3, <3>5, <4>1, <4>2
    <3> QED
      BY <3>1, <3>4, <3>5
  <2>3. CASE Environment \/ (\E c \in Connections : WriterShuts(c)) \/ UNCHANGED vars
    <3>1. UNCHANGED <<client_active, server, task>>
      BY <2>3 DEF Environment, WriterShuts, vars, serverVars, taskVars
    <3> QED
      BY <3>1
  <2> QED
    BY <2>1, <2>2, <2>3 DEF Next
<1> QED
  BY <1>1, <1>2, PTL DEF Spec

\* claim_client excludes: for every set of connections there is never a second
\* client task.
THEOREM SlotExcludes == Spec => []SingleClient
<1>1. SlotInv => SingleClient
  BY DEF SlotInv
<1> QED
  BY <1>1, SlotIsKept, PTL

\* release_client gives the slot back exactly once: it never leaks, whichever of the
\* steps between claim and release fails.
THEOREM SlotDoesNotLeak == Spec => []SlotIsOwned
<1>1. SlotInv => SlotIsOwned
  BY DEF SlotInv
<1> QED
  BY <1>1, SlotIsKept, PTL

-----------------------------------------------------------------------------
(* Types                                                                   *)

\* recv, the decoder's next message, close and goto done keep the streams streams.
LEMMA StreamTypes ==
    ASSUME ServerTypeOK, NEW c \in Connections
    PROVE  /\ \A n \in 1..Len(wire[c]) :
                 /\ SubSeq(wire[c], 1, n) \in Seq(Units) /\ SubSeq(wire[c], 1, n) # <<>>
                 /\ SubSeq(wire[c], n + 1, Len(wire[c])) \in Seq(Units)
           /\ input[c] # <<>> => /\ Head(input[c]) \in Units
                                 /\ Tail(input[c]) \in Seq(Units)
                                 /\ Len(input[c]) # 1 => Tail(input[c]) # <<>>
           /\ <<>> \in Seq(Units)
<1>1. wire[c] \in Seq(Units) /\ input[c] \in Seq(Units)
  BY DEF ServerTypeOK
<1>2. Len(wire[c]) \in Nat /\ \A i \in 1..Len(wire[c]) : wire[c][i] \in Units
  BY <1>1, LenProperties, ElementOfSeq
<1>3. <<>> \in Seq(Units) /\ Len(<<>>) = 0
  BY EmptySeq
<1>4. ASSUME NEW n \in 1..Len(wire[c])
      PROVE  /\ SubSeq(wire[c], 1, n) \in Seq(Units) /\ SubSeq(wire[c], 1, n) # <<>>
             /\ SubSeq(wire[c], n + 1, Len(wire[c])) \in Seq(Units)
  <2>1. SubSeq(wire[c], 1, n) \in Seq(Units) /\ Len(SubSeq(wire[c], 1, n)) = n
    BY <1>2, SubSeqProperties
  <2>2. SubSeq(wire[c], n + 1, Len(wire[c])) \in Seq(Units)
    BY <1>2, SubSeqProperties
  <2>3. SubSeq(wire[c], 1, n) # <<>>
    BY <1>2, <1>3, <2>1
  <2> QED
    BY <2>1, <2>2, <2>3
<1>5. ASSUME input[c] # <<>>
      PROVE  /\ Head(input[c]) \in Units /\ Tail(input[c]) \in Seq(Units)
             /\ Len(input[c]) # 1 => Tail(input[c]) # <<>>
  <2>1. /\ Head(input[c]) \in Units /\ Tail(input[c]) \in Seq(Units)
        /\ Len(Tail(input[c])) = Len(input[c]) - 1
    BY <1>1, <1>5, HeadTailProperties
  <2>2. Len(input[c]) \in Nat \ {0}
    BY <1>1, <1>5, EmptySeq
  <2> QED
    <3>1. ASSUME Tail(input[c]) = <<>> PROVE Len(input[c]) = 1
      <4>1. Len(Tail(input[c])) = 0
        BY <1>3, <3>1
      <4> QED
        BY <2>1, <2>2, <4>1
    <3> QED
      BY <2>1, <3>1
<1> QED
  BY <1>4, <1>5, <1>3

\* What an entry of a message means: only Authenticate carries a code, and it is
\* one that was sent.
LEMMA MessageTypes ==
    ASSUME NEW u \in Units
    PROVE  /\ u.m.kind = "authenticate" => u.m.mac \in macs
           /\ u.m.kind = "hello" => u.m.nonce \in ClientNonces
<1>1. u.m \in SimpleMessages \cup {AuthMessage(a) : a \in macs}
  BY DEF Units
<1>2. ASSUME NEW k \in Kinds, u.m = [kind |-> k]
      PROVE  u.m.kind \notin {"authenticate", "hello"}
  BY <1>2, KindsAssumption
<1>3. ASSUME NEW x \in ClientNonces, u.m = [kind |-> "hello", nonce |-> x]
      PROVE  u.m.kind = "hello" /\ u.m.nonce \in ClientNonces
  BY <1>3
<1>4. ASSUME NEW a \in macs, u.m = AuthMessage(a)
      PROVE  u.m.kind = "authenticate" /\ u.m.mac \in macs
  BY <1>4 DEF AuthMessage
<1> QED
  BY <1>1, <1>2, <1>3, <1>4 DEF SimpleMessages

\* The server task.
LEMMA ServerTaskType ==
    ASSUME ServerTypeOK, NEW c \in Connections, ServerTask(c)
    PROVE  ServerTypeOK'
<1> USE DEF ServerTypeOK
<1>1. UNCHANGED <<input, link, user, wire, peer, sent, macs, granted>>
  BY DEF ServerTask, linkVars, peerVars, histVars
<1>2. Units' = Units
  BY <1>1 DEF Units
<1>3. /\ client_active' \in BOOLEAN
      /\ server' \in {"accept", "claim", "reject", "spawn", "undo"}
      /\ accepted' \subseteq Connections
      /\ socket' \in [Connections -> {"none", "pending", "open", "shut", "closed"}]
  BY DEF ServerTask, ServerAccept, ServerClaim, ServerBusy, ServerReject, ServerSpawn,
     ServerSpawnFails, ServerUndo, Claim, Release
<1>4. /\ task' \in [Connections -> Places]
      /\ \A d \in Connections : task'[d] \in {"decode", "beginning"} => task'[d] = task[d]
  BY DEF ServerTask, ServerAccept, ServerClaim, ServerBusy, ServerReject, ServerSpawn,
     ServerSpawnFails, ServerUndo, Places
<1>5. nonces' \in Nat /\ session' \in [Connections -> Sessions]
  <2>1. FreshNonce \in Nat
    BY DEF FreshNonce
  <2>2. NewSession \in Sessions
    BY <2>1 DEF NewSession, Sessions, SessionStates, SomeNonce
  <2> QED
    BY <2>1, <2>2, ZenonT(60) DEF ServerTask, ServerAccept, ServerClaim, ServerBusy, ServerReject,
       ServerSpawn, ServerSpawnFails, ServerUndo
<1> QED
  BY <1>1, <1>2, <1>3, <1>4, <1>5 DEF LinkTypeOk

\* A client task.  Its own input is kept non-empty wherever it goes on to decode.
LEMMA ClientTaskType ==
    ASSUME ServerTypeOK, NEW c \in Connections, ClientTask(c)
    PROVE  ServerTypeOK'
<1>1. UNCHANGED <<server, accepted, peer, sent, macs, nonces>>
  BY DEF ClientTask, serverVars, peerVars
<1>2. Units' = Units
  BY <1>1 DEF Units
<1>3. task' \in [Connections -> Places] /\ client_active' \in BOOLEAN
  <2>1. "none" \in Places /\ task \in [Connections -> Places] /\ client_active \in BOOLEAN
    BY DEF Places, ServerTypeOK
  <2> QED
    BY <2>1, ClientTaskMoves
<1>4. /\ LinkTypeOk'
      /\ socket' \in [Connections -> {"none", "pending", "open", "shut", "closed"}]
  <2>1. LinkTypeOk
    BY DEF ServerTypeOK
  <2>2. UNCHANGED linkVars \/ LinkNext
    BY DEF ClientTask, Management, RawMode, Ending, ManageRecv, ManageEnd, HandleHello,
       HandleAuthenticate, HandleQuery, HandleBegin, BeginRefused, BeginAsks,
       BeginUnavailable, BeginOpens, HandleRefused, HandleFatal, BeginAnswered,
       BeginUnanswered, ProxyEnter, ProxySend, ProxyRecv, ProxyEnd, EndRpc, EndRpcAsks,
       EndRpcReturns, LinkNext
  <2>3. LinkTypeOk'
    BY <2>1, <2>2 DEF linkVars, LinkNext, LinkUp, LinkDown, Ask, Open, Refuse, Stop, Closed,
       StopFails, Leave, LinkTypeOk
  <2>4. socket' \in [Connections -> {"none", "pending", "open", "shut", "closed"}]
    BY DEF ServerTypeOK, ClientTask, Management, RawMode, Ending, BeginAnswered,
       BeginUnanswered, ProxyEnter, ProxySend, ProxyRecv, ProxyEnd, ProxyEnds, EndRpc,
       ClientClose, ClientRelease
  <2> QED
    BY <2>3, <2>4
<1>5. granted' \subseteq Connections
  BY DEF ServerTypeOK, ClientTask, Management, RawMode, Ending, ManageRecv, ManageEnd,
     HandleHello, HandleAuthenticate, HandleQuery, HandleBegin, HandleRefused,
     HandleFatal, BeginAnswered, BeginUnanswered, ProxyEnter, ProxySend, ProxyRecv,
     ProxyEnd, EndRpc, EndRpcAsks, EndRpcReturns
<1>6. session' \in [Connections -> Sessions]
  <2>1. session \in [Connections -> Sessions] /\ session[c] \in Sessions
    BY DEF ServerTypeOK
  <2>2. ClosedSession \in Sessions
    BY DEF ClosedSession, Sessions, SessionStates, SomeNonce
  <2>3. \A st \in SessionStates : [session[c] EXCEPT !.state = st] \in Sessions
    BY <2>1 DEF Sessions
  <2>4. CASE HandleHello(c)
    <3>1. Head(input[c]).m.nonce \in SomeNonce
      BY <2>4, StreamTypes, MessageTypes DEF HandleHello, Request, ServerTypeOK, SomeNonce
    <3>2. [session[c] EXCEPT !.state = "AwaitingAuthentication",
                             !.client_nonce = Head(input[c]).m.nonce] \in Sessions
      BY <2>1, <3>1 DEF Sessions, SessionStates
    <3> QED
      BY <2>1, <2>4, <3>2 DEF HandleHello, SetSession
  <2>5. CASE HandleAuthenticate(c) \/ HandleBegin(c)
    BY <2>1, <2>3, <2>5 DEF HandleAuthenticate, HandleBegin, BeginRefused, BeginAsks,
       BeginUnavailable, BeginOpens, SetSession, SessionStates
  <2>6. CASE ClientClose(c)
    BY <2>1, <2>2, <2>6 DEF ClientClose, SetSession
  <2>7. CASE UNCHANGED session
    BY <2>1, <2>7
  <2>8. CASE Management(c)
    BY <2>4, <2>5, <2>7, <2>8 DEF Management, ManageRecv, ManageEnd, HandleQuery,
       HandleRefused, HandleFatal
  <2>9. CASE RawMode(c) \/ Ending(c)
    BY <2>6, <2>7, <2>9 DEF RawMode, Ending, ClientRelease
  <2> QED
    BY <2>8, <2>9 DEF ClientTask
<1>7. /\ input' \in [Connections -> Seq(Units)] /\ wire' \in [Connections -> Seq(Units)]
      /\ \A d \in Connections : task'[d] \in {"decode", "beginning"} => input'[d] # <<>>
  <2>1. /\ input \in [Connections -> Seq(Units)] /\ wire \in [Connections -> Seq(Units)]
        /\ \A d \in Connections : task[d] \in {"decode", "beginning"} => input[d] # <<>>
        /\ task \in [Connections -> Places]
    BY DEF ServerTypeOK
  <2> DEFINE Good == /\ input' \in [Connections -> Seq(Units)]
                     /\ wire' \in [Connections -> Seq(Units)]
                     /\ \A d \in Connections :
                           task'[d] \in {"decode", "beginning"} => input'[d] # <<>>
  <2>2. CASE Receive(c) /\ (Goto(c, "decode") \/ UNCHANGED task)
    <3>1. PICK n \in 1..Len(wire[c]) :
              /\ input' = [input EXCEPT ![c] = SubSeq(wire[c], 1, n)]
              /\ wire' = [wire EXCEPT ![c] = SubSeq(wire[c], n + 1, Len(wire[c]))]
      BY <2>2 DEF Receive
    <3>2. /\ SubSeq(wire[c], 1, n) \in Seq(Units) /\ SubSeq(wire[c], 1, n) # <<>>
          /\ SubSeq(wire[c], n + 1, Len(wire[c])) \in Seq(Units)
      BY StreamTypes
    <3>3. /\ input' \in [Connections -> Seq(Units)] /\ wire' \in [Connections -> Seq(Units)]
          /\ input'[c] # <<>> /\ \A d \in Connections \ {c} : input'[d] = input[d]
      BY <2>1, <3>1, <3>2
    <3>4. \A d \in Connections \ {c} : task'[d] = task[d]
      BY <2>1, <2>2 DEF Goto
    <3> QED
      BY <2>1, <3>3, <3>4
  <2>3. CASE Quit(c) /\ UNCHANGED wire
    BY <2>1, <2>3, StreamTypes DEF Quit, Goto
  <2>4. CASE NextMessage(c) /\ task[c] \in {"decode", "beginning"} /\ UNCHANGED wire
    <3>1. input[c] # <<>>
      BY <2>1, <2>4
    <3>2. Tail(input[c]) \in Seq(Units) /\ (Len(input[c]) # 1 => Tail(input[c]) # <<>>)
      BY <3>1, StreamTypes
    <3> QED
      BY <2>1, <2>4, <3>2 DEF NextMessage, Goto
  <2>5. CASE BeginOpens(c)
    <3>1. Tail(input[c]) \in Seq(Units)
      BY <2>1, <2>5, StreamTypes DEF BeginOpens
    <3> QED
      BY <2>1, <2>5, <3>1 DEF BeginOpens, Goto
  <2>a. CASE BeginAsks(c)
    BY <2>1, <2>a DEF BeginAsks, Request, Goto
  <2>6. CASE Management(c)
    BY <2>2, <2>3, <2>4, <2>5, <2>6, <2>a DEF Management, ManageRecv, ManageEnd,
       HandleHello, HandleAuthenticate, HandleQuery, HandleBegin, BeginRefused,
       BeginUnavailable, HandleRefused, HandleFatal, Request, Respond
  <2>7. ASSUME UNCHANGED <<input, wire>>, NEW p \in Places \ {"decode", "beginning"},
               task' = [task EXCEPT ![c] = p]
        PROVE  Good
    BY <2>1, <2>7
  <2>8. CASE RawMode(c)
    <3>1. CASE ProxySend(c)
      BY <2>1, <3>1, StreamTypes DEF ProxySend, ProxyEnds, Goto
    <3>2. CASE BeginAnswered(c) \/ BeginUnanswered(c) \/ ProxyEnd(c)
      BY <2>7, <3>2 DEF BeginAnswered, BeginUnanswered, ProxyEnd, ProxyEnds, Goto, Places
    <3>3. CASE ProxyEnter(c)
      BY <2>3, <2>7, <3>3 DEF ProxyEnter, Goto, Places
    <3>4. CASE EndRpc(c)
      BY <2>3, <2>7, <3>4 DEF EndRpc, EndRpcAsks, EndRpcReturns, Goto, Places
    <3> QED
      BY <2>2, <2>8, <3>1, <3>2, <3>3, <3>4 DEF RawMode, ProxyRecv
  <2>9. CASE Ending(c)
    <3>1. CASE ClientClose(c)
      BY <2>1, <2>9, <3>1, StreamTypes DEF Ending, ClientClose, Goto
    <3>2. CASE ClientRelease(c)
      BY <2>7, <2>9, <3>2 DEF Ending, ClientRelease, Goto, Places
    <3> QED
      BY <2>9, <3>1, <3>2 DEF Ending
  <2> QED
    BY <2>6, <2>8, <2>9 DEF ClientTask
<1> QED
  BY <1>1, <1>2, <1>3, <1>4, <1>5, <1>6, <1>7 DEF ServerTypeOK

\* A code a peer can send is a code.
LEMMA CodeTypes ==
    ASSUME ServerTypeOK, NEW c \in Connections
    PROVE  Codes(c) \subseteq [client : SomeNonce, bridge : Nat]
<1>1. session[c] \in Sessions /\ macs \subseteq [client : SomeNonce, bridge : Nat]
  BY DEF ServerTypeOK
<1>2. Guess \in [client : SomeNonce, bridge : Nat]
  BY DEF Guess, SomeNonce
<1>3. AuthMaterial(session[c]) \in [client : SomeNonce, bridge : Nat]
  BY <1>1 DEF AuthMaterial, Sessions
<1> QED
  BY <1>1, <1>2, <1>3 DEF Codes

\* The message a peer sends: which codes are out after it.
LEMMA SentCodes ==
    ASSUME NEW c \in Connections, NEW m \in Messages(c), PeerSend(c, m)
    PROVE  /\ macs \subseteq macs' /\ macs' \subseteq macs \cup Codes(c)
           /\ m \in SimpleMessages \cup {AuthMessage(a) : a \in macs'}
<1>1. CASE m \in SimpleMessages
  <2>1. m.kind # "authenticate"
    BY <1>1, KindsAssumption DEF SimpleMessages
  <2> QED
    BY <1>1, <2>1 DEF PeerSend
<1>2. CASE \E a \in Codes(c) : m = AuthMessage(a)
  <2>1. PICK a \in Codes(c) : m = AuthMessage(a)
    BY <1>2
  <2>2. m.kind = "authenticate" /\ m.mac = a
    BY <2>1 DEF AuthMessage
  <2>3. macs' = macs \cup {a}
    BY <2>2 DEF PeerSend
  <2> QED
    BY <2>1, <2>3
<1> QED
  BY <1>1, <1>2 DEF Messages

\* Peers and link.
LEMMA EnvironmentType ==
    ASSUME ServerTypeOK, Environment
    PROVE  ServerTypeOK'
<1> USE DEF ServerTypeOK
<1>1. UNCHANGED <<client_active, server, accepted, task, session, input, nonces, granted>>
  BY DEF Environment, serverVars, taskVars, histVars
<1>2. ASSUME NEW c \in Connections, PeerConnect(c) \/ PeerClose(c) PROVE ServerTypeOK'
  <2>1. Units' = Units
    BY <1>2 DEF PeerConnect, PeerClose, Units
  <2> QED
    BY <1>1, <1>2, <2>1 DEF PeerConnect, PeerClose, linkVars, LinkTypeOk
<1>3. ASSUME NEW c \in Connections, NEW m \in Messages(c), PeerSend(c, m)
      PROVE  ServerTypeOK'
  <2>1. macs' \subseteq [client : SomeNonce, bridge : Nat]
    BY <1>3, CodeTypes, SentCodes
  <2>2. Units \subseteq Units'
    BY <1>3, SentCodes DEF Units
  <2>3. Seq(Units) \subseteq Seq(Units')
    BY <2>2, SeqMonotonic
  <2>4. sent[c] + 1 \in Nat
    OBVIOUS
  <2>5. [n |-> sent[c] + 1, m |-> m] \in Units'
    BY <1>3, <2>4, SentCodes DEF Units
  <2>6. wire[c] \in Seq(Units')
    BY <2>3
  <2>7. Append(wire[c], [n |-> sent[c] + 1, m |-> m]) \in Seq(Units')
    BY <2>5, <2>6
  <2>8. wire' \in [Connections -> Seq(Units')]
    BY <1>3, <2>3, <2>7 DEF PeerSend
  <2>9. input' \in [Connections -> Seq(Units')]
    BY <1>1, <2>3
  <2> QED
    BY <1>1, <1>3, <2>1, <2>4, <2>8, <2>9 DEF PeerSend, linkVars, LinkTypeOk
<1>4. CASE LinkChanges
  <2>1. Units' = Units
    BY <1>4 DEF LinkChanges, peerVars, Units
  <2> QED
    BY <1>1, <1>4, <2>1 DEF LinkChanges, LinkUp, LinkDown, LinkTypeOk, peerVars
<1> QED
  BY <1>2, <1>3, <1>4 DEF Environment

\* Every variable of the server keeps its type in every behaviour.
THEOREM ServerTypeCorrect == Spec => []ServerTypeOK
<1>1. Init => ServerTypeOK
  <2> SUFFICES ASSUME Init PROVE ServerTypeOK
    OBVIOUS
  <2>1. ClosedSession \in Sessions
    BY DEF ClosedSession, Sessions, SessionStates, SomeNonce
  <2>2. <<>> \in Seq(Units)
    BY EmptySeq
  <2>3. input \in [Connections -> Seq(Units)] /\ wire \in [Connections -> Seq(Units)]
    BY <2>2 DEF Init
  <2>4. client_active \in BOOLEAN
    BY DEF Init
  <2> QED
    BY <2>1, <2>3, <2>4 DEF Init, LinkInit, LinkTypeOk, ServerTypeOK, Places
<1>2. ServerTypeOK /\ [Next]_vars => ServerTypeOK'
  <2> SUFFICES ASSUME ServerTypeOK, [Next]_vars PROVE ServerTypeOK'
    OBVIOUS
  <2>1. ASSUME NEW c \in Connections, WriterShuts(c) PROVE ServerTypeOK'
    <3>1. Units' = Units
      BY <2>1 DEF WriterShuts, peerVars, Units
    <3> QED
      BY <2>1, <3>1 DEF WriterShuts, serverVars, taskVars, linkVars, peerVars, histVars,
         LinkTypeOk, ServerTypeOK
  <2>2. CASE UNCHANGED vars
    <3>1. Units' = Units
      BY <2>2 DEF vars, peerVars, Units
    <3> QED
      BY <2>2, <3>1 DEF vars, serverVars, taskVars, linkVars, peerVars, histVars,
         LinkTypeOk, ServerTypeOK
  <2> QED
    BY <2>1, <2>2, ServerTaskType, ClientTaskType, EnvironmentType DEF Next
<1> QED
  BY <1>1, <1>2, PTL DEF Spec

-----------------------------------------------------------------------------
(* Authentication                                                          *)

\* Nonces are never shared by two live sessions, and the only codes about a
\* session's nonces are those its own, paired peer has sealed.
NonceInv ==
    /\ \A c \in Connections :
          /\ session[c].bridge_nonce <= nonces
          /\ session[c].bridge_nonce = 0 => session[c].state = "Closed"
    /\ \A c, d \in Connections :
          c # d /\ session[c].bridge_nonce = session[d].bridge_nonce
              => session[c].bridge_nonce = 0
    /\ \A a \in macs : a.bridge <= nonces
    /\ \A c \in Connections, a \in macs :
          a.bridge = session[c].bridge_nonce /\ a.bridge # 0 => c \in Paired

\* The places between begin_rpc and the end of end_rpc.
RpcPlaces == {"begun", "proxy", "raw", "end", "stopping"}

\* Where a task may be in a call of the transport, and with which session.
PlaceOk(c) ==
    /\ task[c] = "beginning" => session[c].state = "Authenticated"
    /\ task[c] \in RpcPlaces => session[c].state = "Proxying"

PrivilegeInv ==
    /\ \A c \in Connections :
          /\ session[c].state \in {"Authenticated", "Proxying"} => c \in Paired
          /\ PlaceOk(c)
    /\ GrantedIsPaired

AuthInv == NonceInv /\ PrivilegeInv

\* What a step of a client task does to its session: it keeps the nonces until it
\* closes, and becomes privileged only with a code over them.
LEMMA ClientTaskSession ==
    ASSUME ServerTypeOK, AuthInv, NEW c \in Connections, ClientTask(c)
    PROVE  /\ \A d \in Connections \ {c} : session'[d] = session[d] /\ task'[d] = task[d]
           /\ \/ session'[c].bridge_nonce = session[c].bridge_nonce
                 /\ (session'[c].state = "Closed" <=> session[c].state = "Closed")
              \/ session'[c].bridge_nonce = 0 /\ session'[c].state = "Closed"
           /\ session'[c].state \in {"Authenticated", "Proxying"} => c \in Paired
           /\ PlaceOk(c)'
           /\ granted' \subseteq granted \cup (IF c \in Paired THEN {c} ELSE {})
<1>1. /\ session \in [Connections -> Sessions] /\ session[c] \in Sessions
      /\ task \in [Connections -> Places]
  BY DEF ServerTypeOK
<1>2. /\ session[c].state \in {"Authenticated", "Proxying"} => c \in Paired
      /\ PlaceOk(c)
  BY DEF AuthInv, PrivilegeInv
<1>3. \A d \in Connections \ {c} : task'[d] = task[d]
  BY <1>1, ClientTaskMoves
<1>4. NextMessage(c) \/ Quit(c) \/ Respond(c) => PlaceOk(c)'
  BY <1>1 DEF NextMessage, Quit, Respond, Goto, PlaceOk, RpcPlaces
<1>5. CASE HandleHello(c)
  <2>1. \/ session' = session
        \/ /\ session[c].state = "AwaitingHello"
           /\ session' = [session EXCEPT ![c] = [session[c] EXCEPT
                   !.state = "AwaitingAuthentication",
                   !.client_nonce = Head(input[c]).m.nonce]]
    BY <1>5 DEF HandleHello, SetSession, AcceptsHello
  <2> QED
    BY <1>1, <1>2, <1>3, <1>4, <1>5, <2>1 DEF HandleHello, Sessions
<1>6. CASE HandleAuthenticate(c)
  <2>1. CASE session' = session
    BY <1>1, <1>2, <1>3, <1>4, <1>6, <2>1 DEF HandleAuthenticate
  <2>2. CASE ~(session' = session)
    <3>1. /\ AcceptsCode(session[c], Head(input[c]).m.mac)
          /\ session' = [session EXCEPT ![c] = [session[c] EXCEPT !.state = "Authenticated"]]
      BY <1>6, <2>2 DEF HandleAuthenticate, SetSession
    <3>2. Head(input[c]).m.mac \in macs
      BY <1>6, StreamTypes, MessageTypes DEF HandleAuthenticate, Request, ServerTypeOK
    <3>3. /\ session[c].state = "AwaitingAuthentication"
          /\ Head(input[c]).m.mac.bridge = session[c].bridge_nonce
      BY <3>1 DEF AcceptsCode, AuthMaterial
    <3>4. c \in Paired
      BY <3>2, <3>3 DEF AuthInv, NonceInv
    <3> QED
      BY <1>1, <1>3, <1>4, <1>6, <3>1, <3>3, <3>4 DEF HandleAuthenticate, Sessions
  <2> QED
    BY <2>1, <2>2
<1>7. CASE HandleBegin(c)
  <2>1. CASE session' = session /\ Respond(c)
    BY <1>1, <1>2, <1>3, <1>4, <1>7, <2>1 DEF HandleBegin
  <2>2. CASE BeginAsks(c)
    BY <1>1, <1>2, <1>3, <1>7, <2>2 DEF HandleBegin, BeginAsks, Privileged, Goto, PlaceOk,
       RpcPlaces
  <2>3. CASE BeginOpens(c)
    <3>1. session[c].state = "Authenticated"
      BY <1>2, <2>3 DEF BeginOpens, PlaceOk
    <3>2. session' = [session EXCEPT ![c] = [session[c] EXCEPT !.state = "Proxying"]]
      BY <2>3 DEF BeginOpens, SetSession
    <3>3. granted' = granted /\ task'[c] = "begun"
      BY <1>1, <1>7, <2>3 DEF HandleBegin, BeginOpens, Goto
    <3> QED
      BY <1>1, <1>2, <1>3, <3>1, <3>2, <3>3 DEF Sessions, PlaceOk
  <2> QED
    BY <1>7, <2>1, <2>2, <2>3 DEF HandleBegin, BeginRefused, BeginUnavailable
<1>8. CASE HandleQuery(c)
  BY <1>1, <1>2, <1>3, <1>4, <1>8 DEF HandleQuery, Privileged
<1>9. CASE ManageRecv(c) \/ ManageEnd(c) \/ HandleRefused(c) \/ HandleFatal(c)
  BY <1>1, <1>2, <1>3, <1>4, <1>9 DEF ManageRecv, ManageEnd, HandleRefused, HandleFatal,
     Goto, PlaceOk, RpcPlaces
<1>10. CASE RawMode(c)
  <2>1. session' = session
    BY <1>10 DEF RawMode
  <2>2. PlaceOk(c)'
    <3>1. CASE EndRpcReturns(c) \/ (ProxyEnter(c) /\ Quit(c))
      BY <1>4, <3>1 DEF EndRpcReturns
    <3>2. CASE ~(EndRpcReturns(c) \/ (ProxyEnter(c) /\ Quit(c)))
      <4>1. task[c] \in RpcPlaces /\ task'[c] \in RpcPlaces
        BY <1>1, <1>10, <3>2 DEF RawMode, BeginAnswered, BeginUnanswered, ProxyEnter,
           ProxySend, ProxyRecv, ProxyEnd, ProxyEnds, EndRpc, EndRpcAsks, Goto, RpcPlaces
      <4> QED
        BY <1>2, <2>1, <4>1 DEF PlaceOk, RpcPlaces
    <3> QED
      BY <3>1, <3>2
  <2>3. granted' = granted \/ (task[c] = "begun" /\ granted' = granted \cup {c})
    BY <1>10 DEF RawMode, BeginAnswered, BeginUnanswered, ProxyEnter, ProxySend,
       ProxyRecv, ProxyEnd, EndRpc
  <2>4. task[c] = "begun" => c \in Paired
    BY <1>2 DEF PlaceOk, RpcPlaces
  <2> QED
    BY <1>2, <1>3, <2>1, <2>2, <2>3, <2>4
<1>11. CASE Ending(c)
  <2>1. granted' = granted /\ PlaceOk(c)'
    BY <1>1, <1>11 DEF Ending, ClientClose, ClientRelease, Goto, PlaceOk, RpcPlaces
  <2>2. session' = session \/ session' = [session EXCEPT ![c] = ClosedSession]
    BY <1>11 DEF Ending, ClientClose, ClientRelease, SetSession
  <2> QED
    BY <1>1, <1>2, <1>3, <2>1, <2>2 DEF ClosedSession
<1> QED
  BY <1>5, <1>6, <1>7, <1>8, <1>9, <1>10, <1>11 DEF ClientTask, Management

\* The inductive invariant of authentication: whose the nonces and codes are, and
\* how far a session has come at each place of its client task.
THEOREM AuthIsKept == Spec => []AuthInv
<1>1. Init => AuthInv
  BY DEF Init, AuthInv, NonceInv, PrivilegeInv, GrantedIsPaired, ClosedSession, PlaceOk,
     RpcPlaces
<1>2. ServerTypeOK /\ AuthInv /\ [Next]_vars => AuthInv'
  <2> SUFFICES ASSUME ServerTypeOK, AuthInv, [Next]_vars PROVE AuthInv'
    OBVIOUS
  <2>1. /\ session \in [Connections -> Sessions] /\ task \in [Connections -> Places]
        /\ \A c \in Connections : session[c].bridge_nonce \in Nat
        /\ nonces \in Nat /\ \A a \in macs : a.bridge \in Nat
    BY DEF ServerTypeOK, Sessions
  <2>2. ASSUME NEW c \in Connections, ServerTask(c) PROVE AuthInv'
    <3>1. UNCHANGED <<macs, granted>>
      BY <2>2 DEF ServerTask, peerVars, histVars
    <3>2. CASE ServerSpawn(c)
      <4>1. /\ nonces' = nonces + 1 /\ session'[c].bridge_nonce = nonces + 1
            /\ session'[c].state = "AwaitingHello" /\ task'[c] = "recv"
            /\ \A d \in Connections \ {c} : session'[d] = session[d] /\ task'[d] = task[d]
        BY <2>1, <3>2 DEF ServerSpawn, NewSession, FreshNonce
      <4>2. NonceInv'
        BY <2>1, <3>1, <4>1 DEF AuthInv, NonceInv
      <4>3. PrivilegeInv'
        BY <3>1, <4>1 DEF AuthInv, PrivilegeInv, PlaceOk, RpcPlaces, GrantedIsPaired
      <4> QED
        BY <4>2, <4>3 DEF AuthInv
    <3>3. CASE UNCHANGED <<task, session, nonces>>
      BY <3>1, <3>3 DEF AuthInv, NonceInv, PrivilegeInv, PlaceOk, GrantedIsPaired
    <3> QED
      BY <2>2, <3>2, <3>3 DEF ServerTask, ServerAccept, ServerClaim, ServerBusy,
         ServerReject, ServerSpawnFails, ServerUndo
  <2>3. ASSUME NEW c \in Connections, ClientTask(c) PROVE AuthInv'
    <3>1. UNCHANGED <<macs, nonces>>
      BY <2>3 DEF ClientTask, peerVars
    <3>2. /\ \A d \in Connections \ {c} : session'[d] = session[d] /\ task'[d] = task[d]
          /\ \/ session'[c].bridge_nonce = session[c].bridge_nonce
                /\ (session'[c].state = "Closed" <=> session[c].state = "Closed")
             \/ session'[c].bridge_nonce = 0 /\ session'[c].state = "Closed"
          /\ session'[c].state \in {"Authenticated", "Proxying"} => c \in Paired
          /\ PlaceOk(c)'
          /\ granted' \subseteq granted \cup (IF c \in Paired THEN {c} ELSE {})
      BY <2>3, ClientTaskSession
    <3>3. NonceInv'
      BY <2>1, <3>1, <3>2 DEF AuthInv, NonceInv
    <3>4. PrivilegeInv'
      BY <3>2 DEF AuthInv, PrivilegeInv, PlaceOk, GrantedIsPaired
    <3> QED
      BY <3>3, <3>4 DEF AuthInv
  <2>4. ASSUME NEW c \in Connections, NEW m \in Messages(c), PeerSend(c, m),
               UNCHANGED <<task, session, nonces, granted>>
        PROVE  AuthInv'
    <3>1. macs' \subseteq macs \cup Codes(c)
      BY <2>4, SentCodes
    <3>2. ASSUME NEW a \in Codes(c) \ macs
          PROVE  a.bridge = 0 \/ (c \in Paired /\ a.bridge = session[c].bridge_nonce)
      BY <3>2 DEF Codes, Guess, AuthMaterial
    <3>3. NonceInv'
      BY <2>1, <2>4, <3>1, <3>2 DEF AuthInv, NonceInv
    <3> QED
      BY <2>4, <3>3 DEF AuthInv, PrivilegeInv, PlaceOk, GrantedIsPaired
  <2>5. CASE Environment
    <3>1. UNCHANGED <<task, session, nonces, granted>>
      BY <2>5 DEF Environment, taskVars, histVars
    <3>2. CASE UNCHANGED macs
      BY <3>1, <3>2 DEF AuthInv, NonceInv, PrivilegeInv, PlaceOk, GrantedIsPaired
    <3> QED
      BY <2>4, <2>5, <3>1, <3>2 DEF Environment, PeerConnect, PeerClose, LinkChanges,
         peerVars
  <2>6. CASE (\E c \in Connections : WriterShuts(c)) \/ UNCHANGED vars
    <3>1. UNCHANGED <<task, session, nonces, macs, granted>>
      BY <2>6 DEF WriterShuts, vars, taskVars, peerVars, histVars
    <3> QED
      BY <3>1 DEF AuthInv, NonceInv, PrivilegeInv, PlaceOk, GrantedIsPaired
  <2> QED
    BY <2>2, <2>3, <2>5, <2>6 DEF Next
<1> QED
  BY <1>1, <1>2, ServerTypeCorrect, PTL DEF Spec

\* Ok to a privileged command goes only to a peer that holds the pairing secret,
\* for any number of connections, any order of messages and any repetition of
\* codes seen before: the nonces of esp_fill_random are new for every session, and
\* nothing but a code over them moves a session to Authenticated.
THEOREM PrivilegeIsEarned == Spec => []GrantedIsPaired
<1>1. AuthInv => GrantedIsPaired
  BY DEF AuthInv, PrivilegeInv
<1> QED
  BY <1>1, AuthIsKept, PTL

\* A session of bridge_session.c never goes back, for any number of connections: a
\* repeated Hello or Authenticate changes nothing, and nothing reopens a session
\* while its client task exists.
THEOREM SessionsAdvance == Spec => SessionOnlyAdvances
<1>1. ServerTypeOK /\ AuthInv /\ SlotInv /\ [Next]_vars
        => [\A c \in Connections :
                task[c] # "none" => Rank(session'[c]) >= Rank(session[c])]_vars
  <2> SUFFICES ASSUME ServerTypeOK, AuthInv, SlotInv, Next,
                      NEW c \in Connections, task[c] # "none"
               PROVE  Rank(session'[c]) >= Rank(session[c])
    OBVIOUS
  <2>1. session \in [Connections -> Sessions]
    BY DEF ServerTypeOK
  <2>2. session[c].state \in SessionStates
    BY <2>1 DEF Sessions
  <2>3. Rank(session[c]) \in 1..5
    BY <2>2 DEF Rank, SessionStates
  <2>4. CASE session'[c] = session[c]
    <3>1. Rank(session'[c]) = Rank(session[c])
      BY <2>4
    <3> QED
      BY <2>3, <3>1
  <2>5. ASSUME NEW d \in Connections, ServerTask(d) PROVE session'[c] = session[c]
    <3>1. ~ServerSpawn(d)
      BY DEF ServerSpawn, SlotInv
    <3> QED
      BY <2>5, <3>1 DEF ServerTask, ServerAccept, ServerClaim, ServerBusy, ServerReject,
         ServerSpawnFails, ServerUndo
  <2>6. ASSUME NEW d \in Connections, ClientTask(d), session'[c] # session[c]
        PROVE  d = c
    BY <2>6, ClientTaskSession
  <2>7. CASE ClientTask(c)
    <3>1. CASE HandleHello(c)
      <4>1. \/ session'[c] = session[c]
            \/ /\ session[c].state = "AwaitingHello"
               /\ session'[c].state = "AwaitingAuthentication"
        BY <2>1, <3>1 DEF HandleHello, SetSession, AcceptsHello, Sessions
      <4>2. ASSUME session[c].state = "AwaitingHello", session'[c].state = "AwaitingAuthentication"
            PROVE  Rank(session'[c]) >= Rank(session[c])
        BY <4>2 DEF Rank
      <4> QED
        BY <2>4, <4>1, <4>2
    <3>2. CASE HandleAuthenticate(c)
      <4>1. \/ session'[c] = session[c]
            \/ /\ session[c].state = "AwaitingAuthentication"
               /\ session'[c].state = "Authenticated"
        BY <2>1, <3>2 DEF HandleAuthenticate, SetSession, AcceptsCode, Sessions
      <4>2. ASSUME session[c].state = "AwaitingAuthentication", session'[c].state = "Authenticated"
            PROVE  Rank(session'[c]) >= Rank(session[c])
        BY <4>2 DEF Rank
      <4> QED
        BY <2>4, <4>1, <4>2
    <3>3. CASE BeginOpens(c)
      <4>1. session[c].state = "Authenticated"
        BY <3>3 DEF BeginOpens, AuthInv, PrivilegeInv, PlaceOk
      <4> QED
        BY <2>1, <3>3, <4>1 DEF BeginOpens, SetSession, Rank, Sessions
    <3>4. CASE ClientClose(c)
      <4>1. session'[c].state = "Closed"
        BY <2>1, <3>4 DEF ClientClose, SetSession, ClosedSession
      <4>2. Rank(session'[c]) = 5
        BY <4>1 DEF Rank
      <4> QED
        BY <2>3, <4>2
    <3>5. CASE session' = session
      BY <2>4, <3>5
    <3> QED
      BY <2>7, <3>1, <3>2, <3>3, <3>4, <3>5 DEF ClientTask, Management, RawMode, Ending,
         ManageRecv, ManageEnd, HandleQuery, HandleBegin, BeginRefused, BeginAsks,
         BeginUnavailable, HandleRefused, HandleFatal, ClientRelease
  <2>8. CASE Environment \/ \E d \in Connections : WriterShuts(d)
    BY <2>4, <2>8 DEF Environment, WriterShuts, taskVars
  <2> QED
    BY <2>4, <2>5, <2>6, <2>7, <2>8 DEF Next
<1> QED
  BY <1>1, ServerTypeCorrect, AuthIsKept, SlotIsKept, PTL DEF Spec, SessionOnlyAdvances

-----------------------------------------------------------------------------
(* The RPC session and its client                                           *)

\* Which client task stands behind each use of the transport.
UserInv ==
    /\ SessionIsUsed
    /\ user = "starting" => \E c \in Connections : task[c] = "beginning"
    /\ user = "inside" =>
          \E c \in Connections : task[c] \in {"begun", "proxy", "raw", "end"}
    /\ user = "stopping" => \E c \in Connections : task[c] = "stopping"

\* A client task in one of these places leaves it only with the action of
\* ExpansionLink that says so.
LEMMA ClientTaskUses ==
    ASSUME ServerTypeOK, UserInv, NEW c \in Connections, ClientTask(c)
    PROVE  UserInv'
<1>1. task \in [Connections -> Places] /\ LinkTypeOk
  BY DEF ServerTypeOK
<1>2. \A d \in Connections \ {c} : task'[d] = task[d]
  BY <1>1, ClientTaskMoves
<1> USE DEF UserInv, SessionIsUsed, LinkTypeOk, Goto
<1>3. CASE BeginAsks(c)
  BY <1>1, <1>2, <1>3 DEF BeginAsks, Ask
<1>4. CASE BeginUnavailable(c)
  BY <1>1, <1>4 DEF BeginUnavailable, Refuse
<1>5. CASE BeginOpens(c)
  BY <1>1, <1>2, <1>5 DEF BeginOpens, Open
<1>6. CASE EndRpcAsks(c)
  BY <1>1, <1>2, <1>6 DEF EndRpcAsks, Stop
<1>7. CASE EndRpcReturns(c) \/ (ProxyEnter(c) /\ Leave)
  BY <1>1, <1>7 DEF EndRpcReturns, Closed, StopFails, Leave
<1>8. ASSUME UNCHANGED linkVars,
             \/ task[c] \notin RpcPlaces \cup {"beginning"}
             \/ task[c] # "stopping" /\ task[c] \in RpcPlaces
                /\ task'[c] \in {"begun", "proxy", "raw", "end"}
      PROVE  UserInv'
  BY <1>1, <1>2, <1>8 DEF linkVars, RpcPlaces
<1>9. CASE Management(c)
  <2>1. CASE HandleBegin(c)
    BY <1>3, <1>4, <1>5, <1>8, <2>1 DEF HandleBegin, BeginRefused, Request, RpcPlaces
  <2>2. CASE ~HandleBegin(c)
    BY <1>8, <1>9, <2>2 DEF Management, ManageRecv, ManageEnd, HandleHello,
       HandleAuthenticate, HandleQuery, HandleRefused, HandleFatal, Request, RpcPlaces,
       linkVars
  <2> QED
    BY <2>1, <2>2
<1>10. CASE RawMode(c)
  <2>1. CASE EndRpc(c)
    BY <1>6, <1>7, <2>1 DEF EndRpc
  <2>2. CASE ProxyEnter(c)
    BY <1>1, <1>7, <1>8, <2>2 DEF ProxyEnter, RpcPlaces
  <2>3. CASE BeginAnswered(c) \/ BeginUnanswered(c) \/ ProxySend(c) \/ ProxyRecv(c)
               \/ ProxyEnd(c)
    BY <1>1, <1>8, <2>3 DEF BeginAnswered, BeginUnanswered, ProxySend, ProxyRecv, ProxyEnd,
       ProxyEnds, RpcPlaces
  <2> QED
    BY <1>10, <2>1, <2>2, <2>3 DEF RawMode
<1>11. CASE Ending(c)
  BY <1>8, <1>11 DEF Ending, ClientClose, ClientRelease, RpcPlaces
<1> QED
  BY <1>9, <1>10, <1>11 DEF ClientTask

\* An RPC session on the Flipper, and a request for one or for its end, always has
\* its authenticated client task, for any number of connections and whatever
\* ExpansionLink lets the transport do: no error path of handle_authenticated_command
\* or rpc_proxy_run forgets end_rpc.
THEOREM NoSessionWithoutClient == Spec => []RpcHasItsClient
<1>1. Init => UserInv
  BY DEF Init, LinkInit, UserInv, SessionIsUsed
<1>2. ServerTypeOK /\ SlotInv /\ UserInv /\ [Next]_vars => UserInv'
  <2> SUFFICES ASSUME ServerTypeOK, SlotInv, UserInv, [Next]_vars PROVE UserInv'
    OBVIOUS
  <2>1. ASSUME NEW c \in Connections, ServerTask(c) PROVE UserInv'
    <3>1. UNCHANGED linkVars
      BY <2>1 DEF ServerTask
    <3>2. \A d \in Connections : task[d] # "none" => task'[d] = task[d]
      BY <2>1 DEF ServerTask, ServerAccept, ServerClaim, ServerBusy, ServerReject,
         ServerSpawn, ServerSpawnFails, ServerUndo, SlotInv
    <3> QED
      BY <3>1, <3>2 DEF UserInv, SessionIsUsed, linkVars
  <2>2. CASE Environment
    <3>1. task' = task
      BY <2>2 DEF Environment, taskVars
    <3>2. user' = user /\ (link' = link \/ link' # "rpc")
      BY <2>2 DEF Environment, PeerConnect, PeerClose, PeerSend, LinkChanges, LinkUp,
         LinkDown, linkVars
    <3> QED
      BY <3>1, <3>2 DEF UserInv, SessionIsUsed
  <2>3. CASE (\E c \in Connections : WriterShuts(c)) \/ UNCHANGED vars
    BY <2>3 DEF WriterShuts, vars, taskVars, linkVars, UserInv, SessionIsUsed
  <2> QED
    BY <2>1, <2>2, <2>3, ClientTaskUses DEF Next
<1>3. UserInv /\ AuthInv => RpcHasItsClient
  BY DEF UserInv, SessionIsUsed, AuthInv, PrivilegeInv, PlaceOk, RpcPlaces,
     RpcHasItsClient
<1> QED
  BY <1>1, <1>2, <1>3, ServerTypeCorrect, SlotIsKept, AuthIsKept, PTL DEF Spec

-----------------------------------------------------------------------------
(* The raw stream                                                          *)

\* The units of a connection, in the three places they pass through, are numbered
\* without a gap, and the last of them is the last one sent.
Numbered(w, in, f, last) ==
    /\ \A i \in 1..Len(w)  : w[i].n  = last - Len(w) + i
    /\ \A i \in 1..Len(in) : in[i].n = last - Len(w) - Len(in) + i
    /\ \A i \in 1..Len(f)  : f[i]    = last - Len(w) - Len(in) - Len(f) + i

\* At which places of the client task each buffer is empty; and as long as nothing
\* of the stream is given up, the three are numbered.
StreamAt(place, in, w, f, last) ==
    /\ place \in {"none", "release"} => w = <<>> /\ f = <<>>
    /\ place \in {"none", "release", "done", "recv"} => in = <<>>
    /\ place \in {"recv", "decode", "beginning"} => f = <<>>
    /\ place \in {"recv", "decode", "beginning", "begun", "proxy", "raw"} =>
          Numbered(w, in, f, last)

\* Why the raw stream is intact.
StreamInv ==
    /\ forwarded \in [Connections -> Seq(Nat)]
    /\ \A c \in Connections :
          StreamAt(task[c], input[c], wire[c], forwarded[c], sent[c])

\* The numbers of some units, as send_rpc's history keeps them.
NumbersOf(u) == [i \in DOMAIN u |-> u[i].n]

\* They are as many numbers as units.
LEMMA NumbersType ==
    ASSUME NEW M, NEW u \in Seq([n : Nat, m : M])
    PROVE  /\ NumbersOf(u) \in Seq(Nat) /\ Len(NumbersOf(u)) = Len(u)
           /\ \A i \in 1..Len(u) : NumbersOf(u)[i] = u[i].n
<1>1. Len(u) \in Nat /\ DOMAIN u = 1..Len(u)
  BY LenProperties
<1>2. ASSUME NEW i \in 1..Len(u) PROVE u[i].n \in Nat
  <2>1. u[i] \in [n : Nat, m : M]
    BY ElementOfSeq
  <2> QED
    BY <2>1
<1>3. NumbersOf(u) = [i \in 1..Len(u) |-> u[i].n]
  BY <1>1 DEF NumbersOf
<1> QED
  BY <1>1, <1>2, <1>3

\* recv moves the first units of what has arrived to the empty input.
LEMMA NumberedReceive ==
    ASSUME NEW M, NEW w \in Seq([n : Nat, m : M]), NEW f \in Seq(Nat), NEW last \in Nat,
           Numbered(w, <<>>, f, last), NEW n \in 1..Len(w)
    PROVE  Numbered(SubSeq(w, n + 1, Len(w)), SubSeq(w, 1, n), f, last)
<1> DEFINE rest  == SubSeq(w, n + 1, Len(w))
           taken == SubSeq(w, 1, n)
           U     == [n : Nat, m : M]
<1>1. Len(w) \in Nat /\ \A i \in 1..Len(w) : w[i] \in U
  BY LenProperties, ElementOfSeq
<1>2. Len(rest) = Len(w) - n /\ \A i \in 1..Len(w) - n : rest[i] = w[n + i]
  <2> DEFINE k == n + 1
  <2>1. k \in Int /\ Len(w) \in Int /\ \A i \in k..Len(w) : w[i] \in U
    BY <1>1
  <2> HIDE DEF k, U
  <2>2. /\ Len(SubSeq(w, k, Len(w))) = IF k <= Len(w) THEN Len(w) - k + 1 ELSE 0
        /\ \A i \in 1..Len(w) - k + 1 : SubSeq(w, k, Len(w))[i] = w[k + i - 1]
    BY <2>1, SubSeqProperties
  <2>3. Len(w) - k + 1 = Len(w) - n /\ \A i \in Int : k + i - 1 = n + i
    BY <1>1 DEF k
  <2>4. Len(SubSeq(w, k, Len(w))) = Len(w) - n
    BY <1>1, <2>2 DEF k
  <2>5. ASSUME NEW i \in 1..Len(w) - n PROVE SubSeq(w, k, Len(w))[i] = w[n + i]
    <3>1. i \in 1..Len(w) - k + 1 /\ k + i - 1 = n + i
      BY <1>1, <2>3
    <3>2. SubSeq(w, k, Len(w))[i] = w[k + i - 1]
      BY <2>2, <3>1
    <3> QED
      BY <3>1, <3>2
  <2> QED
    BY <2>4, <2>5 DEF k
<1>3. Len(taken) = n /\ \A i \in 1..n : taken[i] = w[i]
  BY <1>1, SubSeqProperties
<1>4. Len(f) \in Nat /\ Len(<<>>) = 0
  BY LenProperties, EmptySeq
<1> HIDE DEF rest, taken, U
<1>5. ASSUME NEW i \in 1..Len(rest) PROVE rest[i].n = last - Len(rest) + i
  <2>1. n + i \in 1..Len(w) /\ rest[i] = w[n + i]
    BY <1>1, <1>2
  <2>2. w[n + i].n = last - Len(w) + (n + i)
    BY <2>1 DEF Numbered
  <2> QED
    BY <1>1, <1>2, <2>1, <2>2
<1>6. ASSUME NEW i \in 1..Len(taken)
      PROVE  taken[i].n = last - Len(rest) - Len(taken) + i
  <2>1. i \in 1..Len(w) /\ taken[i] = w[i]
    BY <1>1, <1>3
  <2>2. w[i].n = last - Len(w) + i
    BY <2>1 DEF Numbered
  <2>3. last - Len(rest) - Len(taken) = last - Len(w)
    BY <1>1, <1>2, <1>3
  <2> QED
    BY <2>1, <2>2, <2>3
<1>7. \A i \in 1..Len(f) : f[i] = last - Len(rest) - Len(taken) - Len(f) + i
  BY <1>1, <1>2, <1>3, <1>4 DEF Numbered
<1> QED
  BY <1>5, <1>6, <1>7 DEF Numbered, rest, taken

\* A management message is used up; BeginRPCProxy's number is where the raw stream
\* begins.
LEMMA NumberedNext ==
    ASSUME NEW M, NEW w \in Seq([n : Nat, m : M]), NEW in \in Seq([n : Nat, m : M]),
           NEW last \in Nat, Numbered(w, in, <<>>, last), in # <<>>
    PROVE  /\ Numbered(w, Tail(in), <<>>, last)
           /\ Numbered(w, Tail(in), <<Head(in).n>>, last)
<1> DEFINE tail == Tail(in)
           h    == <<Head(in).n>>
<1>1. /\ Len(w) \in Nat /\ Len(in) \in Nat \ {0} /\ Len(tail) = Len(in) - 1
      /\ \A i \in 1..Len(tail) : tail[i] = in[i + 1]
  BY LenProperties, EmptySeq, HeadTailProperties
<1>2. Len(h) = 1 /\ h[1] = in[1].n
  OBVIOUS
<1>3. Len(<<>>) = 0
  OBVIOUS
<1> HIDE DEF tail, h
<1>4. \A i \in 1..Len(w) : w[i].n = last - Len(w) + i
  BY DEF Numbered
<1>5. ASSUME NEW i \in 1..Len(tail) PROVE tail[i].n = last - Len(w) - Len(tail) + i
  <2>1. i + 1 \in 1..Len(in) /\ tail[i] = in[i + 1]
    BY <1>1
  <2>2. in[i + 1].n = last - Len(w) - Len(in) + (i + 1)
    BY <2>1 DEF Numbered
  <2> QED
    BY <1>1, <2>1, <2>2
<1>6. \A i \in 1..Len(h) : h[i] = last - Len(w) - Len(tail) - Len(h) + i
  BY <1>1, <1>2 DEF Numbered
<1>7. Numbered(w, tail, <<>>, last)
  BY <1>3, <1>4, <1>5 DEF Numbered
<1>8. Numbered(w, tail, h, last)
  BY <1>4, <1>5, <1>6 DEF Numbered
<1> QED
  BY <1>7, <1>8 DEF tail, h

\* send_rpc is given all of the input.
LEMMA NumberedSend ==
    ASSUME NEW M, NEW w \in Seq([n : Nat, m : M]), NEW in \in Seq([n : Nat, m : M]),
           NEW f \in Seq(Nat), NEW last \in Nat, Numbered(w, in, f, last)
    PROVE  Numbered(w, <<>>, f \o NumbersOf(in), last)
<1> DEFINE all == f \o NumbersOf(in)
<1>1. Len(w) \in Nat /\ Len(in) \in Nat /\ Len(f) \in Nat /\ Len(<<>>) = 0
  BY LenProperties, EmptySeq
<1>2. /\ NumbersOf(in) \in Seq(Nat) /\ Len(NumbersOf(in)) = Len(in)
      /\ \A i \in 1..Len(in) : NumbersOf(in)[i] = in[i].n
  BY NumbersType
<1>3. /\ Len(all) = Len(f) + Len(in)
      /\ \A i \in 1..Len(f) + Len(in) :
            all[i] = IF i <= Len(f) THEN f[i] ELSE NumbersOf(in)[i - Len(f)]
  <2> DEFINE q == NumbersOf(in)
  <2>1. q \in Seq(Nat) /\ Len(q) = Len(in)
    BY <1>2
  <2> HIDE DEF q
  <2>2. /\ Len(f \o q) = Len(f) + Len(q)
        /\ \A i \in 1..Len(f) + Len(q) :
              (f \o q)[i] = IF i <= Len(f) THEN f[i] ELSE q[i - Len(f)]
    BY <2>1, ConcatProperties
  <2> QED
    BY <2>1, <2>2 DEF q
<1> HIDE DEF all
<1>4. \A i \in 1..Len(f) : all[i] = last - Len(w) - Len(all) + i
  BY <1>1, <1>3, SMTT(60) DEF Numbered
<1>5. ASSUME NEW i \in 1..Len(all), ~(i <= Len(f))
      PROVE  all[i] = last - Len(w) - Len(all) + i
  <2>1. i - Len(f) \in 1..Len(in) /\ all[i] = NumbersOf(in)[i - Len(f)]
    BY <1>1, <1>3, <1>5
  <2>2. all[i] = in[i - Len(f)].n
    BY <1>2, <2>1
  <2>3. in[i - Len(f)].n = last - Len(w) - Len(in) + (i - Len(f))
    BY <2>1 DEF Numbered
  <2> QED
    BY <1>1, <1>3, <2>2, <2>3
<1>6. \A i \in 1..Len(all) : all[i] = last - Len(w) - Len(<<>>) - Len(all) + i
  BY <1>1, <1>3, <1>4, <1>5
<1>7. /\ \A i \in 1..Len(w) : w[i].n = last - Len(w) + i
      /\ \A i \in 1..Len(<<>>) : <<>>[i].n = last - Len(w) - Len(<<>>) + i
  BY <1>1 DEF Numbered
<1> QED
  BY <1>6, <1>7 DEF Numbered, all

\* The peer sends one more unit.
LEMMA NumberedAppend ==
    ASSUME NEW M, NEW w \in Seq([n : Nat, m : M]), NEW in \in Seq([n : Nat, m : M]),
           NEW f \in Seq(Nat), NEW last \in Nat, Numbered(w, in, f, last),
           NEW u \in [n : Nat, m : M], u.n = last + 1
    PROVE  Numbered(Append(w, u), in, f, last + 1)
<1> DEFINE more == Append(w, u)
<1>1. Len(w) \in Nat /\ Len(in) \in Nat /\ Len(f) \in Nat
  BY LenProperties
<1>2. /\ Len(more) = Len(w) + 1 /\ more[Len(w) + 1] = u
      /\ \A i \in 1..Len(w) : more[i] = w[i]
  BY AppendProperties
<1> HIDE DEF more
<1>3. ASSUME NEW i \in 1..Len(more) PROVE more[i].n = last + 1 - Len(more) + i
  <2>1. CASE i \in 1..Len(w)
    <3>1. more[i] = w[i] /\ w[i].n = last - Len(w) + i
      BY <1>2, <2>1 DEF Numbered
    <3> QED
      BY <1>1, <1>2, <3>1
  <2>2. CASE i = Len(w) + 1
    <3>1. more[i].n = last + 1
      BY <1>2, <2>2
    <3> QED
      BY <1>1, <1>2, <2>2, <3>1
  <2> QED
    BY <1>1, <1>2, <2>1, <2>2
<1>4. /\ \A i \in 1..Len(in) : in[i].n = last + 1 - Len(more) - Len(in) + i
      /\ \A i \in 1..Len(f) : f[i] = last + 1 - Len(more) - Len(in) - Len(f) + i
  BY <1>1, <1>2 DEF Numbered
<1> QED
  BY <1>3, <1>4 DEF Numbered, more

\* A stream without a gap, as RawStreamIntact has it.
Gapless(s) == \A i \in DOMAIN s : s[i] = s[1] + i - 1

\* Numbered without a gap in its three places is without a gap as one stream.
LEMMA NumberedIsGapless ==
    ASSUME NEW M, NEW w \in Seq([n : Nat, m : M]), NEW in \in Seq([n : Nat, m : M]),
           NEW f \in Seq(Nat), NEW last \in Nat, Numbered(w, in, f, last)
    PROVE  Gapless(f \o NumbersOf(in) \o NumbersOf(w))
<1> DEFINE all    == f \o NumbersOf(in)
           stream == all \o NumbersOf(w)
<1>1. Len(w) \in Nat /\ Len(in) \in Nat /\ Len(f) \in Nat /\ Len(<<>>) = 0
  BY LenProperties, EmptySeq
<1>2. /\ NumbersOf(in) \in Seq(Nat) /\ NumbersOf(w) \in Seq(Nat)
      /\ Len(NumbersOf(in)) = Len(in) /\ Len(NumbersOf(w)) = Len(w)
      /\ \A i \in 1..Len(w) : NumbersOf(w)[i] = w[i].n
  BY NumbersType
<1>3. all \in Seq(Nat)
  BY <1>2, ConcatProperties
<1>4. Numbered(w, <<>>, all, last)
  BY NumberedSend
<1> HIDE DEF all
<1>5. stream = all \o NumbersOf(w)
  OBVIOUS
<1> HIDE DEF stream
<1>6. /\ stream \in Seq(Nat) /\ Len(stream) = Len(all) + Len(w)
      /\ \A i \in 1..Len(all) + Len(w) :
            stream[i] = IF i <= Len(all) THEN all[i] ELSE NumbersOf(w)[i - Len(all)]
  <2> DEFINE q == NumbersOf(w)
  <2>1. q \in Seq(Nat) /\ Len(q) = Len(w)
    BY <1>2
  <2> HIDE DEF q
  <2>2. /\ all \o q \in Seq(Nat) /\ Len(all \o q) = Len(all) + Len(q)
        /\ \A i \in 1..Len(all) + Len(q) :
              (all \o q)[i] = IF i <= Len(all) THEN all[i] ELSE q[i - Len(all)]
    BY <1>3, <2>1, ConcatProperties
  <2> QED
    BY <1>5, <2>1, <2>2 DEF q
<1>7. DOMAIN stream = 1..Len(stream) /\ Len(all) \in Nat
  BY <1>3, <1>6, LenProperties
<1>8. ASSUME NEW i \in 1..Len(stream) PROVE stream[i] = last - Len(stream) + i
  <2>0. /\ i \in 1..Len(all) + Len(w)
        /\ stream[i] = IF i <= Len(all) THEN all[i] ELSE NumbersOf(w)[i - Len(all)]
    BY <1>6
  <2>1. CASE i <= Len(all)
    <3>1. i \in 1..Len(all) /\ stream[i] = all[i]
      BY <1>1, <1>7, <2>0, <2>1
    <3>2. all[i] = last - Len(w) - Len(<<>>) - Len(all) + i
      BY <1>4, <3>1 DEF Numbered
    <3> QED
      BY <1>1, <1>6, <1>7, <3>1, <3>2
  <2>2. CASE ~(i <= Len(all))
    <3>1. i - Len(all) \in 1..Len(w) /\ stream[i] = NumbersOf(w)[i - Len(all)]
      BY <1>1, <1>7, <2>0, <2>2
    <3>2. stream[i] = w[i - Len(all)].n
      BY <1>2, <3>1
    <3>3. w[i - Len(all)].n = last - Len(w) + (i - Len(all))
      BY <1>4, <3>1 DEF Numbered
    <3> QED
      BY <1>1, <1>6, <1>7, <3>2, <3>3
  <2> QED
    BY <2>1, <2>2
<1>9. Len(stream) \in Nat
  BY <1>1, <1>6, <1>7
<1>10. ASSUME NEW i \in 1..Len(stream) PROVE stream[i] = stream[1] + i - 1
  <2>1. 1 \in 1..Len(stream)
    BY <1>9
  <2>2. stream[1] = last - Len(stream) + 1 /\ stream[i] = last - Len(stream) + i
    BY <1>8, <2>1
  <2> QED
    BY <1>9, <2>2
<1> QED
  BY <1>7, <1>10 DEF Gapless, stream, all

\* A step of a client task keeps what it has received and forwarded in order, or
\* gives the stream up for good.
LEMMA ClientTaskStream ==
    ASSUME ServerTypeOK, StreamInv, NEW c \in Connections, ClientTask(c)
    PROVE  StreamInv'
<1> DEFINE M == SimpleMessages \cup {AuthMessage(a) : a \in macs}
           U == [n : Nat, m : M]
<1>1. /\ input \in [Connections -> Seq(U)] /\ wire \in [Connections -> Seq(U)]
      /\ task \in [Connections -> Places] /\ sent \in [Connections -> Nat]
      /\ task[c] \in {"decode", "beginning"} => input[c] # <<>>
  BY DEF ServerTypeOK, Units
<1>2. forwarded \in [Connections -> Seq(Nat)] /\ sent' = sent
  BY DEF StreamInv, ClientTask, peerVars
<1>3. StreamAt(task[c], input[c], wire[c], forwarded[c], sent[c])
  BY DEF StreamInv
<1>4. /\ input[c] \in Seq(U) /\ wire[c] \in Seq(U) /\ forwarded[c] \in Seq(Nat)
      /\ sent[c] \in Nat
  BY <1>1, <1>2
<1>5. <<>> \in Seq(Nat)
  BY EmptySeq
<1> HIDE DEF M
<1>6. ASSUME NEW p, NEW in, NEW w, NEW f \in Seq(Nat),
             task' = [task EXCEPT ![c] = p], input' = [input EXCEPT ![c] = in],
             wire' = [wire EXCEPT ![c] = w], forwarded' = [forwarded EXCEPT ![c] = f],
             StreamAt(p, in, w, f, sent[c])
      PROVE  StreamInv'
  <2>1. /\ task'[c] = p /\ input'[c] = in /\ wire'[c] = w /\ forwarded'[c] = f
        /\ forwarded' \in [Connections -> Seq(Nat)]
    BY <1>1, <1>2, <1>6
  <2>2. \A d \in Connections \ {c} :
           /\ task'[d] = task[d] /\ input'[d] = input[d]
           /\ wire'[d] = wire[d] /\ forwarded'[d] = forwarded[d]
    BY <1>1, <1>2, <1>6
  <2>3. StreamAt(task'[c], input'[c], wire'[c], forwarded'[c], sent'[c])
    BY <1>2, <1>6, <2>1
  <2>4. ASSUME NEW d \in Connections \ {c}
        PROVE  StreamAt(task'[d], input'[d], wire'[d], forwarded'[d], sent'[d])
    BY <1>2, <2>2 DEF StreamInv
  <2> QED
    BY <2>1, <2>3, <2>4 DEF StreamInv
<1>7. /\ task = [task EXCEPT ![c] = task[c]] /\ input = [input EXCEPT ![c] = input[c]]
      /\ wire = [wire EXCEPT ![c] = wire[c]]
      /\ forwarded = [forwarded EXCEPT ![c] = forwarded[c]]
  BY <1>1, <1>2
<1>8. ASSUME Receive(c), UNCHANGED forwarded, input[c] = <<>>,
             \/ task[c] = "recv" /\ Goto(c, "decode")
             \/ task[c] = "raw" /\ UNCHANGED task
      PROVE  StreamInv'
  <2>1. PICK n \in 1..Len(wire[c]) :
            /\ input' = [input EXCEPT ![c] = SubSeq(wire[c], 1, n)]
            /\ wire' = [wire EXCEPT ![c] = SubSeq(wire[c], n + 1, Len(wire[c]))]
    BY <1>8 DEF Receive
  <2>2. Numbered(wire[c], <<>>, forwarded[c], sent[c])
    BY <1>3, <1>8 DEF StreamAt
  <2>3. Numbered(SubSeq(wire[c], n + 1, Len(wire[c])), SubSeq(wire[c], 1, n),
                 forwarded[c], sent[c])
    BY <1>4, <2>2, NumberedReceive
  <2>4. task[c] = "recv" => forwarded[c] = <<>>
    BY <1>3 DEF StreamAt
  <2>5. \A p \in {"decode", "raw"} : (p = "decode" => task[c] = "recv") =>
           StreamAt(p, SubSeq(wire[c], 1, n), SubSeq(wire[c], n + 1, Len(wire[c])),
                    forwarded[c], sent[c])
    BY <2>3, <2>4 DEF StreamAt
  <2>6. CASE task[c] = "recv" /\ Goto(c, "decode")
    BY <1>4, <1>6, <1>7, <1>8, <2>1, <2>5, <2>6 DEF Goto
  <2>7. CASE task[c] = "raw" /\ UNCHANGED task
    BY <1>4, <1>6, <1>7, <1>8, <2>1, <2>5, <2>7
  <2> QED
    BY <1>8, <2>6, <2>7
<1>9. ASSUME Quit(c), UNCHANGED <<wire, forwarded>> PROVE StreamInv'
  <2>1. StreamAt("done", <<>>, wire[c], forwarded[c], sent[c])
    BY DEF StreamAt
  <2> QED
    BY <1>4, <1>6, <1>7, <1>9, <2>1 DEF Quit, Goto
<1>10. ASSUME NextMessage(c), task[c] \in {"decode", "beginning"},
              UNCHANGED <<wire, forwarded>>
       PROVE  StreamInv'
  <2> DEFINE p == IF Len(input[c]) = 1 THEN "recv" ELSE "decode"
  <2>1. forwarded[c] = <<>> /\ Numbered(wire[c], input[c], <<>>, sent[c])
    BY <1>3, <1>10 DEF StreamAt
  <2>2. Numbered(wire[c], Tail(input[c]), <<>>, sent[c])
    BY <1>1, <1>4, <1>10, <2>1, NumberedNext
  <2>3. Len(input[c]) = 1 => Tail(input[c]) = <<>>
    <3>1. Tail(input[c]) \in Seq(U) /\ Len(Tail(input[c])) = Len(input[c]) - 1
      BY <1>1, <1>4, <1>10, HeadTailProperties
    <3>2. Tail(input[c]) # <<>> => Len(Tail(input[c])) \in Nat \ {0}
      BY <3>1, EmptySeq
    <3>3. Len(input[c]) = 1 => Len(Tail(input[c])) = 0
      BY <3>1
    <3> QED
      BY <3>2, <3>3
  <2>4. StreamAt(p, Tail(input[c]), wire[c], forwarded[c], sent[c])
    BY <2>1, <2>2, <2>3 DEF StreamAt
  <2> QED
    BY <1>4, <1>6, <1>7, <1>10, <2>4 DEF NextMessage, Goto
<1>11. CASE BeginOpens(c)
  <2>1. task[c] = "beginning" /\ input[c] # <<>>
    BY <1>1, <1>11 DEF BeginOpens
  <2>2. Numbered(wire[c], input[c], <<>>, sent[c])
    BY <1>3, <2>1 DEF StreamAt
  <2>3. Numbered(wire[c], Tail(input[c]), <<Head(input[c]).n>>, sent[c])
    BY <1>4, <2>1, <2>2, NumberedNext
  <2>4. StreamAt("begun", Tail(input[c]), wire[c], <<Head(input[c]).n>>, sent[c])
    BY <2>3 DEF StreamAt
  <2>5. <<Head(input[c]).n>> \in Seq(Nat)
    <3>1. Head(input[c]) \in U
      BY <1>4, <2>1, HeadTailProperties
    <3> QED
      BY <3>1
  <2> QED
    BY <1>6, <1>7, <1>11, <2>4, <2>5 DEF BeginOpens, Goto
<1>12. ASSUME NEW p \in Places, Goto(c, p), UNCHANGED <<input, wire, forwarded>>,
              \/ p \in {"end", "stopping"}
              \/ task[c] = "decode" /\ p = "beginning"
              \/ task[c] = "begun" /\ p = "proxy"
              \/ task[c] = "proxy" /\ p = "raw"
              \/ task[c] = "release" /\ p = "none"
       PROVE  StreamInv'
  <2>1. StreamAt(p, input[c], wire[c], forwarded[c], sent[c])
    BY <1>3, <1>12 DEF StreamAt
  <2> QED
    BY <1>4, <1>6, <1>7, <1>12, <2>1 DEF Goto
<1>13. CASE ProxySend(c)
  <2> DEFINE q == NumbersOf(input[c])
  <2>1. task[c] = "raw" /\ input' = [input EXCEPT ![c] = <<>>] /\ wire' = wire
    BY <1>13 DEF ProxySend
  <2>2. q \in Seq(Nat) /\ Len(q) \in Nat /\ \A i \in 1..Len(q) : q[i] \in Nat
    BY <1>4, NumbersType, LenProperties, ElementOfSeq
  <2>3. forwarded[c] \o q \in Seq(Nat)
    BY <1>4, <2>2, ConcatProperties
  <2>4. CASE /\ forwarded' = [forwarded EXCEPT ![c] = forwarded[c] \o q]
             /\ UNCHANGED task
    <3>1. Numbered(wire[c], input[c], forwarded[c], sent[c])
      BY <1>3, <2>1 DEF StreamAt
    <3>2. Numbered(wire[c], <<>>, forwarded[c] \o q, sent[c])
      BY <1>4, <3>1, NumberedSend
    <3>3. StreamAt(task[c], <<>>, wire[c], forwarded[c] \o q, sent[c])
      BY <2>1, <3>2 DEF StreamAt
    <3> QED
      BY <1>6, <1>7, <2>1, <2>3, <2>4, <3>3
  <2>5. ASSUME NEW n \in 0..Len(q),
               forwarded' = [forwarded EXCEPT ![c] = forwarded[c] \o SubSeq(q, 1, n)],
               Goto(c, "end")
        PROVE  StreamInv'
    <3>1. SubSeq(q, 1, n) \in Seq(Nat)
      BY <2>2, SubSeqProperties
    <3>2. forwarded[c] \o SubSeq(q, 1, n) \in Seq(Nat)
      BY <1>4, <3>1, ConcatProperties
    <3>3. StreamAt("end", <<>>, wire[c], forwarded[c] \o SubSeq(q, 1, n), sent[c])
      BY DEF StreamAt
    <3> QED
      BY <1>6, <1>7, <2>1, <2>5, <3>2, <3>3 DEF Goto
  <2>6. q = [i \in DOMAIN Outgoing(c) |-> Outgoing(c)[i].n]
    BY DEF Outgoing, NumbersOf
  <2> HIDE DEF q
  <2>7. \/ /\ forwarded' = [forwarded EXCEPT ![c] = forwarded[c] \o q]
           /\ UNCHANGED task
        \/ \E n \in 0..Len(q) :
              /\ forwarded' = [forwarded EXCEPT ![c] = forwarded[c] \o SubSeq(q, 1, n)]
              /\ Goto(c, "end")
    BY <1>13, <2>6 DEF ProxySend, ProxyEnds
  <2> QED
    BY <2>4, <2>5, <2>7
<1>14. CASE ClientClose(c) /\ UNCHANGED input
  <2>1. input[c] = <<>>
    BY <1>3, <1>14 DEF ClientClose, StreamAt
  <2>2. StreamAt("release", input[c], <<>>, <<>>, sent[c])
    BY <2>1 DEF StreamAt
  <2> QED
    BY <1>5, <1>6, <1>7, <1>14, <2>2 DEF ClientClose, Goto
<1>15. CASE Management(c)
  <2>1. CASE HandleBegin(c)
    BY <1>9, <1>10, <1>11, <1>12, <2>1 DEF HandleBegin, BeginRefused, BeginAsks,
       BeginUnavailable, Request, Respond, Places
  <2>2. CASE ManageRecv(c) /\ UNCHANGED forwarded
    <3>1. input[c] = <<>>
      BY <1>3, <2>2 DEF ManageRecv, StreamAt
    <3> QED
      BY <1>8, <2>2, <3>1 DEF ManageRecv
  <2>3. CASE (ManageEnd(c) \/ HandleFatal(c)) /\ UNCHANGED forwarded
    BY <1>9, <2>3 DEF ManageEnd, HandleFatal, Request
  <2>4. CASE (HandleHello(c) \/ HandleAuthenticate(c) \/ HandleQuery(c) \/ HandleRefused(c))
             /\ UNCHANGED forwarded
    BY <1>9, <1>10, <2>4 DEF HandleHello, HandleAuthenticate, HandleQuery, HandleRefused,
       Request, Respond
  <2> QED
    BY <1>15, <2>1, <2>2, <2>3, <2>4 DEF Management
<1>16. CASE RawMode(c)
  <2>1. CASE BeginAnswered(c) \/ BeginUnanswered(c) \/ ProxyEnd(c)
    BY <1>12, <2>1 DEF BeginAnswered, BeginUnanswered, ProxyEnd, ProxyEnds, Places
  <2>2. CASE ProxyEnter(c)
    BY <1>9, <1>12, <2>2 DEF ProxyEnter, Places
  <2>3. CASE ProxyRecv(c)
    BY <1>8, <2>3 DEF ProxyRecv
  <2>4. CASE EndRpc(c)
    BY <1>9, <1>12, <2>4 DEF EndRpc, EndRpcAsks, EndRpcReturns, Places
  <2> QED
    BY <1>13, <1>16, <2>1, <2>2, <2>3, <2>4 DEF RawMode
<1>17. CASE Ending(c)
  BY <1>12, <1>14, <1>17 DEF Ending, ClientRelease, Places
<1> QED
  BY <1>15, <1>16, <1>17 DEF ClientTask

\* The inductive invariant of the raw stream: where the units of each connection are
\* while its client task goes from recv to the proxy's loop.
THEOREM StreamIsKept == Spec => []StreamInv
<1>1. Init => StreamInv
  <2> SUFFICES ASSUME Init PROVE StreamInv
    OBVIOUS
  <2>1. forwarded \in [Connections -> Seq(Nat)]
    BY EmptySeq DEF Init
  <2>2. \A c \in Connections : /\ task[c] = "none" /\ input[c] = <<>>
                               /\ wire[c] = <<>> /\ forwarded[c] = <<>>
    BY DEF Init
  <2> QED
    BY <2>1, <2>2 DEF StreamInv, StreamAt
<1>2. ServerTypeOK /\ ServerTypeOK' /\ SlotInv /\ StreamInv /\ [Next]_vars => StreamInv'
  <2> SUFFICES ASSUME ServerTypeOK, ServerTypeOK', SlotInv, StreamInv, [Next]_vars
               PROVE  StreamInv'
    OBVIOUS
  <2>1. ASSUME NEW c \in Connections, ServerTask(c) PROVE StreamInv'
    <3>1. UNCHANGED <<input, wire, forwarded, sent>>
      BY <2>1 DEF ServerTask, peerVars, histVars
    <3>2. CASE ServerSpawn(c)
      <4>1. task[c] = "none" /\ task' = [task EXCEPT ![c] = "recv"]
        BY <3>2 DEF ServerSpawn, SlotInv
      <4>2. input[c] = <<>> /\ wire[c] = <<>> /\ forwarded[c] = <<>>
        BY <4>1 DEF StreamInv, StreamAt
      <4>3. StreamAt("recv", <<>>, <<>>, <<>>, sent[c])
        <5>1. Len(<<>>) = 0
          OBVIOUS
        <5> QED
          BY <5>1 DEF StreamAt, Numbered
      <4>4. StreamAt(task'[c], input'[c], wire'[c], forwarded'[c], sent'[c])
        BY <3>1, <4>1, <4>2, <4>3 DEF ServerTypeOK
      <4>5. \A d \in Connections \ {c} : task'[d] = task[d]
        BY <4>1 DEF ServerTypeOK
      <4>6. ASSUME NEW d \in Connections \ {c}
            PROVE  StreamAt(task'[d], input'[d], wire'[d], forwarded'[d], sent'[d])
        BY <3>1, <4>5 DEF StreamInv
      <4> QED
        BY <3>1, <4>4, <4>6 DEF StreamInv
    <3>3. CASE UNCHANGED task
      BY <3>1, <3>3 DEF StreamInv
    <3> QED
      BY <2>1, <3>2, <3>3 DEF ServerTask, ServerAccept, ServerClaim, ServerBusy,
         ServerReject, ServerSpawnFails, ServerUndo
  <2>2. ASSUME NEW c \in Connections, NEW m \in Messages(c), PeerSend(c, m),
               UNCHANGED <<task, input, forwarded>>
        PROVE  StreamInv'
    <3> DEFINE M == (SimpleMessages \cup {AuthMessage(a) : a \in macs})'
               u == [n |-> sent[c] + 1, m |-> m]
    <3>1. /\ wire' = [wire EXCEPT ![c] = Append(wire[c], u)]
          /\ sent' = [sent EXCEPT ![c] = sent[c] + 1]
          /\ task[c] \notin {"none", "release"} /\ m \in M
      BY <2>2, SentCodes DEF PeerSend, SimpleMessages
    <3>2. sent[c] \in Nat /\ wire[c] \in Seq(Units) /\ input[c] \in Seq(Units)
      BY DEF ServerTypeOK
    <3>3. Units \subseteq [n : Nat, m : M]
      BY <2>2, SentCodes DEF Units, SimpleMessages
    <3>4. u \in [n : Nat, m : M] /\ u.n = sent[c] + 1
      BY <3>1, <3>2
    <3> HIDE DEF M, u
    <3>5. wire[c] \in Seq([n : Nat, m : M]) /\ input[c] \in Seq([n : Nat, m : M])
      BY <3>2, <3>3, SeqMonotonic
    <3>6. forwarded[c] \in Seq(Nat)
      BY DEF StreamInv
    <3>7. Numbered(wire[c], input[c], forwarded[c], sent[c])
            => Numbered(Append(wire[c], u), input[c], forwarded[c], sent[c] + 1)
      BY <3>2, <3>4, <3>5, <3>6, NumberedAppend
    <3>8. StreamAt(task[c], input[c], Append(wire[c], u), forwarded[c], sent[c] + 1)
      BY <3>1, <3>7 DEF StreamInv, StreamAt
    <3>9. wire'[c] = Append(wire[c], u) /\ sent'[c] = sent[c] + 1
      BY <3>1 DEF ServerTypeOK
    <3>10. \A d \in Connections \ {c} : wire'[d] = wire[d] /\ sent'[d] = sent[d]
      BY <3>1 DEF ServerTypeOK
    <3>11. StreamAt(task'[c], input'[c], wire'[c], forwarded'[c], sent'[c])
      BY <2>2, <3>8, <3>9
    <3>12. ASSUME NEW d \in Connections \ {c}
           PROVE  StreamAt(task'[d], input'[d], wire'[d], forwarded'[d], sent'[d])
      BY <2>2, <3>10 DEF StreamInv
    <3> QED
      BY <2>2, <3>11, <3>12 DEF StreamInv
  <2>3. CASE UNCHANGED <<task, input, wire, forwarded, sent>>
    BY <2>3 DEF StreamInv
  <2>4. CASE Environment
    <3>1. UNCHANGED <<task, input, forwarded>>
      BY <2>4 DEF Environment, taskVars, histVars
    <3> QED
      BY <2>2, <2>3, <2>4, <3>1 DEF Environment, PeerConnect, PeerClose, LinkChanges,
         peerVars
  <2>5. CASE (\E c \in Connections : WriterShuts(c)) \/ UNCHANGED vars
    BY <2>3, <2>5 DEF WriterShuts, vars, taskVars, peerVars, histVars
  <2> QED
    BY <2>1, <2>4, <2>5, ClientTaskStream DEF Next
<1> QED
  BY <1>1, <1>2, ServerTypeCorrect, SlotIsKept, PTL DEF Spec

\* For every connection, any number of units and any cut of them into recvs, the
\* raw stream reaches send_rpc in order and without a gap from BeginRPCProxy on:
\* rpc_proxy_run's initial_bytes are exactly what the decoder left.
THEOREM RawStreamArrivesIntact == Spec => []RawStreamIntact
<1>1. ServerTypeOK /\ StreamInv => RawStreamIntact
  <2> SUFFICES ASSUME ServerTypeOK, StreamInv, NEW c \in Connections,
                      task[c] \in {"begun", "proxy", "raw"}
               PROVE  Gapless(forwarded[c] \o NumbersOf(input[c]) \o NumbersOf(wire[c]))
    BY DEF RawStreamIntact, NumbersOf, Gapless
  <2>1. Numbered(wire[c], input[c], forwarded[c], sent[c])
    BY DEF StreamInv, StreamAt
  <2>2. /\ input[c] \in Seq(Units) /\ wire[c] \in Seq(Units)
        /\ forwarded[c] \in Seq(Nat) /\ sent[c] \in Nat
    BY DEF ServerTypeOK, StreamInv
  <2> DEFINE M == SimpleMessages \cup {AuthMessage(a) : a \in macs}
  <2>3. input[c] \in Seq([n : Nat, m : M]) /\ wire[c] \in Seq([n : Nat, m : M])
    BY <2>2 DEF Units
  <2> HIDE DEF M
  <2> QED
    BY <2>1, <2>2, <2>3, NumberedIsGapless
<1> QED
  BY <1>1, ServerTypeCorrect, StreamIsKept, PTL
=============================================================================
