----------------------------- MODULE BridgeServer -----------------------------
(***************************************************************************)
(* The TCP server of main/bridge_server.c: the accepting task, the client  *)
(* task it starts for the one client it admits, the session of             *)
(* main/bridge_session.c and the raw mode of main/rpc_proxy.c.             *)
(*                                                                         *)
(* A client task is modelled per connection, so that two of them can run   *)
(* if the client slot fails to prevent it.  The unit of a TCP stream is a  *)
(* management message, or as much raw data as one recv returns; recv may   *)
(* return several units at once (pipelining).  A message whose bytes come  *)
(* in several recvs is handled when the last of them arrives, so its       *)
(* pieces are not told apart here.                                         *)
(*                                                                         *)
(* The Expansion transport is used through the actions of ExpansionLink,   *)
(* which ExpansionTransport implements.  The peers at the other end of TCP *)
(* are external.                                                           *)
(***************************************************************************)
EXTENDS ExpansionLink, Naturals, Sequences

CONSTANTS
    Connections,      \* TCP connections, each made at most once
    Paired,           \* those of a peer that holds the pairing secret
    ClientNonces,     \* nonces the peers put in their Hello
    Kinds,            \* bound: the kinds of messages the peers send
    MaxUnread,        \* bound: units sent and not yet received, per connection
    MaxUnits          \* bound: units sent over one connection

ASSUME PairedAssumption == Paired \subseteq Connections
ASSUME KindsAssumption ==
    Kinds \subseteq {"query", "begin", "refused", "unknown", "malformed", "raw"}
ASSUME UnitAssumption == MaxUnread \in Nat /\ MaxUnits \in Nat

VARIABLES
    client_active,    \* client_active
    server,           \* where the server task is
    accepted,         \* the server task's client_fd: a set of at most one connection
    task,             \* where each connection's client task is
    session,          \* each client task's BridgeSession
    input,            \* units a client task has received and not yet used
    socket,           \* the bridge's end of each connection
    peer,             \* the peer's end of each connection
    wire,             \* units sent by the peer and not yet received
    sent,             \* number of units each peer has sent
    macs,             \* every authentication code that has been sent
    nonces,           \* number of nonces drawn by esp_fill_random
    granted,          \* history: connections that got Ok for a privileged command
    forwarded         \* history: the numbers of BeginRPCProxy and, after it, of the
                      \* units passed to send_rpc, per connection

serverVars == <<server, accepted>>
taskVars   == <<task, session, input>>
peerVars   == <<peer, sent, macs>>
histVars   == <<granted, forwarded>>
vars == <<client_active, serverVars, taskVars, socket, linkVars, wire, peerVars, nonces,
          histVars>>

-----------------------------------------------------------------------------
(* Sessions: main/bridge_session.c                                         *)

SessionStates == {"AwaitingHello", "AwaitingAuthentication", "Authenticated",
                  "Proxying", "Closed"}

\* A code is the key's owner's seal on the two nonces; a guess seals nothing.
Guess == [client |-> "none", bridge |-> 0]
AuthMaterial(s) == [client |-> s.client_nonce, bridge |-> s.bridge_nonce]

\* Mutant: the random numbers of the first session serve for all of them.
FreshNonceReused == 1
\* esp_fill_random of bridge_nonce and session_id, two values that change together.
FreshNonce == nonces + 1

\* bridge_session_init, and bridge_session_close, which also wipes the nonces.
NewSession == [state |-> "AwaitingHello", client_nonce |-> "none",
               bridge_nonce |-> FreshNonce]
ClosedSession == [state |-> "Closed", client_nonce |-> "none", bridge_nonce |-> 0]

\* Mutant: a session takes a Hello whatever its state.
AcceptsHelloAlways(s) == TRUE
\* bridge_session_accept_hello
AcceptsHello(s) == s.state = "AwaitingHello"

\* handle_management_message's test and bridge_session_authenticate.
AcceptsCode(s, mac) == s.state = "AwaitingAuthentication" /\ mac = AuthMaterial(s)

-----------------------------------------------------------------------------
(* The client slot, as the tasks use it                                    *)

\* Mutant: the flag is set without a look at it.
ClaimUnchecked == client_active' = TRUE
\* claim_client where it succeeds.
Claim == ~client_active /\ client_active' = TRUE

\* Mutant: the slot is not given back.
ReleaseForgotten == UNCHANGED client_active
\* release_client
Release == client_active' = FALSE

-----------------------------------------------------------------------------
(* Server task                                                             *)

ServerAccept(c) ==
    /\ server = "accept" /\ socket[c] = "pending"
    /\ server' = "claim" /\ accepted' = {c}
    /\ socket' = [socket EXCEPT ![c] = "open"]
    /\ UNCHANGED <<client_active, task, session, nonces>>

ServerClaim(c) ==
    /\ server = "claim" /\ c \in accepted
    /\ Claim /\ server' = "spawn"
    /\ UNCHANGED <<accepted, task, session, socket, nonces>>

ServerBusy(c) ==
    /\ server = "claim" /\ c \in accepted
    /\ client_active /\ server' = "reject"
    /\ UNCHANGED <<client_active, accepted, task, session, socket, nonces>>

\* reject_busy_client: whether or not Busy can be sent, the connection is closed.
ServerReject(c) ==
    /\ server = "reject" /\ c \in accepted
    /\ server' = "accept" /\ accepted' = {}
    /\ socket' = [socket EXCEPT ![c] = "closed"]
    /\ UNCHANGED <<client_active, task, session, nonces>>

\* The client task is created and draws its nonces.
ServerSpawn(c) ==
    /\ server = "spawn" /\ c \in accepted
    /\ server' = "accept" /\ accepted' = {}
    /\ task' = [task EXCEPT ![c] = "recv"]
    /\ session' = [session EXCEPT ![c] = NewSession]
    /\ nonces' = FreshNonce
    /\ UNCHANGED <<client_active, socket>>

\* No memory for the context or the task: close, then release_client.
ServerSpawnFails(c) ==
    /\ server = "spawn" /\ c \in accepted
    /\ server' = "undo"
    /\ socket' = [socket EXCEPT ![c] = "closed"]
    /\ UNCHANGED <<client_active, accepted, task, session, nonces>>

ServerUndo(c) ==
    /\ server = "undo" /\ c \in accepted
    /\ Release /\ server' = "accept" /\ accepted' = {}
    /\ UNCHANGED <<task, session, socket, nonces>>

ServerTask(c) ==
    /\ \/ ServerAccept(c) \/ ServerClaim(c) \/ ServerBusy(c) \/ ServerReject(c)
       \/ ServerSpawn(c) \/ ServerSpawnFails(c) \/ ServerUndo(c)
    /\ UNCHANGED <<input, linkVars, wire, peerVars, histVars>>

-----------------------------------------------------------------------------
(* Client task in management mode                                          *)

Goto(c, place) == task' = [task EXCEPT ![c] = place]

\* recv returns some of what has arrived.
Receive(c) ==
    \E n \in 1..Len(wire[c]) :
        /\ input' = [input EXCEPT ![c] = SubSeq(wire[c], 1, n)]
        /\ wire' = [wire EXCEPT ![c] = SubSeq(wire[c], n + 1, Len(wire[c]))]

\* Mutant: the loop over the received bytes goes round once more.
NextMessageUnchecked(c) == input' = [input EXCEPT ![c] = Tail(@)] /\ Goto(c, "decode")
\* After a message: the next one of the same recv, or recv again.
NextMessage(c) ==
    /\ input' = [input EXCEPT ![c] = Tail(@)]
    /\ Goto(c, IF Len(input[c]) = 1 THEN "recv" ELSE "decode")

\* goto done
Quit(c) == input' = [input EXCEPT ![c] = <<>>] /\ Goto(c, "done")

\* The result of send_response decides: a response that cannot be written within
\* BRIDGE_TCP_IO_TIMEOUT_MS ends the connection.
Respond(c) == NextMessage(c) \/ Quit(c)

SetSession(c, s) == session' = [session EXCEPT ![c] = s]

ManageRecv(c) ==
    /\ task[c] = "recv"
    /\ Receive(c) /\ Goto(c, "decode")
    /\ UNCHANGED <<session, linkVars, granted>>

\* Mutant: a silent client is kept.
RecvEndsOnClose(c) == peer[c] = "closed"
\* recv returns 0, fails, or times out BRIDGE_CLIENT_IDLE_TIMEOUT_MS after the
\* last activity.
RecvEnds(c) == wire[c] = <<>> \/ peer[c] = "closed"

ManageEnd(c) ==
    /\ task[c] = "recv" /\ RecvEnds(c)
    /\ Quit(c)
    /\ UNCHANGED <<session, linkVars, granted, wire>>

\* The next message of the decoder.
Request(c, kind) ==
    /\ task[c] = "decode" /\ Head(input[c]).m.kind = kind
    /\ UNCHANGED wire

HandleHello(c) ==
    /\ Request(c, "hello") /\ Respond(c)
    /\ IF AcceptsHello(session[c])
         THEN SetSession(c, [session[c] EXCEPT
                  !.state = "AwaitingAuthentication",
                  !.client_nonce = Head(input[c]).m.nonce])
         ELSE UNCHANGED session
    /\ UNCHANGED <<linkVars, granted>>

\* A wrong code, or an HMAC that cannot be computed, closes the connection; a code
\* nobody asked for is refused.
HandleAuthenticate(c) ==
    /\ Request(c, "authenticate")
    /\ \/ /\ AcceptsCode(session[c], Head(input[c]).m.mac)
          /\ Respond(c) /\ SetSession(c, [session[c] EXCEPT !.state = "Authenticated"])
       \/ /\ session[c].state = "AwaitingAuthentication"
          /\ Quit(c) /\ UNCHANGED session
       \/ /\ session[c].state # "AwaitingAuthentication"
          /\ Respond(c) /\ UNCHANGED session
    /\ UNCHANGED <<linkVars, granted>>

\* The first test of handle_authenticated_command.
Privileged(s) == s.state = "Authenticated"

\* GetBridgeInfo, GetStatus, Ping and EndRPCProxy only answer.
HandleQuery(c) ==
    /\ Request(c, "query") /\ Respond(c)
    /\ granted' = IF Privileged(session[c]) THEN granted \cup {c} ELSE granted
    /\ UNCHANGED <<session, linkVars>>

\* BeginRPCProxy without the privilege, or while the link is not Ready.
BeginRefused(c) ==
    /\ Request(c, "begin")
    /\ ~Privileged(session[c]) \/ link # "ready"
    /\ Respond(c)
    /\ UNCHANGED <<session, linkVars, forwarded>>

\* begin_rpc: the client task is inside it until START is answered or given up.
BeginAsks(c) ==
    /\ Request(c, "begin") /\ Privileged(session[c])
    /\ Ask /\ Goto(c, "beginning")
    /\ UNCHANGED <<session, input, forwarded>>

BeginUnavailable(c) ==
    /\ task[c] = "beginning"
    /\ Refuse /\ Respond(c)
    /\ UNCHANGED <<session, wire, forwarded>>

\* bridge_session_begin_proxy: the session moves on before the answer is sent.
BeginOpens(c) ==
    /\ task[c] = "beginning"
    /\ Open /\ Goto(c, "begun")
    /\ SetSession(c, [session[c] EXCEPT !.state = "Proxying"])
    /\ forwarded' = [forwarded EXCEPT ![c] = <<Head(input[c]).n>>]
    /\ input' = [input EXCEPT ![c] = Tail(@)]
    /\ UNCHANGED wire

HandleBegin(c) ==
    /\ BeginRefused(c) \/ BeginAsks(c) \/ BeginUnavailable(c) \/ BeginOpens(c)
    /\ UNCHANGED granted

\* Flags or a status in a request, another version, a payload of the wrong size:
\* an answer and nothing else (BeginRPCProxy also asks for a reconnect).
HandleRefused(c) ==
    /\ Request(c, "refused") /\ Respond(c)
    /\ UNCHANGED <<session, linkVars, granted>>

\* A command bridge_message_encode will not echo, so that no answer can be sent;
\* or bytes the decoder refuses, which are answered before the end.
HandleFatal(c) ==
    /\ Request(c, "unknown") \/ Request(c, "malformed") \/ Request(c, "raw")
    /\ Quit(c)
    /\ UNCHANGED <<session, linkVars, granted>>

Management(c) ==
    /\ \/ HandleBegin(c)
       \/ /\ \/ ManageRecv(c) \/ ManageEnd(c) \/ HandleHello(c) \/ HandleAuthenticate(c)
             \/ HandleQuery(c) \/ HandleRefused(c) \/ HandleFatal(c)
          /\ UNCHANGED forwarded
    /\ UNCHANGED <<client_active, socket>>

-----------------------------------------------------------------------------
(* Client task in raw mode                                                 *)

\* BeginRPCProxy's answer is sent; what is left of the recv stays for the proxy.
BeginAnswered(c) ==
    /\ task[c] = "begun"
    /\ Goto(c, "proxy") /\ granted' = granted \cup {c}
    /\ UNCHANGED <<input, linkVars, socket, wire, forwarded>>

BeginUnanswered(c) ==
    /\ task[c] = "begun" /\ Goto(c, "end")
    /\ UNCHANGED <<input, granted, linkVars, socket, wire, forwarded>>

\* rpc_proxy_run up to its loop: the session may be gone again, or memory short.
ProxyEnter(c) ==
    /\ task[c] = "proxy"
    /\ \/ /\ link = "rpc"
          /\ Goto(c, "raw") \/ Goto(c, "end")
          /\ UNCHANGED <<input, linkVars>>
       \/ Leave /\ Quit(c)
    /\ UNCHANGED <<granted, socket, wire, forwarded>>

\* Mutant: rpc_proxy_run does not send initial_bytes.
InitialBytesDropped(c) == SubSeq(input[c], 1, 0)
\* What send_rpc is given: initial_bytes first, then what each recv returned.
Outgoing(c) == input[c]

\* The loop ends: PROXY_STOP_BIT, shutdown, the writer is joined.
ProxyEnds(c) == Goto(c, "end") /\ socket' = [socket EXCEPT ![c] = "shut"]

\* send_rpc sends everything, or fails on the way; the loss it then signals takes
\* effect when the supervisor gets to it.
ProxySend(c) ==
    LET numbers == [i \in DOMAIN Outgoing(c) |-> Outgoing(c)[i].n] IN
    /\ task[c] = "raw" /\ input[c] # <<>>
    /\ input' = [input EXCEPT ![c] = <<>>]
    /\ \/ /\ link = "rpc"
          /\ forwarded' = [forwarded EXCEPT ![c] = @ \o numbers]
          /\ UNCHANGED <<task, socket>>
       \/ /\ \E n \in 0..Len(numbers) :
                /\ n > 0 => link = "rpc"
                /\ forwarded' = [forwarded EXCEPT ![c] = @ \o SubSeq(numbers, 1, n)]
          /\ ProxyEnds(c)
    /\ UNCHANGED <<granted, linkVars, wire>>

\* Receive timeouts are ignored in raw mode.
ProxyRecv(c) ==
    /\ task[c] = "raw" /\ input[c] = <<>> /\ socket[c] = "open"
    /\ Receive(c)
    /\ UNCHANGED <<task, linkVars, socket, granted, forwarded>>

\* recv returns 0 or fails: the peer has closed, the writer has shut the socket
\* down, or TCP has given the connection up.
ProxyEnd(c) ==
    /\ task[c] = "raw" /\ input[c] = <<>>
    /\ ProxyEnds(c)
    /\ UNCHANGED <<input, linkVars, granted, wire, forwarded>>

\* Mutant: the RPC session is left running.
EndRpcForgotten(c) == task[c] = "end" /\ Quit(c) /\ UNCHANGED linkVars
\* expansion_transport_end_rpc where the session is up: STOP is sent.
EndRpcAsks(c) ==
    /\ task[c] = "end"
    /\ Stop /\ Goto(c, "stopping") /\ UNCHANGED input

\* It returns: STOP was answered, or not; or there was no session to end.
EndRpcReturns(c) ==
    /\ \/ task[c] = "stopping" /\ (Closed \/ StopFails)
       \/ task[c] = "end" /\ Leave
    /\ Quit(c)

EndRpc(c) ==
    /\ EndRpcAsks(c) \/ EndRpcReturns(c)
    /\ UNCHANGED <<granted, socket, wire, forwarded>>

RawMode(c) ==
    /\ \/ BeginAnswered(c) \/ BeginUnanswered(c) \/ ProxyEnter(c) \/ ProxySend(c)
       \/ ProxyRecv(c) \/ ProxyEnd(c) \/ EndRpc(c)
    /\ UNCHANGED <<client_active, session>>

\* proxy_writer_task gives up: receive_rpc finds no session, or send fails or takes
\* longer than its timeout, which may happen to any peer.
WriterShuts(c) ==
    /\ task[c] = "raw" /\ socket[c] = "open"
    /\ socket' = [socket EXCEPT ![c] = "shut"]
    /\ UNCHANGED <<client_active, serverVars, taskVars, linkVars, wire, peerVars, nonces,
                   histVars>>

-----------------------------------------------------------------------------
(* The end of a client task                                                *)

\* done: bridge_session_close, shutdown, close.  What was not received is gone,
\* and so is the history of the stream.
ClientClose(c) ==
    /\ task[c] = "done" /\ Goto(c, "release")
    /\ SetSession(c, ClosedSession)
    /\ socket' = [socket EXCEPT ![c] = "closed"]
    /\ wire' = [wire EXCEPT ![c] = <<>>]
    /\ forwarded' = [forwarded EXCEPT ![c] = <<>>]
    /\ UNCHANGED client_active

ClientRelease(c) ==
    /\ task[c] = "release" /\ Goto(c, "none")
    /\ Release
    /\ UNCHANGED <<session, socket, wire, forwarded>>

Ending(c) ==
    /\ ClientClose(c) \/ ClientRelease(c)
    /\ UNCHANGED <<input, linkVars, granted>>

ClientTask(c) ==
    /\ Management(c) \/ RawMode(c) \/ Ending(c)
    /\ UNCHANGED <<serverVars, peerVars, nonces>>

-----------------------------------------------------------------------------
(* Peers and the link                                                      *)

\* A paired peer seals the nonces of its own session; everybody can repeat a code
\* that was sent before, or guess.
Codes(c) ==
    macs \cup {Guess}
      \cup (IF c \in Paired /\ session[c].state = "AwaitingAuthentication"
              THEN {AuthMaterial(session[c])} ELSE {})

AuthMessage(a) == [kind |-> "authenticate", mac |-> a]
SimpleMessages ==
    {[kind |-> k] : k \in Kinds} \cup {[kind |-> "hello", nonce |-> x] : x \in ClientNonces}
Messages(c) == SimpleMessages \cup {AuthMessage(a) : a \in Codes(c)}

PeerConnect(c) ==
    /\ peer[c] = "away" /\ peer' = [peer EXCEPT ![c] = "open"]
    /\ socket' = [socket EXCEPT ![c] = "pending"]
    /\ UNCHANGED <<linkVars, wire, sent, macs>>

\* What a peer sends before its client task exists waits unread, as good as sent
\* later; what it sends after close is lost.
PeerSend(c, m) ==
    /\ peer[c] = "open" /\ task[c] \notin {"none", "done", "release"}
    /\ Len(wire[c]) < MaxUnread /\ sent[c] < MaxUnits
    /\ sent' = [sent EXCEPT ![c] = @ + 1]
    /\ wire' = [wire EXCEPT ![c] = Append(@, [n |-> sent[c] + 1, m |-> m])]
    /\ macs' = IF m.kind = "authenticate" THEN macs \cup {m.mac} ELSE macs
    /\ UNCHANGED <<linkVars, peer, socket>>

PeerClose(c) ==
    /\ peer[c] = "open" /\ peer' = [peer EXCEPT ![c] = "closed"]
    /\ UNCHANGED <<linkVars, wire, socket, sent, macs>>

\* The supervisor of ExpansionTransport establishes and loses the link.
LinkChanges ==
    /\ LinkUp \/ LinkDown
    /\ UNCHANGED <<wire, socket, peerVars>>

Environment ==
    /\ \/ \E c \in Connections :
            \/ PeerConnect(c) \/ PeerClose(c)
            \/ \E m \in Messages(c) : PeerSend(c, m)
       \/ LinkChanges
    /\ UNCHANGED <<client_active, serverVars, taskVars, nonces, histVars>>

-----------------------------------------------------------------------------
Init ==
    /\ client_active = FALSE /\ server = "accept" /\ accepted = {}
    /\ task = [c \in Connections |-> "none"]
    /\ session = [c \in Connections |-> ClosedSession]
    /\ input = [c \in Connections |-> <<>>]
    /\ socket = [c \in Connections |-> "none"] /\ LinkInit
    /\ peer = [c \in Connections |-> "away"]
    /\ wire = [c \in Connections |-> <<>>]
    /\ sent = [c \in Connections |-> 0] /\ macs = {} /\ nonces = 0
    /\ granted = {} /\ forwarded = [c \in Connections |-> <<>>]

Next ==
    \/ \E c \in Connections : ServerTask(c) \/ ClientTask(c) \/ WriterShuts(c)
    \/ Environment

Spec == Init /\ [][Next]_vars

\* The recv of raw mode has nothing to return: its timeouts are ignored.
RecvBlocks(c) ==
    /\ task[c] = "raw" /\ input[c] = <<>> /\ wire[c] = <<>>
    /\ peer[c] # "closed" /\ socket[c] = "open"

\* The bridge's tasks are scheduled again and again and their blocking calls end
\* (socket timeouts, the bounded begin_rpc and end_rpc), but for RecvBlocks.  The
\* writer is sure to give up only when receive_rpc finds no session.  Nothing is
\* assumed of the peers, of the link or of a failure of TCP.
Fairness ==
    /\ WF_vars(\E c \in Connections : ServerTask(c))
    /\ \A c \in Connections : /\ WF_vars(~RecvBlocks(c) /\ ClientTask(c))
                              /\ WF_vars(link # "rpc" /\ WriterShuts(c))

FairSpec == Spec /\ Fairness

-----------------------------------------------------------------------------
(* Properties                                                              *)

Places == {"none", "recv", "decode", "beginning", "begun", "proxy", "raw", "end",
           "stopping", "done", "release"}
SomeNonce == ClientNonces \cup {"none"}
Sessions  == [state : SessionStates, client_nonce : SomeNonce, bridge_nonce : Nat]
Units     == [n : Nat, m : SimpleMessages \cup {AuthMessage(a) : a \in macs}]

\* Every variable keeps its type; a task that decodes has something to decode, and
\* every code in a message is one that was sent.
ServerTypeOK ==
    /\ client_active \in BOOLEAN /\ LinkTypeOk
    /\ server \in {"accept", "claim", "reject", "spawn", "undo"}
    /\ accepted \subseteq Connections
    /\ task \in [Connections -> Places] /\ session \in [Connections -> Sessions]
    /\ input \in [Connections -> Seq(Units)] /\ wire \in [Connections -> Seq(Units)]
    /\ \A c \in Connections : task[c] \in {"decode", "beginning"} => input[c] # <<>>
    /\ socket \in [Connections -> {"none", "pending", "open", "shut", "closed"}]
    /\ peer \in [Connections -> {"away", "open", "closed"}]
    /\ sent \in [Connections -> Nat] /\ nonces \in Nat
    /\ macs \subseteq [client : SomeNonce, bridge : Nat]
    /\ granted \subseteq Connections

\* Never two client tasks: claim_client admits one connection at a time, and the
\* slot is given back only when its task is finished (docs/PROTOCOL.md:7).
SingleClient ==
    \A c, d \in Connections : task[c] # "none" /\ task[d] # "none" => c = d

\* The slot never leaks: it is taken exactly while a client task runs or the
\* server task is about to start one or to give up.
SlotIsOwned ==
    client_active <=>
        server \in {"spawn", "undo"} \/ \E c \in Connections : task[c] # "none"

\* Ok to a privileged command goes only to a peer that holds the pairing secret,
\* whatever codes of earlier sessions another peer repeats.
GrantedIsPaired == granted \subseteq Paired

\* An RPC session on the Flipper, and a request for one or for its end, belongs to
\* a running client task whose session is authenticated: no error path leaves it
\* behind for the next client.
RpcHasItsClient ==
    /\ user = "starting" =>
          \E c \in Paired : task[c] = "beginning" /\ session[c].state = "Authenticated"
    /\ link = "rpc" \/ user \in {"inside", "stopping"} =>
          \E c \in Paired : /\ task[c] \in {"begun", "proxy", "raw", "end", "stopping"}
                            /\ session[c].state = "Proxying"

\* What has reached send_rpc, followed by what is received and what is still to be
\* received, is what the peer sent after BeginRPCProxy: from the first unit on, in
\* order and without a gap, even if it came with BeginRPCProxy in one recv
\* (docs/PROTOCOL.md:57).
RawStreamIntact ==
    \A c \in Connections :
        LET stream == forwarded[c] \o [i \in DOMAIN input[c] |-> input[c][i].n]
                        \o [i \in DOMAIN wire[c] |-> wire[c][i].n]
        IN  task[c] \in {"begun", "proxy", "raw"} =>
                \A i \in DOMAIN stream : stream[i] = stream[1] + i - 1

Rank(s) ==
    CASE s.state = "AwaitingHello" -> 1 [] s.state = "AwaitingAuthentication" -> 2
      [] s.state = "Authenticated" -> 3 [] s.state = "Proxying" -> 4
      [] s.state = "Closed" -> 5

\* A session never goes back: no second Hello, no second authentication, and a
\* closed session stays closed as long as its client task exists.
SessionOnlyAdvances ==
    [][\A c \in Connections :
          task[c] # "none" => Rank(session'[c]) >= Rank(session[c])]_vars

\* A client that has gone, fallen silent in management mode or lost the Flipper
\* frees the slot; only a raw session with both ends up may hold it, and not once its
\* socket has been shut down.
SlotIsFreed ==
    \A c \in Connections :
        task[c] # "none" ~>
            \/ task[c] = "none"
            \/ /\ task[c] = "raw" /\ socket[c] = "open"
               /\ peer[c] = "open" /\ link = "rpc"

\* Busy is the answer to a second client: whoever gets it meets another connection
\* the bridge has not shut yet (docs/PROTOCOL.md:7).  The instant between close and
\* release_client is not counted: the client task has the higher priority.
BusyMeansSecondClient ==
    [][\A c \in Connections : ServerBusy(c) =>
          \E d \in Connections \ {c} :
              task[d] = "release" \/ (task[d] # "none" /\ socket[d] = "open")]_vars
=============================================================================
