---------------------------- MODULE ExpansionLink ----------------------------
(***************************************************************************)
(* What the Expansion transport (main/expansion_transport.h) promises to   *)
(* its one user, the client task of main/bridge_server.c: a link that      *)
(* comes and goes at any moment, and an RPC session on it that only        *)
(* begin_rpc opens and that end_rpc or the loss of the link closes.        *)
(*                                                                         *)
(* ExpansionTransport implements this specification; BridgeServer uses the *)
(* transport through its actions and so relies on nothing else.            *)
(***************************************************************************)

VARIABLES
    link,   \* "down", "ready", "rpc", or "busy" while START or STOP is unanswered
    user    \* the client task: "away", in begin_rpc ("starting"), "inside" the
            \* session it opened, or in end_rpc's request ("stopping")

linkVars == <<link, user>>

\* The supervisor establishes the link and gives it up.
LinkUp   == link = "down" /\ link' = "ready" /\ UNCHANGED user
LinkDown == link # "down" /\ link' = "down" /\ UNCHANGED user

\* begin_rpc finds the link Ready and asks for the session.
Ask    == user = "away" /\ user' = "starting" /\ link = "ready" /\ link' = "busy"
\* It returns ESP_OK: the session is up.
Open   == user = "starting" /\ user' = "inside" /\ link = "busy" /\ link' = "rpc"
\* It returns an error: the link may be down, up again, or about to be lost.
Refuse == user = "starting" /\ user' = "away" /\ UNCHANGED link

\* end_rpc finds the session up and asks for its end.
Stop      == user = "inside" /\ user' = "stopping" /\ link = "rpc" /\ link' = "busy"
Closed    == user = "stopping" /\ user' = "away" /\ link = "busy" /\ link' = "ready"
StopFails == user = "stopping" /\ user' = "away" /\ UNCHANGED link
\* end_rpc, or the proxy's first test, finds the session gone already.
Leave     == user = "inside" /\ user' = "away" /\ link # "rpc" /\ UNCHANGED link

LinkInit == link = "down" /\ user = "away"

LinkNext ==
    \/ LinkUp \/ LinkDown \/ Ask \/ Open \/ Refuse \/ Stop \/ Closed \/ StopFails
    \/ Leave

LinkSpec == LinkInit /\ [][LinkNext]_linkVars

\* The calls return, a session that is gone is left, and a link whose request
\* nobody waits for any more is given up.
LinkProgress ==
    /\ (user = "starting") ~> (user # "starting")
    /\ (user = "stopping") ~> (user # "stopping")
    /\ (user = "inside" /\ link # "rpc") ~> (user # "inside")
    /\ (user = "away" /\ link = "busy") ~> (link # "busy")

LinkTypeOk ==
    /\ link \in {"down", "ready", "busy", "rpc"}
    /\ user \in {"away", "starting", "inside", "stopping"}

\* A session that is up is the one its user opened.
SessionIsUsed == link = "rpc" => user = "inside"
=============================================================================
