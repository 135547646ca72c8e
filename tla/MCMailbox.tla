----------------------------- MODULE MCMailbox -----------------------------
(***************************************************************************)
(* Instances of Mailbox for TLC: who writes what to whom.                  *)
(***************************************************************************)
EXTENDS MailboxRefinement, TLC

CONSTANTS w1, w2, r1, r2, a1

\* The threads of one kind are interchangeable.
Symmetry == Permutations(Writers) \cup Permutations(Readers)

Req(cid, sid, k) ==
  [parsed |-> TRUE, CID |-> cid, SID |-> sid, body |-> Text(k)]

\* "server:", "3:" and so on: the CID is a peer id.
ToPeer(p, k) == Req(p, GENZ_FEE_SID_CID_IS_PEER_ID, k)

Bad == [parsed |-> FALSE, CID |-> 0, SID |-> 0, body |-> Text("data")]

\* Two clients: one pings and sends data, the other sends data; by peer id
\* and by "CID,SID".
PingTraffic == [n \in Clients |->
  IF n = 1 THEN {ToPeer(2, "ping"), ToPeer(2, "data")} ELSE {Req(100, 27, "data")}]

\* Clients 1 and 2 write to client 3, client 1 to the server too.  Client 3
\* makes one call for each errno of write().  No link requests.
DataTraffic == [n \in Clients |->
  CASE n = 1 -> {ToPeer(server_id, "data"), Req(300, 27, "pong")}
    [] n = 2 -> {ToPeer(3, "data")}
    [] OTHER -> {Bad, Req(100, 28, "data"), Req(-150, 27, "data"),
                 ToPeer(server_id + 1, "data"), ToPeer(1, "none")}]

\* Clients 1 and 2 both write to client 3.
GatherTraffic == [n \in Clients |-> IF n = 3 THEN {} ELSE {ToPeer(3, "data")}]

\* Client 1 writes to itself, and the server pings it.
LoneTraffic == [n \in Clients |-> {ToPeer(1, "data")}]
ServerPing  == {[to |-> 1, body |-> Text("ping")]}

CtlWrite(g) == [kind |-> "ctlw", cid |-> g, sid |-> g]

\* The server asks client 1 for its attributes, assigns CID0 and SID0, sends
\* data and pings.
SwitchTraffic == {[to |-> 1, body |-> b] :
                    b \in {Text("attr"), CtlWrite(1), Text("data"), Text("ping")}}
=============================================================================
