--------------------------- MODULE MailboxProofs ---------------------------
(***************************************************************************)
(* Theorems about Mailbox for every number of clients, writers, readers,   *)
(* insmod/rmmod threads and every traffic.                                 *)
(***************************************************************************)
EXTENDS Mailbox, TLAPS

USE DEF NULL

-----------------------------------------------------------------------------
\* Identifiers: a client is a peer, a peer is a valid peer_id, and neither
\* an id nor NULL is a thread.
LEMMA IdFacts ==
  /\ Clients \subseteq Peers /\ Peers \subseteq Ids /\ Ids \subseteq Nat
  /\ server_id \in Peers /\ NULL \notin Ids
  /\ Peers \subseteq Ctx /\ Writers \subseteq Ctx /\ Admins \subseteq Ctx
  /\ \A t \in Writers \cup Readers \cup Admins : t \notin Peers /\ t # NULL
BY MailboxAssumption DEF MailboxAssumption, Clients, Peers, Ids, Ctx

\* The texts of the driver are bodies, lengths are naturals, and cutting a
\* text short leaves a body.
LEMMA BodyFacts ==
  /\ \A k \in Kinds : Text(k) \in Body
  /\ \A k \in Kinds : MsgLen(k) \in Nat
  /\ \A b \in Body, len \in Nat : Cut(b, len) \in Body
<1>1. \A k \in Kinds : Text(k) \in Body
  BY MailboxAssumption DEF MailboxAssumption, Text, Body
<1>2. \A k \in Kinds : MsgLen(k) \in Nat
  BY DEF Kinds, MsgLen
<1>3. \A b \in Body, len \in Nat : Cut(b, len) \in Body
  BY DEF Cut, Body, Kinds
<1> QED BY <1>1, <1>2, <1>3

\* FEE_create_outgoing() sends nothing to a peer_id outside 1 .. server_id.
LEMMA ErrnoFacts ==
  ASSUME NEW req \in Request, OutgoingErrno(req.CID, req.SID, req.body) = "OK"
  PROVE  peer_id(req.CID, req.SID) \in Ids
BY DEF OutgoingErrno

-----------------------------------------------------------------------------
(***************************************************************************)
(* Types.  A context that is inside FEE_create_outgoing() has a peer to    *)
(* send to: without that a doorbell would ring nobody.                     *)
(***************************************************************************)
JobOK == \A n \in Clients, c \in Ctx :
           pc[n][c] \in {"wait", "fill", "copy", "ring"} => job[n][c].peer \in Ids

Typed == TypeOK /\ JobOK

LEMMA TypedInit == Init => Typed
BY IdFacts, BodyFacts, MailboxAssumption
   DEF Init, Typed, TypeOK, JobOK, NoJob, MailboxAssumption, OutPCs, ReadPCs,
       MaxRestarts, Kinds, Text, Body

USE DEF Typed

LEMMA TypedReturn ==
  ASSUME Typed, NEW n \in Clients, NEW c \in Ctx, Return(n, c)
  PROVE  /\ pc' \in [Clients -> [Ctx -> OutPCs]]
         /\ job' \in [Clients -> [Ctx -> [peer: Ids \cup {NULL}, body: Body]]]
         /\ restarts' \in [Clients -> [Writers -> 0 .. MaxRestarts]]
         /\ mutex' \in [Clients -> Writers \cup {NULL}]
         /\ JobOK'
<1>1. Text("none") \in Body
  BY BodyFacts DEF Kinds
<1>2. pc' \in [Clients -> [Ctx -> OutPCs]]
  BY DEF TypeOK, Return, Goto, OutPCs
<1>3. job' \in [Clients -> [Ctx -> [peer: Ids \cup {NULL}, body: Body]]]
  BY <1>1 DEF TypeOK, Return, SetJob
<1>4. restarts' \in [Clients -> [Writers -> 0 .. MaxRestarts]]
  <2>1. restarts \in [Clients -> [Writers -> 0 .. MaxRestarts]]
    BY DEF TypeOK
  <2>2. CASE c \in Writers
    <3>1. restarts' = [restarts EXCEPT ![n][c] = 0]
      BY <2>2 DEF Return
    <3> QED BY <2>1, <2>2, <3>1 DEF MaxRestarts
  <2>3. CASE c \notin Writers
    BY <2>1, <2>3 DEF Return
  <2> QED BY <2>2, <2>3
<1>5. mutex' \in [Clients -> Writers \cup {NULL}]
  BY DEF TypeOK, Return
<1>6. JobOK'
  BY DEF TypeOK, JobOK, Return, Goto, SetJob
<1> QED BY <1>2, <1>3, <1>4, <1>5, <1>6

LEMMA TypedOutgoing ==
  ASSUME Typed, NEW n \in Clients, NEW c \in Ctx, FEE_create_outgoing(n, c)
  PROVE  Typed'
<1> USE DEF slotVars, outVars, inVars, coreVars
<1>1. CASE HwReady(n, c)
  BY <1>1 DEF HwReady, Goto, TypeOK, JobOK, OutPCs
<1>2. CASE WouldStomp(n, c)
  <2>1. CASE MayRestart(n, c)
    <3>1. restarts \in [Clients -> [Writers -> 0 .. MaxRestarts]]
      BY DEF TypeOK
    <3>2. restarts' = [restarts EXCEPT ![n][c] = restarts[n][c] + 1]
      BY <1>2, <2>1 DEF WouldStomp
    <3>3. restarts' \in [Clients -> [Writers -> 0 .. MaxRestarts]]
      BY <2>1, <3>1, <3>2 DEF MayRestart, MaxRestarts
    <3> QED
      BY <1>2, <2>1, <3>3 DEF WouldStomp, TypeOK, JobOK
  <2>2. CASE ~ MayRestart(n, c)
    <3>1. Return(n, c)
      BY <1>2, <2>2 DEF WouldStomp
    <3> QED
      BY <1>2, <3>1, TypedReturn DEF WouldStomp, TypeOK
  <2> QED BY <2>1, <2>2
<1>3. CASE Fill(n, c)
  <2>1. Outbody(n, c) \in Body
    BY DEF Outbody, TypeOK
  <2>2. MsgLen(Outbody(n, c).kind) \in Nat
    BY <2>1, BodyFacts DEF Body
  <2>3. n \in Peers
    BY IdFacts
  <2>4. buf' \in [Peers -> [body: Body, to: Ids \cup {NULL}]]
    <3>1. \A p \in Peers : buf[p].body \in Body /\ buf[p].to \in Ids \cup {NULL}
      BY DEF TypeOK
    <3>2. Cut(buf[n].body, MsgLen(Outbody(n, c).kind)) \in Body
      BY <2>2, <2>3, <3>1, BodyFacts
    <3> QED
      BY <1>3, <2>3, <3>1, <3>2 DEF Fill, TypeOK
  <2>5. buflen' \in [Peers -> Nat] /\ last_responder' \in [Peers -> Ids \cup {NULL}]
    BY <1>3, <2>2, <2>3 DEF Fill, TypeOK
  <2> QED
    BY <1>3, <2>4, <2>5 DEF Fill, Goto, TypeOK, JobOK, OutPCs
<1>4. CASE Memcpy(n, c)
  <2>1. Outbody(n, c) \in Body
    BY DEF Outbody, TypeOK
  <2>2. job[n][c].peer \in Ids \cup {NULL}
    BY DEF TypeOK
  <2>3. buf' \in [Peers -> [body: Body, to: Ids \cup {NULL}]]
    BY <1>4, <2>1, <2>2 DEF Memcpy, TypeOK
  <2>4. pc' \in [Clients -> [Ctx -> OutPCs]] /\ JobOK'
    BY <1>4 DEF Memcpy, Goto, TypeOK, JobOK, OutPCs
  <2> QED
    BY <1>4, <2>3, <2>4 DEF Memcpy, TypeOK
<1>5. CASE Doorbell(n, c)
  <2>1. irq' \in [Ids -> SUBSET Peers]
    <3>1. job[n][c].peer \in Ids
      BY <1>5 DEF Doorbell, JobOK
    <3>2. irq[job[n][c].peer] \cup {n} \in SUBSET Peers
      BY <3>1, IdFacts DEF TypeOK
    <3> QED
      BY <1>5, <3>2 DEF Doorbell, TypeOK
  <2> QED
    BY <1>5, <2>1, TypedReturn DEF Doorbell, TypeOK
<1> QED BY <1>1, <1>2, <1>3, <1>4, <1>5 DEF FEE_create_outgoing

LEMMA TypedWrite ==
  ASSUME Typed, NEW n \in Clients, NEW w \in Writers, NEW req \in Traffic[n],
         Write(n, w, req) \/ WriteError(n, w, req)
  PROVE  Typed'
<1> USE DEF slotVars, outVars, inVars, coreVars
<1>1. req \in Request /\ req.body \in Body
  BY MailboxAssumption DEF MailboxAssumption, Request
<1>2. wbuf' \in [Clients -> Body]
  BY <1>1 DEF Write, WriteError, TypeOK
<1>3. CASE Write(n, w, req)
  <2>1. peer_id(req.CID, req.SID) \in Ids
    BY <1>1, <1>3, ErrnoFacts DEF Write
  <2>2. Text("none") \in Body /\ w \in Ctx
    BY BodyFacts, IdFacts DEF Kinds
  <2>3. job' \in [Clients -> [Ctx -> [peer: Ids \cup {NULL}, body: Body]]]
    BY <1>3, <2>1, <2>2 DEF Write, SetJob, TypeOK
  <2>4. pc' \in [Clients -> [Ctx -> OutPCs]]
    BY <1>3, <2>2 DEF Write, Goto, TypeOK, OutPCs
  <2>5. mutex' \in [Clients -> Writers \cup {NULL}]
    BY <1>3 DEF Write, TypeOK
  <2>6. JobOK'
    BY <1>3, <2>1, <2>2 DEF Write, Goto, SetJob, TypeOK, JobOK
  <2> QED
    BY <1>2, <1>3, <2>3, <2>4, <2>5, <2>6 DEF Write, TypeOK
<1>4. CASE WriteError(n, w, req)
  BY <1>2, <1>4 DEF WriteError, TypeOK, JobOK
<1> QED BY <1>3, <1>4

LEMMA TypedUpdateSwitch ==
  ASSUME Typed, NEW n \in Clients, NEW a \in Admins, UPDATE_SWITCH(n, a)
  PROVE  Typed'
<1> USE DEF slotVars, outVars, inVars, coreVars
<1>1. Text("dump") \in Body /\ a \in Ctx /\ server_id \in Ids
  BY BodyFacts, IdFacts DEF Kinds
<1>2. job' \in [Clients -> [Ctx -> [peer: Ids \cup {NULL}, body: Body]]]
  BY <1>1 DEF UPDATE_SWITCH, SetJob, TypeOK
<1>3. pc' \in [Clients -> [Ctx -> OutPCs]] /\ JobOK'
  BY <1>1 DEF UPDATE_SWITCH, Goto, SetJob, TypeOK, JobOK, OutPCs
<1> QED BY <1>2, <1>3 DEF UPDATE_SWITCH, TypeOK

\* Every step of an interrupt context moves its own pc, perhaps giving it a
\* job for the peer whose vector it serves.
LEMMA TypedJob ==
  ASSUME Typed, NEW n \in Clients, NEW v \in Peers, NEW b \in Body,
         NEW where \in OutPCs, Goto(n, v, where), SetJob(n, v, v, b)
  PROVE  /\ pc' \in [Clients -> [Ctx -> OutPCs]]
         /\ job' \in [Clients -> [Ctx -> [peer: Ids \cup {NULL}, body: Body]]]
         /\ JobOK'
<1>1. v \in Ctx /\ v \in Ids
  BY IdFacts
<1>2. job' \in [Clients -> [Ctx -> [peer: Ids \cup {NULL}, body: Body]]]
  BY <1>1 DEF SetJob, TypeOK
<1>3. pc' \in [Clients -> [Ctx -> OutPCs]] /\ JobOK'
  BY <1>1 DEF Goto, SetJob, TypeOK, JobOK
<1> QED BY <1>2, <1>3

LEMMA TypedMove ==
  ASSUME Typed, NEW n \in Clients, NEW v \in Peers,
         NEW where \in {"idle", "locked", "ack", "ctl2"},
         Goto(n, v, where), UNCHANGED job
  PROVE  pc' \in [Clients -> [Ctx -> OutPCs]] /\ JobOK'
BY IdFacts DEF Goto, TypeOK, JobOK, OutPCs

LEMMA TypedReceived ==
  ASSUME Typed, NEW n \in Clients, NEW v \in Peers, Received(n, v),
         pc' \in [Clients -> [Ctx -> OutPCs]],
         job' \in [Clients -> [Ctx -> [peer: Ids \cup {NULL}, body: Body]]],
         JobOK'
  PROVE  Typed'
<1> USE DEF slotVars, outVars, inVars, coreVars
<1>1. buflen' \in [Peers -> Nat]
  BY DEF Received, TypeOK
<1>2. lock' \in [Clients -> Peers \cup Readers \cup {NULL}]
  BY DEF Received, TypeOK
<1> QED BY <1>1, <1>2 DEF Received, TypeOK

LEMMA TypedInterrupt ==
  ASSUME Typed, NEW n \in Clients, NEW v \in Peers, Interrupt(n, v)
  PROVE  Typed'
<1> USE DEF slotVars, outVars, inVars, coreVars
<1>0. v \in Ctx /\ v \in Ids /\ n \in Ids
  BY IdFacts
<1>1. CASE all_msix(n, v)
  <2>1. pc' \in [Clients -> [Ctx -> OutPCs]] /\ JobOK'
    BY <1>1, TypedMove DEF all_msix
  <2>2. irq' \in [Ids -> SUBSET Peers]
    BY <1>1, <1>0 DEF all_msix, TypeOK
  <2>3. lock' \in [Clients -> Peers \cup Readers \cup {NULL}]
    BY <1>1 DEF all_msix, TypeOK
  <2> QED
    BY <1>1, <2>1, <2>2, <2>3 DEF all_msix, TypeOK
<1>2. CASE LinkPing(n, v)
  <2>1. Text("pong") \in Body /\ "wait" \in OutPCs
    BY BodyFacts DEF Kinds, OutPCs
  <2> QED
    BY <1>2, <2>1, TypedJob, TypedReceived DEF LinkPing
<1>3. CASE LinkPeerAttribute(n, v)
  <2>1. pc' \in [Clients -> [Ctx -> OutPCs]] /\ JobOK'
    BY <1>3, TypedMove DEF LinkPeerAttribute
  <2> QED
    BY <1>3, <2>1, TypedReceived DEF LinkPeerAttribute, TypeOK
<1>4. CASE LinkAck(n, v)
  <2> DEFINE b == [kind |-> "ack", cid |-> CID0[n], sid |-> SID0[n]]
  <2>1. b \in Body /\ "wait" \in OutPCs
    BY DEF TypeOK, Body, Kinds, OutPCs
  <2>2. Goto(n, v, "wait") /\ SetJob(n, v, v, b)
    BY <1>4 DEF LinkAck
  <2> HIDE DEF b
  <2>3. /\ pc' \in [Clients -> [Ctx -> OutPCs]]
        /\ job' \in [Clients -> [Ctx -> [peer: Ids \cup {NULL}, body: Body]]]
        /\ JobOK'
    BY <2>1, <2>2, TypedJob
  <2> QED
    BY <1>4, <2>3 DEF LinkAck, TypeOK
<1>5. CASE LinkCtlWrite(n, v)
  <2>1. buf[v].body \in Body /\ "ctl1" \in OutPCs
    BY DEF TypeOK, OutPCs
  <2> QED
    BY <1>5, <2>1, TypedJob, TypedReceived DEF LinkCtlWrite
<1>6. CASE LinkSetCID0(n, v)
  <2>1. pc' \in [Clients -> [Ctx -> OutPCs]] /\ JobOK'
    BY <1>6, TypedMove DEF LinkSetCID0
  <2>2. CID0' \in [Clients -> Gcids]
    BY <1>6, <1>0 DEF LinkSetCID0, TypeOK, Body
  <2> QED
    BY <1>6, <2>1, <2>2 DEF LinkSetCID0, TypeOK
<1>7. CASE LinkSetSID0(n, v)
  <2>1. Text("stdack") \in Body /\ "wait" \in OutPCs
    BY BodyFacts DEF Kinds, OutPCs
  <2>2. /\ pc' \in [Clients -> [Ctx -> OutPCs]]
        /\ job' \in [Clients -> [Ctx -> [peer: Ids \cup {NULL}, body: Body]]]
        /\ JobOK'
    BY <1>7, <2>1, TypedJob DEF LinkSetSID0
  <2>3. SID0' \in [Clients -> Gcids]
    BY <1>7, <1>0 DEF LinkSetSID0, TypeOK, Body
  <2> QED
    BY <1>7, <2>2, <2>3 DEF LinkSetSID0, TypeOK
<1>8. CASE Deliver(n, v)
  <2>1. pc' \in [Clients -> [Ctx -> OutPCs]] /\ JobOK'
    BY <1>8, TypedMove DEF Deliver
  <2>2. lock' \in [Clients -> Peers \cup Readers \cup {NULL}]
    BY <1>8 DEF Deliver, TypeOK
  <2>3. incoming_slot' \in [Clients -> Peers \cup {NULL}]
    BY <1>8 DEF Deliver, TypeOK
  <2>4. (stomped[n] \cup ({incoming_slot[n]} \ {NULL})) \ {v} \in SUBSET Peers
    BY DEF TypeOK
  <2>5. stomped' \in [Clients -> SUBSET Peers]
    BY <1>8, <2>4 DEF Deliver, TypeOK
  <2> QED
    BY <1>8, <2>1, <2>2, <2>3, <2>5 DEF Deliver, TypeOK
<1> QED
  BY <1>1, <1>2, <1>3, <1>4, <1>5, <1>6, <1>7, <1>8
     DEF Interrupt, FEE_link_request

LEMMA TypedRead ==
  ASSUME Typed, NEW n \in Clients, NEW r \in Readers, gf_bridge_read(n, r)
  PROVE  Typed'
<1> USE DEF slotVars, outVars, inVars, coreVars, NotReading
<1>1. rpc' \in [Clients -> [Readers -> ReadPCs]]
  <2>1. PICK where \in ReadPCs : RGoto(n, r, where)
    BY DEF gf_bridge_read, FEE_release_incoming, Await, AwaitWoken, AwaitSignal,
           AwaitFetch, ReleaseLock, ReleaseClear, ReleaseOops, ReadPCs
  <2> QED BY <2>1 DEF RGoto, TypeOK
<1>2. CASE Await(n, r) \/ AwaitWoken(n, r) \/ AwaitSignal(n, r) \/ ReleaseOops(n, r)
  BY <1>1, <1>2 DEF Await, AwaitWoken, AwaitSignal, ReleaseOops, TypeOK, JobOK
<1>3. CASE AwaitFetch(n, r)
  <2>1. sender' \in [Clients -> [Readers -> Peers \cup {NULL}]]
    BY <1>3 DEF AwaitFetch, TypeOK
  <2> QED BY <1>1, <1>3, <2>1 DEF AwaitFetch, TypeOK, JobOK
<1>4. CASE ReleaseLock(n, r)
  <2>1. lock' \in [Clients -> Peers \cup Readers \cup {NULL}]
    BY <1>4 DEF ReleaseLock, TypeOK
  <2> QED BY <1>1, <1>4, <2>1 DEF ReleaseLock, TypeOK, JobOK
<1>5. CASE ReleaseClear(n, r)
  <2>1. /\ lock' \in [Clients -> Peers \cup Readers \cup {NULL}]
        /\ incoming_slot' \in [Clients -> Peers \cup {NULL}]
    BY <1>5 DEF ReleaseClear, TypeOK
  <2>2. sender' \in [Clients -> [Readers -> Peers \cup {NULL}]]
    BY <1>5 DEF ReleaseClear, TypeOK
  <2>3. buflen' \in [Peers -> Nat]
    BY <1>5 DEF ReleaseClear, TypeOK
  <2> QED BY <1>1, <1>5, <2>1, <2>2, <2>3 DEF ReleaseClear, TypeOK, JobOK
<1> QED
  BY <1>2, <1>3, <1>4, <1>5 DEF gf_bridge_read, FEE_release_incoming

LEMMA TypedServer ==
  ASSUME Typed, Server
  PROVE  Typed'
<1> USE DEF slotVars, outVars, inVars, coreVars
<1>1. CASE \E m \in ServerTraffic : ServerSend(m)
  <2>1. PICK m \in ServerTraffic : ServerSend(m)
    BY <1>1
  <2>2. m.to \in Clients /\ m.to \in Ids /\ m.body \in Body
    BY MailboxAssumption, IdFacts DEF MailboxAssumption
  <2>3. MsgLen(m.body.kind) \in Nat
    BY <2>2, BodyFacts DEF Body
  <2>4. buflen' \in [Peers -> Nat] /\ last_responder' \in [Peers -> Ids \cup {NULL}]
    BY <2>1, <2>2, <2>3 DEF ServerSend, TypeOK
  <2>5. buf' \in [Peers -> [body: Body, to: Ids \cup {NULL}]]
    BY <2>1, <2>2 DEF ServerSend, TypeOK
  <2>6. irq[m.to] \cup {server_id} \in SUBSET Peers
    BY <2>2, IdFacts DEF TypeOK
  <2>7. irq' \in [Ids -> SUBSET Peers]
    BY <2>1, <2>6 DEF ServerSend, TypeOK
  <2>8. stomped' \in [Clients -> SUBSET Peers]
    BY <2>1 DEF ServerSend, TypeOK
  <2> QED
    BY <2>1, <2>4, <2>5, <2>7, <2>8 DEF ServerSend, TypeOK, JobOK
<1>2. CASE \E v \in Peers : ServerReceive(v)
  <2>1. PICK v \in Peers : ServerReceive(v)
    BY <1>2
  <2>2. buflen' \in [Peers -> Nat]
    BY <2>1 DEF ServerReceive, TypeOK
  <2>3. irq' \in [Ids -> SUBSET Peers]
    BY <2>1, IdFacts DEF ServerReceive, TypeOK
  <2> QED
    BY <2>1, <2>2, <2>3 DEF ServerReceive, TypeOK, JobOK
<1> QED BY <1>1, <1>2 DEF Server

LEMMA TypedStep == Typed /\ [Next]_vars => Typed'
<1> SUFFICES ASSUME Typed, [Next]_vars PROVE Typed'
  OBVIOUS
<1>1. CASE Server
  BY <1>1, TypedServer
<1>2. CASE \E n \in Clients : Client(n)
  <2>1. PICK n \in Clients : Client(n)
    BY <1>2
  <2> QED
    BY <2>1, TypedWrite, TypedUpdateSwitch, TypedOutgoing, TypedInterrupt,
       TypedRead DEF Client
<1>3. CASE UNCHANGED vars
  BY <1>3 DEF vars, slotVars, outVars, inVars, coreVars, TypeOK, JobOK
<1> QED BY <1>1, <1>2, <1>3 DEF Next

\* Every variable keeps its type, and no context reaches the doorbell of
\* FEE_create_outgoing() without a peer_id in 1 .. server_id.
THEOREM TypeCorrect == Spec => [](TypeOK /\ JobOK)
<1>1. Spec => []Typed
  BY TypedInit, TypedStep, PTL DEF Spec
<1> QED BY <1>1, PTL

-----------------------------------------------------------------------------
(***************************************************************************)
(* What one thread's step leaves to the others.  OnlyCtx: no other context *)
(* moves; OnlyReader: no other reader does.                                *)
(***************************************************************************)
OnlyCtx(n, c) == \A m \in Clients, d \in Ctx : (m # n \/ d # c) =>
                   pc'[m][d] = pc[m][d] /\ job'[m][d] = job[m][d]

OnlyReader(n, r) == \A m \in Clients, q \in Readers : (m # n \/ q # r) =>
                      rpc'[m][q] = rpc[m][q]

LEMMA OutgoingFrame ==
  ASSUME Typed, NEW n \in Clients, NEW c \in Ctx, FEE_create_outgoing(n, c)
  PROVE  /\ OnlyCtx(n, c)
         /\ pc[n][c] \in {"wait", "fill", "copy", "ring"}
         /\ pc'[n][c] \in {"idle", "wait", "fill", "copy", "ring"}
         /\ UNCHANGED inVars
<1> USE DEF inVars, Goto, SetJob, OnlyCtx, TypeOK
<1>1. CASE HwReady(n, c)
  BY <1>1 DEF HwReady
<1>2. CASE WouldStomp(n, c)
  BY <1>2 DEF WouldStomp, Return
<1>3. CASE Fill(n, c)
  BY <1>3 DEF Fill
<1>4. CASE Memcpy(n, c)
  BY <1>4 DEF Memcpy
<1>5. CASE Doorbell(n, c)
  BY <1>5 DEF Doorbell, Return
<1> QED BY <1>1, <1>2, <1>3, <1>4, <1>5 DEF FEE_create_outgoing

LEMMA EnterFrame ==
  ASSUME Typed, NEW n \in Clients, NEW c \in Ctx,
         \/ UPDATE_SWITCH(n, c)
         \/ \E req \in Traffic[n] : Write(n, c, req) \/ WriteError(n, c, req)
  PROVE  /\ OnlyCtx(n, c)
         /\ pc[n][c] = "idle"
         /\ pc'[n][c] \in {"idle", "wait"}
         /\ UNCHANGED <<slotVars, irq, stomped, inVars>>
BY DEF UPDATE_SWITCH, Write, WriteError, inVars, Goto, SetJob, OnlyCtx, TypeOK

LEMMA ReadFrame ==
  ASSUME Typed, NEW n \in Clients, NEW r \in Readers, gf_bridge_read(n, r)
  PROVE  OnlyReader(n, r) /\ UNCHANGED outVars
<1> USE DEF OnlyReader, RGoto, NotReading, TypeOK
<1> QED
  BY DEF gf_bridge_read, FEE_release_incoming, Await, AwaitWoken, AwaitSignal,
         AwaitFetch, ReleaseLock, ReleaseClear, ReleaseOops

\* A step of the interrupt context of vector v, by where it starts.
LEMMA InterruptFrame ==
  ASSUME Typed, NEW n \in Clients, NEW v \in Peers, Interrupt(n, v)
  PROVE  /\ OnlyCtx(n, v)
         /\ UNCHANGED <<rpc, sender, restarts, mutex, wbuf>>
         /\ \/ /\ pc[n][v] = "idle" /\ pc'[n][v] = "locked"
               /\ lock[n] = NULL /\ lock' = [lock EXCEPT ![n] = v]
            \/ /\ pc[n][v] = "locked" /\ pc'[n][v] \in {"idle", "wait", "ack", "ctl1"}
               /\ lock' = [lock EXCEPT ![n] = NULL]
            \/ /\ pc[n][v] \in {"ack", "ctl1", "ctl2"} /\ pc'[n][v] \in {"wait", "ctl2"}
               /\ UNCHANGED lock
<1> USE IdFacts DEF Goto, SetJob, OnlyCtx, TypeOK, inVars
<1>1. CASE all_msix(n, v)
  BY <1>1 DEF all_msix
<1>2. CASE LinkPing(n, v)
  BY <1>2 DEF LinkPing, Received
<1>3. CASE LinkPeerAttribute(n, v)
  BY <1>3 DEF LinkPeerAttribute, Received
<1>4. CASE LinkAck(n, v)
  BY <1>4 DEF LinkAck
<1>5. CASE LinkCtlWrite(n, v)
  BY <1>5 DEF LinkCtlWrite, Received
<1>6. CASE LinkSetCID0(n, v)
  BY <1>6 DEF LinkSetCID0
<1>7. CASE LinkSetSID0(n, v)
  BY <1>7 DEF LinkSetSID0
<1>8. CASE Deliver(n, v)
  BY <1>8 DEF Deliver
<1> QED
  BY <1>1, <1>2, <1>3, <1>4, <1>5, <1>6, <1>7, <1>8
     DEF Interrupt, FEE_link_request

-----------------------------------------------------------------------------
LEMMA LockStep == Typed /\ LockDiscipline /\ [Next]_vars => LockDiscipline'
<1> SUFFICES ASSUME Typed, LockDiscipline, [Next]_vars PROVE LockDiscipline'
  OBVIOUS
<1>1. CASE Server
  BY <1>1 DEF Server, ServerSend, ServerReceive, outVars, inVars, LockDiscipline
<1>2. ASSUME NEW n \in Clients, NEW c \in Ctx,
             \/ FEE_create_outgoing(n, c)
             \/ UPDATE_SWITCH(n, c)
             \/ \E req \in Traffic[n] : Write(n, c, req) \/ WriteError(n, c, req)
      PROVE  LockDiscipline'
  <2>1. /\ OnlyCtx(n, c) /\ pc[n][c] # "locked" /\ pc'[n][c] # "locked"
        /\ UNCHANGED inVars
    BY <1>2, OutgoingFrame, EnterFrame
  <2>2. \A m \in Clients, v \in Peers :
          pc'[m][v] = "locked" <=> pc[m][v] = "locked"
    BY <2>1, IdFacts DEF OnlyCtx
  <2> QED BY <2>1, <2>2 DEF LockDiscipline, inVars
<1>3. ASSUME NEW n \in Clients, NEW v \in Peers, Interrupt(n, v)
      PROVE  LockDiscipline'
  <2>1. \A m \in Clients : m # n =>
          /\ lock'[m] = lock[m]
          /\ \A u \in Peers : pc'[m][u] = pc[m][u]
    BY <1>3, InterruptFrame, IdFacts DEF OnlyCtx, TypeOK
  <2>2. \A u \in Peers : u # v => pc'[n][u] = pc[n][u]
    <3>1. OnlyCtx(n, v)
      BY <1>3, InterruptFrame
    <3> QED BY <3>1, IdFacts DEF OnlyCtx
  <2>3. rpc' = rpc
    BY <1>3, InterruptFrame
  <2>4. CASE pc[n][v] = "idle"
    BY <1>3, <2>1, <2>2, <2>3, <2>4, InterruptFrame, IdFacts DEF LockDiscipline, TypeOK
  <2>5. CASE pc[n][v] = "locked"
    BY <1>3, <2>1, <2>2, <2>3, <2>5, InterruptFrame, IdFacts DEF LockDiscipline, TypeOK
  <2>6. CASE pc[n][v] \notin {"idle", "locked"}
    BY <1>3, <2>1, <2>2, <2>3, <2>6, InterruptFrame, IdFacts DEF LockDiscipline, TypeOK
  <2> QED BY <2>4, <2>5, <2>6
<1>4. ASSUME NEW n \in Clients, NEW r \in Readers, gf_bridge_read(n, r)
      PROVE  LockDiscipline'
  <2>1. OnlyReader(n, r) /\ pc' = pc
    BY <1>4, ReadFrame DEF outVars
  <2> USE DEF RGoto, LockDiscipline, TypeOK
  <2>2. CASE Await(n, r) \/ AwaitWoken(n, r) \/ AwaitSignal(n, r)
             \/ AwaitFetch(n, r) \/ ReleaseOops(n, r)
    <3>1. lock' = lock /\ (rpc[n][r] = "locked" => rpc'[n][r] = "oops")
      BY <2>2 DEF Await, AwaitWoken, AwaitSignal, AwaitFetch, ReleaseOops
    <3>2. rpc'[n][r] # "locked" /\ rpc[n][r] # "oops"
      BY <2>2 DEF Await, AwaitWoken, AwaitSignal, AwaitFetch, ReleaseOops
    <3> QED BY <2>1, <3>1, <3>2 DEF OnlyReader
  <2>3. CASE ReleaseLock(n, r)
    BY <2>1, <2>3, IdFacts DEF OnlyReader, ReleaseLock
  <2>4. CASE ReleaseClear(n, r)
    BY <2>1, <2>4, IdFacts DEF OnlyReader, ReleaseClear
  <2> QED
    BY <1>4, <2>2, <2>3, <2>4 DEF gf_bridge_read, FEE_release_incoming
<1>5. CASE UNCHANGED vars
  BY <1>5 DEF vars, outVars, inVars, LockDiscipline
<1> QED
  BY <1>1, <1>2, <1>3, <1>4, <1>5, IdFacts DEF Next, Client

\* On every way through all_msix(), FEE_link_request() and
\* FEE_release_incoming() the spinlock has exactly the holder the code says.
THEOREM LockCorrect == Spec => []LockDiscipline
<1>1. Init => LockDiscipline
  BY IdFacts DEF Init, LockDiscipline
<1> QED BY <1>1, TypedInit, TypedStep, LockStep, PTL DEF Spec

-----------------------------------------------------------------------------
(***************************************************************************)
(* A sole reader that has seen incoming_slot set finds it set until it     *)
(* clears it itself: all_msix() only ever replaces one slot by another.    *)
(***************************************************************************)
HasMessage ==
  (\A q1, q2 \in Readers : q1 = q2) =>
    \A n \in Clients, r \in Readers :
      /\ rpc[n][r] \in {"ready", "got", "locked"} => incoming_slot[n] # NULL
      /\ rpc[n][r] # "oops"

LEMMA HasMessageStep == Typed /\ HasMessage /\ [Next]_vars => HasMessage'
<1> SUFFICES ASSUME Typed, HasMessage, [Next]_vars,
                    \A q1, q2 \in Readers : q1 = q2
             PROVE  \A n \in Clients, r \in Readers :
                      /\ rpc'[n][r] \in {"ready", "got", "locked"}
                           => incoming_slot'[n] # NULL
                      /\ rpc'[n][r] # "oops"
  BY DEF HasMessage
<1>1. CASE UNCHANGED inVars
  BY <1>1 DEF inVars, HasMessage
<1>2. CASE Server
  BY <1>1, <1>2 DEF Server, ServerSend, ServerReceive
<1>3. ASSUME NEW n \in Clients, NEW v \in Peers, Interrupt(n, v)
      PROVE  /\ rpc' = rpc
             /\ \A m \in Clients : incoming_slot[m] # NULL => incoming_slot'[m] # NULL
  <2>1. rpc' = rpc
    BY <1>3, InterruptFrame
  <2>2. incoming_slot' = incoming_slot \/ Deliver(n, v)
    BY <1>3 DEF Interrupt, all_msix, FEE_link_request, LinkPing,
       LinkPeerAttribute, LinkAck, LinkCtlWrite, LinkSetCID0, LinkSetSID0,
       Received, inVars
  <2>3. Deliver(n, v) =>
          \A m \in Clients : incoming_slot[m] # NULL => incoming_slot'[m] # NULL
    BY IdFacts DEF Deliver, TypeOK
  <2> QED BY <2>1, <2>2, <2>3
<1>4. ASSUME NEW n \in Clients, NEW r \in Readers, gf_bridge_read(n, r)
      PROVE  \A m \in Clients, q \in Readers :
               /\ rpc'[m][q] \in {"ready", "got", "locked"} => incoming_slot'[m] # NULL
               /\ rpc'[m][q] # "oops"
  <2> USE DEF RGoto, HasMessage, TypeOK
  <2>1. CASE Await(n, r)
    BY <2>1 DEF Await
  <2>2. CASE AwaitWoken(n, r)
    BY <2>2 DEF AwaitWoken
  <2>3. CASE AwaitSignal(n, r)
    BY <2>3 DEF AwaitSignal
  <2>4. CASE AwaitFetch(n, r)
    BY <2>4 DEF AwaitFetch
  <2>5. CASE ReleaseLock(n, r)
    BY <2>5 DEF ReleaseLock
  <2>6. CASE ReleaseClear(n, r)
    BY <2>6 DEF ReleaseClear
  <2>7. CASE ReleaseOops(n, r)
    BY <2>7 DEF ReleaseOops
  <2> QED
    BY <1>4, <2>1, <2>2, <2>3, <2>4, <2>5, <2>6, <2>7
       DEF gf_bridge_read, FEE_release_incoming
<1>5. ASSUME NEW n \in Clients, NEW c \in Ctx,
             \/ FEE_create_outgoing(n, c)
             \/ UPDATE_SWITCH(n, c)
             \/ \E req \in Traffic[n] : Write(n, c, req) \/ WriteError(n, c, req)
      PROVE  UNCHANGED inVars
  BY <1>5, OutgoingFrame, EnterFrame
<1>6. CASE \E n \in Clients, v \in Peers : Interrupt(n, v)
  BY <1>3, <1>6 DEF HasMessage
<1>7. CASE UNCHANGED vars
  BY <1>1, <1>7 DEF vars
<1> QED
  BY <1>1, <1>2, <1>4, <1>5, <1>6, <1>7, IdFacts DEF Next, Client

\* A single reader thread never dereferences a NULL incoming_slot, in
\* FEE_await_incoming()'s caller or in FEE_release_incoming().
THEOREM SoleReaderSafe == Spec => []SoleReaderNeverOops
<1>1. Init => HasMessage
  BY DEF Init, HasMessage
<1>2. HasMessage => SoleReaderNeverOops
  BY DEF HasMessage, SoleReaderNeverOops
<1> QED BY <1>1, <1>2, TypedInit, TypedStep, HasMessageStep, PTL DEF Spec

-----------------------------------------------------------------------------
(***************************************************************************)
(* A writer inside gf_bridge_write() holds wbuf_mutex.                     *)
(***************************************************************************)
MutexHeld == \A n \in Clients, w \in Writers : pc[n][w] # "idle" => mutex[n] = w

LEMMA WriteStep ==
  Typed /\ MutexHeld /\ WriteIntact /\ [Next]_vars => MutexHeld' /\ WriteIntact'
<1> SUFFICES ASSUME Typed, MutexHeld, WriteIntact, [Next]_vars
             PROVE  MutexHeld' /\ WriteIntact'
  OBVIOUS
<1> USE DEF outVars
<1>1. CASE UNCHANGED outVars
  BY <1>1 DEF MutexHeld, WriteIntact
<1>2. CASE Server
  BY <1>1, <1>2 DEF Server, ServerSend, ServerReceive
<1>3. ASSUME NEW n \in Clients, NEW r \in Readers, gf_bridge_read(n, r)
      PROVE  UNCHANGED outVars
  BY <1>3, ReadFrame
<1>4. ASSUME NEW n \in Clients, NEW c \in Ctx, OnlyCtx(n, c), c \notin Writers,
             UNCHANGED <<mutex, wbuf>>
      PROVE  MutexHeld' /\ WriteIntact'
  <2>1. \A m \in Clients, w \in Writers :
          pc'[m][w] = pc[m][w] /\ job'[m][w] = job[m][w]
    BY <1>4, IdFacts DEF OnlyCtx
  <2>2. MutexHeld'
    BY <1>4, <2>1 DEF MutexHeld
  <2>3. WriteIntact'
    BY <1>4, <2>1 DEF WriteIntact
  <2> QED BY <2>2, <2>3
<1>5. ASSUME NEW n \in Clients, NEW v \in Peers, Interrupt(n, v)
      PROVE  MutexHeld' /\ WriteIntact'
  <2>1. OnlyCtx(n, v) /\ UNCHANGED <<mutex, wbuf>>
    BY <1>5, InterruptFrame
  <2>2. v \in Ctx /\ v \notin Writers
    BY IdFacts
  <2> QED BY <1>4, <2>1, <2>2
<1>6. ASSUME NEW n \in Clients, NEW a \in Admins, UPDATE_SWITCH(n, a)
      PROVE  MutexHeld' /\ WriteIntact'
  <2>1. a \in Ctx /\ a \notin Writers
    BY MailboxAssumption, IdFacts DEF MailboxAssumption
  <2> QED BY <1>4, <1>6, <2>1, EnterFrame DEF UPDATE_SWITCH
<1>7. ASSUME NEW n \in Clients, NEW c \in Ctx, FEE_create_outgoing(n, c)
      PROVE  MutexHeld' /\ WriteIntact'
  <2>1. OnlyCtx(n, c) /\ pc[n][c] # "idle" /\ wbuf' = wbuf
    BY <1>7, OutgoingFrame DEF FEE_create_outgoing, HwReady, WouldStomp, Fill,
       Memcpy, Doorbell
  <2>2. CASE c \notin Writers
    <3>1. UNCHANGED mutex
      BY <1>7, <2>2 DEF FEE_create_outgoing, HwReady, WouldStomp, Fill, Memcpy,
         Doorbell, Return
    <3> QED BY <1>4, <2>1, <2>2, <3>1
  <2>3. CASE c \in Writers
    <3>1. \A w \in Writers : w # c => pc[n][w] = "idle"
      BY <2>1, <2>3 DEF MutexHeld
    <3>2. \/ mutex' = mutex /\ job' = job
          \/ pc'[n][c] = "idle" /\ mutex' = [mutex EXCEPT ![n] = NULL]
      BY <1>7, <2>3 DEF FEE_create_outgoing, HwReady, WouldStomp, Fill, Memcpy,
         Doorbell, Return, Goto, TypeOK
    <3>3. \A m \in Clients : m # n => mutex'[m] = mutex[m]
      BY <3>2 DEF TypeOK
    <3>4. \A m \in Clients, w \in Writers : (m # n \/ w # c) =>
            pc'[m][w] = pc[m][w] /\ job'[m][w] = job[m][w]
      BY <2>1, IdFacts DEF OnlyCtx
    <3>5. MutexHeld'
      BY <2>1, <2>3, <3>1, <3>2, <3>3, <3>4 DEF MutexHeld
    <3>6. WriteIntact'
      BY <2>1, <2>3, <3>1, <3>2, <3>4 DEF WriteIntact
    <3> QED BY <3>5, <3>6
  <2> QED BY <2>2, <2>3
<1>8. ASSUME NEW n \in Clients, NEW w \in Writers, NEW req \in Traffic[n],
             Write(n, w, req) \/ WriteError(n, w, req)
      PROVE  MutexHeld' /\ WriteIntact'
  <2>1. w \in Ctx
    BY IdFacts
  <2>2. OnlyCtx(n, w)
    BY <1>8, <2>1, EnterFrame
  <2>3. \A u \in Writers : pc[n][u] = "idle"
    BY <1>8, IdFacts DEF MutexHeld, Write, WriteError
  <2>4. \A m \in Clients, u \in Writers : (m # n \/ u # w) =>
          pc'[m][u] = pc[m][u] /\ job'[m][u] = job[m][u]
    BY <2>2, IdFacts DEF OnlyCtx
  <2>5. \A m \in Clients : m # n => mutex'[m] = mutex[m] /\ wbuf'[m] = wbuf[m]
    BY <1>8 DEF Write, WriteError, TypeOK
  <2>6. CASE Write(n, w, req)
    <3>1. /\ mutex'[n] = w /\ wbuf'[n] = req.body
          /\ job'[n][w].peer = peer_id(req.CID, req.SID)
      BY <2>1, <2>6 DEF Write, SetJob, TypeOK
    <3> QED BY <2>3, <2>4, <2>5, <3>1 DEF MutexHeld, WriteIntact
  <2>7. CASE WriteError(n, w, req)
    BY <2>3, <2>5, <2>7 DEF WriteError, MutexHeld, WriteIntact
  <2> QED BY <1>8, <2>6, <2>7
<1>9. CASE UNCHANGED vars
  BY <1>1, <1>9 DEF vars
<1> QED
  BY <1>1, <1>2, <1>3, <1>5, <1>6, <1>7, <1>8, <1>9 DEF Next, Client

\* Whatever the other writers, the restarts and the interrupts do, a write()
\* sends the body its own caller passed, to the peer that caller named.
THEOREM WriteCorrect == Spec => []WriteIntact
<1>1. Init => MutexHeld /\ WriteIntact
  BY IdFacts DEF Init, MutexHeld, WriteIntact
<1> QED BY <1>1, TypedInit, TypedStep, WriteStep, PTL DEF Spec

-----------------------------------------------------------------------------
\* A context that is neither sending nor in all_msix() can move without
\* losing track of any message.
LEMMA KeepAccount ==
  ASSUME Typed, NEW n \in Clients, NEW c \in Ctx, OnlyCtx(n, c),
         UNCHANGED incoming_slot, NEW s \in Peers, NEW d
  PROVE  /\ (pc[n][c] \notin {"copy", "ring"} \/ s # n) /\ Sending(s, d) => Sending(s, d)'
         /\ (pc[n][c] # "locked" \/ s # c) /\ HeldBy(s, d) => HeldBy(s, d)'
<1>1. (pc[n][c] \notin {"copy", "ring"} \/ s # n) /\ Sending(s, d) => Sending(s, d)'
  BY DEF OnlyCtx, Sending
<1>2. (pc[n][c] # "locked" \/ s # c) /\ HeldBy(s, d) => HeldBy(s, d)'
  BY IdFacts DEF OnlyCtx, HeldBy
<1> QED BY <1>1, <1>2

LEMMA BusyQuiet ==
  ASSUME Typed, BusyAccounted, NEW n \in Clients, NEW c \in Ctx, OnlyCtx(n, c),
         pc[n][c] \notin {"copy", "ring", "locked"},
         UNCHANGED <<buflen, last_responder, irq, stomped, incoming_slot>>
  PROVE  BusyAccounted'
<1> SUFFICES ASSUME NEW s \in Peers, buflen[s] # 0
             PROVE  Accounted(s, last_responder[s])'
  BY DEF BusyAccounted
<1> DEFINE d == last_responder[s]
<1>1. Accounted(s, d) /\ last_responder'[s] = d
  BY DEF BusyAccounted
<1>2. (Sending(s, d) => Sending(s, d)') /\ (HeldBy(s, d) => HeldBy(s, d)')
  BY KeepAccount
<1> QED BY <1>1, <1>2 DEF Accounted

LEMMA BusyOutgoing ==
  ASSUME Typed, BusyAccounted, NEW n \in Clients, NEW c \in Ctx,
         FEE_create_outgoing(n, c)
  PROVE  BusyAccounted'
<1>0. OnlyCtx(n, c) /\ pc[n][c] # "locked" /\ UNCHANGED incoming_slot /\ n \in Peers
  BY OutgoingFrame, IdFacts DEF inVars
<1>1. CASE HwReady(n, c) \/ WouldStomp(n, c)
  BY <1>0, <1>1, BusyQuiet DEF HwReady, WouldStomp, slotVars
<1>2. ASSUME NEW s \in Peers, s # n, buflen[s] # 0,
             buflen'[s] = buflen[s], last_responder'[s] = last_responder[s],
             \A d \in Ids : s \in irq[d] => s \in irq'[d],
             \A d \in Clients : s \in stomped[d] => s \in stomped'[d]
      PROVE  Accounted(s, last_responder[s])'
  <2> DEFINE d == last_responder[s]
  <2>1. Accounted(s, d) /\ last_responder'[s] = d
    BY <1>2 DEF BusyAccounted
  <2>2. (Sending(s, d) => Sending(s, d)') /\ (HeldBy(s, d) => HeldBy(s, d)')
    BY <1>0, <1>2, KeepAccount
  <2> QED BY <1>2, <2>1, <2>2 DEF Accounted
<1>3. CASE Fill(n, c)
  <2>1. /\ pc'[n][c] = "copy" /\ job' = job
        /\ last_responder'[n] = job[n][c].peer
    BY <1>0, <1>3 DEF Fill, Goto, TypeOK
  <2>2. Accounted(n, last_responder[n])'
    BY <2>1 DEF Accounted, Sending
  <2>3. \A s \in Peers : s # n =>
          /\ buflen'[s] = buflen[s] /\ last_responder'[s] = last_responder[s]
          /\ \A d \in Clients : s \in stomped[d] => s \in stomped'[d]
    BY <1>3 DEF Fill, TypeOK
  <2>4. irq' = irq
    BY <1>3 DEF Fill
  <2> QED BY <1>2, <2>2, <2>3, <2>4 DEF BusyAccounted
<1>4. CASE Memcpy(n, c)
  <2>1. /\ pc'[n][c] = "ring" /\ job' = job
        /\ UNCHANGED <<buflen, last_responder, irq, stomped>>
    BY <1>4 DEF Memcpy, Goto, TypeOK
  <2>2. \A d : Sending(n, d) => Sending(n, d)'
    BY <1>0, <2>1 DEF Sending, OnlyCtx
  <2>3. \A d : HeldBy(n, d) => HeldBy(n, d)'
    BY <1>0, KeepAccount
  <2>4. buflen[n] # 0 => Accounted(n, last_responder[n])'
    <3> DEFINE d == last_responder[n]
    <3> SUFFICES ASSUME buflen[n] # 0 PROVE Accounted(n, d)'
      OBVIOUS
    <3>1. Accounted(n, d) /\ last_responder'[n] = d
      BY <1>0, <2>1 DEF BusyAccounted
    <3>2. (Sending(n, d) => Sending(n, d)') /\ (HeldBy(n, d) => HeldBy(n, d)')
      BY <2>1, <2>2, <2>3
    <3> QED BY <2>1, <3>1, <3>2 DEF Accounted
  <2> QED BY <1>2, <2>1, <2>4 DEF BusyAccounted
<1>5. CASE Doorbell(n, c)
  <2>1. job[n][c].peer \in Ids
    BY <1>5 DEF Doorbell, JobOK
  <2>2. /\ UNCHANGED <<buflen, last_responder, stomped>>
        /\ \A s \in Peers, d \in Ids : s \in irq[d] => s \in irq'[d]
        /\ n \in irq'[job[n][c].peer]
    BY <1>5, <2>1 DEF Doorbell, slotVars, TypeOK
  <2>3. ASSUME buflen[n] # 0 PROVE Accounted(n, last_responder[n])'
    <3> DEFINE d == last_responder[n]
    <3>1. Accounted(n, d) /\ last_responder'[n] = d
      BY <1>0, <2>2, <2>3 DEF BusyAccounted
    <3>2. CASE Sending(n, d) /\ job[n][c].peer # d
      <4>1. Sending(n, d)'
        BY <1>0, <3>1, <3>2 DEF Sending, OnlyCtx
      <4> QED BY <3>1, <4>1 DEF Accounted
    <3>3. CASE job[n][c].peer = d
      BY <2>1, <2>2, <3>1, <3>3 DEF Accounted
    <3>4. CASE HeldBy(n, d)
      <4>1. HeldBy(n, d)'
        BY <1>0, <3>1, <3>4, KeepAccount
      <4> QED BY <3>1, <4>1 DEF Accounted
    <3> QED BY <1>0, <2>2, <3>1, <3>2, <3>3, <3>4 DEF Accounted
  <2> QED BY <1>2, <2>2, <2>3 DEF BusyAccounted
<1> QED BY <1>1, <1>3, <1>4, <1>5 DEF FEE_create_outgoing

LEMMA BusyInterrupt ==
  ASSUME Typed, BusyAccounted, NEW n \in Clients, NEW v \in Peers, Interrupt(n, v)
  PROVE  BusyAccounted'
<1>0. OnlyCtx(n, v) /\ v \in Ctx /\ n \in Ids
  BY InterruptFrame, IdFacts
<1>1. CASE LinkAck(n, v) \/ LinkSetCID0(n, v) \/ LinkSetSID0(n, v)
  BY <1>0, <1>1, BusyQuiet DEF LinkAck, LinkSetCID0, LinkSetSID0, slotVars, inVars
<1>2. CASE all_msix(n, v)
  <2>1. /\ pc[n][v] = "idle" /\ pc'[n][v] = "locked"
        /\ UNCHANGED <<buflen, last_responder, stomped, incoming_slot>>
    BY <1>0, <1>2 DEF all_msix, Goto, slotVars, TypeOK
  <2>2. \A s \in Peers, d \in Ids :
          s \in irq[d] => s \in irq'[d] \/ (s = v /\ d = n)
    BY <1>2 DEF all_msix, TypeOK
  <2>3. HeldBy(v, n)'
    BY <2>1 DEF HeldBy
  <2>4. ASSUME NEW s \in Peers, buflen[s] # 0 PROVE Accounted(s, last_responder[s])'
    <3> DEFINE d == last_responder[s]
    <3>1. Accounted(s, d) /\ last_responder'[s] = d
      BY <2>1, <2>4 DEF BusyAccounted
    <3>2. (Sending(s, d) => Sending(s, d)') /\ (HeldBy(s, d) => HeldBy(s, d)')
      BY <1>0, <2>1, <3>1, KeepAccount
    <3> QED BY <2>1, <2>2, <2>3, <3>1, <3>2 DEF Accounted
  <2> QED BY <2>1, <2>4 DEF BusyAccounted
<1>3. CASE LinkPing(n, v) \/ LinkPeerAttribute(n, v) \/ LinkCtlWrite(n, v)
  <2>1. Received(n, v)
    BY <1>3 DEF LinkPing, LinkPeerAttribute, LinkCtlWrite
  <2>2. /\ pc[n][v] = "locked" /\ buflen'[v] = 0
        /\ \A s \in Peers : s # v => buflen'[s] = buflen[s]
        /\ UNCHANGED <<last_responder, irq, stomped, incoming_slot>>
    BY <2>1 DEF Received, TypeOK
  <2>3. ASSUME NEW s \in Peers, s # v, buflen[s] # 0
        PROVE  Accounted(s, last_responder[s])'
    <3> DEFINE d == last_responder[s]
    <3>1. Accounted(s, d) /\ last_responder'[s] = d
      BY <2>2, <2>3 DEF BusyAccounted
    <3>2. (Sending(s, d) => Sending(s, d)') /\ (HeldBy(s, d) => HeldBy(s, d)')
      BY <1>0, <2>2, <2>3, <3>1, KeepAccount
    <3> QED BY <2>2, <3>1, <3>2 DEF Accounted
  <2> QED BY <2>2, <2>3 DEF BusyAccounted
<1>4. CASE Deliver(n, v)
  <2>1. /\ pc[n][v] = "locked" /\ incoming_slot'[n] = v
        /\ \A m \in Clients : m # n => /\ incoming_slot'[m] = incoming_slot[m]
                                      /\ stomped'[m] = stomped[m]
        /\ stomped'[n] = (stomped[n] \cup ({incoming_slot[n]} \ {NULL})) \ {v}
        /\ UNCHANGED <<buflen, last_responder, irq>>
    BY <1>4 DEF Deliver, slotVars, TypeOK
  <2>2. HeldBy(v, n)'
    BY <2>1 DEF HeldBy
  <2>3. ASSUME NEW s \in Peers, buflen[s] # 0, ~ (s = v /\ last_responder[s] = n)
        PROVE  Accounted(s, last_responder[s])'
    <3> DEFINE d == last_responder[s]
    <3>1. Accounted(s, d) /\ last_responder'[s] = d
      BY <2>1, <2>3 DEF BusyAccounted
    <3>2. Sending(s, d) => Sending(s, d)'
      BY <1>0, <2>1, <3>1 DEF Sending, OnlyCtx
    <3>3. HeldBy(s, d) => HeldBy(s, d)' \/ (d \in Clients /\ s \in stomped'[d])
      <4>1. CASE d \in Clients /\ pc[d][s] = "locked"
        <5>1. d # n \/ s # v
          BY <2>3
        <5>2. pc'[d][s] = "locked"
          BY <1>0, <4>1, <5>1, IdFacts DEF OnlyCtx
        <5> QED BY <3>1, <4>1, <5>2 DEF HeldBy
      <4>2. CASE d \in Clients /\ incoming_slot[d] = s
        <5>1. CASE d = n
          <6>1. s # v /\ s # NULL
            BY <2>3, <5>1, IdFacts
          <6> QED BY <2>1, <4>2, <5>1, <6>1
        <5>2. CASE d # n
          BY <2>1, <3>1, <4>2, <5>2 DEF HeldBy
        <5> QED BY <5>1, <5>2
      <4> QED BY <4>1, <4>2 DEF HeldBy
    <3>4. d \in Clients /\ s \in stomped[d] => s \in stomped'[d]
      BY <2>1, <2>3
    <3> QED BY <2>1, <3>1, <3>2, <3>3, <3>4 DEF Accounted
  <2>4. \A s \in Peers : s = v /\ last_responder[s] = n =>
          Accounted(s, last_responder[s])'
    BY <2>1, <2>2 DEF Accounted
  <2> QED BY <2>1, <2>3, <2>4 DEF BusyAccounted
<1> QED BY <1>1, <1>2, <1>3, <1>4 DEF Interrupt, FEE_link_request

LEMMA BusyRead ==
  ASSUME Typed, BusyAccounted, NEW n \in Clients, NEW r \in Readers,
         gf_bridge_read(n, r)
  PROVE  BusyAccounted'
<1>1. pc' = pc /\ job' = job
  BY ReadFrame DEF outVars
<1>2. CASE ReleaseClear(n, r)
  <2>1. /\ incoming_slot[n] # NULL /\ buflen'[incoming_slot[n]] = 0
        /\ \A s \in Peers : s # incoming_slot[n] => buflen'[s] = buflen[s]
        /\ \A m \in Clients : m # n => incoming_slot'[m] = incoming_slot[m]
        /\ UNCHANGED <<last_responder, irq, stomped>>
    BY <1>2 DEF ReleaseClear, TypeOK
  <2>2. ASSUME NEW s \in Peers, s # incoming_slot[n], buflen[s] # 0
        PROVE  Accounted(s, last_responder[s])'
    <3>1. Accounted(s, last_responder[s])
      BY <2>2 DEF BusyAccounted
    <3> QED BY <1>1, <2>1, <2>2, <3>1 DEF Accounted, Sending, HeldBy
  <2> QED BY <2>1, <2>2 DEF BusyAccounted
<1>3. CASE UNCHANGED <<slotVars, irq, stomped, incoming_slot>>
  BY <1>1, <1>3 DEF slotVars, BusyAccounted, Accounted, Sending, HeldBy
<1> QED
  BY <1>2, <1>3 DEF gf_bridge_read, FEE_release_incoming, NotReading, Await,
     AwaitWoken, AwaitSignal, AwaitFetch, ReleaseLock, ReleaseOops

LEMMA BusyServer ==
  ASSUME Typed, BusyAccounted, Server
  PROVE  BusyAccounted'
<1> USE DEF slotVars, outVars, inVars
<1>1. CASE \E m \in ServerTraffic : ServerSend(m)
  <2>1. PICK m \in ServerTraffic : ServerSend(m)
    BY <1>1
  <2>2. m.to \in Ids /\ server_id \in Peers
    BY MailboxAssumption, IdFacts DEF MailboxAssumption
  <2>3. /\ last_responder'[server_id] = m.to /\ server_id \in irq'[m.to]
        /\ \A d \in Ids : irq[d] \subseteq irq'[d]
    BY <2>1, <2>2 DEF ServerSend, TypeOK
  <2>4. \A s \in Peers : s # server_id =>
          /\ buflen'[s] = buflen[s] /\ last_responder'[s] = last_responder[s]
          /\ \A d \in Clients : s \in stomped[d] => s \in stomped'[d]
    BY <2>1 DEF ServerSend, TypeOK
  <2>5. UNCHANGED <<pc, job, incoming_slot>>
    BY <2>1 DEF ServerSend
  <2>6. Accounted(server_id, last_responder[server_id])'
    BY <2>2, <2>3 DEF Accounted
  <2>7. ASSUME NEW s \in Peers, s # server_id, buflen[s] # 0
        PROVE  Accounted(s, last_responder[s])'
    <3>1. Accounted(s, last_responder[s])
      BY <2>7 DEF BusyAccounted
    <3> QED BY <2>3, <2>4, <2>5, <2>7, <3>1 DEF Accounted, Sending, HeldBy
  <2> QED BY <2>4, <2>6, <2>7 DEF BusyAccounted
<1>2. CASE \E v \in Peers : ServerReceive(v)
  <2>1. PICK v \in Peers : ServerReceive(v)
    BY <1>2
  <2>2. /\ buflen'[v] = 0
        /\ \A s \in Peers : s # v => buflen'[s] = buflen[s]
        /\ \A s \in Peers, d \in Ids : s # v /\ s \in irq[d] => s \in irq'[d]
        /\ UNCHANGED <<last_responder, stomped, pc, job, incoming_slot>>
    BY <2>1 DEF ServerReceive, TypeOK
  <2>3. ASSUME NEW s \in Peers, s # v, buflen[s] # 0
        PROVE  Accounted(s, last_responder[s])'
    <3>1. Accounted(s, last_responder[s])
      BY <2>3 DEF BusyAccounted
    <3> QED BY <2>2, <2>3, <3>1 DEF Accounted, Sending, HeldBy
  <2> QED BY <2>2, <2>3 DEF BusyAccounted
<1> QED BY <1>1, <1>2 DEF Server

LEMMA BusyStep == Typed /\ BusyAccounted /\ [Next]_vars => BusyAccounted'
<1> SUFFICES ASSUME Typed, BusyAccounted, [Next]_vars PROVE BusyAccounted'
  OBVIOUS
<1>1. CASE Server
  BY <1>1, BusyServer
<1>2. ASSUME NEW n \in Clients, NEW c \in Ctx,
             \/ UPDATE_SWITCH(n, c)
             \/ \E req \in Traffic[n] : Write(n, c, req) \/ WriteError(n, c, req)
      PROVE  BusyAccounted'
  <2>1. /\ OnlyCtx(n, c) /\ pc[n][c] = "idle"
        /\ UNCHANGED <<buflen, last_responder, irq, stomped, incoming_slot>>
    BY <1>2, EnterFrame DEF slotVars, inVars
  <2> QED BY <2>1, BusyQuiet
<1>3. CASE UNCHANGED vars
  BY <1>3 DEF vars, slotVars, outVars, inVars, BusyAccounted, Accounted, Sending,
     HeldBy
<1> QED
  BY <1>1, <1>2, <1>3, BusyOutgoing, BusyInterrupt, BusyRead, IdFacts
     DEF Next, Client

\* No message is forgotten: a mailslot with its buflen set is still on its
\* way to, held by, or was stomped at the peer it was last sent to.
THEOREM NothingForgotten == Spec => []BusyAccounted
<1>1. Init => BusyAccounted
  BY DEF Init, BusyAccounted
<1> QED BY <1>1, TypedInit, TypedStep, BusyStep, PTL DEF Spec
=============================================================================
