-------------------------- MODULE LetterboxProofs --------------------------
(***************************************************************************)
(* Theorems about Mailbox for the traffic that its handshake was made for: *)
(* a client sends by write() only, and neither writes nor is sent the      *)
(* link-level requests that an interrupt handler answers by itself.  Any   *)
(* number of clients, writers and readers, any such messages.              *)
(*                                                                         *)
(* Without that limit HandshakeExclusive is false: the run overlap shows   *)
(* an answer from a handler and a write() in the slot at the same time.    *)
(***************************************************************************)
EXTENDS MailboxProofs, MailboxRefinement

LinkKinds == {"ping", "attr", "ctlw"}

\* No insmod or rmmod sends, no message is a link request, and the server
\* sends no empty text.
Quiet ==
  /\ Admins = {}
  /\ \A n \in Clients : \A req \in Traffic[n] : req.body.kind \notin LinkKinds
  /\ \A m \in ServerTraffic : MsgLen(m.body.kind) # 0 /\ m.body.kind \notin LinkKinds

SoleReader == \A q1, q2 \in Readers : q1 = q2

-----------------------------------------------------------------------------
(***************************************************************************)
(* The parts of the inductive invariant.                                   *)
(***************************************************************************)
\* No link request is anywhere, so that no handler ever sends.
NoRequests ==
  /\ \A p \in Peers : buf[p].body.kind \notin LinkKinds
  /\ \A n \in Clients : wbuf[n].kind \notin LinkKinds
  /\ \A n \in Clients, v \in Peers : pc[n][v] \in {"idle", "locked"}

\* Between the test of buflen and the doorbell.
Sends == {"fill", "copy", "ring"}

\* The slot of client s while one of its writers has it.
FillTable(s) ==
  \A w \in Writers :
    /\ pc[s][w] # "idle" => MsgLen(wbuf[s].kind) # 0
    /\ pc[s][w] = "fill" => buflen[s] = 0
    /\ pc[s][w] \in {"copy", "ring"} => buflen[s] # 0
    /\ pc[s][w] = "ring" => buf[s].to = job[s][w].peer

\* The slot of s has a whole message for d, and nobody writes into it.
Posted(s, d) ==
  /\ buflen[s] # 0 /\ buf[s].to = d
  /\ s \in Clients => \A w \in Writers : pc[s][w] \notin Sends

\* The doorbell, a handler, incoming_slot or a stomp stands for the message
\* of s at d: only for such a message, and only at the peer it is for.
Has(s, d) ==
  \/ s \in irq[d]
  \/ d \in Clients /\ (pc[d][s] = "locked" \/ incoming_slot[d] = s \/ s \in stomped[d])

Addressed == \A s \in Peers, d \in Ids : Has(s, d) => Posted(s, d)

\* And there is one of them for one message.
Once(s, d) ==
  /\ s \in irq[d] => pc[d][s] # "locked" /\ incoming_slot[d] # s /\ s \notin stomped[d]
  /\ pc[d][s] = "locked" => incoming_slot[d] # s /\ s \notin stomped[d]
  /\ incoming_slot[d] = s => s \notin stomped[d]

OnceEach == \A s \in Peers, d \in Clients : Once(s, d)

Slots == (\A s \in Clients : FillTable(s)) /\ Addressed /\ OnceEach

\* What a reader copies from is still in incoming_slot, or was stomped.
ReadTable ==
  \A n \in Clients, r \in Readers : rpc[n][r] = "got" =>
    sender[n][r] \in Peers /\ (incoming_slot[n] = sender[n][r] \/ sender[n][r] \in stomped[n])

QuietInv == Typed /\ MutexHeld /\ NoRequests /\ Slots

LEMMA QuietFacts ==
  ASSUME Quiet
  PROVE  /\ Ctx = Writers \cup Peers /\ Writers \subseteq Ctx /\ Peers \subseteq Ctx
         /\ Clients \subseteq Peers /\ Peers \subseteq Ids /\ server_id \in Peers
         /\ server_id \notin Clients /\ NULL \notin Ids
         /\ \A w \in Writers : w \notin Peers /\ w # NULL
BY IdFacts, MailboxAssumption DEF Quiet, Ctx, Clients, MailboxAssumption

\* The steps of quiet traffic.
Enter(n, w) == \E req \in Traffic[n] : Write(n, w, req) \/ WriteError(n, w, req)

LEMMA QuietCases ==
  ASSUME Quiet, NoRequests, Next
  PROVE  \/ \E n \in Clients, w \in Writers : Enter(n, w) \/ FEE_create_outgoing(n, w)
         \/ \E n \in Clients, v \in Peers : all_msix(n, v) \/ Deliver(n, v)
         \/ \E n \in Clients, r \in Readers : gf_bridge_read(n, r)
         \/ Server
<1>1. ASSUME NEW n \in Clients, NEW v \in Peers, Interrupt(n, v)
      PROVE  all_msix(n, v) \/ Deliver(n, v)
  <2>1. ~IsLinkRequest(v)
    BY DEF NoRequests, LinkKinds, IsLinkRequest, IsPing, IsPeerAttr, IsCtlWrite
  <2>2. pc[n][v] \in {"idle", "locked"}
    BY DEF NoRequests
  <2>3. ~FEE_link_request(n, v)
    BY <2>1, <2>2 DEF FEE_link_request, LinkPing, LinkPeerAttribute, LinkAck, LinkCtlWrite,
       LinkSetCID0, LinkSetSID0, IsLinkRequest
  <2> QED BY <1>1, <2>3 DEF Interrupt
<1>2. ASSUME NEW n \in Clients, NEW v \in Peers PROVE ~FEE_create_outgoing(n, v)
  <2>1. pc[n][v] \in {"idle", "locked"}
    BY DEF NoRequests
  <2> QED BY <2>1 DEF FEE_create_outgoing, HwReady, WouldStomp, Fill, Memcpy, Doorbell
<1>3. ASSUME NEW n \in Clients, Client(n)
      PROVE  \/ \E w \in Writers : Enter(n, w) \/ FEE_create_outgoing(n, w)
             \/ \E v \in Peers : all_msix(n, v) \/ Deliver(n, v)
             \/ \E r \in Readers : gf_bridge_read(n, r)
  BY <1>1, <1>2, <1>3, QuietFacts DEF Client, Enter, Quiet
<1> QED BY <1>3 DEF Next

\* What a writer's step leaves alone: every other writer and all handlers.
LEMMA WriterFrame ==
  ASSUME Quiet, Typed, NEW n \in Clients, NEW w \in Writers,
         Enter(n, w) \/ FEE_create_outgoing(n, w)
  PROVE  /\ \A m \in Clients, c \in Ctx : m # n \/ c # w =>
              pc'[m][c] = pc[m][c] /\ job'[m][c] = job[m][c]
         /\ \A m \in Clients, v \in Peers : pc'[m][v] = pc[m][v]
         /\ \A m \in Clients : m # n => wbuf'[m] = wbuf[m]
         /\ UNCHANGED <<incoming_slot, rpc, sender>>
<1>1. OnlyCtx(n, w) /\ UNCHANGED inVars
  BY EnterFrame, OutgoingFrame, QuietFacts DEF Enter
<1>2. \A m \in Clients : m # n => wbuf'[m] = wbuf[m]
  BY DEF Enter, Write, WriteError, FEE_create_outgoing, HwReady, WouldStomp, Fill, Memcpy,
         Doorbell, Typed, TypeOK
<1> QED BY <1>1, <1>2, QuietFacts DEF OnlyCtx, inVars

LEMMA NoRequestsStep ==
  ASSUME Quiet, QuietInv, [Next]_vars
  PROVE  NoRequests'
<1> USE DEF QuietInv, Typed
<1>1. ASSUME NEW n \in Clients, NEW w \in Writers, Enter(n, w) PROVE NoRequests'
  <2> PICK req \in Traffic[n] : Write(n, w, req) \/ WriteError(n, w, req)
    BY <1>1 DEF Enter
  <2>1. buf' = buf /\ wbuf' = [wbuf EXCEPT ![n] = req.body]
    BY DEF Write, WriteError, slotVars
  <2>2. \A m \in Clients : wbuf'[m].kind \notin LinkKinds
    BY <2>1 DEF NoRequests, Quiet, TypeOK
  <2> QED BY <1>1, <2>1, <2>2, WriterFrame DEF NoRequests
<1>2. ASSUME NEW n \in Clients, NEW w \in Writers, FEE_create_outgoing(n, w) PROVE NoRequests'
  <2>1. wbuf' = wbuf
    BY <1>2 DEF FEE_create_outgoing, HwReady, WouldStomp, Fill, Memcpy, Doorbell
  <2>2. \A p \in Peers : buf'[p].body.kind \notin LinkKinds
    <3>1. CASE HwReady(n, w) \/ WouldStomp(n, w) \/ Doorbell(n, w)
      BY <3>1 DEF HwReady, WouldStomp, Doorbell, slotVars, NoRequests
    <3>2. CASE Fill(n, w)
      <4> PICK len : buf' = [buf EXCEPT ![n] = [body |-> Cut(@.body, len), to |-> @.to]]
        BY <3>2 DEF Fill
      <4>1. Cut(buf[n].body, len).kind \in {"cut", buf[n].body.kind}
        BY QuietFacts DEF Cut, TypeOK, Body
      <4> QED BY <4>1, QuietFacts DEF NoRequests, TypeOK, LinkKinds
    <3>3. CASE Memcpy(n, w)
      BY <3>3, QuietFacts DEF Memcpy, Outbody, NoRequests, TypeOK
    <3> QED BY <1>2, <3>1, <3>2, <3>3 DEF FEE_create_outgoing
  <2> QED BY <1>2, <2>1, <2>2, WriterFrame DEF NoRequests
<1>3. ASSUME NEW n \in Clients, NEW v \in Peers, all_msix(n, v) \/ Deliver(n, v) PROVE NoRequests'
  <2>1. buf' = buf /\ wbuf' = wbuf
    BY <1>3 DEF all_msix, Deliver, slotVars
  <2>2. PICK to \in {"idle", "locked"} : pc' = [pc EXCEPT ![n][v] = to]
    BY <1>3 DEF all_msix, Deliver, Goto
  <2>3. \A m \in Clients, u \in Peers : pc'[m][u] \in {"idle", "locked"}
    BY <2>2, QuietFacts DEF NoRequests, TypeOK
  <2> QED BY <2>1, <2>3 DEF NoRequests
<1>4. ASSUME NEW n \in Clients, NEW r \in Readers, gf_bridge_read(n, r) PROVE NoRequests'
  <2>1. UNCHANGED <<buf, wbuf, pc>>
    BY <1>4 DEF gf_bridge_read, FEE_release_incoming, Await, AwaitWoken, AwaitSignal, AwaitFetch,
       ReleaseLock, ReleaseClear, ReleaseOops, NotReading, slotVars, outVars
  <2> QED BY <2>1 DEF NoRequests
<1>5. ASSUME Server PROVE NoRequests'
  <2>1. UNCHANGED <<wbuf, pc>>
    BY <1>5 DEF Server, ServerSend, ServerReceive, outVars
  <2>2. \A p \in Peers : buf'[p].body.kind \notin LinkKinds
    <3>1. CASE \E m \in ServerTraffic : ServerSend(m)
      <4> PICK m \in ServerTraffic : ServerSend(m)
        BY <3>1
      <4>1. buf' = [buf EXCEPT ![server_id] = [body |-> m.body, to |-> m.to]]
        BY DEF ServerSend
      <4>2. m.body.kind \notin LinkKinds
        BY DEF Quiet
      <4> QED BY <4>1, <4>2, QuietFacts DEF NoRequests, TypeOK
    <3>2. CASE \E v \in Peers : ServerReceive(v)
      BY <3>2 DEF ServerReceive, NoRequests
    <3> QED BY <1>5, <3>1, <3>2 DEF Server
  <2> QED BY <2>1, <2>2 DEF NoRequests
<1>6. CASE UNCHANGED vars
  BY <1>6 DEF vars, slotVars, outVars, NoRequests
<1> QED BY <1>1, <1>2, <1>3, <1>4, <1>5, <1>6, QuietCases

-----------------------------------------------------------------------------
(***************************************************************************)
(* The slots, step by step.                                                *)
(***************************************************************************)
\* A writer that is inside FEE_create_outgoing() is alone there.
LEMMA WriterAlone ==
  ASSUME Quiet, QuietInv, NEW n \in Clients, NEW w \in Writers,
         Enter(n, w) \/ FEE_create_outgoing(n, w)
  PROVE  /\ \A x \in Writers \ {w} : pc[n][x] = "idle" /\ pc'[n][x] = "idle"
         /\ \A m \in Clients \ {n}, x \in Writers :
              /\ pc'[m][x] = pc[m][x] /\ job'[m][x] = job[m][x] /\ wbuf'[m] = wbuf[m]
<1>1. mutex[n] \in {w, NULL} \/ pc[n][w] # "idle"
  BY DEF Enter, Write, WriteError, FEE_create_outgoing, HwReady, WouldStomp, Fill, Memcpy, Doorbell
<1>2. \A x \in Writers \ {w} : pc[n][x] = "idle"
  BY <1>1, QuietFacts DEF QuietInv, MutexHeld
<1>3. /\ \A m \in Clients, c \in Ctx : m # n \/ c # w =>
           pc'[m][c] = pc[m][c] /\ job'[m][c] = job[m][c]
      /\ \A m \in Clients : m # n => wbuf'[m] = wbuf[m]
  BY WriterFrame DEF QuietInv
<1> QED BY <1>2, <1>3, QuietFacts

\* A writer changes no slot but its client's, so that the messages in the
\* other slots stay.
LEMMA OtherSlots ==
  ASSUME Quiet, QuietInv, NEW n \in Clients, NEW w \in Writers,
         Enter(n, w) \/ FEE_create_outgoing(n, w)
  PROVE  \A s \in Peers \ {n} :
           /\ s \in Clients => FillTable(s)'
           /\ \A d \in Ids : Posted(s, d) => Posted(s, d)'
<1> SUFFICES ASSUME NEW s \in Peers \ {n}
             PROVE  /\ s \in Clients => FillTable(s)'
                    /\ \A d \in Ids : Posted(s, d) => Posted(s, d)'
  OBVIOUS
<1>1. buflen'[s] = buflen[s] /\ buf'[s] = buf[s]
  BY DEF Enter, Write, WriteError, FEE_create_outgoing, HwReady, WouldStomp, Fill, Memcpy,
         Doorbell, slotVars, QuietInv, Typed, TypeOK
<1>2. s \in Clients => \A x \in Writers :
        pc'[s][x] = pc[s][x] /\ job'[s][x] = job[s][x] /\ wbuf'[s] = wbuf[s]
  BY WriterAlone
<1>3. s \in Clients => FillTable(s)'
  BY <1>1, <1>2 DEF QuietInv, Slots, FillTable
<1>4. \A d \in Ids : Posted(s, d) => Posted(s, d)'
  BY <1>1, <1>2 DEF Posted
<1> QED BY <1>3, <1>4

\* A step that only forgets messages, and keeps the text of the others.
Forgets ==
  \A s \in Peers : /\ \A d \in Ids : s \in irq'[d] => s \in irq[d]
                   /\ \A d \in Clients : /\ pc'[d][s] = "locked" => pc[d][s] = "locked"
                                         /\ incoming_slot'[d] = s => incoming_slot[d] = s
                                         /\ s \in stomped'[d] => s \in stomped[d]

LEMMA ForgetStep ==
  ASSUME Addressed, OnceEach, Forgets,
         \A s \in Peers, d \in Ids : Has(s, d) /\ Has(s, d)' /\ Posted(s, d) => Posted(s, d)'
  PROVE  Addressed' /\ OnceEach'
<1>0. Clients \subseteq Ids
  BY IdFacts
<1>1. \A s \in Peers, d \in Ids : Has(s, d)' => Has(s, d)
  BY DEF Forgets, Has
<1>2. Addressed'
  BY <1>1 DEF Addressed
<1>3. ASSUME NEW s \in Peers, NEW d \in Clients PROVE Once(s, d)'
  <2>1. Once(s, d)
    BY DEF OnceEach
  <2> QED BY <2>1, <1>0 DEF Once, Forgets
<1> QED BY <1>2, <1>3 DEF OnceEach

LEMMA EnterSlots ==
  ASSUME Quiet, QuietInv, NEW n \in Clients, NEW w \in Writers, Enter(n, w)
  PROVE  Slots'
<1> PICK req \in Traffic[n] : Write(n, w, req) \/ WriteError(n, w, req)
  BY DEF Enter
<1>0. UNCHANGED <<buflen, buf, irq, incoming_slot, stomped>>
  BY DEF Write, WriteError, slotVars, inVars
<1>1. \A x \in Writers \ {w} : pc'[n][x] = "idle"
  BY WriterAlone
<1>2. \/ pc'[n][w] = "idle"
      \/ pc'[n][w] = "wait" /\ wbuf'[n] = req.body /\ MsgLen(req.body.kind) # 0
  BY QuietFacts DEF Write, WriteError, OutgoingErrno, Goto, QuietInv, Typed, TypeOK
<1>3. FillTable(n)'
  BY <1>1, <1>2 DEF FillTable
<1>4. \A d \in Ids : Posted(n, d) => Posted(n, d)'
  BY <1>0, <1>1, <1>2 DEF Posted, Sends
<1>5. \A s \in Peers, d \in Ids : Posted(s, d) => Posted(s, d)'
  BY <1>4, OtherSlots
<1>6. \A s \in Clients : FillTable(s)'
  BY <1>3, OtherSlots, QuietFacts
<1>7. Forgets
  BY <1>0, WriterFrame DEF Forgets, QuietInv
<1> QED BY <1>5, <1>6, <1>7, ForgetStep DEF QuietInv, Slots

LEMMA OutgoingSlots ==
  ASSUME Quiet, QuietInv, NEW n \in Clients, NEW w \in Writers, FEE_create_outgoing(n, w)
  PROVE  Slots'
<1> USE DEF QuietInv, Typed, Slots
<1>0. n \in Peers /\ w \in Ctx
  BY QuietFacts
<1>1. \A x \in Writers \ {w} : pc'[n][x] = "idle"
  BY WriterAlone
<1>2. \A s \in Peers, d \in Ids : Has(s, d) => Posted(s, d)
  BY DEF Addressed
<1>3. FillTable(n)
  OBVIOUS
<1>4. \A m \in Clients, v \in Peers : pc'[m][v] = pc[m][v]
  BY WriterFrame
<1>5. UNCHANGED incoming_slot
  BY WriterFrame
\* Every step but the doorbell.
<1>6. ASSUME FillTable(n)', irq' = irq, \A m \in Clients : stomped'[m] \subseteq stomped[m],
             \A d \in Ids : Has(n, d) => Posted(n, d)'
      PROVE  Slots'
  <2>1. Forgets
    BY <1>4, <1>5, <1>6 DEF Forgets
  <2>2. \A s \in Clients : FillTable(s)'
    BY <1>6, OtherSlots, QuietFacts
  <2>3. \A s \in Peers, d \in Ids : Has(s, d) /\ Posted(s, d) => Posted(s, d)'
    BY <1>6, OtherSlots
  <2> QED BY <2>1, <2>2, <2>3, ForgetStep
<1>7. CASE HwReady(n, w)
  <2>1. buflen[n] = 0 /\ UNCHANGED <<buflen, buf, wbuf, irq, stomped>> /\ pc'[n][w] = "fill" /\ pc[n][w] = "wait"
    BY <1>7, <1>0 DEF HwReady, slotVars, Goto, TypeOK
  <2>2. FillTable(n)'
    BY <2>1, <1>1, <1>3 DEF FillTable
  <2>3. \A d \in Ids : ~Has(n, d)
    BY <2>1, <1>2, <1>0 DEF Posted
  <2> QED BY <2>1, <2>2, <2>3, <1>6
<1>8. CASE WouldStomp(n, w)
  <2>1. UNCHANGED <<buflen, buf, wbuf, irq, stomped>> /\ pc[n][w] = "wait" /\ pc'[n][w] \in {"idle", "wait"}
    BY <1>8, <1>0 DEF WouldStomp, slotVars, Return, Goto, TypeOK
  <2>2. FillTable(n)'
    BY <2>1, <1>1, <1>3 DEF FillTable
  <2>3. \A d \in Ids : Posted(n, d) => Posted(n, d)'
    BY <2>1, <1>1 DEF Posted, Sends
  <2> QED BY <2>1, <2>2, <2>3, <1>0, <1>2, <1>6
<1>9. ASSUME pc[n][w] \in Sends PROVE \A d \in Ids : ~Has(n, d)
  BY <1>9, <1>2, <1>0 DEF Posted
<1>10. CASE Fill(n, w)
  <2>1. /\ pc[n][w] = "fill" /\ pc'[n][w] = "copy" /\ UNCHANGED <<irq, wbuf>>
        /\ buflen'[n] = MsgLen(wbuf[n].kind)
        /\ \A m \in Clients : stomped'[m] \subseteq stomped[m]
    BY <1>10, <1>0 DEF Fill, Goto, Outbody, TypeOK
  <2>2. FillTable(n)'
    BY <2>1, <1>1, <1>3 DEF FillTable
  <2> QED BY <2>1, <2>2, <1>6, <1>9 DEF Sends
<1>11. CASE Memcpy(n, w)
  <2>1. /\ pc[n][w] = "copy" /\ pc'[n][w] = "ring" /\ UNCHANGED <<irq, wbuf, buflen, stomped, job>>
        /\ buf'[n].to = job[n][w].peer
    BY <1>11, <1>0 DEF Memcpy, Goto, TypeOK
  <2>2. FillTable(n)'
    BY <2>1, <1>1, <1>3 DEF FillTable
  <2> QED BY <2>1, <2>2, <1>6, <1>9 DEF Sends
<1>12. CASE Doorbell(n, w)
  <2>1. /\ pc[n][w] = "ring" /\ pc'[n][w] = "idle" /\ UNCHANGED <<wbuf, buflen, buf, stomped>>
        /\ irq' = [irq EXCEPT ![job[n][w].peer] = @ \cup {n}]
    BY <1>12, <1>0 DEF Doorbell, Return, Goto, TypeOK, slotVars
  <2> PICK p \in Ids : p = job[n][w].peer
    BY <2>1, <1>0 DEF JobOK
  <2>2. /\ irq'[p] = irq[p] \cup {n}
        /\ \A d \in Ids \ {p} : irq'[d] = irq[d]
    BY <2>1 DEF TypeOK
  <2>3. FillTable(n)'
    BY <2>1, <1>1 DEF FillTable
  <2>4. Posted(n, p)'
    BY <2>1, <1>1, <1>3 DEF Posted, FillTable, Sends
  <2>5. \A d \in Ids : ~Has(n, d)
    BY <2>1, <1>9 DEF Sends
  <2>6. \A s \in Clients : FillTable(s)'
    BY <2>3, OtherSlots, QuietFacts
  <2>7. \A s \in Peers, d \in Ids : Has(s, d)' => Has(s, d) \/ (s = n /\ d = p)
    BY <2>1, <2>2, <1>4, <1>5 DEF Has
  <2>8. Addressed'
    BY <2>4, <2>5, <2>7, <1>2, OtherSlots DEF Addressed
  <2>9. ASSUME NEW s \in Peers, NEW d \in Clients PROVE Once(s, d)'
    <3>0. d \in Ids
      BY QuietFacts
    <3>1. CASE s = n
      BY <3>0, <3>1, <2>1, <2>5, <1>4, <1>5 DEF Has, Once
    <3>2. CASE s # n
      <4>1. s \in irq'[d] <=> s \in irq[d]
        BY <3>0, <3>2, <2>2
      <4> QED BY <4>1, <2>1, <1>4, <1>5 DEF OnceEach, Once
    <3> QED BY <3>1, <3>2
  <2> QED BY <2>6, <2>8, <2>9 DEF OnceEach
<1> QED BY <1>7, <1>8, <1>10, <1>11, <1>12 DEF FEE_create_outgoing

LEMMA HandlerSlots ==
  ASSUME Quiet, QuietInv, NEW n \in Clients, NEW v \in Peers, all_msix(n, v) \/ Deliver(n, v)
  PROVE  Slots'
<1> USE DEF QuietInv, Typed, Slots
<1>0. n \in Ids /\ v \in Ctx
  BY QuietFacts
<1>1. UNCHANGED <<buflen, buf, wbuf, job>>
  BY DEF all_msix, Deliver, slotVars
<1>2. /\ \A m \in Clients, w \in Writers : pc'[m][w] = pc[m][w]
      /\ \A m \in Clients, u \in Peers : m # n \/ u # v => pc'[m][u] = pc[m][u]
  BY QuietFacts DEF all_msix, Deliver, Goto, TypeOK
<1>3. \A s \in Clients : FillTable(s)'
  BY <1>1, <1>2 DEF FillTable
<1>4. \A s \in Peers, d \in Ids : Posted(s, d) => Posted(s, d)'
  BY <1>1, <1>2 DEF Posted
<1>5. CASE all_msix(n, v)
  <2>1. /\ v \in irq[n] /\ pc'[n][v] = "locked" /\ UNCHANGED <<incoming_slot, stomped>>
        /\ irq'[n] = irq[n] \ {v}
        /\ \A d \in Ids : d # n => irq'[d] = irq[d]
    BY <1>5, <1>0 DEF all_msix, Goto, TypeOK
  <2>2. \A s \in Peers, d \in Ids : Has(s, d)' => Has(s, d)
    BY <2>1, <1>2, QuietFacts DEF Has
  <2>3. Addressed'
    BY <2>2, <1>4 DEF Addressed
  <2>4. OnceEach'
    BY <2>1, <1>2, QuietFacts DEF OnceEach, Once
  <2> QED BY <2>3, <2>4, <1>3
<1>6. CASE Deliver(n, v)
  <2>1. /\ pc[n][v] = "locked" /\ pc'[n][v] = "idle" /\ irq' = irq
        /\ incoming_slot'[n] = v
        /\ \A d \in Clients : d # n => incoming_slot'[d] = incoming_slot[d] /\ stomped'[d] = stomped[d]
    BY <1>6, <1>0 DEF Deliver, Goto, TypeOK
  <2>2. stomped'[n] = (stomped[n] \cup ({incoming_slot[n]} \ {NULL})) \ {v}
    BY <1>6 DEF Deliver, TypeOK
  <2>3. \A s \in Peers : s \in stomped'[n] <=> s # v /\ (s \in stomped[n] \/ s = incoming_slot[n])
    BY <2>2, QuietFacts
  <2>4. \A s \in Peers, d \in Ids : Has(s, d)' => Has(s, d)
    BY <2>1, <2>3, <1>2 DEF Has
  <2>5. Addressed'
    BY <2>4, <1>4 DEF Addressed
  <2>6. ASSUME NEW s \in Peers, NEW d \in Clients PROVE Once(s, d)'
    <3>1. Once(s, d)
      BY DEF OnceEach
    <3>2. CASE d # n
      BY <3>1, <3>2, <2>1, <1>2 DEF Once
    <3>3. CASE d = n /\ s = v
      BY <3>1, <3>3, <2>1, <2>3 DEF Once
    <3>4. CASE d = n /\ s # v
      BY <3>1, <3>4, <2>1, <2>3, <1>2 DEF Once
    <3> QED BY <3>2, <3>3, <3>4
  <2> QED BY <2>5, <2>6, <1>3 DEF OnceEach
<1> QED BY <1>5, <1>6

\* A receiver empties the slot u that its client d had: u is then nowhere.
LEMMA EmptySlots ==
  ASSUME Quiet, QuietInv, NEW u \in Peers, NEW d \in Ids, Has(u, d), Forgets, ~Has(u, d)',
         buflen' = [buflen EXCEPT ![u] = 0], UNCHANGED <<buf, wbuf, pc, job>>
  PROVE  Slots'
<1> USE DEF QuietInv, Typed, Slots
<1>1. Posted(u, d)
  BY DEF Addressed
<1>2. \A s \in Peers : s # u => buflen'[s] = buflen[s]
  BY DEF TypeOK
<1>3. \A e \in Ids : ~Has(u, e)'
  <2>1. \A e \in Ids : Has(u, e)' => Has(u, e)
    BY DEF Forgets, Has
  <2>2. \A e \in Ids : Has(u, e) => e = d
    BY <1>1 DEF Addressed, Posted
  <2> QED BY <2>1, <2>2
<1>4. ASSUME NEW s \in Clients PROVE FillTable(s)'
  <2>1. CASE s # u
    BY <2>1, <1>2, QuietFacts DEF FillTable
  <2>2. CASE s = u
    <3>1. \A w \in Writers : pc[s][w] \notin Sends
      BY <2>2, <1>1 DEF Posted
    <3> QED BY <3>1 DEF FillTable, Sends
  <2> QED BY <2>1, <2>2
<1>5. \A s \in Peers, e \in Ids : s # u /\ Posted(s, e) => Posted(s, e)'
  BY <1>2 DEF Posted
<1> QED BY <1>3, <1>4, <1>5, ForgetStep

LEMMA ReadSlots ==
  ASSUME Quiet, QuietInv, NEW n \in Clients, NEW r \in Readers, gf_bridge_read(n, r)
  PROVE  Slots'
<1> USE DEF QuietInv, Typed, Slots
<1>1. CASE ReleaseClear(n, r)
  <2>1. /\ incoming_slot[n] # NULL /\ incoming_slot' = [incoming_slot EXCEPT ![n] = NULL]
        /\ buflen' = [buflen EXCEPT ![incoming_slot[n]] = 0]
        /\ UNCHANGED <<buf, wbuf, pc, job, irq, stomped>>
    BY <1>1 DEF ReleaseClear, outVars
  <2> PICK u \in Peers : u = incoming_slot[n]
    BY <2>1 DEF TypeOK
  <2>2. n \in Ids /\ Has(u, n) /\ Once(u, n)
    BY QuietFacts DEF Has, OnceEach
  <2>3. Forgets
    BY <2>1, QuietFacts DEF Forgets, TypeOK
  <2>4. ~Has(u, n)'
    BY <2>1, <2>2, QuietFacts DEF Has, Once, TypeOK
  <2> QED BY <2>1, <2>2, <2>3, <2>4, EmptySlots
<1>2. CASE ~ReleaseClear(n, r)
  <2>1. UNCHANGED <<slotVars, irq, incoming_slot, stomped, wbuf, pc, job>>
    BY <1>2 DEF gf_bridge_read, FEE_release_incoming, Await, AwaitWoken, AwaitSignal, AwaitFetch,
       ReleaseLock, ReleaseOops, NotReading, outVars
  <2> QED BY <2>1 DEF slotVars, FillTable, Addressed, Has, Posted, OnceEach, Once
<1> QED BY <1>1, <1>2

LEMMA ServerSlots ==
  ASSUME Quiet, QuietInv, Server
  PROVE  Slots'
<1> USE DEF QuietInv, Typed, Slots
<1>1. ASSUME NEW v \in Peers, ServerReceive(v) PROVE Slots'
  <2>1. /\ v \in irq[server_id] /\ irq' = [irq EXCEPT ![server_id] = @ \ {v}]
        /\ buflen' = [buflen EXCEPT ![v] = 0]
        /\ UNCHANGED <<buf, wbuf, pc, job, incoming_slot, stomped>>
    BY <1>1 DEF ServerReceive, outVars, inVars
  <2>2. server_id \in Ids /\ server_id \notin Clients
    BY QuietFacts
  <2>3. Forgets /\ Has(v, server_id) /\ ~Has(v, server_id)'
    BY <2>1, <2>2 DEF Forgets, Has, TypeOK
  <2> QED BY <2>1, <2>2, <2>3, EmptySlots
<1>2. ASSUME NEW m \in ServerTraffic, ServerSend(m) PROVE Slots'
  <2> DEFINE s0 == server_id
  <2>0. m.to \in Clients /\ m.to \in Ids /\ s0 \in Peers /\ s0 \notin Clients
    BY QuietFacts, MailboxAssumption DEF MailboxAssumption
  <2>1. /\ buflen[s0] = 0 /\ buflen'[s0] # 0 /\ buf'[s0].to = m.to
        /\ \A s \in Peers : s # s0 => buflen'[s] = buflen[s] /\ buf'[s] = buf[s]
    BY <1>2, <2>0 DEF ServerSend, Quiet, TypeOK
  <2>2. UNCHANGED <<wbuf, pc, job, incoming_slot>>
    BY <1>2 DEF ServerSend, outVars, inVars
  <2>3. /\ irq'[m.to] = irq[m.to] \cup {s0}
        /\ \A d \in Ids : d # m.to => irq'[d] = irq[d]
        /\ \A d \in Clients : stomped'[d] = stomped[d] \ {s0}
    BY <1>2, <2>0 DEF ServerSend, TypeOK
  <2> HIDE DEF s0
  <2>4. \A d \in Ids : ~Has(s0, d)
    BY <2>0, <2>1 DEF Addressed, Posted
  <2>5. \A s \in Clients : FillTable(s)'
    BY <2>0, <2>1, <2>2, QuietFacts DEF FillTable
  <2>6. Posted(s0, m.to)'
    BY <2>0, <2>1 DEF Posted
  <2>7. \A s \in Peers, d \in Ids : s # s0 /\ Posted(s, d) => Posted(s, d)'
    BY <2>1, <2>2 DEF Posted
  <2>8. \A s \in Peers, d \in Ids : Has(s, d)' => Has(s, d) \/ (s = s0 /\ d = m.to)
    BY <2>2, <2>3 DEF Has
  <2>9. Addressed'
    BY <2>4, <2>6, <2>7, <2>8 DEF Addressed
  <2>10. ASSUME NEW s \in Peers, NEW d \in Clients PROVE Once(s, d)'
    <3>0. d \in Ids
      BY QuietFacts
    <3>1. CASE s = s0
      BY <3>0, <3>1, <2>2, <2>3, <2>4 DEF Has, Once
    <3>2. CASE s # s0
      <4>1. (s \in irq'[d] <=> s \in irq[d]) /\ (s \in stomped'[d] => s \in stomped[d])
        BY <3>0, <3>2, <2>3
      <4> QED BY <4>1, <2>2 DEF OnceEach, Once
    <3> QED BY <3>1, <3>2
  <2> QED BY <2>5, <2>9, <2>10 DEF OnceEach
<1> QED BY <1>1, <1>2 DEF Server

-----------------------------------------------------------------------------
LEMMA QuietInit == Quiet /\ Init => QuietInv
<1> SUFFICES ASSUME Quiet, Init PROVE QuietInv
  OBVIOUS
<1>1. Typed
  BY TypedInit
<1>2. MutexHeld
  BY QuietFacts DEF Init, MutexHeld
<1>3. NoRequests
  BY QuietFacts DEF Init, NoRequests, LinkKinds, Text
<1>4. \A s \in Clients : FillTable(s)
  BY QuietFacts DEF Init, FillTable
<1>5. \A s \in Peers, d \in Ids : ~Has(s, d)
  BY QuietFacts DEF Init, Has
<1>6. Addressed
  BY <1>5 DEF Addressed
<1>7. OnceEach
  BY QuietFacts DEF Init, OnceEach, Once
<1> QED BY <1>1, <1>2, <1>3, <1>4, <1>6, <1>7 DEF QuietInv, Slots


LEMMA SlotsStep ==
  ASSUME Quiet, QuietInv, [Next]_vars
  PROVE  Slots'
<1>1. CASE UNCHANGED vars
  BY <1>1 DEF vars, slotVars, outVars, inVars, QuietInv, Slots, FillTable, Addressed, Has,
              Posted, OnceEach, Once
<1>2. CASE Next
  BY <1>2, QuietCases, EnterSlots, OutgoingSlots, HandlerSlots, ReadSlots, ServerSlots
     DEF QuietInv
<1> QED BY <1>1, <1>2

LEMMA QuietInvariance ==
  ASSUME Quiet
  PROVE  Spec => [](QuietInv /\ WriteIntact)
<1>1. Init => QuietInv /\ WriteIntact
  <2>1. Init => WriteIntact
    BY QuietFacts DEF Init, WriteIntact
  <2> QED BY <2>1, QuietInit
<1>2. QuietInv /\ WriteIntact /\ [Next]_vars => QuietInv' /\ WriteIntact'
  <2> SUFFICES ASSUME QuietInv, WriteIntact, [Next]_vars PROVE QuietInv' /\ WriteIntact'
    OBVIOUS
  <2>1. Typed'
    BY TypedStep DEF QuietInv
  <2>2. MutexHeld' /\ WriteIntact'
    BY WriteStep DEF QuietInv
  <2>3. NoRequests' /\ Slots'
    BY NoRequestsStep, SlotsStep
  <2> QED BY <2>1, <2>2, <2>3 DEF QuietInv
<1> QED BY <1>1, <1>2, PTL DEF Spec

(***************************************************************************)
(* buflen is enough of a lock for FEE_create_outgoing() as long as write() *)
(* is the only caller: no two contexts of a client are ever between the    *)
(* test of buflen and the doorbell.                                        *)
(***************************************************************************)
THEOREM HandshakeCorrect ==
  ASSUME Quiet
  PROVE  Spec => []HandshakeExclusive
<1>1. QuietInv => HandshakeExclusive
  BY QuietFacts DEF QuietInv, MutexHeld, NoRequests, HandshakeExclusive
<1> QED BY <1>1, QuietInvariance, PTL

-----------------------------------------------------------------------------
\* What a reader holds is posted, so that no sender drops its stomp.
LEMMA ReadTableStep ==
  ASSUME Quiet, SoleReader, QuietInv, ReadTable, [Next]_vars
  PROVE  ReadTable'
<1> USE DEF QuietInv, Typed, Slots
\* No reader moves, and nobody takes away what one holds.
<1>a. ASSUME UNCHANGED <<rpc, sender>>,
             \A n \in Clients, s \in Peers : incoming_slot[n] = s \/ s \in stomped[n] =>
               incoming_slot'[n] = s \/ s \in stomped'[n]
      PROVE  ReadTable'
  BY <1>a DEF ReadTable
<1>b. \A n \in Clients, s \in Peers : s \in stomped[n] => Posted(s, n)
  BY QuietFacts DEF Addressed, Has
<1>1. ASSUME NEW n \in Clients, NEW w \in Writers, Enter(n, w) \/ FEE_create_outgoing(n, w)
      PROVE  ReadTable'
  <2>1. UNCHANGED <<rpc, sender, incoming_slot>>
    BY <1>1, WriterFrame
  <2>2. CASE Fill(n, w)
    <3>1. \A m \in Clients : stomped'[m] = stomped[m] \ {n}
      BY <2>2 DEF Fill
    <3>2. \A m \in Clients : n \notin stomped[m]
      BY <2>2, <1>b, QuietFacts DEF Fill, Posted, Sends
    <3> QED BY <2>1, <3>1, <3>2, <1>a
  <2>3. CASE ~Fill(n, w)
    <3>1. stomped' = stomped
      BY <1>1, <2>3 DEF Enter, Write, WriteError, FEE_create_outgoing, HwReady, WouldStomp,
         Memcpy, Doorbell
    <3> QED BY <2>1, <3>1, <1>a
  <2> QED BY <2>2, <2>3
<1>2. ASSUME NEW n \in Clients, NEW v \in Peers, all_msix(n, v) \/ Deliver(n, v)
      PROVE  ReadTable'
  <2>1. UNCHANGED <<rpc, sender>>
    BY <1>2 DEF all_msix, Deliver
  <2>2. CASE all_msix(n, v)
    BY <2>1, <2>2, <1>a DEF all_msix
  <2>3. CASE Deliver(n, v)
    <3>1. /\ incoming_slot'[n] = v
          /\ stomped'[n] = (stomped[n] \cup ({incoming_slot[n]} \ {NULL})) \ {v}
          /\ \A d \in Clients : d # n =>
               incoming_slot'[d] = incoming_slot[d] /\ stomped'[d] = stomped[d]
      BY <2>3 DEF Deliver, TypeOK
    <3>2. \A s \in Peers : incoming_slot[n] = s \/ s \in stomped[n] => s = v \/ s \in stomped'[n]
      BY <3>1, QuietFacts
    <3> QED BY <2>1, <3>1, <3>2, <1>a
  <2> QED BY <1>2, <2>2, <2>3
<1>3. ASSUME NEW n \in Clients, NEW r \in Readers, gf_bridge_read(n, r)
      PROVE  ReadTable'
  <2>0. \A q \in Readers : q = r
    BY DEF SoleReader
  <2>1. stomped' = stomped /\ \A m \in Clients : m # n =>
          incoming_slot'[m] = incoming_slot[m] /\ rpc'[m] = rpc[m] /\ sender'[m] = sender[m]
    BY <1>3 DEF gf_bridge_read, FEE_release_incoming, Await, AwaitWoken, AwaitSignal, AwaitFetch,
       ReleaseLock, ReleaseClear, ReleaseOops, NotReading, RGoto, TypeOK
  <2>2. rpc'[n][r] = "got" =>
          /\ incoming_slot'[n] = sender'[n][r] /\ sender'[n][r] \in Peers
    BY <1>3 DEF gf_bridge_read, FEE_release_incoming, Await, AwaitWoken, AwaitSignal, AwaitFetch,
       ReleaseLock, ReleaseClear, ReleaseOops, RGoto, TypeOK
  <2> QED BY <2>0, <2>1, <2>2 DEF ReadTable
<1>4. ASSUME Server PROVE ReadTable'
  <2>1. UNCHANGED <<rpc, sender, incoming_slot>>
    BY <1>4 DEF Server, ServerSend, ServerReceive, inVars
  <2>2. CASE \E m \in ServerTraffic : ServerSend(m)
    <3>1. buflen[server_id] = 0 /\ \A n \in Clients : stomped'[n] = stomped[n] \ {server_id}
      BY <2>2 DEF ServerSend
    <3>2. \A n \in Clients : server_id \notin stomped[n]
      BY <3>1, <1>b, QuietFacts DEF Posted
    <3> QED BY <2>1, <3>1, <3>2, <1>a
  <2>3. CASE \E v \in Peers : ServerReceive(v)
    BY <2>1, <2>3, <1>a DEF ServerReceive
  <2> QED BY <1>4, <2>2, <2>3 DEF Server
<1>5. CASE UNCHANGED vars
  BY <1>5, <1>a DEF vars, inVars
<1> QED BY <1>1, <1>2, <1>3, <1>4, <1>5, QuietCases

(***************************************************************************)
(* What gf_bridge_read() of a sole reader copies without a lock is a whole *)
(* message to its client and does not change under the copy, even when     *)
(* all_msix() points incoming_slot at another slot meanwhile.              *)
(***************************************************************************)
THEOREM ReadCorrect ==
  ASSUME Quiet, SoleReader
  PROVE  Spec => []ReadStable
<1>1. Init => ReadTable
  BY DEF Init, ReadTable
<1>2. QuietInv /\ ReadTable /\ [Next]_vars => ReadTable'
  BY ReadTableStep
<1>3. QuietInv /\ ReadTable => ReadStable
  <2> SUFFICES ASSUME QuietInv, ReadTable, NEW n \in Clients, NEW r \in Readers, rpc[n][r] = "got"
               PROVE  /\ buflen[sender[n][r]] # 0
                      /\ buf[sender[n][r]].to = n
                      /\ sender[n][r] \in Clients => \A c \in Ctx :
                           pc[sender[n][r]][c] \notin {"fill", "copy", "ring"}
    BY DEF ReadStable
  <2>1. PICK s \in Peers : s = sender[n][r] /\ (incoming_slot[n] = s \/ s \in stomped[n])
    BY DEF ReadTable
  <2>2. Posted(s, n)
    BY <2>1, QuietFacts DEF QuietInv, Slots, Addressed, Has
  <2>3. s \in Clients => \A v \in Peers : pc[s][v] \notin {"fill", "copy", "ring"}
    BY DEF QuietInv, NoRequests
  <2> QED BY <2>1, <2>2, <2>3, QuietFacts DEF Posted, Sends
<1> QED BY <1>1, <1>2, <1>3, QuietInvariance, PTL DEF Spec

-----------------------------------------------------------------------------
(***************************************************************************)
(* Mailbox implements Letterbox: every step is a step of one box or none.  *)
(***************************************************************************)
\* The holder of a slot, as the refinement maps it.
HolderOf(s) == IF Holders(s) = {} THEN NULL ELSE CHOOSE n \in Holders(s) : TRUE

\* A message has at most one holder, the peer it is for, and is then in its box.
LEMMA HolderFacts ==
  Quiet /\ QuietInv =>
    \A s \in Peers :
      /\ Holders(s) = {} => HolderOf(s) = NULL
      /\ \A n \in Holders(s) : /\ HolderOf(s) = n /\ n \in Ids /\ Has(s, n)
                               /\ Boxed(s) = buf[s] /\ buf[s].to = n
<1> SUFFICES ASSUME Quiet, QuietInv, NEW s \in Peers
             PROVE  /\ Holders(s) = {} => HolderOf(s) = NULL
                    /\ \A n \in Holders(s) : /\ HolderOf(s) = n /\ n \in Ids /\ Has(s, n)
                                             /\ Boxed(s) = buf[s] /\ buf[s].to = n
  OBVIOUS
<1>1. \A n \in Holders(s) : n \in Ids /\ Has(s, n)
  BY QuietFacts DEF Holders, HeldBy, Has
<1>2. \A n \in Holders(s) : Posted(s, n)
  BY <1>1 DEF QuietInv, Slots, Addressed
<1>3. \A n \in Holders(s) : n = buf[s].to
  BY <1>2 DEF Posted
<1>4. \A n \in Holders(s) : HolderOf(s) = n
  BY <1>3 DEF HolderOf
<1>5. \A n \in Holders(s) : ~Copying(s)
  BY <1>2, QuietFacts DEF Posted, Sends, Copying, QuietInv, NoRequests
<1>6. \A n \in Holders(s) : Boxed(s) = buf[s]
  BY <1>2, <1>5 DEF Boxed, Posted
<1> QED BY <1>1, <1>3, <1>4, <1>6 DEF HolderOf

HolderTable ==
  \A s \in Peers : /\ Holders(s) = {} => HolderOf(s) = NULL
                   /\ \A n \in Holders(s) : HolderOf(s) = n

LEMMA HolderNext ==
  ASSUME Quiet
  PROVE  QuietInv' => HolderTable'
<1>1. QuietInv => HolderTable
  BY HolderFacts DEF HolderTable
<1> QED BY <1>1, PTL

\* Neither the box of s nor its holder changes.
Same(s) == Boxed(s)' = Boxed(s) /\ HolderOf(s)' = HolderOf(s)

\* The four steps of a letterbox.
Steps(s) ==
  \/ /\ Boxed(s) = Blank /\ Boxed(s)' \in [body: Body, to: Ids]
     /\ HolderOf(s)' = HolderOf(s)
  \/ /\ Boxed(s) # Blank /\ HolderOf(s) = NULL /\ HolderOf(s)' = Boxed(s).to
     /\ Boxed(s)' = Boxed(s)
  \/ /\ HolderOf(s) # NULL /\ HolderOf(s)' = NULL
     /\ Boxed(s)' = Boxed(s)
  \/ /\ Boxed(s) # Blank /\ HolderOf(s) = Boxed(s).to
     /\ Boxed(s)' = Blank /\ HolderOf(s)' = NULL

BoxVars == <<[s \in Peers |-> Boxed(s)], [s \in Peers |-> HolderOf(s)]>>

LEMMA LetterStep ==
  ASSUME NEW s \in Peers, Steps(s), \A u \in Peers \ {s} : Same(u)
  PROVE  Letter!Next
<1> DEFINE box == [u \in Peers |-> Boxed(u)]
<1> DEFINE holder == [u \in Peers |-> HolderOf(u)]
<1>1. /\ \A u \in Peers : box[u] = Boxed(u) /\ box'[u] = Boxed(u)'
      /\ \A u \in Peers : holder[u] = HolderOf(u) /\ holder'[u] = HolderOf(u)'
  OBVIOUS
<1>2. /\ box' = [box EXCEPT ![s] = box'[s]]
      /\ holder' = [holder EXCEPT ![s] = holder'[s]]
  BY DEF Same
<1>3. box'[s] = box[s] => box' = box
  BY <1>1, <1>2
<1>4. holder'[s] = holder[s] => holder' = holder
  BY <1>1, <1>2
<1> HIDE DEF box, holder
<1>5. \/ /\ box[s] = Blank /\ box'[s] \in [body: Body, to: Ids]
         /\ box' = [box EXCEPT ![s] = box'[s]] /\ holder' = holder
      \/ /\ box[s] # Blank /\ holder[s] = NULL
         /\ holder' = [holder EXCEPT ![s] = box[s].to] /\ box' = box
      \/ /\ holder[s] # NULL
         /\ holder' = [holder EXCEPT ![s] = NULL] /\ box' = box
      \/ /\ box[s] # Blank /\ holder[s] = box[s].to
         /\ box' = [box EXCEPT ![s] = Blank] /\ holder' = [holder EXCEPT ![s] = NULL]
  BY <1>1, <1>2, <1>3, <1>4 DEF Steps
<1> QED BY <1>5 DEF box, holder, HolderOf, Letter!Next, Letter!Post, Letter!Take, Letter!Lose,
                    Letter!Empty

LEMMA SameAll ==
  ASSUME \A s \in Peers : Same(s)
  PROVE  UNCHANGED BoxVars
BY DEF Same, BoxVars

\* A slot whose receivers do not change keeps its holder.
LEMMA HolderKept ==
  ASSUME NEW s, \A n \in Clients : HeldBy(s, n)' <=> HeldBy(s, n),
         s \in irq'[server_id] <=> s \in irq[server_id]
  PROVE  HolderOf(s)' = HolderOf(s)
<1>1. Holders(s)' = Holders(s)
  BY DEF Holders
<1> QED BY <1>1 DEF HolderOf

\* A slot that is not written into keeps what is in its box.
LEMMA BoxKept ==
  ASSUME NEW s \in Peers, buflen'[s] = buflen[s], buf'[s] = buf[s],
         s \in Clients => \A c \in Ctx : pc'[s][c] = "copy" <=> pc[s][c] = "copy"
  PROVE  Boxed(s)' = Boxed(s)
<1>1. Copying(s)' <=> Copying(s)
  BY DEF Copying
<1> QED BY <1>1 DEF Boxed

\* A writer's step changes neither handlers nor incoming_slot, nor any slot
\* but its client's.
LEMMA WriterBoxes ==
  ASSUME Quiet, QuietInv, NEW n \in Clients, NEW w \in Writers,
         Enter(n, w) \/ FEE_create_outgoing(n, w)
  PROVE  /\ \A s \in Peers, d \in Clients : HeldBy(s, d)' <=> HeldBy(s, d)
         /\ \A s \in Peers : s # n => Boxed(s)' = Boxed(s)
         /\ \A c \in Ctx : c # w => pc[n][c] # "copy" /\ pc'[n][c] # "copy"
<1>1. /\ UNCHANGED incoming_slot
      /\ \A m \in Clients, v \in Peers : pc'[m][v] = pc[m][v]
      /\ \A m \in Clients, c \in Ctx : m # n \/ c # w => pc'[m][c] = pc[m][c]
  BY WriterFrame DEF QuietInv
<1>2. \A s \in Peers, d \in Clients : HeldBy(s, d)' <=> HeldBy(s, d)
  BY <1>1 DEF HeldBy
<1>3. \A s \in Peers : s # n => buflen'[s] = buflen[s] /\ buf'[s] = buf[s]
  BY DEF Enter, Write, WriteError, FEE_create_outgoing, HwReady, WouldStomp, Fill, Memcpy,
         Doorbell, slotVars, QuietInv, Typed, TypeOK
<1>4. \A s \in Peers : s # n => Boxed(s)' = Boxed(s)
  BY <1>1, <1>3, BoxKept
<1>5. \A v \in Peers : pc[n][v] # "copy"
  BY DEF QuietInv, NoRequests
<1>6. \A x \in Writers \ {w} : pc[n][x] = "idle"
  BY WriterAlone
<1> QED BY <1>1, <1>2, <1>4, <1>5, <1>6, QuietFacts

LEMMA WriterMaps ==
  ASSUME Quiet, QuietInv, QuietInv', NEW n \in Clients, NEW w \in Writers,
         Enter(n, w) \/ FEE_create_outgoing(n, w)
  PROVE  Letter!Next \/ UNCHANGED BoxVars
<1> USE DEF QuietInv, Typed, Slots
<1>0. n \in Peers /\ w \in Ctx
  BY QuietFacts
<1>1. /\ \A s \in Peers, d \in Clients : HeldBy(s, d)' <=> HeldBy(s, d)
      /\ \A s \in Peers : s # n => Boxed(s)' = Boxed(s)
      /\ \A c \in Ctx : c # w => pc[n][c] # "copy" /\ pc'[n][c] # "copy"
  BY WriterBoxes
<1>2. FillTable(n)
  OBVIOUS
<1>3. (Copying(n) <=> pc[n][w] = "copy") /\ (Copying(n)' <=> pc'[n][w] = "copy")
  BY <1>0, <1>1 DEF Copying
<1>4. ASSUME irq' = irq PROVE \A s \in Peers : HolderOf(s)' = HolderOf(s)
  BY <1>1, <1>4, HolderKept
<1>5. ASSUME irq' = irq, Boxed(n)' = Boxed(n) PROVE UNCHANGED BoxVars
  BY <1>1, <1>4, <1>5, SameAll DEF Same
<1>6. CASE Enter(n, w) \/ HwReady(n, w) \/ WouldStomp(n, w)
  <2>1. UNCHANGED <<buflen, buf, irq>>
    BY <1>6 DEF Enter, Write, WriteError, HwReady, WouldStomp, slotVars
  <2>2. pc[n][w] \in {"idle", "wait"} /\ pc'[n][w] \in {"idle", "wait", "fill"}
    BY <1>6, <1>0 DEF Enter, Write, WriteError, HwReady, WouldStomp, Return, Goto, TypeOK
  <2>3. Boxed(n)' = Boxed(n)
    BY <2>1, <2>2, <1>3 DEF Boxed
  <2> QED BY <2>1, <2>3, <1>5
<1>7. CASE Fill(n, w)
  <2>1. irq' = irq /\ pc[n][w] = "fill" /\ pc'[n][w] = "copy"
    BY <1>7, <1>0 DEF Fill, Goto, TypeOK
  <2>2. Boxed(n) = Blank /\ Boxed(n)' = Blank
    BY <2>1, <1>2, <1>3 DEF FillTable, Boxed, Blank
  <2> QED BY <2>1, <2>2, <1>5
<1>8. CASE Memcpy(n, w)
  <2>1. /\ irq' = irq /\ buflen' = buflen /\ pc[n][w] = "copy" /\ pc'[n][w] = "ring"
        /\ buf'[n] = [body |-> wbuf[n], to |-> job[n][w].peer]
    BY <1>8, <1>0 DEF Memcpy, Outbody, Goto, TypeOK
  <2>2. Boxed(n) = Blank
    BY <2>1, <1>3 DEF Boxed
  <2>3. Boxed(n)' = buf'[n]
    BY <2>1, <1>2, <1>3 DEF FillTable, Boxed
  <2>4. buf'[n] \in [body: Body, to: Ids]
    BY <2>1, <1>0 DEF JobOK, TypeOK
  <2>5. Steps(n)
    BY <2>1, <2>2, <2>3, <2>4, <1>0, <1>4 DEF Steps
  <2>6. \A s \in Peers \ {n} : Same(s)
    BY <2>1, <1>1, <1>4 DEF Same
  <2> QED BY <2>5, <2>6, <1>0, LetterStep
<1>9. CASE Doorbell(n, w)
  <2>1. /\ UNCHANGED <<buflen, buf>> /\ pc[n][w] = "ring" /\ pc'[n][w] = "idle"
        /\ irq' = [irq EXCEPT ![job[n][w].peer] = @ \cup {n}]
    BY <1>9, <1>0 DEF Doorbell, Return, Goto, slotVars, TypeOK
  <2> PICK p \in Ids : p = job[n][w].peer
    BY <2>1, <1>0 DEF JobOK
  <2>2. Boxed(n)' = Boxed(n) /\ Boxed(n) = buf[n] /\ buf[n].to = p
    BY <2>1, <1>2, <1>3 DEF FillTable, Boxed
  <2>3. \A s \in Peers \ {n} : Same(s)
    <3>1. \A s \in Peers \ {n} : s \in irq'[server_id] <=> s \in irq[server_id]
      BY <2>1, QuietFacts DEF TypeOK
    <3> QED BY <3>1, <1>1, HolderKept DEF Same
  <2>4. CASE p # server_id
    <3>1. n \in irq'[server_id] <=> n \in irq[server_id]
      BY <2>1, <2>4, QuietFacts DEF TypeOK
    <3>2. HolderOf(n)' = HolderOf(n)
      BY <3>1, <1>0, <1>1, HolderKept
    <3> QED BY <3>2, <2>2, <2>3, SameAll DEF Same
  <2>5. CASE p = server_id
    <3>1. server_id \in Holders(n)'
      BY <2>1, <2>5, QuietFacts DEF Holders, TypeOK
    <3>2. HolderOf(n)' = server_id
      BY <3>1, <1>0, HolderNext DEF HolderTable
    <3>3. \A d \in Ids : ~Has(n, d)
      BY <2>1, <1>0 DEF Addressed, Posted, Sends
    <3>4. Holders(n) = {}
      BY <3>3, <1>0, HolderFacts
    <3>5. HolderOf(n) = NULL
      BY <3>4 DEF HolderOf
    <3>6. Boxed(n) # Blank
      BY <2>2, QuietFacts DEF Blank
    <3>7. Steps(n)
      BY <3>2, <3>5, <3>6, <2>2, <2>5 DEF Steps
    <3> QED BY <3>7, <2>3, <1>0, LetterStep
  <2> QED BY <2>4, <2>5
<1> QED BY <1>6, <1>7, <1>8, <1>9 DEF FEE_create_outgoing

LEMMA HandlerMaps ==
  ASSUME Quiet, QuietInv, QuietInv', NEW n \in Clients, NEW v \in Peers,
         all_msix(n, v) \/ Deliver(n, v)
  PROVE  Letter!Next \/ UNCHANGED BoxVars
<1> USE DEF QuietInv, Typed, Slots
<1>0. n \in Ids /\ v \in Ctx /\ server_id \in Ids /\ server_id # n
  BY QuietFacts
<1>1. UNCHANGED <<buflen, buf>>
  BY DEF all_msix, Deliver, slotVars
<1>2. /\ \A m \in Clients, c \in Ctx : m # n \/ c # v => pc'[m][c] = pc[m][c]
      /\ pc[n][v] # "copy" /\ pc'[n][v] # "copy"
  BY <1>0 DEF all_msix, Deliver, Goto, TypeOK
<1>3. \A s \in Peers : Boxed(s)' = Boxed(s)
  BY <1>1, <1>2, BoxKept
<1>4. irq'[server_id] = irq[server_id]
  BY <1>0 DEF all_msix, Deliver, TypeOK
<1>5. CASE all_msix(n, v)
  <2>1. pc[n][v] = "idle" /\ v \in irq[n] /\ pc'[n][v] = "locked" /\ UNCHANGED incoming_slot
    BY <1>5, <1>0 DEF all_msix, Goto, TypeOK
  <2>2. \A s \in Peers \ {v}, d \in Clients : HeldBy(s, d)' <=> HeldBy(s, d)
    BY <2>1, <1>2, QuietFacts DEF HeldBy
  <2>3. \A s \in Peers \ {v} : Same(s)
    BY <2>2, <1>3, <1>4, HolderKept DEF Same
  <2>4. Posted(v, n) /\ \A d \in Ids : Has(v, d) => d = n
    BY <2>1, <1>0 DEF Addressed, Has, Posted
  <2>5. n \notin Holders(v)
    BY <2>1, <1>0 DEF Holders, HeldBy, OnceEach, Once
  <2>6. Holders(v) = {}
    BY <2>4, <2>5, HolderFacts
  <2>7. n \in Holders(v)'
    BY <2>1 DEF Holders, HeldBy
  <2>8. HolderOf(v) = NULL /\ HolderOf(v)' = n
    BY <2>6, <2>7, HolderNext DEF HolderOf, HolderTable
  <2>9. Boxed(v) = buf[v]
    <3>1. ~Copying(v)
      BY <2>4, QuietFacts DEF Copying, Posted, Sends, NoRequests
    <3> QED BY <3>1, <2>4 DEF Boxed, Posted
  <2>10. Boxed(v).to = n /\ Boxed(v) # Blank
    BY <2>4, <2>9, <1>0, QuietFacts DEF Posted, Blank
  <2>11. Steps(v)
    BY <2>8, <2>10, <1>3 DEF Steps
  <2> QED BY <2>3, <2>11, LetterStep
<1>6. CASE Deliver(n, v)
  <2>1. /\ pc[n][v] = "locked" /\ pc'[n][v] = "idle" /\ incoming_slot'[n] = v
        /\ \A d \in Clients : d # n => incoming_slot'[d] = incoming_slot[d]
    BY <1>6, <1>0 DEF Deliver, Goto, TypeOK
  <2>2. \A s \in Peers : \A d \in Clients :
          s # incoming_slot[n] \/ s = v \/ d # n => (HeldBy(s, d)' <=> HeldBy(s, d))
    BY <2>1, <1>2, QuietFacts DEF HeldBy
  <2>3. \A s \in Peers : s # incoming_slot[n] \/ s = v => Same(s)
    BY <2>2, <1>3, <1>4, HolderKept DEF Same
  <2>4. CASE incoming_slot[n] \notin Peers
    BY <2>3, <2>4, SameAll
  <2>5. CASE incoming_slot[n] \in Peers
    <3> PICK u \in Peers : u = incoming_slot[n]
      BY <2>5
    <3>1. u # v /\ n \in Holders(u)
      BY <2>1 DEF OnceEach, Once, Holders, HeldBy
    <3>2. HolderOf(u) = n /\ \A d \in Holders(u) : d = n
      BY <3>1, HolderFacts
    <3>3. \A d \in Clients : ~HeldBy(u, d)'
      <4>1. \A d \in Clients : d # n => ~HeldBy(u, d)'
        BY <2>2, <3>2 DEF Holders
      <4>2. pc[n][u] # "locked"
        BY DEF OnceEach, Once
      <4>3. ~HeldBy(u, n)'
        BY <4>2, <3>1, <2>1, <1>2, QuietFacts DEF HeldBy
      <4> QED BY <4>1, <4>3
    <3>4. u \notin irq'[server_id]
      BY <3>2, <1>0, <1>4 DEF Holders
    <3>5. Holders(u)' = {}
      BY <3>3, <3>4 DEF Holders
    <3>6. HolderOf(u)' = NULL /\ HolderOf(u) # NULL
      BY <3>2, <3>5, <1>0, QuietFacts DEF HolderOf
    <3>7. Steps(u)
      BY <3>6, <1>3 DEF Steps
    <3>8. \A s \in Peers \ {u} : Same(s)
      BY <2>3
    <3> QED BY <3>7, <3>8, LetterStep
  <2> QED BY <2>4, <2>5
<1> QED BY <1>5, <1>6

\* The receiver d that has hold of u empties it.
LEMMA EmptyMaps ==
  ASSUME Quiet, QuietInv, QuietInv', NEW u \in Peers, NEW d \in Holders(u),
         buflen' = [buflen EXCEPT ![u] = 0], UNCHANGED <<buf, pc>>,
         \A e \in Ids : ~Has(u, e)',
         \A s \in Peers \ {u} : /\ \A e \in Clients : HeldBy(s, e)' <=> HeldBy(s, e)
                                /\ s \in irq'[server_id] <=> s \in irq[server_id]
  PROVE  Letter!Next
<1>1. HolderOf(u) = d /\ d \in Ids /\ Boxed(u) = buf[u] /\ buf[u].to = d
  BY HolderFacts
<1>2. Boxed(u) # Blank
  BY <1>1, QuietFacts DEF Blank
<1>3. Boxed(u)' = Blank
  BY DEF Boxed, QuietInv, Typed, TypeOK
<1>4. Holders(u)' = {}
  BY QuietFacts DEF Holders, HeldBy, Has
<1>5. HolderOf(u)' = NULL
  BY <1>4 DEF HolderOf
<1>6. Steps(u)
  BY <1>1, <1>2, <1>3, <1>5 DEF Steps
<1>7. ASSUME NEW s \in Peers \ {u} PROVE Same(s)
  <2>1. HolderOf(s)' = HolderOf(s)
    BY HolderKept
  <2>2. buflen'[s] = buflen[s]
    BY DEF QuietInv, Typed, TypeOK
  <2> QED BY <2>1, <2>2, BoxKept DEF Same
<1> QED BY <1>6, <1>7, LetterStep

LEMMA ReadMaps ==
  ASSUME Quiet, QuietInv, QuietInv', NEW n \in Clients, NEW r \in Readers, gf_bridge_read(n, r)
  PROVE  Letter!Next \/ UNCHANGED BoxVars
<1>1. CASE ReleaseClear(n, r)
  <2>1. /\ incoming_slot[n] # NULL /\ incoming_slot' = [incoming_slot EXCEPT ![n] = NULL]
        /\ buflen' = [buflen EXCEPT ![incoming_slot[n]] = 0]
        /\ UNCHANGED <<buf, pc, irq, stomped>>
    BY <1>1 DEF ReleaseClear, outVars
  <2> PICK u \in Peers : u = incoming_slot[n]
    BY <2>1 DEF QuietInv, Typed, TypeOK
  <2>2. n \in Holders(u)
    BY DEF Holders, HeldBy
  <2>3. /\ incoming_slot'[n] = NULL
        /\ \A d \in Clients : d # n => incoming_slot'[d] = incoming_slot[d]
    BY <2>1 DEF QuietInv, Typed, TypeOK
  <2>4. \A e \in Ids : ~Has(u, e)'
    <3>0. n \in Ids /\ Has(u, n) /\ Once(u, n)
      BY QuietFacts DEF Has, QuietInv, Slots, OnceEach
    <3>1. \A e \in Ids : Has(u, e) => e = n
      BY <3>0 DEF QuietInv, Slots, Addressed, Posted
    <3>2. \A e \in Ids : Has(u, e)' => Has(u, e)
      BY <2>1, <2>3, QuietFacts DEF Has
    <3>3. ~Has(u, n)'
      BY <3>0, <2>1, <2>3, QuietFacts DEF Has, Once
    <3> QED BY <3>1, <3>2, <3>3
  <2>5. \A s \in Peers \ {u}, e \in Clients : HeldBy(s, e)' <=> HeldBy(s, e)
    BY <2>1, <2>3, QuietFacts DEF HeldBy
  <2> QED BY <2>1, <2>2, <2>4, <2>5, EmptyMaps
<1>2. CASE ~ReleaseClear(n, r)
  <2>1. UNCHANGED <<slotVars, irq, incoming_slot, pc>>
    BY <1>2 DEF gf_bridge_read, FEE_release_incoming, Await, AwaitWoken, AwaitSignal, AwaitFetch,
       ReleaseLock, ReleaseOops, NotReading, outVars
  <2> QED BY <2>1 DEF slotVars, BoxVars, Boxed, Copying, HolderOf, Holders, HeldBy
<1> QED BY <1>1, <1>2

LEMMA ServerMaps ==
  ASSUME Quiet, QuietInv, QuietInv', Server
  PROVE  Letter!Next \/ UNCHANGED BoxVars
<1> USE DEF QuietInv, Typed, Slots
<1>0. server_id \in Peers /\ server_id \in Ids /\ server_id \notin Clients
  BY QuietFacts
<1>1. ASSUME NEW v \in Peers, ServerReceive(v) PROVE Letter!Next
  <2>1. /\ v \in irq[server_id] /\ irq' = [irq EXCEPT ![server_id] = @ \ {v}]
        /\ buflen' = [buflen EXCEPT ![v] = 0]
        /\ UNCHANGED <<buf, pc, incoming_slot, stomped>>
    BY <1>1 DEF ServerReceive, outVars, inVars
  <2>2. server_id \in Holders(v)
    BY <2>1 DEF Holders
  <2>3. /\ irq'[server_id] = irq[server_id] \ {v}
        /\ \A e \in Ids : e # server_id => irq'[e] = irq[e]
    BY <2>1, <1>0 DEF TypeOK
  <2>4. \A e \in Ids : ~Has(v, e)'
    <3>1. \A e \in Ids : Has(v, e) => e = server_id
      BY <2>1, <1>0 DEF Addressed, Posted, Has
    <3>2. \A e \in Ids : Has(v, e)' => Has(v, e) /\ e # server_id
      BY <2>1, <2>3, <1>0 DEF Has
    <3> QED BY <3>1, <3>2
  <2>5. \A s \in Peers \ {v} : /\ \A e \in Clients : HeldBy(s, e)' <=> HeldBy(s, e)
                               /\ s \in irq'[server_id] <=> s \in irq[server_id]
    BY <2>1, <2>3 DEF HeldBy
  <2> QED BY <2>1, <2>2, <2>4, <2>5, EmptyMaps
<1>2. ASSUME NEW m \in ServerTraffic, ServerSend(m) PROVE Letter!Next
  <2>0. m.to \in Clients /\ m.to \in Ids /\ m.body \in Body /\ m.to # server_id
    BY <1>0, QuietFacts, MailboxAssumption DEF MailboxAssumption
  <2>1. /\ buflen[server_id] = 0 /\ buflen'[server_id] # 0
        /\ buf'[server_id] = [body |-> m.body, to |-> m.to]
        /\ \A s \in Peers : s # server_id => buflen'[s] = buflen[s] /\ buf'[s] = buf[s]
    BY <1>0, <1>2 DEF ServerSend, Quiet, TypeOK
  <2>2. irq'[server_id] = irq[server_id] /\ UNCHANGED <<pc, incoming_slot>>
    BY <1>0, <1>2, <2>0 DEF ServerSend, outVars, inVars, TypeOK
  <2>3. \A s \in Peers : HolderOf(s)' = HolderOf(s)
    BY <2>2, HolderKept DEF HeldBy
  <2>4. \A s \in Peers \ {server_id} : Same(s)
    BY <2>1, <2>2, <2>3, BoxKept DEF Same
  <2>5. Boxed(server_id) = Blank /\ Boxed(server_id)' = buf'[server_id]
    BY <1>0, <2>1 DEF Boxed, Copying
  <2>6. Steps(server_id)
    BY <2>0, <2>1, <2>3, <2>5, <1>0 DEF Steps
  <2> QED BY <2>4, <2>6, <1>0, LetterStep
<1> QED BY <1>1, <1>2 DEF Server

(***************************************************************************)
(* Mailbox implements Letterbox under quiet traffic: what buflen, the      *)
(* copy, the doorbell, all_msix() and incoming_slot do together is to post *)
(* whole messages into boxes that only their addressees empty.  Readers    *)
(* may be any number, and incoming_slot may be stomped.                    *)
(***************************************************************************)
THEOREM RefinesLetterbox ==
  ASSUME Quiet
  PROVE  Spec => ImplementsLetterbox
<1>1. Init => Letter!Init
  <2> SUFFICES ASSUME Init PROVE Letter!Init
    OBVIOUS
  <2>1. \A s \in Peers : Boxed(s) = Blank
    BY DEF Init, Boxed
  <2>2. \A s \in Peers : Holders(s) = {}
    BY QuietFacts DEF Init, Holders, HeldBy
  <2> QED BY <2>1, <2>2 DEF Letter!Init
<1>2. QuietInv /\ QuietInv' /\ [Next]_vars => Letter!Next \/ UNCHANGED BoxVars
  <2> SUFFICES ASSUME QuietInv, QuietInv', [Next]_vars PROVE Letter!Next \/ UNCHANGED BoxVars
    OBVIOUS
  <2>1. CASE UNCHANGED vars
    BY <2>1 DEF vars, slotVars, outVars, inVars, BoxVars, Boxed, Copying, HolderOf, Holders, HeldBy
  <2>2. CASE Next
    BY <2>2, QuietCases, WriterMaps, HandlerMaps, ReadMaps, ServerMaps DEF QuietInv
  <2> QED BY <2>1, <2>2
<1>3. QuietInv /\ QuietInv' /\ [Next]_vars =>
        [Letter!Next]_<<[s \in Peers |-> Boxed(s)],
                        [s \in Peers |-> IF Holders(s) = {} THEN NULL
                                         ELSE CHOOSE n \in Holders(s) : TRUE]>>
  BY <1>2 DEF BoxVars, HolderOf
<1> QED BY <1>1, <1>3, QuietInvariance, PTL DEF Spec, ImplementsLetterbox, Letter!Spec
=============================================================================
