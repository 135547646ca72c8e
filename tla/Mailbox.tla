------------------------------ MODULE Mailbox ------------------------------
(***************************************************************************)
(* The IVSHMSG mailslot protocol of the F.E.E. shim: every client owns one *)
(* mailslot in the shared memory of BAR 2.  A sender fills its own slot    *)
(* and rings the doorbell of a peer; the peer's MSI-X handler either       *)
(* answers a link-level request itself or points the adapter's             *)
(* incoming_slot at the sender's slot for a read(); whoever consumed the   *)
(* message clears the SENDER's buflen, which lets it send again.           *)
(*                                                                         *)
(* Modelled: fee_IVSHMSG.c, all_msix() of fee_MSI-X.c, fee_link.c, and     *)
(* read() and write() of gf_bridge.c, on every client at once.  The model  *)
(* starts when genz_fee and genz_fee_bridge are loaded on every client and *)
(* the device is open.  The IVSHMSG server (the "switch") is external.     *)
(*                                                                         *)
(* Threads: for each client, its writer threads, its reader threads, one   *)
(* interrupt context per MSI-X vector (a vector does not nest in itself,   *)
(* different vectors run on different CPUs), and the threads of insmod and *)
(* rmmod that run UPDATE_SWITCH.  Any of them may be preempted anywhere.   *)
(***************************************************************************)
EXTENDS Integers

CONSTANTS
  nClients,       \* globals->nClients: client ids are 1 .. nClients
  server_id,      \* globals->server_id
  Writers,        \* threads of a client that call write() on the device
  Readers,        \* threads of a client that call read() on the device
  Admins,         \* threads of a client that execute UPDATE_SWITCH
  Traffic,        \* Traffic[n]: what the writers of client n may write()
  ServerTraffic,  \* what the server may send
  Gcids           \* values of CID0 and SID0; 0 is "unassigned"

Clients == 1 .. nClients
Peers   == Clients \cup {server_id}
Ids     == 1 .. server_id       \* what FEE_create_outgoing accepts as peer_id
NULL    == 0                    \* slot 0 is the globals data, never a mailslot

GENZ_FEE_SID_DEFAULT        == 27
GENZ_FEE_SID_CID_IS_PEER_ID == -42
MaxRestarts                 == 2

(***************************************************************************)
(* What a slot's buf holds, up to what the driver tells apart: the kinds   *)
(* FEE_link_request() compares with, the driver's own answers, anything    *)
(* else ("data"), nothing yet ("none"), a text cut short by a NUL ("cut"). *)
(* The numbers of a CTL-Write or of a Link CTL ACK are cid and sid.        *)
(***************************************************************************)
Kinds == {"none", "cut", "data", "ping", "pong", "dump",
          "attr", "ack", "ctlw", "stdack"}
Body  == [kind: Kinds, cid: Gcids, sid: Gcids]
Text(k) == [kind |-> k, cid |-> 0, sid |-> 0]

\* The length of each text; "data" stands for any text of another length.
MsgLen(k) == CASE k \in {"ping", "pong", "dump"} -> 4
               [] k = "data"   -> 8
               [] k = "attr"   -> 23
               [] k = "stdack" -> 42
               [] k = "ack"    -> 45
               [] k = "ctlw"   -> 60
               [] OTHER        -> 0

\* buf[len] = '\0' on what buf held before: a longer text loses its end.
Cut(body, len) == IF MsgLen(body.kind) > len
                  THEN [body EXCEPT !.kind = "cut"] ELSE body

(***************************************************************************)
(* One write() call: the CID and SID parsed from the text before the       *)
(* colon, and the body after it.  parsed = FALSE is a call that fails      *)
(* after copy_from_user and before FEE_create_outgoing (a fault, no colon, *)
(* a number kstrtoint refuses).                                            *)
(***************************************************************************)
Request == [parsed: BOOLEAN, CID: Int, SID: Int, body: Body]

ASSUME MailboxAssumption ==
  /\ nClients \in Nat \ {0}
  /\ server_id \in Nat /\ server_id > nClients
  /\ 0 \in Gcids
  /\ Traffic \in [Clients -> SUBSET Request]
  /\ ServerTraffic \subseteq [to: Clients, body: Body]
  /\ \A t \in Writers \cup Readers \cup Admins : t \notin Int
  /\ Writers \cap Readers = {}
  /\ Admins \cap (Writers \cup Readers) = {}

\* The contexts of a client that can be inside FEE_create_outgoing(): a
\* vector's interrupt context is named by the peer whose doorbell it is.
Ctx == Writers \cup Admins \cup Peers

VARIABLES
  buflen,          \* mailslot fields, indexed by the owning peer; a buf
  buf,             \*   also remembers "to", the peer its writer meant it
  last_responder,  \*   for (not on the wire, properties need it)
  irq,             \* irq[p]: senders whose doorbell is pending at p
  incoming_slot,   \* adapter->incoming_slot: the id of a slot, or NULL
  lock,            \* adapter->incoming_slot_lock: its holder, or NULL
  pc, job,         \* each context's place and its arguments
  restarts,        \* gf_bridge_write(): restarts so far
  mutex, wbuf,     \* buffers->wbuf_mutex, and the body in buffers->wbuf
  rpc, sender,     \* gf_bridge_read(): place and the local "sender"
  CID0, SID0,      \* adapter->core->CID0, SID0
  stomped          \* stomped[n]: slots whose message all_msix() of n
                   \*   overwrote in incoming_slot before a read() got it

slotVars == <<buflen, buf, last_responder>>
outVars  == <<pc, job, restarts, mutex, wbuf>>
inVars   == <<incoming_slot, lock, rpc, sender>>
coreVars == <<CID0, SID0>>
vars == <<slotVars, irq, outVars, inVars, coreVars, stomped>>

NoJob == [peer |-> NULL, body |-> Text("none")]

Init ==
  /\ buflen         = [p \in Peers |-> 0]
  /\ buf            = [p \in Peers |-> [body |-> Text("none"), to |-> NULL]]
  /\ last_responder = [p \in Peers |-> NULL]
  /\ irq            = [i \in Ids |-> {}]
  /\ incoming_slot  = [n \in Clients |-> NULL]
  /\ lock           = [n \in Clients |-> NULL]
  /\ pc             = [n \in Clients |-> [c \in Ctx |-> "idle"]]
  /\ job            = [n \in Clients |-> [c \in Ctx |-> NoJob]]
  /\ restarts       = [n \in Clients |-> [w \in Writers |-> 0]]
  /\ mutex          = [n \in Clients |-> NULL]
  /\ wbuf           = [n \in Clients |-> Text("none")]
  /\ rpc            = [n \in Clients |-> [r \in Readers |-> "idle"]]
  /\ sender         = [n \in Clients |-> [r \in Readers |-> NULL]]
  /\ CID0           = [n \in Clients |-> 0]
  /\ SID0           = [n \in Clients |-> 0]
  /\ stomped        = [n \in Clients |-> {}]

Goto(n, c, where)  == pc' = [pc EXCEPT ![n][c] = where]
SetJob(n, c, p, b) == job' = [job EXCEPT ![n][c] = [peer |-> p, body |-> b]]

-----------------------------------------------------------------------------
(***************************************************************************)
(* FEE_create_outgoing(): called by a writer that holds wbuf_mutex, by an  *)
(* interrupt context that answers a link request, and by UPDATE_SWITCH.    *)
(* Nothing but buflen itself keeps two of them from the one slot.          *)
(***************************************************************************)

\* CID / 100 truncates; a negative CID becomes a huge uint32_t peer_id, and
\* is refused as a negative one is here.
peer_id(CID, SID) ==
  IF SID = GENZ_FEE_SID_CID_IS_PEER_ID THEN CID
  ELSE IF CID < 0 THEN -((-CID) \div 100) ELSE CID \div 100

\* The argument checks, in their order.  buflen >= max_buflen cannot happen
\* after the tighter check of gf_bridge_write().
OutgoingErrno(CID, SID, body) ==
  CASE SID \notin {GENZ_FEE_SID_DEFAULT, GENZ_FEE_SID_CID_IS_PEER_ID}
                                     -> "ENETUNREACH"
    [] peer_id(CID, SID) \notin Ids  -> "EBADSLT"
    [] MsgLen(body.kind) = 0         -> "ENODATA"
    [] OTHER                         -> "OK"

\* The body a context sends: a writer's is still in the shared wbuf.
Outbody(n, c) == IF c \in Writers THEN wbuf[n] ELSE job[n][c].body

\* Back to the caller, which keeps nothing: write() unlocks and returns.
Return(n, c) ==
  /\ Goto(n, c, "idle")
  /\ SetJob(n, c, NULL, Text("none"))
  /\ IF c \in Writers
     THEN /\ mutex'    = [mutex EXCEPT ![n] = NULL]
          /\ restarts' = [restarts EXCEPT ![n][c] = 0]
     ELSE UNCHANGED <<mutex, restarts>>

\* Mutant: goes ahead on a busy slot, as if the test after the wait were gone.
HwReadyUntested(n, c) ==
  /\ pc[n][c] = "wait"
  /\ Goto(n, c, "fill")
  /\ UNCHANGED <<slotVars, irq, job, restarts, mutex, wbuf, inVars, coreVars,
                 stomped>>

\* The wait for my_slot->buflen ends with buflen 0 at the test that follows
\* it, whether the loop saw that or its timeout came first.
HwReady(n, c) ==
  /\ pc[n][c] = "wait"
  /\ buflen[n] = 0
  /\ Goto(n, c, "fill")
  /\ UNCHANGED <<slotVars, irq, job, restarts, mutex, wbuf, inVars, coreVars,
                 stomped>>

\* Mutant: restarts++ <= 2.
MayRestartOnceMore(n, c) == c \in Writers /\ restarts[n][c] <= MaxRestarts

\* restarts++ < 2; only write() looks at -ERESTARTSYS.
MayRestart(n, c) == c \in Writers /\ restarts[n][c] < MaxRestarts

\* Mutant: the wait has no timeout.
WouldStompUntimed(n, c) == pc[n][c] = "wait" /\ FALSE /\ UNCHANGED vars

\* -ERESTARTSYS: timed out with the slot busy, or another context was
\* faster.  write() starts over twice, the others ignore the result.
WouldStomp(n, c) ==
  /\ pc[n][c] = "wait"
  /\ buflen[n] # 0
  /\ IF MayRestart(n, c)
     THEN /\ restarts' = [restarts EXCEPT ![n][c] = @ + 1]
          /\ UNCHANGED <<pc, job, mutex>>
     ELSE Return(n, c)
  /\ UNCHANGED <<slotVars, irq, wbuf, inVars, coreVars, stomped>>

\* buflen, the NUL and last_responder are set before the text is there.
Fill(n, c) ==
  LET len == MsgLen(Outbody(n, c).kind) IN
  /\ pc[n][c] = "fill"
  /\ buflen'         = [buflen EXCEPT ![n] = len]
  /\ buf'            = [buf EXCEPT ![n] = [body |-> Cut(@.body, len), to |-> @.to]]
  /\ last_responder' = [last_responder EXCEPT ![n] = job[n][c].peer]
  /\ stomped'        = [m \in Clients |-> stomped[m] \ {n}]
  /\ Goto(n, c, "copy")
  /\ UNCHANGED <<irq, job, restarts, mutex, wbuf, inVars, coreVars>>

Memcpy(n, c) ==
  /\ pc[n][c] = "copy"
  /\ buf' = [buf EXCEPT ![n] = [body |-> Outbody(n, c), to |-> job[n][c].peer]]
  /\ Goto(n, c, "ring")
  /\ UNCHANGED <<buflen, last_responder, irq, job, restarts, mutex, wbuf,
                 inVars, coreVars, stomped>>

\* A doorbell that is already pending is not remembered twice.
Doorbell(n, c) ==
  /\ pc[n][c] = "ring"
  /\ irq' = [irq EXCEPT ![job[n][c].peer] = @ \cup {n}]
  /\ Return(n, c)
  /\ UNCHANGED <<slotVars, wbuf, inVars, coreVars, stomped>>

FEE_create_outgoing(n, c) ==
  \/ HwReady(n, c) \/ WouldStomp(n, c)
  \/ Fill(n, c) \/ Memcpy(n, c) \/ Doorbell(n, c)

-----------------------------------------------------------------------------
\* Mutant: no mutex_lock(), only mutex_unlock().
WriteUnlocked(n, w, req) ==
  /\ pc[n][w] = "idle"
  /\ req.parsed /\ OutgoingErrno(req.CID, req.SID, req.body) = "OK"
  /\ wbuf' = [wbuf EXCEPT ![n] = req.body]
  /\ SetJob(n, w, peer_id(req.CID, req.SID), Text("none"))
  /\ Goto(n, w, "wait")
  /\ UNCHANGED <<slotVars, irq, restarts, mutex, inVars, coreVars, stomped>>

(***************************************************************************)
(* gf_bridge_write() up to FEE_create_outgoing().  Only wbuf, which the    *)
(* mutex protects, is touched between the lock and there: one step.        *)
(***************************************************************************)
Write(n, w, req) ==
  /\ pc[n][w] = "idle"
  /\ mutex[n] = NULL
  /\ req.parsed /\ OutgoingErrno(req.CID, req.SID, req.body) = "OK"
  /\ mutex' = [mutex EXCEPT ![n] = w]
  /\ wbuf'  = [wbuf EXCEPT ![n] = req.body]
  /\ SetJob(n, w, peer_id(req.CID, req.SID), Text("none"))
  /\ Goto(n, w, "wait")
  /\ UNCHANGED <<slotVars, irq, restarts, inVars, coreVars, stomped>>

\* The same, returning an error at once: lock, wbuf overwritten, unlock.
WriteError(n, w, req) ==
  /\ pc[n][w] = "idle"
  /\ mutex[n] = NULL
  /\ ~ (req.parsed /\ OutgoingErrno(req.CID, req.SID, req.body) = "OK")
  /\ wbuf' = [wbuf EXCEPT ![n] = req.body]
  /\ UNCHANGED <<slotVars, irq, pc, job, restarts, mutex, inVars, coreVars,
                 stomped>>

\* UPDATE_SWITCH(adapter), from probe, remove, register and unregister.
UPDATE_SWITCH(n, a) ==
  /\ pc[n][a] = "idle"
  /\ SetJob(n, a, server_id, Text("dump"))
  /\ Goto(n, a, "wait")
  /\ UNCHANGED <<slotVars, irq, restarts, mutex, wbuf, inVars, coreVars,
                 stomped>>

-----------------------------------------------------------------------------
(***************************************************************************)
(* The interrupt context of vector v on client n: all_msix(), which calls  *)
(* FEE_link_request() with the spinlock held; that function unlocks on     *)
(* behalf of its caller when it takes the message.                         *)
(***************************************************************************)
all_msix(n, v) ==
  /\ pc[n][v] = "idle"
  /\ v \in irq[n]
  /\ lock[n] = NULL
  /\ irq'  = [irq EXCEPT ![n] = @ \ {v}]
  /\ lock' = [lock EXCEPT ![n] = v]
  /\ Goto(n, v, "locked")
  /\ UNCHANGED <<slotVars, job, restarts, mutex, wbuf, incoming_slot, rpc,
                 sender, coreVars, stomped>>

IsPing(v)     == buflen[v] = 4 /\ buf[v].body.kind = "ping"
IsPeerAttr(v) == buf[v].body.kind = "attr"
IsCtlWrite(v) == buf[v].body.kind = "ctlw"
IsLinkRequest(v) == IsPing(v) \/ IsPeerAttr(v) \/ IsCtlWrite(v)

\* Mutant: unlocks and answers, but leaves the sender's buflen set.
ReceivedKeepsBuflen(n, v) ==
  /\ pc[n][v] = "locked"
  /\ lock' = [lock EXCEPT ![n] = NULL]
  /\ UNCHANGED <<slotVars, irq, restarts, mutex, wbuf, incoming_slot, rpc,
                 sender, coreVars, stomped>>

\* Mutant: leaves the unlock to all_msix(), which returns without one.
ReceivedKeepsLock(n, v) ==
  /\ pc[n][v] = "locked"
  /\ buflen' = [buflen EXCEPT ![v] = 0]
  /\ UNCHANGED <<buf, last_responder, irq, restarts, mutex, wbuf, inVars,
                 coreVars, stomped>>

\* "buf received": buflen = 0 and unlock, before the answer.
Received(n, v) ==
  /\ pc[n][v] = "locked"
  /\ buflen' = [buflen EXCEPT ![v] = 0]
  /\ lock'   = [lock EXCEPT ![n] = NULL]
  /\ UNCHANGED <<buf, last_responder, irq, restarts, mutex, wbuf,
                 incoming_slot, rpc, sender, coreVars, stomped>>

LinkPing(n, v) ==
  /\ IsPing(v)
  /\ Received(n, v)
  /\ SetJob(n, v, v, Text("pong"))
  /\ Goto(n, v, "wait")

LinkPeerAttribute(n, v) ==
  /\ IsPeerAttr(v)
  /\ Received(n, v)
  /\ Goto(n, v, "ack")
  /\ UNCHANGED job

\* sprintf(outbuf, LINK_CTL_ACK, ...) reads the core structure unlocked.
LinkAck(n, v) ==
  /\ pc[n][v] = "ack"
  /\ SetJob(n, v, v, [kind |-> "ack", cid |-> CID0[n], sid |-> SID0[n]])
  /\ Goto(n, v, "wait")
  /\ UNCHANGED <<slotVars, irq, restarts, mutex, wbuf, inVars, coreVars,
                 stomped>>

\* The numbers are scanned from buf before the unlock.
LinkCtlWrite(n, v) ==
  /\ IsCtlWrite(v)
  /\ Received(n, v)
  /\ SetJob(n, v, v, buf[v].body)
  /\ Goto(n, v, "ctl1")

\* The core structure is then written field by field, without the lock
\* (PFMCID, PFMSID and PMCID are written too; nothing in the driver reads
\* them).
LinkSetCID0(n, v) ==
  /\ pc[n][v] = "ctl1"
  /\ CID0' = [CID0 EXCEPT ![n] = job[n][v].body.cid]
  /\ Goto(n, v, "ctl2")
  /\ UNCHANGED <<slotVars, irq, job, restarts, mutex, wbuf, inVars, SID0,
                 stomped>>

LinkSetSID0(n, v) ==
  /\ pc[n][v] = "ctl2"
  /\ SID0' = [SID0 EXCEPT ![n] = job[n][v].body.sid]
  /\ SetJob(n, v, v, Text("stdack"))
  /\ Goto(n, v, "wait")
  /\ UNCHANGED <<slotVars, irq, restarts, mutex, wbuf, inVars, CID0, stomped>>

FEE_link_request(n, v) ==
  \/ LinkPing(n, v)
  \/ LinkPeerAttribute(n, v) \/ LinkAck(n, v)
  \/ LinkCtlWrite(n, v) \/ LinkSetCID0(n, v) \/ LinkSetSID0(n, v)

\* A normal message: point incoming_slot at it, whatever it pointed at, and
\* wake the readers up (they look at incoming_slot themselves).
Deliver(n, v) ==
  /\ pc[n][v] = "locked"
  /\ ~ IsLinkRequest(v)
  /\ incoming_slot' = [incoming_slot EXCEPT ![n] = v]
  /\ stomped' = [stomped EXCEPT ![n] =
                   (@ \cup ({incoming_slot[n]} \ {NULL})) \ {v}]
  /\ lock' = [lock EXCEPT ![n] = NULL]
  /\ Goto(n, v, "idle")
  /\ UNCHANGED <<slotVars, irq, job, restarts, mutex, wbuf, rpc, sender,
                 coreVars>>

Interrupt(n, v) == all_msix(n, v) \/ FEE_link_request(n, v) \/ Deliver(n, v)

-----------------------------------------------------------------------------
(***************************************************************************)
(* gf_bridge_read(): FEE_await_incoming() looks at incoming_slot and then  *)
(* fetches it in a second read, both without the lock; the copy to user    *)
(* space lasts from "got" until FEE_release_incoming() has the lock.       *)
(***************************************************************************)
RGoto(n, r, where) == rpc' = [rpc EXCEPT ![n][r] = where]
NotReading == <<slotVars, irq, outVars, coreVars, stomped>>

Await(n, r) ==
  /\ rpc[n][r] = "idle"
  /\ RGoto(n, r, IF incoming_slot[n] # NULL THEN "ready" ELSE "sleep")
  /\ UNCHANGED <<NotReading, incoming_slot, lock, sender>>

AwaitWoken(n, r) ==
  /\ rpc[n][r] = "sleep"
  /\ incoming_slot[n] # NULL
  /\ RGoto(n, r, "ready")
  /\ UNCHANGED <<NotReading, incoming_slot, lock, sender>>

\* Mutant: the result of wait_event_interruptible() is ignored.
AwaitSignalIgnored(n, r) ==
  /\ rpc[n][r] = "sleep"
  /\ RGoto(n, r, "ready")
  /\ UNCHANGED <<NotReading, incoming_slot, lock, sender>>

\* wait_event_interruptible() returned -ERESTARTSYS.
AwaitSignal(n, r) ==
  /\ rpc[n][r] = "sleep"
  /\ RGoto(n, r, "idle")
  /\ UNCHANGED <<NotReading, incoming_slot, lock, sender>>

\* IS_ERR(NULL) is false: a NULL fetched here is dereferenced.
AwaitFetch(n, r) ==
  /\ rpc[n][r] = "ready"
  /\ sender' = [sender EXCEPT ![n][r] = incoming_slot[n]]
  /\ RGoto(n, r, IF incoming_slot[n] # NULL THEN "got" ELSE "oops")
  /\ UNCHANGED <<NotReading, incoming_slot, lock>>

ReleaseLock(n, r) ==
  /\ rpc[n][r] = "got"
  /\ lock[n] = NULL
  /\ lock' = [lock EXCEPT ![n] = r]
  /\ RGoto(n, r, "locked")
  /\ UNCHANGED <<NotReading, incoming_slot, sender>>

\* Mutant: forgets the slot without clearing the sender's buflen.
ReleaseKeepsBuflen(n, r) ==
  /\ rpc[n][r] = "locked"
  /\ incoming_slot[n] # NULL
  /\ incoming_slot' = [incoming_slot EXCEPT ![n] = NULL]
  /\ lock'          = [lock EXCEPT ![n] = NULL]
  /\ sender'        = [sender EXCEPT ![n][r] = NULL]
  /\ RGoto(n, r, "idle")
  /\ UNCHANGED <<slotVars, irq, outVars, coreVars, stomped>>

ReleaseClear(n, r) ==
  /\ rpc[n][r] = "locked"
  /\ incoming_slot[n] # NULL
  /\ buflen'        = [buflen EXCEPT ![incoming_slot[n]] = 0]
  /\ incoming_slot' = [incoming_slot EXCEPT ![n] = NULL]
  /\ lock'          = [lock EXCEPT ![n] = NULL]
  /\ sender'        = [sender EXCEPT ![n][r] = NULL]
  /\ RGoto(n, r, "idle")
  /\ UNCHANGED <<buf, last_responder, irq, outVars, coreVars, stomped>>

\* incoming_slot->buflen through a NULL pointer: the thread dies, the lock
\* stays held.
ReleaseOops(n, r) ==
  /\ rpc[n][r] = "locked"
  /\ incoming_slot[n] = NULL
  /\ RGoto(n, r, "oops")
  /\ UNCHANGED <<NotReading, incoming_slot, lock, sender>>

FEE_release_incoming(n, r) ==
  ReleaseLock(n, r) \/ ReleaseClear(n, r) \/ ReleaseOops(n, r)

gf_bridge_read(n, r) ==
  \/ Await(n, r) \/ AwaitWoken(n, r) \/ AwaitSignal(n, r) \/ AwaitFetch(n, r)
  \/ FEE_release_incoming(n, r)

-----------------------------------------------------------------------------
(***************************************************************************)
(* The server, as the driver relies on it: it obeys the same handshake on  *)
(* its own slot and clears the buflen of whoever rang its doorbell.        *)
(***************************************************************************)
ServerSend(m) ==
  /\ buflen[server_id] = 0
  /\ buflen'         = [buflen EXCEPT ![server_id] = MsgLen(m.body.kind)]
  /\ buf'            = [buf EXCEPT ![server_id] = [body |-> m.body, to |-> m.to]]
  /\ last_responder' = [last_responder EXCEPT ![server_id] = m.to]
  /\ irq'            = [irq EXCEPT ![m.to] = @ \cup {server_id}]
  /\ stomped'        = [n \in Clients |-> stomped[n] \ {server_id}]
  /\ UNCHANGED <<outVars, inVars, coreVars>>

ServerReceive(v) ==
  /\ v \in irq[server_id]
  /\ irq'    = [irq EXCEPT ![server_id] = @ \ {v}]
  /\ buflen' = [buflen EXCEPT ![v] = 0]
  /\ UNCHANGED <<buf, last_responder, outVars, inVars, coreVars, stomped>>

Server == \/ \E m \in ServerTraffic : ServerSend(m)
          \/ \E v \in Peers : ServerReceive(v)

Client(n) ==
  \/ \E w \in Writers, req \in Traffic[n] : Write(n, w, req) \/ WriteError(n, w, req)
  \/ \E a \in Admins : UPDATE_SWITCH(n, a)
  \/ \E c \in Ctx : FEE_create_outgoing(n, c)
  \/ \E v \in Peers : Interrupt(n, v)
  \/ \E r \in Readers : gf_bridge_read(n, r)

Next == Server \/ \E n \in Clients : Client(n)

Spec == Init /\ [][Next]_vars

(***************************************************************************)
(* Fairness.  Interrupt handlers and kernel code that is not asleep run to *)
(* their end; the spinlock is a queued one, so whoever waits for it gets   *)
(* it however often others take it (strong fairness).  The reader threads  *)
(* and the server are assumed to keep reading.  Nobody has to write().     *)
(***************************************************************************)
ReaderRuns(n, r) == Await(n, r) \/ AwaitWoken(n, r) \/ AwaitFetch(n, r)
                    \/ ReleaseClear(n, r)

Fairness ==
  /\ \A n \in Clients :
       /\ \A c \in Ctx : WF_vars(FEE_create_outgoing(n, c))
       /\ \A v \in Peers : /\ SF_vars(all_msix(n, v))
                           /\ WF_vars(FEE_link_request(n, v) \/ Deliver(n, v))
       /\ \A r \in Readers : /\ WF_vars(ReaderRuns(n, r))
                             /\ SF_vars(ReleaseLock(n, r))
  /\ \A v \in Peers : WF_vars(ServerReceive(v))

FairSpec == Spec /\ Fairness

-----------------------------------------------------------------------------
OutPCs == {"idle", "wait", "fill", "copy", "ring", "locked", "ack", "ctl1", "ctl2"}
ReadPCs == {"idle", "sleep", "ready", "got", "locked", "oops"}

\* Every variable has its type; in particular last_responder and every job
\* name a peer id that FEE_create_outgoing() let pass.
TypeOK ==
  /\ buflen \in [Peers -> Nat]
  /\ buf \in [Peers -> [body: Body, to: Ids \cup {NULL}]]
  /\ last_responder \in [Peers -> Ids \cup {NULL}]
  /\ irq \in [Ids -> SUBSET Peers]
  /\ incoming_slot \in [Clients -> Peers \cup {NULL}]
  /\ lock \in [Clients -> Peers \cup Readers \cup {NULL}]
  /\ pc \in [Clients -> [Ctx -> OutPCs]]
  /\ job \in [Clients -> [Ctx -> [peer: Ids \cup {NULL}, body: Body]]]
  /\ restarts \in [Clients -> [Writers -> 0 .. MaxRestarts]]
  /\ mutex \in [Clients -> Writers \cup {NULL}]
  /\ wbuf \in [Clients -> Body]
  /\ rpc \in [Clients -> [Readers -> ReadPCs]]
  /\ sender \in [Clients -> [Readers -> Peers \cup {NULL}]]
  /\ CID0 \in [Clients -> Gcids]
  /\ SID0 \in [Clients -> Gcids]
  /\ stomped \in [Clients -> SUBSET Peers]

\* A context of peer s has filled the slot for d and has yet to ring.
Sending(s, d) == /\ s \in Clients
                 /\ \E c \in Ctx : /\ pc[s][c] \in {"copy", "ring"}
                                   /\ job[s][c].peer = d

\* Client d has, or is getting, the message in slot s.
HeldBy(s, d) == /\ d \in Clients
                /\ \/ pc[d][s] = "locked"
                   \/ incoming_slot[d] = s

\* What may become of a message from s to d before its buflen is cleared.
Accounted(s, d) ==
  \/ Sending(s, d)
  \/ d \in Ids /\ s \in irq[d]
  \/ HeldBy(s, d)
  \/ d \in Clients /\ s \in stomped[d]

(* A busy slot is never forgotten: while its buflen is set, its sender is  *)
(* still about to ring, or the doorbell is pending at last_responder, or   *)
(* that peer's handler or incoming_slot has it, or it was stomped there,   *)
(* which all_msix() reports.  With buflen left set by any other path every *)
(* later FEE_create_outgoing() of the sender would fail with -ERESTARTSYS. *)
BusyAccounted ==
  \A s \in Peers : buflen[s] # 0 => Accounted(s, last_responder[s])

(* The spinlock is released exactly once on every way out of all_msix(),   *)
(* although FEE_link_request() drops it for its caller on three of them:   *)
(* it is held iff one context or reader is between its lock and unlock.    *)
LockDiscipline ==
  \A n \in Clients :
    /\ \A v \in Peers : pc[n][v] = "locked" <=> lock[n] = v
    /\ \A r \in Readers : /\ rpc[n][r] = "locked" => lock[n] = r
                          /\ lock[n] = r => rpc[n][r] \in {"locked", "oops"}

(* With a single reader thread per client, read() never follows a NULL     *)
(* incoming_slot, neither in FEE_await_incoming()'s second look nor in     *)
(* FEE_release_incoming(), however many doorbells come in meanwhile.       *)
SoleReaderNeverOops ==
  (\A r1, r2 \in Readers : r1 = r2) =>
    \A n \in Clients, r \in Readers : rpc[n][r] # "oops"

(* A write() sends what its caller wrote: from the copy into the shared    *)
(* wbuf to the doorbell, over all restarts, wbuf still holds the body of a *)
(* request for the peer this writer is sending to.                         *)
WriteIntact ==
  \A n \in Clients, w \in Writers : pc[n][w] # "idle" =>
    \E req \in Traffic[n] : /\ peer_id(req.CID, req.SID) = job[n][w].peer
                            /\ req.body = wbuf[n]

(* "buflen is the handshake out to the world that I'm busy": at most one   *)
(* context of a client is between the test of buflen and the doorbell of   *)
(* FEE_create_outgoing(), so no two of them write into one slot.           *)
HandshakeExclusive ==
  \A n \in Clients : \A c1, c2 \in Ctx :
    /\ pc[n][c1] \in {"fill", "copy", "ring"}
    /\ pc[n][c2] \in {"fill", "copy", "ring"}
    => c1 = c2

(* What read() copies is a message for this client and stays so until the  *)
(* copy is over: the slot is busy, meant for the reader's client, and no   *)
(* context of its owner is about to write into it.                         *)
ReadStable ==
  \A n \in Clients, r \in Readers : rpc[n][r] = "got" =>
    LET s == sender[n][r] IN
    /\ buflen[s] # 0
    /\ buf[s].to = n
    /\ s \in Clients => \A c \in Ctx : pc[s][c] \notin {"fill", "copy", "ring"}

(* FEE_release_incoming() frees the slot that was read: the slot           *)
(* incoming_slot points at when the lock is held is still the one that     *)
(* FEE_await_incoming() returned.                                          *)
ReleaseFreesSender ==
  \A n \in Clients, r \in Readers :
    rpc[n][r] = "locked" => incoming_slot[n] = sender[n][r]

(* Every write() that has the mutex returns: each wait for the slot ends,  *)
(* by its timeout if need be, and it restarts at most twice, although      *)
(* answers sent from interrupt context take the slot in between.           *)
WriteReturns ==
  \A n \in Clients, w \in Writers : pc[n][w] # "idle" ~> pc[n][w] = "idle"

(* "In truth it's the previous responder clearing my buflen": a busy slot  *)
(* becomes free again.                                                     *)
SlotDrains == \A n \in Clients : buflen[n] # 0 ~> buflen[n] = 0
=============================================================================
