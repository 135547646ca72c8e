# EmerGen-Z in TLA+

EmerGen-Z is a prototype Gen-Z subsystem for Linux and a shim that lets it run
in the Fabric Emulation Environment (F.E.E.): QEMU guests that exchange messages
through mailslots in an IVSHMEM shared-memory file and ring each other's MSI-X
doorbells. This directory holds the TLA+ models of the drivers, the TLC
configurations that check them and the TLAPS proofs.

## 1. The system

| Component | Source | State | Operations |
|---|---|---|---|
| Outgoing mailslot | `fee_IVSHMSG.c` | the client's own slot: `buflen`, `buf`, `last_responder` | `FEE_create_outgoing` |
| Incoming slot | `fee_IVSHMSG.c` | `incoming_slot`, its spinlock and wait queue | `FEE_await_incoming`, `FEE_release_incoming` |
| MSI-X handler | `fee_MSI-X.c` | one interrupt context per vector | `all_msix`, `FEE_ISR_setup`, `FEE_ISR_teardown` |
| Link requests | `fee_link.c` | `CID0`, `SID0` of the core structure | `FEE_link_request` |
| Bridge I/O | `gf_bridge.c` | `wbuf`, `wbuf_mutex` | `read`, `write`, `poll` |
| Bridge file | `gf_bridge.c` | `nr_users`, `outgoing`, `f_count` | `open`, `flush`, `release` |
| Adapter life cycle | `fee_pci.c`, `fee_adapter.c` | the adapter, its mappings and IRQs, `FEE_adapter_list` and its semaphore | probe, remove, create, destroy |
| Driver binding | `fee_register.c`, `gf_bridge.c` | `genz_chrdev`, the shared `core` | `FEE_register`, `FEE_unregister`, module init and exit |
| Character devices | `genz_device.c` | minor bitmap, major, the parts of a device | `genz_register_char_device`, `genz_unregister_char_device`, core create and destroy |
| Bus and classes | `genz_bus.c`, `genz_class.c` | bus instances, registered classes, `the_one` | subsystem init and exit, `genz_find_bus_by_PCIslotnum` |
| Netlink experiments | `netlink/` | none of the driver's | not used by the driver |

How they interact. A `write()` on one client fills that client's own slot and
rings a peer. The peer's handler runs for the vector that names the sender. It
either consumes a link request itself (clears the **sender's** `buflen`, drops
the spinlock, answers through its own slot) or points `incoming_slot` at the
sender's slot and wakes a reader. `read()` copies straight out of the sender's
slot and then clears the sender's `buflen`. So every slot is written by three
kinds of context of its owner (writers under `wbuf_mutex`, interrupt handlers,
`UPDATE_SWITCH` from insmod and rmmod) and released by a thread or a handler of
another machine; `buflen` is the only thing they have in common.

What is hard here: the contexts that share a slot without a common lock; the
lock that `FEE_link_request` drops for its caller; `incoming_slot` read without
its lock and changed between await and release; a second message before the
first is read; timeouts and restarts; the reference count that decides which
close is the last; partial failure in every probe and registration; the adapter
list, whose semaphore can be passed with a signal; the core structure that all
adapters share. The list, with lines, is under `hazards` in `PROJECT.json`.

## 2. Modules

### Mailbox

All clients at once, after both modules are loaded and the device is open. So
`adapter->core`, which a link request follows, is set; before a bridge is bound it
is NULL, and a Peer-Attribute or a CTL-Write is an oops of the handler, which is
not modelled.

* Slots: `buflen`, `buf`, `last_responder`, indexed by owner. A body is a kind
  (what `FEE_link_request` tells apart, the driver's answers, other data) with
  the two numbers of a CTL-Write or an ACK. `MsgLen` gives the lengths, because
  "ping" is matched with its length and the others are not, and because the NUL
  stored before the text can cut an older, longer text short (`Cut`).
  `buf[s].to`, the peer a text was meant for, is not on the wire: it is there for
  `ReadStable`. `stomped` remembers which messages `all_msix` overwrote.
* `irq[p]`: doorbells pending at `p`, one per sender, as MSI-X keeps them.
* A context of a client is a writer thread, an insmod/rmmod thread, or a vector
  named by its sender. `pc` and `job` say where it is. `FEE_create_outgoing` is
  cut where another context can come between: the end of the wait (`HwReady`,
  `WouldStomp`), the stores of length and responder (`Fill`), the text
  (`Memcpy`), the doorbell (`Doorbell`). The timeout is not counted: whoever
  finds the slot busy may time out, whoever finds it free may go on.
* `gf_bridge_write` up to the send is one step, `Write` or `WriteError`: it
  touches nothing but `wbuf`, under the mutex. The parse is abstracted to its
  result (CID, SID, body, or failure).
* `all_msix` takes the lock; then one of `LinkPing`, `LinkPeerAttribute`,
  `LinkCtlWrite` (each through `Received`) or `Deliver`. What `FEE_link_request`
  does after its unlock are steps of their own (`LinkAck`, `LinkSetCID0`,
  `LinkSetSID0`, then the send).
* `gf_bridge_read` is `Await`, `AwaitWoken`, `AwaitSignal`, `AwaitFetch`, then
  the copy, which lasts from "got" until `ReleaseLock`, then `ReleaseClear` or,
  with `incoming_slot` NULL, `ReleaseOops`. All of read()'s error returns release
  the slot too, so they take the same steps; -EAGAIN changes nothing.
* The server is external. It is assumed to follow the handshake on its own slot
  and to clear the `buflen` of whoever rings it.

What overlapping contexts do to one slot is modelled in two writes: length, NUL
and responder together (`Fill`: the properties tell apart only whether `buflen` is
set and what the text is in the end), then the `memcpy`. `all_msix` takes its pending doorbell and the spinlock in
one step, so a second doorbell of one sender while the handler spins for the lock
stays pending and runs the handler again afterwards; the handler that spins has
read nothing yet. Vectors run on CPUs of their own: the case of an
interrupt on the CPU that holds the spinlock is in `IncomingLock`.

### Letterbox and MailboxRefinement

`Letterbox` is what the mailslots promise: every peer owns a box for one message
at a time; the owner posts a whole message into the empty box, the addressee takes
hold of it and, holding it, empties the box. It knows nothing of `buflen`,
doorbells, locks or threads. A peer may lose its hold, and then the box stays
full: that is the stomp the driver's comments speak of, and part of the promise.

`MailboxRefinement` maps Mailbox onto it. A box is full from the end of the
`memcpy` (not from the moment `buflen` is set) until `buflen` is cleared. A client
has hold of a slot while that slot's handler is at it or `incoming_slot` points at
it, the server from the doorbell on. `ImplementsLetterbox` is the abstract
specification as a property of Mailbox; it holds for traffic without link
requests. A link request breaks it by the overlap of `overlap`. A second reader
does not: it may read a text that is replaced under it, but it empties only a box
its client has hold of.

### The proof modules

`MailboxProofs`, `LetterboxProofs`, `BridgeFileProofs`, `AdapterLifeProofs` and
`GenzSubsystemProofs` extend the module they are named after (`LetterboxProofs`
extends `MailboxProofs` and `MailboxRefinement`) with the theorems of section 5.

### MCMailbox

The traffic of the instances: who may write what to whom.

### BridgeFile

`gf_bridge_open`, `_flush` and `_release` step by step, for threads that share a
descriptor table, with the parts of the VFS the driver depends on (external):
`dup`, the reference that a call in progress holds, `close` as descriptor, then
flush, then reference, and release by whoever drops the last one. `users` is a
history variable, the files an open() let in and no flush() took off; it follows
the code's own count, mistakes included. What the count is compared with does
not: `StillOpen`, the files with a descriptor, and `InCall`, the files with a call
in progress, are read off the descriptor table and the threads. Buffers are named after the file
whose open() allocated them.

### AdapterLife, MCAdapterLife

The life of adapters, their list and the bridge module. One thread per PCI device
runs its probe or its remove (the PCI core, external, never runs both at once),
and one more runs insmod and rmmod of the bridge.

* `FEE_init_one` is a walk of `pc[d]` along the calls that acquire something:
  enable, create (`Kzalloc`, `mapBARs`, the tests of the globals), the table, the
  vectors, the IRQs one by one, the list, the first message. `held[d]`, `irqs[d]`
  and `adapter[d]` are what it has by then. Every call may fail, and each failure
  goes where the code's `goto` goes: `uncreate`, `freevectors`, `freetable`,
  `teardown`, `disable`, `destroy`. `overfreed` collects what was released while
  it was not held.
* `FEE_remove_one` starts at `bound`. rmmod of the FEE module is impossible while
  the bridge module uses it, so it waits for `bpc = "out"`; unbinding one device
  through sysfs does not wait, and is the fault `unplug`.
* The list is walked between `down` and `up`. `DownIgnoringSignals` is the probe's
  and the remove's, which go on after a signal as if they had the semaphore; a
  change of the list by one of two threads in it may then be lost (`ChangeList`).
  `BridgeDown` is the bridge's, which respects the result. Meeting an adapter that
  was freed is an oops of that thread, which stops for good, semaphore in hand.
* `Bind` and `Unbind` are one turn each of the loops of `FEE_register` and
  `FEE_unregister`. `registered` are the adapters that a character device
  refers to, `core` and `cores` the core structures. `shared` is a history
  variable: the structures that one insmod bound to several adapters.
* A core structure that was freed is followed in three places, each an oops or,
  as the memory may still be as it was, none: `FEE_adapter_destroy`, through
  `genz_core_structure_destroy` (`genz_device.c:115`), the binding of one more
  adapter, and `Unbind`, which stores into it (`fee_register.c:109`) and reads its
  `MaxInterface` (`genz_device.c:359`).
* `fault` is chosen once, in `Init`: a behaviour meets at most one **kind** of
  fault, any number of times. So each property can say exactly which kinds break
  it, and the checker shows that no other does.

| Fault | Where | Breaks |
|---|---|---|
| `send` | the first message is not sent, `fee_pci.c:136` | `ListedLive`, `NeverOops` |
| `probe_signal` | a signal in the `down` of probe or remove, `fee_pci.c:107`, `190` | `ListExclusive`, `ListedLive`, `NeverOops`, the list part of `AllOrNothing` |
| `exit_signal` | a signal in the `down` of rmmod, `gf_bridge.c:392` | `BridgeGone` |
| `noslot` | a device without `pdev->slot`, `fee_pci.c:176` | `NeverOops` |
| `unplug` | a device unbound while the bridge uses it | `BridgeGone` |
| `chrdev` | a binding that fails, `fee_register.c:57` | `BridgeGone`, `NeverOops` |

Without the exception for any one of these kinds TLC finds the property violated.
`NeverOops` and `IsrSafe` have one more exception, which needs no fault at all: a
core structure of several adapters, freed by the remove of one of them
(`core_shared`). Without it TLC finds both violated: the second remove follows the
freed structure, and so may the handler of an adapter that is still there.

### GenzSubsystem, MCGenzSubsystem

The genz module: its init and exit (classes, root device, bus, fabrics, with the
unwinding), `genz_find_bus_by_PCIslotnum`, and `genz_register_char_device` cut at
each call that acquires something: minor, major or region, bus instance, cdev,
device, the core file, the interfaces directory and its files. `TakeMinor` is the
region, `bridge_major` and the `set_bit` at once, since only the holder of
`bridge_mutex` looks at them. Any number of
callers runs it concurrently and each has one device at most. A failure goes to
the unlock and from there through `genz_unregister_char_device`, as in the code.
The bitmap and the major are static variables and start afresh with the module;
the kernel's `regions` do not, since the driver never gives one back. As above
`fault` is one of two calls whose failure the code does not survive:
`root_device_register` ("root") and `device_create` ("device").

### IncomingLock

The spinlock `incoming_slot_lock` again, now with CPUs: a handler runs on top of
the thread its CPU was running. Data messages only, one slot.

### How the modules meet

Mailbox starts where AdapterLife has a device `bound` and a bridge `in`, and
BridgeFile has it open; AdapterLife's `Bound` is a whole
`genz_register_char_device`, whose inside is GenzSubsystem's; IncomingLock is a
close-up of one lock of Mailbox. They are checked apart: what one needs of the
other (a mapped adapter whose vectors are requested, a device number of its own)
is a property of the other (`IsrSafe`, `AllOrNothing`, `DevTUnique`).

## 3. Runs

| Run | Instance | Checks |
|---|---|---|
| `quiet` | 3 clients, 2 writers each, data to a client and to the server, every errno; no link requests | `TypeOK`, `SoleReaderNeverOops`, `ReadStable`, `HandshakeExclusive`, `WriteIntact`, `BusyAccounted`, `ImplementsLetterbox` |
| `link` | 1 client, 2 readers, an insmod thread, all requests of the server | `BusyAccounted`, `LockDiscipline` |
| `live` | 1 client writing to itself, the server pinging it, fair | `LockDiscipline`, `SlotDrains`, `WriteReturns` |
| `threads` | 3 threads, 2 files, 2 descriptors per file | `TypeOK`, `ExclusiveOpen`, `UsersAccounted` |
| `life` | 2 devices, 2 adapters, 3 vectors, 2 insmods, one kind of fault of six per behaviour | `TypeOK`, `IsrSafe`, `AllOrNothing`, `ReleasedOnce`, `ListedLive`, `ListExclusive`, `NeverOops`, `BridgeGone` |
| `subsys` | 2 callers, 2 minors, a slot number of each kind, 2 majors, one kind of fault of two per behaviour, fair | `TypeOK`, `DevTUnique`, `BitsAreRegions`, `WholeOrNothing`, `ParentListed`, `InitAllOrNothing`, `CallsReturn` |

What they show:

* `ImplementsLetterbox`: without link requests the protocol as a whole is a set
  of boxes that only their owner fills and only the addressee
  empties, one whole message at a time, whatever writers, timeouts, restarts and
  stomps do. `ReadStable` and `HandshakeExclusive` say two parts of it in terms
  of the code: a text stays in place while it is copied, contexts do not overlap
  in a slot. `WriteIntact` (`wbuf` is not mixed up) holds in general.
* `SoleReaderNeverOops`: the two unlocked looks at `incoming_slot` are safe for
  one reader thread, whatever the interrupts do.
* `BusyAccounted`: a slot with `buflen` set is about to be rung, or rung and
  pending, or in the handler or `incoming_slot` of the peer it names, or was
  stomped there. There is no other way to lose a slot. Stomps need two senders of
  data: they happen in `quiet`. `link` has the requests, consumed by the handler.
* `LockDiscipline`: the spinlock is held exactly from its lock to its unlock,
  although the unlock is in another function on three paths. `link` has all the
  paths, against two readers; in `live` two vectors ring.
* `SlotDrains`, `WriteReturns`: with a reader and a server that keep reading, and
  nothing stomped, slots become free again; a write that has `wbuf_mutex` returns
  even when other contexts take the slot whenever it becomes free. The wait for
  the mutex is not part of that, and in this instance no stomp can happen.
* `ExclusiveOpen`, `UsersAccounted`: the device is open at most once, and
  `nr_users`, less the opens that are still to be decided, counts every file that
  has a descriptor, and nothing but files that have one or are in a call. So it is
  exact whenever no call is in progress. A last close that flush() missed leaves
  a file in it, but only while a thread is in a call on that file, and that
  thread does not get past the `BUG_ON` of release() (`close_race`).
* `IsrSafe`: as long as a vector is requested, the device's own adapter, mappings
  and table are there, and its core structure is NULL, exists, or was shared:
  no error path unmaps or frees too early, under any fault. It does not promise
  that a link request is served: `all_msix` follows a NULL `adapter->core` when one
  comes after the probe and before the first insmod of the bridge, and a freed one
  after `core_shared`.
* `AllOrNothing`, `ReleasedOnce`: a probe that fails anywhere holds no resource,
  vector or adapter afterwards (that it may still be on the list, after a failed
  first send, is `ListedLive`'s matter) and releases nothing twice, but for the PCI regions, which a comment
  says does not hurt, and the shared core structure (`core_shared`).
  `ReleasedOnce` of the vectors, and that remove leaves none, holds because
  nEvents = nClients + 2, as the server sets them.
* `ListedLive`, `ListExclusive`, `NeverOops`, `BridgeGone`: who walks the list
  finds adapters that exist, alone, and a bridge that is gone has left no
  character device, unless one of the faults in the table above happens.
  `ListExclusive` also leaves out what follows an oops: that thread had the
  semaphore and keeps it. A property says nothing about the fault it leaves
  out; the notes of the hazards say which ones that concerns.
* `DevTUnique`, `BitsAreRegions`: concurrent registrations never share a device
  number, and the bitmap never offers a number that the kernel has taken.
* `WholeOrNothing`, `ParentListed`, `CallsReturn`: a registered device is
  complete and below a bus instance that exists once; a failed call leaves
  neither entries nor locks; all calls return, unless `device_create` fails.
* `InitAllOrNothing`: init and exit of the subsystem leave nothing behind, unless
  the root device could not be registered.

Runs that show a disagreement between the code and what its comments say:

| Run | Violates | What happens |
|---|---|---|
| `stomp_race` | `ReleaseFreesSender` | A doorbell between await and release: release frees the new message, unread, and leaves the one that was read busy. |
| `overlap` | `HandshakeExclusive` | A writer and an answer from interrupt context both find the slot free. |
| `close_race` | `NeverBug` | `BUG_ON(nr_users)` in release: a close while another thread uses the file, or an open that is about to be refused. |
| `core_shared` | `CoreLive` | Two adapters, one core structure: the first remove frees it, the second follows it and frees it again. |
| `minors` | `RoomForAll` | One device registered and unregistered over and over: the fifteenth time there is no minor, of "16k". |
| `irq_spin` | `HandlerReturns` | A doorbell on the CPU that holds the spinlock: handler and thread wait for each other. |

Each property of a passing run has a mutant: a definition with a bug the code
might plausibly have had (marked "Mutant" in the module) that makes it fail.

Bounds. The state spaces are finite without a constraint. Mailbox: a slot holds
one message, a doorbell is pending or not, `restarts` stops at `MaxRestarts` = 2 as
in the code; two clients are enough for a writer, an answer and a reader to meet
on one slot, and a stomp needs two senders, which is why `quiet` and `stomp_race`
have three clients. BridgeFile: struct files are reused and `MaxFds` bounds `dup`;
three threads let an open, a close and a call in progress overlap. AdapterLife:
two devices are enough for two walkers and for a shared core; adapters are
reused, `Cores` bounds the insmods (a core that failed inits leak is never
reused), `MaxSema` = 2 bounds how far ignored signals raise the semaphore, which is
where two walkers meet. GenzSubsystem: `Majors` bounds how often the module is
loaded and used; two minors for two callers run out, since none is given back;
`MAXBUSES` = 1 with slot numbers -1, 0 and 2 has the "pick it for me" bus, a
plain one and one too large; `minors` has the code's own 14 and 254. IncomingLock: one reader and two CPUs, of
which one would do. Symmetry:
threads of one kind in Mailbox, devices, adapters and cores in AdapterLife, never
with a temporal property that needs fairness.

Deadlock is checked in Mailbox; in BridgeFile, AdapterLife and GenzSubsystem a
thread that hits BUG() or an oops stops, and all of them may, and in IncomingLock
all CPUs may spin.

Fairness. Mailbox (`FairSpec`): interrupt handlers and kernel code that is not
asleep run on (weak fairness); the spinlock is a queued one, so whoever waits for
it gets it (strong fairness on taking it). The readers keep calling read() and
the server keeps serving its doorbells: without that nobody could expect a slot to
drain. Nobody is assumed to write, to signal a reader or to send from the server.
GenzSubsystem: a call runs on, and whoever waits for `bridge_mutex` gets it, since
kernel mutexes hand over to a waiter that was passed too often. Nobody has to
call. IncomingLock: every handler and every thread that can take a step again and
again takes it; the violation is a state in which they cannot.

## 4. Abstractions to keep in mind

Message texts are kinds; `peer_SID` and `peer_CID`, functions of the sender's id,
are left out, and so are the core fields nobody reads, the `longest` statistic,
logging, and -E2BIG, which returns before anything changes. Numbers in a
CTL-Write range over `Gcids`. Memory is sequentially consistent.

## 5. Proofs

Every invariant that a passing run checks is also a theorem, for every value of
the constants, and so is the refinement of Letterbox. The proofs have one layout:
a lemma that lists the cases of `Next`, frame lemmas that say once what a step of
one thread leaves alone, one lemma per part of the inductive invariant with a
case per action, and a temporal step at the end. The inductive invariants were
checked by TLC on the instance of the run before they were proved.

### Mailbox, any traffic (`MailboxProofs`)

Assumption `MailboxAssumption`: ids are naturals, the server's id is above the
clients', threads are not ids and the three kinds of thread are distinct.

| Theorem | Says | Argument |
|---|---|---|
| `TypeCorrect` | `[](TypeOK /\ JobOK)` | `JobOK`: a context inside `FEE_create_outgoing` has a valid peer. Inductive with the types. |
| `NothingForgotten` | `[]BusyAccounted` | Inductive once `JobOK` is known: a doorbell for no valid id would lose the message. One lemma per kind of thread. |
| `LockCorrect` | `[]LockDiscipline` | Inductive with the types. |
| `SoleReaderSafe` | `[]SoleReaderNeverOops` | `HasMessage`: a sole reader past its first look finds `incoming_slot` set, because handlers only replace it. |
| `WriteCorrect` | `[]WriteIntact` | `MutexHeld`: a writer inside write() holds the mutex. |

### Mailbox, quiet traffic (`LetterboxProofs`)

`Quiet` is a hypothesis on the constants: nobody runs UPDATE_SWITCH, nothing that
is written or sent by the server is a ping, a Peer-Attribute or a CTL-Write, and
the server sends no empty text. The instance of `quiet` meets it. It cannot be dropped: `overlap` is
the counterexample. `ReadCorrect` also needs `SoleReader`, since a second reader
may free the slot under the copy of the first.

| Theorem | Says | Argument |
|---|---|---|
| `HandshakeCorrect` | `[]HandshakeExclusive` | `NoRequests`: no link request is in any buffer, so no handler ever sends; what is left are writers, and `MutexHeld` keeps them apart. |
| `ReadCorrect` | `[]ReadStable` | `ReadTable`: what a reader copies from is in `incoming_slot` or was stomped, and `Addressed` says that such a slot is posted. |
| `RefinesLetterbox` | `Spec => ImplementsLetterbox` | Every step changes at most one box: `Memcpy` and `ServerSend` post, `all_msix` and a doorbell at the server take, `Deliver` over another message loses that one, `ReleaseClear` and `ServerReceive` empty. |

The inductive invariant `QuietInv` follows a message. `FillTable` says what
`buflen` and `buf` are while a writer is at its slot. `Has(s, d)` is the message
of `s` being at `d`, as a doorbell, in the handler, in `incoming_slot` or among
the stomped; `Addressed` says that then the slot of `s` is busy with a whole
message for `d` and no writer of `s` is at it, and `OnceEach` that it is in one of
these places only. That is what makes clearing `buflen` safe: whoever clears it
had the only reference to the message. `HolderFacts` derives from it that the set
of holders, from which the refinement mapping chooses, has one element at most.

### BridgeFile (`BridgeFileProofs`)

Assumption `BridgeFileAssumption`: finitely many threads and files.

| Theorem | Says | Argument |
|---|---|---|
| `TypeCorrect` | `[]TypeOK` | Whoever decrements `nr_users` or `f_count` is counted in it. |
| `AccountCorrect` | `[]UsersAccounted` | `UserTable`, that `nr_users` is the opens to be decided and `users`, and that `users` lies between `StillOpen` and `StillOpen` with `InCall`. |
| `OpenCorrect` | `[]ExclusiveOpen` | `LetIn` and `OneUser`: a file with descriptors is the one user. |

`UsersAccounted` is not inductive. Its lower bound needs that a flush that saw
`f_count` = 1 is the last: `RefTable` bounds `f_count` from below by the
descriptors and the calls in progress, and from it `LastReference` follows: with
`f_count` = 1 and a call in progress there is no descriptor and no other call
(`Sole`). `OpenOwn` says that a file being opened belongs to its opener alone,
`Counted` that a user still has a reference or is being released, which is why a
reused file is not a user. Its upper bound needs that a missed last close is
missed for a reason: `PinTable` bounds `f_count` from above by the
descriptors, the calls and the threads that died in one (`Pins`), so a user, which has a reference, has one of them.

### AdapterLife (`AdapterLifeProofs`)

Assumption `AdapterLifeAssumption`: the numbers are naturals, and NULL is neither
an object nor one of the two states of `genz_chrdev`, a device and an ERR_PTR. Two hypotheses on the constants: `AllTornDown`, nEvents <= nClients + 2,
and `OneVectorPerSlot`, nEvents = nClients + 2, which is what `fee.h` says of the
slots; the teardown frees nClients + 2 vectors whatever nEvents is.

| Theorem | Says | Argument |
|---|---|---|
| `TypeCorrect` | `[](TypeOK /\ Owned)` | `Owned`: which `pc` has an adapter, and that it is the device's own. |
| `IsrCorrect` (with `AllTornDown`) | `[]IsrSafe` | `Holdings`: a table of what a device holds at each `pc`, and of its vectors. `CoreTable`: the core structure of an adapter that exists is there unless it is shared. |
| `ReleaseCorrect` (with `OneVectorPerSlot`) | `[]ReleasedOnce` | Each release is of something the table has at that `pc`. |
| `ProbeCorrect` (with `AllTornDown`) | `[]AllOrNothing` | The two ends of the table, with `ListTable`. |
| `ListCorrect` | `[]ListExclusive` | `OneHolder`: the semaphore and its walkers add up to one, until one of them oopses with it. |
| `ListedCorrect` | `[]ListedLive` | `ListTable`: which `pc` is on the list, given that walkers are alone. |
| `OopsCorrect` | `[]NeverOops` | `WalkTable`: what the bridge's walk has yet to meet is live. `CoreTable`: the core structure of an adapter exists unless it is shared. `CoreWalk`: the one an insmod binds to is used by adapters on the list only, and none leaves it during the walk. `SharedFreed`: a shared structure once freed stays freed, so the exception does not come and go. |
| `BridgeCorrect` | `[]BridgeGone` | `BridgeTable`: every registered adapter is still to be visited by the unregistering walk. |

### GenzSubsystem (`GenzSubsystemProofs`)

Assumption `GenzSubsystemAssumption`: the bounds are naturals, and NULL
is no caller, number, dev_t, device or ERR_PTR. One inductive invariant, `Inv`.

| Theorem | Says | Argument |
|---|---|---|
| `TypeCorrect` | `[]TypeOK` | |
| `DevTCorrect` | `[]DevTUnique` | `TakenTable`: a minor is one caller's from the `set_bit` on. `MinorTable`: one that was found is free until taken, which needs `Mutexes`, who has `bridge_mutex` at which `pc`. |
| `BitsCorrect` | `[]BitsAreRegions` | `MinorTable`; an unloaded module has no callers (`Loaded`), and a reload gets a new major. |
| `WholeCorrect` | `[]WholeOrNothing` | `CallTable`: what a caller has at each `pc`, on the way in and on the way back. |
| `ParentCorrect` | `[]ParentListed` | `BusTable`: ids of bus instances are distinct, looked up and added under `genz_bus_mutex`. |
| `InitCorrect` | `[]InitAllOrNothing` | `SubTable`: how far init has got. |

### Only model-checked

Liveness (`SlotDrains`, `WriteReturns`, `CallsReturn`) needs fairness and ENABLED,
which the prover does not have. The violations are counterexamples and need no
proof.

## 6. Plan

Done: all modules of section 2 and the proofs of section 5. To come:

1. What holds of the handshake with link requests, when answers overlap with
   writes: which of the parts of `QuietInv` survive.
2. BridgeFile: a bound on when `BUG_ON(nr_users)` cannot happen (one thread, or no
   call in progress at the last close and no open), as a theorem beside `close_race`.
3. The length arithmetic of `read()` (`gf_bridge.c:180`) as a pure function.

## 7. Not modelled

* Formatting, logging, sysfs callbacks, `poll()` (it changes nothing), `verbose`.
* `genz_init_one`, `alloc_genzdev`, `register_genzdev` and `the_one` of
  `genz_bus.c`: they run only for a driver on the genz bus, and there is none.
* The names of the classes and `genz_class_getter`, a table lookup. That only
  class 0 is registered while a bridge asks for another is listed as a hazard;
  what the kernel makes of it is not in this code.
* Leaks of memory (interface names, core structures of a failed insmod), and the
  cdev that is never deleted.
* `drivers.base.base.h` (a copied kernel header), `genz_routing_fabric.h`
  (declarations); `netlink/`, stand-alone experiments that the driver does not use;
  build files and the systemd unit.
