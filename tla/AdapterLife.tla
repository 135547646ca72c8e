---------------------------- MODULE AdapterLife ----------------------------
(***************************************************************************)
(* The life of an adapter: FEE_init_one() and FEE_remove_one() of          *)
(* fee_pci.c with FEE_adapter_create(), FEE_adapter_destroy() and          *)
(* mapBARs() of fee_adapter.c and FEE_ISR_setup() and FEE_ISR_teardown()   *)
(* of fee_MSI-X.c; FEE_register() and FEE_unregister() of fee_register.c,  *)
(* called by insmod and rmmod of the bridge driver (gf_bridge_init(),      *)
(* gf_bridge_exit()).                                                      *)
(*                                                                         *)
(* The PCI core (external) probes and removes one device under its lock,   *)
(* different devices at the same time.  One more thread loads and unloads  *)
(* the bridge module.  They share FEE_adapter_list, its semaphore and the  *)
(* core structure.  Any call that can fail may fail at any time; the       *)
(* events in Faults happen only in instances that name them.               *)
(***************************************************************************)
EXTENDS Integers, FiniteSets

CONSTANTS
  Devices,    \* PCI devices
  Adapters,   \* struct FEE_adapters; a name is reused once nothing refers to it
  Cores,      \* core structures, one per insmod of the bridge: bounds insmods
  nClients, nEvents,   \* of struct FEE_globals
  OnlySlots,  \* the bridge's parameter onlySlot: devices, or NULL for all
  MaxSema,    \* bounds the interrupted down()s: up to which value of the semaphore
  Faults,     \* events that may happen, of FaultKinds
  NULL

\* The first message is not sent; a signal during the down() of probe or of
\* remove, or of the bridge's exit; a device without pdev->slot; a device
\* unbound while the bridge uses it; a binding that fails.
FaultKinds == {"send", "probe_signal", "exit_signal", "noslot", "unplug", "chrdev"}

ASSUME AdapterLifeAssumption ==
  /\ nClients \in Nat /\ nEvents \in Nat \ {0} /\ MaxSema \in Nat
  /\ Faults \subseteq FaultKinds
  /\ OnlySlots \subseteq Devices \cup {NULL}
  /\ NULL \notin Devices \cup Adapters \cup Cores \cup {"dev", "err"}

VARIABLES
  pc,          \* of each device: where its probe or remove is
  adapter,     \* drvdata of each device: its adapter, or NULL
  held,        \* of each device: what was acquired and not yet released
  irqs, last,  \* of each device: vectors requested, and last_irq_index
  live,        \* the adapters that are allocated
  overfreed,   \* what was released while it was not held
  list, sema,  \* FEE_adapter_list and FEE_adapter_sema
  core,        \* of each adapter: adapter->core
  chrdev,      \* of each adapter: genz_chrdev: NULL, "dev" or "err"
  registered,  \* adapters that are the private data of a character device
  cores,       \* the core structures that are allocated
  bpc, todo,   \* the bridge's thread, and the adapters it has yet to walk to
  onlySlot, nbindings, bcore,  \* its parameter, count and core structure
  shared,      \* history: the core structures several adapters were bound to
  fault        \* the kind of fault this behaviour may meet, or NULL

devVars    == <<adapter, held, irqs, last, live, overfreed>>
listVars   == <<list, sema>>
bindVars   == <<core, chrdev, registered, cores>>
bridgeVars == <<bpc, todo, onlySlot, nbindings, bcore, shared>>
vars == <<pc, devVars, listVars, bindVars, bridgeVars, fault>>

Resources == {"enabled", "regions", "regs", "globals", "table", "vectors"}
Vectors   == 0 .. nEvents - 1

Init ==
  /\ pc = [d \in Devices |-> "unbound"]
  /\ adapter = [d \in Devices |-> NULL]
  /\ held = [d \in Devices |-> {}]
  /\ irqs = [d \in Devices |-> {}] /\ last = [d \in Devices |-> 0]
  /\ live = {} /\ overfreed = {}
  /\ list = {} /\ sema = 1
  /\ core = [a \in Adapters |-> NULL] /\ chrdev = [a \in Adapters |-> NULL]
  /\ registered = {} /\ cores = {}
  /\ bpc = "out" /\ todo = {} /\ onlySlot = NULL /\ nbindings = 0 /\ bcore = NULL
  /\ shared = {}
  /\ fault \in Faults \cup {NULL}

\* Does a fault of this kind happen now?  It may, any number of times.
Happens(kind) == {FALSE, (fault = kind)}

-----------------------------------------------------------------------------
(***************************************************************************)
(* Steps of a probe or a remove: from one place to the next, acquiring or  *)
(* releasing something on the way.                                         *)
(***************************************************************************)
Step(d, from, to) == pc[d] = from /\ pc' = [pc EXCEPT ![d] = to] /\ UNCHANGED fault

Skip(d, from, to) ==
  Step(d, from, to) /\ UNCHANGED <<devVars, listVars, bindVars, bridgeVars>>

Acquire(d, from, to, r) ==
  /\ Step(d, from, to)
  /\ held' = [held EXCEPT ![d] = @ \cup {r}]
  /\ UNCHANGED <<adapter, irqs, last, live, overfreed, listVars, bindVars, bridgeVars>>

Free(d, rs) ==
  /\ held' = [held EXCEPT ![d] = @ \ rs]
  /\ overfreed' = overfreed \cup (rs \ held[d])

Release(d, from, to, rs) ==
  /\ Step(d, from, to)
  /\ Free(d, rs)
  /\ UNCHANGED <<adapter, irqs, last, live, listVars, bindVars, bridgeVars>>

\* The mappings go if there are any, the regions in any case.
unmapBARs(d) == {"regions"} \cup (held[d] \cap {"regs", "globals"})

genz_core_structure_destroy(c) == cores' = cores \ {c}

\* The core structure an adapter refers to was freed.
CoreFreed(a) == core[a] \notin cores \cup {NULL}

\* The mappings and drvdata go first, and the table of vectors.
Dismantle(d) ==
  /\ held' = [held EXCEPT ![d] = @ \ (unmapBARs(d) \cup {"table"})]
  /\ adapter' = [adapter EXCEPT ![d] = NULL]

\* FEE_adapter_destroy(): a failed create has left no adapter to destroy.  A
\* core structure that was freed is looked into: that may be the end of the
\* thread, with the adapter still allocated, or it is freed once more.
FEE_adapter_destroy(d, from, to) ==
  LET a == adapter[d] IN
  \/ a = NULL /\ Skip(d, from, to)
  \/ /\ a # NULL
     /\ Step(d, from, to)
     /\ Dismantle(d)
     /\ overfreed' = overfreed \cup (unmapBARs(d) \ held[d]) \cup {r \in {"core"} : CoreFreed(a)}
     /\ genz_core_structure_destroy(core[a])
     /\ core' = [core EXCEPT ![a] = NULL]
     /\ chrdev' = [chrdev EXCEPT ![a] = NULL]
     /\ live' = live \ {a}
     /\ UNCHANGED <<irqs, last, listVars, registered, bridgeVars>>
  \/ /\ a # NULL /\ CoreFreed(a)
     /\ Step(d, from, "oops")
     /\ Dismantle(d)
     /\ overfreed' = overfreed \cup (unmapBARs(d) \ held[d])
     /\ UNCHANGED <<irqs, last, live, listVars, bindVars, bridgeVars>>

-----------------------------------------------------------------------------
(***************************************************************************)
(* FEE_adapter_create().                                                   *)
(***************************************************************************)
Unused(a) == a \notin live \cup list \cup registered

Kzalloc(d, a) ==
  /\ Step(d, "create", "regions")
  /\ Unused(a)
  /\ live' = live \cup {a}
  /\ adapter' = [adapter EXCEPT ![d] = a]
  /\ UNCHANGED <<held, irqs, last, overfreed, listVars, bindVars, bridgeVars>>

\* A failure of iomap unmaps at once, and FEE_adapter_destroy() does it again.
mapBARs(d) ==
  \/ Acquire(d, "regions", "regs", "regions")
  \/ Skip(d, "regions", "uncreate")
  \/ Acquire(d, "regs", "globals", "regs")
  \/ Acquire(d, "globals", "params", "globals")
  \/ \E here \in {"regs", "globals"} : Release(d, here, "uncreate", unmapBARs(d))

\* "params": the offset, the slot size, my_slot and the peer id must agree.
FEE_adapter_create(d) ==
  \/ \E a \in Adapters : Kzalloc(d, a)
  \/ Skip(d, "create", "disable")
  \/ mapBARs(d)
  \/ \E to \in {"table", "uncreate"} : Skip(d, "params", to)
  \/ FEE_adapter_destroy(d, "uncreate", "disable")

-----------------------------------------------------------------------------
(***************************************************************************)
(* FEE_ISR_setup() and FEE_ISR_teardown().                                 *)
(***************************************************************************)
\* Mutant: the loop goes one vector too far.
RequestIrqOneMore(d) ==
  /\ Step(d, "request", "request")
  /\ last[d] <= nEvents
  /\ irqs' = [irqs EXCEPT ![d] = @ \cup {last[d]}]
  /\ last' = [last EXCEPT ![d] = @ + 1]
  /\ UNCHANGED <<adapter, held, live, overfreed, listVars, bindVars, bridgeVars>>

RequestIrq(d) ==
  /\ Step(d, "request", "request")
  /\ last[d] < nEvents
  /\ irqs' = [irqs EXCEPT ![d] = @ \cup {last[d]}]
  /\ last' = [last EXCEPT ![d] = @ + 1]
  /\ UNCHANGED <<adapter, held, live, overfreed, listVars, bindVars, bridgeVars>>

\* Mutant: the loop over the completed requests starts at 1.
FreeCompletedIrqsFrom1(d) ==
  /\ Step(d, "request", "freevectors")
  /\ irqs' = [irqs EXCEPT ![d] = @ \ (1 .. last[d] - 1)]
  /\ last' = [last EXCEPT ![d] = 0]
  /\ UNCHANGED <<adapter, held, live, overfreed, listVars, bindVars, bridgeVars>>

\* A request_irq() failed (or, before the first, a pci_irq_vector()).
FreeCompletedIrqs(d) ==
  /\ Step(d, "request", "freevectors")
  /\ irqs' = [irqs EXCEPT ![d] = @ \ (0 .. last[d] - 1)]
  /\ last' = [last EXCEPT ![d] = 0]
  /\ UNCHANGED <<adapter, held, live, overfreed, listVars, bindVars, bridgeVars>>

\* "table": the vector count does not do, or there is no memory for the table.
FEE_ISR_setup(d) ==
  \/ Skip(d, "table", "disable")
  \/ Acquire(d, "table", "vectors", "table")
  \/ Skip(d, "vectors", "freetable")
  \/ Acquire(d, "vectors", "request", "vectors")
  \/ RequestIrq(d)
  \/ last[d] = nEvents /\ Skip(d, "request", "down")
  \/ last[d] < nEvents /\ FreeCompletedIrqs(d)
  \/ Release(d, "freevectors", "freetable", {"vectors"})
  \/ Release(d, "freetable", "disable", {"table"})

\* Mutant: one vector too many.
TeardownVectorsLong  == 0 .. nClients + 2

\* for (i = 0; i < adapter->globals->nClients + 2; i++)
TeardownVectors == 0 .. nClients + 1

FEE_ISR_teardown(d, from, to) ==
  /\ Step(d, from, to)
  /\ IF "table" \notin held[d] THEN UNCHANGED <<held, irqs, last, overfreed>> ELSE
       /\ held' = [held EXCEPT ![d] = @ \ {"vectors", "table"}]
       /\ irqs' = [irqs EXCEPT ![d] = @ \ TeardownVectors]
       /\ last' = [last EXCEPT ![d] = 0]
       /\ overfreed' = overfreed \cup {r \in {"irq"} : ~ TeardownVectors \subseteq irqs[d]}
  /\ UNCHANGED <<adapter, live, listVars, bindVars, bridgeVars>>

-----------------------------------------------------------------------------
(***************************************************************************)
(* FEE_init_one(), the probe, and FEE_remove_one().  Both ignore that      *)
(* down_interruptible() was interrupted, and call up() all the same.       *)
(***************************************************************************)
DownIgnoringSignals(d, from, to) ==
  /\ Step(d, from, to)
  /\ \E interrupted \in Happens("probe_signal") :
       /\ IF interrupted THEN sema < MaxSema ELSE sema > 0
       /\ sema' = IF interrupted THEN sema ELSE sema - 1
  /\ UNCHANGED <<list, devVars, bindVars, bridgeVars>>

up == sema' = sema + 1

SomeOops == bpc = "oops" \/ \E d \in Devices : pc[d] = "oops"

\* Walking to an adapter that was freed is the end of the thread.
WalkOops(d, from) == ~ list \subseteq live /\ Skip(d, from, "oops")

\* Who is between the down() and the up() of FEE_adapter_sema.
Walkers == {d \in Devices : pc[d] \in {"walk", "rdel"}}
           \cup {b \in {NULL} : bpc \in {"bind", "unbind"}}

\* A change of the list may be lost when another thread is at it, too.
ChangeList(new) == list' \in {new} \cup {old \in {list} : Cardinality(Walkers) > 1}

\* Mutant: returns without the up().
ListAddKeepsSema(d) ==
  /\ list \subseteq live /\ Step(d, "walk", "send")
  /\ list' = list \cup {adapter[d]}
  /\ UNCHANGED <<sema, devVars, bindVars, bridgeVars>>

\* Nobody finds its device on the list already.
ListAdd(d) ==
  /\ list \subseteq live /\ Step(d, "walk", "send")
  /\ ChangeList(list \cup {adapter[d]})
  /\ up
  /\ UNCHANGED <<devVars, bindVars, bridgeVars>>

\* The first message, and UPDATE_SWITCH() when it was sent.
SendFirst(d) ==
  \E failed \in Happens("send") :
    Skip(d, "send", IF failed THEN "teardown" ELSE "bound")

\* Mutant: a failed probe leaves the device enabled.
DisableForgotten(d) == Skip(d, "disable", "destroy")

DisableDevice(d) == Release(d, "disable", "destroy", {"enabled"})

\* pci_enable_device().
EnableDevice(d) ==
  \/ pc[d] = "unbound" /\ UNCHANGED vars    \* it failed
  \/ Acquire(d, "unbound", "features", "enabled")

\* "features": the test for a device with IVSHMSG features.
FEE_init_one(d) ==
  \/ \E to \in {"create", "disable"} : Skip(d, "features", to)
  \/ FEE_adapter_create(d) \/ FEE_ISR_setup(d)
  \/ DownIgnoringSignals(d, "down", "walk") \/ ListAdd(d) \/ WalkOops(d, "walk")
  \/ SendFirst(d)
  \/ FEE_ISR_teardown(d, "teardown", "disable")
  \/ DisableDevice(d)
  \/ FEE_adapter_destroy(d, "destroy", "unbound")

\* pdev->slot is followed without a test.  rmmod is refused while the bridge
\* module uses this one; unbinding the device through sysfs is not.
RemoveStart(d) ==
  /\ fault = "unplug" \/ bpc = "out"
  /\ \E slotless \in Happens("noslot") :
       Skip(d, "bound", IF slotless THEN "oops" ELSE "rteardown")

\* Mutant: the adapter stays on the list.
ListDelForgotten(d) ==
  /\ list \subseteq live /\ Step(d, "rdel", "rdestroy")
  /\ up
  /\ UNCHANGED <<list, devVars, bindVars, bridgeVars>>

ListDel(d) ==
  /\ list \subseteq live /\ Step(d, "rdel", "rdestroy")
  /\ ChangeList(list \ {adapter[d]})
  /\ up
  /\ UNCHANGED <<devVars, bindVars, bridgeVars>>

FEE_remove_one(d) ==
  \/ FEE_ISR_teardown(d, "rteardown", "rdisable")
  \/ Release(d, "rdisable", "rdown", {"enabled"})
  \/ DownIgnoringSignals(d, "rdown", "rdel") \/ ListDel(d) \/ WalkOops(d, "rdel")
  \/ FEE_adapter_destroy(d, "rdestroy", "unbound")

-----------------------------------------------------------------------------
(***************************************************************************)
(* The bridge module: gf_bridge_init() creates a core structure and calls  *)
(* FEE_register(), gf_bridge_exit() calls FEE_unregister().  "out" is a    *)
(* module that is not loaded, or whose init failed.                        *)
(***************************************************************************)
Removing == {"rteardown", "rdisable", "rdown", "rdel", "rdestroy"}

genz_core_structure_create(c) == cores' = cores \cup {c}

gf_bridge_init(c, s) ==
  /\ bpc = "out"
  /\ fault = "unplug" \/ \A d \in Devices : pc[d] \notin Removing
  /\ c \notin cores \cup shared /\ \A a \in Adapters : core[a] # c
  /\ genz_core_structure_create(c)
  /\ bcore' = c /\ onlySlot' = s /\ nbindings' = 0
  /\ bpc' = "register"
  /\ UNCHANGED <<pc, fault, devVars, listVars, core, chrdev, registered, todo, shared>>

\* down_interruptible(), with its result respected: insmod fails, rmmod goes
\* on without an unregistration.
BridgeDown(from, to) ==
  /\ bpc = from /\ bpc' = to
  /\ sema > 0 /\ sema' = sema - 1
  /\ todo' = list
  /\ UNCHANGED <<pc, fault, devVars, list, bindVars, onlySlot, nbindings, bcore, shared>>

Interruptible == {"register"} \cup {p \in {"unregister"} : fault = "exit_signal"}

BridgeInterrupted(from) ==
  /\ bpc = from /\ bpc' = "out"
  /\ UNCHANGED <<pc, fault, devVars, listVars, bindVars, todo, onlySlot, nbindings, bcore, shared>>

Bound(a) == /\ chrdev' = [chrdev EXCEPT ![a] = "dev"]
            /\ registered' = registered \cup {a}
            /\ core' = [core EXCEPT ![a] = bcore]
            /\ nbindings' = nbindings + 1
            /\ shared' = shared \cup {c \in {bcore} : nbindings > 0}
            /\ UNCHANGED <<bpc, sema>>

\* The ERR_PTR stays in genz_chrdev, and so does what was bound before.
BindFailed(a) == /\ chrdev' = [chrdev EXCEPT ![a] = "err"]
                 /\ bpc' = "out"
                 /\ up
                 /\ UNCHANGED <<registered, core, nbindings, shared>>

SkipSlot(a) == onlySlot # NULL /\ adapter[onlySlot] # a

\* One turn of FEE_register()'s loop: it follows the adapter and, for a device
\* of its slot, the core structure.
Bind(a) ==
  /\ bpc = "bind" /\ a \in todo
  /\ todo' = todo \ {a}
  /\ \/ /\ a \notin live \/ (~ SkipSlot(a) /\ bcore \notin cores)
        /\ bpc' = "oops"
        /\ UNCHANGED <<core, chrdev, registered, nbindings, sema, shared>>
     \/ /\ a \in live /\ SkipSlot(a)
        /\ UNCHANGED <<bpc, core, chrdev, registered, nbindings, sema, shared>>
     \/ /\ a \in live /\ ~ SkipSlot(a)
        /\ \E failed \in Happens("chrdev") : IF failed THEN BindFailed(a) ELSE Bound(a)
  /\ UNCHANGED <<pc, fault, devVars, list, cores, onlySlot, bcore>>

\* gf_bridge_init() succeeds when something was bound.
RegisterDone ==
  /\ bpc = "bind" /\ todo = {}
  /\ bpc' = IF nbindings > 0 THEN "in" ELSE "out"
  /\ up
  /\ UNCHANGED <<pc, fault, devVars, list, bindVars, todo, onlySlot, nbindings, bcore, shared>>

gf_bridge_exit ==
  /\ bpc = "in" /\ bpc' = "unregister"
  /\ UNCHANGED <<pc, fault, devVars, listVars, bindVars, todo, onlySlot, nbindings, bcore, shared>>

\* Mutant: the first adapter that is not bound ends the walk.
UnbindStopsEarly(a) ==
  /\ bpc = "unbind" /\ a \in todo
  /\ todo' = IF chrdev[a] = NULL THEN {} ELSE todo \ {a}
  /\ chrdev' = [chrdev EXCEPT ![a] = NULL]
  /\ registered' = registered \ {a}
  /\ UNCHANGED <<pc, fault, devVars, listVars, core, cores, bpc, onlySlot, nbindings, bcore, shared>>

\* Mutant: frees the core structure, too, and leaves adapter->core as it is.
UnbindFreesCore(a) ==
  /\ bpc = "unbind" /\ a \in todo
  /\ todo' = todo \ {a}
  /\ cores' = IF chrdev[a] = NULL THEN cores ELSE cores \ {core[a]}
  /\ chrdev' = [chrdev EXCEPT ![a] = NULL]
  /\ registered' = registered \ {a}
  /\ UNCHANGED <<pc, fault, devVars, listVars, core, bpc, onlySlot, nbindings, bcore, shared>>

\* One turn of FEE_unregister()'s loop: it takes an ERR_PTR for a device, and
\* follows the core structure of a device that is bound.
Unbind(a) ==
  /\ bpc = "unbind" /\ a \in todo
  /\ todo' = todo \ {a}
  /\ \/ /\ a \notin live \/ chrdev[a] = "err" \/ (chrdev[a] = "dev" /\ CoreFreed(a))
        /\ bpc' = "oops"
        /\ UNCHANGED <<chrdev, registered>>
     \/ /\ a \in live /\ chrdev[a] # "err"
        /\ chrdev' = [chrdev EXCEPT ![a] = NULL]
        /\ registered' = registered \ {a}
        /\ UNCHANGED bpc
  /\ UNCHANGED <<pc, fault, devVars, listVars, core, cores, onlySlot, nbindings, bcore, shared>>

UnregisterDone ==
  /\ bpc = "unbind" /\ todo = {}
  /\ bpc' = "out"
  /\ up
  /\ UNCHANGED <<pc, fault, devVars, list, bindVars, todo, onlySlot, nbindings, bcore, shared>>

FEE_register ==
  BridgeDown("register", "bind") \/ (\E a \in Adapters : Bind(a)) \/ RegisterDone

FEE_unregister ==
  BridgeDown("unregister", "unbind") \/ (\E a \in Adapters : Unbind(a)) \/ UnregisterDone

Bridge ==
  \/ \E c \in Cores, s \in OnlySlots : gf_bridge_init(c, s)
  \/ gf_bridge_exit
  \/ \E from \in Interruptible : BridgeInterrupted(from)
  \/ FEE_register \/ FEE_unregister

Next ==
  \/ \E d \in Devices : EnableDevice(d) \/ FEE_init_one(d)
                         \/ RemoveStart(d) \/ FEE_remove_one(d)
  \/ Bridge

Spec == Init /\ [][Next]_vars

-----------------------------------------------------------------------------
PCs == {"unbound", "features", "create", "regions", "regs", "globals", "params",
        "uncreate", "table", "vectors", "request", "freevectors", "freetable",
        "down", "walk", "send", "teardown", "disable", "destroy", "bound", "oops"}
       \cup Removing

\* Every variable has its type; no vector is requested past the last one.
TypeOK ==
  /\ pc \in [Devices -> PCs]
  /\ adapter \in [Devices -> Adapters \cup {NULL}]
  /\ held \in [Devices -> SUBSET Resources]
  /\ irqs \in [Devices -> SUBSET Vectors] /\ last \in [Devices -> 0 .. nEvents]
  /\ live \subseteq Adapters
  /\ overfreed \subseteq Resources \cup {"irq", "core"}
  /\ list \subseteq Adapters /\ sema \in Nat
  /\ core \in [Adapters -> Cores \cup {NULL}]
  /\ chrdev \in [Adapters -> {NULL, "dev", "err"}]
  /\ registered \subseteq Adapters /\ cores \subseteq Cores
  /\ bpc \in {"out", "register", "bind", "in", "unregister", "unbind", "oops"}
  /\ todo \subseteq Adapters /\ onlySlot \in Devices \cup {NULL}
  /\ nbindings \in Nat /\ bcore \in Cores \cup {NULL} /\ shared \subseteq Cores \cup {NULL}
  /\ fault \in Faults \cup {NULL}

(* "There is no disable control on this device, hope one doesn't fire": as *)
(* long as any vector is requested all_msix() may run, and it finds an     *)
(* adapter that is allocated, its registers and its mailslots mapped, and  *)
(* the table of vectors. For a link request it also follows adapter->core, *)
(* which is NULL until FEE_register() binds the adapter (a link request    *)
(* that comes earlier is not served, it oopses) and then a structure that  *)
(* exists, unless one insmod had bound several adapters to it (see         *)
(* CoreLive). So no error path and no remove unmaps or frees what the      *)
(* device's own handler uses while a vector is left, whatever else goes    *)
(* wrong.                                                                  *)
IsrSafe ==
  \A d \in Devices : irqs[d] # {} =>
    /\ adapter[d] \in live
    /\ {"regs", "globals", "table", "vectors"} \subseteq held[d]
    /\ core[adapter[d]] \in cores \cup {NULL} \cup shared

(* A probe is all or nothing: a device that is not bound, whichever of the *)
(* calls of its probe failed, holds no resource, no vector and no adapter; *)
(* one that is bound has all of them, and is on the list unless an ignored *)
(* signal let two threads change the list at once.                         *)
AllOrNothing ==
  \A d \in Devices :
    /\ pc[d] = "unbound" => held[d] = {} /\ irqs[d] = {} /\ adapter[d] = NULL
    /\ pc[d] = "bound" => /\ held[d] = Resources /\ irqs[d] = Vectors
                          /\ adapter[d] \in live
                          /\ adapter[d] \in list \/ fault = "probe_signal"

(* Nothing is released that is not held, but for the regions, of which the *)
(* code says "May have be done, doesn't hurt", and the core structure that *)
(* adapters share (see CoreLive).                                          *)
ReleasedOnce == overfreed \subseteq {"regions", "core"}

(* Multiple devices "accepted by FEE_init_one()" are on the list: what     *)
(* FEE_register() and the others walk to is an adapter that exists.  Two   *)
(* faults break it: a first message that is not sent frees the adapter on  *)
(* the list, and an ignored signal lets a list_del() be lost.              *)
ListedLive == fault \in {"send", "probe_signal"} \/ list \subseteq live

(* The semaphore is free or has one holder, which gives it back on every   *)
(* way out: the list is walked and changed by one thread at a time, and    *)
(* nobody waits for an up() that was forgotten.  There are two exceptions: *)
(* down_interruptible() with its result ignored, and a thread that oopsed  *)
(* with the semaphore in hand, after which nobody gets to the list.        *)
ListExclusive ==
  \/ fault = "probe_signal"
  \/ sema + Cardinality(Walkers) = 1
  \/ sema = 0 /\ Walkers = {} /\ SomeOops

(* No probe, remove, insmod or rmmod follows a bad pointer, to an adapter, *)
(* a device, a slot or a core structure, unless a fault of these kinds     *)
(* happens or a core structure that several adapters share was freed (see  *)
(* CoreLive).  Unbinding a device in use and an interrupted rmmod are none *)
(* of them: a core structure of one adapter is gone only when the adapter  *)
(* is, and nobody walks to that.                                           *)
NeverOops ==
  \/ fault \in {"send", "probe_signal", "noslot", "chrdev"}
  \/ ~ shared \subseteq cores
  \/ ~ SomeOops

(* rmmod of the bridge will "Unbind this driver set from any registered    *)
(* bindings": no character device is left whose operations were in it.     *)
(* Nor is one left by an insmod that fails, unless a binding failed.       *)
BridgeGone ==
  \/ fault \in {"exit_signal", "unplug", "chrdev"}
  \/ bpc = "out" => registered = {}

(* The core structure, an adapter's "Primary data structure", exists as    *)
(* long as the adapter does.                                               *)
CoreLive == \A a \in live : core[a] \in cores \cup {NULL}
=============================================================================
