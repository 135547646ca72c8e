-------------------------- MODULE AdapterLifeProofs --------------------------
(***************************************************************************)
(* Theorems about AdapterLife for every number of devices, adapters, core  *)
(* structures, vectors and insmods, under every kind of fault.             *)
(***************************************************************************)
EXTENDS AdapterLife, TLAPS, FiniteSetTheorems

\* A step of the probe or of the remove of device d, and of the PCI core.
DeviceStep(d) == EnableDevice(d) \/ FEE_init_one(d) \/ RemoveStart(d) \/ FEE_remove_one(d)

-----------------------------------------------------------------------------
(***************************************************************************)
(* The table: what a device has at each place of its probe and its remove. *)
(* By the time it is armed every vector is requested; the adapter goes     *)
(* last, and it is the device's own.                                       *)
(***************************************************************************)
Mapped == {"enabled", "regions", "regs", "globals"}
Bare   == {"unbound", "features", "create"}
Armed  == {"down", "walk", "send", "teardown", "bound", "rteardown"}

AdapterTable(d) ==
  /\ pc[d] \in Bare => adapter[d] = NULL
  /\ pc[d] \in {"disable", "destroy", "oops"} => adapter[d] \in live \cup {NULL}
  /\ pc[d] \notin Bare \cup {"disable", "destroy", "oops"} => adapter[d] \in live

HeldTable(d) ==
  /\ pc[d] = "unbound" => held[d] = {}
  /\ pc[d] \in {"features", "create", "regions"} => held[d] = {"enabled"}
  /\ pc[d] = "regs" => held[d] = {"enabled", "regions"}
  /\ pc[d] = "globals" => held[d] = {"enabled", "regions", "regs"}
  /\ pc[d] \in {"params", "table", "rdisable"} => held[d] = Mapped
  /\ pc[d] = "uncreate" => held[d] \in {{"enabled"}, Mapped}
  /\ pc[d] \in {"vectors", "freetable"} => held[d] = Mapped \cup {"table"}
  /\ pc[d] \in Armed \cup {"request", "freevectors"} => held[d] = Resources
  /\ pc[d] = "disable" => held[d] = IF adapter[d] = NULL THEN {"enabled"} ELSE Mapped
  /\ pc[d] = "destroy" => held[d] = IF adapter[d] = NULL THEN {} ELSE Mapped \ {"enabled"}
  /\ pc[d] \in {"rdown", "rdel", "rdestroy"} => held[d] = Mapped \ {"enabled"}

IrqTable(d) ==
  /\ pc[d] \in Armed => irqs[d] = Vectors
  /\ pc[d] = "request" => irqs[d] = 0 .. last[d] - 1
  /\ pc[d] \notin Armed \cup {"request", "oops"} => irqs[d] = {} /\ last[d] = 0
  /\ pc[d] = "oops" => irqs[d] = {} \/ (held[d] = Resources /\ adapter[d] \in live)

OwnAdapter == \A d, e \in Devices : adapter[d] = adapter[e] /\ adapter[d] # NULL => d = e

\* Everything but the types that does not depend on the number of vectors.
Owned == OwnAdapter /\ \A d \in Devices : AdapterTable(d)

\* What a step of one device leaves alone: the other devices, and the bridge.
OthersAlone(d) ==
  /\ \A e \in Devices \ {d} :
       /\ pc'[e] = pc[e] /\ adapter'[e] = adapter[e] /\ held'[e] = held[e]
       /\ irqs'[e] = irqs[e] /\ last'[e] = last[e]
  /\ live \ {adapter[d]} \subseteq live'
  /\ UNCHANGED <<bridgeVars, registered, fault>>

LEMMA DeviceFrame ==
  ASSUME TypeOK, NEW d \in Devices, DeviceStep(d)
  PROVE  OthersAlone(d)
<1>1. ASSUME NEW from, NEW to, Skip(d, from, to) PROVE OthersAlone(d)
  BY <1>1 DEF Skip, OthersAlone, TypeOK, Step, devVars, bindVars
<1>2. ASSUME NEW from, NEW to, NEW r, Acquire(d, from, to, r) PROVE OthersAlone(d)
  BY <1>2 DEF Acquire, OthersAlone, TypeOK, Step, devVars, bindVars
<1>3. ASSUME NEW from, NEW to, NEW rs, Release(d, from, to, rs) PROVE OthersAlone(d)
  BY <1>3 DEF Release, Free, OthersAlone, TypeOK, Step, devVars, bindVars
<1>4. ASSUME NEW from, NEW to, FEE_adapter_destroy(d, from, to) PROVE OthersAlone(d)
  BY <1>1, <1>4 DEF FEE_adapter_destroy, Dismantle, OthersAlone, TypeOK, Step, devVars, bindVars
<1>5. ASSUME NEW from, NEW to, FEE_ISR_teardown(d, from, to) PROVE OthersAlone(d)
  BY <1>5 DEF FEE_ISR_teardown, OthersAlone, TypeOK, Step, devVars, bindVars
<1>6. ASSUME NEW from, NEW to, DownIgnoringSignals(d, from, to) PROVE OthersAlone(d)
  BY <1>6 DEF DownIgnoringSignals, OthersAlone, TypeOK, Step, devVars, bindVars
<1>7. CASE ListAdd(d) \/ ListDel(d)
  BY <1>7 DEF ListAdd, ListDel, OthersAlone, TypeOK, Step, devVars, bindVars
<1>8. CASE FEE_adapter_create(d)
  <2>1. CASE \E a \in Adapters : Kzalloc(d, a)
    BY <2>1 DEF Kzalloc, OthersAlone, TypeOK, Step, devVars, bindVars
  <2> QED BY <1>1, <1>2, <1>3, <1>4, <1>8, <2>1 DEF FEE_adapter_create, mapBARs
<1>9. CASE FEE_ISR_setup(d)
  <2>1. CASE RequestIrq(d) \/ FreeCompletedIrqs(d)
    BY <2>1 DEF RequestIrq, FreeCompletedIrqs, OthersAlone, TypeOK, Step, devVars, bindVars
  <2> QED BY <1>1, <1>2, <1>3, <1>9, <2>1 DEF FEE_ISR_setup
<1>10. CASE EnableDevice(d) /\ UNCHANGED vars
  BY <1>10 DEF vars, OthersAlone, TypeOK, Step, devVars, bindVars
<1>11. CASE EnableDevice(d)
  BY <1>2, <1>10, <1>11 DEF EnableDevice
<1>12. CASE RemoveStart(d)
  BY <1>1, <1>12 DEF RemoveStart
<1>13. CASE FEE_init_one(d)
  BY <1>1, <1>3, <1>4, <1>5, <1>6, <1>7, <1>8, <1>9, <1>13
     DEF FEE_init_one, SendFirst, WalkOops, DisableDevice
<1>14. CASE FEE_remove_one(d)
  BY <1>1, <1>3, <1>4, <1>5, <1>6, <1>7, <1>14 DEF FEE_remove_one, WalkOops
<1> QED BY <1>11, <1>12, <1>13, <1>14 DEF DeviceStep

-----------------------------------------------------------------------------
(***************************************************************************)
(* Types.                                                                  *)
(***************************************************************************)
LEMMA TypeInit == Init => TypeOK
BY AdapterLifeAssumption
   DEF AdapterLifeAssumption, Init, TypeOK, PCs, Vectors

LEMMA TypeSkip ==
  ASSUME TypeOK, NEW d \in Devices, NEW from, NEW to \in PCs, Skip(d, from, to)
  PROVE  TypeOK'
BY DEF TypeOK, Skip, Step, devVars, listVars, bindVars, bridgeVars

LEMMA TypeAcquire ==
  ASSUME TypeOK, NEW d \in Devices, NEW from, NEW to \in PCs, NEW r \in Resources,
         Acquire(d, from, to, r)
  PROVE  TypeOK'
BY DEF TypeOK, Acquire, Step, listVars, bindVars, bridgeVars

LEMMA TypeRelease ==
  ASSUME TypeOK, NEW d \in Devices, NEW from, NEW to \in PCs, NEW rs \in SUBSET Resources,
         Release(d, from, to, rs)
  PROVE  TypeOK'
BY DEF TypeOK, Release, Free, Step, listVars, bindVars, bridgeVars

LEMMA TypeDestroy ==
  ASSUME TypeOK, NEW d \in Devices, NEW from, NEW to \in PCs,
         FEE_adapter_destroy(d, from, to)
  PROVE  TypeOK'
<1>1. CASE adapter[d] = NULL /\ Skip(d, from, to)
  BY <1>1, TypeSkip
<1>2. CASE adapter[d] # NULL
  <2>1. adapter[d] \in Adapters
    BY <1>2 DEF TypeOK
  <2>2. unmapBARs(d) \subseteq Resources
    BY DEF unmapBARs, Resources
  <2>3. held' \in [Devices -> SUBSET Resources]
    BY <1>2 DEF TypeOK, FEE_adapter_destroy, Dismantle
  <2>4. overfreed' \subseteq Resources \cup {"irq", "core"}
    BY <1>2, <2>2 DEF TypeOK, FEE_adapter_destroy, Dismantle
  <2>5. adapter' \in [Devices -> Adapters \cup {NULL}] /\ pc' \in [Devices -> PCs]
    BY <1>2 DEF TypeOK, FEE_adapter_destroy, Dismantle, Step, PCs
  <2> QED
    BY <1>2, <2>1, <2>3, <2>4, <2>5
       DEF TypeOK, FEE_adapter_destroy, genz_core_structure_destroy, Step,
           listVars, bindVars, bridgeVars
<1> QED BY <1>1, <1>2 DEF FEE_adapter_destroy, Dismantle

LEMMA TypeTeardown ==
  ASSUME TypeOK, NEW d \in Devices, NEW from, NEW to \in PCs,
         FEE_ISR_teardown(d, from, to)
  PROVE  TypeOK'
<1>1. 0 \in 0 .. nEvents
  BY AdapterLifeAssumption DEF AdapterLifeAssumption
<1> QED
  BY <1>1 DEF TypeOK, FEE_ISR_teardown, Step, listVars, bindVars, bridgeVars

LEMMA TypeDown ==
  ASSUME TypeOK, NEW d \in Devices, NEW from, NEW to \in PCs,
         DownIgnoringSignals(d, from, to)
  PROVE  TypeOK'
BY DEF TypeOK, DownIgnoringSignals, Happens, Step, devVars, bindVars, bridgeVars

LEMMA TypeCreate ==
  ASSUME TypeOK, NEW d \in Devices, FEE_adapter_create(d)
  PROVE  TypeOK'
<1>1. CASE \E a \in Adapters : Kzalloc(d, a)
  BY <1>1 DEF Kzalloc, TypeOK, PCs, Step, listVars, bindVars, bridgeVars
<1>2. CASE mapBARs(d)
  <2>1. unmapBARs(d) \in SUBSET Resources
    BY DEF unmapBARs, Resources
  <2> QED
    BY <1>2, <2>1, TypeSkip, TypeAcquire, TypeRelease DEF mapBARs, PCs, Resources
<1>3. CASE \/ Skip(d, "create", "disable")
           \/ \E to \in {"table", "uncreate"} : Skip(d, "params", to)
           \/ FEE_adapter_destroy(d, "uncreate", "disable")
  BY <1>3, TypeSkip, TypeDestroy DEF PCs
<1> QED BY <1>1, <1>2, <1>3 DEF FEE_adapter_create

LEMMA TypeSetup ==
  ASSUME TypeOK, NEW d \in Devices, FEE_ISR_setup(d)
  PROVE  TypeOK'
<1>0. nEvents \in Nat /\ last[d] \in 0 .. nEvents
  BY AdapterLifeAssumption DEF AdapterLifeAssumption, TypeOK
<1>1. CASE RequestIrq(d)
  <2>1. irqs' \in [Devices -> SUBSET Vectors] /\ last' \in [Devices -> 0 .. nEvents]
    BY <1>0, <1>1 DEF RequestIrq, TypeOK, Vectors
  <2> QED
    BY <1>1, <2>1 DEF RequestIrq, TypeOK, PCs, Step, listVars, bindVars, bridgeVars
<1>2. CASE FreeCompletedIrqs(d)
  <2>1. irqs' \in [Devices -> SUBSET Vectors] /\ last' \in [Devices -> 0 .. nEvents]
    BY <1>0, <1>2 DEF FreeCompletedIrqs, TypeOK
  <2> QED
    BY <1>2, <2>1
       DEF FreeCompletedIrqs, TypeOK, PCs, Step, listVars, bindVars, bridgeVars
<1>3. CASE \/ Skip(d, "table", "disable") \/ Skip(d, "vectors", "freetable")
           \/ Skip(d, "request", "down")
           \/ Acquire(d, "table", "vectors", "table")
           \/ Acquire(d, "vectors", "request", "vectors")
           \/ Release(d, "freevectors", "freetable", {"vectors"})
           \/ Release(d, "freetable", "disable", {"table"})
  BY <1>3, TypeSkip, TypeAcquire, TypeRelease DEF PCs, Resources
<1> QED BY <1>1, <1>2, <1>3 DEF FEE_ISR_setup

LEMMA TypeDevice ==
  ASSUME TypeOK, NEW d \in Devices, AdapterTable(d), DeviceStep(d)
  PROVE  TypeOK'
<1>1. CASE EnableDevice(d)
  BY <1>1, TypeAcquire
     DEF EnableDevice, PCs, Resources, TypeOK, vars, devVars, listVars, bindVars, bridgeVars
<1>2. CASE ListAdd(d) \/ ListDel(d)
  <2>1. adapter[d] \in live
    BY <1>2 DEF ListAdd, ListDel, Step, AdapterTable, Bare
  <2>2. list' \subseteq Adapters
    BY <1>2, <2>1 DEF ListAdd, ListDel, ChangeList, TypeOK
  <2> QED
    BY <1>2, <2>2 DEF ListAdd, ListDel, up, TypeOK, PCs, Removing, Step,
                      devVars, bindVars, bridgeVars
<1>3. CASE RemoveStart(d)
  BY <1>3, TypeSkip DEF RemoveStart, PCs, Removing
<1>4. CASE SendFirst(d)
  BY <1>4, TypeSkip DEF SendFirst, PCs
<1>5. CASE FEE_init_one(d)
  BY <1>2, <1>4, <1>5, TypeSkip, TypeCreate, TypeSetup, TypeDown, TypeTeardown, TypeRelease,
     TypeDestroy DEF FEE_init_one, WalkOops, DisableDevice, PCs, Resources
<1>6. CASE FEE_remove_one(d)
  BY <1>2, <1>6, TypeSkip, TypeDown, TypeTeardown, TypeRelease, TypeDestroy
     DEF FEE_remove_one, WalkOops, PCs, Removing, Resources
<1> QED BY <1>1, <1>3, <1>5, <1>6 DEF DeviceStep

LEMMA TypeBridge ==
  ASSUME TypeOK, Bridge
  PROVE  TypeOK'
<1> USE DEF devVars, listVars, bindVars
<1>1. CASE \E c \in Cores, s \in OnlySlots : gf_bridge_init(c, s)
  BY <1>1, AdapterLifeAssumption
     DEF gf_bridge_init, genz_core_structure_create, TypeOK, AdapterLifeAssumption
<1>2. ASSUME NEW a \in Adapters, Bind(a) PROVE TypeOK'
  <2>1. CASE Bound(a)
    BY <1>2, <2>1 DEF Bind, Bound, TypeOK
  <2>2. CASE BindFailed(a)
    BY <1>2, <2>2 DEF Bind, BindFailed, up, TypeOK
  <2>3. CASE UNCHANGED <<core, chrdev, registered, nbindings, sema, shared>> /\ bpc' \in {bpc, "oops"}
    BY <1>2, <2>3 DEF Bind, TypeOK
  <2> QED BY <1>2, <2>1, <2>2, <2>3 DEF Bind
<1>3. CASE \E a \in Adapters : Unbind(a)
  BY <1>3 DEF Unbind, TypeOK
<1>4. CASE \/ BridgeDown("register", "bind") \/ BridgeDown("unregister", "unbind")
           \/ \E from \in Interruptible : BridgeInterrupted(from)
  BY <1>4 DEF BridgeDown, BridgeInterrupted, TypeOK
<1>5. CASE RegisterDone \/ UnregisterDone \/ gf_bridge_exit
  BY <1>5 DEF RegisterDone, UnregisterDone, gf_bridge_exit, up, TypeOK
<1> QED BY <1>1, <1>2, <1>3, <1>4, <1>5 DEF Bridge, FEE_register, FEE_unregister

-----------------------------------------------------------------------------
(***************************************************************************)
(* The adapter of a device.                                                *)
(***************************************************************************)
LEMMA AdapterStep ==
  ASSUME TypeOK, NEW d \in Devices, AdapterTable(d), DeviceStep(d)
  PROVE  AdapterTable(d)'
<1> USE DEF TypeOK, AdapterTable, Bare, Step, devVars
<1>1. CASE FEE_adapter_create(d)
  BY <1>1 DEF FEE_adapter_create, Kzalloc, mapBARs, Skip, Acquire, Release, FEE_adapter_destroy, Dismantle
<1>2. CASE FEE_ISR_setup(d)
  BY <1>2 DEF FEE_ISR_setup, RequestIrq, FreeCompletedIrqs, Skip, Acquire, Release
<1>3. CASE EnableDevice(d) \/ RemoveStart(d)
  BY <1>3 DEF EnableDevice, RemoveStart, Skip, Acquire, vars
<1>4. CASE FEE_init_one(d)
  BY <1>1, <1>2, <1>4
     DEF FEE_init_one, DownIgnoringSignals, ListAdd, WalkOops, SendFirst, FEE_ISR_teardown,
         DisableDevice, Release, Skip, FEE_adapter_destroy, Dismantle
<1>5. CASE FEE_remove_one(d)
  BY <1>5 DEF FEE_remove_one, DownIgnoringSignals, ListDel, WalkOops, FEE_ISR_teardown,
              Release, Skip, FEE_adapter_destroy, Dismantle
<1> QED BY <1>3, <1>4, <1>5 DEF DeviceStep

\* An adapter a device gets is one nobody has.
LEMMA NewAdapter ==
  ASSUME TypeOK, NEW d \in Devices, DeviceStep(d)
  PROVE  adapter'[d] \in {adapter[d], NULL} \/ adapter'[d] \notin live
<1> USE DEF TypeOK, devVars
<1>1. CASE FEE_adapter_create(d)
  BY <1>1 DEF FEE_adapter_create, Kzalloc, Unused, mapBARs, Skip, Acquire, Release,
              FEE_adapter_destroy, Dismantle
<1>2. CASE FEE_ISR_setup(d)
  BY <1>2 DEF FEE_ISR_setup, RequestIrq, FreeCompletedIrqs, Skip, Acquire, Release
<1>3. CASE EnableDevice(d) \/ RemoveStart(d)
  BY <1>3 DEF EnableDevice, RemoveStart, Skip, Acquire, vars
<1>4. CASE FEE_init_one(d)
  BY <1>1, <1>2, <1>4
     DEF FEE_init_one, DownIgnoringSignals, ListAdd, WalkOops, SendFirst, FEE_ISR_teardown,
         DisableDevice, Release, Skip, FEE_adapter_destroy, Dismantle
<1>5. CASE FEE_remove_one(d)
  BY <1>5 DEF FEE_remove_one, DownIgnoringSignals, ListDel, WalkOops, FEE_ISR_teardown,
              Release, Skip, FEE_adapter_destroy, Dismantle
<1> QED BY <1>3, <1>4, <1>5 DEF DeviceStep

LEMMA OwnedDevice ==
  ASSUME TypeOK, Owned, NEW d \in Devices, DeviceStep(d)
  PROVE  Owned'
<1>1. AdapterTable(d)'
  BY AdapterStep DEF Owned
<1>2. \A e \in Devices \ {d} : adapter[e] # adapter[d] \/ adapter[e] = NULL
  BY DEF Owned, OwnAdapter
<1>3. \A e \in Devices : adapter[e] \in live \cup {NULL}
  BY DEF Owned, AdapterTable
<1>4. ASSUME NEW e \in Devices \ {d} PROVE AdapterTable(e)'
  <2>1. pc'[e] = pc[e] /\ adapter'[e] = adapter[e] /\ live \ {adapter[d]} \subseteq live'
    BY DeviceFrame DEF OthersAlone
  <2>2. AdapterTable(e) /\ (adapter[e] = NULL \/ adapter[e] # adapter[d])
    BY <1>2 DEF Owned
  <2>3. NULL \notin live
    BY AdapterLifeAssumption DEF AdapterLifeAssumption, TypeOK
  <2> QED BY <2>1, <2>2, <2>3 DEF AdapterTable
<1>5. OwnAdapter'
  <2>1. \A e \in Devices \ {d} : adapter'[e] = adapter[e]
    BY DeviceFrame DEF OthersAlone
  <2>2. \A e \in Devices \ {d} : adapter'[e] = adapter'[d] => adapter'[d] = NULL
    BY <1>2, <1>3, <2>1, NewAdapter
  <2> QED BY <2>1, <2>2 DEF Owned, OwnAdapter
<1> QED BY <1>1, <1>4, <1>5 DEF Owned

LEMMA OwnedBridge ==
  ASSUME Owned, Bridge
  PROVE  Owned'
<1>1. UNCHANGED <<pc, adapter, live>>
  BY DEF Bridge, FEE_register, FEE_unregister, gf_bridge_init, gf_bridge_exit, Bind, Unbind,
         BridgeDown, BridgeInterrupted, RegisterDone, UnregisterDone, devVars
<1> QED BY <1>1 DEF Owned, OwnAdapter, AdapterTable

LEMMA OwnedInit == Init => Owned
BY DEF Init, Owned, OwnAdapter, AdapterTable, Bare

LEMMA OwnedNext == TypeOK /\ Owned /\ [Next]_vars => TypeOK' /\ Owned'
<1> SUFFICES ASSUME TypeOK, Owned, [Next]_vars PROVE TypeOK' /\ Owned'
  OBVIOUS
<1>1. CASE UNCHANGED vars
  BY <1>1 DEF TypeOK, Owned, OwnAdapter, AdapterTable,
              vars, devVars, listVars, bindVars, bridgeVars
<1>2. CASE \E d \in Devices : DeviceStep(d)
  BY <1>2, TypeDevice, OwnedDevice DEF Owned
<1>3. CASE Bridge
  BY <1>3, TypeBridge, OwnedBridge
<1> QED BY <1>1, <1>2, <1>3 DEF Next, DeviceStep

\* Every variable keeps its type: no probe, however it fails, requests a
\* vector past nEvents, and no up() or down() takes the semaphore below zero;
\* and what is put on the list is an adapter, the device's own.
THEOREM TypeCorrect == Spec => [](TypeOK /\ Owned)
BY TypeInit, OwnedInit, OwnedNext, PTL DEF Spec

-----------------------------------------------------------------------------
(***************************************************************************)
(* What a device holds.  The teardown frees as many vectors as there are   *)
(* slots, nClients + 2 by fee.h: "Slot 0 is reserved", "The last slot      *)
(* (with ID == nClients + 1) is for the Python server", "The remaining     *)
(* slots are for client IDs 1 through nClients".  The setup requested      *)
(* nEvents of them.                                                        *)
(***************************************************************************)
AllTornDown      == nEvents <= nClients + 2
OneVectorPerSlot == nEvents = nClients + 2

\* What the steps that acquire or release something do at their device.
Moves(d, from, to) == pc[d] = from /\ pc'[d] = to /\ adapter'[d] = adapter[d]

LEMMA SkipAt ==
  ASSUME TypeOK, NEW d \in Devices, NEW from, NEW to, Skip(d, from, to)
  PROVE  Moves(d, from, to) /\ held'[d] = held[d]
BY DEF TypeOK, Moves, Skip, Step, devVars

LEMMA AcquireAt ==
  ASSUME TypeOK, NEW d \in Devices, NEW from, NEW to, NEW r, Acquire(d, from, to, r)
  PROVE  Moves(d, from, to) /\ held'[d] = held[d] \cup {r}
BY DEF TypeOK, Moves, Acquire, Step

LEMMA ReleaseAt ==
  ASSUME TypeOK, NEW d \in Devices, NEW from, NEW to, NEW rs, Release(d, from, to, rs)
  PROVE  Moves(d, from, to) /\ held'[d] = held[d] \ rs
BY DEF TypeOK, Moves, Release, Free, Step

LEMMA DestroyAt ==
  ASSUME TypeOK, NEW d \in Devices, NEW from, NEW to, FEE_adapter_destroy(d, from, to)
  PROVE  /\ pc[d] = from /\ pc'[d] \in {to, "oops"} /\ adapter'[d] = NULL
         /\ held'[d] = IF adapter[d] = NULL THEN held[d]
                       ELSE held[d] \ {"regions", "regs", "globals", "table"}
<1>1. CASE adapter[d] = NULL /\ Skip(d, from, to)
  BY <1>1, SkipAt DEF Moves
<1>2. CASE adapter[d] # NULL
  <2>1. held'[d] = held[d] \ (unmapBARs(d) \cup {"table"})
    BY <1>2 DEF TypeOK, FEE_adapter_destroy, Dismantle
  <2>2. @ = held[d] \ {"regions", "regs", "globals", "table"}
    BY DEF unmapBARs
  <2>3. pc[d] = from /\ pc'[d] \in {to, "oops"} /\ adapter'[d] = NULL
    BY <1>2 DEF TypeOK, FEE_adapter_destroy, Dismantle, Step
  <2> QED BY <1>2, <2>1, <2>2, <2>3
<1> QED BY <1>1, <1>2 DEF FEE_adapter_destroy, Dismantle

LEMMA TeardownAt ==
  ASSUME TypeOK, NEW d \in Devices, NEW from, NEW to, FEE_ISR_teardown(d, from, to)
  PROVE  /\ Moves(d, from, to)
         /\ "table" \in held[d] => held'[d] = held[d] \ {"vectors", "table"}
BY DEF TypeOK, Moves, FEE_ISR_teardown, Step

LEMMA HeldStep ==
  ASSUME TypeOK, NEW d \in Devices, AdapterTable(d), HeldTable(d), DeviceStep(d)
  PROVE  HeldTable(d)'
<1>0. NULL \notin live
  BY AdapterLifeAssumption DEF AdapterLifeAssumption, TypeOK
<1> USE DEF HeldTable, AdapterTable, Mapped, Bare, Armed, Resources, Moves
<1>1. CASE \E a \in Adapters : Kzalloc(d, a)
  BY <1>1 DEF Kzalloc, Step, TypeOK
<1>2. CASE mapBARs(d)
  <2>1. CASE Acquire(d, "regions", "regs", "regions")
    BY <2>1, AcquireAt
  <2>2. CASE Skip(d, "regions", "uncreate")
    BY <2>2, SkipAt
  <2>3. CASE Acquire(d, "regs", "globals", "regs")
    BY <2>3, AcquireAt
  <2>4. CASE Acquire(d, "globals", "params", "globals")
    BY <2>4, AcquireAt
  <2>5. ASSUME NEW here \in {"regs", "globals"}, Release(d, here, "uncreate", unmapBARs(d))
        PROVE  HeldTable(d)'
    <3>1. pc[d] = here /\ pc'[d] = "uncreate" /\ held'[d] = held[d] \ unmapBARs(d)
      BY <2>5, ReleaseAt
    <3>2. held'[d] = {"enabled"}
      BY <3>1 DEF unmapBARs
    <3> QED BY <3>1, <3>2
  <2> QED BY <1>2, <2>1, <2>2, <2>3, <2>4, <2>5 DEF mapBARs
<1>3. CASE Skip(d, "create", "disable") \/ Skip(d, "params", "table") \/ Skip(d, "params", "uncreate")
  BY <1>3, SkipAt
<1>4. CASE FEE_adapter_destroy(d, "uncreate", "disable")
  <2>1. /\ pc[d] = "uncreate" /\ pc'[d] \in {"disable", "oops"} /\ adapter'[d] = NULL
        /\ held'[d] = held[d] \ {"regions", "regs", "globals", "table"}
    <3> HIDE DEF HeldTable, AdapterTable
    <3>1. pc[d] = "uncreate"
      BY <1>4, DestroyAt
    <3>2. adapter[d] # NULL
      BY <1>0, <3>1 DEF AdapterTable
    <3>3. /\ pc'[d] \in {"disable", "oops"} /\ adapter'[d] = NULL
          /\ held'[d] = IF adapter[d] = NULL THEN held[d]
                        ELSE held[d] \ {"regions", "regs", "globals", "table"}
      BY <1>4, DestroyAt
    <3> QED BY <3>1, <3>2, <3>3
  <2>2. held'[d] = {"enabled"}
    BY <2>1
  <2> QED BY <2>1, <2>2
<1>5. CASE FEE_ISR_setup(d)
  <2>1. CASE \/ Skip(d, "table", "disable") \/ Skip(d, "vectors", "freetable")
             \/ Skip(d, "request", "down")
    BY <1>0, <2>1, SkipAt
  <2>2. CASE Acquire(d, "table", "vectors", "table")
    BY <2>2, AcquireAt
  <2>3. CASE Acquire(d, "vectors", "request", "vectors")
    BY <2>3, AcquireAt
  <2>4. CASE RequestIrq(d) \/ FreeCompletedIrqs(d)
    BY <2>4 DEF RequestIrq, FreeCompletedIrqs, Step, TypeOK
  <2>5. CASE Release(d, "freevectors", "freetable", {"vectors"})
    BY <2>5, ReleaseAt
  <2>6. CASE Release(d, "freetable", "disable", {"table"})
    <3>1. Moves(d, "freetable", "disable") /\ held'[d] = held[d] \ {"table"}
      BY <2>6, ReleaseAt
    <3>2. held'[d] = Mapped /\ adapter'[d] # NULL
      BY <1>0, <3>1
    <3> QED BY <3>1, <3>2
  <2> QED BY <1>5, <2>1, <2>2, <2>3, <2>4, <2>5, <2>6 DEF FEE_ISR_setup
<1>6. CASE EnableDevice(d) \/ RemoveStart(d)
  <2>1. CASE UNCHANGED vars
    BY <2>1 DEF vars, devVars
  <2>2. CASE Acquire(d, "unbound", "features", "enabled")
    BY <2>2, AcquireAt
  <2>3. CASE Skip(d, "bound", "oops") \/ Skip(d, "bound", "rteardown")
    BY <2>3, SkipAt
  <2> QED BY <1>6, <2>1, <2>2, <2>3 DEF EnableDevice, RemoveStart
<1>7. CASE \/ DownIgnoringSignals(d, "down", "walk") \/ ListAdd(d)
           \/ DownIgnoringSignals(d, "rdown", "rdel") \/ ListDel(d)
  BY <1>7 DEF DownIgnoringSignals, ListAdd, ListDel, Step, TypeOK, devVars
<1>8. CASE \/ WalkOops(d, "walk") \/ WalkOops(d, "rdel") \/ SendFirst(d)
           \/ \E to \in {"create", "disable"} : Skip(d, "features", to)
  BY <1>8, SkipAt DEF WalkOops, SendFirst
<1>9. CASE FEE_ISR_teardown(d, "teardown", "disable") \/ FEE_ISR_teardown(d, "rteardown", "rdisable")
  <2>1. /\ Moves(d, "teardown", "disable") \/ Moves(d, "rteardown", "rdisable")
        /\ "table" \in held[d] => held'[d] = held[d] \ {"vectors", "table"}
    BY <1>9, TeardownAt
  <2>2. held'[d] = Mapped
    BY <2>1
  <2>3. adapter[d] # NULL
    BY <1>0, <2>1
  <2> QED BY <2>1, <2>2, <2>3
<1>10. CASE DisableDevice(d)
  <2>1. Moves(d, "disable", "destroy") /\ held'[d] = held[d] \ {"enabled"}
    BY <1>10, ReleaseAt DEF DisableDevice
  <2>2. CASE adapter[d] = NULL
    BY <2>1, <2>2
  <2>3. CASE adapter[d] # NULL
    BY <2>1, <2>3
  <2> QED BY <2>2, <2>3
<1>11. CASE Release(d, "rdisable", "rdown", {"enabled"})
  BY <1>11, ReleaseAt
<1>12. CASE \/ FEE_adapter_destroy(d, "destroy", "unbound")
            \/ FEE_adapter_destroy(d, "rdestroy", "unbound")
  <2>1. /\ pc[d] \in {"destroy", "rdestroy"} /\ pc'[d] \in {"unbound", "oops"}
        /\ held'[d] = IF adapter[d] = NULL THEN held[d]
                      ELSE held[d] \ {"regions", "regs", "globals", "table"}
    BY <1>12, DestroyAt
  <2>2. held'[d] = {}
    <3>1. CASE adapter[d] = NULL
      BY <1>0, <2>1, <3>1
    <3>2. CASE adapter[d] # NULL
      BY <2>1, <3>2
    <3> QED BY <3>1, <3>2
  <2> QED BY <2>1, <2>2
<1> QED
  BY <1>1, <1>2, <1>3, <1>4, <1>5, <1>6, <1>7, <1>8, <1>9, <1>10, <1>11, <1>12
     DEF DeviceStep, FEE_init_one, FEE_remove_one, FEE_adapter_create

LEMMA IrqStep ==
  ASSUME AllTornDown, TypeOK, NEW d \in Devices, AdapterTable(d), HeldTable(d), IrqTable(d),
         DeviceStep(d)
  PROVE  IrqTable(d)'
<1>0. nEvents \in Nat \ {0} /\ nClients \in Nat /\ last[d] \in 0 .. nEvents
  BY AdapterLifeAssumption DEF AdapterLifeAssumption, TypeOK
<1> USE DEF TypeOK, IrqTable, Armed, Step, devVars
<1>1. CASE FEE_adapter_create(d)
  BY <1>1 DEF FEE_adapter_create, Kzalloc, mapBARs, Skip, Acquire, Release, FEE_adapter_destroy, Dismantle
<1>2. CASE RequestIrq(d)
  <2>1. irqs'[d] = irqs[d] \cup {last[d]} /\ last'[d] = last[d] + 1 /\ pc'[d] = "request"
        /\ pc[d] = "request"
    BY <1>2 DEF RequestIrq
  <2>2. irqs'[d] = 0 .. last'[d] - 1
    BY <1>0, <2>1
  <2> QED BY <2>1, <2>2
<1>3. CASE FreeCompletedIrqs(d)
  BY <1>0, <1>3 DEF FreeCompletedIrqs
<1>4. CASE last[d] = nEvents /\ Skip(d, "request", "down")
  BY <1>0, <1>4 DEF Skip, Vectors
<1>5. CASE \/ Skip(d, "table", "disable") \/ Skip(d, "vectors", "freetable")
           \/ Acquire(d, "table", "vectors", "table")
           \/ Release(d, "freevectors", "freetable", {"vectors"})
           \/ Release(d, "freetable", "disable", {"table"})
  BY <1>5 DEF Skip, Acquire, Release
<1>6. CASE Acquire(d, "vectors", "request", "vectors")
  BY <1>0, <1>6 DEF Acquire
<1>7. CASE EnableDevice(d) \/ RemoveStart(d)
  BY <1>7 DEF EnableDevice, RemoveStart, Skip, Acquire, vars, HeldTable, AdapterTable, Bare
<1>8. CASE \/ DownIgnoringSignals(d, "down", "walk") \/ ListAdd(d) \/ WalkOops(d, "walk")
           \/ DownIgnoringSignals(d, "rdown", "rdel") \/ ListDel(d) \/ WalkOops(d, "rdel")
           \/ SendFirst(d) \/ \E to \in {"create", "disable"} : Skip(d, "features", to)
  BY <1>8 DEF DownIgnoringSignals, ListAdd, ListDel, WalkOops, SendFirst, Skip,
              HeldTable, AdapterTable, Bare
<1>9. CASE FEE_ISR_teardown(d, "teardown", "disable") \/ FEE_ISR_teardown(d, "rteardown", "rdisable")
  <2>1. "table" \in held[d] /\ irqs[d] = Vectors
    BY <1>9 DEF FEE_ISR_teardown, HeldTable, Resources
  <2>2. Vectors \ TeardownVectors = {}
    BY <1>0 DEF Vectors, TeardownVectors, AllTornDown
  <2> QED BY <1>9, <2>1, <2>2 DEF FEE_ISR_teardown
<1>10. CASE \/ DisableDevice(d) \/ Release(d, "rdisable", "rdown", {"enabled"})
            \/ FEE_adapter_destroy(d, "destroy", "unbound")
            \/ FEE_adapter_destroy(d, "rdestroy", "unbound")
  BY <1>10 DEF DisableDevice, Release, FEE_adapter_destroy, Dismantle, Skip
<1> QED
  BY <1>1, <1>2, <1>3, <1>4, <1>5, <1>6, <1>7, <1>8, <1>9, <1>10
     DEF DeviceStep, FEE_init_one, FEE_remove_one, FEE_ISR_setup

Holdings == \A d \in Devices : HeldTable(d) /\ IrqTable(d)

LEMMA HoldingsInit == Init => Holdings
BY DEF Init, Holdings, HeldTable, IrqTable, Armed

LEMMA HoldingsDevice ==
  ASSUME AllTornDown, TypeOK, Owned, Holdings, NEW d \in Devices, DeviceStep(d)
  PROVE  Holdings'
<1>1. HeldTable(d)' /\ IrqTable(d)'
  BY HeldStep, IrqStep DEF Owned, Holdings
<1>2. ASSUME NEW e \in Devices \ {d} PROVE HeldTable(e)' /\ IrqTable(e)'
  <2>1. /\ pc'[e] = pc[e] /\ adapter'[e] = adapter[e] /\ held'[e] = held[e]
        /\ irqs'[e] = irqs[e] /\ last'[e] = last[e]
    BY DeviceFrame DEF OthersAlone
  <2>2. HeldTable(e) /\ IrqTable(e)
    BY DEF Holdings
  <2>3. adapter[e] \in live => adapter'[e] \in live'
    <3>1. adapter[e] \in live => adapter[e] # adapter[d]
      BY AdapterLifeAssumption DEF Owned, OwnAdapter, AdapterLifeAssumption, TypeOK
    <3> QED BY <2>1, <3>1, DeviceFrame DEF OthersAlone
  <2> QED BY <2>1, <2>2, <2>3 DEF HeldTable, IrqTable
<1> QED BY <1>1, <1>2 DEF Holdings

\* The bridge's thread touches no device.
LEMMA BridgeFrame ==
  ASSUME Bridge
  PROVE  UNCHANGED <<pc, devVars, list, fault>>
BY DEF Bridge, FEE_register, FEE_unregister, gf_bridge_init, gf_bridge_exit, Bind, Unbind,
       BridgeDown, BridgeInterrupted, RegisterDone, UnregisterDone, listVars

LEMMA HoldingsNext ==
  ASSUME AllTornDown
  PROVE  TypeOK /\ Owned /\ Holdings /\ [Next]_vars => Holdings'
<1> SUFFICES ASSUME TypeOK, Owned, Holdings, [Next]_vars PROVE Holdings'
  OBVIOUS
<1>1. CASE UNCHANGED <<pc, devVars>>
  BY <1>1 DEF Holdings, HeldTable, IrqTable, devVars
<1>2. CASE \E d \in Devices : DeviceStep(d)
  BY <1>2, HoldingsDevice
<1> QED BY <1>1, <1>2, BridgeFrame DEF Next, DeviceStep, vars

LEMMA HoldingsCorrect ==
  ASSUME AllTornDown
  PROVE  Spec => [](TypeOK /\ Owned /\ Holdings)
BY TypeInit, OwnedInit, OwnedNext, HoldingsInit, HoldingsNext, PTL DEF Spec

-----------------------------------------------------------------------------
\* Nothing that is not held is released but the regions and the core.
LEMMA ReleasedDevice ==
  ASSUME OneVectorPerSlot, TypeOK, ReleasedOnce, NEW d \in Devices, AdapterTable(d),
         HeldTable(d), IrqTable(d), DeviceStep(d)
  PROVE  ReleasedOnce'
<1>1. ASSUME NEW from, NEW to, NEW rs, Release(d, from, to, rs),
             rs \subseteq held[d] \cup {"regions"}
      PROVE  ReleasedOnce'
  BY <1>1 DEF Release, Free, ReleasedOnce
<1>2. ASSUME NEW from, NEW to, Skip(d, from, to) PROVE ReleasedOnce'
  BY <1>2 DEF Skip, devVars, ReleasedOnce
<1>3. ASSUME NEW from, NEW to, NEW r, Acquire(d, from, to, r) PROVE ReleasedOnce'
  BY <1>3 DEF Acquire, ReleasedOnce
<1>4. ASSUME NEW from, NEW to, FEE_adapter_destroy(d, from, to) PROVE ReleasedOnce'
  <2>1. CASE adapter[d] = NULL
    BY <1>2, <1>4, <2>1 DEF FEE_adapter_destroy, Dismantle
  <2>2. CASE adapter[d] # NULL
    BY <1>4, <2>2 DEF FEE_adapter_destroy, unmapBARs, ReleasedOnce
  <2> QED BY <2>1, <2>2
<1>5. ASSUME NEW from \in {"teardown", "rteardown"}, NEW to, FEE_ISR_teardown(d, from, to)
      PROVE  ReleasedOnce'
  <2>1. pc[d] \in Armed
    BY <1>5 DEF FEE_ISR_teardown, Step, Armed
  <2>2. TeardownVectors \subseteq irqs[d]
    BY <2>1, AdapterLifeAssumption
       DEF IrqTable, Vectors, TeardownVectors, OneVectorPerSlot, AdapterLifeAssumption
  <2>3. overfreed' = overfreed
    BY <1>5, <2>2 DEF FEE_ISR_teardown
  <2> QED BY <2>3 DEF ReleasedOnce
<1>6. CASE FEE_adapter_create(d)
  <2>1. CASE \E a \in Adapters : Kzalloc(d, a)
    BY <2>1 DEF Kzalloc, ReleasedOnce
  <2>2. unmapBARs(d) \subseteq held[d] \cup {"regions"}
    BY DEF unmapBARs
  <2> QED BY <1>1, <1>2, <1>3, <1>4, <1>6, <2>1, <2>2 DEF FEE_adapter_create, mapBARs
<1>7. CASE FEE_ISR_setup(d)
  <2>1. CASE RequestIrq(d) \/ FreeCompletedIrqs(d)
    BY <2>1 DEF RequestIrq, FreeCompletedIrqs, ReleasedOnce
  <2>2. CASE Release(d, "freevectors", "freetable", {"vectors"})
    <3>1. "vectors" \in held[d]
      BY <2>2 DEF Release, Step, HeldTable, Resources
    <3> QED BY <1>1, <2>2, <3>1
  <2>3. CASE Release(d, "freetable", "disable", {"table"})
    <3>1. "table" \in held[d]
      BY <2>3 DEF Release, Step, HeldTable
    <3> QED BY <1>1, <2>3, <3>1
  <2> QED BY <1>2, <1>3, <1>7, <2>1, <2>2, <2>3 DEF FEE_ISR_setup
<1>8. CASE DisableDevice(d) \/ Release(d, "rdisable", "rdown", {"enabled"})
  <2>1. "enabled" \in held[d]
    BY <1>8 DEF DisableDevice, Release, Step, HeldTable, Mapped
  <2> QED BY <1>1, <1>8, <2>1 DEF DisableDevice
<1>9. CASE \/ DownIgnoringSignals(d, "down", "walk") \/ ListAdd(d)
           \/ DownIgnoringSignals(d, "rdown", "rdel") \/ ListDel(d)
  BY <1>9 DEF DownIgnoringSignals, ListAdd, ListDel, devVars, ReleasedOnce
<1>10. CASE EnableDevice(d) \/ RemoveStart(d)
  <2>1. CASE UNCHANGED vars
    BY <2>1 DEF vars, devVars, ReleasedOnce
  <2> QED BY <1>2, <1>3, <1>10, <2>1 DEF EnableDevice, RemoveStart
<1>11. CASE FEE_init_one(d)
  BY <1>2, <1>4, <1>5, <1>6, <1>7, <1>8, <1>9, <1>11 DEF FEE_init_one, WalkOops, SendFirst
<1>12. CASE FEE_remove_one(d)
  BY <1>2, <1>4, <1>5, <1>8, <1>9, <1>12 DEF FEE_remove_one, WalkOops
<1> QED BY <1>10, <1>11, <1>12 DEF DeviceStep

\* No way out of a probe and no remove frees or unmaps what it does not have,
\* in particular no vector, provided there is one for each slot.
THEOREM ReleaseCorrect ==
  ASSUME OneVectorPerSlot
  PROVE  Spec => []ReleasedOnce
<1>1. AllTornDown
  BY AdapterLifeAssumption DEF OneVectorPerSlot, AllTornDown, AdapterLifeAssumption
<1>2. Init => ReleasedOnce
  BY DEF Init, ReleasedOnce
<1>3. TypeOK /\ Owned /\ Holdings /\ ReleasedOnce /\ [Next]_vars => ReleasedOnce'
  <2> SUFFICES ASSUME TypeOK, Owned, Holdings, ReleasedOnce, [Next]_vars PROVE ReleasedOnce'
    OBVIOUS
  <2>1. CASE \E d \in Devices : DeviceStep(d)
    BY <2>1, ReleasedDevice DEF Owned, Holdings
  <2>2. CASE UNCHANGED overfreed
    BY <2>2 DEF ReleasedOnce
  <2> QED BY <2>1, <2>2, BridgeFrame DEF Next, DeviceStep, vars, devVars
<1> QED BY <1>1, <1>2, <1>3, HoldingsCorrect, PTL DEF Spec

-----------------------------------------------------------------------------
(***************************************************************************)
(* The list and its semaphore.  The semaphore is free and nobody is at the *)
(* list, or it is taken and one thread is, or that thread is gone for      *)
(* good.                                                                   *)
(***************************************************************************)
OneHolder ==
  fault # "probe_signal" =>
    \/ sema = 1 /\ Walkers = {}
    \/ sema = 0 /\ \E w : Walkers = {w}
    \/ sema = 0 /\ Walkers = {} /\ SomeOops

\* A step that neither looks at the list nor takes or gives the semaphore.
Apart(d) == UNCHANGED listVars /\ {pc[d], pc'[d]} \cap {"walk", "rdel"} = {}

LEMMA DeviceKinds ==
  ASSUME TypeOK, NEW d \in Devices, DeviceStep(d)
  PROVE  /\ \/ DownIgnoringSignals(d, "down", "walk") \/ ListAdd(d) \/ WalkOops(d, "walk")
            \/ DownIgnoringSignals(d, "rdown", "rdel") \/ ListDel(d) \/ WalkOops(d, "rdel")
            \/ Apart(d)
         /\ pc[d] # "oops"
<1> USE DEF TypeOK, Step
<1>1. CASE FEE_adapter_create(d)
  BY <1>1 DEF FEE_adapter_create, Kzalloc, mapBARs, Skip, Acquire, Release,
              FEE_adapter_destroy, Apart
<1>2. CASE FEE_ISR_setup(d)
  BY <1>2 DEF FEE_ISR_setup, RequestIrq, FreeCompletedIrqs, Skip, Acquire, Release, Apart
<1>3. CASE EnableDevice(d) \/ RemoveStart(d)
  BY <1>3 DEF EnableDevice, RemoveStart, Skip, Acquire, vars, Apart
<1>4. CASE \/ \E to \in {"create", "disable"} : Skip(d, "features", to)
           \/ SendFirst(d) \/ DisableDevice(d)
           \/ Release(d, "rdisable", "rdown", {"enabled"})
           \/ FEE_ISR_teardown(d, "teardown", "disable")
           \/ FEE_ISR_teardown(d, "rteardown", "rdisable")
           \/ FEE_adapter_destroy(d, "destroy", "unbound")
           \/ FEE_adapter_destroy(d, "rdestroy", "unbound")
  BY <1>4 DEF SendFirst, DisableDevice, Skip, Release, FEE_ISR_teardown,
              FEE_adapter_destroy, Apart
<1>5. CASE \/ DownIgnoringSignals(d, "down", "walk") \/ ListAdd(d) \/ WalkOops(d, "walk")
           \/ DownIgnoringSignals(d, "rdown", "rdel") \/ ListDel(d) \/ WalkOops(d, "rdel")
  BY <1>5 DEF DownIgnoringSignals, ListAdd, ListDel, WalkOops, Skip
<1> QED
  BY <1>1, <1>2, <1>3, <1>4, <1>5 DEF DeviceStep, FEE_init_one, FEE_remove_one

\* Whoever is at the list is alone there, so no change is lost.
LEMMA Alone ==
  ASSUME OneHolder, fault # "probe_signal", NEW w \in Walkers
  PROVE  /\ sema = 0 /\ Walkers = {w}
         /\ \A new : ChangeList(new) => list' = new
<1>1. sema = 0 /\ Walkers = {w}
  BY DEF OneHolder
<1>2. Cardinality(Walkers) = 1
  BY <1>1, FS_Singleton
<1>3. ~ Cardinality(Walkers) > 1
  BY <1>2
<1> QED BY <1>1, <1>3 DEF ChangeList

\* The device d goes to the list, or leaves it; d does neither.
LEMMA WalkersStep ==
  ASSUME TypeOK, NEW d \in Devices, DeviceStep(d)
  PROVE  Walkers' = IF pc'[d] \in {"walk", "rdel"} THEN Walkers \cup {d} ELSE Walkers \ {d}
<1>1. bpc' = bpc /\ \A e \in Devices \ {d} : pc'[e] = pc[e]
  BY DeviceFrame DEF OthersAlone, bridgeVars
<1>2. NULL \notin Devices
  BY AdapterLifeAssumption DEF AdapterLifeAssumption
<1>3. CASE pc'[d] \in {"walk", "rdel"}
  BY <1>1, <1>2, <1>3 DEF Walkers
<1>4. CASE pc'[d] \notin {"walk", "rdel"}
  BY <1>1, <1>2, <1>4 DEF Walkers
<1> QED BY <1>3, <1>4

LEMMA HolderDevice ==
  ASSUME TypeOK, OneHolder, NEW d \in Devices, DeviceStep(d)
  PROVE  OneHolder'
<1> SUFFICES ASSUME fault # "probe_signal" PROVE OneHolder'
  BY DeviceFrame DEF OthersAlone, OneHolder
<1>1. SomeOops => SomeOops'
  <2>1. bpc' = bpc /\ \A e \in Devices \ {d} : pc'[e] = pc[e]
    BY DeviceFrame DEF OthersAlone, bridgeVars
  <2>2. pc[d] # "oops"
    BY DeviceKinds
  <2> QED BY <2>1, <2>2 DEF SomeOops
<1>2. CASE Apart(d)
  <2>1. Walkers' = Walkers
    <3>1. d \notin Walkers
      BY <1>2, AdapterLifeAssumption DEF Apart, Walkers, AdapterLifeAssumption
    <3>2. pc'[d] \notin {"walk", "rdel"}
      BY <1>2 DEF Apart
    <3> QED BY <3>1, <3>2, WalkersStep
  <2> QED BY <1>1, <1>2, <2>1 DEF OneHolder, Apart, listVars
<1>3. CASE DownIgnoringSignals(d, "down", "walk") \/ DownIgnoringSignals(d, "rdown", "rdel")
  <2>1. sema > 0 /\ sema' = sema - 1 /\ pc'[d] \in {"walk", "rdel"}
    BY <1>3 DEF DownIgnoringSignals, Happens, Step, TypeOK
  <2>2. sema' = 0 /\ Walkers = {}
    BY <2>1 DEF OneHolder
  <2>3. Walkers' = {d}
    BY <2>1, <2>2, WalkersStep
  <2> QED BY <2>2, <2>3 DEF OneHolder
<1>4. ASSUME pc[d] \in {"walk", "rdel"}, pc'[d] \notin {"walk", "rdel"}
      PROVE  sema = 0 /\ Walkers' = {}
  <2>1. d \in Walkers
    BY <1>4 DEF Walkers
  <2> QED BY <1>4, <2>1, Alone, WalkersStep
<1>5. CASE ListAdd(d) \/ ListDel(d)
  <2>1. /\ pc[d] \in {"walk", "rdel"} /\ pc'[d] \notin {"walk", "rdel"}
        /\ sema' = sema + 1
    BY <1>5 DEF ListAdd, ListDel, Step, TypeOK, up
  <2> QED BY <1>4, <2>1 DEF OneHolder
<1>6. CASE WalkOops(d, "walk") \/ WalkOops(d, "rdel")
  <2>1. pc[d] \in {"walk", "rdel"} /\ pc'[d] = "oops" /\ sema' = sema
    BY <1>6 DEF WalkOops, Skip, Step, TypeOK, listVars
  <2> QED BY <1>4, <2>1 DEF OneHolder, SomeOops
<1> QED BY <1>2, <1>3, <1>5, <1>6, DeviceKinds

LEMMA HolderBridge ==
  ASSUME TypeOK, OneHolder, Bridge
  PROVE  OneHolder'
<1> SUFFICES ASSUME fault # "probe_signal" PROVE OneHolder'
  BY BridgeFrame DEF OneHolder
<1>0. pc' = pc /\ NULL \notin Devices
  BY BridgeFrame, AdapterLifeAssumption DEF AdapterLifeAssumption
<1>1. CASE sema' = sema /\ bpc # "oops"
           /\ (bpc \in {"bind", "unbind"} <=> bpc' \in {"bind", "unbind"})
  BY <1>0, <1>1 DEF OneHolder, Walkers, SomeOops
<1>2. CASE sema > 0 /\ sema' = sema - 1 /\ bpc' \in {"bind", "unbind"}
  <2>1. sema' = 0 /\ Walkers = {}
    BY <1>2 DEF OneHolder
  <2>2. Walkers' = {NULL}
    BY <1>0, <1>2, <2>1 DEF Walkers
  <2> QED BY <2>1, <2>2 DEF OneHolder
<1>3. ASSUME bpc \in {"bind", "unbind"}, bpc' \notin {"bind", "unbind"}
      PROVE  sema = 0 /\ Walkers' = {}
  <2>1. NULL \in Walkers
    BY <1>3 DEF Walkers
  <2>2. sema = 0 /\ Walkers = {NULL}
    BY <2>1, Alone
  <2> QED BY <1>0, <1>3, <2>2 DEF Walkers
<1>4. CASE /\ bpc \in {"bind", "unbind"} /\ bpc' \notin {"bind", "unbind"}
           /\ \/ sema' = sema + 1
              \/ sema' = sema /\ bpc' = "oops"
  BY <1>3, <1>4 DEF OneHolder, SomeOops
<1> USE DEF listVars
<1>5. CASE \E c \in Cores, s \in OnlySlots : gf_bridge_init(c, s)
  BY <1>1, <1>5 DEF gf_bridge_init
<1>6. CASE gf_bridge_exit
  BY <1>1, <1>6 DEF gf_bridge_exit
<1>7. CASE \E from \in Interruptible : BridgeInterrupted(from)
  BY <1>1, <1>7 DEF BridgeInterrupted, Interruptible
<1>8. CASE BridgeDown("register", "bind") \/ BridgeDown("unregister", "unbind")
  BY <1>2, <1>8 DEF BridgeDown
<1>9. CASE RegisterDone \/ UnregisterDone
  <2>1. /\ bpc \in {"bind", "unbind"} /\ bpc' \in {"in", "out"}
        /\ sema' = sema + 1
    BY <1>9 DEF RegisterDone, UnregisterDone, up
  <2> QED BY <1>4, <2>1
<1>10. CASE \E a \in Adapters : Bind(a)
  <2>1. /\ bpc = "bind"
        /\ \/ bpc' = "oops" /\ sema' = sema
           \/ bpc' = bpc /\ sema' = sema
           \/ bpc' = "out" /\ sema' = sema + 1
    BY <1>10 DEF Bind, Bound, BindFailed, up
  <2> QED BY <1>1, <1>4, <2>1
<1>11. CASE \E a \in Adapters : Unbind(a)
  BY <1>1, <1>4, <1>11 DEF Unbind
<1> QED BY <1>5, <1>6, <1>7, <1>8, <1>9, <1>10, <1>11 DEF Bridge, FEE_register, FEE_unregister

LEMMA HolderNext == TypeOK /\ OneHolder /\ [Next]_vars => OneHolder'
<1> SUFFICES ASSUME TypeOK, OneHolder, [Next]_vars PROVE OneHolder'
  OBVIOUS
<1>1. CASE UNCHANGED vars
  BY <1>1 DEF OneHolder, SomeOops, Walkers, vars, listVars, bridgeVars
<1> QED BY <1>1, HolderDevice, HolderBridge DEF Next, DeviceStep

LEMMA HolderInit == Init => OneHolder
BY DEF Init, OneHolder, Walkers

\* FEE_adapter_list is walked and changed by one thread at a time, and the
\* semaphore is given back on every way out, unless a signal is ignored or the
\* thread that has it oopses.
THEOREM ListCorrect == Spec => []ListExclusive
<1>1. TypeOK /\ OneHolder => ListExclusive
  <2> SUFFICES ASSUME TypeOK, OneHolder, fault # "probe_signal",
                      ~ (sema = 0 /\ Walkers = {} /\ SomeOops)
               PROVE  sema + Cardinality(Walkers) = 1
    BY DEF ListExclusive
  <2>1. CASE sema = 1 /\ Walkers = {}
    BY <2>1, FS_EmptySet
  <2>2. CASE sema = 0 /\ \E w : Walkers = {w}
    <3>1. PICK w : Walkers = {w}
      BY <2>2
    <3>2. Cardinality(Walkers) = 1
      BY <3>1, FS_Singleton
    <3> QED BY <2>2, <3>2
  <2> QED BY <2>1, <2>2 DEF OneHolder
<1> QED BY <1>1, TypeCorrect, HolderInit, HolderNext, PTL DEF Spec

-----------------------------------------------------------------------------
(***************************************************************************)
(* Who is on the list: the adapters of the devices from their list_add()   *)
(* to their list_del(), and no others.                                     *)
(***************************************************************************)
Listing == {"send", "bound", "rteardown", "rdisable", "rdown", "rdel"}

ListTable ==
  /\ fault # "send" => \A d \in Devices : pc[d] # "teardown"
  /\ fault # "probe_signal" => \A d \in Devices : pc[d] \in Listing => adapter[d] \in list
  /\ fault \notin {"send", "probe_signal"} =>
       /\ list \subseteq live
       /\ \A d \in Devices : pc[d] \notin Listing \cup {"oops"} => adapter[d] \notin list

\* A step away from the list keeps a listed device listed, but for a first
\* message that fails and for an oops.
ApartList(d) ==
  /\ pc'[d] = "teardown" => fault = "send"
  /\ pc'[d] \in Listing => pc[d] \in Listing
  /\ pc[d] \in Listing => pc'[d] \in Listing \cup {"teardown", "oops"}
  /\ pc[d] \in Listing => adapter'[d] = adapter[d]
  /\ adapter'[d] = adapter[d] \/ adapter'[d] \notin list
  /\ live \subseteq live' \/ pc[d] \in {"uncreate", "destroy", "rdestroy"}
  /\ pc'[d] \in Removing => pc[d] \in Removing \/ fault = "unplug" \/ bpc = "out"
  /\ pc'[d] = "oops" => fault = "noslot" \/ (adapter[d] \in Adapters /\ CoreFreed(adapter[d]))

LEMMA ApartStep ==
  ASSUME TypeOK, NEW d \in Devices, DeviceStep(d), Apart(d)
  PROVE  ApartList(d)
<1>0. NULL \notin list
  BY AdapterLifeAssumption DEF AdapterLifeAssumption, TypeOK
<1>1. pc[d] \notin {"walk", "rdel"} /\ pc'[d] \notin {"walk", "rdel"}
  BY DEF Apart
<1> USE DEF TypeOK, ApartList, Listing, Removing, Step, devVars
<1>2. CASE FEE_adapter_create(d)
  BY <1>0, <1>2 DEF FEE_adapter_create, Kzalloc, Unused, mapBARs, Skip, Acquire, Release,
                    FEE_adapter_destroy, Dismantle
<1>3. CASE FEE_ISR_setup(d)
  BY <1>3 DEF FEE_ISR_setup, RequestIrq, FreeCompletedIrqs, Skip, Acquire, Release
<1>4. CASE EnableDevice(d) \/ RemoveStart(d)
  BY <1>4 DEF EnableDevice, RemoveStart, Happens, Skip, Acquire, vars
<1>5. CASE \/ \E to \in {"create", "disable"} : Skip(d, "features", to)
           \/ SendFirst(d) \/ DisableDevice(d)
           \/ Release(d, "rdisable", "rdown", {"enabled"})
  BY <1>5 DEF SendFirst, Happens, DisableDevice, Skip, Release
<1>6. CASE \/ FEE_ISR_teardown(d, "teardown", "disable")
           \/ FEE_ISR_teardown(d, "rteardown", "rdisable")
           \/ FEE_adapter_destroy(d, "destroy", "unbound")
           \/ FEE_adapter_destroy(d, "rdestroy", "unbound")
  BY <1>0, <1>6 DEF FEE_ISR_teardown, FEE_adapter_destroy, Dismantle, Skip
<1>7. CASE \/ DownIgnoringSignals(d, "down", "walk") \/ ListAdd(d) \/ WalkOops(d, "walk")
           \/ DownIgnoringSignals(d, "rdown", "rdel") \/ ListDel(d) \/ WalkOops(d, "rdel")
  BY <1>1, <1>7 DEF DownIgnoringSignals, ListAdd, ListDel, WalkOops, Skip
<1> QED
  BY <1>2, <1>3, <1>4, <1>5, <1>6, <1>7 DEF DeviceStep, FEE_init_one, FEE_remove_one

\* What a step at the list does.
LEMMA AtList ==
  ASSUME TypeOK, NEW d \in Devices, DeviceStep(d), ~ Apart(d)
  PROVE  /\ adapter' = adapter /\ live' = live
         /\ \/ /\ \/ pc[d] = "down" /\ pc'[d] = "walk"
                  \/ pc[d] = "rdown" /\ pc'[d] = "rdel"
               /\ list' = list
            \/ /\ pc[d] = "walk" /\ pc'[d] = "send"
               /\ ChangeList(list \cup {adapter[d]})
            \/ /\ pc[d] = "rdel" /\ pc'[d] = "rdestroy"
               /\ ChangeList(list \ {adapter[d]})
            \/ /\ pc[d] \in {"walk", "rdel"} /\ pc'[d] = "oops"
               /\ list' = list /\ ~ list \subseteq live
<1>1. \/ DownIgnoringSignals(d, "down", "walk") \/ ListAdd(d) \/ WalkOops(d, "walk")
      \/ DownIgnoringSignals(d, "rdown", "rdel") \/ ListDel(d) \/ WalkOops(d, "rdel")
  BY DeviceKinds
<1> QED
  BY <1>1 DEF DownIgnoringSignals, ListAdd, ListDel, WalkOops, Skip, Step, TypeOK,
              devVars, listVars

LEMMA ListDevice ==
  ASSUME TypeOK, Owned, OneHolder, ListTable, NEW d \in Devices, DeviceStep(d)
  PROVE  ListTable'
<1>0. /\ fault' = fault /\ \A e \in Devices \ {d} : pc'[e] = pc[e] /\ adapter'[e] = adapter[e]
      /\ live \ {adapter[d]} \subseteq live'
  BY DeviceFrame DEF OthersAlone
<1>1. \A e \in Devices \ {d} : adapter[e] # adapter[d] \/ adapter[e] = NULL
  BY DEF Owned, OwnAdapter
<1>2. NULL \notin live \cup list
  BY AdapterLifeAssumption DEF AdapterLifeAssumption, TypeOK
<1>3. \A e \in Devices : pc[e] \in Listing \cup {"walk", "rdel"} => adapter[e] \in live
  BY DEF Owned, AdapterTable, Listing, Bare
<1>4. CASE Apart(d)
  <2>1. ApartList(d) /\ list' = list
    BY <1>4, ApartStep DEF Apart, listVars
  <2>2. ASSUME fault # "send" PROVE \A e \in Devices : pc'[e] # "teardown"
    BY <1>0, <2>1, <2>2 DEF ApartList, ListTable
  <2>3. ASSUME fault # "probe_signal"
        PROVE  \A e \in Devices : pc'[e] \in Listing => adapter'[e] \in list'
    BY <1>0, <2>1, <2>3 DEF ApartList, ListTable
  <2>4. ASSUME fault \notin {"send", "probe_signal"} PROVE list' \subseteq live'
    <3>1. CASE live \subseteq live'
      BY <2>1, <2>4, <3>1 DEF ListTable
    <3>2. CASE pc[d] \in {"uncreate", "destroy", "rdestroy"}
      <4>1. adapter[d] \notin list
        BY <2>4, <3>2 DEF ListTable, Listing
      <4> QED BY <1>0, <2>1, <2>4, <4>1 DEF ListTable
    <3> QED BY <2>1, <3>1, <3>2 DEF ApartList
  <2>5. ASSUME fault \notin {"send", "probe_signal"}, NEW e \in Devices,
               pc'[e] \notin Listing \cup {"oops"}
        PROVE  adapter'[e] \notin list'
    <3>1. CASE e # d
      BY <1>0, <2>1, <2>5, <3>1 DEF ListTable
    <3>2. CASE e = d
      <4>1. pc[d] # "oops"
        BY DeviceKinds
      <4>2. pc[d] \notin Listing
        BY <2>1, <2>5, <3>2 DEF ApartList
      <4> QED BY <2>1, <2>5, <3>2, <4>1, <4>2 DEF ApartList, ListTable
    <3> QED BY <3>1, <3>2
  <2> QED BY <1>0, <2>2, <2>3, <2>4, <2>5 DEF ListTable
<1>5. CASE ~ Apart(d)
  <2>1. adapter' = adapter /\ live' = live
    BY <1>5, AtList
  <2>2. pc[d] \in {"walk", "rdel"} => d \in Walkers
    BY DEF Walkers
  <2>3. ASSUME fault # "probe_signal"
        PROVE  \/ /\ \/ pc[d] = "down" /\ pc'[d] = "walk"
                     \/ pc[d] = "rdown" /\ pc'[d] = "rdel"
                  /\ list' = list
               \/ /\ pc[d] = "walk" /\ pc'[d] = "send"
                  /\ list' = list \cup {adapter[d]}
               \/ /\ pc[d] = "rdel" /\ pc'[d] = "rdestroy"
                  /\ list' = list \ {adapter[d]}
               \/ /\ pc[d] \in {"walk", "rdel"} /\ pc'[d] = "oops"
                  /\ list' = list /\ ~ list \subseteq live
    BY <1>5, <2>2, <2>3, AtList, Alone
  <2>4. ASSUME fault # "send" PROVE \A e \in Devices : pc'[e] # "teardown"
    BY <1>0, <1>5, <2>4, AtList DEF ListTable
  <2>5. ASSUME fault # "probe_signal", NEW e \in Devices, pc'[e] \in Listing
        PROVE  adapter'[e] \in list'
    <3>1. CASE e = d
      BY <2>1, <2>3, <2>5, <3>1 DEF ListTable, Listing
    <3>2. CASE e # d
      <4>1. adapter[e] \in list /\ adapter[e] # adapter[d]
        BY <1>0, <1>1, <1>2, <2>5, <3>2 DEF ListTable
      <4> QED BY <2>1, <2>3, <2>5, <4>1
    <3> QED BY <3>1, <3>2
  <2>6. ASSUME fault \notin {"send", "probe_signal"} PROVE list' \subseteq live'
    <3>1. list \subseteq live
      BY <2>6 DEF ListTable
    <3>2. pc[d] = "walk" => adapter[d] \in live
      BY <1>3
    <3> QED BY <2>1, <2>3, <2>6, <3>1, <3>2
  <2>7. ASSUME fault \notin {"send", "probe_signal"}, NEW e \in Devices,
               pc'[e] \notin Listing \cup {"oops"}
        PROVE  adapter'[e] \notin list'
    <3>1. CASE e = d
      BY <2>1, <2>3, <2>7, <3>1 DEF ListTable, Listing
    <3>2. CASE e # d
      <4>1. adapter[e] \notin list
        BY <1>0, <2>7, <3>2 DEF ListTable
      <4>2. pc[d] = "walk" => adapter[e] # adapter[d]
        BY <1>1, <1>2, <1>3, <3>2
      <4> QED BY <2>1, <2>3, <2>7, <4>1, <4>2
    <3> QED BY <3>1, <3>2
  <2> QED BY <1>0, <2>4, <2>5, <2>6, <2>7 DEF ListTable
<1> QED BY <1>4, <1>5

LEMMA ListInit == Init => ListTable
BY DEF Init, ListTable, Listing

LEMMA ListNext == TypeOK /\ Owned /\ OneHolder /\ ListTable /\ [Next]_vars => ListTable'
<1> SUFFICES ASSUME TypeOK, Owned, OneHolder, ListTable, [Next]_vars PROVE ListTable'
  OBVIOUS
<1>1. CASE UNCHANGED <<pc, devVars, list, fault>>
  BY <1>1 DEF ListTable, devVars
<1> QED BY <1>1, ListDevice, BridgeFrame DEF Next, DeviceStep, vars, listVars

ListInv == TypeOK /\ Owned /\ OneHolder /\ ListTable

LEMMA ListInvCorrect == Spec => []ListInv
BY TypeInit, OwnedInit, OwnedNext, HolderInit, HolderNext, ListInit, ListNext, PTL
   DEF Spec, ListInv

\* What FEE_register() and the others walk to is an adapter that exists,
\* unless the first message fails or a signal is ignored.
THEOREM ListedCorrect == Spec => []ListedLive
<1>1. ListInv => ListedLive
  BY DEF ListInv, ListTable, ListedLive
<1> QED BY <1>1, ListInvCorrect, PTL

\* Whichever call of the probe fails, a device that is not bound has nothing
\* left; one that is bound has everything, and is on the list.
THEOREM ProbeCorrect ==
  ASSUME AllTornDown
  PROVE  Spec => []AllOrNothing
<1>1. ListInv /\ Holdings => AllOrNothing
  BY DEF ListInv, ListTable, Listing, Owned, AdapterTable, Holdings, HeldTable, IrqTable,
         AllOrNothing, Bare, Armed
<1> QED BY <1>1, ListInvCorrect, HoldingsCorrect, PTL

-----------------------------------------------------------------------------
(***************************************************************************)
(* The bridge's walk.  While it holds the semaphore nobody takes from the  *)
(* list what it has yet to walk to.                                        *)
(***************************************************************************)
WalkTable ==
  /\ fault # "probe_signal" /\ bpc \in {"bind", "unbind"} => todo \subseteq list
  /\ fault # "chrdev" => \A a \in Adapters : chrdev[a] # "err"

LEMMA ChrdevDevice ==
  ASSUME TypeOK, NEW d \in Devices, DeviceStep(d)
  PROVE  \A a \in Adapters : chrdev'[a] \in {chrdev[a], NULL}
<1> DEFINE Goal == \A a \in Adapters : chrdev'[a] \in {chrdev[a], NULL}
<1>1. CASE chrdev' = chrdev
  BY <1>1
<1>2. ASSUME NEW from, NEW to, FEE_adapter_destroy(d, from, to) PROVE Goal
  BY <1>1, <1>2 DEF FEE_adapter_destroy, Skip, bindVars, TypeOK
<1> HIDE DEF Goal
<1> USE DEF bindVars
<1>3. CASE FEE_adapter_create(d)
  BY <1>1, <1>2, <1>3 DEF FEE_adapter_create, Kzalloc, mapBARs, Skip, Acquire, Release, Goal
<1>4. CASE FEE_ISR_setup(d)
  BY <1>1, <1>4 DEF FEE_ISR_setup, RequestIrq, FreeCompletedIrqs, Skip, Acquire, Release
<1>5. CASE EnableDevice(d) \/ RemoveStart(d)
  BY <1>1, <1>5 DEF EnableDevice, RemoveStart, Skip, Acquire, vars
<1>6. CASE FEE_init_one(d)
  BY <1>1, <1>2, <1>3, <1>4, <1>6
     DEF FEE_init_one, DownIgnoringSignals, ListAdd, WalkOops, SendFirst, FEE_ISR_teardown,
         DisableDevice, Release, Skip, Goal
<1>7. CASE FEE_remove_one(d)
  BY <1>1, <1>2, <1>7
     DEF FEE_remove_one, DownIgnoringSignals, ListDel, WalkOops, FEE_ISR_teardown,
         Release, Skip, Goal
<1> QED BY <1>5, <1>6, <1>7 DEF DeviceStep

LEMMA WalkDevice ==
  ASSUME TypeOK, OneHolder, WalkTable, NEW d \in Devices, DeviceStep(d)
  PROVE  WalkTable'
<1>0. bpc' = bpc /\ todo' = todo /\ fault' = fault
  BY DeviceFrame DEF OthersAlone, bridgeVars
<1>1. ASSUME fault # "probe_signal", bpc \in {"bind", "unbind"} PROVE list' = list
  <2>1. Walkers = {NULL}
    BY <1>1, Alone DEF Walkers
  <2>2. pc[d] \notin {"walk", "rdel"}
    BY <2>1, AdapterLifeAssumption DEF Walkers, AdapterLifeAssumption
  <2> QED BY <2>2, AtList DEF Apart, listVars
<1>2. fault # "chrdev" => \A a \in Adapters : chrdev'[a] # "err"
  BY ChrdevDevice, AdapterLifeAssumption DEF WalkTable, AdapterLifeAssumption
<1> QED BY <1>0, <1>1, <1>2 DEF WalkTable

LEMMA WalkBridge ==
  ASSUME TypeOK, WalkTable, Bridge
  PROVE  WalkTable'
<1>0. list' = list /\ fault' = fault /\ NULL # "err"
  BY BridgeFrame, AdapterLifeAssumption DEF AdapterLifeAssumption
<1> USE DEF WalkTable, TypeOK, bindVars
<1>1. CASE \E c \in Cores, s \in OnlySlots : gf_bridge_init(c, s)
  BY <1>0, <1>1 DEF gf_bridge_init
<1>2. CASE gf_bridge_exit \/ \E from \in Interruptible : BridgeInterrupted(from)
  BY <1>0, <1>2 DEF gf_bridge_exit, BridgeInterrupted
<1>3. CASE BridgeDown("register", "bind") \/ BridgeDown("unregister", "unbind")
  BY <1>0, <1>3 DEF BridgeDown
<1>4. CASE RegisterDone \/ UnregisterDone
  BY <1>0, <1>4 DEF RegisterDone, UnregisterDone
<1>5. CASE \E a \in Adapters : Bind(a)
  BY <1>0, <1>5 DEF Bind, Bound, BindFailed, Happens
<1>6. CASE \E a \in Adapters : Unbind(a)
  BY <1>0, <1>6 DEF Unbind
<1> QED BY <1>1, <1>2, <1>3, <1>4, <1>5, <1>6 DEF Bridge, FEE_register, FEE_unregister

LEMMA WalkNext == TypeOK /\ OneHolder /\ WalkTable /\ [Next]_vars => WalkTable'
<1> SUFFICES ASSUME TypeOK, OneHolder, WalkTable, [Next]_vars PROVE WalkTable'
  OBVIOUS
<1>1. CASE UNCHANGED vars
  BY <1>1 DEF WalkTable, vars, listVars, bindVars, bridgeVars
<1> QED BY <1>1, WalkDevice, WalkBridge DEF Next, DeviceStep

LEMMA WalkInit == Init => WalkTable
BY AdapterLifeAssumption DEF Init, WalkTable, AdapterLifeAssumption

-----------------------------------------------------------------------------
(***************************************************************************)
(* The core structures.  A device that destroys its adapter frees the core *)
(* structure the adapter was bound to; nothing else does.                  *)
(***************************************************************************)
FreesCore(d) ==
  /\ pc[d] \in {"uncreate", "destroy", "rdestroy"} /\ adapter[d] \in Adapters
  /\ cores' = cores \ {core[adapter[d]]}
  /\ core' = [core EXCEPT ![adapter[d]] = NULL]
  /\ chrdev' = [chrdev EXCEPT ![adapter[d]] = NULL]

KeepsCore == UNCHANGED <<core, cores, chrdev>>

LEMMA CoreDevice ==
  ASSUME TypeOK, NEW d \in Devices, DeviceStep(d)
  PROVE  KeepsCore \/ FreesCore(d)
<1> DEFINE Goal == KeepsCore \/ FreesCore(d)
<1>1. CASE UNCHANGED bindVars
  BY <1>1 DEF bindVars, KeepsCore
<1>2. ASSUME NEW from \in {"uncreate", "destroy", "rdestroy"}, NEW to,
             FEE_adapter_destroy(d, from, to)
      PROVE  Goal
  BY <1>1, <1>2 DEF FEE_adapter_destroy, Skip, Step, genz_core_structure_destroy, FreesCore, TypeOK
<1> HIDE DEF Goal
<1>3. CASE FEE_adapter_create(d)
  BY <1>1, <1>2, <1>3 DEF FEE_adapter_create, Kzalloc, mapBARs, Skip, Acquire, Release, Goal
<1>4. CASE FEE_ISR_setup(d)
  BY <1>1, <1>4 DEF FEE_ISR_setup, RequestIrq, FreeCompletedIrqs, Skip, Acquire, Release
<1>5. CASE EnableDevice(d) \/ RemoveStart(d)
  BY <1>1, <1>5 DEF EnableDevice, RemoveStart, Skip, Acquire, vars
<1>6. CASE FEE_init_one(d)
  BY <1>1, <1>2, <1>3, <1>4, <1>6
     DEF FEE_init_one, DownIgnoringSignals, ListAdd, WalkOops, SendFirst, FEE_ISR_teardown,
         DisableDevice, Release, Skip, Goal
<1>7. CASE FEE_remove_one(d)
  BY <1>1, <1>2, <1>7
     DEF FEE_remove_one, DownIgnoringSignals, ListDel, WalkOops, FEE_ISR_teardown,
         Release, Skip, Goal
<1> QED BY <1>5, <1>6, <1>7 DEF DeviceStep, Goal

\* An adapter refers to a core structure that exists, or to none, or to one
\* that several were bound to; a bound adapter refers to one, and the insmod
\* in progress binds to its own, which is new until the first binding.
CoreTable ==
  /\ \A a \in Adapters : core[a] \in cores \cup {NULL} \cup shared
  /\ \A a, b \in Adapters : a # b /\ core[a] = core[b] /\ core[a] # NULL => core[a] \in shared
  /\ \A a \in Adapters : chrdev[a] = "dev" => core[a] # NULL
  /\ bpc = "register" => nbindings = 0
  /\ bpc \in {"register", "bind"} => bcore # NULL
  /\ bpc \in {"register", "bind"} /\ nbindings = 0 =>
       bcore \in cores /\ \A a \in Adapters : core[a] # bcore

LEMMA CoreTableDevice ==
  ASSUME TypeOK, CoreTable, NEW d \in Devices, DeviceStep(d)
  PROVE  CoreTable'
<1>0. UNCHANGED <<bpc, nbindings, bcore, shared>> /\ NULL # "dev" /\ NULL \notin Cores
  BY DeviceFrame, AdapterLifeAssumption DEF OthersAlone, bridgeVars, AdapterLifeAssumption
<1>1. CASE KeepsCore
  BY <1>0, <1>1 DEF KeepsCore, CoreTable
<1>2. CASE FreesCore(d)
  <2> DEFINE a == adapter[d]
  <2>0. a \in Adapters /\ cores' = cores \ {core[a]}
    BY <1>2 DEF FreesCore
  <2>1. \A b \in Adapters : /\ core'[b] = IF b = a THEN NULL ELSE core[b]
                            /\ chrdev'[b] = IF b = a THEN NULL ELSE chrdev[b]
    BY <1>2 DEF FreesCore, TypeOK
  <2>2. \A b \in Adapters : core'[b] \in cores' \cup {NULL} \cup shared'
    BY <1>0, <2>0, <2>1 DEF CoreTable
  <2>3. \A b, e \in Adapters : b # e /\ core'[b] = core'[e] /\ core'[b] # NULL => core'[b] \in shared'
    BY <1>0, <2>0, <2>1 DEF CoreTable
  <2>4. \A b \in Adapters : chrdev'[b] = "dev" => core'[b] # NULL
    BY <1>0, <2>0, <2>1 DEF CoreTable
  <2>5. bpc' \in {"register", "bind"} /\ nbindings' = 0 =>
          bcore' \in cores' /\ \A b \in Adapters : core'[b] # bcore'
    BY <1>0, <2>0, <2>1 DEF CoreTable
  <2> QED BY <1>0, <2>2, <2>3, <2>4, <2>5 DEF CoreTable
<1> QED BY <1>1, <1>2, CoreDevice

LEMMA CoreTableBridge ==
  ASSUME TypeOK, CoreTable, Bridge
  PROVE  CoreTable'
<1>0. NULL # "dev" /\ "err" # "dev" /\ NULL \notin Cores
  BY AdapterLifeAssumption DEF AdapterLifeAssumption
<1>1. CASE \E c \in Cores, s \in OnlySlots : gf_bridge_init(c, s)
  BY <1>0, <1>1 DEF gf_bridge_init, genz_core_structure_create, CoreTable, bindVars
<1>2. ASSUME UNCHANGED <<bindVars, nbindings, bcore, shared>>,
             bpc' # "register", bpc' = "bind" => bpc \in {"register", "bind"}
      PROVE  CoreTable'
  BY <1>2 DEF CoreTable, bindVars
<1>3. CASE gf_bridge_exit \/ \E from \in Interruptible : BridgeInterrupted(from)
  BY <1>2, <1>3 DEF gf_bridge_exit, BridgeInterrupted
<1>4. CASE BridgeDown("register", "bind") \/ BridgeDown("unregister", "unbind")
  BY <1>2, <1>4 DEF BridgeDown
<1>5. CASE RegisterDone \/ UnregisterDone
  BY <1>2, <1>5 DEF RegisterDone, UnregisterDone
<1>6. ASSUME NEW a \in Adapters, Bind(a) PROVE CoreTable'
  <2>0. bpc = "bind" /\ UNCHANGED <<cores, bcore>>
    BY <1>6 DEF Bind
  <2>1. CASE Bound(a)
    <3>1. /\ nbindings' = nbindings + 1 /\ nbindings \in Nat /\ bpc' = bpc
          /\ shared' = shared \cup {c \in {bcore} : nbindings > 0}
      BY <2>1 DEF Bound, TypeOK
    <3>2. \A b \in Adapters : core'[b] = IF b = a THEN bcore ELSE core[b]
      BY <2>1 DEF Bound, TypeOK
    <3>3. \A b \in Adapters \ {a} : chrdev'[b] = chrdev[b]
      BY <2>1 DEF Bound, TypeOK
    <3>4. nbindings = 0 \/ bcore \in shared'
      BY <3>1
    <3>5. \A b \in Adapters : core'[b] \in cores' \cup {NULL} \cup shared'
      BY <2>0, <3>1, <3>2, <3>4 DEF CoreTable
    <3>6. \A b, e \in Adapters : b # e /\ core'[b] = core'[e] /\ core'[b] # NULL
                                 => core'[b] \in shared'
      BY <2>0, <3>1, <3>2, <3>4 DEF CoreTable
    <3>7. \A b \in Adapters : chrdev'[b] = "dev" => core'[b] # NULL
      BY <2>0, <3>2, <3>3 DEF CoreTable
    <3>8. nbindings' # 0
      BY <3>1
    <3> QED BY <2>0, <3>1, <3>5, <3>6, <3>7, <3>8 DEF CoreTable
  <2>2. CASE BindFailed(a)
    BY <1>0, <2>0, <2>2 DEF BindFailed, CoreTable, TypeOK
  <2>3. CASE /\ UNCHANGED <<core, chrdev, nbindings, shared>>
             /\ bpc' \in {bpc, "oops"}
    BY <2>0, <2>3 DEF CoreTable
  <2> QED BY <1>6, <2>1, <2>2, <2>3 DEF Bind
<1>7. CASE \E a \in Adapters : Unbind(a)
  BY <1>0, <1>7 DEF Unbind, CoreTable, TypeOK
<1> QED BY <1>1, <1>3, <1>4, <1>5, <1>6, <1>7 DEF Bridge, FEE_register, FEE_unregister

LEMMA CoreTableInit == Init => CoreTable
BY AdapterLifeAssumption DEF Init, CoreTable, AdapterLifeAssumption

LEMMA CoreTableNext == TypeOK /\ CoreTable /\ [Next]_vars => CoreTable'
<1> SUFFICES ASSUME TypeOK, CoreTable, [Next]_vars PROVE CoreTable'
  OBVIOUS
<1>1. CASE UNCHANGED vars
  BY <1>1 DEF CoreTable, vars, bindVars, bridgeVars
<1> QED BY <1>1, CoreTableDevice, CoreTableBridge DEF Next, DeviceStep

\* Wherever its probe or its remove has got to, and whatever failed, all_msix()
\* finds the adapter, the mappings and the table of vectors, and at
\* adapter->core NULL, a core structure that exists, or one that was shared.
THEOREM IsrCorrect ==
  ASSUME AllTornDown
  PROVE  Spec => []IsrSafe
<1>1. TypeOK /\ Owned /\ Holdings /\ CoreTable => IsrSafe
  <2> SUFFICES ASSUME TypeOK, Owned, Holdings, CoreTable,
                      NEW d \in Devices, irqs[d] # {}
               PROVE  /\ adapter[d] \in live
                      /\ {"regs", "globals", "table", "vectors"} \subseteq held[d]
                      /\ core[adapter[d]] \in cores \cup {NULL} \cup shared
    BY DEF IsrSafe
  <2>1. adapter[d] \in live /\ {"regs", "globals", "table", "vectors"} \subseteq held[d]
    BY DEF Owned, AdapterTable, Holdings, HeldTable, IrqTable, Bare, Armed, Resources
  <2>2. core[adapter[d]] \in cores \cup {NULL} \cup shared
    BY <2>1 DEF CoreTable, TypeOK
  <2> QED BY <2>1, <2>2
<1> QED BY <1>1, HoldingsCorrect, CoreTableInit, CoreTableNext, PTL DEF Spec

-----------------------------------------------------------------------------
(***************************************************************************)
(* Bad pointers.  The core structure an insmod is binding to is used by    *)
(* adapters on the list only, and while the walk lasts nobody leaves the   *)
(* list: so nobody frees it.                                               *)
(***************************************************************************)
CoreWalk ==
  fault \notin {"send", "probe_signal"} /\ bpc = "bind" =>
    /\ bcore \in cores
    /\ \A a \in Adapters : core[a] = bcore => a \in list

LEMMA CoreWalkDevice ==
  ASSUME ListInv, CoreTable, CoreWalk, NEW d \in Devices, DeviceStep(d)
  PROVE  CoreWalk'
<1>0. UNCHANGED <<bpc, bcore, fault>> /\ NULL \notin Devices
  BY DeviceFrame, AdapterLifeAssumption DEF OthersAlone, bridgeVars, ListInv, AdapterLifeAssumption
<1> SUFFICES ASSUME fault \notin {"send", "probe_signal"}, bpc = "bind"
             PROVE  bcore' \in cores' /\ \A a \in Adapters : core'[a] = bcore' => a \in list'
  BY <1>0 DEF CoreWalk
<1>1. list' = list
  <2>1. Walkers = {NULL}
    BY Alone DEF Walkers, ListInv
  <2>2. pc[d] \notin {"walk", "rdel"}
    BY <1>0, <2>1 DEF Walkers
  <2> QED BY <2>2, AtList DEF Apart, listVars, ListInv
<1>2. CASE KeepsCore
  BY <1>0, <1>1, <1>2 DEF KeepsCore, CoreWalk
<1>3. CASE FreesCore(d)
  <2>1. adapter[d] \notin list
    BY <1>3 DEF FreesCore, ListInv, ListTable, Listing
  <2>2. core[adapter[d]] # bcore
    BY <1>3, <2>1 DEF FreesCore, CoreWalk
  <2>3. \A a \in Adapters : core'[a] \in {core[a], NULL}
    BY <1>3 DEF FreesCore, ListInv, TypeOK
  <2>4. bcore # NULL
    BY DEF CoreTable
  <2> QED BY <1>0, <1>1, <1>3, <2>2, <2>3, <2>4 DEF FreesCore, CoreWalk
<1> QED BY <1>2, <1>3, CoreDevice DEF ListInv

LEMMA CoreWalkBridge ==
  ASSUME ListInv, CoreTable, WalkTable, CoreWalk, Bridge
  PROVE  CoreWalk'
<1>0. list' = list /\ fault' = fault
  BY BridgeFrame
<1> SUFFICES ASSUME fault \notin {"send", "probe_signal"}, bpc' = "bind"
             PROVE  bcore' \in cores' /\ \A a \in Adapters : core'[a] = bcore' => a \in list'
  BY <1>0 DEF CoreWalk
<1>1. CASE BridgeDown("register", "bind")
  BY <1>1 DEF BridgeDown, CoreTable, bindVars
<1>2. ASSUME NEW a \in Adapters, Bind(a)
      PROVE  bcore' \in cores' /\ \A b \in Adapters : core'[b] = bcore' => b \in list'
  <2>1. bpc = "bind" /\ a \in list /\ UNCHANGED <<bcore, cores>>
    BY <1>2 DEF Bind, WalkTable
  <2>2. \A b \in Adapters : core'[b] = core[b] \/ b = a
    BY <1>2 DEF Bind, Bound, BindFailed, ListInv, TypeOK
  <2> QED BY <1>0, <2>1, <2>2 DEF CoreWalk
<1>3. bpc \in {"register", "bind"}
  BY DEF Bridge, FEE_register, FEE_unregister, gf_bridge_init, gf_bridge_exit, Bind, Unbind,
         BridgeDown, BridgeInterrupted, RegisterDone, UnregisterDone
<1> QED
  BY <1>1, <1>2, <1>3
     DEF Bridge, FEE_register, FEE_unregister, gf_bridge_init, gf_bridge_exit, Unbind,
         BridgeDown, BridgeInterrupted, RegisterDone, UnregisterDone

OopsInv == ListInv /\ WalkTable /\ CoreTable /\ CoreWalk

LEMMA OopsInvCorrect == Spec => []OopsInv
<1>1. Init => CoreWalk
  BY DEF Init, CoreWalk
<1>2. OopsInv /\ [Next]_vars => CoreWalk'
  <2> SUFFICES ASSUME OopsInv, [Next]_vars PROVE CoreWalk'
    OBVIOUS
  <2>1. CASE UNCHANGED vars
    BY <2>1 DEF OopsInv, CoreWalk, vars, listVars, bindVars, bridgeVars
  <2> QED BY <2>1, CoreWalkDevice, CoreWalkBridge DEF OopsInv, Next, DeviceStep
<1> QED
  BY <1>1, <1>2, ListInvCorrect, WalkInit, WalkNext, CoreTableInit, CoreTableNext, PTL
     DEF Spec, OopsInv, ListInv

\* A shared core structure that was freed is not allocated again.
LEMMA SharedFreed ==
  ASSUME TypeOK, [Next]_vars, ~ shared \subseteq cores
  PROVE  ~ (shared \subseteq cores)'
<1>1. ASSUME NEW d \in Devices, DeviceStep(d) PROVE shared' = shared /\ cores' \subseteq cores
  BY <1>1, DeviceFrame, CoreDevice DEF OthersAlone, bridgeVars, KeepsCore, FreesCore
<1>2. CASE UNCHANGED vars
  BY <1>2 DEF vars, bindVars, bridgeVars
<1>3. CASE \E c \in Cores, s \in OnlySlots : gf_bridge_init(c, s)
  BY <1>3 DEF gf_bridge_init, genz_core_structure_create
<1>4. ASSUME Bridge, ~ \E c \in Cores, s \in OnlySlots : gf_bridge_init(c, s)
      PROVE  shared \subseteq shared' /\ cores' = cores
  BY <1>4 DEF Bridge, FEE_register, FEE_unregister, gf_bridge_exit, Bind, Bound, BindFailed,
              Unbind, BridgeDown, BridgeInterrupted, RegisterDone, UnregisterDone, bindVars
<1> QED BY <1>1, <1>2, <1>3, <1>4 DEF Next, DeviceStep

\* No thread follows a bad pointer, be it to an adapter, a device, a slot or a
\* core structure, unless a fault of four kinds happens or a core structure
\* that several adapters share was freed by one of them.
THEOREM OopsCorrect == Spec => []NeverOops
<1>1. Init => NeverOops
  BY DEF Init, NeverOops, SomeOops
<1>2. OopsInv /\ NeverOops /\ [Next]_vars => NeverOops'
  <2> SUFFICES ASSUME OopsInv, NeverOops, [Next]_vars PROVE NeverOops'
    OBVIOUS
  <2> SUFFICES ASSUME fault \notin {"send", "probe_signal", "noslot", "chrdev"},
                      shared \subseteq cores
               PROVE  ~ SomeOops'
    <3>1. fault' = fault
      <4>1. ASSUME NEW d \in Devices, DeviceStep(d) PROVE fault' = fault
        BY <4>1, DeviceFrame DEF OopsInv, ListInv, OthersAlone
      <4> QED BY <4>1, BridgeFrame DEF Next, DeviceStep, vars
    <3> QED BY <3>1, SharedFreed DEF OopsInv, ListInv, NeverOops
  <2>0. ~ SomeOops /\ list \subseteq live /\ \A a \in Adapters : ~ CoreFreed(a)
    BY DEF NeverOops, OopsInv, ListInv, ListTable, CoreTable, CoreFreed
  <2>1. CASE UNCHANGED <<pc, bpc>>
    BY <2>0, <2>1 DEF SomeOops
  <2>2. ASSUME NEW d \in Devices, DeviceStep(d) PROVE ~ SomeOops'
    <3>1. bpc' = bpc /\ \A e \in Devices \ {d} : pc'[e] = pc[e]
      BY <2>2, DeviceFrame DEF OthersAlone, bridgeVars, OopsInv, ListInv
    <3>2. pc'[d] # "oops"
      BY <2>0, <2>2, ApartStep, AtList DEF ApartList, OopsInv, ListInv
    <3> QED BY <2>0, <3>1, <3>2 DEF SomeOops
  <2>3. ASSUME Bridge PROVE ~ SomeOops'
    <3>1. pc' = pc
      BY <2>3, BridgeFrame
    <3>2. ASSUME bpc' = "oops", bpc # "oops"
          PROVE  \E a \in todo : /\ a \in Adapters /\ bpc \in {"bind", "unbind"}
                                 /\ \/ a \notin live \/ chrdev[a] = "err" \/ CoreFreed(a)
                                    \/ bpc = "bind" /\ bcore \notin cores
      BY <2>3, <3>2
         DEF Bridge, FEE_register, FEE_unregister, gf_bridge_init, gf_bridge_exit, Bind, Bound,
             BindFailed, Unbind, BridgeDown, BridgeInterrupted, RegisterDone, UnregisterDone
    <3>3. bpc' # "oops"
      BY <2>0, <3>2 DEF SomeOops, OopsInv, WalkTable, CoreWalk
    <3> QED BY <2>0, <3>1, <3>3 DEF SomeOops
  <2> QED BY <2>1, <2>2, <2>3 DEF Next, DeviceStep, vars, bridgeVars
<1> QED BY <1>1, <1>2, OopsInvCorrect, PTL DEF Spec

-----------------------------------------------------------------------------
(***************************************************************************)
(* The bindings.  As long as the bridge module is loaded nobody is being   *)
(* removed, so the list only grows and everything that was bound is found  *)
(* on it again.  This does not need the semaphore.                         *)
(***************************************************************************)
BridgeTable ==
  fault \notin {"exit_signal", "unplug", "chrdev"} =>
    /\ bpc \in {"out", "register"} => registered = {}
    /\ bpc = "bind" => /\ todo \subseteq list /\ registered \subseteq list
                       /\ nbindings = 0 => registered = {}
    /\ bpc \in {"in", "unregister"} => registered \subseteq list
    /\ bpc = "unbind" => registered \subseteq todo
    /\ bpc # "out" => \A d \in Devices : pc[d] \notin Removing

LEMMA BridgeTableDevice ==
  ASSUME TypeOK, BridgeTable, NEW d \in Devices, DeviceStep(d)
  PROVE  BridgeTable'
<1> SUFFICES ASSUME fault \notin {"exit_signal", "unplug", "chrdev"} PROVE BridgeTable'
  BY DeviceFrame DEF OthersAlone, BridgeTable
<1>0. /\ UNCHANGED <<bpc, todo, nbindings, registered, fault>>
      /\ \A e \in Devices \ {d} : pc'[e] = pc[e]
  BY DeviceFrame DEF OthersAlone, bridgeVars
<1>1. ASSUME bpc # "out" PROVE pc'[d] \notin Removing /\ list \subseteq list'
  <2>1. pc[d] \notin Removing
    BY <1>1 DEF BridgeTable
  <2>2. CASE Apart(d)
    BY <1>1, <2>1, <2>2, ApartStep DEF ApartList, Apart, listVars
  <2>3. CASE ~ Apart(d)
    BY <2>1, <2>3, AtList DEF ChangeList, Removing
  <2> QED BY <2>2, <2>3
<1> QED BY <1>0, <1>1 DEF BridgeTable

LEMMA BridgeTableBridge ==
  ASSUME TypeOK, BridgeTable, Bridge
  PROVE  BridgeTable'
<1> SUFFICES ASSUME fault \notin {"exit_signal", "unplug", "chrdev"} PROVE BridgeTable'
  BY BridgeFrame DEF BridgeTable
<1>0. list' = list /\ pc' = pc /\ fault' = fault
  BY BridgeFrame
<1> USE DEF BridgeTable, bindVars
<1>1. CASE \E c \in Cores, s \in OnlySlots : gf_bridge_init(c, s)
  BY <1>0, <1>1 DEF gf_bridge_init
<1>2. CASE gf_bridge_exit
  BY <1>0, <1>2 DEF gf_bridge_exit
<1>3. CASE \E from \in Interruptible : BridgeInterrupted(from)
  BY <1>0, <1>3 DEF BridgeInterrupted, Interruptible
<1>4. CASE BridgeDown("register", "bind") \/ BridgeDown("unregister", "unbind")
  BY <1>0, <1>4 DEF BridgeDown
<1>5. CASE RegisterDone \/ UnregisterDone
  BY <1>0, <1>5 DEF RegisterDone, UnregisterDone, TypeOK
<1>6. ASSUME NEW a \in Adapters, Bind(a) PROVE BridgeTable'
  <2>1. bpc = "bind" /\ a \in todo /\ todo' = todo \ {a}
    BY <1>6 DEF Bind
  <2>2. \/ bpc' = "oops"
        \/ bpc' = bpc /\ registered' = registered /\ nbindings' = nbindings
        \/ bpc' = bpc /\ registered' = registered \cup {a} /\ nbindings' = nbindings + 1
    BY <1>6 DEF Bind, Bound, Happens
  <2> QED BY <1>0, <2>1, <2>2 DEF TypeOK
<1>7. CASE \E a \in Adapters : Unbind(a)
  BY <1>0, <1>7 DEF Unbind
<1> QED BY <1>1, <1>2, <1>3, <1>4, <1>5, <1>6, <1>7 DEF Bridge, FEE_register, FEE_unregister

\* rmmod of the bridge, or an insmod that fails, leaves no character device
\* behind, unless rmmod is interrupted, a device in use is unplugged or a
\* binding fails.  An ignored signal in a probe does no harm here.
THEOREM BridgeCorrect == Spec => []BridgeGone
<1>1. Init => BridgeTable
  BY DEF Init, BridgeTable
<1>2. TypeOK /\ BridgeTable /\ [Next]_vars => BridgeTable'
  <2> SUFFICES ASSUME TypeOK, BridgeTable, [Next]_vars PROVE BridgeTable'
    OBVIOUS
  <2>1. CASE UNCHANGED vars
    BY <2>1 DEF BridgeTable, vars, listVars, bindVars, bridgeVars
  <2> QED BY <2>1, BridgeTableDevice, BridgeTableBridge DEF Next, DeviceStep
<1>3. BridgeTable => BridgeGone
  BY DEF BridgeTable, BridgeGone
<1> QED BY <1>1, <1>2, <1>3, TypeCorrect, PTL DEF Spec
=============================================================================
