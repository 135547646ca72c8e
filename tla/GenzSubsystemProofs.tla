------------------------ MODULE GenzSubsystemProofs ------------------------
(***************************************************************************)
(* Theorems about GenzSubsystem for every number of callers, slots, buses, *)
(* minors, majors and interfaces, under either kind of fault.              *)
(***************************************************************************)
EXTENDS GenzSubsystem, TLAPS, SequenceTheorems

\* A step of a caller, and of insmod or rmmod.
CallStep(c) == (\E s \in Slots : Alloc(c, s)) \/ Lock(c) \/ Call(c) \/ StartUnregister(c)
SubStep     == genz_subsystem_init \/ genz_subsystem_exit

\* Where genz_register_char_device() has bridge_mutex.
Locked == {"minor", "alloc", "region", "bus", "find", "cdev", "device", "core",
           "interfaces", "files", "unlock"}

\* Where it may fail, and what it may return then.
Failing == {"minor", "alloc", "region", "bus", "cdev", "core", "interfaces", "files"}
Errnos  == {"-EDOM", "-ENODEV", "-ENOMEM"}

\* The steps of a caller, one by one.
LEMMA CallCases ==
  ASSUME NEW c \in Callers, CallStep(c)
  PROVE  \/ (\E s \in Slots : Alloc(c, s)) \/ Lock(c)
         \/ (\E from \in Failing, errno \in Errnos : Fail(c, from, errno))
         \/ FindMinor(c) \/ (\E m \in Majors, from \in {"alloc", "region"} : TakeMinor(c, from, m))
         \/ BusLock(c) \/ BusFound(c) \/ BusNotAdded(c) \/ CdevAdd(c) \/ DeviceCreate(c)
         \/ AddEntry(c, "core", "interfaces", "core")
         \/ AddEntry(c, "interfaces", "files", "interfaces")
         \/ AddFile(c) \/ Unlock(c) \/ StartUnregister(c)
         \/ RemoveInterfaces(c) \/ RemoveCore(c) \/ Destroy(c)
BY DEF CallStep, Call, genz_register_char_device, genz_unregister_char_device,
       genz_find_bus_by_PCIslotnum, Failing, Errnos

\* What a step of one caller leaves alone: the other callers and the module.
OthersAlone(c) ==
  /\ \A e \in Callers \ {c} :
       /\ pc'[e] = pc[e] /\ slot'[e] = slot[e] /\ minor'[e] = minor[e]
       /\ parent'[e] = parent[e] /\ cdev'[e] = cdev[e] /\ this_device'[e] = this_device[e]
       /\ sysfs'[e] = sysfs[e] /\ files'[e] = files[e] /\ ret'[e] = ret[e]
  /\ UNCHANGED <<subVars, fault>>

LEMMA CallFrame ==
  ASSUME TypeOK, NEW c \in Callers, CallStep(c)
  PROVE  OthersAlone(c)
<1> USE DEF TypeOK, OthersAlone, Step, callVars
<1>1. CASE \E s \in Slots : Alloc(c, s)
  BY <1>1 DEF Alloc
<1>2. CASE Lock(c) \/ Unlock(c) \/ StartUnregister(c)
  BY <1>2 DEF Lock, Unlock, StartUnregister
<1>3. CASE \E from \in Failing, errno \in Errnos : Fail(c, from, errno)
  BY <1>3 DEF Fail
<1>4. CASE FindMinor(c)
  BY <1>4 DEF FindMinor
<1>5. CASE \E m \in Majors, from \in {"alloc", "region"} : TakeMinor(c, from, m)
  BY <1>5 DEF TakeMinor
<1>6. CASE BusLock(c) \/ BusFound(c) \/ BusNotAdded(c)
  BY <1>6 DEF BusLock, BusFound, BusNotAdded
<1>7. CASE CdevAdd(c) \/ DeviceCreate(c)
  BY <1>7 DEF CdevAdd, DeviceCreate
<1>8. CASE \/ AddEntry(c, "core", "interfaces", "core")
           \/ AddEntry(c, "interfaces", "files", "interfaces") \/ AddFile(c)
  BY <1>8 DEF AddEntry, AddFile
<1>9. CASE RemoveInterfaces(c) \/ RemoveCore(c) \/ Destroy(c)
  BY <1>9 DEF RemoveInterfaces, RemoveCore, Destroy
<1> QED BY <1>1, <1>2, <1>3, <1>4, <1>5, <1>6, <1>7, <1>8, <1>9, CallCases

-----------------------------------------------------------------------------
(***************************************************************************)
(* The parts of the inductive invariant.                                   *)
(***************************************************************************)
\* Calls are in progress and devices exist only while the module is loaded.
Loaded == spc = "in" \/ \A c \in Callers : pc[c] = "idle"

\* Who has bridge_mutex and genz_bus_mutex.
Mutexes ==
  \A c \in Callers : /\ pc[c] \in Locked <=> mutex = c
                     /\ pc[c] = "find" <=> bus_mutex = c

\* What a device that was registered has.
Whole(c) ==
  /\ this_device[c] = "dev" /\ cdev[c] # NULL
  /\ sysfs[c] = {"core", "interfaces"} /\ files[c] = MaxInterface

\* What a caller has at each place of its call.
Undoing == {"unlock", "unfiles", "uncore", "undevice", "oops"}
Early   == {"idle", "lock", "minor", "alloc", "region", "bus", "find", "cdev"}

CallTable(c) ==
  /\ pc[c] \notin Undoing => ret[c] = "0"
  /\ pc[c] = "registered" \/ (pc[c] = "unlock" /\ ret[c] = "0") => Whole(c)
  /\ pc[c] \in Early => cdev[c] = NULL
  /\ pc[c] \in Early \cup {"device"} => this_device[c] = NULL
  /\ pc[c] \in {"core", "interfaces", "files"} => this_device[c] = "dev"
  /\ pc[c] \in {"device", "core", "interfaces", "files"} => cdev[c] # NULL
  /\ pc[c] \in Early \cup {"device", "core", "undevice"} => sysfs[c] = {}
  /\ pc[c] = "interfaces" => sysfs[c] = {"core"}
  /\ pc[c] = "files" => sysfs[c] = {"core", "interfaces"} /\ files[c] < MaxInterface
  /\ pc[c] = "uncore" => "interfaces" \notin sysfs[c]
  /\ "interfaces" \notin sysfs[c] => files[c] = 0

\* The arguments of a call: its slot and the minor it was given.
ArgTable(c) ==
  /\ pc[c] # "idle" => slot[c] \in Slots
  /\ pc[c] = "find" => slot[c] <= MAXBUSES
  /\ pc[c] \in {"alloc", "region", "bus", "find", "cdev"} => minor[c] \in Minors
  /\ cdev[c] # NULL => minor[c] \in Minors

\* A minor is a caller's own from the set_bit() on, and it has a major.
Taken(c) == pc[c] \in {"bus", "find", "cdev"} \/ cdev[c] # NULL

TakenTable ==
  /\ \A c \in Callers : Taken(c) => major # NULL /\ minor[c] \in bits
  /\ \A c, e \in Callers : Taken(c) /\ Taken(e) /\ minor[c] = minor[e] => c = e

\* The minor that was found is free until it is taken, the bitmap agrees with
\* the kernel, and a dev_t is the one of now.
MinorTable ==
  /\ spc # "out" => bits = {m \in Minors : <<major, m>> \in regions}
  /\ \A c \in Callers :
       /\ pc[c] = "alloc" => major = NULL
       /\ pc[c] = "region" => major # NULL
       /\ pc[c] \in {"alloc", "region"} => minor[c] \notin bits
       /\ cdev[c] # NULL => cdev[c] = <<major, minor[c]>>

\* Bus instances have distinct ids, and a device's parent is one of them.
Parented == {"cdev", "device", "core", "interfaces", "files", "registered"}

BusTable ==
  /\ buses \in Seq(0 .. POTPOURRID)
  /\ \A i, j \in DOMAIN buses : buses[i] = buses[j] => i = j
  /\ \A c \in Callers : pc[c] \in Parented \/ (pc[c] = "unlock" /\ ret[c] = "0") =>
       \E i \in DOMAIN buses : buses[i] = parent[c]

\* How far genz_subsystem_init() has got.
SubTable ==
  /\ spc = "out" => sub = {} /\ buses = <<>>
  /\ fault # "root" =>
       /\ root # "err" /\ spc # "oops"
       /\ spc = "bus" => sub = {"class", "root"}
       /\ spc = "root" => sub = {"class"}
       /\ spc = "fabrics" => sub = {"class", "root", "bus"}
       /\ spc = "in" => sub = All

-----------------------------------------------------------------------------
(***************************************************************************)
(* Steps of insmod and rmmod: no call is in progress, and only a load      *)
(* touches the bitmap and the major.                                       *)
(***************************************************************************)
LEMMA SubFrame ==
  ASSUME Loaded, SubStep
  PROVE  /\ \A c \in Callers : pc[c] = "idle"
         /\ UNCHANGED <<callers, bus_mutex, mutex, regions>>
         /\ \/ spc = "out" /\ spc' = "root" /\ bits' = {} /\ major' = NULL /\ UNCHANGED buses
            \/ /\ spc # "out" /\ UNCHANGED <<bits, major>>
               /\ buses' = <<>> \/ (buses' = buses /\ spc' \notin {"out", "oops"})
<1>1. CASE genz_classes_init
  BY <1>1 DEF genz_classes_init, Loaded, busVars
<1>2. CASE \/ RootRegister \/ Register("bus", "fabrics", "bus")
           \/ Register("fabrics", "in", "fabrics")
  BY <1>2 DEF RootRegister, Register, Loaded, busVars, mapVars
<1>3. CASE genz_subsystem_exit \/ \E from \in {"bus", "fabrics"} : Undo(from)
  BY <1>3 DEF genz_subsystem_exit, Undo, Loaded, mapVars
<1> QED BY <1>1, <1>2, <1>3 DEF SubStep, genz_subsystem_init

LEMMA CallLoaded ==
  ASSUME Loaded, NEW c \in Callers, CallStep(c)
  PROVE  spc = "in"
<1>1. CASE \E s \in Slots : Alloc(c, s)
  BY <1>1 DEF Alloc
<1>2. CASE ~ \E s \in Slots : Alloc(c, s)
  <2>1. pc[c] # "idle"
    BY <1>2, CallCases
       DEF Lock, Fail, Failing, FindMinor, TakeMinor, BusLock, BusFound, BusNotAdded, CdevAdd,
           DeviceCreate, AddEntry, AddFile, Unlock, StartUnregister, RemoveInterfaces,
           RemoveCore, Destroy, Step
  <2> QED BY <2>1 DEF Loaded
<1> QED BY <1>1, <1>2

LEMMA LoadedCall ==
  ASSUME TypeOK, Loaded, NEW c \in Callers, CallStep(c)
  PROVE  Loaded'
BY CallLoaded, CallFrame DEF OthersAlone, subVars, Loaded

LEMMA LoadedSub ==
  ASSUME Loaded, SubStep
  PROVE  Loaded'
BY SubFrame DEF Loaded, callers

-----------------------------------------------------------------------------
(***************************************************************************)
(* Types.                                                                  *)
(***************************************************************************)
LEMMA Constants ==
  /\ MAXBUSES \in Nat /\ Slots \subseteq Int /\ Majors \subseteq Nat
  /\ GENZ_MINORBITS \in Nat \ {0} /\ MaxInterface \in Nat \ {0}
  /\ NULL \notin Callers \cup Slots \cup Majors \cup DevTs \cup {"dev", "err"}
  /\ Minors \subseteq Nat
BY GenzSubsystemAssumption DEF GenzSubsystemAssumption, DevTs, Minors

\* The id of the bus for a slot that is not too large is one a bus may have.
LEMMA BusIds ==
  ASSUME NEW s \in Slots, s <= MAXBUSES
  PROVE  BusId(s) \in 0 .. POTPOURRID
BY Constants DEF BusId, POTPOURRID

\* The list after a bus was found, or made and added at its end.
LEMMA BusAppend ==
  ASSUME NEW c \in Callers, ArgTable(c), BusTable, pc[c] = "find",
         buses' = IF Listed(slot[c]) THEN buses ELSE Append(buses, BusId(slot[c]))
  PROVE  /\ buses' \in Seq(0 .. POTPOURRID)
         /\ \A i \in DOMAIN buses' : buses'[i] \in 0 .. POTPOURRID
         /\ \A i, j \in DOMAIN buses' : buses'[i] = buses'[j] => i = j
         /\ DOMAIN buses \subseteq DOMAIN buses'
         /\ \A i \in DOMAIN buses : buses'[i] = buses[i]
         /\ \E i \in DOMAIN buses' : buses'[i] = BusId(slot[c])
<1> DEFINE id == BusId(slot[c])
<1>1. id \in 0 .. POTPOURRID
  BY BusIds DEF ArgTable
<1>2. buses \in Seq(0 .. POTPOURRID)
  BY DEF BusTable
<1>3. CASE Listed(slot[c])
  <2>1. buses' = buses
    BY <1>3
  <2>2. \A i \in DOMAIN buses : buses[i] \in 0 .. POTPOURRID
    BY <1>2, ElementOfSeq, LenProperties
  <2> QED BY <1>2, <1>3, <2>1, <2>2 DEF BusTable, Listed
<1>4. CASE ~ Listed(slot[c])
  <2> HIDE DEF id
  <2>1. buses' = Append(buses, id)
    BY <1>4 DEF id
  <2>2. /\ buses' \in Seq(0 .. POTPOURRID) /\ Len(buses') = Len(buses) + 1
        /\ DOMAIN buses = 1 .. Len(buses) /\ DOMAIN buses' = 1 .. Len(buses) + 1
        /\ Len(buses) \in Nat
    <3>1. Append(buses, id) \in Seq(0 .. POTPOURRID) /\ Len(Append(buses, id)) = Len(buses) + 1
      BY <1>1, <1>2, AppendProperties
    <3>2. Len(buses) \in Nat /\ DOMAIN buses = 1 .. Len(buses)
      BY <1>2, LenProperties
    <3>3. DOMAIN Append(buses, id) = 1 .. Len(buses) + 1
      BY <3>1, LenProperties
    <3> QED BY <2>1, <3>1, <3>2, <3>3
  <2>3. \A i \in 1 .. Len(buses) : buses'[i] = buses[i]
    BY <1>1, <1>2, <2>1
  <2>4. buses'[Len(buses) + 1] = id
    BY <1>1, <1>2, <2>1
  <2>5. \A i \in DOMAIN buses : buses[i] # id
    BY <1>4 DEF Listed, id
  <2>6. \A i, j \in DOMAIN buses' : buses'[i] = buses'[j] => i = j
    <3> SUFFICES ASSUME NEW i \in 1 .. Len(buses) + 1, NEW j \in 1 .. Len(buses) + 1,
                        buses'[i] = buses'[j]
                 PROVE  i = j
      BY <2>2
    <3>1. CASE i \in 1 .. Len(buses) /\ j \in 1 .. Len(buses)
      BY <2>2, <2>3, <3>1 DEF BusTable
    <3>2. CASE i = Len(buses) + 1 \/ j = Len(buses) + 1
      BY <2>2, <2>3, <2>4, <2>5, <3>2
    <3> QED BY <2>2, <3>1, <3>2
  <2>7. \A i \in DOMAIN buses' : buses'[i] \in 0 .. POTPOURRID
    BY <2>2, ElementOfSeq
  <2>8. \E i \in DOMAIN buses' : buses'[i] = id
    BY <2>2, <2>4
  <2> QED BY <2>2, <2>3, <2>6, <2>7, <2>8 DEF id
<1> QED BY <1>3, <1>4

LEMMA TypeCall ==
  ASSUME TypeOK, NEW c \in Callers, CallTable(c), ArgTable(c), TakenTable, BusTable,
         CallStep(c)
  PROVE  TypeOK'
<1> USE DEF Step, subVars, busVars, mapVars, callVars
<1>1. CASE \E s \in Slots : Alloc(c, s)
  BY <1>1 DEF Alloc, TypeOK, PCs
<1>2. CASE Lock(c) \/ Unlock(c) \/ StartUnregister(c)
  BY <1>2 DEF Lock, Unlock, StartUnregister, TypeOK, PCs
<1>3. CASE \E from \in Failing, errno \in Errnos : Fail(c, from, errno)
  BY <1>3 DEF Fail, Errnos, TypeOK, PCs
<1>4. CASE FindMinor(c)
  BY <1>4 DEF FindMinor, ZeroBits, TypeOK, PCs
<1>5. CASE \E m \in Majors, from \in {"alloc", "region"} : TakeMinor(c, from, m)
  <2>1. minor[c] \in Minors
    BY <1>5 DEF TakeMinor, ArgTable
  <2>2. bits' \subseteq Minors /\ regions' \subseteq DevTs /\ major' \in Majors
    BY <1>5, <2>1 DEF TakeMinor, TypeOK, DevTs
  <2> QED BY <1>5, <2>2 DEF TakeMinor, TypeOK, PCs
<1>6. CASE BusLock(c) \/ BusNotAdded(c)
  BY <1>6 DEF BusLock, BusNotAdded, TypeOK, PCs
<1>7. CASE BusFound(c)
  <2>1. BusId(slot[c]) \in 0 .. POTPOURRID
    BY <1>7, BusIds DEF BusFound, ArgTable
  <2>2. \A i \in DOMAIN buses' : buses'[i] \in 0 .. POTPOURRID
    BY <1>7, BusAppend DEF BusFound
  <2> QED BY <1>7, <2>1, <2>2 DEF BusFound, TypeOK, PCs
<1>8. CASE CdevAdd(c)
  <2>1. <<major, minor[c]>> \in DevTs
    BY <1>8 DEF CdevAdd, ArgTable, TakenTable, Taken, TypeOK, DevTs
  <2> QED BY <1>8, <2>1 DEF CdevAdd, TypeOK, PCs
<1>9. CASE DeviceCreate(c)
  BY <1>9 DEF DeviceCreate, TypeOK, PCs
<1>10. CASE \/ AddEntry(c, "core", "interfaces", "core")
            \/ AddEntry(c, "interfaces", "files", "interfaces")
  BY <1>10 DEF AddEntry, TypeOK, PCs
<1>11. CASE AddFile(c)
  <2>1. files' \in [Callers -> 0 .. MaxInterface]
    BY <1>11, Constants DEF AddFile, CallTable, TypeOK
  <2> QED BY <1>11, <2>1 DEF AddFile, TypeOK, PCs
<1>12. CASE RemoveInterfaces(c)
  BY <1>12, Constants DEF RemoveInterfaces, TypeOK, PCs
<1>13. CASE RemoveCore(c) \/ Destroy(c)
  BY <1>13 DEF RemoveCore, Destroy, TypeOK, PCs
<1> QED BY <1>1, <1>2, <1>3, <1>4, <1>5, <1>6, <1>7, <1>8, <1>9, <1>10, <1>11, <1>12, <1>13,
           CallCases

LEMMA TypeSub ==
  ASSUME TypeOK, SubStep
  PROVE  TypeOK'
<1> USE DEF TypeOK, All, callers, callVars, busVars, mapVars
<1>1. CASE genz_classes_init \/ RootRegister
  BY <1>1 DEF genz_classes_init, RootRegister
<1>2. CASE Register("bus", "fabrics", "bus") \/ Register("fabrics", "in", "fabrics")
  BY <1>2 DEF Register
<1>3. CASE genz_subsystem_exit \/ \E from \in {"bus", "fabrics"} : Undo(from)
  <2>1. /\ spc' \in {"oops", "out"} /\ sub' \subseteq All /\ buses' = <<>>
        /\ UNCHANGED <<callers, root, bus_mutex, mapVars>>
    BY <1>3 DEF genz_subsystem_exit, Undo
  <2> QED BY <2>1
<1> QED BY <1>1, <1>2, <1>3 DEF SubStep, genz_subsystem_init

-----------------------------------------------------------------------------
(***************************************************************************)
(* The mutexes.                                                            *)
(***************************************************************************)
LEMMA MutexesCall ==
  ASSUME TypeOK, Mutexes, NEW c \in Callers, CallStep(c)
  PROVE  Mutexes'
<1>0. \A e \in Callers \ {c} : pc'[e] = pc[e]
  BY CallFrame DEF OthersAlone
<1>1. c # NULL
  BY Constants
<1>2. CASE /\ mutex' = mutex /\ (pc[c] \in Locked <=> pc'[c] \in Locked)
           /\ bus_mutex' = bus_mutex /\ pc[c] # "find" /\ pc'[c] # "find"
  BY <1>0, <1>2 DEF Mutexes
<1> USE DEF Step, TypeOK, busVars, mapVars, Locked
<1>3. CASE Lock(c)
  <2>1. mutex = NULL /\ mutex' = c /\ bus_mutex' = bus_mutex
        /\ pc[c] = "lock" /\ pc'[c] = "minor"
    BY <1>3 DEF Lock
  <2>2. \A e \in Callers : pc[e] \notin Locked
    BY <2>1, Constants DEF Mutexes
  <2> QED BY <1>0, <2>1, <2>2 DEF Mutexes
<1>4. CASE Unlock(c)
  <2>1. mutex' = NULL /\ bus_mutex' = bus_mutex /\ pc[c] = "unlock"
        /\ pc'[c] \in {"registered", "unfiles"}
    BY <1>4 DEF Unlock
  <2>2. \A e \in Callers \ {c} : pc[e] \notin Locked
    BY <2>1 DEF Mutexes
  <2> QED BY <1>0, <1>1, <2>1, <2>2, Constants DEF Mutexes
<1>5. CASE BusLock(c)
  BY <1>0, <1>1, <1>5, Constants DEF BusLock, Mutexes
<1>6. CASE BusFound(c) \/ BusNotAdded(c)
  <2>1. mutex' = mutex /\ bus_mutex' = NULL /\ pc[c] = "find" /\ pc'[c] \in {"cdev", "unlock"}
    BY <1>6 DEF BusFound, BusNotAdded
  <2>2. \A e \in Callers \ {c} : pc[e] # "find"
    BY <2>1 DEF Mutexes
  <2> QED BY <1>0, <1>1, <2>1, <2>2, Constants DEF Mutexes
<1>7. CASE \/ \E s \in Slots : Alloc(c, s)
           \/ \E from \in Failing, errno \in Errnos : Fail(c, from, errno)
           \/ FindMinor(c)
           \/ \E m \in Majors, from \in {"alloc", "region"} : TakeMinor(c, from, m)
  BY <1>2, <1>7 DEF Alloc, Fail, Failing, FindMinor, TakeMinor
<1>8. CASE \/ CdevAdd(c) \/ DeviceCreate(c)
           \/ AddEntry(c, "core", "interfaces", "core")
           \/ AddEntry(c, "interfaces", "files", "interfaces") \/ AddFile(c)
  BY <1>2, <1>8 DEF CdevAdd, DeviceCreate, AddEntry, AddFile
<1>9. CASE StartUnregister(c) \/ RemoveInterfaces(c) \/ RemoveCore(c) \/ Destroy(c)
  BY <1>2, <1>9 DEF StartUnregister, RemoveInterfaces, RemoveCore, Destroy
<1> QED BY <1>3, <1>4, <1>5, <1>6, <1>7, <1>8, <1>9, CallCases

-----------------------------------------------------------------------------
(***************************************************************************)
(* The tables.                                                             *)
(***************************************************************************)
LEMMA CallTableStep ==
  ASSUME TypeOK, NEW c \in Callers, CallTable(c), ArgTable(c), TakenTable, CallStep(c)
  PROVE  CallTable(c)'
<1> USE DEF Step, TypeOK, CallTable, Whole, Undoing, Early, callVars
<1>1. CASE \E s \in Slots : Alloc(c, s)
  BY <1>1 DEF Alloc
<1>2. CASE Lock(c) \/ Unlock(c) \/ StartUnregister(c)
  BY <1>2 DEF Lock, Unlock, StartUnregister
<1>3. CASE \E from \in Failing, errno \in Errnos : Fail(c, from, errno)
  BY <1>3 DEF Fail, Errnos
<1>4. CASE FindMinor(c) \/ \E m \in Majors, from \in {"alloc", "region"} : TakeMinor(c, from, m)
  BY <1>4 DEF FindMinor, TakeMinor
<1>5. CASE BusLock(c) \/ BusFound(c) \/ BusNotAdded(c)
  BY <1>5 DEF BusLock, BusFound, BusNotAdded
<1>7. CASE DeviceCreate(c)
  BY <1>7 DEF DeviceCreate
<1>8. CASE \/ AddEntry(c, "core", "interfaces", "core")
           \/ AddEntry(c, "interfaces", "files", "interfaces")
  BY <1>8, Constants DEF AddEntry
<1>9. CASE AddFile(c)
  BY <1>9, Constants DEF AddFile
<1>10. CASE RemoveInterfaces(c)
  BY <1>10 DEF RemoveInterfaces
<1>11. CASE RemoveCore(c)
  BY <1>11 DEF RemoveCore
<1>12. CASE Destroy(c)
  BY <1>12 DEF Destroy
<1>13. CASE CdevAdd(c)
  <2>1. <<major, minor[c]>> # NULL
    BY <1>13, Constants DEF CdevAdd, ArgTable, TakenTable, Taken, DevTs
  <2> QED BY <1>13, <2>1 DEF CdevAdd
<1> QED BY <1>1, <1>2, <1>3, <1>4, <1>5, <1>7, <1>8, <1>9, <1>10, <1>11, <1>12, <1>13,
           CallCases

LEMMA ArgTableStep ==
  ASSUME TypeOK, NEW c \in Callers, CallTable(c), ArgTable(c), CallStep(c)
  PROVE  ArgTable(c)'
<1> USE DEF Step, TypeOK, ArgTable, callVars
<1>1. CASE \E s \in Slots : Alloc(c, s)
  BY <1>1 DEF Alloc
<1>2. CASE \/ Lock(c) \/ Unlock(c) \/ StartUnregister(c)
           \/ \E from \in Failing, errno \in Errnos : Fail(c, from, errno)
  BY <1>2 DEF Lock, Unlock, StartUnregister, Fail, Failing
<1>3. CASE FindMinor(c) \/ \E m \in Majors, from \in {"alloc", "region"} : TakeMinor(c, from, m)
  BY <1>3 DEF FindMinor, ZeroBits, TakeMinor
<1>4. CASE BusLock(c) \/ BusFound(c) \/ BusNotAdded(c)
  BY <1>4 DEF BusLock, BusFound, BusNotAdded
<1>5. CASE \/ CdevAdd(c) \/ DeviceCreate(c)
           \/ AddEntry(c, "core", "interfaces", "core")
           \/ AddEntry(c, "interfaces", "files", "interfaces") \/ AddFile(c)
  BY <1>5 DEF CdevAdd, DeviceCreate, AddEntry, AddFile
<1>6. CASE RemoveInterfaces(c) \/ RemoveCore(c) \/ Destroy(c)
  BY <1>6 DEF RemoveInterfaces, RemoveCore, Destroy
<1> QED BY <1>1, <1>2, <1>3, <1>4, <1>5, <1>6, CallCases

-----------------------------------------------------------------------------
(***************************************************************************)
(* Minors and device numbers.                                              *)
(***************************************************************************)
\* Only the set_bit() and what comes with it changes the bitmap, the major or
\* the regions, and makes a minor a caller's own.
LEMMA MapFrame ==
  ASSUME TypeOK, NEW c \in Callers, CallTable(c), CallStep(c),
         ~ \E m \in Majors, from \in {"alloc", "region"} : TakeMinor(c, from, m)
  PROVE  /\ UNCHANGED <<bits, major, regions>>
         /\ Taken(c)' => Taken(c) /\ minor'[c] = minor[c]
         /\ pc'[c] = "alloc" => major = NULL /\ minor'[c] \notin bits
         /\ pc'[c] = "region" => major # NULL /\ minor'[c] \notin bits
         /\ cdev'[c] \in {cdev[c], NULL, <<major, minor[c]>>}
<1> USE DEF Step, TypeOK, Taken, callVars, mapVars
<1>1. CASE (\E s \in Slots : Alloc(c, s)) \/ Lock(c) \/ Unlock(c) \/ StartUnregister(c)
  BY <1>1 DEF Alloc, Lock, Unlock, StartUnregister
<1>2. CASE \E from \in Failing, errno \in Errnos : Fail(c, from, errno)
  BY <1>2 DEF Fail, Failing
<1>3. CASE FindMinor(c)
  BY <1>3 DEF FindMinor, ZeroBits, CallTable, Early
<1>4. CASE BusLock(c) \/ BusFound(c) \/ BusNotAdded(c)
  BY <1>4 DEF BusLock, BusFound, BusNotAdded
<1>5. CASE \/ CdevAdd(c) \/ DeviceCreate(c)
           \/ AddEntry(c, "core", "interfaces", "core")
           \/ AddEntry(c, "interfaces", "files", "interfaces") \/ AddFile(c)
  BY <1>5 DEF CdevAdd, DeviceCreate, AddEntry, AddFile
<1>6. CASE RemoveInterfaces(c) \/ RemoveCore(c) \/ Destroy(c)
  BY <1>6 DEF RemoveInterfaces, RemoveCore, Destroy
<1> QED BY <1>1, <1>2, <1>3, <1>4, <1>5, <1>6, CallCases

LEMMA TakenCall ==
  ASSUME TypeOK, NEW c \in Callers, CallTable(c), TakenTable, MinorTable, CallStep(c)
  PROVE  TakenTable'
<1>0. \A e \in Callers \ {c} : pc'[e] = pc[e] /\ minor'[e] = minor[e] /\ cdev'[e] = cdev[e]
  BY CallFrame DEF OthersAlone
<1>1. \A e \in Callers \ {c} : Taken(e)' <=> Taken(e)
  BY <1>0 DEF Taken
<1>2. ASSUME NEW m \in Majors, NEW from \in {"alloc", "region"}, TakeMinor(c, from, m)
      PROVE  TakenTable'
  <2>1. /\ major' # NULL /\ bits' = bits \cup {minor[c]} /\ minor'[c] = minor[c]
        /\ minor[c] \notin bits
    BY <1>2, Constants DEF TakeMinor, Step, TypeOK, MinorTable, callVars
  <2> QED BY <1>0, <1>1, <2>1 DEF TakenTable
<1>3. CASE ~ \E m \in Majors, from \in {"alloc", "region"} : TakeMinor(c, from, m)
  <2>1. UNCHANGED <<bits, major>> /\ (Taken(c)' => Taken(c) /\ minor'[c] = minor[c])
    BY <1>3, MapFrame
  <2> QED BY <1>0, <1>1, <2>1 DEF TakenTable
<1> QED BY <1>2, <1>3

LEMMA MinorCall ==
  ASSUME TypeOK, Loaded, Mutexes, NEW c \in Callers, CallTable(c), ArgTable(c), TakenTable,
         MinorTable, CallStep(c)
  PROVE  MinorTable'
<1>0. /\ \A e \in Callers \ {c} : pc'[e] = pc[e] /\ minor'[e] = minor[e] /\ cdev'[e] = cdev[e]
      /\ spc' = spc /\ spc = "in"
  BY CallFrame, CallLoaded DEF OthersAlone, subVars
<1>1. ASSUME NEW m \in Majors, NEW from \in {"alloc", "region"}, TakeMinor(c, from, m)
      PROVE  MinorTable'
  <2>1. /\ pc[c] = from /\ pc'[c] = "bus" /\ minor'[c] = minor[c] /\ cdev'[c] = cdev[c]
        /\ major' = m /\ bits' = bits \cup {minor[c]}
        /\ regions' = regions \cup {<<m, minor[c]>>}
    BY <1>1 DEF TakeMinor, Step, TypeOK, callVars
  <2>2. \A e \in Callers \ {c} : pc[e] \notin {"alloc", "region"}
    BY <2>1 DEF Mutexes, Locked
  <2>3. minor[c] \in Minors /\ cdev[c] = NULL
    BY <2>1 DEF ArgTable, CallTable, Early
  <2>4. bits = {n \in Minors : <<major, n>> \in regions}
    BY <1>0 DEF MinorTable
  <2>5. CASE from = "region"
    <3>1. m = major
      BY <1>1, <2>5 DEF TakeMinor, Region
    <3>2. bits' = {n \in Minors : <<major', n>> \in regions'}
      BY <2>1, <2>3, <2>4, <3>1
    <3> QED BY <1>0, <2>1, <2>2, <2>3, <3>1, <3>2 DEF MinorTable
  <2>6. CASE from = "alloc"
    <3>1. major = NULL /\ \A e \in Callers : cdev[e] = NULL
      BY <2>1, <2>6 DEF MinorTable, TakenTable, Taken
    <3>2. \A n : <<m, n>> \notin regions
      <4>1. \A r \in regions : r[1] # m
        BY <1>1, <2>6 DEF TakeMinor, Region, FreeMajors
      <4> QED BY <4>1
    <3>3. bits = {}
      BY <2>4, <3>1, Constants DEF TypeOK, DevTs
    <3>4. bits' = {n \in Minors : <<major', n>> \in regions'}
      BY <2>1, <2>3, <3>2, <3>3
    <3> QED BY <1>0, <2>1, <2>2, <2>3, <3>1, <3>4 DEF MinorTable
  <2> QED BY <2>5, <2>6
<1>2. CASE ~ \E m \in Majors, from \in {"alloc", "region"} : TakeMinor(c, from, m)
  <2>1. /\ UNCHANGED <<bits, major, regions>>
        /\ Taken(c)' => minor'[c] = minor[c]
        /\ pc'[c] = "alloc" => major = NULL /\ minor'[c] \notin bits
        /\ pc'[c] = "region" => major # NULL /\ minor'[c] \notin bits
        /\ cdev'[c] \in {cdev[c], NULL, <<major, minor[c]>>}
    BY <1>2, MapFrame
  <2>2. cdev'[c] # NULL => cdev'[c] = <<major', minor'[c]>>
    BY <2>1 DEF MinorTable, Taken
  <2> QED BY <1>0, <2>1, <2>2 DEF MinorTable
<1> QED BY <1>1, <1>2

-----------------------------------------------------------------------------
(***************************************************************************)
(* Bus instances.                                                          *)
(***************************************************************************)
HasParent(c) == pc[c] \in Parented \/ (pc[c] = "unlock" /\ ret[c] = "0")

LEMMA BusFrame ==
  ASSUME TypeOK, NEW c \in Callers, CallStep(c), ~ BusFound(c)
  PROVE  /\ buses' = buses
         /\ HasParent(c)' => HasParent(c) /\ parent'[c] = parent[c]
<1> USE DEF Step, TypeOK, HasParent, Parented, callVars, busVars
<1>1. CASE (\E s \in Slots : Alloc(c, s)) \/ Lock(c) \/ Unlock(c) \/ StartUnregister(c)
  BY <1>1 DEF Alloc, Lock, Unlock, StartUnregister
<1>2. CASE \E from \in Failing, errno \in Errnos : Fail(c, from, errno)
  BY <1>2 DEF Fail, Errnos
<1>3. CASE FindMinor(c) \/ \E m \in Majors, from \in {"alloc", "region"} : TakeMinor(c, from, m)
  BY <1>3 DEF FindMinor, TakeMinor
<1>4. CASE BusLock(c) \/ BusNotAdded(c)
  BY <1>4 DEF BusLock, BusNotAdded
<1>5. CASE \/ CdevAdd(c) \/ DeviceCreate(c)
           \/ AddEntry(c, "core", "interfaces", "core")
           \/ AddEntry(c, "interfaces", "files", "interfaces") \/ AddFile(c)
  BY <1>5 DEF CdevAdd, DeviceCreate, AddEntry, AddFile
<1>6. CASE RemoveInterfaces(c) \/ RemoveCore(c) \/ Destroy(c)
  BY <1>6 DEF RemoveInterfaces, RemoveCore, Destroy
<1> QED BY <1>1, <1>2, <1>3, <1>4, <1>5, <1>6, CallCases

LEMMA BusCall ==
  ASSUME TypeOK, NEW c \in Callers, CallTable(c), ArgTable(c), BusTable, CallStep(c)
  PROVE  BusTable'
<1>0. \A e \in Callers \ {c} : HasParent(e)' => HasParent(e) /\ parent'[e] = parent[e]
  BY CallFrame DEF OthersAlone, HasParent
<1>1. CASE ~ BusFound(c)
  BY <1>0, <1>1, BusFrame DEF BusTable, HasParent
<1>2. CASE BusFound(c)
  <2>1. /\ pc[c] = "find" /\ parent'[c] = BusId(slot[c])
        /\ buses' = IF Listed(slot[c]) THEN buses ELSE Append(buses, BusId(slot[c]))
    BY <1>2 DEF BusFound, Step, TypeOK
  <2>2. /\ buses' \in Seq(0 .. POTPOURRID)
        /\ \A i, j \in DOMAIN buses' : buses'[i] = buses'[j] => i = j
        /\ DOMAIN buses \subseteq DOMAIN buses'
        /\ \A i \in DOMAIN buses : buses'[i] = buses[i]
        /\ \E i \in DOMAIN buses' : buses'[i] = BusId(slot[c])
    BY <2>1, BusAppend
  <2>3. ASSUME NEW e \in Callers, HasParent(e)'
        PROVE  \E i \in DOMAIN buses' : buses'[i] = parent'[e]
    <3>1. CASE e = c
      BY <2>1, <2>2, <3>1
    <3>2. CASE e # c
      <4>1. parent'[e] = parent[e] /\ \E i \in DOMAIN buses : buses[i] = parent[e]
        BY <1>0, <2>3, <3>2 DEF BusTable, HasParent
      <4> QED BY <2>2, <4>1
    <3> QED BY <3>1, <3>2
  <2> QED BY <2>2, <2>3 DEF BusTable, HasParent
<1> QED BY <1>1, <1>2

-----------------------------------------------------------------------------
(***************************************************************************)
(* The whole invariant.                                                    *)
(***************************************************************************)
Tables == \A c \in Callers : CallTable(c) /\ ArgTable(c)

Inv == /\ TypeOK /\ Loaded /\ Mutexes /\ Tables
       /\ TakenTable /\ MinorTable /\ BusTable /\ SubTable

LEMMA InvInit == Init => Inv
<1> SUFFICES ASSUME Init PROVE Inv
  OBVIOUS
<1>1. TypeOK
  BY Constants DEF Init, TypeOK, PCs
<1>2. Loaded /\ Mutexes /\ SubTable
  BY Constants DEF Init, Loaded, Mutexes, SubTable, Locked
<1>3. Tables
  BY Constants DEF Init, Tables, CallTable, ArgTable, Whole, Undoing, Early
<1>4. TakenTable /\ MinorTable
  BY DEF Init, TakenTable, Taken, MinorTable
<1>5. BusTable
  BY EmptySeq DEF Init, BusTable, Parented
<1> QED BY <1>1, <1>2, <1>3, <1>4, <1>5 DEF Inv

LEMMA InvCall ==
  ASSUME Inv, NEW c \in Callers, CallStep(c)
  PROVE  Inv'
<1>1. CallTable(c) /\ ArgTable(c)
  BY DEF Inv, Tables
<1>2. TypeOK'
  BY <1>1, TypeCall DEF Inv
<1>3. Loaded' /\ Mutexes'
  BY LoadedCall, MutexesCall DEF Inv
<1>4. Tables'
  <2>1. CallTable(c)' /\ ArgTable(c)'
    BY <1>1, CallTableStep, ArgTableStep DEF Inv
  <2>2. ASSUME NEW e \in Callers \ {c} PROVE CallTable(e)' /\ ArgTable(e)'
    <3>1. /\ pc'[e] = pc[e] /\ slot'[e] = slot[e] /\ minor'[e] = minor[e]
          /\ cdev'[e] = cdev[e] /\ this_device'[e] = this_device[e]
          /\ sysfs'[e] = sysfs[e] /\ files'[e] = files[e] /\ ret'[e] = ret[e]
      BY CallFrame DEF OthersAlone, Inv
    <3>2. CallTable(e) /\ ArgTable(e)
      BY DEF Inv, Tables
    <3> QED BY <3>1, <3>2 DEF CallTable, ArgTable, Whole
  <2> QED BY <2>1, <2>2 DEF Tables
<1>5. TakenTable' /\ MinorTable'
  BY <1>1, TakenCall, MinorCall DEF Inv
<1>6. BusTable'
  BY <1>1, BusCall DEF Inv
<1>7. SubTable'
  BY CallFrame, CallLoaded DEF Inv, SubTable, OthersAlone, subVars
<1> QED BY <1>2, <1>3, <1>4, <1>5, <1>6, <1>7 DEF Inv

LEMMA SubTableSub ==
  ASSUME TypeOK, SubTable, SubStep
  PROVE  SubTable'
<1> USE DEF SubTable, All, callers, busVars
<1>1. CASE genz_classes_init
  BY <1>1, Constants DEF genz_classes_init
<1>2. CASE RootRegister
  BY <1>2 DEF RootRegister
<1>3. CASE Register("bus", "fabrics", "bus") \/ Register("fabrics", "in", "fabrics")
  BY <1>3 DEF Register
<1>4. CASE genz_subsystem_exit \/ \E from \in {"bus", "fabrics"} : Undo(from)
  BY <1>4 DEF genz_subsystem_exit, Undo
<1> QED BY <1>1, <1>2, <1>3, <1>4 DEF SubStep, genz_subsystem_init

LEMMA InvSub ==
  ASSUME Inv, SubStep
  PROVE  Inv'
<1>1. /\ \A c \in Callers : pc[c] = "idle"
      /\ UNCHANGED <<callers, bus_mutex, mutex, regions>>
      /\ \/ spc = "out" /\ spc' = "root" /\ bits' = {} /\ major' = NULL /\ UNCHANGED buses
         \/ /\ spc # "out" /\ UNCHANGED <<bits, major>>
            /\ buses' = <<>> \/ (buses' = buses /\ spc' \notin {"out", "oops"})
  BY SubFrame DEF Inv
<1>2. TypeOK' /\ Loaded' /\ SubTable'
  BY TypeSub, LoadedSub, SubTableSub DEF Inv
<1>3. Mutexes' /\ Tables'
  BY <1>1 DEF Inv, Mutexes, Tables, CallTable, ArgTable, Whole, callers, callVars
<1>4. \A c \in Callers : cdev[c] = NULL /\ ~ Taken(c) /\ ~ Taken(c)'
  BY <1>1 DEF Inv, Tables, CallTable, Early, Taken, callers, callVars
<1>5. TakenTable'
  BY <1>4 DEF TakenTable
<1>6. MinorTable'
  <2>1. bits' = {m \in Minors : <<major', m>> \in regions'}
    <3>1. CASE spc = "out"
      <4>1. \A m : <<NULL, m>> \notin regions
        BY Constants DEF Inv, TypeOK, DevTs
      <4> QED BY <1>1, <3>1, <4>1
    <3>2. CASE spc # "out"
      BY <1>1, <3>2 DEF Inv, MinorTable
    <3> QED BY <3>1, <3>2
  <2> QED BY <1>1, <1>4, <2>1 DEF MinorTable, callers, callVars
<1>7. BusTable'
  <2>1. CASE buses' = buses
    BY <1>1, <2>1 DEF Inv, BusTable, callers, callVars
  <2>2. CASE buses' = <<>>
    BY <1>1, <2>2, EmptySeq DEF BusTable, Parented, callers
  <2> QED BY <1>1, <2>1, <2>2
<1> QED BY <1>2, <1>3, <1>5, <1>6, <1>7 DEF Inv

LEMMA InvCorrect == Spec => []Inv
<1>1. Inv /\ [Next]_vars => Inv'
  <2> SUFFICES ASSUME Inv, [Next]_vars PROVE Inv'
    OBVIOUS
  <2>1. CASE UNCHANGED vars
    <3>1. Inv' = Inv
      BY <2>1
         DEF Inv, TypeOK, Loaded, Mutexes, Tables, CallTable, ArgTable, Whole, TakenTable, Taken,
             MinorTable, BusTable, SubTable, vars, subVars, busVars, mapVars, callers, callVars
    <3> QED BY <3>1
  <2> QED BY <2>1, InvCall, InvSub DEF Next, CallStep, SubStep
<1> QED BY <1>1, InvInit, PTL DEF Spec

-----------------------------------------------------------------------------
\* Every variable keeps its type: no bit is set past GENZ_MINORBITS, and no
\* device number is made without a major.
THEOREM TypeCorrect == Spec => []TypeOK
<1>1. Inv => TypeOK
  BY DEF Inv
<1> QED BY <1>1, InvCorrect, PTL

\* No two devices share a dev_t, however registrations, failures, unloading
\* and reloading interleave, and each lies in a region of the kernel's.
THEOREM DevTCorrect == Spec => []DevTUnique
<1>1. Inv => DevTUnique
  <2> SUFFICES ASSUME Inv, NEW c \in Callers, cdev[c] # NULL
               PROVE  /\ cdev[c] \in regions
                      /\ \A other \in Callers : cdev[other] = cdev[c] => other = c
    BY DEF DevTUnique
  <2>1. cdev[c] = <<major, minor[c]>> /\ minor[c] \in bits
    BY DEF Inv, MinorTable, TakenTable, Taken
  <2>2. spc = "in"
    BY DEF Inv, Loaded, Tables, CallTable, Early
  <2>3. cdev[c] \in regions
    BY <2>1, <2>2 DEF Inv, MinorTable
  <2>4. ASSUME NEW other \in Callers, cdev[other] = cdev[c] PROVE other = c
    <3>1. cdev[other] = <<major, minor[other]>>
      BY <2>4 DEF Inv, MinorTable
    <3>2. minor[other] = minor[c]
      BY <2>1, <2>4, <3>1
    <3> QED BY <2>4, <3>2 DEF Inv, TakenTable, Taken
  <2> QED BY <2>3, <2>4
<1> QED BY <1>1, InvCorrect, PTL

\* The bitmap and the kernel agree about the minors of bridge_major.
THEOREM BitsCorrect == Spec => []BitsAreRegions
<1>1. Inv => BitsAreRegions
  BY DEF Inv, MinorTable, BitsAreRegions
<1> QED BY <1>1, InvCorrect, PTL

\* A registered device is complete; a failure at any step leaves no sysfs
\* entry, no device and no mutex held behind.
THEOREM WholeCorrect == Spec => []WholeOrNothing
<1>1. Inv => WholeOrNothing
  BY DEF Inv, Mutexes, Locked, Tables, CallTable, Whole, Early, WholeOrNothing
<1> QED BY <1>1, InvCorrect, PTL

\* There is one bus instance of each id, and the parent of a device is one of
\* them, from its creation to its removal.
THEOREM ParentCorrect == Spec => []ParentListed
<1>1. Inv => ParentListed
  BY DEF Inv, BusTable, Parented, ParentListed
<1> QED BY <1>1, InvCorrect, PTL

\* genz_subsystem_init() and genz_subsystem_exit() leave nothing behind, unless
\* the root device could not be registered.
THEOREM InitCorrect == Spec => []InitAllOrNothing
<1>1. Inv => InitAllOrNothing
  BY DEF Inv, SubTable, InitAllOrNothing
<1> QED BY <1>1, InvCorrect, PTL
=============================================================================
