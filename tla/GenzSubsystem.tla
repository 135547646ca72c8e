--------------------------- MODULE GenzSubsystem ---------------------------
(***************************************************************************)
(* The genz module: genz_subsystem_init() and genz_subsystem_exit() with   *)
(* the bus instances of genz_bus.c, and genz_register_char_device() and    *)
(* genz_unregister_char_device() of genz_device.c.                         *)
(*                                                                         *)
(* A caller is a driver that has at most one device at a time.  Callers    *)
(* run concurrently, while the module is loaded: the kernel (external)     *)
(* refuses to unload a module that others use.  Every call of the kernel   *)
(* that can fail may fail at any time, but for the two in Faults.          *)
(***************************************************************************)
EXTENDS Integers, Sequences, FiniteSets

CONSTANTS
  Callers,
  Slots,           \* PCI slot numbers that callers pass
  MAXBUSES,
  GENZ_MINORBITS,
  MaxInterface,    \* core->MaxInterface
  Majors,          \* the kernel's free majors: bounds how often genz is loaded
  Faults,          \* of {"root", "device"}: root_device_register() fails,
                   \*   device_create() fails
  NULL

ASSUME GenzSubsystemAssumption ==
  /\ Slots \subseteq Int /\ MAXBUSES \in Nat
  /\ Majors \subseteq Nat
  /\ GENZ_MINORBITS \in Nat \ {0} /\ MaxInterface \in Nat \ {0}
  /\ Faults \subseteq {"root", "device"}
  /\ NULL \notin Callers \cup Slots \cup Majors \cup (Majors \X Nat) \cup {"dev", "err"}

POTPOURRID == MAXBUSES + 1
Minors     == 0 .. GENZ_MINORBITS - 1

VARIABLES
  spc, sub, root,   \* genz_subsystem_init(): where it is, what it has
                    \*   registered, and genz_root_device
  buses, bus_mutex, \* ids on genz_bus_list, and genz_bus_mutex
  mutex, bits, major,     \* bridge_mutex, bridge_minor_bitmap, bridge_major
  regions,          \* the kernel's: the dev_ts that are taken
  pc, slot,         \* of each caller: where it is, and its PCIslotnum
  minor, parent, cdev, this_device,  \* of its genz_chrdev
  sysfs, files,     \* sysfs entries below this_device, and interface files
  ret,              \* 0, -EDOM, or another error
  fault             \* the kind of fault this behaviour may meet, or NULL

subVars  == <<spc, sub, root>>
busVars  == <<buses, bus_mutex>>
mapVars  == <<mutex, bits, major, regions>>
callVars == <<slot, minor, parent, cdev, this_device, sysfs, files, ret>>
callers  == <<pc, callVars, fault>>
vars == <<subVars, busVars, mapVars, callers>>

Init ==
  /\ spc = "out" /\ sub = {} /\ root = NULL
  /\ buses = <<>> /\ bus_mutex = NULL
  /\ mutex = NULL /\ bits = {} /\ major = NULL /\ regions = {}
  /\ pc = [c \in Callers |-> "idle"]
  /\ \E none \in {[c \in Callers |-> NULL]} :
       slot = none /\ minor = none /\ parent = none /\ cdev = none /\ this_device = none
  /\ sysfs = [c \in Callers |-> {}] /\ files = [c \in Callers |-> 0]
  /\ ret = [c \in Callers |-> "0"]
  /\ fault \in Faults \cup {NULL}

-----------------------------------------------------------------------------
(***************************************************************************)
(* genz_subsystem_init() and genz_subsystem_exit().                        *)
(***************************************************************************)
All == {"class", "root", "bus", "fabrics"}

\* insmod starts with fresh static variables; class_register() worked.
genz_classes_init ==
  /\ spc = "out" /\ spc' = "root"
  /\ sub' = {"class"} /\ root' = NULL
  /\ bits' = {} /\ major' = NULL
  /\ UNCHANGED <<callers, busVars, mutex, regions>>

\* An ERR_PTR passes the test for NULL.
RootRegister ==
  /\ spc = "root" /\ spc' = "bus"
  /\ \E failed \in {FALSE, (fault = "root")} :
       IF failed THEN root' = "err" /\ UNCHANGED sub
                 ELSE root' = "dev" /\ sub' = sub \cup {"root"}
  /\ UNCHANGED <<callers, busVars, mapVars>>

Register(from, to, what) ==
  /\ spc = from /\ spc' = to
  /\ sub' = sub \cup {what}
  /\ UNCHANGED <<callers, root, busVars, mapVars>>

\* Mutant: the bus stays registered.
UndoKeepsBus(from) ==
  /\ spc = from /\ spc' = IF root = "err" THEN "oops" ELSE "out"
  /\ sub' = IF root = "err" THEN sub \ {"fabrics"} ELSE sub \cap {"bus"}
  /\ buses' = <<>>
  /\ UNCHANGED <<callers, root, bus_mutex, mapVars>>

\* An ERR_PTR is no root device: unregistering it comes after the bus in a
\* failed init, before it in the exit.
Undo(from) ==
  /\ spc = from /\ spc' = IF root = "err" THEN "oops" ELSE "out"
  /\ sub' = IF root # "err" THEN {}
            ELSE sub \ IF from = "in" THEN {"fabrics"} ELSE {"bus"}
  /\ buses' = <<>>
  /\ UNCHANGED <<callers, root, bus_mutex, mapVars>>

genz_subsystem_init ==
  \/ genz_classes_init \/ RootRegister
  \/ Register("bus", "fabrics", "bus") \/ Register("fabrics", "in", "fabrics")
  \/ \E from \in {"bus", "fabrics"} : Undo(from)

genz_subsystem_exit ==
  /\ \A c \in Callers : pc[c] = "idle"
  /\ Undo("in")

-----------------------------------------------------------------------------
(***************************************************************************)
(* genz_register_char_device(): the allocations, then the rest with        *)
(* bridge_mutex held.  A step that fails goes on to the unlock.            *)
(***************************************************************************)
Step(c, from, to) ==
  pc[c] = from /\ pc' = [pc EXCEPT ![c] = to] /\ UNCHANGED <<subVars, fault>>

Fail(c, from, errno) ==
  /\ Step(c, from, "unlock")
  /\ ret' = [ret EXCEPT ![c] = errno]
  /\ UNCHANGED <<busVars, mapVars, slot, minor, parent, cdev, this_device, sysfs, files>>

\* Bad arguments, or an allocation that fails, are a call without effect.
Alloc(c, s) ==
  /\ spc = "in"
  /\ Step(c, "idle", "lock")
  /\ slot' = [slot EXCEPT ![c] = s]
  /\ UNCHANGED <<busVars, mapVars, minor, parent, cdev, this_device, sysfs, files, ret>>

\* Mutant: does not lock.
LockUntaken(c) == Step(c, "lock", "minor") /\ UNCHANGED <<busVars, mapVars, callVars>>

Lock(c) ==
  /\ Step(c, "lock", "minor")
  /\ mutex = NULL /\ mutex' = c
  /\ UNCHANGED <<busVars, bits, major, regions, callVars>>

\* Mutant: one minor too many.
ZeroBitsPastEnd == (0 .. GENZ_MINORBITS) \ bits

ZeroBits == Minors \ bits

\* find_first_zero_bit().
FindMinor(c) ==
  /\ Step(c, "minor", IF major = NULL THEN "alloc" ELSE "region")
  /\ \E m \in ZeroBits : /\ \A n \in ZeroBits : m <= n
                         /\ minor' = [minor EXCEPT ![c] = m]
  /\ UNCHANGED <<busVars, mapVars, slot, parent, cdev, this_device, sysfs, files, ret>>

FreeMajors == {m \in Majors : \A r \in regions : r[1] # m}

\* register_chrdev_region() in the known major, alloc_chrdev_region() for the
\* first device: the kernel hands out the free majors from the highest down.
Region(c, from, m) ==
  \/ from = "region" /\ m = major /\ <<m, minor[c]>> \notin regions
  \/ from = "alloc" /\ m \in FreeMajors /\ \A n \in FreeMajors : n <= m

\* Mutant: without the set_bit().
TakeMinorUnmarked(c, from, m) ==
  /\ Step(c, from, "bus") /\ Region(c, from, m)
  /\ regions' = regions \cup {<<m, minor[c]>>} /\ major' = m
  /\ UNCHANGED <<busVars, mutex, bits, callVars>>

TakeMinor(c, from, m) ==
  /\ Step(c, from, "bus") /\ Region(c, from, m)
  /\ regions' = regions \cup {<<m, minor[c]>>} /\ major' = m
  /\ bits' = bits \cup {minor[c]}
  /\ UNCHANGED <<busVars, mutex, callVars>>

\* The "pick it for me" bus.
BusId(s) == IF s < 0 THEN POTPOURRID ELSE s

BusLock(c) ==
  /\ Step(c, "bus", "find") /\ slot[c] <= MAXBUSES
  /\ bus_mutex = NULL /\ bus_mutex' = c
  /\ UNCHANGED <<buses, mapVars, callVars>>

\* Mutant: a negative slot is looked for as it is.
ListedRaw(s) == \E i \in DOMAIN buses : buses[i] = s

Listed(s) == \E i \in DOMAIN buses : buses[i] = BusId(s)

\* Found, or made and added.
BusFound(c) ==
  LET id == BusId(slot[c]) IN
  /\ Step(c, "find", "cdev")
  /\ buses' = IF Listed(slot[c]) THEN buses ELSE Append(buses, id)
  /\ parent' = [parent EXCEPT ![c] = id]
  /\ bus_mutex' = NULL
  /\ UNCHANGED <<mapVars, slot, minor, cdev, this_device, sysfs, files, ret>>

\* No memory, or device_add() failed.
BusNotAdded(c) ==
  /\ Step(c, "find", "unlock") /\ ~ Listed(slot[c])
  /\ bus_mutex' = NULL
  /\ ret' = [ret EXCEPT ![c] = "-ENODEV"]
  /\ UNCHANGED <<buses, mapVars, slot, minor, parent, cdev, this_device, sysfs, files>>

genz_find_bus_by_PCIslotnum(c) ==
  \/ Fail(c, "bus", "-ENODEV") /\ slot[c] > MAXBUSES
  \/ BusLock(c) \/ BusFound(c) \/ BusNotAdded(c)

\* cdev.dev is made from the major of now; kobject_set_name() and cdev_add().
CdevAdd(c) ==
  /\ Step(c, "cdev", "device")
  /\ cdev' = [cdev EXCEPT ![c] = <<major, minor[c]>>]
  /\ UNCHANGED <<busVars, mutex, bits, major, regions, slot, minor, parent,
                 this_device, sysfs, files, ret>>

\* An ERR_PTR stays in this_device.
DeviceCreate(c) ==
  /\ \E failed \in {FALSE, (fault = "device")} :
       /\ Step(c, "device", IF failed THEN "unlock" ELSE "core")
       /\ this_device' = [this_device EXCEPT ![c] = IF failed THEN "err" ELSE "dev"]
       /\ ret' = [ret EXCEPT ![c] = IF failed THEN "-ENOMEM" ELSE @]
  /\ UNCHANGED <<busVars, mapVars, slot, minor, parent, cdev, sysfs, files>>

AddEntry(c, from, to, entry) ==
  /\ Step(c, from, to)
  /\ sysfs' = [sysfs EXCEPT ![c] = @ \cup {entry}]
  /\ UNCHANGED <<busVars, mapVars, slot, minor, parent, cdev, this_device, files, ret>>

AddFile(c) ==
  /\ Step(c, "files", IF files[c] + 1 = MaxInterface THEN "unlock" ELSE "files")
  /\ files' = [files EXCEPT ![c] = @ + 1]
  /\ UNCHANGED <<busVars, mapVars, slot, minor, parent, cdev, this_device, sysfs, ret>>

\* Mutant: a call that fails keeps the mutex.
UnlockOnSuccess(c) ==
  /\ Step(c, "unlock", IF ret[c] = "0" THEN "registered" ELSE "unfiles")
  /\ mutex' = IF ret[c] = "0" THEN NULL ELSE mutex
  /\ UNCHANGED <<busVars, bits, major, regions, callVars>>

\* A failure unwinds through genz_unregister_char_device(), after the unlock.
Unlock(c) ==
  /\ Step(c, "unlock", IF ret[c] = "0" THEN "registered" ELSE "unfiles")
  /\ mutex' = NULL
  /\ UNCHANGED <<busVars, bits, major, regions, callVars>>

genz_register_char_device(c) ==
  \/ ZeroBits = {} /\ Fail(c, "minor", "-EDOM")
  \/ FindMinor(c)
  \/ \E from \in {"alloc", "region"}, m \in Majors : TakeMinor(c, from, m)
  \/ genz_find_bus_by_PCIslotnum(c)
  \/ CdevAdd(c) \/ DeviceCreate(c)
  \/ AddEntry(c, "core", "interfaces", "core")
  \/ AddEntry(c, "interfaces", "files", "interfaces")
  \/ AddFile(c)
  \/ \E from \in {"alloc", "region", "cdev", "core", "interfaces", "files"} :
       Fail(c, from, "-ENOMEM")
  \/ Unlock(c)

-----------------------------------------------------------------------------
(***************************************************************************)
(* genz_unregister_char_device(), of a whole device or of what there is.   *)
(* The minor, its region and the cdev are not given back.                  *)
(***************************************************************************)
StartUnregister(c) == Step(c, "registered", "unfiles") /\ UNCHANGED <<busVars, mapVars, callVars>>

RemoveInterfaces(c) ==
  /\ Step(c, "unfiles", "uncore")
  /\ IF "interfaces" \in sysfs[c]
     THEN /\ files' = [files EXCEPT ![c] = 0]
          /\ sysfs' = [sysfs EXCEPT ![c] = @ \ {"interfaces"}]
     ELSE UNCHANGED <<files, sysfs>>
  /\ UNCHANGED <<busVars, mapVars, slot, minor, parent, cdev, this_device, ret>>

\* Mutant: forgotten.
RemoveCoreForgotten(c) == Step(c, "uncore", "undevice") /\ UNCHANGED <<busVars, mapVars, callVars>>

\* device_remove_bin_file() accepts NULL, not an ERR_PTR.
RemoveCore(c) ==
  /\ Step(c, "uncore", IF this_device[c] = "err" THEN "oops" ELSE "undevice")
  /\ sysfs' = [sysfs EXCEPT ![c] = @ \ {"core"}]
  /\ UNCHANGED <<busVars, mapVars, slot, minor, parent, cdev, this_device, files, ret>>

\* device_destroy() and kfree().
Destroy(c) ==
  /\ Step(c, "undevice", "idle")
  /\ this_device' = [this_device EXCEPT ![c] = NULL]
  /\ slot' = [slot EXCEPT ![c] = NULL] /\ minor' = [minor EXCEPT ![c] = NULL]
  /\ parent' = [parent EXCEPT ![c] = NULL] /\ cdev' = [cdev EXCEPT ![c] = NULL]
  /\ ret' = [ret EXCEPT ![c] = "0"]
  /\ UNCHANGED <<busVars, mapVars, sysfs, files>>

genz_unregister_char_device(c) == RemoveInterfaces(c) \/ RemoveCore(c) \/ Destroy(c)

-----------------------------------------------------------------------------
Call(c) == genz_register_char_device(c) \/ genz_unregister_char_device(c)

Next ==
  \/ genz_subsystem_init \/ genz_subsystem_exit
  \/ \E c \in Callers : \/ \E s \in Slots : Alloc(c, s)
                         \/ Lock(c) \/ Call(c) \/ StartUnregister(c)

(***************************************************************************)
(* Fairness: a call that is not asleep runs on, and a mutex wakes its      *)
(* waiters in the order they came.  Nobody has to call.                    *)
(***************************************************************************)
Spec == /\ Init /\ [][Next]_vars
        /\ \A c \in Callers : WF_vars(Call(c)) /\ SF_vars(Lock(c))

-----------------------------------------------------------------------------
PCs == {"idle", "lock", "minor", "alloc", "region", "bus", "find", "cdev", "device", "core",
        "interfaces", "files", "unlock", "registered", "unfiles",
        "uncore", "undevice", "oops"}
DevTs == Majors \X Minors

\* Every variable has its type; no bit is set past GENZ_MINORBITS.
TypeOK ==
  /\ spc \in {"out", "root", "bus", "fabrics", "in", "oops"} /\ sub \subseteq All
  /\ root \in {NULL, "dev", "err"}
  /\ \A i \in DOMAIN buses : buses[i] \in 0 .. POTPOURRID
  /\ bus_mutex \in Callers \cup {NULL} /\ mutex \in Callers \cup {NULL}
  /\ bits \subseteq Minors /\ major \in Majors \cup {NULL}
  /\ regions \subseteq DevTs
  /\ pc \in [Callers -> PCs] /\ slot \in [Callers -> Slots \cup {NULL}]
  /\ minor \in [Callers -> Minors \cup {NULL}]
  /\ parent \in [Callers -> (0 .. POTPOURRID) \cup {NULL}]
  /\ cdev \in [Callers -> DevTs \cup {NULL}]
  /\ this_device \in [Callers -> {NULL, "dev", "err"}]
  /\ sysfs \in [Callers -> SUBSET {"core", "interfaces"}]
  /\ files \in [Callers -> 0 .. MaxInterface]
  /\ ret \in [Callers -> {"0", "-EDOM", "-ENODEV", "-ENOMEM"}]
  /\ fault \in Faults \cup {NULL}

(* The dev_t of a cdev belongs to one device, and lies in a region that    *)
(* was taken for it: the minor is looked for, the region taken and the     *)
(* dev_t put together from bridge_major in three steps, and a first device *)
(* changes bridge_major for all.                                           *)
DevTUnique ==
  \A c \in Callers : cdev[c] # NULL =>
    /\ cdev[c] \in regions
    /\ \A other \in Callers : cdev[other] = cdev[c] => other = c

(* The bitmap and the kernel agree about which minors of bridge_major are  *)
(* in use, after every failure and every unregistration: a free bit is a   *)
(* minor that can be registered.                                           *)
BitsAreRegions ==
  spc = "in" => bits = {m \in Minors : <<major, m>> \in regions}

(* genz_register_char_device() "Returns pointer to new structure on        *)
(* success": with every sysfs entry in place.  A failure at any step       *)
(* leaves no sysfs entry and no device behind, and no mutex held.          *)
WholeOrNothing ==
  \A c \in Callers :
    /\ pc[c] = "registered" =>
         /\ this_device[c] = "dev" /\ cdev[c] # NULL
         /\ sysfs[c] = {"core", "interfaces"} /\ files[c] = MaxInterface
    /\ pc[c] = "idle" => /\ this_device[c] = NULL /\ sysfs[c] = {} /\ files[c] = 0
                         /\ c \notin {mutex, bus_mutex}

(* There is one bus instance of each id, and "ugly croakage if this is     *)
(* NULL": a device is created below a bus instance that is on the list,    *)
(* and stays there as long as the device does.                             *)
ParentListed ==
  /\ \A i, j \in DOMAIN buses : buses[i] = buses[j] => i = j
  /\ \A c \in Callers : pc[c] \in {"device", "core", "registered"} =>
       \E i \in DOMAIN buses : buses[i] = parent[c]

(* genz_subsystem_init() is all or nothing, whichever registration fails,  *)
(* and genz_subsystem_exit() undoes it, unless the root device could not   *)
(* be registered, which no test of the code notices.                       *)
InitAllOrNothing ==
  /\ spc = "out" => sub = {} /\ buses = <<>>
  /\ fault # "root" => spc # "oops" /\ (spc = "in" => sub = All)

(* Every call returns, on every way out and whatever the others do, unless *)
(* device_create() fails, after which the clean-up follows an ERR_PTR.     *)
CallsReturn ==
  \A c \in Callers :
    pc[c] \notin {"idle", "registered"}
      ~> pc[c] \in {"idle", "registered"} \/ fault = "device"

(* "16k components per class": minors run out only when there are that     *)
(* many components, 2^GENZ_MINORBITS of them.                              *)
RoomForAll ==
  \A c \in Callers : ret[c] = "-EDOM" =>
    Cardinality({other \in Callers : cdev[other] # NULL}) >= 2 ^ GENZ_MINORBITS
=============================================================================
