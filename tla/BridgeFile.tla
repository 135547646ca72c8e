----------------------------- MODULE BridgeFile -----------------------------
(***************************************************************************)
(* Opening and closing the bridge device: gf_bridge_open(), _flush() and   *)
(* _release() of gf_bridge.c, and how read() and write() pin the file.     *)
(*                                                                         *)
(* open() counts its user in adapter->nr_users and lets in the first one   *)
(* only; flush(), called by every close of a descriptor, takes the user    *)
(* off again when it sees f_count = 1; release(), called when the last     *)
(* reference is gone, BUG()s on a user that is left and frees the buffers. *)
(*                                                                         *)
(* The threads share one descriptor table, so the VFS (external) takes a   *)
(* reference on the file for the time of a read() or a write().            *)
(***************************************************************************)
EXTENDS Integers, FiniteSets

CONSTANTS
  Threads,   \* threads that use the device
  Files,     \* struct files; names are reused once a file is gone
  MaxFds,    \* bound on the descriptors dup() gives one file
  NULL

ASSUME BridgeFileAssumption ==
  /\ IsFiniteSet(Threads) /\ IsFiniteSet(Files)
  /\ MaxFds \in Nat \ {0}
  /\ NULL \notin Files

VARIABLES
  nr_users,      \* adapter->nr_users
  outgoing,      \* adapter->outgoing: buffers, named by the file whose
                 \*   open() allocated them, or NULL
  live,          \* the buffers that are allocated
  fds, f_count,  \* of each file: descriptors, and references
  users,         \* history: files an open() let in and no flush() took off
  pc, file,      \* of each thread: where it is, and the file it works on
  buffers        \* of each thread: the local "buffers"

adapterVars == <<nr_users, outgoing, live, users>>
fileVars    == <<fds, f_count>>
threadVars  == <<pc, file, buffers>>
vars == <<adapterVars, fileVars, threadVars>>

Init ==
  /\ nr_users = 0
  /\ outgoing = NULL
  /\ live     = {}
  /\ fds      = [f \in Files |-> 0]
  /\ f_count  = [f \in Files |-> 0]
  /\ users    = {}
  /\ pc       = [t \in Threads |-> "idle"]
  /\ file     = [t \in Threads |-> NULL]
  /\ buffers  = [t \in Threads |-> NULL]

Goto(t, where) == pc' = [pc EXCEPT ![t] = where]

\* Back to user space.
Done(t) ==
  /\ Goto(t, "idle")
  /\ file'    = [file EXCEPT ![t] = NULL]
  /\ buffers' = [buffers EXCEPT ![t] = NULL]

-----------------------------------------------------------------------------
(***************************************************************************)
(* gf_bridge_open().                                                       *)
(***************************************************************************)
Unused(f) == f_count[f] = 0 /\ f \notin live /\ \A t \in Threads : file[t] # f

\* Mutant: lets everybody in.
MayOpenAlways(n) == TRUE

\* atomic_add_return(1, &adapter->nr_users) == 1
MayOpen(n) == n = 1

OpenAdd(t, f) ==
  /\ pc[t] = "idle"
  /\ Unused(f)
  /\ nr_users' = nr_users + 1
  /\ f_count'  = [f_count EXCEPT ![f] = 1]
  /\ file'     = [file EXCEPT ![t] = f]
  /\ Goto(t, IF MayOpen(nr_users') THEN "alloc" ELSE "undo")
  /\ UNCHANGED <<outgoing, live, users, fds, buffers>>

OpenAlloc(t) ==
  /\ pc[t] = "alloc"
  /\ live'     = live \cup {file[t]}
  /\ outgoing' = file[t]
  /\ users'    = users \cup {file[t]}
  /\ fds'      = [fds EXCEPT ![file[t]] = 1]
  /\ Done(t)
  /\ UNCHANGED <<nr_users, f_count>>

\* A kzalloc() failed.
OpenNoMem(t) ==
  /\ pc[t] = "alloc"
  /\ Goto(t, "undo")
  /\ UNCHANGED <<adapterVars, fileVars, file, buffers>>

\* Mutant: a refused open() stays counted.
OpenUndoForgets(t) ==
  /\ pc[t] = "undo"
  /\ f_count' = [f_count EXCEPT ![file[t]] = 0]
  /\ Done(t)
  /\ UNCHANGED <<adapterVars, fds>>

\* -EBUSY or -ENOMEM: the VFS frees the file without a flush or a release.
OpenUndo(t) ==
  /\ pc[t] = "undo"
  /\ nr_users' = nr_users - 1
  /\ f_count'  = [f_count EXCEPT ![file[t]] = 0]
  /\ Done(t)
  /\ UNCHANGED <<outgoing, live, users, fds>>

gf_bridge_open(t) ==
  \/ \E f \in Files : OpenAdd(t, f)
  \/ OpenAlloc(t) \/ OpenNoMem(t) \/ OpenUndo(t)

-----------------------------------------------------------------------------
(***************************************************************************)
(* The VFS around the driver: dup() or fork(), and the reference that a    *)
(* system call in progress holds.                                          *)
(***************************************************************************)
Dup(f) ==
  /\ fds[f] \in 1 .. MaxFds - 1
  /\ fds'     = [fds EXCEPT ![f] = @ + 1]
  /\ f_count' = [f_count EXCEPT ![f] = @ + 1]
  /\ UNCHANGED <<adapterVars, threadVars>>

Fget(t, f) ==
  /\ pc[t] = "idle"
  /\ fds[f] > 0
  /\ f_count' = [f_count EXCEPT ![f] = @ + 1]
  /\ file'    = [file EXCEPT ![t] = f]

\* gf_bridge_read() needs nothing of the file's but its private_data.
ReadEnter(t, f) ==
  /\ Fget(t, f)
  /\ Goto(t, "fput")
  /\ UNCHANGED <<adapterVars, fds, buffers>>

\* gf_bridge_write() looks buffers up once, when it starts.
WriteEnter(t, f) ==
  /\ Fget(t, f)
  /\ buffers' = [buffers EXCEPT ![t] = outgoing]
  /\ Goto(t, "write")
  /\ UNCHANGED <<adapterVars, fds>>

WriteUse(t) ==
  /\ pc[t] = "write"
  /\ Goto(t, IF buffers[t] \in live THEN "fput" ELSE "oops")
  /\ UNCHANGED <<adapterVars, fileVars, file, buffers>>

\* The last reference takes the thread to release() before it returns.
Fput(t) ==
  /\ pc[t] = "fput"
  /\ f_count' = [f_count EXCEPT ![file[t]] = @ - 1]
  /\ IF f_count[file[t]] = 1
     THEN Goto(t, "release") /\ UNCHANGED <<file, buffers>>
     ELSE Done(t)
  /\ UNCHANGED <<adapterVars, fds>>

-----------------------------------------------------------------------------
(***************************************************************************)
(* close(): the descriptor goes, then gf_bridge_flush(), then the          *)
(* reference.  flush() reads f_count and decrements nr_users in two steps. *)
(***************************************************************************)
Close(t, f) ==
  /\ pc[t] = "idle"
  /\ fds[f] > 0
  /\ fds'  = [fds EXCEPT ![f] = @ - 1]
  /\ file' = [file EXCEPT ![t] = f]
  /\ Goto(t, "flush")
  /\ UNCHANGED <<adapterVars, f_count, buffers>>

\* Mutant: every close of a descriptor takes the user off.
LastCloseAlways(f) == TRUE

LastClose(f) == f_count[f] = 1

Flush(t) ==
  /\ pc[t] = "flush"
  /\ Goto(t, IF LastClose(file[t]) THEN "dec" ELSE "fput")
  /\ UNCHANGED <<adapterVars, fileVars, file, buffers>>

FlushDec(t) ==
  /\ pc[t] = "dec"
  /\ nr_users' = nr_users - 1
  /\ users'    = users \ {file[t]}
  /\ Goto(t, "fput")
  /\ UNCHANGED <<outgoing, live, fileVars, file, buffers>>

gf_bridge_flush(t) == Flush(t) \/ FlushDec(t)

-----------------------------------------------------------------------------
(***************************************************************************)
(* gf_bridge_release(): outgoing is read first, then nr_users; the buffers *)
(* are freed and outgoing cleared only after both.                         *)
(***************************************************************************)
ReleaseEnter(t) ==
  /\ pc[t] = "release"
  /\ buffers' = [buffers EXCEPT ![t] = outgoing]
  /\ Goto(t, "check")
  /\ UNCHANGED <<adapterVars, fileVars, file>>

\* BUG_ON(nr_users)
ReleaseCheck(t) ==
  /\ pc[t] = "check"
  /\ Goto(t, IF nr_users = 0 THEN "free" ELSE "bug")
  /\ UNCHANGED <<adapterVars, fileVars, file, buffers>>

ReleaseFree(t) ==
  /\ pc[t] = "free"
  /\ buffers[t] \in live
  /\ live'     = live \ {buffers[t]}
  /\ outgoing' = NULL
  /\ Done(t)
  /\ UNCHANGED <<nr_users, users, fileVars>>

\* buffers->wbuf through a NULL pointer, or a second kfree().
ReleaseOops(t) ==
  /\ pc[t] = "free"
  /\ buffers[t] \notin live
  /\ Goto(t, "oops")
  /\ UNCHANGED <<adapterVars, fileVars, file, buffers>>

gf_bridge_release(t) ==
  ReleaseEnter(t) \/ ReleaseCheck(t) \/ ReleaseFree(t) \/ ReleaseOops(t)

Next ==
  \/ \E f \in Files : Dup(f)
  \/ \E t \in Threads :
       \/ gf_bridge_open(t) \/ gf_bridge_flush(t) \/ gf_bridge_release(t)
       \/ WriteUse(t) \/ Fput(t)
       \/ \E f \in Files : ReadEnter(t, f) \/ WriteEnter(t, f) \/ Close(t, f)

Spec == Init /\ [][Next]_vars

-----------------------------------------------------------------------------
PCs == {"idle", "alloc", "undo", "write", "fput", "flush", "dec",
        "release", "check", "free", "bug", "oops"}

(* Every variable has its type; in particular nr_users, decremented by     *)
(* refused opens and by flushes, never goes below zero.                    *)
TypeOK ==
  /\ nr_users \in Nat
  /\ outgoing \in Files \cup {NULL}
  /\ live \subseteq Files
  /\ fds \in [Files -> 0 .. MaxFds]
  /\ f_count \in [Files -> Nat]
  /\ users \subseteq Files
  /\ pc \in [Threads -> PCs]
  /\ file \in [Threads -> Files \cup {NULL}]
  /\ buffers \in [Threads -> Files \cup {NULL}]

(* "Sorry, just exclusive open() for now": two files are never open at the *)
(* same time, however opens, refused opens, failed allocations, dup()s and *)
(* closes interleave.                                                      *)
ExclusiveOpen == \A f, g \in Files : fds[f] > 0 /\ fds[g] > 0 => f = g

\* The threads whose open() has counted itself and has not returned.
Opening == {t \in Threads : pc[t] \in {"alloc", "undo"}}

\* The files at which some thread is at one of these places.
FilesAt(places) == {f \in Files : \E t \in Threads : file[t] = f /\ pc[t] \in places}

\* A descriptor is left, or the flush() of one has yet to do its work.
StillOpen == {f \in Files : fds[f] > 0} \cup FilesAt({"flush", "dec"})

\* Some other call is not through with the file.
InCall == FilesAt({"write", "fput", "release", "check", "bug", "oops"})

(* But for the open() calls in progress, nr_users counts every file that   *)
(* is open, and no file that nobody has in hand any more: a refused or     *)
(* failed open() leaves no trace, no close takes a user off that others    *)
(* still need, and nr_users is exact whenever no call is in progress.  A   *)
(* file whose last flush() did not know that it was the last stays counted *)
(* as long as a thread is in a call on it, and that thread does not get    *)
(* past the BUG_ON() of release() (see NeverBug).                          *)
UsersAccounted ==
  LET counted == nr_users - Cardinality(Opening) IN
  /\ Cardinality(StillOpen) <= counted
  /\ counted <= Cardinality(StillOpen \cup InCall)

(* The assertion of gf_bridge_release(): no user is left when the last     *)
(* reference to the file is gone.                                          *)
NeverBug == \A t \in Threads : pc[t] # "bug"
=============================================================================
