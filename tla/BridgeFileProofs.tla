-------------------------- MODULE BridgeFileProofs --------------------------
(***************************************************************************)
(* Theorems about BridgeFile for every number of threads, files and        *)
(* descriptors: the exclusive open() of gf_bridge.c.                       *)
(***************************************************************************)
EXTENDS BridgeFile, TLAPS, FiniteSetTheorems

\* Where a thread holds a reference on its file.
Holding == {"alloc", "undo", "write", "fput", "flush", "dec"}

In(t, f) == pc[t] \in Holding /\ file[t] = f

Refs(f) == {t \in Threads : In(t, f)}

-----------------------------------------------------------------------------
(***************************************************************************)
(* The parts of the inductive invariant.                                   *)
(***************************************************************************)
\* A thread in a system call works on a file.
WorkOn ==
  \A t \in Threads : /\ pc[t] = "idle" => file[t] = NULL
                     /\ pc[t] # "idle" => file[t] \in Files

\* Descriptors and system calls in progress hold references.
RefTable == \A f \in Files : f_count[f] >= fds[f] + Cardinality(Refs(f))

\* The thread has the last reference, and no descriptor is left.
Sole(t) == fds[file[t]] = 0 /\ Refs(file[t]) = {t}

\* A file with a descriptor, or in its last close, was let in; one that is
\* being opened is the opener's alone and was not.
LetIn ==
  /\ \A f \in Files : fds[f] > 0 => f \in users
  /\ \A t \in Threads : pc[t] \in {"flush", "dec"} => file[t] \in users
  /\ \A t \in Threads : pc[t] = "dec" => Sole(t)

OpenOwn ==
  \A t \in Opening : /\ fds[file[t]] = 0
                     /\ \A u \in Threads : file[u] = file[t] => u = t
                     /\ file[t] \notin users

\* A file that is counted still has a reference, or is being released.
Counted ==
  \A f \in users :
    f_count[f] > 0 \/ \E t \in Threads : file[t] = f /\ pc[t] \in {"release", "check", "bug"}

\* One file is let in at a time.
OneUser ==
  /\ \A f, g \in users : f = g
  /\ \A t \in Threads : pc[t] = "alloc" => users = {}
  /\ \A t, u \in Threads : pc[t] = "alloc" /\ pc[u] = "alloc" => t = u

\* nr_users counts the open() calls in progress and the users.
UserTable == nr_users = Cardinality(users) + Cardinality(Opening)

Inv ==
  TypeOK /\ WorkOn /\ RefTable /\ LetIn /\ OpenOwn /\ Counted /\ OneUser /\ UserTable

-----------------------------------------------------------------------------
(***************************************************************************)
(* Steps and frames.                                                       *)
(***************************************************************************)
ThreadStep(t) ==
  \/ \E f \in Files : OpenAdd(t, f) \/ ReadEnter(t, f) \/ WriteEnter(t, f) \/ Close(t, f)
  \/ OpenAlloc(t) \/ OpenNoMem(t) \/ OpenUndo(t) \/ WriteUse(t) \/ Fput(t)
  \/ Flush(t) \/ FlushDec(t)
  \/ ReleaseEnter(t) \/ ReleaseCheck(t) \/ ReleaseFree(t) \/ ReleaseOops(t)

LEMMA NextCases ==
  ASSUME Next
  PROVE  (\E f \in Files : Dup(f)) \/ (\E t \in Threads : ThreadStep(t))
BY DEF Next, ThreadStep, gf_bridge_open, gf_bridge_flush, gf_bridge_release

\* What a step of one thread leaves alone.
OthersAlone(t) == \A u \in Threads \ {t} : pc'[u] = pc[u] /\ file'[u] = file[u]

LEMMA ThreadFrame ==
  ASSUME TypeOK, NEW t \in Threads, ThreadStep(t)
  PROVE  OthersAlone(t)
<1> USE DEF TypeOK, OthersAlone, Goto, Done, threadVars
<1>1. CASE \E f \in Files : OpenAdd(t, f)
  BY <1>1 DEF OpenAdd
<1>2. CASE \E f \in Files : ReadEnter(t, f) \/ WriteEnter(t, f) \/ Close(t, f)
  BY <1>2 DEF ReadEnter, WriteEnter, Close, Fget
<1>3. CASE OpenAlloc(t) \/ OpenNoMem(t) \/ OpenUndo(t)
  BY <1>3 DEF OpenAlloc, OpenNoMem, OpenUndo
<1>4. CASE WriteUse(t) \/ Fput(t)
  BY <1>4 DEF WriteUse, Fput
<1>5. CASE Flush(t) \/ FlushDec(t)
  BY <1>5 DEF Flush, FlushDec
<1>6. CASE ReleaseEnter(t) \/ ReleaseCheck(t) \/ ReleaseFree(t) \/ ReleaseOops(t)
  BY <1>6 DEF ReleaseEnter, ReleaseCheck, ReleaseFree, ReleaseOops
<1> QED BY <1>1, <1>2, <1>3, <1>4, <1>5, <1>6 DEF ThreadStep

\* Adding to and taking from a finite set.
LEMMA Count ==
  ASSUME NEW S, NEW x, IsFiniteSet(S)
  PROVE  /\ Cardinality(S) \in Nat
         /\ x \in S => Cardinality(S) >= 1
         /\ x \notin S => Cardinality(S \cup {x}) = Cardinality(S) + 1
         /\ x \in S => Cardinality(S \ {x}) = Cardinality(S) - 1
<1>1. Cardinality(S) \in Nat
  BY FS_CardinalityType
<1>2. x \in S => Cardinality(S) # 0
  BY FS_EmptySet
<1>3. x \notin S => Cardinality(S \cup {x}) = Cardinality(S) + 1
  BY FS_AddElement
<1>4. x \in S => Cardinality(S \ {x}) = Cardinality(S) - 1
  BY FS_RemoveElement
<1> QED BY <1>1, <1>2, <1>3, <1>4

LEMMA Finite ==
  ASSUME NEW f
  PROVE  IsFiniteSet(Refs(f)) /\ IsFiniteSet(Opening)
<1>1. Refs(f) \in SUBSET Threads /\ Opening \in SUBSET Threads
  BY DEF Refs, Opening
<1> QED BY <1>1, FS_Subset, BridgeFileAssumption

LEMMA UsersFinite ==
  ASSUME TypeOK
  PROVE  IsFiniteSet(users)
<1>1. users \in SUBSET Files
  BY DEF TypeOK
<1> QED BY <1>1, FS_Subset, BridgeFileAssumption

\* The references to a file before and after a step of one thread.
LEMMA RefsStep ==
  ASSUME NEW t \in Threads, OthersAlone(t), NEW f
  PROVE  /\ Cardinality(Refs(f)) \in Nat
         /\ In(t, f) => Cardinality(Refs(f)) >= 1
         /\ (In(t, f) <=> In(t, f)') => Refs(f)' = Refs(f)
         /\ In(t, f) /\ ~In(t, f)' =>
              Refs(f)' = Refs(f) \ {t} /\ Cardinality(Refs(f)') = Cardinality(Refs(f)) - 1
         /\ ~In(t, f) /\ In(t, f)' =>
              Refs(f)' = Refs(f) \cup {t} /\ Cardinality(Refs(f)') = Cardinality(Refs(f)) + 1
<1>1. \A u \in Threads \ {t} : In(u, f) <=> In(u, f)'
  BY DEF OthersAlone, In
<1>2. (In(t, f) <=> In(t, f)') => Refs(f)' = Refs(f)
  BY <1>1 DEF Refs
<1>3. In(t, f) /\ ~In(t, f)' => Refs(f)' = Refs(f) \ {t}
  BY <1>1 DEF Refs
<1>4. ~In(t, f) /\ In(t, f)' => Refs(f)' = Refs(f) \cup {t}
  BY <1>1 DEF Refs
<1>5. In(t, f) <=> t \in Refs(f)
  BY DEF Refs
<1>6. IsFiniteSet(Refs(f))
  BY Finite
<1> HIDE DEF Refs
<1> QED BY <1>2, <1>3, <1>4, <1>5, <1>6, Count

\* The same for the open() calls in progress.
LEMMA OpeningStep ==
  ASSUME NEW t \in Threads, OthersAlone(t)
  PROVE  /\ Cardinality(Opening) \in Nat
         /\ t \in Opening => Cardinality(Opening) >= 1
         /\ (t \in Opening <=> t \in Opening') => Opening' = Opening
         /\ t \in Opening /\ t \notin Opening' => Cardinality(Opening') = Cardinality(Opening) - 1
         /\ t \notin Opening /\ t \in Opening' => Cardinality(Opening') = Cardinality(Opening) + 1
<1>1. \A u \in Threads \ {t} : u \in Opening <=> u \in Opening'
  BY DEF OthersAlone, Opening
<1>2. Opening \subseteq Threads /\ Opening' \subseteq Threads
  BY DEF Opening
<1>3. (t \in Opening <=> t \in Opening') => Opening' = Opening
  BY <1>1, <1>2
<1>4. t \in Opening /\ t \notin Opening' => Opening' = Opening \ {t}
  BY <1>1, <1>2
<1>5. t \notin Opening /\ t \in Opening' => Opening' = Opening \cup {t}
  BY <1>1, <1>2
<1>6. IsFiniteSet(Opening)
  BY Finite
<1> QED BY <1>3, <1>4, <1>5, <1>6, Count

-----------------------------------------------------------------------------
(***************************************************************************)
(* Each part is kept by every step.                                        *)
(***************************************************************************)
LEMMA InitInv == Init => Inv
<1> SUFFICES ASSUME Init PROVE Inv
  OBVIOUS
<1> USE BridgeFileAssumption
<1>1. TypeOK
  BY DEF Init, TypeOK, PCs
<1>2. \A f \in Files : Refs(f) = {}
  BY DEF Init, Refs, In, Holding
<1>3. Opening = {}
  BY DEF Init, Opening
<1>4. Cardinality({}) = 0
  BY FS_EmptySet
<1>5. RefTable
  BY <1>2, <1>4 DEF Init, RefTable
<1>6. UserTable
  BY <1>3, <1>4 DEF Init, UserTable, Opening
<1>7. WorkOn /\ LetIn /\ OneUser
  BY DEF Init, WorkOn, LetIn, OneUser
<1>8. OpenOwn /\ Counted
  BY <1>3 DEF Init, OpenOwn, Counted
<1> QED BY <1>1, <1>5, <1>6, <1>7, <1>8 DEF Inv

\* A thread that holds a reference is in Refs, so that f_count is not 0.
LEMMA Referenced ==
  ASSUME TypeOK, RefTable, NEW t \in Threads, pc[t] \in Holding, file[t] \in Files
  PROVE  f_count[file[t]] >= 1
<1> PICK f \in Files : f = file[t]
  OBVIOUS
<1>1. t \in Refs(f)
  BY DEF Refs, In
<1>2. Cardinality(Refs(f)) \in Nat /\ Cardinality(Refs(f)) >= 1
  BY <1>1, Finite, Count
<1>3. f_count[f] \in Nat /\ fds[f] \in Nat
  BY BridgeFileAssumption DEF TypeOK
<1>4. f_count[f] >= fds[f] + Cardinality(Refs(f))
  BY DEF RefTable
<1> QED BY <1>2, <1>3, <1>4

\* The users that are counted, and so nr_users, are there to be taken off.
LEMMA UserCount ==
  ASSUME TypeOK, UserTable
  PROVE  /\ Cardinality(users) \in Nat /\ Cardinality(Opening) \in Nat
         /\ nr_users = Cardinality(users) + Cardinality(Opening)
         /\ nr_users = 0 => users = {} /\ Opening = {}
         /\ users # {} \/ Opening # {} => nr_users >= 1
<1>1. IsFiniteSet(users) /\ IsFiniteSet(Opening)
  BY UsersFinite, Finite
<1>2. Cardinality(users) \in Nat /\ Cardinality(Opening) \in Nat
  BY <1>1, FS_CardinalityType
<1>3. /\ Cardinality(users) = 0 <=> users = {}
      /\ Cardinality(Opening) = 0 <=> Opening = {}
  BY <1>1, FS_EmptySet
<1>4. nr_users = Cardinality(users) + Cardinality(Opening)
  BY DEF UserTable, Opening
<1> QED BY <1>2, <1>3, <1>4

LEMMA TypeStep ==
  ASSUME TypeOK, WorkOn, RefTable, LetIn, UserTable, NEW t \in Threads, ThreadStep(t)
  PROVE  TypeOK' /\ WorkOn'
<1> USE BridgeFileAssumption DEF TypeOK, WorkOn, PCs, Goto, Done, adapterVars, fileVars
<1>1. CASE \E f \in Files : OpenAdd(t, f)
  BY <1>1 DEF OpenAdd
<1>2. CASE \E f \in Files : ReadEnter(t, f)
  BY <1>2 DEF ReadEnter, Fget
<1>3. CASE \E f \in Files : WriteEnter(t, f)
  BY <1>3 DEF WriteEnter, Fget
<1>4. CASE \E f \in Files : Close(t, f)
  BY <1>4 DEF Close
<1>5. CASE OpenAlloc(t)
  BY <1>5 DEF OpenAlloc
<1>6. CASE OpenUndo(t)
  <2>1. t \in Opening
    BY <1>6 DEF OpenUndo, Opening
  <2>2. nr_users >= 1
    BY <2>1, UserCount
  <2> QED BY <1>6, <2>2 DEF OpenUndo
<1>7. CASE Fput(t)
  <2>1. f_count[file[t]] >= 1
    BY <1>7, Referenced DEF Fput, Holding
  <2> QED BY <1>7, <2>1 DEF Fput
<1>8. CASE FlushDec(t)
  <2>1. file[t] \in users
    BY <1>8 DEF FlushDec, LetIn
  <2>2. nr_users >= 1
    BY <2>1, UserCount
  <2> QED BY <1>8, <2>2 DEF FlushDec
<1>9. CASE OpenNoMem(t) \/ WriteUse(t) \/ Flush(t)
  BY <1>9 DEF OpenNoMem, WriteUse, Flush
<1>10. CASE ReleaseEnter(t) \/ ReleaseCheck(t) \/ ReleaseOops(t)
  BY <1>10 DEF ReleaseEnter, ReleaseCheck, ReleaseOops
<1>11. CASE ReleaseFree(t)
  BY <1>11 DEF ReleaseFree
<1> QED BY <1>1, <1>2, <1>3, <1>4, <1>5, <1>6, <1>7, <1>8, <1>9, <1>10, <1>11 DEF ThreadStep

LEMMA DupStep ==
  ASSUME Inv, NEW f \in Files, Dup(f)
  PROVE  Inv'
<1> USE BridgeFileAssumption DEF Inv, Dup, adapterVars, threadVars
<1>1. TypeOK' /\ WorkOn'
  BY DEF TypeOK, WorkOn
<1>2. \A g : Refs(g)' = Refs(g)
  BY DEF Refs, In
<1>3. Opening' = Opening
  BY DEF Opening
<1>4. \A g \in Files : /\ fds'[g] = IF g = f THEN fds[g] + 1 ELSE fds[g]
                       /\ f_count'[g] = IF g = f THEN f_count[g] + 1 ELSE f_count[g]
                       /\ fds[g] \in Nat /\ f_count[g] \in Nat
  BY DEF TypeOK
<1>5. RefTable'
  <2> SUFFICES ASSUME NEW g \in Files
               PROVE  f_count'[g] >= fds'[g] + Cardinality(Refs(g)')
    BY DEF RefTable
  <2>1. Cardinality(Refs(g)) \in Nat /\ Refs(g)' = Refs(g)
    BY <1>2, Finite, FS_CardinalityType
  <2>2. f_count[g] >= fds[g] + Cardinality(Refs(g))
    BY DEF RefTable
  <2> QED BY <1>4, <2>1, <2>2
<1>6. LetIn'
  <2>1. \A t \in Threads : pc[t] = "dec" => Sole(t)'
    <3> SUFFICES ASSUME NEW t \in Threads, pc[t] = "dec" PROVE Sole(t)'
      OBVIOUS
    <3>1. Sole(t) /\ file[t] \in Files
      BY DEF LetIn, WorkOn
    <3>2. fds'[file[t]] = 0
      BY <3>1, <1>4 DEF Sole
    <3> QED BY <3>1, <3>2, <1>2 DEF Sole
  <2>2. \A g \in Files : fds'[g] > 0 => g \in users
    BY <1>4 DEF LetIn
  <2> QED BY <2>1, <2>2 DEF LetIn
<1>7. OpenOwn'
  <2>1. \A t \in Opening : file[t] \in Files
    BY DEF Opening, WorkOn
  <2> QED BY <1>3, <1>4, <2>1 DEF OpenOwn
<1>8. Counted'
  <2>1. \A g \in users : g \in Files
    BY DEF TypeOK
  <2>2. \A g \in users : f_count[g] > 0 => f_count'[g] > 0
    BY <2>1, <1>4
  <2> QED BY <2>2 DEF Counted
<1>9. OneUser' /\ UserTable'
  BY <1>3 DEF OneUser, UserTable
<1> QED BY <1>1, <1>5, <1>6, <1>7, <1>8, <1>9

LEMMA RefTableStep ==
  ASSUME Inv, NEW t \in Threads, ThreadStep(t)
  PROVE  RefTable'
<1> SUFFICES ASSUME NEW g \in Files
             PROVE  f_count'[g] >= fds'[g] + Cardinality(Refs(g)')
  BY DEF RefTable
<1> DEFINE card == Cardinality(Refs(g))
<1>a. OthersAlone(t)
  BY ThreadFrame DEF Inv
<1>b. /\ card \in Nat
      /\ In(t, g) => card >= 1
      /\ (In(t, g) <=> In(t, g)') => card' = card
      /\ In(t, g) /\ ~In(t, g)' => card' = card - 1
      /\ ~In(t, g) /\ In(t, g)' => card' = card + 1
  BY <1>a, RefsStep
<1>c. /\ f_count[g] >= fds[g] + card
      /\ f_count[g] \in Nat /\ fds[g] \in Nat
  BY BridgeFileAssumption DEF Inv, RefTable, TypeOK
<1> HIDE DEF card
<1> SUFFICES f_count'[g] >= fds'[g] + card'
  BY DEF card
<1> USE DEF Inv, TypeOK, In, Holding, Goto, Done, adapterVars, fileVars
<1>1. CASE \E f \in Files : OpenAdd(t, f)
  <2> PICK f \in Files : OpenAdd(t, f)
    BY <1>1
  <2>1. g # f => f_count'[g] = f_count[g] /\ fds' = fds /\ (In(t, g) <=> In(t, g)')
    BY DEF OpenAdd, WorkOn
  <2>2. g = f => f_count[g] = 0 /\ f_count'[g] = 1 /\ fds' = fds /\ ~In(t, g)
    BY DEF OpenAdd, Unused
  <2>3. g = f => In(t, g)'
    BY DEF OpenAdd, MayOpen
  <2> QED BY <2>1, <2>2, <2>3, <1>b, <1>c
<1>2. CASE \E f \in Files : ReadEnter(t, f) \/ WriteEnter(t, f)
  <2> PICK f \in Files : ReadEnter(t, f) \/ WriteEnter(t, f)
    BY <1>2
  <2>1. g # f => f_count'[g] = f_count[g] /\ fds' = fds /\ (In(t, g) <=> In(t, g)')
    BY DEF ReadEnter, WriteEnter, Fget
  <2>2. g = f => f_count'[g] = f_count[g] + 1 /\ fds' = fds /\ ~In(t, g) /\ In(t, g)'
    BY DEF ReadEnter, WriteEnter, Fget
  <2> QED BY <2>1, <2>2, <1>b, <1>c
<1>3. CASE \E f \in Files : Close(t, f)
  <2> PICK f \in Files : Close(t, f)
    BY <1>3
  <2>1. g # f => f_count' = f_count /\ fds'[g] = fds[g] /\ (In(t, g) <=> In(t, g)')
    BY DEF Close
  <2>2. g = f => f_count' = f_count /\ fds'[g] = fds[g] - 1 /\ ~In(t, g) /\ In(t, g)'
    BY DEF Close
  <2> QED BY <2>1, <2>2, <1>b, <1>c
<1>4. CASE OpenAlloc(t)
  <2>1. t \in Opening /\ file[t] \in Files
    BY <1>4 DEF OpenAlloc, Opening, WorkOn
  <2>2. g # file[t] => f_count' = f_count /\ fds'[g] = fds[g] /\ (In(t, g) <=> In(t, g)')
    BY <1>4 DEF OpenAlloc
  <2>3. g = file[t] => f_count' = f_count /\ fds'[g] = 1 /\ In(t, g) /\ ~In(t, g)'
    BY <1>4 DEF OpenAlloc
  <2>4. g = file[t] => fds[g] = 0
    BY <2>1 DEF OpenOwn
  <2> QED BY <2>2, <2>3, <2>4, <1>b, <1>c
<1>5. CASE OpenUndo(t)
  <2>1. t \in Opening /\ file[t] \in Files
    BY <1>5 DEF OpenUndo, Opening, WorkOn
  <2>2. g # file[t] => f_count'[g] = f_count[g] /\ fds' = fds /\ (In(t, g) <=> In(t, g)')
    BY <1>5 DEF OpenUndo
  <2>3. CASE g = file[t]
    <3>1. f_count'[g] = 0 /\ fds' = fds /\ fds[g] = 0
      BY <1>5, <2>1, <2>3 DEF OpenUndo, OpenOwn
    <3>2. \A u \in Threads : ~In(u, g)'
      <4>1. ~In(t, g)'
        BY <1>5 DEF OpenUndo
      <4>2. \A u \in Threads \ {t} : file[u] # g
        BY <2>1, <2>3 DEF OpenOwn
      <4> QED BY <4>1, <4>2, <1>a DEF OthersAlone
    <3>3. Refs(g)' = {}
      BY <3>2 DEF Refs
    <3>4. card' = 0
      BY <3>3, FS_EmptySet DEF card
    <3> QED BY <3>1, <3>4
  <2> QED BY <2>2, <2>3, <1>b, <1>c
<1>6. CASE Fput(t)
  <2>1. file[t] \in Files
    BY <1>6 DEF Fput, WorkOn
  <2>2. g # file[t] => f_count'[g] = f_count[g] /\ fds' = fds /\ (In(t, g) <=> In(t, g)')
    BY <1>6 DEF Fput
  <2>3. g = file[t] => f_count'[g] = f_count[g] - 1 /\ fds' = fds /\ In(t, g) /\ ~In(t, g)'
    BY <1>6 DEF Fput
  <2> QED BY <2>2, <2>3, <1>b, <1>c
<1>7. CASE OpenNoMem(t) \/ Flush(t) \/ FlushDec(t)
  <2>1. f_count' = f_count /\ fds' = fds /\ (In(t, g) <=> In(t, g)')
    BY <1>7 DEF OpenNoMem, Flush, FlushDec
  <2> QED BY <2>1, <1>b, <1>c
<1>8. CASE WriteUse(t) \/ ReleaseEnter(t) \/ ReleaseCheck(t) \/ ReleaseFree(t) \/ ReleaseOops(t)
  <2>1. f_count' = f_count /\ fds' = fds /\ (In(t, g)' => In(t, g))
    BY <1>8 DEF WriteUse, ReleaseEnter, ReleaseCheck, ReleaseFree, ReleaseOops
  <2> QED BY <2>1, <1>b, <1>c
<1> QED BY <1>1, <1>2, <1>3, <1>4, <1>5, <1>6, <1>7, <1>8 DEF ThreadStep

\* nr_users goes up and down with the open() calls in progress and the users.
LEMMA AccountStep ==
  ASSUME Inv, NEW t \in Threads, ThreadStep(t)
  PROVE  UserTable'
<1> DEFINE card == Cardinality(Opening)
<1> DEFINE n == Cardinality(users)
<1> SUFFICES nr_users' = n' + card'
  BY DEF UserTable, Opening
<1>a. OthersAlone(t)
  BY ThreadFrame DEF Inv
<1>b. /\ (t \in Opening <=> t \in Opening') => card' = card
      /\ t \in Opening /\ t \notin Opening' => card' = card - 1
      /\ t \notin Opening /\ t \in Opening' => card' = card + 1
  BY <1>a, OpeningStep
<1>c. nr_users = n + card /\ n \in Nat /\ card \in Nat
  BY UserCount DEF Inv
<1>d. (t \in Opening <=> pc[t] \in {"alloc", "undo"}) /\ (t \in Opening' <=> pc'[t] \in {"alloc", "undo"})
  BY DEF Opening
<1>e. \A f : /\ f \notin users => Cardinality(users \cup {f}) = n + 1
             /\ f \in users => Cardinality(users \ {f}) = n - 1
  BY UsersFinite, Count DEF Inv
<1> HIDE DEF card, n
<1> USE DEF Inv, TypeOK, Goto, Done, adapterVars
<1>1. CASE \E f \in Files : OpenAdd(t, f)
  <2>1. users' = users /\ nr_users' = nr_users + 1 /\ t \notin Opening /\ t \in Opening'
    BY <1>1, <1>d DEF OpenAdd, MayOpen
  <2> QED BY <2>1, <1>b, <1>c DEF n
<1>2. CASE OpenAlloc(t)
  <2>1. users' = users \cup {file[t]} /\ nr_users' = nr_users /\ t \in Opening /\ t \notin Opening'
    BY <1>2, <1>d DEF OpenAlloc
  <2>2. file[t] \notin users
    BY <2>1 DEF OpenOwn
  <2>3. n' = n + 1
    BY <2>1, <2>2, <1>e DEF n
  <2> QED BY <2>1, <2>3, <1>b, <1>c
<1>3. CASE OpenUndo(t)
  <2>1. users' = users /\ nr_users' = nr_users - 1 /\ t \in Opening /\ t \notin Opening'
    BY <1>3, <1>d DEF OpenUndo
  <2> QED BY <2>1, <1>b, <1>c DEF n
<1>4. CASE FlushDec(t)
  <2>1. users' = users \ {file[t]} /\ nr_users' = nr_users - 1 /\ t \notin Opening /\ t \notin Opening'
    BY <1>4, <1>d DEF FlushDec
  <2>2. file[t] \in users
    BY <1>4 DEF FlushDec, LetIn
  <2>3. n' = n - 1
    BY <2>1, <2>2, <1>e DEF n
  <2> QED BY <2>1, <2>3, <1>b, <1>c
<1>5. CASE \E f \in Files : ReadEnter(t, f) \/ WriteEnter(t, f) \/ Close(t, f)
  <2>1. users' = users /\ nr_users' = nr_users /\ t \notin Opening /\ t \notin Opening'
    BY <1>5, <1>d DEF ReadEnter, WriteEnter, Fget, Close
  <2> QED BY <2>1, <1>b, <1>c DEF n
<1>6. CASE OpenNoMem(t) \/ WriteUse(t) \/ Fput(t) \/ Flush(t)
  <2>1. users' = users /\ nr_users' = nr_users /\ (t \in Opening <=> t \in Opening')
    BY <1>6, <1>d DEF OpenNoMem, WriteUse, Fput, Flush
  <2> QED BY <2>1, <1>b, <1>c DEF n
<1>7. CASE ReleaseEnter(t) \/ ReleaseCheck(t) \/ ReleaseFree(t) \/ ReleaseOops(t)
  <2>1. users' = users /\ nr_users' = nr_users /\ t \notin Opening /\ t \notin Opening'
    BY <1>7, <1>d DEF ReleaseEnter, ReleaseCheck, ReleaseFree, ReleaseOops
  <2> QED BY <2>1, <1>b, <1>c DEF n
<1> QED BY <1>1, <1>2, <1>3, <1>4, <1>5, <1>6, <1>7 DEF ThreadStep

\* Nobody else comes near a file in its last close.
LEMMA LastCloseAlone ==
  ASSUME Inv, NEW t \in Threads, ThreadStep(t), NEW u \in Threads \ {t}, pc[u] = "dec"
  PROVE  Sole(u)'
<1>a. OthersAlone(t)
  BY ThreadFrame DEF Inv
<1>b. Sole(u) /\ file[u] \in Files
  BY DEF Inv, LetIn, WorkOn
<1> PICK f \in Files : f = file[u]
  BY <1>b
<1>c. fds[f] = 0 /\ Refs(f) = {u} /\ f = file'[u]
  BY <1>a, <1>b DEF Sole, OthersAlone
<1>d. ~In(t, f)
  BY <1>c DEF Refs
<1> SUFFICES fds'[f] = 0 /\ ~In(t, f)'
  <2>1. ASSUME ~In(t, f)' PROVE Refs(f)' = Refs(f)
    BY <2>1, <1>a, <1>d, RefsStep
  <2> QED BY <2>1, <1>c DEF Sole
<1> USE DEF Inv, TypeOK, In, Holding, Goto, Done, adapterVars, fileVars
<1>1. CASE \E e \in Files : OpenAdd(t, e)
  <2> PICK e \in Files : OpenAdd(t, e)
    BY <1>1
  <2>1. e # f
    BY DEF OpenAdd, Unused
  <2> QED BY <2>1, <1>c DEF OpenAdd
<1>2. CASE \E e \in Files : ReadEnter(t, e) \/ WriteEnter(t, e) \/ Close(t, e)
  <2> PICK e \in Files : ReadEnter(t, e) \/ WriteEnter(t, e) \/ Close(t, e)
    BY <1>2
  <2>1. e # f
    BY <1>c DEF ReadEnter, WriteEnter, Close, Fget
  <2> QED BY <2>1, <1>c DEF ReadEnter, WriteEnter, Close, Fget
<1>3. CASE OpenAlloc(t)
  BY <1>3, <1>c, <1>d DEF OpenAlloc
<1>4. CASE OpenNoMem(t) \/ OpenUndo(t)
  BY <1>4, <1>c, <1>d DEF OpenNoMem, OpenUndo
<1>5. CASE WriteUse(t) \/ Fput(t)
  BY <1>5, <1>c, <1>d DEF WriteUse, Fput
<1>6. CASE Flush(t) \/ FlushDec(t)
  BY <1>6, <1>c, <1>d DEF Flush, FlushDec
<1>7. CASE ReleaseEnter(t) \/ ReleaseCheck(t) \/ ReleaseFree(t) \/ ReleaseOops(t)
  BY <1>7, <1>c, <1>d DEF ReleaseEnter, ReleaseCheck, ReleaseFree, ReleaseOops
<1> QED BY <1>1, <1>2, <1>3, <1>4, <1>5, <1>6, <1>7 DEF ThreadStep

\* A flush() that sees f_count = 1 is the last of its file.
LEMMA LastReference ==
  ASSUME Inv, NEW t \in Threads, pc[t] = "flush", f_count[file[t]] = 1
  PROVE  Sole(t)
<1>1. file[t] \in Files
  BY DEF Inv, WorkOn
<1> PICK f \in Files : f = file[t]
  BY <1>1
<1>2. t \in Refs(f) /\ IsFiniteSet(Refs(f))
  BY Finite DEF Refs, In, Holding
<1>3. Cardinality(Refs(f)) \in Nat /\ Cardinality(Refs(f)) >= 1
  BY <1>2, Count
<1>4. fds[f] \in Nat /\ f_count[f] >= fds[f] + Cardinality(Refs(f))
  BY BridgeFileAssumption DEF Inv, TypeOK, RefTable
<1>5. fds[f] = 0 /\ Cardinality(Refs(f)) = 1
  BY <1>3, <1>4
<1>6. \E x : Refs(f) = {x}
  BY <1>2, <1>5, FS_Singleton
<1> QED BY <1>2, <1>5, <1>6 DEF Sole

LEMMA LetInStep ==
  ASSUME Inv, NEW t \in Threads, ThreadStep(t)
  PROVE  LetIn'
<1>a. OthersAlone(t)
  BY ThreadFrame DEF Inv
<1>b. \A u \in Threads \ {t} : pc'[u] = "dec" => Sole(u)'
  BY <1>a, LastCloseAlone DEF OthersAlone
<1> USE DEF Inv, TypeOK, Goto, Done, adapterVars, fileVars
\* A step that takes no user off and adds no descriptor to a file that is not one.
<1>c. ASSUME users \subseteq users', \A f \in Files : fds'[f] > 0 => f \in users',
             pc'[t] \in {"flush", "dec"} => file'[t] \in users', pc'[t] = "dec" => Sole(t)'
      PROVE  LetIn'
  BY <1>a, <1>b, <1>c DEF LetIn, OthersAlone
<1>1. CASE \E e \in Files : OpenAdd(t, e)
  BY <1>1, <1>c DEF OpenAdd, MayOpen, LetIn
<1>2. CASE \E e \in Files : ReadEnter(t, e) \/ WriteEnter(t, e)
  BY <1>2, <1>c DEF ReadEnter, WriteEnter, Fget, LetIn
<1>3. CASE \E e \in Files : Close(t, e)
  <2> PICK e \in Files : Close(t, e)
    BY <1>3
  <2>1. users' = users /\ pc'[t] = "flush" /\ file'[t] = e /\ fds[e] > 0
    BY DEF Close
  <2>2. \A f \in Files : fds'[f] > 0 => fds[f] > 0
    BY BridgeFileAssumption DEF Close
  <2> QED BY <2>1, <2>2, <1>c DEF LetIn
<1>4. CASE OpenAlloc(t)
  BY <1>4, <1>c DEF OpenAlloc, LetIn
<1>5. CASE Flush(t)
  <2>1. users' = users /\ fds' = fds /\ file' = file /\ file[t] \in users
    BY <1>5 DEF Flush, LetIn
  <2>2. ASSUME pc'[t] = "dec" PROVE Sole(t)'
    <3>1. Sole(t) /\ file[t] \in Files
      BY <1>5, <2>2, LastReference DEF Flush, LastClose, WorkOn
    <3> PICK f \in Files : f = file[t]
      BY <3>1
    <3>2. Refs(f)' = Refs(f)
      <4>1. In(t, f) /\ In(t, f)'
        BY <1>5, <2>2, <2>1 DEF In, Holding, Flush
      <4> QED BY <4>1, <1>a, RefsStep
    <3> QED BY <3>1, <3>2, <2>1 DEF Sole
  <2> QED BY <2>1, <2>2, <1>c DEF LetIn
<1>6. CASE FlushDec(t)
  <2>1. /\ users' = users \ {file[t]} /\ fds' = fds /\ file' = file
        /\ pc[t] = "dec" /\ pc'[t] = "fput"
    BY <1>6 DEF FlushDec
  <2>2. Sole(t)
    BY <2>1 DEF LetIn
  <2>3. \A f \in Files : fds'[f] > 0 => f \in users'
    BY <2>1, <2>2 DEF LetIn, Sole
  <2>4. ASSUME NEW u \in Threads \ {t}, pc'[u] \in {"flush", "dec"} PROVE file'[u] \in users'
    <3>1. pc[u] \in {"flush", "dec"} /\ file[u] \in users
      BY <2>4, <1>a DEF OthersAlone, LetIn
    <3>2. file[u] # file[t]
      BY <3>1, <2>2 DEF Sole, Refs, In, Holding
    <3> QED BY <3>1, <3>2, <2>1
  <2>5. \A u \in Threads : pc'[u] \in {"flush", "dec"} => u \in Threads \ {t}
    BY <2>1
  <2> QED BY <2>3, <2>4, <2>5, <1>b DEF LetIn
<1>7. CASE OpenNoMem(t) \/ OpenUndo(t) \/ WriteUse(t) \/ Fput(t)
  BY <1>7, <1>c DEF OpenNoMem, OpenUndo, WriteUse, Fput, LetIn
<1>8. CASE ReleaseEnter(t) \/ ReleaseCheck(t) \/ ReleaseFree(t) \/ ReleaseOops(t)
  BY <1>8, <1>c DEF ReleaseEnter, ReleaseCheck, ReleaseFree, ReleaseOops, LetIn
<1> QED BY <1>1, <1>2, <1>3, <1>4, <1>5, <1>6, <1>7, <1>8 DEF ThreadStep

\* A file that is not in use was never let in, and nobody refers to it.
LEMMA UnusedFile ==
  ASSUME Inv, NEW f \in Files, Unused(f)
  PROVE  f \notin users /\ fds[f] = 0
<1>1. f_count[f] = 0 /\ \A t \in Threads : file[t] # f
  BY DEF Unused
<1>2. f \notin users
  BY <1>1 DEF Inv, Counted
<1> QED BY <1>2, BridgeFileAssumption DEF Inv, LetIn, TypeOK

LEMMA OpenOwnStep ==
  ASSUME Inv, NEW t \in Threads, ThreadStep(t)
  PROVE  OpenOwn'
<1> DEFINE Own(u) == /\ fds[file[u]] = 0
                     /\ \A v \in Threads : file[v] = file[u] => v = u
                     /\ file[u] \notin users
<1> SUFFICES ASSUME NEW u \in Threads, pc'[u] \in {"alloc", "undo"} PROVE Own(u)'
  BY DEF OpenOwn, Opening
<1>a. OthersAlone(t)
  BY ThreadFrame DEF Inv
<1>b. \A v \in Threads : pc[v] \in {"alloc", "undo"} => Own(v) /\ file[v] \in Files
  BY DEF Inv, OpenOwn, Opening, WorkOn
<1> USE DEF Inv, TypeOK, Goto, Done, adapterVars, fileVars
\* A step that lets no file in and opens none.
<1>c. ASSUME users' \subseteq users, fds' = fds, file'[t] \in {file[t], NULL},
             pc'[t] \in {"alloc", "undo"} => pc[t] \in {"alloc", "undo"} /\ file'[t] = file[t]
      PROVE  Own(u)'
  <2>1. pc[u] \in {"alloc", "undo"} /\ file'[u] = file[u]
    BY <1>a, <1>c DEF OthersAlone
  <2>2. Own(u) /\ file[u] # NULL
    BY <2>1, <1>b, BridgeFileAssumption
  <2>3. \A v \in Threads : file'[v] = file[v] \/ file'[v] = NULL
    BY <1>a, <1>c DEF OthersAlone
  <2> QED BY <1>c, <2>1, <2>2, <2>3
<1>1. CASE \E e \in Files : OpenAdd(t, e)
  <2> PICK e \in Files : OpenAdd(t, e)
    BY <1>1
  <2>1. e \notin users /\ fds[e] = 0 /\ \A v \in Threads : file[v] # e
    BY UnusedFile DEF OpenAdd, Unused
  <2>2. users' = users /\ fds' = fds /\ file'[t] = e
    BY DEF OpenAdd
  <2>3. CASE u = t
    BY <2>1, <2>2, <2>3, <1>a DEF OthersAlone
  <2>4. CASE u # t
    <3>1. pc[u] \in {"alloc", "undo"} /\ file'[u] = file[u] /\ Own(u)
      BY <2>4, <1>a, <1>b DEF OthersAlone
    <3>2. file[u] # e
      BY <2>1
    <3> QED BY <3>1, <3>2, <2>2, <1>a DEF OthersAlone
  <2> QED BY <2>3, <2>4
<1>2. CASE \E e \in Files : ReadEnter(t, e) \/ WriteEnter(t, e) \/ Close(t, e)
  <2> PICK e \in Files : ReadEnter(t, e) \/ WriteEnter(t, e) \/ Close(t, e)
    BY <1>2
  <2>1. users' = users /\ fds[e] > 0 /\ file'[t] = e /\ pc'[t] \notin {"alloc", "undo"}
    BY DEF ReadEnter, WriteEnter, Close, Fget
  <2>2. \A f \in Files \ {e} : fds'[f] = fds[f]
    BY DEF ReadEnter, WriteEnter, Close, Fget
  <2>3. u # t /\ pc[u] \in {"alloc", "undo"} /\ file'[u] = file[u]
    BY <2>1, <1>a DEF OthersAlone
  <2>4. Own(u) /\ file[u] \in Files \ {e}
    BY <2>1, <2>3, <1>b
  <2> QED BY <2>1, <2>2, <2>3, <2>4, <1>a DEF OthersAlone
<1>3. CASE OpenAlloc(t)
  <2>1. /\ users' = users \cup {file[t]} /\ file'[t] = NULL /\ pc'[t] = "idle"
        /\ \A f \in Files \ {file[t]} : fds'[f] = fds[f]
    BY <1>3 DEF OpenAlloc
  <2>2. u # t /\ pc[u] \in {"alloc", "undo"} /\ file'[u] = file[u]
    BY <2>1, <1>a DEF OthersAlone
  <2>3. Own(u) /\ file[u] \in Files \ {file[t]} /\ file[u] # NULL
    BY <2>2, <1>b, BridgeFileAssumption
  <2> QED BY <2>1, <2>2, <2>3, <1>a DEF OthersAlone
<1>4. CASE OpenNoMem(t) \/ OpenUndo(t)
  <2>1. users' \subseteq users /\ fds' = fds /\ file'[t] \in {file[t], NULL}
    BY <1>4 DEF OpenNoMem, OpenUndo
  <2>2. pc'[t] \in {"alloc", "undo"} => pc[t] \in {"alloc", "undo"} /\ file'[t] = file[t]
    BY <1>4 DEF OpenNoMem, OpenUndo
  <2> QED BY <2>1, <2>2, <1>c
<1>5. CASE WriteUse(t) \/ Fput(t) \/ Flush(t) \/ FlushDec(t)
  <2>1. users' \subseteq users /\ fds' = fds /\ file'[t] \in {file[t], NULL}
    BY <1>5 DEF WriteUse, Fput, Flush, FlushDec
  <2>2. pc'[t] \notin {"alloc", "undo"}
    BY <1>5 DEF WriteUse, Fput, Flush, FlushDec
  <2> QED BY <2>1, <2>2, <1>c
<1>6. CASE ReleaseEnter(t) \/ ReleaseCheck(t) \/ ReleaseFree(t) \/ ReleaseOops(t)
  <2>1. users' \subseteq users /\ fds' = fds /\ file'[t] \in {file[t], NULL}
    BY <1>6 DEF ReleaseEnter, ReleaseCheck, ReleaseFree, ReleaseOops
  <2>2. pc'[t] \notin {"alloc", "undo"}
    BY <1>6 DEF ReleaseEnter, ReleaseCheck, ReleaseFree, ReleaseOops
  <2> QED BY <2>1, <2>2, <1>c
<1> QED BY <1>1, <1>2, <1>3, <1>4, <1>5, <1>6 DEF ThreadStep

LEMMA CountedStep ==
  ASSUME Inv, NEW t \in Threads, ThreadStep(t)
  PROVE  Counted'
<1> DEFINE Releasing(f) == \E u \in Threads : file[u] = f /\ pc[u] \in {"release", "check", "bug"}
<1> SUFFICES ASSUME NEW f \in users' PROVE f_count'[f] > 0 \/ Releasing(f)'
  BY DEF Counted
<1>a. OthersAlone(t)
  BY ThreadFrame DEF Inv
<1>b. f \in users => f \in Files /\ f_count[f] \in Nat /\ (f_count[f] > 0 \/ Releasing(f))
  BY DEF Inv, Counted, TypeOK
<1>c. ASSUME f \in users,
             f_count[f] > 0 => f_count'[f] > 0 \/ Releasing(f)',
             file[t] = f /\ pc[t] \in {"release", "check", "bug"} => Releasing(f)'
      PROVE  f_count'[f] > 0 \/ Releasing(f)'
  BY <1>a, <1>b, <1>c DEF OthersAlone
<1> USE DEF Inv, TypeOK, Goto, Done, adapterVars, fileVars
<1>1. CASE \E e \in Files : OpenAdd(t, e)
  BY <1>1, <1>b, <1>c DEF OpenAdd
<1>2. CASE \E e \in Files : ReadEnter(t, e) \/ WriteEnter(t, e) \/ Close(t, e)
  BY <1>2, <1>b, <1>c DEF ReadEnter, WriteEnter, Close, Fget
<1>3. CASE OpenAlloc(t)
  <2>1. f_count' = f_count /\ users' = users \cup {file[t]} /\ pc[t] = "alloc"
    BY <1>3 DEF OpenAlloc
  <2>2. f_count[file[t]] \in Nat /\ f_count[file[t]] >= 1
    BY <2>1, Referenced DEF WorkOn, Holding
  <2> QED BY <2>1, <2>2, <1>c
<1>4. CASE OpenUndo(t)
  <2>1. file[t] \notin users
    BY <1>4 DEF OpenUndo, OpenOwn, Opening
  <2>2. f \in users /\ f # file[t]
    BY <1>4, <2>1 DEF OpenUndo
  <2>3. f_count'[f] = f_count[f] /\ pc[t] = "undo"
    BY <1>4, <2>2 DEF OpenUndo
  <2> QED BY <2>2, <2>3, <1>c
<1>5. CASE Fput(t)
  <2>1. f \in users /\ pc[t] = "fput" /\ file[t] \in Files
    BY <1>5 DEF Fput, WorkOn
  <2>2. f # file[t] => f_count'[f] = f_count[f]
    BY <1>5 DEF Fput
  <2>3. CASE f = file[t] /\ f_count[f] = 1
    <3>1. file'[t] = f /\ pc'[t] = "release"
      BY <1>5, <2>3 DEF Fput
    <3> QED BY <3>1
  <2>4. CASE f = file[t] /\ f_count[f] # 1
    <3>1. f_count'[f] = f_count[f] - 1
      BY <1>5, <2>4, <1>b, <2>1 DEF Fput
    <3>2. f_count[f] >= 1 /\ f_count[f] \in Nat
      BY <2>1, <2>4, <1>b, Referenced DEF Holding
    <3> QED BY <3>1, <3>2, <2>4
  <2> QED BY <2>1, <2>2, <2>3, <2>4, <1>c
<1>6. CASE OpenNoMem(t) \/ WriteUse(t) \/ Flush(t) \/ FlushDec(t)
  BY <1>6, <1>c DEF OpenNoMem, WriteUse, Flush, FlushDec
<1>7. CASE ReleaseEnter(t)
  <2>1. f \in users /\ f_count' = f_count /\ file' = file /\ pc'[t] = "check"
    BY <1>7 DEF ReleaseEnter
  <2> QED BY <2>1, <1>c
<1>8. CASE ReleaseCheck(t)
  <2>1. f \in users /\ f_count' = f_count /\ file' = file
    BY <1>8 DEF ReleaseCheck
  <2>2. nr_users # 0
    BY <2>1, UserCount
  <2>3. pc'[t] = "bug"
    BY <1>8, <2>2 DEF ReleaseCheck
  <2> QED BY <2>1, <2>3, <1>c
<1>9. CASE ReleaseFree(t) \/ ReleaseOops(t)
  BY <1>9, <1>c DEF ReleaseFree, ReleaseOops
<1> QED BY <1>1, <1>2, <1>3, <1>4, <1>5, <1>6, <1>7, <1>8, <1>9 DEF ThreadStep

LEMMA OneUserStep ==
  ASSUME Inv, NEW t \in Threads, ThreadStep(t)
  PROVE  OneUser'
<1>a. OthersAlone(t)
  BY ThreadFrame DEF Inv
<1> USE DEF Inv, TypeOK, Goto, Done, adapterVars
<1>b. ASSUME users' \subseteq users, pc'[t] = "alloc" => pc[t] = "alloc"
      PROVE  OneUser'
  BY <1>a, <1>b DEF OneUser, OthersAlone
<1>1. CASE \E e \in Files : OpenAdd(t, e)
  <2>1. users' = users
    BY <1>1 DEF OpenAdd
  <2>2. CASE pc'[t] = "alloc"
    <3>1. nr_users = 0
      BY <1>1, <2>2 DEF OpenAdd, MayOpen
    <3>2. users = {} /\ Opening = {}
      BY <3>1, UserCount
    <3>3. \A u \in Threads : pc[u] # "alloc"
      BY <3>2 DEF Opening
    <3> QED BY <2>1, <3>2, <3>3, <1>a DEF OneUser, OthersAlone
  <2> QED BY <2>1, <2>2, <1>b
<1>2. CASE OpenAlloc(t)
  <2>1. users = {} /\ users' = {file[t]} /\ pc[t] = "alloc" /\ pc'[t] = "idle"
    BY <1>2 DEF OpenAlloc, OneUser
  <2>2. \A u \in Threads : pc'[u] # "alloc"
    BY <2>1, <1>a DEF OneUser, OthersAlone
  <2> QED BY <2>1, <2>2 DEF OneUser
<1>3. CASE \E e \in Files : ReadEnter(t, e) \/ WriteEnter(t, e) \/ Close(t, e)
  BY <1>3, <1>b DEF ReadEnter, WriteEnter, Close, Fget
<1>4. CASE OpenNoMem(t) \/ OpenUndo(t) \/ WriteUse(t) \/ Fput(t)
  BY <1>4, <1>b DEF OpenNoMem, OpenUndo, WriteUse, Fput
<1>5. CASE Flush(t) \/ FlushDec(t)
  BY <1>5, <1>b DEF Flush, FlushDec
<1>6. CASE ReleaseEnter(t) \/ ReleaseCheck(t) \/ ReleaseFree(t) \/ ReleaseOops(t)
  BY <1>6, <1>b DEF ReleaseEnter, ReleaseCheck, ReleaseFree, ReleaseOops
<1> QED BY <1>1, <1>2, <1>3, <1>4, <1>5, <1>6 DEF ThreadStep

-----------------------------------------------------------------------------
LEMMA Invariance == Spec => []Inv
<1>1. Inv /\ [Next]_vars => Inv'
  <2> SUFFICES ASSUME Inv, [Next]_vars PROVE Inv'
    OBVIOUS
  <2>1. CASE \E f \in Files : Dup(f)
    BY <2>1, DupStep
  <2>2. ASSUME NEW t \in Threads, ThreadStep(t) PROVE Inv'
    <3>1. TypeOK' /\ WorkOn'
      BY <2>2, TypeStep DEF Inv
    <3>2. RefTable' /\ UserTable'
      BY <2>2, RefTableStep, AccountStep
    <3>3. LetIn' /\ OpenOwn' /\ Counted' /\ OneUser'
      BY <2>2, LetInStep, OpenOwnStep, CountedStep, OneUserStep
    <3> QED BY <3>1, <3>2, <3>3 DEF Inv
  <2>3. CASE UNCHANGED vars
    BY <2>3 DEF vars, adapterVars, fileVars, threadVars, Inv, TypeOK, WorkOn, RefTable, Refs,
                In, LetIn, Sole, OpenOwn, Opening, Counted, OneUser, UserTable
  <2> QED BY <2>1, <2>2, <2>3, NextCases
<1> QED BY <1>1, InitInv, PTL DEF Spec

(***************************************************************************)
(* Every variable keeps its type: nr_users, which refused open()s and      *)
(* flush() decrement without a test, and f_count never go below zero.      *)
(***************************************************************************)
THEOREM TypeCorrect == Spec => []TypeOK
<1>1. Inv => TypeOK
  BY DEF Inv
<1> QED BY <1>1, Invariance, PTL

-----------------------------------------------------------------------------
(***************************************************************************)
(* References, the other way round: f_count is no larger than what         *)
(* descriptors, system calls in progress and dead threads account for.     *)
(***************************************************************************)
Pinned(t, f) == pc[t] \in Holding \cup {"oops"} /\ file[t] = f

Pins(f) == {t \in Threads : Pinned(t, f)}

PinTable == \A f \in Files : f_count[f] <= fds[f] + Cardinality(Pins(f))

LEMMA PinsStep ==
  ASSUME NEW t \in Threads, OthersAlone(t), NEW f
  PROVE  /\ Cardinality(Pins(f)) \in Nat
         /\ Pinned(t, f) => Cardinality(Pins(f)) >= 1
         /\ (Pinned(t, f) <=> Pinned(t, f)') => Pins(f)' = Pins(f)
         /\ Pinned(t, f) /\ ~Pinned(t, f)' => Cardinality(Pins(f)') = Cardinality(Pins(f)) - 1
         /\ ~Pinned(t, f) /\ Pinned(t, f)' => Cardinality(Pins(f)') = Cardinality(Pins(f)) + 1
<1>1. \A u \in Threads \ {t} : Pinned(u, f) <=> Pinned(u, f)'
  BY DEF OthersAlone, Pinned
<1>2. (Pinned(t, f) <=> Pinned(t, f)') => Pins(f)' = Pins(f)
  BY <1>1 DEF Pins
<1>3. Pinned(t, f) /\ ~Pinned(t, f)' => Pins(f)' = Pins(f) \ {t}
  BY <1>1 DEF Pins
<1>4. ~Pinned(t, f) /\ Pinned(t, f)' => Pins(f)' = Pins(f) \cup {t}
  BY <1>1 DEF Pins
<1>5. Pinned(t, f) <=> t \in Pins(f)
  BY DEF Pins
<1>6. IsFiniteSet(Pins(f))
  <2>1. Pins(f) \in SUBSET Threads
    BY DEF Pins
  <2> QED BY <2>1, FS_Subset, BridgeFileAssumption
<1> HIDE DEF Pins
<1> QED BY <1>2, <1>3, <1>4, <1>5, <1>6, Count

LEMMA PinTableStep ==
  ASSUME Inv, PinTable, NEW t \in Threads, ThreadStep(t)
  PROVE  PinTable'
<1> SUFFICES ASSUME NEW g \in Files
             PROVE  f_count'[g] <= fds'[g] + Cardinality(Pins(g)')
  BY DEF PinTable
<1> DEFINE card == Cardinality(Pins(g))
<1>a. OthersAlone(t)
  BY ThreadFrame DEF Inv
<1>b. /\ card \in Nat
      /\ Pinned(t, g) => card >= 1
      /\ (Pinned(t, g) <=> Pinned(t, g)') => card' = card
      /\ Pinned(t, g) /\ ~Pinned(t, g)' => card' = card - 1
      /\ ~Pinned(t, g) /\ Pinned(t, g)' => card' = card + 1
  BY <1>a, PinsStep
<1>c. /\ f_count[g] <= fds[g] + card
      /\ f_count[g] \in Nat /\ fds[g] \in Nat
  BY BridgeFileAssumption DEF Inv, PinTable, TypeOK
<1> HIDE DEF card
<1> SUFFICES f_count'[g] <= fds'[g] + card'
  BY DEF card
<1> USE DEF Inv, TypeOK, Pinned, Holding, Goto, Done, adapterVars, fileVars
<1>1. CASE \E f \in Files : OpenAdd(t, f)
  <2> PICK f \in Files : OpenAdd(t, f)
    BY <1>1
  <2>1. fds' = fds /\ ~Pinned(t, g)
    BY DEF OpenAdd
  <2>2. g # f => f_count'[g] = f_count[g] /\ ~Pinned(t, g)'
    BY DEF OpenAdd
  <2>3. g = f => f_count'[g] = 1 /\ Pinned(t, g)'
    BY DEF OpenAdd, MayOpen
  <2> QED BY <2>1, <2>2, <2>3, <1>b, <1>c
<1>2. CASE \E f \in Files : ReadEnter(t, f) \/ WriteEnter(t, f)
  <2> PICK f \in Files : ReadEnter(t, f) \/ WriteEnter(t, f)
    BY <1>2
  <2>1. g # f => f_count'[g] = f_count[g] /\ fds' = fds /\ (Pinned(t, g) <=> Pinned(t, g)')
    BY DEF ReadEnter, WriteEnter, Fget
  <2>2. g = f => f_count'[g] = f_count[g] + 1 /\ fds' = fds /\ ~Pinned(t, g) /\ Pinned(t, g)'
    BY DEF ReadEnter, WriteEnter, Fget
  <2> QED BY <2>1, <2>2, <1>b, <1>c
<1>3. CASE \E f \in Files : Close(t, f)
  <2> PICK f \in Files : Close(t, f)
    BY <1>3
  <2>1. g # f => f_count' = f_count /\ fds'[g] = fds[g] /\ (Pinned(t, g) <=> Pinned(t, g)')
    BY DEF Close
  <2>2. g = f => f_count' = f_count /\ fds'[g] = fds[g] - 1 /\ ~Pinned(t, g) /\ Pinned(t, g)'
    BY DEF Close
  <2> QED BY <2>1, <2>2, <1>b, <1>c
<1>4. CASE OpenAlloc(t)
  <2>1. t \in Opening /\ file[t] \in Files
    BY <1>4 DEF OpenAlloc, Opening, WorkOn
  <2>2. g # file[t] => f_count' = f_count /\ fds'[g] = fds[g] /\ (Pinned(t, g) <=> Pinned(t, g)')
    BY <1>4 DEF OpenAlloc
  <2>3. g = file[t] => f_count' = f_count /\ fds'[g] = 1 /\ Pinned(t, g) /\ ~Pinned(t, g)'
    BY <1>4 DEF OpenAlloc
  <2>4. g = file[t] => fds[g] = 0
    BY <2>1 DEF OpenOwn
  <2> QED BY <2>2, <2>3, <2>4, <1>b, <1>c
<1>5. CASE OpenUndo(t)
  <2>1. fds' = fds /\ file[t] \in Files
    BY <1>5 DEF OpenUndo, WorkOn
  <2>2. g # file[t] => f_count'[g] = f_count[g] /\ (Pinned(t, g) <=> Pinned(t, g)')
    BY <1>5 DEF OpenUndo
  <2>3. g = file[t] => f_count'[g] = 0 /\ Pinned(t, g) /\ ~Pinned(t, g)'
    BY <1>5 DEF OpenUndo
  <2> QED BY <2>1, <2>2, <2>3, <1>b, <1>c
<1>6. CASE Fput(t)
  <2>1. file[t] \in Files
    BY <1>6 DEF Fput, WorkOn
  <2>2. g # file[t] => f_count'[g] = f_count[g] /\ fds' = fds /\ (Pinned(t, g) <=> Pinned(t, g)')
    BY <1>6 DEF Fput
  <2>3. g = file[t] => f_count'[g] = f_count[g] - 1 /\ fds' = fds /\ Pinned(t, g) /\ ~Pinned(t, g)'
    BY <1>6 DEF Fput
  <2> QED BY <2>2, <2>3, <1>b, <1>c
<1>7. CASE OpenNoMem(t) \/ Flush(t) \/ FlushDec(t) \/ WriteUse(t)
  <2>1. f_count' = f_count /\ fds' = fds /\ (Pinned(t, g) <=> Pinned(t, g)')
    BY <1>7 DEF OpenNoMem, Flush, FlushDec, WriteUse
  <2> QED BY <2>1, <1>b, <1>c
<1>8. CASE ReleaseEnter(t) \/ ReleaseCheck(t) \/ ReleaseFree(t) \/ ReleaseOops(t)
  <2>1. f_count' = f_count /\ fds' = fds /\ ~Pinned(t, g)
    BY <1>8 DEF ReleaseEnter, ReleaseCheck, ReleaseFree, ReleaseOops
  <2> QED BY <2>1, <1>b, <1>c
<1> QED BY <1>1, <1>2, <1>3, <1>4, <1>5, <1>6, <1>7, <1>8 DEF ThreadStep

LEMMA PinCorrect == Spec => [](Inv /\ PinTable)
<1>1. Init => PinTable
  <2> SUFFICES ASSUME Init, NEW f \in Files PROVE f_count[f] <= fds[f] + Cardinality(Pins(f))
    BY DEF PinTable
  <2>1. Pins(f) = {}
    BY DEF Init, Pins, Pinned, Holding
  <2>2. Cardinality(Pins(f)) = 0
    BY <2>1, FS_EmptySet
  <2> QED BY <2>2 DEF Init
<1>2. Inv /\ PinTable /\ [Next]_vars => PinTable'
  <2> SUFFICES ASSUME Inv, PinTable, [Next]_vars PROVE PinTable'
    OBVIOUS
  <2>1. ASSUME NEW f \in Files, Dup(f) PROVE PinTable'
    <3> SUFFICES ASSUME NEW g \in Files
                 PROVE  f_count'[g] <= fds'[g] + Cardinality(Pins(g)')
      BY DEF PinTable
    <3>1. Pins(g)' = Pins(g)
      BY <2>1 DEF Dup, threadVars, Pins, Pinned
    <3>2. Cardinality(Pins(g)) \in Nat
      <4>1. Pins(g) \in SUBSET Threads
        BY DEF Pins
      <4> QED BY <4>1, FS_Subset, FS_CardinalityType, BridgeFileAssumption
    <3>3. f_count[g] <= fds[g] + Cardinality(Pins(g)) /\ f_count[g] \in Nat /\ fds[g] \in Nat
      BY BridgeFileAssumption DEF PinTable, Inv, TypeOK
    <3>4. \/ f_count'[g] = f_count[g] /\ fds'[g] = fds[g]
          \/ f_count'[g] = f_count[g] + 1 /\ fds'[g] = fds[g] + 1
      BY <2>1 DEF Dup, Inv, TypeOK
    <3> QED BY <3>1, <3>2, <3>3, <3>4
  <2>2. CASE UNCHANGED vars
    BY <2>2 DEF vars, fileVars, threadVars, PinTable, Pins, Pinned
  <2> QED BY <2>1, <2>2, PinTableStep, NextCases
<1> QED BY <1>1, <1>2, Invariance, PTL DEF Spec

(***************************************************************************)
(* But for the open() calls in progress, adapter->nr_users counts all the  *)
(* files that are open and none that no thread has in hand: it lies        *)
(* between the number of the files that are open and that of the files     *)
(* that are open or in a call.                                             *)
(***************************************************************************)
THEOREM AccountCorrect == Spec => []UsersAccounted
<1>1. Inv /\ PinTable => UsersAccounted
  <2> SUFFICES ASSUME Inv, PinTable PROVE UsersAccounted
    OBVIOUS
  <2>1. StillOpen \subseteq users
    BY DEF Inv, LetIn, StillOpen, FilesAt
  <2>2. users \subseteq StillOpen \cup InCall
    <3> SUFFICES ASSUME NEW f \in users, f \notin StillOpen PROVE f \in InCall
      OBVIOUS
    <3>1. f \in Files /\ fds[f] = 0 /\ f_count[f] \in Nat
      BY BridgeFileAssumption DEF Inv, TypeOK, StillOpen
    <3>2. CASE \E t \in Threads : file[t] = f /\ pc[t] \in {"release", "check", "bug"}
      BY <3>1, <3>2 DEF InCall, FilesAt
    <3>3. CASE f_count[f] > 0
      <4>1. Cardinality(Pins(f)) # 0
        BY <3>1, <3>3 DEF PinTable
      <4>2. Pins(f) # {}
        BY <4>1, FS_EmptySet
      <4>3. PICK t \in Threads : pc[t] \in Holding \cup {"oops"} /\ file[t] = f
        BY <4>2 DEF Pins, Pinned
      <4>4. pc[t] \notin {"alloc", "undo"}
        BY <4>3 DEF Inv, OpenOwn, Opening
      <4>5. pc[t] \notin {"flush", "dec"}
        BY <3>1, <4>3 DEF StillOpen, FilesAt
      <4> QED BY <3>1, <4>3, <4>4, <4>5 DEF Holding, InCall, FilesAt
    <3> QED BY <3>2, <3>3 DEF Inv, Counted
  <2>3. IsFiniteSet(users) /\ IsFiniteSet(StillOpen \cup InCall)
    <3>1. (StillOpen \cup InCall) \in SUBSET Files
      BY DEF StillOpen, InCall, FilesAt
    <3> QED BY <3>1, UsersFinite, FS_Subset, BridgeFileAssumption DEF Inv
  <2>4. Cardinality(StillOpen) <= Cardinality(users)
    BY <2>1, <2>3, FS_Subset
  <2>5. Cardinality(users) <= Cardinality(StillOpen \cup InCall)
    BY <2>2, <2>3, FS_Subset
  <2>6. nr_users - Cardinality(Opening) = Cardinality(users)
    BY UserCount DEF Inv
  <2> QED BY <2>4, <2>5, <2>6 DEF UsersAccounted
<1> QED BY <1>1, PinCorrect, PTL

(***************************************************************************)
(* The exclusive open() of gf_bridge_open(): two files never have          *)
(* descriptors at the same time.                                           *)
(***************************************************************************)
THEOREM OpenCorrect == Spec => []ExclusiveOpen
<1>1. Inv => ExclusiveOpen
  BY DEF Inv, ExclusiveOpen, LetIn, OneUser
<1> QED BY <1>1, Invariance, PTL
=============================================================================
