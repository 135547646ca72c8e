---------------------------- MODULE IncomingLock ----------------------------
(***************************************************************************)
(* incoming_slot_lock and the CPUs.  Mailbox lets every interrupt handler  *)
(* run beside the threads; here a handler runs on top of whatever its CPU  *)
(* was doing, which goes on only when the handler returns.  Both           *)
(* FEE_release_incoming() and all_msix() take the lock with spin_lock(),   *)
(* which keeps preemption off its CPU but not interrupts.  Only data       *)
(* messages: one slot, and its doorbell rings again once it was released.  *)
(***************************************************************************)
CONSTANTS CPUs, Readers, NULL

VARIABLES
  incoming_slot,  \* is it set?
  doorbell,       \* is an interrupt pending?
  lock,           \* the reader or the CPU whose handler has the lock, or NULL
  thread, rpc,    \* of each CPU: the reader in FEE_release_incoming() on it;
                  \*   of each reader: where it is
  handler         \* of each CPU: where all_msix() is, or NULL

vars == <<incoming_slot, doorbell, lock, thread, rpc, handler>>

Init ==
  /\ incoming_slot = FALSE /\ doorbell = TRUE
  /\ lock = NULL
  /\ thread = [c \in CPUs |-> NULL]
  /\ rpc = [r \in Readers |-> "idle"]
  /\ handler = [c \in CPUs |-> NULL]

-----------------------------------------------------------------------------
Interrupt(c) ==
  /\ doorbell /\ handler[c] = NULL
  /\ doorbell' = FALSE
  /\ handler' = [handler EXCEPT ![c] = "spin"]
  /\ UNCHANGED <<incoming_slot, lock, thread, rpc>>

HandlerLock(c) ==
  /\ handler[c] = "spin" /\ lock = NULL
  /\ lock' = c
  /\ handler' = [handler EXCEPT ![c] = "locked"]
  /\ UNCHANGED <<incoming_slot, doorbell, thread, rpc>>

HandlerDone(c) ==
  /\ handler[c] = "locked"
  /\ incoming_slot' = TRUE
  /\ lock' = NULL
  /\ handler' = [handler EXCEPT ![c] = NULL]
  /\ UNCHANGED <<doorbell, thread, rpc>>

all_msix(c) == HandlerLock(c) \/ HandlerDone(c)

-----------------------------------------------------------------------------
\* The CPU's thread runs: no handler on top of it.
Runs(c, r) == thread[c] = r /\ handler[c] = NULL

ReleaseEnter(c, r) ==
  /\ rpc[r] = "idle" /\ incoming_slot
  /\ Runs(c, NULL)
  /\ thread' = [thread EXCEPT ![c] = r]
  /\ rpc' = [rpc EXCEPT ![r] = "spin"]
  /\ UNCHANGED <<incoming_slot, doorbell, lock, handler>>

ReleaseLock(c, r) ==
  /\ Runs(c, r) /\ rpc[r] = "spin" /\ lock = NULL
  /\ lock' = r
  /\ rpc' = [rpc EXCEPT ![r] = "locked"]
  /\ UNCHANGED <<incoming_slot, doorbell, thread, handler>>

\* The sender sees buflen 0, and rings again.
ReleaseDone(c, r) ==
  /\ Runs(c, r) /\ rpc[r] = "locked"
  /\ incoming_slot' = FALSE /\ doorbell' = TRUE
  /\ lock' = NULL
  /\ thread' = [thread EXCEPT ![c] = NULL]
  /\ rpc' = [rpc EXCEPT ![r] = "idle"]
  /\ UNCHANGED handler

FEE_release_incoming(c, r) == ReleaseLock(c, r) \/ ReleaseDone(c, r)

\* Another sender's doorbell, which nothing holds back.
OtherDoorbell == ~ doorbell /\ doorbell' = TRUE
                 /\ UNCHANGED <<incoming_slot, lock, thread, rpc, handler>>

Next ==
  \/ OtherDoorbell
  \/ \E c \in CPUs : \/ Interrupt(c) \/ all_msix(c)
                     \/ \E r \in Readers : ReleaseEnter(c, r) \/ FEE_release_incoming(c, r)

\* Every CPU runs, and whoever waits for the lock gets it if it ever can.
Spec == /\ Init /\ [][Next]_vars
        /\ \A c \in CPUs : SF_vars(all_msix(c))
        /\ \A c \in CPUs, r \in Readers : SF_vars(FEE_release_incoming(c, r))

-----------------------------------------------------------------------------
(* "Doorbell comes in and sets the pointer then issues a wakeup": every    *)
(* all_msix() that was started comes to its end.                           *)
HandlerReturns == \A c \in CPUs : handler[c] # NULL ~> handler[c] = NULL
=============================================================================
