----------------------------- MODULE Letterbox -----------------------------
(***************************************************************************)
(* What the mailslots promise, whatever threads and interrupts there are:  *)
(* every peer owns a box for one message at a time.  The owner may post a  *)
(* whole message into its empty box; the peer it is addressed to takes     *)
(* hold of it and, holding it, empties the box.  Nobody else does, and no  *)
(* message is ever replaced or changed.  A peer may also lose its hold,    *)
(* and then the box stays full: the driver calls that a stomp.             *)
(***************************************************************************)
CONSTANTS
  Peers,
  Messages,   \* records with a field "to"
  Nothing,    \* what is in an empty box
  Nobody      \* who has hold of it

VARIABLES
  box,        \* box[s]: the message in the box of s, or Nothing
  holder      \* holder[s]: the peer that has hold of it, or Nobody

Init ==
  /\ box    = [s \in Peers |-> Nothing]
  /\ holder = [s \in Peers |-> Nobody]

Post(s) ==
  /\ box[s] = Nothing
  /\ box'[s] \in Messages
  /\ box' = [box EXCEPT ![s] = box'[s]]
  /\ UNCHANGED holder

Take(s) ==
  /\ box[s] # Nothing /\ holder[s] = Nobody
  /\ holder' = [holder EXCEPT ![s] = box[s].to]
  /\ UNCHANGED box

Lose(s) ==
  /\ holder[s] # Nobody
  /\ holder' = [holder EXCEPT ![s] = Nobody]
  /\ UNCHANGED box

Empty(s) ==
  /\ box[s] # Nothing /\ holder[s] = box[s].to
  /\ box'    = [box EXCEPT ![s] = Nothing]
  /\ holder' = [holder EXCEPT ![s] = Nobody]

Next == \E s \in Peers : Post(s) \/ Take(s) \/ Lose(s) \/ Empty(s)

Spec == Init /\ [][Next]_<<box, holder>>
=============================================================================
