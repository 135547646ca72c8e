------------------------- MODULE MailboxRefinement -------------------------
(***************************************************************************)
(* Mailbox implements Letterbox.  A box is full from the end of the copy   *)
(* into the slot, not from the moment its buflen is set, until buflen is   *)
(* cleared.  A client has hold of a slot while the slot's handler is at it *)
(* or incoming_slot points at it, the server from the doorbell on.         *)
(***************************************************************************)
EXTENDS Mailbox

Blank == [body |-> Text("none"), to |-> NULL]

Copying(s) == s \in Clients /\ \E c \in Ctx : pc[s][c] = "copy"

Boxed(s) == IF buflen[s] = 0 \/ Copying(s) THEN Blank ELSE buf[s]

Holders(s) == {n \in Clients : HeldBy(s, n)} \cup {p \in {server_id} : s \in irq[p]}

Letter == INSTANCE Letterbox WITH
  Messages <- [body: Body, to: Ids],
  Nothing  <- Blank,
  Nobody   <- NULL,
  box      <- [s \in Peers |-> Boxed(s)],
  holder   <- [s \in Peers |-> IF Holders(s) = {} THEN NULL
                               ELSE CHOOSE n \in Holders(s) : TRUE]

(* The mailslot protocol as a whole: buflen tested and set without a lock, *)
(* the text copied after that, the doorbell, the handler and incoming_slot *)
(* amount to boxes that only their owner fills and only the addressee      *)
(* empties, one whole message at a time.                                   *)
ImplementsLetterbox == Letter!Spec
=============================================================================
