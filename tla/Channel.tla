------------------------------ MODULE Channel ------------------------------
(***************************************************************************)
(* What one direction of a pair of imsg Handlers promises its two users:   *)
(* the messages that were sent come out once each, in order, whole, and    *)
(* each with the file descriptor it was sent with.  The receiver may learn *)
(* that the payload of a message does not decode into the type it asked    *)
(* for; it then loses that message and its descriptor, and no other.       *)
(*                                                                         *)
(* Module Imsg, the detailed model of privsep/src/imsg.rs, implements this *)
(* specification for the callers named in the README.                      *)
(***************************************************************************)
EXTENDS Naturals, Sequences

CONSTANTS
  Message,      \* what can be sent: header fields and descriptor
  Undecodable   \* what the receiver gets for a payload of the wrong type

VARIABLES
  sent,         \* every message accepted for sending, in order
  got           \* every result handed to the receiver, in order

Init == sent = <<>> /\ got = <<>>

Send ==
  /\ \E m \in Message : sent' = Append(sent, m)
  /\ UNCHANGED got

Receive ==
  /\ Len(got) < Len(sent)
  /\ \E m \in {sent[Len(got) + 1], Undecodable} : got' = Append(got, m)
  /\ UNCHANGED sent

Next == Send \/ Receive

Spec == Init /\ [][Next]_<<sent, got>>
=============================================================================
