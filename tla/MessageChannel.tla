--------------------------- MODULE MessageChannel ---------------------------
(***************************************************************************)
(* What one direction of a connection promises: the messages come out      *)
(* whole, in the order they went in, each at most once.  Nothing promises  *)
(* that the last ones come out.                                            *)
(***************************************************************************)
EXTENDS Naturals, Sequences

CONSTANT Message

VARIABLES sent, delivered

Init == sent = <<>> /\ delivered = <<>>

Queue(m) == sent' = Append(sent, m) /\ UNCHANGED delivered

Deliver ==
  /\ Len(delivered) < Len(sent)
  /\ delivered' = Append(delivered, sent[Len(delivered) + 1])
  /\ UNCHANGED sent

Next == Deliver \/ \E m \in Message : Queue(m)

Spec == Init /\ [][Next]_<<sent, delivered>>
====
