--------------------------- MODULE ReliableStream ---------------------------
(***************************************************************************)
(* What a serial output path promises its caller: the characters sent are  *)
(* delivered in the order they were sent, none is lost or made up, and     *)
(* every one of them is delivered in the end - unless the sender is reset, *)
(* which loses what is under way and starts anew.                          *)
(***************************************************************************)
EXTENDS Naturals, Sequences

CONSTANT Char
VARIABLES sent, delivered

\* The sender may already have characters under way.
Init == sent \in Seq(Char) /\ delivered = <<>>

Send ==
    /\ \E c \in Char : sent' = Append(sent, c)
    /\ UNCHANGED delivered

Deliver ==
    /\ Len(delivered) < Len(sent)
    /\ delivered' = Append(delivered, sent[Len(delivered) + 1])
    /\ UNCHANGED sent

Reset == sent' = <<>> /\ delivered' = <<>>

vars == <<sent, delivered>>
Next == Send \/ Deliver \/ Reset

\* The order and the content, without the promise that anything arrives.
Safe == Init /\ [][Next]_vars
Spec == Safe /\ WF_vars(Deliver)
=============================================================================
