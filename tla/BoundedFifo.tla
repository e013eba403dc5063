----------------------------- MODULE BoundedFifo -----------------------------
(***************************************************************************)
(* What a pipe promises: the bytes come out in the order in which they     *)
(* went in, none lost, none twice, never more than Size of them inside.    *)
(***************************************************************************)
EXTENDS Naturals, Sequences

CONSTANTS Byte, Size

VARIABLE q

Init == q = <<>>

Put == Len(q) < Size /\ \E b \in Byte : q' = Append(q, b)

Get == q # <<>> /\ q' = Tail(q)

Spec == Init /\ [][Put \/ Get]_q
=============================================================================
