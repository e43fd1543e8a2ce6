------------------------------- MODULE Channel -------------------------------
(***************************************************************************)
(* What a direction of the JTAG UART promises: characters come out in the  *)
(* order in which they went in, none twice, none missing, and no more than *)
(* Capacity of them are on the way.                                        *)
(***************************************************************************)
EXTENDS Sequences, Naturals

CONSTANTS Char, Capacity

VARIABLE q    \* the characters on the way, the oldest first

Init == q = <<>>

Put == \E n \in 1 .. Capacity - Len(q) : \E s \in [1 .. n -> Char] : q' = q \o s

Get == \E n \in 1 .. Len(q) : q' = SubSeq(q, n + 1, Len(q))

Next == Put \/ Get

Spec == Init /\ [][Next]_q
=============================================================================
