-------------------------------- MODULE Arrays --------------------------------
(***************************************************************************)
(* Array.prototype.filter of JavaScript, for the queues the client keeps in  *)
(* arrays.  It is given by the positions it keeps, without recursion.        *)
(***************************************************************************)
EXTENDS Naturals, Sequences, FiniteSets

(* The elements of q that are in S, in their order.                          *)
filter(q, S) ==
    LET kept == {i \in DOMAIN q : q[i] \in S}
    IN  [n \in 1..Cardinality(kept) |->
            q[CHOOSE i \in kept : Cardinality({j \in kept : j <= i}) = n]]
===============================================================================
