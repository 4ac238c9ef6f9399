-------------------------------- MODULE Lists --------------------------------
(***************************************************************************)
(* What Array.sort and Array.filter make, said by the places the elements  *)
(* come to, which no recursion over lists need be told for.                *)
(***************************************************************************)
EXTENDS Integers, FiniteSets

\* The elements of S, each behind those that come before it: Before orders
\* any two of them.
Sorted(S, Before(_, _)) ==
    LET At(k) == CHOOSE e \in S : Cardinality({d \in S : Before(d, e)}) = k - 1
    IN  [k \in 1 .. Cardinality(S) |-> At(k)]

\* The elements at some places of a list, in their order.
Picked(list, places) ==
    LET order == Sorted(places, LAMBDA i, j : i < j)
    IN  [k \in 1 .. Cardinality(places) |-> list[order[k]]]
=============================================================================
