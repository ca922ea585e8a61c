--------------------------- MODULE MCServerCreate ---------------------------
(* ServerCreate for TLC: three clients that create n1, one of them n2 too. *)
EXTENDS ServerCreate, TLC

CONSTANTS c1, c2, c3, n1, n2

FirstBoth == [c \in Clients |-> [x \in Names |-> IF x = n1 \/ c = c1 THEN 1 ELSE 0]]

MCSymmetry == Permutations({c2, c3})
=============================================================================
