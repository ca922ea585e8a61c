--------------------------- MODULE MCSyncSyscalls ---------------------------
(* Two processes for TLC's run of SyncSyscalls: A with three threads,
   B with one.                                                             *)
EXTENDS SyncSyscalls, TLC

CONSTANTS a1, a2, a3, b1, A, B

MCSpace == [t \in Threads |-> IF t = b1 THEN B ELSE A]
MCSymmetry == Permutations(Threads \ {b1})

(* Programs that destroy what they created, by the rules, and programs that
   never destroy anything but break other rules and exit at any time.       *)
Careful == [calls |-> {"Destroy", "Exit"}, waived |-> {}]
Wild    == [calls |-> {"Exit"}, waived |-> {"staleId", "unbalanced"}]
CarefulAndWild == {Careful, Wild}
=============================================================================
