--------------------------- MODULE MCVirtualMemory --------------------------
(* Processes A with threads a0 and a1 and B with b0 for TLC's runs of
   VirtualMemory.                                                           *)
EXTENDS VirtualMemory

CONSTANTS a0, a1, b0, A, B

MCSpace    == [t \in Threads |-> IF t = b0 THEN B ELSE A]
MCThreadID == [t \in Threads |-> IF t = a1 THEN 1 ELSE 0]

(* Each thread uses the page of the executable and the top of its stack, or
   only one of them.                                                        *)
Top(t)  == NumExecPages + (MCThreadID[t] + 1) * StackPages - 1
Shallow == [t \in Threads |-> {0, Top(t)}]
Few     == [t \in Threads |-> IF t = a0 THEN {0, Top(t)} ELSE IF t = a1 THEN {0} ELSE {Top(t)}]
=============================================================================
