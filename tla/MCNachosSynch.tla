--------------------------- MODULE MCNachosSynch ---------------------------
(* Model values for TLC's runs of NachosSynch.                             *)
EXTENDS NachosSynch, TLC

CONSTANTS main, t1, t2, t3

MCThreads  == {main, t1, t2, t3}
MCSymmetry == Permutations({t1, t2, t3})
MCInitialValue == [s \in Semaphores |-> 0]
=============================================================================
