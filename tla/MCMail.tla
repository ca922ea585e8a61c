------------------------------- MODULE MCMail -------------------------------
(* Two senders on machine A and two receivers of one mailbox of B.         *)
EXTENDS Mail, TLC

CONSTANTS A, B, s1, s2, r1, r2

MCMachine == s1 :> A @@ s2 :> A @@ r1 :> B @@ r2 :> B
MCBoxOf == r1 :> 0 @@ r2 :> 0
MCMaxSends == s1 :> 2 @@ s2 :> 1
=============================================================================
