------------------------------ MODULE MCMulDiv ------------------------------
(* Small words for MulDiv: every division, and products of factors at both *)
(* ends of the signed and the unsigned range.                              *)
EXTENDS MulDiv

MCPow2 == [n \in 0 .. W |-> 2 ^ n]
MCWord == 0 .. 2 ^ W - 1
MCFactor == {2 ^ (W - 1) - 1, 2 ^ W - 1}
MCRequests ==
  [op : DivOps, a : MCWord, b : MCWord] \cup [op : MulOps, a : MCFactor, b : MCFactor]
=============================================================================
