---------------------------- MODULE MCAxiBridge ----------------------------
(***************************************************************************)
(* A data memory of two words for TLC, with the sniffer in its path: the   *)
(* word after the last is the first, as in the adapter's 20-bit address.   *)
(***************************************************************************)
EXTENDS Sniffer, TLC

MCWords == {0, 1}
MCNextWord == (0 :> 1) @@ (1 :> 0)

\* A write changes each word to a value of its own; one has no strobe set.
Read(w) == [op |-> "read", addr |-> w, data |-> [lo |-> 0, hi |-> 0], strobed |-> TRUE]
Write(w, v, strobe) ==
  [op |-> "write", addr |-> w, data |-> [lo |-> v, hi |-> 1 - v], strobed |-> strobe]
MCRequests == {Read(1), Write(0, 0, TRUE), Write(0, 1, FALSE)}
=============================================================================
