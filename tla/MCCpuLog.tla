------------------------------ MODULE MCCpuLog ------------------------------
(***************************************************************************)
(* Accesses for TLC: a load's word differs from what a store writes and    *)
(* from what the memory's read register holds before it arrives.           *)
(***************************************************************************)
EXTENDS CpuLog

MCAccess == {Bubble, [kind |-> "store", word |-> 0], [kind |-> "load", word |-> 1]}
=============================================================================
