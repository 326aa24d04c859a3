----------------------------- MODULE LrSc_proofs -----------------------------
(***************************************************************************)
(* Proofs about LrSc: a reservation stands only while nothing was stored   *)
(* to its word, and an SC.W that no unit holds in MEM reports what it did. *)
(***************************************************************************)
EXTENDS LrSc, TLAPS

\* A reservation never survives a store of the core to its address, whoever holds MEM
\* and whatever the host writes (the block of reservation_valid).
THEOREM ReservationsStand == Spec => []ReservationStands
<1>1. Init => ReservationStands
  BY DEF Init, ReservationStands
<1>2. ReservationStands /\ [Next]_vars => ReservationStands'
  <2> SUFFICES ASSUME ReservationStands, [Next]_vars
               PROVE  ReservationStands'
    OBVIOUS
  <2>1. CASE Clock
    <3> PICK flush \in BOOLEAN, held \in BOOLEAN, host \in BOOLEAN :
               Reservation /\ History(flush, held, host)
      BY <2>1 DEF Clock
    <3>1. CASE ~cpu_running
      BY <3>1 DEF ReservationStands, Reservation, History
    <3>2. CASE cpu_running /\ mem.op = "lr"
      BY <3>2 DEF ReservationStands, History
    <3>3. CASE cpu_running /\ mem.op = "sc"
      BY <3>3 DEF ReservationStands, Reservation
    <3>4. CASE cpu_running /\ mem.op = "store"
      <4>1. CASE mem.addr \in reservation
        BY <3>4, <4>1 DEF ReservationStands, Reservation
      <4>2. CASE mem.addr \notin reservation
        <5>1. reservation' = reservation
          BY <3>4, <4>2 DEF Reservation
        <5>2. since' = since \cup {mem.addr}
          BY <3>4 DEF History, cpu_dmem_we
        <5> QED  BY <4>2, <5>1, <5>2 DEF ReservationStands
      <4> QED  BY <4>1, <4>2
    <3>5. CASE cpu_running /\ mem.op \notin {"lr", "sc", "store"}
      <4>1. reservation' = reservation
        BY <3>5 DEF Reservation
      <4>2. since' = since
        BY <3>5 DEF History, cpu_dmem_we, sc_success
      <4> QED  BY <4>1, <4>2 DEF ReservationStands
    <3> QED  BY <3>1, <3>2, <3>3, <3>4, <3>5
  <2>2. CASE Reset
    BY <2>2 DEF Reset, ReservationStands
  <2>3. CASE UNCHANGED vars
    BY <2>3 DEF vars, ReservationStands
  <2> QED  BY <2>1, <2>2, <2>3 DEF Next
<1> QED  BY <1>1, <1>2, PTL DEF Spec

-----------------------------------------------------------------------------
(* ScReports holds of a core without multiplications and divisions, whose  *)
(* host does not write.  An SC.W then leaves MEM in the cycle it stores.   *)

Unheld == ~CanHold /\ ~CanWrite
UnheldInv == stored = FALSE /\ ScReports

LEMMA UnheldStep ==
  ASSUME Unheld, UnheldInv, Clock
  PROVE  UnheldInv'
<1> PICK flush \in BOOLEAN : MemWb /\ History(flush, FALSE, FALSE)
  BY DEF Clock, Unheld
<1>1. CASE mem.op = "sc" /\ cpu_running
  <2>1. Leaves(flush, FALSE)
    BY <1>1 DEF Leaves, hazard_load_data
  <2>2. wb' = [sc |-> mem.op = "sc", fail |-> mem.op = "sc" /\ ~sc_success]
    BY <1>1 DEF MemWb, hazard_load_data
  <2>3. wb'.fail = ~sc_success
    BY <1>1, <2>2
  <2>4. Stores(FALSE) = sc_success
    BY <1>1 DEF Stores, cpu_dmem_we, sc_success
  <2>5. stored' = FALSE
    BY <2>1 DEF History
  <2>6. report' = [fail |-> wb'.fail,
                   stored |-> stored \/ (mem.op = "sc" /\ Stores(FALSE))]
    BY <1>1, <2>1 DEF History
  <2>7. report'.stored = sc_success
    BY <1>1, <2>4, <2>6 DEF UnheldInv, sc_success
  <2>8. report'.fail = ~sc_success
    BY <2>3, <2>6
  <2> QED  BY <2>5, <2>7, <2>8 DEF UnheldInv, ScReports
<1>2. CASE ~(mem.op = "sc" /\ cpu_running)
  <2>1. stored' = FALSE
    BY <1>2 DEF History, Stores, UnheldInv
  <2>2. report' = report
    BY <1>2 DEF History, Leaves
  <2> QED  BY <2>1, <2>2 DEF UnheldInv, ScReports
<1> QED  BY <1>1, <1>2

\* An SC.W that nothing holds in MEM ends with 0 in its register exactly if it has
\* stored, for every set of addresses and values (riscv_soc.sv:1365).
THEOREM UnheldReports == ~CanHold /\ ~CanWrite => (Spec => []ScReports)
<1>1. Unheld /\ Init => Unheld /\ UnheldInv
  <2> SUFFICES ASSUME Init PROVE UnheldInv
    OBVIOUS
  <2>1. report = [fail |-> TRUE, stored |-> FALSE] /\ stored = FALSE
    BY DEF Init
  <2>2. report.fail = TRUE /\ report.stored = FALSE
    BY <2>1
  <2> QED  BY <2>1, <2>2 DEF UnheldInv, ScReports
<1>2. (Unheld /\ UnheldInv) /\ [Next]_vars => (Unheld /\ UnheldInv)'
  <2> SUFFICES ASSUME Unheld, UnheldInv, [Next]_vars
               PROVE  Unheld' /\ UnheldInv'
    OBVIOUS
  <2>1. Unheld'
    BY DEF Unheld
  <2>2. CASE Clock
    BY <2>1, <2>2, UnheldStep
  <2>3. CASE Reset
    BY <2>1, <2>3 DEF Reset, UnheldInv, ScReports
  <2>4. CASE UNCHANGED vars
    BY <2>1, <2>4 DEF vars, UnheldInv, ScReports
  <2> QED  BY <2>2, <2>3, <2>4 DEF Next
<1>3. Unheld /\ UnheldInv => ScReports
  BY DEF UnheldInv
<1>4. ~CanHold /\ ~CanWrite => Unheld
  BY DEF Unheld
<1> QED  BY <1>1, <1>2, <1>3, <1>4, PTL DEF Spec
=============================================================================
