-------------------------------- MODULE LrSc --------------------------------
(***************************************************************************)
(* LR.W and SC.W in the MEM stage of rtl/riscv_soc.sv: the reservation,    *)
(* the port of the data memory, and what WB gets.  One step is one clock   *)
(* edge.  Pipeline settles the flag of an SC.W when it enters MEM; here it *)
(* is the RTL's, computed anew in every cycle the SC.W is there.           *)
(***************************************************************************)
EXTENDS Integers

CONSTANTS Addr,       \* addresses of accesses
          Value,      \* contents of a word
          CanHold,    \* a multiplier or divider in EX2 may hold MEM
          CanWrite    \* the host may write to the data memory

Instruction == [op : {"lr", "sc", "store"}, addr : Addr, data : Value]
Bubble == [op |-> "none"]

VARIABLES
  cpu_running, mem, mem_load_wait, wb,   \* RUN and not halted; the stages
  reservation, dmem,      \* reserved address, if any; data memory
  stored, report, since    \* history: the SC.W in MEM has stored; what the last one
                           \* reported and did; stores of the core since the last LR.W

vars == <<cpu_running, mem, mem_load_wait, wb, reservation, dmem, stored, report, since>>

sc_success == mem.op = "sc" /\ mem.addr \in reservation
cpu_dmem_we == mem.op = "store" \/ sc_success
hazard_load_data == mem.op = "lr" /\ mem_load_wait # 0

-----------------------------------------------------------------------------
(* The blocks of one clock edge.                                           *)

\* An LR.W sets it in every cycle it is in MEM, an SC.W clears it whatever it does.
Reservation ==
  reservation' =
    IF ~cpu_running THEN reservation
    ELSE IF mem.op = "lr" THEN {mem.addr}
    ELSE IF mem.op = "sc" \/ (mem.op = "store" /\ mem.addr \in reservation) THEN {}
    ELSE reservation

\* A host write takes the port.
Stores(host) == cpu_running /\ cpu_dmem_we /\ ~host
Dmem(host) ==
  IF host THEN \E a \in Addr, v \in Value : dmem' = [dmem EXCEPT ![a] = v]
  ELSE IF Stores(host) THEN dmem' = [dmem EXCEPT ![mem.addr] = mem.data]
  ELSE UNCHANGED dmem

\* MEM/WB does not wait for a multiplier or divider that holds MEM.
MemWb ==
  wb' = IF cpu_running /\ ~hazard_load_data
        THEN [sc |-> mem.op = "sc", fail |-> mem.op = "sc" /\ ~sc_success] ELSE wb

Leaves(flush, held) == cpu_running /\ ~hazard_load_data /\ (flush \/ ~held)
Ex2Mem(flush, held) ==
  IF flush THEN mem' = Bubble /\ mem_load_wait' = 0
  ELSE IF Leaves(flush, held)
  THEN /\ mem' \in Instruction \cup {Bubble}
       /\ mem_load_wait' = IF mem'.op = "lr" THEN 3 ELSE 0
  ELSE /\ UNCHANGED mem
       /\ mem_load_wait' = IF cpu_running /\ mem_load_wait # 0
                           THEN mem_load_wait - 1 ELSE mem_load_wait

History(flush, held, host) ==
  LET storedNow == stored \/ (mem.op = "sc" /\ Stores(host))
      leaves == Leaves(flush, held)
  IN /\ stored' = (storedNow /\ ~leaves /\ ~flush)
     /\ report' = IF mem.op = "sc" /\ leaves
                  THEN [fail |-> wb'.fail, stored |-> storedNow] ELSE report
     /\ since' = IF cpu_running /\ mem.op = "lr" THEN {}
                 ELSE IF cpu_running /\ cpu_dmem_we THEN since \cup {mem.addr} ELSE since

Init ==
  /\ cpu_running = FALSE /\ mem = Bubble /\ mem_load_wait = 0
  /\ wb = [sc |-> FALSE, fail |-> FALSE]
  /\ reservation = {} /\ dmem \in [Addr -> Value]
  /\ stored = FALSE /\ report = [fail |-> TRUE, stored |-> FALSE] /\ since = {}

Clock ==
  \E flush \in BOOLEAN,
     held \in IF CanHold THEN BOOLEAN ELSE {FALSE},
     host \in IF CanWrite THEN BOOLEAN ELSE {FALSE} :
    /\ Reservation /\ Dmem(host) /\ MemWb /\ Ex2Mem(flush, held)
    /\ History(flush, held, host)
    /\ cpu_running' \in BOOLEAN

\* A write of CTRL.RESET.
Reset ==
  /\ mem' = Bubble /\ mem_load_wait' = 0 /\ wb' = [wb EXCEPT !.sc = FALSE]
  /\ reservation' = {} /\ stored' = FALSE /\ cpu_running' \in BOOLEAN
  /\ since' = {}
  /\ UNCHANGED <<dmem, report>>

Next == Clock \/ Reset
Spec == Init /\ [][Next]_vars
-----------------------------------------------------------------------------
(* Properties.                                                             *)

\* rtl/riscv_soc.sv:1365: "SC.W returns 0 on success, 1 on fail": the register of an
\* SC.W ends with 0 exactly if its store has reached the memory.
ScReports == report.fail = ~report.stored

\* A reservation stands only while the core has not stored to its address since the
\* LR.W, so that no SC.W overwrites what the program wrote after its LR.W.
ReservationStands == reservation \cap since = {}
=============================================================================
