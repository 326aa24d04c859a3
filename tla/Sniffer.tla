------------------------------ MODULE Sniffer ------------------------------
(***************************************************************************)
(* The bus sniffer, rtl/bus_sniffer.sv, between the adapter and the        *)
(* memories, in the path AxiBridge models: one step is one clock edge of   *)
(* both.  It has one register for a read whose word is still to come and   *)
(* one for an entry still to be written, and relies on the adapter to keep *)
(* accesses far enough apart.                                              *)
(*                                                                         *)
(* Accesses to the sniffer's own registers are not logged and are left     *)
(* out: a write of its control register takes hold while no other access   *)
(* is under way.                                                           *)
(***************************************************************************)
EXTENDS AxiBridge, Integers, Sequences

CONSTANT Depth     \* entries in the log
ASSUME DepthAssumption == Depth \in Nat \ {0}

Entry == [type : {"read", "write"}, addr : Words, data : Value]

VARIABLES
  sniffer_enable, sniffer_clear_req, sniffer_clear,   \* control register
  pending_read, pending_addr,                         \* a read whose word is to come
  entry_reg, write_pending, log_mem, log_wr_ptr,      \* the log
  seen      \* history: the accesses the memory has seen since a clear, newest first

control == <<sniffer_enable, sniffer_clear_req, sniffer_clear>>
log == <<pending_read, pending_addr, entry_reg, write_pending, log_mem, log_wr_ptr>>
svars == <<vars, control, log, seen>>

out_ren == state \in {"R_LO", "R_HI"}

-----------------------------------------------------------------------------
(* A control write: enable at this edge, clear one edge later.             *)
Control ==
  \/ sniffer_clear_req' = FALSE /\ UNCHANGED sniffer_enable
  \/ /\ phase = "quiet" /\ ~sniffer_clear_req
     /\ sniffer_enable' \in BOOLEAN /\ sniffer_clear_req' \in BOOLEAN

ControlEdge == Control /\ sniffer_clear' = sniffer_clear_req

Clear ==
  /\ log_wr_ptr' = 0 /\ write_pending' = FALSE /\ pending_read' = FALSE
  /\ UNCHANGED <<pending_addr, entry_reg, log_mem>>

\* Stage 2: the entry built at the last edge goes to the log.
Book ==
  IF write_pending
  THEN /\ log_mem' = [log_mem EXCEPT ![log_wr_ptr] = entry_reg]
       /\ log_wr_ptr' = (log_wr_ptr + 1) % Depth
  ELSE UNCHANGED <<log_mem, log_wr_ptr>>

\* Stage 1: a write makes its entry at once, a read when its word has arrived; of
\* two in one cycle the read's is kept.
WriteEntry == [type |-> "write", addr |-> out_addr, data |-> out_wdata]
\* Mutant: the entry of a read has the word of the read before.
ReadEntryEarly == [type |-> "read", addr |-> pending_addr, data |-> rdata.lo]
ReadEntry == [type |-> "read", addr |-> pending_addr, data |-> host_rdata]
Capture ==
  /\ write_pending' = ((out_wen /\ sniffer_enable) \/ pending_read)
  /\ entry_reg' = IF pending_read THEN ReadEntry
                  ELSE IF out_wen /\ sniffer_enable THEN WriteEntry ELSE entry_reg
  /\ pending_read' = (out_ren /\ sniffer_enable /\ ~pending_read)
  /\ pending_addr' = IF out_ren /\ sniffer_enable THEN out_addr ELSE pending_addr

Log == IF sniffer_clear THEN Clear ELSE Book /\ Capture

\* What the memory sees at this edge, and what of it the log may still have.
Late == (IF write_pending THEN 1 ELSE 0) + (IF pending_read THEN 1 ELSE 0)
Newest(s, n) == SubSeq(s, 1, IF Len(s) < n THEN Len(s) ELSE n)
Access == IF out_wen THEN <<WriteEntry>>
          ELSE IF out_ren THEN <<[type |-> "read", addr |-> out_addr, data |-> dmem[out_addr]]>>
          ELSE <<>>
History ==
  seen' = IF sniffer_clear THEN <<>>
          ELSE Newest((IF sniffer_enable THEN Access ELSE <<>>) \o seen, Depth + Late')

Sniff == ControlEdge /\ Log /\ History

SniffedInit ==
  /\ Init
  /\ sniffer_enable = TRUE /\ sniffer_clear_req = FALSE /\ sniffer_clear = FALSE
  /\ pending_read = FALSE /\ pending_addr = Word0
  /\ entry_reg = [type |-> "read", addr |-> Word0, data |-> Zero]
  /\ write_pending = FALSE
  /\ log_mem = [i \in 0..(Depth - 1) |-> entry_reg] /\ log_wr_ptr = 0
  /\ seen = <<>>

SniffedSpec ==
  /\ SniffedInit
  /\ [][Clock /\ Sniff]_svars
  /\ WF_svars(Edge(TRUE, TRUE, TRUE) /\ Sniff)
-----------------------------------------------------------------------------
(* Properties.                                                             *)

\* Entry k of the window, 0 the newest.
Shown(k) == log_mem[(log_wr_ptr - 1 - k) % Depth]

\* The log holds what the memory saw: every access since the last clear, each
\* with its own address and the word that was read or written, in order, however
\* close the adapter puts the accesses together.
SniffsAll ==
  \A k \in 0..(Depth - 1) : k + Late < Len(seen) => Shown(k) = seen[k + 1 + Late]
=============================================================================
