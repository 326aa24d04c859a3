------------------------------- MODULE CpuLog -------------------------------
(***************************************************************************)
(* The log of the core's memory accesses: rtl/cpu_logger.sv, its control   *)
(* register and read window in rtl/riscv_soc.sv, the accesses of the MEM   *)
(* stage it records, and the host library's cpulog_clear and cpulog_dump.  *)
(* One step is one clock edge.  An entry is its type and the data it       *)
(* carries; address and time stamp are captured along with them.           *)
(***************************************************************************)
EXTENDS Integers, Sequences

CONSTANTS Depth,     \* entries in the log
          Row,       \* rows of the read window from one control row to the next
          Wrap,      \* values of the 32-bit count of entries
          Data,      \* what a word of memory holds
          Access,    \* what may enter MEM
          Blank,     \* the word of a register or a log nobody has written
          MaxDump    \* entries cpulog_dump is asked for

ASSUME SizeAssumption == Depth \in Nat \ {0} /\ Row \in Nat \ {0} /\ Wrap \in Nat \ {0}
ASSUME DataAssumption ==
  Blank \in Data /\ Access \subseteq [kind : {"none", "load", "store"}, word : Data]
ASSUME DumpAssumption == MaxDump \in 0..Depth

Bubble == [kind |-> "none", word |-> Blank]
Entry == [type : {"IFETCH", "DLOAD", "DSTORE"}, data : Data]
BlankEntry == [type |-> "IFETCH", data |-> Blank]

VARIABLES
  run, halted, in_mem, mem_load_wait, cpu_addr_reg, cpu_rdata,  \* the core and its memory
  cpulog_enable, cpulog_log_imem, cpulog_clear_req, cpulog_clear,  \* control register
  log_mem, log_wr_ptr, trans_count, entry_reg, write_pending,   \* the log
  doing, idx, left, got, gap,                                   \* the host
  events, total     \* history: what was to be logged since the last clear

pipe == <<in_mem, mem_load_wait, cpu_addr_reg, cpu_rdata>>
control == <<cpulog_enable, cpulog_log_imem, cpulog_clear_req, cpulog_clear>>
log == <<log_mem, log_wr_ptr, trans_count, entry_reg, write_pending>>
host == <<doing, idx, left, got, gap>>
vars == <<run, halted, pipe, control, log, host, events, total>>

-----------------------------------------------------------------------------
(* The MEM stage.                                                          *)

cpu_running == run /\ ~halted

\* Mutant: the load leaves MEM an edge before its word arrives.
LoadWaitShort == 1
\* Mutant: a wait its register has no room for.
LoadWaitLong == 4
LoadWait == 3
Waiting == in_mem.kind = "load" /\ mem_load_wait # 0

\* What EX2 held enters MEM.
Advance(next) ==
  /\ cpu_running /\ ~Waiting
  /\ in_mem' = next
  /\ mem_load_wait' = IF next.kind = "load" THEN LoadWait ELSE 0
\* The core stands still, a load waits, or a multiplier or divider holds MEM.
Hold ==
  /\ mem_load_wait' = IF cpu_running /\ Waiting THEN mem_load_wait - 1 ELSE mem_load_wait
  /\ UNCHANGED in_mem
\* A taken branch, a trap or a reset empties MEM.
Flush == in_mem' = Bubble /\ mem_load_wait' = 0

\* The memory reads behind an address register, whatever the address is for.
Dmem == cpu_addr_reg' = in_mem.word /\ cpu_rdata' = cpu_addr_reg

\* The entry the accesses of this cycle make: the fetch of an instruction gives way to
\* a data access, and a load makes an entry in every cycle it is in MEM.
Seen(fetch) ==
  IF ~cpu_running \/ ~cpulog_enable THEN {}
  ELSE IF in_mem.kind = "store" THEN {[type |-> "DSTORE", data |-> in_mem.word]}
  ELSE IF in_mem.kind = "load" THEN {[type |-> "DLOAD", data |-> cpu_rdata]}
  ELSE IF fetch /\ cpulog_log_imem THEN {[type |-> "IFETCH", data |-> Blank]}
  ELSE {}

-----------------------------------------------------------------------------
(* The log: an entry is built at one edge and written at the next.         *)

\* Where the entry k places older than the newest is.
\* Mutant: the newest entry is looked for where the next one goes.
AgeFromNext(k) == IF k <= log_wr_ptr THEN log_wr_ptr - k ELSE log_wr_ptr - k + Depth
Age(k) == IF k < log_wr_ptr THEN log_wr_ptr - 1 - k ELSE log_wr_ptr - 1 - k + Depth

\* Mutant: an entry under way when the log is cleared is written afterwards.
ClearLate ==
  /\ log_wr_ptr' = 0 /\ trans_count' = 0
  /\ UNCHANGED <<log_mem, entry_reg, write_pending>>
Clear ==
  /\ log_wr_ptr' = 0 /\ trans_count' = 0 /\ write_pending' = FALSE
  /\ UNCHANGED <<log_mem, entry_reg>>

Record(seen) ==
  /\ IF write_pending
     THEN /\ log_mem' = [log_mem EXCEPT ![log_wr_ptr] = entry_reg]
          /\ log_wr_ptr' = IF log_wr_ptr = Depth - 1 THEN 0 ELSE log_wr_ptr + 1
          /\ trans_count' = (trans_count + 1) % Wrap
     ELSE UNCHANGED <<log_mem, log_wr_ptr, trans_count>>
  /\ write_pending' = (seen # {})
  /\ entry_reg' \in IF seen = {} THEN {entry_reg} ELSE seen

Logger(seen) == IF cpulog_clear THEN Clear ELSE Record(seen)

\* The newest Depth + 1 events, newest first: one may still be in entry_reg.
Newest(s) == SubSeq(s, 1, IF Len(s) <= Depth THEN Len(s) ELSE Depth + 1)
History(seen) ==
  IF cpulog_clear THEN events' = <<>> /\ total' = 0
  ELSE IF seen = {} THEN UNCHANGED <<events, total>>
  ELSE /\ \E e \in seen : events' = Newest(<<e>> \o events)
       /\ total' = (total + 1) % Wrap

-----------------------------------------------------------------------------
(* The host: one access in a cycle, and the next some cycles later.        *)

\* The bridge takes longer than this from one access to the next.
HostGap == 2
Ready == gap = HostGap

\* A write to the control register takes hold at this edge, a clear one edge later.
Control(enable, clear, imem) ==
  /\ cpulog_enable' = enable /\ cpulog_log_imem' = imem
  /\ cpulog_clear_req' = clear /\ cpulog_clear' = cpulog_clear_req
NoControl ==
  /\ cpulog_clear_req' = FALSE /\ cpulog_clear' = cpulog_clear_req
  /\ UNCHANGED <<cpulog_enable, cpulog_log_imem>>

\* Rows that are a multiple of Row show the count and the control register.
Shadowed(i) == (i + 1) % Row = 0
Shown(i) == IF Shadowed(i)
            THEN [type |-> "control", data |-> trans_count] ELSE log_mem[Age(i)]

Waits ==
  /\ gap' = IF Ready THEN gap ELSE gap + 1
  /\ NoControl /\ UNCHANGED <<run, doing, idx, left, got>>

\* cpu_run and cpu_stop; cpu_reset empties the pipeline and ends a halt.
RunStop ==
  /\ Ready /\ doing = "idle"
  /\ run' = ~run /\ gap' = 0
  /\ NoControl /\ UNCHANGED <<doing, idx, left, got>>
Reset ==
  /\ Ready /\ doing = "idle"
  /\ run' = FALSE /\ halted' = FALSE /\ gap' = 0
  /\ NoControl /\ UNCHANGED <<doing, idx, left, got>>

\* cpulog_clear and cpulog_clear_with_imem: clear and enable, then enable only.
ClearLog ==
  /\ Ready /\ doing = "idle"
  /\ Control(TRUE, TRUE, FALSE)
  /\ doing' = "clear" /\ gap' = 0
  /\ UNCHANGED <<run, idx, left, got>>
EnableLog ==
  /\ Ready /\ doing = "clear"
  /\ \E imem \in BOOLEAN : Control(TRUE, FALSE, imem)
  /\ doing' = "idle" /\ gap' = 0
  /\ UNCHANGED <<run, idx, left, got>>

\* cpulog_dump, which its callers only use on a core they have stopped.
\* Mutant: the core still runs.
DumpAnyTime == Ready /\ doing = "idle"
MayDump == Ready /\ doing = "idle" /\ ~run
ReadCount ==
  /\ MayDump
  /\ doing' = "type" /\ idx' = 0 /\ gap' = 0
  /\ left' = IF trans_count < MaxDump THEN trans_count ELSE MaxDump
  /\ NoControl /\ UNCHANGED <<run, got>>
ReadType ==
  /\ Ready /\ doing = "type" /\ left > 0
  /\ got' = [got EXCEPT !.type = Shown(idx).type]
  /\ doing' = "data" /\ gap' = 0
  /\ NoControl /\ UNCHANGED <<run, idx, left>>
ReadData ==
  /\ Ready /\ doing = "data"
  /\ got' = [got EXCEPT !.data = Shown(idx).data]
  /\ doing' = "type" /\ idx' = idx + 1 /\ left' = left - 1 /\ gap' = 0
  /\ NoControl /\ UNCHANGED run
DumpEnds ==
  /\ doing = "type" /\ left = 0
  /\ doing' = "idle" /\ idx' = 0 /\ got' = BlankEntry
  /\ NoControl /\ UNCHANGED <<run, left, gap>>

Ebreak == UNCHANGED halted \/ (cpu_running /\ halted' = TRUE)

Host == /\ Ebreak
        /\ \/ Waits \/ RunStop \/ ClearLog \/ EnableLog
           \/ ReadCount \/ ReadType \/ ReadData \/ DumpEnds

-----------------------------------------------------------------------------
Init ==
  /\ run = FALSE /\ halted = FALSE /\ in_mem = Bubble /\ mem_load_wait = 0
  /\ cpu_addr_reg = Blank /\ cpu_rdata = Blank
  /\ cpulog_enable = TRUE /\ cpulog_log_imem = FALSE
  /\ cpulog_clear_req = FALSE /\ cpulog_clear = FALSE
  /\ log_mem = [i \in 0..(Depth - 1) |-> BlankEntry] /\ log_wr_ptr = 0
  /\ trans_count = 0 /\ entry_reg = BlankEntry /\ write_pending = FALSE
  /\ doing = "idle" /\ idx = 0 /\ left = 0 /\ got = BlankEntry /\ gap = HostGap
  /\ events = <<>> /\ total = 0

\* No instruction is fetched in a cycle that stalls the front of the pipeline,
\* which a load in MEM may do even when MEM advances.
Edge(fetch) == Dmem /\ Logger(Seen(fetch)) /\ History(Seen(fetch))
Clock ==
  \/ \E next \in Access, fetch \in BOOLEAN : Advance(next) /\ Edge(fetch) /\ Host
  \/ Hold /\ Edge(FALSE) /\ Host
  \/ \E fetch \in BOOLEAN : (fetch => ~Waiting) /\ Flush /\ Edge(fetch) /\ Host
  \/ Flush /\ Edge(FALSE) /\ Reset

Spec == Init /\ [][Clock]_vars
-----------------------------------------------------------------------------
(* Properties.                                                             *)

TypeOK ==
  /\ run \in BOOLEAN /\ halted \in BOOLEAN
  /\ in_mem \in Access \cup {Bubble} /\ mem_load_wait \in 0..3
  /\ cpu_addr_reg \in Data /\ cpu_rdata \in Data
  /\ cpulog_enable \in BOOLEAN /\ cpulog_log_imem \in BOOLEAN
  /\ cpulog_clear_req \in BOOLEAN /\ cpulog_clear \in BOOLEAN
  /\ log_mem \in [0..(Depth - 1) -> Entry] /\ log_wr_ptr \in 0..(Depth - 1)
  /\ trans_count \in 0..(Wrap - 1)
  /\ entry_reg \in Entry /\ write_pending \in BOOLEAN
  /\ doing \in {"idle", "clear", "type", "data"}
  /\ idx \in 0..MaxDump /\ left \in 0..MaxDump /\ gap \in 0..HostGap
  /\ got \in [type : {"IFETCH", "DLOAD", "DSTORE", "control"}, data : Data \cup Nat]
  /\ events \in Seq(Entry) /\ Len(events) <= Depth + 1 /\ total \in 0..(Wrap - 1)

\* The log holds the events since the last clear, newest first, none lost, none
\* twice, and no older one counted: the newest may be on its way in entry_reg.
Late == IF write_pending THEN 1 ELSE 0
RingHoldsHistory ==
  /\ write_pending => Len(events) > 0 /\ events[1] = entry_reg
  /\ \A k \in 0..(Depth - 1) :
       k + Late < Len(events) => log_mem[Age(k)] = events[k + 1 + Late]
  /\ total = (trans_count + Late) % Wrap

\* What cpulog_dump has just read is the event of that age, where the window
\* shows entries at all, and it asks for as many as there are.
DumpIsNewest ==
  /\ doing = "type" /\ idx > 0 /\ ~Shadowed(idx - 1) => got = events[idx]
  /\ doing \in {"type", "data"} =>
       idx + left = IF total < MaxDump THEN total ELSE MaxDump

\* A load that may go on to WB makes an entry with the word it read, whatever the
\* entries of the cycles before carry.
LoadIsLogged ==
  [][in_mem.kind = "load" /\ ~Waiting /\ cpu_running /\ cpulog_enable /\ ~cpulog_clear
     => events'[1] = [type |-> "DLOAD", data |-> in_mem.word]]_vars

\* cpu_logger.sv:130: "IMEM and DMEM data are valid in the SAME cycle as the
\* request.", so the entry of a load carries the word it reads.
LoggedDataIsRead ==
  [][(write_pending' /\ entry_reg'.type = "DLOAD") => entry_reg'.data = in_mem.word]_vars
=============================================================================
