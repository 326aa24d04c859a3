------------------------------ MODULE Console ------------------------------
(***************************************************************************)
(* The console of a running program: two rings in data memory between the  *)
(* CPU (putchar, getchar, getchar_nb of sw/lib/uart.h) and the host's loop *)
(* in host/src/uart_console.c, without a lock.  Every volatile access of   *)
(* the CPU and every 32-bit half of a host access is one step, as HostPort *)
(* has it.  The host only writes whole 64-bit words: write32 of            *)
(* host/src/pcie_vfio.c reads the word and writes both halves back, and    *)
(* each ring keeps its head and its tail in the two halves of one word.    *)
(* A character is its number in the order it was written or typed.         *)
(***************************************************************************)
EXTENDS Naturals

CONSTANTS Size,             \* slots of a ring (16 in the code)
          MaxOut, MaxIn,    \* bounds: characters written, keys typed
          Starts            \* how it starts: "loader" if elf_loader ran the
                            \* program first, "clear" if it only loaded it

ASSUME SizeAssumption == Size \in Nat \ {0, 1}
ASSUME BoundAssumption == MaxOut \in Nat /\ MaxIn \in Nat
ASSUME StartsAssumption == Starts \subseteq {"loader", "clear"}

Slots == 0 .. Size - 1

VARIABLES
  tx_buf, tx_head, tx_tail,   \* output ring
  rx_buf, rx_head, rx_tail,   \* input ring
  cpu,                        \* the CPU's place and local variables
  host,                       \* the host's place and local variables
  cpu_running,                \* the RUN bit
  written, shown,             \* last character written, displayed
  typed, got, seen            \* last key accepted, read, highest key read

tx == <<tx_buf, tx_head, tx_tail>>
rx == <<rx_buf, rx_head, rx_tail>>
ghosts == <<written, shown, typed, got, seen>>
vars == <<tx, rx, cpu, host, cpu_running, ghosts>>

\* Mutant: the index is not masked.
AfterUnmasked(i) == i + 1
After(i) == (i + 1) % Size

-----------------------------------------------------------------------------
(* The CPU.  at is the access it performs next, i the index it has loaded. *)

CpuGoes(at) == cpu' = [cpu EXCEPT !.at = at]

\* putchar
PutHead ==
  /\ cpu.at = "idle" /\ written < MaxOut
  /\ cpu' = [at |-> "put_wait", i |-> tx_head]
  /\ UNCHANGED <<tx, rx, ghosts>>
PutWait ==
  /\ cpu.at = "put_wait" /\ After(cpu.i) # tx_tail
  /\ CpuGoes("put_buf")
  /\ UNCHANGED <<tx, rx, ghosts>>
PutBuf ==
  /\ cpu.at = "put_buf"
  /\ tx_buf' = [tx_buf EXCEPT ![cpu.i] = written + 1]
  /\ CpuGoes("put_head") /\ written' = written + 1
  /\ UNCHANGED <<tx_head, tx_tail, rx, shown, typed, got, seen>>
PutPublish ==
  /\ cpu.at = "put_head"
  /\ tx_head' = After(cpu.i)
  /\ CpuGoes("idle")
  /\ UNCHANGED <<tx_buf, tx_tail, rx, ghosts>>

\* getchar, and getchar_nb, which returns at once when there is no key.
GetTail ==
  /\ cpu.at = "idle"
  /\ \E call \in {"get_wait", "get_poll"} : cpu' = [at |-> call, i |-> rx_tail]
  /\ UNCHANGED <<tx, rx, ghosts>>
GetWait ==
  /\ cpu.at = "get_wait" /\ cpu.i # rx_head
  /\ CpuGoes("get_buf")
  /\ UNCHANGED <<tx, rx, ghosts>>
GetPoll ==
  /\ cpu.at = "get_poll"
  /\ CpuGoes(IF cpu.i = rx_head THEN "idle" ELSE "get_buf")
  /\ UNCHANGED <<tx, rx, ghosts>>
GetBuf ==
  /\ cpu.at = "get_buf"
  /\ got' = rx_buf[cpu.i]
  /\ seen' = IF got' > seen THEN got' ELSE seen
  /\ CpuGoes("get_tail")
  /\ UNCHANGED <<tx, rx, written, shown, typed>>
GetPublish ==
  /\ cpu.at = "get_tail"
  /\ rx_tail' = After(cpu.i)
  /\ CpuGoes("idle")
  /\ UNCHANGED <<tx, rx_buf, rx_head, ghosts>>

CpuLoads == PutHead \/ PutWait \/ GetTail \/ GetWait \/ GetPoll \/ GetBuf
CpuStores == PutBuf \/ PutPublish \/ GetPublish
CpuStep == cpu_running /\ (CpuLoads \/ CpuStores) /\ UNCHANGED <<host, cpu_running>>

\* The data memory drops a CPU store that meets a host write: the CPU goes on.
StoreLost ==
  /\ cpu_running
  /\ \/ cpu.at = "put_buf" /\ CpuGoes("put_head") /\ written' = written + 1
     \/ cpu.at \in {"put_head", "get_tail"} /\ CpuGoes("idle") /\ UNCHANGED written
CpuDuringWrite == StoreLost \/ UNCHANGED <<cpu, written>>

-----------------------------------------------------------------------------
(* The host's loop.  at is the access it performs next; head, tail and     *)
(* current are its local variables.                                        *)

HostGoes(at) == host' = [host EXCEPT !.at = at]

ReadTxHead ==
  /\ host.at = "tx_head"
  /\ host' = [host EXCEPT !.at = "tx_tail", !.head = tx_head]
  /\ UNCHANGED <<tx, rx, cpu, ghosts>>
ReadTxTail ==
  /\ host.at = "tx_tail"
  /\ host' = [host EXCEPT !.at = IF tx_tail = host.head THEN "key" ELSE "tx_buf",
                          !.tail = tx_tail]
  /\ UNCHANGED <<tx, rx, cpu, ghosts>>
Display ==
  /\ host.at = "tx_buf"
  /\ shown' = tx_buf[host.tail]
  /\ HostGoes("tail_read")
  /\ UNCHANGED <<tx, rx, cpu, written, typed, got, seen>>
\* write_dmem(TX_TAIL): the lower half, TX_HEAD, is read and written back.
TailRead ==
  /\ host.at = "tail_read"
  /\ host' = [host EXCEPT !.at = "tail_lo", !.current = tx_head]
  /\ UNCHANGED <<tx, rx, cpu, ghosts>>
TailLo ==
  /\ host.at = "tail_lo" /\ HostGoes("tail_hi")
  /\ tx_head' = host.current /\ CpuDuringWrite
  /\ UNCHANGED <<tx_buf, tx_tail, rx, shown, typed, got, seen>>
\* Mutant: the new tail goes to the other half of the word.
TailHiOther ==
  /\ host.at = "tail_hi" /\ HostGoes("key")
  /\ tx_head' = After(host.tail) /\ CpuDuringWrite
  /\ UNCHANGED <<tx_buf, tx_tail, rx, shown, typed, got, seen>>
TailHi ==
  /\ host.at = "tail_hi" /\ HostGoes("key")
  /\ tx_tail' = After(host.tail) /\ CpuDuringWrite
  /\ UNCHANGED <<tx_buf, tx_head, rx, shown, typed, got, seen>>

NoKey == host.at = "key" /\ HostGoes("tx_head") /\ UNCHANGED <<tx, rx, cpu, ghosts>>
ReadRxHead ==
  /\ host.at = "key" /\ typed < MaxIn
  /\ host' = [host EXCEPT !.at = "rx_tail", !.head = rx_head]
  /\ UNCHANGED <<tx, rx, cpu, ghosts>>
\* Mutant: the key is stored without asking whether the ring is full.
ReadRxTailFull ==
  /\ host.at = "rx_tail" /\ HostGoes("rx_buf")
  /\ UNCHANGED <<tx, rx, cpu, ghosts>>
\* A key that finds the ring full is dropped.
ReadRxTail ==
  /\ host.at = "rx_tail"
  /\ HostGoes(IF After(host.head) = rx_tail THEN "tx_head" ELSE "rx_buf")
  /\ UNCHANGED <<tx, rx, cpu, ghosts>>
\* Mutant: the key goes to the slot after the one the head names.
WriteRxBufNext ==
  /\ host.at = "rx_buf" /\ HostGoes("rx_next")
  /\ rx_buf' = [rx_buf EXCEPT ![After(host.head)] = typed + 1]
  /\ typed' = typed + 1 /\ CpuDuringWrite
  /\ UNCHANGED <<tx, rx_head, rx_tail, shown, got, seen>>
\* write_dmem(RX_BUF): the slot, and its neighbour, which only the host writes.
WriteRxBuf ==
  /\ host.at = "rx_buf" /\ HostGoes("rx_next")
  /\ rx_buf' = [rx_buf EXCEPT ![host.head] = typed + 1]
  /\ typed' = typed + 1 /\ CpuDuringWrite
  /\ UNCHANGED <<tx, rx_head, rx_tail, shown, got, seen>>
WriteNeighbour ==
  /\ host.at = "rx_next" /\ HostGoes("head_read")
  /\ CpuDuringWrite
  /\ UNCHANGED <<tx, rx, shown, typed, got, seen>>
\* write_dmem(RX_HEAD): the upper half, RX_TAIL, is read and written back.
HeadRead ==
  /\ host.at = "head_read"
  /\ host' = [host EXCEPT !.at = "head_lo", !.current = rx_tail]
  /\ UNCHANGED <<tx, rx, cpu, ghosts>>
HeadLo ==
  /\ host.at = "head_lo" /\ HostGoes("head_hi")
  /\ rx_head' = After(host.head) /\ CpuDuringWrite
  /\ UNCHANGED <<tx, rx_buf, rx_tail, shown, typed, got, seen>>
HeadHi ==
  /\ host.at = "head_hi" /\ HostGoes("tx_head")
  /\ rx_tail' = host.current /\ CpuDuringWrite
  /\ UNCHANGED <<tx, rx_buf, rx_head, shown, typed, got, seen>>

Loop ==
  \/ ReadTxHead \/ ReadTxTail \/ Display \/ TailRead \/ TailLo \/ TailHi
  \/ NoKey \/ ReadRxHead \/ ReadRxTail \/ WriteRxBuf \/ WriteNeighbour
  \/ HeadRead \/ HeadLo \/ HeadHi

\* elf_loader stops the program it ran; uart_console clears the indices of the
\* stopped machine and sets RUN.  Nobody resets the CPU in between.
Stop ==
  /\ host.at = "loader" /\ HostGoes("clear")
  /\ cpu_running' = FALSE
  /\ UNCHANGED <<tx, rx, cpu, ghosts>>
Start ==
  /\ host.at = "clear" /\ HostGoes("tx_head")
  /\ tx_head' = 0 /\ tx_tail' = 0 /\ rx_head' = 0 /\ rx_tail' = 0
  /\ cpu_running' = TRUE
  /\ UNCHANGED <<tx_buf, rx_buf, cpu, ghosts>>
HostStep == (Loop /\ UNCHANGED cpu_running) \/ Stop \/ Start

-----------------------------------------------------------------------------
Init ==
  /\ tx_buf = [s \in Slots |-> 0] /\ tx_head = 0 /\ tx_tail = 0
  /\ rx_buf = [s \in Slots |-> 0] /\ rx_head = 0 /\ rx_tail = 0
  /\ cpu = [at |-> "idle", i |-> 0]
  /\ \E start \in Starts :
       /\ host = [at |-> start, head |-> 0, tail |-> 0, current |-> 0]
       /\ cpu_running = (start = "loader")
  /\ written = 0 /\ shown = 0 /\ typed = 0 /\ got = 0 /\ seen = 0

Next == CpuStep \/ HostStep

\* The running CPU executes and the host's loop goes round.
Spec == Init /\ [][Next]_vars /\ WF_vars(CpuStep) /\ WF_vars(HostStep)
-----------------------------------------------------------------------------
(* Properties.                                                             *)

CpuPlaces == {"idle", "put_wait", "put_buf", "put_head",
              "get_wait", "get_poll", "get_buf", "get_tail"}
HostPlaces == {"loader", "clear", "tx_head", "tx_tail", "tx_buf", "tail_read",
               "tail_lo", "tail_hi", "key", "rx_tail", "rx_buf", "rx_next",
               "head_read", "head_lo", "head_hi"}
\* Every index stays within its ring and every slot holds a character that was
\* written, or the zero it starts with.
TypeOK ==
  /\ tx_buf \in [Slots -> 0..MaxOut] /\ tx_head \in Slots /\ tx_tail \in Slots
  /\ rx_buf \in [Slots -> 0..MaxIn] /\ rx_head \in Slots /\ rx_tail \in Slots
  /\ cpu \in [at : CpuPlaces, i : Slots]
  /\ host \in [at : HostPlaces, head : Slots, tail : Slots, current : Slots]
  /\ cpu_running \in BOOLEAN
  /\ written \in 0..MaxOut /\ shown \in 0..MaxOut
  /\ typed \in 0..MaxIn /\ got \in 0..MaxIn /\ seen \in 0..MaxIn

\* Who is about to count a character has room for it: makes TypeOK inductive.
RoomToCount ==
  /\ cpu.at \in {"put_wait", "put_buf"} => written < MaxOut
  /\ host.at \in {"rx_tail", "rx_buf"} => typed < MaxIn

\* However the host's write-back of RX_TAIL and the lost stores interfere, the
\* program may read a key twice but never misses one the ring accepted.
NothingSkipped == [][got' # got => got' <= seen + 1 /\ got' > 0]_vars

\* While output waits to be displayed, a program that waits for room gets it.
RoomIsMade ==
  /\ cpu.at = "put_wait" /\ host.at \notin {"loader", "clear"}
  /\ tx_head # tx_tail
  ~> cpu.at # "put_wait"

\* A program that waits for room in the output ring gets it, however it was started.
PutcharReturns == cpu.at = "put_wait" ~> cpu.at # "put_wait"

\* A program that waits for a key gets the next one the ring accepts.
GetcharReturns == cpu.at = "get_wait" /\ typed > seen ~> cpu.at # "get_wait"

\* A host write of 32 bits changes those 32 bits: write32 leaves the other half of
\* the 64-bit word, TX_HEAD or RX_TAIL, as it finds it.
WriteKeepsNeighbour ==
  [][/\ host.at = "tail_lo" => tx_head' = tx_head \/ UNCHANGED host
     /\ host.at = "head_hi" => rx_tail' = rx_tail \/ UNCHANGED host]_vars
=============================================================================
