----------------------------- MODULE AxiBridge -----------------------------
(***************************************************************************)
(* The path of a host access: the AXI-Lite slave of rtl/axi_core_hw.sv     *)
(* with its read and write channels, the 64 to 32 bit adapter              *)
(* rtl/bus64to32.sv they share, and the two ports of rtl/dmem.sv.  One     *)
(* step is one clock edge.  The master keeps to AXI and to the acceptance  *)
(* capabilities of rtl/axi_core_hw.tcl (one transaction, read or write),   *)
(* and raises rready without waiting for rvalid, which this slave raises   *)
(* only in answer to rready.                                               *)
(***************************************************************************)
EXTENDS Naturals

CONSTANTS Words, NextWord, \* words of the data memory, the one after each
          Word0,           \* the word of address 0
          Value, Zero,     \* contents of a word; what registers reset to
          Requests         \* what the host asks for

Data == [lo : Value, hi : Value]
Request == [op : {"read", "write"}, addr : Words, data : Data, strobed : BOOLEAN]

ASSUME WordsAssumption == Word0 \in Words /\ NextWord \in [Words -> Words]
ASSUME ValueAssumption == Zero \in Value
ASSUME RequestsAssumption == Requests \subseteq Request

VARIABLES
  phase, request, valid,  \* the master: what it does, asks and drives
  reply,                  \* the last data it received
  r_state, r_addr_reg, r_wait_prev,                            \* read channel
  w_state, w_addr_reg, w_data_reg, w_strb_valid, w_wait_prev,  \* write channel
  state, addr_reg, wdata_reg, rdata,                           \* adapter
  dmem, host_rdata        \* data memory and its host read register

master  == <<phase, request, valid, reply>>
reading == <<r_state, r_addr_reg, r_wait_prev>>
writing == <<w_state, w_addr_reg, w_data_reg, w_strb_valid, w_wait_prev>>
adapter == <<state, addr_reg, wdata_reg, rdata>>
vars == <<master, reading, writing, adapter, dmem, host_rdata>>

-----------------------------------------------------------------------------
(* Wires.                                                                  *)

arready == r_state = "R_ADDR"
awready == w_state = "W_ADDR"
bvalid  == w_state = "W_RESP"
\* Unlike bvalid, rvalid waits for the ready of its channel.
rvalid(rready) == r_state = "R_RESP" /\ rready

\* Mutant: done only reaches the read channel.
out_done_read == state = "DONE" /\ r_state = "R_WAIT"
out_done == state = "DONE"
\* Mutant: the read is handed over before its address is captured.
adapter_ren_early == r_state = "R_ADDR"
adapter_ren == r_state = "R_WAIT" /\ ~r_wait_prev
\* Mutant: a write is handed over whatever its strobes.
adapter_wen_any == w_state = "W_WAIT" /\ ~w_wait_prev
adapter_wen == w_state = "W_WAIT" /\ ~w_wait_prev /\ w_strb_valid
adapter_addr == IF w_state = "W_WAIT" THEN w_addr_reg ELSE r_addr_reg

out_wen == state \in {"W_LO", "W_HI"}
host_en == state \notin {"IDLE", "DONE"}
out_addr == IF state \in {"W_LO", "R_LO", "R_LO_CAP"} THEN addr_reg
            ELSE NextWord[addr_reg]
out_wdata == IF state = "W_LO" THEN wdata_reg.lo ELSE wdata_reg.hi

-----------------------------------------------------------------------------
(* The blocks of one clock edge.                                           *)

\* The valid signals a request takes.
Wanted(q) == IF q.op = "read" THEN {"ar"} ELSE {"aw", "w"}

\* Address and data may come one by one and stay up until they are taken.
Master(rready, bready, prompt) ==
  \/ /\ phase = "quiet"
     /\ \/ UNCHANGED <<phase, request, valid>>
        \/ /\ phase' = "request" /\ request' \in Requests
           /\ valid' \in SUBSET Wanted(request')
     /\ UNCHANGED reply
  \/ /\ phase = "request"
     /\ IF arready \/ awready
        THEN phase' = "response" /\ valid' = {}
        ELSE /\ phase' = phase
             /\ valid' \in IF prompt THEN {Wanted(request)}
                           ELSE {v \in SUBSET Wanted(request) : valid \subseteq v}
     /\ UNCHANGED <<request, reply>>
  \/ /\ phase = "response"
     /\ phase' = IF rvalid(rready) \/ (bvalid /\ bready) THEN "quiet" ELSE phase
     /\ reply' = IF rvalid(rready) THEN rdata ELSE reply
     /\ UNCHANGED <<request, valid>>

ReadChannel(rready) ==
  /\ \/ r_state = "R_IDLE" /\ "ar" \in valid /\ r_state' = "R_ADDR"
     \/ r_state = "R_ADDR" /\ r_state' = "R_WAIT"
     \/ r_state = "R_WAIT" /\ out_done /\ r_state' = "R_RESP"
     \/ r_state = "R_RESP" /\ rready /\ r_state' = "R_DONE"
     \/ r_state = "R_DONE" /\ r_state' = "R_IDLE"
     \/ /\ \/ r_state = "R_IDLE" /\ "ar" \notin valid
           \/ r_state = "R_WAIT" /\ ~out_done
           \/ r_state = "R_RESP" /\ ~rready
        /\ UNCHANGED r_state
  /\ r_addr_reg' = IF r_state = "R_ADDR" THEN request.addr ELSE r_addr_reg
  /\ r_wait_prev' = (r_state = "R_WAIT")

WriteChannel(bready) ==
  /\ \/ w_state = "W_IDLE" /\ {"aw", "w"} \subseteq valid /\ w_state' = "W_ADDR"
     \/ w_state = "W_ADDR" /\ w_state' = "W_WAIT"
     \/ w_state = "W_WAIT" /\ out_done /\ w_state' = "W_RESP"
     \/ w_state = "W_RESP" /\ bready /\ w_state' = "W_DONE"
     \/ w_state = "W_DONE" /\ w_state' = "W_IDLE"
     \/ /\ \/ w_state = "W_IDLE" /\ ~({"aw", "w"} \subseteq valid)
           \/ w_state = "W_WAIT" /\ ~out_done
           \/ w_state = "W_RESP" /\ ~bready
        /\ UNCHANGED w_state
  /\ IF w_state = "W_ADDR"
     THEN w_addr_reg' = request.addr /\ w_data_reg' = request.data
     ELSE UNCHANGED <<w_addr_reg, w_data_reg>>
  /\ w_strb_valid' = IF w_state = "W_ADDR" THEN request.strobed
                     ELSE w_strb_valid /\ w_state # "W_DONE"
  /\ w_wait_prev' = (w_state = "W_WAIT")

Adapter ==
  /\ \/ state = "IDLE" /\ adapter_wen /\ state' = "W_LO"
     \/ state = "IDLE" /\ ~adapter_wen /\ adapter_ren /\ state' = "R_LO"
     \/ state = "IDLE" /\ ~adapter_wen /\ ~adapter_ren /\ state' = "IDLE"
     \/ state = "W_LO" /\ state' = "W_HI"
     \/ state = "W_HI" /\ state' = "DONE"
     \/ state = "R_LO" /\ state' = "R_LO_CAP"
     \/ state = "R_LO_CAP" /\ state' = "R_HI"
     \/ state = "R_HI" /\ state' = "R_HI_CAP"
     \/ state = "R_HI_CAP" /\ state' = "DONE"
     \/ state = "DONE" /\ state' = "IDLE"
  /\ IF state = "IDLE" /\ (adapter_wen \/ adapter_ren)
     THEN addr_reg' = adapter_addr /\ wdata_reg' = w_data_reg
     ELSE UNCHANGED <<addr_reg, wdata_reg>>
  /\ rdata' = [lo |-> IF state = "R_LO_CAP" THEN host_rdata ELSE rdata.lo,
               hi |-> IF state = "R_HI_CAP" THEN host_rdata ELSE rdata.hi]

\* A host write takes the memory from a CPU store of the same cycle, which is
\* lost; a read finds the word as it was before the edge.
Dmem ==
  /\ IF host_en /\ out_wen
     THEN dmem' = [dmem EXCEPT ![out_addr] = out_wdata]
     ELSE dmem' \in {dmem} \cup {[dmem EXCEPT ![w] = v] : w \in Words, v \in Value}
  /\ host_rdata' = IF host_en /\ ~out_wen THEN dmem[out_addr] ELSE host_rdata

Zeros == [lo |-> Zero, hi |-> Zero]

Init ==
  /\ phase = "quiet" /\ valid = {} /\ reply = Zeros
  /\ request = [op |-> "read", addr |-> Word0, data |-> Zeros, strobed |-> TRUE]
  /\ r_state = "R_IDLE" /\ r_addr_reg = Word0 /\ r_wait_prev = FALSE
  /\ w_state = "W_IDLE" /\ w_addr_reg = Word0 /\ w_data_reg = Zeros
  /\ w_strb_valid = FALSE /\ w_wait_prev = FALSE
  /\ state = "IDLE" /\ addr_reg = Word0 /\ wdata_reg = Zeros /\ rdata = Zeros
  /\ dmem \in [Words -> Value] /\ host_rdata = Zero

Edge(rready, bready, prompt) ==
  /\ Master(rready, bready, prompt)
  /\ ReadChannel(rready) /\ WriteChannel(bready)
  /\ Adapter /\ Dmem

\* A prompt master is one of the possible ones.
Clock == \E rready, bready \in BOOLEAN : Edge(rready, bready, FALSE)

\* The clock never stops, and the master neither withholds a valid signal nor a
\* ready for ever.
Spec == Init /\ [][Clock]_vars /\ WF_vars(Edge(TRUE, TRUE, TRUE))
-----------------------------------------------------------------------------
(* Properties.                                                             *)

TypeOK ==
  /\ phase \in {"quiet", "request", "response"}
  /\ request \in Request /\ valid \subseteq Wanted(request) /\ reply \in Data
  /\ r_state \in {"R_IDLE", "R_ADDR", "R_WAIT", "R_RESP", "R_DONE"}
  /\ r_addr_reg \in Words /\ r_wait_prev \in BOOLEAN
  /\ w_state \in {"W_IDLE", "W_ADDR", "W_WAIT", "W_RESP", "W_DONE"}
  /\ w_addr_reg \in Words /\ w_data_reg \in Data
  /\ w_strb_valid \in BOOLEAN /\ w_wait_prev \in BOOLEAN
  /\ state \in {"IDLE", "W_LO", "W_HI", "R_LO", "R_LO_CAP", "R_HI", "R_HI_CAP", "DONE"}
  /\ addr_reg \in Words /\ wdata_reg \in Data /\ rdata \in Data
  /\ dmem \in [Words -> Value] /\ host_rdata \in Value

\* A channel that has no access is at rest, and one that has an access is where
\* the master and the adapter take it to be: a request pulse meets an idle adapter
\* and carries the access's own address and data, and done meets its own channel.
Resting(op) == phase = "quiet" \/ request.op # op
ReadInv ==
  /\ Resting("read") => r_state \in {"R_IDLE", "R_DONE"}
  /\ ~Resting("read") /\ phase = "request" =>
       \/ r_state \in {"R_IDLE", "R_DONE"}
       \/ r_state = "R_ADDR" /\ valid = {"ar"}
  /\ ~Resting("read") /\ phase = "response" =>
       \/ r_state = "R_WAIT" /\ state = "IDLE" /\ ~r_wait_prev /\ r_addr_reg = request.addr
       \/ /\ r_state = "R_WAIT" /\ r_wait_prev
          /\ state \in {"R_LO", "R_LO_CAP", "R_HI", "R_HI_CAP", "DONE"}
          /\ addr_reg = request.addr
       \/ r_state = "R_RESP" /\ state = "IDLE"
WriteInv ==
  /\ Resting("write") => w_state \in {"W_IDLE", "W_DONE"}
  /\ ~Resting("write") /\ phase = "request" =>
       \/ w_state \in {"W_IDLE", "W_DONE"}
       \/ w_state = "W_ADDR" /\ valid = {"aw", "w"}
  /\ ~Resting("write") /\ phase = "response" =>
       \/ /\ w_state = "W_WAIT" /\ state = "IDLE"
          /\ w_wait_prev => ~w_strb_valid
          /\ w_addr_reg = request.addr /\ w_data_reg = request.data
          /\ w_strb_valid = request.strobed
       \/ /\ w_state = "W_WAIT" /\ w_wait_prev /\ request.strobed
          /\ state \in {"W_LO", "W_HI", "DONE"}
          /\ addr_reg = request.addr /\ wdata_reg = request.data
       \/ w_state = "W_RESP" /\ state = "IDLE" /\ request.strobed
BridgeInv ==
  /\ TypeOK
  /\ phase # "request" => valid = {}
  /\ phase # "response" => state = "IDLE"
  /\ ReadInv /\ WriteInv

\* How far the access is: a word is read at the edge that leaves R_LO or R_HI,
\* and is in host_rdata until the adapter captures it.
Stage ==
  IF phase = "quiet" THEN "idle"
  ELSE IF state \in {"R_HI_CAP", "DONE"} \/ r_state = "R_RESP" \/ w_state = "W_RESP"
       THEN "answer"
  ELSE IF state \in {"W_HI", "R_LO_CAP", "R_HI"} THEN "hi"
  ELSE "lo"
Got == [lo |-> IF state = "R_LO_CAP" THEN host_rdata ELSE rdata.lo,
        hi |-> IF state = "R_HI_CAP" THEN host_rdata ELSE rdata.hi]

Port == INSTANCE HostPort WITH hmem <- dmem, stage <- Stage, got <- Got

\* The bridge implements the port: every access is carried out exactly once, low
\* word first, between its request and its answer, and a read is answered with
\* the two words the memory held at those moments.
ImplementsPort == Port!Spec

\* Every read, and every write with a strobe set, is answered.
Answered == Port!Answered

\* The edges an access still needs with a prompt master: the channel comes to rest and
\* takes the request, the adapter goes through its states, the answer is taken.
ChannelLeft == [R_DONE |-> 2, R_IDLE |-> 1, R_ADDR |-> 0,
                W_DONE |-> 2, W_IDLE |-> 1, W_ADDR |-> 0]
AdapterLeft == [IDLE |-> 7, R_LO |-> 6, R_LO_CAP |-> 5, R_HI |-> 4, R_HI_CAP |-> 3,
                W_LO |-> 4, W_HI |-> 3, DONE |-> 2]
AnswerLeft ==
  IF phase = "quiet" THEN 0
  ELSE IF phase = "request"
       THEN 8 + ChannelLeft[IF request.op = "read" THEN r_state ELSE w_state]
              + (IF valid = Wanted(request) THEN 0 ELSE 1)
  ELSE IF r_state = "R_RESP" \/ w_state = "W_RESP" THEN 1
  ELSE AdapterLeft[state]

\* An access never goes back, and with a prompt master every edge brings it nearer to
\* its answer, which is there after eleven at the most: neither the other channel's
\* last access nor a CPU store costs it an edge.
AnswerNears ==
  [][phase # "quiet" /\ (request.op = "read" \/ request.strobed)
       => /\ AnswerLeft' <= AnswerLeft
          /\ Edge(TRUE, TRUE, TRUE) => AnswerLeft' < AnswerLeft]_vars
=============================================================================
