--------------------------- MODULE AxiBridge_proofs ---------------------------
(***************************************************************************)
(* The bridge implements the port it promises, for every memory, every     *)
(* set of requests and every behaviour of the master and the CPU.          *)
(***************************************************************************)
EXTENDS AxiBridge, TLAPS

USE WordsAssumption, ValueAssumption, RequestsAssumption

LEMMA InitInv == Init => BridgeInv
<1> SUFFICES ASSUME Init PROVE BridgeInv
  OBVIOUS
<1>1. Zeros \in Data
  BY DEF Zeros, Data
<1>2. request \in Request /\ valid \subseteq Wanted(request)
  BY <1>1 DEF Init, Request
<1>3. TypeOK
  BY <1>1, <1>2 DEF Init, TypeOK
<1>4. ReadInv /\ WriteInv
  BY DEF Init, ReadInv, WriteInv, Resting
<1> QED BY <1>3, <1>4 DEF BridgeInv, Init

LEMMA TypeStep ==
  ASSUME BridgeInv, NEW rready \in BOOLEAN, NEW bready \in BOOLEAN,
         NEW prompt \in BOOLEAN, Edge(rready, bready, prompt)
  PROVE  TypeOK'
<1> USE DEF BridgeInv, TypeOK, Edge
<1>1. phase' \in {"quiet", "request", "response"} /\ request' \in Request
  BY DEF Master
<1>2. valid' \subseteq Wanted(request)'
  BY DEF Master, Wanted
<1>3. rdata' \in Data /\ addr_reg' \in Words /\ wdata_reg' \in Data
  BY DEF Adapter, Data, adapter_addr
<1>4. reply' \in Data
  BY DEF Master
<1>5. /\ r_state' \in {"R_IDLE", "R_ADDR", "R_WAIT", "R_RESP", "R_DONE"}
      /\ r_addr_reg' \in Words /\ r_wait_prev' \in BOOLEAN
  BY DEF ReadChannel, Request
<1>6. /\ w_state' \in {"W_IDLE", "W_ADDR", "W_WAIT", "W_RESP", "W_DONE"}
      /\ w_addr_reg' \in Words /\ w_data_reg' \in Data
      /\ w_strb_valid' \in BOOLEAN /\ w_wait_prev' \in BOOLEAN
  BY DEF WriteChannel, Request
<1>7. state' \in {"IDLE", "W_LO", "W_HI", "R_LO", "R_LO_CAP", "R_HI", "R_HI_CAP", "DONE"}
  BY DEF Adapter
<1>8. dmem' \in [Words -> Value] /\ host_rdata' \in Value
  BY DEF Dmem, out_addr, out_wdata, Data
<1> QED BY <1>1, <1>2, <1>3, <1>4, <1>5, <1>6, <1>7, <1>8

LEMMA InvStep == BridgeInv /\ [Clock]_vars => BridgeInv'
<1>1. ASSUME BridgeInv, UNCHANGED vars PROVE BridgeInv'
  BY <1>1 DEF vars, master, reading, writing, adapter, BridgeInv, TypeOK,
              ReadInv, WriteInv, Resting, Wanted
<1>2. ASSUME BridgeInv, NEW rready \in BOOLEAN, NEW bready \in BOOLEAN,
             NEW prompt \in BOOLEAN, Edge(rready, bready, prompt)
      PROVE  BridgeInv'
  <2> USE <1>2 DEF BridgeInv, Edge
  <2>1. TypeOK'
    BY TypeStep
  <2>2. request.op \in {"read", "write"}
    BY DEF TypeOK, Request
  <2>3. (phase # "request" => valid = {})' /\ (phase # "response" => state = "IDLE")'
    BY <2>2 DEF TypeOK, Master, ReadInv, WriteInv, Resting, Adapter, adapter_ren,
                adapter_wen, arready, awready, rvalid, bvalid, Wanted
  <2>4. ReadInv'
    BY <2>2 DEF TypeOK, Master, ReadInv, WriteInv, Resting, Adapter, adapter_ren,
                adapter_wen, arready, awready, rvalid, bvalid, Wanted, ReadChannel,
                out_done, adapter_addr
  <2>5. WriteInv'
    BY <2>2 DEF TypeOK, Master, ReadInv, WriteInv, Resting, Adapter, adapter_ren,
                adapter_wen, arready, awready, rvalid, bvalid, Wanted, WriteChannel,
                out_done, adapter_addr
  <2> QED BY <2>1, <2>3, <2>4, <2>5
<1> QED BY <1>1, <1>2 DEF Clock

\* The bridge's inductive invariant: every access is where the master, the two
\* channels and the adapter together take it to be.
THEOREM BridgeConsistent == Spec => []BridgeInv
BY InitInv, InvStep, PTL DEF Spec
\* Outside W_LO and W_HI the memory is the CPU's.
LEMMA CpuKeepsPort ==
  ASSUME Dmem, state \notin {"W_LO", "W_HI"}
  PROVE  Port!CpuStores(dmem)
BY DEF Dmem, out_wen, Port!CpuStores

\* A word stays in view from the edge that reads it until the next access.
LEMMA GotStep ==
  ASSUME TypeOK, Dmem, Adapter
  PROVE  Got' = IF state = "R_LO" THEN [lo |-> dmem[addr_reg], hi |-> Got.hi]
                ELSE IF state = "R_HI" THEN [lo |-> Got.lo, hi |-> dmem[NextWord[addr_reg]]]
                ELSE Got
<1> USE DEF TypeOK, Dmem, Adapter, Got, Data, out_wen, host_en, out_addr
<1>1. CASE state \in {"IDLE", "W_LO", "W_HI", "DONE"}
  BY <1>1
<1>2. CASE state \in {"R_LO", "R_LO_CAP"}
  BY <1>2
<1>3. CASE state \in {"R_HI", "R_HI_CAP"}
  BY <1>3
<1> QED BY <1>1, <1>2, <1>3

LEMMA EdgeRefines ==
  ASSUME BridgeInv, BridgeInv', NEW rready \in BOOLEAN, NEW bready \in BOOLEAN,
         NEW prompt \in BOOLEAN, Edge(rready, bready, prompt)
  PROVE  Port!Next
<1> USE DEF Port!Next, Port!Store, Port!Half, Port!Lo, Port!Hi, Port!Issue, Port!Answer
<1>1. /\ TypeOK /\ TypeOK' /\ request.op \in {"read", "write"}
      /\ Dmem /\ Adapter /\ Master(rready, bready, prompt)
      /\ ReadChannel(rready) /\ WriteChannel(bready)
      /\ ReadInv /\ ReadInv' /\ WriteInv /\ WriteInv'
      /\ (phase # "request" => valid = {}) /\ (phase # "response" => state = "IDLE")
      /\ (phase' # "response" => state' = "IDLE")
  BY DEF BridgeInv, TypeOK, Request, Edge
<1>2. CASE phase = "quiet"
  <2>1. Port!CpuStores(dmem) /\ Got' = Got /\ reply' = reply /\ Stage = "idle"
    BY <1>1, <1>2, CpuKeepsPort, GotStep DEF Master, Stage
  <2>2. CASE phase' = "quiet"
    BY <1>1, <1>2, <2>1, <2>2 DEF Master, Stage
  <2>3. CASE phase' # "quiet"
    <3>1. phase' = "request" /\ request' \in Port!Request
      BY <1>1, <1>2, <2>3 DEF Master, Request, Data, Port!Request, Port!Data
    <3>2. Stage' = "lo"
      BY <1>1, <3>1 DEF ReadInv, WriteInv, Resting, Stage
    <3> QED BY <2>1, <3>1, <3>2
  <2> QED BY <2>2, <2>3
<1>3. CASE phase = "request"
  <2>1. Port!CpuStores(dmem) /\ Got' = Got /\ reply' = reply /\ request' = request
    BY <1>1, <1>3, CpuKeepsPort, GotStep DEF Master
  <2>2. Stage = "lo" /\ Stage' = "lo"
    BY <1>1, <1>3 DEF ReadInv, WriteInv, Resting, Stage, Master, ReadChannel,
                      WriteChannel, Adapter, adapter_ren, adapter_wen
  <2> QED BY <2>1, <2>2
<1>4. CASE phase = "response" /\ request.op = "read"
  <2> USE <1>1, <1>4 DEF ReadInv, WriteInv, Resting
  <2>1. /\ Port!CpuStores(dmem) /\ request' = request
        /\ w_state \in {"W_IDLE", "W_DONE"} /\ w_state' # "W_RESP" /\ ~bvalid
    BY CpuKeepsPort DEF Master, WriteChannel, bvalid
  <2>2. CASE r_state = "R_RESP"
    <3>1. Got' = Got /\ Got = rdata /\ state' = "IDLE" /\ Stage = "answer"
      BY <2>2, GotStep DEF Got, TypeOK, Data, Stage, Adapter, adapter_ren, adapter_wen
    <3>2. CASE rready
      BY <2>1, <2>2, <3>1, <3>2 DEF Master, rvalid, Stage
    <3>3. CASE ~rready
      BY <2>1, <2>2, <3>1, <3>3 DEF Master, rvalid, Stage, ReadChannel
    <3> QED BY <3>2, <3>3
  <2>3. CASE r_state = "R_WAIT"
    <3>1. phase' = "response" /\ reply' = reply
      BY <2>1, <2>3 DEF Master, rvalid
    <3>2. CASE state = "R_LO"
      <4>1. Stage = "lo" /\ Stage' = "hi" /\ addr_reg = request.addr
        BY <2>1, <2>3, <3>1, <3>2 DEF Stage, Adapter, ReadChannel, out_done
      <4>2. Got' = [Got EXCEPT !["lo"] = dmem[request.addr]]
        BY <4>1, <3>2, GotStep DEF Got
      <4> QED BY <2>1, <3>1, <4>1, <4>2
    <3>3. CASE state = "R_HI"
      <4>1. Stage = "hi" /\ Stage' = "answer" /\ addr_reg = request.addr
        BY <2>1, <2>3, <3>1, <3>3 DEF Stage, Adapter, ReadChannel, out_done
      <4>2. Got' = [Got EXCEPT !["hi"] = dmem[NextWord[request.addr]]]
        BY <4>1, <3>3, GotStep DEF Got
      <4> QED BY <2>1, <3>1, <4>1, <4>2
    <3>4. CASE state \notin {"R_LO", "R_HI"}
      <4>1. Got' = Got
        BY <3>4, GotStep
      <4>2. Stage' = Stage
        BY <2>1, <2>3, <3>1, <3>4 DEF Stage, Adapter, ReadChannel, out_done,
                                      adapter_ren, adapter_wen
      <4> QED BY <2>1, <3>1, <4>1, <4>2
    <3> QED BY <3>2, <3>3, <3>4
  <2> QED BY <2>2, <2>3
<1>5. CASE phase = "response" /\ request.op = "write"
  <2> USE <1>1, <1>5 DEF ReadInv, WriteInv, Resting
  <2>1. /\ request' = request /\ reply' = reply /\ Got' = Got
        /\ r_state \in {"R_IDLE", "R_DONE"} /\ r_state' # "R_RESP"
    BY GotStep DEF Master, ReadChannel, rvalid
  <2>2. CASE w_state = "W_RESP"
    <3>1. state' = "IDLE" /\ Stage = "answer" /\ Port!CpuStores(dmem)
      BY <2>1, <2>2, CpuKeepsPort DEF Stage, Adapter, adapter_ren, adapter_wen
    <3>2. CASE bready
      BY <2>1, <2>2, <3>1, <3>2 DEF Master, bvalid, Stage
    <3>3. CASE ~bready
      BY <2>1, <2>2, <3>1, <3>3 DEF Master, bvalid, rvalid, Stage, WriteChannel
    <3> QED BY <3>2, <3>3
  <2>3. CASE w_state = "W_WAIT"
    <3>1. phase' = "response"
      BY <2>1, <2>3 DEF Master, rvalid, bvalid
    <3>2. CASE state \in {"W_LO", "W_HI"}
      <4>1. /\ request.strobed /\ addr_reg = request.addr /\ wdata_reg = request.data
            /\ dmem' = [dmem EXCEPT ![out_addr] = out_wdata]
        BY <2>3, <3>2 DEF Dmem, host_en, out_wen
      <4>2. CASE state = "W_LO"
        BY <2>1, <2>3, <3>1, <4>1, <4>2 DEF Stage, Adapter, out_addr, out_wdata,
              TypeOK, Request, Data, out_done, WriteChannel
      <4>3. CASE state = "W_HI"
        BY <2>1, <2>3, <3>1, <4>1, <4>3 DEF Stage, Adapter, out_addr, out_wdata,
              TypeOK, Request, Data, out_done, WriteChannel
      <4> QED BY <3>2, <4>2, <4>3
    <3>3. CASE state \notin {"W_LO", "W_HI"}
      <4>1. Port!CpuStores(dmem)
        BY <3>3, CpuKeepsPort
      <4>2. Stage' = Stage
        BY <2>1, <2>3, <3>1, <3>3 DEF Stage, Adapter, WriteChannel, out_done,
                                      adapter_ren, adapter_wen
      <4> QED BY <2>1, <3>1, <4>1, <4>2
    <3> QED BY <3>2, <3>3
  <2> QED BY <2>2, <2>3
<1> QED BY <1>1, <1>2, <1>3, <1>4, <1>5 DEF TypeOK

\* The bridge implements the port: every access is carried out exactly once, low
\* word first, between its request and its answer, and a read is answered with
\* the two words the memory held at those moments.
THEOREM BridgeImplementsPort == Spec => ImplementsPort
<1>1. Init => Port!Init
  <2> SUFFICES ASSUME Init PROVE Port!Init
    OBVIOUS
  <2>1. Zeros \in Data /\ request \in Port!Request
    BY DEF Init, Zeros, Data, Port!Request, Port!Data
  <2>2. Got = Zeros
    BY DEF Init, Got, Zeros
  <2> QED BY <2>1, <2>2 DEF Init, Port!Init, Stage, Data, Port!Data
<1>2. BridgeInv /\ BridgeInv' /\ [Clock]_vars => [Port!Next]_(Port!hvars)
  <2>1. ASSUME UNCHANGED vars PROVE UNCHANGED Port!hvars
    BY <2>1 DEF vars, master, reading, writing, adapter, Port!hvars, Stage, Got
  <2>2. ASSUME BridgeInv, BridgeInv', Clock PROVE Port!Next
    BY <2>2, EdgeRefines DEF Clock
  <2> QED BY <2>1, <2>2
<1> QED BY <1>1, <1>2, BridgeConsistent, PTL DEF Spec, ImplementsPort, Port!Spec

\* An edge takes an access on: every edge from the moment the channel has it, and every
\* edge a prompt master has a hand in.
LEMMA EdgeNears ==
  ASSUME BridgeInv, BridgeInv', NEW rready \in BOOLEAN, NEW bready \in BOOLEAN,
         NEW prompt \in BOOLEAN, Edge(rready, bready, prompt),
         phase # "quiet", request.op = "read" \/ request.strobed
  PROVE  /\ AnswerLeft' <= AnswerLeft
         /\ rready /\ bready /\ prompt => AnswerLeft' < AnswerLeft
<1>1. /\ TypeOK /\ TypeOK' /\ request.op \in {"read", "write"}
      /\ Adapter /\ Master(rready, bready, prompt)
      /\ ReadChannel(rready) /\ WriteChannel(bready)
      /\ ReadInv /\ ReadInv' /\ WriteInv /\ WriteInv'
      /\ (phase # "request" => valid = {}) /\ (phase # "response" => state = "IDLE")
      /\ (phase' # "response" => state' = "IDLE")
  BY DEF BridgeInv, TypeOK, Request, Edge
<1>2. phase' # "quiet" => request' = request
  BY <1>1 DEF Master
<1>3. CASE phase = "request"
  <2>1. request' = request /\ phase' \in {"request", "response"}
    BY <1>1, <1>3 DEF Master
  <2>2. CASE phase' = "request"
    <3>1. /\ ~arready /\ ~awready
          /\ valid = Wanted(request) => valid' = Wanted(request)
          /\ prompt => valid' = Wanted(request)
      BY <1>1, <1>3, <2>2 DEF Master, TypeOK
    <3>2. CASE request.op = "read"
      <4>1. Wanted(request) = {"ar"} /\ ("ar" \in valid <=> valid = Wanted(request))
        BY <1>1, <3>2 DEF Wanted, TypeOK
      <4>2. \/ r_state = "R_DONE" /\ r_state' = "R_IDLE"
            \/ /\ r_state = "R_IDLE" /\ valid = Wanted(request)
               /\ r_state' = "R_ADDR"
            \/ r_state = "R_IDLE" /\ valid # Wanted(request) /\ r_state' = "R_IDLE"
        BY <1>1, <1>3, <3>1, <3>2, <4>1 DEF ReadInv, Resting, ReadChannel, arready
      <4>. QED
        BY <1>3, <2>1, <2>2, <3>1, <3>2, <4>2 DEF AnswerLeft, ChannelLeft
    <3>3. CASE request.op = "write"
      <4>1. /\ Wanted(request) = {"aw", "w"}
            /\ {"aw", "w"} \subseteq valid <=> valid = Wanted(request)
        BY <1>1, <3>3 DEF Wanted, TypeOK
      <4>2. \/ w_state = "W_DONE" /\ w_state' = "W_IDLE"
            \/ /\ w_state = "W_IDLE" /\ valid = Wanted(request)
               /\ w_state' = "W_ADDR"
            \/ w_state = "W_IDLE" /\ valid # Wanted(request) /\ w_state' = "W_IDLE"
        BY <1>1, <1>3, <3>1, <3>3, <4>1 DEF WriteInv, Resting, WriteChannel, awready
      <4>. QED
        BY <1>3, <2>1, <2>2, <3>1, <3>3, <4>2 DEF AnswerLeft, ChannelLeft
    <3>. QED BY <1>1, <3>2, <3>3
  <2>3. CASE phase' = "response"
    <3>1. arready \/ awready
      BY <1>1, <1>3, <2>3 DEF Master
    <3>2. /\ request.op = "read" => r_state = "R_ADDR" /\ valid = {"ar"}
          /\ request.op = "write" => w_state = "W_ADDR" /\ valid = {"aw", "w"}
      BY <1>1, <1>3, <3>1 DEF ReadInv, WriteInv, Resting, arready, awready
    <3>3. AnswerLeft = 8
      BY <1>1, <1>3, <3>2 DEF AnswerLeft, ChannelLeft, Wanted
    <3>4. state' = "IDLE" /\ r_state' # "R_RESP" /\ w_state' # "W_RESP"
      BY <1>1, <1>3, <3>2 DEF ReadInv, WriteInv, Resting, ReadChannel, WriteChannel,
                              Adapter, adapter_ren, adapter_wen
    <3>5. AnswerLeft' = 7
      BY <2>3, <3>4 DEF AnswerLeft, AdapterLeft
    <3>. QED BY <3>3, <3>5
  <2>. QED BY <2>1, <2>2, <2>3
<1>4. CASE phase = "response" /\ request.op = "read"
  <2>. USE DEF ReadInv, WriteInv, Resting
  <2>1. w_state \in {"W_IDLE", "W_DONE"} /\ w_state' \notin {"W_WAIT", "W_RESP"} /\ ~bvalid
    BY <1>1, <1>4 DEF WriteChannel, bvalid
  <2>2. CASE r_state = "R_RESP"
    <3>1. AnswerLeft = 1
      BY <1>4, <2>2 DEF AnswerLeft
    <3>2. CASE rready
      BY <1>1, <1>4, <2>2, <3>1, <3>2 DEF Master, rvalid, AnswerLeft
    <3>3. CASE ~rready
      BY <1>1, <1>4, <2>1, <2>2, <3>1, <3>3 DEF Master, rvalid, ReadChannel, AnswerLeft
    <3>. QED BY <3>2, <3>3
  <2>3. CASE r_state = "R_WAIT"
    <3>1. phase' = "response" /\ AnswerLeft = AdapterLeft[state]
      BY <1>1, <1>4, <2>1, <2>3 DEF Master, rvalid, AnswerLeft
    <3>2. CASE state = "DONE"
      BY <1>1, <1>4, <2>3, <3>1, <3>2 DEF ReadChannel, out_done, AnswerLeft, AdapterLeft
    <3>3. CASE state # "DONE"
      <4>1. AnswerLeft' = AdapterLeft[state']
        BY <1>1, <2>1, <2>3, <3>1, <3>3 DEF ReadChannel, out_done, AnswerLeft
      <4>2. \/ state = "IDLE" /\ state' = "R_LO"
            \/ state = "R_LO" /\ state' = "R_LO_CAP"
            \/ state = "R_LO_CAP" /\ state' = "R_HI"
            \/ state = "R_HI" /\ state' = "R_HI_CAP"
            \/ state = "R_HI_CAP" /\ state' = "DONE"
        BY <1>1, <1>4, <2>1, <2>3, <3>3 DEF Adapter, adapter_ren, adapter_wen
      <4>. QED BY <3>1, <4>1, <4>2 DEF AdapterLeft
    <3>. QED BY <3>2, <3>3
  <2>. QED BY <1>1, <1>4, <2>2, <2>3
<1>5. CASE phase = "response" /\ request.op = "write"
  <2>. USE DEF ReadInv, WriteInv, Resting
  <2>1. /\ r_state \in {"R_IDLE", "R_DONE"} /\ r_state' \notin {"R_WAIT", "R_RESP"}
        /\ ~rvalid(rready) /\ request.strobed
    BY <1>1, <1>5 DEF ReadChannel, rvalid
  <2>2. CASE w_state = "W_RESP"
    <3>1. AnswerLeft = 1
      BY <1>5, <2>2 DEF AnswerLeft
    <3>2. CASE bready
      BY <1>1, <1>5, <2>2, <3>1, <3>2 DEF Master, bvalid, AnswerLeft
    <3>3. CASE ~bready
      BY <1>1, <1>5, <2>1, <2>2, <3>1, <3>3 DEF Master, bvalid, WriteChannel, AnswerLeft
    <3>. QED BY <3>2, <3>3
  <2>3. CASE w_state = "W_WAIT"
    <3>1. phase' = "response" /\ AnswerLeft = AdapterLeft[state]
      BY <1>1, <1>5, <2>1, <2>3 DEF Master, bvalid, AnswerLeft
    <3>2. CASE state = "DONE"
      BY <1>1, <1>5, <2>3, <3>1, <3>2 DEF WriteChannel, out_done, AnswerLeft, AdapterLeft
    <3>3. CASE state # "DONE"
      <4>1. AnswerLeft' = AdapterLeft[state']
        BY <1>1, <2>1, <2>3, <3>1, <3>3 DEF WriteChannel, out_done, AnswerLeft
      <4>2. \/ state = "IDLE" /\ state' = "W_LO"
            \/ state = "W_LO" /\ state' = "W_HI"
            \/ state = "W_HI" /\ state' = "DONE"
        BY <1>1, <1>5, <2>1, <2>3, <3>3 DEF Adapter, adapter_ren, adapter_wen
      <4>. QED BY <3>1, <4>1, <4>2 DEF AdapterLeft
    <3>. QED BY <3>2, <3>3
  <2>. QED BY <1>1, <1>5, <2>2, <2>3
<1>. QED BY <1>1, <1>3, <1>4, <1>5 DEF TypeOK

\* Every read, and every write with a strobe set, is nearer to its answer after every
\* edge at which the master is prompt, and never further from it: it is answered after
\* at most eleven of them.
THEOREM AccessesNearTheirAnswer == Spec => AnswerNears
<1>1. ASSUME BridgeInv, BridgeInv', Clock, phase # "quiet",
             request.op = "read" \/ request.strobed
      PROVE  AnswerLeft' <= AnswerLeft
  BY <1>1, EdgeNears DEF Clock
<1>2. ASSUME BridgeInv, BridgeInv', Edge(TRUE, TRUE, TRUE), phase # "quiet",
             request.op = "read" \/ request.strobed
      PROVE  AnswerLeft' < AnswerLeft
  BY <1>2, EdgeNears
<1>3. BridgeInv /\ BridgeInv' /\ [Clock]_vars
        => [phase # "quiet" /\ (request.op = "read" \/ request.strobed)
              => /\ AnswerLeft' <= AnswerLeft
                 /\ Edge(TRUE, TRUE, TRUE) => AnswerLeft' < AnswerLeft]_vars
  BY <1>1, <1>2
<1>. QED BY <1>3, BridgeConsistent, PTL DEF Spec, AnswerNears
=============================================================================
