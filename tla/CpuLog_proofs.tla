---------------------------- MODULE CpuLog_proofs ----------------------------
(***************************************************************************)
(* What cpulog_dump prints is what happened, for a log of any size: the    *)
(* ring holds the history of the accesses, and a dump of a stopped core    *)
(* finds it at rest.                                                       *)
(***************************************************************************)
EXTENDS CpuLog, TLAPS

\* The history is as long as the count says.
LongEnough == Len(events) >= IF total < Depth + 1 THEN total ELSE Depth + 1

\* A clear is over before the host acts again, and so is the entry that was on
\* its way when the host stopped the core.
Settled ==
  /\ cpulog_clear_req => doing = "clear" /\ gap = 0
  /\ cpulog_clear => doing = "clear" /\ gap = 1
  /\ ~run /\ gap # 0 => ~write_pending
  /\ doing \in {"type", "data"} => ~run /\ ~write_pending

\* Between the two reads of an entry its type is the one of that age.
HalfRead ==
  /\ doing = "data" => left > 0
  /\ doing = "data" /\ ~Shadowed(idx) => got.type = events[idx + 1].type

IInv == TypeOK /\ RingHoldsHistory /\ LongEnough /\ Settled /\ DumpIsNewest /\ HalfRead

\* Remainders of what is already in range.
LEMMA Remainder ==
  ASSUME NEW x \in Int
  PROVE /\ x % Wrap \in 0..(Wrap - 1)
        /\ x \in 0..(Wrap - 1) => x % Wrap = x
  BY SizeAssumption, SMT

\* Every cycle makes at most one entry, and none once the core has stopped.
LEMMA SeenType ==
  ASSUME TypeOK, NEW fetch \in BOOLEAN
  PROVE /\ Seen(fetch) = {} \/ \E e \in Entry : Seen(fetch) = {e}
        /\ ~run => Seen(fetch) = {}
<1>1. in_mem.word \in Data
  BY DataAssumption DEF TypeOK, Bubble
<1>2. Blank \in Data /\ cpu_rdata \in Data
  BY DataAssumption DEF TypeOK
<1> QED BY <1>1, <1>2, Zenon DEF Seen, Entry, cpu_running

LEMMA NewestKeeps ==
  ASSUME NEW t \in Seq(Entry), Len(t) > 0
  PROVE /\ Newest(t) \in Seq(Entry)
        /\ Len(Newest(t)) = IF Len(t) <= Depth THEN Len(t) ELSE Depth + 1
        /\ \A k \in 1..Len(Newest(t)) : Newest(t)[k] = t[k]
<1> DEFINE n == IF Len(t) <= Depth THEN Len(t) ELSE Depth + 1
<1>1. n \in Nat /\ n > 0 /\ n <= Len(t) /\ Len(t) \in Nat
  BY SizeAssumption
<1>2. Newest(t) = SubSeq(t, 1, n)
  BY DEF Newest
<1> HIDE DEF n
<1>3. /\ SubSeq(t, 1, n) \in Seq(Entry) /\ Len(SubSeq(t, 1, n)) = n
      /\ \A k \in 1..n : SubSeq(t, 1, n)[k] = t[k]
  BY <1>1
<1> QED BY <1>2, <1>3 DEF n

\* A new event comes first, the others keep their order, the oldest may go.
LEMMA NewestIs ==
  ASSUME TypeOK, NEW e \in Entry, NEW s, s = Newest(<<e>> \o events)
  PROVE /\ s \in Seq(Entry) /\ Len(s) > 0 /\ s[1] = e
        /\ Len(s) = IF Len(events) <= Depth THEN Len(events) + 1 ELSE Depth + 1
        /\ \A k \in 1..(Len(s) - 1) : s[k + 1] = events[k]
<1> DEFINE t == <<e>> \o events
<1>1. events \in Seq(Entry) /\ Len(events) \in Nat /\ Len(events) <= Depth + 1 /\ Depth \in Nat
  BY SizeAssumption DEF TypeOK
<1>2. /\ t \in Seq(Entry) /\ Len(t) = Len(events) + 1 /\ t[1] = e
      /\ \A k \in 1..Len(events) : t[k + 1] = events[k]
  BY <1>1
<1>a. s = Newest(t)
  OBVIOUS
<1> HIDE DEF t
<1>b. Len(t) > 0
  BY <1>1, <1>2
<1>3. /\ s \in Seq(Entry) /\ Len(s) = IF Len(t) <= Depth THEN Len(t) ELSE Depth + 1
      /\ \A k \in 1..Len(s) : s[k] = t[k]
  <2>1. /\ Newest(t) \in Seq(Entry)
        /\ Len(Newest(t)) = IF Len(t) <= Depth THEN Len(t) ELSE Depth + 1
        /\ \A k \in 1..Len(Newest(t)) : Newest(t)[k] = t[k]
    BY <1>2, <1>b, NewestKeeps
  <2> QED BY <1>a, <2>1, Zenon
<1>4. Len(s) = IF Len(events) <= Depth THEN Len(events) + 1 ELSE Depth + 1
  BY <1>1, <1>2, <1>3
<1>5. Len(s) \in Nat /\ Len(s) > 0 /\ Len(s) <= Len(t)
  BY <1>1, <1>2, <1>3
<1>6. s[1] = e
  BY <1>2, <1>3, <1>5
<1>7. ASSUME NEW k \in 1..(Len(s) - 1) PROVE s[k + 1] = events[k]
  <2>1. k + 1 \in 1..Len(s) /\ k \in 1..Len(events)
    BY <1>1, <1>2, <1>5
  <2> QED BY <1>2, <1>3, <2>1
<1> QED BY <1>3, <1>4, <1>5, <1>6, <1>7

-----------------------------------------------------------------------------
(* The log and its history in one step.                                    *)

LEMMA LoggerStep ==
  ASSUME TypeOK, RingHoldsHistory, LongEnough, NEW fetch \in BOOLEAN, Edge(fetch)
  PROVE /\ log_mem' \in [0..(Depth - 1) -> Entry] /\ log_wr_ptr' \in 0..(Depth - 1)
        /\ trans_count' \in 0..(Wrap - 1) /\ entry_reg' \in Entry /\ write_pending' \in BOOLEAN
        /\ events' \in Seq(Entry) /\ Len(events') <= Depth + 1 /\ total' \in 0..(Wrap - 1)
        /\ RingHoldsHistory' /\ LongEnough'
<1> USE DEF TypeOK, RingHoldsHistory, LongEnough, Late
<1>1. Depth \in Nat /\ Depth > 0 /\ Wrap \in Nat /\ Wrap > 0
  BY SizeAssumption
<1>2. CASE cpulog_clear
  <2>1. /\ log_wr_ptr' = 0 /\ trans_count' = 0 /\ write_pending' = FALSE
        /\ log_mem' = log_mem /\ entry_reg' = entry_reg /\ events' = <<>> /\ total' = 0
    BY <1>2 DEF Edge, Logger, Clear, History
  <2>2. Len(events') = 0 /\ events' \in Seq(Entry)
    BY <2>1
  <2>3. 0 % Wrap = 0
    BY <1>1, Remainder
  <2>4. RingHoldsHistory'
    BY <1>1, <2>1, <2>2, <2>3
  <2>5. LongEnough'
    BY <1>1, <2>1, <2>2
  <2>6. Len(events') <= Depth + 1 /\ 0 \in 0..(Depth - 1) /\ 0 \in 0..(Wrap - 1)
    BY <1>1, <2>2
  <2> HIDE DEF RingHoldsHistory, LongEnough
  <2> QED BY <2>1, <2>2, <2>4, <2>5, <2>6
<1>3. CASE ~cpulog_clear
  <2>1. Record(Seen(fetch)) /\ History(Seen(fetch))
    BY <1>3 DEF Edge, Logger
  <2>2. /\ write_pending => /\ log_mem' = [log_mem EXCEPT ![log_wr_ptr] = entry_reg]
                            /\ log_wr_ptr' = IF log_wr_ptr = Depth - 1 THEN 0 ELSE log_wr_ptr + 1
                            /\ trans_count' = (trans_count + 1) % Wrap
        /\ ~write_pending => UNCHANGED <<log_mem, log_wr_ptr, trans_count>>
    BY <2>1 DEF Record
  <2>3. /\ log_mem' \in [0..(Depth - 1) -> Entry] /\ log_wr_ptr' \in 0..(Depth - 1)
        /\ trans_count' \in 0..(Wrap - 1)
    BY <1>1, <2>2, Remainder
  \* Once the entry under way is written, the ring holds the events as they were.
  <2>4. \A k \in 0..(Depth - 1) : k < Len(events) => log_mem'[Age(k)'] = events[k + 1]
    <3>1. CASE ~write_pending
      BY <1>1, <2>2, <3>1 DEF Age
    <3>2. CASE write_pending
      <4> SUFFICES ASSUME NEW k \in 0..(Depth - 1), k < Len(events)
                   PROVE  log_mem'[Age(k)'] = events[k + 1]
        OBVIOUS
      <4>1. CASE k = 0
        <5>1. Age(k)' = log_wr_ptr
          BY <1>1, <2>2, <3>2, <4>1 DEF Age
        <5> QED BY <1>1, <2>2, <3>2, <4>1, <5>1
      <4>2. CASE k # 0
        <5>1. k - 1 \in 0..(Depth - 1) /\ (k - 1) + 1 < Len(events)
          BY <1>1, <4>2
        <5>2. Age(k)' = Age(k - 1) /\ Age(k - 1) # log_wr_ptr /\ Age(k - 1) \in 0..(Depth - 1)
          BY <1>1, <2>2, <3>2, <4>2 DEF Age
        <5>3. log_mem[Age(k - 1)] = events[(k - 1) + 1 + 1]
          BY <3>2, <5>1
        <5>4. log_mem'[Age(k - 1)] = log_mem[Age(k - 1)]
          BY <2>2, <3>2, <5>2
        <5> QED BY <5>2, <5>3, <5>4
      <4> QED BY <4>1, <4>2
    <3> QED BY <3>1, <3>2
  <2>5. total = trans_count' /\ total \in 0..(Wrap - 1)
    <3>1. CASE write_pending
      BY <2>2, <3>1
    <3>2. CASE ~write_pending
      <4>1. trans_count + 0 = trans_count /\ trans_count \in Int
        BY <1>1
      <4>2. total = trans_count % Wrap
        BY <3>2, <4>1
      <4> QED BY <2>2, <3>2, <4>1, <4>2, Remainder
    <3> QED BY <3>1, <3>2
  <2>6. CASE Seen(fetch) = {}
    <3>1. /\ write_pending' = FALSE /\ entry_reg' = entry_reg
          /\ events' = events /\ total' = total
      BY <1>3, <2>1, <2>6 DEF Record, History
    <3>2. total' = trans_count' % Wrap
      BY <2>3, <2>5, <3>1, Remainder
    <3>3. Len(events) \in Nat
      OBVIOUS
    <3>4. RingHoldsHistory'
      <4>1. Late' = 0
        BY <3>1
      <4>2. \A k \in 0..(Depth - 1) :
              k + Late' < Len(events') => log_mem'[Age(k)'] = events'[k + 1 + Late']
        <5> SUFFICES ASSUME NEW k \in 0..(Depth - 1), k + Late' < Len(events')
                     PROVE  log_mem'[Age(k)'] = events'[k + 1 + Late']
          OBVIOUS
        <5>1. k + Late' = k /\ k + 1 + Late' = k + 1
          BY <1>1, <4>1
        <5> HIDE DEF Late
        <5> QED BY <2>4, <3>1, <5>1
      <4>3. total' = (trans_count' + Late') % Wrap
        BY <2>3, <3>2, <4>1
      <4> QED BY <3>1, <4>2, <4>3
    <3>5. LongEnough'
      BY <3>1
    <3> QED BY <2>3, <3>1, <3>4, <3>5
  <2>7. ASSUME NEW e \in Entry, Seen(fetch) = {e} PROVE
        /\ entry_reg' \in Entry /\ write_pending' \in BOOLEAN
        /\ events' \in Seq(Entry) /\ Len(events') <= Depth + 1 /\ total' \in 0..(Wrap - 1)
        /\ RingHoldsHistory' /\ LongEnough'
    <3>1. /\ write_pending' = TRUE /\ entry_reg' = e /\ total' = (total + 1) % Wrap
          /\ events' = Newest(<<e>> \o events)
      BY <1>3, <2>1, <2>7 DEF Record, History
    <3>2. /\ events' \in Seq(Entry) /\ Len(events') > 0 /\ events'[1] = e
          /\ Len(events') = IF Len(events) <= Depth THEN Len(events) + 1 ELSE Depth + 1
          /\ \A k \in 1..(Len(events') - 1) : events'[k + 1] = events[k]
      BY <3>1, NewestIs
    <3>3. Len(events) \in Nat /\ Len(events') \in Nat
      BY <3>2
    <3>4. total' \in 0..(Wrap - 1) /\ total' <= total + 1
      <4>1. total + 1 \in Int /\ (total + 1 \in 0..(Wrap - 1) \/ total + 1 = Wrap)
        BY <1>1, <2>5
      <4>2. Wrap % Wrap = 0
        BY <1>1
      <4> QED BY <1>1, <3>1, <4>1, <4>2, Remainder
    <3>5. ASSUME NEW k \in 0..(Depth - 1), k + 1 < Len(events')
          PROVE  log_mem'[Age(k)'] = events'[k + 1 + 1]
      <4>1. k < Len(events) /\ k + 1 \in 1..(Len(events') - 1)
        BY <1>1, <3>2, <3>3, <3>5
      <4> QED BY <2>4, <3>2, <4>1
    <3>6. RingHoldsHistory'
      <4>1. Late' = 1
        BY <3>1
      <4>2. \A k \in 0..(Depth - 1) :
              k + Late' < Len(events') => log_mem'[Age(k)'] = events'[k + 1 + Late']
        BY <3>5, <4>1
      <4> QED BY <2>5, <3>1, <3>2, <4>1, <4>2
    <3>7. LongEnough'
      BY <1>1, <2>5, <3>2, <3>3, <3>4
    <3>8. Len(events') <= Depth + 1
      BY <1>1, <3>2, <3>3
    <3> HIDE DEF RingHoldsHistory, LongEnough
    <3> QED BY <3>1, <3>2, <3>4, <3>6, <3>7, <3>8
  <2> QED BY <2>3, <2>6, <2>7, SeenType
<1> QED BY <1>2, <1>3

-----------------------------------------------------------------------------
(* The MEM stage, and the host.                                            *)

LEMMA ClockIs ==
  ASSUME Clock
  PROVE /\ \E fetch \in BOOLEAN : Edge(fetch)
        /\ Host \/ Reset
        /\ (\E next \in Access : Advance(next)) \/ Hold \/ Flush
BY DEF Clock

LEMMA MemType ==
  ASSUME TypeOK, Clock
  PROVE /\ in_mem' \in Access \cup {Bubble} /\ mem_load_wait' \in 0..3
        /\ cpu_addr_reg' \in Data /\ cpu_rdata' \in Data
<1>1. in_mem.word \in Data
  BY DataAssumption DEF TypeOK, Bubble
<1>2. cpu_addr_reg' \in Data /\ cpu_rdata' \in Data
  BY <1>1, ClockIs DEF TypeOK, Edge, Dmem
<1>3. CASE \E next \in Access : Advance(next)
  BY <1>2, <1>3 DEF Advance, LoadWait
<1>4. CASE Hold
  BY <1>2, <1>4 DEF Hold, Waiting, TypeOK
<1>5. CASE Flush
  BY <1>2, <1>5 DEF Flush
<1> QED BY <1>3, <1>4, <1>5, ClockIs

\* A dump reads entries the log has, one after another.
LEMMA Asked ==
  ASSUME TypeOK, DumpIsNewest, LongEnough, doing \in {"type", "data"}
  PROVE /\ idx + left <= MaxDump /\ idx + left <= total
        /\ left > 0 => idx < Len(events) /\ idx \in 0..(Depth - 1)
BY SizeAssumption, DumpAssumption DEF TypeOK, DumpIsNewest, LongEnough

LEMMA ShownType ==
  ASSUME TypeOK, idx \in 0..(Depth - 1)
  PROVE /\ Shown(idx).type \in {"IFETCH", "DLOAD", "DSTORE", "control"}
        /\ Shown(idx).data \in Data \cup Nat
<1>1. CASE Shadowed(idx)
  BY <1>1 DEF Shown, TypeOK
<1>2. CASE ~Shadowed(idx)
  <2>1. Age(idx) \in 0..(Depth - 1)
    BY SizeAssumption DEF Age, TypeOK
  <2>2. log_mem[Age(idx)] \in Entry
    BY <2>1 DEF TypeOK
  <2> QED BY <1>2, <2>2 DEF Shown, Entry
<1> QED BY <1>1, <1>2

LEMMA HostControlType ==
  ASSUME TypeOK, Clock
  PROVE /\ run' \in BOOLEAN /\ halted' \in BOOLEAN
        /\ cpulog_enable' \in BOOLEAN /\ cpulog_log_imem' \in BOOLEAN
        /\ cpulog_clear_req' \in BOOLEAN /\ cpulog_clear' \in BOOLEAN
<1>1. halted' \in BOOLEAN
  BY ClockIs DEF Host, Ebreak, Reset, TypeOK
<1>2. run' \in BOOLEAN
  BY ClockIs DEF Host, Reset, TypeOK, Waits, RunStop, ClearLog, EnableLog,
                 ReadCount, ReadType, ReadData, DumpEnds
<1>3. NoControl \/ \E clear, imem \in BOOLEAN : Control(TRUE, clear, imem)
  BY ClockIs, Zenon DEF Host, Reset, Waits, RunStop, ClearLog, EnableLog,
                        ReadCount, ReadType, ReadData, DumpEnds
<1>4. /\ cpulog_enable' \in BOOLEAN /\ cpulog_log_imem' \in BOOLEAN
      /\ cpulog_clear_req' \in BOOLEAN /\ cpulog_clear' \in BOOLEAN
  BY <1>3, Zenon DEF NoControl, Control, TypeOK
<1> QED BY <1>1, <1>2, <1>4

LEMMA HostPlaceType ==
  ASSUME TypeOK, DumpIsNewest, LongEnough, HalfRead, Clock
  PROVE /\ doing' \in {"idle", "clear", "type", "data"}
        /\ idx' \in 0..MaxDump /\ left' \in 0..MaxDump /\ gap' \in 0..HostGap
<1> USE DEF Ready, HostGap
<1>0. /\ MaxDump \in Nat
      /\ doing \in {"idle", "clear", "type", "data"}
      /\ idx \in 0..MaxDump /\ left \in 0..MaxDump /\ gap \in 0..2
      /\ trans_count \in Nat
  BY SizeAssumption, DumpAssumption DEF TypeOK
<1>1. CASE Waits
  BY <1>0, <1>1 DEF Waits
<1>2. CASE RunStop \/ Reset
  BY <1>0, <1>2 DEF RunStop, Reset
<1>3. CASE ClearLog \/ EnableLog
  <2>1. doing' \in {"idle", "clear"} /\ gap' = 0 /\ idx' = idx /\ left' = left
    BY <1>3, Zenon DEF ClearLog, EnableLog
  <2> QED BY <1>0, <2>1
<1>4. CASE ReadCount
  BY <1>0, <1>4 DEF ReadCount
<1>5. CASE ReadType
  BY <1>0, <1>5 DEF ReadType
<1>6. CASE ReadData
  BY <1>0, <1>6, Asked DEF ReadData, HalfRead
<1>7. CASE DumpEnds
  BY <1>0, <1>7 DEF DumpEnds
<1> QED BY <1>1, <1>2, <1>3, <1>4, <1>5, <1>6, <1>7, ClockIs DEF Host

LEMMA HostGotType ==
  ASSUME TypeOK, DumpIsNewest, LongEnough, HalfRead, Clock
  PROVE got' \in [type : {"IFETCH", "DLOAD", "DSTORE", "control"}, data : Data \cup Nat]
<1>0. got \in [type : {"IFETCH", "DLOAD", "DSTORE", "control"}, data : Data \cup Nat]
  BY DEF TypeOK
<1>1. CASE got' = got
  BY <1>0, <1>1
<1>2. CASE ReadType
  <2>1. Shown(idx).type \in {"IFETCH", "DLOAD", "DSTORE", "control"}
    BY <1>2, Asked, ShownType DEF ReadType
  <2> QED BY <1>0, <1>2, <2>1 DEF ReadType
<1>3. CASE ReadData
  <2>1. Shown(idx).data \in Data \cup Nat
    BY <1>3, Asked, ShownType DEF ReadData, HalfRead
  <2> QED BY <1>0, <1>3, <2>1 DEF ReadData
<1>4. CASE DumpEnds
  BY <1>4, DataAssumption DEF DumpEnds, BlankEntry
<1> QED BY <1>1, <1>2, <1>3, <1>4, ClockIs
        DEF Host, Reset, Waits, RunStop, ClearLog, EnableLog, ReadCount

-----------------------------------------------------------------------------
(* The invariant.                                                          *)

LEMMA SettledStep ==
  ASSUME IInv, Clock
  PROVE Settled'
<1> USE DEF Ready, HostGap
<1>1. /\ gap \in 0..2 /\ doing \in {"idle", "clear", "type", "data"}
      /\ cpulog_clear_req \in BOOLEAN /\ cpulog_clear \in BOOLEAN
      /\ run \in BOOLEAN /\ write_pending \in BOOLEAN
  BY DEF IInv, TypeOK, HostGap
<1>2. /\ cpulog_clear_req => doing = "clear" /\ gap = 0
      /\ cpulog_clear => doing = "clear" /\ gap = 1
      /\ ~run /\ gap # 0 => ~write_pending
      /\ doing \in {"type", "data"} => ~run /\ ~write_pending
  BY DEF IInv, Settled
<1>3. ~run => write_pending' = FALSE
  BY ClockIs, SeenType, Zenon DEF IInv, Edge, Logger, Clear, Record
<1>4. CASE Waits
  BY <1>1, <1>2, <1>3, <1>4 DEF Waits, NoControl, Settled
<1>5. CASE RunStop \/ Reset
  BY <1>1, <1>2, <1>3, <1>5 DEF RunStop, Reset, NoControl, Settled
<1>6. CASE ClearLog
  BY <1>1, <1>2, <1>3, <1>6 DEF ClearLog, Control, Settled
<1>7. CASE EnableLog
  <2>1. /\ cpulog_clear_req' = FALSE /\ cpulog_clear' = cpulog_clear_req
        /\ doing' = "idle" /\ gap' = 0 /\ gap = 2
    BY <1>7, Zenon DEF EnableLog, Control
  <2> QED BY <1>1, <1>2, <2>1 DEF Settled
<1>8. CASE ReadCount \/ ReadType \/ ReadData
  BY <1>1, <1>2, <1>3, <1>8 DEF ReadCount, ReadType, ReadData, MayDump, NoControl, Settled
<1>9. CASE DumpEnds
  BY <1>1, <1>2, <1>3, <1>9 DEF DumpEnds, NoControl, Settled
<1> QED BY <1>4, <1>5, <1>6, <1>7, <1>8, <1>9, ClockIs DEF Host

\* While a dump is under way nothing is logged and nothing cleared.
LEMMA AtRest ==
  ASSUME IInv, Clock, doing \in {"type", "data"} \/ (MayDump /\ ReadCount)
  PROVE /\ ~run /\ ~write_pending /\ ~cpulog_clear
        /\ events' = events /\ total' = total
<1>1. /\ ~run /\ ~write_pending /\ ~cpulog_clear
  BY DEF IInv, Settled, MayDump, Ready, HostGap, TypeOK
<1>2. PICK fetch \in BOOLEAN : Edge(fetch)
  BY ClockIs
<1>3. Seen(fetch) = {}
  BY <1>1, SeenType DEF IInv
<1> QED BY <1>1, <1>2, <1>3, Zenon DEF Edge, History

\* What the window shows of a log at rest.
LEMMA ShownIsEvent ==
  ASSUME IInv, ~write_pending, idx < Len(events), idx \in 0..(Depth - 1), ~Shadowed(idx)
  PROVE Shown(idx) = events[idx + 1] /\ events[idx + 1] \in Entry
<1>1. idx + Late = idx /\ idx + 1 + Late = idx + 1 /\ idx + 1 \in 1..Len(events)
  BY DEF Late, IInv, TypeOK
<1>2. log_mem[Age(idx)] = events[idx + 1]
  BY <1>1 DEF IInv, RingHoldsHistory
<1> QED BY <1>1, <1>2 DEF Shown, IInv, TypeOK

LEMMA DumpStep ==
  ASSUME IInv, Clock
  PROVE DumpIsNewest' /\ HalfRead'
<1> USE DEF Ready, HostGap
<1>1. /\ idx \in Nat /\ left \in Nat /\ MaxDump \in Nat /\ total \in Nat
      /\ trans_count \in 0..(Wrap - 1)
      /\ doing \in {"idle", "clear", "type", "data"}
  BY SizeAssumption, DumpAssumption DEF IInv, TypeOK
<1>2. /\ doing = "type" /\ idx > 0 /\ ~Shadowed(idx - 1) => got = events[idx]
      /\ doing \in {"type", "data"} =>
           idx + left = IF total < MaxDump THEN total ELSE MaxDump
      /\ doing = "data" => left > 0
      /\ doing = "data" /\ ~Shadowed(idx) => got.type = events[idx + 1].type
  BY DEF IInv, DumpIsNewest, HalfRead
<1>3. CASE Waits
  <2>1. UNCHANGED <<doing, idx, left, got>>
    BY <1>3 DEF Waits
  <2>2. doing \in {"type", "data"} => events' = events /\ total' = total
    BY AtRest
  <2> QED BY <1>1, <1>2, <2>1, <2>2 DEF DumpIsNewest, HalfRead, Shadowed
<1>4. CASE RunStop \/ Reset \/ ClearLog \/ EnableLog \/ DumpEnds
  <2>1. doing' \in {"idle", "clear"}
    BY <1>4, Zenon DEF RunStop, Reset, ClearLog, EnableLog, DumpEnds
  <2> QED BY <2>1 DEF DumpIsNewest, HalfRead
<1>5. CASE ReadCount
  <2>1. /\ doing' = "type" /\ idx' = 0
        /\ left' = IF trans_count < MaxDump THEN trans_count ELSE MaxDump
    BY <1>5 DEF ReadCount
  <2>2. ~write_pending /\ total' = total
    BY <1>5, AtRest DEF ReadCount
  <2>3. total = trans_count
    <3>1. trans_count + 0 = trans_count /\ trans_count \in Int
      BY <1>1, SizeAssumption
    <3>2. total = trans_count % Wrap
      BY <2>2, <3>1 DEF IInv, RingHoldsHistory, Late
    <3> QED BY <1>1, <3>1, <3>2, Remainder
  <2> QED BY <1>1, <2>1, <2>2, <2>3 DEF DumpIsNewest, HalfRead
<1>6. CASE ReadType
  <2>1. /\ doing = "type" /\ doing' = "data" /\ idx' = idx /\ left' = left /\ left > 0
        /\ got' = [got EXCEPT !.type = Shown(idx).type]
    BY <1>6 DEF ReadType
  <2>2. ~write_pending /\ events' = events /\ total' = total
    BY <2>1, AtRest
  <2>3. ~Shadowed(idx) => Shown(idx) = events[idx + 1]
    BY <2>1, <2>2, Asked, ShownIsEvent DEF IInv
  <2>4. got'.type = Shown(idx).type
    BY <2>1 DEF IInv, TypeOK
  <2> QED BY <1>2, <2>1, <2>2, <2>3, <2>4 DEF DumpIsNewest, HalfRead, Shadowed
<1>7. CASE ReadData
  <2>1. /\ doing = "data" /\ doing' = "type" /\ idx' = idx + 1 /\ left' = left - 1
        /\ got' = [got EXCEPT !.data = Shown(idx).data]
    BY <1>7 DEF ReadData
  <2>2. ~write_pending /\ events' = events /\ total' = total
    BY <2>1, AtRest
  <2>3. ~Shadowed(idx) => got' = events[idx + 1]
    <3> SUFFICES ASSUME ~Shadowed(idx) PROVE got' = events[idx + 1]
      OBVIOUS
    <3>1. Shown(idx) = events[idx + 1] /\ events[idx + 1] \in Entry
      BY <1>2, <2>1, <2>2, Asked, ShownIsEvent DEF IInv
    <3>2. got.type = events[idx + 1].type
      BY <1>2, <2>1
    <3> QED BY <2>1, <3>1, <3>2 DEF IInv, TypeOK, Entry
  <2>4. idx' - 1 = idx /\ idx' + left' = idx + left
    BY <1>1, <2>1
  <2>5. ~Shadowed(idx' - 1) => got' = events[idx']
    BY <2>1, <2>3, <2>4
  <2>6. DumpIsNewest'
    BY <1>2, <2>1, <2>2, <2>4, <2>5 DEF DumpIsNewest, Shadowed
  <2> QED BY <2>1, <2>6 DEF HalfRead
<1> QED BY <1>3, <1>4, <1>5, <1>6, <1>7, ClockIs DEF Host

LEMMA InitInv == Init => IInv
<1> SUFFICES ASSUME Init PROVE IInv
  OBVIOUS
<1>1. /\ Depth \in Nat /\ Depth > 0 /\ Wrap \in Nat /\ Wrap > 0 /\ MaxDump \in Nat
      /\ BlankEntry \in Entry
  BY SizeAssumption, DumpAssumption, DataAssumption DEF BlankEntry, Entry
<1>2. events = <<>> /\ events \in Seq(Entry) /\ Len(events) = 0
  BY DEF Init
<1>3. TypeOK
  <2>1. [i \in 0..(Depth - 1) |-> BlankEntry] \in [0..(Depth - 1) -> Entry]
    BY <1>1
  <2>2. /\ log_mem \in [0..(Depth - 1) -> Entry] /\ log_wr_ptr \in 0..(Depth - 1)
        /\ trans_count \in 0..(Wrap - 1) /\ entry_reg \in Entry /\ total \in 0..(Wrap - 1)
    BY <1>1, <2>1 DEF Init
  <2>3. in_mem \in Access \cup {Bubble} /\ cpu_addr_reg \in Data /\ cpu_rdata \in Data
    BY DataAssumption DEF Init
  <2>4. got \in [type : {"IFETCH", "DLOAD", "DSTORE", "control"}, data : Data \cup Nat]
    BY DataAssumption DEF Init, BlankEntry
  <2>5. idx \in 0..MaxDump /\ left \in 0..MaxDump /\ gap \in 0..HostGap
    BY <1>1 DEF Init, HostGap
  <2>6. /\ run \in BOOLEAN /\ halted \in BOOLEAN /\ write_pending \in BOOLEAN
        /\ cpulog_enable \in BOOLEAN /\ cpulog_log_imem \in BOOLEAN
        /\ cpulog_clear_req \in BOOLEAN /\ cpulog_clear \in BOOLEAN
        /\ mem_load_wait \in 0..3 /\ doing \in {"idle", "clear", "type", "data"}
    <3>1. cpulog_log_imem = FALSE /\ cpulog_log_imem \in BOOLEAN
      BY Zenon DEF Init
    <3>2. /\ run = FALSE /\ halted = FALSE /\ write_pending = FALSE
          /\ cpulog_enable = TRUE /\ cpulog_clear_req = FALSE /\ cpulog_clear = FALSE
      BY Zenon DEF Init
    <3>3. mem_load_wait \in 0..3 /\ doing \in {"idle", "clear", "type", "data"}
      BY DEF Init
    <3> QED BY <3>1, <3>2, <3>3, Zenon
  <2>7. Len(events) <= Depth + 1
    BY <1>1, <1>2
  <2> QED BY <1>2, <2>2, <2>3, <2>4, <2>5, <2>6, <2>7 DEF TypeOK
<1>4. 0 % Wrap = 0
  BY <1>1, Remainder
<1>5. RingHoldsHistory
  BY <1>1, <1>2, <1>4 DEF Init, RingHoldsHistory, Late
<1>6. LongEnough /\ Settled /\ DumpIsNewest /\ HalfRead
  BY <1>1, <1>2 DEF Init, LongEnough, Settled, DumpIsNewest, HalfRead, HostGap
<1> QED BY <1>3, <1>5, <1>6 DEF IInv

LEMMA StepInv == IInv /\ [Clock]_vars => IInv'
<1>1. ASSUME IInv, Clock PROVE IInv'
  <2>1. TypeOK /\ RingHoldsHistory /\ LongEnough /\ DumpIsNewest /\ HalfRead
    BY <1>1 DEF IInv
  <2>2. PICK fetch \in BOOLEAN : Edge(fetch)
    BY <1>1, ClockIs
  <2>3. /\ log_mem' \in [0..(Depth - 1) -> Entry] /\ log_wr_ptr' \in 0..(Depth - 1)
        /\ trans_count' \in 0..(Wrap - 1) /\ entry_reg' \in Entry /\ write_pending' \in BOOLEAN
        /\ events' \in Seq(Entry) /\ Len(events') <= Depth + 1 /\ total' \in 0..(Wrap - 1)
        /\ RingHoldsHistory' /\ LongEnough'
    BY <2>1, <2>2, LoggerStep
  <2>4. TypeOK'
    <3>1. /\ in_mem' \in Access \cup {Bubble} /\ mem_load_wait' \in 0..3
          /\ cpu_addr_reg' \in Data /\ cpu_rdata' \in Data
      BY <1>1, <2>1, MemType
    <3>2. /\ run' \in BOOLEAN /\ halted' \in BOOLEAN
          /\ cpulog_enable' \in BOOLEAN /\ cpulog_log_imem' \in BOOLEAN
          /\ cpulog_clear_req' \in BOOLEAN /\ cpulog_clear' \in BOOLEAN
      BY <1>1, <2>1, HostControlType
    <3>3. /\ doing' \in {"idle", "clear", "type", "data"}
          /\ idx' \in 0..MaxDump /\ left' \in 0..MaxDump /\ gap' \in 0..HostGap
      BY <1>1, <2>1, HostPlaceType
    <3>4. got' \in [type : {"IFETCH", "DLOAD", "DSTORE", "control"}, data : Data \cup Nat]
      BY <1>1, <2>1, HostGotType
    <3> QED BY <2>3, <3>1, <3>2, <3>3, <3>4, Zenon DEF TypeOK
  <2> QED BY <1>1, <2>3, <2>4, SettledStep, DumpStep DEF IInv
<1>2. ASSUME IInv, UNCHANGED vars PROVE IInv'
  BY <1>2 DEF IInv, vars, pipe, control, log, host, TypeOK, RingHoldsHistory, Late, Age,
              LongEnough, Settled, DumpIsNewest, Shadowed, HalfRead
<1> QED BY <1>1, <1>2

\* Every register of the logger and every place of the host's routines keeps to
\* its range, for a log of any depth.
THEOREM TypeCorrect == Spec => []TypeOK
<1>1. Init => IInv
  BY InitInv
<1>2. IInv /\ [Clock]_vars => IInv'
  BY StepInv
<1>3. IInv => TypeOK
  BY DEF IInv
<1> QED BY <1>1, <1>2, <1>3, PTL DEF Spec

\* The log is the history since the last clear: no event lost, none twice, none
\* of before the clear, whatever the depth and however often the ring wraps.
THEOREM RingIsHistory == Spec => []RingHoldsHistory
<1>1. Init => IInv
  BY InitInv
<1>2. IInv /\ [Clock]_vars => IInv'
  BY StepInv
<1>3. IInv => RingHoldsHistory
  BY DEF IInv
<1> QED BY <1>1, <1>2, <1>3, PTL DEF Spec

\* The dump of a stopped core prints the newest events in order, where the read
\* window shows entries, for every depth of the log and length of the dump.
THEOREM DumpPrintsHistory == Spec => []DumpIsNewest
<1>1. Init => IInv
  BY InitInv
<1>2. IInv /\ [Clock]_vars => IInv'
  BY StepInv
<1>3. IInv => DumpIsNewest
  BY DEF IInv
<1> QED BY <1>1, <1>2, <1>3, PTL DEF Spec

-----------------------------------------------------------------------------
(* The word of a load.                                                     *)

\* The word is two registers behind the address: while the load waits, it moves on.
WordArrives ==
  in_mem.kind = "load" => /\ mem_load_wait <= 2 => cpu_addr_reg = in_mem.word
                          /\ mem_load_wait <= 1 => cpu_rdata = in_mem.word

LEMMA WordMoves ==
  ASSUME TypeOK, WordArrives, Clock
  PROVE  WordArrives'
<1>1. cpu_addr_reg' = in_mem.word /\ cpu_rdata' = cpu_addr_reg
  BY DEF Clock, Edge, Dmem
<1>2. mem_load_wait \in Nat /\ mem_load_wait' \in Nat
  BY MemType DEF TypeOK
<1>3. CASE \E next \in Access : Advance(next)
  BY <1>3 DEF Advance, LoadWait, WordArrives
<1>4. CASE Hold
  BY <1>1, <1>2, <1>4 DEF Hold, WordArrives
<1>5. CASE Flush
  BY <1>5 DEF Flush, Bubble, WordArrives
<1> QED BY <1>3, <1>4, <1>5 DEF Clock

\* Every load that goes on to WB, of whatever core, memory and log, makes an entry
\* with the word it read, as its newest event.
THEOREM LoadsAreLogged == Spec => LoadIsLogged
<1>1. Init => WordArrives
  BY DEF Init, WordArrives, Bubble
<1>2. TypeOK /\ WordArrives /\ [Clock]_vars => WordArrives'
  BY WordMoves DEF vars, pipe, WordArrives
<1>3. ASSUME TypeOK, WordArrives, [Clock]_vars PROVE
        [/\ in_mem.kind = "load" /\ ~Waiting /\ cpu_running /\ cpulog_enable /\ ~cpulog_clear
           => events'[1] = [type |-> "DLOAD", data |-> in_mem.word]]_vars
  <2> SUFFICES ASSUME Clock, in_mem.kind = "load", ~Waiting, cpu_running, cpulog_enable,
                      ~cpulog_clear
               PROVE  events'[1] = [type |-> "DLOAD", data |-> in_mem.word]
    BY <1>3
  <2>1. PICK fetch \in BOOLEAN : Edge(fetch)
    BY ClockIs
  <2>2. Seen(fetch) = {[type |-> "DLOAD", data |-> cpu_rdata]}
    BY DEF Seen
  <2>3. cpu_rdata = in_mem.word
    BY <1>3 DEF Waiting, WordArrives
  <2>4. events' = Newest(<<[type |-> "DLOAD", data |-> cpu_rdata]>> \o events)
    BY <2>1, <2>2 DEF Edge, History
  <2>5. [type |-> "DLOAD", data |-> cpu_rdata] \in Entry
    BY <1>3 DEF TypeOK, Entry
  <2> QED BY <1>3, <2>3, <2>4, <2>5, NewestIs
<1> QED BY <1>1, <1>2, <1>3, TypeCorrect, PTL DEF Spec, LoadIsLogged
=============================================================================
