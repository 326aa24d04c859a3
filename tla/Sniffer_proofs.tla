--------------------------- MODULE Sniffer_proofs ---------------------------
(***************************************************************************)
(* The sniffer logs every access of the bridge, for a log of any depth:    *)
(* the adapter's pace is what its one register for a read, and its one for *)
(* an entry, need.                                                         *)
(***************************************************************************)
EXTENDS Sniffer, AxiBridge_proofs

SnifferTypes ==
  /\ sniffer_enable \in BOOLEAN /\ write_pending \in BOOLEAN /\ pending_read \in BOOLEAN
  /\ pending_addr \in Words /\ entry_reg \in Entry
  /\ log_mem \in [0..(Depth - 1) -> Entry] /\ log_wr_ptr \in 0..(Depth - 1)
  /\ seen \in Seq(Entry)

Waiting == IF pending_read THEN 1 ELSE 0

\* A read waits only while the adapter waits for its word, so that nothing else
\* happens then, and is the newest access; the entry on its way is the next.
OnTheWay ==
  /\ pending_read => /\ state \in {"R_LO_CAP", "R_HI_CAP"}
                     /\ Len(seen) > 0 => seen[1] = ReadEntry
  /\ write_pending /\ Waiting < Len(seen) => entry_reg = seen[Waiting + 1]

SniffInv == SnifferTypes /\ OnTheWay /\ SniffsAll

\* Indices count back from the pointer and wrap once.
LEMMA CountBack ==
  ASSUME NEW x \in Int, -Depth <= x, x < Depth
  PROVE  x % Depth = IF x < 0 THEN x + Depth ELSE x
BY DepthAssumption, SMT

LEMMA CountOn ==
  ASSUME NEW x \in 0..(Depth - 1)
  PROVE  (x + 1) % Depth = IF x + 1 = Depth THEN 0 ELSE x + 1
BY DepthAssumption, SMT

LEMMA ShownAt ==
  ASSUME NEW p \in 0..(Depth - 1), NEW k \in 0..(Depth - 1)
  PROVE  (p - 1 - k) % Depth = IF p > k THEN p - 1 - k ELSE p - 1 - k + Depth
BY DepthAssumption, CountBack

LEMMA NewestKeeps ==
  ASSUME NEW t \in Seq(Entry), NEW n \in Nat
  PROVE  /\ Newest(t, n) \in Seq(Entry) /\ Len(Newest(t, n)) <= Len(t)
         /\ \A k \in 1..Len(Newest(t, n)) : Newest(t, n)[k] = t[k]
<1> DEFINE m == IF Len(t) < n THEN Len(t) ELSE n
<1>1. m \in Nat /\ m <= Len(t) /\ Len(t) \in Nat
  OBVIOUS
<1>2. Newest(t, n) = SubSeq(t, 1, m)
  BY DEF Newest
<1> HIDE DEF m
<1>3. /\ SubSeq(t, 1, m) \in Seq(Entry) /\ Len(SubSeq(t, 1, m)) = m
      /\ \A k \in 1..m : SubSeq(t, 1, m)[k] = t[k]
  BY <1>1
<1> QED BY <1>1, <1>2, <1>3

\* Once the entry on its way is written, the log lacks only the read that waits.
LEMMA BookShows ==
  ASSUME SnifferTypes, OnTheWay, SniffsAll, Book
  PROVE  /\ log_mem' \in [0..(Depth - 1) -> Entry] /\ log_wr_ptr' \in 0..(Depth - 1)
         /\ \A k \in 0..(Depth - 1) :
              k + Waiting < Len(seen) => Shown(k)' = seen[k + 1 + Waiting]
<1> USE DepthAssumption DEF SnifferTypes
<1>1. Waiting \in 0..1 /\ Late = Waiting + IF write_pending THEN 1 ELSE 0
  BY DEF Waiting, Late
<1>2. Len(seen) \in Nat
  OBVIOUS
<1>3. CASE ~write_pending
  <2>1. log_mem' = log_mem /\ log_wr_ptr' = log_wr_ptr /\ Late = Waiting
    BY <1>1, <1>3 DEF Book
  <2>2. \A k \in 0..(Depth - 1) : Shown(k)' = Shown(k)
    BY <2>1 DEF Shown
  <2> QED BY <2>1, <2>2 DEF SniffsAll
<1>4. CASE write_pending
  <2>1. /\ log_mem' = [log_mem EXCEPT ![log_wr_ptr] = entry_reg]
        /\ log_wr_ptr' = IF log_wr_ptr + 1 = Depth THEN 0 ELSE log_wr_ptr + 1
        /\ Late = Waiting + 1
    BY <1>1, <1>4, CountOn DEF Book
  <2>2. log_mem' \in [0..(Depth - 1) -> Entry] /\ log_wr_ptr' \in 0..(Depth - 1)
    BY <2>1
  <2>3. ASSUME NEW k \in 0..(Depth - 1), k + Waiting < Len(seen)
        PROVE  Shown(k)' = seen[k + 1 + Waiting]
    <3>1. Shown(k)' = log_mem'[IF log_wr_ptr' > k THEN log_wr_ptr' - 1 - k
                               ELSE log_wr_ptr' - 1 - k + Depth]
      BY <2>2, ShownAt DEF Shown
    <3>2. CASE k = 0
      <4>1. Shown(k)' = log_mem'[log_wr_ptr]
        BY <2>1, <3>1, <3>2
      <4>2. entry_reg = seen[Waiting + 1]
        BY <1>4, <2>3, <3>2, <1>1 DEF OnTheWay
      <4> QED BY <1>1, <2>1, <3>2, <4>1, <4>2
    <3>3. CASE k # 0
      <4> DEFINE j == k - 1
      <4>1. j \in 0..(Depth - 1) /\ j + Late < Len(seen) /\ j + 1 + Late = k + 1 + Waiting
        BY <1>1, <1>2, <2>1, <2>3, <3>3
      <4>2. Shown(j) = seen[k + 1 + Waiting]
        BY <4>1 DEF SniffsAll
      <4>3. Shown(j) = log_mem[IF log_wr_ptr > j THEN log_wr_ptr - 1 - j
                               ELSE log_wr_ptr - 1 - j + Depth]
        BY <4>1, ShownAt DEF Shown
      <4>4. Shown(k)' = Shown(j)
        BY <2>1, <2>3, <3>1, <3>3, <4>3
      <4> QED BY <4>2, <4>4
    <3> QED BY <3>2, <3>3
  <2> QED BY <2>2, <2>3
<1> QED BY <1>3, <1>4

\* What the memory sees is an entry; while a read waits it sees nothing.
LEMMA AccessIs ==
  ASSUME BridgeInv, SniffInv
  PROVE  /\ Access \in Seq(Entry) /\ WriteEntry \in Entry /\ ReadEntry \in Entry
         /\ out_wen => ~out_ren /\ Access = <<WriteEntry>>
         /\ out_ren => Access = <<[type |-> "read", addr |-> out_addr, data |-> dmem[out_addr]]>>
         /\ ~out_wen /\ ~out_ren => Access = <<>>
         /\ pending_read => ~out_wen /\ ~out_ren
<1> USE WordsAssumption, ValueAssumption
<1>1. /\ out_addr \in Words /\ out_wdata \in Value /\ dmem[out_addr] \in Value
      /\ pending_addr \in Words /\ host_rdata \in Value
  BY DEF BridgeInv, TypeOK, out_addr, out_wdata, Data, SniffInv, SnifferTypes
<1>2. WriteEntry \in Entry /\ ReadEntry \in Entry
      /\ [type |-> "read", addr |-> out_addr, data |-> dmem[out_addr]] \in Entry
  BY <1>1 DEF Entry, WriteEntry, ReadEntry
<1>3. out_wen => ~out_ren
  BY DEF out_wen, out_ren
<1>4. pending_read => ~out_wen /\ ~out_ren
  BY DEF SniffInv, OnTheWay, out_wen, out_ren
<1>5. Access \in Seq(Entry)
  BY <1>2 DEF Access
<1> QED BY <1>2, <1>3, <1>4, <1>5 DEF Access

\* The history gets what the sniffer is to log, in front of what it has.
LEMMA HistoryIs ==
  ASSUME BridgeInv, SniffInv, ~sniffer_clear, Capture, History
  PROVE  /\ write_pending' \in BOOLEAN /\ pending_read' \in BOOLEAN
         /\ seen' \in Seq(Entry)
         /\ sniffer_enable /\ (out_wen \/ out_ren) =>
              /\ Len(seen') <= Len(seen) + 1
              /\ Len(seen') > 0 => seen'[1] = Access[1]
              /\ \A k \in 1..(Len(seen') - 1) : seen'[k + 1] = seen[k]
         /\ ~(sniffer_enable /\ (out_wen \/ out_ren)) =>
              /\ Len(seen') <= Len(seen)
              /\ \A k \in 1..Len(seen') : seen'[k] = seen[k]
<1> DEFINE new == IF sniffer_enable THEN Access ELSE <<>>
           t == new \o seen
<1>1. write_pending' \in BOOLEAN /\ pending_read' \in BOOLEAN
  BY DEF Capture, SniffInv, SnifferTypes
<1>2. Depth + Late' \in Nat
  BY <1>1, DepthAssumption DEF Late
<1>3. new \in Seq(Entry) /\ seen \in Seq(Entry)
  BY AccessIs DEF SniffInv, SnifferTypes
<1>4. seen' = Newest(t, Depth + Late')
  BY DEF History
<1>5. /\ t \in Seq(Entry) /\ Len(t) = Len(new) + Len(seen)
      /\ \A k \in 1..Len(new) : t[k] = new[k]
      /\ \A k \in 1..Len(seen) : t[k + Len(new)] = seen[k]
  BY <1>3
<1> HIDE DEF t
<1>6. /\ seen' \in Seq(Entry) /\ Len(seen') <= Len(t)
      /\ \A k \in 1..Len(seen') : seen'[k] = t[k]
  BY <1>2, <1>4, <1>5, NewestKeeps
<1>7. Len(seen) \in Nat /\ Len(seen') \in Nat
  BY <1>3, <1>6
<1>8. CASE sniffer_enable /\ (out_wen \/ out_ren)
  <2>1. Len(new) = 1 /\ new[1] = Access[1]
    BY <1>8, AccessIs
  <2> HIDE DEF new
  <2> QED BY <1>1, <1>5, <1>6, <1>7, <1>8, <2>1
<1>9. CASE ~(sniffer_enable /\ (out_wen \/ out_ren))
  <2>1. Len(new) = 0
    BY <1>9, AccessIs
  <2> HIDE DEF new
  <2> QED BY <1>1, <1>5, <1>6, <1>7, <1>9, <2>1
<1> QED BY <1>8, <1>9

LEMMA RecordStep ==
  ASSUME BridgeInv, SniffInv, ~sniffer_clear, Book, Capture, History, Adapter, Dmem,
         sniffer_enable' \in BOOLEAN
  PROVE  SniffInv'
<1> USE DEF SniffInv
<1>1. /\ write_pending' \in BOOLEAN /\ pending_read' \in BOOLEAN /\ seen' \in Seq(Entry)
      /\ Len(seen) \in Nat /\ Len(seen') \in Nat /\ Depth \in Nat /\ Depth > 0
  BY HistoryIs, DepthAssumption DEF SnifferTypes
<1>2. /\ log_mem' \in [0..(Depth - 1) -> Entry] /\ log_wr_ptr' \in 0..(Depth - 1)
      /\ \A k \in 0..(Depth - 1) :
              k + Waiting < Len(seen) => Shown(k)' = seen[k + 1 + Waiting]
  BY BookShows
<1>3. SnifferTypes'
  <2>1. pending_addr' \in Words
    BY WordsAssumption DEF Capture, SnifferTypes, BridgeInv, TypeOK, out_addr
  <2>2. entry_reg' \in Entry
    BY AccessIs DEF Capture, SnifferTypes
  <2> QED BY <1>1, <1>2, <2>1, <2>2 DEF SnifferTypes
<1>4. CASE sniffer_enable /\ (out_wen \/ out_ren)
  <2>1. /\ ~pending_read /\ Waiting = 0
        /\ Len(seen') <= Len(seen) + 1
        /\ Len(seen') > 0 => seen'[1] = Access[1]
        /\ \A k \in 1..(Len(seen') - 1) : seen'[k + 1] = seen[k]
    BY <1>4, AccessIs, HistoryIs DEF Waiting
  <2>2. Late' = 1
    <3>1. \/ write_pending' = TRUE /\ pending_read' = FALSE
          \/ write_pending' = FALSE /\ pending_read' = TRUE
      BY <1>4, <2>1, AccessIs, Zenon DEF Capture
    <3> QED BY <3>1 DEF Late
  <2>3. SniffsAll'
    <3> SUFFICES ASSUME NEW k \in 0..(Depth - 1), k + Late' < Len(seen')
                 PROVE  Shown(k)' = seen'[k + 1 + Late']
      BY DEF SniffsAll
    <3>1. k + 1 \in 1..(Len(seen') - 1) /\ k + Waiting < Len(seen)
      BY <1>1, <2>1, <2>2
    <3>2. Shown(k)' = seen[k + 1] /\ seen'[k + 1 + 1] = seen[k + 1]
      BY <1>2, <2>1, <3>1
    <3> QED BY <2>2, <3>2
  <2>4. OnTheWay'
    <3>1. CASE out_wen
      <4>1. write_pending' /\ ~pending_read' /\ entry_reg' = WriteEntry
        BY <1>4, <2>1, <3>1, AccessIs DEF Capture
      <4>2. Access[1] = WriteEntry /\ Waiting' = 0
        BY <3>1, <4>1, AccessIs DEF Waiting
      <4> QED BY <1>1, <2>1, <4>1, <4>2 DEF OnTheWay
    <3>2. CASE out_ren
      <4>1. ~write_pending' /\ pending_read' /\ pending_addr' = out_addr
        BY <1>4, <2>1, <3>2, AccessIs DEF Capture
      <4>2. state' \in {"R_LO_CAP", "R_HI_CAP"} /\ host_rdata' = dmem[out_addr]
        BY <3>2 DEF out_ren, Adapter, Dmem, host_en, out_wen
      <4>3. Access[1] = ReadEntry'
        BY <3>2, <4>1, <4>2, AccessIs DEF ReadEntry
      <4> QED BY <1>1, <2>1, <4>1, <4>2, <4>3 DEF OnTheWay
    <3> QED BY <1>4, <3>1, <3>2
  <2> QED BY <1>3, <2>3, <2>4
<1>5. CASE ~(sniffer_enable /\ (out_wen \/ out_ren))
  <2>1. /\ Len(seen') <= Len(seen)
        /\ \A k \in 1..Len(seen') : seen'[k] = seen[k]
    BY <1>5, HistoryIs
  <2>2. ~pending_read' /\ write_pending' = pending_read /\ Waiting' = 0
    BY <1>5 DEF Capture, SnifferTypes, Waiting
  <2>3. Late' = Waiting
    BY <2>2 DEF Late, Waiting
  <2>4. SniffsAll'
    <3>1. Waiting \in 0..1
      BY DEF Waiting
    <3> SUFFICES ASSUME NEW k \in 0..(Depth - 1), k + Waiting < Len(seen')
                 PROVE  Shown(k)' = seen'[k + 1 + Waiting]
      BY <2>3 DEF SniffsAll
    <3>2. k + 1 + Waiting \in 1..Len(seen') /\ k + Waiting < Len(seen)
      BY <1>1, <2>1, <3>1
    <3> QED BY <1>2, <2>1, <3>2
  <2>5. OnTheWay'
    <3> SUFFICES ASSUME pending_read, 0 < Len(seen') PROVE entry_reg' = seen'[1]
      BY <2>2 DEF OnTheWay
    <3>1. entry_reg' = ReadEntry
      BY DEF Capture
    <3>2. seen[1] = ReadEntry /\ seen'[1] = seen[1]
      BY <1>1, <2>1 DEF OnTheWay
    <3> QED BY <3>1, <3>2
  <2> QED BY <1>3, <2>4, <2>5
<1> QED BY <1>4, <1>5

LEMMA ClearStep ==
  ASSUME SniffInv, sniffer_clear, Clear, History, sniffer_enable' \in BOOLEAN
  PROVE  SniffInv'
<1>1. /\ log_wr_ptr' = 0 /\ ~write_pending' /\ ~pending_read' /\ seen' = <<>>
      /\ UNCHANGED <<pending_addr, entry_reg, log_mem>>
      /\ write_pending' \in BOOLEAN /\ pending_read' \in BOOLEAN
  BY DEF Clear, History
<1>2. Len(seen') = 0 /\ seen' \in Seq(Entry) /\ Late' = 0
  BY <1>1 DEF Late
<1>3. SnifferTypes'
  BY <1>1, <1>2, DepthAssumption DEF SnifferTypes, SniffInv
<1>4. SniffsAll'
  BY <1>2, DepthAssumption DEF SniffsAll
<1> QED BY <1>1, <1>3, <1>4 DEF SniffInv, OnTheWay

LEMMA SniffInit == SniffedInit => SniffInv
<1> SUFFICES ASSUME SniffedInit PROVE SniffInv
  OBVIOUS
<1>1. entry_reg \in Entry
  BY WordsAssumption, ValueAssumption DEF SniffedInit, Entry
<1>2. /\ log_mem \in [0..(Depth - 1) -> Entry] /\ log_wr_ptr \in 0..(Depth - 1)
      /\ seen = <<>> /\ seen \in Seq(Entry) /\ Len(seen) = 0
  BY <1>1, DepthAssumption DEF SniffedInit
<1>3. /\ sniffer_enable \in BOOLEAN /\ pending_read = FALSE /\ write_pending = FALSE
      /\ pending_addr \in Words
  BY WordsAssumption DEF SniffedInit
<1>4. SniffsAll
  BY <1>2, <1>3, DepthAssumption DEF SniffsAll, Late
<1> QED BY <1>1, <1>2, <1>3, <1>4 DEF SniffInv, SnifferTypes, OnTheWay

LEMMA SniffStep == BridgeInv /\ SniffInv /\ [Clock /\ Sniff]_svars => BridgeInv' /\ SniffInv'
<1>1. ASSUME BridgeInv, SniffInv, Clock, Sniff PROVE BridgeInv' /\ SniffInv'
  <2>1. BridgeInv'
    BY <1>1, InvStep
  <2>2. sniffer_enable' \in BOOLEAN
    BY <1>1 DEF Sniff, ControlEdge, Control, SniffInv, SnifferTypes
  <2>3. Adapter /\ Dmem
    BY <1>1 DEF Clock, Edge
  <2>4. CASE sniffer_clear
    BY <1>1, <2>1, <2>2, <2>4, ClearStep DEF Sniff, Log
  <2>5. CASE ~sniffer_clear
    BY <1>1, <2>1, <2>2, <2>3, <2>5, RecordStep DEF Sniff, Log
  <2> QED BY <2>4, <2>5
<1>2. ASSUME BridgeInv, SniffInv, UNCHANGED svars PROVE BridgeInv' /\ SniffInv'
  <2>1. UNCHANGED vars /\ UNCHANGED <<control, log, seen>>
    BY <1>2 DEF svars
  <2>2. BridgeInv'
    BY <1>2, <2>1, InvStep
  <2>3. SniffInv'
    BY <1>2, <2>1 DEF SniffInv, SnifferTypes, OnTheWay, SniffsAll, Shown, Late, Waiting,
                      ReadEntry, control, log, vars, adapter
  <2> QED BY <2>2, <2>3
<1> QED BY <1>1, <1>2

\* The log holds every access the memory has seen since the last clear, each with
\* its own address and word, in order, for every depth of the log.
THEOREM EverythingLogged == SniffedSpec => []SniffsAll
<1>1. SniffedInit => BridgeInv /\ SniffInv
  BY SniffInit, InitInv DEF SniffedInit
<1>2. BridgeInv /\ SniffInv => SniffsAll
  BY DEF SniffInv
<1> QED BY <1>1, <1>2, SniffStep, PTL DEF SniffedSpec
=============================================================================
