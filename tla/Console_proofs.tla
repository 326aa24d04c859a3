---------------------------- MODULE Console_proofs ----------------------------
(***************************************************************************)
(* The rings' indices and slots keep their ranges, and the program reads   *)
(* the keys in order and misses none, for every size of the rings and      *)
(* every number of characters, whatever the CPU and the host overwrite or  *)
(* lose of each other's.                                                   *)
(***************************************************************************)
EXTENDS Console, Integers, TLAPS

USE SizeAssumption, BoundAssumption, StartsAssumption

LEMMA AfterInSlots == \A i \in Slots : After(i) \in Slots
BY DEF Slots, After

LEMMA CpuStoresType ==
  ASSUME TypeOK, RoomToCount, CpuStores \/ StoreLost
  PROVE  /\ cpu' \in [at : CpuPlaces, i : Slots]
         /\ written' \in 0..MaxOut
         /\ cpu'.at \notin {"put_wait", "put_buf"}
<1> USE DEF TypeOK, RoomToCount, CpuGoes, CpuPlaces
<1>1. CASE StoreLost
  BY <1>1 DEF StoreLost
<1>2. CASE PutBuf
  BY <1>2 DEF PutBuf
<1>3. CASE PutPublish \/ GetPublish
  BY <1>3 DEF PutPublish, GetPublish, ghosts, tx
<1> QED BY <1>1, <1>2, <1>3 DEF CpuStores

LEMMA CpuStepType == TypeOK /\ RoomToCount /\ CpuStep => TypeOK' /\ RoomToCount'
<1> SUFFICES ASSUME TypeOK, RoomToCount, CpuStep PROVE TypeOK' /\ RoomToCount'
  OBVIOUS
<1> USE DEF TypeOK, RoomToCount, tx, rx, ghosts, CpuGoes, CpuPlaces
<1>1. UNCHANGED <<host, cpu_running>>
  BY DEF CpuStep
<1>2. CASE PutHead
  BY <1>1, <1>2 DEF PutHead
<1>3. CASE PutWait
  BY <1>1, <1>3 DEF PutWait
<1>4. CASE GetTail
  BY <1>1, <1>4 DEF GetTail
<1>5. CASE GetWait
  BY <1>1, <1>5 DEF GetWait
<1>6. CASE GetPoll
  BY <1>1, <1>6 DEF GetPoll
<1>7. CASE GetBuf
  BY <1>1, <1>7 DEF GetBuf
<1>8. CASE PutBuf
  BY <1>1, <1>8 DEF PutBuf
<1>9. CASE PutPublish
  BY <1>1, <1>9, AfterInSlots DEF PutPublish
<1>10. CASE GetPublish
  BY <1>1, <1>10, AfterInSlots DEF GetPublish
<1> QED BY <1>2, <1>3, <1>4, <1>5, <1>6, <1>7, <1>8, <1>9, <1>10
        DEF CpuStep, CpuLoads, CpuStores

\* During a host write the CPU stands still or moves on without its store.
LEMMA DuringWrite ==
  ASSUME TypeOK, RoomToCount, CpuDuringWrite
  PROVE  /\ cpu' \in [at : CpuPlaces, i : Slots] /\ written' \in 0..MaxOut
         /\ cpu'.at \in {"put_wait", "put_buf"} => written' < MaxOut
BY CpuStoresType DEF CpuDuringWrite, TypeOK, RoomToCount

LEMMA HostStepType == TypeOK /\ RoomToCount /\ HostStep => TypeOK' /\ RoomToCount'
<1> SUFFICES ASSUME TypeOK, RoomToCount, HostStep PROVE TypeOK' /\ RoomToCount'
  OBVIOUS
<1>1. ASSUME Stop \/ Start PROVE TypeOK' /\ RoomToCount'
  <2>1. 0 \in Slots
    BY DEF Slots
  <2> QED BY <1>1, <2>1 DEF Stop, Start, TypeOK, RoomToCount, tx, rx, ghosts,
                            HostGoes, HostPlaces
<1>2. ASSUME UNCHANGED cpu_running,
             ReadTxHead \/ ReadTxTail \/ TailRead \/ NoKey \/ ReadRxHead
               \/ ReadRxTail \/ HeadRead \/ Display
      PROVE  TypeOK' /\ RoomToCount'
  <2> USE DEF TypeOK, RoomToCount, tx, rx, ghosts, HostGoes, HostPlaces
  <2>1. CASE ReadTxHead \/ ReadTxTail
    BY <1>2, <2>1 DEF ReadTxHead, ReadTxTail
  <2>2. CASE TailRead \/ HeadRead
    BY <1>2, <2>2 DEF TailRead, HeadRead
  <2>3. CASE NoKey \/ ReadRxHead
    BY <1>2, <2>3 DEF NoKey, ReadRxHead
  <2>4. CASE ReadRxTail
    BY <1>2, <2>4 DEF ReadRxTail
  <2>5. CASE Display
    BY <1>2, <2>5 DEF Display
  <2> QED BY <1>2, <2>1, <2>2, <2>3, <2>4, <2>5
<1>3. ASSUME UNCHANGED cpu_running,
             TailLo \/ TailHi \/ WriteRxBuf \/ WriteNeighbour \/ HeadLo \/ HeadHi
      PROVE  TypeOK' /\ RoomToCount'
  <2>1. /\ cpu' \in [at : CpuPlaces, i : Slots] /\ written' \in 0..MaxOut
        /\ cpu'.at \in {"put_wait", "put_buf"} => written' < MaxOut
    BY <1>3, DuringWrite DEF TailLo, TailHi, WriteRxBuf, WriteNeighbour, HeadLo, HeadHi
  <2>2. host' \in [at : HostPlaces, head : Slots, tail : Slots, current : Slots]
    BY <1>3 DEF TypeOK, HostGoes, HostPlaces, TailLo, TailHi, WriteRxBuf,
                WriteNeighbour, HeadLo, HeadHi
  <2>3. CASE WriteRxBuf
    BY <1>3, <2>1, <2>2, <2>3 DEF WriteRxBuf, TypeOK, RoomToCount, tx, HostGoes
  <2>4. CASE ~WriteRxBuf
    BY <1>3, <2>1, <2>2, <2>4, AfterInSlots DEF TypeOK, RoomToCount, tx, rx,
       HostGoes, TailLo, TailHi, WriteNeighbour, HeadLo, HeadHi
  <2> QED BY <2>3, <2>4
<1> QED BY <1>1, <1>2, <1>3 DEF HostStep, Loop

LEMMA TypesHold == Spec => [](TypeOK /\ RoomToCount)
<1>1. Init => TypeOK /\ RoomToCount
  BY DEF Init, TypeOK, RoomToCount, Slots, CpuPlaces, HostPlaces
<1>2. TypeOK /\ RoomToCount /\ [Next]_vars => TypeOK' /\ RoomToCount'
  <2>1. ASSUME TypeOK, RoomToCount, UNCHANGED vars PROVE TypeOK' /\ RoomToCount'
    BY <2>1 DEF vars, tx, rx, ghosts, TypeOK, RoomToCount
  <2> QED BY <2>1, CpuStepType, HostStepType DEF Next
<1> QED BY <1>1, <1>2, PTL DEF Spec
\* The indices stay within their rings and no slot ever holds anything but a
\* character of the program, or a key, or its initial zero.
THEOREM ConsoleTypes == Spec => []TypeOK
<1> QED BY TypesHold, PTL

(***************************************************************************)
(* No key is skipped.  Keys are told apart by their distance behind        *)
(* RX_HEAD: the slot d behind it holds the d-th newest published key, and  *)
(* a tail that is d behind it has all but the newest d keys behind it.     *)
(***************************************************************************)
Behind(i) == IF i <= rx_head THEN rx_head - i ELSE rx_head - i + Size
Storing == host.at \in {"rx_next", "head_read", "head_lo"}
Published == IF Storing THEN typed - 1 ELSE typed
Reading == cpu.at \in {"get_wait", "get_poll", "get_buf", "get_tail"}

HeadKnown ==
  /\ host.at \in {"rx_tail", "rx_buf"} \/ Storing => host.head = rx_head
  /\ Storing => typed > 0 /\ rx_buf[rx_head] = typed
  /\ host.at \in {"loader", "clear"} => typed = 0 /\ rx_head = 0 /\ rx_tail = 0
KeysInPlace ==
  \A s \in Slots : Behind(s) # 0 /\ Behind(s) <= Published =>
                     rx_buf[s] = Published - Behind(s) + 1
\* The tail has nothing behind it that was not read, and the ring has room for a
\* key the host has begun to store.
TailInRange ==
  /\ Behind(rx_tail) <= Published
  /\ Published <= seen + Behind(rx_tail)
  /\ host.at = "rx_buf" \/ Storing => Behind(rx_tail) # Size - 1
\* The tail the CPU has loaded may have been written back since, never overtaken.
CpuAhead ==
  Reading =>
    /\ Behind(cpu.i) <= Behind(rx_tail)
    /\ Published <= seen + Behind(cpu.i)
    /\ cpu.at \in {"get_buf", "get_tail"} => Behind(cpu.i) # 0
    /\ cpu.at = "get_tail" => Published < seen + Behind(cpu.i)
\* The tail the host is about to write back is one the CPU has stored.
CurrentBehind ==
  host.at \in {"head_lo", "head_hi"} =>
    /\ Behind(rx_tail) <= Behind(host.current)
    /\ Behind(host.current) <= Published
    /\ host.at = "head_lo" => Behind(host.current) # Size - 1
KeyInv == HeadKnown /\ KeysInPlace /\ TailInRange /\ CpuAhead /\ CurrentBehind

LEMMA AfterIs == \A i \in Slots : After(i) = IF i + 1 = Size THEN 0 ELSE i + 1
BY DEF Slots, After

LEMMA InitKeys == Init => KeyInv
BY DEF Init, KeyInv, HeadKnown, KeysInPlace, TailInRange, CpuAhead, CurrentBehind,
       Behind, Storing, Published, Reading, Slots

LEMMA Distances ==
  ASSUME TypeOK
  PROVE  /\ Size \in Int /\ Size > 1 /\ seen \in Nat /\ typed \in Nat /\ Published \in Int
         /\ Behind(rx_tail) \in Slots /\ Behind(cpu.i) \in Slots
         /\ Behind(host.current) \in Slots
         /\ \A s \in Slots : Behind(s) \in Slots
<1>1. \A s \in Slots : Behind(s) \in Slots
  BY DEF TypeOK, Behind, Slots
<1>2. rx_tail \in Slots /\ cpu.i \in Slots /\ host.current \in Slots
  BY DEF TypeOK
<1>3. seen \in Nat /\ typed \in Nat /\ Published \in Int
  BY DEF TypeOK, Published
<1> QED BY <1>1, <1>2, <1>3

\* What getchar is about to read: the key after the newest that its tail leaves behind.
LEMMA NextKey ==
  ASSUME TypeOK, KeyInv, cpu.at = "get_buf"
  PROVE  /\ rx_buf[cpu.i] = Published - Behind(cpu.i) + 1
         /\ 0 < rx_buf[cpu.i] /\ rx_buf[cpu.i] <= seen + 1
<1>1. /\ Behind(cpu.i) # 0 /\ Behind(cpu.i) <= Behind(rx_tail)
      /\ Published <= seen + Behind(cpu.i) /\ Behind(rx_tail) <= Published
  BY DEF KeyInv, CpuAhead, Reading, TailInRange
<1>2. cpu.i \in Slots /\ Behind(cpu.i) \in Int /\ Behind(rx_tail) \in Int
      /\ seen \in Int /\ Published \in Int
  BY Distances DEF TypeOK, Slots
<1>3. rx_buf[cpu.i] = Published - Behind(cpu.i) + 1
  BY <1>1, <1>2 DEF KeyInv, KeysInPlace
<1> QED BY <1>1, <1>2, <1>3

\* A step of the CPU that stores no tail: the rings' indices and the host stand still.
LEMMA CpuLoadsKeys ==
  ASSUME TypeOK, TypeOK', KeyInv, CpuLoads \/ PutBuf \/ PutPublish, UNCHANGED host
  PROVE  KeyInv'
<1>1. /\ UNCHANGED <<rx_buf, rx_head, rx_tail, typed>>
      /\ seen' >= seen
  <2>1. seen \in Nat /\ got' \in Nat
    BY DEF TypeOK
  <2> QED BY <2>1 DEF CpuLoads, PutHead, PutWait, PutBuf, PutPublish, GetTail, GetWait,
                      GetPoll, GetBuf, tx, rx, ghosts
<1>2. Published' = Published /\ Behind(rx_tail)' = Behind(rx_tail) /\ Storing' = Storing
      /\ Behind(host.current)' = Behind(host.current)
      /\ \A s \in Slots : Behind(s)' = Behind(s)
  BY <1>1 DEF Published, Behind, Storing
<1>3. HeadKnown'
  BY <1>1, <1>2 DEF KeyInv, HeadKnown
<1>4. KeysInPlace'
  BY <1>1, <1>2 DEF KeyInv, KeysInPlace, Behind
<1>5. CurrentBehind'
  BY <1>1, <1>2 DEF KeyInv, CurrentBehind
<1>6. TailInRange'
  <2>1. seen \in Nat /\ seen' \in Nat /\ Published \in Int /\ Behind(rx_tail) \in Int
    <3>1. Behind(rx_tail) \in Slots /\ Published \in Int
      BY Distances
    <3>2. seen \in Nat /\ seen' \in Nat
      BY DEF TypeOK
    <3> QED BY <3>1, <3>2 DEF Slots
  <2>2. TailInRange
    BY DEF KeyInv
  <2>3. host.at' = host.at
    OBVIOUS
  <2>4. Published' <= seen' + Behind(rx_tail)'
    BY <1>1, <1>2, <2>1, <2>2 DEF TailInRange
  <2>5. Behind(rx_tail)' <= Published'
    BY <1>2, <2>2 DEF TailInRange
  <2>6. host'.at = "rx_buf" \/ Storing' => Behind(rx_tail)' # Size - 1
    BY <1>2, <2>2, <2>3 DEF TailInRange
  <2> QED BY <2>4, <2>5, <2>6 DEF TailInRange
<1>7. CpuAhead'
  <2>1. /\ cpu' \in [at : CpuPlaces, i : Slots] /\ cpu \in [at : CpuPlaces, i : Slots]
        /\ seen \in Nat /\ seen' \in Nat
    BY DEF TypeOK
  <2>2. CASE PutHead \/ PutWait \/ PutBuf \/ PutPublish
    BY <2>1, <2>2 DEF PutHead, PutWait, PutBuf, PutPublish, CpuGoes, CpuAhead, Reading
  <2>3. CASE GetTail
    <3>1. cpu'.i = rx_tail /\ cpu'.at \in {"get_wait", "get_poll"} /\ seen' = seen
      BY <2>3 DEF GetTail, ghosts
    <3>2. Behind(cpu.i)' = Behind(rx_tail)
      BY <3>1, <1>1 DEF Behind
    <3>3. Behind(rx_tail) \in Slots
      BY Distances
    <3> QED BY <3>1, <3>2, <3>3, <1>2 DEF KeyInv, TailInRange, CpuAhead, Slots
  <2>4. CASE GetWait \/ GetPoll \/ GetBuf
    <3>1. cpu'.i = cpu.i /\ Reading
      BY <2>1, <2>4 DEF GetWait, GetPoll, GetBuf, CpuGoes, Reading
    <3>2. Behind(cpu.i)' = Behind(cpu.i)
      BY <3>1, <1>1 DEF Behind
    <3>3. Behind(cpu.i) \in Int /\ Published \in Int
      BY Distances DEF Slots
    <3>4. Published' <= seen' + Behind(cpu.i)'
      BY <1>1, <1>2, <3>1, <3>2, <3>3, <2>1 DEF KeyInv, CpuAhead
    <3>5. cpu'.at \in {"get_buf", "get_tail"} => Behind(cpu.i) # 0
      <4>1. CASE GetWait \/ GetPoll
        <5>1. cpu'.at = "get_buf" => cpu.i # rx_head
          BY <2>1, <4>1 DEF GetWait, GetPoll, CpuGoes
        <5>2. cpu.i # rx_head => Behind(cpu.i) # 0
          <6>1. cpu.i \in Slots /\ rx_head \in Slots
            BY DEF TypeOK
          <6> QED BY <6>1 DEF Behind, Slots
        <5>3. cpu'.at # "get_tail"
          BY <2>1, <4>1 DEF GetWait, GetPoll, CpuGoes
        <5> QED BY <5>1, <5>2, <5>3
      <4>2. CASE GetBuf
        <5>1. CpuAhead /\ Reading /\ cpu.at = "get_buf"
          BY <4>2, <3>1 DEF GetBuf, KeyInv
        <5> QED BY <5>1 DEF CpuAhead
      <4> QED BY <2>4, <4>1, <4>2
    <3>6. cpu'.at = "get_tail" => Published < seen' + Behind(cpu.i)
      <4>1. CASE GetWait \/ GetPoll
        BY <2>1, <4>1 DEF GetWait, GetPoll, CpuGoes
      <4>2. CASE GetBuf
        <5>1. rx_buf[cpu.i] = Published - Behind(cpu.i) + 1
          BY <4>2, NextKey DEF GetBuf
        <5>2. seen' >= rx_buf[cpu.i]
          BY <2>1, <5>1, <3>3, <4>2 DEF GetBuf
        <5> QED BY <5>1, <5>2, <3>3, <2>1
      <4> QED BY <2>4, <4>1, <4>2
    <3> QED BY <1>2, <3>1, <3>2, <3>4, <3>5, <3>6 DEF KeyInv, CpuAhead
  <2> QED BY <2>2, <2>3, <2>4 DEF CpuLoads
<1> QED BY <1>3, <1>4, <1>5, <1>6, <1>7 DEF KeyInv

\* getchar's store of its tail moves it forward, over the key that was read.
LEMMA PublishKeys ==
  ASSUME TypeOK, TypeOK', KeyInv, GetPublish, UNCHANGED host
  PROVE  KeyInv'
<1>1. /\ UNCHANGED <<rx_buf, rx_head, typed, seen>>
      /\ cpu.at = "get_tail" /\ rx_tail' = After(cpu.i) /\ ~Reading'
  BY DEF GetPublish, tx, ghosts, CpuGoes, Reading, TypeOK
<1>2. Published' = Published /\ Storing' = Storing
      /\ Behind(host.current)' = Behind(host.current)
  BY <1>1 DEF Published, Behind, Storing
<1>3. /\ Behind(cpu.i) # 0 /\ Behind(cpu.i) <= Behind(rx_tail)
      /\ Published < seen + Behind(cpu.i)
  BY <1>1 DEF KeyInv, CpuAhead, Reading
<1>4. Behind(rx_tail)' = Behind(cpu.i) - 1
  <2>1. cpu.i \in Slots /\ rx_head \in Slots
    BY DEF TypeOK
  <2>2. rx_tail' = IF cpu.i + 1 = Size THEN 0 ELSE cpu.i + 1
    BY <1>1, <2>1, AfterIs
  <2> QED BY <1>1, <1>3, <2>1, <2>2 DEF Behind, Slots
<1>5. /\ Behind(cpu.i) \in Slots /\ Behind(rx_tail) \in Slots
      /\ Behind(host.current) \in Slots /\ Published \in Int /\ seen \in Int
  BY Distances
<1>6. HeadKnown'
  <2>1. host.at \in {"loader", "clear"} => FALSE
    <3> SUFFICES ASSUME host.at \in {"loader", "clear"} PROVE FALSE
      OBVIOUS
    <3>1. Published = 0 /\ Behind(rx_tail) = 0
      BY DEF KeyInv, HeadKnown, Published, Storing, Behind, Slots, TypeOK
    <3> QED BY <3>1, <1>3, <1>5 DEF Slots
  <2> QED BY <1>1, <1>2, <2>1 DEF KeyInv, HeadKnown
<1>7. KeysInPlace'
  BY <1>1, <1>2 DEF KeyInv, KeysInPlace, Behind
<1>8. TailInRange'
  <2>1. Behind(rx_tail)' <= Published' /\ Published' <= seen' + Behind(rx_tail)'
    BY <1>1, <1>2, <1>3, <1>4, <1>5 DEF KeyInv, TailInRange, Slots
  <2>2. Behind(rx_tail)' # Size - 1
    BY <1>3, <1>4, <1>5 DEF Slots
  <2> QED BY <2>1, <2>2 DEF TailInRange
<1>9. CurrentBehind'
  <2>1. CASE host.at \in {"head_lo", "head_hi"}
    <3>1. Behind(rx_tail)' <= Behind(host.current)
      BY <1>3, <1>4, <1>5, <2>1 DEF KeyInv, CurrentBehind, Slots
    <3> QED BY <1>2, <2>1, <3>1 DEF KeyInv, CurrentBehind
  <2> QED BY <2>1 DEF CurrentBehind
<1> QED BY <1>1, <1>6, <1>7, <1>8, <1>9 DEF KeyInv, CpuAhead

\* Beside a host write the CPU stands still or moves on without its store.
LEMMA WriteKeepsReader ==
  ASSUME TypeOK, CpuDuringWrite
  PROVE  Reading' => Reading /\ cpu' = cpu
<1>1. CASE StoreLost
  BY <1>1 DEF StoreLost, TypeOK, CpuGoes, Reading
<1>2. CASE UNCHANGED <<cpu, written>>
  BY <1>2 DEF Reading
<1> QED BY <1>1, <1>2 DEF CpuDuringWrite

\* What follows for the CPU when the host moves neither its key nor the tail.
LEMMA ReaderKept ==
  ASSUME KeyInv, Reading' => Reading /\ cpu' = cpu,
         UNCHANGED <<rx_head, rx_tail, seen>>, Published' = Published
  PROVE  CpuAhead'
<1>1. Reading' => Behind(cpu.i)' = Behind(cpu.i) /\ Behind(rx_tail)' = Behind(rx_tail)
  BY DEF Behind
<1> QED BY <1>1 DEF KeyInv, CpuAhead

\* The steps of the host that leave the input ring alone.
HostReads ==
  \/ ReadTxHead \/ ReadTxTail \/ Display \/ TailRead \/ TailLo \/ TailHi
  \/ NoKey \/ ReadRxHead \/ ReadRxTail \/ HeadRead \/ Stop \/ Start
LEMMA HostReadsKeys ==
  ASSUME TypeOK, TypeOK', KeyInv, HostReads
  PROVE  KeyInv'
<1>1. UNCHANGED <<rx_buf, rx_head, rx_tail, typed, seen>>
  <2>1. CASE Start
    BY <2>1 DEF Start, KeyInv, HeadKnown, ghosts
  <2>2. CASE ~Start
    BY <2>2 DEF HostReads, ReadTxHead, ReadTxTail, Display, TailRead, TailLo, TailHi, NoKey,
                ReadRxHead, ReadRxTail, HeadRead, Stop, rx, ghosts
  <2> QED BY <2>1, <2>2
<1>2. Reading' => Reading /\ cpu' = cpu
  <2>1. CASE TailLo \/ TailHi
    BY <2>1, WriteKeepsReader DEF TailLo, TailHi
  <2>2. CASE ~TailLo /\ ~TailHi
    <3>1. cpu' = cpu
      BY <2>2 DEF HostReads, ReadTxHead, ReadTxTail, Display, TailRead, NoKey, ReadRxHead,
                  ReadRxTail, HeadRead, Stop, Start
    <3> QED BY <3>1 DEF Reading
  <2> QED BY <2>1, <2>2
<1>3. /\ host'.at = "head_lo" <=> HeadRead
      /\ HeadRead => host.at = "head_read" /\ host'.head = host.head /\ host'.current = rx_tail
      /\ host'.at = "rx_tail" => host'.head = rx_head
      /\ host'.at = "rx_buf" => host.at = "rx_tail" /\ host'.head = host.head
                                 /\ After(host.head) # rx_tail
      /\ host'.at \notin {"rx_next", "head_read", "head_hi"}
      /\ host'.at \in {"loader", "clear"} => host.at \in {"loader", "clear"}
      /\ host.at \in {"rx_next", "head_read", "head_lo"} => HeadRead
  <2>1. host \in [at : HostPlaces, head : Slots, tail : Slots, current : Slots]
    BY DEF TypeOK
  <2>2. CASE HeadRead
    BY <2>1, <2>2 DEF HeadRead
  <2>3. CASE ReadRxHead \/ ReadRxTail
    BY <2>1, <2>3 DEF ReadRxHead, ReadRxTail, HeadRead, HostGoes
  <2>4. CASE ReadTxHead \/ ReadTxTail \/ NoKey
    BY <2>1, <2>4 DEF ReadTxHead, ReadTxTail, NoKey, HeadRead, HostGoes
  <2>5. CASE Display \/ TailRead \/ TailLo \/ TailHi
    BY <2>1, <2>5 DEF Display, TailRead, TailLo, TailHi, HeadRead, HostGoes
  <2>6. CASE Stop \/ Start
    BY <2>1, <2>6 DEF Stop, Start, HeadRead, HostGoes
  <2> QED BY <2>2, <2>3, <2>4, <2>5, <2>6 DEF HostReads
<1>4. Storing' = Storing /\ Published' = Published
  BY <1>1, <1>3 DEF Storing, Published, HeadRead
<1>5. Behind(rx_tail)' = Behind(rx_tail)
  BY <1>1 DEF Behind
<1>6. HeadKnown'
  BY <1>1, <1>3, <1>4 DEF KeyInv, HeadKnown, Storing
<1>7. KeysInPlace'
  BY <1>1, <1>4 DEF KeyInv, KeysInPlace, Behind
<1>8. TailInRange'
  <2>1. host'.at = "rx_buf" => Behind(rx_tail) # Size - 1
    <3>1. rx_head \in Slots /\ rx_tail \in Slots
      BY DEF TypeOK
    <3>2. host'.at = "rx_buf" => After(rx_head) # rx_tail
      BY <1>3 DEF KeyInv, HeadKnown
    <3> QED BY <3>1, <3>2, AfterIs DEF Behind, Slots
  <2>2. TailInRange
    BY DEF KeyInv
  <2> QED BY <1>1, <1>4, <1>5, <2>1, <2>2 DEF TailInRange
<1>9. CurrentBehind'
  <2>1. CASE HeadRead
    <3>1. Behind(host.current)' = Behind(rx_tail)
      BY <1>1, <1>3, <2>1 DEF Behind
    <3>2. Behind(rx_tail) \in Int /\ Behind(rx_tail) <= Published /\ Behind(rx_tail) # Size - 1
      BY <1>3, <2>1, Distances DEF KeyInv, TailInRange, Storing, Slots
    <3> QED BY <1>3, <1>4, <1>5, <2>1, <3>1, <3>2 DEF CurrentBehind
  <2>2. CASE ~HeadRead
    BY <1>3, <2>2 DEF CurrentBehind
  <2> QED BY <2>1, <2>2
<1> QED BY <1>1, <1>2, <1>4, <1>6, <1>7, <1>8, <1>9, ReaderKept DEF KeyInv

\* The key goes to the slot at RX_HEAD, which holds no published key, and the slot's
\* neighbour in its 64-bit word is written back as it is.
LEMMA StoreKeepsKeys ==
  ASSUME TypeOK, TypeOK', KeyInv, WriteRxBuf \/ WriteNeighbour
  PROVE  KeyInv'
<1>1. /\ UNCHANGED <<rx_head, rx_tail, seen>>
      /\ Reading' => Reading /\ cpu' = cpu
  BY WriteKeepsReader DEF WriteRxBuf, WriteNeighbour, rx
<1>2. /\ host'.head = host.head /\ host'.at \in {"rx_next", "head_read"} /\ Storing'
      /\ host.at = "rx_buf" \/ Storing
      /\ host.head = rx_head
  BY DEF WriteRxBuf, WriteNeighbour, HostGoes, TypeOK, Storing, KeyInv, HeadKnown
<1>3. Published' = Published /\ Behind(rx_tail)' = Behind(rx_tail)
      /\ typed' > 0 /\ rx_buf'[rx_head] = typed'
  <2>1. rx_head \in Slots /\ rx_buf \in [Slots -> 0..MaxIn] /\ typed \in Nat
    BY DEF TypeOK
  <2>2. host.head = rx_head
    BY DEF KeyInv, HeadKnown, WriteRxBuf, WriteNeighbour, Storing
  <2>3. CASE WriteRxBuf
    <3>1. typed' = typed + 1 /\ rx_buf' = [rx_buf EXCEPT ![rx_head] = typed + 1] /\ ~Storing
      BY <2>2, <2>3 DEF WriteRxBuf, Storing
    <3> QED BY <1>1, <1>2, <2>1, <3>1 DEF Published, Behind
  <2>4. CASE WriteNeighbour
    <3>1. typed' = typed /\ rx_buf' = rx_buf /\ Storing
      BY <2>4 DEF WriteNeighbour, rx, Storing
    <3> QED BY <1>1, <1>2, <2>1, <3>1 DEF Published, Behind, KeyInv, HeadKnown
  <2> QED BY <2>3, <2>4
<1>4. HeadKnown'
  BY <1>1, <1>2, <1>3 DEF KeyInv, HeadKnown
<1>5. KeysInPlace'
  <2>1. \A s \in Slots : s # rx_head => rx_buf'[s] = rx_buf[s]
    BY DEF WriteRxBuf, WriteNeighbour, rx, KeyInv, HeadKnown, TypeOK
  <2>2. Behind(rx_head) = 0 /\ \A s \in Slots : Behind(s)' = Behind(s)
    BY <1>1 DEF Behind, TypeOK, Slots
  <2> QED BY <1>1, <1>3, <2>1, <2>2 DEF KeyInv, KeysInPlace
<1>6. TailInRange'
  BY <1>1, <1>2, <1>3 DEF KeyInv, TailInRange
<1>7. CurrentBehind'
  BY <1>2 DEF CurrentBehind
<1> QED BY <1>1, <1>3, <1>4, <1>5, <1>6, <1>7, ReaderKept DEF KeyInv

\* A slot other than the new head's is one further behind it.
LEMMA HeadMoves ==
  ASSUME TypeOK, rx_head' = After(rx_head), NEW s \in Slots, Behind(s) # Size - 1
  PROVE  (IF s <= rx_head' THEN rx_head' - s ELSE rx_head' - s + Size) = Behind(s) + 1
<1>1. rx_head \in Slots
  BY DEF TypeOK
<1>2. rx_head' = IF rx_head + 1 = Size THEN 0 ELSE rx_head + 1
  BY <1>1, AfterIs
<1> QED BY <1>1, <1>2 DEF Behind, Slots

\* The store of RX_HEAD publishes the key.
LEMMA HeadLoKeys ==
  ASSUME TypeOK, TypeOK', KeyInv, HeadLo
  PROVE  KeyInv'
<1>1. /\ UNCHANGED <<rx_buf, rx_tail, seen, typed>> /\ rx_head' = After(rx_head)
      /\ Reading' => Reading /\ cpu' = cpu
      /\ host.at = "head_lo" /\ host'.at = "head_hi" /\ host'.current = host.current
  BY WriteKeepsReader DEF HeadLo, HostGoes, KeyInv, HeadKnown, Storing, TypeOK
<1>2. Published' = Published + 1 /\ ~Storing' /\ Storing
  BY <1>1 DEF Published, Storing, TypeOK
<1>3. /\ Behind(rx_tail) # Size - 1 /\ Behind(host.current) # Size - 1
      /\ Behind(rx_tail) <= Published /\ Published <= seen + Behind(rx_tail)
      /\ Behind(rx_tail) <= Behind(host.current) /\ Behind(host.current) <= Published
  BY <1>1, <1>2 DEF KeyInv, TailInRange, CurrentBehind
<1>4. /\ rx_tail \in Slots /\ host.current \in Slots /\ cpu.i \in Slots
      /\ Size \in Int /\ seen \in Int /\ Published \in Int
      /\ Behind(rx_tail) \in Slots /\ Behind(host.current) \in Slots /\ Behind(cpu.i) \in Slots
      /\ \A s \in Slots : Behind(s) \in Slots
  BY Distances DEF TypeOK
<1>5. Behind(rx_tail)' = Behind(rx_tail) + 1
      /\ Behind(host.current)' = Behind(host.current) + 1
  BY <1>1, <1>3, <1>4, HeadMoves DEF Behind
<1>6. HeadKnown'
  BY <1>1, <1>2 DEF HeadKnown
<1>7. KeysInPlace'
  <2> SUFFICES ASSUME NEW s \in Slots, Behind(s)' # 0, Behind(s)' <= Published'
               PROVE  rx_buf[s] = Published' - Behind(s)' + 1
    BY <1>1 DEF KeysInPlace
  <2>1. CASE Behind(s) = Size - 1
    <3>1. rx_head \in Slots /\ rx_head' = IF rx_head + 1 = Size THEN 0 ELSE rx_head + 1
      BY <1>1, AfterIs DEF TypeOK
    <3>2. s = rx_head'
      BY <2>1, <3>1 DEF Behind, Slots
    <3>3. Behind(s)' = 0
      BY <3>1, <3>2 DEF Behind, Slots
    <3> QED BY <3>3
  <2>2. CASE Behind(s) # Size - 1
    <3>1. Behind(s)' = Behind(s) + 1
      BY <1>1, <2>2, HeadMoves DEF Behind
    <3>2. CASE Behind(s) = 0
      <4>1. s = rx_head
        BY <3>2 DEF Behind, Slots, TypeOK
      <4>2. rx_buf[s] = typed /\ Published = typed - 1
        BY <1>2, <4>1 DEF KeyInv, HeadKnown, Published
      <4> QED BY <1>2, <1>4, <3>1, <3>2, <4>2 DEF TypeOK
    <3>3. CASE Behind(s) # 0
      <4>1. Behind(s) \in Int
        BY <1>4 DEF Slots
      <4>2. Behind(s) <= Published
        BY <1>2, <1>4, <3>1, <4>1
      <4>3. rx_buf[s] = Published - Behind(s) + 1
        BY <3>3, <4>2 DEF KeyInv, KeysInPlace
      <4> QED BY <1>2, <1>4, <3>1, <4>1, <4>3
    <3> QED BY <3>2, <3>3
  <2> QED BY <2>1, <2>2
<1>8. TailInRange'
  <2>1. Behind(rx_tail)' <= Published' /\ Published' <= seen' + Behind(rx_tail)'
    BY <1>1, <1>2, <1>3, <1>4, <1>5 DEF Slots
  <2> QED BY <1>1, <1>2, <2>1 DEF TailInRange
<1>9. CurrentBehind'
  <2>1. Behind(rx_tail)' <= Behind(host.current)' /\ Behind(host.current)' <= Published'
    BY <1>2, <1>3, <1>4, <1>5 DEF Slots
  <2> QED BY <1>1, <2>1 DEF CurrentBehind
<1>10. CpuAhead'
  <2> SUFFICES ASSUME Reading' PROVE CpuAhead'
    BY DEF CpuAhead
  <2>1. cpu' = cpu /\ Reading
    BY <1>1
  <2>2. /\ Behind(cpu.i) <= Behind(rx_tail) /\ Published <= seen + Behind(cpu.i)
        /\ cpu.at = "get_tail" => Published < seen + Behind(cpu.i)
    BY <2>1 DEF KeyInv, CpuAhead
  <2>3. Behind(cpu.i) # Size - 1
    BY <1>3, <1>4, <2>2 DEF Slots
  <2>4. Behind(cpu.i)' = Behind(cpu.i) + 1
    BY <1>1, <1>4, <2>1, <2>3, HeadMoves DEF Behind
  <2>5. /\ Behind(cpu.i)' <= Behind(rx_tail)' /\ Published' <= seen' + Behind(cpu.i)'
        /\ Behind(cpu.i)' # 0
        /\ cpu'.at = "get_tail" => Published' < seen' + Behind(cpu.i)'
    BY <1>1, <1>2, <1>4, <1>5, <2>1, <2>2, <2>4 DEF Slots
  <2> QED BY <2>5 DEF CpuAhead
<1> QED BY <1>6, <1>7, <1>8, <1>9, <1>10 DEF KeyInv

\* The write-back of RX_TAIL moves it to where it was, or back.
LEMMA HeadHiKeys ==
  ASSUME TypeOK, TypeOK', KeyInv, HeadHi
  PROVE  KeyInv'
<1>1. /\ UNCHANGED <<rx_buf, rx_head, seen, typed>> /\ rx_tail' = host.current
      /\ Reading' => Reading /\ cpu' = cpu
      /\ host.at = "head_hi" /\ host'.at = "tx_head"
  BY WriteKeepsReader DEF HeadHi, HostGoes, TypeOK
<1>2. Published' = Published /\ ~Storing'
      /\ Behind(rx_tail)' = Behind(host.current)
  BY <1>1 DEF Published, Storing, Behind
<1>3. /\ Behind(rx_tail) <= Behind(host.current) /\ Behind(host.current) <= Published
      /\ Published <= seen + Behind(rx_tail)
  BY <1>1 DEF KeyInv, CurrentBehind, TailInRange
<1>4. /\ Behind(rx_tail) \in Int /\ Behind(host.current) \in Int /\ Behind(cpu.i) \in Int
      /\ Published \in Int /\ seen \in Int
  BY Distances DEF Slots
<1>5. HeadKnown'
  BY <1>1, <1>2 DEF HeadKnown
<1>6. KeysInPlace'
  BY <1>1, <1>2 DEF KeyInv, KeysInPlace, Behind
<1>7. TailInRange'
  BY <1>1, <1>2, <1>3, <1>4 DEF TailInRange
<1>8. CurrentBehind'
  BY <1>1 DEF CurrentBehind
<1>9. CpuAhead'
  <2> SUFFICES ASSUME Reading' PROVE CpuAhead'
    BY DEF CpuAhead
  <2>1. cpu' = cpu /\ Reading /\ Behind(cpu.i)' = Behind(cpu.i)
    BY <1>1 DEF Behind
  <2>2. Behind(cpu.i) <= Behind(rx_tail)
    BY <2>1 DEF KeyInv, CpuAhead
  <2>3. Behind(cpu.i)' <= Behind(rx_tail)'
    BY <1>2, <1>3, <1>4, <2>1, <2>2
  <2> QED BY <1>1, <1>2, <2>1, <2>3 DEF KeyInv, CpuAhead
<1> QED BY <1>5, <1>6, <1>7, <1>8, <1>9 DEF KeyInv

LEMMA StepKeys ==
  ASSUME TypeOK, TypeOK', KeyInv, [Next]_vars
  PROVE  KeyInv'
<1>1. CASE CpuStep
  BY <1>1, CpuLoadsKeys, PublishKeys DEF CpuStep, CpuStores
<1>2. CASE HostStep
  BY <1>2, HostReadsKeys, StoreKeepsKeys, HeadLoKeys, HeadHiKeys DEF HostStep, Loop, HostReads
<1>3. CASE UNCHANGED vars
  BY <1>3 DEF vars, tx, rx, ghosts, KeyInv, HeadKnown, KeysInPlace, TailInRange, CpuAhead,
              CurrentBehind, Behind, Storing, Published, Reading
<1> QED BY <1>1, <1>2, <1>3 DEF Next

\* For every size of the ring: the program reads the keys the ring accepted in order,
\* perhaps some of them again, and misses none, however the host's write-back of
\* RX_TAIL (host/src/pcie_vfio.c:41-48) and the stores the memory drops interfere.
THEOREM NoKeySkipped == Spec => NothingSkipped
<1>1. TypeOK /\ TypeOK' /\ KeyInv /\ [Next]_vars => KeyInv'
  BY StepKeys
<1>2. TypeOK /\ KeyInv /\ [Next]_vars => [got' # got => got' <= seen + 1 /\ got' > 0]_vars
  <2> SUFFICES ASSUME TypeOK, KeyInv, Next, got' # got
               PROVE  got' <= seen + 1 /\ got' > 0
    BY DEF vars, ghosts
  <2>1. GetBuf
    BY DEF Next, CpuStep, CpuLoads, CpuStores, HostStep, Loop, PutHead, PutWait, PutBuf,
           PutPublish, GetTail, GetWait, GetPoll, GetPublish, ReadTxHead, ReadTxTail,
           Display, TailRead, TailLo, TailHi, NoKey, ReadRxHead, ReadRxTail, WriteRxBuf,
           WriteNeighbour, HeadRead, HeadLo, HeadHi, Stop, Start, ghosts
  <2> QED BY <2>1, NextKey DEF GetBuf
<1> QED BY <1>1, <1>2, InitKeys, TypesHold, PTL DEF Spec, NothingSkipped

=============================================================================
