------------------------------ MODULE HostPort ------------------------------
(***************************************************************************)
(* What the host may assume of the BAR: it has one 64-bit access under way *)
(* at a time, each is carried out as two 32-bit accesses, the low word     *)
(* first, somewhere between its request and its answer, and a read is      *)
(* answered with the two words found there.  The CPU stores in between.    *)
(* AxiBridge, the RTL from the AXI-Lite port to the data memory, is        *)
(* checked to implement it.                                                *)
(***************************************************************************)
CONSTANTS Words,      \* 32-bit words of the memory
          NextWord,   \* the word after each word
          Value       \* contents of a word

VARIABLES hmem,       \* the memory
          stage,      \* progress of the access: idle, lo, hi, answer
          request,    \* the access under way, or the last one
          got,        \* the words read so far
          reply       \* the last read answer

hvars == <<hmem, stage, request, got, reply>>

Data == [lo : Value, hi : Value]
Request == [op : {"read", "write"}, addr : Words, data : Data, strobed : BOOLEAN]

Init ==
  /\ hmem \in [Words -> Value]
  /\ stage = "idle" /\ request \in Request /\ got \in Data /\ reply \in Data

\* The CPU stores a word, or not.
CpuStores(mem) ==
  hmem' \in {mem} \cup {[mem EXCEPT ![w] = v] : w \in Words, v \in Value}

Issue ==
  /\ stage = "idle" /\ stage' = "lo"
  /\ request' \in Request
  /\ CpuStores(hmem)
  /\ UNCHANGED <<got, reply>>

\* One half of a write takes the memory port for itself; a read shares it.
Half(half, word, next) ==
  /\ stage = half /\ stage' = next
  /\ IF request.op = "write"
     THEN /\ request.strobed
          /\ hmem' = [hmem EXCEPT ![word] = request.data[half]]
          /\ UNCHANGED got
     ELSE got' = [got EXCEPT ![half] = hmem[word]] /\ CpuStores(hmem)
  /\ UNCHANGED <<request, reply>>

Lo == Half("lo", request.addr, "hi")
Hi == Half("hi", NextWord[request.addr], "answer")

Answer ==
  /\ stage = "answer" /\ stage' = "idle"
  /\ reply' = IF request.op = "read" THEN got ELSE reply
  /\ CpuStores(hmem)
  /\ UNCHANGED <<request, got>>

Store == CpuStores(hmem) /\ UNCHANGED <<stage, request, got, reply>>

Next == Issue \/ Lo \/ Hi \/ Answer \/ Store

Spec == Init /\ [][Next]_hvars

\* Every access that writes something or reads is answered.
Answered == stage # "idle" /\ (request.op = "read" \/ request.strobed) ~> stage = "idle"
=============================================================================
