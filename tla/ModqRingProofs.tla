--------------------------- MODULE ModqRingProofs ----------------------------
(* The MODQ ring for every depth, SID width and number of submissions. *)
EXTENDS ModqRing, FiniteSetTheorems, SequenceTheorems, TLAPS

-----------------------------------------------------------------------------
(* Arithmetic *)

LEMMA DivMod ==
    ASSUME NEW n \in Nat, NEW m \in Nat \ {0}
    PROVE  /\ n % m \in 0 .. m - 1 /\ n \div m \in Nat
           /\ n = m * (n \div m) + (n % m)
OBVIOUS

LEMMA ModUnique ==
    ASSUME NEW m \in Nat \ {0}, NEW q \in Nat, NEW r \in 0 .. m - 1
    PROVE  (m * q + r) % m = r
OBVIOUS

LEMMA NextMod ==
    ASSUME NEW n \in Nat, NEW m \in Nat \ {0}
    PROVE  ((n % m) + 1) % m = (n + 1) % m
<1> DEFINE q == n \div m
           r == n % m
<1>1. r \in 0 .. m - 1 /\ q \in Nat /\ n = m * q + r
  BY DivMod
<1> HIDE DEF q, r
<1>2. CASE r + 1 < m
  <2>1. n + 1 = m * q + (r + 1) /\ r + 1 = m * 0 + (r + 1) /\ r + 1 \in 0 .. m - 1
    BY <1>1, <1>2
  <2>2. (n + 1) % m = r + 1
    BY <1>1, <2>1, ModUnique
  <2>3. (r + 1) % m = r + 1
    BY <2>1, ModUnique
  <2> QED BY <2>2, <2>3 DEF r
<1>3. CASE r + 1 = m
  <2>1. n + 1 = m * (q + 1) + 0 /\ r + 1 = m * 1 + 0 /\ q + 1 \in Nat /\ 0 \in 0 .. m - 1
    BY <1>1, <1>3
  <2>2. (n + 1) % m = 0
    BY <2>1, ModUnique
  <2>3. (r + 1) % m = 0
    BY <2>1, ModUnique
  <2> QED BY <2>2, <2>3 DEF r
<1>4. r + 1 < m \/ r + 1 = m
  BY <1>1
<1> QED BY <1>2, <1>3, <1>4 DEF r

\* Numbers less than m apart have different remainders.
LEMMA ModInjective ==
    ASSUME NEW m \in Nat \ {0}, NEW a \in Nat, NEW b \in Nat, a <= b, b < a + m, a % m = b % m
    PROVE  a = b
<1> DEFINE p == a \div m
           q == b \div m
           r == a % m
<1>1. a = m * p + r /\ b = m * q + r /\ p \in Nat /\ q \in Nat /\ r \in Nat
  <2>1. a = m * p + r /\ p \in Nat /\ r \in 0 .. m - 1
    BY DivMod
  <2>2. b = m * q + (b % m) /\ q \in Nat
    BY DivMod
  <2>3. b % m = r
    OBVIOUS
  <2> HIDE DEF p, q, r
  <2> QED BY <2>1, <2>2, <2>3
<1> HIDE DEF p, q, r
<1>2. CASE q = p
  BY <1>1, <1>2
<1>3. CASE q > p
  <2>1. m * q >= m * (p + 1)
    BY <1>1, <1>3
  <2>2. m * (p + 1) = m * p + m
    BY <1>1
  <2> QED BY <1>1, <2>1, <2>2
<1>4. CASE q < p
  <2>1. m * p >= m * (q + 1)
    BY <1>1, <1>4
  <2>2. m * (q + 1) = m * q + m
    BY <1>1
  <2> QED BY <1>1, <2>1, <2>2
<1> QED BY <1>1, <1>2, <1>3, <1>4

-----------------------------------------------------------------------------
(* Types *)

LEMMA IndexInSlots == \A n \in Nat : Index(n) \in Slots
BY DepthPositive DEF Index, Slots

LEMMA TypesInit == Init => TypeOK
BY DepthPositive, SidsOutnumberSlots DEF Init, TypeOK, Status, Slots

LEMMA TypesNext == TypeOK /\ [Next]_ringVars => TypeOK'
<1> SUFFICES ASSUME TypeOK, [Next]_ringVars PROVE TypeOK'
  OBVIOUS
<1> USE DEF TypeOK, hostVars, devVars
<1>0. /\ Index(tail) \in Slots /\ Index(head) \in Slots /\ Index(devHead) \in Slots
      /\ Depth \in Nat /\ SidMod \in Nat \ {0}
  <2>1. Depth \in Nat /\ SidMod \in Nat \ {0}
    BY DepthPositive, SidsOutnumberSlots
  <2>2. tail \in Nat /\ head \in Nat /\ devHead \in Nat
    OBVIOUS
  <2> QED BY <2>1, <2>2, IndexInSlots
<1>1. CASE UNCHANGED ringVars
  <2>1. /\ slots' = slots /\ hpc' = hpc /\ opening' = opening /\ tail' = tail
        /\ nextSid' = nextSid /\ head' = head /\ dpc' = dpc /\ devHead' = devHead
        /\ received' = received /\ completed' = completed /\ restarts' = restarts
        /\ mode' = mode
    BY <1>1 DEF ringVars, ringState
  <2> QED BY <2>1
<1>2. CASE OpenSlot /\ UNCHANGED mode
  <2>0. opening \in 0 .. Depth /\ opening < Depth /\ opening' = opening + 1
    BY <1>2 DEF OpenSlot
  <2>1. opening \in Slots /\ opening' \in 0 .. Depth
    <3> HIDE DEF TypeOK
    <3> QED BY <1>0, <2>0 DEF Slots
  <2>2. slots' = [slots EXCEPT ![opening].status = "FREE"] /\ "FREE" \in Status
    BY <1>2 DEF OpenSlot, Status
  <2>3. slots' \in [Slots -> [status : Status, sid : 0 .. SidMod - 1, data : Nat]]
    BY <2>1, <2>2
  <2> QED BY <1>2, <2>1, <2>3 DEF OpenSlot
<1>3. CASE OpenDone /\ UNCHANGED mode
  BY <1>3 DEF OpenDone
<1>4. CASE SubmitBegin /\ UNCHANGED mode
  BY <1>4 DEF SubmitBegin
<1>5. CASE Copy /\ UNCHANGED mode
  BY <1>0, <1>5 DEF Copy
<1>6. CASE Timeout /\ UNCHANGED mode
  BY <1>6 DEF Timeout
<1>7. CASE WriteHeader /\ UNCHANGED mode
  BY <1>0, <1>7 DEF WriteHeader
<1>8. CASE Publish /\ UNCHANGED mode
  BY <1>0, <1>8 DEF Publish, Status
<1>9. CASE Advance /\ UNCHANGED mode
  <2>1. (nextSid + 1) % SidMod \in 0 .. SidMod - 1
    BY <1>0
  <2> QED BY <1>9, <2>1 DEF Advance
<1>10. CASE Poll /\ UNCHANGED mode
  <2>1. completed' \in Seq(0 .. SidMod - 1)
    BY <1>0, <1>10 DEF Poll
  <2>2. slots' \in [Slots -> [status : Status, sid : 0 .. SidMod - 1, data : Nat]]
    BY <1>0, <1>10 DEF Poll, Status
  <2>3. /\ hpc' = hpc /\ opening' = opening /\ tail' = tail /\ nextSid' = nextSid
        /\ head' = head + 1 /\ dpc' = dpc /\ devHead' = devHead /\ received' = received
        /\ restarts' = restarts /\ mode' = mode
    BY <1>10 DEF Poll
  <2> QED BY <2>1, <2>2, <2>3
<1>11. CASE Restart /\ UNCHANGED mode
  <2>1. /\ hpc' = "opening" /\ opening' = 0 /\ tail' = 0 /\ nextSid' = 0 /\ head' = 0
        /\ restarts' = restarts + 1 /\ mode' = mode
        /\ slots' = slots /\ received' = received /\ completed' = completed
    BY <1>11 DEF Restart
  <2>2. dpc' \in {"idle", "busy"} /\ devHead' \in Nat
    BY <1>11 DEF Restart
  <2>3. 0 \in 0 .. Depth /\ 0 \in 0 .. SidMod - 1
    BY <1>0
  <2> QED BY <2>1, <2>2, <2>3
<1>12. CASE DevTake /\ UNCHANGED mode
  <2>1. received' \in Seq(Nat)
    BY <1>0, <1>12 DEF DevTake
  <2> QED BY <1>12, <2>1 DEF DevTake
<1>13. CASE DevFinish /\ UNCHANGED mode
  <2>1. PICK st \in Status : slots' = [slots EXCEPT ![Index(devHead)].status = st]
    BY <1>13 DEF DevFinish, Status
  <2>2. slots' \in [Slots -> [status : Status, sid : 0 .. SidMod - 1, data : Nat]]
    BY <1>0, <2>1
  <2>3. /\ hpc' = hpc /\ opening' = opening /\ tail' = tail /\ nextSid' = nextSid
        /\ head' = head /\ dpc' = "idle" /\ devHead' = devHead + 1 /\ received' = received
        /\ completed' = completed /\ restarts' = restarts /\ mode' = mode
    BY <1>13 DEF DevFinish
  <2> QED BY <2>2, <2>3
<1> QED BY <1>1, <1>2, <1>3, <1>4, <1>5, <1>6, <1>7, <1>8, <1>9, <1>10, <1>11, <1>12, <1>13
        DEF Next, Host

-----------------------------------------------------------------------------
(* A slot the device may read is whole *)

\* The inductive strengthening of ReadyIsCoherent: the SID counter follows the
\* tail, and while submit is between its copy and its status write, the slot
\* it fills is hidden from the device and already holds what was written.
Coherence ==
    /\ nextSid = tail % SidMod
    /\ hpc \in {"copied", "tagged"} =>
           slots[Index(tail)].status # "READY" /\ slots[Index(tail)].data = tail
    /\ hpc = "tagged" => slots[Index(tail)].sid = nextSid
    /\ ReadyIsCoherent

LEMMA CoherenceInit == Init => Coherence
<1> SUFFICES ASSUME Init PROVE Coherence
  OBVIOUS
<1>1. 0 % SidMod = 0
  BY DepthPositive, SidsOutnumberSlots
<1> QED BY <1>1 DEF Init, Coherence, ReadyIsCoherent

LEMMA CoherenceNext == TypeOK /\ Coherence /\ [Next]_ringVars => Coherence'
<1> SUFFICES ASSUME TypeOK, Coherence, [Next]_ringVars PROVE Coherence'
  OBVIOUS
<1> USE DEF Coherence, ReadyIsCoherent, hostVars, devVars
<1>0. /\ Index(tail) \in Slots /\ Index(head) \in Slots /\ Index(devHead) \in Slots
      /\ slots \in [Slots -> [status : Status, sid : 0 .. SidMod - 1, data : Nat]]
      /\ tail \in Nat /\ nextSid \in Nat /\ SidMod \in Nat \ {0}
  <2>1. tail \in Nat /\ head \in Nat /\ devHead \in Nat
    BY DEF TypeOK
  <2>2. SidMod \in Nat \ {0}
    BY DepthPositive, SidsOutnumberSlots
  <2>3. nextSid \in Nat
    BY <2>2 DEF TypeOK
  <2> QED BY <2>1, <2>2, <2>3, IndexInSlots DEF TypeOK
<1>1. CASE UNCHANGED ringVars
  <2>1. slots' = slots /\ hpc' = hpc /\ tail' = tail /\ nextSid' = nextSid
    BY <1>1 DEF ringVars, ringState
  <2> QED BY <2>1 DEF Index
<1>2. CASE OpenSlot
  <2>1. hpc = "opening" /\ slots' = [slots EXCEPT ![opening].status = "FREE"]
        /\ hpc' = hpc /\ tail' = tail /\ nextSid' = nextSid
    BY <1>2 DEF OpenSlot
  <2>2. \A i \in Slots : /\ slots'[i].data = slots[i].data /\ slots'[i].sid = slots[i].sid
                         /\ slots'[i].status = "READY" => slots[i].status = "READY"
    BY <1>0, <2>1
  <2>3. ReadyIsCoherent'
    BY <2>2 DEF Index
  <2> QED BY <2>1, <2>3
<1>3. CASE OpenDone \/ SubmitBegin \/ Timeout
  <2>1. slots' = slots /\ hpc' \notin {"copied", "tagged"} /\ tail' = tail /\ nextSid' = nextSid
    BY <1>3 DEF OpenDone, SubmitBegin, Timeout
  <2> QED BY <2>1 DEF Index
<1>4. CASE Copy
  <2>1. /\ slots[Index(tail)].status = "FREE" /\ hpc' = "copied"
        /\ slots' = [slots EXCEPT ![Index(tail)].data = tail]
        /\ tail' = tail /\ nextSid' = nextSid
    BY <1>4 DEF Copy
  <2>2. Index(tail)' = Index(tail)
    BY <2>1 DEF Index
  <2>3. slots'[Index(tail)].status = "FREE" /\ slots'[Index(tail)].data = tail
    BY <1>0, <2>1
  <2>4. \A i \in Slots : i # Index(tail) => slots'[i] = slots[i]
    BY <1>0, <2>1
  <2>5. ReadyIsCoherent'
    BY <2>3, <2>4 DEF Index
  <2> QED BY <2>1, <2>2, <2>3, <2>5
<1>5. CASE WriteHeader
  <2>1. /\ hpc = "copied" /\ hpc' = "tagged"
        /\ slots' = [slots EXCEPT ![Index(tail)].sid = nextSid]
        /\ tail' = tail /\ nextSid' = nextSid
    BY <1>5 DEF WriteHeader
  <2>2. Index(tail)' = Index(tail)
    BY <2>1 DEF Index
  <2>3. /\ slots'[Index(tail)].status # "READY" /\ slots'[Index(tail)].data = tail
        /\ slots'[Index(tail)].sid = nextSid
    BY <1>0, <2>1
  <2>4. \A i \in Slots : i # Index(tail) => slots'[i] = slots[i]
    BY <1>0, <2>1
  <2>5. ReadyIsCoherent'
    BY <2>3, <2>4 DEF Index
  <2> QED BY <2>1, <2>2, <2>3, <2>5
<1>6. CASE Publish
  <2>1. /\ hpc = "tagged" /\ hpc' = "published"
        /\ slots' = [slots EXCEPT ![Index(tail)].status = "READY"]
        /\ tail' = tail /\ nextSid' = nextSid
    BY <1>6 DEF Publish
  <2>2. slots'[Index(tail)].data = tail /\ slots'[Index(tail)].sid = tail % SidMod
    BY <1>0, <2>1
  <2>3. \A i \in Slots : i # Index(tail) => slots'[i] = slots[i]
    BY <1>0, <2>1
  <2>4. ReadyIsCoherent'
    BY <2>2, <2>3 DEF Index
  <2> QED BY <2>1, <2>4
<1>7. CASE Advance
  <2>1. hpc' = "idle" /\ slots' = slots /\ tail' = tail + 1 /\ nextSid' = (nextSid + 1) % SidMod
    BY <1>7 DEF Advance
  <2>2. ((tail % SidMod) + 1) % SidMod = (tail + 1) % SidMod
    BY <1>0, NextMod
  <2>3. ReadyIsCoherent'
    BY <2>1 DEF Index
  <2> QED BY <2>1, <2>2, <2>3
<1>8. CASE Poll
  <2>1. /\ hpc = "idle" /\ hpc' = hpc /\ tail' = tail /\ nextSid' = nextSid
        /\ slots' = [slots EXCEPT ![Index(head)].status = "FREE"]
    BY <1>8 DEF Poll
  <2> QED BY <1>0, <2>1 DEF Index
<1>9. CASE Restart
  <2>1. hpc' = "opening" /\ slots' = slots /\ tail' = 0 /\ nextSid' = 0
    BY <1>9 DEF Restart
  <2>2. 0 % SidMod = 0
    BY <1>0
  <2>3. ReadyIsCoherent'
    BY <2>1 DEF Index
  <2> QED BY <2>1, <2>2, <2>3
<1>10. CASE DevTake
  <2>1. slots' = slots /\ hpc' = hpc /\ tail' = tail /\ nextSid' = nextSid
    BY <1>10 DEF DevTake
  <2> QED BY <2>1 DEF Index
<1>11. CASE DevFinish
  <2>1. PICK st \in {"FREE", "DONE"} : slots' = [slots EXCEPT ![Index(devHead)].status = st]
    BY <1>11 DEF DevFinish
  <2>2. hpc' = hpc /\ tail' = tail /\ nextSid' = nextSid /\ Index(tail)' = Index(tail)
    BY <1>11 DEF DevFinish, Index
  <2>3. \A i \in Slots : /\ slots'[i].data = slots[i].data /\ slots'[i].sid = slots[i].sid
                         /\ slots'[i].status = "READY" => slots[i].status = "READY"
    BY <1>0, <2>1
  <2>4. ReadyIsCoherent'
    BY <2>3 DEF Index
  <2> QED BY <1>0, <2>2, <2>3, <2>4
<1> QED BY <1>1, <1>2, <1>3, <1>4, <1>5, <1>6, <1>7, <1>8, <1>9, <1>10, <1>11 DEF Next, Host

\* Registers, slots and counters keep their types, for every depth and SID
\* width; in particular nextSid never leaves the width of the SID register.
THEOREM TypeCorrect == Spec => []TypeOK
BY TypesInit, TypesNext, PTL DEF Spec

\* Whatever the ring depth and the SID width, and however often the host dies
\* between two of its writes, the device never finds a READY slot whose
\* payload and SID belong to different submissions.
THEOREM ReadyAlwaysCoherent == Spec => []ReadyIsCoherent
<1>1. Init => TypeOK /\ Coherence
  BY TypesInit, CoherenceInit
<1>2. TypeOK /\ Coherence /\ [Next]_ringVars => (TypeOK /\ Coherence)'
  BY TypesNext, CoherenceNext
<1>3. Coherence => ReadyIsCoherent
  BY DEF Coherence
<1> QED BY <1>1, <1>2, <1>3, PTL DEF Spec

-----------------------------------------------------------------------------
(* Completions are reported in order *)

\* Submissions f .. p - 1 are in the ring, those below d are finished; the
\* rest of the Depth slots from f on are free.
Window(ring, f, d, p) ==
    /\ f <= d /\ d <= p /\ p <= f + Depth
    /\ \A n \in f .. d - 1 : ring[Index(n)].status = "DONE"
    /\ \A n \in d .. p - 1 : ring[Index(n)].status = "READY"
    /\ \A n \in p .. f + Depth - 1 : ring[Index(n)].status = "FREE"
    /\ \A n \in f .. p - 1 : ring[Index(n)].sid = n % SidMod

\* The submissions the device may see, and those whose slot it (Loopback) or
\* poll (PciBar) has freed again.
Published == IF hpc = "published" THEN tail + 1 ELSE tail
Freed == IF mode.transport = "Loopback" THEN devHead ELSE head

\* The inductive strengthening of CompletionsInOrder for one host process.
Order ==
    /\ Window(slots, Freed, devHead, Published)
    /\ dpc = "busy" => devHead < Published
    /\ hpc \in {"copied", "tagged"} => tail < Freed + Depth
    /\ hpc = "opening" => tail = 0
    /\ mode.transport = "Loopback" => head = 0 /\ \A i \in Slots : slots[i].status # "DONE"
    /\ Len(received) = devHead + Busy
    /\ Len(completed) = head
    /\ \A i \in 1 .. head : completed[i] = (i - 1) % SidMod

\* Slots of submissions less than Depth apart differ; Depth apart they agree.
LEMMA IndexApart ==
    \A m, n \in Nat : m # n /\ n < m + Depth /\ m < n + Depth => Index(m) # Index(n)
<1> SUFFICES ASSUME NEW m \in Nat, NEW n \in Nat, n < m + Depth, m < n + Depth, Index(m) = Index(n)
             PROVE  m = n
  OBVIOUS
<1>1. Depth \in Nat \ {0} /\ m % Depth = n % Depth
  BY DepthPositive DEF Index
<1>2. CASE m <= n
  BY <1>1, <1>2, ModInjective
<1>3. CASE n <= m
  BY <1>1, <1>3, ModInjective
<1> QED BY <1>2, <1>3

LEMMA IndexAround == \A n \in Nat : Index(n + Depth) = Index(n)
<1> SUFFICES ASSUME NEW n \in Nat PROVE (n + Depth) % Depth = n % Depth
  BY DEF Index
<1> DEFINE q == n \div Depth
           r == n % Depth
<1>1. Depth \in Nat \ {0}
  BY DepthPositive
<1>2. q \in Nat /\ r \in 0 .. Depth - 1 /\ n = Depth * q + r
  BY <1>1, DivMod
<1> HIDE DEF q, r
<1>3. n + Depth = Depth * (q + 1) + r /\ q + 1 \in Nat
  BY <1>1, <1>2
<1>4. (n + Depth) % Depth = r
  BY <1>1, <1>2, <1>3, ModUnique
<1> QED BY <1>4 DEF r

\* What one write to a slot does to the window, the other slots untouched.
Elsewhere(ring, ring2, i) == \A j \in Slots \ {i} : ring2[j] = ring[j]

LEMMA WindowSame ==
    ASSUME NEW ring, NEW ring2, NEW f \in Nat, NEW d \in Nat, NEW p \in Nat,
           Window(ring, f, d, p),
           \A j \in Slots : ring2[j].status = ring[j].status /\ ring2[j].sid = ring[j].sid
    PROVE  Window(ring2, f, d, p)
BY DepthPositive, IndexInSlots DEF Window

LEMMA WindowHeader ==
    ASSUME NEW ring, NEW ring2, NEW f \in Nat, NEW d \in Nat, NEW p \in Nat,
           Window(ring, f, d, p), p < f + Depth,
           Elsewhere(ring, ring2, Index(p)), ring2[Index(p)].status = ring[Index(p)].status
    PROVE  Window(ring2, f, d, p)
<1>1. \A n \in f .. f + Depth - 1 : n # p => ring2[Index(n)] = ring[Index(n)]
  BY DepthPositive, IndexInSlots, IndexApart DEF Elsewhere, Window
<1> QED BY <1>1, DepthPositive DEF Window

LEMMA WindowPublish ==
    ASSUME NEW ring, NEW ring2, NEW f \in Nat, NEW d \in Nat, NEW p \in Nat,
           Window(ring, f, d, p), p < f + Depth, Elsewhere(ring, ring2, Index(p)),
           ring2[Index(p)].status = "READY", ring2[Index(p)].sid = p % SidMod
    PROVE  Window(ring2, f, d, p + 1)
<1>1. \A n \in f .. f + Depth - 1 : n # p => ring2[Index(n)] = ring[Index(n)]
  BY DepthPositive, IndexInSlots, IndexApart DEF Elsewhere, Window
<1> QED BY <1>1, DepthPositive DEF Window

LEMMA WindowFinish ==
    ASSUME NEW ring, NEW ring2, NEW f \in Nat, NEW d \in Nat, NEW p \in Nat,
           Window(ring, f, d, p), d < p, Elsewhere(ring, ring2, Index(d)),
           ring2[Index(d)].status = "DONE", ring2[Index(d)].sid = ring[Index(d)].sid
    PROVE  Window(ring2, f, d + 1, p)
<1>1. \A n \in f .. f + Depth - 1 : n # d => ring2[Index(n)] = ring[Index(n)]
  BY DepthPositive, IndexInSlots, IndexApart DEF Elsewhere, Window
<1> QED BY <1>1, DepthPositive DEF Window

\* A slot freed by poll (c = d) or by the simulated consumer (c = d + 1).
LEMMA WindowFree ==
    ASSUME NEW ring, NEW ring2, NEW f \in Nat, NEW d \in Nat, NEW p \in Nat, NEW c \in {d, d + 1},
           Window(ring, f, d, p), f < p, f < c, c = d + 1 => f = d,
           Elsewhere(ring, ring2, Index(f)), ring2[Index(f)].status = "FREE"
    PROVE  Window(ring2, f + 1, c, p)
<1>1. \A n \in f .. f + Depth - 1 : n # f => ring2[Index(n)] = ring[Index(n)]
  BY DepthPositive, IndexInSlots, IndexApart DEF Elsewhere, Window
<1>2. ring2[Index(f + Depth)].status = "FREE"
  BY IndexAround
<1> QED BY <1>1, <1>2, DepthPositive DEF Window

LEMMA OrderInit == Init => Order
<1> SUFFICES ASSUME Init PROVE Order
  OBVIOUS
<1>1. Freed = 0 /\ Published = 0 /\ Busy = 0
  BY DEF Init, Freed, Published, Busy
<1>2. Window(slots, 0, 0, 0)
  BY DepthPositive, IndexInSlots DEF Init, Window
<1> QED BY <1>1, <1>2, DepthPositive DEF Init, Order

LEMMA OrderNext ==
    TypeOK /\ Coherence /\ Order /\ FirstHost /\ [Next]_ringVars /\ FirstHost' => Order'
<1> SUFFICES ASSUME TypeOK, Coherence, Order, FirstHost, [Next]_ringVars, FirstHost'
             PROVE  Order'
  OBVIOUS
<1> USE DEF hostVars, devVars
<1>0. /\ Index(tail) \in Slots /\ Index(head) \in Slots /\ Index(devHead) \in Slots
      /\ slots \in [Slots -> [status : Status, sid : 0 .. SidMod - 1, data : Nat]]
      /\ tail \in Nat /\ head \in Nat /\ devHead \in Nat
      /\ Published \in Nat /\ Freed \in Nat /\ Depth \in Nat \ {0}
      /\ received \in Seq(Nat) /\ completed \in Seq(0 .. SidMod - 1)
  <2>1. tail \in Nat /\ head \in Nat /\ devHead \in Nat
    BY DEF TypeOK
  <2>2. Published \in Nat /\ Freed \in Nat
    BY <2>1 DEF Published, Freed
  <2> QED BY <2>1, <2>2, IndexInSlots, DepthPositive DEF TypeOK
<1>1. CASE UNCHANGED ringVars
  <2>1. /\ slots' = slots /\ hpc' = hpc /\ tail' = tail /\ head' = head /\ dpc' = dpc
        /\ devHead' = devHead /\ received' = received /\ completed' = completed /\ mode' = mode
    BY <1>1 DEF ringVars, ringState
  <2>2. Freed' = Freed /\ Published' = Published /\ Busy' = Busy
    BY <2>1 DEF Freed, Published, Busy
  <2>3. Window(slots, Freed, devHead, Published)'
    BY <2>1, <2>2, <1>0, WindowSame DEF Order
  <2> QED BY <2>1, <2>2, <2>3 DEF Order
<1>2. CASE OpenSlot /\ UNCHANGED mode
  <2>1. /\ hpc = "opening" /\ opening \in Slots
        /\ slots' = [slots EXCEPT ![opening].status = "FREE"]
        /\ hpc' = hpc /\ tail' = tail /\ head' = head /\ dpc' = dpc
        /\ devHead' = devHead /\ received' = received /\ completed' = completed /\ mode' = mode
    BY <1>0, <1>2 DEF OpenSlot, TypeOK, Slots
  <2>2. Freed' = Freed /\ Published' = Published /\ Busy' = Busy
    BY <2>1 DEF Freed, Published, Busy
  <2>3. Published = 0 /\ Freed = 0
    <3>1. Published = 0
      BY <2>1 DEF Order, Published
    <3> QED BY <1>0, <3>1 DEF Order, Window
  <2>4. slots[opening].status = "FREE"
    <3>1. opening \in 0 .. Depth - 1
      BY <2>1 DEF Slots
    <3>2. Index(opening) = opening
      <4>1. opening = Depth * 0 + opening
        BY <1>0, <3>1
      <4>2. (Depth * 0 + opening) % Depth = opening
        BY <1>0, <3>1, ModUnique
      <4> QED BY <4>1, <4>2 DEF Index
    <3>3. \A n \in 0 .. 0 + Depth - 1 : slots[Index(n)].status = "FREE"
      BY <2>3 DEF Order, Window
    <3> QED BY <1>0, <3>1, <3>2, <3>3
  <2>5. \A j \in Slots : slots'[j].status = slots[j].status /\ slots'[j].sid = slots[j].sid
    BY <1>0, <2>1, <2>4
  <2>6. Window(slots, Freed, devHead, Published)'
    BY <2>1, <2>2, <2>5, <1>0, WindowSame DEF Order
  <2> QED BY <2>1, <2>2, <2>5, <2>6 DEF Order
<1>3. CASE (OpenDone \/ SubmitBegin \/ Timeout) /\ UNCHANGED mode
  <2>1. /\ slots' = slots /\ hpc # "published" /\ hpc' \in {"idle", "spinning"}
        /\ tail' = tail /\ head' = head /\ dpc' = dpc
        /\ devHead' = devHead /\ received' = received /\ completed' = completed /\ mode' = mode
    BY <1>3 DEF OpenDone, SubmitBegin, Timeout
  <2>2. Freed' = Freed /\ Published' = Published /\ Busy' = Busy
    BY <2>1 DEF Freed, Published, Busy
  <2>3. Window(slots, Freed, devHead, Published)'
    BY <2>1, <2>2, <1>0, WindowSame DEF Order
  <2> QED BY <2>1, <2>2, <2>3 DEF Order
<1>4. CASE Copy /\ UNCHANGED mode
  <2>1. /\ slots[Index(tail)].status = "FREE" /\ hpc = "spinning" /\ hpc' = "copied"
        /\ slots' = [slots EXCEPT ![Index(tail)].data = tail]
        /\ tail' = tail /\ head' = head /\ dpc' = dpc
        /\ devHead' = devHead /\ received' = received /\ completed' = completed /\ mode' = mode
    BY <1>4 DEF Copy
  <2>2. Freed' = Freed /\ Published' = Published /\ Busy' = Busy /\ Published = tail
    BY <2>1 DEF Freed, Published, Busy
  <2>3. \A j \in Slots : slots'[j].status = slots[j].status /\ slots'[j].sid = slots[j].sid
    BY <1>0, <2>1
  <2>4. Window(slots, Freed, devHead, Published)'
    BY <2>1, <2>2, <2>3, <1>0, WindowSame DEF Order
  <2>5. tail < Freed + Depth
    <3> SUFFICES ASSUME tail = Freed + Depth PROVE FALSE
      BY <1>0, <2>2 DEF Order, Window
    <3>1. Index(tail) = Index(Freed)
      BY <1>0, IndexAround
    <3>2. slots[Index(Freed)].status \in {"DONE", "READY"}
      BY <1>0, <2>2 DEF Order, Window
    <3> QED BY <2>1, <3>1, <3>2
  <2> QED BY <2>1, <2>2, <2>3, <2>4, <2>5 DEF Order
<1>5. CASE WriteHeader /\ UNCHANGED mode
  <2>1. /\ hpc = "copied" /\ hpc' = "tagged"
        /\ slots' = [slots EXCEPT ![Index(tail)].sid = nextSid]
        /\ tail' = tail /\ head' = head /\ dpc' = dpc
        /\ devHead' = devHead /\ received' = received /\ completed' = completed /\ mode' = mode
    BY <1>5 DEF WriteHeader
  <2>2. Freed' = Freed /\ Published' = Published /\ Busy' = Busy /\ Published = tail
    BY <2>1 DEF Freed, Published, Busy
  <2>3. /\ Elsewhere(slots, slots', Index(tail))
        /\ \A j \in Slots : slots'[j].status = slots[j].status
    BY <1>0, <2>1 DEF Elsewhere
  <2>4. tail < Freed + Depth
    BY <2>1 DEF Order
  <2>5. Window(slots, Freed, devHead, Published)'
    BY <2>1, <2>2, <2>3, <2>4, <1>0, WindowHeader DEF Order
  <2> QED BY <2>1, <2>2, <2>3, <2>4, <2>5 DEF Order
<1>6. CASE Publish /\ UNCHANGED mode
  <2>1. /\ hpc = "tagged" /\ hpc' = "published"
        /\ slots' = [slots EXCEPT ![Index(tail)].status = "READY"]
        /\ tail' = tail /\ head' = head /\ dpc' = dpc
        /\ devHead' = devHead /\ received' = received /\ completed' = completed /\ mode' = mode
    BY <1>6 DEF Publish
  <2>2. Freed' = Freed /\ Published' = tail + 1 /\ Busy' = Busy /\ Published = tail
    BY <2>1 DEF Freed, Published, Busy
  <2>3. /\ Elsewhere(slots, slots', Index(tail))
        /\ slots'[Index(tail)].status = "READY"
        /\ slots'[Index(tail)].sid = tail % SidMod
    BY <1>0, <2>1 DEF Elsewhere, Coherence
  <2>4. tail < Freed + Depth
    BY <2>1 DEF Order
  <2>5. Window(slots, Freed, devHead, Published)'
    BY <2>1, <2>2, <2>3, <2>4, <1>0, WindowPublish DEF Order
  <2>6. \A j \in Slots : slots'[j].status = "DONE" => slots[j].status = "DONE"
    BY <1>0, <2>1
  <2>7. dpc' = "busy" => devHead' < Published'
    BY <1>0, <2>1, <2>2 DEF Order
  <2>8. mode'.transport = "Loopback" => head' = 0 /\ \A j \in Slots : slots'[j].status # "DONE"
    BY <2>1, <2>6 DEF Order
  <2>9. /\ Len(received') = devHead' + Busy' /\ Len(completed') = head'
        /\ \A j \in 1 .. head' : completed'[j] = (j - 1) % SidMod
    BY <2>1, <2>2 DEF Order
  <2> QED BY <2>1, <2>5, <2>7, <2>8, <2>9 DEF Order
<1>7. CASE Advance /\ UNCHANGED mode
  <2>1. /\ slots' = slots /\ hpc = "published" /\ hpc' = "idle"
        /\ tail' = tail + 1 /\ head' = head /\ dpc' = dpc
        /\ devHead' = devHead /\ received' = received /\ completed' = completed /\ mode' = mode
    BY <1>7 DEF Advance
  <2>2. Freed' = Freed /\ Published' = Published /\ Busy' = Busy
    BY <2>1 DEF Freed, Published, Busy
  <2>3. Window(slots, Freed, devHead, Published)'
    BY <2>1, <2>2, <1>0, WindowSame DEF Order
  <2> QED BY <2>1, <2>2, <2>3 DEF Order
<1>8. CASE Poll /\ UNCHANGED mode
  <2>1. /\ slots[Index(head)].status = "DONE" /\ hpc = "idle" /\ hpc' = hpc
        /\ completed' = Append(completed, slots[Index(head)].sid)
        /\ slots' = [slots EXCEPT ![Index(head)].status = "FREE"]
        /\ tail' = tail /\ head' = head + 1 /\ dpc' = dpc
        /\ devHead' = devHead /\ received' = received /\ mode' = mode
    BY <1>8 DEF Poll
  <2>2. mode.transport # "Loopback"
    BY <1>0, <2>1 DEF Order
  <2>3. Freed = head /\ Freed' = head + 1 /\ Published' = Published /\ Busy' = Busy
    BY <2>1, <2>2 DEF Freed, Published, Busy
  <2>4. Window(slots, head, devHead, Published)
    BY <2>3 DEF Order
  <2>5. head < devHead
    <3>1. CASE head = Published
      <4>1. head \in Published .. head + Depth - 1
        BY <1>0, <3>1
      <4> QED BY <2>1, <2>4, <4>1 DEF Window
    <3>2. CASE head = devHead /\ devHead < Published
      <4>1. head \in devHead .. Published - 1
        BY <1>0, <3>2
      <4> QED BY <2>1, <2>4, <4>1 DEF Window
    <3> QED BY <1>0, <2>4, <3>1, <3>2 DEF Window
  <2>6. slots[Index(head)].sid = head % SidMod
    BY <1>0, <2>4, <2>5 DEF Window
  <2>7. Elsewhere(slots, slots', Index(head)) /\ slots'[Index(head)].status = "FREE"
    BY <1>0, <2>1 DEF Elsewhere
  <2>8. Window(slots', head + 1, devHead, Published)
    <3>1. devHead \in {devHead, devHead + 1} /\ devHead # devHead + 1 /\ head < Published
      BY <1>0, <2>4, <2>5 DEF Window
    <3> QED BY <1>0, <2>4, <2>5, <2>7, <3>1, WindowFree
  <2>9. Window(slots, Freed, devHead, Published)'
    BY <2>1, <2>3, <2>8
  <2>10. /\ Len(completed') = head'
         /\ \A i \in 1 .. head' : completed'[i] = (i - 1) % SidMod
    <3>1. Len(completed) = head /\ \A i \in 1 .. head : completed[i] = (i - 1) % SidMod
      BY DEF Order
    <3>2. slots[Index(head)].sid \in 0 .. SidMod - 1
      BY <1>0
    <3>3. /\ Len(completed') = head + 1 /\ completed'[head + 1] = slots[Index(head)].sid
          /\ \A i \in 1 .. head : completed'[i] = completed[i]
      <4> DEFINE sid == slots[Index(head)].sid
      <4>1. /\ completed \in Seq(0 .. SidMod - 1) /\ sid \in 0 .. SidMod - 1
            /\ completed' = Append(completed, sid) /\ Len(completed) = head
        BY <1>0, <2>1, <3>1, <3>2
      <4> HIDE DEF sid
      <4>2. /\ Len(completed') = head + 1 /\ completed'[head + 1] = sid
            /\ \A i \in 1 .. head : completed'[i] = completed[i]
        <5> DEFINE S == 0 .. SidMod - 1
        <5>1. completed \in Seq(S) /\ sid \in S
          BY <4>1
        <5> HIDE DEF S
        <5> QED BY <1>0, <4>1, <5>1
      <4> QED BY <4>2 DEF sid
    <3>4. ASSUME NEW i \in 1 .. head + 1 PROVE completed'[i] = (i - 1) % SidMod
      <4>1. CASE i \in 1 .. head
        BY <3>1, <3>3, <4>1
      <4>2. CASE i = head + 1
        <5>1. i - 1 = head
          BY <1>0, <4>2
        <5> QED BY <2>6, <3>3, <4>2, <5>1
      <4> QED BY <1>0, <4>1, <4>2
    <3> QED BY <2>1, <3>3, <3>4
  <2> QED BY <2>1, <2>2, <2>3, <2>9, <2>10 DEF Order
<1>9. CASE Restart
  BY <1>9 DEF Restart, FirstHost
<1>10. CASE DevTake /\ UNCHANGED mode
  <2>1. /\ dpc = "idle" /\ slots[Index(devHead)].status = "READY" /\ dpc' = "busy"
        /\ received' = Append(received, slots[Index(devHead)].data)
        /\ slots' = slots /\ hpc' = hpc /\ tail' = tail /\ head' = head
        /\ devHead' = devHead /\ completed' = completed /\ mode' = mode
    BY <1>10 DEF DevTake
  <2>2. Freed' = Freed /\ Published' = Published /\ Busy = 0 /\ Busy' = 1
    BY <2>1 DEF Freed, Published, Busy
  <2>3. Window(slots, Freed, devHead, Published)'
    BY <2>1, <2>2, <1>0, WindowSame DEF Order
  <2>4. devHead < Published
    <3> SUFFICES ASSUME devHead = Published PROVE FALSE
      BY <1>0 DEF Order, Window
    <3>1. CASE Published < Freed + Depth
      BY <1>0, <2>1, <3>1 DEF Order, Window
    <3>2. CASE Published = Freed + Depth
      <4>1. Index(devHead) = Index(Freed)
        BY <1>0, <3>2, IndexAround
      <4>2. slots[Index(Freed)].status = "DONE"
        BY <1>0, <3>2 DEF Order, Window
      <4> QED BY <2>1, <4>1, <4>2
    <3> QED BY <1>0, <3>1, <3>2 DEF Order, Window
  <2>5. Len(received') = devHead + 1
    <3>1. Len(received) = devHead
      BY <1>0, <2>2 DEF Order
    <3>2. slots[Index(devHead)].data \in Nat
      BY <1>0
    <3> QED BY <1>0, <2>1, <3>1, <3>2
  <2> QED BY <2>1, <2>2, <2>3, <2>4, <2>5 DEF Order
<1>11. CASE DevFinish /\ UNCHANGED mode
  <2>1. /\ dpc = "busy" /\ dpc' = "idle" /\ devHead' = devHead + 1
        /\ hpc' = hpc /\ tail' = tail /\ head' = head
        /\ received' = received /\ completed' = completed /\ mode' = mode
    BY <1>11 DEF DevFinish
  <2>2. Published' = Published /\ Busy = 1 /\ Busy' = 0
    BY <2>1 DEF Published, Busy
  <2>3. Window(slots, Freed, devHead, Published) /\ devHead < Published
    BY <2>1 DEF Order
  <2>4. CASE mode.transport = "Loopback"
    <3>1. Freed = devHead /\ Freed' = devHead + 1
      BY <2>1, <2>4 DEF Freed
    <3>2. slots' = [slots EXCEPT ![Index(devHead)].status = "FREE"]
      BY <1>11, <2>4 DEF DevFinish
    <3>3. Elsewhere(slots, slots', Index(devHead)) /\ slots'[Index(devHead)].status = "FREE"
      BY <1>0, <3>2 DEF Elsewhere
    <3>4. Window(slots', devHead + 1, devHead + 1, Published)
      <4>1. devHead + 1 \in {devHead, devHead + 1} /\ devHead < devHead + 1
        BY <1>0
      <4> QED BY <1>0, <2>3, <3>1, <3>3, <4>1, WindowFree
    <3>5. Window(slots, Freed, devHead, Published)'
      BY <2>1, <2>2, <3>1, <3>4
    <3>6. \A i \in Slots : slots'[i].status = "DONE" => slots[i].status = "DONE"
      BY <1>0, <3>2
    <3>7. head' = 0 /\ \A i \in Slots : slots'[i].status # "DONE"
      BY <2>1, <2>4, <3>6 DEF Order
    <3>8. hpc' \in {"copied", "tagged"} => tail' < Freed' + Depth
      BY <1>0, <2>1, <3>1 DEF Order
    <3>9. /\ Len(received') = devHead' + Busy' /\ Len(completed') = head'
          /\ \A i \in 1 .. head' : completed'[i] = (i - 1) % SidMod
      BY <1>0, <2>1, <2>2 DEF Order
    <3> QED BY <2>1, <3>5, <3>7, <3>8, <3>9 DEF Order
  <2>5. CASE mode.transport # "Loopback"
    <3>1. Freed = head /\ Freed' = head
      BY <2>1, <2>5 DEF Freed
    <3>2. slots' = [slots EXCEPT ![Index(devHead)].status = "DONE"]
      BY <1>11, <2>5 DEF DevFinish
    <3>3. /\ Elsewhere(slots, slots', Index(devHead)) /\ slots'[Index(devHead)].status = "DONE"
          /\ slots'[Index(devHead)].sid = slots[Index(devHead)].sid
      BY <1>0, <3>2 DEF Elsewhere
    <3>4. Window(slots', head, devHead + 1, Published)
      BY <1>0, <2>3, <3>1, <3>3, WindowFinish
    <3>5. Window(slots, Freed, devHead, Published)'
      BY <2>1, <2>2, <3>1, <3>4
    <3>6. Len(received') = devHead' + Busy' /\ Len(completed') = head'
      BY <1>0, <2>1, <2>2 DEF Order
    <3>7. \A i \in 1 .. head' : completed'[i] = (i - 1) % SidMod
      BY <2>1 DEF Order
    <3>8. hpc' \in {"copied", "tagged"} => tail' < Freed' + Depth
      BY <2>1, <3>1 DEF Order
    <3>9. hpc' = "opening" => tail' = 0
      BY <2>1 DEF Order
    <3> QED BY <2>1, <2>5, <3>5, <3>6, <3>7, <3>8, <3>9 DEF Order
  <2> QED BY <2>4, <2>5
<1> QED BY <1>1, <1>2, <1>3, <1>4, <1>5, <1>6, <1>7, <1>8, <1>9, <1>10, <1>11 DEF Next, Host

\* What holds in every state of the ring: the window and the order only while
\* the first host process is there.
RingInv == TypeOK /\ Coherence /\ (FirstHost => Order)

LEMMA FirstHostOnce == TypeOK /\ [Next]_ringVars => (FirstHost' => FirstHost)
BY DEF FirstHost, TypeOK, Next, Host, ringVars, ringState, hostVars, devVars, OpenSlot,
       OpenDone, SubmitBegin, Copy, Timeout, WriteHeader, Publish, Advance, Poll, Restart,
       DevTake, DevFinish

LEMMA RingInvariant == Spec => []RingInv
<1>1. Init => RingInv
  BY TypesInit, CoherenceInit, OrderInit DEF RingInv
<1>2. RingInv /\ [Next]_ringVars => RingInv'
  BY TypesNext, CoherenceNext, OrderNext, FirstHostOnce DEF RingInv
<1> QED BY <1>1, <1>2, PTL DEF Spec

\* For every ring depth and SID width, one host process gets its SIDs back from
\* poll in submission order, none skipped, none repeated and none the device
\* has not read, on either transport.
THEOREM CompletionsAlwaysInOrder == Spec => []CompletionsInOrder
<1>1. RingInv => CompletionsInOrder
  <2> SUFFICES ASSUME RingInv, FirstHost PROVE CompletionsInOrder
    BY DEF CompletionsInOrder
  <2>1. Order /\ head \in Nat /\ devHead \in Nat
    BY DEF RingInv, TypeOK
  <2>2. head <= devHead
    BY <2>1 DEF Order, Window, Freed
  <2> QED BY <2>1, <2>2 DEF CompletionsInOrder, Order, Busy
<1> QED BY <1>1, RingInvariant, PTL

-----------------------------------------------------------------------------
(* The ring is a FIFO *)

\* Every slot holds one of Depth consecutive submissions.
LEMMA IndexCovers ==
    \A f \in Nat, i \in Slots : \E n \in f .. f + Depth - 1 : Index(n) = i
<1> SUFFICES ASSUME NEW f \in Nat, NEW i \in Slots
             PROVE  \E n \in f .. f + Depth - 1 : Index(n) = i
  OBVIOUS
<1> DEFINE q == f \div Depth
           r == f % Depth
<1>1. Depth \in Nat \ {0} /\ i \in 0 .. Depth - 1
  BY DepthPositive DEF Slots
<1>2. q \in Nat /\ r \in 0 .. Depth - 1 /\ f = Depth * q + r
  BY <1>1, DivMod
<1> HIDE DEF q, r
<1>3. CASE r <= i
  <2>1. f + (i - r) = Depth * q + i /\ f + (i - r) \in f .. f + Depth - 1
    BY <1>1, <1>2, <1>3
  <2>2. Index(f + (i - r)) = i
    BY <1>1, <1>2, <2>1, ModUnique DEF Index
  <2> QED BY <2>1, <2>2
<1>4. CASE i < r
  <2>1. /\ f + (i + Depth - r) = Depth * (q + 1) + i /\ q + 1 \in Nat
        /\ f + (i + Depth - r) \in f .. f + Depth - 1
    BY <1>1, <1>2, <1>4
  <2>2. Index(f + (i + Depth - r)) = i
    BY <1>1, <2>1, ModUnique DEF Index
  <2> QED BY <2>1, <2>2
<1> QED BY <1>1, <1>2, <1>3, <1>4

\* The READY slots are those of the submissions the device has not finished.
LEMMA ReadyCounted == ASSUME TypeOK, Order PROVE ReadyCount = Published - devHead
<1> DEFINE S == devHead .. Published - 1
           T == {i \in Slots : slots[i].status = "READY"}
           f == [n \in S |-> Index(n)]
<1>0. /\ devHead \in Nat /\ Published \in Nat /\ Freed \in Nat /\ Depth \in Nat \ {0}
      /\ Freed <= devHead /\ devHead <= Published /\ Published <= Freed + Depth
  BY DepthPositive DEF TypeOK, Order, Window, Published, Freed
<1>1. \A n \in S : n \in Nat /\ Index(n) \in T
  BY <1>0, IndexInSlots DEF Order, Window
<1>2. \A m, n \in S : Index(m) = Index(n) => m = n
  <2> SUFFICES ASSUME NEW m \in S, NEW n \in S, m # n PROVE Index(m) # Index(n)
    OBVIOUS
  <2>1. m \in Nat /\ n \in Nat /\ n < m + Depth /\ m < n + Depth
    BY <1>0
  <2> QED BY <2>1, IndexApart
<1>3. \A i \in T : \E n \in S : Index(n) = i
  <2> SUFFICES ASSUME NEW i \in T PROVE \E n \in S : Index(n) = i
    OBVIOUS
  <2>1. PICK n \in Freed .. Freed + Depth - 1 : Index(n) = i
    BY <1>0, IndexCovers
  <2>2. slots[Index(n)].status = "READY"
    BY <2>1
  <2>3. n \notin Freed .. devHead - 1 /\ n \notin Published .. Freed + Depth - 1
    BY <2>2 DEF Order, Window
  <2> QED BY <1>0, <2>1, <2>3
<1> HIDE DEF S, T
<1>4. f \in Bijection(S, T)
  BY <1>1, <1>2, <1>3 DEF Bijection, Injection, Surjection, IsInjective
<1>5. IsFiniteSet(S) /\ Cardinality(S) = Published - devHead
  <2>1. devHead \in Int /\ Published - 1 \in Int
    BY <1>0
  <2>2. /\ IsFiniteSet(S)
        /\ Cardinality(S) = IF devHead > Published - 1 THEN 0 ELSE (Published - 1) - devHead + 1
    BY <2>1, FS_Interval DEF S
  <2> QED BY <1>0, <2>2
<1>6. Cardinality(T) = Cardinality(S)
  BY <1>4, <1>5, FS_Bijection DEF ExistsBijection
<1> QED BY <1>5, <1>6 DEF ReadyCount, T

\* The abstract queue holds the published submissions the device has not taken.
Taken == devHead + Busy

WaitingShape ==
    /\ Taken \in Nat /\ Published \in Nat /\ Taken <= Published
    /\ Waiting = [k \in 1 .. (Published - Taken) |-> slots[Index(Taken + k - 1)].data]
    /\ \A n \in Taken .. Published - 1 : slots[Index(n)].data \in Nat

LEMMA WaitingIs == TypeOK /\ Order => WaitingShape
<1> SUFFICES ASSUME TypeOK, Order PROVE WaitingShape
  OBVIOUS
<1>1. /\ devHead \in Nat /\ Published \in Nat /\ devHead <= Published
      /\ Busy \in {0, 1} /\ (Busy = 1 => devHead < Published)
  BY DEF TypeOK, Order, Window, Published, Freed, Busy
<1>2. Taken \in Nat /\ Taken <= Published /\ Published - devHead - Busy = Published - Taken
  BY <1>1 DEF Taken
<1>3. Waiting = [k \in 1 .. (Published - Taken) |-> slots[Index(Taken + k - 1)].data]
  BY <1>2, ReadyCounted DEF Waiting, Taken
<1>4. \A n \in Taken .. Published - 1 : slots[Index(n)].data \in Nat
  <2> SUFFICES ASSUME NEW n \in Taken .. Published - 1 PROVE slots[Index(n)].data \in Nat
    OBVIOUS
  <2>1. n \in Nat
    BY <1>1, <1>2
  <2> QED BY <2>1, IndexInSlots DEF TypeOK
<1> QED BY <1>1, <1>2, <1>3, <1>4 DEF WaitingShape

\* A step that takes or adds no submission and leaves the payloads of the
\* waiting ones alone does not change the abstract queue.
LEMMA WaitingKept ==
    ASSUME WaitingShape, WaitingShape', Published' = Published, Taken' = Taken,
           \A n \in Taken .. Published - 1 : slots'[Index(n)].data = slots[Index(n)].data
    PROVE  Waiting' = Waiting
<1>1. Taken \in Nat /\ Published \in Nat
  BY DEF WaitingShape
<1>2. ASSUME NEW k \in 1 .. (Published - Taken)
      PROVE  slots'[Index(Taken + k - 1)].data = slots[Index(Taken + k - 1)].data
  BY <1>1, Taken + k - 1 \in Taken .. Published - 1
<1>3. Waiting' = [k \in 1 .. (Published - Taken) |-> slots'[Index(Taken + k - 1)].data]
  BY DEF WaitingShape, Index
<1> QED BY <1>2, <1>3 DEF WaitingShape

\* Publishing one more submission appends its payload.
LEMMA WaitingGrows ==
    ASSUME WaitingShape, WaitingShape', Published' = Published + 1, Taken' = Taken,
           \A n \in Taken .. Published - 1 : slots'[Index(n)].data = slots[Index(n)].data
    PROVE  /\ Waiting' = Append(Waiting, slots'[Index(Published)].data)
           /\ Waiting \in Seq(Nat) /\ Len(Waiting) = Published - Taken
<1> DEFINE L == Published - Taken
           W == [k \in 1 .. L |-> slots[Index(Taken + k - 1)].data]
           e == slots'[Index(Published)].data
<1>1. Taken \in Nat /\ Published \in Nat /\ Taken <= Published /\ L \in Nat
  BY DEF WaitingShape
<1>2. Waiting = W
  BY DEF WaitingShape
<1>3. W \in Seq(Nat) /\ Len(W) = L
  <2>1. ASSUME NEW k \in 1 .. L PROVE slots[Index(Taken + k - 1)].data \in Nat
    BY <1>1, Taken + k - 1 \in Taken .. Published - 1 DEF WaitingShape
  <2> HIDE DEF L
  <2> QED BY <1>1, <2>1
<1>4. e \in Nat
  <2>1. Published \in Taken' .. Published' - 1
    BY <1>1
  <2>2. \A n \in Taken' .. Published' - 1 : slots'[Index(n)].data \in Nat
    BY DEF WaitingShape, Index
  <2> QED BY <2>1, <2>2
<1>5. Waiting' = [k \in 1 .. (L + 1) |-> slots'[Index(Taken + k - 1)].data]
  <2>1. Waiting' = [k \in 1 .. (Published' - Taken) |-> slots'[Index(Taken + k - 1)].data]
    BY DEF WaitingShape, Index
  <2>2. Published' - Taken = L + 1
    BY <1>1
  <2> QED BY <2>1, <2>2
<1>6. ASSUME NEW k \in 1 .. L
      PROVE  slots'[Index(Taken + k - 1)].data = W[k]
  BY <1>1, Taken + k - 1 \in Taken .. Published - 1
<1>7. slots'[Index(Taken + (L + 1) - 1)].data = e
  BY <1>1, Taken + (L + 1) - 1 = Published
<1> DEFINE V == [k \in 1 .. (L + 1) |-> slots'[Index(Taken + k - 1)].data]
<1> HIDE DEF L, W, e
<1>8. /\ Append(W, e) \in Seq(Nat) /\ Len(Append(W, e)) = L + 1
      /\ \A k \in 1 .. L : Append(W, e)[k] = W[k]
      /\ Append(W, e)[L + 1] = e
  BY <1>3, <1>4, AppendProperties
<1>9. \A k \in 1 .. (L + 1) : V[k] = Append(W, e)[k]
  <2> SUFFICES ASSUME NEW k \in 1 .. (L + 1) PROVE V[k] = Append(W, e)[k]
    OBVIOUS
  <2>1. CASE k = L + 1
    BY <1>7, <1>8, <2>1
  <2>2. CASE k \in 1 .. L
    BY <1>6, <1>8, <2>2
  <2>3. k = L + 1 \/ k \in 1 .. L
    BY <1>1
  <2> QED BY <2>1, <2>2, <2>3
<1>10. Append(W, e) = V
  <2>1. DOMAIN Append(W, e) = 1 .. (L + 1) /\ Append(W, e) = [k \in DOMAIN Append(W, e) |-> Append(W, e)[k]]
    BY <1>1, <1>8, LenProperties
  <2> QED BY <1>9, <2>1
<1> QED BY <1>2, <1>3, <1>5, <1>10 DEF L, e

\* Taking the first waiting submission removes it from the front.
LEMMA WaitingShrinks ==
    ASSUME WaitingShape, WaitingShape', Published' = Published, Taken' = Taken + 1,
           \A n \in Taken .. Published - 1 : slots'[Index(n)].data = slots[Index(n)].data
    PROVE  /\ Waiting # << >> /\ Head(Waiting) = slots[Index(Taken)].data
           /\ Waiting' = Tail(Waiting)
<1> DEFINE L == Published - Taken
           W == [k \in 1 .. L |-> slots[Index(Taken + k - 1)].data]
<1>1. Taken \in Nat /\ Published \in Nat /\ Taken < Published /\ L \in Nat \ {0}
  BY DEF WaitingShape
<1>2. Waiting = W
  BY DEF WaitingShape
<1>3. W \in Seq(Nat) /\ Len(W) = L
  <2>1. ASSUME NEW k \in 1 .. L PROVE slots[Index(Taken + k - 1)].data \in Nat
    BY <1>1, Taken + k - 1 \in Taken .. Published - 1 DEF WaitingShape
  <2> HIDE DEF L
  <2> QED BY <1>1, <2>1
<1>4. W # << >> /\ Head(W) = slots[Index(Taken)].data
  <2>1. 1 \in 1 .. L /\ Taken + 1 - 1 = Taken
    BY <1>1
  <2>2. W[1] = slots[Index(Taken)].data
    BY <2>1
  <2> HIDE DEF W
  <2> QED BY <1>1, <1>3, <2>2
<1>5. Waiting' = [k \in 1 .. (L - 1) |-> slots'[Index(Taken + 1 + k - 1)].data]
  <2>1. Waiting' = [k \in 1 .. (Published - (Taken + 1)) |->
                        slots'[Index(Taken + 1 + k - 1)].data]
    BY DEF WaitingShape, Index
  <2>2. Published - (Taken + 1) = L - 1
    BY <1>1
  <2> QED BY <2>1, <2>2
<1>6. ASSUME NEW k \in 1 .. (L - 1)
      PROVE  slots'[Index(Taken + 1 + k - 1)].data = W[k + 1]
  <2>1. /\ Taken + 1 + k - 1 \in Taken .. Published - 1 /\ k + 1 \in 1 .. L
        /\ Taken + (k + 1) - 1 = Taken + 1 + k - 1
    BY <1>1
  <2> QED BY <2>1
<1> HIDE DEF L, W
<1>7. Tail(W) = [k \in 1 .. (L - 1) |-> W[k + 1]]
  <2>1. /\ Tail(W) \in Seq(Nat) /\ Len(Tail(W)) = L - 1
        /\ \A k \in 1 .. (L - 1) : Tail(W)[k] = W[k + 1]
    BY <1>3, <1>4, HeadTailProperties
  <2>2. DOMAIN Tail(W) = 1 .. (L - 1) /\ Tail(W) = [k \in DOMAIN Tail(W) |-> Tail(W)[k]]
    BY <1>1, <2>1, LenProperties
  <2> QED BY <2>1, <2>2
<1> QED BY <1>2, <1>4, <1>5, <1>6, <1>7

\* Every step of the ring while the first host is there is a step of the FIFO:
\* the status write of submit publishes, the device's read receives, and all
\* other accesses leave the abstract queue alone.
LEMMA FirstHostStep ==
    ASSUME RingInv, RingInv', FirstHost, FirstHost', [Next]_ringVars
    PROVE  [Fifo!Next]_(Fifo!fifoVars)
<1>0. TypeOK /\ TypeOK' /\ Coherence /\ Order /\ Order'
  BY DEF RingInv
<1>1. WaitingShape /\ WaitingShape'
  <2>1. (TypeOK /\ Order => WaitingShape)'
    BY WaitingIs, PTL
  <2> QED BY <1>0, <2>1, WaitingIs
<1>2. /\ Taken \in Nat /\ Published \in Nat /\ Taken <= Published /\ tail \in Nat
      /\ devHead \in Nat /\ Busy \in {0, 1} /\ Freed <= devHead /\ Freed \in Nat
      /\ slots \in [Slots -> [status : Status, sid : 0 .. SidMod - 1, data : Nat]]
      /\ received \in Seq(Nat) /\ Len(received) = Taken
  BY <1>0, <1>1 DEF WaitingShape, TypeOK, Order, Window, Busy, Freed, Taken
<1>3. \A n \in Taken .. Published - 1 :
          Index(n) \in Slots /\ slots[Index(n)].status = "READY"
  <2> SUFFICES ASSUME NEW n \in Taken .. Published - 1
               PROVE  Index(n) \in Slots /\ slots[Index(n)].status = "READY"
    OBVIOUS
  <2>1. n \in Nat /\ n \in devHead .. Published - 1
    BY <1>2 DEF Taken
  <2> QED BY <1>0, <2>1, IndexInSlots DEF Order, Window
<1>4. Index(tail) \in Slots /\ Index(devHead) \in Slots
  BY <1>2, IndexInSlots
<1>5. ASSUME Published' = Published, Taken' = Taken, received' = received,
             \A n \in Taken .. Published - 1 : slots'[Index(n)].data = slots[Index(n)].data
      PROVE  [Fifo!Next]_(Fifo!fifoVars)
  <2>1. Waiting' = Waiting
    BY <1>1, <1>5, WaitingKept
  <2> QED BY <1>5, <2>1 DEF Fifo!fifoVars
<1>6. CASE UNCHANGED ringVars
  <2>1. slots' = slots /\ hpc' = hpc /\ tail' = tail /\ dpc' = dpc /\ devHead' = devHead
        /\ received' = received
    BY <1>6 DEF ringVars, ringState, hostVars, devVars
  <2>2. Published' = Published /\ Taken' = Taken
    BY <2>1 DEF Published, Taken, Busy
  <2> QED BY <1>5, <2>1, <2>2
<1>7. CASE OpenDone \/ SubmitBegin \/ Timeout \/ Advance
  <2>1. slots' = slots /\ dpc' = dpc /\ devHead' = devHead /\ received' = received
    BY <1>7 DEF OpenDone, SubmitBegin, Timeout, Advance, devVars
  <2>2. Taken' = Taken
    BY <2>1 DEF Taken, Busy
  <2>3. Published' = Published
    BY <1>7 DEF OpenDone, SubmitBegin, Timeout, Advance, Published
  <2> QED BY <1>5, <2>1, <2>2, <2>3
<1>8. CASE OpenSlot \/ WriteHeader \/ Poll
  <2>1. dpc' = dpc /\ devHead' = devHead /\ received' = received
    BY <1>8 DEF OpenSlot, WriteHeader, Poll, devVars
  <2>2. Taken' = Taken
    BY <2>1 DEF Taken, Busy
  <2>3. Published' = Published
    BY <1>8 DEF OpenSlot, WriteHeader, Poll, Published
  <2>4. \A i \in Slots : slots'[i].data = slots[i].data
    <3>1. CASE OpenSlot
      BY <1>2, <3>1 DEF OpenSlot
    <3>2. CASE WriteHeader
      BY <1>2, <3>2 DEF WriteHeader
    <3>3. CASE Poll
      BY <1>2, <3>3 DEF Poll
    <3> QED BY <1>8, <3>1, <3>2, <3>3
  <2> QED BY <1>3, <1>5, <2>1, <2>2, <2>3, <2>4
<1>9. CASE Copy
  <2>1. /\ dpc' = dpc /\ devHead' = devHead /\ received' = received /\ tail' = tail
        /\ hpc = "spinning" /\ hpc' = "copied" /\ slots[Index(tail)].status = "FREE"
        /\ slots' = [slots EXCEPT ![Index(tail)].data = tail]
    BY <1>9 DEF Copy, devVars
  <2>2. Taken' = Taken /\ Published' = Published
    BY <2>1 DEF Taken, Busy, Published
  <2>3. \A n \in Taken .. Published - 1 : slots'[Index(n)].data = slots[Index(n)].data
    BY <1>2, <1>3, <1>4, <2>1
  <2> QED BY <1>5, <2>1, <2>2, <2>3
<1>10. CASE DevFinish
  <2>1. PICK st \in {"FREE", "DONE"} : slots' = [slots EXCEPT ![Index(devHead)].status = st]
    BY <1>10 DEF DevFinish
  <2>2. /\ dpc = "busy" /\ dpc' = "idle" /\ devHead' = devHead + 1 /\ received' = received
        /\ tail' = tail /\ hpc' = hpc
    BY <1>10 DEF DevFinish, hostVars
  <2>3. Taken' = Taken /\ Published' = Published
    BY <1>2, <2>2 DEF Taken, Busy, Published
  <2>4. \A i \in Slots : slots'[i].data = slots[i].data
    BY <1>2, <1>4, <2>1
  <2> QED BY <1>3, <1>5, <2>2, <2>3, <2>4
<1>11. CASE Publish
  <2>1. /\ dpc' = dpc /\ devHead' = devHead /\ received' = received /\ tail' = tail
        /\ hpc = "tagged" /\ hpc' = "published"
        /\ slots' = [slots EXCEPT ![Index(tail)].status = "READY"]
    BY <1>11 DEF Publish, devVars
  <2>2. Taken' = Taken /\ Published = tail /\ Published' = Published + 1
    BY <2>1 DEF Taken, Busy, Published
  <2>3. \A i \in Slots : slots'[i].data = slots[i].data
    BY <1>2, <1>4, <2>1
  <2>4. slots'[Index(Published)].data = Published
    BY <1>0, <1>4, <2>1, <2>2, <2>3 DEF Coherence
  <2>5. /\ Waiting' = Append(Waiting, Published)
        /\ Waiting \in Seq(Nat) /\ Len(Waiting) = Published - Taken
    BY <1>1, <1>3, <2>2, <2>3, <2>4, WaitingGrows
  <2>6. tail < Freed + Depth /\ Depth \in Nat
    BY <1>0, <2>1, DepthPositive DEF Order
  <2>7. Freed <= Taken
    BY <1>2 DEF Taken
  <2>8. Len(Waiting) < Depth /\ Len(received) + Len(Waiting) = Published
    BY <1>2, <2>2, <2>5, <2>6, <2>7
  <2>9. Fifo!Publish
    BY <2>1, <2>5, <2>8 DEF Fifo!Publish
  <2> QED BY <2>9 DEF Fifo!Next, FirstHost
<1>12. CASE DevTake
  <2>1. /\ dpc = "idle" /\ dpc' = "busy" /\ devHead' = devHead /\ slots' = slots
        /\ received' = Append(received, slots[Index(devHead)].data)
        /\ tail' = tail /\ hpc' = hpc
    BY <1>12 DEF DevTake, hostVars
  <2>2. Taken = devHead /\ Taken' = Taken + 1 /\ Published' = Published
    BY <1>2, <2>1 DEF Taken, Busy, Published
  <2>3. /\ Waiting # << >> /\ Head(Waiting) = slots[Index(devHead)].data
        /\ Waiting' = Tail(Waiting)
    BY <1>1, <2>1, <2>2, WaitingShrinks
  <2>4. Fifo!Receive
    BY <2>1, <2>3 DEF Fifo!Receive
  <2> QED BY <2>4 DEF Fifo!Next, FirstHost
<1>13. ~Restart
  BY <1>0 DEF Restart, FirstHost, TypeOK
<1> QED BY <1>6, <1>7, <1>8, <1>9, <1>10, <1>11, <1>12, <1>13 DEF Next, Host

\* The ring implements the bounded FIFO its two ends rely on, for every depth:
\* the device receives the payloads in submission order, each once, none lost
\* and none written over while it waits, until the host process restarts.
THEOREM RingIsFifo == Spec => FifoSpec
<1>1. Init => Fifo!Init
  <2> SUFFICES ASSUME Init PROVE Fifo!Init
    OBVIOUS
  <2>1. FirstHost = TRUE /\ received = << >>
    BY DEF Init, FirstHost
  <2>2. Waiting = << >>
    <3>1. WaitingShape
      BY TypesInit, OrderInit, WaitingIs
    <3>2. Published = 0 /\ Taken = 0
      BY DEF Init, Published, Taken, Busy
    <3> QED BY <3>1, <3>2 DEF WaitingShape
  <2> QED BY <2>1, <2>2 DEF Fifo!Init
<1>2. RingInv /\ RingInv' /\ [Next]_ringVars => [Fifo!Next]_(Fifo!fifoVars)
  <2> SUFFICES ASSUME RingInv, RingInv', [Next]_ringVars
               PROVE  [Fifo!Next]_(Fifo!fifoVars)
    OBVIOUS
  <2>1. CASE ~FirstHost'
    BY <2>1 DEF Fifo!Next, FirstHost
  <2>2. CASE FirstHost'
    BY <2>2, FirstHostOnce, FirstHostStep DEF RingInv
  <2> QED BY <2>1, <2>2
<1> QED BY <1>1, <1>2, RingInvariant, PTL DEF Spec, FifoSpec, Fifo!Spec

=============================================================================
