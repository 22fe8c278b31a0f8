-------------------------- MODULE RobBitweaveProofs --------------------------
(* The reorder buffer for every depth and SID width: its bit-plane scan is  *)
(* unambiguous, and no packet leaves it after a later one.                  *)
EXTENDS RobBitweave, FiniteSetTheorems, TLAPS

\* A valid slot holds a SID that belongs to it, and the pipelined match vector
\* is within the slot of one commit pointer.
SlotsOwnSids ==
    /\ robValid \in [RobSlots -> BOOLEAN]
    /\ \A i \in RobSlots : robValid[i] => sidPlane[i] % RobDepth = i
    /\ matchPipe \subseteq RobSlots
    /\ MatchIsUnique

LEMMA SlotsOwnSidsInit == Init => SlotsOwnSids
BY DEF Init, SlotsOwnSids, MatchIsUnique

\* What one clock edge leaves in a slot.
LEMMA EdgeOfSlot ==
    ASSUME NEW i \in RobSlots, NEW wi \in {WriteIdx, NoSlot}, NEW mi,
           NEW slot \in SlotAfter(i, wi, mi), SlotsOwnSids
    PROVE  slot[1] => slot[2] % RobDepth = i
<1>1. wi = i => WriteIdx = i
  BY RobDepthPositive DEF NoSlot, RobSlots
<1>2. CASE slot = <<TRUE, IngressSid>> /\ i = wi
  <2>1. slot[2] = IngressSid
    BY <1>2, Zenon
  <2> QED BY <1>1, <1>2, <2>1 DEF WriteIdx
<1>3. CASE slot = <<FALSE, 0>>
  <2>1. slot[1] = FALSE
    BY <1>3, Zenon
  <2> QED BY <2>1
<1>4. CASE i # wi /\ i # mi
  <2>1. slot = <<robValid[i], sidPlane[i]>>
    BY <1>4 DEF SlotAfter
  <2>2. slot[1] = robValid[i] /\ slot[2] = sidPlane[i]
    BY <2>1, Zenon
  <2> QED BY <2>2 DEF SlotsOwnSids
<1>5. \/ slot = <<TRUE, IngressSid>> /\ i = wi
      \/ slot = <<FALSE, 0>>
      \/ i # wi /\ i # mi
  BY DEF SlotAfter
<1> QED BY <1>2, <1>3, <1>4, <1>5

LEMMA SlotsOwnSidsNext == SlotsOwnSids /\ [Next]_robVars => SlotsOwnSids'
<1> SUFFICES ASSUME SlotsOwnSids, [Next]_robVars PROVE SlotsOwnSids'
  OBVIOUS
<1>1. CASE Reset
  BY <1>1 DEF Reset, SlotsOwnSids, MatchIsUnique
<1>2. ASSUME NEW inValid \in BOOLEAN, NEW outReady \in BOOLEAN, Clock(inValid, outReady)
      PROVE  SlotsOwnSids'
  <2> DEFINE accept == inValid /\ TReady
             commit == (outReady \/ ~tvalid) /\ matchPipe # {}
             mi == IF commit THEN Min(matchPipe) ELSE NoSlot
             wi == IF accept THEN WriteIdx ELSE NoSlot
  <2>1. PICK after \in [RobSlots -> BOOLEAN \X (0 .. SidMod - 1)] :
            /\ \A i \in RobSlots : after[i] \in SlotAfter(i, wi, mi)
            /\ robValid' = [i \in RobSlots |-> after[i][1]]
            /\ sidPlane' = [i \in RobSlots |-> after[i][2]]
    BY <1>2, Zenon DEF Clock
  <2>2. matchPipe' = MatchVector
    BY <1>2, Zenon DEF Clock
  <2>3. robValid' \in [RobSlots -> BOOLEAN]
    BY <2>1
  <2>4. ASSUME NEW i \in RobSlots, robValid'[i] PROVE sidPlane'[i] % RobDepth = i
    <3>1. wi \in {WriteIdx, NoSlot}
      OBVIOUS
    <3> HIDE DEF wi, mi
    <3>2. after[i][1] => after[i][2] % RobDepth = i
      BY <2>1, <3>1, EdgeOfSlot, Zenon
    <3> QED BY <2>1, <2>4, <3>2
  <2>5. matchPipe' \subseteq RobSlots
    BY <2>2 DEF MatchVector
  <2>6. \A i, j \in matchPipe' : i = j
    <3>1. \A i \in MatchVector : i = commitPtr % RobDepth
      BY DEF MatchVector, SlotsOwnSids
    <3> QED BY <2>2, <3>1
  <2> QED BY <2>3, <2>4, <2>5, <2>6 DEF SlotsOwnSids, MatchIsUnique
<1>3. CASE UNCHANGED robVars
  BY <1>3 DEF robVars, SlotsOwnSids, MatchIsUnique
<1> QED BY <1>1, <1>2, <1>3 DEF Next

\* The bit-plane scan of otap_rob_bitweave.v never finds two slots for one
\* commit pointer.
THEOREM ScanIsUnambiguous == Spec => []MatchIsUnique
<1>1. SlotsOwnSids => MatchIsUnique
  BY DEF SlotsOwnSids
<1> QED BY <1>1, SlotsOwnSidsInit, SlotsOwnSidsNext, PTL DEF Spec

-----------------------------------------------------------------------------
(* One clock edge *)

\* The commits since the last reset: all that left, and the one on its way out.
Commits == Len(out) + (IF tvalid THEN 1 ELSE 0)

\* What a clock edge does that accepts a packet into slot w (if a) and commits
\* slot m (if c); a slot number of NoSlot stands for none.
Edge(a, c, w, m) ==
    /\ a => w = WriteIdx /\ w \in RobSlots /\ ~robValid[w] /\ accepted < MaxPackets
    /\ ~a => w = NoSlot
    /\ c => m \in matchPipe /\ m \in RobSlots
    /\ ~c => m = NoSlot
    /\ robValid' \in [RobSlots -> BOOLEAN] /\ sidPlane' \in [RobSlots -> 0 .. SidMod - 1]
    /\ \A i \in RobSlots :
          /\ i # w /\ i # m => robValid'[i] = robValid[i] /\ sidPlane'[i] = sidPlane[i]
          /\ i = w /\ i # m => robValid'[i]
          /\ i = w /\ robValid'[i] => sidPlane'[i] = IngressSid
          /\ i # w /\ i = m => ~robValid'[i]
    /\ accepted' = IF a THEN accepted + 1 ELSE accepted
    /\ robData' = IF a THEN [robData EXCEPT ![w] = accepted] ELSE robData
    /\ matchPipe' = MatchVector
    /\ commitPtr' = IF c THEN NextPtr(commitPtr) ELSE commitPtr
    /\ tdata' = IF c THEN robData[m] ELSE tdata
    /\ Commits' = IF c THEN Commits + 1 ELSE Commits
    /\ tvalid' \in BOOLEAN
    /\ out' = out \/ (tvalid /\ out' = Append(out, tdata))

SlotLeft(i, w, m, slot) ==
    /\ i # w /\ i # m => slot[1] = robValid[i] /\ slot[2] = sidPlane[i]
    /\ i = w /\ i # m => slot[1] = TRUE
    /\ i = w /\ slot[1] => slot[2] = IngressSid
    /\ i # w /\ i = m => slot[1] = FALSE

LEMMA SlotEdge ==
    ASSUME NEW i, NEW w, NEW m, NEW slot \in SlotAfter(i, w, m)
    PROVE  SlotLeft(i, w, m, slot)
<1> USE DEF SlotLeft
<1>1. \/ i = w /\ slot = <<TRUE, IngressSid>>
      \/ i = m /\ slot = <<FALSE, 0>>
      \/ i # w /\ i # m /\ slot = <<robValid[i], sidPlane[i]>>
  BY DEF SlotAfter
<1>2. CASE i = w /\ slot = <<TRUE, IngressSid>>
  <2>1. slot[1] = TRUE /\ slot[2] = IngressSid
    BY <1>2, Zenon
  <2> QED BY <1>2, <2>1, Zenon
<1>3. CASE i = m /\ slot = <<FALSE, 0>>
  <2>1. slot[1] = FALSE
    BY <1>3, Zenon
  <2> QED BY <1>3, <2>1, Zenon
<1>4. CASE i # w /\ i # m /\ slot = <<robValid[i], sidPlane[i]>>
  <2>1. slot[1] = robValid[i] /\ slot[2] = sidPlane[i]
    BY <1>4, Zenon
  <2> QED BY <1>4, <2>1, Zenon
<1> QED BY <1>1, <1>2, <1>3, <1>4

LEMMA WriteIdxInSlots == TypeOK => WriteIdx \in RobSlots
<1> SUFFICES ASSUME TypeOK PROVE WriteIdx \in RobSlots
  OBVIOUS
<1>1. accepted \in Nat /\ SidMod \in Nat \ {0} /\ RobDepth \in Nat \ {0}
  BY RobDepthPositive, SidsCoverSlots, MaxPacketsNat DEF TypeOK
<1>2. IngressSid \in Nat
  BY <1>1 DEF IngressSid
<1> QED BY <1>1, <1>2 DEF WriteIdx, RobSlots

LEMMA ClockIsEdge ==
    ASSUME TypeOK, MatchIsUnique, NEW inValid \in BOOLEAN, NEW outReady \in BOOLEAN,
           Clock(inValid, outReady)
    PROVE  \E a, c \in BOOLEAN, w, m \in 0 .. RobDepth : Edge(a, c, w, m)
<1> DEFINE a == inValid /\ TReady
           c == (outReady \/ ~tvalid) /\ matchPipe # {}
           m == IF c THEN Min(matchPipe) ELSE NoSlot
           w == IF a THEN WriteIdx ELSE NoSlot
<1>1. PICK after \in [RobSlots -> BOOLEAN \X (0 .. SidMod - 1)] :
          /\ \A i \in RobSlots : after[i] \in SlotAfter(i, w, m)
          /\ robValid' = [i \in RobSlots |-> after[i][1]]
          /\ sidPlane' = [i \in RobSlots |-> after[i][2]]
  BY Zenon DEF Clock
<1>2. /\ a => accepted < MaxPackets
      /\ accepted' = IF a THEN accepted + 1 ELSE accepted
      /\ robData' = IF a THEN [robData EXCEPT ![w] = accepted] ELSE robData
      /\ matchPipe' = MatchVector
      /\ commitPtr' = IF c THEN NextPtr(commitPtr) ELSE commitPtr
      /\ tdata' = IF c THEN robData[m] ELSE tdata
      /\ tvalid' = IF outReady \/ ~tvalid THEN c ELSE tvalid
      /\ out' = IF tvalid /\ outReady THEN Append(out, tdata) ELSE out
  BY Zenon DEF Clock
<1>3. a \in BOOLEAN /\ c \in BOOLEAN
  BY DEF TReady
<1>4. a => w = WriteIdx /\ w \in RobSlots /\ ~robValid[w]
  BY WriteIdxInSlots DEF TReady
<1>5. c => m \in matchPipe /\ m \in RobSlots
  <2> SUFFICES ASSUME c PROVE m \in matchPipe /\ m \in RobSlots
    OBVIOUS
  <2>1. PICK x \in matchPipe : TRUE
    OBVIOUS
  <2>2. x \in Nat /\ \A y \in matchPipe : x <= y
    BY <2>1, RobDepthPositive DEF MatchIsUnique, TypeOK, RobSlots
  <2>3. Min(matchPipe) \in matchPipe
    BY <2>1, <2>2 DEF Min
  <2> QED BY <2>3 DEF TypeOK
<1>6. Commits' = IF c THEN Commits + 1 ELSE Commits
  <2>1. tvalid \in BOOLEAN /\ out \in Seq(Nat) /\ tdata \in Nat /\ Len(out) \in Nat
    BY DEF TypeOK
  <2>2. CASE tvalid /\ outReady
    <3>1. Len(out') = Len(out) + 1 /\ tvalid' = c
      BY <1>2, <2>1, <2>2
    <3> HIDE DEF c
    <3>2. CASE c = TRUE
      BY <2>1, <2>2, <3>1, <3>2 DEF Commits
    <3>3. CASE c = FALSE
      BY <2>1, <2>2, <3>1, <3>3 DEF Commits
    <3> QED BY <1>3, <3>2, <3>3
  <2>3. CASE ~tvalid
    <3>1. out' = out /\ tvalid' = c
      BY <1>2, <2>3
    <3> HIDE DEF c
    <3>2. CASE c = TRUE
      BY <2>1, <2>3, <3>1, <3>2 DEF Commits
    <3>3. CASE c = FALSE
      BY <2>1, <2>3, <3>1, <3>3 DEF Commits
    <3> QED BY <1>3, <3>2, <3>3
  <2>4. CASE tvalid /\ ~outReady
    <3>1. out' = out /\ tvalid' = tvalid /\ ~c
      BY <1>2, <2>4
    <3> QED BY <3>1 DEF Commits
  <2> QED BY <2>1, <2>2, <2>3, <2>4
<1>7. tvalid' \in BOOLEAN /\ (out' = out \/ (tvalid /\ out' = Append(out, tdata)))
  BY <1>2, <1>3 DEF TypeOK
<1>8. (~a => w = NoSlot) /\ (~c => m = NoSlot)
  OBVIOUS
<1> HIDE DEF a, c, w, m
<1>9. robValid' \in [RobSlots -> BOOLEAN] /\ sidPlane' \in [RobSlots -> 0 .. SidMod - 1]
  BY <1>1
<1>10. ASSUME NEW i \in RobSlots
       PROVE  /\ i # w /\ i # m => robValid'[i] = robValid[i] /\ sidPlane'[i] = sidPlane[i]
              /\ i = w /\ i # m => robValid'[i]
              /\ i = w /\ robValid'[i] => sidPlane'[i] = IngressSid
              /\ i # w /\ i = m => ~robValid'[i]
  <2>1. after[i] \in SlotAfter(i, w, m) /\ robValid'[i] = after[i][1] /\ sidPlane'[i] = after[i][2]
    BY <1>1
  <2>2. SlotLeft(i, w, m, after[i])
    BY <2>1, SlotEdge, Zenon
  <2> QED BY <2>1, <2>2, Zenon DEF SlotLeft
<1>11. Edge(a, c, w, m)
  BY <1>2, <1>4, <1>5, <1>6, <1>7, <1>8, <1>9, <1>10 DEF Edge
<1>12. w \in 0 .. RobDepth /\ m \in 0 .. RobDepth
  <2>1. w \in RobSlots \cup {NoSlot} /\ m \in RobSlots \cup {NoSlot}
    BY <1>4, <1>5, <1>8
  <2> QED BY <2>1, RobDepthPositive DEF RobSlots, NoSlot
<1> QED BY <1>3, <1>11, <1>12

-----------------------------------------------------------------------------
(* Arithmetic of SIDs and slot numbers *)

LEMMA DivMod ==
    ASSUME NEW n \in Nat, NEW m \in Nat \ {0}
    PROVE  /\ n % m \in 0 .. m - 1 /\ n \div m \in Nat
           /\ n = m * (n \div m) + (n % m)
OBVIOUS

LEMMA ModUnique ==
    ASSUME NEW m \in Nat \ {0}, NEW q \in Nat, NEW r \in 0 .. m - 1
    PROVE  (m * q + r) % m = r
OBVIOUS

LEMMA NextMod ==
    ASSUME NEW n \in Nat, NEW m \in Nat \ {0}
    PROVE  ((n % m) + 1) % m = (n + 1) % m
<1> DEFINE q == n \div m
           r == n % m
<1>1. r \in 0 .. m - 1 /\ q \in Nat /\ n = m * q + r
  BY DivMod
<1> HIDE DEF q, r
<1>2. CASE r + 1 < m
  <2>1. n + 1 = m * q + (r + 1) /\ r + 1 = m * 0 + (r + 1) /\ r + 1 \in 0 .. m - 1
    BY <1>1, <1>2
  <2>2. (n + 1) % m = r + 1
    BY <1>1, <2>1, ModUnique
  <2>3. (r + 1) % m = r + 1
    BY <2>1, ModUnique
  <2> QED BY <2>2, <2>3 DEF r
<1>3. CASE r + 1 = m
  <2>1. n + 1 = m * (q + 1) + 0 /\ r + 1 = m * 1 + 0 /\ q + 1 \in Nat /\ 0 \in 0 .. m - 1
    BY <1>1, <1>3
  <2>2. (n + 1) % m = 0
    BY <2>1, ModUnique
  <2>3. (r + 1) % m = 0
    BY <2>1, ModUnique
  <2> QED BY <2>2, <2>3 DEF r
<1>4. r + 1 < m \/ r + 1 = m
  BY <1>1
<1> QED BY <1>2, <1>3, <1>4 DEF r

\* Numbers less than m apart have different remainders.
LEMMA ModInjective ==
    ASSUME NEW m \in Nat \ {0}, NEW a \in Nat, NEW b \in Nat, a <= b, b < a + m, a % m = b % m
    PROVE  a = b
<1> DEFINE p == a \div m
           q == b \div m
           r == a % m
<1>1. a = m * p + r /\ b = m * q + r /\ p \in Nat /\ q \in Nat /\ r \in Nat
  <2>1. a = m * p + r /\ p \in Nat /\ r \in 0 .. m - 1
    BY DivMod
  <2>2. b = m * q + (b % m) /\ q \in Nat
    BY DivMod
  <2>3. b % m = r
    OBVIOUS
  <2> HIDE DEF p, q, r
  <2> QED BY <2>1, <2>2, <2>3
<1> HIDE DEF p, q, r
<1>2. CASE q = p
  BY <1>1, <1>2
<1>3. CASE q > p
  <2>1. m * q >= m * (p + 1)
    BY <1>1, <1>3
  <2>2. m * (p + 1) = m * p + m
    BY <1>1
  <2> QED BY <1>1, <2>1, <2>2
<1>4. CASE q < p
  <2>1. m * p >= m * (q + 1)
    BY <1>1, <1>4
  <2>2. m * (q + 1) = m * q + m
    BY <1>1
  <2> QED BY <1>1, <2>1, <2>2
<1> QED BY <1>1, <1>2, <1>3, <1>4

\* A slot number is the same whether it is taken from the packet's number or
\* from its SID.
LEMMA SlotOfSid == \A n \in Nat : (n % SidMod) % RobDepth = n % RobDepth
<1> SUFFICES ASSUME NEW n \in Nat PROVE (n % SidMod) % RobDepth = n % RobDepth
  OBVIOUS
<1> DEFINE q == n \div SidMod
           r == n % SidMod
           k == SidMod \div RobDepth
           p == r \div RobDepth
           t == r % RobDepth
<1>1. RobDepth \in Nat \ {0} /\ SidMod \in Nat \ {0} /\ SidMod % RobDepth = 0
  BY RobDepthPositive, SidsCoverSlots
<1>2. n = SidMod * q + r /\ q \in Nat /\ r \in 0 .. SidMod - 1
  BY <1>1, DivMod
<1>3. SidMod = RobDepth * k /\ k \in Nat
  <2>1. SidMod = RobDepth * k + (SidMod % RobDepth) /\ k \in Nat
    BY <1>1, DivMod
  <2> HIDE DEF k
  <2> QED BY <1>1, <2>1
<1>4. r = RobDepth * p + t /\ p \in Nat /\ t \in 0 .. RobDepth - 1
  <2>1. r \in Nat
    BY <1>1, <1>2
  <2> HIDE DEF r
  <2> QED BY <1>1, <2>1, DivMod
<1> HIDE DEF q, r, k, p, t
<1>5. n = RobDepth * (k * q + p) + t /\ k * q + p \in Nat
  <2>1. SidMod * q = RobDepth * (k * q) /\ k * q \in Nat
    BY <1>1, <1>2, <1>3
  <2>2. RobDepth * (k * q + p) = RobDepth * (k * q) + RobDepth * p
    BY <1>1, <1>4, <2>1
  <2> QED BY <1>1, <1>2, <1>4, <2>1, <2>2
<1>6. n % RobDepth = t
  BY <1>1, <1>4, <1>5, ModUnique
<1> QED BY <1>6 DEF t, r

LEMMA NextOfSlot == \A n \in Nat : (n + RobDepth) % RobDepth = n % RobDepth
<1> SUFFICES ASSUME NEW n \in Nat PROVE (n + RobDepth) % RobDepth = n % RobDepth
  OBVIOUS
<1> DEFINE q == n \div RobDepth
           r == n % RobDepth
<1>1. RobDepth \in Nat \ {0}
  BY RobDepthPositive
<1>2. n = RobDepth * q + r /\ q \in Nat /\ r \in 0 .. RobDepth - 1
  BY <1>1, DivMod
<1> HIDE DEF q, r
<1>3. n + RobDepth = RobDepth * (q + 1) + r /\ q + 1 \in Nat
  BY <1>1, <1>2
<1>4. (n + RobDepth) % RobDepth = r
  BY <1>1, <1>2, <1>3, ModUnique
<1> QED BY <1>4 DEF r

\* SIDs outnumber the slots by two or more unless there is only one slot.
LEMMA SidsToSpare == RobDepth = 1 \/ RobDepth + 2 <= SidMod
<1> DEFINE k == SidMod \div RobDepth
<1>1. RobDepth \in Nat \ {0} /\ SidMod \in Nat /\ SidMod > RobDepth /\ SidMod % RobDepth = 0
  BY RobDepthPositive, SidsCoverSlots
<1>2. SidMod = RobDepth * k + (SidMod % RobDepth) /\ k \in Nat
  BY <1>1, DivMod
<1> HIDE DEF k
<1>3. SidMod = RobDepth * k
  BY <1>1, <1>2
<1>4. k # 0 /\ k # 1
  BY <1>1, <1>3
<1>5. \E j \in Nat : k = j + 2
  BY <1>2, <1>4, k - 2 \in Nat, k = (k - 2) + 2
<1>6. PICK j \in Nat : k = j + 2
  BY <1>5
<1>7. RobDepth * k = RobDepth * j + 2 * RobDepth /\ RobDepth * j \in Nat
  BY <1>1, <1>6
<1> QED BY <1>1, <1>3, <1>7

-----------------------------------------------------------------------------
(* No packet leaves after a later one *)

ValidSlots == {i \in RobSlots : robValid[i]}

\* The inductive strengthening of NeverGoesBack.  The commit pointer counts the
\* commits; every packet is still in its slot or cost a commit; a slot in use
\* holds back the packet RobDepth after its own, so that the pointer, which is
\* at most two ahead of the last committed packet, cannot come around to it
\* again; the match vector is at most one commit old.
Tracking ==
    /\ commitPtr = Commits % SidMod
    /\ accepted <= Commits + Cardinality(ValidSlots)
    /\ \A i \in ValidSlots :
          /\ robData[i] < accepted /\ accepted <= robData[i] + RobDepth
          /\ robData[i] % RobDepth = i
          /\ sidPlane[i] = robData[i] % SidMod
          /\ Commits < robData[i] + SidMod
    /\ \A i \in matchPipe :
          robData[i] < accepted /\ robData[i] <= Commits /\ Commits <= robData[i] + 1
    /\ Commits > 0 => tdata < accepted /\ tdata < Commits /\ Commits <= tdata + 2
    /\ \A k \in 1 .. Len(out) : out[k] <= tdata
    /\ \A i, j \in 1 .. Len(out) : i < j => out[i] <= out[j]

RobInv == TypeOK /\ SlotsOwnSids /\ Tracking

LEMMA RobTypesInit == Init => TypeOK
<1> SUFFICES ASSUME Init PROVE TypeOK
  OBVIOUS
<1>1. 0 \in 0 .. SidMod - 1 /\ 0 \in 0 .. MaxPackets
  BY RobDepthPositive, SidsCoverSlots, MaxPacketsNat
<1>2. sidPlane \in [RobSlots -> 0 .. SidMod - 1]
  BY <1>1, Zenon DEF Init
<1>3. robData \in [RobSlots -> Nat] /\ robValid \in [RobSlots -> BOOLEAN]
  BY DEF Init
<1>4. /\ accepted \in 0 .. MaxPackets /\ commitPtr \in 0 .. SidMod - 1 /\ matchPipe \subseteq RobSlots
      /\ tvalid \in BOOLEAN /\ tdata \in Nat
  BY <1>1 DEF Init
<1>5. out \in Seq(Nat)
  BY DEF Init
<1> QED BY <1>2, <1>3, <1>4, <1>5 DEF TypeOK

LEMMA EdgeTypes ==
    ASSUME TypeOK, NEW a \in BOOLEAN, NEW c \in BOOLEAN, NEW w, NEW m, Edge(a, c, w, m)
    PROVE  TypeOK'
<1>1. accepted' \in 0 .. MaxPackets
  BY MaxPacketsNat DEF TypeOK, Edge
<1>2. accepted \in Nat
  BY MaxPacketsNat DEF TypeOK
<1>3. robData' \in [RobSlots -> Nat]
  BY <1>2 DEF TypeOK, Edge
<1>4. commitPtr' \in 0 .. SidMod - 1
  <2>1. commitPtr \in Nat /\ SidMod \in Nat \ {0}
    BY RobDepthPositive, SidsCoverSlots DEF TypeOK
  <2>2. NextPtr(commitPtr) \in 0 .. SidMod - 1
    BY <2>1 DEF NextPtr
  <2> QED BY <2>2 DEF TypeOK, Edge
<1>5. tdata' \in Nat
  BY DEF TypeOK, Edge
<1>6. out' \in Seq(Nat)
  <2>1. out \in Seq(Nat) /\ tdata \in Nat
    BY DEF TypeOK
  <2>2. out' = out \/ out' = Append(out, tdata)
    BY DEF Edge
  <2> QED BY <2>1, <2>2
<1>7. matchPipe' \subseteq RobSlots
  BY DEF Edge, MatchVector
<1>8. robValid' \in [RobSlots -> BOOLEAN] /\ sidPlane' \in [RobSlots -> 0 .. SidMod - 1]
      /\ tvalid' \in BOOLEAN
  BY DEF Edge
<1> QED BY <1>1, <1>3, <1>4, <1>5, <1>6, <1>7, <1>8 DEF TypeOK

LEMMA ValidSlotsFinite ==
    \A V \in SUBSET RobSlots : /\ IsFiniteSet(V) /\ Cardinality(V) \in Nat
                               /\ Cardinality(V) <= RobDepth
<1>1. IsFiniteSet(RobSlots) /\ Cardinality(RobSlots) = RobDepth
  <2>1. 0 \in Int /\ RobDepth - 1 \in Int
    BY RobDepthPositive
  <2>2. /\ IsFiniteSet(RobSlots)
        /\ Cardinality(RobSlots) = IF 0 > RobDepth - 1 THEN 0 ELSE (RobDepth - 1) - 0 + 1
    BY <2>1, FS_Interval DEF RobSlots
  <2> QED BY <2>2, RobDepthPositive
<1> SUFFICES ASSUME NEW V \in SUBSET RobSlots
             PROVE  IsFiniteSet(V) /\ Cardinality(V) \in Nat /\ Cardinality(V) <= RobDepth
  OBVIOUS
<1>2. IsFiniteSet(V) /\ Cardinality(V) <= Cardinality(RobSlots)
  BY <1>1, FS_Subset
<1> QED BY <1>1, <1>2, FS_CardinalityType

\* An edge that accepts adds a valid slot and one that commits takes away at
\* most one; on the same slot they cost at most the new packet.
LEMMA EdgeValidCount ==
    ASSUME TypeOK, NEW a \in BOOLEAN, NEW c \in BOOLEAN, NEW w, NEW m, Edge(a, c, w, m)
    PROVE  Cardinality(ValidSlots) + (IF a THEN 1 ELSE 0)
              <= Cardinality(ValidSlots') + (IF c THEN 1 ELSE 0)
<1> DEFINE V == ValidSlots
           W == ValidSlots'
<1>1. /\ V \in SUBSET RobSlots /\ W \in SUBSET RobSlots
      /\ \A i \in RobSlots : (i \in V <=> robValid[i]) /\ (i \in W <=> robValid'[i])
  BY DEF ValidSlots
<1>2. /\ \A i \in RobSlots : i # w /\ i # m => (i \in W <=> i \in V)
      /\ \A i \in RobSlots : i = w /\ i # m => i \in W
      /\ a => w \in RobSlots /\ w \notin V
      /\ ~a => w \notin RobSlots
      /\ c => m \in RobSlots
      /\ ~c => m \notin RobSlots
  <2>1. NoSlot \notin RobSlots
    BY RobDepthPositive DEF NoSlot, RobSlots
  <2>2. \A i \in RobSlots : i # w /\ i # m => robValid'[i] = robValid[i]
    BY DEF Edge
  <2>3. \A i \in RobSlots : i = w /\ i # m => robValid'[i]
    BY DEF Edge
  <2>4. /\ a => w \in RobSlots /\ ~robValid[w]
        /\ ~a => w = NoSlot
        /\ c => m \in RobSlots
        /\ ~c => m = NoSlot
    BY DEF Edge
  <2> HIDE DEF V, W
  <2> QED BY <1>1, <2>1, <2>2, <2>3, <2>4
<1>3. /\ IsFiniteSet(V) /\ Cardinality(V) \in Nat
      /\ IsFiniteSet(W) /\ Cardinality(W) \in Nat
  BY <1>1, ValidSlotsFinite
<1> HIDE DEF V, W
<1>4. CASE a /\ c
  <2>1. V \subseteq W \cup {m}
    BY <1>1, <1>2, <1>4
  <2>2. CASE m \in W \/ m \notin V
    <3>1. V \subseteq W
      BY <1>1, <1>2, <1>4, <2>1, <2>2
    <3>2. Cardinality(V) <= Cardinality(W)
      BY <1>3, <3>1, FS_Subset
    <3> QED BY <1>3, <1>4, <3>2 DEF V, W
  <2>3. CASE m \notin W /\ m \in V
    <3>1. w \in W /\ w \notin V
      BY <1>2, <1>4, <2>3
    <3>2. V \cup {w} \subseteq W \cup {m}
      BY <2>1, <3>1
    <3>3. /\ IsFiniteSet(V \cup {w}) /\ Cardinality(V \cup {w}) = Cardinality(V) + 1
          /\ IsFiniteSet(W \cup {m}) /\ Cardinality(W \cup {m}) = Cardinality(W) + 1
      BY <1>3, <2>3, <3>1, FS_AddElement
    <3>4. Cardinality(V \cup {w}) <= Cardinality(W \cup {m})
      BY <3>2, <3>3, FS_Subset
    <3> QED BY <1>3, <1>4, <3>3, <3>4 DEF V, W
  <2> QED BY <2>2, <2>3
<1>5. CASE a /\ ~c
  <2>1. V \cup {w} \subseteq W /\ w \notin V
    BY <1>1, <1>2, <1>5
  <2>2. IsFiniteSet(V \cup {w}) /\ Cardinality(V \cup {w}) = Cardinality(V) + 1
    BY <1>3, <2>1, FS_AddElement
  <2>3. Cardinality(V \cup {w}) <= Cardinality(W)
    BY <1>3, <2>1, FS_Subset
  <2> QED BY <1>3, <1>5, <2>2, <2>3 DEF V, W
<1>6. CASE ~a
  <2>1. V \subseteq W \cup {m}
    BY <1>1, <1>2, <1>6
  <2>2. CASE c
    <3>1. IsFiniteSet(W \cup {m}) /\ Cardinality(W \cup {m}) <= Cardinality(W) + 1
          /\ Cardinality(W \cup {m}) \in Nat
      <4>1. CASE m \in W
        <5>1. W \cup {m} = W
          BY <4>1
        <5> QED BY <1>3, <5>1
      <4>2. CASE m \notin W
        <5>1. IsFiniteSet(W \cup {m}) /\ Cardinality(W \cup {m}) = Cardinality(W) + 1
          BY <1>3, <4>2, FS_AddElement
        <5> QED BY <1>3, <5>1
      <4> QED BY <4>1, <4>2
    <3>2. Cardinality(V) <= Cardinality(W \cup {m})
      BY <2>1, <3>1, FS_Subset
    <3> QED BY <1>3, <1>6, <2>2, <3>1, <3>2 DEF V, W
  <2>3. CASE ~c
    <3>1. V \subseteq W
      BY <1>1, <1>2, <1>6, <2>3
    <3>2. Cardinality(V) <= Cardinality(W)
      BY <1>3, <3>1, FS_Subset
    <3> QED BY <1>6, <2>3, <1>3, <3>2 DEF V, W
  <2> QED BY <2>2, <2>3
<1> QED BY <1>4, <1>5, <1>6

LEMMA EdgeTracking ==
    ASSUME RobInv, NEW a \in BOOLEAN, NEW c \in BOOLEAN, NEW w, NEW m, Edge(a, c, w, m)
    PROVE  Tracking'
<1>0. /\ TypeOK /\ Tracking /\ TypeOK'
      /\ RobDepth \in Nat \ {0} /\ SidMod \in Nat /\ SidMod > RobDepth
      /\ accepted \in Nat /\ tdata \in Nat /\ Commits \in Nat
      /\ robData \in [RobSlots -> Nat] /\ robValid \in [RobSlots -> BOOLEAN]
      /\ matchPipe \subseteq RobSlots /\ ValidSlots \in SUBSET RobSlots
      /\ out \in Seq(Nat) /\ Len(out) \in Nat /\ tvalid \in BOOLEAN
  <2>1. TypeOK /\ Tracking
    BY DEF RobInv
  <2>2. out \in Seq(Nat) /\ Len(out) \in Nat /\ tvalid \in BOOLEAN
    BY <2>1 DEF TypeOK
  <2>3. Commits \in Nat
    BY <2>2 DEF Commits
  <2>4. accepted \in Nat
    BY <2>1, MaxPacketsNat DEF TypeOK
  <2> QED BY <2>1, <2>2, <2>3, <2>4, EdgeTypes, RobDepthPositive, SidsCoverSlots
          DEF TypeOK, ValidSlots
<1>1. /\ a => w = accepted % RobDepth /\ w \in RobSlots /\ w \notin ValidSlots
      /\ ~a => w \notin RobSlots
      /\ accepted' = IF a THEN accepted + 1 ELSE accepted
      /\ Commits' = IF c THEN Commits + 1 ELSE Commits
      /\ tdata' = IF c THEN robData[m] ELSE tdata
      /\ \A i \in RobSlots : i # w => robData'[i] = robData[i]
      /\ a => robData'[w] = accepted
  <2>1. WriteIdx = accepted % RobDepth
    BY <1>0, SlotOfSid DEF WriteIdx, IngressSid
  <2>2. NoSlot \notin RobSlots
    BY <1>0 DEF NoSlot, RobSlots
  <2> QED BY <1>0, <2>1, <2>2 DEF Edge, ValidSlots
<1>2. ASSUME c
      PROVE  /\ m \in RobSlots /\ robData[m] \in Nat /\ robData[m] < accepted
             /\ robData[m] <= Commits /\ Commits <= robData[m] + 1
  BY <1>0, <1>2 DEF Edge, Tracking
<1>3. \A i \in ValidSlots' :
          \/ a /\ i = w /\ sidPlane'[i] = accepted % SidMod
          \/ i # w /\ i # m /\ i \in ValidSlots /\ sidPlane'[i] = sidPlane[i]
  <2> SUFFICES ASSUME NEW i \in RobSlots, robValid'[i]
               PROVE  \/ a /\ i = w /\ sidPlane'[i] = accepted % SidMod
                      \/ i # w /\ i # m /\ i \in ValidSlots /\ sidPlane'[i] = sidPlane[i]
    BY DEF ValidSlots
  <2>1. /\ i # w /\ i # m => robValid'[i] = robValid[i] /\ sidPlane'[i] = sidPlane[i]
        /\ i = w => sidPlane'[i] = IngressSid
        /\ ~(i # w /\ i = m)
    BY DEF Edge
  <2>2. CASE i = w
    BY <1>1, <2>1, <2>2 DEF IngressSid
  <2>3. CASE i # w
    BY <2>1, <2>3 DEF ValidSlots
  <2> QED BY <2>2, <2>3
<1>4. \A i \in MatchVector : i \in RobSlots /\ i # w /\ robData[i] = Commits /\ Commits < accepted
  <2> SUFFICES ASSUME NEW i \in MatchVector
               PROVE  i \in RobSlots /\ i # w /\ robData[i] = Commits /\ Commits < accepted
    OBVIOUS
  <2>1. i \in RobSlots /\ i \in ValidSlots /\ sidPlane[i] = commitPtr
    BY DEF MatchVector, ValidSlots
  <2>2. /\ robData[i] \in Nat /\ robData[i] < accepted /\ Commits < robData[i] + SidMod
        /\ robData[i] % SidMod = Commits % SidMod
    BY <1>0, <2>1 DEF Tracking
  <2>3. accepted <= Commits + Cardinality(ValidSlots)
    BY <1>0 DEF Tracking
  <2>4. Cardinality(ValidSlots) \in Nat /\ Cardinality(ValidSlots) <= RobDepth
    BY <1>0, ValidSlotsFinite
  <2>5. robData[i] < Commits + SidMod
    BY <1>0, <2>2, <2>3, <2>4
  <2>6. SidMod \in Nat \ {0}
    BY <1>0
  <2>7. CASE robData[i] <= Commits
    <3>1. robData[i] = Commits
      BY <1>0, <2>2, <2>6, <2>7, ModInjective
    <3> QED BY <1>1, <2>1, <2>2, <3>1
  <2>8. CASE Commits <= robData[i]
    <3>1. Commits = robData[i]
      BY <1>0, <2>2, <2>5, <2>6, <2>8, ModInjective
    <3> QED BY <1>1, <2>1, <2>2, <3>1
  <2> QED BY <1>0, <2>2, <2>7, <2>8
<1>5. commitPtr' = Commits' % SidMod
  <2>1. commitPtr = Commits % SidMod /\ commitPtr' = IF c THEN NextPtr(commitPtr) ELSE commitPtr
    BY <1>0 DEF Tracking, Edge
  <2>2. SidMod \in Nat \ {0}
    BY <1>0
  <2>3. NextPtr(commitPtr) = (Commits + 1) % SidMod
    BY <1>0, <2>1, <2>2, NextMod DEF NextPtr
  <2> QED BY <1>1, <2>1, <2>3
<1>6. accepted' <= Commits' + Cardinality(ValidSlots')
  <2>1. ValidSlots' \in SUBSET RobSlots
    BY DEF ValidSlots
  <2>2. Cardinality(ValidSlots) \in Nat /\ Cardinality(ValidSlots') \in Nat
    BY <1>0, <2>1, ValidSlotsFinite
  <2>3. Cardinality(ValidSlots) + (IF a THEN 1 ELSE 0)
           <= Cardinality(ValidSlots') + (IF c THEN 1 ELSE 0)
    BY <1>0, EdgeValidCount
  <2>4. accepted <= Commits + Cardinality(ValidSlots)
    BY <1>0 DEF Tracking
  <2> QED BY <1>0, <1>1, <2>2, <2>3, <2>4
<1>7. Commits' > 0 => tdata' < accepted' /\ tdata' < Commits' /\ Commits' <= tdata' + 2
  <2>1. CASE c
    BY <1>0, <1>1, <1>2, <2>1
  <2>2. CASE ~c
    BY <1>0, <1>1, <2>2 DEF Tracking
  <2> QED BY <2>1, <2>2
<1>8. Commits' <= accepted + 1
  <2>1. CASE c
    BY <1>0, <1>1, <1>2, <2>1
  <2>2. CASE ~c
    BY <1>0, <1>1, <2>2 DEF Tracking
  <2> QED BY <2>1, <2>2
<1>9. ASSUME NEW i \in ValidSlots'
      PROVE  /\ robData'[i] < accepted' /\ accepted' <= robData'[i] + RobDepth
             /\ robData'[i] % RobDepth = i
             /\ sidPlane'[i] = robData'[i] % SidMod
             /\ Commits' < robData'[i] + SidMod
  <2>1. CASE a /\ i = w /\ sidPlane'[i] = accepted % SidMod
    <3>1. robData'[i] = accepted /\ accepted' = accepted + 1 /\ accepted % RobDepth = i
      BY <1>1, <2>1
    <3>2. /\ RobDepth \in Nat \ {0} /\ SidMod \in Nat /\ SidMod > RobDepth
          /\ accepted \in Nat /\ Commits' \in Nat /\ Commits' <= accepted + 1
      BY <1>0, <1>1, <1>8
    <3>3. accepted < accepted' /\ accepted' <= accepted + RobDepth /\ Commits' < accepted + SidMod
      BY <3>1, <3>2
    <3> QED BY <2>1, <3>1, <3>3
  <2>2. CASE i # w /\ i # m /\ i \in ValidSlots /\ sidPlane'[i] = sidPlane[i]
    <3>1. /\ i \in RobSlots /\ robData'[i] = robData[i] /\ robData[i] \in Nat
          /\ robData[i] < accepted /\ accepted <= robData[i] + RobDepth
          /\ robData[i] % RobDepth = i /\ sidPlane[i] = robData[i] % SidMod
          /\ Commits < robData[i] + SidMod
      BY <1>0, <1>1, <2>2 DEF Tracking
    <3>2. accepted' <= robData[i] + RobDepth
      <4>1. a => accepted # robData[i] + RobDepth
        BY <1>1, <2>2, <3>1, NextOfSlot
      <4>2. /\ robData[i] \in Nat /\ accepted \in Nat /\ RobDepth \in Nat
            /\ accepted <= robData[i] + RobDepth
        BY <1>0, <3>1
      <4>3. CASE a
        <5>1. accepted' = accepted + 1 /\ accepted # robData[i] + RobDepth
          BY <1>1, <4>1, <4>3
        <5> QED BY <4>2, <5>1
      <4>4. CASE ~a
        BY <1>1, <4>2, <4>4
      <4> QED BY <4>3, <4>4
    <3>3. Commits' < robData[i] + SidMod
      <4>1. CASE c
        <5>1. RobDepth # 1
          BY <1>2, <2>2, <3>1, <4>1 DEF RobSlots
        <5>2. RobDepth + 2 <= SidMod
          BY <5>1, SidsToSpare
        <5>3. Commits' \in Nat
          BY <1>0, <1>1
        <5> QED BY <1>0, <1>8, <3>1, <5>2, <5>3
      <4>2. CASE ~c
        BY <1>1, <3>1, <4>2
      <4> QED BY <4>1, <4>2
    <3> QED BY <1>0, <1>1, <2>2, <3>1, <3>2, <3>3
  <2> QED BY <1>3, <2>1, <2>2
<1>10. ASSUME NEW i \in matchPipe'
       PROVE  robData'[i] < accepted' /\ robData'[i] <= Commits' /\ Commits' <= robData'[i] + 1
  <2>1. i \in MatchVector
    BY DEF Edge
  <2> QED BY <1>0, <1>1, <1>4, <2>1
<1>11. /\ \A k \in 1 .. Len(out') : out'[k] <= tdata'
       /\ \A i, j \in 1 .. Len(out') : i < j => out'[i] <= out'[j]
  <2>0. \A k \in 1 .. Len(out) : out[k] \in Nat
    BY <1>0
  <2>1. Commits > 0 => tdata <= tdata' /\ tdata' \in Nat
    BY <1>0, <1>1, <1>2 DEF Tracking
  <2>2. Len(out) > 0 => Commits > 0
    BY <1>0 DEF Commits
  <2>3. tvalid => Commits > 0
    BY <1>0 DEF Commits
  <2>4. /\ \A k \in 1 .. Len(out) : out[k] <= tdata
        /\ \A i, j \in 1 .. Len(out) : i < j => out[i] <= out[j]
    BY <1>0 DEF Tracking
  <2>5. CASE out' = out
    <3>1. ASSUME NEW k \in 1 .. Len(out) PROVE out[k] <= tdata'
      <4>1. Len(out) > 0
        BY <1>0
      <4> QED BY <1>0, <2>0, <2>1, <2>2, <2>4, <4>1
    <3> QED BY <2>4, <2>5, <3>1
  <2>6. CASE tvalid /\ out' = Append(out, tdata)
    <3>1. /\ Len(out') = Len(out) + 1 /\ out'[Len(out) + 1] = tdata
          /\ \A k \in 1 .. Len(out) : out'[k] = out[k]
      BY <1>0, <2>6
    <3>2. tdata <= tdata' /\ tdata' \in Nat
      BY <2>1, <2>3, <2>6
    <3>3. ASSUME NEW k \in 1 .. Len(out')
          PROVE  out'[k] <= tdata /\ out'[k] \in Nat /\ (k \in 1 .. Len(out) \/ k = Len(out) + 1)
      <4>1. k \in 1 .. Len(out) \/ k = Len(out) + 1
        BY <1>0, <3>1
      <4> QED BY <1>0, <2>0, <2>4, <3>1, <4>1
    <3>4. ASSUME NEW k \in 1 .. Len(out') PROVE out'[k] <= tdata'
      BY <1>0, <3>2, <3>3
    <3>5. ASSUME NEW i \in 1 .. Len(out'), NEW j \in 1 .. Len(out'), i < j
          PROVE  out'[i] <= out'[j]
      <4>1. CASE j = Len(out) + 1
        BY <3>1, <3>3, <4>1
      <4>2. CASE j \in 1 .. Len(out)
        <5>1. i \in 1 .. Len(out)
          BY <1>0, <3>1, <3>5, <4>2
        <5> QED BY <2>4, <3>1, <3>5, <4>2, <5>1
      <4> QED BY <3>3, <4>1, <4>2
    <3> QED BY <3>4, <3>5
  <2> QED BY <2>5, <2>6 DEF Edge
<1> QED BY <1>5, <1>6, <1>7, <1>9, <1>10, <1>11 DEF Tracking

LEMMA RobInvInit == Init => RobInv
<1> SUFFICES ASSUME Init PROVE RobInv
  OBVIOUS
<1>1. Len(out) = 0 /\ Commits = 0 /\ 0 % SidMod = 0 /\ ValidSlots = {} /\ matchPipe = {}
  BY RobDepthPositive, SidsCoverSlots DEF Init, Commits, ValidSlots
<1>2. Cardinality({}) = 0
  BY FS_EmptySet
<1>3. Tracking
  BY <1>1, <1>2 DEF Init, Tracking
<1> QED BY <1>3, RobTypesInit, SlotsOwnSidsInit DEF RobInv

LEMMA ResetTracking == ASSUME TypeOK, Reset PROVE TypeOK' /\ Tracking'
<1>1. 0 \in 0 .. SidMod - 1 /\ 0 \in 0 .. MaxPackets /\ 0 % SidMod = 0
  BY RobDepthPositive, SidsCoverSlots, MaxPacketsNat
<1>2. /\ accepted' = 0 /\ robValid' = [i \in RobSlots |-> FALSE]
      /\ sidPlane' = [i \in RobSlots |-> 0] /\ matchPipe' = {} /\ commitPtr' = 0
      /\ tvalid' = FALSE /\ out' = << >> /\ robData' = robData /\ tdata' = tdata
  BY DEF Reset
<1>3. TypeOK'
  <2>1. sidPlane' \in [RobSlots -> 0 .. SidMod - 1] /\ robValid' \in [RobSlots -> BOOLEAN]
    BY <1>1, <1>2, Zenon
  <2>2. out' \in Seq(Nat)
    BY <1>2
  <2> QED BY <1>1, <1>2, <2>1, <2>2 DEF TypeOK
<1>4. Len(out') = 0 /\ Commits' = 0 /\ ValidSlots' = {}
  BY <1>2 DEF Commits, ValidSlots
<1>5. Cardinality({}) = 0
  BY FS_EmptySet
<1>6. Tracking'
  BY <1>1, <1>2, <1>4, <1>5 DEF Tracking
<1> QED BY <1>3, <1>6

LEMMA RobInvNext == RobInv /\ [Next]_robVars => RobInv'
<1> SUFFICES ASSUME RobInv, [Next]_robVars PROVE RobInv'
  OBVIOUS
<1>0. TypeOK /\ SlotsOwnSids /\ Tracking /\ MatchIsUnique
  BY DEF RobInv, SlotsOwnSids
<1>1. SlotsOwnSids'
  BY <1>0, SlotsOwnSidsNext
<1>2. CASE Reset
  BY <1>0, <1>1, <1>2, ResetTracking DEF RobInv
<1>3. ASSUME NEW inValid \in BOOLEAN, NEW outReady \in BOOLEAN, Clock(inValid, outReady)
      PROVE  RobInv'
  <2>1. PICK a \in BOOLEAN, c \in BOOLEAN, w \in 0 .. RobDepth, m \in 0 .. RobDepth :
            Edge(a, c, w, m)
    BY <1>0, <1>3, ClockIsEdge
  <2>2. TypeOK' /\ Tracking'
    BY <1>0, <2>1, EdgeTypes, EdgeTracking
  <2> QED BY <1>1, <2>2 DEF RobInv
<1>4. CASE UNCHANGED robVars
  <2>1. /\ accepted' = accepted /\ robData' = robData /\ robValid' = robValid
        /\ sidPlane' = sidPlane /\ commitPtr' = commitPtr /\ matchPipe' = matchPipe
        /\ tvalid' = tvalid /\ tdata' = tdata /\ out' = out
    BY <1>4 DEF robVars
  <2>2. Commits' = Commits /\ ValidSlots' = ValidSlots
    BY <2>1 DEF Commits, ValidSlots
  <2>3. TypeOK'
    BY <1>0, <2>1 DEF TypeOK
  <2>4. Tracking'
    BY <1>0, <2>1, <2>2 DEF Tracking
  <2> QED BY <1>1, <2>3, <2>4 DEF RobInv
<1> QED BY <1>2, <1>3, <1>4 DEF Next

\* For every depth and SID width of otap_rob_bitweave.v, and although the match
\* vector lags the commit pointer by an edge and a slot may be written and
\* committed on the same edge: what leaves was accepted since the last reset,
\* and no packet leaves after a later one.
THEOREM OrderIsKept == Spec => []NeverGoesBack
<1>1. RobInv => NeverGoesBack
  <2> SUFFICES ASSUME RobInv PROVE NeverGoesBack
    OBVIOUS
  <2>1. TypeOK /\ Tracking /\ out \in Seq(Nat) /\ Len(out) \in Nat /\ accepted \in Nat /\ tdata \in Nat
    BY MaxPacketsNat DEF RobInv, TypeOK
  <2>2. ASSUME NEW i \in 1 .. Len(out) PROVE out[i] < accepted
    <3>1. Commits > 0
      BY <2>1 DEF Commits, TypeOK
    <3>2. tdata < accepted /\ out[i] <= tdata /\ out[i] \in Nat
      BY <2>1, <3>1 DEF Tracking
    <3> QED BY <2>1, <3>2
  <2> QED BY <2>1, <2>2 DEF NeverGoesBack, Tracking
<1> QED BY <1>1, RobInvInit, RobInvNext, PTL DEF Spec

=============================================================================
