---------------------------- MODULE RobBitweave ------------------------------
(***************************************************************************)
(* The reorder buffer rtl/otap_rob_bitweave.v, one action per clock edge:   *)
(* every register takes its next value from the old values at once.        *)
(* A packet is its arrival number; the SID planes of a slot are its SID.   *)
(* Beats without tlast change nothing and are left out.                    *)
(***************************************************************************)
EXTENDS Naturals, Sequences, FiniteSetsExt

CONSTANTS RobDepth,     \* ROB_DEPTH
          SidMod,       \* 2^SID_WIDTH
          MaxPackets    \* bound on the packets accepted between resets

ASSUME RobDepthPositive == RobDepth \in Nat \ {0}
ASSUME SidsCoverSlots == SidMod \in Nat /\ SidMod > RobDepth /\ SidMod % RobDepth = 0
ASSUME MaxPacketsNat == MaxPackets \in Nat

VARIABLES accepted,     \* packets accepted; ingress_sid is this modulo SidMod
          robData, robValid, sidPlane,
          commitPtr,
          matchPipe,    \* the pipelined match vector, as a set of slots
          tvalid, tdata,
          out           \* packets handed over at m_axis, in order

robVars == <<accepted, robData, robValid, sidPlane, commitPtr, matchPipe, tvalid, tdata, out>>

RobSlots == 0 .. RobDepth - 1
IngressSid == accepted % SidMod
WriteIdx == IngressSid % RobDepth
MutantAlwaysReady == TRUE

TReady == ~robValid[WriteIdx]

MutantMatchIgnoresValid == {i \in RobSlots : sidPlane[i] = commitPtr}

\* The match vector is computed from the commit pointer as it was before this
\* edge and registered for the next one.
MatchVector == {i \in RobSlots : robValid[i] /\ sidPlane[i] = commitPtr}

\* The two always blocks both drive rob_valid and sid_plane: when they address
\* the same slot on one edge, either assignment may be the last.
SlotAfter(i, written, committed) ==
    CASE i = written /\ i = committed -> {<<TRUE, IngressSid>>, <<FALSE, 0>>}
      [] i = written /\ i # committed -> {<<TRUE, IngressSid>>}
      [] i # written /\ i = committed -> {<<FALSE, 0>>}
      [] OTHER                        -> {<<robValid[i], sidPlane[i]>>}

NoSlot == RobDepth

NextPtr(p) == (p + 1) % SidMod

Clock(inValid, outReady) ==
    LET accept == inValid /\ TReady
        commit == (outReady \/ ~tvalid) /\ matchPipe # {}
        mi     == IF commit THEN Min(matchPipe) ELSE NoSlot
        wi     == IF accept THEN WriteIdx ELSE NoSlot
    IN  /\ accept => accepted < MaxPackets
        /\ \E after \in [RobSlots -> BOOLEAN \X (0 .. SidMod - 1)] :
              /\ \A i \in RobSlots : after[i] \in SlotAfter(i, wi, mi)
              /\ robValid' = [i \in RobSlots |-> after[i][1]]
              /\ sidPlane' = [i \in RobSlots |-> after[i][2]]
        /\ accepted' = IF accept THEN accepted + 1 ELSE accepted
        /\ robData' = IF accept THEN [robData EXCEPT ![wi] = accepted] ELSE robData
        /\ matchPipe' = MatchVector
        /\ commitPtr' = IF commit THEN NextPtr(commitPtr) ELSE commitPtr
        /\ tdata' = IF commit THEN robData[mi] ELSE tdata
        /\ tvalid' = IF outReady \/ ~tvalid THEN commit ELSE tvalid
        /\ out' = IF tvalid /\ outReady THEN Append(out, tdata) ELSE out

\* rst: the data registers keep their contents.
Reset ==
    /\ accepted' = 0
    /\ robValid' = [i \in RobSlots |-> FALSE]
    /\ sidPlane' = [i \in RobSlots |-> 0]
    /\ matchPipe' = {}
    /\ commitPtr' = 0
    /\ tvalid' = FALSE
    /\ out' = << >>
    /\ UNCHANGED <<robData, tdata>>

Init ==
    /\ accepted = 0
    /\ robData = [i \in RobSlots |-> 0]
    /\ robValid = [i \in RobSlots |-> FALSE]
    /\ sidPlane = [i \in RobSlots |-> 0]
    /\ commitPtr = 0
    /\ matchPipe = {}
    /\ tvalid = FALSE /\ tdata = 0
    /\ out = << >>

Next == Reset \/ \E inValid, outReady \in BOOLEAN : Clock(inValid, outReady)

Spec == Init /\ [][Next]_robVars

-----------------------------------------------------------------------------
(* Properties *)

\* Every register holds a value of its width.
TypeOK ==
    /\ accepted \in 0 .. MaxPackets
    /\ robData \in [RobSlots -> Nat] /\ robValid \in [RobSlots -> BOOLEAN]
    /\ sidPlane \in [RobSlots -> 0 .. SidMod - 1]
    /\ commitPtr \in 0 .. SidMod - 1
    /\ matchPipe \subseteq RobSlots
    /\ tvalid \in BOOLEAN /\ tdata \in Nat
    /\ out \in Seq(Nat)

\* The bit-plane scan never finds two slots for one commit pointer, so the
\* priority encoder never has to choose.
MatchIsUnique == \A i, j \in matchPipe : i = j

\* What leaves the buffer was accepted since the last reset, and no packet
\* leaves after a later one.
NeverGoesBack ==
    /\ \A i \in 1 .. Len(out) : out[i] < accepted
    /\ \A i, j \in 1 .. Len(out) : i < j => out[i] <= out[j]

=============================================================================
