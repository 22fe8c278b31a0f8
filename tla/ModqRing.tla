------------------------------ MODULE ModqRing -------------------------------
(***************************************************************************)
(* The MODQ ring in BAR memory (crates/otap-modq/src/ring.rs, lib.rs) with *)
(* its two ends: the host, which submits and polls through one             *)
(* &mut ModqQueue and so does one thing at a time, and the device, which   *)
(* runs beside it.  Every step is one volatile access that the other end   *)
(* can observe; accesses to a slot's payload and header, which the other   *)
(* end ignores while the status forbids it, are grouped.  A message is its *)
(* submission number; the SID is that number modulo the register's width. *)
(***************************************************************************)
EXTENDS Naturals, Sequences, FiniteSets

CONSTANTS Depth,         \* ring_depth, a power of two
          SidMod,        \* number of SID values (2^32 in the code)
          Modes,         \* [transport, checked] pairs to consider; submissions are
                         \* checked (submit) or not (submit_unchecked)
          MaxSubmits,    \* bound on the submissions of one host incarnation
          MaxRestarts    \* bound on host restarts

ASSUME DepthPositive == Depth \in Nat \ {0}
ASSUME SidsOutnumberSlots == SidMod \in Nat /\ SidMod >= Depth
ASSUME ModesKnown == Modes \subseteq [transport : {"Loopback", "PciBar"}, checked : BOOLEAN]
ASSUME RingBoundsNat == MaxSubmits \in Nat /\ MaxRestarts \in Nat

VARIABLES slots,         \* [status, sid, data] per slot
          hpc,           \* where the host is
          opening,       \* slots cleared so far by open
          tail, nextSid, \* TxRing
          head,          \* CompletionRing
          dpc, devHead,  \* the device
          received,      \* messages the device has read, in order
          completed,     \* SIDs poll has returned, in order
          restarts,      \* restarts of the host so far
          mode           \* transport and kind of submission, fixed

hostVars == <<hpc, opening, tail, nextSid, head>>
devVars == <<dpc, devHead, received>>
ringState == <<slots, hostVars, devVars, completed, restarts>>
ringVars == <<ringState, mode>>

Index(n) == n % Depth
Slots == 0 .. Depth - 1
Status == {"FREE", "READY", "DONE"}

-----------------------------------------------------------------------------
(* The host *)

\* ModqQueue::open clears the slots one by one, in shared memory only.
OpenSlot ==
    /\ hpc = "opening" /\ opening < Depth
    /\ mode.transport = "Loopback"
    /\ slots' = [slots EXCEPT ![opening].status = "FREE"]
    /\ opening' = opening + 1
    /\ UNCHANGED <<hpc, tail, nextSid, head, devVars, completed, restarts>>

OpenDone ==
    /\ hpc = "opening"
    /\ mode.transport = "Loopback" => opening = Depth
    /\ hpc' = "idle"
    /\ UNCHANGED <<slots, opening, tail, nextSid, head, devVars, completed, restarts>>

SubmitBegin ==
    /\ hpc = "idle" /\ tail < MaxSubmits
    /\ hpc' = "spinning"
    /\ UNCHANGED <<slots, opening, tail, nextSid, head, devVars, completed, restarts>>

MutantCopyWithoutWaiting ==
    /\ hpc = "spinning"
    /\ slots' = [slots EXCEPT ![Index(tail)].data = tail]
    /\ hpc' = "copied"
    /\ UNCHANGED <<opening, tail, nextSid, head, devVars, completed, restarts>>

\* The spin ends on a FREE slot and the payload is copied.
Copy ==
    /\ hpc = "spinning"
    /\ slots[Index(tail)].status = "FREE"
    /\ slots' = [slots EXCEPT ![Index(tail)].data = tail]
    /\ hpc' = "copied"
    /\ UNCHANGED <<opening, tail, nextSid, head, devVars, completed, restarts>>

\* The spin limit of submit; submit_unchecked has none.
Timeout ==
    /\ mode.checked
    /\ hpc = "spinning"
    /\ slots[Index(tail)].status # "FREE"
    /\ hpc' = "idle"
    /\ UNCHANGED <<slots, opening, tail, nextSid, head, devVars, completed, restarts>>

MutantHeaderPublishes ==
    /\ hpc = "copied"
    /\ slots' = [slots EXCEPT ![Index(tail)].status = "READY"]
    /\ hpc' = "tagged"
    /\ UNCHANGED <<opening, tail, nextSid, head, devVars, completed, restarts>>

WriteHeader ==
    /\ hpc = "copied"
    /\ slots' = [slots EXCEPT ![Index(tail)].sid = nextSid]
    /\ hpc' = "tagged"
    /\ UNCHANGED <<opening, tail, nextSid, head, devVars, completed, restarts>>

\* After the release fence.
Publish ==
    /\ hpc = "tagged"
    /\ slots' = [slots EXCEPT ![Index(tail)].status = "READY"]
    /\ hpc' = "published"
    /\ UNCHANGED <<opening, tail, nextSid, head, devVars, completed, restarts>>

MutantSidNotWrapped ==
    /\ hpc = "published"
    /\ tail' = tail + 1
    /\ nextSid' = nextSid + 1
    /\ hpc' = "idle"
    /\ UNCHANGED <<slots, opening, head, devVars, completed, restarts>>

\* Counters and the write-only doorbell.
Advance ==
    /\ hpc = "published"
    /\ tail' = tail + 1
    /\ nextSid' = (nextSid + 1) % SidMod
    /\ hpc' = "idle"
    /\ UNCHANGED <<slots, opening, head, devVars, completed, restarts>>

MutantPollReportsLatest ==
    /\ hpc = "idle"
    /\ slots[Index(head)].status = "DONE"
    /\ completed' = Append(completed, nextSid)
    /\ slots' = [slots EXCEPT ![Index(head)].status = "FREE"]
    /\ head' = head + 1
    /\ UNCHANGED <<hpc, opening, tail, nextSid, devVars, restarts>>

\* A poll that finds nothing DONE returns None and changes nothing.
Poll ==
    /\ hpc = "idle"
    /\ slots[Index(head)].status = "DONE"
    /\ completed' = Append(completed, slots[Index(head)].sid)
    /\ slots' = [slots EXCEPT ![Index(head)].status = "FREE"]
    /\ head' = head + 1
    /\ UNCHANGED <<hpc, opening, tail, nextSid, devVars, restarts>>

\* The host process dies and a new one opens the same memory.  The simulated
\* consumer is a thread of that process, started before open; the FPGA stays
\* where it was.
Restart ==
    /\ restarts < MaxRestarts
    /\ restarts' = restarts + 1
    /\ hpc' = "opening" /\ opening' = 0
    /\ tail' = 0 /\ nextSid' = 0 /\ head' = 0
    /\ \/ mode.transport = "PciBar" /\ UNCHANGED <<dpc, devHead>>
       \/ mode.transport = "Loopback" /\ dpc' = "idle" /\ devHead' = 0
    /\ UNCHANGED <<slots, received, completed>>

Host == OpenSlot \/ OpenDone \/ SubmitBegin \/ Copy \/ Timeout
            \/ WriteHeader \/ Publish \/ Advance \/ Poll

-----------------------------------------------------------------------------
(* The device: the simulated consumer of modq_loopback.rs, which frees the  *)
(* slot itself, or the FPGA behind the PCI BAR, which marks it DONE as      *)
(* CompletionRing expects.                                                 *)

DevTake ==
    /\ dpc = "idle"
    /\ slots[Index(devHead)].status = "READY"
    /\ received' = Append(received, slots[Index(devHead)].data)
    /\ dpc' = "busy"
    /\ UNCHANGED <<slots, hostVars, devHead, completed, restarts>>

MutantDevSkips ==
    /\ dpc = "busy"
    /\ slots' = [slots EXCEPT ![Index(devHead)].status =
                    IF mode.transport = "Loopback" THEN "FREE" ELSE "DONE"]
    /\ devHead' = devHead + 2
    /\ dpc' = "idle"
    /\ UNCHANGED <<hostVars, received, completed, restarts>>

DevFinish ==
    /\ dpc = "busy"
    /\ slots' = [slots EXCEPT ![Index(devHead)].status =
                    IF mode.transport = "Loopback" THEN "FREE" ELSE "DONE"]
    /\ devHead' = devHead + 1
    /\ dpc' = "idle"
    /\ UNCHANGED <<hostVars, received, completed, restarts>>

-----------------------------------------------------------------------------
Init ==
    /\ slots = [i \in Slots |-> [status |-> "FREE", sid |-> 0, data |-> 0]]
    /\ hpc = "opening" /\ opening = 0
    /\ tail = 0 /\ nextSid = 0 /\ head = 0
    /\ dpc = "idle" /\ devHead = 0
    /\ received = << >> /\ completed = << >>
    /\ restarts = 0
    /\ mode \in Modes

Next == (Host \/ Restart \/ DevTake \/ DevFinish) /\ UNCHANGED mode

Spec == Init /\ [][Next]_ringVars

\* The host thread runs, its application keeps polling between submissions,
\* and the device runs.
FairSpec ==
    /\ Spec
    /\ WF_ringState(OpenSlot \/ OpenDone \/ Copy \/ Timeout \/ WriteHeader \/ Publish \/ Advance)
    /\ SF_ringState(Poll)
    /\ WF_ringState(DevTake \/ DevFinish)

-----------------------------------------------------------------------------
(* Properties *)

\* Every register, slot and counter holds a value of its type.
TypeOK ==
    /\ slots \in [Slots -> [status : Status, sid : 0 .. SidMod - 1, data : Nat]]
    /\ hpc \in {"opening", "idle", "spinning", "copied", "tagged", "published"}
    /\ opening \in 0 .. Depth
    /\ tail \in Nat /\ nextSid \in 0 .. SidMod - 1 /\ head \in Nat
    /\ dpc \in {"idle", "busy"} /\ devHead \in Nat
    /\ received \in Seq(Nat) /\ completed \in Seq(0 .. SidMod - 1)
    /\ restarts \in Nat /\ mode \in Modes

\* A slot the device may read is whole: payload and SID belong to the same
\* submission, even when an earlier host died between any two of its writes.
ReadyIsCoherent ==
    \A i \in Slots : slots[i].status = "READY" =>
        /\ slots[i].sid = slots[i].data % SidMod
        /\ Index(slots[i].data) = i

\* What the ring promises beyond that it promises to one host process: a new
\* one starts at slot 0 again, wherever the device is (and a new simulated
\* consumer may take slots the last process left READY).
FirstHost == restarts = 0

\* poll returns the SIDs in submission order, without a gap or a repeat.
CompletionsInOrder ==
    FirstHost =>
        /\ \A i \in 1 .. Len(completed) : completed[i] = (i - 1) % SidMod
        /\ Len(completed) <= Len(received)

\* The ring is a bounded FIFO.  The abstract queue is read off the slots: the
\* READY ones from the device's position on, but for the one being processed.
ReadyCount == Cardinality({i \in Slots : slots[i].status = "READY"})
Busy == IF dpc = "busy" THEN 1 ELSE 0
Waiting == [k \in 1 .. (ReadyCount - Busy) |-> slots[Index(devHead + Busy + k - 1)].data]

Fifo == INSTANCE ModqFifo WITH
    Capacity <- Depth, open <- FirstHost, queue <- Waiting

FifoSpec == Fifo!Spec

\* A submission that starts comes to an end, unless every slot waits for a
\* poll the spinning host cannot make.
SubmitEndsOrFull ==
    FirstHost /\ hpc = "spinning"
        ~> hpc = "idle" \/ (\A i \in Slots : slots[i].status = "DONE") \/ ~FirstHost

\* Every message submitted to an FPGA with submit is eventually reported by
\* poll.
PublishedIsCompleted ==
    \A n \in 1 .. MaxSubmits :
        FirstHost /\ mode = [transport |-> "PciBar", checked |-> TRUE] /\ tail = n
            ~> Len(completed) >= n \/ ~FirstHost

=============================================================================
