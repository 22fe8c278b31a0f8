----------------------------- MODULE ReplayCache -----------------------------
(***************************************************************************)
(* The persistent replay cache of D3 handshakes                            *)
(* (crates/luxstream-otap-d3/src/replay_cache.rs): a ring of transcript     *)
(* hashes in memory and its copy in a file.  An insertion is in memory     *)
(* first, then on disk; it can fail or die in between.                     *)
(***************************************************************************)
EXTENDS Naturals, SequencesExt

CONSTANTS Hashes,        \* transcript hashes
          Capacity,
          FaultSets,     \* choices of what may happen: "restart", "crash", "write"
          MaxInserts     \* bound on accepted insertions

ASSUME CapacityPositive == Capacity \in Nat \ {0}
ASSUME ReplayFaultsKnown == FaultSets \subseteq SUBSET {"restart", "crash", "write"}
ASSUME MaxInsertsNat == MaxInserts \in Nat

VARIABLES mem,           \* in_memory_cache
          idx,           \* current_idx
          disk,          \* the file, one entry per hash
          accepted,      \* hashes check_and_insert returned Ok for, in order
          faults         \* what happens in this behaviour, fixed from the start

cacheVars == <<mem, idx, disk, accepted, faults>>

\* A file entry no transcript equals: zeros from set_len, or a torn write.
Zero == "zero"

ASSUME ZeroIsNoHash == Zero \notin Hashes

-----------------------------------------------------------------------------
MutantOpenForgets(file) ==
    /\ mem' = << >>
    /\ idx' = Len(file) % Capacity
    /\ disk' = file \o [i \in 1 .. (Capacity - Len(file)) |-> Zero]

\* open: whatever the file holds, the zeros it was extended with included, is
\* loaded; the index restarts at the number of entries loaded.
Open(file) ==
    /\ mem' = file
    /\ idx' = Len(file) % Capacity
    /\ disk' = file \o [i \in 1 .. (Capacity - Len(file)) |-> Zero]

Seen(h) == \E i \in 1 .. Len(mem) : mem[i] = h

\* The memory ring after an insertion.
Remember(h) == IF Len(mem) < Capacity THEN Append(mem, h) ELSE [mem EXCEPT ![idx + 1] = h]

Stored(h) == [disk EXCEPT ![idx + 1] = h]

\* The file after an insertion that did not come to its end: the slot may have
\* been written or not, or hold part of the hash.
Interrupted(h) == {disk, Stored(h), Stored(Zero)}

MutantInsertKeepsIndex(h) ==
    /\ ~Seen(h)
    /\ Len(accepted) < MaxInserts
    /\ mem' = Remember(h)
    /\ disk' = Stored(h)
    /\ accepted' = Append(accepted, h)
    /\ UNCHANGED idx

\* check_and_insert that returns Ok; a hash already seen changes nothing.
CheckAndInsert(h) ==
    /\ ~Seen(h)
    /\ Len(accepted) < MaxInserts
    /\ mem' = Remember(h)
    /\ disk' = Stored(h)
    /\ idx' = (idx + 1) % Capacity
    /\ accepted' = Append(accepted, h)

MutantFailureAdvances(h) ==
    /\ "write" \in faults
    /\ ~Seen(h)
    /\ mem' = Remember(h)
    /\ disk' \in Interrupted(h)
    /\ idx' = (idx + 1) % Capacity
    /\ UNCHANGED accepted

\* Seek, write or sync fails: memory has changed, the file may have, the index
\* has not.
InsertFails(h) ==
    /\ "write" \in faults
    /\ ~Seen(h)
    /\ mem' = Remember(h)
    /\ disk' \in Interrupted(h)
    /\ UNCHANGED <<idx, accepted>>

\* The process dies inside an insertion and is started again.
Crash(h) ==
    /\ "crash" \in faults
    /\ ~Seen(h)
    /\ \E file \in Interrupted(h) : Open(file)
    /\ UNCHANGED accepted

\* The process ends between insertions and is started again.
Restart ==
    /\ "restart" \in faults
    /\ Open(disk)
    /\ UNCHANGED accepted

\* After the first open, which found an empty file and extended it.
CacheInit ==
    /\ mem = << >> /\ idx = 0
    /\ disk = [i \in 1 .. Capacity |-> Zero]
    /\ accepted = << >>
    /\ faults \in FaultSets

CacheNext ==
    /\ \/ \E h \in Hashes : CheckAndInsert(h) \/ InsertFails(h) \/ Crash(h)
       \/ Restart
    /\ UNCHANGED faults

CacheSpec == CacheInit /\ [][CacheNext]_cacheVars

-----------------------------------------------------------------------------
(* Properties *)

\* The rings hold hashes, never more than the capacity.
TypeOK ==
    /\ mem \in Seq(Hashes \union {Zero}) /\ Len(mem) <= Capacity
    /\ idx \in 0 .. Capacity - 1
    /\ disk \in [1 .. Capacity -> Hashes \union {Zero}]
    /\ accepted \in Seq(Hashes) /\ faults \in FaultSets

\* Each of the last Capacity accepted hashes would be rejected now.
RecentRejected ==
    \A i \in 1 .. Len(accepted) : i + Capacity > Len(accepted) => Seen(accepted[i])

\* As long as the process lives and its file can be written, the cache
\* rejects what it accepted among the last Capacity hashes.
RecentRejectedWhileUp == faults = {} => RecentRejected

\* However many insertions failed to write, and wherever the process then dies
\* inside another one: the file that the next open loads holds the last
\* Capacity - 1 hashes the process accepted.  Only the slot of the oldest one is
\* ever at risk, because the index moves on last.
RecentSurviveCrash ==
    faults \subseteq {"write"} =>
        \A h \in Hashes : \A file \in Interrupted(h) : \A i \in 1 .. Len(accepted) :
            i + Capacity > Len(accepted) + 1 => \E p \in 1 .. Capacity : file[p] = accepted[i]

\* Across clean restarts too, the hash accepted last is rejected if it comes
\* again at once: it survives although the restart resets the index.
NewestRejected ==
    faults \subseteq {"restart"} /\ accepted # << >> => Seen(Last(accepted))

=============================================================================
