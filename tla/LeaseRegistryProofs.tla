------------------------- MODULE LeaseRegistryProofs -------------------------
(***************************************************************************)
(* Proofs about the lease registry, for any number of leases, wavelengths, *)
(* durations and any bounds.                                               *)
(***************************************************************************)
EXTENDS LeaseRegistry, FiniteSetTheorems, TLAPS

\* The fields a lease record has, whatever its status.
LEMMA RecordFields ==
    ASSUME NEW r \in LeaseRecord \union {NoLease}, r.status # "NONE"
    PROVE  /\ r \in LeaseRecord /\ r.wl \in Wavelengths
           /\ r.start \in Nat /\ r.end \in Nat /\ r.tokenHash \in TokenHash
           /\ r.status \in {"ACTIVE", "EXPIRED", "REVOKED"}
BY DEF LeaseRecord, NoLease

\* An operation's end keeps the types of what it touches.
LEMMA FinishType ==
    ASSUME TypeOK, NEW op \in Operations, NEW l \in LeaseIds \union {Registry},
           NEW issued, issued \subseteq Token, Finish(op, l, issued)
    PROVE  /\ tokens' \subseteq Token /\ lost' \subseteq Token
           /\ blockHeight' \in 0 .. MaxHeight
           /\ audit' \subseteq Operations \X (LeaseIds \union {Registry})
<1>1. CASE Reply(op, l, issued)
    BY <1>1 DEF TypeOK, Reply, appendAuditLog
<1>2. CASE Crash(issued)
    BY <1>2, BoundsNat DEF TypeOK, Crash
<1> QED BY <1>1, <1>2 DEF Finish

\* The engine counts its active leases.
LEMMA ActiveCount == Cardinality(ListActive) \in Nat
<1>1. ListActive \subseteq LeaseIds
    BY DEF ListActive
<1>2. IsFiniteSet(ListActive)
    BY <1>1, LeaseIdsFinite, FS_Subset
<1> QED BY <1>2, FS_CardinalityType

\* A commitment of CommitMerkleTree is a well-formed record.
LEMMA NewCommitmentType ==
    ASSUME TypeOK, blockHeight < MaxHeight
    PROVE  NewCommitment \in Commitment
<1>1. blockHeight + 1 \in Heights
    BY BoundsNat DEF TypeOK, Heights
<1>2. BuildMerkleTree \in SUBSET TokenHash
    <2> SUFFICES ASSUME NEW l \in ListActive PROVE GetLeaseHash(l) \in TokenHash
        BY DEF BuildMerkleTree
    <2>1. l \in LeaseIds /\ leases[l].status = "ACTIVE"
        BY DEF ListActive
    <2>2. leases[l] \in LeaseRecord \union {NoLease}
        BY <2>1 DEF TypeOK
    <2>3. leases[l].wl \in Wavelengths /\ leases[l].start \in Nat /\ leases[l].end \in Nat
        BY <2>1, <2>2, RecordFields
    <2> QED BY <2>1, <2>3 DEF GetLeaseHash, TokenHash
<1> QED BY <1>1, <1>2, ActiveCount DEF NewCommitment, SignMerkleCommitment, Commitment

\* Every operation of the engine keeps the store well-typed.
LEMMA TypeStep == TypeOK /\ [Next]_vars => TypeOK'
<1> SUFFICES ASSUME TypeOK, [Next]_vars PROVE TypeOK'
    OBVIOUS
<1> faults' = faults
    BY DEF Next, vars
<1>1. ASSUME NEW l \in LeaseIds, NEW w \in Wavelengths, NEW d \in Durations,
             NEW t \in now .. MaxTime, AllocateLease(l, w, d, t)
      PROVE  TypeOK'
    <2> DEFINE tok == GenerateLeaseToken(l, w, now, now + d)
    <2>1. now \in Nat /\ now + d \in Nat /\ t \in 0 .. MaxTime
        BY DurationsPositive, BoundsNat DEF TypeOK
    <2>2. tok \in Token /\ hashToken(tok) \in TokenHash
        BY <2>1 DEF GenerateLeaseToken, Token, hashToken, TokenHash
    <2>3. leases' \in [LeaseIds -> LeaseRecord \union {NoLease}]
        BY <1>1, <2>1, <2>2 DEF AllocateLease, CreateLease, TypeOK, LeaseRecord
    <2>4. Finish("CREATE_LEASE", l, {tok}) /\ now' = t /\ UNCHANGED <<commitVars, lateRenewed>>
        BY <1>1 DEF AllocateLease, CreateLease
    <2>5. /\ tokens' \subseteq Token /\ lost' \subseteq Token
          /\ blockHeight' \in 0 .. MaxHeight
          /\ audit' \subseteq Operations \X (LeaseIds \union {Registry})
        BY <2>2, <2>4, FinishType DEF Operations
    <2> QED BY <2>1, <2>3, <2>4, <2>5 DEF TypeOK, commitVars
<1>2. ASSUME NEW l \in LeaseIds, NEW x \in Durations, RenewLease(l, x)
      PROVE  TypeOK'
    <2> DEFINE r == leases[l]
               tok == GenerateLeaseToken(l, r.wl, r.start, r.end + x)
    <2>1. r \in LeaseRecord \union {NoLease} /\ r.status = "ACTIVE"
        BY <1>2 DEF TypeOK, RenewLease, UpdateLease
    <2>2. r \in LeaseRecord /\ r.wl \in Wavelengths /\ r.start \in Nat /\ r.end \in Nat
        BY <2>1, RecordFields
    <2>3. r.end + x \in Nat
        BY <2>2, DurationsPositive
    <2>4. tok \in Token /\ hashToken(tok) \in TokenHash
        BY <2>2, <2>3 DEF GenerateLeaseToken, Token, hashToken, TokenHash
    <2>5. leases' = [leases EXCEPT ![l] =
                        [[r EXCEPT !.end = r.end + x] EXCEPT !.tokenHash = hashToken(tok)]]
        BY <1>2 DEF RenewLease, UpdateLease, TypeOK
    <2>6. leases' \in [LeaseIds -> LeaseRecord \union {NoLease}]
        BY <2>2, <2>3, <2>4, <2>5 DEF TypeOK, LeaseRecord
    <2>7. /\ Finish("RENEW_LEASE", l, {tok})
          /\ UNCHANGED <<now, commitVars>>
          /\ lateRenewed' \subseteq LeaseIds
        BY <1>2 DEF RenewLease, UpdateLease, TypeOK
    <2>8. /\ tokens' \subseteq Token /\ lost' \subseteq Token
          /\ blockHeight' \in 0 .. MaxHeight
          /\ audit' \subseteq Operations \X (LeaseIds \union {Registry})
        BY <2>4, <2>7, FinishType DEF Operations
    <2> QED BY <2>6, <2>7, <2>8 DEF TypeOK, commitVars
<1>3. ASSUME NEW l \in LeaseIds, RevokeLease(l)
      PROVE  TypeOK'
    <2>1. leases[l] \in LeaseRecord
        BY <1>3, RecordFields DEF TypeOK, RevokeLease, UpdateLease
    <2>2. leases' = [leases EXCEPT ![l] = [leases[l] EXCEPT !.status = "REVOKED"]]
        BY <1>3 DEF RevokeLease, UpdateLease
    <2>3. leases' \in [LeaseIds -> LeaseRecord \union {NoLease}]
        BY <2>1, <2>2 DEF TypeOK, LeaseRecord
    <2>4. Finish("REVOKE_LEASE", l, {}) /\ UNCHANGED <<now, commitVars, lateRenewed>>
        BY <1>3 DEF RevokeLease, UpdateLease
    <2>5. /\ tokens' \subseteq Token /\ lost' \subseteq Token
          /\ blockHeight' \in 0 .. MaxHeight
          /\ audit' \subseteq Operations \X (LeaseIds \union {Registry})
        BY <2>4, FinishType DEF Operations
    <2> QED BY <2>3, <2>4, <2>5 DEF TypeOK, commitVars
<1>4. ASSUME NEW done \in SUBSET Lapsed, NEW logged \in SUBSET Lapsed, ExpireLeases(done, logged)
      PROVE  TypeOK'
    <2>1. Lapsed \subseteq LeaseIds /\ \A l \in Lapsed : leases[l].status = "ACTIVE"
        BY DEF Lapsed, ListActive
    <2>2. \A l \in done : leases[l] \in LeaseRecord
        BY <2>1, RecordFields DEF TypeOK
    <2>3. leases' \in [LeaseIds -> LeaseRecord \union {NoLease}]
        BY <1>4, <2>2 DEF TypeOK, LeaseRecord, ExpireLeases
    <2>4. audit' \subseteq Operations \X (LeaseIds \union {Registry})
        BY <1>4, <2>1 DEF TypeOK, ExpireLeases, Operations
    <2>5. blockHeight' \in 0 .. MaxHeight
        BY <1>4, BoundsNat DEF TypeOK, ExpireLeases
    <2> QED BY <1>4, <2>3, <2>4, <2>5 DEF TypeOK, ExpireLeases, commitVars, tokenVars
<1>5. CASE CommitMerkleTree
    <2>1. NewCommitment \in Commitment
        BY <1>5, NewCommitmentType DEF CommitMerkleTree
    <2>2. /\ commitments' \in [Heights -> Commitment \union {NoCommitment}]
          /\ latest' \in Commitment \union {NoCommitment}
        BY <1>5, <2>1 DEF CommitMerkleTree, SaveCommitment, TypeOK, commitVars
    <2>3. blockHeight' \in 0 .. MaxHeight
        BY <1>5, BoundsNat DEF CommitMerkleTree, TypeOK
    <2>4. audit' \subseteq Operations \X (LeaseIds \union {Registry})
        BY <1>5 DEF CommitMerkleTree, TypeOK, appendAuditLog, Operations
    <2> QED BY <1>5, <2>2, <2>3, <2>4 DEF CommitMerkleTree, TypeOK, tokenVars
<1>6. CASE Restart
    BY <1>6, BoundsNat DEF Restart, TypeOK, commitVars, tokenVars
<1>7. CASE Tick
    BY <1>7, BoundsNat DEF Tick, TypeOK, commitVars, tokenVars
<1>8. CASE UNCHANGED vars
    BY <1>8 DEF vars, TypeOK
<1> QED BY <1>1, <1>2, <1>3, <1>4, <1>5, <1>6, <1>7, <1>8 DEF Next, Api, Library

\* TypeOK holds in every reachable state of the engine and its store.
THEOREM TypeCorrect == Spec => []TypeOK
<1>1. Init => TypeOK
    BY BoundsNat DEF Init, TypeOK
<1> QED BY <1>1, TypeStep, PTL DEF Spec

-----------------------------------------------------------------------------
(* Exclusivity.  DoubleAllocationOnlyByLateRenewal is inductive on top of  *)
(* TypeOK: a lease that is not live stays so unless it is renewed late,    *)
(* and a new lease starts only when no other one is live.                  *)

\* A step that changes no lease and lets time pass kills leases, never
\* revives one.
LEMMA ExclusiveWhenLeasesKept ==
    ASSUME TypeOK, TypeOK', DoubleAllocationOnlyByLateRenewal,
           leases' = leases, lateRenewed' = lateRenewed, now' >= now, faults' = faults
    PROVE  DoubleAllocationOnlyByLateRenewal'
<1>1. \A l \in LeaseIds : LiveAt(l, now)' => LiveAt(l, now)
    <2> SUFFICES ASSUME NEW l \in LeaseIds, LiveAt(l, now)' PROVE LiveAt(l, now)
        OBVIOUS
    <2>1. leases[l] \in LeaseRecord \union {NoLease} /\ leases[l].status = "ACTIVE"
        BY DEF TypeOK, LiveAt
    <2>2. leases[l].end \in Nat
        BY <2>1, RecordFields
    <2> QED BY <2>2 DEF TypeOK, LiveAt
<1> QED BY <1>1 DEF DoubleAllocationOnlyByLateRenewal

LEMMA ExclusiveStep ==
    ASSUME "list" \notin faults, faults' = faults, TypeOK, TypeOK',
           DoubleAllocationOnlyByLateRenewal, [Next]_vars
    PROVE  DoubleAllocationOnlyByLateRenewal'
<1> USE DEF DoubleAllocationOnlyByLateRenewal
<1>1. ASSUME NEW l \in LeaseIds, NEW w \in Wavelengths, NEW d \in Durations,
             NEW t \in now .. MaxTime, AllocateLease(l, w, d, t)
      PROVE  DoubleAllocationOnlyByLateRenewal'
    <2>1. now' = t /\ lateRenewed' = lateRenewed /\ now \in Nat /\ t \in Nat /\ t >= now
        BY <1>1, BoundsNat DEF AllocateLease, CreateLease, TypeOK
    <2>2. leases'[l].wl = w /\ \A m \in LeaseIds \ {l} : leases'[m] = leases[m]
        BY <1>1 DEF AllocateLease, CreateLease, TypeOK
    <2>3. checkConflictLocked(w, Registry, t) = {}
        BY <1>1 DEF AllocateLease, CreateLease
    <2>4. ASSUME NEW m \in LeaseIds \ {l}, LiveAt(m, now)'
          PROVE  /\ LiveAt(m, now)
                 /\ leases[m].wl = w => m = Registry
        <3>1. leases[m] \in LeaseRecord \union {NoLease} /\ leases[m].status = "ACTIVE"
            BY <2>2, <2>4 DEF TypeOK, LiveAt
        <3>2. leases[m].end \in Nat /\ t < leases[m].end
            BY <2>1, <2>2, <2>4, <3>1, RecordFields DEF LiveAt
        <3>3. LiveAt(m, now)
            BY <2>1, <3>1, <3>2 DEF LiveAt
        <3>4. leases[m].wl = w /\ m # Registry => m \in checkConflictLocked(w, Registry, t)
            BY <3>1, <3>2 DEF checkConflictLocked, ListActive
        <3> QED BY <2>3, <3>3, <3>4
    <2> QED BY <2>1, <2>2, <2>4, NoRegistryLease
<1>2. ASSUME NEW l \in LeaseIds, NEW x \in Durations, RenewLease(l, x)
      PROVE  DoubleAllocationOnlyByLateRenewal'
    <2>1. /\ now' = now /\ leases'[l].wl = leases[l].wl
          /\ \A m \in LeaseIds \ {l} : leases'[m] = leases[m]
        BY <1>2 DEF RenewLease, UpdateLease, TypeOK
    <2>2. \A m \in LeaseIds \ {l} : LiveAt(m, now)' <=> LiveAt(m, now)
        BY <2>1 DEF LiveAt
    <2>3. CASE l \in lateRenewed'
        BY <1>2, <2>1, <2>2, <2>3 DEF RenewLease, UpdateLease
    <2>4. CASE l \notin lateRenewed'
        <3>1. LiveAt(l, now) /\ lateRenewed' = lateRenewed
            BY <1>2, <2>4 DEF RenewLease, UpdateLease, LiveAt
        <3> QED BY <2>1, <2>2, <3>1
    <2> QED BY <2>3, <2>4
<1>3. ASSUME NEW l \in LeaseIds, RevokeLease(l)
      PROVE  DoubleAllocationOnlyByLateRenewal'
    <2>1. /\ now' = now /\ lateRenewed' = lateRenewed /\ leases'[l].status = "REVOKED"
          /\ \A m \in LeaseIds \ {l} : leases'[m] = leases[m]
        BY <1>3 DEF RevokeLease, UpdateLease, TypeOK
    <2> QED BY <2>1 DEF LiveAt
<1>4. ASSUME NEW done \in SUBSET Lapsed, NEW logged \in SUBSET Lapsed, ExpireLeases(done, logged)
      PROVE  DoubleAllocationOnlyByLateRenewal'
    <2>1. now' = now /\ lateRenewed' = lateRenewed
        BY <1>4 DEF ExpireLeases
    <2>2. ASSUME NEW m \in done PROVE leases'[m].status = "EXPIRED"
        <3>1. m \in LeaseIds /\ leases[m].status = "ACTIVE"
            BY DEF Lapsed, ListActive
        <3>2. leases[m] \in LeaseRecord
            BY <3>1, RecordFields DEF TypeOK
        <3>3. leases'[m] = [leases[m] EXCEPT !.status = "EXPIRED"]
            BY <1>4, <3>1 DEF ExpireLeases
        <3> QED BY <3>2, <3>3 DEF LeaseRecord
    <2>3. \A m \in LeaseIds : m \notin done => leases'[m] = leases[m]
        BY <1>4 DEF ExpireLeases
    <2> QED BY <2>1, <2>2, <2>3 DEF LiveAt
<1>5. CASE CommitMerkleTree
    BY <1>5, ExclusiveWhenLeasesKept DEF CommitMerkleTree, TypeOK
<1>6. CASE Restart
    BY <1>6, ExclusiveWhenLeasesKept DEF Restart, TypeOK
<1>7. CASE Tick
    BY <1>7, ExclusiveWhenLeasesKept DEF Tick, TypeOK
<1>8. CASE UNCHANGED vars
    BY <1>8, ExclusiveWhenLeasesKept DEF vars, TypeOK
<1> QED BY <1>1, <1>2, <1>3, <1>4, <1>5, <1>6, <1>7, <1>8 DEF Next, Api, Library

\* As long as the conflict query does not fail, the only way to two live
\* leases of one wavelength is the renewal of a lapsed lease.
THEOREM ExclusiveLeases == Spec => []DoubleAllocationOnlyByLateRenewal
<1>1. Init => DoubleAllocationOnlyByLateRenewal
    BY DEF Init, DoubleAllocationOnlyByLateRenewal, LiveAt, NoLease
<1>2. TypeOK /\ TypeOK' /\ DoubleAllocationOnlyByLateRenewal /\ [Next]_vars
        => DoubleAllocationOnlyByLateRenewal'
    <2> SUFFICES ASSUME TypeOK, TypeOK', DoubleAllocationOnlyByLateRenewal, [Next]_vars
                 PROVE  DoubleAllocationOnlyByLateRenewal'
        OBVIOUS
    <2>1. faults' = faults
        BY DEF Next, vars
    <2>2. CASE "list" \in faults
        BY <2>1, <2>2 DEF DoubleAllocationOnlyByLateRenewal
    <2> QED BY <2>1, <2>2, ExclusiveStep
<1> QED BY <1>1, <1>2, TypeCorrect, PTL DEF Spec

-----------------------------------------------------------------------------
(* Tokens.  The stored hash is always that of the lease's current terms,   *)
(* and no token, returned or lost, outlasts its lease.                     *)

Stored == tokens \union lost

HashOf(l) == <<l, leases[l].wl, leases[l].start, leases[l].end>>

TokenBookkeeping ==
    /\ \A l \in LeaseIds : leases[l].status # "NONE" => leases[l].tokenHash = HashOf(l)
    /\ \A t \in Stored : leases[t.lease].status # "NONE" /\ t.end <= leases[t.lease].end

\* An operation that issues no token and keeps the terms of every lease keeps
\* the bookkeeping.
LEMMA BookkeepingWhenTermsKept ==
    ASSUME TypeOK, TypeOK', TokenBookkeeping, Stored' = Stored,
           \A l \in LeaseIds :
               \/ leases'[l] = leases[l]
               \/ /\ leases[l].status # "NONE" /\ leases'[l].status # "NONE"
                  /\ leases'[l].wl = leases[l].wl /\ leases'[l].start = leases[l].start
                  /\ leases'[l].end = leases[l].end
                  /\ leases'[l].tokenHash = leases[l].tokenHash
    PROVE  TokenBookkeeping'
<1>1. \A t \in Stored : t.lease \in LeaseIds
    BY DEF TypeOK, Token, Stored
<1> QED BY <1>1 DEF TokenBookkeeping, HashOf

\* An operation that gives lease l new terms, stores their hash and issues at
\* most the token tok for them keeps the bookkeeping.
LEMMA BookkeepingWhenIssued ==
    ASSUME TypeOK, TypeOK', TokenBookkeeping, NEW l \in LeaseIds, NEW tok \in Token,
           Stored' \subseteq Stored \union {tok}, tok.lease = l,
           \A m \in LeaseIds \ {l} : leases'[m] = leases[m],
           leases'[l].status # "NONE", leases'[l].tokenHash = HashOf(l)',
           tok.end = leases'[l].end,
           leases[l].status # "NONE" => leases[l].end <= tok.end
    PROVE  TokenBookkeeping'
<1>1. \A t \in Stored : t.lease \in LeaseIds /\ t.end \in Nat
    BY DEF TypeOK, Token, Stored
<1>2. \A m \in LeaseIds : leases[m].status # "NONE" => leases[m].end \in Nat
    BY RecordFields DEF TypeOK
<1>3. tok.end \in Nat
    BY DEF Token
<1>4. \A m \in LeaseIds : leases'[m].status # "NONE" => leases'[m].tokenHash = HashOf(m)'
    BY DEF TokenBookkeeping, HashOf
<1>5. ASSUME NEW t \in Stored'
      PROVE  leases'[t.lease].status # "NONE" /\ t.end <= leases'[t.lease].end
    <2>1. CASE t = tok
        BY <1>3, <2>1
    <2>2. CASE t \in Stored /\ t.lease # l
        BY <1>1, <2>2 DEF TokenBookkeeping
    <2>3. CASE t \in Stored /\ t.lease = l
        BY <1>1, <1>2, <1>3, <2>3 DEF TokenBookkeeping
    <2> QED BY <2>1, <2>2, <2>3
<1> QED BY <1>4, <1>5 DEF TokenBookkeeping

LEMMA BookkeepingStep ==
    ASSUME TypeOK, TypeOK', TokenBookkeeping, [Next]_vars
    PROVE  TokenBookkeeping'
<1>1. ASSUME NEW l \in LeaseIds, NEW w \in Wavelengths, NEW d \in Durations,
             NEW t \in now .. MaxTime, AllocateLease(l, w, d, t)
      PROVE  TokenBookkeeping'
    <2> DEFINE tok == GenerateLeaseToken(l, w, now, now + d)
    <2>1. tok \in Token /\ tok.lease = l /\ tok.end = now + d
        BY DurationsPositive, BoundsNat DEF GenerateLeaseToken, Token, TypeOK
    <2>2. Stored' \subseteq Stored \union {tok}
        BY <1>1 DEF AllocateLease, CreateLease, Finish, Reply, Crash, Stored
    <2>3. leases' = [leases EXCEPT ![l] =
              [status |-> "ACTIVE", wl |-> w, start |-> now, end |-> now + d,
               tokenHash |-> hashToken(tok)]]
        BY <1>1 DEF AllocateLease, CreateLease
    <2>4. /\ leases'[l].status = "ACTIVE" /\ leases'[l].wl = w /\ leases'[l].start = now
          /\ leases'[l].end = now + d /\ leases'[l].tokenHash = <<l, w, now, now + d>>
          /\ \A m \in LeaseIds \ {l} : leases'[m] = leases[m]
        BY <2>3 DEF TypeOK, hashToken, GenerateLeaseToken
    <2>5. leases[l].status = "NONE"
        BY <1>1 DEF AllocateLease, CreateLease, NoLease
    <2> QED BY <2>1, <2>2, <2>4, <2>5, BookkeepingWhenIssued DEF HashOf
<1>2. ASSUME NEW l \in LeaseIds, NEW x \in Durations, RenewLease(l, x)
      PROVE  TokenBookkeeping'
    <2> DEFINE r == leases[l]
               tok == GenerateLeaseToken(l, r.wl, r.start, r.end + x)
    <2>1. r \in LeaseRecord /\ r.wl \in Wavelengths /\ r.start \in Nat /\ r.end \in Nat
        BY <1>2, RecordFields DEF RenewLease, UpdateLease, TypeOK
    <2>2. /\ tok \in Token /\ tok.lease = l /\ tok.end = r.end + x
          /\ r.end <= tok.end /\ hashToken(tok) = <<l, r.wl, r.start, r.end + x>>
        BY <2>1, DurationsPositive DEF GenerateLeaseToken, Token, hashToken
    <2>3. Stored' \subseteq Stored \union {tok}
        BY <1>2 DEF RenewLease, UpdateLease, Finish, Reply, Crash, Stored
    <2>4. leases' = [leases EXCEPT ![l] =
                        [[r EXCEPT !.end = r.end + x] EXCEPT !.tokenHash = hashToken(tok)]]
        BY <1>2 DEF RenewLease, UpdateLease, TypeOK
    <2>5. leases'[l] = [[r EXCEPT !.end = r.end + x] EXCEPT !.tokenHash = hashToken(tok)]
        BY <2>4 DEF TypeOK
    <2>6. /\ leases'[l].status = r.status /\ leases'[l].wl = r.wl /\ leases'[l].start = r.start
          /\ leases'[l].end = r.end + x /\ leases'[l].tokenHash = hashToken(tok)
        BY <2>1, <2>5 DEF LeaseRecord
    <2>7. \A m \in LeaseIds \ {l} : leases'[m] = leases[m]
        BY <2>4 DEF TypeOK
    <2>8. r.status = "ACTIVE"
        BY <1>2 DEF RenewLease, UpdateLease
    <2> QED BY <2>2, <2>3, <2>6, <2>7, <2>8, BookkeepingWhenIssued DEF HashOf
<1>3. ASSUME NEW l \in LeaseIds, RevokeLease(l)
      PROVE  TokenBookkeeping'
    <2>1. leases[l] \in LeaseRecord /\ leases[l].status # "NONE"
        BY <1>3, RecordFields DEF TypeOK, RevokeLease, UpdateLease
    <2>2. /\ leases'[l] = [leases[l] EXCEPT !.status = "REVOKED"]
          /\ \A m \in LeaseIds \ {l} : leases'[m] = leases[m]
        BY <1>3 DEF RevokeLease, UpdateLease, TypeOK
    <2>3. /\ leases'[l].status = "REVOKED" /\ leases'[l].wl = leases[l].wl
          /\ leases'[l].start = leases[l].start /\ leases'[l].end = leases[l].end
          /\ leases'[l].tokenHash = leases[l].tokenHash
        BY <2>1, <2>2 DEF LeaseRecord
    <2>4. Stored' = Stored
        BY <1>3 DEF RevokeLease, UpdateLease, Finish, Reply, Crash, Stored
    <2> QED BY <2>1, <2>2, <2>3, <2>4, BookkeepingWhenTermsKept
<1>4. ASSUME NEW done \in SUBSET Lapsed, NEW logged \in SUBSET Lapsed, ExpireLeases(done, logged)
      PROVE  TokenBookkeeping'
    <2>1. ASSUME NEW m \in LeaseIds, m \in done
          PROVE  /\ leases[m].status # "NONE" /\ leases'[m].status # "NONE"
                 /\ leases'[m].wl = leases[m].wl /\ leases'[m].start = leases[m].start
                 /\ leases'[m].end = leases[m].end
                 /\ leases'[m].tokenHash = leases[m].tokenHash
        <3>1. leases[m].status = "ACTIVE"
            BY <2>1 DEF Lapsed, ListActive
        <3>2. leases[m] \in LeaseRecord
            BY <3>1, RecordFields DEF TypeOK
        <3>3. leases'[m] = [leases[m] EXCEPT !.status = "EXPIRED"]
            BY <1>4, <2>1 DEF ExpireLeases
        <3> QED BY <3>1, <3>2, <3>3 DEF LeaseRecord
    <2>2. \A m \in LeaseIds : m \notin done => leases'[m] = leases[m]
        BY <1>4 DEF ExpireLeases
    <2>3. Stored' = Stored
        BY <1>4 DEF ExpireLeases, tokenVars, Stored
    <2> QED BY <2>1, <2>2, <2>3, BookkeepingWhenTermsKept
<1>5. CASE CommitMerkleTree
    BY <1>5, BookkeepingWhenTermsKept DEF CommitMerkleTree, tokenVars, Stored
<1>6. CASE Restart
    BY <1>6, BookkeepingWhenTermsKept DEF Restart, tokenVars, Stored
<1>7. CASE Tick
    BY <1>7, BookkeepingWhenTermsKept DEF Tick, tokenVars, Stored
<1>8. CASE UNCHANGED vars
    BY <1>8, BookkeepingWhenTermsKept DEF vars, Stored
<1> QED BY <1>1, <1>2, <1>3, <1>4, <1>5, <1>6, <1>7, <1>8 DEF Next, Api, Library

LEMMA BookkeepingInvariant == Spec => []TokenBookkeeping
<1>1. Init => TokenBookkeeping
    BY DEF Init, TokenBookkeeping, NoLease, Stored
<1>2. TypeOK /\ TypeOK' /\ TokenBookkeeping /\ [Next]_vars => TokenBookkeeping'
    BY BookkeepingStep
<1> QED BY <1>1, <1>2, TypeCorrect, PTL DEF Spec

\* A token that VerifyLease accepts states the lease's own terms.
LEMMA VerifiedTerms ==
    ASSUME TypeOK, TokenBookkeeping, NEW s \in tokens, VerifyLease(s)
    PROVE  /\ s.lease \in LeaseIds
           /\ leases[s.lease].wl = s.wl /\ leases[s.lease].end = s.end
           /\ leases[s.lease].status = "ACTIVE" /\ leases[s.lease].end \in Nat
           /\ now <= leases[s.lease].end
<1>1. s.lease \in LeaseIds
    BY DEF TypeOK, Token
<1>2. leases[s.lease].status = "ACTIVE" /\ now <= leases[s.lease].end
    BY DEF VerifyLease
<1>3. leases[s.lease].end \in Nat
    BY <1>1, <1>2, RecordFields DEF TypeOK
<1>4. hashToken(s) = HashOf(s.lease)
    BY <1>1, <1>2 DEF VerifyLease, TokenBookkeeping
<1> QED BY <1>1, <1>2, <1>3, <1>4 DEF hashToken, HashOf

\* Only the newest token stored for a lease verifies, whether or not its caller
\* ever got that one.
THEOREM NewestTokenOnly == Spec => []SupersededTokenRejected
<1>1. TypeOK /\ TokenBookkeeping => SupersededTokenRejected
    BY VerifiedTerms DEF SupersededTokenRejected, TokenBookkeeping, Stored
<1> QED BY <1>1, TypeCorrect, BookkeepingInvariant, PTL

\* VerifyLease can accept tokens of two leases on one wavelength only after a
\* late renewal or at the instant one of the two leases ends.
THEOREM ExclusiveTokens == Spec => []VerifiedTokensExclusive
<1>1. TypeOK /\ TokenBookkeeping /\ DoubleAllocationOnlyByLateRenewal
        => VerifiedTokensExclusive
    <2> SUFFICES ASSUME TypeOK, TokenBookkeeping, DoubleAllocationOnlyByLateRenewal,
                        "list" \notin faults, NEW s \in tokens, NEW t \in tokens,
                        s.wl = t.wl, s.lease # t.lease,
                        VerifyLease(s), VerifyLease(t)
                 PROVE  \/ s.lease \in lateRenewed \/ t.lease \in lateRenewed
                        \/ now \in {leases[s.lease].end, leases[t.lease].end}
        BY DEF VerifiedTokensExclusive
    <2>1. /\ s.lease \in LeaseIds /\ t.lease \in LeaseIds
          /\ leases[s.lease].wl = leases[t.lease].wl
          /\ leases[s.lease].status = "ACTIVE" /\ leases[t.lease].status = "ACTIVE"
          /\ leases[s.lease].end \in Nat /\ leases[t.lease].end \in Nat
          /\ now <= leases[s.lease].end /\ now <= leases[t.lease].end
        BY VerifiedTerms
    <2>2. now \in Nat
        BY BoundsNat DEF TypeOK
    <2>3. CASE LiveAt(s.lease, now) /\ LiveAt(t.lease, now)
        BY <2>1, <2>3 DEF DoubleAllocationOnlyByLateRenewal
    <2>4. CASE ~(LiveAt(s.lease, now) /\ LiveAt(t.lease, now))
        BY <2>1, <2>2, <2>4 DEF LiveAt
    <2> QED BY <2>3, <2>4
<1> QED BY <1>1, TypeCorrect, BookkeepingInvariant, ExclusiveLeases, PTL

-----------------------------------------------------------------------------
(* The audit log.  What a step does to the statuses and to the log is the   *)
(* same for all operations on one lease: the status moves on, and at most  *)
(* one entry that says so is appended.  Both audit invariants follow from  *)
(* that.                                                                   *)

Lossless == faults \intersect {"audit", "crash"} = {}

\* Lease l gets status s, and the log at most the entry <<op, l>>.
Recorded(op, l, s) ==
    /\ leases'[l].status = s
    /\ \A m \in LeaseIds \ {l} : leases'[m].status = leases[m].status
    /\ audit' \in {audit, audit \union {<<op, l>>}}
    /\ Lossless => audit' = audit \union {<<op, l>>}

\* The leases of done expire, and the log gets the entries of logged.
RecordedExpiry(done, logged) ==
    /\ logged \subseteq done
    /\ \A l \in LeaseIds :
           /\ l \in done => leases[l].status = "ACTIVE" /\ leases'[l].status = "EXPIRED"
           /\ l \notin done => leases'[l].status = leases[l].status
    /\ audit' = audit \union {<<"EXPIRE_LEASE", l>> : l \in logged}
    /\ Lossless => logged = done

\* No status changes, and the log gets no entry of a lease.
RecordedNothing ==
    /\ \A l \in LeaseIds : leases'[l].status = leases[l].status
    /\ audit' \in {audit, audit \union {<<"COMMIT_MERKLE", Registry>>}}

LEMMA FinishAudit ==
    ASSUME NEW op, NEW l, NEW issued, Finish(op, l, issued)
    PROVE  /\ audit' \in {audit, audit \union {<<op, l>>}}
           /\ Lossless => audit' = audit \union {<<op, l>>}
BY DEF Finish, Reply, Crash, appendAuditLog, Lossless

\* A record has the status NONE only if there is none.
LEMMA NoneIsNoLease ==
    ASSUME TypeOK, NEW l \in LeaseIds
    PROVE  leases[l].status = "NONE" <=> leases[l] = NoLease
<1>1. leases[l] \in LeaseRecord \/ leases[l] = NoLease
    BY DEF TypeOK
<1>2. CASE leases[l] = NoLease
    BY <1>2 DEF NoLease
<1>3. CASE leases[l] \in LeaseRecord
    BY <1>3 DEF LeaseRecord, NoLease
<1> QED BY <1>1, <1>2, <1>3

\* What one step of the engine does to the statuses and to the log.
LEMMA StepRecorded ==
    ASSUME TypeOK, [Next]_vars
    PROVE  \/ \E l \in LeaseIds :
                 \/ leases[l].status = "NONE" /\ Recorded("CREATE_LEASE", l, "ACTIVE")
                 \/ leases[l].status = "ACTIVE" /\ Recorded("RENEW_LEASE", l, "ACTIVE")
                 \/ /\ leases[l].status \in {"ACTIVE", "EXPIRED"}
                    /\ Recorded("REVOKE_LEASE", l, "REVOKED")
           \/ \E done, logged \in SUBSET LeaseIds : RecordedExpiry(done, logged)
           \/ RecordedNothing
<1>1. ASSUME NEW l \in LeaseIds, NEW w \in Wavelengths, NEW d \in Durations,
             NEW t \in now .. MaxTime, AllocateLease(l, w, d, t)
      PROVE  leases[l].status = "NONE" /\ Recorded("CREATE_LEASE", l, "ACTIVE")
    <2> DEFINE tok == GenerateLeaseToken(l, w, now, now + d)
    <2>1. leases[l].status = "NONE"
        BY <1>1, NoneIsNoLease DEF AllocateLease, CreateLease
    <2>2. leases' = [leases EXCEPT ![l] =
              [status |-> "ACTIVE", wl |-> w, start |-> now, end |-> now + d,
               tokenHash |-> hashToken(tok)]]
        BY <1>1 DEF AllocateLease, CreateLease
    <2>3. leases'[l].status = "ACTIVE" /\ \A m \in LeaseIds \ {l} : leases'[m] = leases[m]
        BY <2>2 DEF TypeOK
    <2>4. Finish("CREATE_LEASE", l, {tok})
        BY <1>1 DEF AllocateLease, CreateLease
    <2> HIDE DEF tok
    <2> QED BY <2>1, <2>3, <2>4, FinishAudit DEF Recorded
<1>2. ASSUME NEW l \in LeaseIds, NEW x \in Durations, RenewLease(l, x)
      PROVE  leases[l].status = "ACTIVE" /\ Recorded("RENEW_LEASE", l, "ACTIVE")
    <2> DEFINE r == leases[l]
               tok == GenerateLeaseToken(l, r.wl, r.start, r.end + x)
    <2>1. r.status = "ACTIVE" /\ r \in LeaseRecord
        BY <1>2, RecordFields DEF RenewLease, UpdateLease, TypeOK
    <2>2. leases' = [leases EXCEPT ![l] =
                        [[r EXCEPT !.end = r.end + x] EXCEPT !.tokenHash = hashToken(tok)]]
        BY <1>2 DEF RenewLease, UpdateLease, TypeOK
    <2>3. leases'[l] = [[r EXCEPT !.end = r.end + x] EXCEPT !.tokenHash = hashToken(tok)]
        BY <2>2 DEF TypeOK
    <2>4. leases'[l].status = "ACTIVE"
        BY <2>1, <2>3 DEF LeaseRecord
    <2>5. \A m \in LeaseIds \ {l} : leases'[m] = leases[m]
        BY <2>2 DEF TypeOK
    <2>6. Finish("RENEW_LEASE", l, {tok})
        BY <1>2 DEF RenewLease, UpdateLease
    <2> HIDE DEF tok
    <2> QED BY <2>1, <2>4, <2>5, <2>6, FinishAudit DEF Recorded
<1>3. ASSUME NEW l \in LeaseIds, RevokeLease(l)
      PROVE  /\ leases[l].status \in {"ACTIVE", "EXPIRED"}
             /\ Recorded("REVOKE_LEASE", l, "REVOKED")
    <2>1. leases[l].status \in {"ACTIVE", "EXPIRED"}
        BY <1>3, RecordFields DEF TypeOK, RevokeLease, UpdateLease
    <2>2. /\ leases'[l].status = "REVOKED"
          /\ \A m \in LeaseIds \ {l} : leases'[m] = leases[m]
        BY <1>3 DEF RevokeLease, UpdateLease, TypeOK
    <2>3. Finish("REVOKE_LEASE", l, {})
        BY <1>3 DEF RevokeLease, UpdateLease
    <2> QED BY <2>1, <2>2, <2>3, FinishAudit DEF Recorded
<1>4. ASSUME NEW done \in SUBSET Lapsed, NEW logged \in SUBSET Lapsed, ExpireLeases(done, logged)
      PROVE  /\ done \in SUBSET LeaseIds /\ logged \in SUBSET LeaseIds
             /\ RecordedExpiry(done, logged)
    <2>1. Lapsed \subseteq LeaseIds
        BY DEF Lapsed, ListActive
    <2>2. ASSUME NEW m \in LeaseIds, m \in done
          PROVE  leases[m].status = "ACTIVE" /\ leases'[m].status = "EXPIRED"
        <3>1. leases[m].status = "ACTIVE"
            BY <2>2 DEF Lapsed, ListActive
        <3>2. leases[m] \in LeaseRecord
            BY <3>1, RecordFields DEF TypeOK
        <3>3. leases'[m] = [leases[m] EXCEPT !.status = "EXPIRED"]
            BY <1>4, <2>2 DEF ExpireLeases
        <3> QED BY <3>1, <3>2, <3>3 DEF LeaseRecord
    <2>3. \A m \in LeaseIds : m \notin done => leases'[m] = leases[m]
        BY <1>4 DEF ExpireLeases
    <2>4. Lossless => logged = done
        BY <1>4 DEF ExpireLeases, Lossless
    <2>5. audit' = audit \union {<<"EXPIRE_LEASE", l>> : l \in logged} /\ logged \subseteq done
        BY <1>4 DEF ExpireLeases
    <2> QED BY <2>1, <2>2, <2>3, <2>4, <2>5 DEF RecordedExpiry
<1>5. CASE CommitMerkleTree
    BY <1>5 DEF CommitMerkleTree, RecordedNothing, appendAuditLog
<1>6. CASE Restart \/ Tick
    BY <1>6 DEF Restart, Tick, RecordedNothing
<1>7. CASE UNCHANGED vars
    BY <1>7 DEF vars, RecordedNothing
<1>8. CASE Api
    BY <1>1, <1>2, <1>3, <1>8 DEF Api
<1>9. CASE Library
    BY <1>4, <1>5, <1>9 DEF Library
<1> QED BY <1>6, <1>7, <1>8, <1>9 DEF Next

LEMMA NeverAheadStep ==
    ASSUME TypeOK, TypeOK', AuditNeverAhead, [Next]_vars
    PROVE  AuditNeverAhead'
<1> DEFINE Ahead(l) ==
        /\ Logged("CREATE_LEASE", l) => leases[l].status # "NONE"
        /\ Logged("EXPIRE_LEASE", l) => leases[l].status \in {"EXPIRED", "REVOKED"}
        /\ Logged("REVOKE_LEASE", l) => leases[l].status = "REVOKED"
<1>1. \A l \in LeaseIds : Ahead(l)
    BY NoneIsNoLease DEF AuditNeverAhead
<1>2. SUFFICES ASSUME NEW k \in LeaseIds PROVE Ahead(k)'
    <2>1. \A l \in LeaseIds : leases'[l].status # "NONE" => leases'[l] # NoLease
        BY DEF NoLease
    <2> QED BY <1>2, <2>1 DEF AuditNeverAhead
<1>3. ASSUME NEW l \in LeaseIds, NEW op, NEW s, Recorded(op, l, s),
             \/ op = "CREATE_LEASE" /\ leases[l].status = "NONE" /\ s = "ACTIVE"
             \/ op = "RENEW_LEASE" /\ leases[l].status = "ACTIVE" /\ s = "ACTIVE"
             \/ /\ op = "REVOKE_LEASE" /\ leases[l].status \in {"ACTIVE", "EXPIRED"}
                /\ s = "REVOKED"
      PROVE  Ahead(k)'
    <2>1. audit' \in {audit, audit \union {<<op, l>>}}
        BY <1>3 DEF Recorded
    <2>2. \A o \in Operations : Logged(o, k)' => Logged(o, k) \/ (o = op /\ k = l)
        BY <2>1 DEF Logged
    <2>3. leases'[l].status = s /\ (k # l => leases'[k].status = leases[k].status)
        BY <1>3 DEF Recorded
    <2> QED BY <1>1, <1>3, <2>2, <2>3 DEF Operations
<1>4. ASSUME NEW done \in SUBSET LeaseIds, NEW logged \in SUBSET LeaseIds,
             RecordedExpiry(done, logged)
      PROVE  Ahead(k)'
    <2>1. \A o \in Operations :
              Logged(o, k)' => Logged(o, k) \/ (o = "EXPIRE_LEASE" /\ k \in logged)
        BY <1>4 DEF RecordedExpiry, Logged
    <2> QED BY <1>1, <1>4, <2>1 DEF RecordedExpiry, Operations
<1>5. CASE RecordedNothing
    <2>1. audit' \in {audit, audit \union {<<"COMMIT_MERKLE", Registry>>}}
        BY <1>5 DEF RecordedNothing
    <2>2. \A o \in Operations : Logged(o, k)' => Logged(o, k)
        BY <2>1, NoRegistryLease DEF Logged
    <2> QED BY <1>1, <1>5, <2>2 DEF RecordedNothing, Operations
<1> QED BY <1>3, <1>4, <1>5, StepRecorded

\* Whatever fails and wherever the process dies, for any number of leases: the
\* audit log says of no lease that it was created, expired or revoked before
\* the store holds that.
THEOREM AuditNotAhead == Spec => []AuditNeverAhead
<1>1. Init => AuditNeverAhead
    BY DEF Init, AuditNeverAhead, Logged
<1>2. TypeOK /\ TypeOK' /\ AuditNeverAhead /\ [Next]_vars => AuditNeverAhead'
    BY NeverAheadStep
<1> QED BY <1>1, <1>2, TypeCorrect, PTL DEF Spec

\* The cases of AuditedStatus as implications.
LEMMA AuditedCases ==
    ASSUME NEW l
    PROVE  /\ Logged("REVOKE_LEASE", l) <=> AuditedStatus(l) = "REVOKED"
           /\ ~Logged("REVOKE_LEASE", l) =>
                 (Logged("EXPIRE_LEASE", l) <=> AuditedStatus(l) = "EXPIRED")
           /\ ~Logged("REVOKE_LEASE", l) /\ ~Logged("EXPIRE_LEASE", l) =>
                 (Logged("CREATE_LEASE", l) <=> AuditedStatus(l) = "ACTIVE")
           /\ ~Logged("REVOKE_LEASE", l) /\ ~Logged("EXPIRE_LEASE", l)
                 /\ ~Logged("CREATE_LEASE", l) <=> AuditedStatus(l) = "NONE"
BY DEF AuditedStatus

LEMMA ReconstructsStep ==
    ASSUME TypeOK, TypeOK', AuditReconstructs, [Next]_vars, Lossless, faults' = faults
    PROVE  \A l \in LeaseIds : leases'[l].status = AuditedStatus(l)'
<1> DEFINE Told(op, l) == Logged(op, l)' <=> Logged(op, l)
<1>1. \A l \in LeaseIds : leases[l].status = AuditedStatus(l)
    BY DEF AuditReconstructs, Lossless
<1> SUFFICES ASSUME NEW k \in LeaseIds PROVE leases'[k].status = AuditedStatus(k)'
    OBVIOUS
<1>2. ASSUME leases'[k].status = leases[k].status,
             Told("CREATE_LEASE", k), Told("EXPIRE_LEASE", k), Told("REVOKE_LEASE", k)
      PROVE  leases'[k].status = AuditedStatus(k)'
    BY <1>1, <1>2 DEF AuditedStatus
<1>3. ASSUME NEW l \in LeaseIds, NEW op, NEW s, Recorded(op, l, s),
             \/ op = "CREATE_LEASE" /\ leases[l].status = "NONE" /\ s = "ACTIVE"
             \/ op = "RENEW_LEASE" /\ leases[l].status = "ACTIVE" /\ s = "ACTIVE"
             \/ /\ op = "REVOKE_LEASE" /\ leases[l].status \in {"ACTIVE", "EXPIRED"}
                /\ s = "REVOKED"
      PROVE  leases'[k].status = AuditedStatus(k)'
    <2>1. audit' = audit \union {<<op, l>>}
        BY <1>3 DEF Recorded
    <2>2. \A o \in Operations : Logged(o, k)' <=> Logged(o, k) \/ (o = op /\ k = l)
        BY <2>1 DEF Logged
    <2>3. CASE k # l
        <3>1. leases'[k].status = leases[k].status
            BY <1>3, <2>3 DEF Recorded
        <3> QED BY <1>2, <2>2, <2>3, <3>1 DEF Operations
    <2>4. CASE k = l
        <3>1. leases'[k].status = s /\ leases[k].status = AuditedStatus(k)
            BY <1>1, <1>3, <2>4 DEF Recorded
        <3>2. CASE op = "CREATE_LEASE"
            BY <1>3, <2>2, <2>4, <3>1, <3>2, AuditedCases DEF AuditedStatus, Operations
        <3>3. CASE op = "RENEW_LEASE"
            BY <1>2, <1>3, <2>2, <2>4, <3>1, <3>3 DEF Operations
        <3>4. CASE op = "REVOKE_LEASE"
            BY <1>3, <2>2, <2>4, <3>1, <3>4 DEF AuditedStatus, Operations
        <3> QED BY <1>3, <3>2, <3>3, <3>4
    <2> QED BY <2>3, <2>4
<1>4. ASSUME NEW done \in SUBSET LeaseIds, NEW logged \in SUBSET LeaseIds,
             RecordedExpiry(done, logged)
      PROVE  leases'[k].status = AuditedStatus(k)'
    <2>1. \A o \in Operations :
              Logged(o, k)' <=> Logged(o, k) \/ (o = "EXPIRE_LEASE" /\ k \in done)
        BY <1>4 DEF RecordedExpiry, Logged
    <2>2. CASE k \notin done
        <3>1. leases'[k].status = leases[k].status
            BY <1>4, <2>2 DEF RecordedExpiry
        <3> QED BY <1>2, <2>1, <2>2, <3>1 DEF Operations
    <2>3. CASE k \in done
        <3>1. leases[k].status = "ACTIVE" /\ leases'[k].status = "EXPIRED"
            BY <1>4, <2>3 DEF RecordedExpiry
        <3>2. ~Logged("REVOKE_LEASE", k)
            BY <1>1, <3>1, AuditedCases
        <3>3. ~Logged("REVOKE_LEASE", k)' /\ Logged("EXPIRE_LEASE", k)'
            BY <2>1, <2>3, <3>2 DEF Operations
        <3> QED BY <3>1, <3>3 DEF AuditedStatus
    <2> QED BY <2>2, <2>3
<1>5. CASE RecordedNothing
    <2>1. \A o \in Operations : Logged(o, k)' <=> Logged(o, k)
        BY <1>5, NoRegistryLease DEF RecordedNothing, Logged
    <2> QED BY <1>2, <1>5, <2>1 DEF RecordedNothing, Operations
<1> QED BY <1>3, <1>4, <1>5, StepRecorded

\* As long as no append fails and no crash comes before one, the status of
\* every lease can be read off the audit log, for any number of leases.
THEOREM AuditTellsAll == Spec => []AuditReconstructs
<1>1. Init => AuditReconstructs
    BY DEF Init, AuditReconstructs, AuditedStatus, Logged, NoLease
<1>2. TypeOK /\ TypeOK' /\ AuditReconstructs /\ [Next]_vars => AuditReconstructs'
    <2> SUFFICES ASSUME TypeOK, TypeOK', AuditReconstructs, [Next]_vars
                 PROVE  AuditReconstructs'
        OBVIOUS
    <2>1. faults' = faults
        BY DEF Next, vars
    <2> QED BY <2>1, ReconstructsStep DEF AuditReconstructs, Lossless
<1> QED BY <1>1, <1>2, TypeCorrect, PTL DEF Spec

=============================================================================
