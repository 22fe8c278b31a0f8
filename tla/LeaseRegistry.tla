---------------------------- MODULE LeaseRegistry ----------------------------
(***************************************************************************)
(* The registry engine of one operator (flr/internal/registry/engine.go)   *)
(* over its BadgerDB store (badger_store.go): the life cycle of wavelength *)
(* leases, the tokens that are handed out for them, the Merkle commitments *)
(* and the audit log.  Every mutating operation runs under the engine's    *)
(* write lock, and every store call is one Badger transaction; an          *)
(* operation is therefore one action, and its failures are the points      *)
(* between two transactions.                                               *)
(*                                                                         *)
(* faults names the failures the environment may inject:                   *)
(*   "list"   ListLeases fails while checkConflictLocked runs              *)
(*   "write"  a store write fails in the middle of an operation            *)
(*   "audit"  the audit append fails (its error is dropped)                *)
(*   "crash"  the process dies after the store write, before the audit     *)
(*            append and before the caller sees the reply                  *)
(***************************************************************************)
EXTENDS Integers, FiniteSets

CONSTANTS LeaseIds,     \* uuids the engine can draw
          Wavelengths,  \* canonical keys (Wavelength.ToKey)
          Durations,    \* lease durations and renewal extensions, > 0
          FaultSets,    \* the choices of faults to consider, see above
          MaxTime,      \* bound on the clock
          MaxEnd,       \* bound on a lease's end time
          MaxHeight     \* bound on the commitment height

ASSUME LeaseIdsFinite == IsFiniteSet(LeaseIds)
ASSUME DurationsPositive == Durations \subseteq Nat \ {0}
ASSUME FaultsKnown == FaultSets \subseteq SUBSET {"list", "write", "audit", "crash"}
ASSUME BoundsNat == MaxTime \in Nat /\ MaxEnd \in Nat /\ MaxHeight \in Nat

VARIABLES now,          \* the wall clock
          leases,       \* "lease:<id>" records of the store
          tokens,       \* tokens returned to callers
          lost,         \* ghost: stored tokens that a crash kept from their callers
          blockHeight,  \* Engine.blockHeight, volatile
          commitments,  \* "commitment:<op>:<height>" records of the store
          latest,       \* the "commitment:<op>:latest" record of the store
          audit,        \* (operation, lease) pairs in the audit log
          lateRenewed,  \* ghost: leases renewed at or after their end time
          faults        \* the failures of this behaviour, fixed from the start

vars == <<now, leases, tokens, lost, blockHeight, commitments, latest, audit,
          lateRenewed, faults>>

tokenVars == <<tokens, lost>>

commitVars == <<commitments, latest>>

Heights == 1 .. MaxHeight

NoLease == [status |-> "NONE"]

NoCommitment == [height |-> 0]

Registry == "registry"   \* the empty lease id of a COMMIT_MERKLE audit entry

ASSUME NoRegistryLease == Registry \notin LeaseIds

-----------------------------------------------------------------------------
(* Tokens *)

Token == [lease : LeaseIds, wl : Wavelengths, start : Nat, end : Nat]

GenerateLeaseToken(l, w, s, e) == [lease |-> l, wl |-> w, start |-> s, end |-> e]

MutantHashWithoutEnd(tok) == <<tok.lease, tok.wl, tok.start, 0>>

\* The hash leaves the nonce and the issue time out; what is left tells two
\* tokens apart exactly when one of these fields differs.
hashToken(tok) == <<tok.lease, tok.wl, tok.start, tok.end>>

TokenHash == LeaseIds \X Wavelengths \X Nat \X Nat

LeaseRecord == [status : {"ACTIVE", "EXPIRED", "REVOKED"}, wl : Wavelengths,
                start : Nat, end : Nat, tokenHash : TokenHash]

\* ValidateLeaseToken: the token itself has not run out (its signature is the
\* engine's own: only tokens the engine issued are ever presented).
ValidateLeaseToken(tok) == now <= tok.end

MutantVerifyIgnoresStatus(tok) ==
    /\ leases[tok.lease] # NoLease
    /\ now <= leases[tok.lease].end
    /\ ValidateLeaseToken(tok)
    /\ hashToken(tok) = leases[tok.lease].tokenHash

VerifyLease(tok) ==
    /\ leases[tok.lease].status = "ACTIVE"
    /\ now <= leases[tok.lease].end
    /\ ValidateLeaseToken(tok)
    /\ hashToken(tok) = leases[tok.lease].tokenHash

-----------------------------------------------------------------------------
(* Store queries *)

ListActive == {l \in LeaseIds : leases[l].status = "ACTIVE"}

\* A lease is live while the conflict check still counts it.
LiveAt(l, t) == leases[l].status = "ACTIVE" /\ t < leases[l].end

MutantConflictStrict(w, exclude, t) ==
    {l \in ListActive \ {exclude} : leases[l].wl = w /\ t + 1 < leases[l].end}

checkConflictLocked(w, exclude, t) ==
    {l \in ListActive \ {exclude} : leases[l].wl = w /\ t < leases[l].end}

-----------------------------------------------------------------------------
(* The end of an operation that touched lease l: the reply with its tokens *)
(* and the audit append, or a crash before either of them.                 *)

appendAuditLog(op, l) ==
    \/ audit' = audit \union {<<op, l>>}
    \/ "audit" \in faults /\ audit' = audit

Reply(op, l, issued) ==
    /\ appendAuditLog(op, l)
    /\ tokens' = tokens \union issued
    /\ UNCHANGED <<lost, blockHeight>>

\* A crash: Engine.blockHeight starts at 0 again in the next process, and no
\* caller has the tokens whose hashes are already stored.
Crash(issued) ==
    /\ "crash" \in faults
    /\ lost' = lost \union issued
    /\ blockHeight' = 0
    /\ UNCHANGED <<audit, tokens>>

Finish(op, l, issued) == Reply(op, l, issued) \/ Crash(issued)

-----------------------------------------------------------------------------
(* Operations *)

CreateLease(l, record) ==
    /\ leases[l] = NoLease
    /\ leases' = [leases EXCEPT ![l] = record]

UpdateLease(l, record) ==
    /\ leases[l] # NoLease
    /\ leases' = [leases EXCEPT ![l] = record]

\* t is the clock when the conflict check reads it, after the start time was
\* taken.
AllocateLease(l, w, d, t) ==
    LET tok == GenerateLeaseToken(l, w, now, now + d)
    IN  /\ now + d <= MaxEnd
        /\ checkConflictLocked(w, Registry, t) = {} \/ "list" \in faults
        /\ now' = t
        /\ CreateLease(l, [status |-> "ACTIVE", wl |-> w, start |-> now, end |-> now + d,
                           tokenHash |-> hashToken(tok)])
        /\ Finish("CREATE_LEASE", l, {tok})
        /\ UNCHANGED <<commitVars, lateRenewed>>

RenewLease(l, x) ==
    LET r   == leases[l]
        tok == GenerateLeaseToken(l, r.wl, r.start, r.end + x)
    IN  /\ r.status = "ACTIVE"
        /\ r.end + x <= MaxEnd
        /\ UpdateLease(l, [r EXCEPT !.end = r.end + x, !.tokenHash = hashToken(tok)])
        /\ lateRenewed' = IF now < r.end THEN lateRenewed ELSE lateRenewed \union {l}
        /\ Finish("RENEW_LEASE", l, {tok})
        /\ UNCHANGED <<now, commitVars>>

MutantRevokeMissing(l) ==
    /\ leases[l].status # "REVOKED"
    /\ leases' = [leases EXCEPT ![l].status = "REVOKED"]
    /\ Finish("REVOKE_LEASE", l, {})
    /\ UNCHANGED <<now, commitVars, lateRenewed>>

MutantRevokeLogsFirst(l) ==
    /\ leases[l].status \notin {"NONE", "REVOKED"}
    /\ audit' = audit \union {<<"REVOKE_LEASE", l>>}
    /\ \/ leases' = [leases EXCEPT ![l].status = "REVOKED"]
       \/ "write" \in faults /\ UNCHANGED leases
    /\ UNCHANGED <<now, tokenVars, blockHeight, commitVars, lateRenewed>>

RevokeLease(l) ==
    /\ leases[l].status \notin {"NONE", "REVOKED"}
    /\ UpdateLease(l, [leases[l] EXCEPT !.status = "REVOKED"])
    /\ Finish("REVOKE_LEASE", l, {})
    /\ UNCHANGED <<now, commitVars, lateRenewed>>

Lapsed == {l \in ListActive : now > leases[l].end}

MutantExpireUnlogged(done, logged) ==
    /\ done = Lapsed /\ logged = {}
    /\ leases' = [l \in LeaseIds |->
           IF l \in done THEN [leases[l] EXCEPT !.status = "EXPIRED"] ELSE leases[l]]
    /\ UNCHANGED <<now, tokenVars, blockHeight, commitVars, audit, lateRenewed>>

\* done are the leases the loop got to before a failed write or a crash;
\* logged are those of them that reached the audit log: a crash loses at most
\* the entry of the lease that was being expired.
ExpireLeases(done, logged) ==
    /\ done \subseteq Lapsed /\ logged \subseteq done
    /\ leases' = [l \in LeaseIds |->
           IF l \in done THEN [leases[l] EXCEPT !.status = "EXPIRED"] ELSE leases[l]]
    /\ audit' = audit \union {<<"EXPIRE_LEASE", l>> : l \in logged}
    /\ \/ /\ done = Lapsed \/ "write" \in faults
          /\ logged = done \/ "audit" \in faults
          /\ blockHeight' = blockHeight
       \/ /\ "crash" \in faults
          /\ (\A k, m \in done \ logged : k = m) \/ "audit" \in faults
          /\ blockHeight' = 0
    /\ UNCHANGED <<now, tokenVars, commitVars, lateRenewed>>

-----------------------------------------------------------------------------
(* Commitments *)

\* GetLeaseHash covers neither the status nor the token hash of a lease.
GetLeaseHash(l) == <<l, leases[l].wl, leases[l].start, leases[l].end>>

\* The root identifies the set of leaves, which are sorted and padded.
BuildMerkleTree == {GetLeaseHash(l) : l \in ListActive}

\* The signature covers the fields as they are when it is made: the lease
\* count is still zero.
SignMerkleCommitment(root, h) ==
    [height |-> h, root |-> root, count |-> 0,
     sig |-> [height |-> h, root |-> root, count |-> 0]]

VerifyMerkleCommitment(c) ==
    c.sig = [height |-> c.height, root |-> c.root, count |-> c.count]

NewCommitment ==
    [SignMerkleCommitment(BuildMerkleTree, blockHeight + 1)
        EXCEPT !.count = Cardinality(ListActive)]

\* One transaction writes the height key and the latest key.
SaveCommitment(c) ==
    /\ commitments' = [commitments EXCEPT ![c.height] = c]
    /\ latest' = c

\* The height is incremented before the commitment is signed and saved.
CommitMerkleTree ==
    /\ blockHeight < MaxHeight
    /\ \/ /\ SaveCommitment(NewCommitment)
          /\ \/ appendAuditLog("COMMIT_MERKLE", Registry) /\ blockHeight' = blockHeight + 1
             \/ "crash" \in faults /\ blockHeight' = 0 /\ UNCHANGED audit
       \/ /\ "write" \in faults
          /\ blockHeight' = blockHeight + 1
          /\ UNCHANGED <<commitVars, audit>>
    /\ UNCHANGED <<now, leases, tokenVars, lateRenewed>>

-----------------------------------------------------------------------------
(* The daemon restarts: NewEngine over the same database directory. *)

Restart ==
    /\ blockHeight' = 0
    /\ UNCHANGED <<now, leases, tokenVars, commitVars, audit, lateRenewed>>

Tick ==
    /\ now < MaxTime
    /\ now' = now + 1
    /\ UNCHANGED <<leases, tokenVars, blockHeight, commitVars, audit, lateRenewed>>

Init ==
    /\ now = 0
    /\ leases = [l \in LeaseIds |-> NoLease]
    /\ tokens = {} /\ lost = {}
    /\ blockHeight = 0
    /\ commitments = [h \in Heights |-> NoCommitment]
    /\ latest = NoCommitment
    /\ audit = {}
    /\ lateRenewed = {}
    /\ faults \in FaultSets

\* What the gRPC and REST handlers of the daemon can start.
Api ==
    \/ \E l \in LeaseIds, w \in Wavelengths, d \in Durations, t \in now .. MaxTime :
           AllocateLease(l, w, d, t)
    \/ \E l \in LeaseIds, x \in Durations : RenewLease(l, x)
    \/ \E l \in LeaseIds : RevokeLease(l)

\* What only a caller of the library starts: nothing in flrd does.
Library ==
    \/ \E done, logged \in SUBSET Lapsed : ExpireLeases(done, logged)
    \/ CommitMerkleTree

Next == (Api \/ Library \/ Restart \/ Tick) /\ UNCHANGED faults

Spec == Init /\ [][Next]_vars

-----------------------------------------------------------------------------
(* Invariants *)

Commitment == [height : Heights, root : SUBSET TokenHash, count : Nat,
               sig : [height : Heights, root : SUBSET TokenHash, count : Nat]]

Operations == {"CREATE_LEASE", "RENEW_LEASE", "REVOKE_LEASE", "EXPIRE_LEASE",
               "COMMIT_MERKLE"}

\* The variables of the engine and its store hold values of their types.
TypeOK ==
    /\ now \in 0 .. MaxTime
    /\ leases \in [LeaseIds -> LeaseRecord \union {NoLease}]
    /\ tokens \subseteq Token /\ lost \subseteq Token
    /\ blockHeight \in 0 .. MaxHeight
    /\ commitments \in [Heights -> Commitment \union {NoCommitment}]
    /\ latest \in Commitment \union {NoCommitment}
    /\ audit \subseteq Operations \X (LeaseIds \union {Registry})
    /\ lateRenewed \subseteq LeaseIds
    /\ faults \in FaultSets

\* Two live leases of one wavelength exist only if one of them was renewed
\* after it had run out: AllocateLease checks the wavelength, RenewLease
\* revives a lapsed ACTIVE lease without looking at who holds it now.  Holds
\* with every fault but a failing conflict query, which AllocateLease takes
\* for "no conflict".
DoubleAllocationOnlyByLateRenewal ==
    "list" \notin faults => \A l, m \in LeaseIds :
        ( /\ l # m
          /\ LiveAt(l, now) /\ LiveAt(m, now)
          /\ leases[l].wl = leases[m].wl )
        => l \in lateRenewed \/ m \in lateRenewed

\* Two tokens of one wavelength and different leases pass VerifyLease at once
\* only after a late renewal, or at the very instant one of the leases ends:
\* the conflict check frees the wavelength at EndTime, VerifyLease and
\* ValidateLeaseToken still accept a token at EndTime.  Again unless the
\* conflict query fails.
VerifiedTokensExclusive ==
    "list" \notin faults => \A s, t \in tokens :
        ( /\ s.wl = t.wl /\ s.lease # t.lease
          /\ VerifyLease(s) /\ VerifyLease(t) )
        => \/ s.lease \in lateRenewed \/ t.lease \in lateRenewed
           \/ now \in {leases[s.lease].end, leases[t.lease].end}

\* A token that verifies is the newest one stored for its lease: a renewal
\* takes the older token out of use, also when the process dies after
\* UpdateLease and no caller ever gets the new one.
SupersededTokenRejected ==
    \A s \in tokens, t \in tokens \union lost :
        VerifyLease(s) /\ s.lease = t.lease => t.end <= s.end

Logged(op, l) == <<op, l>> \in audit

\* The audit log never runs ahead of the store: what it says was created,
\* expired or revoked has been, whatever fails and wherever the process dies.
AuditNeverAhead ==
    \A l \in LeaseIds :
        /\ Logged("CREATE_LEASE", l) => leases[l] # NoLease
        /\ Logged("EXPIRE_LEASE", l) => leases[l].status \in {"EXPIRED", "REVOKED"}
        /\ Logged("REVOKE_LEASE", l) => leases[l].status = "REVOKED"

AuditedStatus(l) ==
    CASE Logged("REVOKE_LEASE", l) -> "REVOKED"
      [] ~Logged("REVOKE_LEASE", l) /\ Logged("EXPIRE_LEASE", l) -> "EXPIRED"
      [] ~Logged("REVOKE_LEASE", l) /\ ~Logged("EXPIRE_LEASE", l)
            /\ Logged("CREATE_LEASE", l) -> "ACTIVE"
      [] OTHER -> "NONE"

\* The status of every lease can be read off the audit log, as long as no
\* append fails and no crash comes between the store write and the append.
AuditReconstructs ==
    faults \intersect {"audit", "crash"} = {} =>
        \A l \in LeaseIds : leases[l].status = AuditedStatus(l)

\* No two live leases share a wavelength.
NoDoubleAllocation ==
    \A l, m \in LeaseIds :
        LiveAt(l, now) /\ LiveAt(m, now) /\ leases[l].wl = leases[m].wl => l = m

\* A stored commitment verifies under the operator's key.
CommitmentsVerify ==
    \A h \in Heights :
        commitments[h] # NoCommitment => VerifyMerkleCommitment(commitments[h])

=============================================================================
