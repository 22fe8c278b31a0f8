----------------------------- MODULE Federation ------------------------------
(***************************************************************************)
(* The federation manager of one operator (flr/internal/federation): peer  *)
(* registration, the gossip loop with its concurrent syncs, conflict       *)
(* detection against peers, start and stop of the loop.  Peers are other   *)
(* daemons behind HTTP; only what they serve is modelled.  Of the leases   *)
(* only one wavelength matters: who has it leased and running.             *)
(***************************************************************************)
EXTENDS Naturals, FiniteSets

CONSTANTS Peers,         \* operator ids
          EndpointMaps,  \* the endpoints peers may be registered with
          MaxHeight,     \* bound on the block height of a peer
          MaxGen         \* bound on restarts of a peer

ASSUME EndpointMapsType == EndpointMaps \subseteq [Peers -> Peers]
ASSUME PeerBoundsNat == MaxHeight \in Nat /\ MaxGen \in Nat

VARIABLES endpoint,   \* whose daemon answers at the endpoint of an operator
          operators,  \* the manager's map: absent, joined, or synced
          stored,     \* operators in the store
          latest,     \* stored "latest" commitment per operator
          served,     \* what each peer's daemon answers as its latest commitment
          claims,     \* daemons whose operator has the wavelength leased
          local,      \* whether this operator has it leased
          gossip,     \* the controlling thread: off, on, stopping, restarting
          loop,       \* the gossip goroutine
          phase,      \* where its current round is
          tasks,      \* SyncWithOperator goroutines
          detect      \* local variables of DetectConflicts

envVars == <<endpoint, served, claims, local>>
memVars == <<operators, stored, latest>>
roundVars == <<gossip, loop, phase, tasks, detect>>
fedVars == <<envVars, memVars, roundVars>>

NoCommit == [gen |-> 0, height |-> 0]

Registered == {p \in Peers : operators[p] # "absent"}

\* A daemon answers with its own commitment, whatever operator was asked for.
GetCommitment(p) == served[endpoint[p]]

\* The lease query names the operator, so another daemon finds none of its leases.
GetLeases(p) == endpoint[p] = p /\ p \in claims

findConflicts(mine, p) == mine /\ GetLeases(p)

Conflicting(p) == findConflicts(local, p)

NoDetection == [mine |-> FALSE, todo |-> {}, failed |-> {}, reported |-> {}, steady |-> {}]

-----------------------------------------------------------------------------
(* Registration *)

\* The store refuses an id it has.
CreateOperator(p) ==
    /\ p \notin stored
    /\ stored' = stored \union {p}

\* Manager.RegisterOperator: refused when the map or the store has the id.
RegisterOperator(p) ==
    /\ p \notin Registered
    /\ CreateOperator(p)
    /\ operators' = [operators EXCEPT ![p] = "joined"]
    /\ UNCHANGED <<latest, envVars, roundVars>>

\* The API handler stores the operator first and then calls RegisterOperator,
\* which finds the id in the store and fails.
ApiRegisterOperator(p) ==
    /\ CreateOperator(p)
    /\ UNCHANGED <<operators, latest, envVars, roundVars>>

RemoveOperator(p) ==
    /\ p \in Registered
    /\ operators' = [operators EXCEPT ![p] = "absent"]
    /\ detect' = [detect EXCEPT !.steady = @ \ {p}]
    /\ UNCHANGED <<stored, latest, envVars, gossip, loop, phase, tasks>>

-----------------------------------------------------------------------------
(* One gossip round *)

\* The active peers are synced by one goroutine each.  "steady" is history: the
\* peers in conflict since the round began.
RoundStart ==
    /\ loop = "alive" /\ phase = "idle" /\ Registered # {}
    /\ phase' = "sync"
    /\ tasks' = tasks \union {[peer |-> p, stage |-> "start", got |-> NoCommit] : p \in Registered}
    /\ detect' = [NoDetection EXCEPT !.steady = {p \in Registered : Conflicting(p)}]
    /\ UNCHANGED <<memVars, envVars, gossip, loop>>

\* SyncWithOperator looks the peer up and asks its endpoint for the latest
\* commitment.
SyncFetch(t) ==
    /\ t.stage = "start" /\ t.peer \in Registered
    /\ GetCommitment(t.peer) # NoCommit
    /\ tasks' = (tasks \ {t}) \union
                    {[t EXCEPT !.stage = "fetched", !.got = GetCommitment(t.peer)]}
    /\ UNCHANGED <<memVars, envVars, gossip, loop, phase, detect>>

\* SaveCommitment files the commitment under the operator it names.
SyncSave(t) ==
    /\ t.stage = "fetched"
    /\ latest' = [latest EXCEPT ![endpoint[t.peer]] = t.got]
    /\ tasks' = (tasks \ {t}) \union {[t EXCEPT !.stage = "saved"]}
    /\ UNCHANGED <<operators, stored, envVars, gossip, loop, phase, detect>>

MutantSyncRevives(t) ==
    /\ t.stage = "saved"
    /\ operators' = [operators EXCEPT ![t.peer] = "synced"]
    /\ tasks' = tasks \ {t}
    /\ UNCHANGED <<stored, latest, envVars, gossip, loop, phase, detect>>

\* The peer's leases arrive; the conflicts found here are discarded.
SyncFinish(t) ==
    /\ t.stage = "saved"
    /\ operators' = [operators EXCEPT ![t.peer] = IF @ = "absent" THEN @ ELSE "synced"]
    /\ tasks' = tasks \ {t}
    /\ UNCHANGED <<stored, latest, envVars, gossip, loop, phase, detect>>

MutantSyncFailsSilently(t) ==
    /\ t.stage # "lost"
    /\ tasks' = (tasks \ {t}) \union {[t EXCEPT !.stage = "lost"]}
    /\ UNCHANGED <<memVars, envVars, gossip, loop, phase, detect>>

\* The peer was removed, did not answer in time, or the store failed.
SyncFails(t) ==
    /\ tasks' = tasks \ {t}
    /\ UNCHANGED <<memVars, envVars, gossip, loop, phase, detect>>

MutantDetectEarly ==
    /\ phase = "sync"
    /\ phase' = "detect"
    /\ detect' = [detect EXCEPT !.mine = local, !.todo = Registered]
    /\ UNCHANGED <<memVars, envVars, gossip, loop, tasks>>

\* All results are in: DetectConflicts lists the local leases and the peers.
DetectStart ==
    /\ phase = "sync" /\ tasks = {}
    /\ phase' = "detect"
    /\ detect' = [detect EXCEPT !.mine = local, !.todo = Registered]
    /\ UNCHANGED <<memVars, envVars, gossip, loop, tasks>>

MutantDetectStopsAtFailure(p, answers) ==
    /\ phase = "detect" /\ p \in detect.todo
    /\ detect' = [detect EXCEPT
                     !.todo = IF answers THEN @ \ {p} ELSE {},
                     !.failed = IF answers THEN @ ELSE @ \union {p},
                     !.reported = IF answers /\ findConflicts(detect.mine, p)
                                  THEN @ \union {p} ELSE @]
    /\ UNCHANGED <<memVars, envVars, gossip, loop, phase, tasks>>

\* One peer after the other is asked for its leases; a peer that does not
\* answer is skipped.
DetectPeer(p, answers) ==
    /\ phase = "detect" /\ p \in detect.todo
    /\ detect' = [detect EXCEPT
                     !.todo = @ \ {p},
                     !.failed = IF answers THEN @ ELSE @ \union {p},
                     !.reported = IF answers /\ findConflicts(detect.mine, p)
                                  THEN @ \union {p} ELSE @]
    /\ UNCHANGED <<memVars, envVars, gossip, loop, phase, tasks>>

\* The store cannot list the local leases: the round goes on without detection.
DetectFails ==
    /\ phase = "sync" /\ tasks = {}
    /\ phase' = "idle"
    /\ detect' = NoDetection
    /\ UNCHANGED <<memVars, envVars, gossip, loop, tasks>>

\* Conflicts are logged and the own commitment is pushed to the peers.
RoundEnd ==
    /\ phase = "detect" /\ detect.todo = {}
    /\ phase' = "idle"
    /\ detect' = NoDetection
    /\ UNCHANGED <<memVars, envVars, gossip, loop, tasks>>

-----------------------------------------------------------------------------
(* Starting and stopping *)

\* StartGossip stops a running loop first; StopGossip cancels the loop and
\* waits for its goroutine.
StartGossip ==
    \/ /\ gossip = "off"
       /\ gossip' = "on" /\ loop' = "alive"
       /\ UNCHANGED <<memVars, envVars, phase, tasks, detect>>
    \/ /\ gossip = "on"
       /\ gossip' = "restarting"
       /\ UNCHANGED <<memVars, envVars, loop, phase, tasks, detect>>

StopGossip ==
    /\ gossip = "on"
    /\ gossip' = "stopping"
    /\ UNCHANGED <<memVars, envVars, loop, phase, tasks, detect>>

\* The loop's select may still choose a tick that is due over the cancelled
\* context: RoundStart stays enabled until the loop takes this branch.
LoopExit ==
    /\ loop = "alive" /\ phase = "idle" /\ gossip \in {"stopping", "restarting"}
    /\ loop' = "exited"
    /\ UNCHANGED <<memVars, envVars, gossip, phase, tasks, detect>>

MutantStopWithoutWait ==
    /\ gossip \in {"stopping", "restarting"}
    /\ gossip' = IF gossip = "stopping" THEN "off" ELSE "on"
    /\ loop' = IF gossip = "stopping" THEN loop ELSE "alive"
    /\ UNCHANGED <<memVars, envVars, phase, tasks, detect>>

WaitReturns ==
    /\ gossip \in {"stopping", "restarting"} /\ loop = "exited"
    /\ gossip' = IF gossip = "stopping" THEN "off" ELSE "on"
    /\ loop' = IF gossip = "stopping" THEN loop ELSE "alive"
    /\ UNCHANGED <<memVars, envVars, phase, tasks, detect>>

\* The daemon restarts: NewManager begins with an empty map.
Restart ==
    /\ operators' = [p \in Peers |-> "absent"]
    /\ gossip' = "off" /\ loop' = "exited" /\ phase' = "idle"
    /\ tasks' = {} /\ detect' = NoDetection
    /\ UNCHANGED <<stored, latest, envVars>>

-----------------------------------------------------------------------------
(* The peers' daemons and the local registry *)

\* A peer commits: the next height, or height 1 again after a restart.
PeerCommits(p) ==
    /\ \/ served[p].height < MaxHeight
          /\ served' = [served EXCEPT ![p].height = @ + 1]
       \/ served[p].height > 0 /\ served[p].gen < MaxGen
          /\ served' = [served EXCEPT ![p] = [gen |-> @.gen + 1, height |-> 1]]
    /\ UNCHANGED <<endpoint, claims, local, memVars, roundVars>>

PeerLeaseChanges(p) ==
    /\ claims' = IF p \in claims THEN claims \ {p} ELSE claims \union {p}
    /\ detect' = [detect EXCEPT !.steady = @ \ {p}]
    /\ UNCHANGED <<endpoint, served, local, memVars, gossip, loop, phase, tasks>>

LocalLeaseChanges ==
    /\ local' = ~local
    /\ detect' = [detect EXCEPT !.steady = {}]
    /\ UNCHANGED <<endpoint, served, claims, memVars, gossip, loop, phase, tasks>>

FedInit ==
    /\ endpoint \in EndpointMaps
    /\ operators = [p \in Peers |-> "absent"]
    /\ stored = {}
    /\ latest = [p \in Peers |-> NoCommit]
    /\ served = [p \in Peers |-> NoCommit]
    /\ claims = {} /\ local = FALSE
    /\ gossip = "off" /\ loop = "exited" /\ phase = "idle"
    /\ tasks = {} /\ detect = NoDetection

Step(t) == SyncFetch(t) \/ SyncSave(t) \/ SyncFinish(t) \/ SyncFails(t)

FedNext ==
    \/ \E p \in Peers : RegisterOperator(p) \/ ApiRegisterOperator(p) \/ RemoveOperator(p)
    \/ RoundStart \/ DetectStart \/ DetectFails \/ RoundEnd
    \/ \E t \in tasks : Step(t)
    \/ \E p \in Peers, answers \in BOOLEAN : DetectPeer(p, answers)
    \/ StartGossip \/ StopGossip \/ LoopExit \/ WaitReturns \/ Restart
    \/ \E p \in Peers : PeerCommits(p) \/ PeerLeaseChanges(p)
    \/ LocalLeaseChanges

\* Goroutines run, every HTTP call ends within the client's timeout, and the
\* select of the loop, which chooses at random, does not ignore a cancelled
\* context for ever.
FedFair ==
    /\ WF_fedVars(\E t \in tasks : Step(t))
    /\ WF_fedVars(DetectStart \/ DetectFails)
    /\ WF_fedVars(\E p \in Peers, answers \in BOOLEAN : DetectPeer(p, answers))
    /\ WF_fedVars(RoundEnd)
    /\ SF_fedVars(LoopExit)
    /\ WF_fedVars(WaitReturns)

FedSpec == FedInit /\ [][FedNext]_fedVars /\ FedFair

-----------------------------------------------------------------------------
(* Properties *)

\* When StopGossip has returned, no sync and no round is still at work.
QuietAfterStop == gossip = "off" => loop = "exited" /\ phase = "idle" /\ tasks = {}

\* The stored latest commitment of a peer never falls back to an earlier one of
\* that peer, provided every operator was registered with its own endpoint.
LatestMonotonic ==
    [][(\A p, q \in Peers : endpoint[p] = endpoint[q] => p = q) =>
        \A p \in Peers :
            \/ latest'[p].gen > latest[p].gen
            \/ latest'[p].gen = latest[p].gen /\ latest'[p].height >= latest[p].height]_fedVars

\* A sync that overlaps RemoveOperator does not bring the peer back: only a
\* first registration adds an operator to the map.
RemovedNotRevived ==
    [][\A p \in Peers : operators[p] = "absent" /\ operators'[p] # "absent" => p \notin stored]_fedVars

\* A round reports every conflict that lasts from its beginning with a peer
\* that answers, whatever happens to the other peers.
ConflictReported ==
    phase = "detect" /\ detect.todo = {} =>
        detect.steady \ detect.failed \subseteq detect.reported

\* StopGossip, and StartGossip when it has to stop a loop, return.
StopReturns == gossip \in {"stopping", "restarting"} ~> gossip \in {"off", "on"}

=============================================================================
