# OTAP: TLA+ verification project

TLA+ models of the OTAP stack, TLC runs that check them on small instances, and
TLAPS proofs of the central invariants. Paths below are relative to `src/`.

## The system

OTAP moves fixed-size application messages over an optical fabric. Wavelengths
are leased and message schemas are published in a registry per operator (FLR, in
Go); hosts and gateways (Rust) read the registry, program a register file and
move messages; the receiving hardware (RTL) reorders and decodes.

| part | state | operations | what is hard about it |
|---|---|---|---|
| lease registry (`flr/internal/registry`) | leases, commitments, audit log in BadgerDB; block height in memory | allocate, renew, revoke, expire, commit | several transactions per operation, dropped errors, restart, end-time boundaries |
| schema registry (same package) | schema records and an OAM index | register, deprecate, revoke; the store's create, update, delete | record and index must agree across status changes |
| federation (`flr/internal/federation`) | map of peers, their stored commitments, a gossip goroutine | register, remove, sync, detect, start, stop | concurrent syncs, failing peers, removal and stop during a round |
| MODQ ring (`crates/otap-modq`) | slots in shared or PCI memory, cursors on both sides | open, submit, poll; the device's take and finish | lock-free interleaving, wrap-around, restart of one side, full ring |
| reorder buffer (`rtl/otap_rob_bitweave.v`) | slots, SID planes, commit pointer, match pipeline | one clock edge, reset | a pipelined match that is a cycle old when used |
| D3 handshake and session (`crates/luxstream-otap-d3`) | one state machine per run | three messages, seal, open | many runs at once, unreliable transport |
| replay cache (same crate) | a ring in memory and in a file | open, check_and_insert | crash or failed write inside an insertion, reopening |
| register file (`crates/otap-csr`, `rtl/otap_csr_block.sv`) | 32-bit words: settings, secret, two packed tables | writers, readers, RTL lookup | neighbours in a word, two decoders of one layout |
| FLR client (`crates/otap-flr-client`) | its progress through a call | program_register_file, refresh_loop | the registry moves during the call, partial programming |
| gateway and fabric (`crates/otap-obg`, `otap-fabric`, `otap-codec`, `otap-sim`, `otap-crypto`) | register files, drivers, queues, sequence counter | arm, refresh, post, pump, poll | overflow, reset of counters, ends configured at different times, a fiber that rotates what is authenticated |
| schemas and trajectories (`crates/otap-schema`, `otap-core`) | none | encode, decode, rotate, winding number | two descriptions of one layout, what a rotation preserves |

Interactions: the gateway's client reads the schema registry (composed in
`ObgProvisioning`); the register file it writes is read by driver and RTL
(`CsrMap`, used by `ObgProvisioning` and `OtapStack`); drivers, codec, schemas
and fiber are composed in `OtapStack`; the federation manager works on the registry's store (the store's
part that matters is inside `Federation`); the MODQ host talks to the reorder
buffer through the ring.

## Modules

| module | models | state and actions |
|---|---|---|
| `LeaseRegistry` | `registry/engine.go`, `badger_store.go`, tokens and commitments of `crypto/engine.go` | one action per engine method; a failure or crash is a branch at the point between two transactions |
| `SchemaRegistry` | `schema_engine.go`, `schema_store.go` | `schemas`, `oamIdx`; `EngineNext` is what the daemon does, `StoreNext` what the store interface allows |
| `Federation` | `federation/*.go`, operator handlers of `api/server.go` | each goroutine of a round is a record in `tasks`, cut at its HTTP and store calls |
| `ModqRing`, `ModqFifo` | `otap-modq`, `modq_loopback.rs` | each step is one access the other side can see; `ModqFifo` is the abstract bounded queue |
| `RobBitweave` | `otap_rob_bitweave.v` | one action per clock edge |
| `D3Handshake` | `handshake.rs`, `session.rs`, `transport.rs` | a run's nonce is the run, a signature is the tuple it covers, the network only grows |
| `ReplayCache` | `replay_cache.rs` | memory ring, index and file |
| `CsrMap` | `otap-csr`, `otap_csr_block.sv` | no state of its own: a register file is a function from offsets to words, with the host's writers, the driver's view and the RTL's lookups as operators |
| `ObgProvisioning` | `otap-flr-client` on top of `SchemaRegistry` and `CsrMap` | the call is cut where the registry is asked and after every schema it maps; `SkipEntry`, `RefuseEntry` and `WriteEntry` are the three ways a turn of its loop ends |
| `SchemaCodec` | `otap-schema` | layouts as slices, once as `encode` writes and once as `decode` reads them; a payload is its length, its value and the bytes that changed |
| `Polarization` | `dimensions.rs`, `otap-sim`, the comparison of `otap-crypto` | rotation matrices, winding number, the two ways to compare trajectories |
| `OtapStack` | `otap-obg`, `otap-fabric`, `otap-codec` on the three modules above | `rf`, `driver`, queues, `outgoing`; one action per public operation: `Arm`, `refresh_from_csr`, `Post`, `Poll`, and the pump cut into `transmit_pending` and one `Deliver` per turn of its loop |
| `ObgLink` | the same code, abstractly | what words, bytes and floating point decide is a choice; `OtapStack` implements it |

A pump borrows both drivers and both queues until it returns, so `Post`, `Poll` and
`refresh_from_csr` wait while `outgoing` holds its Transients; the register files
are not borrowed, and `Arm` does not wait. A `fiber` is a record of its rotation and
the bytes that noise may change. The winding number is a recursive function over the
samples.

`MC*` modules give TLC the sets; `*Proofs` modules hold the theorems. Definitions named `Mutant...` are deliberate
faults: each replaces a definition to see that a property notices. Variables
that only record what happened (`lateRenewed`, `published`, `sent`, `polled`,
`received`, `completed`, `lost`, `detect.steady`) occur in no guard; the properties read
them.

Failures are chosen in the initial state where behaviours with and without them
are compared (`faults`, `mode`, `fiber`, `endpoint`, `server`); a property then says under
which of them it holds.

## Runs

| run | shows | instance |
|---|---|---|
| `lease` | two live leases of a wavelength only after a late renewal; tokens exclusive but for the instant an end time is reached; a renewed lease's older token rejected, also when a crash kept the new one from its holder; audit log never ahead of the store and, without lost appends, enough to rebuild every status | 2 leases, 1 wavelength, times 0..2 |
| `modq` | a READY slot is whole even after a host died; completions in order; the ring refines `ModqFifo`; submissions end unless all slots wait for a poll; what is submitted to the FPGA is completed | 2 slots, 4 SIDs, 6 submissions, 1 restart |
| `rob` | one match per commit pointer; output never goes back | 2 slots, 4 SIDs, 11 packets |
| `replay` | the last `capacity` hashes rejected while the process is up; the newest one also across clean restarts; a crash or a failed write inside an insertion costs no more than the hash in the slot it writes | capacity 3, 4 hashes, 6 insertions |
| `d3` | agreement of both ends, epochs shared by exactly the two ends, frames accepted only from the other end of the session | 3 + 3 runs, 3 keys, 2 domains |
| `obg` | the registry's index and records agree and a mode has one ACTIVE schema; what host and RTL find bound is the local handle with the local size, and was published; a lasting ACTIVE schema gets bound over a server that writes the JSON the client reads, and never over `flrd` | 2 schemas, both servers, four modes of which the gateway does not know one, 2 versions |
| `link` | completions in posting order; `auth_ok` under trajectory matching vouches for bytes and secret; sequence numbers count losses; only overflow loses an unimpeded request; decoded fields are the posted ones except where bytes changed; topological authentication survives a rotation about s3; the stack implements `ObgLink` | 3 requests of 2 kinds, queues of 2, 2 sequence numbers, 2 driver builds, 4 receiver settings, 5 fibers: clean, noisy, turned about s3, turned and noisy, turned about all axes |
| `federation` | nothing runs after StopGossip returned, and it returns; lasting conflicts with answering peers are reported; stored commitments do not go back; a removed peer is not revived by a sync | 2 peers, own or shared endpoint, 1 peer restart |
| `lease_double_allocation` | violated: late renewal makes two live leases | as `lease`, end times to 3, no faults |
| `lease_commit_signature` | violated: a commitment over a lease does not verify | as `lease`, end times to 3, no faults |
| `replay_after_restart` | violated: a restart makes the cache forget a recent hash | as `replay`, clean restarts |
| `link_pmd` | violated: a rotation that moves the s3 axis makes topological authentication reject an intact message | as `link` |

**Bounds.** Exclusivity needs two leases and one wavelength, and times up to 2
let a lease of length 1 run out, be replaced, and be renewed late. Two schemas on four modes contend for one mode or bind
two. Two slots with four SIDs make slots and SIDs wrap at different times,
and six submissions wrap both. Eleven packets wrap the four SIDs of the reorder
buffer twice. Capacity 3 with four hashes evicts and re-inserts. In `obg`, modes
1 and 3 share a word of the OAM table and the handles of modes 3 and 4 share a
word of the payload table. In `link`, two sequence numbers wrap within one pump,
and three requests overflow a queue of two; one request is well formed, the other
passes `validate` with a payload of another size; the receiver agrees with the
sender or differs in the secret, the wavelength or the mode; noise hits byte 4,
the side of an order, whose change `decode` may refuse. A trajectory has 4 samples
(16 in the code), enough to wind around the axis; each tells apart one input of the
HMAC. A rotation is by angles whose cosine and sine are fractions (the run has the
quarter turn and two angles of the 3-4-5 triangle), its matrix multiplied by the
denominators, which is exact and changes no direction; no two points used are at an
angle where rounding would decide. The layouts that never arrive in
the run are checked byte by byte by the assumption `LayoutsInvert`. Each bound is a named constant in a
guard (`MaxTime`, `MaxSubmits`, ...).

**Symmetry** is used for lease ids and hashes, which the models only compare; no run with symmetry checks liveness.

**Deadlock** is checked except in `modq`, `d3`, the link runs and the replay runs, which end
when their bounds are used up (handshake runs are finite by nature).

**Fairness.** `modq`: the host thread and the device run (weak), and the
application keeps polling between submissions (strong, as `poll` is enabled only
while no submission is in progress); without this last point the ring
fills for good. `obg`: `refresh_loop` runs until stopped (weak) and a registry
asked for ever answers some of the time (strong); `Stop` and the registry's own
steps are not fair. `federation`: goroutines run and every HTTP call ends because
the client has a timeout (weak); Go's `select` picks at random among ready
cases, so the loop cannot ignore a cancelled context for ever (strong).

## Proofs

For all values of the constants, from the named assumptions in the component
modules only:

- `LeaseRegistryProofs`: `TypeCorrect`; `ExclusiveLeases`, by showing that each
  action keeps the invariant given the types (allocation by the conflict check,
  renewal by putting the lease in `lateRenewed`, time by shrinking the set of
  live leases); `NewestTokenOnly` and `ExclusiveTokens` from the auxiliary
  invariant `TokenBookkeeping`, which ties every issued token to the stored
  lease (same wavelength and start, end no later) and the stored hash to the
  newest terms. It is about the tokens in `lost` too, which a renewal stored before a
  crash kept them from their holder. Neither token property is inductive alone: nothing in it says
  what tokens exist for a lease that is not verified right now. `AuditNotAhead` and
  `AuditTellsAll` rest on one lemma, `StepRecorded`: every step of the engine is
  one change of one lease with its audit entry (unless the append is lost), an
  expiry of several, or neither.
- `FlrProofs`, on the schema registry: `IndexCorrect` (`TypeOK /\ IndexExact`
  is inductive), `OneActive` follows from it. On the registry's client: `BoundIsSized` and
  `BoundIsPublished` from `ObgInv`. The answer the client maps may be stale, so the
  invariant ties it to the history of published modes and not to the registry's
  present state; a bound entry is tied to that history and to the size of its
  handle, which needs the theorems of `GatewayProofs` that a write disturbs no
  neighbour. The register words of a host's settings are the assumption
  `ConfigsTyped`, which the types of `program_register_file` guarantee; nothing is
  assumed of the sizes a registry lists or of its key order.
  On the federation: from `FedInv`, a conjunction of one invariant per question.
  `Waits` (who waits for whom among StopGossip, the loop, a round and its syncs)
  gives `StopIsQuiet`; `Steady` (a lasting conflict is still to be asked, failed or
  reported) gives `LastingConflictsReported`; `Fresh` (what is stored is not newer
  than what a sync in flight fetched, when every peer has its own endpoint) gives
  `LatestNeverFallsBack`, and needs the part of `Waits` that a peer has one sync at a
  time. `RemovedStaysRemoved` follows from the types.
- `D3Proofs`, on the handshake: `RespondersAgree`, `InitiatorsAgree`, `EpochsAgree` and
  `FramesFromPeer` from an inductive invariant that says which run made every
  message in the network, and what each run's state implies about its peer's.
  Signatures are unforgeable and nonces fresh by the form of the model.
  On the replay cache: `RecentAlwaysSurvive` from `FileInOrder`, which says in which
  slot of the file the hash accepted `d` acceptances ago is, as long as the process
  lives: the next insertion writes the one slot that is none of theirs;
  `NewestAlwaysRejected` from `NewestKept` (the newest hash is in memory and in
  the file, because a restart loads the file); `RecentAlwaysRejected` from
  `RingInOrder`, which says in which entry the hash of `d` insertions ago is.
- `ModqRingProofs`: `TypeCorrect`; `ReadyAlwaysCoherent` from `Coherence`, which
  adds what the slot being filled holds between the host's writes; and
  `CompletionsAlwaysInOrder` from `Order`: the ring is a window of finished,
  published and free slots that starts at the oldest submission not yet freed, each
  with its own SID. That slots less than a ring apart are different is a lemma about
  `%`. `RingIsFifo` is the refinement of `ModqFifo`: under `Order` the abstract queue
  is the run of published submissions that the device has not taken
  (`WaitingIs`), so publishing appends to it (`WaitingGrows`), taking removes its
  head (`WaitingShrinks`), and every other step leaves it (`WaitingKept`).
  `CompletionsInOrder` and the refinement speak of a host process that was not
  restarted; `ReadyIsCoherent` of all.
- `RobBitweaveProofs`: `ScanIsUnambiguous` from `SlotsOwnSids`: a valid slot holds
  a SID that is its own index modulo the depth, whichever driver of a slot wins.
  `OrderIsKept` from `Tracking`. The match vector is a cycle old and a packet can be
  committed twice, so the commit pointer may be ahead of the packets; the invariant
  bounds by how much. Every packet is in its slot or cost a commit, and a slot in
  use holds back the packet a depth later, so the pointer never comes around the SID
  range to a slot it left behind. This uses that the SID range is a proper multiple
  of the depth (`SidsCoverSlots`), as the parameters of the RTL are.
- `GatewayProofs`, on the register file: a write to one entry of a packed table
  changes that entry and no other (`PayloadTableExact`, `OamTableExact`); the RTL
  decodes both tables as the host does, except that it takes mode +16 for -16
  (`RtlReadsTheTables`); what a driver latches is what was last written
  (`SettingsReadBack`). They rest on
  lemmas about replacing a half or a byte of a word. The module also holds what the
  proofs of the stack need of its operators and not of its state: sequences, what a
  payload with changed bytes decodes to, and the winding number.
- `OtapStackProofs`: `InOrder`, `Vouches`, `CountsLosses`, `Fieldwise` and
  `OnlyOverflowLoses`, for any settings, requests, fibers, capacities and size of the
  sequence counter, from the inductive invariant `StackInv`:
  - `TypesInv` says what every queue holds. Part of a completion's type is what its
    request, its changed bytes and its authentication have to do with each other,
    settled when it arrives and kept from then on: `Vouches` and `Fieldwise` are read
    off it.
  - `DriversInv`: what a driver latched is a setting of its host. It needs
    `SettingsReadBack` and that installing the schemas disturbs no setting.
  - `NumbersInv`: delivered, in flight and queued requests are numbered without a
    gap, and no completion is later than what was sent; with it `CompletedInOrder`
    is inductive.
  - `SequenceInv`: there is a first request of the session such that the counter
    and every sequence number of the session count from it, modulo `SequenceMod`.
    `SequenceCountsLosses` alone says nothing of a session without completions.
  - `LossInv`: an unimpeded request is among the completions, or the last
    `CqCapacity` of them are later. A push to a full queue makes this true of the
    completion it evicts, because the queue is the end of `Delivered`.
- `OtapLinkProofs`: `Implements` is the refinement of `ObgLink`: each step maps to the
  step of the same name, `Arm` to a stutter. `StackInv` is needed because what the
  link allows to arrive (`LinkReceives`) depends on what is in flight. `SurvivesS3`
  is about the winding number, whose lemmas are in `GatewayProofs`: a turn of the
  plane moves the angle of every sample across the cut of `atan2` or not, and changes
  the turns that wrapping adds from one sample to the next by the difference of these
  crossings (`SpunWraps`; by cases for turns to the left, to the right and by half a
  turn, from the signs of the second coordinates before and after); around a
  closed loop the differences cancel (`Telescope`). A rotation that keeps the direction
  of s3 is such a turn of the plane (`FixingS3`). The recursion over the samples
  is met without induction: the sums exist and telescope because there is no least
  length at which they do not (`Least`), the well-foundedness of the numbers.

Assumed of the stack's constants: the types of the settings, requests and
trajectories (`SettingsTyped`, `RequestsTyped`, `HmacTyped`), positive capacities,
and `HmacIdeal`: another secret or changed bytes give another trajectory, also after
the fiber has turned it. Only `SurvivesS3` uses two more. `FibersRotate` says that the
matrix of a fiber is a positive multiple of a rotation with whole entries, which
covers every composition of `about_s1`, `about_s2` and `about_s3` by angles with
rational cosine and sine. `HmacOffAxis` says that no sample
lies on the s3 axis. It is an idealisation: such a sample needs 32 zero bits of the
HMAC, and there `atan2(0, 0)` takes the direction of s1 whatever the rotation, so that
the winding number could change. All of it is in exact arithmetic: what f32 rounding
does to a sample next to the cut is not covered. The `link` run evaluates all of them.

The inductive invariants were checked by TLC on the instances of the runs before
they were proved (`Tracking` for five pairs of depth and SID range; `StackInv`
without the membership in infinite sets of `TypesInv`).

Only model-checked: liveness (`SubmitEndsOrFull`, `PublishedIsCompleted`,
`ActiveGetsBound`, `StopReturns`), which is out of the prover's reach. Every safety
invariant, action property and refinement of a passing run is also a theorem. The
schema store's own interface (`StoreNext`) is covered by the proofs of `FlrProofs`;
the runs exercise the engine's use of it.

## What the models say about the code

Checked by the four violated runs: late renewal (`engine.go:116`), commitment
signature (`engine.go:266`), replay cache after a restart (`replay_cache.rs:47`),
and topological authentication: `winding_number_s3` (`dimensions.rs:142`) follows
the projection along s3, so it is invariant under rotations about s3 only, not
"under arbitrary unitary transforms of the Poincaré sphere" (`dimensions.rs:135`).

Visible in the models, without a run of their own:

- The block height restarts at 0 with the process (`engine.go:33`), so the
  commitments of an earlier process are overwritten and the latest stored one can go
  back, against `flr/DESIGN.md:280` ("monotonically increasing") and `:549`. The model
  has the reset; no property says otherwise.
- `DeprecateSchema` turns a REVOKED schema into a DEPRECATED one
  (`schema_engine.go:102`), that is, from "no longer valid" back to "still valid for
  decode" (`models/schema.go:20-23`).
- `UpdateSchema` of the store would leave a stale index entry if a caller changed the
  mode (`schema_store.go:144`). Both callers keep it, and so does `StoreNext`.
- The client cannot read what `flrd` writes: Go encodes a `SchemaStatus` as its number
  (`models/schema.go:13`) and an empty answer as `null` (`schema_store.go:231`), the
  client expects the name and a list (`otap-flr-client/src/lib.rs:145`, `:278`), as the
  server of its tests writes them (`tests/mock_flr.rs`). `ObgProvisioning` has both
  servers, and `ActiveGetsBound` says of `flrd` that nothing gets bound.
- `GetLeases` of the federation client decodes a bare array (`client.go:92-95`), while
  the gateway of this repository answers an object with `leases` and `total`
  (`api/server.go:287-290`): against `flrd` a detection fails for every peer.
  `Federation` lets a call succeed or fail, so the properties of detection speak of
  peers that answer as the client expects.
- Failed insertions of the replay cache grow the ring in memory and do not move the
  write index, so that while the ring fills, memory and file run apart: a later
  failure can overwrite even the newest accepted hash in memory
  (`replay_cache.rs:72-86`). `RecentRejectedWhileUp` assumes that no write fails;
  `RecentSurviveCrash` is about the file and does not.
- The key of an audit entry is a time stamp (`badger_store.go:554`): two entries of one
  nanosecond are one. The model's log is a set that only grows, without such a
  collision.
- The match vector of the reorder buffer is one cycle old, so a packet can be
  output twice and the commit pointer then runs ahead of the packets
  (`otap_rob_bitweave.v:97-133`); `NeverGoesBack` therefore allows a repeat.
- The gateway's tables are only ever written: a deprecated schema stays bound,
  although `otap-flr-client/src/lib.rs:29-32` says the loop picks up
  deprecations. `BoundWasPublished` speaks of the past for that reason.
- `RegisterOperator` of the API stores the operator and then asks the manager,
  which finds it stored and refuses (`api/server.go:390`): the peer is persisted
  and never gossiped with. After a restart the manager's map is empty and stored
  operators cannot be registered again.
- The RTL's `oam_lookup` has five bits (`otap_csr_block.sv:46`) and reads mode +16
  as -16; the host can program both. No schema uses either.
- `SendQueue::post` validates the length a request claims, not that of its
  payload (`otap-obg/src/lib.rs:184`); such a message is transmitted and dropped
  by the receiver.
- The daemon starts neither `ExpireLeases` nor `StartGossip`; both are library
  operations here (`Library`, `StartGossip`).
- A failing lease query counts as "no conflict" (`engine.go:188`), and audit
  errors are dropped; both are faults of the model and conditions of its
  properties.
- `pump_a_to_b` counts transmitted Transients, `otap-fabric/src/lib.rs:91` says
  delivered.
- An EXPIRED lease can be revoked (`engine.go:161`), `flr/DESIGN.md:515` calls the
  state terminal.

## Not modelled

- Cryptographic primitives (ideal), f32 rounding, JSON beyond the shapes above,
  protobuf, logging and the wording of errors: data the properties do not tell apart.
- Altered handshake messages. The network of `D3Handshake` loses, repeats, delays and
  misroutes what honest runs sent. The HELLO signatures cover the nonces and not the
  keys (`handshake.rs:205`, `:273`), so the agreement properties say nothing of a
  message whose key field was replaced on the way.
- `StartGossip` and `StopGossip` from several threads, and a parent context that ends
  (`manager.go:320-339`): `gossipCancel` is not locked, and the model has one thread
  that starts and stops.
- `schema_payload_bytes` outside the handles 1 to 31, where the code returns an error
  (`otap-csr/src/lib.rs:390-403`): the local schemas have the handles 1 to 3.
- The Rolling Photon Checksum of a D3 frame (`rpc.rs`): the signature covers it.
- Accessors that only read: `get_schema`, `get_active_schema_for_oam`, MODQ
  counters, audit reports and compliance checks, Merkle proofs.
- `mmap` and shared memory behind the ring; command-line tools and benchmarks,
  which drive the libraries and print.
- The lease index (`flr/internal/bitweave`) and the update stream of the
  federation client: no code of the daemon calls them, so the model would have to
  invent their callers. The generated AVX-512 kernel.
- Translation tables (`flr/internal/xlat`): a map under one lock.
- Stage Chronos (`stage-chronos`): numerical simulation and thresholds over it.
- Tests. The definitions stand for about a third of the Rust lines, of which
  tests, tools and documentation comments are a large part of the rest.
