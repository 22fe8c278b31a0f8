------------------------------ MODULE OtapStack ------------------------------
(***************************************************************************)
(* Two software gateways and one direction of the fabric between them in   *)
(* detail: register files as words, drivers that latch them, payloads as   *)
(* bytes, trajectories as points of the Poincare sphere (crates/otap-obg,  *)
(* otap-fabric, otap-codec, and the crates behind CsrMap, SchemaCodec and  *)
(* Polarization).  It implements the link of ObgLink.                      *)
(***************************************************************************)
EXTENDS CsrMap, Polarization, SchemaCodec

CONSTANTS Settings,       \* wavelength, secret and mode the host of each end may choose
          Requests,       \* what applications post: schema, claimed and real length
          Fibers,         \* a rotation, and the bytes noise may change
          HmacTrajectory(_, _),  \* derive_trajectory: samples from the HMAC of a context
          SendCapacity, CqCapacity,
          SequenceMod,    \* number of sequence numbers (2^16 in the code)
          MaxPosts,       \* bound on requests posted
          MaxRefreshes    \* bound on rebuilds of the sending driver

ASSUME CapacitiesPositive ==
    SendCapacity \in Nat \ {0} /\ CqCapacity \in Nat \ {0} /\ SequenceMod \in Nat \ {0}
ASSUME BoundsNat == MaxPosts \in Nat /\ MaxRefreshes \in Nat

VARIABLES fiber,      \* the channel
          rf,         \* the register file of each end
          driver,     \* what from_csr latched at each end
          sequence,   \* next_sequence of the sending encoder
          session,    \* how often the sending driver was built
          sendQ, cq,
          outgoing,   \* Transients of a pump that are not yet delivered
          posted,     \* requests posted so far
          sent,       \* transmitted requests: TRUE when nothing stood in the way
          polled      \* completions the receiving application took

vars == <<fiber, rf, driver, sequence, session, sendQ, cq, outgoing, posted, sent, polled>>

Ends == {"tx", "rx"}

-----------------------------------------------------------------------------
(* Drivers *)

NotArmed == [secret |-> "none"]

\* A pump borrows both drivers, the send queue and the completion queue until
\* it returns; the register files are not among them.
Pumping == outgoing # << >>

\* The configuration latched from a register file, if it is armed.
from_csr(regs) ==
    IF ~WavelengthValid(view_wavelength(regs)) \/ ~secret_valid(regs) THEN NotArmed
    ELSE [wavelength  |-> view_wavelength(regs),
          secret      |-> shared_secret(regs),
          topological |-> (ctrl(regs) \div CTRL_AUTH_TOPOLOGICAL) % 2 = 1,
          tolerance   |-> IF auth_tolerance(regs) < 100 THEN 100 ELSE auth_tolerance(regs)]

Install(regs, handle, id) ==
    set_oam_to_schema(set_schema_payload(regs, handle, payload_bytes(id)), OAM_MODE(id), handle)

\* Settings, and the three schemas under the handles 1, 2 and 3.
arm_register_file(regs, setting) ==
    Install(Install(Install(write_settings(regs, setting),
                            1, "EquityTradeOrder"), 2, "MarketTick"), 3, "Heartbeat")

Arm(end, setting) ==
    /\ rf' = [rf EXCEPT ![end] = arm_register_file(@, setting)]
    /\ UNCHANGED <<fiber, driver, sequence, session, sendQ, cq, outgoing, posted, sent, polled>>

\* An unarmed register file is an error that leaves the old driver in place.
refresh_from_csr(end) ==
    /\ ~Pumping
    /\ from_csr(rf[end]) # NotArmed
    /\ driver' = [driver EXCEPT ![end] = from_csr(rf[end])]
    /\ IF end = "tx"
       THEN session < MaxRefreshes /\ session' = session + 1 /\ sequence' = 0
       ELSE UNCHANGED <<session, sequence>>
    /\ UNCHANGED <<fiber, rf, sendQ, cq, outgoing, posted, sent, polled>>

-----------------------------------------------------------------------------
(* Queues *)

\* The descriptor's length is validated, the payload's is not.
validate(id, payload_len) == payload_len = payload_bytes(id)

\* The payload that comes with the n-th request: a value, known by that number,
\* in a buffer that may be longer or shorter.
Buffer(id, bytes, n) == [encode(id, [f \in Fields(id) |-> n]) EXCEPT !.bytes = bytes]

Post(id, payload_len, bytes) ==
    /\ ~Pumping
    /\ posted < MaxPosts
    /\ validate(id, payload_len)
    /\ Len(sendQ) < SendCapacity
    /\ posted' = posted + 1
    /\ sendQ' = Append(sendQ, [id |-> posted + 1, schema_id |-> id,
                               payload |-> Buffer(id, bytes, posted + 1)])
    /\ UNCHANGED <<fiber, rf, driver, sequence, session, cq, outgoing, sent, polled>>

MutantPushDropsNewest(queue, c) == IF Len(queue) >= CqCapacity THEN queue ELSE Append(queue, c)

\* A full queue loses its oldest completion.
push(queue, c) == Append(IF Len(queue) >= CqCapacity THEN Tail(queue) ELSE queue, c)

MutantPollTakesLast ==
    /\ ~Pumping /\ cq # << >>
    /\ polled' = Append(polled, cq[Len(cq)])
    /\ cq' = SubSeq(cq, 1, Len(cq) - 1)
    /\ UNCHANGED <<fiber, rf, driver, sequence, session, sendQ, outgoing, posted, sent>>

Poll ==
    /\ ~Pumping /\ cq # << >>
    /\ polled' = Append(polled, Head(cq))
    /\ cq' = Tail(cq)
    /\ UNCHANGED <<fiber, rf, driver, sequence, session, sendQ, outgoing, posted, sent>>

-----------------------------------------------------------------------------
(* Encoder, fiber and decoder *)

MutantSaturatingSequence(n) == IF sequence + n < SequenceMod THEN sequence + n ELSE SequenceMod - 1

\* encode_raw takes the sequence number and advances it, wrapping around.
SequenceAfter(n) == (sequence + n) % SequenceMod

Context(wavelength, oam, seq, payload) ==
    [wavelength |-> wavelength, oam |-> oam, sequence |-> seq, payload |-> payload]

\* The dimensions of a Transient but for the polarization are its context.
Transient(context, trajectory) == [context |-> context, polarization |-> trajectory]

encode_raw(oam, seq, payload) ==
    LET tx == driver["tx"]
        context == Context(tx.wavelength, oam, seq, payload)
    IN  Transient(context, HmacTrajectory(tx.secret, context))

\* The send queue is drained in order; the pump then holds its Transients.
transmit_pending ==
    /\ \A e \in Ends : driver[e] # NotArmed
    /\ ~Pumping /\ sendQ # << >>
    /\ outgoing' =
          [n \in DOMAIN sendQ |->
              [request   |-> sendQ[n],
               transient |-> encode_raw(OAM_MODE(sendQ[n].schema_id), SequenceAfter(n - 1),
                                        sendQ[n].payload)]]
    /\ sequence' = SequenceAfter(Len(sendQ))
    /\ sendQ' = << >>
    /\ UNCHANGED <<fiber, rf, driver, session, cq, posted, sent, polled>>

Flipped(context, flips) == [context EXCEPT !.payload.flipped = flips]

Exposed(f, payload) == {b \in f.noise : b < payload.bytes}

\* Every sample is rotated; any of the bytes exposed to noise may change.
transmit(t) ==
    {Transient(Flipped(t.context, flips), Rotated(fiber.pmd_rotation, t.polarization)) :
        flips \in SUBSET Exposed(fiber, t.context.payload)}

MutantVerifyWithoutPayload(d, t) ==
    LET expected == HmacTrajectory(d.secret, Flipped(t.context, {}))
    IN  IF d.topological THEN Topological(expected, t.polarization)
        ELSE TrajectoryMatch(expected, t.polarization)

\* The receiver derives the trajectory from what it received.
verify_trajectory(d, t) ==
    LET expected == HmacTrajectory(d.secret, t.context)
    IN  IF d.topological THEN Topological(expected, t.polarization)
        ELSE TrajectoryMatch(expected, t.polarization)

\* Decoder::decode: no report for another wavelength or an undecodable payload;
\* a failed authentication is only reported.
decode(d, t) ==
    IF t.context.wavelength # d.wavelength THEN {<< >>}
    ELSE {IF v = << >> THEN << >>
          ELSE << [value |-> v[1], sequence |-> t.context.sequence,
                   auth_ok |-> verify_trajectory(d, t)] >> :
              v \in any_decode(t.context.oam, t.context.payload)}

\* SoftDriver::receive drops what fails to decode.  A completion is kept with
\* the facts the properties compare it to.
receive(request, t) ==
    {IF report = << >> THEN << >>
     ELSE << [report |-> report[1], id |-> request.id, flipped |-> t.context.payload.flipped,
              genuine |-> driver["tx"].secret = driver["rx"].secret,
              strict |-> ~driver["rx"].topological, session |-> session] >> :
        report \in decode(driver["rx"], t)}

Sized(request) == request.payload.bytes = payload_bytes(request.schema_id)

Unimpeded(request) ==
    /\ Sized(request)
    /\ fiber.noise = {}
    /\ driver["tx"].wavelength = driver["rx"].wavelength

\* One turn of the pump's loop: a Transient crosses the fiber and is received.
Deliver ==
    /\ Pumping
    /\ \E t \in transmit(Head(outgoing).transient) :
          \E arrived \in receive(Head(outgoing).request, t) :
              cq' = IF arrived = << >> THEN cq ELSE push(cq, arrived[1])
    /\ outgoing' = Tail(outgoing)
    /\ sent' = Append(sent, Unimpeded(Head(outgoing).request))
    /\ UNCHANGED <<fiber, rf, driver, sequence, session, sendQ, posted, polled>>

\* pump_a_to_b: the whole send queue is encoded, then transmitted and received
\* one Transient after the other.
Pump == transmit_pending \/ Deliver

-----------------------------------------------------------------------------
(* What is assumed of the hosts, the applications and the HMAC *)

\* A Wavelength, 32 secret bytes (as eight words) and a flag.
ASSUME SettingsTyped ==
    \A e \in Ends : \A setting \in Settings[e] :
        /\ setting.wavelength \in 0 .. MAX_CHANNEL
        /\ setting.secret \in [0 .. SECRET_WORDS - 1 -> Nat]
        /\ setting.topological \in BOOLEAN

ASSUME RequestsTyped == \A r \in Requests : r.schema_id \in SchemaId

\* Whatever the sending encoder may derive a trajectory from.
Contexts ==
    {Context(setting.wavelength, OAM_MODE(r.schema_id), seq, Buffer(r.schema_id, r.bytes, n)) :
        setting \in Settings["tx"], r \in Requests, seq \in 0 .. SequenceMod - 1,
        n \in 1 .. MaxPosts}

\* A trajectory is a sequence of Stokes vectors.
ASSUME HmacTyped ==
    \A setting \in Settings["tx"] : \A context \in Contexts :
        HmacTrajectory(setting.secret, context) \in Seq(Int \X Int \X Int)

\* The HMAC is ideal: of another secret or of changed bytes it gives another
\* trajectory than the one that was sent, also after the fiber has turned that.
ASSUME HmacIdeal ==
    \A tx \in Settings["tx"], rx \in Settings["rx"], f \in Fibers, context \in Contexts :
        \A flips \in SUBSET Exposed(f, context.payload) :
            TrajectoryMatch(HmacTrajectory(rx.secret, Flipped(context, flips)),
                            Rotated(f.pmd_rotation, HmacTrajectory(tx.secret, context)))
                => rx.secret = tx.secret /\ flips = {}

\* No sample is on the s3 axis: both of its other coordinates, 16 bits of the
\* HMAC each, would be 0.
ASSUME HmacOffAxis ==
    \A setting \in Settings["tx"] : \A context \in Contexts :
        \A v \in Range(HmacTrajectory(setting.secret, context)) : OffAxis(v)

\* A fiber turns the sphere: IDENTITY, about_s1, about_s2, about_s3 and then
\* are the only ways to a PoincareRotation.
ASSUME FibersRotate == \A f \in Fibers : IsRotation(f.pmd_rotation)

-----------------------------------------------------------------------------
Init ==
    /\ fiber \in Fibers
    /\ rf = [e \in Ends |-> NewRegisterFile]
    /\ driver = [e \in Ends |-> NotArmed]
    /\ sequence = 0 /\ session = 0
    /\ sendQ = << >> /\ cq = << >> /\ outgoing = << >>
    /\ posted = 0 /\ sent = << >> /\ polled = << >>

Next ==
    \/ \E e \in Ends : \E setting \in Settings[e] : Arm(e, setting)
    \/ \E e \in Ends : refresh_from_csr(e)
    \/ \E r \in Requests : Post(r.schema_id, r.payload_len, r.bytes)
    \/ Pump
    \/ Poll

Spec == Init /\ [][Next]_vars

-----------------------------------------------------------------------------
(* The link it implements *)

FiberKind == [pmd |-> fiber.pmd_rotation # IDENTITY, noisy |-> fiber.noise # {}]

\* The settings of a host, as a driver latches them.
Latch(setting) ==
    [wavelength |-> setting.wavelength, secret |-> setting.secret,
     topological |-> setting.topological, tolerance |-> 10000]

Latched == {Latch(setting) : setting \in UNION {Settings[e] : e \in Ends}}

Waiting(request) == [id |-> request.id, sized |-> Sized(request)]

Queued == [i \in DOMAIN sendQ |-> Waiting(sendQ[i])]

Flying(item) ==
    [id |-> item.request.id, sized |-> Sized(item.request),
     sequence |-> item.transient.context.sequence]

InFlight == [i \in DOMAIN outgoing |-> Flying(outgoing[i])]

Completed(c) ==
    [id |-> c.id, sequence |-> c.report.sequence, auth_ok |-> c.report.auth_ok,
     intact |-> c.flipped = {}, genuine |-> c.genuine, strict |-> c.strict,
     session |-> c.session]

Completions(queue) == [i \in DOMAIN queue |-> Completed(queue[i])]

Link == INSTANCE ObgLink WITH
    Configs <- Latched, fiber <- FiberKind,
    sendQ <- Queued, outgoing <- InFlight, cq <- Completions(cq), polled <- Completions(polled)

-----------------------------------------------------------------------------
(* Properties *)

\* The gateways and the fabric behave as the abstract link: what words, bytes
\* and trajectories decide is among what ObgLink allows.
ImplementsLink == Link!LinkSpec

Delivered == polled \o cq

\* Completions come out in posting order and no request completes twice, also
\* across rebuilt drivers and an overflowing completion queue.
CompletedInOrder ==
    \A i, j \in DOMAIN Delivered : i < j => Delivered[i].id < Delivered[j].id

\* Under trajectory matching auth_ok vouches for the bytes: sender and receiver
\* had the same secret and the fiber changed nothing.
AuthVouches ==
    \A c \in Range(Delivered) :
        c.report.auth_ok /\ c.strict => c.flipped = {} /\ c.genuine

\* Sequence numbers count losses: between two completions of one session the
\* difference of the sequence numbers is the number of requests, modulo the
\* width of the counter.
SequenceCountsLosses ==
    \A i, j \in DOMAIN Delivered :
        LET c == Delivered[i]
            d == Delivered[j]
        IN  i < j /\ c.session = d.session =>
                (d.id - c.id) % SequenceMod
                    = (SequenceMod + d.report.sequence - c.report.sequence) % SequenceMod

\* A request with nothing in its way is lost only to the bound of the
\* completion queue: the last completions, as many as it holds, are all later.
LossIsOverflow ==
    \A n \in DOMAIN sent :
        sent[n] /\ (\A c \in Range(Delivered) : c.id # n)
            => /\ Len(Delivered) >= CqCapacity
               /\ \A i \in Len(Delivered) - CqCapacity + 1 .. Len(Delivered) :
                     Delivered[i].id > n

\* A payload that arrives unchanged decodes to the posted value, and one with
\* changed bytes differs from it in exactly the fields these bytes belong to.
DecodesFieldwise ==
    \A c \in Range(Delivered) : \A f \in Fields(c.report.value.schema) :
        (c.report.value.fields[f] = c.id)
            <=> (\A slice \in Range(EncodeLayout(c.report.value.schema)) :
                    slice[1] = f => c.flipped \intersect (slice[2] .. slice[3]) = {})

\* Topological authentication accepts an unchanged Transient of the right secret
\* when the fiber turns the sphere about the s3 axis.
TopologicalSurvivesS3 ==
    \A c \in Range(Delivered) :
        c.genuine /\ c.flipped = {} /\ ~c.strict /\ FixesS3(fiber.pmd_rotation)
            => c.report.auth_ok

\* winding_number_s3 "is invariant under arbitrary unitary transforms of the
\* Poincare sphere", so the same holds for any fiber that only rotates.
TopologicalSurvivesPmd ==
    \A c \in Range(Delivered) :
        c.genuine /\ c.flipped = {} /\ ~c.strict => c.report.auth_ok

=============================================================================
