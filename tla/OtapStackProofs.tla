--------------------------- MODULE OtapStackProofs ---------------------------
(* The stack for every setting, request, fiber, capacity and counter width. *)
EXTENDS OtapStack, GatewayProofs, TLAPS

-----------------------------------------------------------------------------
(* Sequence numbers *)

\* The sequence number of a delivery counts the requests from "start" on.
NumberedFrom(start, b) ==
    start <= b.id /\ b.report.sequence = (b.id - start) % SequenceMod

LEMMA SequenceDistance ==
    ASSUME NEW start \in Nat, NEW b, NEW c, b.id \in Nat, c.id \in Nat, b.id <= c.id,
           NumberedFrom(start, b), NumberedFrom(start, c)
    PROVE  (c.id - b.id) % SequenceMod
               = (SequenceMod + c.report.sequence - b.report.sequence) % SequenceMod
<1> DEFINE x == c.id - start
           y == b.id - start
<1>1. x \in Nat /\ y \in Nat /\ y <= x /\ x - y = c.id - b.id
  BY DEF NumberedFrom
<1>2. c.report.sequence = x % SequenceMod /\ b.report.sequence = y % SequenceMod
  BY Zenon DEF NumberedFrom
<1> HIDE DEF x, y
<1>3. SequenceMod \in Nat \ {0}
  BY CapacitiesPositive, Zenon
<1>4. (x - y) % SequenceMod = (SequenceMod + (x % SequenceMod) - (y % SequenceMod)) % SequenceMod
  BY <1>1, <1>3, ModDifference, Zenon
<1> QED BY <1>1, <1>2, <1>4, Zenon

-----------------------------------------------------------------------------
(* Payloads and settings *)

LEMMA BufferIs ==
    ASSUME NEW id, NEW bytes, NEW n
    PROVE  Buffer(id, bytes, n) = Received(id, bytes, n, {})
BY DEF Buffer, encode, Received

LEMMA FlippedIs ==
    ASSUME NEW w, NEW oam, NEW seq, NEW id, NEW bytes, NEW n, NEW old, NEW flips
    PROVE  Flipped(Context(w, oam, seq, Received(id, bytes, n, old)), flips)
               = Context(w, oam, seq, Received(id, bytes, n, flips))
BY DEF Flipped, Context, Received

LEMMA EncodedIs ==
    ASSUME NEW oam, NEW seq, NEW payload
    PROVE  encode_raw(oam, seq, payload).context.sequence = seq
BY DEF encode_raw, Transient, Context

LEMMA LatchIs ==
    ASSUME NEW setting
    PROVE  Latch(setting).wavelength = setting.wavelength /\ Latch(setting).secret = setting.secret
BY DEF Latch

\* The tables lie behind the settings in the register file.
LEMMA InstallKeepsSettings ==
    ASSUME NEW regs \in RegisterFile, NEW handle \in {1, 2, 3}, NEW id \in SchemaId
    PROVE  /\ Install(regs, handle, id) \in RegisterFile
           /\ \A offset \in Registers : offset < 64 => Install(regs, handle, id)[offset] = regs[offset]
<1> DEFINE mid == set_schema_payload(regs, handle, payload_bytes(id))
           after == set_oam_to_schema(mid, OAM_MODE(id), handle)
<1>1. payload_bytes(id) \in Half /\ OAM_MODE(id) \in Charges /\ handle \in Byte /\ handle \in Handles
  BY SMT DEF SchemaId, payload_bytes, OAM_MODE, Half, Charges, Byte, Handles, SCHEMA_TABLE_ENTRIES
<1>2. mid \in RegisterFile
  BY <1>1, PayloadTableExact, Zenon
<1>3. ASSUME NEW offset \in Registers, offset < 64 PROVE mid[offset] = regs[offset]
  <2>1. PayloadRegister(handle) # offset
    <3>1. handle \in 0 .. 31
      BY <1>1, SMT DEF Handles, SCHEMA_TABLE_ENTRIES
    <3> QED BY <1>3, <3>1, PayloadRegisters, RegistersAreOffsets, SMT
  <2> QED BY <2>1, SMT DEF set_schema_payload, write_u32, RegisterFile
<1> HIDE DEF mid
<1>4. after \in RegisterFile
  BY <1>1, <1>2, OamTableExact, Zenon
<1>5. ASSUME NEW offset \in Registers, offset < 64 PROVE after[offset] = mid[offset]
  <2>1. OamRegister(OamIndex(OAM_MODE(id))) # offset
    <3>1. OamIndex(OAM_MODE(id)) \in 0 .. 32
      BY <1>1, SMT DEF OamIndex, Charges
    <3> QED BY <1>5, <3>1, OamRegisters, RegistersAreOffsets, SMT
  <2> QED BY <1>2, <2>1, SMT DEF set_oam_to_schema, write_u32, RegisterFile
<1> QED BY <1>3, <1>4, <1>5 DEF Install, mid

\* A host that armed its register file finds its settings latched.
LEMMA ArmedLatches ==
    ASSUME NEW regs \in RegisterFile, NEW end \in Ends, NEW setting \in Settings[end]
    PROVE  /\ arm_register_file(regs, setting) \in RegisterFile
           /\ from_csr(arm_register_file(regs, setting)) = Latch(setting)
<1> DEFINE fields == [wavelength |-> setting.wavelength, secret |-> setting.secret,
                      topological |-> setting.topological]
           written == write_settings(regs, fields)
           one == Install(written, 1, "EquityTradeOrder")
           two == Install(one, 2, "MarketTick")
           three == Install(two, 3, "Heartbeat")
<1>1. /\ setting.wavelength \in Nat /\ setting.wavelength <= MAX_CHANNEL
      /\ setting.secret \in [0 .. SECRET_WORDS - 1 -> Nat] /\ setting.topological \in BOOLEAN
  <2>1. setting.wavelength \in 0 .. MAX_CHANNEL
    BY SettingsTyped, Zenon
  <2>2. setting.secret \in [0 .. SECRET_WORDS - 1 -> Nat] /\ setting.topological \in BOOLEAN
    BY SettingsTyped, Zenon
  <2>3. \A w \in 0 .. MAX_CHANNEL : w \in Nat /\ w <= MAX_CHANNEL
    BY SMT DEF MAX_CHANNEL
  <2> QED BY <2>1, <2>2, <2>3, Zenon
<1>2. fields \in ValidSettings
  BY <1>1 DEF ValidSettings
<1>3. write_settings(regs, setting) = written
  BY DEF write_settings
<1> HIDE DEF fields
<1>4. /\ written \in RegisterFile
      /\ view_wavelength(written) = fields.wavelength
      /\ WavelengthValid(view_wavelength(written)) /\ secret_valid(written)
      /\ shared_secret(written) = fields.secret
      /\ (ctrl(written) \div CTRL_AUTH_TOPOLOGICAL) % 2 = 1 <=> fields.topological
      /\ auth_tolerance(written) = 10000
  BY <1>2, SettingsReadBack, SMT
<1> HIDE DEF written
<1>5. "EquityTradeOrder" \in SchemaId /\ "MarketTick" \in SchemaId /\ "Heartbeat" \in SchemaId
  BY DEF SchemaId
<1>6. /\ one \in RegisterFile
      /\ \A offset \in Registers : offset < 64 => one[offset] = written[offset]
  BY <1>4, <1>5, InstallKeepsSettings
<1> HIDE DEF one
<1>7. /\ two \in RegisterFile
      /\ \A offset \in Registers : offset < 64 => two[offset] = one[offset]
  BY <1>5, <1>6, InstallKeepsSettings
<1> HIDE DEF two
<1>8. /\ three \in RegisterFile
      /\ \A offset \in Registers : offset < 64 => three[offset] = two[offset]
  BY <1>5, <1>7, InstallKeepsSettings
<1> HIDE DEF three
<1>9. \A offset \in Registers : offset < 64 => three[offset] = written[offset]
  BY <1>6, <1>7, <1>8
<1>10. arm_register_file(regs, setting) = three
  BY <1>3 DEF arm_register_file, three, two, one
<1>11. /\ 0 \in Registers /\ 4 \in Registers /\ 8 \in Registers /\ 48 \in Registers
       /\ \A i \in 0 .. SECRET_WORDS - 1 : SecretRegister(i) \in Registers /\ SecretRegister(i) < 64
  BY SMT DEF Registers, REG_WAVELENGTH, REG_CTRL, REG_AUTH_TOLERANCE, REG_SECRET_VALID,
             SecretRegister, REG_SECRET_BASE, SECRET_WORDS
<1>12. /\ three[0] = written[0] /\ three[4] = written[4] /\ three[8] = written[8]
       /\ three[48] = written[48]
  BY <1>9, <1>11
<1>13. view_wavelength(three) = view_wavelength(written)
  BY <1>12 DEF view_wavelength, REG_WAVELENGTH
<1>14. secret_valid(three) = secret_valid(written)
  BY <1>12 DEF secret_valid, REG_SECRET_VALID
<1>15. ctrl(three) = ctrl(written)
  BY <1>12 DEF ctrl, REG_CTRL
<1>16. auth_tolerance(three) = auth_tolerance(written)
  BY <1>12 DEF auth_tolerance, REG_AUTH_TOLERANCE
<1>17. shared_secret(three) = shared_secret(written)
  <2>1. \A i \in 0 .. SECRET_WORDS - 1 : three[SecretRegister(i)] = written[SecretRegister(i)]
    BY <1>9, <1>11
  <2> QED BY <2>1 DEF shared_secret
<1>18. ((ctrl(three) \div CTRL_AUTH_TOPOLOGICAL) % 2 = 1) = setting.topological
  BY <1>1, <1>4, <1>15 DEF fields
<1>19. from_csr(three)
           = [wavelength |-> view_wavelength(three), secret |-> shared_secret(three),
              topological |-> (ctrl(three) \div CTRL_AUTH_TOPOLOGICAL) % 2 = 1, tolerance |-> 10000]
  BY <1>4, <1>13, <1>14, <1>16, SMT DEF from_csr
<1>20. view_wavelength(three) = setting.wavelength /\ shared_secret(three) = setting.secret
  BY <1>4, <1>13, <1>17 DEF fields
<1>21. from_csr(three) = Latch(setting)
  <2> DEFINE topo == (ctrl(three) \div CTRL_AUTH_TOPOLOGICAL) % 2 = 1
  <2>1. topo = setting.topological
    BY <1>18
  <2> HIDE DEF topo
  <2> QED BY <1>19, <1>20, <2>1, SMT DEF Latch, topo
<1> QED BY <1>8, <1>10, <1>21

-----------------------------------------------------------------------------
(* The inductive invariant *)

\* The n-th request.
Posted(n) ==
    {[id |-> n, schema_id |-> r.schema_id, payload |-> Buffer(r.schema_id, r.bytes, n)] :
        r \in Requests}

AnyPosted == UNION {Posted(n) : n \in 1 .. MaxPosts}

AnyOutgoing ==
    [request : AnyPosted,
     transient : [context : Contexts, polarization : Seq(Int \X Int \X Int)]]

LEMMA OutgoingTyped ==
    ASSUME NEW request \in AnyPosted, NEW context \in Contexts,
           NEW trajectory \in Seq(Int \X Int \X Int), NEW transient,
           transient = [context |-> context, polarization |-> trajectory]
    PROVE  [request |-> request, transient |-> transient] \in AnyOutgoing
BY DEF AnyOutgoing

Vouched(c) == c.report.auth_ok /\ c.strict => c.flipped = {} /\ c.genuine

Completion ==
    {c \in [report : [value : AnyValue, sequence : 0 .. SequenceMod - 1, auth_ok : BOOLEAN],
            id : 1 .. MaxPosts, flipped : SUBSET UNION {f.noise : f \in Fibers},
            genuine : BOOLEAN, strict : BOOLEAN, session : Nat] :
        Vouched(c) /\ DecodedFrom(c.report.value, c.id, c.flipped)}

TypesInv ==
    /\ fiber \in Fibers
    /\ sequence \in 0 .. SequenceMod - 1 /\ session \in Nat /\ posted \in 0 .. MaxPosts
    /\ sendQ \in Seq(AnyPosted) /\ outgoing \in Seq(AnyOutgoing)
    /\ cq \in Seq(Completion) /\ polled \in Seq(Completion) /\ sent \in Seq(BOOLEAN)
    /\ Len(cq) <= CqCapacity

LatchedBy(e) == {Latch(setting) : setting \in Settings[e]}

DriversInv ==
    /\ rf \in [Ends -> RegisterFile] /\ driver = [e \in Ends |-> driver[e]]
    /\ \A e \in Ends : /\ from_csr(rf[e]) \in {NotArmed} \union LatchedBy(e)
                       /\ driver[e] \in {NotArmed} \union LatchedBy(e)
                       /\ Pumping => driver[e] # NotArmed

\* Requests are known by their place in the order of posting.
NumbersInv ==
    /\ posted = Len(sent) + Len(outgoing) + Len(sendQ)
    /\ \A k \in DOMAIN sendQ : sendQ[k] \in Posted(Len(sent) + Len(outgoing) + k)
    /\ \A k \in DOMAIN outgoing : outgoing[k].request \in Posted(Len(sent) + k)
    /\ \A i \in DOMAIN Delivered : Delivered[i].id <= Len(sent)

\* The session began with the request "start": all sequence numbers of the
\* session count from there.
EncodedSince(start) ==
    /\ sequence = (Len(sent) + Len(outgoing) + 1 - start) % SequenceMod
    /\ \A k \in DOMAIN outgoing :
          outgoing[k].transient
              = encode_raw(OAM_MODE(outgoing[k].request.schema_id),
                           (Len(sent) + k - start) % SequenceMod, outgoing[k].request.payload)
    /\ \A i \in DOMAIN Delivered :
          /\ Delivered[i].session <= session
          /\ Delivered[i].session = session =>
                /\ start <= Delivered[i].id
                /\ Delivered[i].report.sequence = (Delivered[i].id - start) % SequenceMod

SequenceInv == \E start \in 1 .. Len(sent) + 1 : EncodedSince(start)

\* The place the completion queue of a receiver that polled nothing begins at.
LossFrom == Len(Delivered) - CqCapacity + 1

\* As ids increase, a full queue of later requests is delivered if the first of
\* its places holds one.
LossInv ==
    \A n \in DOMAIN sent :
        sent[n] /\ (\A i \in DOMAIN Delivered : Delivered[i].id # n)
            => LossFrom >= 1 /\ Delivered[LossFrom].id > n

StackInv ==
    /\ TypesInv /\ DriversInv /\ NumbersInv /\ CompletedInOrder
    /\ SequenceInv /\ SequenceCountsLosses /\ LossInv

-----------------------------------------------------------------------------
(* What arrives *)

\* The context of the n-th request as it is encoded with sequence number seq.
SentContext(id, bytes, n, seq) ==
    Context(driver["tx"].wavelength, OAM_MODE(id), seq, Received(id, bytes, n, {}))

LEMMA UnflippedIs ==
    ASSUME NEW id, NEW bytes, NEW n, NEW seq
    PROVE  Flipped(SentContext(id, bytes, n, seq), {}) = SentContext(id, bytes, n, seq)
BY FlippedIs DEF SentContext

ArrivedTransient(id, bytes, n, seq, flips) ==
    Transient(Flipped(SentContext(id, bytes, n, seq), flips),
              Rotated(fiber.pmd_rotation,
                      HmacTrajectory(driver["tx"].secret, SentContext(id, bytes, n, seq))))

Authentic(id, bytes, n, seq, flips) ==
    verify_trajectory(driver["rx"], ArrivedTransient(id, bytes, n, seq, flips))

Arrival(n, seq, value, flips, auth) ==
    [report |-> [value |-> value, sequence |-> seq, auth_ok |-> auth],
     id |-> n, flipped |-> flips, genuine |-> driver["tx"].secret = driver["rx"].secret,
     strict |-> ~driver["rx"].topological, session |-> session]

\* The identity turns no Stokes vector.
LEMMA IdentityKeeps ==
    ASSUME NEW trajectory \in Seq(Int \X Int \X Int)
    PROVE  Rotated(IDENTITY, trajectory) = trajectory
<1>1. ASSUME NEW v \in Int \X Int \X Int PROVE apply(IDENTITY, v) = v
  <2>1. v = <<v[1], v[2], v[3]>> /\ v[1] \in Int /\ v[2] \in Int /\ v[3] \in Int
    OBVIOUS
  <2>2. /\ Dot(IDENTITY[1], v) = v[1] /\ Dot(IDENTITY[2], v) = v[2]
        /\ Dot(IDENTITY[3], v) = v[3]
    BY <2>1, SMT DEF Dot, IDENTITY
  <2> QED BY <2>1, <2>2 DEF apply
<1>2. \A i \in DOMAIN trajectory : apply(IDENTITY, trajectory[i]) = trajectory[i]
  BY <1>1
<1>3. trajectory = [i \in DOMAIN trajectory |-> trajectory[i]]
  OBVIOUS
<1> QED BY <1>2, <1>3 DEF Rotated

\* A trajectory matches itself in either mode.
LEMMA MatchesItself ==
    ASSUME NEW trajectory \in Seq(Int \X Int \X Int)
    PROVE  TrajectoryMatch(trajectory, trajectory) /\ Topological(trajectory, trajectory)
<1>1. ASSUME NEW v \in Int \X Int \X Int PROVE SameDirection(v, v)
  <2> DEFINE x == v[1]  y == v[2]  z == v[3]
  <2>1. x \in Int /\ y \in Int /\ z \in Int
    OBVIOUS
  <2>2. Dot(v, v) = x * x + y * y + z * z
    BY DEF Dot
  <2> HIDE DEF x, y, z
  <2>3. x * x >= 0 /\ y * y >= 0 /\ z * z >= 0 /\ x * x \in Int /\ y * y \in Int /\ z * z \in Int
    BY <2>1
  <2>4. Dot(v, v) >= 0
    BY <2>2, <2>3
  <2> QED BY <2>4 DEF SameDirection
<1>2. \A i \in DOMAIN trajectory : trajectory[i] \in Int \X Int \X Int
  OBVIOUS
<1>3. \A i \in DOMAIN trajectory : SameDirection(trajectory[i], trajectory[i])
  BY <1>1, <1>2
<1> QED BY <1>3 DEF TrajectoryMatch, Topological

\* What authentication tells: the ideal HMAC under trajectory matching, and
\* what it cannot refuse.
LEMMA AuthenticMeans ==
    ASSUME fiber \in Fibers, driver["tx"] \in LatchedBy("tx"), driver["rx"] \in LatchedBy("rx"),
           NEW r \in Requests, NEW n \in 1 .. MaxPosts, NEW seq \in 0 .. SequenceMod - 1,
           NEW flips \in SUBSET Exposed(fiber, Received(r.schema_id, r.bytes, n, {}))
    PROVE  LET auth == Authentic(r.schema_id, r.bytes, n, seq, flips)
           IN  /\ auth \in BOOLEAN
               /\ auth /\ ~driver["rx"].topological
                     => flips = {} /\ driver["tx"].secret = driver["rx"].secret
               /\ flips = {} /\ driver["tx"].secret = driver["rx"].secret
                     /\ fiber.pmd_rotation = IDENTITY
                     => auth
<1> DEFINE id == r.schema_id
           payload == Received(id, r.bytes, n, {})
           context == SentContext(id, r.bytes, n, seq)
           observed == Rotated(fiber.pmd_rotation, HmacTrajectory(driver["tx"].secret, context))
           expected == HmacTrajectory(driver["rx"].secret, Flipped(context, flips))
           auth == Authentic(id, r.bytes, n, seq, flips)
<1>1. PICK tx \in Settings["tx"] :
          driver["tx"].secret = tx.secret /\ driver["tx"].wavelength = tx.wavelength
  BY DEF LatchedBy, Latch
<1>2. PICK rx \in Settings["rx"] : driver["rx"].secret = rx.secret
  BY DEF LatchedBy, Latch
<1>3. context \in Contexts
  BY <1>1, BufferIs DEF Contexts, SentContext
<1>4. context.payload = payload
  BY DEF SentContext, Context
<1>5. auth = IF driver["rx"].topological THEN Topological(expected, observed)
             ELSE TrajectoryMatch(expected, observed)
  <2>1. ArrivedTransient(id, r.bytes, n, seq, flips).context = Flipped(context, flips)
    BY DEF ArrivedTransient, Transient
  <2>2. ArrivedTransient(id, r.bytes, n, seq, flips).polarization = observed
    BY DEF ArrivedTransient, Transient
  <2> QED BY <2>1, <2>2 DEF Authentic, verify_trajectory
<1>6. auth \in BOOLEAN
  BY <1>5 DEF Topological, TrajectoryMatch
<1>7. ASSUME TrajectoryMatch(expected, observed)
      PROVE  flips = {} /\ driver["tx"].secret = driver["rx"].secret
  <2>1. flips \in SUBSET Exposed(fiber, context.payload)
    BY <1>4
  <2> HIDE DEF context
  <2> QED BY <1>1, <1>2, <1>3, <1>7, <2>1, HmacIdeal
<1>8. ASSUME flips = {}, driver["tx"].secret = driver["rx"].secret, fiber.pmd_rotation = IDENTITY
      PROVE  TrajectoryMatch(expected, observed) /\ Topological(expected, observed)
  <2>1. Flipped(context, {}) = context
    BY FlippedIs DEF SentContext
  <2>2. HmacTrajectory(driver["tx"].secret, context) \in Seq(Int \X Int \X Int)
    BY <1>1, <1>3, HmacTyped
  <2>3. /\ expected = HmacTrajectory(driver["tx"].secret, context)
        /\ observed = HmacTrajectory(driver["tx"].secret, context)
    BY <1>8, <2>1, <2>2, IdentityKeeps
  <2> HIDE DEF expected, observed, context
  <2> QED BY <2>2, <2>3, MatchesItself
<1>9. TrajectoryMatch(expected, observed) /\ Topological(expected, observed) => auth
  BY <1>5
<1> HIDE DEF auth, expected, observed
<1>10. auth /\ ~driver["rx"].topological => TrajectoryMatch(expected, observed)
  BY <1>5
<1>11. auth /\ ~driver["rx"].topological
           => flips = {} /\ driver["tx"].secret = driver["rx"].secret
  BY <1>7, <1>10
<1>12. flips = {} /\ driver["tx"].secret = driver["rx"].secret /\ fiber.pmd_rotation = IDENTITY
           => auth
  BY <1>8, <1>9
<1> QED BY <1>6, <1>11, <1>12, Zenon DEF auth

\* How a request ends when the bytes "flips" change on the way.
ArrivesAs(r, n, seq, flips, arrived) ==
    IF driver["tx"].wavelength # driver["rx"].wavelength THEN arrived = << >>
    ELSE \E v \in any_decode(OAM_MODE(r.schema_id), Received(r.schema_id, r.bytes, n, flips)) :
            arrived = IF v = << >> THEN << >>
                      ELSE << Arrival(n, seq, v[1], flips,
                                      Authentic(r.schema_id, r.bytes, n, seq, flips)) >>

LEMMA ArrivalShape ==
    ASSUME NEW r \in Requests, NEW n, NEW seq, NEW request, NEW transient,
           request = [id |-> n, schema_id |-> r.schema_id,
                      payload |-> Buffer(r.schema_id, r.bytes, n)],
           transient = encode_raw(OAM_MODE(request.schema_id), seq, request.payload),
           NEW t \in transmit(transient), NEW arrived \in receive(request, t)
    PROVE  \E flips \in SUBSET Exposed(fiber, Received(r.schema_id, r.bytes, n, {})) :
               ArrivesAs(r, n, seq, flips, arrived)
<1> DEFINE id == r.schema_id
           context == SentContext(id, r.bytes, n, seq)
           trajectory == HmacTrajectory(driver["tx"].secret, context)
<1>1. /\ request.id = n /\ request.schema_id = id
      /\ request.payload = Received(id, r.bytes, n, {})
  BY BufferIs
<1>2. transient = Transient(context, trajectory)
  BY <1>1 DEF encode_raw, SentContext
<1>3. transient.context = context /\ transient.polarization = trajectory
  BY <1>2 DEF Transient
<1>4. context.payload = Received(id, r.bytes, n, {})
  BY DEF SentContext, Context
<1>5. PICK flips \in SUBSET Exposed(fiber, Received(id, r.bytes, n, {})) :
          t = ArrivedTransient(id, r.bytes, n, seq, flips)
  BY <1>3, <1>4 DEF transmit, ArrivedTransient
<1>6. t.context = Context(driver["tx"].wavelength, OAM_MODE(id), seq,
                          Received(id, r.bytes, n, flips))
  <2>1. t.context = Flipped(context, flips)
    BY <1>5 DEF ArrivedTransient, Transient
  <2> QED BY <2>1, FlippedIs DEF SentContext
<1>7. /\ t.context.wavelength = driver["tx"].wavelength /\ t.context.oam = OAM_MODE(id)
      /\ t.context.sequence = seq /\ t.context.payload = Received(id, r.bytes, n, flips)
      /\ t.context.payload.flipped = flips
  BY <1>6 DEF Context, Received
<1> HIDE DEF id, context, trajectory
<1>8. PICK report \in decode(driver["rx"], t) :
          arrived = IF report = << >> THEN << >>
                    ELSE << [report |-> report[1], id |-> n, flipped |-> flips,
                             genuine |-> driver["tx"].secret = driver["rx"].secret,
                             strict |-> ~driver["rx"].topological, session |-> session] >>
  BY <1>1, <1>7 DEF receive
<1>9. CASE driver["tx"].wavelength # driver["rx"].wavelength
  <2>1. report = << >>
    BY <1>7, <1>8, <1>9 DEF decode
  <2> QED BY <1>5, <1>8, <1>9, <2>1 DEF ArrivesAs, id
<1>10. CASE driver["tx"].wavelength = driver["rx"].wavelength
  <2> DEFINE auth == Authentic(id, r.bytes, n, seq, flips)
  <2>1. verify_trajectory(driver["rx"], t) = auth
    BY <1>5 DEF Authentic
  <2> HIDE DEF auth
  <2>2. PICK v \in any_decode(OAM_MODE(id), Received(id, r.bytes, n, flips)) :
            report = IF v = << >> THEN << >>
                     ELSE << [value |-> v[1], sequence |-> seq, auth_ok |-> auth] >>
    BY <1>7, <1>8, <1>10, <2>1 DEF decode
  <2>3. CASE v = << >>
    BY <1>5, <1>8, <1>10, <2>2, <2>3 DEF ArrivesAs, id
  <2>4. CASE v # << >>
    <3> DEFINE full == [value |-> v[1], sequence |-> seq, auth_ok |-> auth]
    <3>1. report = <<full>>
      BY <2>2, <2>4
    <3> HIDE DEF full
    <3>2. report # << >> /\ report[1] = full
      BY <3>1
    <3>3. arrived = << Arrival(n, seq, v[1], flips, auth) >>
      BY <1>8, <3>2 DEF Arrival, full
    <3> QED BY <1>5, <1>10, <2>2, <2>4, <3>3, Zenon DEF ArrivesAs, id, auth
  <2> QED BY <2>3, <2>4
<1> QED BY <1>9, <1>10

\* A completion that arrives is one the invariant allows, and a request with
\* nothing in its way arrives.
Completes(r, n, seq, arrived) ==
    /\ arrived # << >> =>
          /\ arrived[1] \in Completion /\ arrived[1].id = n
          /\ arrived[1].report.sequence = seq /\ arrived[1].session = session
    /\ r.bytes = payload_bytes(r.schema_id) /\ fiber.noise = {}
          /\ driver["tx"].wavelength = driver["rx"].wavelength => arrived # << >>

LEMMA ArrivalCompletes ==
    ASSUME fiber \in Fibers, session \in Nat,
           driver["tx"] \in LatchedBy("tx"), driver["rx"] \in LatchedBy("rx"),
           NEW r \in Requests, NEW n \in 1 .. MaxPosts, NEW seq \in 0 .. SequenceMod - 1,
           NEW flips \in SUBSET Exposed(fiber, Received(r.schema_id, r.bytes, n, {})),
           NEW arrived, ArrivesAs(r, n, seq, flips, arrived)
    PROVE  Completes(r, n, seq, arrived)
<1> SUFFICES /\ arrived # << >> =>
                   /\ arrived[1] \in Completion /\ arrived[1].id = n
                   /\ arrived[1].report.sequence = seq /\ arrived[1].session = session
             /\ r.bytes = payload_bytes(r.schema_id) /\ fiber.noise = {}
                   /\ driver["tx"].wavelength = driver["rx"].wavelength => arrived # << >>
  BY DEF Completes
<1> DEFINE id == r.schema_id
           auth == Authentic(id, r.bytes, n, seq, flips)
<1>1. id \in SchemaId /\ n \in Nat \ {0}
  BY RequestsTyped, SMT
<1>2. /\ auth \in BOOLEAN
      /\ auth /\ ~driver["rx"].topological
            => flips = {} /\ driver["tx"].secret = driver["rx"].secret
  BY AuthenticMeans, Zenon
<1> HIDE DEF auth
<1>3. fiber.noise = {} => flips = {}
  BY DEF Exposed
<1>4. CASE driver["tx"].wavelength # driver["rx"].wavelength
  BY <1>4 DEF ArrivesAs
<1>5. CASE driver["tx"].wavelength = driver["rx"].wavelength
  <2>1. PICK v \in any_decode(OAM_MODE(id), Received(id, r.bytes, n, flips)) :
            arrived = IF v = << >> THEN << >> ELSE << Arrival(n, seq, v[1], flips, auth) >>
    BY <1>5 DEF ArrivesAs, auth
  <2>2. v # << >> => v[1] \in AnyValue /\ DecodedFrom(v[1], n, flips)
    BY <1>1, ValueDecoded, Zenon
  <2>3. r.bytes = payload_bytes(id) /\ flips = {} => v # << >>
    BY <1>1, ValueDecoded, Zenon
  <2>4. CASE v = << >>
    BY <1>3, <2>1, <2>3, <2>4
  <2>5. CASE v # << >>
    <3> DEFINE c == Arrival(n, seq, v[1], flips, auth)
    <3>1. /\ c.report.value = v[1] /\ c.report.sequence = seq /\ c.report.auth_ok = auth
          /\ c.id = n /\ c.flipped = flips /\ c.session = session
      BY DEF Arrival
    <3>2. c \in [report : [value : AnyValue, sequence : 0 .. SequenceMod - 1, auth_ok : BOOLEAN],
                 id : 1 .. MaxPosts, flipped : SUBSET UNION {f.noise : f \in Fibers},
                 genuine : BOOLEAN, strict : BOOLEAN, session : Nat]
      <4>1. flips \in SUBSET UNION {f.noise : f \in Fibers}
        BY DEF Exposed
      <4>2. v[1] \in AnyValue
        BY <2>2, <2>5
      <4> QED BY <1>2, <4>1, <4>2 DEF Arrival
    <3>3. Vouched(c)
      BY <1>2 DEF Arrival, Vouched
    <3>4. DecodedFrom(c.report.value, c.id, c.flipped)
      BY <2>2, <2>5, <3>1
    <3> HIDE DEF c
    <3>5. c \in Completion
      BY <3>2, <3>3, <3>4 DEF Completion
    <3>6. arrived = <<c>>
      BY <2>1, <2>5 DEF c
    <3>7. arrived # << >> /\ arrived[1] = c
      BY <3>6
    <3> QED BY <3>1, <3>5, <3>7
  <2> QED BY <2>4, <2>5
<1> QED BY <1>4, <1>5

-----------------------------------------------------------------------------
(* What is delivered *)

Joins(p, q, r) ==
    /\ Len(r) = Len(p) + Len(q) /\ DOMAIN r = 1 .. Len(p) + Len(q)
    /\ \A i \in 1 .. Len(p) : r[i] = p[i]
    /\ \A i \in 1 .. Len(q) : r[Len(p) + i] = q[i]

LEMMA Joined ==
    ASSUME NEW S, NEW p \in Seq(S), NEW q \in Seq(S)
    PROVE  p \o q \in Seq(S) /\ Joins(p, q, p \o q)
<1>1. /\ p \o q \in Seq(S) /\ Len(p \o q) = Len(p) + Len(q)
      /\ \A i \in 1 .. Len(p) + Len(q) :
            (p \o q)[i] = IF i <= Len(p) THEN p[i] ELSE q[i - Len(p)]
  BY ConcatTyped
<1>2. /\ Len(p) \in Nat /\ Len(q) \in Nat /\ DOMAIN p = 1 .. Len(p) /\ DOMAIN q = 1 .. Len(q)
      /\ DOMAIN (p \o q) = 1 .. Len(p \o q)
  BY <1>1, SeqTyped
<1>3. \A i \in 1 .. Len(p) : (p \o q)[i] = p[i]
  BY <1>1, <1>2
<1>4. ASSUME NEW i \in 1 .. Len(q) PROVE (p \o q)[Len(p) + i] = q[i]
  <2>1. Len(p) + i \in 1 .. Len(p) + Len(q) /\ ~(Len(p) + i <= Len(p)) /\ Len(p) + i - Len(p) = i
    BY <1>2
  <2> QED BY <1>1, <2>1
<1> QED BY <1>1, <1>2, <1>3, <1>4 DEF Joins

\* Polling moves the oldest completion over, and that is all.
LEMMA PollMoves ==
    ASSUME NEW S, NEW p \in Seq(S), NEW q \in Seq(S), q # << >>
    PROVE  /\ Append(p, Head(q)) \in Seq(S) /\ Tail(q) \in Seq(S)
           /\ Len(Tail(q)) = Len(q) - 1
           /\ Append(p, Head(q)) \o Tail(q) = p \o q
<1> DEFINE a == Append(p, Head(q))
           b == Tail(q)
<1>1. /\ Head(q) \in S /\ b \in Seq(S) /\ Len(b) = Len(q) - 1
      /\ \A i \in 1 .. Len(b) : b[i] = q[i + 1]
  BY TailTyped
<1>2. Head(q) = q[1] /\ Len(q) \in Nat \ {0} /\ Len(p) \in Nat
  BY EmptyOrLonger, SeqTyped
<1>3. /\ a \in Seq(S) /\ Len(a) = Len(p) + 1
      /\ \A i \in 1 .. Len(p) : a[i] = p[i]
      /\ a[Len(p) + 1] = Head(q)
  BY <1>1, AppendTyped
<1> HIDE DEF a, b
<1>4. /\ a \o b \in Seq(S) /\ Len(a \o b) = Len(a) + Len(b)
      /\ \A i \in 1 .. Len(a) : (a \o b)[i] = a[i]
      /\ \A i \in 1 .. Len(b) : (a \o b)[Len(a) + i] = b[i]
  <2>1. a \in Seq(S) /\ b \in Seq(S)
    BY <1>1, <1>3
  <2>2. a \o b \in Seq(S) /\ Joins(a, b, a \o b)
    BY <2>1, Joined, Zenon
  <2> QED BY <2>2 DEF Joins
<1>5. /\ p \o q \in Seq(S) /\ Len(p \o q) = Len(p) + Len(q)
      /\ \A i \in 1 .. Len(p) : (p \o q)[i] = p[i]
      /\ \A i \in 1 .. Len(q) : (p \o q)[Len(p) + i] = q[i]
  BY Joined DEF Joins
<1>6. ASSUME NEW i \in 1 .. Len(p) + Len(q) PROVE (a \o b)[i] = (p \o q)[i]
  <2>1. CASE i <= Len(p)
    <3>1. i \in 1 .. Len(p) /\ i \in 1 .. Len(a)
      BY <1>2, <1>3, <2>1
    <3> QED BY <1>3, <1>4, <1>5, <3>1
  <2>2. CASE i = Len(p) + 1
    <3>1. i \in 1 .. Len(a) /\ 1 \in 1 .. Len(q)
      BY <1>2, <1>3, <2>2
    <3> QED BY <1>2, <1>3, <1>4, <1>5, <2>2, <3>1
  <2>3. CASE i > Len(p) + 1
    <3> DEFINE k == i - Len(p) - 1
    <3>1. /\ k \in 1 .. Len(b) /\ i = Len(a) + k
          /\ k + 1 \in 1 .. Len(q) /\ i = Len(p) + (k + 1)
      BY <1>1, <1>2, <1>3, <2>3
    <3> HIDE DEF k
    <3> QED BY <1>1, <1>4, <1>5, <3>1
  <2>4. i <= Len(p) \/ i = Len(p) + 1 \/ i > Len(p) + 1
    BY <1>2, SMT
  <2> QED BY <2>1, <2>2, <2>3, <2>4, Zenon
<1>7. Len(a \o b) = Len(p \o q)
  BY <1>1, <1>2, <1>3, <1>4, <1>5
<1>8. a \o b = p \o q
  BY <1>4, <1>5, <1>6, <1>7, SameSeq
<1> QED BY <1>1, <1>3, <1>8 DEF a, b

\* The deliveries after a completion c was pushed: all of them, or all but the
\* one at the gap.
Grown(before, after, c) ==
    /\ Len(after) = Len(before) + 1
    /\ \A i \in 1 .. Len(before) : after[i] = before[i]
    /\ after[Len(after)] = c

Rolled(before, after, gap, c) ==
    /\ Len(after) = Len(before) /\ gap \in 1 .. Len(before)
    /\ \A i \in 1 .. gap - 1 : after[i] = before[i]
    /\ \A i \in gap .. Len(before) - 1 : after[i] = before[i + 1]
    /\ after[Len(after)] = c

\* Deliveries in the order of their ids, and a place g of theirs at which a
\* later request than m stands if m is not among them.
InIdOrder(list) ==
    /\ \A k \in 1 .. Len(list) : list[k].id \in Nat
    /\ \A k, l \in 1 .. Len(list) : k < l => list[k].id < list[l].id

LossPlace(list, g, m) ==
    (\A k \in 1 .. Len(list) : list[k].id # m) => g >= 1 /\ list[g].id > m

\* The place moves with the end of the list when the list grows.
LEMMA LossGrown ==
    ASSUME NEW before, NEW after, Len(before) \in Nat, NEW c, c.id \in Nat,
           NEW m \in Nat, m < c.id, NEW g \in Int, g <= Len(before),
           InIdOrder(before), LossPlace(before, g, m), Grown(before, after, c)
    PROVE  LossPlace(after, g + 1, m)
<1> SUFFICES ASSUME \A i \in 1 .. Len(after) : after[i].id # m
             PROVE  g + 1 >= 1 /\ after[g + 1].id > m
  BY DEF LossPlace
<1>1. /\ Len(after) = Len(before) + 1 /\ after[Len(before) + 1] = c
      /\ \A i \in 1 .. Len(before) : after[i] = before[i]
  BY Zenon DEF Grown
<1>2. \A k \in 1 .. Len(before) : before[k].id # m
  BY <1>1
<1>3. g >= 1 /\ before[g].id > m
  BY <1>2, Zenon DEF LossPlace
<1>4. CASE g = Len(before)
  BY <1>1, <1>3, <1>4
<1>5. CASE g # Len(before)
  <2>1. g \in 1 .. Len(before) /\ g + 1 \in 1 .. Len(before) /\ g < g + 1 /\ g + 1 >= 1
    BY <1>3, <1>5
  <2>2. after[g + 1] = before[g + 1]
    BY <1>1, <2>1, Zenon
  <2>3. /\ before[g].id \in Nat /\ before[g + 1].id \in Nat
        /\ before[g].id < before[g + 1].id
    BY <2>1, Zenon DEF InIdOrder
  <2> QED BY <1>3, <2>1, <2>2, <2>3
<1> QED BY <1>4, <1>5

\* It stays when the delivery at it is dropped.
LEMMA LossRolled ==
    ASSUME NEW before, NEW after, Len(before) \in Nat, NEW c, c.id \in Nat,
           NEW m \in Nat, m < c.id, NEW g,
           InIdOrder(before), LossPlace(before, g, m), Rolled(before, after, g, c)
    PROVE  LossPlace(after, g, m)
<1> DEFINE n == Len(before)
<1>1. Len(after) = n /\ g \in 1 .. n /\ after[n] = c
  BY Zenon DEF Rolled
<1>2. /\ \A i \in 1 .. g - 1 : after[i] = before[i]
      /\ \A i \in g .. n - 1 : after[i] = before[i + 1]
  BY Zenon DEF Rolled
<1> HIDE DEF n
<1>3. n \in Nat
  BY DEF n
<1> SUFFICES ASSUME \A i \in 1 .. n : after[i].id # m
             PROVE  g >= 1 /\ after[g].id > m
  BY <1>1, Zenon DEF LossPlace
<1>4. ASSUME NEW k \in 1 .. n, before[k].id = m PROVE k = g
  <2>1. CASE k < g
    <3>1. k \in 1 .. g - 1
      BY <1>1, <1>3, <2>1
    <3> QED BY <1>2, <1>4, <3>1, Zenon
  <2>2. CASE k > g
    <3>1. k - 1 \in g .. n - 1 /\ k - 1 \in 1 .. n /\ (k - 1) + 1 = k
      BY <1>1, <1>3, <2>2
    <3>2. after[k - 1] = before[k]
      BY <1>2, <3>1, Zenon
    <3> QED BY <1>4, <3>1, <3>2, Zenon
  <2> QED BY <1>1, <1>3, <2>1, <2>2
<1>5. g >= 1 /\ (before[g].id = m \/ before[g].id > m)
  <2>1. CASE \E k \in 1 .. n : before[k].id = m
    BY <1>1, <1>3, <1>4, <2>1
  <2>2. CASE ~\E k \in 1 .. n : before[k].id = m
    BY <2>2, Zenon DEF LossPlace, n
  <2> QED BY <2>1, <2>2
<1>6. CASE g = n
  BY <1>1, <1>5, <1>6
<1>7. CASE g # n
  <2>1. g \in g .. n - 1 /\ g + 1 \in 1 .. n /\ g < g + 1
    BY <1>1, <1>3, <1>7
  <2>2. after[g] = before[g + 1]
    BY <1>2, <2>1, Zenon
  <2>3. /\ before[g].id \in Nat /\ before[g + 1].id \in Nat
        /\ before[g].id < before[g + 1].id
    BY <1>1, <2>1, Zenon DEF InIdOrder, n
  <2> QED BY <1>5, <2>2, <2>3
<1> QED BY <1>6, <1>7

LEMMA PushShape ==
    ASSUME NEW S, NEW p \in Seq(S), NEW q \in Seq(S), NEW c \in S, Len(q) <= CqCapacity
    PROVE  /\ push(q, c) \in Seq(S) /\ Len(push(q, c)) <= CqCapacity
           /\ p \o push(q, c) \in Seq(S)
           /\ \/ Grown(p \o q, p \o push(q, c), c)
              \/ Rolled(p \o q, p \o push(q, c), Len(p \o q) - CqCapacity + 1, c)
<1> DEFINE kept == IF Len(q) >= CqCapacity THEN Tail(q) ELSE q
           s == Append(kept, c)
<1>1. CqCapacity \in Nat \ {0} /\ Len(q) \in Nat /\ Len(p) \in Nat
  BY CapacitiesPositive, SeqTyped
<1>2. push(q, c) = s
  BY DEF push
<1>3. /\ p \o q \in Seq(S) /\ Len(p \o q) = Len(p) + Len(q)
      /\ \A i \in 1 .. Len(p) : (p \o q)[i] = p[i]
      /\ \A i \in 1 .. Len(q) : (p \o q)[Len(p) + i] = q[i]
  BY Joined DEF Joins
<1>4. CASE Len(q) < CqCapacity
  <2>1. kept = q
    BY <1>1, <1>4
  <2> HIDE DEF kept
  <2>2. /\ s \in Seq(S) /\ Len(s) = Len(q) + 1 /\ \A i \in 1 .. Len(q) : s[i] = q[i]
        /\ s[Len(q) + 1] = c
    BY <2>1, AppendTyped
  <2> HIDE DEF s
  <2>3. /\ p \o s \in Seq(S) /\ Len(p \o s) = Len(p) + Len(s)
        /\ \A i \in 1 .. Len(p) : (p \o s)[i] = p[i]
        /\ \A i \in 1 .. Len(s) : (p \o s)[Len(p) + i] = s[i]
    <3>1. s \in Seq(S)
      BY <2>2
    <3>2. p \o s \in Seq(S) /\ Joins(p, s, p \o s)
      BY <3>1, Joined, Zenon
    <3> QED BY <3>2 DEF Joins
  <2>4. ASSUME NEW i \in 1 .. Len(p \o q) PROVE (p \o s)[i] = (p \o q)[i]
    <3>1. CASE i <= Len(p)
      BY <1>1, <1>3, <2>3, <3>1
    <3>2. CASE i > Len(p)
      <4> DEFINE k == i - Len(p)
      <4>1. k \in 1 .. Len(q) /\ k \in 1 .. Len(s) /\ i = Len(p) + k
        BY <1>1, <1>3, <2>2, <3>2
      <4> HIDE DEF k
      <4> QED BY <1>3, <2>2, <2>3, <4>1
    <3>3. i <= Len(p) \/ i > Len(p)
      BY <1>1, <1>3, SMT
    <3> QED BY <3>1, <3>2, <3>3, Zenon
  <2>5. Len(p \o s) = Len(p) + (Len(q) + 1) /\ Len(q) + 1 \in 1 .. Len(s)
    BY <1>1, <2>2, <2>3
  <2>6. (p \o s)[Len(p \o s)] = c
    BY <2>2, <2>3, <2>5
  <2>7. Len(p \o s) = Len(p \o q) + 1 /\ Len(s) <= CqCapacity
    BY <1>1, <1>3, <1>4, <2>2, <2>5
  <2>8. Grown(p \o q, p \o s, c)
    BY <2>4, <2>6, <2>7 DEF Grown
  <2> QED BY <1>2, <2>2, <2>3, <2>7, <2>8
<1>5. CASE Len(q) = CqCapacity
  <2>1. kept = Tail(q) /\ q # << >>
    BY <1>1, <1>5, EmptyOrLonger
  <2>2. /\ kept \in Seq(S) /\ Len(kept) = Len(q) - 1
        /\ \A i \in 1 .. Len(kept) : kept[i] = q[i + 1]
    BY <2>1, TailTyped
  <2> HIDE DEF kept
  <2>3. /\ s \in Seq(S) /\ Len(s) = Len(kept) + 1 /\ \A i \in 1 .. Len(kept) : s[i] = kept[i]
        /\ s[Len(kept) + 1] = c
    BY <2>2, AppendTyped
  <2> HIDE DEF s
  <2>4. /\ p \o s \in Seq(S) /\ Len(p \o s) = Len(p) + Len(s)
        /\ \A i \in 1 .. Len(p) : (p \o s)[i] = p[i]
        /\ \A i \in 1 .. Len(s) : (p \o s)[Len(p) + i] = s[i]
    <3>1. s \in Seq(S)
      BY <2>3
    <3>2. p \o s \in Seq(S) /\ Joins(p, s, p \o s)
      BY <3>1, Joined, Zenon
    <3> QED BY <3>2 DEF Joins
  <2>5. /\ Len(s) = Len(q) /\ Len(p \o s) = Len(p \o q) /\ Len(s) \in 1 .. Len(s)
        /\ Len(p \o q) - CqCapacity + 1 = Len(p) + 1 /\ Len(p) + 1 \in 1 .. Len(p \o q)
        /\ Len(kept) + 1 = Len(s)
    BY <1>1, <1>3, <1>5, <2>2, <2>3, <2>4
  <2>6. (p \o s)[Len(p \o s)] = c
    BY <2>3, <2>4, <2>5
  <2>7. \A i \in 1 .. Len(p) + 1 - 1 : (p \o s)[i] = (p \o q)[i]
    BY <1>1, <1>3, <2>4
  <2>8. ASSUME NEW i \in Len(p) + 1 .. Len(p \o q) - 1 PROVE (p \o s)[i] = (p \o q)[i + 1]
    <3> DEFINE k == i - Len(p)
    <3>1. /\ k \in 1 .. Len(kept) /\ k \in 1 .. Len(s) /\ i = Len(p) + k
          /\ k + 1 \in 1 .. Len(q) /\ i + 1 = Len(p) + (k + 1)
      BY <1>1, <1>3, <2>2, <2>3
    <3> HIDE DEF k
    <3>2. (p \o s)[i] = s[k] /\ s[k] = kept[k] /\ kept[k] = q[k + 1]
      BY <2>2, <2>3, <2>4, <3>1
    <3> QED BY <1>3, <3>1, <3>2
  <2>9. Rolled(p \o q, p \o s, Len(p) + 1, c)
    BY <2>5, <2>6, <2>7, <2>8 DEF Rolled
  <2> QED BY <1>2, <1>5, <2>3, <2>4, <2>5, <2>9
<1> QED BY <1>1, <1>4, <1>5

\* After a push every delivery is the pushed one or an old one, and two old ones
\* are in their old order.
OldOrNew(before, after, c) ==
    \A i \in DOMAIN after : after[i] = c \/ \E k \in DOMAIN before : after[i] = before[k]

PairsOldOrNew(before, after, c) ==
    \A i, j \in DOMAIN after :
        i < j => \E k \in DOMAIN before :
                    /\ after[i] = before[k]
                    /\ after[j] = c \/ \E l \in DOMAIN before : k < l /\ after[j] = before[l]

LEMMA PushKeepsOrder ==
    ASSUME NEW S, NEW before \in Seq(S), NEW after \in Seq(S), NEW c, NEW gap,
           Grown(before, after, c) \/ Rolled(before, after, gap, c)
    PROVE  OldOrNew(before, after, c) /\ PairsOldOrNew(before, after, c)
<1>1. /\ Len(before) \in Nat /\ DOMAIN before = 1 .. Len(before)
      /\ Len(after) \in Nat /\ DOMAIN after = 1 .. Len(after)
  BY SeqTyped
<1> DEFINE source(i) == IF Grown(before, after, c) \/ i < gap THEN i ELSE i + 1
<1>2. ASSUME NEW i \in DOMAIN after, i # Len(after)
      PROVE  source(i) \in DOMAIN before /\ after[i] = before[source(i)]
  <2>1. CASE Grown(before, after, c)
    BY <1>1, <1>2, <2>1 DEF Grown
  <2>2. CASE ~Grown(before, after, c) /\ Rolled(before, after, gap, c)
    <3>1. CASE i < gap
      BY <1>1, <1>2, <2>2, <3>1 DEF Rolled
    <3>2. CASE ~(i < gap)
      <4>1. i \in gap .. Len(before) - 1 /\ i + 1 \in 1 .. Len(before)
        BY <1>1, <1>2, <2>2, <3>2 DEF Rolled
      <4> QED BY <1>1, <2>2, <3>2, <4>1 DEF Rolled
    <3> QED BY <3>1, <3>2
  <2> QED BY <2>1, <2>2
<1>3. \A i, j \in DOMAIN after : i < j => source(i) < source(j)
  <2>1. Grown(before, after, c) \/ gap \in Int
    BY DEF Rolled
  <2> QED BY <1>1, <2>1
<1>4. after[Len(after)] = c
  BY DEF Grown, Rolled
<1> HIDE DEF source
<1>5. OldOrNew(before, after, c)
  BY <1>2, <1>4 DEF OldOrNew
<1>6. ASSUME NEW i \in DOMAIN after, NEW j \in DOMAIN after, i < j
      PROVE  \E k \in DOMAIN before :
                /\ after[i] = before[k]
                /\ after[j] = c \/ \E l \in DOMAIN before : k < l /\ after[j] = before[l]
  <2>1. i # Len(after)
    BY <1>1, <1>6
  <2>2. source(i) \in DOMAIN before /\ after[i] = before[source(i)]
    BY <1>2, <2>1
  <2>3. CASE j = Len(after)
    BY <1>4, <2>2, <2>3
  <2>4. CASE j # Len(after)
    <3>1. source(j) \in DOMAIN before /\ after[j] = before[source(j)] /\ source(i) < source(j)
      BY <1>2, <1>3, <1>6, <2>4
    <3> QED BY <2>2, <3>1
  <2> QED BY <2>3, <2>4
<1> QED BY <1>5, <1>6 DEF PairsOldOrNew

LEMMA DeliveredTyped ==
    TypesInv => /\ Delivered \in Seq(Completion) /\ Len(Delivered) \in Nat
                /\ DOMAIN Delivered = 1 .. Len(Delivered)
                /\ \A i \in DOMAIN Delivered : Delivered[i] \in Completion
<1> SUFFICES ASSUME TypesInv
             PROVE  /\ Delivered \in Seq(Completion) /\ Len(Delivered) \in Nat
                    /\ DOMAIN Delivered = 1 .. Len(Delivered)
                    /\ \A i \in DOMAIN Delivered : Delivered[i] \in Completion
  OBVIOUS
<1>1. polled \in Seq(Completion) /\ cq \in Seq(Completion)
  BY DEF TypesInv
<1>2. Delivered \in Seq(Completion)
  BY <1>1, Joined, Zenon DEF Delivered
<1> QED BY <1>2, SeqTyped

LEMMA CompletionTyped ==
    ASSUME NEW c \in Completion
    PROVE  /\ c.id \in Nat \ {0} /\ c.session \in Nat /\ c.report.sequence \in Nat
           /\ c.report.sequence < SequenceMod
           /\ Vouched(c) /\ DecodedFrom(c.report.value, c.id, c.flipped)
<1>1. /\ c.id \in 1 .. MaxPosts /\ c.session \in Nat /\ c.report.sequence \in 0 .. SequenceMod - 1
      /\ Vouched(c) /\ DecodedFrom(c.report.value, c.id, c.flipped)
  BY DEF Completion
<1> QED BY <1>1, CapacitiesPositive, BoundsNat

-----------------------------------------------------------------------------
(* The invariant is inductive *)

\* A register file nobody wrote to arms no driver.
LEMMA NewIsNotArmed == NewRegisterFile \in RegisterFile /\ from_csr(NewRegisterFile) = NotArmed
<1>1. NewRegisterFile \in RegisterFile
  BY DEF NewRegisterFile, RegisterFile
<1>2. REG_SECRET_VALID \in Registers
  BY DEF Registers
<1>3. NewRegisterFile[REG_SECRET_VALID] = 0
  BY <1>2 DEF NewRegisterFile
<1>4. ~secret_valid(NewRegisterFile)
  BY <1>3, SMT DEF secret_valid
<1> QED BY <1>1, <1>4 DEF from_csr

LEMMA StackInit == Init => StackInv
<1> SUFFICES ASSUME Init PROVE StackInv
  OBVIOUS
<1>1. CqCapacity \in Nat \ {0} /\ SequenceMod \in Nat \ {0} /\ MaxPosts \in Nat
  BY CapacitiesPositive, BoundsNat
<1>2. TypesInv
  BY <1>1, EmptyOrLonger DEF Init, TypesInv
<1>3. DriversInv
  BY NewIsNotArmed DEF Init, DriversInv, Pumping, Ends
<1>4. DOMAIN Delivered = {}
  <2>1. polled \in Seq(Completion) /\ cq \in Seq(Completion) /\ Len(polled) = 0 /\ Len(cq) = 0
    BY <1>2, EmptyOrLonger DEF Init, TypesInv
  <2>2. Joins(polled, cq, Delivered)
    BY <2>1, Joined, Zenon DEF Delivered
  <2> QED BY <2>1, <2>2 DEF Joins
<1>5. /\ Len(sent) = 0 /\ Len(outgoing) = 0 /\ Len(sendQ) = 0
      /\ DOMAIN sent = {} /\ DOMAIN outgoing = {} /\ DOMAIN sendQ = {}
  BY DEF Init
<1>6. NumbersInv
  BY <1>4, <1>5 DEF NumbersInv, Init
<1>7. CompletedInOrder /\ SequenceCountsLosses
  BY <1>4 DEF CompletedInOrder, SequenceCountsLosses
<1>8. SequenceInv
  <2>1. 1 \in 1 .. Len(sent) + 1 /\ Len(sent) + Len(outgoing) + 1 - 1 = 0 /\ sequence = 0
    BY <1>5 DEF Init
  <2>2. 0 % SequenceMod = 0
    BY <1>1, DivMod, ModUnique, SMT
  <2>3. EncodedSince(1)
    BY <1>4, <1>5, <2>1, <2>2 DEF EncodedSince
  <2> QED BY <2>1, <2>3 DEF SequenceInv
<1>9. LossInv
  BY <1>5 DEF LossInv
<1> QED BY <1>2, <1>3, <1>6, <1>7, <1>8, <1>9 DEF StackInv

\* What was delivered stays in order as long as it is the same.
LEMMA DeliveriesKept ==
    ASSUME StackInv, Delivered' = Delivered, sent' = sent
    PROVE  CompletedInOrder' /\ SequenceCountsLosses' /\ LossInv'
<1>1. CompletedInOrder'
  BY DEF StackInv, CompletedInOrder
<1>2. SequenceCountsLosses'
  BY DEF StackInv, SequenceCountsLosses
<1>3. LossInv'
  BY DEF StackInv, LossInv, LossFrom
<1> QED BY <1>1, <1>2, <1>3

LEMMA QuietStep ==
    ASSUME StackInv, Delivered' = Delivered,
           UNCHANGED <<driver, sequence, session, sendQ, outgoing, posted, sent>>
    PROVE  /\ NumbersInv' /\ CompletedInOrder'
           /\ SequenceInv' /\ SequenceCountsLosses' /\ LossInv'
<1>1. NumbersInv'
  BY DEF StackInv, NumbersInv
<1>2. PICK start \in 1 .. Len(sent) + 1 : EncodedSince(start)
  BY DEF StackInv, SequenceInv
<1>3. EncodedSince(start)'
  BY <1>2 DEF EncodedSince, encode_raw
<1>4. SequenceInv'
  BY <1>3 DEF SequenceInv
<1> QED BY <1>1, <1>4, DeliveriesKept

LEMMA StutterStep == StackInv /\ UNCHANGED vars => StackInv'
<1> SUFFICES ASSUME StackInv, UNCHANGED vars PROVE StackInv'
  OBVIOUS
<1>1. TypesInv'
  BY DEF StackInv, TypesInv, vars
<1>2. DriversInv'
  BY DEF StackInv, DriversInv, Pumping, vars
<1>3. /\ Delivered' = Delivered
      /\ UNCHANGED <<driver, sequence, session, sendQ, outgoing, posted, sent>>
  BY DEF Delivered, vars
<1> QED BY <1>1, <1>2, <1>3, QuietStep DEF StackInv

LEMMA ArmStep ==
    ASSUME StackInv, NEW end \in Ends, NEW setting \in Settings[end], Arm(end, setting)
    PROVE  StackInv'
<1>1. TypesInv'
  BY DEF StackInv, TypesInv, Arm
<1>2. DriversInv'
  <2> DEFINE regs == arm_register_file(rf[end], setting)
  <2>1. rf \in [Ends -> RegisterFile]
    BY DEF StackInv, DriversInv
  <2>2. regs \in RegisterFile /\ from_csr(regs) = Latch(setting)
    BY <2>1, ArmedLatches
  <2> HIDE DEF regs
  <2>3. rf' = [rf EXCEPT ![end] = regs]
    BY DEF Arm, regs
  <2>4. rf' \in [Ends -> RegisterFile]
    BY <2>1, <2>2, <2>3
  <2>5. \A e \in Ends : from_csr(rf'[e]) \in {NotArmed} \union LatchedBy(e)
    <3>1. rf'[end] = regs /\ \A e \in Ends : e # end => rf'[e] = rf[e]
      BY <2>1, <2>3
    <3>2. Latch(setting) \in LatchedBy(end)
      BY DEF LatchedBy
    <3> QED BY <2>2, <3>1, <3>2 DEF StackInv, DriversInv
  <2>6. driver' = driver /\ outgoing' = outgoing
    BY DEF Arm
  <2> QED BY <2>4, <2>5, <2>6 DEF StackInv, DriversInv, Pumping
<1>3. /\ Delivered' = Delivered
      /\ UNCHANGED <<driver, sequence, session, sendQ, outgoing, posted, sent>>
  BY DEF Delivered, Arm
<1> QED BY <1>1, <1>2, <1>3, QuietStep DEF StackInv

LEMMA PollStep == ASSUME StackInv, Poll PROVE StackInv'
<1>1. polled \in Seq(Completion) /\ cq \in Seq(Completion) /\ cq # << >> /\ Len(cq) <= CqCapacity
  BY DEF StackInv, TypesInv, Poll
<1>2. /\ polled' \in Seq(Completion) /\ cq' \in Seq(Completion) /\ Len(cq') = Len(cq) - 1
      /\ polled' \o cq' = polled \o cq
  BY <1>1, PollMoves DEF Poll
<1>3. Len(cq') <= CqCapacity
  <2>1. Len(cq) \in Nat /\ CqCapacity \in Nat
    BY <1>1, SeqTyped, CapacitiesPositive
  <2> QED BY <1>1, <1>2, <2>1
<1>4. TypesInv'
  BY <1>2, <1>3 DEF StackInv, TypesInv, Poll
<1>5. DriversInv'
  BY DEF StackInv, DriversInv, Pumping, Poll
<1>6. /\ Delivered' = Delivered
      /\ UNCHANGED <<driver, sequence, session, sendQ, outgoing, posted, sent>>
  BY <1>2 DEF Delivered, Poll
<1> QED BY <1>4, <1>5, <1>6, QuietStep DEF StackInv

LEMMA PostStep ==
    ASSUME StackInv, NEW r \in Requests, Post(r.schema_id, r.payload_len, r.bytes)
    PROVE  StackInv'
<1> DEFINE request == [id |-> posted + 1, schema_id |-> r.schema_id,
                       payload |-> Buffer(r.schema_id, r.bytes, posted + 1)]
<1>1. /\ posted \in 0 .. MaxPosts /\ sendQ \in Seq(AnyPosted) /\ sent \in Seq(BOOLEAN)
      /\ outgoing \in Seq(AnyOutgoing) /\ MaxPosts \in Nat
  BY BoundsNat DEF StackInv, TypesInv
<1>2. posted < MaxPosts /\ posted' = posted + 1 /\ sendQ' = Append(sendQ, request)
  BY DEF Post
<1>3. posted + 1 \in 1 .. MaxPosts /\ posted + 1 \in 0 .. MaxPosts
  BY <1>1, <1>2
<1>4. request \in Posted(posted + 1)
  BY DEF Posted
<1>5. request \in AnyPosted
  BY <1>3, <1>4 DEF AnyPosted
<1> HIDE DEF request
<1>6. /\ sendQ' \in Seq(AnyPosted) /\ Len(sendQ') = Len(sendQ) + 1
      /\ \A k \in 1 .. Len(sendQ) : sendQ'[k] = sendQ[k]
      /\ sendQ'[Len(sendQ) + 1] = request
  BY <1>1, <1>2, <1>5, AppendTyped
<1>7. TypesInv'
  BY <1>2, <1>3, <1>6 DEF StackInv, TypesInv, Post
<1>8. DriversInv'
  BY DEF StackInv, DriversInv, Pumping, Post
<1>9. Delivered' = Delivered
  BY DEF Delivered, Post
<1>10. UNCHANGED <<driver, sequence, session, outgoing, sent>>
  BY DEF Post
<1>11. NumbersInv'
  <2>1. /\ Len(sendQ) \in Nat /\ DOMAIN sendQ = 1 .. Len(sendQ)
        /\ DOMAIN sendQ' = 1 .. Len(sendQ) + 1
        /\ Len(sent) \in Nat /\ Len(outgoing) \in Nat
    BY <1>1, <1>6, SeqTyped
  <2>2. posted = Len(sent) + Len(outgoing) + Len(sendQ)
    BY DEF StackInv, NumbersInv
  <2>3. posted' = Len(sent) + Len(outgoing) + Len(sendQ')
    BY <1>2, <1>6, <2>1, <2>2
  <2>4. ASSUME NEW k \in DOMAIN sendQ' PROVE sendQ'[k] \in Posted(Len(sent) + Len(outgoing) + k)
    <3>1. CASE k = Len(sendQ) + 1
      <4>1. Len(sent) + Len(outgoing) + k = posted + 1
        BY <2>1, <2>2, <3>1
      <4> QED BY <1>4, <1>6, <3>1, <4>1
    <3>2. CASE k # Len(sendQ) + 1
      <4>1. k \in 1 .. Len(sendQ)
        BY <2>1, <3>2
      <4> QED BY <1>6, <2>1, <4>1 DEF StackInv, NumbersInv
    <3> QED BY <3>1, <3>2
  <2> QED BY <1>9, <1>10, <2>3, <2>4 DEF StackInv, NumbersInv
<1>12. SequenceInv'
  <2>1. PICK start \in 1 .. Len(sent) + 1 : EncodedSince(start)
    BY DEF StackInv, SequenceInv
  <2>2. EncodedSince(start)'
    BY <1>9, <1>10, <2>1 DEF EncodedSince, encode_raw
  <2> QED BY <1>10, <2>2 DEF SequenceInv
<1> QED BY <1>7, <1>8, <1>9, <1>10, <1>11, <1>12, DeliveriesKept DEF StackInv

LEMMA RefreshStep ==
    ASSUME StackInv, NEW end \in Ends, refresh_from_csr(end)
    PROVE  StackInv'
<1>1. /\ session \in Nat /\ sent \in Seq(BOOLEAN) /\ SequenceMod \in Nat \ {0}
      /\ outgoing = << >> /\ outgoing' = << >> /\ Delivered' = Delivered /\ sent' = sent
      /\ sendQ' = sendQ
  BY CapacitiesPositive DEF StackInv, TypesInv, refresh_from_csr, Pumping, Delivered
<1>2. Len(sent) \in Nat /\ Len(outgoing) = 0 /\ DOMAIN outgoing = {}
  BY <1>1, SeqTyped
<1>3. 0 \in 0 .. SequenceMod - 1 /\ 0 % SequenceMod = 0
  BY <1>1
<1>4. TypesInv'
  <2>1. sequence' \in 0 .. SequenceMod - 1 /\ session' \in Nat
    BY <1>1, <1>3 DEF StackInv, TypesInv, refresh_from_csr
  <2> QED BY <2>1 DEF StackInv, TypesInv, refresh_from_csr
<1>5. DriversInv'
  <2> DEFINE config == from_csr(rf[end])
  <2>1. /\ driver = [e \in Ends |-> driver[e]] /\ rf' = rf
        /\ driver' = [driver EXCEPT ![end] = config]
    BY DEF StackInv, DriversInv, refresh_from_csr
  <2>2. config \in {NotArmed} \union LatchedBy(end)
    BY DEF StackInv, DriversInv
  <2> HIDE DEF config
  <2>3. /\ driver' = [e \in Ends |-> driver'[e]]
        /\ driver'[end] = config /\ \A e \in Ends : e # end => driver'[e] = driver[e]
    BY <2>1
  <2> QED BY <1>1, <2>1, <2>2, <2>3 DEF StackInv, DriversInv, Pumping
<1>6. NumbersInv'
  BY <1>1 DEF StackInv, NumbersInv, refresh_from_csr
<1>7. SequenceInv'
  <2>1. PICK start \in 1 .. Len(sent) + 1 : EncodedSince(start)
    BY DEF StackInv, SequenceInv
  <2>2. CASE end = "tx"
    <3>1. session' = session + 1 /\ sequence' = 0
      BY <2>2 DEF refresh_from_csr
    <3>2. Len(sent) + 1 \in 1 .. Len(sent) + 1 /\ Len(sent) + 0 + 1 - (Len(sent) + 1) = 0
      BY <1>2
    <3>3. \A i \in DOMAIN Delivered : Delivered[i].session \in Nat /\ Delivered[i].session <= session
      BY <2>1, DeliveredTyped, CompletionTyped DEF StackInv, EncodedSince
    <3>4. \A i \in DOMAIN Delivered :
              Delivered[i].session <= session' /\ Delivered[i].session # session'
      BY <1>1, <3>1, <3>3
    <3>5. EncodedSince(Len(sent) + 1)'
      BY <1>1, <1>2, <1>3, <3>1, <3>2, <3>4 DEF EncodedSince
    <3> QED BY <1>1, <3>2, <3>5 DEF SequenceInv
  <2>3. CASE end # "tx"
    <3>1. session' = session /\ sequence' = sequence
      BY <2>3 DEF refresh_from_csr
    <3>2. EncodedSince(start)'
      BY <1>1, <1>2, <2>1, <3>1 DEF EncodedSince
    <3> QED BY <1>1, <3>2 DEF SequenceInv
  <2> QED BY <2>2, <2>3
<1> QED BY <1>1, <1>4, <1>5, <1>6, <1>7, DeliveriesKept DEF StackInv

LEMMA TransmitStep == ASSUME StackInv, transmit_pending PROVE StackInv'
<1>1. /\ sendQ \in Seq(AnyPosted) /\ sent \in Seq(BOOLEAN) /\ outgoing = << >>
      /\ posted \in 0 .. MaxPosts /\ SequenceMod \in Nat \ {0} /\ MaxPosts \in Nat
      /\ sequence \in 0 .. SequenceMod - 1
      /\ sendQ' = << >> /\ Delivered' = Delivered /\ sent' = sent /\ driver' = driver
      /\ sequence' = SequenceAfter(Len(sendQ)) /\ posted' = posted /\ session' = session
  BY CapacitiesPositive, BoundsNat DEF StackInv, TypesInv, transmit_pending, Pumping, Delivered
<1>2. /\ Len(sendQ) \in Nat /\ DOMAIN sendQ = 1 .. Len(sendQ) /\ Len(sent) \in Nat
      /\ Len(outgoing) = 0
  BY <1>1, SeqTyped
<1>3. /\ posted = Len(sent) + Len(sendQ)
      /\ \A k \in DOMAIN sendQ : sendQ[k] \in Posted(Len(sent) + k)
  BY <1>2 DEF StackInv, NumbersInv
<1>4. PICK start \in 1 .. Len(sent) + 1 : EncodedSince(start)
  BY DEF StackInv, SequenceInv
<1>5. ASSUME NEW n \in Nat
      PROVE  SequenceAfter(n) = (Len(sent) + 1 + n - start) % SequenceMod
  <2>1. Len(sent) + 1 - start \in Nat
    BY <1>2
  <2>2. sequence = (Len(sent) + 1 - start) % SequenceMod
    BY <1>2, <1>4 DEF EncodedSince
  <2>3. (sequence + n) % SequenceMod = (Len(sent) + 1 - start + n) % SequenceMod
    BY <1>1, <2>1, <2>2, ModSum
  <2>4. Len(sent) + 1 - start + n = Len(sent) + 1 + n - start
    BY <1>2
  <2> QED BY <2>3, <2>4 DEF SequenceAfter
<1>6. ASSUME NEW n \in Nat PROVE SequenceAfter(n) \in 0 .. SequenceMod - 1
  BY <1>1 DEF SequenceAfter
<1> DEFINE numbered(k) == (Len(sent) + k - start) % SequenceMod
           encoded(k) == encode_raw(OAM_MODE(sendQ[k].schema_id), numbered(k), sendQ[k].payload)
<1>7. \A k \in 1 .. Len(sendQ) :
          SequenceAfter(k - 1) = numbered(k) /\ numbered(k) \in 0 .. SequenceMod - 1
  <2> TAKE k \in 1 .. Len(sendQ)
  <2>1. k - 1 \in Nat /\ Len(sent) + 1 + (k - 1) - start = Len(sent) + k - start
    BY <1>2
  <2> QED BY <1>5, <1>6, <2>1
<1>8. outgoing' = [k \in 1 .. Len(sendQ) |-> [request |-> sendQ[k], transient |-> encoded(k)]]
  BY <1>2, <1>7 DEF transmit_pending
<1>9. \A e \in Ends : driver[e] # NotArmed
  BY DEF transmit_pending
<1>10. PICK setting \in Settings["tx"] : driver["tx"] = Latch(setting)
  BY <1>9 DEF StackInv, DriversInv, LatchedBy, Ends
<1>11. ASSUME NEW k \in 1 .. Len(sendQ)
       PROVE  [request |-> sendQ[k], transient |-> encoded(k)] \in AnyOutgoing
  <2> DEFINE context == Context(setting.wavelength, OAM_MODE(sendQ[k].schema_id), numbered(k),
                                sendQ[k].payload)
  <2>1. encoded(k) = [context |-> context,
                      polarization |-> HmacTrajectory(setting.secret, context)]
    <3>1. driver["tx"].wavelength = setting.wavelength /\ driver["tx"].secret = setting.secret
      BY <1>10, LatchIs
    <3> QED BY <3>1 DEF encode_raw, Transient
  <2>2. Len(sent) + k \in 1 .. MaxPosts
    BY <1>1, <1>2, <1>3
  <2>3. PICK r \in Requests :
            sendQ[k] = [id |-> Len(sent) + k, schema_id |-> r.schema_id,
                        payload |-> Buffer(r.schema_id, r.bytes, Len(sent) + k)]
    BY <1>2, <1>3 DEF Posted
  <2>4. numbered(k) \in 0 .. SequenceMod - 1
    BY <1>7
  <2> HIDE DEF numbered
  <2>5. context \in Contexts
    BY <2>2, <2>3, <2>4 DEF Contexts
  <2> HIDE DEF context, encoded
  <2>6. HmacTrajectory(setting.secret, context) \in Seq(Int \X Int \X Int)
    BY <2>5, HmacTyped
  <2>7. sendQ[k] \in AnyPosted
    BY <1>1, SeqTyped
  <2> QED BY <2>1, <2>5, <2>6, <2>7, OutgoingTyped
<1> HIDE DEF encoded, numbered
<1>12. outgoing' \in [1 .. Len(sendQ) -> AnyOutgoing]
  BY <1>8, <1>11
<1>13. /\ outgoing' \in Seq(AnyOutgoing) /\ Len(outgoing') = Len(sendQ)
       /\ DOMAIN outgoing' = 1 .. Len(sendQ)
  BY <1>2, <1>12, FunctionIsSeq
<1>14. /\ << >> \in Seq(AnyPosted) /\ Len(<< >>) = 0 /\ DOMAIN << >> = {}
  BY EmptyOrLonger
<1>15. TypesInv'
  BY <1>1, <1>2, <1>6, <1>13, <1>14 DEF StackInv, TypesInv, transmit_pending
<1>16. DriversInv'
  BY <1>9 DEF StackInv, DriversInv, transmit_pending
<1>17. \A k \in 1 .. Len(sendQ) :
           outgoing'[k].request = sendQ[k] /\ outgoing'[k].transient = encoded(k)
  BY <1>8
<1>18. NumbersInv'
  <2>1. posted' = Len(sent') + Len(outgoing') + Len(sendQ')
    BY <1>1, <1>2, <1>3, <1>13, <1>14
  <2>2. \A k \in DOMAIN outgoing' : outgoing'[k].request \in Posted(Len(sent') + k)
    BY <1>1, <1>2, <1>3, <1>13, <1>17
  <2>3. DOMAIN sendQ' = {}
    BY <1>1, <1>14
  <2> QED BY <1>1, <2>1, <2>2, <2>3 DEF StackInv, NumbersInv
<1>19. EncodedSince(start)'
  <2>1. sequence' = (Len(sent') + Len(outgoing') + 1 - start) % SequenceMod
    <3>1. Len(sent) + 1 + Len(sendQ) - start = Len(sent') + Len(outgoing') + 1 - start
      BY <1>1, <1>2, <1>13
    <3> QED BY <1>1, <1>2, <1>5, <3>1
  <2>2. ASSUME NEW k \in DOMAIN outgoing'
        PROVE  outgoing'[k].transient
                   = encode_raw(OAM_MODE(outgoing'[k].request.schema_id),
                                (Len(sent') + k - start) % SequenceMod,
                                outgoing'[k].request.payload)
    BY <1>1, <1>13, <1>17 DEF encoded, numbered
  <2> QED BY <1>1, <1>4, <2>1, <2>2 DEF EncodedSince, encode_raw
<1>20. SequenceInv'
  BY <1>1, <1>19 DEF SequenceInv
<1> QED BY <1>1, <1>15, <1>16, <1>18, <1>20, DeliveriesKept DEF StackInv

\* The next request completes after all that completed before.
LEMMA OrderAfterPush ==
    ASSUME StackInv, NEW c \in Completion, c.id = Len(sent) + 1,
           PairsOldOrNew(Delivered, Delivered', c)
    PROVE  CompletedInOrder'
<1>1. \A k \in DOMAIN Delivered : Delivered[k].id \in Nat /\ Delivered[k].id < c.id
  <2>1. sent \in Seq(BOOLEAN) /\ Len(sent) \in Nat
    BY SeqTyped DEF StackInv, TypesInv
  <2>2. \A k \in DOMAIN Delivered : Delivered[k].id \in Nat /\ Delivered[k].id <= Len(sent)
    BY DeliveredTyped, CompletionTyped DEF StackInv, NumbersInv
  <2> QED BY <2>1, <2>2
<1>2. \A k, l \in DOMAIN Delivered : k < l => Delivered[k].id < Delivered[l].id
  BY DEF StackInv, CompletedInOrder
<1>3. ASSUME NEW i \in DOMAIN Delivered', NEW j \in DOMAIN Delivered', i < j
      PROVE  Delivered'[i].id < Delivered'[j].id
  BY <1>1, <1>2, <1>3 DEF PairsOldOrNew
<1> QED BY <1>3 DEF CompletedInOrder

\* Its sequence number counts from the same start as those of its session.
LEMMA SequenceAfterPush ==
    ASSUME StackInv, NEW start \in 1 .. Len(sent) + 1, EncodedSince(start),
           NEW c \in Completion, c.id = Len(sent) + 1, c.session = session,
           NumberedFrom(start, c),
           PairsOldOrNew(Delivered, Delivered', c)
    PROVE  SequenceCountsLosses'
<1> DEFINE Counts(b, d) ==
        b.session = d.session =>
            (d.id - b.id) % SequenceMod
                = (SequenceMod + d.report.sequence - b.report.sequence) % SequenceMod
<1>1. \A k, l \in DOMAIN Delivered : k < l => Counts(Delivered[k], Delivered[l])
  BY DEF StackInv, SequenceCountsLosses
<1>2. ASSUME NEW k \in DOMAIN Delivered PROVE Counts(Delivered[k], c)
  <2> DEFINE b == Delivered[k]
  <2> SUFFICES ASSUME b.session = c.session
               PROVE  (c.id - b.id) % SequenceMod
                          = (SequenceMod + c.report.sequence - b.report.sequence) % SequenceMod
    OBVIOUS
  <2>1. NumberedFrom(start, b)
    BY Zenon DEF EncodedSince, NumberedFrom
  <2>2. b.id \in Nat /\ b.id <= Len(sent) /\ Len(sent) \in Nat /\ c.id \in Nat
    BY DeliveredTyped, CompletionTyped, SeqTyped, Zenon DEF StackInv, TypesInv, NumbersInv
  <2> HIDE DEF b
  <2>3. start \in Nat /\ b.id <= c.id
    BY <2>2
  <2> QED BY <2>1, <2>2, <2>3, SequenceDistance, Zenon
<1> HIDE DEF Counts
<1>3. ASSUME NEW i \in DOMAIN Delivered', NEW j \in DOMAIN Delivered', i < j
      PROVE  Counts(Delivered'[i], Delivered'[j])
  BY <1>1, <1>2, <1>3 DEF PairsOldOrNew
<1> QED BY <1>3 DEF SequenceCountsLosses, Counts

\* What the push loses is followed by a full queue.
LEMMA LossAfterPush ==
    ASSUME StackInv, NEW c \in Completion, c.id = Len(sent) + 1,
           DOMAIN sent' = 1 .. Len(sent) + 1, \A m \in 1 .. Len(sent) : sent'[m] = sent[m],
           Delivered' \in Seq(Completion),
           \/ Grown(Delivered, Delivered', c)
           \/ Rolled(Delivered, Delivered', LossFrom, c)
    PROVE  LossInv'
<1> DEFINE n == Len(sent)
<1>1. /\ Len(Delivered) \in Nat /\ DOMAIN Delivered = 1 .. Len(Delivered)
      /\ DOMAIN Delivered' = 1 .. Len(Delivered') /\ CqCapacity \in Nat \ {0}
  BY DeliveredTyped, SeqTyped, CapacitiesPositive, Zenon DEF StackInv
<1>2. n \in Nat /\ DOMAIN sent = 1 .. n /\ DOMAIN sent' = 1 .. n + 1
  BY SeqTyped, Zenon DEF StackInv, TypesInv
<1>3. LossFrom = Len(Delivered) - CqCapacity + 1 /\ LossFrom' = Len(Delivered') - CqCapacity + 1
  BY Zenon DEF LossFrom
<1>4. InIdOrder(Delivered)
  BY <1>1, DeliveredTyped, CompletionTyped, Zenon DEF StackInv, CompletedInOrder, InIdOrder
<1>5. \A m \in DOMAIN sent : sent[m] => LossPlace(Delivered, LossFrom, m)
  BY <1>1, Zenon DEF StackInv, LossInv, LossPlace
<1>6. c.id \in Nat /\ c.id = n + 1
  BY CompletionTyped, Zenon
<1> HIDE DEF n
<1>7. ASSUME NEW m \in DOMAIN sent', sent'[m], m # n + 1
      PROVE  m \in Nat /\ m < c.id /\ LossPlace(Delivered, LossFrom, m)
  <2>1. \A k \in 1 .. n + 1 : k # n + 1 => k \in 1 .. n /\ k \in Nat /\ k < n + 1
    BY <1>2
  <2>2. m \in 1 .. n /\ m \in Nat /\ m < c.id
    BY <1>2, <1>6, <1>7, <2>1, Zenon
  <2> QED BY <1>2, <1>5, <1>7, <2>2, Zenon DEF n
<1>8. ASSUME NEW g, Len(Delivered') \in 1 .. Len(Delivered'), Delivered'[Len(Delivered')] = c
      PROVE  LossPlace(Delivered', g, n + 1)
  BY <1>6, <1>8, Zenon DEF LossPlace
<1>9. CASE Grown(Delivered, Delivered', c)
  <2>1. Len(Delivered') = Len(Delivered) + 1 /\ Delivered'[Len(Delivered')] = c
    BY <1>9, Zenon DEF Grown
  <2>2. /\ LossFrom \in Int /\ LossFrom <= Len(Delivered) /\ LossFrom' = LossFrom + 1
        /\ Len(Delivered') \in 1 .. Len(Delivered')
    BY <1>1, <1>3, <2>1
  <2>3. \A m \in DOMAIN sent' : sent'[m] => LossPlace(Delivered', LossFrom + 1, m)
    BY <1>1, <1>4, <1>6, <1>7, <1>8, <1>9, <2>1, <2>2, LossGrown, Zenon
  <2> QED BY <1>1, <2>2, <2>3, Zenon DEF LossInv, LossPlace
<1>10. CASE Rolled(Delivered, Delivered', LossFrom, c)
  <2>1. /\ Len(Delivered') = Len(Delivered) /\ Delivered'[Len(Delivered')] = c
        /\ LossFrom \in 1 .. Len(Delivered)
    BY <1>10, Zenon DEF Rolled
  <2>2. LossFrom' = LossFrom /\ Len(Delivered') \in 1 .. Len(Delivered')
    BY <1>1, <1>3, <2>1
  <2>3. \A m \in DOMAIN sent' : sent'[m] => LossPlace(Delivered', LossFrom, m)
    BY <1>1, <1>4, <1>6, <1>7, <1>8, <1>10, <2>1, <2>2, LossRolled, Zenon
  <2> QED BY <1>1, <2>2, <2>3, Zenon DEF LossInv, LossPlace
<1> QED BY <1>9, <1>10, Zenon

\* A turn of the pump's loop, as it delivers the next request r of the session
\* that began with the request "start".
Turn(start, r, flips, arrived) ==
    LET n == Len(sent) + 1
        seq == (n - start) % SequenceMod
    IN  /\ EncodedSince(start)
        /\ Head(outgoing).request = [id |-> n, schema_id |-> r.schema_id,
                                     payload |-> Buffer(r.schema_id, r.bytes, n)]
        /\ Head(outgoing).transient.context.sequence = seq
        /\ flips \in SUBSET Exposed(fiber, Received(r.schema_id, r.bytes, n, {}))
        /\ ArrivesAs(r, n, seq, flips, arrived)
        /\ cq' = IF arrived = << >> THEN cq ELSE push(cq, arrived[1])

\* While a pump holds Transients there is a next request, and both drivers are built.
LEMMA PumpingTyped ==
    ASSUME StackInv, Pumping
    PROVE  /\ Len(sent) \in Nat /\ Len(sent) + 1 \in 1 .. MaxPosts /\ Len(outgoing) \in Nat \ {0}
           /\ outgoing \in Seq(AnyOutgoing) /\ outgoing # << >> /\ Head(outgoing) = outgoing[1]
           /\ 1 \in DOMAIN outgoing
           /\ fiber \in Fibers /\ session \in Nat
           /\ driver["tx"] \in LatchedBy("tx") /\ driver["rx"] \in LatchedBy("rx")
<1>1. /\ sent \in Seq(BOOLEAN) /\ outgoing \in Seq(AnyOutgoing) /\ outgoing # << >>
      /\ sendQ \in Seq(AnyPosted) /\ posted \in 0 .. MaxPosts /\ fiber \in Fibers /\ session \in Nat
  BY DEF StackInv, TypesInv, Pumping
<1>2. /\ Len(sent) \in Nat /\ Len(outgoing) \in Nat \ {0} /\ Len(sendQ) \in Nat
      /\ DOMAIN outgoing = 1 .. Len(outgoing)
  BY <1>1, SeqTyped, EmptyOrLonger
<1>3. posted = Len(sent) + Len(outgoing) + Len(sendQ)
  BY DEF StackInv, NumbersInv
<1>4. Len(sent) + 1 \in 1 .. MaxPosts /\ 1 \in DOMAIN outgoing
  BY <1>1, <1>2, <1>3, BoundsNat
<1>5. Head(outgoing) = outgoing[1]
  OBVIOUS
<1>6. driver["tx"] \in LatchedBy("tx") /\ driver["rx"] \in LatchedBy("rx")
  BY DEF StackInv, DriversInv, Ends
<1> QED BY <1>1, <1>2, <1>4, <1>5, <1>6

LEMMA SequenceTyped ==
    ASSUME NEW n \in Nat, NEW start \in 1 .. n
    PROVE  (n - start) % SequenceMod \in 0 .. SequenceMod - 1
BY CapacitiesPositive

LEMMA DeliverTurns ==
    ASSUME StackInv, Deliver
    PROVE  \E start \in 1 .. Len(sent) + 1, r \in Requests : \E flips, arrived :
               Turn(start, r, flips, arrived)
<1> DEFINE n == Len(sent) + 1
<1>1. /\ Len(sent) \in Nat /\ n \in 1 .. MaxPosts /\ Head(outgoing) = outgoing[1]
      /\ 1 \in DOMAIN outgoing
  BY PumpingTyped DEF Deliver
<1>2. PICK start \in 1 .. n : EncodedSince(start)
  BY DEF StackInv, SequenceInv
<1> DEFINE seq == (n - start) % SequenceMod
<1>3. outgoing[1].request \in Posted(n)
  BY <1>1 DEF StackInv, NumbersInv
<1>4. PICK r \in Requests :
          Head(outgoing).request = [id |-> n, schema_id |-> r.schema_id,
                                    payload |-> Buffer(r.schema_id, r.bytes, n)]
  BY <1>1, <1>3 DEF Posted
<1>5. Head(outgoing).transient
          = encode_raw(OAM_MODE(Head(outgoing).request.schema_id), seq, Head(outgoing).request.payload)
  BY <1>1, <1>2 DEF EncodedSince
<1>6. Head(outgoing).transient.context.sequence = seq
  BY <1>5, EncodedIs
<1>7. PICK t \in transmit(Head(outgoing).transient) :
          \E arrived \in receive(Head(outgoing).request, t) :
              cq' = IF arrived = << >> THEN cq ELSE push(cq, arrived[1])
  BY DEF Deliver
<1>8. PICK arrived \in receive(Head(outgoing).request, t) :
          cq' = IF arrived = << >> THEN cq ELSE push(cq, arrived[1])
  BY <1>7
<1> HIDE DEF seq, n
<1>9. PICK flips \in SUBSET Exposed(fiber, Received(r.schema_id, r.bytes, n, {})) :
          ArrivesAs(r, n, seq, flips, arrived)
  BY <1>4, <1>5, ArrivalShape, Zenon
<1>10. Turn(start, r, flips, arrived)
  BY <1>2, <1>4, <1>6, <1>8, <1>9, Zenon DEF Turn, n, seq
<1> QED BY <1>2, <1>10 DEF n

\* The pump's Transients after one of them was delivered.
LEMMA OutgoingShifts ==
    ASSUME StackInv, Deliver
    PROVE  /\ outgoing' \in Seq(AnyOutgoing) /\ Len(outgoing') = Len(outgoing) - 1
           /\ \A k \in DOMAIN outgoing' : k + 1 \in DOMAIN outgoing /\ outgoing'[k] = outgoing[k + 1]
           /\ sent' \in Seq(BOOLEAN) /\ Len(sent') = Len(sent) + 1
           /\ DOMAIN sent' = 1 .. Len(sent) + 1 /\ \A m \in 1 .. Len(sent) : sent'[m] = sent[m]
           /\ sent'[Len(sent) + 1] = Unimpeded(Head(outgoing).request)
           /\ Len(sent') \in Nat /\ Len(outgoing') \in Nat
<1>1. /\ Len(sent) \in Nat /\ Len(outgoing) \in Nat \ {0}
      /\ outgoing \in Seq(AnyOutgoing) /\ outgoing # << >>
  BY PumpingTyped DEF Deliver
<1>2. /\ outgoing' \in Seq(AnyOutgoing) /\ Len(outgoing') = Len(outgoing) - 1
      /\ \A k \in 1 .. Len(outgoing') : outgoing'[k] = outgoing[k + 1]
  BY <1>1, TailTyped DEF Deliver
<1>3. DOMAIN outgoing' = 1 .. Len(outgoing') /\ DOMAIN outgoing = 1 .. Len(outgoing)
  BY <1>1, <1>2, SeqTyped
<1>4. /\ sent' \in Seq(BOOLEAN) /\ Len(sent') = Len(sent) + 1
      /\ DOMAIN sent' = 1 .. Len(sent) + 1 /\ \A m \in 1 .. Len(sent) : sent'[m] = sent[m]
      /\ sent'[Len(sent) + 1] = Unimpeded(Head(outgoing).request)
  <2> DEFINE e == Unimpeded(Head(outgoing).request)
  <2>1. sent \in Seq(BOOLEAN) /\ e \in BOOLEAN
    BY DEF StackInv, TypesInv, Unimpeded
  <2>2. sent' = Append(sent, e)
    BY Zenon DEF Deliver
  <2> HIDE DEF e
  <2> QED BY <2>1, <2>2, AppendKeeps DEF e
<1>5. Len(sent') \in Nat /\ Len(outgoing') \in Nat
  BY <1>2, <1>4, SeqTyped, Zenon
<1>6. \A k \in DOMAIN outgoing' : k + 1 \in DOMAIN outgoing
  BY <1>1, <1>2, <1>3
<1> QED BY <1>2, <1>3, <1>4, <1>5, <1>6, Zenon

\* The requests still under way keep their numbers.
LEMMA DeliverNumbers ==
    ASSUME StackInv, Deliver, \A i \in DOMAIN Delivered' : Delivered'[i].id <= Len(sent')
    PROVE  NumbersInv'
<1>1. /\ Len(outgoing') = Len(outgoing) - 1 /\ Len(sent') = Len(sent) + 1
      /\ \A k \in DOMAIN outgoing' : k + 1 \in DOMAIN outgoing /\ outgoing'[k] = outgoing[k + 1]
  BY OutgoingShifts
<1>2. Len(sent) \in Nat /\ Len(outgoing) \in Nat \ {0} /\ sendQ' = sendQ /\ posted' = posted
  BY PumpingTyped DEF Deliver
<1>3. Len(sent') + Len(outgoing') = Len(sent) + Len(outgoing)
  BY <1>1, <1>2
<1>4. ASSUME NEW k \in DOMAIN outgoing' PROVE outgoing'[k].request \in Posted(Len(sent') + k)
  <2>1. k + 1 \in DOMAIN outgoing /\ outgoing'[k] = outgoing[k + 1]
    BY <1>1
  <2>2. outgoing[k + 1].request \in Posted(Len(sent) + (k + 1))
    BY <2>1 DEF StackInv, NumbersInv
  <2>3. k \in Int
    <3>1. DOMAIN outgoing' = 1 .. Len(outgoing')
      BY OutgoingShifts, SeqTyped
    <3> QED BY <3>1
  <2>4. Len(sent) + (k + 1) = Len(sent') + k
    BY <1>1, <1>2, <2>3
  <2> QED BY <2>1, <2>2, <2>4
<1>5. posted' = Len(sent') + Len(outgoing') + Len(sendQ')
  BY <1>2, <1>3 DEF StackInv, NumbersInv
<1>6. \A k \in DOMAIN sendQ' : sendQ'[k] \in Posted(Len(sent') + Len(outgoing') + k)
  BY <1>2, <1>3 DEF StackInv, NumbersInv
<1> QED BY <1>4, <1>5, <1>6 DEF NumbersInv

\* Their sequence numbers count from the same start.
LEMMA DeliverEncoded ==
    ASSUME StackInv, Deliver, NEW start \in 1 .. Len(sent) + 1, EncodedSince(start),
           \A i \in DOMAIN Delivered' :
               /\ Delivered'[i].session <= session
               /\ Delivered'[i].session = session =>
                     /\ start <= Delivered'[i].id
                     /\ Delivered'[i].report.sequence = (Delivered'[i].id - start) % SequenceMod
    PROVE  SequenceInv'
<1>1. /\ Len(outgoing') = Len(outgoing) - 1 /\ Len(sent') = Len(sent) + 1
      /\ \A k \in DOMAIN outgoing' : k + 1 \in DOMAIN outgoing /\ outgoing'[k] = outgoing[k + 1]
  BY OutgoingShifts
<1>2. /\ Len(sent) \in Nat /\ Len(outgoing) \in Nat \ {0}
      /\ UNCHANGED <<driver, sequence, session>>
  BY PumpingTyped DEF Deliver
<1>3. Len(sent') + Len(outgoing') = Len(sent) + Len(outgoing) /\ start \in 1 .. Len(sent') + 1
  BY <1>1, <1>2
<1>4. ASSUME NEW k \in DOMAIN outgoing'
      PROVE  outgoing'[k].transient
                 = encode_raw(OAM_MODE(outgoing'[k].request.schema_id),
                              (Len(sent') + k - start) % SequenceMod, outgoing'[k].request.payload)
  <2>1. k + 1 \in DOMAIN outgoing /\ outgoing'[k] = outgoing[k + 1]
    BY <1>1
  <2>2. outgoing[k + 1].transient
            = encode_raw(OAM_MODE(outgoing[k + 1].request.schema_id),
                         (Len(sent) + (k + 1) - start) % SequenceMod, outgoing[k + 1].request.payload)
    BY <2>1 DEF EncodedSince
  <2>3. k \in Int
    <3>1. DOMAIN outgoing' = 1 .. Len(outgoing')
      BY OutgoingShifts, SeqTyped
    <3> QED BY <3>1
  <2>4. Len(sent) + (k + 1) - start = Len(sent') + k - start
    BY <1>1, <1>2, <2>3
  <2> QED BY <2>1, <2>2, <2>4
<1>5. sequence' = (Len(sent') + Len(outgoing') + 1 - start) % SequenceMod
  BY <1>2, <1>3 DEF EncodedSince
<1>6. EncodedSince(start)'
  BY <1>2, <1>4, <1>5 DEF EncodedSince, encode_raw
<1> QED BY <1>3, <1>6 DEF SequenceInv

LEMMA DeliverStep == ASSUME StackInv, Deliver PROVE StackInv'
<1> DEFINE n == Len(sent) + 1
           unimpeded == Unimpeded(Head(outgoing).request)
<1>1. PICK start \in 1 .. n, r \in Requests : \E flips, arrived : Turn(start, r, flips, arrived)
  BY DeliverTurns
<1>2. PICK flips, arrived : Turn(start, r, flips, arrived)
  BY <1>1
<1> DEFINE seq == (n - start) % SequenceMod
           request == [id |-> n, schema_id |-> r.schema_id,
                       payload |-> Buffer(r.schema_id, r.bytes, n)]
<1>3. /\ EncodedSince(start) /\ Head(outgoing).request = request
      /\ flips \in SUBSET Exposed(fiber, Received(r.schema_id, r.bytes, n, {}))
      /\ ArrivesAs(r, n, seq, flips, arrived)
      /\ cq' = IF arrived = << >> THEN cq ELSE push(cq, arrived[1])
  BY <1>2, Zenon DEF Turn
<1>4. /\ Len(sent) \in Nat /\ n \in 1 .. MaxPosts /\ fiber \in Fibers /\ session \in Nat
      /\ driver["tx"] \in LatchedBy("tx") /\ driver["rx"] \in LatchedBy("rx")
  BY PumpingTyped DEF Deliver
<1>5. seq \in 0 .. SequenceMod - 1
  <2> HIDE DEF n
  <2>1. n \in Nat
    BY <1>4
  <2> QED BY <2>1, SequenceTyped, Zenon
<1>6. /\ polled' = polled
      /\ sent \in Seq(BOOLEAN) /\ polled \in Seq(Completion) /\ cq \in Seq(Completion)
      /\ Len(cq) <= CqCapacity
      /\ UNCHANGED <<fiber, rf, driver, sequence, session, sendQ, posted, polled>>
  BY DEF Deliver, StackInv, TypesInv
<1>7. /\ request.schema_id = r.schema_id /\ request.payload.bytes = r.bytes
  BY BufferIs DEF Received
<1>8. unimpeded <=> /\ r.bytes = payload_bytes(r.schema_id) /\ fiber.noise = {}
                    /\ driver["tx"].wavelength = driver["rx"].wavelength
  BY <1>3, <1>7 DEF Unimpeded, Sized
<1> HIDE DEF n, seq, request, unimpeded
<1>9. /\ arrived # << >> =>
            /\ arrived[1] \in Completion /\ arrived[1].id = n
            /\ arrived[1].report.sequence = seq /\ arrived[1].session = session
      /\ r.bytes = payload_bytes(r.schema_id) /\ fiber.noise = {}
            /\ driver["tx"].wavelength = driver["rx"].wavelength => arrived # << >>
  <2>1. Completes(r, n, seq, arrived)
    BY <1>3, <1>4, <1>5, ArrivalCompletes, Zenon
  <2> QED BY <2>1 DEF Completes
<1>10. /\ outgoing' \in Seq(AnyOutgoing) /\ sent' \in Seq(BOOLEAN) /\ Len(sent') = Len(sent) + 1
       /\ DOMAIN sent' = 1 .. Len(sent) + 1 /\ \A m \in 1 .. Len(sent) : sent'[m] = sent[m]
       /\ sent'[Len(sent) + 1] = unimpeded
  BY OutgoingShifts, Zenon DEF unimpeded
<1>11. DriversInv'
  BY <1>6 DEF StackInv, DriversInv, Pumping, Deliver
<1>12. \A k \in DOMAIN Delivered :
           /\ Delivered[k].id \in Nat /\ Delivered[k].id <= Len(sent)
           /\ Delivered[k].session <= session
           /\ Delivered[k].session = session =>
                 /\ start <= Delivered[k].id
                 /\ Delivered[k].report.sequence = (Delivered[k].id - start) % SequenceMod
  BY <1>3, DeliveredTyped, CompletionTyped DEF StackInv, NumbersInv, EncodedSince
<1>13. CASE arrived = << >>
  <2>1. cq' = cq /\ Delivered' = Delivered
    BY <1>3, <1>6, <1>13 DEF Delivered
  <2>2. TypesInv'
    BY <1>6, <1>10, <2>1 DEF StackInv, TypesInv
  <2>3. NumbersInv'
    BY <1>4, <1>10, <1>12, <2>1, DeliverNumbers
  <2>4. SequenceInv'
    BY <1>3, <1>12, <2>1, DeliverEncoded DEF n
  <2>5. CompletedInOrder' /\ SequenceCountsLosses'
    BY <2>1 DEF StackInv, CompletedInOrder, SequenceCountsLosses
  <2>6. LossInv'
    <3>1. ~unimpeded
      BY <1>8, <1>9, <1>13
    <3>2. DOMAIN sent = 1 .. Len(sent)
      BY <1>6, SeqTyped, Zenon
    <3>3. \A k \in 1 .. Len(sent) + 1 : k # Len(sent) + 1 => k \in 1 .. Len(sent)
      BY <1>4
    <3>4. \A m \in DOMAIN sent' : sent'[m] => m \in DOMAIN sent /\ sent[m]
      BY <1>10, <3>1, <3>2, <3>3, Zenon
    <3> QED BY <2>1, <3>4 DEF StackInv, LossInv, LossFrom
  <2> QED BY <1>11, <2>2, <2>3, <2>4, <2>5, <2>6 DEF StackInv
<1>14. CASE arrived # << >>
  <2> DEFINE c == arrived[1]
  <2>1. /\ c \in Completion /\ c.id = n /\ c.report.sequence = seq /\ c.session = session
        /\ cq' = push(cq, c)
    BY <1>3, <1>9, <1>14
  <2> HIDE DEF c
  <2>2. /\ push(cq, c) \in Seq(Completion) /\ Len(push(cq, c)) <= CqCapacity
        /\ polled \o push(cq, c) \in Seq(Completion)
        /\ \/ Grown(polled \o cq, polled \o push(cq, c), c)
           \/ Rolled(polled \o cq, polled \o push(cq, c), Len(polled \o cq) - CqCapacity + 1, c)
    BY <1>6, <2>1, PushShape, Zenon
  <2>3. /\ Delivered = polled \o cq /\ Delivered' = polled \o push(cq, c)
        /\ LossFrom = Len(polled \o cq) - CqCapacity + 1
    BY <1>6, <2>1 DEF Delivered, LossFrom
  <2>4. /\ Delivered' \in Seq(Completion) /\ Delivered \in Seq(Completion)
        /\ \/ Grown(Delivered, Delivered', c)
           \/ Rolled(Delivered, Delivered', LossFrom, c)
    <3>1. Delivered \in Seq(Completion)
      BY DeliveredTyped DEF StackInv
    <3> QED BY <2>2, <2>3, <3>1, Zenon
  <2>5. OldOrNew(Delivered, Delivered', c) /\ PairsOldOrNew(Delivered, Delivered', c)
    BY <2>4, PushKeepsOrder, Zenon
  <2>6. TypesInv'
    BY <1>6, <1>10, <2>1, <2>2 DEF StackInv, TypesInv
  <2>7. \A i \in DOMAIN Delivered' :
            Delivered'[i] = c \/ \E k \in DOMAIN Delivered : Delivered'[i] = Delivered[k]
    BY <2>5 DEF OldOrNew
  <2>8. NumbersInv'
    <3>1. \A k \in DOMAIN Delivered : Delivered[k].id <= Len(sent')
      BY <1>4, <1>10, <1>12
    <3>2. c.id <= Len(sent')
      BY <1>4, <1>10, <2>1 DEF n
    <3>3. \A i \in DOMAIN Delivered' : Delivered'[i].id <= Len(sent')
      BY <2>7, <3>1, <3>2, Zenon
    <3> QED BY <3>3, DeliverNumbers
  <2>9. c.id = Len(sent) + 1 /\ NumberedFrom(start, c)
    <3>1. start <= c.id
      BY <1>4, <2>1
    <3> QED BY <2>1, <3>1, Zenon DEF n, seq, NumberedFrom
  <2>10. SequenceInv'
    <3>1. c.session <= session
      BY <1>4, <2>1
    <3>2. \A i \in DOMAIN Delivered' :
              /\ Delivered'[i].session <= session
              /\ Delivered'[i].session = session =>
                    /\ start <= Delivered'[i].id
                    /\ Delivered'[i].report.sequence = (Delivered'[i].id - start) % SequenceMod
      BY <1>12, <2>7, <2>9, <3>1, Zenon DEF NumberedFrom
    <3> QED BY <1>3, <3>2, DeliverEncoded DEF n
  <2>11. CompletedInOrder'
    BY <2>1, <2>5, <2>9, OrderAfterPush, Zenon
  <2>12. SequenceCountsLosses'
    BY <1>3, <2>1, <2>5, <2>9, SequenceAfterPush, Zenon DEF n
  <2>13. LossInv'
    BY <1>10, <2>1, <2>4, <2>9, LossAfterPush, Zenon
  <2> QED BY <1>11, <2>6, <2>8, <2>10, <2>11, <2>12, <2>13 DEF StackInv
<1> QED BY <1>13, <1>14

LEMMA StackNext == StackInv /\ [Next]_vars => StackInv'
<1> SUFFICES ASSUME StackInv, [Next]_vars PROVE StackInv'
  OBVIOUS
<1>1. ASSUME NEW e \in Ends, NEW setting \in Settings[e], Arm(e, setting) PROVE StackInv'
  BY <1>1, ArmStep
<1>2. ASSUME NEW e \in Ends, refresh_from_csr(e) PROVE StackInv'
  BY <1>2, RefreshStep
<1>3. ASSUME NEW r \in Requests, Post(r.schema_id, r.payload_len, r.bytes) PROVE StackInv'
  BY <1>3, PostStep
<1>4. CASE transmit_pending
  BY <1>4, TransmitStep
<1>5. CASE Deliver
  BY <1>5, DeliverStep
<1>6. CASE Poll
  BY <1>6, PollStep
<1>7. CASE UNCHANGED vars
  BY <1>7, StutterStep
<1> QED BY <1>1, <1>2, <1>3, <1>4, <1>5, <1>6, <1>7, Zenon DEF Next, Pump

LEMMA StackInvariant == Spec => []StackInv
<1>1. Init => StackInv
  BY StackInit
<1>2. StackInv /\ [Next]_vars => StackInv'
  BY StackNext
<1> QED BY <1>1, <1>2, PTL DEF Spec

-----------------------------------------------------------------------------
(* The properties of the gateways *)

\* Whatever the settings, the fiber and the bounds, completions come out in
\* posting order and none twice: across rebuilt drivers (refresh_from_csr), lost
\* Transients and the overflow of CompletionQueue::push.
THEOREM InOrder == Spec => []CompletedInOrder
<1>1. StackInv => CompletedInOrder
  BY DEF StackInv
<1> QED BY <1>1, StackInvariant, PTL

\* Under trajectory matching, auth_ok of a report means that both gateways had the
\* same secret and that the fiber changed no byte, given that the HMAC is ideal
\* (Decoder::decode, verify_trajectory).
THEOREM Vouches == Spec => []AuthVouches
<1>1. StackInv => AuthVouches
  <2> SUFFICES ASSUME StackInv, NEW c \in Range(Delivered) PROVE Vouched(c)
    BY DEF AuthVouches, Vouched
  <2>1. c \in Completion
    BY DeliveredTyped DEF StackInv, Range
  <2> QED BY <2>1, CompletionTyped
<1> QED BY <1>1, StackInvariant, PTL

\* The sequence numbers encode_raw gives count the requests between two
\* completions of a session, modulo the width of the counter: transmit_pending
\* numbers requests in posting order, and refresh_from_csr starts a new session.
THEOREM CountsLosses == Spec => []SequenceCountsLosses
<1>1. StackInv => SequenceCountsLosses
  BY DEF StackInv
<1> QED BY <1>1, StackInvariant, PTL

\* A value any_decode returns has the posted value in every field whose bytes
\* arrived unchanged, and in no other.
THEOREM Fieldwise == Spec => []DecodesFieldwise
<1>1. StackInv => DecodesFieldwise
  <2> SUFFICES ASSUME StackInv, NEW c \in Range(Delivered),
                      NEW f \in Fields(c.report.value.schema)
               PROVE  c.report.value.fields[f] = c.id
                          <=> Untouched(c.report.value.schema, f, c.flipped)
    BY Zenon DEF DecodesFieldwise, Untouched
  <2>1. c \in Completion
    BY DeliveredTyped DEF StackInv, Range
  <2>2. DecodedFrom(c.report.value, c.id, c.flipped)
    BY <2>1, CompletionTyped
  <2> QED BY <2>2 DEF DecodedFrom
<1> QED BY <1>1, StackInvariant, PTL

\* A request of the right size on a noiseless fiber between gateways of one
\* wavelength is lost only when CompletionQueue::push dropped it: a full queue of
\* later requests completed.
THEOREM OnlyOverflowLoses == Spec => []LossIsOverflow
<1>1. StackInv => LossIsOverflow
  <2> SUFFICES ASSUME StackInv, NEW n \in DOMAIN sent, sent[n],
                      \A c \in Range(Delivered) : c.id # n
               PROVE  /\ Len(Delivered) >= CqCapacity
                      /\ \A i \in LossFrom .. Len(Delivered) : Delivered[i].id > n
    BY DEF LossIsOverflow, LossFrom
  <2>1. /\ Len(Delivered) \in Nat /\ DOMAIN Delivered = 1 .. Len(Delivered)
        /\ \A i \in DOMAIN Delivered : Delivered[i].id \in Nat
    BY DeliveredTyped, CompletionTyped DEF StackInv
  <2>2. CqCapacity \in Nat \ {0} /\ LossFrom = Len(Delivered) - CqCapacity + 1
    BY CapacitiesPositive DEF LossFrom
  <2>3. n \in Nat
    <3>1. sent \in Seq(BOOLEAN)
      BY DEF StackInv, TypesInv
    <3>2. DOMAIN sent = 1 .. Len(sent) /\ Len(sent) \in Nat
      BY <3>1, SeqTyped
    <3> QED BY <3>2
  <2>4. LossFrom >= 1 /\ Delivered[LossFrom].id > n
    BY DEF StackInv, LossInv, Range
  <2>5. LossFrom \in DOMAIN Delivered /\ LossFrom \in Nat /\ Len(Delivered) >= CqCapacity
    BY <2>1, <2>2, <2>4
  <2>6. ASSUME NEW i \in LossFrom .. Len(Delivered) PROVE Delivered[i].id > n
    <3>1. i \in DOMAIN Delivered /\ (i = LossFrom \/ LossFrom < i)
      BY <2>1, <2>5
    <3>2. LossFrom < i => Delivered[LossFrom].id < Delivered[i].id
      BY <2>5, <3>1 DEF StackInv, CompletedInOrder
    <3>3. Delivered[i].id \in Nat /\ Delivered[LossFrom].id \in Nat
      BY <2>1, <2>5, <3>1, Zenon
    <3>4. \A x, y \in Nat : x < y /\ x > n => y > n
      BY <2>3
    <3> QED BY <2>4, <3>1, <3>2, <3>3, <3>4, Zenon
  <2> QED BY <2>5, <2>6
<1> QED BY <1>1, StackInvariant, PTL

=============================================================================
