------------------------------ MODULE FlrProofs ------------------------------
(***************************************************************************)
(* The federated registry beyond its leases, in two parts: the schema      *)
(* registry, for any sets of schemas, OAM modes and versions, with a       *)
(* gateway that is programmed from it, for any settings, any key order and *)
(* any payload sizes the registry may list; and the federation manager,    *)
(* for every set of peers.                                                 *)
(***************************************************************************)
EXTENDS ObgProvisioning, GatewayProofs, Federation, TLAPS

-----------------------------------------------------------------------------
(* The schema registry and the gateway *)

\* The fields of a stored schema.
LEMMA SchemaFields ==
    ASSUME NEW s \in Schema \union {NoSchema}, s.status # "NONE"
    PROVE  s \in Schema /\ s.status \in Statuses /\ s.oam \in Oams /\ s.version \in Versions
BY DEF Schema, NoSchema, Statuses

LEMMA StoredIsNotNone ==
    ASSUME NEW s \in Schema \union {NoSchema}, s # NoSchema
    PROVE  s.status # "NONE"
BY DEF Schema, NoSchema, Statuses

\* What one update that stays on its mode changes, field by field.
LEMMA UpdateEffect ==
    ASSUME TypeOK, NEW id \in SchemaIds, NEW s \in Schema,
           s.oam = schemas[id].oam, UpdateSchema(id, s)
    PROVE  /\ schemas[id].oam \in Oams
           /\ schemas'[id] = s
           /\ \A j \in SchemaIds \ {id} : schemas'[j] = schemas[j]
           /\ schemas' \in [SchemaIds -> Schema \union {NoSchema}]
BY DEF UpdateSchema, TypeOK, Schema

\* The record the engine writes back is a schema of the same mode.
LEMMA WithStatusType ==
    ASSUME TypeOK, NEW id \in SchemaIds, schemas[id] # NoSchema, NEW st \in Statuses
    PROVE  /\ WithStatus(id, st) \in Schema
           /\ WithStatus(id, st).oam = schemas[id].oam
           /\ WithStatus(id, st).status = st
<1>1. schemas[id].oam \in Oams /\ schemas[id].version \in Versions
    BY SchemaFields, StoredIsNotNone DEF TypeOK
<1> QED BY <1>1 DEF WithStatus, Schema

\* Creating a schema keeps types and index.
LEMMA CreateStep ==
    ASSUME TypeOK, IndexExact, NEW id \in SchemaIds, NEW s \in Schema, CreateSchema(id, s)
    PROVE  TypeOK' /\ IndexExact'
<1>1. s.oam \in Oams /\ s.status # "NONE"
    BY DEF Schema, Statuses
<1>2. schemas[id].status = "NONE"
    BY DEF CreateSchema, NoSchema
<1>3. /\ schemas'[id] = s /\ \A j \in SchemaIds \ {id} : schemas'[j] = schemas[j]
      /\ schemas' \in [SchemaIds -> Schema \union {NoSchema}]
    BY DEF CreateSchema, TypeOK
<1>4. oamIdx' \in [Oams -> SchemaIds \union {NoId}]
    BY <1>1 DEF CreateSchema, TypeOK
<1>5. \A o \in Oams : oamIdx[o] # id
    BY <1>2, NoIdIsNoSchema DEF IndexExact
<1>6. CASE s.status = "ACTIVE"
    <2>1. oamIdx'[s.oam] = id /\ \A o \in Oams \ {s.oam} : oamIdx'[o] = oamIdx[o]
        BY <1>1, <1>6 DEF CreateSchema, TypeOK
    <2>2. ASSUME NEW j \in SchemaIds, schemas[j].status = "ACTIVE"
          PROVE  schemas[j].oam # s.oam
        BY <1>6, <2>2 DEF CreateSchema, Occupants, IndexExact
    <2>3. ASSUME NEW j \in SchemaIds, schemas'[j].status = "ACTIVE"
          PROVE  oamIdx'[schemas'[j].oam] = j
        <3>1. CASE j = id
            BY <1>3, <2>1, <3>1
        <3>2. CASE j # id
            <4>1. schemas'[j] = schemas[j] /\ schemas[j].oam # s.oam
                BY <1>3, <2>2, <2>3, <3>2
            <4>2. schemas[j].oam \in Oams
                BY <2>3, <4>1, SchemaFields DEF TypeOK
            <4> QED BY <2>1, <2>3, <4>1, <4>2 DEF IndexExact
        <3> QED BY <3>1, <3>2
    <2>4. ASSUME NEW o \in Oams, oamIdx'[o] # NoId
          PROVE  schemas'[oamIdx'[o]].status = "ACTIVE" /\ schemas'[oamIdx'[o]].oam = o
        <3>1. CASE o = s.oam
            BY <1>3, <1>6, <2>1, <3>1
        <3>2. CASE o # s.oam
            <4>1. oamIdx'[o] = oamIdx[o] /\ oamIdx[o] \in SchemaIds \ {id}
                BY <1>5, <2>1, <2>4, <3>2 DEF TypeOK
            <4> QED BY <1>3, <2>4, <4>1 DEF IndexExact
        <3> QED BY <3>1, <3>2
    <2> QED BY <1>3, <1>4, <2>3, <2>4 DEF TypeOK, IndexExact
<1>7. CASE s.status # "ACTIVE"
    <2>1. oamIdx' = oamIdx
        BY <1>7 DEF CreateSchema
    <2>2. \A o \in Oams : oamIdx[o] # NoId => oamIdx[o] \in SchemaIds \ {id}
        BY <1>5 DEF TypeOK
    <2> QED BY <1>3, <1>4, <1>7, <2>1, <2>2 DEF TypeOK, IndexExact
<1> QED BY <1>6, <1>7

\* An update that stays on its mode keeps types and index.
LEMMA UpdateStep ==
    ASSUME TypeOK, IndexExact, NEW id \in SchemaIds, NEW s \in Schema,
           s.oam = schemas[id].oam, UpdateSchema(id, s)
    PROVE  TypeOK' /\ IndexExact'
<1> DEFINE so == schemas[id].oam
           st == s.status
<1>1. /\ so \in Oams /\ schemas'[id].status = st /\ schemas'[id].oam = so
      /\ \A j \in SchemaIds \ {id} : schemas'[j] = schemas[j]
      /\ schemas' \in [SchemaIds -> Schema \union {NoSchema}]
    BY UpdateEffect
<1>2. /\ \A o \in Oams \ {so} : oamIdx'[o] = oamIdx[o]
      /\ oamIdx' \in [Oams -> SchemaIds \union {NoId}]
    BY <1>1 DEF UpdateSchema, TypeOK
<1>3. \A o \in Oams \ {so} : oamIdx[o] # NoId => oamIdx[o] \in SchemaIds \ {id}
    BY DEF TypeOK, IndexExact
<1>4. \A j \in SchemaIds : schemas[j].status = "ACTIVE" => schemas[j].oam \in Oams
    BY SchemaFields DEF TypeOK
<1>5. CASE schemas[id].status = "ACTIVE" /\ st # "ACTIVE"
    <2>1. oamIdx'[so] = NoId /\ oamIdx[so] = id
        BY <1>1, <1>5 DEF UpdateSchema, TypeOK, IndexExact
    <2>2. \A j \in SchemaIds \ {id} : schemas[j].status = "ACTIVE" => schemas[j].oam # so
        BY <2>1 DEF IndexExact
    <2> QED BY <1>1, <1>2, <1>3, <1>4, <1>5, <2>1, <2>2 DEF TypeOK, IndexExact
<1>6. CASE schemas[id].status # "ACTIVE" /\ st = "ACTIVE"
    <2>1. oamIdx'[so] = id /\ Occupants(so) \subseteq {id}
        BY <1>1, <1>6 DEF UpdateSchema, TypeOK
    <2>2. \A j \in SchemaIds \ {id} : schemas[j].status = "ACTIVE" => schemas[j].oam # so
        BY <2>1 DEF IndexExact, Occupants
    <2> QED BY <1>1, <1>2, <1>3, <1>4, <1>6, <2>1, <2>2 DEF TypeOK, IndexExact
<1>7. CASE (schemas[id].status = "ACTIVE") <=> (st = "ACTIVE")
    <2>1. oamIdx' = oamIdx
        BY <1>1, <1>7 DEF UpdateSchema, TypeOK
    <2>2. \A o \in Oams : oamIdx[o] # NoId => oamIdx[o] \in SchemaIds
        BY DEF TypeOK
    <2> QED BY <1>1, <1>2, <1>7, <2>1, <2>2 DEF TypeOK, IndexExact
<1> QED BY <1>5, <1>6, <1>7

\* A deletion keeps types and index.
LEMMA DeleteStep ==
    ASSUME TypeOK, IndexExact, NEW id \in SchemaIds, DeleteSchema(id)
    PROVE  TypeOK' /\ IndexExact'
<1> DEFINE so == schemas[id].oam
<1>1. so \in Oams
    BY SchemaFields, StoredIsNotNone DEF DeleteSchema, TypeOK
<1>2. /\ schemas'[id].status = "NONE"
      /\ \A j \in SchemaIds \ {id} : schemas'[j] = schemas[j]
      /\ schemas' \in [SchemaIds -> Schema \union {NoSchema}]
    BY DEF DeleteSchema, TypeOK, NoSchema
<1>3. /\ oamIdx' \in [Oams -> SchemaIds \union {NoId}]
      /\ oamIdx'[so] = IF oamIdx[so] = id THEN NoId ELSE oamIdx[so]
      /\ \A o \in Oams \ {so} : oamIdx'[o] = oamIdx[o]
    BY <1>1 DEF DeleteSchema, TypeOK
<1>4. \A o \in Oams \ {so} : oamIdx[o] # id
    BY NoIdIsNoSchema DEF IndexExact
<1>5. ASSUME NEW o \in Oams, oamIdx'[o] # NoId
      PROVE  schemas'[oamIdx'[o]].status = "ACTIVE" /\ schemas'[oamIdx'[o]].oam = o
    <2>1. oamIdx'[o] = oamIdx[o] /\ oamIdx[o] \in SchemaIds \ {id}
        BY <1>3, <1>4, <1>5 DEF TypeOK
    <2> QED BY <1>2, <1>5, <2>1 DEF IndexExact
<1>6. ASSUME NEW j \in SchemaIds, schemas'[j].status = "ACTIVE"
      PROVE  oamIdx'[schemas'[j].oam] = j
    <2>1. j # id /\ schemas'[j] = schemas[j]
        BY <1>2, <1>6
    <2>2. schemas[j].oam \in Oams /\ oamIdx[schemas[j].oam] = j
        BY <1>6, <2>1, SchemaFields DEF TypeOK, IndexExact
    <2> QED BY <1>3, <2>1, <2>2
<1> QED BY <1>2, <1>3, <1>5, <1>6 DEF TypeOK, IndexExact

\* So every operation does: those of the engine, and those of any other caller
\* that keeps a schema on its mode.
LEMMA IndexStep ==
    TypeOK /\ IndexExact /\ [Next]_schemaVars => (TypeOK /\ IndexExact)'
<1> SUFFICES ASSUME TypeOK, IndexExact, [Next]_schemaVars
             PROVE  (TypeOK /\ IndexExact)'
    OBVIOUS
<1>1. ASSUME NEW id \in SchemaIds, NEW o \in Oams, NEW v \in Versions,
             NEW st \in Statuses \union {"UNSPECIFIED"}, RegisterSchema(id, o, v, st)
      PROVE  (TypeOK /\ IndexExact)'
    <2>1. [status  |-> IF st = "UNSPECIFIED" THEN "ACTIVE" ELSE st,
           oam |-> o, version |-> v] \in Schema
        BY DEF Schema, Statuses
    <2> QED BY <1>1, <2>1, CreateStep DEF RegisterSchema
<1>2. ASSUME NEW id \in SchemaIds, DeprecateSchema(id) \/ RevokeSchema(id)
      PROVE  (TypeOK /\ IndexExact)'
    BY <1>2, UpdateStep, WithStatusType DEF DeprecateSchema, RevokeSchema, Statuses
<1>3. CASE StoreNext
    BY <1>3, CreateStep, UpdateStep, DeleteStep DEF StoreNext
<1>4. CASE UNCHANGED schemaVars
    BY <1>4 DEF schemaVars, TypeOK, IndexExact
<1> QED BY <1>1, <1>2, <1>3, <1>4 DEF Next, EngineNext

LEMMA IndexInit == Init => TypeOK /\ IndexExact
BY DEF Init, TypeOK, IndexExact, NoSchema

\* The store keeps its records and its index well-typed and exact, for the
\* engine and for any other caller that keeps a schema on its mode.
THEOREM IndexCorrect == Spec => [](TypeOK /\ IndexExact)
BY IndexInit, IndexStep, PTL DEF Spec

\* At most one schema of an OAM mode is ACTIVE: two would both be the one the
\* mode's index entry names.
THEOREM OneActive == Spec => []OneActivePerOam
<1>1. IndexExact => OneActivePerOam
    BY DEF IndexExact, OneActivePerOam
<1> QED BY <1>1, IndexCorrect, PTL

-----------------------------------------------------------------------------
(* The gateway *)

\* The built-in schemas have handles and sizes the tables can hold, and no two
\* of them share a handle.
LEMMA LocalSchemas ==
    ASSUME NEW o \in LocalOams
    PROVE  /\ o \in Charges /\ o # 16 /\ o # -16
           /\ csr_handle(o) \in Handles /\ csr_handle(o) \in Byte /\ csr_handle(o) # 0
           /\ LocalBytes(o) \in Half
           /\ \A p \in LocalOams : csr_handle(p) = csr_handle(o) => p = o
<1>1. csr_handle(1) = 1 /\ LocalBytes(1) = 256
    BY DEF csr_handle, LocalBytes
<1>2. csr_handle(3) = 2 /\ LocalBytes(3) = 64
    BY DEF csr_handle, LocalBytes
<1>3. csr_handle(4) = 3 /\ LocalBytes(4) = 32
    BY DEF csr_handle, LocalBytes
<1> QED BY <1>1, <1>2, <1>3, SMT
        DEF LocalOams, Charges, Handles, SCHEMA_TABLE_ENTRIES, Byte, Half

\* The two writes of one turn of the loop change the entry of the mode and the
\* size of its handle, and nothing else in the tables.
LEMMA TurnWrites ==
    ASSUME NEW regs \in RegisterFile, NEW o \in LocalOams
    PROVE  LET after == set_oam_to_schema(
                            set_schema_payload(regs, csr_handle(o), LocalBytes(o)),
                            o, csr_handle(o))
           IN  /\ after \in RegisterFile
               /\ \A c \in Charges :
                     schema_id_for_oam(after, c)
                         = IF c = o THEN csr_handle(o) ELSE schema_id_for_oam(regs, c)
               /\ \A h \in Handles :
                     schema_payload_bytes(after, h)
                         = IF h = csr_handle(o) THEN LocalBytes(o) ELSE schema_payload_bytes(regs, h)
<1> DEFINE sized == set_schema_payload(regs, csr_handle(o), LocalBytes(o))
           after == set_oam_to_schema(sized, o, csr_handle(o))
<1>1. /\ o \in Charges /\ csr_handle(o) \in Handles /\ csr_handle(o) \in Byte
      /\ LocalBytes(o) \in Half
    BY LocalSchemas
<1>2. /\ sized \in RegisterFile
      /\ \A h \in Handles :
            schema_payload_bytes(sized, h)
                = IF h = csr_handle(o) THEN LocalBytes(o) ELSE schema_payload_bytes(regs, h)
      /\ \A c \in Charges : schema_id_for_oam(sized, c) = schema_id_for_oam(regs, c)
    BY <1>1, PayloadTableExact
<1> HIDE DEF sized
<1>3. /\ after \in RegisterFile
      /\ \A c \in Charges :
            schema_id_for_oam(after, c)
                = IF c = o THEN csr_handle(o) ELSE schema_id_for_oam(sized, c)
      /\ \A h \in Handles : schema_payload_bytes(after, h) = schema_payload_bytes(sized, h)
    BY <1>1, <1>2, OamTableExact
<1> HIDE DEF after
<1>4. after = set_oam_to_schema(set_schema_payload(regs, csr_handle(o), LocalBytes(o)),
                                o, csr_handle(o))
    BY DEF after, sized
<1> QED BY <1>2, <1>3, <1>4, Zenon

\* A mode that the tables bind as the gateway was built, after the registry
\* published a schema for it.
Wired(o) ==
    /\ o \in LocalOams /\ o \in published
    /\ schema_id_for_oam(rf, o) = csr_handle(o)
    /\ schema_payload_bytes(rf, csr_handle(o)) = LocalBytes(o)

\* The inductive invariant.  An answer may be stale by the time it is mapped,
\* so what ties it to the registry is the history of published modes.
ObgInv ==
    /\ TypeOK /\ IndexExact
    /\ rf \in RegisterFile
    /\ \A o \in Charges : schema_id_for_oam(rf, o) # 0 => Wired(o)
    /\ \A id \in SchemaIds : schemas[id].status = "ACTIVE" => schemas[id].oam \in published
    /\ \A entry \in fetched : entry.oam \in published

LEMMA ObgInvInit == ObgInit => ObgInv
<1> SUFFICES ASSUME ObgInit PROVE ObgInv
    OBVIOUS
<1>1. TypeOK /\ IndexExact
    BY IndexInit DEF ObgInit
<1>2. rf \in RegisterFile
    BY DEF ObgInit, NewRegisterFile, RegisterFile
<1>3. ASSUME NEW o \in Charges PROVE schema_id_for_oam(rf, o) = 0
    <2>1. OamIndex(o) \in 0 .. 32
        BY DEF OamIndex, Charges
    <2>2. rf[OamRegister(OamIndex(o))] = 0
        BY <2>1, OamRegisters DEF ObgInit, NewRegisterFile
    <2>3. BytePlace(OamIndex(o) % 4) \in {1, 256, 65536, 16777216}
        BY DEF BytePlace
    <2> QED BY <2>2, <2>3 DEF schema_id_for_oam, Field
<1>4. \A id \in SchemaIds : schemas[id].status # "ACTIVE"
    BY DEF ObgInit, Init, NoSchema
<1>5. fetched = {}
    BY DEF ObgInit
<1> QED BY <1>1, <1>2, <1>3, <1>4, <1>5 DEF ObgInv

\* What the registry does keeps the modes of its ACTIVE schemas among those
\* published, and touches neither tables nor answer.
LEMMA RegistryKeeps ==
    ASSUME ObgInv, Registry
    PROVE  ObgInv'
<1>1. TypeOK' /\ IndexExact'
    BY IndexStep DEF ObgInv, Registry, Next
<1>2. published \subseteq published'
    BY DEF Registry
<1>3. ASSUME NEW id \in SchemaIds, schemas'[id].status = "ACTIVE"
      PROVE  schemas'[id].oam \in published'
    <2>1. schemas'[id] \in Schema \union {NoSchema}
        BY <1>1 DEF TypeOK
    <2>2. schemas'[id] # NoSchema /\ schemas'[id].oam \in Oams
        BY <1>3, <2>1, SchemaFields DEF NoSchema
    <2> QED BY <1>3, <2>2 DEF Registry
<1>4. rf' = rf /\ fetched' = fetched
    BY DEF Registry, clientVars
<1>5. ASSUME NEW o \in Charges, schema_id_for_oam(rf', o) # 0
      PROVE  Wired(o)'
    BY <1>2, <1>4, <1>5 DEF ObgInv, Wired
<1>6. \A entry \in fetched' : entry.oam \in published'
    BY <1>2, <1>4 DEF ObgInv
<1> QED BY <1>1, <1>3, <1>4, <1>5, <1>6 DEF ObgInv

\* The settings leave the tables alone.
LEMMA ConfigureKeeps ==
    ASSUME ObgInv, NEW config \in Configs, Configure(config),
           UNCHANGED <<schemaVars, published>>
    PROVE  ObgInv'
<1>1. TypeOK' /\ IndexExact' /\ published' = published /\ schemas' = schemas
    BY DEF ObgInv, TypeOK, IndexExact, schemaVars
<1> DEFINE setting == [wavelength |-> config.wavelength, secret |-> config.secret,
                       topological |-> config.topological]
<1>2. setting \in ValidSettings
    BY ConfigsTyped DEF ValidSettings
<1>3. rf' = write_settings(rf, setting) /\ fetched' = fetched
    BY DEF Configure, write_settings
<1> HIDE DEF setting
<1>4. /\ rf' \in RegisterFile
      /\ \A h \in Handles : schema_payload_bytes(rf', h) = schema_payload_bytes(rf, h)
      /\ \A c \in Charges : schema_id_for_oam(rf', c) = schema_id_for_oam(rf, c)
    BY <1>2, <1>3, SettingsReadBack DEF ObgInv
<1>5. ASSUME NEW o \in Charges, schema_id_for_oam(rf', o) # 0
      PROVE  Wired(o)'
    <2>1. Wired(o)
        BY <1>4, <1>5 DEF ObgInv
    <2>2. csr_handle(o) \in Handles
        BY <2>1, LocalSchemas DEF Wired
    <2> QED BY <1>1, <1>4, <2>1, <2>2 DEF Wired
<1> QED BY <1>1, <1>3, <1>4, <1>5 DEF ObgInv

\* A turn that writes wires its mode and leaves the others as they were.
LEMMA WriteKeeps ==
    ASSUME ObgInv, NEW entry \in fetched, WriteEntry(entry),
           UNCHANGED <<schemaVars, published>>
    PROVE  ObgInv'
<1>1. TypeOK' /\ IndexExact' /\ published' = published /\ schemas' = schemas
    BY DEF ObgInv, TypeOK, IndexExact, schemaVars
<1> DEFINE p == entry.oam
<1>2. p \in LocalOams /\ entry.bytes = LocalBytes(p) /\ p \in published
    BY DEF WriteEntry, Known, Mismatched, ObgInv
<1>3. /\ rf' = set_oam_to_schema(set_schema_payload(rf, csr_handle(p), LocalBytes(p)),
                                 p, csr_handle(p))
      /\ fetched' = fetched \ {entry}
    BY <1>2 DEF WriteEntry
<1>4. /\ rf' \in RegisterFile
      /\ \A c \in Charges :
            schema_id_for_oam(rf', c) = IF c = p THEN csr_handle(p) ELSE schema_id_for_oam(rf, c)
      /\ \A h \in Handles :
            schema_payload_bytes(rf', h)
                = IF h = csr_handle(p) THEN LocalBytes(p) ELSE schema_payload_bytes(rf, h)
    <2>1. rf \in RegisterFile
        BY DEF ObgInv
    <2> HIDE DEF p
    <2> QED BY <1>2, <1>3, <2>1, TurnWrites
<1>5. ASSUME NEW o \in Charges, schema_id_for_oam(rf', o) # 0
      PROVE  Wired(o)'
    <2>1. CASE o = p
        <3>1. csr_handle(p) \in Handles
            BY <1>2, LocalSchemas
        <3> QED BY <1>1, <1>2, <1>4, <2>1, <3>1 DEF Wired
    <2>2. CASE o # p
        <3>1. Wired(o)
            BY <1>4, <1>5, <2>2 DEF ObgInv
        <3>2. csr_handle(o) \in Handles /\ csr_handle(o) # csr_handle(p)
            BY <1>2, <2>2, <3>1, LocalSchemas DEF Wired
        <3> QED BY <1>1, <1>4, <2>2, <3>1, <3>2 DEF Wired
    <2> QED BY <2>1, <2>2
<1>6. \A e \in fetched' : e.oam \in published'
    BY <1>1, <1>3 DEF ObgInv
<1> QED BY <1>1, <1>4, <1>5, <1>6 DEF ObgInv

\* The other steps of the client leave the register file as it is, and answers
\* list what is ACTIVE at that moment.
LEMMA RestKeeps ==
    ASSUME ObgInv, UNCHANGED <<schemaVars, published>>, rf' = rf,
           \/ fetched' \subseteq fetched
           \/ fetched' = {Entry(id) : id \in ListActiveSchemas}
    PROVE  ObgInv'
<1>1. TypeOK' /\ IndexExact' /\ published' = published /\ schemas' = schemas
    BY DEF ObgInv, TypeOK, IndexExact, schemaVars
<1>2. \A entry \in fetched' : entry.oam \in published
    BY DEF ObgInv, Entry, ListActiveSchemas
<1>3. \A o \in Charges : schema_id_for_oam(rf', o) # 0 => Wired(o)'
    BY <1>1 DEF ObgInv, Wired
<1> QED BY <1>1, <1>2, <1>3 DEF ObgInv

LEMMA ObgInvNext == ObgInv /\ [ObgNext]_obgVars => ObgInv'
<1> SUFFICES ASSUME ObgInv, [ObgNext]_obgVars PROVE ObgInv'
    OBVIOUS
<1>1. CASE Registry
    BY <1>1, RegistryKeeps
<1>2. CASE Client
    <2> USE <1>2 DEF Client
    <2>1. CASE \E c \in Configs : Configure(c)
        BY <2>1, ConfigureKeeps
    <2>2. CASE list_active_schemas
        BY <2>2, RestKeeps DEF list_active_schemas
    <2>3. CASE ListFails
        BY <2>3, RestKeeps DEF ListFails
    <2>4. CASE MapEntry
        <3>1. PICK entry \in fetched :
                SkipEntry(entry) \/ RefuseEntry(entry) \/ WriteEntry(entry)
            BY <2>4 DEF MapEntry
        <3>2. CASE SkipEntry(entry)
            BY <3>2, RestKeeps DEF SkipEntry
        <3>3. CASE RefuseEntry(entry)
            BY <3>3, RestKeeps DEF RefuseEntry
        <3>4. CASE WriteEntry(entry)
            BY <3>4, WriteKeeps
        <3> QED BY <3>1, <3>2, <3>3, <3>4
    <2>5. CASE AllMapped
        BY <2>5, RestKeeps DEF AllMapped
    <2>6. CASE Stop
        BY <2>6, RestKeeps DEF Stop
    <2> QED BY <2>1, <2>2, <2>3, <2>4, <2>5, <2>6
<1>3. CASE UNCHANGED obgVars
    BY <1>3, RestKeeps DEF obgVars, clientVars
<1> QED BY <1>1, <1>2, <1>3 DEF ObgNext

LEMMA ObgInvariant == ObgSpec => []ObgInv
BY ObgInvInit, ObgInvNext, PTL DEF ObgSpec

\* Whatever a transmitter or receiver finds bound to a mode is the handle the
\* gateway was built with, at its own payload size, however refreshes, failed
\* calls, stale answers and refused schemas followed one another; and mode +16,
\* which the RTL cannot address, is never bound on either view.
THEOREM BoundIsSized == ObgSpec => []BoundHandleIsSized
<1>1. ObgInv => BoundHandleIsSized
    <2> SUFFICES ASSUME ObgInv, NEW o \in Charges
                 PROVE  /\ RtlSchema(rf, o) = schema_id_for_oam(rf, o)
                        /\ Bound(o) =>
                              /\ o \in LocalOams /\ RtlSchema(rf, o) = csr_handle(o)
                              /\ RtlPayload(rf, csr_handle(o)) = LocalBytes(o)
                              /\ schema_payload_bytes(rf, csr_handle(o)) = LocalBytes(o)
        BY DEF BoundHandleIsSized
    <2>1. /\ \A h \in Handles : RtlPayload(rf, h) = schema_payload_bytes(rf, h)
          /\ \A c \in Charges :
                RtlSchema(rf, c) = schema_id_for_oam(rf, IF c = 16 THEN -16 ELSE c)
        BY RtlReadsTheTables DEF ObgInv
    <2>2. -16 \in Charges /\ 16 \in Charges
        BY DEF Charges
    <2>3. schema_id_for_oam(rf, 16) = 0 /\ schema_id_for_oam(rf, -16) = 0
        BY <2>2, LocalSchemas DEF ObgInv, Wired
    <2>4. RtlSchema(rf, o) = schema_id_for_oam(rf, o)
        <3>1. CASE o = 16
            BY <2>1, <2>3, <3>1
        <3>2. CASE o # 16
            BY <2>1, <3>2
        <3> QED BY <3>1, <3>2
    <2>5. ASSUME Bound(o) PROVE Wired(o) /\ csr_handle(o) \in Handles
        BY <2>4, <2>5, LocalSchemas DEF Bound, ObgInv, Wired
    <2> QED BY <2>1, <2>4, <2>5 DEF Wired
<1> QED BY <1>1, ObgInvariant, PTL

\* No mode is bound that the registry never published an ACTIVE schema for.
THEOREM BoundIsPublished == ObgSpec => []BoundWasPublished
<1>1. ObgInv => BoundWasPublished
    <2> SUFFICES ASSUME ObgInv, NEW o \in LocalOams, Bound(o) PROVE o \in published
        BY DEF BoundWasPublished
    <2>1. o \in Charges /\ o # 16
        BY LocalSchemas
    <2>2. RtlSchema(rf, o) = schema_id_for_oam(rf, o)
        BY <2>1, RtlReadsTheTables DEF ObgInv
    <2> QED BY <2>1, <2>2 DEF Bound, ObgInv, Wired
<1> QED BY <1>1, ObgInvariant, PTL

-----------------------------------------------------------------------------
(* The federation manager: stopping, conflict detection, removal, and the
   stored latest commitments *)

Commitment == [gen : Nat, height : Nat]

Task == [peer : Peers, stage : {"start", "fetched", "saved"}, got : Commitment]

Detection == [mine : BOOLEAN, todo : SUBSET Peers, failed : SUBSET Peers,
              reported : SUBSET Peers, steady : SUBSET Peers]

FedTypes ==
    /\ endpoint \in [Peers -> Peers] /\ served \in [Peers -> Commitment]
    /\ claims \in SUBSET Peers /\ local \in BOOLEAN
    /\ operators \in [Peers -> {"absent", "joined", "synced"}]
    /\ stored \in SUBSET Peers /\ latest \in [Peers -> Commitment]
    /\ tasks \in SUBSET Task /\ detect \in Detection

\* The goroutines: StopGossip waits for the loop, the loop for its round, and
\* the round for its syncs, which it starts one per peer.
Waits ==
    /\ gossip = "off" => loop = "exited"
    /\ loop = "exited" => phase = "idle"
    /\ phase # "sync" => tasks = {}
    /\ \A t, u \in tasks : t.peer = u.peer => t = u

\* A peer that stays in conflict has a running lease on each side, and once
\* detection has begun it is still to be asked, did not answer or is reported.
Steady ==
    /\ \A p \in detect.steady : p \in Registered /\ Conflicting(p)
    /\ phase = "detect" =>
           /\ detect.steady # {} => detect.mine
           /\ detect.steady \subseteq detect.todo \union detect.failed \union detect.reported

\* The order of the commitments of one daemon: generation, then height.
UpTo(x, y) == x.gen < y.gen \/ (x.gen = y.gen /\ x.height <= y.height)

OwnEndpoints == \A p, q \in Peers : endpoint[p] = endpoint[q] => p = q

\* What is stored is not newer than what the daemon serves; with an endpoint
\* each, neither is it newer than what a sync is about to store.
Fresh ==
    /\ \A p \in Peers : UpTo(latest[p], served[p])
    /\ \A t \in tasks : t.stage = "fetched" =>
           /\ UpTo(t.got, served[endpoint[t.peer]])
           /\ OwnEndpoints => UpTo(latest[endpoint[t.peer]], t.got)

FedInv == FedTypes /\ Waits /\ Steady /\ Fresh

-----------------------------------------------------------------------------
(* Types *)

LEMMA NoCommitType == NoCommit \in Commitment
BY DEF NoCommit, Commitment

LEMMA NoDetectionType == NoDetection \in Detection
BY DEF NoDetection, Detection

LEMMA FedTypesInit == FedInit => FedTypes
BY EndpointMapsType, NoCommitType, NoDetectionType DEF FedInit, FedTypes

LEMMA FedTypesNext == FedTypes /\ [FedNext]_fedVars => FedTypes'
<1> SUFFICES ASSUME FedTypes, [FedNext]_fedVars PROVE FedTypes'
  OBVIOUS
<1> USE DEF FedTypes, envVars, memVars, roundVars
<1>1. CASE UNCHANGED fedVars
  BY <1>1 DEF fedVars
<1>2. ASSUME NEW p \in Peers, RegisterOperator(p) PROVE FedTypes'
  BY <1>2 DEF RegisterOperator, CreateOperator
<1>3. ASSUME NEW p \in Peers, ApiRegisterOperator(p) PROVE FedTypes'
  BY <1>3 DEF ApiRegisterOperator, CreateOperator
<1>4. ASSUME NEW p \in Peers, RemoveOperator(p) PROVE FedTypes'
  <2>1. detect' \in Detection
    BY <1>4 DEF RemoveOperator, Detection
  <2> QED BY <1>4, <2>1 DEF RemoveOperator
<1>5. CASE RoundStart
  <2>1. Registered \subseteq Peers
    BY DEF Registered
  <2>2. tasks' \in SUBSET Task
    BY <1>5, <2>1, NoCommitType DEF RoundStart, Task
  <2>3. detect' \in Detection
    BY <1>5, <2>1, NoDetectionType DEF RoundStart, Detection
  <2> QED BY <1>5, <2>2, <2>3 DEF RoundStart
<1>6. CASE DetectStart
  <2>1. detect' \in Detection
    BY <1>6 DEF DetectStart, Detection, Registered
  <2> QED BY <1>6, <2>1 DEF DetectStart
<1>7. CASE DetectFails \/ RoundEnd
  BY <1>7, NoDetectionType DEF DetectFails, RoundEnd
<1>8. ASSUME NEW t \in tasks, SyncFetch(t) PROVE FedTypes'
  <2>1. t \in Task /\ GetCommitment(t.peer) \in Commitment
    BY DEF Task, GetCommitment
  <2>2. [t EXCEPT !.stage = "fetched", !.got = GetCommitment(t.peer)] \in Task
    BY <2>1 DEF Task
  <2>3. tasks' \in SUBSET Task
    BY <1>8, <2>2 DEF SyncFetch
  <2> QED BY <1>8, <2>3 DEF SyncFetch
<1>9. ASSUME NEW t \in tasks, SyncSave(t) PROVE FedTypes'
  <2>1. t \in Task /\ t.got \in Commitment /\ endpoint[t.peer] \in Peers
    BY DEF Task
  <2>2. [t EXCEPT !.stage = "saved"] \in Task
    BY <2>1 DEF Task
  <2>3. tasks' \in SUBSET Task
    BY <1>9, <2>2 DEF SyncSave
  <2> QED BY <1>9, <2>1, <2>3 DEF SyncSave
<1>10. ASSUME NEW t \in tasks, SyncFinish(t) PROVE FedTypes'
  <2>1. t.peer \in Peers
    BY DEF Task
  <2> QED BY <1>10, <2>1 DEF SyncFinish
<1>11. ASSUME NEW t \in tasks, SyncFails(t) PROVE FedTypes'
  BY <1>11 DEF SyncFails
<1>12. ASSUME NEW p \in Peers, NEW answers \in BOOLEAN, DetectPeer(p, answers) PROVE FedTypes'
  <2>1. detect' \in Detection
    BY <1>12 DEF DetectPeer, Detection
  <2> QED BY <1>12, <2>1 DEF DetectPeer
<1>13. CASE StartGossip \/ StopGossip \/ LoopExit \/ WaitReturns
  BY <1>13 DEF StartGossip, StopGossip, LoopExit, WaitReturns
<1>14. CASE Restart
  BY <1>14, NoDetectionType DEF Restart
<1>15. ASSUME NEW p \in Peers, PeerCommits(p) PROVE FedTypes'
  <2>1. PICK c \in Commitment : served' = [served EXCEPT ![p] = c]
    <3>1. served[p] \in Commitment /\ served[p].gen \in Nat /\ served[p].height \in Nat
      BY DEF Commitment
    <3>2. CASE served' = [served EXCEPT ![p].height = @ + 1]
      <4>1. [served[p] EXCEPT !.height = served[p].height + 1] \in Commitment
        BY <3>1 DEF Commitment
      <4> QED BY <3>2, <4>1
    <3>3. CASE served' = [served EXCEPT ![p] = [gen |-> @.gen + 1, height |-> 1]]
      <4>1. [gen |-> served[p].gen + 1, height |-> 1] \in Commitment
        BY <3>1 DEF Commitment
      <4> QED BY <3>3, <4>1
    <3> QED BY <1>15, <3>2, <3>3 DEF PeerCommits
  <2> QED BY <1>15, <2>1 DEF PeerCommits
<1>16. ASSUME NEW p \in Peers, PeerLeaseChanges(p) PROVE FedTypes'
  <2>1. detect' \in Detection
    BY <1>16 DEF PeerLeaseChanges, Detection
  <2> QED BY <1>16, <2>1 DEF PeerLeaseChanges
<1>17. CASE LocalLeaseChanges
  <2>1. detect' \in Detection
    BY <1>17 DEF LocalLeaseChanges, Detection
  <2> QED BY <1>17, <2>1 DEF LocalLeaseChanges
<1> QED BY <1>1, <1>2, <1>3, <1>4, <1>5, <1>6, <1>7, <1>8, <1>9, <1>10, <1>11, <1>12, <1>13,
           <1>14, <1>15, <1>16, <1>17 DEF FedNext, Step

-----------------------------------------------------------------------------
(* Waiting for goroutines *)

LEMMA WaitsNext == FedTypes /\ Waits /\ [FedNext]_fedVars => Waits'
<1> SUFFICES ASSUME FedTypes, Waits, [FedNext]_fedVars PROVE Waits'
  OBVIOUS
<1> USE DEF Waits
<1>1. CASE UNCHANGED <<gossip, loop, phase, tasks>>
  BY <1>1
<1>2. CASE RoundStart
  <2>1. /\ gossip' = gossip /\ loop' = loop /\ loop = "alive" /\ phase' = "sync" /\ tasks = {}
        /\ tasks' = {[peer |-> p, stage |-> "start", got |-> NoCommit] : p \in Registered}
    BY <1>2 DEF RoundStart
  <2>2. \A t, u \in tasks' : t.peer = u.peer => t = u
    BY <2>1
  <2> QED BY <2>1, <2>2
<1>3. CASE DetectStart \/ DetectFails \/ RoundEnd
  BY <1>3 DEF DetectStart, DetectFails, RoundEnd
<1>4. ASSUME NEW t \in tasks, SyncFetch(t) \/ SyncSave(t) PROVE Waits'
  <2>1. PICK u : /\ u.peer = t.peer /\ tasks' = (tasks \ {t}) \union {u}
                 /\ UNCHANGED <<gossip, loop, phase>>
    <3>1. t \in Task
      BY DEF FedTypes
    <3>2. CASE SyncFetch(t)
      <4> DEFINE v == [t EXCEPT !.stage = "fetched", !.got = GetCommitment(t.peer)]
      <4>1. v.peer = t.peer
        BY <3>1 DEF Task
      <4> QED BY <3>2, <4>1 DEF SyncFetch
    <3>3. CASE SyncSave(t)
      <4> DEFINE v == [t EXCEPT !.stage = "saved"]
      <4>1. v.peer = t.peer
        BY <3>1 DEF Task
      <4> QED BY <3>3, <4>1 DEF SyncSave
    <3> QED BY <1>4, <3>2, <3>3
  <2>2. \A x, y \in tasks' : x.peer = y.peer => x = y
    BY <2>1
  <2> QED BY <2>1, <2>2
<1>5. ASSUME NEW t \in tasks, SyncFinish(t) \/ SyncFails(t) PROVE Waits'
  BY <1>5 DEF SyncFinish, SyncFails
<1>6. CASE StartGossip \/ StopGossip \/ LoopExit \/ WaitReturns
  BY <1>6 DEF StartGossip, StopGossip, LoopExit, WaitReturns
<1>7. CASE Restart
  BY <1>7 DEF Restart
<1>8. CASE \/ UNCHANGED fedVars
           \/ \E p \in Peers : \/ RegisterOperator(p) \/ ApiRegisterOperator(p)
                               \/ RemoveOperator(p) \/ PeerCommits(p) \/ PeerLeaseChanges(p)
           \/ \E p \in Peers, answers \in BOOLEAN : DetectPeer(p, answers)
           \/ LocalLeaseChanges
  <2>1. UNCHANGED <<gossip, loop, phase, tasks>>
    BY <1>8 DEF fedVars, roundVars, RegisterOperator, ApiRegisterOperator, RemoveOperator,
                PeerCommits, PeerLeaseChanges, DetectPeer, LocalLeaseChanges
  <2> QED BY <1>1, <2>1
<1> QED BY <1>2, <1>3, <1>4, <1>5, <1>6, <1>7, <1>8 DEF FedNext, Step

-----------------------------------------------------------------------------
(* Conflict detection *)

LEMMA SteadyNext == FedTypes /\ Steady /\ [FedNext]_fedVars => Steady'
<1> SUFFICES ASSUME FedTypes, Steady, [FedNext]_fedVars PROVE Steady'
  OBVIOUS
<1>0. detect \in Detection /\ operators \in [Peers -> {"absent", "joined", "synced"}]
      /\ claims \in SUBSET Peers /\ local \in BOOLEAN
  BY DEF FedTypes
<1> USE DEF Steady, envVars, memVars, roundVars
\* A step that leaves the leases alone, removes no peer, and changes neither
\* the round's phase nor what it has found.
<1>1. ASSUME UNCHANGED <<endpoint, claims, local, phase, detect>>, Registered \subseteq Registered'
      PROVE  Steady'
  BY <1>1 DEF Conflicting, findConflicts, GetLeases
<1>2. ASSUME UNCHANGED <<endpoint, claims, local>>, phase' = "idle", detect' = NoDetection
      PROVE  Steady'
  BY <1>2 DEF NoDetection
<1>3. CASE UNCHANGED fedVars
  BY <1>1, <1>3 DEF fedVars, Registered
<1>4. ASSUME NEW p \in Peers, RegisterOperator(p) \/ ApiRegisterOperator(p) PROVE Steady'
  <2>1. Registered \subseteq Registered'
    BY <1>0, <1>4 DEF RegisterOperator, ApiRegisterOperator, Registered
  <2> QED BY <1>1, <1>4, <2>1 DEF RegisterOperator, ApiRegisterOperator
<1>5. ASSUME NEW p \in Peers, RemoveOperator(p) PROVE Steady'
  <2>1. /\ detect'.steady = detect.steady \ {p} /\ detect'.mine = detect.mine
        /\ detect'.todo = detect.todo /\ detect'.failed = detect.failed
        /\ detect'.reported = detect.reported
    BY <1>0, <1>5 DEF RemoveOperator, Detection
  <2>2. UNCHANGED <<endpoint, claims, local, phase>>
    BY <1>5 DEF RemoveOperator
  <2>3. \A q \in Registered : q # p => q \in Registered'
    BY <1>0, <1>5 DEF RemoveOperator, Registered
  <2> QED BY <2>1, <2>2, <2>3 DEF Conflicting, findConflicts, GetLeases
<1>6. CASE RoundStart
  <2>1. /\ phase' = "sync" /\ detect'.steady = {p \in Registered : Conflicting(p)}
        /\ UNCHANGED <<endpoint, claims, local, operators>>
    BY <1>6 DEF RoundStart, NoDetection
  <2> QED BY <2>1 DEF Conflicting, findConflicts, GetLeases, Registered
<1>7. CASE DetectStart
  <2>1. /\ phase' = "detect" /\ detect'.steady = detect.steady /\ detect'.mine = local
        /\ detect'.todo = Registered /\ UNCHANGED <<endpoint, claims, local, operators>>
    BY <1>0, <1>7 DEF DetectStart, Detection
  <2>2. \A p \in detect.steady : p \in Registered /\ local
    BY DEF Conflicting, findConflicts
  <2> QED BY <2>1, <2>2 DEF Conflicting, findConflicts, GetLeases, Registered
<1>8. CASE DetectFails \/ RoundEnd
  BY <1>2, <1>8 DEF DetectFails, RoundEnd
<1>9. ASSUME NEW t \in tasks, Step(t) PROVE Steady'
  <2>1. Registered \subseteq Registered'
    BY <1>0, <1>9 DEF Step, SyncFetch, SyncSave, SyncFinish, SyncFails, Registered
  <2> QED BY <1>1, <1>9, <2>1 DEF Step, SyncFetch, SyncSave, SyncFinish, SyncFails
<1>10. ASSUME NEW p \in Peers, NEW answers \in BOOLEAN, DetectPeer(p, answers) PROVE Steady'
  <2>1. /\ phase = "detect" /\ phase' = phase /\ detect'.steady = detect.steady
        /\ detect'.mine = detect.mine /\ detect'.todo = detect.todo \ {p}
        /\ detect.failed \subseteq detect'.failed /\ detect.reported \subseteq detect'.reported
        /\ ~answers => p \in detect'.failed
        /\ answers /\ findConflicts(detect.mine, p) => p \in detect'.reported
        /\ UNCHANGED <<endpoint, claims, local, operators>>
    BY <1>0, <1>10 DEF DetectPeer, Detection
  <2>2. p \in detect.steady => findConflicts(detect.mine, p)
    BY <2>1 DEF Conflicting, findConflicts
  <2>3. detect'.steady \subseteq detect'.todo \union detect'.failed \union detect'.reported
    BY <2>1, <2>2
  <2> QED BY <2>1, <2>3 DEF Conflicting, findConflicts, GetLeases, Registered
<1>11. CASE StartGossip \/ StopGossip \/ LoopExit \/ WaitReturns
  BY <1>1, <1>11 DEF StartGossip, StopGossip, LoopExit, WaitReturns, Registered
<1>12. CASE Restart
  BY <1>2, <1>12 DEF Restart
<1>13. ASSUME NEW p \in Peers, PeerCommits(p) PROVE Steady'
  BY <1>1, <1>13 DEF PeerCommits, Registered
<1>14. ASSUME NEW p \in Peers, PeerLeaseChanges(p) PROVE Steady'
  <2>1. /\ detect'.steady = detect.steady \ {p} /\ detect'.mine = detect.mine
        /\ detect'.todo = detect.todo /\ detect'.failed = detect.failed
        /\ detect'.reported = detect.reported
    BY <1>0, <1>14 DEF PeerLeaseChanges, Detection
  <2>2. UNCHANGED <<endpoint, local, phase, operators>>
    BY <1>14 DEF PeerLeaseChanges
  <2>3. \A q \in claims : q # p => q \in claims'
    BY <1>0, <1>14 DEF PeerLeaseChanges
  <2> QED BY <2>1, <2>2, <2>3 DEF Conflicting, findConflicts, GetLeases, Registered
<1>15. CASE LocalLeaseChanges
  <2>1. detect'.steady = {}
    BY <1>0, <1>15 DEF LocalLeaseChanges, Detection
  <2> QED BY <2>1
<1> QED BY <1>3, <1>4, <1>5, <1>6, <1>7, <1>8, <1>9, <1>10, <1>11, <1>12, <1>13, <1>14, <1>15
        DEF FedNext

-----------------------------------------------------------------------------
(* Stored commitments *)

LEMMA UpToOrder ==
    /\ \A x \in Commitment : UpTo(x, x)
    /\ \A x, y, z \in Commitment : UpTo(x, y) /\ UpTo(y, z) => UpTo(x, z)
<1>1. ASSUME NEW x \in Commitment PROVE x.gen \in Nat /\ x.height \in Nat
  BY DEF Commitment
<1>2. ASSUME NEW x \in Commitment PROVE UpTo(x, x)
  BY <1>1 DEF UpTo
<1>3. ASSUME NEW x \in Commitment, NEW y \in Commitment, NEW z \in Commitment,
             UpTo(x, y), UpTo(y, z)
      PROVE  UpTo(x, z)
  BY <1>1, <1>3 DEF UpTo
<1> QED BY <1>2, <1>3

LEMMA PeerCommitsUp ==
    ASSUME FedTypes, NEW p \in Peers, PeerCommits(p)
    PROVE  \A q \in Peers : UpTo(served[q], served'[q])
<1>1. /\ served \in [Peers -> Commitment]
      /\ \A q \in Peers : served[q] \in Commitment /\ served[q].gen \in Nat
                          /\ served[q].height \in Nat
  BY DEF FedTypes, Commitment
<1>2. \/ served' = [served EXCEPT ![p].height = @ + 1]
      \/ served' = [served EXCEPT ![p] = [gen |-> @.gen + 1, height |-> 1]]
  BY DEF PeerCommits
<1>3. \A q \in Peers : q # p => served'[q] = served[q]
  BY <1>1, <1>2
<1>4. UpTo(served[p], served'[p])
  <2>1. CASE served' = [served EXCEPT ![p].height = @ + 1]
    <3>1. served'[p].gen = served[p].gen /\ served'[p].height = served[p].height + 1
      BY <1>1, <2>1 DEF Commitment
    <3> QED BY <1>1, <3>1 DEF UpTo
  <2>2. CASE served' = [served EXCEPT ![p] = [gen |-> @.gen + 1, height |-> 1]]
    <3>1. served'[p].gen = served[p].gen + 1
      BY <1>1, <2>2
    <3> QED BY <1>1, <3>1 DEF UpTo
  <2> QED BY <1>2, <2>1, <2>2
<1> QED BY <1>1, <1>3, <1>4, UpToOrder

LEMMA FreshNext ==
    FedTypes /\ FedTypes' /\ Waits /\ Fresh /\ [FedNext]_fedVars => Fresh'
<1> SUFFICES ASSUME FedTypes, FedTypes', Waits, Fresh, [FedNext]_fedVars PROVE Fresh'
  OBVIOUS
<1> USE DEF Fresh, envVars, memVars, roundVars
<1>0. /\ endpoint \in [Peers -> Peers] /\ served \in [Peers -> Commitment]
      /\ latest \in [Peers -> Commitment] /\ tasks \subseteq Task
      /\ \A t \in tasks : t.peer \in Peers /\ t.got \in Commitment
  BY DEF FedTypes, Task
<1>1. ASSUME UNCHANGED <<endpoint, latest, served>>, tasks' \subseteq tasks
      PROVE  Fresh'
  BY <1>1 DEF OwnEndpoints
<1>2. ASSUME NEW p \in Peers, RegisterOperator(p) \/ ApiRegisterOperator(p) \/ RemoveOperator(p)
      PROVE  Fresh'
  BY <1>1, <1>2 DEF RegisterOperator, ApiRegisterOperator, RemoveOperator
<1>3. CASE RoundStart
  <2>1. /\ UNCHANGED <<endpoint, latest, served>>
        /\ \A t \in tasks' : t \in tasks \/ t.stage = "start"
    BY <1>3 DEF RoundStart
  <2> QED BY <2>1 DEF OwnEndpoints
<1>4. CASE DetectStart \/ DetectFails \/ RoundEnd
  BY <1>1, <1>4 DEF DetectStart, DetectFails, RoundEnd
<1>5. ASSUME NEW t \in tasks, SyncFetch(t) PROVE Fresh'
  <2> DEFINE u == [t EXCEPT !.stage = "fetched", !.got = GetCommitment(t.peer)]
  <2>1. UNCHANGED <<endpoint, latest, served>> /\ tasks' = (tasks \ {t}) \union {u}
    BY <1>5 DEF SyncFetch
  <2>2. u.peer = t.peer /\ u.got = served[endpoint[t.peer]]
    BY <1>0 DEF Task, GetCommitment
  <2>3. UpTo(u.got, served[endpoint[u.peer]]) /\ UpTo(latest[endpoint[u.peer]], u.got)
    BY <1>0, <2>2, UpToOrder
  <2> HIDE DEF u
  <2> QED BY <2>1, <2>3 DEF OwnEndpoints
<1>6. ASSUME NEW t \in tasks, SyncSave(t) PROVE Fresh'
  <2> DEFINE u == [t EXCEPT !.stage = "saved"]
             e == endpoint[t.peer]
  <2>1. /\ t.stage = "fetched" /\ UNCHANGED <<endpoint, served>>
        /\ latest' = [latest EXCEPT ![e] = t.got] /\ tasks' = (tasks \ {t}) \union {u}
    BY <1>6 DEF SyncSave
  <2>2. e \in Peers /\ u.stage = "saved"
    BY <1>0 DEF Task
  <2> HIDE DEF u
  <2>3. ASSUME NEW p \in Peers PROVE UpTo(latest'[p], served[p])
    BY <1>0, <2>1, <2>2
  <2>4. ASSUME NEW x \in tasks', x.stage = "fetched"
        PROVE  /\ UpTo(x.got, served[endpoint[x.peer]])
               /\ OwnEndpoints => UpTo(latest'[endpoint[x.peer]], x.got)
    <3>1. x \in tasks /\ x # t
      BY <2>1, <2>2, <2>4
    <3>2. OwnEndpoints => endpoint[x.peer] # e
      BY <1>0, <3>1 DEF OwnEndpoints, Waits
    <3> QED BY <1>0, <2>1, <2>4, <3>1, <3>2
  <2> QED BY <2>1, <2>3, <2>4 DEF OwnEndpoints
<1>7. ASSUME NEW t \in tasks, SyncFinish(t) \/ SyncFails(t) PROVE Fresh'
  BY <1>1, <1>7 DEF SyncFinish, SyncFails
<1>8. ASSUME NEW p \in Peers, NEW answers \in BOOLEAN, DetectPeer(p, answers) PROVE Fresh'
  BY <1>1, <1>8 DEF DetectPeer
<1>9. CASE StartGossip \/ StopGossip \/ LoopExit \/ WaitReturns \/ LocalLeaseChanges
  BY <1>1, <1>9 DEF StartGossip, StopGossip, LoopExit, WaitReturns, LocalLeaseChanges
<1>10. CASE Restart
  BY <1>1, <1>10 DEF Restart
<1>11. ASSUME NEW p \in Peers, PeerCommits(p) PROVE Fresh'
  <2>1. UNCHANGED <<endpoint, latest, tasks>> /\ served' \in [Peers -> Commitment]
    BY <1>11 DEF PeerCommits, FedTypes
  <2>2. \A q \in Peers : UpTo(served[q], served'[q])
    BY <1>11, PeerCommitsUp
  <2>3. \A q \in Peers : UpTo(latest[q], served'[q])
    BY <1>0, <2>1, <2>2, UpToOrder
  <2>4. ASSUME NEW t \in tasks, t.stage = "fetched"
        PROVE  UpTo(t.got, served'[endpoint[t.peer]])
    BY <1>0, <2>1, <2>2, <2>4, UpToOrder
  <2> QED BY <2>1, <2>3, <2>4 DEF OwnEndpoints
<1>12. ASSUME NEW p \in Peers, PeerLeaseChanges(p) PROVE Fresh'
  BY <1>1, <1>12 DEF PeerLeaseChanges
<1>13. CASE UNCHANGED fedVars
  BY <1>1, <1>13 DEF fedVars
<1> QED BY <1>2, <1>3, <1>4, <1>5, <1>6, <1>7, <1>8, <1>9, <1>10, <1>11, <1>12, <1>13
        DEF FedNext, Step

-----------------------------------------------------------------------------
(* Theorems *)

LEMMA FedInvariant == FedSpec => []FedInv
<1>1. FedInit => FedInv
  <2> SUFFICES ASSUME FedInit PROVE FedInv
    OBVIOUS
  <2>1. FedTypes
    BY FedTypesInit
  <2>2. Waits
    BY DEF FedInit, Waits
  <2>3. Steady
    BY DEF FedInit, Steady, NoDetection
  <2>4. Fresh
    BY NoCommitType, UpToOrder DEF FedInit, Fresh
  <2> QED BY <2>1, <2>2, <2>3, <2>4 DEF FedInv
<1>2. FedInv /\ [FedNext]_fedVars => FedInv'
  BY FedTypesNext, WaitsNext, SteadyNext, FreshNext DEF FedInv
<1> QED BY <1>1, <1>2, PTL DEF FedSpec

\* When StopGossip has returned, whatever the number of peers and wherever the
\* round was when the context was cancelled, no sync and no round is at work.
THEOREM StopIsQuiet == FedSpec => []QuietAfterStop
<1>1. FedInv => QuietAfterStop
  BY DEF FedInv, Waits, QuietAfterStop
<1> QED BY <1>1, FedInvariant, PTL

\* For every set of peers, DetectConflicts reports each conflict that lasts
\* from the beginning of the round with a peer that answers, although leases
\* change, peers fail and operators come and go while it asks one by one.
THEOREM LastingConflictsReported == FedSpec => []ConflictReported
<1>1. FedInv => ConflictReported
  BY DEF FedInv, Steady, ConflictReported
<1> QED BY <1>1, FedInvariant, PTL

\* Only RegisterOperator of an id the store does not have adds an operator to
\* the map: a SyncWithOperator that overlaps RemoveOperator never does.
THEOREM RemovedStaysRemoved == FedSpec => RemovedNotRevived
<1>1. FedInv /\ [FedNext]_fedVars =>
          [\A p \in Peers : operators[p] = "absent" /\ operators'[p] # "absent"
                                => p \notin stored]_fedVars
  <2> SUFFICES ASSUME FedInv, FedNext, NEW p \in Peers,
                      operators[p] = "absent", operators'[p] # "absent"
               PROVE  p \notin stored
    OBVIOUS
  <2>0. operators \in [Peers -> {"absent", "joined", "synced"}]
    BY DEF FedInv, FedTypes
  <2>1. ASSUME NEW q \in Peers, RegisterOperator(q) PROVE p \notin stored
    BY <2>0, <2>1 DEF RegisterOperator, CreateOperator
  <2>2. ASSUME NEW t \in tasks, SyncFinish(t) PROVE FALSE
    BY <2>0, <2>2 DEF SyncFinish
  <2>3. ASSUME NEW q \in Peers, RemoveOperator(q) PROVE FALSE
    BY <2>0, <2>3 DEF RemoveOperator
  <2>4. ~Restart
    BY DEF Restart
  <2>5. operators' # operators
    OBVIOUS
  <2> QED BY <2>1, <2>2, <2>3, <2>4, <2>5
          DEF FedNext, Step, memVars, ApiRegisterOperator, RoundStart, DetectStart, DetectFails,
              RoundEnd, SyncFetch, SyncSave, SyncFails, DetectPeer, StartGossip, StopGossip,
              LoopExit, WaitReturns, PeerCommits, PeerLeaseChanges, LocalLeaseChanges
<1> QED BY <1>1, FedInvariant, PTL DEF FedSpec, RemovedNotRevived

\* With an endpoint each, SaveCommitment never replaces a peer's stored latest
\* commitment by an earlier one, however syncs of the same round, new
\* commitments and restarts of the peers interleave.
THEOREM LatestNeverFallsBack == FedSpec => LatestMonotonic
<1>1. FedInv /\ [FedNext]_fedVars =>
          [(\A p, q \in Peers : endpoint[p] = endpoint[q] => p = q) =>
              \A p \in Peers :
                  \/ latest'[p].gen > latest[p].gen
                  \/ latest'[p].gen = latest[p].gen
                     /\ latest'[p].height >= latest[p].height]_fedVars
  <2> SUFFICES ASSUME FedInv, FedNext, OwnEndpoints, NEW p \in Peers
               PROVE  \/ latest'[p].gen > latest[p].gen
                      \/ latest'[p].gen = latest[p].gen
                         /\ latest'[p].height >= latest[p].height
    BY DEF OwnEndpoints
  <2>0. /\ latest \in [Peers -> Commitment] /\ tasks \subseteq Task
        /\ endpoint \in [Peers -> Peers]
        /\ \A c \in Commitment : c.gen \in Nat /\ c.height \in Nat
    BY DEF FedInv, FedTypes, Commitment
  <2>1. CASE latest' = latest
    BY <2>0, <2>1
  <2>2. ASSUME NEW t \in tasks, SyncSave(t)
        PROVE  \/ latest'[p].gen > latest[p].gen
               \/ latest'[p].gen = latest[p].gen /\ latest'[p].height >= latest[p].height
    <3>1. /\ t.got \in Commitment /\ t.stage = "fetched"
          /\ latest' = [latest EXCEPT ![endpoint[t.peer]] = t.got]
      BY <2>0, <2>2 DEF SyncSave, Task
    <3>2. UpTo(latest[endpoint[t.peer]], t.got)
      BY <3>1 DEF FedInv, Fresh
    <3>3. CASE p = endpoint[t.peer]
      <4>1. latest'[p] = t.got /\ latest[p] \in Commitment
        BY <2>0, <3>1, <3>3
      <4> QED BY <2>0, <3>1, <3>2, <3>3, <4>1 DEF UpTo
    <3>4. CASE p # endpoint[t.peer]
      <4>1. latest'[p] = latest[p] /\ latest[p] \in Commitment
        BY <2>0, <3>1, <3>4
      <4> QED BY <2>0, <4>1
    <3> QED BY <3>3, <3>4
  <2> QED BY <2>1, <2>2
          DEF FedNext, Step, memVars, RegisterOperator, ApiRegisterOperator, RemoveOperator,
              RoundStart, DetectStart, DetectFails, RoundEnd, SyncFetch, SyncFinish, SyncFails,
              DetectPeer, StartGossip, StopGossip, LoopExit, WaitReturns, Restart, PeerCommits,
              PeerLeaseChanges, LocalLeaseChanges
<1> QED BY <1>1, FedInvariant, PTL DEF FedSpec, LatestMonotonic

=============================================================================
