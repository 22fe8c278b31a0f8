---------------------------- MODULE GatewayProofs ----------------------------
(***************************************************************************)
(* What the data of a gateway promise, whatever the gateway does with them:*)
(* the packed tables of the register file for every content, the payloads  *)
(* for every schema and value, and the winding number of every loop.       *)
(***************************************************************************)
EXTENDS CsrMap, Polarization, SchemaCodec, WellFoundedInduction, TLAPS

-----------------------------------------------------------------------------
(* The register file *)

RegisterFile == [Registers -> Nat]

Half == {value \in Nat : value < 65536}

Byte == {value \in Nat : value < 256}

\* A half of a word can be replaced without touching the other half.
LEMMA HalfReplaced ==
    ASSUME NEW word \in Nat, NEW value \in Half, NEW k \in {0, 1}, NEW n \in {0, 1}
    PROVE  /\ PutField(word, HalfPlace(k), 65536, value) \in Nat
           /\ Field(PutField(word, HalfPlace(k), 65536, value), HalfPlace(n), 65536)
                  = IF n = k THEN value ELSE Field(word, HalfPlace(n), 65536)
<1>1. CASE k = 0
  BY <1>1, SMT DEF Half, PutField, Field, HalfPlace
<1>2. CASE k = 1
  BY <1>2, SMT DEF Half, PutField, Field, HalfPlace
<1> QED BY <1>1, <1>2

\* A byte of a word can be replaced without touching the other bytes.
LEMMA ByteReplaced ==
    ASSUME NEW word \in Nat, NEW value \in Byte, NEW k \in {0, 1, 2, 3}, NEW n \in {0, 1, 2, 3}
    PROVE  /\ PutField(word, BytePlace(k), 256, value) \in Nat
           /\ Field(PutField(word, BytePlace(k), 256, value), BytePlace(n), 256)
                  = IF n = k THEN value ELSE Field(word, BytePlace(n), 256)
<1>0. value \in Nat /\ value < 256
  BY DEF Byte
<1>1. CASE k = 0
  BY <1>1, SMT DEF Byte, PutField, Field, BytePlace
<1>2. CASE k = 1
  <2> DEFINE after == word + (value - ((word \div 256) % 256)) * 256
  <2>1. after \in Nat
    BY <1>0, SMT
  <2>2. (after \div 1) % 256 = (word \div 1) % 256
    BY <1>0, SMT
  <2>3. (after \div 256) % 256 = value
    BY <1>0, SMT
  <2>4. after \div 65536 = word \div 65536
    BY <1>0, SMT
  <2>5. after \div 16777216 = word \div 16777216
    BY <1>0, SMT
  <2>6. BytePlace(k) = 256
    BY <1>2, SMT DEF BytePlace
  <2>7. PutField(word, BytePlace(k), 256, value) = after
    BY <2>6, SMT DEF PutField, Field
  <2> HIDE DEF after
  <2> QED BY <1>2, <2>1, <2>2, <2>3, <2>4, <2>5, <2>7, SMT DEF Field, BytePlace
<1>3. CASE k = 2
  <2> DEFINE after == word + (value - ((word \div 65536) % 256)) * 65536
  <2>1. after \in Nat
    BY <1>0, SMT
  <2>2. (after \div 1) % 256 = (word \div 1) % 256
    BY <1>0, SMT
  <2>3. (after \div 256) % 256 = (word \div 256) % 256
    BY <1>0, SMT
  <2>4. (after \div 65536) % 256 = value
    BY <1>0, SMT
  <2>5. after \div 16777216 = word \div 16777216
    BY <1>0, SMT
  <2>6. BytePlace(k) = 65536
    BY <1>3, SMT DEF BytePlace
  <2>7. PutField(word, BytePlace(k), 256, value) = after
    BY <2>6, SMT DEF PutField, Field
  <2> HIDE DEF after
  <2> QED BY <1>3, <2>1, <2>2, <2>3, <2>4, <2>5, <2>7, SMT DEF Field, BytePlace
<1>4. CASE k = 3
  <2> DEFINE after == word + (value - ((word \div 16777216) % 256)) * 16777216
  <2>1. after \in Nat
    BY <1>0, SMT
  <2>2. (after \div 1) % 256 = (word \div 1) % 256
    BY <1>0, SMT
  <2>3. (after \div 256) % 256 = (word \div 256) % 256
    BY <1>0, SMT
  <2>4. (after \div 65536) % 256 = (word \div 65536) % 256
    BY <1>0, SMT
  <2>5. (after \div 16777216) % 256 = value
    <3> DEFINE q == word \div 16777216
    <3>1. after \div 16777216 = q + (value - (q % 256))
      BY <1>0, SMT
    <3>2. q \in Nat
      BY SMT
    <3> HIDE DEF q, after
    <3> QED BY <1>0, <3>1, <3>2, SMT
  <2>6. BytePlace(k) = 16777216
    BY <1>4, SMT DEF BytePlace
  <2>7. PutField(word, BytePlace(k), 256, value) = after
    BY <2>6, SMT DEF PutField, Field
  <2> HIDE DEF after
  <2> QED BY <1>4, <2>1, <2>2, <2>3, <2>4, <2>5, <2>7, SMT DEF Field, BytePlace
<1> QED BY <1>1, <1>2, <1>3, <1>4, SMT

-----------------------------------------------------------------------------
(* Where the tables lie *)

LEMMA PayloadRegisters ==
    ASSUME NEW h \in 0 .. 31
    PROVE  /\ PayloadRegister(h) \in Registers /\ Addressable(PayloadRegister(h))
           /\ PayloadRegister(h) \in Nat
           /\ 64 <= PayloadRegister(h) /\ PayloadRegister(h) < 128
<1>1. PayloadRegister(h) \in Registers
  BY SMT DEF Registers, SCHEMA_TABLE_ENTRIES
<1>2. /\ PayloadRegister(h) \in Nat /\ PayloadRegister(h) % 4 = 0
      /\ 64 <= PayloadRegister(h) /\ PayloadRegister(h) < 128
  BY SMT DEF PayloadRegister, REG_SCHEMA_PAYLOAD_BASE
<1> QED BY <1>1, <1>2, SMT DEF Addressable, CSR_SPACE_BYTES

LEMMA OamRegisters ==
    ASSUME NEW index \in 0 .. 32
    PROVE  /\ OamRegister(index) \in Registers /\ Addressable(OamRegister(index))
           /\ OamRegister(index) \in Nat
           /\ 256 <= OamRegister(index) /\ OamRegister(index) < 292
<1>1. OamRegister(index) \in Registers
  BY SMT DEF Registers, OAM_TABLE_ENTRIES
<1>2. /\ OamRegister(index) \in Nat /\ OamRegister(index) % 4 = 0
      /\ 256 <= OamRegister(index) /\ OamRegister(index) < 292
  BY SMT DEF OamRegister, REG_OAM_TABLE_BASE
<1> QED BY <1>1, <1>2, SMT DEF Addressable, CSR_SPACE_BYTES

LEMMA Places ==
    ASSUME NEW n \in Nat
    PROVE  /\ n % 2 \in {0, 1} /\ n % 4 \in {0, 1, 2, 3}
           /\ \A m \in Nat : (n \div 2 = m \div 2 /\ n % 2 = m % 2) => n = m
           /\ \A m \in Nat : (n \div 4 = m \div 4 /\ n % 4 = m % 4) => n = m
BY SMT

-----------------------------------------------------------------------------
(* The tables *)

\* set_schema_payload changes the entry of its handle and nothing else: not the
\* handle that shares the word, and not the OAM table.
THEOREM PayloadTableExact ==
    ASSUME NEW rf \in RegisterFile, NEW h \in Handles, NEW bytes \in Half
    PROVE  LET after == set_schema_payload(rf, h, bytes)
           IN  /\ after \in RegisterFile
               /\ \A g \in Handles :
                     schema_payload_bytes(after, g)
                         = IF g = h THEN bytes ELSE schema_payload_bytes(rf, g)
               /\ \A charge \in Charges :
                     schema_id_for_oam(after, charge) = schema_id_for_oam(rf, charge)
<1> DEFINE reg == PayloadRegister(h)
           word == PutField(rf[reg], HalfPlace(h % 2), 65536, bytes)
           after == [rf EXCEPT ![reg] = word]
<1>1. h \in 0 .. 31 /\ h \in Nat /\ h % 2 \in {0, 1}
  BY SMT DEF Handles, SCHEMA_TABLE_ENTRIES
<1>2. reg \in Registers /\ Addressable(reg) /\ rf[reg] \in Nat
  BY <1>1, PayloadRegisters, SMT DEF RegisterFile
<1>3. set_schema_payload(rf, h, bytes) = after
  BY <1>2, SMT DEF set_schema_payload, write_u32
<1>4. word \in Nat
  BY <1>1, <1>2, HalfReplaced, SMT
<1>5. after \in RegisterFile
  BY <1>2, <1>4, SMT DEF RegisterFile
<1>6. ASSUME NEW g \in Handles
      PROVE  schema_payload_bytes(after, g)
                 = IF g = h THEN bytes ELSE schema_payload_bytes(rf, g)
  <2>1. g \in 0 .. 31 /\ g \in Nat /\ g % 2 \in {0, 1}
    BY SMT DEF Handles, SCHEMA_TABLE_ENTRIES
  <2>2. PayloadRegister(g) \in Registers
    BY <2>1, PayloadRegisters, SMT
  <2>3. CASE PayloadRegister(g) = reg
    <3>1. after[PayloadRegister(g)] = word
      BY <1>2, <2>3, SMT DEF RegisterFile
    <3>2. g \div 2 = h \div 2
      BY <1>1, <2>1, <2>3, SMT DEF PayloadRegister, REG_SCHEMA_PAYLOAD_BASE
    <3>3. g % 2 = h % 2 <=> g = h
      BY <1>1, <2>1, <3>2, Places, SMT
    <3>4. Field(word, HalfPlace(g % 2), 65536)
              = IF g % 2 = h % 2 THEN bytes ELSE Field(rf[reg], HalfPlace(g % 2), 65536)
      BY <1>1, <1>2, <2>1, HalfReplaced, SMT
    <3> HIDE DEF word, after, reg
    <3> QED BY <2>3, <3>1, <3>3, <3>4, SMT DEF schema_payload_bytes
  <2>4. CASE PayloadRegister(g) # reg
    <3>1. after[PayloadRegister(g)] = rf[PayloadRegister(g)]
      BY <2>2, <2>4, SMT DEF RegisterFile
    <3>2. g # h
      BY <2>4, SMT
    <3> HIDE DEF word, after, reg
    <3> QED BY <3>1, <3>2, SMT DEF schema_payload_bytes
  <2> QED BY <2>3, <2>4, SMT
<1>7. ASSUME NEW charge \in Charges
      PROVE  schema_id_for_oam(after, charge) = schema_id_for_oam(rf, charge)
  <2>1. OamIndex(charge) \in 0 .. 32
    BY SMT DEF OamIndex, Charges
  <2>2. OamRegister(OamIndex(charge)) \in Registers /\ OamRegister(OamIndex(charge)) # reg
    BY <1>1, <2>1, PayloadRegisters, OamRegisters, SMT
  <2>3. after[OamRegister(OamIndex(charge))] = rf[OamRegister(OamIndex(charge))]
    BY <2>2, SMT DEF RegisterFile
  <2> HIDE DEF word, after, reg
  <2> QED BY <2>3, SMT DEF schema_id_for_oam
<1> HIDE DEF word, after, reg
<1> QED BY <1>3, <1>5, <1>6, <1>7, SMT

\* set_oam_to_schema changes the entry of its mode and nothing else: not the
\* modes that share the word, and not the payload table.
THEOREM OamTableExact ==
    ASSUME NEW rf \in RegisterFile, NEW charge \in Charges, NEW handle \in Byte
    PROVE  LET after == set_oam_to_schema(rf, charge, handle)
           IN  /\ after \in RegisterFile
               /\ \A c \in Charges :
                     schema_id_for_oam(after, c)
                         = IF c = charge THEN handle ELSE schema_id_for_oam(rf, c)
               /\ \A g \in Handles :
                     schema_payload_bytes(after, g) = schema_payload_bytes(rf, g)
<1> DEFINE index == OamIndex(charge)
           reg == OamRegister(index)
           word == PutField(rf[reg], BytePlace(index % 4), 256, handle)
           after == [rf EXCEPT ![reg] = word]
<1>1. index \in 0 .. 32 /\ index \in Nat /\ index % 4 \in {0, 1, 2, 3}
  BY SMT DEF OamIndex, Charges
<1>2. reg \in Registers /\ Addressable(reg) /\ rf[reg] \in Nat
  BY <1>1, OamRegisters, SMT DEF RegisterFile
<1>3. set_oam_to_schema(rf, charge, handle) = after
  BY <1>2, SMT DEF set_oam_to_schema, write_u32
<1>4. word \in Nat
  BY <1>1, <1>2, ByteReplaced, SMT
<1>5. after \in RegisterFile
  BY <1>2, <1>4, SMT DEF RegisterFile
<1>6. ASSUME NEW c \in Charges
      PROVE  schema_id_for_oam(after, c)
                 = IF c = charge THEN handle ELSE schema_id_for_oam(rf, c)
  <2> DEFINE i == OamIndex(c)
  <2>1. i \in 0 .. 32 /\ i \in Nat /\ i % 4 \in {0, 1, 2, 3} /\ (i = index <=> c = charge)
    BY SMT DEF OamIndex, Charges
  <2>2. OamRegister(i) \in Registers
    BY <2>1, OamRegisters, SMT
  <2>3. CASE OamRegister(i) = reg
    <3>1. after[OamRegister(i)] = word
      BY <1>2, <2>3, SMT DEF RegisterFile
    <3>2. i \div 4 = index \div 4
      BY <1>1, <2>1, <2>3, SMT DEF OamRegister, REG_OAM_TABLE_BASE
    <3>3. i % 4 = index % 4 <=> c = charge
      BY <1>1, <2>1, <3>2, Places, SMT
    <3>4. Field(word, BytePlace(i % 4), 256)
              = IF i % 4 = index % 4 THEN handle ELSE Field(rf[reg], BytePlace(i % 4), 256)
      BY <1>1, <1>2, <2>1, ByteReplaced, SMT
    <3> HIDE DEF word, after, reg
    <3> QED BY <2>3, <3>1, <3>3, <3>4, SMT DEF schema_id_for_oam
  <2>4. CASE OamRegister(i) # reg
    <3>1. after[OamRegister(i)] = rf[OamRegister(i)]
      BY <2>2, <2>4, SMT DEF RegisterFile
    <3>2. c # charge
      BY <2>4, SMT
    <3> HIDE DEF word, after, reg
    <3> QED BY <3>1, <3>2, SMT DEF schema_id_for_oam
  <2> QED BY <2>3, <2>4, SMT
<1>7. ASSUME NEW g \in Handles
      PROVE  schema_payload_bytes(after, g) = schema_payload_bytes(rf, g)
  <2>1. g \in 0 .. 31
    BY SMT DEF Handles, SCHEMA_TABLE_ENTRIES
  <2>2. PayloadRegister(g) \in Registers /\ PayloadRegister(g) # reg
    BY <1>1, <2>1, PayloadRegisters, OamRegisters, SMT
  <2>3. after[PayloadRegister(g)] = rf[PayloadRegister(g)]
    BY <2>2, SMT DEF RegisterFile
  <2> HIDE DEF word, after, reg
  <2> QED BY <2>3, SMT DEF schema_payload_bytes
<1> HIDE DEF word, after, reg
<1> QED BY <1>3, <1>5, <1>6, <1>7, SMT

\* The RTL reads the tables as the host wrote them, with one exception: its
\* five-bit lookup of mode +16 is a lookup of mode -16.
THEOREM RtlReadsTheTables ==
    ASSUME NEW rf \in RegisterFile
    PROVE  /\ \A h \in Handles : RtlPayload(rf, h) = schema_payload_bytes(rf, h)
           /\ \A charge \in Charges :
                 RtlSchema(rf, charge) = schema_id_for_oam(rf, IF charge = 16 THEN -16 ELSE charge)
<1>1. ASSUME NEW h \in Handles PROVE RtlPayload(rf, h) = schema_payload_bytes(rf, h)
  <2>1. h % 32 = h
    BY SMT DEF Handles, SCHEMA_TABLE_ENTRIES
  <2> QED BY <2>1, SMT DEF RtlPayload, schema_payload_bytes
<1>2. ASSUME NEW charge \in Charges
      PROVE  RtlSchema(rf, charge) = schema_id_for_oam(rf, IF charge = 16 THEN -16 ELSE charge)
  <2>1. RtlOamIndex(charge) = OamIndex(IF charge = 16 THEN -16 ELSE charge)
    BY SMT DEF RtlOamIndex, OamIndex, Charges
  <2> QED BY <2>1, SMT DEF RtlSchema, schema_id_for_oam
<1> QED BY <1>1, <1>2, SMT

-----------------------------------------------------------------------------
(* The settings *)

ValidSettings ==
    [wavelength : {channel \in Nat : channel <= MAX_CHANNEL},
     secret : [0 .. SECRET_WORDS - 1 -> Nat], topological : BOOLEAN]

LEMMA RegistersAreOffsets == Registers \subseteq Nat
<1>1. \A i \in 0 .. SECRET_WORDS - 1 : SecretRegister(i) \in Nat
  BY SMT DEF SecretRegister, REG_SECRET_BASE, SECRET_WORDS
<1>2. \A h \in 0 .. SCHEMA_TABLE_ENTRIES - 1 : PayloadRegister(h) \in Nat
  BY PayloadRegisters, SMT DEF SCHEMA_TABLE_ENTRIES
<1>3. \A i \in 0 .. OAM_TABLE_ENTRIES - 1 : OamRegister(i) \in Nat
  BY OamRegisters, SMT DEF OAM_TABLE_ENTRIES
<1> QED BY <1>1, <1>2, <1>3, SMT
        DEF Registers, REG_WAVELENGTH, REG_CTRL, REG_AUTH_TOLERANCE, REG_STATUS, REG_SECRET_VALID

\* set_secret leaves the secret and the flag, and every other register as it was.
LEMMA SecretWritten ==
    ASSUME NEW rf \in RegisterFile, NEW secret \in [0 .. SECRET_WORDS - 1 -> Nat]
    PROVE  /\ set_secret(rf, secret) \in RegisterFile
           /\ set_secret(rf, secret)[REG_SECRET_VALID] = 1
           /\ \A i \in 0 .. SECRET_WORDS - 1 : set_secret(rf, secret)[SecretRegister(i)] = secret[i]
           /\ \A offset \in Registers :
                 (offset < 16 \/ offset > 48) => set_secret(rf, secret)[offset] = rf[offset]
<1>1. /\ REG_SECRET_VALID \in Registers /\ REG_SECRET_VALID = 48
      /\ \A i \in 0 .. 7 : SecretRegister(i) \in Registers /\ SecretRegister(i) = 16 + 4 * i
  BY SMT DEF Registers, REG_SECRET_VALID, SecretRegister, REG_SECRET_BASE, SECRET_WORDS
<1>2. set_secret(rf, secret) \in RegisterFile
  BY <1>1, SMT DEF set_secret, RegisterFile, SECRET_WORDS
<1>3. set_secret(rf, secret)[REG_SECRET_VALID] = 1
  BY <1>1, SMT DEF set_secret, RegisterFile
<1>4. \A i \in 0 .. 7 : set_secret(rf, secret)[SecretRegister(i)] = secret[i]
  <2>1. /\ SecretRegister(0) = 16 /\ SecretRegister(1) = 20 /\ SecretRegister(2) = 24
        /\ SecretRegister(3) = 28 /\ SecretRegister(4) = 32 /\ SecretRegister(5) = 36
        /\ SecretRegister(6) = 40 /\ SecretRegister(7) = 44
    BY <1>1, SMT
  <2>2. /\ REG_SECRET_VALID = 48
        /\ 16 \in Registers /\ 20 \in Registers /\ 24 \in Registers /\ 28 \in Registers
        /\ 32 \in Registers /\ 36 \in Registers /\ 40 \in Registers /\ 44 \in Registers
    BY <1>1, <2>1, SMT
  <2>3. set_secret(rf, secret)[SecretRegister(0)] = secret[0]
    BY <2>2, SMT DEF set_secret, RegisterFile, SecretRegister, REG_SECRET_BASE
  <2>4. set_secret(rf, secret)[SecretRegister(1)] = secret[1]
    BY <2>2, SMT DEF set_secret, RegisterFile, SecretRegister, REG_SECRET_BASE
  <2>5. set_secret(rf, secret)[SecretRegister(2)] = secret[2]
    BY <2>2, SMT DEF set_secret, RegisterFile, SecretRegister, REG_SECRET_BASE
  <2>6. set_secret(rf, secret)[SecretRegister(3)] = secret[3]
    BY <2>2, SMT DEF set_secret, RegisterFile, SecretRegister, REG_SECRET_BASE
  <2>7. set_secret(rf, secret)[SecretRegister(4)] = secret[4]
    BY <2>2, SMT DEF set_secret, RegisterFile, SecretRegister, REG_SECRET_BASE
  <2>8. set_secret(rf, secret)[SecretRegister(5)] = secret[5]
    BY <2>2, SMT DEF set_secret, RegisterFile, SecretRegister, REG_SECRET_BASE
  <2>9. set_secret(rf, secret)[SecretRegister(6)] = secret[6]
    BY <2>2, SMT DEF set_secret, RegisterFile, SecretRegister, REG_SECRET_BASE
  <2>10. set_secret(rf, secret)[SecretRegister(7)] = secret[7]
    BY <2>2, SMT DEF set_secret, RegisterFile, SecretRegister, REG_SECRET_BASE
  <2>11. \A i \in 0 .. 7 : i = 0 \/ i = 1 \/ i = 2 \/ i = 3 \/ i = 4 \/ i = 5 \/ i = 6 \/ i = 7
    BY SMT
  <2> QED BY <2>3, <2>4, <2>5, <2>6, <2>7, <2>8, <2>9, <2>10, <2>11, SMT
<1>5. ASSUME NEW offset \in Registers, offset < 16 \/ offset > 48
      PROVE  set_secret(rf, secret)[offset] = rf[offset]
  <2>0. offset \in Nat
    BY RegistersAreOffsets
  <2>1. ASSUME NEW k \in 0 .. 7 PROVE SecretRegister(k) # offset
    <3>1. SecretRegister(k) = 16 + 4 * k
      BY <1>1
    <3> QED BY <1>5, <2>0, <3>1
  <2>2. REG_SECRET_VALID # offset
    BY <1>1, <1>5, <2>0
  <2> QED BY <1>1, <2>1, <2>2, SMT DEF set_secret, RegisterFile
<1> QED BY <1>2, <1>3, <1>4, <1>5, SMT DEF SECRET_WORDS

\* What a driver latches from a register file is what its host wrote last,
\* whatever was there before, and the tables stay as they were.
THEOREM SettingsReadBack ==
    ASSUME NEW rf \in RegisterFile, NEW setting \in ValidSettings
    PROVE  LET after == write_settings(rf, setting)
           IN  /\ after \in RegisterFile
               /\ view_wavelength(after) = setting.wavelength
               /\ WavelengthValid(view_wavelength(after)) /\ secret_valid(after)
               /\ shared_secret(after) = setting.secret
               /\ (ctrl(after) \div CTRL_AUTH_TOPOLOGICAL) % 2 = 1 <=> setting.topological
               /\ auth_tolerance(after) = 10000
               /\ \A h \in Handles :
                     schema_payload_bytes(after, h) = schema_payload_bytes(rf, h)
               /\ \A charge \in Charges :
                     schema_id_for_oam(after, charge) = schema_id_for_oam(rf, charge)
<1> DEFINE mode == CTRL_ENABLE_TX + CTRL_ENABLE_RX
                       + (IF setting.topological THEN CTRL_AUTH_TOPOLOGICAL ELSE 0)
           secret == setting.secret
           a == [rf EXCEPT ![0] = setting.wavelength]
           b == set_secret(a, secret)
           after == [[b EXCEPT ![4] = mode] EXCEPT ![8] = 10]
<1>1. /\ setting.wavelength \in Nat /\ setting.wavelength <= MAX_CHANNEL
      /\ secret \in [0 .. SECRET_WORDS - 1 -> Nat] /\ setting.topological \in BOOLEAN
  BY SMT DEF ValidSettings
<1>2. 0 \in Registers /\ 4 \in Registers /\ 8 \in Registers
  BY SMT DEF Registers, REG_WAVELENGTH, REG_CTRL, REG_AUTH_TOLERANCE
<1>3. mode \in Nat /\ ((mode \div 4) % 2 = 1 <=> setting.topological)
  BY <1>1, SMT DEF CTRL_ENABLE_TX, CTRL_ENABLE_RX, CTRL_AUTH_TOPOLOGICAL
<1>4. write_settings(rf, setting) = after
  BY SMT DEF write_settings, set_auth_tolerance, set_ctrl, set_wavelength, write_u32, Addressable,
             CSR_SPACE_BYTES, REG_WAVELENGTH, REG_CTRL, REG_AUTH_TOLERANCE
<1> HIDE DEF mode
<1>5. a \in RegisterFile
  BY <1>1, <1>2, SMT DEF RegisterFile
<1> HIDE DEF a, secret
<1>6. /\ b \in RegisterFile /\ b[REG_SECRET_VALID] = 1
      /\ \A i \in 0 .. SECRET_WORDS - 1 : b[SecretRegister(i)] = secret[i]
      /\ \A offset \in Registers : (offset < 16 \/ offset > 48) => b[offset] = a[offset]
  BY <1>1, <1>5, SecretWritten, Zenon DEF b
<1> HIDE DEF b
<1>7. after \in RegisterFile
  BY <1>2, <1>3, <1>6, SMT DEF RegisterFile
<1>8. after[0] = setting.wavelength /\ after[4] = mode /\ after[8] = 10
  <2>1. a[0] = setting.wavelength /\ b[0] = a[0]
    BY <1>2, <1>6, SMT DEF RegisterFile, a
  <2> QED BY <1>2, <1>6, <2>1, SMT DEF RegisterFile
<1>9. ASSUME NEW offset \in Registers, offset >= 16 PROVE after[offset] = b[offset]
  BY <1>6, <1>9, RegistersAreOffsets, SMT DEF RegisterFile
<1>10. ASSUME NEW offset \in Registers, offset > 48 PROVE after[offset] = rf[offset]
  <2>1. a[offset] = rf[offset]
    BY <1>10, RegistersAreOffsets, SMT DEF RegisterFile, a
  <2>2. b[offset] = a[offset]
    BY <1>6, <1>10, SMT
  <2>3. offset >= 16
    BY <1>10, RegistersAreOffsets, SMT
  <2> HIDE DEF after
  <2> QED BY <1>9, <2>1, <2>2, <2>3, SMT
<1> HIDE DEF after
<1>11. view_wavelength(after) = setting.wavelength /\ WavelengthValid(view_wavelength(after))
  BY <1>1, <1>8, SMT DEF view_wavelength, Field, REG_WAVELENGTH, WavelengthValid, MAX_CHANNEL
<1>12. secret_valid(after)
  <2>1. REG_SECRET_VALID \in Registers /\ REG_SECRET_VALID >= 16
    BY SMT DEF Registers, REG_SECRET_VALID
  <2> QED BY <1>6, <1>9, <2>1, SMT DEF secret_valid
<1>13. shared_secret(after) = secret
  <2>1. \A i \in 0 .. SECRET_WORDS - 1 : SecretRegister(i) \in Registers /\ SecretRegister(i) >= 16
    BY SMT DEF Registers, SecretRegister, REG_SECRET_BASE, SECRET_WORDS
  <2>2. \A i \in 0 .. SECRET_WORDS - 1 : after[SecretRegister(i)] = secret[i]
    BY <1>6, <1>9, <2>1, SMT
  <2> QED BY <1>1, <2>2, SMT DEF shared_secret
<1>14. (ctrl(after) \div CTRL_AUTH_TOPOLOGICAL) % 2 = 1 <=> setting.topological
  BY <1>3, <1>8, SMT DEF ctrl, REG_CTRL, CTRL_AUTH_TOPOLOGICAL
<1>15. auth_tolerance(after) = 10000
  BY <1>8, SMT DEF auth_tolerance, REG_AUTH_TOLERANCE
<1>16. ASSUME NEW h \in Handles PROVE schema_payload_bytes(after, h) = schema_payload_bytes(rf, h)
  <2>1. h \in 0 .. 31
    BY SMT DEF Handles, SCHEMA_TABLE_ENTRIES
  <2>2. after[PayloadRegister(h)] = rf[PayloadRegister(h)]
    BY <1>10, <2>1, PayloadRegisters, SMT
  <2> QED BY <2>2, SMT DEF schema_payload_bytes
<1>17. ASSUME NEW charge \in Charges
       PROVE  schema_id_for_oam(after, charge) = schema_id_for_oam(rf, charge)
  <2>1. OamIndex(charge) \in 0 .. 32
    BY SMT DEF OamIndex, Charges
  <2>2. after[OamRegister(OamIndex(charge))] = rf[OamRegister(OamIndex(charge))]
    BY <1>10, <2>1, OamRegisters, SMT
  <2> QED BY <2>2, SMT DEF schema_id_for_oam
<1> QED BY <1>4, <1>7, <1>11, <1>12, <1>13, <1>14, <1>15, <1>16, <1>17, SMT DEF secret

-----------------------------------------------------------------------------
(* Arithmetic *)

LEMMA DivMod ==
    ASSUME NEW n \in Nat, NEW m \in Nat \ {0}
    PROVE  /\ n % m \in 0 .. m - 1 /\ n \div m \in Nat
           /\ n = m * (n \div m) + (n % m)
OBVIOUS

LEMMA ModUnique ==
    ASSUME NEW m \in Nat \ {0}, NEW q \in Nat, NEW r \in 0 .. m - 1
    PROVE  (m * q + r) % m = r
OBVIOUS

\* A sum may be reduced before the last summand is added.
LEMMA ModSum ==
    ASSUME NEW x \in Nat, NEW y \in Nat, NEW m \in Nat \ {0}
    PROVE  ((x % m) + y) % m = (x + y) % m
<1> DEFINE q == x \div m
           r == x % m
           z == r + y
           p == z \div m
           s == z % m
<1>1. r \in 0 .. m - 1 /\ q \in Nat /\ x = m * q + r
  BY DivMod
<1> HIDE DEF q, r
<1>2. z \in Nat
  BY <1>1
<1> HIDE DEF z
<1>3. s \in 0 .. m - 1 /\ p \in Nat /\ z = m * p + s
  BY <1>2, DivMod
<1> HIDE DEF p, s
<1>4. q + p \in Nat /\ m * q + m * p = m * (q + p)
  BY <1>1, <1>3
<1>5. x + y = m * (q + p) + s
  BY <1>1, <1>3, <1>4 DEF z
<1>6. (x + y) % m = s
  BY <1>3, <1>4, <1>5, ModUnique
<1> QED BY <1>6 DEF r, s, z

\* A difference of sequence numbers, taken modulo their width, is the
\* difference of what they count.
LEMMA ModDifference ==
    ASSUME NEW x \in Nat, NEW y \in Nat, y <= x, NEW m \in Nat \ {0}
    PROVE  (x - y) % m = (m + (x % m) - (y % m)) % m
<1> DEFINE d == x - y
           a == x % m
           b == y % m
           p == x \div m
           q == y \div m
<1>1. /\ a \in 0 .. m - 1 /\ p \in Nat /\ x = m * p + a
      /\ b \in 0 .. m - 1 /\ q \in Nat /\ y = m * q + b
  BY DivMod
<1>2. d \in Nat
  OBVIOUS
<1> HIDE DEF a, b, p, q
<1>3. d = m * p - m * q + (a - b)
  BY <1>1
<1> HIDE DEF d
<1>4. q <= p
  <2> SUFFICES ASSUME p + 1 <= q PROVE FALSE
    BY <1>1
  <2>1. m * (p + 1) <= m * q /\ m * (p + 1) = m * p + m
    BY <1>1
  <2> QED BY <1>1, <1>2, <1>3, <2>1
<1>5. m * p - m * q = m * (p - q) /\ p - q \in Nat
  BY <1>1, <1>4
<1> DEFINE k == p - q
           e == m + a - b
<1>6. k \in Nat /\ d = m * k + (a - b)
  BY <1>3, <1>5
<1> HIDE DEF k
<1>7. CASE a >= b
  <2>1. a - b \in 0 .. m - 1 /\ 1 \in Nat /\ e = m * 1 + (a - b)
    BY <1>1, <1>7
  <2>2. d % m = a - b /\ e % m = a - b
    BY <1>6, <2>1, ModUnique
  <2> QED BY <2>2 DEF a, b, d
<1>8. CASE a < b
  <2>1. k # 0
    BY <1>1, <1>2, <1>6, <1>8
  <2>2. k - 1 \in Nat /\ m * k = m * (k - 1) + m
    BY <1>6, <2>1
  <2>3. e \in 0 .. m - 1 /\ d = m * (k - 1) + e /\ e = m * 0 + e
    BY <1>1, <1>6, <1>8, <2>2
  <2>4. d % m = e /\ e % m = e
    BY <2>2, <2>3, ModUnique
  <2> QED BY <2>4 DEF a, b, d
<1> QED BY <1>1, <1>7, <1>8

-----------------------------------------------------------------------------
(* Sequences *)

LEMMA SeqTyped ==
    ASSUME NEW S, NEW q \in Seq(S)
    PROVE  Len(q) \in Nat /\ DOMAIN q = 1 .. Len(q) /\ q \in [1 .. Len(q) -> S]
OBVIOUS

LEMMA EmptyOrLonger ==
    ASSUME NEW S
    PROVE  /\ << >> \in Seq(S) /\ Len(<< >>) = 0
           /\ \A q \in Seq(S) : q # << >> => Len(q) \in Nat \ {0}
OBVIOUS

LEMMA AppendTyped ==
    ASSUME NEW S, NEW q \in Seq(S), NEW e \in S
    PROVE  /\ Append(q, e) \in Seq(S) /\ Append(q, e) # << >>
           /\ Len(Append(q, e)) = Len(q) + 1 /\ Append(q, e)[Len(q) + 1] = e
           /\ \A i \in 1 .. Len(q) : Append(q, e)[i] = q[i]
OBVIOUS

LEMMA AppendKeeps ==
    ASSUME NEW S, NEW q \in Seq(S), NEW e \in S, NEW r, r = Append(q, e)
    PROVE  /\ r \in Seq(S) /\ Len(r) = Len(q) + 1 /\ DOMAIN r = 1 .. Len(q) + 1
           /\ r[Len(q) + 1] = e /\ \A i \in 1 .. Len(q) : r[i] = q[i]
OBVIOUS

LEMMA ConcatTyped ==
    ASSUME NEW S, NEW p \in Seq(S), NEW q \in Seq(S)
    PROVE  /\ p \o q \in Seq(S) /\ Len(p \o q) = Len(p) + Len(q)
           /\ \A i \in 1 .. Len(p) + Len(q) :
                 (p \o q)[i] = IF i <= Len(p) THEN p[i] ELSE q[i - Len(p)]
OBVIOUS

LEMMA TailTyped ==
    ASSUME NEW S, NEW q \in Seq(S), q # << >>
    PROVE  /\ Head(q) \in S /\ Tail(q) \in Seq(S) /\ Len(Tail(q)) = Len(q) - 1
           /\ \A i \in 1 .. Len(Tail(q)) : Tail(q)[i] = q[i + 1]
OBVIOUS

LEMMA SameSeq ==
    ASSUME NEW S, NEW p \in Seq(S), NEW q \in Seq(S), Len(p) = Len(q),
           \A i \in 1 .. Len(p) : p[i] = q[i]
    PROVE  p = q
OBVIOUS

LEMMA FunctionIsSeq ==
    ASSUME NEW S, NEW n \in Nat, NEW f \in [1 .. n -> S]
    PROVE  f \in Seq(S) /\ Len(f) = n
OBVIOUS

-----------------------------------------------------------------------------
(* What a payload decodes to *)

\* Slices of different fields that do not overlap.
WellLaid(layout) ==
    /\ DOMAIN layout = 1 .. Len(layout) /\ Len(layout) \in Nat
    /\ \A i \in DOMAIN layout : layout[i][2] \in Int /\ layout[i][3] \in Int
    /\ \A i, j \in DOMAIN layout :
          i # j => /\ layout[i][1] # layout[j][1]
                   /\ layout[i][3] < layout[j][2] \/ layout[j][3] < layout[i][2]

LEMMA LayoutOfEquity ==
    /\ WellLaid(EncodeLayout("EquityTradeOrder"))
    /\ Range(DecodeLayout("EquityTradeOrder")) = Range(EncodeLayout("EquityTradeOrder"))
<1>1. /\ EncodeLayout("EquityTradeOrder") = EquityEncode
      /\ DecodeLayout("EquityTradeOrder") = EquityDecode
  BY DEF EncodeLayout, DecodeLayout
<1>2. Range(EquityDecode) = Range(EquityEncode)
  BY DEF EquityEncode, EquityDecode
<1>3. WellLaid(EquityEncode)
  <2>1. DOMAIN EquityEncode = 1 .. 7 /\ Len(EquityEncode) = 7
    BY SMT DEF EquityEncode
  <2>2. \A i \in 1 .. 7 : EquityEncode[i][2] \in Int /\ EquityEncode[i][3] \in Int
    BY SMT DEF EquityEncode
  <2>3. \A i, j \in 1 .. 7 : i # j =>
           /\ EquityEncode[i][1] # EquityEncode[j][1]
           /\ EquityEncode[i][3] < EquityEncode[j][2] \/ EquityEncode[j][3] < EquityEncode[i][2]
    BY SMT DEF EquityEncode
  <2> QED BY <2>1, <2>2, <2>3, SMT DEF WellLaid
<1> QED BY <1>1, <1>2, <1>3

LEMMA LayoutOfTick ==
    /\ WellLaid(EncodeLayout("MarketTick"))
    /\ Range(DecodeLayout("MarketTick")) = Range(EncodeLayout("MarketTick"))
<1>1. EncodeLayout("MarketTick") = TickEncode /\ DecodeLayout("MarketTick") = TickDecode
  BY DEF EncodeLayout, DecodeLayout
<1>2. Range(TickDecode) = Range(TickEncode)
  BY SMT DEF Range, TickEncode, TickDecode
<1>3. WellLaid(TickEncode)
  <2>1. DOMAIN TickEncode = 1 .. 7 /\ Len(TickEncode) = 7
    BY SMT DEF TickEncode
  <2>2. \A i \in 1 .. 7 : TickEncode[i][2] \in Int /\ TickEncode[i][3] \in Int
    BY SMT DEF TickEncode
  <2>3. \A i, j \in 1 .. 7 : i # j =>
           /\ TickEncode[i][1] # TickEncode[j][1]
           /\ TickEncode[i][3] < TickEncode[j][2] \/ TickEncode[j][3] < TickEncode[i][2]
    BY SMT DEF TickEncode
  <2> QED BY <2>1, <2>2, <2>3, SMT DEF WellLaid
<1> QED BY <1>1, <1>2, <1>3

LEMMA LayoutOfHeartbeat ==
    /\ WellLaid(EncodeLayout("Heartbeat"))
    /\ Range(DecodeLayout("Heartbeat")) = Range(EncodeLayout("Heartbeat"))
<1>1. EncodeLayout("Heartbeat") = HeartbeatEncode /\ DecodeLayout("Heartbeat") = HeartbeatDecode
  BY DEF EncodeLayout, DecodeLayout
<1>2. Range(HeartbeatDecode) = Range(HeartbeatEncode)
  BY SMT DEF Range, HeartbeatEncode, HeartbeatDecode
<1>3. WellLaid(HeartbeatEncode)
  <2>1. DOMAIN HeartbeatEncode = 1 .. 4 /\ Len(HeartbeatEncode) = 4
    BY SMT DEF HeartbeatEncode
  <2>2. \A i \in 1 .. 4 : HeartbeatEncode[i][2] \in Int /\ HeartbeatEncode[i][3] \in Int
    BY SMT DEF HeartbeatEncode
  <2>3. \A i, j \in 1 .. 4 : i # j =>
           /\ HeartbeatEncode[i][1] # HeartbeatEncode[j][1]
           /\ \/ HeartbeatEncode[i][3] < HeartbeatEncode[j][2]
              \/ HeartbeatEncode[j][3] < HeartbeatEncode[i][2]
    BY SMT DEF HeartbeatEncode
  <2> QED BY <2>1, <2>2, <2>3, SMT DEF WellLaid
<1> QED BY <1>1, <1>2, <1>3

\* The slice of a field is the same for encode and decode, and no other slice
\* is copied over it.
LEMMA SliceOfField ==
    ASSUME NEW id \in SchemaId, NEW f \in Fields(id)
    PROVE  \E slice \in Range(EncodeLayout(id)) :
              /\ \A other \in Range(EncodeLayout(id)) : other[1] = f <=> other = slice
              /\ (CHOOSE s \in Range(DecodeLayout(id)) : s[1] = f) = slice
              /\ Encoded(id, f) = slice[2] .. slice[3]
<1> DEFINE layout == EncodeLayout(id)
<1>1. WellLaid(layout) /\ Range(DecodeLayout(id)) = Range(layout)
  BY LayoutOfEquity, LayoutOfTick, LayoutOfHeartbeat DEF SchemaId
<1> HIDE DEF layout
<1>2. PICK n \in DOMAIN layout : layout[n][1] = f
  BY DEF Fields, Range, layout
<1>3. \A i \in DOMAIN layout : layout[i][1] = f <=> i = n
  BY <1>1, <1>2 DEF WellLaid
<1>4. layout[n] \in Range(layout)
  BY DEF Range
<1>5. \A other \in Range(layout) : other[1] = f <=> other = layout[n]
  BY <1>2, <1>3 DEF Range
<1>6. (CHOOSE s \in Range(DecodeLayout(id)) : s[1] = f) = layout[n]
  BY <1>1, <1>4, <1>5
<1>7. (CHOOSE i \in DOMAIN layout : layout[i][1] = f) = n
  BY <1>3
<1>8. \A m \in n + 1 .. Len(layout) : m \in DOMAIN layout /\ m # n
  BY <1>1 DEF WellLaid
<1>9. ASSUME NEW m \in n + 1 .. Len(layout), NEW b \in layout[n][2] .. layout[n][3]
      PROVE  b \notin layout[m][2] .. layout[m][3]
  <2>1. m \in DOMAIN layout /\ m # n
    BY <1>8
  <2>2. /\ layout[n][2] \in Int /\ layout[n][3] \in Int
        /\ layout[m][2] \in Int /\ layout[m][3] \in Int
    BY <1>1, <2>1 DEF WellLaid
  <2>3. layout[n][3] < layout[m][2] \/ layout[m][3] < layout[n][2]
    BY <1>1, <2>1 DEF WellLaid
  <2> QED BY <2>2, <2>3
<1>10. Encoded(id, f) = layout[n][2] .. layout[n][3]
  <2>1. Encoded(id, f) = {b \in layout[n][2] .. layout[n][3] :
            \A m \in n + 1 .. Len(layout) : b \notin layout[m][2] .. layout[m][3]}
    BY <1>7 DEF Encoded, layout
  <2> QED BY <1>9, <2>1
<1> QED BY <1>4, <1>5, <1>6, <1>10 DEF layout

\* A payload after some of its bytes changed.
Received(id, bytes, n, flips) ==
    [schema |-> id, bytes |-> bytes, value |-> [f \in Fields(id) |-> n], flipped |-> flips]

\* None of the bytes of a field is among the flipped ones.
Untouched(id, f, flips) ==
    \A slice \in Range(EncodeLayout(id)) :
        slice[1] = f => flips \intersect (slice[2] .. slice[3]) = {}

FieldRead(id, payload, f) ==
    ReadSlice(payload, CHOOSE s \in Range(DecodeLayout(id)) : s[1] = f)

\* A field reads as its value as long as its own bytes did not change.
LEMMA FieldReads ==
    ASSUME NEW id \in SchemaId, NEW bytes, NEW n \in Nat \ {0}, NEW flips, NEW f \in Fields(id)
    PROVE  /\ FieldRead(id, Received(id, bytes, n, flips), f) \in Nat
           /\ FieldRead(id, Received(id, bytes, n, flips), f) = n <=> Untouched(id, f, flips)
<1> DEFINE payload == Received(id, bytes, n, flips)
<1>1. PICK slice \in Range(EncodeLayout(id)) :
              /\ \A other \in Range(EncodeLayout(id)) : other[1] = f <=> other = slice
              /\ (CHOOSE s \in Range(DecodeLayout(id)) : s[1] = f) = slice
              /\ Encoded(id, f) = slice[2] .. slice[3]
  BY SliceOfField
<1>2. payload.schema = id /\ payload.flipped = flips /\ payload.value[f] = n
  BY DEF Received
<1> HIDE DEF payload
<1> DEFINE own == slice[2] .. slice[3]
<1>3. slice[1] = f
  BY <1>1
<1>4. ReadSlice(payload, slice) = IF own = own \ flips THEN n ELSE 0
  BY <1>1, <1>2, <1>3 DEF ReadSlice, Garbled
<1>5. own = own \ flips <=> flips \intersect own = {}
  OBVIOUS
<1> HIDE DEF own
<1>6. ReadSlice(payload, slice) \in Nat
  BY <1>4
<1>7. ReadSlice(payload, slice) = n <=> flips \intersect own = {}
  BY <1>4, <1>5
<1> QED BY <1>1, <1>6, <1>7 DEF own, payload, FieldRead, Untouched

LEMMA SchemaValues ==
    ASSUME NEW id \in SchemaId
    PROVE  resolve(OAM_MODE(id)) = {id} /\ payload_bytes(id) \in Nat
<1>1. OAM_MODE("EquityTradeOrder") = 1 /\ OAM_MODE("MarketTick") = 3 /\ OAM_MODE("Heartbeat") = 4
  BY DEF OAM_MODE
<1>2. /\ resolve(1) = {"EquityTradeOrder"} /\ resolve(3) = {"MarketTick"}
      /\ resolve(4) = {"Heartbeat"}
  BY DEF resolve
<1>3. /\ payload_bytes("EquityTradeOrder") = 256 /\ payload_bytes("MarketTick") = 64
      /\ payload_bytes("Heartbeat") = 32
  BY DEF payload_bytes
<1> QED BY <1>1, <1>2, <1>3 DEF SchemaId

AnyValue == UNION {[schema : {id}, fields : [Fields(id) -> Nat]] : id \in SchemaId}

\* What a value decoded from the n-th request may differ in.
DecodedFrom(value, n, flips) ==
    \A f \in Fields(value.schema) : value.fields[f] = n <=> Untouched(value.schema, f, flips)

\* AnySchemaValue::decode fails, or reads every field whose bytes are unchanged;
\* it fails for a wrong size, and never for an unchanged payload of the right size.
LEMMA ValueDecoded ==
    ASSUME NEW id \in SchemaId, NEW bytes, NEW n \in Nat \ {0}, NEW flips,
           NEW v \in any_decode(OAM_MODE(id), Received(id, bytes, n, flips))
    PROVE  /\ v # << >> => /\ bytes = payload_bytes(id)
                           /\ v[1] \in AnyValue /\ DecodedFrom(v[1], n, flips)
           /\ bytes = payload_bytes(id) /\ flips = {} => v # << >>
<1> DEFINE payload == Received(id, bytes, n, flips)
           value == [schema |-> id,
                     fields |-> [f \in Fields(id) |-> FieldRead(id, payload, f)]]
<1>1. payload.bytes = bytes /\ payload.flipped = flips
  BY DEF Received
<1>2. v \in decode_as(id, payload)
  BY SchemaValues DEF any_decode
<1>3. CASE bytes # payload_bytes(id)
  BY <1>1, <1>2, <1>3 DEF decode_as
<1>4. CASE bytes = payload_bytes(id)
  <2>1. PICK refused \in side_refused(id, payload) : v = IF refused THEN << >> ELSE <<value>>
    BY <1>1, <1>2, <1>4 DEF decode_as, FieldRead
  <2>2. flips = {} => ~refused
    BY <1>1, <2>1 DEF side_refused
  <2>3. refused \in BOOLEAN
    BY <2>1 DEF side_refused
  <2>4. value \in AnyValue
    <3>1. \A f \in Fields(id) : FieldRead(id, payload, f) \in Nat
      BY FieldReads
    <3>2. value \in [schema : {id}, fields : [Fields(id) -> Nat]]
      BY <3>1
    <3> QED BY <3>2 DEF AnyValue
  <2>5. DecodedFrom(value, n, flips)
    <3>1. value.schema = id
      OBVIOUS
    <3>2. \A f \in Fields(id) : value.fields[f] = FieldRead(id, payload, f)
      OBVIOUS
    <3> HIDE DEF value
    <3>3. ASSUME NEW f \in Fields(id)
          PROVE  value.fields[f] = n <=> Untouched(id, f, flips)
      BY <3>2, FieldReads
    <3> QED BY <3>1, <3>3 DEF DecodedFrom
  <2> HIDE DEF value, payload
  <2>6. <<value>> # << >> /\ <<value>>[1] = value
    OBVIOUS
  <2> QED BY <1>4, <2>1, <2>2, <2>3, <2>4, <2>5, <2>6
<1> QED BY <1>3, <1>4

-----------------------------------------------------------------------------
(* Sums *)

\* A nonempty set of numbers has a least one.
LEMMA Least ==
    ASSUME NEW T, T \subseteq Nat, T # {}
    PROVE  \E x \in T : \A y \in T : x <= y
<1>1. PICK x \in T : \A y \in T : ~(<<y, x>> \in OpToRel(<, Nat))
  BY NatLessThanWellFounded, WFMin
<1>2. \A y \in T : <<y, x>> \in Nat \X Nat
  OBVIOUS
<1>3. \A y \in T : ~(y < x)
  BY <1>1, <1>2 DEF OpToRel
<1> QED BY <1>3

\* The sums of the first numbers w[1], w[2], ...
Sums(total, w, n) == total = [k \in 0 .. n |-> IF k = 0 THEN 0 ELSE total[k - 1] + w[k]]

LEMMA SumsExist ==
    ASSUME NEW n \in Nat, NEW w \in [1 .. n -> Int]
    PROVE  \E total \in [0 .. n -> Int] : Sums(total, w, n)
<1> DEFINE Summed(k) == \E total \in [0 .. k -> Int] : Sums(total, w, k)
           T == {k \in 0 .. n : ~Summed(k)}
<1>1. ASSUME T # {} PROVE FALSE
  <2>0. T \subseteq Nat
    OBVIOUS
  <2>1. PICK k \in T : \A j \in T : k <= j
    <3> HIDE DEF T
    <3> QED BY <1>1, <2>0, Least
  <2>2. k \in 0 .. n /\ ~Summed(k)
    OBVIOUS
  <2>3. CASE k = 0
    <3> DEFINE g == [i \in 0 .. 0 |-> 0]
    <3>1. g \in [0 .. 0 -> Int]
      OBVIOUS
    <3>2. Sums(g, w, 0)
      BY DEF Sums
    <3> QED BY <2>2, <2>3, <3>1, <3>2
  <2>4. CASE k # 0
    <3>1. k - 1 \in 0 .. n /\ ~(k <= k - 1) /\ k \in 1 .. n /\ k - 1 \in 0 .. k - 1
      BY <2>2, <2>4
    <3>2. Summed(k - 1)
      BY <2>1, <3>1
    <3>3. PICK g \in [0 .. k - 1 -> Int] : Sums(g, w, k - 1)
      BY <3>2
    <3> HIDE DEF T
    <3> DEFINE h == [i \in 0 .. k |-> IF i = k THEN g[k - 1] + w[k] ELSE g[i]]
    <3>4. w[k] \in Int /\ g[k - 1] \in Int
      BY <3>1
    <3>5. h \in [0 .. k -> Int]
      <4>1. \A i \in 0 .. k : i # k => i \in 0 .. k - 1
        BY <3>1
      <4> QED BY <3>4, <4>1
    <3>6. \A i \in 0 .. k - 1 : h[i] = g[i] /\ g[i] = IF i = 0 THEN 0 ELSE g[i - 1] + w[i]
      <4>1. \A i \in 0 .. k - 1 : i \in 0 .. k /\ i # k
        BY <3>1
      <4>2. \A i \in 0 .. k - 1 : g[i] = IF i = 0 THEN 0 ELSE g[i - 1] + w[i]
        BY <3>3 DEF Sums
      <4> QED BY <4>1, <4>2
    <3>7. h[k] = h[k - 1] + w[k]
      BY <3>1, <3>6
    <3>8. ASSUME NEW i \in 0 .. k PROVE h[i] = IF i = 0 THEN 0 ELSE h[i - 1] + w[i]
      <4> HIDE DEF h
      <4>1. CASE i = k
        BY <2>4, <3>7, <4>1
      <4>2. CASE i # k /\ i # 0
        <5>1. i \in 0 .. k - 1 /\ i - 1 \in 0 .. k - 1
          BY <3>1, <4>2
        <5> QED BY <3>6, <4>2, <5>1
      <4>3. CASE i = 0
        <5>1. i \in 0 .. k - 1
          BY <3>1, <4>3
        <5> QED BY <3>6, <4>3, <5>1
      <4> QED BY <4>1, <4>2, <4>3
    <3>9. Sums(h, w, k)
      <4>1. h = [i \in 0 .. k |-> h[i]]
        OBVIOUS
      <4> HIDE DEF h
      <4> QED BY <3>8, <4>1 DEF Sums
    <3> QED BY <2>2, <3>5, <3>9
  <2> QED BY <2>3, <2>4
<1> HIDE DEF Summed
<1>2. n \in 0 .. n
  OBVIOUS
<1>3. Summed(n)
  BY <1>1, <1>2
<1> QED BY <1>3 DEF Summed

Shifted(w, v, cut, n) == \A k \in 1 .. n : w[k] = v[k] + cut[k + 1] - cut[k]

\* Summands that differ by the differences of a function make sums that differ
\* by its values at the ends.
LEMMA Telescope ==
    ASSUME NEW n \in Nat, NEW v \in [1 .. n -> Int], NEW w \in [1 .. n -> Int],
           NEW a \in [0 .. n -> Int], Sums(a, v, n), NEW b \in [0 .. n -> Int], Sums(b, w, n),
           NEW cut \in [1 .. n + 1 -> Int], Shifted(w, v, cut, n)
    PROVE  b[n] = a[n] + cut[n + 1] - cut[1]
<1> DEFINE Differ(k) == b[k] = a[k] + cut[k + 1] - cut[1]
           T == {k \in 0 .. n : ~Differ(k)}
<1>1. ASSUME T # {} PROVE FALSE
  <2>0. T \subseteq Nat
    OBVIOUS
  <2>1. PICK k \in T : \A j \in T : k <= j
    <3> HIDE DEF T
    <3> QED BY <1>1, <2>0, Least
  <2>2. k \in 0 .. n /\ ~Differ(k)
    OBVIOUS
  <2>3. CASE k = 0
    <3>1. 0 \in 0 .. n /\ a[0] = 0 /\ b[0] = 0
      BY DEF Sums
    <3>2. cut[1] \in Int
      OBVIOUS
    <3> QED BY <2>2, <2>3, <3>1, <3>2
  <2>4. CASE k # 0
    <3>1. k - 1 \in 0 .. n /\ ~(k <= k - 1) /\ k \in 1 .. n /\ k \in Int /\ (k - 1) + 1 = k
      BY <2>2, <2>4
    <3>2. Differ(k - 1)
      BY <2>1, <3>1
    <3>3. a[k] = a[k - 1] + v[k] /\ b[k] = b[k - 1] + w[k]
      BY <2>2, <2>4 DEF Sums
    <3>4. /\ cut[1] \in Int /\ cut[k] \in Int /\ cut[k + 1] \in Int /\ v[k] \in Int
          /\ a[k - 1] \in Int
      BY <3>1
    <3>5. w[k] = v[k] + cut[k + 1] - cut[k]
      BY <3>1 DEF Shifted
    <3>6. b[k - 1] = a[k - 1] + cut[k] - cut[1]
      BY <3>1, <3>2
    <3>7. b[k] = a[k] + cut[k + 1] - cut[1]
      <4> DEFINE x == a[k - 1]  y == b[k - 1]  c == cut[k]  d == cut[k + 1]  e == cut[1]
                 f == v[k]
      <4>1. x \in Int /\ c \in Int /\ d \in Int /\ e \in Int /\ f \in Int
        BY <3>4
      <4>2. y = x + c - e /\ a[k] = x + f /\ b[k] = y + (f + d - c)
        BY <3>3, <3>5, <3>6
      <4>3. cut[k + 1] = d /\ cut[1] = e
        OBVIOUS
      <4> HIDE DEF T, Differ, x, y, c, d, e, f
      <4> QED BY <4>1, <4>2, <4>3
    <3> QED BY <2>2, <3>7
  <2> QED BY <2>3, <2>4
<1> HIDE DEF Differ
<1>2. n \in 0 .. n
  OBVIOUS
<1>3. Differ(n)
  BY <1>1, <1>2
<1> QED BY <1>3 DEF Differ

\* Sums of integers are integers.
LEMMA SumsInt ==
    ASSUME NEW n \in Nat, NEW w \in [1 .. n -> Int], NEW a, Sums(a, w, n)
    PROVE  a \in [0 .. n -> Int]
<1> DEFINE T == {k \in 0 .. n : a[k] \notin Int}
<1>1. ASSUME T # {} PROVE FALSE
  <2>0. T \subseteq Nat
    OBVIOUS
  <2>1. PICK k \in T : \A j \in T : k <= j
    <3> HIDE DEF T
    <3> QED BY <1>1, <2>0, Least
  <2>2. k \in 0 .. n /\ a[k] \notin Int
    OBVIOUS
  <2>3. CASE k = 0
    BY <2>2, <2>3 DEF Sums
  <2>4. CASE k # 0
    <3>1. k - 1 \in 0 .. n /\ ~(k <= k - 1) /\ k \in 1 .. n
      BY <2>2, <2>4
    <3>2. a[k - 1] \in Int /\ w[k] \in Int
      BY <2>1, <3>1
    <3>3. a[k] = a[k - 1] + w[k]
      BY <2>2, <2>4 DEF Sums
    <3> QED BY <2>2, <3>2, <3>3
  <2> QED BY <2>3, <2>4
<1>2. \A k \in 0 .. n : a[k] \in Int
  BY <1>1
<1>3. a = [k \in 0 .. n |-> a[k]]
  BY DEF Sums
<1> QED BY <1>2, <1>3

-----------------------------------------------------------------------------
(* Turns of the plane *)

\* The point p turned by the angle of g, and farther out by the length of g.
Spun(g, p) == <<g[1] * p[1] - g[2] * p[2], g[2] * p[1] + g[1] * p[2]>>

\* The turns by which the angle of p leaves (-pi, pi] when that of g, counted
\* from -pi to pi, is added to it.
Cut(g, p) ==
    CASE g[2] >= 0 /\ Positive(p) /\ ~Positive(Spun(g, p)) -> 1
      [] g[2] < 0 /\ ~Positive(p) /\ Positive(Spun(g, p)) -> -1
      [] OTHER -> 0

LEMMA SignOfProduct ==
    ASSUME NEW x \in Int, NEW y \in Int
    PROVE  /\ x * y \in Int
           /\ x * y > 0 <=> (x > 0 /\ y > 0) \/ (x < 0 /\ y < 0)
           /\ x * y < 0 <=> (x > 0 /\ y < 0) \/ (x < 0 /\ y > 0)
OBVIOUS

Centre == <<0, 0>>

\* A turn keeps the side on which q lies of p.
LEMMA SpunCross ==
    ASSUME NEW g \in Int \X Int, NEW p \in Int \X Int, NEW q \in Int \X Int, g # Centre
    PROVE  /\ Spun(g, p) \in Int \X Int
           /\ Cross(p, q) \in Int
           /\ Cross(Spun(g, p), Spun(g, q)) < 0 <=> Cross(p, q) < 0
           /\ Cross(Spun(g, p), Spun(g, q)) >= 0 <=> Cross(p, q) >= 0
<1> DEFINE c == g[1]  s == g[2]  x == p[1]  y == p[2]  u == q[1]  v == q[2]
           area == x * v - y * u
           scale == c * c + s * s
<1>1. /\ c \in Int /\ s \in Int /\ x \in Int /\ y \in Int /\ u \in Int /\ v \in Int
  OBVIOUS
<1>2. c # 0 \/ s # 0
  <2>1. g = <<c, s>>
    OBVIOUS
  <2> QED BY <2>1 DEF Centre
<1>3. /\ Spun(g, p) = <<c * x - s * y, s * x + c * y>>
      /\ Spun(g, q) = <<c * u - s * v, s * u + c * v>>
  BY DEF Spun
<1>4. Cross(p, q) = area
  BY DEF Cross
<1>5. Cross(Spun(g, p), Spun(g, q))
         = (c * x - s * y) * (s * u + c * v) - (s * x + c * y) * (c * u - s * v)
  BY <1>3 DEF Cross
<1> HIDE DEF c, s, x, y, u, v
<1>6. area \in Int /\ scale \in Int /\ scale > 0
  BY <1>1, <1>2
<1>7. (c * x - s * y) * (s * u + c * v) - (s * x + c * y) * (c * u - s * v) = scale * area
  BY <1>1
<1>8. c * x - s * y \in Int /\ s * x + c * y \in Int
  BY <1>1
<1> HIDE DEF area, scale
<1>9. (scale * area < 0 <=> area < 0) /\ scale * area \in Int
  BY <1>6, SignOfProduct
<1> QED BY <1>3, <1>4, <1>5, <1>6, <1>7, <1>8, <1>9

\* When g is not along the first axis, the signs of the second coordinates of p
\* and of the turned p tell the half plane of both.
LEMMA SpunHalves ==
    ASSUME NEW c \in Int, NEW s \in Int, s # 0, NEW x \in Int, NEW y \in Int,
           x # 0 \/ y # 0
    PROVE  LET a == s * x + c * y
               b == c * x - s * y
           IN  /\ a \in Int /\ b \in Int /\ (y # 0 \/ a # 0)
               /\ y = 0 => (x < 0 <=> (s > 0 /\ a < 0) \/ (s < 0 /\ a > 0))
               /\ a = 0 => (b < 0 <=> (s > 0 /\ y > 0) \/ (s < 0 /\ y < 0))
<1> DEFINE a == s * x + c * y
           b == c * x - s * y
           scale == c * c + s * s
<1>1. a \in Int /\ b \in Int /\ scale \in Int /\ scale > 0
  BY SMT
<1>2. y = 0 => a = s * x
  BY SMT
<1>3. s * b = c * a - scale * y
  BY SMT
<1>4. /\ s * x \in Int
      /\ s * x > 0 <=> (s > 0 /\ x > 0) \/ (s < 0 /\ x < 0)
      /\ s * x < 0 <=> (s > 0 /\ x < 0) \/ (s < 0 /\ x > 0)
  BY SignOfProduct
<1>5. /\ scale * y \in Int /\ s * b \in Int
      /\ s * b > 0 <=> (s > 0 /\ b > 0) \/ (s < 0 /\ b < 0)
      /\ s * b < 0 <=> (s > 0 /\ b < 0) \/ (s < 0 /\ b > 0)
      /\ scale * y > 0 <=> y > 0
      /\ scale * y < 0 <=> y < 0
  <2> HIDE DEF a, b, scale
  <2> QED BY <1>1, SignOfProduct
<1>6. a = 0 => s * b = -(scale * y)
  <2> HIDE DEF a, b, scale
  <2> QED BY <1>1, <1>3, <1>5
<1> HIDE DEF a, b, scale
<1>7. a = 0 => (b < 0 <=> (s > 0 /\ y > 0) \/ (s < 0 /\ y < 0))
  BY <1>1, <1>5, <1>6
<1>8. y = 0 => (x < 0 <=> (s > 0 /\ a < 0) \/ (s < 0 /\ a > 0)) /\ a # 0
  BY <1>2, <1>4
<1> QED BY <1>1, <1>7, <1>8 DEF a, b

\* WrapTurns by the half planes of p and q and the side of q.
Wraps(P, negative, Q, side) ==
    IF P /\ ~Q /\ side >= 0 THEN 1 ELSE IF negative /\ Q /\ side < 0 THEN -1 ELSE 0

One(condition) == IF condition THEN 1 ELSE 0

\* The second coordinates y before and a after a turn to the left, and whether
\* the angle is in (0, pi].
LeftTurned(y, a, P, PP) ==
    /\ y \in Int /\ a \in Int /\ (y # 0 \/ a # 0)
    /\ P \in BOOLEAN /\ (P <=> y > 0 \/ (y = 0 /\ a < 0))
    /\ PP \in BOOLEAN /\ (PP <=> a > 0 \/ (a = 0 /\ y > 0))

LeftPair(y, a, P, PP, v, d, Q, QQ, side) ==
    /\ LeftTurned(y, a, P, PP) /\ LeftTurned(v, d, Q, QQ)
    /\ side \in Int /\ (side < 0 <=> v * a < y * d)

LeftChange(y, a, P, PP, v, d, Q, QQ, side) ==
    Wraps(PP, a < 0, QQ, side)
      = Wraps(P, y < 0, Q, side)
        + One(Q /\ ~QQ) - One(P /\ ~PP)

\* The wrapping changes with the cuts when g turns to the left: y and v are the
\* second coordinates before the turn, a and d after it.
LEMMA LeftSigns ==
    ASSUME NEW y, NEW a, NEW P, NEW PP, NEW v, NEW d, NEW Q, NEW QQ, NEW side,
           LeftPair(y, a, P, PP, v, d, Q, QQ, side)
    PROVE  LeftChange(y, a, P, PP, v, d, Q, QQ, side)
<1> DEFINE m == v * a  n == y * d
<1>0. /\ y \in Int /\ a \in Int /\ v \in Int /\ d \in Int /\ side \in Int
      /\ LeftTurned(y, a, P, PP) /\ LeftTurned(v, d, Q, QQ) /\ (side < 0 <=> m < n)
  BY DEF LeftPair, LeftTurned
<1>1. /\ m \in Int /\ n \in Int
      /\ m > 0 <=> (v > 0 /\ a > 0) \/ (v < 0 /\ a < 0)
      /\ m < 0 <=> (v > 0 /\ a < 0) \/ (v < 0 /\ a > 0)
      /\ n > 0 <=> (y > 0 /\ d > 0) \/ (y < 0 /\ d < 0)
      /\ n < 0 <=> (y > 0 /\ d < 0) \/ (y < 0 /\ d > 0)
  BY <1>0, SignOfProduct
<1> HIDE DEF m, n
<1> QED BY <1>0, <1>1 DEF Wraps, One, LeftChange, LeftTurned

\* The same for a turn to the right.
RightTurned(y, a, P, PP) ==
    /\ y \in Int /\ a \in Int /\ (y # 0 \/ a # 0)
    /\ P \in BOOLEAN /\ (P <=> y > 0 \/ (y = 0 /\ a > 0))
    /\ PP \in BOOLEAN /\ (PP <=> a > 0 \/ (a = 0 /\ y < 0))

RightPair(y, a, P, PP, v, d, Q, QQ, side) ==
    /\ RightTurned(y, a, P, PP) /\ RightTurned(v, d, Q, QQ)
    /\ side \in Int /\ (side < 0 <=> v * a > y * d)

RightChange(y, a, P, PP, v, d, Q, QQ, side) ==
    Wraps(PP, a < 0, QQ, side)
      = Wraps(P, y < 0, Q, side)
        - One(~Q /\ QQ) + One(~P /\ PP)

\* The same when g turns to the right.
LEMMA RightSigns ==
    ASSUME NEW y, NEW a, NEW P, NEW PP, NEW v, NEW d, NEW Q, NEW QQ, NEW side,
           RightPair(y, a, P, PP, v, d, Q, QQ, side)
    PROVE  RightChange(y, a, P, PP, v, d, Q, QQ, side)
<1> DEFINE m == v * a  n == y * d
<1>0. /\ y \in Int /\ a \in Int /\ v \in Int /\ d \in Int /\ side \in Int
      /\ RightTurned(y, a, P, PP) /\ RightTurned(v, d, Q, QQ) /\ (side < 0 <=> m > n)
  BY DEF RightPair, RightTurned
<1>1. /\ m \in Int /\ n \in Int
      /\ m > 0 <=> (v > 0 /\ a > 0) \/ (v < 0 /\ a < 0)
      /\ m < 0 <=> (v > 0 /\ a < 0) \/ (v < 0 /\ a > 0)
      /\ n > 0 <=> (y > 0 /\ d > 0) \/ (y < 0 /\ d < 0)
      /\ n < 0 <=> (y > 0 /\ d < 0) \/ (y < 0 /\ d > 0)
  BY <1>0, SignOfProduct
<1> HIDE DEF m, n
<1> QED BY <1>0, <1>1 DEF Wraps, One, RightChange, RightTurned

\* A point, and whether its angle is in (0, pi].
HalfPlane(x, y, P) ==
    /\ x \in Int /\ y \in Int /\ (x # 0 \/ y # 0)
    /\ P \in BOOLEAN /\ (P <=> y > 0 \/ (y = 0 /\ x < 0))

HalfPair(x, y, P, u, v, Q, side) ==
    HalfPlane(x, y, P) /\ HalfPlane(u, v, Q) /\ side \in Int /\ side = x * v - y * u

HalfChange(x, y, P, u, v, Q, side) ==
    Wraps(~P, y > 0, ~Q, side)
      = Wraps(P, y < 0, Q, side) + One(Q) - One(P)

\* The same for the half turn, with x, y and u, v the coordinates before it.
LEMMA HalfSigns ==
    ASSUME NEW x, NEW y, NEW P, NEW u, NEW v, NEW Q, NEW side, HalfPair(x, y, P, u, v, Q, side)
    PROVE  HalfChange(x, y, P, u, v, Q, side)
<1> DEFINE m == x * v  n == y * u
<1>0. /\ x \in Int /\ y \in Int /\ u \in Int /\ v \in Int /\ side \in Int /\ side = m - n
      /\ HalfPlane(x, y, P) /\ HalfPlane(u, v, Q)
  BY DEF HalfPair, HalfPlane
<1>1. /\ m \in Int /\ n \in Int
      /\ m > 0 <=> (x > 0 /\ v > 0) \/ (x < 0 /\ v < 0)
      /\ m < 0 <=> (x > 0 /\ v < 0) \/ (x < 0 /\ v > 0)
      /\ n > 0 <=> (y > 0 /\ u > 0) \/ (y < 0 /\ u < 0)
      /\ n < 0 <=> (y > 0 /\ u < 0) \/ (y < 0 /\ u > 0)
  BY <1>0, SignOfProduct
<1> HIDE DEF m, n
<1> QED BY <1>0, <1>1 DEF Wraps, One, HalfChange, HalfPlane

\* WrapTurns in these terms.
LEMMA WrapsIs ==
    ASSUME NEW p, NEW q, NEW side \in Int,
           Cross(p, q) < 0 <=> side < 0, Cross(p, q) >= 0 <=> side >= 0
    PROVE  WrapTurns(p, q) = Wraps(Positive(p), p[2] < 0, Positive(q), side)
BY DEF WrapTurns, Wraps, Negative

\* Turning p and q changes the turns that wrapping adds to the increment from p
\* to q by the difference of their cuts.
LEMMA SpunWraps ==
    ASSUME NEW g \in Int \X Int, NEW p \in Int \X Int, NEW q \in Int \X Int,
           g # Centre, p # Centre, q # Centre
    PROVE  WrapTurns(Spun(g, p), Spun(g, q)) = WrapTurns(p, q) + Cut(g, q) - Cut(g, p)
<1> DEFINE c == g[1]  s == g[2]  x == p[1]  y == p[2]  u == q[1]  v == q[2]
           a == s * x + c * y  b == c * x - s * y
           d == s * u + c * v  e == c * u - s * v
           side == Cross(p, q)
           P == Positive(p)  Q == Positive(q)
           PP == Positive(Spun(g, p))  QQ == Positive(Spun(g, q))
<1>1. /\ c \in Int /\ s \in Int /\ x \in Int /\ y \in Int /\ u \in Int /\ v \in Int
      /\ (c # 0 \/ s # 0) /\ (x # 0 \/ y # 0) /\ (u # 0 \/ v # 0)
  <2>1. g = <<c, s>> /\ p = <<x, y>> /\ q = <<u, v>>
    OBVIOUS
  <2> QED BY <2>1 DEF Centre
<1>2. Spun(g, p) = <<b, a>> /\ Spun(g, q) = <<e, d>>
  BY DEF Spun
<1>3. side \in Int /\ side = x * v - y * u
  BY SpunCross DEF Cross
<1>4. WrapTurns(p, q) = Wraps(P, y < 0, Q, side)
  BY <1>3, WrapsIs
<1>5. WrapTurns(Spun(g, p), Spun(g, q)) = Wraps(PP, a < 0, QQ, side)
  <2>1. Spun(g, p)[2] = a
    BY <1>2
  <2> HIDE DEF a
  <2> QED BY <1>3, <2>1, SpunCross, WrapsIs
<1>6. /\ P \in BOOLEAN /\ Q \in BOOLEAN /\ PP \in BOOLEAN /\ QQ \in BOOLEAN
      /\ P <=> y > 0 \/ (y = 0 /\ x < 0)
      /\ Q <=> v > 0 \/ (v = 0 /\ u < 0)
      /\ PP <=> a > 0 \/ (a = 0 /\ b < 0)
      /\ QQ <=> d > 0 \/ (d = 0 /\ e < 0)
  <2> HIDE DEF a, b, d, e, x, y, u, v
  <2>1. /\ Spun(g, p)[1] = b /\ Spun(g, p)[2] = a /\ Spun(g, q)[1] = e /\ Spun(g, q)[2] = d
    BY <1>2
  <2>2. p[1] = x /\ p[2] = y /\ q[1] = u /\ q[2] = v
    BY DEF x, y, u, v
  <2> QED BY <2>1, <2>2 DEF Positive
<1>7. /\ Cut(g, p) = (IF s >= 0 /\ P /\ ~PP THEN 1 ELSE IF s < 0 /\ ~P /\ PP THEN -1 ELSE 0)
      /\ Cut(g, q) = (IF s >= 0 /\ Q /\ ~QQ THEN 1 ELSE IF s < 0 /\ ~Q /\ QQ THEN -1 ELSE 0)
  <2> HIDE DEF P, Q, PP, QQ
  <2> QED BY <1>1, <1>6 DEF Cut, P, Q, PP, QQ
<1>8. s * side = v * a - y * d
  <2> HIDE DEF c, s, x, y, u, v, side
  <2>1. s * (x * v - y * u) = v * (s * x + c * y) - y * (s * u + c * v)
    BY <1>1
  <2> QED BY <1>3, <2>1
<1>9. s # 0 => /\ a \in Int /\ d \in Int /\ (y # 0 \/ a # 0) /\ (v # 0 \/ d # 0)
               /\ y = 0 => (x < 0 <=> (s > 0 /\ a < 0) \/ (s < 0 /\ a > 0))
               /\ a = 0 => (b < 0 <=> (s > 0 /\ y > 0) \/ (s < 0 /\ y < 0))
               /\ v = 0 => (u < 0 <=> (s > 0 /\ d < 0) \/ (s < 0 /\ d > 0))
               /\ d = 0 => (e < 0 <=> (s > 0 /\ v > 0) \/ (s < 0 /\ v < 0))
  <2> HIDE DEF c, s, x, y, u, v
  <2> QED BY <1>1, SpunHalves
<1>10. s = 0 => /\ a = c * y /\ b = c * x /\ d = c * v /\ e = c * u
  <2> HIDE DEF c, s, x, y, u, v
  <2> QED BY <1>1
<1> HIDE DEF c, s, x, y, u, v, a, b, d, e, side, P, Q, PP, QQ
<1>11. CASE s > 0
  <2>1. Wraps(PP, a < 0, QQ, side)
          = Wraps(P, y < 0, Q, side) + One(Q /\ ~QQ) - One(P /\ ~PP)
    <3>1. LeftTurned(y, a, P, PP)
      BY <1>1, <1>6, <1>9, <1>11 DEF LeftTurned
    <3>2. LeftTurned(v, d, Q, QQ)
      BY <1>1, <1>6, <1>9, <1>11 DEF LeftTurned
    <3>3. s * side < 0 <=> side < 0
      BY <1>1, <1>3, <1>11, SignOfProduct
    <3>4. s * side > 0 <=> side > 0
      BY <1>1, <1>3, <1>11, SignOfProduct
    <3>5. v * a \in Int /\ y * d \in Int
      BY <1>1, <1>9, <1>11, SignOfProduct
    <3>6. side < 0 <=> v * a < y * d
      BY <1>3, <1>8, <3>3, <3>4, <3>5
    <3>7. LeftPair(y, a, P, PP, v, d, Q, QQ, side)
      BY <1>3, <3>1, <3>2, <3>6 DEF LeftPair
    <3>8. LeftChange(y, a, P, PP, v, d, Q, QQ, side)
      BY <3>7, LeftSigns, Zenon
    <3> QED BY <3>8 DEF LeftChange
  <2>2. Cut(g, p) = One(P /\ ~PP) /\ Cut(g, q) = One(Q /\ ~QQ)
    BY <1>1, <1>7, <1>11 DEF One
  <2> QED BY <1>4, <1>5, <2>1, <2>2
<1>12. CASE s < 0
  <2>1. Wraps(PP, a < 0, QQ, side)
          = Wraps(P, y < 0, Q, side) - One(~Q /\ QQ) + One(~P /\ PP)
    <3>1. RightTurned(y, a, P, PP)
      BY <1>1, <1>6, <1>9, <1>12 DEF RightTurned
    <3>2. RightTurned(v, d, Q, QQ)
      BY <1>1, <1>6, <1>9, <1>12 DEF RightTurned
    <3>3. s * side < 0 <=> side > 0
      BY <1>1, <1>3, <1>12, SignOfProduct
    <3>4. s * side > 0 <=> side < 0
      BY <1>1, <1>3, <1>12, SignOfProduct
    <3>5. v * a \in Int /\ y * d \in Int
      BY <1>1, <1>9, <1>12, SignOfProduct
    <3>6. side < 0 <=> v * a > y * d
      BY <1>3, <1>8, <3>3, <3>4, <3>5
    <3>7. RightPair(y, a, P, PP, v, d, Q, QQ, side)
      BY <1>3, <3>1, <3>2, <3>6 DEF RightPair
    <3>8. RightChange(y, a, P, PP, v, d, Q, QQ, side)
      BY <3>7, RightSigns, Zenon
    <3> QED BY <3>8 DEF RightChange
  <2>2. Cut(g, p) = -One(~P /\ PP) /\ Cut(g, q) = -One(~Q /\ QQ)
    BY <1>1, <1>7, <1>12 DEF One
  <2>3. Wraps(P, y < 0, Q, side) \in Int /\ One(~P /\ PP) \in Int /\ One(~Q /\ QQ) \in Int
    BY DEF Wraps, One
  <2> QED BY <1>4, <1>5, <2>1, <2>2, <2>3
<1>13. CASE s = 0 /\ c > 0
  <2>1. /\ (a > 0 <=> y > 0) /\ (a < 0 <=> y < 0) /\ (b < 0 <=> x < 0) /\ a \in Int
        /\ (d > 0 <=> v > 0) /\ (d < 0 <=> v < 0) /\ (e < 0 <=> u < 0) /\ d \in Int
    BY <1>1, <1>10, <1>13, SignOfProduct
  <2>2. (PP <=> P) /\ (QQ <=> Q) /\ (a < 0 <=> y < 0)
    BY <1>1, <1>6, <2>1
  <2>3. Cut(g, p) = 0 /\ Cut(g, q) = 0
    BY <1>7, <1>13, <2>2
  <2>4. Wraps(PP, a < 0, QQ, side) = Wraps(P, y < 0, Q, side) /\ Wraps(P, y < 0, Q, side) \in Int
    BY <2>2 DEF Wraps
  <2> QED BY <1>4, <1>5, <2>3, <2>4
<1>14. CASE s = 0 /\ c < 0
  <2>1. /\ (a > 0 <=> y < 0) /\ (a < 0 <=> y > 0) /\ (b < 0 <=> x > 0) /\ a \in Int
        /\ (d > 0 <=> v < 0) /\ (d < 0 <=> v > 0) /\ (e < 0 <=> u > 0) /\ d \in Int
    BY <1>1, <1>10, <1>14, SignOfProduct
  <2>2. (PP <=> ~P) /\ (QQ <=> ~Q) /\ (a < 0 <=> y > 0)
    BY <1>1, <1>6, <2>1
  <2>3. Cut(g, p) = One(P) /\ Cut(g, q) = One(Q)
    BY <1>7, <1>14, <2>2 DEF One
  <2>4. Wraps(~P, y > 0, ~Q, side)
          = Wraps(P, y < 0, Q, side) + One(Q) - One(P)
    <3>1. HalfPlane(x, y, P)
      BY <1>1, <1>6 DEF HalfPlane
    <3>2. HalfPlane(u, v, Q)
      BY <1>1, <1>6 DEF HalfPlane
    <3>3. HalfPair(x, y, P, u, v, Q, side)
      BY <1>3, <3>1, <3>2 DEF HalfPair
    <3>4. HalfChange(x, y, P, u, v, Q, side)
      BY <3>3, HalfSigns, Zenon
    <3> QED BY <3>4 DEF HalfChange
  <2>5. Wraps(PP, a < 0, QQ, side) = Wraps(~P, y > 0, ~Q, side)
    BY <2>2 DEF Wraps
  <2> QED BY <1>4, <1>5, <2>3, <2>4, <2>5
<1> QED BY <1>1, <1>11, <1>12, <1>13, <1>14

-----------------------------------------------------------------------------
(* The winding number of a loop that a fiber turns about the s3 axis *)

Increments(t) ==
    [n \in 1 .. Len(t) |-> WrapTurns(Projection(t[n]), Projection(t[1 + (n % Len(t))]))]

Trajectories == Seq(Int \X Int \X Int)

LEMMA WrapTurnsInt == \A p, q : WrapTurns(p, q) \in Int
BY DEF WrapTurns

LEMMA WindingIsSum ==
    ASSUME NEW t \in Trajectories
    PROVE  \E total \in [0 .. Len(t) -> Int] :
              /\ Sums(total, Increments(t), Len(t))
              /\ winding_number_s3(t) = total[Len(t)]
<1> DEFINE W(total) == [n \in 0 .. Len(t) |->
                          IF n = 0 THEN 0
                          ELSE total[n - 1] + WrapTurns(Projection(t[n]), Projection(t[1 + (n % Len(t))]))]
           total == CHOOSE f : f = W(f)
<1>1. winding_number_s3(t) = total[Len(t)]
  BY DEF winding_number_s3
<1>2. Len(t) \in Nat /\ Increments(t) \in [1 .. Len(t) -> Int]
  BY WrapTurnsInt, SeqTyped DEF Increments, Trajectories
<1>3. \A f : f = W(f) <=> Sums(f, Increments(t), Len(t))
  <2> TAKE f
  <2>1. ASSUME NEW n \in 0 .. Len(t), n # 0
        PROVE  WrapTurns(Projection(t[n]), Projection(t[1 + (n % Len(t))])) = Increments(t)[n]
    <3>1. n \in 1 .. Len(t)
      BY <1>2, <2>1
    <3> QED BY <3>1 DEF Increments
  <2> DEFINE V == [n \in 0 .. Len(t) |-> IF n = 0 THEN 0 ELSE f[n - 1] + Increments(t)[n]]
  <2>2. W(f) = V
    BY <2>1
  <2>3. Sums(f, Increments(t), Len(t)) <=> f = V
    BY DEF Sums
  <2> HIDE DEF W, V
  <2> QED BY <2>2, <2>3
<1> HIDE DEF W
<1>4. \E f : f = W(f)
  BY <1>2, <1>3, SumsExist
<1>5. total = W(total)
  BY <1>4
<1> HIDE DEF total
<1>6. Sums(total, Increments(t), Len(t))
  BY <1>3, <1>5
<1>7. total \in [0 .. Len(t) -> Int]
  BY <1>2, <1>6, SumsInt
<1> QED BY <1>1, <1>6, <1>7

\* The rows a, b and c, d of a matrix are orthogonal, of length k and in order.
TurnsPlane(a, b, c, d, k) ==
    /\ a \in Int /\ b \in Int /\ c \in Int /\ d \in Int /\ k \in Int /\ k > 0
    /\ a * a + b * b = k * k /\ c * c + d * d = k * k
    /\ a * c + b * d = 0 /\ a * d - b * c > 0

\* Such a matrix multiplies by a complex number.
LEMMA PlaneTurn ==
    ASSUME NEW a, NEW b, NEW c, NEW d, NEW k, TurnsPlane(a, b, c, d, k)
    PROVE  d = a /\ b = -c /\ (a # 0 \/ c # 0)
<1> USE DEF TurnsPlane
<1> DEFINE area == a * d - b * c
           square == k * k
<1>1. area \in Int /\ square \in Int /\ square > 0 /\ area > 0
  BY SMT
<1>2. area * area = square * square
  <2>1. area * area + (a * c + b * d) * (a * c + b * d)
          = (a * a + b * b) * (c * c + d * d)
    BY SMT
  <2>2. (a * c + b * d) * (a * c + b * d) = 0 * 0
    OBVIOUS
  <2>3. (a * a + b * b) * (c * c + d * d) = square * square
    OBVIOUS
  <2> HIDE DEF area, square
  <2> QED BY <1>1, <2>1, <2>2, <2>3
<1>3. area = square
  <2> HIDE DEF area, square
  <2>1. (area - square) * (area + square) = 0
    BY <1>1, <1>2
  <2>2. area + square > 0 /\ area + square \in Int /\ area - square \in Int
    BY <1>1
  <2> QED BY <1>1, <2>1, <2>2
<1>4. (a - d) * (a - d) + (b + c) * (b + c)
        = (a * a + b * b) + (c * c + d * d) - 2 * area
  BY SMT
<1>5. (a - d) * (a - d) + (b + c) * (b + c) = 0
  <2>1. (a * a + b * b) + (c * c + d * d) - 2 * area = square + square - 2 * square
    BY <1>3
  <2> HIDE DEF area, square
  <2> QED BY <1>1, <1>4, <2>1
<1>6. a - d = 0 /\ b + c = 0
  <2> DEFINE e == a - d  h == b + c
  <2>1. e \in Int /\ h \in Int /\ e * e + h * h = 0
    BY <1>5
  <2> HIDE DEF e, h
  <2>2. e = 0 /\ h = 0
    BY <2>1
  <2> QED BY <2>2 DEF e, h
<1>7. d = a /\ b = -c
  BY <1>6
<1>8. a # 0 \/ c # 0
  <2>1. ASSUME a = 0, c = 0 PROVE FALSE
    BY <1>1, <1>7, <2>1
  <2> QED BY <2>1
<1> QED BY <1>7, <1>8

\* A rotation that keeps the s3 axis turns the sphere about it.
LEMMA FixingS3 ==
    ASSUME NEW m, IsRotation(m), FixesS3(m)
    PROVE  /\ m[1][1] \in Int /\ m[2][1] \in Int /\ m[3][3] \in Int
           /\ m[2][2] = m[1][1] /\ m[1][2] = -m[2][1] /\ (m[1][1] # 0 \/ m[2][1] # 0)
           /\ m[1][3] = 0 /\ m[2][3] = 0 /\ m[3][1] = 0 /\ m[3][2] = 0
<1> DEFINE a == m[1][1]  b == m[1][2]  c == m[2][1]  d == m[2][2]
           e == m[3][1]  h == m[3][2]  k == m[3][3]
           area == a * d - b * c
<1>1. /\ a \in Int /\ b \in Int /\ c \in Int /\ d \in Int /\ e \in Int /\ h \in Int /\ k \in Int
      /\ m[1][3] = 0 /\ m[2][3] = 0 /\ k > 0
  <2>1. \A i, j \in 1 .. 3 : m[i][j] \in Int
    BY DEF IsRotation
  <2> QED BY <2>1 DEF FixesS3
<1>2. /\ a * c + b * d + 0 * 0 = 0 /\ a * e + b * h + 0 * k = 0 /\ c * e + d * h + 0 * k = 0
      /\ a * a + b * b + 0 * 0 = e * e + h * h + k * k
      /\ c * c + d * d + 0 * 0 = e * e + h * h + k * k
  BY <1>1 DEF IsRotation, Dot
<1>3. a * (d * k - 0 * h) + b * (0 * e - c * k) + 0 * (c * h - d * e) > 0
  BY <1>1 DEF IsRotation, Determinant, Dot
<1> HIDE DEF a, b, c, d, e, h, k
<1>4. a * c + b * d = 0 /\ a * e + b * h = 0 /\ c * e + d * h = 0
  BY <1>1, <1>2
<1>5. area \in Int /\ k * area > 0
  <2>1. a * (d * k - 0 * h) + b * (0 * e - c * k) + 0 * (c * h - d * e) = k * area
    BY <1>1
  <2> QED BY <1>1, <1>3, <2>1
<1>6. area > 0
  <2> HIDE DEF area
  <2> QED BY <1>1, <1>5, SignOfProduct
<1>7. e = 0 /\ h = 0
  <2>1. area * e = d * (a * e + b * h) - b * (c * e + d * h)
    BY <1>1
  <2>2. area * h = a * (c * e + d * h) - c * (a * e + b * h)
    BY <1>1
  <2>3. area * e = 0 /\ area * h = 0
    BY <1>1, <1>4, <2>1, <2>2
  <2> HIDE DEF area
  <2> QED BY <1>1, <1>5, <1>6, <2>3, SignOfProduct
<1>8. a * a + b * b = k * k /\ c * c + d * d = k * k
  BY <1>1, <1>2, <1>7
<1>9. d = a /\ b = -c /\ (a # 0 \/ c # 0)
  <2>1. TurnsPlane(a, b, c, d, k)
    BY <1>1, <1>4, <1>6, <1>8 DEF TurnsPlane
  <2> QED BY <2>1, PlaneTurn, Zenon
<1> QED BY <1>1, <1>7, <1>9 DEF a, b, c, d, e, h, k

\* What such a rotation does to a vector off the axis, seen along the axis.
LEMMA SpunProjects ==
    ASSUME NEW m, IsRotation(m), FixesS3(m), NEW v \in Int \X Int \X Int, OffAxis(v)
    PROVE  LET g == <<m[1][1], m[2][1]>>
           IN  /\ g \in Int \X Int /\ g # Centre
               /\ Projection(v) \in Int \X Int /\ Projection(v) # Centre
               /\ Projection(apply(m, v)) = Spun(g, Projection(v))
               /\ apply(m, v) \in Int \X Int \X Int
<1> DEFINE c == m[1][1]  s == m[2][1]  k == m[3][3]
           x == v[1]  y == v[2]  z == v[3]
           a == c * x - s * y
           b == s * x + c * y
<1>1. /\ c \in Int /\ s \in Int /\ k \in Int /\ (c # 0 \/ s # 0)
      /\ m[2][2] = c /\ m[1][2] = -s
      /\ m[1][3] = 0 /\ m[2][3] = 0 /\ m[3][1] = 0 /\ m[3][2] = 0
  BY FixingS3
<1>2. x \in Int /\ y \in Int /\ z \in Int
  OBVIOUS
<1>3. x # 0 \/ y # 0
  BY DEF OffAxis
<1>4. Projection(v) = <<x, y>>
  BY DEF Projection
<1>5. /\ Dot(m[1], v) = c * x + (-s) * y + 0 * z
      /\ Dot(m[2], v) = s * x + c * y + 0 * z
      /\ Dot(m[3], v) = 0 * x + 0 * y + k * z
  BY <1>1 DEF Dot
<1> HIDE DEF c, s, k, x, y, z
<1>6. /\ c * x + (-s) * y + 0 * z = a
      /\ s * x + c * y + 0 * z = b
      /\ 0 * x + 0 * y + k * z = k * z
      /\ a \in Int /\ b \in Int /\ k * z \in Int
  BY <1>1, <1>2
<1>7. a # 0 \/ b # 0
  <2> DEFINE scale == c * c + s * s
  <2>1. scale \in Int /\ scale > 0
    BY <1>1
  <2>2. scale * x = c * a + s * b /\ scale * y = c * b - s * a
    BY <1>1, <1>2
  <2>3. ASSUME a = 0, b = 0 PROVE scale * x = 0 /\ scale * y = 0
    BY <1>1, <2>2, <2>3
  <2> HIDE DEF scale, a, b
  <2>4. ASSUME a = 0, b = 0 PROVE x = 0 /\ y = 0
    BY <1>2, <2>1, <2>3, <2>4, SignOfProduct
  <2> QED BY <1>3, <2>4
<1>8. apply(m, v) = <<a, b, k * z>>
  BY <1>5, <1>6 DEF apply
<1>9. Spun(<<c, s>>, <<x, y>>) = <<a, b>>
  BY DEF Spun
<1> HIDE DEF a, b
<1>10. Projection(apply(m, v)) = <<a, b>>
  BY <1>7, <1>8 DEF Projection, OffAxis
<1>11. <<c, s>> # Centre /\ <<x, y>> # Centre
  BY <1>1, <1>3 DEF Centre
<1> QED BY <1>1, <1>2, <1>4, <1>6, <1>8, <1>9, <1>10, <1>11 DEF c, s

LoopsOffAxis == {t \in Trajectories : \A i \in DOMAIN t : OffAxis(t[i])}

\* A rotation about the s3 axis keeps the winding number.
LEMMA RotationKeepsWinding ==
    ASSUME NEW m, IsRotation(m), FixesS3(m), NEW t \in LoopsOffAxis
    PROVE  winding_number_s3(Rotated(m, t)) = winding_number_s3(t)
<1> DEFINE n == Len(t)
           s == Rotated(m, t)
           g == <<m[1][1], m[2][1]>>
           next(k) == 1 + (k % n)
<1>1. /\ t \in Trajectories /\ n \in Nat /\ DOMAIN t = 1 .. n
      /\ \A k \in 1 .. n : t[k] \in Int \X Int \X Int /\ OffAxis(t[k])
  BY SeqTyped DEF LoopsOffAxis, Trajectories
<1>2. \A k \in 1 .. n : s[k] = apply(m, t[k])
  BY <1>1 DEF Rotated
<1>3. /\ s \in Trajectories /\ Len(s) = n /\ DOMAIN s = 1 .. n
  <2>1. s = [k \in 1 .. n |-> apply(m, t[k])]
    BY <1>1 DEF Rotated
  <2>2. \A k \in 1 .. n : apply(m, t[k]) \in Int \X Int \X Int
    BY <1>1, SpunProjects
  <2> HIDE DEF n, s
  <2>3. s \in [1 .. n -> Int \X Int \X Int]
    BY <2>1, <2>2
  <2>4. s \in Seq(Int \X Int \X Int)
    BY <1>1, <2>3, FunctionIsSeq
  <2> QED BY <1>1, <2>3, <2>4, SeqTyped DEF Trajectories
<1> DEFINE v == Increments(t)
           w == Increments(s)
           cut == [k \in 1 .. n + 1 |-> Cut(g, Projection(t[next(k - 1)]))]
<1>4. v \in [1 .. n -> Int] /\ w \in [1 .. n -> Int] /\ cut \in [1 .. n + 1 -> Int]
  <2>1. \A p : Cut(g, p) \in Int
    BY DEF Cut
  <2> HIDE DEF g
  <2> QED BY <1>1, <1>3, <2>1, WrapTurnsInt DEF Increments
<1>5. ASSUME NEW k \in 1 .. n PROVE w[k] = v[k] + cut[k + 1] - cut[k]
  <2>1. /\ k + 1 \in 1 .. n + 1 /\ k \in 1 .. n + 1 /\ (k + 1) - 1 = k
        /\ (k - 1) % n = k - 1 /\ 1 + (k - 1) = k /\ next(k) \in 1 .. n
    <3> HIDE DEF n
    <3>1. n \in Nat /\ n # 0 /\ k \in 1 .. n
      BY <1>1
    <3>2. (k - 1) % n = k - 1
      BY <3>1
    <3>3. k % n \in 0 .. n - 1
      BY <3>1
    <3> QED BY <3>1, <3>2, <3>3
  <2>2. cut[k + 1] = Cut(g, Projection(t[next(k)])) /\ cut[k] = Cut(g, Projection(t[k]))
    BY <2>1
  <2>3. v[k] = WrapTurns(Projection(t[k]), Projection(t[next(k)]))
    BY DEF Increments
  <2>4. w[k] = WrapTurns(Projection(s[k]), Projection(s[next(k)]))
    BY <1>3 DEF Increments
  <2> DEFINE p == Projection(t[k])
             q == Projection(t[next(k)])
  <2>5. t[k] \in Int \X Int \X Int /\ OffAxis(t[k])
    BY <1>1
  <2>6. t[next(k)] \in Int \X Int \X Int /\ OffAxis(t[next(k)])
    BY <1>1, <2>1
  <2>7. s[k] = apply(m, t[k]) /\ s[next(k)] = apply(m, t[next(k)])
    BY <1>2, <2>1
  <2> HIDE DEF next, s, cut, v, w, n
  <2>8. /\ g \in Int \X Int /\ g # Centre /\ p \in Int \X Int /\ p # Centre
        /\ Projection(s[k]) = Spun(g, p)
    BY <2>5, <2>7, SpunProjects
  <2>9. q \in Int \X Int /\ q # Centre /\ Projection(s[next(k)]) = Spun(g, q)
    BY <2>6, <2>7, SpunProjects
  <2> HIDE DEF p, q, g
  <2>10. WrapTurns(Spun(g, p), Spun(g, q)) = WrapTurns(p, q) + Cut(g, q) - Cut(g, p)
    BY <2>8, <2>9, SpunWraps, Zenon
  <2> QED BY <2>2, <2>3, <2>4, <2>8, <2>9, <2>10 DEF p, q
<1>6. cut[n + 1] = cut[1]
  <2>1. CASE n = 0
    BY <2>1
  <2>2. CASE n # 0
    <3>1. n % n = 0 /\ 0 % n = 0 /\ (n + 1) - 1 = n /\ 1 - 1 = 0 /\ 1 \in 1 .. n + 1 /\ n + 1 \in 1 .. n + 1
      BY <1>1, <2>2
    <3> HIDE DEF g
    <3> QED BY <3>1
  <2> QED BY <2>1, <2>2
<1>7. PICK a \in [0 .. n -> Int] : Sums(a, v, n) /\ winding_number_s3(t) = a[n]
  BY <1>1, WindingIsSum
<1>8. PICK b \in [0 .. n -> Int] : Sums(b, w, n) /\ winding_number_s3(s) = b[n]
  BY <1>3, WindingIsSum
<1> HIDE DEF n, s, v, w, cut
<1>9. cut[1] \in Int /\ n \in 0 .. n /\ a[n] \in Int
  <2>1. n \in 0 .. n /\ 1 \in 1 .. n + 1
    BY <1>1
  <2> QED BY <1>4, <2>1
<1>10. n \in Nat /\ Sums(a, v, n) /\ Sums(b, w, n) /\ Shifted(w, v, cut, n)
  BY <1>1, <1>5, <1>7, <1>8 DEF Shifted
<1>11. b[n] = a[n] + cut[n + 1] - cut[1]
  BY <1>4, <1>10, Telescope, Zenon
<1>12. b[n] = a[n]
  BY <1>6, <1>9, <1>11
<1> QED BY <1>7, <1>8, <1>12 DEF s

=============================================================================
