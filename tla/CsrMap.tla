------------------------------- MODULE CsrMap --------------------------------
(***************************************************************************)
(* The register file of the gateway: what the host writes, what the host   *)
(* reads back (crates/otap-csr/src/lib.rs), and what the RTL decodes from  *)
(* the same words (rtl/otap_csr_block.sv).  A register file is a function  *)
(* from byte offsets to 32-bit words; the words the map leaves unused are  *)
(* left out, as nothing writes them.  An angle is in microradians.         *)
(***************************************************************************)
EXTENDS Integers

CSR_SPACE_BYTES == 1024

REG_WAVELENGTH == 0
REG_CTRL == 4
REG_AUTH_TOLERANCE == 8
REG_STATUS == 12
REG_SECRET_BASE == 16
SECRET_WORDS == 8
REG_SECRET_VALID == 48
REG_SCHEMA_PAYLOAD_BASE == 64
SCHEMA_TABLE_ENTRIES == 32
REG_OAM_TABLE_BASE == 256
OAM_TABLE_ENTRIES == 33

CTRL_ENABLE_TX == 1
CTRL_ENABLE_RX == 2
CTRL_AUTH_TOPOLOGICAL == 4

MAX_CHANNEL == 351

Charges == -16 .. 16
Handles == 1 .. SCHEMA_TABLE_ENTRIES - 1

SecretRegister(i) == REG_SECRET_BASE + 4 * i

PayloadRegister(handle) == REG_SCHEMA_PAYLOAD_BASE + 4 * (handle \div 2)

OamIndex(charge) == charge + 16

OamRegister(index) == REG_OAM_TABLE_BASE + 4 * (index \div 4)

Registers ==
    {REG_WAVELENGTH, REG_CTRL, REG_AUTH_TOLERANCE, REG_STATUS, REG_SECRET_VALID}
        \union {SecretRegister(i) : i \in 0 .. SECRET_WORDS - 1}
        \union {PayloadRegister(h) : h \in 0 .. SCHEMA_TABLE_ENTRIES - 1}
        \union {OamRegister(i) : i \in 0 .. OAM_TABLE_ENTRIES - 1}

NewRegisterFile == [offset \in Registers |-> 0]

\* The checks of read_u32 and write_u32; a refused access changes nothing.
Addressable(offset) == offset < CSR_SPACE_BYTES /\ offset % 4 = 0

write_u32(rf, offset, word) ==
    IF Addressable(offset) THEN [rf EXCEPT ![offset] = word] ELSE rf

\* Where a half or a byte of a word begins.
HalfPlace(k) == IF k = 0 THEN 1 ELSE 65536

BytePlace(k) == CASE k = 0 -> 1 [] k = 1 -> 256 [] k = 2 -> 65536 [] OTHER -> 16777216

\* The field of a word at a place, and the word with that field replaced.
Field(word, place, size) == (word \div place) % size

PutField(word, place, size, value) == word + (value - Field(word, place, size)) * place

-----------------------------------------------------------------------------
(* writer *)

set_wavelength(rf, channel) == write_u32(rf, REG_WAVELENGTH, channel)

set_ctrl(rf, value) == write_u32(rf, REG_CTRL, value)

\* Stored in milliradians, rounded.
set_auth_tolerance(rf, angle) ==
    write_u32(rf, REG_AUTH_TOLERANCE, IF angle < 0 THEN 0 ELSE (angle + 500) \div 1000)

MutantSecretSkipsLastWord(rf, secret) ==
    [rf EXCEPT ![SecretRegister(0)] = secret[0], ![SecretRegister(1)] = secret[1],
               ![SecretRegister(2)] = secret[2], ![SecretRegister(3)] = secret[3],
               ![SecretRegister(4)] = secret[4], ![SecretRegister(5)] = secret[5],
               ![SecretRegister(6)] = secret[6], ![REG_SECRET_VALID] = 1]

\* The eight words of the secret, then the flag; a secret that is already there
\* is overwritten under a flag that stays set.
set_secret(rf, secret) ==
    [rf EXCEPT ![SecretRegister(0)] = secret[0], ![SecretRegister(1)] = secret[1],
               ![SecretRegister(2)] = secret[2], ![SecretRegister(3)] = secret[3],
               ![SecretRegister(4)] = secret[4], ![SecretRegister(5)] = secret[5],
               ![SecretRegister(6)] = secret[6], ![SecretRegister(7)] = secret[7],
               ![REG_SECRET_VALID] = 1]

MutantPayloadOverwritesWord(rf, handle, bytes) ==
    write_u32(rf, PayloadRegister(handle), bytes * HalfPlace(handle % 2))

\* Handle 0 and handles beyond the table are refused.
set_schema_payload(rf, handle, bytes) ==
    IF handle \notin Handles THEN rf
    ELSE write_u32(rf, PayloadRegister(handle),
                   PutField(rf[PayloadRegister(handle)], HalfPlace(handle % 2), 65536, bytes))

set_oam_to_schema(rf, charge, handle) ==
    IF charge \notin Charges THEN rf
    ELSE LET index == OamIndex(charge)
         IN  write_u32(rf, OamRegister(index),
                       PutField(rf[OamRegister(index)], BytePlace(index % 4), 256, handle))

\* The settings that arm_register_file and program_register_file begin with.
write_settings(rf, setting) ==
    set_auth_tolerance(
        set_ctrl(set_secret(set_wavelength(rf, setting.wavelength), setting.secret),
                 CTRL_ENABLE_TX + CTRL_ENABLE_RX
                     + (IF setting.topological THEN CTRL_AUTH_TOPOLOGICAL ELSE 0)),
        10000)

-----------------------------------------------------------------------------
(* CsrView *)

view_wavelength(rf) == Field(rf[REG_WAVELENGTH], 1, 65536)

\* Wavelength::new refuses a channel beyond the C and L bands.
WavelengthValid(channel) == channel <= MAX_CHANNEL

ctrl(rf) == rf[REG_CTRL]

auth_tolerance(rf) == rf[REG_AUTH_TOLERANCE] * 1000

secret_valid(rf) == rf[REG_SECRET_VALID] % 2 = 1

shared_secret(rf) == [i \in 0 .. SECRET_WORDS - 1 |-> rf[SecretRegister(i)]]

\* Of the handles 1 to 31; for any other the code returns an error.
schema_payload_bytes(rf, handle) == Field(rf[PayloadRegister(handle)], HalfPlace(handle % 2), 65536)

schema_id_for_oam(rf, charge) ==
    Field(rf[OamRegister(OamIndex(charge))], BytePlace(OamIndex(charge) % 4), 256)

-----------------------------------------------------------------------------
(* The RTL: schema_id_lookup is five bits wide, and so is the signed *)
(* oam_lookup, which therefore cannot hold +16.                      *)

RtlPayload(rf, handle) == Field(rf[PayloadRegister(handle % 32)], HalfPlace(handle % 2), 65536)

RtlOamIndex(charge) == (charge + 16) % 32

RtlSchema(rf, charge) ==
    Field(rf[OamRegister(RtlOamIndex(charge))], BytePlace(RtlOamIndex(charge) % 4), 256)

=============================================================================
