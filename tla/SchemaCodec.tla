----------------------------- MODULE SchemaCodec -----------------------------
(***************************************************************************)
(* The fixed payload layouts and the dispatch by OAM mode                  *)
(* (crates/otap-schema/src).  A payload is known by its length, the value  *)
(* it was encoded from and the bytes that changed since; a layout is a     *)
(* sequence of slices <<field, first byte, last byte>>, in the order the   *)
(* code copies them.                                                       *)
(***************************************************************************)
EXTENDS Integers, Sequences, Functions

SchemaId == {"EquityTradeOrder", "MarketTick", "Heartbeat"}

OAM_MODE(id) ==
    CASE id = "EquityTradeOrder" -> 1 [] id = "MarketTick" -> 3 [] id = "Heartbeat" -> 4

payload_bytes(id) ==
    CASE id = "EquityTradeOrder" -> 256 [] id = "MarketTick" -> 64 [] id = "Heartbeat" -> 32

\* The receive-side table: the schema of a mode, if any.
resolve(charge) ==
    CASE charge = 1 -> {"EquityTradeOrder"}
      [] charge = 3 -> {"MarketTick"}
      [] charge = 4 -> {"Heartbeat"}
      [] OTHER -> {}

-----------------------------------------------------------------------------
(* Layouts *)

EquityEncode ==
    << <<"symbol", 0, 3>>, <<"side", 4, 4>>, <<"quantity", 8, 11>>, <<"price_cents", 16, 23>>,
       <<"timestamp_ns", 24, 31>>, <<"client_order_id", 32, 39>>, <<"firm_uuid", 40, 55>> >>

MutantEquityDecodePacked ==
    << <<"symbol", 0, 3>>, <<"side", 4, 4>>, <<"quantity", 5, 8>>, <<"price_cents", 16, 23>>,
       <<"timestamp_ns", 24, 31>>, <<"client_order_id", 32, 39>>, <<"firm_uuid", 40, 55>> >>

EquityDecode ==
    << <<"symbol", 0, 3>>, <<"side", 4, 4>>, <<"quantity", 8, 11>>, <<"price_cents", 16, 23>>,
       <<"timestamp_ns", 24, 31>>, <<"client_order_id", 32, 39>>, <<"firm_uuid", 40, 55>> >>

TickEncode ==
    << <<"symbol", 0, 7>>, <<"bid_cents", 8, 15>>, <<"ask_cents", 16, 23>>, <<"last_cents", 24, 31>>,
       <<"volume", 32, 39>>, <<"timestamp_ns", 40, 47>>, <<"_reserved", 48, 63>> >>

TickDecode ==
    << <<"symbol", 0, 7>>, <<"_reserved", 48, 63>>, <<"bid_cents", 8, 15>>, <<"ask_cents", 16, 23>>,
       <<"last_cents", 24, 31>>, <<"volume", 32, 39>>, <<"timestamp_ns", 40, 47>> >>

HeartbeatEncode ==
    << <<"node_id", 0, 7>>, <<"clock_offset_ns", 8, 15>>, <<"heartbeat_seq", 16, 23>>,
       <<"_reserved", 24, 31>> >>

HeartbeatDecode ==
    << <<"_reserved", 24, 31>>, <<"node_id", 0, 7>>, <<"clock_offset_ns", 8, 15>>,
       <<"heartbeat_seq", 16, 23>> >>

EncodeLayout(id) ==
    CASE id = "EquityTradeOrder" -> EquityEncode
      [] id = "MarketTick" -> TickEncode
      [] id = "Heartbeat" -> HeartbeatEncode

DecodeLayout(id) ==
    CASE id = "EquityTradeOrder" -> EquityDecode
      [] id = "MarketTick" -> TickDecode
      [] id = "Heartbeat" -> HeartbeatDecode

-----------------------------------------------------------------------------
(* Encoding and decoding *)

Fields(id) == {slice[1] : slice \in Range(EncodeLayout(id))}

\* What a field reads as when its bytes are not those the field was encoded to.
Garbled == 0

encode(id, value) ==
    [schema |-> id, bytes |-> payload_bytes(id), value |-> value, flipped |-> {}]

\* The bytes that encode leaves to a field: a slice copied later wins.
Encoded(id, f) ==
    LET layout == EncodeLayout(id)
        n == CHOOSE i \in DOMAIN layout : layout[i][1] = f
    IN  {b \in layout[n][2] .. layout[n][3] :
            \A m \in n + 1 .. Len(layout) : b \notin layout[m][2] .. layout[m][3]}

\* A slice reads as the field's value if it is where encode put the field and
\* none of its bytes changed.
ReadSlice(payload, slice) ==
    IF slice[2] .. slice[3] = Encoded(payload.schema, slice[1]) \ payload.flipped
    THEN payload.value[slice[1]] ELSE Garbled

\* Side::from_u8 knows two values of the byte: a changed one is the other
\* value, or none.
side_refused(id, payload) ==
    IF id = "EquityTradeOrder" /\ 4 \in payload.flipped THEN BOOLEAN ELSE {FALSE}

\* Schema::decode of one schema: no value for a buffer of the wrong length.
decode_as(id, payload) ==
    IF payload.bytes # payload_bytes(id) THEN {<< >>}
    ELSE {IF refused THEN << >>
          ELSE << [schema |-> id,
                   fields |-> [f \in Fields(id) |->
                       ReadSlice(payload, CHOOSE s \in Range(DecodeLayout(id)) : s[1] = f)]] >> :
              refused \in side_refused(id, payload)}

\* AnySchemaValue::decode: an error, or a value.
any_decode(charge, payload) ==
    IF resolve(charge) = {} THEN {<< >>}
    ELSE UNION {decode_as(id, payload) : id \in resolve(charge)}

=============================================================================
