--------------------------- MODULE SchemaRegistry ----------------------------
(***************************************************************************)
(* The schema half of one operator's registry: the application schemas and *)
(* the (operator, OAM mode) index that the BadgerDB store keeps beside     *)
(* them (flr/internal/registry/schema_engine.go, schema_store.go).  The    *)
(* engine publishes, deprecates and revokes; the SchemaStore interface      *)
(* allows more (StoreNext).  Every operation ends in one Badger            *)
(* transaction and is one action.                                          *)
(***************************************************************************)
EXTENDS Integers

CONSTANTS SchemaIds,   \* schema identifiers
          Oams,        \* OAM modes
          Versions     \* schema version numbers

VARIABLES schemas,     \* "schema:<id>" records
          oamIdx       \* "schema_oam:<op>:<oam>" -> schema id

schemaVars == <<schemas, oamIdx>>

Statuses == {"ACTIVE", "DEPRECATED", "REVOKED"}

NoSchema == [status |-> "NONE"]

NoId == "none"

ASSUME NoIdIsNoSchema == NoId \notin SchemaIds

Schema == [status : Statuses, oam : Oams, version : Versions]

-----------------------------------------------------------------------------
(* The store *)

\* The ACTIVE schema that the index entry of mode o leads to, if any.
Occupants(o) ==
    {id \in SchemaIds : oamIdx[o] = id /\ schemas[id].status = "ACTIVE"}

MutantCreateUnchecked(id, s) ==
    /\ schemas[id] = NoSchema
    /\ schemas' = [schemas EXCEPT ![id] = s]
    /\ oamIdx' = IF s.status = "ACTIVE" THEN [oamIdx EXCEPT ![s.oam] = id] ELSE oamIdx

CreateSchema(id, s) ==
    /\ schemas[id] = NoSchema
    /\ s.status = "ACTIVE" => Occupants(s.oam) = {}
    /\ schemas' = [schemas EXCEPT ![id] = s]
    /\ oamIdx' = IF s.status = "ACTIVE" THEN [oamIdx EXCEPT ![s.oam] = id] ELSE oamIdx

MutantUpdateKeepsIndex(id, s) ==
    LET old == schemas[id]
    IN  /\ old # NoSchema
        /\ old.status # "ACTIVE" /\ s.status = "ACTIVE" => Occupants(s.oam) \subseteq {id}
        /\ schemas' = [schemas EXCEPT ![id] = s]
        /\ oamIdx' = IF old.status # "ACTIVE" /\ s.status = "ACTIVE"
                     THEN [oamIdx EXCEPT ![s.oam] = id] ELSE oamIdx

\* UpdateSchema replaces the whole record.  It adjusts the index only when the
\* status crosses the boundary between ACTIVE and the rest, and always the
\* entry of the NEW record's mode.
UpdateSchema(id, s) ==
    LET old == schemas[id]
        leaves == old.status = "ACTIVE" /\ s.status # "ACTIVE"
        enters == old.status # "ACTIVE" /\ s.status = "ACTIVE"
    IN  /\ old # NoSchema
        /\ enters => Occupants(s.oam) \subseteq {id}
        /\ schemas' = [schemas EXCEPT ![id] = s]
        /\ oamIdx' = [oamIdx EXCEPT ![s.oam] =
                         IF leaves THEN NoId ELSE IF enters THEN id ELSE @]

DeleteSchema(id) ==
    /\ schemas[id] # NoSchema
    /\ schemas' = [schemas EXCEPT ![id] = NoSchema]
    /\ oamIdx' = [oamIdx EXCEPT ![schemas[id].oam] = IF @ = id THEN NoId ELSE @]

ListActiveSchemas == {id \in SchemaIds : schemas[id].status = "ACTIVE"}

\* GetActiveSchemaForOam: the indexed schema, provided it is ACTIVE.
GetActiveSchemaForOam(o) == Occupants(o)

-----------------------------------------------------------------------------
(* The engine.  Structural validation and signing need no state; a status *)
(* left unspecified by the caller becomes ACTIVE.  The engine lock covers   *)
(* the read and the update of DeprecateSchema and RevokeSchema.             *)

RegisterSchema(id, o, v, status) ==
    CreateSchema(id, [status  |-> IF status = "UNSPECIFIED" THEN "ACTIVE" ELSE status,
                      oam     |-> o,
                      version |-> v])

WithStatus(id, status) ==
    [status |-> status, oam |-> schemas[id].oam, version |-> schemas[id].version]

DeprecateSchema(id) ==
    /\ schemas[id] # NoSchema
    /\ UpdateSchema(id, WithStatus(id, "DEPRECATED"))

RevokeSchema(id) ==
    /\ schemas[id] # NoSchema
    /\ UpdateSchema(id, WithStatus(id, "REVOKED"))

Init ==
    /\ schemas = [id \in SchemaIds |-> NoSchema]
    /\ oamIdx = [o \in Oams |-> NoId]

EngineNext ==
    \E id \in SchemaIds :
        \/ \E o \in Oams, v \in Versions, st \in Statuses \union {"UNSPECIFIED"} :
               RegisterSchema(id, o, v, st)
        \/ DeprecateSchema(id)
        \/ RevokeSchema(id)

\* Callers of the store that keep a schema on its mode.  The engine is one; no
\* other caller exists in the repository, but the interface is open to them.
StoreNext ==
    \E id \in SchemaIds :
        \/ \E s \in Schema : CreateSchema(id, s)
        \/ /\ schemas[id] # NoSchema
           /\ \E s \in Schema : s.oam = schemas[id].oam /\ UpdateSchema(id, s)
        \/ DeleteSchema(id)

Next == EngineNext \/ StoreNext

Spec == Init /\ [][Next]_schemaVars

-----------------------------------------------------------------------------
(* Properties *)

\* Records and index entries hold values of their types.
TypeOK ==
    /\ schemas \in [SchemaIds -> Schema \union {NoSchema}]
    /\ oamIdx \in [Oams -> SchemaIds \union {NoId}]

\* The index is exact: an entry leads to an ACTIVE schema of its own mode, and
\* every ACTIVE schema is the one its mode's entry names.
IndexExact ==
    /\ \A o \in Oams : oamIdx[o] # NoId =>
           /\ schemas[oamIdx[o]].status = "ACTIVE"
           /\ schemas[oamIdx[o]].oam = o
    /\ \A id \in SchemaIds : schemas[id].status = "ACTIVE" => oamIdx[schemas[id].oam] = id

\* At most one schema of an OAM mode is ACTIVE.
OneActivePerOam ==
    \A i, j \in SchemaIds :
        schemas[i].status = "ACTIVE" /\ schemas[j].status = "ACTIVE"
            /\ schemas[i].oam = schemas[j].oam => i = j

=============================================================================
