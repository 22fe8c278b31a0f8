--------------------------- MODULE ObgProvisioning ---------------------------
(***************************************************************************)
(* The schema registry together with a gateway host that programs its      *)
(* register file from it (crates/otap-flr-client/src/lib.rs).  The client  *)
(* borrows the register file for a whole call of program_register_file,    *)
(* but the registry is another process: it moves on between the steps.     *)
(***************************************************************************)
EXTENDS SchemaRegistry, CsrMap

CONSTANTS PayloadBytes(_, _), \* payload size of a mode's schema in a given version
          KeyRank(_),        \* position of "schema:<id>" in the store's key order
          Configs            \* wavelength, secret and auth mode of a host

LocalOams == {1, 3, 4}

\* What the types of program_register_file's arguments admit: a Wavelength, 32
\* secret bytes (as eight words) and a flag.
ASSUME ConfigsTyped ==
    \A c \in Configs :
        /\ c.wavelength \in 0 .. MAX_CHANNEL
        /\ c.secret \in [0 .. SECRET_WORDS - 1 -> Nat]
        /\ c.topological \in BOOLEAN

VARIABLES rf,          \* the register file
          call,        \* the client's progress through program_register_file
          fetched,     \* the entries of the registry's answer still to be mapped
          stopped,     \* should_stop() of refresh_loop
          server,      \* who answers in front of the registry, see below
          published    \* modes that have had an ACTIVE schema

clientVars == <<rf, call, fetched, stopped>>
obgVars == <<schemaVars, clientVars, server, published>>

\* flrd is this repository's daemon.  named stands for a server that writes its
\* answers the way the client's tests have them (tests/mock_flr.rs).
Servers == {"flrd", "named"}

\* The closed set of schemas the gateway was built with: handle and size.
csr_handle(charge) == CASE charge = 1 -> 1 [] charge = 3 -> 2 [] charge = 4 -> 3

LocalBytes(charge) == CASE charge = 1 -> 256 [] charge = 3 -> 64 [] charge = 4 -> 32

-----------------------------------------------------------------------------
(* program_register_file *)

\* A schema as the registry's answer lists it.
Entry(id) ==
    [id    |-> id,
     oam   |-> schemas[id].oam,
     bytes |-> PayloadBytes(schemas[id].oam, schemas[id].version)]

\* Wavelength, secret, control and tolerance are written before the registry
\* is asked, so they stay whatever the registry answers.
Configure(config) ==
    /\ call = "idle" /\ ~stopped
    /\ rf' = write_settings(rf, config)
    /\ call' = "listing"
    /\ UNCHANGED <<fetched, stopped>>

\* SchemaStatus in JSON: Go writes the int32 it is, the tests have its name.
JsonStatus(status) ==
    IF server = "named" THEN status
    ELSE CASE status = "ACTIVE" -> "1" [] status = "DEPRECATED" -> "2" [] status = "REVOKED" -> "3"

\* A Go slice that nothing was appended to is null in JSON, not an empty list.
JsonNull(ids) == server = "flrd" /\ ids = {}

\* The client takes a list, and the names of SchemaStatus in its entries.
Parses(ids) ==
    /\ ~JsonNull(ids)
    /\ \A id \in ids : JsonStatus(schemas[id].status) \in Statuses \union {"UNSPECIFIED"}

MutantListIgnoresStatus ==
    /\ call = "listing"
    /\ Parses(ListActiveSchemas)
    /\ fetched' = {Entry(id) : id \in {i \in SchemaIds : schemas[i] # NoSchema}}
    /\ call' = "listed"
    /\ UNCHANGED <<rf, stopped>>

list_active_schemas ==
    /\ call = "listing"
    /\ Parses(ListActiveSchemas)
    /\ fetched' = {Entry(id) : id \in ListActiveSchemas}
    /\ call' = "listed"
    /\ UNCHANGED <<rf, stopped>>

\* An unreachable registry, an HTTP error or an unparsable body; refresh_loop
\* drops the error.
ListFails ==
    /\ call = "listing"
    /\ call' = "idle"
    /\ UNCHANGED <<rf, fetched, stopped>>

Known(entry) == entry.oam \in LocalOams

Mismatched(entry) == Known(entry) /\ entry.bytes # LocalBytes(entry.oam)

\* The loop goes through the answer in the order of the store's keys.
AtEntry(entry) ==
    /\ call = "listed" /\ entry \in fetched
    /\ \A f \in fetched : KeyRank(entry.id) <= KeyRank(f.id)

MutantUnknownEndsLoop(entry) ==
    /\ ~Known(entry)
    /\ call' = "idle" /\ fetched' = {}
    /\ UNCHANGED <<rf, stopped>>

\* A mode the gateway was not built with is passed over.
SkipEntry(entry) ==
    /\ ~Known(entry)
    /\ fetched' = fetched \ {entry}
    /\ UNCHANGED <<rf, call, stopped>>

\* A size that is not the local one ends the call with an error; what the loop
\* wrote before stays.
RefuseEntry(entry) ==
    /\ Mismatched(entry)
    /\ call' = "idle" /\ fetched' = {}
    /\ UNCHANGED <<rf, stopped>>

WriteEntry(entry) ==
    /\ Known(entry) /\ ~Mismatched(entry)
    /\ LET handle == csr_handle(entry.oam)
       IN  rf' = set_oam_to_schema(set_schema_payload(rf, handle, entry.bytes), entry.oam, handle)
    /\ fetched' = fetched \ {entry}
    /\ UNCHANGED <<call, stopped>>

\* One turn of the loop.
MapEntry ==
    \E entry \in fetched :
        AtEntry(entry) /\ (SkipEntry(entry) \/ RefuseEntry(entry) \/ WriteEntry(entry))

AllMapped ==
    /\ call = "listed" /\ fetched = {}
    /\ call' = "idle"
    /\ UNCHANGED <<rf, fetched, stopped>>

Stop ==
    /\ call = "idle" /\ ~stopped
    /\ stopped' = TRUE
    /\ UNCHANGED <<rf, call, fetched>>

-----------------------------------------------------------------------------
ObgInit ==
    /\ Init
    /\ rf = NewRegisterFile
    /\ call = "idle" /\ fetched = {} /\ stopped = FALSE
    /\ server \in Servers
    /\ published = {}

Registry ==
    /\ EngineNext
    /\ published' = published \union {o \in Oams : \E id \in SchemaIds :
                                         schemas'[id] # NoSchema /\ schemas'[id].oam = o
                                            /\ schemas'[id].status = "ACTIVE"}
    /\ UNCHANGED clientVars

Client ==
    /\ \/ \E c \in Configs : Configure(c)
       \/ list_active_schemas \/ ListFails
       \/ MapEntry \/ AllMapped
       \/ Stop
    /\ UNCHANGED <<schemaVars, published>>

ObgNext == (Registry \/ Client) /\ UNCHANGED server

\* The refresh loop keeps calling until it is stopped, and a registry that is
\* asked again and again answers some of the time (what the client makes of the
\* answer is another matter: see Parses).
ObgFair ==
    /\ WF_obgVars((\E c \in Configs : Configure(c)) /\ UNCHANGED <<schemaVars, server, published>>)
    /\ WF_obgVars((list_active_schemas \/ ListFails) /\ UNCHANGED <<schemaVars, server, published>>)
    /\ SF_obgVars(list_active_schemas /\ UNCHANGED <<schemaVars, server, published>>)
    /\ WF_obgVars((MapEntry \/ AllMapped) /\ UNCHANGED <<schemaVars, server, published>>)

ObgSpec == ObgInit /\ [][ObgNext]_obgVars /\ ObgFair

-----------------------------------------------------------------------------
(* Properties *)

Bound(o) == RtlSchema(rf, o) # 0

\* Whatever the hardware finds bound to a mode is the local handle of that
\* mode, with the local payload size, also when entries share a word; and the
\* host's own view of the tables is the same.
BoundHandleIsSized ==
    \A o \in Charges :
        /\ RtlSchema(rf, o) = schema_id_for_oam(rf, o)
        /\ Bound(o) =>
              /\ o \in LocalOams /\ RtlSchema(rf, o) = csr_handle(o)
              /\ RtlPayload(rf, csr_handle(o)) = LocalBytes(o)
              /\ schema_payload_bytes(rf, csr_handle(o)) = LocalBytes(o)

\* A mode is bound only if the registry did publish an ACTIVE schema for it.
BoundWasPublished == \A o \in LocalOams : Bound(o) => o \in published

\* The mode's schema is ACTIVE, the loop runs, and no ACTIVE schema of the
\* operator has another size than the gateway's.
Publishable(o) ==
    /\ ~stopped
    /\ GetActiveSchemaForOam(o) # {}
    /\ \A id \in ListActiveSchemas : ~Mismatched(Entry(id))

\* A mode whose schema stays publishable is bound in the end, whatever failed or
\* was refused before, by a server that writes names; flrd's answers never reach
\* the register file.
ActiveGetsBound ==
    \A o \in Oams \intersect LocalOams :
        <>[]Publishable(o) =>
            \/ server = "named" /\ <>Bound(o)
            \/ server = "flrd" /\ []~Bound(o)

=============================================================================
