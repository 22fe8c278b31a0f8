------------------------------- MODULE ObgLink -------------------------------
(***************************************************************************)
(* One direction of the software fabric: the sending gateway's queue and   *)
(* encoder, the simulated fiber, the receiving gateway's decoder and       *)
(* completion queue (crates/otap-obg, otap-fabric, otap-codec, otap-sim,   *)
(* and verify_trajectory of otap-crypto).  The other direction is the same *)
(* code with the ends exchanged.  It is the abstract link: a request is    *)
(* known by its number, and what words, bytes, HMAC and floating point     *)
(* decide is a choice where it is not determined.  OtapStack implements it.*)
(***************************************************************************)
EXTENDS Naturals, Sequences

CONSTANTS Configs,       \* settings a driver can latch: wavelength, secret, topological, ...
          SendCapacity, CqCapacity,
          SequenceMod,        \* number of sequence numbers (2^16 in the code)
          MaxPosts,      \* bound on requests posted
          MaxRefreshes   \* bound on rebuilds of the sending driver

VARIABLES fiber,      \* whether it rotates polarizations, whether it has bit errors
          driver,     \* settings each SoftDriver latched when it was built
          sequence,   \* next_sequence of the sending encoder
          session,    \* how often the sending driver was built
          sendQ, cq,
          outgoing,   \* requests of a pump that are not yet delivered
          posted,     \* requests posted so far
          sent,       \* transmitted requests: TRUE when nothing stood in the way
          polled      \* completions the receiving application took

linkVars == <<fiber, driver, sequence, session, sendQ, cq, outgoing, posted, sent, polled>>

Ends == {"tx", "rx"}
Unarmed == [secret |-> "none"]

\* A pump has the drivers and the queues to itself until it returns.
Pumping == outgoing # << >>

-----------------------------------------------------------------------------
(* Queues *)

\* post validates the descriptor's length against the schema, not the length
\* of the payload that comes with it.
Post(sized) ==
    /\ ~Pumping /\ posted < MaxPosts
    /\ Len(sendQ) < SendCapacity
    /\ posted' = posted + 1
    /\ sendQ' = Append(sendQ, [id |-> posted + 1, sized |-> sized])
    /\ UNCHANGED <<fiber, driver, sequence, session, cq, outgoing, sent, polled>>

\* A full queue loses its oldest completion.
push(queue, c) == Append(IF Len(queue) >= CqCapacity THEN Tail(queue) ELSE queue, c)

Poll ==
    /\ ~Pumping /\ cq # << >>
    /\ polled' = Append(polled, Head(cq))
    /\ cq' = Tail(cq)
    /\ UNCHANGED <<fiber, driver, sequence, session, sendQ, outgoing, posted, sent>>

-----------------------------------------------------------------------------
(* Drivers *)

\* arm_register_file (or the registry client) leaves some settings in the
\* register file, and from_csr or refresh_from_csr latches them: encoder and
\* decoder start afresh.  An unarmed register file is an error that changes
\* nothing.
refresh_from_csr(end) ==
    /\ ~Pumping
    /\ IF end = "tx"
       THEN session < MaxRefreshes /\ session' = session + 1 /\ sequence' = 0
       ELSE UNCHANGED <<session, sequence>>
    /\ driver' = [driver EXCEPT ![end] = driver'[end]] /\ driver'[end] \in Configs
    /\ UNCHANGED <<fiber, sendQ, cq, outgoing, posted, sent, polled>>

\* encode_raw takes the sequence number and advances it, wrapping around.
SequenceAfter(n) == (sequence + n) % SequenceMod

\* The trajectory the encoder derives, or the decoder expects.
derive_trajectory(config, seq, intact) ==
    <<config.secret, config.wavelength, seq, intact>>

\* Sample-by-sample comparison rejects a different trajectory; a rotated one
\* may or may not be within the tolerance.  Winding numbers can coincide, and
\* a rotation can change them.
verify_trajectory(expected, observed, topological) ==
    IF expected = observed /\ ~fiber.pmd THEN {TRUE}
    ELSE IF expected # observed /\ ~topological THEN {FALSE}
    ELSE BOOLEAN

\* Channel::transmit: may the payload arrive as it was sent, or changed?
transmit == IF fiber.noisy THEN BOOLEAN ELSE {TRUE}

\* AnySchemaValue::decode refuses a payload of the wrong size, and may refuse
\* bytes that were changed on the way.
ValueDecodes(sized, intact) ==
    IF ~sized THEN {FALSE} ELSE IF intact THEN {TRUE} ELSE BOOLEAN

\* Decoder::decode: an error, or a report.
decode(request, intact) ==
    LET tx == driver["tx"]
        rx == driver["rx"]
        reports ==
            {<<[id |-> request.id, sequence |-> request.sequence, auth_ok |-> auth, intact |-> intact,
                genuine |-> tx.secret = rx.secret, strict |-> ~rx.topological,
                session |-> session]>> : auth \in
                verify_trajectory(derive_trajectory(rx, request.sequence, intact),
                                  derive_trajectory(tx, request.sequence, TRUE), rx.topological)}
    IN  IF tx.wavelength # rx.wavelength THEN {<< >>}
        ELSE UNION {IF ok THEN reports ELSE {<< >>} : ok \in ValueDecodes(request.sized, intact)}

\* SoftDriver::receive: what fails to decode is dropped without a trace.
receive(request) == UNION {decode(request, intact) : intact \in transmit}

Unimpeded(request) ==
    request.sized /\ ~fiber.noisy /\ driver["tx"].wavelength = driver["rx"].wavelength

\* The whole send queue is encoded first.
transmit_pending ==
    /\ driver["tx"] # Unarmed /\ driver["rx"] # Unarmed
    /\ ~Pumping /\ sendQ # << >>
    /\ outgoing' = [n \in DOMAIN sendQ |->
                       [id |-> sendQ[n].id, sized |-> sendQ[n].sized,
                        sequence |-> SequenceAfter(n - 1)]]
    /\ sequence' = SequenceAfter(Len(sendQ))
    /\ sendQ' = << >>
    /\ UNCHANGED <<fiber, driver, session, cq, posted, sent, polled>>

\* Then one request after the other is transmitted and received.
Deliver ==
    /\ Pumping
    /\ \E arrived \in receive(Head(outgoing)) :
          cq' = IF arrived = << >> THEN cq ELSE push(cq, arrived[1])
    /\ outgoing' = Tail(outgoing)
    /\ sent' = Append(sent, Unimpeded(Head(outgoing)))
    /\ UNCHANGED <<fiber, driver, sequence, session, sendQ, posted, polled>>

-----------------------------------------------------------------------------
LinkInit ==
    /\ fiber \in [pmd : BOOLEAN, noisy : BOOLEAN]
    /\ driver = [e \in Ends |-> Unarmed]
    /\ sequence = 0 /\ session = 0
    /\ sendQ = << >> /\ cq = << >> /\ outgoing = << >>
    /\ posted = 0 /\ sent = << >> /\ polled = << >>

LinkNext ==
    \/ \E sized \in BOOLEAN : Post(sized)
    \/ transmit_pending
    \/ Deliver
    \/ Poll
    \/ \E e \in Ends : refresh_from_csr(e)

LinkSpec == LinkInit /\ [][LinkNext]_linkVars

=============================================================================
