--------------------------- MODULE OtapLinkProofs ----------------------------
(***************************************************************************)
(* Two results that rest on the invariant of OtapStackProofs: the gateways *)
(* and the fabric implement the link, and topological authentication       *)
(* survives a fiber that turns the Poincare sphere about its s3 axis.      *)
(***************************************************************************)
EXTENDS OtapStackProofs, TLAPS

-----------------------------------------------------------------------------
(* The gateways implement the link *)

\* A sequence, element by element through a function.
Through(g, q) == [i \in DOMAIN q |-> g[q[i]]]

Image(g, S) == {g[x] : x \in S}

LEMMA ThroughSeq ==
    ASSUME NEW S, NEW q \in Seq(S), NEW g
    PROVE  /\ Through(g, q) \in Seq(Image(g, S)) /\ Len(Through(g, q)) = Len(q)
           /\ \A i \in 1 .. Len(q) : Through(g, q)[i] = g[q[i]]
<1>1. Len(q) \in Nat /\ DOMAIN q = 1 .. Len(q) /\ \A i \in 1 .. Len(q) : q[i] \in S
  BY SeqTyped
<1>2. Through(g, q) \in [1 .. Len(q) -> Image(g, S)]
  BY <1>1 DEF Through, Image
<1>3. \A i \in 1 .. Len(q) : Through(g, q)[i] = g[q[i]]
  BY <1>1 DEF Through
<1> QED BY <1>1, <1>2, <1>3, FunctionIsSeq

LEMMA ThroughAppend ==
    ASSUME NEW S, NEW q \in Seq(S), NEW g, NEW e \in S
    PROVE  Through(g, Append(q, e)) = Append(Through(g, q), g[e])
<1> DEFINE a == Append(q, e)
           b == Append(Through(g, q), g[e])
<1>1. /\ a \in Seq(S) /\ Len(a) = Len(q) + 1 /\ Len(q) \in Nat
      /\ \A i \in 1 .. Len(q) : a[i] = q[i]
      /\ a[Len(q) + 1] = e
  BY AppendTyped, SeqTyped
<1>2. /\ Through(g, q) \in Seq(Image(g, S)) /\ Len(Through(g, q)) = Len(q)
      /\ \A i \in 1 .. Len(q) : Through(g, q)[i] = g[q[i]]
  BY ThroughSeq
<1>3. g[e] \in Image(g, S)
  BY DEF Image
<1>4. /\ b \in Seq(Image(g, S)) /\ Len(b) = Len(q) + 1
      /\ \A i \in 1 .. Len(q) : b[i] = g[q[i]]
      /\ b[Len(q) + 1] = g[e]
  BY <1>2, <1>3, AppendTyped
<1> HIDE DEF a, b
<1>5. /\ Through(g, a) \in Seq(Image(g, S)) /\ Len(Through(g, a)) = Len(a)
      /\ \A i \in 1 .. Len(a) : Through(g, a)[i] = g[a[i]]
  BY <1>1, ThroughSeq
<1>6. ASSUME NEW i \in 1 .. Len(a) PROVE Through(g, a)[i] = b[i]
  <2>1. i \in 1 .. Len(q) \/ i = Len(q) + 1
    BY <1>1
  <2> QED BY <1>1, <1>4, <1>5, <2>1
<1>7. Through(g, a) = b
  BY <1>1, <1>4, <1>5, <1>6, SameSeq
<1> QED BY <1>7 DEF a, b

LEMMA ThroughTail ==
    ASSUME NEW S, NEW q \in Seq(S), NEW g, q # << >>
    PROVE  /\ Through(g, q) # << >> /\ Head(Through(g, q)) = g[Head(q)]
           /\ Through(g, Tail(q)) = Tail(Through(g, q))
<1> DEFINE m == Through(g, q)
           a == Tail(q)
           b == Tail(m)
<1>1. /\ m \in Seq(Image(g, S)) /\ Len(m) = Len(q)
      /\ \A i \in 1 .. Len(q) : m[i] = g[q[i]]
  BY ThroughSeq
<1>2. /\ a \in Seq(S) /\ Len(a) = Len(q) - 1 /\ Len(q) \in Nat \ {0}
      /\ \A i \in 1 .. Len(a) : a[i] = q[i + 1]
  BY TailTyped, SeqTyped, EmptyOrLonger
<1> HIDE DEF m
<1>3. m # << >>
  BY <1>1, <1>2, EmptyOrLonger
<1>4. b \in Seq(Image(g, S)) /\ Len(b) = Len(m) - 1 /\ \A i \in 1 .. Len(b) : b[i] = m[i + 1]
  BY <1>1, <1>3, TailTyped
<1>5. Head(m) = m[1] /\ Head(q) = q[1] /\ 1 \in 1 .. Len(q)
  BY <1>2
<1> HIDE DEF a, b
<1>6. /\ Through(g, a) \in Seq(Image(g, S)) /\ Len(Through(g, a)) = Len(a)
      /\ \A i \in 1 .. Len(a) : Through(g, a)[i] = g[a[i]]
  BY <1>2, ThroughSeq
<1>7. ASSUME NEW i \in 1 .. Len(a) PROVE Through(g, a)[i] = b[i]
  <2>1. i + 1 \in 1 .. Len(q) /\ i \in 1 .. Len(b)
    BY <1>1, <1>2, <1>4
  <2>2. b[i] = m[i + 1] /\ a[i] = q[i + 1]
    BY <1>2, <1>4, <2>1
  <2>3. m[i + 1] = g[q[i + 1]] /\ Through(g, a)[i] = g[a[i]]
    BY <1>1, <1>6, <2>1
  <2> QED BY <2>2, <2>3
<1>8. Through(g, a) = b
  BY <1>1, <1>2, <1>4, <1>6, <1>7, SameSeq
<1> QED BY <1>1, <1>3, <1>5, <1>8 DEF a, b, m

\* The completions of the link.
LEMMA CompletionsThrough ==
    ASSUME NEW q \in Seq(Completion)
    PROVE  Completions(q) = Through([c \in Completion |-> Completed(c)], q)
<1>1. \A i \in DOMAIN q : q[i] \in Completion
  BY SeqTyped
<1> QED BY <1>1 DEF Completions, Through

LEMMA CompletionsAppend ==
    ASSUME NEW q \in Seq(Completion), NEW c \in Completion
    PROVE  Completions(Append(q, c)) = Append(Completions(q), Completed(c))
<1> DEFINE g == [d \in Completion |-> Completed(d)]
<1>1. Append(q, c) \in Seq(Completion) /\ g[c] = Completed(c)
  BY AppendTyped
<1>2. Completions(q) = Through(g, q) /\ Completions(Append(q, c)) = Through(g, Append(q, c))
  BY <1>1, CompletionsThrough, Zenon
<1> HIDE DEF g
<1>3. Through(g, Append(q, c)) = Append(Through(g, q), g[c])
  BY ThroughAppend
<1> QED BY <1>1, <1>2, <1>3

LEMMA CompletionsTail ==
    ASSUME NEW q \in Seq(Completion), q # << >>
    PROVE  /\ Completions(q) # << >> /\ Head(Completions(q)) = Completed(Head(q))
           /\ Completions(Tail(q)) = Tail(Completions(q))
<1> DEFINE g == [d \in Completion |-> Completed(d)]
<1>1. Tail(q) \in Seq(Completion) /\ Head(q) \in Completion
  BY TailTyped
<1>2. g[Head(q)] = Completed(Head(q))
  BY <1>1
<1>3. Completions(q) = Through(g, q) /\ Completions(Tail(q)) = Through(g, Tail(q))
  BY <1>1, CompletionsThrough, Zenon
<1> HIDE DEF g
<1>4. /\ Through(g, q) # << >> /\ Head(Through(g, q)) = g[Head(q)]
      /\ Through(g, Tail(q)) = Tail(Through(g, q))
  BY ThroughTail
<1> QED BY <1>2, <1>3, <1>4

\* CompletionQueue::push, seen through the mapping.
LEMMA CompletionsPush ==
    ASSUME NEW q \in Seq(Completion), NEW c \in Completion
    PROVE  Completions(push(q, c)) = Link!push(Completions(q), Completed(c))
<1>1. Len(Completions(q)) = Len(q)
  <2> DEFINE g == [d \in Completion |-> Completed(d)]
  <2>1. Completions(q) = Through(g, q)
    BY CompletionsThrough, Zenon
  <2> HIDE DEF g
  <2>2. Len(Through(g, q)) = Len(q)
    BY ThroughSeq
  <2> QED BY <2>1, <2>2
<1>2. CqCapacity \in Nat \ {0} /\ Len(q) \in Nat
  BY CapacitiesPositive, SeqTyped
<1>3. CASE Len(q) >= CqCapacity
  <2>1. q # << >>
    BY <1>2, <1>3, EmptyOrLonger
  <2>2. Tail(q) \in Seq(Completion)
    BY <2>1, TailTyped
  <2>3. push(q, c) = Append(Tail(q), c)
    BY <1>3 DEF push
  <2>4. Link!push(Completions(q), Completed(c)) = Append(Tail(Completions(q)), Completed(c))
    BY <1>1, <1>3 DEF Link!push
  <2> QED BY <2>1, <2>2, <2>3, <2>4, CompletionsAppend, CompletionsTail
<1>4. CASE ~(Len(q) >= CqCapacity)
  <2>1. push(q, c) = Append(q, c)
    BY <1>4 DEF push
  <2>2. Link!push(Completions(q), Completed(c)) = Append(Completions(q), Completed(c))
    BY <1>1, <1>4 DEF Link!push
  <2> QED BY <2>1, <2>2, CompletionsAppend
<1> QED BY <1>3, <1>4

\* What a turn of the pump delivers is something the link may receive.
LEMMA LinkReceives ==
    ASSUME StackInv, Pumping, NEW r \in Requests, NEW seq \in 0 .. SequenceMod - 1,
           NEW flips \in SUBSET Exposed(fiber, Received(r.schema_id, r.bytes, Len(sent) + 1, {})),
           NEW arrived, ArrivesAs(r, Len(sent) + 1, seq, flips, arrived),
           NEW flying, flying = [id |-> Len(sent) + 1, sized |-> r.bytes = payload_bytes(r.schema_id),
                                 sequence |-> seq]
    PROVE  (IF arrived = << >> THEN << >> ELSE << Completed(arrived[1]) >>) \in Link!receive(flying)
<1> DEFINE n == Len(sent) + 1
           id == r.schema_id
           tx == driver["tx"]
           rx == driver["rx"]
           intact == flips = {}
           auth == Authentic(id, r.bytes, n, seq, flips)
           expected == Link!derive_trajectory(rx, seq, intact)
           observed == Link!derive_trajectory(tx, seq, TRUE)
           received == IF arrived = << >> THEN << >> ELSE << Completed(arrived[1]) >>
           report(a) == <<[id |-> n, sequence |-> seq, auth_ok |-> a, intact |-> intact,
                           genuine |-> tx.secret = rx.secret, strict |-> ~rx.topological,
                           session |-> session]>>
           reports == {report(a) : a \in Link!verify_trajectory(expected, observed, rx.topological)}
<1>1. /\ n \in 1 .. MaxPosts /\ n \in Nat \ {0} /\ fiber \in Fibers /\ id \in SchemaId
      /\ tx \in LatchedBy("tx") /\ rx \in LatchedBy("rx")
  BY PumpingTyped, RequestsTyped, BoundsNat
<1>2. intact \in Link!transmit
  <2>1. FiberKind.noisy = (fiber.noise # {}) /\ (fiber.noise = {} => intact)
    BY DEF FiberKind, Exposed
  <2> QED BY <2>1 DEF Link!transmit
<1>3. received \in Link!decode(flying, intact)
  <2>1. flying.id = n /\ flying.sequence = seq /\ flying.sized = (r.bytes = payload_bytes(id))
    OBVIOUS
  <2>2. Link!decode(flying, intact) =
            IF tx.wavelength # rx.wavelength THEN {<< >>}
            ELSE UNION {IF ok THEN reports ELSE {<< >>} :
                           ok \in Link!ValueDecodes(flying.sized, intact)}
    <3> DEFINE listed ==
                 {<<[id |-> flying.id, sequence |-> flying.sequence, auth_ok |-> a,
                     intact |-> intact, genuine |-> tx.secret = rx.secret,
                     strict |-> ~rx.topological, session |-> session]>> :
                     a \in Link!verify_trajectory(
                              Link!derive_trajectory(rx, flying.sequence, intact),
                              Link!derive_trajectory(tx, flying.sequence, TRUE), rx.topological)}
    <3>1. Link!decode(flying, intact) =
              IF tx.wavelength # rx.wavelength THEN {<< >>}
              ELSE UNION {IF ok THEN listed ELSE {<< >>} :
                             ok \in Link!ValueDecodes(flying.sized, intact)}
      BY DEF Link!decode
    <3>2. listed = reports
      BY <2>1
    <3> HIDE DEF listed, reports
    <3> QED BY <3>1, <3>2
  <2>3. CASE tx.wavelength # rx.wavelength
    <3>1. arrived = << >>
      BY <2>3 DEF ArrivesAs
    <3> QED BY <2>2, <2>3, <3>1
  <2>4. CASE tx.wavelength = rx.wavelength
    <3>1. PICK v \in any_decode(OAM_MODE(id), Received(id, r.bytes, n, flips)) :
              arrived = IF v = << >> THEN << >> ELSE << Arrival(n, seq, v[1], flips, auth) >>
      BY <2>4 DEF ArrivesAs
    <3>2. /\ v # << >> => flying.sized
          /\ flying.sized /\ intact => v # << >>
      <4>1. v # << >> => r.bytes = payload_bytes(id)
        BY <1>1, ValueDecoded, Zenon
      <4>2. r.bytes = payload_bytes(id) /\ flips = {} => v # << >>
        BY <1>1, ValueDecoded, Zenon
      <4> QED BY <2>1, <4>1, <4>2
    <3> HIDE DEF reports, received, auth
    <3>3. CASE v = << >>
      <4>1. received = << >>
        BY <3>1, <3>3 DEF received
      <4>2. FALSE \in Link!ValueDecodes(flying.sized, intact)
        BY <2>1, <3>2, <3>3 DEF Link!ValueDecodes
      <4>3. << >> \in UNION {IF ok THEN reports ELSE {<< >>} :
                               ok \in Link!ValueDecodes(flying.sized, intact)}
        BY <4>2
      <4> QED BY <2>2, <2>4, <4>1, <4>3
    <3>4. CASE v # << >>
      <4>1. TRUE \in Link!ValueDecodes(flying.sized, intact)
        BY <3>2, <3>4 DEF Link!ValueDecodes
      <4>2. received \in reports
        <5>1. received = report(auth)
          <6> DEFINE c == Arrival(n, seq, v[1], flips, auth)
          <6>1. Completed(c) = [id |-> n, sequence |-> seq, auth_ok |-> auth, intact |-> intact,
                                genuine |-> tx.secret = rx.secret, strict |-> ~rx.topological,
                                session |-> session]
            BY DEF Arrival, Completed
          <6> HIDE DEF c
          <6>2. arrived = <<c>>
            BY <3>1, <3>4 DEF c
          <6>3. arrived # << >> /\ arrived[1] = c
            BY <6>2
          <6> QED BY <6>1, <6>3 DEF received
        <5>2. auth \in Link!verify_trajectory(expected, observed, rx.topological)
          <6>1. /\ auth \in BOOLEAN
                /\ auth /\ ~rx.topological => intact /\ tx.secret = rx.secret
                /\ intact /\ tx.secret = rx.secret /\ fiber.pmd_rotation = IDENTITY => auth
            BY <1>1, AuthenticMeans, Zenon DEF auth
          <6>2. expected = observed <=> intact /\ tx.secret = rx.secret
            BY <2>4 DEF Link!derive_trajectory
          <6>3. FiberKind.pmd = (fiber.pmd_rotation # IDENTITY)
            BY DEF FiberKind
          <6> HIDE DEF expected, observed, intact
          <6>4. CASE expected = observed /\ ~FiberKind.pmd
            <7>1. Link!verify_trajectory(expected, observed, rx.topological) = {TRUE}
              BY <6>4 DEF Link!verify_trajectory
            <7>2. auth = TRUE
              BY <6>1, <6>2, <6>3, <6>4
            <7> QED BY <7>1, <7>2
          <6>5. CASE expected # observed /\ ~rx.topological
            <7>1. Link!verify_trajectory(expected, observed, rx.topological) = {FALSE}
              BY <6>5 DEF Link!verify_trajectory
            <7>2. auth = FALSE
              BY <6>1, <6>2, <6>5
            <7> QED BY <7>1, <7>2
          <6>6. CASE ~(expected = observed /\ ~FiberKind.pmd)
                         /\ ~(expected # observed /\ ~rx.topological)
            <7>1. Link!verify_trajectory(expected, observed, rx.topological) = BOOLEAN
              BY <6>6 DEF Link!verify_trajectory
            <7> QED BY <6>1, <7>1
          <6> QED BY <6>4, <6>5, <6>6
        <5> QED BY <5>1, <5>2 DEF reports
      <4>3. received \in UNION {IF ok THEN reports ELSE {<< >>} :
                                  ok \in Link!ValueDecodes(flying.sized, intact)}
        BY <4>1, <4>2
      <4> QED BY <2>2, <2>4, <4>3
    <3> QED BY <3>3, <3>4
  <2> QED BY <2>3, <2>4
<1> HIDE DEF received, intact
<1>4. received \in Link!receive(flying)
  BY <1>2, <1>3 DEF Link!receive
<1> QED BY <1>4 DEF received

LEMMA LinkInitial == Init => Link!LinkInit
<1> SUFFICES ASSUME Init PROVE Link!LinkInit
  OBVIOUS
<1>1. FiberKind \in [pmd : BOOLEAN, noisy : BOOLEAN]
  BY DEF FiberKind
<1>2. Queued = << >> /\ InFlight = << >>
  BY DEF Init, Queued, InFlight
<1>3. Completions(cq) = << >> /\ Completions(polled) = << >>
  BY DEF Init, Completions
<1>4. driver = [e \in Link!Ends |-> Link!Unarmed]
  BY DEF Init, Ends, NotArmed, Link!Ends, Link!Unarmed
<1> QED BY <1>1, <1>2, <1>3, <1>4 DEF Init, Link!LinkInit

\* Writing a register file is invisible: only a driver that is rebuilt reads it.
LEMMA LinkQuiet ==
    ASSUME UNCHANGED <<fiber, driver, sequence, session, sendQ, cq, outgoing, posted, sent, polled>>
    PROVE  UNCHANGED Link!linkVars
<1>1. FiberKind' = FiberKind /\ Queued' = Queued /\ InFlight' = InFlight
  BY DEF FiberKind, Queued, InFlight
<1>2. Completions(cq)' = Completions(cq) /\ Completions(polled)' = Completions(polled)
  OBVIOUS
<1> QED BY <1>1, <1>2 DEF Link!linkVars

LEMMA LinkPumping ==
    ASSUME StackInv
    PROVE  /\ Link!Pumping <=> Pumping
           /\ Queued # << >> <=> sendQ # << >>
           /\ Len(Queued) = Len(sendQ) /\ DOMAIN Queued = DOMAIN sendQ
<1>1. sendQ \in Seq(AnyPosted) /\ outgoing \in Seq(AnyOutgoing)
  BY DEF StackInv, TypesInv
<1> DEFINE f == [x \in AnyOutgoing |-> Flying(x)]
           w == [x \in AnyPosted |-> Waiting(x)]
<1>2. InFlight = Through(f, outgoing) /\ Queued = Through(w, sendQ)
  <2>1. /\ \A i \in DOMAIN outgoing : outgoing[i] \in AnyOutgoing
        /\ \A i \in DOMAIN sendQ : sendQ[i] \in AnyPosted
    BY <1>1, SeqTyped
  <2> QED BY <2>1 DEF InFlight, Queued, Through
<1> HIDE DEF f, w
<1>3. /\ Through(f, outgoing) \in Seq(Image(f, AnyOutgoing)) /\ Len(Through(f, outgoing)) = Len(outgoing)
      /\ Through(w, sendQ) \in Seq(Image(w, AnyPosted)) /\ Len(Through(w, sendQ)) = Len(sendQ)
  BY <1>1, ThroughSeq
<1>4. InFlight # << >> <=> outgoing # << >>
  BY <1>1, <1>2, <1>3, EmptyOrLonger
<1>5. Queued # << >> <=> sendQ # << >>
  BY <1>1, <1>2, <1>3, EmptyOrLonger
<1>6. Link!Pumping <=> InFlight # << >>
  BY DEF Link!Pumping
<1> QED BY <1>2, <1>3, <1>4, <1>5, <1>6 DEF Pumping, Queued

LEMMA LinkPolls ==
    ASSUME StackInv, Poll
    PROVE  Link!Poll
<1>1. polled \in Seq(Completion) /\ cq \in Seq(Completion) /\ cq # << >> /\ ~Pumping
  BY DEF StackInv, TypesInv, Poll
<1>2. ~Link!Pumping
  BY <1>1, LinkPumping
<1>3. Head(cq) \in Completion
  BY <1>1, TailTyped
<1>4. /\ Completions(cq) # << >>
      /\ Completions(cq)' = Tail(Completions(cq))
      /\ Completions(polled)' = Append(Completions(polled), Head(Completions(cq)))
  <2>1. cq' = Tail(cq) /\ polled' = Append(polled, Head(cq))
    BY DEF Poll
  <2>2. /\ Completions(cq) # << >> /\ Head(Completions(cq)) = Completed(Head(cq))
        /\ Completions(Tail(cq)) = Tail(Completions(cq))
    BY <1>1, CompletionsTail
  <2>3. Completions(Append(polled, Head(cq))) = Append(Completions(polled), Completed(Head(cq)))
    BY <1>1, <1>3, CompletionsAppend
  <2> QED BY <2>1, <2>2, <2>3
<1>5. /\ FiberKind' = FiberKind /\ Queued' = Queued /\ InFlight' = InFlight
      /\ UNCHANGED <<driver, sequence, session, posted, sent>>
  BY DEF Poll, FiberKind, Queued, InFlight
<1> QED BY <1>2, <1>4, <1>5 DEF Link!Poll

LEMMA LinkRefreshes ==
    ASSUME StackInv, NEW end \in Ends, refresh_from_csr(end)
    PROVE  Link!refresh_from_csr(end)
<1>1. ~Link!Pumping
  BY LinkPumping DEF refresh_from_csr
<1>2. driver' = [driver EXCEPT ![end] = driver'[end]] /\ driver'[end] \in Latched
  <2> DEFINE config == from_csr(rf[end])
  <2>1. driver = [e \in Ends |-> driver[e]] /\ driver' = [driver EXCEPT ![end] = config]
    BY DEF StackInv, DriversInv, refresh_from_csr
  <2>2. config \in LatchedBy(end)
    BY DEF StackInv, DriversInv, refresh_from_csr
  <2> HIDE DEF config
  <2>3. driver'[end] = config
    BY <2>1
  <2>4. config \in Latched
    BY <2>2 DEF LatchedBy, Latched
  <2> QED BY <2>1, <2>3, <2>4
<1>3. IF end = "tx"
      THEN session < MaxRefreshes /\ session' = session + 1 /\ sequence' = 0
      ELSE UNCHANGED <<session, sequence>>
  BY DEF refresh_from_csr
<1>4. /\ FiberKind' = FiberKind /\ Queued' = Queued /\ InFlight' = InFlight
      /\ Completions(cq)' = Completions(cq) /\ Completions(polled)' = Completions(polled)
      /\ UNCHANGED <<posted, sent>>
  BY DEF refresh_from_csr, FiberKind, Queued, InFlight
<1> QED BY <1>1, <1>2, <1>3, <1>4 DEF Link!refresh_from_csr

LEMMA LinkPosts ==
    ASSUME StackInv, NEW r \in Requests, Post(r.schema_id, r.payload_len, r.bytes)
    PROVE  \E sized \in BOOLEAN : Link!Post(sized)
<1> DEFINE request == [id |-> posted + 1, schema_id |-> r.schema_id,
                       payload |-> Buffer(r.schema_id, r.bytes, posted + 1)]
           w == [x \in AnyPosted |-> Waiting(x)]
<1>1. /\ ~Pumping /\ posted < MaxPosts /\ Len(sendQ) < SendCapacity /\ posted' = posted + 1
      /\ sendQ' = Append(sendQ, request)
  BY DEF Post
<1>2. /\ ~Link!Pumping /\ Len(Queued) = Len(sendQ)
  BY <1>1, LinkPumping
<1>3. sendQ \in Seq(AnyPosted) /\ request \in AnyPosted
  <2>1. posted + 1 \in 1 .. MaxPosts
    BY <1>1, BoundsNat DEF StackInv, TypesInv
  <2>2. request \in Posted(posted + 1)
    BY DEF Posted
  <2> QED BY <2>1, <2>2 DEF StackInv, TypesInv, AnyPosted
<1>4. Waiting(request) = [id |-> posted + 1, sized |-> Sized(request)] /\ Sized(request) \in BOOLEAN
  BY DEF Waiting, Sized
<1> HIDE DEF request
<1>5. w[request] = Waiting(request)
  BY <1>3
<1>6. ASSUME NEW q \in Seq(AnyPosted)
      PROVE  [i \in DOMAIN q |-> Waiting(q[i])] = Through(w, q)
  <2>1. \A i \in DOMAIN q : q[i] \in AnyPosted
    BY SeqTyped
  <2> QED BY <2>1 DEF Through
<1>7. sendQ' \in Seq(AnyPosted)
  BY <1>1, <1>3, AppendTyped
<1>8. Queued = Through(w, sendQ) /\ Queued' = Through(w, sendQ')
  <2>1. [i \in DOMAIN sendQ |-> Waiting(sendQ[i])] = Through(w, sendQ)
    BY <1>3, <1>6, Zenon
  <2>2. [i \in DOMAIN sendQ' |-> Waiting(sendQ'[i])] = Through(w, sendQ')
    BY <1>6, <1>7, Zenon
  <2> QED BY <2>1, <2>2, Zenon DEF Queued
<1> HIDE DEF w
<1>9. Through(w, Append(sendQ, request)) = Append(Through(w, sendQ), w[request])
  BY <1>3, ThroughAppend
<1>10. Queued' = Append(Queued, [id |-> posted + 1, sized |-> Sized(request)])
  BY <1>1, <1>4, <1>5, <1>8, <1>9
<1>11. /\ FiberKind' = FiberKind /\ InFlight' = InFlight
       /\ Completions(cq)' = Completions(cq) /\ Completions(polled)' = Completions(polled)
       /\ UNCHANGED <<driver, sequence, session, sent>>
  BY DEF Post, FiberKind, InFlight
<1>12. Link!Post(Sized(request))
  BY <1>1, <1>2, <1>10, <1>11 DEF Link!Post
<1> QED BY <1>4, <1>12

LEMMA LinkTransmits ==
    ASSUME StackInv, transmit_pending
    PROVE  Link!transmit_pending
<1>1. /\ driver["tx"] # Link!Unarmed /\ driver["rx"] # Link!Unarmed
  BY DEF transmit_pending, Ends, NotArmed, Link!Unarmed
<1>2. /\ ~Link!Pumping /\ Queued # << >> /\ Len(Queued) = Len(sendQ)
      /\ DOMAIN Queued = DOMAIN sendQ
  BY LinkPumping DEF transmit_pending
<1>3. \A n : Link!SequenceAfter(n) = SequenceAfter(n)
  BY DEF Link!SequenceAfter, SequenceAfter
<1> DEFINE encoded(n) == encode_raw(OAM_MODE(sendQ[n].schema_id), SequenceAfter(n - 1),
                                    sendQ[n].payload)
<1>4. outgoing' = [n \in DOMAIN sendQ |-> [request |-> sendQ[n], transient |-> encoded(n)]]
  BY DEF transmit_pending
<1>5. \A n : encoded(n).context.sequence = SequenceAfter(n - 1)
  BY DEF encode_raw, Transient, Context
<1>6. ASSUME NEW n \in DOMAIN sendQ
      PROVE  Flying(outgoing'[n]) = [id |-> Queued[n].id, sized |-> Queued[n].sized,
                                     sequence |-> Link!SequenceAfter(n - 1)]
  <2> HIDE DEF encoded
  <2>1. outgoing'[n].request = sendQ[n] /\ outgoing'[n].transient = encoded(n)
    BY <1>4
  <2>2. Queued[n].id = sendQ[n].id /\ Queued[n].sized = Sized(sendQ[n])
    BY DEF Queued, Waiting
  <2> QED BY <1>3, <1>5, <2>1, <2>2 DEF Flying
<1>7. DOMAIN outgoing' = DOMAIN sendQ
  BY <1>4
<1>8. InFlight' = [n \in DOMAIN Queued |->
                      [id |-> Queued[n].id, sized |-> Queued[n].sized,
                       sequence |-> Link!SequenceAfter(n - 1)]]
  <2>1. InFlight' = [n \in DOMAIN sendQ |-> Flying(outgoing'[n])]
    BY <1>7 DEF InFlight
  <2> HIDE DEF encoded
  <2> QED BY <1>2, <1>6, <2>1
<1>9. Queued' = << >> /\ sequence' = Link!SequenceAfter(Len(Queued))
  BY <1>2, <1>3 DEF transmit_pending, Queued
<1>10. /\ FiberKind' = FiberKind
       /\ Completions(cq)' = Completions(cq) /\ Completions(polled)' = Completions(polled)
       /\ UNCHANGED <<driver, session, posted, sent>>
  BY DEF transmit_pending, FiberKind
<1> QED BY <1>1, <1>2, <1>8, <1>9, <1>10 DEF Link!transmit_pending

LEMMA LinkDelivers ==
    ASSUME StackInv, Deliver
    PROVE  Link!Deliver
<1> DEFINE n == Len(sent) + 1
           f == [x \in AnyOutgoing |-> Flying(x)]
<1>1. PICK start \in 1 .. n, r \in Requests : \E flips, arrived : Turn(start, r, flips, arrived)
  BY DeliverTurns
<1>2. PICK flips, arrived : Turn(start, r, flips, arrived)
  BY <1>1
<1> DEFINE seq == (n - start) % SequenceMod
           sized == r.bytes = payload_bytes(r.schema_id)
           request == [id |-> n, schema_id |-> r.schema_id,
                       payload |-> Buffer(r.schema_id, r.bytes, n)]
           flying == [id |-> n, sized |-> sized, sequence |-> seq]
           received == IF arrived = << >> THEN << >> ELSE << Completed(arrived[1]) >>
<1>3. /\ Head(outgoing).request = request /\ Head(outgoing).transient.context.sequence = seq
      /\ flips \in SUBSET Exposed(fiber, Received(r.schema_id, r.bytes, n, {}))
      /\ ArrivesAs(r, n, seq, flips, arrived)
      /\ cq' = IF arrived = << >> THEN cq ELSE push(cq, arrived[1])
  BY <1>2, Zenon DEF Turn
<1>4. /\ Len(sent) \in Nat /\ n \in 1 .. MaxPosts /\ fiber \in Fibers /\ session \in Nat
      /\ driver["tx"] \in LatchedBy("tx") /\ driver["rx"] \in LatchedBy("rx")
      /\ outgoing \in Seq(AnyOutgoing) /\ outgoing # << >> /\ Pumping
  BY PumpingTyped DEF Deliver
<1>5. seq \in 0 .. SequenceMod - 1
  <2> HIDE DEF n
  <2>1. n \in Nat
    BY <1>4
  <2> QED BY <2>1, SequenceTyped, Zenon
<1>6. cq \in Seq(Completion)
  BY DEF StackInv, TypesInv
<1>7. Sized(request) = sized /\ request.id = n
  <2>1. request.schema_id = r.schema_id /\ request.payload.bytes = r.bytes
    BY BufferIs DEF Received
  <2> QED BY <2>1 DEF Sized
<1>8. Flying(Head(outgoing)) = flying
  <2> HIDE DEF seq, n, request, sized
  <2> QED BY <1>3, <1>7 DEF Flying
<1>9. InFlight # << >> /\ Head(InFlight) = flying /\ InFlight' = Tail(InFlight)
  <2>1. ASSUME NEW q \in Seq(AnyOutgoing)
        PROVE  [i \in DOMAIN q |-> Flying(q[i])] = Through(f, q)
    <3>1. \A i \in DOMAIN q : q[i] \in AnyOutgoing
      BY SeqTyped
    <3> QED BY <3>1 DEF Through
  <2>2. Head(outgoing) \in AnyOutgoing /\ outgoing' \in Seq(AnyOutgoing) /\ outgoing' = Tail(outgoing)
    BY <1>4, TailTyped DEF Deliver
  <2>3. f[Head(outgoing)] = Flying(Head(outgoing))
    BY <2>2
  <2>4. InFlight = Through(f, outgoing) /\ InFlight' = Through(f, outgoing')
    <3>1. [i \in DOMAIN outgoing |-> Flying(outgoing[i])] = Through(f, outgoing)
      BY <1>4, <2>1, Zenon
    <3>2. [i \in DOMAIN outgoing' |-> Flying(outgoing'[i])] = Through(f, outgoing')
      BY <2>1, <2>2, Zenon
    <3> QED BY <3>1, <3>2, Zenon DEF InFlight
  <2> HIDE DEF f, flying
  <2>5. /\ Through(f, outgoing) # << >> /\ Head(Through(f, outgoing)) = f[Head(outgoing)]
        /\ Through(f, Tail(outgoing)) = Tail(Through(f, outgoing))
    BY <1>4, ThroughTail
  <2> QED BY <1>8, <2>2, <2>3, <2>4, <2>5
<1>10. received \in Link!receive(flying)
  <2>1. flying = [id |-> Len(sent) + 1, sized |-> r.bytes = payload_bytes(r.schema_id),
                  sequence |-> seq]
    OBVIOUS
  <2>2. ArrivesAs(r, Len(sent) + 1, seq, flips, arrived)
    BY <1>3, Zenon
  <2>3. flips \in SUBSET Exposed(fiber, Received(r.schema_id, r.bytes, Len(sent) + 1, {}))
    BY <1>3
  <2> HIDE DEF seq, flying
  <2> QED BY <1>4, <1>5, <2>1, <2>2, <2>3, LinkReceives, Zenon
<1>11. Link!Unimpeded(flying) = Unimpeded(Head(outgoing).request)
  <2>1. flying.sized = sized /\ FiberKind.noisy = (fiber.noise # {})
    BY DEF FiberKind
  <2> HIDE DEF flying, request, sized
  <2> QED BY <1>3, <1>7, <2>1 DEF Link!Unimpeded, Unimpeded
<1> HIDE DEF n, seq
<1>12. arrived # << >> => arrived[1] \in Completion
  <2>1. Completes(r, n, seq, arrived)
    BY <1>3, <1>4, <1>5, ArrivalCompletes, Zenon
  <2> QED BY <2>1 DEF Completes
<1> HIDE DEF flying, f, request, sized
<1>13. Completions(cq)' = IF received = << >> THEN Completions(cq)
                          ELSE Link!push(Completions(cq), received[1])
  <2>1. CASE arrived = << >>
    BY <1>3, <2>1
  <2>2. CASE arrived # << >>
    <3> DEFINE c == arrived[1]
    <3>1. cq' = push(cq, c) /\ c \in Completion
      BY <1>3, <1>12, <2>2
    <3>2. received # << >> /\ received[1] = Completed(c)
      BY <2>2
    <3> HIDE DEF c, received
    <3>3. Completions(push(cq, c)) = Link!push(Completions(cq), Completed(c))
      BY <1>6, <3>1, CompletionsPush
    <3> QED BY <3>1, <3>2, <3>3
  <2> QED BY <2>1, <2>2
<1>14. /\ FiberKind' = FiberKind /\ Queued' = Queued /\ Completions(polled)' = Completions(polled)
       /\ UNCHANGED <<driver, sequence, session, posted>>
       /\ sent' = Append(sent, Unimpeded(Head(outgoing).request))
  BY DEF Deliver, FiberKind, Queued
<1>15. Link!Pumping
  BY <1>9 DEF Link!Pumping
<1> HIDE DEF received
<1> QED BY <1>9, <1>10, <1>11, <1>13, <1>14, <1>15 DEF Link!Deliver

\* Every step of the gateways and the fabric is a step of the link, or one the
\* link does not see.
LEMMA LinkSteps == StackInv /\ [Next]_vars => [Link!LinkNext]_(Link!linkVars)
<1> SUFFICES ASSUME StackInv, [Next]_vars PROVE [Link!LinkNext]_(Link!linkVars)
  OBVIOUS
<1>1. ASSUME NEW e \in Ends, NEW setting \in Settings[e], Arm(e, setting)
      PROVE  UNCHANGED Link!linkVars
  BY <1>1, LinkQuiet DEF Arm
<1>2. ASSUME NEW e \in Ends, refresh_from_csr(e) PROVE Link!LinkNext
  <2>1. Link!refresh_from_csr(e) /\ e \in Link!Ends
    BY <1>2, LinkRefreshes DEF Ends, Link!Ends
  <2> QED BY <2>1 DEF Link!LinkNext
<1>3. ASSUME NEW r \in Requests, Post(r.schema_id, r.payload_len, r.bytes) PROVE Link!LinkNext
  BY <1>3, LinkPosts DEF Link!LinkNext
<1>4. CASE transmit_pending
  BY <1>4, LinkTransmits DEF Link!LinkNext
<1>5. CASE Deliver
  BY <1>5, LinkDelivers DEF Link!LinkNext
<1>6. CASE Poll
  BY <1>6, LinkPolls DEF Link!LinkNext
<1>7. CASE UNCHANGED vars
  BY <1>7, LinkQuiet DEF vars
<1> QED BY <1>1, <1>2, <1>3, <1>4, <1>5, <1>6, <1>7, Zenon DEF Next, Pump

\* The gateways implement the abstract link: whatever registers, bytes, HMAC and
\* trajectories decide in Post, transmit_pending, receive, Poll and
\* refresh_from_csr is among what ObgLink allows.
THEOREM Implements == Spec => ImplementsLink
<1>1. Init => Link!LinkInit
  BY LinkInitial
<1>2. StackInv /\ [Next]_vars => [Link!LinkNext]_(Link!linkVars)
  BY LinkSteps
<1> QED BY <1>1, <1>2, StackInvariant, PTL DEF Spec, ImplementsLink, Link!LinkSpec

-----------------------------------------------------------------------------
(* Topological authentication *)

LEMMA SurvivesRotation ==
    ASSUME fiber \in Fibers, driver["tx"] \in LatchedBy("tx"), driver["rx"] \in LatchedBy("rx"),
           NEW r \in Requests, NEW n \in 1 .. MaxPosts, NEW seq \in 0 .. SequenceMod - 1,
           driver["tx"].secret = driver["rx"].secret, driver["rx"].topological,
           FixesS3(fiber.pmd_rotation)
    PROVE  Authentic(r.schema_id, r.bytes, n, seq, {})
<1> DEFINE id == r.schema_id
           context == SentContext(id, r.bytes, n, seq)
           trajectory == HmacTrajectory(driver["tx"].secret, context)
           observed == Rotated(fiber.pmd_rotation, trajectory)
           arrived == ArrivedTransient(id, r.bytes, n, seq, {})
<1>1. PICK tx \in Settings["tx"] :
          driver["tx"].secret = tx.secret /\ driver["tx"].wavelength = tx.wavelength
  BY DEF LatchedBy, Latch
<1>2. context \in Contexts
  BY <1>1, BufferIs DEF Contexts, SentContext
<1>3. arrived.context = context /\ arrived.polarization = observed
  <2>1. Flipped(context, {}) = context
    BY UnflippedIs
  <2>2. arrived.context = Flipped(context, {}) /\ arrived.polarization = observed
    BY DEF ArrivedTransient, Transient
  <2> QED BY <2>1, <2>2
<1> HIDE DEF context, arrived
<1>4. trajectory \in LoopsOffAxis
  <2>1. trajectory \in Trajectories
    BY <1>1, <1>2, HmacTyped DEF Trajectories
  <2>2. \A i \in DOMAIN trajectory : OffAxis(trajectory[i])
    BY <1>1, <1>2, HmacOffAxis DEF Range
  <2> QED BY <2>1, <2>2 DEF LoopsOffAxis
<1>5. IsRotation(fiber.pmd_rotation)
  BY FibersRotate
<1> HIDE DEF trajectory
<1>6. winding_number_s3(observed) = winding_number_s3(trajectory)
  BY <1>4, <1>5, RotationKeepsWinding
<1>7. HmacTrajectory(driver["rx"].secret, arrived.context) = trajectory
  BY <1>3 DEF trajectory
<1>8. verify_trajectory(driver["rx"], arrived)
  BY <1>3, <1>6, <1>7 DEF verify_trajectory, Topological
<1> QED BY <1>8 DEF Authentic, arrived

Survives(f, c) ==
    c.genuine /\ c.flipped = {} /\ ~c.strict /\ FixesS3(f.pmd_rotation) => c.report.auth_ok

LEMMA ArrivalSurvives ==
    ASSUME fiber \in Fibers, driver["tx"] \in LatchedBy("tx"), driver["rx"] \in LatchedBy("rx"),
           NEW r \in Requests, NEW n \in 1 .. MaxPosts, NEW seq \in 0 .. SequenceMod - 1,
           NEW flips, NEW arrived, ArrivesAs(r, n, seq, flips, arrived), arrived # << >>
    PROVE  Survives(fiber, arrived[1])
<1> DEFINE auth == Authentic(r.schema_id, r.bytes, n, seq, flips)
<1>0. PICK v \in any_decode(OAM_MODE(r.schema_id), Received(r.schema_id, r.bytes, n, flips)) :
          arrived = IF v = << >> THEN << >> ELSE << Arrival(n, seq, v[1], flips, auth) >>
  BY Zenon DEF ArrivesAs
<1>1. arrived = << Arrival(n, seq, v[1], flips, auth) >>
  BY <1>0
<1>2. arrived[1] = Arrival(n, seq, v[1], flips, auth)
  BY <1>1
<1>3. /\ arrived[1].genuine = (driver["tx"].secret = driver["rx"].secret)
      /\ arrived[1].strict = ~driver["rx"].topological
      /\ arrived[1].flipped = flips /\ arrived[1].report.auth_ok = auth
  <2> HIDE DEF auth
  <2> QED BY <1>2 DEF Arrival
<1>4. ASSUME driver["tx"].secret = driver["rx"].secret, flips = {}, driver["rx"].topological,
             FixesS3(fiber.pmd_rotation)
      PROVE  auth
  BY <1>4, SurvivesRotation
<1> HIDE DEF auth
<1> QED BY <1>3, <1>4, Zenon DEF Survives

AllSurvive == \A i \in DOMAIN Delivered : Survives(fiber, Delivered[i])

LEMMA DeliverSurvives == ASSUME StackInv, AllSurvive, Deliver PROVE AllSurvive'
<1> DEFINE n == Len(sent) + 1
<1>1. PICK start \in 1 .. n, r \in Requests : \E flips, arrived : Turn(start, r, flips, arrived)
  BY DeliverTurns
<1>2. PICK flips, arrived : Turn(start, r, flips, arrived)
  BY <1>1
<1> DEFINE seq == (n - start) % SequenceMod
<1>3. /\ flips \in SUBSET Exposed(fiber, Received(r.schema_id, r.bytes, n, {}))
      /\ ArrivesAs(r, n, seq, flips, arrived)
      /\ cq' = IF arrived = << >> THEN cq ELSE push(cq, arrived[1])
  BY <1>2, Zenon DEF Turn
<1>4. /\ n \in 1 .. MaxPosts /\ n \in Nat /\ fiber \in Fibers /\ session \in Nat
      /\ driver["tx"] \in LatchedBy("tx") /\ driver["rx"] \in LatchedBy("rx")
  BY PumpingTyped DEF Deliver
<1>5. /\ polled \in Seq(Completion) /\ cq \in Seq(Completion) /\ Len(cq) <= CqCapacity
      /\ polled' = polled /\ fiber' = fiber
  BY DEF Deliver, StackInv, TypesInv
<1> HIDE DEF n
<1>6. seq \in 0 .. SequenceMod - 1
  BY <1>4, SequenceTyped, Zenon
<1> HIDE DEF seq
<1>7. CASE arrived = << >>
  <2>1. Delivered' = Delivered
    BY <1>3, <1>5, <1>7 DEF Delivered
  <2> QED BY <1>5, <2>1 DEF AllSurvive
<1>8. CASE arrived # << >>
  <2> DEFINE c == arrived[1]
  <2>1. Completes(r, n, seq, arrived)
    BY <1>3, <1>4, <1>6, ArrivalCompletes, Zenon
  <2>2. c \in Completion /\ cq' = push(cq, c)
    BY <1>3, <1>8, <2>1 DEF Completes
  <2>3. Survives(fiber, c)
    BY <1>3, <1>4, <1>6, <1>8, ArrivalSurvives, Zenon
  <2> HIDE DEF c
  <2> DEFINE after == polled \o push(cq, c)
  <2>4. /\ after \in Seq(Completion)
        /\ \/ Grown(polled \o cq, after, c)
           \/ Rolled(polled \o cq, after, Len(polled \o cq) - CqCapacity + 1, c)
    BY <1>5, <2>2, PushShape, Zenon
  <2>5. Delivered = polled \o cq /\ Delivered' = after /\ Delivered \in Seq(Completion)
    BY <1>5, <2>2, DeliveredTyped DEF Delivered, StackInv
  <2> HIDE DEF after
  <2>6. OldOrNew(Delivered, Delivered', c)
    BY <2>4, <2>5, PushKeepsOrder, Zenon
  <2> QED BY <1>5, <2>3, <2>6 DEF AllSurvive, OldOrNew
<1> QED BY <1>7, <1>8

LEMMA StepSurvives == StackInv /\ AllSurvive /\ [Next]_vars => AllSurvive'
<1> SUFFICES ASSUME StackInv, AllSurvive, [Next]_vars PROVE AllSurvive'
  OBVIOUS
<1>1. ASSUME NEW e \in Ends, NEW setting \in Settings[e], Arm(e, setting)
      PROVE  Delivered' = Delivered /\ fiber' = fiber
  BY <1>1 DEF Arm, Delivered
<1>2. ASSUME NEW e \in Ends, refresh_from_csr(e)
      PROVE  Delivered' = Delivered /\ fiber' = fiber
  BY <1>2 DEF refresh_from_csr, Delivered
<1>3. ASSUME NEW r \in Requests, Post(r.schema_id, r.payload_len, r.bytes)
      PROVE  Delivered' = Delivered /\ fiber' = fiber
  BY <1>3 DEF Post, Delivered
<1>4. ASSUME transmit_pending PROVE Delivered' = Delivered /\ fiber' = fiber
  BY <1>4 DEF transmit_pending, Delivered
<1>5. ASSUME Deliver PROVE AllSurvive'
  BY <1>5, DeliverSurvives
<1>6. ASSUME Poll PROVE Delivered' = Delivered /\ fiber' = fiber
  <2>1. polled \in Seq(Completion) /\ cq \in Seq(Completion) /\ cq # << >>
    BY <1>6 DEF StackInv, TypesInv, Poll
  <2>2. polled' \o cq' = polled \o cq
    BY <1>6, <2>1, PollMoves DEF Poll
  <2> QED BY <1>6, <2>2 DEF Delivered, Poll
<1>7. ASSUME UNCHANGED vars PROVE Delivered' = Delivered /\ fiber' = fiber
  BY <1>7 DEF vars, Delivered
<1>8. ASSUME Delivered' = Delivered, fiber' = fiber PROVE AllSurvive'
  BY <1>8 DEF AllSurvive
<1> QED BY <1>1, <1>2, <1>3, <1>4, <1>5, <1>6, <1>7, <1>8, Zenon DEF Next, Pump

\* verify_trajectory in topological mode accepts an unchanged Transient of the
\* right secret whenever the fiber turns the sphere about the s3 axis: the
\* winding number of a loop off that axis is the same after the turn.
THEOREM SurvivesS3 == Spec => []TopologicalSurvivesS3
<1>1. Init => AllSurvive
  <2>1. Init => Delivered = << >> \o << >>
    BY DEF Init, Delivered
  <2>2. DOMAIN (<< >> \o << >>) = {}
    OBVIOUS
  <2> QED BY <2>1, <2>2 DEF AllSurvive
<1>2. AllSurvive => TopologicalSurvivesS3
  BY DEF AllSurvive, TopologicalSurvivesS3, Survives, Range
<1> QED BY <1>1, <1>2, StepSurvives, StackInvariant, PTL DEF Spec

=============================================================================
