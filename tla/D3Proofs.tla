------------------------------- MODULE D3Proofs ------------------------------
(***************************************************************************)
(* Agreement of the D3 handshake, for any number of runs and keys, and     *)
(* what its replay cache rejects, for every capacity and set of hashes.    *)
(***************************************************************************)
EXTENDS D3Handshake, ReplayCache, SequenceTheorems, TLAPS

-----------------------------------------------------------------------------
(***************************************************************************)
(* The handshake.  The argument is about what has been signed: a HELLO-R   *)
(* signature on the network was made by the run whose nonce it carries,    *)
(* for the nonce that run still holds; a HELLO-I signature by a finished   *)
(* initiator run.                                                          *)
(***************************************************************************)

RunTypes ==
    /\ ist \in [IRuns -> {"new", "wait", "done", "failed"}]
    /\ iNonceR \in [IRuns -> RRuns \union {None}]
    /\ rst \in [RRuns -> {"new", "wait", "done", "failed"}]
    /\ rNonceI \in [RRuns -> IRuns \union {None}]
    /\ rPeer \in [RRuns -> Keys \union {None}]

Msg1Honest == \A m \in net : m.type = "msg1" => m.ni \in IRuns /\ m.pk = IKey[m.ni]

\* The responder run behind a Msg2 keeps the nonce and key it answered.
Msg2Honest ==
    \A m \in net : m.type = "msg2" =>
        /\ m.nr \in RRuns /\ rst[m.nr] # "new" /\ rNonceI[m.nr] \in IRuns
        /\ m.sig = Sig(RKey[m.nr], "HELLO-R", rNonceI[m.nr], m.nr)
        /\ rPeer[m.nr] = IKey[rNonceI[m.nr]]

Msg3Honest ==
    \A m \in net : m.type = "msg3" =>
        \E i \in IRuns : ist[i] = "done" /\ m.sig = Sig(IKey[i], "HELLO-I", iNonceR[i], i)

FrameHonest ==
    \A f \in net : f.type = "frame" =>
        /\ f.by \in IRuns \union RRuns /\ Session(f.by)
        /\ f.key = OwnKey(f.by) /\ f.epoch = Epoch(f.by)

Waiting ==
    \A r \in RRuns : rst[r] \in {"wait", "done"} =>
        rNonceI[r] \in IRuns /\ rPeer[r] = IKey[rNonceI[r]] /\ rPeer[r] \in Acl

Agreement == ResponderAgreement /\ InitiatorAgreement

HandshakeInv ==
    RunTypes /\ Msg1Honest /\ Msg2Honest /\ Msg3Honest /\ FrameHonest /\ Waiting /\ Agreement

OpenedInv == OpenedIsFromPeer /\ \A e \in opened : e[1] \in IRuns \union RRuns /\ Session(e[1])

LEMMA InitInv == Init => HandshakeInv /\ OpenedInv
BY DEF Init, HandshakeInv, OpenedInv, RunTypes, Msg1Honest, Msg2Honest, Msg3Honest,
       FrameHonest, Waiting, Agreement, ResponderAgreement, InitiatorAgreement, OpenedIsFromPeer

\* Sessions, once open, keep their epoch when the run tables only grow.
LEMMA SessionsKept ==
    ASSUME HandshakeInv,
           \A i \in IRuns : ist[i] = "done" => ist'[i] = "done" /\ iNonceR'[i] = iNonceR[i],
           \A r \in RRuns : rst[r] = "done" => rst'[r] = "done" /\ rNonceI'[r] = rNonceI[r]
    PROVE  \A s \in IRuns \union RRuns : Session(s) => Session(s)' /\ Epoch(s)' = Epoch(s)
BY RunsDisjoint DEF Session, Epoch

\* Frames already sent stay honest under the same condition.
LEMMA FramesKept ==
    ASSUME HandshakeInv,
           \A i \in IRuns : ist[i] = "done" => ist'[i] = "done" /\ iNonceR'[i] = iNonceR[i],
           \A r \in RRuns : rst[r] = "done" => rst'[r] = "done" /\ rNonceI'[r] = rNonceI[r],
           \A f \in net' : f.type = "frame" => f \in net
    PROVE  FrameHonest'
<1>1. \A s \in IRuns \union RRuns : Session(s) => Session(s)' /\ Epoch(s)' = Epoch(s)
    BY SessionsKept
<1> QED BY <1>1 DEF HandshakeInv, FrameHonest, OwnKey

\* Accepted frames stay explained under the same condition.
LEMMA OpenedKept ==
    ASSUME HandshakeInv, OpenedInv, UNCHANGED opened,
           \A i \in IRuns : ist[i] = "done" => ist'[i] = "done" /\ iNonceR'[i] = iNonceR[i],
           \A r \in RRuns : rst[r] = "done" => rst'[r] = "done" /\ rNonceI'[r] = rNonceI[r]
    PROVE  OpenedInv'
<1>1. \A s \in IRuns \union RRuns : Session(s) => Session(s)'
    BY SessionsKept
<1>2. ASSUME NEW e \in opened'
      PROVE  /\ e[1] \in IRuns \union RRuns /\ Session(e[1])'
             /\ e[3].domain = e[2]
             /\ e[3].by = IF e[1] \in IRuns THEN iNonceR'[e[1]] ELSE rNonceI'[e[1]]
    <2>1. /\ e[1] \in IRuns \union RRuns /\ Session(e[1]) /\ e[3].domain = e[2]
          /\ e[3].by = IF e[1] \in IRuns THEN iNonceR[e[1]] ELSE rNonceI[e[1]]
        BY <1>2 DEF OpenedInv, OpenedIsFromPeer
    <2>2. e[1] \in IRuns => iNonceR'[e[1]] = iNonceR[e[1]]
        BY <2>1, RunsDisjoint DEF Session
    <2>3. e[1] \in RRuns => rNonceI'[e[1]] = rNonceI[e[1]]
        BY <2>1, RunsDisjoint DEF Session
    <2> QED BY <1>1, <2>1, <2>2, <2>3
<1> QED BY <1>2 DEF OpenedInv, OpenedIsFromPeer

LEMMA StartStep ==
    ASSUME HandshakeInv, OpenedInv, NEW i \in IRuns, Start(i)
    PROVE  HandshakeInv' /\ OpenedInv'
<1> USE DEF HandshakeInv
<1>1. /\ RunTypes' /\ \A j \in IRuns : ist[j] = "done" => ist'[j] = "done"
      /\ \A j \in IRuns : ist'[j] = "done" => ist[j] = "done"
    BY DEF Start, RunTypes, rVars
<1>2. UNCHANGED <<iNonceR, rst, rNonceI, rPeer, opened>>
    BY DEF Start, rVars
<1>3. \A m \in net' : m \in net \/ m = Msg1(IKey[i], i)
    BY DEF Start
<1>4. Msg1Honest' /\ Msg2Honest' /\ Msg3Honest'
    BY <1>1, <1>2, <1>3 DEF Msg1Honest, Msg2Honest, Msg3Honest, Msg1
<1>5. FrameHonest'
    BY <1>1, <1>2, <1>3, FramesKept DEF Msg1
<1>6. OpenedInv'
    BY <1>1, <1>2, OpenedKept
<1>7. Waiting' /\ Agreement'
    BY <1>1, <1>2 DEF Waiting, Agreement, ResponderAgreement, InitiatorAgreement
<1> QED BY <1>1, <1>4, <1>5, <1>6, <1>7

LEMMA FinishStep ==
    ASSUME HandshakeInv, OpenedInv, NEW i \in IRuns, NEW m \in net, Finish(i, m)
    PROVE  HandshakeInv' /\ OpenedInv'
<1> USE DEF HandshakeInv
<1>1. UNCHANGED <<rst, rNonceI, rPeer, opened>> /\ ist[i] = "wait" /\ m.type = "msg2"
    BY DEF Finish, rVars
<1>2. m.nr \in RRuns
    BY <1>1 DEF Msg2Honest
<1>3. /\ RunTypes'
      /\ \A j \in IRuns : ist[j] = "done" => ist'[j] = "done" /\ iNonceR'[j] = iNonceR[j]
    BY <1>1, <1>2 DEF Finish, RunTypes
<1>4. OpenedInv'
    BY <1>1, <1>3, OpenedKept
<1>5. CASE VerifyMsg2(i, m)
    <2>1. /\ ist'[i] = "done" /\ iNonceR'[i] = m.nr
          /\ \A j \in IRuns \ {i} : ist'[j] = ist[j] /\ iNonceR'[j] = iNonceR[j]
          /\ net' = net \union {Msg3(IKey[i], Sig(IKey[i], "HELLO-I", m.nr, i))}
        BY <1>5 DEF Finish, RunTypes
    <2>2. /\ Sig(IPeer[i], "HELLO-R", i, m.nr) = Sig(RKey[m.nr], "HELLO-R", rNonceI[m.nr], m.nr)
          /\ rst[m.nr] # "new" /\ rPeer[m.nr] = IKey[rNonceI[m.nr]]
        BY <1>1, <1>5 DEF VerifyMsg2, verify_raw, Msg2Honest
    <2>3. IPeer[i] = RKey[m.nr] /\ rNonceI[m.nr] = i /\ rPeer[m.nr] = IKey[i]
        BY <2>2 DEF Sig
    <2>4. Msg1Honest' /\ Msg2Honest'
        BY <1>1, <2>1 DEF Msg1Honest, Msg2Honest, Msg3
    <2>5. Msg3Honest'
        <3> SUFFICES ASSUME NEW n \in net', n.type = "msg3"
                     PROVE  \E j \in IRuns : ist'[j] = "done"
                                /\ n.sig = Sig(IKey[j], "HELLO-I", iNonceR'[j], j)
            BY DEF Msg3Honest
        <3>1. CASE n \in net
            BY <3>1, <1>3 DEF Msg3Honest
        <3>2. CASE n = Msg3(IKey[i], Sig(IKey[i], "HELLO-I", m.nr, i))
            BY <3>2, <2>1 DEF Msg3
        <3> QED BY <2>1, <3>1, <3>2
    <2>6. FrameHonest'
        BY <1>1, <1>3, <2>1, FramesKept DEF Msg3
    <2>7. Waiting'
        BY <1>1 DEF Waiting
    <2>8. ResponderAgreement'
        BY <1>1, <1>3 DEF Agreement, ResponderAgreement
    <2>9. InitiatorAgreement'
        <3> SUFFICES ASSUME NEW j \in IRuns, ist'[j] = "done"
                     PROVE  \E r \in RRuns : /\ iNonceR'[j] = r /\ RKey[r] = IPeer[j]
                                             /\ rNonceI'[r] = j /\ rPeer'[r] = IKey[j]
                                             /\ rst'[r] # "new"
            BY DEF InitiatorAgreement
        <3>1. CASE j = i
            BY <1>1, <1>2, <2>1, <2>2, <2>3, <3>1
        <3>2. CASE j # i
            BY <1>1, <2>1, <3>2 DEF Agreement, InitiatorAgreement
        <3> QED BY <3>1, <3>2
    <2> QED BY <1>3, <1>4, <2>4, <2>5, <2>6, <2>7, <2>8, <2>9 DEF Agreement
<1>6. CASE ~VerifyMsg2(i, m)
    <2>1. /\ UNCHANGED <<net, iNonceR>>
          /\ \A j \in IRuns : ist'[j] = "done" => ist[j] = "done"
        BY <1>6 DEF Finish, RunTypes
    <2>2. Msg1Honest' /\ Msg2Honest' /\ Msg3Honest'
        BY <1>1, <1>3, <2>1 DEF Msg1Honest, Msg2Honest, Msg3Honest
    <2>3. FrameHonest'
        BY <1>1, <1>3, <2>1, FramesKept
    <2>4. Waiting' /\ ResponderAgreement'
        BY <1>1, <1>3, <2>1 DEF Waiting, Agreement, ResponderAgreement
    <2>5. InitiatorAgreement'
        BY <1>1, <2>1 DEF Agreement, InitiatorAgreement
    <2> QED BY <1>3, <1>4, <2>2, <2>3, <2>4, <2>5 DEF Agreement
<1> QED BY <1>5, <1>6

LEMMA HandleMsg1Step ==
    ASSUME HandshakeInv, OpenedInv, NEW r \in RRuns, NEW m \in net, HandleMsg1(r, m)
    PROVE  HandshakeInv' /\ OpenedInv'
<1> USE DEF HandshakeInv
<1>1. UNCHANGED <<ist, iNonceR, opened>> /\ rst[r] = "new" /\ m.type = "msg1"
    BY DEF HandleMsg1, iVars
<1>2. m.ni \in IRuns /\ m.pk = IKey[m.ni] /\ m.pk \in Keys
    BY <1>1, RunKeys DEF Msg1Honest
<1>3. /\ RunTypes'
      /\ rst'[r] # "new" /\ rst'[r] # "done"
      /\ \A q \in RRuns \ {r} : rst'[q] = rst[q] /\ rNonceI'[q] = rNonceI[q] /\ rPeer'[q] = rPeer[q]
    BY <1>1, <1>2 DEF HandleMsg1, RunTypes
<1>4. \A q \in RRuns : rst[q] = "done" => rst'[q] = "done" /\ rNonceI'[q] = rNonceI[q]
    BY <1>1, <1>3
<1>5. OpenedInv'
    BY <1>1, <1>4, OpenedKept
<1>6. \A n \in net : n.type = "msg2" => n.nr # r
    BY <1>1 DEF Msg2Honest
<1>7. \A i \in IRuns : ist[i] = "done" => iNonceR[i] # r
    BY <1>1 DEF Agreement, InitiatorAgreement
<1>8. ResponderAgreement' /\ InitiatorAgreement'
    <2>1. ResponderAgreement'
        BY <1>1, <1>3 DEF Agreement, ResponderAgreement
    <2>2. InitiatorAgreement'
        BY <1>1, <1>3, <1>7 DEF Agreement, InitiatorAgreement
    <2> QED BY <2>1, <2>2
<1>9. CASE m.pk \in Acl
    <2>1. /\ rst'[r] = "wait" /\ rNonceI'[r] = m.ni /\ rPeer'[r] = m.pk
          /\ net' = net \union {Msg2(RKey[r], r, Sig(RKey[r], "HELLO-R", m.ni, r))}
        BY <1>9 DEF HandleMsg1, RunTypes
    <2>2. Msg1Honest' /\ Msg3Honest'
        BY <1>1, <2>1 DEF Msg1Honest, Msg3Honest, Msg2
    <2>3. Msg2Honest'
        <3> SUFFICES ASSUME NEW n \in net', n.type = "msg2"
                     PROVE  /\ n.nr \in RRuns /\ rst'[n.nr] # "new" /\ rNonceI'[n.nr] \in IRuns
                            /\ n.sig = Sig(RKey[n.nr], "HELLO-R", rNonceI'[n.nr], n.nr)
                            /\ rPeer'[n.nr] = IKey[rNonceI'[n.nr]]
            BY DEF Msg2Honest
        <3>1. CASE n \in net
            BY <1>3, <1>6, <3>1 DEF Msg2Honest
        <3>2. CASE n = Msg2(RKey[r], r, Sig(RKey[r], "HELLO-R", m.ni, r))
            BY <1>2, <2>1, <3>2 DEF Msg2
        <3> QED BY <2>1, <3>1, <3>2
    <2>4. FrameHonest'
        BY <1>1, <1>4, <2>1, FramesKept DEF Msg2
    <2>5. Waiting'
        BY <1>2, <1>3, <1>9, <2>1 DEF Waiting
    <2> QED BY <1>3, <1>5, <1>8, <2>2, <2>3, <2>4, <2>5 DEF Agreement
<1>10. CASE m.pk \notin Acl
    <2>1. rst'[r] = "failed" /\ UNCHANGED <<rNonceI, rPeer, net>>
        BY <1>10 DEF HandleMsg1, RunTypes
    <2>2. Msg1Honest' /\ Msg2Honest' /\ Msg3Honest'
        BY <1>1, <1>3, <2>1 DEF Msg1Honest, Msg2Honest, Msg3Honest
    <2>3. FrameHonest'
        BY <1>1, <1>4, <2>1, FramesKept
    <2>4. Waiting'
        BY <1>3, <2>1 DEF Waiting
    <2> QED BY <1>3, <1>5, <1>8, <2>2, <2>3, <2>4 DEF Agreement
<1> QED BY <1>9, <1>10

LEMMA HandleMsg3Step ==
    ASSUME HandshakeInv, OpenedInv, NEW r \in RRuns, NEW m \in net, HandleMsg3(r, m)
    PROVE  HandshakeInv' /\ OpenedInv'
<1> USE DEF HandshakeInv
<1>1. /\ UNCHANGED <<net, ist, iNonceR, rNonceI, rPeer, opened>>
      /\ rst[r] = "wait" /\ m.type = "msg3"
    BY DEF HandleMsg3, iVars
<1>2. /\ RunTypes' /\ \A q \in RRuns \ {r} : rst'[q] = rst[q]
      /\ rst'[r] \in {"done", "failed"} /\ (rst'[r] = "done" => VerifyMsg3(r, m))
    BY <1>1 DEF HandleMsg3, RunTypes
<1>3. Msg1Honest' /\ Msg2Honest' /\ Msg3Honest' /\ Waiting' /\ InitiatorAgreement'
    <2>1. \A q \in RRuns : rst[q] # "new" => rst'[q] # "new"
        BY <1>1, <1>2
    <2>2. Msg1Honest' /\ Msg3Honest'
        BY <1>1 DEF Msg1Honest, Msg3Honest
    <2>3. Msg2Honest'
        BY <1>1, <2>1 DEF Msg2Honest
    <2>4. Waiting'
        BY <1>1, <1>2 DEF Waiting
    <2>5. InitiatorAgreement'
        BY <1>1, <2>1 DEF Agreement, InitiatorAgreement
    <2> QED BY <2>2, <2>3, <2>4, <2>5
<1>4. FrameHonest' /\ OpenedInv'
    BY <1>1, <1>2, FramesKept, OpenedKept
<1>5. ResponderAgreement'
    <2> SUFFICES ASSUME NEW q \in RRuns, rst'[q] = "done"
                 PROVE  \E i \in IRuns : /\ rNonceI'[q] = i /\ rPeer'[q] = IKey[i] /\ IKey[i] \in Acl
                                         /\ ist'[i] = "done" /\ iNonceR'[i] = q
                                         /\ IPeer[i] = RKey[q]
        BY DEF ResponderAgreement
    <2>1. CASE q # r
        BY <1>1, <1>2, <2>1 DEF Agreement, ResponderAgreement
    <2>2. CASE q = r
        <3>1. PICK i \in IRuns : ist[i] = "done" /\ m.sig = Sig(IKey[i], "HELLO-I", iNonceR[i], i)
            BY <1>1 DEF Msg3Honest
        <3>2. Sig(rPeer[r], "HELLO-I", r, rNonceI[r]) = Sig(IKey[i], "HELLO-I", iNonceR[i], i)
            BY <1>2, <2>2, <3>1 DEF VerifyMsg3, verify_raw
        <3>3. rPeer[r] = IKey[i] /\ iNonceR[i] = r /\ rNonceI[r] = i
            BY <3>2 DEF Sig
        <3>4. IPeer[i] = RKey[r]
            BY <3>1, <3>3 DEF Agreement, InitiatorAgreement
        <3>5. rPeer[r] \in Acl
            BY <1>1 DEF Waiting
        <3> QED BY <1>1, <2>2, <3>1, <3>3, <3>4, <3>5
    <2> QED BY <2>1, <2>2
<1> QED BY <1>2, <1>3, <1>4, <1>5 DEF Agreement

LEMMA AbortStep ==
    ASSUME HandshakeInv, OpenedInv, Abort
    PROVE  HandshakeInv' /\ OpenedInv'
<1> USE DEF HandshakeInv
<1>1. /\ UNCHANGED <<net, iNonceR, rNonceI, rPeer, opened>> /\ RunTypes'
      /\ \A i \in IRuns : ist'[i] = "done" <=> ist[i] = "done"
      /\ \A r \in RRuns : /\ rst'[r] = "done" <=> rst[r] = "done"
                          /\ rst'[r] = "wait" => rst[r] = "wait"
                          /\ rst[r] # "new" => rst'[r] # "new"
    BY DEF Abort, RunTypes, iVars, rVars
<1>2. Msg1Honest' /\ Msg3Honest'
    BY <1>1 DEF Msg1Honest, Msg3Honest
<1>3. Msg2Honest'
    BY <1>1 DEF Msg2Honest
<1>4. Waiting'
    BY <1>1 DEF Waiting
<1>5. ResponderAgreement'
    BY <1>1 DEF Agreement, ResponderAgreement
<1>6. InitiatorAgreement'
    BY <1>1 DEF Agreement, InitiatorAgreement
<1>7. FrameHonest' /\ OpenedInv'
    BY <1>1, FramesKept, OpenedKept
<1> QED BY <1>1, <1>2, <1>3, <1>4, <1>5, <1>6, <1>7 DEF Agreement

\* Sealing and opening change no run.
LEMMA RunsKept ==
    ASSUME RunTypes, Waiting, Agreement, UNCHANGED <<ist, iNonceR, rst, rNonceI, rPeer>>
    PROVE  RunTypes' /\ Waiting' /\ Agreement'
<1>1. RunTypes'
    BY DEF RunTypes
<1>2. Waiting'
    BY DEF Waiting
<1>3. Agreement'
    BY DEF Agreement, ResponderAgreement, InitiatorAgreement
<1> QED BY <1>1, <1>2, <1>3

LEMMA SealStep ==
    ASSUME HandshakeInv, OpenedInv, NEW s \in IRuns \union RRuns, NEW d \in Domains, Seal(s, d)
    PROVE  HandshakeInv' /\ OpenedInv'
<1> USE DEF HandshakeInv
<1> DEFINE frame == [type |-> "frame", key |-> OwnKey(s), domain |-> d,
                     epoch |-> Epoch(s), by |-> s]
<1>1. UNCHANGED <<ist, iNonceR, rst, rNonceI, rPeer, opened>> /\ net' = net \union {frame}
    BY DEF Seal, iVars, rVars
<1>2. frame.type = "frame" /\ frame.by = s /\ frame.key = OwnKey(s) /\ frame.epoch = Epoch(s)
    OBVIOUS
<1> HIDE DEF frame
<1>3. RunTypes' /\ Waiting' /\ Agreement'
    BY <1>1, RunsKept
<1>4. Msg1Honest' /\ Msg2Honest' /\ Msg3Honest'
    BY <1>1, <1>2 DEF Msg1Honest, Msg2Honest, Msg3Honest
<1>5. \A t : (Session(t)' <=> Session(t)) /\ Epoch(t)' = Epoch(t) /\ OwnKey(t)' = OwnKey(t)
    BY <1>1 DEF Session, Epoch, OwnKey
<1>6. Session(s)
    BY DEF Seal
<1>7. FrameHonest'
    BY <1>1, <1>2, <1>5, <1>6 DEF FrameHonest
<1>8. OpenedInv'
    BY <1>1, OpenedKept
<1> QED BY <1>3, <1>4, <1>7, <1>8

\* The frame that open accepts cannot be the opener's own, nor another epoch's.
LEMMA OpenStep ==
    ASSUME HandshakeInv, OpenedInv, NEW s \in IRuns \union RRuns, NEW d \in Domains,
           NEW f \in net, OpenFrame(s, d, f)
    PROVE  HandshakeInv' /\ OpenedInv'
<1> USE DEF HandshakeInv
<1>1. UNCHANGED <<net, ist, iNonceR, rst, rNonceI, rPeer>> /\ opened' = opened \union {<<s, d, f>>}
    BY DEF OpenFrame, iVars, rVars
<1>2. /\ RunTypes' /\ Waiting' /\ Agreement'
      /\ Msg1Honest' /\ Msg2Honest' /\ Msg3Honest'
    <2>1. RunTypes' /\ Waiting' /\ Agreement'
        BY <1>1, RunsKept
    <2>2. Msg1Honest' /\ Msg2Honest' /\ Msg3Honest'
        BY <1>1 DEF Msg1Honest, Msg2Honest, Msg3Honest
    <2> QED BY <2>1, <2>2
<1>3. \A t : (Session(t)' <=> Session(t)) /\ Epoch(t)' = Epoch(t) /\ OwnKey(t)' = OwnKey(t)
    BY <1>1 DEF Session, Epoch, OwnKey
<1>4. FrameHonest'
    BY <1>1, <1>3 DEF FrameHonest
<1>5. /\ Session(s) /\ f.key = PeerKey(s) /\ f.domain = d /\ f.epoch = Epoch(s)
      /\ f.by \in IRuns \union RRuns /\ Session(f.by)
      /\ f.key = OwnKey(f.by) /\ f.epoch = Epoch(f.by)
    BY DEF OpenFrame, VerifyFrame, FrameHonest
<1>6. f.by = IF s \in IRuns THEN iNonceR[s] ELSE rNonceI[s]
    <2>1. CASE s \in IRuns
        <3>1. f.by \notin IRuns
            BY <1>5, <2>1, NoSelfDial DEF Epoch, OwnKey, PeerKey
        <3> QED BY <1>5, <2>1, <3>1 DEF Epoch
    <2>2. CASE s \in RRuns
        <3>1. s \notin IRuns /\ rst[s] = "done"
            BY <1>5, <2>2, RunsDisjoint DEF Session
        <3>2. PICK i \in IRuns : rPeer[s] = IKey[i] /\ IPeer[i] = RKey[s]
            BY <2>2, <3>1 DEF Agreement, ResponderAgreement
        <3>3. f.by \in IRuns
            BY <1>5, <3>1, <3>2, NoSelfDial DEF Epoch, OwnKey, PeerKey
        <3> QED BY <1>5, <3>1, <3>3 DEF Epoch
    <2> QED BY <2>1, <2>2
<1>7. OpenedInv'
    <2> SUFFICES ASSUME NEW e \in opened'
                 PROVE  /\ e[1] \in IRuns \union RRuns /\ Session(e[1])'
                        /\ e[3].domain = e[2]
                        /\ e[3].by = IF e[1] \in IRuns THEN iNonceR'[e[1]] ELSE rNonceI'[e[1]]
        BY DEF OpenedInv, OpenedIsFromPeer
    <2>1. CASE e \in opened
        BY <1>1, <1>3, <2>1 DEF OpenedInv, OpenedIsFromPeer
    <2>2. CASE e = <<s, d, f>>
        BY <1>1, <1>3, <1>5, <1>6, <2>2
    <2> QED BY <1>1, <2>1, <2>2
<1> QED BY <1>2, <1>4, <1>7

LEMMA InvStep == HandshakeInv /\ OpenedInv /\ [Next]_d3Vars => (HandshakeInv /\ OpenedInv)'
<1> SUFFICES ASSUME HandshakeInv, OpenedInv, [Next]_d3Vars PROVE (HandshakeInv /\ OpenedInv)'
    OBVIOUS
<1>1. CASE UNCHANGED d3Vars
    <2>1. UNCHANGED <<net, ist, iNonceR, rst, rNonceI, rPeer, opened>>
        BY <1>1 DEF d3Vars
    <2>2. RunTypes' /\ Waiting' /\ Agreement'
        BY <2>1 DEF HandshakeInv, RunTypes, Waiting, Agreement, ResponderAgreement,
                    InitiatorAgreement
    <2>3. Msg1Honest' /\ Msg2Honest' /\ Msg3Honest'
        BY <2>1 DEF HandshakeInv, Msg1Honest, Msg2Honest, Msg3Honest
    <2>4. FrameHonest'
        BY <2>1 DEF HandshakeInv, FrameHonest, Session, Epoch, OwnKey
    <2>5. OpenedInv'
        BY <2>1 DEF OpenedInv, OpenedIsFromPeer, Session
    <2> QED BY <2>2, <2>3, <2>4, <2>5 DEF HandshakeInv
<1>2. CASE Next
    BY <1>2, StartStep, FinishStep, HandleMsg1Step, HandleMsg3Step, AbortStep, SealStep, OpenStep
       DEF Next
<1> QED BY <1>1, <1>2

LEMMA HandshakeInvariant == Spec => [](HandshakeInv /\ OpenedInv)
BY InitInv, InvStep, PTL DEF Spec

\* When handle_msg3 returns Ok, the client of the responder's Msg1 is admitted
\* by the ACL and has finished with this responder's key and this run's nonces,
\* for any number of concurrent runs and keys.
THEOREM RespondersAgree == Spec => []ResponderAgreement
<1>1. HandshakeInv => ResponderAgreement
    BY DEF HandshakeInv, Agreement
<1> QED BY <1>1, HandshakeInvariant, PTL

\* When finish returns Ok, a run of the configured peer has answered this
\* initiator's nonce and knows its key.
THEOREM InitiatorsAgree == Spec => []InitiatorAgreement
<1>1. HandshakeInv => InitiatorAgreement
    BY DEF HandshakeInv, Agreement
<1> QED BY <1>1, HandshakeInvariant, PTL

\* open returns only what the other end of the same session sealed.
THEOREM FramesFromPeer == Spec => []OpenedIsFromPeer
<1>1. OpenedInv => OpenedIsFromPeer
    BY DEF OpenedInv
<1> QED BY <1>1, HandshakeInvariant, PTL

\* The epoch is shared by the two ends of a session and by nobody else.
THEOREM EpochsAgree == Spec => []EpochAgreement
<1>1. HandshakeInv => EpochAgreement
    <2> SUFFICES ASSUME HandshakeInv, NEW s \in IRuns \union RRuns, NEW t \in IRuns \union RRuns,
                        Session(s), Session(t), s # t
                 PROVE  Epoch(s) = Epoch(t) <=>
                            \/ s \in IRuns /\ t \in RRuns /\ iNonceR[s] = t
                            \/ t \in IRuns /\ s \in RRuns /\ iNonceR[t] = s
        BY DEF EpochAgreement
    <2>1. \A i \in IRuns, r \in RRuns :
              ist[i] = "done" /\ iNonceR[i] = r => rNonceI[r] = i
        BY DEF HandshakeInv, Agreement, InitiatorAgreement
    <2>2. \A i \in IRuns : i \notin RRuns
        BY RunsDisjoint
    <2>3. CASE s \in IRuns /\ t \in IRuns
        BY <2>2, <2>3 DEF Epoch
    <2>4. CASE s \in IRuns /\ t \in RRuns
        BY <2>1, <2>2, <2>4 DEF Epoch, Session
    <2>5. CASE s \in RRuns /\ t \in IRuns
        BY <2>1, <2>2, <2>5 DEF Epoch, Session
    <2>6. CASE s \in RRuns /\ t \in RRuns
        BY <2>2, <2>6 DEF Epoch
    <2> QED BY <2>3, <2>4, <2>5, <2>6
<1> QED BY <1>1, HandshakeInvariant, PTL

-----------------------------------------------------------------------------
(* The replay cache. *)

LEMMA NextIndex ==
    ASSUME NEW i \in 0 .. Capacity - 1
    PROVE  (i + 1) % Capacity = IF i + 1 = Capacity THEN 0 ELSE i + 1
BY CapacityPositive

LEMMA FullIndex == Capacity % Capacity = 0
BY CapacityPositive

Entries == Hashes \union {Zero}

File == [1 .. Capacity -> Entries]

\* Opening a file of full length leaves it as it is and starts at its first entry.
LEMMA OpenFull ==
    ASSUME NEW file \in File, Open(file)
    PROVE  mem' = file /\ idx' = 0 /\ disk' = file
<1>1. file \in Seq(Entries) /\ Len(file) = Capacity
  BY CapacityPositive DEF File
<1>2. [i \in 1 .. (Capacity - Len(file)) |-> Zero] = << >>
  BY <1>1, CapacityPositive
<1>3. file \o << >> = file
  BY <1>1, ConcatEmptySeq
<1> QED BY <1>1, <1>2, <1>3, FullIndex DEF Open

LEMMA StoredIsFile ==
    ASSUME TypeOK, NEW h \in Entries
    PROVE  Stored(h) \in File /\ Stored(h)[idx + 1] = h
BY CapacityPositive DEF TypeOK, Stored, File, Entries

\* An insertion puts its hash into the memory ring and changes one entry of it.
LEMMA Remembered ==
    ASSUME TypeOK, NEW h \in Hashes
    PROVE  /\ Remember(h) \in Seq(Entries) /\ Len(Remember(h)) <= Capacity
           /\ Len(mem) < Capacity => /\ Len(Remember(h)) = Len(mem) + 1
                                     /\ Remember(h)[Len(mem) + 1] = h
                                     /\ \A p \in 1 .. Len(mem) : Remember(h)[p] = mem[p]
           /\ Len(mem) = Capacity => /\ Len(Remember(h)) = Capacity
                                     /\ Remember(h)[idx + 1] = h
                                     /\ \A p \in 1 .. Capacity :
                                           p # idx + 1 => Remember(h)[p] = mem[p]
<1>1. mem \in Seq(Entries) /\ Len(mem) <= Capacity /\ Len(mem) \in Nat /\ idx \in 0 .. Capacity - 1
  BY DEF TypeOK, Entries
<1>2. CASE Len(mem) < Capacity
  BY <1>1, <1>2, CapacityPositive DEF Remember, Entries
<1>3. CASE Len(mem) = Capacity
  <2>1. Remember(h) = [mem EXCEPT ![idx + 1] = h]
    BY <1>3, CapacityPositive DEF Remember
  <2>2. Remember(h) \in Seq(Entries) /\ Len(Remember(h)) = Capacity
    BY <1>1, <1>3, <2>1, ExceptSeq, CapacityPositive DEF Entries
  <2>3. /\ Remember(h)[idx + 1] = h
        /\ \A p \in 1 .. Capacity : p # idx + 1 => Remember(h)[p] = mem[p]
    BY <1>1, <1>3, <2>1, CapacityPositive
  <2> QED BY <1>3, <2>2, <2>3, CapacityPositive
<1> QED BY <1>1, <1>2, <1>3, CapacityPositive

-----------------------------------------------------------------------------
(* Types *)

LEMMA TypesInit == CacheInit => TypeOK
BY CapacityPositive DEF CacheInit, TypeOK

LEMMA TypesNext == TypeOK /\ [CacheNext]_cacheVars => TypeOK'
<1> SUFFICES ASSUME TypeOK, [CacheNext]_cacheVars PROVE TypeOK'
  OBVIOUS
<1>1. ASSUME NEW h \in Hashes, CheckAndInsert(h), UNCHANGED faults PROVE TypeOK'
  <2>1. mem' \in Seq(Hashes \union {Zero}) /\ Len(mem') <= Capacity
    BY <1>1, Remembered DEF CheckAndInsert, Entries
  <2>2. idx' \in 0 .. Capacity - 1
    BY <1>1, NextIndex, CapacityPositive DEF CheckAndInsert, TypeOK
  <2>3. disk' \in [1 .. Capacity -> Hashes \union {Zero}]
    BY <1>1, StoredIsFile DEF CheckAndInsert, Entries, File
  <2>4. accepted' \in Seq(Hashes)
    BY <1>1 DEF CheckAndInsert, TypeOK
  <2> QED BY <1>1, <2>1, <2>2, <2>3, <2>4 DEF TypeOK
<1>2. ASSUME NEW h \in Hashes, InsertFails(h), UNCHANGED faults PROVE TypeOK'
  <2>1. mem' \in Seq(Hashes \union {Zero}) /\ Len(mem') <= Capacity
    BY <1>2, Remembered DEF InsertFails, Entries
  <2>2. disk' \in [1 .. Capacity -> Hashes \union {Zero}]
    BY <1>2, StoredIsFile DEF InsertFails, Interrupted, Entries, File, TypeOK
  <2> QED BY <1>2, <2>1, <2>2 DEF InsertFails, TypeOK
<1>3. ASSUME NEW file \in File, Open(file), UNCHANGED <<accepted, faults>> PROVE TypeOK'
  <2>1. mem' = file /\ idx' = 0 /\ disk' = file
    BY <1>3, OpenFull
  <2>2. file \in Seq(Entries) /\ Len(file) = Capacity
    BY CapacityPositive DEF File
  <2> QED BY <1>3, <2>1, <2>2, CapacityPositive DEF TypeOK, File, Entries
<1>4. ASSUME NEW h \in Hashes, Crash(h), UNCHANGED faults PROVE TypeOK'
  <2>1. Interrupted(h) \subseteq File
    BY StoredIsFile DEF Interrupted, TypeOK, File, Entries
  <2> QED BY <1>3, <1>4, <2>1 DEF Crash
<1>5. CASE Restart /\ UNCHANGED faults
  BY <1>3, <1>5 DEF Restart, TypeOK, File, Entries
<1>6. CASE UNCHANGED cacheVars
  BY <1>6 DEF cacheVars, TypeOK
<1> QED BY <1>1, <1>2, <1>4, <1>5, <1>6 DEF CacheNext

-----------------------------------------------------------------------------
(* The newest hash *)

\* With nothing worse than restarts, the newest hash is in memory and in the file.
NewestKept ==
    faults \subseteq {"restart"} /\ accepted # << >> =>
        /\ Seen(Last(accepted))
        /\ \E i \in 1 .. Capacity : disk[i] = Last(accepted)

LEMMA NewestKeptNext == TypeOK /\ NewestKept /\ [CacheNext]_cacheVars => NewestKept'
<1> SUFFICES ASSUME TypeOK, NewestKept, [CacheNext]_cacheVars,
                    faults' \subseteq {"restart"}, accepted' # << >>
             PROVE  /\ Seen(Last(accepted))'
                    /\ \E i \in 1 .. Capacity : disk'[i] = Last(accepted')
  BY DEF NewestKept
<1>1. ASSUME NEW h \in Hashes, CheckAndInsert(h)
      PROVE  /\ Seen(Last(accepted))'
             /\ \E i \in 1 .. Capacity : disk'[i] = Last(accepted')
  <2>1. Last(accepted') = h
    BY <1>1 DEF CheckAndInsert, TypeOK, Last
  <2>2. disk'[idx + 1] = h /\ idx + 1 \in 1 .. Capacity
    BY <1>1, StoredIsFile, CapacityPositive DEF CheckAndInsert, Entries, TypeOK
  <2>3. \E i \in 1 .. Len(mem') : mem'[i] = h
    <3>1. mem' = Remember(h) /\ Len(mem) \in Nat /\ Len(mem) <= Capacity
      BY <1>1 DEF CheckAndInsert, TypeOK
    <3>2. CASE Len(mem) < Capacity
      BY <3>1, <3>2, Remembered
    <3>3. CASE Len(mem) = Capacity
      BY <2>2, <3>1, <3>3, Remembered
    <3> QED BY <3>1, <3>2, <3>3, CapacityPositive
  <2> QED BY <2>1, <2>2, <2>3 DEF Seen
<1>2. CASE Restart /\ UNCHANGED faults
  <2>1. disk \in File /\ Len(disk) = Capacity
    BY CapacityPositive DEF TypeOK, File, Entries
  <2>2. mem' = disk /\ disk' = disk /\ accepted' = accepted
    BY <1>2, <2>1, OpenFull DEF Restart
  <2>3. \E i \in 1 .. Capacity : disk[i] = Last(accepted)
    BY <1>2, <2>2 DEF NewestKept
  <2> QED BY <2>1, <2>2, <2>3 DEF Seen
<1>3. CASE UNCHANGED cacheVars
  BY <1>3 DEF cacheVars, NewestKept, Seen
<1>4. "crash" \notin faults /\ "write" \notin faults
  BY DEF CacheNext, cacheVars
<1> QED BY <1>1, <1>2, <1>3, <1>4 DEF CacheNext, InsertFails, Crash

\* The hash that check_and_insert accepted last is rejected if it comes again,
\* after any number of clean restarts.
THEOREM NewestAlwaysRejected == CacheSpec => []NewestRejected
<1>1. CacheInit => NewestKept
  BY DEF CacheInit, NewestKept
<1>2. NewestKept => NewestRejected
  BY DEF NewestKept, NewestRejected
<1> QED BY <1>1, <1>2, TypesInit, TypesNext, NewestKeptNext, PTL DEF CacheSpec

-----------------------------------------------------------------------------
(* The last Capacity hashes *)

\* The entry of the ring that holds the hash accepted d hashes ago.
Slot(d) == IF d < idx THEN idx - d ELSE idx - d + Capacity

\* Without faults the memory ring holds the last Capacity accepted hashes, the
\* newest just before the index.
RingInOrder ==
    faults = {} =>
        /\ Len(mem) < Capacity => idx = Len(mem) /\ Len(accepted) = Len(mem)
        /\ \A d \in 0 .. Capacity - 1 :
              d < Len(accepted) =>
                  Slot(d) \in 1 .. Len(mem) /\ mem[Slot(d)] = accepted[Len(accepted) - d]

LEMMA RingInOrderInit == CacheInit => RingInOrder
BY CapacityPositive DEF CacheInit, RingInOrder

LEMMA RingInOrderInsert ==
    ASSUME TypeOK, RingInOrder, faults = {}, NEW h \in Hashes, CheckAndInsert(h), UNCHANGED faults
    PROVE  RingInOrder'
<1> DEFINE n == Len(accepted)
<1>1. /\ idx \in 0 .. Capacity - 1 /\ n \in Nat /\ Len(mem) \in Nat /\ Len(mem) <= Capacity
      /\ idx' = IF idx + 1 = Capacity THEN 0 ELSE idx + 1
  BY NextIndex DEF TypeOK, CheckAndInsert
<1>2. /\ Len(accepted') = n + 1 /\ accepted'[n + 1] = h
      /\ \A i \in 1 .. n : accepted'[i] = accepted[i]
  BY DEF CheckAndInsert, TypeOK
<1>3. /\ Len(mem) < Capacity => idx = Len(mem) /\ n = Len(mem)
      /\ \A d \in 0 .. Capacity - 1 :
            d < n => Slot(d) \in 1 .. Len(mem) /\ mem[Slot(d)] = accepted[n - d]
  BY DEF RingInOrder
<1>4. /\ Len(mem') = IF Len(mem) < Capacity THEN Len(mem) + 1 ELSE Capacity
      /\ idx + 1 \in 1 .. Len(mem') /\ mem'[idx + 1] = h
      /\ \A p \in 1 .. Len(mem) : p # idx + 1 => mem'[p] = mem[p]
  <2>1. mem' = Remember(h)
    BY DEF CheckAndInsert
  <2>2. CASE Len(mem) < Capacity
    BY <1>1, <1>3, <2>1, <2>2, Remembered
  <2>3. CASE Len(mem) = Capacity
    BY <1>1, <2>1, <2>3, Remembered
  <2> QED BY <1>1, <2>2, <2>3, CapacityPositive
<1>5. Len(mem') < Capacity => idx' = Len(mem') /\ Len(accepted') = Len(mem')
  BY <1>1, <1>2, <1>3, <1>4, CapacityPositive
<1>6. ASSUME NEW d \in 0 .. Capacity - 1, d < n + 1
      PROVE  Slot(d)' \in 1 .. Len(mem') /\ mem'[Slot(d)'] = accepted'[n + 1 - d]
  <2>1. CASE d = 0
    <3>1. Slot(d)' = idx + 1
      BY <1>1, <2>1, CapacityPositive DEF Slot
    <3> QED BY <1>1, <1>2, <1>4, <2>1, <3>1
  <2>2. CASE d # 0
    <3>1. d - 1 \in 0 .. Capacity - 1 /\ d - 1 < n /\ n - (d - 1) \in 1 .. n
      BY <1>1, <1>6, <2>2, CapacityPositive
    <3>2. Slot(d)' = Slot(d - 1) /\ Slot(d - 1) # idx + 1
      BY <1>1, <2>2, CapacityPositive DEF Slot
    <3>3. Slot(d - 1) \in 1 .. Len(mem) /\ mem[Slot(d - 1)] = accepted[n - (d - 1)]
      BY <1>3, <3>1
    <3>4. mem'[Slot(d - 1)] = mem[Slot(d - 1)] /\ Slot(d - 1) \in 1 .. Len(mem')
      <4> DEFINE slot == Slot(d - 1)
      <4>1. Len(mem) \in Nat /\ Len(mem') \in Nat /\ Len(mem) <= Len(mem')
        BY <1>1, <1>4, CapacityPositive
      <4>2. slot \in 1 .. Len(mem) /\ slot # idx + 1
        BY <3>2, <3>3
      <4> HIDE DEF slot
      <4>3. mem'[slot] = mem[slot]
        BY <1>4, <4>2
      <4>4. slot \in 1 .. Len(mem')
        BY <4>1, <4>2
      <4> QED BY <4>3, <4>4 DEF slot
    <3>5. accepted'[n + 1 - d] = accepted[n - (d - 1)]
      BY <1>1, <1>2, <3>1
    <3> QED BY <3>2, <3>3, <3>4, <3>5
  <2> QED BY <2>1, <2>2
<1> QED BY <1>2, <1>5, <1>6 DEF RingInOrder

LEMMA RingInOrderNext == TypeOK /\ RingInOrder /\ [CacheNext]_cacheVars => RingInOrder'
<1> SUFFICES ASSUME TypeOK, RingInOrder, [CacheNext]_cacheVars PROVE RingInOrder'
  OBVIOUS
<1>1. faults' = faults
  BY DEF CacheNext, cacheVars
<1>2. CASE faults # {}
  BY <1>1, <1>2 DEF RingInOrder
<1>3. CASE faults = {} /\ CacheNext
  <2>1. PICK h \in Hashes : CheckAndInsert(h)
    BY <1>3 DEF CacheNext, InsertFails, Crash, Restart
  <2> QED BY <1>1, <1>3, <2>1, RingInOrderInsert
<1>4. CASE UNCHANGED cacheVars
  BY <1>4 DEF cacheVars, RingInOrder, Slot
<1> QED BY <1>2, <1>3, <1>4

\* While the process lives and can write its file, each of the last Capacity
\* hashes that check_and_insert accepted is rejected if it comes again.
THEOREM RecentAlwaysRejected == CacheSpec => []RecentRejectedWhileUp
<1>1. TypeOK /\ RingInOrder => RecentRejectedWhileUp
  <2> SUFFICES ASSUME TypeOK, RingInOrder, faults = {},
                      NEW i \in 1 .. Len(accepted), i + Capacity > Len(accepted)
               PROVE  Seen(accepted[i])
    BY DEF RecentRejectedWhileUp, RecentRejected
  <2> DEFINE d == Len(accepted) - i
  <2>1. d \in 0 .. Capacity - 1 /\ d < Len(accepted) /\ Len(accepted) - d = i
    BY CapacityPositive DEF TypeOK
  <2>2. Slot(d) \in 1 .. Len(mem) /\ mem[Slot(d)] = accepted[i]
    BY <2>1 DEF RingInOrder
  <2> QED BY <2>2 DEF Seen
<1> QED BY <1>1, TypesInit, TypesNext, RingInOrderInit, RingInOrderNext, PTL DEF CacheSpec

-----------------------------------------------------------------------------
(* What survives in the file.  While nothing but writes fails, the file     *)
(* holds the last Capacity - 1 hashes in the slots before the index, and    *)
(* only the slot at the index is ever written.                              *)

FileInOrder ==
    faults \subseteq {"write"} =>
        \A d \in 0 .. Capacity - 2 :
            d < Len(accepted) => disk[Slot(d)] = accepted[Len(accepted) - d]

\* None of the last Capacity - 1 slots is the one that is written next.
LEMMA SlotNotNext ==
    ASSUME TypeOK, NEW d \in 0 .. Capacity - 2
    PROVE  Slot(d) \in 1 .. Capacity /\ Slot(d) # idx + 1
BY CapacityPositive DEF TypeOK, Slot

\* An insertion, whole or interrupted, touches no slot but the next one.
LEMMA OtherSlotsKept ==
    ASSUME TypeOK, NEW h, NEW file \in Interrupted(h), NEW p \in 1 .. Capacity, p # idx + 1
    PROVE  file[p] = disk[p]
BY DEF Interrupted, Stored, TypeOK

LEMMA FileInOrderInsert ==
    ASSUME TypeOK, FileInOrder, faults \subseteq {"write"}, NEW h \in Hashes, CheckAndInsert(h)
    PROVE  FileInOrder'
<1> DEFINE n == Len(accepted)
<1>1. /\ idx \in 0 .. Capacity - 1 /\ n \in Nat
      /\ idx' = IF idx + 1 = Capacity THEN 0 ELSE idx + 1
  BY NextIndex DEF TypeOK, CheckAndInsert
<1>2. /\ Len(accepted') = n + 1 /\ accepted'[n + 1] = h
      /\ \A i \in 1 .. n : accepted'[i] = accepted[i]
  BY DEF CheckAndInsert, TypeOK
<1>3. disk' \in Interrupted(h) /\ disk'[idx + 1] = h
  BY StoredIsFile DEF CheckAndInsert, Interrupted, Entries
<1>4. ASSUME NEW d \in 0 .. Capacity - 2, d < n + 1
      PROVE  disk'[Slot(d)'] = accepted'[n + 1 - d]
  <2>1. CASE d = 0
    <3>1. Slot(d)' = idx + 1
      BY <1>1, <2>1, CapacityPositive DEF Slot
    <3> QED BY <1>1, <1>2, <1>3, <2>1, <3>1
  <2>2. CASE d # 0
    <3>1. d - 1 \in 0 .. Capacity - 2 /\ d - 1 < n /\ n - (d - 1) \in 1 .. n
      BY <1>1, <1>4, <2>2, CapacityPositive
    <3>2. Slot(d)' = Slot(d - 1)
      BY <1>1, <2>2, CapacityPositive DEF Slot
    <3>3. disk[Slot(d - 1)] = accepted[n - (d - 1)]
      BY <3>1 DEF FileInOrder
    <3>4. disk'[Slot(d - 1)] = disk[Slot(d - 1)]
      BY <1>3, <3>1, SlotNotNext, OtherSlotsKept
    <3>5. accepted'[n + 1 - d] = accepted[n - (d - 1)]
      BY <1>1, <1>2, <3>1
    <3> QED BY <3>2, <3>3, <3>4, <3>5
  <2> QED BY <2>1, <2>2
<1> QED BY <1>2, <1>4 DEF FileInOrder

LEMMA FileInOrderNext == TypeOK /\ FileInOrder /\ [CacheNext]_cacheVars => FileInOrder'
<1> SUFFICES ASSUME TypeOK, FileInOrder, [CacheNext]_cacheVars, faults \subseteq {"write"}
             PROVE  FileInOrder'
  BY DEF CacheNext, cacheVars, FileInOrder
<1>1. ASSUME NEW h \in Hashes, CheckAndInsert(h) PROVE FileInOrder'
  BY <1>1, FileInOrderInsert
<1>2. ASSUME NEW h \in Hashes, InsertFails(h) PROVE FileInOrder'
  <2>1. disk' \in Interrupted(h) /\ idx' = idx /\ accepted' = accepted
    BY <1>2 DEF InsertFails
  <2>2. ASSUME NEW d \in 0 .. Capacity - 2, d < Len(accepted)
        PROVE  disk'[Slot(d)] = accepted[Len(accepted) - d]
    <3>1. disk'[Slot(d)] = disk[Slot(d)]
      BY <2>1, SlotNotNext, OtherSlotsKept
    <3> QED BY <2>2, <3>1 DEF FileInOrder
  <2> QED BY <2>1, <2>2 DEF FileInOrder, Slot
<1>3. CASE UNCHANGED cacheVars
  BY <1>3 DEF cacheVars, FileInOrder, Slot
<1>4. "crash" \notin faults /\ "restart" \notin faults
  OBVIOUS
<1> QED BY <1>1, <1>2, <1>3, <1>4 DEF CacheNext, Crash, Restart

\* Whatever writes fail and wherever the process then dies, the file keeps the
\* last Capacity - 1 hashes that check_and_insert accepted.
THEOREM RecentAlwaysSurvive == CacheSpec => []RecentSurviveCrash
<1>1. CacheInit => FileInOrder
  BY DEF CacheInit, FileInOrder
<1>2. TypeOK /\ FileInOrder => RecentSurviveCrash
  <2> SUFFICES ASSUME TypeOK, FileInOrder, faults \subseteq {"write"},
                      NEW h \in Hashes, NEW file \in Interrupted(h),
                      NEW i \in 1 .. Len(accepted), i + Capacity > Len(accepted) + 1
               PROVE  \E p \in 1 .. Capacity : file[p] = accepted[i]
    BY DEF RecentSurviveCrash
  <2> DEFINE d == Len(accepted) - i
  <2>1. d \in 0 .. Capacity - 2 /\ d < Len(accepted) /\ Len(accepted) - d = i
    BY CapacityPositive DEF TypeOK
  <2>2. disk[Slot(d)] = accepted[i]
    BY <2>1 DEF FileInOrder
  <2>3. Slot(d) \in 1 .. Capacity /\ file[Slot(d)] = disk[Slot(d)]
    BY <2>1, SlotNotNext, OtherSlotsKept
  <2> QED BY <2>2, <2>3
<1> QED BY <1>1, <1>2, TypesInit, TypesNext, FileInOrderNext, PTL DEF CacheSpec

=============================================================================
