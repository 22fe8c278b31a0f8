----------------------------- MODULE D3Handshake -----------------------------
(***************************************************************************)
(* The D3 three-way handshake and the sessions it opens                    *)
(* (crates/luxstream-otap-d3/src/handshake.rs, session.rs, transport.rs).   *)
(* Many runs go on at once over a transport that may lose, repeat, delay   *)
(* and misroute messages but not alter them.  The fresh random nonce of a  *)
(* run is the run itself; a signature is the tuple of what was signed and  *)
(* by which key; the epoch is the pair of nonces it is derived from.       *)
(***************************************************************************)
EXTENDS Naturals

CONSTANTS Keys,                \* public keys
          IRuns, RRuns,        \* initiator and responder runs
          IKey, IPeer,         \* an initiator run's own key and configured peer_pk
          RKey,                \* a responder run's own key
          Acl,                 \* keys the responders' ACL admits
          Domains              \* RpcDomain

ASSUME RunKeys ==
    /\ IKey \in [IRuns -> Keys] /\ IPeer \in [IRuns -> Keys] /\ RKey \in [RRuns -> Keys]
    /\ Acl \subseteq Keys
ASSUME RunsDisjoint == IRuns \intersect RRuns = {}
ASSUME NoSelfDial == \A i \in IRuns : IKey[i] # IPeer[i]

VARIABLES net,                 \* messages and frames sent so far
          ist, iNonceR,        \* initiator runs: state, responder nonce accepted
          rst, rNonceI, rPeer, \* responder runs: state, Msg1's nonce and key
          opened               \* <<session, frame>> pairs that open returned Ok for

d3Vars == <<net, ist, iNonceR, rst, rNonceI, rPeer, opened>>
iVars == <<ist, iNonceR>>
rVars == <<rst, rNonceI, rPeer>>

None == "none"
ASSUME NoneIsNoRun == None \notin IRuns \union RRuns \union Keys

Sig(key, tag, n1, n2) == [key |-> key, tag |-> tag, n1 |-> n1, n2 |-> n2]
verify_raw(key, tag, n1, n2, sig) == sig = Sig(key, tag, n1, n2)
Msg1(pk, ni) == [type |-> "msg1", pk |-> pk, ni |-> ni]
Msg2(pk, nr, sig) == [type |-> "msg2", pk |-> pk, nr |-> nr, sig |-> sig]
Msg3(pk, sig) == [type |-> "msg3", pk |-> pk, sig |-> sig]

-----------------------------------------------------------------------------
(* The initiator *)

Start(i) ==
    /\ ist[i] = "new"
    /\ ist' = [ist EXCEPT ![i] = "wait"]
    /\ net' = net \union {Msg1(IKey[i], i)}
    /\ UNCHANGED <<iNonceR, rVars, opened>>

MutantVerifyAnySigner(i, m) ==
    m.sig.tag = "HELLO-R" /\ m.sig.n1 = i /\ m.sig.n2 = m.nr

\* finish checks the signature with the configured peer key; the key carried by
\* the message is not looked at.
VerifyMsg2(i, m) == verify_raw(IPeer[i], "HELLO-R", i, m.nr, m.sig)

Finish(i, m) ==
    /\ ist[i] = "wait" /\ m.type = "msg2"
    /\ IF VerifyMsg2(i, m)
       THEN /\ ist' = [ist EXCEPT ![i] = "done"]
            /\ iNonceR' = [iNonceR EXCEPT ![i] = m.nr]
            /\ net' = net \union {Msg3(IKey[i], Sig(IKey[i], "HELLO-I", m.nr, i))}
       ELSE /\ ist' = [ist EXCEPT ![i] = "failed"]
            /\ UNCHANGED <<iNonceR, net>>
    /\ UNCHANGED <<rVars, opened>>

-----------------------------------------------------------------------------
(* The responder *)

HandleMsg1(r, m) ==
    /\ rst[r] = "new" /\ m.type = "msg1"
    /\ IF m.pk \in Acl
       THEN /\ rst' = [rst EXCEPT ![r] = "wait"]
            /\ rNonceI' = [rNonceI EXCEPT ![r] = m.ni]
            /\ rPeer' = [rPeer EXCEPT ![r] = m.pk]
            /\ net' = net \union {Msg2(RKey[r], r, Sig(RKey[r], "HELLO-R", m.ni, r))}
       ELSE /\ rst' = [rst EXCEPT ![r] = "failed"]
            /\ UNCHANGED <<rNonceI, rPeer, net>>
    /\ UNCHANGED <<iVars, opened>>

MutantMsg3IgnoresNonceR(r, m) ==
    m.sig.key = rPeer[r] /\ m.sig.tag = "HELLO-I" /\ m.sig.n2 = rNonceI[r]

VerifyMsg3(r, m) == verify_raw(rPeer[r], "HELLO-I", r, rNonceI[r], m.sig)

HandleMsg3(r, m) ==
    /\ rst[r] = "wait" /\ m.type = "msg3"
    /\ rst' = [rst EXCEPT ![r] = IF VerifyMsg3(r, m) THEN "done" ELSE "failed"]
    /\ UNCHANGED <<net, iVars, rNonceI, rPeer, opened>>

\* The transport reports an error or a short read.
Abort ==
    \/ /\ \E i \in IRuns : ist[i] = "wait" /\ ist' = [ist EXCEPT ![i] = "failed"]
       /\ UNCHANGED <<net, iNonceR, rVars, opened>>
    \/ /\ \E r \in RRuns : rst[r] \in {"new", "wait"} /\ rst' = [rst EXCEPT ![r] = "failed"]
       /\ UNCHANGED <<net, iVars, rNonceI, rPeer, opened>>

-----------------------------------------------------------------------------
(* Sessions *)

Session(s) == (s \in IRuns /\ ist[s] = "done") \/ (s \in RRuns /\ rst[s] = "done")
OwnKey(s) == IF s \in IRuns THEN IKey[s] ELSE RKey[s]
PeerKey(s) == IF s \in IRuns THEN IPeer[s] ELSE rPeer[s]

MutantEpochResponderOnly(s) == IF s \in IRuns THEN <<s, s>> ELSE <<rNonceI[s], s>>

Epoch(s) == IF s \in IRuns THEN <<s, iNonceR[s]>> ELSE <<rNonceI[s], s>>

\* The signature covers domain, epoch, symbols and checksum; by is who sealed.
Seal(s, d) ==
    /\ Session(s)
    /\ net' = net \union {[type |-> "frame", key |-> OwnKey(s), domain |-> d,
                           epoch |-> Epoch(s), by |-> s]}
    /\ UNCHANGED <<iVars, rVars, opened>>

MutantVerifyFrameAnyEpoch(s, d, f) == f.key = PeerKey(s) /\ f.domain = d

VerifyFrame(s, d, f) == f.key = PeerKey(s) /\ f.domain = d /\ f.epoch = Epoch(s)

OpenFrame(s, d, f) ==
    /\ Session(s) /\ f.type = "frame"
    /\ VerifyFrame(s, d, f)
    /\ opened' = opened \union {<<s, d, f>>}
    /\ UNCHANGED <<net, iVars, rVars>>

-----------------------------------------------------------------------------
Init ==
    /\ net = {}
    /\ ist = [i \in IRuns |-> "new"] /\ iNonceR = [i \in IRuns |-> None]
    /\ rst = [r \in RRuns |-> "new"] /\ rNonceI = [r \in RRuns |-> None]
    /\ rPeer = [r \in RRuns |-> None]
    /\ opened = {}

Next ==
    \/ \E i \in IRuns : Start(i) \/ \E m \in net : Finish(i, m)
    \/ \E r \in RRuns, m \in net : HandleMsg1(r, m) \/ HandleMsg3(r, m)
    \/ Abort
    \/ \E s \in IRuns \union RRuns, d \in Domains :
           Seal(s, d) \/ \E f \in net : OpenFrame(s, d, f)

Spec == Init /\ [][Next]_d3Vars

-----------------------------------------------------------------------------
(* Properties *)

\* What a responder believes when handle_msg3 returns Ok is so: the client of
\* its Msg1 has finished, with this responder's key as its peer and with this
\* run's nonces, and the ACL admits that client.
ResponderAgreement ==
    \A r \in RRuns : rst[r] = "done" =>
        \E i \in IRuns : /\ rNonceI[r] = i /\ rPeer[r] = IKey[i] /\ IKey[i] \in Acl
                         /\ ist[i] = "done" /\ iNonceR[i] = r /\ IPeer[i] = RKey[r]

\* What an initiator believes when finish returns Ok is so: a run of its
\* configured peer answered its own nonce and knows its key.
InitiatorAgreement ==
    \A i \in IRuns : ist[i] = "done" =>
        \E r \in RRuns : /\ iNonceR[i] = r /\ RKey[r] = IPeer[i]
                         /\ rNonceI[r] = i /\ rPeer[r] = IKey[i] /\ rst[r] # "new"

\* Both ends of a session derive the same epoch, and no third run shares it.
EpochAgreement ==
    \A s, t \in IRuns \union RRuns :
        Session(s) /\ Session(t) /\ s # t =>
            (Epoch(s) = Epoch(t) <=>
                \/ s \in IRuns /\ t \in RRuns /\ iNonceR[s] = t
                \/ t \in IRuns /\ s \in RRuns /\ iNonceR[t] = s)

\* A frame that open accepts was sealed for that domain by the run at the
\* other end of this very session, not by another session of the same keys.
OpenedIsFromPeer ==
    \A e \in opened :
        /\ e[3].domain = e[2]
        /\ e[3].by = IF e[1] \in IRuns THEN iNonceR[e[1]] ELSE rNonceI[e[1]]

=============================================================================
