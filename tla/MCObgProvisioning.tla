-------------------------- MODULE MCObgProvisioning --------------------------
(* Two schemas on three built-in modes and one unknown mode. *)
EXTENDS ObgProvisioning

CONSTANTS s1, s2

TwoSchemas == {s1, s2}
\* 1 and 3 share a word of the OAM table; the handles of 3 and 4 share a word
\* of the payload table; the gateway does not know 2.
FourOams == {1, 2, 3, 4}
TwoVersions == {1, 2}
Rank(id) == IF id = s1 THEN 1 ELSE 2
\* The second version of every schema grew.
Size(o, v) == (IF o \in LocalOams THEN LocalBytes(o) ELSE 16) * v
OneHost == {[wavelength |-> 40, secret |-> [i \in 0 .. 7 |-> i + 1], topological |-> TRUE]}
=============================================================================
