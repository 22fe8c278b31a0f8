----------------------------- MODULE Polarization ----------------------------
(***************************************************************************)
(* Polarization trajectories and what a fiber does to them                 *)
(* (crates/otap-core/src/dimensions.rs, crates/otap-sim/src/lib.rs, the    *)
(* comparison of crates/otap-crypto/src/lib.rs).  Only the direction of a  *)
(* Stokes vector matters, so integer coordinates stand for it, and a       *)
(* rotation is given up to a positive factor: its angle has the cosine     *)
(* cos / unit and the sine sin / unit, and the matrix is multiplied by     *)
(* unit.  The arithmetic is exact where the code computes in f32.          *)
(***************************************************************************)
EXTENDS Integers, Sequences

-----------------------------------------------------------------------------
(* Rotations of the Poincare sphere: matrices as three rows *)

Dot(u, v) == u[1] * v[1] + u[2] * v[2] + u[3] * v[3]

Column(m, j) == <<m[1][j], m[2][j], m[3][j]>>

IDENTITY == << <<1, 0, 0>>, <<0, 1, 0>>, <<0, 0, 1>> >>

\* Angles given by whole numbers.
IsAngle(angle) ==
    /\ angle \in [cos : Int, sin : Int, unit : Int]
    /\ angle.unit > 0
    /\ angle.cos * angle.cos + angle.sin * angle.sin = angle.unit * angle.unit

about_s1(angle) ==
    << <<angle.unit, 0, 0>>, <<0, angle.cos, -angle.sin>>, <<0, angle.sin, angle.cos>> >>

about_s2(angle) ==
    << <<angle.cos, 0, angle.sin>>, <<0, angle.unit, 0>>, <<-angle.sin, 0, angle.cos>> >>

about_s3(angle) ==
    << <<angle.cos, -angle.sin, 0>>, <<angle.sin, angle.cos, 0>>, <<0, 0, angle.unit>> >>

\* self then other: the matrix of other times the matrix of self.
then(self, other) ==
    [i \in 1 .. 3 |-> [j \in 1 .. 3 |-> Dot(other[i], Column(self, j))]]

random_pmd(x, y, z) == then(then(about_s1(x), about_s2(y)), about_s3(z))

apply(m, v) == <<Dot(m[1], v), Dot(m[2], v), Dot(m[3], v)>>

Determinant(m) ==
    Dot(m[1], <<m[2][2] * m[3][3] - m[2][3] * m[3][2],
                m[2][3] * m[3][1] - m[2][1] * m[3][3],
                m[2][1] * m[3][2] - m[2][2] * m[3][1]>>)

\* A matrix turns the sphere, up to a positive factor: its rows are orthogonal,
\* of one length and right-handed.
IsRotation(m) ==
    /\ \A i, j \in 1 .. 3 : m[i][j] \in Int
    /\ Dot(m[1], m[2]) = 0 /\ Dot(m[1], m[3]) = 0 /\ Dot(m[2], m[3]) = 0
    /\ Dot(m[1], m[1]) = Dot(m[3], m[3]) /\ Dot(m[2], m[2]) = Dot(m[3], m[3])
    /\ Determinant(m) > 0

\* The s3 axis keeps its direction.
FixesS3(m) == m[1][3] = 0 /\ m[2][3] = 0 /\ m[3][3] > 0

-----------------------------------------------------------------------------
(* Trajectories: sequences of Stokes vectors, read as closed loops *)

MutantProjectionAlongS2(v) == IF v[1] = 0 /\ v[3] = 0 THEN <<1, 0>> ELSE <<v[1], v[3]>>

\* Off the s3 axis the projection on the s1-s2 plane has a direction.
OffAxis(v) == v[1] # 0 \/ v[2] # 0

\* atan2 looks at that projection, and takes the centre for the direction of s1.
Projection(v) == IF OffAxis(v) THEN <<v[1], v[2]>> ELSE <<1, 0>>

\* The angle of p is in (0, pi], in (-pi, 0).
Positive(p) == p[2] > 0 \/ (p[2] = 0 /\ p[1] < 0)

Negative(p) == p[2] < 0

Cross(p, q) == p[1] * q[2] - p[2] * q[1]

\* The turns that wrapping adds to the increment from p to q: one when it is at
\* most -pi, minus one when it exceeds pi.
WrapTurns(p, q) ==
    CASE Positive(p) /\ ~Positive(q) /\ Cross(p, q) >= 0 -> 1
      [] Negative(p) /\ Positive(q) /\ Cross(p, q) < 0 -> -1
      [] OTHER -> 0

\* Around the loop the unwrapped increments cancel, so the total angle is the
\* turns that wrapping added.
winding_number_s3(t) ==
    LET total[n \in 0 .. Len(t)] ==
            IF n = 0 THEN 0
            ELSE total[n - 1] + WrapTurns(Projection(t[n]), Projection(t[1 + (n % Len(t))]))
    IN  total[Len(t)]

\* angular_distance is 0: the cosine of the angle between u and v is 1.
SameDirection(u, v) ==
    Dot(u, v) >= 0 /\ Dot(u, v) * Dot(u, v) = Dot(u, u) * Dot(v, v)

\* Two of the directions used here are equal or more than any tolerance apart,
\* so that a sample is within the tolerance when it is the same.
TrajectoryMatch(expected, observed) ==
    \A i \in DOMAIN expected : SameDirection(expected[i], observed[i])

Topological(expected, observed) ==
    winding_number_s3(expected) = winding_number_s3(observed)

\* Channel::transmit rotates every sample.
Rotated(m, t) == [i \in DOMAIN t |-> apply(m, t[i])]

=============================================================================
