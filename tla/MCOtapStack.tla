----------------------------- MODULE MCOtapStack -----------------------------
(* Two secrets, two wavelengths, both modes; fibers that are clean, turned by
   various angles, noisy, or both. *)
EXTENDS OtapStack

Key(k) == [i \in 0 .. SECRET_WORDS - 1 |-> 10 * k + i]

Setting(w, k, t) == [wavelength |-> w, secret |-> Key(k), topological |-> t]

\* The receiver agrees with the sender, or differs in one setting.
HostSettings ==
    [tx |-> {Setting(40, 1, FALSE)},
     rx |-> {Setting(40, 1, FALSE), Setting(40, 1, TRUE), Setting(40, 2, FALSE),
             Setting(41, 1, FALSE)}]

Request(id, len, bytes) == [schema_id |-> id, payload_len |-> len, bytes |-> bytes]

\* A well formed order, and a heartbeat whose buffer has another size.
TwoRequests == {Request("EquityTradeOrder", 256, 256), Request("Heartbeat", 32, 64)}

\* Byte 4 is an order's side.
Fiber(rotation, noise) == [pmd_rotation |-> rotation, noise |-> noise]

\* A quarter turn, and turns by the angles of the 3-4-5 triangle.
Quarter == [cos |-> 0, sin |-> 1, unit |-> 1]
Sharp == [cos |-> 4, sin |-> 3, unit |-> 5]
Blunt == [cos |-> -3, sin |-> -4, unit |-> 5]

FiveFibers ==
    {Fiber(IDENTITY, {}), Fiber(IDENTITY, {4}), Fiber(about_s3(Blunt), {}),
     Fiber(about_s3(Sharp), {4}), Fiber(random_pmd(Sharp, Quarter, Blunt), {})}

\* What the constructors and then make of these angles are rotations.
ASSUME RotationsRotate ==
    LET angles == {Quarter, Sharp, Blunt}
    IN  \A x, y, z \in angles : IsAngle(x) /\ IsRotation(random_pmd(x, y, z))

\* Points of the sphere no two of which are opposite seen along an axis.
Points == << <<-3, -2, -1>>, <<-2, 1, 3>>, <<-2, -3, 1>>, <<3, -1, -2>>, <<1, -2, -3>> >>

\* One sample tells the sequence numbers apart, one the secrets, one whether the
\* payload changed and one the wavelength and the mode.
Derive(secret, context) ==
    << Points[1 + context.sequence], Points[3 + ((secret[0] \div 10) % 3)],
       Points[IF context.payload.flipped = {} THEN 1 ELSE 2],
       Points[1 + ((context.wavelength + context.oam) % 5)] >>

\* The layouts of which no payload arrives here: whichever byte of an encoded
\* value changes, what decodes differs from it in the field of that byte only.
ASSUME LayoutsInvert ==
    \A id \in {"MarketTick", "Heartbeat"} : \A b \in 0 .. payload_bytes(id) - 1 :
        \A v \in decode_as(id, [encode(id, [f \in Fields(id) |-> 1]) EXCEPT !.flipped = {b}]) :
            v # << >> => \A slice \in Range(EncodeLayout(id)) :
                v[1].fields[slice[1]] = (IF b \in slice[2] .. slice[3] THEN Garbled ELSE 1)
=============================================================================
