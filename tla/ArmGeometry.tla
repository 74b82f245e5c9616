----------------------------- MODULE ArmGeometry -----------------------------
(***************************************************************************)
(* Arm_Configuration::set_target: from a point to the angles of the joints. *)
(*                                                                         *)
(* The shoulder, the elbow and the hand make a triangle with the sides      *)
(* Upper, Fore and the distance to the hand.  The code solves it from its   *)
(* longest side, with the sides in a different order in each case, and     *)
(* keeps the angles for the transformations of the camera's frame.         *)
(*                                                                         *)
(* Lengths are integers in some small unit.  An angle between 0 and PI is  *)
(* its cosine, a fraction; an acos outside [-1, 1] is NaN.  Rounding is     *)
(* left out: that of the floating point, and that of an angle to a step of *)
(* a motor, so a pose is the angles whose steps the motors are sent to.     *)
(***************************************************************************)
EXTENDS Integers

CONSTANTS
  Upper,      \* ARM_1_length + CANISTER_RADIUS
  Fore,       \* ARM_2_length
  MinRadius,  \* MIN_RADIUS
  Epsilon,    \* _epsilon
  Points,     \* the points that are asked for
  Radius      \* Radius[p]: the distance of p from the shoulder

ASSUME LengthsAssumption ==
  /\ Upper \in Nat \ {0} /\ Fore \in Nat \ {0}
  /\ MinRadius \in Nat \ {0} /\ Epsilon \in Nat \ {0}
\* Points with whole coordinates at a whole distance.  Left out: walk_a_line takes
\* sqrt(R*R - y*y) also of a line that begins outside the circle of radius R, and
\* the NaN goes to set_target.
ASSUME PointsAssumption ==
  /\ Points \subseteq Int \X Int
  /\ Radius \in [Points -> Nat]
  /\ \A p \in Points : Radius[p] * Radius[p] = p[1] * p[1] + p[2] * p[2]

\* What the values of parameters.ini satisfy, and set_target relies on: "ARM_2
\* is always shorter than first part", and the arm can fold to MIN_RADIUS.
ASSUME ArmAssumption ==
  /\ Fore <= Upper
  /\ Upper <= Fore + MinRadius
  /\ MinRadius <= Upper + Fore - Epsilon

VARIABLES
  target,       \* _target_x, _target_y
  theta,        \* _theta: its cosine, and whether it is beyond PI
  base_radius,  \* _base_radius
  alpha, beta,  \* _alpha, _beta
  pose          \* what _canister_current_steps, _elbow_current_steps stand for

vars == <<target, theta, base_radius, alpha, beta, pose>>

-----------------------------------------------------------------------------
Angle(n, d) == [num |-> n, den |-> d]

Straight == Angle(1, 1)     \* an angle of 0.0
NaN == Angle(0, 0)

Acos(n, d) == IF d > 0 /\ -d <= n /\ n <= d THEN Angle(n, d) ELSE NaN

\* PI - u - v, for two angles at the same side of a triangle: their sines are
\* in the inverse ratio of their denominators.
ThirdAngle(u, v) ==
  IF u = NaN \/ v = NaN
  THEN NaN
  ELSE Angle(u.den * u.den - u.num * u.num - u.num * v.num, u.den * v.den)

\* The triangle with the sides A, B and base: its base is cut at x, where
\* 2 * base * x = A * A - B * B + base * base.
sides_to_angles(A, B, base) ==
  LET twice == A * A - B * B + base * base
      AC == Acos(twice, 2 * base * A)
      BC == Acos(2 * base * base - twice, 2 * base * B)
  IN [AC |-> AC, BC |-> BC, AB |-> ThirdAngle(AC, BC)]

to_circular(p) ==
  IF Radius[p] = 0
  THEN [cos |-> Straight, lower |-> FALSE]
  ELSE [cos |-> Acos(p[1], Radius[p]), lower |-> p[2] < 0]

\* Mutant of Clamped: points near the shoulder are tried as they are.
ClampedNot(r) == r

Clamped(r) == IF MinRadius > r THEN MinRadius ELSE r

\* Mutant of OutOfRange: the tolerance is added.
OutOfRangeLate(r) == Upper + Fore + Epsilon < r

OutOfRange(r) == Upper + Fore - Epsilon < r

Obtuse(r) ==
  LET t == sides_to_angles(Upper, Fore, r)
  IN [alpha |-> t.AC, beta |-> t.AB]

\* Mutant of Acute: the two angles at the longest side are mixed up.
AcuteSwapped(r) ==
  LET t == sides_to_angles(Fore, r, Upper)
  IN [alpha |-> t.AC, beta |-> t.BC]

Acute(r) ==
  LET t == sides_to_angles(Fore, r, Upper)
  IN [alpha |-> t.BC, beta |-> t.AC]

Joints(r) ==
  IF r >= Upper THEN Obtuse(r)
  ELSE IF r > Fore THEN Acute(r)
  ELSE IF Fore + r <= Upper THEN [alpha |-> Straight, beta |-> Straight]
  ELSE Acute(r)

\* The steps of the motors: -(_alpha + _theta) and -_beta, or 0 and 0.
Zero == [zero |-> TRUE]
PoseOf(a, th, b) == [zero |-> FALSE, base |-> <<a, th>>, elbow |-> b]

\* The origin of the polar coordinates is at the shoulder, and theta = 0 is
\* where the arm starts: set_mininum_radius has the arm at MIN_RADIUS.
Init ==
  /\ target = <<MinRadius, 0>>
  /\ theta = [cos |-> Acos(MinRadius, MinRadius), lower |-> FALSE]
  /\ base_radius = MinRadius
  /\ alpha = Joints(MinRadius).alpha
  /\ beta = Joints(MinRadius).beta
  /\ pose = PoseOf(alpha, theta, beta)

set_target(p) ==
  /\ target' = p
  /\ theta' = to_circular(p)
  /\ base_radius' = Clamped(Radius[p])
  /\ IF OutOfRange(base_radius')
     THEN pose' = Zero /\ UNCHANGED <<alpha, beta>>
     ELSE /\ alpha' = Joints(base_radius').alpha
          /\ beta' = Joints(base_radius').beta
          /\ pose' = PoseOf(alpha', theta', beta')

-----------------------------------------------------------------------------
(* rotation_to_cartesian: from the rotations of the joints to a point.  The  *)
(* sines of the triangle's angles are multiples of one square root, that of  *)
(* Heron's K, so each coordinate is a number a + b * sqrt(K).                *)

Surd(a, b) == [int |-> a, root |-> b]
Scaled(n, u) == Surd(n * u.int, n * u.root)
Plus(u, v) == Surd(u.int + v.int, u.root + v.root)
Times(u, v, K) ==
  Surd(u.int * v.int + u.root * v.root * K, u.int * v.root + u.root * v.int)

\* A rotation is the cosine and the sine of its angle, over a denominator.
Rotation(c, s, d) == [cos |-> c, sin |-> s, den |-> d]
Back(u) == [u EXCEPT !.sin = Scaled(-1, @)]
Sum(u, v, K) ==
  Rotation(Plus(Times(u.cos, v.cos, K), Scaled(-1, Times(u.sin, v.sin, K))),
           Plus(Times(u.sin, v.cos, K), Times(u.cos, v.sin, K)),
           u.den * v.den)

\* Mutant of rotation_to_cartesian: the angle of the fore arm is not subtracted
\* from PI.
rotation_to_cartesian_open(u, v, K) ==
  LET gama == Sum(u, v, K)
  IN [x |-> Plus(Scaled(Upper * v.den, u.cos), Scaled(Fore, gama.cos)),
      y |-> Plus(Scaled(Upper * v.den, u.sin), Scaled(Fore, gama.sin)),
      den |-> gama.den]

\* gama is PI less both rotations.
rotation_to_cartesian(u, v, K) ==
  LET both == Sum(u, v, K)
  IN [x |-> Plus(Scaled(Upper * v.den, u.cos), Scaled(-Fore, both.cos)),
      y |-> Plus(Scaled(Upper * v.den, u.sin), Scaled(Fore, both.sin)),
      den |-> both.den]

\* The rotations that the motors are at: those of the pose, the elbow's over the
\* denominator 2 * Upper * Fore, whose sine is sqrt(K) too.
Heron == pose.base[1].den * pose.base[1].den - pose.base[1].num * pose.base[1].num
BaseRotation ==
  LET a == Rotation(Surd(pose.base[1].num, 0), Surd(0, 1), pose.base[1].den)
      th == Rotation(Surd(theta.cos.num, 0),
                     Surd(IF Radius[target] = 0 THEN 0 ELSE target[2], 0),
                     theta.cos.den)
  IN Sum(a, th, Heron)
ElbowRotation ==
  LET d == 2 * Upper * Fore
  IN Rotation(Surd((pose.elbow.num * d) \div pose.elbow.den, 0), Surd(0, 1), d)

Next == \E p \in Points : set_target(p)

Spec == Init /\ [][Next]_vars

-----------------------------------------------------------------------------
(* Properties *)

Angles == [num : Int, den : Nat \ {0}]

TypeOK ==
  /\ target \in Int \X Int
  /\ theta \in [cos : Angles, lower : BOOLEAN]
  /\ base_radius \in Nat
  /\ alpha \in Angles /\ beta \in Angles
  /\ pose = Zero \/ pose = PoseOf(pose.base[1], pose.base[2], pose.elbow)

\* a is the angle between the sides s and t of the triangle whose third side
\* is u: the law of cosines.
Between(a, s, t, u) == (s * s + t * t - u * u) * a.den = 2 * s * t * a.num

\* The angles that the motors are sent to close the triangle: the hand is at
\* the distance base_radius, in the direction of theta.  Three cases with the
\* sides in three orders, one shoulder and one elbow.
HandOnTarget ==
  ~pose.zero =>
    /\ pose.base[1] # NaN /\ pose.elbow # NaN
    /\ Between(pose.base[1], Upper, base_radius, Fore)
    /\ Between(pose.elbow, Upper, Fore, base_radius)
    /\ pose.base[2] = theta

\* theta and base_radius are the polar coordinates of a target in reach; one
\* that is too near is replaced by the point of MIN_RADIUS in its direction,
\* and one that is too far sends the arm to zero.
TargetKept ==
  LET r2 == target[1] * target[1] + target[2] * target[2]
      min2 == MinRadius * MinRadius
      max == Upper + Fore - Epsilon
  IN /\ pose.zero <=> r2 > max * max
     /\ ~pose.zero =>
          /\ r2 >= min2 => base_radius * base_radius = r2
          /\ r2 < min2 => base_radius = MinRadius
          /\ r2 > 0 => LET c == theta.cos
                       IN /\ c.num * c.num * r2 =
                               target[1] * target[1] * c.den * c.den
                          /\ (c.num < 0) = (target[1] < 0)
                          /\ theta.lower = (target[2] < 0)

\* What the scans compute from the rotations of a pose: S passes them with the
\* sign that the drives use, SPR with the opposite one.  The x is that of the
\* hand.  The y is not: of the two parts of the arm one is taken to the other
\* side, so it is right only where that part is level. 
RotationsReadX ==
  ~pose.zero =>
    LET base == BaseRotation
        elbow == ElbowRotation
        spr == rotation_to_cartesian(base, elbow, Heron)
        s == rotation_to_cartesian(Back(base), Back(elbow), Heron)
        unit == spr.den \div theta.cos.den
        sine == IF Radius[target] = 0 THEN 0 ELSE target[2]
        Is(u, n) == u.int = n /\ (u.root = 0 \/ Heron = 0)
        level == Sum(base, elbow, Heron).sin
    IN /\ \A back \in {spr, s} : Is(back.x, base_radius * theta.cos.num * unit)
       /\ Is(spr.y, base_radius * sine * unit) <=> Is(level, 0)
       /\ Is(s.y, base_radius * sine * unit) <=> Is(base.sin, 0)
=============================================================================
