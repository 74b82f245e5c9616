-------------------------- MODULE ArmGeometry_proofs --------------------------
(***************************************************************************)
(* For arms of any lengths that satisfy ArmAssumption, and any points: no  *)
(* acos of set_target is undefined, the angles close the triangle, a       *)
(* command keeps its target, and the scans read the hand's x back.         *)
(***************************************************************************)
EXTENDS ArmGeometry, TLAPS

\* Squares of natural numbers are in the order of the numbers.
LEMMA SquareOrder ==
  ASSUME NEW a \in Int, NEW b \in Nat, -b <= a, a <= b
  PROVE  a * a <= b * b
<1>1. CASE a >= 0
  <2>1. a * a <= a * b
    BY <1>1, SMT
  <2>2. a * b <= b * b
    BY SMT
  <2>. QED BY <2>1, <2>2, SMT
<1>2. CASE a < 0
  <2>. DEFINE n == -a
  <2>1. n \in Nat /\ n <= b
    BY <1>2
  <2>2. n * n <= n * b
    BY <2>1, SMT
  <2>3. n * b <= b * b
    BY <2>1, SMT
  <2>4. n * n = a * a
    BY SMT
  <2>. HIDE DEF n
  <2>. QED BY <2>1, <2>2, <2>3, <2>4, SMT
<1>. QED BY <1>1, <1>2

\* ... and the other way round.
LEMMA RootOrder ==
  ASSUME NEW a \in Int, NEW b \in Nat, a * a <= b * b
  PROVE  -b <= a /\ a <= b
<1>1. ASSUME NEW n \in Nat, n * n <= b * b PROVE n <= b
  <2>1. SUFFICES ASSUME n > b PROVE FALSE
    BY <1>1
  <2>2. n * n >= n * b
    BY <2>1, SMT
  <2>3. n * b >= b * b
    BY <2>1, SMT
  <2>4. n * n - n * b >= n
    <3>1. n * (n - b) >= n
      BY <2>1, SMT
    <3>2. n * (n - b) = n * n - n * b
      BY SMT
    <3>. QED BY <3>1, <3>2
  <2>. QED BY <1>1, <2>1, <2>3, <2>4, SMT
<1>2. CASE a >= 0
  BY <1>1, <1>2
<1>3. CASE a < 0
  <2>1. -a \in Nat /\ (-a) * (-a) = a * a
    BY <1>3, SMT
  <2>. QED BY <1>1, <2>1
<1>. QED BY <1>2, <1>3

\* The triangle inequality keeps x / A between -1 and 1, so that acos(x / A)
\* is defined.
LEMMA CosineInRange ==
  ASSUME NEW A \in Nat \ {0}, NEW B \in Nat \ {0}, NEW C \in Nat \ {0},
         C <= A + B, A <= B + C, B <= A + C
  PROVE  LET n == A * A - B * B + C * C
             d == 2 * C * A
         IN n \in Int /\ d \in Nat \ {0} /\ -d <= n /\ n <= d
<1>1. (A - C) * (A - C) <= B * B
  BY SquareOrder, A - C \in Int, B \in Nat, -B <= A - C, A - C <= B
<1>2. B * B <= (A + C) * (A + C)
  BY SquareOrder, A + C \in Nat, B \in Int, -(A + C) <= B, B <= A + C
<1>3. (A - C) * (A - C) = A * A + C * C - 2 * C * A
  OBVIOUS
<1>4. (A + C) * (A + C) = A * A + C * C + 2 * C * A
  OBVIOUS
<1>5. 2 * C * A \in Nat \ {0}
  BY SMT
<1>. QED BY <1>1, <1>2, <1>3, <1>4, <1>5, SMT

\* What sides_to_angles gives for the sides of a triangle: the angles at the
\* base by the law of cosines, and the third as well although it is PI minus
\* the two.
LEMMA SidesToAngles ==
  ASSUME NEW A \in Nat \ {0}, NEW B \in Nat \ {0}, NEW C \in Nat \ {0},
         C <= A + B, A <= B + C, B <= A + C
  PROVE  LET t == sides_to_angles(A, B, C)
         IN /\ t.AC \in Angles /\ t.BC \in Angles /\ t.AB \in Angles
            /\ Between(t.AC, A, C, B)
            /\ Between(t.BC, B, C, A)
            /\ Between(t.AB, A, B, C)
<1>. DEFINE n == A * A - B * B + C * C
            d == 2 * C * A
            m == 2 * C * C - n
            e == 2 * C * B
<1>1. n \in Int /\ d \in Nat \ {0} /\ -d <= n /\ n <= d
  BY CosineInRange
<1>2. m = B * B - A * A + C * C
  OBVIOUS
<1>3. m \in Int /\ e \in Nat \ {0} /\ -e <= m /\ m <= e
  <2>1. LET k == B * B - A * A + C * C
        IN k \in Int /\ e \in Nat \ {0} /\ -e <= k /\ k <= e
    BY CosineInRange
  <2>. QED BY <2>1, <1>2
<1>. DEFINE N == d * d - n * n - n * m
            D == d * e
<1>4. sides_to_angles(A, B, C) =
        [AC |-> Angle(n, d), BC |-> Angle(m, e), AB |-> Angle(N, D)]
  <2>1. Acos(n, d) = Angle(n, d) /\ Acos(m, e) = Angle(m, e)
    BY <1>1, <1>3 DEF Acos
  <2>2. Angle(n, d) # NaN /\ Angle(m, e) # NaN
    BY <1>1, <1>3 DEF Angle, NaN
  <2>3. ThirdAngle(Angle(n, d), Angle(m, e)) = Angle(N, D)
    BY <2>2 DEF ThirdAngle, Angle
  <2>. QED BY <2>1, <2>3 DEF sides_to_angles
<1>5. D \in Nat \ {0} /\ N \in Int
  BY <1>1, <1>3, SMT
<1>6. N = 2 * C * C * (A * A + B * B - C * C)
  OBVIOUS
<1>7. (A * A + B * B - C * C) * D = 2 * A * B * N
  <2>. DEFINE s == A * A + B * B - C * C
  <2>1. D = 2 * (C * C) * (2 * (A * B))
    OBVIOUS
  <2>2. N = 2 * (C * C) * s
    BY <1>6
  <2>. QED BY <2>1, <2>2
<1>8. (A * A + C * C - B * B) * d = 2 * A * C * n
  OBVIOUS
<1>9. (B * B + C * C - A * A) * e = 2 * B * C * m
  OBVIOUS
<1>. HIDE DEF n, d, m, e, N, D
<1>. QED
  BY <1>1, <1>3, <1>4, <1>5, <1>7, <1>8, <1>9 DEF Angles, Between, Angle

-----------------------------------------------------------------------------
(* set_target *)

\* The three cases agree: whatever side is the longest, alpha is the angle at
\* the shoulder and beta the one at the elbow.
LEMMA JointsClose ==
  ASSUME NEW r \in Nat, r >= MinRadius, ~OutOfRange(r)
  PROVE  /\ Joints(r).alpha \in Angles /\ Joints(r).beta \in Angles
         /\ Between(Joints(r).alpha, Upper, r, Fore)
         /\ Between(Joints(r).beta, Upper, Fore, r)
<1>. USE LengthsAssumption, ArmAssumption
<1>1. /\ r \in Nat \ {0} /\ r <= Upper + Fore
      /\ Upper <= Fore + r /\ Fore <= Upper + r
  BY DEF OutOfRange
<1>2. CASE r >= Upper
  <2>. DEFINE t == sides_to_angles(Upper, Fore, r)
  <2>1. /\ t.AC \in Angles /\ t.AB \in Angles
        /\ Between(t.AC, Upper, r, Fore) /\ Between(t.AB, Upper, Fore, r)
    BY <1>1, SidesToAngles
  <2>2. Joints(r).alpha = t.AC /\ Joints(r).beta = t.AB
    BY <1>2 DEF Joints, Obtuse
  <2>. HIDE DEF t
  <2>. QED BY <2>1, <2>2
<1>3. ASSUME Joints(r) = Acute(r)
      PROVE  /\ Joints(r).alpha \in Angles /\ Joints(r).beta \in Angles
             /\ Between(Joints(r).alpha, Upper, r, Fore)
             /\ Between(Joints(r).beta, Upper, Fore, r)
  <2>. DEFINE t == sides_to_angles(Fore, r, Upper)
  <2>1. /\ t.AC \in Angles /\ t.BC \in Angles
        /\ Between(t.AC, Fore, Upper, r) /\ Between(t.BC, r, Upper, Fore)
    BY <1>1, SidesToAngles
  <2>2. Joints(r).alpha = t.BC /\ Joints(r).beta = t.AC
    BY <1>3 DEF Acute
  <2>3. t.AC.num \in Int /\ t.AC.den \in Int /\ t.BC.num \in Int /\ t.BC.den \in Int
    BY <2>1 DEF Angles
  <2>. HIDE DEF t
  <2>4. Between(t.BC, Upper, r, Fore)
    BY <2>1, <2>3, <1>1 DEF Between
  <2>5. Between(t.AC, Upper, Fore, r)
    BY <2>1, <2>3, <1>1 DEF Between
  <2>. QED BY <2>1, <2>2, <2>4, <2>5
<1>4. CASE r < Upper /\ r > Fore
  <2>1. Joints(r) = Acute(r)
    BY <1>4 DEF Joints
  <2>. QED BY <2>1, <1>3
<1>5. CASE r < Upper /\ r <= Fore /\ Fore + r <= Upper
  <2>1. Upper = Fore + r
    BY <1>1, <1>5
  <2>2. Joints(r) = [alpha |-> Straight, beta |-> Straight]
    BY <1>5 DEF Joints
  <2>3. Straight \in Angles /\ Straight.num = 1 /\ Straight.den = 1
    BY DEF Straight, Angle, Angles
  <2>4. Upper * Upper + r * r - Fore * Fore = 2 * Upper * r
    <3>1. Upper * Upper = Fore * Fore + 2 * Fore * r + r * r
      BY <2>1
    <3>2. 2 * Upper * r = 2 * Fore * r + 2 * (r * r)
      BY <2>1
    <3>. QED BY <3>1, <3>2
  <2>5. Upper * Upper + Fore * Fore - r * r = 2 * Upper * Fore
    <3>1. Upper * Upper = Fore * Fore + 2 * Fore * r + r * r
      BY <2>1
    <3>2. 2 * Upper * Fore = 2 * (Fore * Fore) + 2 * Fore * r
      BY <2>1
    <3>. QED BY <3>1, <3>2
  <2>. QED BY <2>2, <2>3, <2>4, <2>5 DEF Between
<1>6. CASE r < Upper /\ r <= Fore /\ Fore + r > Upper
  <2>1. Joints(r) = Acute(r)
    BY <1>6 DEF Joints
  <2>. QED BY <2>1, <1>3
<1>. QED BY <1>2, <1>4, <1>5, <1>6

LEMMA ClampedInReach ==
  ASSUME NEW r \in Nat
  PROVE  Clamped(r) \in Nat /\ Clamped(r) >= MinRadius
  BY LengthsAssumption DEF Clamped

\* The cosine x / r of a point is at most 1 in size.
LEMMA DirectionDefined ==
  ASSUME NEW p \in Points
  PROVE  to_circular(p) \in [cos : Angles, lower : BOOLEAN]
<1>. DEFINE r == Radius[p]
<1>1. /\ p[1] \in Int /\ p[2] \in Int /\ r \in Nat
      /\ r * r = p[1] * p[1] + p[2] * p[2]
  BY PointsAssumption
<1>2. CASE r = 0
  BY <1>2 DEF to_circular, Straight, Angle, Angles
<1>3. CASE r # 0
  <2>1. p[2] * p[2] >= 0
    BY <1>1
  <2>2. p[1] * p[1] <= r * r
    BY <1>1, <2>1
  <2>3. -r <= p[1] /\ p[1] <= r
    BY <1>1, <2>2, RootOrder
  <2>4. Acos(p[1], r) = Angle(p[1], r)
    BY <1>1, <1>3, <2>3 DEF Acos
  <2>. QED BY <1>1, <1>3, <2>4 DEF to_circular, Angle, Angles
<1>. QED BY <1>2, <1>3

-----------------------------------------------------------------------------
(* The inductive invariant: base_radius is never below MinRadius, the angles *)
(* that are kept are those of some triangle, and those of a pose are of the  *)
(* triangle with base_radius.                                                *)

GeometryInv ==
  /\ TypeOK
  /\ base_radius >= MinRadius
  /\ HandOnTarget

LEMMA InitGeometryInv == Init => GeometryInv
<1>. SUFFICES ASSUME Init PROVE GeometryInv
  OBVIOUS
<1>. USE DEF Init
<1>1. MinRadius \in Nat \ {0} /\ ~OutOfRange(MinRadius)
  BY LengthsAssumption, ArmAssumption DEF OutOfRange
<1>2. /\ alpha \in Angles /\ beta \in Angles
      /\ Between(alpha, Upper, MinRadius, Fore)
      /\ Between(beta, Upper, Fore, MinRadius)
  BY <1>1, JointsClose
<1>3. theta \in [cos : Angles, lower : BOOLEAN]
  BY <1>1 DEF Acos, Angle, Angles
<1>4. TypeOK
  BY <1>1, <1>2, <1>3 DEF TypeOK, PoseOf
<1>5. alpha # NaN /\ beta # NaN
  BY <1>2 DEF NaN, Angle, Angles
<1>6. HandOnTarget
  BY <1>2, <1>5 DEF HandOnTarget, PoseOf
<1>. QED BY <1>1, <1>4, <1>6 DEF GeometryInv

LEMMA NextGeometryInv == GeometryInv /\ [Next]_vars => GeometryInv'
<1>. SUFFICES ASSUME GeometryInv, [Next]_vars PROVE GeometryInv'
  OBVIOUS
<1>1. CASE UNCHANGED vars
  BY <1>1 DEF GeometryInv, TypeOK, HandOnTarget, vars
<1>2. ASSUME NEW p \in Points, set_target(p) PROVE GeometryInv'
  <2>. USE <1>2 DEF set_target
  <2>1. Radius[p] \in Nat /\ p \in Int \X Int
    BY PointsAssumption
  <2>2. base_radius' \in Nat /\ base_radius' >= MinRadius
    BY <2>1, ClampedInReach
  <2>3. theta' \in [cos : Angles, lower : BOOLEAN]
    BY DirectionDefined
  <2>4. CASE OutOfRange(base_radius')
    <3>1. pose' = Zero /\ alpha' = alpha /\ beta' = beta
      BY <2>4
    <3>2. TypeOK'
      BY <2>1, <2>2, <2>3, <3>1 DEF GeometryInv, TypeOK
    <3>3. HandOnTarget'
      BY <3>1 DEF HandOnTarget, Zero
    <3>. QED BY <2>2, <3>2, <3>3 DEF GeometryInv
  <2>5. CASE ~OutOfRange(base_radius')
    <3>. DEFINE r == base_radius'
    <3>1. /\ alpha' = Joints(r).alpha /\ beta' = Joints(r).beta
          /\ pose' = PoseOf(alpha', theta', beta')
      BY <2>5
    <3>2. /\ alpha' \in Angles /\ beta' \in Angles
          /\ Between(alpha', Upper, r, Fore)
          /\ Between(beta', Upper, Fore, r)
      BY <2>2, <2>5, <3>1, JointsClose
    <3>3. TypeOK'
      BY <2>1, <2>2, <2>3, <3>1, <3>2 DEF TypeOK, PoseOf
    <3>4. alpha' # NaN /\ beta' # NaN
      BY <3>2 DEF NaN, Angle, Angles
    <3>5. HandOnTarget'
      BY <3>1, <3>2, <3>4 DEF HandOnTarget, PoseOf
    <3>. QED BY <2>2, <3>3, <3>5 DEF GeometryInv
  <2>. QED BY <2>4, <2>5
<1>. QED BY <1>1, <1>2 DEF Next

LEMMA GeometryInvariant == Spec => []GeometryInv
  BY InitGeometryInv, NextGeometryInv, PTL DEF Spec

\* No acos is undefined: every angle the code keeps is an angle, for any arm
\* that satisfies ArmAssumption and any points.
THEOREM AnglesDefined == Spec => []TypeOK
  BY GeometryInvariant, PTL DEF GeometryInv

\* The hand goes to the target: the angles the motors are sent to are the
\* shoulder and the elbow of the triangle that ends at base_radius, in the
\* direction of the target, whichever of the three cases computed them.
THEOREM HandReaches == Spec => []HandOnTarget
  BY GeometryInvariant, PTL DEF GeometryInv

-----------------------------------------------------------------------------
(* What is kept of the target *)

\* Distances are in the order of their squares, which is how TargetKept
\* compares them.
LEMMA SquaresCompare ==
  ASSUME NEW a \in Nat, NEW b \in Nat
  PROVE  a <= b <=> a * a <= b * b
BY SquareOrder, RootOrder

\* What set_target keeps of a point.
LEMMA PolarOfPoint ==
  ASSUME NEW p \in Points
  PROVE  LET r2 == p[1] * p[1] + p[2] * p[2]
             max == Upper + Fore - Epsilon
             r == Clamped(Radius[p])
         IN /\ OutOfRange(r) <=> r2 > max * max
            /\ r2 >= MinRadius * MinRadius => r * r = r2
            /\ r2 < MinRadius * MinRadius => r = MinRadius
            /\ r2 > 0 => LET th == to_circular(p)
                             c == th.cos
                         IN /\ c.num * c.num * r2 = p[1] * p[1] * c.den * c.den
                            /\ (c.num < 0) = (p[1] < 0)
                            /\ th.lower = (p[2] < 0)
<1>. DEFINE r2 == p[1] * p[1] + p[2] * p[2]
            max == Upper + Fore - Epsilon
            R == Radius[p]
<1>1. /\ p[1] \in Int /\ p[2] \in Int /\ R \in Nat /\ R * R = r2
  BY PointsAssumption
<1>2. /\ max \in Nat /\ MinRadius \in Nat /\ MinRadius <= max
  BY LengthsAssumption, ArmAssumption
<1>3. OutOfRange(Clamped(R)) <=> max < R
  BY <1>1, <1>2 DEF OutOfRange, Clamped
<1>4. max < R <=> r2 > max * max
  <2>. HIDE DEF max, R, r2
  <2>1. R <= max <=> r2 <= max * max
    BY <1>1, <1>2, SquaresCompare
  <2>2. r2 \in Int /\ max * max \in Int
    BY <1>1, <1>2
  <2>. QED BY <1>1, <1>2, <2>1, <2>2
<1>5. MinRadius <= R <=> r2 >= MinRadius * MinRadius
  <2>. HIDE DEF R, r2
  <2>1. MinRadius <= R <=> MinRadius * MinRadius <= r2
    BY <1>1, <1>2, SquaresCompare
  <2>. QED BY <1>1, <1>2, <2>1
<1>6. /\ r2 >= MinRadius * MinRadius => Clamped(R) * Clamped(R) = r2
      /\ r2 < MinRadius * MinRadius => Clamped(R) = MinRadius
  BY <1>1, <1>2, <1>5 DEF Clamped
<1>7. ASSUME r2 > 0
      PROVE  /\ to_circular(p) = [cos |-> Angle(p[1], R), lower |-> p[2] < 0]
             /\ p[1] * p[1] * r2 = p[1] * p[1] * R * R
  <2>1. R # 0
    BY <1>1, <1>7
  <2>2. p[2] * p[2] >= 0
    BY <1>1
  <2>3. p[1] * p[1] <= R * R
    BY <1>1, <2>2
  <2>4. -R <= p[1] /\ p[1] <= R
    BY <1>1, <2>3, RootOrder
  <2>5. Acos(p[1], R) = Angle(p[1], R)
    BY <1>1, <2>1, <2>4 DEF Acos
  <2>6. p[1] * p[1] * r2 = p[1] * p[1] * R * R
    BY <1>1
  <2>. QED BY <2>1, <2>5, <2>6 DEF to_circular
<1>. HIDE DEF max
<1>. QED BY <1>3, <1>4, <1>6, <1>7 DEF Angle, max

LEMMA InitTargetKept == Init => TargetKept
<1>. SUFFICES ASSUME Init PROVE TargetKept
  OBVIOUS
<1>. DEFINE max == Upper + Fore - Epsilon
<1>1. /\ MinRadius \in Nat \ {0} /\ max \in Nat /\ MinRadius <= max
  BY LengthsAssumption, ArmAssumption
<1>2. /\ target[1] = MinRadius /\ target[2] = 0 /\ base_radius = MinRadius
      /\ theta.cos = Angle(MinRadius, MinRadius) /\ theta.lower = FALSE
      /\ pose.zero = FALSE
  BY <1>1 DEF Init, PoseOf, Acos
<1>3. MinRadius * MinRadius <= max * max
  BY <1>1, SquaresCompare
<1>4. target[1] * target[1] + target[2] * target[2] = MinRadius * MinRadius
  BY <1>1, <1>2
<1>5. ~(MinRadius * MinRadius > max * max)
  BY <1>1, <1>3
<1>6. theta.cos.num = MinRadius /\ theta.cos.den = MinRadius
  BY <1>1, <1>2 DEF Angle
<1>7. (theta.cos.num < 0) = (target[1] < 0)
  BY <1>2, <1>6, Zenon
<1>8. theta.lower = (target[2] < 0)
  <2>1. (target[2] < 0) = FALSE
    BY <1>2
  <2>. QED BY <1>2, <2>1, Zenon
<1>9. theta.cos.num * theta.cos.num * (MinRadius * MinRadius)
        = target[1] * target[1] * theta.cos.den * theta.cos.den
  BY <1>1, <1>2, <1>6
<1>. QED BY <1>2, <1>4, <1>5, <1>7, <1>8, <1>9 DEF TargetKept

\* theta and base_radius stand for the target whatever point is asked for, also
\* when its angles are not computed.
THEOREM TargetIsKept == Spec => []TargetKept
<1>1. TargetKept /\ [Next]_vars => TargetKept'
  <2>. SUFFICES ASSUME TargetKept, [Next]_vars PROVE TargetKept'
    OBVIOUS
  <2>1. CASE UNCHANGED vars
    BY <2>1 DEF vars, TargetKept
  <2>2. ASSUME NEW p \in Points, set_target(p) PROVE TargetKept'
    <3>1. /\ target' = p /\ theta' = to_circular(p)
          /\ base_radius' = Clamped(Radius[p])
      BY <2>2 DEF set_target
    <3>2. pose'.zero <=> OutOfRange(Clamped(Radius[p]))
      <4>1. CASE OutOfRange(Clamped(Radius[p]))
        BY <2>2, <3>1, <4>1 DEF set_target, Zero
      <4>2. CASE ~OutOfRange(Clamped(Radius[p]))
        BY <2>2, <3>1, <4>2 DEF set_target, PoseOf
      <4>. QED BY <4>1, <4>2
    <3>. QED BY <3>1, <3>2, PolarOfPoint DEF TargetKept
  <2>. QED BY <2>1, <2>2 DEF Next
<1>. QED BY <1>1, InitTargetKept, PTL DEF Spec

-----------------------------------------------------------------------------
(* What the scans read back.  The rotations of a pose are numbers            *)
(* a + b * sqrt(K), where sqrt(K) is the sine of the shoulder's angle over   *)
(* 2 * Upper * r as well as that of the elbow's over 2 * Upper * Fore.       *)

\* The base's rotation for a shoulder's angle n / a and a direction c, s; the
\* elbow's for e / d; and both together.
BaseOf(n, c, s, b) == Rotation(Surd(n * c, -s), Surd(n * s, c), b)
ElbowOf(e, d) == Rotation(Surd(e, 0), Surd(0, 1), d)
CosOf(n, c, s, e, K) == Surd(n * c * e - c * K, -(s * (e + n)))
SinOf(n, c, s, e, K) == Surd(n * s * e - s * K, c * (e + n))

\* The base turned by the shoulder's angle n / a and the direction c, s.
LEMMA BaseSurds ==
  ASSUME NEW n, NEW a, NEW c, NEW s, NEW b, NEW K,
         n \in Int, a \in Int, c \in Int, s \in Int, b \in Int, K \in Int
  PROVE  Sum(Rotation(Surd(n, 0), Surd(0, 1), a),
             Rotation(Surd(c, 0), Surd(s, 0), b), K)
           = BaseOf(n, c, s, a * b)
<1>1. Times(Surd(n, 0), Surd(c, 0), K) = Surd(n * c, 0)
  BY DEF Times, Surd
<1>2. Times(Surd(0, 1), Surd(s, 0), K) = Surd(0, s)
  BY DEF Times, Surd
<1>3. Times(Surd(0, 1), Surd(c, 0), K) = Surd(0, c)
  BY DEF Times, Surd
<1>4. Times(Surd(n, 0), Surd(s, 0), K) = Surd(n * s, 0)
  BY DEF Times, Surd
<1>5. Plus(Surd(n * c, 0), Scaled(-1, Surd(0, s))) = Surd(n * c, -s)
  BY DEF Plus, Scaled, Surd
<1>6. Plus(Surd(0, c), Surd(n * s, 0)) = Surd(n * s, c)
  BY DEF Plus, Surd
<1>. QED BY <1>1, <1>2, <1>3, <1>4, <1>5, <1>6 DEF Sum, Rotation, BaseOf

\* The base's rotation and the elbow's together.
LEMMA BothSurds ==
  ASSUME NEW n, NEW c, NEW s, NEW e, NEW b, NEW d, NEW K,
         n \in Int, c \in Int, s \in Int, e \in Int, b \in Int, d \in Int, K \in Int
  PROVE  Sum(BaseOf(n, c, s, b), ElbowOf(e, d), K)
           = Rotation(CosOf(n, c, s, e, K), SinOf(n, c, s, e, K), b * d)
<1>1. Times(Surd(n * c, -s), Surd(e, 0), K) = Surd(n * c * e, -(s * e))
  BY DEF Times, Surd
<1>2. Times(Surd(n * s, c), Surd(0, 1), K) = Surd(c * K, n * s)
  BY DEF Times, Surd
<1>3. Times(Surd(n * s, c), Surd(e, 0), K) = Surd(n * s * e, c * e)
  BY DEF Times, Surd
<1>4. Times(Surd(n * c, -s), Surd(0, 1), K) = Surd(-(s * K), n * c)
  BY DEF Times, Surd
<1>5. Plus(Surd(n * c * e, -(s * e)), Scaled(-1, Surd(c * K, n * s)))
        = Surd(n * c * e - c * K, -(s * (e + n)))
  BY DEF Plus, Scaled, Surd
<1>6. Plus(Surd(n * s * e, c * e), Surd(-(s * K), n * c))
        = Surd(n * s * e - s * K, c * (e + n))
  BY DEF Plus, Surd
<1>. QED
  BY <1>1, <1>2, <1>3, <1>4, <1>5, <1>6
     DEF Sum, Rotation, BaseOf, ElbowOf, CosOf, SinOf

\* Both turned back have the same cosine and the opposite sine.
LEMMA BackSurds ==
  ASSUME NEW n, NEW c, NEW s, NEW e, NEW b, NEW d, NEW K,
         n \in Int, c \in Int, s \in Int, e \in Int, b \in Int, d \in Int, K \in Int
  PROVE  Sum(Back(BaseOf(n, c, s, b)), Back(ElbowOf(e, d)), K)
           = Rotation(CosOf(n, c, s, e, K),
                      Scaled(-1, SinOf(n, c, s, e, K)), b * d)
<1>. DEFINE u == BaseOf(n, c, s, b)
            v == ElbowOf(e, d)
<1>1. Back(u) = Rotation(Surd(n * c, -s), Surd(-(n * s), -c), b)
  BY DEF Back, Rotation, Scaled, Surd, BaseOf
<1>2. Back(v) = Rotation(Surd(e, 0), Surd(0, -1), d)
  BY DEF Back, Rotation, Scaled, Surd, ElbowOf
<1>3. Times(Surd(n * c, -s), Surd(e, 0), K) = Surd(n * c * e, -(s * e))
  BY DEF Times, Surd
<1>4. Times(Surd(-(n * s), -c), Surd(0, -1), K) = Surd(c * K, n * s)
  BY DEF Times, Surd
<1>5. Times(Surd(-(n * s), -c), Surd(e, 0), K) = Surd(-(n * s * e), -(c * e))
  BY DEF Times, Surd
<1>6. Times(Surd(n * c, -s), Surd(0, -1), K) = Surd(s * K, -(n * c))
  BY DEF Times, Surd
<1>7. Plus(Surd(n * c * e, -(s * e)), Scaled(-1, Surd(c * K, n * s)))
        = Surd(n * c * e - c * K, -(s * (e + n)))
  BY DEF Plus, Scaled, Surd
<1>8. Plus(Surd(-(n * s * e), -(c * e)), Surd(s * K, -(n * c)))
        = Surd(-(n * s * e - s * K), -(c * (e + n)))
  BY DEF Plus, Surd
<1>9. Sum(Rotation(Surd(n * c, -s), Surd(-(n * s), -c), b),
          Rotation(Surd(e, 0), Surd(0, -1), d), K)
        = Rotation(Surd(n * c * e - c * K, -(s * (e + n))),
                   Surd(-(n * s * e - s * K), -(c * (e + n))), b * d)
  BY <1>3, <1>4, <1>5, <1>6, <1>7, <1>8 DEF Sum, Rotation
<1>10. Scaled(-1, SinOf(n, c, s, e, K))
         = Surd(-(n * s * e - s * K), -(c * (e + n)))
  BY DEF Scaled, SinOf, Surd
<1>. QED BY <1>1, <1>2, <1>9, <1>10 DEF CosOf

\* The numbers of a pose: the distance r, the shoulder's angle n / a and the
\* elbow's e / d, the direction c / b, s / b, and the square K of the root.
ArmNumbers(r, n, a, c, s, b, e, d, K) ==
  /\ r \in Int /\ n \in Int /\ a \in Int /\ c \in Int /\ s \in Int /\ e \in Int
  /\ K \in Int /\ b \in Nat \ {0} /\ d \in Nat \ {0}
  /\ d = 2 * Upper * Fore
  /\ K = a * a - n * n
  /\ \/ /\ n = Upper * Upper + r * r - Fore * Fore /\ a = 2 * Upper * r
        /\ e = Upper * Upper + Fore * Fore - r * r
     \/ n = 1 /\ a = 1 /\ Upper = Fore + r /\ e = d

\* The identities of the triangle: the projections of the two parts of the arm
\* add up to the distance r, and the roots cancel.
LEMMA ArmAlgebra ==
  ASSUME NEW r, NEW n, NEW a, NEW c, NEW s, NEW b, NEW e, NEW d, NEW K,
         ArmNumbers(r, n, a, c, s, b, e, d, K)
  PROVE  /\ Upper * d * n - Fore * n * e + Fore * K = r * a * d
         /\ K = 0 \/ Upper * d = Fore * (e + n)
<1>. DEFINE U == Upper
            F == Fore
<1>0. /\ U \in Int /\ F \in Int /\ r \in Int /\ n \in Int /\ a \in Int
      /\ e \in Int /\ d \in Int /\ K \in Int
      /\ d = 2 * U * F /\ K = a * a - n * n
      /\ \/ /\ n = U * U + r * r - F * F /\ a = 2 * U * r
            /\ e = U * U + F * F - r * r
         \/ n = 1 /\ a = 1 /\ U = F + r /\ e = d
  BY LengthsAssumption DEF ArmNumbers
<1>. SUFFICES /\ U * d * n - F * n * e + F * K = r * a * d
              /\ K = 0 \/ U * d = F * (e + n)
  OBVIOUS
<1>. HIDE DEF U, F
<1>1. CASE /\ n = U * U + r * r - F * F /\ a = 2 * U * r
           /\ e = U * U + F * F - r * r
  <2>1. e + n = 2 * (U * U)
    BY <1>0, <1>1
  <2>2. U * d = F * (e + n)
    BY <1>0, <2>1
  <2>3. U * d * n = F * (e + n) * n
    BY <1>0, <2>2
  <2>4. F * (e + n) * n = F * n * e + F * (n * n)
    BY <1>0
  <2>5. F * K = F * (a * a) - F * (n * n)
    BY <1>0
  <2>6. F * (a * a) = r * a * d
    <3>1. F * a = r * d
      BY <1>0, <1>1
    <3>2. F * (a * a) = F * a * a /\ r * a * d = r * d * a
      BY <1>0
    <3>. QED BY <1>0, <3>1, <3>2
  <2>. DEFINE x == U * d * n
              y == F * n * e
              z == F * (n * n)
              w == F * K
              q == F * (a * a)
  <2>7. /\ x \in Int /\ y \in Int /\ z \in Int /\ w \in Int /\ q \in Int
        /\ x = y + z /\ w = q - z
    BY <1>0, <2>3, <2>4, <2>5
  <2>8. x - y + w = q
    <3>. HIDE DEF x, y, z, w, q
    <3>. QED BY <2>7
  <2>. QED BY <2>2, <2>6, <2>8
<1>2. CASE n = 1 /\ a = 1 /\ U = F + r /\ e = d
  <2>1. K = 0 /\ U * d = F * d + r * d
    BY <1>0, <1>2
  <2>. QED BY <1>0, <1>2, <2>1
<1>. QED BY <1>0, <1>1, <1>2

\* A product with a positive factor is zero if the other factor is.
LEMMA NoZeroProduct ==
  ASSUME NEW k \in Nat \ {0}, NEW x \in Int
  PROVE  k * x = 0 <=> x = 0
<1>1. CASE x = 0
  BY <1>1
<1>2. CASE x > 0
  BY <1>2, SMT
<1>3. CASE x < 0
  <2>1. -x > 0 /\ k * (-x) > 0
    BY <1>3, SMT
  <2>2. k * (-x) = -(k * x)
    OBVIOUS
  <2>. QED BY <1>3, <2>1, <2>2
<1>. QED BY <1>1, <1>2, <1>3

\* The coordinates, as the code adds them up: L and M are those of the sine of
\* both rotations.
LEMMA ReadSums ==
  ASSUME NEW U \in Nat \ {0}, NEW F \in Nat \ {0}, NEW d \in Nat \ {0},
         NEW r \in Int, NEW n \in Int, NEW a \in Int, NEW c \in Int,
         NEW s \in Int, NEW e \in Int, NEW K \in Int,
         U * d * n - F * n * e + F * K = r * a * d,
         K = 0 \/ U * d = F * (e + n)
  PROVE  LET L == n * s * e - s * K
             M == c * (e + n)
             m == r * s * (a * d)
         IN /\ (U * d) * (n * c) + (-F) * (n * c * e - c * K) = r * c * (a * d)
            /\ K = 0 \/ (U * d) * (-s) + (-F) * (-(s * (e + n))) = 0
            /\ (U * d) * (n * s) + F * L = m <=> L = 0
            /\ K = 0 \/ ((U * d) * c + F * M = 0 <=> M = 0)
            /\ (U * d) * (-(n * s)) + F * (-L) = m <=> n * s = 0
            /\ K = 0 \/ ((U * d) * (-c) + F * (-M) = 0 <=> c = 0)
<1>. DEFINE L == n * s * e - s * K
            M == c * (e + n)
            m == r * s * (a * d)
            P == U * d * n - F * n * e + F * K
<1>0. P \in Int /\ L \in Int /\ M \in Int /\ m \in Int /\ U * d \in Nat \ {0}
  BY SMT
<1>1. \A z \in Int : z * P = (U * d) * (n * z) - F * (n * z * e - z * K)
  OBVIOUS
<1>2. \A z \in Int : z * P = r * z * (a * d)
  <2>1. P = r * a * d
    OBVIOUS
  <2>. HIDE DEF P
  <2>2. \A z \in Int : z * P = z * (r * a * d)
    BY <2>1
  <2>3. \A z \in Int : z * (r * a * d) = r * z * (a * d)
    OBVIOUS
  <2>. QED BY <2>2, <2>3
<1>3. (U * d) * (n * c) + (-F) * (n * c * e - c * K) = r * c * (a * d)
  <2>1. (U * d) * (n * c) - F * (n * c * e - c * K) = r * c * (a * d)
    BY <1>1, <1>2
  <2>. QED BY <2>1
<1>4. (U * d) * (n * s) - F * L = m
  BY <1>1, <1>2
<1>5. F * L = 0 <=> L = 0
  BY <1>0, NoZeroProduct
<1>6. (U * d) * (n * s) + F * L = m <=> L = 0
  <2>. DEFINE x == (U * d) * (n * s)
              y == F * L
  <2>1. x \in Int /\ y \in Int /\ x - y = m
    BY <1>0, <1>4
  <2>2. x + y = m <=> y = 0
    <3>. HIDE DEF x, y, m
    <3>. QED BY <1>0, <2>1
  <2>. QED BY <1>5, <2>2
<1>7. (U * d) * (-(n * s)) + F * (-L) = m <=> n * s = 0
  <2>. DEFINE x == (U * d) * (n * s)
              y == F * L
  <2>1. x \in Int /\ y \in Int /\ x - y = m
    BY <1>0, <1>4
  <2>2. (U * d) * (-(n * s)) = -x /\ F * (-L) = -y
    BY <1>0
  <2>3. x = 0 <=> n * s = 0
    <3>1. n * s \in Int
      OBVIOUS
    <3>. QED BY <1>0, <3>1, NoZeroProduct
  <2>4. -x + -y = m <=> x = 0
    <3>. HIDE DEF x, y, m
    <3>. QED BY <1>0, <2>1
  <2>. QED BY <2>2, <2>3, <2>4
<1>8. ASSUME K # 0
      PROVE  /\ (U * d) * (-s) + (-F) * (-(s * (e + n))) = 0
             /\ (U * d) * c + F * M = 0 <=> M = 0
             /\ (U * d) * (-c) + F * (-M) = 0 <=> c = 0
  <2>. DEFINE D == U * d
  <2>1. D = F * (e + n)
    BY <1>8
  <2>2. D \in Nat \ {0}
    BY <1>0
  <2>. HIDE DEF D
  <2>3. D * c = F * M /\ D * s = F * (s * (e + n))
    BY <2>1
  <2>4. (F * M = 0 <=> M = 0) /\ (D * c = 0 <=> c = 0)
    BY <1>0, <2>2, NoZeroProduct
  <2>5. D * (-c) = -(D * c) /\ F * (-M) = -(F * M) /\ D * (-s) = -(D * s)
        /\ (-F) * (-(s * (e + n))) = F * (s * (e + n))
    BY <2>2
  <2>. DEFINE x == D * c
              y == F * M
              z == D * s
              w == F * (s * (e + n))
  <2>6. x \in Int /\ y \in Int /\ z \in Int /\ w \in Int /\ x = y /\ z = w
    BY <2>2, <2>3
  <2>7. -z + w = 0 /\ (x + y = 0 <=> y = 0) /\ (-x + -y = 0 <=> x = 0)
    <3>. HIDE DEF x, y, z, w
    <3>. QED BY <2>6
  <2>. QED BY <2>4, <2>5, <2>7 DEF D
<1>. QED BY <1>3, <1>6, <1>7, <1>8

LEMMA ExactDivision ==
  ASSUME NEW k \in Int, NEW m \in Nat \ {0}, NEW x \in Int, x = k * m
  PROVE  x \div m = k
<1>. DEFINE q == x \div m
<1>1. q \in Int /\ q * m <= x /\ x < q * m + m
  BY SMT
<1>. HIDE DEF q
<1>2. (k - q) * m = k * m - q * m /\ (q + 1 - k) * m = q * m + m - k * m
  BY <1>1
<1>3. ASSUME NEW z \in Int, z * m >= 0 PROVE z >= 0
  BY <1>3, SMT
<1>4. k - q >= 0
  BY <1>1, <1>2, <1>3
<1>5. ~(k - q >= 1)
  <2>1. ASSUME k - q >= 1 PROVE (k - q) * m >= m
    BY <1>1, <2>1, SMT
  <2>. QED BY <1>1, <1>2, <2>1
<1>6. q = k
  BY <1>1, <1>4, <1>5
<1>. QED BY <1>6 DEF q

\* The body of RotationsReadX, for the numbers of any pose.
ReadsX(r, c, s, b, K, base, elbow) ==
  LET spr == rotation_to_cartesian(base, elbow, K)
      back == rotation_to_cartesian(Back(base), Back(elbow), K)
      unit == spr.den \div b
      level == Sum(base, elbow, K).sin
      Is(u, m) == u.int = m /\ (u.root = 0 \/ K = 0)
  IN /\ Is(spr.x, r * c * unit) /\ Is(back.x, r * c * unit)
     /\ Is(spr.y, r * s * unit) <=> Is(level, 0)
     /\ Is(back.y, r * s * unit) <=> Is(base.sin, 0)

LEMMA ReadBack ==
  ASSUME NEW r, NEW n, NEW a, NEW c, NEW s, NEW b, NEW e, NEW d, NEW K,
         ArmNumbers(r, n, a, c, s, b, e, d, K)
  PROVE  ReadsX(r, c, s, b, K, BaseOf(n, c, s, a * b), ElbowOf(e, d))
<1>. DEFINE base == BaseOf(n, c, s, a * b)
            elbow == ElbowOf(e, d)
<1>. SUFFICES ASSUME n \in Int, a \in Int, c \in Int, s \in Int, b \in Nat \ {0},
                     e \in Int, d \in Nat \ {0}, K \in Int, r \in Int
              PROVE  ReadsX(r, c, s, b, K, base, elbow)
  BY DEF ArmNumbers
<1>0. /\ Upper * d * n - Fore * n * e + Fore * K = r * a * d
      /\ K = 0 \/ Upper * d = Fore * (e + n)
  BY ArmAlgebra
<1>. DEFINE L == n * s * e - s * K
            M == c * (e + n)
            G == n * c * e - c * K
            H == -(s * (e + n))
            spr == rotation_to_cartesian(base, elbow, K)
            back == rotation_to_cartesian(Back(base), Back(elbow), K)
<1>1. /\ Upper \in Nat \ {0} /\ Fore \in Nat \ {0} /\ a * b \in Int
      /\ L \in Int /\ M \in Int /\ G \in Int /\ H \in Int
  BY LengthsAssumption
<1>2. Sum(base, elbow, K) = Rotation(Surd(G, H), Surd(L, M), (a * b) * d)
  <2>1. d \in Int
    OBVIOUS
  <2>. DEFINE ab == a * b
  <2>2. ab \in Int
    BY <1>1
  <2>. HIDE DEF ab
  <2>3. Sum(BaseOf(n, c, s, ab), ElbowOf(e, d), K)
          = Rotation(CosOf(n, c, s, e, K), SinOf(n, c, s, e, K), ab * d)
    BY <2>1, <2>2, BothSurds
  <2>. QED BY <2>3 DEF CosOf, SinOf, ab
<1>3. /\ Back(base) = Rotation(Surd(n * c, -s), Surd(-(n * s), -c), a * b)
      /\ Back(elbow).den = d
      /\ Sum(Back(base), Back(elbow), K)
           = Rotation(Surd(G, H), Surd(-L, -M), (a * b) * d)
  <2>1. Scaled(-1, Surd(L, M)) = Surd(-L, -M)
    BY <1>1 DEF Scaled, Surd
  <2>. DEFINE ab == a * b
  <2>2. d \in Int /\ ab \in Int
    BY <1>1
  <2>. HIDE DEF ab, L, M, G, H
  <2>3. /\ Back(BaseOf(n, c, s, ab))
             = Rotation(Surd(n * c, -s), Surd(-(n * s), -c), ab)
        /\ Back(ElbowOf(e, d)).den = d
        /\ Sum(Back(BaseOf(n, c, s, ab)), Back(ElbowOf(e, d)), K)
             = Rotation(CosOf(n, c, s, e, K),
                        Scaled(-1, SinOf(n, c, s, e, K)), ab * d)
    <3>1. Back(BaseOf(n, c, s, ab))
            = Rotation(Surd(n * c, -s), Surd(-(n * s), -c), ab)
      BY <2>2 DEF Back, Rotation, Scaled, Surd, BaseOf
    <3>2. Back(ElbowOf(e, d)).den = d
      BY DEF Back, ElbowOf, Rotation
    <3>3. Sum(Back(BaseOf(n, c, s, ab)), Back(ElbowOf(e, d)), K)
            = Rotation(CosOf(n, c, s, e, K),
                       Scaled(-1, SinOf(n, c, s, e, K)), ab * d)
      BY <2>2, BackSurds
    <3>. QED BY <3>1, <3>2, <3>3
  <2>4. CosOf(n, c, s, e, K) = Surd(G, H) /\ SinOf(n, c, s, e, K) = Surd(L, M)
    BY DEF CosOf, SinOf, L, M, G, H
  <2>. QED BY <2>1, <2>3, <2>4 DEF ab
<1>4. base.cos = Surd(n * c, -s) /\ base.sin = Surd(n * s, c) /\ elbow.den = d
  BY DEF BaseOf, ElbowOf, Rotation
<1>. HIDE DEF L, M, G, H
<1>5. /\ spr.x = Surd((Upper * d) * (n * c) + (-Fore) * G,
                      (Upper * d) * (-s) + (-Fore) * H)
      /\ spr.y = Surd((Upper * d) * (n * s) + Fore * L,
                      (Upper * d) * c + Fore * M)
      /\ spr.den = (a * b) * d
  BY <1>2, <1>4 DEF rotation_to_cartesian, Rotation, Plus, Scaled, Surd
<1>6. /\ back.x = Surd((Upper * d) * (n * c) + (-Fore) * G,
                       (Upper * d) * (-s) + (-Fore) * H)
      /\ back.y = Surd((Upper * d) * (-(n * s)) + Fore * (-L),
                       (Upper * d) * (-c) + Fore * (-M))
  BY <1>3 DEF rotation_to_cartesian, Rotation, Plus, Scaled, Surd
<1>7. spr.den \div b = a * d
  <2>1. (a * b) * d = (a * d) * b
    OBVIOUS
  <2>. QED BY <1>5, <2>1, ExactDivision
<1>8. /\ (Upper * d) * (n * c) + (-Fore) * G = r * c * (a * d)
      /\ K = 0 \/ (Upper * d) * (-s) + (-Fore) * H = 0
      /\ (Upper * d) * (n * s) + Fore * L = r * s * (a * d) <=> L = 0
      /\ K = 0 \/ ((Upper * d) * c + Fore * M = 0 <=> M = 0)
      /\ (Upper * d) * (-(n * s)) + Fore * (-L) = r * s * (a * d) <=> n * s = 0
      /\ K = 0 \/ ((Upper * d) * (-c) + Fore * (-M) = 0 <=> c = 0)
  BY <1>0, <1>1, ReadSums DEF L, M, G, H
<1>9. Sum(base, elbow, K).sin = Surd(L, M)
  BY <1>2 DEF Rotation
<1>. DEFINE Is(u, m) == u.int = m /\ (u.root = 0 \/ K = 0)
<1>10. Is(spr.x, r * c * (a * d)) /\ Is(back.x, r * c * (a * d))
  BY <1>5, <1>6, <1>8 DEF Surd
<1>11. Is(spr.y, r * s * (a * d)) <=> Is(Surd(L, M), 0)
  BY <1>5, <1>8 DEF Surd
<1>12. Is(back.y, r * s * (a * d)) <=> Is(base.sin, 0)
  BY <1>4, <1>6, <1>8 DEF Surd
<1>. HIDE DEF spr, back
<1>. QED BY <1>7, <1>9, <1>10, <1>11, <1>12 DEF spr, back, ReadsX

\* The shoulder's angle, in the form that the case which computed it has.
ShoulderOf(r, angle) ==
  \/ angle = Angle(Upper * Upper + r * r - Fore * Fore, 2 * Upper * r)
  \/ angle = Straight /\ Upper = Fore + r

LEMMA JointsShoulder ==
  ASSUME NEW r \in Nat, r >= MinRadius, ~OutOfRange(r)
  PROVE  ShoulderOf(r, Joints(r).alpha)
<1>. DEFINE n == Upper * Upper + r * r - Fore * Fore
            d == 2 * Upper * r
<1>0. Upper \in Nat /\ Fore \in Nat
  BY LengthsAssumption
<1>1. Joints(r).alpha \in Angles
  BY JointsClose
<1>2. NaN \notin Angles
  BY DEF NaN, Angles, Angle
<1>3. ASSUME Joints(r).alpha = Acos(n, d) PROVE ShoulderOf(r, Joints(r).alpha)
  <2>. HIDE DEF n, d
  <2>1. Acos(n, d) = Angle(n, d)
    BY <1>1, <1>2, <1>3 DEF Acos
  <2>. QED BY <1>3, <2>1 DEF ShoulderOf, n, d
<1>4. CASE r >= Upper
  <2>1. Joints(r).alpha = Acos(Upper * Upper - Fore * Fore + r * r, 2 * r * Upper)
    BY <1>4 DEF Joints, Obtuse, sides_to_angles
  <2>2. n = Upper * Upper - Fore * Fore + r * r /\ d = 2 * r * Upper
    BY <1>0
  <2>. QED BY <1>3, <2>1, <2>2
<1>5. ASSUME Joints(r) = Acute(r) PROVE ShoulderOf(r, Joints(r).alpha)
  <2>1. Joints(r).alpha = Acos(2 * Upper * Upper - (Fore * Fore - r * r + Upper * Upper), 2 * Upper * r)
    BY <1>5 DEF Acute, sides_to_angles
  <2>2. n = 2 * Upper * Upper - (Fore * Fore - r * r + Upper * Upper)
    BY <1>0
  <2>. QED BY <1>3, <2>1, <2>2
<1>6. CASE r < Upper /\ r <= Fore /\ Fore + r <= Upper
  <2>1. Joints(r).alpha = Straight
    BY <1>0, <1>6 DEF Joints
  <2>2. Upper = Fore + r
    BY <1>0, <1>6, LengthsAssumption, ArmAssumption
  <2>. QED BY <2>1, <2>2 DEF ShoulderOf
<1>7. CASE ~(r >= Upper) /\ ~(r < Upper /\ r <= Fore /\ Fore + r <= Upper)
  <2>1. Joints(r) = Acute(r)
    BY <1>0, <1>7 DEF Joints
  <2>. QED BY <1>5, <2>1
<1>. QED BY <1>0, <1>4, <1>6, <1>7

\* A pose keeps the shoulder's angle in that form, and the elbow's is defined.
ReadInv ==
  /\ GeometryInv
  /\ ~pose.zero => /\ ShoulderOf(base_radius, pose.base[1])
                   /\ pose.elbow \in Angles

LEMMA InitReadInv == Init => ReadInv
<1>. SUFFICES ASSUME Init PROVE ReadInv
  OBVIOUS
<1>1. MinRadius \in Nat /\ ~OutOfRange(MinRadius)
  BY LengthsAssumption, ArmAssumption DEF OutOfRange
<1>2. /\ ShoulderOf(MinRadius, Joints(MinRadius).alpha)
      /\ Joints(MinRadius).beta \in Angles
  BY <1>1, JointsShoulder, JointsClose
<1>. QED BY <1>2, InitGeometryInv DEF Init, ReadInv, PoseOf

LEMMA NextReadInv == ReadInv /\ [Next]_vars => ReadInv'
<1>. SUFFICES ASSUME ReadInv, [Next]_vars PROVE ReadInv'
  OBVIOUS
<1>0. GeometryInv'
  BY NextGeometryInv DEF ReadInv
<1>1. CASE UNCHANGED vars
  BY <1>0, <1>1 DEF ReadInv, ShoulderOf, vars
<1>2. ASSUME NEW p \in Points, set_target(p) PROVE ReadInv'
  <2>1. base_radius' \in Nat /\ base_radius' >= MinRadius
    BY <1>2, PointsAssumption, ClampedInReach DEF set_target
  <2>2. CASE OutOfRange(base_radius')
    BY <1>0, <1>2, <2>2 DEF set_target, ReadInv, Zero
  <2>3. CASE ~OutOfRange(base_radius')
    <3>1. /\ ShoulderOf(base_radius', Joints(base_radius').alpha)
          /\ Joints(base_radius').beta \in Angles
      BY <2>1, <2>3, JointsShoulder, JointsClose
    <3>2. /\ pose'.base[1] = Joints(base_radius').alpha
          /\ pose'.elbow = Joints(base_radius').beta
      BY <1>2, <2>3 DEF set_target, PoseOf
    <3>. QED BY <1>0, <3>1, <3>2 DEF ReadInv, ShoulderOf
  <2>. QED BY <2>2, <2>3
<1>. QED BY <1>1, <1>2 DEF Next

\* What is read back from a pose whose angles close the triangle.
LEMMA ReadInvReads == ReadInv => RotationsReadX
<1>. SUFFICES ASSUME ReadInv, ~pose.zero PROVE RotationsReadX
  BY DEF RotationsReadX
<1>. DEFINE r == base_radius
            n == pose.base[1].num
            a == pose.base[1].den
            c == theta.cos.num
            b == theta.cos.den
            s == IF Radius[target] = 0 THEN 0 ELSE target[2]
            d == 2 * Upper * Fore
            e == Upper * Upper + Fore * Fore - r * r
            K == a * a - n * n
<1>1. /\ Upper \in Nat \ {0} /\ Fore \in Nat \ {0} /\ r \in Nat
      /\ c \in Int /\ b \in Nat \ {0} /\ s \in Int
  BY LengthsAssumption DEF ReadInv, GeometryInv, TypeOK, Angles
<1>2. d \in Nat \ {0} /\ e \in Int
  BY <1>1, SMT
<1>3. \/ n = Upper * Upper + r * r - Fore * Fore /\ a = 2 * Upper * r
      \/ n = 1 /\ a = 1 /\ Upper = Fore + r
  BY DEF ReadInv, ShoulderOf, Angle, Straight
<1>4. n \in Int /\ a \in Int /\ K \in Int
  <2>1. Upper * Upper + r * r - Fore * Fore \in Int /\ 2 * Upper * r \in Int
    BY <1>1
  <2>2. n \in Int /\ a \in Int
    BY <1>3, <2>1
  <2>. HIDE DEF n, a
  <2>. QED BY <2>2
<1>5. Upper = Fore + r => e = d
  <2>1. ASSUME Upper = Fore + r PROVE e = d
    <3>1. Upper * Upper = Fore * Fore + 2 * Fore * r + r * r
      BY <1>1, <2>1
    <3>2. d = 2 * (Fore * Fore) + 2 * Fore * r
      BY <1>1, <2>1
    <3>. QED BY <1>1, <3>1, <3>2
  <2>. QED BY <2>1
<1>6. ArmNumbers(r, n, a, c, s, b, e, d, K)
  <2>1. /\ d = 2 * Upper * Fore /\ K = a * a - n * n
        /\ e = Upper * Upper + Fore * Fore - r * r
    OBVIOUS
  <2>. HIDE DEF r, n, a, c, b, s, d, e, K
  <2>. QED BY <1>1, <1>2, <1>3, <1>4, <1>5, <2>1 DEF ArmNumbers
<1>7. BaseRotation = BaseOf(n, c, s, a * b) /\ Heron = K
  <2>1. Heron = K
    BY DEF Heron
  <2>2. BaseRotation = Sum(Rotation(Surd(n, 0), Surd(0, 1), a),
                           Rotation(Surd(c, 0), Surd(s, 0), b), K)
    BY <2>1 DEF BaseRotation
  <2>. HIDE DEF n, a, c, b, s, K
  <2>. QED BY <1>1, <1>4, <2>1, <2>2, BaseSurds
<1>8. ElbowRotation = ElbowOf(e, d)
  <2>. DEFINE num == pose.elbow.num
              den == pose.elbow.den
  <2>1. pose.elbow \in Angles /\ e * den = d * num
    BY DEF ReadInv, GeometryInv, HandOnTarget, Between
  <2>2. (num * d) \div den = e
    <3>1. den \in Nat \ {0} /\ num \in Int
      BY <2>1 DEF Angles
    <3>2. num * d = e * den
      BY <1>2, <2>1, <3>1
    <3>. HIDE DEF num, den, e, d
    <3>. QED BY <1>2, <3>1, <3>2, ExactDivision
  <2>. QED BY <2>2 DEF ElbowRotation, ElbowOf
<1>9. ReadsX(r, c, s, b, K, BaseRotation, ElbowRotation)
  <2>. HIDE DEF r, n, a, c, b, s, d, e, K
  <2>1. ReadsX(r, c, s, b, K, BaseOf(n, c, s, a * b), ElbowOf(e, d))
    BY <1>6, ReadBack
  <2>. QED BY <1>7, <1>8, <2>1
<1>. QED BY <1>7, <1>9 DEF RotationsReadX, ReadsX

\* The x that S and SPR read back from any pose of any arm is that of the hand;
\* their y is only where the part that they take to the other side is level.
THEOREM RotationsRead == Spec => []RotationsReadX
<1>. QED BY InitReadInv, NextReadInv, ReadInvReads, PTL DEF Spec

===============================================================================
