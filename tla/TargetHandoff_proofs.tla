------------------------- MODULE TargetHandoff_proofs -------------------------
(***************************************************************************)
(* What the unlocked handoff keeps for any number of sensors, targets and  *)
(* records: types, one acquisition per report, whole records between       *)
(* reports, and the best match of a pass that no report comes into.        *)
(***************************************************************************)
EXTENDS TargetHandoff, WellFoundedInduction, TLAPS

LEMMA OrderLength == Len(Order) \in Nat \ {0} /\ Order \in Seq(Targets)
  BY OrderAssumption

LEMMA OrderElement ==
  ASSUME NEW i \in 1..Len(Order)
  PROVE  Order[i] \in Targets
  BY OrderLength

\* What Subject is while the main thread looks at a target.
LEMMA SubjectIsTarget == TypeOK => Subject \in Targets
<1>. SUFFICES ASSUME TypeOK PROVE Subject \in Targets
  OBVIOUS
<1>1. CASE mode = "pattern"
  BY <1>1 DEF TypeOK, Subject
<1>2. CASE mode # "pattern"
  BY <1>2, OrderElement DEF TypeOK, Subject
<1>. QED BY <1>1, <1>2

-----------------------------------------------------------------------------
(* Types *)

LEMMA TypeInit == Init => TypeOK
<1>. SUFFICES ASSUME Init PROVE TypeOK
  OBVIOUS
<1>1. 1 \in 1..Len(Order)
  BY OrderLength
<1>. QED BY <1>1 DEF Init, TypeOK, Angles, NoRecord

\* The index and the label after a target has been looked at.
LEMMA AdvanceType ==
  ASSUME TypeOK, NEW b \in Targets \union {None}, Advance(b)
  PROVE  /\ pc' \in {"look", "x", "done"}
         /\ j' \in 1..Len(Order)
         /\ pc' = "x" => b # None
<1>1. j \in 1..Len(Order)
  BY DEF TypeOK
<1>2. CASE mode = "pattern"
  BY <1>1, <1>2 DEF Advance
<1>3. CASE mode # "pattern" /\ ~LastOne
  BY <1>1, <1>3, OrderLength DEF Advance, LastOne
<1>4. CASE mode # "pattern" /\ LastOne
  BY <1>4, OrderLength DEF Advance
<1>. QED BY <1>2, <1>3, <1>4

\* A sensor thread keeps to its target.
LEMMA BecomesType ==
  ASSUME TypeOK, NEW r \in Readers, at[r] # "idle",
         NEW label \in {"idle", "x", "y", "theta", "radians", "match"},
         label # "idle" => report[r] \in Records,
         Becomes(r, label)
  PROVE  /\ at' \in [Readers -> {"idle", "test", "x", "y", "theta", "radians",
                                 "match"}]
         /\ subject' \in [Readers -> Targets \union {None}]
         /\ report' \in [Readers -> Records \union {None}]
         /\ \A s \in Readers :
              /\ at'[s] # "idle" =>
                   subject'[s] \in Targets /\ ReaderOf[subject'[s]] = s
              /\ at'[s] \notin {"idle", "test"} => report'[s] \in Records
<1>1. CASE label = "idle"
  BY <1>1 DEF TypeOK, Becomes
<1>2. CASE label # "idle"
  BY <1>2 DEF TypeOK, Becomes
<1>. QED BY <1>1, <1>2

LEMMA TypeReader ==
  ASSUME TypeOK, NEW r \in Readers, DataTest(r)
  PROVE  TypeOK'
<1>. USE DEF main, result, history, target, reader
<1>1. CASE TestAbsent(r)
  <2>1. Becomes(r, "idle") /\ at[r] # "idle"
    BY <1>1 DEF TestAbsent
  <2>2. present' \in [Targets -> BOOLEAN]
    BY <1>1 DEF TestAbsent, TypeOK
  <2>. QED BY <1>1, <2>1, <2>2, BecomesType DEF TestAbsent, TypeOK
<1>2. CASE TestPresent(r)
  <2>1. Becomes(r, "x") /\ at[r] # "idle" /\ report[r] \in Records
    BY <1>2 DEF TestPresent, TypeOK
  <2>2. present' \in [Targets -> BOOLEAN] /\ spent' \in [Targets -> BOOLEAN]
    BY <1>2 DEF TestPresent, TypeOK
  <2>. QED BY <1>2, <2>1, <2>2, BecomesType DEF TestPresent, TypeOK
<1>3. ASSUME at[r] \notin {"idle", "test"}
      PROVE  subject[r] \in Targets /\ report[r] \in Records
  BY <1>3 DEF TypeOK
<1>4. CASE WriteX(r)
  <2>1. Becomes(r, "y") /\ at[r] # "idle" /\ report[r] \in Records
    BY <1>3, <1>4 DEF WriteX
  <2>2. fov_x' \in [Targets -> Records \union {NoRecord}]
    BY <1>4, <2>1 DEF WriteX, TypeOK
  <2>. QED BY <1>4, <2>1, <2>2, BecomesType DEF WriteX, TypeOK
<1>5. CASE WriteY(r)
  <2>1. Becomes(r, "theta") /\ at[r] # "idle" /\ report[r] \in Records
    BY <1>3, <1>5 DEF WriteY
  <2>2. fov_y' \in [Targets -> Records \union {NoRecord}]
    BY <1>5, <2>1 DEF WriteY, TypeOK
  <2>. QED BY <1>5, <2>1, <2>2, BecomesType DEF WriteY, TypeOK
<1>6. CASE WriteDegrees(r)
  <2>1. Becomes(r, "radians") /\ at[r] # "idle" /\ report[r] \in Records
    BY <1>3, <1>6 DEF WriteDegrees
  <2>2. fov_theta' \in [Targets -> Angles]
    BY <1>6, <2>1 DEF WriteDegrees, TypeOK, Angles
  <2>. QED BY <1>6, <2>1, <2>2, BecomesType DEF WriteDegrees, TypeOK
<1>7. CASE WriteRadians(r)
  <2>1. Becomes(r, "match") /\ at[r] # "idle" /\ report[r] \in Records
    BY <1>3, <1>7 DEF WriteRadians
  <2>2. fov_theta' \in [Targets -> Angles]
    BY <1>7, <2>1 DEF WriteRadians, TypeOK, Angles
  <2>. QED BY <1>7, <2>1, <2>2, BecomesType DEF WriteRadians, TypeOK
<1>8. CASE WriteMatch(r)
  <2>1. Becomes(r, "idle") /\ at[r] # "idle" /\ report[r] \in Records
    BY <1>3, <1>8 DEF WriteMatch
  <2>2. /\ fov_match' \in [Targets -> Records \union {NoRecord}]
        /\ last' \in [Targets -> Records \union {NoRecord}]
    BY <1>8, <2>1 DEF WriteMatch, TypeOK
  <2>. QED BY <1>8, <2>1, <2>2, BecomesType DEF WriteMatch, TypeOK
<1>. QED
  BY <1>1, <1>2, <1>4, <1>5, <1>6, <1>7, <1>8 DEF DataTest

LEMMA TypeEmit ==
  ASSUME TypeOK, NEW t \in Targets, Emit(t)
  PROVE  TypeOK'
<1>. DEFINE r == ReaderOf[t]
<1>1. r \in Readers
  BY ReaderAssumption
<1>2. /\ at' = [at EXCEPT ![r] = "test"]
      /\ subject' = [subject EXCEPT ![r] = t]
      /\ \E rec \in Records \union {None} : report' = [report EXCEPT ![r] = rec]
  BY DEF Emit
<1>3. /\ at' \in [Readers -> {"idle", "test", "x", "y", "theta", "radians",
                              "match"}]
      /\ subject' \in [Readers -> Targets \union {None}]
      /\ report' \in [Readers -> Records \union {None}]
      /\ \A s \in Readers :
           /\ at'[s] # "idle" =>
                subject'[s] \in Targets /\ ReaderOf[subject'[s]] = s
           /\ at'[s] \notin {"idle", "test"} => report'[s] \in Records
  <2>1. /\ at' \in [Readers -> {"idle", "test", "x", "y", "theta", "radians",
                                "match"}]
        /\ subject' \in [Readers -> Targets \union {None}]
        /\ report' \in [Readers -> Records \union {None}]
    BY <1>1, <1>2 DEF TypeOK
  <2>2. at'[r] = "test" /\ subject'[r] = t
    BY <1>1, <1>2 DEF TypeOK
  <2>3. ASSUME NEW s \in Readers, s # r
        PROVE  at'[s] = at[s] /\ subject'[s] = subject[s] /\ report'[s] = report[s]
    BY <1>2, <2>3 DEF TypeOK
  <2>4. ASSUME NEW s \in Readers
        PROVE  /\ at'[s] # "idle" =>
                    subject'[s] \in Targets /\ ReaderOf[subject'[s]] = s
               /\ at'[s] \notin {"idle", "test"} => report'[s] \in Records
    <3>1. CASE s = r
      BY <2>2, <3>1
    <3>2. CASE s # r
      BY <2>3, <3>2 DEF TypeOK
    <3>. QED BY <3>1, <3>2
  <2>. QED BY <2>1, <2>4
<1>4. /\ UNCHANGED <<present, fov_x, fov_y, fov_theta, fov_match, mode, pc, j,
                     best, percent_match, x_hat, y_hat, theta, match, spent, last,
                     before>>
      /\ quiet' = FALSE
  BY DEF Emit, target, main, result
<1>. QED BY <1>3, <1>4 DEF TypeOK

\* The functions of the main thread start with their locals cleared.
LEMMA EnterType ==
  ASSUME TypeOK, NEW m \in {"once", "any", "pattern", "arm", "clear"},
         NEW label \in {"look", "x", "clear"}, NEW t \in Targets \union {None},
         label = "x" \/ m = "pattern" => t # None,
         Enter(m, label, t)
  PROVE  TypeOK'
<1>1. 1 \in 1..Len(Order)
  BY OrderLength
<1>. QED BY <1>1 DEF Enter, TypeOK, target, reader, Angles, NoRecord

LEMMA TypeBegin ==
  ASSUME TypeOK, Begin
  PROVE  TypeOK'
<1>1. CASE BestMatch
  BY <1>1, EnterType DEF BestMatch
<1>2. CASE WaitAny
  BY <1>2, EnterType DEF WaitAny
<1>3. CASE ClearTargets
  BY <1>3, EnterType DEF ClearTargets
<1>4. ASSUME NEW t \in Targets, WaitFor(t) \/ ToArm(t) PROVE TypeOK'
  <2>1. t # None
    BY OrderAssumption
  <2>2. CASE WaitFor(t)
    BY <2>1, <2>2, EnterType DEF WaitFor
  <2>3. CASE ToArm(t)
    BY <2>1, <2>3, EnterType DEF ToArm
  <2>. QED BY <1>4, <2>2, <2>3
<1>. QED BY <1>1, <1>2, <1>3, <1>4 DEF Begin

LEMMA TypeMain ==
  ASSUME TypeOK, Main
  PROVE  TypeOK'
<1>. USE DEF target, reader, result, main, history
<1>0. /\ Subject \in Targets /\ Subject # None
      /\ best \in Targets \union {None} /\ j \in 1..Len(Order)
  BY SubjectIsTarget, OrderAssumption DEF TypeOK
<1>1. CASE Look
  <2>1. CASE present[Subject]
    BY <1>1, <2>1 DEF Look, TypeOK
  <2>2. CASE ~present[Subject]
    <3>1. Advance(best)
      BY <1>1, <2>2 DEF Look
    <3>2. pc' \in {"look", "x", "done"} /\ j' \in 1..Len(Order)
          /\ (pc' = "x" => best # None)
      BY <1>0, <3>1, AdvanceType
    <3>. QED BY <1>1, <3>2 DEF Look, TypeOK
  <2>. QED BY <2>1, <2>2
<1>2. CASE Consume
  BY <1>0, <1>2 DEF Consume, TypeOK
<1>3. MatchOf[fov_match[Subject]] \in Nat
  BY <1>0, MatchAssumption DEF TypeOK
<1>4. CASE Compare
  <2>1. CASE pc' = "record" /\ UNCHANGED <<j, best, percent_match>>
    BY <1>4, <2>1 DEF Compare, TypeOK
  <2>2. CASE /\ percent_match' = MatchOf[fov_match[Subject]]
             /\ best' = Subject
             /\ Advance(Subject)
    <3>1. pc' \in {"look", "x", "done"} /\ j' \in 1..Len(Order)
      BY <1>0, <2>2, AdvanceType
    <3>. QED BY <1>0, <1>3, <1>4, <2>2, <3>1 DEF Compare, TypeOK
  <2>3. CASE Advance(best) /\ UNCHANGED <<best, percent_match>>
    <3>1. pc' \in {"look", "x", "done"} /\ j' \in 1..Len(Order)
          /\ (pc' = "x" => best # None)
      BY <1>0, <2>3, AdvanceType
    <3>. QED BY <1>4, <2>3, <3>1 DEF Compare, TypeOK
  <2>. QED BY <1>4, <2>1, <2>2, <2>3 DEF Compare
<1>5. CASE Record
  <2>1. Advance(Subject) /\ best' = Subject
    BY <1>5 DEF Record
  <2>2. pc' \in {"look", "x", "done"} /\ j' \in 1..Len(Order)
    BY <1>0, <2>1, AdvanceType
  <2>. QED BY <1>0, <1>3, <1>5, <2>1, <2>2 DEF Record, TypeOK
<1>6. CASE ReadX
  BY <1>6 DEF ReadX, TypeOK
<1>7. CASE ReadY
  BY <1>7 DEF ReadY, TypeOK
<1>8. CASE LoopOn
  BY <1>8 DEF LoopOn, TypeOK
<1>9. CASE ReadTheta
  BY <1>9 DEF ReadTheta, TypeOK
<1>10. CASE ReadMatch
  BY <1>10 DEF ReadMatch, TypeOK
<1>11. CASE Clear
  <2>1. pc' \in {"done", "clear"} /\ j' \in 1..Len(Order)
    BY <1>0, <1>11, OrderLength DEF Clear, LastOne
  <2>. QED BY <1>11, <2>1 DEF Clear, TypeOK
<1>12. CASE Leave
  BY <1>12 DEF Leave, TypeOK, Angles, NoRecord
<1>. QED
  BY <1>1, <1>2, <1>4, <1>5, <1>6, <1>7, <1>8, <1>9, <1>10, <1>11, <1>12
     DEF Main

LEMMA TypeNext == TypeOK /\ [Next]_vars => TypeOK'
<1>. SUFFICES ASSUME TypeOK, [Next]_vars PROVE TypeOK'
  OBVIOUS
<1>1. CASE UNCHANGED vars
  BY <1>1 DEF TypeOK, vars, target, reader, main, result, history
<1>. QED BY <1>1, TypeBegin, TypeMain, TypeEmit, TypeReader DEF Next

\* Every shared member and every local keeps its type; no thread is lost in a
\* report, and no target is used that was not found.
THEOREM TypeCorrect == Spec => []TypeOK
  BY TypeInit, TypeNext, PTL DEF Spec

-----------------------------------------------------------------------------
(* One acquisition per report *)

\* A thread can set a flag only with a report of its own, which has not been
\* acquired; the main thread clears the flag of what it acquires.
LEMMA AcquiredNext ==
  TypeOK /\ AcquiredOnce /\ [Next]_vars => AcquiredOnce'
<1>. SUFFICES ASSUME TypeOK, AcquiredOnce, [Next]_vars PROVE AcquiredOnce'
  OBVIOUS
<1>. USE DEF AcquiredOnce, target, reader, result, main, history
<1>1. Subject \in Targets
  BY SubjectIsTarget
<1>2. ASSUME UNCHANGED <<mode, best, j>>
      PROVE  Subject' = Subject
  BY <1>2 DEF Subject
<1>3. CASE UNCHANGED vars
  BY <1>2, <1>3 DEF vars
<1>4. CASE Begin
  BY <1>4 DEF Begin, BestMatch, WaitAny, WaitFor, ToArm, ClearTargets, Enter
<1>5. CASE Main
  <2>1. CASE Look
    <3>1. CASE present[Subject]
      <4>1. UNCHANGED <<mode, best, j>> /\ UNCHANGED <<present, spent>>
        BY <2>1, <3>1 DEF Look
      <4>. QED BY <1>1, <1>2, <3>1, <4>1
    <3>2. CASE ~present[Subject]
      BY <2>1, <3>2 DEF Look, Advance
    <3>. QED BY <3>1, <3>2
  <2>2. CASE Consume
    <3>1. /\ present' = [present EXCEPT ![Subject] = FALSE]
          /\ spent' = [spent EXCEPT ![Subject] = TRUE]
          /\ pc' # "consume"
      BY <2>2 DEF Consume
    <3>. QED BY <1>1, <3>1 DEF TypeOK
  <2>3. CASE Compare
    BY <2>3 DEF Compare, Advance
  <2>4. CASE Record
    BY <2>4 DEF Record, Advance
  <2>5. CASE ReadX \/ ReadY \/ LoopOn \/ ReadTheta \/ ReadMatch \/ Leave
    BY <2>5 DEF ReadX, ReadY, LoopOn, ReadTheta, ReadMatch, Leave
  <2>6. CASE Clear
    <3>1. /\ present' = [present EXCEPT ![Order[j]] = FALSE]
          /\ spent' = spent /\ pc' # "consume"
      BY <2>6 DEF Clear
    <3>. QED BY <3>1 DEF TypeOK
  <2>. QED BY <1>5, <2>1, <2>2, <2>3, <2>4, <2>5, <2>6 DEF Main
<1>6. ASSUME NEW t \in Targets, Emit(t) PROVE AcquiredOnce'
  BY <1>2, <1>6 DEF Emit
<1>7. ASSUME NEW r \in Readers, DataTest(r) PROVE AcquiredOnce'
  <2>1. UNCHANGED <<mode, best, j, pc>>
    BY <1>7 DEF DataTest, TestAbsent, TestPresent, WriteX, WriteY,
                WriteDegrees, WriteRadians, WriteMatch
  <2>2. Subject' = Subject
    BY <1>2, <2>1
  <2>3. CASE TestAbsent(r)
    <3>1. present' = [present EXCEPT ![subject[r]] = FALSE] /\ spent' = spent
      BY <2>3 DEF TestAbsent
    <3>. QED BY <1>1, <2>1, <2>2, <3>1 DEF TypeOK
  <2>4. CASE TestPresent(r)
    <3>1. /\ present' = [present EXCEPT ![subject[r]] = TRUE]
          /\ spent' = [spent EXCEPT ![subject[r]] = FALSE]
      BY <2>4 DEF TestPresent
    <3>2. \A t \in Targets : present'[t] => ~spent'[t]
      BY <3>1 DEF TypeOK
    <3>3. pc = "consume" => ~spent'[Subject]
      BY <1>1, <3>1 DEF TypeOK
    <3>. QED BY <2>1, <2>2, <3>2, <3>3
  <2>5. CASE \/ WriteX(r) \/ WriteY(r) \/ WriteDegrees(r)
             \/ WriteRadians(r) \/ WriteMatch(r)
    BY <2>1, <2>2, <2>5
       DEF WriteX, WriteY, WriteDegrees, WriteRadians, WriteMatch
  <2>. QED BY <1>7, <2>3, <2>4, <2>5 DEF DataTest
<1>. QED BY <1>3, <1>4, <1>5, <1>6, <1>7 DEF Next

\* acquired_target acquires each report at most once, for any number of sensor
\* threads and in any interleaving with its test and its assignment.
THEOREM ReportsAcquiredOnce == Spec => []AcquiredOnce
<1>1. Init => AcquiredOnce
  BY DEF Init, AcquiredOnce
<1>. QED BY <1>1, TypeInit, TypeNext, AcquiredNext, PTL DEF Spec

-----------------------------------------------------------------------------
(* Whole records between reports *)

Whole(t) ==
  /\ fov_x[t] = last[t] /\ fov_y[t] = last[t] /\ fov_match[t] = last[t]
  /\ fov_theta[t] = [rec |-> last[t], unit |-> "radians"]

\* How far a thread has come with the record it writes.
Written(r) ==
  LET t == subject[r]
  IN /\ at[r] \in {"test", "x"} => Whole(t)
     /\ at[r] \in {"y", "theta", "radians", "match"} => fov_x[t] = report[r]
     /\ at[r] \in {"theta", "radians", "match"} => fov_y[t] = report[r]
     /\ at[r] = "match" =>
          fov_theta[t] = [rec |-> report[r], unit |-> "radians"]

\* A target that its thread is not writing is whole; one that it is writing is
\* as far as the thread has come.  A target has one thread, so no two threads
\* write the same.
HandoffInv ==
  /\ TypeOK
  /\ WholeBetweenReports
  /\ \A r \in Readers : Written(r) /\ (at[r] = "idle" => subject[r] = None)

LEMMA HandoffInit == Init => HandoffInv
<1>. SUFFICES ASSUME Init PROVE HandoffInv
  OBVIOUS
<1>1. WholeBetweenReports
  BY DEF Init, WholeBetweenReports
<1>2. \A r \in Readers : Written(r) /\ (at[r] = "idle" => subject[r] = None)
  BY DEF Init, Written
<1>. QED BY <1>1, <1>2, TypeInit DEF HandoffInv

\* The steps that leave the measurements and the threads alone.
LEMMA HandoffStutter ==
  ASSUME HandoffInv, TypeOK',
         UNCHANGED <<fov_x, fov_y, fov_theta, fov_match, last, reader>>
  PROVE  HandoffInv'
BY DEF HandoffInv, WholeBetweenReports, Written, Whole, reader

LEMMA HandoffEmit ==
  ASSUME HandoffInv, TypeOK', NEW t \in Targets, Emit(t)
  PROVE  HandoffInv'
<1>. DEFINE r == ReaderOf[t]
<1>1. /\ r \in Readers /\ at[r] = "idle" /\ subject[r] = None /\ t # None
  BY ReaderAssumption, OrderAssumption DEF Emit, HandoffInv
<1>2. /\ at' = [at EXCEPT ![r] = "test"]
      /\ subject' = [subject EXCEPT ![r] = t]
      /\ \A s \in Readers \ {r} : report'[s] = report[s]
      /\ UNCHANGED <<fov_x, fov_y, fov_theta, fov_match, last>>
  BY DEF Emit, target, HandoffInv, TypeOK
<1>3. Whole(t)
  BY <1>1 DEF HandoffInv, WholeBetweenReports, Whole
<1>4. WholeBetweenReports'
  <2>. SUFFICES ASSUME NEW u \in Targets, subject'[ReaderOf[u]] # u
                PROVE  Whole(u)'
    BY DEF WholeBetweenReports, Whole
  <2>1. ReaderOf[u] \in Readers /\ u # None
    BY ReaderAssumption, OrderAssumption
  <2>2. subject[ReaderOf[u]] # u
    BY <1>1, <1>2, <2>1 DEF HandoffInv, TypeOK
  <2>. QED BY <1>2, <2>2 DEF HandoffInv, WholeBetweenReports, Whole
<1>5. ASSUME NEW s \in Readers
      PROVE  Written(s)' /\ (at'[s] = "idle" => subject'[s] = None)
  <2>1. CASE s = r
    BY <1>1, <1>2, <1>3, <2>1 DEF HandoffInv, TypeOK, Written, Whole
  <2>2. CASE s # r
    BY <1>1, <1>2, <2>2 DEF HandoffInv, TypeOK, Written, Whole
  <2>. QED BY <2>1, <2>2
<1>. QED BY <1>4, <1>5 DEF HandoffInv

\* A thread writes one measurement of its own target: the others stay as they
\* are, and so do the threads that write them.
LEMMA HandoffWrite ==
  ASSUME HandoffInv, TypeOK', NEW r \in Readers, at[r] # "idle",
         NEW label \in {"idle", "x", "y", "theta", "radians", "match"},
         Becomes(r, label),
         \A u \in Targets \ {subject[r]} :
           /\ fov_x'[u] = fov_x[u] /\ fov_y'[u] = fov_y[u]
           /\ fov_theta'[u] = fov_theta[u] /\ fov_match'[u] = fov_match[u]
           /\ last'[u] = last[u],
         label = "idle" =>
           \A u \in Targets : u = subject[r] => Whole(u)',
         label # "idle" => Written(r)'
  PROVE  HandoffInv'
<1>. DEFINE t == subject[r]
<1>1. t \in Targets /\ ReaderOf[t] = r /\ t # None
  BY OrderAssumption DEF HandoffInv, TypeOK
<1>2. /\ at'[r] = label
      /\ \A s \in Readers \ {r} :
           at'[s] = at[s] /\ subject'[s] = subject[s] /\ report'[s] = report[s]
      /\ subject'[r] = IF label = "idle" THEN None ELSE t
  BY DEF Becomes, HandoffInv, TypeOK
<1>3. WholeBetweenReports'
  <2>. SUFFICES ASSUME NEW u \in Targets, subject'[ReaderOf[u]] # u
                PROVE  Whole(u)'
    BY DEF WholeBetweenReports, Whole
  <2>1. CASE u = t
    BY <1>1, <1>2, <2>1
  <2>2. CASE u # t
    <3>1. ReaderOf[u] \in Readers
      BY ReaderAssumption
    <3>2. subject[ReaderOf[u]] # u
      BY <1>1, <1>2, <2>2, <3>1
    <3>3. Whole(u)
      BY <3>2 DEF HandoffInv, WholeBetweenReports, Whole
    <3>. QED BY <2>2, <3>3 DEF Whole
  <2>. QED BY <2>1, <2>2
<1>4. ASSUME NEW s \in Readers
      PROVE  Written(s)' /\ (at'[s] = "idle" => subject'[s] = None)
  <2>1. CASE s = r
    BY <1>2, <2>1 DEF Written
  <2>2. CASE s # r
    <3>1. at[s] # "idle" => subject[s] \in Targets \ {t}
      BY <1>1, <2>2 DEF HandoffInv, TypeOK
    <3>2. Written(s) /\ (at[s] = "idle" => subject[s] = None)
      BY DEF HandoffInv
    <3>. QED BY <1>2, <2>2, <3>1, <3>2 DEF Written, Whole
  <2>. QED BY <2>1, <2>2
<1>. QED BY <1>3, <1>4 DEF HandoffInv

LEMMA HandoffReader ==
  ASSUME HandoffInv, TypeOK', NEW r \in Readers, DataTest(r)
  PROVE  HandoffInv'
<1>. USE DEF main, result, history
<1>0. at[r] # "idle" =>
        /\ subject[r] \in Targets /\ subject[r] # None
        /\ Written(r)
  BY OrderAssumption DEF HandoffInv, TypeOK
<1>1. CASE TestAbsent(r)
  <2>1. /\ at[r] = "test" /\ Becomes(r, "idle")
        /\ UNCHANGED <<fov_x, fov_y, fov_theta, fov_match, last>>
    BY <1>1 DEF TestAbsent
  <2>2. \A u \in Targets : u = subject[r] => Whole(u)'
    BY <1>0, <2>1 DEF Written, Whole
  <2>. QED BY <2>1, <2>2, HandoffWrite
<1>2. CASE TestPresent(r)
  <2>1. /\ at[r] = "test" /\ Becomes(r, "x")
        /\ UNCHANGED <<fov_x, fov_y, fov_theta, fov_match, last>>
    BY <1>2 DEF TestPresent
  <2>2. at'[r] = "x" /\ subject' = subject
    BY <2>1 DEF Becomes, HandoffInv, TypeOK
  <2>3. Written(r)'
    BY <1>0, <2>1, <2>2 DEF Written, Whole
  <2>. QED BY <2>1, <2>3, HandoffWrite
<1>3. CASE WriteX(r)
  <2>1. /\ at[r] = "x" /\ Becomes(r, "y")
        /\ fov_x' = [fov_x EXCEPT ![subject[r]] = report[r]]
        /\ UNCHANGED <<fov_y, fov_theta, fov_match, last>>
    BY <1>3 DEF WriteX
  <2>2. at'[r] = "y" /\ subject' = subject /\ report' = report
    BY <2>1 DEF Becomes, HandoffInv, TypeOK
  <2>3. fov_x'[subject[r]] = report[r]
        /\ \A u \in Targets \ {subject[r]} : fov_x'[u] = fov_x[u]
    BY <1>0, <2>1 DEF HandoffInv, TypeOK
  <2>4. Written(r)'
    BY <2>2, <2>3 DEF Written
  <2>. QED BY <2>1, <2>3, <2>4, HandoffWrite
<1>4. CASE WriteY(r)
  <2>1. /\ at[r] = "y" /\ Becomes(r, "theta")
        /\ fov_y' = [fov_y EXCEPT ![subject[r]] = report[r]]
        /\ UNCHANGED <<fov_x, fov_theta, fov_match, last>>
    BY <1>4 DEF WriteY
  <2>2. at'[r] = "theta" /\ subject' = subject /\ report' = report
    BY <2>1 DEF Becomes, HandoffInv, TypeOK
  <2>3. fov_y'[subject[r]] = report[r]
        /\ \A u \in Targets \ {subject[r]} : fov_y'[u] = fov_y[u]
    BY <1>0, <2>1 DEF HandoffInv, TypeOK
  <2>4. Written(r)'
    BY <1>0, <2>1, <2>2, <2>3 DEF Written
  <2>. QED BY <2>1, <2>3, <2>4, HandoffWrite
<1>5. CASE WriteDegrees(r)
  <2>1. /\ at[r] = "theta" /\ Becomes(r, "radians")
        /\ fov_theta' = [fov_theta EXCEPT ![subject[r]] =
                           [rec |-> report[r], unit |-> "degrees"]]
        /\ UNCHANGED <<fov_x, fov_y, fov_match, last>>
    BY <1>5 DEF WriteDegrees
  <2>2. at'[r] = "radians" /\ subject' = subject /\ report' = report
    BY <2>1 DEF Becomes, HandoffInv, TypeOK
  <2>3. \A u \in Targets \ {subject[r]} : fov_theta'[u] = fov_theta[u]
    BY <1>0, <2>1 DEF HandoffInv, TypeOK
  <2>4. Written(r)'
    BY <1>0, <2>1, <2>2 DEF Written
  <2>. QED BY <2>1, <2>3, <2>4, HandoffWrite
<1>6. CASE WriteRadians(r)
  <2>1. /\ at[r] \in {"theta", "radians"} /\ Becomes(r, "match")
        /\ fov_theta' = [fov_theta EXCEPT ![subject[r]] =
                           [rec |-> report[r], unit |-> "radians"]]
        /\ UNCHANGED <<fov_x, fov_y, fov_match, last>>
    BY <1>6 DEF WriteRadians
  <2>2. at'[r] = "match" /\ subject' = subject /\ report' = report
    BY <2>1 DEF Becomes, HandoffInv, TypeOK
  <2>3. /\ fov_theta'[subject[r]] = [rec |-> report[r], unit |-> "radians"]
        /\ \A u \in Targets \ {subject[r]} : fov_theta'[u] = fov_theta[u]
    BY <1>0, <2>1 DEF HandoffInv, TypeOK
  <2>4. Written(r)'
    BY <1>0, <2>1, <2>2, <2>3 DEF Written
  <2>. QED BY <2>1, <2>3, <2>4, HandoffWrite
<1>7. CASE WriteMatch(r)
  <2>1. /\ at[r] = "match" /\ Becomes(r, "idle")
        /\ fov_match' = [fov_match EXCEPT ![subject[r]] = report[r]]
        /\ last' = [last EXCEPT ![subject[r]] = report[r]]
        /\ UNCHANGED <<fov_x, fov_y, fov_theta>>
    BY <1>7 DEF WriteMatch
  <2>2. /\ fov_match'[subject[r]] = report[r]
        /\ last'[subject[r]] = report[r]
        /\ \A u \in Targets \ {subject[r]} :
             fov_match'[u] = fov_match[u] /\ last'[u] = last[u]
    BY <1>0, <2>1 DEF HandoffInv, TypeOK
  <2>3. \A u \in Targets : u = subject[r] => Whole(u)'
    BY <1>0, <2>1, <2>2 DEF Written, Whole
  <2>. QED BY <2>1, <2>2, <2>3, HandoffWrite
<1>. QED
  BY <1>1, <1>2, <1>3, <1>4, <1>5, <1>6, <1>7 DEF DataTest

LEMMA HandoffNext == HandoffInv /\ [Next]_vars => HandoffInv'
<1>. SUFFICES ASSUME HandoffInv, [Next]_vars PROVE HandoffInv'
  OBVIOUS
<1>0. TypeOK'
  BY TypeNext DEF HandoffInv
<1>1. CASE UNCHANGED vars
  BY <1>0, <1>1, HandoffStutter DEF vars, target, history
<1>2. CASE Begin
  BY <1>0, <1>2, HandoffStutter
     DEF Begin, BestMatch, WaitAny, WaitFor, ToArm, ClearTargets, Enter, target
<1>3. CASE Main
  <2>1. UNCHANGED <<fov_x, fov_y, fov_theta, fov_match, last, reader>>
    BY <1>3 DEF Main, Look, Consume, Compare, Record, ReadX, ReadY, LoopOn,
                ReadTheta, ReadMatch, Clear, Leave, target, history
  <2>. QED BY <1>0, <2>1, HandoffStutter
<1>. QED
  BY <1>0, <1>1, <1>2, <1>3, HandoffEmit, HandoffReader DEF Next

\* Whatever the threads do at the same time, a target that no report is being
\* written into holds the whole of its last report, its angle in radians.
THEOREM RecordsWhole == Spec => []WholeBetweenReports
<1>1. HandoffInv => WholeBetweenReports
  BY DEF HandoffInv
<1>. QED BY <1>1, HandoffInit, HandoffNext, PTL DEF Spec

-----------------------------------------------------------------------------
(* The best of the moment: a pass that no report interferes with.            *)
(*                                                                           *)
(* What is left to look at is as it was when the pass began, what has been   *)
(* looked at is not present any more, and best is the best of it.            *)

Percent(i) == MatchOf[fov_match[Order[i]]]

\* The places, up to the n-th, of the targets that were there with a match.
SeenUpTo(n) == {i \in 1..n : before[Order[i]] /\ Percent(i) > 0}

BestUpTo(n) ==
  /\ best = None => percent_match = 0 /\ SeenUpTo(n) = {}
  /\ best # None =>
       \E i \in SeenUpTo(n) :
         /\ best = Order[i] /\ percent_match = Percent(i)
         /\ \A k \in SeenUpTo(n) :
              Percent(k) < Percent(i) \/ (Percent(k) = Percent(i) /\ k >= i)

InLoop == pc \in {"look", "consume", "compare", "record"}

\* How many targets are done with, and which of them may still be present.
Passed == IF InLoop THEN j - 1 ELSE Len(Order)
Unseen ==
  CASE pc \in {"look", "consume"} -> j..Len(Order)
    [] pc \in {"compare", "record"} -> j + 1..Len(Order)
    [] OTHER -> {}

PassInv ==
  mode = "once" /\ quiet =>
    /\ InLoop \/ pc \in {"x", "y", "done"}
    /\ \A i \in 1..Len(Order) :
         present[Order[i]] <=>
           before[Order[i]] /\ \A k \in 1..Len(Order) : Order[k] = Order[i] => k \in Unseen
    /\ BestUpTo(Passed)
    /\ pc \in {"consume", "compare", "record"} => before[Order[j]]
    /\ pc = "record" => Percent(j) > percent_match
    /\ pc \in {"y", "done"} /\ best # None => x_hat = fov_x[best]
    /\ pc = "done" /\ best # None => y_hat = fov_y[best]

\* No thread is in data_test while a pass is quiet.
QuietInv == quiet => \A r \in Readers : at[r] = "idle"

\* A target that is no better does not count.
LEMMA BestSkipped ==
  ASSUME TypeOK, NEW n \in 1..Len(Order), BestUpTo(n - 1),
         ~before[Order[n]] \/ Percent(n) <= percent_match
  PROVE  BestUpTo(n)
<1>1. Len(Order) \in Nat /\ \A i \in 1..Len(Order) : Percent(i) \in Nat
  BY OrderLength, OrderElement, MatchAssumption DEF TypeOK, Percent
<1>2. \A k \in 1..n : k \in 1..n - 1 \/ k = n
  BY <1>1
<1>3. 1..n - 1 \subseteq 1..n /\ n - 1 \in Nat
  BY <1>1
<1>4. CASE best = None
  <2>1. percent_match = 0 /\ SeenUpTo(n - 1) = {}
    BY <1>4 DEF BestUpTo
  <2>2. n \notin SeenUpTo(n)
    BY <1>1, <2>1 DEF SeenUpTo
  <2>3. SeenUpTo(n) = {}
    BY <1>2, <2>1, <2>2 DEF SeenUpTo
  <2>. QED BY <1>4, <2>1, <2>3 DEF BestUpTo
<1>5. CASE best # None
  <2>1. PICK i \in SeenUpTo(n - 1) :
          /\ best = Order[i] /\ percent_match = Percent(i)
          /\ \A k \in SeenUpTo(n - 1) :
               Percent(k) < Percent(i) \/ (Percent(k) = Percent(i) /\ k >= i)
    BY <1>5 DEF BestUpTo
  <2>2. i \in SeenUpTo(n) /\ i < n /\ i \in 1..Len(Order)
    BY <1>1, <1>3, <2>1 DEF SeenUpTo
  <2>3. ASSUME NEW k \in SeenUpTo(n)
        PROVE  Percent(k) < Percent(i) \/ (Percent(k) = Percent(i) /\ k >= i)
    <3>1. CASE k \in 1..n - 1
      BY <2>1, <2>3, <3>1 DEF SeenUpTo
    <3>2. CASE k = n
      <4>1. Percent(n) <= Percent(i) /\ n >= i
        BY <1>1, <2>1, <2>2, <2>3, <3>2 DEF SeenUpTo
      <4>. QED BY <1>1, <2>2, <3>2, <4>1
    <3>. QED BY <1>2, <2>3, <3>1, <3>2 DEF SeenUpTo
  <2>. QED BY <1>5, <2>1, <2>2, <2>3 DEF BestUpTo
<1>. QED BY <1>4, <1>5

\* One that is better takes the place of those before it.
LEMMA BestTaken ==
  ASSUME TypeOK, NEW n \in 1..Len(Order), BestUpTo(n - 1),
         before[Order[n]], Percent(n) > percent_match,
         best' = Order[n], percent_match' = Percent(n),
         UNCHANGED <<before, fov_match>>
  PROVE  BestUpTo(n)'
<1>1. Len(Order) \in Nat /\ \A i \in 1..Len(Order) : Percent(i) \in Nat
  BY OrderLength, OrderElement, MatchAssumption DEF TypeOK, Percent
<1>2. \A k \in 1..n : k \in 1..n - 1 \/ k = n
  BY <1>1
<1>3. percent_match \in Nat /\ Percent(n) > 0
  BY <1>1 DEF TypeOK
<1>4. n \in SeenUpTo(n)
  BY <1>1, <1>3 DEF SeenUpTo
<1>5. ASSUME NEW k \in SeenUpTo(n)
      PROVE  Percent(k) < Percent(n) \/ (Percent(k) = Percent(n) /\ k >= n)
  <2>1. CASE k = n
    BY <1>1, <2>1
  <2>2. CASE k \in 1..n - 1
    <3>1. k \in SeenUpTo(n - 1) /\ k \in 1..Len(Order)
      BY <1>1, <1>5, <2>2 DEF SeenUpTo
    <3>2. best # None
      BY <3>1 DEF BestUpTo
    <3>3. PICK i \in SeenUpTo(n - 1) :
            /\ percent_match = Percent(i)
            /\ Percent(k) < Percent(i) \/ (Percent(k) = Percent(i) /\ k >= i)
      BY <3>1, <3>2 DEF BestUpTo
    <3>4. i \in 1..Len(Order)
      BY <1>1, <3>3 DEF SeenUpTo
    <3>. QED BY <1>1, <3>1, <3>3, <3>4
  <2>. QED BY <1>2, <1>5, <2>1, <2>2 DEF SeenUpTo
<1>6. \A i : Percent(i)' = Percent(i)
  BY DEF Percent
<1>7. SeenUpTo(n)' = SeenUpTo(n)
  BY <1>6 DEF SeenUpTo
<1>8. Order[n] # None
  BY OrderElement, OrderAssumption
<1>. QED BY <1>4, <1>5, <1>6, <1>7, <1>8 DEF BestUpTo

\* One that is not there any more was there before, at an earlier place, or was
\* not there when the pass began.
LEMMA BestMissed ==
  ASSUME TypeOK, NEW n \in 1..Len(Order), BestUpTo(n - 1),
         before[Order[n]] => \E k \in 1..n - 1 : Order[k] = Order[n]
  PROVE  BestUpTo(n)
<1>1. Len(Order) \in Nat /\ \A i \in 1..Len(Order) : Percent(i) \in Nat
  BY OrderLength, OrderElement, MatchAssumption DEF TypeOK, Percent
<1>2. percent_match \in Nat
  BY DEF TypeOK
<1>3. ASSUME before[Order[n]] PROVE Percent(n) <= percent_match
  <2>1. PICK k \in 1..n - 1 : Order[k] = Order[n]
    BY <1>3
  <2>2. Percent(k) = Percent(n)
    BY <2>1 DEF Percent
  <2>3. CASE Percent(n) = 0
    BY <1>2, <2>3
  <2>4. CASE Percent(n) # 0
    <3>1. k \in SeenUpTo(n - 1)
      BY <1>1, <1>3, <2>1, <2>2, <2>4 DEF SeenUpTo
    <3>2. PICK i \in SeenUpTo(n - 1) :
            /\ percent_match = Percent(i)
            /\ Percent(k) < Percent(i) \/ (Percent(k) = Percent(i) /\ k >= i)
      BY <3>1 DEF BestUpTo
    <3>3. i \in 1..Len(Order)
      BY <1>1, <3>2 DEF SeenUpTo
    <3>. QED BY <1>1, <2>2, <3>2, <3>3
  <2>. QED BY <2>3, <2>4
<1>. QED BY <1>3, BestSkipped

\* The loop goes on with the next target or ends.
LEMMA AdvanceOnce ==
  ASSUME TypeOK, mode = "once", mode' = mode, NEW b, Advance(b),
         NEW n, n = j
  PROVE  /\ pc' \in {"look", "x", "done"} /\ (pc' = "done" => b = None)
         /\ Passed' = n /\ Unseen' = n + 1..Len(Order)
<1>1. n \in 1..Len(Order) /\ Len(Order) \in Nat
  BY OrderLength DEF TypeOK
<1>2. CASE ~LastOne
  <2>1. pc' = "look" /\ j' = n + 1
    BY <1>2 DEF Advance
  <2>. QED BY <1>1, <2>1 DEF Passed, Unseen, InLoop
<1>3. CASE LastOne
  <2>1. pc' \in {"x", "done"} /\ (pc' = "done" => b = None) /\ n = Len(Order)
    BY <1>3 DEF Advance, LastOne
  <2>2. n + 1..Len(Order) = {}
    BY <1>1, <2>1
  <2>. QED BY <2>1, <2>2 DEF Passed, Unseen, InLoop
<1>. QED BY <1>2, <1>3

\* What the invariant is about stays as it is.
LEMMA PassKept ==
  ASSUME PassInv, UNCHANGED <<target, before>>,
         mode' = "once" /\ quiet' =>
           /\ mode = "once" /\ quiet
           /\ UNCHANGED <<pc, j, best, percent_match, x_hat, y_hat>>
  PROVE  PassInv'
BY DEF PassInv, InLoop, Passed, Unseen, BestUpTo, SeenUpTo, Percent, target

LEMMA PassLook ==
  ASSUME TypeOK, PassInv, Look, mode = "once", quiet
  PROVE  PassInv'
<1>. USE DEF target, result, history
<1>1. PICK n \in 1..Len(Order) : n = j
  BY DEF TypeOK
<1>2. /\ pc = "look" /\ mode' = "once" /\ Subject = Order[n] /\ Len(Order) \in Nat
      /\ UNCHANGED <<target, before, best, percent_match>>
  BY <1>1, OrderLength DEF Look, Subject
<1>3. /\ BestUpTo(n - 1) /\ Unseen = n..Len(Order)
      /\ \A i \in 1..Len(Order) :
           present[Order[i]] <=>
             before[Order[i]] /\ \A k \in 1..Len(Order) : Order[k] = Order[i] => k \in n..Len(Order)
  BY <1>1, <1>2 DEF PassInv, Passed, InLoop, Unseen
<1>4. CASE present[Order[n]]
  <2>1. pc' = "consume" /\ j' = n
    BY <1>1, <1>2, <1>4 DEF Look
  <2>2. Passed' = n - 1 /\ Unseen' = n..Len(Order)
    BY <2>1 DEF Passed, InLoop, Unseen
  <2>3. BestUpTo(n - 1)'
    BY <1>2, <1>3 DEF BestUpTo, SeenUpTo, Percent
  <2>4. before[Order[n]]
    BY <1>3, <1>4
  <2>. QED BY <1>2, <1>3, <2>1, <2>2, <2>3, <2>4 DEF PassInv, InLoop
<1>5. CASE ~present[Order[n]]
  <2>1. Advance(best)
    BY <1>2, <1>5 DEF Look
  <2>2. /\ pc' \in {"look", "x", "done"} /\ (pc' = "done" => best = None)
        /\ Passed' = n /\ Unseen' = n + 1..Len(Order)
    BY <1>1, <1>2, <2>1, AdvanceOnce
  <2>3. before[Order[n]] => \E k \in 1..n - 1 : Order[k] = Order[n]
    <3>1. \A k \in 1..Len(Order) : k \in n..Len(Order) \/ k \in 1..n - 1
      BY <1>2
    <3>. QED BY <1>3, <1>5, <3>1
  <2>4. BestUpTo(n)'
    <3>1. BestUpTo(n)
      BY <1>3, <2>3, BestMissed
    <3>. QED BY <1>2, <3>1 DEF BestUpTo, SeenUpTo, Percent
  <2>5. ASSUME NEW i \in 1..Len(Order)
        PROVE  present[Order[i]] <=>
                 before[Order[i]] /\ \A k \in 1..Len(Order) :
                                       Order[k] = Order[i] => k \in n + 1..Len(Order)
    <3>1. \A k \in n..Len(Order) : k = n \/ k \in n + 1..Len(Order)
      BY <1>2
    <3>2. \A k \in n + 1..Len(Order) : k \in n..Len(Order) /\ k # n
      BY <1>2
    <3>. QED BY <1>3, <1>5, <3>1, <3>2
  <2>. QED BY <1>2, <2>2, <2>4, <2>5 DEF PassInv, InLoop
<1>. QED BY <1>4, <1>5

LEMMA PassConsume ==
  ASSUME TypeOK, PassInv, Consume, mode = "once", quiet
  PROVE  PassInv'
<1>. USE DEF result
<1>1. PICK n \in 1..Len(Order) : n = j
  BY DEF TypeOK
<1>2. /\ pc = "consume" /\ mode' = "once" /\ Subject = Order[n] /\ pc' = "compare"
      /\ j' = n /\ Len(Order) \in Nat
      /\ present' = [present EXCEPT ![Order[n]] = FALSE]
      /\ UNCHANGED <<fov_match, before, best, percent_match>>
  BY <1>1, OrderLength DEF Consume, Subject
<1>3. /\ BestUpTo(n - 1) /\ before[Order[n]]
      /\ \A i \in 1..Len(Order) :
           present[Order[i]] <=>
             before[Order[i]] /\ \A k \in 1..Len(Order) : Order[k] = Order[i] => k \in n..Len(Order)
  BY <1>1, <1>2 DEF PassInv, Passed, InLoop, Unseen
<1>4. Passed' = n - 1 /\ Unseen' = n + 1..Len(Order)
  BY <1>2 DEF Passed, InLoop, Unseen
<1>5. BestUpTo(n - 1)'
  BY <1>2, <1>3 DEF BestUpTo, SeenUpTo, Percent
<1>6. ASSUME NEW i \in 1..Len(Order)
      PROVE  present'[Order[i]] <=>
               before[Order[i]] /\ \A k \in 1..Len(Order) :
                                     Order[k] = Order[i] => k \in n + 1..Len(Order)
  <2>1. \A k \in n..Len(Order) : k = n \/ k \in n + 1..Len(Order)
    BY <1>2
  <2>2. \A k \in n + 1..Len(Order) : k \in n..Len(Order) /\ k # n
    BY <1>2
  <2>3. CASE Order[i] = Order[n]
    <3>1. ~present'[Order[i]]
      BY <1>2, <2>3, OrderElement DEF TypeOK
    <3>. QED BY <2>2, <2>3, <3>1
  <2>4. CASE Order[i] # Order[n]
    <3>1. present'[Order[i]] = present[Order[i]]
      BY <1>2, <2>4, OrderElement DEF TypeOK
    <3>. QED BY <1>3, <2>1, <2>2, <2>4, <3>1
  <2>. QED BY <2>3, <2>4
<1>. QED BY <1>2, <1>3, <1>4, <1>5, <1>6 DEF PassInv, InLoop

\* The steps after which a target is done with keep the flags as they are.
LEMMA PassDone ==
  ASSUME TypeOK, PassInv, mode = "once", quiet, mode' = mode,
         pc \in {"compare", "record"}, NEW n \in 1..Len(Order), n = j,
         NEW b, Advance(b), best' = b, BestUpTo(n)',
         UNCHANGED <<target, before, quiet>>
  PROVE  PassInv'
<1>2. /\ pc' \in {"look", "x", "done"} /\ (pc' = "done" => b = None)
      /\ Passed' = n /\ Unseen' = n + 1..Len(Order)
  BY AdvanceOnce
<1>3. Unseen = n + 1..Len(Order)
  BY DEF Unseen
<1>4. \A i \in 1..Len(Order) :
        present[Order[i]] <=>
          before[Order[i]] /\ \A k \in 1..Len(Order) :
                                Order[k] = Order[i] => k \in n + 1..Len(Order)
  BY <1>3 DEF PassInv
<1>. QED BY <1>2, <1>4 DEF PassInv, InLoop, target

LEMMA PassCompare ==
  ASSUME TypeOK, PassInv, Compare, mode = "once", quiet
  PROVE  PassInv'
<1>. USE DEF history
<1>1. PICK n \in 1..Len(Order) : n = j
  BY DEF TypeOK
<1>2. /\ pc = "compare" /\ mode' = mode /\ Subject = Order[n]
      /\ UNCHANGED <<target, before, quiet>>
  BY <1>1 DEF Compare, Subject
<1>3. /\ BestUpTo(n - 1) /\ before[Order[n]]
      /\ Percent(n) = MatchOf[fov_match[Subject]]
  BY <1>1, <1>2 DEF PassInv, Passed, InLoop, Percent
<1>4. UNCHANGED <<before, fov_match>> /\ \A i : Percent(i)' = Percent(i)
  BY <1>2 DEF target, Percent
<1>5. CASE pc' = "record" /\ UNCHANGED <<j, best, percent_match>> /\ Better(Subject)
  <2>1. Percent(n) > percent_match
    BY <1>3, <1>5 DEF Better
  <2>2. Passed' = Passed /\ Unseen' = Unseen
    BY <1>2, <1>5 DEF Passed, InLoop, Unseen
  <2>3. BestUpTo(Passed)'
    BY <1>4, <1>5, <2>2 DEF PassInv, BestUpTo, SeenUpTo
  <2>4. \A i \in 1..Len(Order) :
          present'[Order[i]] <=>
            before'[Order[i]] /\ \A k \in 1..Len(Order) :
                                   Order[k] = Order[i] => k \in Unseen'
    BY <1>2, <2>2 DEF PassInv, target
  <2>. QED BY <1>1, <1>2, <1>3, <1>4, <1>5, <2>1, <2>3, <2>4 DEF PassInv, InLoop
<1>6. CASE /\ percent_match' = MatchOf[fov_match[Subject]] /\ best' = Subject
           /\ Advance(Subject) /\ Better(Subject)
  <2>1. Percent(n) > percent_match /\ best' = Order[n] /\ percent_match' = Percent(n)
    BY <1>2, <1>3, <1>6 DEF Better
  <2>2. BestUpTo(n)'
    BY <1>3, <1>4, <2>1, BestTaken
  <2>. QED BY <1>1, <1>2, <1>6, <2>2, PassDone
<1>7. CASE Advance(best) /\ UNCHANGED <<best, percent_match>> /\ ~Better(Subject)
  <2>1. Percent(n) <= percent_match
    BY <1>3, <1>7, OrderElement, MatchAssumption DEF Better, TypeOK, Percent
  <2>2. BestUpTo(n)
    BY <1>3, <2>1, BestSkipped
  <2>3. BestUpTo(n)'
    BY <1>4, <1>7, <2>2 DEF BestUpTo, SeenUpTo
  <2>. QED BY <1>1, <1>2, <1>7, <2>3, PassDone
<1>. QED BY <1>5, <1>6, <1>7 DEF Compare

LEMMA PassRecord ==
  ASSUME TypeOK, PassInv, Record, mode = "once", quiet
  PROVE  PassInv'
<1>. USE DEF history
<1>1. PICK n \in 1..Len(Order) : n = j
  BY DEF TypeOK
<1>2. /\ pc = "record" /\ mode' = mode /\ Subject = Order[n]
      /\ Advance(Subject) /\ best' = Subject
      /\ percent_match' = MatchOf[fov_match[Subject]]
      /\ UNCHANGED <<target, before, quiet>>
  BY <1>1 DEF Record, Subject
<1>3. /\ BestUpTo(n - 1) /\ before[Order[n]] /\ Percent(n) > percent_match
      /\ Percent(n) = MatchOf[fov_match[Subject]]
  BY <1>1, <1>2 DEF PassInv, Passed, InLoop, Percent
<1>4. BestUpTo(n)'
  BY <1>2, <1>3, BestTaken DEF target
<1>. QED BY <1>1, <1>2, <1>4, PassDone

\* After the loop the position of best is read.
LEMMA PassRead ==
  ASSUME TypeOK, PassInv, ReadX \/ ReadY, mode = "once", quiet
  PROVE  PassInv'
<1>. USE DEF history
<1>1. /\ mode' = mode /\ UNCHANGED <<target, before, quiet, best, percent_match>>
      /\ pc \in {"x", "y"} /\ pc' \in {"y", "done"}
  BY DEF ReadX, ReadY
<1>2. Passed' = Passed /\ Unseen' = Unseen
  BY <1>1 DEF Passed, InLoop, Unseen
<1>3. BestUpTo(Passed)'
  BY <1>1, <1>2 DEF PassInv, BestUpTo, SeenUpTo, Percent, target
<1>4. \A i \in 1..Len(Order) :
        present'[Order[i]] <=>
          before'[Order[i]] /\ \A k \in 1..Len(Order) :
                                 Order[k] = Order[i] => k \in Unseen'
  BY <1>1, <1>2 DEF PassInv, target
<1>5. best' # None => x_hat' = fov_x'[best']
  <2>1. CASE ReadX
    BY <1>1, <2>1 DEF ReadX, target
  <2>2. CASE ReadY
    BY <1>1, <2>2 DEF ReadY, PassInv, target
  <2>. QED BY <2>1, <2>2
<1>6. pc' = "done" /\ best' # None => y_hat' = fov_y'[best']
  BY <1>1 DEF ReadX, ReadY, target
<1>. QED BY <1>1, <1>3, <1>4, <1>5, <1>6 DEF PassInv, InLoop

LEMMA PassBegin ==
  ASSUME TypeOK, Begin
  PROVE  PassInv'
<1>1. CASE BestMatch
  <2>1. /\ pc' = "look" /\ j' = 1 /\ best' = None /\ percent_match' = 0
        /\ before' = present /\ present' = present
    BY <1>1 DEF BestMatch, Enter, target
  <2>2. Passed' = 0 /\ Unseen' = 1..Len(Order)
    BY <2>1 DEF Passed, InLoop, Unseen
  <2>3. SeenUpTo(0)' = {}
    BY DEF SeenUpTo
  <2>. QED BY <2>1, <2>2, <2>3 DEF PassInv, InLoop, BestUpTo
<1>2. CASE ~BestMatch
  <2>1. mode' # "once"
    BY <1>2 DEF Begin, WaitAny, WaitFor, ToArm, ClearTargets, Enter
  <2>. QED BY <2>1 DEF PassInv
<1>. QED BY <1>1, <1>2

LEMMA PassMain ==
  ASSUME TypeOK, PassInv, Main
  PROVE  PassInv'
<1>1. CASE mode = "once" /\ quiet
  <2>1. pc \notin {"theta", "match", "clear"}
    BY <1>1 DEF PassInv, InLoop
  <2>2. ~LoopOn /\ ~ReadTheta /\ ~ReadMatch /\ ~Clear
    BY <1>1, <2>1 DEF LoopOn, ReadTheta, ReadMatch, Clear
  <2>3. CASE Leave
    BY <2>3 DEF Leave, PassInv
  <2>. QED
    BY <1>1, <2>2, <2>3, PassLook, PassConsume, PassCompare, PassRecord, PassRead
       DEF Main
<1>2. CASE ~(mode = "once" /\ quiet)
  <2>1. CASE Leave
    BY <2>1 DEF Leave, PassInv
  <2>2. CASE ~Leave
    <3>1. mode' = mode /\ quiet' = quiet
      BY <2>2 DEF Main, Look, Consume, Compare, Record, ReadX, ReadY, LoopOn,
                  ReadTheta, ReadMatch, Clear, history
    <3>. QED BY <1>2, <3>1 DEF PassInv
  <2>. QED BY <2>1, <2>2
<1>. QED BY <1>1, <1>2

LEMMA QuietNext == TypeOK /\ QuietInv /\ [Next]_vars => QuietInv'
<1>. SUFFICES ASSUME TypeOK, QuietInv, [Next]_vars PROVE QuietInv'
  OBVIOUS
<1>. USE DEF QuietInv, reader, history
<1>1. CASE UNCHANGED vars
  BY <1>1 DEF vars
<1>2. CASE Begin
  <2>1. at' = at /\ quiet' = (\A r \in Readers : at[r] = "idle")
    BY <1>2 DEF Begin, BestMatch, WaitAny, WaitFor, ToArm, ClearTargets, Enter
  <2>. QED BY <2>1
<1>3. CASE Main
  <2>1. at' = at /\ (quiet' => quiet)
    BY <1>3 DEF Main, Look, Consume, Compare, Record, ReadX, ReadY, LoopOn,
                ReadTheta, ReadMatch, Clear, Leave
  <2>. QED BY <2>1
<1>4. ASSUME NEW t \in Targets, Emit(t) PROVE QuietInv'
  BY <1>4 DEF Emit
<1>5. ASSUME NEW r \in Readers, DataTest(r) PROVE QuietInv'
  <2>1. at[r] # "idle" /\ quiet' = quiet
    BY <1>5 DEF DataTest, TestAbsent, TestPresent, WriteX, WriteY,
                WriteDegrees, WriteRadians, WriteMatch
  <2>. QED BY <2>1
<1>. QED BY <1>1, <1>2, <1>3, <1>4, <1>5 DEF Next

LEMMA PassNext == TypeOK /\ QuietInv /\ PassInv /\ [Next]_vars => PassInv'
<1>. SUFFICES ASSUME TypeOK, QuietInv, PassInv, [Next]_vars PROVE PassInv'
  OBVIOUS
<1>1. CASE UNCHANGED vars
  BY <1>1, PassKept DEF vars, main, result, history
<1>2. ASSUME NEW t \in Targets, Emit(t) PROVE PassInv'
  BY <1>2 DEF Emit, PassInv
<1>3. ASSUME NEW r \in Readers, DataTest(r) PROVE PassInv'
  <2>1. at[r] # "idle" /\ quiet' = quiet
    BY <1>3 DEF DataTest, TestAbsent, TestPresent, WriteX, WriteY,
                WriteDegrees, WriteRadians, WriteMatch, history
  <2>. QED BY <2>1 DEF QuietInv, PassInv
<1>. QED BY <1>1, <1>2, <1>3, PassBegin, PassMain DEF Next

\* Every target has a first place in the storage.
LEMMA FirstPlace ==
  ASSUME NEW t \in Targets
  PROVE  \E i \in 1..Len(Order) : Order[i] = t /\ \A k \in 1..i - 1 : Order[k] # t
<1>. DEFINE places == {i \in 1..Len(Order) : Order[i] = t}
            less == OpToRel(<, Nat)
<1>1. Len(Order) \in Nat /\ places \subseteq Nat
  BY OrderLength
<1>2. places # {}
  BY OrderLength DEF Targets, ToSet
<1>3. IsWellFoundedOn(less, Nat)
  BY NatLessThanWellFounded
<1>4. \A k, m \in Nat : <<k, m>> \in less <=> k < m
  BY DEF OpToRel
<1>5. PICK m \in places : \A k \in places : <<k, m>> \notin less
  <2>. HIDE DEF places, less
  <2>. QED BY <1>1, <1>2, <1>3, WFMin
<1>6. ASSUME NEW k \in places PROVE m <= k
  <2>1. k \in Nat /\ m \in Nat
    BY <1>1
  <2>2. ~(k < m)
    <3>. HIDE DEF places, less
    <3>. QED BY <1>4, <1>5, <2>1, Zenon
  <2>. QED BY <2>1, <2>2
<1>7. \A k \in 1..m - 1 : Order[k] # t
  BY <1>1, <1>6
<1>. QED BY <1>5, <1>7

\* When the pass is over, what it knows of the places is what the targets show.
LEMMA PassResult == HandoffInv /\ QuietInv /\ PassInv => BestOfTheMoment
<1>. SUFFICES ASSUME HandoffInv, QuietInv, PassInv,
                     mode = "once", pc = "done", quiet
              PROVE  BestOfTheMoment
  BY DEF BestOfTheMoment
<1>. DEFINE M(t) == MatchOf[fov_match[t]]
            place(t) == CHOOSE i \in 1..Len(Order) :
                          Order[i] = t /\ \A k \in 1..i - 1 : Order[k] # t
            seen == {t \in Targets : before[t] /\ M(t) > 0}
<1>1. /\ Passed = Len(Order) /\ Unseen = {} /\ BestUpTo(Len(Order))
      /\ best # None => x_hat = fov_x[best] /\ y_hat = fov_y[best]
      /\ Len(Order) \in Nat /\ best \in Targets \union {None}
  BY OrderLength DEF PassInv, Passed, Unseen, InLoop, HandoffInv, TypeOK
<1>2. \A t \in Targets : \E i \in 1..Len(Order) : Order[i] = t
  BY OrderLength DEF Targets, ToSet
<1>3. \A i \in 1..Len(Order) : Percent(i) = M(Order[i]) /\ Percent(i) \in Nat
  BY OrderElement, MatchAssumption DEF Percent, HandoffInv, TypeOK
<1>4. \A t \in Targets : ~present[t]
  BY <1>1, <1>2 DEF PassInv
<1>5. \A t \in Targets : fov_x[t] = last[t] /\ fov_y[t] = last[t]
  BY ReaderAssumption, OrderAssumption DEF HandoffInv, QuietInv, WholeBetweenReports
<1>6. CASE best = None
  <2>1. SeenUpTo(Len(Order)) = {}
    BY <1>1, <1>6 DEF BestUpTo
  <2>2. seen = {}
    BY <1>2, <1>3, <2>1 DEF SeenUpTo
  <2>. QED BY <1>4, <1>6, <2>2 DEF BestOfTheMoment
<1>7. CASE best # None
  <2>1. PICK i \in SeenUpTo(Len(Order)) :
          /\ best = Order[i]
          /\ \A k \in SeenUpTo(Len(Order)) :
               Percent(k) < Percent(i) \/ (Percent(k) = Percent(i) /\ k >= i)
    BY <1>1, <1>7 DEF BestUpTo
  <2>2. i \in 1..Len(Order) /\ before[Order[i]] /\ Percent(i) > 0
    BY <2>1 DEF SeenUpTo
  <2>3. best \in seen
    BY <1>3, <2>1, <2>2, OrderElement
  <2>4. ASSUME NEW t \in seen
        PROVE  M(t) < M(best) \/ (M(t) = M(best) /\ place(t) >= place(best))
    <3>1. place(t) \in 1..Len(Order) /\ Order[place(t)] = t
      BY FirstPlace
    <3>2. /\ place(best) \in 1..Len(Order) /\ Order[place(best)] = best
          /\ \A k \in 1..place(best) - 1 : Order[k] # best
      BY <1>1, <1>7, FirstPlace
    <3>. HIDE DEF place
    <3>3. place(t) \in SeenUpTo(Len(Order))
      BY <1>3, <2>4, <3>1 DEF SeenUpTo
    <3>4. \/ Percent(place(t)) < Percent(i)
          \/ Percent(place(t)) = Percent(i) /\ place(t) >= i
      BY <2>1, <3>3
    <3>5. place(best) <= i
      BY <1>1, <2>1, <2>2, <3>2
    <3>6. Percent(place(t)) = M(t) /\ Percent(i) = M(best)
      BY <1>3, <2>1, <2>2, <3>1
    <3>. QED BY <1>1, <2>2, <3>1, <3>2, <3>4, <3>5, <3>6
  <2>5. seen # {} /\ x_hat = last[best] /\ y_hat = last[best]
    BY <1>1, <1>5, <1>7, <2>3
  <2>. QED BY <1>4, <1>7, <2>3, <2>4, <2>5 DEF BestOfTheMoment
<1>. QED BY <1>6, <1>7

\* A pass that no report comes into finds the best of the targets there when it
\* began, whatever their number, their order and their matches, also when the
\* storage holds a target twice; none of them is left to be acquired again.
THEOREM BestIsFound == Spec => []BestOfTheMoment
<1>1. Init => HandoffInv /\ QuietInv /\ PassInv
  BY HandoffInit DEF Init, QuietInv, PassInv
<1>2. HandoffInv /\ QuietInv /\ PassInv /\ [Next]_vars
        => (HandoffInv /\ QuietInv /\ PassInv)'
  BY HandoffNext, QuietNext, PassNext DEF HandoffInv
<1>. QED BY <1>1, <1>2, PassResult, PTL DEF Spec

=============================================================================
