---------------------------- MODULE TargetHandoff ----------------------------
(***************************************************************************)
(* How a sighting gets from a sensor thread to the main thread.            *)
(*                                                                         *)
(* Each sensor port has a UIInterfaceWriterThread that turns a report into *)
(* Target::data_test on the target it names.  The main thread looks at the *)
(* same Target objects: acquired_target tests and clears the presence flag *)
(* and the fov_ accessors read the measurements one by one.  There is no   *)
(* lock, so every access to a shared member is a step of its own.  The     *)
(* program is built with -O2: where two accesses have nothing between them *)
(* that keeps the compiler from merging them, both outcomes are steps.     *)
(***************************************************************************)
EXTENDS Integers, Sequences, SequencesExt

CONSTANTS
  Readers,    \* the sensor threads
  Order,      \* sg_target_storage: the targets, in their order
  ReaderOf,   \* ReaderOf[t]: the thread of the sensor of target t
  Records,    \* what a report may say of a target in view: 1, 2, ...
  MatchOf,    \* MatchOf[r]: the match percentage of record r, 0 for record 0
  Steady,     \* whether every report shows its pattern
  None

Targets == ToSet(Order)

NoRecord == 0       \* the measurements of a Target as constructed

ASSUME OrderAssumption ==
  Order # <<>> /\ Order \in Seq(Targets) /\ None \notin Targets
ASSUME ReaderAssumption == ReaderOf \in [Targets -> Readers]
ASSUME RecordsAssumption == Records \subseteq Nat \ {0}
ASSUME MatchAssumption ==
  MatchOf \in [Records \union {NoRecord} -> Nat] /\ MatchOf[NoRecord] = 0
ASSUME SteadyAssumption == Steady \in BOOLEAN

VARIABLES
  \* Target; each measurement is the record it comes from
  present,      \* present[t]: _target_present
  fov_x, fov_y, fov_match,
  fov_theta,    \* fov_theta[t]: a record and the unit of the angle
  \* a sensor thread in data_test
  at,           \* at[r]: "idle", or what it does next
  subject,      \* subject[r]: the target of the report
  report,       \* report[r]: the record, or None for ",,"
  \* the main thread
  mode,         \* the function it is in, or "idle"; "target" in Planner
  pc,
  j,            \* the loops' index into Order
  best, percent_match,
  x_hat, y_hat, theta, match,
  \* history
  spent,        \* spent[t]: the last present report of t has been acquired
  last,         \* last[t]: the last record written for t
  quiet,        \* no sensor thread has been in data_test since mode was begun
  before        \* the targets and their presence when mode was begun

target == <<present, fov_x, fov_y, fov_theta, fov_match>>
reader == <<at, subject, report>>
result == <<best, percent_match, x_hat, y_hat, theta, match>>
main == <<mode, pc, j, result>>
history == <<spent, last, quiet, before>>
vars == <<target, reader, main, history>>

-----------------------------------------------------------------------------
Init ==
  /\ present = [t \in Targets |-> FALSE]
  /\ fov_x = [t \in Targets |-> NoRecord]
  /\ fov_y = [t \in Targets |-> NoRecord]
  /\ fov_match = [t \in Targets |-> NoRecord]
  /\ fov_theta = [t \in Targets |-> [rec |-> NoRecord, unit |-> "radians"]]
  /\ at = [r \in Readers |-> "idle"]
  /\ subject = [r \in Readers |-> None]
  /\ report = [r \in Readers |-> None]
  /\ mode = "idle" /\ pc = "idle" /\ j = 1
  /\ best = None /\ percent_match = 0
  /\ x_hat = NoRecord /\ y_hat = NoRecord /\ match = NoRecord
  /\ theta = [rec |-> NoRecord, unit |-> "radians"]
  /\ spent = [t \in Targets |-> TRUE]
  /\ last = [t \in Targets |-> NoRecord]
  /\ quiet = FALSE
  /\ before = [t \in Targets |-> FALSE]

-----------------------------------------------------------------------------
(* The sensor threads: emit_to_target and Target::data_test *)

\* What a thread does next; its locals are gone when it returns.
Becomes(r, label) ==
  /\ at' = [at EXCEPT ![r] = label]
  /\ IF label = "idle"
     THEN /\ subject' = [subject EXCEPT ![r] = None]
          /\ report' = [report EXCEPT ![r] = None]
     ELSE UNCHANGED <<subject, report>>

\* A record of the stream names a target t of the sensor; it has measurements,
\* or its ",," says that the pattern is not there.
Emit(t) ==
  LET r == ReaderOf[t]
  IN /\ at[r] = "idle"
     /\ at' = [at EXCEPT ![r] = "test"]
     /\ subject' = [subject EXCEPT ![r] = t]
     /\ \E rec \in IF Steady THEN Records ELSE Records \union {None} :
          report' = [report EXCEPT ![r] = rec]
  /\ quiet' = FALSE
  /\ UNCHANGED <<target, main, spent, last, before>>

TestAbsent(r) ==
  /\ at[r] = "test" /\ report[r] = None
  /\ present' = [present EXCEPT ![subject[r]] = FALSE]
  /\ Becomes(r, "idle")
  /\ UNCHANGED <<fov_x, fov_y, fov_theta, fov_match, main, history>>

\* The flag is set before the first measurement is written.
TestPresent(r) ==
  /\ at[r] = "test" /\ report[r] # None
  /\ present' = [present EXCEPT ![subject[r]] = TRUE]
  /\ spent' = [spent EXCEPT ![subject[r]] = FALSE]
  /\ Becomes(r, "x")
  /\ UNCHANGED <<fov_x, fov_y, fov_theta, fov_match, main,
                 last, quiet, before>>

WriteX(r) ==
  /\ at[r] = "x"
  /\ fov_x' = [fov_x EXCEPT ![subject[r]] = report[r]]
  /\ Becomes(r, "y")
  /\ UNCHANGED <<present, fov_y, fov_theta, fov_match, main, history>>

WriteY(r) ==
  /\ at[r] = "y"
  /\ fov_y' = [fov_y EXCEPT ![subject[r]] = report[r]]
  /\ Becomes(r, "theta")
  /\ UNCHANGED <<present, fov_x, fov_theta, fov_match, main, history>>

\* _fov_theta is assigned the degrees of the report, and converted; the first
\* store may be optimised away.
WriteDegrees(r) ==
  /\ at[r] = "theta"
  /\ fov_theta' = [fov_theta EXCEPT ![subject[r]] =
                     [rec |-> report[r], unit |-> "degrees"]]
  /\ Becomes(r, "radians")
  /\ UNCHANGED <<present, fov_x, fov_y, fov_match, main, history>>

\* Mutant of WriteRadians: the conversion is forgotten.
WriteRadiansUnconverted(r) ==
  /\ at[r] \in {"theta", "radians"}
  /\ fov_theta' = [fov_theta EXCEPT ![subject[r]] =
                     [rec |-> report[r], unit |-> "degrees"]]
  /\ Becomes(r, "match")
  /\ UNCHANGED <<present, fov_x, fov_y, fov_match, main, history>>

WriteRadians(r) ==
  /\ at[r] \in {"theta", "radians"}
  /\ fov_theta' = [fov_theta EXCEPT ![subject[r]] =
                     [rec |-> report[r], unit |-> "radians"]]
  /\ Becomes(r, "match")
  /\ UNCHANGED <<present, fov_x, fov_y, fov_match, main, history>>

WriteMatch(r) ==
  /\ at[r] = "match"
  /\ fov_match' = [fov_match EXCEPT ![subject[r]] = report[r]]
  /\ last' = [last EXCEPT ![subject[r]] = report[r]]
  /\ Becomes(r, "idle")
  /\ UNCHANGED <<present, fov_x, fov_y, fov_theta, main,
                 spent, quiet, before>>

DataTest(r) ==
  \/ TestAbsent(r) \/ TestPresent(r)
  \/ WriteX(r) \/ WriteY(r) \/ WriteDegrees(r) \/ WriteRadians(r)
  \/ WriteMatch(r)

-----------------------------------------------------------------------------
(* The main thread *)

\* What it may set out to do: one pass of point_in_time_best_match, passes
\* until one finds something (wait_for_any_pattern), a wait for one target
\* (move_to_pattern), reading one target (target_to_arm), clear_targets.
Enter(m, label, t) ==
  /\ mode = "idle"
  /\ mode' = m /\ pc' = label /\ j' = 1
  /\ best' = t /\ percent_match' = 0
  /\ x_hat' = NoRecord /\ y_hat' = NoRecord /\ match' = NoRecord
  /\ theta' = [rec |-> NoRecord, unit |-> "radians"]
  /\ quiet' = (\A r \in Readers : at[r] = "idle")
  /\ before' = present
  /\ UNCHANGED <<target, reader, spent, last>>

BestMatch == Enter("once", "look", None)
WaitAny == Enter("any", "look", None)
WaitFor(t) == Enter("pattern", "look", t)
ToArm(t) == Enter("arm", "x", t)
ClearTargets == Enter("clear", "clear", None)

\* The target under the index, or the one that is waited for.
Subject == IF mode = "pattern" THEN best ELSE Order[j]

\* Mutant of LastOne: the last target is not looked at.
LastOneEarly == j >= Len(Order) - 1

LastOne == j = Len(Order)

\* Mutant of Advance: best is used although nothing was found.
AdvanceUnchecked(b) ==
  IF mode = "pattern" \/ ~LastOne
  THEN pc' = "look" /\ j' = IF mode = "pattern" THEN j ELSE j + 1
  ELSE pc' = "x" /\ j' = 1

\* Goes on with the next target, or with what follows the loop once b is best.
Advance(b) ==
  IF mode = "pattern"
  THEN pc' = "look" /\ j' = j
  ELSE IF ~LastOne
       THEN pc' = "look" /\ j' = j + 1
       ELSE /\ j' = 1
            /\ pc' = IF b # None THEN "x"
                     ELSE IF mode = "any" THEN "look" ELSE "done"

\* Mutant of Look: the loop tests the flag that was read before it.
LookBefore ==
  /\ pc = "look"
  /\ IF before[Subject]
     THEN pc' = "consume" /\ j' = j
     ELSE Advance(best)
  /\ UNCHANGED <<target, reader, mode, result, history>>

\* acquired_target reads the flag ...
Look ==
  /\ pc = "look"
  /\ IF present[Subject]
     THEN pc' = "consume" /\ j' = j
     ELSE Advance(best)
  /\ UNCHANGED <<target, reader, mode, result, history>>

\* Mutant of Consume: the flag is left as it is.
ConsumeNot ==
  /\ pc = "consume"
  /\ spent' = [spent EXCEPT ![Subject] = TRUE]
  /\ pc' = IF mode = "pattern" THEN "done" ELSE "compare"
  /\ UNCHANGED <<target, reader, mode, j, result, last, quiet, before>>

\* ... and clears it.
Consume ==
  /\ pc = "consume"
  /\ present' = [present EXCEPT ![Subject] = FALSE]
  /\ spent' = [spent EXCEPT ![Subject] = TRUE]
  /\ pc' = IF mode = "pattern" THEN "done" ELSE "compare"
  /\ UNCHANGED <<fov_x, fov_y, fov_theta, fov_match, reader, mode, j, result,
                 last, quiet, before>>

Better(t) == MatchOf[fov_match[t]] > percent_match

\* fov_match is compared; it is read a second time, or it is not.
Compare ==
  /\ pc = "compare"
  /\ IF Better(Subject)
     THEN \/ pc' = "record" /\ UNCHANGED <<j, best, percent_match>>
          \/ /\ percent_match' = MatchOf[fov_match[Subject]]
             /\ best' = Subject
             /\ Advance(Subject)
     ELSE Advance(best) /\ UNCHANGED <<best, percent_match>>
  /\ UNCHANGED <<target, reader, mode, x_hat, y_hat, theta, match, history>>

Record ==
  /\ pc = "record"
  /\ percent_match' = MatchOf[fov_match[Subject]]
  /\ best' = Subject
  /\ Advance(Subject)
  /\ UNCHANGED <<target, reader, mode, x_hat, y_hat, theta, match, history>>

ReadX ==
  /\ pc = "x"
  /\ x_hat' = fov_x[best] /\ pc' = "y"
  /\ UNCHANGED <<target, reader, mode, j, best, percent_match, y_hat, theta,
                 match, history>>

ReadY ==
  /\ pc = "y"
  /\ y_hat' = fov_y[best]
  /\ pc' = IF mode = "arm" THEN "theta" ELSE "done"
  /\ UNCHANGED <<target, reader, mode, j, best, percent_match, x_hat, theta,
                 match, history>>

\* wait_for_any_pattern has no return statement.  What it returns is undefined,
\* and a compiler that takes its end for unreachable removes the loop's exit.
LoopOn ==
  /\ pc = "done" /\ mode = "any"
  /\ pc' = "look" /\ best' = None /\ percent_match' = 0
  /\ UNCHANGED <<target, reader, mode, j, x_hat, y_hat, theta, match, history>>

ReadTheta ==
  /\ pc = "theta"
  /\ theta' = fov_theta[best] /\ pc' = "match"
  /\ UNCHANGED <<target, reader, mode, j, best, percent_match, x_hat, y_hat,
                 match, history>>

ReadMatch ==
  /\ pc = "match"
  /\ match' = fov_match[best] /\ pc' = "done"
  /\ UNCHANGED <<target, reader, mode, j, best, percent_match, x_hat, y_hat,
                 theta, history>>

\* set_target_not_acquired
Clear ==
  /\ pc = "clear"
  /\ present' = [present EXCEPT ![Order[j]] = FALSE]
  /\ IF LastOne THEN pc' = "done" /\ j' = 1 ELSE pc' = pc /\ j' = j + 1
  /\ UNCHANGED <<fov_x, fov_y, fov_theta, fov_match, reader, mode, result,
                 history>>

\* The caller uses the result and goes on.
Leave ==
  /\ pc = "done"
  /\ mode' = "idle" /\ pc' = "idle"
  /\ best' = None /\ percent_match' = 0
  /\ x_hat' = NoRecord /\ y_hat' = NoRecord /\ match' = NoRecord
  /\ theta' = [rec |-> NoRecord, unit |-> "radians"]
  /\ quiet' = FALSE /\ before' = [t \in Targets |-> FALSE]
  /\ UNCHANGED <<target, reader, j, spent, last>>

Begin ==
  \/ BestMatch \/ WaitAny \/ ClearTargets
  \/ \E t \in Targets : WaitFor(t) \/ ToArm(t)

Main ==
  \/ Look \/ Consume \/ Compare \/ Record
  \/ ReadX \/ ReadY \/ LoopOn \/ ReadTheta \/ ReadMatch
  \/ Clear \/ Leave

Next ==
  \/ Begin
  \/ Main
  \/ \E t \in Targets : Emit(t)
  \/ \E r \in Readers : DataTest(r)

Spec == Init /\ [][Next]_vars

-----------------------------------------------------------------------------
(* Properties *)

Angles == [rec : Records \union {NoRecord}, unit : {"degrees", "radians"}]

TypeOK ==
  LET Measured == [Targets -> Records \union {NoRecord}]
  IN /\ present \in [Targets -> BOOLEAN]
     /\ fov_x \in Measured /\ fov_y \in Measured /\ fov_match \in Measured
     /\ fov_theta \in [Targets -> Angles]
     /\ at \in [Readers -> {"idle", "test", "x", "y", "theta", "radians",
                            "match"}]
     /\ subject \in [Readers -> Targets \union {None}]
     /\ report \in [Readers -> Records \union {None}]
     /\ \A r \in Readers :
          /\ at[r] # "idle" => subject[r] \in Targets /\ ReaderOf[subject[r]] = r
          /\ at[r] \notin {"idle", "test"} => report[r] \in Records
     /\ mode \in {"idle", "once", "any", "pattern", "arm", "clear", "target"}
     /\ pc \in {"idle", "look", "consume", "compare", "record", "x", "y",
                "theta", "match", "clear", "done"}
     /\ j \in 1..Len(Order)
     /\ best \in Targets \union {None}
     /\ pc \in {"x", "y", "theta", "match"} => best # None
     /\ mode = "pattern" => best # None
     /\ percent_match \in Nat
     /\ x_hat \in Records \union {NoRecord}
     /\ y_hat \in Records \union {NoRecord}
     /\ match \in Records \union {NoRecord}
     /\ theta \in Angles
     /\ spent \in [Targets -> BOOLEAN]
     /\ last \in [Targets -> Records \union {NoRecord}]
     /\ quiet \in BOOLEAN
     /\ before \in [Targets -> BOOLEAN]

\* A report of a pattern is acquired at most once, although the flag is tested
\* and cleared in two steps while the sensor thread sets it.
AcquiredOnce ==
  /\ \A t \in Targets : present[t] => ~spent[t]
  /\ pc = "consume" => ~spent[Subject]

\* Between two reports a target holds one whole record, its angle in radians
\* (data_test stores the degrees of the report first).
WholeBetweenReports ==
  \A t \in Targets :
    subject[ReaderOf[t]] # t =>
      /\ fov_x[t] = last[t] /\ fov_y[t] = last[t] /\ fov_match[t] = last[t]
      /\ fov_theta[t] = [rec |-> last[t], unit |-> "radians"]

\* A pass of point_in_time_best_match that no report interferes with returns
\* the best of the targets that were present, the first of them in the order
\* of the storage, and its position; a match of 0 is no match.
BestOfTheMoment ==
  LET M(t) == MatchOf[fov_match[t]]
      place(t) == CHOOSE i \in 1..Len(Order) :
                    Order[i] = t /\ \A k \in 1..i - 1 : Order[k] # t
      seen == {t \in Targets : before[t] /\ M(t) > 0}
      wins(t) ==
        \A u \in seen : M(u) < M(t) \/ (M(u) = M(t) /\ place(u) >= place(t))
  IN mode = "once" /\ pc = "done" /\ quiet =>
       /\ best = None <=> seen = {}
       /\ best # None =>
            /\ best \in seen /\ wins(best)
            /\ x_hat = last[best] /\ y_hat = last[best]
       /\ \A t \in Targets : ~present[t]

\* "locus of the object that has been seen" (arm_2d.cpp:1939): the position,
\* the angle and the match that target_to_arm computes with are those of one
\* report.
LocusWasSeen ==
  mode = "arm" /\ pc = "done" =>
    /\ x_hat = y_hat /\ y_hat = theta.rec /\ theta.rec = match
    /\ theta.unit = "radians"

\* While its pattern stays in view, move_to_pattern's wait for a target ends,
\* although nothing but the flag tells it of a report.
WaitEnds == mode = "pattern" ~> mode = "pattern" /\ pc = "done"
=============================================================================
