# A verification project for arm_2d

`arm_2d` (under `src/release/`) drives a two-joint robot arm: two motor drives
behind an RS-232 hub, and a pattern-matching camera that reports sightings over
TCP.  An operator types commands; some of them move the arm to a point, some
look for a pattern and move to where it was seen.

This directory holds TLA+ modules of the program's own logic, TLC
configurations that check them on small instances, and proofs that the TLA+
proof system checks for every value of the constants.  `PROJECT.json` lists the
components, the runs, the lines each definition translates, the hazards and the
theorems.  Paths below are relative to `src/release/`.

Contents:

1. The system
2. Plan
3. The modules and the code
4. The runs: what they show, bounds, fairness
5. The proofs
6. Where the program and its comments disagree
7. What is not modelled


## 1. The system

Everything the operator asks for runs in one **main thread**
(`build/arm_2d.cpp`, `main`).  A **sensor thread** per sensor port turns the
camera's byte stream into records and writes them into `Target` objects.  The
two kinds of thread share the `Target` objects and the maps that find them, and
there is no lock around either.  The drives act on their own: they queue
commands, move, and answer in their own time, all on one line.

```
 console --> main thread --> MotorDriver --> run_commands2 ==serial==> drives
                 |  ^                              ^ polls  <==answers==
                 |  | present?, x, y, theta, match
                 v  |
               Target objects <-- data_test <-- sensor threads <==TCP== camera
```

| Component | State | Operations | Interacts through |
|---|---|---|---|
| **Motor drivers and serial line** (`arm_configuration.h`, `serialback.xpp`, macros in `parameters.ini`) | per drive: command list, `_parameter` (last response), `_checking_position`, `_reported_steps`; per exchange: the polling loop's counter | `process_parameters`, `run_action`, `check_status`, `current_rotation`; below them `run_lines`, `run_commands2` | method calls from the main thread; bytes on one line shared by all drives |
| **Motion commands** (`arm_2d.cpp`) | the command's progress, believed position `sg_current_x/y`, current steps of both joints | MV ML WL (moves), HOME, S (scan), MP MR TA (to a pattern), T, with waiting loops on `check_status` | the drivers; `Target`s |
| **Target handoff** (`arm_2d.cpp`, `Target` in `arm_configuration.h`) | presence flag, four measurements per target | `emit_to_target`, `data_test`, `acquired_target`, `set_target_not_acquired`, accessors | shared memory, no lock |
| **Arm geometry** (`m_commands.xpp`) | target, polar coordinates, joint angles, steps | `set_target`, `to_circular`, `sides_to_angles`, `rotation_to_cartesian` | called by the motion commands |
| **Sensor stream** (`uiinterfacethread.cpp`) | the partial record, whether a header was found | cut reads into tokens, tokens into records | TCP in, `emit_to_target` out |
| **Planner** (`arm_2d.cpp`, `to_target`) | goal, schedule of targets, cell of the field | `to_target`, `locate_in_cell`, `schedule_relative_targets`, `target_accuracy` | motion commands, targets |
| **Pattern sweeps** (`arm_2d.cpp`, SPR and SPD) | sweep bounds, current rotations | raster over both joints, one look after each move | motion commands, targets, geometry |
| **Start-up** (`arm_2d.cpp`, `client.cpp`) | ports, arrays of drives, sensors, targets | open, wait for the ports, `process_parameters`, spawn threads | all of the above |
| **UI message queue** (`uiinterfacethread.cpp`) | POSIX queue, notifier | reader thread with `mq_notify` | never constructed by this program |
| **Parameter file, text helpers** (`common/`) | map of strings | `read_parameters`, list helpers | read once at start |
| **Transformations, simulation control** | none that control depends on | matrix products; formatting of simulated messages | - |

### What is hard, and what makes each part correct

*Serial line.*  A command is written without discarding what the port still
holds; the wait for its answer ends after a run of empty polls; whatever line
is read is "the" response of the drive that is polling.  Nothing in a response
is compared with the command or with the drive.  Correct means: a response is
the addressed drive's answer to the command in hand; an "idle" verdict means
the drive stands still; a rotation is one the drive had during the call; every
call returns.  The hazards are answers that come late or in fragments, and
state kept from one call to the next (`_parameter`).

*Motion commands.*  The waiting loops have no timeout and trust one verdict per
drive and round, taken at different moments from two drives that move
independently.  Correct means: when a move is over both motors are where the
geometry wanted them; HOME moves one joint at a time; a scan computes with the
rotations of an arm at rest; every command ends.

*Target handoff.*  The flag is set before the measurements are written, tested
and cleared in two steps, and the measurements are read one by one.  Correct
means: no report is acquired twice, measurements are whole when nobody writes,
the best match is the best, a wait for a pattern in view ends.

*Geometry.*  Three cases with the triangle's sides in three orders, a clamp and
a range test guard an `acos`; `rotation_to_cartesian` goes the other way.
Correct means: no argument outside [-1, 1], angles that close the triangle at
the point asked for, and a way back that leads to the same point.

*Sensor stream.*  The stream is cut where reads end, and records are emitted
one behind.  Correct means: each record once, whole, in order, whatever the
cuts.

*Planner.*  Each pass consumes the sightings of a set of targets, chooses one
and reads its position again, and the set grows only by who is in view at one
moment.  Correct means: it goes on with the nearest of what it has seen, and no
pattern in view is passed over for ever.

*Sweeps.*  Each motion is waited for with a look at the camera in every round,
and a sighting ends it early.  Correct means: one joint moves at a time, rows
and columns stay in step with the arm, and a place is computed only from an arm
at rest.

*Parameter file and text.*  Four ways to cut a text into pieces and six to make
lines of a page; a block of the file is joined by one function and cut again by
another.  Correct means: what the file says reaches the object it is for, and
functions that do the same do it alike.

*Start-up*: every drive and target initialised before the first command.


## 2. Plan

The order is by what a wrong step does to the machine: first the line on which
every motion depends, then the motions, then the data they act on, then what is
read before anything moves.

1. **MotorDriver**, and **DriveService**, what its queries promise.  *Done*:
   checked; types, the prompt regime and the refinement proved.
2. **ArmMotion** - EXTENDS MotorDriver; the console's commands as plans, the
   sweeps SPD and SPR among them - and **ArmInvariant**, why the arm is where
   they believe it.  *Done*: checked; types, the refinement of MotorDriver, the
   inductive invariant and the safety properties of every command proved.
3. **TargetHandoff** - the shared `Target` objects, access by access.  *Done*:
   checked; types, single acquisition, whole records and the best match proved.
4. **ArmGeometry** - `set_target` and `rotation_to_cartesian`.  *Done*: checked
   and proved.
5. **SensorStream**, and **RecordStream**, what it promises.  *Done*: checked,
   the refinement included; the safety part of the refinement and what waits in
   the thread proved.
6. **Planner** - EXTENDS TargetHandoff; `to_target`, `locate_in_cell`,
   `schedule_relative_targets`.  *Done*: checked; its choice and what it keeps
   of the handoff proved.
7. **TextUtils**, **TextForms**, checked by **TextBuffer**; **ParameterFile** on
   top of them.  *Done*: checked; trimming and cutting in two proved.
8. Left: a **UiQueue** only if the program comes to use its message queue.  The
   start-up decides nothing that is not modelled already.

To prove: what is left needs induction over data or fairness, and stays with TLC
(section 5).


## 3. The modules and the code

| Module | Models | Checked by | Proofs |
|---|---|---|---|
| `MotorDriver` | `MotorDriver`, `run_lines`, `run_commands2`; external: drives, line | `MotorDriverMC` | `MotorDriver_proofs` |
| `DriveService` | abstract: what `check_status` and `current_rotation` promise | property of `MotorDriver` | `MotorDriver_proofs` |
| `ArmMotion` (EXTENDS `MotorDriver`) | the console's commands that move the arm | `ArmMotionMC` | `ArmMotion_proofs` |
| `ArmInvariant` (EXTENDS `ArmMotion`) | nothing of its own: the inductive invariant of `ArmMotion` | `ArmMotionMC` | `ArmMotion_proofs` |
| `TargetHandoff` | sensor threads in `data_test`, the main thread's readers | `TargetHandoffMC` | `TargetHandoff_proofs` |
| `Planner` (EXTENDS `TargetHandoff`) | `to_target` and what it calls | `PlannerMC` | `Planner_proofs` |
| `ArmGeometry` | `Arm_Configuration::set_target` and what it calls; `rotation_to_cartesian` | `ArmGeometryMC` | `ArmGeometry_proofs` |
| `SensorStream` | `UIInterfaceWriterThread::run`, `emit_to_target` | `SensorStreamMC` | `SensorStream_proofs` |
| `RecordStream` | abstract: records delivered in order | property of `SensorStream` | `SensorStream_proofs` (safety) |
| `TextUtils`, `TextForms` | the functions of `static_utils.h` on text | `TextBuffer`, `TextBufferMC` | `TextBuffer_proofs` |
| `ParameterFile` (EXTENDS `TextForms`) | `read_parameters`, `set_descriptor` | `ParameterFileMC` | - |
| `SequenceFacts` | nothing: lemmas on least places, parts and joins of sequences | - | itself |

### MotorDriver

The main thread is sequential, so at most one method is in progress: `call` is
the method, its drive and, for `process_parameters`, the macros left to run.
`todo[d]` is the object's command list, `next_com` the command written last,
`tries` the unsigned counter of the polling loop.  Actions:

- `ProcessParameters`, `RunAction`, `CheckStatus`, `CurrentRotation` begin a
  call: they append the lines of a macro, with `{STEPS}` filled in, to the list.
- `RunCommand`, `ReadLine`, `PollEmpty` are `run_commands2`: write the next
  command; a poll that finds characters hands them to
  `handle_command_response`; a poll that finds nothing costs a try, and the
  loop ends when none is left.  **A line that was read sets the counter to 0**,
  so the loop ends with the first empty poll after it (`TriesAfterLine`).
- `NextMacro`, `Return`: `process_parameters` goes on, or a call whose list is
  empty returns and clears `_checking_position`.

The drives and the line are external, known by what the program sends and
parses: `Execute` (a drive takes a command: goal, position, answer), `Travel`
(it moves), `Arrive` (a line reaches the receive buffer), `ArriveHead` (so far
only its first characters).  A query is always answered; whether any other
command is acknowledged is open (`Acks`).  The wire keeps the order in which
answers are put on it.

Time enters in one place: `elapsed` counts the empty polls since a command was
written and an answer takes at most `AnswerDelay` of them.  The regime
`Prompt == AnswerDelay <= Tries /\ ~Fragments` is the assumption the code
rests on; it is a named hypothesis of the theorems, and other runs drop it.
Times are scaled: the code's ten tries are one or two here, and what matters
is only whether the answer or the end of the loop is first.

`DriveService` is the promise of the two queries without lists, lines and
polls: a query is answered once, at one moment between call and return, with
what is true of its drive at that moment.  `AnswersQueries` maps MotorDriver to
it: the answer counts as given when the drive has executed the command, wherever
the line then is.

### ArmMotion

What is left of the command in progress is `plan`, a sequence of steps: run a
macro, wait for drives, ask for a rotation, wait for a sighting, watch a motion
and the camera at once, locate a sighting, go where it leads, note the place
reached.  `MovePlan`, `HomePlan`, `ScanPlan` and `SweepPlan` list the calls of
`move_by_command`, `arm_to_home`, `scan_for_pattern` and
`scan_for_pattern_with_rotation_motion` in the code's order.  A waiting loop is
`BeginRound` (in_motion := FALSE), `CheckNext` for each drive, `ReturnToPlan`
(which judges `_parameter`), `EndWait`.  All actions of MotorDriver are steps
here too, so late answers, jogging drives and slow motion are under every
command.  `steps` is what `set_target` computed and `believed` is
`sg_current_x, sg_current_y`.

The loops of the sweeps decide what comes next when they get there, so a plan
ends in the step that decides: `Edge(i)` (SPD goes to edge i and turns the base)
and `Raster(i, at, way)` (SPR's row i, with the base at column `at`).  A watched
motion has one more member in its round, the camera: a sighting there stops the
motor if it moves and leaves the loops; without one the plan goes on.  `RowSteps`
is the code's formula for the elbow, with the conversion to int, and with
`elbow_current_steps()` as the last `set_target` left it, although the elbow has
been sent to zero since.  A sweep that has seen nothing dereferences NULL; this
is the step `fault`, after which nothing is promised.

MP, MR and TA look for their pattern and move (`ToPattern`); T (`ToTarget`) is one
motion after the other (`CellStep`).  Which sighting they act on is the business
of TargetHandoff and Planner, so the place they go to is any place.

`SightStep` stands for `wait_for_any_pattern`, which has no `return`: its
result is undefined, so the place that `LocateStep` computes is any place.
When `Simulation` is set nothing is written or read and loops are a sleep; the
constant is there, the runs have it off.

### TargetHandoff

Every access to a shared member is one step.  A sensor thread takes a record
(`Emit`), then sets or clears the flag (`TestPresent`, `TestAbsent`), writes x,
y, the angle in degrees, the angle in radians, the match.  The main thread's
functions share their steps: `point_in_time_best_match` is
`Look`/`Consume`/`Compare`/`Record` over `Order` and then `ReadX`/`ReadY`;
`wait_for_any_pattern` repeats it; `move_to_pattern` waits with `Look` and
`Consume` on one target; `target_to_arm` reads four measurements; `Clear` is
`clear_targets`.

The program is compiled with `-O2` (`build/Makefile`), and unsynchronised
accesses may be merged: the two reads of `fov_match` may be one (`Compare`'s
second disjunct) and the degrees may never be stored (`WriteRadians` from
"theta").  After `wait_for_any_pattern` both outcomes of the missing return are
steps: the function is left, or the loop goes on (`LoopOn`).

A measurement is the number of the record it came from, so "x and y of
different reports" is `x # y`.  `last`, `spent`, `quiet` and `before` are
history variables for the properties; no action's guard reads them.
`BestOfTheMoment` speaks of the passes that no report comes into.

### Planner

`to_target` runs in the main thread of TargetHandoff, on the same flags and
measurements.  `cell` is `t_set`.  A pass of `locate_in_cell` tests and clears
the flags of the cell's targets (`TestFlag`, `Acquire`), in any order since a set
of pointers has the order of addresses; reads x and y of each that was there
(`SeeX`, `SeeY`) and keeps the nearest to (`FovW`, `FovH`) with the way to there
(`save`).  The code calls that point the middle, `mid_x, mid_y`; it is a corner of the
view.  Then it reads the position of its focus again (`AgainX`, `AgainY`) and adds
the way to it: `place`.  `Move` is `move_by_command` with `target_accuracy`, which is
satisfied with every place.  `Schedule` walks the storage by its index and adds who
is in view.  `XOf` and `YOf` give the pixels of a record, and `Dist` is the square
of the distance, which orders places as the distance does.  `touched` is a history
variable: the targets that a report came to during the pass, of which a property
can promise nothing.

`EmptyPass` is the pass over an empty cell: `locate_in_cell` returns NULL, and
nothing that follows changes anything.

### ArmGeometry

An angle in [0, PI] is its cosine as a fraction, `acos` outside its domain is
`NaN`, and the third angle of a triangle comes from the other two by the
addition theorem.  So the model computes exactly with integers and asks the
question that matters: whether the three cases solve the triangle of the arm.
Rounding (doubles; angle to motor step) is left out.

`rotation_to_cartesian` gets the rotations of the pose that `set_target` left,
with the sign that its callers S and SPR give them.  Sines of the two
angles are roots of the same number (Heron's), so the model adds and multiplies
pairs of integers, one part with that root and one without.

`ArmAssumption` is what `set_target` needs of the lengths in `parameters.ini`
and nothing in the code tests: the fore arm is not longer than the upper one,
the arm can fold to `MIN_RADIUS`, and `MIN_RADIUS` is within reach.  The file's
values satisfy it (17.375, 10, 8).

### SensorStream

`wait_on_data` returns a word of the stream, what lies between white space;
`run` cuts a word at its commas.  A word is the sequence of its tokens, so the
model keeps exactly what the code tells apart: headers, empty tokens, all
others.  `Receive` is a word's arrival, without the `,` at its end; `TakeToken` is
one turn of the inner loop; `Emit` is `emit_record` and `emit_to_target`, whose
lookup inserts unknown keys.  `stream` is a history variable, the tokens of all
words so far but those that the code does not get to see (`Kept`); `RecordsOf`
reads it as a whole and is what the thread is measured by.

`RecordStream` promises its reader that complete records arrive once, whole, in
order and at last; SensorStream implements it with "complete" read as "followed
by another header".  What arrives is what TargetHandoff's sensor threads
take: `Emit` there has the same record as a number.

### TextUtils, TextForms, TextBuffer

A text is a sequence of one-character strings, a `char *` is a position in it
and NULL is 0.  Loops are the set of positions they stop at, or recursive
functions.  What a function writes into its own copy and undoes is left out.

The program itself calls `trim_string`, `split_string`, `to_items`, `to_tokens`,
`to_no_empty_lines`, `subst` and the scanning below them; the rest is what the
header offers, and it is here because the two kinds explain each other: what a
called function should return is often what another one returns.

`TextBuffer` feeds all of them every text over six small alphabets, one
character at a time, each alphabet made for some of the functions (separators
and lines, section tags, quotes, digits).  Its properties compare the result with
what the function is for, or functions of one purpose with one another.

### ParameterFile

`Open` is fopen and fread, then one action per line: a comment is skipped, a
pair is put into the map, `key: {` begins a block (`OpenBlock`, `BlockLine`,
`CloseBlock`).  A block's lines are joined with `;`.  `SetDescriptor` is
`init_sensor_descriptions`, which cuts the text of a block at `;` and fills a
sensor's settings; `SettingsReachTheSensor` reads the same lines by where their `;`
are, those that end with one too, as one of the camera's does (`parameters.ini:215`).
Two things in the C++ code have no defined outcome, a block
without an end and a file that fills the buffer: the state is "undefined" then,
and the properties say exactly when.


## 4. The runs

| Run | Asks | Bounds | States |
|---|---|---|---|
| `driver_prompt` | with prompt answers: one exchange at a time, own response, true status and rotation, the inductive invariant, DriveService | 2 drives, 2 tries, answers after up to 2 polls, all macros, jog up to 2 | 1.7 M |
| `driver_late` | does every call return when answers come late and in pieces | 1 drive, 1 try, delay 2, fragments | 124 k |
| `arm_prompt` | with prompt answers: MV arrives, HOME in order, S and the sweeps locate with the arm at rest, sweeps keep in step, each command ends, the inductive invariant `MotionInv`, ArmMotion implements MotorDriver | 2 motors, gear 2, 2 places, 1 edge, 2 rows of 3 columns, 1 try, delay 1 | 859 k |
| `arm_home_late` | *violated*: HOME's order with late answers | 2 motors, delay longer than the loop | - |
| `arm_report` | *violated*: is the reported position the arm's | as `arm_prompt` | - |
| `handoff_race` | what flag and measurements keep with two writers and a reader | 2 sensor threads, 2 targets, records of match 45 and 90, also "not there" | 8.1 M |
| `handoff_locus` | *violated*: are x, y, theta and match of one report | as `handoff_race` | - |
| `planner_cell` | does a pass go on with the one nearest to the corner whatever reports come to others, do all patterns join the cell, does the wait for one pattern end | 1 sensor thread, 2 targets, a view of 4 by 4, a record at its centre and one nearer to the corner, first tier empty or one target | 478 k |
| `geometry_plane` | set_target over the arm's plane, and the way back | all integer points up to distance 30 whose distance is an integer; lengths 17, 10, 8 | 785 |
| `sensor_stream` | is each record delivered once, whole, in order, and when | 6 tokens in words of every length; 2 headers, one of them known | 29 k |
| `text_functions` | do the text functions do what they are for, and alike | every text of up to 6 characters over six alphabets; 4 keys, 4 replacements, two of them keys | 32 k |
| `parameter_file` | does what the file says reach the map and the sensors | up to 2 lines of 8 kinds, one of them two settings and a `;`, and 3 after a block's opening; a buffer of 28 | 4.0 k |

Why the bounds are enough.  Answers overtake one another only between two
exchanges, so two drives, each with commands that ask and commands that do not,
show each kind of confusion; `Tries` and `AnswerDelay` matter only by their
order, and are taken on both sides of it.  The macros keep every *kind* of line
of `parameters.ini`, one of each run of parameter lines.  A raster of two rows
has a row that is left for another, and columns on both sides of zero; one edge
is one turn of SPD's loop, which carries nothing from one edge to the next.  Two
targets are the least on which a best match can be lost to another thread's
write or a sighting be consumed for nothing; two records are the least that can
be mixed, and that match or lie differently.  Of the replacements two are of
characters that no text has, so that `subst` can be undone; one is a key, and one
holds keys and begins, with its end, another key.  The geometry has integer lengths
in the file's proportions; the points reach into every case: too near, folded,
acute, obtuse, out of range.  Six tokens
are two records with an absent mark and one behind them, in any cut.  Six
characters hold two separators with pieces, white space and an empty piece
between them; two nested sections; two quotes with something between.  Three
lines in a block are two settings, or one and a comment, and its end; with these
lines a buffer of 28 characters is filled by some files and not by others.

Bounds that cut behaviour: `MaxBacklog` (commands and answers in flight when a
command is written; never reached when answers are prompt); `JogLimit` (a
jogging drive stops counting there; it is still in motion); `WaitsAndPlans` (of
the main thread's other functions, `planner_cell` has only the waits of
`move_to_pattern`; `handoff_race` has the rest); `MaxTokens` and `MaxText`, at
which a stream and a text end.

Fairness.  `LineFairness`: the main thread runs, drives execute what they are
sent, and what is on the wire arrives - weak fairness each.  The last two are the
delay bound read as progress: a poll does not let time pass beyond
`AnswerDelay` while an answer is out.  `ArmFairness` adds that
drives move (a commanded drive reaches its goal).  Nothing is assumed of the
operator, and a command that waits for a pattern may wait for ever:
`CommandEnds` excepts it, T, and a sweep that has found nothing.
`PlanFairSpec`: the main thread and the sensor threads run (weak fairness), and
each target gets its turn in the camera's stream.  The latter is strong
fairness, since the thread of a sensor is between two reports again and again
but not for long; without it a camera that reports one of its targets only would
be a counterexample that says nothing of the program.  `SensorStream`: the thread
takes its tokens, and the camera owes it nothing.  `ParameterFile`: one thread
that goes on.

Every property is also run against a change of the code that breaks it
("mutants"): the loop's bound off by one, a verdict overwritten by the other
motor's, a wait left out, a rotation asked for before the stop, a flag not
consumed, the last target skipped, degrees not converted, the sides of the
triangle swapped, a clamp forgotten, a sighting always nearer, a record emitted
at once, a separator never set, a replacement searched for keys.


## 5. The proofs

All for arbitrary constants that satisfy the named assumptions of the modules.

**MotorDriver_proofs.**  `TypeCorrect` needs no regime.  In the prompt regime
(`ASSUME Prompt`) the inductive invariant is

    PromptInv == TypeOK /\ ExchangeInv /\ CallInv /\ AnswerInv

`ExchangeInv`: one command is out at most and it is in exactly one place - in
the drive's queue, on the wire as an answer, or in the buffer - and until a line
is read every empty poll was paid for with a try (`tries = Tries - elapsed`);
that equation is why the loop cannot end before the answer comes, and it is the
strengthening that makes `QuietLine` inductive.  `CallInv`: whose list is not
empty, and what the two query calls have in theirs.  `AnswerInv`: an answer is
true wherever it is, because a drive at rest stays at rest until it executes a
command and none is queued, and a moving one goes one way.  From it:
`LineQuiet`, `ResponseIsOwn`, `StatusIsTruthful`, `RotationIsTruthful`.

`QueriesAreServed`: in the prompt regime MotorDriver implements DriveService.
The moment at which a query is served is the one at
which its drive executes the command; `PromptInv` says that the line is then
the drive's own until the call returns, and `GivenInv` adds that a status query
whose command is no longer out has its answer.

**ArmMotion_proofs.**  `ArmTypeCorrect`: plans are made of well-formed steps and
each number handed to a drive is one its callers may ask for.  For the sweeps
this needs that columns and rows stay within what `SweepAssumption` says of the
configuration (`RasterType`, `RowType`, `SweepPlanType`).
`ArmImplementsDriver`: every step of a command is a step of MotorDriver or
leaves it alone, so - `ArmPromptInvariant` - all that is proved of the line
holds of the arm.

`MotionInvariant`, with `Prompt` and without
`Simulation`: the inductive invariant of the arm is

    MotionInv == ArmTypeOK /\ PromptInv /\ PlanInv

A command is a plan whose steps are far from the effects they rely on: `check_status`
is asked of a drive that its feed may not have reached, and a rotation is used several
steps after it was reported.  So `PlanInv` looks two ways.  Of a drive it says what
the commands that are still in its lists will leave: at rest (`Settled`,
`Resting`), with a goal (`Bound`), at rest with its rotation reported (`Located`).
Of a plan it says that what step k relies on holds now, or is brought about by an
earlier step, and that no step between undoes it (`Rested`, `Placed`, `Asked`, all
three of the one form `Holds`).  Executing a step moves a fact from the second
kind to the first; a step of line or drive keeps the first kind, which is where
`PromptInv` is needed.  `WaitInv` is the waiting loop: in a round without motion
so far, each drive that has been asked stands still and stays so, since the round
has nothing for it to execute.  From it: `MovesArrive`, `HomeIsInOrder`,
`ScansLocate`, `OneJointAtATime`, `SweepsKeepStep`.

It needs of `parameters.ini` what `MotionMacroAssumption` says: `single_motion_var`
ends its steering with the feed (`ST`, `VE`, `FP`), `stop_motion` leaves the drive
at rest (`SJ`, `ST`), the macros of the start-up start no motion.
`NoneCommandAssumption` says that "no command" is none of the console's.

**TargetHandoff_proofs.**  `TypeCorrect`; `ReportsAcquiredOnce` (inductive on its
own: the flag is true only for a report nobody has acquired, also between test
and clear); `RecordsWhole`, from `HandoffInv`, which says how far each thread
has come with its record.  It rests on each target having one thread.
`BestIsFound` is about a pass while `quiet`: `QuietInv` (no thread is in
`data_test`, so every target is whole) and `PassInv`, which has the loop's
invariant (what the index has passed is acquired and `best` is the best of it, the
first of equals) and those of the steps between test and record.  The storage may
hold a target twice: the first place counts, and the second finds the flag cleared.

**Planner_proofs.**  The planner's steps are further steps of the main thread, so
`PlanHandoff` first shows that they keep what is proved of the handoff
(`PlannerRecordsWhole`).  `FocusIsFound` is about each target that no report comes to
during a pass, whatever comes to the others.  Its invariant is `CellInv`: such a
target is whole and holds its last report (`UntouchedWhole`), it is still to be
visited, or acquired, and if it was in view nothing farther than it is the focus,
in whatever order the set is walked (`NearestSoFar`); and if the focus is such a
target, `nearest` and `save` are of its report, although x and y are read apart and
twice, since nobody writes them.  That the first sighting becomes the focus at all
needs every distance to be less than the 10000.0 that the loop begins with
(`PlannerAssumption`).
`PlannerAcquiresOnce`: between its test and its assignment only a new report can
come (`OnceInv`).

**ArmGeometry_proofs.**  `AnglesDefined` (no `NaN`) and `HandReaches` (the law of
cosines at both joints in all three cases), from lemmas on integer arithmetic:
order of squares, the cosine's bounds from the triangle inequalities, and what
`sides_to_angles` returns.  `ArmAssumption` is used exactly where the code
relies on it.  `TargetIsKept`: direction and radius are those of the point, by the
order of squares.  `RotationsRead` follows a pose back through
`rotation_to_cartesian`: cosines and sines are numbers a + b sqrt(K), two
identities of the triangle (`ArmAlgebra`) say that the projections add up to the
radius and that the roots cancel, and `ReadBack` reads off the coordinates.  Its
invariant, `ReadInv`, adds to `HandOnTarget` the form of the shoulder's angle that
`set_target` computed, which is not reduced.

**SensorStream_proofs.**  `StreamInvariant`, for every alphabet of tokens and every
cut of the stream into words:

    StreamInv == TypeInv /\ TakenInv /\ ViewInv

`TakenInv` is the strengthening: the stream is a part that has been taken and the
part of `data` that the inner loop will see (`Seen`: not the empty token at its
end), and of the taken part all records but the last are delivered and the last is
`previous_partial` (`Told`).  Taking a token moves the cut by one place; the lemmas
on `RecordsOf` say what that does to the records: a header begins a new one, any
other token makes the last one longer, and one before the first header changes
nothing.  `ViewInv`: a known target is believed in view just when its last
delivered record says so.  From it `NewestWaitsHolds`, and `ThreadKeepsPromise`:
every step is one of RecordStream or a stutter - a word may complete records, a
token may deliver one.

**TextBuffer_proofs.**  The functions here that are not recursive, on every text
over every alphabet.  A scan stops at the first place that stops it (`PastIs`,
`UntilIs`, `FindIs`), `trim` leaves the part between the first and the last
character that is not white (`TrimIs`); so `TrimIsTightHolds`.  `CutsRejoinHolds`: a
text cut at a key, at its last separator or behind a quoted part is the parts
joined, and no key is left in the name.  For `split_string_quotes` the argument is
that trimming the text behind the quote leaves what trimming the whole text leaves
there (`EndIsTrimmed`), so its first character, where the code cuts, is the one
behind the quote.  `QuotedPartHolds` compares `token_quotes` with `token`: the closing
quote is the first one not behind the other kind, so the longer token begins with
the plain one.  `FloatsAreDigitsHolds` counts the points `isfloat` lets through.
`LineIsFactored` is one turn of the loop of `factor_quotes`, from any place in a text
of any length: which quotes of the line stay, that nothing else changes, and where the
next turn begins.

**SequenceFacts.**  The lemmas both use: least and greatest elements of a set of
places, from the well-foundedness of < on the naturals; parts of parts, parts side
by side, places in a concatenation.

**Model-checked only.**  Everything temporal under fairness (`CallReturns`,
`CommandEnds`, `CellFills`, `WaitEnds`, `ReadingEnds`, and of `RecordsDelivered` that
each complete record is delivered at last): out of the prover's reach, as is
ENABLED.  What a recursive definition computes for every input cannot be proved
with the installed provers (induction over data), and loops over texts, words and
lines are recursive functions or folds: so the other properties of `TextBuffer`
(`LinesKeepThePage`, `PiecesAreFound`, `SubstReversible`, `SectionIsBalanced`,
`QuotesFactored`, `NumbersReadBack`) and those of `ParameterFile`, whose lines come
from such a function, stay with TLC, and their instances are every input up to a
length.  Parts of three of them are proved: `QuotedPartIsWhole` of
`PiecesAreFound`, `FloatsAreDigits` of `NumbersReadBack`, and for `QuotesFactored`
what one turn of the loop over the lines does (`LineIsFactored`).


## 6. Where the program and its comments disagree

The first three are runs that TLC answers with a counterexample; `PROJECT.json` quotes
the lines.  The fourth is what `FocusIsNearest` says, checked by `planner_cell` and proved
(`FocusIsFound`).

- **HOME need not wait for motor 1** (`arm_home_late`).  `arm_2d.cpp:2407`.
  Nothing discards what is in the port before a command is written, and nothing
  compares a response with the command; so an answer later than the polling loop
  is the response to the next command, of either drive, and an idle verdict can
  come from an earlier answer.  The README of the program knows of delayed
  reports; the code does not tell them apart.
- **X need not report where the arm is** (`arm_report`).  `arm_2d.cpp:1803`:
  "Report the position of the arm right now".  HOME moves the arm and leaves
  `sg_current_x, sg_current_y`.
- **A locus need not have been seen** (`handoff_locus`).  `arm_2d.cpp:1939`.  Four
  unlocked reads against four unlocked writes.
- **A pass of T does not go to the center.**  `arm_2d.cpp:807`:
  "x_hat,y_hat is now at the center of the pattern".  Lines 746-747 take `fov_w` and
  `fov_h` for the middle, which is at half of them (`arm_configuration.h:458-459`).
  The way from the pattern to that corner is added to the pattern's position, so
  the sum is the corner whatever has been seen.

What the models show besides, without a line that promises otherwise:

- With late answers a waiting loop of two drives can go on for ever: the first
  drive's polls end before anything arrives, the second reads all lines, and the
  first drive's `_parameter` never becomes a status.
- A point out of reach sends both motors to zero but keeps the joint angles of
  the point before, which the camera's transformations then use.
- `rotation_to_cartesian` gives the x of the hand and not its y: one part of the
  arm is taken to the other side.  With the sign of S it is the upper arm, with
  that of SPR the fore arm; the y is right only where that part is level
  (`RotationsReadX`).  SPD passes the rotations in another unit (`rad * gear`).
- A record that says "not there" with `,,` at the end of a word loses it: one
  comma is cut off and the inner loop does not see an empty last token.
- SPR computes its rows from the elbow's steps before the way home.
- `at_goal` is false on every path, so T does not end; when no target is of the
  first tier it sends the arm to the same place for ever.
- `locate_in_cell` prefers the pattern nearest to the corner (`fov_w`, `fov_h`) of
  the view to one nearer to its centre (`FocusIsNearest`).
- `split_string_quotes` cuts the text behind a quote at the character that
  follows the quote: an inner `c` hides the separator.
- `token_list` drops pieces of one character, but not the last one.


## 7. What is not modelled, and why

- Start-up: opening ports and building arrays in a fixed order, two loops that
  wait for the outside.  Its decisions are modelled where they matter:
  `process_parameters` in index order, `read_parameters`, the sensors'
  descriptions.
- The arithmetic of travel offsets, of fields of view and of camera frames
  (`transformations.h`), and rounding of doubles and of angles to motor steps:
  real arithmetic, out of TLC's reach.  A place computed so is any place.
- Braking.  `ST` and `SJ` bring a drive to rest at once (`GoalAfter`).  A real drive
  slows down (`DE400`, `DE200`, `parameters.ini:81,93`), for some milliseconds, and
  `scan_for_pattern` asks for the rotation without waiting for it
  (`arm_2d.cpp:1664-1677`); what `ScanLocates` and `AnswersQueries` say of a drive
  after its stop leaves that time out.
- The `\r` that `run_commands2` writes after each poll (`serialback.xpp:299-302`): it
  ends no command.
- A gear that is not an integer: `step_n_motion` truncates n times the gear
  (`arm_2d.cpp:850-851`), and with an integer there is nothing to truncate.
- The points of `walk_a_line` (`arm_2d.cpp:1446-1449`): with a y beyond the start
  radius it takes the root of a negative number and hands `set_target` a NaN.
  `PointsAssumption` has real points only.
- What gets lost of a camera's stream before records are made of it: up to two
  empty tokens at a word's end (`uiinterfacethread.cpp:534`).  It is in the steps of
  SensorStream, and `Kept` takes it out of the stream that the properties compare
  with; they speak of what is left.
- `trim_from_end` and `trim_end` of a text that is one white character, and `trim_end`
  of an empty one: the loop runs on before the buffer.  `trim` cuts the white at
  the beginning off first and `clear_empty_lines` leaves blank lines out.
- Two threads that insert into `sg_target_map` at once: a race on the tree
  inside the map, which has no outcome one could state.  What the insertion of
  an unknown key does in one thread is in SensorStream.
- Loss on the serial line: no code handles it; an answer that never comes is as
  one that comes after the loop, which the late instances have.
- Of `static_utils.h`: dates, files, directories, random names, output wording;
  buffers of a fixed length (`token_list` 128, `replace_between` 256,
  `extract_field` 512 characters), which the texts of the runs do not fill;
  `pack_spaces` (it leaves the text's old end behind the new one) and
  `split_string_end` (its loop need not end when the divider is white), which
  nothing calls.
- `run_commands`, `get_next_com`, `sink_drive_response`,
  `run_motor_command_list` and the UI reader thread with its message queue:
  never called.
- Formatting, prompts, logging, the simulated messages of `test_control.cpp`,
  vendored and build files.
