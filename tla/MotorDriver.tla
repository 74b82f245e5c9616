----------------------------- MODULE MotorDriver -----------------------------
(***************************************************************************)
(* The serial line between the arm program and its motor drives.           *)
(*                                                                         *)
(* One thread (the main thread) calls the methods of the MotorDriver       *)
(* objects, one call at a time.  A call appends commands to the object's   *)
(* list and run_lines hands them one by one to run_commands2, which writes *)
(* the command and polls the port: a line that is there is given to        *)
(* handle_command_response, and a run of empty polls ends the wait.        *)
(*                                                                         *)
(* All drives share one RS-232 line behind a hub.  The drives and the line *)
(* are external: they are modelled from the commands the program sends     *)
(* (parameters.ini) and the answers it parses.                             *)
(***************************************************************************)
EXTENDS Integers, Sequences

CONSTANTS
  Drives,       \* indices of the MotorDriver objects, 1, 2, ...
  Steps,        \* the step counts that callers ask for
  Macro,        \* Macro[d][key]: the commands of the (m)key[d] entry
  StartSteps,   \* StartSteps[d]: what check_vars puts into set_run_parameters
  Tries,        \* the bound of the polling loop (10 in run_commands2)
  AnswerDelay,  \* the empty polls an answer may take, from its command on
  Acks,         \* whether a command that asks nothing may be acknowledged
  Fragments,    \* whether a line may be seen before its last characters
  Simulation,   \* sg_use_simulations: nothing is written and nothing is read
  JogLimit,     \* bound: a jogging drive is stopped before it passes this
  MaxBacklog,   \* bound: commands and answers in flight when one is written
  None

-----------------------------------------------------------------------------
(* Names *)

\* What a command asks of a drive: stop, stop jogging, jog, feed to a
\* position, tell the position, set the position, tell the status; "VE"
\* stands for every other parameter line (it asks for a value).
Ops == {"ST", "SJ", "CJ", "FP", "SP", "SPn", "SC", "VE"}

Keys == {"read_power_up", "set_run_parameters", "read_reset",
         "single_motion_var", "scan_jog_action", "stop_motion",
         "rotation_query"}

Command == [op : Ops, steps : Int]

\* An answer line, or the part of it that the host has taken for a line.
Piece == [from : Drives, op : Ops, part : {"whole", "head", "tail"}, val : Int]

Calls == [fn : {"process_parameters", "run_action", "check_status",
                "current_rotation"},
          drive : Drives, left : Seq(Keys), at : Int]

NoCommand == [op |-> "ST", steps |-> 0]     \* between two commands

Jogging == None     \* the goal of a drive that moves until it is stopped

ASSUME DrivesAssumption == Drives \subseteq Nat \ {0}
ASSUME StepsAssumption == Steps \subseteq Int
ASSUME MacroAssumption == Macro \in [Drives -> [Keys -> Seq(Ops)]]
ASSUME RotationQueryAssumption ==
  \A d \in Drives : Macro[d]["rotation_query"] = <<"SP">>
ASSUME StartAssumption == StartSteps \in [Drives -> Int]
ASSUME TriesAssumption == Tries \in Nat
ASSUME DelayAssumption == AnswerDelay \in Nat
ASSUME FlagsAssumption == /\ {Fragments, Simulation} \subseteq BOOLEAN
                           /\ Acks \subseteq BOOLEAN /\ Acks # {}
ASSUME BoundsAssumption == JogLimit \in Int /\ MaxBacklog \in Nat \ {0}
ASSUME NoneAssumption ==
  None \notin Int /\ None \notin Calls /\ None \notin Piece
ASSUME NoneCallAssumption ==
  None \notin [fn : {"process_parameters", "run_action", "check_status",
                    "current_rotation"}, drive : Drives]

\* Every answer is a whole line that is there before the host stops polling.
Prompt == AnswerDelay <= Tries /\ ~Fragments

VARIABLES
  \* main thread
  started,            \* drives whose process_parameters has run
  call,               \* the method in progress, or None
  pc,                 \* "lines": in run_lines; "poll": in run_commands2
  next_com,           \* the command run_commands2 works on
  tries,
  elapsed,            \* history: empty polls since next_com was written
  \* the MotorDriver objects
  todo,               \* todo[d]: _short_command_list
  parameter,          \* parameter[d]: _parameter, or None for ""
  checking_position,
  reported_steps,     \* reported_steps[d]: the number _reported_steps reads as
  \* the line
  inbox,              \* inbox[d]: commands that have not been executed
  wire,               \* answers on their way to the host, in order
  rx,                 \* what in_avail() announces
  \* the drives
  pos,
  goal

host == <<started, call, pc, next_com, tries, elapsed>>
objects == <<todo, parameter, checking_position, reported_steps>>
line == <<inbox, wire, rx>>
drives == <<pos, goal>>
vars == <<started, call, pc, next_com, tries, elapsed, todo, parameter,
          checking_position, reported_steps, inbox, wire, rx, pos, goal>>

-----------------------------------------------------------------------------
(* Helpers *)

Between(a, x, b) == (a <= x /\ x <= b) \/ (b <= x /\ x <= a)

AtRest(d) == goal[d] = pos[d]

\* Whatever follows '='; nothing does in a head, which ends with it, nor in a
\* tail, which has none.
StepsIn(p) == IF p.part = "whole" THEN p.val ELSE 0

\* check_status compares what follows '=', or the whole text, with "0001".
IsIdle(p) == p # None /\ p.op = "SC" /\ p.part # "head" /\ p.val = 1

Returning == call # None /\ pc = "lines" /\ todo[call.drive] = <<>>

Outstanding == (\E d \in Drives : inbox[d] # <<>>) \/ wire # <<>>

\* The commands of a macro with {STEPS} and the start position filled in.
Filled(d, key, n) ==
  [i \in DOMAIN Macro[d][key] |->
     [op |-> Macro[d][key][i],
      steps |-> CASE Macro[d][key][i] = "FP" -> n
                  [] Macro[d][key][i] = "SPn" -> StartSteps[d]
                  [] OTHER -> 0]]

StatusLine == <<[op |-> "SC", steps |-> 0]>>

\* Mutants of FreshTries: one poll too few, one too many.
FreshTriesLess == IF Tries = 0 THEN 0 ELSE Tries - 1
FreshTriesMore == Tries + 1

\* The unsigned counter of the polling loop, as each command sets it.
FreshTries == Tries

\* ... and as a line that has been read leaves it.
TriesAfterLine == 0

\* What a drive does with a command, and what its answer says.  ST and SJ stop it
\* at once: the time in which a real drive brakes (DE in parameters.ini) is left
\* out, so scan_for_pattern, which asks for the rotation without waiting for it,
\* always asks a drive at rest.
GoalAfter(d, c) ==
  CASE c.op = "FP" -> c.steps
    [] c.op = "SPn" -> c.steps
    [] c.op \in {"ST", "SJ"} -> pos[d]
    [] c.op = "CJ" -> Jogging
    [] OTHER -> goal[d]

PosAfter(d, c) == IF c.op = "SPn" THEN c.steps ELSE pos[d]

Query(c) == c.op \in {"SP", "SC", "VE"}

Answer(d, c) ==
  [from |-> d, op |-> c.op, part |-> "whole",
   val |-> CASE c.op = "SP" -> pos[d]
             [] c.op = "SC" /\ AtRest(d) -> 1
             [] OTHER -> 0]

\* The tail of a line completes the head when that is still in the buffer.
Received(p) ==
  IF p.part = "tail" /\ rx # <<>>
  THEN [rx EXCEPT ![Len(rx)] = [p EXCEPT !.part = "whole"]]
  ELSE Append(rx, p)

-----------------------------------------------------------------------------
Init ==
  /\ started = {}
  /\ call = None /\ pc = "lines"
  /\ next_com = NoCommand /\ tries = 0 /\ elapsed = 0
  /\ todo = [d \in Drives |-> <<>>]
  /\ parameter = [d \in Drives |-> None]
  /\ checking_position = [d \in Drives |-> FALSE]
  /\ reported_steps = [d \in Drives |-> 0]
  /\ inbox = [d \in Drives |-> <<>>] /\ wire = <<>> /\ rx = <<>>
  /\ pos = [d \in Drives |-> 0] /\ goal = [d \in Drives |-> 0]

-----------------------------------------------------------------------------
(* The methods of MotorDriver: each appends its commands and runs them *)

Begin(fn, d, left, lines) ==
  /\ call = None
  /\ call' = [fn |-> fn, drive |-> d, left |-> left,
               at |-> IF fn = "current_rotation" THEN pos[d] ELSE 0]
  /\ todo' = [todo EXCEPT ![d] = @ \o lines]

\* At start-up, for the drives in index order.
ProcessParameters(d) ==
  /\ d \notin started
  /\ \A e \in Drives : e < d => e \in started
  /\ Begin("process_parameters", d, <<"set_run_parameters", "read_reset">>,
           Filled(d, "read_power_up", 0))
  /\ started' = started \union {d}
  /\ UNCHANGED <<pc, next_com, tries, elapsed, parameter, checking_position,
                 reported_steps, line, drives>>

RunAction(d, key, n) ==
  /\ started = Drives
  /\ Begin("run_action", d, <<>>, Filled(d, key, n))
  /\ UNCHANGED <<started, pc, next_com, tries, elapsed, parameter,
                 checking_position, reported_steps, line, drives>>

CheckStatus(d) ==
  /\ started = Drives
  /\ Begin("check_status", d, <<>>, StatusLine)
  /\ UNCHANGED <<started, pc, next_com, tries, elapsed, parameter,
                 checking_position, reported_steps, line, drives>>

\* Mutant of CurrentRotation: _checking_position is not set.
CurrentRotationUnflagged(d) ==
  /\ started = Drives
  /\ Begin("current_rotation", d, <<>>, Filled(d, "rotation_query", 0))
  /\ UNCHANGED <<started, pc, next_com, tries, elapsed, parameter,
                 checking_position, reported_steps, line, drives>>

CurrentRotation(d) ==
  /\ started = Drives
  /\ Begin("current_rotation", d, <<>>, Filled(d, "rotation_query", 0))
  /\ checking_position' = [checking_position EXCEPT ![d] = TRUE]
  /\ UNCHANGED <<started, pc, next_com, tries, elapsed, parameter,
                 reported_steps, line, drives>>

\* process_parameters goes on to its next macro ...
NextMacro ==
  /\ Returning /\ call.left # <<>>
  /\ call' = [call EXCEPT !.left = Tail(@)]
  /\ todo' = [todo EXCEPT ![call.drive] =
                @ \o Filled(call.drive, Head(call.left), 0)]
  /\ UNCHANGED <<started, pc, next_com, tries, elapsed, parameter,
                 checking_position, reported_steps, line, drives>>

\* ... and a call whose list is empty returns.
Return ==
  /\ Returning /\ call.left = <<>>
  /\ call' = None
  /\ checking_position' = [checking_position EXCEPT ![call.drive] = FALSE]
  /\ UNCHANGED <<started, pc, next_com, tries, elapsed, todo, parameter,
                 reported_steps, line, drives>>

-----------------------------------------------------------------------------
(* run_lines and run_commands2 *)

\* Take the next command and write it; what the port still holds is not
\* discarded.  In simulation nothing is written, and nothing is handled.
RunCommand ==
  /\ call # None /\ pc = "lines" /\ todo[call.drive] # <<>>
  /\ Len(wire) + Len(inbox[call.drive]) < MaxBacklog
  /\ todo' = [todo EXCEPT ![call.drive] = Tail(@)]
  /\ IF Simulation
     THEN UNCHANGED <<pc, next_com, tries, elapsed, inbox>>
     ELSE /\ next_com' = Head(todo[call.drive])
          /\ inbox' = [inbox EXCEPT ![call.drive] = Append(@, next_com')]
          /\ pc' = "poll" /\ tries' = FreshTries /\ elapsed' = 0
  /\ UNCHANGED <<started, call, parameter, checking_position, reported_steps,
                 wire, rx, drives>>

\* A poll that finds characters: up to '\r' or as many as there are, they are
\* the response of the object whose command was written last.
ReadLine ==
  /\ pc = "poll" /\ rx # <<>>
  /\ rx' = Tail(rx)
  /\ parameter' = [parameter EXCEPT ![call.drive] = Head(rx)]
  /\ reported_steps' =
       IF checking_position[call.drive]
       THEN [reported_steps EXCEPT ![call.drive] = StepsIn(Head(rx))]
       ELSE reported_steps
  /\ tries' = TriesAfterLine
  /\ UNCHANGED <<started, call, pc, next_com, elapsed, todo,
                 checking_position, inbox, wire, drives>>

\* Mutant of PollEmpty: the loop is not bounded.
PollEmptyForever ==
  /\ pc = "poll" /\ rx = <<>>
  /\ UNCHANGED vars

\* A poll that finds nothing, and the tenth of a second after it.  The '\r' that is
\* written after each poll ends no command and is left out.
PollEmpty ==
  /\ pc = "poll" /\ rx = <<>>
  /\ Outstanding => elapsed < AnswerDelay
  /\ IF tries > 0
     THEN /\ tries' = tries - 1 /\ elapsed' = elapsed + 1
          /\ UNCHANGED <<pc, next_com>>
     ELSE /\ tries' = 0 /\ elapsed' = 0
          /\ pc' = "lines" /\ next_com' = NoCommand
  /\ UNCHANGED <<started, call, objects, line, drives>>

-----------------------------------------------------------------------------
(* The drives and the line *)

Execute(d) ==
  /\ inbox[d] # <<>>
  /\ LET c == Head(inbox[d])
     IN /\ goal' = [goal EXCEPT ![d] = GoalAfter(d, c)]
        /\ pos' = [pos EXCEPT ![d] = PosAfter(d, c)]
        /\ \E ack \in Acks :
             wire' = IF Query(c) \/ ack THEN Append(wire, Answer(d, c)) ELSE wire
  /\ inbox' = [inbox EXCEPT ![d] = Tail(@)]
  /\ UNCHANGED <<host, objects, rx>>

Travel(d) ==
  /\ ~AtRest(d)
  /\ pos' = [pos EXCEPT ![d] =
               IF goal[d] = Jogging \/ goal[d] > @ THEN @ + 1 ELSE @ - 1]
  /\ goal[d] = Jogging => pos[d] < JogLimit
  /\ UNCHANGED <<host, objects, line, goal>>

Arrive ==
  /\ wire # <<>>
  /\ rx' = Received(Head(wire))
  /\ wire' = Tail(wire)
  /\ UNCHANGED <<host, objects, inbox, drives>>

\* The characters up to and with '=' are there, the number is not.
ArriveHead ==
  /\ Fragments
  /\ wire # <<>> /\ Head(wire).part = "whole"
  /\ rx' = Append(rx, [Head(wire) EXCEPT !.part = "head"])
  /\ wire' = [wire EXCEPT ![1].part = "tail"]
  /\ UNCHANGED <<host, objects, inbox, drives>>

-----------------------------------------------------------------------------
Caller ==
  \E d \in Drives :
     \/ ProcessParameters(d)
     \/ CheckStatus(d)
     \/ CurrentRotation(d)
     \/ \E n \in Steps : RunAction(d, "single_motion_var", n)
     \/ \E key \in {"stop_motion", "scan_jog_action"} : RunAction(d, key, 0)

Engine == NextMacro \/ Return \/ RunCommand \/ ReadLine \/ PollEmpty

External ==
  \/ \E d \in Drives : Execute(d) \/ Travel(d)
  \/ Arrive
  \/ ArriveHead

Next == Caller \/ Engine \/ External

Spec == Init /\ [][Next]_vars

\* The main thread runs, drives execute what they are sent, and a line that
\* was put on the wire arrives.
LineFairness ==
  /\ WF_vars(Engine)
  /\ \A d \in Drives : WF_vars(Execute(d))
  /\ WF_vars(Arrive)

FairSpec == Spec /\ LineFairness

-----------------------------------------------------------------------------
(* Properties *)

\* Every variable keeps its type; the counters of the polling loop stay within
\* its bound (run_commands2).
TypeOK ==
  /\ started \subseteq Drives
  /\ call \in Calls \union {None}
  /\ pc \in {"lines", "poll"}
  /\ pc = "poll" => call # None
  /\ next_com \in Command
  /\ tries \in 0..Tries
  /\ elapsed \in 0..Tries
  /\ pc = "poll" => tries + elapsed <= Tries
  /\ todo \in [Drives -> Seq(Command)]
  /\ parameter \in [Drives -> Piece \union {None}]
  /\ checking_position \in [Drives -> BOOLEAN]
  /\ reported_steps \in [Drives -> Int]
  /\ inbox \in [Drives -> Seq(Command)]
  /\ wire \in Seq(Piece)
  /\ rx \in Seq(Piece)
  /\ pos \in [Drives -> Int]
  /\ goal \in [Drives -> Int \union {None}]

\* With prompt answers nothing is in flight between two commands, so the next
\* one is written to a quiet line (run_commands2 does not flush the port).
QuietLine ==
  pc = "lines" => ~Outstanding /\ rx = <<>>

\* The response given to handle_command_response is the answer of the drive
\* that was addressed, to the command that was written (serialback.xpp:319).
OwnResponse ==
  pc = "poll" /\ rx # <<>> =>
    Head(rx).from = call.drive /\ Head(rx).op = next_com.op

\* When check_status returns "idle", which ends the motion loops, the drive
\* stands still and has no command left to execute: the verdict is not read
\* from the answer to an earlier call, or to the other drive's.
StatusTruthful ==
  Returning /\ call.fn = "check_status" /\ IsIdle(parameter[call.drive]) =>
    AtRest(call.drive) /\ inbox[call.drive] = <<>>

\* What current_rotation returns is a position the drive has had since the
\* call began: it moves one way, from where it was then to where it is now.
RotationTruthful ==
  Returning /\ call.fn = "current_rotation" =>
    Between(call.at, reported_steps[call.drive], pos[call.drive])

-----------------------------------------------------------------------------
(* Why they hold: the inductive invariant of the prompt regime *)

\* At most one command is out, and it is the one run_commands2 waits for:
\* either the drive still has it, or its answer travels, or it can be read.
\* Until a line is read, every empty poll has been paid for with a try.
ExchangeInv ==
  /\ pc = "lines" => ~Outstanding /\ rx = <<>>
  /\ pc = "poll" =>
       LET d == call.drive
           Mine(p) == p.from = d /\ p.op = next_com.op /\ p.part = "whole"
       IN /\ \A e \in Drives \ {d} : inbox[e] = <<>>
          /\ inbox[d] # <<>> =>
               /\ Head(inbox[d]) = next_com /\ Tail(inbox[d]) = <<>>
               /\ wire = <<>> /\ rx = <<>>
               /\ tries = Tries - elapsed
          /\ wire # <<>> =>
               /\ Mine(Head(wire)) /\ Tail(wire) = <<>>
               /\ inbox[d] = <<>> /\ rx = <<>>
               /\ tries = Tries - elapsed
          /\ rx # <<>> =>
               /\ Mine(Head(rx)) /\ Tail(rx) = <<>>
               /\ inbox[d] = <<>> /\ wire = <<>>

\* A list belongs to the call in progress; check_status and current_rotation
\* run one command each; a position is being checked in current_rotation only.
CallInv ==
  /\ \A d \in Drives :
       call = None \/ d # call.drive => todo[d] = <<>> /\ ~checking_position[d]
  /\ call # None =>
       /\ checking_position[call.drive] <=> call.fn = "current_rotation"
       /\ call.fn \in {"check_status", "current_rotation"} =>
            /\ call.left = <<>>
            /\ pc = "poll" => todo[call.drive] = <<>>
            /\ todo[call.drive] # <<>> => Tail(todo[call.drive]) = <<>>
       /\ call.fn = "check_status" =>
            /\ pc = "poll" => next_com.op = "SC"
            /\ todo[call.drive] # <<>> => Head(todo[call.drive]).op = "SC"
       /\ call.fn = "current_rotation" =>
            /\ pc = "poll" => next_com.op = "SP"
            /\ todo[call.drive] # <<>> => Head(todo[call.drive]).op = "SP"

\* The answer to a status or position query is true wherever it is: on the
\* wire, in the buffer, or in the object once it has been read.  The drive
\* keeps its course while its position is asked for.
AnswerInv ==
  call # None =>
    LET d == call.drive
        Asking == call.fn = "current_rotation"
        True(p) == /\ p.op = "SC" /\ p.val = 1 => AtRest(d)
                   /\ p.op = "SP" /\ Asking => Between(call.at, p.val, pos[d])
        Nothing == inbox[d] = <<>> /\ wire = <<>> /\ rx = <<>>
    IN /\ wire # <<>> => True(Head(wire))
       /\ rx # <<>> => True(Head(rx))
       /\ call.fn = "check_status" /\ todo[d] = <<>> /\ Nothing =>
            (IsIdle(parameter[d]) => AtRest(d))
       /\ Asking /\ todo[d] = <<>> /\ Nothing =>
            Between(call.at, reported_steps[d], pos[d])
       /\ Asking =>
            \/ call.at <= pos[d] /\ (goal[d] = Jogging \/ pos[d] <= goal[d])
            \/ pos[d] <= call.at /\ goal[d] # Jogging /\ goal[d] <= pos[d]

PromptInv == TypeOK /\ ExchangeInv /\ CallInv /\ AnswerInv

-----------------------------------------------------------------------------
(* What the queries promise *)

\* The drive's answer to the query in progress: on the wire, in the buffer, or
\* in the object that will return it.
ServiceAnswer ==
  IF call = None \/ call.fn \notin {"check_status", "current_rotation"} THEN None
  ELSE LET d == call.drive
       IN CASE todo[d] # <<>> \/ inbox[d] # <<>> -> None
            [] todo[d] = <<>> /\ inbox[d] = <<>> /\ wire # <<>> -> Head(wire).val
            [] todo[d] = <<>> /\ inbox[d] = <<>> /\ wire = <<>> /\ rx # <<>> ->
                 Head(rx).val
            [] OTHER -> IF call.fn = "check_status" THEN parameter[d].val
                        ELSE reported_steps[d]

ServiceCall ==
  IF call = None THEN None ELSE [fn |-> call.fn, drive |-> call.drive]

\* With prompt answers each query is answered by its own drive at one moment
\* between call and return, and the value that is returned was true then
\* (check_status and current_rotation implement DriveService).
Service == INSTANCE DriveService WITH call <- ServiceCall, answer <- ServiceAnswer
AnswersQueries == Service!Spec

\* Every call returns, answered or not: the polling loop is bounded.
CallReturns == call # None ~> call = None
=============================================================================
