-------------------------- MODULE MotorDriver_proofs --------------------------
(***************************************************************************)
(* Proofs about MotorDriver for every set of drives, every macro file and  *)
(* every bound of the polling loop.                                        *)
(***************************************************************************)
EXTENDS MotorDriver, SequenceTheorems, TLAPS

USE DrivesAssumption, StepsAssumption, MacroAssumption, StartAssumption,
    TriesAssumption, DelayAssumption, FlagsAssumption, BoundsAssumption,
    NoneAssumption

-----------------------------------------------------------------------------
(* The operators the actions are built from *)

\* A macro with its numbers filled in is a sequence of commands.
LEMMA FilledType ==
  ASSUME NEW d \in Drives, NEW key \in Keys, NEW n \in Int
  PROVE  Filled(d, key, n) \in Seq(Command)
<1> DEFINE m == Macro[d][key]
<1>1. m \in Seq(Ops)
  OBVIOUS
<1>2. Len(m) \in Nat /\ DOMAIN m = 1..Len(m)
  BY <1>1
<1>3. \A i \in 1..Len(m) : Filled(d, key, n)[i] \in Command
  BY <1>1, <1>2 DEF Filled, Command, Ops
<1>4. Filled(d, key, n) \in [1..Len(m) -> Command]
  BY <1>2, <1>3 DEF Filled
<1> QED
  BY <1>2, <1>4, SeqDef

\* Begin adds typed commands to a list and makes a typed call.
LEMMA BeginType ==
  ASSUME TypeOK, NEW d \in Drives, NEW left \in Seq(Keys),
         NEW lines \in Seq(Command),
         NEW fn \in {"process_parameters", "run_action", "check_status",
                     "current_rotation"},
         Begin(fn, d, left, lines)
  PROVE  call' \in Calls /\ todo' \in [Drives -> Seq(Command)]
<1>1. (IF fn = "current_rotation" THEN pos[d] ELSE 0) \in Int
  BY DEF TypeOK
<1>2. call' \in Calls
  BY <1>1 DEF Begin, Calls
<1>3. todo[d] \o lines \in Seq(Command)
  BY ConcatProperties DEF TypeOK
<1> QED
  BY <1>2, <1>3 DEF Begin, TypeOK

\* The answer of a drive is a piece of the line's language.
LEMMA AnswerType ==
  ASSUME NEW d \in Drives, NEW c \in Command, pos \in [Drives -> Int]
  PROVE  /\ Answer(d, c) \in Piece
         /\ Answer(d, c).from = d
         /\ Answer(d, c).op = c.op
         /\ Answer(d, c).part = "whole"
BY DEF Answer, Piece, Command

\* Arrival keeps the receive buffer a sequence of pieces.
LEMMA ReceivedType ==
  ASSUME NEW p \in Piece, rx \in Seq(Piece)
  PROVE  Received(p) \in Seq(Piece)
<1>1. CASE p.part = "tail" /\ rx # <<>>
  <2>1. [p EXCEPT !.part = "whole"] \in Piece
    BY DEF Piece
  <2>2. Len(rx) \in 1..Len(rx)
    BY <1>1, EmptySeq, LenProperties
  <2> QED
    BY <1>1, <2>1, <2>2, ExceptSeq DEF Received
<1>2. CASE ~(p.part = "tail" /\ rx # <<>>)
  BY <1>2, AppendProperties DEF Received
<1> QED
  BY <1>1, <1>2

-----------------------------------------------------------------------------
(* Type correctness *)

\* The objects as they are constructed satisfy the type invariant.
LEMMA TypeInit == Init => TypeOK
BY EmptySeq DEF Init, TypeOK, NoCommand, Command, Ops

\* Each action keeps it: the lists stay lists of commands, and the counters of
\* the polling loop stay below its bound.
LEMMA TypeNext == TypeOK /\ [Next]_vars => TypeOK'
<1> SUFFICES ASSUME TypeOK, [Next]_vars
             PROVE  TypeOK'
  OBVIOUS
<1> USE DEF host, objects, line, drives
<1>1. ASSUME NEW d \in Drives, ProcessParameters(d)
      PROVE  TypeOK'
  <2>1. <<"set_run_parameters", "read_reset">> \in Seq(Keys)
    BY DEF Keys
  <2>2. Filled(d, "read_power_up", 0) \in Seq(Command)
    BY FilledType DEF Keys
  <2>3. call' \in Calls /\ todo' \in [Drives -> Seq(Command)]
    BY <1>1, <2>1, <2>2, BeginType DEF ProcessParameters
  <2>4. pc' # "poll"
    BY <1>1 DEF ProcessParameters, Begin, TypeOK
  <2> QED
    BY <1>1, <2>3, <2>4 DEF ProcessParameters, TypeOK
<1>2. ASSUME NEW d \in Drives, NEW key \in Keys, NEW n \in Int,
             RunAction(d, key, n)
      PROVE  TypeOK'
  <2>1. call' \in Calls /\ todo' \in [Drives -> Seq(Command)]
    BY <1>2, FilledType, BeginType, EmptySeq DEF RunAction
  <2>2. pc' # "poll"
    BY <1>2 DEF RunAction, Begin, TypeOK
  <2> QED
    BY <1>2, <2>1, <2>2 DEF RunAction, TypeOK
<1>3. ASSUME NEW d \in Drives, CheckStatus(d)
      PROVE  TypeOK'
  <2>1. StatusLine \in Seq(Command)
    BY DEF StatusLine, Command, Ops
  <2>2. call' \in Calls /\ todo' \in [Drives -> Seq(Command)]
    BY <1>3, <2>1, BeginType, EmptySeq DEF CheckStatus
  <2>3. pc' # "poll"
    BY <1>3 DEF CheckStatus, Begin, TypeOK
  <2> QED
    BY <1>3, <2>2, <2>3 DEF CheckStatus, TypeOK
<1>4. ASSUME NEW d \in Drives, CurrentRotation(d)
      PROVE  TypeOK'
  <2>1. Filled(d, "rotation_query", 0) \in Seq(Command)
    BY FilledType DEF Keys
  <2>2. call' \in Calls /\ todo' \in [Drives -> Seq(Command)]
    BY <1>4, <2>1, BeginType, EmptySeq DEF CurrentRotation
  <2>3. pc' # "poll"
    BY <1>4 DEF CurrentRotation, Begin, TypeOK
  <2> QED
    BY <1>4, <2>2, <2>3 DEF CurrentRotation, TypeOK
<1>5. CASE NextMacro
  <2>1. call \in Calls /\ call.left \in Seq(Keys) /\ call.drive \in Drives
    BY <1>5 DEF NextMacro, Returning, TypeOK, Calls
  <2>2. Head(call.left) \in Keys /\ Tail(call.left) \in Seq(Keys)
    BY <1>5, <2>1, HeadTailProperties DEF NextMacro
  <2>3. call' \in Calls
    BY <1>5, <2>1, <2>2 DEF NextMacro, Calls
  <2>4. /\ todo[call.drive] \in Seq(Command)
        /\ Filled(call.drive, Head(call.left), 0) \in Seq(Command)
    <3>1. todo[call.drive] \in Seq(Command)
      BY <2>1 DEF TypeOK
    <3>2. Filled(call.drive, Head(call.left), 0) \in Seq(Command)
      <4>1. \A d \in Drives, key \in Keys : Filled(d, key, 0) \in Seq(Command)
        BY FilledType
      <4> QED
        BY <2>1, <2>2, <4>1, Zenon
    <3> QED
      BY <3>1, <3>2
  <2>5. todo[call.drive] \o Filled(call.drive, Head(call.left), 0)
          \in Seq(Command)
    BY <2>4, ConcatProperties
  <2> QED
    BY <1>5, <2>1, <2>3, <2>5 DEF NextMacro, Returning, TypeOK
<1>6. CASE Return
  BY <1>6 DEF Return, Returning, TypeOK, Calls
<1>7. CASE RunCommand
  <2>1. call \in Calls /\ call.drive \in Drives
    BY <1>7 DEF RunCommand, TypeOK, Calls
  <2> DEFINE q == todo[call.drive]
  <2>2. Head(q) \in Command /\ Tail(q) \in Seq(Command)
    <3>1. q \in Seq(Command) /\ q # <<>>
      BY <1>7, <2>1 DEF RunCommand, TypeOK
    <3> QED
      BY <3>1, HeadTailProperties
  <2>3. todo' \in [Drives -> Seq(Command)]
    BY <1>7, <2>1, <2>2 DEF RunCommand, TypeOK
  <2>4. CASE Simulation
    BY <1>7, <2>3, <2>4 DEF RunCommand, TypeOK
  <2>5. CASE ~Simulation
    <3>1. next_com' \in Command
      BY <1>7, <2>2, <2>5 DEF RunCommand
    <3>2. Append(inbox[call.drive], next_com') \in Seq(Command)
      BY <2>1, <3>1, AppendProperties DEF TypeOK
    <3>3. inbox' \in [Drives -> Seq(Command)]
      <4>1. inbox' = [inbox EXCEPT ![call.drive] =
                        Append(inbox[call.drive], next_com')]
        BY <1>7, <2>5 DEF RunCommand
      <4>2. inbox \in [Drives -> Seq(Command)]
        BY DEF TypeOK
      <4> QED
        BY <2>1, <3>2, <4>1, <4>2
    <3> QED
      BY <1>7, <2>3, <2>5, <3>1, <3>3
      DEF RunCommand, TypeOK, FreshTries
  <2> QED
    BY <2>4, <2>5
<1>8. CASE ReadLine
  <2>1. call \in Calls /\ call.drive \in Drives
    BY <1>8 DEF ReadLine, TypeOK, Calls
  <2>2. Head(rx) \in Piece /\ Tail(rx) \in Seq(Piece)
    BY <1>8, HeadTailProperties DEF ReadLine, TypeOK
  <2>3. StepsIn(Head(rx)) \in Int
    BY <2>2 DEF StepsIn, Piece
  <2> QED
    BY <1>8, <2>1, <2>2, <2>3 DEF ReadLine, TypeOK, TriesAfterLine
<1>9. CASE PollEmpty
  <2>1. /\ tries' \in 0..Tries /\ elapsed' \in 0..Tries
        /\ pc' \in {"lines", "poll"}
        /\ pc' = "poll" => call' # None /\ tries' + elapsed' <= Tries
    BY <1>9 DEF PollEmpty, TypeOK
  <2>2. next_com' \in Command
    BY <1>9 DEF PollEmpty, TypeOK, NoCommand, Command, Ops
  <2>3. UNCHANGED <<started, call, todo, parameter, checking_position,
                    reported_steps, inbox, wire, rx, pos, goal>>
    BY <1>9 DEF PollEmpty
  <2> QED
    BY <2>1, <2>2, <2>3 DEF TypeOK
<1>10. ASSUME NEW d \in Drives, Execute(d)
       PROVE  TypeOK'
  <2> DEFINE c == Head(inbox[d])
  <2>1. c \in Command /\ Tail(inbox[d]) \in Seq(Command)
    BY <1>10, HeadTailProperties DEF Execute, TypeOK
  <2>2. GoalAfter(d, c) \in Int \union {None}
    BY <2>1 DEF GoalAfter, TypeOK, Command, Jogging
  <2>3. PosAfter(d, c) \in Int
    BY <2>1 DEF PosAfter, TypeOK, Command
  <2>4. Append(wire, Answer(d, c)) \in Seq(Piece)
    BY <2>1, AnswerType, AppendProperties DEF TypeOK
  <2>5. wire' \in Seq(Piece)
    BY <1>10, <2>4 DEF Execute, TypeOK
  <2> HIDE DEF c
  <2> QED
    BY <1>10, <2>1, <2>2, <2>3, <2>5 DEF Execute, TypeOK, c
<1>11. ASSUME NEW d \in Drives, Travel(d)
       PROVE  TypeOK'
  <2>1. pos[d] \in Int /\ pos[d] + 1 \in Int /\ pos[d] - 1 \in Int
    BY DEF TypeOK
  <2>2. pos' \in [Drives -> Int]
    BY <1>11, <2>1 DEF Travel, TypeOK
  <2> QED
    BY <1>11, <2>2 DEF Travel, TypeOK
<1>12. CASE Arrive
  <2>1. Head(wire) \in Piece /\ Tail(wire) \in Seq(Piece)
    BY <1>12, HeadTailProperties DEF Arrive, TypeOK
  <2>2. Received(Head(wire)) \in Seq(Piece)
    BY <2>1, ReceivedType DEF TypeOK
  <2> QED
    BY <1>12, <2>1, <2>2 DEF Arrive, TypeOK
<1>13. CASE ArriveHead
  <2>1. Head(wire) \in Piece /\ Head(wire) = wire[1] /\ 1 \in 1..Len(wire)
    BY <1>13, HeadTailProperties, EmptySeq DEF ArriveHead, TypeOK
  <2>2. /\ [Head(wire) EXCEPT !.part = "head"] \in Piece
        /\ [wire[1] EXCEPT !.part = "tail"] \in Piece
    BY <2>1 DEF Piece
  <2>3. wire' \in Seq(Piece)
    BY <1>13, <2>1, <2>2, ExceptSeq DEF ArriveHead, TypeOK
  <2>4. rx' \in Seq(Piece)
    BY <1>13, <2>2, AppendProperties DEF ArriveHead, TypeOK
  <2> QED
    BY <1>13, <2>3, <2>4 DEF ArriveHead, TypeOK
<1>14. CASE UNCHANGED vars
  BY <1>14 DEF vars, TypeOK
<1> QED
  <2>1. CASE Caller
    BY <2>1, <1>1, <1>2, <1>3, <1>4 DEF Caller, Keys
  <2>2. CASE Engine
    BY <2>2, <1>5, <1>6, <1>7, <1>8, <1>9 DEF Engine
  <2>3. CASE External
    BY <2>3, <1>10, <1>11, <1>12, <1>13 DEF External
  <2> QED
    BY <2>1, <2>2, <2>3, <1>14 DEF Next

\* Type correctness of the line, its objects and its drives, in every regime
\* of answers: prompt, late or in fragments.
THEOREM TypeCorrect == Spec => []TypeOK
BY TypeInit, TypeNext, PTL DEF Spec

-----------------------------------------------------------------------------
(* The prompt regime: one exchange at a time *)

\* A sequence that gets its first element.
LEMMA AppendToEmpty ==
  ASSUME NEW S, NEW x \in S, NEW q, q = <<>>
  PROVE  Append(q, x) # <<>> /\ Head(Append(q, x)) = x /\ Tail(Append(q, x)) = <<>>
OBVIOUS

\* Nothing is in flight before the first command.
LEMMA ExchangeInit == Init => ExchangeInv
BY DEF Init, ExchangeInv, Outstanding

\* When every answer is prompt, no step lets a command leave the polling loop
\* while its answer is out, and no step puts a second command on the line.
LEMMA ExchangeNext ==
  ASSUME Prompt
  PROVE  TypeOK /\ ExchangeInv /\ [Next]_vars => ExchangeInv'
<1> SUFFICES ASSUME TypeOK, ExchangeInv, [Next]_vars
             PROVE  ExchangeInv'
  OBVIOUS
<1> USE DEF host, objects, line, drives
<1>1. ASSUME call = None, UNCHANGED <<pc, inbox, wire, rx>>
      PROVE  ExchangeInv'
  BY <1>1 DEF ExchangeInv, Outstanding, TypeOK
<1>2. CASE Caller
  BY <1>1, <1>2 DEF Caller, ProcessParameters, RunAction, CheckStatus,
     CurrentRotation, Begin
<1>3. CASE NextMacro \/ Return
  BY <1>3 DEF NextMacro, Return, Returning, ExchangeInv, Outstanding, TypeOK
<1>4. CASE RunCommand
  <2>1. call \in Calls /\ call.drive \in Drives
    BY <1>4 DEF RunCommand, TypeOK, Calls
  <2>2. /\ \A e \in Drives : inbox[e] = <<>>
        /\ wire = <<>> /\ rx = <<>>
    BY <1>4 DEF RunCommand, ExchangeInv, Outstanding
  <2>3. CASE Simulation
    BY <1>4, <2>2, <2>3 DEF RunCommand, ExchangeInv, Outstanding
  <2>4. CASE ~Simulation
    <3> DEFINE c == Head(todo[call.drive])
    <3>1. /\ inbox' = [inbox EXCEPT ![call.drive] = Append(inbox[call.drive], c)]
          /\ next_com' = c /\ pc' = "poll" /\ tries' = Tries /\ elapsed' = 0
          /\ UNCHANGED <<call, wire, rx>>
      BY <1>4, <2>4 DEF RunCommand, FreshTries
    <3>2. /\ Append(inbox[call.drive], c) # <<>>
          /\ Head(Append(inbox[call.drive], c)) = c
          /\ Tail(Append(inbox[call.drive], c)) = <<>>
      BY <2>1, <2>2, AppendToEmpty
    <3> HIDE DEF c
    <3>3. /\ inbox'[call.drive] = Append(inbox[call.drive], c)
          /\ \A e \in Drives \ {call.drive} : inbox'[e] = <<>>
      BY <2>1, <2>2, <3>1 DEF TypeOK
    <3> QED
      BY <2>1, <2>2, <3>1, <3>2, <3>3 DEF ExchangeInv
  <2> QED
    BY <2>3, <2>4
<1>5. CASE ReadLine
  <2>1. Tail(rx) = <<>> /\ wire = <<>> /\ inbox[call.drive] = <<>>
    BY <1>5 DEF ReadLine, ExchangeInv
  <2> QED
    BY <1>5, <2>1 DEF ReadLine, ExchangeInv
<1>6. CASE PollEmpty
  <2>1. CASE tries > 0
    <3>1. /\ pc' = "poll" /\ tries' = tries - 1 /\ elapsed' = elapsed + 1
          /\ UNCHANGED <<call, next_com, inbox, wire, rx>>
      BY <1>6, <2>1 DEF PollEmpty
    <3>2. tries \in Int /\ elapsed \in Int /\ Tries \in Int
      BY DEF TypeOK
    <3>3. tries = Tries - elapsed => tries' = Tries - elapsed'
      BY <3>1, <3>2
    <3> QED
      BY <1>6, <3>1, <3>3 DEF PollEmpty, ExchangeInv
  <2>2. CASE ~(tries > 0)
    <3>1. tries = 0
      BY <2>2 DEF TypeOK
    <3>2. call \in Calls /\ call.drive \in Drives
      BY <1>6 DEF PollEmpty, TypeOK, Calls
    <3>3. ~Outstanding
      <4>1. Outstanding => tries = Tries - elapsed
        BY <1>6, <3>2 DEF PollEmpty, Outstanding, ExchangeInv
      <4>2. Outstanding => elapsed < Tries
        BY <1>6 DEF PollEmpty, Prompt, TypeOK
      <4> QED
        BY <3>1, <4>1, <4>2 DEF TypeOK
    <3> QED
      BY <1>6, <2>2, <3>3 DEF PollEmpty, ExchangeInv, Outstanding
  <2> QED
    BY <2>1, <2>2
<1>7. ASSUME NEW d \in Drives, Execute(d)
      PROVE  ExchangeInv'
  <2>1. pc = "poll" /\ call \in Calls
    BY <1>7 DEF Execute, ExchangeInv, Outstanding, TypeOK
  <2>2. d = call.drive
    BY <1>7, <2>1 DEF Execute, ExchangeInv
  <2> DEFINE c == Head(inbox[d])
             a == Answer(d, c)
  <2>3. c = next_com /\ Tail(inbox[d]) = <<>> /\ wire = <<>> /\ rx = <<>>
    BY <1>7, <2>1, <2>2 DEF Execute, ExchangeInv
  <2>4. a \in Piece /\ a.from = d /\ a.op = next_com.op /\ a.part = "whole"
    BY <2>3, AnswerType DEF TypeOK
  <2>5. /\ Append(wire, a) # <<>> /\ Head(Append(wire, a)) = a
        /\ Tail(Append(wire, a)) = <<>>
    BY <2>3, <2>4, AppendToEmpty
  <2>6. wire' = wire \/ wire' = Append(wire, a)
    BY <1>7 DEF Execute
  <2>7. inbox'[d] = <<>> /\ \A e \in Drives \ {d} : inbox'[e] = <<>>
    BY <1>7, <2>1, <2>2, <2>3 DEF Execute, ExchangeInv, TypeOK
  <2>8. /\ UNCHANGED <<pc, call, next_com, tries, elapsed, rx>>
        /\ tries = Tries - elapsed
    BY <1>7, <2>1, <2>2 DEF Execute, ExchangeInv
  <2> HIDE DEF a
  <2> QED
    BY <2>1, <2>2, <2>3, <2>4, <2>5, <2>6, <2>7, <2>8 DEF ExchangeInv
<1>8. ASSUME NEW d \in Drives, Travel(d)
      PROVE  ExchangeInv'
  BY <1>8 DEF Travel, ExchangeInv, Outstanding
<1>9. CASE Arrive
  <2>1. pc = "poll"
    BY <1>9 DEF Arrive, ExchangeInv, Outstanding, TypeOK
  <2> DEFINE p == Head(wire)
  <2>2. /\ p.from = call.drive /\ p.op = next_com.op /\ p.part = "whole"
        /\ Tail(wire) = <<>> /\ inbox[call.drive] = <<>> /\ rx = <<>>
    BY <1>9, <2>1 DEF Arrive, ExchangeInv
  <2>3. p \in Piece
    BY <1>9, HeadTailProperties DEF Arrive, TypeOK
  <2>4. rx' = Append(rx, p)
    BY <1>9, <2>2 DEF Arrive, Received
  <2>5. rx' # <<>> /\ Head(rx') = p /\ Tail(rx') = <<>>
    BY <2>2, <2>3, <2>4, AppendToEmpty
  <2> HIDE DEF p
  <2> QED
    BY <1>9, <2>1, <2>2, <2>5 DEF Arrive, ExchangeInv
<1>10. CASE ArriveHead
  BY <1>10 DEF ArriveHead, Prompt
<1>11. CASE UNCHANGED vars
  BY <1>11 DEF vars, ExchangeInv, Outstanding
<1> QED
  BY <1>2, <1>3, <1>4, <1>5, <1>6, <1>7, <1>8, <1>9, <1>10, <1>11
  DEF Next, Engine, External

\* With prompt answers the line is quiet between two commands.
THEOREM LineQuiet == ASSUME Prompt PROVE Spec => []QuietLine
<1>1. TypeOK /\ ExchangeInv => QuietLine
  BY DEF ExchangeInv, QuietLine
<1>2. TypeOK /\ ExchangeInv /\ [Next]_vars => (TypeOK /\ ExchangeInv)'
  BY TypeNext, ExchangeNext
<1> QED
  BY <1>1, <1>2, TypeInit, ExchangeInit, PTL DEF Spec

\* With prompt answers every response is the answer to the command in hand.
THEOREM ResponseIsOwn == ASSUME Prompt PROVE Spec => []OwnResponse
<1>1. TypeOK /\ ExchangeInv => OwnResponse
  BY DEF ExchangeInv, OwnResponse
<1>2. TypeOK /\ ExchangeInv /\ [Next]_vars => (TypeOK /\ ExchangeInv)'
  BY TypeNext, ExchangeNext
<1> QED
  BY <1>1, <1>2, TypeInit, ExchangeInit, PTL DEF Spec

-----------------------------------------------------------------------------
(* The calls *)

\* The rotation query is the one command SP.
LEMMA RotationLine ==
  ASSUME NEW d \in Drives
  PROVE  Filled(d, "rotation_query", 0) = <<[op |-> "SP", steps |-> 0]>>
<1>1. Macro[d]["rotation_query"] = <<"SP">>
  BY RotationQueryAssumption
<1>2. DOMAIN <<"SP">> = {1} /\ <<"SP">>[1] = "SP"
  OBVIOUS
<1>3. Filled(d, "rotation_query", 0)
        = [i \in {1} |-> [op |-> "SP", steps |-> 0]]
  BY <1>1, <1>2 DEF Filled
<1> QED
  BY <1>3

\* What Begin makes of the empty lists between two calls.
LEMMA BeginLists ==
  ASSUME TypeOK, CallInv, NEW d \in Drives, NEW lines \in Seq(Command),
         NEW left \in Seq(Keys),
         NEW fn \in {"process_parameters", "run_action", "check_status",
                     "current_rotation"},
         Begin(fn, d, left, lines)
  PROVE  /\ call = None /\ call' # None
         /\ call'.drive = d /\ call'.fn = fn /\ call'.left = left
         /\ \A e \in Drives : todo[e] = <<>> /\ ~checking_position[e]
         /\ todo'[d] = lines
         /\ \A e \in Drives \ {d} : todo'[e] = <<>>
<1>1. \A e \in Drives : todo[e] = <<>> /\ ~checking_position[e]
  BY DEF Begin, CallInv
<1>2. todo[d] \o lines = lines
  BY <1>1, ConcatEmptySeq
<1>3. todo' = [todo EXCEPT ![d] = todo[d] \o lines]
  BY DEF Begin
<1>4. todo'[d] = lines /\ \A e \in Drives \ {d} : todo'[e] = <<>>
  BY <1>1, <1>2, <1>3 DEF TypeOK
<1>5. call' # None
  BY BeginType
<1> QED
  BY <1>1, <1>4, <1>5 DEF Begin

\* No call, empty lists.
LEMMA CallInit == Init => CallInv
BY DEF Init, CallInv

\* The lists and the flag follow the call in progress, whatever the line does.
LEMMA CallNext == TypeOK /\ CallInv /\ [Next]_vars => CallInv'
<1> SUFFICES ASSUME TypeOK, CallInv, [Next]_vars
             PROVE  CallInv'
  OBVIOUS
<1> USE DEF host, objects, line, drives
<1>1. ASSUME NEW d \in Drives, ProcessParameters(d)
      PROVE  CallInv'
  <2> DEFINE lines == Filled(d, "read_power_up", 0)
             left == <<"set_run_parameters", "read_reset">>
  <2>1. lines \in Seq(Command)
    BY FilledType DEF Keys
  <2>2. Begin("process_parameters", d, left, lines) /\ left \in Seq(Keys)
    BY <1>1 DEF ProcessParameters, Keys
  <2>3. UNCHANGED <<pc, checking_position>>
    BY <1>1 DEF ProcessParameters
  <2> HIDE DEF lines, left
  <2>4. /\ call' # None /\ call'.drive = d /\ call'.fn = "process_parameters"
        /\ \A e \in Drives : ~checking_position[e]
        /\ \A e \in Drives \ {d} : todo'[e] = <<>>
    BY <2>1, <2>2, BeginLists
  <2> QED
    BY <2>3, <2>4 DEF CallInv
<1>2. ASSUME NEW d \in Drives, NEW key \in Keys, NEW n \in Int,
             RunAction(d, key, n)
      PROVE  CallInv'
  <2> DEFINE lines == Filled(d, key, n)
  <2>1. lines \in Seq(Command)
    BY FilledType
  <2>2. Begin("run_action", d, <<>>, lines)
    BY <1>2 DEF RunAction
  <2>3. UNCHANGED <<pc, checking_position>>
    BY <1>2 DEF RunAction
  <2> HIDE DEF lines
  <2>4. /\ call' # None /\ call'.drive = d /\ call'.fn = "run_action"
        /\ \A e \in Drives : ~checking_position[e]
        /\ \A e \in Drives \ {d} : todo'[e] = <<>>
    BY <2>1, <2>2, BeginLists, EmptySeq
  <2> QED
    BY <2>3, <2>4 DEF CallInv
<1>3. ASSUME NEW d \in Drives, CheckStatus(d)
      PROVE  CallInv'
  <2>1. /\ StatusLine \in Seq(Command)
        /\ Head(StatusLine).op = "SC" /\ Tail(StatusLine) = <<>>
    BY DEF StatusLine, Command, Ops
  <2>2. Begin("check_status", d, <<>>, StatusLine)
    BY <1>3 DEF CheckStatus
  <2>3. pc' = "lines"
    BY <1>3, <2>2 DEF CheckStatus, Begin, TypeOK
  <2>4. UNCHANGED checking_position
    BY <1>3 DEF CheckStatus
  <2>5. /\ call' # None /\ call'.drive = d
        /\ call'.fn = "check_status" /\ call'.left = <<>>
        /\ \A e \in Drives : ~checking_position[e]
        /\ todo'[d] = StatusLine
        /\ \A e \in Drives \ {d} : todo'[e] = <<>>
    BY <2>1, <2>2, BeginLists, EmptySeq
  <2> QED
    BY <2>1, <2>3, <2>4, <2>5 DEF CallInv
<1>4. ASSUME NEW d \in Drives, CurrentRotation(d)
      PROVE  CallInv'
  <2> DEFINE lines == Filled(d, "rotation_query", 0)
  <2>1. /\ lines = <<[op |-> "SP", steps |-> 0]>>
        /\ lines \in Seq(Command)
        /\ Head(lines).op = "SP" /\ Tail(lines) = <<>>
    <3>1. lines = <<[op |-> "SP", steps |-> 0]>>
      BY RotationLine
    <3> HIDE DEF lines
    <3> QED
      BY <3>1 DEF Command, Ops
  <2>2. Begin("current_rotation", d, <<>>, lines)
    BY <1>4 DEF CurrentRotation
  <2>3. pc' = "lines"
    BY <1>4, <2>2 DEF CurrentRotation, Begin, TypeOK
  <2>4. checking_position' = [checking_position EXCEPT ![d] = TRUE]
    BY <1>4 DEF CurrentRotation
  <2> HIDE DEF lines
  <2>5. /\ call' # None /\ call'.drive = d
        /\ call'.fn = "current_rotation" /\ call'.left = <<>>
        /\ \A e \in Drives : ~checking_position[e]
        /\ todo'[d] = lines
        /\ \A e \in Drives \ {d} : todo'[e] = <<>>
    BY <2>1, <2>2, BeginLists, EmptySeq
  <2>6. /\ checking_position'[d]
        /\ \A e \in Drives \ {d} : ~checking_position'[e]
    BY <2>4, <2>5 DEF TypeOK
  <2> QED
    BY <2>1, <2>3, <2>5, <2>6 DEF CallInv
<1>5. CASE NextMacro
  <2>1. call \in Calls /\ call.drive \in Drives /\ call # None
    BY <1>5 DEF NextMacro, Returning, TypeOK, Calls
  <2>2. call.fn \notin {"check_status", "current_rotation"}
    BY <1>5, <2>1 DEF NextMacro, CallInv
  <2>3. call'.fn = call.fn /\ call'.drive = call.drive /\ call' # None
    <3>1. call.left \in Seq(Keys) /\ call.left # <<>>
      BY <1>5, <2>1 DEF NextMacro, Calls
    <3>2. Tail(call.left) \in Seq(Keys)
      BY <3>1, HeadTailProperties
    <3>3. call' \in Calls
      BY <1>5, <2>1, <3>2 DEF NextMacro, Calls
    <3> QED
      BY <1>5, <2>1, <3>3 DEF NextMacro, Calls
  <2>4. \A e \in Drives \ {call.drive} : todo'[e] = todo[e]
    BY <1>5 DEF NextMacro, TypeOK
  <2> QED
    BY <1>5, <2>1, <2>2, <2>3, <2>4 DEF NextMacro, CallInv
<1>6. CASE Return
  BY <1>6 DEF Return, Returning, CallInv, TypeOK, Calls
<1>7. CASE RunCommand
  <2>1. call \in Calls /\ call.drive \in Drives
    BY <1>7 DEF RunCommand, TypeOK, Calls
  <2>2. /\ todo'[call.drive] = Tail(todo[call.drive])
        /\ \A e \in Drives \ {call.drive} : todo'[e] = todo[e]
        /\ UNCHANGED <<call, checking_position>>
    BY <1>7, <2>1 DEF RunCommand, TypeOK
  <2>3. pc' = "poll" => next_com' = Head(todo[call.drive])
    BY <1>7 DEF RunCommand
  <2>4. todo[call.drive] # <<>>
    BY <1>7 DEF RunCommand
  <2> QED
    BY <2>1, <2>2, <2>3, <2>4 DEF CallInv
<1>8. CASE ReadLine
  BY <1>8 DEF ReadLine, CallInv
<1>9. CASE PollEmpty
  BY <1>9 DEF PollEmpty, CallInv
<1>10. ASSUME NEW d \in Drives, Execute(d) \/ Travel(d)
       PROVE  CallInv'
  BY <1>10 DEF Execute, Travel, CallInv
<1>11. CASE Arrive \/ ArriveHead
  BY <1>11 DEF Arrive, ArriveHead, CallInv
<1>12. CASE UNCHANGED vars
  BY <1>12 DEF vars, CallInv
<1> QED
  <2>1. CASE Caller
    BY <2>1, <1>1, <1>2, <1>3, <1>4 DEF Caller, Keys
  <2>2. CASE Engine
    BY <2>2, <1>5, <1>6, <1>7, <1>8, <1>9 DEF Engine
  <2>3. CASE External
    BY <2>3, <1>10, <1>11 DEF External
  <2> QED
    BY <2>1, <2>2, <2>3, <1>12 DEF Next

-----------------------------------------------------------------------------
(* The answers *)

\* Nothing has been asked.
LEMMA AnswerInit == Init => AnswerInv
BY DEF Init, AnswerInv

\* In the prompt regime a status or position answer stays true until the call
\* that asked for it returns: no command that could move the drive is left.
LEMMA AnswerNext ==
  ASSUME Prompt, ~Simulation
  PROVE  TypeOK /\ ExchangeInv /\ CallInv /\ AnswerInv /\ [Next]_vars
           => AnswerInv'
<1> SUFFICES ASSUME TypeOK, ExchangeInv, CallInv, AnswerInv, [Next]_vars
             PROVE  AnswerInv'
  OBVIOUS
<1> USE DEF host, objects, line, drives
<1>1. ASSUME NEW d \in Drives, ProcessParameters(d)
      PROVE  AnswerInv'
  <2> DEFINE lines == Filled(d, "read_power_up", 0)
             left == <<"set_run_parameters", "read_reset">>
  <2>1. lines \in Seq(Command)
    BY FilledType DEF Keys
  <2>2. Begin("process_parameters", d, left, lines) /\ left \in Seq(Keys)
    BY <1>1 DEF ProcessParameters, Keys
  <2>3. UNCHANGED <<wire, rx>> /\ pc = "lines"
    BY <1>1 DEF ProcessParameters, Begin, TypeOK
  <2> HIDE DEF lines, left
  <2>4. call'.fn = "process_parameters"
    BY <2>1, <2>2, BeginLists
  <2> QED
    BY <2>3, <2>4 DEF AnswerInv, ExchangeInv, Outstanding
<1>2. ASSUME NEW d \in Drives, NEW key \in Keys, NEW n \in Int,
             RunAction(d, key, n)
      PROVE  AnswerInv'
  <2> DEFINE lines == Filled(d, key, n)
  <2>1. lines \in Seq(Command)
    BY FilledType
  <2>2. Begin("run_action", d, <<>>, lines)
    BY <1>2 DEF RunAction
  <2>3. UNCHANGED <<wire, rx>> /\ pc = "lines"
    BY <1>2 DEF RunAction, Begin, TypeOK
  <2> HIDE DEF lines
  <2>4. call'.fn = "run_action"
    BY <2>1, <2>2, BeginLists, EmptySeq
  <2> QED
    BY <2>3, <2>4 DEF AnswerInv, ExchangeInv, Outstanding
<1>3. ASSUME NEW d \in Drives, CheckStatus(d)
      PROVE  AnswerInv'
  <2>1. StatusLine \in Seq(Command) /\ StatusLine # <<>>
    BY DEF StatusLine, Command, Ops
  <2>2. Begin("check_status", d, <<>>, StatusLine)
    BY <1>3 DEF CheckStatus
  <2>3. UNCHANGED <<wire, rx>> /\ pc = "lines"
    BY <1>3 DEF CheckStatus, Begin, TypeOK
  <2>4. call'.fn = "check_status" /\ call'.drive = d /\ todo'[d] # <<>>
    BY <2>1, <2>2, BeginLists, EmptySeq
  <2> QED
    BY <2>3, <2>4 DEF AnswerInv, ExchangeInv, Outstanding
<1>4. ASSUME NEW d \in Drives, CurrentRotation(d)
      PROVE  AnswerInv'
  <2> DEFINE lines == Filled(d, "rotation_query", 0)
  <2>1. lines \in Seq(Command) /\ lines # <<>>
    <3>1. lines = <<[op |-> "SP", steps |-> 0]>>
      BY RotationLine
    <3> HIDE DEF lines
    <3> QED
      BY <3>1 DEF Command, Ops
  <2>2. Begin("current_rotation", d, <<>>, lines)
    BY <1>4 DEF CurrentRotation
  <2>3. UNCHANGED <<wire, rx, pos, goal>> /\ pc = "lines"
    BY <1>4 DEF CurrentRotation, Begin, TypeOK
  <2>4. call'.at = pos[d]
    BY <2>2 DEF Begin
  <2> HIDE DEF lines
  <2>5. call'.fn = "current_rotation" /\ call'.drive = d /\ todo'[d] # <<>>
    BY <2>1, <2>2, BeginLists, EmptySeq
  <2>6. pos[d] \in Int /\ goal[d] \in Int \union {None}
    BY DEF TypeOK
  <2> QED
    BY <2>3, <2>4, <2>5, <2>6 DEF AnswerInv, ExchangeInv, Outstanding, Jogging
<1>5. CASE NextMacro
  <2>1. call \in Calls /\ call # None
    BY <1>5 DEF NextMacro, Returning, TypeOK
  <2>2. call.fn \notin {"check_status", "current_rotation"}
    BY <1>5, <2>1 DEF NextMacro, CallInv
  <2>3. call'.fn = call.fn /\ UNCHANGED <<wire, rx>>
    BY <1>5, <2>1 DEF NextMacro, Calls
  <2>4. pc = "lines"
    BY <1>5 DEF NextMacro, Returning
  <2> QED
    BY <2>2, <2>3, <2>4 DEF AnswerInv, ExchangeInv, Outstanding
<1>6. CASE Return
  BY <1>6 DEF Return, AnswerInv
<1>7. CASE RunCommand
  <2>1. call \in Calls /\ call.drive \in Drives
    BY <1>7 DEF RunCommand, TypeOK, Calls
  <2>2. inbox[call.drive] \in Seq(Command)
    BY <2>1 DEF TypeOK
  <2>3. inbox'[call.drive] = Append(inbox[call.drive], next_com')
        /\ next_com' = Head(todo[call.drive])
    BY <1>7, <2>1 DEF RunCommand, TypeOK
  <2>4. inbox[call.drive] = <<>>
    BY <1>7, <2>1 DEF RunCommand, ExchangeInv, Outstanding
  <2>5. inbox'[call.drive] # <<>>
    BY <2>3, <2>4, AppendToEmpty
  <2> QED
    BY <1>7, <2>5 DEF RunCommand, AnswerInv, AtRest, Between, IsIdle
<1>8. CASE ReadLine
  <2>1. call \in Calls /\ call.drive \in Drives
    BY <1>8 DEF ReadLine, TypeOK, Calls
  <2> DEFINE d == call.drive
             p == Head(rx)
  <2>2. /\ Tail(rx) = <<>> /\ wire = <<>>
        /\ p.op = next_com.op /\ p.part = "whole"
    BY <1>8 DEF ReadLine, ExchangeInv
  <2>3. p \in Piece
    BY <1>8, HeadTailProperties DEF ReadLine, TypeOK
  <2>4. parameter'[d] = p
    BY <1>8, <2>1 DEF ReadLine, TypeOK
  <2>5. IsIdle(p) => AtRest(d)
    BY <1>8, <2>1 DEF ReadLine, AnswerInv, IsIdle, TypeOK
  <2>6. call.fn = "current_rotation" =>
          reported_steps'[d] = p.val /\ Between(call.at, p.val, pos[d])
    <3> SUFFICES ASSUME call.fn = "current_rotation"
                 PROVE  reported_steps'[d] = p.val
                        /\ Between(call.at, p.val, pos[d])
      OBVIOUS
    <3>1. checking_position[d] /\ p.op = "SP"
      BY <1>8, <2>1, <2>2 DEF ReadLine, CallInv, TypeOK
    <3>2. reported_steps'[d] = p.val
      BY <1>8, <2>1, <2>2, <3>1 DEF ReadLine, StepsIn, TypeOK
    <3>3. Between(call.at, p.val, pos[d])
      BY <1>8, <2>1, <3>1 DEF ReadLine, AnswerInv, TypeOK
    <3> QED
      BY <3>2, <3>3
  <2>7. UNCHANGED <<call, todo, inbox, wire, pos, goal>> /\ rx' = Tail(rx)
    BY <1>8 DEF ReadLine
  <2>8. call # None /\ (AtRest(d))' = AtRest(d)
    BY <1>8, <2>7 DEF ReadLine, TypeOK, AtRest
  <2>9. IsIdle(parameter[d])' = IsIdle(p)
    BY <2>4, <2>7 DEF IsIdle
  <2> HIDE DEF p
  <2> QED
    BY <2>2, <2>4, <2>5, <2>6, <2>7, <2>8, <2>9 DEF AnswerInv, AtRest, Between
<1>9. CASE PollEmpty
  BY <1>9 DEF PollEmpty, AnswerInv, AtRest, Between, IsIdle
<1>10. ASSUME NEW d \in Drives, Execute(d)
       PROVE  AnswerInv'
  <2>1. pc = "poll" /\ call \in Calls /\ d = call.drive
    BY <1>10 DEF Execute, ExchangeInv, Outstanding, TypeOK
  <2> DEFINE c == Head(inbox[d])
             a == Answer(d, c)
  <2>2. /\ c = next_com /\ Tail(inbox[d]) = <<>> /\ wire = <<>> /\ rx = <<>>
        /\ c \in Command
    BY <1>10, <2>1 DEF Execute, ExchangeInv, TypeOK
  <2>3. a \in Piece /\ a.op = c.op
    BY <2>2, AnswerType DEF TypeOK
  <2>4. Head(Append(wire, a)) = a /\ Append(wire, a) # <<>>
    BY <2>2, <2>3, AppendToEmpty
  <2>5. Query(c) => pos'[d] = pos[d] /\ goal'[d] = goal[d]
    BY <1>10, <2>2 DEF Execute, Query, GoalAfter, PosAfter, TypeOK, Command
  <2>6. Query(c) => wire' = Append(wire, a)
    BY <1>10 DEF Execute
  <2>7. wire' \in {wire, Append(wire, a)} /\ UNCHANGED <<call, rx, todo>>
    BY <1>10 DEF Execute
  <2>8. a.op = "SC" /\ a.val = 1 => AtRest(d)
    BY DEF Answer
  <2>9. a.op = "SP" => a.val = pos[d]
    BY DEF Answer
  <2>10. call.fn = "check_status" => c.op = "SC"
    BY <2>1, <2>2 DEF CallInv
  <2>11. call.fn = "current_rotation" => c.op = "SP"
    BY <2>1, <2>2 DEF CallInv
  <2>12. pos[d] \in Int /\ goal[d] \in Int \union {None} /\ call.at \in Int
    BY <2>1 DEF TypeOK, Calls
  <2> HIDE DEF a, c
  <2>13. wire' # <<>> => Head(wire') = a
    BY <2>2, <2>4, <2>7
  <2>14. CASE Query(c)
    <3>1. wire' # <<>>
      BY <2>4, <2>6, <2>14
    <3>2. AtRest(d)' = AtRest(d)
      BY <2>5, <2>14 DEF AtRest
    <3>3. a.op = "SC" /\ a.val = 1 => AtRest(d)'
      BY <2>8, <3>2
    <3>4. call.fn = "current_rotation" =>
            /\ Between(call.at, a.val, pos'[d])
            /\ \/ call.at <= pos'[d]
                  /\ (goal'[d] = Jogging \/ pos'[d] <= goal'[d])
               \/ pos'[d] <= call.at /\ goal'[d] # Jogging /\ goal'[d] <= pos'[d]
      BY <2>1, <2>3, <2>5, <2>9, <2>11, <2>12, <2>14
      DEF AnswerInv, Between, Jogging
    <3> QED
      BY <2>1, <2>2, <2>7, <2>13, <3>1, <3>3, <3>4 DEF AnswerInv, AtRest
  <2>15. CASE ~Query(c)
    BY <2>1, <2>2, <2>3, <2>7, <2>10, <2>11, <2>13, <2>15 DEF AnswerInv, Query
  <2> QED
    BY <2>14, <2>15
<1>11. ASSUME NEW d \in Drives, Travel(d)
       PROVE  AnswerInv'
  <2> SUFFICES ASSUME call # None
               PROVE  AnswerInv'
    BY <1>11 DEF Travel, AnswerInv
  <2>1. call \in Calls /\ call.drive \in Drives /\ call.at \in Int
    BY DEF TypeOK, Calls
  <2>2. UNCHANGED <<call, todo, parameter, reported_steps, inbox, wire, rx, goal>>
    BY <1>11 DEF Travel
  <2>3. CASE d # call.drive
    <3>1. pos'[call.drive] = pos[call.drive]
      BY <1>11, <2>1, <2>3 DEF Travel, TypeOK
    <3> QED
      BY <2>1, <2>2, <3>1 DEF AnswerInv, AtRest, IsIdle
  <2>4. /\ wire # <<>> => Head(wire).val \in Int
        /\ rx # <<>> => Head(rx).val \in Int
        /\ reported_steps[call.drive] \in Int
    <3>1. /\ wire # <<>> => Head(wire) \in Piece
          /\ rx # <<>> => Head(rx) \in Piece
      BY HeadTailProperties DEF TypeOK
    <3> QED
      BY <2>1, <3>1 DEF Piece, TypeOK
  <2>5. CASE d = call.drive
    <3>1. pos[d] \in Int /\ goal[d] \in Int \union {None} /\ goal[d] # pos[d]
      BY <1>11 DEF Travel, TypeOK, AtRest
    <3>2. /\ goal[d] = Jogging \/ goal[d] > pos[d] => pos'[d] = pos[d] + 1
          /\ ~(goal[d] = Jogging \/ goal[d] > pos[d]) => pos'[d] = pos[d] - 1
      BY <1>11 DEF Travel, TypeOK
    <3> DEFINE Asking == call.fn = "current_rotation"
               Ahead == call.at <= pos[d]
                        /\ (goal[d] = Jogging \/ pos[d] <= goal[d])
               Behind == pos[d] <= call.at /\ goal[d] # Jogging
                         /\ goal[d] <= pos[d]
    <3>3. ~Asking \/ Ahead \/ Behind
      BY <2>1, <2>5 DEF AnswerInv
    <3>4. CASE Ahead
      <4>1. pos'[d] = pos[d] + 1 /\ (goal[d] = Jogging \/ pos'[d] <= goal[d])
        BY <3>1, <3>2, <3>4 DEF Jogging
      <4>2. \A x \in Int : Between(call.at, x, pos[d])
                             => Between(call.at, x, pos'[d])
        BY <2>1, <3>1, <3>4, <4>1 DEF Between
      <4> QED
        BY <2>1, <2>2, <2>4, <2>5, <3>1, <3>4, <4>1, <4>2
        DEF AnswerInv, AtRest, IsIdle
    <3>5. CASE Behind
      <4>1. pos'[d] = pos[d] - 1 /\ goal[d] <= pos'[d]
        BY <3>1, <3>2, <3>5 DEF Jogging
      <4>2. \A x \in Int : Between(call.at, x, pos[d])
                             => Between(call.at, x, pos'[d])
        BY <2>1, <3>1, <3>5, <4>1 DEF Between
      <4> QED
        BY <2>1, <2>2, <2>4, <2>5, <3>1, <3>5, <4>1, <4>2
        DEF AnswerInv, AtRest, IsIdle
    <3>6. CASE ~Asking
      BY <2>1, <2>2, <2>5, <3>1, <3>6 DEF AnswerInv, AtRest, IsIdle
    <3> QED
      BY <3>3, <3>4, <3>5, <3>6
  <2> QED
    BY <2>3, <2>5
<1>12. CASE Arrive
  <2>1. pc = "poll" /\ call \in Calls /\ call # None
    BY <1>12 DEF Arrive, ExchangeInv, Outstanding, TypeOK
  <2> DEFINE p == Head(wire)
  <2>2. p.part = "whole" /\ Tail(wire) = <<>> /\ rx = <<>>
    BY <1>12, <2>1 DEF Arrive, ExchangeInv
  <2>3. p \in Piece
    BY <1>12, HeadTailProperties DEF Arrive, TypeOK
  <2>4. rx' # <<>> /\ Head(rx') = p
    BY <1>12, <2>2, <2>3, AppendToEmpty DEF Arrive, Received
  <2> HIDE DEF p
  <2>5. wire' = <<>> /\ UNCHANGED <<call, todo, inbox, pos, goal>>
    BY <1>12, <2>2 DEF Arrive
  <2> QED
    BY <1>12, <2>1, <2>4, <2>5 DEF Arrive, AnswerInv, AtRest, Between, p
<1>13. CASE ArriveHead
  BY <1>13 DEF ArriveHead, Prompt
<1>14. CASE UNCHANGED vars
  BY <1>14 DEF vars, AnswerInv, AtRest, Between, IsIdle
<1> QED
  <2>1. CASE Caller
    BY <2>1, <1>1, <1>2, <1>3, <1>4 DEF Caller, Keys
  <2>2. CASE Engine
    BY <2>2, <1>5, <1>6, <1>7, <1>8, <1>9 DEF Engine
  <2>3. CASE External
    BY <2>3, <1>10, <1>11, <1>12, <1>13 DEF External
  <2> QED
    BY <2>1, <2>2, <2>3, <1>14 DEF Next

\* The whole inductive invariant of the prompt regime.
THEOREM PromptInvariant ==
  ASSUME Prompt, ~Simulation
  PROVE  Spec => []PromptInv
<1>1. Init => PromptInv
  BY TypeInit, ExchangeInit, CallInit, AnswerInit DEF PromptInv
<1>2. PromptInv /\ [Next]_vars => PromptInv'
  BY TypeNext, ExchangeNext, CallNext, AnswerNext DEF PromptInv
<1> QED
  BY <1>1, <1>2, PTL DEF Spec

\* The status that ends the motion loops is true when it is returned.
THEOREM StatusIsTruthful ==
  ASSUME Prompt, ~Simulation
  PROVE  Spec => []StatusTruthful
<1>1. PromptInv => StatusTruthful
  <2> SUFFICES ASSUME PromptInv, Returning, call.fn = "check_status",
                      IsIdle(parameter[call.drive])
               PROVE  AtRest(call.drive) /\ inbox[call.drive] = <<>>
    BY DEF StatusTruthful
  <2>1. call # None /\ call.drive \in Drives
    BY DEF Returning, PromptInv, TypeOK, Calls
  <2>2. \A d \in Drives : inbox[d] = <<>>
    BY DEF Returning, PromptInv, ExchangeInv, Outstanding
  <2>3. wire = <<>> /\ rx = <<>> /\ todo[call.drive] = <<>>
    BY DEF Returning, PromptInv, ExchangeInv, Outstanding
  <2> QED
    BY <2>1, <2>2, <2>3 DEF PromptInv, AnswerInv
<1> QED
  BY <1>1, PromptInvariant, PTL

\* The rotation a caller is given is one the drive has had during the call.
THEOREM RotationIsTruthful ==
  ASSUME Prompt, ~Simulation
  PROVE  Spec => []RotationTruthful
<1>1. PromptInv => RotationTruthful
  <2> SUFFICES ASSUME PromptInv, Returning, call.fn = "current_rotation"
               PROVE  Between(call.at, reported_steps[call.drive],
                              pos[call.drive])
    BY DEF RotationTruthful
  <2>1. call # None /\ call.drive \in Drives
    BY DEF Returning, PromptInv, TypeOK, Calls
  <2>2. /\ inbox[call.drive] = <<>> /\ wire = <<>> /\ rx = <<>>
        /\ todo[call.drive] = <<>>
    BY <2>1 DEF Returning, PromptInv, ExchangeInv, Outstanding
  <2> QED
    BY <2>1, <2>2 DEF PromptInv, AnswerInv
<1> QED
  BY <1>1, PromptInvariant, PTL

-----------------------------------------------------------------------------
(* The queries implement DriveService when the answers are prompt: the moment *)
(* at which a query is served is the moment at which its drive executes the   *)
(* command.                                                                   *)

USE NoneCallAssumption

Querying == call # None /\ call.fn \in {"check_status", "current_rotation"}

\* A status query whose command is no longer out has been answered, by a line
\* that its own drive put on the wire.
GivenInv ==
  call # None /\ call.fn = "check_status" =>
    LET d == call.drive
    IN \/ todo[d] # <<>> \/ inbox[d] # <<>> \/ wire # <<>> \/ rx # <<>>
       \/ parameter[d] # None

\* What both need: the drive of a call is one, and its answer a piece.
LEMMA CallDrive ==
  ASSUME TypeOK, call # None
  PROVE  call.drive \in Drives /\ call \in Calls
BY DEF TypeOK, Calls

LEMMA HeadPiece ==
  ASSUME NEW q \in Seq(Piece), q # <<>>
  PROVE  Head(q) \in Piece /\ Head(q).val \in Int /\ Head(q) # None
<1>1. Head(q) \in Piece
  BY HeadTailProperties
<1> QED
  BY <1>1 DEF Piece

LEMMA GivenInit == Init => GivenInv
BY DEF Init, GivenInv

\* The command leaves the list for the drive's queue, the queue for the wire,
\* the wire for the buffer and the buffer for _parameter.
LEMMA GivenNext ==
  ASSUME Prompt, ~Simulation
  PROVE  PromptInv /\ GivenInv /\ [Next]_vars => GivenInv'
<1> SUFFICES ASSUME PromptInv, GivenInv, [Next]_vars
             PROVE  GivenInv'
  OBVIOUS
<1> USE DEF host, objects, line, drives
<1>0. TypeOK /\ ExchangeInv /\ CallInv
  BY DEF PromptInv
<1>1. ASSUME NEW d \in Drives, ProcessParameters(d)
      PROVE  GivenInv'
  BY <1>1 DEF ProcessParameters, Begin, GivenInv
<1>2. ASSUME NEW d \in Drives, NEW key \in Keys, NEW n \in Int,
             RunAction(d, key, n)
      PROVE  GivenInv'
  BY <1>2 DEF RunAction, Begin, GivenInv
<1>3. ASSUME NEW d \in Drives, CheckStatus(d)
      PROVE  GivenInv'
  <2>1. StatusLine \in Seq(Command) /\ StatusLine # <<>>
    BY DEF StatusLine, Command, Ops
  <2>2. Begin("check_status", d, <<>>, StatusLine)
    BY <1>3 DEF CheckStatus
  <2>3. call'.drive = d /\ todo'[d] # <<>>
    BY <1>0, <2>1, <2>2, BeginLists, EmptySeq
  <2> QED
    BY <2>3 DEF GivenInv
<1>4. ASSUME NEW d \in Drives, CurrentRotation(d)
      PROVE  GivenInv'
  BY <1>4 DEF CurrentRotation, Begin, GivenInv
<1>5. CASE NextMacro
  <2>1. call \in Calls /\ call # None
    BY <1>0, <1>5 DEF NextMacro, Returning, TypeOK
  <2>2. call.fn \notin {"check_status", "current_rotation"}
    BY <1>0, <1>5, <2>1 DEF NextMacro, CallInv
  <2>3. call'.fn = call.fn
    BY <1>5, <2>1 DEF NextMacro, Calls
  <2> QED
    BY <2>2, <2>3 DEF GivenInv
<1>6. CASE Return
  BY <1>6 DEF Return, GivenInv
<1>7. CASE RunCommand
  <2>1. call.drive \in Drives
    BY <1>0, <1>7, CallDrive DEF RunCommand
  <2>2. inbox'[call.drive] = Append(inbox[call.drive], next_com')
        /\ next_com' = Head(todo[call.drive]) /\ call' = call
    BY <1>0, <1>7, <2>1 DEF RunCommand, TypeOK
  <2>3. inbox[call.drive] = <<>>
    BY <1>0, <1>7, <2>1 DEF RunCommand, ExchangeInv, Outstanding
  <2>4. inbox'[call.drive] # <<>>
    BY <2>2, <2>3, AppendToEmpty
  <2> QED
    BY <2>2, <2>4 DEF GivenInv
<1>8. CASE ReadLine
  <2>1. call.drive \in Drives /\ Head(rx) # None
    BY <1>0, <1>8, CallDrive, HeadPiece DEF ReadLine, TypeOK
  <2>2. parameter'[call.drive] = Head(rx) /\ call' = call
    BY <1>0, <1>8, <2>1 DEF ReadLine, TypeOK
  <2> QED
    BY <2>1, <2>2 DEF GivenInv
<1>9. CASE PollEmpty
  BY <1>9 DEF PollEmpty, GivenInv
<1>10. ASSUME NEW d \in Drives, Execute(d)
       PROVE  GivenInv'
  <2>1. CASE ~Querying
    BY <1>10, <2>1 DEF Execute, GivenInv, Querying
  <2>2. CASE Querying
    <3>1. pc = "poll" /\ d = call.drive
      BY <1>0, <1>10 DEF Execute, ExchangeInv, Outstanding, TypeOK
    <3>2. Head(inbox[d]) = next_com /\ next_com.op \in {"SC", "SP"}
      BY <1>0, <1>10, <2>2, <3>1 DEF Execute, ExchangeInv, CallInv, Querying
    <3>3. Query(Head(inbox[d]))
      BY <3>2 DEF Query
    <3>4. wire' = Append(wire, Answer(d, Head(inbox[d]))) /\ wire = <<>>
      BY <1>0, <1>10, <3>1, <3>3 DEF Execute, ExchangeInv
    <3>5. wire' # <<>>
      BY <3>4, AppendToEmpty
    <3> QED
      BY <1>10, <3>5 DEF Execute, GivenInv
  <2> QED
    BY <2>1, <2>2
<1>11. ASSUME NEW d \in Drives, Travel(d)
       PROVE  GivenInv'
  BY <1>11 DEF Travel, GivenInv
<1>12. CASE Arrive
  <2>1. Received(Head(wire)) # <<>>
    <3>1. Head(wire) \in Piece
      BY <1>0, <1>12, HeadPiece DEF Arrive, TypeOK
    <3>2. pc = "poll"
      BY <1>0, <1>12 DEF Arrive, ExchangeInv, Outstanding, TypeOK
    <3>3. Head(wire).part = "whole" /\ rx = <<>>
      BY <1>0, <1>12, <3>2 DEF Arrive, ExchangeInv
    <3>4. Received(Head(wire)) = Append(rx, Head(wire))
      BY <3>3 DEF Received
    <3> QED
      BY <3>3, <3>4, AppendToEmpty
  <2> QED
    BY <1>12, <2>1 DEF Arrive, GivenInv
<1>13. CASE ArriveHead
  BY <1>13 DEF ArriveHead, Prompt
<1>14. CASE UNCHANGED vars
  BY <1>14 DEF vars, GivenInv
<1>15. CASE Caller
  <2>1. Steps \subseteq Int /\ 0 \in Int
    OBVIOUS
  <2>2. {"single_motion_var", "stop_motion", "scan_jog_action"} \subseteq Keys
    BY DEF Keys
  <2> QED
    BY <1>15, <1>1, <1>2, <1>3, <1>4, <2>1, <2>2 DEF Caller
<1>16. CASE Engine \/ External
  BY <1>16, <1>5, <1>6, <1>7, <1>8, <1>9, <1>10, <1>11, <1>12, <1>13
     DEF Engine, External
<1> QED
  BY <1>14, <1>15, <1>16 DEF Next

-----------------------------------------------------------------------------
(* The refinement *)

USE DEF Service!Queries, Service!Methods

\* The abstract call is one exactly while there is a call.
LEMMA CallShown ==
  ASSUME call \in Calls
  PROVE  /\ ServiceCall # None
         /\ ServiceCall = [fn |-> call.fn, drive |-> call.drive]
BY DEF Calls, ServiceCall

\* The answer of the abstract query, case by case.
LEMMA AnswerOutside == ~Querying => ServiceAnswer = None
BY DEF Querying, ServiceAnswer

LEMMA AnswerNotYet ==
  Querying /\ (todo[call.drive] # <<>> \/ inbox[call.drive] # <<>>)
    => ServiceAnswer = None
BY DEF Querying, ServiceAnswer

LEMMA AnswerOnWire ==
  Querying /\ todo[call.drive] = <<>> /\ inbox[call.drive] = <<>> /\ wire # <<>>
    => ServiceAnswer = Head(wire).val
BY DEF Querying, ServiceAnswer

LEMMA AnswerInBuffer ==
  Querying /\ todo[call.drive] = <<>> /\ inbox[call.drive] = <<>> /\ wire = <<>>
    /\ rx # <<>>
    => ServiceAnswer = Head(rx).val
BY DEF Querying, ServiceAnswer

LEMMA AnswerHandled ==
  Querying /\ todo[call.drive] = <<>> /\ inbox[call.drive] = <<>> /\ wire = <<>>
    /\ rx = <<>>
    => ServiceAnswer = IF call.fn = "check_status" THEN parameter[call.drive].val
                       ELSE reported_steps[call.drive]
BY DEF Querying, ServiceAnswer

LEMMA ServiceInit == Init => Service!Init
BY DEF Init, Service!Init, ServiceCall, ServiceAnswer

\* Each step of the exchange is a step of the service, or none at all.
LEMMA ServiceNext ==
  ASSUME Prompt, ~Simulation
  PROVE  PromptInv /\ GivenInv /\ [Next]_vars => [Service!Next]_(Service!vars)
<1> SUFFICES ASSUME PromptInv, GivenInv, [Next]_vars
             PROVE  [Service!Next]_(Service!vars)
  OBVIOUS
<1> USE DEF host, objects, line, drives
<1>0. TypeOK /\ ExchangeInv /\ CallInv
  BY DEF PromptInv
\* A step that leaves the drives, the call and its answer alone.
<1>a. ASSUME UNCHANGED <<pos, goal, ServiceCall, ServiceAnswer>>
      PROVE  UNCHANGED Service!vars
  BY <1>a DEF Service!vars
\* A method is called: it has not been answered.
<1>b. ASSUME NEW d \in Drives, NEW fn \in Service!Methods, call = None,
             call'.fn = fn, call'.drive = d, call' \in Calls,
             UNCHANGED <<pos, goal>>, ServiceAnswer' = None
      PROVE  Service!Next
  <2>1. ServiceCall = None /\ ServiceCall' = [fn |-> fn, drive |-> d]
    BY <1>b DEF ServiceCall, Calls
  <2>2. ServiceAnswer = None
    BY <1>b DEF ServiceAnswer
  <2> QED
    BY <1>b, <2>1, <2>2 DEF Service!Next, Service!Ask
<1>1. ASSUME NEW d \in Drives, ProcessParameters(d)
      PROVE  Service!Next
  <2>1. /\ call = None /\ UNCHANGED <<pos, goal>>
        /\ call'.fn = "process_parameters" /\ call'.drive = d
    BY <1>1 DEF ProcessParameters, Begin
  <2>2. call' \in Calls
    <3>1. <<"set_run_parameters", "read_reset">> \in Seq(Keys)
      BY DEF Keys
    <3>2. Filled(d, "read_power_up", 0) \in Seq(Command)
      BY FilledType DEF Keys
    <3> QED
      BY <1>0, <1>1, <3>1, <3>2, BeginType DEF ProcessParameters
  <2>3. ServiceAnswer' = None
    BY <2>1 DEF ServiceAnswer
  <2> QED
    BY <1>b, <2>1, <2>2, <2>3
<1>2. ASSUME NEW d \in Drives, NEW key \in Keys, NEW n \in Int,
             RunAction(d, key, n)
      PROVE  Service!Next
  <2>1. /\ call = None /\ UNCHANGED <<pos, goal>>
        /\ call'.fn = "run_action" /\ call'.drive = d
    BY <1>2 DEF RunAction, Begin
  <2>2. call' \in Calls
    BY <1>0, <1>2, FilledType, BeginType, EmptySeq DEF RunAction
  <2>3. ServiceAnswer' = None
    BY <2>1 DEF ServiceAnswer
  <2> QED
    BY <1>b, <2>1, <2>2, <2>3
<1>3. ASSUME NEW d \in Drives, CheckStatus(d)
      PROVE  Service!Next
  <2>1. StatusLine \in Seq(Command) /\ StatusLine # <<>>
    BY DEF StatusLine, Command, Ops
  <2>2. Begin("check_status", d, <<>>, StatusLine) /\ UNCHANGED <<pos, goal>>
    BY <1>3 DEF CheckStatus
  <2>3. /\ call = None /\ call' \in Calls
        /\ call'.fn = "check_status" /\ call'.drive = d /\ todo'[d] # <<>>
    BY <1>0, <2>1, <2>2, BeginLists, BeginType, EmptySeq DEF Begin
  <2>4. ServiceAnswer' = None
    BY <2>3 DEF ServiceAnswer
  <2> QED
    BY <1>b, <2>2, <2>3, <2>4
<1>4. ASSUME NEW d \in Drives, CurrentRotation(d)
      PROVE  Service!Next
  <2> DEFINE lines == Filled(d, "rotation_query", 0)
  <2>1. lines \in Seq(Command) /\ lines # <<>>
    <3>1. lines = <<[op |-> "SP", steps |-> 0]>>
      BY RotationLine
    <3> HIDE DEF lines
    <3> QED
      BY <3>1 DEF Command, Ops
  <2>2. Begin("current_rotation", d, <<>>, lines) /\ UNCHANGED <<pos, goal>>
    BY <1>4 DEF CurrentRotation
  <2> HIDE DEF lines
  <2>3. /\ call = None /\ call' \in Calls
        /\ call'.fn = "current_rotation" /\ call'.drive = d /\ todo'[d] # <<>>
    BY <1>0, <2>1, <2>2, BeginLists, BeginType, EmptySeq DEF Begin
  <2>4. ServiceAnswer' = None
    BY <2>3 DEF ServiceAnswer
  <2> QED
    BY <1>b, <2>2, <2>3, <2>4
<1>5. CASE NextMacro
  <2>1. call \in Calls /\ call # None
    BY <1>0, <1>5 DEF NextMacro, Returning, TypeOK
  <2>2. call.fn \notin {"check_status", "current_rotation"}
    BY <1>0, <1>5, <2>1 DEF NextMacro, CallInv
  <2>3. call'.fn = call.fn /\ call'.drive = call.drive /\ call' \in Calls
    BY <1>5, <2>1, HeadTailProperties DEF NextMacro, Calls
  <2>4. UNCHANGED <<ServiceCall, ServiceAnswer>>
    BY <2>1, <2>2, <2>3 DEF ServiceCall, ServiceAnswer
  <2> QED
    BY <1>5, <1>a, <2>4 DEF NextMacro
<1>6. CASE Return
  <2>1. /\ call # None /\ call' = None /\ UNCHANGED <<pos, goal>>
        /\ call.drive \in Drives
    BY <1>0, <1>6, CallDrive DEF Return, Returning
  <2>2. ServiceAnswer' = None /\ ServiceCall' = None
    BY <2>1 DEF ServiceAnswer, ServiceCall
  <2>3. ServiceCall # None /\ ServiceCall.fn = call.fn
    BY <2>1, <1>0, CallDrive, CallShown
  <2>4. ASSUME Querying PROVE ServiceAnswer # None
    <3>1. /\ todo[call.drive] = <<>> /\ inbox[call.drive] = <<>>
          /\ wire = <<>> /\ rx = <<>>
      BY <1>0, <1>6, <2>1 DEF Return, Returning, ExchangeInv, Outstanding
    <3>2. CASE call.fn = "check_status"
      <4>1. parameter[call.drive] # None
        BY <2>1, <3>1, <3>2 DEF GivenInv
      <4>2. parameter[call.drive].val \in Int
        BY <1>0, <2>1, <4>1 DEF TypeOK, Piece
      <4> QED
        BY <2>4, <3>1, <3>2, <4>2, AnswerHandled
    <3>3. CASE call.fn # "check_status"
      <4>1. reported_steps[call.drive] \in Int
        BY <1>0, <2>1 DEF TypeOK
      <4> QED
        BY <2>4, <3>1, <3>3, <4>1, AnswerHandled
    <3> QED
      BY <3>2, <3>3
  <2> QED
    BY <2>1, <2>2, <2>3, <2>4 DEF Querying, Service!Next, Service!Return
<1>7. CASE RunCommand
  <2>1. call.drive \in Drives /\ call # None
    BY <1>0, <1>7, CallDrive DEF RunCommand
  <2>2. /\ inbox'[call.drive] = Append(inbox[call.drive], next_com')
        /\ next_com' = Head(todo[call.drive]) /\ UNCHANGED <<call, pos, goal>>
        /\ todo[call.drive] # <<>>
    BY <1>0, <1>7, <2>1 DEF RunCommand, TypeOK
  <2>3. inbox[call.drive] = <<>>
    BY <1>0, <1>7, <2>1 DEF RunCommand, ExchangeInv, Outstanding
  <2>4. inbox'[call.drive] # <<>>
    BY <2>2, <2>3, AppendToEmpty
  <2>5. ServiceAnswer = None /\ ServiceAnswer' = None /\ UNCHANGED ServiceCall
    BY <2>2, <2>4 DEF ServiceAnswer, ServiceCall
  <2> QED
    BY <1>a, <2>2, <2>5
<1>8. CASE ReadLine
  <2>1. /\ call.drive \in Drives /\ call # None /\ pc = "poll" /\ rx # <<>>
        /\ UNCHANGED <<call, todo, inbox, wire, pos, goal>>
    BY <1>0, <1>8, CallDrive DEF ReadLine, TypeOK
  <2>2. CASE ~Querying
    <3>1. ServiceAnswer = None /\ ServiceAnswer' = None /\ UNCHANGED ServiceCall
      BY <2>1, <2>2 DEF ServiceAnswer, ServiceCall, Querying
    <3> QED
      BY <1>a, <2>1, <3>1
  <2>3. CASE Querying
    <3> DEFINE p == Head(rx)
    <3>1. /\ p.op = next_com.op /\ p.part = "whole" /\ Tail(rx) = <<>>
          /\ inbox[call.drive] = <<>> /\ wire = <<>>
      BY <1>0, <2>1 DEF ExchangeInv
    <3>2. /\ todo[call.drive] = <<>>
          /\ checking_position[call.drive] <=> call.fn = "current_rotation"
          /\ call.fn = "current_rotation" => next_com.op = "SP"
      BY <1>0, <2>1, <2>3 DEF CallInv, Querying
    <3>3. ServiceAnswer = p.val
      BY <2>1, <2>3, <3>1, <3>2, AnswerInBuffer
    <3>4. /\ rx' = <<>> /\ parameter'[call.drive] = p
          /\ call.fn = "current_rotation" => reported_steps'[call.drive] = p.val
      BY <1>0, <1>8, <2>1, <3>1, <3>2 DEF ReadLine, StepsIn, TypeOK
    <3> HIDE DEF p
    <3>5. ServiceAnswer' = p.val
      BY <2>1, <2>3, <3>1, <3>2, <3>4 DEF ServiceAnswer, Querying
    <3> QED
      BY <1>a, <2>1, <3>3, <3>5 DEF ServiceCall
  <2> QED
    BY <2>2, <2>3
<1>9. CASE PollEmpty
  <2>1. UNCHANGED <<ServiceCall, ServiceAnswer>>
    BY <1>9 DEF PollEmpty, ServiceCall, ServiceAnswer
  <2> QED
    BY <1>9, <1>a, <2>1 DEF PollEmpty
<1>10. ASSUME NEW d \in Drives, Execute(d)
       PROVE  [Service!Next]_(Service!vars)
  <2> DEFINE c == Head(inbox[d])
  <2>1. /\ pc = "poll" /\ d = call.drive /\ call # None
        /\ UNCHANGED <<call, todo, rx, parameter, reported_steps>>
        /\ inbox[d] # <<>>
    BY <1>0, <1>10 DEF Execute, ExchangeInv, Outstanding, TypeOK
  <2>2. UNCHANGED ServiceCall /\ ServiceCall # None /\ ServiceCall.drive = d
        /\ ServiceCall.fn = call.fn
    BY <2>1, <1>0, CallDrive, CallShown DEF ServiceCall
  <2>3. CASE ~Querying
    <3>1. ServiceAnswer = None /\ ServiceAnswer' = None
      BY <2>1, <2>3 DEF ServiceAnswer, Querying
    <3>2. \A e \in Drives \ {d} : pos'[e] = pos[e] /\ goal'[e] = goal[e]
      BY <1>0, <1>10 DEF Execute, TypeOK
    <3> QED
      BY <2>1, <2>2, <2>3, <3>1, <3>2 DEF Querying, Service!Next, Service!Steer
  <2>4. CASE Querying
    <3>1. c = next_com /\ Tail(inbox[d]) = <<>> /\ wire = <<>> /\ rx = <<>>
      BY <1>0, <1>10, <2>1 DEF Execute, ExchangeInv
    <3>2. /\ todo[d] = <<>>
          /\ call.fn = "check_status" => c.op = "SC"
          /\ call.fn = "current_rotation" => c.op = "SP"
      BY <1>0, <2>1, <2>4, <3>1 DEF CallInv, Querying
    <3>3. Query(c) /\ c.op \in {"SC", "SP"}
      BY <2>4, <3>2 DEF Query, Querying
    <3>4. GoalAfter(d, c) = goal[d] /\ PosAfter(d, c) = pos[d]
      BY <3>3 DEF GoalAfter, PosAfter
    <3>5. UNCHANGED <<pos, goal>>
      BY <1>0, <1>10, <3>4 DEF Execute, TypeOK
    <3>6. wire' = Append(wire, Answer(d, c)) /\ inbox'[d] = <<>>
      BY <1>0, <1>10, <3>1, <3>3 DEF Execute, TypeOK
    <3>7. wire' # <<>> /\ Head(wire') = Answer(d, c)
      BY <3>1, <3>6, AppendToEmpty
    <3>8. Answer(d, c).val = Service!True(call.fn, d)
      BY <2>4, <3>2 DEF Answer, Service!True, AtRest, Querying
    <3>9. ServiceAnswer = None
      BY <1>10, <2>1, <2>4, AnswerNotYet DEF Execute
    <3>10. ServiceAnswer' = Head(wire').val
      BY <2>1, <2>4, <3>2, <3>6, <3>7 DEF ServiceAnswer, Querying
    <3> QED
      BY <2>1, <2>2, <2>4, <3>5, <3>7, <3>8, <3>9, <3>10
         DEF Querying, Service!Next, Service!Serve
  <2> QED
    BY <2>3, <2>4
<1>11. ASSUME NEW d \in Drives, Travel(d)
       PROVE  Service!Next
  <2>1. UNCHANGED <<ServiceCall, ServiceAnswer>>
    BY <1>11 DEF Travel, ServiceCall, ServiceAnswer
  <2> QED
    BY <1>11, <2>1 DEF Travel, AtRest, Jogging, Service!Next, Service!Move
<1>12. CASE Arrive
  <2>1. /\ wire # <<>> /\ wire' = Tail(wire)
        /\ UNCHANGED <<call, todo, inbox, parameter, reported_steps, pos, goal>>
    BY <1>12 DEF Arrive
  <2>2. pc = "poll" /\ call # None
    BY <1>0, <2>1 DEF ExchangeInv, Outstanding, TypeOK
  <2>3. /\ Head(wire).part = "whole" /\ Tail(wire) = <<>> /\ rx = <<>>
        /\ inbox[call.drive] = <<>>
    BY <1>0, <2>1, <2>2 DEF ExchangeInv
  <2>4. rx' = Append(rx, Head(wire))
    BY <1>12, <2>3 DEF Arrive, Received
  <2>5. rx' # <<>> /\ Head(rx') = Head(wire)
    BY <2>3, <2>4, AppendToEmpty
  <2>6. CASE ~Querying
    <3>1. ServiceAnswer = None /\ ServiceAnswer' = None /\ UNCHANGED ServiceCall
      BY <2>1, <2>6 DEF ServiceAnswer, ServiceCall, Querying
    <3> QED
      BY <1>a, <2>1, <3>1
  <2>7. CASE Querying
    <3>1. todo[call.drive] = <<>>
      BY <1>0, <2>2, <2>7 DEF CallInv, Querying
    <3>2. ServiceAnswer = Head(wire).val
      BY <2>1, <2>3, <2>7, <3>1, AnswerOnWire
    <3>3. ServiceAnswer' = Head(rx').val
      BY <2>1, <2>3, <2>5, <2>7, <3>1 DEF ServiceAnswer, Querying
    <3> QED
      BY <1>a, <2>1, <2>5, <3>2, <3>3 DEF ServiceCall
  <2> QED
    BY <2>6, <2>7
<1>13. CASE ArriveHead
  BY <1>13 DEF ArriveHead, Prompt
<1>14. CASE UNCHANGED vars
  BY <1>14 DEF vars, Service!vars, ServiceCall, ServiceAnswer
<1>15. CASE Caller
  <2>1. Steps \subseteq Int /\ 0 \in Int
    OBVIOUS
  <2>2. {"single_motion_var", "stop_motion", "scan_jog_action"} \subseteq Keys
    BY DEF Keys
  <2> QED
    BY <1>15, <1>1, <1>2, <1>3, <1>4, <2>1, <2>2 DEF Caller
<1>16. CASE Engine \/ External
  BY <1>16, <1>5, <1>6, <1>7, <1>8, <1>9, <1>10, <1>11, <1>12, <1>13
     DEF Engine, External
<1> QED
  BY <1>14, <1>15, <1>16 DEF Next

\* With prompt answers the queries implement DriveService: each is answered by
\* its own drive at one moment of the call (check_status, current_rotation).
THEOREM QueriesAreServed ==
  ASSUME Prompt, ~Simulation
  PROVE  Spec => AnswersQueries
<1>1. Init => GivenInv /\ Service!Init
  BY GivenInit, ServiceInit
<1>2. PromptInv /\ GivenInv /\ [Next]_vars => GivenInv'
  BY GivenNext
<1>3. PromptInv /\ GivenInv /\ [Next]_vars => [Service!Next]_(Service!vars)
  BY ServiceNext
<1>4. Spec => []PromptInv
  BY PromptInvariant
<1> QED
  BY <1>1, <1>2, <1>3, <1>4, PTL DEF Spec, AnswersQueries, Service!Spec

=============================================================================
