--------------------------- MODULE ParameterFile ---------------------------
(***************************************************************************)
(* read_parameters (common/parameters.h): parameters.ini into the map      *)
(* sg_server_parameters, and ParameterSink::set_descriptor, which takes    *)
(* the settings of one sensor out of that map.                             *)
(*                                                                         *)
(* A line of the file is "key: value" or opens a block, "key: {".  The     *)
(* lines of a block up to "}" are joined with ";", and set_descriptor cuts *)
(* them at ";" again.  Nothing checks that a block is closed, nor that the *)
(* file fits into the buffer it is read into: what happens then is not     *)
(* defined, and the state is "undefined".                                  *)
(***************************************************************************)
EXTENDS TextForms

CONSTANTS
  Files,       \* the files: sequences of lines without '\n'
  BufferSize,  \* sizeof(filebuffer)
  NoComments,  \* no_comments
  NoFile       \* there is no parameters.ini

ASSUME FileAssumption ==
  /\ Files \subseteq Seq(Text) /\ NoFile \notin Seq(Text)
  /\ BufferSize \in Nat \ {0}
  /\ NoComments \in BOOLEAN

VARIABLES
  file,         \* parameters.ini
  pc,           \* where read_parameters is
  lines,        \* the lines from lit on
  key, term,    \* of the block that is being read
  sep,          \* "" before the block's first line, then ";"
  parameters,   \* server_parameters
  settings      \* settings[k]: _parameters of the sensor described by k

vars == <<file, pc, lines, key, term, sep, parameters, settings>>

-----------------------------------------------------------------------------
Open_ == <<"{">>
Close_ == <<"}">>
Comment(l) == l[1] = "#"

\* server_parameters[k] = v
Put(f, k, v) == [x \in DOMAIN f \cup {k} |-> IF x = k THEN v ELSE f[x]]

\* A line cut at its first ':'.
PairOf(l) ==
  LET p == split_string(l, ":")
  IN [key |-> trim_string(p.name), term |-> trim_string(p.accessor)]

Page(f) == FlattenSeq([k \in DOMAIN f |-> f[k] \o <<"\n">>])

Init ==
  /\ file \in Files \cup {NoFile}
  /\ pc = "open"
  /\ lines = <<>>
  /\ key = <<>> /\ term = <<>> /\ sep = <<>>
  /\ parameters = [x \in {} |-> <<>>]
  /\ settings = [x \in {} |-> <<>>]

\* fopen and fread; a file that fills the buffer leaves no 0 at its end.
Open ==
  /\ pc = "open"
  /\ \/ file = NoFile /\ pc' = "done" /\ UNCHANGED lines
     \/ /\ file # NoFile
        /\ \E filebuffer \in {Page(file)} :
             IF Len(filebuffer) >= BufferSize
             THEN pc' = "undefined" /\ UNCHANGED lines
             ELSE pc' = "line" /\ lines' = to_no_empty_lines(filebuffer)
  /\ UNCHANGED <<file, key, term, sep, parameters, settings>>

SkipComment ==
  /\ pc = "line" /\ lines # <<>>
  /\ NoComments /\ Comment(Head(lines))
  /\ lines' = Tail(lines)
  /\ UNCHANGED <<file, pc, key, term, sep, parameters, settings>>

\* A line outside the blocks that no_comments does not skip.
AtEntry ==
  /\ pc = "line" /\ lines # <<>>
  /\ ~(NoComments /\ Comment(Head(lines)))

ReadPair ==
  /\ AtEntry
  /\ \E p \in {PairOf(Head(lines))} :
       /\ p.term # Open_
       /\ parameters' = Put(parameters, p.key, p.term)
  /\ lines' = Tail(lines)
  /\ UNCHANGED <<file, pc, key, term, sep, settings>>

OpenBlock ==
  /\ AtEntry
  /\ \E p \in {PairOf(Head(lines))} :
       /\ p.term = Open_
       /\ key' = p.key /\ term' = <<>> /\ sep' = <<>>
  /\ pc' = "block"
  /\ lines' = Tail(lines)
  /\ UNCHANGED <<file, parameters, settings>>

\* Mutant of BlockLine: the separator is never set.
BlockLineNoSep ==
  /\ pc = "block" /\ lines # <<>>
  /\ \E line \in {trim_string(Head(lines))} :
       /\ line # Close_
       /\ term' = IF Comment(line) THEN term ELSE term \o sep \o line
       /\ sep' = <<>>
       /\ lines' = Tail(lines)
  /\ UNCHANGED <<file, pc, key, parameters, settings>>

\* Mutant of BlockLine: a comment in a block is not left behind.
BlockLineStays ==
  /\ pc = "block" /\ lines # <<>>
  /\ \E line \in {trim_string(Head(lines))} :
       /\ line # Close_
       /\ term' = IF Comment(line) THEN term ELSE term \o sep \o line
       /\ sep' = IF Comment(line) THEN sep ELSE <<";">>
       /\ lines' = IF Comment(line) THEN lines ELSE Tail(lines)
  /\ UNCHANGED <<file, pc, key, parameters, settings>>

\* A line of a block; a comment adds nothing.
BlockLine ==
  /\ pc = "block" /\ lines # <<>>
  /\ \E line \in {trim_string(Head(lines))} :
       /\ line # Close_
       /\ term' = IF Comment(line) THEN term ELSE term \o sep \o line
       /\ sep' = IF Comment(line) THEN sep ELSE <<";">>
       /\ lines' = Tail(lines)
  /\ UNCHANGED <<file, pc, key, parameters, settings>>

CloseBlock ==
  /\ pc = "block" /\ lines # <<>>
  /\ trim_string(Head(lines)) = Close_
  /\ parameters' = Put(parameters, key, term)
  /\ lines' = Tail(lines)
  /\ pc' = "line"
  /\ UNCHANGED <<file, key, term, sep, settings>>

\* lit++ past the last line, and *lit.
Overrun ==
  /\ pc = "block" /\ lines = <<>>
  /\ pc' = "undefined"
  /\ UNCHANGED <<file, lines, key, term, sep, parameters, settings>>

Finish ==
  /\ pc = "line" /\ lines = <<>>
  /\ pc' = "done"
  /\ UNCHANGED <<file, lines, key, term, sep, parameters, settings>>

Reading ==
  \/ Open \/ SkipComment \/ ReadPair \/ OpenBlock \/ BlockLine \/ CloseBlock
  \/ Overrun \/ Finish

\* Mutant of Described: the first of two settings with one name stays.
DescribedFirst(goal_description) ==
  LET items == to_items(goal_description, ";")
  IN FoldRight(LAMBDA i, f : Put(f, PairOf(i).key, PairOf(i).term),
               items, [x \in {} |-> <<>>])

\* The map that set_descriptor fills: an item after the other, cut at ':'.
Described(goal_description) ==
  FoldLeft(LAMBDA f, i : Put(f, PairOf(i).key, PairOf(i).term),
           [x \in {} |-> <<>>], to_items(goal_description, ";"))

\* init_sensor_descriptions, for one of the keys that begin with "(s)".
SetDescriptor(k) ==
  /\ pc = "done"
  /\ k \in DOMAIN parameters \ DOMAIN settings
  /\ SubSeq(k, 1, Min({3, Len(k)})) = <<"(", "s", ")">>
  /\ settings' = Put(settings, k, Described(parameters[k]))
  /\ UNCHANGED <<file, pc, lines, key, term, sep, parameters>>

Next == Reading \/ \E k \in DOMAIN parameters : SetDescriptor(k)

\* A single thread that goes on.
Spec == Init /\ [][Next]_vars /\ WF_vars(Reading)

-----------------------------------------------------------------------------
\* The file read as a whole: its lines that are not empty, which of them lie in
\* a block, and what each line outside the blocks says.
FileLines ==
  IF file = NoFile THEN <<>>
  ELSE SelectSeq([k \in DOMAIN file |-> trim(file[k])], LAMBDA l : l # <<>>)
Opens(l) == ~(NoComments /\ Comment(l)) /\ PairOf(l).term = Open_
InBlock[k \in Nat] ==
  /\ k > 1
  /\ IF InBlock[k - 1] THEN FileLines[k - 1] # Close_ ELSE Opens(FileLines[k - 1])
Entries ==
  {k \in DOMAIN FileLines :
     ~InBlock[k] /\ ~(NoComments /\ Comment(FileLines[k]))}
\* The end of the block that line k opens.
ClosedAt(k) ==
  LET at == {x \in DOMAIN FileLines : x > k /\ FileLines[x] = Close_}
  IN IF at = {} THEN 0 ELSE Min(at)
LinesOf(k) ==
  SelectSeq(SubSeq(FileLines, k + 1, ClosedAt(k) - 1), LAMBDA l : ~Comment(l))
EntryOf(k) ==
  Max({x \in Entries : PairOf(FileLines[x]).key = k})

\* What read_parameters leaves: the entries of the file, the last one of a key,
\* a block's lines joined; and it goes astray exactly when the file fills the
\* buffer or ends inside a block.  The lines of a block come back when to_items
\* cuts its term (run_action, set_descriptor): each line's items in order, and an
\* empty one behind a line that ends with ";".
ParametersAreTheFile ==
  LET Unclosed == \E k \in Entries : Opens(FileLines[k]) /\ ClosedAt(k) = 0
      Long == file # NoFile /\ Len(Page(file)) >= BufferSize
  IN /\ pc = "done" =>
          /\ ~Unclosed /\ ~Long
          /\ DOMAIN parameters = {PairOf(FileLines[k]).key : k \in Entries}
          /\ \A x \in DOMAIN parameters :
               LET k == EntryOf(x)
               IN parameters[x] = IF Opens(FileLines[k])
                                  THEN implode(<<";">>, LinesOf(k))
                                  ELSE PairOf(FileLines[k]).term
          /\ \A x \in DOMAIN parameters :
               LET k == EntryOf(x)
                   each == [n \in DOMAIN LinesOf(k) |-> to_items(LinesOf(k)[n], ";")]
                   Full(items) == SelectSeq(items, LAMBDA i : i # <<>>)
               IN Opens(FileLines[k]) =>
                    Full(to_items(parameters[x], ";")) = Full(FlattenSeq(each))
     /\ pc = "undefined" => Unclosed \/ Long

\* What lies between the ';' of a line, trimmed, but the empty pieces.
PiecesOf(l) ==
  LET cuts == SetToSortSeq({0, Len(l) + 1} \cup {n \in DOMAIN l : l[n] = ";"}, <)
  IN SelectSeq([n \in 1..Len(cuts) - 1 |->
                  trim(SubSeq(l, cuts[n] + 1, cuts[n + 1] - 1))],
               LAMBDA piece : piece # <<>>)

\* A sensor has the settings of its lines, however many a line holds and also when
\* it ends with ';' ("port_count: 10;", parameters.ini:215): the last value of each
\* name, and no other name but the empty one, which an empty piece adds.
SettingsReachTheSensor ==
  \A x \in DOMAIN settings :
    LET k == EntryOf(x)
        said == IF Opens(FileLines[k]) THEN LinesOf(k)
                ELSE <<PairOf(FileLines[k]).term>>
        pieces == FlattenSeq([n \in DOMAIN said |-> PiecesOf(said[n])])
        pairs == [n \in DOMAIN pieces |-> PairOf(pieces[n])]
        Of(name) == {n \in DOMAIN pairs : pairs[n].key = name}
        names == {pairs[n].key : n \in DOMAIN pairs} \ {<<>>}
    IN /\ DOMAIN settings[x] \ {<<>>} = names
       /\ \A name \in names : settings[x][name] = pairs[Max(Of(name))].term

\* read_parameters comes to an end.
ReadingEnds == <>(pc \in {"done", "undefined"})
=============================================================================
