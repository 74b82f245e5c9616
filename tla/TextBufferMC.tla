---------------------------- MODULE TextBufferMC ----------------------------
(* Small instances of TextBuffer for TLC. *)
EXTENDS TextBuffer

\* Lists and lines, sections, quotes, hexadecimal digits, numbers.
MCAlphabets == {
  {" ", "\n", ",", "a"},
  {"\n", "\r", "\t", "a"},
  {"(", ")", "|", " "},
  {"\"", "'", "\n", "a"},
  {"0", "7", "a", "F"},
  {"1", ".", "E", " "}}

MCKeys == {<<"a">>, <<"a", "a">>, <<"a", ",", "a">>, <<",">>}
\* Fresh values, values that are or hold a key, and, of <<"a", ",", "a">>, one whose
\* end begins it.
MCValues == {<<"$">>, <<"$", "%", "%">>, <<"a">>, <<"a", ",", "a">>}

MCCode == [c \in UNION MCAlphabets |->
  CASE c = "\t" -> 9 [] c = "\n" -> 10 [] c = "\r" -> 13 [] c = " " -> 32
    [] c = "\"" -> 34 [] c = "'" -> 39 [] c = "(" -> 40 [] c = ")" -> 41
    [] c = "," -> 44 [] c = "." -> 46 [] c = "0" -> 48 [] c = "1" -> 49
    [] c = "7" -> 55 [] c = "E" -> 69 [] c = "F" -> 70 [] c = "a" -> 97
    [] c = "|" -> 124]
=============================================================================
