----------------------------- MODULE TextUtils -----------------------------
(***************************************************************************)
(* common/static_utils.h: how this program scans, trims and cuts text.     *)
(*                                                                         *)
(* A text is a sequence of characters, each a one-character string.  A     *)
(* char pointer into a text is a position; the position after the last     *)
(* character is where the terminating 0 is.  NULL is position 0.  What the *)
(* functions write into their own copy of an argument and undo, or leak,   *)
(* is left out.  Loops over a text are recursive functions, or the set of  *)
(* positions they stop at.                                                 *)
(***************************************************************************)
EXTENDS Integers, Sequences, SequencesExt

\* isspace ('\v' behaves as the others)
White == {" ", "\t", "\n", "\r", "\f"}
\* isdigit
Digit == {"0", "1", "2", "3", "4", "5", "6", "7", "8", "9"}

Text == Seq(STRING)

\* The text from position i on, as a C string that starts there.
From(s, i) == SubSeq(s, i, Len(s))

\* Where "while ( *tmp && in C ) tmp++" stops, and "while ( *tmp && !in C )".
Past(s, i, C) ==
  CHOOSE j \in i..Len(s) + 1 :
     /\ \A k \in i..j - 1 : s[k] \in C
     /\ j <= Len(s) => s[j] \notin C
Until(s, i, C) ==
  CHOOSE j \in i..Len(s) + 1 :
     /\ \A k \in i..j - 1 : s[k] \notin C
     /\ j <= Len(s) => s[j] \in C

\* strstr, std::string::find: the first place of key from position i, or 0.
find(s, key, i) ==
  LET at == {p \in i..Len(s) - Len(key) + 1 :
               SubSeq(s, p, p + Len(key) - 1) = key}
  IN IF at = {} THEN 0 ELSE Min(at)

\* strrchr, std::string::find_last_of: the last place of c, or 0.
find_last_of(s, c) ==
  LET at == {p \in DOMAIN s : s[p] = c} IN IF at = {} THEN 0 ELSE Max(at)

-----------------------------------------------------------------------------
(* Scanning. *)

skip_white(s, i) == Past(s, i, White)
\* Mutant of skip_to_white: only a blank ends a word.
skip_to_blank(s, i) == Until(s, i, {" "})

skip_to_white(s, i) == Until(s, i, White)
skip_to_char(s, i, c) ==
  LET j == Until(s, i, {c}) IN IF j <= Len(s) THEN j ELSE 0
skip_to_char_or_white(s, i, c) ==
  LET j == Until(s, i, White \cup {c}) IN IF j <= Len(s) THEN j ELSE 0

\* From the quote at i to the one that closes it: c again, and not behind the
\* other kind of quote.
skip_quoted(s, i, c) ==
  LET other == IF c = "\"" THEN "'" ELSE "\""
      closing == {k \in i + 1..Len(s) : s[k] = c /\ s[k - 1] # other}
  IN IF closing = {} THEN 0 ELSE Min(closing)

end_line(s, i) ==
  LET j == Until(s, i, {"\n"}) IN IF j <= Len(s) THEN j + 1 ELSE j
empty_line(s) == skip_white(s, 1) > Len(s)

\* The token at i, and where the scan goes on.
token(s, i) ==
  LET b == skip_white(s, i)
      e == skip_to_white(s, b)
  IN [word |-> SubSeq(s, b, e - 1), next |-> e]

\* The same, but a quoted part at its beginning holds white too.  A quote that is
\* not closed gives NULL, which the function then reads.
token_quotes(s, i) ==
  LET b == skip_white(s, i)
      q == IF b <= Len(s) /\ s[b] = "\"" THEN skip_quoted(s, b, "\"") ELSE b
      e == IF q = 0 THEN 0 ELSE skip_to_white(s, q)
  IN [word |-> SubSeq(s, b, e - 1), next |-> e]

\* The first line with its '\n'.
first_line(s) == SubSeq(s, 1, end_line(s, 1) - 1)

\* A text without a '\n' loses its last character.
buffer_to_line(s) == SubSeq(s, 1, end_line(s, 1) - 2)

-----------------------------------------------------------------------------
(* Trimming. *)

trim_front(s) == From(s, skip_white(s, 1))

\* Mutant of trim_from_end: one character instead of all.
trim_from_end_once(s) ==
  IF s # <<>> /\ Last(s) \in White THEN Front(s) ELSE s

\* Erases white from the last character on; the loop stops when it reaches the
\* first character, without a look at it.  A text of one white character has no
\* first one to stop at, and the code runs on before it; so it does in trim_end
\* for an empty text.  The callers here hand them no such text: trim cuts the white at
\* the beginning off first, and clear_empty_lines leaves blank lines out.
trim_from_end(s) ==
  IF s = <<>> THEN s
  ELSE SubSeq(s, 1, Max({1} \cup {j \in DOMAIN s : s[j] \notin White}))

trim_end(s) == trim_from_end(s)
trim(s) == trim_from_end(trim_front(s))
trim_string(s) == trim(s)

-----------------------------------------------------------------------------
(* Cutting in two. *)

\* Cut at the first c, or, when c is ' ', at the first run of white.
split_string(data, c) ==
  LET parts[t \in Text] ==
        LET cut == IF c = " " THEN skip_to_white(t, 1) ELSE Until(t, 1, {c})
            rest == IF c = " " /\ cut <= Len(t) THEN skip_white(t, cut + 1)
                    ELSE cut + 1
        IN [name |-> SubSeq(t, 1, cut - 1), accessor |-> From(t, rest)]
  IN parts[trim(data)]

\* A quoted part at the beginning belongs to the name whatever it holds.  What
\* follows it is cut at its own first character: a variable of the inner block
\* hides the separator.
split_string_quotes(data, c) ==
  LET b == skip_white(data, 1)
      e == IF b <= Len(data) /\ data[b] = "\""
           THEN skip_to_char(data, b + 1, "\"") ELSE 0
      behind == split_string(From(data, e + 1), data[e + 1])
  IN IF e = 0 THEN split_string(data, c)
     ELSE IF e = Len(data) THEN [name |-> From(data, b), accessor |-> <<>>]
     ELSE [behind EXCEPT !.name = SubSeq(data, b, e) \o @]

string_split_string(data, key) ==
  LET p == find(data, key, 1)
  IN IF p = 0 THEN [name |-> data, accessor |-> <<>>]
     ELSE [name |-> SubSeq(data, 1, p - 1),
           accessor |-> From(data, p + Len(key))]

front_string(data, divider) ==
  LET t == trim(data)
      p == find(t, divider, 1)
  IN IF p = 0 THEN t ELSE SubSeq(t, 1, p - 1)

remove_stem(file, c) == SubSeq(file, 1, find_last_of(file, c) - 1)
\* Mutant of get_stem: the separator is kept.
get_stem_with(file, c) == From(file, find_last_of(file, c))

get_stem(file, c) ==
  LET p == find_last_of(file, c) IN IF p = 0 THEN <<>> ELSE From(file, p + 1)
last_item(s, c) == From(s, find_last_of(s, c) + 1)
chop(s, c) ==
  LET p == find(s, <<c>>, 1) IN IF p = 0 THEN <<>> ELSE From(s, p + 1)

-----------------------------------------------------------------------------
(* Cutting in many. *)

\* The loop ends when nothing follows a cut, so a separator at the end of the
\* text makes no item.
to_items(s, itemDel) ==
  LET items[x \in Text] ==
        IF x = <<>> THEN <<>>
        ELSE LET p == split_string(x, itemDel)
             IN <<trim_string(p.name)>> \o items[p.accessor]
  IN items[s]

\* Passes over pieces of one character, except for the last piece, which is
\* taken even when it is empty.
token_list(s, divider) ==
  LET pieces[prev \in Nat] ==
        LET k == Until(s, prev, {divider})
        IN IF k > Len(s) THEN <<From(s, prev)>>
           ELSE (IF k > prev + 1 THEN <<SubSeq(s, prev, k - 1)>> ELSE <<>>)
                  \o pieces[k + 1]
  IN pieces[1]

to_tokens(s) == to_items(s, ",")
to_items_vector(parts, s, itemDel) == parts \o to_items(s, itemDel)

\* One line, without its '\n', and where the next one begins.
extract_line(s, i) ==
  LET e == end_line(s, i)
  IN [line |-> SubSeq(s, i, IF s[e - 1] = "\n" THEN e - 2 ELSE e - 1),
      next |-> e]

to_nontrimmed_lines(page) ==
  LET lines[i \in Nat] ==
        IF i > Len(page) THEN <<>>
        ELSE LET l == extract_line(page, i) IN <<l.line>> \o lines[l.next]
  IN lines[1]

to_lines(page) ==
  FoldLeft(LAMBDA ls, l : Append(ls, trim(l)), <<>>, to_nontrimmed_lines(page))

\* Mutant of to_no_empty_lines: looks for empty lines before it trims.
to_no_empty_lines_early(page) ==
  LET l == SelectSeq(to_nontrimmed_lines(page), LAMBDA x : x # <<>>)
  IN [k \in DOMAIN l |-> trim(l[k])]

to_no_empty_lines(page) == SelectSeq(to_lines(page), LAMBDA l : l # <<>>)
to_line_set(page) == Range(to_lines(page))

clear_empty_lines(s) ==
  LET kept == SelectSeq(to_lines(s), LAMBDA l : ~empty_line(l))
  IN FlattenSeq([k \in DOMAIN kept |-> trim_end(kept[k]) \o <<"\n">>])

count_lines(s) == Cardinality({k \in DOMAIN s : s[k] = "\n"})
count_tabs(s) == Cardinality({k \in 1..skip_white(s, 1) - 1 : s[k] = "\t"})

extract_indented_lines(data) ==
  LET l == SelectSeq(to_nontrimmed_lines(data), LAMBDA x : x # <<>>)
  IN [k \in DOMAIN l |-> [depth |-> count_tabs(l[k]), line |-> trim_string(l[k])]]

\* The line at i with its '\n' and without any '\r'; NULL (next = 0) when no
\* '\n' follows.
end_line_copy(s, i) ==
  LET e == Until(s, i, {"\n"})
  IN [line |-> SelectSeq(SubSeq(s, i, Min({e, Len(s)})), LAMBDA c : c # "\r"),
      next |-> IF e <= Len(s) THEN e + 1 ELSE 0]

lines_to_list(s) ==
  LET lines[i \in Nat] ==
        LET l == end_line_copy(s, i)
        IN IF l.next = 0 THEN <<>> ELSE <<l.line>> \o lines[l.next]
  IN lines[1]
=============================================================================
