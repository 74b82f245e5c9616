----------------------------- MODULE TextBuffer -----------------------------
(***************************************************************************)
(* The functions of common/static_utils.h on every text that a file, the   *)
(* camera or the operator can hand them: the text grows character by       *)
(* character, and what the functions return for it is compared with        *)
(* definitions of what they are for, or with one another.                  *)
(***************************************************************************)
EXTENDS TextForms

CONSTANTS
  Alphabets,  \* sets of characters; a text is made of one of them
  MaxText,    \* the longest text
  Keys,       \* keys to look for
  Values,     \* replacements; the fresh ones are of characters no alphabet has
  Code        \* Code[c]: the character's number

ASSUME TextAssumption ==
  /\ MaxText \in Nat
  /\ \A A \in Alphabets : A \subseteq STRING
  /\ Keys \subseteq Text \ {<<>>} /\ Values \subseteq Text \ {<<>>}
  /\ \A c \in UNION Alphabets : Code[c] \in 0..255

VARIABLE buffer

\* The caller reads one more character.
Read(c) ==
  /\ Len(buffer) < MaxText
  /\ buffer' = Append(buffer, c)

Init == buffer = <<>>
Next == \E A \in Alphabets :
          \E c \in A : Range(buffer) \subseteq A /\ Read(c)
Spec == Init /\ [][Next]_buffer

-----------------------------------------------------------------------------
Blank(s) == \A k \in DOMAIN s : s[k] \in White

\* trim_string returns the part of its argument between the first and the last
\* character that is not white (trim_front, trim_from_end).
Tight(s, t) ==
  /\ \E i \in 1..Len(s) + 1 : \E j \in i - 1..Len(s) :
       /\ t = SubSeq(s, i, j)
       /\ \A k \in 1..Len(s) : s[k] \in White \/ k \in i..j
  /\ t # <<>> => t[1] \notin White /\ t[Len(t)] \notin White
TrimIsTight == Tight(buffer, trim_string(buffer))

\* The lines that extract_line cuts off, joined again, are the page; the
\* copying loop (lines_to_list) has the same lines up to the last '\n', less
\* their '\r'.  Of the lines that are not empty there are three ways to a list:
\* to_no_empty_lines scans for '\n', to_items trims and cuts at '\n',
\* clear_empty_lines rewrites the page.  They agree but on a blank page, of which
\* to_items makes one empty item.
LinesKeepThePage ==
  LET raw == to_nontrimmed_lines(buffer)
      ended == buffer # <<>> /\ Last(buffer) = "\n"
      lines == to_no_empty_lines(buffer)
      indented == extract_indented_lines(buffer)
  IN /\ implode(<<"\n">>, raw) \o (IF ended THEN <<"\n">> ELSE <<>>) = buffer
     /\ "\n" \in Range(buffer) =>
          /\ first_line(buffer) = raw[1] \o <<"\n">>
          /\ buffer_to_line(buffer) = raw[1]
     /\ FlattenSeq(lines_to_list(buffer))
          = remove_character(SubSeq(buffer, 1, find_last_of(buffer, "\n")), "\r")
     /\ IF Blank(buffer) THEN lines = <<>> ELSE lines = to_items(buffer, "\n")
     /\ to_lines(clear_empty_lines(buffer)) = lines
     /\ count_lines(clear_empty_lines(buffer)) = Len(lines)
     /\ count_lines(buffer) = Len(lines_to_list(buffer))
     /\ Range(lines) = to_line_set(buffer) \ {<<>>}
     /\ lines = SelectSeq([k \in DOMAIN indented |-> indented[k].line],
                          LAMBDA l : l # <<>>)

\* to_items returns the trimmed pieces between separators, the empty ones too,
\* but none after a separator that ends the text; it cuts what implode joins
\* with such a separator into the same items, but for an empty one at the end.
\* token_list takes the pieces as they are and loses the short ones before the
\* last.
ItemsAreThePieces ==
  LET t == trim(buffer)
      cuts == {k \in DOMAIN t : t[k] = ","}
      ends == cuts \cup IF t # <<>> /\ Last(t) = "," THEN {} ELSE {Len(t) + 1}
      item == to_tokens(buffer)
      kept == IF item # <<>> /\ Last(item) = <<>> THEN Front(item) ELSE item
      piece == token_list(buffer, ",")
      long == SelectSeq(to_items_vector(<<>>, replace_spaces(buffer, "a"), ","),
                        LAMBDA x : Len(x) > 1)
  IN /\ IF buffer = <<>> THEN item = <<>>
        ELSE /\ Len(item) = Cardinality(ends)
             /\ \A e \in ends :
                  item[Cardinality({x \in ends : x <= e})]
                    = trim(SubSeq(t, Max({0} \cup {x \in cuts : x < e}) + 1, e - 1))
     /\ to_tokens(implode(<<",">>, item)) = kept
     /\ to_items_vector(item, buffer, ",") = item \o item
     /\ long = SelectSeq([k \in DOMAIN piece |-> replace_spaces(piece[k], "a")],
                         LAMBDA x : Len(x) > 1)
     /\ Last(piece) = get_stem(<<",">> \o buffer, ",")
     /\ \A k \in DOMAIN Front(piece) : Len(piece[k]) > 1

\* token_quotes takes the word that token takes, and more of the text only to close
\* a quote that begins it; it ends nowhere only if that quote is not closed.
QuotedPartIsWhole ==
  LET plain == token(buffer, 1)
      quoted == token_quotes(buffer, 1)
  IN /\ quoted.next # 0 =>
          /\ IsPrefix(plain.word, quoted.word)
          /\ quoted # plain => plain.word[1] = "\""
          /\ \A k \in DOMAIN quoted.word :
               quoted.word[k] \in White =>
                 /\ skip_to_char(quoted.word, k, "\"") # 0
                 /\ skip_to_char_or_white(quoted.word, 1, "\"") = 1
     /\ quoted.next = 0 =>
          \A k \in Past(buffer, 1, White) + 1..Len(buffer) :
             buffer[k] = "\"" => buffer[k - 1] = "'"

\* Cutting at ' ' takes one word after the other, as token does, whatever white
\* is between them; the words are what remove_spaces leaves.
TokensAreItems ==
  LET words[i \in Nat] ==
        LET t == token(buffer, i)
        IN IF t.word = <<>> THEN <<>> ELSE <<t.word>> \o words[t.next]
  IN /\ ~Blank(buffer) => to_items(buffer, " ") = words[1]
     /\ to_items(replace_spaces(buffer, " "), " ") = to_items(buffer, " ")
     /\ FlattenSeq(words[1]) = remove_spaces(buffer)

\* The functions that cut a text in many (to_items, to_tokens, token_list, token,
\* token_quotes) find the pieces that are there, and the same ones.
PiecesAreFound == ItemsAreThePieces /\ QuotedPartIsWhole /\ TokensAreItems

\* subst replaces the keys of the text and nothing else: neither a key inside a
\* value it has put in nor one that a value's end begins, so which keys are replaced
\* does not depend on the value.  With a fresh value no key is left, and replacing
\* the values gives the text back.  The functions that replace characters do what
\* it does for keys of one character.
SubstReversible ==
  LET fresh == {value \in Values : Range(value) \cap UNION Alphabets = {}}
  IN \A key \in Keys :
       /\ \A value \in fresh :
            LET out == subst(key, value, buffer)
            IN find(out, key, 1) = 0 /\ subst(value, key, out) = buffer
       /\ \A value \in Values :
            /\ \A mark \in {v \in fresh : Len(v) = 1} :
                 LET marked == subst(key, mark, buffer)
                 IN subst(key, value, buffer)
                      = FlattenSeq([k \in DOMAIN marked |->
                          IF marked[k] = mark[1] THEN value ELSE <<marked[k]>>])
            /\ replace_character(buffer, key[1], value[1])
                 = subst(<<key[1]>>, <<value[1]>>, buffer)
            /\ replace_between(key[1], value, buffer)
                 = subst(<<key[1]>>, value,
                         SelectSeq(buffer, LAMBDA c : c = key[1]))

\* What the functions that cut a text in two return, put together again, is
\* the text; a quoted part at its beginning is not cut.
CutsRejoin ==
  /\ \A key \in Keys :
       LET cut == string_split_string(buffer, key)
       IN IF find(buffer, key, 1) = 0 THEN cut.name = buffer
          ELSE /\ cut.name \o key \o cut.accessor = buffer
               /\ find(cut.name, key, 1) = 0
               /\ \A value \in Values :
                    single_subst(key, value, buffer)
                      = cut.name \o value \o cut.accessor
  /\ \A key \in Keys :
       front_string(buffer, key) = string_split_string(trim(buffer), key).name
  /\ \A c \in Range(buffer) :
       /\ remove_stem(buffer, c) \o <<c>> \o get_stem(buffer, c) = buffer
       /\ last_item(buffer, c) = get_stem(buffer, c)
       /\ chop(buffer, c) = string_split_string(buffer, <<c>>).accessor
  /\ \A c \in Range(buffer) :
       LET quoted == token_quotes(buffer, 1)
           cut == split_string_quotes(buffer, c)
           e == skip_to_char(buffer, skip_white(buffer, 1) + 1, "\"")
       IN IF quoted.word = <<>> \/ quoted.word[1] # "\"" \/ e = 0
          THEN quoted.next # 0 => cut = split_string(buffer, c)
          ELSE /\ IsPrefix(SubSeq(trim(buffer), 1, e - skip_white(buffer, 1) + 1),
                           cut.name)
               /\ buffer[Min({e + 1, Len(buffer)})] \notin White =>
                    trim(buffer) = cut.name
                      \o (IF e < Len(buffer) THEN <<buffer[e + 1]>> ELSE <<>>)
                      \o cut.accessor

\* mark_section's section runs from behind the first opening tag to the closing
\* tag where as many are closed as were opened; it is not found when a closing
\* tag comes too early, and has no end when the text ends first.  The middle is
\* the last one that lies in no inner section.
SectionIsBalanced ==
  LET Count(c, k) == Cardinality({x \in 1..k : buffer[x] = c})
      Depth(k) == Count("(", k) - Count(")", k)
      closing == {k \in DOMAIN buffer : buffer[k] = ")" /\ Depth(k) = 0}
      early == {k \in DOMAIN buffer : Depth(k) < 0}
      open == find(buffer, <<"(">>, 1)
      stop == IF closing = {} THEN Len(buffer) + 1 ELSE Min(closing)
      middles == {k \in 1..stop - 1 : buffer[k] = "|" /\ Depth(k) = 1}
      found == open \in 1..Len(buffer) - 1 /\ early \cap 1..stop - 1 = {}
      field == extract_field(buffer, 1, <<"(">>, <<")">>)
      f == mark_section_and_middle(buffer, 1, <<"(">>, <<")">>, <<"|">>)
  IN /\ f.found = found
     /\ found =>
          /\ f.begin = open + 1
          /\ f.end = IF closing = {} THEN 0 ELSE stop
          /\ f.middle = IF middles = {} THEN 0 ELSE Max(middles)
     /\ [f EXCEPT !.middle = 0] = mark_section(buffer, 1, <<"(">>, <<")">>)
     /\ field = IF found /\ closing # {}
                THEN trim(SubSeq(buffer, open + 1, stop - 1)) ELSE <<>>
     /\ found =>
          /\ field = extract_field_region(buffer, 1, Min({stop, Len(buffer)}),
                                          <<"(">>, <<")">>)
          /\ extract_field_region(buffer, 1, stop - 1, <<"(">>, <<")">>) = <<>>

\* After factor_quotes a line has of its double quotes the first and the last;
\* nothing else has changed.
QuotesFactored ==
  LET out == factor_quotes(buffer)
      quoted == {k \in DOMAIN out : out[k] = "\""}
      SameLine(i, k) == \A x \in i..k : out[x] # "\n"
  IN /\ DOMAIN out = DOMAIN buffer
     /\ \A k \in DOMAIN out :
          out[k] # buffer[k] =>
            /\ out[k] = "'" /\ buffer[k] = "\""
            /\ \E i, n \in quoted : i < k /\ k < n /\ SameLine(i, n)
     /\ \A i, k \in quoted :
          i < k /\ SameLine(i, k) => \A x \in i + 1..k - 1 : x \notin quoted
     /\ factor_quotes(out) = out
     /\ remove_character(unquote(out), "'") = remove_character(unquote(buffer), "'")

\* isfloat accepts digits with at most one point among them and no exponent, the
\* empty text and a point alone included.
FloatsAreDigits ==
  LET t == trim(buffer)
  IN /\ isfloat(buffer) <=>
          /\ Range(t) \subseteq Digit \cup {"."}
          /\ Cardinality({k \in DOMAIN t : t[k] = "."}) <= 1
     /\ isnumber(buffer) => isfloat(buffer)

\* What a number is written as reads back as a number.  Bytes written in
\* hexadecimal are read as they were, and so is a number byte by byte; digits
\* that are read are written back in small letters.
NumbersReadBack ==
  LET bytes == [k \in DOMAIN buffer |-> Code[buffer[k]]]
      Number == bytes[1] + 256 * bytes[2]
      Small(c) == c_hex_conv(hex_to_i(c))
  IN /\ Len(hex_representation(bytes)) = 2 * Len(bytes)
     /\ from_hex_representation(hex_representation(bytes)) = bytes
     /\ Len(bytes) >= 2 => from_hex(as_hex(Number, 2), 2) = Number
     /\ hex_representation(from_hex_representation(buffer))
          = [k \in 1..2 * (Len(buffer) \div 2) |-> Small(buffer[k])]
     /\ FloatsAreDigits
=============================================================================
