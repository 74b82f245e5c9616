----------------------------- MODULE TextForms -----------------------------
(***************************************************************************)
(* common/static_utils.h, continued: substitution, sections between tags,  *)
(* quotes, joining, hexadecimal text and the tests for numbers.            *)
(***************************************************************************)
EXTENDS TextUtils

(* Replacing. *)

single_subst(key, value, form) ==
  LET p == find(form, key, 1)
  IN IF p = 0 THEN form
     ELSE SubSeq(form, 1, p - 1) \o value \o From(form, p + Len(key))

\* Mutant of subst: the value is looked at, too, when it has been put in.
subst_rescan(key, value, form) ==
  LET rest[i \in Nat] ==
        LET p == find(form, key, i)
        IN IF p = 0 THEN From(form, i)
           ELSE SubSeq(form, i, p - 1) \o single_subst(key, value, value)
                  \o rest[p + Len(key)]
  IN rest[1]

\* The search goes on after the value, which is not looked at again.  With an
\* empty key the loop does not end.
subst(key, value, form) ==
  LET rest[i \in Nat] ==
        LET p == find(form, key, i)
        IN IF p = 0 THEN From(form, i)
           ELSE SubSeq(form, i, p - 1) \o value \o rest[p + Len(key)]
  IN rest[1]

remove_spaces(s) == SelectSeq(s, LAMBDA c : c \notin White)
replace_spaces(s, rc) ==
  [k \in DOMAIN s |-> IF s[k] \in White THEN rc ELSE s[k]]
remove_character(s, sc) == SelectSeq(s, LAMBDA c : c # sc)
replace_characters(s, sc, rc) ==
  [k \in DOMAIN s |-> IF s[k] \in sc THEN rc ELSE s[k]]
replace_character(s, sc, rc) == replace_characters(s, {sc}, rc)
unquote(qs) == remove_character(qs, "\"")

\* One replacer for each c: the way up from a path.
replace_between(c, replacer, target) ==
  FlattenSeq([k \in DOMAIN SelectSeq(target, LAMBDA x : x = c) |-> replacer])

-----------------------------------------------------------------------------
(* Sections between tags. *)

\* strncmp(tmp,tag,strlen(tag)) == 0
Begins(s, i, tag) ==
  i + Len(tag) - 1 <= Len(s) /\ SubSeq(s, i, i + Len(tag) - 1) = tag

NoSection == [found |-> FALSE, begin |-> 0, end |-> 0, middle |-> 0]

\* Mutant of mark_section_and_middle: the first closing tag ends the section.
mark_section_flat(s, start, tag_b, tag_e, tag_m) ==
  LET b == find(s, tag_b, start) + Len(tag_b)
      e == find(s, tag_e, b)
      m == find(s, tag_m, b)
  IN IF b = Len(tag_b) \/ b > Len(s) THEN NoSection
     ELSE [found |-> TRUE, begin |-> b, end |-> e, middle |-> m]

\* From behind the first opening tag to the closing tag that belongs to it,
\* and the last middle tag in between that no inner section holds.  A section
\* that is not closed is found, and its end is NULL.
mark_section_and_middle(s, start, tag_b, tag_e, tag_m) ==
  LET Found(b, e, m) ==
        IF b = 0 \/ b > Len(s) THEN NoSection
        ELSE [found |-> TRUE, begin |-> b, end |-> e, middle |-> m]
      walk[i \in Nat, start_count \in Nat, b \in Nat, m \in Nat] ==
        IF i > Len(s) THEN Found(b, 0, m)
        ELSE IF Begins(s, i, tag_b)
        THEN walk[i + Len(tag_b), start_count + 1,
                  IF b = 0 THEN i + Len(tag_b) ELSE b, m]
        ELSE IF Begins(s, i, tag_e)
        THEN CASE start_count = 0 -> NoSection
               [] start_count = 1 -> Found(b, i, m)
               [] OTHER -> walk[i + Len(tag_e), start_count - 1, b, m]
        ELSE IF tag_m # <<>> /\ Begins(s, i, tag_m)
        THEN walk[i + Len(tag_m), start_count, b,
                  IF start_count = 1 THEN i ELSE m]
        ELSE walk[i + 1, start_count, b, m]
  IN walk[start, 0, 0, 0]

\* The same without a middle.
mark_section(s, start, tag_b, tag_e) ==
  mark_section_and_middle(s, start, tag_b, tag_e, <<>>)

\* A section that is not closed copies nothing.
extract_field(s, begin, p_name, e_p_name) ==
  LET f == mark_section(s, begin, p_name, e_p_name)
  IN IF f.found /\ f.end # 0 THEN trim(SubSeq(s, f.begin, f.end - 1)) ELSE <<>>

\* The field of the text that ends with position end.
extract_field_region(s, begin, end, p_name, e_p_name) ==
  extract_field(SubSeq(s, 1, end), begin, p_name, e_p_name)

-----------------------------------------------------------------------------
(* Mutant of line_factor_quotes: the last quote of the line goes too. *)
line_factor_quotes_last(s, i) ==
  LET end == Until(s, i, {"\n"})
      quotes == {k \in i..end - 1 : s[k] = "\""}
      next == IF end < Len(s) THEN end + 1 ELSE 0
  IN [text |-> [k \in DOMAIN s |->
                  IF k \in quotes /\ Min(quotes) < k THEN "'" ELSE s[k]],
      next |-> next]

(* Quotes: in the line at i, a '"' between two others becomes a "'".  A '"'
   at the first position of the line does not end the search for the last. *)
line_factor_quotes(s, i) ==
  LET end == Until(s, i, {"\n"})
      quotes == {k \in i..end - 1 : s[k] = "\""}
      last_q == Max({i} \cup quotes)
      line == [k \in DOMAIN s |->
                 IF last_q > i /\ k \in quotes /\ Min(quotes) < k /\ k < last_q
                 THEN "'" ELSE s[k]]
      next == IF end <= Len(s) THEN end + 1 ELSE end
  IN [text |-> line, next |-> IF next <= Len(s) THEN next ELSE 0]

\* What the buffer holds after the loop; the caller's string is another one.
factor_quotes(jstring) ==
  LET lines[i \in Nat, s \in Text] ==
        LET l == line_factor_quotes(s, i)
        IN IF l.next = 0 THEN l.text ELSE lines[l.next, l.text]
  IN lines[1, jstring]

-----------------------------------------------------------------------------
(* Joining.  Op is nullop: the items are texts. *)

\* accumlator after for_each.
accum_string(sep, olist) ==
  FlattenSeq([k \in DOMAIN olist |-> sep \o olist[k]])

\* substr(1) takes one character off, however long the separator is.
implode(seperator, olist) ==
  LET str == accum_string(seperator, olist)
  IN IF str # <<>> THEN Tail(str) ELSE str

-----------------------------------------------------------------------------
(* Hexadecimal text.  A byte is a number below 256. *)

HexDigit == <<"0", "1", "2", "3", "4", "5", "6", "7",
              "8", "9", "a", "b", "c", "d", "e", "f">>
HexCapital == <<"A", "B", "C", "D", "E", "F">>

\* A character that is no digit counts as 0.
hex_to_i(c) ==
  LET at == {k \in 0..15 : \/ HexDigit[k + 1] = c
                           \/ k > 9 /\ HexCapital[k - 9] = c}
  IN IF at = {} THEN 0 ELSE Min(at)
c_hex_conv(i) == HexDigit[i + 1]
\* Mutant of c_to_hex: the low digit first.
c_to_hex_low(c) == <<c_hex_conv(c % 16), c_hex_conv((c \div 16) % 16)>>

c_to_hex(c) == <<c_hex_conv((c \div 16) % 16), c_hex_conv(c % 16)>>
hex_representation(p) == FlattenSeq([k \in DOMAIN p |-> c_to_hex(p[k])])

\* A digit without a second one is lost.
from_hex_representation(str) ==
  [k \in 1..Len(str) \div 2 |->
     ((hex_to_i(str[2 * k - 1]) * 16) % 256) + hex_to_i(str[2 * k])]

\* The bytes of an unsigned integer of size bytes, lowest first.
as_hex(i, size) ==
  hex_representation([k \in 1..size |-> (i \div 256 ^ (k - 1)) % 256])
from_hex(s, size) ==
  LET bytes == from_hex_representation(s)
  IN FoldLeftDomain(LAMBDA sum, k : sum + bytes[k] * 256 ^ (k - 1), 0,
                    SubSeq(bytes, 1, size))

-----------------------------------------------------------------------------
(* Numbers. *)

all_digits(s) == \A k \in DOMAIN s : s[k] \in Digit
isnumber(s) == all_digits(s)

\* The searches for an exponent look into a string that is still empty, so
\* their branches are never taken.
isfloat(s) ==
  LET p == split_string(s, ".")
  IN all_digits(p.name) /\ all_digits(p.accessor)
=============================================================================
