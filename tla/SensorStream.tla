---------------------------- MODULE SensorStream ----------------------------
(***************************************************************************)
(* UIInterfaceWriterThread::run (uiinterfacethread.cpp): one sensor        *)
(* thread, from the camera's stream to Target::data_test.                  *)
(*                                                                         *)
(* wait_on_data returns a word, what the stream has up to the next white.  *)
(* A word is tokens between commas; a text is written here as the sequence *)
(* of its tokens, so "a,,b" is <<a, Empty, b>>, "," is <<Empty, Empty>>    *)
(* and "" is <<>>.  A token like "MT_" begins a record, and the record     *)
(* before it is emitted then: a record's end is not known earlier.         *)
(***************************************************************************)
EXTENDS Naturals, Sequences, FiniteSets, SequencesExt

CONSTANTS
  Headers,    \* tokens that is_header accepts
  Fields,     \* other tokens
  Empty,      \* the token between two commas
  Known,      \* the headers that are keys of sg_target_map
  MaxTokens   \* bound on the tokens of the stream

Tokens == Headers \cup Fields \cup {Empty}

ASSUME TokenAssumption ==
  /\ Headers \cap Fields = {} /\ Empty \notin Headers \cup Fields
  /\ Known \subseteq Headers
  /\ MaxTokens \in Nat

VARIABLES
  stream,           \* history: the tokens received, less what run loses (Kept)
  data,             \* what is left of the last one
  found_header,     \* _found_header
  previous_partial, \* _previous_partial
  keys,             \* the keys of sg_target_map
  present,          \* present[t]: _target_present of the known target t
  delivered         \* history: the records emit_to_target was called with

vars == <<stream, data, found_header, previous_partial, keys, present,
          delivered>>

-----------------------------------------------------------------------------
(* The records of a stream, read as a whole. *)

\* The tokens of a word that count: all but two empty ones at its end, one for
\* the comma that run cuts off and one that its inner loop does not see.  What is
\* lost here is lost to the program, and no property below says otherwise.
Kept(word) ==
  LET gone == {n \in 0..Min({2, Len(word)}) :
                 \A i \in Len(word) - n + 1..Len(word) : word[i] = Empty}
  IN SubSeq(word, 1, Len(word) - Max(gone))

\* The places where records begin.
StartsOf(s) == {k \in DOMAIN s : s[k] \in Headers}

\* A header and what follows it up to the next one.
RecordAt(s, k) ==
  LET later == {x \in StartsOf(s) : x > k}
  IN SubSeq(s, k, IF later = {} THEN Len(s) ELSE Min(later) - 1)

RecordsOf(s) ==
  LET starts == StartsOf(s)
      Nth(n) == CHOOSE k \in starts : Cardinality({x \in starts : x <= k}) = n
  IN [n \in 1..Cardinality(starts) |-> RecordAt(s, Nth(n))]

-----------------------------------------------------------------------------
\* The text of a sequence of tokens: a single empty token is the empty text.
AsText(s) == IF s = <<Empty>> THEN <<>> ELSE s

Init ==
  /\ stream = <<>> /\ data = <<>>
  /\ found_header = FALSE /\ previous_partial = <<>>
  /\ keys = Known /\ present = [t \in Known |-> FALSE]
  /\ delivered = <<>>

\* A word, without a comma at its end.
Receive(word) ==
  /\ data = <<>>
  /\ stream' = stream \o Kept(word)
  /\ data' = AsText(IF Len(word) > 1 /\ Last(word) = Empty THEN Front(word)
                    ELSE word)
  /\ UNCHANGED <<found_header, previous_partial, keys, present, delivered>>

\* data_test: ",," in what follows the key says that the pattern is not there.
\* A record without a comma is key and data at once.
Absent(record) == \E i \in 3..Len(record) - 1 : record[i] = Empty

\* emit_record and emit_to_target; a lookup of an unknown key inserts it.
Emit(record) ==
  /\ keys' = keys \cup {Head(record)}
  /\ present' = [t \in Known |->
                   IF t = Head(record) THEN ~Absent(record) ELSE present[t]]
  /\ delivered' = Append(delivered, record)

\* Mutant of TakeToken: the first record is emitted although none precedes it.
TakeTokenAtOnce ==
  /\ data # <<>>
  /\ data' = AsText(Tail(data))
  /\ IF Head(data) \in Headers
     THEN /\ Emit(<<Head(data)>>)
          /\ found_header' = TRUE
          /\ previous_partial' = <<Head(data)>>
     ELSE /\ previous_partial' = IF found_header
                                 THEN Append(previous_partial, Head(data))
                                 ELSE previous_partial
          /\ UNCHANGED <<found_header, keys, present, delivered>>
  /\ UNCHANGED stream

\* Mutant of TakeToken: an empty token is passed over.
TakeTokenFull ==
  /\ data # <<>>
  /\ data' = AsText(Tail(data))
  /\ IF Head(data) \in Headers
     THEN /\ IF found_header THEN Emit(previous_partial)
             ELSE UNCHANGED <<keys, present, delivered>>
          /\ found_header' = TRUE
          /\ previous_partial' = <<Head(data)>>
     ELSE /\ previous_partial' = IF found_header /\ Head(data) # Empty
                                 THEN Append(previous_partial, Head(data))
                                 ELSE previous_partial
          /\ UNCHANGED <<found_header, keys, present, delivered>>
  /\ UNCHANGED stream

\* One turn of the inner loop.  It ends when the rest is the empty text, so an
\* empty token at the end is not seen.
TakeToken ==
  /\ data # <<>>
  /\ data' = AsText(Tail(data))
  /\ IF Head(data) \in Headers
     THEN /\ IF found_header THEN Emit(previous_partial)
             ELSE UNCHANGED <<keys, present, delivered>>
          /\ found_header' = TRUE
          /\ previous_partial' = <<Head(data)>>
     ELSE /\ previous_partial' = IF found_header
                                 THEN Append(previous_partial, Head(data))
                                 ELSE previous_partial
          /\ UNCHANGED <<found_header, keys, present, delivered>>
  /\ UNCHANGED stream

\* The words the camera may send next; MaxTokens bounds the stream.
Words ==
  {w \in BoundedSeq(Tokens, MaxTokens - Len(stream)) : AsText(w) # <<>>}

Next == TakeToken \/ \E word \in Words : Receive(word)

\* The thread runs; the camera owes nothing.
Spec == Init /\ [][Next]_vars /\ WF_vars(TakeToken)

-----------------------------------------------------------------------------
AllButLast(s) == IF s = <<>> THEN s ELSE Front(s)
CompleteRecords == AllButLast(RecordsOf(stream))

\* The thread implements RecordStream: every record that another one follows
\* is delivered once, whole, in order, and in the end.
Promise == INSTANCE RecordStream WITH complete <- CompleteRecords
RecordsDelivered == Promise!Spec

\* While the thread waits for the camera exactly the newest record has not been
\* delivered (run emits one record behind), and a target is believed in view as
\* its last record but the newest says, however the stream was cut.
NewestWaits ==
  data = <<>> =>
    /\ delivered = CompleteRecords
    /\ keys = Known \cup {Head(delivered[k]) : k \in DOMAIN delivered}
    /\ \A t \in Known :
         LET of == {k \in DOMAIN delivered : Head(delivered[k]) = t}
         IN present[t] <=> of # {} /\ ~Absent(delivered[Max(of)])
=============================================================================
