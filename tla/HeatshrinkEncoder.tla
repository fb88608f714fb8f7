------------------------- MODULE HeatshrinkEncoder -------------------------
(***************************************************************************)
(* The heatshrink encoder (lib/heatshrink/heatshrink_encoder.c), with      *)
(* which mkespfsimage compresses files: an LZSS coder that is given its    *)
(* input with sink, asked for output with poll and told the end of the     *)
(* input with finish.                                                      *)
(*                                                                         *)
(* A function takes and returns a record with the fields of                *)
(* heatshrink_encoder; EncoderStep is one round of the loop of poll.  What *)
(* is output is a sequence of at most room bytes.  The bits of a byte are  *)
(* a parameter, 8 in the code: with fewer of them, fields of more than a   *)
(* byte do not need windows of 512 bytes.                                  *)
(***************************************************************************)
EXTENDS Integers, Sequences

\* A format: bits of a byte, of an index (window_sz2) and of a count.
FormatType == [byte : 1 .. 8, window : 4 .. 15, lookahead : 2 .. 15]

MIN_MATCH == 3                      \* break_even_point
LITERAL_MARKER == 1
BACKREF_MARKER == 0
NO_MATCH == [pos |-> 0, len |-> 0]

get_input_buffer_size(e) == 2 ^ e.fmt.window
get_lookahead_size(e) == 2 ^ e.fmt.lookahead
HighBit(fmt) == 2 ^ (fmt.byte - 1)

heatshrink_encoder_alloc(fmt) ==
    [fmt |-> fmt, state |-> "NOT_FULL", flags |-> {}, input_size |-> 0,
     match_scan_index |-> 0, match_length |-> 0, match_pos |-> 0,
     outgoing_bits |-> 0, outgoing_bits_count |-> 0,
     current_byte |-> 0, bit_index |-> HighBit(fmt),
     buffer |-> [i \in 0 .. 2 ^ (fmt.window + 1) - 1 |-> 0]]

\* How many bytes of a sequence are taken.
SinkSize(e, size) ==
    LET rem == get_input_buffer_size(e) - e.input_size
    IN  IF rem < size THEN rem ELSE size

MaySink(e) == "IS_FINISHING" \notin e.flags /\ e.state = "NOT_FULL"

heatshrink_encoder_sink(e, data) ==
    LET at == get_input_buffer_size(e) + e.input_size
        n == SinkSize(e, Len(data))
    IN  [e EXCEPT !.buffer = [i \in DOMAIN @ |-> IF i \in at .. at + n - 1
                                                  THEN data[i - at + 1] ELSE @[i]],
                  !.input_size = @ + n,
                  !.state = IF e.input_size + n = get_input_buffer_size(e)
                            THEN "FILLED" ELSE @]

heatshrink_encoder_finish(e) ==
    [e EXCEPT !.flags = @ \cup {"IS_FINISHING"},
              !.state = IF @ = "NOT_FULL" THEN "FILLED" ELSE @]

-----------------------------------------------------------------------------
(* Bits.  p is the encoder with its output: [e, out, room].                *)

can_take_byte(p) == Len(p.out) < p.room
Goto(p, state) == [p EXCEPT !.e.state = state]
PutByte(p, b) == [p EXCEPT !.out = Append(@, b)]

\* The low count bits go behind those of current_byte.
Joined(p, count, bits) ==
    LET weight == 2 * p.e.bit_index
        low == bits % (2 ^ count)
    IN  IF 2 ^ count < weight THEN p.e.current_byte + low * (weight \div (2 ^ count))
        ELSE p.e.current_byte + low \div ((2 ^ count) \div weight)

\* When the byte is full it is output and the rest of the bits begins the
\* next.
push_bits(p, count, bits) ==
    LET over == (2 ^ count) \div (2 * p.e.bit_index)
    IN  IF over = 0
        THEN [p EXCEPT !.e.current_byte = Joined(p, count, bits), !.e.bit_index = @ \div (2 ^ count)]
        ELSE PutByte([p EXCEPT !.e.current_byte = (bits % over) * ((2 ^ p.e.fmt.byte) \div over),
                               !.e.bit_index = HighBit(p.e.fmt) \div over],
                     Joined(p, count, bits))

\* Up to a byte of outgoing_bits, from the top.
OutgoingCount(e) ==
    IF e.outgoing_bits_count > e.fmt.byte THEN e.fmt.byte ELSE e.outgoing_bits_count

push_outgoing_bits(p) ==
    LET n == OutgoingCount(p.e)
        bits == (p.e.outgoing_bits \div (2 ^ (p.e.outgoing_bits_count - n))) % (2 ^ p.e.fmt.byte)
        pushed == push_bits(p, n, bits)
    IN  [pushed EXCEPT !.e.outgoing_bits_count = @ - n]

-----------------------------------------------------------------------------
(* Matches                                                                 *)

\* The n bytes at pos are those at end.
Matches(e, pos, end, n) == \A i \in 0 .. n - 1 : e.buffer[pos + i] = e.buffer[end + i]

LastOf(S) == CHOOSE x \in S : \A y \in S : y <= x

\* The longest match, of several the nearest.  do_indexing links every
\* position to the one before it that has the same byte, which saves
\* looking at the others and changes nothing in the result.
find_longest_match(e, start, end, maxlen) ==
    LET lengths == {n \in MIN_MATCH .. maxlen : \E pos \in start .. end - 1 : Matches(e, pos, end, n)}
        n == LastOf(lengths)
        pos == LastOf({x \in start .. end - 1 : Matches(e, x, end, n)})
    IN  IF lengths = {} THEN NO_MATCH ELSE [pos |-> end - pos, len |-> n]

SearchStart(e, end) ==
    LET back == end - get_input_buffer_size(e) + 1
    IN  CASE "BACKLOG_IS_FILLED" \in e.flags -> back
          [] e.flags \cap {"BACKLOG_IS_FILLED", "BACKLOG_IS_PARTIAL"} = {"BACKLOG_IS_PARTIAL"} ->
                IF back < get_lookahead_size(e) THEN get_lookahead_size(e) ELSE back
          [] OTHER -> get_input_buffer_size(e)

\* The input that may be searched for is used up: unless it is the last, a
\* lookahead's worth is left for the next buffer.
SearchExhausted(e) ==
    e.match_scan_index >=
        e.input_size - IF "IS_FINISHING" \in e.flags THEN 0 ELSE get_lookahead_size(e)

MaxPossible(e) ==
    LET left == e.input_size - e.match_scan_index
    IN  IF left < get_lookahead_size(e) THEN left ELSE get_lookahead_size(e)

-----------------------------------------------------------------------------
(* The state machine                                                       *)

st_step_search(p) ==
    LET e == p.e
        end == get_input_buffer_size(e) + e.match_scan_index
        match == find_longest_match(e, SearchStart(e, end), end, MaxPossible(e))
    IN  CASE SearchExhausted(e) -> Goto(p, "SAVE_BACKLOG")
          [] ~SearchExhausted(e) /\ match = NO_MATCH ->
                Goto([p EXCEPT !.e.match_scan_index = @ + 1, !.e.match_length = 0,
                               !.e.flags = @ \cup {"HAS_LITERAL"}], "YIELD_TAG_BIT")
          [] OTHER ->
                Goto([p EXCEPT !.e.match_pos = match.pos, !.e.match_length = match.len],
                     "YIELD_TAG_BIT")

st_yield_tag_bit(p) ==
    IF p.e.match_length = 0 THEN Goto(push_bits(p, 1, LITERAL_MARKER), "YIELD_LITERAL")
    ELSE Goto([push_bits(p, 1, BACKREF_MARKER)
                 EXCEPT !.e.outgoing_bits = p.e.match_pos - 1,
                        !.e.outgoing_bits_count = p.e.fmt.window], "YIELD_BR_INDEX")

\* The last byte that was searched for.
LiteralByte(e) == e.buffer[get_input_buffer_size(e) + e.match_scan_index - 1]

st_yield_literal(p) ==
    LET pushed == [push_bits(p, p.e.fmt.byte, LiteralByte(p.e))
                     EXCEPT !.e.flags = @ \ {"HAS_LITERAL"}]
    IN  Goto(pushed, CASE "ON_FINAL_LITERAL" \in p.e.flags -> "FLUSH_BITS"
                       [] p.e.match_length > 0 -> "YIELD_TAG_BIT"
                       [] OTHER -> "SEARCH")

st_yield_br_index(p) ==
    IF p.e.outgoing_bits_count > 0 THEN push_outgoing_bits(p)
    ELSE Goto([p EXCEPT !.e.outgoing_bits = p.e.match_length - 1,
                        !.e.outgoing_bits_count = p.e.fmt.lookahead], "YIELD_BR_LENGTH")

st_yield_br_length(p) ==
    IF p.e.outgoing_bits_count > 0 THEN push_outgoing_bits(p)
    ELSE Goto([p EXCEPT !.e.match_scan_index = @ + p.e.match_length,
                        !.e.match_length = 0], "SEARCH")

\* What has been searched becomes the backlog, in front of what has not.
save_backlog(e) ==
    LET msi == e.match_scan_index
    IN  [e EXCEPT !.buffer = [i \in DOMAIN @ |-> IF i + msi \in DOMAIN @
                                                 THEN @[i + msi] ELSE @[i]],
                  !.flags = @ \cup {IF "BACKLOG_IS_PARTIAL" \in @
                                    THEN "BACKLOG_IS_FILLED" ELSE "BACKLOG_IS_PARTIAL"},
                  !.match_scan_index = 0,
                  !.input_size = @ - msi]

st_save_backlog(p) ==
    CASE "IS_FINISHING" \notin p.e.flags -> Goto([p EXCEPT !.e = save_backlog(@)], "NOT_FULL")
      [] {"IS_FINISHING", "HAS_LITERAL"} \subseteq p.e.flags ->
            Goto([p EXCEPT !.e.flags = @ \cup {"ON_FINAL_LITERAL"}], "YIELD_TAG_BIT")
      [] OTHER -> Goto(p, "FLUSH_BITS")

st_flush_bit_buffer(p) ==
    CASE p.e.bit_index = HighBit(p.e.fmt) -> Goto(p, "DONE")
      [] p.e.bit_index # HighBit(p.e.fmt) /\ can_take_byte(p) ->
            Goto(PutByte(p, p.e.current_byte), "DONE")
      [] OTHER -> p

\* States in which a byte of output may be needed.
Yielding == {"YIELD_TAG_BIT", "YIELD_LITERAL", "YIELD_BR_INDEX", "YIELD_BR_LENGTH"}

EncoderStep(p) ==
    CASE p.e.state \in Yielding /\ ~can_take_byte(p) -> p
      [] p.e.state = "FILLED" -> Goto(p, "SEARCH")
      [] p.e.state = "SEARCH" -> st_step_search(p)
      [] p.e.state = "YIELD_TAG_BIT" /\ can_take_byte(p) -> st_yield_tag_bit(p)
      [] p.e.state = "YIELD_LITERAL" /\ can_take_byte(p) -> st_yield_literal(p)
      [] p.e.state = "YIELD_BR_INDEX" /\ can_take_byte(p) -> st_yield_br_index(p)
      [] p.e.state = "YIELD_BR_LENGTH" /\ can_take_byte(p) -> st_yield_br_length(p)
      [] p.e.state = "SAVE_BACKLOG" -> st_save_backlog(p)
      [] p.e.state = "FLUSH_BITS" -> st_flush_bit_buffer(p)
      [] OTHER -> p

\* What poll returns after a round that led from p to q, unless it goes on.
\* After FLUSH_BITS it is done, whether the last byte found room or not.
EncoderPolled(p, q) ==
    CASE p.e.state \in {"NOT_FULL", "DONE", "FLUSH_BITS"} -> "EMPTY"
      [] p.e.state \notin {"NOT_FULL", "DONE", "FLUSH_BITS"}
            /\ p.e.state = q.e.state /\ ~can_take_byte(q) -> "MORE"
      [] OTHER -> "GOES_ON"
=============================================================================
