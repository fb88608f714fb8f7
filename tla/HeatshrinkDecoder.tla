------------------------- MODULE HeatshrinkDecoder -------------------------
(***************************************************************************)
(* The heatshrink decoder (lib/heatshrink/heatshrink_decoder.c), with      *)
(* which the ESP8266 reads compressed files.  It is fed with sink and      *)
(* asked with poll for as many bytes as there is room for, and may run out *)
(* of input or of room anywhere: between two tokens, within one, or in the *)
(* middle of a repeated section.                                           *)
(*                                                                         *)
(* As in HeatshrinkEncoder, h has the fields of heatshrink_decoder and     *)
(* DecoderStep is one round of the loop of poll.                           *)
(***************************************************************************)
EXTENDS Integers, Sequences

NO_BITS == -1

heatshrink_decoder_alloc(fmt, size) ==
    [fmt |-> fmt, size |-> size, state |-> "EMPTY", input |-> <<>>, input_index |-> 0,
     bit_index |-> 0, current_byte |-> 0, output_count |-> 0, output_index |-> 0,
     head_index |-> 0, window |-> [i \in 0 .. 2 ^ fmt.window - 1 |-> 0]]

\* How many bytes fit.  The input buffer is only emptied when all of it has
\* been used.
DecoderTakes(h, n) == LET rem == h.size - Len(h.input) IN IF rem < n THEN rem ELSE n

heatshrink_decoder_sink(h, data) ==
    IF DecoderTakes(h, Len(data)) = 0 THEN h
    ELSE [h EXCEPT !.input = @ \o SubSeq(data, 1, DecoderTakes(h, Len(data))),
                   !.state = IF @ = "EMPTY" THEN "INPUT_AVAILABLE" ELSE @,
                   !.input_index = IF h.state = "EMPTY" THEN 0 ELSE @]

-----------------------------------------------------------------------------
(* Bits                                                                    *)

\* Mutant: the bits that are there are taken, although they are too few.
SuspendsWithoutBits(h, count) == h.input = <<>> /\ h.bit_index = 0

\* There are not enough bits, and none of them is taken.
Suspends(h, count) == h.input = <<>> /\ h.bit_index < 2 ^ (count - 1)

PullByte(h) ==
    LET used == h.input_index + 1 = Len(h.input)
    IN  [h EXCEPT !.current_byte = h.input[h.input_index + 1],
                  !.input_index = IF used THEN 0 ELSE @ + 1,
                  !.input = IF used THEN <<>> ELSE @]

\* What is left of current_byte, and as many bits of the next as are
\* missing.  The loop of get_bits may run out of input only if it was not
\* suspended before it began, and then it loses what it has taken.
get_bits(h, count) ==
    LET weight == IF h.bit_index = 0 THEN 1 ELSE 2 * h.bit_index
        rest == h.current_byte % weight
        missing == (2 ^ count) \div weight
        g == PullByte(h)
        part == (2 ^ h.fmt.byte) \div missing
    IN  CASE Suspends(h, count) -> [h |-> h, bits |-> NO_BITS]
          [] ~Suspends(h, count) /\ 2 ^ count <= weight ->
                [h |-> [h EXCEPT !.bit_index = @ \div (2 ^ count)],
                 bits |-> rest \div (weight \div (2 ^ count))]
          [] ~Suspends(h, count) /\ 2 ^ count > weight /\ h.input = <<>> ->
                [h |-> [h EXCEPT !.bit_index = 0], bits |-> NO_BITS]
          [] OTHER -> [h |-> [g EXCEPT !.bit_index = part \div 2],
                       bits |-> rest * missing + (g.current_byte \div part)]

-----------------------------------------------------------------------------
(* The state machine.  p is the decoder with its output: [h, out, room].   *)

Enter(p, h, state) == [p EXCEPT !.h = [h EXCEPT !.state = state]]

\* What was got is stored, as h; the decoder stays in its state if bits are
\* missing.
Field(p, got, h, state) ==
    IF got.bits = NO_BITS THEN [p EXCEPT !.h = got.h] ELSE Enter(p, h, state)

LowBits(p, n) == IF n < p.h.fmt.byte THEN n ELSE p.h.fmt.byte
HighBits(p, n) == n - p.h.fmt.byte
Above(p, bits) == bits * (2 ^ p.h.fmt.byte)

\* Bytes are output and go into the window.
PushBytes(p, bytes) ==
    LET size == 2 ^ p.h.fmt.window
        At(k) == 1 + ((k - p.h.head_index) % size)
    IN  [p EXCEPT !.out = @ \o bytes,
                  !.h.window = [k \in DOMAIN @ |-> IF At(k) <= Len(bytes) THEN bytes[At(k)] ELSE @[k]],
                  !.h.head_index = (@ + Len(bytes)) % size]

st_input_available(p) ==
    LET got == get_bits(p.h, 1)
    IN  CASE got.bits # 0 -> Enter(p, got.h, "YIELD_LITERAL")
          [] got.bits = 0 /\ p.h.fmt.window > p.h.fmt.byte ->
                Enter(p, got.h, "BACKREF_INDEX_MSB")
          [] OTHER -> Enter(p, [got.h EXCEPT !.output_index = 0], "BACKREF_INDEX_LSB")

st_yield_literal(p) ==
    LET got == get_bits(p.h, p.h.fmt.byte)
    IN  IF Len(p.out) = p.room THEN p
        ELSE IF got.bits = NO_BITS THEN [p EXCEPT !.h = got.h]
        ELSE PushBytes(Enter(p, got.h, "CHECK_FOR_MORE_INPUT"), <<got.bits>>)

st_backref_index_msb(p) ==
    LET got == get_bits(p.h, HighBits(p, p.h.fmt.window))
    IN  Field(p, got, [got.h EXCEPT !.output_index = Above(p, got.bits)],
              "BACKREF_INDEX_LSB")

st_backref_index_lsb(p) ==
    LET got == get_bits(p.h, LowBits(p, p.h.fmt.window))
    IN  Field(p, got, [got.h EXCEPT !.output_index = @ + got.bits + 1, !.output_count = 0],
              IF p.h.fmt.lookahead > p.h.fmt.byte THEN "BACKREF_COUNT_MSB" ELSE "BACKREF_COUNT_LSB")

st_backref_count_msb(p) ==
    LET got == get_bits(p.h, HighBits(p, p.h.fmt.lookahead))
    IN  Field(p, got, [got.h EXCEPT !.output_count = Above(p, got.bits)],
              "BACKREF_COUNT_LSB")

st_backref_count_lsb(p) ==
    LET got == get_bits(p.h, LowBits(p, p.h.fmt.lookahead))
    IN  Field(p, got, [got.h EXCEPT !.output_count = @ + got.bits + 1],
              "YIELD_BACKREF")

\* The next bytes of a repeated section, which may reach into itself: then
\* it repeats what is before it.
Section(h, count) ==
    [i \in 1 .. count |->
        h.window[(h.head_index - h.output_index + ((i - 1) % h.output_index))
                    % (2 ^ h.fmt.window)]]

st_yield_backref(p) ==
    LET room == p.room - Len(p.out)
        count == IF p.h.output_count < room THEN p.h.output_count ELSE room
        q == [PushBytes(p, Section(p.h, count)) EXCEPT !.h.output_count = @ - count]
    IN  IF count > 0 /\ count = p.h.output_count THEN Enter(q, q.h, "CHECK_FOR_MORE_INPUT") ELSE q

st_check_for_input(p) ==
    Enter(p, p.h, IF p.h.input = <<>> THEN "EMPTY" ELSE "INPUT_AVAILABLE")

DecoderStep(p) ==
    CASE p.h.state = "INPUT_AVAILABLE" -> st_input_available(p)
      [] p.h.state = "YIELD_LITERAL" -> st_yield_literal(p)
      [] p.h.state = "BACKREF_INDEX_MSB" -> st_backref_index_msb(p)
      [] p.h.state = "BACKREF_INDEX_LSB" -> st_backref_index_lsb(p)
      [] p.h.state = "BACKREF_COUNT_MSB" -> st_backref_count_msb(p)
      [] p.h.state = "BACKREF_COUNT_LSB" -> st_backref_count_lsb(p)
      [] p.h.state = "YIELD_BACKREF" -> st_yield_backref(p)
      [] p.h.state = "CHECK_FOR_MORE_INPUT" -> st_check_for_input(p)
      [] OTHER -> p

\* poll returns after a round that stays in its state.
DecoderPolled(before, after) == before.h.state = after.h.state
=============================================================================
