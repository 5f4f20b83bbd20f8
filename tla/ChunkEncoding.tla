---------------------------- MODULE ChunkEncoding ----------------------------
(***************************************************************************)
(* The arithmetic of chunked transfer encoding: SaturateValue and          *)
(* PowerOfHex (src/src/utility.c) and ComputeChunkEncodingData             *)
(* (src/src/http.c).  Every operator is a pure function of C ints; the     *)
(* bytes of the chunk are abstracted to the lengths and to the number a    *)
(* client reads in the size line.                                          *)
(***************************************************************************)
EXTENDS Integers, FiniteSets

\* include/http_parser.h: the length of "\r\n" and of two of them.
SIZEOF_CRLF     == 2
SIZEOF_TWO_CRLF == SIZEOF_CRLF * 2

\* A C int has at most eight hexadecimal digits.
INT_HEX_DIGITS == 8

Abs(n) == IF n < 0 THEN -n ELSE n

(***************************************************************************)
(* The number of times `number >> 4` runs before the number is zero, that  *)
(* is the number of hexadecimal digits, and 0 for 0.                       *)
(***************************************************************************)
PowerOfHex == [number \in Int |->
    Cardinality({k \in 0 .. INT_HEX_DIGITS - 1 : Abs(number) \div (16^k) > 0})]

\* Written with the division and the remainder of the code; SaturateIsMin in
\* StaticSendProofs shows that it is the minimum of two positive numbers.
SaturateValue(value, max_value) ==
    IF value <= 0 \/ max_value <= 0 THEN 0
    ELSE IF value >= max_value
         THEN (value - (value % max_value)) \div (value \div max_value)
         ELSE value % max_value

\* sprintf("%x") prints one digit for zero.
HexWidth(n) == IF n = 0 THEN 1 ELSE PowerOfHex[n]

\* What a client reads when a size line is no hexadecimal number at all.
Malformed == -1

\* Mutant: snprintf is given the width without the terminating NUL.
SizeLineWithoutNul(n, width) ==
    IF width <= 1 \/ HexWidth(n) < width - 1
    THEN Malformed
    ELSE n \div (16^(HexWidth(n) - (width - 1)))

(***************************************************************************)
(* snprintf(buffer, width + 1, "%x", n) followed by "\r\n" at              *)
(* buffer + width: a number that is too long loses its last digits, one    *)
(* that is too short leaves a NUL (and what the buffer held) before the    *)
(* line end.                                                               *)
(***************************************************************************)
SizeLine(n, width) ==
    IF width = 0 \/ HexWidth(n) < width
    THEN Malformed
    ELSE n \div (16^(HexWidth(n) - width))

\* Mutant: the delimiters are taken off the data that is left.
ComputeChunkCountingDelim(total_data_size, max_chunk_size) ==
    LET saturated == SaturateValue(total_data_size, max_chunk_size)
        width     == PowerOfHex[saturated - SIZEOF_TWO_CRLF + PowerOfHex[saturated]]
        delim     == SIZEOF_TWO_CRLF + width
        toread    == SaturateValue(saturated, max_chunk_size - delim)
    IN  [delim |-> delim, toread |-> toread, total |-> total_data_size - toread - delim,
         announced |-> SizeLine(toread, width), form_bytes |-> delim + toread + 1]

\* Mutant: no room is left for the delimiters.
ComputeChunkIgnoringDelim(total_data_size, max_chunk_size) ==
    LET toread == SaturateValue(total_data_size, max_chunk_size)
        width  == PowerOfHex[toread]
        delim  == SIZEOF_TWO_CRLF + width
    IN  [delim |-> delim, toread |-> toread, total |-> total_data_size - toread,
         announced |-> SizeLine(toread, width), form_bytes |-> delim + toread + 1]

(***************************************************************************)
(* ComputeChunkEncodingData: delim, toread and total are the three values  *)
(* it hands back, announced is the number in the size line it writes and   *)
(* form_bytes the bytes it touches from the start of the buffer, the NUL   *)
(* of its last strcpy included.                                            *)
(***************************************************************************)
ComputeChunkEncodingData(total_data_size, max_chunk_size) ==
    LET saturated == SaturateValue(total_data_size, max_chunk_size)
        width     == PowerOfHex[saturated - SIZEOF_TWO_CRLF + PowerOfHex[saturated]]
        delim     == SIZEOF_TWO_CRLF + width
        toread    == SaturateValue(saturated, max_chunk_size - delim)
    IN  [delim      |-> delim,
         toread     |-> toread,
         total      |-> total_data_size - toread,
         announced  |-> SizeLine(toread, width),
         form_bytes |-> (delim - SIZEOF_CRLF) + toread + SIZEOF_CRLF + 1]

=============================================================================
