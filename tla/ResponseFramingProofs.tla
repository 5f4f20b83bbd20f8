------------------------- MODULE ResponseFramingProofs -------------------------
(***************************************************************************)
(* How a response of SendStaticData is framed: how often its header goes   *)
(* out and its body is ended, which size lines are wrong and when a chunk  *)
(* form overruns response_buffer, for every length of the file.            *)
(***************************************************************************)
EXTENDS StaticSendProofs

-----------------------------------------------------------------------------
(* Hexadecimal digits.                                                      *)

\* Numbers of at most four digits: a response_buffer of 8192 bytes needs no more.
FourDigits == 0 .. 65535

LEMMA FourDigitsBounds == \A n \in Int : n \in FourDigits <=> n >= 0 /\ n < 65536
  BY SMT DEF FourDigits

LEMMA FourDigitsAreNatural == \A n \in FourDigits : n \in Nat
  BY SMT DEF FourDigits

LEMMA FourDigitsRange ==
    /\ \A n \in Int : n \in FourDigits <=> n >= 0 /\ n < 65536
    /\ \A n \in FourDigits : n \in Nat
  BY FourDigitsBounds, FourDigitsAreNatural

LEMMA HexPowers ==
    /\ 16^0 = 1 /\ 16^1 = 16 /\ 16^2 = 256 /\ 16^3 = 4096
    /\ 16^4 = 65536 /\ 16^5 = 1048576 /\ 16^6 = 16777216 /\ 16^7 = 268435456
  BY SMT

LEMMA HexQuotients ==
    ASSUME NEW a \in FourDigits
    PROVE  /\ a \div 1 > 0 <=> a > 0
           /\ a \div 16 > 0 <=> a >= 16
           /\ a \div 256 > 0 <=> a >= 256
           /\ a \div 4096 > 0 <=> a >= 4096
           /\ a \div 65536 = 0 /\ a \div 1048576 = 0
           /\ a \div 16777216 = 0 /\ a \div 268435456 = 0
  BY SMT DEF FourDigits

\* The digits of a number, counted from its size.
DigitsOf(a) == IF a = 0 THEN 0 ELSE IF a < 16 THEN 1
               ELSE IF a < 256 THEN 2 ELSE IF a < 4096 THEN 3 ELSE 4

LEMMA PlacesAreDigits ==
    ASSUME NEW a \in FourDigits
    PROVE  Cardinality({k \in 0 .. INT_HEX_DIGITS - 1 : a \div (16^k) > 0}) = DigitsOf(a)
  <1> DEFINE places == {k \in 0 .. INT_HEX_DIGITS - 1 : a \div (16^k) > 0}
             d == DigitsOf(a)
  <1>1. a \in Nat
    BY SMT DEF FourDigits
  <1>2. /\ a \div 1 > 0 <=> a > 0
        /\ a \div 16 > 0 <=> a >= 16
        /\ a \div 256 > 0 <=> a >= 256
        /\ a \div 4096 > 0 <=> a >= 4096
        /\ a \div 65536 = 0 /\ a \div 1048576 = 0
        /\ a \div 16777216 = 0 /\ a \div 268435456 = 0
    BY HexQuotients, SMT
  <1>3. d \in 0 .. 4
    BY <1>1 DEF DigitsOf
  <1>4. \A k \in 0 .. 7 : k \in places <=> k \in 0 .. d - 1
    <2>1. 0 \in places <=> a > 0
      BY <1>2, HexPowers, SMT DEF INT_HEX_DIGITS
    <2>2. 1 \in places <=> a >= 16
      BY <1>2, HexPowers, SMT DEF INT_HEX_DIGITS
    <2>3. 2 \in places <=> a >= 256
      BY <1>2, HexPowers, SMT DEF INT_HEX_DIGITS
    <2>4. 3 \in places <=> a >= 4096
      BY <1>2, HexPowers, SMT DEF INT_HEX_DIGITS
    <2>5. 4 \notin places /\ 5 \notin places /\ 6 \notin places /\ 7 \notin places
      BY <1>2, HexPowers, SMT
    <2> HIDE DEF places
    <2> QED
      BY <1>1, <2>1, <2>2, <2>3, <2>4, <2>5 DEF DigitsOf
  <1>5. places = 0 .. d - 1
    <2>1. places \subseteq 0 .. 7 /\ 0 .. d - 1 \subseteq 0 .. 7
      BY <1>3 DEF INT_HEX_DIGITS
    <2> HIDE DEF places, d
    <2> QED
      BY <1>4, <2>1
  <1>6. Cardinality(0 .. d - 1) = d
    <2>1. 0 \in Int /\ d - 1 \in Int
      BY <1>3
    <2>2. Cardinality(0 .. d - 1) = IF 0 > d - 1 THEN 0 ELSE (d - 1) - 0 + 1
      BY <2>1, FS_Interval
    <2> QED
      BY <1>3, <2>2
  <1> QED
    BY <1>5, <1>6

\* PowerOfHex counts the digits of numbers of either sign.
LEMMA PowerOfHexIsDigits ==
    ASSUME NEW n \in Int, Abs(n) \in FourDigits
    PROVE  PowerOfHex[n] = DigitsOf(Abs(n))
  BY PlacesAreDigits DEF PowerOfHex

\* What a client reads in the size line of a number and a width up to four digits.
LEMMA SizeLineReads ==
    ASSUME NEW n \in FourDigits \ {0}
    PROVE  /\ SizeLine(n, 0) = Malformed
           /\ SizeLine(n, DigitsOf(n)) = n
           /\ n \in {16, 17} => SizeLine(n, 1) = 1
           /\ n = 256 => SizeLine(n, 2) = 16
  <1>1. PowerOfHex[n] = DigitsOf(n) /\ DigitsOf(n) \in 1 .. 4
    <2>1. n \in Int /\ n > 0 /\ Abs(n) = n
      BY SMT DEF Abs, FourDigits
    <2>2. PowerOfHex[n] = DigitsOf(n)
      BY <2>1, PowerOfHexIsDigits
    <2> QED
      BY <2>1, <2>2 DEF DigitsOf
  <1>2. n \in Nat \ {0}
    BY SMT DEF FourDigits
  <1>3. HexWidth(n) = DigitsOf(n)
    BY <1>1, <1>2 DEF HexWidth
  <1>4. SizeLine(n, DigitsOf(n)) = n
    <2>1. SizeLine(n, DigitsOf(n)) = n \div (16^(DigitsOf(n) - DigitsOf(n)))
      BY <1>1, <1>3 DEF SizeLine
    <2>2. DigitsOf(n) - DigitsOf(n) = 0
      BY <1>1
    <2>3. n \div (16^0) = n
      BY <1>2, HexPowers, SMT
    <2> QED
      BY <2>1, <2>2, <2>3
  <1>5. ASSUME n \in {16, 17}
        PROVE  SizeLine(n, 1) = 1
    <2>1. HexWidth(n) = 2
      BY <1>3, <1>5 DEF DigitsOf
    <2>2. SizeLine(n, 1) = n \div (16^(2 - 1))
      BY <2>1 DEF SizeLine
    <2> QED
      BY <1>5, <2>2, HexPowers, SMT
  <1>6. ASSUME n = 256
        PROVE  SizeLine(n, 2) = 16
    <2>1. HexWidth(n) = 3
      BY <1>3, <1>6, SMT DEF DigitsOf
    <2>2. SizeLine(n, 2) = n \div (16^(3 - 2))
      BY <2>1 DEF SizeLine
    <2> QED
      BY <1>6, <2>2, HexPowers, SMT
  <1> QED
    BY <1>4, <1>5, <1>6 DEF SizeLine

-----------------------------------------------------------------------------
(* The chunks of ComputeChunkEncodingData.                                  *)

(***************************************************************************)
(* The digits of the estimate, the data with delimiters of its own width   *)
(* less the four bytes of two line ends, are those of the data but for     *)
(* five values.                                                            *)
(***************************************************************************)
LEMMA WidthOfChunk ==
    ASSUME NEW s \in FourDigits
    PROVE  PowerOfHex[s - SIZEOF_TWO_CRLF + PowerOfHex[s]]
             = IF s = 0 THEN 1 ELSE IF s = 3 THEN 0
               ELSE IF s \in MisprintedSizes THEN DigitsOf(s) - 1 ELSE DigitsOf(s)
  <1> DEFINE estimate == s - 4 + DigitsOf(s)
  <1>1. s \in Nat /\ s < 65536 /\ Abs(s) = s
    BY FourDigitsRange, SMT DEF Abs
  <1>2. PowerOfHex[s] = DigitsOf(s)
    BY <1>1, PowerOfHexIsDigits
  <1>3. SIZEOF_TWO_CRLF = 4
    BY DEF SIZEOF_TWO_CRLF, SIZEOF_CRLF
  <1>4. DigitsOf(s) \in 0 .. 4
    BY <1>1 DEF DigitsOf
  <1>5. estimate \in Int /\ Abs(estimate) \in FourDigits
    BY <1>1, <1>4, FourDigitsRange, SMT DEF Abs
  <1>6. PowerOfHex[estimate] = DigitsOf(Abs(estimate))
    <2> HIDE DEF estimate
    <2> QED
      BY <1>5, PowerOfHexIsDigits
  <1>7. DigitsOf(Abs(estimate))
          = IF s = 0 THEN 1 ELSE IF s = 3 THEN 0
            ELSE IF s \in MisprintedSizes THEN DigitsOf(s) - 1 ELSE DigitsOf(s)
    <2>1. CASE s < 16
      BY <1>1, <2>1, SMT DEF DigitsOf, Abs, MisprintedSizes
    <2>2. CASE s >= 16 /\ s < 256
      BY <1>1, <2>2, SMT DEF DigitsOf, Abs, MisprintedSizes
    <2>3. CASE s >= 256 /\ s < 4096
      BY <1>1, <2>3, SMT DEF DigitsOf, Abs, MisprintedSizes
    <2>4. CASE s >= 4096
      BY <1>1, <2>4, SMT DEF DigitsOf, Abs, MisprintedSizes
    <2> QED
      BY <1>1, <2>1, <2>2, <2>3, <2>4
  <1> QED
    BY <1>2, <1>3, <1>6, <1>7

\* When nothing is left the chunk is "0\r\n" and its line end: the end of the body.
LEMMA ChunkOfNothing ==
    ASSUME NEW left \in Int, NEW space \in Int, left <= 0
    PROVE  LET chunk == ComputeChunkEncodingData(left, space)
           IN  /\ chunk.toread = 0 /\ chunk.announced = 0 /\ chunk.form_bytes = 6
               /\ chunk.total = left
  <1> DEFINE saturated == SaturateValue(left, space)
             width     == PowerOfHex[saturated - SIZEOF_TWO_CRLF + PowerOfHex[saturated]]
  <1>1. saturated = 0
    BY DEF SaturateValue
  <1>2. width = 1
    <2>1. 0 \in FourDigits
      BY SMT DEF FourDigits
    <2> QED
      BY <1>1, <2>1, WidthOfChunk
  <1>3. SaturateValue(saturated, space - (SIZEOF_TWO_CRLF + width)) = 0
    BY <1>1 DEF SaturateValue
  <1>4. SizeLine(0, 1) = 0
    <2>1. SizeLine(0, 1) = 0 \div (16^(1 - 1))
      BY DEF SizeLine, HexWidth
    <2> QED
      BY <2>1, HexPowers, SMT
  <1> DEFINE delim  == SIZEOF_TWO_CRLF + width
             toread == SaturateValue(saturated, space - delim)
             chunk  == ComputeChunkEncodingData(left, space)
  <1>5. /\ chunk.toread = toread /\ chunk.total = left - toread
        /\ chunk.announced = SizeLine(toread, width)
        /\ chunk.form_bytes = (delim - SIZEOF_CRLF) + toread + SIZEOF_CRLF + 1
    BY DEF ComputeChunkEncodingData
  <1> HIDE DEF saturated, width, chunk, toread
  <1>6. chunk.form_bytes = 6
    BY <1>2, <1>3, <1>5 DEF SIZEOF_TWO_CRLF, SIZEOF_CRLF, toread
  <1>7. toread = 0
    BY <1>3 DEF toread
  <1>8. chunk.total = left
    BY <1>5, <1>7
  <1>9. chunk.announced = 0 /\ chunk.toread = 0
    BY <1>2, <1>4, <1>5, <1>7
  <1> QED
    BY <1>6, <1>8, <1>9 DEF chunk

(***************************************************************************)
(* A space in which a full chunk has a size line of four digits: that of   *)
(* the 8192 bytes of response_buffer, with and without a header before it. *)
(***************************************************************************)
FourDigitSpace(space) == space \in FourDigits /\ space >= 4096 + FULL_CHUNK_DELIM

LEMMA ChunkOfData ==
    ASSUME NEW left \in Int, NEW space, FourDigitSpace(space), left > 0
    PROVE  LET chunk == ComputeChunkEncodingData(left, space)
           IN  /\ chunk.announced # chunk.toread <=> left \in MisprintedSizes
               /\ left < 4096 => chunk.toread = left /\ chunk.form_bytes < 4104
               /\ left >= 4096 => /\ chunk.toread = Smaller(left, space - FULL_CHUNK_DELIM)
                                  /\ chunk.form_bytes = chunk.toread + FULL_CHUNK_DELIM + 1
  <1> DEFINE saturated == SaturateValue(left, space)
             width     == PowerOfHex[saturated - SIZEOF_TWO_CRLF + PowerOfHex[saturated]]
             delim     == SIZEOF_TWO_CRLF + width
             toread    == SaturateValue(saturated, space - delim)
             chunk     == ComputeChunkEncodingData(left, space)
  <1>1. space \in Nat /\ space >= 4104 /\ SIZEOF_TWO_CRLF = 4 /\ FULL_CHUNK_DELIM = 8
        /\ SIZEOF_CRLF = 2
    BY FourDigitsRange, SMT DEF FourDigitSpace, FULL_CHUNK_DELIM, SIZEOF_TWO_CRLF, SIZEOF_CRLF
  <1>2. saturated = Smaller(left, space)
    BY <1>1, SaturateIsMin
  <1>3. saturated \in FourDigits \ {0}
    BY <1>1, <1>2, FourDigitsRange, SMT DEF Smaller, FourDigitSpace
  <1>4. saturated \in Nat \ {0} /\ (left < 4096 => saturated = left)
        /\ (left >= 4096 => saturated >= 4096)
    BY <1>1, <1>2 DEF Smaller
  <1>5. /\ chunk.toread = toread
        /\ chunk.announced = SizeLine(toread, width)
        /\ chunk.form_bytes = (delim - SIZEOF_CRLF) + toread + SIZEOF_CRLF + 1
    BY DEF ComputeChunkEncodingData
  <1> HIDE DEF saturated, chunk
  <1>6. width = IF saturated = 3 THEN 0
                ELSE IF saturated \in MisprintedSizes THEN DigitsOf(saturated) - 1
                ELSE DigitsOf(saturated)
    BY <1>3, <1>4, WidthOfChunk
  <1> HIDE DEF width
  <1>7. CASE left < 4096
    <2>1. saturated = left
      BY <1>4, <1>7
    <2>2. width \in 0 .. 3
      BY <1>4, <1>6, <1>7, <2>1 DEF DigitsOf, MisprintedSizes
    <2>3. delim = 4 + width
      BY <1>1
    <2>4. toread = left
      <3>1. space - delim \in Int /\ space - delim > 0 /\ left <= space - delim
        BY <1>1, <1>7, <2>2, <2>3
      <3> HIDE DEF delim
      <3> QED
        BY <1>4, <2>1, <3>1, SaturateIsMin DEF Smaller
    <2>5. chunk.form_bytes < 4104
      BY <1>1, <1>5, <1>7, <2>2, <2>3, <2>4
    <2>6. SizeLine(left, width) # left <=> left \in MisprintedSizes
      <3>1. left \in FourDigits \ {0}
        BY <1>3, <2>1
      <3>2. CASE left = 3
        BY <1>6, <2>1, <3>1, <3>2, SizeLineReads DEF Malformed, MisprintedSizes
      <3>3. CASE left \in {16, 17}
        <4>1. width = 1 /\ left \in MisprintedSizes
          BY <1>6, <2>1, <3>3 DEF DigitsOf, MisprintedSizes
        <4>2. SizeLine(left, width) = 1
          BY <3>1, <3>3, <4>1, SizeLineReads
        <4> QED
          BY <3>3, <4>1, <4>2
      <3>4. CASE left = 256
        <4>1. left \in MisprintedSizes /\ DigitsOf(left) = 3
          BY <3>4, SMT DEF DigitsOf, MisprintedSizes
        <4>2. width = 2
          BY <1>6, <2>1, <3>4, <4>1
        <4>3. SizeLine(left, width) = 16
          BY <3>1, <3>4, <4>2, SizeLineReads
        <4> QED
          BY <3>4, <4>1, <4>3
      <3>5. CASE left \notin MisprintedSizes
        <4>1. width = DigitsOf(left)
          BY <1>6, <2>1, <3>5 DEF MisprintedSizes
        <4> QED
          BY <3>1, <3>5, <4>1, SizeLineReads
      <3> QED
        BY <3>2, <3>3, <3>4, <3>5 DEF MisprintedSizes
    <2> QED
      BY <1>5, <1>7, <2>4, <2>5, <2>6 DEF chunk
  <1>8. CASE left >= 4096
    <2>1. width = 4 /\ left \notin MisprintedSizes
      BY <1>4, <1>6, <1>8 DEF DigitsOf, MisprintedSizes
    <2>2. delim = 8
      BY <1>1, <2>1
    <2>3. toread = Smaller(saturated, space - 8)
      <3>1. space - 8 \in Int /\ space - 8 > 0
        BY <1>1
      <3>2. toread = SaturateValue(saturated, space - 8)
        BY <2>2
      <3> QED
        BY <1>4, <3>1, <3>2, SaturateIsMin
    <2>4. toread = Smaller(left, space - FULL_CHUNK_DELIM)
      BY <1>1, <1>2, <1>4, <2>3 DEF Smaller
    <2>5. toread \in FourDigits \ {0} /\ toread >= 4096 /\ toread \in Nat
      <3>1. toread >= 4096 /\ toread <= saturated /\ toread \in Nat
        BY <1>1, <1>4, <1>8, <2>3 DEF Smaller
      <3> QED
        BY <1>3, <1>4, <3>1, FourDigitsRange, SMT
    <2>6. SizeLine(toread, width) = toread
      <3>1. DigitsOf(toread) = 4
        BY <2>5 DEF DigitsOf
      <3> QED
        BY <2>1, <2>5, <3>1, SizeLineReads
    <2>7. chunk.form_bytes = toread + FULL_CHUNK_DELIM + 1
      BY <1>1, <1>5, <2>2, <2>5
    <2> QED
      BY <1>5, <1>8, <2>1, <2>4, <2>6, <2>7 DEF chunk
  <1> QED
    BY <1>7, <1>8 DEF chunk

-----------------------------------------------------------------------------
(* What a client sees of a write.                                           *)

\* What has been sent or waits in the output buffer.
Headers == headers + pending.headers
Endings == endings + pending.endings

Counts(what) ==
    /\ Headers' = Headers + what.headers
    /\ Endings' = Endings + what.endings

LEMMA CountTypes ==
    ASSUME TypeOK
    PROVE  /\ headers \in Nat /\ endings \in Nat /\ bad_chunks \in Nat /\ lost \in Nat
           /\ pending.headers \in Nat /\ pending.endings \in Nat /\ pending.bad_chunks \in Nat
           /\ Headers \in Nat /\ Endings \in Nat /\ BadChunks \in Nat
  BY DEF TypeOK, WireType, Contents, Headers, Endings, BadChunks

\* With an empty output buffer the write begins a record of its own.
LEMMA WriteBegins ==
    ASSUME TypeOK, PendingInv, ~out_left, NEW result \in WriteResults,
           NEW prefix \in Nat, NEW what \in Contents, NEW suffix \in Nat,
           Write(result, prefix, what, suffix), link'
    PROVE  /\ link /\ lost' \in Nat /\ lost <= lost'
           /\ Counts(what)
           /\ BadChunks' = BadChunks + what.bad_chunks
  <1> DEFINE len   == prefix + what.body + suffix
             taken == IF out_left THEN 0 ELSE Smaller(len, fragment)
             first == IF out_left THEN pending
                      ELSE [what EXCEPT !.body = AtLeastZero(Smaller(@, taken - prefix))]
  <1>1. \/ /\ result = "sent" /\ link
           /\ headers' = headers + first.headers
           /\ bad_chunks' = bad_chunks + first.bad_chunks
           /\ endings' = endings + first.endings
           /\ lost' = lost + (len - taken)
           /\ pending' = Nothing
        \/ /\ result = "interrupted" /\ link
           /\ lost' = lost + (len - taken)
           /\ pending' = first
           /\ UNCHANGED <<headers, bad_chunks, endings>>
    BY DEF Write
  <1>2. /\ first.headers = what.headers /\ first.endings = what.endings
        /\ first.bad_chunks = what.bad_chunks
        /\ what.headers \in Nat /\ what.endings \in Nat /\ what.bad_chunks \in Nat
        /\ what.body \in Nat
    BY DEF Contents
  <1>3. len \in Nat /\ len - taken \in Nat
    <2>1. fragment \in Nat
      BY SizesAssumption DEF TypeOK, InputsType
    <2> QED
      BY <1>2, <2>1 DEF Smaller
  <1>4. /\ pending.headers = 0 /\ pending.endings = 0 /\ pending.bad_chunks = 0
        /\ Nothing.headers = 0 /\ Nothing.endings = 0 /\ Nothing.bad_chunks = 0
    BY DEF PendingInv, Nothing
  <1> HIDE DEF len, taken, first
  <1> QED
    BY <1>1, <1>2, <1>3, <1>4, CountTypes DEF Counts, Headers, Endings, BadChunks

\* Otherwise an older record goes out, and nothing is lost only when there was
\* nothing to write.
LEMMA WriteFlushes ==
    ASSUME TypeOK, out_left, NEW result \in WriteResults,
           NEW prefix \in Nat, NEW what \in Contents, NEW suffix \in Nat,
           Write(result, prefix, what, suffix), link', lost' = 0
    PROVE  /\ link /\ lost = 0
           /\ prefix + what.body + suffix = 0
           /\ Headers' = Headers /\ Endings' = Endings
  <1> DEFINE len   == prefix + what.body + suffix
  <1>1. /\ link /\ lost' = lost + (len - 0)
        /\ \/ /\ headers' = headers + pending.headers
              /\ endings' = endings + pending.endings
              /\ pending' = Nothing
           \/ pending' = pending /\ UNCHANGED <<headers, endings>>
    BY DEF Write
  <1>2. len \in Nat
    BY DEF Contents
  <1>3. Nothing.headers = 0 /\ Nothing.endings = 0
    BY DEF Nothing
  <1> HIDE DEF len
  <1>4. lost = 0 /\ len = 0
    BY <1>1, <1>2, CountTypes
  <1>5. Headers' = Headers /\ Endings' = Endings
    BY <1>1, <1>3, CountTypes DEF Headers, Endings
  <1> QED
    BY <1>1, <1>4, <1>5 DEF len

\* Either way, when nothing is lost a header or an ending that was written with
\* some bytes is counted once.
LEMMA WriteInFull ==
    ASSUME TypeOK, PendingInv, NEW result \in WriteResults,
           NEW prefix \in Nat, NEW what \in Contents, NEW suffix \in Nat,
           Write(result, prefix, what, suffix), link', lost' = 0,
           prefix + what.body + suffix = 0 => what.headers = 0 /\ what.endings = 0
    PROVE  link /\ lost = 0 /\ Counts(what)
  <1>1. CASE out_left
    <2>1. /\ link /\ lost = 0 /\ Headers' = Headers /\ Endings' = Endings
          /\ what.headers = 0 /\ what.endings = 0
      BY <1>1, WriteFlushes
    <2> QED
      BY <2>1, CountTypes DEF Counts
  <1>2. CASE ~out_left
    <2>1. link /\ lost' \in Nat /\ lost <= lost' /\ Counts(what)
      BY <1>2, WriteBegins
    <2>2. lost = 0
      BY <2>1, CountTypes
    <2> QED
      BY <2>1, <2>2
  <1> QED
    BY <1>1, <1>2

-----------------------------------------------------------------------------
(* The chunks that are written.                                             *)

(***************************************************************************)
(* The first chunk goes out with the header: it always fits.  Of a file    *)
(* nobody changed, as much is read as was announced.                       *)
(***************************************************************************)
FirstChunk == ComputeChunkEncodingData(IntOf(static_file_size), MAX_CHUNK_SIZE - header_len)

HeaderAndChunk(chunk, amount) == [ChunkData(chunk, amount) EXCEPT !.headers = 1]

LEMMA FirstChunkIsWritten ==
    ASSUME Inv, First, isChunkEncoding
    PROVE  /\ FirstChunk.toread \in Nat
           /\ Fread(FirstChunk.toread) \in 0 .. FirstChunk.toread
           /\ ~touched => Fread(FirstChunk.toread) = FirstChunk.toread
           /\ FirstChunk.total = IntOf(static_file_size) - FirstChunk.toread
           /\ IntOf(static_file_size) > 0 => /\ FirstChunk.toread > 0
                                             /\ FirstChunk.toread <= IntOf(static_file_size)
           /\ total_data_size' = FirstChunk.total
           /\ overrun' = (overrun \/ Overruns(FirstChunk))
           /\ \E result \in WriteResults, prefix \in Nat \ {0} :
                 Write(result, prefix, HeaderAndChunk(FirstChunk, Fread(FirstChunk.toread)), 2)
  <1> DEFINE left   == IntOf(static_file_size)
             space  == MAX_CHUNK_SIZE - header_len
             chunk  == ComputeChunkEncodingData(left, space)
             amount == Fread(chunk.toread)
  <1>1. TypeOK
    BY DEF Inv
  <1>2. /\ header_len \in Nat \ {0} /\ space \in Int /\ MAX_CHUNK_SIZE \in Nat
        /\ space > SIZEOF_TWO_CRLF + INT_HEX_DIGITS
        /\ left \in Int /\ file_len \in Nat
    BY <1>1, HeaderLenBounds, IntOfType
  <1>3. /\ chunk.delim \in SIZEOF_TWO_CRLF .. SIZEOF_TWO_CRLF + INT_HEX_DIGITS
        /\ chunk.toread \in Nat
        /\ chunk.delim + chunk.toread <= space
        /\ left > 0 => chunk.toread > 0 /\ chunk.toread <= left
        /\ left <= 0 => chunk.toread = 0
        /\ chunk.total = left - chunk.toread
    BY <1>2, ChunkBounds
  <1>4. /\ FirstChunk = chunk
        /\ FirstChunked
    BY DEF FirstChunk, First, FirstPlain
  <1>5. /\ total_data_size' = chunk.total
        /\ overrun' = (overrun \/ Overruns(chunk))
        /\ \E result \in WriteResults :
             SendHttpHeader(result, chunk.delim - SIZEOF_CRLF, ChunkData(chunk, amount), SIZEOF_CRLF)
    BY <1>4 DEF FirstChunked
  <1> HIDE DEF chunk, left, amount
  <1>6. /\ amount \in 0 .. chunk.toread
        /\ file_pos <= file_len =>
             (file_pos + chunk.toread <= file_len => amount = chunk.toread)
    BY <1>1, <1>3, FreadBounds DEF amount
  <1>7. ~touched => amount = chunk.toread
    <2> SUFFICES ASSUME ~touched PROVE amount = chunk.toread
      OBVIOUS
    <2>1. file_len = AtLeastZero(left) /\ file_pos = 0
      BY DEF Inv, CountsAgree, left, First
    <2> QED
      BY <1>2, <1>3, <1>6, <2>1 DEF AtLeastZero
  <1>8. \E result \in WriteResults, prefix \in Nat \ {0} :
            Write(result, prefix, HeaderAndChunk(chunk, amount), 2)
    <2>1. PICK result \in WriteResults :
              SendHttpHeader(result, chunk.delim - SIZEOF_CRLF, ChunkData(chunk, amount), SIZEOF_CRLF)
      BY <1>5
    <2>2. ChunkData(chunk, amount).body = amount
      BY DEF ChunkData, Nothing
    <2>3. HeaderFits((chunk.delim - SIZEOF_CRLF) + ChunkData(chunk, amount).body + SIZEOF_CRLF)
      BY <1>2, <1>3, <1>6, <2>2 DEF HeaderFits, SIZEOF_TWO_CRLF, SIZEOF_CRLF, INT_HEX_DIGITS
    <2>4. (header_len - 1) + (chunk.delim - SIZEOF_CRLF) \in Nat \ {0}
      BY <1>2, <1>3 DEF SIZEOF_TWO_CRLF, SIZEOF_CRLF, INT_HEX_DIGITS
    <2>5. Write(result, (header_len - 1) + (chunk.delim - SIZEOF_CRLF),
                [ChunkData(chunk, amount) EXCEPT !.headers = 1], SIZEOF_CRLF)
      BY <2>1, <2>3 DEF SendHttpHeader
    <2>6. SIZEOF_CRLF = 2
      BY DEF SIZEOF_CRLF
    <2> QED
      BY <2>4, <2>5, <2>6 DEF HeaderAndChunk
  <1> QED
    BY <1>3, <1>4, <1>5, <1>6, <1>7, <1>8 DEF left, amount

\* The chunk of a turn of the loop.
NextChunk == ComputeChunkEncodingData(total_data_size, MAX_CHUNK_SIZE)

LEMMA NextChunkIsWritten ==
    ASSUME Inv, Loop, isChunkEncoding
    PROVE  /\ NextChunk.toread \in Nat
           /\ Fread(NextChunk.toread) \in 0 .. NextChunk.toread
           /\ ~touched => Fread(NextChunk.toread) = NextChunk.toread
           /\ NextChunk.total = total_data_size - NextChunk.toread
           /\ total_data_size > 0 => NextChunk.toread > 0 /\ NextChunk.toread <= total_data_size
           /\ total_data_size' = NextChunk.total
           /\ overrun' = (overrun \/ Overruns(NextChunk))
           /\ \E result \in WriteResults, prefix \in Nat \ {0} :
                 /\ Write(result, prefix, ChunkData(NextChunk, Fread(NextChunk.toread)), 2)
                 /\ LoopTest(result, Fread(NextChunk.toread))
  <1> DEFINE chunk  == ComputeChunkEncodingData(total_data_size, MAX_CHUNK_SIZE)
             amount == Fread(chunk.toread)
  <1>1. TypeOK
    BY DEF Inv
  <1>2. /\ total_data_size \in Int /\ MAX_CHUNK_SIZE \in Int /\ file_len \in Nat
        /\ MAX_CHUNK_SIZE > SIZEOF_TWO_CRLF + INT_HEX_DIGITS
    BY <1>1, HeaderLenBounds, IntOfType DEF TypeOK, CallType
  <1>3. /\ chunk.delim \in SIZEOF_TWO_CRLF .. SIZEOF_TWO_CRLF + INT_HEX_DIGITS
        /\ chunk.toread \in Nat
        /\ total_data_size > 0 => chunk.toread > 0 /\ chunk.toread <= total_data_size
        /\ total_data_size <= 0 => chunk.toread = 0
        /\ chunk.total = total_data_size - chunk.toread
    BY <1>2, ChunkBounds
  <1>4. NextChunk = chunk /\ LoopChunked
    BY DEF NextChunk, Loop, LoopPlain
  <1>5. /\ total_data_size' = chunk.total
        /\ overrun' = (overrun \/ Overruns(chunk))
        /\ \E result \in WriteResults :
             /\ Write(result, chunk.delim - SIZEOF_CRLF, ChunkData(chunk, amount), SIZEOF_CRLF)
             /\ LoopTest(result, amount)
    BY <1>4 DEF LoopChunked
  <1> HIDE DEF chunk, amount
  <1>6. /\ amount \in 0 .. chunk.toread
        /\ file_pos <= file_len =>
             (file_pos + chunk.toread <= file_len => amount = chunk.toread)
    BY <1>1, <1>3, FreadBounds DEF amount
  <1>7. ~touched => amount = chunk.toread
    <2> SUFFICES ASSUME ~touched PROVE amount = chunk.toread
      OBVIOUS
    <2>1. total_data_size = file_len - file_pos /\ file_pos <= file_len /\ file_pos \in Nat
      BY DEF Inv, CountsAgree, Loop, TypeOK, FileType
    <2> QED
      BY <1>2, <1>3, <1>6, <2>1
  <1>8. chunk.delim - SIZEOF_CRLF \in Nat \ {0} /\ SIZEOF_CRLF = 2
    BY <1>3 DEF SIZEOF_TWO_CRLF, SIZEOF_CRLF, INT_HEX_DIGITS
  <1> QED
    BY <1>3, <1>4, <1>5, <1>6, <1>7, <1>8 DEF amount

-----------------------------------------------------------------------------
(* Which size lines are wrong.                                              *)

\* A full chunk has a size line of four digits, with the header before it and
\* without.
FourDigitChunks ==
    /\ FourDigitSpace(MAX_CHUNK_SIZE)
    /\ \A h \in HeaderLens : FourDigitSpace(MAX_CHUNK_SIZE - h)

LEMMA AnnouncedWrong ==
    ASSUME NEW left \in Int, NEW space, FourDigitSpace(space)
    PROVE  LET chunk == ComputeChunkEncodingData(left, space)
           IN  chunk.announced # chunk.toread <=> left \in MisprintedSizes
  <1>1. space \in Int
    BY FourDigitsRange DEF FourDigitSpace
  <1>2. CASE left > 0
    BY <1>2, ChunkOfData
  <1>3. CASE left <= 0
    <2>1. left \notin MisprintedSizes
      BY <1>3 DEF MisprintedSizes
    <2> QED
      BY <1>1, <1>3, <2>1, ChunkOfNothing
  <1> QED
    BY <1>2, <1>3

LEMMA ChunkContents ==
    ASSUME NEW chunk, NEW amount \in Nat
    PROVE  /\ ChunkData(chunk, amount) \in Contents
           /\ ChunkData(chunk, amount).headers = 0 /\ ChunkData(chunk, amount).body = amount
           /\ ChunkData(chunk, amount).bad_chunks = (IF chunk.announced # amount THEN 1 ELSE 0)
           /\ ChunkData(chunk, amount).endings
                = (IF chunk.announced = 0 /\ amount = 0 THEN 1 ELSE 0)
           /\ HeaderAndChunk(chunk, amount) \in Contents
           /\ HeaderAndChunk(chunk, amount).headers = 1 /\ HeaderAndChunk(chunk, amount).body = amount
           /\ HeaderAndChunk(chunk, amount).bad_chunks = (IF chunk.announced # amount THEN 1 ELSE 0)
           /\ HeaderAndChunk(chunk, amount).endings
                = (IF chunk.announced = 0 /\ amount = 0 THEN 1 ELSE 0)
  BY DEF ChunkData, HeaderAndChunk, Nothing, Contents

LEMMA SizeLineStep ==
    ASSUME FourDigitChunks, Inv, Next, isChunkEncoding, send_pc \in {"first", "loop"},
           link', ~touched', ~out_left
    PROVE  BadChunks' # BadChunks <=> DataLeft \in MisprintedSizes
  <1>1. First \/ Loop
    BY DEF Next, SendStaticData, Ending, FileChanges
  <1>2. TypeOK /\ PendingInv /\ ~touched
    BY <1>1 DEF Inv, First, Loop
  <1>3. BadChunks \in Nat /\ IntOf(static_file_size) \in Int /\ total_data_size \in Int
    BY <1>2, CountTypes, IntOfType DEF TypeOK, CallType
  <1>4. 2 \in Nat /\ Nat \ {0} \subseteq Nat
    OBVIOUS
  <1>5. CASE First
    <2> DEFINE amount == Fread(FirstChunk.toread)
    <2>1. amount \in Nat /\ amount = FirstChunk.toread
      BY <1>2, <1>5, FirstChunkIsWritten
    <2>2. PICK result \in WriteResults, prefix \in Nat \ {0} :
              Write(result, prefix, HeaderAndChunk(FirstChunk, amount), 2)
      BY <1>5, FirstChunkIsWritten
    <2> HIDE DEF amount
    <2>3. HeaderAndChunk(FirstChunk, amount) \in Contents
      BY <2>1, ChunkContents
    <2>4. BadChunks' = BadChunks + HeaderAndChunk(FirstChunk, amount).bad_chunks
      BY <1>2, <1>4, <2>2, <2>3, WriteBegins
    <2>5. HeaderAndChunk(FirstChunk, amount).bad_chunks
            = IF FirstChunk.announced # FirstChunk.toread THEN 1 ELSE 0
      BY <2>1, ChunkContents
    <2>6. FirstChunk.announced # FirstChunk.toread <=> IntOf(static_file_size) \in MisprintedSizes
      <3>1. FourDigitSpace(MAX_CHUNK_SIZE - header_len)
        BY <1>2 DEF FourDigitChunks, TypeOK, InputsType
      <3> QED
        BY <1>3, <3>1, AnnouncedWrong DEF FirstChunk
    <2>7. DataLeft = IntOf(static_file_size)
      BY <1>5 DEF DataLeft, First
    <2> QED
      BY <1>3, <2>4, <2>5, <2>6, <2>7
  <1>6. CASE Loop
    <2> DEFINE amount == Fread(NextChunk.toread)
    <2>1. amount \in Nat /\ amount = NextChunk.toread
      BY <1>2, <1>6, NextChunkIsWritten
    <2>2. PICK result \in WriteResults, prefix \in Nat \ {0} :
              Write(result, prefix, ChunkData(NextChunk, amount), 2)
      BY <1>6, NextChunkIsWritten
    <2> HIDE DEF amount
    <2>3. ChunkData(NextChunk, amount) \in Contents
      BY <2>1, ChunkContents
    <2>4. BadChunks' = BadChunks + ChunkData(NextChunk, amount).bad_chunks
      BY <1>2, <1>4, <2>2, <2>3, WriteBegins
    <2>5. ChunkData(NextChunk, amount).bad_chunks
            = IF NextChunk.announced # NextChunk.toread THEN 1 ELSE 0
      BY <2>1, ChunkContents
    <2>6. NextChunk.announced # NextChunk.toread <=> total_data_size \in MisprintedSizes
      BY <1>3, AnnouncedWrong DEF FourDigitChunks, NextChunk
    <2>7. DataLeft = total_data_size
      BY <1>6 DEF DataLeft, Loop
    <2> QED
      BY <1>3, <2>4, <2>5, <2>6, <2>7
  <1> QED
    BY <1>1, <1>5, <1>6

(***************************************************************************)
(* For every length of file, in the first write and in every turn of the   *)
(* loop, the size line is wrong for 3, 16, 17 and 256 bytes and right for  *)
(* all others, as long as a full chunk takes four digits.                  *)
(***************************************************************************)
THEOREM OnlyMisprintedSizesAreWrong ==
    ASSUME FourDigitChunks
    PROVE  Spec => SizeLineWrongOnlyForMisprintedSizes
  <1>1. Inv /\ [Next]_vars =>
          [(isChunkEncoding /\ send_pc \in {"first", "loop"} /\ link' /\ ~touched' /\ ~out_left)
             => (BadChunks' # BadChunks <=> DataLeft \in MisprintedSizes)]_vars
    BY SizeLineStep
  <1> QED
    BY <1>1, Invariant, PTL DEF Spec, SizeLineWrongOnlyForMisprintedSizes

-----------------------------------------------------------------------------
(* Which chunks overrun response_buffer.                                    *)

\* The file goes on for a full chunk after the first write.
LargeFile ==
    IntOf(static_file_size) + header_len >= 2 * (MAX_CHUNK_SIZE - FULL_CHUNK_DELIM)

\* total_data_size has a full chunk left.
FullChunkLeft == total_data_size >= MAX_CHUNK_SIZE - FULL_CHUNK_DELIM

(***************************************************************************)
(* The first write never overruns.  It leaves a full chunk exactly of a    *)
(* large file; the turn of the loop that takes that chunk overruns, and    *)
(* total_data_size only falls.                                             *)
(***************************************************************************)
OverrunInv ==
    /\ overrun => isChunkEncoding /\ send_pc # "first" /\ LargeFile
    /\ (isChunkEncoding /\ send_pc = "loop") =>
           /\ FullChunkLeft => LargeFile
           /\ LargeFile => overrun \/ FullChunkLeft
    /\ (isChunkEncoding /\ (send_pc = "ending" \/ (send_pc = "done" /\ ret = 0))) =>
           (LargeFile => overrun)

LEMMA ChunkFormType ==
    ASSUME NEW left \in Int, NEW space \in Int, space > SIZEOF_TWO_CRLF + INT_HEX_DIGITS
    PROVE  ComputeChunkEncodingData(left, space).form_bytes \in Int
  <1> DEFINE chunk == ComputeChunkEncodingData(left, space)
  <1>1. /\ chunk.delim \in SIZEOF_TWO_CRLF .. SIZEOF_TWO_CRLF + INT_HEX_DIGITS
        /\ chunk.toread \in Nat
    BY ChunkBounds
  <1>2. chunk.form_bytes = (chunk.delim - SIZEOF_CRLF) + chunk.toread + SIZEOF_CRLF + 1
    BY DEF ComputeChunkEncodingData
  <1> HIDE DEF chunk
  <1>3. chunk.form_bytes \in Int
    BY <1>1, <1>2 DEF SIZEOF_TWO_CRLF, SIZEOF_CRLF, INT_HEX_DIGITS
  <1> QED
    BY <1>3 DEF chunk

LEMMA FirstChunkFits ==
    ASSUME FourDigitChunks, TypeOK
    PROVE  LET left == IntOf(static_file_size)
           IN  /\ ~Overruns(FirstChunk)
               /\ left - FirstChunk.toread > 0 =>
                      (left - FirstChunk.toread >= MAX_CHUNK_SIZE - FULL_CHUNK_DELIM <=> LargeFile)
               /\ left - FirstChunk.toread <= 0 => ~LargeFile
  <1> DEFINE left  == IntOf(static_file_size)
             space == MAX_CHUNK_SIZE - header_len
  <1>1. /\ FourDigitSpace(space) /\ space \in Int /\ space >= 4104
        /\ left \in Int /\ header_len \in Nat \ {0} /\ MAX_CHUNK_SIZE \in Nat
        /\ FULL_CHUNK_DELIM = 8
    <2>1. FourDigitSpace(space)
      BY DEF FourDigitChunks, TypeOK, InputsType
    <2>2. FULL_CHUNK_DELIM = 8
      BY DEF FULL_CHUNK_DELIM, SIZEOF_TWO_CRLF, SIZEOF_CRLF
    <2>3. space \in Int /\ space >= 4104
      BY <2>1, <2>2, FourDigitsRange, SMT DEF FourDigitSpace
    <2> QED
      BY <2>1, <2>2, <2>3, HeaderLenBounds, IntOfType
  <1>2. FirstChunk = ComputeChunkEncodingData(left, space)
    BY DEF FirstChunk
  <1> HIDE DEF left, space
  <1>3. CASE left <= 0
    <2>1. FirstChunk.toread = 0 /\ FirstChunk.form_bytes = 6
      BY <1>1, <1>2, <1>3, ChunkOfNothing
    <2> QED
      BY <1>1, <1>3, <2>1 DEF Overruns, LargeFile, left, space
  <1>4. CASE left > 0 /\ left < 4096
    <2>1. FirstChunk.toread = left /\ FirstChunk.form_bytes < 4104
      BY <1>1, <1>2, <1>4, ChunkOfData
    <2>2. ~LargeFile
      BY <1>1, <1>4 DEF LargeFile, left, space
    <2>3. ~Overruns(FirstChunk)
      <3>1. FirstChunk.form_bytes \in Int
        <4>1. space > SIZEOF_TWO_CRLF + INT_HEX_DIGITS
          BY <1>1 DEF SIZEOF_TWO_CRLF, SIZEOF_CRLF, INT_HEX_DIGITS
        <4> QED
          BY <1>1, <1>2, <4>1, ChunkFormType
      <3> QED
        BY <1>1, <2>1, <3>1 DEF Overruns, space
    <2> QED
      BY <1>1, <1>4, <2>1, <2>2, <2>3 DEF left
  <1>5. CASE left >= 4096
    <2>1. /\ FirstChunk.toread = Smaller(left, space - 8)
          /\ FirstChunk.form_bytes = FirstChunk.toread + 9
      <3>1. left > 0
        BY <1>1, <1>5
      <3>2. /\ FirstChunk.toread = Smaller(left, space - FULL_CHUNK_DELIM)
            /\ FirstChunk.form_bytes = FirstChunk.toread + FULL_CHUNK_DELIM + 1
        BY <1>1, <1>2, <1>5, <3>1, ChunkOfData
      <3>3. FirstChunk.toread \in Int
        BY <1>1, <3>2 DEF Smaller
      <3> QED
        BY <1>1, <3>2, <3>3
    <2>2. FirstChunk.toread = IF left <= space - 8 THEN left ELSE space - 8
      BY <2>1 DEF Smaller
    <2>3. ~Overruns(FirstChunk)
      BY <1>1, <2>1, <2>2 DEF Overruns, space
    <2>4. LargeFile <=> left + header_len >= 2 * (MAX_CHUNK_SIZE - 8)
      BY <1>1 DEF LargeFile, left
    <2> QED
      BY <1>1, <1>5, <2>2, <2>3, <2>4 DEF left, space
  <1> QED
    BY <1>1, <1>3, <1>4, <1>5

LEMMA NextChunkOverruns ==
    ASSUME FourDigitChunks, TypeOK
    PROVE  Overruns(NextChunk) <=> FullChunkLeft
  <1>1. /\ FourDigitSpace(MAX_CHUNK_SIZE) /\ total_data_size \in Int
        /\ FULL_CHUNK_DELIM = 8
    BY DEF FourDigitChunks, TypeOK, CallType, FULL_CHUNK_DELIM, SIZEOF_TWO_CRLF, SIZEOF_CRLF
  <1>2. MAX_CHUNK_SIZE \in Int /\ MAX_CHUNK_SIZE >= 4104
    BY <1>1, FourDigitsRange, SMT DEF FourDigitSpace
  <1>3. CASE total_data_size <= 0
    <2>1. NextChunk.form_bytes = 6
      BY <1>1, <1>2, <1>3, ChunkOfNothing DEF NextChunk
    <2> QED
      BY <1>1, <1>2, <1>3, <2>1 DEF Overruns, FullChunkLeft
  <1>4. CASE total_data_size > 0 /\ total_data_size < 4096
    <2>1. NextChunk.form_bytes < 4104
      BY <1>1, <1>2, <1>4, ChunkOfData DEF NextChunk
    <2>2. MAX_CHUNK_SIZE > SIZEOF_TWO_CRLF + INT_HEX_DIGITS
      BY <1>2 DEF SIZEOF_TWO_CRLF, SIZEOF_CRLF, INT_HEX_DIGITS
    <2>3. NextChunk.form_bytes \in Int
      BY <1>1, <1>2, <2>2, ChunkFormType DEF NextChunk
    <2> QED
      BY <1>1, <1>2, <1>4, <2>1, <2>3 DEF Overruns, FullChunkLeft
  <1>5. CASE total_data_size >= 4096
    <2>1. /\ NextChunk.toread = Smaller(total_data_size, MAX_CHUNK_SIZE - 8)
          /\ NextChunk.form_bytes = NextChunk.toread + 9
      <3>1. total_data_size > 0
        BY <1>1, <1>5
      <3>2. /\ NextChunk.toread = Smaller(total_data_size, MAX_CHUNK_SIZE - FULL_CHUNK_DELIM)
            /\ NextChunk.form_bytes = NextChunk.toread + FULL_CHUNK_DELIM + 1
        BY <1>1, <1>5, <3>1, ChunkOfData DEF NextChunk
      <3>3. NextChunk.toread \in Int
        BY <1>1, <1>2, <3>2 DEF Smaller
      <3> QED
        BY <1>1, <3>2, <3>3
    <2> QED
      BY <1>1, <1>2, <1>5, <2>1 DEF Overruns, FullChunkLeft, Smaller
  <1> QED
    BY <1>1, <1>3, <1>4, <1>5

LEMMA OverrunStep ==
    ASSUME FourDigitChunks, Inv, OverrunInv, [Next]_vars
    PROVE  OverrunInv'
  <1>1. /\ TypeOK /\ total_data_size \in Int /\ IntOf(static_file_size) \in Int
        /\ overrun \in BOOLEAN /\ isChunkEncoding \in BOOLEAN
    BY IntOfType DEF Inv, TypeOK, CallType, FlagsType
  <1>2. First \/ Loop \/ Ending => (LargeFile' <=> LargeFile) /\ isChunkEncoding' = isChunkEncoding
    BY DEF First, Loop, Ending, inputs, LargeFile, IntOf
  <1>3. CASE First
    <2>1. CASE ~isChunkEncoding
      BY <1>2, <1>3, <2>1 DEF First, FirstPlain, FirstChunked, OverrunInv
    <2>2. CASE isChunkEncoding
      <3>1. /\ FirstChunk.toread \in Nat
            /\ total_data_size' = IntOf(static_file_size) - FirstChunk.toread
            /\ overrun' = (overrun \/ Overruns(FirstChunk))
        BY <1>3, <2>2, FirstChunkIsWritten
      <3>2. ~overrun'
        BY <1>1, <1>3, <3>1, FirstChunkFits DEF OverrunInv, First
      <3>3. send_pc' = IF total_data_size' > 0 THEN "loop" ELSE "ending"
        BY <1>3 DEF First
      <3>4. /\ total_data_size' > 0 => (FullChunkLeft' <=> LargeFile)
            /\ total_data_size' <= 0 => ~LargeFile
        BY <1>1, <3>1, FirstChunkFits DEF FullChunkLeft
      <3>5. total_data_size' \in Int
        BY <1>1, <3>1
      <3> QED
        BY <1>2, <1>3, <2>2, <3>2, <3>3, <3>4, <3>5 DEF OverrunInv
    <2> QED
      BY <2>1, <2>2
  <1>4. CASE Loop
    <2>1. CASE ~isChunkEncoding
      BY <1>2, <1>4, <2>1 DEF Loop, LoopPlain, LoopChunked, OverrunInv, LoopTest
    <2>2. CASE isChunkEncoding
      <3>1. /\ NextChunk.toread \in Nat
            /\ total_data_size' = total_data_size - NextChunk.toread
            /\ overrun' = (overrun \/ Overruns(NextChunk))
            /\ \E result \in WriteResults : LoopTest(result, Fread(NextChunk.toread))
        BY <1>4, <2>2, NextChunkIsWritten
      <3>2. overrun' <=> LargeFile
        BY <1>1, <1>4, <2>2, <3>1, NextChunkOverruns DEF OverrunInv, Loop
      <3>3. FullChunkLeft' => FullChunkLeft
        <4>1. MAX_CHUNK_SIZE \in Int /\ FULL_CHUNK_DELIM \in Int
          BY <1>1, HeaderLenBounds DEF FULL_CHUNK_DELIM, SIZEOF_TWO_CRLF, SIZEOF_CRLF
        <4> QED
          BY <1>1, <3>1, <4>1 DEF FullChunkLeft
      <3>4. FullChunkLeft' => LargeFile
        BY <1>4, <2>2, <3>3 DEF OverrunInv, Loop
      <3>5. send_pc' # "first"
        BY <3>1 DEF LoopTest
      <3> QED
        BY <1>2, <1>4, <2>2, <3>2, <3>4, <3>5 DEF OverrunInv
    <2> QED
      BY <2>1, <2>2
  <1>5. CASE Ending
    BY <1>2, <1>5 DEF Ending, OverrunInv
  <1>6. CASE FileChanges \/ UNCHANGED vars
    BY <1>6 DEF FileChanges, vars, inputs, call, OverrunInv, LargeFile, FullChunkLeft, IntOf
  <1> QED
    BY <1>3, <1>4, <1>5, <1>6 DEF Next, SendStaticData

(***************************************************************************)
(* A chunk form is written one byte past response_buffer exactly when the  *)
(* file goes on for a full chunk after the first write, for every length   *)
(* of the file and of the header, whatever becomes of the writes and of    *)
(* the file in the meantime.                                               *)
(***************************************************************************)
THEOREM OnlyFullChunksOverrun ==
    ASSUME FourDigitChunks
    PROVE  Spec => []OverrunOnlyByFullChunks
  <1>1. Init => OverrunInv
    BY DEF Init, OverrunInv
  <1>2. Inv /\ OverrunInv /\ [Next]_vars => OverrunInv'
    BY OverrunStep
  <1>3. Inv /\ OverrunInv => OverrunOnlyByFullChunks
    BY DEF Inv, TypeOK, FlagsType, OverrunInv, OverrunOnlyByFullChunks, LargeFile
  <1> QED
    BY <1>1, <1>2, <1>3, Invariant, PTL DEF Spec

-----------------------------------------------------------------------------
(* How often the header goes out and the body is ended.                     *)

\* Nothing of the call is lost so far; what was interrupted still waits.
NothingLost == link /\ lost = 0 /\ ~touched

\* A body that fits the first write has no zero chunk of its own.
HasOwnEnd == ~(IntOf(static_file_size) > 0 /\ FitsFirstWrite)

(***************************************************************************)
(* At every point of the call, the headers and ends of body that a client  *)
(* has seen or will see of it.                                             *)
(***************************************************************************)
ShapeInv ==
    NothingLost =>
        /\ send_pc = "first" => Headers = 0 /\ Endings = 0
        /\ send_pc = "loop" => /\ Headers = 1 /\ Endings = 0
                               /\ isChunkEncoding => HasOwnEnd
        /\ send_pc = "ending" =>
               /\ Headers = 1
               /\ Endings = IF isChunkEncoding /\ HasOwnEnd THEN 1 ELSE 0
        /\ (send_pc = "done" /\ ret = 0) =>
               /\ Headers = IF isChunkEncoding \/ isKeepAlive THEN 1 ELSE 2
               /\ Endings = IF ~isChunkEncoding THEN 0 ELSE IF HasOwnEnd THEN 2 ELSE 1

LEMMA ShapeInit == Init => ShapeInv
  <1> SUFFICES ASSUME Init PROVE Headers = 0 /\ Endings = 0
    BY DEF Init, ShapeInv
  <1>1. pending.headers = 0 /\ pending.endings = 0 /\ headers = 0 /\ endings = 0
    BY DEF Init, Nothing
  <1> QED
    BY <1>1 DEF Headers, Endings

LEMMA ShapeFirst ==
    ASSUME Inv, ShapeInv, First
    PROVE  ShapeInv'
  <1> SUFFICES ASSUME NothingLost' PROVE ShapeInv'
    BY DEF ShapeInv
  <1>1. /\ TypeOK /\ PendingInv
        /\ link' /\ lost' = 0 /\ ~touched /\ send_pc = "first"
        /\ isChunkEncoding' = isChunkEncoding
        /\ HasOwnEnd' = HasOwnEnd /\ IntOf(static_file_size)' = IntOf(static_file_size)
        /\ send_pc' = IF total_data_size' > 0 THEN "loop" ELSE "ending"
    BY DEF Inv, First, inputs, NothingLost, HasOwnEnd, FitsFirstWrite, IntOf
  <1>2. /\ IntOf(static_file_size) \in Int /\ header_len \in Nat /\ header_len > 1
        /\ MAX_CHUNK_SIZE \in Nat /\ header_len < MAX_CHUNK_SIZE
    <2>1. header_len > 1
      BY <1>1, HeaderLensAssumption DEF TypeOK, InputsType
    <2> QED
      BY <1>1, <2>1, IntOfType, HeaderLenBounds DEF SIZEOF_TWO_CRLF, SIZEOF_CRLF, INT_HEX_DIGITS
  <1>3. ASSUME NEW result \in WriteResults, NEW prefix \in Nat \ {0}, NEW what \in Contents,
               NEW suffix \in Nat, Write(result, prefix, what, suffix), what.headers = 1
        PROVE  Headers' = 1 /\ Endings' = what.endings
    <2>1. what.body \in Nat /\ what.endings \in Nat /\ prefix \in Nat
      BY <1>3 DEF Contents
    <2>2. prefix + what.body + suffix # 0
      BY <1>3, <2>1
    <2>3. link /\ lost = 0 /\ Counts(what)
      BY <1>1, <1>3, <2>1, <2>2, WriteInFull
    <2>4. Headers = 0 /\ Endings = 0
      BY <1>1, <2>3 DEF ShapeInv, NothingLost
    <2> QED
      BY <1>3, <2>1, <2>3, <2>4 DEF Counts
  <1>4. CASE ~isChunkEncoding
    <2> DEFINE amount == Fread(MAX_CHUNK_SIZE - header_len)
    <2>1. FirstPlain
      BY <1>4 DEF First, FirstChunked
    <2>2. MAX_CHUNK_SIZE - header_len \in Nat
      BY <1>2
    <2>3. amount \in 0 .. (MAX_CHUNK_SIZE - header_len)
      BY <1>1, <2>2, FreadBounds
    <2>4. PICK result \in WriteResults : SendHttpHeader(result, 0, FileData(amount), 0)
      BY <2>1 DEF FirstPlain
    <2> HIDE DEF amount
    <2>5. /\ FileData(amount).body = amount
          /\ [FileData(amount) EXCEPT !.headers = 1] \in Contents
          /\ [FileData(amount) EXCEPT !.headers = 1].headers = 1
          /\ [FileData(amount) EXCEPT !.headers = 1].endings = 0
      <3>1. amount \in Nat
        BY <1>2, <2>3
      <3>2. FileData(amount) = [headers |-> 0, body |-> amount, bad_chunks |-> 0, endings |-> 0]
        BY DEF FileData, Nothing
      <3> QED
        BY <3>1, <3>2 DEF Contents
    <2>6. HeaderFits(0 + FileData(amount).body + 0)
      <3>1. amount \in Nat /\ header_len + amount <= MAX_CHUNK_SIZE
        BY <1>2, <2>3
      <3> QED
        BY <2>5, <3>1, <1>2 DEF HeaderFits
    <2>7. Write(result, (header_len - 1) + 0, [FileData(amount) EXCEPT !.headers = 1], 0)
      BY <2>4, <2>6 DEF SendHttpHeader
    <2>8. (header_len - 1) + 0 \in Nat \ {0} /\ 0 \in Nat
      BY <1>2
    <2>9. Headers' = 1 /\ Endings' = 0
      BY <1>3, <2>5, <2>7, <2>8
    <2> QED
      BY <1>1, <1>4, <2>9 DEF ShapeInv
  <1>5. CASE isChunkEncoding
    <2> DEFINE amount == Fread(FirstChunk.toread)
               left   == IntOf(static_file_size)
    <2>1. /\ FirstChunk.toread \in Nat /\ amount = FirstChunk.toread
          /\ FirstChunk.total = left - FirstChunk.toread
          /\ left > 0 => FirstChunk.toread > 0 /\ FirstChunk.toread <= left
          /\ total_data_size' = FirstChunk.total
      BY <1>1, <1>5, FirstChunkIsWritten
    <2>2. PICK result \in WriteResults, prefix \in Nat \ {0} :
              Write(result, prefix, HeaderAndChunk(FirstChunk, amount), 2)
      BY <1>5, FirstChunkIsWritten
    <2> HIDE DEF amount
    <2>3. /\ HeaderAndChunk(FirstChunk, amount) \in Contents
          /\ HeaderAndChunk(FirstChunk, amount).headers = 1
          /\ HeaderAndChunk(FirstChunk, amount).endings
               = IF FirstChunk.announced = 0 /\ amount = 0 THEN 1 ELSE 0
      BY <2>1, ChunkContents
    <2>4. Headers' = 1 /\ Endings' = HeaderAndChunk(FirstChunk, amount).endings
      BY <1>3, <2>2, <2>3
    <2>5. HasOwnEnd <=> ~(left > 0 /\ FirstChunk.total = 0)
      BY DEF HasOwnEnd, FitsFirstWrite, FirstChunk
    <2>6. left <= 0 => FirstChunk.toread = 0 /\ FirstChunk.announced = 0
      BY <1>2, ChunkOfNothing DEF FirstChunk
    <2> HIDE DEF left
    <2>7. left \in Int
      BY <1>2 DEF left
    <2>8. CASE left <= 0
      <3>1. Endings' = 1
        BY <2>1, <2>3, <2>4, <2>6, <2>8
      <3>2. HasOwnEnd
        BY <2>5, <2>7, <2>8
      <3>3. send_pc' = "ending"
        BY <1>1, <2>1, <2>6, <2>7, <2>8
      <3> QED
        BY <1>1, <1>5, <2>4, <3>1, <3>2, <3>3 DEF ShapeInv
    <2>9. CASE left > 0
      <3>1. Endings' = 0
        BY <2>1, <2>3, <2>4, <2>9
      <3>2. /\ send_pc' = "loop" => HasOwnEnd
            /\ send_pc' = "ending" => ~HasOwnEnd
        BY <1>1, <2>1, <2>5, <2>7, <2>9
      <3> QED
        BY <1>1, <1>5, <2>4, <3>1, <3>2 DEF ShapeInv
    <2> QED
      BY <2>7, <2>8, <2>9
  <1> QED
    BY <1>4, <1>5

LEMMA ShapeLoop ==
    ASSUME Inv, ShapeInv, Loop
    PROVE  ShapeInv'
  <1> SUFFICES ASSUME NothingLost' PROVE ShapeInv'
    BY DEF ShapeInv
  <1>1. /\ TypeOK /\ PendingInv
        /\ link' /\ lost' = 0 /\ ~touched /\ send_pc = "loop"
        /\ isChunkEncoding' = isChunkEncoding
        /\ HasOwnEnd' = HasOwnEnd
    BY DEF Inv, Loop, inputs, NothingLost, HasOwnEnd, FitsFirstWrite, IntOf
  <1>2. MAX_CHUNK_SIZE \in Nat /\ total_data_size \in Int
    BY <1>1, HeaderLenBounds DEF TypeOK, CallType
  <1>3. ASSUME NEW result \in WriteResults, NEW prefix \in Nat, NEW what \in Contents,
               NEW suffix \in Nat, Write(result, prefix, what, suffix), what.headers = 0,
               what.endings # 0 => prefix # 0
        PROVE  /\ Headers' = 1 /\ Endings' = what.endings
               /\ isChunkEncoding => HasOwnEnd
    <2>1. what.body \in Nat /\ what.endings \in Nat
      BY <1>3 DEF Contents
    <2>2. prefix + what.body + suffix = 0 => what.headers = 0 /\ what.endings = 0
      <3>1. prefix + what.body + suffix = 0 => prefix = 0
        BY <1>3, <2>1
      <3> QED
        BY <1>3, <3>1
    <2>3. link /\ lost = 0 /\ Counts(what)
      BY <1>1, <1>3, <2>2, WriteInFull
    <2>4. Headers = 1 /\ Endings = 0 /\ (isChunkEncoding => HasOwnEnd)
      BY <1>1, <2>3 DEF ShapeInv, NothingLost
    <2> QED
      BY <1>3, <2>1, <2>3, <2>4 DEF Counts
  <1>4. ASSUME NEW result \in WriteResults, NEW amount \in Nat, LoopTest(result, amount)
        PROVE  /\ send_pc' \in {"loop", "ending", "done"}
               /\ send_pc' = "loop" => amount > 0
               /\ send_pc' = "ending" => amount = 0
               /\ send_pc' = "done" => ret' # 0
    BY <1>4 DEF LoopTest, NETWORK_ERROR
  <1>5. CASE ~isChunkEncoding
    <2> DEFINE amount == Fread(MAX_CHUNK_SIZE)
    <2>1. amount \in Nat
      BY <1>1, <1>2, FreadBounds
    <2>2. PICK result \in WriteResults :
              Write(result, 0, FileData(amount), 0) /\ LoopTest(result, amount)
      BY <1>5 DEF Loop, LoopPlain, LoopChunked
    <2> HIDE DEF amount
    <2>3. /\ FileData(amount) \in Contents /\ FileData(amount).headers = 0
          /\ FileData(amount).endings = 0
      BY <2>1 DEF FileData, Nothing, Contents
    <2>4. Headers' = 1 /\ Endings' = 0
      BY <1>3, <2>2, <2>3
    <2>5. send_pc' \in {"loop", "ending", "done"} /\ (send_pc' = "done" => ret' # 0)
      BY <1>4, <2>1, <2>2
    <2> QED
      BY <1>1, <1>5, <2>4, <2>5 DEF ShapeInv
  <1>6. CASE isChunkEncoding
    <2> DEFINE amount == Fread(NextChunk.toread)
    <2>1. /\ NextChunk.toread \in Nat /\ amount = NextChunk.toread
          /\ total_data_size > 0 => NextChunk.toread > 0
      BY <1>1, <1>6, NextChunkIsWritten
    <2>2. PICK result \in WriteResults, prefix \in Nat \ {0} :
              /\ Write(result, prefix, ChunkData(NextChunk, amount), 2)
              /\ LoopTest(result, amount)
      BY <1>6, NextChunkIsWritten
    <2> HIDE DEF amount
    <2>3. /\ ChunkData(NextChunk, amount) \in Contents
          /\ ChunkData(NextChunk, amount).headers = 0
          /\ ChunkData(NextChunk, amount).endings
               = IF NextChunk.announced = 0 /\ amount = 0 THEN 1 ELSE 0
      BY <2>1, ChunkContents
    <2>4. /\ Headers' = 1 /\ Endings' = ChunkData(NextChunk, amount).endings
          /\ HasOwnEnd
      BY <1>3, <1>6, <2>2, <2>3
    <2>5. /\ send_pc' \in {"loop", "ending", "done"}
          /\ send_pc' = "loop" => amount > 0
          /\ send_pc' = "ending" => amount = 0
          /\ send_pc' = "done" => ret' # 0
      BY <1>4, <2>1, <2>2
    <2>6. total_data_size <= 0 => NextChunk.toread = 0 /\ NextChunk.announced = 0
      BY <1>2, ChunkOfNothing DEF NextChunk
    <2>7. CASE amount = 0
      <3>1. Endings' = 1
        BY <1>2, <2>1, <2>3, <2>4, <2>6, <2>7
      <3>2. send_pc' # "loop"
        BY <2>5, <2>7
      <3> QED
        BY <1>1, <1>6, <2>4, <2>5, <3>1, <3>2 DEF ShapeInv
    <2>8. CASE amount > 0
      <3>1. Endings' = 0
        BY <2>3, <2>4, <2>8
      <3>2. send_pc' # "ending"
        BY <2>5, <2>8
      <3> QED
        BY <1>1, <1>6, <2>4, <2>5, <3>1, <3>2 DEF ShapeInv
    <2> QED
      BY <2>1, <2>7, <2>8
  <1> QED
    BY <1>5, <1>6

LEMMA ShapeEnding ==
    ASSUME Inv, ShapeInv, Ending
    PROVE  ShapeInv'
  <1> SUFFICES ASSUME NothingLost' PROVE ShapeInv'
    BY DEF ShapeInv
  <1>1. /\ TypeOK /\ PendingInv
        /\ link' /\ lost' = 0 /\ ~touched
        /\ send_pc = "ending" /\ send_pc' = "done" /\ ret' = 0
        /\ isChunkEncoding' = isChunkEncoding /\ isKeepAlive' = isKeepAlive
        /\ HasOwnEnd' = HasOwnEnd
    BY DEF Inv, Ending, inputs, file, NothingLost, HasOwnEnd, FitsFirstWrite, IntOf
  <1>2. ASSUME NEW what \in Contents, link, lost = 0, Counts(what)
        PROVE  /\ Headers' = 1 + what.headers
               /\ Endings' = (IF isChunkEncoding /\ HasOwnEnd THEN 1 ELSE 0) + what.endings
    BY <1>1, <1>2 DEF ShapeInv, NothingLost, Counts
  <1>3. CASE isChunkEncoding
    <2> DEFINE what == [Nothing EXCEPT !.endings = 1]
    <2>1. what \in Contents /\ what.headers = 0 /\ what.endings = 1 /\ what.body = 0
      BY DEF Nothing, Contents
    <2>2. PICK result \in WriteResults : Write(result, 5, what, 0)
      BY <1>3 DEF Ending
    <2> HIDE DEF what
    <2>3. link /\ lost = 0 /\ Counts(what)
      BY <1>1, <2>1, <2>2, WriteInFull
    <2> QED
      BY <1>1, <1>2, <1>3, <2>1, <2>3 DEF ShapeInv
  <1>4. CASE ~isChunkEncoding /\ ~isKeepAlive
    <2> DEFINE what == [Nothing EXCEPT !.headers = 1]
    <2>1. /\ what \in Contents /\ what.headers = 1 /\ what.endings = 0 /\ what.body = 0
          /\ Nothing.body = 0
      BY DEF Nothing, Contents
    <2>2. header_len \in Nat /\ header_len > 1 /\ MAX_CHUNK_SIZE \in Nat
          /\ header_len < MAX_CHUNK_SIZE
      BY <1>1, HeaderLensAssumption, HeaderLenBounds
      DEF TypeOK, InputsType, SIZEOF_TWO_CRLF, SIZEOF_CRLF, INT_HEX_DIGITS
    <2>3. HeaderFits(0 + Nothing.body + 0)
      BY <2>1, <2>2 DEF HeaderFits
    <2>4. PICK result \in WriteResults : Write(result, (header_len - 1) + 0, what, 0)
      BY <1>4, <2>3 DEF Ending, SendHttpHeader
    <2> HIDE DEF what
    <2>5. /\ (header_len - 1) + 0 \in Nat /\ 0 \in Nat
          /\ ((header_len - 1) + 0) + what.body + 0 # 0
      BY <2>1, <2>2
    <2>6. link /\ lost = 0 /\ Counts(what)
      BY <1>1, <2>1, <2>4, <2>5, WriteInFull
    <2> QED
      BY <1>1, <1>2, <1>4, <2>1, <2>6 DEF ShapeInv
  <1>5. CASE ~isChunkEncoding /\ isKeepAlive
    <2>1. Headers' = Headers /\ Endings' = Endings /\ link /\ lost = 0
      BY <1>1, <1>5 DEF Ending, wire, Headers, Endings
    <2> QED
      BY <1>1, <1>5, <2>1 DEF ShapeInv, NothingLost
  <1> QED
    BY <1>3, <1>4, <1>5 DEF Ending

LEMMA ShapeStep ==
    ASSUME Inv, ShapeInv, [Next]_vars
    PROVE  ShapeInv'
  <1>1. CASE FileChanges
    BY <1>1 DEF FileChanges, ShapeInv, NothingLost
  <1>2. CASE UNCHANGED vars
    <2>1. Headers' = Headers /\ Endings' = Endings /\ HasOwnEnd' = HasOwnEnd
      BY <1>2 DEF vars, inputs, wire, Headers, Endings, HasOwnEnd, FitsFirstWrite, IntOf
    <2> QED
      BY <1>2, <2>1 DEF vars, inputs, file, call, wire, ShapeInv, NothingLost
  <1> QED
    BY <1>1, <1>2, ShapeFirst, ShapeLoop, ShapeEnding DEF Next, SendStaticData

LEMMA ShapeGivesWire == Inv /\ ShapeInv => WireShape
  <1> SUFFICES ASSUME Inv, ShapeInv, send_pc = "done", Undisturbed, ~touched
               PROVE  /\ headers = (IF isChunkEncoding \/ isKeepAlive THEN 1 ELSE 2)
                      /\ endings = (IF ~isChunkEncoding THEN 0
                                    ELSE IF IntOf(static_file_size) > 0 /\ FitsFirstWrite
                                         THEN 1 ELSE 2)
    BY DEF WireShape
  <1>1. ret = 0 /\ NothingLost
    BY DEF Inv, RetInv, Undisturbed, NothingLost
  <1>2. pending.headers = 0 /\ pending.endings = 0
    BY DEF Inv, PendingInv, Undisturbed, Nothing
  <1>3. Headers = headers /\ Endings = endings
    BY <1>2, CountTypes DEF Inv, Headers, Endings
  <1> QED
    BY <1>1, <1>3 DEF ShapeInv, HasOwnEnd

(***************************************************************************)
(* The framing of an undisturbed response, for every length of file,       *)
(* header and fragment: one header, or two for a plain response without    *)
(* keep-alive, and one end of a chunked body, or two when the loop or the  *)
(* first write has sent a zero chunk of its own.                           *)
(***************************************************************************)
THEOREM FramingOfResponses == Spec => []WireShape
  <1>1. Inv /\ ShapeInv /\ [Next]_vars => ShapeInv'
    BY ShapeStep
  <1> QED
    BY <1>1, ShapeGivesWire, ShapeInit, Invariant, PTL DEF Spec

=============================================================================
