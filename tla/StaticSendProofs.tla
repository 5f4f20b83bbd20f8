--------------------------- MODULE StaticSendProofs ---------------------------
(***************************************************************************)
(* What StaticSend promises for every buffer size, every set of file       *)
(* lengths, header lengths and TLS fragment sizes, with and without        *)
(* changing files.                                                         *)
(***************************************************************************)
EXTENDS StaticSend, FiniteSetTheorems, TLAPS

-----------------------------------------------------------------------------
(* The arithmetic of ComputeChunkEncodingData.                              *)

\* Division undoes multiplication.
LEMMA DivOfProduct ==
    ASSUME NEW m \in Nat, NEW q \in Nat \ {0}
    PROVE  (m * q) \div q = m
  BY SMT

\* A quotient is at least 1 when the divisor fits.
LEMMA Quotient ==
    ASSUME NEW v \in Nat, NEW m \in Nat \ {0}, v >= m
    PROVE  /\ v \div m \in Nat \ {0}
           /\ v - (v % m) = m * (v \div m)
  BY SMT

(***************************************************************************)
(* SaturateValue, which src/src/utility.c writes with the quotient and the *)
(* remainder, is the minimum of two positive numbers and 0 otherwise.      *)
(***************************************************************************)
LEMMA SaturateIsMin ==
    ASSUME NEW v \in Int, NEW m \in Int
    PROVE  SaturateValue(v, m) =
               IF v <= 0 \/ m <= 0 THEN 0 ELSE Smaller(v, m)
  <1>1. CASE v <= 0 \/ m <= 0
    BY <1>1 DEF SaturateValue
  <1>2. CASE v > 0 /\ m > 0 /\ v >= m
    <2>1. v \in Nat /\ m \in Nat \ {0}
      BY <1>2
    <2>2. v \div m \in Nat \ {0} /\ v - (v % m) = m * (v \div m)
      BY <1>2, <2>1, Quotient
    <2>3. (m * (v \div m)) \div (v \div m) = m
      BY <2>1, <2>2, DivOfProduct
    <2>4. SaturateValue(v, m) = m
      BY <1>2, <2>2, <2>3 DEF SaturateValue
    <2>5. Smaller(v, m) = m
      BY <1>2 DEF Smaller
    <2> QED
      BY <1>2, <2>4, <2>5
  <1>3. CASE v > 0 /\ m > 0 /\ v < m
    <2>1. v % m = v
      BY <1>3
    <2> QED
      BY <1>3, <2>1 DEF SaturateValue, Smaller
  <1> QED
    BY <1>1, <1>2, <1>3

\* A C int has at most eight hexadecimal digits.
LEMMA PowerOfHexRange ==
    ASSUME NEW n \in Int
    PROVE  PowerOfHex[n] \in 0 .. INT_HEX_DIGITS
  <1> DEFINE D == {k \in 0 .. INT_HEX_DIGITS - 1 : Abs(n) \div (16^k) > 0}
  <1>1. PowerOfHex[n] = Cardinality(D)
    BY DEF PowerOfHex
  <1>2. /\ IsFiniteSet(0 .. 7)
        /\ Cardinality(0 .. 7) = 8
    <2>1. 0 \in Int /\ 7 \in Int
      OBVIOUS
    <2>2. /\ IsFiniteSet(0 .. 7)
          /\ Cardinality(0 .. 7) = IF 0 > 7 THEN 0 ELSE 7 - 0 + 1
      BY <2>1, FS_Interval
    <2> QED
      BY <2>2
  <1>3. D \in SUBSET (0 .. 7)
    BY DEF INT_HEX_DIGITS
  <1> HIDE DEF D
  <1>4. IsFiniteSet(D) /\ Cardinality(D) <= 8
    BY <1>2, <1>3, FS_Subset
  <1>5. Cardinality(D) \in Nat
    BY <1>4, FS_CardinalityType
  <1> QED
    BY <1>1, <1>4, <1>5 DEF INT_HEX_DIGITS

(***************************************************************************)
(* What a chunk announces to read fits the space it was computed for and   *)
(* the data that is left, is zero only when nothing is left, and is taken  *)
(* off the data that is left; the form ends one byte behind that space at  *)
(* most.                                                                   *)
(***************************************************************************)
LEMMA ChunkBounds ==
    ASSUME NEW left \in Int, NEW space \in Int,
           space > SIZEOF_TWO_CRLF + INT_HEX_DIGITS
    PROVE  LET chunk == ComputeChunkEncodingData(left, space)
           IN  /\ chunk.delim \in SIZEOF_TWO_CRLF .. SIZEOF_TWO_CRLF + INT_HEX_DIGITS
               /\ chunk.toread \in Nat
               /\ chunk.delim + chunk.toread <= space
               /\ left > 0 => chunk.toread > 0 /\ chunk.toread <= left
               /\ left <= 0 => chunk.toread = 0
               /\ chunk.total = left - chunk.toread
               /\ chunk.total \in Int
               /\ chunk.form_bytes <= space + 1
  <1> DEFINE saturated == SaturateValue(left, space)
             width     == PowerOfHex[saturated - SIZEOF_TWO_CRLF + PowerOfHex[saturated]]
             delim     == SIZEOF_TWO_CRLF + width
             toread    == SaturateValue(saturated, space - delim)
             chunk     == ComputeChunkEncodingData(left, space)
  <1>1. saturated = IF left <= 0 \/ space <= 0 THEN 0 ELSE Smaller(left, space)
    BY SaturateIsMin
  <1>2. saturated \in Int
    BY <1>1 DEF Smaller
  <1>3. /\ chunk.delim = delim /\ chunk.toread = toread /\ chunk.total = left - toread
        /\ chunk.form_bytes = (delim - SIZEOF_CRLF) + toread + SIZEOF_CRLF + 1
    BY DEF ComputeChunkEncodingData
  <1> HIDE DEF saturated, chunk
  <1>4. width \in 0 .. INT_HEX_DIGITS
    <2>1. PowerOfHex[saturated] \in 0 .. 8
      BY <1>2, PowerOfHexRange DEF INT_HEX_DIGITS
    <2>2. saturated - SIZEOF_TWO_CRLF + PowerOfHex[saturated] \in Int
      BY <1>2, <2>1 DEF SIZEOF_TWO_CRLF, SIZEOF_CRLF
    <2> QED
      BY <2>2, PowerOfHexRange
  <1> HIDE DEF width
  <1>5. space - delim \in Int /\ space - delim > 0
    BY <1>4 DEF SIZEOF_TWO_CRLF, SIZEOF_CRLF, INT_HEX_DIGITS
  <1>6. toread = IF saturated <= 0 \/ space - delim <= 0 THEN 0 ELSE Smaller(saturated, space - delim)
    BY <1>2, <1>5, SaturateIsMin
  <1>7. delim \in SIZEOF_TWO_CRLF .. SIZEOF_TWO_CRLF + INT_HEX_DIGITS
    BY <1>4 DEF SIZEOF_TWO_CRLF, SIZEOF_CRLF, INT_HEX_DIGITS
  <1> HIDE DEF toread, delim
  <1>8. /\ toread \in Nat
        /\ delim + toread <= space
        /\ left > 0 => toread > 0 /\ toread <= left
        /\ left <= 0 => toread = 0
    BY <1>1, <1>2, <1>5, <1>6, <1>7
    DEF Smaller, SIZEOF_TWO_CRLF, SIZEOF_CRLF, INT_HEX_DIGITS
  <1>9. (delim - SIZEOF_CRLF) + toread + SIZEOF_CRLF + 1 <= space + 1
    BY <1>7, <1>8 DEF SIZEOF_TWO_CRLF, SIZEOF_CRLF, INT_HEX_DIGITS
  <1> QED
    BY <1>3, <1>7, <1>8, <1>9 DEF chunk

-----------------------------------------------------------------------------
(* The invariant.                                                           *)

\* The output buffer holds nothing of this call unless a write was interrupted.
PendingInv == ~out_left => pending = Nothing

\* Until its first step the call finds the stream as the last one left it.
FirstInv == send_pc = "first" => (out_left <=> found_left)

\* NETWORK_ERROR is only returned at the end, over a write that did not succeed.
RetInv == ret # 0 => send_pc = "done" /\ (~link \/ out_left)

Inv ==
    /\ TypeOK
    /\ HeaderNeverRefused
    /\ BodyInStepWithFile
    /\ CountsAgree
    /\ PendingInv
    /\ FirstInv
    /\ RetInv

LEMMA IntOfType ==
    ASSUME TypeOK
    PROVE  /\ IntOf(static_file_size) \in Int
           /\ file_len \in Nat
  BY SizesAssumption DEF TypeOK, InputsType, FileType, IntOf

\* fread delivers at most what was asked for, and no more than there is.
LEMMA FreadBounds ==
    ASSUME TypeOK, NEW request \in Nat
    PROVE  /\ Fread(request) \in 0 .. request
           /\ file_pos <= file_len => /\ file_pos + Fread(request) <= file_len
                                      /\ file_pos + request <= file_len => Fread(request) = request
                                      /\ request > 0 /\ Fread(request) = 0 => file_pos = file_len
           /\ file_pos > file_len => Fread(request) = 0
  BY IntOfType DEF Fread, Smaller, AtLeastZero, TypeOK, FileType

\* A header and what SendStaticData appends to it fits in MAX_CHUNK_SIZE.
LEMMA HeaderLenBounds ==
    ASSUME TypeOK
    PROVE  /\ header_len \in Nat \ {0} /\ MAX_CHUNK_SIZE \in Nat
           /\ MAX_CHUNK_SIZE - header_len > SIZEOF_TWO_CRLF + INT_HEX_DIGITS
           /\ MAX_CHUNK_SIZE > SIZEOF_TWO_CRLF + INT_HEX_DIGITS
  BY SizesAssumption, HeaderLensAssumption
  DEF TypeOK, InputsType, SIZEOF_TWO_CRLF, SIZEOF_CRLF, INT_HEX_DIGITS

(***************************************************************************)
(* What a write of some contents does, whatever its result: they are sent  *)
(* or wait in the output buffer, or are counted as lost, or the connection *)
(* is over.                                                                *)
(***************************************************************************)
Sends(what) ==
    \/ link' = FALSE /\ UNCHANGED wire
    \/ /\ link /\ link' = TRUE
       /\ WireType' /\ out_left' \in BOOLEAN /\ PendingInv'
       /\ headers' + pending'.headers
            >= headers + pending.headers + (IF out_left THEN 0 ELSE what.headers)
       /\ body_sent' + pending'.body <= body_sent + pending.body + what.body
       /\ body_sent + pending.body + lost + what.body <= body_sent' + pending'.body + lost'

LEMMA WriteSends ==
    ASSUME TypeOK, PendingInv, NEW result \in WriteResults,
           NEW prefix \in Nat, NEW what \in Contents, NEW suffix \in Nat,
           Write(result, prefix, what, suffix)
    PROVE  /\ Sends(what)
           /\ result # "sent" => ~link' \/ out_left'
  <1> DEFINE len   == prefix + what.body + suffix
             taken == IF out_left THEN 0 ELSE Smaller(len, fragment)
             kept  == AtLeastZero(Smaller(what.body, taken - prefix))
             first == IF out_left THEN pending ELSE [what EXCEPT !.body = kept]
  <1>1. /\ \/ result = "failed" /\ link' = FALSE /\ UNCHANGED wire
           \/ /\ result = "sent" /\ link /\ link' = TRUE
              /\ headers' = headers + first.headers /\ body_sent' = body_sent + first.body
              /\ bad_chunks' = bad_chunks + first.bad_chunks
              /\ endings' = endings + first.endings
              /\ lost' = lost + (len - taken)
              /\ out_left' = FALSE /\ pending' = Nothing
           \/ /\ result = "interrupted" /\ link /\ link' = TRUE
              /\ lost' = lost + (len - taken)
              /\ out_left' = TRUE /\ pending' = first
              /\ UNCHANGED <<headers, body_sent, bad_chunks, endings>>
    BY DEF Write
  <1>2. /\ len \in Nat /\ what.body \in Nat /\ what.headers \in Nat
        /\ what.bad_chunks \in Nat /\ what.endings \in Nat
    BY DEF Contents
  <1>3. fragment \in Nat \ {0} /\ out_left \in BOOLEAN
    BY SizesAssumption DEF TypeOK, InputsType, FlagsType
  <1>4. /\ taken \in 0 .. len
        /\ kept \in 0 .. what.body
        /\ ~out_left => what.body - kept <= len - taken
    BY <1>2, <1>3 DEF Smaller, AtLeastZero
  <1>5. pending \in Contents /\ (~out_left => pending = Nothing)
    BY DEF TypeOK, WireType, PendingInv
  <1>6. [what EXCEPT !.body = kept] \in Contents
    BY <1>4 DEF Contents
  <1>7. first \in Contents
    BY <1>5, <1>6
  <1>8. /\ out_left => first = pending
        /\ ~out_left => /\ first.headers = what.headers /\ first.body = kept
                        /\ pending.headers = 0 /\ pending.body = 0
    BY <1>5 DEF Contents, Nothing
  <1> HIDE DEF len, taken, kept, first
  <1>9. /\ headers \in Nat /\ body_sent \in Nat /\ bad_chunks \in Nat
        /\ endings \in Nat /\ lost \in Nat
    BY DEF TypeOK, WireType
  <1>10. /\ first.headers \in Nat /\ first.body \in Nat
         /\ first.bad_chunks \in Nat /\ first.endings \in Nat
         /\ pending.headers \in Nat /\ pending.body \in Nat
    BY <1>5, <1>7 DEF Contents
  <1>11. /\ first.headers >= pending.headers + (IF out_left THEN 0 ELSE what.headers)
         /\ first.body <= pending.body + what.body
         /\ pending.body + what.body <= first.body + (len - taken)
    <2>1. CASE out_left
      <3>1. taken = 0 /\ what.body <= len
        BY <2>1, <1>2 DEF taken, len
      <3> QED
        BY <2>1, <3>1, <1>2, <1>8, <1>10
    <2>2. CASE ~out_left
      BY <2>2, <1>2, <1>4, <1>8, <1>10
    <2> QED
      BY <2>1, <2>2
  <1>12. Nothing \in Contents /\ Nothing.headers = 0 /\ Nothing.body = 0
    BY DEF Nothing, Contents
  <1>13. CASE result = "failed"
    BY <1>1, <1>13 DEF Sends
  <1>14. CASE result = "sent"
    <2>1. /\ link /\ link' = TRUE
          /\ headers' = headers + first.headers /\ body_sent' = body_sent + first.body
          /\ bad_chunks' = bad_chunks + first.bad_chunks
          /\ endings' = endings + first.endings
          /\ lost' = lost + (len - taken)
          /\ out_left' = FALSE /\ pending' = Nothing
      BY <1>1, <1>14
    <2>2. WireType' /\ out_left' \in BOOLEAN /\ PendingInv'
      <3>1. /\ headers' \in Nat /\ body_sent' \in Nat /\ bad_chunks' \in Nat
            /\ endings' \in Nat /\ lost' \in Nat
        BY <2>1, <1>2, <1>4, <1>9, <1>10
      <3>2. WireType'
        BY <2>1, <3>1, <1>12 DEF WireType
      <3>3. out_left' \in BOOLEAN /\ PendingInv'
        BY <2>1 DEF PendingInv
      <3> QED
        BY <3>2, <3>3
    <2>3. pending'.headers = 0 /\ pending'.body = 0
      BY <2>1, <1>12
    <2>4. /\ headers' + pending'.headers
                >= headers + pending.headers + (IF out_left THEN 0 ELSE what.headers)
          /\ body_sent' + pending'.body <= body_sent + pending.body + what.body
          /\ body_sent + pending.body + lost + what.body <= body_sent' + pending'.body + lost'
      BY <2>1, <2>3, <1>2, <1>4, <1>9, <1>10, <1>11
    <2> QED
      BY <2>1, <2>2, <2>4, <1>14 DEF Sends
  <1>15. CASE result = "interrupted"
    <2>1. /\ link /\ link' = TRUE
          /\ lost' = lost + (len - taken)
          /\ out_left' = TRUE /\ pending' = first
          /\ UNCHANGED <<headers, body_sent, bad_chunks, endings>>
      BY <1>1, <1>15
    <2>2. WireType' /\ out_left' \in BOOLEAN /\ PendingInv'
      BY <2>1, <1>2, <1>4, <1>7, <1>9 DEF WireType, PendingInv
    <2>3. /\ headers' + pending'.headers
                >= headers + pending.headers + (IF out_left THEN 0 ELSE what.headers)
          /\ body_sent' + pending'.body <= body_sent + pending.body + what.body
          /\ body_sent + pending.body + lost + what.body <= body_sent' + pending'.body + lost'
      BY <2>1, <1>2, <1>4, <1>9, <1>10, <1>11
    <2> QED
      BY <2>1, <2>2, <2>3 DEF Sends
  <1> QED
    BY <1>13, <1>14, <1>15 DEF WriteResults

\* What the call hands to Write.
LEMMA ContentsWritten ==
    ASSUME NEW amount \in Nat
    PROVE  /\ FileData(amount) \in Contents /\ FileData(amount).body = amount
           /\ \A chunk : ChunkData(chunk, amount) \in Contents /\ ChunkData(chunk, amount).body = amount
           /\ Nothing \in Contents /\ Nothing.body = 0
           /\ [Nothing EXCEPT !.endings = 1] \in Contents
           /\ [Nothing EXCEPT !.endings = 1].body = 0
  BY DEF FileData, ChunkData, Nothing, Contents

LEMMA InitInv == Init => Inv
  <1> SUFFICES ASSUME Init PROVE Inv
    OBVIOUS
  <1>1. PICK size \in FileSizes \cup {LONG_MAX}, len \in FileSizes \cup {0} :
            /\ Opened(size, len)
            /\ len = AtLeastZero(IntOf(size))
    <2>1. CASE \E size \in FileSizes : Opened(size, size)
      <3>1. PICK size \in FileSizes : Opened(size, size)
        BY <2>1
      <3>2. size = AtLeastZero(IntOf(size))
        BY SizesAssumption DEF AtLeastZero, IntOf
      <3> QED
        BY <3>1, <3>2
    <2>2. CASE Opened(LONG_MAX, 0)
      BY <2>2 DEF AtLeastZero, IntOf
    <2> QED
      BY <2>1, <2>2 DEF Init
  <1>2. FlagsType
    BY <1>1 DEF Init, Opened, FlagsType
  <1>3. InputsType /\ FileType /\ CallType /\ WireType
    BY <1>1 DEF Init, Opened, InputsType, FileType, CallType, WireType, Contents, Nothing
  <1>4. len \in Nat
    BY <1>1, SizesAssumption
  <1>5. CountsAgree
    BY <1>1, <1>4 DEF Init, Opened, CountsAgree
  <1>6. HeaderNeverRefused /\ BodyInStepWithFile
    BY <1>1 DEF Init, Opened, HeaderNeverRefused, BodyInStepWithFile, Nothing
  <1>7. PendingInv /\ FirstInv /\ RetInv
    BY DEF Init, PendingInv, FirstInv, RetInv
  <1> QED
    BY <1>2, <1>3, <1>5, <1>6, <1>7 DEF Inv, TypeOK


\* A header with data that fits is written with them.
LEMMA HeaderSends ==
    ASSUME Inv, NEW result \in WriteResults,
           NEW prefix \in Nat, NEW what \in Contents, NEW suffix \in Nat,
           header_len + prefix + what.body + suffix <= MAX_CHUNK_SIZE,
           SendHttpHeader(result, prefix, what, suffix)
    PROVE  Sends([what EXCEPT !.headers = 1])
  <1> DEFINE all == [what EXCEPT !.headers = 1]
  <1>1. header_len \in Nat \ {0} /\ MAX_CHUNK_SIZE \in Nat
    BY HeaderLenBounds DEF Inv
  <1>2. what.body \in Nat /\ all \in Contents
    BY DEF Contents
  <1>3. HeaderFits(prefix + what.body + suffix)
    BY <1>1, <1>2 DEF HeaderFits
  <1>4. Write(result, (header_len - 1) + prefix, all, suffix)
    BY <1>3 DEF SendHttpHeader
  <1> HIDE DEF all
  <1>5. (header_len - 1) + prefix \in Nat
    BY <1>1
  <1>6. Sends(all)
    BY <1>2, <1>4, <1>5, WriteSends DEF Inv
  <1> QED
    BY <1>6 DEF all

\* The parts of the invariant that hold whatever the file does.
LEMMA StreamInv ==
    ASSUME Inv, NEW what \in Contents, Sends(what),
           file_pos' = file_pos + what.body,
           UNCHANGED <<inputs, file_len, touched>>,
           overrun' \in BOOLEAN, total_data_size' \in Int,
           send_pc' \in {"loop", "ending", "done"}, ret' \in {0, NETWORK_ERROR},
           send_pc = "first" => what.headers > 0,
           ret' # 0 => send_pc' = "done" /\ (~link' \/ out_left')
    PROVE  TypeOK' /\ HeaderNeverRefused' /\ BodyInStepWithFile' /\ PendingInv' /\ FirstInv' /\ RetInv'
  <1> USE DEF Inv
  <1>1. link' \in BOOLEAN /\ out_left' \in BOOLEAN
    BY DEF Sends, TypeOK, FlagsType, wire
  <1>2. FlagsType'
    BY <1>1 DEF TypeOK, FlagsType, inputs
  <1>3. WireType'
    BY DEF TypeOK, WireType, Sends, wire
  <1>4. what.body \in Nat /\ what.headers \in Nat
    BY DEF Contents
  <1>5. InputsType' /\ FileType' /\ CallType'
    BY <1>4 DEF TypeOK, InputsType, FileType, CallType, inputs
  <1>6. /\ headers \in Nat /\ body_sent \in Nat /\ lost \in Nat /\ file_pos \in Nat
        /\ pending.headers \in Nat /\ pending.body \in Nat
    BY DEF TypeOK, WireType, FileType, Contents
  <1>7. /\ headers' \in Nat /\ body_sent' \in Nat /\ lost' \in Nat
        /\ pending'.headers \in Nat /\ pending'.body \in Nat
    BY <1>3 DEF WireType, Contents
  <1>8. HeaderNeverRefused'
    <2> SUFFICES ASSUME link', ~found_left' PROVE headers' + pending'.headers > 0
      BY DEF HeaderNeverRefused
    <2>1. /\ link
          /\ headers' + pending'.headers
               >= headers + pending.headers + (IF out_left THEN 0 ELSE what.headers)
      BY DEF Sends
    <2>2. ~found_left
      BY DEF inputs
    <2>3. CASE send_pc = "first"
      BY <2>1, <2>2, <2>3, <1>4, <1>6, <1>7 DEF FirstInv
    <2>4. CASE send_pc # "first"
      BY <2>1, <2>2, <2>4, <1>4, <1>6, <1>7 DEF HeaderNeverRefused
    <2> QED
      BY <2>3, <2>4
  <1>9. BodyInStepWithFile'
    <2>1. CASE link' = FALSE /\ UNCHANGED wire
      BY <2>1, <1>4, <1>6 DEF BodyInStepWithFile, wire
    <2>2. CASE /\ link
               /\ body_sent' + pending'.body <= body_sent + pending.body + what.body
               /\ body_sent + pending.body + lost + what.body
                     <= body_sent' + pending'.body + lost'
      BY <2>2, <1>4, <1>6, <1>7 DEF BodyInStepWithFile
    <2> QED
      BY <2>1, <2>2 DEF Sends
  <1>10. PendingInv'
    BY DEF PendingInv, Sends, wire
  <1>11. FirstInv' /\ RetInv'
    BY DEF FirstInv, RetInv
  <1> QED
    BY <1>2, <1>3, <1>5, <1>8, <1>9, <1>10, <1>11 DEF TypeOK

-----------------------------------------------------------------------------
(* The steps of SendStaticData.                                             *)

LEMMA FirstPlainInv ==
    ASSUME Inv, First, FirstPlain
    PROVE  Inv'
  <1> DEFINE amount == Fread(MAX_CHUNK_SIZE - header_len)
             sent   == [FileData(amount) EXCEPT !.headers = 1]
  <1> USE DEF Inv
  <1>1. header_len \in Nat \ {0} /\ MAX_CHUNK_SIZE - header_len \in Nat \ {0}
    BY HeaderLenBounds DEF SIZEOF_TWO_CRLF, SIZEOF_CRLF, INT_HEX_DIGITS
  <1>2. /\ amount \in 0 .. MAX_CHUNK_SIZE - header_len
        /\ file_pos <= file_len => file_pos + amount <= file_len
    BY <1>1, FreadBounds
  <1>3. /\ ~isChunkEncoding /\ send_pc = "first"
        /\ file_pos' = file_pos + amount
        /\ total_data_size' = IntOf(static_file_size)
        /\ send_pc' = IF total_data_size' > 0 THEN "loop" ELSE "ending"
        /\ UNCHANGED <<inputs, file_len, touched, ret, overrun>>
    BY DEF First, FirstPlain
  <1>4. PICK result \in WriteResults : SendHttpHeader(result, 0, FileData(amount), 0)
    BY DEF FirstPlain
  <1>5. /\ FileData(amount) \in Contents /\ FileData(amount).body = amount
        /\ sent \in Contents /\ sent.body = amount /\ sent.headers = 1
    BY <1>2, ContentsWritten DEF Contents
  <1>6. 0 \in Nat /\ header_len + 0 + FileData(amount).body + 0 <= MAX_CHUNK_SIZE
    BY <1>1, <1>2, <1>5, HeaderLenBounds
  <1>7. Sends(sent)
    BY <1>4, <1>5, <1>6, HeaderSends
  <1> HIDE DEF amount, sent
  <1>8. ret' = 0
    BY <1>3 DEF RetInv
  <1>9. TypeOK' /\ HeaderNeverRefused' /\ BodyInStepWithFile' /\ PendingInv' /\ FirstInv' /\ RetInv'
    BY <1>3, <1>5, <1>7, <1>8, IntOfType, StreamInv DEF TypeOK, FlagsType
  <1>10. CountsAgree'
    BY <1>2, <1>3, IntOfType DEF CountsAgree, TypeOK, FileType, AtLeastZero, inputs
  <1> QED
    BY <1>9, <1>10

LEMMA FirstChunkedInv ==
    ASSUME Inv, First, FirstChunked
    PROVE  Inv'
  <1> DEFINE left   == IntOf(static_file_size)
             space  == MAX_CHUNK_SIZE - header_len
             chunk  == ComputeChunkEncodingData(left, space)
             amount == Fread(chunk.toread)
             data   == ChunkData(chunk, amount)
             sent   == [data EXCEPT !.headers = 1]
  <1> USE DEF Inv
  <1>1. /\ header_len \in Nat \ {0} /\ space \in Int
        /\ space > SIZEOF_TWO_CRLF + INT_HEX_DIGITS
    BY HeaderLenBounds
  <1>2. left \in Int /\ file_len \in Nat
    BY IntOfType
  <1>3. /\ isChunkEncoding /\ send_pc = "first"
        /\ file_pos' = file_pos + amount
        /\ total_data_size' = chunk.total
        /\ send_pc' = IF total_data_size' > 0 THEN "loop" ELSE "ending"
        /\ UNCHANGED <<inputs, file_len, touched, ret>>
        /\ overrun' \in BOOLEAN
    BY DEF First, FirstChunked, Overruns, TypeOK, FlagsType
  <1>4. /\ chunk.delim \in SIZEOF_TWO_CRLF .. SIZEOF_TWO_CRLF + INT_HEX_DIGITS
        /\ chunk.toread \in Nat
        /\ chunk.delim + chunk.toread <= space
        /\ left > 0 => chunk.toread > 0 /\ chunk.toread <= left
        /\ left <= 0 => chunk.toread = 0
        /\ chunk.total = left - chunk.toread
        /\ chunk.total \in Int
    BY <1>1, <1>2, ChunkBounds
  <1>5. /\ amount \in 0 .. chunk.toread
        /\ file_pos <= file_len => /\ file_pos + amount <= file_len
                                   /\ file_pos + chunk.toread <= file_len => amount = chunk.toread
    BY <1>4, FreadBounds
  <1>6. PICK result \in WriteResults :
            SendHttpHeader(result, chunk.delim - SIZEOF_CRLF, data, SIZEOF_CRLF)
    BY DEF FirstChunked
  <1>7. data \in Contents /\ data.body = amount
    BY <1>5, ContentsWritten
  <1> HIDE DEF amount, chunk, left, data
  <1>8. sent \in Contents /\ sent.body = amount /\ sent.headers = 1
    BY <1>5, <1>7 DEF Contents
  <1>9. /\ chunk.delim - SIZEOF_CRLF \in Nat /\ SIZEOF_CRLF \in Nat
        /\ header_len + (chunk.delim - SIZEOF_CRLF) + data.body + SIZEOF_CRLF <= MAX_CHUNK_SIZE
    BY <1>1, <1>4, <1>5, <1>7, HeaderLenBounds DEF SIZEOF_TWO_CRLF, SIZEOF_CRLF, INT_HEX_DIGITS
  <1>10. Sends(sent)
    BY <1>6, <1>7, <1>9, HeaderSends
  <1> HIDE DEF sent
  <1>11. ret' = 0
    BY <1>3 DEF RetInv
  <1>12. TypeOK' /\ HeaderNeverRefused' /\ BodyInStepWithFile' /\ PendingInv' /\ FirstInv' /\ RetInv'
    BY <1>3, <1>4, <1>8, <1>10, <1>11, StreamInv
  <1>13. CountsAgree'
    <2> SUFFICES ASSUME ~touched' PROVE CountsAgree'
      BY DEF CountsAgree
    <2>1. file_len = AtLeastZero(left) /\ file_pos = 0
      BY <1>3 DEF CountsAgree, left
    <2>2. amount = chunk.toread
      BY <1>2, <1>4, <1>5, <2>1 DEF AtLeastZero
    <2>3. IntOf(static_file_size)' = left
      BY <1>3 DEF left, inputs, IntOf
    <2> QED
      BY <1>2, <1>3, <1>4, <2>1, <2>2, <2>3 DEF CountsAgree, AtLeastZero
  <1> QED
    BY <1>12, <1>13

\* The turn of the loop ends the call with NETWORK_ERROR only over a write that
\* did not succeed.
LEMMA LoopTestEnds ==
    ASSUME Inv, send_pc = "loop", NEW result \in WriteResults, NEW amount \in Nat,
           LoopTest(result, amount),
           result # "sent" => ~link' \/ out_left'
    PROVE  /\ send_pc' \in {"loop", "ending", "done"} /\ ret' \in {0, NETWORK_ERROR}
           /\ ret' # 0 => send_pc' = "done" /\ (~link' \/ out_left')
           /\ send_pc' = "ending" => amount = 0
           /\ send_pc' = "done" => ret' # 0
  <1>1. ret = 0
    BY DEF Inv, RetInv
  <1>2. CASE result = "sent"
    BY <1>1, <1>2 DEF LoopTest
  <1>3. CASE result # "sent"
    BY <1>3 DEF LoopTest, NETWORK_ERROR
  <1> QED
    BY <1>2, <1>3

LEMMA LoopPlainInv ==
    ASSUME Inv, Loop, LoopPlain
    PROVE  Inv'
  <1> DEFINE amount == Fread(MAX_CHUNK_SIZE)
  <1> USE DEF Inv
  <1>1. MAX_CHUNK_SIZE \in Nat \ {0}
    BY HeaderLenBounds DEF SIZEOF_TWO_CRLF, SIZEOF_CRLF, INT_HEX_DIGITS
  <1>2. /\ amount \in Nat
        /\ file_pos <= file_len => /\ file_pos + amount <= file_len
                                   /\ amount = 0 => file_pos = file_len
    BY <1>1, FreadBounds
  <1>3. /\ ~isChunkEncoding /\ send_pc = "loop"
        /\ file_pos' = file_pos + amount
        /\ UNCHANGED <<inputs, file_len, touched, total_data_size, overrun>>
    BY DEF Loop, LoopPlain
  <1>4. PICK result \in WriteResults :
            Write(result, 0, FileData(amount), 0) /\ LoopTest(result, amount)
    BY DEF LoopPlain
  <1> HIDE DEF amount
  <1>5. FileData(amount) \in Contents /\ FileData(amount).body = amount
    BY <1>2, ContentsWritten
  <1>6. /\ Sends(FileData(amount))
        /\ result # "sent" => ~link' \/ out_left'
    BY <1>4, <1>5, WriteSends
  <1>7. /\ send_pc' \in {"loop", "ending", "done"} /\ ret' \in {0, NETWORK_ERROR}
        /\ ret' # 0 => send_pc' = "done" /\ (~link' \/ out_left')
        /\ send_pc' = "ending" => amount = 0
        /\ send_pc' = "done" => ret' # 0
    BY <1>2, <1>3, <1>4, <1>6, LoopTestEnds
  <1>8. TypeOK' /\ HeaderNeverRefused' /\ BodyInStepWithFile' /\ PendingInv' /\ FirstInv' /\ RetInv'
    BY <1>3, <1>5, <1>6, <1>7, StreamInv DEF TypeOK, CallType, FlagsType
  <1>9. CountsAgree'
    BY <1>2, <1>3, <1>7 DEF CountsAgree, TypeOK, FileType, inputs, IntOf
  <1> QED
    BY <1>8, <1>9

LEMMA LoopChunkedInv ==
    ASSUME Inv, Loop, LoopChunked
    PROVE  Inv'
  <1> DEFINE chunk  == ComputeChunkEncodingData(total_data_size, MAX_CHUNK_SIZE)
             amount == Fread(chunk.toread)
             data   == ChunkData(chunk, amount)
  <1> USE DEF Inv
  <1>1. /\ total_data_size \in Int /\ MAX_CHUNK_SIZE \in Int
        /\ MAX_CHUNK_SIZE > SIZEOF_TWO_CRLF + INT_HEX_DIGITS
    BY HeaderLenBounds DEF TypeOK, CallType
  <1>2. /\ chunk.delim \in SIZEOF_TWO_CRLF .. SIZEOF_TWO_CRLF + INT_HEX_DIGITS
        /\ chunk.toread \in Nat
        /\ total_data_size > 0 => chunk.toread > 0 /\ chunk.toread <= total_data_size
        /\ total_data_size <= 0 => chunk.toread = 0
        /\ chunk.total = total_data_size - chunk.toread
        /\ chunk.total \in Int
    BY <1>1, ChunkBounds
  <1>3. /\ amount \in Nat
        /\ file_pos <= file_len => /\ file_pos + amount <= file_len
                                   /\ file_pos + chunk.toread <= file_len => amount = chunk.toread
    BY <1>2, FreadBounds
  <1>4. /\ isChunkEncoding /\ send_pc = "loop"
        /\ file_pos' = file_pos + amount
        /\ total_data_size' = chunk.total
        /\ UNCHANGED <<inputs, file_len, touched>>
        /\ overrun' \in BOOLEAN
    BY DEF Loop, LoopChunked, Overruns, TypeOK, FlagsType
  <1>5. PICK result \in WriteResults :
            /\ Write(result, chunk.delim - SIZEOF_CRLF, data, SIZEOF_CRLF)
            /\ LoopTest(result, amount)
    BY DEF LoopChunked
  <1>6. data \in Contents /\ data.body = amount
    BY <1>3, ContentsWritten
  <1> HIDE DEF amount, chunk, data
  <1>7. chunk.delim - SIZEOF_CRLF \in Nat /\ SIZEOF_CRLF \in Nat
    BY <1>2 DEF SIZEOF_TWO_CRLF, SIZEOF_CRLF, INT_HEX_DIGITS
  <1>8. /\ Sends(data)
        /\ result # "sent" => ~link' \/ out_left'
    BY <1>5, <1>6, <1>7, WriteSends
  <1>9. /\ send_pc' \in {"loop", "ending", "done"} /\ ret' \in {0, NETWORK_ERROR}
        /\ ret' # 0 => send_pc' = "done" /\ (~link' \/ out_left')
        /\ send_pc' = "ending" => amount = 0
        /\ send_pc' = "done" => ret' # 0
    BY <1>3, <1>4, <1>5, <1>8, LoopTestEnds
  <1>10. TypeOK' /\ HeaderNeverRefused' /\ BodyInStepWithFile' /\ PendingInv' /\ FirstInv' /\ RetInv'
    BY <1>2, <1>4, <1>6, <1>8, <1>9, StreamInv
  <1>11. CountsAgree'
    <2> SUFFICES ASSUME ~touched' PROVE CountsAgree'
      BY DEF CountsAgree
    <2>1. /\ file_len = AtLeastZero(IntOf(static_file_size))
          /\ file_pos <= file_len
          /\ total_data_size = file_len - file_pos
      BY <1>4 DEF CountsAgree
    <2>2. amount = chunk.toread
      BY <1>1, <1>2, <1>3, <2>1, IntOfType DEF TypeOK, FileType
    <2>3. IntOf(static_file_size)' = IntOf(static_file_size)
      BY <1>4 DEF inputs, IntOf
    <2> QED
      BY <1>1, <1>2, <1>3, <1>4, <1>9, <2>1, <2>2, <2>3, IntOfType
      DEF CountsAgree, TypeOK, FileType
  <1> QED
    BY <1>10, <1>11

LEMMA EndingInv ==
    ASSUME Inv, Ending
    PROVE  Inv'
  <1> USE DEF Inv
  <1>1. /\ send_pc = "ending" /\ send_pc' = "done" /\ ret' = 0
        /\ UNCHANGED <<inputs, file, total_data_size, overrun>>
    BY DEF Ending
  <1>2. PICK what \in Contents : what.body = 0 /\ Sends(what)
    <2>1. CASE \E result \in WriteResults : Write(result, 5, [Nothing EXCEPT !.endings = 1], 0)
      BY <2>1, ContentsWritten, WriteSends
    <2>2. CASE \E result \in WriteResults : SendHttpHeader(result, 0, Nothing, 0)
      <3>1. Nothing \in Contents /\ Nothing.body = 0
        BY ContentsWritten
      <3>2. header_len + 0 + Nothing.body + 0 <= MAX_CHUNK_SIZE /\ 0 \in Nat
        BY <3>1, HeaderLenBounds DEF SIZEOF_TWO_CRLF, SIZEOF_CRLF, INT_HEX_DIGITS
      <3>3. Sends([Nothing EXCEPT !.headers = 1])
        BY <2>2, <3>1, <3>2, HeaderSends
      <3>4. /\ [Nothing EXCEPT !.headers = 1] \in Contents
            /\ [Nothing EXCEPT !.headers = 1].body = 0
        BY DEF Nothing, Contents
      <3> QED
        BY <3>3, <3>4
    <2>3. CASE UNCHANGED <<link, wire>>
      <3>1. Nothing \in Contents /\ Nothing.body = 0 /\ Nothing.headers = 0
        BY DEF Nothing, Contents
      <3>2. link \in BOOLEAN /\ out_left \in BOOLEAN
        BY DEF TypeOK, FlagsType
      <3>3. CASE link
        <4>1. WireType' /\ out_left' \in BOOLEAN /\ PendingInv' /\ link' = TRUE
          BY <2>3, <3>2, <3>3 DEF TypeOK, WireType, PendingInv, wire
        <4>2. /\ headers \in Nat /\ body_sent \in Nat /\ lost \in Nat
              /\ pending.headers \in Nat /\ pending.body \in Nat
          BY DEF TypeOK, WireType, Contents
        <4>3. Sends(Nothing)
          BY <2>3, <3>1, <3>3, <4>1, <4>2 DEF Sends, wire
        <4> QED
          BY <3>1, <4>3
      <3>4. CASE ~link
        BY <2>3, <3>1, <3>2, <3>4 DEF Sends
      <3> QED
        BY <3>3, <3>4
    <2> QED
      BY <2>1, <2>2, <2>3 DEF Ending
  <1>3. file_pos' = file_pos + what.body
    BY <1>1, <1>2 DEF file, TypeOK, FileType
  <1>4. TypeOK' /\ HeaderNeverRefused' /\ BodyInStepWithFile' /\ PendingInv' /\ FirstInv' /\ RetInv'
    BY <1>1, <1>2, <1>3, StreamInv DEF TypeOK, CallType, FlagsType, file
  <1>5. CountsAgree'
    BY <1>1 DEF CountsAgree, file, inputs, IntOf
  <1> QED
    BY <1>4, <1>5

LEMMA FileChangesInv ==
    ASSUME Inv, FileChanges
    PROVE  Inv'
  <1> USE DEF Inv
  <1>1. /\ file_len' \in FileSizes /\ touched' = TRUE
        /\ UNCHANGED <<inputs, file_pos, call, link, wire>>
    BY DEF FileChanges
  <1>2. FlagsType'
    BY <1>1 DEF TypeOK, FlagsType, inputs, call, wire
  <1>3. InputsType' /\ FileType' /\ CallType' /\ WireType'
    BY <1>1 DEF TypeOK, InputsType, FileType, CallType, WireType, inputs, call, wire
  <1>4. HeaderNeverRefused' /\ BodyInStepWithFile' /\ CountsAgree'
    BY <1>1 DEF HeaderNeverRefused, BodyInStepWithFile, CountsAgree, inputs, call, wire
  <1>5. PendingInv' /\ FirstInv' /\ RetInv'
    BY <1>1 DEF PendingInv, FirstInv, RetInv, inputs, call, wire
  <1> QED
    BY <1>2, <1>3, <1>4, <1>5 DEF TypeOK

LEMMA StutterInv ==
    ASSUME Inv, UNCHANGED vars
    PROVE  Inv'
  <1> USE DEF Inv, vars
  <1>1. FlagsType'
    BY DEF TypeOK, FlagsType, inputs, file, call, wire
  <1>2. InputsType' /\ FileType' /\ CallType' /\ WireType'
    BY DEF TypeOK, InputsType, FileType, CallType, WireType, inputs, file, call, wire
  <1>3. HeaderNeverRefused' /\ BodyInStepWithFile'
    BY DEF HeaderNeverRefused, BodyInStepWithFile, inputs, file, call, wire
  <1>4. PendingInv' /\ FirstInv' /\ RetInv'
    BY DEF PendingInv, FirstInv, RetInv, inputs, call, wire
  <1>5. CountsAgree'
    BY DEF CountsAgree, IntOf, inputs, file, call
  <1> QED
    BY <1>1, <1>2, <1>3, <1>4, <1>5 DEF TypeOK

\* A call that is over and was not disturbed has sent the whole file.
LEMMA InvGivesBody == Inv => BodyComplete
  <1> SUFFICES ASSUME Inv, send_pc = "done", Undisturbed, ~touched
               PROVE  ret = 0 /\ body_sent = AtLeastZero(IntOf(static_file_size))
    BY DEF BodyComplete
  <1>1. ret = 0
    BY DEF Inv, RetInv, Undisturbed
  <1>2. file_pos = file_len
    BY <1>1 DEF Inv, CountsAgree
  <1>3. pending.body = 0
    BY DEF Inv, PendingInv, Undisturbed, Nothing
  <1>4. body_sent = file_pos
    BY <1>3 DEF Inv, BodyInStepWithFile, Undisturbed, TypeOK, WireType, FileType
  <1> QED
    BY <1>1, <1>2, <1>4 DEF Inv, CountsAgree

-----------------------------------------------------------------------------
(* How a response ends that was written with its results looked at.         *)

(***************************************************************************)
(* The result of every write of the loop is looked at, so the loop of a    *)
(* plain response ends over a record that was sent; with keep-alive        *)
(* nothing is written after it.                                            *)
(***************************************************************************)
CheckedInv ==
    (/\ ~isChunkEncoding /\ IntOf(static_file_size) > 0
     /\ send_pc = "ending" \/ (send_pc = "done" /\ ret = 0 /\ isKeepAlive))
        => ~out_left

LEMMA CheckedStep ==
    ASSUME Inv, CheckedInv, [Next]_vars
    PROVE  CheckedInv'
  <1> SUFFICES ASSUME ~isChunkEncoding', IntOf(static_file_size)' > 0,
                      send_pc' = "ending" \/ (send_pc' = "done" /\ ret' = 0 /\ isKeepAlive')
               PROVE  ~out_left'
    BY DEF CheckedInv
  <1>1. CASE First
    <2>1. ~isChunkEncoding /\ total_data_size' = IntOf(static_file_size)
      BY <1>1 DEF First, FirstPlain, FirstChunked, inputs
    <2>2. IntOf(static_file_size)' = IntOf(static_file_size)
      BY <1>1 DEF First, inputs, IntOf
    <2>3. send_pc' = "loop"
      BY <1>1, <2>1, <2>2 DEF First
    <2> QED
      BY <2>3
  <1>2. CASE Loop
    <2>1. ~isChunkEncoding /\ LoopPlain
      BY <1>2 DEF Loop, LoopChunked, inputs
    <2> DEFINE amount == Fread(MAX_CHUNK_SIZE)
    <2>2. PICK result \in WriteResults :
              Write(result, 0, FileData(amount), 0) /\ LoopTest(result, amount)
      BY <2>1 DEF LoopPlain
    <2>3. result = "sent"
      BY <2>2 DEF LoopTest, NETWORK_ERROR
    <2> QED
      BY <2>2, <2>3 DEF Write
  <1>3. CASE Ending
    <2>1. /\ ~isChunkEncoding /\ isKeepAlive /\ send_pc = "ending"
          /\ IntOf(static_file_size) > 0
      BY <1>3 DEF Ending, inputs, IntOf
    <2>2. out_left' = out_left
      BY <1>3, <2>1 DEF Ending, wire
    <2> QED
      BY <2>1, <2>2 DEF CheckedInv
  <1>4. CASE FileChanges
    BY <1>4 DEF FileChanges, CheckedInv, IntOf, inputs, call, wire
  <1>5. CASE UNCHANGED vars
    BY <1>5 DEF CheckedInv, IntOf, vars, inputs, call, wire
  <1> QED
    BY <1>1, <1>2, <1>3, <1>4, <1>5 DEF Next, SendStaticData

-----------------------------------------------------------------------------
(* The theorems.                                                            *)

\* Inv is an inductive invariant of the call.
THEOREM Invariant == Spec => []Inv
  <1>1. Init => Inv
    BY InitInv
  <1>2. Inv /\ [Next]_vars => Inv'
    <2> SUFFICES ASSUME Inv, [Next]_vars PROVE Inv'
      OBVIOUS
    <2>1. CASE First
      BY <2>1, FirstPlainInv, FirstChunkedInv DEF First
    <2>2. CASE Loop
      BY <2>2, LoopPlainInv, LoopChunkedInv DEF Loop
    <2>3. CASE Ending
      BY <2>3, EndingInv
    <2>4. CASE FileChanges
      BY <2>4, FileChangesInv
    <2>5. CASE UNCHANGED vars
      BY <2>5, StutterInv
    <2> QED
      BY <2>1, <2>2, <2>3, <2>4, <2>5 DEF Next, SendStaticData
  <1> QED
    BY <1>1, <1>2, PTL DEF Spec

\* SendStaticData's variables keep their types, for every file and buffer size.
THEOREM TypeCorrect == Spec => []TypeOK
  <1>1. Inv => TypeOK
    BY DEF Inv
  <1> QED
    BY <1>1, Invariant, PTL

(***************************************************************************)
(* SendHttpHeader never refuses a response header of SendStaticData, whose *)
(* caller would not notice: ComputeChunkEncodingData and the fread of the  *)
(* plain mode leave enough room for it in MAX_CHUNK_SIZE, whatever it is.  *)
(* A header whose write was interrupted goes out with the next one.        *)
(***************************************************************************)
THEOREM HeaderIsSent == Spec => []HeaderNeverRefused
  <1>1. Inv => HeaderNeverRefused
    BY DEF Inv
  <1> QED
    BY <1>1, Invariant, PTL

(***************************************************************************)
(* No byte is sent that was not read from the file, and each one that was  *)
(* read is sent, waits in the output buffer or is counted as lost, with    *)
(* interrupted writes and files that change in length at any moment.       *)
(***************************************************************************)
THEOREM BodyFollowsFile == Spec => []BodyInStepWithFile
  <1>1. Inv => BodyInStepWithFile
    BY DEF Inv
  <1> QED
    BY <1>1, Invariant, PTL

\* total_data_size and the position of static_file agree.
THEOREM CountsStayInStep == Spec => []CountsAgree
  <1>1. Inv => CountsAgree
    BY DEF Inv
  <1> QED
    BY <1>1, Invariant, PTL

(***************************************************************************)
(* SendStaticData sends the whole file, for every length of file, buffer,  *)
(* header and TLS fragment, in both modes.                                 *)
(***************************************************************************)
THEOREM WholeFileIsSent == Spec => []BodyComplete
  BY InvGivesBody, Invariant, PTL

=============================================================================
