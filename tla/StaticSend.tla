------------------------------ MODULE StaticSend ------------------------------
(***************************************************************************)
(* SendStaticData and SendHttpHeader (src/src/http.c): one call, from the  *)
(* building of the response header to the return code.  A step is one      *)
(* mbedtls_ssl_write with the computation and the fread before it, because *)
(* between two writes the peer may reset the connection, SIGINT may come   *)
(* and another process may change the file that is being sent.             *)
(*                                                                         *)
(* Bytes are counted, not represented.  The variables of `wire` are what a *)
(* client has seen of this call on the TLS stream, and what mbedtls still  *)
(* holds of it.                                                            *)
(***************************************************************************)
EXTENDS ChunkEncoding

CONSTANTS MAX_CHUNK_SIZE,  \* include/http.h: bytes of response_buffer
          FileSizes,       \* lengths a static file may have
          HeaderLens,      \* resp.total_byte_length once every field is set
          Fragments,       \* maximum TLS fragment payloads a client may negotiate
          FilesMayChange,  \* do other processes change files while they are sent
          LONG_MAX         \* what ftell reports for a directory

ASSUME SizesAssumption ==
    /\ MAX_CHUNK_SIZE \in Nat
    /\ LONG_MAX \in Nat
    /\ FileSizes \subseteq 0 .. LONG_MAX - 1  \* they fit the int total_data_size
    /\ Fragments \subseteq Nat \ {0}
    /\ FilesMayChange \in BOOLEAN

\* A response header is some text and a NUL, and with the longest chunk delimiters
\* it leaves room for data.
ASSUME HeaderLensAssumption ==
    \A h \in HeaderLens :
        /\ h \in Nat /\ h > 1
        /\ h + SIZEOF_TWO_CRLF + INT_HEX_DIGITS < MAX_CHUNK_SIZE

VARIABLES
    \* thread_data, as the call finds it
    isKeepAlive, isChunkEncoding,
    static_file_size,      \* the size ftell reported when the file was opened
    header_len,            \* resp.total_byte_length
    fragment,              \* what mbedtls_ssl_write takes at most in one call
    found_left,            \* out_left when the call began
    \* the open file
    file_len,              \* its length now
    file_pos,              \* the position of static_file
    touched,               \* has its length changed since it was opened
    \* the call
    send_pc,               \* where SendStaticData is
    total_data_size,       \* its local of that name
    ret,                   \* its return code
    overrun,               \* a chunk form was written past response_buffer
    \* the TLS stream
    link,                  \* FALSE after an mbedtls_ssl_write failed
    headers,               \* response headers sent
    body_sent,             \* bytes of the file sent
    bad_chunks,            \* chunks whose size line is not their length
    endings,               \* "0\r\n\r\n" sent
    lost,                  \* bytes that were handed over and never will be sent
    \* the output buffer of mbedtls
    out_left,              \* does it hold a record whose write was interrupted
    pending                \* what of this call is in that record

inputs == <<isKeepAlive, isChunkEncoding, static_file_size, header_len, fragment, found_left>>
file   == <<file_len, file_pos, touched>>
call   == <<send_pc, total_data_size, ret, overrun>>
wire   == <<headers, body_sent, bad_chunks, endings, lost, out_left, pending>>
vars   == <<inputs, file, call, link, wire>>

NETWORK_ERROR == -1

(***************************************************************************)
(* fopen succeeds on a directory; ftell then reports LONG_MAX, which the   *)
(* int total_data_size holds as -1, and fread delivers nothing.  The real  *)
(* LONG_MAX is beyond TLC's numbers: any one above every length will do.   *)
(***************************************************************************)
IntOf(long) == IF long = LONG_MAX THEN -1 ELSE long

\* What a record holds of a response.
Contents == [headers : Nat, body : Nat, bad_chunks : Nat, endings : Nat]
Nothing  == [headers |-> 0, body |-> 0, bad_chunks |-> 0, endings |-> 0]

FlagsType ==
    /\ isKeepAlive \in BOOLEAN /\ isChunkEncoding \in BOOLEAN
    /\ touched \in BOOLEAN /\ overrun \in BOOLEAN
    /\ link \in BOOLEAN /\ out_left \in BOOLEAN /\ found_left \in BOOLEAN

InputsType ==
    /\ static_file_size \in FileSizes \cup {0, LONG_MAX}
    /\ header_len \in HeaderLens
    /\ fragment \in Fragments

FileType == file_len \in FileSizes \cup {0} /\ file_pos \in Nat

CallType ==
    /\ send_pc \in {"first", "loop", "ending", "done"}
    /\ total_data_size \in Int
    /\ ret \in {0, NETWORK_ERROR}

WireType ==
    /\ headers \in Nat /\ body_sent \in Nat /\ bad_chunks \in Nat
    /\ endings \in Nat /\ lost \in Nat /\ pending \in Contents

TypeOK == FlagsType /\ InputsType /\ FileType /\ CallType /\ WireType

-----------------------------------------------------------------------------
(* SendStaticData is entered with a file that OpenStaticFile opened, and    *)
(* perhaps with a record of the last response still unsent.                 *)

Opened(size, len) ==
    /\ static_file_size = size
    /\ file_len = len
    /\ file_pos = 0
    /\ touched = FALSE

Init ==
    /\ isKeepAlive \in BOOLEAN /\ isChunkEncoding \in BOOLEAN
    /\ header_len \in HeaderLens
    /\ fragment \in Fragments
    /\ \/ \E size \in FileSizes : Opened(size, size)
       \/ Opened(LONG_MAX, 0)
    /\ send_pc = "first" /\ total_data_size = 0 /\ ret = 0 /\ overrun = FALSE
    /\ link = TRUE /\ out_left \in BOOLEAN /\ found_left = out_left
    /\ headers = 0 /\ body_sent = 0 /\ bad_chunks = 0 /\ endings = 0 /\ lost = 0
    /\ pending = Nothing

-----------------------------------------------------------------------------
(* The C library and mbedtls.                                               *)

Smaller(a, b) == IF a <= b THEN a ELSE b
AtLeastZero(n) == IF n < 0 THEN 0 ELSE n

\* fread: the bytes of a request that the file can still deliver.
Fread(request) == AtLeastZero(Smaller(request, file_len - file_pos))

WriteResults == {"failed", "sent", "interrupted"}

(***************************************************************************)
(* mbedtls_ssl_write of prefix + body + suffix bytes, body of them from    *)
(* the file.  Its bytes become one record, of at most one fragment.  When  *)
(* SIGINT interrupts the system call the record stays in the output buffer *)
(* and the result is MBEDTLS_ERR_SSL_WANT_WRITE; the next call then sends  *)
(* that record, puts none of its own bytes into a new one and reports them *)
(* as written.  Once a write has failed the connection is gone and all     *)
(* later ones fail.                                                        *)
(***************************************************************************)
Write(result, prefix, what, suffix) ==
    LET len   == prefix + what.body + suffix
        taken == IF out_left THEN 0 ELSE Smaller(len, fragment)
        first == IF out_left THEN pending
                 ELSE [what EXCEPT !.body = AtLeastZero(Smaller(@, taken - prefix))]
    IN  \/ /\ result = "failed" /\ link' = FALSE
           /\ UNCHANGED wire
        \/ /\ result = "sent" /\ link /\ link' = TRUE
           /\ headers' = headers + first.headers /\ body_sent' = body_sent + first.body
           /\ bad_chunks' = bad_chunks + first.bad_chunks /\ endings' = endings + first.endings
           /\ lost' = lost + (len - taken)
           /\ out_left' = FALSE /\ pending' = Nothing
        \/ /\ result = "interrupted" /\ link /\ link' = TRUE
           /\ lost' = lost + (len - taken)
           /\ out_left' = TRUE /\ pending' = first
           /\ UNCHANGED <<headers, body_sent, bad_chunks, endings>>

FileData(amount) == [Nothing EXCEPT !.body = amount]

\* A chunk of no data is the end of the body; another is well formed when its
\* size line is the number of bytes that follow it.
ChunkData(chunk, amount) ==
    [Nothing EXCEPT !.body       = amount,
                    !.endings    = IF chunk.announced = 0 /\ amount = 0 THEN 1 ELSE 0,
                    !.bad_chunks = IF chunk.announced # amount THEN 1 ELSE 0]

\* Mutant: the NUL is counted twice.
OverrunsWhenFull(chunk) == chunk.form_bytes >= MAX_CHUNK_SIZE

Overruns(chunk) == chunk.form_bytes > MAX_CHUNK_SIZE

-----------------------------------------------------------------------------
(* SendHttpHeader: refuses what does not fit in MAX_CHUNK_SIZE and writes   *)
(* header and appended data in one call, without the final NUL.             *)

HeaderFits(data_size) == header_len + data_size <= MAX_CHUNK_SIZE

\* Mutant: the data is left out of the write.
SendHttpHeaderAlone(result, prefix, what, suffix) ==
    IF HeaderFits(prefix + what.body + suffix)
    THEN Write(result, header_len - 1, [Nothing EXCEPT !.headers = 1], 0)
    ELSE result = "failed" /\ UNCHANGED <<link, wire>>

SendHttpHeader(result, prefix, what, suffix) ==
    IF HeaderFits(prefix + what.body + suffix)
    THEN Write(result, (header_len - 1) + prefix, [what EXCEPT !.headers = 1], suffix)
    ELSE result = "failed" /\ UNCHANGED <<link, wire>>

\* The header with the first chunk of data: what happened to it is not looked
\* at, and the loop is entered when there is data left.
FirstPlain ==
    LET amount == Fread(MAX_CHUNK_SIZE - header_len)
    IN  /\ ~isChunkEncoding
        /\ total_data_size' = IntOf(static_file_size)
        /\ file_pos' = file_pos + amount
        /\ \E result \in WriteResults : SendHttpHeader(result, 0, FileData(amount), 0)
        /\ UNCHANGED overrun

FirstChunked ==
    LET chunk  == ComputeChunkEncodingData(IntOf(static_file_size), MAX_CHUNK_SIZE - header_len)
        amount == Fread(chunk.toread)
    IN  /\ isChunkEncoding
        /\ total_data_size' = chunk.total
        /\ file_pos' = file_pos + amount
        /\ \E result \in WriteResults :
             SendHttpHeader(result, chunk.delim - SIZEOF_CRLF, ChunkData(chunk, amount), SIZEOF_CRLF)
        /\ overrun' = (overrun \/ Overruns(chunk))

\* Mutant: the loop is entered with nothing left.
FirstThenLoop ==
    /\ send_pc = "first"
    /\ FirstPlain \/ FirstChunked
    /\ send_pc' = IF total_data_size' >= 0 THEN "loop" ELSE "ending"
    /\ UNCHANGED <<inputs, file_len, touched, ret>>

First ==
    /\ send_pc = "first"
    /\ FirstPlain \/ FirstChunked
    /\ send_pc' = IF total_data_size' > 0 THEN "loop" ELSE "ending"
    /\ UNCHANGED <<inputs, file_len, touched, ret>>

\* Mutant: an interrupted write is no reason to give up.
LoopIgnoresInterrupt(result, amount) ==
    IF result # "failed"
    THEN send_pc' = (IF amount > 0 THEN "loop" ELSE "ending") /\ UNCHANGED ret
    ELSE send_pc' = "done" /\ ret' = NETWORK_ERROR

\* Mutant: what mbedtls_ssl_write returned is handed on (-0x6880 is
\* MBEDTLS_ERR_SSL_WANT_WRITE), but HandleConnection compares with -1.
LoopTestReturningCode(result, amount) ==
    IF result = "sent"
    THEN send_pc' = (IF amount > 0 THEN "loop" ELSE "ending") /\ UNCHANGED ret
    ELSE send_pc' = "done" /\ ret' = (IF result = "failed" THEN NETWORK_ERROR ELSE -26752)

\* The end of a turn of the do-while loop: any negative result ends the call,
\* otherwise the loop ends when fread has delivered nothing, which is found out
\* only after the write.
LoopTest(result, amount) ==
    IF result = "sent"
    THEN send_pc' = (IF amount > 0 THEN "loop" ELSE "ending") /\ UNCHANGED ret
    ELSE send_pc' = "done" /\ ret' = NETWORK_ERROR

\* Mutant: an empty read is tried again instead of ending the loop.
LoopPlainForever ==
    LET amount == Fread(MAX_CHUNK_SIZE)
    IN  /\ ~isChunkEncoding
        /\ file_pos' = file_pos + amount
        /\ \/ amount = 0 /\ UNCHANGED <<link, wire, send_pc, ret>>
           \/ /\ amount > 0
              /\ \E result \in WriteResults :
                   /\ Write(result, 0, FileData(amount), 0)
                   /\ LoopTest(result, amount)
        /\ UNCHANGED <<total_data_size, overrun>>

LoopPlain ==
    LET amount == Fread(MAX_CHUNK_SIZE)
    IN  /\ ~isChunkEncoding
        /\ file_pos' = file_pos + amount
        /\ \E result \in WriteResults :
             /\ Write(result, 0, FileData(amount), 0)
             /\ LoopTest(result, amount)
        /\ UNCHANGED <<total_data_size, overrun>>

\* Mutant: the data that was sent is not taken off total_data_size.
LoopChunkedWithoutCount ==
    LET chunk  == ComputeChunkEncodingData(total_data_size, MAX_CHUNK_SIZE)
        amount == Fread(chunk.toread)
    IN  /\ isChunkEncoding
        /\ file_pos' = file_pos + amount
        /\ \E result \in WriteResults :
             /\ Write(result, chunk.delim - SIZEOF_CRLF, ChunkData(chunk, amount), SIZEOF_CRLF)
             /\ LoopTest(result, amount)
        /\ overrun' = (overrun \/ Overruns(chunk))
        /\ UNCHANGED total_data_size

LoopChunked ==
    LET chunk  == ComputeChunkEncodingData(total_data_size, MAX_CHUNK_SIZE)
        amount == Fread(chunk.toread)
    IN  /\ isChunkEncoding
        /\ total_data_size' = chunk.total
        /\ file_pos' = file_pos + amount
        /\ \E result \in WriteResults :
             /\ Write(result, chunk.delim - SIZEOF_CRLF, ChunkData(chunk, amount), SIZEOF_CRLF)
             /\ LoopTest(result, amount)
        /\ overrun' = (overrun \/ Overruns(chunk))

Loop ==
    /\ send_pc = "loop"
    /\ LoopPlain \/ LoopChunked
    /\ UNCHANGED <<inputs, file_len, touched>>

\* After the data: "0\r\n\r\n" in chunked mode; without keep-alive the whole
\* response header once more.  No result changes the return code.
Ending ==
    /\ send_pc = "ending"
    /\ \/ /\ isChunkEncoding
          /\ \E result \in WriteResults : Write(result, 5, [Nothing EXCEPT !.endings = 1], 0)
       \/ /\ ~isChunkEncoding /\ ~isKeepAlive
          /\ \E result \in WriteResults : SendHttpHeader(result, 0, Nothing, 0)
       \/ /\ ~isChunkEncoding /\ isKeepAlive
          /\ UNCHANGED <<link, wire>>
    /\ send_pc' = "done" /\ ret' = 0
    /\ UNCHANGED <<inputs, file, total_data_size, overrun>>

SendStaticData == First \/ Loop \/ Ending

\* Another process truncates or extends the file while it is being sent.
FileChanges ==
    /\ FilesMayChange
    /\ send_pc # "done"
    /\ static_file_size # LONG_MAX
    /\ \E len \in FileSizes \ {file_len} : file_len' = len
    /\ touched' = TRUE
    /\ UNCHANGED <<inputs, file_pos, call, link, wire>>

Next == SendStaticData \/ FileChanges

Spec     == Init /\ [][Next]_vars
FairSpec == Spec /\ WF_vars(SendStaticData)

-----------------------------------------------------------------------------
(* Properties.                                                              *)

\* All the code handed over was sent: no write failed, stopped short, was
\* interrupted, or gave way to an older record.
Undisturbed == link /\ lost = 0 /\ ~out_left

(***************************************************************************)
(* SendStaticData sends the file it was given: when the call is over and   *)
(* no write was disturbed and nobody changed the file, every byte of it    *)
(* was sent exactly once, in plain and in chunked mode, for every split of *)
(* the file over buffers.                                                  *)
(***************************************************************************)
BodyComplete ==
    (send_pc = "done" /\ Undisturbed /\ ~touched) =>
        /\ ret = 0
        /\ body_sent = AtLeastZero(IntOf(static_file_size))

(***************************************************************************)
(* Whatever happens to the connection, to its writes and to the file, no   *)
(* byte is sent that was not read, none is sent twice by the write that    *)
(* follows an interrupted one, and while the connection lasts each byte    *)
(* that was read is sent, in the unsent record, or one of those a short    *)
(* write or an older record displaced.                                     *)
(***************************************************************************)
BodyInStepWithFile ==
    /\ body_sent + pending.body <= file_pos
    /\ link => file_pos <= body_sent + pending.body + lost

(***************************************************************************)
(* total_data_size, which decides whether the loop is entered and how long *)
(* the next chunk is, keeps count of the file: while nobody changes the    *)
(* file it is the distance of static_file from the end in chunked mode,    *)
(* and success is returned only at the end of the file.                    *)
(***************************************************************************)
CountsAgree ==
    ~touched =>
        /\ file_len = AtLeastZero(IntOf(static_file_size))
        /\ file_pos <= file_len
        /\ send_pc = "first" => file_pos = 0
        /\ (send_pc = "loop" /\ isChunkEncoding) => total_data_size = file_len - file_pos
        /\ (send_pc = "ending" \/ (send_pc = "done" /\ ret = 0)) => file_pos = file_len

(***************************************************************************)
(* SendHttpHeader's result is ignored by SendStaticData, so a header that  *)
(* is missing goes unnoticed.  Its size limit never swallows one: only the *)
(* record an earlier response left behind takes the place of the header.   *)
(***************************************************************************)
HeaderNeverRefused ==
    (send_pc # "first" /\ link /\ ~found_left) => headers + pending.headers > 0

(***************************************************************************)
(* The framing of an undisturbed response: the header goes out twice       *)
(* exactly for a plain response without keep-alive (the second one after   *)
(* the body), and a chunked body is ended twice exactly when the file is   *)
(* empty, a directory, or too large for the first write, because the loop  *)
(* then ends with a zero chunk of its own.                                 *)
(***************************************************************************)
FitsFirstWrite ==
    ComputeChunkEncodingData(IntOf(static_file_size), MAX_CHUNK_SIZE - header_len).total = 0

WireShape ==
    (send_pc = "done" /\ Undisturbed /\ ~touched) =>
        /\ headers = (IF isChunkEncoding \/ isKeepAlive THEN 1 ELSE 2)
        /\ endings = (IF ~isChunkEncoding THEN 0
                      ELSE IF IntOf(static_file_size) > 0 /\ FitsFirstWrite THEN 1 ELSE 2)

(***************************************************************************)
(* The size line of a chunk of an unchanged file is wrong exactly when the *)
(* data still to send is 3, 16, 17 or 256 bytes long: these are the values *)
(* for which the digits of ComputeChunkEncodingData's estimate are fewer   *)
(* than those of the length.                                               *)
(***************************************************************************)
MisprintedSizes == {3, 16, 17, 256}

DataLeft == IF send_pc = "first" THEN IntOf(static_file_size) ELSE total_data_size

BadChunks == bad_chunks + pending.bad_chunks

SizeLineWrongOnlyForMisprintedSizes ==
    [][(isChunkEncoding /\ send_pc \in {"first", "loop"} /\ link' /\ ~touched' /\ ~out_left)
          => (BadChunks' # BadChunks <=> DataLeft \in MisprintedSizes)]_vars

(***************************************************************************)
(* ComputeChunkEncodingData's last strcpy reaches the byte behind          *)
(* response_buffer exactly for chunked files that go on for a whole full   *)
(* chunk after the first write: the eight bytes of its delimiters are      *)
(* spared in both chunks, the NUL is spared in none.                       *)
(***************************************************************************)
FULL_CHUNK_DELIM == SIZEOF_TWO_CRLF + 4

OverrunOnlyByFullChunks ==
    (send_pc = "done" /\ ret = 0) =>
        (overrun <=> /\ isChunkEncoding
                     /\ IntOf(static_file_size) + header_len
                            >= 2 * (MAX_CHUNK_SIZE - FULL_CHUNK_DELIM))

\* The call returns: every turn of the loop but the last moves on in the file.
SendReturns == <>(send_pc = "done")

-----------------------------------------------------------------------------
(* What a comment of the repository says of this code.                      *)

\* include/http.h: size_of_chunked_delim is the size of "\r\n\r\n" plus the
\* size of the file data in hex, and the buffer will contain that size: the size
\* line of every chunk of an unchanged file is the length of its data.
SizeLinesAreRight == ~touched => bad_chunks = 0

=============================================================================
