---------------------------- MODULE HttpConnection ----------------------------
(***************************************************************************)
(* HandleConnection (src/src/http.c): the life of one connection, from the *)
(* TLS handshake over its keep-alive cycles to FreeThreadData.  A response *)
(* is sent by the steps of StaticSend, whose variables are the fields of   *)
(* thread_data that SendStaticData uses; this module adds the other        *)
(* fields, the receiving of requests and the ways out.                     *)
(*                                                                         *)
(* A request is the text of one TLS record (the whole request, or the part *)
(* of a longer one that came first) and the result of OpenStaticFile for   *)
(* its path.                                                               *)
(***************************************************************************)
EXTENDS StaticSend, RequestParser

CONSTANT Requests  \* records with the fields text and target

Targets == FileSizes \cup {LONG_MAX, kNotFound, kBadRequest}

\* The parser takes a request whose head is one word for one whose path is a
\* line feed; no file has that name.
ASSUME RequestsAssumption ==
    /\ Requests \subseteq [text : Seq(STRING) \ {<<>>}, target : Targets]
    /\ \A request \in Requests :
         (FillHttpRequestHeader(NoHeader, request.text).code = 0 /\ PathOf(request.text) = <<"LF">>)
            => request.target < 0

VARIABLES
    pc,                 \* where HandleConnection is
    request_buffer,     \* the request it holds, or Blank
    response_blank,     \* is response_buffer all zero
    http_header,        \* its strings, as the parser left them
    static_file,        \* "null" or "open"
    client_fd,          \* "open", or "closed" (-1) after mbedtls_net_free
    ssl,                \* "new", "ready", "failed" (a read returned <= 0), "freed"
    \* what the client, the TLS library and the allocator saw
    error_code,         \* the error HandleError was called with, 0 before that
    error_text,         \* what HandleError sent: "none", "response" or "request"
    used_after_failure, \* was ssl written to after a read had failed
    leaked              \* blocks of the parser that nothing points to

buffers    == <<request_buffer, response_blank>>
socket     == <<client_fd, ssl>>
seen       == <<error_code, error_text, used_after_failure, leaked>>
connection == <<pc, buffers, http_header, static_file, socket, seen>>
connVars   == <<vars, connection>>

\* A buffer of zeros, in the shape of a request.
Blank == [text |-> <<>>, target |-> kBadRequest]

\* The calls of log_printf, log_perror and LogHttpRequestHeader: they take the
\* mutexes of the logger, which other threads may hold (module Logger).
LogCalls == {"log_session", "log_recv", "log_request", "log_send"}

ConnTypeOK ==
    /\ FlagsType /\ FileType /\ CallType /\ WireType
    /\ static_file_size \in Targets \cup {0}
    /\ header_len \in HeaderLens /\ fragment \in Fragments
    /\ pc \in {"handshake", "read", "parse", "open", "send", "error",
               "close", "free", "freed", "crashed"} \cup LogCalls
    /\ request_buffer \in Requests \cup {Blank}
    /\ response_blank \in BOOLEAN
    /\ http_header \in HeadersOfTexts /\ static_file \in {"null", "open"}
    /\ client_fd \in {"open", "closed"}
    /\ ssl \in {"new", "ready", "failed", "freed"}
    /\ error_code \in {0, kNotFound, kBadRequest, kNotImplemented}
    /\ error_text \in {"none", "response", "request"}
    /\ used_after_failure \in BOOLEAN
    /\ leaked \in Nat

-----------------------------------------------------------------------------
(* thread_data as RunServer fills it: all zero but the descriptor and the   *)
(* two strings every thread has a copy of.                                  *)

ConnInit ==
    /\ isKeepAlive = FALSE /\ isChunkEncoding = FALSE /\ static_file_size = 0
    /\ header_len \in HeaderLens /\ fragment \in Fragments
    /\ file_len = 0 /\ file_pos = 0 /\ touched = FALSE
    /\ send_pc = "done" /\ total_data_size = 0 /\ ret = 0 /\ overrun = FALSE
    /\ link = TRUE /\ out_left = FALSE /\ found_left = FALSE /\ pending = Nothing
    /\ headers = 0 /\ body_sent = 0 /\ bad_chunks = 0 /\ endings = 0 /\ lost = 0
    /\ pc = "handshake"
    /\ request_buffer = Blank /\ response_blank = TRUE
    /\ http_header = NoHeader /\ static_file = "null"
    /\ client_fd = "open" /\ ssl = "new"
    /\ error_code = 0 /\ error_text = "none"
    /\ used_after_failure = FALSE /\ leaked = 0

-----------------------------------------------------------------------------
(* ServerTlsSessionInit: a failed setup or handshake is logged and ends the *)
(* connection.  The handshake is a loop over a blocking socket without a    *)
(* timeout.                                                                 *)
ServerTlsSessionInit ==
    /\ pc = "handshake"
    /\ \/ pc' = "read" /\ ssl' = "ready"
       \/ pc' = "log_session" /\ ssl' = "failed"
    /\ UNCHANGED <<vars, buffers, http_header, static_file, client_fd, seen>>

(***************************************************************************)
(* mbedtls_ssl_read.  Only the return values -1 and 0 are looked at: every *)
(* other negative one (a reset, a TLS alert, the peer's close_notify, and  *)
(* MBEDTLS_ERR_SSL_WANT_READ when SIGINT interrupted the wait, after which *)
(* the context is as good as before) goes on to the parser with the buffer *)
(* as it was.  An unsent record stays where it is.                         *)
(***************************************************************************)
Read(result, next, buffer) ==
    /\ pc = "read" /\ pc' = next
    /\ ssl' = result
    /\ request_buffer' = buffer
    /\ UNCHANGED <<vars, response_blank, http_header, static_file, client_fd, seen>>

ReadRequest == \E request \in Requests : Read("ready", "parse", request)
ReadFails   == Read("failed", "parse", request_buffer)
ReadIsInterrupted == Read("ready", "parse", request_buffer)
ReadIsOtherError == Read("failed", "log_recv", request_buffer)
ReadIsEof   == Read("failed", IF isKeepAlive THEN "close" ELSE "free", request_buffer)

\* Mutant: the length of the head is returned for success.
ParsedReturningLength ==
    LET verdict == FillHttpRequestHeader(http_header, request_buffer.text)
    IN  IF verdict.code = 0 THEN [verdict EXCEPT !.code = Len(request_buffer.text)] ELSE verdict

\* Mutant: seg_start is never freed.
ParsedKeepingHead ==
    LET verdict == FillHttpRequestHeader(http_header, request_buffer.text)
    IN  IF verdict.code = 0 THEN [verdict EXCEPT !.leaked = 1] ELSE verdict

\* Mutant: no body is kept when there is no field in it.
ParsedWithoutEmptyBody ==
    LET verdict == FillHttpRequestHeader(http_header, request_buffer.text)
    IN  [verdict EXCEPT !.http_header.has_body = @ /\ verdict.http_header.body # <<"CR", "LF">>]

Parsed == FillHttpRequestHeader(http_header, request_buffer.text)

(***************************************************************************)
(* FillHttpRequestHeader.  A request line that is refused is refused with  *)
(* free(http_header_raw) after strtok_r has moved that pointer: the C      *)
(* library may end the process or go on.                                   *)
(***************************************************************************)
Parse ==
    /\ pc = "parse"
    /\ \E verdict \in {Parsed} :
         /\ \/ pc' = IF verdict.code < 0 THEN "error" ELSE "log_request"
            \/ verdict.code = kBadRequest /\ verdict.leaked > 0 /\ pc' = "crashed"
         /\ http_header' = verdict.http_header
         /\ error_code' = verdict.code
         /\ leaked' = leaked + verdict.leaked
    /\ UNCHANGED <<vars, buffers, static_file, socket, error_text, used_after_failure>>

\* A call of the logger returns: LogHttpRequestHeader to the request, the
\* others, which report an error, to the end of the connection.
LoggerReturns ==
    /\ pc \in LogCalls
    /\ pc' = IF pc = "log_request" THEN "open" ELSE "free"
    /\ UNCHANGED <<vars, buffers, http_header, static_file, socket, seen>>

(***************************************************************************)
(* SetDefaultDocument and OpenStaticFile.  A file that cannot be           *)
(* positioned (ftell returns -1) is open and "not found".                  *)
(***************************************************************************)
OpenStaticFileFails ==
    /\ pc = "open" /\ pc' = "error"
    /\ request_buffer.target < 0
    /\ static_file_size' = request_buffer.target
    /\ error_code' = request_buffer.target
    /\ \/ UNCHANGED static_file
       \/ request_buffer.target = kNotFound /\ static_file' = "open"
    /\ UNCHANGED <<isKeepAlive, isChunkEncoding, header_len, fragment, found_left, file, call,
                   link, wire, buffers, http_header, socket, error_text, used_after_failure,
                   leaked>>

\* Mutant: any Accept-Encoding will do.
AcceptsAnyEncoding == isChunkEncoding \/ HasAcceptEncoding(http_header.body)

\* isChunkEncoding is only assigned when there is an Accept-Encoding.
AcceptsChunks ==
    IF HasAcceptEncoding(http_header.body)
    THEN AsksChunked(http_header.body)
    ELSE isChunkEncoding

\* Mutant: the second fseek is missing.
FileLeftAtItsEnd(size) ==
    /\ static_file' = "open"
    /\ static_file_size' = size
    /\ file_len' = AtLeastZero(IntOf(size))
    /\ file_pos' = file_len' /\ touched' = FALSE

\* fopen, fseek to the end, ftell, fseek to the start.
FileOpened(size) ==
    /\ static_file' = "open"
    /\ static_file_size' = size
    /\ file_len' = AtLeastZero(IntOf(size))
    /\ file_pos' = 0 /\ touched' = FALSE

\* The counts are those of one response; an unsent record is kept, and from
\* then on a record of an older response.
StreamCountsRestart ==
    /\ headers' = 0 /\ body_sent' = 0 /\ bad_chunks' = 0 /\ endings' = 0 /\ lost' = 0
    /\ pending' = Nothing /\ out_left' = out_left

\* The header, which is built anew for each response, may have any length: it
\* depends on the path, the mode and the size.
OpenStaticFile ==
    /\ pc = "open" /\ pc' = "send"
    /\ request_buffer.target >= 0
    /\ FileOpened(request_buffer.target)
    /\ isKeepAlive' = AsksKeepAlive(http_header.body)
    /\ isChunkEncoding' = AcceptsChunks
    /\ header_len' \in HeaderLens
    /\ send_pc' = "first" /\ total_data_size' = 0 /\ ret' = 0
    /\ StreamCountsRestart /\ found_left' = out_left
    /\ UNCHANGED <<fragment, overrun, link, buffers, http_header, socket, seen>>

(***************************************************************************)
(* SetResponseContentLength counts the digits of the size, not its sign:   *)
(* for a directory served plain it writes "Content-Length: -1" one byte    *)
(* past the end of its block.  That is harmless where the allocator rounds *)
(* sizes up; where it does not, free may end the process.                  *)
(***************************************************************************)
ContentLengthOverruns ==
    /\ pc = "send" /\ send_pc = "first"
    /\ ~isChunkEncoding /\ IntOf(static_file_size) < 0
    /\ pc' = "crashed"
    /\ UNCHANGED <<vars, buffers, http_header, static_file, socket, seen>>

\* One step of the call; response_buffer is written by every fread and by
\* ComputeChunkEncodingData, and cleared at the end of every turn of the loop.
Send ==
    /\ pc = "send"
    /\ SendStaticData
    /\ response_blank' = CASE send_pc = "first"  -> response_blank /\ ~isChunkEncoding
                                                      /\ file_pos' = file_pos
                           [] send_pc = "loop"   -> ret' = 0
                           [] send_pc = "ending" -> response_blank
    /\ UNCHANGED <<pc, request_buffer, http_header, static_file, socket, seen>>

\* Mutant: the return code of SendStaticData is not looked at.
SendEndsWithoutKeepAlive ==
    /\ pc = "send" /\ send_pc = "done"
    /\ ~isKeepAlive
    /\ pc' = "free"
    /\ UNCHANGED <<vars, buffers, http_header, static_file, socket, seen>>

\* log_perror("server send error"), or the end of a connection without keep-alive.
SendEndsConnection ==
    /\ pc = "send" /\ send_pc = "done"
    /\ \/ ret = NETWORK_ERROR /\ pc' = "log_send"
       \/ ret = 0 /\ ~isKeepAlive /\ pc' = "free"
    /\ UNCHANGED <<vars, buffers, http_header, static_file, socket, seen>>

(***************************************************************************)
(* FreeHttpRequestHeader: when a chunk form was written past the end of    *)
(* response_buffer it changed http_header.method, and free may end the     *)
(* process.                                                                *)
(***************************************************************************)
FreeHttpRequestHeader(next) ==
    /\ http_header' = NoHeader
    /\ \/ pc' = next
       \/ overrun /\ pc' = "crashed"
    /\ overrun' = FALSE

\* Mutant: only the buffer that was received into is cleared.
RequestBufferCleared == request_buffer' = Blank /\ response_blank' = response_blank

BuffersCleared == request_buffer' = Blank /\ response_blank' = TRUE

\* Mutant: static_file_size keeps the size of the last file.
FileClosedWithSize ==
    /\ static_file' = "null" /\ static_file_size' = static_file_size
    /\ file_len' = 0 /\ file_pos' = 0 /\ touched' = FALSE

FileClosed ==
    /\ static_file' = "null" /\ static_file_size' = 0
    /\ file_len' = 0 /\ file_pos' = 0 /\ touched' = FALSE

FlushThreadData ==
    /\ pc = "send" /\ send_pc = "done" /\ ret = 0 /\ isKeepAlive
    /\ BuffersCleared
    /\ FileClosed
    /\ isChunkEncoding' = FALSE
    /\ FreeHttpRequestHeader("read")
    /\ send_pc' = "done" /\ total_data_size' = 0 /\ ret' = 0
    /\ StreamCountsRestart
    /\ UNCHANGED <<isKeepAlive, header_len, fragment, found_left, link, socket, seen>>

(***************************************************************************)
(* HandleError composes the answer in response_buffer and writes           *)
(* request_buffer; the result of the write is ignored.  The client gets it *)
(* unless an older record goes out in its place.                           *)
(***************************************************************************)
HandleError ==
    /\ pc = "error" /\ pc' = "free"
    /\ response_blank' = FALSE
    /\ used_after_failure' = (used_after_failure \/ ssl = "failed")
    /\ \E result \in WriteResults :
         /\ Write(result, 0, Nothing, 0)
         /\ error_text' = IF result = "sent" /\ ~out_left THEN "request" ELSE error_text
    /\ UNCHANGED <<inputs, file, call, request_buffer, http_header, static_file, socket,
                   error_code, leaked>>

\* total_byte_length of "HTTP/1.1 200 OK", "Connection: close" and
\* "Content-Length: 0".
CLOSE_HEADER_LEN == 58

\* CloseConnection appends static_file_size bytes of response_buffer to its
\* header; a size that does not fit is refused before anything is written.
CloseConnection ==
    LET fits == CLOSE_HEADER_LEN + static_file_size <= MAX_CHUNK_SIZE
    IN  /\ pc = "close" /\ pc' = "free"
        /\ used_after_failure' = (used_after_failure \/ (fits /\ ssl = "failed"))
        /\ IF fits THEN \E result \in WriteResults : Write(result, 0, Nothing, 0)
                   ELSE UNCHANGED <<link, wire>>
        /\ UNCHANGED <<inputs, file, call, buffers, http_header, static_file, socket,
                       error_code, error_text, leaked>>

\* Mutant: the TLS context is not freed.
ServerTlsSessionFreeSocket ==
    /\ client_fd' = "closed"
    /\ ssl' = ssl

\* mbedtls_net_free sets the descriptor to -1: mbedtls_ssl_close_notify, which
\* comes after it, can send nothing, an unsent record neither.
ServerTlsSessionFree ==
    /\ client_fd' = "closed"
    /\ ssl' = "freed"

FreeThreadData ==
    /\ pc = "free"
    /\ static_file' = "null"
    /\ ServerTlsSessionFree
    /\ FreeHttpRequestHeader("freed")
    /\ UNCHANGED <<inputs, file, send_pc, total_data_size, ret, link, wire, buffers, seen>>

\* Another process changes the file a response is being read from.
SentFileChanges ==
    /\ pc = "send"
    /\ FileChanges
    /\ UNCHANGED connection

\* What the thread does without waiting for anyone but the receiver of its writes.
HandleConnection ==
    \/ Parse \/ OpenStaticFile \/ OpenStaticFileFails
    \/ Send \/ ContentLengthOverruns \/ SendEndsConnection \/ FlushThreadData
    \/ HandleError \/ CloseConnection \/ FreeThreadData

\* The handshake and mbedtls_ssl_read return when the client acts or a signal
\* comes; neither has a timeout.
ClientActs ==
    \/ ServerTlsSessionInit
    \/ ReadRequest \/ ReadFails \/ ReadIsInterrupted \/ ReadIsOtherError \/ ReadIsEof

ConnNext == HandleConnection \/ ClientActs \/ LoggerReturns \/ SentFileChanges

ConnSpec == ConnInit /\ [][ConnNext]_connVars

(***************************************************************************)
(* The thread keeps running (weak fairness of its own steps).  The client  *)
(* owes nothing but to take what is sent, so that a write returns: it may  *)
(* be silent in the handshake and between requests forever.  Nor does the  *)
(* logger owe anything: its mutexes can be lost (module Logger).           *)
(***************************************************************************)
ConnFairSpec == ConnSpec /\ WF_connVars(HandleConnection)
-----------------------------------------------------------------------------
(* Properties.                                                              *)

(***************************************************************************)
(* FlushThreadData leaves thread_data as the first cycle found it: when    *)
(* the thread waits for a request both buffers are blank (request_buffer   *)
(* has no terminator of its own when a request fills it: the parser then   *)
(* stops at the first byte of response_buffer), no file and no header is   *)
(* held, and nothing of the last response is left in the fields the next   *)
(* one is computed from.                                                   *)
(***************************************************************************)
CleanReceiveCycle ==
    pc = "read" =>
        /\ request_buffer = Blank /\ response_blank
        /\ http_header = NoHeader /\ static_file = "null" /\ ~overrun
        /\ static_file_size = 0 /\ ~isChunkEncoding
        /\ ssl = "ready" /\ client_fd = "open"

(***************************************************************************)
(* No way out of HandleConnection leaves anything behind: whichever of its *)
(* returns is taken, the file, the socket, the TLS context and the parsed  *)
(* header are released, none of them earlier than FreeThreadData (the      *)
(* socket and the context are usable in every state before).               *)
(***************************************************************************)
ReleasedAtTheEnd ==
    /\ pc = "freed" => /\ static_file = "null" /\ http_header = NoHeader
                       /\ client_fd = "closed" /\ ssl = "freed"
    /\ pc \notin {"freed", "crashed"} => client_fd = "open" /\ ssl # "freed"

(***************************************************************************)
(* CloseConnection's header says "Content-Length: 0" and appends           *)
(* static_file_size bytes: it is only reached when that size is zero.      *)
(***************************************************************************)
CloseHeaderHasNoTail == pc = "close" => static_file_size = 0

(***************************************************************************)
(* Every response of a keep-alive connection, not only the first, sends    *)
(* the whole file when it is not disturbed.                                *)
(***************************************************************************)
EveryBodyComplete == pc = "send" => BodyComplete

(***************************************************************************)
(* A connection that is kept loses no memory in the parser, however many   *)
(* requests it brings, and one that ends over a refused request loses at   *)
(* most the two tokens before the refused one and the copy of the head.    *)
(***************************************************************************)
NothingLeakedPerCycle ==
    /\ leaked <= HTTP_HEAD_COUNT
    /\ leaked > 0 => pc \in {"error", "free", "freed", "crashed"}

(***************************************************************************)
(* stristr is never called with the NULL that http_header.body may be: the *)
(* text between the request line and the blank line is only missing in     *)
(* requests whose path cannot be opened.                                   *)
(***************************************************************************)
SearchedBodyExists ==
    (pc = "open" /\ request_buffer.target >= 0) => http_header.has_body

(***************************************************************************)
(* The thread goes back to waiting for the client, who may be waiting for  *)
(* that record, with an unsent record only after a chunked response or one *)
(* without data: every other response ends with a write whose result is    *)
(* looked at.                                                              *)
(***************************************************************************)
UnsentOnlyAfterUncheckedWrite ==
    [][(pc = "send" /\ pc' = "read" /\ out_left')
          => (isChunkEncoding \/ IntOf(static_file_size) <= 0)]_connVars

(***************************************************************************)
(* A thread that has a request, or has lost its client, does not stay      *)
(* where it is: it comes back to waiting for the client, to a call of the  *)
(* logger, or ends.                                                        *)
(***************************************************************************)
Resting == pc \in {"handshake", "read", "freed", "crashed"} \cup LogCalls

ServingEnds == []<>Resting

(***************************************************************************)
(* The connection implements HttpSession: one request at a time, answered  *)
(* in the mode this very request asked for.                                *)
(***************************************************************************)
phaseOf ==
    CASE pc = "handshake"               -> "handshake"
      [] pc \in {"read", "parse"}       -> "idle"
      [] pc \in {"log_request", "open"} -> "received"
      [] pc = "send"                    -> "answering"
      [] pc \in {"freed", "crashed"}    -> "closed"
      [] OTHER                          -> "closing"

AskedFor ==
    [keep |-> AsksKeepAlive(http_header.body), chunked |-> AsksChunked(http_header.body)]

NotAnswering == [none |-> TRUE]

Session == INSTANCE HttpSession WITH
    Modes   <- [keep : BOOLEAN, chunked : BOOLEAN],
    NoMode  <- NotAnswering,
    phase   <- phaseOf,
    current <- IF phaseOf \in {"received", "answering"} THEN AskedFor
               ELSE NotAnswering,
    mode    <- IF phaseOf = "answering"
               THEN [keep |-> isKeepAlive, chunked |-> isChunkEncoding]
               ELSE NotAnswering

ImplementsHttpSession == Session!SessionSpec

-----------------------------------------------------------------------------
(* What the repository's comments say of this code.                         *)

\* include/http.h: HandleError sends the corresponding HTTP message to the user.
ErrorMessageIsSent == error_text # "none" => error_text = "response"

\* mbedtls/ssl.h: after a read that failed the context must not be used to write.
ContextNotUsedAfterFailure == ~used_after_failure

=============================================================================
