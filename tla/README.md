# A verification of c_https_serv

`c_https_serv` is a small static HTTPS server in C: one process, one accept
loop, one detached thread per connection, TLS by a vendored mbedtls. This
directory holds TLA+ modules that model its own code (`src/src/*.c`,
`src/include/*.h`), the TLC configurations that check them on small instances,
and theorems about them that TLAPS checks for every value of the constants.

Paths below are relative to the repository; `http.c:133` stands for
`src/http.c` line 133, and so on.

- Model-check: `tlc -workers 2 -config MCStaticSend_real.cfg MCStaticSend`
  (the runs are listed in section 4; the longest takes about two minutes).
- Prove: `tlapm StaticSendProofs.tla` (and the seven other `*Proofs` modules).

## 1. The system

| component | state it keeps | operations | interacts with |
|---|---|---|---|
| start of `main` (`main.c`, `networking.c`) | `server_startup_params`, the buffer `default.conf` is read into, `integrity_test` | `SetServerStartupParams`, `SetupServer`, `LaunchTlsSocket`, failure exits | the TLS adapter; hands the listening socket to the accept loop |
| accept loop and shutdown (`networking.c:14-57`, `main.c`) | `server_should_run`, the slot `server_tls.session_tls.client_fd` | `RunServer`, `TerminateHandler` (SIGINT), `FreeServerParams` | kernel queue; starts a detached thread per connection |
| connection handler (`http.c:31-44`, `147-281`) | `struct ThreadData`: descriptor, TLS context, two buffers, open file, sizes, two flags, parsed strings | `HandleConnection`, `HandleError`, `CloseConnection`, `FlushThreadData`, `FreeThreadData` | parser, sender, logger, mbedtls |
| static file sender (`http.c:46-145`) | position of the file, `total_data_size`, response buffer | `SendStaticData`, `SendHttpHeader` | mbedtls, the file system |
| chunked-encoding arithmetic (`http.c:283-302`, `utility.c`) | none | `ComputeChunkEncodingData`, `SaturateValue`, `PowerOfHex` | called by the sender |
| response header (`http_parser.c:90-222`, `275-291`) | `struct HttpResponseHeader`: array of fields, their number, `total_byte_length` | `SetResponseStatusLine`, `SetResponseProperty`, `SetResponseContentType`, `SetResponseContentLength`, `ResponseToBuff` | called by the sender and `CloseConnection` |
| request parser (`http_parser.c:184-273`, `utility.c:49-75`) | `struct HttpRequestHeader` | `FillHttpRequestHeader`, `FreeHttpRequestHeader`, `SetDefaultDocument`, `OpenStaticFile` | called by the handler |
| logger (`logger.c`) | `server_mutex`, `stdout_mutex`, the log file | `LogInit`, `LogMessage`, `log_perror`, `log_printf` | called by main and by every thread |
| TLS adapter (`tls_adapter.c`) | shared configuration, per-connection context | `ServerTlsBaseInit`, `ServerTlsSessionInit`, `ServerTlsSessionFree` | wraps mbedtls |
| MIME table, address printing | none | `MimeTypes`, `GetInAddr`, `GetSockaddrIp` | - |
| mbedtls | contexts, record buffers | `mbedtls_ssl_*`, `mbedtls_net_*` | vendored; treated as the environment |

### What is hard about it, and what makes it correct

- **Sender.** The file is split over buffers by two pieces of arithmetic that
  have to agree (what the chunk form claims, what `fread` delivers); most
  results of a write are ignored; the file can change under the loop. Correct:
  every byte of an undisturbed file is sent exactly once; nothing that was not
  read is sent; the loop ends; the framing is what the header promises. A
  signal that interrupts a write leaves its record in mbedtls, and the next
  write sends that record in place of its own bytes: what was interrupted must
  not be sent twice, and a client must not wait for a record that is held back.
- **Connection.** One `ThreadData` is used for all requests of a keep-alive
  connection, and six returns of `HandleConnection` have to release whatever
  exists by then. Correct: each cycle starts clean, a response is in the mode
  its own request asked for, everything is released once, and a thread with a
  request never stays where it is.
- **Parser.** `strtok_r` moves the pointer that is freed later, a refused token
  leaves the ones before it behind, and the body may be NULL. Correct: the
  verdict is that of the text, a kept connection leaks nothing, and nobody
  searches a body that is not there.
- **Accept loop.** A descriptor is copied from main's slot into `ThreadData`,
  closed by the thread, and its number reused by the kernel while the thread
  that closed it still runs. SIGINT may fall between the test of the flag and
  `accept`, or be handled by another thread; main then waits in `accept` as
  before. Correct: nobody works on a foreign socket,
  no descriptor is lost, the process stops, waiting clients are accepted.
- **Logger.** Two mutexes taken by all threads, with an unlock of the wrong one
  and a return without an unlock. Correct: the critical sections exclude each
  other and every call returns. Its `fopen` needs a descriptor of the same pool
  as `accept`: under load the logger fails, and what it leaves locked then keeps
  the descriptors.
- **Response header.** An array that grows on powers of two without keeping its
  capacity, and a byte count corrected on every overwrite. Correct: no write
  behind the array, the text fills its allocation to the byte, and a key that is
  set again is overwritten.
- **Start.** A buffer whose pointer moves with every line while the size handed
  to `getline` stays. Correct: no line leaves the buffer, and the server only
  runs with every parameter.

## 2. The modules

| module | models | state and actions |
|---|---|---|
| `ChunkEncoding` | the arithmetic of chunks | pure operators on C ints: `SaturateValue`, `PowerOfHex`, `SizeLine` (the `snprintf` with its width), `ComputeChunkEncodingData` |
| `StaticSend` | one call of `SendStaticData` | fields of `ThreadData` the call uses, the open file, the local variables, and four counters of what a client sees. `First`, `Loop`, `Ending`: one `mbedtls_ssl_write` each with the `fread` before it; `FileChanges` is another process |
| `RequestParser` | `FillHttpRequestHeader` | pure operators on the pieces of a request: tokens, the verdict, the body, the blocks that are lost |
| `HttpConnection` | `HandleConnection` from the handshake to `FreeThreadData` | EXTENDS `StaticSend` (the sender's steps are the action `Send`) and `RequestParser` (called by `Parse`), and adds the buffers, file, descriptor, TLS context and parsed header; a call of the logger is a step that may never come |
| `HttpSession` | abstract: what a connection promises a client | phase, request being served, mode of the response |
| `Logger` | `logger.c` as main and all threads use it | the two mutexes, the place of each thread in its calls |
| `Server` | accept loop, SIGINT, hand-over, release, end of `main` | the slot, the kernel's queue and descriptor table, the threads' copies |
| `ServerLogger` | the accept loop and the logger its threads use | EXTENDS `Server`, instantiates `Logger` with the clients' threads; they meet in the release of a connection and in the log file, which holds a descriptor (`log_fd`) from `fopen` to `fclose` |
| `Startup` | `SetServerStartupParams`, `SetupServer`, `LaunchTlsSocket` | the buffer as four numbers, the keys found, the TLS steps done |
| `ResponseHeader` | `struct HttpResponseHeader` and its setters | the array with its capacity, `total_byte_length`, the property set last |
| `HeaderMap` | abstract, what `http_parser.h:52-54` says: a map from keys to the value set last, in which a key it has is always overwritten | one function |
| `StaticSendProofs`, `ResponseFramingProofs`, `HttpConnectionProofs`, `LoggerProofs`, `ServerProofs`, `ServerLoggerProofs`, `StartupProofs`, `ResponseHeaderProofs` | theorems (section 6) | |
| `MCStaticSend`, `MCHttpConnection`, `MCResponseHeader` | instances for TLC: sets of file lengths and requests; `MCHttpConnection` also compares the parser's definition with the loop of the C code, and `MCResponseHeader` the bit trick `NextHighestPowerOfTwo` with its meaning | |

Refinements: `HttpConnection` implements `HttpSession` (mapping `Session`), and
`ServerLogger` implements both `Server` and `Logger` (identity mappings). The
response header implements `HeaderMap` (mapping `Map`) when there are fewer keys
than places, as there are in `http.c`; in general it does so until it is full
(`MapUntilFull`). `Startup` ends where
`Server` begins. `Server` sees a thread only as the holder of a descriptor,
`Logger` only as a caller; both leave the inside of a connection to
`HttpConnection`.

Definitions keep the names of the C source. An operator whose comment begins
with *Mutant* is a plausible bug of the definition after it; no specification
uses it. It documents which mistake each property detects.

### Abstractions

- Bytes are counted, not represented: a file is its length and the position in
  it, a chunk its data length and the number a client reads in its size line,
  a line of `default.conf` its length and the key in it, a response property
  its key and length.
- A request is a sequence of pieces: spaces, line ends, the four words the code
  looks for (in any letter case), a word longer than `MAX_URL_SIZE`, and any
  other string for any other word. A word the code finds inside another one
  counts as that word. What `OpenStaticFile` says of the path (a length, a
  directory, not found, refused) comes with the request, because it depends on
  the files of the machine; the default document and the filtering of the path
  (`GetFilePosition`) are in that result.
- Of the parsed strings it is kept whether they are held, and the text of the
  body.
- One step is one call that another actor can come before or after (a write, a
  read, a lock, an unlock, `accept`, `close`) with the computation before it.
- Undefined behaviour is a choice: `free` of a moved pointer or of a damaged
  one, the byte that `Content-Length: -1` writes behind its block, `realloc` of
  an interior pointer, `pthread_detach` of a stale handle and the use of a freed
  TLS configuration either end the process or go on, as the build decides.
- A response header is its length, which `OpenStaticFile` chooses from
  `HeaderLens` for each response anew; `ResponseHeader` has its inside.
- A write sends at most one TLS fragment and reports how much it took, as
  `mbedtls_ssl_write` documents. It may fail, which means a lost connection, or
  be interrupted by a signal: then its record stays in the output buffer
  (`out_left`, `pending`), the result is `MBEDTLS_ERR_SSL_WANT_WRITE`, and the
  next write sends the record and takes none of its own bytes for new
  (`ssl_write_real` in `ssl_msg.c`). `out_left` survives a response;
  `pending` counts only what is of the current one.
- `LONG_MAX`, the length `ftell` reports of a directory, becomes -1 in an
  `int`; the real number is beyond TLC's, so any number above every file length
  stands for it.

## 3. Assumptions

- `SizesAssumption`: file lengths fit an `int`, as `total_data_size` has it.
- `HeaderLensAssumption`: a response header is some text and a NUL, and with
  the longest chunk delimiters it leaves room in the 8192 bytes. The longest
  header the server builds is 191 bytes.
- `RequestsAssumption`: requests are texts of at least one piece with a result
  of `OpenStaticFile`; a request whose head is a single word, for which the
  parser takes a line feed for the path, names no file.
- `ResponseAssumption`: the limit of fields is a power of two (128 in
  `http_parser.h`), and a key occurs in no property but its own, which is so
  for the properties `http.c` sets.
- `StartupAssumption`: nothing but that lengths are numbers. The values of
  `port` and `host` are assumed to fit their arrays.
- `ServerAssumption`, `LoggerAssumption`, `ServerLoggerAssumption`: type facts.
- Two hypotheses of single theorems. `FourDigitChunks`: a full chunk has a size
  line of four hexadecimal digits, with and without a header before it. The
  8192 bytes of `http.h:4` give it to every header of up to 4088 bytes.
  `OnlySmallFiles` (only in `SmallFilesAreSafe`): no file goes on for a full
  chunk after the first write, that is, each is shorter than 16368 bytes less
  its header.

**Fairness.** Weak fairness only: a thread that can run is scheduled. A write is
assumed to return, with success or not: a client owes it to the server to take
what is sent, or to be given up by the kernel.

- The handshake and the read have no timeout (`tls_adapter.c:44`, `http.c:189`),
  and no progress of a client in them is assumed: `ClientActs` of
  `HttpConnection`, and `SessionInit` and `Receive` of `Logger`, have no
  fairness. A connection may be silent in either forever, and `ServingEnds` and
  `ServedUnlessLockLeaked` count both as places to rest.
- A call of the logger may never return (`logger_wrappers`, `logger_message`).
  `HttpConnection` has no fairness on `LoggerReturns` and lets a thread rest in
  such a call; that it does return while no mutex was leaked is
  `ServedUnlessLockLeaked` of `Logger`.
- `ServerLogger` is the one exception: `ServerFairSpec` assumes that every
  client acts or goes away in the end, because without it nothing can be
  promised to a client who waits for a descriptor of an idle connection.
- `Server` alone states no fairness.
- In `Logger` and `ServerLogger` weak fairness is enough for the mutexes because
  every thread logs at most `MaxRequests` times, so nobody is overtaken forever.

## 4. The runs

Passing runs:

| run | instance | question | states |
|---|---|---|---|
| `send_real` | `MCStaticSend_real.cfg`: the real 8192-byte buffer, about 570 file lengths, header lengths 113, 125, 191, writes that fail or are interrupted | is the whole file sent, the header never refused, the framing as described, exactly which sizes get a wrong size line, and exactly which files reach past the buffer? `BodyComplete`, `HeaderNeverRefused`, `WireShape`, `OverrunOnlyByFullChunks`, `SizeLineWrongOnlyForMisprintedSizes` | 205490 |
| `send_changing` | `MCStaticSend_changing.cfg`: 64-byte buffer, fragments of 16 or 64 bytes, interrupted writes, files that change during the call | is every byte that was read sent once, held back or lost to a short write, whatever is interrupted and however the file changes, and does the call return? `TypeOK`, `BodyInStepWithFile`, `CountsAgree`, `SendReturns` | 61644 |
| `connection_cycles` | `MCHttpConnection_cycles.cfg`: a text for every path through the parser, any number of keep-alive cycles, two header lengths, of which one lets a chunk form overrun, interrupted reads and writes, changing files | is each cycle clean, nothing leaked by it, everything released, no missing body searched, every response complete and in the mode of its own request; when may the thread wait with an unsent record; does a thread come to rest? `ConnTypeOK`, `CleanReceiveCycle`, `ReleasedAtTheEnd`, `CloseHeaderHasNoTail`, `EveryBodyComplete`, `NothingLeakedPerCycle`, `SearchedBodyExists`, `UnsentOnlyAfterUncheckedWrite`, `ImplementsHttpSession`, `ServingEnds` | 85373 |
| `logger_locks` | `Logger_locks.cfg`: three threads, two requests each, failing `fopen`, failing peers | do the wrappers and the log file exclude, how far does that hold after the wrong unlock, does a thread with something to do get through unless a lock was leaked, and is a leak of `server_mutex` final? `TypeOK`, `StdoutSerialised`, `LogFileSerialised`, `ServedUnlessLockLeaked`, `NobodyIsServedAgain` | 44643 |
| `server_accept` | `ServerLogger_accept.cfg`: three clients, two descriptors shared with the log file, failing `pthread_create` | is a socket always its own client's, no descriptor lost, SIGINT noticed after one more client, and everybody accepted unless a lock was leaked or threads could not be created? `TypeOK`, `SocketIsOwnClients`, `DescriptorsAccountedFor`, `AtMostOneLateAccept`, `StopsOnceAwoken`, `EveryoneIsAccepted` | 320585 |
| `startup_conf` | `Startup_conf.cfg`: `default.conf` of up to 16 bytes, lines split in every way | does a line ever leave the buffer, is an interior pointer ever given to `realloc`, does the server ever run half configured? `TypeOK`, `LineStaysInBuffer`, `OnlyOneLineIsReallocated`, `RunsFullyConfigured` | 87713 |
| `header_calls` | `MCResponseHeader_calls.cfg`: five keys of two lengths in every order, limit 4 | is the text as long as its allocation, the array large enough, the header the map of `http_parser.h` until it is full? `TypeOK`, `TextFillsBuffer`, `FieldsFitArray`, `MapUntilFull` | 62673 |

Runs that refute what a comment of the repository says (each checks one
property and TLC finds a counterexample):

| run | property | what the code does |
|---|---|---|
| `send_size_line` | `SizeLinesAreRight` | `http.c:290` estimates the width of a size line; with 3, 16, 17 or 256 bytes left it is one digit too few (16 bytes go out as `1`, 3 bytes with an empty line), against `http.h:57`. `send_real` shows that no other length is affected |
| `connection_error` | `ErrorMessageIsSent` | `HandleError` composes `response_buffer` and writes `request_buffer` (`http.c:172`), against `http.h:28` |
| `connection_failed_read` | `ContextNotUsedAfterFailure` | only -1 and 0 end the connection after a read (`http.c:191`); other errors go on to parse and write, against `ssl.h:4832` |
| `logger_wrappers` | `WrapperCallsReturn` | `log_perror` unlocks `server_mutex` instead of `stdout_mutex` (`logger.c:62`): the first call blocks all later ones, against `logger.h:10` |
| `logger_message` | `LogMessageReturns` | `LogMessage` returns with its mutex locked when `fopen` fails (`logger.c:50`), against `logger.h:6` |

### Why the bounds are enough

- `send_real` uses the real sizes, because the arithmetic has no smaller
  instance: the lengths are all those around each change of the digits of the
  size line, and around one, two and three full writes; the header lengths are
  the shortest, a common and the longest Content-Type. `send_changing` scales
  the buffer down so that the lengths of one, two and three writes can change
  into each other, and a fragment of 16 bytes makes every write short.
  `StaticSendProofs` and `ResponseFramingProofs` remove the bounds on lengths,
  also for the size lines and the overrun.
- A connection of one thread shares only the log and the TLS configuration with
  others. `MCRequests` has one text for each path through the parser,
  `HandleConnection` and `OpenStaticFile`; `MCHttpConnection` checks
  (`ParserAgreesWithLoop`) that the parser's definition agrees with `strtok_r`
  run from piece to piece on every text of up to five pieces, with and without
  a blank line after it. The number of cycles is not bounded: the model is
  finite because the counters restart with each response. `HttpConnectionProofs`
  removes the bounds on requests, files and the buffer, and on the number of
  pieces of a text.
- Two descriptors and three clients are the smallest instance with a reused
  descriptor, a full table, an `fopen` that finds no descriptor, and a client
  left in the queue. Each client connects once and sends at most one request;
  a failed handshake or read, after which the thread prints, is left to
  `logger_locks` (`PeersMayFail` is FALSE). `ServerProofs` and
  `ServerLoggerProofs` remove these bounds for the safety properties.
- Three threads with two requests let one wait while another holds and a third
  unlocks. `LoggerProofs` removes the bound for the safety properties.
- Files of 0 to 16 bytes and keys in lines of 2 or more bytes are enough for
  seven keys, with room for lines without one; `StartupProofs` removes it.
- A limit of 4 makes the array grow twice and reach its limit; five keys leave
  one that is refused, and a full header is called with keys it has.
  `ResponseHeaderProofs` removes these bounds for the array, the text and the
  map.

Deadlock is not checked in any run: each model stops legally (a sent response,
a released connection, an exited process, a full header), and where a stop is
not legal a liveness property says so.

## 5. Not modelled

- **mbedtls** is vendored (some 400 thousand lines of the repository, against
  1359 of the server's own). Only what this server meets of it is modelled: the
  output buffer that keeps an interrupted record (`ssl_write_real`,
  `mbedtls_ssl_flush_output`), `accept` and `free` of `net_sockets.c`, and the
  classes of return values of a read. Records, handshake, cryptography and
  certificates belong to mbedtls's own verification. Whether its random
  generator is protected by a lock depends on the build and shows in no state
  of the server. Of the server's own lines more than half (799) stand behind a
  definition; most of the others are the MIME table, declarations, includes,
  blank lines and messages.
- **The path of a request on the disk**: `SetDefaultDocument` and
  `GetFilePosition` rewrite the path, and the file they lead to is an input of
  the model (`target`).
- **Descriptors of served files.** They come from the pool of `accept` and the
  log file, too; `ServerLogger` counts connections and the log file only. A file
  that cannot be opened for want of a descriptor is "not found", which
  `HttpConnection` has as a result for every path.
- **The inside of a connection in `ServerLogger`.** A thread there receives,
  logs, serves and prints as `Logger` has it.
- **What a failed start leaves unreleased**; the process ends right after. Its
  one visible effect is that `FreeServerParams` closes descriptor 0
  (`main.c:12`).
- **Timeouts.** The code has none, neither of a read nor of the handshake:
  `ServingEnds` and `ServedUnlessLockLeaked` let a thread wait in both forever,
  and `EveryoneIsAccepted` assumes that clients act.
- The MIME table, the printing of addresses and the wording of the log.

Seen while modelling, and not the subject of a finding: the NUL of the last
`strcpy` of a full chunk form lands one byte past `response_buffer`
(`http.c:300`; the models carry it as `overrun`, whose effect on the later
`free` is a choice, and `OverrunOnlyByFullChunks` says when); results of
`SendHttpHeader` and of the write that ends a chunked body are ignored
(`http.c:109`, `:136`, `:141`), so a failure there is reported as success, and a
record that SIGINT interrupted there stays unsent while the thread waits for the
next request (`UnsentOnlyAfterUncheckedWrite`); the rest of a partial
`mbedtls_ssl_write`, and what follows an interrupted one, is lost
(`http.c:125`); an interrupted read is parsed as a request and answered
(`http.c:204`); a refused request line loses the blocks of the parser
(`http_parser.c:246`, `NothingLeakedPerCycle` bounds it); `close_notify` is sent
after the socket is closed and so never leaves (`tls_adapter.c:60`); the parser
frees the pointer `strtok_r` has advanced (`http_parser.c:246`); `main` frees
the TLS configuration while detached threads use it (`networking.c:140`, action
`ThreadUsesFreedConf`); a directory served plain is announced with
`Content-Length: -1`, for which `SetResponseContentLength` counts one digit and
allocates 20 bytes where 21 are written (`http_parser.c:119-133`, action
`ContentLengthOverruns`); and a full header refuses even to overwrite a field it
has (`http_parser.c:151`), against `http_parser.h:52-54`, which says that a key
that exists is overwritten. `MapUntilFull` names that exception
(`KeptByFullHeader`); the server's own five keys never fill 128 places, so that
the comment holds of every header it sends (`FewKeysMakeAMap`).

## 6. What is proved

All theorems are about specifications without fairness, and hold for every value of the
constants that satisfies the assumptions of section 3. Each proof of an invariant has the same
form: an invariant `Inv` is shown to hold initially (`InitInv`) and to be
preserved, with one lemma per action and one step per conjunct; the properties
follow from it.

- **`StaticSendProofs`** - `TypeCorrect`, `HeaderIsSent`, `BodyFollowsFile`,
  `CountsStayInStep`, `WholeFileIsSent`: for every buffer size, header, file
  length and fragment size, with writes that fail, fall short or are
  interrupted. The argument rests on `ChunkBounds`: the chunk that
  `ComputeChunkEncodingData` lays out takes something while anything is left,
  never more than is left, and fits its buffer. That in turn needs
  `SaturateIsMin` (the quotient and remainder of `utility.c` compute the
  minimum) and `PowerOfHexRange` (at most eight digits). `Inv` joins
  `HeaderNeverRefused`, `BodyInStepWithFile` and `CountsAgree`; none of them is
  inductive alone, since that nothing is lost relies on the count of the data,
  and the count on the fact that a full request never comes back short from an
  unchanged file. `RetInv` (an error is returned only after a write failed)
  closes the case of the last step. `BodyComplete` then follows: at the end
  `body_sent = file_pos = file_len`. `CheckedInv` (in the plain loop nothing is
  unsent, since its writes are looked at) is used for connections.
- **`ResponseFramingProofs`** - `FramingOfResponses`,
  `OnlyMisprintedSizesAreWrong`, `OnlyFullChunksOverrun`: how a response is
  framed, for every length of file, header and fragment.
  - The size line needs hexadecimal digits. `PowerOfHexIsDigits` identifies the
    loop of `PowerOfHex` with the thresholds 16, 256 and 4096, `SizeLineReads`
    says what a client reads of a line of a given width, and `WidthOfChunk`
    compares the width `ComputeChunkEncodingData` estimates (from the
    data less the bytes of its delimiters) with the one the number needs: with
    data, they differ for 3, 16, 17 and 256 bytes only. `SizeLineStep` carries that to the first write and
    to each turn of the loop. Both theorems on chunks assume `FourDigitChunks`.
  - `OverrunInv` follows the one byte past `response_buffer`: the first write
    never reaches it, what it leaves holds a full chunk exactly when the file is
    large, and the turn that takes that chunk writes the byte. A file that
    changes meanwhile does not matter, because `total_data_size` is taken from
    the length `ftell` reported and never goes up.
  - `ShapeInv` counts headers and ends of body at each point of a call of which
    nothing was lost, including a record that still waits in mbedtls
    (`pending`): the write that flushes it is one that brings nothing
    of its own. A chunked body that fits the first write ends once, any other
    twice, because the first write of an empty file, or a last turn of the loop
    with nothing left, sends a zero chunk before `Ending` does.
- **`HttpConnectionProofs`** - `ConnTypeCorrect`, `EveryCycleStartsClean`,
  `EverythingIsReleased`, `CloseSendsHeaderOnly`, `LeakIsBounded`,
  `EveryResponseIsComplete`, `EveryResponseIsFramed`, `PlainResponsesAreFlushed`,
  `SearchFindsBody`, `SmallFilesAreSafe`, `SessionIsImplemented`: for every set of requests,
  files and buffer sizes, and for connections that are kept for any number of
  requests. `ConnInv` joins the properties with three facts they need:
  `NothingBegun` (no field of a response is set before a file was opened),
  `ServedWhileConnected` (a request that is served came over a context that had
  not failed) and `ResponseInv` (while a response is sent, the sender's own
  `Inv` holds, so that `SendStaticDataInv` is one use of the lemma of
  `StaticSendProofs`). The parser enters by `VerdictType` and by `BlankIsRefused`:
  what a failed read leaves behind is refused, so that nothing is served after
  it. `SessionIsImplemented` is the refinement: `SessionSteps` maps each action
  to a step of `HttpSession` or to a stutter; the step of `OpenStaticFile` needs
  `NothingBegun`, because `isChunkEncoding` is only assigned when the
  request has an Accept-Encoding.
  - What `StaticSendProofs` and `ResponseFramingProofs` say of one call is
    carried to every cycle by invariants that hold while a response is sent:
    `FramedResponseInv`, `CheckedResponseInv` and `SmallFilesInv`. Each is
    established by `OpenStaticFile` whatever the response before left behind,
    an unsent record included. `ReadAfterFlush` then says that the thread goes
    from a response to waiting with such a record only if the last write
    of that response was one the code ignores, and `SmallFilesAreSafe` that
    without large files `response_buffer` is never overrun: two ways are left in
    which a connection can end the process
    (`CrashesOnlyOnRefusalOrDirectory`), the free of a moved pointer after a
    refused request and the Content-Length of a directory served plain.
  - `SearchFindsBody` is about tokens: `AcceptedWithoutBody` shows that a text
    the parser accepts without a body has a head of a single word, and
    `PathIsLineFeed` that the path taken from it is the line feed after it.
    `RequestsAssumption` says that no such path names a file. `ThirdSmallest`,
    `TokenEnds` and `TokenStartCounts` find the place of a token, which the
    definition chooses by counting the tokens before it.
- **`LoggerProofs`** - `TypeCorrect`, `PrintsAreSerialised`,
  `LogFileIsSerialised`, `LeakIsFinal`: for any number of threads. `StdoutInv` adds that
  whoever prints has locked `stdout_mutex`; `LogFileInv` that whoever writes
  the log has locked `server_mutex`, until the first `log_perror` returns.
  `StartInv` says that no thread is under way while main is in `LogInit`.
  `AfterPerrorInv` says that after a `log_perror` `stdout_mutex` stays locked and
  nobody prints, so that no second wrong unlock can come, and that while
  `server_mutex` is free at most one thread writes the log: there are never
  three.
- **`ServerProofs`** - `TypeCorrect`, `NoForeignSocket`, `NoDescriptorLost`,
  `LateAcceptsBounded`: for any clients and descriptors. `SpawnInv`,
  `QueueInv`, `ThreadInv` and `ConnectedInv` follow a client from the queue to
  its thread, so that the client at the end of an accepted socket has no thread
  yet; `LateInv` says that after a late accept main does not come back to
  `accept`. SIGINT may leave main in `accept`, where it is after the test of the
  loop, or send it back to the test.
- **`ServerLoggerProofs`** - `AcceptLoopIsImplemented`, `LoggerIsImplemented`:
  the composition implements `Server` and `Logger`, each with its own variables.
  `ServerKeepsDescriptors` and `ServerLogsInTurn` carry the theorems of the two
  over to the whole: own sockets and no lost descriptor, printing and the log
  file in turn, nobody served after a failed `fopen`.
- **`StartupProofs`** - `TypeCorrect`, `LinesStayInBuffer`, `GrowthIsHarmless`,
  `OnlyConfiguredServerRuns`: for any `default.conf`. The buffer is safe although `size` is never reduced,
  because the file itself bounds what can come: `ReadInv` says
  `conf + line + unread <= conf_size < allocation`. `GrowthInv` says that a
  grown buffer means that the whole file has been read. `ConfiguredInv` says
  that a key is only found in a line that was consumed, that a moved buffer
  belongs to a file with one line at most (so that its strings hold one key at
  most), and that `launch` is only reached with all of them.
- **`ResponseHeaderProofs`** - `TypeCorrect`, `ArrayNeverOverflows`,
  `KeysAreUnique`, `HeaderTextFits`, `HeaderMapUntilFull`, `FewKeysMakeAMap`: for any limit that is a power of two up to 128.
  `RoomForOneMore` is the heart: a count that is not a power of two is below
  the capacity, which always is one. `CountInv` keeps the count at or below
  the limit. `TotalInv` says that `total_byte_length` is the length of the text
  after every call. Its steps (`OnePropertyMore`, `OnePropertyChanged`,
  `LongerStart`) are about the loop of `ResponseToBuff`, with an induction over
  the properties done by the first turn for which a claim fails
  (`SmallestMember`, `TextLengthIsWritten`). `CallSetsField` maps
  a call to `SetField`, whether it appends or replaces (`AppendSetsField`,
  `ReplaceSetsField`), but for a call on a full header, which keeps it;
  `KeysAreCounted` makes the number of fields the number of keys, so that with
  fewer keys than places the header is `NeverFull`.

Only model-checked: liveness, for which TLAPS has no proof rule here (it needs
ENABLED): `SendReturns`, `ServingEnds`, `ServedUnlessLockLeaked`,
`StopsOnceAwoken` and `EveryoneIsAccepted`; and that the parser agrees with the
loop of the C code (`ParserAgreesWithLoop`, a bounded comparison with a
recursive definition). Every invariant, action property and refinement that a
passing run checks is also proved.

## 7. Plan

Done: the sender with interrupted writes, the parser, the connection, the
logger, the server, their composition, the start and the response header, with
their runs and theorems.

What could follow:

1. A composition of several connections with `ServerLogger`, with the
   descriptors of served files in the common pool.
2. Theorems: the safety of each thread in a composition of connections, from
   `ConnInv` and the theorems of `ServerProofs`.
