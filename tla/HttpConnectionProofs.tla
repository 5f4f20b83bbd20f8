------------------------- MODULE HttpConnectionProofs -------------------------
(***************************************************************************)
(* What HandleConnection promises for every set of requests, files and     *)
(* buffer sizes, however long the connection is kept.                      *)
(***************************************************************************)
EXTENDS HttpConnection, ResponseFramingProofs, SequenceTheorems

-----------------------------------------------------------------------------
(* The parser.                                                              *)

LEMMA MinIsMember ==
    ASSUME NEW S \in SUBSET Nat, S # {}
    PROVE  Min(S) \in S /\ \A y \in S : Min(S) <= y
  <1>1. PICK x \in S : \A y \in S : ~ (<<y, x>> \in OpToRel(<, Nat))
    BY NatLessThanWellFounded, WFMin
  <1>2. \A y \in S : x <= y
    <2> SUFFICES ASSUME NEW y \in S PROVE x <= y
      OBVIOUS
    <2>1. x \in Nat /\ y \in Nat
      OBVIOUS
    <2>2. ~ (y < x)
      BY <1>1, <2>1 DEF OpToRel
    <2> QED
      BY <2>1, <2>2
  <1> QED
    BY <1>1, <1>2 DEF Min

LEMMA PartOfText ==
    ASSUME NEW text \in Seq(STRING), NEW m \in Nat \ {0}, NEW n \in 0 .. Len(text)
    PROVE  SubSeq(text, m, n) \in Seq(STRING)
  <1>1. \A i \in m .. n : text[i] \in STRING
    OBVIOUS
  <1> QED
    BY <1>1, SubSeqProperties

\* What the parser makes of a text: its code and the blocks it loses.
LEMMA VerdictType ==
    ASSUME NEW text \in Seq(STRING)
    PROVE  LET verdict == FillHttpRequestHeader(NoHeader, text)
           IN  /\ verdict.code \in {0, kBadRequest, kNotImplemented}
               /\ verdict.leaked \in 0 .. HTTP_HEAD_COUNT
               /\ verdict.code = 0 => verdict.leaked = 0
               /\ verdict.http_header \in HeadersOfTexts
  <1> DEFINE verdict == FillHttpRequestHeader(NoHeader, text)
             raw     == http_header_raw(text)
  <1>1. NoHeader \in HeadersOfTexts /\ [NoHeader EXCEPT !.held = TRUE] \in HeadersOfTexts
    <2>1. <<>> \in Seq(STRING)
      OBVIOUS
    <2> QED
      BY <2>1 DEF NoHeader, HeadersOfTexts
  <1>2. CASE HeadLengths(text) = {}
    <2>1. verdict = Verdict(kBadRequest, 0, NoHeader)
      BY <1>2 DEF FillHttpRequestHeader
    <2> QED
      BY <1>1, <2>1 DEF Verdict, kBadRequest, HTTP_HEAD_COUNT
  <1>3. CASE HeadLengths(text) # {}
    <2>1. Len(text) \in Nat /\ HeadLengths(text) \subseteq 4 .. Len(text)
      BY DEF HeadLengths
    <2>2. Min(HeadLengths(text)) \in 4 .. Len(text)
      <3>1. HeadLengths(text) \in SUBSET Nat
        BY <2>1
      <3>2. Min(HeadLengths(text)) \in HeadLengths(text)
        BY <1>3, <3>1, MinIsMember
      <3> QED
        BY <2>1, <3>2
    <2>3. raw \in Seq(STRING)
      <3>1. 1 \in Nat \ {0} /\ Min(HeadLengths(text)) \in 0 .. Len(text)
        BY <2>1, <2>2
      <3> QED
        BY <3>1, PartOfText DEF http_header_raw
    <2> HIDE DEF raw
    <2>4. CASE Refused(raw) # {}
      <3>1. Refused(raw) \in SUBSET Nat /\ Refused(raw) \subseteq 1 .. 3
        BY DEF Refused, HTTP_HEAD_COUNT
      <3>2. Min(Refused(raw)) \in 1 .. 3
        BY <2>4, <3>1, MinIsMember
      <3>3. verdict = Verdict(kBadRequest, Min(Refused(raw)), NoHeader)
        BY <1>3, <2>4 DEF FillHttpRequestHeader, raw
      <3> HIDE DEF verdict
      <3>4. /\ verdict.code = kBadRequest /\ verdict.http_header = NoHeader
            /\ verdict.leaked = Min(Refused(raw))
        BY <3>3 DEF Verdict
      <3>5. /\ verdict.code \in {0, kBadRequest, kNotImplemented} /\ verdict.code # 0
            /\ verdict.leaked \in 0 .. HTTP_HEAD_COUNT
            /\ verdict.http_header \in HeadersOfTexts
        BY <1>1, <3>2, <3>4 DEF kBadRequest, HTTP_HEAD_COUNT
      <3> QED
        BY <3>5 DEF verdict
    <2>5. CASE Refused(raw) = {} /\ ~Occurs("GET", Token(raw, 1))
      <3>1. verdict = Verdict(kNotImplemented, 1, [NoHeader EXCEPT !.held = TRUE])
        BY <1>3, <2>5 DEF FillHttpRequestHeader, raw
      <3> QED
        BY <1>1, <3>1 DEF Verdict, kNotImplemented, HTTP_HEAD_COUNT
    <2>6. CASE Refused(raw) = {} /\ Occurs("GET", Token(raw, 1))
      <3>1. verdict = Verdict(0, 0, HeaderHolding(raw))
        BY <1>3, <2>6 DEF FillHttpRequestHeader, raw
      <3>2. HeaderHolding(raw).body \in Seq(STRING)
        <4>1. CASE BodyFeeds(raw) = {}
          <5>1. HeaderHolding(raw).body = <<>>
            BY <4>1 DEF HeaderHolding
          <5> QED
            BY <5>1
        <4>2. CASE BodyFeeds(raw) # {}
          <5>1. Len(raw) \in Nat /\ DOMAIN raw = 1 .. Len(raw)
            BY <2>3
          <5>2. BodyFeeds(raw) \in SUBSET Nat
            BY <5>1 DEF BodyFeeds
          <5>3. Min(BodyFeeds(raw)) + 1 \in Nat \ {0} /\ Len(raw) \in 0 .. Len(raw)
            BY <4>2, <5>1, <5>2, MinIsMember
          <5>4. SubSeq(raw, Min(BodyFeeds(raw)) + 1, Len(raw)) \in Seq(STRING)
            BY <2>3, <5>3, PartOfText
          <5> QED
            BY <4>2, <5>4 DEF HeaderHolding
        <4> QED
          BY <4>1, <4>2
      <3>3. HeaderHolding(raw) \in HeadersOfTexts
        BY <3>2 DEF HeaderHolding, HeadersOfTexts
      <3> QED
        BY <3>1, <3>3 DEF Verdict, HTTP_HEAD_COUNT
    <2> QED
      BY <2>4, <2>5, <2>6
  <1> QED
    BY <1>2, <1>3

\* A blank buffer is a bad request.
LEMMA BlankIsRefused ==
    LET verdict == FillHttpRequestHeader(NoHeader, Blank.text)
    IN  verdict.code = kBadRequest /\ verdict.leaked = 0 /\ verdict.http_header = NoHeader
  <1>1. HeadLengths(<<>>) = {}
    BY DEF HeadLengths
  <1> QED
    BY <1>1 DEF Blank, FillHttpRequestHeader, Verdict

-----------------------------------------------------------------------------
(* The invariant of the connection.                                         *)

\* Until a response begins, the fields it is computed from are those RunServer
\* or FlushThreadData left.
NothingBegun ==
    pc \in {"handshake", "read", "parse", "log_request", "open"} =>
        /\ static_file_size = 0 /\ ~isChunkEncoding /\ static_file = "null"
        /\ ~overrun /\ response_blank
        /\ pc \notin {"log_request", "open"} => http_header = NoHeader
        /\ pc = "handshake" => request_buffer = Blank

\* A lost client leaves nothing to parse, so that only a request that was read is
\* answered with a file.
ServedWhileConnected ==
    /\ pc = "parse" => ssl = "ready" \/ request_buffer = Blank
    /\ pc \in {"log_request", "open", "send"} => ssl = "ready" /\ request_buffer \in Requests

\* SendStaticData runs as StaticSend has it.
ResponseInv == pc = "send" => Inv

ConnInv ==
    /\ ConnTypeOK
    /\ CleanReceiveCycle
    /\ ReleasedAtTheEnd
    /\ CloseHeaderHasNoTail
    /\ NothingLeakedPerCycle
    /\ NothingBegun
    /\ ServedWhileConnected
    /\ ResponseInv

LEMMA TargetSizes ==
    ASSUME NEW target \in Targets
    PROVE  /\ target \in Int
           /\ target < 0 => target \in {kNotFound, kBadRequest}
           /\ target >= 0 => target \in FileSizes \cup {LONG_MAX}
           /\ AtLeastZero(IntOf(target)) \in FileSizes \cup {0}
  BY SizesAssumption DEF Targets, kNotFound, kBadRequest, AtLeastZero, IntOf

LEMMA ConnInitInv == ConnInit => ConnInv
  <1> SUFFICES ASSUME ConnInit PROVE ConnInv
    OBVIOUS
  <1>1. FlagsType
    BY DEF ConnInit, FlagsType
  <1>2. FileType /\ CallType /\ WireType
    BY DEF ConnInit, FileType, CallType, WireType, Contents, Nothing
  <1>3. http_header \in HeadersOfTexts
    <2>1. <<>> \in Seq(STRING)
      OBVIOUS
    <2> QED
      BY <2>1 DEF ConnInit, NoHeader, HeadersOfTexts
  <1>4. ConnTypeOK
    BY <1>1, <1>2, <1>3 DEF ConnInit, ConnTypeOK
  <1>5. CleanReceiveCycle /\ ReleasedAtTheEnd /\ CloseHeaderHasNoTail /\ ResponseInv
    BY DEF ConnInit, CleanReceiveCycle, ReleasedAtTheEnd, CloseHeaderHasNoTail, ResponseInv
  <1>6. NothingLeakedPerCycle /\ NothingBegun /\ ServedWhileConnected
    BY DEF ConnInit, NothingLeakedPerCycle, NothingBegun, ServedWhileConnected, HTTP_HEAD_COUNT
  <1> QED
    BY <1>4, <1>5, <1>6 DEF ConnInv

-----------------------------------------------------------------------------
(* Every step keeps it.                                                     *)

\* The steps that touch neither the response nor what was leaked.
LEMMA TypesKept ==
    ASSUME ConnTypeOK, UNCHANGED vars, UNCHANGED seen,
           request_buffer' \in Requests \cup {Blank},
           response_blank' \in BOOLEAN, http_header' \in HeadersOfTexts,
           static_file' \in {"null", "open"}, client_fd' \in {"open", "closed"},
           ssl' \in {"new", "ready", "failed", "freed"},
           pc' \in {"handshake", "read", "parse", "open", "send", "error",
                    "close", "free", "freed", "crashed"} \cup LogCalls
    PROVE  ConnTypeOK'
  <1> USE DEF vars, inputs, file, call, wire, seen
  <1>1. FlagsType' /\ FileType'
    BY DEF ConnTypeOK, FlagsType, FileType
  <1>2. CallType' /\ WireType'
    BY DEF ConnTypeOK, CallType, WireType
  <1> QED
    BY <1>1, <1>2 DEF ConnTypeOK

LEMMA HandshakeInv ==
    ASSUME ConnInv, ServerTlsSessionInit
    PROVE  ConnInv'
  <1>1. /\ pc = "handshake"
        /\ \/ pc' = "read" /\ ssl' = "ready"
           \/ pc' = "log_session" /\ ssl' = "failed"
        /\ UNCHANGED <<vars, buffers, http_header, static_file, client_fd, seen>>
    BY DEF ServerTlsSessionInit
  <1>2. ConnTypeOK'
    BY <1>1, TypesKept DEF ConnInv, ConnTypeOK, buffers, LogCalls
  <1>3. UNCHANGED <<static_file_size, isChunkEncoding, overrun, leaked>>
    BY <1>1 DEF vars, inputs, call, seen
  <1>4. NothingBegun' /\ ServedWhileConnected' /\ ResponseInv' /\ CloseHeaderHasNoTail'
    BY <1>1, <1>3 DEF ConnInv, NothingBegun, ServedWhileConnected, ResponseInv,
                      CloseHeaderHasNoTail, buffers
  <1>5. CleanReceiveCycle' /\ ReleasedAtTheEnd' /\ NothingLeakedPerCycle'
    BY <1>1, <1>3 DEF ConnInv, NothingBegun, CleanReceiveCycle, ReleasedAtTheEnd,
                      NothingLeakedPerCycle, buffers
  <1> QED
    BY <1>2, <1>4, <1>5 DEF ConnInv

LEMMA ReadInv ==
    ASSUME ConnInv, ClientActs, ~ServerTlsSessionInit
    PROVE  ConnInv'
  <1>1. PICK result \in {"ready", "failed"}, next \in {"parse", "log_recv", "free", "close"},
             buffer \in Requests \cup {Blank} :
            /\ Read(result, next, buffer)
            /\ result = "ready" \/ buffer = Blank
    BY DEF ConnInv, CleanReceiveCycle, ConnTypeOK, ClientActs, ReadRequest, ReadFails, Read,
           ReadIsInterrupted, ReadIsOtherError, ReadIsEof
  <1>2. /\ pc = "read" /\ pc' = next
        /\ ssl' = result
        /\ request_buffer' = buffer
        /\ UNCHANGED <<vars, response_blank, http_header, static_file, client_fd, seen>>
    BY <1>1 DEF Read
  <1>3. ConnTypeOK'
    BY <1>2, TypesKept DEF ConnInv, ConnTypeOK, LogCalls
  <1>4. UNCHANGED <<static_file_size, isChunkEncoding, overrun, leaked>>
    BY <1>2 DEF vars, inputs, call, seen
  <1>5. NothingBegun' /\ ServedWhileConnected' /\ ResponseInv' /\ CloseHeaderHasNoTail'
    BY <1>1, <1>2, <1>4 DEF ConnInv, CleanReceiveCycle, NothingBegun, ServedWhileConnected,
                            ResponseInv, CloseHeaderHasNoTail
  <1>6. CleanReceiveCycle' /\ ReleasedAtTheEnd' /\ NothingLeakedPerCycle'
    BY <1>2, <1>4 DEF ConnInv, CleanReceiveCycle, ReleasedAtTheEnd, NothingLeakedPerCycle
  <1> QED
    BY <1>3, <1>5, <1>6 DEF ConnInv

LEMMA ParseInv ==
    ASSUME ConnInv, Parse
    PROVE  ConnInv'
  <1> DEFINE verdict == FillHttpRequestHeader(http_header, request_buffer.text)
  <1>1. /\ pc = "parse"
        /\ \/ pc' = IF verdict.code < 0 THEN "error" ELSE "log_request"
           \/ verdict.code = kBadRequest /\ verdict.leaked > 0 /\ pc' = "crashed"
        /\ http_header' = verdict.http_header
        /\ error_code' = verdict.code
        /\ leaked' = leaked + verdict.leaked
        /\ UNCHANGED <<vars, buffers, static_file, socket, error_text, used_after_failure>>
    BY DEF Parse, Parsed
  <1>2. /\ http_header = NoHeader /\ leaked = 0
        /\ request_buffer \in Requests \cup {Blank} /\ (ssl = "ready" \/ request_buffer = Blank)
    BY <1>1 DEF ConnInv, ConnTypeOK, NothingBegun, ServedWhileConnected, NothingLeakedPerCycle
  <1>3. /\ verdict.code \in {0, kBadRequest, kNotImplemented}
        /\ verdict.leaked \in 0 .. HTTP_HEAD_COUNT
        /\ verdict.code = 0 => verdict.leaked = 0 /\ request_buffer # Blank
        /\ verdict.http_header \in HeadersOfTexts
    <2>1. request_buffer.text \in Seq(STRING)
      <3>1. Blank.text \in Seq(STRING)
        <4>1. <<>> \in Seq(STRING)
          OBVIOUS
        <4> QED
          BY <4>1 DEF Blank
      <3>2. \A request \in Requests : request.text \in Seq(STRING)
        BY RequestsAssumption
      <3> QED
        BY <1>2, <3>1, <3>2
    <2> QED
      BY <1>2, <2>1, VerdictType, BlankIsRefused DEF kBadRequest
  <1> HIDE DEF verdict
  <1>4. /\ pc' \in {"error", "log_request", "crashed"}
        /\ pc' = "log_request" => leaked' = 0 /\ request_buffer # Blank
        /\ leaked' \in 0 .. HTTP_HEAD_COUNT
    BY <1>1, <1>2, <1>3 DEF kBadRequest, kNotImplemented
  <1>5. ConnTypeOK'
    <2>1. FlagsType' /\ FileType'
      BY <1>1 DEF ConnInv, ConnTypeOK, FlagsType, FileType, vars, inputs, file, call, wire
    <2>2. CallType' /\ WireType'
      BY <1>1 DEF ConnInv, ConnTypeOK, CallType, WireType, vars, call, wire
    <2>3. leaked' \in Nat
      BY <1>4 DEF HTTP_HEAD_COUNT
    <2> QED
      BY <1>1, <1>3, <1>4, <2>1, <2>2, <2>3
      DEF ConnInv, ConnTypeOK, LogCalls, vars, inputs, buffers, socket
  <1>6. UNCHANGED <<static_file_size, isChunkEncoding, overrun>>
    BY <1>1 DEF vars, inputs, call
  <1>7. NothingBegun' /\ ServedWhileConnected' /\ ResponseInv' /\ CloseHeaderHasNoTail'
    BY <1>1, <1>2, <1>4, <1>6 DEF ConnInv, NothingBegun, ServedWhileConnected, ResponseInv,
                                  CloseHeaderHasNoTail, buffers, socket
  <1>8. CleanReceiveCycle' /\ ReleasedAtTheEnd'
    BY <1>1, <1>4 DEF ConnInv, CleanReceiveCycle, ReleasedAtTheEnd, socket
  <1>9. NothingLeakedPerCycle'
    BY <1>4 DEF NothingLeakedPerCycle, HTTP_HEAD_COUNT
  <1> QED
    BY <1>5, <1>7, <1>8, <1>9 DEF ConnInv

LEMMA LoggerReturnsInv ==
    ASSUME ConnInv, LoggerReturns
    PROVE  ConnInv'
  <1>1. /\ pc \in LogCalls
        /\ pc' = IF pc = "log_request" THEN "open" ELSE "free"
        /\ UNCHANGED <<vars, buffers, http_header, static_file, socket, seen>>
    BY DEF LoggerReturns
  <1>2. ConnTypeOK'
    BY <1>1, TypesKept DEF ConnInv, ConnTypeOK, buffers, socket
  <1>3. UNCHANGED <<static_file_size, isChunkEncoding, overrun, leaked>>
    BY <1>1 DEF vars, inputs, call, seen
  <1>4. NothingBegun' /\ ServedWhileConnected' /\ ResponseInv' /\ CloseHeaderHasNoTail'
    BY <1>1, <1>3 DEF ConnInv, NothingBegun, ServedWhileConnected, ResponseInv,
                      CloseHeaderHasNoTail, LogCalls, buffers, socket
  <1>5. CleanReceiveCycle' /\ ReleasedAtTheEnd' /\ NothingLeakedPerCycle'
    BY <1>1, <1>3 DEF ConnInv, CleanReceiveCycle, ReleasedAtTheEnd, NothingLeakedPerCycle,
                      LogCalls, socket
  <1> QED
    BY <1>2, <1>4, <1>5 DEF ConnInv

LEMMA OpenStaticFileFailsInv ==
    ASSUME ConnInv, OpenStaticFileFails
    PROVE  ConnInv'
  <1>1. /\ pc = "open" /\ pc' = "error"
        /\ request_buffer.target < 0
        /\ static_file_size' = request_buffer.target
        /\ error_code' = request_buffer.target
        /\ static_file' \in {static_file, "open"}
        /\ UNCHANGED <<isKeepAlive, isChunkEncoding, header_len, fragment, found_left, file, call,
                       link, wire, buffers, http_header, socket, error_text, used_after_failure,
                       leaked>>
    BY DEF OpenStaticFileFails
  <1>2. request_buffer \in Requests
    BY <1>1 DEF ConnInv, ServedWhileConnected
  <1>3. static_file_size' \in Targets /\ error_code' \in {kNotFound, kBadRequest}
    <2>1. request_buffer.target \in Targets
      BY <1>2, RequestsAssumption
    <2> QED
      BY <1>1, <2>1, TargetSizes
  <1>4. FlagsType' /\ FileType'
    BY <1>1 DEF ConnInv, ConnTypeOK, FlagsType, FileType, file, call, wire
  <1>5. CallType' /\ WireType'
    BY <1>1 DEF ConnInv, ConnTypeOK, CallType, WireType, call, wire
  <1>6. ConnTypeOK'
    BY <1>1, <1>3, <1>4, <1>5 DEF ConnInv, ConnTypeOK, buffers, socket
  <1>7. NothingBegun' /\ ServedWhileConnected' /\ ResponseInv' /\ CloseHeaderHasNoTail'
    BY <1>1 DEF NothingBegun, ServedWhileConnected, ResponseInv, CloseHeaderHasNoTail
  <1>8. CleanReceiveCycle' /\ ReleasedAtTheEnd' /\ NothingLeakedPerCycle'
    BY <1>1 DEF ConnInv, CleanReceiveCycle, ReleasedAtTheEnd, NothingLeakedPerCycle, socket
  <1> QED
    BY <1>6, <1>7, <1>8 DEF ConnInv

LEMMA OpenStaticFileInv ==
    ASSUME ConnInv, OpenStaticFile
    PROVE  ConnInv'
  <1> DEFINE target == request_buffer.target
  <1>1. /\ pc = "open" /\ pc' = "send" /\ target >= 0
        /\ static_file' = "open" /\ static_file_size' = target
        /\ file_len' = AtLeastZero(IntOf(target)) /\ file_pos' = 0 /\ touched' = FALSE
        /\ send_pc' = "first" /\ total_data_size' = 0 /\ ret' = 0
        /\ headers' = 0 /\ body_sent' = 0 /\ bad_chunks' = 0 /\ endings' = 0 /\ lost' = 0
        /\ pending' = Nothing /\ out_left' = out_left /\ found_left' = out_left
        /\ header_len' \in HeaderLens
        /\ UNCHANGED <<fragment, overrun, link, buffers, http_header, socket, seen>>
    BY DEF OpenStaticFile, FileOpened, StreamCountsRestart
  <1>2. isKeepAlive' \in BOOLEAN /\ isChunkEncoding' \in BOOLEAN
    BY DEF OpenStaticFile, AsksKeepAlive, AcceptsChunks, AsksChunked, Occurs,
           ConnInv, ConnTypeOK, FlagsType
  <1>3. request_buffer \in Requests /\ ssl = "ready" /\ leaked = 0
    BY <1>1 DEF ConnInv, ConnTypeOK, ServedWhileConnected, NothingLeakedPerCycle
  <1>4. /\ target \in FileSizes \cup {LONG_MAX} /\ target \in Targets
        /\ AtLeastZero(IntOf(target)) \in FileSizes \cup {0}
    <2>1. target \in Targets
      BY <1>3, RequestsAssumption
    <2> QED
      BY <1>1, <2>1, TargetSizes
  <1> HIDE DEF target
  <1>5. FlagsType'
    BY <1>1, <1>2 DEF ConnInv, ConnTypeOK, FlagsType
  <1>6. FileType' /\ CallType' /\ WireType'
    BY <1>1, <1>4 DEF FileType, CallType, WireType, Contents, Nothing
  <1>7. ConnTypeOK'
    BY <1>1, <1>4, <1>5, <1>6 DEF ConnInv, ConnTypeOK, buffers, socket, seen
  <1>8. ResponseInv'
    <2>1. TypeOK'
      BY <1>1, <1>4, <1>5, <1>6 DEF TypeOK, InputsType, ConnInv, ConnTypeOK
    <2>2. HeaderNeverRefused' /\ BodyInStepWithFile' /\ CountsAgree'
      <3>1. HeaderNeverRefused' /\ BodyInStepWithFile'
        BY <1>1 DEF HeaderNeverRefused, BodyInStepWithFile, Nothing
      <3>2. FileSizes \subseteq Nat
        BY SizesAssumption
      <3>3. file_len' \in Nat
        BY <1>6, <3>2 DEF FileType
      <3>4. IntOf(static_file_size)' = IntOf(target)
        BY <1>1 DEF IntOf
      <3> QED
        BY <1>1, <3>1, <3>3, <3>4 DEF CountsAgree
    <2>3. PendingInv' /\ FirstInv' /\ RetInv'
      BY <1>1 DEF PendingInv, FirstInv, RetInv
    <2> QED
      BY <2>1, <2>2, <2>3 DEF ResponseInv, Inv
  <1>9. NothingBegun' /\ ServedWhileConnected' /\ CloseHeaderHasNoTail'
    BY <1>1, <1>3 DEF NothingBegun, ServedWhileConnected, CloseHeaderHasNoTail, buffers, socket
  <1>10. CleanReceiveCycle' /\ ReleasedAtTheEnd' /\ NothingLeakedPerCycle'
    BY <1>1, <1>3 DEF ConnInv, CleanReceiveCycle, ReleasedAtTheEnd, NothingLeakedPerCycle,
                      socket, seen, HTTP_HEAD_COUNT
  <1> QED
    BY <1>7, <1>8, <1>9, <1>10 DEF ConnInv

\* A step of StaticSend within the response.
LEMMA ResponseGoesOn ==
    ASSUME ConnInv, pc = "send", Inv', UNCHANGED inputs, overrun' \in BOOLEAN,
           response_blank' \in BOOLEAN,
           UNCHANGED <<pc, request_buffer, http_header, static_file, socket, seen>>
    PROVE  ConnInv'
  <1>1. ConnTypeOK'
    BY DEF ConnInv, ConnTypeOK, Inv, TypeOK, InputsType, inputs, socket, seen
  <1>2. NothingBegun' /\ ServedWhileConnected' /\ ResponseInv' /\ CloseHeaderHasNoTail'
    BY DEF ConnInv, NothingBegun, ServedWhileConnected, ResponseInv, CloseHeaderHasNoTail, socket
  <1>3. CleanReceiveCycle' /\ ReleasedAtTheEnd' /\ NothingLeakedPerCycle'
    BY DEF ConnInv, CleanReceiveCycle, ReleasedAtTheEnd, NothingLeakedPerCycle, socket, seen
  <1> QED
    BY <1>1, <1>2, <1>3 DEF ConnInv

LEMMA SendStaticDataInv ==
    ASSUME Inv, SendStaticData
    PROVE  Inv' /\ UNCHANGED inputs /\ send_pc \in {"first", "loop", "ending"}
  <1>1. CASE First
    BY <1>1, FirstPlainInv, FirstChunkedInv DEF First
  <1>2. CASE Loop
    BY <1>2, LoopPlainInv, LoopChunkedInv DEF Loop
  <1>3. CASE Ending
    BY <1>3, EndingInv DEF Ending
  <1> QED
    BY <1>1, <1>2, <1>3 DEF SendStaticData

LEMMA SendInv ==
    ASSUME ConnInv, Send
    PROVE  ConnInv'
  <1>1. /\ pc = "send" /\ SendStaticData
        /\ UNCHANGED <<pc, request_buffer, http_header, static_file, socket, seen>>
    BY DEF Send
  <1>2. Inv' /\ UNCHANGED inputs /\ send_pc \in {"first", "loop", "ending"}
    BY <1>1, SendStaticDataInv DEF ConnInv, ResponseInv
  <1>3. response_blank' = CASE send_pc = "first"  -> response_blank /\ ~isChunkEncoding
                                                       /\ file_pos' = file_pos
                            [] send_pc = "loop"   -> ret' = 0
                            [] send_pc = "ending" -> response_blank
    BY DEF Send
  <1>4. response_blank' \in BOOLEAN
    <2>1. CASE send_pc = "first"
      BY <1>3, <2>1
    <2>2. CASE send_pc = "loop"
      BY <1>3, <2>2
    <2>3. CASE send_pc = "ending"
      BY <1>3, <2>3 DEF ConnInv, ConnTypeOK
    <2> QED
      BY <1>2, <2>1, <2>2, <2>3
  <1> QED
    BY <1>1, <1>2, <1>4, ResponseGoesOn DEF Inv, TypeOK, FlagsType

LEMMA SentFileChangesInv ==
    ASSUME ConnInv, SentFileChanges
    PROVE  ConnInv'
  <1>1. pc = "send" /\ FileChanges /\ UNCHANGED connection
    BY DEF SentFileChanges
  <1>2. Inv' /\ UNCHANGED inputs
    BY <1>1, FileChangesInv DEF ConnInv, ResponseInv, FileChanges
  <1>3. overrun' \in BOOLEAN
    BY <1>2 DEF Inv, TypeOK, FlagsType
  <1>4. /\ response_blank' \in BOOLEAN
        /\ UNCHANGED <<pc, request_buffer, http_header, static_file, socket, seen>>
    BY <1>1 DEF connection, buffers, ConnInv, ConnTypeOK
  <1> QED
    BY <1>1, <1>2, <1>3, <1>4, ResponseGoesOn

LEMMA SendEndsConnectionInv ==
    ASSUME ConnInv, SendEndsConnection \/ ContentLengthOverruns
    PROVE  ConnInv'
  <1>1. /\ pc = "send" /\ pc' \in {"log_send", "free", "crashed"}
        /\ UNCHANGED <<vars, buffers, http_header, static_file, socket, seen>>
    BY DEF SendEndsConnection, ContentLengthOverruns
  <1>2. ConnTypeOK'
    BY <1>1, TypesKept DEF ConnInv, ConnTypeOK, LogCalls, buffers, socket
  <1>3. NothingBegun' /\ ServedWhileConnected' /\ ResponseInv' /\ CloseHeaderHasNoTail'
    BY <1>1 DEF NothingBegun, ServedWhileConnected, ResponseInv, CloseHeaderHasNoTail
  <1>4. CleanReceiveCycle' /\ ReleasedAtTheEnd' /\ NothingLeakedPerCycle'
    BY <1>1 DEF ConnInv, CleanReceiveCycle, ReleasedAtTheEnd, NothingLeakedPerCycle, socket, seen
  <1> QED
    BY <1>2, <1>3, <1>4 DEF ConnInv

LEMMA FlushThreadDataInv ==
    ASSUME ConnInv, FlushThreadData
    PROVE  ConnInv'
  <1>1. /\ pc = "send" /\ (pc' = "read" \/ (overrun /\ pc' = "crashed"))
        /\ request_buffer' = Blank /\ response_blank' = TRUE
        /\ static_file' = "null" /\ static_file_size' = 0
        /\ file_len' = 0 /\ file_pos' = 0 /\ touched' = FALSE
        /\ isChunkEncoding' = FALSE /\ http_header' = NoHeader /\ overrun' = FALSE
        /\ send_pc' = "done" /\ total_data_size' = 0 /\ ret' = 0
        /\ headers' = 0 /\ body_sent' = 0 /\ bad_chunks' = 0 /\ endings' = 0 /\ lost' = 0
        /\ pending' = Nothing /\ out_left' = out_left
        /\ UNCHANGED <<isKeepAlive, header_len, fragment, found_left, link, socket, seen>>
    BY DEF FlushThreadData, BuffersCleared, FileClosed, FreeHttpRequestHeader, StreamCountsRestart
  <1>2. FlagsType'
    BY <1>1 DEF ConnInv, ConnTypeOK, FlagsType
  <1>3. FileType' /\ CallType' /\ WireType'
    BY <1>1 DEF FileType, CallType, WireType, Contents, Nothing
  <1>4. http_header' \in HeadersOfTexts
    <2>1. <<>> \in Seq(STRING)
      OBVIOUS
    <2> QED
      BY <1>1, <2>1 DEF NoHeader, HeadersOfTexts
  <1>5. ConnTypeOK'
    BY <1>1, <1>2, <1>3, <1>4 DEF ConnInv, ConnTypeOK, socket, seen
  <1>6. NothingBegun' /\ ServedWhileConnected' /\ ResponseInv' /\ CloseHeaderHasNoTail'
    BY <1>1 DEF NothingBegun, ServedWhileConnected, ResponseInv, CloseHeaderHasNoTail
  <1>7. CleanReceiveCycle' /\ ReleasedAtTheEnd' /\ NothingLeakedPerCycle'
    BY <1>1 DEF ConnInv, ServedWhileConnected, CleanReceiveCycle, ReleasedAtTheEnd,
                NothingLeakedPerCycle, socket, seen
  <1> QED
    BY <1>5, <1>6, <1>7 DEF ConnInv

\* A write that holds nothing of a response, whatever its result.
LEMMA WriteOfNothing ==
    ASSUME FlagsType, WireType, fragment \in Fragments, NEW result \in WriteResults,
           Write(result, 0, Nothing, 0)
    PROVE  WireType' /\ link' \in BOOLEAN /\ out_left' \in BOOLEAN
  <1> DEFINE len   == 0 + Nothing.body + 0
             taken == IF out_left THEN 0 ELSE Smaller(len, fragment)
             first == IF out_left THEN pending
                      ELSE [Nothing EXCEPT !.body = AtLeastZero(Smaller(Nothing.body, taken - 0))]
  <1>1. len = 0 /\ fragment \in Nat \ {0}
    BY SizesAssumption DEF Nothing
  <1>2. taken = 0
    BY <1>1 DEF Smaller
  <1>3. first \in Contents /\ Nothing \in Contents
    <2>1. AtLeastZero(Smaller(Nothing.body, taken - 0)) = 0
      BY <1>2 DEF Nothing, AtLeastZero, Smaller
    <2> HIDE DEF taken
    <2> QED
      BY <2>1 DEF Nothing, Contents, WireType
  <1>4. \/ link' = FALSE /\ UNCHANGED wire
        \/ /\ link' = TRUE
           /\ headers' = headers + first.headers /\ body_sent' = body_sent + first.body
           /\ bad_chunks' = bad_chunks + first.bad_chunks /\ endings' = endings + first.endings
           /\ lost' = lost + (len - taken)
           /\ out_left' = FALSE /\ pending' = Nothing
        \/ /\ link' = TRUE
           /\ lost' = lost + (len - taken)
           /\ out_left' = TRUE /\ pending' = first
           /\ UNCHANGED <<headers, body_sent, bad_chunks, endings>>
    BY DEF Write
  <1> HIDE DEF len, taken, first
  <1>5. /\ first.headers \in Nat /\ first.body \in Nat
        /\ first.bad_chunks \in Nat /\ first.endings \in Nat
    BY <1>3 DEF Contents
  <1>6. link' \in BOOLEAN /\ out_left' \in BOOLEAN
    BY <1>4 DEF wire, FlagsType
  <1>7. WireType'
    <2>1. CASE UNCHANGED wire
      BY <2>1 DEF WireType, wire
    <2>2. CASE lost' = lost + (len - taken) /\ pending' = Nothing
      BY <2>2, <1>1, <1>2, <1>3, <1>4, <1>5 DEF WireType, wire
    <2>3. CASE lost' = lost + (len - taken) /\ pending' = first
      BY <2>3, <1>1, <1>2, <1>3, <1>4, <1>5 DEF WireType, wire
    <2> QED
      BY <1>4, <2>1, <2>2, <2>3
  <1> QED
    BY <1>6, <1>7

\* The last steps, which leave the response as it is.
LEMMA LastStepTypes ==
    ASSUME ConnTypeOK, UNCHANGED inputs, UNCHANGED file,
           UNCHANGED <<send_pc, total_data_size, ret>>,
           overrun' \in BOOLEAN, link' \in BOOLEAN, out_left' \in BOOLEAN, WireType'
    PROVE  FlagsType' /\ FileType' /\ CallType' /\ header_len' \in HeaderLens
           /\ fragment' \in Fragments /\ static_file_size' \in Targets \cup {0}
  <1>1. FlagsType'
    BY DEF ConnTypeOK, FlagsType, inputs, file
  <1>2. FileType' /\ CallType'
    BY DEF ConnTypeOK, FileType, CallType, file
  <1> QED
    BY <1>1, <1>2 DEF ConnTypeOK, inputs

LEMMA AnswerInv ==
    ASSUME ConnInv, HandleError \/ CloseConnection
    PROVE  ConnInv'
  <1>1. /\ pc \in {"error", "close"} /\ pc' = "free"
        /\ response_blank' \in BOOLEAN
        /\ error_text' \in {"none", "response", "request"}
        /\ UNCHANGED <<inputs, file, call, request_buffer, http_header, static_file, socket,
                       error_code, leaked>>
    BY DEF HandleError, CloseConnection, buffers, ConnInv, ConnTypeOK
  <1>2. used_after_failure' \in BOOLEAN
    BY DEF HandleError, CloseConnection, ConnInv, ConnTypeOK
  <1>3. FlagsType /\ WireType /\ fragment \in Fragments
    BY DEF ConnInv, ConnTypeOK
  <1>4. WireType' /\ link' \in BOOLEAN /\ out_left' \in BOOLEAN
    <2>1. CASE \E result \in WriteResults : Write(result, 0, Nothing, 0)
      BY <2>1, <1>3, WriteOfNothing
    <2>2. CASE UNCHANGED <<link, wire>>
      BY <2>2, <1>3 DEF FlagsType, WireType, wire
    <2> QED
      BY <2>1, <2>2 DEF HandleError, CloseConnection
  <1>5. overrun' \in BOOLEAN
    BY <1>1, <1>3 DEF FlagsType, call
  <1>6. ConnTypeOK'
    <2>1. FlagsType' /\ FileType' /\ CallType' /\ header_len' \in HeaderLens
          /\ fragment' \in Fragments /\ static_file_size' \in Targets \cup {0}
      BY <1>1, <1>4, <1>5, LastStepTypes DEF ConnInv, call
    <2> QED
      BY <1>1, <1>2, <1>4, <2>1 DEF ConnInv, ConnTypeOK, socket
  <1>7. NothingBegun' /\ ServedWhileConnected' /\ ResponseInv' /\ CloseHeaderHasNoTail'
    BY <1>1 DEF NothingBegun, ServedWhileConnected, ResponseInv, CloseHeaderHasNoTail
  <1>8. CleanReceiveCycle' /\ ReleasedAtTheEnd' /\ NothingLeakedPerCycle'
    BY <1>1 DEF ConnInv, CleanReceiveCycle, ReleasedAtTheEnd, NothingLeakedPerCycle, socket
  <1> QED
    BY <1>6, <1>7, <1>8 DEF ConnInv

LEMMA FreeThreadDataInv ==
    ASSUME ConnInv, FreeThreadData
    PROVE  ConnInv'
  <1>1. /\ pc = "free" /\ pc' \in {"freed", "crashed"}
        /\ static_file' = "null" /\ client_fd' = "closed" /\ ssl' = "freed"
        /\ http_header' = NoHeader /\ overrun' = FALSE
        /\ UNCHANGED <<inputs, file, send_pc, total_data_size, ret, link, wire, buffers, seen>>
    BY DEF FreeThreadData, ServerTlsSessionFree, FreeHttpRequestHeader
  <1>2. WireType' /\ link' \in BOOLEAN /\ out_left' \in BOOLEAN /\ overrun' \in BOOLEAN
    BY <1>1 DEF ConnInv, ConnTypeOK, FlagsType, WireType, wire
  <1>3. http_header' \in HeadersOfTexts
    <2>1. <<>> \in Seq(STRING)
      OBVIOUS
    <2> QED
      BY <1>1, <2>1 DEF NoHeader, HeadersOfTexts
  <1>4. ConnTypeOK'
    <2>1. FlagsType' /\ FileType' /\ CallType' /\ header_len' \in HeaderLens
          /\ fragment' \in Fragments /\ static_file_size' \in Targets \cup {0}
      BY <1>1, <1>2, LastStepTypes DEF ConnInv
    <2> QED
      BY <1>1, <1>2, <1>3, <2>1 DEF ConnInv, ConnTypeOK, buffers, seen
  <1>5. NothingBegun' /\ ServedWhileConnected' /\ ResponseInv' /\ CloseHeaderHasNoTail'
    BY <1>1 DEF NothingBegun, ServedWhileConnected, ResponseInv, CloseHeaderHasNoTail
  <1>6. CleanReceiveCycle' /\ ReleasedAtTheEnd' /\ NothingLeakedPerCycle'
    BY <1>1 DEF ConnInv, CleanReceiveCycle, ReleasedAtTheEnd, NothingLeakedPerCycle, seen
  <1> QED
    BY <1>4, <1>5, <1>6 DEF ConnInv

LEMMA ConnStutterInv ==
    ASSUME ConnInv, UNCHANGED connVars
    PROVE  ConnInv'
  <1>1. UNCHANGED vars /\ UNCHANGED connection
    BY DEF connVars
  <1>2. UNCHANGED <<pc, request_buffer, response_blank, http_header, static_file,
                    client_fd, ssl, error_code, error_text, used_after_failure, leaked>>
    BY <1>1 DEF connection, buffers, socket, seen
  <1>3. UNCHANGED <<static_file_size, isChunkEncoding, overrun>>
    BY <1>1 DEF vars, inputs, call
  <1>4. ConnTypeOK'
    BY <1>1, <1>2, TypesKept DEF ConnInv, ConnTypeOK, seen
  <1>5. ResponseInv'
    BY <1>1, <1>2, StutterInv DEF ConnInv, ResponseInv
  <1>6. CleanReceiveCycle' /\ ReleasedAtTheEnd' /\ CloseHeaderHasNoTail'
        /\ NothingLeakedPerCycle' /\ NothingBegun' /\ ServedWhileConnected'
    BY <1>2, <1>3 DEF ConnInv, CleanReceiveCycle, ReleasedAtTheEnd, CloseHeaderHasNoTail,
                      NothingLeakedPerCycle, NothingBegun, ServedWhileConnected
  <1> QED
    BY <1>4, <1>5, <1>6 DEF ConnInv

LEMMA ConnStepInv ==
    ASSUME ConnInv, [ConnNext]_connVars
    PROVE  ConnInv'
  BY HandshakeInv, ReadInv, ParseInv, LoggerReturnsInv, OpenStaticFileInv,
     OpenStaticFileFailsInv, SendInv,
     SendEndsConnectionInv, FlushThreadDataInv, AnswerInv, FreeThreadDataInv,
     SentFileChangesInv, ConnStutterInv
  DEF ConnNext, HandleConnection

-----------------------------------------------------------------------------
(* The theorems.                                                            *)

\* ConnInv is an inductive invariant of the connection.
THEOREM ConnInvariant == ConnSpec => []ConnInv
  BY ConnInitInv, ConnStepInv, PTL DEF ConnSpec

\* The fields of thread_data keep their types, for every set of requests.
THEOREM ConnTypeCorrect == ConnSpec => []ConnTypeOK
  <1>1. ConnInv => ConnTypeOK
    BY DEF ConnInv
  <1> QED
    BY <1>1, ConnInvariant, PTL

\* Every cycle of the connection begins with the fields as the first one found
\* them, however the cycles before it went.
THEOREM EveryCycleStartsClean == ConnSpec => []CleanReceiveCycle
  <1>1. ConnInv => CleanReceiveCycle
    BY DEF ConnInv
  <1> QED
    BY <1>1, ConnInvariant, PTL

\* Every way out of HandleConnection releases what the connection holds.
THEOREM EverythingIsReleased == ConnSpec => []ReleasedAtTheEnd
  <1>1. ConnInv => ReleasedAtTheEnd
    BY DEF ConnInv
  <1> QED
    BY <1>1, ConnInvariant, PTL

\* CloseConnection never appends bytes to its "Content-Length: 0".
THEOREM CloseSendsHeaderOnly == ConnSpec => []CloseHeaderHasNoTail
  <1>1. ConnInv => CloseHeaderHasNoTail
    BY DEF ConnInv
  <1> QED
    BY <1>1, ConnInvariant, PTL

\* The parser's leaks do not grow with the number of requests.
THEOREM LeakIsBounded == ConnSpec => []NothingLeakedPerCycle
  <1>1. ConnInv => NothingLeakedPerCycle
    BY DEF ConnInv
  <1> QED
    BY <1>1, ConnInvariant, PTL

\* Each response of the connection sends the whole file: what SendStaticData
\* promises of one call holds in every cycle.
THEOREM EveryResponseIsComplete == ConnSpec => []EveryBodyComplete
  <1>1. ConnInv => EveryBodyComplete
    BY InvGivesBody DEF ConnInv, ResponseInv, EveryBodyComplete
  <1> QED
    BY <1>1, ConnInvariant, PTL

-----------------------------------------------------------------------------
(* What StaticSend promises of one response, for every response.            *)

\* A response begins with OpenStaticFile and goes on as StaticSend has it.
LEMMA ResponseSteps ==
    ASSUME [ConnNext]_connVars, pc' = "send"
    PROVE  OpenStaticFile \/ (pc = "send" /\ [Next]_vars)
  <1>1. CASE Send \/ SentFileChanges
    BY <1>1 DEF Send, SentFileChanges, Next, connection
  <1>2. CASE UNCHANGED connVars
    BY <1>2 DEF connVars, connection
  <1>3. CASE ServerTlsSessionInit \/ Parse \/ OpenStaticFileFails \/ HandleError
             \/ CloseConnection \/ FreeThreadData \/ ClientActs \/ LoggerReturns
    BY <1>3 DEF ServerTlsSessionInit, Parse, LoggerReturns, OpenStaticFileFails, HandleError,
                CloseConnection,
                FreeThreadData, FreeHttpRequestHeader, ClientActs, ReadRequest, ReadFails,
                ReadIsInterrupted, ReadIsOtherError, ReadIsEof, Read
  <1>4. CASE SendEndsConnection \/ ContentLengthOverruns \/ FlushThreadData
    BY <1>4 DEF SendEndsConnection, ContentLengthOverruns, FlushThreadData, FreeHttpRequestHeader
  <1> QED
    BY <1>1, <1>2, <1>3, <1>4 DEF ConnNext, HandleConnection

FramedResponseInv == pc = "send" => ShapeInv

LEMMA FramedResponseStep ==
    ASSUME ConnInv, FramedResponseInv, [ConnNext]_connVars
    PROVE  FramedResponseInv'
  <1> SUFFICES ASSUME pc' = "send" PROVE ShapeInv'
    BY DEF FramedResponseInv
  <1>1. CASE OpenStaticFile
    <2>1. /\ send_pc' = "first" /\ headers' = 0 /\ endings' = 0
          /\ pending'.headers = 0 /\ pending'.endings = 0
      BY <1>1 DEF OpenStaticFile, StreamCountsRestart, Nothing
    <2>2. Headers' = 0 /\ Endings' = 0
      BY <2>1 DEF Headers, Endings
    <2> QED
      BY <2>1, <2>2 DEF ShapeInv
  <1>2. CASE pc = "send" /\ [Next]_vars
    BY <1>2, ShapeStep DEF ConnInv, ResponseInv, FramedResponseInv
  <1> QED
    BY <1>1, <1>2, ResponseSteps

(***************************************************************************)
(* Every response of a connection, not only the first, has the framing     *)
(* WireShape gives it when it is not disturbed.                            *)
(***************************************************************************)
EveryResponseFramed == pc = "send" => WireShape

\* However many requests a connection brings, each undisturbed response has its
\* one or two headers and ends of body.
THEOREM EveryResponseIsFramed == ConnSpec => []EveryResponseFramed
  <1>1. ConnInit => FramedResponseInv
    BY DEF ConnInit, FramedResponseInv
  <1>2. ConnInv /\ FramedResponseInv => EveryResponseFramed
    BY ShapeGivesWire DEF ConnInv, ResponseInv, FramedResponseInv, EveryResponseFramed
  <1> QED
    BY <1>1, <1>2, FramedResponseStep, ConnInvariant, PTL DEF ConnSpec

-----------------------------------------------------------------------------
(* Unsent records between two responses.                                    *)

CheckedResponseInv == pc = "send" => CheckedInv

LEMMA CheckedResponseStep ==
    ASSUME ConnInv, CheckedResponseInv, [ConnNext]_connVars
    PROVE  CheckedResponseInv'
  <1> SUFFICES ASSUME pc' = "send" PROVE CheckedInv'
    BY DEF CheckedResponseInv
  <1>1. CASE OpenStaticFile
    BY <1>1 DEF OpenStaticFile, CheckedInv
  <1>2. CASE pc = "send" /\ [Next]_vars
    BY <1>2, CheckedStep DEF ConnInv, ResponseInv, CheckedResponseInv
  <1> QED
    BY <1>1, <1>2, ResponseSteps

\* The step of FlushThreadData is the only one from a response to the next read.
LEMMA ReadAfterFlush ==
    ASSUME ConnInv, CheckedResponseInv, [ConnNext]_connVars,
           pc = "send", pc' = "read", out_left'
    PROVE  isChunkEncoding \/ IntOf(static_file_size) <= 0
  <1>1. FlushThreadData
    BY DEF ConnNext, HandleConnection, ServerTlsSessionInit, Parse, OpenStaticFile,
           OpenStaticFileFails, Send, ContentLengthOverruns, SendEndsConnection, HandleError,
           CloseConnection, LoggerReturns, FreeThreadData, ClientActs, ReadRequest, ReadFails,
           ReadIsInterrupted,
           ReadIsOtherError, ReadIsEof, Read, SentFileChanges, connVars, connection
  <1>2. out_left /\ send_pc = "done" /\ ret = 0 /\ isKeepAlive
    BY <1>1 DEF FlushThreadData, StreamCountsRestart
  <1>3. IntOf(static_file_size) \in Int
    BY IntOfType DEF ConnInv, ResponseInv, Inv
  <1> QED
    BY <1>2, <1>3 DEF CheckedResponseInv, CheckedInv

(***************************************************************************)
(* The thread goes back to waiting for the client with an unsent record    *)
(* only after a chunked response or one without data: in every other case  *)
(* SendStaticData looked at the result of the last write.                  *)
(***************************************************************************)
THEOREM PlainResponsesAreFlushed == ConnSpec => UnsentOnlyAfterUncheckedWrite
  <1>1. ConnInit => CheckedResponseInv
    BY DEF ConnInit, CheckedResponseInv
  <1>2. ConnSpec => []CheckedResponseInv
    BY <1>1, CheckedResponseStep, ConnInvariant, PTL DEF ConnSpec
  <1>3. ConnInv /\ CheckedResponseInv /\ [ConnNext]_connVars
          => [(pc = "send" /\ pc' = "read" /\ out_left')
                => (isChunkEncoding \/ IntOf(static_file_size) <= 0)]_connVars
    BY ReadAfterFlush
  <1> QED
    BY <1>2, <1>3, ConnInvariant, PTL DEF ConnSpec, UnsentOnlyAfterUncheckedWrite

-----------------------------------------------------------------------------
(* When a connection may end the process.                                   *)

\* No file goes on for a full chunk after the first write of any header.
OnlySmallFiles ==
    \A size \in FileSizes, h \in HeaderLens :
        size + h < 2 * (MAX_CHUNK_SIZE - FULL_CHUNK_DELIM)

\* The process is only ended by a connection whose request line was refused, or
\* which was sending a directory plain.
CrashesOnlyOnRefusalOrDirectory ==
    pc = "crashed" =>
        error_code = kBadRequest \/ (static_file_size = LONG_MAX /\ ~isChunkEncoding)

\* Nothing overruns response_buffer, so that only the parser and
\* SetResponseContentLength can damage the heap.
SmallFilesInv ==
    /\ ~overrun
    /\ pc = "send" => OverrunInv
    /\ CrashesOnlyOnRefusalOrDirectory

LEMMA NoLargeFile ==
    ASSUME FourDigitChunks, OnlySmallFiles, TypeOK
    PROVE  ~LargeFile
  <1>1. /\ IntOf(static_file_size) \in Int /\ header_len \in HeaderLens
        /\ header_len \in Nat \ {0} /\ MAX_CHUNK_SIZE \in Nat
        /\ MAX_CHUNK_SIZE > header_len + 12
    BY IntOfType, HeaderLenBounds
    DEF TypeOK, InputsType, SIZEOF_TWO_CRLF, SIZEOF_CRLF, INT_HEX_DIGITS
  <1>2. FULL_CHUNK_DELIM = 8
    BY DEF FULL_CHUNK_DELIM, SIZEOF_TWO_CRLF, SIZEOF_CRLF
  <1>3. CASE static_file_size \in FileSizes /\ static_file_size # LONG_MAX
    <2>1. IntOf(static_file_size) + header_len < 2 * (MAX_CHUNK_SIZE - FULL_CHUNK_DELIM)
      BY <1>1, <1>3 DEF OnlySmallFiles, IntOf
    <2> QED
      BY <1>1, <1>2, <2>1 DEF LargeFile
  <1>4. CASE static_file_size \in {0, LONG_MAX}
    <2>1. IntOf(static_file_size) <= 0
      BY <1>4 DEF IntOf
    <2> QED
      BY <1>1, <1>2, <2>1 DEF LargeFile
  <1> QED
    BY <1>3, <1>4 DEF TypeOK, InputsType

LEMMA NoLargeFileServed == FourDigitChunks /\ OnlySmallFiles /\ TypeOK => ~LargeFile
  BY NoLargeFile

\* The same after a step.
LEMMA NoLargeFileNext == (FourDigitChunks /\ OnlySmallFiles /\ TypeOK)' => ~LargeFile'
  BY NoLargeFileServed, PTL

LEMMA SmallFilesStep ==
    ASSUME FourDigitChunks, OnlySmallFiles, ConnInv, ConnInv', SmallFilesInv,
           [ConnNext]_connVars
    PROVE  SmallFilesInv'
  <1>1. CASE pc' = "send"
    <2>1. CASE OpenStaticFile
      BY <1>1, <2>1 DEF OpenStaticFile, SmallFilesInv, OverrunInv,
                        CrashesOnlyOnRefusalOrDirectory
    <2>2. CASE pc = "send" /\ [Next]_vars
      <3>1. Inv /\ TypeOK' /\ OverrunInv'
        BY <1>1, <2>2, OverrunStep DEF ConnInv, ResponseInv, SmallFilesInv, Inv
      <3>2. ~LargeFile'
        <4>1. FourDigitChunks' /\ OnlySmallFiles'
          OBVIOUS
        <4> QED
          BY <3>1, <4>1, NoLargeFileNext
      <3> QED
        BY <1>1, <3>1, <3>2 DEF OverrunInv, SmallFilesInv, CrashesOnlyOnRefusalOrDirectory
    <2> QED
      BY <1>1, <2>1, <2>2, ResponseSteps
  <1>2. CASE pc' # "send"
    <2>1. CASE Parse
      BY <2>1, <1>2 DEF Parse, Parsed, SmallFilesInv, CrashesOnlyOnRefusalOrDirectory,
                 vars, call
    <2>2. CASE FlushThreadData \/ FreeThreadData
      BY <2>2, <1>2 DEF FlushThreadData, FreeThreadData, FreeHttpRequestHeader, SmallFilesInv,
                 CrashesOnlyOnRefusalOrDirectory
    <2>3. CASE ServerTlsSessionInit \/ LoggerReturns \/ OpenStaticFileFails \/ HandleError
               \/ CloseConnection \/ ClientActs \/ SendEndsConnection
      BY <2>3, <1>2 DEF ServerTlsSessionInit, LogCalls, LoggerReturns, OpenStaticFileFails,
                 HandleError, CloseConnection, SendEndsConnection, ClientActs, ReadRequest,
                 ReadFails, ReadIsInterrupted, ReadIsOtherError, ReadIsEof, Read, SmallFilesInv,
                 CrashesOnlyOnRefusalOrDirectory, vars, call
    <2>4. CASE ContentLengthOverruns
      <3>1. /\ overrun' = overrun /\ pc' = "crashed"
            /\ static_file_size' = static_file_size /\ isChunkEncoding' = isChunkEncoding
        BY <2>4 DEF ContentLengthOverruns, vars, inputs, call
      <3>2. ~isChunkEncoding /\ IntOf(static_file_size) < 0 /\ pc = "send"
        BY <2>4 DEF ContentLengthOverruns
      <3>3. static_file_size \in FileSizes \cup {0, LONG_MAX} /\ FileSizes \subseteq Nat
        BY <3>2, SizesAssumption DEF ConnInv, ResponseInv, Inv, TypeOK, InputsType
      <3>4. static_file_size = LONG_MAX
        BY <3>2, <3>3 DEF IntOf
      <3> QED
        BY <3>1, <3>2, <3>4 DEF SmallFilesInv, CrashesOnlyOnRefusalOrDirectory
    <2>5. CASE Send \/ OpenStaticFile \/ SentFileChanges
      BY <2>5, <1>2 DEF Send, OpenStaticFile, SentFileChanges, connection
    <2>6. CASE UNCHANGED connVars
      BY <2>6, <1>2 DEF connVars, connection, vars, inputs, call, seen, SmallFilesInv,
                 CrashesOnlyOnRefusalOrDirectory
    <2> QED
      BY <2>1, <2>2, <2>3, <2>4, <2>5, <2>6 DEF ConnNext, HandleConnection
  <1> QED
    BY <1>1, <1>2

(***************************************************************************)
(* As long as every file is too small to go on for a full chunk after the  *)
(* first write, response_buffer is never overrun, however many responses   *)
(* there are: of the three ways in which a connection may end the process  *)
(* two are left, the free of a moved pointer in the parser and the header  *)
(* SetResponseContentLength composes for a directory.                      *)
(***************************************************************************)
THEOREM SmallFilesAreSafe ==
    ASSUME FourDigitChunks, OnlySmallFiles
    PROVE  ConnSpec => []CrashesOnlyOnRefusalOrDirectory
  <1>1. ConnInit => SmallFilesInv
    BY DEF ConnInit, SmallFilesInv, CrashesOnlyOnRefusalOrDirectory
  <1>2. ConnInv /\ ConnInv' /\ SmallFilesInv /\ [ConnNext]_connVars => SmallFilesInv'
    BY SmallFilesStep
  <1>3. SmallFilesInv => CrashesOnlyOnRefusalOrDirectory
    BY DEF SmallFilesInv
  <1> QED
    BY <1>1, <1>2, <1>3, ConnInvariant, PTL DEF ConnSpec

-----------------------------------------------------------------------------
(* The connection implements HttpSession.                                   *)

\* What the session sees of the phases.
LEMMA SessionView ==
    ASSUME ConnInv
    PROVE  /\ pc = "handshake" => phaseOf = "handshake"
           /\ pc \in {"read", "parse"} => phaseOf = "idle"
           /\ pc \in {"log_request", "open"} => phaseOf = "received"
           /\ pc = "send" => phaseOf = "answering"
           /\ pc \in {"error", "log_session", "log_recv", "log_send", "close", "free"}
                => phaseOf = "closing"
           /\ pc \in {"freed", "crashed"} => phaseOf = "closed"
  BY DEF phaseOf, ConnInv, ConnTypeOK, LogCalls

\* The step of the session that a step of the connection is.
LEMMA SessionSteps ==
    ASSUME ConnInv, ConnInv', [ConnNext]_connVars
    PROVE  [Session!SessionNext]_(Session!sessionVars)
  <1> DEFINE current == IF phaseOf \in {"received", "answering"} THEN AskedFor ELSE NotAnswering
             mode    == IF phaseOf = "answering"
                        THEN [keep |-> isKeepAlive, chunked |-> isChunkEncoding]
                        ELSE NotAnswering
             Greet    == phaseOf = "handshake" /\ phaseOf' = "idle" /\ UNCHANGED <<current, mode>>
             Receive  == /\ phaseOf = "idle" /\ phaseOf' = "received"
                         /\ current' = AskedFor' /\ UNCHANGED mode
             Begin    == /\ phaseOf = "received" /\ phaseOf' = "answering"
                         /\ mode' = current /\ UNCHANGED current
             End      == /\ phaseOf = "answering" /\ mode.keep
                         /\ phaseOf' = "idle" /\ current' = NotAnswering /\ mode' = NotAnswering
             HangUp   == /\ phaseOf \in {"handshake", "idle", "received", "answering"}
                         /\ phaseOf' = "closing" /\ current' = NotAnswering /\ mode' = NotAnswering
             Close    == /\ phaseOf # "closed" /\ phaseOf' = "closed"
                         /\ current' = NotAnswering /\ mode' = NotAnswering
             Stutter  == UNCHANGED <<phaseOf, current, mode>>
  <1>1. Greet => Session!SessionNext
    BY DEF Session!SessionNext, Session!Greet
  <1>2. Receive => Session!SessionNext
    <2>1. AskedFor' \in [keep : BOOLEAN, chunked : BOOLEAN]
      BY DEF AskedFor, AsksKeepAlive, AsksChunked, Occurs
    <2> QED
      BY <2>1 DEF Session!SessionNext, Session!Receive
  <1>3. Begin => Session!SessionNext
    BY DEF Session!SessionNext, Session!BeginResponse
  <1>4. End => Session!SessionNext
    BY DEF Session!SessionNext, Session!EndResponse
  <1>5. HangUp => Session!SessionNext
    BY DEF Session!SessionNext, Session!HangUp
  <1>6. Close => Session!SessionNext
    BY DEF Session!SessionNext, Session!Close
  <1>7. Stutter => UNCHANGED Session!sessionVars
    BY DEF Session!sessionVars
  <1>8. /\ phaseOf \notin {"received", "answering"} => current = NotAnswering
        /\ phaseOf \in {"received", "answering"} => current = AskedFor
        /\ phaseOf # "answering" => mode = NotAnswering
        /\ phaseOf = "answering" => mode = [keep |-> isKeepAlive, chunked |-> isChunkEncoding]
    OBVIOUS
  <1>9. /\ phaseOf' \notin {"received", "answering"} => current' = NotAnswering
        /\ phaseOf' \in {"received", "answering"} => current' = AskedFor'
        /\ phaseOf' # "answering" => mode' = NotAnswering
        /\ phaseOf' = "answering" => mode' = [keep |-> isKeepAlive', chunked |-> isChunkEncoding']
    BY DEF NotAnswering
  <1>10. /\ pc' = "handshake" => phaseOf' = "handshake"
         /\ pc' \in {"read", "parse"} => phaseOf' = "idle"
         /\ pc' \in {"log_request", "open"} => phaseOf' = "received"
         /\ pc' = "send" => phaseOf' = "answering"
         /\ pc' \in {"error", "log_session", "log_recv", "log_send", "close", "free"}
              => phaseOf' = "closing"
         /\ pc' \in {"freed", "crashed"} => phaseOf' = "closed"
    BY DEF phaseOf, ConnInv, ConnTypeOK, LogCalls
  <1> HIDE DEF current, mode
  <1>11. CASE ServerTlsSessionInit
    BY <1>1, <1>5, <1>8, <1>9, <1>10, <1>11, SessionView DEF ServerTlsSessionInit
  <1>12. CASE ClientActs /\ ~ServerTlsSessionInit
    <2>1. pc = "read" /\ pc' \in {"parse", "log_recv", "free", "close"}
      BY <1>12 DEF ClientActs, ReadRequest, ReadFails, Read, ReadIsInterrupted,
                   ReadIsOtherError, ReadIsEof
    <2> QED
      BY <2>1, <1>5, <1>7, <1>8, <1>9, <1>10, SessionView
  <1>13. CASE Parse
    <2>1. pc = "parse" /\ pc' \in {"error", "log_request", "crashed"}
      BY <1>13 DEF Parse, Parsed
    <2> QED
      BY <2>1, <1>2, <1>5, <1>6, <1>8, <1>9, <1>10, SessionView
  <1>14. CASE OpenStaticFile
    <2>1. /\ pc = "open" /\ pc' = "send" /\ UNCHANGED http_header
          /\ isKeepAlive' = AsksKeepAlive(http_header.body)
          /\ isChunkEncoding' = AcceptsChunks
      BY <1>14 DEF OpenStaticFile
    <2>2. isChunkEncoding' = AsksChunked(http_header.body)
      <3>1. CASE HasAcceptEncoding(http_header.body)
        BY <2>1, <3>1 DEF AcceptsChunks
      <3>2. CASE ~HasAcceptEncoding(http_header.body)
        <4>1. ~isChunkEncoding /\ isChunkEncoding \in BOOLEAN
          BY <2>1 DEF ConnInv, NothingBegun, ConnTypeOK, FlagsType
        <4>2. AsksChunked(http_header.body) = FALSE
          BY <3>2 DEF AsksChunked, HasAcceptEncoding, Occurs
        <4> QED
          BY <2>1, <3>2, <4>1, <4>2 DEF AcceptsChunks
      <3> QED
        BY <3>1, <3>2
    <2>3. AskedFor' = AskedFor
      BY <2>1 DEF AskedFor
    <2>4. [keep |-> isKeepAlive', chunked |-> isChunkEncoding'] = AskedFor
      BY <2>1, <2>2 DEF AskedFor
    <2> QED
      BY <2>1, <2>3, <2>4, <1>3, <1>8, <1>9, <1>10, SessionView
  <1>15. CASE OpenStaticFileFails
    BY <1>15, <1>5, <1>8, <1>9, <1>10, SessionView DEF OpenStaticFileFails
  <1>16. CASE pc = "send" /\ UNCHANGED <<pc, http_header, inputs>>
    <2>1. AskedFor' = AskedFor
      BY <1>16 DEF AskedFor
    <2> QED
      BY <2>1, <1>16, <1>7, <1>8, <1>9, <1>10, SessionView DEF inputs
  <1>17. CASE Send
    BY <1>16, <1>17, SendStaticDataInv DEF Send, ConnInv, ResponseInv
  <1>18. CASE SentFileChanges
    BY <1>16, <1>18 DEF SentFileChanges, FileChanges, connection
  <1>19. CASE SendEndsConnection \/ ContentLengthOverruns
    BY <1>19, <1>5, <1>6, <1>8, <1>9, <1>10, SessionView
    DEF SendEndsConnection, ContentLengthOverruns
  <1>20. CASE FlushThreadData
    <2>1. /\ pc = "send" /\ isKeepAlive /\ pc' \in {"read", "crashed"}
      BY <1>20 DEF FlushThreadData, FreeHttpRequestHeader
    <2>2. phaseOf = "answering" /\ mode.keep
      BY <2>1, <1>8, SessionView
    <2> QED
      BY <2>1, <2>2, <1>4, <1>6, <1>9, <1>10
  <1>21. CASE HandleError \/ CloseConnection
    <2>1. pc \in {"error", "close"} /\ pc' = "free"
      BY <1>21 DEF HandleError, CloseConnection
    <2> QED
      BY <2>1, <1>7, <1>8, <1>9, <1>10, SessionView
  <1>22. CASE FreeThreadData
    <2>1. pc = "free" /\ pc' \in {"freed", "crashed"}
      BY <1>22 DEF FreeThreadData, FreeHttpRequestHeader
    <2> QED
      BY <2>1, <1>6, <1>9, <1>10, SessionView
  <1>23. CASE LoggerReturns
    <2>1. AskedFor' = AskedFor
      BY <1>23 DEF LoggerReturns, AskedFor
    <2>2. \/ pc = "log_request" /\ pc' = "open"
          \/ pc \in {"log_session", "log_recv", "log_send"} /\ pc' = "free"
      BY <1>23 DEF LoggerReturns, LogCalls
    <2> QED
      BY <2>1, <2>2, <1>7, <1>8, <1>9, <1>10, SessionView
  <1>24. CASE UNCHANGED connVars
    <2>1. UNCHANGED <<pc, http_header, isKeepAlive, isChunkEncoding>>
      BY <1>24 DEF connVars, connection, vars, inputs
    <2>2. AskedFor' = AskedFor /\ phaseOf' = phaseOf
      BY <2>1 DEF AskedFor, phaseOf
    <2> QED
      BY <2>1, <2>2, <1>7, <1>8, <1>9
  <1> QED
    BY <1>11, <1>12, <1>13, <1>14, <1>15, <1>17, <1>18, <1>19, <1>20, <1>21, <1>22, <1>23,
       <1>24
    DEF ConnNext, HandleConnection

\* Requests are answered one at a time, each in the mode it asked for itself: no
\* mode outlives its response.
THEOREM SessionIsImplemented == ConnSpec => ImplementsHttpSession
  <1>1. ConnInit => Session!SessionInit
    BY DEF ConnInit, Session!SessionInit, phaseOf
  <1>2. ConnInv /\ ConnInv' /\ [ConnNext]_connVars => [Session!SessionNext]_(Session!sessionVars)
    BY SessionSteps
  <1> QED
    BY <1>1, <1>2, ConnInvariant, PTL DEF ConnSpec, ImplementsHttpSession, Session!SessionSpec

-----------------------------------------------------------------------------
(* Where the body of a request is searched.                                 *)

\* The head of a request, up to its blank line.
EndsBlank(raw) ==
    /\ raw \in Seq(STRING) /\ Len(raw) >= 4
    /\ raw[Len(raw) - 3] = "CR" /\ raw[Len(raw) - 2] = "LF"
    /\ raw[Len(raw) - 1] = "CR" /\ raw[Len(raw)] = "LF"

LEMMA HeadEndsBlank ==
    ASSUME NEW text \in Seq(STRING), HeadLengths(text) # {}
    PROVE  EndsBlank(http_header_raw(text))
  <1> DEFINE m   == Min(HeadLengths(text))
             raw == http_header_raw(text)
  <1>1. m \in HeadLengths(text)
    <2>1. HeadLengths(text) \in SUBSET Nat
      BY DEF HeadLengths
    <2> QED
      BY <2>1, MinIsMember
  <1> HIDE DEF m
  <1>2. /\ m \in Nat /\ m >= 4 /\ m <= Len(text) /\ Len(text) \in Nat
        /\ SubSeq(text, m - 3, m) = <<"CR", "LF", "CR", "LF">>
    BY <1>1 DEF HeadLengths
  <1>3. \A i \in 1 .. Len(text) : text[i] \in STRING
    OBVIOUS
  <1>4. text[m - 3] = "CR" /\ text[m - 2] = "LF" /\ text[m - 1] = "CR" /\ text[m] = "LF"
    <2>1. m - 3 \in Int /\ m \in Int /\ \A i \in m - 3 .. m : text[i] \in STRING
      BY <1>2, <1>3
    <2> DEFINE s == m - 3
               tail == SubSeq(text, s, m)
    <2>2. s \in Int /\ \A i \in 1 .. m - s + 1 : tail[i] = text[s + i - 1]
      <3>1. s \in Int /\ m \in Int
        BY <1>2
      <3>2. \A i \in s .. m : text[i] \in STRING
        BY <2>1
      <3> HIDE DEF s
      <3> QED
        BY <3>1, <3>2, SubSeqProperties
    <2>3. /\ 1 \in 1 .. m - s + 1 /\ 2 \in 1 .. m - s + 1
          /\ 3 \in 1 .. m - s + 1 /\ 4 \in 1 .. m - s + 1
          /\ s + 1 - 1 = m - 3 /\ s + 2 - 1 = m - 2 /\ s + 3 - 1 = m - 1 /\ s + 4 - 1 = m
      BY <1>2
    <2>4. /\ tail[1] = text[m - 3] /\ tail[2] = text[m - 2]
          /\ tail[3] = text[m - 1] /\ tail[4] = text[m]
      <3> HIDE DEF s
      <3> QED
        BY <2>2, <2>3
    <2>5. tail = <<"CR", "LF", "CR", "LF">>
      BY <1>2
    <2> HIDE DEF tail, s
    <2>6. tail[1] = "CR" /\ tail[2] = "LF" /\ tail[3] = "CR" /\ tail[4] = "LF"
      BY <2>5
    <2> QED
      BY <2>4, <2>6
  <1>5. raw = SubSeq(text, 1, m)
    BY DEF http_header_raw, m
  <1>6. raw \in Seq(STRING) /\ Len(raw) = m /\ \A i \in 1 .. m : raw[i] = text[i]
    <2>1. 1 \in Int /\ m \in Int /\ \A i \in 1 .. m : text[i] \in STRING
      BY <1>2, <1>3
    <2>2. /\ raw \in Seq(STRING)
          /\ Len(raw) = IF 1 <= m THEN m - 1 + 1 ELSE 0
          /\ \A i \in 1 .. m - 1 + 1 : raw[i] = text[1 + i - 1]
      BY <1>5, <2>1, SubSeqProperties
    <2> QED
      BY <1>2, <2>2
  <1> HIDE DEF raw
  <1>7. EndsBlank(raw)
    BY <1>2, <1>4, <1>6 DEF EndsBlank
  <1> QED
    BY <1>7 DEF raw

\* A set of three numbers has a third one.
LEMMA ThirdSmallest ==
    ASSUME NEW S \in SUBSET Nat, IsFiniteSet(S), Cardinality(S) >= 3
    PROVE  \E i \in S : Cardinality({j \in S : j < i}) = 2
  <1>1. \A T : IsFiniteSet(T) => Cardinality(T) \in Nat
    BY FS_CardinalityType
  <1>2. S # {}
    BY FS_EmptySet
  <1>3. PICK a \in S : \A y \in S : a <= y
    BY <1>2, MinIsMember
  <1>4. IsFiniteSet(S \ {a}) /\ Cardinality(S \ {a}) = Cardinality(S) - 1
    BY <1>3, FS_RemoveElement
  <1>5. S \ {a} # {}
    BY <1>1, <1>4, FS_EmptySet
  <1>6. PICK b \in S \ {a} : \A y \in S \ {a} : b <= y
    BY <1>5, MinIsMember
  <1>7. /\ IsFiniteSet((S \ {a}) \ {b})
        /\ Cardinality((S \ {a}) \ {b}) = Cardinality(S \ {a}) - 1
    BY <1>4, <1>6, FS_RemoveElement
  <1>8. (S \ {a}) \ {b} # {}
    BY <1>1, <1>4, <1>7, FS_EmptySet
  <1>9. PICK c \in (S \ {a}) \ {b} : \A y \in (S \ {a}) \ {b} : c <= y
    BY <1>8, MinIsMember
  <1>10. {j \in S : j < c} = {a} \cup {b}
    <2>1. a < c /\ b < c
      BY <1>3, <1>6, <1>9
    <2>2. ASSUME NEW j \in S, j < c
          PROVE  j \in {a, b}
      BY <1>9, <2>2
    <2> QED
      BY <1>3, <1>6, <2>1, <2>2
  <1>11. Cardinality({a} \cup {b}) = 2
    <2>1. IsFiniteSet({a}) /\ Cardinality({a}) = 1 /\ b \notin {a}
      BY <1>6, FS_Singleton
    <2>2. Cardinality({a} \cup {b}) = Cardinality({a}) + 1
      BY <2>1, FS_AddElement
    <2> QED
      BY <2>1, <2>2
  <1> QED
    BY <1>9, <1>10, <1>11

LEMMA OnePiece ==
    ASSUME NEW text \in Seq(STRING), Len(text) = 1
    PROVE  text = <<text[1]>>
  OBVIOUS

\* A token ends no later than the piece before any delimiter behind its start.
LEMMA TokenEnds ==
    ASSUME NEW raw \in Seq(STRING), NEW n, TokenStart(raw, n) \in 1 .. Len(raw),
           NEW j \in TokenStart(raw, n) .. Len(raw),
           j = Len(raw) \/ raw[j + 1] \in Delimiters
    PROVE  TokenEnd(raw, n) \in TokenStart(raw, n) .. j
  <1> DEFINE ends == {k \in TokenStart(raw, n) .. Len(raw) :
                         k = Len(raw) \/ raw[k + 1] \in Delimiters}
  <1>1. Len(raw) \in Nat /\ TokenEnd(raw, n) = Min(ends) /\ j \in ends
    BY DEF TokenEnd
  <1>2. ends \in SUBSET Nat /\ ends \subseteq TokenStart(raw, n) .. Len(raw)
    BY <1>1
  <1> HIDE DEF ends
  <1>3. Min(ends) \in TokenStart(raw, n) .. Len(raw) /\ Min(ends) <= j
    BY <1>1, <1>2, MinIsMember
  <1> DEFINE start == TokenStart(raw, n)
             least == Min(ends)
  <1>4. start \in Nat /\ j \in Nat
    BY <1>1
  <1>5. least \in start .. Len(raw) /\ least <= j
    BY <1>3
  <1> HIDE DEF start, least
  <1>6. least \in start .. j
    BY <1>1, <1>4, <1>5
  <1> QED
    BY <1>1, <1>6 DEF start, least

LEMMA TokenStartCounts ==
    ASSUME NEW raw, NEW n,
           \E i \in TokenStarts(raw) : Cardinality({j \in TokenStarts(raw) : j < i}) = n - 1
    PROVE  /\ TokenStart(raw, n) \in TokenStarts(raw)
           /\ Cardinality({j \in TokenStarts(raw) : j < TokenStart(raw, n)}) = n - 1
  BY DEF TokenStart

(***************************************************************************)
(* The line feeds of the blank line are the last two tokens of a head.     *)
(* When none is left behind the third token, that token is the last one,   *)
(* and the path the one before.                                            *)
(***************************************************************************)
LEMMA PathIsLineFeed ==
    ASSUME NEW raw, EndsBlank(raw), Cardinality(TokenStarts(raw)) >= 3, BodyFeeds(raw) = {}
    PROVE  Token(raw, 2) = <<"LF">>
  <1> DEFINE m     == Len(raw)
             S     == TokenStarts(raw)
             third == TokenStart(raw, 3)
             path  == TokenStart(raw, 2)
  <1>1. /\ raw \in Seq(STRING) /\ m \in Nat /\ m >= 4 /\ DOMAIN raw = 1 .. m
        /\ raw[m - 3] = "CR" /\ raw[m - 2] = "LF" /\ raw[m - 1] = "CR" /\ raw[m] = "LF"
    BY DEF EndsBlank
  <1>2. /\ \A i : i \in S <=> /\ i \in 1 .. m /\ raw[i] \notin Delimiters
                              /\ i = 1 \/ raw[i - 1] \in Delimiters
        /\ "CR" \in Delimiters /\ "LF" \notin Delimiters
    BY <1>1 DEF TokenStarts, Delimiters
  <1>3. BodyFeeds(raw) = {i \in 1 .. m : raw[i] = "LF"} \ 1 .. TokenEnd(raw, 3) + 1
    BY <1>1 DEF BodyFeeds, HTTP_HEAD_COUNT
  <1>4. Cardinality(S) >= 3
    OBVIOUS
  <1> HIDE DEF m, S, third, path
  <1>5. /\ m \in S /\ m - 2 \in S /\ m - 1 \notin S /\ m - 3 \notin S
        /\ S \in SUBSET Nat /\ \A i \in S : i >= 1 /\ i <= m
    <2>1. m - 1 \in 1 .. m /\ m - 2 \in 1 .. m /\ m - 3 \in 1 .. m /\ m \in 1 .. m
          /\ (m - 2) - 1 = m - 3
      BY <1>1
    <2> QED
      BY <1>1, <1>2, <2>1
  <1>6. IsFiniteSet(S) /\ \A T \in SUBSET S : IsFiniteSet(T) /\ Cardinality(T) \in Nat
    <2>1. IsFiniteSet(1 .. m)
      BY <1>1, FS_Interval
    <2>2. S \in SUBSET (1 .. m)
      BY <1>2
    <2>3. IsFiniteSet(S)
      BY <2>1, <2>2, FS_Subset
    <2> QED
      BY <2>3, FS_Subset, FS_CardinalityType
  <1>7. third \in S /\ Cardinality({j \in S : j < third}) = 2
    <2>1. \E i \in S : Cardinality({j \in S : j < i}) = 3 - 1
      <3>1. \E i \in S : Cardinality({j \in S : j < i}) = 2
        BY <1>4, <1>5, <1>6, ThirdSmallest
      <3> QED
        BY <3>1
    <2>2. third \in S /\ Cardinality({j \in S : j < third}) = 3 - 1
      BY <2>1, TokenStartCounts DEF S, third
    <2> QED
      BY <2>2
  <1>8. third = m
    <2>1. CASE third = m - 2
      <3>1. TokenEnd(raw, 3) \in third .. m - 2
        <4>1. third \in 1 .. Len(raw) /\ m - 2 \in third .. Len(raw)
              /\ raw[(m - 2) + 1] \in Delimiters
          BY <1>1, <1>2, <2>1 DEF m
        <4> QED
          BY <1>1, <4>1, TokenEnds DEF third
      <3>2. m \in BodyFeeds(raw)
        BY <1>1, <1>3, <2>1, <3>1
      <3> QED
        BY <3>2
    <2>2. CASE third <= m - 4
      <3>1. TokenEnd(raw, 3) \in third .. m - 4
        <4>1. third \in 1 .. Len(raw) /\ m - 4 \in third .. Len(raw)
              /\ raw[(m - 4) + 1] \in Delimiters
          BY <1>1, <1>2, <1>5, <1>7, <2>2 DEF m
        <4> QED
          BY <1>1, <4>1, TokenEnds DEF third
      <3>2. m - 2 \in BodyFeeds(raw)
        BY <1>1, <1>3, <1>5, <1>7, <2>2, <3>1
      <3> QED
        BY <3>2
    <2> QED
      BY <1>1, <1>5, <1>7, <2>1, <2>2
  <1>9. Cardinality({j \in S : j < m - 2}) = 1
    <2> DEFINE A == {j \in S : j < m - 2}
               B == {j \in S : j < m}
    <2>1. \A j \in S : j < m <=> j < m - 2 \/ j = m - 2
      BY <1>1, <1>5
    <2>2. B = A \cup {m - 2}
      BY <1>5, <2>1
    <2>3. m - 2 \notin A
      BY <1>1
    <2>4. IsFiniteSet(A) /\ Cardinality(A) \in Nat
      BY <1>6
    <2>5. Cardinality(B) = 2
      BY <1>7, <1>8
    <2> HIDE DEF A, B
    <2>6. Cardinality(A \cup {m - 2}) = Cardinality(A) + 1
      BY <2>3, <2>4, FS_AddElement
    <2>7. Cardinality(A) = 1
      BY <2>2, <2>4, <2>5, <2>6
    <2> QED
      BY <2>7 DEF A
  <1>10. path \in S /\ Cardinality({j \in S : j < path}) = 1
    <2>1. \E i \in S : Cardinality({j \in S : j < i}) = 2 - 1
      <3> DEFINE k == m - 2
      <3>1. k \in S /\ Cardinality({j \in S : j < k}) = 2 - 1
        BY <1>5, <1>9
      <3> HIDE DEF k
      <3> QED
        BY <3>1
    <2>2. path \in S /\ Cardinality({j \in S : j < path}) = 2 - 1
      BY <2>1, TokenStartCounts DEF S, path
    <2> QED
      BY <2>2
  <1>11. path = m - 2
    <2>1. path # m
      BY <1>7, <1>8, <1>10
    <2>2. ASSUME path < m - 2
          PROVE  FALSE
      <3> DEFINE A == {j \in S : j < path}
                 B == {j \in S : j < m - 2}
      <3>1. A \cup {path} \in SUBSET B /\ path \notin A
        <4>1. path \in Nat /\ m - 2 \in Int /\ \A j \in S : j \in Nat
          BY <1>1, <1>5, <1>10
        <4>2. \A j \in S : j < path => j < m - 2
          BY <2>2, <4>1
        <4>3. path \in B /\ path \notin A
          BY <1>10, <2>2, <4>1
        <4>4. A \subseteq B
          BY <4>2
        <4> QED
          BY <4>3, <4>4
      <3>2. IsFiniteSet(A) /\ IsFiniteSet(B)
        BY <1>6
      <3>3. Cardinality(A) = 1 /\ Cardinality(B) = 1
        BY <1>9, <1>10
      <3> HIDE DEF A, B
      <3>4. Cardinality(A \cup {path}) = Cardinality(A) + 1
        BY <3>1, <3>2, FS_AddElement
      <3>5. Cardinality(A \cup {path}) <= Cardinality(B)
        BY <3>1, <3>2, FS_Subset
      <3> QED
        BY <3>3, <3>4, <3>5
    <2> QED
      BY <1>1, <1>5, <1>10, <2>1, <2>2
  <1>12. TokenEnd(raw, 2) = m - 2
    <2>1. path \in 1 .. Len(raw) /\ m - 2 \in path .. Len(raw) /\ raw[(m - 2) + 1] \in Delimiters
      BY <1>1, <1>2, <1>11 DEF m
    <2>2. TokenEnd(raw, 2) \in path .. m - 2
      BY <1>1, <2>1, TokenEnds DEF path
    <2> QED
      BY <1>1, <1>11, <2>2
  <1>13. Token(raw, 2) = SubSeq(raw, m - 2, m - 2)
    BY <1>11, <1>12 DEF Token, path
  <1> DEFINE k == m - 2
  <1>14. k \in Int /\ k \in 1 .. m /\ raw[k] = "LF" /\ \A i \in k .. k : raw[i] \in STRING
    BY <1>1
  <1> HIDE DEF k
  <1>15. /\ SubSeq(raw, k, k) \in Seq(STRING)
         /\ Len(SubSeq(raw, k, k)) = IF k <= k THEN k - k + 1 ELSE 0
         /\ \A i \in 1 .. k - k + 1 : SubSeq(raw, k, k)[i] = raw[k + i - 1]
    BY <1>14, SubSeqProperties
  <1>16. Len(SubSeq(raw, k, k)) = 1 /\ SubSeq(raw, k, k)[1] = "LF"
    BY <1>14, <1>15
  <1>17. SubSeq(raw, k, k) = <<"LF">>
    BY <1>15, <1>16, OnePiece
  <1> QED
    BY <1>13, <1>17 DEF k

\* An accepted request without a body has a line feed for its path.
LEMMA AcceptedWithoutBody ==
    ASSUME NEW text \in Seq(STRING), NEW http,
           FillHttpRequestHeader(http, text).code = 0
    PROVE  LET header == FillHttpRequestHeader(http, text).http_header
           IN  /\ FillHttpRequestHeader(NoHeader, text).code = 0
               /\ header.has_body \in BOOLEAN
               /\ ~header.has_body => PathOf(text) = <<"LF">>
  <1> DEFINE raw == http_header_raw(text)
  <1>1. HeadLengths(text) # {} /\ Refused(raw) = {} /\ Occurs("GET", Token(raw, 1))
    BY DEF FillHttpRequestHeader, Verdict, kBadRequest, kNotImplemented
  <1>2. /\ FillHttpRequestHeader(http, text) = Verdict(0, 0, HeaderHolding(raw))
        /\ FillHttpRequestHeader(NoHeader, text) = Verdict(0, 0, HeaderHolding(raw))
    BY <1>1 DEF FillHttpRequestHeader
  <1>3. EndsBlank(raw)
    BY <1>1, HeadEndsBlank
  <1> HIDE DEF raw
  <1>4. HeaderHolding(raw).has_body <=> BodyFeeds(raw) # {}
    BY DEF HeaderHolding
  <1>5. Cardinality(TokenStarts(raw)) >= 3
    <2>1. 3 \notin Refused(raw)
      BY <1>1
    <2>2. ~(Cardinality(TokenStarts(raw)) < 3)
      BY <2>1 DEF Refused, HTTP_HEAD_COUNT
    <2>3. Cardinality(TokenStarts(raw)) \in Nat
      <3>1. TokenStarts(raw) \in SUBSET (1 .. Len(raw)) /\ Len(raw) \in Nat
        BY <1>3 DEF TokenStarts, EndsBlank
      <3>2. IsFiniteSet(1 .. Len(raw))
        BY <3>1, FS_Interval
      <3> QED
        BY <3>1, <3>2, FS_Subset, FS_CardinalityType
    <2> QED
      BY <2>2, <2>3
  <1>6. BodyFeeds(raw) = {} => PathOf(text) = <<"LF">>
    BY <1>3, <1>5, PathIsLineFeed DEF PathOf, raw
  <1>7. HeaderHolding(raw).has_body \in BOOLEAN
    BY DEF HeaderHolding
  <1>8. /\ FillHttpRequestHeader(http, text).http_header = HeaderHolding(raw)
        /\ FillHttpRequestHeader(NoHeader, text).code = 0
    BY <1>2 DEF Verdict
  <1> QED
    BY <1>4, <1>6, <1>7, <1>8

(***************************************************************************)
(* What HandleConnection opens is a request that the parser has accepted,  *)
(* with the body it found or a line feed for a path.                       *)
(***************************************************************************)
AcceptedInv ==
    pc \in {"log_request", "open"} =>
        /\ FillHttpRequestHeader(NoHeader, request_buffer.text).code = 0
        /\ http_header.has_body \/ PathOf(request_buffer.text) = <<"LF">>

LEMMA AcceptedStep ==
    ASSUME ConnInv, AcceptedInv, [ConnNext]_connVars
    PROVE  AcceptedInv'
  <1> SUFFICES ASSUME pc' \in {"log_request", "open"} PROVE AcceptedInv'
    BY DEF AcceptedInv
  <1>1. CASE Parse
    <2>1. /\ pc = "parse" /\ request_buffer' = request_buffer
          /\ http_header' = Parsed.http_header /\ ~(Parsed.code < 0)
      BY <1>1 DEF Parse, buffers
    <2>2. http_header = NoHeader /\ request_buffer \in Requests \cup {Blank}
      BY <2>1 DEF ConnInv, NothingBegun, ConnTypeOK
    <2>3. request_buffer # Blank
      BY <2>1, <2>2, BlankIsRefused DEF Parsed, kBadRequest
    <2>4. request_buffer \in Requests /\ request_buffer.text \in Seq(STRING)
      BY <2>2, <2>3, RequestsAssumption
    <2>5. Parsed.code = 0
      BY <2>1, <2>2, <2>4, VerdictType DEF Parsed, kBadRequest, kNotImplemented
    <2> QED
      BY <2>1, <2>2, <2>4, <2>5, AcceptedWithoutBody DEF AcceptedInv, Parsed
  <1>2. CASE UNCHANGED connVars \/ LoggerReturns
    BY <1>2 DEF AcceptedInv, connVars, connection, buffers, LoggerReturns, LogCalls
  <1>3. CASE ClientActs \/ ServerTlsSessionInit \/ OpenStaticFile \/ OpenStaticFileFails
             \/ HandleError \/ CloseConnection
    BY <1>3 DEF ClientActs, ReadRequest, ReadFails, Read, ReadIsInterrupted, ReadIsOtherError,
                ReadIsEof, ServerTlsSessionInit, OpenStaticFile, OpenStaticFileFails,
                HandleError, CloseConnection
  <1>4. CASE Send \/ ContentLengthOverruns \/ SendEndsConnection \/ FlushThreadData
             \/ FreeThreadData \/ SentFileChanges
    BY <1>4 DEF Send, ContentLengthOverruns, SendEndsConnection, FlushThreadData,
                FreeThreadData, SentFileChanges,
                FreeHttpRequestHeader, connection
  <1> QED
    BY <1>1, <1>2, <1>3, <1>4 DEF ConnNext, HandleConnection

(***************************************************************************)
(* stristr is never called with a NULL body, for every set of requests in  *)
(* which no file is named by a line feed: a request that leaves the parser *)
(* without a body consists of one word and its blank line.                 *)
(***************************************************************************)
THEOREM SearchFindsBody == ConnSpec => []SearchedBodyExists
  <1>1. ConnInit => AcceptedInv
    BY DEF ConnInit, AcceptedInv
  <1>2. ConnInv /\ AcceptedInv /\ [ConnNext]_connVars => AcceptedInv'
    BY AcceptedStep
  <1>3. ConnInv /\ AcceptedInv => SearchedBodyExists
    <2> SUFFICES ASSUME ConnInv, AcceptedInv, pc = "open", request_buffer.target >= 0,
                        ~http_header.has_body
                 PROVE  FALSE
      BY DEF SearchedBodyExists
    <2>1. request_buffer.target < 0
      BY RequestsAssumption DEF AcceptedInv, ConnInv, ServedWhileConnected
    <2>2. request_buffer.target \in Int
      BY TargetSizes, RequestsAssumption DEF ConnInv, ServedWhileConnected
    <2> QED
      BY <2>1, <2>2
  <1> QED
    BY <1>1, <1>2, <1>3, ConnInvariant, PTL DEF ConnSpec

=============================================================================
