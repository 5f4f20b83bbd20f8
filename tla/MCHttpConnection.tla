--------------------------- MODULE MCHttpConnection ---------------------------
(* Instances of HttpConnection for TLC.                                     *)
EXTENDS HttpConnection

\* One request for every path through the parser, HandleConnection and
\* OpenStaticFile.  The served files need no data write, one and three writes of a
\* 64 byte buffer, the largest with a chunk form that is longer than the buffer.
ServedFiles == {0, 3, 97}

EndOfLine == <<"CR", "LF">>

Get(fields, target) ==
    [text   |-> <<"GET", "SP", "/index.html", "SP", "HTTP/1.1">> \o EndOfLine \o fields
                   \o EndOfLine \o EndOfLine,
     target |-> target]

KeepFields   == {<<>>, <<"Connection:", "SP", "Keep-Alive">>}
AcceptFields ==
    {<<>>, EndOfLine \o <<"Accept-Encoding", "SP", "gzip">>,
     EndOfLine \o <<"Accept-Encoding", "SP", "gzip", "SP", "chunked">>}

\* Texts that are refused, or that end in another way than a file being sent.
Unserved ==
    {[text |-> <<"GET", "SP", "/", "SP", "HTTP/1.1">>, target |-> 3],
     [text |-> EndOfLine \o EndOfLine, target |-> 3],
     [text |-> <<"GET", "SP", "long">> \o EndOfLine \o EndOfLine, target |-> 3],
     [text |-> <<"POST", "SP", "/">> \o EndOfLine \o EndOfLine, target |-> 3],
     [text |-> <<"GET">> \o EndOfLine \o EndOfLine, target |-> kNotFound],
     Get(<<"Connection:", "SP", "Keep-Alive">>, kNotFound),
     Get(<<>>, kBadRequest)}

MCRequests ==
    Unserved \cup
    {Get(k \o a, t) : k \in KeepFields, a \in AcceptFields, t \in ServedFiles \cup {LONG_MAX}}

-----------------------------------------------------------------------------
(* FillHttpRequestHeader as the C code runs: strtok_r from piece to piece.  *)

\* Where the token that strtok_r returns from `from` on begins, and where it
\* leaves the pointer.
RECURSIVE TokenFrom(_, _)
TokenFrom(raw, from) ==
    IF from > Len(raw) THEN 0
    ELSE IF raw[from] \in Delimiters THEN TokenFrom(raw, from + 1) ELSE from

RECURSIVE PointerAfter(_, _)
PointerAfter(raw, from) ==
    IF from > Len(raw) THEN from
    ELSE IF raw[from] \in Delimiters THEN from + 1 ELSE PointerAfter(raw, from + 1)

\* The turns of the loop from token n on, then the search for the method and
\* for the body.
RECURSIVE Tokenize(_, _, _, _)
Tokenize(raw, pointer, n, method) ==
    LET first == TokenFrom(raw, pointer)
        next  == PointerAfter(raw, first)
        token == IF first = 0 THEN <<>> ELSE SelectSeq(SubSeq(raw, first, next - 1),
                                                       LAMBDA p : p \notin Delimiters)
    IN  IF n > HTTP_HEAD_COUNT
        THEN IF ~Occurs("GET", method) THEN <<kNotImplemented, 1>>
             ELSE <<0, IF Occurs("LF", SubSeq(raw, pointer, Len(raw))) THEN 0 ELSE -1>>
        ELSE IF first = 0 \/ Occurs("long", token) THEN <<kBadRequest, n>>
        ELSE Tokenize(raw, next, n + 1, IF n = 1 THEN token ELSE method)

ReferenceVerdict(buffer) ==
    IF HeadLengths(buffer) = {} THEN <<kBadRequest, 0>>
    ELSE Tokenize(http_header_raw(buffer), 1, 1, <<>>)

ParserPieces == {"GET", "long", "SP", "CR", "LF"}

\* The parser's definition agrees with the loop on every head of up to five
\* pieces before the blank line, and on texts without one.
ASSUME ParserAgreesWithLoop ==
    \A n \in 0 .. 5 : \A start \in [1 .. n -> ParserPieces] :
        \A buffer \in {start, start \o EndOfLine \o EndOfLine} :
            LET verdict == FillHttpRequestHeader(NoHeader, buffer)
                no_body == verdict.code = 0 /\ ~verdict.http_header.has_body
            IN  <<verdict.code, IF no_body THEN -1 ELSE verdict.leaked>> = ReferenceVerdict(buffer)

=============================================================================
