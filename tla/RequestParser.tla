----------------------------- MODULE RequestParser -----------------------------
(***************************************************************************)
(* FillHttpRequestHeader (src/src/http_parser.c): how the text of a        *)
(* request decides what becomes of it.                                     *)
(*                                                                         *)
(* A text is a sequence of pieces: "SP", "CR", "LF", the words the parser  *)
(* and HandleConnection look for ("GET", "Keep-Alive", "Accept-Encoding",  *)
(* "chunked", in any letter case), "long" for a word of more than          *)
(* MAX_URL_SIZE bytes, and any other string for any other word.            *)
(***************************************************************************)
EXTENDS Sequences, FiniteSetsExt

kNotFound       == -1
kBadRequest     == -2
kNotImplemented == -3

HTTP_HEAD_COUNT == 3

Occurs(piece, text) == \E i \in DOMAIN text : text[i] = piece

\* GetKeywordIndex(buffer, "\r\n\r\n"): the head of a request ends with the
\* first of these lengths.
HeadLengths(buffer) ==
    {n \in 4 .. Len(buffer) : SubSeq(buffer, n - 3, n) = <<"CR", "LF", "CR", "LF">>}

http_header_raw(buffer) == SubSeq(buffer, 1, Min(HeadLengths(buffer)))

(***************************************************************************)
(* strtok_r with the delimiters " \r".  A line feed is part of a token, so *)
(* that the blank line alone yields two of them.                           *)
(***************************************************************************)
Delimiters == {"SP", "CR"}

TokenStarts(raw) ==
    {i \in DOMAIN raw : raw[i] \notin Delimiters /\ (i = 1 \/ raw[i - 1] \in Delimiters)}

TokenStart(raw, n) ==
    CHOOSE i \in TokenStarts(raw) : Cardinality({j \in TokenStarts(raw) : j < i}) = n - 1

TokenEnd(raw, n) ==
    Min({j \in TokenStart(raw, n) .. Len(raw) : j = Len(raw) \/ raw[j + 1] \in Delimiters})

Token(raw, n) == SubSeq(raw, TokenStart(raw, n), TokenEnd(raw, n))

\* The tokens of the request line that are missing or too long.
Refused(raw) ==
    {n \in 1 .. HTTP_HEAD_COUNT :
        Cardinality(TokenStarts(raw)) < n \/ Occurs("long", Token(raw, n))}

\* Where strstr finds a line feed behind the third token and its delimiter.
BodyFeeds(raw) ==
    {i \in DOMAIN raw : raw[i] = "LF"} \ 1 .. TokenEnd(raw, HTTP_HEAD_COUNT) + 1

\* What is kept of struct HttpRequestHeader: are its strings held, and its body.
NoHeader       == [held |-> FALSE, has_body |-> FALSE, body |-> <<>>]
HeadersOfTexts == [held : BOOLEAN, has_body : BOOLEAN, body : Seq(STRING)]

HeaderHolding(raw) ==
    LET feeds == BodyFeeds(raw)
    IN  [held     |-> TRUE,
         has_body |-> feeds # {},
         body     |-> IF feeds = {} THEN <<>> ELSE SubSeq(raw, Min(feeds) + 1, Len(raw))]

Verdict(code, leaked, http_header) ==
    [code |-> code, leaked |-> leaked, http_header |-> http_header]

(***************************************************************************)
(* The return code, the number of allocated blocks that nothing points to  *)
(* any more (the tokens before a refused one and the copy of the head;     *)
(* only success frees that copy), and http_header, whose body is NULL when *)
(* no line feed is left.                                                   *)
(***************************************************************************)
FillHttpRequestHeader(http_header, buffer) ==
    IF HeadLengths(buffer) = {} THEN Verdict(kBadRequest, 0, http_header)
    ELSE LET raw == http_header_raw(buffer)
         IN  CASE Refused(raw) # {} -> Verdict(kBadRequest, Min(Refused(raw)), NoHeader)
               [] Refused(raw) = {} /\ ~Occurs("GET", Token(raw, 1))
                    -> Verdict(kNotImplemented, 1, [http_header EXCEPT !.held = TRUE])
               [] OTHER -> Verdict(0, 0, HeaderHolding(raw))

\* http_header.path of an accepted request.
PathOf(buffer) == Token(http_header_raw(buffer), 2)

\* stristr(body, "Keep-Alive"), and stristr(accept_encoding, "chunked") for the
\* first Accept-Encoding: everything behind it is searched, other fields too.
AsksKeepAlive(body) == Occurs("Keep-Alive", body)

HasAcceptEncoding(body) == Occurs("Accept-Encoding", body)

AsksChunked(body) ==
    \E i, j \in DOMAIN body : i < j /\ body[i] = "Accept-Encoding" /\ body[j] = "chunked"

=============================================================================
