------------------------------- MODULE Exchange -------------------------------
(***************************************************************************)
(* One HTTP exchange of the native module (native/panet/panet.cpp,         *)
(* httpFetch): the URL is taken apart, the addresses of the host are tried *)
(* in turn, the request is sent and the reply is read until the server     *)
(* closes, stalls or breaks, and only then parsed.                         *)
(*                                                                         *)
(* A URL is a sequence of tokens.  A reply is a sequence of units, each    *)
(* such that cutting it in the middle means the same as not having it: a   *)
(* line, a character of a redirect's address, the blank line, a byte of    *)
(* content, the frame of a chunk.  A recv that is interrupted is repeated  *)
(* and changes nothing.  What the script is told is text: the lines of the *)
(* head as JSON, the body in base 64.                                      *)
(*                                                                         *)
(* Loops over a text are functions of the number of rounds or of the       *)
(* characters done, so that what they compute can be proved.               *)
(***************************************************************************)
EXTENDS Integers, Sequences, SequencesExt, FiniteSets

CONSTANTS
    Urls,          \* the URLs asked for: [scheme, brackets, host, port, path]
    Shapes,        \* how a server frames its reply: [blank, reason, frame, ends, inBody, to]
    MaxAddresses,  \* bound: addresses of a host
    MaxRaw         \* 4 MB

ASSUME ExchangeAssumption == MaxAddresses \in Nat /\ MaxRaw \in Nat

\* Content in one piece may end anywhere; its chunks are not empty.
IsShape(sh) ==
    /\ sh.blank \in {"crlf", "lf"} /\ sh.reason \in BOOLEAN
    /\ sh.frame \in {"length", "chunked", "close"}
    /\ sh.ends \in Seq(Nat) /\ sh.inBody \in Nat /\ sh.to \in Seq(STRING)
    /\ \A c \in DOMAIN sh.ends : (IF c = 1 THEN 0 ELSE sh.ends[c - 1]) < sh.ends[c]

ASSUME ShapesAssumption == \A sh \in Shapes : IsShape(sh)

VARIABLES
    url,        \* the URL
    shape,      \* how its server replies
    phase,      \* "parse", "connect", "send", "recv", "answered" or "failed"
    addresses,  \* addresses not tried yet
    sending,    \* units the server has not sent yet
    raw,        \* units received
    response    \* what the script is told: [status, body, to]

exchange == <<url, shape, phase, addresses, sending, raw, response>>

-----------------------------------------------------------------------------
\* The text of a URL, and what it names.
HostText(u) == IF u.brackets THEN <<"[">> \o u.host \o <<"]">> ELSE u.host
PortText(u) == IF u.port = <<>> THEN <<>> ELSE <<":">> \o u.port

UrlText(u) == u.scheme \o ((HostText(u) \o PortText(u)) \o u.path)

\* The parts hold none of the punctuation between them.
IsUrl(u) ==
    /\ u.scheme \in {<<>>, <<"http://">>, <<"https://">>} /\ u.brackets \in BOOLEAN
    /\ u.host \in Seq(STRING) /\ u.port \in Seq(STRING) /\ u.path \in Seq(STRING)
    /\ \A i \in DOMAIN u.host :
         u.host[i] \notin {"/", "[", "]", "http://", "https://"}
             \cup (IF u.brackets THEN {} ELSE {":"})
    /\ \A i \in DOMAIN u.port : u.port[i] \notin {"/", "]", ":"}
    /\ u.path # <<>> => u.path[1] = "/"

ASSUME UrlsAssumption == \A u \in Urls : IsUrl(u)

Named(u) ==
    [host |-> u.host,
     port |-> IF u.port = <<>> THEN <<"80">> ELSE u.port,
     path |-> IF u.path = <<>> THEN <<"/">> ELSE u.path]

Upto(s, i) == SubSeq(s, 1, i - 1)
From(s, i) == SubSeq(s, i, Len(s))

\* find and rfind: 0 stands for npos.
FirstOf(s, x) == SelectInSeq(s, LAMBDA t : t = x)
LastOf(s, x) == SelectLastInSeq(s, LAMBDA t : t = x)

\* parseUrl: the host and the port.
HostPort(s, path) ==
    LET closing == FirstOf(s, "]")
        colon == LastOf(s, ":")
        Parts(host, port) == [host |-> host, port |-> port, path |-> path]
    IN IF s # <<>> /\ s[1] = "["
       THEN IF closing = 0 THEN {}
            ELSE {Parts(SubSeq(s, 2, closing - 1),
                        IF closing < Len(s) /\ s[closing + 1] = ":"
                          THEN From(s, closing + 2) ELSE <<"80">>)}
       ELSE IF colon = 0 THEN {Parts(s, <<"80">>)}
       ELSE {Parts(Upto(s, colon), From(s, colon + 1))}

\* parseUrl: nothing if it throws.
ParseUrl(s) ==
    LET rest == IF s # <<>> /\ s[1] = "http://" THEN Tail(s) ELSE s
        slash == FirstOf(rest, "/")
        parts == IF slash = 0 THEN HostPort(rest, <<"/">>)
                 ELSE HostPort(Upto(rest, slash), From(rest, slash))
    IN IF rest # <<>> /\ rest[1] = "https://" THEN {}
       ELSE {u \in parts : u.host # <<>>}

-----------------------------------------------------------------------------
\* The reply of the server that a request reaches.  Its content is told apart
\* by what was asked for; one byte of it may stand for the text of a blank line.
\* A unit is of a kind and has a number, and what else it says.
Unit(kind, n, says) == [kind |-> kind, n |-> n, says |-> says]

EndOf(sh, c) == IF c = 0 THEN 0 ELSE sh.ends[c]

ContentOf(asked, sh) ==
    [i \in 1..EndOf(sh, Len(sh.ends)) |-> Unit("byte", i, [of |-> asked, blank |-> i = sh.inBody])]

Optional(P, u) == IF P THEN <<u>> ELSE <<>>

Lines(sh) ==
    <<Unit("code", 200, "")>> \o Optional(sh.reason, Unit("reason", 0, ""))
        \o Optional(sh.frame = "length", Unit("content-length", EndOf(sh, Len(sh.ends)), ""))
        \o Optional(sh.frame = "chunked", Unit("chunked", 0, ""))
        \o Optional(sh.to # <<>>, Unit("location", 0, ""))

HeadOf(sh) == Lines(sh) \o [i \in DOMAIN sh.to |-> Unit("char", i, sh.to[i])]

\* Chunk c begins with its size and ends with CR LF; behind the last one is a
\* size of 0.
BeginOf(sh, c) == EndOf(sh, c - 1) + 2 * (c - 1) + 1

ChunkAt(sh, i) ==
    CHOOSE c \in 1..(Len(sh.ends) + 1) :
        BeginOf(sh, c) <= i /\ (c \in DOMAIN sh.ends => i < BeginOf(sh, c + 1))

InChunks(content, sh) ==
    [i \in 1..BeginOf(sh, Len(sh.ends) + 1) |->
        LET c == ChunkAt(sh, i)
        IN IF i = BeginOf(sh, Len(sh.ends) + 1) THEN Unit("size", 0, "")
           ELSE IF i = BeginOf(sh, c) THEN Unit("size", EndOf(sh, c) - EndOf(sh, c - 1), "")
           ELSE IF i = BeginOf(sh, c + 1) - 1 THEN Unit("tail", 0, "")
           ELSE content[i - 2 * (c - 1) - 1]]

BodyOf(asked, sh) ==
    IF sh.frame = "chunked" THEN InChunks(ContentOf(asked, sh), sh) ELSE ContentOf(asked, sh)

Reply(asked, sh) == HeadOf(sh) \o <<Unit("end", 0, sh.blank)>> \o BodyOf(asked, sh)

\* parseResponse.  The head ends at the first CR LF CR LF, wherever that is, or
\* else at the first LF LF; the last chunk holds a CR LF CR LF.
HoldsCrLfCrLf(t) ==
    \/ t.kind = "end" /\ t.says = "crlf"
    \/ t.kind = "byte" /\ t.says.blank
    \/ t.kind = "size" /\ t.n = 0

\* The first unit of a kind, or 0.
LineOf(r, kind) == SelectInSeq(r, LAMBDA t : t.kind = kind)

HeadEnd(r) ==
    LET crlf == SelectInSeq(r, HoldsCrLfCrLf)
    IN IF crlf # 0 THEN crlf ELSE LineOf(r, "end")

\* The fault: the CR LF behind a chunk is not skipped.
NextChunkTight(b, r) ==
    IF r.pos > Len(b) \/ b[r.pos].kind # "size" \/ b[r.pos].n = 0 THEN r
    ELSE IF r.pos + b[r.pos].n > Len(b)
      THEN [pos |-> Len(b) + 1, out |-> r.out \o From(b, r.pos + 1)]
    ELSE [pos |-> r.pos + b[r.pos].n + 1,
          out |-> r.out \o SubSeq(b, r.pos + 1, r.pos + b[r.pos].n)]

\* One chunk; one that is cut, or empty, ends the content.
NextChunk(b, r) ==
    IF r.pos > Len(b) \/ b[r.pos].kind # "size" \/ b[r.pos].n = 0 THEN r
    ELSE IF r.pos + b[r.pos].n > Len(b)
      THEN [pos |-> Len(b) + 1, out |-> r.out \o From(b, r.pos + 1)]
    ELSE [pos |-> r.pos + b[r.pos].n + 2,
          out |-> r.out \o SubSeq(b, r.pos + 1, r.pos + b[r.pos].n)]

Dechunk(b) ==
    LET after[k \in 0..Len(b)] ==
            IF k = 0 THEN [pos |-> 1, out |-> <<>>] ELSE NextChunk(b, after[k - 1])
    IN after[Len(b)].out

\* The status needs two blanks in its line, the second one before the reason.
\* The address of a redirect is in the last line.
ParseResponse(r) ==
    LET end == HeadEnd(r)
        head == IF end = 0 THEN r ELSE Upto(r, end)
        body == IF end = 0 THEN <<>> ELSE From(r, end + 1)
        n(kind) == LineOf(head, kind)
    IN [status |-> IF n("reason") # 0 THEN head[n("code")].n ELSE 0,
        body |-> IF n("chunked") # 0 THEN Dechunk(body)
                 ELSE IF n("content-length") # 0 /\ head[n("content-length")].n < Len(body)
                        THEN SubSeq(body, 1, head[n("content-length")].n)
                 ELSE body,
        to |-> IF n("location") = 0 THEN <<>>
               ELSE [i \in 1..(Len(head) - n("location")) |-> head[n("location") + i].says]]

-----------------------------------------------------------------------------
\* base64Encode: a digit is six bits, and the last group of three bytes may lack
\* one or two; the bits of the body are followed by zeros.
NoByte == [pad |-> TRUE]

Bit(body, k) ==
    IF k <= 8 * Len(body) THEN [byte |-> body[(k - 1) \div 8 + 1], bit |-> ((k - 1) % 8) + 1]
    ELSE [byte |-> NoByte, bit |-> 0]

Pad == <<>>

Base64Encode(body) ==
    [d \in 1..(4 * ((Len(body) + 2) \div 3)) |->
        IF 6 * (d - 1) < 8 * Len(body) THEN [k \in 1..6 |-> Bit(body, 6 * (d - 1) + k)] ELSE Pad]

\* b64ToBytes of net.js: padding is skipped, and bits that make no byte are dropped.
ByteOf(bits) ==
    IF \A k \in 1..8 : bits[k] = [byte |-> bits[1].byte, bit |-> k] THEN bits[1].byte ELSE NoByte

NextDigit(r, digit) ==
    LET buf == r.buf \o digit
    IN IF Len(buf) < 8 THEN [buf |-> buf, out |-> r.out]
       ELSE [buf |-> From(buf, 9), out |-> Append(r.out, ByteOf(buf))]

B64ToBytes(text) ==
    LET after[i \in 0..Len(text)] ==
            IF i = 0 THEN [buf |-> <<>>, out |-> <<>>] ELSE NextDigit(after[i - 1], text[i])
    IN after[Len(text)].out

\* jsonEscape.
Escaped(c) ==
    CASE c \in {"quote", "backslash"} -> <<"backslash", c>>
      [] c = "control" -> <<"backslash", "u", c>>
      [] OTHER -> <<c>>

JsonEscape(s) ==
    LET upto[i \in 0..Len(s)] == IF i = 0 THEN <<>> ELSE upto[i - 1] \o Escaped(s[i])
    IN upto[Len(s)]

\* The engine's parser of JSON; nothing of a text with a bare quote or control.
NextChar(r, c) ==
    IF r.escaped THEN IF c = "u" THEN r ELSE [escaped |-> FALSE, text |-> Append(r.text, c)]
    ELSE IF c = "backslash" THEN [escaped |-> TRUE, text |-> r.text]
    ELSE [escaped |-> FALSE,
          text |-> IF c \in {"quote", "control"} THEN <<"error">> ELSE Append(r.text, c)]

JsonParsed(s) ==
    LET after[i \in 0..Len(s)] ==
            IF i = 0 THEN [escaped |-> FALSE, text |-> <<>>] ELSE NextChar(after[i - 1], s[i])
    IN after[Len(s)].text

\* Panet::request posts the response as JSON; request of net.js takes it apart.
Told(r) ==
    [status |-> r.status,
     body |-> B64ToBytes(Base64Encode(r.body)),
     to |-> JsonParsed(JsonEscape(r.to))]

-----------------------------------------------------------------------------
NoResponse == [status |-> 0, body |-> <<>>, to |-> <<>>]

ExInit ==
    /\ url \in Urls /\ shape \in Shapes
    /\ phase = "parse" /\ addresses = 0
    /\ sending = <<>> /\ raw = <<>> /\ response = NoResponse

Target == CHOOSE u \in ParseUrl(UrlText(url)) : TRUE

\* httpFetch: parseUrl, then getaddrinfo.
Resolve ==
    /\ phase = "parse"
    /\ \E n \in 0..MaxAddresses :
         /\ addresses' = n
         /\ phase' = IF ParseUrl(UrlText(url)) = {} \/ n = 0 THEN "failed" ELSE "connect"
    /\ UNCHANGED <<url, shape, sending, raw, response>>

\* connect: an address refuses, or does not answer in time; the next one.
Unreachable ==
    /\ phase = "connect"
    /\ addresses' = addresses - 1
    /\ phase' = IF addresses = 1 THEN "failed" ELSE "connect"
    /\ UNCHANGED <<url, shape, sending, raw, response>>

Connect ==
    /\ phase = "connect" /\ phase' = "send"
    /\ UNCHANGED <<url, shape, addresses, sending, raw, response>>

\* sendAll.
SendAll ==
    /\ phase = "send"
    /\ \/ phase' = "recv" /\ sending' = Reply(Target, shape)
       \/ phase' = "failed" /\ UNCHANGED sending
    /\ UNCHANGED <<url, shape, addresses, raw, response>>

\* recv: some of what the server sends.
Recv ==
    /\ phase = "recv"
    /\ \E n \in 1..Len(sending) :
         /\ raw' = raw \o SubSeq(sending, 1, n)
         /\ sending' = From(sending, n + 1)
    /\ phase' = IF Len(raw') > MaxRaw THEN "failed" ELSE "recv"
    /\ UNCHANGED <<url, shape, addresses, response>>

Accept ==
    /\ phase' = "answered" /\ response' = Told(ParseResponse(raw))
    /\ UNCHANGED <<url, shape, addresses, sending, raw>>

Fail ==
    /\ phase' = "failed"
    /\ UNCHANGED <<url, shape, addresses, sending, raw, response>>

\* recvAll returns: the server has closed, has sent nothing for the time of the
\* timeout, or the connection is broken, at any point of the reply.  What has
\* come by then is accepted, but not nothing at all.
RecvEnd ==
    /\ phase = "recv"
    /\ IF raw = <<>> THEN Fail ELSE Accept

ExNext == Resolve \/ Unreachable \/ Connect \/ SendAll \/ Recv \/ RecvEnd

-----------------------------------------------------------------------------
\* The head of such a reply ends with LF LF, and a CR LF CR LF comes later.
Ambiguous(sh) == sh.blank = "lf" /\ (sh.inBody # 0 \/ sh.frame = "chunked")

\* The body that the script is given is a beginning of what the server, port and
\* path that the URL names meant to send, never its framing, and all of it if the
\* whole reply has come; the same goes for the address of a redirect; the status is
\* the server's or, if that line is short, zero.
BodyHonest ==
    phase = "answered" /\ ~Ambiguous(shape) =>
        LET meant == ContentOf(Named(url), shape)
        IN /\ IsPrefix(response.body, meant)
           /\ IsPrefix(response.to, shape.to)
           /\ response.status \in {0, 200}
           /\ sending = <<>> =>
                /\ response.body = meant /\ response.to = shape.to
                /\ response.status = IF shape.reason THEN 200 ELSE 0
=============================================================================
