------------------------------ MODULE Dispatch ------------------------------
(***************************************************************************)
(* What a worker makes of a request it has read: host and port, the length *)
(* of the body, the method's handler, and the parameters of the scripts    *)
(* (send_response(), parse_host(), inbound_content_length(),               *)
(* dispatch_method(), post_method()), with what they use of str.c and      *)
(* headers.c.                                                              *)
(*                                                                         *)
(* A text is a sequence of bytes, as in Uri, but the names of headers and  *)
(* methods, and values that are compared with words, are words in a        *)
(* spelling: cmp() minds the spelling, icmp() and strncasecmp() do not.    *)
(***************************************************************************)
EXTENDS Uri, TLC

CONSTANT IntBits     \* the width of an int

Minus == 45
Colon == 58

Word(w, s)  == [word |-> w, spelling |-> s]
Named(w)    == Word(w, "own")             \* as the source spells it
Cmp(a, b)   == a = b
ICmp(a, b)  == a.word = b.word

\* find_header(): the first of that name, where there is one.
Has(headers, key)        == \E k \in 1..Len(headers) : Cmp(headers[k].key, key)
FindHeader(headers, key) ==
  headers[Min({k \in 1..Len(headers) : Cmp(headers[k].key, key)})].value

-----------------------------------------------------------------------------
(* Numbers. *)

\* Overflow of an int, as the processors Jawas runs on do it.
Wrapped(x) == LET half == 2^(IntBits - 1) IN ((x + half) % 2^IntBits) - half

IntLen(i) == Min({l \in 1..(IntBits + 1) : i < 10^l})

\* int_str() and "%i" of a number that is not negative: the digits of an int, in as many
\* places as the number has.
IntStr(i) ==
  LET t == Wrapped(i)
      n == IF t < 0 THEN -t ELSE t
  IN [k \in 1..IntLen(i) |-> 48 + ((n \div 10^(IntLen(i) - k)) % 10)]

\* A number up to the first byte that is no digit; the sign counts only if there is none.
StrInt(a) ==
  LET first == IF Byte(a, 0) = Minus THEN 1 ELSE 0
      stops == {i \in first..(Len(a) - 1) : Byte(a, i) \notin Digits}
      end   == IF stops = {} THEN Len(a) ELSE Min(stops)
      value[i \in first..end] ==
        IF i = first THEN 0 ELSE Wrapped(value[i - 1] * 10 + Byte(a, i - 1) - 48)
  IN IF first = 1 /\ stops = {} /\ Len(a) > 0 THEN Wrapped(-value[end]) ELSE value[end]

-----------------------------------------------------------------------------
(* parse_host() *)

NameField(line) == SubSeq(line, 1, FindOf(line, 0, {Colon}))

\* What is behind the colon and the spaces after it; the line itself if nothing is.
SkipField(line) ==
  LET colon == FindOf(line, 0, {Colon})
      start == FindOf(line, colon + 1, 0..127 \ White)
  IN IF start < Len(line) THEN SubSeq(line, start + 1, Len(line)) ELSE line

\* Mutant: the number is looked for in the whole line.
ParseHostWhole(host) ==
  [host |-> NameField(host), port |-> IF StrInt(host) = 0 THEN 80 ELSE StrInt(host)]

ParseHost(host) ==
  LET port == StrInt(SkipField(host))
  IN [host |-> NameField(host), port |-> IF port = 0 THEN 80 ELSE port]

-----------------------------------------------------------------------------
(* The length of the body. *)

IsChunked(headers) ==
  LET key == Named("Transfer-Encoding")
  IN Has(headers, key) /\ ICmp(FindHeader(headers, key), Named("chunked"))

\* chunked_length() does not end.
Endless == [endless |-> TRUE]

ContentLength(headers) ==
  LET key == Named("Content-Length")
  IN IF IsChunked(headers) THEN Endless
     ELSE IF Has(headers, key) THEN StrInt(FindHeader(headers, key)) ELSE 0

-----------------------------------------------------------------------------
(* dispatch_method() and the parameters. *)

\* gdispatch[].
Methods == {"GET", "POST", "HEAD", "OPTIONS", "PUT", "DELETE", "TRACE"}

\* NOT_IMPLEMENTED.
NotImplemented == Methods \ {"GET", "POST"}

JsonName == <<106, 115, 111, 110>>
JsonVars(vars, body) == Append(vars, [key |-> JsonName, value |-> body])

\* post_method(): the parameters in the body come behind those in the path; ncmp() looks at
\* the start of the type only.  What parse_multipart_body() adds is left out.
PostVars(req) ==
  LET key == Named("Content-Type")
      Is(type) == Has(req.headers, key) /\ Cmp(FindHeader(req.headers, key).start, Named(type))
  IN CASE Is("multipart/form-data") -> req.query
       [] Is("text/json")           -> JsonVars(req.query, req.body)
       [] OTHER                     -> req.query \o ParsePairs(req.body, 0)

DispatchMethod(req) ==
  LET method == req.method.word
  IN CASE method = "GET"             -> [status |-> 200, vars |-> req.query]
       [] method = "POST"            -> [status |-> 200, vars |-> PostVars(req)]
       [] method \in NotImplemented  -> [status |-> 405, vars |-> req.query]
       [] OTHER                      -> [status |-> 400, vars |-> req.query]

\* send_response(), with 200 for what get_method() answers.
SendResponse(req) ==
  LET key == Named("Host")
  IN IF Has(req.headers, key)
     THEN ParseHost(FindHeader(req.headers, key)) @@ DispatchMethod(req)
     ELSE [status |-> 400, vars |-> req.query]
=============================================================================
