----------------------------- MODULE MCReaders -----------------------------
(* What a worker reads off texts: the file and the handler of every path of *)
(* a small site, the fields of every small form, the value of every small   *)
(* JSON text, what every small request asks for; and what the database      *)
(* reads in the queries it is sent.  Each behaviour is one question and its *)
(* reply.                                                                   *)
EXTENDS Routes, Uri, Json, Dispatch, Query

VARIABLES question, reply

vars == <<question, reply>>

(* A site, and the names of files. *)

MCIndexes == <<"html", "lws">>
MCTypes == << [ending |-> <<"h">>, handler |-> "script_handler"],
              [ending |-> <<"s", "h">>, handler |-> "img_handler"],
              [ending |-> <<"l">>, handler |-> "lws_handler"] >>

A == <<"a">>
B == <<"b">>

\* Trees of directories, none for a host without one; everything a site may hold.
Trees  == { {}, {<<>>}, {<<>>, <<A>>}, {<<>>, <<A>>, <<B>>}, {<<>>, <<A>>, <<A, B>>},
            {<<>>, <<A>>, <<B>>, <<A, B>>} }
Stored == { <<B>>, <<A, B>>, <<A, <<"html">>>>, <<A, <<"lws">>>>, <<<<"html">>>>,
            << <<"a", "html">> >> }
Paths  == { << <<>> >>, <<A>>, <<A, <<>>>>, <<B>>, <<B, <<>>>>, <<A, B>>, <<B, A>>, <<B, A, <<>>>>,
            <<B, A, B>>, <<A, <<"html">>>>, <<B, <<>>, A>> }

\* A file is in a directory and is none; the cache may be of another day.
Sites == {[dirs |-> t, files |-> f, cached |-> c] :
            t \in Trees, f \in SUBSET Stored, c \in SUBSET Stored}

FileNames ==
  {<<"/">> \o s : s \in UNION {[1..n -> {".", "/", "h", "s", "l"}] : n \in 1..4}}

(* Forms. *)

\* a 2 = & % + and the space, the end of a line, and a byte of two hexadecimal letters.
FormBytes == {97, 50, 61, 38, 37, 43, 32, 10, 127}
Texts(n)  == UNION {[1..k -> FormBytes] : k \in 0..n}
Field(n)  == [key : Texts(n), value : Texts(n)]
Forms     == {<<f>> : f \in Field(2)} \cup (Field(1) \X Field(1))

\* The body a browser sends.
Encoded(form) ==
  LET One(i) == (IF i = 1 THEN <<>> ELSE <<Ampersand>>)
                  \o UriEncode(form[i].key) \o <<Equals>> \o UriEncode(form[i].value)
  IN FlattenSeq([i \in 1..Len(form) |-> One(i)])

(* JSON documents: a quoted text, a literal, an array, an object. *)

Quoted(q)  == [d |-> "quoted", q |-> q]
Literal(q) == [d |-> "literal", q |-> q]
Array(l)   == [d |-> "array", l |-> l]
Object(l)  == [d |-> "object", l |-> l]

Scalars == {Quoted(<<c>>) : c \in {"x", "}", "]", ",", ":", " "}}
             \cup {Quoted(<<>>), Literal(<<"1">>), Literal(<<"1", "2">>)}
Keys    == {Quoted(<<"k">>), Quoted(<<"}", ":">>), Literal(<<"k">>)}
Upto2(S) == {<<>>} \cup {<<x>> : x \in S} \cup (S \X S)

Flat   == {Array(l) : l \in Upto2(Scalars)} \cup {Object(l) : l \in Upto2(Keys \X Scalars)}
Few    == {Quoted(<<"x">>), Literal(<<"1">>)}
Nested == {Array(l) : l \in (Flat \X Few) \cup (Few \X Flat)}
            \cup {Object(<< <<k, x>>, <<Quoted(<<"y">>), f>> >>) : k \in Keys, x \in Flat, f \in Few}
            \cup {Array(<<Array(<<x>>), Object(<< <<Quoted(<<"k">>), x>> >>)>>) : x \in Flat}
Documents == Flat \cup Nested

RECURSIVE Printed(_, _), Meaning(_)

\* The text, with a blank between any two parts of it or none.
Printed(d, blank) ==
  LET Listed(l, P(_)) ==
        FlattenSeq([i \in 1..Len(l) |-> (IF i = 1 THEN <<>> ELSE <<",">>)
                                          \o blank \o P(l[i]) \o blank])
      Pair(m) == Printed(m[1], blank) \o blank \o <<":">> \o blank \o Printed(m[2], blank)
      Item(x) == Printed(x, blank)
  IN CASE d.d = "quoted"  -> <<"\"">> \o d.q \o <<"\"">>
       [] d.d = "literal" -> d.q
       [] d.d = "array"   -> <<"[">> \o blank \o Listed(d.l, Item) \o <<"]">>
       [] d.d = "object"  -> <<"{">> \o blank \o Listed(d.l, Pair) \o <<"}">>

\* The value: an array by its places, an object by its keys, the later of two members with
\* one key; an empty text is nil, and so is no element.
Meaning(d) ==
  CASE d.d \in {"quoted", "literal"} -> Text(d.q)
    [] d.d = "array" ->
         Table({<<Number(i), Meaning(d.l[i])>> : i \in {j \in 1..Len(d.l) : Meaning(d.l[j]) # Nil}})
    [] d.d = "object" ->
         Table({<<Text(d.l[i][1].q), Meaning(d.l[i][2])>> :
                  i \in {j \in 1..Len(d.l) :
                           /\ Meaning(d.l[j][2]) # Nil
                           /\ \A k \in (j + 1)..Len(d.l) : d.l[k][1].q # d.l[j][1].q}})

(* Requests, by what their senders mean. *)

NoPort == 0
Hosts  == {[name |-> n, port |-> p, blank |-> b] :
             n \in {<<97>>, <<97, 46, 98>>, <<57>>}, p \in {NoPort, 7, 120}, b \in {<<>>, <<Blank>>}}
Spelling    == {"own", "lower"}
Params == {<<>>} \cup [1..1 -> [key : {<<97>>, <<98>>}, value : {<<49>>}]]
                 \cup {<< [key |-> <<97>>, value |-> <<50>>], [key |-> <<98>>, value |-> <<>>] >>}
BodyTypes == {"none", "application/x-www-form-urlencoded", "text/json"}

Sent(host, length, query, body) ==
  [host : host, spelling : Spelling, method : {"GET", "POST", "PUT", "PATCH"}, methodspelling : Spelling,
   type : BodyTypes, length : length, reversed : BOOLEAN, query : query, body : body]

SentHosts   == Sent(Hosts, {3}, {<<>>}, {<<>>})
SentParams  == Sent({[name |-> <<97>>, port |-> 7, blank |-> <<>>]}, {3}, Params, Params)
SentLengths == Sent({[name |-> <<97>>, port |-> 7, blank |-> <<>>]}, 0..(2^(IntBits - 1) - 1),
                    {<<>>}, {<<>>})

HostText(host) ==
  host.name \o (IF host.port = NoPort THEN <<>> ELSE <<Colon>> \o host.blank \o IntStr(host.port))

\* What the worker has read of one: its headers in either order, and "?" before its query.
Received(m) ==
  LET type == IF m.type = "none" THEN <<>>
              ELSE <<[key |-> Named("Content-Type"), value |-> [start |-> Named(m.type)]]>>
      all  == <<[key |-> Word("Host", m.spelling), value |-> HostText(m.host)]>> \o type
                \o <<[key |-> Named("Content-Length"), value |-> IntStr(m.length)]>>
  IN [headers |-> IF m.reversed THEN Reverse(all) ELSE all,
      method  |-> Word(m.method, m.methodspelling),
      query   |-> ParsePairs(<<63>> \o Encoded(m.query), 1),
      body    |-> Encoded(m.body)]

(* Queries: the parts of a text, between which the values are, and the arguments of a *)
(* procedure.                                                                         *)

\* The part behind the last value may be longer than a header.
Lasts     == {SubSeq(<<"a", "b", "c">>, 1, k) : k \in 0..3}
Parts(n)  == {Append(p, l) : p \in {p \in [1..(n - 1) -> {<<>>, <<"a">>}] :
                                      \A k \in 2..(n - 1) : p[k] # <<>>},
                             l \in Lasts}
Words(C)  == UNION {[1..k -> C] : k \in 0..2}
Values(n) == [1..n -> Words({"a", "'", "?"})]

\* The text a script passes, a question mark for every value.
Asked(parts) ==
  FlattenSeq([k \in 1..Len(parts) |->
                parts[k] \o (IF k < Len(parts) THEN <<"'", "?", "'">> ELSE <<>>)])

\* The base of a procedure's query, the commas and the end of a call with n arguments.
Base     == <<"f", "(">>
Called(n) == IF n = 0 THEN <<Base \o <<")">>>>
             ELSE [k \in 1..(n + 1) |-> IF k = 1 THEN Base ELSE IF k <= n THEN <<",">> ELSE <<")">>]

\* What the database reads: literals, and characters outside of them.
InQuotes(text) == [quoted |-> TRUE, text |-> text]
Outside(c)     == [quoted |-> FALSE, text |-> <<c>>]

\* The statement that is meant: the values as literals between the parts.
Statement(parts, values) ==
  FlattenSeq([k \in 1..Len(parts) |->
                [j \in 1..Len(parts[k]) |-> Outside(parts[k][j])]
                  \o (IF k < Len(parts) THEN <<InQuotes(values[k])>> ELSE <<>>)])

RECURSIVE Reading(_, _, _)

\* The statement the database reads in a text, behind what it found and the part of a
\* literal that was read (NoLiteral outside of one): a quote ends it unless there are two.
NoLiteral == <<"none">>

Reading(text, found, part) ==
  IF text = <<>> THEN IF part = NoLiteral THEN found ELSE Append(found, InQuotes(NoLiteral))
  ELSE IF part = NoLiteral
       THEN IF Head(text) = "'" THEN Reading(Tail(text), found, <<>>)
            ELSE Reading(Tail(text), Append(found, Outside(Head(text))), part)
  ELSE IF Head(text) # "'" THEN Reading(Tail(text), found, Append(part, Head(text)))
  ELSE IF Tail(text) # <<>> /\ Head(Tail(text)) = "'"
       THEN Reading(Tail(Tail(text)), found, Append(part, "'"))
       ELSE Reading(Tail(text), Append(found, InQuotes(part)), NoLiteral)

-----------------------------------------------------------------------------
NoReply == [is |-> "nothing"]

Init ==
  /\ \/ \E s \in {s \in Sites : s.dirs \cap s.files = {} /\ \A f \in s.files : Front(f) \in s.dirs},
           p \in Paths : question = [about |-> "path", site |-> s, path |-> p]
     \/ \E n \in FileNames : question = [about |-> "name", name |-> n]
     \/ \E f \in Forms : question = [about |-> "form", form |-> f]
     \/ \E d \in Documents, b \in {<<>>, <<" ">>} : question = [about |-> "json", doc |-> d, blank |-> b]
     \/ \E n \in 0..2 : \E ps \in Parts(n + 1), vs \in Values(n) :
          question = [about |-> "query", parts |-> ps, values |-> vs]
     \/ \E n \in 0..2 : \E vs \in [1..n -> Words({"a", "?", ","})] :
          question = [about |-> "procedure", parts |-> Called(n), values |-> vs]
     \/ \E m \in SentHosts \cup SentParams \cup SentLengths : question = [about |-> "request", sent |-> m]
  /\ reply = NoReply

Answers(is, what) ==
  /\ reply = NoReply /\ reply' = [is |-> is, what |-> what]
  /\ UNCHANGED question

AnswerPath ==
  question.about = "path" /\ Answers("file", GetMethod(question.site, question.site.cached, question.path))

AnswerName == question.about = "name" /\ Answers("handler", Handler(question.name))

AnswerForm ==
  /\ question.about = "form"
  /\ LET pairs == ParsePairs(Encoded(question.form), 0)
     IN Answers("form", [i \in 1..Len(pairs) |-> [key |-> UriDecode(pairs[i].key),
                                                   value |-> UriDecode(pairs[i].value)]])

AnswerJson ==
  question.about = "json" /\ Answers("value", ParseJson(Printed(question.doc, question.blank)))

AnswerRequest ==
  /\ question.about = "request"
  /\ LET req == Received(question.sent)
     IN Answers("request", SendResponse(req) @@ [length |-> ContentLength(req.headers)])

AnswerQuery ==
  /\ question.about = "query"
  /\ Answers("statement", Reading(QueryText(Asked(question.parts), question.values), <<>>, NoLiteral))

AnswerProcedure ==
  /\ question.about = "procedure"
  /\ Answers("statement", Reading(ProcedureText(Base, question.values), <<>>, NoLiteral))

Next == AnswerPath \/ AnswerName \/ AnswerForm \/ AnswerJson \/ AnswerRequest \/ AnswerQuery \/ AnswerProcedure

Spec == Init /\ [][Next]_vars

-----------------------------------------------------------------------------
\* A file that is on the disk and in the cache is what its own name gets, although a
\* directory may have the name of its last segments (index.c:55-61).
OwnNameFirst(site, path, file) ==
  IsFile(site, path) /\ path \in site.cached => file = path

\* A file that is not the one asked for is an index, directly inside the directory the
\* path leads to, with the shortest possible token before it or none; without a slash
\* at the end it may also be a file beside that directory (index.c:52-79).
FromItsDirectory(site, path, file) ==
  file \notin {path, NotFound} =>
    LET k == Min({j \in 1..Len(path) : IsDirectory(site, Rest(path, j))})
    IN /\ k > 1 => ~IsFile(site, path)
       /\ \E x \in ToSet(Indexes) :
            \/ Plain(file) = Append(Plain(Rest(path, k)), <<x>>)
            \/ Last(path) # <<>> /\ file = Glued(Rest(path, k), x)

\* A directory that has an index in the cache is answered with one, and with the first
\* of indexes[] it has (index.c:66-79).
FirstIndex(site, path, file) ==
  IsDirectory(site, path) =>
    LET Here(x) == {Append(Plain(path), <<x>>)} \cup
                     (IF Last(path) = <<>> THEN {} ELSE {Glued(path, x)})
        hits == {j \in 1..Len(Indexes) : Here(Indexes[j]) \cap site.cached # {}}
    IN IF hits = {} THEN file = NotFound ELSE file \in Here(Indexes[Min(hits)])

\* The handler is that of the type whose ending the name has behind a dot, whatever
\* dots are before it (mime.c:52-58).
HandlerByEnding(name, handler) ==
  LET fits == {j \in 1..Len(Types) : IsSuffix(<<".">> \o Types[j].ending, name)}
  IN handler = IF fits = {} THEN "img_handler" ELSE Types[Min(fits)].handler

\* For every path, whatever is on the disk or in the cache, the right file answers, and
\* every name of a file gets the right handler.
RightAnswer ==
  /\ reply.is = "file" =>
       LET Holds(P(_, _, _)) == P(question.site, question.path, reply.what)
       IN Holds(OwnNameFirst) /\ Holds(FromItsDirectory) /\ Holds(FirstIndex)
  /\ reply.is = "handler" => HandlerByEnding(question.name, reply.what)

\* Whatever bytes are in the fields of a form, encoded, parsed and decoded again they are
\* what they were, an empty key or value included (uri.c:19-116).
FormRead == reply.is = "form" => reply.what = question.form

\* A script gets the value of the document, with and without blanks, for brackets, commas
\* and colons inside of texts and for arrays and objects inside each other
\* (lua_json.c:57-214).
JsonRead == reply.is = "value" => reply.what = Meaning(question.doc)

\* The database reads the statement a script meant: the values it passed to query(), with
\* quotes and question marks in them and empty ones, as the literals at their question
\* marks, and every part of the text around them; and for a stored procedure its arguments,
\* if they have no quotes.  Excepted is a text with values whose rest, from the quote behind
\* the last of them, is longer than a header: of that rest it reads what fits in a header,
\* and then something else, while all before is as it was meant (lws.c:183-196,
\* str.c:98-111, database.c:16-24 and 105-114, lua_db.c:33-37).
QueryBuilt ==
  reply.is = "statement" =>
    LET whole == Statement(question.parts, question.values)
        rest  == 1 + Len(Last(question.parts))
    IN IF question.about = "query" /\ question.values # <<>> /\ rest > Header
       THEN IsPrefix(SubSeq(whole, 1, Len(whole) - (rest - Header)), reply.what)
       ELSE reply.what = whole

\* The length is the one that was sent; a request with a header Host and a known method
\* gets that method, in whatever order its headers and spelling its method are; the host is
\* without its port, and the port the one behind it (a name that begins with a digit and has
\* no port is read as one).  A script that asks for a parameter gets the one in the path
\* before the one in a form, and a form only if it was posted (client.c:58-67,
\* methods.c:52-80, requests.c:138-150).
RequestUnderstood ==
  reply.is = "request" =>
    LET m == question.sent
        got == reply.what
        Fields == m.query \o (IF m.method # "POST" THEN <<>>
                              ELSE IF m.type = "text/json" THEN <<[key |-> JsonName, value |-> Encoded(m.body)]>>
                              ELSE m.body)
        First(fields, name) == SelectInSeq(fields, LAMBDA f : f.key = name)
    IN /\ got.length = m.length
       /\ got.status = IF m.spelling # "own" \/ m.method = "PATCH" THEN 400
                       ELSE IF m.method = "PUT" THEN 405 ELSE 200
       /\ got.status # 400 => /\ got.host = m.host.name
                              /\ \/ got.port = IF m.host.port = NoPort THEN 80 ELSE m.host.port
                                 \/ m.host.port = NoPort /\ Head(m.host.name) \in Digits
       /\ got.status = 200 =>
            \A name \in {<<97>>, <<98>>, JsonName} :
              LET k == First(Fields, name)
              IN IF k = 0 THEN ~Has(got.vars, name)
                 ELSE Has(got.vars, name) /\ FindHeader(got.vars, name) = Fields[k].value
=============================================================================
