------------------------------- MODULE Query -------------------------------
(***************************************************************************)
(* The text of a query, as a script's query() (lws.c) and a stored         *)
(* procedure (lua_db.c) put it together from what the script passes.       *)
(* Texts are sequences of characters, "'" and "?" among them.  The rest    *)
(* behind the last value is appended in place (str.c), with room for one   *)
(* header only; what a longer rest loses is part of the text here.         *)
(***************************************************************************)
LOCAL INSTANCE Integers
LOCAL INSTANCE Sequences
LOCAL INSTANCE SequencesExt
LOCAL INSTANCE FiniteSetsExt

CONSTANT Header     \* sizeof(struct str_struct), 16 bytes

ASSUME HeaderAssumption == Header \in Nat \ {0}

\* Mutant: the text is quoted as it is.
SingleQuotePlain(s) == s

\* singlequote(): PQescapeStringConn() doubles quotes; it adds none around the text.
SingleQuote(s) ==
  FlattenSeq([k \in 1..Len(s) |-> IF s[k] = "'" THEN <<"'", "'">> ELSE <<s[k]>>])

\* What lua2str() makes of an argument that is not there: the text of a pointer.
Pointer == <<"p">>

\* The question marks query() finds: it does not look at the first character.
QuestionMarks(q) == SetToSortSeq({k \in 2..Len(q) : q[k] = "?"}, <)

\* What the database gets of a rest that append() copied to where its reference was, right
\* behind the text: the region has reserved one header there.  Beyond it dblog() and query()
\* write the headers of their own texts before query() copies this one, so the length of the
\* first follows (one symbol here for its bytes; none if the lowest is 0), and with the 0
\* in that length the query ends for the database.
Landed(rest) ==
  IF Len(rest) <= Header THEN rest ELSE SubSeq(rest, 1, Header) \o <<"length">>

\* The loop of query(): its argument counter is tested before it is advanced, so there may
\* be one more question mark than values.  Without one the text is its own rest, no copy.
QueryText(q, values) ==
  LET at    == QuestionMarks(q)
      n     == Min({Len(at), Len(values) + 1})
      From(k) == IF k = 1 THEN 1 ELSE at[k - 1] + 1
      Value(k) == SingleQuote(IF k <= Len(values) THEN values[k] ELSE Pointer)
      rest  == SubSeq(q, From(n + 1), Len(q))
  IN IF n = 0 THEN rest
     ELSE FlattenSeq([k \in 1..n |-> SubSeq(q, From(k), at[k] - 1) \o Value(k)]) \o Landed(rest)

\* DBClosureLua(): the base query of the procedure, every argument in quotes, and commas.
ProcedureText(base, arguments) ==
  LET n == Len(arguments)
      Argument(k) == <<"'">> \o arguments[k] \o <<"'">> \o (IF k < n THEN <<",">> ELSE <<>>)
  IN base \o FlattenSeq([k \in 1..n |-> Argument(k)]) \o <<")">>
=============================================================================
