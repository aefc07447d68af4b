-------------------------------- MODULE Json --------------------------------
(***************************************************************************)
(* The JSON reader of the scripts (lua_json.c): parse_json_string() and    *)
(* what it calls, from a text to the Lua value that is left on the stack.  *)
(* Texts are sequences of characters, offsets count from 0; every function *)
(* has as its result the offset it leaves in *o and the value it pushed.   *)
(***************************************************************************)
EXTENDS Integers, SequencesExt

Sym(s, i) == IF i < Len(s) THEN s[i + 1] ELSE "end"

Brackets == {"{", "(", "[", "}", "]", ")"}
Spaces   == {" "}
Stops    == {"\"", ":", ","} \cup Spaces \cup Brackets

\* The first of those characters at i or behind it, or the end.
SkipTo(s, i, chars) ==
  LET hits == {k \in i..(Len(s) - 1) : s[k + 1] \in chars}
  IN IF hits # {} THEN Min(hits) ELSE IF i > Len(s) THEN i ELSE Len(s)

\* The first character that is not one of them.
SkipOver(s, i, chars) ==
  LET hits == {k \in i..(Len(s) - 1) : s[k + 1] \notin chars}
  IN IF hits # {} THEN Min(hits) ELSE IF i > Len(s) THEN i ELSE Len(s)

(* Lua values. *)
Nil       == [t |-> "nil"]
Raised    == [t |-> "raised"]         \* lua_settable() with a key nil
Text(q)   == IF q = <<>> THEN Nil ELSE [t |-> "string", s |-> q]
Number(n) == [t |-> "number", n |-> n]
Table(e)  == [t |-> "table", e |-> e]
EmptyTable == Table({})

\* lua_settable(): a value nil takes the key away.
Put(table, key, value) ==
  IF table = Raised \/ key = Nil \/ value = Raised THEN Raised
  ELSE Table({f \in table.e : f[1] # key} \cup (IF value = Nil THEN {} ELSE {<<key, value>>}))

Result(o, v) == [o |-> o, v |-> v]

\* Mutant: the offset stays at the start of the text.
QuotedStringStays(s, o) ==
  LET first == o + 1
      end   == SkipTo(s, first, {"\""})
  IN Result(first, Text(SubSeq(s, first + 1, end)))

\* The text between the quotes; the offset of the closing one.  A backslash makes it copy
\* the next character one place further on: what then is in its own place was never
\* written, and a backslash that ends the text leaves the length blank() set.
QuotedString(s, o) ==
  LET first == o + 1
      Copied[i \in first..(Len(s) + 2)] ==
        CASE i >= Len(s)        -> Result(i, <<>>)
          [] Sym(s, i) = "\""   -> Result(i, <<>>)
          [] Sym(s, i) = "\\" /\ i + 1 < Len(s) ->
               Result(Copied[i + 2].o, <<"unset", Sym(s, i + 1)>> \o Copied[i + 2].v)
          [] Sym(s, i) = "\\"   -> Result(i + 2, IF i = first THEN <<"unset", "unset">> ELSE <<>>)
          [] OTHER -> Result(Copied[i + 1].o, <<Sym(s, i)>> \o Copied[i + 1].v)
  IN Result(Copied[first].o, Text(Copied[first].v))

\* Up to a quote, colon, space, bracket or comma, which may be the first character.
Token(s, o) ==
  LET end == SkipTo(s, o, Stops)
  IN Result(end, Text(SubSeq(s, o + 1, end)))

Key(s, o) == IF Sym(s, o) = "\"" THEN QuotedString(s, o) ELSE Token(s, o)

RECURSIVE Elements(_, _, _, _), Members(_, _, _)

ParseObject(s, o) ==
  IF Sym(s, o) = "[" THEN Elements(s, o + 1, 0, EmptyTable) ELSE Members(s, o + 1, EmptyTable)

Value(s, o) == IF Sym(s, o) \in Brackets THEN ParseObject(s, o) ELSE Key(s, o)

\* The loop of parse_array(), at p with n elements read.
Elements(s, p, n, table) ==
  CASE p >= Len(s)           -> Result(p, table)
    [] Sym(s, p) \in Spaces   -> Elements(s, p + 1, n, table)
    [] Sym(s, p) = "]"        -> Result(p + 1, table)
    [] OTHER ->
         LET element == Value(s, p)
             next    == SkipTo(s, element.o, {"]", ","})
             longer  == Put(table, Number(n + 1), element.v)
         IN IF Sym(s, next) = "]" THEN Result(next + 1, longer)
            ELSE Elements(s, next + 1, n + 1, longer)

\* The loop of parse_json_object(), at p.
Members(s, p, table) ==
  CASE p >= Len(s)           -> Result(p, table)
    [] Sym(s, p) \in Spaces   -> Members(s, p + 1, table)
    [] Sym(s, p) = "}"        -> Result(p + 1, table)
    [] OTHER ->
         LET key    == Key(s, p)
             colon  == SkipTo(s, key.o, {":"})
             value  == Value(s, SkipOver(s, colon + 1, Spaces))
             next   == SkipTo(s, value.o, {"}", ","})
             longer == Put(table, key.v, value.v)
         IN IF Sym(s, next) = "}" THEN Result(next + 1, longer)
            ELSE Members(s, next + 1, longer)

\* What is before the first bracket is passed over, and so is what is behind the last.
ParseJson(s) ==
  LET first == SkipTo(s, 0, Brackets)
  IN IF first >= Len(s) THEN Nil ELSE ParseObject(s, first).v
=============================================================================
