------------------------------- MODULE MCHead -------------------------------
(* The messages TLC sends to Head.                                         *)
EXTENDS Head, SequencesExt

LineEnd(crlf) == IF crlf THEN <<"nl", "nl">> ELSE <<"nl">>
Some(n, c) == [k \in 1..n |-> c]

\* A header: the length of its name, the spaces behind the colon, its value.
Field(name, spaces, value) == [name |-> name, spaces |-> spaces, value |-> value]
Line(f, crlf) == Some(f.name, "other") \o <<":">> \o Some(f.spaces, "space") \o f.value \o LineEnd(crlf)
Lines(fs, crlf) == FlattenSeq([k \in 1..Len(fs) |-> Line(fs[k], crlf)])

\* lead spaces, a method of two bytes, a path, a query if query > 0, a version.
Start(lead, path, query, crlf) ==
  Some(lead, "space") \o Some(2, "other") \o <<"space">> \o Some(path, "other")
    \o (IF query > 0 THEN <<"?">> \o Some(query - 1, "other") ELSE <<>>)
    \o <<"space", "other">> \o LineEnd(crlf)

Make(lead, path, query, fs, after, crlf) ==
  LET top == Start(lead, path, query, crlf)
      Before(k) == Len(top) + Len(Lines(SubSeq(fs, 1, k - 1), crlf))
      whole == top \o Lines(fs, crlf) \o LineEnd(crlf)
  IN [bytes  |-> whole \o Some(after, "other"), head |-> Len(whole), crlf |-> crlf,
      method |-> Span(lead, 2), path |-> Span(lead + 3, path),
      fields |-> [k \in 1..Len(fs) |->
                    [key   |-> Span(Before(k), fs[k].name),
                     value |-> Span(Before(k) + fs[k].name + 1 + fs[k].spaces, Len(fs[k].value))]]]

\* A value of one byte, one with a colon, a space and a query mark in it.
Short == <<"other">>
Long  == <<"other", ":", "space", "?">>

Fields == { Field(n, s, v) : n \in {1, 2}, s \in {0, 1}, v \in {Short, Long} }
FieldLists == {<<f>> : f \in Fields} \cup {<<f, g>> : f \in Fields, g \in Fields}
               \cup {<<f, f, f>> : f \in Fields} \cup {<<f, f, f, f>> : f \in Fields}

MCMessage ==
  {Make(0, p, q, fs, a, TRUE) : p \in {1, 2}, q \in {0, 2}, fs \in FieldLists, a \in {0, 2}}
    \cup {Make(0, 1, 0, fs, 0, FALSE) : fs \in FieldLists}

\* Nothing but spaces before the method.
MCSpaced == {Make(lead, p, 0, <<f>>, 0, TRUE) : lead \in {1, 2}, p \in {1, 2}, f \in Fields}
=============================================================================
