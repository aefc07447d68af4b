------------------------------ MODULE MCClient ------------------------------
(* The requests TLC sends to Client.  Every byte is a step of the parser: a  *)
(* request line, its end, a header name, its value, the blank line, the body.*)
EXTENDS Client, Sequences

\* A request from the parses of its prefixes (the empty one first).
Make(parses, length, chunked) ==
  LET size == Len(parses) - 1
      head == {n \in 0..size : parses[n + 1] = "head"}
  IN [size |-> size, parse |-> [n \in 0..size |-> parses[n + 1]],
      head |-> IF head = {} THEN size + 1 ELSE CHOOSE n \in head : \A m \in head : n <= m,
      length |-> length, chunked |-> chunked]

OneHeader == <<"line", "line", "bare", "name", "value", "head">>
TwoHeaders == <<"line", "bare", "name", "value", "name", "value", "head">>
NoHeader == <<"line", "line", "bare", "bare">>
Body2 == <<"head", "head">>

\* A request without a body, two with one that arrives whole or one byte short,
\* one followed by more than it announces, one that never has a head, a chunked one.
MCRequest == { Make(OneHeader, 0, FALSE),
               Make(TwoHeaders \o Body2, 2, FALSE),
               Make(OneHeader \o Body2, 3, FALSE),
               Make(OneHeader \o Body2, 1, FALSE),
               Make(NoHeader, 0, FALSE),
               Make(OneHeader \o Body2, 0, TRUE) }
=============================================================================
