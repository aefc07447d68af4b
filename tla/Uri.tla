-------------------------------- MODULE Uri --------------------------------
(***************************************************************************)
(* Form fields: uri_encode(), uri_decode() and parse_uri_encoded() (uri.c), *)
(* with find() (str.c).  Pure functions on sequences of bytes; offsets      *)
(* count from 0 as in the code.                                             *)
(*                                                                          *)
(* Bytes are below 128: uri_encode() takes the index of hex_chars[] from a  *)
(* char, and those above are negative.                                      *)
(***************************************************************************)
EXTENDS Integers, SequencesExt

\* The characters with a meaning of their own.
Blank     == 32
Percent   == 37
Ampersand == 38
Plus      == 43
Equals    == 61

Digits == 48..57
Upper  == 65..90
Lower  == 97..122
White  == {9, 10, 11, 12, 13, Blank}
MarkChars == {45, 95, 46, 33, 126, 42, 39, 40, 41}      \* -_.!~*'()

Byte(s, i)    == IF i < Len(s) THEN s[i + 1] ELSE 0
Bytes(s, i, n) == SubSeq(s, i + 1, i + n)

\* find(): the first of those characters, or the end.
FindOf(s, pos, chars) ==
  LET hits == {i \in pos..(Len(s) - 1) : s[i + 1] \in chars}
  IN IF hits = {} THEN IF pos > Len(s) THEN pos ELSE Len(s) ELSE Min(hits)

IsClean(c) == c \in Upper \cup Lower \cup Digits \cup MarkChars

HexChar(n) == IF n < 10 THEN 48 + n ELSE 55 + n

\* Mutant: the digits in the wrong order.
UriEncodeSwapped(s) ==
  FlattenSeq([i \in 1..Len(s) |->
                IF IsClean(s[i]) THEN <<s[i]>>
                ELSE <<Percent, HexChar(s[i] % 16), HexChar(s[i] \div 16)>>])

UriEncode(s) ==
  FlattenSeq([i \in 1..Len(s) |->
                IF IsClean(s[i]) THEN <<s[i]>>
                ELSE <<Percent, HexChar(s[i] \div 16), HexChar(s[i] % 16)>>])

\* What is no digit counts as 0.
HexValue(c) ==
  CASE c \in Digits -> c - 48
    [] c \in 65..70 -> c - 55
    [] c \in 97..102 -> c - 87
    [] OTHER -> 0

FromHex(a, b) == HexValue(a) * 16 + HexValue(b)

UriDecode(s) ==
  LET decoded[i \in 0..(Len(s) + 2)] ==
        CASE i >= Len(s)         -> <<>>
          [] Byte(s, i) = Plus    -> <<Blank>> \o decoded[i + 1]
          [] Byte(s, i) = Percent -> <<FromHex(Byte(s, i + 1), Byte(s, i + 2))>> \o decoded[i + 3]
          [] OTHER                -> <<Byte(s, i)>> \o decoded[i + 1]
  IN decoded[0]

\* parse_uri_encoded(): key up to the "=", value up to the "&"; what has no "=" is left
\* out.  The other delimiters in the call of find() are behind the length it is given.
ParsePairs(s, pos) ==
  LET pairs[i \in 0..(Len(s) + 1)] ==
        LET eq  == FindOf(s, i, {Equals})
            end == FindOf(s, eq + 1, {Ampersand})
        IN IF i >= Len(s) \/ eq >= Len(s) THEN <<>>
           ELSE <<[key |-> Bytes(s, i, eq - i), value |-> Bytes(s, eq + 1, end - eq - 1)]>>
                  \o pairs[end + 1]
  IN pairs[FindOf(s, pos, 0..127 \ White)]
=============================================================================
