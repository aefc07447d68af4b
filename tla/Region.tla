------------------------------- MODULE Region -------------------------------
(***************************************************************************)
(* The region a process allocates from (memory.c) and the strings in it    *)
(* (str.c, read_socket()).  Nothing is ever freed; a string is a header,   *)
(* and its text is behind the header, in another string, or outside of the *)
(* region (Lua's, a mapped file's).  Addresses are offsets into the region.*)
(*                                                                         *)
(* What is in the bytes is left out: written is what a call has written,   *)
(* and damaged are the strings in use that it has written on.              *)
(***************************************************************************)
EXTENDS Integers, FiniteSets

CONSTANTS Header,    \* sizeof(struct str_struct)
          Limit,     \* the size of the region, a bound of the model
          Length     \* lengths of texts

ASSUME RegionAssumption == Header \in Nat \ {0} /\ Limit \in Nat /\ Length \subseteq Nat

VARIABLES offset,    \* memory->offset
          live,      \* the strings the program still uses
          damaged,   \* those of them something was written on
          long       \* append() has put a text longer than a header in place

regionVars == <<offset, live, damaged, long>>

Outside == -1

\* nul: new_str() has set a byte 0 behind the text, which C functions rely on.
Str(hdr, at, len, nul) == [hdr |-> hdr, at |-> at, len |-> len, nul |-> nul]

Span(a, n)   == a..(a + n - 1)
HeadCells(s) == Span(s.hdr, Header)
TextCells(s) == IF s.at = Outside THEN {} ELSE Span(s.at, IF s.nul THEN s.len + 1 ELSE s.len)
Cells(s)     == HeadCells(s) \cup TextCells(s)

RegionInit == offset = 0 /\ live = {} /\ damaged = {} /\ long = FALSE

\* What a call leaves: the strings in use but for those it ends, and a new one.
Writes(written, ended, new) ==
  /\ live' = (live \ ended) \cup {new}
  /\ damaged' = (damaged \ ended) \cup {t \in live \ ended : Cells(t) \cap written # {}}

\* reserve(), advance(): a string and n bytes behind it.
Reserve(n, new) ==
  /\ offset + Header + n <= Limit
  /\ offset' = offset + Header + n
  /\ Writes(Span(offset, Header + n), {}, new)

\* blank(), and what fills it: copy(), clone(), the texts of uri.c and query().
Blank(n) == Reserve(n, Str(offset, offset + Header, n, FALSE)) /\ UNCHANGED long

\* Mutant: advance(ls) instead of advance(ls + 1).
NewStrShort(n) ==
  /\ offset + Header + n <= Limit
  /\ offset' = offset + Header + n
  /\ Writes(Span(offset, Header + n + 1), {}, Str(offset, offset + Header, n, TRUE))
  /\ UNCHANGED long

\* new_str(), _(): the text is built behind the end of the region and then reserved.
NewStr(n) == Reserve(n + 1, Str(offset, offset + Header, n, TRUE)) /\ UNCHANGED long

\* ref() of a text that is not in the region.
Ref(n) == Reserve(0, Str(offset, Outside, n, FALSE)) /\ UNCHANGED long

\* from(): part of the text of another string, which need not be in use any longer.
From(s, start, n) ==
  /\ start + n <= s.len
  /\ Reserve(0, Str(offset, IF s.at = Outside THEN Outside ELSE s.at + start, n, FALSE))
  /\ UNCHANGED long

\* read_socket(): the buffer so far is cloned to the end of the region and grows there.
ReadSocket(s, n) == Reserve(s.len + n, Str(offset, offset + Header, s.len + n, FALSE)) /\ UNCHANGED long

InPlace(s, v) == s.at # Outside /\ s.at + s.len = v.hdr

\* append(), if the header of v is where the text of s ends: the text of v over its
\* header and what is behind that; memory->offset stays.  The caller is done with v.
AppendInPlace(s, v) ==
  /\ InPlace(s, v)
  /\ Writes(Span(v.hdr, v.len), {s, v}, [s EXCEPT !.len = s.len + v.len])
  /\ long' = (long \/ v.len > Header)
  /\ UNCHANGED offset

AppendCopy(s, v) ==
  /\ ~InPlace(s, v)
  /\ Reserve(s.len + v.len, Str(offset, offset + Header, s.len + v.len, FALSE))
  /\ UNCHANGED long

\* The program is done with a string.
Forget(s) ==
  /\ live' = live \ {s} /\ damaged' = damaged \ {s}
  /\ UNCHANGED <<offset, long>>

RegionNext ==
  \/ \E n \in Length : Blank(n) \/ NewStr(n) \/ Ref(n)
  \/ \E s \in live :
       \/ Forget(s)
       \/ \E n \in Length : ReadSocket(s, n)
       \/ \E start, n \in Length : From(s, start, n)
       \/ \E v \in live \ {s} : AppendInPlace(s, v) \/ AppendCopy(s, v)

RegionSpec == RegionInit /\ [][RegionNext]_regionVars

-----------------------------------------------------------------------------
(* Properties. *)

Strings == [hdr : Nat, at : Nat \cup {Outside}, len : Nat, nul : BOOLEAN]

RegionTypeOK ==
  /\ offset \in 0..Limit
  /\ live \subseteq Strings /\ damaged \subseteq live
  /\ long \in BOOLEAN

\* No call writes on the header or the text of a string that is in use, unless append()
\* has put a text in place that is longer than the header it is put over: it goes on
\* beyond what is reserved (memory.c:47-53, str.c:97-111).
LiveIntact == ~long => damaged = {}

\* What it rests on: what is in use is reserved, and no text leads into a header.
Reserved == ~long => \A s \in live : Cells(s) \subseteq 0..(offset - 1)
Apart    == ~long => \A s, t \in live :
              /\ TextCells(s) \cap HeadCells(t) = {}
              /\ s # t => HeadCells(s) \cap HeadCells(t) = {}

RegionInv == RegionTypeOK /\ LiveIntact /\ Reserved /\ Apart
=============================================================================
