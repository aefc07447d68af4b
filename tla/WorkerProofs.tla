---------------------------- MODULE WorkerProofs ----------------------------
(***************************************************************************)
(* Proofs about what a worker writes.                                      *)
(*                                                                         *)
(* To its memory (Region): no call writes on a string in use, unless a     *)
(* text longer than a header was appended in place.                        *)
(*                                                                         *)
(* To its socket (Respond): the wire is the encoding of the answer up to   *)
(* some point, and the bytes of a file arrive whole.  Every symbol has its *)
(* place in the answer.  The worker has one too, that of the symbol it     *)
(* writes next, and with an open socket the wire is what lies before it: a *)
(* write puts on it what lies between two places, and a step without a     *)
(* write goes on to a place with nothing in between.                       *)
(***************************************************************************)
EXTENDS Region, Respond, SequenceTheorems, TLAPS

\* What the invariant says while no long text was appended in place.
LEMMA Short ==
  ASSUME RegionInv, ~long
  PROVE  /\ damaged = {}
         /\ \A s \in live : Cells(s) \subseteq 0..(offset - 1)
         /\ \A s, t \in live : TextCells(s) \cap HeadCells(t) = {}
         /\ \A s, t \in live : s # t => Cells(s) \cap HeadCells(t) = {}
BY DEF RegionInv, LiveIntact, Reserved, Apart, Cells

\* A new string of n bytes at the end of the region, whose text is in no header,
\* keeps the invariant.
LEMMA ReserveKeeps ==
  ASSUME RegionInv, NEW n \in Nat, NEW new \in Strings, Reserve(n, new), UNCHANGED long,
         new.hdr = offset,
         ~long => TextCells(new) \subseteq 0..(offset + Header + n - 1),
         ~long => \A t \in live \cup {new} : TextCells(new) \cap HeadCells(t) = {}
  PROVE  RegionInv'
<1> USE RegionAssumption
<1>1. /\ offset \in Nat /\ offset' = offset + Header + n /\ offset' \in 0..Limit
      /\ live' = live \cup {new} /\ live \subseteq Strings
      /\ damaged' = damaged \cup {t \in live : Cells(t) \cap Span(offset, Header + n) # {}}
      /\ long' = long
  BY DEF RegionInv, RegionTypeOK, Reserve, Writes
<1>2. RegionTypeOK'
  BY <1>1 DEF RegionInv, RegionTypeOK
<1>3. HeadCells(new) = Span(offset, Header)
  BY DEF HeadCells
<1>4. ASSUME ~long, NEW t \in live
      PROVE  Cells(t) \cap Span(offset, Header + n) = {} /\ Cells(t) \cap HeadCells(new) = {}
  BY <1>1, <1>3, <1>4, Short DEF Span
<1>5. LiveIntact'
  BY <1>1, <1>4, Short DEF LiveIntact
<1>6. Reserved'
  <2> SUFFICES ASSUME ~long, NEW s \in live \cup {new}
               PROVE  Cells(s) \subseteq 0..(offset + Header + n - 1)
    BY <1>1 DEF Reserved
  <2>1. CASE s \in live
    BY <1>1, <2>1, Short
  <2>2. CASE s = new
    <3>1. HeadCells(new) \subseteq 0..(offset + Header + n - 1)
      BY <1>1, <1>3 DEF Span
    <3> QED BY <2>2, <3>1 DEF Cells
  <2> QED BY <2>1, <2>2
<1>7. Apart'
  <2> SUFFICES ASSUME ~long, NEW s \in live \cup {new}, NEW t \in live \cup {new}
               PROVE  /\ TextCells(s) \cap HeadCells(t) = {}
                      /\ s # t => HeadCells(s) \cap HeadCells(t) = {}
    BY <1>1 DEF Apart
  <2>1. CASE s \in live /\ t \in live
    BY <2>1, Short DEF Cells
  <2>2. CASE s \in live /\ t = new
    BY <1>4, <2>2 DEF Cells
  <2>3. CASE s = new
    <3>1. t \in live => HeadCells(new) \cap HeadCells(t) = {}
      BY <1>4 DEF Cells
    <3> QED BY <2>3, <3>1
  <2> QED BY <2>1, <2>2, <2>3
<1> QED BY <1>2, <1>5, <1>6, <1>7 DEF RegionInv

\* The same for a text that is behind its own header.
LEMMA BehindKeeps ==
  ASSUME RegionInv, NEW n \in Nat, NEW new \in Strings, Reserve(n, new), UNCHANGED long,
         new.hdr = offset, TextCells(new) = Span(offset + Header, n)
  PROVE  RegionInv'
<1> USE RegionAssumption
<1>1. offset \in Nat
  BY DEF RegionInv, RegionTypeOK
<1>2. TextCells(new) \subseteq 0..(offset + Header + n - 1)
  BY <1>1 DEF Span
<1>3. ASSUME ~long, NEW t \in live PROVE TextCells(new) \cap HeadCells(t) = {}
  <2>1. HeadCells(t) \subseteq 0..(offset - 1)
    BY <1>3, Short DEF Cells
  <2> QED BY <1>1, <2>1 DEF Span
<1>4. TextCells(new) \cap HeadCells(new) = {}
  BY <1>1 DEF Span, HeadCells
<1> QED BY <1>2, <1>3, <1>4, ReserveKeeps

\* append() in place: the text it adds is over the header of a string that ends with it.
LEMMA AppendInPlaceKeeps ==
  ASSUME RegionInv, NEW s \in live, NEW v \in live \ {s}, AppendInPlace(s, v)
  PROVE  RegionInv'
<1> DEFINE new == [s EXCEPT !.len = s.len + v.len]
<1> USE RegionAssumption
<1>1. /\ offset \in Nat /\ offset' = offset /\ offset \in 0..Limit
      /\ live \subseteq Strings /\ live' = (live \ {s, v}) \cup {new}
      /\ damaged \subseteq live
      /\ damaged' = (damaged \ {s, v})
                      \cup {t \in live \ {s, v} : Cells(t) \cap Span(v.hdr, v.len) # {}}
      /\ long' = (long \/ v.len > Header) /\ long \in BOOLEAN
      /\ s.at # Outside /\ s.at + s.len = v.hdr
  BY DEF RegionInv, RegionTypeOK, AppendInPlace, InPlace, Writes
<1>2. s \in Strings /\ v \in Strings
  BY <1>1
<1>3. s.len \in Nat /\ v.len \in Nat /\ s.at \in Nat /\ s.hdr \in Nat /\ v.hdr \in Nat
  BY <1>1, <1>2 DEF Strings
<1>4. /\ new \in Strings /\ new.hdr = s.hdr /\ new.at = s.at /\ new.nul = s.nul
      /\ new.len = s.len + v.len
  BY <1>2, <1>3 DEF Strings
<1>5. RegionTypeOK'
  BY <1>1, <1>4 DEF RegionTypeOK
<1>6. HeadCells(new) = HeadCells(s)
  BY <1>4 DEF HeadCells
<1>7. ASSUME ~long'
      PROVE  ~long /\ Span(v.hdr, v.len) \subseteq HeadCells(v)
  <2>1. ~long /\ v.len <= Header
    <3>1. ~(long \/ v.len > Header)
      BY <1>1, <1>7
    <3> QED BY <1>3, <3>1
  <2>2. Span(v.hdr, v.len) \subseteq Span(v.hdr, Header)
    BY <1>3, <2>1 DEF Span
  <2> QED BY <2>1, <2>2 DEF HeadCells
<1>8. ASSUME ~long'
      PROVE  TextCells(new) \subseteq TextCells(s) \cup HeadCells(v)
  <2>1. ~long /\ Span(v.hdr, v.len) \subseteq HeadCells(v)
    BY <1>7, <1>8
  <2>2. ~s.nul
    <3>1. v.hdr \in HeadCells(v)
      BY <1>3 DEF HeadCells, Span
    <3>2. s.nul => v.hdr \in TextCells(s)
      BY <1>1, <1>3 DEF TextCells, Span
    <3> QED BY <2>1, <3>1, <3>2, Short
  <2>3. TextCells(new) = Span(s.at, s.len + v.len) /\ TextCells(s) = Span(s.at, s.len)
    BY <1>1, <1>2, <1>4, <2>2 DEF TextCells, Strings
  <2>4. Span(s.at, s.len + v.len) = Span(s.at, s.len) \cup Span(v.hdr, v.len)
    BY <1>1, <1>3 DEF Span
  <2> QED BY <2>1, <2>3, <2>4
<1>9. LiveIntact'
  <2> SUFFICES ASSUME ~long' PROVE damaged' = {}
    BY DEF LiveIntact
  <2>1. ~long /\ Span(v.hdr, v.len) \subseteq HeadCells(v)
    BY <1>7
  <2>2. \A t \in live \ {s, v} : Cells(t) \cap HeadCells(v) = {}
    BY <2>1, Short
  <2> QED BY <1>1, <2>1, <2>2, Short
<1>10. Reserved'
  <2> SUFFICES ASSUME ~long' PROVE \A t \in live' : Cells(t) \subseteq 0..(offset - 1)
    BY <1>1 DEF Reserved
  <2>1. Cells(new) \subseteq Cells(s) \cup Cells(v)
    BY <1>6, <1>8 DEF Cells
  <2> QED BY <1>1, <1>7, <2>1, Short
<1>11. Apart'
  <2> SUFFICES ASSUME ~long', NEW t \in live', NEW u \in live'
               PROVE  /\ TextCells(t) \cap HeadCells(u) = {}
                      /\ t # u => HeadCells(t) \cap HeadCells(u) = {}
    BY DEF Apart
  <2>1. CASE t \in live \ {s, v} /\ u \in live \ {s, v}
    BY <1>7, <2>1, Short DEF Cells
  <2>2. CASE t \in live \ {s, v} /\ u = new
    BY <1>6, <1>7, <2>2, Short DEF Cells
  <2>3. CASE t = new /\ u \in (live \ {s, v}) \cup {new}
    <3>1. HeadCells(v) \cap HeadCells(u) = {}
      BY <1>6, <1>7, <2>3, Short DEF Cells
    <3>2. TextCells(s) \cap HeadCells(u) = {}
      BY <1>6, <1>7, <2>3, Short
    <3>3. t # u => HeadCells(s) \cap HeadCells(u) = {}
      BY <1>7, <2>3, Short DEF Cells
    <3> QED BY <1>6, <1>8, <2>3, <3>1, <3>2, <3>3
  <2> QED BY <1>1, <2>1, <2>2, <2>3
<1> QED BY <1>5, <1>9, <1>10, <1>11 DEF RegionInv
-----------------------------------------------------------------------------
LEMMA RegionInitHolds ==
  RegionInit => RegionInv
<1> SUFFICES ASSUME RegionInit PROVE RegionInv
  OBVIOUS
<1>1. RegionTypeOK
  <2>1. offset \in 0..Limit
    BY RegionAssumption DEF RegionInit
  <2>2. long \in BOOLEAN
    BY Zenon DEF RegionInit
  <2> QED BY <2>1, <2>2 DEF RegionInit, RegionTypeOK
<1>2. LiveIntact /\ Reserved /\ Apart
  BY DEF RegionInit, LiveIntact, Reserved, Apart
<1> QED BY <1>1, <1>2 DEF RegionInv

LEMMA RegionStepKeeps ==
  RegionInv /\ [RegionNext]_regionVars => RegionInv'
<1> USE RegionAssumption
<1> SUFFICES ASSUME RegionInv, [RegionNext]_regionVars PROVE RegionInv'
  OBVIOUS
<1>1. offset \in Nat /\ live \subseteq Strings
  BY DEF RegionInv, RegionTypeOK
<1>2. ASSUME NEW n \in Length, Blank(n) PROVE RegionInv'
  <2> DEFINE new == Str(offset, offset + Header, n, FALSE)
  <2>1. new \in Strings /\ new.hdr = offset
    BY <1>1 DEF Str, Strings
  <2>2. TextCells(new) = Span(offset + Header, n)
    BY <1>1 DEF Str, TextCells, Outside
  <2>3. Reserve(n, new) /\ UNCHANGED long
    BY <1>2 DEF Blank
  <2> HIDE DEF new
  <2> QED BY <2>1, <2>2, <2>3, BehindKeeps
<1>3. ASSUME NEW n \in Length, NewStr(n) PROVE RegionInv'
  <2> DEFINE new == Str(offset, offset + Header, n, TRUE)
  <2>1. new \in Strings /\ new.hdr = offset
    BY <1>1 DEF Str, Strings
  <2>2. TextCells(new) = Span(offset + Header, n + 1)
    BY <1>1 DEF Str, TextCells, Outside
  <2>3. Reserve(n + 1, new) /\ UNCHANGED long
    BY <1>3 DEF NewStr
  <2>4. n + 1 \in Nat
    OBVIOUS
  <2> HIDE DEF new
  <2> QED BY <2>1, <2>2, <2>3, <2>4, BehindKeeps
<1>4. ASSUME NEW n \in Length, Ref(n) PROVE RegionInv'
  <2> DEFINE new == Str(offset, Outside, n, FALSE)
  <2>1. new \in Strings /\ new.hdr = offset
    BY <1>1 DEF Str, Strings
  <2>2. TextCells(new) = {}
    BY DEF Str, TextCells
  <2>3. Reserve(0, new) /\ UNCHANGED long
    BY <1>4 DEF Ref
  <2> HIDE DEF new
  <2> QED BY <2>1, <2>2, <2>3, ReserveKeeps
<1>5. ASSUME NEW s \in live, NEW n \in Length, ReadSocket(s, n) PROVE RegionInv'
  <2> DEFINE new == Str(offset, offset + Header, s.len + n, FALSE)
  <2>1. s.len + n \in Nat
    BY <1>1 DEF Strings
  <2>2. new \in Strings /\ new.hdr = offset
    BY <1>1, <2>1 DEF Str, Strings
  <2>3. TextCells(new) = Span(offset + Header, s.len + n)
    BY <1>1 DEF Str, TextCells, Outside
  <2>4. Reserve(s.len + n, new) /\ UNCHANGED long
    BY <1>5 DEF ReadSocket
  <2> HIDE DEF new
  <2> QED BY <2>1, <2>2, <2>3, <2>4, BehindKeeps
<1>6. ASSUME NEW s \in live, NEW v \in live \ {s}, AppendCopy(s, v) PROVE RegionInv'
  <2> DEFINE new == Str(offset, offset + Header, s.len + v.len, FALSE)
  <2>1. s.len + v.len \in Nat
    BY <1>1 DEF Strings
  <2>2. new \in Strings /\ new.hdr = offset
    BY <1>1, <2>1 DEF Str, Strings
  <2>3. TextCells(new) = Span(offset + Header, s.len + v.len)
    BY <1>1 DEF Str, TextCells, Outside
  <2>4. Reserve(s.len + v.len, new) /\ UNCHANGED long
    BY <1>6 DEF AppendCopy
  <2> HIDE DEF new
  <2> QED BY <2>1, <2>2, <2>3, <2>4, BehindKeeps
<1>7. ASSUME NEW s \in live, NEW start \in Length, NEW n \in Length, From(s, start, n)
      PROVE  RegionInv'
  <2> DEFINE at == IF s.at = Outside THEN Outside ELSE s.at + start
  <2> DEFINE new == Str(offset, at, n, FALSE)
  <2>1. s.len \in Nat /\ s.at \in Nat \cup {Outside} /\ start + n <= s.len
    BY <1>1, <1>7 DEF Strings, From
  <2>2. new \in Strings /\ new.hdr = offset
    BY <1>1, <2>1 DEF Str, Strings
  <2>3. Reserve(0, new) /\ UNCHANGED long
    BY <1>7 DEF From
  <2>4. TextCells(new) \subseteq TextCells(s)
    BY <2>1 DEF Str, TextCells, Span, Outside
  <2> HIDE DEF new
  <2>5. ASSUME ~long
        PROVE  /\ TextCells(new) \subseteq 0..(offset - 1)
               /\ \A t \in live : TextCells(new) \cap HeadCells(t) = {}
    BY <2>4, <2>5, Short DEF Cells
  <2>6. 0..(offset - 1) \subseteq 0..(offset + Header + 0 - 1)
    BY <1>1
  <2>7. ASSUME ~long PROVE TextCells(new) \cap HeadCells(new) = {}
    BY <1>1, <2>2, <2>5, <2>7 DEF HeadCells, Span
  <2> QED BY <2>2, <2>3, <2>5, <2>6, <2>7, ReserveKeeps
<1>8. ASSUME NEW s \in live, Forget(s) PROVE RegionInv'
  BY <1>8 DEF Forget, RegionInv, RegionTypeOK, LiveIntact, Reserved, Apart
<1>9. CASE UNCHANGED regionVars
  BY <1>9 DEF regionVars, RegionInv, RegionTypeOK, LiveIntact, Reserved, Apart
<1> QED BY <1>2, <1>3, <1>4, <1>5, <1>6, <1>7, <1>8, <1>9, AppendInPlaceKeeps DEF RegionNext

LEMMA RegionInvariant ==
  RegionSpec => []RegionInv
BY RegionInitHolds, RegionStepKeeps, PTL DEF RegionSpec

\* Nothing is reserved beyond the region, and every string has its shape: for every size
\* of the header, of the region and of the texts (memory.c, str.c).
THEOREM RegionTypeCorrect ==
  RegionSpec => []RegionTypeOK
<1>1. RegionInv => RegionTypeOK
  BY DEF RegionInv
<1> QED BY <1>1, RegionInvariant, PTL

\* No call writes on a string in use unless append() was given a text longer than a header
\* in place (str.c:97-111).
THEOREM StringsStayIntact ==
  RegionSpec => []LiveIntact
<1>1. RegionInv => LiveIntact
  BY DEF RegionInv
<1> QED BY <1>1, RegionInvariant, PTL

-----------------------------------------------------------------------------
(* The response: the invariant. *)

\* write_chunk() is at work.
Sending == pc \in {"size", "data", "lineEnd"}
Multiple(o) == \E q \in Nat : o = q * MaxWrite

\* The chunk being written is one of those the piece is cut into.
ChunkInv ==
  /\ piece \in 1..LastChunk
  /\ pc = "headers" => off \in 1..(HeadWrites + 1)
  /\ pc \in {"status", "headers"} => piece = 1 /\ answer.head
  /\ Sending => /\ piece < LastChunk /\ chunk = ChunkLength(Piece, off)
                /\ Piece.kind = "text" => off = 0
                /\ Piece.kind # "text" => off < Piece.length
  /\ pc = "body" => /\ piece = LastChunk => off = 0
                    /\ piece < LastChunk /\ Piece.kind = "file" => off <= Piece.length
  /\ pc \in {"endSize", "endLine", "done"} => piece = LastChunk
  /\ pc = "lineEnd" => /\ sent \in 0..chunk
                       /\ ~cut /\ sent # chunk => sent = 0 /\ closed
  /\ ~cut /\ (Sending \/ pc = "body") /\ piece < LastChunk /\ Piece.kind # "text" =>
       Multiple(off) \/ off >= Piece.length

\* The place of the next symbol.
Place(k, o, i) == [piece |-> k, off |-> o, i |-> i]
Here ==
  CASE pc = "status"           -> Place(0, 0, 0)
    [] pc = "headers"          -> Place(0, 0, off)
    [] pc \in {"body", "size"} -> Place(piece, off, 0)
    [] pc = "data"             -> Place(piece, off, 1)
    [] pc = "lineEnd"          -> Place(piece, off, chunk + 1)
    [] pc = "endSize"          -> Place(LastChunk, 0, 0)
    [] pc = "endLine"          -> Place(LastChunk, 0, 1)
    [] pc = "done"             -> Place(LastChunk, 0, 2)

On(w, s)  == \E j \in 1..Len(w) : w[j] = s
Sorted(w) == \A j, k \in 1..Len(w) : j < k => Earlier(w[j], w[k])

\* All of E that comes before h is in w, and nothing else.
UpTo(w, E, h) ==
  /\ \A j \in 1..Len(w) : w[j] \in E /\ Earlier(w[j], h)
  /\ \A s \in E : Earlier(s, h) => On(w, s)
NoGap(w, E) == \A j \in 1..Len(w) : w[j] \in E /\ \A s \in E : Earlier(s, w[j]) => On(w, s)

WireInv ==
  ~cut => /\ Sorted(wire) /\ NoGap(wire, Encoding(answer))
          /\ ~closed => UpTo(wire, Encoding(answer), Here)

\* The same for the bytes of files, whatever was cut: the next byte, and what was sent.
Mark(k, b) == [piece |-> k, at |-> b]
Spot ==
  CASE pc \in {"status", "headers"}            -> Mark(1, 0)
    [] pc \in {"body", "size", "data"}         -> Mark(piece, off)
    [] pc = "lineEnd"                          -> Mark(piece, off + sent)
    [] pc \in {"endSize", "endLine", "done"}   -> Mark(LastChunk, 0)

BodyOf(w)      == {j \in 1..Len(w) : w[j].kind = "data"}
Shows(w, k, b) == \E j \in BodyOf(w) : w[j].piece = k /\ At(w[j]) = b
Finished(w)    == \E j \in 1..Len(w) : w[j].kind = "size" /\ w[j].n = 0

IsByte(a, k, b) == k \in 1..Len(a.pieces) /\ b \in 0..(a.pieces[k].length - 1)
Passed(k, b, p) == k < p.piece \/ (k = p.piece /\ b < p.at)

\* Bytes of the files, in their order and without a gap.
Tidy(w, a) ==
  /\ \A j \in BodyOf(w) : IsByte(a, w[j].piece, At(w[j]))
  /\ \A j, k \in BodyOf(w) : j < k => Before(w[j].piece, At(w[j]), w[k])
  /\ \A j \in BodyOf(w) : \A k, b : IsByte(a, k, b) /\ Before(k, b, w[j]) => Shows(w, k, b)
\* All of them up to p.
Reached(w, a, p) ==
  /\ \A j \in BodyOf(w) : Passed(w[j].piece, At(w[j]), p)
  /\ \A k, b : IsByte(a, k, b) /\ Passed(k, b, p) => Shows(w, k, b)
Complete(w, a) == \A k, b : IsByte(a, k, b) => Shows(w, k, b)

FileInv ==
  IsFile(answer) => /\ Tidy(wire, answer)
                    /\ ~closed => Reached(wire, answer, Spot)
                    /\ Finished(wire) => Complete(wire, answer)

RespondInv == TypeOK /\ ChunkInv /\ WireInv /\ FileInv

-----------------------------------------------------------------------------
(* The response: the order of the encoding. *)

LEMMA AnswerTypes ==
  ASSUME TypeOK
  PROVE  /\ answer.head \in BOOLEAN
         /\ Len(answer.pieces) \in Nat
         /\ \A k \in 1..Len(answer.pieces) : /\ answer.pieces[k].kind \in {"file", "text", "print"}
                                             /\ answer.pieces[k].length \in Nat
         /\ ~answer.head => Len(answer.pieces) = 0
         /\ answer.pieces \in Seq([kind : {"file", "text", "print"}, length : Nat])
<1>1. /\ answer.head \in BOOLEAN
      /\ answer.pieces \in Seq([kind : {"file", "text", "print"}, length : Nat])
      /\ ~answer.head => answer.pieces = <<>>
  BY AnswerAssumption DEF TypeOK
<1> DEFINE S == [kind : {"file", "text", "print"}, length : Nat]
<1>2. Len(answer.pieces) \in Nat
  BY <1>1
<1>3. \A k \in 1..Len(answer.pieces) : answer.pieces[k] \in S
  <2> HIDE DEF S
  <2> QED BY <1>1, ElementOfSeq DEF S
<1>4. ~answer.head => Len(answer.pieces) = 0
  BY <1>1
<1> QED BY <1>1, <1>2, <1>3, <1>4

\* A place or a symbol.
Placed(s) == s.piece \in Nat /\ s.off \in Nat /\ s.i \in Nat

LEMMA EarlierOrder ==
  ASSUME NEW r, NEW s, NEW t, Placed(r), Placed(s), Placed(t)
  PROVE  /\ Earlier(r, s) /\ Earlier(s, t) => Earlier(r, t)
         /\ ~Earlier(s, s)
         /\ Earlier(r, s) /\ ~Earlier(t, s) => Earlier(r, t)
BY DEF Placed, Earlier

LEMMA SymbolsPlaced ==
  ASSUME NEW s \in Symbols
  PROVE  Placed(s)
BY DEF Symbols, Placed

\* Writing the block of symbols that is next.
LEMMA Put ==
  ASSUME NEW E \in SUBSET Symbols, NEW w \in Seq(Symbols), NEW b \in Seq(Symbols), NEW h, NEW g,
         Placed(h), Placed(g), ~Earlier(g, h),
         Sorted(w), UpTo(w, E, h), Sorted(b),
         \A j \in 1..Len(b) : b[j] \in E /\ ~Earlier(b[j], h) /\ Earlier(b[j], g),
         \A s \in E : Earlier(s, g) => Earlier(s, h) \/ On(b, s)
  PROVE  Sorted(w \o b) /\ UpTo(w \o b, E, g)
<1> DEFINE c == w \o b
<1>1. /\ Len(c) = Len(w) + Len(b) /\ Len(w) \in Nat /\ Len(b) \in Nat
      /\ \A j \in 1..Len(c) : c[j] = IF j <= Len(w) THEN w[j] ELSE b[j - Len(w)]
  BY ConcatProperties
<1>2. ASSUME NEW j \in 1..Len(c)
      PROVE  /\ j <= Len(w) => j \in 1..Len(w) /\ c[j] = w[j]
             /\ j > Len(w) => j - Len(w) \in 1..Len(b) /\ c[j] = b[j - Len(w)]
  BY <1>1
<1>3. ASSUME NEW j \in 1..Len(w)
      PROVE  j \in 1..Len(c) /\ c[j] = w[j]
  BY <1>1
<1>4. ASSUME NEW j \in 1..Len(b)
      PROVE  Len(w) + j \in 1..Len(c) /\ c[Len(w) + j] = b[j]
  BY <1>1
<1> HIDE DEF c
<1>5. ASSUME NEW j \in 1..Len(w)
      PROVE  w[j] \in E /\ Placed(w[j]) /\ Earlier(w[j], h)
  BY SymbolsPlaced DEF UpTo
<1>6. ASSUME NEW j \in 1..Len(b)
      PROVE  b[j] \in E /\ Placed(b[j]) /\ ~Earlier(b[j], h) /\ Earlier(b[j], g)
  BY SymbolsPlaced
<1>7. Sorted(c)
  <2> SUFFICES ASSUME NEW j \in 1..Len(c), NEW k \in 1..Len(c), j < k
               PROVE  Earlier(c[j], c[k])
    BY DEF Sorted
  <2>1. CASE k <= Len(w)
    <3>1. /\ j \in 1..Len(w) /\ c[j] = w[j]
          /\ k \in 1..Len(w) /\ c[k] = w[k]
      BY <1>1, <1>2, <2>1
    <3> QED BY <3>1 DEF Sorted
  <2>2. CASE j > Len(w)
    <3> DEFINE p == j - Len(w)
               q == k - Len(w)
    <3>1. /\ p \in 1..Len(b) /\ c[j] = b[p]
          /\ q \in 1..Len(b) /\ c[k] = b[q]
          /\ p < q
      BY <1>1, <1>2, <2>2
    <3> HIDE DEF p, q
    <3> QED BY <3>1 DEF Sorted
  <2>3. CASE j <= Len(w) /\ k > Len(w)
    <3> DEFINE q == k - Len(w)
    <3>1. /\ j \in 1..Len(w) /\ c[j] = w[j]
          /\ q \in 1..Len(b) /\ c[k] = b[q]
      BY <1>2, <2>3
    <3> HIDE DEF q
    <3>2. Placed(w[j]) /\ Earlier(w[j], h) /\ Placed(b[q]) /\ ~Earlier(b[q], h)
      BY <3>1, <1>5, <1>6
    <3> QED BY <3>1, <3>2, EarlierOrder
  <2> QED BY <1>1, <2>1, <2>2, <2>3
<1>8. ASSUME NEW j \in 1..Len(c)
      PROVE  c[j] \in E /\ Earlier(c[j], g)
  <2>1. CASE j <= Len(w)
    <3>1. j \in 1..Len(w) /\ c[j] = w[j]
      BY <1>2, <2>1
    <3>2. w[j] \in E /\ Placed(w[j]) /\ Earlier(w[j], h)
      BY <3>1, <1>5
    <3> QED BY <3>1, <3>2, EarlierOrder
  <2>2. CASE j > Len(w)
    <3> DEFINE p == j - Len(w)
    <3>1. p \in 1..Len(b) /\ c[j] = b[p]
      BY <1>2, <2>2
    <3> HIDE DEF p
    <3> QED BY <3>1, <1>6
  <2> QED BY <1>1, <2>1, <2>2
<1>9. ASSUME NEW s \in E, Earlier(s, g)
      PROVE  On(c, s)
  <2>1. CASE Earlier(s, h)
    <3>1. PICK j \in 1..Len(w) : w[j] = s
      BY <2>1 DEF UpTo, On
    <3> QED BY <3>1, <1>3 DEF On
  <2>2. CASE On(b, s)
    <3>1. PICK j \in 1..Len(b) : b[j] = s
      BY <2>2 DEF On
    <3> QED BY <3>1, <1>4 DEF On
  <2> QED BY <1>9, <2>1, <2>2
<1> QED BY <1>7, <1>8, <1>9 DEF UpTo, c

LEMMA UpToNoGap ==
  ASSUME NEW E \in SUBSET Symbols, NEW w \in Seq(Symbols), NEW h, Placed(h), UpTo(w, E, h)
  PROVE  NoGap(w, E)
<1> SUFFICES ASSUME NEW j \in 1..Len(w), NEW s \in E, Earlier(s, w[j])
             PROVE  On(w, s)
  BY DEF NoGap, UpTo
<1>1. w[j] \in E /\ Earlier(w[j], h)
  BY DEF UpTo
<1>2. Placed(s) /\ Placed(w[j])
  BY <1>1, SymbolsPlaced
<1> QED BY <1>1, <1>2, EarlierOrder DEF UpTo

\* A chunk of a file or a print starts at a multiple of MaxWrite: the next one does too, and
\* none is between the two.
LEMMA Multiples ==
  ASSUME NEW o \in Nat, Multiple(o)
  PROVE  /\ Multiple(o + MaxWrite)
         /\ \A x \in Nat : Multiple(x) /\ o < x => o + MaxWrite <= x
<1> USE SizesAssumption
<1>1. PICK q \in Nat : o = q * MaxWrite
  BY DEF Multiple
<1>2. o + MaxWrite = (q + 1) * MaxWrite
  BY <1>1
<1>3. ASSUME NEW x \in Nat, Multiple(x), o < x
      PROVE  o + MaxWrite <= x
  <2>1. PICK r \in Nat : x = r * MaxWrite
    BY <1>3 DEF Multiple
  <2>2. r > q
    <3>1. ASSUME r <= q
          PROVE  FALSE
      <4>1. q - r \in Nat
        BY <3>1
      <4>2. (q - r) * MaxWrite \in Nat
        BY <4>1
      <4>3. q * MaxWrite = r * MaxWrite + (q - r) * MaxWrite
        OBVIOUS
      <4>4. o >= x
        BY <1>1, <2>1, <4>2, <4>3
      <4> QED BY <1>3, <4>4
    <3> QED BY <3>1
  <2>3. r - q - 1 \in Nat
    BY <2>2
  <2>4. (r - q - 1) * MaxWrite \in Nat
    BY <2>3
  <2>5. r * MaxWrite = (q + 1) * MaxWrite + (r - q - 1) * MaxWrite
    OBVIOUS
  <2> QED BY <1>2, <2>1, <2>4, <2>5
<1>4. Multiple(o + MaxWrite)
  BY <1>2 DEF Multiple
<1> QED BY <1>3, <1>4

\* Where a chunk may start, without the factors.
LEMMA OffsetsAre ==
  ASSUME NEW p, p.kind \in {"file", "text", "print"}, p.length \in Nat
  PROVE  /\ p.kind = "text" => Offsets(p) = {0}
         /\ p.kind # "text" =>
              \A o : o \in Offsets(p) <=> o \in Nat /\ o < p.length /\ Multiple(o)
         /\ \A o \in Offsets(p) : o \in Nat /\ ChunkLength(p, o) \in Nat
<1> USE SizesAssumption
<1>1. ASSUME p.kind # "text", NEW o, o \in Nat, o < p.length, Multiple(o)
      PROVE  o \in Offsets(p)
  <2>1. PICK q \in Nat : o = q * MaxWrite
    BY <1>1 DEF Multiple
  <2>2. q <= p.length
    <3>1. q * (MaxWrite - 1) \in Nat
      OBVIOUS
    <3>2. o = q + q * (MaxWrite - 1)
      BY <2>1
    <3> QED BY <1>1, <3>1, <3>2
  <2> QED BY <1>1, <2>1, <2>2 DEF Offsets
<1>2. ASSUME p.kind # "text", NEW o \in Offsets(p)
      PROVE  o \in Nat /\ o < p.length /\ Multiple(o)
  BY <1>2 DEF Offsets, Multiple
<1>3. p.kind = "text" => Offsets(p) = {0}
  BY DEF Offsets
<1>4. \A o \in Offsets(p) : o \in Nat /\ ChunkLength(p, o) \in Nat
  <2> TAKE o \in Offsets(p)
  <2>1. o \in Nat /\ (p.kind # "text" => o < p.length) /\ (p.kind = "text" => o = 0)
    BY <1>2, <1>3
  <2> QED BY <2>1 DEF ChunkLength
<1> QED BY <1>1, <1>2, <1>3, <1>4

\* What a symbol of the encoding is, by its place.
IsChunkSymbol(s, k, o, n) ==
  /\ s.piece = k /\ s.off = o /\ s.i \in 0..(n + 1)
  /\ s.i = 0 => s = Size(k, o, n)
  /\ s.i \in 1..n => s = Data(k, o, s.i)
  /\ s.i = n + 1 => s = LineEnd(k, o, n)

LEMMA HeadWritesIs == HeadWrites \in Nat
BY SizesAssumption DEF HeadWrites

LEMMA StatusIs ==
  /\ Status \in Symbols
  /\ Status.kind = "status" /\ Status.n = 0
  /\ Status.piece = 0 /\ Status.off = 0 /\ Status.i = 0
BY DEF Status, Symbol, Symbols

LEMMA HeaderIs ==
  ASSUME NEW i \in Nat
  PROVE  /\ HeaderPart(i) \in Symbols
         /\ HeaderPart(i).kind = "header" /\ HeaderPart(i).n = 0
         /\ HeaderPart(i).piece = 0 /\ HeaderPart(i).off = 0 /\ HeaderPart(i).i = i
BY DEF HeaderPart, Symbol, Symbols

LEMMA SizeIs ==
  ASSUME NEW k \in Nat, NEW o \in Nat, NEW n \in Nat
  PROVE  /\ Size(k, o, n) \in Symbols
         /\ Size(k, o, n).kind = "size" /\ Size(k, o, n).n = n
         /\ Size(k, o, n).piece = k /\ Size(k, o, n).off = o /\ Size(k, o, n).i = 0
BY DEF Size, Symbol, Symbols

LEMMA DataIs ==
  ASSUME NEW k \in Nat, NEW o \in Nat, NEW i \in Nat
  PROVE  /\ Data(k, o, i) \in Symbols
         /\ Data(k, o, i).kind = "data" /\ Data(k, o, i).n = 0
         /\ Data(k, o, i).piece = k /\ Data(k, o, i).off = o /\ Data(k, o, i).i = i
BY DEF Data, Symbol, Symbols

LEMMA LineEndIs ==
  ASSUME NEW k \in Nat, NEW o \in Nat, NEW n \in Nat
  PROVE  /\ LineEnd(k, o, n) \in Symbols
         /\ LineEnd(k, o, n).kind = "lineEnd" /\ LineEnd(k, o, n).n = 0
         /\ LineEnd(k, o, n).piece = k /\ LineEnd(k, o, n).off = o
BY DEF LineEnd, Symbol, Symbols

\* On its own: the solver loses the rest beside the sum.
LEMMA LineEndBehind ==
  ASSUME NEW k, NEW o, NEW n
  PROVE  LineEnd(k, o, n).i = n + 1
BY DEF LineEnd, Symbol

LEMMA ChunkSymbols ==
  ASSUME NEW k \in Nat, NEW o \in Nat, NEW n \in Nat, NEW s \in Chunk(k, o, n)
  PROVE  s \in Symbols /\ IsChunkSymbol(s, k, o, n)
<1>1. CASE s = Size(k, o, n)
  <2>1. s \in Symbols /\ s.piece = k /\ s.off = o /\ s.i = 0
    BY <1>1, SizeIs
  <2> QED BY <1>1, <2>1 DEF IsChunkSymbol
<1>2. CASE s = LineEnd(k, o, n)
  <2>1. LineEnd(k, o, n) \in Symbols
    BY LineEndIs
  <2>2. LineEnd(k, o, n).i = n + 1
    BY LineEndBehind
  <2>3. LineEnd(k, o, n).piece = k /\ LineEnd(k, o, n).off = o /\ n + 1 \in Nat
    BY LineEndIs
  <2> QED BY <1>2, <2>1, <2>2, <2>3 DEF IsChunkSymbol
<1>3. ASSUME NEW i \in 1..n, s = Data(k, o, i)
      PROVE  s \in Symbols /\ IsChunkSymbol(s, k, o, n)
  <2>1. s \in Symbols /\ s.piece = k /\ s.off = o /\ s.i = i
    BY <1>3, DataIs
  <2> QED BY <1>3, <2>1 DEF IsChunkSymbol
<1> QED BY <1>1, <1>2, <1>3 DEF Chunk

ChunkOf(a, k, o) == Chunk(k, o, ChunkLength(a.pieces[k], o))

LEMMA EncodingIs ==
  ASSUME NEW a, NEW s
  PROVE  s \in Encoding(a) <=>
           \/ a.head /\ (s = Status \/ \E i \in 1..HeadWrites : s = HeaderPart(i))
           \/ \E k \in 1..Len(a.pieces) : \E o \in Offsets(a.pieces[k]) : s \in ChunkOf(a, k, o)
           \/ s \in Chunk(Len(a.pieces) + 1, 0, 0)
<1> DEFINE head == IF a.head THEN {Status} \cup {HeaderPart(i) : i \in 1..HeadWrites} ELSE {}
           body == UNION {UNION {Chunk(k, o, ChunkLength(a.pieces[k], o)) : o \in Offsets(a.pieces[k])} :
                            k \in 1..Len(a.pieces)}
<1>1. s \in head <=> a.head /\ (s = Status \/ \E i \in 1..HeadWrites : s = HeaderPart(i))
  OBVIOUS
<1>2. s \in body <=> \E k \in 1..Len(a.pieces) : \E o \in Offsets(a.pieces[k]) : s \in ChunkOf(a, k, o)
  <2> DEFINE of(k) == UNION {Chunk(k, o, ChunkLength(a.pieces[k], o)) : o \in Offsets(a.pieces[k])}
  <2>1. ASSUME NEW k
        PROVE  s \in of(k) <=> \E o \in Offsets(a.pieces[k]) : s \in ChunkOf(a, k, o)
    BY DEF ChunkOf
  <2>2. body = UNION {of(k) : k \in 1..Len(a.pieces)}
    OBVIOUS
  <2> HIDE DEF of, body
  <2>3. s \in body <=> \E k \in 1..Len(a.pieces) : s \in of(k)
    BY <2>2
  <2> QED BY <2>1, <2>3
<1>3. Encoding(a) = head \cup Chunk(Len(a.pieces) + 1, 0, 0) \cup body
  BY DEF Encoding
<1> HIDE DEF head, body
<1> QED BY <1>1, <1>2, <1>3

LEMMA EncodingPlaces ==
  ASSUME TypeOK, NEW s \in Encoding(answer)
  PROVE  /\ s \in Symbols
         /\ s.piece \in 0..LastChunk
         /\ s.piece = 0 => /\ answer.head /\ s.off = 0 /\ s.i \in 0..HeadWrites
                           /\ s.i = 0 => s = Status
                           /\ s.i # 0 => s = HeaderPart(s.i)
         /\ s.piece \in 1..Len(answer.pieces) =>
              /\ s.off \in Offsets(answer.pieces[s.piece])
              /\ IsChunkSymbol(s, s.piece, s.off, ChunkLength(answer.pieces[s.piece], s.off))
         /\ s.piece = LastChunk => IsChunkSymbol(s, LastChunk, 0, 0)
<1> DEFINE L == Len(answer.pieces)
<1>1. L \in Nat /\ LastChunk = L + 1 /\ HeadWrites \in Nat
  BY AnswerTypes, HeadWritesIs DEF LastChunk
<1> HIDE DEF L
<1>2. CASE answer.head /\ (s = Status \/ \E i \in 1..HeadWrites : s = HeaderPart(i))
  <2>1. CASE s = Status
    <3>1. s \in Symbols /\ s.piece = 0 /\ s.off = 0 /\ s.i = 0
      BY <2>1, StatusIs
    <3> QED BY <1>1, <1>2, <2>1, <3>1
  <2>2. ASSUME NEW i \in 1..HeadWrites, s = HeaderPart(i)
        PROVE  /\ s \in Symbols /\ s.piece = 0 /\ s.off = 0 /\ s.i = i
    BY <1>1, <2>2, HeaderIs
  <2>3. CASE \E i \in 1..HeadWrites : s = HeaderPart(i)
    BY <1>1, <1>2, <2>2, <2>3
  <2> QED BY <1>2, <2>1, <2>3
<1>3. ASSUME NEW k \in 1..L, NEW o \in Offsets(answer.pieces[k]), s \in ChunkOf(answer, k, o)
      PROVE  /\ s \in Symbols /\ s.piece = k /\ s.off = o
             /\ IsChunkSymbol(s, k, o, ChunkLength(answer.pieces[k], o))
  <2>1. o \in Nat /\ ChunkLength(answer.pieces[k], o) \in Nat
    BY <1>3, AnswerTypes, OffsetsAre DEF L
  <2>2. k \in Nat
    BY <1>1, <1>3
  <2> QED BY <1>3, <2>1, <2>2, ChunkSymbols DEF ChunkOf, IsChunkSymbol
<1>4. CASE s \in Chunk(LastChunk, 0, 0)
  <2>1. s \in Symbols /\ IsChunkSymbol(s, LastChunk, 0, 0)
    BY <1>1, <1>4, ChunkSymbols
  <2>2. s.piece = LastChunk
    BY <2>1 DEF IsChunkSymbol
  <2> QED BY <1>1, <2>1, <2>2 DEF L
<1>5. \/ answer.head /\ (s = Status \/ \E i \in 1..HeadWrites : s = HeaderPart(i))
      \/ \E k \in 1..L : \E o \in Offsets(answer.pieces[k]) : s \in ChunkOf(answer, k, o)
      \/ s \in Chunk(LastChunk, 0, 0)
  BY EncodingIs DEF L, LastChunk
<1>6. CASE \E k \in 1..L : \E o \in Offsets(answer.pieces[k]) : s \in ChunkOf(answer, k, o)
  <2>1. PICK k \in 1..L : \E o \in Offsets(answer.pieces[k]) : s \in ChunkOf(answer, k, o)
    BY <1>6
  <2>2. PICK o \in Offsets(answer.pieces[k]) : s \in ChunkOf(answer, k, o)
    BY <2>1
  <2>3. /\ s \in Symbols /\ s.piece = k /\ s.off = o
        /\ IsChunkSymbol(s, k, o, ChunkLength(answer.pieces[k], o))
    BY <2>2, <1>3
  <2>4. s.piece # 0 /\ s.piece # LastChunk /\ s.piece \in 0..LastChunk
    BY <1>1, <2>3
  <2> QED BY <2>2, <2>3, <2>4
<1> QED BY <1>2, <1>4, <1>5, <1>6

LEMMA EncodingSymbols ==
  ASSUME TypeOK
  PROVE  Encoding(answer) \in SUBSET Symbols
BY EncodingPlaces

LEMMA InEncoding ==
  ASSUME TypeOK
  PROVE  /\ answer.head => Status \in Encoding(answer)
         /\ answer.head => \A i \in 1..HeadWrites : HeaderPart(i) \in Encoding(answer)
         /\ \A k \in 1..Len(answer.pieces) : \A o \in Offsets(answer.pieces[k]) :
              Chunk(k, o, ChunkLength(answer.pieces[k], o)) \subseteq Encoding(answer)
         /\ Chunk(LastChunk, 0, 0) \subseteq Encoding(answer)
<1>1. ASSUME NEW k \in 1..Len(answer.pieces), NEW o \in Offsets(answer.pieces[k]),
             NEW s \in Chunk(k, o, ChunkLength(answer.pieces[k], o))
      PROVE  s \in Encoding(answer)
  BY EncodingIs DEF ChunkOf
<1>2. ASSUME NEW s \in Chunk(LastChunk, 0, 0)
      PROVE  s \in Encoding(answer)
  BY EncodingIs DEF LastChunk
<1>3. answer.head => Status \in Encoding(answer)
  BY EncodingIs
<1>4. ASSUME answer.head, NEW i \in 1..HeadWrites
      PROVE  HeaderPart(i) \in Encoding(answer)
  BY <1>4, EncodingIs
<1> QED BY <1>1, <1>2, <1>3, <1>4

-----------------------------------------------------------------------------
(* The response: writes, and what the worker writes next. *)

\* What a write does: all of its symbols or, unless something was cut short, none.
LEMMA WriteIs ==
  ASSUME TypeOK, NEW b \in Seq(Symbols), WriteToSocket(b)
  PROVE  /\ wire' \in Seq(Symbols) /\ closed' \in BOOLEAN /\ cut' \in BOOLEAN
         /\ space' \in 0..SendBuffer
         /\ Written(Len(b)) \in 0..Len(b)
         /\ wire' = wire \o SubSeq(b, 1, Written(Len(b)))
         /\ closed => closed' /\ Written(Len(b)) = 0
         /\ closed' = (closed \/ (Written(Len(b)) = 0 /\ b # <<>>))
         /\ Written(Len(b)) = 0 => wire' = wire
         /\ Written(Len(b)) = Len(b) => wire' = wire \o b
         /\ ~cut' => ~cut /\ Written(Len(b)) \in {0, Len(b)}
         /\ ~cut' /\ ~closed' => ~closed /\ wire' = wire \o b /\ Written(Len(b)) = Len(b)
         /\ ~cut' /\ closed' => wire' = wire
<1> DEFINE n == Written(Len(b))
<1>1. Len(b) \in Nat /\ space \in Nat /\ space <= SendBuffer /\ SendBuffer \in Nat
  BY SizesAssumption DEF TypeOK
<1>2. n \in 0..Len(b) /\ n <= space /\ (closed => n = 0)
  BY <1>1 DEF Written
<1>3. /\ wire' = wire \o SubSeq(b, 1, n) /\ space' = space - n
      /\ cut' = (cut \/ (0 < n /\ n < Len(b)))
      /\ closed' = (closed \/ (n = 0 /\ b # <<>>))
  BY DEF WriteToSocket
<1> HIDE DEF n
<1>4. SubSeq(b, 1, n) \in Seq(Symbols) /\ wire \in Seq(Symbols)
  BY <1>1, <1>2, SubSeqProperties DEF TypeOK
<1>5. wire' \in Seq(Symbols)
  BY <1>3, <1>4, ConcatProperties
<1>6. closed' \in BOOLEAN /\ cut' \in BOOLEAN
  BY <1>3 DEF TypeOK
<1>7. space' \in 0..SendBuffer
  BY <1>1, <1>2, <1>3
<1>8. n = Len(b) => SubSeq(b, 1, n) = b
  BY <1>1
<1>9. n = 0 => SubSeq(b, 1, n) = <<>>
  BY <1>1
<1>10. n = 0 => wire' = wire
  <2>1. wire \o <<>> = wire
    BY <1>4, ConcatEmptySeq
  <2> QED BY <1>3, <1>9, <2>1
<1>11. ~cut' => ~cut /\ n \in {0, Len(b)}
  <2>1. ~cut' => ~cut /\ ~(0 < n /\ n < Len(b))
    BY <1>3, Zenon
  <2> QED BY <1>1, <1>2, <2>1
<1>12. b = <<>> <=> Len(b) = 0
  BY EmptySeq
<1>13. ~cut' /\ ~closed' => ~closed /\ n = Len(b)
  BY <1>3, <1>11, <1>12
<1>14. ~cut' /\ closed' => wire' = wire
  <2> SUFFICES ASSUME ~cut', closed', n # 0
               PROVE  FALSE
    BY <1>10
  <2> QED BY <1>2, <1>3
<1>15. n = Len(b) => wire' = wire \o b
  BY <1>3, <1>8
<1> QED BY <1>2, <1>3, <1>5, <1>6, <1>7, <1>10, <1>11, <1>13, <1>14, <1>15 DEF n

\* A write and the place behind it.
LEMMA WireWrite ==
  ASSUME TypeOK, WireInv, NEW b \in Seq(Symbols), WriteToSocket(b), answer' = answer,
         Sorted(b),
         ~cut /\ ~cut' /\ ~closed' =>
           /\ Placed(Here) /\ Placed(Here') /\ ~Earlier(Here', Here)
           /\ \A j \in 1..Len(b) : /\ b[j] \in Encoding(answer)
                                   /\ ~Earlier(b[j], Here) /\ Earlier(b[j], Here')
           /\ \A s \in Encoding(answer) : Earlier(s, Here') => Earlier(s, Here) \/ On(b, s)
  PROVE  WireInv'
<1> DEFINE E == Encoding(answer)
           h == Here
           g == Here'
<1>1. E \in SUBSET Symbols
  BY EncodingSymbols
<1>2. wire \in Seq(Symbols)
  BY DEF TypeOK
<1>3. ~cut => /\ Sorted(wire) /\ NoGap(wire, E)
              /\ ~closed => UpTo(wire, E, h)
  BY DEF WireInv
<1>4. WireInv' <=> (~cut' => /\ Sorted(wire') /\ NoGap(wire', E)
                             /\ ~closed' => UpTo(wire', E, g))
  BY DEF WireInv
<1> HIDE DEF E, h, g
<1>5. CASE cut'
  BY <1>4, <1>5
<1>6. CASE ~cut' /\ closed'
  <2>1. ~cut /\ wire' = wire
    BY <1>6, WriteIs
  <2> QED BY <1>3, <1>4, <1>6, <2>1
<1>7. CASE ~cut' /\ ~closed'
  <2>1. ~cut /\ ~closed /\ wire' = wire \o b
    BY <1>7, WriteIs
  <2>2. Sorted(wire) /\ UpTo(wire, E, h) /\ Placed(h) /\ Placed(g) /\ ~Earlier(g, h)
    BY <1>3, <1>7, <2>1 DEF h, g
  <2>3. /\ \A j \in 1..Len(b) : b[j] \in E /\ ~Earlier(b[j], h) /\ Earlier(b[j], g)
        /\ \A s \in E : Earlier(s, g) => Earlier(s, h) \/ On(b, s)
    BY <1>7, <2>1 DEF E, h, g
  <2>4. Sorted(wire \o b) /\ UpTo(wire \o b, E, g)
    BY <1>1, <1>2, <2>2, <2>3, Put
  <2>5. wire \o b \in Seq(Symbols)
    BY <1>2, ConcatProperties
  <2>6. NoGap(wire \o b, E)
    BY <1>1, <2>2, <2>4, <2>5, UpToNoGap
  <2> QED BY <1>4, <2>1, <2>4, <2>6
<1> QED BY <1>5, <1>6, <1>7

\* Going on without a write.
LEMMA WireStill ==
  ASSUME TypeOK, WireInv, UNCHANGED <<answer, closed, wire, cut>>,
         Placed(Here), Placed(Here'), ~Earlier(Here', Here),
         ~cut /\ ~closed => \A s \in Encoding(answer) : Earlier(s, Here') => Earlier(s, Here)
  PROVE  WireInv'
<1> DEFINE E == Encoding(answer)
           h == Here
           g == Here'
<1>1. ~cut => /\ Sorted(wire) /\ NoGap(wire, E)
              /\ ~closed => UpTo(wire, E, h)
  BY DEF WireInv
<1>2. WireInv' <=> (~cut => /\ Sorted(wire) /\ NoGap(wire, E)
                            /\ ~closed => UpTo(wire, E, g))
  BY DEF WireInv
<1>3. ASSUME ~cut, ~closed
      PROVE  UpTo(wire, E, g)
  <2>1. \A s \in E : Earlier(s, g) => Earlier(s, h)
    BY <1>3 DEF E, h, g
  <2>2. Placed(h) /\ Placed(g) /\ ~Earlier(g, h)
    BY DEF h, g
  <2>3. E \in SUBSET Symbols
    BY EncodingSymbols
  <2> HIDE DEF E, h, g
  <2>4. \A j \in 1..Len(wire) : wire[j] \in E /\ Placed(wire[j]) /\ Earlier(wire[j], h)
    BY <1>1, <1>3, <2>3, SymbolsPlaced DEF UpTo
  <2> QED BY <1>1, <1>3, <2>1, <2>2, <2>4, EarlierOrder DEF UpTo
<1> QED BY <1>1, <1>2, <1>3

LEMMA One ==
  ASSUME NEW s \in Symbols
  PROVE  /\ <<s>> \in Seq(Symbols) /\ Len(<<s>>) = 1 /\ <<s>> # <<>>
         /\ Sorted(<<s>>) /\ On(<<s>>, s)
         /\ \A j \in 1..Len(<<s>>) : <<s>>[j] = s
BY DEF Sorted, On

LEMMA BytesAre ==
  ASSUME NEW k \in Nat, NEW o \in Nat, NEW n \in Nat
  PROVE  /\ Bytes(k, o, n) \in Seq(Symbols) /\ Len(Bytes(k, o, n)) = n
         /\ \A i \in 1..n : Bytes(k, o, n)[i] = Data(k, o, i)
         /\ Sorted(Bytes(k, o, n))
<1> DEFINE b == Bytes(k, o, n)
<1>1. \A i \in 1..n : b[i] = Data(k, o, i) /\ Data(k, o, i) \in Symbols
  BY DataIs DEF Bytes
<1>2. b = [i \in 1..n |-> b[i]]
  BY DEF Bytes
<1>3. b \in Seq(Symbols) /\ Len(b) = n
  <2> HIDE DEF b
  <2>1. b \in [1..n -> Symbols]
    BY <1>1, <1>2
  <2>2. b \in Seq(Symbols)
    BY <2>1, SeqDef
  <2>3. DOMAIN b = 1..n
    BY <2>1
  <2> QED BY <2>2, <2>3, LenProperties
<1>4. ASSUME NEW i \in 1..n, NEW j \in 1..n, i < j
      PROVE  Earlier(b[i], b[j])
  <2>1. /\ Data(k, o, i).piece = k /\ Data(k, o, i).off = o /\ Data(k, o, i).i = i
        /\ Data(k, o, j).piece = k /\ Data(k, o, j).off = o /\ Data(k, o, j).i = j
    BY DataIs
  <2> QED BY <1>1, <1>4, <2>1 DEF Earlier
<1>5. Sorted(b)
  BY <1>3, <1>4 DEF Sorted
<1> QED BY <1>1, <1>3, <1>5

\* The symbols of a write.
LEMMA SymbolsOfWrites ==
  ASSUME TypeOK
  PROVE  /\ Status \in Symbols /\ HeaderPart(off) \in Symbols
         /\ Size(piece, off, chunk) \in Symbols /\ LineEnd(piece, off, chunk) \in Symbols
         /\ LastChunk \in Nat
         /\ Size(LastChunk, 0, 0) \in Symbols /\ LineEnd(LastChunk, 0, 0) \in Symbols
<1>1. LastChunk \in Nat /\ piece \in Nat /\ off \in Nat /\ chunk \in Nat
  BY AnswerTypes DEF LastChunk, TypeOK
<1>2. Status \in Symbols /\ HeaderPart(off) \in Symbols
  BY <1>1, StatusIs, HeaderIs
<1>3. Size(piece, off, chunk) \in Symbols /\ Size(LastChunk, 0, 0) \in Symbols
  BY <1>1, SizeIs
<1>4. LineEnd(piece, off, chunk) \in Symbols /\ LineEnd(LastChunk, 0, 0) \in Symbols
  BY <1>1, LineEndIs
<1> QED BY <1>1, <1>2, <1>3, <1>4

\* The piece the worker is at.
LEMMA PieceIs ==
  ASSUME TypeOK, ChunkInv, piece < LastChunk
  PROVE  /\ piece \in 1..Len(answer.pieces)
         /\ Piece.kind \in {"file", "text", "print"} /\ Piece.length \in Nat
<1>1. piece \in 1..Len(answer.pieces)
  BY AnswerTypes DEF ChunkInv, LastChunk, TypeOK
<1> QED BY <1>1, AnswerTypes DEF Piece

LEMMA ChunkIs ==
  ASSUME TypeOK, ChunkInv, Sending
  PROVE  /\ piece \in 1..Len(answer.pieces) /\ piece < LastChunk
         /\ Piece.kind \in {"file", "text", "print"} /\ Piece.length \in Nat
         /\ chunk = ChunkLength(Piece, off) /\ chunk \in 0..(Piece.length - off)
         /\ Piece.kind = "text" => off = 0 /\ chunk = Piece.length
         /\ Piece.kind # "text" => /\ off < Piece.length /\ 0 < chunk /\ chunk <= MaxWrite
                                   /\ chunk = MaxWrite \/ chunk = Piece.length - off
<1>1. /\ piece < LastChunk /\ chunk = ChunkLength(Piece, off)
      /\ Piece.kind = "text" => off = 0
      /\ Piece.kind # "text" => off < Piece.length
  BY DEF ChunkInv
<1>2. off \in Nat /\ MaxWrite \in Nat /\ MaxWrite > 0
  BY SizesAssumption DEF TypeOK
<1>3. /\ piece \in 1..Len(answer.pieces)
      /\ Piece.kind \in {"file", "text", "print"} /\ Piece.length \in Nat
  BY <1>1, PieceIs
<1> QED BY <1>1, <1>2, <1>3 DEF ChunkLength

\* The chunk write_chunk() is called with is the one the piece is cut into there.
LEMMA NextChunkIs ==
  ASSUME TypeOK, ChunkInv, NextChunk
  PROVE  /\ piece \in 1..Len(answer.pieces) /\ piece < LastChunk
         /\ Piece.kind \in {"file", "text", "print"} /\ Piece.length \in Nat
         /\ chunk' = ChunkLength(Piece, off) /\ chunk' \in Nat
         /\ Piece.kind = "text" => off = 0
         /\ Piece.kind # "text" => off < Piece.length
<1>1. piece \in Nat /\ off \in Nat /\ LastChunk = Len(answer.pieces) + 1 /\ Len(answer.pieces) \in Nat
  BY AnswerTypes DEF TypeOK, LastChunk
<1>2. piece < LastChunk
  BY <1>1 DEF NextChunk, MorePieces
<1>3. /\ piece \in 1..Len(answer.pieces)
      /\ Piece.kind \in {"file", "text", "print"} /\ Piece.length \in Nat
  BY <1>2, PieceIs
<1>4. MoreOfPiece
  BY DEF NextChunk
<1>5. /\ Piece.kind = "text" => off = 0
      /\ Piece.kind # "text" => off < Piece.length
  <2>1. CASE Piece.kind = "text"
    BY <1>4, <2>1 DEF MoreOfPiece
  <2>2. CASE Piece.kind = "file"
    BY <1>4, <2>2 DEF MoreOfPiece
  <2>3. CASE Piece.kind = "print"
    BY <1>4, <2>3 DEF MoreOfPiece
  <2> QED BY <1>3, <2>1, <2>2, <2>3
<1>6. MaxWrite \in Nat
  BY SizesAssumption
<1>7. chunk' = IF Piece.kind # "text" /\ Piece.length - off > MaxWrite
               THEN MaxWrite ELSE Piece.length - off
  BY DEF NextChunk
<1>8. chunk' = ChunkLength(Piece, off)
  BY <1>1, <1>3, <1>6, <1>7 DEF ChunkLength
<1>9. chunk' \in Nat
  BY <1>1, <1>3, <1>5, <1>6, <1>7
<1> QED BY <1>2, <1>3, <1>5, <1>8, <1>9

\* Only a write takes what is in wire, closed and cut to another type.
LEMMA WriteTypes ==
  ASSUME TypeOK, NEW b \in Seq(Symbols), WriteToSocket(b), UNCHANGED <<answer, gone>>,
         pc' \in {"headers", "data", "lineEnd", "body", "endLine", "done"},
         piece' \in Nat, off' \in Nat, chunk' \in Nat, sent' \in Nat
  PROVE  TypeOK'
BY WriteIs DEF TypeOK

LEMMA RespondTypeStep ==
  ASSUME TypeOK, ChunkInv, [Next]_vars
  PROVE  TypeOK'
<1>1. CASE SendStatus
  <2>1. WriteToSocket(<<Status>>) /\ <<Status>> \in Seq(Symbols)
    BY <1>1, SymbolsOfWrites, One DEF SendStatus
  <2> QED BY <1>1, <2>1, WriteTypes DEF SendStatus, TypeOK
<1>2. CASE SendHeader
  <2>1. CASE off <= HeadWrites /\ WriteToSocket(<<HeaderPart(off)>>) /\ off' = off + 1 /\ pc' = pc
    <3>1. <<HeaderPart(off)>> \in Seq(Symbols) /\ off + 1 \in Nat
      BY SymbolsOfWrites, One DEF TypeOK
    <3> QED BY <1>2, <2>1, <3>1, WriteTypes DEF SendHeader, TypeOK
  <2>2. CASE off' = 0 /\ pc' = "body" /\ UNCHANGED socketVars
    BY <1>2, <2>2 DEF SendHeader, TypeOK, socketVars
  <2> QED BY <1>2, <2>1, <2>2 DEF SendHeader
<1>3. CASE NextChunk
  <2>1. chunk' \in Nat
    BY <1>3, NextChunkIs, SizesAssumption DEF TypeOK
  <2> QED BY <1>3, <2>1 DEF NextChunk, TypeOK, socketVars
<1>4. CASE NextPiece
  BY <1>4 DEF NextPiece, TypeOK, socketVars
<1>5. CASE EndBody
  BY <1>5 DEF EndBody, TypeOK, socketVars, responseVars
<1>6. CASE ChunkSize
  <2>1. WriteToSocket(<<Size(piece, off, chunk)>>) /\ <<Size(piece, off, chunk)>> \in Seq(Symbols)
    BY <1>6, SymbolsOfWrites, One DEF ChunkSize
  <2> QED BY <1>6, <2>1, WriteTypes DEF ChunkSize, TypeOK, responseVars
<1>7. CASE ChunkData
  <2> DEFINE b == Bytes(piece, off, chunk)
  <2>1. b \in Seq(Symbols) /\ Len(b) = chunk /\ chunk \in Nat
    BY BytesAre DEF TypeOK
  <2>2. WriteToSocket(b) /\ sent' = Written(Len(b))
    BY <1>7, <2>1 DEF ChunkData
  <2> HIDE DEF b
  <2>3. sent' \in Nat
    BY <2>1, <2>2, WriteIs
  <2> QED BY <1>7, <2>1, <2>2, <2>3, WriteTypes DEF ChunkData, TypeOK
<1>8. CASE ChunkEnd
  <2>1. WriteToSocket(<<LineEnd(piece, off, chunk)>>) /\ <<LineEnd(piece, off, chunk)>> \in Seq(Symbols)
    BY <1>8, SymbolsOfWrites, One DEF ChunkEnd
  <2>2. Piece.kind \in {"file", "text", "print"} /\ off \in Nat /\ chunk \in Nat /\ sent \in Nat
    BY <1>8, ChunkIs DEF ChunkEnd, Sending, TypeOK
  <2>3. Advance \in Nat
    BY <2>2, SizesAssumption DEF Advance
  <2> QED BY <1>8, <2>1, <2>3, WriteTypes DEF ChunkEnd, TypeOK
<1>9. CASE EndSize
  <2>1. WriteToSocket(<<Size(LastChunk, 0, 0)>>) /\ <<Size(LastChunk, 0, 0)>> \in Seq(Symbols)
    BY <1>9, SymbolsOfWrites, One DEF EndSize
  <2> QED BY <1>9, <2>1, WriteTypes DEF EndSize, TypeOK, responseVars
<1>10. CASE EndLine
  <2>1. WriteToSocket(<<LineEnd(LastChunk, 0, 0)>>) /\ <<LineEnd(LastChunk, 0, 0)>> \in Seq(Symbols)
    BY <1>10, SymbolsOfWrites, One DEF EndLine
  <2> QED BY <1>10, <2>1, WriteTypes DEF EndLine, TypeOK, responseVars
<1>11. CASE Drain
  <2>1. space' \in 0..SendBuffer
    BY <1>11, SizesAssumption DEF Drain, TypeOK
  <2> QED BY <1>11, <2>1 DEF Drain, TypeOK, responseVars
<1>12. CASE Leave
  BY <1>12 DEF Leave, TypeOK, responseVars, socketVars
<1>13. CASE UNCHANGED vars
  BY <1>13 DEF vars, TypeOK, responseVars, socketVars
<1> QED BY <1>1, <1>2, <1>3, <1>4, <1>5, <1>6, <1>7, <1>8, <1>9, <1>10, <1>11, <1>12, <1>13
        DEF Next, WorkerStep

\* Where ChunkEnd goes.
LEMMA AdvanceIs ==
  ASSUME TypeOK, ChunkInv, ChunkEnd
  PROVE  /\ off' \in Nat
         /\ Piece.kind = "file" => off' = off + sent /\ off' <= Piece.length
         /\ Piece.kind = "text" => off' = chunk + 1
         /\ Piece.kind = "print" => off' = off + MaxWrite
         /\ ~cut' /\ Piece.kind # "text" => Multiple(off') \/ off' >= Piece.length
         /\ ~cut' /\ ~closed' => sent = chunk
<1>1. /\ pc = "lineEnd" /\ Sending /\ off' = Advance
      /\ WriteToSocket(<<LineEnd(piece, off, chunk)>>)
  BY DEF ChunkEnd, Sending
<1>2. /\ Piece.kind \in {"file", "text", "print"} /\ Piece.length \in Nat
      /\ off \in Nat /\ chunk \in Nat /\ sent \in Nat /\ chunk <= Piece.length - off
      /\ Piece.kind # "text" => /\ off < Piece.length /\ 0 < chunk
                                /\ chunk = MaxWrite \/ chunk = Piece.length - off
  BY <1>1, ChunkIs DEF TypeOK
<1>3. sent \in 0..chunk /\ (~cut /\ sent # chunk => sent = 0 /\ closed)
  BY <1>1 DEF ChunkInv
<1>4. (~cut' => ~cut) /\ (closed => closed')
  BY <1>1, SymbolsOfWrites, One, WriteIs
<1>5. ~cut /\ Piece.kind # "text" => Multiple(off)
  BY <1>1, <1>2, ChunkIs DEF ChunkInv
<1>6. MaxWrite \in Nat
  BY SizesAssumption
<1>7. /\ Piece.kind = "file" => off' = off + sent /\ off' <= Piece.length
      /\ Piece.kind = "text" => off' = chunk + 1
      /\ Piece.kind = "print" => off' = off + MaxWrite
      /\ off' \in Nat
  BY <1>1, <1>2, <1>3, <1>6 DEF Advance
<1>8. ASSUME ~cut', Piece.kind # "text"
      PROVE  Multiple(off') \/ off' >= Piece.length
  <2>1. Multiple(off) /\ Multiple(off + MaxWrite)
    BY <1>2, <1>4, <1>5, <1>8, Multiples
  <2>2. CASE Piece.kind = "print"
    BY <1>7, <2>1, <2>2
  <2>3. CASE Piece.kind = "file" /\ sent = 0
    BY <1>2, <1>7, <2>1, <2>3
  <2>4. CASE Piece.kind = "file" /\ sent = chunk
    BY <1>2, <1>6, <1>7, <2>1, <2>4
  <2> QED BY <1>2, <1>3, <1>4, <1>8, <2>2, <2>3, <2>4
<1> QED BY <1>3, <1>4, <1>7, <1>8

LEMMA ChunkStep ==
  ASSUME TypeOK, ChunkInv, [Next]_vars
  PROVE  ChunkInv'
<1>1. /\ LastChunk \in Nat /\ LastChunk = Len(answer.pieces) + 1 /\ Len(answer.pieces) \in Nat
      /\ piece \in 1..LastChunk /\ off \in Nat /\ chunk \in Nat /\ sent \in Nat /\ HeadWrites \in Nat
  BY AnswerTypes, HeadWritesIs DEF LastChunk, TypeOK, ChunkInv
<1>2. answer' = answer => LastChunk' = LastChunk
  BY DEF LastChunk
<1>3. answer' = answer /\ piece' = piece => Piece' = Piece
  BY DEF Piece
<1>4. CASE SendStatus
  <2>1. /\ pc = "status" /\ pc' = "headers" /\ off' = 1
        /\ answer' = answer /\ piece' = piece /\ chunk' = chunk /\ sent' = sent
    BY <1>4 DEF SendStatus
  <2> QED BY <1>1, <1>2, <2>1 DEF ChunkInv, Sending
<1>5. CASE SendHeader
  <2>1. /\ pc = "headers" /\ answer' = answer /\ piece' = piece /\ chunk' = chunk /\ sent' = sent
        /\ \/ off <= HeadWrites /\ off' = off + 1 /\ pc' = pc
           \/ off' = 0 /\ pc' = "body"
    BY <1>5 DEF SendHeader
  <2>2. piece = 1 /\ answer.head
    BY <2>1 DEF ChunkInv
  <2>3. CASE off <= HeadWrites /\ off' = off + 1 /\ pc' = pc
    BY <1>1, <1>2, <2>1, <2>2, <2>3 DEF ChunkInv, Sending
  <2>4. CASE off' = 0 /\ pc' = "body"
    <3>1. Multiple(off')
      <4>1. off' = 0 * MaxWrite
        BY <2>4, SizesAssumption
      <4> QED BY <4>1 DEF Multiple
    <3>2. piece < LastChunk => Piece.length \in Nat
      BY PieceIs
    <3> QED BY <1>1, <1>2, <1>3, <2>1, <2>2, <2>4, <3>1, <3>2 DEF ChunkInv, Sending
  <2> QED BY <2>1, <2>3, <2>4
<1>6. CASE NextChunk
  <2>1. /\ pc = "body" /\ pc' = "size" /\ UNCHANGED <<answer, piece, off, sent, cut>>
    BY <1>6 DEF NextChunk, socketVars
  <2> QED BY <1>1, <1>2, <1>3, <1>6, <2>1, NextChunkIs DEF ChunkInv, Sending
<1>7. CASE NextPiece
  <2>1. /\ pc = "body" /\ pc' = "body" /\ UNCHANGED <<answer, chunk, sent, cut>>
        /\ piece' = piece + 1 /\ off' = 0 /\ piece < LastChunk
    BY <1>1, <1>7 DEF NextPiece, MorePieces, socketVars
  <2>2. Multiple(off')
    <3>1. off' = 0 * MaxWrite
      BY <2>1, SizesAssumption
    <3> QED BY <3>1 DEF Multiple
  <2>3. piece' < LastChunk => Piece'.length \in Nat
    <3>1. ASSUME piece' < LastChunk
          PROVE  answer.pieces[piece'].length \in Nat
      BY <1>1, <2>1, <3>1, AnswerTypes
    <3> QED BY <2>1, <3>1 DEF Piece
  <2> QED BY <1>1, <1>2, <2>1, <2>2, <2>3 DEF ChunkInv, Sending
<1>8. CASE EndBody
  <2>1. /\ pc = "body" /\ pc' = "endSize" /\ UNCHANGED <<answer, piece, off, chunk, sent, cut>>
        /\ piece = LastChunk
    BY <1>1, <1>8 DEF EndBody, MorePieces, socketVars, responseVars
  <2> QED BY <1>1, <1>2, <2>1 DEF ChunkInv, Sending
<1>9. CASE ChunkSize
  <2>1. /\ pc = "size" /\ pc' = "data" /\ UNCHANGED <<answer, piece, off, chunk, sent>>
        /\ WriteToSocket(<<Size(piece, off, chunk)>>)
    BY <1>9 DEF ChunkSize, responseVars
  <2>2. ~cut' => ~cut
    BY <2>1, SymbolsOfWrites, One, WriteIs
  <2> QED BY <1>1, <1>2, <1>3, <2>1, <2>2 DEF ChunkInv, Sending
<1>10. CASE ChunkData
  <2> DEFINE b == Bytes(piece, off, chunk)
  <2>1. b \in Seq(Symbols) /\ Len(b) = chunk
    BY <1>1, BytesAre
  <2>2. /\ pc = "data" /\ pc' = "lineEnd" /\ UNCHANGED <<answer, piece, off, chunk>>
        /\ WriteToSocket(b) /\ sent' = Written(chunk)
    BY <1>10 DEF ChunkData
  <2> HIDE DEF b
  <2>3. /\ sent' \in 0..chunk /\ (~cut' => ~cut /\ sent' \in {0, chunk})
        /\ ~cut' /\ ~closed' => sent' = chunk
        /\ closed' \in BOOLEAN
    BY <2>1, <2>2, WriteIs
  <2> QED BY <1>1, <1>2, <1>3, <2>2, <2>3 DEF ChunkInv, Sending
<1>11. CASE ChunkEnd
  <2>1. /\ pc = "lineEnd" /\ pc' = "body" /\ UNCHANGED <<answer, piece>>
    BY <1>11 DEF ChunkEnd
  <2>2. piece < LastChunk
    BY <2>1, ChunkIs DEF Sending
  <2> QED BY <1>1, <1>2, <1>3, <1>11, <2>1, <2>2, AdvanceIs DEF ChunkInv, Sending
<1>12. CASE EndSize
  <2>1. pc = "endSize" /\ pc' = "endLine" /\ UNCHANGED <<answer, piece, off, chunk, sent>>
    BY <1>12 DEF EndSize, responseVars
  <2> QED BY <1>1, <1>2, <2>1 DEF ChunkInv, Sending
<1>13. CASE EndLine
  <2>1. pc = "endLine" /\ pc' = "done" /\ UNCHANGED <<answer, piece, off, chunk, sent>>
    BY <1>13 DEF EndLine, responseVars
  <2> QED BY <1>1, <1>2, <2>1 DEF ChunkInv, Sending
<1>14. CASE Drain \/ Leave \/ UNCHANGED vars
  <2>1. UNCHANGED <<pc, answer, piece, off, chunk, sent, closed, cut>>
    BY <1>14 DEF Drain, Leave, vars, responseVars, socketVars
  <2> QED BY <1>1, <1>2, <1>3, <2>1 DEF ChunkInv, Sending
<1> QED BY <1>4, <1>5, <1>6, <1>7, <1>8, <1>9, <1>10, <1>11, <1>12, <1>13, <1>14
        DEF Next, WorkerStep

-----------------------------------------------------------------------------
(* The response: no step leaves a gap in the encoding. *)

LEMMA PlaceIs ==
  ASSUME NEW k \in Nat, NEW o \in Nat, NEW i \in Nat
  PROVE  /\ Placed(Place(k, o, i))
         /\ Place(k, o, i).piece = k /\ Place(k, o, i).off = o /\ Place(k, o, i).i = i
BY DEF Place, Placed

\* What comes before a place, in numbers.
LEMMA EarlierIs ==
  ASSUME NEW s, Placed(s), NEW k \in Nat, NEW o \in Nat, NEW i \in Nat
  PROVE  /\ Earlier(s, Place(k, o, i)) <=>
              s.piece < k \/ (s.piece = k /\ (s.off < o \/ (s.off = o /\ s.i < i)))
         /\ Earlier(Place(k, o, i), s) <=>
              k < s.piece \/ (k = s.piece /\ (o < s.off \/ (o = s.off /\ i < s.i)))
BY PlaceIs DEF Earlier

LEMMA EncodingPlaced ==
  ASSUME TypeOK, NEW s \in Encoding(answer)
  PROVE  Placed(s) /\ s.piece \in Nat /\ s.off \in Nat /\ s.i \in Nat /\ s.piece <= LastChunk
<1>1. s \in Symbols /\ s.piece \in 0..LastChunk /\ LastChunk \in Nat
  BY EncodingPlaces, AnswerTypes DEF LastChunk
<1> QED BY <1>1, SymbolsPlaced DEF Placed

\* A write of one symbol, the only one of the encoding between the two places.
LEMMA WireWriteOne ==
  ASSUME TypeOK, WireInv, NEW s \in Symbols, WriteToSocket(<<s>>), answer' = answer,
         ~cut /\ ~cut' /\ ~closed' =>
           /\ Placed(Here) /\ Placed(Here') /\ ~Earlier(Here', Here)
           /\ s \in Encoding(answer) /\ ~Earlier(s, Here) /\ Earlier(s, Here')
           /\ \A t \in Encoding(answer) : Earlier(t, Here') => Earlier(t, Here) \/ t = s
  PROVE  WireInv'
<1> DEFINE b == <<s>>
<1>1. /\ b \in Seq(Symbols) /\ Sorted(b) /\ On(b, s)
      /\ \A j \in 1..Len(b) : b[j] = s
  BY One
<1>2. WriteToSocket(b)
  OBVIOUS
<1> HIDE DEF b
<1>3. ~cut /\ ~cut' /\ ~closed' =>
        /\ \A j \in 1..Len(b) : b[j] \in Encoding(answer) /\ ~Earlier(b[j], Here) /\ Earlier(b[j], Here')
        /\ \A t \in Encoding(answer) : Earlier(t, Here') => Earlier(t, Here) \/ On(b, t)
  BY <1>1
<1> QED BY <1>1, <1>2, <1>3, WireWrite

LEMMA WireSendStatus ==
  ASSUME TypeOK, ChunkInv, WireInv, SendStatus
  PROVE  WireInv'
<1>1. /\ pc = "status" /\ pc' = "headers" /\ off' = 1 /\ answer' = answer
      /\ WriteToSocket(<<Status>>)
  BY DEF SendStatus
<1>2. Here = Place(0, 0, 0) /\ Here' = Place(0, 0, 1)
  BY <1>1 DEF Here
<1>3. answer.head
  BY <1>1 DEF ChunkInv
<1>4. Status \in Symbols /\ Status \in Encoding(answer)
  BY <1>3, StatusIs, InEncoding
<1>5. Placed(Here) /\ Placed(Here') /\ ~Earlier(Here', Here)
  BY <1>2, PlaceIs, EarlierIs
<1>6. Placed(Status) /\ ~Earlier(Status, Here) /\ Earlier(Status, Here')
  BY <1>2, <1>4, StatusIs, SymbolsPlaced, EarlierIs
<1>7. ASSUME NEW s \in Encoding(answer), Earlier(s, Here')
      PROVE  s = Status
  <2>1. s.piece = 0 /\ s.off = 0 /\ s.i = 0
    BY <1>2, <1>7, EncodingPlaced, EarlierIs
  <2> QED BY <2>1, EncodingPlaces
<1> QED BY <1>1, <1>4, <1>5, <1>6, <1>7, WireWriteOne

LEMMA WireSendHeader ==
  ASSUME TypeOK, ChunkInv, WireInv, SendHeader
  PROVE  WireInv'
<1>1. pc = "headers" /\ answer' = answer /\ piece' = piece
  BY DEF SendHeader
<1>2. /\ answer.head /\ piece = 1 /\ off \in 1..(HeadWrites + 1) /\ HeadWrites \in Nat
      /\ off \in Nat
  BY <1>1, HeadWritesIs DEF ChunkInv
<1>3. Here = Place(0, 0, off)
  BY <1>1 DEF Here
<1>4. CASE off <= HeadWrites /\ WriteToSocket(<<HeaderPart(off)>>) /\ off' = off + 1 /\ pc' = pc
  <2>1. Here' = Place(0, 0, off + 1) /\ off + 1 \in Nat
    BY <1>1, <1>2, <1>4 DEF Here
  <2>2. HeaderPart(off) \in Symbols /\ HeaderPart(off) \in Encoding(answer)
    BY <1>2, <1>4, HeaderIs, InEncoding
  <2>3. Placed(Here) /\ Placed(Here') /\ ~Earlier(Here', Here)
    BY <1>2, <1>3, <2>1, PlaceIs, EarlierIs
  <2>4. ~Earlier(HeaderPart(off), Here) /\ Earlier(HeaderPart(off), Here')
    BY <1>2, <1>3, <2>1, <2>2, HeaderIs, SymbolsPlaced, EarlierIs
  <2>5. ASSUME NEW s \in Encoding(answer), Earlier(s, Here'), ~Earlier(s, Here)
        PROVE  s = HeaderPart(off)
    <3>1. s.piece = 0 /\ s.off = 0 /\ s.i = off
      BY <1>2, <1>3, <2>1, <2>5, EncodingPlaced, EarlierIs
    <3> QED BY <1>2, <3>1, EncodingPlaces
  <2> QED BY <1>1, <1>4, <2>2, <2>3, <2>4, <2>5, WireWriteOne
<1>5. CASE off > HeadWrites /\ off' = 0 /\ pc' = "body" /\ UNCHANGED socketVars
  <2>1. Here' = Place(1, 0, 0)
    BY <1>1, <1>2, <1>5 DEF Here
  <2>2. Placed(Here) /\ Placed(Here') /\ ~Earlier(Here', Here)
    BY <1>2, <1>3, <2>1, PlaceIs, EarlierIs
  <2>3. ASSUME NEW s \in Encoding(answer), Earlier(s, Here')
        PROVE  Earlier(s, Here)
    <3>1. s.piece = 0
      BY <1>2, <2>1, <2>3, EncodingPlaced, EarlierIs
    <3>2. s.off = 0 /\ s.i \in 0..HeadWrites
      BY <3>1, EncodingPlaces
    <3> QED BY <1>2, <1>3, <1>5, <3>1, <3>2, EncodingPlaced, EarlierIs
  <2>4. UNCHANGED <<answer, closed, wire, cut>>
    BY <1>1, <1>5 DEF socketVars
  <2> QED BY <2>2, <2>3, <2>4, WireStill
<1> QED BY <1>4, <1>5 DEF SendHeader

\* Unless something was cut, the chunk being written is one of the encoding.
LEMMA ChunkOfEncoding ==
  ASSUME TypeOK, ChunkInv, Sending, ~cut
  PROVE  /\ off \in Offsets(Piece)
         /\ Size(piece, off, chunk) \in Encoding(answer)
         /\ LineEnd(piece, off, chunk) \in Encoding(answer)
         /\ \A i \in 1..chunk : Data(piece, off, i) \in Encoding(answer)
<1>1. /\ piece \in 1..Len(answer.pieces) /\ piece < LastChunk /\ off \in Nat
      /\ Piece.kind \in {"file", "text", "print"} /\ Piece.length \in Nat
      /\ chunk = ChunkLength(Piece, off)
      /\ Piece.kind = "text" => off = 0
      /\ Piece.kind # "text" => off < Piece.length
  BY ChunkIs DEF TypeOK
<1>2. Piece.kind # "text" => Multiple(off) \/ off >= Piece.length
  BY <1>1 DEF ChunkInv
<1>3. Piece.kind # "text" => Multiple(off)
  BY <1>1, <1>2
<1>4. off \in Offsets(Piece)
  BY <1>1, <1>3, OffsetsAre
<1>5. Chunk(piece, off, chunk) \subseteq Encoding(answer)
  BY <1>1, <1>4, InEncoding DEF Piece
<1>6. /\ Size(piece, off, chunk) \in Chunk(piece, off, chunk)
      /\ LineEnd(piece, off, chunk) \in Chunk(piece, off, chunk)
      /\ \A i \in 1..chunk : Data(piece, off, i) \in Chunk(piece, off, chunk)
  BY DEF Chunk
<1> QED BY <1>4, <1>5, <1>6

\* What else of the encoding has its place.
LEMMA SymbolOfChunk ==
  ASSUME TypeOK, ChunkInv, Sending, NEW s \in Encoding(answer), s.piece = piece, s.off = off
  PROVE  /\ s.i \in 0..(chunk + 1)
         /\ s.i = 0 => s = Size(piece, off, chunk)
         /\ s.i \in 1..chunk => s = Data(piece, off, s.i)
         /\ s.i = chunk + 1 => s = LineEnd(piece, off, chunk)
<1>1. piece \in 1..Len(answer.pieces) /\ chunk = ChunkLength(answer.pieces[piece], off)
  BY ChunkIs DEF Piece
<1>2. IsChunkSymbol(s, piece, off, chunk)
  BY <1>1, EncodingPlaces
<1> QED BY <1>2 DEF IsChunkSymbol

LEMMA WireNextChunk ==
  ASSUME TypeOK, ChunkInv, WireInv, NextChunk \/ EndBody
  PROVE  WireInv'
<1>1. /\ pc = "body" /\ UNCHANGED <<answer, piece, off, closed, wire, cut>>
      /\ piece \in Nat /\ off \in Nat /\ LastChunk \in Nat
  BY AnswerTypes DEF NextChunk, EndBody, socketVars, responseVars, TypeOK, LastChunk
<1>2. Here = Place(piece, off, 0)
  BY <1>1 DEF Here
<1>3. Here' = Place(piece, off, 0)
  <2>1. CASE NextChunk
    BY <1>1, <2>1 DEF NextChunk, Here
  <2>2. CASE EndBody
    <3>1. piece = LastChunk /\ off = 0 /\ pc' = "endSize"
      BY <1>1, <2>2, AnswerTypes DEF EndBody, MorePieces, ChunkInv, LastChunk
    <3>2. LastChunk' = LastChunk
      BY <1>1 DEF LastChunk
    <3> QED BY <3>1, <3>2 DEF Here
  <2> QED BY <2>1, <2>2
<1>4. Placed(Here) /\ ~Earlier(Here, Here)
  BY <1>1, <1>2, PlaceIs, EarlierIs
<1> QED BY <1>1, <1>2, <1>3, <1>4, WireStill

\* The worker leaves a piece with an open socket only when there is no chunk left.
LEMMA WireNextPiece ==
  ASSUME TypeOK, ChunkInv, WireInv, NextPiece
  PROVE  WireInv'
<1>1. /\ pc = "body" /\ pc' = "body" /\ piece' = piece + 1 /\ off' = 0 /\ ~MoreOfPiece
      /\ UNCHANGED <<answer, closed, wire, cut>>
      /\ piece \in Nat /\ off \in Nat /\ LastChunk \in Nat
  BY AnswerTypes DEF NextPiece, socketVars, TypeOK, LastChunk
<1>2. Here = Place(piece, off, 0) /\ Here' = Place(piece + 1, 0, 0)
  BY <1>1 DEF Here
<1>3. Placed(Here) /\ Placed(Here') /\ ~Earlier(Here', Here)
  BY <1>1, <1>2, PlaceIs, EarlierIs
<1>4. /\ piece \in 1..Len(answer.pieces)
      /\ Piece.kind \in {"file", "text", "print"} /\ Piece.length \in Nat
  BY <1>1, PieceIs, AnswerTypes DEF NextPiece, MorePieces, LastChunk
<1>5. ASSUME ~closed
      PROVE  \A o \in Offsets(Piece) : o < off
  <2>1. /\ Piece.kind = "text" => off # 0
        /\ Piece.kind # "text" => off >= Piece.length
    <3>1. CASE Piece.kind = "text"
      BY <1>1, <3>1 DEF MoreOfPiece
    <3>2. CASE Piece.kind = "file"
      BY <1>1, <1>4, <1>5, <3>2 DEF MoreOfPiece
    <3>3. CASE Piece.kind = "print"
      BY <1>1, <1>4, <3>3 DEF MoreOfPiece
    <3> QED BY <1>4, <3>1, <3>2, <3>3
  <2> QED BY <1>1, <1>4, <2>1, OffsetsAre
<1>6. ASSUME ~closed, NEW s \in Encoding(answer), Earlier(s, Here')
      PROVE  Earlier(s, Here)
  <2>1. s.piece \in Nat /\ s.off \in Nat /\ s.i \in Nat /\ Placed(s)
    BY EncodingPlaced
  <2>2. s.piece <= piece
    BY <1>1, <1>2, <1>6, <2>1, EarlierIs
  <2>3. s.piece = piece => s.off < off
    BY <1>4, <1>5, <1>6, EncodingPlaces DEF Piece
  <2> QED BY <1>1, <1>2, <2>1, <2>2, <2>3, EarlierIs
<1> QED BY <1>1, <1>3, <1>6, WireStill

LEMMA WireChunkSize ==
  ASSUME TypeOK, ChunkInv, WireInv, ChunkSize
  PROVE  WireInv'
<1> DEFINE b == Size(piece, off, chunk)
<1>1. /\ pc = "size" /\ pc' = "data" /\ UNCHANGED <<answer, piece, off, chunk>>
      /\ WriteToSocket(<<b>>) /\ Sending
  BY DEF ChunkSize, responseVars, Sending
<1>2. piece \in Nat /\ off \in Nat /\ chunk \in Nat
  BY DEF TypeOK
<1>3. Here = Place(piece, off, 0) /\ Here' = Place(piece, off, 1)
  BY <1>1 DEF Here
<1>4. Placed(Here) /\ Placed(Here') /\ ~Earlier(Here', Here)
  BY <1>2, <1>3, PlaceIs, EarlierIs
<1>5. /\ b \in Symbols /\ b.piece = piece /\ b.off = off /\ b.i = 0
      /\ ~cut => b \in Encoding(answer)
  BY <1>1, <1>2, SizeIs, ChunkOfEncoding
<1> HIDE DEF b
<1>6. ~Earlier(b, Here) /\ Earlier(b, Here')
  BY <1>2, <1>3, <1>5, SymbolsPlaced, EarlierIs
<1>7. ASSUME NEW s \in Encoding(answer), Earlier(s, Here'), ~Earlier(s, Here)
      PROVE  s = b
  <2>1. s.piece = piece /\ s.off = off /\ s.i = 0
    BY <1>2, <1>3, <1>7, EncodingPlaced, EarlierIs
  <2> QED BY <1>1, <2>1, SymbolOfChunk DEF b
<1> QED BY <1>1, <1>4, <1>5, <1>6, <1>7, WireWriteOne

LEMMA WireChunkData ==
  ASSUME TypeOK, ChunkInv, WireInv, ChunkData
  PROVE  WireInv'
<1> DEFINE b == Bytes(piece, off, chunk)
<1>1. /\ pc = "data" /\ pc' = "lineEnd" /\ UNCHANGED <<answer, piece, off, chunk>>
      /\ WriteToSocket(b) /\ Sending
  BY DEF ChunkData, Sending
<1>2. piece \in Nat /\ off \in Nat /\ chunk \in Nat
  BY DEF TypeOK
<1>3. Here = Place(piece, off, 1) /\ Here' = Place(piece, off, chunk + 1)
  BY <1>1 DEF Here
<1>4. Placed(Here) /\ Placed(Here') /\ ~Earlier(Here', Here)
  BY <1>2, <1>3, PlaceIs, EarlierIs
<1>5. /\ b \in Seq(Symbols) /\ Len(b) = chunk /\ Sorted(b)
      /\ \A i \in 1..chunk : b[i] = Data(piece, off, i)
  BY <1>2, BytesAre
<1> HIDE DEF b
<1>6. ASSUME ~cut, NEW i \in 1..Len(b)
      PROVE  b[i] \in Encoding(answer) /\ ~Earlier(b[i], Here) /\ Earlier(b[i], Here')
  <2>1. b[i] = Data(piece, off, i) /\ i \in 1..chunk /\ i \in Nat
    BY <1>2, <1>5
  <2>2. b[i] \in Encoding(answer)
    BY <1>1, <1>6, <2>1, ChunkOfEncoding
  <2>3. b[i] \in Symbols /\ b[i].piece = piece /\ b[i].off = off /\ b[i].i = i
    BY <1>2, <2>1, DataIs
  <2> QED BY <1>2, <1>3, <2>1, <2>2, <2>3, SymbolsPlaced, EarlierIs
<1>7. ASSUME NEW s \in Encoding(answer), Earlier(s, Here'), ~Earlier(s, Here)
      PROVE  On(b, s)
  <2>1. s.piece = piece /\ s.off = off /\ s.i \in 1..chunk
    BY <1>2, <1>3, <1>7, EncodingPlaced, EarlierIs
  <2>2. s = Data(piece, off, s.i)
    BY <1>1, <2>1, SymbolOfChunk
  <2>3. s.i \in 1..Len(b) /\ b[s.i] = s
    BY <1>5, <2>1, <2>2
  <2> QED BY <2>3 DEF On
<1> QED BY <1>1, <1>4, <1>5, <1>6, <1>7, WireWrite

\* Nothing of the encoding lies between the end of a chunk and where the piece goes on.
LEMMA WireChunkEnd ==
  ASSUME TypeOK, ChunkInv, WireInv, ChunkEnd
  PROVE  WireInv'
<1> DEFINE b == LineEnd(piece, off, chunk)
<1>1. /\ pc = "lineEnd" /\ pc' = "body" /\ UNCHANGED <<answer, piece>>
      /\ WriteToSocket(<<b>>) /\ Sending
  BY DEF ChunkEnd, Sending
<1>2. piece \in Nat /\ off \in Nat /\ chunk \in Nat /\ off' \in Nat /\ sent \in Nat /\ MaxWrite \in Nat \ {0}
  BY AdvanceIs, SizesAssumption DEF TypeOK
<1>3. Here = Place(piece, off, chunk + 1) /\ Here' = Place(piece, off', 0)
  BY <1>1 DEF Here
<1>4. /\ piece \in 1..Len(answer.pieces) /\ chunk <= Piece.length - off
      /\ Piece.kind \in {"file", "text", "print"} /\ Piece.length \in Nat
      /\ Piece.kind = "text" => off = 0
      /\ Piece.kind # "text" => /\ off < Piece.length /\ 0 < chunk /\ chunk <= MaxWrite
                                /\ chunk = MaxWrite \/ chunk = Piece.length - off
  BY <1>1, ChunkIs
<1>5. sent <= chunk
  BY <1>1, <1>2 DEF ChunkInv
<1>6. Piece.kind = "text" => off' = chunk + 1
  BY AdvanceIs
<1>7. ASSUME ~cut'
      PROVE  Piece.kind # "text" => Multiple(off') \/ off' >= Piece.length
  BY <1>7, AdvanceIs
<1>8. ASSUME ~cut', ~closed'
      PROVE  off < off'
  BY <1>2, <1>4, <1>8, AdvanceIs
<1>9. /\ b \in Symbols /\ b.piece = piece /\ b.off = off
      /\ b.i = chunk + 1 /\ chunk + 1 \in Nat
  <2>1. b \in Symbols
    BY <1>2, LineEndIs
  <2>2. b.i = chunk + 1
    BY LineEndBehind
  <2>3. b.piece = piece /\ b.off = off
    BY <1>2, LineEndIs
  <2>4. chunk + 1 \in Nat
    BY <1>2
  <2> QED BY <2>1, <2>2, <2>3, <2>4
<1>10. ~cut => b \in Encoding(answer)
  BY <1>1, ChunkOfEncoding
<1> HIDE DEF b
<1>11. ASSUME ~cut', ~closed'
       PROVE  /\ Placed(Here) /\ Placed(Here') /\ ~Earlier(Here', Here)
              /\ ~Earlier(b, Here) /\ Earlier(b, Here')
  <2>1. off < off'
    BY <1>8, <1>11
  <2>2. Placed(Here) /\ Placed(Here')
    BY <1>2, <1>3, <1>9, PlaceIs
  <2>3. ~Earlier(Here', Here)
    BY <1>2, <1>3, <1>9, <2>1, PlaceIs DEF Earlier
  <2>4. Placed(b)
    BY <1>9, SymbolsPlaced
  <2>5. ~Earlier(b, Here)
    BY <1>2, <1>3, <1>9, <2>4, EarlierIs
  <2>6. Earlier(b, Here')
    BY <1>2, <1>3, <1>9, <2>1, <2>4, EarlierIs
  <2> QED BY <2>2, <2>3, <2>5, <2>6
<1>12. ASSUME ~cut, ~cut', ~closed', NEW s \in Encoding(answer), Earlier(s, Here'), ~Earlier(s, Here)
       PROVE  s = b
  <2>1. /\ Placed(s) /\ s.piece \in Nat /\ s.off \in Nat /\ s.i \in Nat
        /\ s.piece = piece /\ s.off < off'
        /\ off <= s.off /\ (s.off = off => s.i >= chunk + 1)
    BY <1>2, <1>3, <1>12, EncodingPlaced, EarlierIs
  <2>2. s.off \in Offsets(Piece)
    BY <1>4, <1>12, <2>1, EncodingPlaces DEF Piece
  <2>3. s.off = off
    <3>1. CASE Piece.kind = "text"
      BY <1>4, <2>2, <3>1, OffsetsAre
    <3>2. CASE Piece.kind # "text"
      <4>1. s.off < Piece.length /\ Multiple(s.off)
        BY <1>4, <2>2, <3>2, OffsetsAre
      <4>2. Multiple(off)
        BY <1>1, <1>4, <1>12, <3>2, ChunkOfEncoding, OffsetsAre
      <4>3. off < s.off => off + MaxWrite <= s.off
        BY <1>2, <2>1, <4>1, <4>2, Multiples
      <4>4. off' <= off + MaxWrite
        <5>1. off' = off + sent \/ off' = off + MaxWrite
          BY <1>4, <3>2, AdvanceIs
        <5> QED BY <1>2, <1>4, <1>5, <3>2, <5>1
      <4> QED BY <1>2, <2>1, <4>3, <4>4
    <3> QED BY <3>1, <3>2
  <2>4. s.i = chunk + 1
    BY <1>1, <1>2, <1>12, <2>1, <2>3, SymbolOfChunk
  <2> QED BY <1>1, <1>12, <2>1, <2>3, <2>4, SymbolOfChunk DEF b
<1> QED BY <1>1, <1>9, <1>10, <1>11, <1>12, WireWriteOne

LEMMA WireEnd ==
  ASSUME TypeOK, ChunkInv, WireInv, EndSize \/ EndLine
  PROVE  WireInv'
<1>1. /\ answer' = answer /\ LastChunk \in Nat
      /\ LastChunk' = LastChunk
  BY SymbolsOfWrites DEF EndSize, EndLine, responseVars, LastChunk
<1>2. ASSUME NEW s \in Encoding(answer), ~Earlier(s, Place(LastChunk, 0, 0))
      PROVE  /\ s.i \in 0..1
             /\ s.i = 0 => s = Size(LastChunk, 0, 0)
             /\ s.i = 1 => s = LineEnd(LastChunk, 0, 0)
  <2>1. s.piece = LastChunk
    BY <1>1, <1>2, EncodingPlaced, EarlierIs
  <2>2. IsChunkSymbol(s, LastChunk, 0, 0)
    BY <2>1, EncodingPlaces
  <2> QED BY <2>2 DEF IsChunkSymbol
<1>3. CASE EndSize
  <2> DEFINE b == Size(LastChunk, 0, 0)
  <2>1. WriteToSocket(<<b>>)
    BY <1>3 DEF EndSize
  <2>2. Here = Place(LastChunk, 0, 0) /\ Here' = Place(LastChunk, 0, 1)
    BY <1>1, <1>3 DEF EndSize, Here
  <2>3. b \in Encoding(answer) /\ b \in Symbols /\ b.piece = LastChunk /\ b.off = 0 /\ b.i = 0
    BY <1>1, SizeIs, InEncoding DEF Chunk
  <2> HIDE DEF b
  <2>4. /\ Placed(Here) /\ Placed(Here') /\ ~Earlier(Here', Here)
        /\ ~Earlier(b, Here) /\ Earlier(b, Here')
    BY <1>1, <2>2, <2>3, PlaceIs, SymbolsPlaced, EarlierIs
  <2>5. ASSUME NEW s \in Encoding(answer), Earlier(s, Here'), ~Earlier(s, Here)
        PROVE  s = b
    <3>1. s.i = 0
      BY <1>1, <2>2, <2>5, EncodingPlaced, EarlierIs
    <3> QED BY <1>2, <2>2, <2>5, <3>1 DEF b
  <2> QED BY <1>1, <2>1, <2>3, <2>4, <2>5, WireWriteOne
<1>4. CASE EndLine
  <2> DEFINE b == LineEnd(LastChunk, 0, 0)
  <2>1. WriteToSocket(<<b>>)
    BY <1>4 DEF EndLine
  <2>2. Here = Place(LastChunk, 0, 1) /\ Here' = Place(LastChunk, 0, 2)
    BY <1>1, <1>4 DEF EndLine, Here
  <2>3. b \in Encoding(answer) /\ b \in Symbols /\ b.piece = LastChunk /\ b.off = 0 /\ b.i = 1
    <3>1. b \in Symbols /\ b.piece = LastChunk /\ b.off = 0
      BY <1>1, LineEndIs
    <3>2. b.i = 1
      <4>1. b.i = 0 + 1
        BY LineEndBehind, Zenon
      <4> QED BY <4>1
    <3>3. b \in Encoding(answer)
      BY InEncoding DEF Chunk
    <3> QED BY <3>1, <3>2, <3>3
  <2> HIDE DEF b
  <2>4. /\ Placed(Here) /\ Placed(Here') /\ ~Earlier(Here', Here)
        /\ ~Earlier(b, Here) /\ Earlier(b, Here')
    BY <1>1, <2>2, <2>3, PlaceIs, SymbolsPlaced, EarlierIs
  <2>5. ASSUME NEW s \in Encoding(answer), Earlier(s, Here'), ~Earlier(s, Here)
        PROVE  s = b
    <3>1. ~Earlier(s, Place(LastChunk, 0, 0)) /\ s.i # 0
      BY <1>1, <2>2, <2>5, EncodingPlaced, EarlierIs
    <3>2. s.i = 1
      BY <1>2, <2>5, <3>1
    <3> QED BY <1>2, <2>5, <3>1, <3>2 DEF b
  <2> QED BY <1>1, <2>1, <2>3, <2>4, <2>5, WireWriteOne
<1> QED BY <1>3, <1>4

LEMMA WireStep ==
  ASSUME TypeOK, ChunkInv, WireInv, [Next]_vars
  PROVE  WireInv'
<1>1. CASE Drain \/ Leave \/ UNCHANGED vars
  <2>1. UNCHANGED <<pc, answer, piece, off, chunk, closed, wire, cut>>
    BY <1>1 DEF Drain, Leave, vars, responseVars, socketVars
  <2>2. Here' = Here
    BY <2>1 DEF Here, LastChunk
  <2> QED BY <2>1, <2>2 DEF WireInv
<1> QED BY <1>1, WireSendStatus, WireSendHeader, WireNextChunk, WireNextPiece, WireChunkSize,
           WireChunkData, WireChunkEnd, WireEnd DEF Next, WorkerStep

-----------------------------------------------------------------------------
(* The response: no step loses a byte of a file. *)

\* What a write of something else than data leaves.
LEMMA OtherSymbol ==
  ASSUME NEW w \in Seq(Symbols), NEW s \in Symbols, s.kind # "data", NEW c, c = w \o <<s>>, NEW a
  PROVE  /\ Tidy(w, a) => Tidy(c, a)
         /\ \A p : Reached(w, a, p) => Reached(c, a, p)
         /\ Complete(w, a) => Complete(c, a)
         /\ Finished(c) => Finished(w) \/ (s.kind = "size" /\ s.n = 0)
<1>1. /\ Len(c) = Len(w) + 1 /\ Len(w) \in Nat /\ c[Len(w) + 1] = s
      /\ \A j \in 1..Len(w) : c[j] = w[j]
  BY AppendProperties, Append(w, s) = w \o <<s>>
<1>2. BodyOf(c) = BodyOf(w) /\ \A j \in BodyOf(w) : c[j] = w[j]
  <2>1. ASSUME NEW j \in BodyOf(c)
        PROVE  j \in BodyOf(w)
    <3>1. j \in 1..Len(c) /\ c[j].kind = "data"
      BY DEF BodyOf
    <3>2. j # Len(w) + 1
      BY <1>1, <3>1
    <3>3. j \in 1..Len(w)
      BY <1>1, <3>1, <3>2
    <3> QED BY <1>1, <3>1, <3>3 DEF BodyOf
  <2>2. ASSUME NEW j \in BodyOf(w)
        PROVE  j \in BodyOf(c) /\ c[j] = w[j]
    <3>1. j \in 1..Len(w) /\ w[j].kind = "data"
      BY DEF BodyOf
    <3>2. j \in 1..Len(c) /\ c[j] = w[j]
      BY <1>1, <3>1
    <3> QED BY <3>1, <3>2 DEF BodyOf
  <2> QED BY <2>1, <2>2
<1>3. \A k, b : Shows(w, k, b) => Shows(c, k, b)
  BY <1>2 DEF Shows
<1>4. Tidy(w, a) => Tidy(c, a)
  BY <1>2, <1>3, Zenon DEF Tidy
<1>5. \A p : Reached(w, a, p) => Reached(c, a, p)
  BY <1>2, <1>3, Zenon DEF Reached
<1>6. Complete(w, a) => Complete(c, a)
  BY <1>3 DEF Complete
<1>7. Finished(c) => Finished(w) \/ (s.kind = "size" /\ s.n = 0)
  <2> SUFFICES ASSUME NEW j \in 1..Len(c), c[j].kind = "size" /\ c[j].n = 0
               PROVE  Finished(w) \/ (s.kind = "size" /\ s.n = 0)
    BY DEF Finished
  <2>1. CASE j = Len(w) + 1
    BY <1>1, <2>1
  <2>2. CASE j # Len(w) + 1
    <3>1. j \in 1..Len(w) /\ w[j] = c[j]
      BY <1>1, <2>2
    <3> QED BY <3>1 DEF Finished
  <2> QED BY <2>1, <2>2
<1> QED BY <1>4, <1>5, <1>6, <1>7

\* n of m bytes of piece k, from o on, behind w.
Sends(w, a, k, o, m, n, c) ==
  /\ w \in Seq(Symbols) /\ o \in Nat /\ m \in Nat /\ n \in 0..m
  /\ Len(a.pieces) \in Nat /\ k \in 1..Len(a.pieces)
  /\ a.pieces[k].length \in Nat /\ o + m <= a.pieces[k].length
  /\ Tidy(w, a) /\ Reached(w, a, Mark(k, o))
  /\ c = w \o SubSeq(Bytes(k, o, m), 1, n)

LEMMA MoreBytes ==
  ASSUME NEW w, NEW a, NEW k, NEW o, NEW m, NEW n, NEW c, Sends(w, a, k, o, m, n, c)
  PROVE  /\ Tidy(c, a) /\ Reached(c, a, Mark(k, o + n))
         /\ Complete(w, a) => Complete(c, a)
         /\ Finished(c) => Finished(w)
<1> SUFFICES ASSUME w \in Seq(Symbols), k \in Nat, o \in Nat, m \in Nat, n \in 0..m,
                    Len(a.pieces) \in Nat, k \in 1..Len(a.pieces), a.pieces[k].length \in Nat,
                    o + m <= a.pieces[k].length, Tidy(w, a), Reached(w, a, Mark(k, o)),
                    c = w \o SubSeq(Bytes(k, o, m), 1, n)
             PROVE  /\ Tidy(c, a) /\ Reached(c, a, Mark(k, o + n))
                    /\ Complete(w, a) => Complete(c, a)
                    /\ Finished(c) => Finished(w)
  BY DEF Sends
<1> DEFINE d == SubSeq(Bytes(k, o, m), 1, n)
           L == Len(w)
<1>1. d \in Seq(Symbols) /\ Len(d) = n /\ \A i \in 1..n : d[i] = Data(k, o, i)
  <2> DEFINE e == Bytes(k, o, m)
  <2>1. e \in Seq(Symbols) /\ Len(e) = m /\ \A i \in 1..m : e[i] = Data(k, o, i)
    BY BytesAre
  <2> HIDE DEF e
  <2>2. /\ SubSeq(e, 1, n) \in Seq(Symbols) /\ Len(SubSeq(e, 1, n)) = n
        /\ \A i \in 1..n : SubSeq(e, 1, n)[i] = e[i]
    BY <2>1, SubSeqProperties
  <2>3. \A i \in 1..n : i \in 1..m
    OBVIOUS
  <2> QED BY <2>1, <2>2, <2>3 DEF e
<1> HIDE DEF d
<1>2. c = w \o d
  BY DEF d
<1>3. /\ L \in Nat /\ Len(c) = L + n
      /\ \A j \in 1..L : j \in 1..Len(c) /\ c[j] = w[j]
      /\ \A i \in 1..n : L + i \in 1..Len(c) /\ c[L + i] = d[i]
  <2>1. Len(c) = L + n /\ L \in Nat /\ \A j \in 1..Len(c) : c[j] = IF j <= L THEN w[j] ELSE d[j - L]
    BY <1>1, <1>2, ConcatProperties
  <2> HIDE DEF L
  <2>2. ASSUME NEW i \in 1..n
        PROVE  L + i \in 1..Len(c) /\ c[L + i] = d[i]
    <3>1. L + i \in 1..Len(c) /\ ~(L + i <= L) /\ (L + i) - L = i
      BY <2>1
    <3> QED BY <2>1, <3>1
  <2>3. ASSUME NEW j \in 1..L
        PROVE  j \in 1..Len(c) /\ c[j] = w[j]
    BY <2>1
  <2> QED BY <2>1, <2>2, <2>3
<1> HIDE DEF L
<1>4. ASSUME NEW j \in BodyOf(w)
      PROVE  j \in BodyOf(c) /\ c[j] = w[j] /\ j \in 1..L
  BY <1>3 DEF BodyOf, L
<1>5. ASSUME NEW i \in 1..n
      PROVE  /\ L + i \in BodyOf(c) /\ c[L + i].kind = "data"
             /\ c[L + i].piece = k /\ At(c[L + i]) = o + i - 1
  <2>1. c[L + i] = Data(k, o, i) /\ L + i \in 1..Len(c) /\ i \in Nat
    <3>1. c[L + i] = d[i] /\ d[i] = Data(k, o, i) /\ L + i \in 1..Len(c)
      BY <1>1, <1>3
    <3>2. i \in Nat
      OBVIOUS
    <3> QED BY <3>1, <3>2
  <2>2. /\ Data(k, o, i).kind = "data" /\ Data(k, o, i).piece = k
        /\ Data(k, o, i).off = o /\ Data(k, o, i).i = i
    BY <2>1, DataIs
  <2> QED BY <2>1, <2>2 DEF BodyOf, At
<1>6. ASSUME NEW j \in BodyOf(c)
      PROVE  j \in BodyOf(w) \/ \E i \in 1..n : j = L + i
  <2>1. j \in 1..Len(c) /\ c[j].kind = "data"
    BY DEF BodyOf
  <2>2. CASE j <= L
    <3>1. j \in 1..L /\ c[j] = w[j]
      BY <1>3, <2>1, <2>2
    <3> QED BY <2>1, <3>1 DEF BodyOf, L
  <2>3. CASE j > L
    <3>1. j - L \in 1..n /\ j = L + (j - L)
      BY <1>3, <2>1, <2>3
    <3> QED BY <3>1
  <2> QED BY <1>3, <2>1, <2>2, <2>3
<1>7. \A x, b : Shows(w, x, b) => Shows(c, x, b)
  BY <1>4 DEF Shows
<1>8. /\ \A j \in BodyOf(w) : IsByte(a, w[j].piece, At(w[j]))
      /\ \A j \in BodyOf(w) : Passed(w[j].piece, At(w[j]), Mark(k, o))
  BY DEF Tidy, Reached
<1>9. /\ \A x, b, y : Passed(x, b, Mark(k, y)) <=> x < k \/ (x = k /\ b < y)
      /\ \A x, b : IsByte(a, x, b) => x \in Nat /\ b \in Nat
  BY DEF Passed, Mark, IsByte
\* Every byte before the new place is shown.
<1>10. ASSUME NEW x, NEW b, IsByte(a, x, b), Passed(x, b, Mark(k, o + n))
       PROVE  Shows(c, x, b)
  <2>1. x \in Nat /\ b \in Nat
    BY <1>9, <1>10
  <2>2. CASE Passed(x, b, Mark(k, o))
    BY <1>7, <1>10, <2>2 DEF Reached
  <2>3. CASE ~Passed(x, b, Mark(k, o))
    <3>1. x = k /\ o <= b /\ b < o + n
      BY <1>9, <1>10, <2>1, <2>3
    <3>2. b - o + 1 \in 1..n /\ o + (b - o + 1) - 1 = b
      BY <2>1, <3>1
    <3> DEFINE i == b - o + 1
    <3> HIDE DEF i
    <3>3. i \in 1..n /\ o + i - 1 = b
      BY <2>1, <3>1 DEF i
    <3> QED BY <1>5, <3>1, <3>3 DEF Shows
  <2> QED BY <2>2, <2>3
<1>11. ASSUME NEW j \in BodyOf(c)
       PROVE  /\ IsByte(a, c[j].piece, At(c[j]))
              /\ Passed(c[j].piece, At(c[j]), Mark(k, o + n))
  <2>1. CASE j \in BodyOf(w)
    <3>1. c[j] = w[j] /\ IsByte(a, w[j].piece, At(w[j])) /\ Passed(w[j].piece, At(w[j]), Mark(k, o))
      BY <1>4, <1>8, <2>1
    <3>2. w[j].piece \in Nat /\ At(w[j]) \in Nat
      BY <1>9, <3>1
    <3>3. Passed(w[j].piece, At(w[j]), Mark(k, o + n))
      BY <1>9, <3>1, <3>2
    <3> QED BY <3>1, <3>3
  <2>2. ASSUME NEW i \in 1..n, j = L + i
        PROVE  /\ IsByte(a, c[j].piece, At(c[j]))
               /\ Passed(c[j].piece, At(c[j]), Mark(k, o + n))
    <3>1. c[j].piece = k /\ At(c[j]) = o + i - 1
      BY <1>5, <2>2
    <3>2. o + i - 1 \in 0..(a.pieces[k].length - 1) /\ o + i - 1 < o + n
      OBVIOUS
    <3> QED BY <1>9, <3>1, <3>2 DEF IsByte
  <2> QED BY <1>6, <2>1, <2>2
<1>12. Reached(c, a, Mark(k, o + n))
  BY <1>10, <1>11 DEF Reached
<1>13. ASSUME NEW j \in BodyOf(c), NEW h \in BodyOf(c), j < h
       PROVE  Before(c[j].piece, At(c[j]), c[h])
  <2>1. CASE h \in BodyOf(w)
    <3>1. h \in 1..L /\ c[h] = w[h]
      BY <1>4, <2>1
    <3>2. j \in BodyOf(w)
      <4>1. ASSUME NEW i \in 1..n, j = L + i
            PROVE  FALSE
        BY <1>3, <1>13, <3>1, <4>1
      <4> QED BY <1>6, <4>1
    <3> QED BY <1>4, <1>13, <2>1, <3>1, <3>2 DEF Tidy
  <2>2. ASSUME NEW i \in 1..n, h = L + i
        PROVE  Before(c[j].piece, At(c[j]), c[h])
    <3>1. c[h].piece = k /\ At(c[h]) = o + i - 1
      BY <1>5, <2>2
    <3>2. CASE j \in BodyOf(w)
      <4>1. c[j] = w[j] /\ IsByte(a, w[j].piece, At(w[j])) /\ Passed(w[j].piece, At(w[j]), Mark(k, o))
        BY <1>4, <1>8, <3>2
      <4>2. w[j].piece \in Nat /\ At(w[j]) \in Nat
        BY <1>9, <4>1
      <4>3. w[j].piece < k \/ (w[j].piece = k /\ At(w[j]) < o + i - 1)
        <5>1. w[j].piece < k \/ (w[j].piece = k /\ At(w[j]) < o)
          BY <1>9, <4>1
        <5> QED BY <4>2, <5>1
      <4> QED BY <3>1, <4>1, <4>3 DEF Before
    <3>3. ASSUME NEW g \in 1..n, j = L + g
          PROVE  Before(c[j].piece, At(c[j]), c[h])
      <4>1. c[j].piece = k /\ At(c[j]) = o + g - 1
        BY <1>5, <3>3
      <4>2. g < i
        BY <1>3, <1>13, <2>2, <3>3
      <4>3. o + g - 1 < o + i - 1
        BY <4>2
      <4> QED BY <3>1, <4>1, <4>3 DEF Before
    <3> QED BY <1>6, <3>2, <3>3
  <2> QED BY <1>6, <2>1, <2>2
<1>14. ASSUME NEW j \in BodyOf(c), NEW x, NEW b, IsByte(a, x, b), Before(x, b, c[j])
       PROVE  Shows(c, x, b)
  <2>1. Passed(c[j].piece, At(c[j]), Mark(k, o + n)) /\ IsByte(a, c[j].piece, At(c[j]))
    BY <1>11
  <2>2. x \in Nat /\ b \in Nat /\ c[j].piece \in Nat /\ At(c[j]) \in Nat
    BY <1>9, <1>14, <2>1
  <2>3. Passed(x, b, Mark(k, o + n))
    <3>1. x < c[j].piece \/ (x = c[j].piece /\ b < At(c[j]))
      BY <1>14 DEF Before
    <3>2. c[j].piece < k \/ (c[j].piece = k /\ At(c[j]) < o + n)
      BY <1>9, <2>1
    <3> DEFINE u == c[j].piece
               v == At(c[j])
    <3>4. u \in Nat /\ v \in Nat /\ (x < u \/ (x = u /\ b < v)) /\ (u < k \/ (u = k /\ v < o + n))
      BY <2>2, <3>1, <3>2
    <3> HIDE DEF u, v
    <3>3. x < k \/ (x = k /\ b < o + n)
      BY <2>2, <3>4
    <3> QED BY <1>9, <3>3
  <2> QED BY <1>10, <1>14, <2>3
<1>15. Tidy(c, a)
  BY <1>11, <1>13, <1>14 DEF Tidy
<1>16. Complete(w, a) => Complete(c, a)
  BY <1>7 DEF Complete
<1>17. Finished(c) => Finished(w)
  <2> SUFFICES ASSUME NEW j \in 1..Len(c), c[j].kind = "size" /\ c[j].n = 0
               PROVE  Finished(w)
    BY DEF Finished
  <2>1. CASE j <= L
    <3>1. j \in 1..L /\ c[j] = w[j]
      BY <1>3, <2>1
    <3> QED BY <3>1 DEF Finished, L
  <2>2. CASE j > L
    <3>1. j \in Nat /\ j <= L + n /\ L \in Nat /\ n \in Nat
      BY <1>3
    <3>2. j - L \in 1..n /\ j = L + (j - L)
      BY <2>2, <3>1
    <3>3. PICK i \in 1..n : j = L + i
      BY <3>2
    <3>4. c[j].kind = "data"
      BY <1>5, <3>3
    <3> QED BY <3>4
  <2> QED BY <1>3, <2>1, <2>2
<1> QED BY <1>12, <1>15, <1>16, <1>17

LEMMA FileWriteOne ==
  ASSUME TypeOK, FileInv, NEW s \in Symbols, WriteToSocket(<<s>>), answer' = answer, s.kind # "data",
         IsFile(answer) /\ ~closed /\ Reached(wire, answer, Spot) =>
           /\ Reached(wire, answer, Spot')
           /\ s.kind = "size" /\ s.n = 0 => Complete(wire, answer)
  PROVE  FileInv'
<1> DEFINE b == <<s>>
           p == Spot'
<1>1. b \in Seq(Symbols) /\ Len(b) = 1 /\ b # <<>> /\ WriteToSocket(b)
  BY One
<1>2. FileInv' <=> (IsFile(answer) => /\ Tidy(wire', answer)
                                      /\ ~closed' => Reached(wire', answer, p)
                                      /\ Finished(wire') => Complete(wire', answer))
  BY DEF FileInv
<1>3. IsFile(answer) => /\ Tidy(wire, answer)
                        /\ ~closed => Reached(wire, answer, Spot)
                        /\ Finished(wire) => Complete(wire, answer)
  BY DEF FileInv
<1>4. Written(1) \in 0..1
  BY <1>1, WriteIs
<1>5. CASE Written(1) = 0
  <2>1. wire' = wire /\ closed'
    BY <1>1, <1>5, WriteIs
  <2> HIDE DEF p
  <2> QED BY <1>2, <1>3, <2>1
<1>6. CASE Written(1) = 1
  <2>1. wire' = wire \o <<s>> /\ ~closed
    <3>1. Written(Len(b)) = Len(b) /\ Written(Len(b)) # 0
      BY <1>1, <1>6
    <3> HIDE DEF b
    <3>2. wire' = wire \o b /\ ~closed
      BY <1>1, <3>1, WriteIs
    <3> QED BY <3>2 DEF b
  <2>2. wire \in Seq(Symbols)
    BY DEF TypeOK
  <2>3. /\ Tidy(wire, answer) => Tidy(wire', answer)
        /\ Reached(wire, answer, p) => Reached(wire', answer, p)
        /\ Complete(wire, answer) => Complete(wire', answer)
        /\ Finished(wire') => Finished(wire) \/ (s.kind = "size" /\ s.n = 0)
    BY <2>1, <2>2, OtherSymbol
  <2>4. IsFile(answer) => /\ Reached(wire, answer, p)
                          /\ s.kind = "size" /\ s.n = 0 => Complete(wire, answer)
    BY <1>3, <2>1
  <2> HIDE DEF p
  <2> QED BY <1>2, <1>3, <2>3, <2>4
<1> QED BY <1>4, <1>5, <1>6

LEMMA FileStill ==
  ASSUME FileInv, UNCHANGED <<answer, closed, wire>>,
         IsFile(answer) /\ ~closed /\ Reached(wire, answer, Spot) => Reached(wire, answer, Spot')
  PROVE  FileInv'
<1> DEFINE p == Spot'
<1>1. FileInv' <=> (IsFile(answer) => /\ Tidy(wire, answer)
                                      /\ ~closed => Reached(wire, answer, p)
                                      /\ Finished(wire) => Complete(wire, answer))
  BY DEF FileInv
<1> QED BY <1>1 DEF FileInv

LEMMA FileKinds ==
  ASSUME TypeOK, IsFile(answer), NEW k \in 1..Len(answer.pieces)
  PROVE  answer.pieces[k].kind = "file" /\ answer.pieces[k].length \in Nat
BY AnswerTypes DEF IsFile

LEMMA FileStep ==
  ASSUME TypeOK, ChunkInv, FileInv, [Next]_vars
  PROVE  FileInv'
<1>1. /\ piece \in Nat /\ off \in Nat /\ chunk \in Nat /\ sent \in Nat
      /\ LastChunk \in Nat /\ LastChunk = Len(answer.pieces) + 1 /\ Len(answer.pieces) \in Nat
      /\ answer' = answer => LastChunk' = LastChunk
  BY AnswerTypes DEF LastChunk, TypeOK
<1>2. CASE SendStatus
  <2>1. Spot = Mark(1, 0) /\ Spot' = Mark(1, 0)
    BY <1>2 DEF SendStatus, Spot
  <2> QED BY <1>2, <2>1, StatusIs, FileWriteOne DEF SendStatus
<1>3. CASE SendHeader
  <2>1. pc = "headers" /\ piece = 1 /\ piece' = piece /\ answer' = answer
    BY <1>3 DEF SendHeader, ChunkInv
  <2>2. Spot = Mark(1, 0)
    BY <2>1 DEF Spot
  <2>3. CASE WriteToSocket(<<HeaderPart(off)>>) /\ pc' = pc
    <3>1. Spot' = Mark(1, 0)
      BY <2>1, <2>3 DEF Spot
    <3> QED BY <1>1, <2>1, <2>2, <2>3, <3>1, HeaderIs, FileWriteOne
  <2>4. CASE off' = 0 /\ pc' = "body" /\ UNCHANGED socketVars
    <3>1. Spot' = Mark(1, 0)
      BY <2>1, <2>4 DEF Spot
    <3> QED BY <2>1, <2>2, <2>4, <3>1, FileStill DEF socketVars
  <2> QED BY <1>3, <2>3, <2>4 DEF SendHeader
<1>4. CASE NextChunk
  <2>1. Spot' = Spot
    BY <1>4 DEF NextChunk, Spot
  <2> QED BY <1>4, <2>1, FileStill DEF NextChunk, socketVars
<1>5. CASE NextPiece
  <2>1. /\ pc = "body" /\ pc' = "body" /\ piece' = piece + 1 /\ off' = 0 /\ ~MoreOfPiece
        /\ UNCHANGED <<answer, closed, wire>> /\ piece \in 1..Len(answer.pieces)
    BY <1>1, <1>5 DEF NextPiece, MorePieces, socketVars, ChunkInv
  <2>2. Spot = Mark(piece, off) /\ Spot' = Mark(piece + 1, 0)
    BY <2>1 DEF Spot
  <2>3. ASSUME IsFile(answer), ~closed, Reached(wire, answer, Spot)
        PROVE  Reached(wire, answer, Spot')
    <3>1. Piece.kind = "file" /\ Piece.length \in Nat
      BY <2>1, <2>3, FileKinds DEF Piece
    <3>2. off >= Piece.length
      BY <1>1, <2>1, <2>3, <3>1 DEF MoreOfPiece
    <3>3. \A k, b : k \in Nat /\ b \in Nat /\ Passed(k, b, Mark(piece, off)) => Passed(k, b, Mark(piece + 1, 0))
      BY <1>1 DEF Passed, Mark
    <3>4. ASSUME NEW k, NEW b, IsByte(answer, k, b), Passed(k, b, Mark(piece + 1, 0))
          PROVE  Passed(k, b, Mark(piece, off))
      BY <1>1, <3>1, <3>2, <3>4 DEF Passed, Mark, IsByte, Piece
    <3>5. \A j \in BodyOf(wire) : wire[j].piece \in Nat /\ At(wire[j]) \in Nat
      BY <2>3 DEF FileInv, Tidy, IsByte
    <3> QED BY <2>2, <2>3, <3>3, <3>4, <3>5, Zenon DEF Reached
  <2> QED BY <2>1, <2>3, FileStill
<1>6. CASE EndBody
  <2>1. /\ pc = "body" /\ pc' = "endSize" /\ UNCHANGED <<answer, piece, off, closed, wire>>
        /\ piece = LastChunk
    BY <1>1, <1>6 DEF EndBody, MorePieces, socketVars, responseVars, ChunkInv
  <2>2. off = 0
    BY <2>1 DEF ChunkInv
  <2>3. Spot = Mark(LastChunk, 0) /\ Spot' = Mark(LastChunk, 0)
    BY <1>1, <2>1, <2>2 DEF Spot
  <2> QED BY <2>1, <2>3, FileStill
<1>7. CASE ChunkSize
  <2>1. Spot' = Spot
    BY <1>7 DEF ChunkSize, Spot, responseVars
  <2>2. /\ WriteToSocket(<<Size(piece, off, chunk)>>) /\ answer' = answer
        /\ Size(piece, off, chunk) \in Symbols
        /\ Size(piece, off, chunk).kind = "size" /\ Size(piece, off, chunk).n = chunk
    <3>1. WriteToSocket(<<Size(piece, off, chunk)>>) /\ answer' = answer
      BY <1>7 DEF ChunkSize, responseVars
    <3>2. piece \in Nat /\ off \in Nat /\ chunk \in Nat
      BY <1>1
    <3>3. /\ Size(piece, off, chunk) \in Symbols
          /\ Size(piece, off, chunk).kind = "size" /\ Size(piece, off, chunk).n = chunk
      BY <3>2, SizeIs
    <3> QED BY <3>1, <3>3
  <2>3. IsFile(answer) => chunk # 0
    <3>1. Sending
      BY <1>7 DEF ChunkSize, Sending
    <3>2. piece \in 1..Len(answer.pieces) /\ (Piece.kind # "text" => 0 < chunk)
      BY <3>1, ChunkIs
    <3> QED BY <3>2, FileKinds DEF Piece
  <2> QED BY <2>1, <2>2, <2>3, FileWriteOne
<1>8. CASE ChunkData
  <2> DEFINE b == Bytes(piece, off, chunk)
  <2>1. /\ pc = "data" /\ pc' = "lineEnd" /\ UNCHANGED <<answer, piece, off, chunk>>
        /\ WriteToSocket(b) /\ sent' = Written(chunk) /\ Sending
    BY <1>8 DEF ChunkData, Sending
  <2>2. b \in Seq(Symbols) /\ Len(b) = chunk
    BY <1>1, BytesAre
  <2>3. Spot = Mark(piece, off) /\ Spot' = Mark(piece, off + sent')
    BY <2>1 DEF Spot
  <2> HIDE DEF b
  <2>4. /\ sent' \in 0..chunk /\ wire' = wire \o SubSeq(b, 1, sent')
        /\ closed => sent' = 0 /\ wire' = wire /\ closed'
    BY <2>1, <2>2, WriteIs
  <2>5. FileInv' <=> (IsFile(answer) => /\ Tidy(wire', answer)
                                        /\ ~closed' => Reached(wire', answer, Mark(piece, off + sent'))
                                        /\ Finished(wire') => Complete(wire', answer))
    BY <2>1, <2>3 DEF FileInv
  <2>6. CASE closed
    BY <2>4, <2>5, <2>6 DEF FileInv
  <2>7. CASE ~closed
    <3> SUFFICES ASSUME IsFile(answer)
                 PROVE  /\ Tidy(wire', answer)
                        /\ Reached(wire', answer, Mark(piece, off + sent'))
                        /\ Finished(wire') => Complete(wire', answer)
      BY <2>5
    <3>1. /\ Tidy(wire, answer) /\ Reached(wire, answer, Mark(piece, off))
          /\ Finished(wire) => Complete(wire, answer)
      BY <2>3, <2>7 DEF FileInv
    <3>2. /\ piece \in 1..Len(answer.pieces) /\ answer.pieces[piece].length \in Nat
          /\ off + chunk <= answer.pieces[piece].length
      BY <1>1, <2>1, ChunkIs DEF Piece
    <3>3. wire \in Seq(Symbols)
      BY DEF TypeOK
    <3> DEFINE n == sent'
               c == wire'
    <3>4. n \in 0..chunk /\ c = wire \o SubSeq(Bytes(piece, off, chunk), 1, n)
      BY <2>4 DEF b
    <3> HIDE DEF n, c
    <3>5. /\ Tidy(c, answer) /\ Reached(c, answer, Mark(piece, off + n))
          /\ Complete(wire, answer) => Complete(c, answer)
          /\ Finished(c) => Finished(wire)
      <4>1. piece \in Nat /\ off \in Nat /\ chunk \in Nat /\ Len(answer.pieces) \in Nat
        BY <1>1
      <4>2. Tidy(wire, answer) /\ Reached(wire, answer, Mark(piece, off))
        BY <3>1
      <4>3. Sends(wire, answer, piece, off, chunk, n, c)
        BY <3>2, <3>3, <3>4, <4>1, <4>2 DEF Sends
      <4> QED BY <4>3, MoreBytes
    <3> QED BY <3>1, <3>5 DEF n, c
  <2> QED BY <2>6, <2>7
<1>9. CASE ChunkEnd
  <2>1. /\ pc = "lineEnd" /\ pc' = "body" /\ UNCHANGED <<answer, piece>>
        /\ WriteToSocket(<<LineEnd(piece, off, chunk)>>) /\ Sending
    BY <1>9 DEF ChunkEnd, Sending
  <2>2. LineEnd(piece, off, chunk) \in Symbols
    BY <1>1, LineEndIs
  <2>3. LineEnd(piece, off, chunk).kind = "lineEnd"
    BY <1>1 DEF LineEnd, Symbol
  <2>4. Spot = Mark(piece, off + sent) /\ Spot' = Mark(piece, off')
    BY <2>1 DEF Spot
  <2>5. IsFile(answer) => off' = off + sent
    <3>1. piece \in 1..Len(answer.pieces)
      BY <2>1, ChunkIs
    <3> QED BY <1>9, <3>1, FileKinds, AdvanceIs DEF Piece
  <2> QED BY <2>1, <2>2, <2>3, <2>4, <2>5, FileWriteOne
<1>10. CASE EndSize
  <2>1. /\ pc = "endSize" /\ pc' = "endLine" /\ UNCHANGED <<answer, piece>>
        /\ WriteToSocket(<<Size(LastChunk, 0, 0)>>)
    BY <1>10 DEF EndSize, responseVars
  <2>2. Size(LastChunk, 0, 0) \in Symbols /\ Size(LastChunk, 0, 0).kind = "size"
    BY <1>1, SizeIs
  <2>3. Spot = Mark(LastChunk, 0) /\ Spot' = Mark(LastChunk, 0)
    BY <1>1, <2>1 DEF Spot
  <2>4. Reached(wire, answer, Mark(LastChunk, 0)) => Complete(wire, answer)
    <3>1. ASSUME NEW k, NEW b, IsByte(answer, k, b)
          PROVE  Passed(k, b, Mark(LastChunk, 0))
      BY <1>1, <3>1 DEF IsByte, Passed, Mark
    <3> QED BY <3>1 DEF Reached, Complete
  <2> QED BY <2>1, <2>2, <2>3, <2>4, FileWriteOne
<1>11. CASE EndLine
  <2>1. /\ pc = "endLine" /\ pc' = "done" /\ UNCHANGED <<answer, piece>>
        /\ WriteToSocket(<<LineEnd(LastChunk, 0, 0)>>)
    BY <1>11 DEF EndLine, responseVars
  <2>2. LineEnd(LastChunk, 0, 0) \in Symbols
    BY SymbolsOfWrites
  <2>3. LineEnd(LastChunk, 0, 0).kind = "lineEnd"
    BY DEF LineEnd, Symbol
  <2>4. Spot = Mark(LastChunk, 0) /\ Spot' = Mark(LastChunk, 0)
    BY <1>1, <2>1 DEF Spot
  <2> QED BY <2>1, <2>2, <2>3, <2>4, FileWriteOne
<1>12. CASE Drain \/ Leave \/ UNCHANGED vars
  <2>1. UNCHANGED <<pc, answer, piece, off, sent, closed, wire>>
    BY <1>12 DEF Drain, Leave, vars, responseVars, socketVars
  <2>2. Spot' = Spot
    BY <1>1, <2>1 DEF Spot
  <2> QED BY <2>1, <2>2, FileStill
<1> QED BY <1>2, <1>3, <1>4, <1>5, <1>6, <1>7, <1>8, <1>9, <1>10, <1>11, <1>12
        DEF Next, WorkerStep

-----------------------------------------------------------------------------
(* The response: the theorems. *)

LEMMA RespondInitHolds ==
  ASSUME Init
  PROVE  RespondInv
<1>1. /\ answer \in Answer /\ piece = 1 /\ off = 0 /\ chunk = 0 /\ sent = 0
      /\ pc = (IF answer.head THEN "status" ELSE "endSize")
      /\ closed = FALSE /\ wire = <<>> /\ cut = FALSE /\ space = SendBuffer /\ gone = FALSE
  BY DEF Init
<1>2. TypeOK
  <2>1. wire \in Seq(Symbols) /\ space \in 0..SendBuffer
    BY <1>1, SizesAssumption
  <2>2. pc \in {"status", "endSize"}
    BY <1>1
  <2>3. closed \in BOOLEAN /\ gone \in BOOLEAN /\ cut \in BOOLEAN
    BY <1>1
  <2> QED BY <1>1, <2>1, <2>2, <2>3 DEF TypeOK
<1>3. /\ LastChunk \in Nat /\ LastChunk = Len(answer.pieces) + 1 /\ Len(answer.pieces) \in Nat
      /\ ~answer.head => Len(answer.pieces) = 0
  BY <1>2, AnswerTypes DEF LastChunk
<1>4. ChunkInv
  BY <1>1, <1>3 DEF ChunkInv, Sending
<1>5. Len(wire) = 0
  BY <1>1
<1>6. ASSUME NEW s \in Encoding(answer)
      PROVE  ~Earlier(s, Here)
  <2>1. CASE answer.head
    <3>1. Here = Place(0, 0, 0)
      BY <1>1, <2>1 DEF Here
    <3> QED BY <1>2, <3>1, EncodingPlaced, EarlierIs
  <2>2. CASE ~answer.head
    <3>1. Here = Place(1, 0, 0) /\ LastChunk = 1
      BY <1>1, <1>3, <2>2 DEF Here
    <3>2. s.piece # 0
      BY <1>2, <2>2, EncodingPlaces
    <3> QED BY <1>2, <3>1, <3>2, EncodingPlaced, EarlierIs
  <2> QED BY <2>1, <2>2
<1>7. WireInv
  BY <1>5, <1>6 DEF WireInv, Sorted, NoGap, UpTo
<1>8. Spot = Mark(1, 0)
  <2>1. CASE answer.head
    BY <1>1, <2>1 DEF Spot
  <2>2. CASE ~answer.head
    BY <1>1, <1>3, <2>2 DEF Spot
  <2> QED BY <2>1, <2>2
<1>9. BodyOf(wire) = {} /\ ~Finished(wire)
  BY <1>5 DEF BodyOf, Finished
<1>10. \A k, b : IsByte(answer, k, b) => ~Passed(k, b, Mark(1, 0))
  BY <1>3 DEF IsByte, Passed, Mark
<1>11. FileInv
  BY <1>8, <1>9, <1>10 DEF FileInv, Tidy, Reached
<1> QED BY <1>2, <1>4, <1>7, <1>11 DEF RespondInv

LEMMA RespondInvariant == Spec => []RespondInv
<1>1. RespondInv /\ [Next]_vars => RespondInv'
  BY RespondTypeStep, ChunkStep, WireStep, FileStep DEF RespondInv
<1> QED BY <1>1, RespondInitHolds, PTL DEF Spec

\* The variables of a response keep their types: no short or failed write takes the place
\* in a piece, or the room in the send buffer, out of the numbers (sockets.c:225-263).
THEOREM RespondTypeCorrect == Spec => []TypeOK
<1>1. RespondInv => TypeOK
  BY DEF RespondInv
<1> QED BY <1>1, RespondInvariant, PTL

\* For every answer, number of headers, chunk size and send buffer: unless a write was cut
\* short, the wire is the encoding of the answer up to some point, in order and without a gap,
\* and all of it behind an open socket (write_to_socket(), sockets.c:225-263).
THEOREM WireIsExact == Spec => []WireExact
<1>1. ASSUME RespondInv
      PROVE  WireExact
  <2> SUFFICES ASSUME ~cut
               PROVE  /\ \A j \in 1..Len(wire) : wire[j] \in Encoding(answer)
                      /\ \A j, k \in 1..Len(wire) : j < k => Earlier(wire[j], wire[k])
                      /\ \A j \in 1..Len(wire) : \A s \in Encoding(answer) : Earlier(s, wire[j]) => OnWire(s)
                      /\ pc = "done" /\ ~closed => \A s \in Encoding(answer) : OnWire(s)
    BY DEF WireExact
  <2>1. /\ Sorted(wire) /\ NoGap(wire, Encoding(answer))
        /\ ~closed => UpTo(wire, Encoding(answer), Here)
    BY <1>1 DEF RespondInv, WireInv
  <2>2. \A s : On(wire, s) <=> OnWire(s)
    BY DEF On, OnWire
  <2>3. ASSUME pc = "done", ~closed, NEW s \in Encoding(answer)
        PROVE  OnWire(s)
    <3>1. Here = Place(LastChunk, 0, 2) /\ LastChunk \in Nat
      BY <1>1, <2>3, SymbolsOfWrites DEF Here, RespondInv
    <3>2. s.piece = LastChunk => s.off = 0 /\ s.i \in 0..1
      BY <1>1, EncodingPlaces DEF RespondInv, IsChunkSymbol
    <3>3. Earlier(s, Here)
      BY <1>1, <3>1, <3>2, EncodingPlaced, EarlierIs DEF RespondInv
    <3> QED BY <2>1, <2>2, <2>3, <3>3 DEF UpTo
  <2> QED BY <2>1, <2>2, <2>3 DEF Sorted, NoGap
<1> QED BY <1>1, RespondInvariant, PTL

\* For every file, whatever is cut, closed or reset: its bytes are on the wire in their order,
\* each once and without a gap, and all of them if the last chunk is (status.c:97,
\* script.c:24, image.c:36, sockets.c:225-242).
THEOREM FilesAreWhole == Spec => []FileWhole
<1>1. ASSUME RespondInv
      PROVE  FileWhole
  <2> SUFFICES ASSUME IsFile(answer)
               PROVE  /\ \A j \in Body : wire[j].piece \in 1..Len(answer.pieces)
                             /\ At(wire[j]) \in 0..(answer.pieces[wire[j].piece].length - 1)
                      /\ \A j, k \in Body : j < k => Before(wire[j].piece, At(wire[j]), wire[k])
                      /\ \A k \in 1..Len(answer.pieces) : \A b \in 0..(answer.pieces[k].length - 1) :
                           Ended \/ (\E j \in Body : Before(k, b, wire[j])) => Shown(k, b)
    BY DEF FileWhole
  <2>1. Tidy(wire, answer) /\ (Finished(wire) => Complete(wire, answer))
    BY <1>1 DEF RespondInv, FileInv
  <2>2. Body = BodyOf(wire) /\ (Ended <=> Finished(wire)) /\ \A k, b : Shown(k, b) <=> Shows(wire, k, b)
    BY DEF Body, BodyOf, Ended, Finished, Shown, Shows
  <2>3. \A j \in Body : /\ wire[j].piece \in 1..Len(answer.pieces)
                        /\ At(wire[j]) \in 0..(answer.pieces[wire[j].piece].length - 1)
    BY <2>1, <2>2 DEF Tidy, IsByte
  <2>4. \A j, k \in Body : j < k => Before(wire[j].piece, At(wire[j]), wire[k])
    BY <2>1, <2>2 DEF Tidy
  <2>5. ASSUME NEW k \in 1..Len(answer.pieces), NEW b \in 0..(answer.pieces[k].length - 1),
               Ended \/ (\E j \in Body : Before(k, b, wire[j]))
        PROVE  Shown(k, b)
    <3>1. IsByte(answer, k, b)
      BY DEF IsByte
    <3> QED BY <2>1, <2>2, <2>5, <3>1 DEF Tidy, Complete
  <2> QED BY <2>3, <2>4, <2>5
<1> QED BY <1>1, RespondInvariant, PTL
=============================================================================
