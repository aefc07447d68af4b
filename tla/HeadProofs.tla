----------------------------- MODULE HeadProofs -----------------------------
(***************************************************************************)
(* Proofs about Head: the parser finds the headers and the end of a head   *)
(* on every part of every message that MessageAssumption describes, with   *)
(* any number of headers and slots.                                        *)
(***************************************************************************)
EXTENDS Head, SequenceTheorems, WellFoundedInduction, TLAPS

Headers  == Len(message.fields)
KeyAt(k) == message.fields[k].key.at
Colon(k) == Behind(message.fields[k].key)
EndAt(k) == Behind(message.fields[k].value)

\* What has been read is a part of the message.
Begun ==
  /\ message \in Message
  /\ Size <= Len(message.bytes) /\ \A k \in 1..Size : buf[k] = message.bytes[k]

\* The first j slots hold what was sent.
Right(j) == \A k \in 1..j : slots[k] = message.fields[k]

\* Between two headers, the line ends between From and To are counted.
From(j) == IF j = 0 THEN KeyAt(1) - 2 ELSE EndAt(j) + 1
To(j)   == IF j = Headers THEN message.head - 1 ELSE KeyAt(j + 1)
Between ==
  LET j == Len(slots)
  IN /\ j <= Headers /\ Right(j)
     /\ o \in From(j)..To(j) /\ count = o - From(j) /\ (reset <=> count > 0)

\* Before the colon of a header, whose name is in its slot.
Named ==
  LET j == Len(slots)
  IN /\ j \in 1..Headers /\ Right(j - 1) /\ Open /\ reset
     /\ o = Colon(j) /\ slots[j].key = message.fields[j].key

\* At the end of a part that is not the whole head.
Cut ==
  LET j == Len(slots)
  IN j \in 1..Headers /\ Right(j - 1) /\ o >= Size /\ Size < message.head

\* The end of the loop: behind the head, at the end of a part, or without a slot.
Outcome ==
  LET j == Len(slots)
  IN /\ j <= Headers /\ Right(j - 1)
     /\ \/ body = message.head /\ Size >= message.head /\ j = Headers /\ Right(j)
        \/ body = 0 /\ Size < message.head
        \/ body = 0 /\ j >= MaxHeaders /\ Right(j)

\* Lines that end in two bytes.
Exact ==
  message.crlf =>
    /\ pc \in {"line", "null"} => slots = <<>>
    /\ pc = "null" => Size < message.head
    /\ pc = "headers" => body = 0 /\ (Between \/ Named \/ Cut)
    /\ pc \in {"parsed"} \cup Ends => Outcome
    /\ pc = "crashed" => Size < message.head

\* Lines that end in one: no slot is taken but for a header of its own.
AtLine(i)  == o \in KeyAt(i)..EndAt(i) /\ Len(slots) < i /\ ~Open /\ (reset => o = KeyAt(i))
AtColon(i) == o = Colon(i) /\ Len(slots) <= i /\ Open /\ reset
AtTop      == o = KeyAt(1) - 1 /\ slots = <<>> /\ ~reset
AtBottom   == o >= Size \/ o > EndAt(Headers)
Few ==
  ~message.crlf =>
    /\ Len(slots) <= Headers
    /\ pc = "headers" => AtTop \/ AtBottom \/ \E i \in 1..Headers : AtLine(i) \/ AtColon(i)

\* Before the loop nothing is counted; in it no more than two line ends are, and the
\* body is not found; only a parse that filled the slots is halted.
Counting ==
  /\ pc \in {"line", "headers", "null"} => body = 0
  /\ pc = "line" => slots = <<>> /\ o = 0 /\ count = 0 /\ ~reset
  /\ pc = "null" => slots = <<>>
  /\ pc = "headers" => count <= 2
  /\ pc = "halted" => Len(slots) >= MaxHeaders

IInv == TypeOK /\ Begun /\ Counting /\ Exact /\ Few
-----------------------------------------------------------------------------
(* Helpers of the model. *)

LEMMA MinIs ==
  ASSUME NEW S, S \subseteq Nat, S # {}
  PROVE  Min(S) \in S /\ \A x \in S : Min(S) <= x
<1> DEFINE R == OpToRel(<, Nat)
<1>1. IsWellFoundedOn(R, Nat)
  BY NatLessThanWellFounded
<1>2. \A x, y \in Nat : x < y => <<x, y>> \in R
  BY DEF OpToRel
<1> HIDE DEF R
<1>3. PICK x \in S : \A y \in S : ~(<<y, x>> \in R)
  BY <1>1, WFMin
<1>4. \A y \in S : x <= y
  <2> SUFFICES ASSUME NEW y \in S PROVE x <= y
    OBVIOUS
  <2>1. x \in Nat /\ y \in Nat
    OBVIOUS
  <2>2. ~(<<y, x>> \in R)
    BY <1>3, Zenon
  <2>3. ~(y < x)
    BY <1>2, <2>1, <2>2, Zenon
  <2> QED BY <2>1, <2>3
<1>5. Min(S) = CHOOSE m \in S : \A y \in S : m =< y
  BY DEF Min
<1> QED
  BY <1>4, <1>5

LEMMA MaxIs ==
  ASSUME NEW a \in Int, NEW b \in Int
  PROVE  Max({a, b}) \in {a, b} /\ Max({a, b}) >= a /\ Max({a, b}) >= b
<1>1. \E x \in {a, b} : \A y \in {a, b} : x >= y
  OBVIOUS
<1> QED
  BY <1>1 DEF Max

\* Find stops at the first place that holds one of cs, and at the end without one.
LEMMA FindStops ==
  ASSUME buf \in Seq(Symbol), NEW k \in Nat, k <= Size, NEW cs
  PROVE  /\ Find(k, cs) \in k..Size
         /\ Find(k, cs) = Size \/ At(Find(k, cs)) \in cs
         /\ \A e \in k..(Find(k, cs) - 1) : At(e) \notin cs
<1> DEFINE S == {e \in k..Size : At(e) \in cs} \cup {Size}
<1>1. Size \in Nat
  BY DEF Size
<1>2. S \subseteq Nat /\ S # {} /\ S \subseteq k..Size
  BY <1>1
<1>3. Min(S) \in S /\ \A x \in S : Min(S) <= x
  BY <1>2, MinIs
<1>4. Find(k, cs) = Min(S)
  BY DEF Find
<1>5. \A e \in k..(Min(S) - 1) : At(e) \notin cs
  <2> SUFFICES ASSUME NEW e \in k..(Min(S) - 1), At(e) \in cs PROVE FALSE
    OBVIOUS
  <2>1. e \in S
    BY <1>1, <1>2, <1>3
  <2> QED BY <2>1, <1>1, <1>2, <1>3
<1>6. Min(S) = Size \/ At(Min(S)) \in cs
  BY <1>3
<1> HIDE DEF S
<1> QED BY <1>2, <1>3, <1>4, <1>5, <1>6

\* It stops at the place p when that holds one of cs and nothing before it does.
LEMMA FindsPlace ==
  ASSUME buf \in Seq(Symbol), NEW k \in Nat, k <= Size, NEW cs,
         NEW p \in Nat, k <= p, p < Size => At(p) \in cs,
         \A e \in k..(p - 1) : e < Size => At(e) \notin cs
  PROVE  Find(k, cs) = IF p < Size THEN p ELSE Size
<1>1. Size \in Nat
  BY DEF Size
<1> DEFINE f == Find(k, cs)
<1>2. f \in k..Size /\ (f = Size \/ At(f) \in cs) /\ \A e \in k..(f - 1) : At(e) \notin cs
  BY FindStops
<1> HIDE DEF f
<1>3. f < p => f = Size
  BY <1>1, <1>2
<1>4. f > p => p >= Size
  BY <1>1, <1>2
<1> QED BY <1>1, <1>2, <1>3, <1>4 DEF f

-----------------------------------------------------------------------------
(* Where the parts of a message are. *)

ValueAt(k) == message.fields[k].value.at

LEMMA Shape ==
  ASSUME Begun
  PROVE  /\ message.bytes \in Seq(Symbol) /\ message.head \in Nat /\ message.crlf \in BOOLEAN
         /\ message.fields \in Seq([key : Spans, value : Spans])
         /\ Headers \in Nat \ {0} /\ HeadIn(message)
         /\ Ending(message) \in {1, 2} /\ (Ending(message) = 2 <=> message.crlf)
         /\ Size \in Nat /\ Size <= Len(message.bytes)
<1>1. message \in Message /\ Size <= Len(message.bytes)
  BY DEF Begun
<1>2. HeadIn(message) /\ message.fields # <<>>
  BY <1>1, MessageAssumption DEF HeadIn
<1>3. message.bytes \in Seq(Symbol) /\ message.head \in Nat /\ message.crlf \in BOOLEAN
      /\ message.fields \in Seq([key : Spans, value : Spans])
  BY <1>1, MessageAssumption DEF Spans
<1> QED BY <1>1, <1>2, <1>3 DEF Headers, Ending, Size

LEMMA FieldOf ==
  ASSUME Begun, NEW i \in 1..Headers
  PROVE  message.fields[i] \in [key : Spans, value : Spans]
         /\ message.fields[i].key \in Spans /\ message.fields[i].value \in Spans
<1>1. message.fields[i] \in [key : Spans, value : Spans]
  BY Shape, ElementOfSeq DEF Headers
<1> QED BY <1>1

LEMMA TextAt ==
  ASSUME Begun, NEW e \in Nat, e < Size
  PROVE  At(e) = Byte(message, e)
BY DEF Begun, At, Byte, Size

LEMMA TextHolds ==
  ASSUME Begun, NEW a \in Nat, NEW b \in Nat, NEW cs, Holds(message, a, b, cs)
  PROVE  \A e \in a..(b - 1) : e < Size => At(e) \in cs
BY TextAt DEF Holds

LEMMA Top ==
  ASSUME Begun
  PROVE  /\ KeyAt(1) \in Nat /\ KeyAt(1) >= Ending(message)
         /\ \A e \in 0..(KeyAt(1) - Ending(message) - 1) : e < Size => At(e) # "nl"
         /\ \A e \in (KeyAt(1) - Ending(message))..(KeyAt(1) - 1) : e < Size => At(e) = "nl"
<1>1. /\ KeyAt(1) >= Ending(message)
      /\ Holds(message, 0, KeyAt(1) - Ending(message), Others({"nl"}))
      /\ Holds(message, KeyAt(1) - Ending(message), KeyAt(1), {"nl"})
  BY Shape DEF HeadIn, KeyAt
<1>2. KeyAt(1) \in Nat
  <2>1. message.fields[1] \in [key : Spans, value : Spans]
    <3>1. 1 \in 1..Headers
      BY Shape
    <3> QED BY <3>1, FieldOf
  <2> QED BY <2>1 DEF KeyAt, Spans
<1>3. Ending(message) \in {1, 2}
  BY Shape
<1>4. \A e \in 0..(KeyAt(1) - Ending(message) - 1) : e < Size => At(e) \in Others({"nl"})
  BY <1>1, <1>2, <1>3, TextHolds
<1>5. \A e \in (KeyAt(1) - Ending(message))..(KeyAt(1) - 1) : e < Size => At(e) \in {"nl"}
  BY <1>1, <1>2, <1>3, TextHolds
<1> QED BY <1>1, <1>2, <1>4, <1>5 DEF Others

LEMMA Line ==
  ASSUME Begun, NEW i \in 1..Headers
  PROVE  /\ KeyAt(i) \in Nat /\ Colon(i) \in Nat /\ ValueAt(i) \in Nat /\ EndAt(i) \in Nat
         /\ KeyAt(i) < Colon(i) /\ Colon(i) < ValueAt(i) /\ ValueAt(i) < EndAt(i)
         /\ EndAt(i) + 2 * Ending(message) <= message.head
         /\ \A e \in KeyAt(i)..(Colon(i) - 1) : e < Size => At(e) \notin {":", "nl"}
         /\ Colon(i) < Size => At(Colon(i)) = ":"
         /\ \A e \in (Colon(i) + 1)..(ValueAt(i) - 1) : e < Size => At(e) = "space"
         /\ ValueAt(i) < Size => At(ValueAt(i)) \in Others({"space", "nl"})
         /\ \A e \in ValueAt(i)..(EndAt(i) - 1) : e < Size => At(e) # "nl"
         /\ \A e \in EndAt(i)..(EndAt(i) + Ending(message) - 1) : e < Size => At(e) = "nl"
         /\ i < Headers => KeyAt(i + 1) = EndAt(i) + Ending(message)
<1> USE DEF KeyAt, Colon, ValueAt, EndAt, Behind
<1>1. FieldLine(message, i)
  BY Shape DEF HeadIn, Headers
<1>2. message.fields[i] \in [key : Spans, value : Spans]
  BY FieldOf
<1>3. KeyAt(i) \in Nat /\ Colon(i) \in Nat /\ ValueAt(i) \in Nat /\ EndAt(i) \in Nat
  BY <1>2 DEF Spans
<1>4. /\ KeyAt(i) < Colon(i) /\ Colon(i) < ValueAt(i) /\ ValueAt(i) < EndAt(i)
      /\ EndAt(i) + 2 * Ending(message) <= message.head
      /\ Byte(message, Colon(i)) = ":" /\ Byte(message, ValueAt(i)) # "space"
      /\ i < Headers => KeyAt(i + 1) = EndAt(i) + Ending(message)
  <2>1. KeyAt(i) < Colon(i) /\ ValueAt(i) < EndAt(i)
    <3>1. message.fields[i].key.length > 0 /\ message.fields[i].value.length > 0
      BY <1>1 DEF FieldLine
    <3>2. message.fields[i].key \in Spans /\ message.fields[i].value \in Spans
      BY FieldOf
    <3> QED BY <3>1, <3>2 DEF Spans
  <2>2. Colon(i) < ValueAt(i)
    BY <1>1 DEF FieldLine
  <2>3. /\ EndAt(i) + 2 * Ending(message) <= message.head
        /\ Byte(message, Colon(i)) = ":" /\ Byte(message, ValueAt(i)) # "space"
        /\ i < Headers => KeyAt(i + 1) = EndAt(i) + Ending(message)
    BY <1>1 DEF FieldLine, Headers
  <2> QED BY <2>1, <2>2, <2>3
<1>5. /\ Holds(message, KeyAt(i), Colon(i), Others({":", "nl"}))
      /\ Holds(message, Colon(i) + 1, ValueAt(i), {"space"})
      /\ Holds(message, ValueAt(i), EndAt(i), Others({"nl"}))
      /\ Holds(message, EndAt(i), EndAt(i) + Ending(message), {"nl"})
  BY <1>1 DEF FieldLine
<1> HIDE DEF KeyAt, Colon, ValueAt, EndAt, Behind
<1>6. Ending(message) \in Nat
  BY Shape
<1>7. \A e \in KeyAt(i)..(Colon(i) - 1) : e < Size => At(e) \in Others({":", "nl"})
  BY <1>3, <1>5, TextHolds
<1>8. \A e \in (Colon(i) + 1)..(ValueAt(i) - 1) : e < Size => At(e) \in {"space"}
  BY <1>3, <1>5, TextHolds
<1>9. \A e \in ValueAt(i)..(EndAt(i) - 1) : e < Size => At(e) \in Others({"nl"})
  BY <1>3, <1>5, TextHolds
<1>10. \A e \in EndAt(i)..(EndAt(i) + Ending(message) - 1) : e < Size => At(e) \in {"nl"}
  BY <1>3, <1>5, <1>6, TextHolds
<1>11. Colon(i) < Size => At(Colon(i)) = ":"
  BY <1>3, <1>4, TextAt
<1>12. ValueAt(i) < Size => At(ValueAt(i)) \in Others({"space", "nl"})
  <2>1. ValueAt(i) < Size => At(ValueAt(i)) # "space"
    BY <1>3, <1>4, TextAt
  <2>2. ValueAt(i) < Size => At(ValueAt(i)) \in Others({"nl"})
    BY <1>3, <1>4, <1>9
  <2> QED BY <2>1, <2>2 DEF Others
<1> QED
  BY <1>3, <1>4, <1>7, <1>8, <1>9, <1>10, <1>11, <1>12 DEF Others

\* Behind the last header there is nothing but line ends, and these end the head.
LEMMA Bottom ==
  ASSUME Begun
  PROVE  /\ EndAt(Headers) \in Nat
         /\ message.head = EndAt(Headers) + 2 * Ending(message)
         /\ message.head <= Len(message.bytes) /\ (message.crlf \/ message.head = Len(message.bytes))
         /\ \A e \in EndAt(Headers)..(message.head - 1) : e < Size => At(e) = "nl"
<1>1. Headers \in 1..Headers /\ Ending(message) \in {1, 2} /\ message.head \in Nat
  BY Shape
<1>2. EndAt(Headers) \in Nat
      /\ \A e \in EndAt(Headers)..(EndAt(Headers) + Ending(message) - 1) : e < Size => At(e) = "nl"
  BY <1>1, Line
<1>3. /\ message.head = EndAt(Headers) + 2 * Ending(message)
      /\ message.head <= Len(message.bytes) /\ (message.crlf \/ message.head = Len(message.bytes))
      /\ Holds(message, EndAt(Headers) + Ending(message), message.head, {"nl"})
  BY Shape DEF HeadIn, EndAt, Headers
<1>4. \A e \in (EndAt(Headers) + Ending(message))..(message.head - 1) : e < Size => At(e) \in {"nl"}
  BY <1>1, <1>2, <1>3, TextHolds
<1> QED BY <1>1, <1>2, <1>3, <1>4

\* The line ends between two headers, when a line ends in two bytes.
LEMMA Gap ==
  ASSUME Begun, message.crlf, NEW j \in 0..Headers
  PROVE  /\ From(j) \in Nat /\ To(j) \in Nat /\ From(j) < To(j) /\ To(j) <= From(j) + 2
         /\ \A e \in From(j)..(To(j) - 1) : e < Size => At(e) = "nl"
         /\ j < Headers => To(j) = KeyAt(j + 1)
         /\ j = Headers => /\ To(j) = message.head - 1 /\ To(j) = From(j) + 2
                           /\ To(j) < Size => At(To(j)) = "nl"
         /\ To(j) < message.head
<1>1. Ending(message) = 2 /\ Headers \in Nat \ {0} /\ message.head \in Nat /\ Size \in Nat
  BY Shape
<1>2. CASE j = 0
  <2>1. 1 \in 1..Headers
    BY <1>1
  <2>2. KeyAt(1) < message.head
    BY <1>1, <2>1, Line
  <2>3. From(j) = KeyAt(1) - 2 /\ To(j) = KeyAt(1) /\ j < Headers
    BY <1>1, <1>2 DEF From, To
  <2>4. KeyAt(1) \in Nat /\ KeyAt(1) >= 2
        /\ \A e \in (KeyAt(1) - 2)..(KeyAt(1) - 1) : e < Size => At(e) = "nl"
    BY <1>1, Top
  <2> QED BY <1>1, <1>2, <2>2, <2>3, <2>4
<1>3. CASE j > 0 /\ j < Headers
  <2>1. j \in 1..Headers /\ j + 1 \in 1..Headers
    BY <1>1, <1>3
  <2>2. KeyAt(j + 1) < message.head
    BY <1>1, <2>1, Line
  <2>3. KeyAt(j + 1) = EndAt(j) + 2 /\ EndAt(j) \in Nat
        /\ \A e \in EndAt(j)..(EndAt(j) + 1) : e < Size => At(e) = "nl"
    BY <1>1, <1>3, <2>1, Line
  <2>4. From(j) = EndAt(j) + 1 /\ To(j) = KeyAt(j + 1)
    BY <1>1, <1>3 DEF From, To
  <2> QED BY <1>1, <1>3, <2>2, <2>3, <2>4
<1>4. CASE j = Headers
  <2>1. From(j) = EndAt(j) + 1 /\ To(j) = message.head - 1
    BY <1>1, <1>4 DEF From, To
  <2>2. EndAt(j) \in Nat /\ message.head = EndAt(j) + 4
        /\ \A e \in EndAt(j)..(message.head - 1) : e < Size => At(e) = "nl"
    BY <1>1, <1>4, Bottom
  <2> QED BY <1>1, <1>4, <2>1, <2>2
<1> QED BY <1>1, <1>2, <1>3, <1>4

\* What a name and a value reach to, in the part that has been read.
LEMMA NameEnds ==
  ASSUME TypeOK, Begun, NEW i \in 1..Headers, o = KeyAt(i), o < Size
  PROVE  /\ Find(o + 1, {":"}) = IF Colon(i) < Size THEN Colon(i) ELSE Size
         /\ At(Find(o + 1, {":"}) - 1) # ":"
<1> DEFINE end == Find(o + 1, {":"})
<1>1. /\ KeyAt(i) \in Nat /\ Colon(i) \in Nat /\ KeyAt(i) < Colon(i)
      /\ \A e \in KeyAt(i)..(Colon(i) - 1) : e < Size => At(e) \notin {":", "nl"}
      /\ Colon(i) < Size => At(Colon(i)) = ":"
  BY Line
<1>2. buf \in Seq(Symbol) /\ Size \in Nat /\ o + 1 \in Nat /\ o + 1 <= Size /\ o + 1 <= Colon(i)
  BY <1>1, Shape DEF TypeOK
<1>3. \A e \in (o + 1)..(Colon(i) - 1) : e < Size => At(e) \notin {":"}
  BY <1>1
<1>4. end = IF Colon(i) < Size THEN Colon(i) ELSE Size
  BY <1>1, <1>2, <1>3, FindsPlace
<1>5. end - 1 \in KeyAt(i)..(Colon(i) - 1) /\ end - 1 < Size
  BY <1>1, <1>2, <1>4
<1> QED BY <1>1, <1>4, <1>5

LEMMA ValueEnds ==
  ASSUME TypeOK, Begun, NEW i \in 1..Headers, o = Colon(i), o < Size
  PROVE  LET first == Find(o + 1, Others({"space", "nl"}))
         IN /\ first = (IF ValueAt(i) < Size THEN ValueAt(i) ELSE Size)
            /\ Find(first, {"nl"}) = (IF EndAt(i) < Size THEN EndAt(i) ELSE Size)
<1> DEFINE first == Find(o + 1, Others({"space", "nl"}))
<1>1. /\ Colon(i) \in Nat /\ ValueAt(i) \in Nat /\ EndAt(i) \in Nat
      /\ Colon(i) < ValueAt(i) /\ ValueAt(i) < EndAt(i)
      /\ \A e \in (Colon(i) + 1)..(ValueAt(i) - 1) : e < Size => At(e) = "space"
      /\ ValueAt(i) < Size => At(ValueAt(i)) \in Others({"space", "nl"})
      /\ \A e \in ValueAt(i)..(EndAt(i) - 1) : e < Size => At(e) # "nl"
  BY Line
<1>2. \A e \in EndAt(i)..(EndAt(i) + Ending(message) - 1) : e < Size => At(e) = "nl"
  BY Line
<1>3. EndAt(i) < Size => At(EndAt(i)) = "nl"
  BY <1>1, <1>2, Shape
<1>4. buf \in Seq(Symbol) /\ Size \in Nat /\ o + 1 \in Nat /\ o + 1 <= Size /\ o + 1 <= ValueAt(i)
  BY <1>1, Shape DEF TypeOK
<1>5. \A e \in (o + 1)..(ValueAt(i) - 1) : e < Size => At(e) \notin Others({"space", "nl"})
  BY <1>1 DEF Others
<1>6. first = IF ValueAt(i) < Size THEN ValueAt(i) ELSE Size
  BY <1>1, <1>4, <1>5, FindsPlace
<1>7. first \in Nat /\ first <= Size /\ first <= EndAt(i)
      /\ \A e \in first..(EndAt(i) - 1) : e < Size => At(e) \notin {"nl"}
  BY <1>1, <1>4, <1>6
<1> HIDE DEF first
<1>8. Find(first, {"nl"}) = IF EndAt(i) < Size THEN EndAt(i) ELSE Size
  BY <1>1, <1>3, <1>4, <1>7, FindsPlace
<1> QED BY <1>6, <1>8 DEF first

\* A slot that holds what was sent has a value.
LEMMA RightIsClosed ==
  ASSUME TypeOK, Begun, Len(slots) <= Headers, Right(Len(slots))
  PROVE  ~Open
<1> SUFFICES ASSUME slots # <<>>, slots[Len(slots)].value = NoValue PROVE FALSE
  BY DEF Open
<1>1. Len(slots) \in 1..Headers /\ Len(slots) \in 1..Len(slots)
  BY Shape DEF TypeOK
<1>2. slots[Len(slots)] = message.fields[Len(slots)]
  BY <1>1 DEF Right
<1>3. ValueAt(Len(slots)) > 0
  BY <1>1, Line
<1> QED BY <1>2, <1>3 DEF ValueAt, NoValue, Span

-----------------------------------------------------------------------------
(* The actions on the slots. *)

\* A name takes a new slot; a value is put in the last one.
LEMMA NameSlot ==
  ASSUME TypeOK, Name
  PROVE  LET end == Find(o + 1, {":"}) j == Len(slots)
         IN /\ end \in (o + 1)..Size /\ slots' \in Seq([key : Spans, value : Spans])
            /\ Len(slots') = j + 1 /\ j + 1 <= MaxHeaders
            /\ \A k \in 1..j : slots'[k] = slots[k]
            /\ slots'[j + 1] = [key |-> Span(o, end - o), value |-> NoValue]
            /\ o' = IF At(end - 1) = ":" THEN end - 1 ELSE end
<1> DEFINE end == Find(o + 1, {":"})
           slot == [key |-> Span(o, end - o), value |-> NoValue]
<1>1. slots' = Append(slots, slot) /\ o' = IF At(end - 1) = ":" THEN end - 1 ELSE end
  BY DEF Name
<1>2. o \in Nat /\ o < Size /\ Size \in Nat /\ buf \in Seq(Symbol)
  BY DEF Name, Looping, TypeOK, Size
<1>3. end \in (o + 1)..Size
  BY <1>2, FindStops
<1> HIDE DEF end
<1>4. slot \in [key : Spans, value : Spans]
  BY <1>2, <1>3 DEF Spans, Span, NoValue
<1>5. slots \in Seq([key : Spans, value : Spans])
  BY DEF TypeOK
<1>6. Len(slots) + 1 <= MaxHeaders
  <2>1. Len(slots) < MaxHeaders
    BY DEF Name, Looping, Complete
  <2> QED BY <1>5, <2>1, MaxHeadersAssumption
<1> HIDE DEF slot
<1>7. /\ slots' \in Seq([key : Spans, value : Spans])
      /\ Len(slots') = Len(slots) + 1 /\ slots'[Len(slots) + 1] = slot
      /\ \A k \in 1..Len(slots) : slots'[k] = slots[k]
  BY <1>1, <1>4, <1>5
<1> QED BY <1>1, <1>3, <1>6, <1>7 DEF end, slot

LEMMA ValueSlot ==
  ASSUME TypeOK, Value
  PROVE  LET first == Find(o + 1, Others({"space", "nl"}))
             end   == Find(first, {"nl"})
             value == Span(first, IF end < Size THEN end - first ELSE Max({Size - first - 1, 0}))
             j     == Len(slots)
         IN /\ first \in (o + 1)..Size /\ end \in first..Size /\ j \in Nat \ {0}
            /\ slots' \in Seq([key : Spans, value : Spans]) /\ Len(slots') = j
            /\ \A k \in 1..(j - 1) : slots'[k] = slots[k]
            /\ slots'[j] = [key |-> slots[j].key, value |-> value]
            /\ o' \in Nat /\ o' = (IF end < Size THEN end + 1 ELSE Max({Size, first + 1}))
            /\ end = Size => o' >= Size
<1> DEFINE first == Find(o + 1, Others({"space", "nl"}))
           end   == Find(first, {"nl"})
           length == IF end < Size THEN end - first ELSE Max({Size - first - 1, 0})
           value == Span(first, length)
           j     == Len(slots)
<1>1. slots' = [slots EXCEPT ![j].value = value]
      /\ o' = IF end < Size THEN end + 1 ELSE Max({Size, first + 1})
  BY DEF Value
<1>2. o \in Nat /\ o < Size /\ Size \in Nat /\ buf \in Seq(Symbol)
  BY DEF Value, Looping, TypeOK, Size
<1>3. first \in (o + 1)..Size
  BY <1>2, FindStops
<1> HIDE DEF first
<1>4. end \in first..Size
  <2>1. first \in Nat /\ first <= Size
    BY <1>2, <1>3
  <2> QED BY <1>2, <2>1, FindStops
<1> HIDE DEF end
<1>5. /\ Max({Size - first - 1, 0}) \in {Size - first - 1, 0} /\ Max({Size - first - 1, 0}) >= 0
      /\ Max({Size, first + 1}) \in {Size, first + 1} /\ Max({Size, first + 1}) >= Size
  <2>1. Size - first - 1 \in Int /\ 0 \in Int /\ Size \in Int /\ first + 1 \in Int
    BY <1>2, <1>3
  <2> QED BY <2>1, MaxIs
<1>6. length \in Nat
  BY <1>2, <1>3, <1>4, <1>5
<1> HIDE DEF length
<1>7. value \in Spans
  BY <1>2, <1>3, <1>6 DEF Spans, Span
<1> HIDE DEF value
<1>8. slots \in Seq([key : Spans, value : Spans]) /\ slots # <<>> /\ j \in Nat \ {0}
  BY DEF TypeOK, Value, Open
<1>9. slots[j] \in [key : Spans, value : Spans]
  <2>1. j \in 1..Len(slots)
    BY <1>8
  <2> QED BY <1>8, <2>1, ElementOfSeq
<1>10. slots' = [slots EXCEPT ![j] = [key |-> slots[j].key, value |-> value]]
  <2>1. [slots[j] EXCEPT !.value = value] = [key |-> slots[j].key, value |-> value]
    BY <1>9
  <2>2. slots' = [slots EXCEPT ![j] = [slots[j] EXCEPT !.value = value]]
    BY <1>1
  <2> QED BY <2>1, <2>2
<1> HIDE DEF j
<1>11. [key |-> slots[j].key, value |-> value] \in [key : Spans, value : Spans]
  BY <1>7, <1>9
<1>12. /\ slots' \in Seq([key : Spans, value : Spans]) /\ Len(slots') = j
       /\ \A k \in 1..(j - 1) : slots'[k] = slots[k]
       /\ slots'[j] = [key |-> slots[j].key, value |-> value]
  BY <1>8, <1>10, <1>11 DEF j
<1>13. o' \in Nat /\ (end = Size => o' >= Size)
  BY <1>1, <1>2, <1>3, <1>4, <1>5
<1> QED BY <1>1, <1>3, <1>4, <1>8, <1>12, <1>13 DEF first, end, length, value, j

LEMMA ValueRest ==
  ASSUME Value
  PROVE  reset' = FALSE /\ count' = 0
         /\ pc' = pc /\ message' = message /\ buf' = buf /\ body' = body
BY DEF Value

LEMMA TypeStep ==
  ASSUME TypeOK, Counting, [Next]_vars
  PROVE  TypeOK'
<1> USE DEF Ends
<1>1. CASE FindLine
  <2>1. Find(0, {"nl"}) \in Nat
    <3>1. buf \in Seq(Symbol) /\ 0 \in Nat /\ 0 <= Size
      BY DEF TypeOK, Size
    <3>2. Find(0, {"nl"}) \in 0..Size
      BY <3>1, FindStops
    <3> QED BY <3>2
  <2> QED BY <1>1, <2>1 DEF FindLine, TypeOK
<1>2. CASE LineBreak
  BY <1>2 DEF LineBreak, Looping, TypeOK, Counting
<1>3. CASE Name
  <2>1. o' \in Nat
    <3>1. Find(o + 1, {":"}) \in (o + 1)..Size /\ o \in Nat /\ Size \in Nat
      BY <1>3, NameSlot DEF TypeOK, Size
    <3>2. o' \in {Find(o + 1, {":"}), Find(o + 1, {":"}) - 1}
      BY <1>3, NameSlot
    <3> QED BY <3>1, <3>2
  <2>2. slots' \in Seq([key : Spans, value : Spans]) /\ Len(slots') <= MaxHeaders
    BY <1>3, NameSlot
  <2> QED BY <1>3, <2>1, <2>2 DEF Name, TypeOK
<1>4. CASE Value
  <2>1. o' \in Nat /\ slots' \in Seq([key : Spans, value : Spans]) /\ Len(slots') = Len(slots)
    BY <1>4, ValueSlot
  <2>2. reset' = FALSE /\ count' = 0
        /\ pc' = pc /\ message' = message /\ buf' = buf /\ body' = body
    BY <1>4, ValueRest
  <2>3. reset' \in BOOLEAN
    BY <2>2, Zenon
  <2>4. count' \in 0..3
    BY <2>2
  <2> QED BY <2>1, <2>2, <2>3, <2>4, Zenon DEF TypeOK
<1>5. CASE SkipByte
  BY <1>5 DEF SkipByte, TypeOK
<1>6. CASE BodyNotSet
  BY <1>6 DEF BodyNotSet, TypeOK
<1>7. CASE PrintCrashes \/ AddPeer \/ NoSlot \/ UNCHANGED vars
  BY <1>7 DEF PrintCrashes, AddPeer, NoSlot, vars, TypeOK
<1> QED
  BY <1>1, <1>2, <1>3, <1>4, <1>5, <1>6, <1>7 DEF Next, ParseStep

LEMMA BegunStep ==
  ASSUME Begun, [Next]_vars
  PROVE  Begun' /\ message' = message /\ buf' = buf /\ Size' = Size
<1>1. message' = message /\ buf' = buf
  BY DEF Next, ParseStep, FindLine, LineBreak, Name, Value, SkipByte, BodyNotSet,
         PrintCrashes, AddPeer, NoSlot, vars
<1> QED BY <1>1 DEF Begun, Size

LEMMA CountingStep ==
  ASSUME TypeOK, Counting, [Next]_vars
  PROVE  Counting'
<1>1. CASE FindLine
  BY <1>1 DEF FindLine, Counting
<1>2. CASE LineBreak
  BY <1>2 DEF LineBreak, Looping, Counting, TypeOK
<1>3. CASE Name
  <2>1. pc = "headers" /\ count' = 0 /\ pc' = pc /\ body' = body
    BY <1>3 DEF Name, Looping
  <2> QED BY <2>1 DEF Counting
<1>4. CASE Value
  <2>1. pc = "headers" /\ count' = 0 /\ pc' = pc /\ body' = body
    BY <1>4, ValueRest DEF Value, Looping
  <2> QED BY <2>1 DEF Counting
<1>5. CASE SkipByte
  <2>1. pc = "headers" /\ count' = 0 /\ pc' = pc /\ body' = body
    BY <1>5 DEF SkipByte, Looping
  <2> QED BY <2>1 DEF Counting
<1>6. CASE BodyNotSet
  BY <1>6 DEF BodyNotSet, Counting
<1>7. CASE PrintCrashes
  BY <1>7 DEF PrintCrashes, Counting
<1>8. CASE AddPeer
  BY <1>8 DEF AddPeer, Counting
<1>9. CASE NoSlot
  BY <1>9 DEF NoSlot, Counting
<1>10. CASE UNCHANGED vars
  BY <1>10 DEF vars, Counting
<1> QED
  BY <1>1, <1>2, <1>3, <1>4, <1>5, <1>6, <1>7, <1>8, <1>9, <1>10 DEF Next, ParseStep

-----------------------------------------------------------------------------
(* Lines that end in two bytes. *)

\* The parts of Exact in the next state, from what they say of this message.
LEMMA BetweenNext ==
  ASSUME message' = message, NEW j \in Nat, Len(slots') = j, j <= Headers,
         \A k \in 1..j : slots'[k] = message.fields[k],
         o' \in From(j)..To(j), count' = o' - From(j), reset' <=> count' > 0
  PROVE  Between'
BY DEF Between, From, To, KeyAt, EndAt, Behind, Headers, Right

LEMMA NamedNext ==
  ASSUME message' = message, NEW j \in 1..Headers, Len(slots') = j, slots' # <<>>,
         \A k \in 1..(j - 1) : slots'[k] = message.fields[k], reset',
         o' = Colon(j), slots'[j] = [key |-> message.fields[j].key, value |-> NoValue]
  PROVE  Named'
BY DEF Named, Colon, Behind, Headers, Right, Open

LEMMA CutNext ==
  ASSUME message' = message, buf' = buf, NEW j \in 1..Headers, Len(slots') = j,
         \A k \in 1..(j - 1) : slots'[k] = message.fields[k],
         o' >= Size, Size < message.head
  PROVE  Cut'
BY DEF Cut, Size, Headers, Right

LEMMA OutcomeNext ==
  ASSUME message' = message, buf' = buf, NEW j \in Nat, Len(slots') = j, j <= Headers,
         \A k \in 1..(j - 1) : slots'[k] = message.fields[k],
         \/ /\ body' = message.head /\ Size >= message.head /\ j = Headers
            /\ \A k \in 1..j : slots'[k] = message.fields[k]
         \/ body' = 0 /\ Size < message.head
         \/ body' = 0 /\ j >= MaxHeaders /\ \A k \in 1..j : slots'[k] = message.fields[k]
  PROVE  Outcome'
BY DEF Outcome, Size, Headers, Right

LEMMA FindLineExact ==
  ASSUME IInv, message.crlf, FindLine
  PROVE  Exact'
<1>1. pc = "line" /\ slots = <<>> /\ count = 0 /\ ~reset /\ body = 0
  BY DEF FindLine, IInv, Counting
<1>2. o' = Find(0, {"nl"}) /\ pc' = (IF o' = Size THEN "null" ELSE "headers")
      /\ message' = message /\ slots' = slots /\ count' = count /\ (reset' <=> reset) /\ body' = body
  BY DEF FindLine
<1>3. Size \in Nat /\ Headers \in Nat \ {0} /\ Ending(message) = 2 /\ buf \in Seq(Symbol)
  BY Shape DEF IInv, TypeOK
<1>4. /\ KeyAt(1) \in Nat /\ KeyAt(1) >= 2
      /\ \A e \in 0..(KeyAt(1) - 2 - 1) : e < Size => At(e) # "nl"
      /\ \A e \in (KeyAt(1) - 2)..(KeyAt(1) - 1) : e < Size => At(e) = "nl"
  BY <1>3, Top DEF IInv
<1>5. Find(0, {"nl"}) = IF KeyAt(1) - 2 < Size THEN KeyAt(1) - 2 ELSE Size
  <2>1. 0 \in Nat /\ 0 <= Size /\ KeyAt(1) - 2 \in Nat /\ 0 <= KeyAt(1) - 2
        /\ (KeyAt(1) - 2 < Size => At(KeyAt(1) - 2) \in {"nl"})
        /\ \A e \in 0..(KeyAt(1) - 2 - 1) : e < Size => At(e) \notin {"nl"}
    BY <1>3, <1>4
  <2> QED BY <1>3, <2>1, FindsPlace
<1>6. 0 \in 0..Headers /\ From(0) = KeyAt(1) - 2 /\ From(0) \in Nat /\ From(0) < To(0) /\ To(0) \in Nat
      /\ To(0) < message.head /\ message.head \in Nat
  BY <1>3, Gap, Shape DEF IInv, From
<1>7. CASE o' = Size
  <2>1. Size < message.head
    BY <1>2, <1>3, <1>5, <1>6, <1>7
  <2> QED BY <1>1, <1>2, <1>7, <2>1, BegunStep DEF Exact, FindLine, Size, Ends
<1>8. CASE o' # Size
  <2>1. o' = From(0)
    BY <1>2, <1>5, <1>6, <1>8
  <2>2. Len(slots') = 0 /\ (\A k \in 1..0 : slots'[k] = message.fields[k]) /\ 0 \in Nat /\ 0 <= Headers
        /\ o' \in From(0)..To(0) /\ count' = o' - From(0)
    BY <1>1, <1>2, <1>3, <1>6, <2>1
  <2>3. reset' <=> count' > 0
    <3>1. ~reset' /\ count' = 0
      BY <1>1, <1>2
    <3> QED BY <3>1
  <2>4. Between'
    BY <1>2, <2>2, <2>3, BetweenNext
  <2> QED BY <1>1, <1>2, <1>8, <2>4 DEF Exact, Ends
<1> QED BY <1>7, <1>8

\* Where the loop is when it looks at a byte.
LEMMA Where ==
  ASSUME IInv, message.crlf, Looping
  PROVE  /\ pc = "headers" /\ body = 0 /\ (Between \/ Named)
         /\ o \in Nat /\ o < Size /\ Size \in Nat
<1>1. pc = "headers" /\ o < Size
  BY DEF Looping
<1>2. o \in Nat /\ Size \in Nat
  BY Shape DEF IInv, TypeOK
<1>3. ~Cut
  BY <1>1, <1>2 DEF Cut
<1>4. body = 0 /\ (Between \/ Named \/ Cut)
  BY <1>1 DEF IInv, Exact
<1> QED BY <1>1, <1>2, <1>3, <1>4

LEMMA InGap ==
  ASSUME IInv, message.crlf, Looping, Between
  PROVE  LET j == Len(slots)
         IN /\ j \in 0..Headers /\ ~Open
            /\ From(j) \in Nat /\ To(j) \in Nat /\ To(j) <= From(j) + 2
            /\ o \in From(j)..To(j) /\ count = o - From(j) /\ (reset <=> count > 0)
            /\ o < To(j) => At(o) = "nl"
            /\ o = To(j) /\ j < Headers =>
                 /\ j + 1 \in 1..Headers /\ o = KeyAt(j + 1) /\ At(o) # "nl" /\ count > 0
            /\ o = To(j) /\ j = Headers =>
                 At(o) = "nl" /\ count = 2 /\ message.head = o + 1
<1> DEFINE j == Len(slots)
<1>1. /\ j <= Headers /\ Right(j) /\ j \in Nat
      /\ o \in From(j)..To(j) /\ count = o - From(j) /\ (reset <=> count > 0)
  BY DEF Between, IInv, TypeOK
<1>2. ~Open
  BY <1>1, RightIsClosed DEF IInv
<1>3. Headers \in Nat \ {0} /\ Size \in Nat /\ message.head \in Nat /\ o < Size /\ o \in Nat
  BY Shape, Where DEF IInv
<1>4. j \in 0..Headers
  BY <1>1, <1>3
<1>5. /\ From(j) \in Nat /\ To(j) \in Nat /\ From(j) < To(j) /\ To(j) <= From(j) + 2
      /\ \A e \in From(j)..(To(j) - 1) : e < Size => At(e) = "nl"
      /\ j < Headers => To(j) = KeyAt(j + 1)
      /\ j = Headers => /\ To(j) = message.head - 1 /\ To(j) = From(j) + 2
                        /\ To(j) < Size => At(To(j)) = "nl"
  BY <1>4, Gap DEF IInv
<1>6. ASSUME o = To(j), j < Headers
      PROVE  j + 1 \in 1..Headers /\ o = KeyAt(j + 1) /\ At(o) # "nl" /\ count > 0
  <2>1. j + 1 \in 1..Headers
    BY <1>3, <1>4, <1>6
  <2>2. /\ KeyAt(j + 1) \in Nat /\ Colon(j + 1) \in Nat /\ KeyAt(j + 1) < Colon(j + 1)
        /\ \A e \in KeyAt(j + 1)..(Colon(j + 1) - 1) : e < Size => At(e) \notin {":", "nl"}
    BY <2>1, Line DEF IInv
  <2> QED BY <1>1, <1>3, <1>5, <1>6, <2>1, <2>2
<1>7. o < To(j) => At(o) = "nl"
  BY <1>1, <1>3, <1>5
<1>8. o = To(j) /\ j = Headers => At(o) = "nl" /\ count = 2 /\ message.head = o + 1
  BY <1>1, <1>3, <1>5
<1> HIDE DEF j
<1> QED BY <1>1, <1>2, <1>4, <1>5, <1>6, <1>7, <1>8 DEF j

LEMMA AtName ==
  ASSUME IInv, message.crlf, Looping, Named
  PROVE  LET j == Len(slots)
         IN /\ j \in 1..Headers /\ Right(j - 1) /\ Open /\ reset /\ o = Colon(j) /\ At(o) = ":"
            /\ slots[j].key = message.fields[j].key /\ Size \in Nat
<1> DEFINE j == Len(slots)
<1>1. /\ j \in 1..Headers /\ Right(j - 1) /\ Open /\ reset /\ o = Colon(j)
      /\ slots[j].key = message.fields[j].key
  BY DEF Named
<1>2. o < Size /\ Size \in Nat
  BY Shape DEF Looping, IInv
<1>3. Colon(j) < Size => At(Colon(j)) = ":"
  BY <1>1, Line DEF IInv
<1> QED BY <1>1, <1>2, <1>3

LEMMA LineBreakExact ==
  ASSUME IInv, message.crlf, LineBreak
  PROVE  Exact'
<1> DEFINE j == Len(slots)
<1>1. At(o) = "nl" /\ Looping /\ slots' = slots /\ message' = message /\ buf' = buf /\ reset'
      /\ count' = count + 1
  BY DEF LineBreak
<1>2. pc = "headers" /\ body = 0 /\ Between /\ o \in Nat /\ o < Size /\ Size \in Nat
  BY <1>1, Where, AtName
<1>3. /\ j \in 0..Headers /\ From(j) \in Nat /\ To(j) \in Nat /\ To(j) <= From(j) + 2
      /\ o \in From(j)..To(j) /\ count = o - From(j)
      /\ o = To(j) /\ j < Headers => At(o) # "nl"
      /\ o = To(j) /\ j = Headers => count = 2 /\ message.head = o + 1
  BY <1>1, <1>2, InGap
<1>4. Right(j) /\ Headers \in Nat /\ message.head \in Nat
  BY <1>2, Shape DEF Between, IInv
<1> HIDE DEF j
<1>5. CASE o = To(j)
  <2>1. j = Headers /\ count = 2 /\ message.head = o + 1
    BY <1>1, <1>3, <1>4, <1>5
  <2>2. pc' = "parsed" /\ body' = o + 1
    BY <2>1 DEF LineBreak
  <2>3. j \in Nat /\ j <= Headers /\ Len(slots') = j /\ (\A k \in 1..j : slots'[k] = message.fields[k])
        /\ body' = message.head /\ Size >= message.head
    BY <1>1, <1>2, <1>4, <2>1, <2>2 DEF Right, j
  <2>4. Outcome'
    BY <1>1, <2>1, <2>3, OutcomeNext
  <2> QED BY <2>2, <2>4 DEF Exact, Ends
<1>6. CASE o # To(j)
  <2>1. count + 1 <= 2 /\ o + 1 \in From(j)..To(j) /\ count + 1 = o + 1 - From(j)
    BY <1>2, <1>3, <1>6
  <2>2. pc' = pc /\ body' = body /\ o' = o + 1
    BY <1>2, <1>3, <2>1 DEF LineBreak
  <2>3. reset' <=> count' > 0
    <3>1. count' > 0
      BY <1>1, <1>2, <1>3
    <3> QED BY <1>1, <3>1, Zenon
  <2>4. j \in Nat /\ j <= Headers /\ Len(slots') = j
    BY <1>1, <1>3, <1>4 DEF j
  <2>7. \A k \in 1..j : slots'[k] = message.fields[k]
    BY <1>1, <1>4 DEF Right
  <2>5. Between'
    <3>1. o' \in From(j)..To(j) /\ count' = o' - From(j) /\ message' = message
      BY <1>1, <1>2, <1>3, <2>1, <2>2
    <3> QED BY <2>3, <2>4, <2>7, <3>1, BetweenNext, Zenon
  <2>6. pc' = "headers" /\ body' = 0
    BY <1>2, <2>2
  <2> QED BY <2>5, <2>6 DEF Exact, Ends
<1> QED BY <1>5, <1>6

LEMMA NameExact ==
  ASSUME IInv, message.crlf, Name
  PROVE  Exact'
<1> DEFINE j == Len(slots)
           end == Find(o + 1, {":"})
<1>1. At(o) # "nl" /\ Looping /\ message' = message /\ buf' = buf /\ reset /\ reset' = reset
      /\ ~Open /\ pc' = pc /\ body' = body
  BY DEF Name
<1>2. pc = "headers" /\ body = 0 /\ Between /\ o \in Nat /\ o < Size /\ Size \in Nat
  BY <1>1, Where, AtName
<1>3. j \in 0..Headers /\ j < Headers /\ j + 1 \in 1..Headers /\ o = KeyAt(j + 1)
  <2>1. /\ j \in 0..Headers /\ o \in From(j)..To(j) /\ From(j) \in Nat /\ To(j) \in Nat
        /\ o < To(j) => At(o) = "nl"
        /\ o = To(j) /\ j = Headers => At(o) = "nl"
        /\ o = To(j) /\ j < Headers => j + 1 \in 1..Headers /\ o = KeyAt(j + 1)
    BY <1>1, <1>2, InGap
  <2>2. Headers \in Nat
    BY Shape DEF IInv
  <2> HIDE DEF j
  <2>3. o = To(j) /\ j < Headers
    BY <1>1, <2>1, <2>2
  <2> QED BY <2>1, <2>3
<1>4. Right(j)
  BY <1>2 DEF Between
<1>5. end = (IF Colon(j + 1) < Size THEN Colon(j + 1) ELSE Size) /\ At(end - 1) # ":"
  BY <1>2, <1>3, NameEnds DEF IInv
<1>6. /\ Len(slots') = j + 1 /\ \A k \in 1..j : slots'[k] = slots[k]
      /\ slots'[j + 1] = [key |-> Span(o, end - o), value |-> NoValue]
      /\ o' = IF At(end - 1) = ":" THEN end - 1 ELSE end
      /\ slots' \in Seq([key : Spans, value : Spans])
  BY NameSlot DEF IInv
<1> HIDE DEF j, end
<1>7. o' = end
  BY <1>5, <1>6
<1>8. slots' # <<>> /\ \A k \in 1..(j + 1 - 1) : slots'[k] = message.fields[k]
  BY <1>3, <1>4, <1>6 DEF Right
<1>9. Colon(j + 1) \in Nat /\ EndAt(j + 1) \in Nat /\ Colon(j + 1) < EndAt(j + 1)
      /\ EndAt(j + 1) < message.head /\ message.head \in Nat
  <2>1. Ending(message) \in {1, 2} /\ message.head \in Nat
    BY Shape DEF IInv
  <2>2. Colon(j + 1) \in Nat /\ EndAt(j + 1) \in Nat /\ ValueAt(j + 1) \in Nat
        /\ Colon(j + 1) < ValueAt(j + 1) /\ ValueAt(j + 1) < EndAt(j + 1)
        /\ EndAt(j + 1) + 2 * Ending(message) <= message.head
    BY <1>3, Line DEF IInv
  <2> QED BY <2>1, <2>2
<1>10. CASE Colon(j + 1) < Size
  <2>1. message.fields[j + 1].key \in Spans
    BY <1>3, FieldOf DEF IInv
  <2>2. Span(o, end - o) = message.fields[j + 1].key
    BY <1>3, <1>5, <1>10, <2>1 DEF KeyAt, Colon, Behind, Span, Spans
  <2>3. o' = Colon(j + 1) /\ slots'[j + 1] = [key |-> message.fields[j + 1].key, value |-> NoValue]
    BY <1>5, <1>6, <1>7, <1>10, <2>2
  <2>4. Named'
    BY <1>1, <1>3, <1>6, <1>8, <2>3, NamedNext
  <2>5. pc' = "headers" /\ body' = 0
    BY <1>1, <1>2
  <2> QED BY <2>4, <2>5 DEF Exact, Ends
<1>11. CASE ~(Colon(j + 1) < Size)
  <2>1. o' >= Size /\ Size < message.head
    BY <1>2, <1>5, <1>7, <1>9, <1>11
  <2>2. Cut'
    BY <1>1, <1>3, <1>6, <1>8, <2>1, CutNext
  <2>3. pc' = "headers" /\ body' = 0
    BY <1>1, <1>2
  <2> QED BY <2>2, <2>3 DEF Exact, Ends
<1> QED BY <1>10, <1>11

LEMMA ValueExact ==
  ASSUME IInv, message.crlf, Value
  PROVE  Exact'
<1> DEFINE j == Len(slots)
           first == Find(o + 1, Others({"space", "nl"}))
           end   == Find(first, {"nl"})
           value == Span(first, IF end < Size THEN end - first ELSE Max({Size - first - 1, 0}))
<1>1. Looping /\ Open
  BY DEF Value
<1>2. pc = "headers" /\ body = 0 /\ Named /\ o \in Nat /\ o < Size /\ Size \in Nat
  BY <1>1, Where, InGap
<1>3. /\ j \in 1..Headers /\ Right(j - 1) /\ o = Colon(j)
      /\ slots[j].key = message.fields[j].key
  BY <1>2 DEF Named
<1>4. /\ first = (IF ValueAt(j) < Size THEN ValueAt(j) ELSE Size)
      /\ end = (IF EndAt(j) < Size THEN EndAt(j) ELSE Size)
  BY <1>2, <1>3, ValueEnds DEF IInv
<1>5. /\ Len(slots') = j /\ \A k \in 1..(j - 1) : slots'[k] = slots[k]
      /\ slots'[j] = [key |-> slots[j].key, value |-> value]
      /\ end < Size => o' = end + 1
      /\ end = Size => o' >= Size
  BY ValueSlot DEF IInv
<1>6. reset' = FALSE /\ count' = 0
      /\ pc' = pc /\ message' = message /\ buf' = buf /\ body' = body
  BY ValueRest
<1> HIDE DEF j, first, end
<1>7. \A k \in 1..(j - 1) : slots'[k] = message.fields[k]
  BY <1>3, <1>5 DEF Right
<1>8. ValueAt(j) \in Nat /\ EndAt(j) \in Nat /\ ValueAt(j) < EndAt(j)
      /\ EndAt(j) < message.head /\ message.head \in Nat
  <2>1. Ending(message) \in {1, 2} /\ message.head \in Nat
    BY Shape DEF IInv
  <2>2. EndAt(j) \in Nat /\ ValueAt(j) \in Nat /\ ValueAt(j) < EndAt(j)
        /\ EndAt(j) + 2 * Ending(message) <= message.head
    BY <1>3, Line DEF IInv
  <2> QED BY <2>1, <2>2
<1>9. pc' = "headers" /\ body' = 0
  BY <1>2, <1>6
<1>10. CASE EndAt(j) < Size
  <2>1. end = EndAt(j) /\ first = ValueAt(j) /\ end < Size
    BY <1>2, <1>4, <1>8, <1>10
  <2>2. message.fields[j] \in [key : Spans, value : Spans]
    BY <1>3, FieldOf DEF IInv
  <2>3. value = message.fields[j].value
    BY <1>8, <2>1, <2>2 DEF ValueAt, EndAt, Behind, Span, Spans
  <2>4. slots'[j] = message.fields[j]
    BY <1>3, <1>5, <2>2, <2>3
  <2>5. \A k \in 1..j : slots'[k] = message.fields[k]
    BY <1>3, <1>7, <2>4
  <2>6. j \in 0..Headers /\ j > 0
    BY <1>3
  <2>7. From(j) = EndAt(j) + 1 /\ From(j) < To(j) /\ To(j) \in Nat
    BY <2>6, Gap DEF IInv, From
  <2>8. o' \in From(j)..To(j) /\ count' = o' - From(j) /\ j \in Nat /\ j <= Headers
    BY <1>3, <1>5, <1>6, <1>8, <2>1, <2>7
  <2>9. reset' <=> count' > 0
    <3>1. ~(count' > 0)
      BY <1>6
    <3> QED BY <1>6, <3>1, Zenon
  <2>10. Between'
    BY <1>5, <1>6, <2>5, <2>8, <2>9, BetweenNext
  <2> QED BY <1>9, <2>10 DEF Exact, Ends
<1>11. CASE ~(EndAt(j) < Size)
  <2>1. o' >= Size /\ Size < message.head
    BY <1>2, <1>4, <1>5, <1>8, <1>11
  <2>2. Cut'
    BY <1>3, <1>5, <1>6, <1>7, <2>1, CutNext
  <2> QED BY <1>9, <2>2 DEF Exact, Ends
<1> QED BY <1>10, <1>11

\* No byte is skipped.
LEMMA SkipByteExact ==
  ASSUME IInv, message.crlf
  PROVE  ~SkipByte
<1> SUFFICES ASSUME SkipByte PROVE FALSE
  OBVIOUS
<1>1. Looping /\ At(o) # "nl" /\ (~reset \/ (Open /\ At(o) # ":"))
  BY DEF SkipByte
<1>2. Between
  BY <1>1, Where, AtName
<1>3. Len(slots) \in 0..Headers /\ ~Open
  BY <1>1, <1>2, InGap
<1>4. ~(count > 0) /\ From(Len(slots)) \in Nat /\ To(Len(slots)) \in Nat
      /\ o \in From(Len(slots))..To(Len(slots)) /\ count = o - From(Len(slots))
      /\ (o < To(Len(slots)) => At(o) = "nl")
  BY <1>1, <1>2, <1>3, InGap
<1>5. From(Len(slots)) < To(Len(slots))
  BY <1>3, Gap DEF IInv
<1> QED BY <1>1, <1>4, <1>5

LEMMA BodyNotSetExact ==
  ASSUME IInv, message.crlf, BodyNotSet
  PROVE  Exact'
<1> DEFINE j == Len(slots)
<1>1. pc = "headers" /\ ~Looping /\ pc' = "parsed" /\ message' = message /\ buf' = buf
      /\ slots' = slots /\ body' = body
  BY DEF BodyNotSet
<1>2. body = 0 /\ (Between \/ Named \/ Cut) /\ o \in Nat /\ j \in Nat /\ j <= MaxHeaders
      /\ slots \in Seq([key : Spans, value : Spans])
  BY <1>1 DEF IInv, Counting, Exact, TypeOK
<1>3. Size \in Nat /\ Headers \in Nat \ {0} /\ Ending(message) = 2 /\ message.head \in Nat
  BY Shape DEF IInv
<1>4. Complete >= MaxHeaders \/ o >= Size
  BY <1>1, <1>2, <1>3, MaxHeadersAssumption DEF Looping, Complete
<1>5. CASE Between
  <2>1. j \in 0..Headers /\ Right(j) /\ o \in From(j)..To(j) /\ Len(slots) <= Headers
    BY <1>2, <1>3, <1>5 DEF Between
  <2>2. From(j) \in Nat /\ To(j) \in Nat /\ To(j) < message.head
    BY <2>1, Gap DEF IInv
  <2>3. ~Open
    BY <2>1, RightIsClosed DEF IInv
  <2>4. j >= MaxHeaders \/ Size < message.head
    BY <1>2, <1>3, <1>4, <2>1, <2>2, <2>3 DEF Complete
  <2> HIDE DEF j
  <2>5. j \in Nat /\ j <= Headers /\ Len(slots') = j /\ body' = 0
        /\ (\A k \in 1..j : slots'[k] = message.fields[k])
        /\ \A k \in 1..(j - 1) : slots'[k] = message.fields[k]
    BY <1>1, <1>2, <2>1 DEF Right, j
  <2>6. Outcome'
    BY <1>1, <2>4, <2>5, OutcomeNext
  <2> QED BY <1>1, <2>6 DEF Exact, Ends
<1>6. CASE Named
  <2>1. j \in 1..Headers /\ Right(j - 1) /\ Open /\ o = Colon(j)
    BY <1>6 DEF Named
  <2>2. Complete = j - 1
    BY <2>1 DEF Complete
  <2>3. Colon(j) \in Nat /\ Colon(j) < message.head
    <3>1. Colon(j) \in Nat /\ ValueAt(j) \in Nat /\ EndAt(j) \in Nat
          /\ Colon(j) < ValueAt(j) /\ ValueAt(j) < EndAt(j)
          /\ EndAt(j) + 2 * Ending(message) <= message.head
      BY <2>1, Line DEF IInv
    <3> QED BY <1>3, <3>1
  <2>4. Size < message.head
    BY <1>2, <1>3, <1>4, <2>1, <2>2, <2>3, MaxHeadersAssumption
  <2>5. j \in Nat /\ j <= Headers /\ Len(slots') = j /\ body' = 0
        /\ \A k \in 1..(j - 1) : slots'[k] = message.fields[k]
    BY <1>1, <1>2, <2>1 DEF Right
  <2> HIDE DEF j
  <2>6. Outcome'
    BY <1>1, <2>4, <2>5, OutcomeNext
  <2> QED BY <1>1, <2>6 DEF Exact, Ends
<1>7. CASE Cut
  <2>1. j \in 1..Headers /\ Right(j - 1) /\ Size < message.head
    BY <1>7 DEF Cut
  <2>2. j \in Nat /\ j <= Headers /\ Len(slots') = j /\ body' = 0
        /\ \A k \in 1..(j - 1) : slots'[k] = message.fields[k]
    BY <1>1, <1>2, <2>1 DEF Right
  <2> HIDE DEF j
  <2>3. Outcome'
    BY <1>1, <2>1, <2>2, OutcomeNext
  <2> QED BY <1>1, <2>3 DEF Exact, Ends
<1> QED BY <1>2, <1>5, <1>6, <1>7

\* A result without a complete last header comes from less than the head.
LEMMA PrintCrashesExact ==
  ASSUME IInv, message.crlf, PrintCrashes
  PROVE  Exact'
<1>1. pc' = "crashed" /\ message' = message /\ buf' = buf /\ slots' = slots /\ body' = body
  BY DEF PrintCrashes
<1>2. Size \in Nat /\ Headers \in Nat \ {0} /\ message.head \in Nat
  BY Shape DEF IInv
<1>3. CASE pc = "null"
  <2>1. slots = <<>> /\ body = 0 /\ Size < message.head
    BY <1>3 DEF IInv, Counting, Exact
  <2>2. 0 \in Nat /\ Len(slots') = 0 /\ 0 <= Headers /\ body' = 0
        /\ \A k \in 1..(0 - 1) : slots'[k] = message.fields[k]
    BY <1>1, <1>2, <2>1
  <2>3. Outcome'
    BY <1>1, <2>1, <2>2, OutcomeNext
  <2> QED BY <1>1, <2>1, <2>3 DEF Exact, Size, Ends
<1>4. CASE pc = "parsed" /\ (slots = <<>> \/ Open)
  <2>1. Outcome
    BY <1>4 DEF IInv, Exact
  <2>2. Size < message.head
    <3> SUFFICES ASSUME ~(Size < message.head) PROVE FALSE
      OBVIOUS
    <3>1. Len(slots) <= Headers /\ Right(Len(slots))
          /\ (Len(slots) = Headers \/ Len(slots) >= MaxHeaders)
      BY <2>1 DEF Outcome
    <3>2. ~Open
      BY <3>1, RightIsClosed DEF IInv
    <3> QED BY <1>2, <1>4, <3>1, <3>2, MaxHeadersAssumption
  <2>3. Outcome'
    BY <1>1, <2>1 DEF Outcome, Headers, Right, Size
  <2> QED BY <1>1, <2>2, <2>3 DEF Exact, Size, Ends
<1> QED BY <1>3, <1>4 DEF PrintCrashes

LEMMA ExactStep ==
  ASSUME IInv, [Next]_vars
  PROVE  Exact'
<1> SUFFICES ASSUME message.crlf PROVE Exact'
  BY BegunStep DEF IInv, Exact
<1>1. CASE FindLine
  BY <1>1, FindLineExact
<1>2. CASE LineBreak
  BY <1>2, LineBreakExact
<1>3. CASE Name
  BY <1>3, NameExact
<1>4. CASE Value
  BY <1>4, ValueExact
<1>5. CASE SkipByte
  BY <1>5, SkipByteExact
<1>6. CASE BodyNotSet
  BY <1>6, BodyNotSetExact
<1>7. CASE PrintCrashes
  BY <1>7, PrintCrashesExact
<1>8. CASE AddPeer \/ NoSlot
  <2>1. pc = "parsed" /\ pc' \in {"done", "halted"}
        /\ message' = message /\ buf' = buf /\ slots' = slots /\ body' = body
    BY <1>8 DEF AddPeer, NoSlot
  <2>2. Outcome
    BY <2>1 DEF IInv, Exact
  <2>3. Outcome'
    BY <2>1, <2>2 DEF Outcome, Headers, Right, Size
  <2> QED BY <2>1, <2>3 DEF Exact, Ends
<1>9. CASE UNCHANGED vars
  <2>1. pc' = pc /\ message' = message /\ buf' = buf /\ slots' = slots /\ body' = body
        /\ o' = o /\ count' = count /\ (reset' <=> reset)
    BY <1>9 DEF vars
  <2>2. (Between => Between') /\ (Named => Named') /\ (Cut => Cut') /\ (Outcome => Outcome')
    BY <2>1 DEF Between, Named, Cut, Outcome, From, To, KeyAt, Colon, EndAt, Behind,
                Headers, Right, Size, Open
  <2> QED BY <2>1, <2>2 DEF IInv, Exact, Size, Ends
<1> QED
  BY <1>1, <1>2, <1>3, <1>4, <1>5, <1>6, <1>7, <1>8, <1>9 DEF Next, ParseStep

-----------------------------------------------------------------------------
(* Lines that end in one byte. *)

LEMMA ShortLine ==
  ASSUME Begun, ~message.crlf, NEW i \in 1..Headers
  PROVE  /\ KeyAt(i) \in Nat /\ Colon(i) \in Nat /\ ValueAt(i) \in Nat /\ EndAt(i) \in Nat
         /\ KeyAt(i) < Colon(i) /\ Colon(i) < ValueAt(i) /\ ValueAt(i) < EndAt(i)
         /\ \A e \in KeyAt(i)..(EndAt(i) - 1) : e < Size => At(e) # "nl"
         /\ EndAt(i) < Size => At(EndAt(i)) = "nl"
         /\ Colon(i) < Size => At(Colon(i)) = ":"
         /\ IF i < Headers THEN i + 1 \in 1..Headers /\ KeyAt(i + 1) = EndAt(i) + 1
                           ELSE i = Headers
<1>1. Ending(message) = 1 /\ Size \in Nat /\ Headers \in Nat
  BY Shape
<1>2. /\ KeyAt(i) \in Nat /\ Colon(i) \in Nat /\ ValueAt(i) \in Nat /\ EndAt(i) \in Nat
      /\ KeyAt(i) < Colon(i) /\ Colon(i) < ValueAt(i) /\ ValueAt(i) < EndAt(i)
      /\ Colon(i) < Size => At(Colon(i)) = ":"
      /\ i < Headers => KeyAt(i + 1) = EndAt(i) + 1
  BY <1>1, Line
<1>3. \A e \in EndAt(i)..(EndAt(i) + 1 - 1) : e < Size => At(e) = "nl"
  BY <1>1, Line
<1>4. EndAt(i) < Size => At(EndAt(i)) = "nl"
  BY <1>2, <1>3
<1>5. \A e \in KeyAt(i)..(Colon(i) - 1) : e < Size => At(e) \notin {":", "nl"}
  BY Line
<1>6. \A e \in (Colon(i) + 1)..(ValueAt(i) - 1) : e < Size => At(e) = "space"
  BY Line
<1>7. \A e \in ValueAt(i)..(EndAt(i) - 1) : e < Size => At(e) # "nl"
  BY Line
<1>8. \A e \in KeyAt(i)..(EndAt(i) - 1) : e < Size => At(e) # "nl"
  <2> SUFFICES ASSUME NEW e \in KeyAt(i)..(EndAt(i) - 1), e < Size PROVE At(e) # "nl"
    OBVIOUS
  <2>1. \/ e \in KeyAt(i)..(Colon(i) - 1) \/ e = Colon(i)
        \/ e \in (Colon(i) + 1)..(ValueAt(i) - 1) \/ e \in ValueAt(i)..(EndAt(i) - 1)
    BY <1>2
  <2> QED BY <1>2, <1>5, <1>6, <1>7, <2>1
<1>9. IF i < Headers THEN i + 1 \in 1..Headers /\ KeyAt(i + 1) = EndAt(i) + 1 ELSE i = Headers
  BY <1>1, <1>2
<1> QED BY <1>2, <1>4, <1>8, <1>9

\* Where the loop is when it looks at a byte, and that byte.
LEMMA ShortWhere ==
  ASSUME IInv, ~message.crlf, Looping
  PROVE  /\ pc = "headers" /\ o \in Nat /\ o < Size /\ Size \in Nat
         /\ Headers \in Nat \ {0} /\ Len(slots) <= Headers /\ Len(slots) \in Nat
         /\ AtTop \/ AtBottom \/ \E i \in 1..Headers : AtLine(i) \/ AtColon(i)
         /\ AtTop => At(o) = "nl" /\ KeyAt(1) \in Nat /\ KeyAt(1) > 0 /\ o + 1 = KeyAt(1)
         /\ AtBottom => At(o) = "nl" /\ o > EndAt(Headers) /\ EndAt(Headers) \in Nat
<1>1. pc = "headers" /\ o \in Nat /\ o < Size /\ Size \in Nat /\ Headers \in Nat \ {0}
      /\ Len(slots) <= Headers /\ Len(slots) \in Nat /\ Ending(message) = 1
  BY Shape DEF Looping, IInv, TypeOK, Few
<1>2. AtTop \/ AtBottom \/ \E i \in 1..Headers : AtLine(i) \/ AtColon(i)
  BY <1>1 DEF IInv, Few
<1>3. ASSUME AtTop PROVE At(o) = "nl" /\ KeyAt(1) \in Nat /\ KeyAt(1) > 0 /\ o + 1 = KeyAt(1)
  <2>1. KeyAt(1) \in Nat /\ KeyAt(1) >= 1
        /\ \A e \in (KeyAt(1) - 1)..(KeyAt(1) - 1) : e < Size => At(e) = "nl"
    BY <1>1, Top DEF IInv
  <2> QED BY <1>1, <1>3, <2>1 DEF AtTop
<1>4. ASSUME AtBottom PROVE At(o) = "nl" /\ o > EndAt(Headers) /\ EndAt(Headers) \in Nat
  <2>1. EndAt(Headers) \in Nat /\ message.head = Len(message.bytes)
        /\ \A e \in EndAt(Headers)..(message.head - 1) : e < Size => At(e) = "nl"
    BY Bottom DEF IInv
  <2>2. Size <= message.head /\ message.head \in Nat
    BY <2>1, Shape DEF IInv
  <2> QED BY <1>1, <1>4, <2>1, <2>2 DEF AtBottom
<1> QED BY <1>1, <1>2, <1>3, <1>4

LEMMA AtBottomNext ==
  ASSUME message' = message, buf' = buf, o' >= Size \/ o' > EndAt(Headers)
  PROVE  AtBottom'
BY DEF AtBottom, Size, EndAt, Behind, Headers

LEMMA AtLineNext ==
  ASSUME message' = message, NEW i \in 1..Headers, o' \in KeyAt(i)..EndAt(i), Len(slots') < i,
         ~Open', reset' => o' = KeyAt(i)
  PROVE  AtLine(i)'
BY DEF AtLine, KeyAt, EndAt, Behind

LEMMA AtColonNext ==
  ASSUME message' = message, NEW i \in 1..Headers, o' = Colon(i), Len(slots') <= i, Open', reset'
  PROVE  AtColon(i)'
BY DEF AtColon, Colon, Behind

\* Few in the next state, in the loop.
LEMMA FewNext ==
  ASSUME message' = message, Len(slots') <= Headers,
         AtTop' \/ AtBottom' \/ \E i \in 1..Headers : AtLine(i)' \/ AtColon(i)'
  PROVE  Few'
BY DEF Few, Headers

LEMMA FindLineFew ==
  ASSUME IInv, ~message.crlf, FindLine
  PROVE  Few'
<1>1. slots = <<>> /\ ~reset
  BY DEF FindLine, IInv, Counting
<1>2. o' = Find(0, {"nl"}) /\ message' = message /\ buf' = buf /\ slots' = slots /\ (reset' <=> reset)
  BY DEF FindLine
<1>3. Size \in Nat /\ Headers \in Nat \ {0} /\ Ending(message) = 1 /\ buf \in Seq(Symbol)
  BY Shape DEF IInv, TypeOK
<1>4. /\ KeyAt(1) \in Nat /\ KeyAt(1) >= 1
      /\ \A e \in 0..(KeyAt(1) - 1 - 1) : e < Size => At(e) # "nl"
      /\ \A e \in (KeyAt(1) - 1)..(KeyAt(1) - 1) : e < Size => At(e) = "nl"
  BY <1>3, Top DEF IInv
<1>5. Find(0, {"nl"}) = IF KeyAt(1) - 1 < Size THEN KeyAt(1) - 1 ELSE Size
  <2>1. 0 \in Nat /\ 0 <= Size /\ KeyAt(1) - 1 \in Nat /\ 0 <= KeyAt(1) - 1
        /\ (KeyAt(1) - 1 < Size => At(KeyAt(1) - 1) \in {"nl"})
        /\ \A e \in 0..(KeyAt(1) - 1 - 1) : e < Size => At(e) \notin {"nl"}
    BY <1>3, <1>4
  <2> QED BY <1>3, <2>1, FindsPlace
<1>6. Len(slots') <= Headers
  BY <1>1, <1>2, <1>3
<1>7. o' = KeyAt(1) - 1 \/ o' >= Size
  BY <1>2, <1>3, <1>5
<1>8. AtTop' \/ AtBottom'
  BY <1>1, <1>2, <1>7, AtBottomNext DEF AtTop, KeyAt
<1> QED BY <1>2, <1>6, <1>8, FewNext

\* To the next line, behind the end of line i.
LEMMA NextLine ==
  ASSUME IInv, ~message.crlf, NEW i \in 1..Headers, message' = message, buf' = buf,
         o' = EndAt(i) + 1, Len(slots') \in Nat, Len(slots') <= i, ~Open'
  PROVE  Few'
<1>1. /\ EndAt(i) \in Nat /\ Headers \in Nat
      /\ IF i < Headers THEN i + 1 \in 1..Headers /\ KeyAt(i + 1) = EndAt(i) + 1 ELSE i = Headers
  BY ShortLine, Shape DEF IInv
<1>2. CASE i < Headers
  <2>1. KeyAt(i + 1) \in Nat /\ EndAt(i + 1) \in Nat /\ KeyAt(i + 1) < EndAt(i + 1)
    <3>1. i + 1 \in 1..Headers
      BY <1>1, <1>2
    <3>2. /\ KeyAt(i + 1) \in Nat /\ Colon(i + 1) \in Nat /\ ValueAt(i + 1) \in Nat
          /\ EndAt(i + 1) \in Nat /\ KeyAt(i + 1) < Colon(i + 1)
          /\ Colon(i + 1) < ValueAt(i + 1) /\ ValueAt(i + 1) < EndAt(i + 1)
      BY <3>1, ShortLine DEF IInv
    <3> QED BY <3>2
  <2>2. o' = KeyAt(i + 1) /\ o' \in KeyAt(i + 1)..EndAt(i + 1) /\ i + 1 \in 1..Headers
        /\ Len(slots') <= Headers
    BY <1>1, <1>2, <2>1
  <2>3. Len(slots') < i + 1
    BY <1>2, <2>2
  <2>4. AtLine(i + 1)'
    BY <2>2, <2>3, AtLineNext
  <2> QED BY <2>2, <2>4, FewNext
<1>3. CASE i = Headers
  <2>1. o' > EndAt(Headers) /\ Len(slots') <= Headers
    BY <1>1, <1>3
  <2>2. AtBottom'
    BY <2>1, AtBottomNext
  <2> QED BY <2>1, <2>2, FewNext
<1> QED BY <1>1, <1>2, <1>3

LEMMA LineBreakFew ==
  ASSUME IInv, ~message.crlf, LineBreak
  PROVE  Few'
<1>1. At(o) = "nl" /\ Looping /\ slots' = slots /\ message' = message /\ buf' = buf /\ reset'
      /\ (Open' <=> Open)
  BY DEF LineBreak, Open
<1>2. /\ o \in Nat /\ o < Size /\ Size \in Nat /\ Headers \in Nat \ {0}
      /\ Len(slots) <= Headers /\ Len(slots) \in Nat
      /\ AtTop \/ AtBottom \/ \E i \in 1..Headers : AtLine(i) \/ AtColon(i)
  BY <1>1, ShortWhere
<1>3. CASE pc' = "parsed"
  BY <1>1, <1>2, <1>3 DEF Few, Headers
<1>4. CASE o' = o + 1
  <2>1. CASE AtTop
    <3>1. 1 \in 1..Headers /\ KeyAt(1) \in Nat /\ o + 1 = KeyAt(1) /\ slots = <<>>
      BY <1>1, <1>2, <2>1, ShortWhere DEF AtTop
    <3>2. Colon(1) \in Nat /\ ValueAt(1) \in Nat /\ EndAt(1) \in Nat
          /\ KeyAt(1) < Colon(1) /\ Colon(1) < ValueAt(1) /\ ValueAt(1) < EndAt(1)
      BY <3>1, ShortLine DEF IInv
    <3>3. o' = KeyAt(1) /\ o' \in KeyAt(1)..EndAt(1) /\ Len(slots') < 1 /\ Len(slots') <= Headers
      BY <1>1, <1>2, <1>4, <3>1, <3>2
    <3>4. ~Open'
      BY <1>1, <3>1 DEF Open
    <3>5. AtLine(1)'
      BY <1>1, <3>1, <3>3, <3>4, AtLineNext
    <3> QED BY <1>1, <3>1, <3>3, <3>5, FewNext
  <2>2. CASE AtBottom
    <3>1. o > EndAt(Headers) /\ EndAt(Headers) \in Nat
      BY <1>1, <2>2, ShortWhere
    <3>2. o' > EndAt(Headers)
      BY <1>2, <1>4, <3>1
    <3>3. AtBottom'
      BY <1>1, <3>2, AtBottomNext
    <3> QED BY <1>1, <1>2, <3>3, FewNext
  <2>3. ASSUME NEW i \in 1..Headers, AtLine(i) PROVE Few'
    <3>1. /\ KeyAt(i) \in Nat /\ EndAt(i) \in Nat
          /\ \A e \in KeyAt(i)..(EndAt(i) - 1) : e < Size => At(e) # "nl"
      BY ShortLine DEF IInv
    <3>2. o \in KeyAt(i)..EndAt(i) /\ Len(slots) < i /\ ~Open
      BY <2>3 DEF AtLine
    <3>3. o = EndAt(i)
      BY <1>1, <1>2, <3>1, <3>2
    <3>4. Len(slots') \in Nat /\ Len(slots') <= i /\ ~Open' /\ o' = EndAt(i) + 1
      BY <1>1, <1>2, <1>4, <3>2, <3>3
    <3> QED BY <1>1, <3>4, NextLine
  <2>4. ASSUME NEW i \in 1..Headers, AtColon(i) PROVE FALSE
    <3>1. Colon(i) < Size => At(Colon(i)) = ":"
      BY ShortLine DEF IInv
    <3> QED BY <1>1, <1>2, <2>4, <3>1 DEF AtColon
  <2> QED BY <1>2, <2>1, <2>2, <2>3, <2>4
<1> QED BY <1>3, <1>4 DEF LineBreak

LEMMA NameFew ==
  ASSUME IInv, ~message.crlf, Name
  PROVE  Few'
<1> DEFINE end == Find(o + 1, {":"})
<1>1. At(o) # "nl" /\ Looping /\ message' = message /\ buf' = buf /\ reset /\ reset' /\ ~Open
  BY DEF Name
<1>2. /\ o \in Nat /\ o < Size /\ Size \in Nat /\ Headers \in Nat /\ Len(slots) \in Nat
      /\ \E i \in 1..Headers : AtLine(i)
  BY <1>1, ShortWhere DEF AtColon
<1>3. PICK i \in 1..Headers : AtLine(i)
  BY <1>2
<1>4. o = KeyAt(i) /\ Len(slots) < i
  BY <1>1, <1>3 DEF AtLine
<1>5. end = (IF Colon(i) < Size THEN Colon(i) ELSE Size) /\ At(end - 1) # ":"
  BY <1>2, <1>4, NameEnds DEF IInv
<1>6. /\ Len(slots') = Len(slots) + 1
      /\ slots'[Len(slots) + 1] = [key |-> Span(o, end - o), value |-> NoValue]
      /\ o' = IF At(end - 1) = ":" THEN end - 1 ELSE end
      /\ slots' \in Seq([key : Spans, value : Spans])
  BY NameSlot DEF IInv
<1> HIDE DEF end
<1>7. Len(slots') <= i /\ Len(slots') <= Headers
  BY <1>2, <1>4, <1>6
<1>8. Open'
  BY <1>2, <1>6 DEF Open
<1>9. CASE o' = Colon(i)
  <2>1. AtColon(i)'
    BY <1>1, <1>7, <1>8, <1>9, AtColonNext
  <2> QED BY <1>1, <1>7, <2>1, FewNext
<1>10. CASE o' >= Size
  <2>1. AtBottom'
    BY <1>1, <1>10, AtBottomNext
  <2> QED BY <1>1, <1>7, <2>1, FewNext
<1> QED BY <1>2, <1>5, <1>6, <1>9, <1>10

LEMMA ValueFew ==
  ASSUME IInv, ~message.crlf, Value
  PROVE  Few'
<1> DEFINE j == Len(slots)
           first == Find(o + 1, Others({"space", "nl"}))
           end   == Find(first, {"nl"})
           value == Span(first, IF end < Size THEN end - first ELSE Max({Size - first - 1, 0}))
<1>1. Looping /\ Open /\ At(o) = ":"
  BY DEF Value
<1>2. /\ o \in Nat /\ o < Size /\ Size \in Nat /\ Headers \in Nat /\ j \in Nat
      /\ \E i \in 1..Headers : AtColon(i)
  BY <1>1, ShortWhere DEF AtLine
<1>3. PICK i \in 1..Headers : AtColon(i)
  BY <1>2
<1>4. o = Colon(i) /\ j <= i
  BY <1>3 DEF AtColon
<1>5. /\ first = (IF ValueAt(i) < Size THEN ValueAt(i) ELSE Size)
      /\ end = (IF EndAt(i) < Size THEN EndAt(i) ELSE Size)
  BY <1>2, <1>4, ValueEnds DEF IInv
<1>6. /\ Len(slots') = j /\ j \in Nat \ {0} /\ first \in (o + 1)..Size
      /\ slots'[j] = [key |-> slots[j].key, value |-> value]
      /\ end < Size => o' = end + 1
      /\ end = Size => o' >= Size
  BY ValueSlot DEF IInv
<1>7. message' = message /\ buf' = buf /\ ~reset'
  BY ValueRest
<1>8. ~Open'
  <2>1. slots'[j].value.at = first
    BY <1>6 DEF Span
  <2>2. first # 0
    BY <1>2, <1>6
  <2> QED BY <1>6, <2>1, <2>2 DEF Open, NoValue, Span
<1> HIDE DEF j, first, end
<1>9. EndAt(i) \in Nat /\ Len(slots') \in Nat /\ Len(slots') <= i /\ Len(slots') <= Headers
  BY <1>2, <1>4, <1>6, ShortLine DEF IInv
<1>10. CASE EndAt(i) < Size
  <2>1. o' = EndAt(i) + 1
    BY <1>5, <1>6, <1>10
  <2> QED BY <1>7, <1>8, <1>9, <2>1, NextLine
<1>11. CASE ~(EndAt(i) < Size)
  <2>1. o' >= Size
    BY <1>5, <1>6, <1>11
  <2>2. AtBottom'
    BY <1>7, <2>1, AtBottomNext
  <2> QED BY <1>7, <1>9, <2>2, FewNext
<1> QED BY <1>10, <1>11

LEMMA SkipByteFew ==
  ASSUME IInv, ~message.crlf, SkipByte
  PROVE  Few'
<1>1. Looping /\ At(o) # "nl" /\ (~reset \/ (Open /\ At(o) # ":")) /\ o' = o + 1
      /\ (reset' <=> reset) /\ slots' = slots /\ message' = message /\ buf' = buf
      /\ (Open' <=> Open)
  BY DEF SkipByte, Open
<1>2. /\ o \in Nat /\ o < Size /\ Size \in Nat /\ Len(slots) <= Headers
      /\ \E i \in 1..Headers : AtLine(i) \/ AtColon(i)
  BY <1>1, ShortWhere
<1>3. PICK i \in 1..Headers : AtLine(i) \/ AtColon(i)
  BY <1>2
<1>4. /\ KeyAt(i) \in Nat /\ EndAt(i) \in Nat
      /\ EndAt(i) < Size => At(EndAt(i)) = "nl"
      /\ Colon(i) < Size => At(Colon(i)) = ":"
  BY ShortLine DEF IInv
<1>5. AtLine(i)
  BY <1>1, <1>2, <1>3, <1>4 DEF AtColon
<1>6. o \in KeyAt(i)..EndAt(i) /\ o # EndAt(i) /\ Len(slots) < i /\ ~Open /\ ~reset
  BY <1>1, <1>2, <1>4, <1>5 DEF AtLine
<1>7. o' \in KeyAt(i)..EndAt(i) /\ Len(slots') < i /\ ~Open' /\ ~reset' /\ Len(slots') <= Headers
  BY <1>1, <1>2, <1>4, <1>6
<1>8. AtLine(i)'
  BY <1>1, <1>7, AtLineNext
<1> QED BY <1>1, <1>7, <1>8, FewNext

LEMMA FewStep ==
  ASSUME IInv, [Next]_vars
  PROVE  Few'
<1> SUFFICES ASSUME ~message.crlf PROVE Few'
  BY BegunStep DEF IInv, Few
<1>1. CASE FindLine
  BY <1>1, FindLineFew
<1>2. CASE LineBreak
  BY <1>2, LineBreakFew
<1>3. CASE Name
  BY <1>3, NameFew
<1>4. CASE Value
  BY <1>4, ValueFew
<1>5. CASE SkipByte
  BY <1>5, SkipByteFew
<1>6. CASE BodyNotSet \/ PrintCrashes \/ AddPeer \/ NoSlot
  <2>1. pc' # "headers" /\ message' = message /\ slots' = slots
    BY <1>6 DEF BodyNotSet, PrintCrashes, AddPeer, NoSlot
  <2> QED BY <2>1 DEF IInv, Few, Headers
<1>7. CASE UNCHANGED vars
  <2>1. pc' = pc /\ message' = message /\ buf' = buf /\ slots' = slots /\ o' = o /\ (reset' <=> reset)
    BY <1>7 DEF vars
  <2>2. (AtTop => AtTop') /\ (AtBottom => AtBottom')
        /\ \A i \in 1..Headers : (AtLine(i) => AtLine(i)') /\ (AtColon(i) => AtColon(i)')
    BY <2>1 DEF AtTop, AtBottom, AtLine, AtColon, KeyAt, Colon, EndAt, Behind, Headers, Size, Open
  <2> QED BY <2>1, <2>2 DEF IInv, Few, Headers
<1> QED
  BY <1>1, <1>2, <1>3, <1>4, <1>5, <1>6, <1>7 DEF Next, ParseStep

-----------------------------------------------------------------------------
(* Theorems. *)

\* Every step of the parser, and of what is done with its result, keeps the invariant.
THEOREM Invariance == Spec => []IInv
<1>1. Init => IInv
  <2> SUFFICES ASSUME Init PROVE IInv
    OBVIOUS
  <2>1. PICK n \in 0..Len(message.bytes) : buf = SubSeq(message.bytes, 1, n)
    BY DEF Init
  <2>2. message \in Message /\ message.bytes \in Seq(Symbol)
    BY MessageAssumption DEF Init
  <2>3. buf \in Seq(Symbol) /\ Len(buf) = n /\ \A k \in 1..n : buf[k] = message.bytes[k]
    BY <2>1, <2>2
  <2>4. Begun
    BY <2>1, <2>2, <2>3 DEF Begun, Size
  <2>5. pc = "line" /\ o = 0 /\ ~reset /\ reset \in BOOLEAN /\ count = 0 /\ slots = <<>> /\ body = 0
    BY DEF Init
  <2>6. TypeOK
    BY <2>3, <2>5, MaxHeadersAssumption DEF TypeOK
  <2>7. Headers \in Nat
    BY <2>4, Shape
  <2> QED BY <2>4, <2>5, <2>6, <2>7 DEF IInv, Counting, Exact, Few, Ends
<1>2. IInv /\ [Next]_vars => IInv'
  BY TypeStep, BegunStep, CountingStep, ExactStep, FewStep DEF IInv
<1> QED
  BY <1>1, <1>2, PTL DEF Spec

\* Offsets stay natural numbers, slots hold spans, and parse_headers() never takes more of
\* them than MAX_HEADERS (headers.c:153-184).
THEOREM TypeCorrect == Spec => []TypeOK
BY Invariance, PTL DEF IInv

\* On every part of every message parse_headers() reads no header wrong, but the one the
\* part breaks off in: the last slot (headers.c:153-184).
THEOREM HeadersAreRight == Spec => []NoWrongHeader
<1>1. IInv => NoWrongHeader
  <2> SUFFICES ASSUME IInv, message.crlf, NEW k \in 1..(Len(slots) - 1), k <= Headers
               PROVE  slots[k] = message.fields[k]
    BY DEF NoWrongHeader, Headers
  <2>1. Right(Len(slots) - 1) \/ slots = <<>>
    <3>1. CASE pc \in {"line", "null"}
      BY <3>1 DEF IInv, Exact
    <3>2. CASE pc = "headers"
      <4>1. Between \/ Named \/ Cut
        BY <3>2 DEF IInv, Exact
      <4> QED BY <4>1 DEF Between, Named, Cut, Right, IInv, TypeOK
    <3>3. CASE pc \in {"parsed"} \cup Ends
      BY <3>3 DEF IInv, Exact, Outcome
    <3> QED BY <3>1, <3>2, <3>3 DEF IInv, TypeOK
  <2> QED BY <2>1 DEF Right
<1> QED
  BY <1>1, Invariance, PTL

\* free_header_slot() halts the worker for nothing but a message of MAX_HEADERS headers or
\* more, and print_headers() crashes on nothing but a part of a head (headers.c:48-53 and
\* 107-118).
THEOREM WholeHeadIsSafe == Spec => []WholeHeadSurvives
<1>1. IInv => WholeHeadSurvives
  <2> SUFFICES ASSUME IInv PROVE WholeHeadSurvives
    OBVIOUS
  <2>1. ASSUME pc = "halted" PROVE Len(message.fields) >= MaxHeaders
    <3>1. Len(slots) >= MaxHeaders /\ Len(slots) \in Nat
      BY <2>1 DEF IInv, Counting, TypeOK
    <3>2. Len(slots) <= Headers
      <4>1. CASE message.crlf
        BY <2>1, <4>1 DEF IInv, Exact, Outcome, Ends
      <4>2. CASE ~message.crlf
        BY <4>2 DEF IInv, Few
      <4> QED BY <4>1, <4>2
    <3> QED BY <3>1, <3>2, Shape, MaxHeadersAssumption DEF IInv, Headers
  <2>2. pc = "crashed" /\ message.crlf => Size < message.head
    BY DEF IInv, Exact
  <2> QED BY <2>1, <2>2 DEF WholeHeadSurvives
<1> QED
  BY <1>1, Invariance, PTL

\* parse_headers() sets the body for exactly those parts of a message that hold its whole
\* head, behind that head, and then has every header that was sent (headers.c:153-184).
THEOREM HeadIsFound == Spec => []HeadFound
<1>1. IInv => HeadFound
  <2> SUFFICES ASSUME IInv, pc = "done", message.crlf, Len(message.fields) < MaxHeaders
               PROVE  IF Size >= message.head
                      THEN body = message.head /\ slots = message.fields
                      ELSE body = 0
    BY DEF HeadFound
  <2>1. Outcome
    BY DEF IInv, Exact, Ends
  <2>2. Size \in Nat /\ message.head \in Nat /\ Headers \in Nat /\ Len(slots) \in Nat
    BY Shape DEF IInv, TypeOK
  <2>3. ~(Len(slots) >= MaxHeaders)
    BY <2>1, <2>2, MaxHeadersAssumption DEF Outcome, Headers
  <2>4. CASE Size < message.head
    BY <2>1, <2>2, <2>3, <2>4 DEF Outcome
  <2>5. CASE ~(Size < message.head)
    <3>1. body = message.head /\ Len(slots) = Headers /\ Right(Headers)
      BY <2>1, <2>3, <2>5 DEF Outcome
    <3>2. slots \in Seq([key : Spans, value : Spans])
          /\ message.fields \in Seq([key : Spans, value : Spans])
      BY Shape DEF IInv, TypeOK
    <3>3. slots = message.fields
      BY <3>1, <3>2 DEF Headers, Right
    <3> QED BY <2>2, <2>5, <3>1, <3>3
  <2> QED BY <2>4, <2>5
<1> QED
  BY <1>1, Invariance, PTL

\* Once the head is in, parse_method() finds the method behind any spaces, and parse_path()
\* the path, without its query, when nothing comes before the method (requests.c:152-182).
THEOREM RequestLineIsRead == Spec => []RequestLineRead
<1> DEFINE method == message.method
           path   == message.path
<1>1. IInv => RequestLineRead
  <2> SUFFICES ASSUME IInv, pc = "done", message.crlf, body > 0
               PROVE  Method = method /\ (method.at = 0 => Path = path)
    BY DEF RequestLineRead
  <2>1. Outcome /\ body # 0
    BY DEF IInv, Exact, Ends, TypeOK
  <2>2. Size >= message.head
    BY <2>1 DEF Outcome
  <2>3. /\ message \in Message /\ Size \in Nat /\ message.head \in Nat /\ RequestLine(message)
        /\ buf \in Seq(Symbol) /\ Ending(message) = 2 /\ Headers \in Nat \ {0}
    BY Shape DEF IInv, Begun, HeadIn, TypeOK
  <2>4. method \in Spans /\ path \in Spans
    BY <2>3, MessageAssumption DEF Spans
  <2>5. /\ method.at \in Nat /\ method.length \in Nat /\ Behind(method) \in Nat
        /\ path.at \in Nat /\ path.length \in Nat /\ Behind(path) \in Nat
        /\ Behind(method) = method.at + method.length /\ Behind(path) = path.at + path.length
    BY <2>4 DEF Spans, Behind
  <2>6. /\ method.length > 0 /\ path.at > Behind(method) /\ path.length > 0
        /\ Behind(path) < KeyAt(1) /\ Byte(message, Behind(path)) \in {"space", "nl", "?"}
        /\ Holds(message, 0, method.at, {"space"})
        /\ Holds(message, method.at, Behind(method), Others({"space", "nl"}))
        /\ Holds(message, Behind(method), path.at, {"space"})
        /\ Holds(message, path.at, Behind(path), Others({"space", "nl", "?"}))
    BY <2>3 DEF RequestLine, KeyAt
  <2>7. KeyAt(1) \in Nat /\ KeyAt(1) < Size
    <3>1. 1 \in 1..Headers
      BY <2>3
    <3>2. /\ KeyAt(1) \in Nat /\ Colon(1) \in Nat /\ ValueAt(1) \in Nat /\ EndAt(1) \in Nat
          /\ KeyAt(1) < Colon(1) /\ Colon(1) < ValueAt(1) /\ ValueAt(1) < EndAt(1)
          /\ EndAt(1) + 2 * Ending(message) <= message.head
      BY <3>1, Line DEF IInv
    <3> QED BY <2>2, <2>3, <3>2
  <2>8. 0 \in Nat /\ Begun
    BY DEF IInv
  <2> HIDE DEF method, path
  <2>9. \A e \in 0..(method.at - 1) : e < Size => At(e) \in {"space"}
    BY <2>5, <2>6, <2>8, TextHolds
  <2>10. \A e \in method.at..(Behind(method) - 1) : e < Size => At(e) \in Others({"space", "nl"})
    BY <2>5, <2>6, <2>8, TextHolds
  <2>11. \A e \in Behind(method)..(path.at - 1) : e < Size => At(e) \in {"space"}
    BY <2>5, <2>6, <2>8, TextHolds
  <2>12. \A e \in path.at..(Behind(path) - 1) : e < Size => At(e) \in Others({"space", "nl", "?"})
    BY <2>5, <2>6, <2>8, TextHolds
  <2>13. At(Behind(path)) \in {"space", "nl", "?"}
    BY <2>3, <2>5, <2>6, <2>7, <2>8, TextAt
  <2>14. method.at < Size /\ Behind(method) < Size /\ path.at < Size /\ Behind(path) < Size
         /\ At(method.at) \in Others({"space", "nl"}) /\ At(Behind(method)) = "space"
         /\ At(path.at) \in Others({"space", "nl"})
    <3>1. method.at < Size /\ Behind(method) < Size /\ path.at < Size /\ Behind(path) < Size
      <4>1. method.at < Behind(method) /\ path.at < Behind(path)
        BY <2>5, <2>6
      <4>2. Behind(method) < path.at /\ Behind(path) < KeyAt(1)
        BY <2>6
      <4>3. Size \in Nat
        BY <2>3
      <4> QED BY <2>5, <2>7, <4>1, <4>2, <4>3
    <3>2. At(method.at) \in Others({"space", "nl"}) /\ At(Behind(method)) = "space"
          /\ At(path.at) \in Others({"space", "nl", "?"})
      <4>1. At(method.at) \in Others({"space", "nl"})
        BY <2>5, <2>6, <2>10, <3>1
      <4>2. At(Behind(method)) = "space"
        BY <2>5, <2>6, <2>11, <3>1
      <4>3. At(path.at) \in Others({"space", "nl", "?"})
        BY <2>5, <2>6, <2>12, <3>1
      <4> QED BY <4>1, <4>2, <4>3
    <3> QED BY <3>1, <3>2 DEF Others
  <2>15. Find(0, Others({"space", "nl"})) = method.at
    <3>1. \A e \in 0..(method.at - 1) : e < Size => At(e) \notin Others({"space", "nl"})
      BY <2>9 DEF Others
    <3>2. 0 <= Size /\ 0 <= method.at
      BY <2>3, <2>5
    <3> QED BY <2>3, <2>5, <2>8, <2>14, <3>1, <3>2, FindsPlace
  <2>16. Find(method.at + 1, {"space", "nl"}) = Behind(method)
    <3>1. \A e \in (method.at + 1)..(Behind(method) - 1) : e < Size => At(e) \notin {"space", "nl"}
      BY <2>5, <2>10 DEF Others
    <3>2. method.at + 1 \in Nat /\ method.at + 1 <= Size /\ method.at + 1 <= Behind(method)
          /\ At(Behind(method)) \in {"space", "nl"}
      BY <2>3, <2>5, <2>6, <2>14
    <3> QED BY <2>3, <2>5, <2>14, <3>1, <3>2, FindsPlace
  <2>17. Method = method
    <3>1. Method = Span(method.at, Behind(method) - method.at)
      BY <2>15, <2>16 DEF Method
    <3>2. Behind(method) - method.at = method.length
          /\ method = [at |-> method.at, length |-> method.length]
      BY <2>4, <2>5 DEF Spans, method
    <3> QED BY <3>1, <3>2 DEF Span
  <2>18. ASSUME method.at = 0 PROVE Path = path
    <3>1. Find(0, {"space", "nl"}) = Behind(method)
      <4>1. \A e \in 0..(Behind(method) - 1) : e < Size => At(e) \notin {"space", "nl"}
        BY <2>5, <2>10, <2>18 DEF Others
      <4>2. 0 <= Size /\ 0 <= Behind(method) /\ At(Behind(method)) \in {"space", "nl"}
        BY <2>3, <2>5, <2>14
      <4> QED BY <2>3, <2>5, <2>8, <2>14, <4>1, <4>2, FindsPlace
    <3>2. Find(Behind(method), Others({"space", "nl"})) = path.at
      <4>1. \A e \in Behind(method)..(path.at - 1) : e < Size => At(e) \notin Others({"space", "nl"})
        BY <2>11 DEF Others
      <4>2. Behind(method) <= Size /\ Behind(method) <= path.at
        BY <2>3, <2>5, <2>6, <2>14
      <4> QED BY <2>3, <2>5, <2>14, <4>1, <4>2, FindsPlace
    <3>3. Find(path.at, {"space", "nl", "?"}) = Behind(path)
      <4>1. \A e \in path.at..(Behind(path) - 1) : e < Size => At(e) \notin {"space", "nl", "?"}
        BY <2>12 DEF Others
      <4>2. path.at <= Size /\ path.at <= Behind(path)
        BY <2>3, <2>5, <2>14
      <4> QED BY <2>3, <2>5, <2>13, <2>14, <4>1, <4>2, FindsPlace
    <3>4. Path = Span(path.at, Behind(path) - path.at)
      BY <3>1, <3>2, <3>3 DEF Path
    <3>5. Behind(path) - path.at = path.length /\ path = [at |-> path.at, length |-> path.length]
      BY <2>4, <2>5 DEF Spans, path
    <3> QED BY <3>4, <3>5 DEF Span
  <2> QED BY <2>17, <2>18 DEF method, path
<1> QED
  BY <1>1, Invariance, PTL
=============================================================================
