--------------------------- MODULE TemplateProofs ---------------------------
(***************************************************************************)
(* What parse_file() makes of a file, for files of every length.           *)
(***************************************************************************)
EXTENDS Template, SequenceTheorems, FiniteSetTheorems, TLAPS

\* Where the parser is: l is an offset between scripts and a length inside one, and
\* neither ever leads out of the file.
ParserInv ==
  /\ l <= Size
  /\ pc = "script" => o < Size /\ Opens(o) /\ (l = 0 \/ o + l + 3 <= Size)

Count(n) == Cardinality(Openings(n))

\* Every opening mark behind the parser has left two marks at most, the one it is inside
\* of the text before it, and the end of the file one more.
CountInv ==
  /\ pc = "scan" => Len(parsed) <= 2 * Count(o)
  /\ pc # "scan" => Len(parsed) <= 2 * Count(o) + 1

IInv == TypeOK /\ ParserInv /\ MarksInside /\ CountInv

\* A symbol that is not 0 is one of the file.
LEMMA InFile ==
  ASSUME NEW k \in Nat, source \in Seq(Symbol), At(k) # "nul"
  PROVE  k < Size
  BY DEF At

\* In a file without a byte 0 the end is where At() says so.
LEMMA AtEnd ==
  ASSUME NEW k \in Nat, source \in Seq(Symbol), NoNul, At(k) = "nul", k <= Size
  PROVE  k = Size
<1>1. Size \in Nat
  BY DEF Size
<1>2. SUFFICES ASSUME k < Size PROVE FALSE
  BY <1>1
<1>3. k + 1 \in 1..Size /\ source[k + 1] = "nul"
  BY <1>1, <1>2 DEF At
<1> QED
  BY <1>3 DEF NoNul

\* Opens and Closes point into the file.
LEMMA DelimiterInFile ==
  ASSUME NEW k \in Nat, source \in Seq(Symbol)
  PROVE  /\ Opens(k) => k < Size
         /\ Closes(k) => k + 1 < Size
<1>1. Opens(k) => At(k) # "nul"
  BY DEF Opens
<1>2. Closes(k) => At(k + 1) # "nul"
  BY DEF Closes
<1> QED
  BY <1>1, <1>2, InFile

\* As long as the file is the same, so is what is in it.
LEMMA SameFile ==
  ASSUME source' = source
  PROVE  /\ Size' = Size
         /\ NoNul' = NoNul
         /\ Paired' = Paired
         /\ \A k : Opens(k)' = Opens(k) /\ Closes(k)' = Closes(k)
  BY DEF Size, NoNul, Paired, Opens, Closes, At

\* A mark that is inside the file keeps all of them inside.
LEMMA AppendInside ==
  ASSUME NEW m \in Marks, parsed \in Seq(Marks), Size \in Nat, MarksInside,
         source' = source, parsed' = Append(parsed, m),
         NoNul => m.length >= 0 /\ m.offset + m.length <= Size
  PROVE  MarksInside'
<1>1. SUFFICES ASSUME NoNul, NEW k \in 1..Len(parsed')
               PROVE  parsed'[k].length >= 0 /\ parsed'[k].offset + parsed'[k].length <= Size
  BY SameFile DEF MarksInside
<1>2. /\ Len(parsed) \in Nat /\ Len(parsed') = Len(parsed) + 1
      /\ \A j \in 1..Len(parsed) : parsed'[j] = parsed[j]
      /\ parsed'[Len(parsed) + 1] = m
  BY AppendProperties
<1>3. CASE k \in 1..Len(parsed)
  BY <1>1, <1>2, <1>3 DEF MarksInside
<1>4. CASE k = Len(parsed) + 1
  BY <1>1, <1>2, <1>4
<1> QED
  BY <1>1, <1>2, <1>3, <1>4

\* A text shows offsets, none if its length is below 0.
LEMMA OffsetsType ==
  ASSUME NEW m \in Marks
  PROVE  Offsets(m) \in Seq(Nat)
<1>1. m.offset \in Nat /\ m.length \in Int
  BY DEF Marks
<1>2. \A k \in 1..m.length : m.offset + k - 1 \in Nat
  BY <1>1
<1>3. PICK n \in Nat : 1..m.length = 1..n
  <2>1. CASE m.length >= 0
    BY <1>1, <2>1
  <2>2. CASE m.length < 0
    <3>1. 1..m.length = 1..0
      BY <1>1, <2>2
    <3> QED
      BY <3>1
  <2> QED
    BY <1>1, <2>1, <2>2
<1>4. Offsets(m) \in [1..n -> Nat]
  BY <1>2, <1>3 DEF Offsets
<1> QED
  BY <1>4, SeqDef

\* How the number of opening marks grows with the part of the file.
LEMMA CountGrows ==
  ASSUME NEW n \in Nat, NEW m \in Nat, n <= m
  PROVE  /\ Count(n) \in Nat
         /\ Count(n) <= Count(m)
         /\ ~Opens(n) => Count(n + 1) = Count(n)
         /\ Opens(n) => Count(n + 1) = Count(n) + 1
<1>1. \A k \in Nat : IsFiniteSet(Openings(k)) /\ Count(k) \in Nat
  <2>1. SUFFICES ASSUME NEW k \in Nat PROVE IsFiniteSet(Openings(k)) /\ Count(k) \in Nat
    OBVIOUS
  <2>2. IsFiniteSet(0..(k - 1))
    BY FS_Interval
  <2>3. Openings(k) \subseteq 0..(k - 1)
    BY DEF Openings
  <2> QED
    BY <2>2, <2>3, FS_Subset, FS_CardinalityType DEF Count
<1>2. Openings(n) \subseteq Openings(m)
  BY DEF Openings
<1>3. Count(n) <= Count(m)
  BY <1>1, <1>2, FS_Subset DEF Count
<1>4. CASE ~Opens(n)
  <2>1. Openings(n + 1) = Openings(n)
    BY <1>4 DEF Openings
  <2> QED
    BY <1>1, <1>3, <1>4, <2>1 DEF Count
<1>5. CASE Opens(n)
  <2>1. Openings(n + 1) = Openings(n) \cup {n} /\ n \notin Openings(n)
    BY <1>5 DEF Openings
  <2> QED
    BY <1>1, <1>3, <1>5, <2>1, FS_AddElement DEF Count
<1> QED
  BY <1>4, <1>5

\* The first state: nothing is marked.
LEMMA InitIInv == ASSUME Init PROVE IInv
<1>1. source \in Seq(Symbol) /\ Size \in Nat
  BY SourceAssumption DEF Init, Size
<1>2. TypeOK
  BY <1>1 DEF Init, TypeOK, Marks, Size
<1>3. ParserInv /\ MarksInside
  BY <1>1 DEF Init, ParserInv, MarksInside
<1>4. CountInv
  <2>1. pc = "scan" /\ o = 0 /\ parsed = <<>> /\ Count(0) \in Nat
    BY CountGrows DEF Init
  <2> QED
    BY <2>1 DEF CountInv
<1> QED
  BY <1>2, <1>3, <1>4 DEF IInv

\* Every step keeps the number of marks below what the opening marks allow.
LEMMA StepCount ==
  ASSUME TypeOK, ParserInv, CountInv, [Next]_vars
  PROVE  CountInv'
<1>0. o \in Nat /\ l \in Nat /\ parsed \in Seq(Marks) /\ Len(parsed) \in Nat
  BY DEF TypeOK
<1>1. source' = source
  BY DEF Next, ParseStep, vars, Scan, OpenScript, SkipScript, CloseScript, Unclosed, EndMark,
         ShowText, RunScript, ExitScript, EndEval
<1>2. \A n : Count(n)' = Count(n')
  BY <1>1, SameFile DEF Count, Openings
<1>3. Count(o) \in Nat /\ Count(o)' = Count(o')
  BY <1>0, <1>2, CountGrows
<1>4. \A m : Len(Append(parsed, m)) = Len(parsed) + 1
  BY <1>0, AppendProperties
<1>5. CASE Scan
  <2>1. Count(o + 1) = Count(o)
    BY <1>0, <1>5, CountGrows DEF Scan
  <2> QED
    BY <1>3, <1>5, <2>1 DEF Scan, CountInv
<1>6. CASE OpenScript
  BY <1>0, <1>3, <1>4, <1>6 DEF OpenScript, CountInv
<1>7. CASE SkipScript
  BY <1>3, <1>7 DEF SkipScript, CountInv
<1>8. CASE CloseScript
  <2>1. Count(o + 1) = Count(o) + 1
    BY <1>0, <1>8, CountGrows DEF CloseScript, ParserInv
  <2>2. Count(o + 1) <= Count(o + l + 4) /\ Count(o + l + 4) \in Nat
    <3>1. o + 1 \in Nat /\ o + l + 4 \in Nat /\ o + 1 <= o + l + 4
      BY <1>0
    <3> QED
      BY <3>1, CountGrows
  <2> QED
    BY <1>0, <1>3, <1>4, <1>8, <2>1, <2>2 DEF CloseScript, CountInv
<1>9. CASE Unclosed
  <2>1. Count(o + 1) = Count(o) + 1
    BY <1>0, <1>9, CountGrows DEF Unclosed, ParserInv
  <2> QED
    BY <1>0, <1>3, <1>9, <2>1 DEF Unclosed, CountInv
<1>10. CASE EndMark
  BY <1>0, <1>3, <1>4, <1>10 DEF EndMark, CountInv
<1>11. CASE ShowText \/ RunScript \/ ExitScript \/ EndEval \/ UNCHANGED vars
  BY <1>3, <1>11 DEF ShowText, RunScript, ExitScript, EndEval, vars, CountInv
<1> QED
  BY <1>5, <1>6, <1>7, <1>8, <1>9, <1>10, <1>11 DEF Next, ParseStep

\* Every step keeps it: at most one mark is added, and l is where it may be.
LEMMA StepOthers ==
  ASSUME TypeOK, ParserInv, MarksInside, [Next]_vars
  PROVE  TypeOK' /\ ParserInv' /\ MarksInside'
<1>0. Size \in Nat /\ source \in Seq(Symbol) /\ o \in Nat /\ l \in Nat /\ o <= Size
      /\ l <= Size /\ parsed \in Seq(Marks) /\ Len(parsed) \in Nat
  BY DEF TypeOK, ParserInv, Size
<1>1. CASE Scan
  <2>1. o < Size
    BY <1>0, <1>1, InFile DEF Scan
  <2>2. TypeOK'
    BY <1>0, <1>1, <2>1 DEF Scan, TypeOK, Size
  <2>3. ParserInv' /\ MarksInside'
    BY <1>1, SameFile DEF Scan, ParserInv, MarksInside
  <2> QED
    BY <2>2, <2>3
<1>2. CASE OpenScript
  <2>0. source' = source /\ o' = o /\ l' = 0
    BY <1>2 DEF OpenScript
  <2>1. o < Size
    BY <1>0, <1>2, DelimiterInFile DEF OpenScript
  <2>2. l < o => Mark("TEXT", l, o - l) \in Marks
    BY <1>0 DEF Mark, Marks
  <2>3. TypeOK'
    BY <1>0, <1>2, <2>2 DEF OpenScript, TypeOK, Size
  <2>4. ParserInv'
    BY <1>0, <1>2, <2>0, <2>1, SameFile DEF OpenScript, ParserInv
  <2>5. CASE l < o
    <3>1. parsed' = Append(parsed, Mark("TEXT", l, o - l))
      BY <1>2, <2>5 DEF OpenScript
    <3> QED
      BY <1>0, <2>0, <2>2, <2>3, <2>4, <2>5, <3>1, AppendInside DEF Mark
  <2>6. CASE ~(l < o)
    <3>1. parsed' = parsed
      BY <1>2, <2>6 DEF OpenScript
    <3>2. MarksInside'
      BY <2>0, <3>1, SameFile DEF MarksInside
    <3> QED
      BY <2>3, <2>4, <3>2
  <2> QED
    BY <2>5, <2>6
<1>3. CASE SkipScript
  <2>1. source' = source /\ o' = o /\ l' = l + 1 /\ o + l + 3 < Size
    BY <1>3 DEF SkipScript
  <2>2. TypeOK'
    BY <1>0, <1>3, <2>1 DEF SkipScript, TypeOK, Size
  <2>3. ParserInv'
    BY <1>0, <1>3, <2>1, SameFile DEF SkipScript, ParserInv
  <2>4. MarksInside'
    BY <1>3, SameFile DEF SkipScript, MarksInside
  <2> QED
    BY <2>2, <2>3, <2>4
<1>4. CASE CloseScript
  <2>0. source' = source /\ o' = o + l + 4 /\ l' = o + l + 5
        /\ parsed' = Append(parsed, Mark("SCRIPT", o + 3, l)) /\ pc' = "scan"
    BY <1>4 DEF CloseScript
  <2>1. o + l + 4 < Size
    <3>1. o + l + 3 \in Nat /\ Closes(o + l + 3)
      BY <1>0, <1>4 DEF CloseScript
    <3>2. (o + l + 3) + 1 < Size
      BY <1>0, <3>1, DelimiterInFile
    <3> QED
      BY <1>0, <3>2
  <2>2. Mark("SCRIPT", o + 3, l) \in Marks
    BY <1>0 DEF Mark, Marks
  <2>3. TypeOK'
    BY <1>0, <1>4, <2>1, <2>2 DEF CloseScript, TypeOK, Size
  <2>4. ParserInv'
    BY <1>0, <2>0, <2>1, SameFile DEF ParserInv
  <2>5. MarksInside'
    BY <1>0, <2>0, <2>1, <2>2, AppendInside DEF Mark
  <2> QED
    BY <2>3, <2>4, <2>5
<1>5. CASE Unclosed
  <2>1. o < Size
    BY <1>5 DEF Unclosed, ParserInv
  <2>2. TypeOK'
    BY <1>0, <1>5, <2>1 DEF Unclosed, TypeOK, Size
  <2>3. ParserInv' /\ MarksInside'
    BY <1>0, <1>5, SameFile DEF Unclosed, ParserInv, MarksInside
  <2> QED
    BY <2>2, <2>3
<1>6. CASE EndMark
  <2>0. source' = source /\ parsed' = Append(parsed, Mark("TEXT", l, o - l)) /\ pc' = "eval" /\ l' = l
    BY <1>6 DEF EndMark
  <2>1. Mark("TEXT", l, o - l) \in Marks
    BY <1>0 DEF Mark, Marks
  <2>2. TypeOK'
    BY <1>0, <1>6, <2>1 DEF EndMark, TypeOK, Size
  <2>3. ParserInv'
    BY <1>0, <2>0, SameFile DEF ParserInv
  <2>4. NoNul => o = Size
    BY <1>0, <1>6, AtEnd DEF EndMark
  <2>5. MarksInside'
    BY <1>0, <2>0, <2>1, <2>4, AppendInside DEF Mark
  <2> QED
    BY <2>2, <2>3, <2>5
<1>7. CASE ShowText
  <2>0. i \in 1..Len(parsed) /\ parsed[i] \in Marks
    BY <1>0, <1>7, ElementOfSeq DEF ShowText, TypeOK
  <2>1. Offsets(parsed[i]) \in Seq(Nat)
    BY <2>0, OffsetsType
  <2>2. shown' \in Seq(Nat)
    BY <1>7, <2>1, ConcatProperties DEF ShowText, TypeOK
  <2>4. TypeOK'
    BY <1>0, <1>7, <2>2 DEF ShowText, TypeOK, Size
  <2>3. ParserInv' /\ MarksInside'
    BY <1>7, SameFile DEF ShowText, ParserInv, MarksInside
  <2> QED
    BY <2>3, <2>4
<1>8. CASE RunScript
  <2>1. TypeOK'
    BY <1>0, <1>8 DEF RunScript, TypeOK, Size
  <2>2. ParserInv' /\ MarksInside'
    BY <1>8, SameFile DEF RunScript, ParserInv, MarksInside
  <2> QED
    BY <2>1, <2>2
<1>9. CASE ExitScript \/ EndEval
  <2>1. TypeOK'
    BY <1>0, <1>9 DEF ExitScript, EndEval, TypeOK, Size
  <2>2. ParserInv' /\ MarksInside'
    BY <1>9, SameFile DEF ExitScript, EndEval, ParserInv, MarksInside
  <2> QED
    BY <2>1, <2>2
<1>10. CASE UNCHANGED vars
  BY <1>10, SameFile DEF vars, TypeOK, Size, ParserInv, MarksInside
<1> QED
  BY <1>1, <1>2, <1>3, <1>4, <1>5, <1>6, <1>7, <1>8, <1>9, <1>10 DEF Next, ParseStep

LEMMA StepIInv == ASSUME IInv, [Next]_vars PROVE IInv'
  BY StepOthers, StepCount DEF IInv

\* The invariant of the parser holds in every reachable state.
LEMMA Invariance == Spec => []IInv
  BY InitIInv, StepIInv, PTL DEF Spec

\* Every state of parse_file() and EvalLuaFile() has its type; the parser's offset
\* never leaves the file (files.c:40), whatever is in it.
THEOREM TypeCorrect == Spec => []TypeOK
<1>1. IInv => TypeOK
  BY DEF IInv
<1> QED
  BY <1>1, Invariance, PTL

LEMMA MarksByIInv == ASSUME IInv PROVE MarksKept
<1>1. SUFFICES MarksFit
  BY DEF IInv, MarksKept
<1>2. o \in Nat /\ Size \in Nat /\ o <= Size /\ Len(parsed) \in Nat
  BY DEF IInv, TypeOK, Size
<1>3. Count(o) \in Nat /\ Count(Size) \in Nat /\ Count(o) <= Count(Size)
  BY <1>2, CountGrows
<1>4. Len(parsed) <= 2 * Count(Size) + 1
  BY <1>2, <1>3 DEF IInv, CountInv
<1>5. Capacity \in Nat
  BY CapacityAssumption
<1> QED
  BY <1>2, <1>3, <1>4, <1>5 DEF MarksFit, Count

\* No mark of a file without a byte 0 leaves its mapping, also when a script is not closed,
\* and no mark of a template with few enough opening marks is written outside of the page
\* of marks, for files and pages of every size (files.c:19-25, 38-53).
THEOREM MarksAreKept == Spec => []MarksKept
  BY MarksByIInv, Invariance, PTL

-----------------------------------------------------------------------------
(* How a file is divided. *)

Split == \A k \in 1..Len(parsed) : GoesOn(parsed[k], Behind(k - 1))

\* Between scripts l is where the next text begins, which is one byte ahead on the '>' of
\* a closing mark; inside one, the marks end where it opens.
DividedInv ==
  NoNul /\ Paired =>
    /\ Split
    /\ pc = "scan" =>
         /\ l = Behind(Len(parsed))
         /\ \/ l <= o /\ \A b \in l..(o - 1) : ~Opens(b)
            \/ l = o + 1 /\ At(o) = ">"
    /\ pc = "script" =>
         /\ o = Behind(Len(parsed)) /\ Opens(o)
         /\ \A b \in (o + 3)..(o + l + 2) : ~Closes(b)

LEMMA SplitSame ==
  ASSUME source' = source, parsed' = parsed
  PROVE  /\ Split' <=> Split
         /\ Behind(Len(parsed))' = Behind(Len(parsed))
  BY DEF Split, GoesOn, TextOn, ScriptOn, Behind, Ended, Opens, Closes, At, Size

LEMMA SplitMore ==
  ASSUME NEW m \in Marks, parsed \in Seq(Marks), source' = source, parsed' = Append(parsed, m),
         Split, GoesOn(m, Behind(Len(parsed)))
  PROVE  Split' /\ Behind(Len(parsed))' = Ended(m)
<1>1. /\ Len(parsed) \in Nat /\ Len(parsed') = Len(parsed) + 1
      /\ \A j \in 1..Len(parsed) : parsed'[j] = parsed[j]
      /\ parsed'[Len(parsed) + 1] = m
  BY AppendProperties
<1>2. \A j \in 0..Len(parsed) : Behind(j)' = Behind(j)
  BY <1>1 DEF Behind, Ended
<1>3. \A a, f : GoesOn(a, f)' <=> GoesOn(a, f)
  BY DEF GoesOn, TextOn, ScriptOn, Opens, Closes, At, Size
<1>4. ASSUME NEW k \in 1..Len(parsed') PROVE GoesOn(parsed'[k], Behind(k - 1)')
  <2>1. k - 1 \in 0..Len(parsed)
    BY <1>1
  <2>2. CASE k \in 1..Len(parsed)
    BY <1>1, <1>2, <2>1, <2>2 DEF Split
  <2>3. CASE k = Len(parsed) + 1
    <3>1. k - 1 = Len(parsed)
      BY <1>1, <2>3
    <3> QED BY <1>1, <1>2, <2>1, <2>3, <3>1
  <2> QED BY <1>1, <2>2, <2>3
<1>5. Split'
  BY <1>3, <1>4 DEF Split
<1>6. Behind(Len(parsed))' = Ended(m)
  BY <1>1 DEF Behind, Ended
<1> QED BY <1>5, <1>6

LEMMA DividedInit == ASSUME Init PROVE DividedInv
<1>1. parsed = <<>> /\ pc = "scan" /\ o = 0 /\ l = 0
  BY DEF Init
<1> QED BY <1>1 DEF DividedInv, Split, Behind

LEMMA DividedStep ==
  ASSUME IInv, DividedInv, [Next]_vars
  PROVE  DividedInv'
<1>0. Size \in Nat /\ source \in Seq(Symbol) /\ o \in Nat /\ l \in Nat /\ o <= Size
      /\ l <= Size /\ parsed \in Seq(Marks) /\ Len(parsed) \in Nat
  BY DEF IInv, TypeOK, ParserInv, Size
<1>1. source' = source
  BY DEF Next, ParseStep, vars, Scan, OpenScript, SkipScript, CloseScript, Unclosed, EndMark,
         ShowText, RunScript, ExitScript, EndEval
<1>2. \A k : (Opens(k)' <=> Opens(k)) /\ (Closes(k)' <=> Closes(k)) /\ At(k)' = At(k)
  BY <1>1 DEF Opens, Closes, At, Size
<1>3. SUFFICES ASSUME NoNul, Paired PROVE DividedInv'
  <2>1. (NoNul' <=> NoNul) /\ (Paired' <=> Paired)
    BY <1>1 DEF NoNul, Paired, Opens, Closes, At, Size
  <2> QED BY <2>1 DEF DividedInv
<1>4. Split
      /\ (pc = "scan" => /\ l = Behind(Len(parsed))
                         /\ \/ l <= o /\ \A b \in l..(o - 1) : ~Opens(b)
                            \/ l = o + 1 /\ At(o) = ">")
      /\ (pc = "script" => /\ o = Behind(Len(parsed)) /\ Opens(o)
                           /\ \A b \in (o + 3)..(o + l + 2) : ~Closes(b))
  BY <1>3 DEF DividedInv
<1>5. CASE Scan
  <2>1. pc' = "scan" /\ pc = "scan" /\ o' = o + 1 /\ l' = l /\ parsed' = parsed /\ ~Opens(o)
    BY <1>5 DEF Scan
  <2>2. Split' /\ Behind(Len(parsed))' = Behind(Len(parsed))
    BY <1>1, <1>4, <2>1, SplitSame
  <2>3. l <= o + 1 /\ \A b \in l..o : ~Opens(b)
    BY <1>0, <1>4, <2>1
  <2>4. l' <= o' /\ \A b \in l'..(o' - 1) : ~Opens(b)'
    BY <1>0, <1>2, <2>1, <2>3
  <2> QED BY <1>4, <2>1, <2>2, <2>4 DEF DividedInv
<1>6. CASE OpenScript
  <2>1. pc' = "script" /\ pc = "scan" /\ o' = o /\ l' = 0 /\ Opens(o)
        /\ parsed' = IF l < o THEN Append(parsed, Mark("TEXT", l, o - l)) ELSE parsed
    BY <1>6 DEF OpenScript
  <2>2. l <= o /\ l = Behind(Len(parsed)) /\ \A b \in l..(o - 1) : ~Opens(b)
    <3>1. At(o) # ">"
      BY <2>1 DEF Opens
    <3> QED BY <1>4, <2>1, <3>1
  <2>3. Split' /\ Behind(Len(parsed))' = o
    <3>1. CASE l < o
      <4> DEFINE m == Mark("TEXT", l, o - l)
      <4>1. m \in Marks /\ m.kind = "TEXT" /\ m.offset = l /\ m.length = o - l
        BY <1>0, <3>1 DEF Mark, Marks
      <4>2. l + (o - l) = o
        BY <1>0
      <4> HIDE DEF m
      <4>3. GoesOn(m, Behind(Len(parsed)))
        <5>1. m.offset = Behind(Len(parsed)) /\ m.offset + m.length = o /\ Opens(o)
              /\ \A b \in l..(o - 1) : ~Opens(b)
          BY <2>1, <2>2, <4>1, <4>2
        <5>2. m.offset..(m.offset + m.length - 1) = l..(o - 1)
          <6>1. m.offset + m.length - 1 = o - 1
            BY <1>0, <4>1
          <6> QED BY <4>1, <6>1, Zenon
        <5>3. \A b \in m.offset..(m.offset + m.length - 1) : ~Opens(b)
          BY <5>1, <5>2, Zenon
        <5>4. Opens(m.offset + m.length)
          BY <5>1, Zenon
        <5>5. TextOn(m, Behind(Len(parsed)))
          BY <5>1, <5>3, <5>4, Zenon DEF TextOn
        <5> QED BY <4>1, <5>5, Zenon DEF GoesOn
      <4>4. parsed' = Append(parsed, m)
        BY <2>1, <3>1 DEF m
      <4>5. Ended(m) = o
        BY <1>0, <4>1 DEF Ended
      <4> QED BY <1>0, <1>1, <1>4, <4>1, <4>3, <4>4, <4>5, SplitMore
    <3>2. CASE ~(l < o)
      BY <1>0, <1>1, <1>4, <2>1, <2>2, <3>2, SplitSame
    <3> QED BY <3>1, <3>2
  <2>4. \A b \in (o' + 3)..(o' + l' + 2) : ~Closes(b)'
    BY <1>0, <2>1
  <2> QED BY <1>2, <2>1, <2>3, <2>4 DEF DividedInv
<1>7. CASE SkipScript
  <2>1. pc' = "script" /\ pc = "script" /\ o' = o /\ l' = l + 1 /\ ~Closes(o + l + 3)
        /\ parsed' = parsed
    BY <1>7 DEF SkipScript
  <2>2. Split' /\ Behind(Len(parsed))' = Behind(Len(parsed))
    BY <1>1, <1>4, <2>1, SplitSame
  <2>3. \A b \in (o + 3)..(o + (l + 1) + 2) : ~Closes(b)
    <3>1. \A b \in (o + 3)..(o + (l + 1) + 2) : b \in (o + 3)..(o + l + 2) \/ b = o + l + 3
      BY <1>0
    <3> QED BY <1>4, <2>1, <3>1
  <2>4. \A b \in (o' + 3)..(o' + l' + 2) : ~Closes(b)'
    BY <1>2, <2>1, <2>3
  <2> QED BY <1>2, <1>4, <2>1, <2>2, <2>4 DEF DividedInv
<1>8. CASE CloseScript
  <2> DEFINE m == Mark("SCRIPT", o + 3, l)
  <2>1. pc' = "scan" /\ pc = "script" /\ o' = o + l + 4 /\ l' = o + l + 5 /\ Closes(o + l + 3)
        /\ parsed' = Append(parsed, m)
    BY <1>8 DEF CloseScript
  <2>2. m \in Marks /\ m.kind = "SCRIPT" /\ m.offset = o + 3 /\ m.length = l
    BY <1>0 DEF Mark, Marks
  <2> HIDE DEF m
  <2>3. m.offset + m.length = o + l + 3 /\ m.offset - 3 = o /\ o + l + 3 - 1 = o + l + 2
    BY <1>0, <2>2
  <2>4. GoesOn(m, Behind(Len(parsed)))
    <3>1. m.offset = Behind(Len(parsed)) + 3 /\ Opens(m.offset - 3) /\ Closes(m.offset + m.length)
      BY <1>4, <2>1, <2>2, <2>3
    <3>2. \A b \in m.offset..(m.offset + m.length - 1) : ~Closes(b)
      <4>1. m.offset..(m.offset + m.length - 1) = (o + 3)..(o + l + 2)
        BY <1>0, <2>2, <2>3
      <4> QED BY <1>4, <2>1, <4>1
    <3>3. ScriptOn(m, Behind(Len(parsed)))
      BY <3>1, <3>2, Zenon DEF ScriptOn
    <3> QED BY <2>2, <3>3 DEF GoesOn
  <2>5. Ended(m) = o + l + 5
    BY <1>0, <2>2 DEF Ended
  <2>6. Split' /\ Behind(Len(parsed))' = l'
    BY <1>0, <1>1, <1>4, <2>1, <2>2, <2>4, <2>5, SplitMore
  <2>7. At(o') = ">" /\ l' = o' + 1
    <3>1. (o + l + 3) + 1 = o' /\ l' = o' + 1
      BY <1>0, <2>1
    <3> QED BY <2>1, <3>1 DEF Closes
  <2> QED BY <1>2, <2>1, <2>6, <2>7 DEF DividedInv
<1>9. CASE Unclosed
  <2>1. pc = "script" /\ o + l + 3 >= Size
    BY <1>9 DEF Unclosed
  <2>2. PICK c \in (o + 3)..Size : Closes(c)
    BY <1>0, <1>3, <1>4, <2>1 DEF Paired
  <2>3. c + 1 < Size
    BY <1>0, <2>2, DelimiterInFile
  <2>4. c \in (o + 3)..(o + l + 2)
    BY <1>0, <2>1, <2>2, <2>3
  <2> QED BY <1>4, <2>1, <2>2, <2>4
<1>10. CASE EndMark
  <2> DEFINE m == Mark("TEXT", l, o - l)
  <2>1. pc' = "eval" /\ pc = "scan" /\ At(o) = "nul" /\ parsed' = Append(parsed, m)
    BY <1>10 DEF EndMark
  <2>2. l <= o /\ l = Behind(Len(parsed)) /\ \A b \in l..(o - 1) : ~Opens(b)
    BY <1>4, <2>1
  <2>3. o = Size
    BY <1>0, <1>3, <2>1, AtEnd
  <2>4. m \in Marks /\ m.kind = "TEXT" /\ m.offset = l /\ m.length = o - l
    BY <1>0 DEF Mark, Marks
  <2>5. l + (o - l) = o
    BY <1>0
  <2> HIDE DEF m
  <2>6. GoesOn(m, Behind(Len(parsed)))
    <3>1. m.offset = Behind(Len(parsed)) /\ m.offset + m.length = o
          /\ \A b \in l..(o - 1) : ~Opens(b)
      BY <2>2, <2>4, <2>5
    <3>2. m.offset..(m.offset + m.length - 1) = l..(o - 1)
      <4>1. m.offset + m.length - 1 = o - 1
        BY <1>0, <2>4
      <4> QED BY <2>4, <4>1, Zenon
    <3>3. \A b \in m.offset..(m.offset + m.length - 1) : ~Opens(b)
      BY <3>1, <3>2, Zenon
    <3>4. m.offset + m.length = Size
      BY <2>3, <3>1, Zenon
    <3>5. TextOn(m, Behind(Len(parsed)))
      BY <3>1, <3>3, <3>4, Zenon DEF TextOn
    <3> QED BY <2>4, <3>5, Zenon DEF GoesOn
  <2>7. Split'
    BY <1>0, <1>1, <1>4, <2>1, <2>4, <2>6, SplitMore
  <2> QED BY <2>1, <2>7 DEF DividedInv
<1>11. CASE ShowText \/ RunScript \/ ExitScript \/ EndEval \/ UNCHANGED vars
  <2>1. parsed' = parsed /\ (pc' = "scan" => pc = "scan" /\ o' = o /\ l' = l)
        /\ (pc' = "script" => pc = "script" /\ o' = o /\ l' = l)
    BY <1>11 DEF ShowText, RunScript, ExitScript, EndEval, vars
  <2>2. Split' /\ Behind(Len(parsed))' = Behind(Len(parsed))
    BY <1>1, <1>4, <2>1, SplitSame
  <2> QED BY <1>2, <1>4, <2>1, <2>2 DEF DividedInv
<1> QED
  BY <1>5, <1>6, <1>7, <1>8, <1>9, <1>10, <1>11 DEF Next, ParseStep

LEMMA DividedByInv == ASSUME DividedInv PROVE Divided
  BY DEF DividedInv, Split, Divided

\* parse_file() divides every file whose scripts are closed in the one way there is: its
\* marks follow each other without gap or overlap, for files of every length
\* (files.c:40-53).
THEOREM FileIsDivided == Spec => []Divided
<1>1. Init => IInv /\ DividedInv
  BY InitIInv, DividedInit
<1>2. (IInv /\ DividedInv) /\ [Next]_vars => (IInv /\ DividedInv)'
  BY StepIInv, DividedStep
<1> QED
  BY <1>1, <1>2, DividedByInv, PTL DEF Spec
=============================================================================
