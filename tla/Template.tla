------------------------------ MODULE Template ------------------------------
(***************************************************************************)
(* Templates: parse_file() (files.c) divides a mapped file into texts and  *)
(* the scripts between "<? " and "?>", once, when it is loaded, and        *)
(* EvalLuaFile() (lws.c) goes through the marks for every request.         *)
(*                                                                         *)
(* The one variable l of parse_file() is the offset of a text between      *)
(* scripts, and the length of a script inside one.  isspace() of the third *)
(* byte rules '=' out, so no mark is ever of kind EMIT and e is 0.         *)
(***************************************************************************)
EXTENDS Pages, FiniteSets

VARIABLES pc,       \* "scan", "script" (inside one), "eval", "done"
          source,   \* fc->data
          o, l,     \* the locals of parse_file()
          parsed,   \* fc->parsed
          i,        \* the mark EvalLuaFile() is at
          shown     \* what the peer saw of the file: offsets into source

vars == <<pc, source, o, l, parsed, i, shown>>

Size == Len(source)

\* Behind the file its last page is filled with zeros.
At(k) == IF k < Size THEN source[k + 1] ELSE "nul"

Opens(k)  == At(k) = "<" /\ At(k + 1) = "?" /\ At(k + 2) = "space"
Closes(k) == At(k) = "?" /\ At(k + 1) = ">"

Init ==
  /\ source \in Source
  /\ pc = "scan" /\ o = 0 /\ l = 0 /\ parsed = <<>>
  /\ i = 1 /\ shown = <<>>

-----------------------------------------------------------------------------
(* parse_file() *)

Scan ==
  /\ pc = "scan" /\ At(o) # "nul" /\ ~Opens(o)
  /\ o' = o + 1
  /\ UNCHANGED <<pc, source, l, parsed, i, shown>>

\* A script begins; the text before it is marked if there is any.
OpenScript ==
  /\ pc = "scan" /\ Opens(o)
  /\ parsed' = IF l < o THEN Append(parsed, Mark("TEXT", l, o - l)) ELSE parsed
  /\ l' = 0 /\ pc' = "script"
  /\ UNCHANGED <<source, o, i, shown>>

SkipScript ==
  /\ pc = "script" /\ o + l + 3 < Size /\ ~Closes(o + l + 3)
  /\ l' = l + 1
  /\ UNCHANGED <<pc, source, o, parsed, i, shown>>

\* Mutant: the next text begins at the closing mark.
CloseScriptShort ==
  /\ pc = "script" /\ Closes(o + l + 3)
  /\ parsed' = Append(parsed, Mark("SCRIPT", o + 3, l))
  /\ o' = o + l + 4 /\ l' = o + l + 3 /\ pc' = "scan"
  /\ UNCHANGED <<source, i, shown>>

\* The loop goes on with the '>' of the closing mark, one byte before the next text.
CloseScript ==
  /\ pc = "script" /\ Closes(o + l + 3)
  /\ parsed' = Append(parsed, Mark("SCRIPT", o + 3, l))
  /\ o' = o + l + 4 /\ l' = o + l + 5 /\ pc' = "scan"
  /\ UNCHANGED <<source, i, shown>>

\* No closing mark: the loop goes on behind the '<', and l is still a length.
Unclosed ==
  /\ pc = "script" /\ o + l + 3 >= Size
  /\ o' = o + 1 /\ pc' = "scan"
  /\ UNCHANGED <<source, l, parsed, i, shown>>

\* Mutant: a mark of its own ends the marks.
EndMarkTwice ==
  /\ pc = "scan" /\ At(o) = "nul"
  /\ parsed' = parsed \o <<Mark("TEXT", l, o - l), Mark("TEXT", o, 0)>>
  /\ pc' = "eval"
  /\ UNCHANGED <<source, o, l, i, shown>>

\* The end of the file, or a byte 0 in it: the rest is a text, even an empty one.
EndMark ==
  /\ pc = "scan" /\ At(o) = "nul"
  /\ parsed' = Append(parsed, Mark("TEXT", l, o - l))
  /\ pc' = "eval"
  /\ UNCHANGED <<source, o, l, i, shown>>

-----------------------------------------------------------------------------
(* EvalLuaFile() *)

Offsets(m) == [k \in 1..m.length |-> m.offset + k - 1]

ShowText ==
  /\ pc = "eval" /\ i <= Len(parsed) /\ parsed[i].kind = "TEXT"
  /\ shown' = shown \o Offsets(parsed[i])
  /\ i' = i + 1
  /\ UNCHANGED <<pc, source, o, l, parsed>>

\* What a script does is the subject of module Script; here it comes back.
RunScript ==
  /\ pc = "eval" /\ i <= Len(parsed) /\ parsed[i].kind = "SCRIPT"
  /\ i' = i + 1
  /\ UNCHANGED <<pc, source, o, l, parsed, shown>>

\* exit() and post() leave EvalLuaFile() from inside of a script.
ExitScript ==
  /\ pc = "eval" /\ i <= Len(parsed) /\ parsed[i].kind = "SCRIPT"
  /\ pc' = "done"
  /\ UNCHANGED <<source, o, l, parsed, i, shown>>

EndEval ==
  /\ pc = "eval" /\ i > Len(parsed)
  /\ pc' = "done"
  /\ UNCHANGED <<source, o, l, parsed, i, shown>>

ParseStep == Scan \/ OpenScript \/ SkipScript \/ CloseScript \/ Unclosed \/ EndMark

Next == ParseStep \/ ShowText \/ RunScript \/ ExitScript \/ EndEval

Spec == Init /\ [][Next]_vars

-----------------------------------------------------------------------------
(* Properties. *)

TypeOK ==
  /\ pc \in {"scan", "script", "eval", "done"}
  /\ source \in Seq(Symbol)
  /\ o \in 0..Size /\ l \in Nat /\ i \in Nat \ {0}
  /\ parsed \in Seq(Marks)
  /\ shown \in Seq(Nat)

NoNul  == \A k \in 1..Size : source[k] # "nul"

\* Every "<? " has a "?>" behind it.
Paired == \A k \in 0..Size : Opens(k) => \E c \in (k + 3)..Size : Closes(c)

\* No mark leaves the mapping, whatever is in the file: also when a script is not
\* closed and l is a length where an offset is expected (files.c:45-53).
MarksInside ==
  NoNul => \A k \in 1..Len(parsed) :
             parsed[k].length >= 0 /\ parsed[k].offset + parsed[k].length <= Size

Openings(n) == {k \in 0..(n - 1) : Opens(k)}

\* mark_file() does not look whether there is room: a template of up to (Capacity - 2) / 2
\* opening marks, closed or not, keeps its marks in the page they have, and with them the
\* empty one that ends EvalLuaFile() (files.c:19-25, 38-53, lws.c:67).
MarksFit == 2 * Cardinality(Openings(Size)) + 2 <= Capacity => Len(parsed) + 1 <= Capacity

\* What mark_file() writes leads to no place outside of the file, and is at none outside
\* of the page of marks.
MarksKept == MarksInside /\ MarksFit

\* Where the mark behind the first n would begin: a text, at the end of the last
\* script's "?>"; the bytes between are delimiters.
Ended(m) == m.offset + m.length + (IF m.kind = "SCRIPT" THEN 2 ELSE 0)
Behind(n) == IF n = 0 THEN 0 ELSE Ended(parsed[n])

\* A text up to the start of the next script, and a script up to its own end, that begin
\* where the marks before them end.
TextOn(m, from) ==
  /\ m.offset = from
  /\ m.offset + m.length = Size \/ Opens(m.offset + m.length)
  /\ \A b \in m.offset..(m.offset + m.length - 1) : ~Opens(b)
ScriptOn(m, from) ==
  /\ m.offset = from + 3 /\ Opens(m.offset - 3)
  /\ Closes(m.offset + m.length)
  /\ \A b \in m.offset..(m.offset + m.length - 1) : ~Closes(b)
GoesOn(m, from) == IF m.kind = "TEXT" THEN TextOn(m, from) ELSE ScriptOn(m, from)

\* The marks follow each other without a gap or an overlap but for the delimiters, a
\* text never holds the start of a script, and a script never its own end: with that
\* there is one way to divide the file (files.c:40-53).
Divided ==
  NoNul /\ Paired => \A k \in 1..Len(parsed) : GoesOn(parsed[k], Behind(k - 1))
=============================================================================
