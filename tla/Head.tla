-------------------------------- MODULE Head --------------------------------
(***************************************************************************)
(* The head of a request: parse_headers() and what process_request() does  *)
(* with its result (headers.c, requests.c), on whatever part of a message  *)
(* has been read, and parse_method() and parse_path() on a whole one.      *)
(*                                                                         *)
(* Parts of the buffer are spans [at, length].  Offsets count from 0.     *)
(***************************************************************************)
EXTENDS Integers, Sequences, FiniteSetsExt

CONSTANTS Message,      \* what peers send, see MessageAssumption
          MaxHeaders    \* MAX_HEADERS

\* What the parsers tell apart; "nl" is either of the two bytes of a line end.
Symbol == {"nl", ":", "space", "?", "other"}

\* A part of the buffer; no value, in a slot that new_headers() has cleared.
Span(at, length) == [at |-> at, length |-> length]
NoValue == Span(0, 0)

Others(cs)  == Symbol \ cs
Behind(s)   == s.at + s.length
Byte(m, k)  == m.bytes[k + 1]

\* The bytes of m from one offset up to another are of cs.
Holds(m, from, to, cs) == \A k \in from..(to - 1) : Byte(m, k) \in cs

\* The bytes at the end of a line.
Ending(m) == IF m.crlf THEN 2 ELSE 1

\* Line k: a name, a colon, spaces, a value; the next one follows.
FieldLine(m, k) ==
  LET key == m.fields[k].key  value == m.fields[k].value
  IN /\ key.length > 0 /\ Holds(m, key.at, Behind(key), Others({":", "nl"}))
     /\ Byte(m, Behind(key)) = ":"
     /\ value.at > Behind(key) /\ Holds(m, Behind(key) + 1, value.at, {"space"})
     /\ value.length > 0 /\ Byte(m, value.at) # "space"
     /\ Holds(m, value.at, Behind(value), Others({"nl"}))
     /\ Holds(m, Behind(value), Behind(value) + Ending(m), {"nl"})
     /\ Behind(value) + 2 * Ending(m) <= m.head
     /\ k < Len(m.fields) => m.fields[k + 1].key.at = Behind(value) + Ending(m)

\* The first line: spaces, a method, a path, anything.
RequestLine(m) ==
  /\ Holds(m, 0, m.method.at, {"space"})
  /\ m.method.length > 0 /\ Holds(m, m.method.at, Behind(m.method), Others({"space", "nl"}))
  /\ m.path.at > Behind(m.method) /\ Holds(m, Behind(m.method), m.path.at, {"space"})
  /\ m.path.length > 0 /\ Holds(m, m.path.at, Behind(m.path), Others({"space", "nl", "?"}))
  /\ Behind(m.path) < m.fields[1].key.at /\ Byte(m, Behind(m.path)) \in {"space", "nl", "?"}

\* A head: the request line, one header or more, an empty line.  A peer whose lines end
\* in one byte sends nothing behind it.
HeadIn(m) ==
  LET first == m.fields[1].key.at
      last  == Behind(m.fields[Len(m.fields)].value)
  IN /\ m.fields # <<>> /\ \A k \in 1..Len(m.fields) : FieldLine(m, k)
     /\ RequestLine(m) /\ first >= Ending(m)
     /\ Holds(m, 0, first - Ending(m), Others({"nl"}))
     /\ Holds(m, first - Ending(m), first, {"nl"})
     /\ Holds(m, last + Ending(m), m.head, {"nl"})
     /\ m.head = last + 2 * Ending(m) /\ m.head <= Len(m.bytes)
     /\ m.crlf \/ m.head = Len(m.bytes)

\* The bytes of a message, where its parts are, and whether its lines end in two bytes.
ASSUME MessageAssumption ==
  \A m \in Message :
    /\ m.bytes \in Seq(Symbol)
    /\ m.fields \in Seq([key : [at : Nat, length : Nat], value : [at : Nat, length : Nat]])
    /\ m.head \in Nat /\ m.crlf \in BOOLEAN
    /\ m.method \in [at : Nat, length : Nat] /\ m.path \in [at : Nat, length : Nat]
    /\ HeadIn(m)
ASSUME MaxHeadersAssumption == MaxHeaders \in Nat \ {0}

VARIABLES pc,       \* "line", "headers", "parsed", "null"; "done", "crashed", "halted"
          message,  \* what the peer sends
          buf,      \* what has been read of it
          o,        \* the local of parse_headers()
          reset,    \* a header may begin here
          count,    \* line ends in a row
          slots,    \* headers->slots
          body      \* client.request->body

vars == <<pc, message, buf, o, reset, count, slots, body>>

Size  == Len(buf)
At(k) == IF k < Size THEN buf[k + 1] ELSE "nul"

IsSpace(c) == c \in {"space", "nl"}

\* The first place from k on that holds one of cs, or the end of the buffer.
Find(k, cs) == Min({e \in k..Size : At(e) \in cs} \cup {Size})

\* Some header has its name but not its value: the slot the parser is at.
Open == slots # <<>> /\ slots[Len(slots)].value = NoValue

\* The i of the code: headers with a value.
Complete == IF Open THEN Len(slots) - 1 ELSE Len(slots)

Init ==
  /\ message \in Message
  /\ \E n \in 0..Len(message.bytes) : buf = SubSeq(message.bytes, 1, n)
  /\ pc = "line" /\ o = 0 /\ reset = FALSE /\ count = 0
  /\ slots = <<>> /\ body = 0

-----------------------------------------------------------------------------
(* parse_headers() *)

\* Without a line end there is no request line, and no headers at all.
FindLine ==
  /\ pc = "line"
  /\ o' = Find(0, {"nl"})
  /\ pc' = IF o' = Size THEN "null" ELSE "headers"
  /\ UNCHANGED <<message, buf, reset, count, slots, body>>

Looping == pc = "headers" /\ Complete < MaxHeaders /\ o < Size

\* Mutant: the body begins with the last byte of the head.
LineBreakBody ==
  /\ Looping /\ At(o) = "nl"
  /\ reset' = TRUE /\ count' = count + 1
  /\ IF count + 1 > 2
     THEN body' = o /\ pc' = "parsed" /\ o' = o
     ELSE o' = o + 1 /\ UNCHANGED <<pc, body>>
  /\ UNCHANGED <<message, buf, slots>>

\* Three in a row end the head: the one that ended a value has been passed over.
LineBreak ==
  /\ Looping /\ At(o) = "nl"
  /\ reset' = TRUE /\ count' = count + 1
  /\ IF count + 1 > 2
     THEN body' = o + 1 /\ pc' = "parsed" /\ o' = o
     ELSE o' = o + 1 /\ UNCHANGED <<pc, body>>
  /\ UNCHANGED <<message, buf, slots>>

\* A name goes up to the next colon, wherever it is.  The loop goes on behind its last
\* byte, with that byte if it is a colon itself.
Name ==
  /\ Looping /\ At(o) # "nl" /\ reset /\ ~Open
  /\ LET end == Find(o + 1, {":"})
     IN /\ slots' = Append(slots, [key |-> Span(o, end - o), value |-> NoValue])
        /\ o' = IF At(end - 1) = ":" THEN end - 1 ELSE end
  /\ count' = 0
  /\ UNCHANGED <<pc, message, buf, reset, body>>

\* Mutant: spaces before the value are part of it.
ValueWithSpaces ==
  /\ Looping /\ At(o) = ":" /\ reset /\ Open
  /\ LET first == o + 1
         end   == Find(first, {"nl"})
         value == Span(first, IF end < Size THEN end - first ELSE Max({Size - first - 1, 0}))
     IN /\ slots' = [slots EXCEPT ![Len(slots)].value = value]
        /\ o' = IF end < Size THEN end + 1 ELSE Max({Size, first + 1})
  /\ reset' = FALSE /\ count' = 0
  /\ UNCHANGED <<pc, message, buf, body>>

\* Behind the spaces, line ends among them, up to the end of the line, which is passed
\* over.  In a line that is not complete the last byte is left out.
Value ==
  /\ Looping /\ At(o) = ":" /\ reset /\ Open
  /\ LET first == Find(o + 1, Others({"space", "nl"}))
         end   == Find(first, {"nl"})
         value == Span(first, IF end < Size THEN end - first ELSE Max({Size - first - 1, 0}))
     IN /\ slots' = [slots EXCEPT ![Len(slots)].value = value]
        /\ o' = IF end < Size THEN end + 1 ELSE Max({Size, first + 1})
  /\ reset' = FALSE /\ count' = 0
  /\ UNCHANGED <<pc, message, buf, body>>

\* Mutant: a byte that cannot begin a header is looked at again.
SkipByteStays ==
  /\ Looping /\ At(o) # "nl"
  /\ ~reset \/ (Open /\ At(o) # ":")
  /\ count' = 0
  /\ UNCHANGED <<pc, message, buf, o, reset, slots, body>>

\* The rest of a line that cannot begin a header.
SkipByte ==
  /\ Looping /\ At(o) # "nl"
  /\ ~reset \/ (Open /\ At(o) # ":")
  /\ o' = o + 1 /\ count' = 0
  /\ UNCHANGED <<pc, message, buf, reset, slots, body>>

\* The buffer ends before the head does, or MAX_HEADERS were read.
BodyNotSet ==
  /\ pc = "headers" /\ ~Looping
  /\ pc' = "parsed"
  /\ UNCHANGED <<message, buf, o, reset, count, slots, body>>

-----------------------------------------------------------------------------
(* process_request_contents() *)

\* print_headers(), and debug() with its result, on nothing and on a missing value.
PrintCrashes ==
  /\ pc = "null" \/ (pc = "parsed" /\ (slots = <<>> \/ Open))
  /\ pc' = "crashed"
  /\ UNCHANGED <<message, buf, o, reset, count, slots, body>>

\* request_headers(): the header "peer" takes one more slot.
AddPeer ==
  /\ pc = "parsed" /\ slots # <<>> /\ ~Open
  /\ Len(slots) < MaxHeaders
  /\ pc' = "done"
  /\ UNCHANGED <<message, buf, o, reset, count, slots, body>>

\* Mutant: the last slot is not used.
NoSlotEarly ==
  /\ pc = "parsed" /\ slots # <<>> /\ ~Open
  /\ Len(slots) >= MaxHeaders - 1
  /\ pc' = "halted"
  /\ UNCHANGED <<message, buf, o, reset, count, slots, body>>

\* free_header_slot() has none left, and halts in a loop without end.
NoSlot ==
  /\ pc = "parsed" /\ slots # <<>> /\ ~Open
  /\ Len(slots) >= MaxHeaders
  /\ pc' = "halted"
  /\ UNCHANGED <<message, buf, o, reset, count, slots, body>>

ParseStep == FindLine \/ LineBreak \/ Name \/ Value \/ SkipByte \/ BodyNotSet

Next == ParseStep \/ PrintCrashes \/ AddPeer \/ NoSlot

Spec == Init /\ [][Next]_vars

\* The worker runs.
FairSpec == Spec /\ WF_vars(Next)

-----------------------------------------------------------------------------
(* The request line, once the whole request is in. *)

\* parse_method(): at least one byte behind the spaces.
Method ==
  LET first == Find(0, Others({"space", "nl"}))
  IN Span(first, Find(first + 1, {"space", "nl"}) - first)

\* Mutant: a query is part of the path.
PathWithQuery ==
  LET behind == Find(0, {"space", "nl"})
      first  == Find(behind, Others({"space", "nl"}))
  IN Span(first, Find(first, {"space", "nl"}) - first)

\* parse_path(): the second loop begins at 0 again, so spaces before the method are
\* what it takes for those behind it.
Path ==
  LET behind == Find(0, {"space", "nl"})
      first  == Find(behind, Others({"space", "nl"}))
  IN Span(first, Find(first, {"space", "nl", "?"}) - first)

-----------------------------------------------------------------------------
(* Properties. *)

Spans == [at : Nat, length : Nat]
Ends   == {"done", "crashed", "halted"}

TypeOK ==
  /\ pc \in {"line", "headers", "parsed", "null"} \cup Ends
  /\ o \in Nat /\ body \in Nat /\ count \in 0..3 /\ reset \in BOOLEAN
  /\ slots \in Seq([key : Spans, value : Spans])
  /\ Len(slots) <= MaxHeaders
  /\ buf \in Seq(Symbol)

\* The parser, run again on every longer part of a message, finds the end of the head
\* when and only when it has been read, and then exactly the headers that were sent
\* (headers.c:153-184).  Module Client assumes it of its requests.  Lines that end in one
\* byte lose every second header and the end of the head.
HeadFound ==
  pc = "done" /\ message.crlf /\ Len(message.fields) < MaxHeaders =>
    IF Size >= message.head
    THEN body = message.head /\ slots = message.fields
    ELSE body = 0

\* A part of a head never yields a wrong header, but in its last slot: an answer to
\* nothing, and a header cut short, are gone with the next parse.
NoWrongHeader ==
  message.crlf =>
    \A k \in 1..(Len(slots) - 1) :
      k <= Len(message.fields) => slots[k] = message.fields[k]

\* A head with fewer headers than there are slots halts the worker in no part, the
\* header the worker adds included, and the whole of it does not crash where it is
\* printed (headers.c:48-53 and 107-118).
WholeHeadSurvives ==
  /\ pc = "halted" => Len(message.fields) >= MaxHeaders
  /\ pc = "crashed" /\ message.crlf => Size < message.head

\* The two loops move the same offset, past names, values and single bytes, and the inner
\* ones up to wherever they stop, the end of the buffer included: on no part of a message
\* does that go on for ever (headers.c:153-184).
ParseEnds == <>(pc \in Ends)

\* Method and path are those of the request line, without its query; the path is when
\* nothing comes before the method (requests.c:152-182).
RequestLineRead ==
  pc = "done" /\ message.crlf /\ body > 0 =>
    Method = message.method /\ (message.method.at = 0 => Path = message.path)

\* The comment on the first loop of parse_path(), "skip errorenous spaces": spaces
\* before the method make no difference to the path.
SkipsSpaces ==
  pc = "done" /\ body > 0 => Path = message.path
=============================================================================
