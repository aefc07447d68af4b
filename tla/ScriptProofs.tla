---------------------------- MODULE ScriptProofs ----------------------------
(***************************************************************************)
(* What scripts cannot break, for every page, any number of calls and any  *)
(* depth of files in files.                                                *)
(***************************************************************************)
EXTENDS Script, SequenceTheorems, TLAPS

-----------------------------------------------------------------------------
(* The files being evaluated. *)

\* A script of the page is at its mark as long as it runs, and whatever it has included.
AtScript == frames[1].i <= Len(parsed) /\ parsed[frames[1].i].kind = "SCRIPT"

\* What is being evaluated, and where: common.lua before l_jump is set, the page behind it.
FramesInv ==
  /\ pc \in {"scan", "script", "prepare", "start"} => ~jump /\ frames = <<>>
  /\ pc \in {"eval", "size", "datagram", "end"} => frames # <<>>
  /\ pc = "end" => jump
  /\ jump => frames # <<>> /\ frames[1].kind = "page"
  /\ ~jump /\ frames # <<>> => frames[1].kind = "lua"
  /\ jump /\ (Len(frames) > 1 \/ frames[1].running) => AtScript

FramesType ==
  /\ pc \in {"scan", "script", "prepare", "start", "eval", "size", "datagram", "end", "done", "crashed"}
  /\ jump \in BOOLEAN
  /\ frames \in Seq(Frames)

FInv == FramesType /\ FramesInv

\* The innermost file, and what changing it, leaving it or going into another does to the
\* outermost one.
LEMMA TopOfFrames ==
  ASSUME frames \in Seq(Frames), frames # <<>>
  PROVE  /\ Top \in Frames /\ Len(frames) \in Nat \ {0} /\ frames[1] \in Frames
         /\ Len(frames) = 1 => Top = frames[1]
<1>1. Len(frames) \in Nat \ {0}
  BY EmptySeq
<1>2. \A k \in 1..Len(frames) : frames[k] \in Frames
  BY ElementOfSeq
<1> QED
  BY <1>1, <1>2 DEF Top, Last

LEMMA FrontOfFrames ==
  ASSUME frames \in Seq(Frames), frames # <<>>
  PROVE  /\ Front(frames) \in Seq(Frames) /\ Len(Front(frames)) = Len(frames) - 1
         /\ Len(frames) > 1 => Front(frames)[1] = frames[1] /\ Front(frames) # <<>>
<1>1. Len(frames) \in Nat \ {0} /\ Len(frames) - 1 \in Int
  BY TopOfFrames
<1>2. \A k \in 1..(Len(frames) - 1) : frames[k] \in Frames
  BY <1>1, ElementOfSeq
<1>3. /\ Front(frames) \in Seq(Frames)
      /\ Len(Front(frames)) = IF 1 <= Len(frames) - 1 THEN Len(frames) - 1 - 1 + 1 ELSE 0
      /\ \A k \in 1..(Len(frames) - 1 - 1 + 1) : Front(frames)[k] = frames[1 + k - 1]
  BY <1>1, <1>2, SubSeqProperties DEF Front
<1>4. Len(Front(frames)) = Len(frames) - 1
  <2>1. \A n \in Nat \ {0} : (IF 1 <= n - 1 THEN n - 1 - 1 + 1 ELSE 0) = n - 1
    OBVIOUS
  <2> QED
    BY <1>1, <1>3, <2>1
<1>5. Len(frames) > 1 => Front(frames)[1] = frames[1]
  BY <1>1, <1>3
<1>6. Len(frames) > 1 => Front(frames) # <<>>
  BY <1>1, <1>4
<1> QED
  BY <1>3, <1>4, <1>5, <1>6

LEMMA SetTopOfFrames ==
  ASSUME frames \in Seq(Frames), frames # <<>>, NEW f \in Frames
  PROVE  /\ SetTop(f) \in Seq(Frames) /\ Len(SetTop(f)) = Len(frames) /\ SetTop(f) # <<>>
         /\ SetTop(f)[1] = IF Len(frames) = 1 THEN f ELSE frames[1]
<1>1. Len(frames) \in Nat \ {0} /\ Front(frames) \in Seq(Frames)
      /\ Len(Front(frames)) = Len(frames) - 1
  BY TopOfFrames, FrontOfFrames
<1>2. SetTop(f) \in Seq(Frames) /\ Len(SetTop(f)) = Len(frames)
      /\ (\A k \in 1..Len(Front(frames)) : SetTop(f)[k] = Front(frames)[k])
      /\ SetTop(f)[Len(Front(frames)) + 1] = f
  BY <1>1, AppendProperties DEF SetTop
<1>3. SetTop(f)[1] = IF Len(frames) = 1 THEN f ELSE frames[1]
  BY <1>1, <1>2, FrontOfFrames
<1> QED
  BY <1>1, <1>2, <1>3, EmptySeq

\* A file that one includes or uses.
LEMMA Included ==
  ASSUME frames \in Seq(Frames), frames # <<>>, NEW f \in Frames, NEW g \in Frames
  PROVE  /\ Append(SetTop(f), g) \in Seq(Frames)
         /\ Len(Append(SetTop(f), g)) = Len(frames) + 1
         /\ Append(SetTop(f), g) # <<>>
         /\ Append(SetTop(f), g)[1] = SetTop(f)[1]
<1>1. SetTop(f) \in Seq(Frames) /\ Len(SetTop(f)) = Len(frames) /\ Len(frames) \in Nat \ {0}
  BY SetTopOfFrames, TopOfFrames
<1>2. /\ Append(SetTop(f), g) \in Seq(Frames)
      /\ Len(Append(SetTop(f), g)) = Len(frames) + 1
      /\ Append(SetTop(f), g)[1] = SetTop(f)[1]
  BY <1>1, AppendProperties
<1> QED
  BY <1>1, <1>2, EmptySeq

\* The files after a call, and those a script may be at.
LEMMA CalledType ==
  ASSUME FInv, Evaluating
  PROVE  /\ Called \in Frames /\ Called.i = Top.i /\ Called.running = Top.running
         /\ Called.kind = Top.kind
         /\ Call \in Seq(Nat) /\ Here \in Seq(Nat)
         /\ \A kind \in {"page", "lua"} : Frame(kind, Call) \in Frames
<1>1. frames \in Seq(Frames) /\ frames # <<>> /\ Top \in Frames
  BY TopOfFrames DEF FInv, FramesType, Evaluating
<1>2. Top.path \in Seq(Nat) /\ Top.i \in Nat /\ Top.n \in Nat
  BY <1>1 DEF Frames
<1>3. Called \in Frames /\ Called.i = Top.i /\ Called.running = Top.running /\ Called.kind = Top.kind
  <2>1. ASSUME NEW f \in Frames
        PROVE  LET c == [f EXCEPT !.n = @ + 1]
               IN c \in Frames /\ c.i = f.i /\ c.running = f.running /\ c.kind = f.kind
    BY <2>1 DEF Frames
  <2> QED
    BY <1>1, <2>1 DEF Called
<1>4. <<Top.i, Top.n + 1>> \in Seq(Nat) /\ <<Top.i, Top.n>> \in Seq(Nat)
  BY <1>2
<1>5. Call \in Seq(Nat) /\ Here \in Seq(Nat)
  BY <1>2, <1>4, ConcatProperties DEF Call, Here
<1>6. \A kind \in {"page", "lua"} : Frame(kind, Call) \in Frames
  BY <1>5 DEF Frame, Frames
<1> QED
  BY <1>3, <1>5, <1>6
\* A file whose script is left.
LEMMA LeftType ==
  ASSUME NEW f \in Frames
  PROVE  LET c == [f EXCEPT !.i = @ + 1, !.n = 0, !.running = FALSE]
         IN c \in Frames /\ c.kind = f.kind /\ c.i = f.i + 1 /\ c.running = FALSE
<1> DEFINE g == [f EXCEPT !.i = @ + 1]
           h == [g EXCEPT !.n = 0]
           c == [h EXCEPT !.running = FALSE]
<1>1. g \in Frames
  BY DEF Frames
<1>2. ASSUME NEW q \in Frames PROVE [q EXCEPT !.n = 0] \in Frames
  BY <1>2 DEF Frames
<1>3. ASSUME NEW q \in Frames PROVE [q EXCEPT !.running = FALSE] \in Frames
  BY <1>3 DEF Frames
<1>4. c \in Frames
  <2>1. h \in Frames
    BY <1>1, <1>2
  <2> HIDE DEF h
  <2> QED
    BY <1>3, <2>1
<1>5. c = [f EXCEPT !.i = @ + 1, !.n = 0, !.running = FALSE]
  BY DEF Frames
<1>6. c.kind = f.kind /\ c.i = f.i + 1 /\ c.running = FALSE
  BY DEF Frames
<1> HIDE DEF c
<1> QED
  BY <1>4, <1>5, <1>6

\* Only a page that is being parsed is parsed.
LEMMA ParseFrom ==
  ASSUME Parse
  PROVE  pc \in {"scan", "script"}
BY DEF Parse, Page!ParseStep, Page!Scan, Page!OpenScript, Page!SkipScript, Page!CloseScript,
       Page!Unclosed, Page!EndMark

\* A call that leaves pc where it is, and the marks of every file.
LEMMA SameFiles ==
  ASSUME FInv, Evaluating, pc' \in {"eval", "size"}, jump' = jump, parsed' = parsed,
         frames' = SetTop(Called)
  PROVE  FInv'
<1>1. /\ frames \in Seq(Frames) /\ frames # <<>> /\ Top \in Frames /\ Called \in Frames
      /\ Called.i = Top.i /\ Called.running = Top.running /\ Called.kind = Top.kind
      /\ frames[1] \in Frames /\ (Len(frames) = 1 => Top = frames[1])
  BY CalledType, TopOfFrames DEF FInv, FramesType, Evaluating
<1>2. /\ frames' \in Seq(Frames) /\ Len(frames') = Len(frames) /\ frames' # <<>>
      /\ frames'[1] = IF Len(frames) = 1 THEN Called ELSE frames[1]
  BY <1>1, SetTopOfFrames
<1>3. frames'[1].i = frames[1].i /\ frames'[1].kind = frames[1].kind
      /\ frames'[1].running = frames[1].running
  BY <1>1, <1>2
<1>4. FramesType'
  BY <1>2 DEF FInv, FramesType
<1>5. FramesInv'
  BY <1>1, <1>2, <1>3 DEF FInv, FramesInv, AtScript, Evaluating
<1> QED
  BY <1>4, <1>5 DEF FInv

\* A file more.
LEMMA MoreFiles ==
  ASSUME FInv, MayCall, pc' = pc, jump' = jump, parsed' = parsed,
         NEW g \in Frames, frames' = Append(SetTop(Called), g)
  PROVE  FInv'
<1>0. Evaluating /\ Top.running
  BY DEF MayCall
<1>1. /\ frames \in Seq(Frames) /\ frames # <<>> /\ Top \in Frames /\ Called \in Frames
      /\ Called.i = Top.i /\ Called.running = Top.running /\ Called.kind = Top.kind
      /\ Len(frames) \in Nat \ {0} /\ (Len(frames) = 1 => Top = frames[1])
  BY <1>0, CalledType, TopOfFrames DEF FInv, FramesType, Evaluating
<1>2. /\ frames' \in Seq(Frames) /\ frames' # <<>>
      /\ frames'[1] = IF Len(frames) = 1 THEN Called ELSE frames[1]
  BY <1>1, SetTopOfFrames, Included
<1>3. frames'[1].i = frames[1].i /\ frames'[1].kind = frames[1].kind
  BY <1>1, <1>2
<1>4. FramesType'
  BY <1>2 DEF FInv, FramesType
<1>5. jump => AtScript
  <2>1. Len(frames) > 1 \/ frames[1].running
    <3>1. CASE Len(frames) = 1
      <4>1. Top = frames[1]
        BY <1>1, <3>1
      <4> QED
        BY <1>0, <4>1, Zenon
    <3>2. CASE Len(frames) > 1
      BY <3>2
    <3>3. Len(frames) = 1 \/ Len(frames) > 1
      <4>1. \A n \in Nat \ {0} : n = 1 \/ n > 1
        OBVIOUS
      <4> QED
        BY <1>1, <4>1
    <3> QED
      BY <3>1, <3>2, <3>3, Zenon
  <2> QED
    BY <2>1 DEF FInv, FramesInv
<1>6. FramesInv'
  BY <1>0, <1>1, <1>2, <1>3, <1>5 DEF FInv, FramesInv, AtScript, Evaluating
<1> QED
  BY <1>4, <1>6 DEF FInv

\* What is being evaluated follows the scripts.
LEMMA FramesStep == ASSUME FInv, [Next]_vars PROVE FInv'
<1>0. frames \in Seq(Frames) /\ jump \in BOOLEAN
  BY DEF FInv, FramesType
<1>1. CASE Parse
  <2>1. pc \in {"scan", "script"} /\ pc' \in {"scan", "script", "prepare"}
        /\ jump' = jump /\ frames' = frames
    BY <1>1, ParseFrom DEF Parse, pageVars
  <2> QED
    BY <2>1 DEF FInv, FramesType, FramesInv
<1>2. CASE PrepareProcedures
  BY <1>2 DEF PrepareProcedures, parseVars, pageVars, FInv, FramesType, FramesInv
<1>3. CASE InitLua
  <2>1. Frame("lua", <<0>>) \in Frames /\ Frame("lua", <<0>>).kind = "lua"
    BY DEF Frame, Frames
  <2>2. <<Frame("lua", <<0>>)>> \in Seq(Frames) /\ <<Frame("lua", <<0>>)>> # <<>>
        /\ <<Frame("lua", <<0>>)>>[1] = Frame("lua", <<0>>)
    BY <2>1
  <2>3. pc = "start" /\ ~jump /\ frames = <<>> /\ jump' = jump
    BY <1>3 DEF InitLua, FInv, FramesInv
  <2>4. CASE pc' \in {"done", "crashed"} /\ frames' = frames
    BY <2>3, <2>4 DEF FInv, FramesType, FramesInv
  <2>5. CASE pc' = "eval" /\ frames' = <<Frame("lua", <<0>>)>>
    BY <2>1, <2>2, <2>3, <2>5 DEF FInv, FramesType, FramesInv
  <2> QED
    BY <1>3, <2>4, <2>5 DEF InitLua
<1>4. CASE ShowText \/ LeaveScript \/ EnterScript
  <2>1. Evaluating /\ pc' = pc /\ jump' = jump /\ parsed' = parsed /\ frames # <<>>
    BY <1>4 DEF ShowText, LeaveScript, EnterScript, AtMark, Evaluating, parseVars
  <2>2. /\ Top \in Frames /\ Len(frames) \in Nat \ {0} /\ frames[1] \in Frames
        /\ (Len(frames) = 1 => Top = frames[1])
    BY <1>0, <2>1, TopOfFrames
  <2>3. ASSUME NEW f \in Frames, frames' = SetTop(f), f.kind = Top.kind,
               jump /\ Len(frames) = 1 /\ f.running =>
                 f.i <= Len(parsed) /\ parsed[f.i].kind = "SCRIPT"
        PROVE  FInv'
    <3>1. /\ frames' \in Seq(Frames) /\ Len(frames') = Len(frames) /\ frames' # <<>>
          /\ frames'[1] = IF Len(frames) = 1 THEN f ELSE frames[1]
      BY <1>0, <2>1, <2>3, SetTopOfFrames
    <3>2. FramesType'
      BY <2>1, <3>1 DEF FInv, FramesType
    <3>3. frames'[1].kind = frames[1].kind
      BY <2>2, <2>3, <3>1
    <3>4. jump /\ (Len(frames') > 1 \/ frames'[1].running) => AtScript'
      <4>1. CASE Len(frames) = 1
        BY <2>1, <2>3, <3>1, <4>1 DEF AtScript
      <4>2. CASE Len(frames) # 1
        BY <2>1, <2>2, <3>1, <4>2 DEF AtScript, FInv, FramesInv
      <4> QED
        BY <4>1, <4>2
    <3>5. FramesInv'
      BY <2>1, <3>1, <3>3, <3>4 DEF FInv, FramesInv, Evaluating
    <3> QED
      BY <3>2, <3>5 DEF FInv
  <2>4. CASE ShowText
    <3>1. [Top EXCEPT !.i = @ + 1] \in Frames /\ [Top EXCEPT !.i = @ + 1].kind = Top.kind
          /\ [Top EXCEPT !.i = @ + 1].running = Top.running
      <4>1. ASSUME NEW f \in Frames
            PROVE  LET c == [f EXCEPT !.i = @ + 1]
                   IN c \in Frames /\ c.kind = f.kind /\ c.running = f.running
        BY <4>1 DEF Frames
      <4> QED
        BY <2>2, <4>1
    <3>2. jump /\ Len(frames) = 1 => ~Top.running
      <4>1. jump /\ Len(frames) = 1 => MarksOf(Top) = parsed /\ frames[1] = Top
        BY <2>2 DEF FInv, FramesInv, MarksOf
      <4>2. MarksOf(Top)[Top.i].kind = "TEXT"
        BY <2>4 DEF ShowText, AtMark
      <4> QED
        BY <4>1, <4>2 DEF FInv, FramesInv, AtScript
    <3> QED
      BY <2>3, <2>4, <3>1, <3>2 DEF ShowText
  <2>5. CASE LeaveScript
    <3>1. LET c == [Top EXCEPT !.i = @ + 1, !.n = 0, !.running = FALSE]
          IN c \in Frames /\ c.kind = Top.kind /\ ~c.running
      BY <2>2, LeftType
    <3> QED
      BY <2>3, <2>5, <3>1 DEF LeaveScript
  <2>6. CASE EnterScript
    <3>1. LET c == [Top EXCEPT !.running = TRUE]
          IN c \in Frames /\ c.kind = Top.kind /\ c.i = Top.i
      <4>1. ASSUME NEW f \in Frames
            PROVE  LET c == [f EXCEPT !.running = TRUE]
                   IN c \in Frames /\ c.kind = f.kind /\ c.i = f.i
        BY <4>1 DEF Frames
      <4> QED
        BY <2>2, <4>1
    <3>2. jump /\ Len(frames) = 1 => Top.i <= Len(parsed) /\ parsed[Top.i].kind = "SCRIPT"
      <4>1. jump /\ Len(frames) = 1 => MarksOf(Top) = parsed
        BY <2>2 DEF FInv, FramesInv, MarksOf
      <4>2. Top.i <= Len(MarksOf(Top)) /\ MarksOf(Top)[Top.i].kind = "SCRIPT"
        BY <2>6 DEF EnterScript, AtMark
      <4> QED
        BY <4>1, <4>2
    <3> QED
      BY <2>3, <2>6, <3>1, <3>2 DEF EnterScript
  <2> QED
    BY <1>4, <2>4, <2>5, <2>6
<1>5. CASE Return
  <2>1. /\ pc' = pc /\ pc = "eval" /\ jump' = jump /\ parsed' = parsed
        /\ frames # <<>> /\ Len(frames) > 1 /\ frames' = Front(frames)
    BY <1>5 DEF Return, Evaluated, Evaluating, parseVars
  <2>2. frames' \in Seq(Frames) /\ frames' # <<>> /\ frames'[1] = frames[1]
    BY <1>0, <2>1, FrontOfFrames
  <2>3. jump => AtScript
    BY <2>1 DEF FInv, FramesInv
  <2> QED
    BY <2>1, <2>2, <2>3 DEF FInv, FramesType, FramesInv, AtScript
<1>6. CASE SetJump
  <2>1. Frame("page", <<1>>) \in Frames /\ Frame("page", <<1>>).kind = "page"
        /\ ~Frame("page", <<1>>).running
    BY DEF Frame, Frames
  <2>2. <<Frame("page", <<1>>)>> \in Seq(Frames) /\ <<Frame("page", <<1>>)>> # <<>>
        /\ <<Frame("page", <<1>>)>>[1] = Frame("page", <<1>>)
        /\ ~(Len(<<Frame("page", <<1>>)>>) > 1)
    BY <2>1
  <2>3. jump' = TRUE /\ frames' = <<Frame("page", <<1>>)>> /\ pc' = "eval"
    BY <1>6 DEF SetJump, Evaluated, Evaluating
  <2>4. FramesType'
    BY <2>2, <2>3 DEF FramesType
  <2>5. FramesInv'
    BY <2>1, <2>2, <2>3 DEF FramesInv
  <2> QED
    BY <2>4, <2>5 DEF FInv
<1>7. CASE EndEval \/ EndLua \/ ReceiveSize \/ ReceiveData
  <2>1. pc' \in {"end", "done", "datagram", "crashed", "eval"} /\ frames' = frames /\ jump' = jump
        /\ parsed' = parsed /\ (pc' = "end" => jump) /\ (pc' \in {"end", "datagram", "eval"} => frames # <<>>)
    BY <1>7 DEF EndEval, EndLua, ReceiveSize, ReceiveData, pageVars, parseVars, Evaluated, Evaluating,
                FInv, FramesInv
  <2> QED
    BY <2>1 DEF FInv, FramesType, FramesInv, AtScript
<1>8. CASE ExitLua \/ PostHTTPLua
  <2>1. pc' \in {Jumped, "crashed"} /\ frames' = frames /\ jump' = jump /\ parsed' = parsed
        /\ frames # <<>>
    BY <1>8 DEF ExitLua, PostHTTPLua, pageVars, parseVars, MayCall, Evaluating
  <2> QED
    BY <2>1 DEF Jumped, FInv, FramesType, FramesInv, AtScript
<1>9. CASE PlainCall \/ PrintLua \/ QueryLua
  <2>1. Evaluating /\ pc' \in {"eval", "size"} /\ jump' = jump /\ parsed' = parsed
        /\ frames' = SetTop(Called)
    BY <1>9 DEF PlainCall, PrintLua, QueryLua, MayCall, Evaluating, parseVars
  <2> QED
    BY <2>1, SameFiles
<1>10. CASE SocketLua \/ SendLua \/ ReceiveLua
  <2>1. Evaluating /\ jump' = jump /\ parsed' = parsed /\ frames # <<>>
    BY <1>10 DEF SocketLua, SendLua, ReceiveLua, MayCall, Evaluating, parseVars
  <2>2. CASE pc' = "crashed" /\ frames' = frames
    BY <2>1, <2>2 DEF FInv, FramesType, FramesInv, AtScript
  <2>3. CASE pc' \in {pc, "size"} /\ frames' = SetTop(Called)
    BY <2>1, <2>3, SameFiles DEF Evaluating
  <2> QED
    BY <1>10, <2>2, <2>3 DEF SocketLua, SendLua, ReceiveLua
<1>11. CASE IncludeLua \/ UseLua
  <2>1. MayCall /\ Evaluating /\ pc' = pc /\ jump' = jump /\ parsed' = parsed
    BY <1>11 DEF IncludeLua, UseLua, MayCall, parseVars
  <2>2. \E kind \in {"page", "lua"} : frames' = Append(SetTop(Called), Frame(kind, Call))
    BY <1>11 DEF IncludeLua, UseLua
  <2> QED
    BY <2>1, <2>2, CalledType, MoreFiles
<1>12. CASE UNCHANGED vars
  BY <1>12 DEF vars, parseVars, pageVars, FInv, FramesType, FramesInv, AtScript
<1> QED
  BY <1>1, <1>2, <1>3, <1>4, <1>5, <1>6, <1>7, <1>8, <1>9, <1>10, <1>11, <1>12 DEF Next, Calls
LEMMA FramesInit == ASSUME Init PROVE FInv
<1>1. pc = "scan" /\ jump = FALSE /\ frames = <<>>
  BY DEF Init
<1>2. frames \in Seq(Frames)
  BY <1>1, EmptySeq
<1>3. FramesType
  BY <1>1, <1>2 DEF FramesType
<1>4. FramesInv
  BY <1>1 DEF FramesInv
<1> QED
  BY <1>3, <1>4 DEF FInv

LEMMA FramesInvariance == Spec => []FInv
  BY FramesInit, FramesStep, PTL DEF Spec

-----------------------------------------------------------------------------
(* The page is a Template. *)

\* The state of the Template, by that of the worker.
LEMMA Mapped ==
  ASSUME jump \in BOOLEAN
  PROVE
  /\ ~jump => Page!vars = <<IF pc \in {"scan", "script"} THEN pc ELSE "eval",
                            source, o, l, parsed, 1, shown>>
  /\ jump /\ pc \in {"end", "done"} => Page!vars = <<"done", source, o, l, parsed, frames[1].i, shown>>
  /\ jump /\ pc \notin {"scan", "script", "end", "done"} =>
       Page!vars = <<"eval", source, o, l, parsed, frames[1].i, shown>>
<1>1. CASE ~jump
  BY <1>1 DEF Page!vars
<1>2. CASE jump /\ pc \in {"end", "done"}
  BY <1>2 DEF Page!vars
<1>3. CASE jump /\ pc \notin {"scan", "script", "end", "done"}
  BY <1>3 DEF Page!vars
<1> QED
  BY <1>1, <1>2, <1>3
LEMMA MappedInit == ASSUME Init PROVE Page!Init
<1>1. pc = "scan" /\ jump = FALSE
  BY DEF Init
<1> QED
  BY <1>1 DEF Init, Page!Init

LEMMA MappedStep == ASSUME FInv, FInv', [Next]_vars PROVE [Page!Next]_(Page!vars)
<1>0. jump \in BOOLEAN /\ jump' \in BOOLEAN /\ frames \in Seq(Frames)
  BY DEF FInv, FramesType
<1>1. CASE Parse
  BY <1>1 DEF Parse, Page!Next
<1>2. CASE PrepareProcedures \/ InitLua
  <2>1. /\ pc \notin {"scan", "script"} /\ pc' \notin {"scan", "script"} /\ jump = FALSE /\ jump' = FALSE
        /\ UNCHANGED <<source, o, l, parsed, shown>>
    BY <1>2 DEF PrepareProcedures, InitLua, parseVars, pageVars, FInv, FramesInv, FramesType
  <2> QED
    BY <2>1 DEF Page!vars
\* Nothing of the page itself changes but what is between its marks.
<1>3. ASSUME jump' = jump, UNCHANGED <<source, o, l, parsed, shown>>,
             pc \notin {"scan", "script", "end", "done"}, pc' \notin {"scan", "script", "end", "done"},
             jump => frames'[1].i = frames[1].i
      PROVE  UNCHANGED Page!vars
  BY <1>3 DEF Page!vars
<1>4. ASSUME Evaluating
      PROVE  /\ pc = "eval" /\ frames # <<>> /\ Top \in Frames
             /\ (Len(frames) = 1 => Top = frames[1])
             /\ Len(frames) \in Nat \ {0}
             /\ Called \in Frames /\ Called.i = Top.i
             /\ \A f \in Frames : SetTop(f)[1] = IF Len(frames) = 1 THEN f ELSE frames[1]
  BY <1>0, <1>4, TopOfFrames, CalledType, SetTopOfFrames DEF Evaluating
\* The outermost file is at the same mark.
<1>5. CASE EnterScript \/ PlainCall \/ PrintLua \/ QueryLua \/ SocketLua \/ SendLua \/ ReceiveLua
  <2>1. /\ Evaluating /\ jump' = jump /\ UNCHANGED <<source, o, l, parsed, shown>>
        /\ pc' \in {"eval", "size", "crashed"}
        /\ frames' \in {frames, SetTop(Called), SetTop([Top EXCEPT !.running = TRUE])}
    BY <1>5 DEF EnterScript, PlainCall, PrintLua, QueryLua, SocketLua, SendLua, ReceiveLua, MayCall,
                AtMark, Evaluating, parseVars
  <2>2. LET c == [Top EXCEPT !.running = TRUE] IN c \in Frames /\ c.i = Top.i
    BY <1>4, <2>1 DEF Frames
  <2>3. frames'[1].i = frames[1].i
    BY <1>4, <2>1, <2>2
  <2> QED
    BY <1>3, <1>4, <2>1, <2>3
<1>6. CASE IncludeLua \/ UseLua
  <2>1. /\ Evaluating /\ jump' = jump /\ UNCHANGED <<source, o, l, parsed, shown>> /\ pc' = pc
        /\ \E kind \in {"page", "lua"} : frames' = Append(SetTop(Called), Frame(kind, Call))
    BY <1>6 DEF IncludeLua, UseLua, MayCall, parseVars
  <2>2. frames'[1] = SetTop(Called)[1]
    BY <1>0, <1>4, <2>1, CalledType, Included
  <2>3. frames'[1].i = frames[1].i
    BY <1>4, <2>1, <2>2
  <2> QED
    BY <1>3, <1>4, <2>1, <2>3
<1>7. CASE Return
  <2>1. /\ Evaluating /\ jump' = jump /\ UNCHANGED <<source, o, l, parsed, shown>> /\ pc' = pc
        /\ Len(frames) > 1 /\ frames' = Front(frames)
    BY <1>7 DEF Return, Evaluated, parseVars
  <2>2. frames'[1].i = frames[1].i
    BY <1>0, <1>4, <2>1, FrontOfFrames
  <2> QED
    BY <1>3, <1>4, <2>1, <2>2
<1>8. CASE SetJump
  <2>1. /\ pc = "eval" /\ pc' = "eval" /\ ~jump /\ jump' = TRUE
        /\ UNCHANGED <<source, o, l, parsed, shown>> /\ frames' = <<Frame("page", <<1>>)>>
    BY <1>8 DEF SetJump, Evaluated, Evaluating, parseVars
  <2>2. frames'[1].i = 1
    BY <2>1 DEF Frame
  <2> QED
    BY <2>1, <2>2 DEF Page!vars
<1>9. CASE ReceiveSize \/ ReceiveData
  BY <1>3, <1>9 DEF ReceiveSize, ReceiveData, parseVars, pageVars
<1>10. CASE UNCHANGED vars \/ EndLua
  BY <1>10 DEF vars, parseVars, pageVars, EndLua, Page!vars, FInv, FramesInv
\* A step of the page itself, if no other file is being evaluated.
<1>11. ASSUME Evaluating, jump, Len(frames) = 1
       PROVE  MarksOf(Top) = parsed /\ Top = frames[1]
  BY <1>4, <1>11 DEF MarksOf, FInv, FramesInv
<1>12. CASE ShowText
  <2>1. Evaluating /\ jump' = jump /\ UNCHANGED <<source, o, l, parsed>> /\ pc' = pc
        /\ frames' = SetTop([Top EXCEPT !.i = @ + 1])
    BY <1>12 DEF ShowText, AtMark, parseVars
  <2>2. [Top EXCEPT !.i = @ + 1] \in Frames /\ [Top EXCEPT !.i = @ + 1].i = Top.i + 1
    <3>1. ASSUME NEW f \in Frames
          PROVE  LET c == [f EXCEPT !.i = @ + 1] IN c \in Frames /\ c.i = f.i + 1
      BY <3>1 DEF Frames
    <3> QED
      BY <1>4, <2>1, <3>1
  <2>3. CASE Len(frames) # 1
    <3>1. frames'[1].i = frames[1].i /\ shown' = shown
      BY <1>4, <1>12, <2>1, <2>2, <2>3 DEF ShowText
    <3> QED
      BY <1>3, <1>4, <2>1, <3>1
  <2>4. CASE Len(frames) = 1 /\ ~jump
    <3>1. MarksOf(Top) = <<Mark("SCRIPT", 0, 0)>>
      BY <1>4, <2>1, <2>4 DEF MarksOf, FInv, FramesInv
    <3>2. Top.i \in 1..1
      BY <1>4, <1>12, <2>1, <3>1 DEF ShowText, AtMark, Frames
    <3> QED
      BY <1>12, <3>1, <3>2 DEF ShowText, AtMark, Mark
  <2>5. CASE Len(frames) = 1 /\ jump
    <3>1. frames[1].i <= Len(parsed) /\ parsed[frames[1].i].kind = "TEXT"
          /\ shown' = shown \o Page!Offsets(parsed[frames[1].i])
      BY <1>11, <1>12, <2>1, <2>5 DEF ShowText, AtMark
    <3>2. frames'[1].i = frames[1].i + 1
      BY <1>4, <1>11, <2>1, <2>2, <2>5
    <3>3. Page!ShowText
      BY <1>4, <2>1, <2>5, <3>1, <3>2 DEF Page!ShowText
    <3> QED
      BY <3>3 DEF Page!Next
  <2> QED
    BY <1>0, <2>3, <2>4, <2>5
<1>13. CASE LeaveScript
  <2> DEFINE left == [Top EXCEPT !.i = @ + 1, !.n = 0, !.running = FALSE]
  <2>1. Evaluating /\ jump' = jump /\ UNCHANGED <<source, o, l, parsed, shown>> /\ pc' = pc
        /\ frames' = SetTop(left)
    BY <1>13 DEF LeaveScript, AtMark, parseVars
  <2>2. left \in Frames /\ left.i = Top.i + 1
    BY <1>4, <2>1, LeftType
  <2> HIDE DEF left
  <2>3. CASE Len(frames) # 1
    <3>1. frames'[1].i = frames[1].i
      BY <1>4, <2>1, <2>2, <2>3
    <3> QED
      BY <1>3, <1>4, <2>1, <3>1
  <2>4. CASE Len(frames) = 1 /\ ~jump
    BY <1>3, <1>4, <2>1, <2>4
  <2>5. CASE Len(frames) = 1 /\ jump
    <3>1. frames[1].i <= Len(parsed) /\ parsed[frames[1].i].kind = "SCRIPT"
      BY <1>11, <1>13, <2>1, <2>5 DEF LeaveScript, AtMark
    <3>2. frames'[1].i = frames[1].i + 1
      BY <1>4, <1>11, <2>1, <2>2, <2>5
    <3>3. Page!RunScript
      BY <1>4, <2>1, <2>5, <3>1, <3>2 DEF Page!RunScript
    <3> QED
      BY <3>3 DEF Page!Next
  <2> QED
    BY <1>0, <2>3, <2>4, <2>5
<1>14. CASE EndEval
  <2>1. /\ Evaluating /\ jump /\ jump' = jump /\ UNCHANGED <<source, o, l, parsed, shown, frames>>
        /\ pc' = "end" /\ Len(frames) = 1
    BY <1>14 DEF EndEval, Evaluated, pageVars, parseVars
  <2>2. frames[1].i > Len(parsed)
    BY <1>11, <1>14, <2>1 DEF EndEval, Evaluated
  <2>3. Page!EndEval
    BY <1>4, <2>1, <2>2 DEF Page!EndEval
  <2> QED
    BY <2>3 DEF Page!Next
\* exit() and post() leave from inside of a script of the page.
<1>15. CASE ExitLua \/ PostHTTPLua
  <2>1. /\ Evaluating /\ Top.running /\ jump' = jump
        /\ UNCHANGED <<source, o, l, parsed, shown, frames>>
        /\ pc' \in {Jumped, "crashed"}
    BY <1>15 DEF ExitLua, PostHTTPLua, MayCall, pageVars, parseVars
  <2>2. CASE pc' = "crashed"
    BY <1>3, <1>4, <2>1, <2>2
  <2>3. CASE pc' = "end" /\ jump
    <3>1. Len(frames) > 1 \/ frames[1].running
      <4>1. CASE Len(frames) = 1
        BY <1>4, <2>1, <4>1, Zenon
      <4>2. Len(frames) = 1 \/ Len(frames) > 1
        <5>1. \A n \in Nat \ {0} : n = 1 \/ n > 1
          OBVIOUS
        <5> QED
          BY <1>4, <2>1, <5>1
      <4> QED
        BY <4>1, <4>2, Zenon
    <3>2. AtScript
      BY <2>3, <3>1 DEF FInv, FramesInv
    <3>3. Page!ExitScript
      BY <1>4, <2>1, <2>3, <3>2 DEF Page!ExitScript, AtScript
    <3> QED
      BY <3>3 DEF Page!Next
  <2> QED
    BY <2>1, <2>2, <2>3 DEF Jumped
<1> QED
  BY <1>1, <1>2, <1>5, <1>6, <1>7, <1>8, <1>9, <1>10, <1>12, <1>13, <1>14, <1>15 DEF Next, Calls

\* A page that a worker evaluates, whatever its scripts do, include and fail at, is a
\* Template: its texts are shown in the order of the file, none twice and none left out
\* before it ends or a script leaves for good, for pages, calls and depths without bound
\* (lws.c:63-77, 79-84, 127-139, 433-455).
THEOREM Refinement == Spec => ImplementsTemplate
<1>1. Init => Page!Init
  BY MappedInit
<1>2. FInv /\ FInv' /\ [Next]_vars => [Page!Next]_(Page!vars)
  BY MappedStep
<1> QED
  BY <1>1, <1>2, FramesInvariance, PTL DEF Spec, ImplementsTemplate, Page!Spec

\* What is proved of every Template is true of the page.
PageProofs == INSTANCE TemplateProofs WITH
                i  <- IF jump THEN frames[1].i ELSE 1,
                pc <- IF pc \in {"scan", "script"} THEN pc
                      ELSE IF jump /\ pc \in {"end", "done"} THEN "done" ELSE "eval"

\* The page as an instance of TemplateProofs and as one of Template are the same.
LEMMA SameInit == Page!Init => PageProofs!Init
  BY DEF Page!Init, PageProofs!Init

LEMMA SameAt ==
  ASSUME NEW k
  PROVE  /\ Page!At(k) = PageProofs!At(k)
         /\ Page!Opens(k) = PageProofs!Opens(k)
         /\ Page!Closes(k) = PageProofs!Closes(k)
         /\ Page!Size = PageProofs!Size
  BY DEF Page!At, PageProofs!At, Page!Opens, PageProofs!Opens, Page!Closes, PageProofs!Closes,
         Page!Size, PageProofs!Size

LEMMA SameNext == [Page!Next]_(Page!vars) => [PageProofs!Next]_(PageProofs!vars)
<1>1. Page!Scan => PageProofs!Scan
  BY DEF Page!Scan, PageProofs!Scan, Page!Opens, PageProofs!Opens, Page!At, PageProofs!At,
         Page!Size, PageProofs!Size
<1>2. Page!OpenScript => PageProofs!OpenScript
  BY DEF Page!OpenScript, PageProofs!OpenScript, Page!Mark, PageProofs!Mark, Page!Opens,
         PageProofs!Opens, Page!At, PageProofs!At, Page!Size, PageProofs!Size
<1>3. Page!SkipScript => PageProofs!SkipScript
  BY DEF Page!SkipScript, PageProofs!SkipScript, Page!Closes, PageProofs!Closes, Page!At,
         PageProofs!At, Page!Size, PageProofs!Size
<1>4. Page!CloseScript => PageProofs!CloseScript
  BY DEF Page!CloseScript, PageProofs!CloseScript, Page!Mark, PageProofs!Mark, Page!Closes,
         PageProofs!Closes, Page!At, PageProofs!At, Page!Size, PageProofs!Size
<1>5. Page!Unclosed => PageProofs!Unclosed
  BY DEF Page!Unclosed, PageProofs!Unclosed, Page!Size, PageProofs!Size
<1>6. Page!EndMark => PageProofs!EndMark
  BY DEF Page!EndMark, PageProofs!EndMark, Page!Mark, PageProofs!Mark, Page!At, PageProofs!At,
         Page!Size, PageProofs!Size
<1>7. Page!ShowText => PageProofs!ShowText
  BY DEF Page!ShowText, PageProofs!ShowText, Page!Offsets, PageProofs!Offsets
<1>8. Page!RunScript => PageProofs!RunScript
  BY DEF Page!RunScript, PageProofs!RunScript
<1>9. Page!ExitScript => PageProofs!ExitScript
  BY DEF Page!ExitScript, PageProofs!ExitScript
<1>10. Page!EndEval => PageProofs!EndEval
  BY DEF Page!EndEval, PageProofs!EndEval
<1>11. UNCHANGED Page!vars => UNCHANGED PageProofs!vars
  BY DEF Page!vars, PageProofs!vars
<1> QED
  BY <1>1, <1>2, <1>3, <1>4, <1>5, <1>6, <1>7, <1>8, <1>9, <1>10, <1>11 DEF Page!Next,
         PageProofs!Next, Page!ParseStep, PageProofs!ParseStep

LEMMA SameMarksKept == PageProofs!MarksKept => MarksKept
<1>1. PageProofs!NoNul = Page!NoNul
  BY DEF Page!NoNul, PageProofs!NoNul, Page!Size, PageProofs!Size
<1>2. PageProofs!MarksInside => Page!MarksInside
  BY <1>1 DEF Page!MarksInside, PageProofs!MarksInside, Page!Size, PageProofs!Size
<1>3. PageProofs!Openings(Page!Size) = Page!Openings(Page!Size) /\ PageProofs!Size = Page!Size
  BY SameAt DEF Page!Openings, PageProofs!Openings, Page!Size, PageProofs!Size
<1>4. PageProofs!MarksFit => Page!MarksFit
  BY <1>3, SMTT(20) DEF Page!Cardinality, PageProofs!Cardinality, Page!MarksFit, PageProofs!MarksFit
<1> QED
  BY <1>2, <1>4 DEF MarksKept, Page!MarksKept, PageProofs!MarksKept

LEMMA SameDivided == PageProofs!Divided => Divided
<1>1. PageProofs!NoNul = Page!NoNul
  BY DEF Page!NoNul, PageProofs!NoNul, Page!Size, PageProofs!Size
<1>2. PageProofs!Paired = Page!Paired
  BY SameAt DEF Page!Paired, PageProofs!Paired, Page!Size, PageProofs!Size
<1>3. \A n : PageProofs!Behind(n) = Page!Behind(n)
  BY DEF Page!Behind, PageProofs!Behind, Page!Ended, PageProofs!Ended
<1>4. \A m, from : PageProofs!GoesOn(m, from) = Page!GoesOn(m, from)
  BY SameAt DEF Page!GoesOn, PageProofs!GoesOn, Page!TextOn, PageProofs!TextOn, Page!ScriptOn,
         PageProofs!ScriptOn
<1> QED
  BY <1>1, <1>2, <1>3, <1>4 DEF Divided, Page!Divided, PageProofs!Divided

LEMMA PageAssumption == Source \subseteq Seq(PageProofs!Symbol) /\ Capacity \in Nat
  BY SourceAssumption, CapacityAssumption DEF Symbol, PageProofs!Symbol

LEMMA PageInit == Page!Init => PageProofs!IInv /\ PageProofs!DividedInv
  BY PageAssumption, PageProofs!InitIInv, PageProofs!DividedInit, SameInit

LEMMA PageStep ==
  (PageProofs!IInv /\ PageProofs!DividedInv) /\ [Page!Next]_(Page!vars) =>
    (PageProofs!IInv /\ PageProofs!DividedInv)'
  BY PageAssumption, PageProofs!StepIInv, PageProofs!DividedStep, SameNext

\* Whatever scripts do with a page, its marks lead to no place outside of the file, and
\* there is room for them (files.c:19-53).
THEOREM MarksAreKept == Spec => []MarksKept
<1>1. PageProofs!IInv => MarksKept
  BY PageAssumption, PageProofs!MarksByIInv, SameMarksKept
<1> QED
  BY <1>1, PageInit, PageStep, Refinement, PTL DEF ImplementsTemplate, Page!Spec

\* The page that a worker evaluates is divided in the one way there is, from the first
\* call of its scripts to the last (files.c:40-53).
THEOREM PageIsDivided == Spec => []Divided
<1>1. PageProofs!DividedInv => Divided
  BY PageAssumption, PageProofs!DividedByInv, SameDivided
<1> QED
  BY <1>1, PageInit, PageStep, Refinement, PTL DEF ImplementsTemplate, Page!Spec

-----------------------------------------------------------------------------
(* The order of paths. *)

\* Two paths are the same up to n.
Same(p, q, n) == \A j \in 1..n : p[j] = q[j]

\* What it is to come first, or before, by the numbers of a path.
LEMMA SamePrefix ==
  ASSUME NEW p \in Seq(Nat), NEW q \in Seq(Nat), NEW n \in 0..Len(p), n <= Len(q)
  PROVE  SubSeq(p, 1, n) = SubSeq(q, 1, n) <=> Same(p, q, n)
<1>1. \A k \in 1..n : p[k] \in Nat /\ q[k] \in Nat
  BY ElementOfSeq
<1>2. /\ SubSeq(p, 1, n) \in Seq(Nat) /\ SubSeq(q, 1, n) \in Seq(Nat)
      /\ Len(SubSeq(p, 1, n)) = n /\ Len(SubSeq(q, 1, n)) = n
      /\ \A k \in 1..n : SubSeq(p, 1, n)[k] = p[k] /\ SubSeq(q, 1, n)[k] = q[k]
  BY <1>1, SubSeqProperties
<1>3. SubSeq(p, 1, n) = SubSeq(q, 1, n) => Same(p, q, n)
  BY <1>2, Zenon DEF Same
<1>4. Same(p, q, n) => SubSeq(p, 1, n) = SubSeq(q, 1, n)
  BY <1>2, SeqEqual DEF Same
<1> QED
  BY <1>3, <1>4

LEMMA PrefixBySame ==
  ASSUME NEW p \in Seq(Nat), NEW q \in Seq(Nat)
  PROVE  IsPrefix(p, q) <=> Len(p) <= Len(q) /\ Same(p, q, Len(p))
<1>1. Len(p) \in 0..Len(p) /\ Len(p) \in Nat
  OBVIOUS
<1> QED
  BY <1>1, SamePrefix DEF IsPrefix

LEMMA BeforeBySame ==
  ASSUME NEW p \in Seq(Nat), NEW q \in Seq(Nat)
  PROVE  Before(p, q) <=>
           \/ Len(p) < Len(q) /\ Same(p, q, Len(p))
           \/ \E k \in 1..Len(p) : k <= Len(q) /\ p[k] < q[k] /\ Same(p, q, k - 1)
<1>1. IsStrictPrefix(p, q) <=> Len(p) < Len(q) /\ Same(p, q, Len(p))
  <2>1. IsPrefix(p, q) <=> Len(p) <= Len(q) /\ Same(p, q, Len(p))
    BY PrefixBySame
  <2>2. Len(p) = Len(q) /\ Same(p, q, Len(p)) => p = q
    BY SeqEqual DEF Same
  <2>3. Len(p) \in Nat /\ Len(q) \in Nat
    OBVIOUS
  <2> QED
    BY <2>1, <2>2, <2>3 DEF IsStrictPrefix
<1>2. ASSUME NEW k \in 1..Len(p), k <= Len(q)
      PROVE  SubSeq(p, 1, k - 1) = SubSeq(q, 1, k - 1) <=> Same(p, q, k - 1)
  <2>1. k - 1 \in 0..Len(p) /\ k - 1 <= Len(q)
    BY <1>2
  <2> QED
    BY <2>1, SamePrefix
<1> QED
  BY <1>1, <1>2 DEF Before

\* What is before q is before all that q is before.
LEMMA BeforeAll ==
  ASSUME NEW p \in Seq(Nat), NEW q \in Seq(Nat), NEW r \in Seq(Nat), Before(p, q), Before(q, r)
  PROVE  Before(p, r)
<1>1. Len(p) \in Nat /\ Len(q) \in Nat /\ Len(r) \in Nat
      /\ (\A k \in 1..Len(p) : p[k] \in Nat) /\ (\A k \in 1..Len(q) : q[k] \in Nat)
      /\ (\A k \in 1..Len(r) : r[k] \in Nat)
  BY ElementOfSeq
<1>2. CASE Len(p) < Len(q) /\ Same(p, q, Len(p))
  <2>1. CASE Len(q) < Len(r) /\ Same(q, r, Len(q))
    <3>1. Len(p) < Len(r) /\ Same(p, r, Len(p))
      BY <1>1, <1>2, <2>1 DEF Same
    <3> QED BY <3>1, BeforeBySame
  <2>2. ASSUME NEW j \in 1..Len(q), j <= Len(r), q[j] < r[j], Same(q, r, j - 1)
        PROVE  Before(p, r)
    <3>1. CASE j <= Len(p)
      <4>1. j \in 1..Len(p) /\ p[j] < r[j] /\ Same(p, r, j - 1)
        BY <1>1, <1>2, <2>2, <3>1 DEF Same
      <4> QED BY <2>2, <4>1, BeforeBySame
    <3>2. CASE j > Len(p)
      <4>1. Len(p) < Len(r) /\ Same(p, r, Len(p))
        BY <1>1, <1>2, <2>2, <3>2 DEF Same
      <4> QED BY <4>1, BeforeBySame
    <3> QED BY <1>1, <3>1, <3>2
  <2> QED BY <2>1, <2>2, BeforeBySame
<1>3. ASSUME NEW k \in 1..Len(p), k <= Len(q), p[k] < q[k], Same(p, q, k - 1)
      PROVE  Before(p, r)
  <2>1. CASE Len(q) < Len(r) /\ Same(q, r, Len(q))
    <3>1. k <= Len(r) /\ p[k] < r[k] /\ Same(p, r, k - 1)
      BY <1>1, <1>3, <2>1 DEF Same
    <3> QED BY <3>1, BeforeBySame
  <2>2. ASSUME NEW j \in 1..Len(q), j <= Len(r), q[j] < r[j], Same(q, r, j - 1)
        PROVE  Before(p, r)
    <3>1. CASE j < k
      <4>1. j \in 1..(k - 1) /\ j \in 1..Len(p)
        BY <1>1, <3>1
      <4>2. p[j] = q[j] /\ p[j] < r[j]
        BY <1>3, <2>2, <4>1 DEF Same
      <4>3. \A n \in 1..(j - 1) : n \in 1..(k - 1)
        BY <4>1
      <4>4. Same(p, r, j - 1)
        BY <1>3, <2>2, <4>3, Zenon DEF Same
      <4> QED BY <2>2, <4>1, <4>2, <4>4, BeforeBySame
    <3>2. CASE j >= k
      <4>1. k <= Len(r) /\ Same(p, r, k - 1)
        <5>1. ASSUME NEW n \in 1..(k - 1) PROVE p[n] = r[n]
          <6>1. n \in 1..(j - 1) /\ n \in 1..(k - 1)
            BY <1>1, <3>2
          <6> QED BY <1>3, <2>2, <6>1, Zenon DEF Same
        <5>2. Same(p, r, k - 1)
          BY <5>1 DEF Same
        <5> QED BY <1>1, <1>3, <2>2, <3>2, <5>2
      <4>2. q[k] <= r[k]
        <5>1. CASE j = k
          BY <1>1, <2>2, <5>1
        <5>2. CASE j # k
          <6>1. k \in 1..(j - 1)
            BY <1>1, <3>2, <5>2
          <6>2. q[k] = r[k] /\ k \in 1..Len(q)
            BY <1>1, <2>2, <6>1 DEF Same
          <6> QED BY <1>1, <6>2
        <5> QED BY <5>1, <5>2
      <4>3. p[k] \in Nat /\ q[k] \in Nat /\ r[k] \in Nat
        BY <1>1, <1>3, <4>1
      <4>4. p[k] < q[k]
        BY <1>3
      <4>5. p[k] < r[k]
        BY <4>2, <4>3, <4>4
      <4> QED BY <4>1, <4>5, BeforeBySame
    <3> QED BY <1>1, <3>1, <3>2
  <2> QED BY <2>1, <2>2, BeforeBySame
<1> QED BY <1>2, <1>3, BeforeBySame

\* What is before q, or in it, is before all that comes behind it at a place they share.
LEMMA BeforeLater ==
  ASSUME NEW p \in Seq(Nat), NEW q \in Seq(Nat), NEW r \in Seq(Nat),
         Before(p, q) \/ IsPrefix(q, p),
         NEW k \in 1..Len(q), k <= Len(r), q[k] < r[k], Same(q, r, k - 1)
  PROVE  Before(p, r)
<1>1. Len(p) \in Nat /\ Len(q) \in Nat /\ Len(r) \in Nat
      /\ q[k] \in Nat /\ r[k] \in Nat
  <2>1. Len(p) \in Nat /\ Len(q) \in Nat /\ Len(r) \in Nat
    OBVIOUS
  <2>2. k \in 1..Len(r)
    BY <2>1
  <2> QED BY <2>1, <2>2, ElementOfSeq
<1>2. CASE Before(p, q)
  <2>1. Before(q, r)
    BY BeforeBySame
  <2> QED BY <1>2, <2>1, BeforeAll
<1>3. CASE IsPrefix(q, p)
  <2>1. Len(q) <= Len(p) /\ Same(q, p, Len(q))
    BY <1>3, PrefixBySame
  <2>2. k \in 1..Len(p) /\ p[k] < r[k] /\ Same(p, r, k - 1)
    BY <1>1, <2>1 DEF Same
  <2> QED BY <2>2, BeforeBySame
<1> QED BY <1>2, <1>3

\* What is before q, or in it, is so for what q is in.
LEMMA BeforeOuter ==
  ASSUME NEW p \in Seq(Nat), NEW q \in Seq(Nat), NEW r \in Seq(Nat),
         Before(p, q) \/ IsPrefix(q, p), IsPrefix(r, q)
  PROVE  Before(p, r) \/ IsPrefix(r, p)
<1>1. Len(p) \in Nat /\ Len(q) \in Nat /\ Len(r) \in Nat
      /\ (\A j \in 1..Len(p) : p[j] \in Nat) /\ (\A j \in 1..Len(q) : q[j] \in Nat)
      /\ (\A j \in 1..Len(r) : r[j] \in Nat)
  BY ElementOfSeq
<1>2. Len(r) <= Len(q) /\ Same(r, q, Len(r))
  BY PrefixBySame
<1>3. CASE IsPrefix(q, p)
  <2>1. Len(q) <= Len(p) /\ Same(q, p, Len(q))
    BY <1>3, PrefixBySame
  <2>2. Len(r) <= Len(p) /\ Same(r, p, Len(r))
    BY <1>1, <1>2, <2>1 DEF Same
  <2> QED BY <2>2, PrefixBySame
<1>4. CASE Len(p) < Len(q) /\ Same(p, q, Len(p))
  <2>1. CASE Len(p) < Len(r)
    <3>1. Same(p, r, Len(p))
      BY <1>1, <1>2, <1>4, <2>1 DEF Same
    <3> QED BY <2>1, <3>1, BeforeBySame
  <2>2. CASE Len(r) <= Len(p)
    <3>1. Same(r, p, Len(r))
      BY <1>1, <1>2, <1>4, <2>2 DEF Same
    <3> QED BY <2>2, <3>1, PrefixBySame
  <2> QED BY <1>1, <2>1, <2>2
<1>5. ASSUME NEW k \in 1..Len(p), k <= Len(q), p[k] < q[k], Same(p, q, k - 1)
      PROVE  Before(p, r) \/ IsPrefix(r, p)
  <2>1. CASE k <= Len(r)
    <3>1. p[k] < r[k] /\ Same(p, r, k - 1)
      BY <1>1, <1>2, <1>5, <2>1 DEF Same
    <3> QED BY <2>1, <3>1, BeforeBySame
  <2>2. CASE Len(r) < k
    <3>1. Len(r) <= Len(p) /\ Same(r, p, Len(r))
      BY <1>1, <1>2, <1>5, <2>2 DEF Same
    <3> QED BY <3>1, PrefixBySame
  <2> QED BY <1>1, <2>1, <2>2
<1> QED BY <1>3, <1>4, <1>5, BeforeBySame

LEMMA PrefixOfSame == ASSUME NEW p \in Seq(Nat) PROVE IsPrefix(p, p)
<1>1. Len(p) \in Nat
  OBVIOUS
<1> QED BY <1>1 DEF IsPrefix

LEMMA PrefixOfPrefix ==
  ASSUME NEW p \in Seq(Nat), NEW q \in Seq(Nat), NEW r \in Seq(Nat), IsPrefix(p, q), IsPrefix(q, r)
  PROVE  IsPrefix(p, r)
<1>1. Len(p) \in Nat /\ Len(q) \in Nat /\ Len(r) \in Nat
  OBVIOUS
<1>2. Len(p) <= Len(q) /\ Same(p, q, Len(p)) /\ Len(q) <= Len(r) /\ Same(q, r, Len(q))
  BY PrefixBySame
<1>3. Len(p) <= Len(r) /\ Same(p, r, Len(p))
  BY <1>1, <1>2 DEF Same
<1> QED BY <1>3, PrefixBySame

\* A path with two numbers behind it.
LEMMA PathOfTwo ==
  ASSUME NEW p \in Seq(Nat), NEW a \in Nat, NEW b \in Nat
  PROVE  LET q == p \o <<a, b>>
         IN /\ q \in Seq(Nat) /\ Len(q) = Len(p) + 2
            /\ Same(p, q, Len(p)) /\ q[Len(p) + 1] = a /\ q[Len(p) + 2] = b
            /\ IsPrefix(p, q)
<1> DEFINE q == p \o <<a, b>>
<1>1. <<a, b>> \in Seq(Nat) /\ Len(<<a, b>>) = 2 /\ <<a, b>>[1] = a /\ <<a, b>>[2] = b
  OBVIOUS
<1>2. /\ q \in Seq(Nat) /\ Len(q) = Len(p) + 2 /\ Len(p) \in Nat
      /\ \A j \in 1..(Len(p) + 2) : q[j] = IF j <= Len(p) THEN p[j] ELSE <<a, b>>[j - Len(p)]
  BY <1>1, ConcatProperties
<1>3. Same(p, q, Len(p)) /\ q[Len(p) + 1] = a /\ q[Len(p) + 2] = b
  <2>1. Len(p) + 1 \in 1..(Len(p) + 2) /\ Len(p) + 2 \in 1..(Len(p) + 2)
        /\ ~(Len(p) + 1 <= Len(p)) /\ ~(Len(p) + 2 <= Len(p))
        /\ (Len(p) + 1) - Len(p) = 1 /\ (Len(p) + 2) - Len(p) = 2
    BY <1>2
  <2>2. q[Len(p) + 1] = <<a, b>>[1] /\ q[Len(p) + 2] = <<a, b>>[2]
    BY <1>2, <2>1
  <2>3. Same(p, q, Len(p))
    BY <1>2 DEF Same
  <2> QED BY <1>1, <2>2, <2>3
<1> HIDE DEF q
<1>4. IsPrefix(p, q)
  BY <1>2, <1>3, PrefixBySame
<1> QED BY <1>2, <1>3, <1>4, Zenon DEF q

\* A path is before what is called at it.
LEMMA BeforeInner ==
  ASSUME NEW p \in Seq(Nat), NEW h \in Seq(Nat), NEW a \in Nat, NEW b \in Nat,
         Before(p, h) \/ p = h
  PROVE  Before(p, h \o <<a, b>>)
<1> DEFINE q == h \o <<a, b>>
<1>1. q \in Seq(Nat) /\ Len(q) = Len(h) + 2 /\ Same(h, q, Len(h))
  BY PathOfTwo, Zenon
<1> HIDE DEF q
<1>2. Before(h, q)
  <2>1. Len(h) < Len(q)
    <3>1. Len(h) \in Nat
      OBVIOUS
    <3> QED BY <1>1, <3>1
  <2> QED BY <1>1, <2>1, BeforeBySame
<1>3. Before(p, q)
  BY <1>1, <1>2, BeforeAll
<1> QED BY <1>3 DEF q

-----------------------------------------------------------------------------
(* In which order it is written. *)

\* The place in the pages that a file being evaluated is at.
Spot(f) == f.path \o <<f.i, f.n>>

LEMMA SpotType ==
  ASSUME NEW f \in Frames
  PROVE  /\ f.path \in Seq(Nat) /\ f.i \in Nat /\ f.n \in Nat /\ Len(f.path) \in Nat
         /\ Spot(f) \in Seq(Nat) /\ Len(Spot(f)) = Len(f.path) + 2
         /\ Same(f.path, Spot(f), Len(f.path))
         /\ Spot(f)[Len(f.path) + 1] = f.i /\ Spot(f)[Len(f.path) + 2] = f.n
         /\ IsPrefix(f.path, Spot(f))
<1>1. f.path \in Seq(Nat) /\ f.i \in Nat /\ f.n \in Nat
  BY DEF Frames
<1>2. Len(f.path) \in Nat
  BY <1>1
<1>3. /\ Spot(f) \in Seq(Nat) /\ Len(Spot(f)) = Len(f.path) + 2
      /\ Same(f.path, Spot(f), Len(f.path))
      /\ Spot(f)[Len(f.path) + 1] = f.i /\ Spot(f)[Len(f.path) + 2] = f.n
      /\ IsPrefix(f.path, Spot(f))
  <2> DEFINE q == f.path \o <<f.i, f.n>>
  <2>1. /\ q \in Seq(Nat) /\ Len(q) = Len(f.path) + 2
        /\ Same(f.path, q, Len(f.path)) /\ q[Len(f.path) + 1] = f.i /\ q[Len(f.path) + 2] = f.n
        /\ IsPrefix(f.path, q)
    BY <1>1, PathOfTwo
  <2>2. Spot(f) = q
    BY DEF Spot
  <2> HIDE DEF q
  <2> QED BY <2>1, <2>2
<1> QED BY <1>1, <1>2, <1>3

\* A file has gone on: to its next call, or to another mark.
GoneOn(f, g) == g.path = f.path /\ ((g.i = f.i /\ f.n < g.n) \/ f.i < g.i)

LEMMA BeforeGoneOn ==
  ASSUME NEW f \in Frames, NEW g \in Frames, GoneOn(f, g), NEW p \in Seq(Nat),
         Before(p, Spot(f)) \/ IsPrefix(Spot(f), p)
  PROVE  Before(p, Spot(g))
<1> DEFINE n == Len(f.path)
           q == Spot(f)
           r == Spot(g)
<1>1. /\ n \in Nat /\ q \in Seq(Nat) /\ r \in Seq(Nat) /\ Len(q) = n + 2 /\ Len(r) = n + 2
      /\ q[n + 1] = f.i /\ q[n + 2] = f.n /\ r[n + 1] = g.i /\ r[n + 2] = g.n
      /\ f.i \in Nat /\ g.i \in Nat /\ f.n \in Nat /\ g.n \in Nat
      /\ Same(f.path, q, n) /\ Same(f.path, r, n)
  BY SpotType DEF GoneOn
<1>2. Before(p, q) \/ IsPrefix(q, p)
  OBVIOUS
<1> HIDE DEF n, q, r
<1>3. \A j \in 1..n : q[j] = r[j]
  BY <1>1 DEF Same
<1>4. CASE f.i < g.i
  <2>1. n + 1 \in 1..Len(q) /\ n + 1 <= Len(r) /\ q[n + 1] < r[n + 1]
    BY <1>1, <1>4
  <2>2. Same(q, r, (n + 1) - 1)
    BY <1>1, <1>3 DEF Same
  <2>3. Before(p, r)
    BY <1>1, <1>2, <2>1, <2>2, BeforeLater
  <2> QED BY <2>3 DEF r
<1>5. CASE g.i = f.i /\ f.n < g.n
  <2>1. n + 2 \in 1..Len(q) /\ n + 2 <= Len(r) /\ q[n + 2] < r[n + 2]
    BY <1>1, <1>5
  <2>2. Same(q, r, (n + 2) - 1)
    <3>1. ASSUME NEW j \in 1..((n + 2) - 1) PROVE q[j] = r[j]
      <4>1. j = n + 1 \/ j \in 1..n
        BY <1>1
      <4> QED BY <1>1, <1>3, <1>5, <4>1
    <3> QED BY <3>1 DEF Same
  <2>3. Before(p, r)
    BY <1>1, <1>2, <2>1, <2>2, BeforeLater
  <2> QED BY <2>3 DEF r
<1> QED BY <1>4, <1>5 DEF GoneOn

Past(T, h)    == \A k \in 1..Len(T) : Before(T[k].at, h)
Reached(T, h) == \A k \in 1..Len(T) : Before(T[k].at, h) \/ IsPrefix(h, T[k].at)
Ordered(T)    == \A j, k \in 1..Len(T) : j < k => Before(T[j].at, T[k].at)

\* Every file but the outermost was called by the one outside of it.
Nested(F) ==
  \A k \in 1..Len(F) :
    /\ k < Len(F) => F[k].n > 0 /\ F[k + 1].path = Spot(F[k])
    /\ \A j \in 1..k : IsPrefix(F[j].path, F[k].path)

\* What is written is in order, and nothing of it behind the place that has been reached.
Along(F, T) == Nested(F) /\ Ordered(T) /\ Reached(T, Spot(F[Len(F)]))

\* G is F, but for the innermost file.
Replaced(F, G, f) ==
  Len(G) = Len(F) /\ \A k \in 1..Len(F) : G[k] = IF k = Len(F) THEN f ELSE F[k]

LEMMA TraceType ==
  ASSUME NEW T \in Seq(Traced)
  PROVE  Len(T) \in Nat /\ \A k \in 1..Len(T) : T[k] \in Traced /\ T[k].at \in Seq(Nat)
<1>1. \A k \in 1..Len(T) : T[k] \in Traced
  BY ElementOfSeq
<1> QED BY <1>1 DEF Traced

LEMMA NestedReplaced ==
  ASSUME NEW F \in Seq(Frames), F # <<>>, NEW G, NEW f, Nested(F), Replaced(F, G, f),
         f.path = F[Len(F)].path
  PROVE  Nested(G)
<1>1. Len(F) \in Nat \ {0} /\ Len(G) = Len(F)
  BY EmptySeq DEF Replaced
<1>2. \A k \in 1..Len(F) : G[k].path = F[k].path
  BY DEF Replaced
<1>3. \A k \in 1..Len(F) : k < Len(F) => G[k] = F[k] /\ k + 1 \in 1..Len(F)
  BY <1>1 DEF Replaced
<1>4. \A k \in 1..Len(F) : \A j \in 1..k : j \in 1..Len(F)
  BY <1>1
<1> QED BY <1>1, <1>2, <1>3, <1>4 DEF Nested

\* A file goes on.
LEMMA AlongGoneOn ==
  ASSUME NEW F \in Seq(Frames), F # <<>>, NEW G, NEW f \in Frames, NEW T \in Seq(Traced),
         Along(F, T), Replaced(F, G, f), GoneOn(F[Len(F)], f)
  PROVE  Along(G, T) /\ Past(T, Spot(f))
<1>1. Len(F) \in Nat \ {0} /\ F[Len(F)] \in Frames
  BY EmptySeq, ElementOfSeq
<1>2. Nested(G)
  BY NestedReplaced DEF Along, GoneOn
<1>3. Past(T, Spot(f))
  <2>1. SUFFICES ASSUME NEW k \in 1..Len(T) PROVE Before(T[k].at, Spot(f))
    BY DEF Past
  <2>2. T[k].at \in Seq(Nat)
    BY TraceType
  <2>3. Before(T[k].at, Spot(F[Len(F)])) \/ IsPrefix(Spot(F[Len(F)]), T[k].at)
    BY DEF Along, Reached
  <2> QED BY <1>1, <2>2, <2>3, BeforeGoneOn
<1>4. G[Len(G)] = f
  BY <1>1 DEF Replaced
<1> QED BY <1>2, <1>3, <1>4 DEF Along, Past, Reached

\* Something is written where the innermost file is.
LEMMA AlongWritten ==
  ASSUME NEW F \in Seq(Frames), F # <<>>, NEW T \in Seq(Traced), NEW e \in Traced,
         Along(F, T), Past(T, Spot(F[Len(F)])), e.at = Spot(F[Len(F)])
  PROVE  Along(F, Append(T, e))
<1> DEFINE U == Append(T, e)
<1>1. /\ Len(T) \in Nat /\ Len(U) = Len(T) + 1 /\ U[Len(T) + 1] = e
      /\ \A k \in 1..Len(T) : U[k] = T[k]
  BY TraceType, AppendProperties
<1> HIDE DEF U
<1>2. \A k \in 1..Len(U) : k \in 1..Len(T) \/ k = Len(T) + 1
  BY <1>1
<1>3. Ordered(U)
  <2>1. SUFFICES ASSUME NEW j \in 1..Len(U), NEW k \in 1..Len(U), j < k
                 PROVE  Before(U[j].at, U[k].at)
    BY DEF Ordered
  <2>2. j \in 1..Len(T)
    BY <1>1, <2>1
  <2>3. CASE k \in 1..Len(T)
    BY <1>1, <2>1, <2>2, <2>3 DEF Along, Ordered
  <2>4. CASE k = Len(T) + 1
    BY <1>1, <2>2, <2>4 DEF Past
  <2> QED BY <1>2, <2>3, <2>4
<1>4. IsPrefix(e.at, e.at)
  BY PrefixOfSame DEF Traced
<1>5. Reached(U, Spot(F[Len(F)]))
  <2>1. SUFFICES ASSUME NEW k \in 1..Len(U)
                 PROVE  Before(U[k].at, Spot(F[Len(F)])) \/ IsPrefix(Spot(F[Len(F)]), U[k].at)
    BY DEF Reached
  <2>2. CASE k \in 1..Len(T)
    BY <1>1, <2>2 DEF Past
  <2>3. CASE k = Len(T) + 1
    BY <1>1, <1>4, <2>3
  <2> QED BY <1>2, <2>2, <2>3
<1>6. Along(F, U)
  BY <1>3, <1>5 DEF Along
<1> QED BY <1>6 DEF U

\* A file is called from where the innermost one is.
LEMMA AlongCalled ==
  ASSUME NEW F \in Seq(Frames), F # <<>>, NEW T \in Seq(Traced), NEW g \in Frames,
         Along(F, T), F[Len(F)].n > 0, g.path = Spot(F[Len(F)]), Past(T, Spot(g))
  PROVE  Along(Append(F, g), T)
<1> DEFINE n == Len(F)
           G == Append(F, g)
<1>1. /\ n \in Nat \ {0} /\ F[n] \in Frames /\ Len(G) = n + 1 /\ G[n + 1] = g
      /\ \A k \in 1..n : G[k] = F[k]
  BY EmptySeq, ElementOfSeq, AppendProperties
<1>2. F[n].path \in Seq(Nat) /\ g.path \in Seq(Nat) /\ IsPrefix(F[n].path, g.path)
  BY <1>1, SpotType
<1>3. \A j \in 1..n : IsPrefix(F[j].path, F[n].path) /\ F[j].path \in Seq(Nat)
  <2>1. n \in 1..n
    BY <1>1
  <2>2. \A j \in 1..n : F[j] \in Frames
    BY ElementOfSeq
  <2> QED BY <2>1, <2>2, SpotType DEF Along, Nested
<1>4. \A j \in 1..n : IsPrefix(F[j].path, g.path)
  BY <1>2, <1>3, PrefixOfPrefix
<1>5. IsPrefix(g.path, g.path)
  BY <1>2, PrefixOfSame
<1> HIDE DEF G
<1>6. ASSUME NEW k \in 1..Len(G)
      PROVE  /\ k < Len(G) => G[k].n > 0 /\ G[k + 1].path = Spot(G[k])
             /\ \A j \in 1..k : IsPrefix(G[j].path, G[k].path)
  <2>1. CASE k = n + 1
    <3>1. \A j \in 1..k : j = n + 1 \/ j \in 1..n
      BY <1>1, <2>1
    <3> QED BY <1>1, <1>4, <1>5, <2>1, <3>1
  <2>2. CASE k = n
    <3>1. \A j \in 1..k : j \in 1..n
      BY <2>2
    <3> QED BY <1>1, <1>3, <2>2, <3>1
  <2>3. CASE k \in 1..(n - 1)
    <3>1. k \in 1..n /\ k + 1 \in 1..n /\ k < n /\ \A j \in 1..k : j \in 1..n
      BY <1>1, <2>3
    <3> QED BY <1>1, <3>1 DEF Along, Nested
  <2>4. k = n + 1 \/ k = n \/ k \in 1..(n - 1)
    BY <1>1
  <2> QED BY <2>1, <2>2, <2>3, <2>4
<1>7. Nested(G)
  BY <1>6 DEF Nested
<1>8. Along(G, T)
  BY <1>1, <1>7 DEF Along, Past, Reached
<1> QED BY <1>8 DEF G

\* The innermost file is left.
LEMMA AlongLeft ==
  ASSUME NEW F \in Seq(Frames), Len(F) > 1, NEW T \in Seq(Traced), NEW G,
         Len(G) = Len(F) - 1, \A k \in 1..(Len(F) - 1) : G[k] = F[k],
         Along(F, T)
  PROVE  Along(G, T) /\ G[Len(G)].n > 0
<1> DEFINE n == Len(G)
<1>1. n \in Nat \ {0} /\ Len(F) = n + 1 /\ n \in 1..Len(F) /\ n + 1 \in 1..Len(F) /\ n < Len(F)
  <2>1. Len(F) \in Nat
    OBVIOUS
  <2> QED BY <2>1
<1>2. \A k \in 1..n : G[k] = F[k] /\ k \in 1..Len(F) /\ k < Len(F)
                      /\ (k < n => k + 1 \in 1..n) /\ \A j \in 1..k : j \in 1..n
  BY <1>1
<1> HIDE DEF n
<1>3. Nested(G)
  <2>1. ASSUME NEW k \in 1..n
        PROVE  /\ k < n => G[k].n > 0 /\ G[k + 1].path = Spot(G[k])
               /\ \A j \in 1..k : IsPrefix(G[j].path, G[k].path)
    BY <1>2 DEF Along, Nested
  <2> QED BY <2>1 DEF Nested, n
<1>4. G[n] = F[n] /\ n \in 1..n /\ F[n] \in Frames /\ F[n + 1] \in Frames
  <2>1. n \in 1..n
    BY <1>1
  <2> QED BY <1>1, <1>2, <2>1, ElementOfSeq
<1>5. G[n].n > 0 /\ F[n + 1].path = Spot(F[n])
  BY <1>1, <1>4 DEF Along, Nested
<1>6. Reached(T, Spot(G[n]))
  <2>1. SUFFICES ASSUME NEW k \in 1..Len(T)
                 PROVE  Before(T[k].at, Spot(G[n])) \/ IsPrefix(Spot(G[n]), T[k].at)
    BY DEF Reached
  <2>2. Before(T[k].at, Spot(F[n + 1])) \/ IsPrefix(Spot(F[n + 1]), T[k].at)
    BY <1>1 DEF Along, Reached
  <2>3. T[k].at \in Seq(Nat) /\ Spot(F[n + 1]) \in Seq(Nat) /\ Spot(G[n]) \in Seq(Nat)
        /\ IsPrefix(Spot(G[n]), Spot(F[n + 1]))
    BY <1>4, <1>5, TraceType, SpotType
  <2> QED BY <2>2, <2>3, BeforeOuter
<1> QED BY <1>3, <1>5, <1>6 DEF Along, n

\* The page comes behind common.lua.
LEMMA AlongJump ==
  ASSUME NEW F \in Seq(Frames), Len(F) = 1, NEW T \in Seq(Traced), NEW g \in Frames,
         Len(F[1].path) = 1, F[1].path[1] = 0, Len(g.path) = 1, g.path[1] = 1, Along(F, T)
  PROVE  Along(<<g>>, T) /\ Past(T, Spot(g))
<1> DEFINE p == F[1].path
           q == g.path
<1>1. 1 \in 1..Len(F) /\ F[1] \in Frames
  BY ElementOfSeq
<1>2. Len(p) = 1 /\ Len(q) = 1 /\ p[1] = 0 /\ q[1] = 1
  OBVIOUS
<1>3. /\ Spot(F[1]) \in Seq(Nat) /\ Spot(g) \in Seq(Nat) /\ Len(Spot(F[1])) = 3 /\ Len(Spot(g)) = 3
      /\ Spot(F[1])[1] = 0 /\ Spot(g)[1] = 1
  <2>1. /\ Spot(F[1]) \in Seq(Nat) /\ Len(Spot(F[1])) = Len(p) + 2 /\ Same(p, Spot(F[1]), Len(p))
    BY <1>1, SpotType
  <2>2. /\ Spot(g) \in Seq(Nat) /\ Len(Spot(g)) = Len(q) + 2 /\ Same(q, Spot(g), Len(q))
    BY SpotType
  <2> HIDE DEF p, q
  <2> QED BY <1>2, <2>1, <2>2 DEF Same
<1>4. Past(T, Spot(g))
  <2>1. SUFFICES ASSUME NEW k \in 1..Len(T) PROVE Before(T[k].at, Spot(g))
    BY DEF Past
  <2>2. Before(T[k].at, Spot(F[1])) \/ IsPrefix(Spot(F[1]), T[k].at)
    BY DEF Along, Reached
  <2>3. T[k].at \in Seq(Nat)
    BY TraceType
  <2>4. 1 \in 1..Len(Spot(F[1])) /\ 1 <= Len(Spot(g)) /\ Spot(F[1])[1] < Spot(g)[1]
        /\ Same(Spot(F[1]), Spot(g), 1 - 1)
    BY <1>3 DEF Same
  <2> QED BY <1>3, <2>2, <2>3, <2>4, BeforeLater
<1>5. Len(<<g>>) = 1 /\ <<g>>[1] = g
  OBVIOUS
<1>6. Nested(<<g>>)
  <2>1. IsPrefix(g.path, g.path)
    <3>1. g.path \in Seq(Nat)
      BY SpotType
    <3> QED BY <3>1, PrefixOfSame
  <2>2. \A k \in 1..1 : k = 1
    OBVIOUS
  <2> QED BY <1>5, <2>1, <2>2 DEF Nested
<1> QED BY <1>4, <1>5, <1>6 DEF Along, Past, Reached

-----------------------------------------------------------------------------
(* What of the pages is written. *)

MarksIn(M, f) == IF f.kind = "page" THEN M ELSE <<Mark("SCRIPT", 0, 0)>>

\* Only in a script are calls made.
Fits(M, f) ==
  /\ ~f.running => f.n = 0
  /\ f.running => f.i <= Len(MarksIn(M, f)) /\ MarksIn(M, f)[f.i].kind = "SCRIPT"

Texts(T, M, p, i) ==
  \A m \in 1..Len(M) : m < i /\ M[m].kind = "TEXT" => \E k \in 1..Len(T) : T[k].at = p \o <<m, 0>>

Shows(F, T, M) ==
  \A k \in 1..Len(F) :
    Fits(M, F[k]) /\ (F[k].kind = "page" => Texts(T, M, F[k].path, F[k].i))

\* A page that was included is written, or still being evaluated.
Opened(F, p) == \E j \in 1..Len(F) : F[j].kind = "page" /\ F[j].path = p
Includes(F, T, M) ==
  \A k \in 1..Len(T) :
    T[k].what = "include" => Texts(T, M, T[k].at, Len(M) + 1) \/ Opened(F, T[k].at)

Continues(T, U) == \A k \in 1..Len(T) : k \in 1..Len(U) /\ U[k] = T[k]

LEMMA TextsLater ==
  ASSUME NEW T, NEW U, Continues(T, U), NEW M, NEW p, NEW i, Texts(T, M, p, i)
  PROVE  Texts(U, M, p, i)
  BY DEF Continues, Texts

\* One file is changed, and what is written besides is no file.
LEMMA PageReplaced ==
  ASSUME NEW F \in Seq(Frames), F # <<>>, NEW G, NEW f, NEW M, NEW T, NEW U,
         Shows(F, T, M), Includes(F, T, M), Replaced(F, G, f),
         f.kind = F[Len(F)].kind, f.path = F[Len(F)].path, Fits(M, f),
         f.kind = "page" => Texts(U, M, f.path, f.i),
         Continues(T, U), \A k \in 1..Len(U) : k \in 1..Len(T) \/ U[k].what # "include"
  PROVE  Shows(G, U, M) /\ Includes(G, U, M)
<1>1. Len(F) \in Nat \ {0} /\ Len(G) = Len(F) /\ \A k \in 1..Len(F) : G[k] = IF k = Len(F) THEN f ELSE F[k]
  BY EmptySeq DEF Replaced
<1>2. Shows(G, U, M)
  <2>1. SUFFICES ASSUME NEW k \in 1..Len(F)
                 PROVE  Fits(M, G[k]) /\ (G[k].kind = "page" => Texts(U, M, G[k].path, G[k].i))
    BY <1>1 DEF Shows
  <2>2. CASE k = Len(F)
    BY <1>1, <2>2
  <2>3. CASE k # Len(F)
    <3>1. G[k] = F[k]
      BY <1>1, <2>3
    <3>2. Fits(M, F[k]) /\ (F[k].kind = "page" => Texts(T, M, F[k].path, F[k].i))
      BY DEF Shows
    <3> QED BY <3>1, <3>2, TextsLater
  <2> QED BY <2>2, <2>3
<1>3. \A p : Opened(F, p) => Opened(G, p)
  <2>1. \A j \in 1..Len(F) : G[j].kind = F[j].kind /\ G[j].path = F[j].path
    BY <1>1
  <2> QED BY <1>1, <2>1 DEF Opened
<1>4. Includes(G, U, M)
  <2>1. SUFFICES ASSUME NEW k \in 1..Len(U), U[k].what = "include"
                 PROVE  Texts(U, M, U[k].at, Len(M) + 1) \/ Opened(G, U[k].at)
    BY DEF Includes
  <2>2. k \in 1..Len(T) /\ U[k] = T[k]
    BY <2>1 DEF Continues
  <2>3. Texts(T, M, T[k].at, Len(M) + 1) \/ Opened(F, T[k].at)
    BY <2>1, <2>2 DEF Includes
  <2> QED BY <1>3, <2>2, <2>3, TextsLater
<1> QED BY <1>2, <1>4

\* A file more, and if it is a page, it may be written that it was included.
LEMMA PageCalled ==
  ASSUME NEW F \in Seq(Frames), NEW g \in Frames, NEW M, NEW T, NEW U, Len(M) \in Nat,
         Shows(F, T, M), Includes(F, T, M), ~g.running, g.n = 0, g.i = 1,
         Continues(T, U),
         \A k \in 1..Len(U) : k \in 1..Len(T) \/ (g.kind = "page" /\ U[k].at = g.path)
  PROVE  Shows(Append(F, g), U, M) /\ Includes(Append(F, g), U, M)
<1> DEFINE G == Append(F, g)
<1>1. /\ Len(F) \in Nat /\ Len(G) = Len(F) + 1 /\ G[Len(F) + 1] = g
      /\ \A k \in 1..Len(F) : G[k] = F[k]
  BY AppendProperties
<1> HIDE DEF G
<1>2. \A k \in 1..Len(G) : k \in 1..Len(F) \/ k = Len(F) + 1
  BY <1>1
<1>3. Shows(G, U, M)
  <2>1. SUFFICES ASSUME NEW k \in 1..Len(G)
                 PROVE  Fits(M, G[k]) /\ (G[k].kind = "page" => Texts(U, M, G[k].path, G[k].i))
    BY DEF Shows
  <2>2. CASE k = Len(F) + 1
    <3>1. Fits(M, g)
      BY DEF Fits
    <3>2. Texts(U, M, g.path, 1)
      BY DEF Texts
    <3> QED BY <1>1, <2>2, <3>1, <3>2
  <2>3. CASE k \in 1..Len(F)
    <3>1. Fits(M, F[k]) /\ (F[k].kind = "page" => Texts(T, M, F[k].path, F[k].i))
      BY <2>3 DEF Shows
    <3> QED BY <1>1, <2>3, <3>1, TextsLater
  <2> QED BY <1>2, <2>2, <2>3
<1>4. \A p : Opened(F, p) => Opened(G, p)
  <2>1. \A j \in 1..Len(F) : j \in 1..Len(G)
    BY <1>1
  <2> QED BY <1>1, <2>1 DEF Opened
<1>5. g.kind = "page" => Opened(G, g.path)
  <2>1. Len(F) + 1 \in 1..Len(G)
    BY <1>1
  <2> QED BY <1>1, <2>1 DEF Opened
<1>6. Includes(G, U, M)
  <2>1. SUFFICES ASSUME NEW k \in 1..Len(U), U[k].what = "include"
                 PROVE  Texts(U, M, U[k].at, Len(M) + 1) \/ Opened(G, U[k].at)
    BY DEF Includes
  <2>2. CASE k \in 1..Len(T)
    <3>1. U[k] = T[k]
      BY <2>2 DEF Continues
    <3>2. Texts(T, M, T[k].at, Len(M) + 1) \/ Opened(F, T[k].at)
      BY <2>1, <2>2, <3>1 DEF Includes
    <3> QED BY <1>4, <3>1, <3>2, TextsLater
  <2>3. CASE g.kind = "page" /\ U[k].at = g.path
    BY <1>5, <2>3
  <2> QED BY <2>2, <2>3
<1> QED BY <1>3, <1>6 DEF G

\* A file that is left, at its end, is written.
LEMMA PageLeft ==
  ASSUME NEW F \in Seq(Frames), Len(F) > 1, NEW G, NEW M, NEW T, Len(M) \in Nat,
         Len(G) = Len(F) - 1, \A k \in 1..(Len(F) - 1) : G[k] = F[k],
         Shows(F, T, M), Includes(F, T, M), F[Len(F)].i > Len(MarksIn(M, F[Len(F)]))
  PROVE  Shows(G, T, M) /\ Includes(G, T, M)
<1>1. Len(F) \in Nat /\ \A k \in 1..Len(G) : k \in 1..Len(F) /\ G[k] = F[k]
  BY DEF Frames
<1>2. Shows(G, T, M)
  BY <1>1 DEF Shows
<1>3. Includes(G, T, M)
  <2>1. SUFFICES ASSUME NEW k \in 1..Len(T), T[k].what = "include", Opened(F, T[k].at)
                 PROVE  Texts(T, M, T[k].at, Len(M) + 1) \/ Opened(G, T[k].at)
    BY DEF Includes
  <2>2. PICK j \in 1..Len(F) : F[j].kind = "page" /\ F[j].path = T[k].at
    BY <2>1 DEF Opened
  <2>3. CASE j = Len(F)
    <3>1. F[j].i \in Nat /\ F[j].i > Len(M) /\ Texts(T, M, F[j].path, F[j].i)
      <4>1. F[j] \in Frames
        BY ElementOfSeq
      <4> QED BY <2>2, <2>3, <4>1, SpotType DEF MarksIn, Shows
    <3>2. Texts(T, M, F[j].path, Len(M) + 1)
      <4>1. \A m \in 1..Len(M) : m < F[j].i
        BY <3>1
      <4> QED BY <3>1, <4>1, Zenon DEF Texts
    <3> QED BY <2>2, <3>2
  <2>4. CASE j # Len(F)
    <3>1. j \in 1..Len(G)
      BY <1>1, <2>4
    <3> QED BY <1>1, <2>2, <3>1 DEF Opened
  <2> QED BY <2>3, <2>4
<1> QED BY <1>2, <1>3

-----------------------------------------------------------------------------
(* Everything in its place. *)

Place(F, T, M) ==
  /\ Along(F, T)
  /\ F[Len(F)].n = 0 => Past(T, Spot(F[Len(F)]))
  /\ Shows(F, T, M) /\ Includes(F, T, M)

PlaceInv ==
  /\ trace \in Seq(Traced)
  /\ frames = <<>> => trace = <<>>
  /\ frames # <<>> => Place(frames, trace, parsed) /\ frames[1].path = IF jump THEN <<1>> ELSE <<0>>

LEMMA FrontAt ==
  ASSUME frames \in Seq(Frames), frames # <<>>
  PROVE  \A k \in 1..(Len(frames) - 1) : Front(frames)[k] = frames[k]
<1>1. Len(frames) \in Nat \ {0} /\ Len(frames) - 1 \in Int
  BY TopOfFrames
<1>2. \A k \in 1..(Len(frames) - 1) : frames[k] \in Frames
  BY <1>1, ElementOfSeq
<1>3. \A k \in 1..(Len(frames) - 1 - 1 + 1) : Front(frames)[k] = frames[1 + k - 1]
  BY <1>1, <1>2, SubSeqProperties DEF Front
<1> QED BY <1>1, <1>3

LEMMA SetTopReplaced ==
  ASSUME frames \in Seq(Frames), frames # <<>>, NEW f \in Frames
  PROVE  Replaced(frames, SetTop(f), f)
<1>1. /\ Len(frames) \in Nat \ {0} /\ Front(frames) \in Seq(Frames)
      /\ Len(Front(frames)) = Len(frames) - 1
  BY TopOfFrames, FrontOfFrames
<1>2. \A k \in 1..(Len(frames) - 1) : Front(frames)[k] = frames[k]
  BY FrontAt
<1>3. /\ Len(SetTop(f)) = Len(frames)
      /\ (\A k \in 1..Len(Front(frames)) : SetTop(f)[k] = Front(frames)[k])
      /\ SetTop(f)[Len(Front(frames)) + 1] = f
  BY <1>1, AppendProperties DEF SetTop
<1>4. SetTop(f)[Len(frames)] = f
  BY <1>1, <1>3
<1>5. ASSUME NEW k \in 1..Len(frames) PROVE SetTop(f)[k] = IF k = Len(frames) THEN f ELSE frames[k]
  <2>1. CASE k = Len(frames)
    BY <1>4, <2>1
  <2>2. CASE k # Len(frames)
    <3>1. k \in 1..(Len(frames) - 1)
      BY <1>1, <2>2
    <3> QED BY <1>1, <1>2, <1>3, <2>2, <3>1
  <2> QED BY <2>1, <2>2
<1> QED BY <1>3, <1>5 DEF Replaced

\* The innermost file goes on, in its script or behind it, and nothing is written.
LEMMA PlaceGoneOn ==
  ASSUME FInv, PlaceInv, frames # <<>>, Len(parsed) \in Nat, NEW f \in Frames, GoneOn(Top, f),
         f.kind = Top.kind, Fits(parsed, f),
         f.i = Top.i \/ (f.i = Top.i + 1 /\ MarksOf(Top)[Top.i].kind = "SCRIPT")
  PROVE  /\ Place(SetTop(f), trace, parsed) /\ Past(trace, Spot(f))
         /\ SetTop(f)[1].path = frames[1].path
<1>1. /\ frames \in Seq(Frames) /\ Top \in Frames /\ Len(frames) \in Nat \ {0} /\ trace \in Seq(Traced)
      /\ Top = frames[Len(frames)]
  BY TopOfFrames DEF FInv, FramesType, PlaceInv, Top, Last
<1>2. /\ Along(frames, trace) /\ Shows(frames, trace, parsed) /\ Includes(frames, trace, parsed)
  BY DEF PlaceInv, Place
<1>3. Replaced(frames, SetTop(f), f)
  BY <1>1, SetTopReplaced
<1>4. Along(SetTop(f), trace) /\ Past(trace, Spot(f))
  BY <1>1, <1>2, <1>3, AlongGoneOn
<1>5. f.kind = "page" => Texts(trace, parsed, f.path, f.i)
  <2>1. SUFFICES ASSUME f.kind = "page", NEW m \in 1..Len(parsed), m < f.i, parsed[m].kind = "TEXT"
                 PROVE  \E k \in 1..Len(trace) : trace[k].at = f.path \o <<m, 0>>
    BY DEF Texts
  <2>2. Texts(trace, parsed, Top.path, Top.i)
    <3>1. Len(frames) \in 1..Len(frames)
      BY <1>1
    <3> QED BY <1>1, <1>2, <2>1, <3>1 DEF Shows
  <2>3. Top.i \in Nat /\ f.i \in Nat
    BY <1>1, SpotType
  <2>4. m < Top.i
    <3>1. CASE f.i = Top.i
      BY <2>1, <3>1
    <3>2. CASE f.i = Top.i + 1 /\ MarksOf(Top)[Top.i].kind = "SCRIPT"
      <4>1. MarksOf(Top) = parsed
        BY <2>1 DEF MarksOf
      <4>2. m # Top.i
        BY <2>1, <3>2, <4>1
      <4> QED BY <2>1, <2>3, <3>2, <4>2
    <3> QED BY <3>1, <3>2
  <2> QED BY <2>1, <2>2, <2>4, Zenon DEF Texts, GoneOn
<1>6. Continues(trace, trace)
  BY DEF Continues
<1>7. Shows(SetTop(f), trace, parsed) /\ Includes(SetTop(f), trace, parsed)
  <2>1. f.path = Top.path
    BY DEF GoneOn
  <2> QED BY <1>1, <1>2, <1>3, <1>5, <1>6, <2>1, PageReplaced
<1>8. SetTop(f)[Len(SetTop(f))] = f
  BY <1>1, <1>3 DEF Replaced
<1>9. SetTop(f)[1].path = frames[1].path
  <2>1. 1 \in 1..Len(frames)
    BY <1>1
  <2> QED BY <1>1, <1>3, <2>1 DEF Replaced, GoneOn
<1> QED BY <1>4, <1>7, <1>8, <1>9 DEF Place

\* In a script, a call is made.
LEMMA PlaceCalled ==
  ASSUME FInv, PlaceInv, MayCall, Len(parsed) \in Nat
  PROVE  /\ Called \in Frames /\ Called.n > 0 /\ Call = Spot(Called)
         /\ Place(SetTop(Called), trace, parsed) /\ Past(trace, Call)
         /\ SetTop(Called)[1].path = frames[1].path
         /\ SetTop(Called) \in Seq(Frames) /\ SetTop(Called) # <<>>
         /\ SetTop(Called)[Len(SetTop(Called))] = Called
<1>1. frames # <<>> /\ Top.running /\ Evaluating /\ frames \in Seq(Frames)
  BY DEF MayCall, Evaluating, FInv, FramesType
<1>2. /\ Called \in Frames /\ Called.i = Top.i /\ Called.running = Top.running
      /\ Called.kind = Top.kind /\ Top \in Frames
  BY <1>1, CalledType, TopOfFrames
<1>3. Called.path = Top.path /\ Called.n = Top.n + 1
  <2>1. ASSUME NEW f \in Frames
        PROVE  LET c == [f EXCEPT !.n = @ + 1] IN c.path = f.path /\ c.n = f.n + 1
    BY <2>1 DEF Frames
  <2> QED BY <1>2, <2>1 DEF Called
<1>4. GoneOn(Top, Called) /\ Called.n > 0
  BY <1>2, <1>3, SpotType DEF GoneOn
<1>5. Call = Spot(Called)
  BY <1>2, <1>3 DEF Call, Spot
<1>6. Fits(parsed, Called)
  <2>1. Fits(parsed, Top)
    <3>1. Len(frames) \in 1..Len(frames) /\ Top = frames[Len(frames)]
      BY <1>1, TopOfFrames DEF Top, Last
    <3> QED BY <1>1, <3>1 DEF PlaceInv, Place, Shows
  <2>2. MarksIn(parsed, Called) = MarksIn(parsed, Top)
    BY <1>2 DEF MarksIn
  <2> QED BY <1>1, <1>2, <2>1, <2>2, Zenon DEF Fits
<1>7. /\ Place(SetTop(Called), trace, parsed) /\ Past(trace, Spot(Called))
      /\ SetTop(Called)[1].path = frames[1].path
  BY <1>1, <1>2, <1>4, <1>6, PlaceGoneOn
<1>8. SetTop(Called) \in Seq(Frames) /\ SetTop(Called) # <<>>
  BY <1>1, <1>2, SetTopOfFrames
<1>9. SetTop(Called)[Len(SetTop(Called))] = Called
  <2>1. Len(frames) \in Nat \ {0} /\ Replaced(frames, SetTop(Called), Called)
    BY <1>1, <1>2, TopOfFrames, SetTopReplaced
  <2> QED BY <2>1 DEF Replaced
<1> QED BY <1>2, <1>4, <1>5, <1>7, <1>8, <1>9

LEMMA ContinuesAppend ==
  ASSUME NEW T \in Seq(Traced), NEW e \in Traced
  PROVE  /\ Append(T, e) \in Seq(Traced) /\ Continues(T, Append(T, e))
         /\ Len(T) + 1 \in 1..Len(Append(T, e)) /\ Append(T, e)[Len(T) + 1] = e
         /\ \A k \in 1..Len(Append(T, e)) : k \in 1..Len(T) \/ Append(T, e)[k] = e
<1> DEFINE U == Append(T, e)
<1>1. /\ Len(T) \in Nat /\ U \in Seq(Traced) /\ Len(U) = Len(T) + 1 /\ U[Len(T) + 1] = e
      /\ \A k \in 1..Len(T) : U[k] = T[k]
  BY AppendProperties
<1> HIDE DEF U
<1>2. \A k \in 1..Len(T) : k \in 1..Len(U)
  BY <1>1
<1>3. \A k \in 1..Len(U) : k \in 1..Len(T) \/ k = Len(T) + 1
  BY <1>1
<1>4. Len(T) + 1 \in 1..Len(U)
  BY <1>1
<1> QED BY <1>1, <1>2, <1>3, <1>4 DEF U, Continues

\* What is not an include is written where a script has made a call.
LEMMA PlaceWritten ==
  ASSUME NEW F \in Seq(Frames), F # <<>>, NEW T \in Seq(Traced), NEW e \in Traced, NEW M,
         Place(F, T, M), F[Len(F)].n > 0, Past(T, Spot(F[Len(F)])),
         e.at = Spot(F[Len(F)]), e.what # "include"
  PROVE  Place(F, Append(T, e), M)
<1> DEFINE f == F[Len(F)]
<1>1. f \in Frames /\ f.n \in Nat /\ Len(F) \in 1..Len(F)
  <2>1. Len(F) \in Nat \ {0}
    BY EmptySeq
  <2> QED BY <2>1, ElementOfSeq, SpotType
<1>2. Along(F, Append(T, e))
  BY AlongWritten DEF Place
<1>3. Fits(M, f) /\ (f.kind = "page" => Texts(T, M, f.path, f.i))
  BY <1>1 DEF Place, Shows
<1>4. Replaced(F, F, f)
  BY DEF Replaced
<1>5. /\ Continues(T, Append(T, e))
      /\ \A k \in 1..Len(Append(T, e)) : k \in 1..Len(T) \/ Append(T, e)[k].what # "include"
  BY ContinuesAppend
<1>6. f.kind = "page" => Texts(Append(T, e), M, f.path, f.i)
  BY <1>3, <1>5, TextsLater
<1>7. Shows(F, Append(T, e), M) /\ Includes(F, Append(T, e), M)
  BY <1>3, <1>4, <1>5, <1>6, PageReplaced DEF Place
<1>8. F[Len(F)].n # 0
  BY <1>1
<1> QED BY <1>2, <1>7, <1>8, Zenon DEF Place

\* A page or a file of Lua is evaluated inside of the script that has called it.
LEMMA PlaceInner ==
  ASSUME NEW F \in Seq(Frames), F # <<>>, NEW T \in Seq(Traced), NEW U \in Seq(Traced),
         NEW g \in Frames, NEW M, Len(M) \in Nat,
         Place(F, T, M), F[Len(F)].n > 0, Past(T, Spot(F[Len(F)])),
         g.path = Spot(F[Len(F)]), ~g.running, g.n = 0, g.i = 1,
         \/ U = T
         \/ \E e \in Traced : g.kind = "page" /\ e.at = g.path /\ U = Append(T, e)
  PROVE  Place(Append(F, g), U, M)
<1> DEFINE f == F[Len(F)]
           G == Append(F, g)
<1>1. Len(G) = Len(F) + 1 /\ G[Len(F) + 1] = g /\ g.path \in Seq(Nat)
  BY AppendProperties, SpotType
<1>2. G[Len(G)] = g
  BY <1>1
<1>3. Spot(g) = g.path \o <<1, 0>>
  BY DEF Spot
<1>4. CASE U = T
  <2>1. Along(F, U)
    BY <1>4 DEF Place
  <2>2. Past(U, Spot(g))
    <3>1. SUFFICES ASSUME NEW k \in 1..Len(T) PROVE Before(T[k].at, g.path \o <<1, 0>>)
      BY <1>3, <1>4 DEF Past
    <3>2. T[k].at \in Seq(Nat) /\ Before(T[k].at, g.path)
      BY TraceType DEF Past
    <3> QED BY <1>1, <3>2, BeforeInner
  <2>3. Continues(T, U) /\ \A k \in 1..Len(U) : k \in 1..Len(T)
    BY <1>4 DEF Continues
  <2>4. Shows(G, U, M) /\ Includes(G, U, M)
    BY <2>3, PageCalled DEF Place
  <2>5. Along(G, U)
    BY <2>1, <2>2, AlongCalled
  <2> HIDE DEF G
  <2>6. Place(G, U, M)
    BY <1>2, <2>2, <2>4, <2>5, Zenon DEF Place
  <2> QED BY <2>6 DEF G
<1>5. ASSUME NEW e \in Traced, g.kind = "page", e.at = g.path, U = Append(T, e)
      PROVE  Place(G, U, M)
  <2>1. Along(F, U)
    BY <1>5, AlongWritten DEF Place
  <2>2. Continues(T, U) /\ \A k \in 1..Len(U) : k \in 1..Len(T) \/ U[k] = e
    BY <1>5, ContinuesAppend
  <2>3. Past(U, Spot(g))
    <3>1. SUFFICES ASSUME NEW k \in 1..Len(U) PROVE Before(U[k].at, g.path \o <<1, 0>>)
      BY <1>3 DEF Past
    <3>2. U[k].at \in Seq(Nat) /\ (Before(U[k].at, g.path) \/ U[k].at = g.path)
      <4>1. CASE k \in 1..Len(T)
        BY <2>2, <4>1, TraceType DEF Past, Continues
      <4>2. CASE U[k] = e
        BY <1>1, <1>5, <4>2
      <4> QED BY <2>2, <4>1, <4>2
    <3> QED BY <1>1, <3>2, BeforeInner
  <2>4. \A k \in 1..Len(U) : k \in 1..Len(T) \/ (g.kind = "page" /\ U[k].at = g.path)
    BY <1>5, <2>2
  <2>5. Shows(G, U, M) /\ Includes(G, U, M)
    BY <2>2, <2>4, PageCalled DEF Place
  <2>6. Along(G, U)
    BY <2>1, <2>3, AlongCalled
  <2> HIDE DEF G
  <2> QED BY <1>2, <2>3, <2>5, <2>6, Zenon DEF Place
<1> QED BY <1>4, <1>5 DEF G

\* A text is written, and the page goes on behind it.
LEMMA PlaceShown ==
  ASSUME NEW F \in Seq(Frames), F # <<>>, NEW T \in Seq(Traced), NEW M, Len(M) \in Nat,
         NEW G, NEW f \in Frames, NEW e \in Traced, Place(F, T, M), Replaced(F, G, f),
         f.path = F[Len(F)].path, f.kind = F[Len(F)].kind, f.i = F[Len(F)].i + 1,
         f.n = F[Len(F)].n, f.running = F[Len(F)].running,
         MarksIn(M, F[Len(F)])[F[Len(F)].i].kind = "TEXT",
         e.at = Spot(F[Len(F)]), e.what = "text"
  PROVE  Place(G, Append(T, e), M)
<1> DEFINE t == F[Len(F)]
           U == Append(T, e)
<1>1. t \in Frames /\ t.n \in Nat /\ t.i \in Nat /\ Len(F) \in 1..Len(F) /\ Len(F) \in Nat \ {0}
  <2>1. Len(F) \in Nat \ {0}
    BY EmptySeq
  <2> QED BY <2>1, ElementOfSeq, SpotType
<1>2. Fits(M, t) /\ (t.kind = "page" => Texts(T, M, t.path, t.i))
  BY <1>1 DEF Place, Shows
<1>3. ~t.running /\ t.n = 0
  BY <1>2 DEF Fits
<1>4. Past(T, Spot(t))
  BY <1>3 DEF Place
<1>5. Along(F, U)
  BY <1>4, AlongWritten DEF Place
<1>6. GoneOn(t, f)
  BY <1>1 DEF GoneOn
<1>7. /\ U \in Seq(Traced) /\ Continues(T, U) /\ Len(T) + 1 \in 1..Len(U) /\ U[Len(T) + 1] = e
      /\ \A k \in 1..Len(U) : k \in 1..Len(T) \/ U[k] = e
  BY ContinuesAppend
<1> HIDE DEF U
<1>8. Along(G, U) /\ Past(U, Spot(f))
  BY <1>5, <1>6, <1>7, AlongGoneOn
<1>9. Fits(M, f)
  BY <1>3 DEF Fits
<1>10. f.kind = "page" => Texts(U, M, f.path, f.i)
  <2>1. SUFFICES ASSUME f.kind = "page", NEW m \in 1..Len(M), m < f.i, M[m].kind = "TEXT"
                 PROVE  \E k \in 1..Len(U) : U[k].at = f.path \o <<m, 0>>
    BY DEF Texts
  <2>2. Texts(U, M, t.path, t.i)
    BY <1>2, <1>7, <2>1, TextsLater
  <2>3. m < t.i \/ m = t.i
    BY <1>1, <2>1
  <2>4. CASE m < t.i
    BY <2>1, <2>2, <2>4, Zenon DEF Texts
  <2>5. CASE m = t.i
    <3>1. e.at = f.path \o <<m, 0>>
      BY <1>3, <2>5 DEF Spot
    <3> QED BY <1>7, <3>1
  <2> QED BY <2>3, <2>4, <2>5
<1>11. Shows(G, U, M) /\ Includes(G, U, M)
  <2>1. \A k \in 1..Len(U) : k \in 1..Len(T) \/ U[k].what # "include"
    BY <1>7
  <2> QED BY <1>7, <1>9, <1>10, <2>1, PageReplaced DEF Place
<1>12. G[Len(G)] = f
  BY <1>1 DEF Replaced
<1>13. Place(G, U, M)
  BY <1>8, <1>11, <1>12, Zenon DEF Place
<1> QED BY <1>13 DEF U

\* A script begins.
LEMMA PlaceEntered ==
  ASSUME NEW F \in Seq(Frames), F # <<>>, NEW T \in Seq(Traced), NEW M,
         NEW G, NEW f, Place(F, T, M), Replaced(F, G, f),
         f.path = F[Len(F)].path, f.kind = F[Len(F)].kind, f.i = F[Len(F)].i, f.n = F[Len(F)].n,
         Fits(M, f)
  PROVE  Place(G, T, M)
<1>1. Len(F) \in 1..Len(F)
  BY EmptySeq
<1>2. Spot(f) = Spot(F[Len(F)])
  BY DEF Spot
<1>3. G[Len(G)] = f
  BY <1>1 DEF Replaced
<1>4. Nested(G)
  BY NestedReplaced DEF Place, Along
<1>5. Along(G, T)
  BY <1>2, <1>3, <1>4 DEF Place, Along
<1>6. Continues(T, T) /\ \A k \in 1..Len(T) : k \in 1..Len(T)
  BY DEF Continues
<1>7. f.kind = "page" => Texts(T, M, f.path, f.i)
  BY <1>1 DEF Place, Shows
<1>8. Shows(G, T, M) /\ Includes(G, T, M)
  BY <1>6, <1>7, PageReplaced DEF Place
<1> QED BY <1>2, <1>3, <1>5, <1>8 DEF Place

\* The innermost file is at its end.
LEMMA PlaceLeft ==
  ASSUME NEW F \in Seq(Frames), Len(F) > 1, NEW T \in Seq(Traced), NEW M, Len(M) \in Nat, NEW G,
         Len(G) = Len(F) - 1, \A k \in 1..(Len(F) - 1) : G[k] = F[k],
         Place(F, T, M), F[Len(F)].i > Len(MarksIn(M, F[Len(F)]))
  PROVE  Place(G, T, M)
<1>1. Along(G, T) /\ G[Len(G)].n > 0
  BY AlongLeft DEF Place
<1>2. Shows(G, T, M) /\ Includes(G, T, M)
  BY PageLeft DEF Place
<1>3. G[Len(G)].n # 0
  BY <1>1
<1> QED BY <1>1, <1>2, <1>3, Zenon DEF Place

\* The first file, with nothing behind its start.
LEMMA PlaceFirst ==
  ASSUME NEW g \in Frames, NEW T \in Seq(Traced), NEW M, Len(M) \in Nat,
         ~g.running, g.n = 0, g.i = 1, Along(<<g>>, T), Past(T, Spot(g)),
         \A k \in 1..Len(T) : T[k].what = "include" => Texts(T, M, T[k].at, Len(M) + 1)
  PROVE  Place(<<g>>, T, M)
<1>1. Len(<<g>>) = 1 /\ <<g>>[1] = g /\ \A k \in 1..1 : k = 1
  OBVIOUS
<1>2. Fits(M, g) /\ Texts(T, M, g.path, g.i)
  BY DEF Fits, Texts
<1>3. Shows(<<g>>, T, M) /\ Includes(<<g>>, T, M)
  BY <1>1, <1>2 DEF Shows, Includes
<1> QED BY <1>1, <1>3 DEF Place

LEMMA PlaceStart ==
  ASSUME NEW M, Len(M) \in Nat
  PROVE  Place(<<Frame("lua", <<0>>)>>, <<>>, M)
<1> DEFINE g == Frame("lua", <<0>>)
<1>1. g \in Frames /\ ~g.running /\ g.n = 0 /\ g.i = 1
  BY DEF Frame, Frames
<1> HIDE DEF g
<1>2. <<>> \in Seq(Traced) /\ Len(<<>>) = 0
  BY EmptySeq
<1>3. Len(<<g>>) = 1 /\ <<g>>[1] = g /\ \A k \in 1..1 : k = 1
  OBVIOUS
<1>4. IsPrefix(g.path, g.path)
  BY <1>1, SpotType, PrefixOfSame
<1>5. Nested(<<g>>)
  BY <1>3, <1>4 DEF Nested
<1>6. Along(<<g>>, <<>>) /\ Past(<<>>, Spot(g))
  BY <1>2, <1>5 DEF Along, Past, Reached, Ordered
<1>7. ASSUME NEW T \in Seq(Traced), T = <<>> PROVE Place(<<g>>, T, M)
  <2>1. \A k \in 1..Len(T) : T[k].what = "include" => Texts(T, M, T[k].at, Len(M) + 1)
    BY <1>2, <1>7
  <2>2. Along(<<g>>, T) /\ Past(T, Spot(g))
    BY <1>6, <1>7
  <2> QED BY <1>1, <2>1, <2>2, PlaceFirst
<1> QED BY <1>2, <1>7 DEF g

LEMMA PlaceJump ==
  ASSUME NEW F \in Seq(Frames), Len(F) = 1, NEW T \in Seq(Traced), NEW M, Len(M) \in Nat,
         Place(F, T, M), Len(F[1].path) = 1, F[1].path[1] = 0, F[1].kind = "lua"
  PROVE  Place(<<Frame("page", <<1>>)>>, T, M)
<1> DEFINE g == Frame("page", <<1>>)
<1>1. g \in Frames /\ ~g.running /\ g.n = 0 /\ g.i = 1 /\ g.path = <<1>>
  BY DEF Frame, Frames
<1> HIDE DEF g
<1>2. Along(<<g>>, T) /\ Past(T, Spot(g))
  BY <1>1, AlongJump DEF Place
<1>3. \A k \in 1..Len(T) : T[k].what = "include" => Texts(T, M, T[k].at, Len(M) + 1)
  BY DEF Place, Includes, Opened
<1>4. Place(<<g>>, T, M)
  BY <1>1, <1>2, <1>3, PlaceFirst
<1> QED BY <1>4 DEF g

\* No step writes out of order, or leaves a text out.
LEMMA PlaceStep == ASSUME FInv, FInv', PlaceInv, Len(parsed) \in Nat, [Next]_vars PROVE PlaceInv'
<1>0. frames \in Seq(Frames) /\ jump \in BOOLEAN /\ trace \in Seq(Traced)
  BY DEF FInv, FramesType, PlaceInv
\* Nothing that is written or evaluated changes.
<1>1. ASSUME UNCHANGED <<frames, jump, trace>>, frames = <<>> \/ parsed' = parsed PROVE PlaceInv'
  BY <1>1 DEF PlaceInv
<1>2. CASE Parse \/ PrepareProcedures
  <2>1. pc \in {"scan", "script", "prepare"} /\ UNCHANGED <<frames, jump, trace>>
    BY <1>2, ParseFrom DEF Parse, PrepareProcedures, pageVars
  <2>2. frames = <<>>
    BY <2>1 DEF FInv, FramesInv
  <2> QED BY <1>1, <2>1, <2>2
<1>3. CASE EndEval \/ EndLua \/ ReceiveSize \/ ReceiveData \/ ExitLua \/ PostHTTPLua \/ UNCHANGED vars
  BY <1>1, <1>3 DEF EndEval, EndLua, ReceiveSize, ReceiveData, ExitLua, PostHTTPLua, vars,
         pageVars, parseVars
<1>4. CASE InitLua
  <2>1. pc = "start" /\ UNCHANGED <<jump, trace, parsed>>
    BY <1>4 DEF InitLua, parseVars
  <2>2. frames = <<>> /\ ~jump /\ trace = <<>>
    BY <2>1 DEF FInv, FramesInv, PlaceInv
  <2>3. CASE frames' = frames
    BY <1>1, <2>1, <2>3
  <2>4. CASE frames' = <<Frame("lua", <<0>>)>>
    <3>1. Place(frames', <<>>, parsed)
      BY <2>4, PlaceStart
    <3>2. frames'[1].path = <<0>>
      BY <2>4 DEF Frame
    <3>3. trace' = <<>>
      BY <2>1, <2>2
    <3> QED BY <1>0, <2>1, <2>2, <3>1, <3>2, <3>3 DEF PlaceInv
  <2> QED BY <1>4, <2>3, <2>4 DEF InitLua
\* What of the page goes on without a call.
<1>5. ASSUME Evaluating
      PROVE  /\ frames # <<>> /\ Top \in Frames /\ Len(frames) \in Nat \ {0} /\ Top = frames[Len(frames)]
             /\ Place(frames, trace, parsed) /\ frames[1].path = IF jump THEN <<1>> ELSE <<0>>
             /\ MarksOf(Top) = MarksIn(parsed, Top) /\ Here = Spot(Top)
  BY <1>0, <1>5, TopOfFrames DEF Evaluating, PlaceInv, Top, Last, MarksOf, MarksIn, Here, Spot
<1>6. ASSUME frames # <<>>, NEW f \in Frames, f.path = Top.path, frames' = SetTop(f)
      PROVE  /\ Replaced(frames, frames', f) /\ frames'[1].path = frames[1].path /\ frames' # <<>>
  <2>1. Len(frames) \in Nat \ {0} /\ Replaced(frames, frames', f) /\ frames' # <<>>
        /\ Top = frames[Len(frames)]
    BY <1>0, <1>6, TopOfFrames, SetTopReplaced, SetTopOfFrames DEF Top, Last
  <2>2. 1 \in 1..Len(frames)
    BY <2>1
  <2> QED BY <1>6, <2>1, <2>2 DEF Replaced
<1>7. CASE ShowText
  <2> DEFINE f == [Top EXCEPT !.i = @ + 1]
             e == [at |-> Here, what |-> "text"]
  <2>1. /\ Evaluating /\ UNCHANGED <<jump, parsed>> /\ MarksOf(Top)[Top.i].kind = "TEXT"
        /\ frames' = SetTop(f) /\ trace' = Append(trace, e)
    BY <1>7 DEF ShowText, AtMark, parseVars
  <2>2. /\ f \in Frames /\ f.path = Top.path /\ f.kind = Top.kind /\ f.i = Top.i + 1 /\ f.n = Top.n
        /\ f.running = Top.running
    <3>1. ASSUME NEW g \in Frames
          PROVE  LET c == [g EXCEPT !.i = @ + 1]
                 IN /\ c \in Frames /\ c.path = g.path /\ c.kind = g.kind /\ c.i = g.i + 1 /\ c.n = g.n
                    /\ c.running = g.running
      BY <3>1 DEF Frames
    <3> QED BY <1>5, <2>1, <3>1
  <2>3. e \in Traced /\ e.at = Spot(Top) /\ e.what = "text"
    BY <1>5, <2>1, SpotType DEF Traced
  <2> HIDE DEF f, e
  <2>4. Replaced(frames, frames', f) /\ frames'[1].path = frames[1].path /\ frames' # <<>>
    BY <1>5, <1>6, <2>1, <2>2
  <2>5. Place(frames', Append(trace, e), parsed)
    BY <1>0, <1>5, <2>1, <2>2, <2>3, <2>4, PlaceShown
  <2>6. Append(trace, e) \in Seq(Traced)
    BY <1>0, <2>3
  <2> QED BY <1>5, <2>1, <2>4, <2>5, <2>6 DEF PlaceInv
<1>8. CASE EnterScript
  <2> DEFINE f == [Top EXCEPT !.running = TRUE]
  <2>1. /\ Evaluating /\ UNCHANGED <<jump, parsed, trace>> /\ frames' = SetTop(f)
        /\ Top.i <= Len(MarksOf(Top)) /\ MarksOf(Top)[Top.i].kind = "SCRIPT"
    BY <1>8 DEF EnterScript, AtMark, parseVars
  <2>2. /\ f \in Frames /\ f.path = Top.path /\ f.kind = Top.kind /\ f.i = Top.i /\ f.n = Top.n /\ f.running
    <3>1. ASSUME NEW g \in Frames
          PROVE  LET c == [g EXCEPT !.running = TRUE]
                 IN /\ c \in Frames /\ c.path = g.path /\ c.kind = g.kind /\ c.i = g.i /\ c.n = g.n
                    /\ c.running
      BY <3>1 DEF Frames
    <3> QED BY <1>5, <2>1, <3>1
  <2> HIDE DEF f
  <2>3. Fits(parsed, f)
    BY <1>5, <2>1, <2>2 DEF Fits, MarksIn
  <2>4. Replaced(frames, frames', f) /\ frames'[1].path = frames[1].path /\ frames' # <<>>
    BY <1>5, <1>6, <2>1, <2>2
  <2>5. Place(frames', trace, parsed)
    BY <1>0, <1>5, <2>1, <2>2, <2>3, <2>4, PlaceEntered
  <2> QED BY <1>0, <1>5, <2>1, <2>4, <2>5 DEF PlaceInv
<1>9. CASE LeaveScript
  <2> DEFINE f == [Top EXCEPT !.i = @ + 1, !.n = 0, !.running = FALSE]
  <2>1. /\ Evaluating /\ UNCHANGED <<jump, parsed, trace>> /\ frames' = SetTop(f)
        /\ MarksOf(Top)[Top.i].kind = "SCRIPT"
    BY <1>9 DEF LeaveScript, AtMark, parseVars
  <2>2. f \in Frames /\ f.kind = Top.kind /\ f.i = Top.i + 1 /\ f.running = FALSE
    BY <1>5, <2>1, LeftType
  <2>3. f.path = Top.path /\ f.n = 0
    <3>1. ASSUME NEW g \in Frames
          PROVE  LET c == [g EXCEPT !.i = @ + 1, !.n = 0, !.running = FALSE]
                 IN c.path = g.path /\ c.n = 0
      BY <3>1 DEF Frames
    <3> QED BY <1>5, <2>1, <3>1
  <2> HIDE DEF f
  <2>4. GoneOn(Top, f) /\ Fits(parsed, f)
    <3>1. Top.i \in Nat
      BY <1>5, <2>1, SpotType
    <3>2. Top.i < f.i
      BY <2>2, <3>1
    <3> QED BY <2>2, <2>3, <3>2, Zenon DEF GoneOn, Fits
  <2>5. Place(SetTop(f), trace, parsed) /\ SetTop(f)[1].path = frames[1].path
    BY <1>5, <2>1, <2>2, <2>4, PlaceGoneOn
  <2>6. frames' # <<>>
    BY <1>0, <1>5, <2>1, <2>2, SetTopOfFrames
  <2> QED BY <1>0, <1>5, <2>1, <2>5, <2>6 DEF PlaceInv
<1>10. CASE Return
  <2>1. /\ Evaluating /\ UNCHANGED <<jump, parsed, trace>> /\ frames' = Front(frames)
        /\ Len(frames) > 1 /\ Top.i > Len(MarksOf(Top))
    BY <1>10 DEF Return, Evaluated, parseVars
  <2>2. /\ Len(frames') = Len(frames) - 1 /\ frames'[1] = frames[1] /\ frames' # <<>>
        /\ \A k \in 1..(Len(frames) - 1) : frames'[k] = frames[k]
    BY <1>0, <1>5, <2>1, FrontOfFrames, FrontAt
  <2>3. Place(frames', trace, parsed)
    BY <1>0, <1>5, <2>1, <2>2, PlaceLeft
  <2> QED BY <1>0, <1>5, <2>1, <2>2, <2>3 DEF PlaceInv
<1>11. CASE SetJump
  <2>1. /\ Evaluating /\ UNCHANGED <<parsed, trace>> /\ frames' = <<Frame("page", <<1>>)>>
        /\ Len(frames) = 1 /\ ~jump /\ jump' = TRUE
    BY <1>11 DEF SetJump, Evaluated, parseVars
  <2>2. frames[1].kind = "lua" /\ frames[1].path = <<0>>
    BY <1>5, <2>1 DEF FInv, FramesInv
  <2>3. Place(frames', trace, parsed)
    <3>1. Place(frames, trace, parsed) /\ Len(frames[1].path) = 1 /\ frames[1].path[1] = 0
      BY <1>5, <2>1, <2>2
    <3>2. Place(<<Frame("page", <<1>>)>>, trace, parsed)
      BY <1>0, <2>1, <2>2, <3>1, PlaceJump
    <3> QED BY <2>1, <3>2, Zenon
  <2>4. frames'[1].path = <<1>> /\ frames' # <<>>
    BY <2>1 DEF Frame
  <2> QED BY <1>0, <2>1, <2>3, <2>4 DEF PlaceInv
\* The calls.
<1>12. ASSUME MayCall
       PROVE  /\ Evaluating /\ Called \in Frames /\ Called.n > 0 /\ Call = Spot(Called) /\ Call \in Seq(Nat)
              /\ Place(SetTop(Called), trace, parsed) /\ Past(trace, Call)
              /\ SetTop(Called)[1].path = IF jump THEN <<1>> ELSE <<0>>
              /\ SetTop(Called) \in Seq(Frames) /\ SetTop(Called) # <<>>
              /\ SetTop(Called)[Len(SetTop(Called))] = Called
  <2>1. Evaluating
    BY <1>12 DEF MayCall
  <2> QED BY <1>5, <1>12, <2>1, PlaceCalled, CalledType
<1>13. ASSUME MayCall, UNCHANGED <<jump, parsed, trace>>, frames' = SetTop(Called) PROVE PlaceInv'
  BY <1>0, <1>12, <1>13 DEF PlaceInv
<1>14. CASE PlainCall \/ QueryLua
  BY <1>13, <1>14 DEF PlainCall, QueryLua, parseVars
<1>15. CASE SocketLua \/ SendLua \/ ReceiveLua
  BY <1>1, <1>13, <1>15 DEF SocketLua, SendLua, ReceiveLua, parseVars
<1>16. CASE PrintLua
  <2> DEFINE e == [at |-> Call, what |-> "print"]
  <2>1. MayCall /\ UNCHANGED <<jump, parsed>> /\ frames' = SetTop(Called) /\ trace' = Append(trace, e)
    BY <1>16 DEF PrintLua, parseVars
  <2>2. e \in Traced /\ e.at = Call /\ e.what # "include"
    BY <1>12, <2>1 DEF Traced
  <2> HIDE DEF e
  <2>3. ASSUME NEW F \in Seq(Frames), F = SetTop(Called) PROVE Place(F, Append(trace, e), parsed)
    <3>1. /\ F # <<>> /\ Place(F, trace, parsed) /\ F[Len(F)].n > 0
          /\ Past(trace, Spot(F[Len(F)])) /\ e.at = Spot(F[Len(F)])
      BY <1>12, <2>1, <2>2, <2>3
    <3> QED BY <1>0, <2>2, <3>1, PlaceWritten
  <2>4. Place(frames', trace', parsed) /\ trace' \in Seq(Traced)
    BY <1>0, <1>12, <2>1, <2>2, <2>3
  <2> QED BY <1>12, <2>1, <2>4 DEF PlaceInv
<1>17. CASE IncludeLua \/ UseLua
  <2>1. PICK kind \in {"page", "lua"} :
          /\ MayCall /\ UNCHANGED <<jump, parsed>> /\ frames' = Append(SetTop(Called), Frame(kind, Call))
          /\ \/ trace' = trace
             \/ kind = "page" /\ trace' = Append(trace, [at |-> Call, what |-> "include"])
    BY <1>17 DEF IncludeLua, UseLua, parseVars
  <2> DEFINE g == Frame(kind, Call)
             e == [at |-> Call, what |-> "include"]
  <2>2. g \in Frames /\ g.path = Call /\ ~g.running /\ g.n = 0 /\ g.i = 1 /\ g.kind = kind
    BY <1>12, <2>1 DEF Frame, Frames
  <2>3. e \in Traced /\ e.at = Call
    BY <1>12, <2>1 DEF Traced
  <2>4. trace' = trace \/ (kind = "page" /\ trace' = Append(trace, e))
    BY <2>1
  <2>5. frames' = Append(SetTop(Called), g)
    BY <2>1
  <2> HIDE DEF g, e
  <2>6. trace' \in Seq(Traced)
    BY <1>0, <2>3, <2>4
  <2>7. Place(frames', trace', parsed)
    BY <1>0, <1>12, <2>1, <2>2, <2>3, <2>4, <2>5, <2>6, PlaceInner
  <2>8. frames'[1] = SetTop(Called)[1] /\ frames' # <<>>
    <3>1. Len(SetTop(Called)) \in Nat \ {0} /\ 1 \in 1..Len(SetTop(Called))
      BY <1>12, <2>1, EmptySeq
    <3> QED BY <1>12, <2>1, <2>2, <2>5, <3>1, AppendProperties, EmptySeq
  <2> QED BY <1>12, <2>1, <2>6, <2>7, <2>8 DEF PlaceInv
<1> QED
  BY <1>2, <1>3, <1>4, <1>7, <1>8, <1>9, <1>10, <1>11, <1>14, <1>15, <1>16, <1>17 DEF Next, Calls

LEMMA PlaceInit == ASSUME Init PROVE PlaceInv
<1>1. frames = <<>> /\ trace = <<>>
  BY DEF Init
<1> QED BY <1>1, EmptySeq DEF PlaceInv

LEMMA InPlaceByInv == ASSUME FInv, PlaceInv PROVE InPlace
<1>1. CASE frames = <<>>
  <2>1. Len(frames) = 0 /\ Len(trace) = 0
    BY <1>1, EmptySeq DEF PlaceInv
  <2> QED BY <2>1 DEF InPlace
<1>2. CASE frames # <<>>
  <2>1. /\ Along(frames, trace) /\ Shows(frames, trace, parsed) /\ Includes(frames, trace, parsed)
        /\ Len(frames) \in Nat \ {0} /\ Top \in Frames /\ Top = frames[Len(frames)]
        /\ Here = Spot(Top) /\ frames \in Seq(Frames) /\ trace \in Seq(Traced)
    BY <1>2, TopOfFrames DEF PlaceInv, Place, FInv, FramesType, Top, Last, Here, Spot
  <2>2. \A p, i : Texts(trace, parsed, p, i) => TextsUpTo(p, i)
    BY DEF Texts, TextsUpTo, WrittenAt
  <2>3. \A j, k \in 1..Len(trace) : j < k => Before(trace[j].at, trace[k].at)
    BY <2>1 DEF Along, Ordered
  <2>4. \A k \in 1..Len(frames) : frames[k].kind = "page" => TextsUpTo(frames[k].path, frames[k].i)
    BY <2>1, <2>2 DEF Shows
  <2>5. ASSUME NEW k \in 1..Len(trace), trace[k].what = "include", ~IsPrefix(trace[k].at, Here)
        PROVE  TextsUpTo(trace[k].at, Len(parsed) + 1)
    <3>1. ASSUME NEW j \in 1..Len(frames), frames[j].path = trace[k].at PROVE FALSE
      <4>1. IsPrefix(frames[j].path, Top.path)
        <5>1. Len(frames) \in 1..Len(frames) /\ j \in 1..Len(frames)
          BY <2>1
        <5> QED BY <2>1, <5>1 DEF Along, Nested
      <4>2. frames[j].path \in Seq(Nat) /\ Top.path \in Seq(Nat) /\ Here \in Seq(Nat) /\ IsPrefix(Top.path, Here)
        <5>1. frames[j] \in Frames
          BY <2>1, ElementOfSeq
        <5> QED BY <2>1, <5>1, SpotType
      <4>3. IsPrefix(frames[j].path, Here)
        BY <4>1, <4>2, PrefixOfPrefix
      <4> QED BY <2>5, <3>1, <4>3
    <3> QED BY <2>1, <2>2, <2>5, <3>1 DEF Includes, Opened
  <2> QED BY <2>3, <2>4, <2>5 DEF InPlace
<1> QED BY <1>1, <1>2

LEMMA PlaceInvariance == Spec => [](FInv /\ PlaceInv)
<1>1. PageProofs!IInv => Len(parsed) \in Nat
  BY DEF PageProofs!IInv, PageProofs!TypeOK
<1> DEFINE I == PageProofs!IInv /\ PageProofs!DividedInv
<1>2. Spec => []I
  BY PageInit, PageStep, Refinement, PTL DEF ImplementsTemplate, Page!Spec
<1>3. FInv /\ FInv' /\ PlaceInv /\ I /\ [Next]_vars => PlaceInv'
  BY <1>1, PlaceStep
<1> HIDE DEF I
<1> QED
  BY <1>2, <1>3, PlaceInit, FramesInvariance, PTL DEF Spec

\* What is written is in the order in which a reader of the pages comes to it, and a
\* script goes on behind include() only when all of that page is written, whatever has
\* failed in it, for calls and depths without bound (lws.c:63-77, 127-139).
THEOREM WrittenInPlace == Spec => []InPlace
<1>1. FInv /\ PlaceInv => InPlace
  BY InPlaceByInv
<1> QED
  BY <1>1, PlaceInvariance, PTL

-----------------------------------------------------------------------------
(* The database. *)

DbType ==
  /\ dbs \in Seq(Databases) /\ db \in 0..Len(dbs) /\ lins \in 0..Len(dbs)
  /\ asked \in Seq(Queries) /\ live \subseteq 1..Len(asked)

\* The server's connection comes first and is closed; the worker's is the second, and
\* query() uses it, until the worker is done.
ConnectionsInv ==
  /\ pc \in {"scan", "script", "prepare"} => dbs = <<>> /\ asked = <<>> /\ live = {} /\ lins = 0
  /\ pc \notin {"scan", "script", "prepare"} =>
       Len(dbs) \in {1, 2} /\ dbs[1].by = "server" /\ dbs[1].open = FALSE
  /\ pc = "start" => lins = 0
  /\ pc \notin {"scan", "script", "prepare"} /\ lins = 0 => Len(dbs) = 1
  /\ lins # 0 => lins = 2 /\ db = 2 /\ Len(dbs) = 2 /\ dbs[2].by = "worker"
  /\ lins # 0 /\ pc = "done" => dbs[2].open = FALSE
  /\ lins # 0 /\ pc # "done" => dbs[2].open = TRUE

AskedInv ==
  \A k \in 1..Len(asked) :
    asked[k].open /\ asked[k].db \in 1..Len(dbs) /\ dbs[asked[k].db].by = asked[k].by

DbInv == DbType /\ ConnectionsInv /\ AskedInv /\ ResultsCleared

\* A sequence of two, its second element changed or added.
LEMMA SetSecond ==
  ASSUME NEW S, NEW s \in Seq(S), Len(s) = 2, NEW e \in S
  PROVE  LET t == [s EXCEPT ![2] = e]
         IN t \in Seq(S) /\ Len(t) = 2 /\ t[1] = s[1] /\ t[2] = e
<1>1. 2 \in 1..Len(s) /\ 1 \in 1..Len(s) /\ 1 # 2
  OBVIOUS
<1>2. [s EXCEPT ![2] = e] \in Seq(S)
  BY <1>1, ExceptSeq
<1>3. Len([s EXCEPT ![2] = e]) = 2
  BY <1>1, ExceptSeq
<1>4. [s EXCEPT ![2] = e][1] = s[1]
  BY <1>1, ExceptSeq
<1>5. [s EXCEPT ![2] = e][2] = e
  BY <1>1, ExceptSeq
<1> QED
  BY <1>2, <1>3, <1>4, <1>5, Zenon

LEMMA AddSecond ==
  ASSUME NEW S, NEW s \in Seq(S), Len(s) = 1, NEW e \in S
  PROVE  LET t == Append(s, e)
         IN t \in Seq(S) /\ Len(t) = 2 /\ t[1] = s[1] /\ t[2] = e
<1>1. Append(s, e) \in Seq(S)
  OBVIOUS
<1>2. Len(Append(s, e)) = 2
  OBVIOUS
<1>3. Append(s, e)[1] = s[1]
  OBVIOUS
<1>4. Append(s, e)[2] = e
  <2>1. Append(s, e)[Len(s) + 1] = e /\ Len(s) + 1 = 2
    BY AppendProperties
  <2> QED
    BY <2>1, Zenon
<1> QED
  BY <1>1, <1>2, <1>3, <1>4, Zenon

LEMMA DbInit == ASSUME Init PROVE DbInv
<1>1. pc = "scan" /\ dbs = <<>> /\ asked = <<>> /\ live = {} /\ lins = 0 /\ db = 0
  BY DEF Init
<1>2. <<>> \in Seq(Databases) /\ <<>> \in Seq(Queries) /\ Len(dbs) = 0 /\ Len(asked) = 0
  BY <1>1, EmptySeq
<1>3. DbType
  BY <1>1, <1>2 DEF DbType
<1>4. ConnectionsInv /\ AskedInv
  BY <1>1, <1>2 DEF ConnectionsInv, AskedInv
<1>5. ResultsCleared
  BY <1>1 DEF ResultsCleared
<1> QED
  BY <1>3, <1>4, <1>5 DEF DbInv

\* Nothing but a query, and the end, changes what is connected and asked.
LEMMA DbSame ==
  ASSUME DbInv, UNCHANGED dbVars,
         \/ pc \in {"scan", "script", "prepare"} /\ pc' \in {"scan", "script", "prepare"}
         \/ /\ pc \notin {"scan", "script", "prepare"}
            /\ pc' \notin {"scan", "script", "prepare", "start"}
            /\ pc # "done"
            /\ pc' = "done" => lins = 0
         \/ pc' = pc
  PROVE  DbInv'
<1>1. DbType'
  BY DEF DbInv, DbType, dbVars
<1>2. ConnectionsInv'
  BY DEF DbInv, ConnectionsInv, dbVars
<1>3. AskedInv'
  BY DEF DbInv, AskedInv, dbVars
<1>4. ResultsCleared'
  BY DEF DbInv, ConnectionsInv, ResultsCleared, dbVars
<1> QED
  BY <1>1, <1>2, <1>3, <1>4 DEF DbInv

LEMMA DbPrepared == ASSUME DbInv, PrepareProcedures PROVE DbInv'
<1>1. PICK up \in BOOLEAN, rows \in BOOLEAN :
        /\ dbs' = <<[Database("server", up) EXCEPT !.open = FALSE]>>
        /\ live' = IF rows THEN {1} ELSE {}
  BY DEF PrepareProcedures
<1>2. pc = "prepare" /\ pc' = "start" /\ db' = 1 /\ lins' = lins /\ asked' = Asks("server", 1, TRUE)
  BY DEF PrepareProcedures
<1> DEFINE d == [Database("server", up) EXCEPT !.open = FALSE]
           q == [by |-> "server", db |-> 1, open |-> TRUE]
<1>3. d \in Databases /\ d.by = "server" /\ d.open = FALSE
  BY DEF Database, Databases
<1>4. q \in Queries /\ q.open /\ q.db = 1 /\ q.by = "server"
  BY DEF Queries
<1>5. lins = 0 /\ asked = <<>>
  BY <1>2 DEF DbInv, ConnectionsInv
<1>6. dbs' = <<d>> /\ asked' = <<q>>
  BY <1>1, <1>2, <1>5 DEF Asks
<1> HIDE DEF d, q
<1>7. dbs' \in Seq(Databases) /\ asked' \in Seq(Queries) /\ Len(dbs') = 1 /\ Len(asked') = 1
      /\ dbs'[1] = d /\ asked'[1] = q
  BY <1>3, <1>4, <1>6
<1>8. DbType'
  <2>1. db' \in 0..1 /\ lins' \in 0..1
    BY <1>2, <1>5
  <2>2. live' \subseteq 1..1
    <3>1. CASE rows
      BY <1>1, <3>1
    <3>2. CASE ~rows
      BY <1>1, <3>2
    <3> QED
      BY <3>1, <3>2
  <2> QED
    BY <1>7, <2>1, <2>2 DEF DbType
<1>9. ConnectionsInv'
  BY <1>2, <1>3, <1>5, <1>7 DEF ConnectionsInv
<1>10. AskedInv'
  BY <1>3, <1>4, <1>7 DEF AskedInv
<1>11. ResultsCleared'
  BY <1>1, <1>4, <1>7 DEF ResultsCleared
<1> QED
  BY <1>8, <1>9, <1>10, <1>11 DEF DbInv

LEMMA DbEnded == ASSUME DbInv, EndLua PROVE DbInv'
<1>1. pc = "end" /\ pc' = "done" /\ UNCHANGED <<db, lins, asked, live>>
      /\ dbs' = IF lins = 0 THEN dbs ELSE [dbs EXCEPT ![lins].open = FALSE, ![lins].res = 0]
  BY DEF EndLua
<1>2. ResultsCleared'
  BY <1>1 DEF ResultsCleared
<1>3. CASE lins = 0
  <2>1. dbs' = dbs
    BY <1>1, <1>3
  <2>2. DbType' /\ AskedInv'
    BY <1>1, <2>1 DEF DbInv, DbType, AskedInv
  <2>3. ConnectionsInv'
    BY <1>1, <1>3, <2>1 DEF DbInv, ConnectionsInv
  <2> QED
    BY <1>2, <2>2, <2>3 DEF DbInv
<1>4. CASE lins # 0
  <2>1. lins = 2 /\ db = 2 /\ Len(dbs) = 2 /\ dbs[2].by = "worker" /\ dbs[1].by = "server"
        /\ dbs[1].open = FALSE /\ dbs \in Seq(Databases) /\ dbs[2] \in Databases
    <3>1. lins = 2 /\ db = 2 /\ Len(dbs) = 2 /\ dbs[2].by = "worker" /\ dbs[1].by = "server"
          /\ dbs[1].open = FALSE /\ dbs \in Seq(Databases)
      BY <1>1, <1>4 DEF DbInv, DbType, ConnectionsInv
    <3> QED
      BY <3>1, ElementOfSeq
  <2> DEFINE c == [dbs[2] EXCEPT !.open = FALSE]
             d == [c EXCEPT !.res = 0]
  <2>2. d \in Databases /\ d.by = "worker" /\ d.open = FALSE
    <3>1. ASSUME NEW g \in Databases
          PROVE  [g EXCEPT !.open = FALSE] \in Databases /\ [g EXCEPT !.res = 0] \in Databases
      BY <3>1 DEF Databases
    <3>2. c \in Databases
      BY <2>1, <3>1
    <3>3. c.by = "worker" /\ c.open = FALSE
      BY <2>1 DEF Databases
    <3> HIDE DEF c
    <3>4. d.by = c.by /\ d.open = c.open
      BY <3>2 DEF Databases
    <3> QED
      BY <3>1, <3>2, <3>3, <3>4
  <2>3. dbs' = [dbs EXCEPT ![2] = d]
    BY <1>1, <1>4, <2>1 DEF Databases
  <2> HIDE DEF d
  <2>4. dbs' \in Seq(Databases) /\ Len(dbs') = 2 /\ dbs'[1] = dbs[1] /\ dbs'[2] = d
    BY <2>1, <2>2, <2>3, SetSecond
  <2>5. DbType'
    BY <1>1, <2>1, <2>4 DEF DbInv, DbType
  <2>6. ConnectionsInv'
    BY <1>1, <2>1, <2>2, <2>4 DEF ConnectionsInv
  <2>7. AskedInv'
    BY <1>1, <2>1, <2>2, <2>4 DEF DbInv, AskedInv
  <2> QED
    BY <1>2, <2>5, <2>6, <2>7 DEF DbInv
<1> QED
  BY <1>3, <1>4

\* A query is asked on the worker's own connection, and its result takes the place of the
\* one before.
LEMMA DbQueried == ASSUME DbInv, QueryLua PROVE DbInv'
<1>1. PICK up \in BOOLEAN, rows \in BOOLEAN :
        LET ds == IF lins = 0 THEN Append(dbs, Database("worker", up)) ELSE dbs
        IN db' = Len(ds) /\ lins' = Len(ds) /\ Query(ds, Len(ds), rows)
  BY DEF QueryLua
<1> DEFINE ds == IF lins = 0 THEN Append(dbs, Database("worker", up)) ELSE dbs
           id == Len(asked) + 1
           d  == [ds[2] EXCEPT !.res = IF rows THEN id ELSE 0]
           q  == [by |-> "worker", db |-> 2, open |-> ds[2].open]
<1>2. pc = "eval" /\ pc' = "eval" /\ dbs \in Seq(Databases) /\ asked \in Seq(Queries)
      /\ Len(dbs) \in {1, 2} /\ dbs[1].by = "server" /\ dbs[1].open = FALSE /\ Len(asked) \in Nat
      /\ live \subseteq 1..Len(asked)
  BY DEF QueryLua, MayCall, Evaluating, DbInv, DbType, ConnectionsInv
<1>3. Database("worker", up) \in Databases /\ Database("worker", up).by = "worker"
      /\ Database("worker", up).open = TRUE
  BY DEF Database, Databases
<1>4. /\ ds \in Seq(Databases) /\ Len(ds) = 2 /\ ds[1] = dbs[1] /\ ds[2] \in Databases
      /\ ds[2].by = "worker" /\ ds[2].open = TRUE
  <2>1. CASE lins = 0
    <3>1. Len(dbs) = 1
      BY <1>2, <2>1 DEF DbInv, ConnectionsInv
    <3> QED
      <4>1. ds = Append(dbs, Database("worker", up))
        BY <2>1
      <4> HIDE DEF ds
      <4>2. ds \in Seq(Databases) /\ Len(ds) = 2 /\ ds[1] = dbs[1] /\ ds[2] = Database("worker", up)
        BY <1>2, <1>3, <3>1, <4>1, AddSecond
      <4> QED
        BY <1>3, <4>2
  <2>2. CASE lins # 0
    <3>1. Len(dbs) = 2 /\ dbs[2].by = "worker" /\ dbs[2].open = TRUE
      BY <1>2, <2>2 DEF DbInv, ConnectionsInv
    <3> QED
      BY <1>2, <2>2, <3>1, ElementOfSeq
  <2> QED
    BY <2>1, <2>2
<1>5. Query(ds, 2, rows) /\ db' = 2 /\ lins' = 2
  BY <1>1, <1>4
\* Every result of a worker is the one its connection keeps.
<1>6. \A r \in live : asked[r].by = "worker" => r = ds[2].res
  <2>1. CASE lins = 0
    <3>1. \A k \in 1..Len(asked) : asked[k].by = "server"
      <4>1. Len(dbs) = 1
        BY <1>2, <2>1 DEF DbInv, ConnectionsInv
      <4>2. \A k \in 1..Len(asked) : asked[k].db = 1
        BY <4>1 DEF DbInv, AskedInv
      <4> QED
        BY <1>2, <4>2 DEF DbInv, AskedInv
    <3> QED
      BY <1>2, <3>1
  <2>2. CASE lins # 0
    BY <1>2, <2>2 DEF DbInv, ConnectionsInv, ResultsCleared
  <2> QED
    BY <2>1, <2>2
<1> HIDE DEF ds
<1>7. d \in Databases /\ d.by = "worker" /\ d.open = TRUE /\ d.res = IF rows THEN id ELSE 0
  BY <1>2, <1>4 DEF Databases
<1>8. q \in Queries /\ q.open /\ q.db = 2 /\ q.by = "worker"
  BY <1>4 DEF Queries
<1>9. dbs' = [ds EXCEPT ![2] = d] /\ asked' = Append(asked, q)
      /\ live' = (live \ {ds[2].res}) \cup (IF rows THEN {id} ELSE {})
  BY <1>4, <1>5 DEF Query, Asks, Databases
<1> HIDE DEF d, q
<1>10. dbs' \in Seq(Databases) /\ Len(dbs') = 2 /\ dbs'[1] = dbs[1] /\ dbs'[2] = d
  BY <1>4, <1>7, <1>9, SetSecond
<1>11. asked' \in Seq(Queries) /\ Len(asked') = id /\ asked'[id] = q
       /\ \A k \in 1..Len(asked) : asked'[k] = asked[k]
  BY <1>2, <1>8, <1>9, AppendProperties
<1>12. DbType'
  BY <1>2, <1>5, <1>9, <1>10, <1>11 DEF DbType
<1>13. ConnectionsInv'
  BY <1>2, <1>5, <1>7, <1>10 DEF ConnectionsInv
<1>14. AskedInv'
  <2>1. SUFFICES ASSUME NEW k \in 1..Len(asked')
                 PROVE  asked'[k].open /\ asked'[k].db \in 1..2 /\ dbs'[asked'[k].db].by = asked'[k].by
    BY <1>10 DEF AskedInv
  <2>2. CASE k = id
    BY <1>7, <1>8, <1>10, <1>11, <2>2
  <2>3. CASE k \in 1..Len(asked)
    <3>1. asked'[k] = asked[k]
      BY <1>11, <2>3
    <3>2. asked[k].open /\ asked[k].db \in 1..Len(dbs) /\ dbs[asked[k].db].by = asked[k].by
      BY <2>3 DEF DbInv, AskedInv
    <3>3. CASE asked[k].db = 1
      BY <1>10, <3>1, <3>2, <3>3
    <3>4. CASE asked[k].db = 2
      <4>1. Len(dbs) = 2
        BY <1>2, <3>2, <3>4
      <4>2. dbs[2].by = "worker"
        BY <1>2, <4>1 DEF DbInv, ConnectionsInv
      <4> QED
        BY <1>7, <1>10, <3>1, <3>2, <3>4, <4>2
    <3> QED
      BY <1>2, <3>2, <3>3, <3>4
  <2> QED
    BY <1>2, <1>11, <2>2, <2>3
<1>15. ResultsCleared'
  <2>1. SUFFICES ASSUME NEW r \in live', asked'[r].by = "worker" PROVE r = dbs'[2].res
    BY <1>5 DEF ResultsCleared
  <2>2. CASE rows /\ r = id
    BY <1>7, <1>10, <2>2
  <2>3. CASE r \in live /\ r # ds[2].res
    <3>1. asked'[r] = asked[r]
      BY <1>2, <1>11, <2>3
    <3> QED
      BY <1>6, <2>1, <2>3, <3>1
  <2> QED
    BY <1>9, <2>1, <2>2, <2>3
<1> QED
  BY <1>12, <1>13, <1>14, <1>15 DEF DbInv

LEMMA DbStep == ASSUME DbInv, [Next]_vars PROVE DbInv'
<1>1. CASE Parse
  <2>1. pc \in {"scan", "script"} /\ pc' \in {"scan", "script", "prepare"} /\ UNCHANGED dbVars
    BY <1>1, ParseFrom DEF Parse
  <2> QED
    BY <2>1, DbSame
<1>2. CASE PrepareProcedures
  BY <1>2, DbPrepared
<1>3. CASE InitLua
  <2>1. pc = "start" /\ lins = 0 /\ UNCHANGED dbVars /\ pc' \in {"done", "crashed", "eval"}
    BY <1>3 DEF InitLua, dbVars, DbInv, ConnectionsInv
  <2> QED
    BY <2>1, DbSame
<1>4. CASE ShowText \/ EnterScript \/ LeaveScript \/ Return \/ SetJump \/ EndEval
  <2>1. pc = "eval" /\ pc' \in {"eval", "end"} /\ UNCHANGED dbVars
    BY <1>4 DEF ShowText, EnterScript, LeaveScript, Return, SetJump, EndEval, AtMark, Evaluated,
           Evaluating
  <2> QED
    BY <2>1, DbSame
<1>5. CASE EndLua
  BY <1>5, DbEnded
<1>6. CASE PlainCall \/ PrintLua \/ IncludeLua \/ UseLua \/ ExitLua \/ PostHTTPLua \/ SocketLua
       \/ SendLua \/ ReceiveLua
  <2>1. pc = "eval" /\ pc' \in {"eval", "end", "size", "crashed"} /\ UNCHANGED dbVars
    BY <1>6 DEF PlainCall, PrintLua, IncludeLua, UseLua, ExitLua, PostHTTPLua, SocketLua, SendLua,
                ReceiveLua, MayCall, Evaluating, Jumped
  <2> QED
    BY <2>1, DbSame
<1>7. CASE QueryLua
  BY <1>7, DbQueried
<1>8. CASE ReceiveSize \/ ReceiveData
  <2>1. pc \in {"size", "datagram"} /\ pc' \in {"datagram", "crashed", "eval"} /\ UNCHANGED dbVars
    BY <1>8 DEF ReceiveSize, ReceiveData
  <2> QED
    BY <2>1, DbSame
<1>9. CASE UNCHANGED vars
  BY <1>9, DbSame DEF vars
<1> QED
  BY <1>1, <1>2, <1>3, <1>4, <1>5, <1>6, <1>7, <1>8, <1>9 DEF Next, Calls

\* However many pages, procedures and calls there are, a worker makes one connection,
\* asks on no other, keeps one result, and has closed it when it is done with the page,
\* also by exit() (database.c:17-103, lws.c:182, 426-431, lua_db.c:31).
THEOREM DatabaseIsKept == Spec => []DatabaseKept
<1>1. DbInv => DatabaseKept
  <2>1. SUFFICES ASSUME DbInv PROVE OneConnection /\ ClosedAtEnd
    BY DEF DbInv, DatabaseKept
  <2>2. OneConnection
    <3>1. \A j, k \in 1..Len(dbs) : dbs[j].by = "worker" /\ dbs[k].by = "worker" => j = k
      BY <2>1 DEF DbInv, ConnectionsInv
    <3> QED
      BY <2>1, <3>1 DEF DbInv, AskedInv, OneConnection
  <2>3. ClosedAtEnd
    <3>1. SUFFICES ASSUME pc = "done", NEW k \in 1..Len(dbs) PROVE dbs[k].open = FALSE
      BY Zenon DEF ClosedAtEnd
    <3>2. Len(dbs) \in {1, 2} /\ dbs[1].open = FALSE
      BY <2>1, <3>1 DEF DbInv, ConnectionsInv
    <3>3. Len(dbs) = 2 => dbs[2].open = FALSE
      BY <2>1, <3>1 DEF DbInv, ConnectionsInv
    <3>4. k = 1 \/ (k = 2 /\ Len(dbs) = 2)
      <4>1. \A n \in {1, 2} : \A m \in 1..n : m = 1 \/ (m = 2 /\ n = 2)
        OBVIOUS
      <4> QED
        BY <3>2, <4>1
    <3> QED
      BY <3>2, <3>3, <3>4
  <2> QED
    BY <2>2, <2>3
<1> QED
  BY <1>1, DbInit, DbStep, PTL DEF Spec

-----------------------------------------------------------------------------
(* Types. *)

RestType == procedures \in BOOLEAN /\ socket \in BOOLEAN /\ calls \in 0..MaxCalls

LEMMA RestStep == ASSUME RestType, [Next]_vars PROVE RestType'
<1>0. MaxCalls \in Nat /\ calls \in Nat
  BY ScriptAssumption DEF RestType
<1>1. \/ calls' = calls
      \/ calls < MaxCalls /\ calls' = calls + 1
  BY DEF Next, Calls, Parse, PrepareProcedures, InitLua, ShowText, EnterScript, LeaveScript, Return,
         SetJump, EndEval, EndLua, PlainCall, PrintLua, IncludeLua, UseLua, ExitLua, PostHTTPLua,
         QueryLua, SocketLua, SendLua, ReceiveLua, ReceiveSize, ReceiveData, vars, pageVars, MayCall
<1>2. socket' = socket \/ socket' = TRUE
  BY DEF Next, Calls, Parse, PrepareProcedures, InitLua, ShowText, EnterScript, LeaveScript, Return,
         SetJump, EndEval, EndLua, PlainCall, PrintLua, IncludeLua, UseLua, ExitLua, PostHTTPLua,
         QueryLua, SocketLua, SendLua, ReceiveLua, ReceiveSize, ReceiveData, vars
<1>3. procedures' = procedures \/ procedures' \in BOOLEAN
  <2>1. CASE PrepareProcedures
    BY <2>1 DEF PrepareProcedures
  <2>2. CASE ~PrepareProcedures
    BY <2>2 DEF Next, Calls, Parse, InitLua, ShowText, EnterScript, LeaveScript, Return,
         SetJump, EndEval, EndLua, PlainCall, PrintLua, IncludeLua, UseLua, ExitLua, PostHTTPLua,
         QueryLua, SocketLua, SendLua, ReceiveLua, ReceiveSize, ReceiveData, vars, dbVars
  <2> QED BY <2>1, <2>2
<1>4. calls' \in 0..MaxCalls
  BY <1>0, <1>1 DEF RestType
<1>5. socket' \in BOOLEAN
  BY <1>2, Zenon DEF RestType
<1>6. procedures' \in BOOLEAN
  BY <1>3, Zenon DEF RestType
<1> QED
  BY <1>4, <1>5, <1>6 DEF RestType

\* Every state of a worker with its page has its type (lws.c, database.c).
THEOREM TypeCorrect == Spec => []TypeOK
<1>1. Init => RestType
  <2>1. Init => procedures = FALSE /\ socket = FALSE /\ calls = 0
    BY DEF Init
  <2>2. 0 \in 0..MaxCalls
    BY ScriptAssumption
  <2> QED BY <2>1, <2>2, Zenon DEF RestType
<1>2. RestType /\ [Next]_vars => RestType'
  BY RestStep
<1>3. Spec => [](FInv /\ PlaceInv)
  BY PlaceInvariance
<1>4. FInv /\ PlaceInv /\ DbInv /\ RestType => TypeOK
  BY DEF FInv, FramesType, PlaceInv, DbInv, DbType, RestType, TypeOK
<1> QED
  BY <1>1, <1>2, <1>3, <1>4, DbInit, DbStep, PTL DEF Spec
=============================================================================
