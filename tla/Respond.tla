------------------------------ MODULE Respond -------------------------------
(***************************************************************************)
(* What send_response() puts on the wire (client.c, responses.c, status.c, *)
(* script.c, image.c, lws.c and the writing half of sockets.c).  The socket*)
(* does not block: a write takes what fits in the send buffer, and one that*)
(* finds it full closes the response.  The peer drains the buffer, or goes *)
(* away, between any two writes.                                           *)
(*                                                                         *)
(* The wire is a sequence of symbols: a status line, a write of the        *)
(* headers, the size line of a chunk, a byte of the body, the line end     *)
(* after a chunk.  That each has its place in the answer is for the        *)
(* properties alone.                                                       *)
(***************************************************************************)
EXTENDS Integers, Sequences

CONSTANTS Answer,      \* the answers handlers give, see AnswerAssumption
          Headers,     \* how many headers the response has
          MaxWrite,    \* MAX_WRITE_SIZE
          SendBuffer   \* symbols the send buffer of the socket holds

\* A handler sends the head or, error_handler() of a status without a page, nothing.
\* Then come the pieces of the body: a mapped file, the text between the scripts of
\* a template, or what a script prints.
ASSUME AnswerAssumption ==
  \A a \in Answer :
    /\ a.head \in BOOLEAN
    /\ a.pieces \in Seq([kind : {"file", "text", "print"}, length : Nat])
    /\ ~a.head => a.pieces = <<>>
ASSUME SizesAssumption ==
  Headers \in Nat /\ MaxWrite \in Nat \ {0} /\ SendBuffer \in Nat \ {0}

\* The writes of the headers: of each its key, a colon, its value and the line end, and the
\* empty line behind them.
HeadWrites == 4 * Headers + 1

VARIABLES pc,       \* the next write
          answer,   \* what the handler sends
          piece,    \* the piece it is at
          off,      \* how far it is in it; the write of the headers it is at, before the body
          chunk,    \* the length write_chunk() was called with
          sent,     \* what its second write returned
          closed,   \* client.response->socket->closed
          wire,     \* everything written
          space,    \* room in the send buffer
          gone,     \* the peer reset the connection
          cut       \* some write was short

responseVars == <<answer, piece, off, chunk, sent>>
socketVars   == <<closed, wire, space, cut>>
vars         == <<pc, responseVars, socketVars, gone>>

\* Symbol i of the chunk at offset o of piece k; n is what a size line says.  The head
\* comes before the pieces, the last chunk behind them.
Symbol(kind, k, o, i, n) == [kind |-> kind, piece |-> k, off |-> o, i |-> i, n |-> n]

Symbols ==
  [kind : {"status", "header", "size", "data", "lineEnd"}, piece : Nat, off : Nat, i : Nat, n : Nat]

Status           == Symbol("status", 0, 0, 0, 0)
HeaderPart(i)    == Symbol("header", 0, 0, i, 0)
Size(k, o, n)    == Symbol("size", k, o, 0, n)
Data(k, o, i)    == Symbol("data", k, o, i, 0)
LineEnd(k, o, n) == Symbol("lineEnd", k, o, n + 1, 0)

Piece     == answer.pieces[piece]
LastChunk == Len(answer.pieces) + 1

Bytes(k, o, n) == [i \in 1..n |-> Data(k, o, i)]

-----------------------------------------------------------------------------
Init ==
  /\ answer \in Answer
  /\ pc = IF answer.head THEN "status" ELSE "endSize"
  /\ piece = 1 /\ off = 0 /\ chunk = 0 /\ sent = 0
  /\ closed = FALSE /\ wire = <<>> /\ cut = FALSE
  /\ space = SendBuffer /\ gone = FALSE

\* What write_to_socket() returns for n symbols; -1 becomes 0.
Written(n) == IF closed \/ gone \/ n = 0 THEN 0 ELSE IF n < space THEN n ELSE space

\* Mutant: EAGAIN does not close the response.
WriteToSocketGoesOn(symbols) ==
  LET n == Written(Len(symbols))
  IN /\ wire' = wire \o SubSeq(symbols, 1, n)
     /\ space' = space - n
     /\ cut' = (cut \/ (0 < n /\ n < Len(symbols)))
     /\ closed' = (closed \/ gone)

\* write_to_socket(): a full buffer (EAGAIN) is an error like any other, and an error
\* closes the response; the SIGPIPE handler does the same.
WriteToSocket(symbols) ==
  LET n == Written(Len(symbols))
  IN /\ wire' = wire \o SubSeq(symbols, 1, n)
     /\ space' = space - n
     /\ cut' = (cut \/ (0 < n /\ n < Len(symbols)))
     /\ closed' = (closed \/ (n = 0 /\ symbols # <<>>))

\* send_status()
SendStatus ==
  /\ pc = "status"
  /\ WriteToSocket(<<Status>>)
  /\ off' = 1 /\ pc' = "headers"
  /\ UNCHANGED <<answer, piece, chunk, sent, gone>>

\* send_headers(): a write is not stopped by a socket that the one before it closed.
SendHeader ==
  /\ pc = "headers"
  /\ \/ /\ off <= HeadWrites
        /\ WriteToSocket(<<HeaderPart(off)>>)
        /\ off' = off + 1 /\ pc' = pc
     \/ /\ off > HeadWrites
        /\ off' = 0 /\ pc' = "body"
        /\ UNCHANGED socketVars
  /\ UNCHANGED <<answer, piece, chunk, sent, gone>>

\* The loops over the body.  A file is sent while the socket is open, a print goes
\* through its whole string, a text is one chunk of whatever length.
MorePieces == piece <= Len(answer.pieces)

\* Mutant: the handler's loop does not look at the socket.
MoreOfPieceBlind ==
  CASE Piece.kind \in {"file", "print"} -> off < Piece.length
    [] Piece.kind = "text"  -> off = 0

MoreOfPiece ==
  CASE Piece.kind = "file"  -> ~closed /\ off < Piece.length
    [] Piece.kind = "print" -> off < Piece.length
    [] Piece.kind = "text"  -> off = 0

NextChunk ==
  /\ pc = "body" /\ MorePieces /\ MoreOfPiece
  /\ chunk' = IF Piece.kind # "text" /\ Piece.length - off > MaxWrite
              THEN MaxWrite ELSE Piece.length - off
  /\ pc' = "size"
  /\ UNCHANGED <<answer, piece, off, sent, socketVars, gone>>

NextPiece ==
  /\ pc = "body" /\ MorePieces /\ ~MoreOfPiece
  /\ piece' = piece + 1 /\ off' = 0
  /\ UNCHANGED <<pc, answer, chunk, sent, socketVars, gone>>

EndBody ==
  /\ pc = "body" /\ ~MorePieces
  /\ pc' = "endSize"
  /\ UNCHANGED <<responseVars, socketVars, gone>>

\* write_chunk(): three writes, of which only the second one's result is used.
ChunkSize ==
  /\ pc = "size"
  /\ WriteToSocket(<<Size(piece, off, chunk)>>)
  /\ pc' = "data"
  /\ UNCHANGED <<responseVars, gone>>

ChunkData ==
  /\ pc = "data"
  /\ WriteToSocket(Bytes(piece, off, chunk))
  /\ sent' = Written(chunk)
  /\ pc' = "lineEnd"
  /\ UNCHANGED <<answer, piece, off, chunk, gone>>

\* Mutant: a file goes on behind what was asked for.
AdvanceBlind ==
  CASE Piece.kind = "file"  -> off + chunk
    [] Piece.kind = "print" -> off + MaxWrite
    [] Piece.kind = "text"  -> chunk + 1

\* A file goes on behind what was written, the others behind what was asked for
\* (an empty text has been dealt with, so off leaves 0).
Advance ==
  CASE Piece.kind = "file"  -> off + sent
    [] Piece.kind = "print" -> off + MaxWrite
    [] Piece.kind = "text"  -> chunk + 1

ChunkEnd ==
  /\ pc = "lineEnd"
  /\ WriteToSocket(<<LineEnd(piece, off, chunk)>>)
  /\ off' = Advance /\ chunk' = 0 /\ sent' = 0
  /\ pc' = "body"
  /\ UNCHANGED <<answer, piece, gone>>

\* end_response(): write_chunk() without data.
EndSize ==
  /\ pc = "endSize"
  /\ WriteToSocket(<<Size(LastChunk, 0, 0)>>)
  /\ pc' = "endLine"
  /\ UNCHANGED <<responseVars, gone>>

EndLine ==
  /\ pc = "endLine"
  /\ WriteToSocket(<<LineEnd(LastChunk, 0, 0)>>)
  /\ pc' = "done"
  /\ UNCHANGED <<responseVars, gone>>

WorkerStep ==
  \/ SendStatus \/ SendHeader \/ NextChunk \/ NextPiece \/ EndBody
  \/ ChunkSize \/ ChunkData \/ ChunkEnd \/ EndSize \/ EndLine

-----------------------------------------------------------------------------
(* The peer: an acknowledgement frees some of the buffer, a reset ends it all. *)
Drain ==
  /\ pc # "done" /\ ~gone /\ space < SendBuffer
  /\ \E n \in (space + 1)..SendBuffer : space' = n
  /\ UNCHANGED <<pc, responseVars, closed, wire, cut, gone>>

Leave ==
  /\ pc # "done" /\ ~gone
  /\ gone' = TRUE
  /\ UNCHANGED <<pc, responseVars, socketVars>>

Next == WorkerStep \/ Drain \/ Leave

Spec == Init /\ [][Next]_vars

\* Only the worker has to go on: no write blocks, whatever the peer does.
FairSpec == Spec /\ WF_vars(WorkerStep)

-----------------------------------------------------------------------------
(* Properties. *)

TypeOK ==
  /\ pc \in {"status", "headers", "body", "size", "data", "lineEnd",
             "endSize", "endLine", "done"}
  /\ answer \in Answer /\ piece \in Nat /\ off \in Nat /\ chunk \in Nat /\ sent \in Nat
  /\ closed \in BOOLEAN /\ gone \in BOOLEAN /\ cut \in BOOLEAN
  /\ space \in 0..SendBuffer /\ wire \in Seq(Symbols)

Chunk(k, o, n) == {Size(k, o, n), LineEnd(k, o, n)} \cup {Data(k, o, i) : i \in 1..n}

\* Where the chunks of a piece start: a text is one, of whatever length, the others are cut
\* into chunks of MaxWrite.
Offsets(p) ==
  IF p.kind = "text" THEN {0} ELSE {q * MaxWrite : q \in 0..p.length} \cap 0..(p.length - 1)
ChunkLength(p, o) ==
  IF p.kind = "text" \/ p.length - o <= MaxWrite THEN p.length - o ELSE MaxWrite

\* The response as HTTP/1.1 has it: the head, the last chunk, the pieces in chunks before it.
\* An empty text is one more last chunk.
Encoding(a) ==
  (IF a.head THEN {Status} \cup {HeaderPart(i) : i \in 1..HeadWrites} ELSE {})
    \cup Chunk(Len(a.pieces) + 1, 0, 0)
    \cup UNION {UNION {Chunk(k, o, ChunkLength(a.pieces[k], o)) : o \in Offsets(a.pieces[k])} :
                  k \in 1..Len(a.pieces)}

Earlier(s, t) ==
  \/ s.piece < t.piece
  \/ s.piece = t.piece /\ (s.off < t.off \/ (s.off = t.off /\ s.i < t.i))

OnWire(s) == \E j \in 1..Len(wire) : wire[j] = s

\* Unless a write was cut short, what is on the wire is the encoding of the answer up to
\* some point, in its order and without a gap, and all of it when the worker is done with
\* an open socket: a failed write is never followed by a later part (sockets.c:225-263).
WireExact ==
  ~cut =>
    /\ \A j \in 1..Len(wire) : wire[j] \in Encoding(answer)
    /\ \A j, k \in 1..Len(wire) : j < k => Earlier(wire[j], wire[k])
    /\ \A j \in 1..Len(wire) : \A s \in Encoding(answer) : Earlier(s, wire[j]) => OnWire(s)
    /\ pc = "done" /\ ~closed => \A s \in Encoding(answer) : OnWire(s)

IsFile(a) == \A k \in 1..Len(a.pieces) : a.pieces[k].kind = "file"
Body      == {j \in 1..Len(wire) : wire[j].kind = "data"}
Ended     == \E j \in 1..Len(wire) : wire[j].kind = "size" /\ wire[j].n = 0

\* The place of a byte in its piece, byte b of piece k, and which of two comes first.
At(s) == s.off + s.i - 1
Shown(k, b) == \E j \in Body : wire[j].piece = k /\ At(wire[j]) = b
Before(k, b, s) == k < s.piece \/ (k = s.piece /\ b < At(s))

\* Short writes do not lose, repeat or reorder a byte of a file: the loops of the
\* handlers add up what was written (status.c:97, script.c:24, image.c:36).  The last
\* chunk is on the wire only behind all of its bytes: a response broken off by a full
\* buffer or a reset never looks complete (sockets.c:225-242).
FileWhole ==
  IsFile(answer) =>
    /\ \A j \in Body : wire[j].piece \in 1..Len(answer.pieces)
                      /\ At(wire[j]) \in 0..(answer.pieces[wire[j].piece].length - 1)
    /\ \A j, k \in Body : j < k => Before(wire[j].piece, At(wire[j]), wire[k])
    /\ \A k \in 1..Len(answer.pieces) : \A b \in 0..(answer.pieces[k].length - 1) :
         Ended \/ (\E j \in Body : Before(k, b, wire[j])) => Shown(k, b)

\* No peer keeps a worker in a response: not by reading nothing, not by leaving.
ResponseEnds == <>(pc = "done")
=============================================================================
