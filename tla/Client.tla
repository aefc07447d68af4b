------------------------------- MODULE Client -------------------------------
(***************************************************************************)
(* One worker process (client.c, with the request half of requests.c,      *)
(* read_socket(), the one-shot knotes of events.c and the idle timer): it  *)
(* accepts one connection, reads a request piece by piece, answers it and  *)
(* exits.  The peer sends, pauses, closes or resets at any moment, and the *)
(* idle timer expires at any moment after it was set.                      *)
(*                                                                         *)
(* A request is known by what parse_headers() makes of each of its         *)
(* prefixes.  Its bytes are counted, not spelled out.                      *)
(***************************************************************************)
EXTENDS Integers, FiniteSets

CONSTANTS Request,      \* the requests peers send, see RequestAssumption
          MaxBuffer,    \* Max_Buffer_Size
          MaxRetries    \* MAX_RETRIES

\* What parse_headers(), and print_headers() after it, meet in a prefix: no line
\* break, a request line and no header, a header name without its value, complete
\* headers but no blank line, or the whole head.
Parses == {"line", "bare", "name", "value", "head"}

\* size: the bytes the peer will send.  parse: the prefixes.  head: where the body
\* starts.  length: the Content-Length, 0 without one.  chunked: the encoding.
ASSUME RequestAssumption ==
  \A r \in Request :
    /\ r.size \in Nat /\ r.head \in Nat \ {0} /\ r.length \in Nat /\ r.chunked \in BOOLEAN
    /\ r.parse \in [0..r.size -> Parses]
    /\ r.parse[0] = "line"
    /\ \A n \in 0..r.size : r.parse[n] = "head" <=> n >= r.head
ASSUME BufferAssumption == MaxBuffer \in Nat \ {0}
ASSUME RetriesAssumption == MaxRetries \in Nat /\ MaxRetries > 1

VARIABLES pc,        \* where the worker is
          alarm,     \* client.alarm
          event,     \* client.event
          armed,     \* the one-shot knotes in client.kq
          got,       \* len(client.socket->buf), the bytes read so far
          body,      \* client.request->body is set
          retries,   \* client.request->retries
          answered,  \* send_response() ran
          request,   \* what the peer sends
          sent,      \* how much of it the peer has sent
          avail,     \* bytes in the receive buffer of the socket
          peer       \* "open", "fin", "rst" (the error is pending), "reset" (it was read)

workerVars == <<alarm, event, armed, got, body, retries, answered>>
peerVars   == <<request, sent, avail, peer>>
vars       == <<pc, workerVars, peerVars>>

Ended == {"exited", "crashed"}

-----------------------------------------------------------------------------
(* The worker.  The only writes to the socket are in send_response(), which  *)
(* does not come back, so client.socket->closed is 0 in every other step.    *)

Init ==
  /\ pc = "accept" /\ alarm = FALSE
  /\ event = "READ" /\ armed = {}
  /\ got = 0 /\ body = FALSE /\ retries = 0 /\ answered = FALSE
  /\ request \in Request /\ sent = 0 /\ avail = 0 /\ peer = "open"

\* handle(): a connection, its kqueue, the first knote and the timer.  A failed
\* accept() is not noticed (the descriptor is unsigned): the knote is refused and
\* the worker waits for its timer with nothing armed.
Accept ==
  /\ pc = "accept"
  /\ event' = "READ"
  /\ armed' \in {{"READ"}, {}}
  /\ pc' = "loop"
  /\ UNCHANGED <<alarm, got, body, retries, answered, peerVars>>

\* Mutant: the loop does not look at client.alarm.
LoopForever ==
  /\ pc = "loop"
  /\ pc' = "enter"
  /\ UNCHANGED <<workerVars, peerVars>>

\* while(!client.socket->closed && !client.alarm)
Loop ==
  /\ pc = "loop"
  /\ pc' = IF alarm THEN "exited" ELSE "enter"
  /\ UNCHANGED <<workerVars, peerVars>>

\* An alarm between the test and kevent64() interrupts nothing.
EnterPoll ==
  /\ pc = "enter"
  /\ pc' = "poll"
  /\ UNCHANGED <<workerVars, peerVars>>

\* The filters with something to report; nothing was written yet, so the socket
\* is always writable.
Ready == {e \in armed : e = "READ" => avail > 0 \/ peer # "open"}

\* client_poll() looks at client.event, not at the event it is given.
Poll ==
  /\ pc = "poll"
  /\ \E e \in Ready : armed' = armed \ {e}
  /\ pc' = IF event = "READ" THEN "read" ELSE "respond"
  /\ UNCHANGED <<alarm, event, got, body, retries, answered, peerVars>>

AddReadSocket  == armed' = armed \cup {"READ"}  /\ event' = "READ"
AddWriteSocket == armed' = armed \cup {"WRITE"} /\ event' = "WRITE"

Least(a, b) == IF a < b THEN a ELSE b

\* One read() of the loop in read_socket().
Read ==
  /\ pc = "read" /\ avail > 0
  /\ got' = got + Least(avail, MaxBuffer)
  /\ avail' = avail - Least(avail, MaxBuffer)
  /\ UNCHANGED <<pc, alarm, event, armed, body, retries, answered, request, sent, peer>>

\* Mutant: the test for end of file is reached and closes the socket, so the loop of
\* handle() ends.
ReadEndsCloses ==
  /\ pc = "read" /\ avail = 0 /\ peer # "rst"
  /\ pc' = IF peer = "open" THEN "process" ELSE "exited"
  /\ UNCHANGED <<workerVars, peerVars>>

\* EAGAIN, or end of file: the for loop ends on a read of 0 before its test for it,
\* so both return the buffer and neither closes the socket.
ReadEnds ==
  /\ pc = "read" /\ avail = 0 /\ peer # "rst"
  /\ pc' = "process"
  /\ UNCHANGED <<workerVars, peerVars>>

\* Mutant: an error drops the buffer of the socket.
ReadFailsForgets ==
  /\ pc = "read" /\ avail = 0 /\ peer = "rst"
  /\ peer' = "reset" /\ got' = 0
  /\ retries' = retries + 1
  /\ pc' = "loop" /\ AddReadSocket
  /\ UNCHANGED <<alarm, body, answered, request, sent, avail>>

\* Any other error: process_request() counts a retry, and retry_request() arms the
\* socket again or gives up.  The buffer stays with the socket.
ReadFails ==
  /\ pc = "read" /\ avail = 0 /\ peer = "rst"
  /\ peer' = "reset"
  /\ retries' = retries + 1
  /\ \/ /\ retries + 1 >= MaxRetries
        /\ pc' = "exited" /\ UNCHANGED <<armed, event>>
     \/ /\ retries + 1 < MaxRetries
        /\ pc' = "loop" /\ AddReadSocket
  /\ UNCHANGED <<alarm, got, body, answered, request, sent, avail>>

HeadRead == body \/ request.parse[got] = "head"

\* process_request_contents(), unless the head was parsed before: print_headers() is called, for a debug message, on
\* no headers at all, on an empty list and on a header without a value.
BadPrefix == ~body /\ request.parse[got] \in {"line", "bare", "name"}

ParseCrashes ==
  /\ pc = "process" /\ BadPrefix
  /\ pc' = "crashed"
  /\ UNCHANGED <<workerVars, peerVars>>

\* request_done() on a chunked request: skip_headers() never gets past the first
\* line and takes memory for it until the region ends.
ChunkedCrashes ==
  /\ pc = "process" /\ HeadRead /\ request.chunked
  /\ pc' = "crashed" /\ body' = TRUE
  /\ UNCHANGED <<alarm, event, armed, got, retries, answered, peerVars>>

\* Mutant: the head counts as body.
RequestDoneByLength == HeadRead /\ got >= request.length

\* request_done()
RequestDone == HeadRead /\ got - request.head >= request.length

\* Mutant: the one-shot knote is not armed again.
ReadMoreUnarmed ==
  /\ pc = "process" /\ ~BadPrefix /\ ~(HeadRead /\ request.chunked) /\ ~RequestDone
  /\ body' = HeadRead
  /\ retries' = 0
  /\ pc' = "loop"
  /\ UNCHANGED <<alarm, event, armed, got, answered, peerVars>>

\* read_request() with more to come.
ReadMore ==
  /\ pc = "process" /\ ~BadPrefix /\ ~(HeadRead /\ request.chunked) /\ ~RequestDone
  /\ body' = HeadRead
  /\ retries' = 0
  /\ AddReadSocket /\ pc' = "loop"
  /\ UNCHANGED <<alarm, got, answered, peerVars>>

\* Mutant: the answer waits for the wrong filter.
RequestReadMisarmed ==
  /\ pc = "process" /\ RequestDone /\ ~request.chunked
  /\ body' = TRUE
  /\ retries' = 0
  /\ event' = "WRITE" /\ armed' = armed \cup {"READ"} /\ pc' = "loop"
  /\ UNCHANGED <<alarm, got, answered, peerVars>>

\* read_request() with the whole request.
RequestRead ==
  /\ pc = "process" /\ RequestDone /\ ~request.chunked
  /\ body' = TRUE
  /\ retries' = 0
  /\ AddWriteSocket /\ pc' = "loop"
  /\ UNCHANGED <<alarm, got, answered, peerVars>>

\* send_response(): module Respond tells what goes out.  disconnect() exits.
SendResponse ==
  /\ pc = "respond"
  /\ answered' = TRUE /\ pc' = "exited"
  /\ UNCHANGED <<alarm, event, armed, got, body, retries, peerVars>>

WorkerStep ==
  \/ Loop \/ EnterPoll \/ Poll \/ Read \/ ReadEnds \/ ReadFails
  \/ ParseCrashes \/ ChunkedCrashes \/ ReadMore \/ RequestRead \/ SendResponse

\* SIGALRM, once: the timer has no interval.  It interrupts a blocked kevent64().
Alarm ==
  /\ ~alarm /\ pc \notin Ended \cup {"accept"}
  /\ alarm' = TRUE
  /\ pc' = IF pc = "poll" THEN "loop" ELSE pc
  /\ UNCHANGED <<event, armed, got, body, retries, answered, peerVars>>

-----------------------------------------------------------------------------
(* The peer. *)

Send ==
  /\ peer = "open" /\ pc \notin Ended
  /\ \E n \in 1..(request.size - sent) : sent' = sent + n /\ avail' = avail + n
  /\ UNCHANGED <<pc, workerVars, request, peer>>

Close ==
  /\ peer = "open" /\ pc \notin Ended
  /\ peer' \in {"fin", "rst"}
  /\ UNCHANGED <<pc, workerVars, request, sent, avail>>

-----------------------------------------------------------------------------
Next == Accept \/ WorkerStep \/ Alarm \/ Send \/ Close

Spec == Init /\ [][Next]_vars

\* The worker runs once it has a connection.  The peer owes nothing.
FairSpec == Spec /\ WF_vars(WorkerStep)

\* The kernel lets the timer expire, for the properties that need it.
TimerExpires == WF_vars(Alarm)

-----------------------------------------------------------------------------
(* Properties. *)

TypeOK ==
  /\ pc \in {"accept", "loop", "enter", "poll", "read", "process", "respond"} \cup Ended
  /\ alarm \in BOOLEAN /\ body \in BOOLEAN /\ answered \in BOOLEAN
  /\ event \in {"READ", "WRITE"} /\ armed \in SUBSET {"READ", "WRITE"}
  /\ got \in Nat /\ retries \in Nat /\ sent \in Nat /\ avail \in Nat
  /\ request \in Request
  /\ peer \in {"open", "fin", "rst", "reset"}

\* No byte is lost or read twice, whatever the sizes of the pieces and the errors
\* between them (sockets.c:198-223 starts every call from the old buffer).
BytesConserved == got + avail = sent

\* A request is answered only when its head and all of the announced body are in
\* (requests.c:113-129, client.c:38-55).
AnswerComplete ==
  answered => body /\ got >= request.head + request.length

\* A worker about to block has armed exactly the knote of client.event, which is
\* what client_poll() goes by: no lost event and no event taken for another
\* (client.c:103-122).  Only a failed accept() leaves nothing armed.
OneArmed ==
  pc \in {"enter", "poll"} =>
    armed = {event} \/ (armed = {} /\ got = 0 /\ retries = 0)

\* A worker that exits without an answer was stopped by its timer: neither a close
\* nor a reset of the peer, nor the retries, make it drop a request.
NoSilentDrop == pc = "exited" /\ ~answered => alarm

\* The alarm came between the test of the loop and kevent64() (client.c:146), or
\* before the call: nothing is left to wake the worker but its peer.
AlarmLost == alarm /\ pc = "poll" /\ Ready = {}

\* A worker comes to its end, also when its peer goes silent or closes half way,
\* unless the alarm is lost.
WorkerEnds == TimerExpires => (pc # "accept" ~> pc \in Ended \/ AlarmLost)

WholeSent == sent >= request.head + request.length

\* Once a whole request was sent the worker answers it, without waiting for the
\* timer; it may die parsing one of its prefixes.
RequestAnswered ==
  WholeSent /\ pc = "loop" /\ armed # {} ~> answered \/ alarm \/ pc = "crashed"
=============================================================================
