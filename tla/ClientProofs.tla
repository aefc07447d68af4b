---------------------------- MODULE ClientProofs ----------------------------
(***************************************************************************)
(* The safety of a worker for every set of requests, every buffer size and *)
(* every order of reads, pauses, errors and alarms.                        *)
(***************************************************************************)
EXTENDS Client, TLAPS

\* The whole request has been read.
Complete == body /\ got >= request.head + request.length

\* Reading never gets ahead of what was sent, nor a head set before it was in.
ReadInv ==
  /\ BytesConserved
  /\ sent <= request.size
  /\ body => got >= request.head

\* The knotes at every point of the loop, not only before kevent64().
KnoteInv ==
  /\ pc \in {"loop", "enter", "poll"} =>
       armed = {event} \/ (armed = {} /\ got = 0 /\ retries = 0)
  /\ pc \in {"accept", "read", "process", "respond"} => armed = {}
  /\ pc \in {"accept", "read", "process"} => event = "READ"
  /\ pc = "respond" => event = "WRITE"
  /\ pc = "accept" => got = 0 /\ retries = 0
  /\ answered => pc = "exited"

\* client.event says WRITE only once the request is complete, and nothing is read
\* after that.
AnswerInv == (event = "WRITE" \/ answered) => Complete

\* A connection has one read error in it, its reset; so the retries never run out.
RetryInv ==
  /\ retries = 0 \/ (retries = 1 /\ peer = "reset")
  /\ NoSilentDrop

IInv == TypeOK /\ ReadInv /\ KnoteInv /\ AnswerInv /\ RetryInv

-----------------------------------------------------------------------------
LEMMA LeastOf ==
  ASSUME NEW a \in Nat \ {0}, NEW b \in Nat \ {0}
  PROVE  Least(a, b) \in 1..a
BY DEF Least

\* parse_headers() finds the head in a prefix exactly when it is all there.
LEMMA HeadIn ==
  ASSUME TypeOK, ReadInv, HeadRead
  PROVE  got >= request.head /\ request.head \in Nat /\ request.length \in Nat
<1>1. got \in 0..request.size
  BY RequestAssumption DEF TypeOK, ReadInv, BytesConserved
<1> QED
  BY <1>1, RequestAssumption DEF TypeOK, ReadInv, HeadRead

LEMMA InitIInv == Init => IInv
<1> SUFFICES ASSUME Init PROVE IInv
  OBVIOUS
<1>1. TypeOK
  BY DEF Init, TypeOK, Ended
<1>2. ReadInv
  BY RequestAssumption DEF Init, ReadInv, BytesConserved
<1>3. KnoteInv /\ AnswerInv /\ RetryInv
  BY DEF Init, KnoteInv, AnswerInv, RetryInv, NoSilentDrop
<1> QED
  BY <1>1, <1>2, <1>3 DEF IInv

-----------------------------------------------------------------------------
LEMMA TypeStep ==
  ASSUME IInv, [Next]_vars
  PROVE  TypeOK'
<1> USE DEF IInv, TypeOK, Ended, workerVars, peerVars, AddReadSocket, AddWriteSocket
<1>1. CASE Accept \/ Loop \/ EnterPoll \/ ReadEnds \/ ParseCrashes \/ ChunkedCrashes
  BY <1>1 DEF Accept, Loop, EnterPoll, ReadEnds, ParseCrashes, ChunkedCrashes
<1>2. CASE Poll
  BY <1>2 DEF Poll, Ready
<1>3. CASE Read
  <2>1. Least(avail, MaxBuffer) \in 1..avail
    BY <1>3, LeastOf, BufferAssumption DEF Read
  <2> QED
    BY <1>3, <2>1 DEF Read
<1>4. CASE ReadFails
  <2>1. peer' = "reset" /\ retries' = retries + 1 /\ UNCHANGED <<got, sent, avail, request>>
    BY <1>4 DEF ReadFails
  <2>2. pc' \in {"exited", "loop"} /\ event' \in {"READ", "WRITE"} /\ armed' \in SUBSET {"READ", "WRITE"}
    BY <1>4 DEF ReadFails
  <2> QED
    BY <1>4, <2>1, <2>2 DEF ReadFails
<1>5. CASE ReadMore \/ RequestRead \/ SendResponse
  <2>1. HeadRead \in BOOLEAN
    BY DEF HeadRead
  <2>2. CASE ReadMore
    BY <2>1, <2>2 DEF ReadMore
  <2>3. CASE RequestRead
    BY <2>3 DEF RequestRead
  <2>4. CASE SendResponse
    BY <2>4 DEF SendResponse
  <2> QED
    BY <1>5, <2>2, <2>3, <2>4
<1>6. CASE Alarm \/ Close
  <2>1. CASE Alarm
    BY <2>1 DEF Alarm
  <2>2. CASE Close
    BY <2>2 DEF Close
  <2> QED
    BY <1>6, <2>1, <2>2
<1>7. CASE Send
  BY <1>7, RequestAssumption DEF Send
<1>8. CASE UNCHANGED vars
  BY <1>8 DEF vars
<1> QED
  BY <1>1, <1>2, <1>3, <1>4, <1>5, <1>6, <1>7, <1>8 DEF Next, WorkerStep

LEMMA ReadStep ==
  ASSUME IInv, [Next]_vars
  PROVE  ReadInv'
<1> USE DEF IInv, TypeOK, ReadInv, BytesConserved, workerVars, peerVars
<1>1. CASE Accept \/ Loop \/ EnterPoll \/ Poll \/ ReadEnds \/ ReadFails \/ ParseCrashes
  BY <1>1 DEF Accept, Loop, EnterPoll, Poll, ReadEnds, ReadFails, ParseCrashes
<1>2. CASE Read
  <2>1. Least(avail, MaxBuffer) \in 1..avail
    BY <1>2, LeastOf, BufferAssumption DEF Read
  <2>2. request.head \in Nat
    BY RequestAssumption
  <2> QED
    BY <1>2, <2>1, <2>2 DEF Read
<1>3. CASE ChunkedCrashes \/ ReadMore \/ RequestRead
  BY <1>3, HeadIn DEF ChunkedCrashes, ReadMore, RequestRead, RequestDone
<1>4. CASE SendResponse \/ Alarm \/ Close
  BY <1>4 DEF SendResponse, Alarm, Close
<1>5. CASE Send
  <2> PICK n \in 1..(request.size - sent) : sent' = sent + n /\ avail' = avail + n
    BY <1>5 DEF Send
  <2>1. request.size \in Nat
    BY RequestAssumption
  <2> QED
    BY <1>5, <2>1 DEF Send
<1>6. CASE UNCHANGED vars
  BY <1>6 DEF vars
<1> QED
  BY <1>1, <1>2, <1>3, <1>4, <1>5, <1>6 DEF Next, WorkerStep

LEMMA KnoteStep ==
  ASSUME IInv, [Next]_vars
  PROVE  KnoteInv'
<1> USE DEF IInv, TypeOK, KnoteInv, Ended, workerVars, peerVars, AddReadSocket, AddWriteSocket
<1>1. CASE Accept \/ Loop \/ EnterPoll
  <2>1. CASE Accept
    BY <2>1 DEF Accept
  <2>2. CASE Loop
    BY <2>2 DEF Loop
  <2>3. CASE EnterPoll
    BY <2>3 DEF EnterPoll
  <2> QED
    BY <1>1, <2>1, <2>2, <2>3
<1>8. CASE ReadEnds \/ ParseCrashes \/ ChunkedCrashes
  <2>1. /\ pc \in {"read", "process"} /\ pc' \in {"process", "crashed"}
        /\ UNCHANGED <<event, armed, answered>>
    BY <1>8 DEF ReadEnds, ParseCrashes, ChunkedCrashes
  <2>2. ~answered /\ armed = {} /\ event = "READ"
    BY <2>1
  <2> QED
    BY <2>1, <2>2
<1>2. CASE Poll
  <2>1. armed = {event} /\ armed' = {}
    BY <1>2 DEF Poll, Ready
  <2> QED
    BY <1>2, <2>1 DEF Poll
<1>3. CASE Read
  BY <1>3 DEF Read
<1>4. CASE ReadFails
  BY <1>4 DEF ReadFails
<1>5. CASE ReadMore \/ RequestRead \/ SendResponse
  <2>1. CASE ReadMore
    BY <2>1 DEF ReadMore
  <2>2. CASE RequestRead
    BY <2>2 DEF RequestRead
  <2>3. CASE SendResponse
    BY <2>3 DEF SendResponse
  <2> QED
    BY <1>5, <2>1, <2>2, <2>3
<1>6. CASE Alarm \/ Close \/ Send
  <2>1. CASE Alarm
    BY <2>1 DEF Alarm
  <2>2. CASE Close \/ Send
    <3>1. UNCHANGED <<pc, event, armed, got, retries, answered>>
      BY <2>2 DEF Close, Send
    <3> QED
      BY <3>1
  <2> QED
    BY <1>6, <2>1, <2>2
<1>7. CASE UNCHANGED vars
  BY <1>7 DEF vars
<1> QED
  BY <1>1, <1>2, <1>3, <1>4, <1>5, <1>6, <1>7, <1>8 DEF Next, WorkerStep

LEMMA AnswerStep ==
  ASSUME IInv, [Next]_vars
  PROVE  AnswerInv'
<1> USE DEF IInv, TypeOK, AnswerInv, Complete, workerVars, peerVars, AddReadSocket, AddWriteSocket
<1>1. CASE Accept \/ Loop \/ EnterPoll \/ Poll \/ ReadEnds \/ ParseCrashes \/ ChunkedCrashes
  BY <1>1 DEF Accept, Loop, EnterPoll, Poll, ReadEnds, ParseCrashes, ChunkedCrashes, KnoteInv
<1>2. CASE Read \/ ReadFails
  BY <1>2 DEF Read, ReadFails, KnoteInv
<1>3. CASE ReadMore
  BY <1>3 DEF ReadMore, KnoteInv
<1>4. CASE RequestRead
  BY <1>4, HeadIn DEF RequestRead, RequestDone
<1>5. CASE SendResponse
  BY <1>5 DEF SendResponse, KnoteInv
<1>6. CASE Alarm \/ Close \/ Send
  BY <1>6 DEF Alarm, Close, Send
<1>7. CASE UNCHANGED vars
  BY <1>7 DEF vars
<1> QED
  BY <1>1, <1>2, <1>3, <1>4, <1>5, <1>6, <1>7 DEF Next, WorkerStep

LEMMA RetryStep ==
  ASSUME IInv, [Next]_vars
  PROVE  RetryInv'
<1> USE DEF IInv, TypeOK, RetryInv, NoSilentDrop, Ended, workerVars, peerVars
<1>1. CASE Accept \/ Loop \/ EnterPoll \/ Poll \/ ReadEnds \/ ParseCrashes \/ ChunkedCrashes
  BY <1>1 DEF Accept, Loop, EnterPoll, Poll, ReadEnds, ParseCrashes, ChunkedCrashes
<1>2. CASE Read
  BY <1>2 DEF Read
<1>3. CASE ReadFails
  BY <1>3, RetriesAssumption DEF ReadFails
<1>4. CASE ReadMore \/ RequestRead \/ SendResponse
  BY <1>4 DEF ReadMore, RequestRead, SendResponse
<1>5. CASE Alarm \/ Close \/ Send
  BY <1>5 DEF Alarm, Close, Send
<1>6. CASE UNCHANGED vars
  BY <1>6 DEF vars
<1> QED
  BY <1>1, <1>2, <1>3, <1>4, <1>5, <1>6 DEF Next, WorkerStep

-----------------------------------------------------------------------------
LEMMA Invariance == Spec => []IInv
<1>1. IInv /\ [Next]_vars => IInv'
  BY TypeStep, ReadStep, KnoteStep, AnswerStep, RetryStep DEF IInv
<1> QED
  BY InitIInv, <1>1, PTL DEF Spec

\* The types of a worker's state (client.h, requests.h).
THEOREM TypeCorrect == Spec => []TypeOK
<1>1. IInv => TypeOK
  BY DEF IInv
<1> QED
  BY <1>1, Invariance, PTL

\* read_socket() loses no byte between calls, errors included (sockets.c:198-223).
THEOREM ReadsConserveBytes == Spec => []BytesConserved
<1>1. IInv => BytesConserved
  BY DEF IInv, ReadInv
<1> QED
  BY <1>1, Invariance, PTL

\* No request is answered before its announced body is in, however it was cut into
\* reads (client.c:38-67, requests.c:113-129).
THEOREM AnswersAreComplete == Spec => []AnswerComplete
<1>1. IInv => AnswerComplete
  BY DEF IInv, AnswerInv, AnswerComplete, Complete
<1> QED
  BY <1>1, Invariance, PTL

\* client_poll() may go by client.event: before every kevent64() exactly that knote
\* is armed (client.c:103-122).
THEOREM KnoteMatchesEvent == Spec => []OneArmed
<1>1. IInv => OneArmed
  BY DEF IInv, KnoteInv, OneArmed
<1> QED
  BY <1>1, Invariance, PTL

\* Only the timer makes a worker leave without an answer, so MAX_RETRIES is never
\* reached (client.c:27-36).
THEOREM NoRequestDropped == Spec => []NoSilentDrop
<1>1. IInv => NoSilentDrop
  BY DEF IInv, RetryInv
<1> QED
  BY <1>1, Invariance, PTL
=============================================================================
