------------------------------- MODULE Script -------------------------------
(***************************************************************************)
(* A page in a worker (lws.c, database.c, lua_db.c): the server has parsed *)
(* it (module Template) and asked the database for its stored procedures;  *)
(* run_lua_script() runs common.lua and then EvalLuaFile() on the page.    *)
(* Scripts print, include pages in pages, use files of Lua, ask the        *)
(* database, talk to other hosts, fail, and leave everything by exit().    *)
(*                                                                         *)
(* What a script computes is its own affair: it makes any calls in any     *)
(* order.  A page includes pages that are divided like itself.             *)
(***************************************************************************)
EXTENDS Pages, SequencesExt

CONSTANTS Acting,     \* the pages whose scripts make calls
          MaxCalls,   \* the calls of all scripts of a page together
          MaxDepth    \* LUAI_MAXCCALLS: scripts that may be under way in each other

ASSUME ScriptAssumption == MaxCalls \in Nat /\ MaxDepth \in Nat \ {0} /\ Acting \subseteq Source

VARIABLES pc,         \* that of Template, then where run_lua_script() is
          source, o, l, parsed, shown,   \* as in Template
          jump,       \* setjmp(l_jump) was called
          frames,     \* the files being evaluated, each inside a script of the one before
          calls,      \* the calls made
          trace,      \* what was written, and included, in this order
          procedures, \* stored_procedures is not NULL
          dbs,        \* every database_struct made
          db, lins,   \* the one query() uses, and lins_database; 0 for NULL
          asked,      \* every query: whose it was and on which connection
          live,       \* the results of libpq that were not cleared, by their query
          socket      \* a script has a datagram socket

parseVars == <<source, o, l, parsed>>
pageVars  == <<jump, frames, calls, trace, shown>>
dbVars    == <<procedures, dbs, db, lins, asked, live>>
vars      == <<pc, parseVars, pageVars, dbVars, socket>>

\* The page is a Template: scripts that run, and all that is nested in them, are within
\* one step of it.
Page == INSTANCE Template WITH
          i  <- IF jump THEN frames[1].i ELSE 1,
          pc <- IF pc \in {"scan", "script"} THEN pc
                ELSE IF jump /\ pc \in {"end", "done"} THEN "done" ELSE "eval"

\* A file being evaluated: at mark i, in its script or not, in its n-th call; path is
\* the call that it was included by.
Frame(kind, path) == [kind |-> kind, path |-> path, i |-> 1, n |-> 0, running |-> FALSE]

Top == Last(frames)
SetTop(f) == Append(Front(frames), f)

\* A file of Lua is one script.
MarksOf(f) == IF f.kind = "page" THEN parsed ELSE <<Mark("SCRIPT", 0, 0)>>

Here == Top.path \o <<Top.i, Top.n>>

Init ==
  /\ source \in Source /\ pc = "scan" /\ o = 0 /\ l = 0 /\ parsed = <<>> /\ shown = <<>>
  /\ jump = FALSE /\ frames = <<>> /\ calls = 0 /\ trace = <<>>
  /\ procedures = FALSE /\ dbs = <<>> /\ db = 0 /\ lins = 0 /\ asked = <<>> /\ live = {}
  /\ socket = FALSE

-----------------------------------------------------------------------------
(* The server: load_files(), then PrepareProcedures(). *)

Parse ==
  /\ UNCHANGED <<pageVars, dbVars, socket>>
  /\ pc' \in {"scan", "script", "prepare"}
  /\ Page!ParseStep

\* A connection is made; up: the database answers on it.
Database(by, up) == [by |-> by, open |-> TRUE, up |-> up, res |-> 0]

Asks(by, d, open) == Append(asked, [by |-> by, db |-> d, open |-> open])

\* One query on a connection that is closed again, its result with it but not cleared.
PrepareProcedures ==
  /\ pc = "prepare"
  /\ \E up, rows \in BOOLEAN :
       /\ rows => up
       /\ dbs' = <<[Database("server", up) EXCEPT !.open = FALSE]>>
       /\ procedures' = rows
       /\ live' = IF rows THEN {1} ELSE {}
  /\ db' = 1 /\ asked' = Asks("server", 1, TRUE)
  /\ pc' = "start"
  /\ UNCHANGED <<parseVars, pageVars, lins, socket>>

-----------------------------------------------------------------------------
(* The worker: run_lua_script(). *)

\* init_lua(), ProceduresLua(), and the start of common.lua: over(NULL) crashes, and
\* without a Lua state the page is done.
InitLua ==
  /\ pc = "start"
  /\ lins' = 0
  /\ \/ pc' = "done" /\ UNCHANGED frames
     \/ ~procedures /\ pc' = "crashed" /\ UNCHANGED frames
     \/ procedures /\ pc' = "eval" /\ frames' = <<Frame("lua", <<0>>)>>
  /\ UNCHANGED <<parseVars, jump, calls, trace, shown, procedures, dbs, db, asked, live, socket>>

Evaluating == pc = "eval" /\ frames # <<>>

AtMark(kind) ==
  Evaluating /\ Top.i <= Len(MarksOf(Top)) /\ MarksOf(Top)[Top.i].kind = kind

\* EvalLuaFile() on a text.
ShowText ==
  /\ AtMark("TEXT")
  /\ trace' = Append(trace, [at |-> Here, what |-> "text"])
  /\ shown' = IF Len(frames) = 1 THEN shown \o Page!Offsets(parsed[Top.i]) ELSE shown
  /\ frames' = SetTop([Top EXCEPT !.i = @ + 1])
  /\ UNCHANGED <<pc, parseVars, jump, calls, dbVars, socket>>

\* lua_pcall(): a script begins, unless Lua has too many under way.
EnterScript ==
  /\ AtMark("SCRIPT") /\ ~Top.running /\ Len(frames) <= MaxDepth
  /\ frames' = SetTop([Top EXCEPT !.running = TRUE])
  /\ UNCHANGED <<pc, parseVars, jump, calls, trace, shown, dbVars, socket>>

\* A script returns or fails, or it was never begun: not compiled, or too deep.  An
\* error goes no further than this script.
LeaveScript ==
  /\ AtMark("SCRIPT")
  /\ frames' = SetTop([Top EXCEPT !.i = @ + 1, !.n = 0, !.running = FALSE])
  /\ UNCHANGED <<pc, parseVars, jump, calls, trace, shown, dbVars, socket>>

Evaluated == Evaluating /\ Top.i > Len(MarksOf(Top))

\* The end of an included file: the script that called goes on.
Return ==
  /\ Evaluated /\ Len(frames) > 1
  /\ frames' = Front(frames)
  /\ UNCHANGED <<pc, parseVars, jump, calls, trace, shown, dbVars, socket>>

\* Behind common.lua: query_vars become globals, l_jump is set, and the page begins.
SetJump ==
  /\ Evaluated /\ Len(frames) = 1 /\ ~jump
  /\ jump' = TRUE /\ frames' = <<Frame("page", <<1>>)>>
  /\ UNCHANGED <<pc, parseVars, calls, trace, shown, dbVars, socket>>

\* Mutant: the last mark is taken for the one that ends them.
EndEvalEarly ==
  /\ Evaluating /\ Top.i >= Len(MarksOf(Top)) /\ Len(frames) = 1 /\ jump
  /\ pc' = "end"
  /\ UNCHANGED <<parseVars, pageVars, dbVars, socket>>

EndEval ==
  /\ Evaluated /\ Len(frames) = 1 /\ jump
  /\ pc' = "end"
  /\ UNCHANGED <<parseVars, pageVars, dbVars, socket>>

\* end_lua(): close_database() forgets the result and does not clear it.
EndLua ==
  /\ pc = "end"
  /\ dbs' = IF lins = 0 THEN dbs ELSE [dbs EXCEPT ![lins].open = FALSE, ![lins].res = 0]
  /\ pc' = "done"
  /\ UNCHANGED <<parseVars, pageVars, procedures, db, lins, asked, live, socket>>

-----------------------------------------------------------------------------
(* The calls a script makes. *)

MayCall == Evaluating /\ Top.running /\ calls < MaxCalls /\ source \in Acting

\* The call, and the script that has made it.
Call   == Top.path \o <<Top.i, Top.n + 1>>
Called == [Top EXCEPT !.n = @ + 1]

\* debug(), header() and the like, and all that find nothing, change nothing here.
PlainCall ==
  /\ MayCall
  /\ calls' = calls + 1 /\ frames' = SetTop(Called)
  /\ UNCHANGED <<pc, parseVars, jump, trace, shown, dbVars, socket>>

PrintLua ==
  /\ MayCall
  /\ calls' = calls + 1 /\ frames' = SetTop(Called)
  /\ trace' = Append(trace, [at |-> Call, what |-> "print"])
  /\ UNCHANGED <<pc, parseVars, jump, shown, dbVars, socket>>

\* Mutant: one index for all files.
IncludeLuaShared ==
  /\ MayCall
  /\ calls' = calls + 1
  /\ frames' = Append(SetTop(Called), [Frame("page", Call) EXCEPT !.i = Top.i])
  /\ trace' = Append(trace, [at |-> Call, what |-> "include"])
  /\ UNCHANGED <<pc, parseVars, jump, shown, dbVars, socket>>

\* load() finds the page: EvalLuaFile() inside of EvalLuaFile().
IncludeLua ==
  /\ MayCall
  /\ calls' = calls + 1
  /\ frames' = Append(SetTop(Called), Frame("page", Call))
  /\ trace' = Append(trace, [at |-> Call, what |-> "include"])
  /\ UNCHANGED <<pc, parseVars, jump, shown, dbVars, socket>>

UseLua ==
  /\ MayCall
  /\ calls' = calls + 1
  /\ frames' = Append(SetTop(Called), Frame("lua", Call))
  /\ UNCHANGED <<pc, parseVars, jump, trace, shown, dbVars, socket>>

\* Where longjmp(l_jump) leads: nowhere before setjmp().
Jumped == IF jump THEN "end" ELSE "crashed"

ExitLua ==
  /\ MayCall
  /\ pc' = Jumped
  /\ UNCHANGED <<parseVars, pageVars, dbVars, socket>>

\* lookup() crashes on an unknown host.  Connected or not, the request is not sent: the
\* script is left like by exit(), and the worker ends before its loop.
PostHTTPLua ==
  /\ MayCall
  /\ pc' \in {Jumped, "crashed"}
  /\ UNCHANGED <<parseVars, pageVars, dbVars, socket>>

\* query() on ds[d]: the result before it is cleared, and the new one kept if it has rows.
Query(ds, d, rows) ==
  LET id == Len(asked) + 1
  IN /\ asked' = Asks("worker", d, ds[d].open)
     /\ dbs' = [ds EXCEPT ![d].res = IF rows THEN id ELSE 0]
     /\ live' = (live \ {ds[d].res}) \cup (IF rows THEN {id} ELSE {})

\* Mutant: the database inherited from the server is taken for a connection.
QueryLuaInherited ==
  /\ MayCall
  /\ LET ds == IF db = 0 THEN Append(dbs, Database("worker", TRUE)) ELSE dbs
     IN /\ db' = Len(ds) /\ lins' = Len(ds)
        /\ \E rows \in BOOLEAN :
             /\ rows => ds[db'].open /\ ds[db'].up
             /\ Query(ds, db', rows)
  /\ calls' = calls + 1 /\ frames' = SetTop(Called)
  /\ UNCHANGED <<pc, parseVars, jump, trace, shown, procedures, socket>>

\* QueryLua() and the stored procedures, DBClosureLua(): the first of them connects, and
\* the connection may fail, or be lost, or the query.
QueryLua ==
  /\ MayCall
  /\ \E up, rows \in BOOLEAN :
       LET ds == IF lins = 0 THEN Append(dbs, Database("worker", up)) ELSE dbs
       IN /\ rows => ds[Len(ds)].open /\ ds[Len(ds)].up
          /\ db' = Len(ds) /\ lins' = Len(ds)
          /\ Query(ds, Len(ds), rows)
  /\ calls' = calls + 1 /\ frames' = SetTop(Called)
  /\ UNCHANGED <<pc, parseVars, jump, trace, shown, procedures, socket>>

SocketLua ==
  /\ MayCall
  /\ \/ pc' = "crashed" /\ UNCHANGED <<calls, frames, socket>>
     \/ pc' = pc /\ socket' = TRUE /\ calls' = calls + 1 /\ frames' = SetTop(Called)
  /\ UNCHANGED <<parseVars, jump, trace, shown, dbVars>>

\* What a script passes to send() and receive() is taken for its socket, nothing too.
SendLua ==
  /\ MayCall
  /\ \/ pc' = "crashed" /\ UNCHANGED <<calls, frames>>
     \/ socket /\ pc' = pc /\ calls' = calls + 1 /\ frames' = SetTop(Called)
  /\ UNCHANGED <<parseVars, jump, trace, shown, dbVars, socket>>

\* socket_recv() blocks, without a timeout; SIGALRM does not end it.
ReceiveLua ==
  /\ MayCall
  /\ \/ pc' = "crashed" /\ UNCHANGED <<calls, frames>>
     \/ socket /\ pc' = "size" /\ calls' = calls + 1 /\ frames' = SetTop(Called)
  /\ UNCHANGED <<parseVars, jump, trace, shown, dbVars, socket>>

\* The first bytes of a datagram are the size of the next; too large a size ends in a crash.
ReceiveSize ==
  /\ pc = "size" /\ pc' \in {"datagram", "crashed"}
  /\ UNCHANGED <<parseVars, pageVars, dbVars, socket>>

ReceiveData ==
  /\ pc = "datagram" /\ pc' = "eval"
  /\ UNCHANGED <<parseVars, pageVars, dbVars, socket>>

-----------------------------------------------------------------------------
Calls ==
  \/ PlainCall \/ PrintLua \/ IncludeLua \/ UseLua \/ ExitLua \/ PostHTTPLua
  \/ QueryLua \/ SocketLua \/ SendLua \/ ReceiveLua

Next ==
  \/ Parse \/ PrepareProcedures \/ InitLua \/ ShowText \/ EnterScript \/ LeaveScript
  \/ Return \/ SetJump \/ EndEval \/ EndLua \/ Calls \/ ReceiveSize \/ ReceiveData

Spec == Init /\ [][Next]_vars

-----------------------------------------------------------------------------
(* Properties. *)

Frames    == [kind : {"page", "lua"}, path : Seq(Nat), i : Nat \ {0}, n : Nat, running : BOOLEAN]
Databases == [by : {"server", "worker"}, open : BOOLEAN, up : BOOLEAN, res : Nat]
Queries   == [by : {"server", "worker"}, db : Nat, open : BOOLEAN]
Traced    == [at : Seq(Nat), what : {"text", "print", "include"}]

\* The variables of the page itself have the types of Template.
TypeOK ==
  /\ pc \in {"scan", "script", "prepare", "start", "eval", "size", "datagram", "end", "done", "crashed"}
  /\ jump \in BOOLEAN /\ procedures \in BOOLEAN /\ socket \in BOOLEAN
  /\ frames \in Seq(Frames) /\ calls \in 0..MaxCalls /\ trace \in Seq(Traced)
  /\ dbs \in Seq(Databases) /\ db \in 0..Len(dbs) /\ lins \in 0..Len(dbs)
  /\ asked \in Seq(Queries) /\ live \subseteq 1..Len(asked)

\* Of Template, for the pages here.
MarksKept == Page!MarksKept
Divided   == Page!Divided

\* Whatever its scripts do, include, and fail at, the texts of the page itself come in
\* the order of the file, none twice and none left out before the page ends or a script
\* of it leaves for good (lws.c:63-77, 449-452).
ImplementsTemplate == Page!Spec

\* p comes before q: at the first place where they differ, or as its caller.
Before(p, q) ==
  \/ IsStrictPrefix(p, q)
  \/ \E k \in 1..Len(p) :
       /\ k <= Len(q) /\ p[k] < q[k]
       /\ SubSeq(p, 1, k - 1) = SubSeq(q, 1, k - 1)

WrittenAt == {trace[k].at : k \in 1..Len(trace)}

\* Of the page whose evaluation has the path p, every text before mark i was written.
TextsUpTo(p, i) ==
  \A m \in 1..Len(parsed) : m < i /\ parsed[m].kind = "TEXT" => p \o <<m, 0>> \in WrittenAt

\* What is written is in the order in which a reader of the pages comes to it, and a
\* script goes on behind include() only when all of that page is written, whatever has
\* failed in it (lws.c:63-77, 127-139).
InPlace ==
  /\ \A j, k \in 1..Len(trace) : j < k => Before(trace[j].at, trace[k].at)
  /\ \A k \in 1..Len(frames) : frames[k].kind = "page" => TextsUpTo(frames[k].path, frames[k].i)
  /\ \A k \in 1..Len(trace) :
       trace[k].what = "include" /\ ~IsPrefix(trace[k].at, Here) =>
         TextsUpTo(trace[k].at, Len(parsed) + 1)

\* However many pages and procedures ask, a worker makes one connection (lws.c:182,
\* lua_db.c:31); it never asks on the one the server had before fork().
OneConnection ==
  /\ \A j, k \in 1..Len(dbs) : dbs[j].by = "worker" /\ dbs[k].by = "worker" => j = k
  /\ \A k \in 1..Len(asked) : asked[k].open /\ dbs[asked[k].db].by = asked[k].by

\* No more than the last result of a worker is kept (database.c:19); what it had at its
\* end, and what the server had, is never cleared.
ResultsCleared ==
  pc # "done" =>
    \A r \in live : asked[r].by = "worker" => r = dbs[db].res

\* A worker that is done with its page, also by exit(), has closed it (lws.c:449-453).
ClosedAtEnd == pc = "done" => \A k \in 1..Len(dbs) : ~dbs[k].open

DatabaseKept == OneConnection /\ ResultsCleared /\ ClosedAtEnd
=============================================================================
