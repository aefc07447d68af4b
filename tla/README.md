# Verification of Jawas

Jawas is a small web application server in C: one process accepts nothing itself
but forks a worker for every report that its listening socket is readable, the
worker serves one connection and exits, and a monitor starts the server again
when it dies. Everything a worker allocates lives in one region that goes with
the process. This directory holds TLA+ models of that code, the TLC
configurations that check them, and TLAPS proofs about them.

## Inventory

| component | state | operations | interacts with |
|---|---|---|---|
| server (`server.c`, `events.c`, `bsd.c`, `signals.c`) | `server.procs`, `server.done`, the kqueue | `watch`, `server_poll`, `incoming`, `wait_proc`, signal handlers | workers (fork, exit, `EVFILT_PROC` knotes), kernel (listen queue), monitor (signals) |
| worker, request half (`client.c`, `requests.c`, `transfer.c`, `timers.c`, `read_socket`) | `client`, its kqueue, buffer, retries, timer | `handle`, `client_poll`, `read_request`, `process_request`, `retry_request` | peer (bytes, close, reset), timer, response half |
| worker, response half (`responses.c`, `status.c`, `script.c`, `image.c`, `lws.c`, the writes of `sockets.c`) | `socket->closed`, offset in the body | `send_status`, `send_headers`, the handlers, `write_chunk`, `end_response` | peer (send buffer), file cache |
| monitor (`daemon.c`, `jawasd.c`) | `child`, `murder`, `done`, `jawas.pid` | `demon`, `kill_all`, `restart_child`, `jawasd -r` | server (fork, waitpid, signals of the group) |
| file cache (`files.c`, `mime.c`, `index.c`) | `server.files`, mappings, vnode knotes | `load_files`, `open_file`, `reload`, `load` | server (reload), workers (a copy each) |
| templates and scripts (`parse_file`, `lws.c`) | marks; the files under evaluation, `l_jump` | parse at load, `run_lua_script` per request, the functions scripts are given | file cache, response half, database, Lua |
| head of a request (`headers.c`, `parse_*` of `requests.c`) | header slots, body offset | `parse_headers`, `find_header`, `parse_method`, `parse_path` | request half |
| region and strings (`memory.c`, `str.c`) | `memory->offset` | `reserve`, `advance`, `blank`, `append`, `new_str` | everything |
| URI, form and JSON decoding (`uri.c`, `forms.c`, `lua_json.c`) | none | parsers | request half, Lua |
| database (`database.c`, `lua_db.c`) | connections, their results, `lins_database`, `stored_procedures` | `query`, `close_database`, `PrepareProcedures`, `DBClosureLua` | server (before `fork()`), scripts, libpq |
| TLS, digests, names, log, dates, usage | - | wrappers and formatting | - |

What is hard about it, and what makes each part correct:

* **Server.** The socket's report is level-triggered and `accept()` is the
  worker's, so forks, exits, reaping and signals interleave. `server.procs` is
  a counter kept by hand. Correct: it is exact, it bounds the pool, a full pool
  empties again, connections are served in order, SIGHUP clears everything.
* **Worker, request.** A request comes in any pieces; the peer may close, reset
  or fall silent; knotes are one-shot and `client.event` must match the knote.
  Correct: no byte lost, no early answer, no drop but by the timer, an end.
* **Worker, response.** Writes do not block; each may be short or refused.
  Correct: what is on the wire is a prefix of the answer, and an answer that was
  broken off does not look complete.
* **Scripts.** A page includes pages from inside of its scripts, a script may fail
  or leave everything by `longjmp()`, and the worker inherits the database handle
  of the server. Correct: what is written is in the order of the pages, an error
  costs one script, a worker has one connection of its own and closes it.
* **Monitor.** Handlers survive `fork()`, processes share a group, any of them
  may die between two steps. Correct: one monitor, one server, a crash is
  recovered, a stop stops everything.

## Modules

| module | models | extends / used by |
|---|---|---|
| `Service` | what server and workers promise: a FIFO line served by at most `MaxProcs` | instantiated by `Server` |
| `Server` | server process, worker life cycle, kernel side of sockets, knotes and zombies, signals | `ServerProofs` |
| `Client` | one worker from `accept()` to its end, its peer and its timer | `MCClient`, `ClientProofs` |
| `Respond` | every `write()` of a response and the peer's send buffer | `MCRespond`, `WorkerProofs` |
| `Pages` | the files `parse_file()` is given, and the room for their marks | `Template`, `Script` |
| `Template` | one file through `parse_file()` and `EvalLuaFile()`, scripts as black boxes | instantiated by `Script`; `TemplateProofs` |
| `Script` | a page in a worker: `PrepareProcedures()` in the server, `run_lua_script()`, every function scripts are given, the connections to the database | `MCScript`, `ScriptProofs` |
| `Query` | the text of a query: `query()` of a script, `DBClosureLua()` | `MCReaders` |
| `Head` | one part of one message through `parse_headers()`, `print_headers()`, `request_headers()`, `parse_method()`, `parse_path()` | `MCHead`, `HeadProofs` |
| `FileCache` | `load_files()`, `reload()`, a worker's lookup, and the files, descriptors and addresses they go by | `MCFileCache`, `FileCacheProofs` |
| `Routes` | the path from a request to its file and handler: `deauth_path()`, `get_index()`, `get_method()`, `lookup_mimetype()` | `MCReaders` |
| `Uri` | form fields: `uri_encode()`, `uri_decode()`, `parse_uri_encoded()` | `Dispatch`, `MCReaders` |
| `Json` | `parse_json_string()` and what it calls, to a Lua value | `MCReaders` |
| `Dispatch` | what a whole request asks for: `parse_host()`, `inbound_content_length()`, `dispatch_method()`, `post_method()`, and the numbers, comparisons and lookups below them | `MCReaders` |
| `Region` | allocation from `memory` and the strings that refer to it: `reserve()`, `blank()`, `new_str()`, `ref()`, `from()`, `append()`, `read_socket()` | `WorkerProofs` |
| `Daemon` | monitor, server start and stop, operator's signals, pid file, idle workers as holders of the port | `DaemonProofs` |
| `ServerProofs`, `ClientProofs`, `TemplateProofs`, `ScriptProofs`, `WorkerProofs`, `DaemonProofs`, `FileCacheProofs`, `HeadProofs` | theorems | `ScriptProofs` instantiates `TemplateProofs` |

### Server

`pc` is the point of the server process: `loop` (the test of `server.done`),
`enter`/`poll` (before and in `kevent64()`), `next` (the loop of
`poll_events()`), `wait`/`count` (the two halves of an iteration of
`wait_proc()`: `waitpid()`, then the test of `server.done` and the decrement),
`act` (the branch of `server_poll()`), `monitor` (between `fork()` and
`add_pid_monitor()`), `exited`. Splitting the steps there is what lets signals,
exits and accepts fall between them. A worker is `free` (no such process),
`idle` (blocked in `accept()`), `serving`, `stuck` or `zombie`. `Hang` is a serving
worker that nothing will end: its alarm was lost (`AlarmLost` of `Client`), or a
script of it waits for a datagram; `Woken` is the event that ends it after all, and
nothing owes it. `watched` and `fired` are
its `EVFILT_PROC` knote before and after the exit; a worker that is already a
zombie when the knote is added never gets one. The listen queue is a sequence,
and `Accept` takes its head, whichever idle worker gets it. `AcceptFails` is a peer
that gave up before (ECONNABORTED): `accept_socket()` returns NULL, `handle()` follows
it, and the worker is gone. Other errors of `accept()` (no descriptor, no memory) are
left out. The name of an accepted
connection is free again, so a run sees any number of them. `ServerExit` drops what
goes with the process, its memory and its kqueue, and leaves its workers alone.

SIGTERM ends the server at once and alone; SIGHUP sets `done`, and the
`kill(0,SIGTERM)` at the end of `serve()` ends it before the `goto restart`, so
nothing behind line 108 of `server.c` is ever executed. This is modelled as it
is.

Knotes of files may fire (`Touch`), and the server goes through `reload()`;
what `reload()` does to the cache is the subject of `FileCache`. `add_event()`
sets no `NOTE_` flag for them, so no property relies on a file knote firing.

### Client

A request is given by its size, where its head ends, its `Content-Length`, and
what `parse_headers()` makes of each of its prefixes, since the parser is run on
the whole buffer after every read. Three kinds of prefix make the worker crash:
`print_headers()` is called in a `debug()` before the result is checked, on a
NULL list, on a list without headers, and on a header whose value has not
arrived (`ParseCrashes`). `ReadEnds` stands for EAGAIN and for end of file
alike: the `for` of `read_socket()` ends on a read of 0 bytes before its body
can mark the socket closed. A peer that closes thus does not end its worker; the
timer does. Until then the worker reads again and again, and clones its buffer each time;
that it may reach the end of its region before the timer expires is not modelled. `Loop`/`EnterPoll`/`Poll` keep the window apart in which SIGALRM
interrupts nothing.

### Respond

The wire is a sequence of symbols: the status line, a write of the headers, the size line
of a chunk, a byte, the line end behind a chunk. `send_headers()` writes four times for a
header and once for the empty line, so there are `HeadWrites` of them, and a full buffer
or a reset may come between any two. A symbol carries its place: the piece, the offset of
the chunk in it, and which symbol of the chunk it is; the head comes before the pieces and
the last chunk behind them. The code has no such places, and no action reads them off the
wire; they let `Encoding` be a set with an order (`Earlier`), and `WireExact` say
that the wire is this set up to some point. `WriteToSocket` takes what fits in the send
buffer; a write that finds no room, or no peer, sets `closed`, and from then on
nothing is written. A body is a list of pieces: a mapped file (whose loop adds
up what was written), a text of a template (one chunk, whatever its length) and
a `print` of a script (chunks of `MAX_WRITE_SIZE`, counted by what was asked
for). The three differ in when they stop, and `MoreOfPiece`, `Advance` say so. `sent` is what
`write_chunk()` returns.

### Daemon

Processes carry their handlers across `fork()`. `Detach` is the fork by which a
monitor replaces itself, `ForkServer` the one that makes the server. Both may fail, and
-1 is not 0: after `DetachFails` the old monitor exits and there is no new one; after
`ForkServerFails` the process goes on as the monitor of a child that does not exist
(`Failed`). It writes the pid file, installs its handlers, `waitpid(-1)` fails at once,
and it starts over, without the second's sleep of a monitor that waits. As long as that
fork keeps failing, processes come and go and none serves: `CrashRecovered` names this
exception (`ForkingFails`). A SIGHUP to such a monitor is `kill(-1,SIGHUP)`, which
reaches every process of the user but the one that sends it (`RestartChild`). A process
handles a pending signal before its next step. `Exit` makes a zombie of a server
whose monitor lives. `idle` stands for the workers of module `Server` that still
hold the listening socket; it is what makes `bind()` fail.

### FileCache

`disk` is what a name leads to, `inodes` what was ever there. `fdtab` and `vm`
are the server's descriptors and mappings; a descriptor that is free is given out
again, the lowest first, and an address may be. `cache` is `server.files`, entries
in the order of `fts_read()`. An entry holds a descriptor, an address and a size,
and the offsets `parse_file()` left (only their bound, `marks`). `armed` and
`fired` are the knotes of descriptors, `batch` the events that one `kevent64()`
has handed over: `Reload` of one of them closes and opens descriptors while the
others wait. `Lost` is `reload()` of a file that is gone, `Null` what `open_file()`
returns for one. A worker is a copy of `cache` and `vm` (`Fork`) and one lookup
(`Serve`). It may find less behind an address than it means to read: then it
breaks off (`write()` fails) or, in Lua, crashes. `RightContent` leaves out the
entries of missing files, whose address another file may have by now.

### Routes

Pure functions. A path is its segments, a segment its parts, so that `a` and
`index.html` glued together differ from `index.html` in `a`. A site is what
`stat()` finds and, apart from that, what the cache holds: they differ when files
come and go. The host is the root of the site. Names of files, for
`lookup_mimetype()`, are sequences of characters.

### Uri, Json, Dispatch

Pure functions too; `MCReaders` asks them, and `Routes`, one question per behaviour.
Texts are sequences of bytes, or of the characters a reader tells apart, with
offsets from 0 as in the code. `find()` in `parse_uri_encoded()` is given a length of
1, so only `&` ends a value, not the end of the line. The readers of `Json` hand
their offset to each other as the code does by `*o`, and `QuotedString` keeps the
bytes that a backslash leaves unset. In `Dispatch` a name is a word in a spelling:
`cmp()` minds the spelling (names of headers), `strncasecmp()` does not (methods).
An `int` has `IntBits` bits. The references are not the code's: a form is what it was
before `Encoded`, a document has its own `Meaning`, and a request is given by what
its sender means (`Sent`).

### Region

Addresses are offsets into the region; `live` are the strings the program still uses,
each with the place of its header and of its text. The contents of the bytes are
left out: an action says which bytes it writes, and a string that is hit is
`damaged`. `AppendInPlace` is the case in which the header of the second string is
where the text of the first one ends: the text is copied over that header, and
`memory->offset` stays. A text of up to a header's length fits where the header was;
a longer one goes on behind what is reserved, and sets `long`. That the caller of
`append()` is done with both strings is how the code uses it. The region stops at
`Limit`, although `reserve()` does not look.

### Template

A file is a sequence of the symbols the parser tells apart. `o` and `l` are the
locals of `parse_file()`, and `pc` says whether the outer loop (`scan`) or the
search for the closing mark (`script`) runs. `l` is used for two things: the
offset of the text between two scripts, and, inside one, the length searched so
far. `CloseScript` restores it as an offset; `Unclosed` does not, which is why
`Divided` asks for files whose scripts are closed (`Paired`), while `MarksKept` is
stated, and proved, without that: no mark leads out of the file (`MarksInside`), and
a file with room for two marks per opening delimiter keeps its marks in the page
that was reserved for them (`MarksFit`), although `mark_file()` does not look.
`shown` is what `EvalLuaFile()` wrote, as offsets into the file.

### Script

A page is parsed (`Page!ParseStep`), the server asks the database once for its
stored procedures, and a worker runs `common.lua` and then the page. `frames` are
the files under evaluation, each inside a script of the one before; a file of Lua
(`use()`, and `common.lua` itself) is one script. What a script computes is left
out: it makes any calls in any order, up to `MaxCalls`, and returns or fails
wherever it likes. What it passes to `send()` and `receive()` is taken for its socket,
so both crash on nothing and go on only if there is a socket (`SendLua`, `ReceiveLua`). `LeaveScript` is return and failure alike, since `lua_pcall()`
lets an error go no further. `jump` says whether `setjmp()` was called: `exit()` and
`post()` lead behind the page, or, from `common.lua`, nowhere. `trace` gives
everything written a place, the path of the calls that led there. `dbs` are the
connections ever made; `db` is the one `query()` uses, inherited from the server and
closed, and `lins` the worker's own; `live` are results of libpq that nobody
cleared. All names included are one page with the marks of the outer one, which is
enough for the order; `Acting` names the pages whose scripts do anything.

`Page` is the refinement mapping: the outermost frame is the index of a `Template`,
and everything nested in one of its scripts is within a step of it.

### Query

Pure functions on texts in which quotes and question marks are told apart.
`SingleQuote` doubles quotes (what `PQescapeStringConn()` does); `QueryText` puts a
value for every question mark but one that is the first character, and one argument
more than there are, as the code does; `ProcedureText` is what `DBClosureLua()` sends.

What is behind the last value needs care. `append()` (`lws.c:195`) finds the reference
that `from()` has just made right behind the text built so far, and copies the rest over
it, in place: the 16 bytes of that header are reserved, nothing behind them is
(`str.c:101-105`). Before `query()` copies the text, `dblog()` and `blank()`
(`database.c:20-21`) put the headers of their own texts there. `Landed` is what arrives:
a rest of up to a header's length whole; of a longer one the first `Header` characters
and then the length of the logged text, whose zero bytes end the query for libpq (one
symbol stands for its bytes). A text without a value is its own rest and not copied; the
other calls of `append()` are not in place, or, for the bracket at the end of a
procedure, of one character.

`QueryBuilt` reads what arrives by the rules of SQL for literals (`Reading` in
`MCReaders`) and compares it with the statement the script meant: the parts of its text,
and the values as literals between them. Arguments of procedures are quoted but not
escaped, so for them it is stated of texts without quotes. A longer rest is an open
exception: then the statement is right up to the first `Header` characters of the rest,
and wrong behind them.

### Head

A message is given by its bytes and by the spans of its parts; `buf` is any
prefix of it. `MessageAssumption` says what a message is, and TLC evaluates it on those
of the runs: a request line, at least one header, names and values that are not empty,
and behind a head whose lines end in one byte nothing more, since the parser takes
the first bytes of a body for the end of such a head. Requests without headers and
values that are empty are left out: what the code does with them is among the
observations below. Every step of `Head` is an iteration of the loop of
`parse_headers()`, with the inner loops as searches (`Find`). `pc = "done"` is a
head that was printed and got its `peer` header; `crashed` is `print_headers()`
on nothing or on a header without value; `halted` is `free_header_slot()`.
`HeadFound` is what `Client` assumes of the requests it is given: the head is
complete for the parser exactly when its last byte has been read. `Client` in
turn lets the parser crash on shorter prefixes, and `WholeHeadSurvives` says that it
never does on a whole head.

## Runs

| run | specification | bounds | what it shows |
|---|---|---|---|
| `server` | `FairSpec` | 3 pids, pool of 2, queue of 1, one waiting connection at a time and any number after it, 1 file, all faults, hanging workers among them | `PoolBounded`, `ProcsExact`, refinement of `Service`, `EveryConnServed`, `ExitReaped`, `RestartClears` |
| `client_worker` | `FairSpec` | six requests of up to 9 bytes, buffer 3, 2 retries | safety of a worker, `WorkerEnds`, `RequestAnswered` |
| `respond` | `FairSpec` | seven answers, chunks of 2, send buffer of 4 | `WireExact`, `FileWhole`, `ResponseEnds` |
| `scripts` | `Spec` | every file of up to five tokens (delimiters, their parts, bytes, byte 0), room for four marks; two of them with scripts that make up to four calls, two deep | `MarksKept`, `Divided`, `InPlace`, `DatabaseKept`, refinement of `Template` |
| `head` | `FairSpec` | every prefix of messages with one to four headers, lines ending in `\r\n` or in `\n`, three slots | `HeadFound`, `NoWrongHeader`, `WholeHeadSurvives`, `RequestLineRead`, `ParseEnds` |
| `head_spaces` | `Spec` | messages with spaces before the method | finding, below |
| `file_cache` | `FairSpec` | a page and a template of up to two bytes, pages of two, two addresses, two descriptors, two changes of the disk | `EntriesHold`, `EventsHitEntries`, `RightContent`, `OnlyKnownCrashes`, `EventReloads` |
| `readers` | `Spec` | eleven paths; two directories, two indexes, every subset of six files on the disk and in the cache; names of up to five characters; forms of a field of up to two bytes or two of one, from nine bytes; JSON documents of depth three; requests with every combination of host, port, spelling, method, type, order of headers and parameters; ints of 8 bits; queries and procedures with up to two values of up to two characters, and a rest of one to four characters behind the last, with headers of two | `RightAnswer`, `FormRead`, `JsonRead`, `RequestUnderstood`, `QueryBuilt` |
| `region` | `RegionSpec` | headers of 2 bytes, texts of up to 3, a region of 12 | `LiveIntact` |
| `daemon` | `FairSpec` | 3 pids, 2 signals, 2 crashes, all faults | `OneOfEach`, `PidfileNamesMonitor`, `StopStops`, `CrashRecovered` |
| `daemon_restart` | `FairSpec` | 1 SIGHUP | finding, below |
| `daemon_orphans` | `FairSpec` | 1 crash | finding, below |

Why the bounds are enough. A pool of two with one spare pid lets a worker be
reaped, its pid be reused, and the counter be wrong in both directions, and both
workers of the pool hang; the order of a longer queue, and all safety of the server,
is proved for every bound. Requests have every kind of prefix, a body that
is exact, short, and long by one, and reads both smaller and larger than the
buffer. Answers have a file of less than a chunk, of whole chunks and of one
byte more, and the send buffer is smaller than any complete answer, so a write is
cut or refused at every place. Three pids are the most that a monitor, its
successor and a server need at once. Five tokens are two scripts with a text
before, between or behind them, a script in a script, and every script that is
left open; with room for four marks some of these fill the page and some do not fit.
The pages that act have a text on either side of a script, and two scripts with a text
behind them; four calls let a script include a page whose scripts include, query and
print in turn, and the third level is the one that Lua refuses. With three slots, messages have fewer headers than slots, as many,
and one more; names and values have one byte and several, with and without
spaces, colons and `?` in them.

With as many addresses and descriptors as files, every one that `reload()` frees
is wanted by the next; sizes are nothing, less than a page and a whole page; two
changes are enough for both files to be replaced, or for one to be replaced and
removed or cut, before, between and behind the events. The paths of `readers` have
one token or two, a directory below the root or below another, a slash at the end
and two in a row; its forms have each delimiter inside, at the start and at the end of
a key and a value; its documents have brackets, commas and colons inside of texts, and
empty texts, arrays and objects at every place. In `region` texts are shorter than a
header, as long and longer, and there is room for four strings of a byte each.

`CHECK_DEADLOCK FALSE` is set where the system really stops: processes exit.

### Fairness

Server: the kernel schedules the server, some idle worker returns from `accept()`
when there is a connection, a serving worker ends or hangs, a signalled one dies. That a
serving worker ends is what `Client` shows (`WorkerEnds`) with the exception of a
lost alarm, and what `Respond` shows for the answer (`ResponseEnds`). The exception,
and a script that waits for a datagram (`ReceiveLua`), are `Hang` in `Server`; nothing
wakes such a worker, so `EveryConnServed` excepts a pool in which all hang.
Head: the worker runs. Client: the worker runs; the peer owes nothing. That the timer of five seconds
expires is a premise of `WorkerEnds` alone (`TimerExpires`), so that
`RequestAnswered` cannot lean on it. Respond: the worker runs; nothing is asked
of the peer. Daemon: every process runs and its signals are delivered; `KillAll`
gets its own weak fairness because a process with two pending signals handles
both. FileCache: the server runs; nobody has to change a file and no knote has to
fire, so `EventReloads` starts where one has.

## Findings

* **`jawasd -r` ends everything** (`daemon_restart`). README:30 of the repository
  says Jawas "always attempts to keep itself alive if you run it with the -d
  detach flag". SIGHUP leads to `kill(0,SIGTERM)` (`server.c:108`), which ends the
  server, its workers, and the monitor by `kill_all()`.
* **A server without a socket** (`daemon_orphans`). After a crash an idle worker
  still holds the port; `open_socket()` (`sockets.c:97-104`) logs the failed
  `bind()` and returns a closed descriptor; the new server runs, deaf, for good,
  and its monitor has no reason to start another.

* **Spaces before the method** (`head_spaces`). `parse_path()` skips them
  (`requests.c:171`, "skip errorenous spaces"), sets `i` back to 0 for its second
  loop, and takes the method for the path.

Observations that contradict no document, and are in the models as they are: a
server inherits `restart_child()` with `child` 0 until it installs its own
handlers, and a SIGHUP then signals the whole group again and again
(`RestartChild`); SIGALRM and SIGHUP between a test and `kevent64()` are lost
(`AlarmLost`, `NoticesDone`); a request split inside its first lines or inside a
header name crashes its worker, as does any chunked request and any request
without headers; a status without a page (405) is answered with a last chunk and
no head; `<?=` is never recognised, since the third byte of an opening mark must be
a space; a script that is not closed makes the text behind it start at a wrong
offset, and a byte 0 ends a template; a head whose lines end in `\n` alone is
complete only after three of them in a row, and loses every second header; an
empty header value takes the next line for its value; exactly 250 headers halt
the worker; an empty text behind the last script of a template is written as a last
chunk; a short write breaks the framing of its chunk; `events.h` defines
`NODE_FLAGS` but `add_event()` passes no `fflags` for vnodes, so under kqueue it is
the kernel's affair whether a changed file is ever reported, and after a report it
is not armed again; marks of a template are kept when it is mapped again
(`RightContent` excepts replaced templates for that); a file that is removed
leaves an entry without a mapping, and one that goes between `fts_read()` and
`open()` a NULL that crashes lookups and `reload()`; an empty template, and one of
whole pages, is read behind its end (`ParseMayCrash`); the number of files is not
compared with `MAX_FILES`; `/a` is answered by `aindex.html` beside the directory
`a` before `a/index.html`; a path that does not exist but ends in a slash gets the
index of its host, with everything before it as the token; `QueryLua`
(`lws.c:195`) appends the rest of a query in place, and a rest of more than 16 bytes
behind the last value, its closing quote included, reaches the database damaged
(`Landed`; `LiveIntact` and `QueryBuilt` except such texts); a monitor whose second
`fork()` fails starts over without a pause; a header name that is not spelled as the source spells it is not found, and
a request without `Host` gets 400; a host without a port whose name begins with a digit
has that number for its port; a number that ends in anything but a digit loses its
sign; `uri_encode()` takes a negative index for bytes above 127; a backslash in a
JSON text leaves a byte unset; an empty JSON text is nil, and as a key it raises an
error of Lua; the multipart reader calls `search()`, which finds any one character of
a boundary, not the boundary.

Of scripts: `exit()` or `post()` in `common.lua` jumps by an `l_jump` that was never
set; when the database does not answer as the server starts, every worker with a page
to evaluate crashes (`over()` of a NULL `stored_procedures`); `db_error()` has nothing
to say after a failed query, whose result is forgotten; `post()` never sends, since
leaving the script ends the worker before its loop; a socket's `receive()` blocks
without a timeout (and without a socket crashes, like `send()`), and its worker holds its place in the pool; `query()` takes a
question mark more than it has values, for which it quotes the text of a pointer, and
overlooks one that is the first character; a template with more marks than a page has
room for is marked behind it (`MarksFit` says which are not); the last result of a
worker, and that of the server, are never cleared.

## Proofs

`ServerProofs` proves, for every pool size, backlog and set of processes,
`TypeOK`, `PoolBounded`, `ProcsExact` and the refinement. The invariant is `IInv`:
besides the type it says how `procs` and the number of unreaped processes relate
at each `pc` (a worker between `waitpid()` and the decrement is owed; after
`done` the counter may only be too high), that `fresh` is an unreaped process
while it is waiting for its monitor, and that the set of processes is finite
whenever it is counted. `ProcsExact` alone is not inductive because of the
`count` step, and `PoolBounded` needs `procs <= MaxProcs` together with the
counter never being too low. The refinement needs `PoolBounded` for the step that
starts serving: an idle worker leaves room under `MaxProcs` for one more busy one.
The assumptions are those named in `Server`.

`ClientProofs` proves `TypeOK`, `BytesConserved`, `AnswerComplete`, `OneArmed` and
`NoSilentDrop` for every set of requests. Its `IInv` adds: bytes read and in
flight together never exceed what was sent, which never exceeds the request; the
knotes armed at each `pc`; `body` is set only when the head is in; an error is
read at most once, so that `MAX_RETRIES` is never reached.

`TemplateProofs` proves `TypeOK`, `MarksKept` and `Divided` for files of every length
and pages of every capacity. Its `IInv` adds what `l` may be: at most the size of the
file between scripts, and inside one a length whose search has not passed the end;
without the second part the step `Unclosed`, which keeps `l`, would leave the invariant.
That the marks fit needs a count: `CountInv` says that there are at most two marks for
every opening delimiter the parser has passed, which is inductive because every step
that adds marks passes one. For `Divided`, `DividedInv` says where the marks made so far
end: at `l` between scripts, with no opening delimiter from there to `o`, or with `o` on
the `>` of the closing mark, one byte behind `l`; and at `o` inside a script. The
hypothesis `Paired` is what rules `Unclosed` out: a script whose end was not found has
none in the file.

`ScriptProofs` proves, for any number of calls and any depth, that `Script` implements
`Template`, and `TypeOK`, `MarksKept`, `Divided`, `InPlace` and `DatabaseKept`. The
refinement rests on `FramesInv`: as long as a script of the page runs, or anything
nested in it, the outermost frame is at a mark of kind `SCRIPT`, and only steps of the
page itself change its index. `MarksKept` and `Divided` then follow from the lemmas of
`TemplateProofs`, instantiated by the same mapping (`PageProofs`). `InPlace` is about
paths, so the first part of its proof shows that `Before` is transitive, and that what
is before a place, or in it, is before every place that a file has gone on to
(`BeforeGoneOn`). `PlaceInv` is the induction: every frame but the first has the path of
the call that its caller is in; everything written is before the place reached or in
it, and strictly before it where no call was made yet, which is where a text is
written; a frame that makes calls is at a mark of kind `SCRIPT`; and a page that was
included is written or still has a frame. `InPlace` alone says nothing of a page whose
end is reached but not left. The invariant about the database (`DbInv`) says that the
server's connection is the first and closed, the worker's, if any, the second and the
one in use, that nothing was asked but of the one who asks, and that a result that is
not cleared belongs to the connection in use.

`WorkerProofs` is about what a worker writes. To its memory: `RegionTypeOK` and `LiveIntact`
for every size of a header, of the region and of texts. `LiveIntact` is not inductive:
`RegionInv` adds `Reserved`, that all that is in use is below `offset`, so that what a call
reserves is nobody's, and `Apart`, that no text leads into a header, so that a text put
over a header hits nothing else; it also rules out that a string with a byte 0 behind its
text is appended to in place.

To its socket: `TypeOK`, `WireExact` and `FileWhole` of `Respond` for every answer, any
number of headers and every size of chunks and send buffer. The worker has a place too, that
of the symbol it writes next (`Here`). `WireInv` says that with an open socket the wire is
all of the encoding before `Here` and nothing else (`UpTo`), and that it has no gap once the
socket is closed. A write then has to be what lies between two values of `Here` (`Put`),
and a step that writes nothing must pass over nothing (`WireStill`). That is where
arithmetic comes in: the next chunk of a file or a print starts at the next multiple of
`MaxWrite`, and no multiple lies in between (`Multiples`); `ChunkInv` says that the worker
is at such a multiple unless a write was cut, and that an uncut write of `write_chunk()`
took everything or closed the socket. `FileWhole` is about what `WireExact` excepts,
answers with cut writes, and needs an invariant of its own: `FileInv` follows the next byte
of the file instead (`Spot`, which moves on with what was sent between the write of the data
and the end of the chunk), and says that a last chunk is on the wire only behind every
byte; a chunk of a file is never empty, so none of its size lines is mistaken for one. The
assumptions are `AnswerAssumption` and `SizesAssumption`.

`DaemonProofs` proves `TypeOK`, `OneOfEach` and `PidfileNamesMonitor` for any number of
processes, crashes and signals. What is missing from them is why a monitor that forks is
the only one who does: `KidIsServer` says that the next server is forked only when none
runs or waits to be reaped, and that `child` of a monitor is the one there is, or
`Failed` when there is none;
`NoServerHandler` that what a monitor inherits are never the handlers of a server, which
would fork another; `PidfileWritten` that the file is rewritten before a monitor installs
its handlers.

`FileCacheProofs` proves `TypeOK`, `EntriesHold`, `EventsHitEntries`, `RightContent` and
`OnlyKnownCrashes` for any number of files, sizes, pages and changes of the disk. The
server never lacks a descriptor because the entries that hold one are fewer than the
names, and names are walked once; that is a pigeonhole argument about finite sets
(`FiniteSetTheorems`). Descriptors and addresses of the entries that are alive are
distinct, which makes the knote of a descriptor that of one entry, and stays so while
`reload()` hands out again what it has just freed. For `RightContent` the invariant
says the same of two caches, the server's with its addresses and the worker's copies of
both (`Fits`): an entry's address leads to its file, which is no shorter than the entry
as long as no file is cut, and its marks are inside unless a file was removed, cut or
replaced. `RoomAssumption` gives every file a descriptor and an address, and
`FailedAssumption` says that `MAP_FAILED` is no address.

`HeadProofs` proves `TypeOK`, `HeadFound`, `NoWrongHeader`, `WholeHeadSurvives` and
`RequestLineRead` for messages of every length, any number of headers and every prefix.
`IInv` relates the loop to the message it reads: with lines that end in `\r\n` it is
between two headers, having counted as many line ends as there are behind the last one
(`Between`), at a colon with a slot for that header (`Named`), or past a search that
found nothing in a prefix (`Cut`), and `Outcome` says how it can end in each case. With
lines that end in one byte the count is off by a line, which is why every second
header is lost; there the invariant (`Few`) says that a slot is only ever filled from a
header of its own. The assumption is `MessageAssumption`.

Every module with a proof has its type invariant proved; those of the others are
stated in them, and their runs spend their time on what could be wrong.

Only model-checked:

* all liveness (`EveryConnServed`, `WorkerEnds`, `ResponseEnds`, `EventReloads` and the like): fairness
  and ENABLED are out of the prover's reach;
* the pure functions that `MCReaders` asks: `Json` and `MCReaders` use RECURSIVE
  operators, the others fold over texts, and what a recursion or a fold computes for every
  input is an induction over data;
* the three findings, which are counterexamples.

## Plan

1. Composition of `Server` and `Client`: every worker a full `Client`. Today the two
   meet in what one assumes of the other: `Server` lets a worker end, hang or die at
   any moment, and `Client` shows that it does one of these.

## Not modelled

TLS is compiled out (`use_tls` is 0). The outbound HTTP half (`write_request`,
`read_response`, `send_request`) cannot be reached: `send_response()` does not
return. The epoll build is not modelled: `linux.c` is not in the tree. What Lua
scripts compute, the rows of a query and the SQL of the repository, the digests of
OpenSSL, formatting of dates and logs, hexadecimal numbers and the control scripts are
left out. So is the multipart reader (`forms.c`): `search()` stops at any one character
of the text it is given, so neither a boundary nor a name is found but by accident, and
the strings cut out between such places mostly have negative lengths; there is no
intended behaviour left in it to state a property about.
