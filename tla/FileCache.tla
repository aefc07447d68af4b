----------------------------- MODULE FileCache -----------------------------
(***************************************************************************)
(* The file cache (files.c): the server opens and maps every file of the   *)
(* site once, reload() maps one of them again when the kqueue reports it,  *)
(* and a worker looks files up in the copy it got by fork().  Meanwhile    *)
(* others replace, rewrite and remove files.                               *)
(*                                                                         *)
(* Descriptors and addresses are the kernel's to give out again as soon as *)
(* they are free; the entries of the cache hold both.                      *)
(***************************************************************************)
EXTENDS Integers, Sequences, FiniteSetsExt

CONSTANTS Name,      \* the files of the site
          Script,    \* those lws_handler() is for
          Addr,      \* where mmap() may put a file
          Fd,        \* descriptors above those of the sockets
          MaxSize,   \* the size of a file, a bound of the model
          PageSize,  \* pages are mapped whole
          Changes    \* how often files are changed, a bound of the model

ASSUME NameAssumption  == IsFiniteSet(Name) /\ Script \subseteq Name
ASSUME RoomAssumption  == IsFiniteSet(Addr) /\ IsFiniteSet(Fd) /\ Fd \subseteq Nat
                          /\ Cardinality(Fd) >= Cardinality(Name)
                          /\ Cardinality(Addr) >= Cardinality(Name)
ASSUME SizesAssumption == MaxSize \in Nat /\ PageSize \in Nat \ {0} /\ Changes \in Nat

VARIABLES pc,       \* the server: "load", "serve", "crashed"
          walk,     \* names fts_read() has still to return
          cache,    \* server.files
          batch,    \* events of poll_events() on files, by descriptor
          fdtab,    \* the inode behind every open descriptor
          vm,       \* the inode mapped at every address
          armed,    \* descriptors with an EVFILT_VNODE knote
          fired,    \* those whose knote has fired and was not retrieved
          disk,     \* the inode of every name
          inodes,   \* what was ever on the disk: its name and its size now
          edits,    \* the kinds of what others did to the files so far
          changes,  \* what they may still do
          forked,   \* a worker is about to look a file up
          wcache, wvm,   \* its copies of cache and vm
          answer    \* what it made of its request

server == <<pc, walk, cache, batch>>
kernel == <<fdtab, vm, armed, fired>>
files  == <<disk, inodes, edits, changes>>
worker == <<forked, wcache, wvm, answer>>
vars   == <<server, kernel, files, worker>>

None   == 0                             \* no inode
NoFd   == -1
Failed == "MAP_FAILED"
Null   == [name |-> "NULL"]             \* open_file() failed
NoAnswer == [kind |-> "none"]

\* MAP_FAILED is no address mmap() gives out.
ASSUME FailedAssumption == Failed \notin Addr

Entry(n, fd, data, size, marks) ==
  [name |-> n, fd |-> fd, data |-> data, size |-> size, marks |-> marks]

Pages(size) == (size + PageSize - 1) \div PageSize
Size(i)     == inodes[i].size
FreeFd(t)   == Min({f \in Fd : t[f] = None})

\* mmap() of inode i: any free address, and MAP_FAILED, which is not 0, for nothing.
Maps(v, i) == IF Size(i) = 0 THEN {Failed} ELSE {a \in Addr : v[a] = None}
Mapped(v, a, i) == IF a = Failed THEN v ELSE [v EXCEPT ![a] = i]

Has(e, n) == e # Null /\ e.name = n

\* Some numbering of the names, for the first inodes.
Names == CHOOSE q \in [1..Cardinality(Name) -> Name] : \A n \in Name : \E i \in DOMAIN q : q[i] = n

Init ==
  /\ \E size \in [Name -> 0..MaxSize] :
     /\ inodes = [i \in 1..Cardinality(Name) |-> [name |-> Names[i], size |-> size[Names[i]]]]
     /\ disk = [n \in Name |-> CHOOSE i \in DOMAIN Names : Names[i] = n]
  /\ pc = "load" /\ walk = Name /\ cache = <<>> /\ batch = {}
  /\ fdtab = [f \in Fd |-> None] /\ vm = [a \in Addr |-> None]
  /\ armed = {} /\ fired = {} /\ edits = {} /\ changes = Changes
  /\ forked = FALSE /\ wcache = <<>> /\ wvm = vm /\ answer = NoAnswer

-----------------------------------------------------------------------------
(* load_files(): load_directory(), open_file(). *)

\* The file has gone since fts_read() saw it: the NULL goes into the cache.  fts_read()
\* also returns links that lead nowhere.
OpenFails(n) ==
  /\ pc = "load" /\ n \in walk /\ disk[n] = None
  /\ cache' = Append(cache, Null)
  /\ walk' = walk \ {n}
  /\ UNCHANGED <<pc, batch, kernel, files, worker>>

\* Mutant: every file is parsed.
ParseMayCrashAny(n, i) == Size(i) % PageSize = 0

\* parse_file() reads the byte behind the file before it compares sizes: that is beyond
\* the mapping of whole pages, and so is the first byte of nothing.
ParseMayCrash(n, i) == n \in Script /\ Size(i) % PageSize = 0
ParseCrashes(n, i)  == n \in Script /\ Size(i) = 0

OpenFile(n) ==
  /\ pc = "load" /\ n \in walk /\ disk[n] # None
  /\ ~ParseCrashes(n, disk[n])
  /\ LET fd == FreeFd(fdtab)
         i  == disk[n]
     IN /\ fdtab' = [fdtab EXCEPT ![fd] = i]
        /\ \E a \in Maps(vm, i) :
           /\ vm' = Mapped(vm, a, i)
           /\ cache' = Append(cache, Entry(n, fd, a, Size(i), IF n \in Script THEN Size(i) ELSE 0))
        /\ armed' = armed \cup {fd}
  /\ walk' = walk \ {n}
  /\ UNCHANGED <<pc, batch, fired, files, worker>>

OpenCrashes(n) ==
  /\ pc = "load" /\ n \in walk /\ disk[n] # None
  /\ ParseMayCrash(n, disk[n])
  /\ pc' = "crashed"
  /\ UNCHANGED <<walk, cache, batch, kernel, files, worker>>

EndLoad ==
  /\ pc = "load" /\ walk = {}
  /\ pc' = "serve"
  /\ UNCHANGED <<walk, cache, batch, kernel, files, worker>>

-----------------------------------------------------------------------------
(* server_poll() on a file: reload(). *)

\* Mutant: poll_events() hands over the first event only.
PollOne ==
  /\ pc = "serve" /\ batch = {} /\ fired # {}
  /\ \E f \in fired : batch' = {f}
  /\ fired' = {}
  /\ UNCHANGED <<pc, walk, cache, fdtab, vm, armed, files, worker>>

\* One kevent64() takes every knote that has fired, each for good.
Poll ==
  /\ pc = "serve" /\ batch = {} /\ fired # {}
  /\ batch' = fired /\ fired' = {}
  /\ UNCHANGED <<pc, walk, cache, fdtab, vm, armed, files, worker>>

\* The loop looks at every entry, at a NULL among them too.
ReloadCrashes ==
  /\ pc = "serve" /\ batch # {}
  /\ \E k \in 1..Len(cache) : cache[k] = Null
  /\ pc' = "crashed"
  /\ UNCHANGED <<walk, cache, batch, kernel, files, worker>>

\* munmap() and close(): the address and the descriptor are free, its knote is gone.
Unmapped(e) == IF e.data = Failed THEN vm ELSE [vm EXCEPT ![e.data] = None]
Closed(e)   == [fdtab EXCEPT ![e.fd] = None]

\* The last entry with that descriptor.
Matches(f) == {k \in 1..Len(cache) : cache[k].fd = f}

\* Mutant: fc->fd is assigned only when open() succeeds.
LostKeepsFd(k) ==
  /\ cache' = cache
  /\ fdtab' = Closed(cache[k]) /\ vm' = Unmapped(cache[k])

\* What reload() puts in the place of entry k, and the descriptors and addresses then.
Lost(k) ==
  /\ cache' = [cache EXCEPT ![k].fd = NoFd]
  /\ fdtab' = Closed(cache[k]) /\ vm' = Unmapped(cache[k])

\* Mutant: the address of the new mapping is not kept.
RemappedElsewhere(k, i) ==
  LET e  == cache[k]
      fd == FreeFd(Closed(e))
  IN /\ fdtab' = [Closed(e) EXCEPT ![fd] = i]
     /\ \E a \in Maps(Unmapped(e), i) :
        /\ vm' = Mapped(Unmapped(e), a, i)
        /\ cache' = [cache EXCEPT ![k] = Entry(e.name, fd, e.data, Size(i), e.marks)]

\* The marks are still those of the old file.
Remapped(k, i) ==
  LET e  == cache[k]
      fd == FreeFd(Closed(e))
  IN /\ fdtab' = [Closed(e) EXCEPT ![fd] = i]
     /\ \E a \in Maps(Unmapped(e), i) :
        /\ vm' = Mapped(Unmapped(e), a, i)
        /\ cache' = [cache EXCEPT ![k] = Entry(e.name, fd, a, Size(i), e.marks)]

\* Mutant: the knote is armed again, for the descriptor that was closed.
UnwatchedNot(f) == armed' = armed \cup {f} /\ fired' = fired \ {f}

\* close() takes the knotes of the descriptor along, and reload() arms none.
Unwatched(f) == armed' = armed \ {f} /\ fired' = fired \ {f}

Reload(f) ==
  /\ pc = "serve" /\ f \in batch /\ Null \notin Range(cache)
  /\ batch' = batch \ {f}
  /\ \/ Matches(f) = {} /\ UNCHANGED <<cache, kernel>>
     \/ /\ Matches(f) # {}
        /\ LET k == Max(Matches(f))
               i == disk[cache[k].name]
           IN IF i = None THEN Lost(k) ELSE Remapped(k, i)
        /\ Unwatched(f)
  /\ UNCHANGED <<pc, walk, files, worker>>

-----------------------------------------------------------------------------
(* A worker: load(), and the handler of the file. *)

\* One worker is enough: no worker changes what another one sees.
Fork ==
  /\ pc = "serve" /\ ~forked /\ answer = NoAnswer
  /\ forked' = TRUE /\ wcache' = cache /\ wvm' = vm
  /\ UNCHANGED <<server, kernel, files, answer>>

\* The entries query_cache() looks at: up to the first with that name.
Found(n) == {k \in 1..Len(wcache) : Has(wcache[k], n)}
Seen(n)  == IF Found(n) = {} THEN 1..Len(wcache) ELSE 1..Min(Found(n))

\* The bytes from the file's address on, as far as the handler goes: the size for
\* script_handler() and img_handler(), the marks for EvalLuaFile().  Nothing may be
\* mapped there, or less than that: write() fails, and Lua reads what it must not.
Reads(e)  == IF e.name \in Script THEN e.marks ELSE e.size
Behind(e) == IF e.data = Failed THEN None ELSE wvm[e.data]
Whole(e)  == Reads(e) = 0 \/ (Behind(e) # None /\ Pages(Reads(e)) <= Pages(Size(Behind(e))))

Answer(n, kind, e, i) == [kind |-> kind, name |-> n, entry |-> e, inode |-> i]

Answered ==
  /\ forked' = FALSE /\ wcache' = <<>> /\ wvm' = [a \in Addr |-> None]
  /\ UNCHANGED <<server, kernel, files>>

Serve(n) ==
  /\ forked /\ \A k \in Seen(n) : wcache[k] # Null
  /\ \/ Found(n) = {} /\ answer' = Answer(n, "404", Null, None)
     \/ /\ Found(n) # {}
        /\ LET e == wcache[Min(Found(n))]
           IN \E kind \in IF Whole(e) THEN {"200"}
                          ELSE IF n \in Script THEN {"broken", "crashed"} ELSE {"broken"} :
                answer' = Answer(n, kind, e, Behind(e))
  /\ Answered

ServeCrashes(n) ==
  /\ forked /\ \E k \in Seen(n) : wcache[k] = Null
  /\ answer' = Answer(n, "crashed", Null, None)
  /\ Answered

-----------------------------------------------------------------------------
(* The kernel, and those who work on the files. *)

\* add_event() asks for none of the NOTE_ flags, so when a knote fires is the kernel's
\* affair.
Touch(f) ==
  /\ f \in armed
  /\ armed' = armed \ {f} /\ fired' = fired \cup {f}
  /\ UNCHANGED <<pc, walk, cache, batch, fdtab, vm, files, worker>>

Edit(what) == changes > 0 /\ changes' = changes - 1 /\ edits' = edits \cup {what}

\* A new file under the old name, by rename() or in the place of a removed one.
Replace(n, s) ==
  /\ Edit("replaced")
  /\ inodes' = Append(inodes, [name |-> n, size |-> s])
  /\ disk' = [disk EXCEPT ![n] = Len(inodes) + 1]
  /\ UNCHANGED <<server, kernel, worker>>

Rewrite(n, s) ==
  /\ disk[n] # None /\ s # Size(disk[n])
  /\ Edit(IF s < Size(disk[n]) THEN "cut" ELSE "extended")
  /\ inodes' = [inodes EXCEPT ![disk[n]].size = s]
  /\ UNCHANGED <<disk, server, kernel, worker>>

Remove(n) ==
  /\ disk[n] # None /\ Edit("removed")
  /\ disk' = [disk EXCEPT ![n] = None]
  /\ UNCHANGED <<inodes, server, kernel, worker>>

-----------------------------------------------------------------------------
ServerStep ==
  \/ \E n \in Name : OpenFails(n) \/ OpenFile(n) \/ OpenCrashes(n)
  \/ EndLoad \/ Poll \/ ReloadCrashes \/ \E f \in Fd : Reload(f)

Next ==
  \/ ServerStep \/ Fork
  \/ \E n \in Name : Serve(n) \/ ServeCrashes(n) \/ Remove(n)
  \/ \E n \in Name, s \in 0..MaxSize : Replace(n, s) \/ Rewrite(n, s)
  \/ \E f \in Fd : Touch(f)

Spec == Init /\ [][Next]_vars

\* The server runs.  Nobody has to touch a file, and no knote has to fire.
FairSpec == Spec /\ WF_vars(ServerStep)

-----------------------------------------------------------------------------
(* Properties. *)

Inode   == 1..Len(inodes)
Entries == [name : Name, fd : Fd \cup {NoFd}, data : Addr \cup {Failed},
            size : 0..MaxSize, marks : 0..MaxSize]
Kinds   == {"200", "404", "broken", "crashed"}
EditKinds == {"replaced", "cut", "extended", "removed"}

TypeOK ==
  /\ pc \in {"load", "serve", "crashed"}
  /\ walk \subseteq Name /\ batch \subseteq Fd /\ armed \subseteq Fd /\ fired \subseteq Fd
  /\ \A c \in {cache, wcache} : c \in Seq(Entries \cup {Null})
  /\ fdtab \in [Fd -> Inode \cup {None}] /\ disk \in [Name -> Inode \cup {None}]
  /\ \A v \in {vm, wvm} : v \in [Addr -> Inode \cup {None}]
  /\ inodes \in Seq([name : Name, size : 0..MaxSize])
  /\ edits \subseteq EditKinds /\ changes \in 0..Changes
  /\ forked \in BOOLEAN
  /\ answer = NoAnswer \/ answer \in [kind : Kinds, name : Name, entry : Entries \cup {Null},
                                       inode : Inode \cup {None}]

\* The entries reload() has not lost.
Alive(c) == {k \in 1..Len(c) : c[k] # Null /\ c[k].fd # NoFd}

\* Whatever is replaced, removed and reloaded in whatever order, and although
\* descriptors and addresses are used again: an entry's descriptor and its address lead
\* to the same file, one that has or had its name, and no two entries share them
\* (files.c:84-104).
EntriesHold ==
  pc # "crashed" =>
    \A j \in Alive(cache) :
      LET e == cache[j]
      IN /\ fdtab[e.fd] # None /\ inodes[fdtab[e.fd]].name = e.name
         /\ e.data # Failed => vm[e.data] = fdtab[e.fd]
         /\ \A k \in Alive(cache) : j # k => cache[k].fd # e.fd

\* An event that is waiting, in the kernel or in the batch being handled, is about the
\* file its knote was armed for: a reload before it has not given its descriptor to
\* another (files.c:87-90, bsd.c:57).
EventsHitEntries ==
  pc = "serve" =>
    \A f \in armed \cup fired \cup batch :
      \E k \in Alive(cache) : cache[k].fd = f /\ \A j \in 1..(k - 1) : cache[j] # Null => cache[j].fd # f

\* What a worker sends in full for a file, it sends from a file of that name, as long as
\* no reload found its file missing.  And while no file is removed and none is cut where
\* it lies, every request for a file is answered in full, whatever is replaced and
\* reloaded meanwhile; for a template, while none is replaced by a smaller one either
\* (files.c:84-104, lws.c:63-77).
RightContent ==
  /\ answer.kind = "200" /\ answer.entry.fd # NoFd /\ Reads(answer.entry) > 0 =>
       inodes[answer.inode].name = answer.name
  /\ answer # NoAnswer /\ "removed" \notin edits /\ "cut" \notin edits =>
       \/ answer.kind = "200"
       \/ answer.name \in Script /\ "replaced" \in edits

\* As long as no file was removed (an entry may then be NULL), cut or extended (a template
\* may then end with its last page), nothing ends the server but a template that had no
\* byte behind it in its last page when it was first read (files.c:40 and 87-90).
OnlyKnownCrashes ==
  pc = "crashed" =>
    \/ edits \cap {"removed", "cut", "extended"} # {}
    \/ \E n \in walk \cap Script, i \in Inode : inodes[i].name = n /\ Size(i) % PageSize = 0

\* An event that is on its way gets its file mapped as it then is on the disk, or finds
\* it missing.
Reloaded(n) ==
  \E k \in 1..Len(cache) :
    Has(cache[k], n) /\ (cache[k].fd = NoFd \/ fdtab[cache[k].fd] = disk[n])
Waiting(n) ==
  pc = "serve" /\ \E k \in Alive(cache) : cache[k].name = n /\ cache[k].fd \in fired
EventReloads == \A n \in Name : Waiting(n) ~> Reloaded(n) \/ pc = "crashed"
=============================================================================
