-------------------------- MODULE FileCacheProofs --------------------------
(***************************************************************************)
(* Proofs about FileCache: entries, descriptors and addresses belong       *)
(* together, and a worker sends what it should, for every site, size of    *)
(* files and pages, and number of changes.                                 *)
(***************************************************************************)
EXTENDS FileCache, FiniteSetTheorems, TLAPS

Entered(c) == {k \in 1..Len(c) : c[k] # Null}

\* A name is walked to once.
OneEach ==
  /\ \A j, k \in Entered(cache) : cache[j].name = cache[k].name => j = k
  /\ \A k \in Entered(cache) : cache[k].name \notin walk
  /\ pc = "serve" => walk = {}

\* An entry's descriptor and its address lead to the same file, and no other entry has
\* them; nobody else opens files.
Joined ==
  \A k \in Alive(cache) :
    /\ fdtab[cache[k].fd] # None /\ inodes[fdtab[cache[k].fd]].name = cache[k].name
    /\ cache[k].data # Failed => vm[cache[k].data] = fdtab[cache[k].fd]
Apart ==
  \A j, k \in Alive(cache) :
    j # k => cache[j].fd # cache[k].fd /\ (cache[j].data # cache[k].data \/ cache[j].data = Failed)
Used == \A f \in Fd : fdtab[f] # None => \E k \in Alive(cache) : cache[k].fd = f

Named == \A n \in Name : disk[n] # None => inodes[disk[n]].name = n

Holds == Joined /\ Apart /\ Used /\ Named

\* Knotes and events are of descriptors in the cache.
Watched == \A f \in armed \cup fired \cup batch : \E k \in Alive(cache) : cache[k].fd = f

\* Whose entries a cache c has while no file is removed, w names are still to come.
Complete(c, w) ==
  /\ \A k \in 1..Len(c) : c[k] # Null /\ c[k].fd # NoFd
  /\ \A n \in Name : n \in w \/ \E k \in 1..Len(c) : Has(c[k], n)

AllThere ==
  "removed" \notin edits =>
    /\ \A n \in Name : disk[n] # None
    /\ Complete(cache, walk)
    /\ forked => Complete(wcache, {})

\* What an entry e makes of the addresses v.
EntryFits(e, v) ==
  /\ e.data # Failed => v[e.data] # None /\ inodes[v[e.data]].name = e.name
  /\ e.data = Failed => e.size = 0
  /\ e.data # Failed /\ "cut" \notin edits => e.size <= Size(v[e.data])
  /\ edits \cap {"removed", "cut", "replaced"} = {} => e.marks <= e.size
  /\ e.name \notin Script => e.marks = 0

Fits(c, v) == \A k \in Alive(c) : EntryFits(c[k], v)

Current ==
  edits \cap {"removed", "replaced"} = {} =>
    \A k \in Alive(cache) : fdtab[cache[k].fd] = disk[cache[k].name]

Answers ==
  /\ RightContent
  /\ answer.kind = "200" /\ answer.entry.fd # NoFd /\ Reads(answer.entry) > 0 => answer.inode # None

IInv ==
  /\ TypeOK /\ OneEach /\ Holds /\ Watched /\ AllThere /\ Current
  /\ Fits(cache, vm) /\ (forked => Fits(wcache, wvm)) /\ Answers
  /\ OnlyKnownCrashes

-----------------------------------------------------------------------------
(* Helpers of the model. *)

LEMMA MinOf ==
  ASSUME NEW S, S \subseteq Nat, S # {}
  PROVE  Min(S) \in S /\ \A x \in S : Min(S) <= x
<1> DEFINE R == OpToRel(<, Nat)
<1>1. IsWellFoundedOn(R, Nat)
  BY NatLessThanWellFounded
<1>2. \A x, y \in Nat : x < y => <<x, y>> \in R
  BY DEF OpToRel
<1> HIDE DEF R
<1>3. PICK x \in S : \A y \in S : ~(<<y, x>> \in R)
  BY <1>1, WFMin
<1>4. \A y \in S : x <= y
  <2> SUFFICES ASSUME NEW y \in S PROVE x <= y
    OBVIOUS
  <2>1. x \in Nat /\ y \in Nat
    OBVIOUS
  <2>2. ~(<<y, x>> \in R)
    BY <1>3, Zenon
  <2>3. ~(y < x)
    BY <1>2, <2>1, <2>2, Zenon
  <2> QED BY <2>1, <2>3
<1>5. Min(S) = CHOOSE m \in S : \A y \in S : m =< y
  BY DEF Min
<1> QED
  BY <1>4, <1>5

\* As long as there is one, FreeFd is a free descriptor.
LEMMA FreeFdIsFree ==
  ASSUME NEW t, \E f \in Fd : t[f] = None
  PROVE  FreeFd(t) \in Fd /\ t[FreeFd(t)] = None
<1> DEFINE S == {f \in Fd : t[f] = None}
<1>1. S \subseteq Nat /\ S # {}
  BY RoomAssumption
<1>2. FreeFd(t) = Min(S)
  BY DEF FreeFd
<1>3. Min(S) \in S
  <2> HIDE DEF S
  <2> QED BY <1>1, MinOf
<1> QED
  BY <1>2, <1>3

\* The names have a numbering.
LEMMA NamesNumber ==
  /\ Cardinality(Name) \in Nat
  /\ Names \in [1..Cardinality(Name) -> Name]
  /\ \A n \in Name : \E i \in DOMAIN Names : Names[i] = n
<1>1. Cardinality(Name) \in Nat /\ ExistsBijection(1..Cardinality(Name), Name)
  BY FS_CardinalityType, NameAssumption
<1>2. \E q \in [1..Cardinality(Name) -> Name] : \A n \in Name : \E i \in DOMAIN q : q[i] = n
  BY <1>1 DEF ExistsBijection, Bijection, Surjection
<1> QED
  BY <1>1, <1>2 DEF Names

\* More bytes are on no fewer pages.
LEMMA PagesGrow ==
  ASSUME NEW a \in Nat, NEW b \in Nat, a <= b
  PROVE  Pages(a) <= Pages(b)
BY SizesAssumption DEF Pages

LEMMA EntryIsNotNull == ASSUME NEW e \in Entries PROVE e # Null
BY DEF Entries, Null

LEMMA Types ==
  ASSUME TypeOK
  PROVE  /\ cache \in Seq(Entries \cup {Null}) /\ wcache \in Seq(Entries \cup {Null})
         /\ vm \in [Addr -> Inode \cup {None}] /\ wvm \in [Addr -> Inode \cup {None}]
         /\ fdtab \in [Fd -> Inode \cup {None}] /\ disk \in [Name -> Inode \cup {None}]
         /\ \A i \in Inode : inodes[i] \in [name : Name, size : 0..MaxSize]
         /\ Len(inodes) \in Nat
<1>1. inodes \in Seq([name : Name, size : 0..MaxSize])
  BY DEF TypeOK
<1>2. \A i \in Inode : inodes[i] \in [name : Name, size : 0..MaxSize]
  <2> DEFINE R == [name : Name, size : 0..MaxSize]
  <2> HIDE DEF R
  <2>1. inodes \in Seq(R) => \A i \in Inode : inodes[i] \in R
    BY DEF Inode
  <2> QED BY <1>1, <2>1 DEF R
<1> QED
  BY <1>1, <1>2 DEF TypeOK

LEMMA EntryTypes ==
  ASSUME NEW c \in Seq(Entries \cup {Null}), NEW k \in Entered(c)
  PROVE  /\ c[k] \in Entries /\ k \in 1..Len(c)
         /\ c[k].name \in Name /\ c[k].fd \in Fd \cup {NoFd} /\ c[k].data \in Addr \cup {Failed}
         /\ c[k].size \in 0..MaxSize /\ c[k].marks \in 0..MaxSize
BY DEF Entered, Entries

LEMMA AliveIsEntered ==
  ASSUME NEW c \in Seq(Entries \cup {Null})
  PROVE  /\ Alive(c) \subseteq Entered(c)
         /\ \A k \in Alive(c) : c[k].fd \in Fd
BY EntryTypes DEF Alive, Entered

\* How the cache changes.
LEMMA AppendedNull ==
  ASSUME TypeOK, cache' = Append(cache, Null)
  PROVE  /\ cache' \in Seq(Entries \cup {Null})
         /\ Alive(cache') = Alive(cache) /\ Entered(cache') = Entered(cache)
         /\ \A k \in Entered(cache) : cache'[k] = cache[k]
         /\ \A k \in Alive(cache) : cache'[k] = cache[k]
<1>1. /\ cache' \in Seq(Entries \cup {Null}) /\ Len(cache') = Len(cache) + 1
      /\ cache'[Len(cache) + 1] = Null /\ Len(cache) \in Nat
      /\ \A k \in 1..Len(cache) : cache'[k] = cache[k]
  BY Types
<1>2. \A k \in 1..Len(cache') : k \in 1..Len(cache) \/ k = Len(cache) + 1
  BY <1>1
<1>3. Alive(cache') = Alive(cache) /\ Entered(cache') = Entered(cache)
  BY <1>1, <1>2 DEF Alive, Entered
<1> QED BY <1>1, <1>3 DEF Alive, Entered

LEMMA AppendedEntry ==
  ASSUME TypeOK, NEW e \in Entries, e.fd # NoFd, cache' = Append(cache, e)
  PROVE  /\ cache' \in Seq(Entries \cup {Null})
         /\ Alive(cache') = Alive(cache) \cup {Len(cache) + 1}
         /\ Entered(cache') = Entered(cache) \cup {Len(cache) + 1}
         /\ \A k \in Entered(cache) : cache'[k] = cache[k] /\ k # Len(cache) + 1
         /\ cache'[Len(cache) + 1] = e
<1>1. e # Null
  BY EntryIsNotNull
<1> QED
  BY <1>1, Types DEF Alive, Entered

LEMMA ReplacedEntry ==
  ASSUME TypeOK, NEW k \in Alive(cache), NEW e \in Entries, cache' = [cache EXCEPT ![k] = e]
  PROVE  /\ cache' \in Seq(Entries \cup {Null})
         /\ Alive(cache') = IF e.fd = NoFd THEN Alive(cache) \ {k} ELSE Alive(cache)
         /\ Entered(cache') = Entered(cache)
         /\ \A j \in Entered(cache) \ {k} : cache'[j] = cache[j]
         /\ cache'[k] = e
<1>1. e # Null
  BY EntryIsNotNull
<1> QED
  BY <1>1, Types DEF Alive, Entered

-----------------------------------------------------------------------------
(* The type invariant. *)

\* The open descriptors are of different names, and not of one still to come.
LEMMA RoomToOpen ==
  ASSUME TypeOK, OneEach, Holds, NEW n \in walk
  PROVE  \E f \in Fd : fdtab[f] = None
<1> SUFFICES ASSUME \A f \in Fd : fdtab[f] # None PROVE FALSE
  OBVIOUS
<1>1. \A f \in Fd : \E k \in Alive(cache) :
        k \in Entered(cache) /\ cache[k].fd = f /\ inodes[fdtab[f]].name = cache[k].name
  BY AliveIsEntered, Types DEF Holds, Joined, Used
<1>2. \A f \in Fd : inodes[fdtab[f]].name \in Name \ {n}
  BY <1>1, EntryTypes, Types DEF OneEach
<1> DEFINE Others == Name \ {n}
           g == [f \in Fd |-> inodes[fdtab[f]].name]
<1>3. g \in [Fd -> Others]
  BY <1>2
<1>4. n \in Name
  BY DEF TypeOK
<1>5. IsFiniteSet(Others) /\ Cardinality(Others) < Cardinality(Fd)
  <2>1. /\ IsFiniteSet(Name) /\ IsFiniteSet(Fd)
        /\ Cardinality(Name) \in Nat /\ Cardinality(Fd) \in Nat
    BY FS_CardinalityType, NameAssumption, RoomAssumption
  <2>2. IsFiniteSet(Name \ {n}) /\ Cardinality(Name \ {n}) = Cardinality(Name) - 1
    BY <1>4, <2>1, FS_RemoveElement
  <2> QED BY <2>1, <2>2, RoomAssumption
<1>6. \A e, f \in Fd : g[e] = g[f] => e = f
  BY <1>1 DEF OneEach
<1> HIDE DEF g, Others
<1>7. \E e, f \in Fd : e # f /\ g[e] = g[f]
  BY <1>3, <1>5, FS_PigeonHole, RoomAssumption
<1> QED
  BY <1>6, <1>7

\* What a remapping, or the opening of a file, makes of the kernel's tables.
LEMMA OpenTypes ==
  ASSUME TypeOK, NEW t \in [Fd -> Inode \cup {None}], NEW v \in [Addr -> Inode \cup {None}],
         NEW i \in Inode, \E f \in Fd : t[f] = None, NEW a \in Maps(v, i)
  PROVE  /\ [t EXCEPT ![FreeFd(t)] = i] \in [Fd -> Inode \cup {None}]
         /\ Mapped(v, a, i) \in [Addr -> Inode \cup {None}]
         /\ a \in Addr \cup {Failed}
         /\ Size(i) \in 0..MaxSize
         /\ a = Failed <=> Size(i) = 0
         /\ a # Failed => v[a] = None
<1>1. FreeFd(t) \in Fd
  BY FreeFdIsFree
<1>2. inodes[i] \in [name : Name, size : 0..MaxSize]
  BY Types
<1>3. a \in Addr \cup {Failed} /\ (a = Failed <=> Size(i) = 0) /\ (a # Failed => v[a] = None)
  <2>1. CASE Size(i) = 0
    BY <2>1 DEF Maps
  <2>2. CASE Size(i) # 0
    BY <2>2, FailedAssumption DEF Maps
  <2> QED BY <2>1, <2>2
<1>4. Mapped(v, a, i) \in [Addr -> Inode \cup {None}]
  BY <1>3 DEF Mapped
<1> QED
  BY <1>1, <1>2, <1>3, <1>4 DEF Size

\* What OpenFile(n), Lost(k) and Remapped(k, i) do, for a given descriptor and address.
OpenedAs(n, fd, a) ==
  LET i == disk[n]
      e == Entry(n, fd, a, Size(i), IF n \in Script THEN Size(i) ELSE 0)
  IN /\ i \in Inode /\ e \in Entries
     /\ fdtab[fd] = None /\ fdtab' = [fdtab EXCEPT ![fd] = i]
     /\ a = Failed <=> Size(i) = 0
     /\ a # Failed => vm[a] = None
     /\ vm' = Mapped(vm, a, i) /\ vm' \in [Addr -> Inode \cup {None}]
     /\ cache' = Append(cache, e) /\ armed' = armed \cup {fd}

LostAs(k) ==
  LET e == cache[k]
  IN /\ [e EXCEPT !.fd = NoFd] \in Entries
     /\ fdtab' = [fdtab EXCEPT ![e.fd] = None] /\ fdtab' \in [Fd -> Inode \cup {None}]
     /\ vm' = Unmapped(e) /\ vm' \in [Addr -> Inode \cup {None}]
     /\ cache' = [cache EXCEPT ![k] = [e EXCEPT !.fd = NoFd]]

RemappedAs(k, i, fd, a) ==
  LET e   == cache[k]
      new == Entry(e.name, fd, a, Size(i), e.marks)
  IN /\ new \in Entries
     /\ Closed(e)[fd] = None /\ fdtab' = [Closed(e) EXCEPT ![fd] = i]
     /\ fdtab' \in [Fd -> Inode \cup {None}]
     /\ a = Failed <=> Size(i) = 0
     /\ a # Failed => Unmapped(e)[a] = None
     /\ vm' = Mapped(Unmapped(e), a, i) /\ vm' \in [Addr -> Inode \cup {None}]
     /\ cache' = [cache EXCEPT ![k] = new]

LEMMA Opens ==
  ASSUME TypeOK, OneEach, Holds, NEW n \in Name, OpenFile(n)
  PROVE  \E fd \in Fd, a \in Addr \cup {Failed} : OpenedAs(n, fd, a)
<1> DEFINE i == disk[n]
           fd == FreeFd(fdtab)
<1>1. i \in Inode
  BY Types DEF OpenFile
<1>2. \E f \in Fd : fdtab[f] = None
  BY RoomToOpen DEF OpenFile
<1>3. fd \in Fd /\ fdtab[fd] = None
  BY <1>2, FreeFdIsFree
<1>4. PICK a \in Maps(vm, i) :
        /\ vm' = Mapped(vm, a, i)
        /\ cache' = Append(cache, Entry(n, fd, a, Size(i), IF n \in Script THEN Size(i) ELSE 0))
  BY DEF OpenFile
<1>5. /\ vm' \in [Addr -> Inode \cup {None}] /\ a \in Addr \cup {Failed}
      /\ Size(i) \in 0..MaxSize /\ (a = Failed <=> Size(i) = 0) /\ (a # Failed => vm[a] = None)
  BY <1>1, <1>2, <1>4, OpenTypes, Types
<1>6. fdtab' = [fdtab EXCEPT ![fd] = i] /\ armed' = armed \cup {fd}
  BY DEF OpenFile
<1> HIDE DEF i, fd
<1>7. Entry(n, fd, a, Size(i), IF n \in Script THEN Size(i) ELSE 0) \in Entries
  BY <1>3, <1>5, SizesAssumption DEF Entry, Entries
<1> QED
  BY <1>1, <1>3, <1>4, <1>5, <1>6, <1>7 DEF i, OpenedAs

\* The entry whose descriptor an event is of.
LEMMA Matched ==
  ASSUME TypeOK, Holds, Null \notin Range(cache), NEW f \in Fd, Matches(f) # {}
  PROVE  /\ Max(Matches(f)) \in Alive(cache)
         /\ cache[Max(Matches(f))].fd = f
<1>1. \A k \in Matches(f) : k \in Alive(cache) /\ cache[k].fd = f /\ k \in Nat
  BY Types, RoomAssumption DEF Matches, Alive, Range, NoFd
<1>2. PICK k \in Matches(f) : TRUE
  OBVIOUS
<1>3. Matches(f) = {k}
  BY <1>1 DEF Holds, Apart
<1>4. Max({k}) = k
  BY <1>1 DEF Max
<1> QED
  BY <1>1, <1>3, <1>4

LEMMA Remaps ==
  ASSUME TypeOK, NEW k \in Alive(cache), NEW i \in Inode, Remapped(k, i)
  PROVE  \E fd \in Fd, a \in Addr \cup {Failed} : RemappedAs(k, i, fd, a)
<1> DEFINE e  == cache[k]
           t  == Closed(e)
           v  == Unmapped(e)
           fd == FreeFd(t)
<1>1. /\ e \in Entries /\ e.name \in Name /\ e.fd \in Fd /\ e.data \in Addr \cup {Failed}
      /\ e.marks \in 0..MaxSize
  BY Types, AliveIsEntered, EntryTypes
<1>2. t \in [Fd -> Inode \cup {None}] /\ t[e.fd] = None
  BY <1>1, Types DEF Closed
<1>3. v \in [Addr -> Inode \cup {None}]
  BY <1>1, Types DEF Unmapped
<1>4. PICK a \in Maps(v, i) :
        /\ vm' = Mapped(v, a, i)
        /\ cache' = [cache EXCEPT ![k] = Entry(e.name, fd, a, Size(i), e.marks)]
  BY DEF Remapped
<1>5. fdtab' = [t EXCEPT ![fd] = i]
  BY DEF Remapped
<1> HIDE DEF t, v
<1>6. fd \in Fd /\ t[fd] = None
  BY <1>1, <1>2, FreeFdIsFree
<1>7. /\ fdtab' \in [Fd -> Inode \cup {None}] /\ vm' \in [Addr -> Inode \cup {None}]
      /\ a \in Addr \cup {Failed} /\ Size(i) \in 0..MaxSize
      /\ (a = Failed <=> Size(i) = 0) /\ (a # Failed => v[a] = None)
  BY <1>1, <1>2, <1>3, <1>4, <1>5, OpenTypes
<1> HIDE DEF e, fd
<1>8. Entry(e.name, fd, a, Size(i), e.marks) \in Entries
  BY <1>1, <1>6, <1>7 DEF Entry, Entries
<1> QED
  BY <1>4, <1>5, <1>6, <1>7, <1>8 DEF e, t, v, RemappedAs

LEMMA Loses == ASSUME TypeOK, NEW k \in Alive(cache), Lost(k) PROVE LostAs(k)
<1>1. cache[k] \in Entries /\ cache[k].fd \in Fd /\ cache[k].data \in Addr \cup {Failed}
  BY Types, AliveIsEntered, EntryTypes
<1>2. [cache[k] EXCEPT !.fd = NoFd] \in Entries
  BY <1>1 DEF Entries
<1>3. cache' = [cache EXCEPT ![k] = [cache[k] EXCEPT !.fd = NoFd]]
  BY DEF Lost
<1> QED
  BY <1>1, <1>2, <1>3, Types DEF Lost, Closed, Unmapped, LostAs

LEMMA ReloadsQuietly ==
  ASSUME TypeOK, NEW f \in Fd, Reload(f)
  PROVE  /\ UNCHANGED <<pc, walk, files, worker>> /\ Inode' = Inode
         /\ batch' = batch \ {f} /\ armed' \subseteq Fd /\ fired' \subseteq Fd
BY DEF Reload, Unwatched, TypeOK, files, kernel, Inode

\* What reload() does with the entry it finds.
LEMMA Reloads ==
  ASSUME TypeOK, Holds, NEW f \in Fd, Reload(f)
  PROVE  \/ UNCHANGED <<cache, kernel>>
         \/ \E k \in Alive(cache) :
              /\ cache[k].fd = f /\ armed' = armed \ {f} /\ fired' = fired \ {f}
              /\ \/ disk[cache[k].name] = None /\ LostAs(k)
                 \/ /\ disk[cache[k].name] \in Inode
                    /\ \E fd \in Fd, a \in Addr \cup {Failed} :
                         RemappedAs(k, disk[cache[k].name], fd, a)
<1> DEFINE k == Max(Matches(f))
           i == disk[cache[k].name]
<1>1. \/ UNCHANGED <<cache, kernel>>
      \/ /\ Matches(f) # {} /\ Unwatched(f) /\ Null \notin Range(cache)
         /\ IF i = None THEN Lost(k) ELSE Remapped(k, i)
  BY DEF Reload
<1>2. CASE /\ Matches(f) # {} /\ Unwatched(f) /\ Null \notin Range(cache)
           /\ IF i = None THEN Lost(k) ELSE Remapped(k, i)
  <2>1. k \in Alive(cache) /\ cache[k].fd = f
    BY <1>2, Matched
  <2> HIDE DEF k
  <2>2. i \in Inode \cup {None}
    BY <2>1, AliveIsEntered, EntryTypes, Types
  <2>3. i = None => LostAs(k)
    BY <1>2, <2>1, Loses DEF None, Inode
  <2>4. i # None => \E fd \in Fd, a \in Addr \cup {Failed} : RemappedAs(k, i, fd, a)
    BY <1>2, <2>1, <2>2, Remaps
  <2> QED BY <1>2, <2>1, <2>2, <2>3, <2>4 DEF Unwatched
<1> QED
  BY <1>1, <1>2

\* The entry query_cache() answers with.
LEMMA FoundEntry ==
  ASSUME TypeOK, NEW n \in Name, Found(n) # {}
  PROVE  LET e == wcache[Min(Found(n))]
         IN /\ Min(Found(n)) \in Entered(wcache) /\ e \in Entries /\ e.name = n
            /\ Behind(e) \in Inode \cup {None}
<1>1. Found(n) \subseteq Nat /\ \A k \in Found(n) : k \in Entered(wcache) /\ wcache[k].name = n
  BY DEF Found, Has, Entered
<1>2. Min(Found(n)) \in Entered(wcache) /\ wcache[Min(Found(n))].name = n
  <2> HIDE DEF Found
  <2> QED BY <1>1, MinOf
<1> QED
  BY <1>2, EntryTypes, Types DEF Behind

LEMMA InitType == Init => TypeOK
<1> SUFFICES ASSUME Init PROVE TypeOK
  OBVIOUS
<1>1. PICK size \in [Name -> 0..MaxSize] :
        inodes = [i \in 1..Cardinality(Name) |-> [name |-> Names[i], size |-> size[Names[i]]]]
  BY DEF Init
<1>2. inodes \in Seq([name : Name, size : 0..MaxSize]) /\ Len(inodes) = Cardinality(Name)
  <2> DEFINE R == [name : Name, size : 0..MaxSize]
  <2>1. \A i \in 1..Cardinality(Name) : [name |-> Names[i], size |-> size[Names[i]]] \in R
    BY NamesNumber
  <2> HIDE DEF R
  <2>2. inodes \in Seq(R) /\ Len(inodes) = Cardinality(Name)
    BY <1>1, <2>1, NamesNumber
  <2> QED BY <2>2 DEF R
<1>3. disk \in [Name -> Inode \cup {None}]
  BY <1>2, NamesNumber DEF Init, Inode
<1>4. cache \in Seq(Entries \cup {Null}) /\ wcache \in Seq(Entries \cup {Null})
  BY DEF Init
<1>5. vm \in [Addr -> Inode \cup {None}] /\ wvm = vm /\ fdtab \in [Fd -> Inode \cup {None}]
  BY DEF Init
<1>6. /\ pc \in {"load", "serve", "crashed"}
      /\ walk \subseteq Name /\ batch \subseteq Fd /\ armed \subseteq Fd /\ fired \subseteq Fd
      /\ edits \subseteq EditKinds /\ forked \in BOOLEAN /\ answer = NoAnswer
  BY DEF Init
<1>7. changes \in 0..Changes
  BY SizesAssumption DEF Init
<1> QED
  BY <1>2, <1>3, <1>4, <1>5, <1>6, <1>7 DEF TypeOK

LEMMA TypeStep == ASSUME TypeOK, OneEach, Holds, [Next]_vars PROVE TypeOK'
<1> USE DEF server, kernel, files, worker
<1>1. ASSUME NEW n \in Name, OpenFails(n) PROVE TypeOK'
  BY <1>1, AppendedNull, Types DEF OpenFails, TypeOK, Inode
<1>2. ASSUME NEW n \in Name, OpenFile(n) PROVE TypeOK'
  <2>1. PICK fd \in Fd, a \in Addr \cup {Failed} : OpenedAs(n, fd, a)
    BY <1>2, Opens
  <2>2. cache' \in Seq(Entries \cup {Null}) /\ fdtab' \in [Fd -> Inode \cup {None}]
    BY <2>1, Types DEF OpenedAs
  <2> QED
    BY <1>2, <2>1, <2>2, Types DEF OpenedAs, OpenFile, TypeOK, Inode
<1>3. ASSUME NEW f \in Fd, Reload(f) PROVE TypeOK'
  <2>1. CASE UNCHANGED <<cache, kernel>>
    BY <1>3, <2>1, Types DEF Reload, TypeOK, Inode
  <2>2. ASSUME NEW k \in Alive(cache), LostAs(k) PROVE TypeOK'
    <3>1. cache' \in Seq(Entries \cup {Null})
      BY <2>2, ReplacedEntry, Types DEF LostAs
    <3> QED BY <1>3, <2>2, <3>1, ReloadsQuietly DEF LostAs, TypeOK
  <2>3. ASSUME NEW k \in Alive(cache), NEW fd \in Fd, NEW a \in Addr \cup {Failed},
               RemappedAs(k, disk[cache[k].name], fd, a)
        PROVE  TypeOK'
    <3>1. cache' \in Seq(Entries \cup {Null})
      BY <2>3, ReplacedEntry, Types DEF RemappedAs
    <3> QED BY <1>3, <2>3, <3>1, ReloadsQuietly DEF RemappedAs, TypeOK
  <2> QED BY <1>3, <2>1, <2>2, <2>3, Reloads
<1>4. ASSUME NEW n \in Name, Serve(n) \/ ServeCrashes(n) PROVE TypeOK'
  <2>1. /\ pc' = pc /\ walk' = walk /\ cache' = cache /\ batch' = batch /\ fdtab' = fdtab /\ vm' = vm
        /\ armed' = armed /\ fired' = fired /\ disk' = disk /\ inodes' = inodes /\ edits' = edits
        /\ changes' = changes /\ forked' = FALSE /\ wcache' = <<>> /\ wvm' = [a \in Addr |-> None]
    BY <1>4 DEF Serve, ServeCrashes, Answered
  <2>2. \E kind \in Kinds, e \in Entries \cup {Null}, i \in Inode \cup {None} :
          answer' = Answer(n, kind, e, i)
    <3>1. CASE Serve(n) /\ Found(n) = {}
      BY <3>1 DEF Serve, Kinds
    <3>2. CASE Serve(n) /\ Found(n) # {}
      <4>1. /\ wcache[Min(Found(n))] \in Entries
            /\ Behind(wcache[Min(Found(n))]) \in Inode \cup {None}
        BY <3>2, FoundEntry
      <4>2. PICK kind \in Kinds :
              answer' = Answer(n, kind, wcache[Min(Found(n))], Behind(wcache[Min(Found(n))]))
        BY <3>2 DEF Serve, Kinds
      <4> QED BY <4>1, <4>2
    <3>3. CASE ServeCrashes(n)
      BY <3>3 DEF ServeCrashes, Kinds
    <3> QED BY <1>4, <3>1, <3>2, <3>3
  <2>3. answer' \in [kind : Kinds, name : Name, entry : Entries \cup {Null}, inode : Inode \cup {None}]
    BY <2>2 DEF Answer
  <2>4. Inode' = Inode
    BY <2>1 DEF Inode
  <2>5. wcache' \in Seq(Entries \cup {Null}) /\ wvm' \in [Addr -> Inode \cup {None}]
    BY <2>1
  <2>6. answer' = NoAnswer \/ answer' \in [kind : Kinds, name : Name, entry : Entries \cup {Null},
                                           inode : Inode' \cup {None}]
    BY <2>3, <2>4
  <2>7. \A c \in {cache', wcache'} : c \in Seq(Entries \cup {Null})
    BY <2>1, <2>5, Types
  <2>8. \A v \in {vm', wvm'} : v \in [Addr -> Inode' \cup {None}]
    BY <2>1, <2>4, <2>5, Types
  <2>9. /\ pc' \in {"load", "serve", "crashed"}
        /\ walk' \subseteq Name /\ batch' \subseteq Fd /\ armed' \subseteq Fd /\ fired' \subseteq Fd
        /\ fdtab' \in [Fd -> Inode' \cup {None}] /\ disk' \in [Name -> Inode' \cup {None}]
        /\ inodes' \in Seq([name : Name, size : 0..MaxSize])
        /\ edits' \subseteq EditKinds /\ changes' \in 0..Changes /\ forked' \in BOOLEAN
    BY <2>1, <2>4 DEF TypeOK
  <2> QED BY <2>6, <2>7, <2>8, <2>9 DEF TypeOK
<1>5. ASSUME NEW n \in Name, NEW s \in 0..MaxSize, Replace(n, s) PROVE TypeOK'
  <2>1. /\ inodes' \in Seq([name : Name, size : 0..MaxSize]) /\ Len(inodes') = Len(inodes) + 1
    BY <1>5 DEF Replace, TypeOK
  <2>2. Inode \subseteq Inode' /\ Len(inodes) + 1 \in Inode'
    BY <2>1, Types DEF Inode
  <2>3. disk' \in [Name -> Inode' \cup {None}]
    BY <1>5, <2>2, Types DEF Replace
  <2> HIDE DEF Inode
  <2> QED
    BY <1>5, <2>1, <2>2, <2>3, SizesAssumption DEF Replace, Edit, EditKinds, TypeOK
<1>6. ASSUME NEW n \in Name, NEW s \in 0..MaxSize, Rewrite(n, s) PROVE TypeOK'
  <2>1. inodes' \in Seq([name : Name, size : 0..MaxSize]) /\ Len(inodes') = Len(inodes)
    <3> DEFINE R == [name : Name, size : 0..MaxSize]
    <3>1. disk[n] \in Inode
      BY <1>6, Types DEF Rewrite
    <3>2. [inodes[disk[n]] EXCEPT !.size = s] \in R
      BY <3>1, Types
    <3>3. inodes \in Seq(R) /\ inodes' = [inodes EXCEPT ![disk[n]] = [inodes[disk[n]] EXCEPT !.size = s]]
      BY <1>6 DEF Rewrite, TypeOK
    <3> HIDE DEF R
    <3>4. inodes' \in Seq(R) /\ Len(inodes') = Len(inodes)
      BY <3>1, <3>2, <3>3 DEF Inode
    <3> QED BY <3>4 DEF R
  <2>2. Inode' = Inode
    BY <2>1 DEF Inode
  <2> QED
    BY <1>6, <2>1, <2>2, SizesAssumption DEF Rewrite, Edit, EditKinds, TypeOK
<1>7. ASSUME NEW n \in Name, Remove(n) PROVE TypeOK'
  <2>1. Inode' = Inode
    BY <1>7 DEF Remove, Inode
  <2> QED
    BY <1>7, <2>1, SizesAssumption DEF Remove, Edit, EditKinds, TypeOK
<1>8. ASSUME \/ \E n \in Name : OpenCrashes(n)
             \/ EndLoad \/ Poll \/ ReloadCrashes \/ \E f \in Fd : Touch(f)
             \/ UNCHANGED vars
      PROVE  TypeOK'
  BY <1>8 DEF OpenCrashes, EndLoad, Poll, ReloadCrashes, Touch, vars, TypeOK, Inode
<1>9. ASSUME Fork PROVE TypeOK'
  BY <1>9 DEF Fork, TypeOK, Inode
<1> QED
  BY <1>1, <1>2, <1>3, <1>4, <1>5, <1>6, <1>7, <1>8, <1>9 DEF Next, ServerStep

-----------------------------------------------------------------------------
(* What belongs together. *)

\* What others do to the files.
Edits == \E n \in Name : Remove(n) \/ \E s \in 0..MaxSize : Replace(n, s) \/ Rewrite(n, s)

\* An inode keeps its name; it may only get smaller where it is cut.
LEMMA InodesStay ==
  ASSUME TypeOK, Edits
  PROVE  /\ \A i \in Inode : /\ i \in Inode' /\ inodes'[i].name = inodes[i].name
                             /\ Size(i) \in 0..MaxSize /\ Size(i)' \in 0..MaxSize
                             /\ "cut" \notin edits' => Size(i) <= Size(i)'
         /\ edits \subseteq edits'
         /\ UNCHANGED <<server, kernel, worker>>
<1>1. ASSUME NEW n \in Name, Remove(n) PROVE inodes' = inodes
  BY <1>1 DEF Remove
<1>2. ASSUME NEW n \in Name, NEW s \in 0..MaxSize, Replace(n, s)
      PROVE  \A i \in Inode : i \in Inode' /\ inodes'[i] = inodes[i]
  BY <1>2 DEF Replace, TypeOK, Inode
<1>3. ASSUME NEW n \in Name, NEW s \in 0..MaxSize, Rewrite(n, s), NEW i \in Inode
      PROVE  /\ i \in Inode' /\ inodes'[i].name = inodes[i].name
             /\ inodes'[i].size \in 0..MaxSize
             /\ "cut" \notin edits' => inodes[i].size <= inodes'[i].size
  <2>1. disk[n] \in Inode
    BY <1>3, Types DEF Rewrite
  <2>2. /\ Len(inodes') = Len(inodes)
        /\ inodes'[i] = IF i = disk[n] THEN [inodes[i] EXCEPT !.size = s] ELSE inodes[i]
    <3> DEFINE R == [name : Name, size : 0..MaxSize]
    <3>1. inodes \in Seq(R)
      BY DEF TypeOK
    <3>2. inodes' = [inodes EXCEPT ![disk[n]] = [inodes[disk[n]] EXCEPT !.size = s]]
      BY <1>3 DEF Rewrite
    <3> HIDE DEF R
    <3> QED BY <2>1, <3>1, <3>2 DEF Inode
  <2>3. "cut" \notin edits' => s >= inodes[disk[n]].size
    BY <1>3, <2>1, Types DEF Rewrite, Edit, Size
  <2>4. inodes[i].size \in 0..MaxSize /\ inodes[i] \in [name : Name, size : 0..MaxSize]
    BY Types
  <2>5. i \in Inode'
    BY <2>2 DEF Inode
  <2> QED BY <2>2, <2>3, <2>4, <2>5
<1>4. UNCHANGED <<server, kernel, worker>> /\ edits \subseteq edits'
  BY DEF Edits, Remove, Replace, Rewrite, Edit
<1>5. \A i \in Inode : /\ i \in Inode' /\ inodes'[i].name = inodes[i].name
                       /\ inodes[i].size \in 0..MaxSize /\ inodes'[i].size \in 0..MaxSize
                       /\ "cut" \notin edits' => inodes[i].size <= inodes'[i].size
  <2>1. \A i \in Inode : inodes[i].size \in 0..MaxSize
    BY Types
  <2> QED BY <1>1, <1>2, <1>3, <2>1 DEF Edits, Inode
<1> QED
  BY <1>4, <1>5 DEF Size

\* Every step is one of these.
LEMMA Steps ==
  ASSUME [Next]_vars
  PROVE  \/ \E n \in Name : OpenFails(n) \/ OpenFile(n)
         \/ \E f \in Fd : Reload(f)
         \/ \E n \in Name : Serve(n) \/ ServeCrashes(n)
         \/ Edits \/ Fork
         \/ \E n \in Name : OpenCrashes(n)
         \/ EndLoad \/ Poll \/ ReloadCrashes \/ (\E f \in Fd : Touch(f)) \/ UNCHANGED vars
BY DEF Next, ServerStep, Edits

LEMMA OneEachStep == ASSUME TypeOK, OneEach, Holds, [Next]_vars PROVE OneEach'
<1> USE DEF server, kernel, files, worker
<1>1. ASSUME NEW n \in Name, OpenFails(n) PROVE OneEach'
  <2>1. cache' = Append(cache, Null) /\ walk' \subseteq walk /\ pc' = "load"
    BY <1>1 DEF OpenFails
  <2>2. /\ Entered(cache') = Entered(cache)
        /\ \A k \in Entered(cache) : cache'[k] = cache[k]
    BY <2>1, AppendedNull
  <2> QED BY <2>1, <2>2 DEF OneEach
<1>2. ASSUME NEW n \in Name, OpenFile(n) PROVE OneEach'
  <2>1. PICK fd \in Fd, a \in Addr \cup {Failed} : OpenedAs(n, fd, a)
    BY <1>2, Opens
  <2>2. pc' = "load" /\ walk' = walk \ {n} /\ n \in walk
    BY <1>2 DEF OpenFile
  <2>3. PICK e \in Entries : e.name = n /\ e.fd # NoFd /\ cache' = Append(cache, e)
    BY <2>1, RoomAssumption DEF OpenedAs, Entry, NoFd
  <2>4. /\ Entered(cache') = Entered(cache) \cup {Len(cache) + 1} /\ cache'[Len(cache) + 1] = e
        /\ \A k \in Entered(cache) : cache'[k] = cache[k] /\ k # Len(cache) + 1
    BY <2>3, AppendedEntry
  <2>5. \A k \in Entered(cache) : cache'[k].name \notin walk /\ cache'[k].name # n
    BY <2>2, <2>4 DEF OneEach
  <2>6. \A j, k \in Entered(cache') : cache'[j].name = cache'[k].name => j = k
    <3>1. \A j, k \in Entered(cache) : cache'[j].name = cache'[k].name => j = k
      BY <2>4 DEF OneEach
    <3>2. cache'[Len(cache) + 1].name = n
      BY <2>3, <2>4
    <3> QED BY <2>4, <2>5, <3>1, <3>2
  <2>7. \A k \in Entered(cache') : cache'[k].name \notin walk'
    BY <2>2, <2>3, <2>4, <2>5
  <2> QED BY <2>2, <2>6, <2>7 DEF OneEach
<1>3. ASSUME NEW f \in Fd, Reload(f) PROVE OneEach'
  <2>1. /\ Entered(cache') = Entered(cache)
        /\ \A j \in Entered(cache) : cache'[j].name = cache[j].name
    <3>1. ASSUME NEW k \in Alive(cache), NEW e \in Entries, e.name = cache[k].name,
                 cache' = [cache EXCEPT ![k] = e]
          PROVE  /\ Entered(cache') = Entered(cache)
                 /\ \A j \in Entered(cache) : cache'[j].name = cache[j].name
      <4>1. /\ Entered(cache') = Entered(cache) /\ cache'[k] = e
            /\ \A j \in Entered(cache) \ {k} : cache'[j] = cache[j]
        BY <3>1, ReplacedEntry
      <4> QED BY <3>1, <4>1
    <3>2. \A k \in Alive(cache) : LostAs(k) => [cache[k] EXCEPT !.fd = NoFd].name = cache[k].name
      BY AliveIsEntered, EntryTypes, Types DEF Entries
    <3>3. \A k \in Alive(cache) :
            LostAs(k) \/ (\E i \in Inode, fd \in Fd, a \in Addr \cup {Failed} : RemappedAs(k, i, fd, a))
            => \E e \in Entries : e.name = cache[k].name /\ cache' = [cache EXCEPT ![k] = e]
      <4>1. ASSUME NEW k \in Alive(cache), LostAs(k)
            PROVE  \E e \in Entries : e.name = cache[k].name /\ cache' = [cache EXCEPT ![k] = e]
        BY <3>2, <4>1 DEF LostAs
      <4>2. ASSUME NEW k \in Alive(cache), NEW i \in Inode, NEW fd \in Fd, NEW a \in Addr \cup {Failed},
                   RemappedAs(k, i, fd, a)
            PROVE  \E e \in Entries : e.name = cache[k].name /\ cache' = [cache EXCEPT ![k] = e]
        BY <4>2 DEF RemappedAs, Entry
      <4> QED BY <4>1, <4>2
    <3>4. UNCHANGED cache \/ \E k \in Alive(cache), e \in Entries :
                               e.name = cache[k].name /\ cache' = [cache EXCEPT ![k] = e]
      BY <1>3, <3>3, Reloads
    <3> QED BY <3>1, <3>4
  <2> QED BY <1>3, <2>1 DEF Reload, OneEach
<1>4. ASSUME \/ \E n \in Name : Serve(n) \/ ServeCrashes(n) \/ OpenCrashes(n)
             \/ EndLoad \/ Poll \/ ReloadCrashes \/ Fork \/ \E f \in Fd : Touch(f)
             \/ UNCHANGED vars \/ Edits
      PROVE  OneEach'
  <2>1. cache' = cache /\ walk' = walk /\ (pc' = "serve" => pc = "serve" \/ walk = {})
    BY <1>4, InodesStay DEF Serve, ServeCrashes, Answered, OpenCrashes, EndLoad, Poll, ReloadCrashes,
                            Fork, Touch, vars
  <2> QED BY <2>1 DEF OneEach
<1> QED
  BY <1>1, <1>2, <1>3, <1>4, Steps

\* What a reload leaves of the other entries.
LEMMA OthersHold ==
  ASSUME TypeOK, Holds, NEW k \in Alive(cache), NEW j \in Alive(cache), j # k
  PROVE  /\ cache[j].fd \in Fd /\ cache[j].fd # cache[k].fd
         /\ Closed(cache[k])[cache[j].fd] = fdtab[cache[j].fd]
         /\ cache[j].data \in Addr \cup {Failed}
         /\ cache[j].data # Failed => Unmapped(cache[k])[cache[j].data] = vm[cache[j].data]
<1>1. /\ cache[j].fd \in Fd /\ cache[j].data \in Addr \cup {Failed}
      /\ cache[k].fd \in Fd /\ cache[k].data \in Addr \cup {Failed}
  BY AliveIsEntered, EntryTypes, Types
<1>2. cache[j].fd # cache[k].fd /\ (cache[j].data # cache[k].data \/ cache[j].data = Failed)
  BY DEF Holds, Apart
<1> QED
  BY <1>1, <1>2, Types DEF Closed, Unmapped

LEMMA LosesHold ==
  ASSUME TypeOK, Holds, NEW k \in Alive(cache), LostAs(k), UNCHANGED <<disk, inodes>>
  PROVE  Holds'
<1> DEFINE e == cache[k]
<1>1. PICK lost \in Entries : lost.fd = NoFd /\ cache' = [cache EXCEPT ![k] = lost]
  <2>1. [e EXCEPT !.fd = NoFd].fd = NoFd
    BY AliveIsEntered, EntryTypes, Types DEF Entries
  <2> QED BY <2>1 DEF LostAs
<1>2. /\ Alive(cache') = Alive(cache) \ {k}
      /\ \A j \in Alive(cache) \ {k} : cache'[j] = cache[j]
  BY <1>1, ReplacedEntry, AliveIsEntered, Types
<1>3. fdtab' = Closed(e) /\ vm' = Unmapped(e)
  BY DEF LostAs, Closed
<1>4. Joined'
  BY <1>2, <1>3, OthersHold DEF Holds, Joined
<1>5. Apart'
  BY <1>2 DEF Holds, Apart
<1>6. Used'
  <2>1. \A f \in Fd : fdtab'[f] # None => f # e.fd /\ fdtab[f] # None
    BY <1>3, Types DEF Closed
  <2> QED BY <1>2, <2>1 DEF Holds, Used
<1>7. Named'
  BY DEF Holds, Named
<1> QED
  BY <1>4, <1>5, <1>6, <1>7 DEF Holds

LEMMA RemapsHold ==
  ASSUME TypeOK, Holds, NEW k \in Alive(cache), disk[cache[k].name] \in Inode,
         NEW fd \in Fd, NEW a \in Addr \cup {Failed}, RemappedAs(k, disk[cache[k].name], fd, a),
         UNCHANGED <<disk, inodes>>
  PROVE  Holds'
<1> DEFINE e == cache[k]
           i == disk[e.name]
           new == Entry(e.name, fd, a, Size(i), e.marks)
<1>1. new \in Entries /\ new.fd # NoFd /\ cache' = [cache EXCEPT ![k] = new]
  BY RoomAssumption DEF RemappedAs, Entry, NoFd
<1>2. new.name = e.name /\ new.fd = fd /\ new.data = a
  BY DEF Entry
<1> HIDE DEF new
<1>3. /\ Alive(cache') = Alive(cache) /\ cache'[k] = new
      /\ \A j \in Alive(cache) \ {k} : cache'[j] = cache[j]
  BY <1>1, ReplacedEntry, AliveIsEntered, Types
<1>4. e.fd \in Fd /\ e.name \in Name /\ e.data \in Addr \cup {Failed}
  BY AliveIsEntered, EntryTypes, Types
<1>5. Closed(e) \in [Fd -> Inode \cup {None}] /\ Unmapped(e) \in [Addr -> Inode \cup {None}]
  BY <1>4, Types DEF Closed, Unmapped
<1>6. ASSUME NEW j \in Alive(cache) \ {k}
      PROVE  /\ cache[j].fd # fd /\ fdtab'[cache[j].fd] = fdtab[cache[j].fd]
             /\ cache[j].data # Failed => /\ cache[j].data # a
                                          /\ vm'[cache[j].data] = vm[cache[j].data]
  <2>1. fdtab[cache[j].fd] # None
        /\ (cache[j].data # Failed => vm[cache[j].data] = fdtab[cache[j].fd])
    BY DEF Holds, Joined
  <2>2. cache[j].fd # fd /\ fdtab'[cache[j].fd] = fdtab[cache[j].fd]
    BY <1>5, <2>1, OthersHold DEF RemappedAs
  <2>3. cache[j].data # Failed => /\ cache[j].data # a
                                  /\ vm'[cache[j].data] = vm[cache[j].data]
    BY <1>5, <2>1, OthersHold DEF RemappedAs, Mapped
  <2> QED BY <2>2, <2>3
<1>7. fdtab'[fd] = i /\ i # None /\ inodes[i].name = e.name /\ (a # Failed => vm'[a] = i)
  BY <1>4, <1>5 DEF RemappedAs, Mapped, Holds, Named, None, Inode
<1>8. Joined'
  BY <1>2, <1>3, <1>6, <1>7 DEF Holds, Joined
<1>9. Apart'
  BY <1>2, <1>3, <1>6 DEF Holds, Apart
<1>10. Used'
  <2>1. \A f \in Fd \ {fd} : fdtab'[f] # None => f # e.fd /\ fdtab[f] # None
    BY <1>4, <1>5, Types DEF RemappedAs, Closed
  <2> QED BY <1>2, <1>3, <2>1 DEF Holds, Used
<1>11. Named'
  BY DEF Holds, Named
<1> QED
  BY <1>8, <1>9, <1>10, <1>11 DEF Holds

LEMMA HoldsStep == ASSUME TypeOK, OneEach, Holds, [Next]_vars PROVE Holds'
<1> USE DEF server, kernel, files, worker
<1>1. ASSUME NEW n \in Name, OpenFails(n) PROVE Holds'
  <2>1. cache' = Append(cache, Null) /\ UNCHANGED <<fdtab, vm, disk, inodes>>
    BY <1>1 DEF OpenFails
  <2>2. Alive(cache') = Alive(cache) /\ \A k \in Alive(cache) : cache'[k] = cache[k]
    BY <2>1, AppendedNull, Zenon
  <2>3. Joined'
    <3>1. fdtab' = fdtab /\ vm' = vm /\ inodes' = inodes
      BY <2>1
    <3>2. ASSUME NEW k \in Alive(cache')
          PROVE  /\ fdtab'[cache'[k].fd] # None /\ inodes'[fdtab'[cache'[k].fd]].name = cache'[k].name
                 /\ cache'[k].data # Failed => vm'[cache'[k].data] = fdtab'[cache'[k].fd]
      BY <2>2, <3>1, <3>2 DEF Holds, Joined
    <3> QED BY <3>2, Zenon DEF Joined
  <2>4. Apart'
    BY <2>2, Zenon DEF Holds, Apart
  <2>5. Used' /\ Named'
    BY <2>1, <2>2 DEF Holds, Used, Named
  <2> QED BY <2>3, <2>4, <2>5 DEF Holds
<1>2. ASSUME NEW n \in Name, OpenFile(n) PROVE Holds'
  <2>1. PICK fd \in Fd, a \in Addr \cup {Failed} : OpenedAs(n, fd, a)
    BY <1>2, Opens
  <2>2. UNCHANGED <<disk, inodes>> /\ inodes[disk[n]].name = n
    BY <1>2 DEF OpenFile, Holds, Named
  <2> DEFINE l == Len(cache) + 1
  <2>3. /\ Alive(cache') = Alive(cache) \cup {l} /\ l \notin Alive(cache)
        /\ \A k \in Alive(cache) : cache'[k] = cache[k]
    <3>1. PICK e \in Entries : e.fd # NoFd /\ cache' = Append(cache, e)
      BY <2>1, RoomAssumption DEF OpenedAs, Entry, NoFd
    <3> QED BY <3>1, AppendedEntry, AliveIsEntered, Types
  <2>4. cache'[l].name = n /\ cache'[l].fd = fd /\ cache'[l].data = a
    BY <2>1, Types DEF OpenedAs, Entry
  <2>5. \A k \in Alive(cache) : /\ cache[k].fd \in Fd \ {fd} /\ fdtab'[cache[k].fd] = fdtab[cache[k].fd]
                                /\ cache[k].data # Failed => /\ cache[k].data \in Addr \ {a}
                                                             /\ vm'[cache[k].data] = vm[cache[k].data]
    <3> SUFFICES ASSUME NEW k \in Alive(cache)
                 PROVE  <2>5!(k)
      OBVIOUS
    <3> DEFINE e == cache[k]
    <3>1. e.fd \in Fd /\ e.data \in Addr \cup {Failed}
      BY AliveIsEntered, EntryTypes, Types
    <3>2. fdtab[e.fd] # None /\ (e.data # Failed => vm[e.data] = fdtab[e.fd])
      BY DEF Holds, Joined
    <3> HIDE DEF e
    <3>3. e.fd # fd /\ fdtab'[e.fd] = fdtab[e.fd]
      BY <2>1, <3>1, <3>2, Types DEF OpenedAs
    <3>4. e.data # Failed => e.data # a /\ vm'[e.data] = vm[e.data]
      BY <2>1, <3>1, <3>2, Types DEF OpenedAs, Mapped
    <3> QED BY <3>1, <3>3, <3>4 DEF e
  <2>6. fdtab'[fd] = disk[n] /\ disk[n] # None /\ (a # Failed => vm'[a] = disk[n])
    BY <2>1, Types DEF OpenedAs, Mapped, Inode, None
  <2> HIDE DEF l
  <2>7. Joined'
    BY <2>2, <2>3, <2>4, <2>5, <2>6 DEF Holds, Joined
  <2>8. Apart'
    BY <2>3, <2>4, <2>5 DEF Holds, Apart
  <2>9. Used'
    <3>1. \A f \in Fd \ {fd} : fdtab'[f] = fdtab[f]
      BY <2>1, Types DEF OpenedAs
    <3> QED BY <2>3, <2>4, <3>1 DEF Holds, Used
  <2>10. Named'
    BY <2>2 DEF Holds, Named
  <2> QED BY <2>7, <2>8, <2>9, <2>10 DEF Holds
<1>3. ASSUME NEW f \in Fd, Reload(f) PROVE Holds'
  <2>1. UNCHANGED <<disk, inodes>>
    BY <1>3 DEF Reload
  <2>2. CASE UNCHANGED <<cache, kernel>>
    BY <2>1, <2>2 DEF Holds, Joined, Apart, Used, Named
  <2>3. CASE \E k \in Alive(cache) : LostAs(k)
    BY <2>1, <2>3, LosesHold
  <2>4. CASE \E k \in Alive(cache) : /\ disk[cache[k].name] \in Inode
                                     /\ \E fd \in Fd, a \in Addr \cup {Failed} :
                                          RemappedAs(k, disk[cache[k].name], fd, a)
    BY <2>1, <2>4, RemapsHold
  <2> QED BY <1>3, <2>2, <2>3, <2>4, Reloads
<1>4. ASSUME \/ \E n \in Name : Serve(n) \/ ServeCrashes(n) \/ OpenCrashes(n)
             \/ EndLoad \/ Poll \/ ReloadCrashes \/ Fork \/ \E f \in Fd : Touch(f)
             \/ UNCHANGED vars
      PROVE  Holds'
  <2>1. UNCHANGED <<cache, fdtab, vm, disk, inodes>>
    BY <1>4 DEF Serve, ServeCrashes, Answered, OpenCrashes, EndLoad, Poll, ReloadCrashes,
                Fork, Touch, vars
  <2> QED BY <2>1 DEF Holds, Joined, Apart, Used, Named
<1>5. ASSUME Edits PROVE Holds'
  <2>1. UNCHANGED <<server, kernel, worker>> /\ \A i \in Inode : inodes'[i].name = inodes[i].name
    BY <1>5, InodesStay
  <2>2. \A k \in Alive(cache) : cache[k].fd \in Fd
    BY AliveIsEntered, Types
  <2>3. \A f \in Fd : fdtab[f] # None => fdtab[f] \in Inode
    BY Types
  <2>4. Named'
    <3>1. ASSUME NEW n \in Name, Remove(n) PROVE Named'
      BY <3>1, Types DEF Remove, Holds, Named
    <3>2. ASSUME NEW n \in Name, NEW s \in 0..MaxSize, Rewrite(n, s) PROVE Named'
      BY <3>2, <2>1, Types DEF Rewrite, Holds, Named
    <3>3. ASSUME NEW n \in Name, NEW s \in 0..MaxSize, Replace(n, s) PROVE Named'
      <4>1. /\ disk' = [disk EXCEPT ![n] = Len(inodes) + 1]
            /\ inodes' = Append(inodes, [name |-> n, size |-> s])
        BY <3>3 DEF Replace
      <4>2. inodes'[Len(inodes) + 1].name = n
        BY <4>1 DEF TypeOK
      <4>3. \A m \in Name \ {n} : disk'[m] = disk[m] /\ (disk[m] # None => disk[m] \in Inode)
        BY <4>1, Types
      <4> QED BY <2>1, <4>1, <4>2, <4>3, Types DEF Holds, Named
    <3> QED BY <1>5, <3>1, <3>2, <3>3 DEF Edits
  <2>5. Joined'
    BY <2>1, <2>2, <2>3 DEF Holds, Joined
  <2>6. Apart' /\ Used'
    BY <2>1 DEF Holds, Apart, Used
  <2> QED BY <2>4, <2>5, <2>6 DEF Holds
<1> QED
  BY <1>1, <1>2, <1>3, <1>4, <1>5, Steps

-----------------------------------------------------------------------------
(* Events, and what is there while nothing is removed. *)

\* How the alive entries change when one is added, lost or replaced.
LEMMA OpenedCache ==
  ASSUME TypeOK, NEW n \in Name, NEW fd \in Fd, NEW a \in Addr \cup {Failed}, OpenedAs(n, fd, a)
  PROVE  LET l == Len(cache) + 1
         IN /\ Alive(cache') = Alive(cache) \cup {l} /\ Len(cache') = l
            /\ cache'[l].name = n /\ cache'[l].fd = fd /\ cache'[l].data = a
            /\ cache'[l].size = Size(disk[n])
            /\ cache'[l].marks = IF n \in Script THEN Size(disk[n]) ELSE 0
            /\ cache'[l] \in Entries
            /\ \A k \in Alive(cache) : cache'[k] = cache[k] /\ k # l
            /\ \A k \in 1..Len(cache) : cache'[k] = cache[k]
<1> DEFINE e == Entry(n, fd, a, Size(disk[n]), IF n \in Script THEN Size(disk[n]) ELSE 0)
<1>1. e \in Entries /\ e.fd # NoFd /\ cache' = Append(cache, e)
  BY RoomAssumption DEF OpenedAs, Entry, NoFd
<1> HIDE DEF e
<1>2. /\ Alive(cache') = Alive(cache) \cup {Len(cache) + 1} /\ cache'[Len(cache) + 1] = e
      /\ \A k \in Alive(cache) : cache'[k] = cache[k] /\ k # Len(cache) + 1
  BY <1>1, AppendedEntry, AliveIsEntered, Types
<1>3. Len(cache') = Len(cache) + 1 /\ \A k \in 1..Len(cache) : cache'[k] = cache[k]
  BY <1>1, Types
<1>4. /\ e.name = n /\ e.fd = fd /\ e.data = a /\ e.size = Size(disk[n])
      /\ e.marks = IF n \in Script THEN Size(disk[n]) ELSE 0
  BY DEF e, Entry
<1> QED
  BY <1>1, <1>2, <1>3, <1>4

LEMMA RemappedCache ==
  ASSUME TypeOK, NEW k \in Alive(cache), NEW i \in Inode,
         NEW fd \in Fd, NEW a \in Addr \cup {Failed}, RemappedAs(k, i, fd, a)
  PROVE  /\ Alive(cache') = Alive(cache) /\ Len(cache') = Len(cache)
         /\ cache'[k].name = cache[k].name /\ cache'[k].fd = fd /\ cache'[k].data = a
         /\ cache'[k].size = Size(i) /\ cache'[k].marks = cache[k].marks
         /\ cache'[k] \in Entries
         /\ \A j \in 1..Len(cache) : j # k => cache'[j] = cache[j]
         /\ \A j \in Alive(cache) : j \in 1..Len(cache)
<1> DEFINE new == Entry(cache[k].name, fd, a, Size(i), cache[k].marks)
<1>1. new \in Entries /\ new.fd # NoFd /\ cache' = [cache EXCEPT ![k] = new]
  BY RoomAssumption DEF RemappedAs, Entry, NoFd
<1> HIDE DEF new
<1>2. Alive(cache') = Alive(cache) /\ cache'[k] = new
  BY <1>1, ReplacedEntry
<1>3. Len(cache') = Len(cache) /\ \A j \in 1..Len(cache) : j # k => cache'[j] = cache[j]
  BY <1>1, Types
<1>4. \A j \in Alive(cache) : j \in 1..Len(cache)
  BY DEF Alive
<1>5. /\ new.name = cache[k].name /\ new.fd = fd /\ new.data = a
      /\ new.size = Size(i) /\ new.marks = cache[k].marks
  BY DEF new, Entry
<1> QED
  BY <1>1, <1>2, <1>3, <1>4, <1>5

LEMMA LostCache ==
  ASSUME TypeOK, NEW k \in Alive(cache), LostAs(k)
  PROVE  /\ Alive(cache') = Alive(cache) \ {k}
         /\ \A j \in Alive(cache) \ {k} : cache'[j] = cache[j]
<1>1. PICK e \in Entries : e.fd = NoFd /\ cache' = [cache EXCEPT ![k] = e]
  <2>1. [cache[k] EXCEPT !.fd = NoFd].fd = NoFd
    BY AliveIsEntered, EntryTypes, Types DEF Entries
  <2> QED BY <2>1 DEF LostAs
<1> QED
  BY <1>1, ReplacedEntry, AliveIsEntered, Types

LEMMA WatchedStep == ASSUME TypeOK, OneEach, Holds, Watched, [Next]_vars PROVE Watched'
<1> USE DEF server, kernel, files, worker
<1>1. ASSUME NEW n \in Name, OpenFails(n) PROVE Watched'
  <2>1. cache' = Append(cache, Null) /\ UNCHANGED <<armed, fired, batch>>
    BY <1>1 DEF OpenFails
  <2>2. Alive(cache') = Alive(cache) /\ \A k \in Alive(cache) : cache'[k] = cache[k]
    BY <2>1, AppendedNull, Zenon
  <2>3. \A f \in armed \cup fired \cup batch : \E k \in Alive(cache) : cache'[k].fd = f
    BY <2>2 DEF Watched
  <2> QED BY <2>1, <2>2, <2>3, Zenon DEF Watched
<1>2. ASSUME NEW n \in Name, OpenFile(n) PROVE Watched'
  <2>1. PICK fd \in Fd, a \in Addr \cup {Failed} : OpenedAs(n, fd, a)
    BY <1>2, Opens
  <2>2. armed' = armed \cup {fd} /\ UNCHANGED <<fired, batch>>
    BY <1>2, <2>1 DEF OpenFile, OpenedAs
  <2>3. /\ Alive(cache') = Alive(cache) \cup {Len(cache) + 1} /\ cache'[Len(cache) + 1].fd = fd
        /\ \A k \in Alive(cache) : cache'[k] = cache[k]
    BY <2>1, OpenedCache
  <2>4. \A f \in armed \cup fired \cup batch : \E k \in Alive(cache') : cache'[k].fd = f
    BY <2>3 DEF Watched
  <2>5. \E k \in Alive(cache') : cache'[k].fd = fd
    BY <2>3
  <2> QED BY <2>2, <2>4, <2>5 DEF Watched
<1>3. ASSUME NEW f \in Fd, Reload(f) PROVE Watched'
  <2>1. batch' = batch \ {f}
    BY <1>3 DEF Reload
  <2>2. CASE UNCHANGED <<cache, kernel>>
    BY <2>1, <2>2 DEF Watched
  <2>3. ASSUME NEW k \in Alive(cache), cache[k].fd = f,
               armed' = armed \ {f}, fired' = fired \ {f},
               \A j \in Alive(cache) \ {k} : j \in Alive(cache') /\ cache'[j] = cache[j]
        PROVE  Watched'
    <3>1. ASSUME NEW g \in armed' \cup fired' \cup batch'
          PROVE  \E j \in Alive(cache') : cache'[j].fd = g
      <4>1. g \in armed \cup fired \cup batch /\ g # f
        BY <2>1, <2>3
      <4>2. PICK j \in Alive(cache) : cache[j].fd = g
        BY <4>1 DEF Watched
      <4> QED BY <2>3, <4>1, <4>2
    <3> QED BY <3>1 DEF Watched
  <2>4. \A k \in Alive(cache) : LostAs(k) =>
          \A j \in Alive(cache) \ {k} : j \in Alive(cache') /\ cache'[j] = cache[j]
    BY LostCache
  <2>5. \A k \in Alive(cache), i \in Inode, fd \in Fd, a \in Addr \cup {Failed} :
          RemappedAs(k, i, fd, a) =>
            \A j \in Alive(cache) \ {k} : j \in Alive(cache') /\ cache'[j] = cache[j]
    BY RemappedCache
  <2> QED BY <1>3, <2>2, <2>3, <2>4, <2>5, Reloads
<1>4. ASSUME Poll \/ \E f \in Fd : Touch(f) PROVE Watched'
  BY <1>4 DEF Poll, Touch, Watched
<1>5. ASSUME \/ \E n \in Name : Serve(n) \/ ServeCrashes(n) \/ OpenCrashes(n)
             \/ EndLoad \/ ReloadCrashes \/ Fork \/ UNCHANGED vars \/ Edits
      PROVE  Watched'
  <2>1. UNCHANGED <<cache, armed, fired, batch>>
    BY <1>5, InodesStay DEF Serve, ServeCrashes, Answered, OpenCrashes, EndLoad, ReloadCrashes,
                            Fork, vars
  <2> QED BY <2>1 DEF Watched
<1> QED
  BY <1>1, <1>2, <1>3, <1>4, <1>5, Steps

LEMMA EditsGrow == ASSUME TypeOK, [Next]_vars PROVE edits \subseteq edits'
BY InodesStay, Steps DEF OpenFails, OpenFile, Reload, Serve, ServeCrashes, Answered, Fork, OpenCrashes,
     EndLoad, Poll, ReloadCrashes, Touch, vars, server, kernel, files, worker

LEMMA AllThereStep ==
  ASSUME TypeOK, OneEach, Holds, AllThere, [Next]_vars
  PROVE  AllThere'
<1> USE DEF server, kernel, files, worker
<1> SUFFICES ASSUME "removed" \notin edits'
             PROVE  /\ \A n \in Name : disk'[n] # None
                    /\ Complete(cache', walk')
                    /\ forked' => Complete(wcache', {})
  BY DEF AllThere
<1>1. /\ "removed" \notin edits
      /\ \A n \in Name : disk[n] # None
      /\ Complete(cache, walk)
      /\ forked => Complete(wcache, {})
  BY EditsGrow DEF AllThere
<1>2. ASSUME NEW n \in Name, OpenFails(n) PROVE FALSE
  BY <1>1, <1>2 DEF OpenFails
<1>3. ASSUME NEW n \in Name, OpenFile(n)
      PROVE  Complete(cache', walk') /\ UNCHANGED <<disk, forked, wcache>>
  <2>1. PICK fd \in Fd, a \in Addr \cup {Failed} : OpenedAs(n, fd, a)
    BY <1>3, Opens
  <2>2. UNCHANGED <<disk, forked, wcache>> /\ walk' = walk \ {n}
    BY <1>3 DEF OpenFile
  <2> DEFINE l == Len(cache) + 1
  <2>3. /\ Len(cache') = l /\ cache'[l].name = n /\ cache'[l].fd = fd /\ cache'[l] # Null
        /\ \A k \in 1..Len(cache) : cache'[k] = cache[k]
    BY <2>1, OpenedCache, EntryIsNotNull
  <2>4. Len(cache) \in Nat /\ fd # NoFd
    BY Types, RoomAssumption DEF NoFd
  <2>5. \A k \in 1..Len(cache') : cache'[k] # Null /\ cache'[k].fd # NoFd
    BY <1>1, <2>3, <2>4 DEF Complete
  <2>6. \A m \in Name : m \in walk' \/ \E k \in 1..Len(cache') : Has(cache'[k], m)
    <3>1. Has(cache'[l], n)
      BY <2>3 DEF Has
    <3>2. l \in 1..Len(cache') /\ 1..Len(cache) \subseteq 1..Len(cache')
      BY <2>3, <2>4
    <3> HIDE DEF l
    <3> QED BY <1>1, <2>2, <2>3, <3>1, <3>2 DEF Complete
  <2> QED BY <2>2, <2>5, <2>6 DEF Complete
<1>4. ASSUME NEW f \in Fd, Reload(f)
      PROVE  Complete(cache', walk') /\ UNCHANGED <<disk, forked, wcache>>
  <2>1. UNCHANGED <<disk, forked, wcache, walk>>
    BY <1>4 DEF Reload
  <2>2. ASSUME NEW k \in Alive(cache), NEW i \in Inode, NEW fd \in Fd, NEW a \in Addr \cup {Failed},
               RemappedAs(k, i, fd, a)
        PROVE  Complete(cache', walk)
    <3>1. /\ Len(cache') = Len(cache) /\ cache'[k].name = cache[k].name
          /\ cache'[k].fd # NoFd /\ cache'[k] # Null /\ cache[k] # Null
          /\ \A j \in 1..Len(cache) : j # k => cache'[j] = cache[j]
      BY <2>2, RemappedCache, EntryIsNotNull, RoomAssumption DEF NoFd, Alive
    <3>2. \A j \in 1..Len(cache), m \in Name : Has(cache[j], m) => Has(cache'[j], m)
      BY <3>1 DEF Has
    <3>3. \A j \in 1..Len(cache') : cache'[j] # Null /\ cache'[j].fd # NoFd
      BY <1>1, <3>1 DEF Complete
    <3> QED BY <1>1, <3>1, <3>2, <3>3 DEF Complete
  <2>3. \A k \in Alive(cache) : disk[cache[k].name] # None
    BY <1>1, AliveIsEntered, EntryTypes, Types
  <2>4. Complete(cache', walk)
    BY <1>1, <1>4, <2>2, <2>3, Reloads
  <2> QED BY <2>1, <2>4
<1>5. ASSUME Fork PROVE UNCHANGED <<disk, cache, walk>> /\ Complete(wcache', {})
  BY <1>1, <1>5 DEF Fork, OneEach
<1>6. ASSUME NEW n \in Name, Serve(n) \/ ServeCrashes(n)
      PROVE  UNCHANGED <<disk, cache, walk>> /\ forked' = FALSE
  BY <1>6 DEF Serve, ServeCrashes, Answered
<1>7. ASSUME \/ \E n \in Name : OpenCrashes(n)
             \/ EndLoad \/ Poll \/ ReloadCrashes \/ (\E f \in Fd : Touch(f)) \/ UNCHANGED vars
      PROVE  UNCHANGED <<disk, cache, walk, forked, wcache>>
  BY <1>7 DEF OpenCrashes, EndLoad, Poll, ReloadCrashes, Touch, vars
<1>8. ASSUME Edits
      PROVE  UNCHANGED <<cache, walk, forked, wcache>> /\ \A n \in Name : disk'[n] # None
  <2>1. \A n \in Name : ~Remove(n)
    BY DEF Remove, Edit
  <2>2. ASSUME NEW n \in Name, NEW s \in 0..MaxSize, Replace(n, s) PROVE \A m \in Name : disk'[m] # None
    BY <1>1, <2>2, Types DEF Replace, None
  <2>3. ASSUME NEW n \in Name, NEW s \in 0..MaxSize, Rewrite(n, s) PROVE \A m \in Name : disk'[m] # None
    BY <1>1, <2>3 DEF Rewrite
  <2> QED BY <1>8, <2>1, <2>2, <2>3, InodesStay DEF Edits
<1>9. CASE Fork \/ (\E n \in Name : Serve(n) \/ ServeCrashes(n))
  BY <1>1, <1>5, <1>6, <1>9
<1>10. CASE (\E n \in Name : OpenFile(n)) \/ (\E f \in Fd : Reload(f))
  BY <1>1, <1>3, <1>4, <1>10
<1>11. CASE Edits
  BY <1>1, <1>8, <1>11
<1>12. CASE \/ \E n \in Name : OpenCrashes(n)
            \/ EndLoad \/ Poll \/ ReloadCrashes \/ (\E f \in Fd : Touch(f)) \/ UNCHANGED vars
  BY <1>1, <1>7, <1>12
<1> QED
  BY <1>2, <1>9, <1>10, <1>11, <1>12, Steps

LEMMA CurrentStep ==
  ASSUME TypeOK, OneEach, Holds, AllThere, Current, [Next]_vars
  PROVE  Current'
<1> USE DEF server, kernel, files, worker
<1> SUFFICES ASSUME edits' \cap {"removed", "replaced"} = {}
             PROVE  \A k \in Alive(cache') : fdtab'[cache'[k].fd] = disk'[cache'[k].name]
  BY DEF Current
<1>1. /\ "removed" \notin edits
      /\ \A k \in Alive(cache) : fdtab[cache[k].fd] = disk[cache[k].name]
  BY EditsGrow DEF Current
<1>2. ASSUME NEW n \in Name, OpenFails(n) PROVE FALSE
  BY <1>1, <1>2 DEF OpenFails, AllThere
<1>3. ASSUME NEW n \in Name, OpenFile(n)
      PROVE  \A k \in Alive(cache') : fdtab'[cache'[k].fd] = disk'[cache'[k].name]
  <2>1. PICK fd \in Fd, a \in Addr \cup {Failed} : OpenedAs(n, fd, a)
    BY <1>3, Opens
  <2> DEFINE l == Len(cache) + 1
  <2>2. /\ Alive(cache') = Alive(cache) \cup {l} /\ cache'[l].name = n /\ cache'[l].fd = fd
        /\ \A k \in Alive(cache) : cache'[k] = cache[k]
    BY <2>1, OpenedCache
  <2>3. disk' = disk /\ fdtab'[fd] = disk[n]
    BY <1>3, <2>1, Types DEF OpenFile, OpenedAs
  <2>4. \A k \in Alive(cache) : fdtab'[cache[k].fd] = fdtab[cache[k].fd]
    BY <2>1, AliveIsEntered, Types DEF OpenedAs, Holds, Joined
  <2> HIDE DEF l
  <2> QED BY <1>1, <2>2, <2>3, <2>4
<1>4. ASSUME NEW f \in Fd, Reload(f)
      PROVE  \A k \in Alive(cache') : fdtab'[cache'[k].fd] = disk'[cache'[k].name]
  <2>1. disk' = disk
    BY <1>4 DEF Reload
  <2>2. \A k \in Alive(cache) : disk[cache[k].name] # None
    BY <1>1, AliveIsEntered, EntryTypes, Types DEF AllThere
  <2>3. CASE UNCHANGED <<cache, kernel>>
    BY <1>1, <2>1, <2>3
  <2>4. ASSUME NEW k \in Alive(cache), NEW fd \in Fd, NEW a \in Addr \cup {Failed},
               disk[cache[k].name] \in Inode, RemappedAs(k, disk[cache[k].name], fd, a),
               NEW j \in Alive(cache')
        PROVE  fdtab'[cache'[j].fd] = disk[cache'[j].name]
    <3>1. /\ Alive(cache') = Alive(cache) /\ cache'[k].fd = fd /\ cache'[k].name = cache[k].name
          /\ j # k => cache'[j] = cache[j]
      BY <2>4, RemappedCache
    <3>2. Closed(cache[k]) \in [Fd -> Inode \cup {None}]
      BY AliveIsEntered, Types DEF Closed
    <3>3. fdtab'[fd] = disk[cache[k].name]
      BY <2>4, <3>2 DEF RemappedAs
    <3>4. j # k => /\ cache[j].fd \in Fd /\ Closed(cache[k])[cache[j].fd] = fdtab[cache[j].fd]
                   /\ fdtab[cache[j].fd] # None
      BY <3>1, OthersHold DEF Holds, Joined
    <3>5. j # k => fdtab'[cache[j].fd] = fdtab[cache[j].fd]
      BY <2>4, <3>2, <3>4 DEF RemappedAs
    <3> QED BY <1>1, <3>1, <3>3, <3>5
  <2> QED BY <1>4, <2>1, <2>2, <2>3, <2>4, Reloads
<1>5. ASSUME \/ \E n \in Name : Serve(n) \/ ServeCrashes(n) \/ OpenCrashes(n)
             \/ EndLoad \/ Poll \/ ReloadCrashes \/ Fork \/ \E f \in Fd : Touch(f)
             \/ UNCHANGED vars
      PROVE  UNCHANGED <<cache, fdtab, disk>>
  BY <1>5 DEF Serve, ServeCrashes, Answered, OpenCrashes, EndLoad, Poll, ReloadCrashes,
              Fork, Touch, vars
<1>6. ASSUME Edits PROVE UNCHANGED <<cache, fdtab, disk>>
  <2>1. /\ \A n \in Name : ~Remove(n)
        /\ \A n \in Name, s \in 0..MaxSize : ~Replace(n, s)
    BY DEF Remove, Replace, Edit
  <2>2. \A n \in Name, s \in 0..MaxSize : Rewrite(n, s) => UNCHANGED <<cache, fdtab, disk>>
    BY DEF Rewrite
  <2> QED BY <1>6, <2>1, <2>2 DEF Edits
<1> QED
  BY <1>1, <1>2, <1>3, <1>4, <1>5, <1>6, Steps

-----------------------------------------------------------------------------
(* What lies behind an address. *)

\* Edits leave what an entry makes of its address, whatever becomes of the file.
LEMMA EditsFit ==
  ASSUME TypeOK, Edits, NEW e \in Entries, NEW v \in [Addr -> Inode \cup {None}], EntryFits(e, v)
  PROVE  EntryFits(e, v)'
<1>1. /\ e.data \in Addr \cup {Failed} /\ e.size \in 0..MaxSize /\ e.marks \in 0..MaxSize
  BY DEF Entries
<1>2. e.data # Failed => v[e.data] \in Inode /\ v[e.data] # None
  BY <1>1 DEF EntryFits
<1>3. /\ edits \subseteq edits'
      /\ e.data # Failed => /\ inodes'[v[e.data]].name = inodes[v[e.data]].name
                            /\ Size(v[e.data]) \in Int /\ Size(v[e.data])' \in Int
                            /\ "cut" \notin edits' => Size(v[e.data]) <= Size(v[e.data])'
  BY <1>2, InodesStay
<1> QED
  BY <1>1, <1>2, <1>3 DEF EntryFits

\* Nor does a step that leaves the entry and its address alone.
LEMMA SameFits ==
  ASSUME NEW k \in Alive(cache), EntryFits(cache[k], vm), cache'[k] = cache[k],
         cache[k].data # Failed => vm'[cache[k].data] = vm[cache[k].data],
         UNCHANGED <<inodes, edits>>
  PROVE  EntryFits(cache[k], vm)'
BY DEF EntryFits, Size

LEMMA OpenedFits ==
  ASSUME TypeOK, Holds, Fits(cache, vm), NEW n \in Name, NEW fd \in Fd, NEW a \in Addr \cup {Failed},
         OpenedAs(n, fd, a), UNCHANGED <<inodes, edits>>, inodes[disk[n]].name = n
  PROVE  Fits(cache, vm)'
<1>0. PICK l : l = Len(cache) + 1
  OBVIOUS
<1>1. /\ Alive(cache') = Alive(cache) \cup {l}
      /\ \A k \in Alive(cache) : cache'[k] = cache[k]
      /\ cache'[l].name = n /\ cache'[l].data = a /\ cache'[l].size = Size(disk[n])
      /\ cache'[l].marks = IF n \in Script THEN Size(disk[n]) ELSE 0
  BY <1>0, OpenedCache
<1>2. ASSUME NEW k \in Alive(cache) PROVE EntryFits(cache[k], vm)'
  <2>1. cache[k].data # Failed => cache[k].data \in Addr /\ vm[cache[k].data] # None
    BY AliveIsEntered, EntryTypes, Types DEF Fits, EntryFits
  <2>2. cache[k].data # Failed => vm'[cache[k].data] = vm[cache[k].data]
    BY <2>1, Types DEF OpenedAs, Mapped
  <2> QED BY <1>1, <2>2, SameFits DEF Fits
<1>3. a # Failed => vm'[a] = disk[n] /\ disk[n] # None
  BY Types DEF OpenedAs, Mapped, None, Inode
<1>4. disk[n] \in Inode /\ Size(disk[n]) \in 0..MaxSize /\ (a = Failed <=> Size(disk[n]) = 0)
  BY Types DEF OpenedAs, Size
<1>5. EntryFits(cache[l], vm)'
  BY <1>1, <1>3, <1>4 DEF EntryFits, Size
<1> QED
  BY <1>1, <1>2, <1>5 DEF Fits

LEMMA RemappedFits ==
  ASSUME TypeOK, Holds, AllThere, Current, Fits(cache, vm), NEW k \in Alive(cache),
         disk[cache[k].name] \in Inode, NEW fd \in Fd, NEW a \in Addr \cup {Failed},
         RemappedAs(k, disk[cache[k].name], fd, a), UNCHANGED <<inodes, edits>>
  PROVE  Fits(cache, vm)'
<1> DEFINE e == cache[k]
           i == disk[e.name]
<1>1. /\ e.name \in Name /\ e.fd \in Fd /\ e.data \in Addr \cup {Failed}
      /\ e.size \in 0..MaxSize /\ e.marks \in 0..MaxSize
      /\ Size(i) \in 0..MaxSize /\ i # None
  <2>1. /\ e.name \in Name /\ e.fd \in Fd /\ e.data \in Addr \cup {Failed}
        /\ e.size \in 0..MaxSize /\ e.marks \in 0..MaxSize
    BY AliveIsEntered, EntryTypes, Types
  <2>2. i \in Inode /\ Size(i) \in 0..MaxSize
    BY Types DEF Size
  <2> QED BY <2>1, <2>2 DEF Inode, None
<1>2. /\ Alive(cache') = Alive(cache)
      /\ \A j \in Alive(cache) : j # k => cache'[j] = cache[j]
      /\ cache'[k].name = e.name /\ cache'[k].data = a
      /\ cache'[k].size = Size(i) /\ cache'[k].marks = e.marks
  BY RemappedCache
<1>3. ASSUME NEW j \in Alive(cache), j # k PROVE EntryFits(cache[j], vm)'
  <2>1. cache[j].data # Failed => vm[cache[j].data] # None
    BY DEF Fits, EntryFits
  <2>2. Unmapped(e) \in [Addr -> Inode \cup {None}]
    BY <1>1, Types DEF Unmapped
  <2>3. cache[j].data # Failed => vm'[cache[j].data] = vm[cache[j].data]
    BY <1>3, <2>1, <2>2, OthersHold DEF RemappedAs, Mapped
  <2> QED BY <1>2, <1>3, <2>3, SameFits DEF Fits
<1>4. (a = Failed <=> Size(i) = 0) /\ (a # Failed => vm'[a] = i)
  <2>1. Unmapped(e) \in [Addr -> Inode \cup {None}]
    BY <1>1, Types DEF Unmapped
  <2> QED BY <2>1 DEF RemappedAs, Mapped
<1>5. inodes[i].name = e.name
  BY <1>1 DEF Holds, Named
<1>6. edits \cap {"removed", "cut", "replaced"} = {} => e.marks <= Size(i)
  <2> SUFFICES ASSUME edits \cap {"removed", "cut", "replaced"} = {} PROVE e.marks <= Size(i)
    OBVIOUS
  <2>1. fdtab[e.fd] = i
    BY DEF Current
  <2>2. e.marks <= e.size /\ (e.data = Failed => e.size = 0)
        /\ (e.data # Failed => e.size <= Size(vm[e.data]) /\ vm[e.data] = fdtab[e.fd])
    BY DEF Fits, EntryFits, Holds, Joined
  <2> QED BY <1>1, <2>1, <2>2
<1>7. e.name \notin Script => e.marks = 0
  BY DEF Fits, EntryFits
<1> HIDE DEF i
<1>8. EntryFits(cache[k], vm)'
  BY <1>1, <1>2, <1>4, <1>5, <1>6, <1>7 DEF EntryFits, Size
<1> QED
  BY <1>2, <1>3, <1>8 DEF Fits, EntryFits

LEMMA LostFits ==
  ASSUME TypeOK, Holds, Fits(cache, vm), NEW k \in Alive(cache), LostAs(k), UNCHANGED <<inodes, edits>>
  PROVE  Fits(cache, vm)'
<1>1. /\ Alive(cache') = Alive(cache) \ {k}
      /\ \A j \in Alive(cache) \ {k} : cache'[j] = cache[j]
  BY LostCache
<1>2. ASSUME NEW j \in Alive(cache), j # k PROVE EntryFits(cache[j], vm)'
  <2>1. cache[j].data # Failed => vm'[cache[j].data] = vm[cache[j].data]
    BY <1>2, OthersHold DEF LostAs
  <2> QED BY <1>1, <1>2, <2>1, SameFits DEF Fits
<1> QED
  BY <1>1, <1>2 DEF Fits, EntryFits

LEMMA FitsStep ==
  ASSUME TypeOK, OneEach, Holds, AllThere, Current, Fits(cache, vm), forked => Fits(wcache, wvm),
         [Next]_vars
  PROVE  Fits(cache, vm)' /\ (forked' => Fits(wcache, wvm)')
<1> USE DEF server, kernel, files, worker
<1>1. ASSUME NEW n \in Name, OpenFails(n) PROVE Fits(cache, vm)'
  <2>1. cache' = Append(cache, Null) /\ UNCHANGED <<vm, inodes, edits>>
    BY <1>1 DEF OpenFails
  <2>2. Alive(cache') = Alive(cache) /\ \A k \in Alive(cache) : cache'[k] = cache[k]
    BY <2>1, AppendedNull, Zenon
  <2>3. ASSUME NEW k \in Alive(cache) PROVE EntryFits(cache[k], vm)'
    BY <2>1, <2>2, SameFits DEF Fits
  <2> QED BY <2>2, <2>3 DEF Fits, EntryFits
<1>2. ASSUME NEW n \in Name, OpenFile(n) PROVE Fits(cache, vm)'
  <2>1. UNCHANGED <<inodes, edits>> /\ inodes[disk[n]].name = n
    BY <1>2 DEF OpenFile, Holds, Named
  <2> QED BY <1>2, <2>1, Opens, OpenedFits
<1>3. ASSUME NEW f \in Fd, Reload(f) PROVE Fits(cache, vm)'
  <2>1. UNCHANGED <<inodes, edits>>
    BY <1>3 DEF Reload
  <2>2. CASE UNCHANGED <<cache, kernel>>
    BY <2>1, <2>2 DEF Fits, EntryFits, Size
  <2> QED BY <1>3, <2>1, <2>2, Reloads, RemappedFits, LostFits
<1>4. ASSUME Edits PROVE Fits(cache, vm)' /\ (forked' => Fits(wcache, wvm)')
  <2>1. UNCHANGED <<server, kernel, worker>>
    BY <1>4, InodesStay
  <2>2. ASSUME NEW k \in Alive(cache) PROVE EntryFits(cache[k], vm)'
    <3>1. cache[k] \in Entries /\ EntryFits(cache[k], vm) /\ vm \in [Addr -> Inode \cup {None}]
      BY AliveIsEntered, EntryTypes, Types DEF Fits
    <3>2. PICK e \in Entries, v \in [Addr -> Inode \cup {None}] : e = cache[k] /\ v = vm
      BY <3>1
    <3>3. EntryFits(e, v)'
      BY <1>4, <3>1, <3>2, EditsFit
    <3> QED BY <2>1, <3>2, <3>3 DEF EntryFits, Size
  <2>3. ASSUME forked, NEW k \in Alive(wcache) PROVE EntryFits(wcache[k], wvm)'
    <3>1. wcache[k] \in Entries /\ EntryFits(wcache[k], wvm) /\ wvm \in [Addr -> Inode \cup {None}]
      BY <2>3, AliveIsEntered, EntryTypes, Types DEF Fits
    <3>2. PICK e \in Entries, v \in [Addr -> Inode \cup {None}] : e = wcache[k] /\ v = wvm
      BY <3>1
    <3>3. EntryFits(e, v)'
      BY <1>4, <3>1, <3>2, EditsFit
    <3> QED BY <2>1, <3>2, <3>3 DEF EntryFits, Size
  <2> QED BY <2>1, <2>2, <2>3 DEF Fits
<1>5. ASSUME Fork PROVE Fits(cache, vm)' /\ Fits(wcache, wvm)'
  BY <1>5 DEF Fork, Fits, EntryFits, Size
<1>6. ASSUME NEW n \in Name, Serve(n) \/ ServeCrashes(n) PROVE Fits(cache, vm)' /\ ~forked'
  BY <1>6 DEF Serve, ServeCrashes, Answered, Fits, EntryFits, Size
<1>7. ASSUME \/ \E n \in Name : OpenCrashes(n)
             \/ EndLoad \/ Poll \/ ReloadCrashes \/ (\E f \in Fd : Touch(f)) \/ UNCHANGED vars
      PROVE  Fits(cache, vm)' /\ (forked' => Fits(wcache, wvm)')
  <2>1. UNCHANGED <<cache, vm, inodes, edits, worker>>
    BY <1>7 DEF OpenCrashes, EndLoad, Poll, ReloadCrashes, Touch, vars
  <2> QED BY <2>1 DEF Fits, EntryFits, Size
<1>8. ASSUME \/ \E n \in Name : OpenFails(n) \/ OpenFile(n)
             \/ \E f \in Fd : Reload(f)
      PROVE  forked' => Fits(wcache, wvm)'
  <2>1. UNCHANGED <<inodes, edits, worker>>
    BY <1>8 DEF OpenFails, OpenFile, Reload
  <2> QED BY <2>1 DEF Fits, EntryFits, Size
<1> QED
  BY <1>1, <1>2, <1>3, <1>4, <1>5, <1>6, <1>7, <1>8, Steps

-----------------------------------------------------------------------------
(* What the workers answer, and what ends the server. *)

\* With nothing removed or cut, all of an entry is there; of a template's, with nothing
\* replaced either.
LEMMA FoundIsWhole ==
  ASSUME TypeOK, Fits(wcache, wvm), NEW k \in Alive(wcache), "cut" \notin edits,
         wcache[k].name \in Script => edits \cap {"removed", "replaced"} = {}
  PROVE  Whole(wcache[k])
<1> DEFINE e == wcache[k]
<1>1. /\ e.data \in Addr \cup {Failed} /\ e.size \in Nat /\ e.marks \in Nat
  BY AliveIsEntered, EntryTypes, Types
<1>2. EntryFits(e, wvm)
  BY DEF Fits
<1> HIDE DEF e
<1>3. Reads(e) \in Nat /\ Reads(e) <= e.size
  <2>1. e.name \in Script => e.marks <= e.size
    BY <1>2 DEF EntryFits, e
  <2> QED BY <1>1, <2>1 DEF Reads
<1>4. CASE e.data = Failed
  <2>1. e.size = 0
    BY <1>2, <1>4 DEF EntryFits
  <2>2. Reads(e) = 0
    BY <1>3, <2>1
  <2> QED BY <2>2 DEF Whole, e
<1>5. CASE e.data # Failed
  <2>1. wvm[e.data] \in Inode /\ Behind(e) = wvm[e.data] /\ Behind(e) # None
    BY <1>1, <1>2, <1>5, Types DEF EntryFits, Behind
  <2>2. Size(Behind(e)) \in Nat /\ e.size <= Size(Behind(e))
    BY <1>2, <1>5, <2>1, Types DEF EntryFits, Size
  <2>3. Pages(Reads(e)) <= Pages(Size(Behind(e)))
    <3>1. PICK a \in Nat, b \in Nat : a = Reads(e) /\ b = Size(Behind(e)) /\ a <= b
      BY <1>1, <1>3, <2>2
    <3>2. Pages(a) <= Pages(b)
      BY <3>1, PagesGrow
    <3> QED BY <3>1, <3>2
  <2> QED BY <2>1, <2>3 DEF Whole, e
<1> QED
  BY <1>4, <1>5 DEF e

LEMMA ServeAnswers ==
  ASSUME TypeOK, AllThere, Fits(wcache, wvm), NEW n \in Name, Serve(n) \/ ServeCrashes(n)
  PROVE  Answers'
<1>1. forked /\ UNCHANGED <<inodes, edits>>
  BY DEF Serve, ServeCrashes, Answered, files
<1>2. ASSUME "removed" \notin edits
      PROVE  Serve(n) /\ Found(n) # {} /\ \A k \in Found(n) : k \in Alive(wcache)
  <2>1. Complete(wcache, {})
    BY <1>1, <1>2 DEF AllThere
  <2>2. Seen(n) \subseteq 1..Len(wcache)
    <3>1. CASE Found(n) = {}
      BY <3>1 DEF Seen
    <3>2. CASE Found(n) # {}
      <4>1. Min(Found(n)) \in 1..Len(wcache)
        BY <3>2, FoundEntry DEF Entered
      <4>2. Len(wcache) \in Nat
        BY Types
      <4> QED BY <3>2, <4>1, <4>2 DEF Seen
    <3> QED BY <3>1, <3>2
  <2>3. \A k \in 1..Len(wcache) : wcache[k] # Null /\ wcache[k].fd # NoFd
    BY <2>1 DEF Complete
  <2>4. Found(n) # {} /\ \A k \in Found(n) : k \in Alive(wcache)
    BY <2>1, <2>3 DEF Complete, Found, Alive
  <2> QED BY <2>2, <2>3, <2>4 DEF ServeCrashes
<1>3. CASE Serve(n) /\ Found(n) # {}
  <2> DEFINE k == Min(Found(n))
             e == wcache[k]
  <2>1. k \in Entered(wcache) /\ e \in Entries /\ e.name = n
    BY <1>3, FoundEntry
  <2>2. /\ answer'.name = n /\ answer'.entry = e /\ answer'.inode = Behind(e) /\ answer' # NoAnswer
        /\ answer'.kind = "200" <=> Whole(e)
    <3>1. PICK kind \in IF Whole(e) THEN {"200"}
                        ELSE IF n \in Script THEN {"broken", "crashed"} ELSE {"broken"} :
            answer' = Answer(n, kind, e, Behind(e))
      BY <1>3 DEF Serve
    <3>2. (kind = "200" <=> Whole(e)) /\ kind # "none"
      BY <3>1
    <3>3. answer'.kind = kind /\ answer'.name = n /\ answer'.entry = e /\ answer'.inode = Behind(e)
      BY <3>1 DEF Answer
    <3> QED BY <3>2, <3>3 DEF NoAnswer
  <2>3. k \in Found(n)
    BY <2>1, EntryIsNotNull DEF Found, Has, Entered
  <2> HIDE DEF k
  <2>4. ASSUME Whole(e), e.fd # NoFd, Reads(e) > 0
        PROVE  Behind(e) # None /\ inodes[Behind(e)].name = n
    <3>1. k \in Alive(wcache)
      BY <2>1, <2>4 DEF Alive, Entered
    <3>2. Behind(e) # None
      BY <2>1, <2>4, EntryTypes, Types DEF Whole, Entries, Reads
    <3>3. e.data # Failed /\ Behind(e) = wvm[e.data]
      BY <3>2 DEF Behind
    <3> QED BY <2>1, <3>1, <3>2, <3>3 DEF Fits, EntryFits
  <2>5. ASSUME edits \cap {"removed", "cut"} = {}
        PROVE  Whole(e) \/ (n \in Script /\ "replaced" \in edits)
    <3>1. k \in Alive(wcache)
      BY <1>2, <2>3, <2>5
    <3>2. CASE e.name \in Script => "replaced" \notin edits
      <4>1. "cut" \notin edits /\ (wcache[k].name \in Script => edits \cap {"removed", "replaced"} = {})
        BY <2>5, <3>2
      <4> QED BY <3>1, <4>1, FoundIsWhole, Zenon
    <3> QED BY <2>1, <3>2
  <2> HIDE DEF e
  <2> QED BY <1>1, <2>2, <2>4, <2>5 DEF Answers, RightContent, Reads
<1>4. CASE ~(Serve(n) /\ Found(n) # {})
  <2>1. "removed" \in edits
    BY <1>2, <1>4
  <2>2. answer'.kind # "200"
    BY <1>4 DEF Serve, ServeCrashes, Answer
  <2> QED BY <1>1, <2>1, <2>2 DEF Answers, RightContent
<1> QED
  BY <1>3, <1>4

LEMMA AnswersStep ==
  ASSUME TypeOK, AllThere, forked => Fits(wcache, wvm), Answers, [Next]_vars
  PROVE  Answers'
<1> USE DEF server, kernel, files, worker
<1>1. ASSUME NEW n \in Name, Serve(n) \/ ServeCrashes(n) PROVE Answers'
  BY <1>1, ServeAnswers DEF Serve, ServeCrashes
<1>2. ASSUME Edits PROVE Answers'
  <2>1. answer' = answer /\ edits \subseteq edits'
    BY <1>2, InodesStay
  <2>2. CASE answer.kind = "200" /\ answer.entry.fd # NoFd /\ Reads(answer.entry) > 0
    <3>1. answer.inode \in Inode /\ inodes[answer.inode].name = answer.name
      BY <2>2 DEF Answers, RightContent, TypeOK, NoAnswer
    <3>2. inodes'[answer.inode].name = answer.name
      BY <1>2, <3>1, InodesStay
    <3> QED BY <2>1, <2>2, <3>1, <3>2 DEF Answers, RightContent, Reads
  <2>3. CASE ~(answer.kind = "200" /\ answer.entry.fd # NoFd /\ Reads(answer.entry) > 0)
    BY <2>1, <2>3 DEF Answers, RightContent, Reads
  <2> QED BY <2>2, <2>3
<1>3. ASSUME \/ \E n \in Name : OpenFails(n) \/ OpenFile(n) \/ OpenCrashes(n)
             \/ \E f \in Fd : Reload(f) \/ Touch(f)
             \/ EndLoad \/ Poll \/ ReloadCrashes \/ Fork \/ UNCHANGED vars
      PROVE  Answers'
  <2>1. UNCHANGED <<answer, inodes, edits>>
    BY <1>3 DEF OpenFails, OpenFile, OpenCrashes, Reload, Touch, EndLoad, Poll, ReloadCrashes, Fork, vars
  <2> QED BY <2>1 DEF Answers, RightContent, Reads
<1> QED
  BY <1>1, <1>2, <1>3, Steps

LEMMA CrashStep ==
  ASSUME TypeOK, Holds, AllThere, OnlyKnownCrashes, [Next]_vars
  PROVE  OnlyKnownCrashes'
<1> USE DEF server, kernel, files, worker
<1>1. ASSUME NEW n \in Name, OpenCrashes(n) PROVE OnlyKnownCrashes'
  <2>1. disk[n] \in Inode /\ inodes[disk[n]].name = n
    BY <1>1, Types DEF OpenCrashes, Holds, Named
  <2>2. /\ n \in walk' \cap Script /\ Size(disk[n]) % PageSize = 0
        /\ UNCHANGED <<walk, inodes, edits, disk>>
    BY <1>1 DEF OpenCrashes, ParseMayCrash
  <2> QED BY <2>1, <2>2 DEF OnlyKnownCrashes, Size, Inode
<1>2. ASSUME ReloadCrashes PROVE OnlyKnownCrashes'
  <2>1. "removed" \in edits /\ edits' = edits
    BY <1>2 DEF ReloadCrashes, AllThere, Complete
  <2> QED BY <2>1 DEF OnlyKnownCrashes
<1>3. ASSUME \/ \E n \in Name : OpenFails(n) \/ OpenFile(n)
             \/ \E f \in Fd : Reload(f)
             \/ EndLoad
      PROVE  OnlyKnownCrashes'
  BY <1>3 DEF OpenFails, OpenFile, Reload, EndLoad, OnlyKnownCrashes
<1>4. ASSUME \/ \E n \in Name : Serve(n) \/ ServeCrashes(n)
             \/ (\E f \in Fd : Touch(f)) \/ Poll \/ Fork \/ UNCHANGED vars
      PROVE  OnlyKnownCrashes'
  <2>1. UNCHANGED <<pc, walk, inodes, edits>>
    BY <1>4 DEF Serve, ServeCrashes, Answered, Touch, Poll, Fork, vars
  <2> QED BY <2>1 DEF OnlyKnownCrashes, Size, Inode
<1>5. ASSUME Edits PROVE OnlyKnownCrashes'
  <2>1. UNCHANGED <<pc, walk>> /\ edits \subseteq edits'
    BY <1>5, InodesStay
  <2>2. ASSUME NEW n \in Name, Remove(n) PROVE "removed" \in edits'
    BY <2>2 DEF Remove, Edit
  <2>3. ASSUME NEW n \in Name, NEW s \in 0..MaxSize, Rewrite(n, s)
        PROVE  edits' \cap {"cut", "extended"} # {}
    BY <2>3 DEF Rewrite, Edit
  <2>4. ASSUME NEW n \in Name, NEW s \in 0..MaxSize, Replace(n, s)
        PROVE  \A i \in Inode : i \in Inode' /\ inodes'[i] = inodes[i]
    BY <2>4 DEF Replace, TypeOK, Inode
  <2>5. CASE edits' \cap {"removed", "cut", "extended"} # {}
    BY <2>5 DEF OnlyKnownCrashes
  <2>6. CASE \E n \in Name, s \in 0..MaxSize : Replace(n, s)
    BY <2>1, <2>4, <2>6 DEF OnlyKnownCrashes, Size
  <2> QED BY <1>5, <2>2, <2>3, <2>5, <2>6 DEF Edits
<1> QED
  BY <1>1, <1>2, <1>3, <1>4, <1>5, Steps, Zenon

-----------------------------------------------------------------------------
(* The theorems. *)

LEMMA InitHolds == Init => IInv
<1> SUFFICES ASSUME Init PROVE IInv
  OBVIOUS
<1>1. TypeOK
  BY InitType
<1>2. cache = <<>> /\ walk = Name /\ pc = "load" /\ forked = FALSE /\ answer = NoAnswer
  BY DEF Init
<1>3. armed = {} /\ fired = {} /\ batch = {} /\ edits = {} /\ fdtab = [f \in Fd |-> None]
  BY DEF Init
<1>4. Alive(cache) = {} /\ Entered(cache) = {}
  BY <1>2 DEF Alive, Entered
<1>5. \A n \in Name : disk[n] # None /\ inodes[disk[n]].name = n
  <2>1. PICK size \in [Name -> 0..MaxSize] :
          inodes = [i \in 1..Cardinality(Name) |-> [name |-> Names[i], size |-> size[Names[i]]]]
    BY DEF Init
  <2>2. ASSUME NEW n \in Name PROVE disk[n] \in 1..Cardinality(Name) /\ Names[disk[n]] = n
    <3>1. disk[n] = CHOOSE i \in DOMAIN Names : Names[i] = n
      BY DEF Init
    <3>2. \E i \in DOMAIN Names : Names[i] = n
      BY NamesNumber
    <3> QED BY <3>1, <3>2, NamesNumber
  <2> QED BY <2>1, <2>2, NamesNumber DEF None
<1>6. OneEach
  BY <1>2, <1>4 DEF OneEach
<1>7. Holds
  BY <1>3, <1>4, <1>5 DEF Holds, Joined, Apart, Used, Named
<1>8. Watched /\ Current /\ Fits(cache, vm) /\ OnlyKnownCrashes
  BY <1>2, <1>3, <1>4 DEF Watched, Current, Fits, OnlyKnownCrashes
<1>9. AllThere
  BY <1>2, <1>5 DEF AllThere, Complete
<1>10. Answers
  BY <1>2 DEF Answers, RightContent, NoAnswer
<1> QED
  BY <1>1, <1>2, <1>6, <1>7, <1>8, <1>9, <1>10 DEF IInv

LEMMA StepKeeps == IInv /\ [Next]_vars => IInv'
BY TypeStep, OneEachStep, HoldsStep, WatchedStep, AllThereStep, CurrentStep, FitsStep, AnswersStep,
   CrashStep DEF IInv

\* Every step of the disk, the server and its workers keeps the invariant.
THEOREM Invariance == Spec => []IInv
BY InitHolds, StepKeeps, PTL DEF Spec

\* Type correctness: the states are those the declarations promise; above all, the descriptor
\* of every entry is one of the kernel's or NoFd, and there is always one to give out
\* (files.c:21-46).
THEOREM TypeCorrect == Spec => []TypeOK
<1>1. IInv => TypeOK
  BY DEF IInv
<1> QED BY Invariance, <1>1, PTL

\* Whatever is replaced, removed and reloaded in whatever order, an entry's descriptor and
\* its address lead to the same file, of its name, and no two entries share a descriptor
\* (files.c:84-104).
THEOREM EntriesAlwaysHold == Spec => []EntriesHold
<1>1. IInv => EntriesHold
  BY DEF IInv, Holds, Joined, Apart, EntriesHold
<1> QED BY Invariance, <1>1, PTL

\* An event that waits is about an entry that still has the descriptor its knote was armed
\* for (files.c:87-90, bsd.c:57).
THEOREM EventsAlwaysHit == Spec => []EventsHitEntries
<1>1. IInv => EventsHitEntries
  <2> SUFFICES ASSUME IInv, NEW f \in armed \cup fired \cup batch
               PROVE  \E k \in Alive(cache) :
                        cache[k].fd = f /\ \A j \in 1..(k - 1) : cache[j] # Null => cache[j].fd # f
    BY DEF EventsHitEntries
  <2>1. PICK k \in Alive(cache) : cache[k].fd = f
    BY DEF IInv, Watched
  <2>2. f # NoFd /\ k \in 1..Len(cache) /\ Len(cache) \in Nat
    BY <2>1, Types DEF IInv, Alive
  <2>3. ASSUME NEW j \in 1..(k - 1), cache[j] # Null PROVE cache[j].fd # f
    <3>1. cache[j].fd = f => j \in Alive(cache)
      BY <2>2, <2>3 DEF Alive
    <3> QED BY <2>1, <2>2, <3>1 DEF IInv, Holds, Apart
  <2> QED BY <2>1, <2>3
<1> QED BY Invariance, <1>1, PTL

\* A worker sends a file's name from a file of that name, and while nothing is removed or
\* cut, in full; a template, while none is replaced (files.c:84-104, lws.c:63-77).
THEOREM ContentIsRight == Spec => []RightContent
<1>1. IInv => RightContent
  BY DEF IInv, Answers
<1> QED BY Invariance, <1>1, PTL

\* The server ends by a NULL a removal left in its cache, or by a template with no byte
\* behind it in its last page, and by nothing else (files.c:40 and 87-90).
THEOREM CrashesAreKnown == Spec => []OnlyKnownCrashes
<1>1. IInv => OnlyKnownCrashes
  BY DEF IInv
<1> QED BY Invariance, <1>1, PTL
=============================================================================
