------------------------------- MODULE Routes -------------------------------
(***************************************************************************)
(* From the path of a request to the file and the handler that answer it:  *)
(* get_method(), deauth_path(), get_index(), lookup_mimetype() (methods.c, *)
(* index.c, mime.c).  Pure functions of the path, the cache and what       *)
(* stat() says of the disk.                                                *)
(*                                                                         *)
(* A path is the sequence of the segments behind its slashes, an empty one *)
(* behind a slash at the end; a segment is a sequence of parts, so that a  *)
(* name can be put together from two.                                      *)
(***************************************************************************)
EXTENDS Integers, SequencesExt

CONSTANTS Indexes,   \* the parts of indexes[], in its order
          Types      \* mime_types[] without its last row: [ending, handler]

NotFound == << <<"404">> >>
NoToken  == <<>>

\* stat() does not mind empty segments, but a file is no directory.
Plain(p)          == SelectSeq(p, LAMBDA s : s # <<>>)
IsDirectory(d, p) == Plain(p) \in d.dirs
IsFile(d, p)      == Plain(p) \in d.files /\ p # <<>> /\ Last(p) # <<>>

Rest(p, k) == SubSeq(p, k, Len(p))

\* Mutant: only directories are looked for under the whole path.
DeauthPathNoFile(d, p) ==
  LET tokens == {k \in 2..Len(p) : IsDirectory(d, Rest(p, k))}
  IN IF IsDirectory(d, p) \/ tokens = {}
     THEN [path |-> p, token |-> NoToken]
     ELSE [path |-> Rest(p, Min(tokens)), token |-> SubSeq(p, 1, Min(tokens) - 1)]

\* A path that does not exist loses its first segments, up to the first slash that
\* leads to a directory: they are an authentication token.
DeauthPath(d, p) ==
  LET tokens == {k \in 2..Len(p) : IsDirectory(d, Rest(p, k))}
  IN IF IsDirectory(d, p) \/ IsFile(d, p) \/ tokens = {}
     THEN [path |-> p, token |-> NoToken]
     ELSE [path |-> Rest(p, Min(tokens)), token |-> SubSeq(p, 1, Min(tokens) - 1)]

\* Names are compared as they are; those in the cache have no empty segments.
Load(cached, p) == IF p \in cached THEN p ELSE NotFound

\* Both forms of get_index(): the index behind the name, and behind a slash.
Glued(p, x)   == Append(Front(p), Append(Last(p), x))
Inside(p, x)  == Append(p, <<x>>)

GetIndex(cached, p) ==
  LET tried == FlattenSeq([k \in 1..Len(Indexes) |->
                             <<Glued(p, Indexes[k]), Inside(p, Indexes[k])>>])
      hits  == {k \in 1..Len(tried) : tried[k] \in cached}
  IN IF hits = {} THEN NotFound ELSE tried[Min(hits)]

GetMethod(d, cached, p) ==
  LET filename == DeauthPath(d, p).path
  IN IF IsDirectory(d, filename) THEN GetIndex(cached, filename) ELSE Load(cached, filename)

-----------------------------------------------------------------------------
(* lookup_mimetype(), on the characters of a name. *)

\* What is behind the last dot; a dot at the very end is none, and without one it is
\* the whole name.
Ending(name) ==
  LET dots == {k \in 1..(Len(name) - 1) : name[k] = "."}
  IN IF dots = {} THEN name ELSE SubSeq(name, Max(dots) + 1, Len(name))

\* The first row with that ending, the last row for any other.
Handler(name) ==
  LET rows == {k \in 1..Len(Types) : Types[k].ending = Ending(name)}
  IN IF rows = {} THEN "img_handler" ELSE Types[Min(rows)].handler
=============================================================================
