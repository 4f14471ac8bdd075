------------------------------ MODULE MountPoint ------------------------------
(* A mount point (lib/server/mount_point_entry.cpp, lib/html/html.cpp): a path *)
(* below it is tested, looked up below base_dir_ and answered with a file, a  *)
(* default document, a listing or an error.  Every call into the file system  *)
(* is a step, between which other programs create and remove entries.  The    *)
(* file system resolves names as POSIX does, without symbolic links.          *)
EXTENDS Integers, Sequences, SequencesExt, FiniteSets

CONSTANTS
  MaxLen,      \* the longest path, in segments
  MaxChanges   \* how often the file system changes during a request

\* The segments of a path below the mount point; "" is what two slashes in a row
\* or a slash at the end leave, and "bad" one with a backslash or a zero in it.
PathSegments == {"f", "d", "index", "outside", ".", "..", "", "bad"}
Paths    == UNION {[1 .. n -> PathSegments] : n \in 1 .. MaxLen}

DefaultDocs == <<"index", "f">>

base    == <<"base">>
Below   == {base \o <<"f">>, base \o <<"d">>, base \o <<"index">>, base \o <<"d", "index">>}
Nodes   == Below \cup {<<>>, base, <<"outside">>}
Nowhere == <<"nowhere">>

\* The kinds of entry a name below base_dir_ may have.
KindsOf(n) ==
  CASE Last(n) = "f" -> {"none", "file"}
    [] Last(n) = "d" -> {"none", "dir"}
    [] OTHER         -> {"none", "file", "dir"}

FileSystems ==
  {k \in [Nodes -> {"none", "file", "dir"}] :
     /\ k[<<>>] = "dir" /\ k[base] = "dir" /\ k[<<"outside">>] = "file"
     /\ \A n \in Below : k[n] \in KindsOf(n) /\ (k[n] # "none" => k[Front(n)] = "dir")}

VARIABLES
  kind,     \* the file system
  touched,  \* the entries that changed during the request
  listings, \* enabled_dir_ and dir_type_: "off", "json" or "html"
  target,   \* the segments the wildcard stands for
  path,     \* path, below base_dir_; empty segments are slashes it does not need
  pc,
  doc,      \* which default document is tried next
  rest,     \* the entries the directory iterator has still to give, with their kind
  opened,   \* the directory the iterator has opened
  dirs, files, \* the listing
  ec,       \* whether the last call has set ec
  answer

config == <<listings, target>>
local  == <<path, doc, opened, rest, dirs, files, ec>>
vars   == <<kind, touched, config, pc, local, answer>>

NoAnswer == [status |-> 0, node |-> Nowhere]

Init ==
  /\ kind \in FileSystems /\ touched = {}
  /\ listings \in {"off", "json", "html"}
  /\ target \in Paths /\ path = target
  /\ pc = "start" /\ doc = 1
  /\ opened = Nowhere /\ rest = {} /\ dirs = <<>> /\ files = <<>> /\ ec = FALSE
  /\ answer = NoAnswer
-----------------------------------------------------------------------------
(* The file system *)

Walk(n, name) ==
  LET child == Append(n, name)
  IN  CASE n = Nowhere \/ kind[n] # "dir"                     -> Nowhere
        [] n # Nowhere /\ kind[n] = "dir" /\ name \in {"", "."} -> n
        [] n # Nowhere /\ kind[n] = "dir" /\ name = ".."      -> IF n = <<>> THEN n ELSE Front(n)
        [] OTHER -> IF child \in Nodes /\ kind[child] # "none" THEN child ELSE Nowhere

Lookup(p) == FoldLeft(Walk, base, p)
Kind(p)   == IF Lookup(p) = Nowhere THEN "none" ELSE kind[Lookup(p)]

Children(n) == {c \in Below : kind[c] # "none" /\ Front(c) = n}

\* Another program creates an entry or removes one, with what is in it.
Change(n, k) ==
  /\ pc # "done" /\ Cardinality(touched) < MaxChanges
  /\ k \in KindsOf(n) /\ k # kind[n] /\ kind[Front(n)] = "dir"
  /\ kind' = [m \in Nodes |-> CASE m = n -> k [] m # n /\ IsPrefix(n, m) -> "none"
                                [] OTHER -> kind[m]]
  /\ touched' = touched \cup {n}
  /\ UNCHANGED <<config, pc, local, answer>>
-----------------------------------------------------------------------------
(* mount_point_entry::operator() *)

Answer(s, n) ==
  /\ answer' = [status |-> s, node |-> n]
  /\ pc' = "done"
  /\ UNCHANGED <<kind, touched, config, local>>

\* Levels are counted for the whole path at once.
MutIsValidPath(p) ==
  LET Count(x) == Cardinality({i \in DOMAIN p : p[i] = x})
  IN  /\ Count("bad") = 0
      /\ 2 * Count("..") + Count(".") + Count("") <= Len(p)

\* A path with ".." anywhere is refused.
MutIsValidPathStrict(p) == Range(p) \cap {"bad", ".."} = {}

\* is_valid_path: the level below base_dir_ is never negative on the way.
IsValidPath(p) ==
  LET Level(l, x) == CASE l < 0 \/ x = "bad"       -> -1
                       [] l >= 0 /\ x \in {"", "."} -> l
                       [] l >= 0 /\ x = ".."        -> l - 1
                       [] OTHER                    -> l + 1
  IN  FoldLeft(Level, 0, p) >= 0

Refuse == pc = "start" /\ ~IsValidPath(target) /\ Answer(400, Nowhere)

Goto(l) == pc' = l /\ UNCHANGED <<kind, touched, config, local, answer>>

\* A name without an extension counts as a directory's.
MutHasFilename(p) == FALSE

\* path.has_filename(): there is something behind the last slash.
HasFilename(p) == Last(p) # ""

Exists ==
  /\ pc = "start" /\ IsValidPath(target)
  /\ IF Kind(path) = "none" THEN Answer(404, Nowhere)
     ELSE Goto(IF HasFilename(path) THEN "type" ELSE "docs")

\* A default document that is a directory is taken.
MutTryDoc ==
  /\ pc = "docs" /\ doc <= Len(DefaultDocs)
  /\ LET p == Append(path, DefaultDocs[doc])
     IN  IF Kind(p) # "none"
           THEN path' = p /\ pc' = "type" /\ UNCHANGED doc
           ELSE doc' = doc + 1 /\ UNCHANGED <<path, pc>>
  /\ UNCHANGED <<kind, touched, config, opened, rest, dirs, files, ec, answer>>

TryDoc ==
  /\ pc = "docs" /\ doc <= Len(DefaultDocs)
  /\ LET p == Append(path, DefaultDocs[doc])
     IN  IF Kind(p) = "file"
           THEN path' = p /\ pc' = "type" /\ UNCHANGED doc
           ELSE doc' = doc + 1 /\ UNCHANGED <<path, pc>>
  /\ UNCHANGED <<kind, touched, config, opened, rest, dirs, files, ec, answer>>

NoDoc == pc = "docs" /\ doc > Len(DefaultDocs) /\ Goto("dir")

Type == pc = "type" /\ IF Kind(path) = "file" THEN Goto("file") ELSE Answer(404, Nowhere)

\* set_file_content; when the file is gone it leaves the response as it was
\* constructed, not found and without content.
SetFileContent ==
  /\ pc = "file"
  /\ IF Kind(path) = "file" THEN Answer(200, Lookup(path)) ELSE Answer(404, Nowhere)

\* 403 for what is not a directory, and for a directory without listings.
IsDirectory ==
  /\ pc = "dir"
  /\ IF Kind(path) = "dir" /\ listings # "off" THEN Goto("open") ELSE Answer(403, Nowhere)

\* The directory iterator; that it cannot be made is an error for JSON only.
OpenDir ==
  /\ pc = "open"
  /\ pc' = "list"
  /\ ec' = (Kind(path) # "dir")
  /\ opened' = IF Kind(path) = "dir" THEN Lookup(path) ELSE Nowhere
  /\ rest' = IF Kind(path) = "dir" THEN {[node |-> n, kind |-> kind[n]] : n \in Children(Lookup(path))}
             ELSE {}
  /\ UNCHANGED <<kind, touched, config, path, doc, dirs, files, answer>>

\* The page asks the file system again, the JSON document the iterator, which
\* has the kind from the moment it was read.
IsDir(e) == (IF listings = "json" THEN e.kind ELSE kind[e.node]) = "dir"

\* A listing whose iterator does not advance past a directory.
MutListEntryAgain(e) ==
  /\ pc = "list" /\ e \in rest /\ Len(dirs) < 2
  /\ rest' = IF IsDir(e) THEN rest ELSE rest \ {e}
  /\ dirs' = IF IsDir(e) THEN Append(dirs, e.node) ELSE dirs
  /\ files' = IF IsDir(e) THEN files ELSE Append(files, e.node)
  /\ ec' = (kind[e.node] # "file")
  /\ UNCHANGED <<kind, touched, config, path, pc, doc, opened, answer>>

\* One entry, in the order of the file system.  file_size is the last call that
\* sets ec, and fails for whatever is not a file.
ListEntry(e) ==
  /\ pc = "list" /\ e \in rest
  /\ rest' = rest \ {e}
  /\ dirs' = IF IsDir(e) THEN Append(dirs, e.node) ELSE dirs
  /\ files' = IF IsDir(e) THEN files ELSE Append(files, e.node)
  /\ ec' = (kind[e.node] # "file")
  /\ UNCHANGED <<kind, touched, config, path, pc, doc, opened, answer>>

\* The page resets ec; the JSON document is replaced by an error page if the
\* last entry has set it.
Listed ==
  /\ pc = "list" /\ rest = {}
  /\ IF listings = "json" /\ ec THEN Answer(500, Nowhere) ELSE Answer(200, opened)
-----------------------------------------------------------------------------
Handle ==
  \/ Refuse \/ Exists \/ TryDoc \/ NoDoc \/ Type \/ SetFileContent
  \/ IsDirectory \/ OpenDir \/ (\E e \in rest : ListEntry(e)) \/ Listed

Next ==
  \/ Handle
  \/ \E n \in Below : \E k \in KindsOf(n) : Change(n, k)
  \/ pc = "done" /\ UNCHANGED vars

Spec == Init /\ [][Next]_vars
-----------------------------------------------------------------------------
(* Properties *)

\* The states each variable ranges over; an entry is listed once.
TypeOK ==
  /\ kind \in FileSystems /\ touched \subseteq Below
  /\ pc \in {"start", "docs", "type", "file", "dir", "open", "list", "done"}
  /\ doc \in 1 .. Len(DefaultDocs) + 1 /\ ec \in BOOLEAN
  /\ opened \in Nodes \cup {Nowhere}
  /\ rest \subseteq [node : Below, kind : {"file", "dir"}]
  /\ IsInjective(dirs \o files)
  /\ Range(dirs \o files) \subseteq Below \ {e.node : e \in rest}
  /\ answer.status \in {0, 200, 400, 403, 404, 500}

\* The entry a path means by its text alone, if it means one below base_dir_.
Normal(p) ==
  LET Take(n, x) == CASE n = Nowhere \/ x = "bad"            -> Nowhere
                      [] n # Nowhere /\ x \in {"", "."}      -> n
                      [] n # Nowhere /\ x = ".."             -> IF n = base THEN Nowhere ELSE Front(n)
                      [] OTHER                               -> Append(n, x)
  IN  FoldLeft(Take, base, p)

\* What is served is what the path means, or a default document in it, and it is
\* below base_dir_: no sequence of "..", empty and dot segments leads elsewhere.
\* For a directory that was removed just before it is opened there is an empty page.
ServesWhatIsAsked ==
  answer.status = 200 =>
    \/ /\ IsPrefix(base, answer.node)
       /\ answer.node \in {Normal(target)} \cup {Append(Normal(target), d) : d \in Range(DefaultDocs)}
    \/ listings = "html" /\ answer.node = Nowhere /\ touched # {} /\ dirs \o files = <<>>

\* Only a path that leaves base_dir_ on its way is refused as malformed.
RefusesOnlyOutside == answer.status = 400 => Normal(target) = Nowhere

\* Nothing on the way to an entry, and no default document in it, has changed.
Steady(n) == \A m \in touched : ~IsPrefix(m, n) /\ ~IsPrefix(n, m)

\* A file is served under its name, whatever happens elsewhere meanwhile; behind
\* the name there is neither a slash nor a dot.
FilesAreServed ==
  LET n == Normal(target)
  IN  pc = "done" /\ n \in Nodes /\ Last(target) = Last(n) /\ ".." \notin Range(target)
        /\ Steady(n) /\ kind[n] = "file"
      => answer = [status |-> 200, node |-> n]

\* A directory is answered with the first of its default documents, or with all
\* its entries, directories first on a page; a directory whose last entry is not
\* a file has no JSON listing.
Entries == Range(dirs \o files)
DirectoriesAreServed ==
  LET n     == Normal(target)
      found == SelectSeq([i \in DOMAIN DefaultDocs |-> Append(n, DefaultDocs[i])],
                         LAMBDA d : d \in Nodes /\ kind[d] = "file")
  IN  pc = "done" /\ n \in Nodes /\ ~HasFilename(target) /\ ".." \notin Range(target)
        /\ Steady(n) /\ kind[n] = "dir"
      => CASE found # <<>>       -> answer = [status |-> 200, node |-> Head(found)]
           [] found = <<>> /\ listings = "off" -> answer.status = 403
           [] OTHER -> /\ Entries = Children(n)
                       /\ \/ answer = [status |-> 200, node |-> n]
                          \/ listings = "json" /\ dirs # <<>> /\ answer.status = 500
=============================================================================
