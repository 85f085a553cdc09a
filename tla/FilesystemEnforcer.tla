------------------------- MODULE FilesystemEnforcer -------------------------
(***************************************************************************)
(* The filesystem adapter (crates/kavach-enforcement/src/lib.rs): threads  *)
(* of the gateway run guarded operations on one workspace, each as the     *)
(* system calls the code makes: the path is resolved in one step and used  *)
(* in later ones, and in between other threads and other programs change   *)
(* the tree.                                                               *)
(*                                                                         *)
(* Other programs replace the contents of regular files; they do not swap  *)
(* directories for links while an operation runs (see README).             *)
(***************************************************************************)
EXTENDS CoreRequest

CONSTANTS
    Workers,         \* threads that execute
    FilePermits,         \* permits the runtime hands to the adapter
    FileRequests,        \* requests with their payloads
    Names,           \* file names that requests and links use
    Root,            \* workspace_root, canonical
    Start,           \* the tree at the start: a function on absolute paths
    Suffixes,        \* values of unique_suffix, as names of temporary files
    Growth,          \* contents another program may give to a file
    MaxReadBytes, MaxWriteBytes, MaxDirEntries,
    MaxHops          \* bound on the steps of a path walk (a loop of links)

ASSUME FilesystemAssumption ==
    /\ MaxReadBytes \in Nat \ {0}
    /\ MaxWriteBytes \in Nat \ {0}
    /\ MaxDirEntries \in Nat \ {0}
    /\ MaxHops \in Nat

\* The tree at the start is one, the workspace is a directory of it, neither a
\* link nor a request names a temporary file, and no directory has such a name.
ASSUME TreeAssumption ==
    /\ Names \cap Suffixes = {}
    /\ Root \in Seq(Names) /\ Root \in DOMAIN Start /\ Start[Root].kind = "dir"
    /\ DOMAIN Start \subseteq Seq(Names \cup Suffixes)
    /\ \A path \in DOMAIN Start :
          /\ Start[path].kind = "link" => Start[path].target \in Seq(Names)
          /\ path # <<>> /\ Start[path].kind = "dir" => path[Len(path)] \notin Suffixes
          /\ path # <<>> /\ Start[path].kind # "none" =>
                LET parent == SubSeq(path, 1, Len(path) - 1)
                IN  parent \in DOMAIN Start /\ Start[parent].kind = "dir"

ASSUME RequestAssumption ==
    \A req \in FileRequests :
        /\ req.path.segs \in Seq(Names)
        /\ req.dest # Null => req.dest.segs \in Seq(Names)
        /\ req.payload # Null =>
              req.payload \in Seq({req.payload[i] : i \in DOMAIN req.payload})

VARIABLES
    tree,       \* [path -> node]: what the disk holds
    job,        \* [worker -> the operation it runs]
    consumed,   \* permits that were consumed
    shifted     \* a directory was moved (a history variable)

fileVars == <<tree, job, consumed, shifted>>

Absent == [kind |-> "none", data |-> <<>>, target |-> <<>>]
Regular(data) == [kind |-> "file", data |-> data, target |-> <<>>]
Folder == [kind |-> "dir", data |-> <<>>, target |-> <<>>]
LinkTo(path) == [kind |-> "link", data |-> <<>>, target |-> path]

Free == [pc |-> "idle", req |-> Null, path |-> <<>>, temp |-> <<>>,
         permit |-> Null, outcome |-> "none", data |-> <<>>]

FileInit ==
    /\ tree = Start
    /\ job = [w \in Workers |-> Free]
    /\ consumed = {}
    /\ shifted = FALSE

-----------------------------------------------------------------------------
(***************************************************************************)
(* The file system.                                                        *)
(***************************************************************************)
Node(t, path) == IF path \in DOMAIN t THEN t[path] ELSE Absent
Parent(path) == SubSeq(path, 1, Len(path) - 1)
Last(path) == path[Len(path)]
Children(t, dir) == {p \in DOMAIN t : p # <<>> /\ Parent(p) = dir /\ t[p].kind # "none"}
StartsWith(path, prefix) ==
    Len(path) >= Len(prefix) /\ SubSeq(path, 1, Len(prefix)) = prefix

\* The path of an entry when what is at from is at to.
Rebased(path, from, to) == to \o SubSeq(path, Len(from) + 1, Len(path))

\* One step of a path walk: the next component is looked up below what is
\* done; a link starts again at the root with its target, and a walk that
\* cannot go on stays where it is.
WalkStep(t, at) ==
    LET here == Append(at.done, Head(at.rest))
        node == Node(t, here)
    IN  IF at.rest = <<>> \/ node.kind = "none" \/ (node.kind = "file" /\ Len(at.rest) > 1)
        THEN at
        ELSE IF node.kind = "link"
        THEN [done |-> <<>>, rest |-> node.target \o Tail(at.rest)]
        ELSE [done |-> here, rest |-> Tail(at.rest)]

Walk(t, path) ==
    LET walk[n \in Nat] == IF n = 0 THEN [done |-> <<>>, rest |-> path]
                           ELSE WalkStep(t, walk[n - 1])
    IN  walk

\* canonicalize: every component is looked up, links are followed.
Canonicalize(t, path) ==
    LET end == Walk(t, path)[MaxHops]
    IN  [ok |-> end.rest = <<>>, path |-> IF end.rest = <<>> THEN end.done ELSE path]

Exists(t, path) == Canonicalize(t, path).ok
KindOf(t, path) == IF Exists(t, path) THEN Node(t, Canonicalize(t, path).path).kind
                   ELSE "none"

\* Where a call that does not follow the last component finds its entry.
Entry(t, path) == Append(Canonicalize(t, Parent(path)).path, Last(path))
HasParent(t, path) == KindOf(t, Parent(path)) = "dir"
Contents(t, path) == Node(t, Canonicalize(t, path).path).data

-----------------------------------------------------------------------------
(***************************************************************************)
(* Resolving a request path.  The result is [err, path].                   *)
(***************************************************************************)
Ok(path) == [err |-> "ok", path |-> path]
Err(e) == [err |-> e, path |-> <<>>]

\* is_lexically_under compares components, so it always holds for a relative
\* normalised path: links that lead outside are left to the callers.
ResolveWithinWorkspace(t, path) ==
    LET full == Root \o path.segs
        canon == Canonicalize(t, full)
    IN  IF path.absolute THEN Err("workspace_escape")
        ELSE IF ~ Exists(t, Root) THEN Err("io")
        ELSE IF ~ (StartsWith(canon.path, Root) \/ StartsWith(full, Root))
        THEN Err("workspace_escape") ELSE Ok(full)

\* resolve_existing_for_read and resolve_existing_directory.
ResolveExisting(t, path, kind) ==
    LET full == ResolveWithinWorkspace(t, path)
        canon == Canonicalize(t, full.path)
    IN  IF full.err # "ok" THEN full
        ELSE IF ~ canon.ok THEN Err("not_found")
        ELSE IF ~ StartsWith(canon.path, Root) THEN Err("symlink_escape")
        ELSE IF Node(t, canon.path).kind # kind THEN Err("unsupported_file_type")
        ELSE Ok(canon.path)

\* resolve_existing_for_write, with the checks of do_file_write before and
\* after it: a link and a missing target are both refused.
ResolveForWrite(t, path, size) ==
    LET full == ResolveWithinWorkspace(t, path)
        existing == ResolveExisting(t, path, "file")
        parent == Canonicalize(t, Parent(full.path))
    IN  IF full.err # "ok" THEN full
        ELSE IF Exists(t, full.path)
        THEN IF Node(t, Entry(t, full.path)).kind = "link" THEN Err("unsupported_file_type")
             ELSE IF existing.err # "ok" THEN existing
             ELSE IF size > MaxWriteBytes THEN Err("write_limit") ELSE existing
        ELSE IF ~ parent.ok THEN Err("io")
        ELSE IF ~ StartsWith(parent.path, Root) THEN Err("symlink_escape")
        ELSE Err("not_found")

\* Joins the name without looking at where the parent leads.
ResolveToCreate_Lexical(t, path) ==
    LET full == ResolveWithinWorkspace(t, path)
        parent == Canonicalize(t, Parent(full.path))
    IN  IF full.err # "ok" THEN full
        ELSE IF path.segs = <<>> THEN Err("workspace_escape")
        ELSE IF ~ parent.ok THEN Err("not_found")
        ELSE Ok(full.path)

\* The parent must exist and be inside; the name is put below its canonical
\* form, so a create never follows a last link.
ResolveToCreate(t, path) ==
    LET full == ResolveWithinWorkspace(t, path)
        parent == Canonicalize(t, Parent(full.path))
    IN  IF full.err # "ok" THEN full
        ELSE IF full.path = <<>> THEN Err("workspace_escape")
        ELSE IF ~ parent.ok THEN Err("not_found")
        ELSE IF ~ StartsWith(parent.path, Root) THEN Err("symlink_escape")
        ELSE Ok(Append(parent.path, Last(full.path)))

\* do_file_create and do_directory_create: nothing is there yet.
ResolveNew(t, path) ==
    LET new == ResolveToCreate(t, path)
    IN  IF new.err = "ok" /\ Exists(t, new.path) THEN Err("already_exists")
        ELSE IF new.err = "ok" /\ ~ HasParent(t, new.path) THEN Err("not_found")
        ELSE new

\* do_file_move: the destination as the request names it.
ResolveDestination(t, path) ==
    LET full == ResolveWithinWorkspace(t, path)
        parent == Canonicalize(t, Parent(full.path))
    IN  IF full.err # "ok" THEN full
        ELSE IF Exists(t, full.path) THEN Err("destination_exists")
        ELSE IF ~ parent.ok THEN Err("io")
        ELSE IF ~ StartsWith(parent.path, Root) THEN Err("workspace_escape")
        ELSE full

-----------------------------------------------------------------------------
(***************************************************************************)
(* The operations.                                                         *)
(***************************************************************************)
Finish(w, outcome) == job' = [job EXCEPT ![w] = [Free EXCEPT !.outcome = outcome]]
\* The caller gets the reason; no later step depends on it.
Fails(w, reason) == Finish(w, "failed") /\ UNCHANGED tree
Quiet == UNCHANGED <<consumed, shifted>>
At(w, pc) == job[w].pc = pc

\* execute, steps 1 to 3: the permit is consumed before the payload is looked
\* at, so a request that fails later has used it up.
Execute(w, req, p, expired, matches) ==
    /\ At(w, "idle")
    /\ \A v \in Workers : job[v].permit # p
    /\ IF ~ req.valid THEN Fails(w, "invalid_request") /\ UNCHANGED consumed
       ELSE IF expired THEN Fails(w, "permit_expired") /\ UNCHANGED consumed
       ELSE IF p \in consumed THEN Fails(w, "permit_consumed") /\ UNCHANGED consumed
       ELSE IF ~ matches THEN Fails(w, "invalid_permit") /\ UNCHANGED consumed
       ELSE /\ consumed' = consumed \cup {p}
            /\ IF (req.op = "file_write") # (req.payload # Null)
               THEN Fails(w, IF req.op = "file_write" THEN "missing_payload"
                             ELSE "unexpected_payload")
               ELSE IF req.op = "file_move" /\ req.dest = Null
               THEN Fails(w, "invalid_request")
               ELSE IF req.op \notin FileOps \cup DirectoryOps
               THEN Fails(w, "wrong_resource_type")
               ELSE /\ job' = [job EXCEPT ![w] = [Free EXCEPT !.pc = "resolve",
                                                     !.req = req, !.permit = p]]
                    /\ UNCHANGED tree
    /\ UNCHANGED shifted

Goes(w, r, pc) ==
    IF r.err # "ok" THEN Fails(w, r.err)
    ELSE /\ job' = [job EXCEPT ![w].pc = pc, ![w].path = r.path]
         /\ UNCHANGED tree

\* The read limit of the request may only lower the adapter's.
Limit(req) == IF req.max_bytes = Null THEN MaxReadBytes ELSE req.max_bytes

\* The checks of an operation up to the first call that uses the path: several
\* look-ups in the code, one after the other, of which this is one moment.
Resolve(w) ==
    LET req == job[w].req
        source == ResolveExisting(tree, req.path, "file")
        dest == ResolveDestination(tree, req.dest)
    IN  /\ At(w, "resolve")
        /\ CASE req.op = "file_read" -> Goes(w, source, "stat")
             [] req.op = "file_write" ->
                    Goes(w, ResolveForWrite(tree, req.path, Len(req.payload)), "temp")
             [] req.op = "file_create" -> Goes(w, ResolveNew(tree, req.path), "create")
             [] req.op = "file_delete" -> Goes(w, source, "remove")
             [] req.op = "file_move" ->
                    IF source.err # "ok" THEN Fails(w, source.err)
                    ELSE IF dest.err # "ok" THEN Fails(w, dest.err)
                    ELSE /\ job' = [job EXCEPT ![w].pc = "move", ![w].path = source.path,
                                               ![w].temp = dest.path]
                         /\ UNCHANGED tree
             [] req.op = "directory_list" ->
                    Goes(w, ResolveExisting(tree, req.path, "dir"), "list")
             [] req.op = "directory_create" ->
                    Goes(w, ResolveNew(tree, req.path), "mkdir")
             [] req.op = "directory_delete" ->
                    Goes(w, ResolveExisting(tree, req.path, "dir"), "empty")
        /\ Quiet

\* do_file_read: the limits, then the size in the metadata.
Stat(w) ==
    LET limit == Limit(job[w].req)
    IN  /\ At(w, "stat")
        /\ IF limit = 0 \/ limit > MaxReadBytes THEN Fails(w, "read_limit")
           ELSE IF ~ Exists(tree, job[w].path) THEN Fails(w, "not_found")
           ELSE IF Len(Contents(tree, job[w].path)) > limit THEN Fails(w, "read_limit")
           ELSE job' = [job EXCEPT ![w].pc = "read"] /\ UNCHANGED tree
        /\ Quiet

\* The bytes that come back are counted again.
Read(w) ==
    LET data == Contents(tree, job[w].path)
    IN  /\ At(w, "read")
        /\ IF KindOf(tree, job[w].path) # "file" THEN Fails(w, "io")
           ELSE IF Len(data) > Limit(job[w].req) THEN Fails(w, "read_limit")
           ELSE /\ job' = [job EXCEPT ![w] = [Free EXCEPT !.outcome = "read",
                                                 !.req = job[w].req, !.data = data]]
                /\ UNCHANGED tree
        /\ Quiet

\* A temporary file of another write is truncated and used.
CreateTemp_Truncate(w, suffix) ==
    LET temp == Append(Parent(job[w].path), suffix)
    IN  /\ At(w, "temp")
        /\ IF ~ HasParent(tree, temp) THEN Fails(w, "io")
           ELSE /\ tree' = [tree EXCEPT ![temp] = Regular(<<>>)]
                /\ job' = [job EXCEPT ![w].pc = "data", ![w].temp = temp]
        /\ Quiet

\* do_file_write: a new file in the target's directory; two writes of one
\* process may get the same suffix, and then the second one fails.
CreateTemp(w, suffix) ==
    LET temp == Append(Parent(job[w].path), suffix)
    IN  /\ At(w, "temp")
        /\ IF ~ HasParent(tree, temp) \/ Node(tree, temp).kind # "none" THEN Fails(w, "io")
           ELSE /\ tree' = [tree EXCEPT ![temp] = Regular(<<>>)]
                /\ job' = [job EXCEPT ![w].pc = "data", ![w].temp = temp]
        /\ Quiet

\* Where the file that a thread has open is.  A directory that moved may have
\* taken it along; from then on it may be any file of the workspace, or have no
\* name any more: Root, which is no file, stands for that.
Opened(w) == IF ~ shifted THEN {job[w].temp}
             ELSE {Root} \cup {p \in DOMAIN tree : tree[p].kind = "file" /\ StartsWith(p, Root)}

\* write_all, chunk by chunk; on an error the temporary file stays behind.
WriteData(w, file, full_disk) ==
    LET payload == job[w].req.payload
        done == Len(job[w].data)
    IN  /\ At(w, "data") /\ file \in Opened(w)
        /\ IF done = Len(payload)
           THEN job' = [job EXCEPT ![w].pc = "replace"] /\ UNCHANGED tree
           ELSE IF full_disk THEN Fails(w, "io")
           ELSE /\ job' = [job EXCEPT ![w].data = Append(@, payload[done + 1])]
                /\ tree' = IF Node(tree, file).kind # "file" THEN tree
                           ELSE [tree EXCEPT ![file] = Regular(Append(@.data, payload[done + 1]))]
        /\ Quiet

\* rename(from, to): what is at from goes to to, with all that is below it.
Renames(from, to) ==
    /\ tree' = [p \in DOMAIN tree |->
                    IF StartsWith(p, to) THEN Node(tree, Rebased(p, to, from))
                    ELSE IF StartsWith(p, from) THEN Absent ELSE tree[p]]
    /\ shifted' = (shifted \/ Node(tree, from).kind = "dir")

\* A file replaces a file or a link; a directory replaces an empty one and does
\* not go below itself.  A bound of the model: the tree has a path for
\* everything that moves.
CanRename(from, to) ==
    LET there == Node(tree, to).kind
    IN  /\ CASE Node(tree, from).kind = "file" -> there # "dir"
              [] Node(tree, from).kind = "dir" ->
                    /\ ~ StartsWith(to, from)
                    /\ there = "none" \/ (there = "dir" /\ Children(tree, to) = {})
              [] OTHER -> FALSE
        /\ \A p \in DOMAIN tree :
              StartsWith(p, from) /\ tree[p].kind # "none" => Rebased(p, from, to) \in DOMAIN tree

\* The rename puts the new contents in place at once; when it fails the
\* temporary file is removed.
Replace(w) ==
    LET temp == job[w].temp
        target == job[w].path
    IN  /\ At(w, "replace")
        /\ IF HasParent(tree, target) /\ CanRename(temp, Entry(tree, target))
           THEN Renames(temp, Entry(tree, target)) /\ Finish(w, "written")
           ELSE /\ tree' = IF Node(tree, temp).kind # "file" THEN tree
                           ELSE [tree EXCEPT ![temp] = Absent]
                /\ Finish(w, "atomic_replace_failed") /\ UNCHANGED shifted
        /\ UNCHANGED consumed

\* do_file_create: create_new decides, not the check before it.
Create(w) ==
    LET path == Entry(tree, job[w].path)
    IN  /\ At(w, "create")
        /\ IF ~ HasParent(tree, job[w].path) THEN Fails(w, "io")
           ELSE IF Node(tree, path).kind # "none" THEN Fails(w, "already_exists")
           ELSE /\ tree' = [tree EXCEPT ![path] = Regular(<<>>)]
                /\ Finish(w, "created")
        /\ Quiet

\* do_file_delete.
Remove(w) ==
    LET path == Entry(tree, job[w].path)
    IN  /\ At(w, "remove")
        /\ IF ~ HasParent(tree, job[w].path) \/ Node(tree, path).kind = "none"
           THEN Fails(w, "not_found")
           ELSE IF Node(tree, path).kind = "dir" THEN Fails(w, "io")
           ELSE /\ tree' = [tree EXCEPT ![path] = Absent]
                /\ Finish(w, "deleted")
        /\ Quiet

\* do_file_move: a file that appeared at the destination since the check is
\* replaced, and a directory that took the place of the source is moved.
Move(w) ==
    LET from == job[w].path
        to == job[w].temp
    IN  /\ At(w, "move")
        /\ IF HasParent(tree, to) /\ CanRename(from, Entry(tree, to))
           THEN Renames(from, Entry(tree, to)) /\ Finish(w, "moved")
           ELSE Fails(w, "io") /\ UNCHANGED shifted
        /\ UNCHANGED consumed

\* do_directory_list.
List(w) ==
    /\ At(w, "list")
    /\ IF KindOf(tree, job[w].path) # "dir" THEN Fails(w, "io")
       ELSE IF Cardinality(Children(tree, job[w].path)) > MaxDirEntries
       THEN Fails(w, "directory_entry_limit")
       ELSE Finish(w, "listed") /\ UNCHANGED tree
    /\ Quiet

\* do_directory_create.
MakeDir(w) ==
    LET path == Entry(tree, job[w].path)
    IN  /\ At(w, "mkdir")
        /\ IF ~ HasParent(tree, job[w].path) THEN Fails(w, "io")
           ELSE IF Node(tree, path).kind # "none" THEN Fails(w, "already_exists")
           ELSE tree' = [tree EXCEPT ![path] = Folder] /\ Finish(w, "directory_created")
        /\ Quiet

\* do_directory_delete: the first entry of read_dir, then remove_dir.
CheckEmpty(w) ==
    /\ At(w, "empty")
    /\ IF KindOf(tree, job[w].path) # "dir" THEN Fails(w, "io")
       ELSE IF Children(tree, job[w].path) # {} THEN Fails(w, "directory_not_empty")
       ELSE job' = [job EXCEPT ![w].pc = "rmdir"] /\ UNCHANGED tree
    /\ Quiet

\* Everything below the directory goes with it.
RemoveDir_All(w) ==
    LET path == job[w].path
    IN  /\ At(w, "rmdir")
        /\ IF KindOf(tree, path) # "dir" THEN Fails(w, "io")
           ELSE /\ tree' = [p \in DOMAIN tree |->
                                IF StartsWith(p, path) THEN Absent ELSE tree[p]]
                /\ Finish(w, "directory_deleted")
        /\ Quiet

\* remove_dir fails on a directory that has got an entry since.
RemoveDir(w) ==
    LET path == job[w].path
    IN  /\ At(w, "rmdir")
        /\ IF KindOf(tree, path) # "dir" \/ Children(tree, path) # {} THEN Fails(w, "io")
           ELSE /\ tree' = [tree EXCEPT ![path] = Absent]
                /\ Finish(w, "directory_deleted")
        /\ Quiet

\* Another program gives a regular file of the workspace other contents.
Outside(path, data) ==
    /\ Node(tree, path).kind = "file" /\ StartsWith(path, Root)
    /\ Last(path) \notin Suffixes
    /\ tree' = [tree EXCEPT ![path] = Regular(data)]
    /\ UNCHANGED <<job, consumed, shifted>>

\* The process dies: the threads and the permits in memory are gone, the disk
\* is as it was.
Crash ==
    /\ job' = [w \in Workers |-> Free]
    /\ consumed' = FilePermits
    /\ UNCHANGED <<tree, shifted>>

FileNext ==
    \/ \E w \in Workers, req \in FileRequests, p \in FilePermits, expired, matches \in BOOLEAN :
            Execute(w, req, p, expired, matches)
    \/ \E w \in Workers : \/ Resolve(w) \/ Stat(w) \/ Read(w) \/ Replace(w) \/ Create(w)
                          \/ Remove(w) \/ Move(w) \/ List(w) \/ MakeDir(w)
                          \/ CheckEmpty(w) \/ RemoveDir(w)
    \/ \E w \in Workers, suffix \in Suffixes : CreateTemp(w, suffix)
    \/ \E w \in Workers, full_disk \in BOOLEAN :
            \E file \in Opened(w) : WriteData(w, file, full_disk)
    \/ \E path \in DOMAIN tree, data \in Growth : Outside(path, data)
    \/ Crash

FileSpec == FileInit /\ [][FileNext]_fileVars

-----------------------------------------------------------------------------
(***************************************************************************)
(* Properties.                                                             *)
(***************************************************************************)

\* No operation changes anything outside the workspace, through whatever links
\* the tree holds and whatever other threads do between its check and its use.
OutsideUntouched ==
    \A path \in DOMAIN tree : ~ StartsWith(path, Root) => tree[path] = Start[path]

\* The contents a file may have as a whole.
Whole == {<<>>} \cup Growth \cup {Start[p].data : p \in DOMAIN Start}
         \cup {req.payload : req \in {r \in FileRequests : r.payload # Null}}

\* A file is never seen half written: at every moment, and so after a crash at
\* any moment, a file that is not a temporary one has whole contents, though
\* two writes may draw the same temporary name.  A moved directory may take a
\* temporary file away from its writer, who then renames whatever has its path.
NeverHalfWritten ==
    ~ shifted => \A path \in DOMAIN tree :
        tree[path].kind = "file" /\ Last(path) \notin Suffixes => tree[path].data \in Whole

\* A file leaves its place only by a delete of that file, by the end of the write
\* whose temporary file it is, or by a move of it or of a directory above it:
\* then it is, as it was, in the place the move leads to.  It never goes with a
\* directory that is removed, and never by a create.  (The file that a rename
\* finds at its destination is replaced; see README.)
NoFileLost ==
    [][\A path \in DOMAIN tree :
         tree[path].kind = "file" /\ tree'[path].kind # "file" =>
            \E w \in Workers :
                \/ At(w, "remove") /\ job[w].path = path
                \/ At(w, "replace") /\ job[w].temp = path
                \/ /\ At(w, "move") /\ StartsWith(path, job[w].path)
                   /\ tree'[Rebased(path, job[w].path, Entry(tree, job[w].temp))]
                         = tree[path]]_fileVars
=============================================================================
