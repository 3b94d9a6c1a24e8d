-------------------------------- MODULE FileOps --------------------------------
(***************************************************************************)
(* The tools that change files, as an executor runs them: write_file,      *)
(* edit_file, create_directory, delete, copy and move (shared/executor),   *)
(* several at once, each an asynchronous sequence of system calls.         *)
(*                                                                         *)
(* A path is a sequence of names below the root of a share; a request has  *)
(* the paths that execute() has resolved: a link on one of them leads      *)
(* nowhere, or it would have been followed (safeRealpath).  Links come     *)
(* only from the initial tree: no tool makes one.  A text is a sequence of *)
(* lines, told apart by who wrote them.                                    *)
(*                                                                         *)
(* Left out: the tools that only read, path filters, other programs, and   *)
(* system calls that go through a link whose target is made meanwhile.     *)
(* A size limit is a refusal that may come or not.  The file system and    *)
(* Node's rm and copyFile are modelled from how they are used.             *)
(***************************************************************************)
EXTENDS Naturals, Sequences, SequencesExt

CONSTANTS
  Op,                          \* operations
  Name,                        \* names of entries of directories
  Path,                        \* paths below the root
  Request,                     \* what may be asked for
  Inode,
  InitialTree,                 \* what may be at the paths at first
  None, Dir, Link, File, NoInode

Option == {"overwrite", "append", "apply", "dry", "plain", "recursive"}

\* Where a path at or below from goes; where a copy or a move takes it.
Moved(from, to, p) == to \o SubSeq(p, Len(from) + 1, Len(p))
Image(r, p) == Moved(r.src, r.dst, p)

\* The files of an initial tree.
FilesOf(t) == {p \in Path : t[p] \notin {None, Dir, Link}}

\* Paths enough for every copy, and inodes for every initial tree.
ASSUME FileOpsAssumption ==
  /\ Path \subseteq Seq(Name) \ {<<>>}
  /\ \A p \in Path : \A k \in 1..Len(p) : SubSeq(p, 1, k) \in Path
  /\ \A r \in Request :
       /\ r.tool \in {"write", "edit", "create", "delete", "copy", "move"}
       /\ r.src \in Path /\ r.dst \in Path /\ r.option \in Option
       /\ r.tool \in {"copy", "move"} =>
            /\ ~IsPrefix(r.src, r.dst)
            /\ \A p \in Path : IsPrefix(r.src, p) => Image(r, p) \in Path
  /\ \A t \in InitialTree :
       /\ \A p, q \in Path : t[p] # None /\ IsStrictPrefix(q, p) => t[q] = Dir
       /\ \E n \in [FilesOf(t) -> Inode] : \A p, q \in FilesOf(t) : n[p] = n[q] => p = q
  /\ None # Dir /\ None # Link /\ Dir # Link /\ File \notin {None, Dir, Link}
  /\ NoInode \notin Inode /\ None \notin Inode /\ Dir \notin Inode /\ Link \notin Inode

VARIABLES
  apart,       \* top-level directories are on file systems of their own
  tree,        \* what is at a path: nothing, a directory, a link, or a file's inode
  content,     \* the text of each inode
  op           \* each operation: how far it is, or its answer, and what it remembers

fileVars == <<apart, tree, content, op>>

Stage == {"mkdirs", "open", "write", "read", "truncate", "put", "look", "access",
          "copying", "filling", "rename", "rm", "removing"}

\* Answers that come before anything is changed.
Refusal == {"rejected", "exists", "isLink", "confirm", "noMatch", "tooLarge"}
Answer == Refusal \cup {"ok", "failed", "copyIncomplete", "removeIncomplete", "lost"}

-----------------------------------------------------------------------------
(* The file system *)

Parent(p) == Front(p)
Upwards(p) == {q \in Path : IsPrefix(q, p)}
Below(p) == {q \in Path : IsStrictPrefix(p, q)}
Children(p) == {q \in Below(p) : Len(q) = Len(p) + 1 /\ tree[q] # None}
IsDir(p) == p = <<>> \/ tree[p] = Dir
IsFile(p) == tree[p] \in Inode

\* A text written at position 0, of an empty file or over a text that may be longer.
Over(text, old) == IF old = <<>> THEN text ELSE text \o SubSeq(old, Len(text) + 1, Len(old))

\* What is at p, with the text of a file.
FileWith(text) == [is |-> File, text |-> text]
NoFile(what)   == [is |-> what, text |-> <<>>]

Seen(p)      == IF IsFile(p) THEN FileWith(content[tree[p]]) ELSE NoFile(tree[p])
SeenAfter(p) == IF tree'[p] \in Inode THEN FileWith(content'[tree'[p]]) ELSE NoFile(tree'[p])

UsedBy(record) == {record.handle, record.source}
Fresh(i) == (\A p \in Path : tree[p] # i) /\ \A o \in Op : i \notin UsedBy(op[o])

\* Inodes that nothing refers to any more are free.
Keeps(texts) ==
  content' = [i \in Inode |->
    IF (\E p \in Path : tree'[p] = i) \/ \E o \in Op : i \in UsedBy(op'[o]) THEN texts[i] ELSE <<>>]

-----------------------------------------------------------------------------
(* Operations *)

Idle == [at |-> "idle", req |-> CHOOSE r \in Request : TRUE, handle |-> NoInode, source |-> NoInode,
         todo |-> {}, opened |-> {}, path |-> <<>>, draft |-> <<>>,
         company |-> "none", start |-> [p \in Path |-> NoFile(None)]]

Active(o) == op[o].at \in Stage

\* Operations s that change, remove and add no file that r reads.
Meets(p, q) == IsPrefix(p, q) \/ IsPrefix(q, p)
Spares(s, r) ==
  \/ s.tool = "create"
  \/ s.tool = "edit" /\ s.option = "dry"
  \/ s.tool = "copy" /\ ~Meets(s.dst, r.src)

FilesInit ==
  /\ apart \in BOOLEAN
  /\ \E t \in InitialTree :
       LET Files == FilesOf(t)
           inode == CHOOSE n \in [Files -> Inode] : \A p, q \in Files : n[p] = n[q] => p = q
       IN /\ tree = [p \in Path |-> IF p \in Files THEN inode[p] ELSE t[p]]
          /\ content = [i \in Inode |-> IF \E p \in Files : inode[p] = i
                                        THEN t[CHOOSE p \in Files : inode[p] = i] ELSE <<>>]
  /\ op = [o \in Op |-> Idle]

\* The next step of o, if nothing in the tree changes.
Goes(o, stage) == op' = [op EXCEPT ![o].at = stage] /\ UNCHANGED <<tree, content>>

\* An operation is over, and its files are closed.
EndsWith(o, answer) == [op EXCEPT ![o] = [Idle EXCEPT !.at = answer]]

Ends(o, answer) == op' = EndsWith(o, answer) /\ UNCHANGED tree /\ Keeps(content)

\* A system call has failed.
Failure(o) ==
  IF op[o].req.tool # "move" THEN "failed"
  ELSE IF op[o].at \in {"copying", "filling"} THEN "copyIncomplete"
  ELSE IF op[o].at \in {"rm", "removing"} THEN "removeIncomplete"
  ELSE "failed"

Fails(o) == Ends(o, Failure(o))

FirstStage(tool) ==
  CASE tool \in {"write", "create"} -> "mkdirs"
    [] tool = "edit" -> "open"
    [] tool \in {"delete", "copy"} -> "look"
    [] tool = "move" -> "access"

\* o begins beside the operations under way.
Joined(o, r) ==
  LET others == {q \in Op : Active(q)}
      company == IF others = {} THEN "none"
                 ELSE IF \A q \in others : op[q].company # "any" /\ Spares(op[q].req, r) THEN "peaceful"
                 ELSE "any"
  IN [q \in Op |->
        IF q = o THEN [Idle EXCEPT !.at = FirstStage(r.tool), !.req = r, !.company = company,
                                   !.start = [p \in Path |-> Seen(p)]]
        ELSE IF q \in others
        THEN [op[q] EXCEPT !.company = IF @ # "any" /\ Spares(r, op[q].req) THEN "peaceful" ELSE "any"]
        ELSE op[q]]

\* execute(): a path below a file is rejected.  A link that leads nowhere stays
\* part of the path, unless it leads in a circle or out of the share.
Begin(o, r) ==
  LET Above == Upwards(Parent(r.src)) \cup Upwards(Parent(r.dst))
  IN /\ op[o].at = "idle"
     /\ \/ /\ (\E p \in Above : IsFile(p)) \/ \E p \in Above \cup {r.src, r.dst} : tree[p] = Link
           /\ Ends(o, "rejected")
        \/ /\ \A p \in Above : ~IsFile(p)
           /\ op' = Joined(o, r) /\ UNCHANGED <<tree, content>>
  /\ UNCHANGED apart

-----------------------------------------------------------------------------
(* Directories: mkdir with recursive, one level a step *)

AfterDirs == [write |-> "open", copy |-> "copying", move |-> "rename"]

\* Makes the topmost directory of p that is missing.
MakesOne(o, p) ==
  \E q \in Upwards(p) :
    /\ tree[q] = None /\ (Len(q) > 1 => tree[Parent(q)] # None)
    /\ IF IsDir(Parent(q)) THEN tree' = [tree EXCEPT ![q] = Dir] /\ UNCHANGED <<op, content>>
       ELSE Fails(o)

MakeDirs(o) ==
  LET r == op[o].req
      target == IF r.tool = "create" THEN r.dst ELSE Parent(r.dst)
  IN /\ op[o].at = "mkdirs"
     /\ IF \E p \in Upwards(target) : tree[p] = None THEN MakesOne(o, target)
        ELSE IF ~IsDir(target) THEN Fails(o)
        ELSE IF r.tool = "create" THEN Ends(o, "ok")
        ELSE op' = [op EXCEPT ![o].at = AfterDirs[r.tool],
                              ![o].todo = IF r.tool = "copy" THEN {r.src} ELSE {}]
             /\ UNCHANGED <<tree, content>>
  /\ UNCHANGED apart

-----------------------------------------------------------------------------
(* write_file *)

OpenToWrite(o) ==
  LET p == op[o].req.dst
      Opens(i) == op' = [op EXCEPT ![o].at = "write", ![o].handle = i]
  IN /\ op[o].at = "open" /\ op[o].req.tool = "write"
     /\ IF ~IsDir(Parent(p)) \/ tree[p] \in {Dir, Link} THEN Fails(o)
        ELSE IF IsFile(p)
        THEN /\ Opens(tree[p]) /\ UNCHANGED tree
             /\ content' = IF op[o].req.option = "append" THEN content ELSE [content EXCEPT ![tree[p]] = <<>>]
        ELSE \E i \in Inode : Fresh(i) /\ Opens(i) /\ tree' = [tree EXCEPT ![p] = i] /\ UNCHANGED content
  /\ UNCHANGED apart

Write(o) ==
  LET i == op[o].handle
  IN /\ op[o].at = "write"
     /\ op' = EndsWith(o, "ok") /\ UNCHANGED tree
     /\ Keeps([content EXCEPT ![i] = IF op[o].req.option = "append" THEN @ \o <<o>> ELSE Over(<<o>>, @)])
  /\ UNCHANGED apart

-----------------------------------------------------------------------------
(* edit_file *)

Occurrences(text, line) == {k \in 1..Len(text) : text[k] = line}

\* The text with each line found, in turn, replaced by two of the operation's
\* own; None when one is not there exactly once.
Edited(o, text, finds) ==
  FoldLeft(LAMBDA t, line :
             IF t # None /\ \E k \in 1..Len(t) : Occurrences(t, line) = {k}
             THEN LET k == CHOOSE k \in 1..Len(t) : t[k] = line
                  IN SubSeq(t, 1, k - 1) \o <<o, o>> \o SubSeq(t, k + 1, Len(t))
             ELSE None,
           text, finds)

OpenToEdit(o) ==
  LET p == op[o].req.dst
  IN /\ op[o].at = "open" /\ op[o].req.tool = "edit"
     /\ IF IsFile(p) THEN op' = [op EXCEPT ![o].at = "read", ![o].handle = tree[p]] /\ UNCHANGED <<tree, content>>
        ELSE Fails(o)
  /\ UNCHANGED apart

ReadToEdit(o) ==
  LET text == Edited(o, content[op[o].handle], op[o].req.finds)
  IN /\ op[o].at = "read"
     /\ IF text = None THEN Ends(o, "noMatch")
        ELSE IF op[o].req.option = "dry" THEN Ends(o, "ok")
        ELSE \/ op' = [op EXCEPT ![o].at = "truncate", ![o].draft = text] /\ UNCHANGED <<tree, content>>
             \/ Ends(o, "tooLarge")
  /\ UNCHANGED apart

Truncate(o) ==
  /\ op[o].at = "truncate"
  /\ op' = [op EXCEPT ![o].at = "put"] /\ UNCHANGED <<apart, tree>>
  /\ content' = [content EXCEPT ![op[o].handle] = <<>>]

Put(o) ==
  /\ op[o].at = "put"
  /\ op' = EndsWith(o, "ok") /\ UNCHANGED <<apart, tree>>
  /\ Keeps([content EXCEPT ![op[o].handle] = Over(op[o].draft, @)])

-----------------------------------------------------------------------------
(* delete *)

\* lstat of the path to delete, or of the source of a copy.
Look(o) ==
  LET r == op[o].req
  IN /\ op[o].at = "look"
     /\ IF tree[r.src] = None THEN Fails(o)
        ELSE IF r.tool = "copy" THEN IF tree[r.src] = Link THEN Ends(o, "isLink") ELSE Goes(o, "access")
        ELSE IF tree[r.src] = Dir /\ r.option = "plain" THEN Ends(o, "confirm")
        ELSE Goes(o, "rm")
  /\ UNCHANGED apart

\* rm looks for itself, and is recursive for a move.
StartRemoving(o) ==
  LET r == op[o].req
  IN /\ op[o].at = "rm"
     /\ IF tree[r.src] = None \/ (tree[r.src] = Dir /\ r.option = "plain" /\ r.tool = "delete") THEN Fails(o)
        ELSE op' = [op EXCEPT ![o].at = "removing", ![o].todo = {r.src}, ![o].opened = {}]
             /\ UNCHANGED <<tree, content>>
  /\ UNCHANGED apart

\* A directory is tried, listed if it is not empty, and tried again after
\* what was listed.
RemoveNext(o) ==
  /\ op[o].at = "removing"
  /\ \E p \in op[o].todo :
       /\ Below(p) \cap op[o].todo = {}
       /\ IF Children(p) = {}
          THEN /\ op' = IF op[o].todo = {p} THEN EndsWith(o, "ok") ELSE [op EXCEPT ![o].todo = @ \ {p}]
               /\ tree' = [tree EXCEPT ![p] = None]
               /\ Keeps(content)
          ELSE IF p \in op[o].opened THEN Fails(o)
          ELSE /\ op' = [op EXCEPT ![o].todo = @ \cup Children(p), ![o].opened = @ \cup {p}]
               /\ UNCHANGED <<tree, content>>
  /\ UNCHANGED apart

-----------------------------------------------------------------------------
(* copy, and move to another file system *)

\* Mutant: without assertNotExists.
GoesAhead(o) == op[o].at = "access" /\ Goes(o, "mkdirs") /\ UNCHANGED apart

\* assertNotExists; the target of a link may exist or not.
Access(o) ==
  LET r == op[o].req
  IN /\ op[o].at = "access"
     /\ \/ tree[r.dst] # None /\ Ends(o, "exists")
        \/ tree[r.dst] \in {None, Link} /\ Goes(o, "mkdirs")
  /\ UNCHANGED apart

\* Mutant: without COPYFILE_EXCL, which opens the file that is there.
Overwrites(p) == tree[p] = None \/ IsFile(p)

\* COPYFILE_EXCL: nothing is there.
Excludes(p) == tree[p] = None

\* copyRecursive of one entry; copyFile creates the file, then fills it.
CopyDir(o, p) ==
  LET to == Image(op[o].req, p)
  IN IF p \in op[o].opened
     THEN op' = [op EXCEPT ![o].todo = (@ \ {p}) \cup Children(p)] /\ UNCHANGED <<tree, content>>
     ELSE IF tree[to] = None THEN MakesOne(o, to)
     ELSE IF IsDir(to) THEN op' = [op EXCEPT ![o].opened = @ \cup {p}] /\ UNCHANGED <<tree, content>>
     ELSE Fails(o)

CopyFile(o, p) ==
  LET to == Image(op[o].req, p)
      Opens(i) == op' = [op EXCEPT ![o].at = "filling", ![o].path = p, ![o].source = tree[p], ![o].handle = i,
                                   ![o].todo = @ \ {p}]
  IN IF tree[to] = Link THEN op' = [op EXCEPT ![o].todo = @ \ {p}] /\ UNCHANGED <<tree, content>>
     ELSE IF ~IsDir(Parent(to)) \/ ~Excludes(to) THEN Fails(o)
     ELSE IF IsFile(to) THEN Opens(tree[to]) /\ UNCHANGED <<tree, content>>
     ELSE \E i \in Inode : Fresh(i) /\ Opens(i) /\ tree' = [tree EXCEPT ![to] = i] /\ UNCHANGED content

CopyNext(o) ==
  /\ op[o].at = "copying"
  /\ \E p \in op[o].todo :
       IF tree[p] = Dir THEN CopyDir(o, p)
       ELSE IF tree[p] = None \/ p \in op[o].opened THEN Fails(o)
       ELSE IF tree[p] = Link THEN op' = [op EXCEPT ![o].todo = @ \ {p}] /\ UNCHANGED <<tree, content>>
       ELSE CopyFile(o, p)
  /\ UNCHANGED apart

Fill(o) ==
  /\ op[o].at = "filling"
  /\ op' = [op EXCEPT ![o].at = "copying", ![o].path = <<>>, ![o].source = NoInode, ![o].handle = NoInode]
  /\ UNCHANGED <<apart, tree>>
  /\ Keeps([content EXCEPT ![op[o].handle] = Over(content[op[o].source], @)])

\* copyFile unlinks what it could not fill.
FillFails(o) ==
  LET to == Image(op[o].req, op[o].path)
  IN /\ op[o].at = "filling"
     /\ op' = EndsWith(o, Failure(o))
     /\ tree' = IF IsDir(to) THEN tree ELSE [tree EXCEPT ![to] = None]
     /\ Keeps(content)
  /\ UNCHANGED apart

Copied(o) ==
  /\ op[o].at = "copying" /\ op[o].todo = {}
  /\ IF op[o].req.tool = "copy" THEN Ends(o, "ok") ELSE Goes(o, "rm")
  /\ UNCHANGED apart

-----------------------------------------------------------------------------
(* move *)

Replaceable(from, to) ==
  \/ tree[to] = None
  \/ tree[to] # Dir /\ tree[from] # Dir
  \/ tree[to] = Dir /\ tree[from] = Dir /\ Children(to) = {}

\* From one file system to another.
Crosses(r) == apart /\ Head(r.src) # Head(r.dst)

\* rename(2): it replaces what is there, unless that is a directory.
Rename(o) ==
  LET r == op[o].req
      From(p) == Moved(r.dst, r.src, p)
  IN /\ op[o].at = "rename"
     /\ IF ~IsDir(Parent(r.src)) \/ ~IsDir(Parent(r.dst)) THEN Fails(o)
        ELSE IF Crosses(r)
        THEN op' = [op EXCEPT ![o].at = "copying", ![o].todo = {r.src}] /\ UNCHANGED <<tree, content>>
        ELSE IF tree[r.src] = None \/ ~Replaceable(r.src, r.dst) THEN Fails(o)
        ELSE /\ op' = EndsWith(o, "ok")
             /\ tree' = [p \in Path |->
                  IF IsPrefix(r.dst, p) THEN IF From(p) \in Path THEN tree[From(p)] ELSE None
                  ELSE IF IsPrefix(r.src, p) THEN None ELSE tree[p]]
             /\ Keeps(content)
  /\ UNCHANGED apart

-----------------------------------------------------------------------------
(* Faults *)

\* Any system call may fail.
Breaks(o) == Active(o) /\ op[o].at # "filling" /\ Fails(o) /\ UNCHANGED apart

\* The process dies, and the operation with it.
Dies(o) == Active(o) /\ Ends(o, "lost") /\ UNCHANGED apart

Runs(o) ==
  \/ MakeDirs(o) \/ OpenToWrite(o) \/ Write(o) \/ OpenToEdit(o) \/ ReadToEdit(o) \/ Truncate(o) \/ Put(o)
  \/ Look(o) \/ StartRemoving(o) \/ RemoveNext(o) \/ Access(o) \/ CopyNext(o) \/ Fill(o) \/ Copied(o) \/ Rename(o)

FilesNext ==
  \E o \in Op :
    \/ \E r \in Request : Begin(o, r)
    \/ Runs(o) \/ FillFails(o) \/ Breaks(o) \/ Dies(o)

FilesSpec == FilesInit /\ [][FilesNext]_fileVars

-----------------------------------------------------------------------------
(* Safety *)

\* The tree is a tree, files have inodes of their own, free inodes are empty,
\* and only operations under way hold files.
FilesTypeOK ==
  /\ apart \in BOOLEAN
  /\ tree \in [Path -> {None, Dir, Link} \cup Inode] /\ DOMAIN content = Inode
  /\ \A p \in Path : tree[p] # None => IsDir(Parent(p))
  /\ \A p, q \in Path : IsFile(p) /\ tree[p] = tree[q] => p = q
  /\ \A i \in Inode : Fresh(i) => content[i] = <<>>
  /\ \A o \in Op : op[o].at \in {"idle"} \cup Stage \cup Answer /\ (~Active(o) => UsedBy(op[o]) = {NoInode})

\* The files among some paths when the operation began.
FilesAmong(record, paths) == {p \in paths : record.start[p].is = File}

\* A file is not copied over a link that was at the destination, and not to
\* where the link leads either (copyRecursive).
Skips(record, p) ==
  LET r == record.req
  IN p = r.src /\ record.start[r.dst].is = Link /\ (r.tool = "move" => Crosses(r))

\* A move that no other operation overlaps loses no file: what it moves is at
\* its old place or, complete, at the new one, at every moment, so also after a
\* crash or an error, and the other files, one at the destination included,
\* stay (movePath, crossDeviceMove).  What a move skips is lost, and excepted.
MovesLoseNothing ==
  [][\A o \in Op :
       LET r == op[o].req
           Places(p) == {p} \cup (IF IsPrefix(r.src, p) THEN {Image(r, p)} ELSE {})
       IN Active(o) /\ r.tool = "move" /\ op[o].company = "none" =>
            \A p \in FilesAmong(op[o], Path) :
              Skips(op[o], p) \/ \E q \in Places(p) : SeenAfter(q) = op[o].start[p]]_fileVars

\* What the caller concludes from an answer is so, after the step that gives it.
Holds(o, record, answer) ==
  LET r == record.req
      Files == FilesAmong(record, {r.src} \cup Below(r.src))
      Arrived == \A p \in Files : Skips(record, p) \/ SeenAfter(Image(r, p)) = record.start[p]
      Untouched(paths) == \A p \in paths : SeenAfter(p) = record.start[p]
      Alone == record.company = "none"
  IN /\ answer \in Refusal /\ Alone => Untouched(Path)
     /\ answer = "ok" /\ r.tool = "copy" /\ record.company # "any" => Arrived /\ Untouched(Files)
     /\ answer = "ok" /\ Alone =>
          /\ r.tool = "write" /\ r.option = "overwrite" => SeenAfter(r.dst) = FileWith(<<o>>)
          /\ r.tool = "write" /\ r.option = "append" => SeenAfter(r.dst) = FileWith(record.start[r.dst].text \o <<o>>)
          /\ r.tool = "edit" /\ r.option = "apply" =>
               SeenAfter(r.dst) = FileWith(Edited(o, record.start[r.dst].text, r.finds))
          /\ r.tool \in {"delete", "move"} => tree'[r.src] = None
     /\ answer = "copyIncomplete" /\ Alone => Untouched(Files)
     /\ answer = "removeIncomplete" /\ Alone => Arrived

\* Answers say what has become of the files: a refusal has changed nothing, an
\* operation that is "ok" has happened (a copy also beside operations that spare
\* its source, copies into one directory included), except for a file that it
\* skips, and an incomplete move has left the files where it says (execute,
\* fs-write.ts, fs-edit.ts).
AnswersAreTrue ==
  [][\A o \in Op : Active(o) /\ op'[o].at \in Answer => Holds(o, op[o], op'[o].at)]_fileVars

=============================================================================
