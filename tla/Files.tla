-------------------------------- MODULE Files --------------------------------
(***************************************************************************)
(* Files of one container: the list, read and write endpoints and the      *)
(* push of a skill archive, beside a process of the container that works   *)
(* on the same tree.  A raw path is a sequence of segments, as the client  *)
(* spells it; a place in the tree is a sequence of names.  The tree has no *)
(* symbolic links.                                                         *)
(***************************************************************************)
EXTENDS Naturals, Sequences, SequencesExt

CONSTANTS
    Names,         \* names of files and directories
    MaxSegments,   \* bound: segments of a raw path
    MaxDepth,      \* bound: depth of the tree
    Limit          \* maxFileUploadBytes

ASSUME NamesAssumption ==
    {"skills", "SKILL.md"} \subseteq Names /\ {".", "..", ""} \cap Names = {}

\* The tree has room for skills/SKILL.md.
ASSUME BoundsAssumption ==
    MaxSegments \in Nat /\ Limit \in Nat /\ MaxDepth \in Nat /\ MaxDepth >= 2

VARIABLES
    tree,          \* what is at each place that exists
    gnu,           \* the image has a find that knows -printf
    job,           \* the request between two calls of the engine, or NoJob
    answer,        \* the last answer
    acked          \* history: the last write that was answered 204, still intact

filesVars == <<tree, gnu, job, answer, acked>>

Dir == [dir |-> TRUE, size |-> 0]
File(n) == [dir |-> FALSE, size |-> n]
NoJob == [op |-> "none"]
NoAnswer == [op |-> "none"]
NoAck == [at |-> <<".">>, size |-> 0]

\* Segments that lead nowhere, those of a path, and the paths as clients
\* spell them.
Stays == {"", "."}
Segments == Names \cup Stays \cup {".."}
RawPaths == BoundedSeq(Segments, MaxSegments)

-----------------------------------------------------------------------------
(* Paths.                                                                  *)

\* filepath.Clean on the segments of a path, rooted or not: empty segments
\* and "." go, ".." takes away the name before it, and is kept only where a
\* relative path has none.
CleanStep(rooted, out, s) ==
    CASE s \in Stays -> out
      [] s = ".." /\ out # <<>> /\ Last(out) # ".." -> Front(out)
      [] s = ".." /\ (out = <<>> \/ Last(out) = "..") -> IF rooted THEN out ELSE Append(out, "..")
      [] OTHER -> Append(out, s)
Clean(rooted, segs) ==
    LET out[i \in 0 .. Len(segs)] == IF i = 0 THEN <<>> ELSE CleanStep(rooted, out[i - 1], segs[i])
    IN  out[Len(segs)]

\* Mutant: cleaned without the slash in front.
MutantSanitizePath(raw) == Clean(FALSE, raw)

sanitizePath(raw) == Clean(TRUE, raw)

\* The directory of splitPath on a clean path; the root has no file name.
SplitDir(path) == IF path = <<>> THEN <<>> ELSE Front(path)

\* Mutant: the limit is the limit of the reader.
MutantReadAllMax(n) == IF n <= Limit THEN n ELSE Limit

\* What readAllMax returns of a body of n bytes: all of it, or an error.
TooLarge == Limit + 1
readAllMax(n) == IF n > Limit THEN TooLarge ELSE n

\* Reference: the place where a walk through the tree ends that follows the
\* segments one by one, with the root as its own parent.
WalkStep(at, s) ==
    CASE s \in Stays -> at
      [] s = ".." -> IF at = <<>> THEN at ELSE Front(at)
      [] OTHER -> Append(at, s)
Walk(from, segs) ==
    LET at[i \in 0 .. Len(segs)] == IF i = 0 THEN from ELSE WalkStep(at[i - 1], segs[i])
    IN  at[Len(segs)]

-----------------------------------------------------------------------------
(* The tree.                                                               *)

Exists(p) == p \in DOMAIN tree
IsDir(p) == Exists(p) /\ tree[p].dir
Children(p) == {c \in DOMAIN tree : Len(c) = Len(p) + 1 /\ IsPrefix(p, c)}
Under(p) == {c \in DOMAIN tree : IsPrefix(p, c)}

Put(t, p, node) == [c \in DOMAIN t \cup {p} |-> IF c = p THEN node ELSE t[c]]
Without(t, gone) == [c \in DOMAIN t \ gone |-> t[c]]

\* Docker puts a file in a directory that exists, never in place of one.
CanPut(t, p) ==
    /\ p # <<>> /\ SplitDir(p) \in DOMAIN t /\ t[SplitDir(p)].dir
    /\ p \in DOMAIN t => ~t[p].dir

Places == BoundedSeq(Names, MaxDepth)

\* A process in the container makes directories and removes anything.
ContainerMkdir(p) ==
    /\ answer = NoAnswer
    /\ p # <<>> /\ ~Exists(p) /\ IsDir(Front(p))
    /\ tree' = Put(tree, p, Dir)
    /\ UNCHANGED <<gnu, job, answer, acked>>

ContainerRemove(p) ==
    /\ answer = NoAnswer
    /\ p # <<>> /\ Exists(p)
    /\ tree' = Without(tree, Under(p))
    /\ acked' = IF IsPrefix(p, acked.at) THEN NoAck ELSE acked
    /\ UNCHANGED <<gnu, job, answer>>

-----------------------------------------------------------------------------
(* Read, write and list.                                                   *)

\* One request at a time; the client has its answer before the next step.
Idle == job = NoJob /\ answer = NoAnswer

Collect ==
    /\ answer # NoAnswer
    /\ answer' = NoAnswer
    /\ UNCHANGED <<tree, gnu, job, acked>>

\* Answers, with the state of the link to the daemon when they were made.
Answered(op, status) == [op |-> op, status |-> status]
Sent(at, status, size, link) ==
    [op |-> "read", at |-> at, status |-> status, size |-> size, link |-> link]
Listed(at, files, link) == [op |-> "list", at |-> at, files |-> files, link |-> link]

\* CopyFromContainer and the header of its tar stream, or their error; then
\* the stream, whose end is the end of the body even if it broke off.
ReadFile(raw) ==
    LET path == sanitizePath(raw)
        at == Walk(<<>>, raw)
    IN  /\ Idle
        /\ \/ raw = <<>> /\ answer' = Sent(at, "bad_request", 0, "up")
           \/ raw # <<>> /\ Exists(path) /\ answer' = Sent(at, "ok", tree[path].size, "up")
           \/ raw # <<>> /\ ~Exists(path) /\ answer' = Sent(at, "failed", 0, "up")
           \/ raw # <<>> /\ answer' = Sent(at, "failed", 0, "broken")
           \/ /\ raw # <<>> /\ Exists(path)
              /\ \E k \in 0..tree[path].size : answer' = Sent(at, "ok", k, "broken")
        /\ UNCHANGED <<tree, gnu, job, acked>>

\* What a CopyToContainer that reports an error may have done: the old file is
\* removed first, and the new one filled as its bytes arrive.
Torn(path, body) == {tree, Without(tree, {path})} \cup {Put(tree, path, File(k)) : k \in 0..body}

\* CopyToContainer of one file; a body over the limit is refused before.
WriteFile(raw, n) ==
    LET path == sanitizePath(raw)
        at == Walk(<<>>, raw)
        body == readAllMax(n)
    IN  /\ Idle /\ Len(path) <= MaxDepth
        /\ \/ /\ raw = <<>>
              /\ answer' = Answered("write", "bad_request") /\ UNCHANGED <<tree, acked>>
           \/ /\ raw # <<>> /\ body # TooLarge /\ CanPut(tree, path)
              /\ tree' = Put(tree, path, File(body))
              /\ acked' = [at |-> at, size |-> n]
              /\ answer' = Answered("write", "ok")
           \/ /\ raw # <<>>
              /\ answer' = Answered("write", "failed") /\ UNCHANGED <<tree, acked>>
           \/ /\ raw # <<>> /\ body # TooLarge /\ CanPut(tree, path)
              /\ tree' \in Torn(path, body)
              /\ acked' = IF at = acked.at THEN NoAck ELSE acked
              /\ answer' = Answered("write", "failed")
        /\ UNCHANGED <<gnu, job>>

\* An entry of a listing: its name is put behind the path that was listed.
Entry(path, name, node) == [path |-> Append(path, name), dir |-> node.dir]
BaseName(path) == IF path = <<>> THEN "/" ELSE Last(path)

\* find -maxdepth 1 also prints the path itself, by its name.
parseFileList(path) ==
    {Entry(path, BaseName(path), tree[path])} \cup {Entry(path, Last(c), tree[c]) : c \in Children(path)}

\* ls -la prints the children of a directory, and a file as it was spelled.
parseLSOutput(path) ==
    IF IsDir(path) THEN {Entry(path, Last(c), tree[c]) : c \in Children(path)}
    ELSE IF Exists(path) THEN {[path |-> path \o path, dir |-> FALSE]}
    ELSE {}

\* A call of the engine fails, or the output breaks off unnoticed; a name cut
\* short is not told from a missing one.
ListBreaks(at, output) ==
    \/ answer' = Answered("list_failed", "failed")
    \/ \E files \in SUBSET output : answer' = Listed(at, files, "broken")

\* find prints something, or only complains and ls is tried.
ListFiles(raw) ==
    LET path == sanitizePath(raw)
        at == Walk(<<>>, raw)
        found == gnu /\ Exists(path)
    IN  /\ Idle
        /\ \/ found /\ answer' = Listed(at, parseFileList(path), "up") /\ UNCHANGED job
           \/ ~found /\ job' = [op |-> "ls", path |-> path, at |-> at] /\ UNCHANGED answer
           \/ ListBreaks(at, IF found THEN parseFileList(path) ELSE {}) /\ UNCHANGED job
        /\ UNCHANGED <<tree, gnu, acked>>

listFilesWithLS ==
    /\ job.op = "ls"
    /\ \/ answer' = Listed(job.at, parseLSOutput(job.path), "up")
       \/ ListBreaks(job.at, parseLSOutput(job.path))
    /\ job' = NoJob
    /\ UNCHANGED <<tree, gnu, acked>>

-----------------------------------------------------------------------------
(* The push of a skill.                                                    *)

DestDir == <<"skills">>
Manifest == "SKILL.md"

\* An entry of any kind, devices among the pipes, alone or after the manifest.
ArchiveEntries == [rooted : BOOLEAN, segs : BoundedSeq({Manifest, ".", ".."}, MaxSegments) \ {<<>>},
                   type : {"file", "dir", "link", "fifo"}]
ManifestEntry == [rooted |-> FALSE, segs |-> <<Manifest>>, type |-> "file"]
Archives == {<<e>> : e \in ArchiveEntries} \cup {<<ManifestEntry, e>> : e \in ArchiveEntries}

\* Mutant: the name is looked at as it is.
MutantSafe(e) == ~e.rooted /\ Head(e.segs) # ".." /\ e.type # "link"

\* No absolute name, none that leaves the directory, no links.
Safe(e) ==
    LET clean == Clean(e.rooted, e.segs)
    IN  ~e.rooted /\ (clean # <<>> => Head(clean) # "..") /\ e.type # "link"

\* Mutant: without the check for a manifest.
MutantValidateSkillTar(archive) == \A i \in DOMAIN archive : Safe(archive[i])

validateSkillTar(archive) ==
    /\ \A i \in DOMAIN archive : Safe(archive[i])
    /\ \E i \in DOMAIN archive : Clean(archive[i].rooted, archive[i].segs) = <<Manifest>>

\* mkdir -p: the error of the call ends the push, while a failure of the
\* command, or output that breaks off before it ran, goes unnoticed.
InstallSkill(archive) ==
    /\ Idle
    /\ \/ /\ validateSkillTar(archive)
          /\ tree' \in {tree, IF Exists(DestDir) THEN tree ELSE Put(tree, DestDir, Dir)}
          /\ \/ job' = [op |-> "push", archive |-> archive] /\ UNCHANGED answer
             \/ answer' = Answered("push", "failed") /\ UNCHANGED job
       \/ /\ ~validateSkillTar(archive)
          /\ answer' = Answered("push", "bad_request")
          /\ UNCHANGED <<tree, job>>
    /\ UNCHANGED <<gnu, acked>>

\* Where a plain tar would put an entry.
Target(e) == Walk(IF e.rooted THEN <<>> ELSE DestDir, e.segs)

\* One entry: over what is there, but not a file over a directory or the other
\* way round.  Only the manifest's name occurs, so no parent is missing.
CanExtract(t, e) ==
    /\ Target(e) \in DOMAIN t => (t[Target(e)].dir <=> e.type = "dir")
    /\ Target(e) \notin DOMAIN t => Front(Target(e)) \in DOMAIN t /\ t[Front(Target(e))].dir
NodeOf(e) == IF e.type = "dir" THEN Dir ELSE File(IF e.type = "file" THEN Limit ELSE 0)
Extract(t, e) ==
    IF ~CanExtract(t, e) THEN t
    ELSE Put(t, Target(e), NodeOf(e))

\* Docker extracts the entries in their order up to one that it refuses; a
\* call that fails has extracted some of them.
ExtractArchive ==
    LET a == job.archive
        first == Extract(tree, a[1])
        all == IF Len(a) = 1 \/ ~CanExtract(tree, a[1]) THEN first ELSE Extract(first, a[2])
        complete == CanExtract(tree, a[1]) /\ (Len(a) = 2 => CanExtract(first, a[2]))
    IN  /\ job.op = "push"
        /\ \/ /\ ~IsDir(DestDir) /\ tree' = tree
              /\ answer' = Answered("push", "failed")
           \/ /\ IsDir(DestDir) /\ tree' = all
              /\ answer' = Answered("push", IF complete THEN "ok" ELSE "failed")
           \/ /\ IsDir(DestDir) /\ tree' \in {tree, first, all}
              /\ answer' = Answered("push", "failed")
        /\ acked' = IF acked.at \in DOMAIN tree' /\ tree'[acked.at] = tree[acked.at] THEN acked ELSE NoAck
        /\ job' = NoJob
        /\ UNCHANGED gnu

-----------------------------------------------------------------------------
FilesInit ==
    /\ tree = [p \in {<<>>} |-> Dir] /\ gnu \in BOOLEAN
    /\ job = NoJob /\ answer = NoAnswer /\ acked = NoAck

FilesNext ==
    \/ \E p \in Places : ContainerMkdir(p) \/ ContainerRemove(p)
    \/ \E raw \in RawPaths : ReadFile(raw) \/ ListFiles(raw) \/ \E n \in 0..Limit + 1 : WriteFile(raw, n)
    \/ listFilesWithLS \/ Collect
    \/ \E archive \in Archives : InstallSkill(archive)
    \/ ExtractArchive

FilesSpec == FilesInit /\ [][FilesNext]_filesVars

-----------------------------------------------------------------------------
(* Properties.                                                             *)

\* The tree is a tree: everything but the root lies in a directory.
FilesTypeOK ==
    /\ <<>> \in DOMAIN tree
    /\ \A p \in DOMAIN tree : /\ p \in Places /\ tree[p].size \in 0..Limit
                              /\ p # <<>> => IsDir(Front(p))
    /\ job.op \in {"none", "ls", "push"}

\* What was written and answered 204 is what a read returns, whole, under
\* every spelling of its path, until a process, a push or a write that failed
\* replaces it: the file is where a walk along the client's spelling leads.
\* Exception: if the link to the daemon breaks, a read may fail, or be answered
\* 200 with only the beginning, for the handler ignores the error of io.Copy;
\* it never returns more than was written.
ReadsLastWrite ==
    answer.op = "read" /\ answer.at = acked.at =>
        /\ answer.status = "ok" => answer.size <= acked.size
        /\ answer.link = "up" => answer.status = "ok" /\ answer.size = acked.size

\* The tree stays a tree (FilesTypeOK), and a listing answers for the directory
\* the client meant: all its children are in it, under paths that lead back to
\* them, and nothing else, except the directory itself, which find puts in
\* among its own children.  Exception: output that broke off is listed as far
\* as it came.
ListingComplete ==
    /\ FilesTypeOK
    /\ answer.op = "list" /\ answer.link = "up" /\ IsDir(answer.at) =>
        LET children == {[path |-> c, dir |-> tree[c].dir] : c \in Children(answer.at)}
            itself == [path |-> Append(answer.at, BaseName(answer.at)), dir |-> TRUE]
        IN  children \subseteq answer.files /\ answer.files \subseteq children \cup {itself}

\* An archive that passed validation changes nothing outside its directory,
\* even if it is extracted by a tool without checks of its own.
ExtractsInside ==
    [][job.op = "push" /\ job' = NoJob =>
         \A p \in (DOMAIN tree \cup DOMAIN tree') :
            ~IsPrefix(DestDir, p) => p \in DOMAIN tree /\ p \in DOMAIN tree' /\ tree'[p] = tree[p]]_filesVars

\* After a push that succeeded the skill has its manifest, so that the list
\* of installed skills can find it.
ManifestInstalled ==
    answer.op = "push" /\ answer.status = "ok" => Exists(Append(DestDir, Manifest))
=============================================================================
