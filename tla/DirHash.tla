------------------------------- MODULE DirHash -------------------------------
(***************************************************************************)
(* The directory hash of src/pkg/utils/dirhash/hash.go: Hash1, HashDir,    *)
(* DirFiles and HashZip as operators over a small file tree.               *)
(*                                                                         *)
(* Paths are strings, and strings are sequences of byte values: the walk  *)
(* order, sort.Strings and strings.HasPrefix are all about bytes.  SHA-256 *)
(* and base64 are taken to be injective, so a digest is the "h1" tag with  *)
(* the summary the hash is taken of: one <<content, name>> line per file.  *)
(*                                                                         *)
(* A tree is a set of files, each a sequence of names relative to the     *)
(* root; its directories are the proper prefixes of its files.  The root  *)
(* itself may be a regular file (RootFile).  The paths the walk passes to  *)
(* walkFn are built with filepath.Join, as symwalk does.                   *)
(***************************************************************************)
EXTENDS Naturals, Sequences, SequencesExt, FiniteSets

CONSTANTS
  Names,         \* the names a file or directory may have (byte strings)
  CandidateFiles,\* the files a tree may hold: sequences of Names
  Dirs,          \* the root directories HashDir may be given (clean paths)
  HashPrefixes,  \* the prefixes HashDir may be given
  Patterns,      \* the ignore globs, with Star for '*'
  Content,       \* the content of each candidate file
  RootFile       \* a tree whose root is a regular file

SLASH == 47
DOT   == 46
NL    == 10
Star  == 42

(* The separator filepath.ToSlash replaces: '/' on the Unix build.         *)
PathSeparator == SLASH

Trees == (SUBSET CandidateFiles) \cup {RootFile}

(* The regular files below the root of a tree.                            *)
FilesOf(t) == IF t = RootFile THEN {} ELSE t

(***************************************************************************)
(* Byte strings.                                                           *)
(***************************************************************************)

(* The byte order of sort.Strings.                                         *)
RECURSIVE StrLess(_, _)
StrLess(s, t) ==
  IF s = <<>> THEN t # <<>>
  ELSE IF t = <<>> THEN FALSE
  ELSE IF Head(s) # Head(t) THEN Head(s) < Head(t)
  ELSE StrLess(Tail(s), Tail(t))

SortStrings(S) == SetToSortSeq(S, StrLess)

(* strings.HasPrefix and strings.TrimPrefix.                               *)
HasPrefix(s, p) == IsPrefix(p, s)
TrimPrefix(s, p) == IF HasPrefix(s, p) THEN SubSeq(s, Len(p) + 1, Len(s)) ELSE s

(* filepath.Join of two clean paths: an empty element is dropped, and the *)
(* Clean of the result drops a "." first element and the second slash of  *)
(* "/" + name or of a second element that starts with '/'.                *)
JoinPath(a, b) ==
  LET b2 == IF b # <<>> /\ Head(b) = SLASH THEN Tail(b) ELSE b
  IN CASE a = <<>>        -> b
       [] b2 = <<>>       -> a
       [] a = <<DOT>>     -> b2
       [] a = <<SLASH>>   -> a \o b2
       [] OTHER           -> a \o <<SLASH>> \o b2

(* filepath.ToSlash.                                                       *)
ToSlash(s) == [i \in DOMAIN s |-> IF s[i] = PathSeparator THEN SLASH ELSE s[i]]

(* glob.Glob of github.com/ryanuber/go-glob: '*' matches any run of bytes, *)
(* the separator included; any other byte matches itself.                  *)
RECURSIVE Glob(_, _)
Glob(p, s) ==
  IF p = <<>> THEN s = <<>>
  ELSE IF Head(p) = Star
    THEN Glob(Tail(p), s) \/ (s # <<>> /\ Glob(p, Tail(s)))
    ELSE s # <<>> /\ Head(s) = Head(p) /\ Glob(Tail(p), Tail(s))

(***************************************************************************)
(* The walk of symwalk.Walk: the root, then each directory's entries in    *)
(* the byte order of their names, a directory before what it contains.    *)
(***************************************************************************)
IsDir(tree, p) == \E f \in FilesOf(tree) : IsStrictPrefix(p, f)

Children(tree, p) ==
  {n \in Names : \E f \in FilesOf(tree) : Len(f) > Len(p) /\ IsPrefix(p \o <<n>>, f)}

RECURSIVE PreOrder(_, _)
PreOrder(tree, p) ==
  LET kids == SortStrings(Children(tree, p))
  IN <<p>> \o FlattenSeq([i \in 1..Len(kids) |-> PreOrder(tree, p \o <<kids[i]>>)])

(* The path walkFn is given for the entry p below dir.                     *)
PathOf(dir, p) == FoldLeft(JoinPath, dir, p)

Visits(dir, tree) ==
  IF tree = RootFile
    THEN <<[path |-> dir, isDir |-> FALSE]>>
    ELSE LET order == PreOrder(tree, <<>>)
         IN [i \in 1..Len(order) |-> [path  |-> PathOf(dir, order[i]),
                                        isDir |-> order[i] = <<>> \/ IsDir(tree, order[i])]]

(***************************************************************************)
(* DirFiles (lines 93-141).                                                *)
(***************************************************************************)

(* Seeded-bug variant of Rel: file[len(dir):], keeping the separator.     *)
RelKeepSeparator(dir, file) ==
  IF dir # <<DOT>> THEN SubSeq(file, Len(dir) + 1, Len(file)) ELSE file

(* Lines 129-132: the path relative to dir; Go's file[len(dir)+1:].       *)
Rel(dir, file) ==
  IF dir # <<DOT>> THEN SubSeq(file, Len(dir) + 2, Len(file)) ELSE file

(* The walk's state: files found, ignoredDirectories, and an error.        *)
WalkInit == [files |-> <<>>, ignored |-> {}, err |-> "none"]

(* Seeded-bug variant of Visit without the ignored-directory test of      *)
(* lines 122-127.                                                          *)
VisitNoIgnoredDirs(dir, prefix, ignore, st, v) ==
  CASE st.err # "none" -> st
    [] \E i \in ignore : Glob(i, v.path) ->
         IF v.isDir THEN [st EXCEPT !.ignored = @ \cup {v.path}] ELSE st
    [] v.isDir -> st
    [] v.path = dir -> [st EXCEPT !.err = "notDir"]
    [] OTHER -> [st EXCEPT !.files =
                   Append(@, ToSlash(JoinPath(prefix, Rel(dir, v.path))))]

(* One call of the walkFn of lines 97-136.  After an error Walk stops.     *)
Visit(dir, prefix, ignore, st, v) ==
  CASE st.err # "none" -> st
    [] \E i \in ignore : Glob(i, v.path) ->
         IF v.isDir THEN [st EXCEPT !.ignored = @ \cup {v.path}] ELSE st
    [] v.isDir -> st
    [] v.path = dir -> [st EXCEPT !.err = "notDir"]
    [] \E i \in st.ignored : HasPrefix(v.path, i) -> st
    [] OTHER -> [st EXCEPT !.files =
                   Append(@, ToSlash(JoinPath(prefix, Rel(dir, v.path))))]

DirFiles(dir, prefix, ignore, tree) ==
  FoldLeft(LAMBDA st, v : Visit(dir, prefix, ignore, st, v),
           WalkInit, Visits(dir, tree))

(***************************************************************************)
(* Hash1 (lines 51-72).  open maps each listed name to [ok, content].      *)
(***************************************************************************)
(* Seeded-bug variant of Digest: a digest without its "h1:" tag.         *)
DigestUntagged(summary) == summary

(* Line 71: the tag and the encoding of the hash of the summary.           *)
Digest(summary) == <<"h1", summary>>

(* Lines 53-54: a sorted copy of the file list.                            *)
Sorted(files) == SortSeq(files, StrLess)

Hash1(files, open) ==
  LET sorted == Sorted(files)
      step(acc, f) ==
        CASE acc.err # "none" -> acc
          [] NL \in ToSet(f)  -> [acc EXCEPT !.err = "newline"]
          [] ~open[f].ok      -> [acc EXCEPT !.err = "open"]
          [] OTHER            -> [acc EXCEPT !.lines = Append(@, <<open[f].content, f>>)]
      res == FoldLeft(step, [lines |-> <<>>, err |-> "none"], sorted)
  IN IF res.err = "none" THEN [ok |-> TRUE, digest |-> Digest(res.lines)]
                         ELSE [ok |-> FALSE, digest |-> res.err]

(***************************************************************************)
(* HashDir (lines 78-87): os.Open of dir joined with the name less prefix. *)
(***************************************************************************)
OsOpen(dir, tree, path) ==
  IF \E f \in FilesOf(tree) : PathOf(dir, f) = path
    THEN [ok |-> TRUE,
          content |-> Content[CHOOSE f \in FilesOf(tree) : PathOf(dir, f) = path]]
    ELSE [ok |-> FALSE, content |-> 0]

HashDir(dir, prefix, ignore, tree) ==
  LET walk == DirFiles(dir, prefix, ignore, tree)
  IN IF walk.err # "none"
       THEN [ok |-> FALSE, digest |-> walk.err]
       ELSE Hash1(walk.files,
                  [name \in ToSet(walk.files) |->
                     OsOpen(dir, tree, JoinPath(dir, TrimPrefix(name, prefix)))])

(***************************************************************************)
(* HashZip (lines 147-167): the names in archive order; a name maps to its *)
(* last entry.  An entry is [name, content].                               *)
(***************************************************************************)
ZipOpen(zip, name) ==
  IF \E i \in DOMAIN zip : zip[i].name = name
    THEN [ok |-> TRUE,
          content |-> zip[CHOOSE i \in DOMAIN zip :
                            zip[i].name = name /\ \A j \in DOMAIN zip :
                              zip[j].name = name => j <= i].content]
    ELSE [ok |-> FALSE, content |-> 0]

HashZip(zip) ==
  LET files == [i \in DOMAIN zip |-> zip[i].name]
  IN Hash1(files, [name \in ToSet(files) |-> ZipOpen(zip, name)])

-----------------------------------------------------------------------------
(***************************************************************************)
(* The three entry points called once each on one input: a root, a        *)
(* prefix, a tree, ignore globs, and a zip of the same tree's files under  *)
(* the same prefix, its entries in any order.                              *)
(***************************************************************************)
VARIABLES dir, prefix, tree, ignore, zip, dirFiles, hashDir, hashZip

vars == <<dir, prefix, tree, ignore, zip, dirFiles, hashDir, hashZip>>

NotRun == [err |-> "notRun"]

(* The name a file has in the hash: prefix joined with its relative path.  *)
LogicalName(pre, f) == JoinPath(pre, FoldLeft(JoinPath, <<>>, f))

ZipEntries(pre, t) ==
  {[name |-> LogicalName(pre, f), content |-> Content[f]] : f \in FilesOf(t)}

Init ==
  /\ dir \in Dirs
  /\ prefix \in HashPrefixes
  /\ tree \in Trees
  /\ ignore \in SUBSET Patterns
  /\ zip \in SetToSeqs(ZipEntries(prefix, tree))
  /\ dirFiles = NotRun /\ hashDir = NotRun /\ hashZip = NotRun

inputs == <<dir, prefix, tree, ignore, zip>>

CallDirFiles ==
  /\ dirFiles = NotRun
  /\ dirFiles' = DirFiles(dir, prefix, ignore, tree)
  /\ UNCHANGED <<inputs, hashDir, hashZip>>

CallHashDir ==
  /\ hashDir = NotRun
  /\ hashDir' = HashDir(dir, prefix, ignore, tree)
  /\ UNCHANGED <<inputs, dirFiles, hashZip>>

CallHashZip ==
  /\ hashZip = NotRun
  /\ hashZip' = HashZip(zip)
  /\ UNCHANGED <<inputs, dirFiles, hashDir>>

Next == CallDirFiles \/ CallHashDir \/ CallHashZip

Spec == Init /\ [][Next]_vars

-----------------------------------------------------------------------------
Strings == Seq(0..255)
Results == [ok : {TRUE}, digest : {"h1"} \X Seq(Nat \X Strings)]
           \cup [ok : {FALSE}, digest : {"newline", "open", "notDir"}]

TypeOK ==
  /\ dirFiles \in {NotRun} \cup [files : Seq(Strings), ignored : SUBSET Strings,
                                  err : {"none", "notDir"}]
  /\ hashDir \in {NotRun} \cup Results
  /\ hashZip \in {NotRun} \cup Results

(* The files spec 4.2 says HashTree covers: every file of the tree none of *)
(* whose paths, from the root down to the file itself, matches a glob.     *)
Expected ==
  {LogicalName(prefix, f) :
     f \in {g \in tree : \A a \in Prefixes(g), i \in ignore : ~Glob(i, PathOf(dir, a))}}

(* DirFiles returns exactly the files outside the ignored patterns and the *)
(* subtrees of ignored directories, each once.  It rests on the walk       *)
(* visiting a directory before its contents, on ignoredDirectories being  *)
(* filled before they are visited, and on the prefix test of line 124.    *)
DirFilesExact ==
  dirFiles # NotRun /\ tree # RootFile =>
    /\ dirFiles.err = "none"
    /\ ToSet(dirFiles.files) = Expected
    /\ Len(dirFiles.files) = Cardinality(Expected)

(* spec 8: a digest over a tree equals the digest over an archive of the   *)
(* same logical paths and contents.  HashDir names files by the walk's    *)
(* relative paths (line 131) and opens them back by trimming the prefix   *)
(* (line 84); HashZip by the entry names.                                  *)
TreeAndZipAgree ==
  hashDir # NotRun /\ hashZip # NotRun /\ ignore = {} /\ tree # RootFile =>
    hashDir = hashZip

=============================================================================
