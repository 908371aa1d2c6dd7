---------------------------- MODULE FileQueries ----------------------------
(***************************************************************************)
(* The functions of FileSystem that compute paths and that look at files   *)
(* and directories, on paths as sequences of characters and on directories *)
(* as the sequences of entries readdir() gives.  Buffers are cleared       *)
(* before a call, and paths are shorter than FILESYSTEM_PATH_LENGTH.       *)
(*                                                                         *)
(* Source: FileSystem.c.                                                   *)
(***************************************************************************)
EXTENDS Integers, FiniteSets, SequencesExt, FiniteSetsExt

CONSTANTS
    PathLength,    \* bound: characters of a path
    Directories,   \* listings of directories
    BufferLength,  \* FILESYSTEM_FILEBUFFER_LENGTH
    FileLength     \* bound: bytes of a file

Slash == "/"
Dot == "."
PathChars == {Slash, Dot, "n"}

VARIABLE query   \* the call: what it does and its arguments

PathsUpTo(n) == UNION {[1..k -> PathChars] : k \in 0..n}
LastOf(p, c) == Max({i \in 1..Len(p) : p[i] = c} \cup {0})
Upto(p, n) == SubSeq(p, 1, n)
Behind(p, n) == SubSeq(p, n + 1, Len(p))

-----------------------------------------------------------------------------
(* Paths.                                                                  *)

\* A slash goes between the two unless the path is empty or ends with one.
FileSystem_implode(path, size, toAdd) ==
    IF Len(path) + Len(toAdd) < size - 1
    THEN [ret |-> "SUCCESS",
          path |-> path \o (IF path # <<>> /\ Last(path) # Slash THEN <<Slash>> ELSE <<>>)
                   \o toAdd]
    ELSE [ret |-> "INSUFFICIENTSIZE", path |-> path]

\* Mutant: the slash stays with the branch.
DecomposeWithSlash(path, leafSize) ==
    LET n == Max({i \in 1..Len(path) : path[i] # Slash \/ i = 1})
        p == Upto(path, n)
        i == LastOf(p, Slash)
    IN  IF i = 0
        THEN IF leafSize > n THEN [ret |-> "SUCCESS", branch |-> <<Dot>>, leaf |-> p]
             ELSE [ret |-> "INSUFFICIENTSIZE", branch |-> <<Dot>>, leaf |-> <<>>]
        ELSE [ret |-> "SUCCESS", branch |-> Upto(p, i), leaf |-> Behind(p, i)]

\* Slashes at the end do not count, except for one that is alone.  The size of
\* the leaf is looked at only where there is no slash.
FileSystem_decomposePath(path, leafSize) ==
    LET n == Max({i \in 1..Len(path) : path[i] # Slash \/ i = 1})
        p == Upto(path, n)
        i == LastOf(p, Slash)
    IN  IF i = 0
        THEN IF leafSize > n THEN [ret |-> "SUCCESS", branch |-> <<Dot>>, leaf |-> p]
             ELSE [ret |-> "INSUFFICIENTSIZE", branch |-> <<Dot>>, leaf |-> <<>>]
        ELSE [ret |-> "SUCCESS", leaf |-> Behind(p, i),
              branch |-> IF i > 1 THEN Upto(p, i - 1) ELSE <<Slash>>]

\* What follows the last dot, wherever in the path it stands.  The name is cut
\* also when the buffer of the suffix is too small.
FileSystem_removeSuffixFromFileName(name, suffixSize) ==
    LET i == LastOf(name, Dot)
        suffix == Behind(name, i)
        fits == Len(suffix) < suffixSize
    IN  IF i = 0 THEN [ret |-> "SUCCESS", name |-> name, suffix |-> <<>>]
        ELSE [ret |-> IF fits THEN "SUCCESS" ELSE "SUFFIXTOOSMALL",
              name |-> Upto(name, i - 1), suffix |-> IF fits THEN suffix ELSE <<>>]

\* Every failure of getcwd(), as where the directory was removed, is told as a
\* buffer that is too small: errno is assigned where it should be compared.
Removed == <<>>
FileSystem_getCWD(cwd) ==
    IF cwd = Removed THEN [ret |-> "INSUFFICIENTSIZE", path |-> <<>>]
    ELSE [ret |-> "SUCCESS", path |-> cwd]

\* A path that does not begin with a slash goes behind the current directory.
FileSystem_implodeIfRelative(path, size, cwd) ==
    LET current == FileSystem_getCWD(cwd)
        full == FileSystem_implode(current.path, size, path)
    IN  IF path # <<>> /\ Head(path) = Slash THEN [ret |-> "SUCCESS", path |-> path]
        ELSE IF current.ret # "SUCCESS" THEN [ret |-> current.ret, path |-> path]
        ELSE IF full.ret # "SUCCESS" THEN [ret |-> full.ret, path |-> path]
        ELSE IF Len(full.path) < size THEN full
        ELSE [ret |-> "INSUFFICIENTSIZE", path |-> path]

-----------------------------------------------------------------------------
(* What a path stands for: a file of some kind, a link to one (behind), or   *)
(* "none", also behind a link that leads nowhere.  Most questions are asked  *)
(* of stat(), which follows a link; two of lstat(), which does not.          *)

FileKinds == {"regular", "directory", "pipe", "block", "char", "socket"}
Nodes == [kind : FileKinds \cup {"link", "none"}, behind : FileKinds \cup {"none"},
          executable : BOOLEAN, writeable : BOOLEAN]

Lstat(f) == f.kind
Stat(f)  == IF f.kind = "link" THEN f.behind ELSE f.kind

IsRegular(f)    == Lstat(f) = "regular"
IsADirectory(f) == Stat(f) = "directory"
FileSystem_isSymLink(f)              == Lstat(f) = "link"
FileSystem_isNamedPipe(f)            == Stat(f) = "pipe"
FileSystem_isBlockSpecialFile(f)     == Stat(f) = "block"
FileSystem_isCharacterSpecialFile(f) == Stat(f) = "char"
FileSystem_isSocket(f)               == Stat(f) = "socket"
FileSystem_isExecutable(f) == Stat(f) = "regular" /\ f.executable
FileSystem_isWriteable(f)  == Stat(f) \in {"regular", "directory"} /\ f.writeable

\* The first question that is answered with yes.
FileSystem_getFileType(f) ==
    LET asked == <<"regular", "directory", "link", "pipe", "block", "char", "socket">>
        is == <<IsRegular(f), IsADirectory(f), FileSystem_isSymLink(f),
                FileSystem_isNamedPipe(f), FileSystem_isBlockSpecialFile(f),
                FileSystem_isCharacterSpecialFile(f), FileSystem_isSocket(f)>>
        yes == {i \in DOMAIN is : is[i]}
    IN  IF yes = {} THEN "unknown" ELSE asked[Min(yes)]

-----------------------------------------------------------------------------
(* Directories and files.                                                  *)

\* The entries in the order of readdir(), without "." and "..", as many as the
\* list holds.
FileSystem_readDirectory(list, mode, listSize) ==
    LET kept(e) == /\ e.name \notin {".", ".."}
                   /\ mode = "FILES" => e.kind = "file"
                   /\ mode = "DIRS" => e.kind = "dir"
        all == SelectSeq(list, kept)
    IN  [i \in 1..Min({listSize, Len(all)}) |-> all[i].name]

\* Both files block by block until one of them gives nothing.
FileSystem_compareFiles(first, second) ==
    LET block(f, k) == SubSeq(f, k * BufferLength + 1, Min({(k + 1) * BufferLength, Len(f)}))
    IN  \A k \in 0..FileLength :
          (\A j \in 0..k - 1 : block(first, j) # <<>> /\ block(second, j) # <<>>)
            => block(first, k) = block(second, k)

RECURSIVE FileSystem_compare(_, _)

\* The listings side by side, in the order readdir() gives them.
FileSystem_compareDirectories(first, second) ==
    /\ Len(first) = Len(second)
    /\ \A i \in 1..Len(first) :
         /\ first[i].name = second[i].name
         /\ first[i].name \notin {".", ".."} => FileSystem_compare(first[i], second[i])

FileSystem_compare(first, second) ==
    \/ /\ first.kind = "file" /\ second.kind = "file"
       /\ FileSystem_compareFiles(first.bytes, second.bytes)
    \/ /\ first.kind = "dir" /\ second.kind = "dir"
       /\ FileSystem_compareDirectories(first.list, second.list)

\* Pieces of one byte less than the block, each of them read to its beginning.
FileSystem_readFile(bytes, offset, length) ==
    LET size == length - 1
        rest == Behind(bytes, Min({offset, Len(bytes)}))
        after[k \in 0..FileLength] ==
          LET piece == SubSeq(rest, k * size + 1, Min({(k + 1) * size, Len(rest)}))
              before == IF k = 0 THEN <<>> ELSE after[k - 1]
          IN  IF piece = <<>> THEN before
              ELSE Append(piece, "NUL") \o Behind(before, Min({Len(piece) + 1, Len(before)}))
    IN  IF Len(bytes) > length THEN [ret |-> "INSUFFICIENTSIZE", block |-> <<>>]
        ELSE IF size = 0 THEN [ret |-> "SUCCESS", block |-> <<>>]
        ELSE [ret |-> "SUCCESS", block |-> after[FileLength]]

\* The first directory of the list that has the file; a path too long to be made
\* is passed over, and the status is that of the last path that was made.
FileSystem_which(dirs) ==
    LET found == {i \in 1..Len(dirs) : dirs[i] = "executable"}
    IN  IF found # {} THEN [ret |-> "SUCCESS", out |-> Min(found)]
        ELSE [ret |-> IF dirs # <<>> /\ Last(dirs) = "tooLong" THEN "INSUFFICIENTSIZE"
                      ELSE "SUCCESS",
              out |-> 0]

-----------------------------------------------------------------------------
Files(n) == {[kind |-> "file", bytes |-> f, list |-> <<>>] :
               f \in UNION {[1..k -> {0, 1}] : k \in 0..n}}
FileQueriesInit == query = [op |-> "none"]
FileQueriesNext ==
    /\ query.op = "none"
    /\ \/ \E p \in PathsUpTo(PathLength), q \in PathsUpTo(PathLength - 1), n \in 1..PathLength + 2 :
            query' = [op |-> "path", path |-> p, leaf |-> q, size |-> n]
       \/ \E d, e \in Directories, n \in 1..3 :
            query' = [op |-> "directory", first |-> d, second |-> e, size |-> n]
       \/ \E f, g \in Files(FileLength), n \in 1..FileLength + 2 :
            query' = [op |-> "file", first |-> f, second |-> g, size |-> n]
       \/ \E d \in UNION {[1..k -> {"executable", "no", "tooLong"}] : k \in 0..3} :
            query' = [op |-> "which", dirs |-> d]
       \/ \E p \in PathsUpTo(PathLength), n \in 1..PathLength + 5,
            cwd \in {<<Slash>>, <<Slash, "n">>, Removed} :
            query' = [op |-> "relative", path |-> p, size |-> n, cwd |-> cwd]
       \/ \E f \in Nodes : query' = [op |-> "kind", file |-> f]

-----------------------------------------------------------------------------
(* Properties.                                                             *)

\* Taking apart what was put together gives the two parts again: a branch, but
\* for its slashes at the end, and a leaf, which has no slash in it.
DecomposeUndoesImplode ==
    query.op = "path" /\ query.path # <<>> /\ query.leaf # <<>> /\ ~Contains(query.leaf, Slash) =>
        LET joined == FileSystem_implode(query.path, 2 * PathLength + 2, query.leaf)
            parts == FileSystem_decomposePath(joined.path, 2 * PathLength + 2)
            bare == Max({i \in 1..Len(query.path) : query.path[i] # Slash \/ i = 1})
        IN  /\ joined.ret = "SUCCESS" /\ parts.ret = "SUCCESS" /\ parts.leaf = query.leaf
            /\ IsPrefix(Upto(query.path, bare), parts.branch) /\ IsPrefix(parts.branch, query.path)

\* A suffix that was removed makes the name again behind a dot, and the name it
\* leaves has lost no other dot.
SuffixRejoins ==
    query.op = "path" =>
        LET cut == FileSystem_removeSuffixFromFileName(query.path, query.size)
        IN  IF ~Contains(query.path, Dot) THEN cut.name = query.path
            ELSE /\ ~Contains(cut.suffix, Dot)
                 /\ cut.ret = "SUCCESS" => cut.name \o <<Dot>> \o cut.suffix = query.path

\* A directory listing has the entries asked for, each once, and only a list
\* that is full leaves any of them out.
ListsWhatIsThere ==
    query.op = "directory" /\ query.first.kind = "dir" =>
        \A mode \in {"ALL", "FILES", "DIRS"} :
            LET got == FileSystem_readDirectory(query.first.list, mode, query.size)
                there == {e.name : e \in {f \in Range(query.first.list) :
                            /\ f.name \notin {".", ".."}
                            /\ mode = "FILES" => f.kind = "file"
                            /\ mode = "DIRS" => f.kind = "dir"}}
            IN  /\ Range(got) \subseteq there /\ IsInjective(got)
                /\ Len(got) < query.size => Range(got) = there

\* Directories that compare as the same hold the same files with the same bytes,
\* through all levels; a directory compares as the same as itself.
RECURSIVE Same(_, _)
Same(x, y) ==
    /\ x.kind = y.kind /\ x.bytes = y.bytes
    /\ {e.name : e \in Range(x.list)} = {e.name : e \in Range(y.list)}
    /\ \A e \in Range(x.list), f \in Range(y.list) :
         e.name = f.name /\ e.name \notin {".", ".."} => Same(e, f)
CompareIsSound ==
    query.op \in {"directory", "file"} =>
        /\ FileSystem_compare(query.first, query.second) => Same(query.first, query.second)
        /\ FileSystem_compare(query.first, query.first)

\* A file that is shorter than the block arrives whole, from the offset on.
ReadsWholeFile ==
    query.op = "file" =>
        \A offset \in 0..1 :
            LET bytes == query.first.bytes
                got == FileSystem_readFile(bytes, offset, query.size)
            IN  Len(bytes) < query.size /\ offset < Len(bytes) =>
                    got = [ret |-> "SUCCESS", block |-> Append(Behind(bytes, offset), "NUL")]

\* An executable that is found is that of the first directory that has one.
WhichIsFirst ==
    query.op = "which" =>
        LET w == FileSystem_which(query.dirs)
        IN  /\ w.out = 0 <=> ~Contains(query.dirs, "executable")
            /\ w.out # 0 => /\ w.ret = "SUCCESS" /\ query.dirs[w.out] = "executable"
                            /\ \A i \in 1..w.out - 1 : query.dirs[i] # "executable"

\* A path made absolute fits its buffer, begins at the root and ends as it was
\* given; where that fails it is as before.
RelativeBecomesAbsolute ==
    query.op = "relative" =>
        LET made == FileSystem_implodeIfRelative(query.path, query.size, query.cwd)
            given == Len(made.path) - Len(query.path)
        IN  IF made.ret # "SUCCESS" THEN made.path = query.path
            ELSE /\ Head(made.path) = Slash /\ Behind(made.path, given) = query.path
                 /\ given # 0 => /\ Len(made.path) < query.size /\ query.cwd # Removed
                                 /\ IsPrefix(query.cwd, made.path) /\ made.path[given] = Slash

\* A file is told as what it is, and is of one kind only.  A link is told as a
\* link, but for one to a directory, and asked by itself also as the special
\* file it leads to.
KindsAreTold ==
    query.op = "kind" =>
        LET f == query.file
            told == FileSystem_getFileType(f)
            kinds == {k \in FileKinds :
                        CASE k = "regular" -> IsRegular(f)
                          [] k = "directory" -> IsADirectory(f)
                          [] k = "pipe" -> FileSystem_isNamedPipe(f)
                          [] k = "block" -> FileSystem_isBlockSpecialFile(f)
                          [] k = "char" -> FileSystem_isCharacterSpecialFile(f)
                          [] k = "socket" -> FileSystem_isSocket(f)}
        IN  /\ told = "unknown" <=> f.kind = "none"
            /\ f.kind \in FileKinds => told = f.kind /\ kinds = {told}
            /\ f.kind = "link" => told = IF f.behind = "directory" THEN "directory" ELSE "link"
            /\ kinds \subseteq {f.kind, f.behind}
            /\ FileSystem_isExecutable(f) => told \in {"regular", "link"}
            /\ FileSystem_isWriteable(f) => told \in {"regular", "directory", "link"}

(* Paths come apart and together again, and directories and files are told as*)
(* they are.                                                                 *)
FilesAreTold ==
    /\ DecomposeUndoesImplode
    /\ SuffixRejoins
    /\ ListsWhatIsThere
    /\ CompareIsSound
    /\ ReadsWholeFile
    /\ WhichIsFirst
    /\ RelativeBecomesAbsolute
    /\ KindsAreTold
=============================================================================
