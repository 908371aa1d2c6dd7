------------------------------ MODULE FileTree ------------------------------
(***************************************************************************)
(* FileSystem_remove, which empties directories recursively, and           *)
(* FileSystem_makeDirectories, by processes that share one tree of files,  *)
(* directories and symbolic links with each other and with other programs. *)
(* Each system call is a step: what isDirectory() said may no longer hold  *)
(* when the directory is opened, made or removed.                          *)
(*                                                                         *)
(* Source: FileSystem.c.                                                   *)
(***************************************************************************)
EXTENDS Integers, FiniteSets, SequencesExt

CONSTANTS
    Names,        \* names of directory entries
    MaxDepth,     \* bound: length of a path
    Trees,        \* trees to begin with
    Target,       \* the path the remover is asked to remove
    Makers,       \* processes that make directories
    ToMake,       \* the paths they make
    Others,       \* the paths other programs make and remove
    MaxOther      \* bound: their steps

Node(kind, to) == [kind |-> kind, to |-> to]

ASSUME TreeAssumption ==
    /\ {".", ".."} \cap Names = {} /\ MaxDepth \in Nat /\ MaxOther \in Nat
    /\ Target \in Seq(Names) /\ ToMake \subseteq Seq(Names) /\ Others \subseteq Seq(Names)
    /\ <<>> \notin {Target} \cup ToMake \cup Others
    /\ \A p \in {Target} \cup ToMake : Len(p) <= MaxDepth
    /\ \A t \in Trees : Target \in DOMAIN t /\ \A p \in DOMAIN t :
         /\ p \in Seq(Names) /\ p # <<>> /\ Len(p) <= MaxDepth
         /\ t[p].kind \in {"file", "dir", "link"} /\ t[p].to \in Seq(Names)
         /\ Len(p) = 1 \/ (Front(p) \in DOMAIN t /\ t[Front(p)].kind = "dir")

VARIABLES
    fs,       \* path -> what is there; every directory is reached by one path
    remover,  \* the calls of FileSystem_remove and deleteDirContent
    maker,    \* process -> its call of FileSystem_makeDirectories
    other,    \* steps of other programs so far
    cleared   \* history: whether anything was removed

treeVars == <<fs, remover, maker, other, cleared>>

-----------------------------------------------------------------------------
(* The file system.                                                        *)

Kind(p) == IF p = <<>> THEN "dir" ELSE IF p \in DOMAIN fs THEN fs[p].kind ELSE "none"
Children(d) == {n \in Names : Kind(Append(d, n)) # "none"}

\* Where one component of a path leads from d: nowhere, or to one place.
After(d, n) ==
    IF Kind(d) # "dir" THEN {}
    ELSE CASE n = "." -> {d}
           [] n = ".." -> {IF d = <<>> THEN d ELSE Front(d)}
           [] Kind(Append(d, n)) = "link" ->
                {to \in {fs[Append(d, n)].to} : Kind(to) # "none"}
           [] OTHER -> {e \in {Append(d, n)} : Kind(e) # "none"}

\* What stat sees behind a path, if anything: links are followed.
Reached(p) ==
    LET upTo[i \in 0..Len(p)] == IF i = 0 THEN {<<>>}
                                 ELSE UNION {After(d, p[i]) : d \in upTo[i - 1]}
    IN  upTo[Len(p)]

\* What remove and mkdir act on: the last component is not followed.
Entry(p) == {Append(d, Last(p)) : d \in {e \in Reached(Front(p)) : Kind(e) = "dir"}}

FileSystem_isDirectory(p) == \E d \in Reached(p) : Kind(d) = "dir"

\* remove(): unlinks a file or a link, and a directory that is empty.
CanRemove(p) ==
    \E e \in Entry(p) : Kind(e) # "none" /\ (Kind(e) = "dir" => Children(e) = {})
Without(p) == [q \in DOMAIN fs \ Entry(p) |-> fs[q]]

\* mkdir() and creating a file: only where nothing is.
CanMake(p) == \E e \in Entry(p) : Len(e) <= MaxDepth /\ Kind(e) = "none"
WithNode(p, node) ==
    [q \in DOMAIN fs \cup Entry(p) |-> IF q \in DOMAIN fs THEN fs[q] ELSE node]

-----------------------------------------------------------------------------
RemoveFrame(p) == [fn |-> "remove", path |-> p, at |-> "isDir", todo |-> {}]
ContentFrame(p) == [fn |-> "content", path |-> p, at |-> "isDir", todo |-> {}]
Idle == [path |-> <<>>, i |-> 0, at |-> "idle", result |-> FALSE]

TreeTypeOK ==
    /\ \A p \in DOMAIN fs : Len(p) <= MaxDepth /\ Kind(Front(p)) = "dir"
    /\ Len(remover.stack) <= 2 * MaxDepth + 1
    /\ remover.ret \in {"SUCCESS", "GENERICERROR", "NOTADIRECTORY"}
    /\ \A m \in Makers : maker[m].i \in 0..Len(maker[m].path)
    /\ other \in 0..MaxOther /\ cleared \in BOOLEAN

TreeInit ==
    /\ fs \in Trees
    /\ remover = [stack |-> <<>>, ret |-> "SUCCESS", calls |-> 0, stopped |-> FALSE]
    /\ maker = [m \in Makers |-> Idle]
    /\ other = 0 /\ cleared = FALSE

-----------------------------------------------------------------------------
(* The remover.  Each call is a frame of its stack; ret is the value the   *)
(* call that returned last gave back.                                      *)

Top == Last(remover.stack)
Running(fn, at) == /\ remover.stack # <<>> /\ ~remover.stopped
                   /\ Top.fn = fn /\ Top.at = at
Replace(frame) == Append(Front(remover.stack), frame)
Returns(ret) == remover' = [remover EXCEPT !.stack = Front(@), !.ret = ret]

FileSystem_remove ==
    /\ remover.stack = <<>> /\ remover.calls = 0
    /\ remover' = [remover EXCEPT !.stack = <<RemoveFrame(Target)>>,
                                  !.ret = "SUCCESS", !.calls = 1]
    /\ UNCHANGED <<fs, maker, other, cleared>>

\* isDirectory() in FileSystem_remove: a directory is emptied first.
RemoveLooks ==
    /\ Running("remove", "isDir")
    /\ remover' = [remover EXCEPT
         !.stack = Replace([Top EXCEPT !.at = "remove"])
                   \o IF FileSystem_isDirectory(Top.path) THEN <<ContentFrame(Top.path)>>
                      ELSE <<>>,
         !.ret = "SUCCESS"]
    /\ UNCHANGED <<fs, maker, other, cleared>>

\* remove() at the end of FileSystem_remove.
RemoveRemoves ==
    /\ Running("remove", "remove")
    /\ IF remover.ret = "SUCCESS" /\ CanRemove(Top.path)
       THEN /\ fs' = Without(Top.path)
            /\ cleared' = TRUE /\ Returns("SUCCESS")
       ELSE UNCHANGED <<fs, cleared>> /\ Returns("GENERICERROR")
    /\ UNCHANGED <<maker, other>>

\* isDirectory() in FileSystem_deleteDirContent.
ContentLooks ==
    /\ Running("content", "isDir")
    /\ IF FileSystem_isDirectory(Top.path)
       THEN remover' = [remover EXCEPT !.stack = Replace([Top EXCEPT !.at = "open"])]
       ELSE Returns("NOTADIRECTORY")
    /\ UNCHANGED <<fs, maker, other, cleared>>

\* opendir(): a directory that has gone in the meantime stops the process.
ContentOpens ==
    /\ Running("content", "open")
    /\ remover' =
         IF FileSystem_isDirectory(Top.path)
         THEN [remover EXCEPT
                 !.stack = Replace([Top EXCEPT !.at = "loop",
                                      !.todo = (UNION {Children(d) : d \in Reached(Top.path)}) \cup {".", ".."}]),
                 !.ret = "SUCCESS"]
         ELSE [remover EXCEPT !.stopped = TRUE]
    /\ UNCHANGED <<fs, maker, other, cleared>>

\* Mutant: only the entry "." is left out.
SkippedDotOnly(n) == n = "."

\* The entries a directory has for itself and its parent.
Skipped(n) == n \in {".", ".."}

\* The frames that remove entry n: a directory is emptied and then removed by a
\* call that would empty it as well, anything else is removed.
EntryFrames(path) ==
    IF FileSystem_isDirectory(path)
    THEN <<[RemoveFrame(path) EXCEPT !.at = "emptied"], ContentFrame(path)>>
    ELSE <<RemoveFrame(path)>>

\* readdir(), in any order, also of an entry that has gone since the directory
\* was opened.
ContentNext(n) ==
    /\ Running("content", "loop") /\ remover.ret = "SUCCESS" /\ n \in Top.todo
    /\ remover' = [remover EXCEPT
         !.stack = Replace([Top EXCEPT !.todo = @ \ {n}])
                   \o IF Skipped(n) THEN <<>> ELSE EntryFrames(Append(Top.path, n))]
    /\ UNCHANGED <<fs, maker, other, cleared>>

\* Back from emptying an entry: it is removed only after a success.
ContentRemoves ==
    /\ Running("remove", "emptied")
    /\ IF remover.ret = "SUCCESS"
       THEN remover' = [remover EXCEPT !.stack = Replace([Top EXCEPT !.at = "isDir"])]
       ELSE Returns(remover.ret)
    /\ UNCHANGED <<fs, maker, other, cleared>>

\* The end of the loop, after the last entry or a failure.
ContentReturns ==
    /\ Running("content", "loop")
    /\ Top.todo = {} \/ remover.ret # "SUCCESS"
    /\ Returns(remover.ret)
    /\ UNCHANGED <<fs, maker, other, cleared>>

-----------------------------------------------------------------------------
(* The makers and other programs.                                          *)

FileSystem_makeDirectories(m, p) ==
    /\ maker[m].at = "idle"
    /\ maker' = [maker EXCEPT ![m] = [path |-> p, i |-> 1,
                                      at |-> IF Len(p) = 1 THEN "make" ELSE "look",
                                      result |-> FALSE]]
    /\ UNCHANGED <<fs, remover, other, cleared>>

Prefix(m) == SubSeq(maker[m].path, 1, maker[m].i)

\* After component i: the next one, which is looked at unless it is the last.
Onward(m) ==
    LET p == maker[m].path  i == maker[m].i
    IN  IF i = Len(p) THEN [maker[m] EXCEPT !.at = "check"]
        ELSE [maker[m] EXCEPT !.i = i + 1,
                              !.at = IF i + 1 = Len(p) THEN "make" ELSE "look"]

MakerLooks(m) ==
    /\ maker[m].at = "look"
    /\ maker' = [maker EXCEPT ![m] = IF FileSystem_isDirectory(Prefix(m)) THEN Onward(m)
                                     ELSE [@ EXCEPT !.at = "make"]]
    /\ UNCHANGED <<fs, remover, other, cleared>>

\* FileSystem_makeDirectory: mkdir() whose failure the loop ignores.
FileSystem_makeDirectory(m) ==
    /\ maker[m].at = "make"
    /\ fs' = IF CanMake(Prefix(m))
             THEN WithNode(Prefix(m), Node("dir", <<>>)) ELSE fs
    /\ maker' = [maker EXCEPT ![m] = Onward(m)]
    /\ UNCHANGED <<remover, other, cleared>>

MakerReturns(m) ==
    /\ maker[m].at = "check"
    /\ maker' = [maker EXCEPT ![m].at = "returned",
                              ![m].result = FileSystem_isDirectory(maker[m].path)]
    /\ UNCHANGED <<fs, remover, other, cleared>>

\* Another program makes or removes a file.
OtherMakes(p) ==
    /\ other < MaxOther /\ other' = other + 1
    /\ CanMake(p) /\ fs' = WithNode(p, Node("file", <<>>))
    /\ UNCHANGED <<remover, maker, cleared>>
OtherRemoves(p) ==
    /\ other < MaxOther /\ other' = other + 1
    /\ CanRemove(p) /\ fs' = Without(p)
    /\ cleared' = TRUE
    /\ UNCHANGED <<remover, maker>>

RemoverStep ==
    /\ remover.stack # <<>> /\ ~remover.stopped
    /\ \/ RemoveLooks \/ RemoveRemoves \/ ContentLooks \/ ContentOpens
       \/ \E n \in Names \cup {".", ".."} : ContentNext(n)
       \/ ContentRemoves \/ ContentReturns

TreeNext ==
    \/ FileSystem_remove \/ RemoverStep
    \/ \E m \in Makers :
         \/ \E p \in ToMake : FileSystem_makeDirectories(m, p)
         \/ MakerLooks(m) \/ FileSystem_makeDirectory(m) \/ MakerReturns(m)
    \/ \E p \in Others : OtherMakes(p) \/ OtherRemoves(p)

\* Fairness: the removing process is scheduled.
TreeFairness == WF_remover(RemoverStep)
TreeSpec == TreeInit /\ [][TreeNext]_treeVars /\ TreeFairness

-----------------------------------------------------------------------------
(* Properties.                                                             *)

\* Removing a path leaves everything else alone: only what lies under the
\* path itself goes, whatever the directory's entries "." and ".." lead to.
Below(p) == Len(p) >= Len(Target) /\ SubSeq(p, 1, Len(Target)) = Target
OutsideUntouched ==
    [][RemoverStep => \A p \in DOMAIN fs : ~Below(p) => p \in DOMAIN fs' /\ fs'[p] = fs[p]]_treeVars

\* After a call that failed nothing more is removed: the error goes through
\* all the calls to the caller.
NothingAfterFailure ==
    [][remover.ret # "SUCCESS" /\ remover.stack # <<>>
         => remover'.ret # "SUCCESS" /\ (RemoverStep => fs' = fs)]_treeVars

\* A process that makes directories reports success although another one makes
\* the same directories at the same time: it fails only when something was
\* removed or something else than a directory stands in its way.
MakersAgree ==
    \A m \in Makers :
        maker[m].at = "returned" /\ ~maker[m].result =>
            \/ cleared
            \/ \E i \in 1..Len(maker[m].path) :
                 ~FileSystem_isDirectory(SubSeq(maker[m].path, 1, i))
                 /\ Kind(SubSeq(maker[m].path, 1, i)) # "none"

\* A remove that nobody disturbs removes the whole tree under its path, links
\* and nested directories included, in whatever order the entries are read.
AloneItRemoves ==
    remover.calls = 1 /\ remover.stack = <<>> /\ other = 0
      /\ (\A m \in Makers : maker[m].at = "idle")
      => remover.ret = "SUCCESS" /\ Kind(Target) = "none"

\* A remove comes back, or stops the process in opendir, whatever the other
\* processes make and remove under it in the meantime.
RemoveReturns == (remover.stack # <<>>) ~> (remover.stack = <<>> \/ remover.stopped)

(* Directories are made and removed next to each other without touching what *)
(* is not theirs, and every removal ends.                                    *)
TreeIsSafe ==
    /\ [](TreeTypeOK /\ MakersAgree /\ AloneItRemoves)
    /\ OutsideUntouched
    /\ NothingAfterFailure
    /\ RemoveReturns
=============================================================================
