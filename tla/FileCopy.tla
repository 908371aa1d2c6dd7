------------------------------ MODULE FileCopy ------------------------------
(***************************************************************************)
(* FileSystem_copyFile, FileSystem_concatenate and FileSystem_move, run by *)
(* processes on the files of one disk that may fill up.  A file is the     *)
(* sequence of its bytes; fread and fwrite move BlockSize of them at a     *)
(* time.  A whole block goes to the disk when it is written, a shorter one *)
(* waits in the stream until fclose, whose result nobody looks at.         *)
(*                                                                         *)
(* Source: FileSystem.c.                                                   *)
(***************************************************************************)
EXTENDS Integers, FiniteSets, SequencesExt, FiniteSetsExt

CONSTANTS
    Workers,      \* processes
    FilePaths,    \* paths
    ShortPaths,   \* those of fewer than sizeof(FILESYSTEM_PATH_LENGTH) characters
    Calls,        \* calls the processes make, [op, src, dst]
    Inodes,       \* files of the disk, with and without a path
    Entries,      \* path -> the file it names to begin with, or NoFile
    Contents,     \* file -> its bytes to begin with
    BlockSize,    \* FILESYSTEM_FILEBUFFER_LENGTH
    Capacity,     \* bytes the disk holds
    MaxCalls      \* bound: calls of a process

NoFile == 0

\* The bytes of the files S, each by its place in one of them.
Stored(d, S) == UNION {{f} \X (1..Len(d[f])) : f \in S}

ASSUME CopyAssumption ==
    /\ IsFiniteSet(Workers) /\ IsFiniteSet(FilePaths) /\ IsFiniteSet(Inodes)
    /\ ShortPaths \subseteq FilePaths
    /\ BlockSize \in Nat \ {0} /\ Capacity \in Nat /\ MaxCalls \in Nat
    /\ Inodes \subseteq Nat \ {NoFile}
    /\ Cardinality(Inodes) >= Cardinality(FilePaths) + 2 * Cardinality(Workers)
    /\ Entries \in [FilePaths -> Inodes \cup {NoFile}]
    /\ Contents \in [Inodes -> Seq(UNION {Range(Contents[f]) : f \in Inodes})]
    /\ Cardinality(Stored(Contents, {f \in Inodes : \E p \in FilePaths : Entries[p] = f})) <= Capacity
    /\ \A c \in Calls : /\ c.op \in {"copy", "append", "move"}
                        /\ {c.src, c.dst} \subseteq FilePaths

VARIABLES
    entry,     \* path -> the file it names
    data,      \* file -> its bytes
    proc,      \* process -> its call
    start,     \* history: process -> source and target when its target was opened
    alone      \* history: process -> no other one has been at work since then

copyVars == <<entry, data, proc, start, alone>>

-----------------------------------------------------------------------------
(* The disk.                                                               *)

Busy(w) == proc[w].at # "idle"
InUse == {f \in Inodes : \/ \E p \in FilePaths : entry[p] = f
                         \/ \E w \in Workers : Busy(w) /\ f \in {proc[w].in, proc[w].out}}
FreeBytes == Capacity - Cardinality(Stored(data, InUse))
New == CHOOSE f \in Inodes : f \notin InUse
FileSystem_isRegularFile(p) == entry[p] # NoFile

\* d after the bytes b were written at pos, and how many of them the disk takes.
Overwrite(d, pos, b) ==
    IF b = <<>> THEN d
    ELSE [i \in 1..Max({Len(d), pos + Len(b)}) |->
            IF i > pos /\ i <= pos + Len(b) THEN b[i - pos]
            ELSE IF i <= Len(d) THEN d[i] ELSE "hole"]
Room(d, pos) == Max({0, Len(d) + FreeBytes - pos})
Fitting(d, pos, b) == SubSeq(b, 1, Min({Len(b), Room(d, pos)}))

-----------------------------------------------------------------------------
NoCall == [op |-> "none", src |-> "none", dst |-> "none", at |-> "idle",
           in |-> NoFile, out |-> NoFile, pos |-> 0, wpos |-> 0, buffer |-> <<>>,
           eof |-> FALSE, ret |-> "none", calls |-> 0]
Statuses == {"none", "SUCCESS", "UNABLETOOPEN", "FILEERROR",
             "PATHSIZETOOBIG", "NOTAREGULARFILE", "UNABLETOMOVE", "GENERICERROR"}

CopyTypeOK ==
    /\ entry \in [FilePaths -> Inodes \cup {NoFile}]
    /\ FreeBytes >= 0
    /\ \A w \in Workers : /\ proc[w].ret \in Statuses
                          /\ Len(proc[w].buffer) <= BlockSize
                          /\ proc[w].calls \in 0..MaxCalls

CopyInit ==
    /\ entry = Entries /\ data = Contents
    /\ proc = [w \in Workers |-> NoCall]
    /\ start = [w \in Workers |-> [in |-> <<>>, out |-> <<>>]]
    /\ alone = [w \in Workers |-> FALSE]

Changed(w, call) == proc' = [proc EXCEPT ![w] = call]
Fail(w, ret) == Changed(w, [proc[w] EXCEPT !.at = "idle", !.ret = ret, !.in = NoFile, !.out = NoFile])
Begin(w, c, at) == Changed(w, [NoCall EXCEPT !.op = c.op, !.src = c.src, !.dst = c.dst,
                                             !.at = at, !.calls = proc[w].calls + 1])
Alone(w) == [v \in Workers |-> v = w /\ alone[v]]

-----------------------------------------------------------------------------
(* FileSystem_copyFile and FileSystem_concatenate.                         *)

\* isRegularFile() before a copy; concatenate looks for directories only.
Call(w, c) ==
    /\ ~Busy(w) /\ proc[w].calls < MaxCalls
    /\ IF c.op = "copy" /\ ~FileSystem_isRegularFile(c.src)
       THEN Changed(w, [NoCall EXCEPT !.ret = "GENERICERROR", !.calls = proc[w].calls + 1])
       ELSE Begin(w, c, IF c.op = "move" THEN "check" ELSE "openSource")
    /\ alone' = Alone(w)
    /\ UNCHANGED <<entry, data, start>>

OpenSource(w) ==
    /\ proc[w].at = "openSource"
    /\ IF entry[proc[w].src] = NoFile THEN Fail(w, "UNABLETOOPEN")
       ELSE Changed(w, [proc[w] EXCEPT !.in = entry[proc[w].src], !.at = "openTarget"])
    /\ alone' = Alone(w)
    /\ UNCHANGED <<entry, data, start>>

\* Mutant: the file to append to is opened as the target of a copy is.
OpenTargetAnew(w) ==
    /\ proc[w].at = "openTarget"
    /\ LET out == IF entry[proc[w].dst] = NoFile THEN New ELSE entry[proc[w].dst]
       IN  /\ entry' = [entry EXCEPT ![proc[w].dst] = out]
           /\ data' = [data EXCEPT ![out] = <<>>]
           /\ Changed(w, [proc[w] EXCEPT !.out = out, !.at = "read"])
           /\ start' = [start EXCEPT ![w] = [in |-> data[proc[w].in], out |-> <<>>]]
           /\ alone' = [v \in Workers |-> v = w]

\* fopen of the target: "wb" leaves it empty, "ab" as it is.
OpenTarget(w) ==
    /\ proc[w].at = "openTarget"
    /\ LET out == IF entry[proc[w].dst] = NoFile THEN New ELSE entry[proc[w].dst]
           kept == IF proc[w].op = "append" /\ entry[proc[w].dst] # NoFile THEN data[out]
                   ELSE <<>>
       IN  /\ entry' = [entry EXCEPT ![proc[w].dst] = out]
           /\ data' = [data EXCEPT ![out] = kept]
           /\ Changed(w, [proc[w] EXCEPT !.out = out, !.at = "read"])
           /\ start' = [start EXCEPT ![w] = [in |-> data[proc[w].in], out |-> kept]]
           /\ alone' = [v \in Workers |-> v = w]

\* fread: a short count is the end of the file, which the stream remembers.
Read(w) ==
    /\ proc[w].at = "read"
    /\ LET in == data[proc[w].in]
           n == Max({0, Min({BlockSize, Len(in) - proc[w].pos})})
       IN  Changed(w, [proc[w] EXCEPT !.buffer = SubSeq(in, proc[w].pos + 1, proc[w].pos + n),
                                      !.pos = proc[w].pos + n, !.eof = n < BlockSize,
                                      !.at = "write"])
    /\ alone' = Alone(w)
    /\ UNCHANGED <<entry, data, start>>

\* The write position: "ab" writes at the end whatever happens meanwhile.
Position(w) == IF proc[w].op = "append" THEN Len(data[proc[w].out]) ELSE proc[w].wpos

\* fwrite: a whole block goes to the disk, and a disk that takes less of it ends
\* the loop; the last, shorter block stays in the stream.
Write(w) ==
    /\ proc[w].at = "write"
    /\ LET d == data[proc[w].out]
           took == IF Len(proc[w].buffer) < BlockSize THEN <<>>
                   ELSE Fitting(d, Position(w), proc[w].buffer)
           failed == Len(proc[w].buffer) = BlockSize /\ Len(took) < BlockSize
       IN  /\ data' = [data EXCEPT ![proc[w].out] = Overwrite(d, Position(w), took)]
           /\ Changed(w, [proc[w] EXCEPT
                            !.wpos = Position(w) + Len(took),
                            !.buffer = IF Len(proc[w].buffer) < BlockSize THEN proc[w].buffer ELSE <<>>,
                            !.ret = IF failed THEN "FILEERROR" ELSE "SUCCESS",
                            !.at = IF failed \/ proc[w].eof THEN "close" ELSE "read"])
    /\ alone' = Alone(w)
    /\ UNCHANGED <<entry, start>>

\* fclose of both: what is left in the stream goes as far as the disk takes it.
Close(w) ==
    /\ proc[w].at = "close"
    /\ LET d == data[proc[w].out]
       IN  data' = [data EXCEPT ![proc[w].out] =
                      Overwrite(d, Position(w), Fitting(d, Position(w), proc[w].buffer))]
    /\ Fail(w, proc[w].ret)
    /\ alone' = Alone(w)
    /\ UNCHANGED <<entry, start>>

-----------------------------------------------------------------------------
\* FileSystem_move up to the rename: the length of the destination is compared
\* with the size of an integer constant.
MoveChecks(w) ==
    /\ proc[w].at = "check"
    /\ CASE proc[w].dst \notin ShortPaths -> Fail(w, "PATHSIZETOOBIG")
         [] proc[w].dst \in ShortPaths /\ ~FileSystem_isRegularFile(proc[w].src) ->
              Fail(w, "NOTAREGULARFILE")
         [] OTHER -> Changed(w, [proc[w] EXCEPT !.at = "rename"])
    /\ alone' = Alone(w)
    /\ UNCHANGED <<entry, data, start>>

MoveRenames(w) ==
    /\ proc[w].at = "rename"
    /\ IF entry[proc[w].src] = NoFile
       THEN UNCHANGED entry /\ Fail(w, "UNABLETOMOVE")
       ELSE /\ entry' = IF entry[proc[w].src] = entry[proc[w].dst] THEN entry
                        ELSE [entry EXCEPT ![proc[w].dst] = entry[proc[w].src],
                                           ![proc[w].src] = NoFile]
            /\ Fail(w, "SUCCESS")
    /\ alone' = Alone(w)
    /\ UNCHANGED <<data, start>>

Steps(w) == \/ OpenSource(w) \/ OpenTarget(w) \/ Read(w) \/ Write(w) \/ Close(w)
            \/ MoveChecks(w) \/ MoveRenames(w)
CopyNext == \E w \in Workers : Steps(w) \/ \E c \in Calls : Call(w, c)

\* Fairness: each process is scheduled.
CopyFairness == \A w \in Workers : WF_copyVars(Steps(w))
CopySpec == CopyInit /\ [][CopyNext]_copyVars /\ CopyFairness

-----------------------------------------------------------------------------
(* Properties.                                                             *)

Returned(w) == proc[w].at = "close" /\ proc'[w].at = "idle"
Wanted(w) == start[w].out \o start[w].in
Distinct(w) == proc[w].in # proc[w].out

\* The target holds everything, or the disk became full with what of the last
\* block, shorter than a buffer, it took.
Arrived(w) ==
    LET got == data'[proc[w].out]
    IN  \/ got = Wanted(w)
        \/ /\ IsPrefix(got, Wanted(w)) /\ Len(Wanted(w)) - Len(got) < BlockSize
           /\ Len(got) - Len(data[proc[w].out]) = FreeBytes

\* A copy or concatenation of two distinct files that reports success and that
\* nobody disturbed has written everything, except for what of the last block,
\* shorter than a buffer, the disk did not take as it became full.
CopyIsWhole ==
    [][\A w \in Workers :
         Returned(w) /\ proc'[w].ret = "SUCCESS" /\ alone[w] /\ Distinct(w) => Arrived(w)]_copyVars

\* At every moment, also when the disk is full, the target of an undisturbed
\* call holds a first part of what it is to hold: no block is left out.
PartIsPrefix ==
    \A w \in Workers :
        Busy(w) /\ proc[w].out # NoFile /\ alone[w] /\ Distinct(w) =>
            IsPrefix(data[proc[w].out], Wanted(w))

\* A concatenation loses nothing any file holds, the blocks other processes
\* append to the same file meanwhile included.
AppendKeeps ==
    [][\A w \in Workers : proc[w].op = "append" /\ Busy(w) /\ proc'[w] # proc[w] =>
         \A p \in FilePaths : entry[p] # NoFile =>
             entry'[p] = entry[p] /\ IsPrefix(data[entry[p]], data'[entry[p]])]_copyVars

\* Every call returns, also one that appends a file to itself and reads what it
\* has just written: the disk ends it.
CallsEnd == \A w \in Workers : Busy(w) ~> ~Busy(w)

(* A copy that succeeds is whole, one that fails is a beginning, an append   *)
(* keeps what was there, and each of them ends.                              *)
CopiesAreSafe ==
    /\ [](CopyTypeOK /\ PartIsPrefix)
    /\ CopyIsWhole
    /\ AppendKeeps
    /\ CallsEnd
=============================================================================
