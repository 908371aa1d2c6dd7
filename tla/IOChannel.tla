------------------------------- MODULE IOChannel -------------------------------
(***************************************************************************)
(* A channel of src/IOChannel.c on a regular file (src/IOChannelFile.c and  *)
(* src/IOChannelGenericFd.c): reads, writes, ungets and seeks go through an *)
(* unget buffer and an optional write buffer, the error of a failing system *)
(* call stays set until the caller cleans it, and every system call may     *)
(* fail and every write be short.                                           *)
(*                                                                          *)
(* One variable holds the channel, because a call composes others: each     *)
(* operator below is one C function and maps a channel to the channel after *)
(* the call.  A call that IOChannel_isCallAllowedCheck refuses changes      *)
(* nothing and is no step.  The file was opened without O_APPEND.           *)
(*                                                                          *)
(* The caller ungets only bytes that it has just read.                      *)
(*                                                                          *)
(* Bounds: blocks of at most MaxIO bytes, which must not exceed the write   *)
(* buffer, a file of at most MaxFile bytes, and the two counters up to      *)
(* MaxCount.  A short write leaves out the last byte.                       *)
(***************************************************************************)
EXTENDS ByteBlocks

CONSTANTS
    FileSize,       \* bytes of the file at first
    MaxIO, MaxFile, MaxCount,
    WriteBufferSize,    \* IOCHANNEL_WRITEBUFFER_DEFAULT
    UngetBufferSize     \* IOCHANNEL_UNGETBUFFER_DEFAULT

ASSUME IOChannelAssumption ==
    /\ {MaxIO, MaxFile, MaxCount, WriteBufferSize, UngetBufferSize} \subseteq Nat \ {0}
    /\ FileSize \in 0..MaxFile
    /\ MaxIO <= WriteBufferSize

\* The bytes of the file at first differ from each other, and from what is written.
File   == [i \in 1..FileSize |-> i]
Blocks == {[i \in 1..n |-> 0] : n \in 1..MaxIO}

VARIABLES
    ch,         \* the channel, the file and its offset
    call,       \* the function called last, and its argument
    recent,     \* the bytes the caller has read since the last seek and not ungot
    broken      \* has the file moved on past bytes that are still ungot, or a buffer
                \* been switched off that is not empty, and it holds them still?

vars == <<ch, call, recent, broken>>

(* The stream that the caller sees: what is buffered counts as written, and    *)
(* what is ungot as not yet read.                                              *)
content == Overlay(ch.file, ch.offset, ch.written)
place   == ch.offset + Len(ch.written) - Len(ch.unget)
Stream  == INSTANCE ByteStream WITH got <- ch.got

(* A set of the system calls that fail in one call of the channel; a write may  *)
(* also be short.                                                               *)
WriteFaults == {{}, {"write"}, {"short"}}
WithFault(name) == WriteFaults \cup {f \cup {name} : f \in WriteFaults}
Modes == {"R_ONLY", "W_ONLY", "RW"}
ByteSeqs == Seq(0..FileSize \cup {Zero})

TypeOK ==
    /\ ch.fd \in {"none", "open", "closed"}
    /\ {ch.isOpen, ch.error, ch.foundEof, ch.usesWriteBuffering, ch.autoResize,
        ch.writeBufferIsExternal, ch.short, ch.aborted} \subseteq BOOLEAN
    /\ ch.mode \in Modes
    /\ ch.file \in ByteSeqs /\ Len(ch.file) <= MaxFile
    /\ ch.offset \in 0..MaxFile
    /\ ch.currentIndexPosition \in 0..MaxCount
    /\ ch.rdBytesFromLastWrite \in 0..MaxCount
    /\ ch.unget \in ByteSeqs /\ Len(ch.unget) <= UngetBufferSize
    /\ ch.written \in ByteSeqs /\ Len(ch.written) <= ch.size
    /\ ch.got \in ByteSeqs /\ Len(ch.got) <= MaxIO
    /\ recent \in ByteSeqs
    /\ broken \in BOOLEAN

(* IOChannel_resetValuesForNewOpen and the buffers as IOChannelBuffer_atOpen  *)
(* leaves them; no file is open.                                              *)
Reset(c) ==
    [isOpen |-> FALSE, fd |-> "none", mode |-> "R_ONLY", error |-> FALSE,
     foundEof |-> FALSE, currentIndexPosition |-> 0, rdBytesFromLastWrite |-> 0,
     usesWriteBuffering |-> FALSE, autoResize |-> FALSE,
     writeBufferIsExternal |-> FALSE, unget |-> <<>>, written |-> <<>>,
     size |-> WriteBufferSize, file |-> c.file, offset |-> 0,
     got |-> <<>>, retVal |-> 0, short |-> FALSE, aborted |-> FALSE]

Init ==
    /\ ch = Reset([file |-> File])
    /\ call = <<"init", 0>>
    /\ recent = <<>>
    /\ broken = FALSE

Fail(c) == [c EXCEPT !.error = TRUE, !.retVal = -1]
Allowed == ch.isOpen /\ ~ch.error

-----------------------------------------------------------------------------
(* The system calls write, read and lseek, and what IOChannelGenericFd_write,  *)
(* _read and _seek make of their results.  f is the set of calls that fail.    *)

FdWrite(c, b, f) ==
    LET n == IF "short" \in f /\ Len(b) > 1 THEN Len(b) - 1 ELSE Len(b)
    IN IF "write" \in f \/ c.fd # "open" THEN Fail(c)
       ELSE [c EXCEPT !.file = Overlay(@, c.offset, SubSeq(b, 1, n)),
                      !.offset = @ + n, !.retVal = n,
                      !.error = @ \/ n < Len(b), !.short = n < Len(b)]

FdRead(c, n, f) ==
    LET b == BytesFrom(c.file, c.offset, n)
    IN IF "read" \in f \/ c.fd # "open" THEN [Fail(c) EXCEPT !.foundEof = TRUE]
       ELSE [c EXCEPT !.got = b, !.offset = @ + Len(b), !.retVal = Len(b),
                      !.foundEof = @ \/ Len(b) < n]

Lseek(c, to) ==
    IF to < 0 \/ c.fd # "open" THEN Fail(c) ELSE [c EXCEPT !.offset = to, !.retVal = to]

-----------------------------------------------------------------------------
(* IOChannel_flush *)
Flush(c, f) ==
    IF ~c.isOpen \/ ~c.usesWriteBuffering \/ c.written = <<>>
    THEN [c EXCEPT !.retVal = 0]
    ELSE LET d == FdWrite(c, c.written, f)
         IN IF d.retVal = -1 THEN d ELSE [d EXCEPT !.written = <<>>]

(* IOChannel_popFromUngetBuffer: the loop takes one byte more than there are   *)
(* when it is asked for more, and the assertion behind it stops the program.   *)
PopFromUngetBuffer(c, n) ==
    IF n > Len(c.unget) THEN [c EXCEPT !.aborted = TRUE]
    ELSE [c EXCEPT !.got = SubSeq(c.unget, 1, n),
                   !.unget = SubSeq(c.unget, n + 1, Len(c.unget)), !.retVal = n]

\* Mutant: what is buffered is not flushed before the file is read.
ReadInternalUnflushed(c, n, f) ==
    IF c.unget # <<>>
    THEN [PopFromUngetBuffer(c, n) EXCEPT !.rdBytesFromLastWrite = @ + n]
    ELSE LET e == FdRead(c, n, f)
         IN IF e.retVal = -1 THEN e
            ELSE [e EXCEPT !.currentIndexPosition = @ + e.retVal,
                           !.rdBytesFromLastWrite = @ + e.retVal]

(* IOChannel_readInternal *)
ReadInternal(c, n, f) ==
    LET d == IF c.mode = "R_ONLY" THEN c ELSE Flush(c, f)
        e == FdRead(d, n, f)
    IN IF d.retVal = -1 THEN d
       ELSE IF d.unget # <<>>
       THEN [PopFromUngetBuffer(d, n) EXCEPT !.rdBytesFromLastWrite = @ + n]
       ELSE IF e.retVal = -1 THEN e
       ELSE [e EXCEPT !.currentIndexPosition = @ + e.retVal,
                      !.rdBytesFromLastWrite = @ + e.retVal]

(* IOChannelGenericFd_seekBack, offset < 0 *)
SeekBack(c, offset) ==
    [Lseek(c, c.offset + offset - Len(c.unget)) EXCEPT !.unget = <<>>]

(* IOChannelGenericFd_seekForward, offset > 0 *)
SeekForward(c, offset) ==
    LET ungot == Len(c.unget)
    IN CASE offset < ungot ->
              [c EXCEPT !.unget = SubSeq(@, offset + 1, ungot),
                        !.retVal = c.currentIndexPosition - (ungot - offset)]
         [] offset = ungot -> [c EXCEPT !.retVal = c.currentIndexPosition]
         [] offset > ungot -> Lseek(c, c.offset + offset - ungot)

(* IOChannelGenericFd_seek with IOCHANNELWHENCE_SET or _END; it does nothing if *)
(* fstat has not found a regular file.                                          *)
SeekTo(c, to) ==
    LET d == Lseek(c, to)
    IN IF c.fd = "none" THEN [c EXCEPT !.retVal = 0]
       ELSE IF d.retVal = -1 THEN d ELSE [d EXCEPT !.unget = <<>>, !.currentIndexPosition = to]

(* IOChannelGenericFd_seek with IOCHANNELWHENCE_CUR *)
SeekBy(c, offset) ==
    IF c.fd = "none" THEN [c EXCEPT !.retVal = 0]
    ELSE CASE offset < 0 -> SeekBack(c, offset)
           [] offset = 0 -> [c EXCEPT !.retVal = c.currentIndexPosition]
           [] offset > 0 -> SeekForward(c, offset)

(* IOChannel_addToWriteBuffer, for a block that is no larger than the buffer *)
AddToWriteBuffer(c, b, f) ==
    LET left  == Min({c.size - Len(c.written), Len(b)})
        rest  == SubSeq(b, left + 1, Len(b))
        full  == [c EXCEPT !.written = @ \o SubSeq(b, 1, left), !.retVal = Len(b)]
        flush == Flush(full, f)
    IN IF rest = <<>> THEN full
       ELSE IF c.autoResize /\ ~c.writeBufferIsExternal
       THEN [full EXCEPT !.written = @ \o rest, !.size = (@ + Len(rest)) * 2]
       ELSE IF flush.retVal = -1 THEN flush
       ELSE [flush EXCEPT !.written = @ \o rest, !.retVal = Len(b)]

\* Mutants: the position stays, or the bytes read before may be ungot.
WriteInternalInPlace(c, b, f) ==
    LET w == IF c.usesWriteBuffering THEN AddToWriteBuffer(c, b, f) ELSE FdWrite(c, b, f)
    IN IF w.retVal = -1 THEN w ELSE [w EXCEPT !.rdBytesFromLastWrite = 0]

(* IOChannel_writeInternal: it seeks back only if both buffers hold something *)
WriteInternal(c, b, f) ==
    LET flush  == Flush(c, f)
        sought == IF c.written = <<>> \/ c.unget = <<>> THEN [c EXCEPT !.retVal = 0]
                  ELSE IF flush.retVal = -1 THEN flush
                  ELSE SeekBack(flush, - Len(c.unget))
        w == IF c.usesWriteBuffering THEN AddToWriteBuffer(sought, b, f)
                                     ELSE FdWrite(sought, b, f)
    IN IF sought.retVal = -1 THEN sought
       ELSE IF w.retVal = -1 THEN w
       ELSE [w EXCEPT !.rdBytesFromLastWrite = 0, !.currentIndexPosition = @ + w.retVal]

-----------------------------------------------------------------------------
(* The calls.  Each starts without a result and may be the last: an assertion  *)
(* that fails ends the program.                                                *)

Fresh == [ch EXCEPT !.got = <<>>, !.retVal = 0, !.short = FALSE]

\* The flush of IOChannel_setUseWriteBuffering has failed.
Stuck(c) == ~c.usesWriteBuffering /\ c.written # <<>>

Bounded(c) ==
    /\ c.offset + Len(c.written) <= MaxFile
    /\ c.currentIndexPosition <= MaxCount
    /\ c.rdBytesFromLastWrite <= MaxCount

Return(name, arg, c) ==
    /\ Bounded(c)
    /\ ch' = [c EXCEPT !.retVal = 0]
    /\ call' = <<name, arg>>
    /\ LET moved == c.offset + Len(c.written) > ch.offset + Len(ch.written)
       IN broken' = ( /\ c.unget # <<>> \/ c.written # <<>>
                      /\ broken \/ Stuck(c) \/ (moved /\ ch.unget # <<>>))

(* IOChannel_open and IOChannel_openFromString, IOChannelFile_open and         *)
(* IOChannelGenericFd_setFd, which reports success when fstat fails.           *)
Open(mode, f) ==
    /\ LET opened == [Reset(ch) EXCEPT !.mode = mode]
       IN Return("open", 0,
            CASE "open" \in f -> [opened EXCEPT !.error = TRUE]
              [] "fstat" \in f -> [opened EXCEPT !.error = TRUE, !.isOpen = TRUE]
              [] OTHER -> [opened EXCEPT !.isOpen = TRUE, !.fd = "open"])
    /\ recent' = <<>>

(* IOChannel_close; the flag "short" outlives the reset *)
Close(f) ==
    /\ ch.isOpen
    /\ LET flush == Flush(Fresh, f)
           emptied == [flush EXCEPT !.unget = <<>>, !.written = <<>>,
                                    !.size = WriteBufferSize]
       IN Return("close", 0,
            IF flush.retVal = -1 THEN flush
            ELSE IF "close" \in f \/ ch.fd # "open"
            THEN [emptied EXCEPT !.error = TRUE, !.fd = IF @ = "none" THEN @ ELSE "closed"]
            ELSE [Reset(flush) EXCEPT !.short = flush.short])
    /\ recent' = <<>>

(* IOChannel_read, and IOChannel_readBlock, whose loop ends after one round on *)
(* a regular file *)
Read(n, f) ==
    /\ Allowed
    /\ Return("read", n, IF ch.mode = "W_ONLY" THEN Fail(Fresh)
                         ELSE ReadInternal(Fresh, n, f))
    /\ recent' = IF broken \/ ch'.aborted THEN <<>> ELSE recent \o ch'.got

(* IOChannel_write and IOChannel_writeBlock *)
Write(b, f) ==
    /\ Allowed
    /\ Return("write", b, IF ch.mode = "R_ONLY" THEN Fail(Fresh)
                          ELSE WriteInternal(Fresh, b, f))
    /\ recent' = IF ch.unget = <<>> THEN recent ELSE <<>>

(* IOChannel_unget and IOChannel_pushIntoUngetBuffer *)
Unget(n) ==
    LET b == SubSeq(recent, Len(recent) - n + 1, Len(recent))
        fits == Len(ch.unget) + n <= UngetBufferSize
        counted == n <= ch.rdBytesFromLastWrite
    IN /\ Allowed
       /\ n <= Len(recent)
       /\ Return("unget", n,
            IF ch.mode = "W_ONLY" THEN Fail(Fresh)
            ELSE IF ~counted THEN Fresh
            ELSE IF ~fits THEN Fail(Fresh)
            ELSE [Fresh EXCEPT !.unget = b \o @, !.rdBytesFromLastWrite = @ - n])
       /\ recent' = IF Len(ch'.unget) > Len(ch.unget)
                    THEN SubSeq(recent, 1, Len(recent) - n) ELSE recent

(* IOChannel_flush, called by the user *)
FlushCall(f) ==
    /\ ch.isOpen
    /\ Return("flush", 0, Flush(Fresh, f))
    /\ UNCHANGED recent

(* IOChannel_seek: to a place from the start (SET) or the end (END), or from   *)
(* the current one (CUR); IOChannel_tell is a seek by 0.  The seek itself turns *)
(* the flushed channel into the sought one.                                     *)
Seek(name, arg, flushed, sought) ==
    /\ Allowed
    /\ Return(name, arg, IF flushed.retVal = -1 THEN flushed ELSE sought)
    /\ recent' = IF name = "seekBy" /\ arg = 0 THEN recent ELSE <<>>

SeekSet(to, f) ==
    LET c == Flush(Fresh, f) IN Seek("seekTo", to, c, SeekTo(c, to))

SeekEnd(back, f) ==
    LET c == Flush(Fresh, f) IN Seek("seekEnd", back, c, SeekTo(c, Len(c.file) - back))

SeekCur(offset, f) ==
    LET c == Flush(Fresh, f) IN Seek("seekBy", offset, c, SeekBy(c, offset))

(* IOChannel_rewind *)
Rewind(f) ==
    LET c == Flush(Fresh, f)
        d == SeekTo(c, 0)
    IN Seek("seekTo", 0, c, [d EXCEPT !.foundEof = @ /\ d.retVal # 0])

(* IOChannel_resetIndexes *)
ResetIndexes(f) ==
    /\ Allowed
    /\ Return("resetIndexes", 0,
              [Flush(Fresh, f) EXCEPT !.currentIndexPosition = 0, !.rdBytesFromLastWrite = 0])
    /\ UNCHANGED recent

(* IOChannel_setUseWriteBuffering, which "must be called after IOChannel_open()" *)
SetUseWriteBuffering(use, resize, f) ==
    /\ ch.isOpen
    /\ Return("setUseWriteBuffering", 0,
              [(IF use THEN Fresh ELSE Flush(Fresh, f)) EXCEPT
                    !.usesWriteBuffering = use, !.autoResize = resize])
    /\ UNCHANGED recent

(* IOChannel_setWriteBuffer with a buffer of the default size *)
SetWriteBuffer(external) ==
    /\ ch.isOpen
    /\ Return("setWriteBuffer", 0,
              [Fresh EXCEPT !.writeBufferIsExternal = external, !.written = <<>>,
                            !.size = WriteBufferSize])
    /\ recent' = <<>>

(* IOChannel_cleanError *)
CleanError ==
    /\ ch.error
    /\ Return("cleanError", 0, [Fresh EXCEPT !.error = FALSE])
    /\ UNCHANGED recent

Next ==
    /\ ~ch.aborted
    /\ \/ \E f \in WriteFaults :
             \/ FlushCall(f)
             \/ \E b \in Blocks : Write(b, f)
             \/ \E to \in -1..MaxFile : SeekSet(to, f)
             \/ \E back \in 0..MaxFile : SeekEnd(back, f)
             \/ \E offset \in -MaxIO..MaxIO : SeekCur(offset, f)
             \/ Rewind(f)
             \/ ResetIndexes(f)
             \/ \E use, resize \in BOOLEAN : SetUseWriteBuffering(use, resize, f)
       \/ \E n \in 1..MaxIO : Unget(n)
       \/ \E n \in 1..MaxIO, f \in WithFault("read") : Read(n, f)
       \/ \E f \in WithFault("close") : Close(f)
       \/ \E mode \in Modes, f \in {{}, {"open"}, {"fstat"}} : Open(mode, f)
       \/ \E external \in BOOLEAN : SetWriteBuffer(external)
       \/ CleanError

Spec == Init /\ [][Next]_vars

-----------------------------------------------------------------------------
(***************************************************************************)
(* Properties                                                               *)
(***************************************************************************)

(* The steps in which the code does not keep what ByteStream promises: a short *)
(* write, which it reports as an error and then forgets the rest of; a write or *)
(* seek that fails half-way; a file that has moved on past ungot bytes (the     *)
(* code seeks back before a write only if the write buffer is not empty, and    *)
(* then twice as far), or a write buffer that has been switched off while it    *)
(* could not be flushed; a new buffer or file for a channel that still holds    *)
(* data; a seek forward to the end of the ungot bytes or beyond, which leaves   *)
(* them, or any seek after fstat failed at open; and a failed assertion.         *)
Excused ==
    LET name == call'[1]
        arg  == call'[2]
    IN \/ ch'.short \/ ch'.aborted
       \/ ch'.error /\ name \in {"write", "seekBy"}
       \/ broken \/ broken'
       \/ name \in {"open", "setWriteBuffer"} /\ ch.written # <<>>
       \/ name \in {"seekTo", "seekEnd", "seekBy"} /\ ch.fd = "none"
       \/ name = "seekBy" /\ ch.unget # <<>> /\ arg >= Len(ch.unget)

(* each call, a failing one too, as a step of the stream *)
Promised ==
    LET name == call'[1]
        arg  == call'[2]
    IN \/ name = "read"  /\ Stream!Read(arg)
       \/ name = "write" /\ Stream!Write(arg)
       \/ name = "unget" /\ Stream!Unget(arg)
       \/ name = "seekTo" /\ Stream!Seek(arg)
       \/ name = "seekEnd" /\ Stream!Seek(Len(content) - arg)
       \/ name = "seekBy" /\ Stream!Seek(place + arg)
       \/ name \in {"open", "close"} /\ Stream!Seek(ch'.offset)
       \/ ch'.error /\ Stream!Stay
       \/ name \notin {"read", "write", "seekTo", "seekEnd", "seekBy", "open", "close"}
          /\ Stream!Stay

(* The two buffers and the file offset are together one stream: reads deliver   *)
(* the bytes at its place, ungot ones again and buffered ones as if they were   *)
(* in the file, writes change it there, seeks move the place, and nothing else, *)
(* a failing call included, changes it or moves in it.                          *)
ImplementsStream == [][Excused \/ Promised]_vars

(* IOChannel_getStreamPosition: the position counts what the file offset and    *)
(* the write buffer advance; only seeks from the current place and              *)
(* IOChannel_resetIndexes let them differ, and an absolute seek, open or close  *)
(* brings them together again.                                                  *)
Drift == ch.currentIndexPosition - ch.offset - Len(ch.written)
PositionKept ==
    [][Excused \/ call'[1] \in {"seekBy", "resetIndexes"} \/ Drift' \in {0, Drift}]_vars

(* Bytes are ungot or waiting to be written, never both: IOChannel_unget        *)
(* refuses more than was read since the last write, and a read flushes first.   *)
OneBufferInUse == ch.unget = <<>> \/ ch.written = <<>> \/ broken

\* What the last call was and returned decides nothing about the next one.
View == <<[ch EXCEPT !.got = <<>>, !.short = FALSE], recent, broken>>

(* The two buffers never hold bytes of the file at the same time, and a call *)
(* that fails leaves the position where it was.                              *)
BuffersAreKept ==
    /\ [](TypeOK /\ OneBufferInUse)
    /\ PositionKept
=============================================================================
