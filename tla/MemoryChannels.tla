-------------------------- MODULE MemoryChannels ---------------------------
(***************************************************************************)
(* Channels on memory: on a block of the heap or of the caller, on a        *)
(* segment of shared memory found by its key, and on a named one, which is  *)
(* a file that is mapped and cut to the channel's position when it is       *)
(* closed.  Several channels may share a segment.                           *)
(*                                                                          *)
(* Source: IOChannelGenericMem.c, IOChannelMem.c, IOChannelShm.c,           *)
(* IOChannelMemMapFd.c and the calls of IOChannel.c that lead there.        *)
(*                                                                          *)
(* Left out: failures of mmap and shmat.  All segments lie in one page.     *)
(***************************************************************************)
EXTENDS ByteBlocks, FiniteSets

CONSTANTS
    Channels,      \* channels; what one writes are bytes of its name
    Places,        \* where they are opened: \subseteq Channels \cup {"user", "key", "name"};
                   \* a channel stands for the block it allocates itself
    Size,          \* bytes of each of them
    MaxBytes,      \* bound: bytes of a call
    UngetSize,     \* bytes the unget buffer takes
    Closings,      \* flags of IOChannel_open for closing: none, CLOSE, NOTCLOSE
    MaxRead,       \* bound: what a channel counts as read since its last write
    Careless       \* whether callers seek or write with ungot bytes left, and
                   \* read behind the end

ASSUME MemoryAssumption ==
    /\ Size \in Nat \ {0} /\ MaxBytes \in Nat \ {0} /\ UngetSize \in Nat
    /\ MaxRead \in Nat /\ Closings \subseteq {"none", "CLOSE", "NOTCLOSE"}
    /\ Places \subseteq Channels \cup {"user", "key", "name"} /\ Careless \in BOOLEAN

VARIABLES
    channel,   \* channel -> what IOChannel and its stream keep
    memory,    \* place -> its bytes, as many as a file that is mapped has
    call       \* the last call: whose, whether it was a seek, whether it did less than
               \* asked for, and whether the program stopped in it

memVars == <<channel, memory, call>>

Closed == [place |-> "none", access |-> "RW", closing |-> "none", error |-> FALSE,
           foundEof |-> FALSE, index |-> 0, lastRead |-> 0, unget |-> <<>>, got |-> <<>>]

IsOpen(c) == channel[c].place # "none"
Bytes(c) == memory[channel[c].place]
Position(c) == channel[c].index - Len(channel[c].unget)
Zeros(n) == [i \in 1..n |-> Zero]

MemTypeOK ==
    /\ \A p \in Places : Len(memory[p]) <= Size
    /\ \A c \in Channels : /\ channel[c].place \in Places \cup {"none"}
                           /\ Len(channel[c].unget) <= UngetSize
                           /\ channel[c].access \in {"R_ONLY", "RW"}

MemInit ==
    /\ channel = [c \in Channels |-> Closed]
    /\ memory = [p \in Places |-> IF p \in {"key", "name"} THEN <<>> ELSE Zeros(Size)]
    /\ call = [by |-> "none", op |-> "other", short |-> FALSE, stops |-> FALSE]

\* A caller that ungets does so right after it has read.
Returns(c, op, asked, result, after) ==
    /\ channel' = [d \in Channels |-> IF d = c THEN after ELSE [channel[d] EXCEPT !.got = <<>>]]
    /\ call' = [by |-> c, op |-> op, short |-> result < asked, stops |-> FALSE]

\* An ANY_REQUIRE of IOChannel.c fails: the program ends.
Stops(c) ==
    /\ call' = [by |-> c, op |-> "other", short |-> TRUE, stops |-> TRUE]
    /\ UNCHANGED <<channel, memory>>

Running == ~call.stops
Allowed(c) == Running /\ IsOpen(c) /\ ~channel[c].error

-----------------------------------------------------------------------------
\* IOChannelMem_openFromString: the caller's memory, or a block of the heap for
\* IOCHANNEL_MODE_CREAT; nothing is created where there is memory already.
MemOpen(c, access, closing, creat, trunc) ==
    \E p \in {"user", c} \cap Places :
      /\ creat <=> p = c
      /\ closing = "CLOSE" => p = c
      /\ memory' = IF trunc \/ creat THEN [memory EXCEPT ![p] = Zeros(Size)] ELSE memory
      /\ Returns(c, "other", 0, 0, [Closed EXCEPT !.place = p, !.access = access, !.closing = closing])

\* IOChannelShm_openByKey: a segment that is there is never emptied.
ShmOpenByKey(c, access, closing, creat, trunc) ==
    /\ "key" \in Places
    /\ creat \/ trunc \/ memory["key"] # <<>>
    /\ memory' = IF memory["key"] = <<>> THEN [memory EXCEPT !["key"] = Zeros(Size)] ELSE memory
    /\ Returns(c, "other", 0, 0, [Closed EXCEPT !.place = "key", !.access = access, !.closing = closing])

\* IOChannelShm_openByName and IOChannelGenericMem_mapFd: with CREAT or TRUNC the
\* file is emptied and made as long as asked; a channel that only reads may not.
ShmOpenByName(c, access, closing, creat, trunc) ==
    /\ "name" \in Places
    /\ IF creat \/ trunc THEN access = "RW" ELSE memory["name"] # <<>>
    /\ memory' = IF creat \/ trunc THEN [memory EXCEPT !["name"] = Zeros(Size)] ELSE memory
    /\ Returns(c, "other", 0, 0, [Closed EXCEPT !.place = "name", !.access = access, !.closing = closing])

\* IOChannel_open: one that fails leaves the channel closed.
OpenPlace(c) ==
    /\ Running /\ ~IsOpen(c)
    /\ \E access \in {"R_ONLY", "RW"}, closing \in Closings, creat, trunc \in BOOLEAN :
         \/ MemOpen(c, access, closing, creat, trunc)
         \/ ShmOpenByKey(c, access, closing, creat, trunc)
         \/ ShmOpenByName(c, access, closing, creat, trunc)

\* IOChannelGenericMem_unmapFd: the file is cut or extended to the position of a
\* channel that may write.
Unmap(c) ==
    IF channel[c].access = "R_ONLY" THEN Bytes(c)
    ELSE [i \in 1..channel[c].index |-> IF i <= Len(Bytes(c)) THEN Bytes(c)[i] ELSE Zero]

\* IOChannelMem_close, IOChannelShm_close: with NOTCLOSE the latter returns false,
\* but sets no error.
Close(c) ==
    /\ Running /\ IsOpen(c)
    /\ IF channel[c].closing = "NOTCLOSE" /\ channel[c].place \in {"key", "name"}
       THEN Stops(c)
       ELSE /\ memory' = IF channel[c].place = "name" THEN [memory EXCEPT !["name"] = Unmap(c)]
                         ELSE memory
            /\ Returns(c, "other", 0, 0, Closed)

-----------------------------------------------------------------------------
\* A file that has been cut to nothing has no page to read or write.
Present(c) == Bytes(c) # <<>>

\* IOChannelGenericMem_read and _write within the memory: as many bytes as there
\* are from the position on, and whether the end was met.
TakeBytes(c, n) ==
    LET at == channel[c].index
        taken == Min({n, Size - at})
    IN  [bytes |-> SubSeq(Overlay(Zeros(Size), 0, Bytes(c)), at + 1, at + taken),
         foundEof |-> at + n > Size]

\* IOChannel_popFromUngetBuffer, for no more bytes than it holds.
ReadUngot(c, n) ==
    /\ n <= Len(channel[c].unget)
    /\ Returns(c, "other", n, n,
               [channel[c] EXCEPT !.got = SubSeq(channel[c].unget, 1, n),
                                  !.unget = SubSeq(@, n + 1, Len(@)), !.lastRead = @ + n])
    /\ UNCHANGED memory

\* IOChannelGenericMem_read: at the end it returns -1 without an error.
ReadMemory(c, n) ==
    LET taken == TakeBytes(c, n)
    IN  IF channel[c].index >= Size THEN Careless /\ Stops(c)
        ELSE /\ Present(c)
             /\ Returns(c, "other", n, Len(taken.bytes),
                        [channel[c] EXCEPT !.got = taken.bytes, !.index = @ + Len(taken.bytes),
                                           !.lastRead = @ + Len(taken.bytes),
                                           !.foundEof = @ \/ taken.foundEof])
             /\ UNCHANGED memory

\* IOChannel_read
Read(c, n) ==
    /\ Allowed(c) /\ channel[c].lastRead + n <= MaxRead
    /\ \/ channel[c].unget # <<>> /\ ReadUngot(c, n)
       \/ channel[c].unget = <<>> /\ ReadMemory(c, n)

\* Mutant: the position stays where it was.
AfterWriteInPlace(c, n) == [channel[c] EXCEPT !.lastRead = 0, !.got = <<>>]

\* The channel after n bytes were written; what was read cannot be ungot any more.
AfterWrite(c, n) == [channel[c] EXCEPT !.index = @ + n, !.lastRead = 0, !.got = <<>>]

\* IOChannel_write, IOChannelGenericMem_write
Write(c, n) ==
    /\ Allowed(c) /\ (Careless \/ channel[c].unget = <<>>)
    /\ LET taken == TakeBytes(c, n)
           written == Len(taken.bytes)
       IN  IF channel[c].access = "R_ONLY"
           THEN /\ Returns(c, "other", n, -1, [channel[c] EXCEPT !.error = TRUE, !.got = <<>>])
                /\ UNCHANGED memory
           ELSE IF channel[c].index >= Size THEN Careless /\ Stops(c)
           ELSE /\ Present(c)
                /\ memory' = [memory EXCEPT ![channel[c].place] =
                                 Overlay(@, channel[c].index, [i \in 1..written |-> c])]
                /\ Returns(c, "other", n, written,
                           [AfterWrite(c, written) EXCEPT !.foundEof = @ \/ taken.foundEof])

\* IOChannel_unget of the bytes read last.
UngetBytes(c, n) ==
    /\ Allowed(c) /\ n <= Len(channel[c].got)
    /\ n <= channel[c].lastRead /\ n + Len(channel[c].unget) <= UngetSize
    /\ Returns(c, "other", n, n,
               [channel[c] EXCEPT !.unget = SubSeq(channel[c].got, Len(channel[c].got) - n + 1,
                                                   Len(channel[c].got)) \o @,
                                  !.lastRead = @ - n, !.got = <<>>])
    /\ UNCHANGED memory

\* What IOChannelGenericMem_seek refuses.
Outside(c, to) == to < 0 \/ to > Size

\* IOChannelGenericMem_seek with SET: what was ungot stays.
SeekSet(c, to) ==
    /\ Allowed(c) /\ (Careless \/ channel[c].unget = <<>>)
    /\ Returns(c, "seek", 0, 0,
               IF Outside(c, to) THEN [channel[c] EXCEPT !.error = TRUE, !.got = <<>>]
               ELSE [channel[c] EXCEPT !.index = to, !.got = <<>>])
    /\ UNCHANGED memory

\* IOChannelGenericMem_seekBack and _seekForward: ungot bytes count only when the
\* position is set, not when it is checked.
SeekCur(c, by) ==
    /\ Allowed(c) /\ (Careless \/ channel[c].unget = <<>>)
    /\ LET to == channel[c].index + by
       IN  Returns(c, "seek", 0, 0,
                   IF Outside(c, to) THEN [channel[c] EXCEPT !.error = TRUE, !.got = <<>>]
                   ELSE [channel[c] EXCEPT !.index = to - Len(channel[c].unget),
                                           !.unget = <<>>, !.got = <<>>])
    /\ UNCHANGED memory

\* IOChannel_rewind
Rewind(c) ==
    /\ Allowed(c) /\ (Careless \/ channel[c].unget = <<>>)
    /\ Returns(c, "seek", 0, 0, [channel[c] EXCEPT !.index = 0, !.foundEof = FALSE, !.got = <<>>])
    /\ UNCHANGED memory

\* IOChannel_cleanError
CleanError(c) ==
    /\ Running /\ channel[c].error
    /\ Returns(c, "other", 0, 0, [channel[c] EXCEPT !.error = FALSE, !.got = <<>>])
    /\ UNCHANGED memory

MemNext ==
    \E c \in Channels :
      \/ OpenPlace(c) \/ Close(c) \/ Rewind(c) \/ CleanError(c)
      \/ \E n \in 1..MaxBytes : Read(c, n) \/ Write(c, n) \/ UngetBytes(c, n)
      \/ \E to \in 0..(Size + 1) : SeekSet(c, to)
      \/ \E by \in {-MaxBytes, MaxBytes} : SeekCur(c, by)

-----------------------------------------------------------------------------
(* Properties.                                                             *)

\* No channel stands before the beginning or behind the end of its memory, with
\* what it has ungot taken off, whoever reads, writes and seeks.
PositionInside ==
    \A c \in Channels : IsOpen(c) => Position(c) >= 0 /\ channel[c].index <= Size

Stream(c) == INSTANCE ByteStream WITH content <- Bytes(c), place <- Position(c),
                                      got <- channel[c].got

\* What a channel has ungot is still what its memory holds.
UngotIsThere(c) == channel[c].unget = BytesFrom(Bytes(c), Position(c), Len(channel[c].unget))

\* Each channel is a stream over its memory, whatever the other channels do with
\* it: each of its calls reads, writes, ungets or seeks at the place where the one
\* before has left off, or changes nothing, unless bytes it has ungot were
\* overwritten by another channel.
EachIsAStream ==
    [][\A c \in {d \in Channels : call'.by = d /\ IsOpen(d)} :
         IsOpen(c)' /\ ~call'.stops /\ Len(Bytes(c)) = Size /\ UngotIsThere(c) =>
             \/ Stream(c)!Stay
             \/ call'.op = "seek" /\ \E p \in 0..Size : Stream(c)!Seek(p)
             \/ call'.op # "seek" /\ \E n \in 1..MaxBytes :
                   \/ Stream(c)!Unget(n) \/ Stream(c)!Write([i \in 1..n |-> c])
                   \/ Stream(c)!Read(n)]_memVars

\* A call that read or wrote less than was asked for has met the end, and says so.
ShortMeansEnd ==
    call.short /\ ~call.stops =>
        channel[call.by].foundEof \/ channel[call.by].error

\* A channel opened to read changes no memory until it is opened anew, not when it
\* is closed either.
ReadersChangeNothing ==
    [][\A c \in Channels : call'.by = c /\ IsOpen(c) /\ channel[c].access = "R_ONLY" =>
           memory' = memory]_memVars

(* A channel on memory is a stream over what it is mapped to, stays inside of*)
(* it, tells its end, and changes nothing it only reads.                     *)
MemoryIsAStream ==
    /\ [](MemTypeOK /\ PositionInside /\ ShortMeansEnd)
    /\ EachIsAStream
    /\ ReadersChangeNothing
=============================================================================
