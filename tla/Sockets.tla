------------------------------- MODULE Sockets -------------------------------
(***************************************************************************)
(* The sockets of the library, in two parts that share no state.           *)
(*                                                                         *)
(* Descriptors: the life of the descriptors behind BerkeleySocket objects, *)
(* a server object and the socket that takes its clients, a client object, *)
(* the clones worker threads keep of an accepted socket, and the rest of   *)
(* the process, which opens and closes descriptors of its own.  The        *)
(* operating system hands out the lowest free descriptor, so a number that *)
(* was closed soon means something else: an object that still holds it is  *)
(* stale.                                                                  *)
(*                                                                         *)
(* Stream: the bytes over one TCP connection, with a writer in             *)
(* BerkeleySocket_writeBlock, a reader that uses readBlock, peek and       *)
(* isDisconnected or reads through an IOChannel, and between them a kernel *)
(* that takes and gives any number of bytes, interrupts calls, and reports *)
(* the peer's close or a reset.  Beside it the flush of a buffered UDP     *)
(* channel, which cuts its buffer into datagrams.                          *)
(*                                                                         *)
(* Sources: BerkeleySocket.c, BerkeleySocketServer.c,                      *)
(* BerkeleySocketClient.c, IOChannelGenericSocket.c and the open and close *)
(* functions of IOChannelServerTcp.c, IOChannelServerUdp.c, IOChannelTcp.c *)
(* and IOChannelUdp.c, with its flush.                                     *)
(***************************************************************************)
EXTENDS Integers, Sequences, FiniteSets

CONSTANTS
    MaxFd,         \* the process has descriptors 0..MaxFd
    MaxBacklog,    \* bound: clients waiting at the listening socket
    ServerWorkers, \* threads that serve a clone of an accepted socket
    Careless       \* whether the program closes a descriptor that two socket
                   \* objects share, and lets the bind of a UDP socket fail

ASSUME DescriptorAssumption ==
    /\ MaxFd \in Nat /\ MaxBacklog \in Nat \ {0} /\ Careless \in BOOLEAN
    /\ ServerWorkers \cap {"server", "accepted", "client"} = {}

VARIABLES
    desc,      \* descriptor -> what the kernel has behind it
    sock,      \* BerkeleySocket object -> its socketFd and type
    stale,     \* history: objects whose descriptor somebody else closed
    backlog,   \* clients (datagrams, for UDP) the server has not taken yet
    use,       \* who drives the server: its loop, or an IOChannel
    phase      \* where the server's thread is

socketVars == <<desc, sock, stale, backlog, use, phase>>

Fds == 0..MaxFd
NoFd == -1                      \* BERKELEYSOCKETHANDLE_INVALID
SocketTypes == {"NULL", "TCP", "UDP"}
DescriptorKinds == {"closed", "listener", "conn", "dgram", "file"}
Owners == {"server", "accepted", "client"} \cup ServerWorkers
NoSocket == [fd |-> NoFd, type |-> "NULL"]

Free == {f \in Fds : desc[f] = "closed"}
Lowest == CHOOSE f \in Free : \A g \in Free : f <= g

SocketTypeOK ==
    /\ desc \in [Fds -> DescriptorKinds]
    /\ sock \in [Owners -> [fd : Fds \cup {NoFd}, type : SocketTypes]]
    /\ stale \subseteq Owners
    /\ backlog \in 0..MaxBacklog
    /\ use \in {"loop", "channel"}
    /\ phase \in {"idle", "connected", "waiting", "ready", "callback",
                  "loopEnd", "serving", "closing", "stopped"}

SocketInit ==
    /\ desc = [f \in Fds |-> "closed"]
    /\ sock = [o \in Owners |-> NoSocket]
    /\ stale = {}
    /\ backlog = 0
    /\ use = "loop"
    /\ phase = "idle"

-----------------------------------------------------------------------------
(* What the objects do with descriptors.                                   *)

\* o takes the new descriptor f, of the given kind.
Holds(o, f, kind, type) ==
    /\ desc' = [desc EXCEPT ![f] = kind]
    /\ sock' = [sock EXCEPT ![o] = [fd |-> f, type |-> type]]
    /\ stale' = stale \ {o}

\* Mutant: the object keeps the number of the descriptor it closed.
DisconnectKeepsFd(os) ==
    LET closed == {sock[o].fd : o \in os} \ {NoFd}
    IN  /\ desc' = [f \in Fds |-> IF f \in closed THEN "closed" ELSE desc[f]]
        /\ sock' = [o \in Owners |->
                      IF o \in os THEN [sock[o] EXCEPT !.type = "NULL"]
                      ELSE sock[o]]
        /\ stale' = (stale \cup {o \in Owners : sock[o].fd \in closed}) \ os

\* BerkeleySocket_disconnect (and _clear, which finds nothing left to close)
\* of the objects os: whatever is behind the number now is closed.
Disconnect(os) ==
    LET closed == {sock[o].fd : o \in os} \ {NoFd}
    IN  /\ desc' = [f \in Fds |-> IF f \in closed THEN "closed" ELSE desc[f]]
        /\ sock' = [o \in Owners |-> IF o \in os THEN NoSocket ELSE sock[o]]
        /\ stale' = (stale \cup {o \in Owners : sock[o].fd \in closed}) \ os

\* The descriptor of o went to another object too, which may have closed it.
Shared(o) == /\ sock[o].fd # NoFd
             /\ o \in stale \/ \E p \in Owners \ {o} : sock[p].fd = sock[o].fd
MayClose(o) == Careless \/ ~Shared(o)

-----------------------------------------------------------------------------
(* The server object.                                                      *)

\* socket, bind and listen.  A failure of any of them leaves the object as it
\* was: the new descriptor is stored only at the end.
InitTcpServer ==
    \/ UNCHANGED <<desc, sock, stale>> /\ phase' = "idle"
    \/ Free # {} /\ Holds("server", Lowest, "listener", "TCP") /\ phase' = "connected"

\* For UDP descriptor and type are stored before bind, and a failed bind
\* closes the descriptor without resetting them: connect reports success.
InitUdpServer ==
    \/ Free = {} /\ UNCHANGED <<desc, sock, stale>> /\ phase' = "idle"
    \/ Free # {} /\ Holds("server", Lowest, "dgram", "UDP") /\ phase' = "connected"
    \/ /\ Careless /\ Free # {}
       /\ sock' = [sock EXCEPT !["server"] = [fd |-> Lowest, type |-> "UDP"]]
       /\ stale' = stale \cup {"server"}
       /\ UNCHANGED desc /\ phase' = "connected"

\* BerkeleySocketServer_connect, by a program that will run the loop or by
\* the open of an IOChannelServerTcp or IOChannelServerUdp.
ServerConnect(u) ==
    /\ phase = "idle" /\ sock["server"].type = "NULL"
    /\ use' = u
    /\ InitTcpServer \/ InitUdpServer
    /\ backlog' = 0

\* The loop is entered, or the channel goes on to wait for its one client.
StartWaiting ==
    /\ phase = "connected"
    /\ phase' = "waiting"
    /\ UNCHANGED <<desc, sock, stale, backlog, use>>

\* waitClient: select says the server's descriptor is readable.
ClientIsReady ==
    /\ phase = "waiting" /\ backlog > 0
    /\ phase' = "ready"
    /\ UNCHANGED <<desc, sock, stale, backlog, use>>

\* waitClient times out: the loop calls timeoutCallBack, which may end it.
LoopTimesOut ==
    /\ phase = "waiting" /\ use = "loop" /\ backlog = 0
    /\ phase' \in {"waiting", "loopEnd"}
    /\ UNCHANGED <<desc, sock, stale, backlog, use>>

\* The open of the channel gives its server up.
ChannelTimesOut ==
    /\ phase = "waiting" /\ use = "channel" /\ backlog = 0
    /\ Disconnect({"server"}) /\ phase' = "idle"
    /\ UNCHANGED <<backlog, use>>

\* acceptTcpClient.  With no free descriptor accept fails; the loop passes the
\* invalid socket to the callback all the same, the channel's setSocket stops
\* the process.
AcceptTcp ==
    /\ phase = "ready" /\ sock["server"].type = "TCP"
    /\ \/ /\ Free # {}
          /\ Holds("accepted", Lowest, "conn", "TCP")
          /\ backlog' = backlog - 1
          /\ phase' = IF use = "loop" THEN "callback" ELSE "serving"
       \/ /\ Free = {}
          /\ sock' = [sock EXCEPT !["accepted"].fd = NoFd]
          /\ stale' = stale \ {"accepted"}
          /\ UNCHANGED <<desc, backlog>>
          /\ phase' = IF use = "loop" THEN "callback" ELSE "stopped"
    /\ UNCHANGED use

\* acceptUdpClient: the accepted socket is the server's own descriptor.
AcceptUdp ==
    /\ phase = "ready" /\ sock["server"].type = "UDP"
    /\ sock' = [sock EXCEPT !["accepted"] = sock["server"]]
    /\ stale' = IF "server" \in stale THEN stale \cup {"accepted"}
                ELSE stale \ {"accepted"}
    /\ backlog' = backlog - 1
    /\ phase' = IF use = "loop" THEN "callback" ELSE "serving"
    /\ UNCHANGED <<desc, use>>

\* clientReadyCallBack serves the client and closes its socket (as the loop
\* does itself without a callback), then asks to go on or to quit.
CallbackServes ==
    /\ phase = "callback" /\ MayClose("accepted")
    /\ Disconnect({"accepted"})
    /\ phase' \in {"waiting", "loopEnd"}
    /\ UNCHANGED <<backlog, use>>

\* clientReadyCallBack quits and leaves the socket to the loop.
CallbackQuits ==
    /\ phase = "callback"
    /\ phase' = "loopEnd"
    /\ UNCHANGED <<desc, sock, stale, backlog, use>>

\* clientReadyCallBack serves a datagram and leaves the server's socket open.
CallbackKeeps ==
    /\ phase = "callback" /\ sock["accepted"].type = "UDP"
    /\ phase' = "waiting"
    /\ UNCHANGED <<desc, sock, stale, backlog, use>>

\* clientReadyCallBack clones the socket for a worker (BerkeleySocket_clone
\* copies the descriptor); the loop keeps its own copy.
CallbackClones(w) ==
    /\ phase = "callback" /\ sock["accepted"].type = "TCP"
    /\ sock[w] = NoSocket
    /\ sock' = [sock EXCEPT ![w] = sock["accepted"]]
    /\ phase' = "waiting"
    /\ UNCHANGED <<desc, stale, backlog, use>>

\* The end of BerkeleySocketServer_loop: its own socket object is
\* disconnected and cleared.
LoopEnds ==
    /\ phase = "loopEnd" /\ MayClose("accepted")
    /\ Disconnect({"accepted"})
    /\ phase' = "connected"
    /\ UNCHANGED <<backlog, use>>

\* BerkeleySocketServer_disconnect or _clear after the loop.
ServerDisconnect ==
    /\ phase = "connected" /\ use = "loop"
    /\ Disconnect({"server"})
    /\ phase' = "idle"
    /\ UNCHANGED <<backlog, use>>

\* The close of a server channel: first its client's socket, then, in a
\* second step, the server's.
ChannelCloses ==
    /\ phase = "serving" /\ MayClose("accepted")
    /\ Disconnect({"accepted"})
    /\ phase' = "closing"
    /\ UNCHANGED <<backlog, use>>

ChannelClosesServer ==
    /\ phase = "closing"
    /\ Disconnect({"server"})
    /\ phase' = "idle"
    /\ UNCHANGED <<backlog, use>>

-----------------------------------------------------------------------------
(* The client object, the workers, the remote hosts, the rest of the       *)
(* process.                                                                *)

\* Over TCP the descriptor is stored only when the connection stands; a
\* failure closes it.
InitTcpClient ==
    \/ UNCHANGED <<desc, sock, stale>>
    \/ Free # {} /\ Holds("client", Lowest, "conn", "TCP")

\* Over UDP it is stored before bind, and a failed bind closes it.
InitUdpClient ==
    \/ Free # {} /\ Holds("client", Lowest, "dgram", "UDP")
    \/ /\ Careless /\ Free # {}
       /\ sock' = [sock EXCEPT !["client"] = [fd |-> Lowest, type |-> "UDP"]]
       /\ stale' = stale \cup {"client"}
       /\ UNCHANGED desc

\* BerkeleySocketClient_connectEx, also from the open of an IOChannelTcp or
\* IOChannelUdp.
ClientConnectEx ==
    /\ sock["client"].type = "NULL"
    /\ InitTcpClient \/ InitUdpClient
    /\ UNCHANGED <<backlog, use, phase>>

\* BerkeleySocketClient_disconnect and _clear, the close of an IOChannelTcp
\* or IOChannelUdp.
ClientDisconnect ==
    /\ sock["client"].type # "NULL"
    /\ Disconnect({"client"})
    /\ UNCHANGED <<backlog, use, phase>>

\* A worker is done with its clone.
WorkerDisconnect(w) ==
    /\ sock[w].type # "NULL"
    /\ Disconnect({w})
    /\ UNCHANGED <<backlog, use, phase>>

\* A remote host connects, or sends a datagram.
RemoteConnects ==
    /\ sock["server"].fd # NoFd /\ "server" \notin stale
    /\ backlog < MaxBacklog
    /\ backlog' = backlog + 1
    /\ UNCHANGED <<desc, sock, stale, use, phase>>

OtherOpens ==
    /\ Free # {}
    /\ desc' = [desc EXCEPT ![Lowest] = "file"]
    /\ UNCHANGED <<sock, stale, backlog, use, phase>>

OtherCloses(f) ==
    /\ desc[f] = "file"
    /\ desc' = [desc EXCEPT ![f] = "closed"]
    /\ stale' = stale \cup {o \in Owners : sock[o].fd = f}
    /\ UNCHANGED <<sock, backlog, use, phase>>

SocketNext ==
    \/ \E u \in {"loop", "channel"} : ServerConnect(u)
    \/ StartWaiting \/ ClientIsReady \/ LoopTimesOut \/ ChannelTimesOut
    \/ AcceptTcp \/ AcceptUdp
    \/ CallbackServes \/ CallbackQuits \/ CallbackKeeps
    \/ LoopEnds \/ ServerDisconnect \/ ChannelCloses \/ ChannelClosesServer
    \/ ClientConnectEx \/ ClientDisconnect
    \/ \E w \in ServerWorkers : CallbackClones(w) \/ WorkerDisconnect(w)
    \/ RemoteConnects \/ OtherOpens
    \/ \E f \in Fds : OtherCloses(f)

SocketSpec == SocketInit /\ [][SocketNext]_socketVars

-----------------------------------------------------------------------------
(* Properties of the descriptors.                                          *)

\* The descriptor an object holds is the one it got from the kernel: nobody
\* else has closed it in the meantime.  Excepted is the loop's own object
\* once a worker has its clone: the worker is then the one that closes.
HeldIsItsOwn ==
    \A o \in Owners \ {"accepted"} : sock[o].fd # NoFd => o \notin stale

\* A descriptor a socket call got from the kernel is always held by an object
\* that can still close it: no failing path of connect, accept or of the loop
\* loses one.
NoDescriptorLost ==
    \A f \in Fds : desc[f] \in {"listener", "conn", "dgram"} =>
        \E o \in Owners \ stale : sock[o].fd = f

\* No socket object ever closes a descriptor the rest of the process opened.
OthersSurvive ==
    [][\A f \in Fds : desc[f] = "file" /\ desc'[f] # "file" => OtherCloses(f)]_socketVars

(* Every descriptor is owned by one socket and closed once, whatever fails,  *)
(* and an operation on one socket leaves those of the others open.           *)
DescriptorsAreKept ==
    /\ [](SocketTypeOK /\ HeldIsItsOwn /\ NoDescriptorLost)
    /\ OthersSurvive

-----------------------------------------------------------------------------
(* The stream.                                                             *)

CONSTANTS
    KernelRoom,    \* bytes the kernel keeps on the way
    MaxBytes,      \* bound: bytes the writer's program has to send
    BlockSizes,    \* sizes of the calls
    MaxSignals,    \* bound: how often a call is interrupted
    FlushSizes,    \* bytes in the write buffer when a UDP channel is flushed
    DatagramSize   \* IOCHANNELUDP_SOCKET_BUFFSIZE

ASSUME StreamAssumption ==
    /\ KernelRoom \in Nat \ {0} /\ MaxBytes \in Nat /\ MaxSignals \in Nat
    /\ BlockSizes \subseteq Nat \ {0} /\ FlushSizes \subseteq Nat
    /\ DatagramSize \in Nat \ {0}

VARIABLES
    pipe,       \* bytes on the way; the program's bytes are numbered from 1
    link,       \* "open", "closed" (by the writer's side) or "reset"
    signals,    \* interruptions so far
    writer,     \* writeBlock: the caller's next byte, offset, result
    reader,     \* the reader's call: what it wants, what its buffer holds
    got,        \* bytes of the calls that returned to the reader's program
    errno,      \* of the reader's thread, never reset by recv
    flush       \* the UDP flush: datagrams handed over, loop variables

streamVars == <<pipe, link, signals, writer, reader, got, errno, flush>>
transferVars == <<pipe, link, signals, writer, reader, got, errno>>

Lesser(a, b) == IF a < b THEN a ELSE b
Errnos == {"0", "EINTR", "EAGAIN", "ECONNRESET"}
Numbers(a, n) == [i \in 1..n |-> a + i]     \* the n bytes after byte a

StreamTypeOK ==
    /\ pipe \in Seq(1..MaxBytes) /\ Len(pipe) <= KernelRoom
    /\ link \in {"open", "closed", "reset"}
    /\ signals \in 0..MaxSignals
    /\ writer.call \in {"idle", "writeBlock", "failed"}
    /\ writer.base \in 0..MaxBytes /\ writer.total \in 0..writer.size
    /\ reader.call \in {"idle", "readBlock", "read"}
    /\ Len(reader.buffer) + reader.nleft = reader.size
    /\ got \in Seq(1..MaxBytes)
    /\ errno \in Errnos
    /\ flush.call \in {"idle", "flush"}

StreamInit ==
    /\ pipe = <<>> /\ link = "open" /\ signals = 0
    /\ writer = [call |-> "idle", base |-> 0, size |-> 0, total |-> 0]
    /\ reader = [call |-> "idle", size |-> 0, nleft |-> 0, buffer |-> <<>>,
                 ready |-> FALSE, last |-> "none"]
    /\ got = <<>> /\ errno = "0"
    /\ flush = [call |-> "idle", size |-> 0, left |-> 0, written |-> 0,
                nBytes |-> 0, datagrams |-> <<>>]

-----------------------------------------------------------------------------
(* The writer.                                                             *)

WriteBlock(n) ==
    /\ writer.call = "idle" /\ link # "closed"
    /\ writer.base + n <= MaxBytes
    /\ writer' = [writer EXCEPT !.call = "writeBlock", !.size = n, !.total = 0]
    /\ UNCHANGED <<pipe, link, signals, reader, got, errno, flush>>

\* One turn of writeBlock's loop: send takes as many bytes as it likes.
Sends(m) ==
    /\ writer.call = "writeBlock" /\ link = "open"
    /\ m <= writer.size - writer.total /\ Len(pipe) + m <= KernelRoom
    /\ pipe' = pipe \o Numbers(writer.base + writer.total, m)
    /\ writer' =
         LET total == writer.total + m
         IN  IF total < writer.size THEN [writer EXCEPT !.total = total]
             ELSE [call |-> "idle", base |-> writer.base + writer.size,
                   size |-> 0, total |-> 0]
    /\ UNCHANGED <<link, signals, reader, got, errno, flush>>

\* Mutant: an interrupted call starts the block again.
SendInterruptedRestarts ==
    /\ writer.call = "writeBlock" /\ signals < MaxSignals
    /\ signals' = signals + 1
    /\ writer' = [writer EXCEPT !.total = 0]
    /\ UNCHANGED <<pipe, link, reader, got, errno, flush>>

\* send returns -1 with EINTR, and writeBlock tries again.
SendInterrupted ==
    /\ writer.call = "writeBlock" /\ signals < MaxSignals
    /\ signals' = signals + 1
    /\ UNCHANGED <<pipe, link, writer, reader, got, errno, flush>>

\* send returns -1 for another reason: writeBlock returns -1, and its caller
\* does not learn how much of the block went out.
SendFails ==
    /\ writer.call = "writeBlock" /\ link = "reset"
    /\ writer' = [writer EXCEPT !.call = "failed"]
    /\ UNCHANGED <<pipe, link, signals, reader, got, errno, flush>>

\* The writer's side disconnects after its last call; what was sent arrives.
WriterCloses ==
    /\ writer.call = "idle" /\ link = "open"
    /\ link' = "closed"
    /\ UNCHANGED <<pipe, signals, writer, reader, got, errno, flush>>

\* The connection is reset: the bytes on the way are gone.
Reset ==
    /\ link = "open"
    /\ link' = "reset" /\ pipe' = <<>>
    /\ UNCHANGED <<signals, writer, reader, got, errno, flush>>

-----------------------------------------------------------------------------
(* The reader.                                                             *)

ReaderCalls(call, n) ==
    /\ reader.call = "idle"
    /\ reader' = [call |-> call, size |-> n, nleft |-> n, buffer |-> <<>>,
                  ready |-> call = "read", last |-> "none"]
    /\ UNCHANGED <<pipe, link, signals, writer, got, errno, flush>>

\* BerkeleySocket_readBlock; IOChannelGenericSocket_read has no select.
ReadBlock(n) == ReaderCalls("readBlock", n)
ChannelRead(n) == ReaderCalls("read", n)

\* Mutant: the peer's close does not make the socket readable.
AvailableOnlyData ==
    /\ reader.call = "readBlock" /\ ~reader.ready
    /\ pipe # <<>> \/ link = "reset"
    /\ reader' = [reader EXCEPT !.ready = TRUE]
    /\ UNCHANGED <<pipe, link, signals, writer, got, errno, flush>>

\* isReadDataAvailable: select says readable also when the peer has closed.
Available ==
    /\ reader.call = "readBlock" /\ ~reader.ready
    /\ pipe # <<>> \/ link # "open"
    /\ reader' = [reader EXCEPT !.ready = TRUE]
    /\ UNCHANGED <<pipe, link, signals, writer, got, errno, flush>>

\* A call returns: the bytes its result counts, and how it ended.
ReaderReturns(buffer, last) ==
    /\ reader' = [call |-> "idle", size |-> 0, nleft |-> 0, buffer |-> <<>>,
                  ready |-> FALSE, last |-> last]
    /\ got' = got \o buffer

\* The timeout of select, or a signal: readBlock's loop asks again.
NotAvailable ==
    /\ reader.call = "readBlock" /\ ~reader.ready
    /\ \/ pipe = <<>> /\ link = "open" /\ UNCHANGED <<signals, errno>>
       \/ signals < MaxSignals /\ signals' = signals + 1 /\ errno' = "EINTR"
    /\ UNCHANGED <<pipe, link, writer, reader, got, flush>>

\* recv gives m bytes: readBlock goes on until it has all it wants.
Recv(m) ==
    /\ reader.call # "idle" /\ reader.ready
    /\ m <= reader.nleft /\ m <= Len(pipe)
    /\ pipe' = SubSeq(pipe, m + 1, Len(pipe))
    /\ LET buffer == reader.buffer \o SubSeq(pipe, 1, m)
       IN  IF reader.call = "readBlock" /\ m < reader.nleft
           THEN /\ reader' = [reader EXCEPT !.nleft = @ - m, !.buffer = buffer,
                                            !.ready = FALSE]
                /\ UNCHANGED got
           ELSE ReaderReturns(buffer, "whole")
    /\ UNCHANGED <<link, signals, writer, errno, flush>>

\* IOChannelGenericSocket_isEof: whether errno, whoever set it, is one of
\* those of a broken connection.
IsEof(e) == e = "ECONNRESET"

\* recv gives 0 bytes: readBlock returns what it has; the channel looks at an
\* errno recv did not set, and reports an error rather than the end of file.
RecvEnd ==
    /\ reader.call # "idle" /\ reader.ready
    /\ pipe = <<>> /\ link = "closed"
    /\ IF reader.call = "readBlock" THEN ReaderReturns(reader.buffer, "short")
       ELSE ReaderReturns(<<>>, IF IsEof(errno) THEN "eof" ELSE "error")
    /\ UNCHANGED <<pipe, link, signals, writer, errno, flush>>

\* recv is interrupted: readBlock asks select again, the channel reports an
\* error.
RecvInterrupted ==
    /\ reader.call # "idle" /\ reader.ready /\ signals < MaxSignals
    /\ signals' = signals + 1 /\ errno' = "EINTR"
    /\ IF reader.call = "readBlock"
       THEN reader' = [reader EXCEPT !.ready = FALSE] /\ UNCHANGED got
       ELSE ReaderReturns(<<>>, "error")
    /\ UNCHANGED <<pipe, link, writer, flush>>

\* recv fails on a reset connection: readBlock returns -1 and what its buffer
\* already holds is not counted; the channel reports the end of file.
RecvFails ==
    /\ reader.call # "idle" /\ reader.ready /\ link = "reset"
    /\ errno' = "ECONNRESET"
    /\ ReaderReturns(<<>>, IF reader.call = "readBlock" THEN "error" ELSE "eof")
    /\ UNCHANGED <<pipe, link, signals, writer, flush>>

\* peekInternal starts over on EINTR; its result is 0 both when nothing has
\* arrived (EAGAIN) and when the peer has closed.
PeekResult ==
    IF link = "reset" THEN -1 ELSE IF pipe # <<>> THEN 1 ELSE 0

\* isDisconnected, isAlive: a peek that does not wait.
IsDisconnected ==
    /\ reader.call = "idle"
    /\ errno' = IF link = "reset" THEN "ECONNRESET"
                ELSE IF pipe = <<>> /\ link = "open" THEN "EAGAIN" ELSE "0"
    /\ reader' = [reader EXCEPT !.last = IF PeekResult < 0 THEN "disconnected"
                                         ELSE "alive"]
    /\ UNCHANGED <<pipe, link, signals, writer, got, flush>>

-----------------------------------------------------------------------------
(* IOChannelUdp_flush.                                                     *)

FlushStarts(n) ==
    /\ flush.call = "idle"
    /\ flush' = [call |-> "flush", size |-> n, left |-> n, written |-> 0,
                 nBytes |-> 0, datagrams |-> <<>>]
    /\ UNCHANGED transferVars

\* One turn of the loop.  When the socket is not writable nothing is sent,
\* and nBytes of the turn before is counted once more.
FlushTurn(possible) ==
    /\ flush.call = "flush" /\ flush.written < flush.left
    /\ LET n == Lesser(DatagramSize, flush.left)
           nBytes == IF possible THEN n ELSE flush.nBytes
       IN  flush' = [flush EXCEPT
                       !.nBytes = nBytes,
                       !.written = @ + nBytes,
                       !.left = @ - nBytes,
                       !.datagrams = IF possible
                                     THEN Append(@, Numbers(flush.written, n)) ELSE @]
    /\ UNCHANGED transferVars

FlushReturns ==
    /\ flush.call = "flush" /\ flush.written >= flush.left
    /\ flush' = [flush EXCEPT !.call = "idle"]
    /\ UNCHANGED transferVars

-----------------------------------------------------------------------------
WriterStep == (\E m \in 1..KernelRoom : Sends(m)) \/ SendFails
ReaderStep == \/ Available \/ RecvEnd \/ RecvFails
              \/ \E m \in 1..KernelRoom : Recv(m)
TransferNext ==
    \/ \E n \in BlockSizes : WriteBlock(n) \/ ReadBlock(n) \/ ChannelRead(n)
    \/ WriterStep \/ SendInterrupted \/ WriterCloses \/ Reset
    \/ ReaderStep \/ NotAvailable \/ RecvInterrupted
    \/ IsDisconnected
FlushNext ==
    \/ \E n \in FlushSizes : FlushStarts(n)
    \/ \E possible \in BOOLEAN : FlushTurn(possible)
    \/ FlushReturns

StreamNext == TransferNext \/ FlushNext

\* Fairness: both threads are scheduled, and the writer's side in the end
\* closes the connection or loses it.
StreamFairness == WF_streamVars(WriterStep) /\ WF_streamVars(ReaderStep) /\ WF_streamVars(WriterCloses \/ Reset)

StreamSpec == StreamInit /\ [][StreamNext]_streamVars /\ StreamFairness

-----------------------------------------------------------------------------
(* Properties of the stream.                                               *)

\* While the connection stands, no byte is lost, repeated or out of order:
\* what the reader's program got, what its running call holds and what is on
\* the way are the writer's bytes one after the other, up to the writer's
\* offset in its block.
StreamIsWhole ==
    link # "reset" =>
        got \o reader.buffer \o pipe = Numbers(0, writer.base + writer.total)

\* What the reader's program was given, over several calls, is a prefix of
\* what was sent; only a call that failed on a reset connection leaves a gap,
\* and it leaves it at the end.
GotIsPrefix == got = Numbers(0, Len(got))

\* readBlock reports fewer bytes than it was asked for only when the peer has
\* closed and all it sent has been taken.
ShortOnlyAtTheEnd ==
    reader.last = "short" => link = "closed" /\ pipe = <<>>

\* A readBlock that reports all it was asked for has filled the caller's
\* buffer, also when the bytes came in several pieces between interruptions.
WholeMeansAll ==
    [][reader.call = "readBlock" /\ reader'.last = "whole" =>
          Len(got') = Len(got) + reader.size]_streamVars

\* readBlock returns once the peer has closed or the connection is reset,
\* however often select timed out before: it cannot wait for ever.
ReadBlockReturns == (reader.call = "readBlock") ~> (reader.call = "idle")

\* The flush of a UDP channel hands over the whole write buffer, in order and
\* in datagrams of at most the given size.
FlushSendsAll ==
    flush.call = "idle" =>
        LET d == flush.datagrams
            Before[i \in 1..Len(d) + 1] ==
                IF i = 1 THEN 0 ELSE Before[i - 1] + Len(d[i - 1])
        IN  /\ \A i \in 1..Len(d) :
                 d[i] = Numbers(Before[i], Len(d[i])) /\ Len(d[i]) <= DatagramSize
            /\ Before[Len(d) + 1] = flush.size

(* What the reader has is the beginning of what the writer sent, in its order*)
(* and without a gap, and it is short only where the stream ends.            *)
BytesArriveInOrder ==
    /\ StreamTypeOK
    /\ StreamIsWhole
    /\ GotIsPrefix
    /\ ShortOnlyAtTheEnd

(* A call on the connection does all it was asked to or says that it did not,*)
(* and comes back.                                                           *)
CallsAreWhole ==
    /\ []FlushSendsAll
    /\ WholeMeansAll
    /\ ReadBlockReturns
=============================================================================
