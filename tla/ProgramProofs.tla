---------------------------- MODULE ProgramProofs ----------------------------
(***************************************************************************)
(* What is proved of three parts that a program uses by itself.  Of the     *)
(* channels on memory: each of their calls is a step of ByteStream, for     *)
(* segments of any size and any number of channels that share one.  Of the  *)
(* plugins: what was found stays found and loaded, and the library is open  *)
(* as often as plugins have opened it, for any names, objects and lengths   *)
(* of the lists.  Of the parser of the command line: no argument is taken   *)
(* twice and none is skipped, for any descriptors and any command lines.    *)
(***************************************************************************)
EXTENDS MemoryChannels, Plugins, ArgvParser,
        SequenceTheorems, FiniteSetTheorems, WellFoundedInduction, TLAPS

Byte == Channels \cup {Zero}
ByteSeq == Seq(Byte)

-----------------------------------------------------------------------------
(* Blocks of bytes.                                                         *)

LEMMA MaxOfTwo ==
  ASSUME NEW a \in Int, NEW b \in Int
  PROVE  Max({a, b}) = IF a >= b THEN a ELSE b
<1> DEFINE m == IF a >= b THEN a ELSE b
<1>1. m \in {a, b} /\ \A y \in {a, b} : m >= y
  OBVIOUS
<1>2. \A x \in {a, b} : (\A y \in {a, b} : x >= y) => x = m
  OBVIOUS
<1> QED BY <1>1, <1>2 DEF Max

LEMMA MinOfTwo ==
  ASSUME NEW a \in Int, NEW b \in Int
  PROVE  Min({a, b}) = IF a <= b THEN a ELSE b
<1> DEFINE m == IF a <= b THEN a ELSE b
<1>1. m \in {a, b} /\ \A y \in {a, b} : m <= y
  OBVIOUS
<1>2. \A x \in {a, b} : (\A y \in {a, b} : x <= y) => x = m
  OBVIOUS
<1> QED BY <1>1, <1>2 DEF Min

LEMMA FromFunction ==
  ASSUME NEW S, NEW n \in Nat, NEW f \in [1..n -> S]
  PROVE  f \in Seq(S) /\ Len(f) = n
OBVIOUS

LEMMA ZerosAre == Zeros(Size) \in ByteSeq /\ Len(Zeros(Size)) = Size
<1>1. Size \in Nat /\ Zero \in Byte
  BY MemoryAssumption DEF Byte
<1>2. Zeros(Size) \in [1..Size -> Byte]
  BY <1>1 DEF Zeros
<1> QED BY <1>1, <1>2, FromFunction DEF ByteSeq

\* A block laid over a memory that it does not go beyond leaves its size.
LEMMA OverlayWithin ==
  ASSUME NEW s \in ByteSeq, NEW p \in Nat, NEW b \in ByteSeq
  PROVE  /\ Overlay(s, p, b) \in ByteSeq
         /\ \A n \in Nat : Len(s) <= n /\ p + Len(b) <= n => Len(Overlay(s, p, b)) <= n
         /\ Len(b) = 0 \/ p + Len(b) <= Len(s) => Len(Overlay(s, p, b)) = Len(s)
<1>1. Len(s) \in Nat /\ Len(b) \in Nat
  BY LenProperties DEF ByteSeq
<1>2. CASE b = <<>>
  <2>1. Overlay(s, p, b) = s
    BY <1>2 DEF Overlay
  <2> QED BY <2>1
<1>3. CASE b # <<>>
  <2> DEFINE n == IF Len(s) >= p + Len(b) THEN Len(s) ELSE p + Len(b)
             e(i) == CASE i \in p + 1 .. p + Len(b) -> b[i - p]
                       [] i <= Len(s) /\ i \notin p + 1 .. p + Len(b) -> s[i]
                       [] OTHER -> Zero
  <2>1. Max({Len(s), p + Len(b)}) = n /\ n \in Nat
    BY <1>1, MaxOfTwo
  <2>2. ASSUME NEW i \in 1..n PROVE e(i) \in Byte
    <3>1. CASE i \in p + 1 .. p + Len(b)
      <4>1. i - p \in 1..Len(b)
        BY <1>1, <3>1
      <4>2. b[i - p] \in Byte
        BY <4>1, ElementOfSeq DEF ByteSeq
      <4> QED BY <3>1, <4>2
    <3>2. CASE i \notin p + 1 .. p + Len(b) /\ i <= Len(s)
      <4>1. i \in 1..Len(s)
        BY <1>1, <2>1, <3>2
      <4>2. s[i] \in Byte
        BY <4>1, ElementOfSeq DEF ByteSeq
      <4> QED BY <3>2, <4>2
    <3>3. CASE i \notin p + 1 .. p + Len(b) /\ ~(i <= Len(s))
      BY <3>3 DEF Byte
    <3> QED BY <3>1, <3>2, <3>3
  <2>3. Overlay(s, p, b) = [i \in 1..n |-> e(i)]
    <3> HIDE DEF n
    <3> QED BY <1>3, <2>1 DEF Overlay
  <2> HIDE DEF e
  <2>4. Overlay(s, p, b) \in [1..n -> Byte]
    BY <2>2, <2>3
  <2>5. Overlay(s, p, b) \in ByteSeq
    BY <2>1, <2>4, FromFunction DEF ByteSeq
  <2>6. Len(Overlay(s, p, b)) = n
    BY <2>1, <2>4, FromFunction
  <2>7. Len(b) # 0
    BY <1>3, EmptySeq DEF ByteSeq
  <2> QED BY <1>1, <2>5, <2>6, <2>7
<1> QED BY <1>2, <1>3

\* What a whole memory is mapped to is the memory.
LEMMA OverlayAll ==
  ASSUME NEW b \in ByteSeq, Len(b) = Size
  PROVE  Overlay(Zeros(Size), 0, b) = b
<1>1. Size \in Nat /\ Size # 0
  BY MemoryAssumption
<1>2. b # <<>> /\ DOMAIN b = 1..Size
  BY <1>1, LenProperties, EmptySeq DEF ByteSeq
<1>3. Max({Len(Zeros(Size)), 0 + Len(b)}) = Size
  BY <1>1, ZerosAre, MaxOfTwo
<1>4. Overlay(Zeros(Size), 0, b)
        = [i \in 1..Size |-> CASE i \in 0 + 1 .. 0 + Len(b) -> b[i - 0]
                               [] i <= Len(Zeros(Size)) /\ i \notin 0 + 1 .. 0 + Len(b) -> Zeros(Size)[i]
                               [] OTHER -> Zero]
  BY <1>2, <1>3 DEF Overlay
<1>5. \A i \in 1..Size : i \in 0 + 1 .. 0 + Len(b) /\ i - 0 = i
  BY <1>1
<1>6. Overlay(Zeros(Size), 0, b) = [i \in 1..Size |-> b[i]]
  BY <1>4, <1>5
<1>7. b = [i \in 1..Size |-> b[i]]
  <2>1. b \in [1..Size -> Byte]
    BY <1>2, SeqDef, LenProperties DEF ByteSeq
  <2> QED BY <2>1
<1> QED BY <1>6, <1>7

-----------------------------------------------------------------------------
(* The inductive invariant.                                                 *)

MemStates == [place : Places \cup {"none"}, access : {"R_ONLY", "RW"},
              closing : Closings \cup {"none"}, error : BOOLEAN, foundEof : BOOLEAN,
              index : 0..Size, lastRead : Nat, unget : ByteSeq, got : ByteSeq]

\* What was ungot lies before the position, and what was read last before that.
Sound(s) ==
    /\ s \in MemStates
    /\ Len(s.unget) <= UngetSize /\ Len(s.unget) + Len(s.got) <= s.index

MemorySound == memory \in [Places -> ByteSeq] /\ \A p \in Places : Len(memory[p]) <= Size

MemInv ==
    /\ channel \in [Channels -> MemStates] /\ \A c \in Channels : Sound(channel[c])
    /\ MemorySound
    /\ call \in [by : Channels \cup {"none"}, op : {"seek", "other"}, short : BOOLEAN,
                 stops : BOOLEAN]
    /\ ShortMeansEnd

LEMMA Less ==
  ASSUME NEW i \in Int, NEW u \in Nat, NEW g \in Nat, u + g <= i
  PROVE  u + 0 <= i /\ i - u \in Nat /\ g <= i - u
OBVIOUS

LEMMA SizesAre == Size \in Nat /\ Size # 0 /\ UngetSize \in Nat /\ MaxBytes \in Nat /\ 0 \in 0..Size
BY MemoryAssumption

LEMMA SoundIs ==
  ASSUME NEW s, Sound(s)
  PROVE  /\ s.index \in 0..Size /\ s.lastRead \in Nat /\ s.unget \in ByteSeq /\ s.got \in ByteSeq
         /\ Len(s.unget) \in Nat /\ Len(s.got) \in Nat
         /\ s.error \in BOOLEAN /\ s.foundEof \in BOOLEAN
         /\ Sound([s EXCEPT !.got = <<>>])
<1>1. s.index \in 0..Size /\ s.lastRead \in Nat /\ s.unget \in ByteSeq /\ s.got \in ByteSeq
      /\ s.error \in BOOLEAN /\ s.foundEof \in BOOLEAN
  BY DEF Sound, MemStates
<1>2. Len(s.unget) \in Nat /\ Len(s.got) \in Nat
  BY <1>1, LenProperties DEF ByteSeq
<1>3. <<>> \in ByteSeq /\ Len(<<>>) = 0
  BY EmptySeq DEF ByteSeq
<1> DEFINE t == [s EXCEPT !.got = <<>>]
<1>4. t \in MemStates /\ t.unget = s.unget /\ t.got = <<>> /\ t.index = s.index
  BY <1>3 DEF Sound, MemStates
<1> HIDE DEF t
<1>5. Len(s.unget) <= UngetSize /\ Len(s.unget) + Len(s.got) <= s.index
  BY DEF Sound
<1>6. s.index \in Int
  BY <1>1, SizesAre
<1>7. Sound(t)
  <2>1. Len(t.unget) = Len(s.unget) /\ Len(t.got) = 0
    BY <1>3, <1>4
  <2>2. Len(s.unget) + 0 <= s.index
    BY <1>2, <1>5, <1>6, Less
  <2> QED BY <1>4, <1>5, <2>1, <2>2 DEF Sound
<1> QED BY <1>1, <1>2, <1>7 DEF t

\* A call that returns keeps the invariant if what it leaves is sound and a
\* short result goes with the end or an error.
LEMMA ReturnsKeep ==
  ASSUME MemInv, NEW c \in Channels, NEW op \in {"seek", "other"}, NEW asked \in Int,
         NEW result \in Int, NEW after, Returns(c, op, asked, result, after), Sound(after),
         result < asked => after.foundEof \/ after.error, MemorySound'
  PROVE  MemInv'
<1>1. channel \in [Channels -> MemStates] /\ \A d \in Channels : Sound(channel[d])
  BY DEF MemInv
<1>2. \A d \in Channels : Sound([channel[d] EXCEPT !.got = <<>>])
  BY <1>1, SoundIs
<1>3. /\ channel' = [d \in Channels |-> IF d = c THEN after ELSE [channel[d] EXCEPT !.got = <<>>]]
      /\ call' = [by |-> c, op |-> op, short |-> result < asked, stops |-> FALSE]
  BY DEF Returns
<1>4. \A d \in Channels : Sound(channel'[d])
  BY <1>2, <1>3
<1>5. channel' \in [Channels -> MemStates]
  <2>1. \A d \in Channels : Sound(IF d = c THEN after ELSE [channel[d] EXCEPT !.got = <<>>])
    BY <1>2
  <2>2. \A d \in Channels : (IF d = c THEN after ELSE [channel[d] EXCEPT !.got = <<>>]) \in MemStates
    BY <2>1, Zenon DEF Sound
  <2> QED BY <1>3, <2>2
<1>6. call' \in [by : Channels \cup {"none"}, op : {"seek", "other"}, short : BOOLEAN, stops : BOOLEAN]
  BY <1>3
<1>7. ShortMeansEnd'
  <2>1. channel'[c] = after /\ call'.by = c /\ (call'.short => result < asked)
    BY <1>3
  <2> QED BY <2>1, Zenon DEF ShortMeansEnd
<1> QED BY <1>4, <1>5, <1>6, <1>7 DEF MemInv, Sound

LEMMA StopsKeep ==
  ASSUME MemInv, NEW c \in Channels, Stops(c)
  PROVE  MemInv'
<1>1. call' = [by |-> c, op |-> "other", short |-> TRUE, stops |-> TRUE] /\ UNCHANGED <<channel, memory>>
  BY DEF Stops
<1>2. ShortMeansEnd'
  BY <1>1 DEF ShortMeansEnd
<1>3. call' \in [by : Channels \cup {"none"}, op : {"seek", "other"}, short : BOOLEAN, stops : BOOLEAN]
  BY <1>1
<1>4. MemorySound'
  BY <1>1 DEF MemInv, MemorySound
<1>5. (channel \in [Channels -> MemStates] /\ \A d \in Channels : Sound(channel[d]))'
  BY <1>1 DEF MemInv
<1> QED BY <1>2, <1>3, <1>4, <1>5 DEF MemInv

-----------------------------------------------------------------------------
(* The stream each channel is.                                              *)

\* The steps EachIsAStream allows channel c.
StreamStep(c) ==
    \/ Stream(c)!Stay
    \/ call'.op = "seek" /\ \E p \in 0..Size : Stream(c)!Seek(p)
    \/ call'.op # "seek" /\ \E n \in 1..MaxBytes :
          \/ Stream(c)!Unget(n) \/ Stream(c)!Write([i \in 1..n |-> c])
          \/ Stream(c)!Read(n)

Followed(c) == IsOpen(c) /\ Len(Bytes(c)) = Size /\ UngotIsThere(c)

\* What each step has to do: keep the invariant, be one of the stream, and write
\* to no memory that is only read.
Goes(c) ==
    /\ MemInv' /\ call'.by = c
    /\ Followed(c) /\ IsOpen(c)' /\ ~call'.stops => StreamStep(c)
    /\ IsOpen(c) /\ channel[c].access = "R_ONLY" => memory' = memory

LEMMA StreamSteps ==
  ASSUME NEW c
  PROVE  /\ /\ channel'[c].got = <<>> /\ Bytes(c)' = Bytes(c) /\ Position(c)' = Position(c)
            => StreamStep(c)
         /\ \A p \in 0..Size :
              /\ call'.op = "seek" /\ channel'[c].got = <<>> /\ Bytes(c)' = Bytes(c) /\ Position(c)' = p
              => StreamStep(c)
         /\ \A n \in 1..MaxBytes :
              /\ call'.op = "other" /\ n <= Position(c) /\ channel'[c].got = <<>>
              /\ Bytes(c)' = Bytes(c) /\ Position(c)' = Position(c) - n
              => StreamStep(c)
         /\ \A n \in 1..MaxBytes :
              /\ call'.op = "other" /\ channel'[c].got = BytesFrom(Bytes(c), Position(c), n)
              /\ Bytes(c)' = Bytes(c) /\ Position(c)' = Position(c) + Len(channel'[c].got)
              => StreamStep(c)
         /\ \A n \in 1..MaxBytes :
              /\ call'.op = "other" /\ channel'[c].got = <<>>
              /\ Bytes(c)' = Overlay(Bytes(c), Position(c), [i \in 1..n |-> c])
              /\ Position(c)' = Position(c) + Len([i \in 1..n |-> c])
              => StreamStep(c)
<1>1. ASSUME channel'[c].got = <<>>, Bytes(c)' = Bytes(c), Position(c)' = Position(c)
      PROVE  Stream(c)!Stay
  BY <1>1 DEF Stream!Stay
<1>2. ASSUME NEW p, channel'[c].got = <<>>, Bytes(c)' = Bytes(c), Position(c)' = p
      PROVE  Stream(c)!Seek(p)
  BY <1>2 DEF Stream!Seek
<1>3. ASSUME NEW n, n <= Position(c), channel'[c].got = <<>>, Bytes(c)' = Bytes(c),
             Position(c)' = Position(c) - n
      PROVE  Stream(c)!Unget(n)
  BY <1>3 DEF Stream!Unget
<1>4. ASSUME NEW n, channel'[c].got = BytesFrom(Bytes(c), Position(c), n), Bytes(c)' = Bytes(c),
             Position(c)' = Position(c) + Len(channel'[c].got)
      PROVE  Stream(c)!Read(n)
  BY <1>4 DEF Stream!Read, Stream!BytesFrom, Stream!Min, BytesFrom, Min
<1>5. ASSUME NEW b, channel'[c].got = <<>>, Bytes(c)' = Overlay(Bytes(c), Position(c), b),
             Position(c)' = Position(c) + Len(b)
      PROVE  Stream(c)!Write(b)
  <2>1. Stream(c)!Overlay(Bytes(c), Position(c), b) = Overlay(Bytes(c), Position(c), b)
    BY DEF Stream!Overlay, Stream!Max, Overlay, Max
  <2> QED BY <1>5, <2>1 DEF Stream!Write
<1> QED BY <1>1, <1>2, <1>3, <1>4, <1>5, Zenon DEF StreamStep

-----------------------------------------------------------------------------
(* The calls.                                                               *)

\* What is true of every call: the channel is sound, and what it stands on.
LEMMA CallerIs ==
  ASSUME MemInv, NEW c \in Channels
  PROVE  /\ Sound(channel[c])
         /\ IsOpen(c) => Bytes(c) \in ByteSeq /\ Len(Bytes(c)) <= Size /\ channel[c].place \in Places
         /\ Position(c) \in Nat
<1>1. Sound(channel[c]) /\ channel[c].place \in Places \cup {"none"}
  BY DEF MemInv, Sound, MemStates
<1>2. \A p \in Places : memory[p] \in ByteSeq /\ Len(memory[p]) <= Size
  BY DEF MemInv, MemorySound
<1>3. channel[c].index \in 0..Size /\ Len(channel[c].unget) \in Nat /\ Len(channel[c].got) \in Nat
      /\ Len(channel[c].unget) + Len(channel[c].got) <= channel[c].index
  BY <1>1, SoundIs DEF Sound
<1>4. channel[c].index \in Int
  BY <1>3, SizesAre
<1>5. Position(c) \in Nat
  BY <1>3, <1>4, Less DEF Position
<1> QED BY <1>1, <1>2, <1>5 DEF IsOpen, Bytes

LEMMA ReturnsGive ==
  ASSUME NEW c \in Channels, NEW op, NEW asked, NEW result, NEW after,
         Returns(c, op, asked, result, after)
  PROVE  /\ channel'[c] = after /\ call'.by = c /\ call'.op = op
         /\ Bytes(c)' = memory'[after.place] /\ Position(c)' = after.index - Len(after.unget)
BY DEF Returns, Bytes, Position

\* A call that leaves the memory alone and either the channel's place, or is a seek.
Quiet(c, op, after) ==
    /\ Returns(c, op, 0, 0, after) /\ memory' = memory /\ Sound(after)
    /\ after.place = channel[c].place /\ after.got = <<>> /\ after.unget = channel[c].unget
    /\ \/ op = "other" /\ after.index = channel[c].index
       \/ op = "seek" /\ after.unget = <<>>

LEMMA QuietGoes ==
  ASSUME MemInv, NEW c \in Channels, NEW op, NEW after, Quiet(c, op, after)
  PROVE  Goes(c)
<1>1. /\ Returns(c, op, 0, 0, after) /\ memory' = memory /\ Sound(after) /\ op \in {"seek", "other"}
      /\ after.place = channel[c].place /\ after.got = <<>> /\ after.unget = channel[c].unget
      /\ after.index = channel[c].index \/ (op = "seek" /\ after.unget = <<>>)
  BY DEF Quiet
<1>2. channel'[c] = after /\ call'.by = c /\ call'.op = op
      /\ Bytes(c)' = memory'[after.place] /\ Position(c)' = after.index - Len(after.unget)
  BY <1>1, ReturnsGive
<1>3. Bytes(c)' = Bytes(c)
  BY <1>1, <1>2 DEF Bytes
<1>4. MemorySound'
  BY <1>1 DEF MemInv, MemorySound
<1>5. MemInv'
  <2> DEFINE none == 0
  <2>1. none \in Int /\ ~(none < none) /\ Returns(c, op, none, none, after)
    BY <1>1
  <2> HIDE DEF none
  <2> QED BY <1>1, <1>4, <2>1, ReturnsKeep
<1>6. StreamStep(c)
  <2>1. CASE after.index = channel[c].index
    <3>1. Position(c)' = Position(c)
      BY <1>1, <1>2, <2>1 DEF Position
    <3> QED BY <1>1, <1>2, <1>3, <3>1, StreamSteps
  <2>2. CASE op = "seek" /\ after.unget = <<>>
    <3>1. after.index \in 0..Size /\ Len(after.unget) = 0 /\ Size \in Nat
      BY <1>1, <2>2, SoundIs, EmptySeq, SizesAre
    <3>2. Position(c)' = after.index
      BY <1>2, <3>1
    <3> QED BY <1>1, <1>2, <1>3, <2>2, <3>1, <3>2, StreamSteps
  <2> QED BY <1>1, <2>1, <2>2
<1> QED BY <1>1, <1>2, <1>5, <1>6 DEF Goes

LEMMA RewindGoes ==
  ASSUME MemInv, ~Careless, NEW c \in Channels, Rewind(c)
  PROVE  Goes(c)
<1> DEFINE s == channel[c]
           after == [s EXCEPT !.index = 0, !.foundEof = FALSE, !.got = <<>>]
<1>1. Sound(s) /\ s.unget = <<>> /\ Returns(c, "seek", 0, 0, after) /\ UNCHANGED memory
  BY CallerIs DEF Rewind
<1>2. /\ after \in MemStates /\ after.place = s.place /\ after.got = <<>> /\ after.unget = s.unget
      /\ after.index = 0
  BY <1>1, EmptySeq, SizesAre DEF Sound, MemStates, ByteSeq
<1> HIDE DEF after
<1>3. Sound(after)
  BY <1>1, <1>2, EmptySeq, SizesAre DEF Sound
<1>4. Quiet(c, "seek", after)
  BY <1>1, <1>2, <1>3 DEF Quiet
<1> QED BY <1>4, QuietGoes

LEMMA CleanErrorGoes ==
  ASSUME MemInv, NEW c \in Channels, CleanError(c)
  PROVE  Goes(c)
<1> DEFINE s == channel[c]
           after == [s EXCEPT !.error = FALSE, !.got = <<>>]
<1>1. Sound(s) /\ Returns(c, "other", 0, 0, after) /\ UNCHANGED memory
  BY CallerIs DEF CleanError
<1>2. /\ after \in MemStates /\ after.place = s.place /\ after.got = <<>> /\ after.unget = s.unget
      /\ after.index = s.index
  BY <1>1, EmptySeq, SizesAre DEF Sound, MemStates, ByteSeq
<1> HIDE DEF after
<1>3. Sound(after)
  <2>1. Sound([s EXCEPT !.got = <<>>])
    BY <1>1, SoundIs
  <2> QED BY <1>2, <2>1 DEF Sound
<1>4. after.place = channel[c].place /\ after.unget = channel[c].unget /\ after.index = channel[c].index
      /\ after.got = <<>>
  BY <1>2
<1> HIDE DEF s
<1>5. Quiet(c, "other", after)
  BY <1>1, <1>3, <1>4 DEF Quiet
<1> QED BY <1>5, QuietGoes

LEMMA SeekSetGoes ==
  ASSUME MemInv, ~Careless, NEW c \in Channels, NEW to \in Int, SeekSet(c, to)
  PROVE  Goes(c)
<1> DEFINE s == channel[c]
           wrong == [s EXCEPT !.error = TRUE, !.got = <<>>]
           right == [s EXCEPT !.index = to, !.got = <<>>]
           after == IF Outside(c, to) THEN wrong ELSE right
<1>1. Sound(s) /\ s.unget = <<>> /\ Returns(c, "seek", 0, 0, after) /\ UNCHANGED memory
  BY CallerIs DEF SeekSet
<1>2. s \in MemStates /\ <<>> \in ByteSeq /\ Len(<<>>) = 0 /\ Size \in Nat /\ UngetSize \in Nat
  BY <1>1, EmptySeq, SizesAre DEF Sound, ByteSeq
<1>3. wrong \in MemStates /\ wrong.place = s.place /\ wrong.got = <<>> /\ wrong.unget = s.unget
      /\ wrong.index = s.index
  BY <1>2 DEF MemStates
<1>4. ASSUME ~Outside(c, to)
      PROVE  right \in MemStates /\ right.place = s.place /\ right.got = <<>> /\ right.unget = s.unget
             /\ right.index \in 0..Size
  <2>1. to \in 0..Size
    BY <1>2, <1>4 DEF Outside
  <2> QED BY <1>2, <2>1 DEF MemStates
<1> HIDE DEF wrong, right
<1>5. /\ after \in MemStates /\ after.place = s.place /\ after.got = <<>> /\ after.unget = s.unget
      /\ after.index \in 0..Size
  BY <1>2, <1>3, <1>4 DEF MemStates
<1> HIDE DEF after
<1>6. Sound(after)
  BY <1>1, <1>2, <1>5 DEF Sound
<1>7. Quiet(c, "seek", after)
  BY <1>1, <1>5, <1>6 DEF Quiet
<1> QED BY <1>7, QuietGoes

LEMMA SeekCurGoes ==
  ASSUME MemInv, ~Careless, NEW c \in Channels, NEW by \in Int, SeekCur(c, by)
  PROVE  Goes(c)
<1> DEFINE s == channel[c]
           to == s.index + by
           wrong == [s EXCEPT !.error = TRUE, !.got = <<>>]
           right == [s EXCEPT !.index = to - Len(s.unget), !.unget = <<>>, !.got = <<>>]
           after == IF Outside(c, to) THEN wrong ELSE right
<1>1. Sound(s) /\ s.unget = <<>> /\ Returns(c, "seek", 0, 0, after) /\ UNCHANGED memory
  BY CallerIs DEF SeekCur
<1>2. s \in MemStates /\ <<>> \in ByteSeq /\ Len(<<>>) = 0 /\ Size \in Nat /\ UngetSize \in Nat
  BY <1>1, EmptySeq, SizesAre DEF Sound, ByteSeq
<1>3. wrong \in MemStates /\ wrong.place = s.place /\ wrong.got = <<>> /\ wrong.unget = s.unget
      /\ wrong.index = s.index
  BY <1>2 DEF MemStates
<1>4. s.index \in 0..Size /\ to \in Int /\ Len(s.unget) = 0
  BY <1>1, <1>2 DEF MemStates
<1>5. ASSUME ~Outside(c, to) PROVE to - Len(s.unget) \in 0..Size
  BY <1>2, <1>4, <1>5 DEF Outside
<1>6. ASSUME ~Outside(c, to)
      PROVE  right \in MemStates /\ right.place = s.place /\ right.got = <<>> /\ right.unget = s.unget
             /\ right.index \in 0..Size
  <2> DEFINE i == to - Len(s.unget)
  <2>1. i \in 0..Size
    BY <1>5, <1>6
  <2>2. right = [s EXCEPT !.index = i, !.unget = <<>>, !.got = <<>>]
    OBVIOUS
  <2> HIDE DEF i, right
  <2> QED BY <1>1, <1>2, <2>1, <2>2 DEF MemStates
<1> HIDE DEF wrong, right, to
<1>7. /\ after \in MemStates /\ after.place = s.place /\ after.got = <<>> /\ after.unget = s.unget
      /\ after.index \in 0..Size
  BY <1>2, <1>3, <1>6 DEF MemStates
<1> HIDE DEF after
<1>8. Sound(after)
  BY <1>1, <1>2, <1>7 DEF Sound
<1>9. Quiet(c, "seek", after)
  BY <1>1, <1>7, <1>8 DEF Quiet
<1> QED BY <1>9, QuietGoes

\* A part of a block, and a first part of that.
LEMMA PartIs ==
  ASSUME NEW s \in ByteSeq, NEW p \in Nat, NEW k \in Nat, p + k <= Len(s)
  PROVE  /\ SubSeq(s, p + 1, p + k) \in ByteSeq /\ Len(SubSeq(s, p + 1, p + k)) = k
         /\ \A i \in 1..k : SubSeq(s, p + 1, p + k)[i] = s[p + i]
<1>1. Len(s) \in Nat /\ \A i \in 1..Len(s) : s[i] \in Byte
  BY LenProperties, ElementOfSeq DEF ByteSeq
<1>2. p + 1 \in Int /\ p + k \in Int /\ \A i \in p + 1 .. p + k : s[i] \in Byte
  BY <1>1
<1> DEFINE m == p + 1
           n == p + k
           t == SubSeq(s, m, n)
<1>3. m \in Int /\ n \in Int /\ \A i \in m..n : s[i] \in Byte
  BY <1>2
<1>4. (n - m) + 1 = k /\ (m <= n \/ k = 0) /\ (k = 0 => ~(m <= n))
      /\ \A i \in 1..k : (m + i) - 1 = p + i
  OBVIOUS
<1> HIDE DEF m, n
<1>5. /\ t \in Seq(Byte) /\ Len(t) = IF m <= n THEN n - m + 1 ELSE 0
      /\ \A i \in 1 .. n - m + 1 : t[i] = s[m + i - 1]
  BY <1>3, SubSeqProperties
<1> HIDE DEF t
<1>6. n - m + 1 = k /\ \A i \in 1..k : m + i - 1 = p + i
  BY <1>3, <1>4
<1>7. Len(t) = k /\ \A i \in 1..k : t[i] = s[p + i]
  BY <1>4, <1>5, <1>6
<1> QED BY <1>5, <1>7 DEF t, m, n, ByteSeq

LEMMA FirstPartIs ==
  ASSUME NEW s \in ByteSeq, NEW k \in Nat, k <= Len(s)
  PROVE  /\ SubSeq(s, 1, k) \in ByteSeq /\ Len(SubSeq(s, 1, k)) = k
         /\ \A i \in 1..k : SubSeq(s, 1, k)[i] = s[i]
<1> DEFINE z == 0
<1>1. z \in Nat /\ z + 1 = 1 /\ z + k = k /\ \A i \in 1..k : z + i = i
  OBVIOUS
<1> HIDE DEF z
<1>2. /\ SubSeq(s, z + 1, z + k) \in ByteSeq /\ Len(SubSeq(s, z + 1, z + k)) = k
      /\ \A i \in 1..k : SubSeq(s, z + 1, z + k)[i] = s[z + i]
  BY <1>1, PartIs
<1> QED BY <1>1, <1>2

LEMMA PartOfPart ==
  ASSUME NEW s \in ByteSeq, NEW p \in Nat, NEW k \in Nat, NEW n \in Nat, n <= k, p + k <= Len(s)
  PROVE  SubSeq(SubSeq(s, p + 1, p + k), 1, n) = SubSeq(s, p + 1, p + n)
<1> DEFINE t == SubSeq(s, p + 1, p + k)
           l == SubSeq(t, 1, n)
           r == SubSeq(s, p + 1, p + n)
<1>1. t \in ByteSeq /\ Len(t) = k /\ \A i \in 1..k : t[i] = s[p + i]
  BY PartIs
<1>2. Len(s) \in Nat /\ p + n <= Len(s)
  BY LenProperties DEF ByteSeq
<1>3. r \in ByteSeq /\ Len(r) = n /\ \A i \in 1..n : r[i] = s[p + i]
  BY <1>2, PartIs
<1> HIDE DEF t, r
<1>4. l \in ByteSeq /\ Len(l) = n /\ \A i \in 1..n : l[i] = t[i]
  BY <1>1, FirstPartIs
<1> HIDE DEF l
<1>5. \A i \in 1..n : l[i] = r[i]
  BY <1>1, <1>3, <1>4
<1>6. l = r
  BY <1>3, <1>4, <1>5, SeqEqual DEF ByteSeq
<1> QED BY <1>6 DEF l, t, r

LEMMA BytesFromIs ==
  ASSUME NEW s \in ByteSeq, NEW p \in Nat, NEW n \in Nat
  PROVE  BytesFrom(s, p, n) = SubSeq(s, p + 1, IF p + n <= Len(s) THEN p + n ELSE Len(s))
<1>1. p + n \in Int /\ Len(s) \in Int
  BY LenProperties DEF ByteSeq
<1> QED BY <1>1, MinOfTwo DEF BytesFrom

LEMMA Ungetting ==
  ASSUME NEW i \in Nat, NEW u \in Nat, NEW g \in Nat, NEW n \in Nat, n <= g, u + g <= i
  PROVE  (n + u) + 0 <= i /\ n <= i - u /\ i - (n + u) = (i - u) - n
OBVIOUS

LEMMA Rereading ==
  ASSUME NEW i \in Nat, NEW u \in Nat, NEW g \in Nat, NEW n \in Nat, n <= u, u + g <= i
  PROVE  (u - n) + n <= i /\ u - n \in Nat /\ u - n <= u /\ i - (u - n) = (i - u) + n
         /\ n + (u - n) = u /\ u <= i /\ (i - u) + u = i /\ (i - u) + n <= i
OBVIOUS

LEMMA UngetGoes ==
  ASSUME MemInv, NEW c \in Channels, NEW n \in 1..MaxBytes, UngetBytes(c, n)
  PROVE  Goes(c)
<1> DEFINE s == channel[c]
           front == SubSeq(s.got, Len(s.got) - n + 1, Len(s.got))
           after == [s EXCEPT !.unget = front \o @, !.lastRead = @ - n, !.got = <<>>]
<1>1. /\ Sound(s) /\ Returns(c, "other", n, n, after) /\ UNCHANGED memory
      /\ n <= Len(s.got) /\ n <= s.lastRead /\ n + Len(s.unget) <= UngetSize
  BY CallerIs DEF UngetBytes
<1>2. /\ s \in MemStates /\ s.unget \in ByteSeq /\ s.got \in ByteSeq /\ s.lastRead \in Nat
      /\ Len(s.unget) \in Nat /\ Len(s.got) \in Nat /\ n \in Nat /\ s.index \in 0..Size
      /\ Len(s.unget) + Len(s.got) <= s.index
  <2>1. n \in Nat
    BY SizesAre
  <2> QED BY <1>1, <2>1, SoundIs DEF Sound
<1>3. front \in ByteSeq /\ Len(front) = n
  <2> DEFINE p == Len(s.got) - n
  <2>1. p \in Nat /\ p + n = Len(s.got)
    BY <1>1, <1>2
  <2>2. front = SubSeq(s.got, p + 1, p + n)
    BY <2>1
  <2>3. p + n <= Len(s.got)
    BY <1>2, <2>1
  <2> HIDE DEF p, front, s
  <2>4. SubSeq(s.got, p + 1, p + n) \in ByteSeq /\ Len(SubSeq(s.got, p + 1, p + n)) = n
    BY <1>2, <2>1, <2>3, PartIs
  <2> QED BY <2>2, <2>4
<1> HIDE DEF front
<1>4. front \o s.unget \in ByteSeq /\ Len(front \o s.unget) = n + Len(s.unget)
  BY <1>2, <1>3, ConcatProperties DEF ByteSeq
<1>5. /\ after \in MemStates /\ after.place = s.place /\ after.got = <<>>
      /\ after.unget = front \o s.unget /\ after.index = s.index
  <2>1. s.lastRead - n \in Nat /\ <<>> \in ByteSeq
    BY <1>1, <1>2, EmptySeq DEF ByteSeq
  <2> HIDE DEF s
  <2> QED BY <1>2, <1>4, <2>1 DEF MemStates
<1> HIDE DEF after
<1>6. Sound(after)
  <2>1. Len(after.got) = 0
    BY <1>5, EmptySeq
  <2>2. Len(after.unget) = n + Len(s.unget)
    BY <1>4, <1>5
  <2>3. s.index \in Nat
    BY <1>2, SizesAre
  <2>4. (n + Len(s.unget)) + 0 <= s.index
    BY <1>1, <1>2, <2>3, Ungetting
  <2> QED BY <1>1, <1>5, <2>1, <2>2, <2>4 DEF Sound
<1>7. channel'[c] = after /\ call'.by = c /\ call'.op = "other"
      /\ Bytes(c)' = memory'[after.place] /\ Position(c)' = after.index - Len(after.unget)
  BY <1>1, ReturnsGive
<1>8. Bytes(c)' = Bytes(c)
  BY <1>1, <1>5, <1>7 DEF Bytes
<1>9. n <= Position(c) /\ Position(c)' = Position(c) - n
  <2>1. s.index \in Nat
    BY <1>2, SizesAre
  <2>2. Position(c) = s.index - Len(s.unget) /\ Position(c)' = s.index - (n + Len(s.unget))
    BY <1>4, <1>5, <1>7 DEF Position
  <2>3. n <= s.index - Len(s.unget) /\ s.index - (n + Len(s.unget)) = (s.index - Len(s.unget)) - n
    <3> DEFINE u == Len(s.unget)
               g == Len(s.got)
               i == s.index
    <3>1. i \in Nat /\ u \in Nat /\ g \in Nat /\ n \in Nat /\ n <= g /\ u + g <= i
      BY <1>1, <1>2, <2>1
    <3> HIDE DEF u, g, i
    <3>2. n <= i - u /\ i - (n + u) = (i - u) - n
      BY <3>1
    <3> QED BY <3>2 DEF u, g, i
  <2> QED BY <2>2, <2>3
<1>10. StreamStep(c)
  BY <1>5, <1>7, <1>8, <1>9, StreamSteps
<1>11. MemInv'
  <2>1. MemorySound'
    BY <1>1 DEF MemInv, MemorySound
  <2>2. n \in Int /\ ~(n < n)
    BY <1>2
  <2> QED BY <1>1, <1>6, <2>1, <2>2, ReturnsKeep
<1> QED BY <1>1, <1>7, <1>10, <1>11 DEF Goes

LEMMA ReadUngotGoes ==
  ASSUME MemInv, NEW c \in Channels, NEW n \in 1..MaxBytes, IsOpen(c), ReadUngot(c, n)
  PROVE  Goes(c)
<1> DEFINE s == channel[c]
           L == Len(s.unget)
           read == SubSeq(s.unget, 1, n)
           rest == SubSeq(s.unget, n + 1, L)
           after == [s EXCEPT !.got = read, !.unget = SubSeq(@, n + 1, Len(@)), !.lastRead = @ + n]
<1>1. Sound(s) /\ Returns(c, "other", n, n, after) /\ UNCHANGED memory /\ n <= L
  BY CallerIs DEF ReadUngot
<1>2. /\ s \in MemStates /\ s.unget \in ByteSeq /\ s.lastRead \in Nat /\ L \in Nat
      /\ n \in Nat /\ s.index \in 0..Size /\ L <= UngetSize /\ Len(s.got) \in Nat
      /\ L + Len(s.got) <= s.index
  <2>1. n \in Nat
    BY SizesAre
  <2> QED BY <1>1, <2>1, SoundIs DEF Sound
<1>3. read \in ByteSeq /\ Len(read) = n
  <2> HIDE DEF s
  <2> QED BY <1>1, <1>2, FirstPartIs
<1>4. rest \in ByteSeq /\ Len(rest) = L - n
  <2> DEFINE k == L - n
  <2>1. k \in Nat /\ n + k = L
    BY <1>1, <1>2
  <2>2. rest = SubSeq(s.unget, n + 1, n + k)
    BY <2>1
  <2>3. n + k <= L
    BY <1>2, <2>1
  <2> HIDE DEF k, rest, s
  <2>4. SubSeq(s.unget, n + 1, n + k) \in ByteSeq /\ Len(SubSeq(s.unget, n + 1, n + k)) = k
    BY <1>2, <2>1, <2>3, PartIs
  <2> QED BY <2>2, <2>4 DEF k
<1>5. after = [s EXCEPT !.got = read, !.unget = rest, !.lastRead = @ + n]
  OBVIOUS
<1> HIDE DEF after, read, rest
<1>6. /\ after \in MemStates /\ after.place = s.place /\ after.got = read
      /\ after.unget = rest /\ after.index = s.index
  <2>1. s.lastRead + n \in Nat
    BY <1>2
  <2> HIDE DEF s
  <2> QED BY <1>2, <1>3, <1>4, <1>5, <2>1 DEF MemStates
<1>7. /\ s.index \in Nat /\ L <= s.index /\ L - n \in Nat /\ L - n <= L /\ (L - n) + n <= s.index
      /\ s.index - (L - n) = (s.index - L) + n
      /\ (s.index - L) + L = s.index /\ (s.index - L) + n <= s.index
  <2>1. s.index \in Nat
    BY <1>2, SizesAre
  <2> HIDE DEF s, L
  <2> QED BY <1>1, <1>2, <2>1, Rereading
<1>8. Sound(after)
  <2>1. Len(after.got) = n /\ Len(after.unget) = L - n
    BY <1>3, <1>4, <1>6
  <2>2. L - n <= UngetSize
    <3> HIDE DEF L
    <3> QED BY <1>2, <1>7, SizesAre
  <2> QED BY <1>6, <1>7, <2>1, <2>2 DEF Sound
<1>9. channel'[c] = after /\ call'.by = c /\ call'.op = "other"
      /\ Bytes(c)' = memory'[after.place] /\ Position(c)' = after.index - Len(after.unget)
  BY <1>1, ReturnsGive
<1>10. Bytes(c)' = Bytes(c)
  BY <1>1, <1>6, <1>9 DEF Bytes
<1>11. Position(c)' = Position(c) + Len(channel'[c].got)
  <2>1. Position(c) = s.index - L /\ Position(c)' = s.index - (L - n) /\ Len(channel'[c].got) = n
    BY <1>3, <1>4, <1>6, <1>9 DEF Position
  <2> QED BY <1>7, <2>1
<1>12. ASSUME Followed(c) PROVE channel'[c].got = BytesFrom(Bytes(c), Position(c), n)
  <2> DEFINE B == Bytes(c)
             P == Position(c)
  <2>1. B \in ByteSeq /\ Len(B) = Size /\ P \in Nat /\ Size \in Nat
    BY <1>12, CallerIs, SizesAre DEF Followed
  <2>2. P = s.index - L
    BY DEF Position
  <2>3. P + L <= Len(B) /\ P + n <= Len(B)
    <3>1. s.index <= Size
      BY <1>2, SizesAre
    <3>2. P + L = s.index /\ P + n <= s.index
      BY <1>7, <2>2
    <3> HIDE DEF P, L, B, s
    <3> QED BY <1>2, <1>7, <2>1, <3>1, <3>2
  <2>4. s.unget = BytesFrom(B, P, L)
    BY <1>12 DEF Followed, UngotIsThere
  <2> HIDE DEF B, P, s, L
  <2>5. s.unget = SubSeq(B, P + 1, P + L) /\ BytesFrom(B, P, n) = SubSeq(B, P + 1, P + n)
    BY <1>2, <2>1, <2>3, <2>4, BytesFromIs
  <2>6. read = SubSeq(B, P + 1, P + n)
    BY <1>1, <1>2, <2>1, <2>3, <2>5, PartOfPart DEF read
  <2> QED BY <1>6, <1>9, <2>5, <2>6 DEF B, P
<1>13. Followed(c) => StreamStep(c)
  BY <1>9, <1>10, <1>11, <1>12, StreamSteps
<1>14. MemInv'
  <2>1. MemorySound'
    BY <1>1 DEF MemInv, MemorySound
  <2>2. n \in Int /\ ~(n < n)
    BY <1>2
  <2> QED BY <1>1, <1>8, <2>1, <2>2, ReturnsKeep
<1> QED BY <1>1, <1>9, <1>13, <1>14 DEF Goes

\* What a read finds or a write fills from the position on.
LEMMA TakenIs ==
  ASSUME MemInv, NEW c \in Channels, IsOpen(c), NEW n \in 1..MaxBytes,
         NEW at, at = channel[c].index, at < Size, NEW t, t = TakeBytes(c, n)
  PROVE  /\ t.bytes \in ByteSeq /\ Len(t.bytes) \in 1..n /\ at + Len(t.bytes) \in 0..Size
         /\ t.foundEof \in BOOLEAN /\ (Len(t.bytes) < n => t.foundEof)
         /\ Len(Bytes(c)) = Size => t.bytes = BytesFrom(Bytes(c), at, n)
<1> DEFINE k == IF n <= Size - at THEN n ELSE Size - at
           B == Bytes(c)
           O == Overlay(Zeros(Size), 0, B)
<1>1. n \in Nat /\ n # 0 /\ Size \in Nat /\ at \in Nat
  <2>1. Sound(channel[c]) /\ n \in Nat /\ n # 0 /\ Size \in Nat
    BY CallerIs, SizesAre
  <2>2. at \in 0..Size
    BY <2>1, SoundIs
  <2> QED BY <2>1, <2>2
<1>2. B \in ByteSeq /\ Len(B) <= Size
  BY CallerIs
<1>3. O \in ByteSeq /\ Len(O) = Size
  <2>1. Len(B) \in Nat /\ Zeros(Size) \in ByteSeq /\ Len(Zeros(Size)) = Size
    BY <1>2, ZerosAre, LenProperties DEF ByteSeq
  <2> DEFINE z == 0
  <2>2. z \in Nat /\ z + Len(B) <= Len(Zeros(Size))
    BY <1>1, <1>2, <2>1
  <2> HIDE DEF z, B
  <2>3. /\ Overlay(Zeros(Size), z, B) \in ByteSeq
        /\ Len(Overlay(Zeros(Size), z, B)) = Len(Zeros(Size))
    BY <1>2, <2>1, <2>2, OverlayWithin
  <2> QED BY <2>1, <2>3 DEF z
<1>4. Min({n, Size - at}) = k
  <2>1. n \in Int /\ Size - at \in Int
    BY <1>1
  <2> QED BY <2>1, MinOfTwo
<1>5. k \in 1..n /\ at + k <= Size /\ (k < n => at + n > Size)
      /\ (IF at + n <= Size THEN at + n ELSE Size) = at + k
  BY <1>1
<1>6. t.bytes = SubSeq(O, at + 1, at + k) /\ t.foundEof = (at + n > Size)
  <2> HIDE DEF k
  <2> QED BY <1>4 DEF TakeBytes, B, O
<1> HIDE DEF k, O, B
<1>7. t.bytes \in ByteSeq /\ Len(t.bytes) = k
  <2>1. k \in Nat /\ at + k <= Len(O)
    BY <1>1, <1>3, <1>5
  <2>2. SubSeq(O, at + 1, at + k) \in ByteSeq /\ Len(SubSeq(O, at + 1, at + k)) = k
    BY <1>1, <1>3, <2>1, PartIs, SMTT(30)
  <2> QED BY <1>6, <2>2
<1>8. ASSUME Len(B) = Size PROVE t.bytes = BytesFrom(B, at, n)
  <2>1. O = B
    BY <1>2, <1>8, OverlayAll DEF O
  <2>2. BytesFrom(B, at, n) = SubSeq(B, at + 1, IF at + n <= Len(B) THEN at + n ELSE Len(B))
    BY <1>1, <1>2, BytesFromIs
  <2>3. BytesFrom(B, at, n) = SubSeq(B, at + 1, at + k)
    BY <1>5, <1>8, <2>2
  <2> QED BY <1>6, <2>1, <2>3
<1>9. at + Len(t.bytes) \in 0..Size
  BY <1>1, <1>5, <1>7
<1>10. Len(t.bytes) \in 1..n
  BY <1>5, <1>7
<1>11. t.foundEof \in BOOLEAN /\ (Len(t.bytes) < n => t.foundEof)
  <2>1. (at + n > Size) \in BOOLEAN
    BY <1>1
  <2>2. t.foundEof \in BOOLEAN /\ (at + n > Size => t.foundEof)
    BY <1>6, <2>1, Zenon
  <2> QED BY <1>5, <1>7, <2>2
<1> QED BY <1>7, <1>8, <1>9, <1>10, <1>11 DEF B

LEMMA ReadMemoryGoes ==
  ASSUME MemInv, ~Careless, NEW c \in Channels, NEW n \in 1..MaxBytes, IsOpen(c),
         channel[c].unget = <<>>, ReadMemory(c, n)
  PROVE  Goes(c)
<1> DEFINE s == channel[c]
           t == TakeBytes(c, n)
           k == Len(t.bytes)
           after == [s EXCEPT !.got = t.bytes, !.index = @ + k, !.lastRead = @ + k,
                              !.foundEof = @ \/ t.foundEof]
<1>1. Sound(s) /\ ~(s.index >= Size) /\ Returns(c, "other", n, k, after) /\ UNCHANGED memory
  BY CallerIs DEF ReadMemory
<1>2. /\ s \in MemStates /\ s.lastRead \in Nat /\ n \in Nat /\ s.index \in Nat /\ s.unget = <<>>
      /\ Size \in Nat /\ s.foundEof \in BOOLEAN /\ s.index < Size
  <2>1. s.index \in 0..Size /\ s.lastRead \in Nat /\ s.foundEof \in BOOLEAN /\ s \in MemStates
    BY <1>1, SoundIs DEF Sound
  <2>2. n \in Nat /\ Size \in Nat
    BY SizesAre
  <2>3. s.index \in Nat /\ s.index < Size
    BY <1>1, <2>1, <2>2
  <2> QED BY <2>1, <2>2, <2>3
<1>3. /\ t.bytes \in ByteSeq /\ k \in 1..n /\ s.index + k \in 0..Size
      /\ t.foundEof \in BOOLEAN /\ (k < n => t.foundEof)
      /\ Len(Bytes(c)) = Size => t.bytes = BytesFrom(Bytes(c), s.index, n)
  <2> HIDE DEF t
  <2>1. t = TakeBytes(c, n)
    BY DEF t
  <2> QED BY <1>2, <2>1, TakenIs
<1> HIDE DEF t, k
<1>4. /\ after \in MemStates /\ after.place = s.place /\ after.got = t.bytes /\ after.unget = <<>>
      /\ after.index = s.index + k /\ (k < n => after.foundEof)
  <2>1. s.lastRead + k \in Nat /\ (s.foundEof \/ t.foundEof) \in BOOLEAN
    BY <1>2, <1>3
  <2> HIDE DEF s
  <2> QED BY <1>2, <1>3, <2>1 DEF MemStates
<1> HIDE DEF after
<1>5. Sound(after)
  <2>1. Len(after.unget) = 0 /\ Len(after.got) = k
    BY <1>4, EmptySeq DEF k
  <2>2. 0 <= UngetSize /\ 0 + k <= s.index + k
    BY <1>2, <1>3, SizesAre
  <2> QED BY <1>4, <2>1, <2>2 DEF Sound
<1>6. channel'[c] = after /\ call'.by = c /\ call'.op = "other"
      /\ Bytes(c)' = memory'[after.place] /\ Position(c)' = after.index - Len(after.unget)
  BY <1>1, ReturnsGive
<1>7. Bytes(c)' = Bytes(c)
  BY <1>1, <1>4, <1>6 DEF Bytes
<1>8. Position(c) = s.index /\ Position(c)' = Position(c) + Len(channel'[c].got)
  <2>1. Len(s.unget) = 0 /\ Len(after.unget) = 0
    BY <1>2, <1>4, EmptySeq
  <2>2. Position(c) = s.index - 0 /\ Position(c)' = (s.index + k) - 0 /\ Len(channel'[c].got) = k
    BY <1>4, <1>6, <2>1 DEF Position, k
  <2> QED BY <1>2, <1>3, <2>2
<1>9. Followed(c) => StreamStep(c)
  <2>1. Followed(c) => channel'[c].got = BytesFrom(Bytes(c), Position(c), n)
    BY <1>3, <1>4, <1>6, <1>8 DEF Followed
  <2> QED BY <1>6, <1>7, <1>8, <2>1, StreamSteps
<1>10. MemInv'
  <2>1. MemorySound'
    BY <1>1 DEF MemInv, MemorySound
  <2>2. n \in Int /\ k \in Int
    BY <1>2, <1>3
  <2> QED BY <1>1, <1>4, <1>5, <2>1, <2>2, ReturnsKeep
<1> QED BY <1>1, <1>6, <1>9, <1>10 DEF Goes

LEMMA ReadGoes ==
  ASSUME MemInv, ~Careless, NEW c \in Channels, NEW n \in 1..MaxBytes, Read(c, n)
  PROVE  Goes(c)
<1>1. IsOpen(c)
  BY DEF Read, Allowed
<1> QED BY <1>1, ReadUngotGoes, ReadMemoryGoes DEF Read

LEMMA WriteFails ==
  ASSUME MemInv, NEW c \in Channels, NEW n \in 1..MaxBytes, UNCHANGED memory,
         Returns(c, "other", n, -1, [channel[c] EXCEPT !.error = TRUE, !.got = <<>>])
  PROVE  Goes(c)
<1> DEFINE s == channel[c]
           after == [s EXCEPT !.error = TRUE, !.got = <<>>]
<1>1. Sound(s) /\ Returns(c, "other", n, -1, after)
  BY CallerIs
<1>2. /\ after \in MemStates /\ after.place = s.place /\ after.got = <<>> /\ after.unget = s.unget
      /\ after.index = s.index /\ after.error = TRUE
  BY <1>1, EmptySeq DEF Sound, MemStates, ByteSeq
<1> HIDE DEF after
<1>3. Sound(after)
  <2>1. Sound([s EXCEPT !.got = <<>>])
    BY <1>1, SoundIs
  <2> QED BY <1>2, <2>1 DEF Sound
<1>4. channel'[c] = after /\ call'.by = c /\ call'.op = "other"
      /\ Bytes(c)' = memory'[after.place] /\ Position(c)' = after.index - Len(after.unget)
  BY <1>1, ReturnsGive
<1>5. Bytes(c)' = Bytes(c) /\ Position(c)' = Position(c)
  BY <1>2, <1>4 DEF Bytes, Position
<1>6. StreamStep(c)
  BY <1>2, <1>4, <1>5, StreamSteps
<1>7. MemInv'
  <2>1. MemorySound'
    BY DEF MemInv, MemorySound
  <2>2. n \in Int /\ -1 \in Int
    BY SizesAre
  <2> QED BY <1>1, <1>2, <1>3, <2>1, <2>2, ReturnsKeep
<1> QED BY <1>4, <1>6, <1>7 DEF Goes

LEMMA WriteWithin ==
  ASSUME MemInv, NEW c \in Channels, NEW n \in 1..MaxBytes, IsOpen(c),
         channel[c].unget = <<>>, channel[c].index < Size, channel[c].access # "R_ONLY",
         NEW t, t = TakeBytes(c, n), NEW k, k = Len(t.bytes),
         memory' = [memory EXCEPT ![channel[c].place] =
                       Overlay(@, channel[c].index, [i \in 1..k |-> c])],
         Returns(c, "other", n, k, [AfterWrite(c, k) EXCEPT !.foundEof = @ \/ t.foundEof])
  PROVE  Goes(c)
<1> DEFINE s == channel[c]
           b == [i \in 1..k |-> c]
           next == [s EXCEPT !.index = @ + k, !.lastRead = 0, !.got = <<>>]
           after == [next EXCEPT !.foundEof = @ \/ t.foundEof]
<1>1. Sound(s) /\ Returns(c, "other", n, k, after)
  BY CallerIs DEF AfterWrite
<1>2. /\ s \in MemStates /\ n \in Nat /\ s.index \in Nat /\ s.unget = <<>>
      /\ Size \in Nat /\ s.foundEof \in BOOLEAN /\ s.place \in Places
  <2>1. s.index \in 0..Size /\ s.foundEof \in BOOLEAN /\ s \in MemStates /\ s.place \in Places
    BY <1>1, SoundIs, CallerIs DEF Sound
  <2>2. n \in Nat /\ Size \in Nat
    BY SizesAre
  <2>3. s.index \in Nat
    BY <2>1, <2>2
  <2> QED BY <2>1, <2>2, <2>3
<1>3. k \in 1..n /\ s.index + k \in 0..Size /\ t.foundEof \in BOOLEAN /\ (k < n => t.foundEof)
  BY TakenIs
<1>4. /\ next \in MemStates /\ next.place = s.place /\ next.got = <<>> /\ next.unget = <<>>
      /\ next.index = s.index + k /\ next.foundEof = s.foundEof
  <2>1. <<>> \in ByteSeq
    BY EmptySeq DEF ByteSeq
  <2> HIDE DEF s
  <2> QED BY <1>2, <1>3, <2>1 DEF MemStates
<1> HIDE DEF next
<1>5. /\ after \in MemStates /\ after.place = s.place /\ after.got = <<>> /\ after.unget = <<>>
      /\ after.index = s.index + k /\ (k < n => after.foundEof)
  <2>1. (next.foundEof \/ t.foundEof) \in BOOLEAN
    BY <1>2, <1>3, <1>4
  <2> HIDE DEF s
  <2> QED BY <1>3, <1>4, <2>1 DEF MemStates
<1> HIDE DEF after
<1>6. Sound(after)
  <2>1. Len(after.unget) = 0 /\ Len(after.got) = 0
    BY <1>5, EmptySeq
  <2>2. 0 <= UngetSize /\ 0 + 0 <= s.index + k
    BY <1>2, <1>3, SizesAre
  <2> QED BY <1>5, <2>1, <2>2 DEF Sound
<1>7. channel'[c] = after /\ call'.by = c /\ call'.op = "other"
      /\ Bytes(c)' = memory'[after.place] /\ Position(c)' = after.index - Len(after.unget)
  BY <1>1, ReturnsGive
<1>8. b \in ByteSeq /\ Len(b) = k /\ k \in Nat /\ s.index + Len(b) <= Size
  <2>1. k \in Nat /\ s.index + k <= Size
    BY <1>2, <1>3
  <2>2. b \in [1..k -> Byte]
    BY DEF Byte
  <2> HIDE DEF b
  <2> QED BY <2>1, <2>2, FromFunction DEF ByteSeq
<1> HIDE DEF b
<1>9. memory' = [memory EXCEPT ![s.place] = Overlay(@, s.index, b)]
  BY DEF b
<1>10. memory \in [Places -> ByteSeq] /\ \A p \in Places : Len(memory[p]) <= Size
  BY DEF MemInv, MemorySound
<1>11. Bytes(c)' = Overlay(Bytes(c), Position(c), b) /\ Position(c) = s.index
  <2>1. Len(s.unget) = 0
    BY <1>2, EmptySeq
  <2>2. Position(c) = s.index
    BY <1>2, <2>1 DEF Position
  <2> QED BY <1>2, <1>5, <1>7, <1>9, <1>10, <2>2 DEF Bytes
<1>12. Position(c)' = Position(c) + Len(b)
  <2>1. Len(after.unget) = 0
    BY <1>5, EmptySeq
  <2> QED BY <1>2, <1>5, <1>7, <1>8, <1>11, <2>1
<1>13. MemorySound'
  <2>1. Overlay(memory[s.place], s.index, b) \in ByteSeq
        /\ Len(Overlay(memory[s.place], s.index, b)) <= Size
    BY <1>2, <1>8, <1>10, OverlayWithin
  <2> QED BY <1>2, <1>9, <1>10, <2>1 DEF MemorySound
<1>14. StreamStep(c)
  <2>1. k \in 1..MaxBytes
    BY <1>2, <1>3, SizesAre
  <2> QED BY <1>5, <1>7, <1>11, <1>12, <2>1, StreamSteps DEF b
<1>15. MemInv'
  <2>1. n \in Int /\ k \in Int
    BY <1>2, <1>8
  <2> QED BY <1>1, <1>5, <1>6, <1>13, <2>1, ReturnsKeep
<1> QED BY <1>7, <1>14, <1>15 DEF Goes

LEMMA WriteGoes ==
  ASSUME MemInv, ~Careless, NEW c \in Channels, NEW n \in 1..MaxBytes, Write(c, n)
  PROVE  Goes(c)
<1>1. IsOpen(c) /\ channel[c].unget = <<>>
  BY DEF Write, Allowed
<1>2. CASE channel[c].access = "R_ONLY"
  BY <1>2, WriteFails DEF Write
<1>3. CASE channel[c].access # "R_ONLY"
  <2> DEFINE t == TakeBytes(c, n)
             k == Len(t.bytes)
  <2>1. /\ ~(channel[c].index >= Size)
        /\ memory' = [memory EXCEPT ![channel[c].place] =
                         Overlay(@, channel[c].index, [i \in 1..k |-> c])]
        /\ Returns(c, "other", n, k, [AfterWrite(c, k) EXCEPT !.foundEof = @ \/ t.foundEof])
    BY <1>3 DEF Write
  <2>2. channel[c].index < Size
    <3>1. channel[c].index \in 0..Size /\ Size \in Nat
      BY CallerIs, SoundIs, SizesAre
    <3> QED BY <2>1, <3>1
  <2>3. t = TakeBytes(c, n) /\ k = Len(t.bytes)
    OBVIOUS
  <2> HIDE DEF t, k
  <2> QED BY <1>1, <1>3, <2>1, <2>2, <2>3, WriteWithin
<1> QED BY <1>2, <1>3

LEMMA ClosedIsSound ==
  /\ Sound(Closed)
  /\ \A p \in Places, a \in {"R_ONLY", "RW"}, g \in Closings :
        Sound([Closed EXCEPT !.place = p, !.access = a, !.closing = g])
<1>1. Closed \in MemStates /\ Closed.unget = <<>> /\ Closed.got = <<>> /\ Closed.index = 0
  BY EmptySeq, SizesAre DEF Closed, MemStates, ByteSeq
<1>2. ASSUME NEW p \in Places, NEW a \in {"R_ONLY", "RW"}, NEW g \in Closings
      PROVE  [Closed EXCEPT !.place = p, !.access = a, !.closing = g] \in MemStates
  BY <1>1 DEF MemStates
<1>3. Len(<<>>) = 0 /\ 0 <= UngetSize /\ 0 + 0 <= 0
  BY EmptySeq, SizesAre
<1>4. Sound(Closed)
  BY <1>1, <1>3 DEF Sound
<1>5. ASSUME NEW p \in Places, NEW a \in {"R_ONLY", "RW"}, NEW g \in Closings
      PROVE  Sound([Closed EXCEPT !.place = p, !.access = a, !.closing = g])
  <2> DEFINE s == [Closed EXCEPT !.place = p, !.access = a, !.closing = g]
  <2>1. s \in MemStates /\ s.unget = <<>> /\ s.got = <<>> /\ s.index = 0
    BY <1>1, <1>2 DEF MemStates
  <2> HIDE DEF s
  <2>2. Sound(s)
    BY <1>3, <2>1 DEF Sound
  <2> QED BY <2>2 DEF s
<1> QED BY <1>4, <1>5

LEMMA CloseGoes ==
  ASSUME MemInv, NEW c \in Channels, Close(c)
  PROVE  Goes(c)
<1> DEFINE s == channel[c]
<1>1. IsOpen(c) /\ Sound(s) /\ Bytes(c) \in ByteSeq /\ Len(Bytes(c)) <= Size /\ s.place \in Places
  BY CallerIs DEF Close
<1>2. CASE Stops(c)
  <2>1. call'.by = c /\ call'.stops /\ memory' = memory
    BY <1>2 DEF Stops
  <2> QED BY <1>2, <2>1, StopsKeep DEF Goes
<1>3. CASE ~Stops(c)
  <2>1. /\ memory' = IF s.place = "name" THEN [memory EXCEPT !["name"] = Unmap(c)] ELSE memory
        /\ Returns(c, "other", 0, 0, Closed)
    BY <1>3 DEF Close
  <2>2. memory \in [Places -> ByteSeq] /\ \A p \in Places : Len(memory[p]) <= Size
    BY DEF MemInv, MemorySound
  <2>3. Unmap(c) \in ByteSeq /\ Len(Unmap(c)) <= Size /\ (s.access = "R_ONLY" => Unmap(c) = Bytes(c))
    <3>1. CASE s.access = "R_ONLY"
      BY <1>1, <3>1 DEF Unmap
    <3>2. CASE s.access # "R_ONLY"
      <4> DEFINE n == s.index
      <4>1. n \in 0..Size /\ Size \in Nat
        BY <1>1, SoundIs, SizesAre
      <4>2. n \in Nat /\ n <= Size
        BY <4>1
      <4>3. \A i \in 1..n : (IF i <= Len(Bytes(c)) THEN Bytes(c)[i] ELSE Zero) \in Byte
        <5>1. ASSUME NEW i \in 1..n, i <= Len(Bytes(c)) PROVE Bytes(c)[i] \in Byte
          <6>1. i \in 1..Len(Bytes(c))
            BY <4>2, <5>1
          <6> QED BY <1>1, <6>1, ElementOfSeq DEF ByteSeq
        <5> QED BY <5>1 DEF Byte
      <4>4. Unmap(c) = [i \in 1..n |-> IF i <= Len(Bytes(c)) THEN Bytes(c)[i] ELSE Zero]
        BY <3>2 DEF Unmap
      <4> HIDE DEF n
      <4>5. Unmap(c) \in [1..n -> Byte]
        BY <4>3, <4>4
      <4> QED BY <3>2, <4>2, <4>5, FromFunction DEF ByteSeq
    <3> QED BY <3>1, <3>2
  <2>4. MemorySound'
    BY <1>1, <2>1, <2>2, <2>3 DEF MemorySound
  <2>5. s.access = "R_ONLY" => memory' = memory
    <3>1. CASE s.place = "name" /\ s.access = "R_ONLY"
      <4>1. memory' = [memory EXCEPT !["name"] = memory["name"]]
        BY <2>1, <2>3, <3>1 DEF Bytes
      <4> QED BY <2>2, <4>1
    <3> QED BY <2>1, <3>1
  <2>6. MemInv'
    <3> DEFINE none == 0
    <3>1. none \in Int /\ ~(none < none) /\ Returns(c, "other", none, none, Closed)
      BY <2>1
    <3> HIDE DEF none
    <3> QED BY <2>4, <3>1, ClosedIsSound, ReturnsKeep
  <2>7. channel'[c] = Closed /\ call'.by = c
    BY <2>1, ReturnsGive
  <2>8. ~IsOpen(c)'
    BY <2>7 DEF IsOpen, Closed
  <2> QED BY <2>5, <2>6, <2>7, <2>8 DEF Goes
<1> QED BY <1>2, <1>3

LEMMA OpenGoes ==
  ASSUME MemInv, NEW c \in Channels, OpenPlace(c)
  PROVE  Goes(c)
<1>1. PICK a \in {"R_ONLY", "RW"}, g \in Closings, creat \in BOOLEAN, trunc \in BOOLEAN :
        \/ MemOpen(c, a, g, creat, trunc)
        \/ ShmOpenByKey(c, a, g, creat, trunc)
        \/ ShmOpenByName(c, a, g, creat, trunc)
  BY DEF OpenPlace
<1>2. memory \in [Places -> ByteSeq] /\ \A p \in Places : Len(memory[p]) <= Size
  BY DEF MemInv, MemorySound
<1>3. \E p \in Places :
        /\ memory' \in {memory, [memory EXCEPT ![p] = Zeros(Size)]}
        /\ Returns(c, "other", 0, 0, [Closed EXCEPT !.place = p, !.access = a, !.closing = g])
  BY <1>1 DEF MemOpen, ShmOpenByKey, ShmOpenByName
<1>4. PICK p \in Places :
        /\ memory' \in {memory, [memory EXCEPT ![p] = Zeros(Size)]}
        /\ Returns(c, "other", 0, 0, [Closed EXCEPT !.place = p, !.access = a, !.closing = g])
  BY <1>3
<1> DEFINE after == [Closed EXCEPT !.place = p, !.access = a, !.closing = g]
<1>5. Sound(after)
  BY ClosedIsSound
<1>6. MemorySound'
  BY <1>2, <1>4, ZerosAre, SizesAre DEF MemorySound
<1>7. Returns(c, "other", 0, 0, after)
  BY <1>4
<1> HIDE DEF after
<1>8. MemInv'
  <2> DEFINE none == 0
  <2>1. none \in Int /\ ~(none < none) /\ Returns(c, "other", none, none, after)
    BY <1>7
  <2> HIDE DEF none
  <2> QED BY <1>5, <1>6, <2>1, ReturnsKeep
<1>9. call'.by = c /\ ~IsOpen(c)
  BY <1>7, ReturnsGive DEF OpenPlace
<1> QED BY <1>8, <1>9 DEF Goes, Followed

\* Every step of one of the channels keeps the invariant and goes as it should.
LEMMA MemoryGoes ==
  ASSUME MemInv, ~Careless, MemNext
  PROVE  \E c \in Channels : Goes(c)
<1>1. PICK c \in Channels :
        \/ OpenPlace(c) \/ Close(c) \/ Rewind(c) \/ CleanError(c)
        \/ \E n \in 1..MaxBytes : Read(c, n) \/ Write(c, n) \/ UngetBytes(c, n)
        \/ \E to \in 0..(Size + 1) : SeekSet(c, to)
        \/ \E by \in {-MaxBytes, MaxBytes} : SeekCur(c, by)
  BY DEF MemNext
<1>2. ASSUME NEW to \in 0..(Size + 1), SeekSet(c, to) PROVE Goes(c)
  <2>1. to \in Int
    BY SizesAre
  <2> QED BY <1>2, <2>1, SeekSetGoes
<1>3. ASSUME NEW by \in {-MaxBytes, MaxBytes}, SeekCur(c, by) PROVE Goes(c)
  <2>1. by \in Int
    BY SizesAre
  <2> QED BY <1>3, <2>1, SeekCurGoes
<1>4. ASSUME NEW n \in 1..MaxBytes, Read(c, n) \/ Write(c, n) \/ UngetBytes(c, n) PROVE Goes(c)
  BY <1>4, ReadGoes, WriteGoes, UngetGoes
<1>5. ASSUME OpenPlace(c) \/ Close(c) \/ Rewind(c) \/ CleanError(c) PROVE Goes(c)
  BY <1>5, OpenGoes, CloseGoes, RewindGoes, CleanErrorGoes
<1> QED BY <1>1, <1>2, <1>3, <1>4, <1>5

LEMMA MemoryBegins == MemInit => MemInv
<1> SUFFICES ASSUME MemInit PROVE MemInv
  OBVIOUS
<1>1. channel \in [Channels -> MemStates] /\ \A c \in Channels : Sound(channel[c])
  <2>1. Closed \in MemStates
    BY ClosedIsSound DEF Sound
  <2> QED BY <2>1, ClosedIsSound DEF MemInit
<1>2. MemorySound
  <2>1. <<>> \in ByteSeq /\ Len(<<>>) = 0 /\ Zeros(Size) \in ByteSeq /\ Len(Zeros(Size)) = Size
    BY EmptySeq, ZerosAre DEF ByteSeq
  <2>2. 0 <= Size /\ Size <= Size
    BY SizesAre
  <2> HIDE DEF MemInit
  <2>3. memory = [p \in Places |-> IF p \in {"key", "name"} THEN <<>> ELSE Zeros(Size)]
    BY DEF MemInit
  <2> QED BY <2>1, <2>2, <2>3 DEF MemorySound
<1>3. call \in [by : Channels \cup {"none"}, op : {"seek", "other"}, short : BOOLEAN, stops : BOOLEAN]
      /\ ShortMeansEnd
  BY DEF MemInit, ShortMeansEnd
<1> QED BY <1>1, <1>2, <1>3 DEF MemInv

LEMMA MemoryTells == MemInv => MemTypeOK /\ PositionInside /\ ShortMeansEnd
<1> SUFFICES ASSUME MemInv PROVE MemTypeOK /\ PositionInside
  BY DEF MemInv
<1>1. \A p \in Places : Len(memory[p]) <= Size
  BY DEF MemInv, MemorySound
<1>2. ASSUME NEW c \in Channels
      PROVE  /\ channel[c].place \in Places \cup {"none"} /\ Len(channel[c].unget) <= UngetSize
             /\ channel[c].access \in {"R_ONLY", "RW"}
             /\ Position(c) >= 0 /\ channel[c].index <= Size
  <2>1. Sound(channel[c]) /\ Position(c) \in Nat
    BY CallerIs
  <2>2. channel[c].index \in 0..Size /\ Size \in Nat
    BY <2>1, SoundIs, SizesAre
  <2> QED BY <2>1, <2>2 DEF Sound, MemStates
<1> QED BY <1>1, <1>2 DEF MemTypeOK, PositionInside

\* The conditions of the two action properties on one step.
AsStreams ==
    \A c \in {d \in Channels : call'.by = d /\ IsOpen(d)} :
       IsOpen(c)' /\ ~call'.stops /\ Len(Bytes(c)) = Size /\ UngotIsThere(c) => StreamStep(c)

Unwritten ==
    \A c \in Channels : call'.by = c /\ IsOpen(c) /\ channel[c].access = "R_ONLY" =>
        memory' = memory

LEMMA MemoryStep ==
  ASSUME MemInv, ~Careless, [MemNext]_memVars
  PROVE  MemInv' /\ [AsStreams]_memVars /\ [Unwritten]_memVars
<1>1. CASE MemNext
  <2>1. PICK c \in Channels : Goes(c)
    BY <1>1, MemoryGoes
  <2> QED BY <2>1 DEF Goes, AsStreams, Unwritten, Followed
<1>2. CASE UNCHANGED memVars
  <2>1. MemInv'
    BY <1>2 DEF memVars, MemInv, MemorySound, ShortMeansEnd, Sound
  <2> QED BY <1>2, <2>1
<1> QED BY <1>1, <1>2

(* Whatever the size of the memory and of the blocks, and however many       *)
(* channels share it, each of them is a stream over it, stays inside, tells  *)
(* its end, and changes nothing it only reads, if callers neither seek nor   *)
(* write while bytes are ungot and do not read behind the end.               *)
THEOREM MemoryStaysAStream ==
  ASSUME ~Careless
  PROVE  MemInit /\ [][MemNext]_memVars => MemoryIsAStream
<1>1. MemInv /\ [MemNext]_memVars => MemInv' /\ [AsStreams]_memVars /\ [Unwritten]_memVars
  BY MemoryStep
<1>2. MemInit /\ [][MemNext]_memVars => []MemInv /\ [][AsStreams]_memVars /\ [][Unwritten]_memVars
  BY <1>1, MemoryBegins, PTL
<1>3. [][AsStreams]_memVars => EachIsAStream
  BY PTL DEF AsStreams, StreamStep, EachIsAStream
<1>4. [][Unwritten]_memVars => ReadersChangeNothing
  BY PTL DEF Unwritten, ReadersChangeNothing
<1>5. MemInit /\ [][MemNext]_memVars => [](MemTypeOK /\ PositionInside /\ ShortMeansEnd)
  BY <1>2, MemoryTells, PTL
<1> QED BY <1>2, <1>3, <1>4, <1>5 DEF MemoryIsAStream

-----------------------------------------------------------------------------
(* Plugins.                                                                 *)

Plugged == [name : PluginNames, from : Sources, handle : BOOLEAN]
ObjectStates == [valid : BOOLEAN, list : Seq(Plugged), current : Plugged \cup {None}, error : BOOLEAN]

\* What is used is in the list, what is not valid holds nothing, and only a
\* serializer has the error that stays.
Plugs(o) ==
    /\ object[o] \in ObjectStates
    /\ Len(object[o].list) <= MaxAdded
    /\ object[o].current = None \/ Contains(object[o].list, object[o].current)
    /\ ~object[o].valid => object[o] = Invalid
    /\ o \in PluginChannels => object[o].error = FALSE

ReferencesOf(all) == {r \in Objects \X (1..MaxAdded) : r[2] \in Opening(all[r[1]].list)}
NotOf(o, all) == {r \in ReferencesOf(all) : r[1] # o}

PluginInv ==
    /\ DOMAIN object = Objects /\ object = [o \in Objects |-> object[o]]
    /\ \A o \in Objects : Plugs(o)
    /\ installed \in BOOLEAN /\ opened = Cardinality(ReferencesOf(object))

LEMMA NamesAreTold == None \notin Plugged
BY DEF None, Plugged, Sources

-----------------------------------------------------------------------------
(* Counting references.                                                     *)

LEMMA NumbersBelowAreFinite ==
  ASSUME NEW n \in Nat, NEW set, set \subseteq 1..n
  PROVE  IsFiniteSet(set) /\ Cardinality(set) \in Nat
<1>1. IsFiniteSet(1..n)
  BY FS_Interval
<1> QED BY <1>1, FS_Subset, FS_CardinalityType

LEMMA OpeningIsFinite ==
  ASSUME NEW l \in Seq(Plugged)
  PROVE  Opening(l) \subseteq 1..Len(l) /\ IsFiniteSet(Opening(l)) /\ Cardinality(Opening(l)) \in Nat
<1>1. Opening(l) \subseteq 1..Len(l) /\ Len(l) \in Nat
  BY LenProperties DEF Opening
<1> QED BY <1>1, NumbersBelowAreFinite

\* A new entry in front moves the others on by one.
LEMMA InFront ==
  ASSUME NEW e \in Plugged, NEW l \in Seq(Plugged), NEW m, m = <<e>> \o l
  PROVE  /\ m \in Seq(Plugged) /\ Len(m) = Len(l) + 1 /\ m[1] = e
         /\ \A i \in 1..Len(l) : i + 1 \in 1..Len(m) /\ m[i + 1] = l[i]
<1> DEFINE h == <<e>>
<1>1. h \in Seq(Plugged) /\ Len(h) = 1 /\ h[1] = e /\ Len(l) \in Nat /\ m = h \o l
  BY LenProperties
<1> HIDE DEF h
<1>2. /\ m \in Seq(Plugged) /\ Len(m) = 1 + Len(l)
      /\ \A i \in 1 .. 1 + Len(l) : m[i] = IF i <= 1 THEN h[i] ELSE l[i - 1]
  BY <1>1, ConcatProperties
<1>3. m[1] = e
  BY <1>1, <1>2
<1>4. ASSUME NEW i \in 1..Len(l) PROVE i + 1 \in 1..Len(m) /\ m[i + 1] = l[i]
  <2>1. i + 1 \in 1 .. 1 + Len(l) /\ ~(i + 1 <= 1) /\ (i + 1) - 1 = i
    BY <1>1
  <2> QED BY <1>2, <2>1
<1> QED BY <1>1, <1>2, <1>3, <1>4

LEMMA OneMore ==
  ASSUME NEW e \in Plugged, NEW l \in Seq(Plugged), NEW m, m = <<e>> \o l
  PROVE  Cardinality(Opening(m)) = Cardinality(Opening(l)) + (IF e.handle THEN 1 ELSE 0)
<1>1. /\ m \in Seq(Plugged) /\ Len(m) = Len(l) + 1 /\ m[1] = e /\ Len(l) \in Nat
      /\ \A i \in 1..Len(l) : i + 1 \in 1..Len(m) /\ m[i + 1] = l[i]
  BY InFront, LenProperties
<1>2. DOMAIN l = 1..Len(l) /\ DOMAIN m = 1..Len(m)
  BY <1>1, LenProperties
<1> DEFINE old == Opening(l)
           moved == {i + 1 : i \in old}
           f == [i \in old |-> i + 1]
<1>3. IsFiniteSet(old) /\ old \subseteq 1..Len(l) /\ Cardinality(old) \in Nat
  BY OpeningIsFinite
<1>4. f \in Bijection(old, moved)
  <2>1. f \in [old -> moved]
    OBVIOUS
  <2>2. \A i, j \in old : f[i] = f[j] => i = j
    BY <1>1, <1>3
  <2>3. \A k \in moved : \E i \in old : f[i] = k
    OBVIOUS
  <2> HIDE DEF f, moved
  <2> QED BY <2>1, <2>2, <2>3 DEF Bijection, Injection, Surjection, IsInjective
<1>5. IsFiniteSet(moved) /\ Cardinality(moved) = Cardinality(old)
  <2>1. ExistsBijection(old, moved)
    BY <1>4 DEF ExistsBijection
  <2> HIDE DEF moved, old
  <2> QED BY <1>3, <2>1, FS_Bijection
<1>6. 1 \notin moved
  BY <1>1, <1>3
<1>7. Opening(m) = IF e.handle THEN moved \cup {1} ELSE moved
  <2>1. ASSUME NEW k \in Opening(m), k # 1 PROVE k \in moved
    <3>1. k \in 1..Len(m) /\ m[k].handle
      BY <1>2, <2>1 DEF Opening
    <3> DEFINE i == k - 1
    <3>2. i \in 1..Len(l) /\ i + 1 = k
      BY <1>1, <2>1, <3>1
    <3> HIDE DEF i
    <3>3. l[i].handle
      BY <1>1, <3>1, <3>2
    <3> QED BY <1>2, <3>2, <3>3 DEF Opening
  <2>2. ASSUME NEW k \in moved PROVE k \in Opening(m)
    <3>1. PICK i \in old : k = i + 1
      OBVIOUS
    <3>2. i \in 1..Len(l) /\ l[i].handle
      BY <1>2 DEF Opening
    <3> QED BY <1>1, <1>2, <3>1, <3>2 DEF Opening
  <2>3. 1 \in Opening(m) <=> e.handle
    <3>1. 1 \in 1..Len(m)
      BY <1>1
    <3> QED BY <1>1, <1>2, <3>1 DEF Opening
  <2>4. e.handle \in BOOLEAN /\ \A k \in moved : k # 1
    BY <1>6 DEF Plugged
  <2> HIDE DEF moved
  <2>5. CASE e.handle
    <3>1. \A k : k \in Opening(m) <=> k \in moved \cup {1}
      BY <2>1, <2>2, <2>3, <2>5
    <3>2. Opening(m) = moved \cup {1}
      BY <3>1
    <3> QED BY <2>5, <3>2
  <2>6. CASE ~e.handle
    <3>1. \A k : k \in Opening(m) <=> k \in moved
      BY <2>1, <2>2, <2>3, <2>4, <2>6
    <3>2. Opening(m) = moved
      BY <3>1
    <3> QED BY <2>6, <3>2
  <2> QED BY <2>5, <2>6
<1> HIDE DEF moved, old
<1>8. CASE e.handle
  <2>1. Cardinality(moved \cup {1}) = Cardinality(moved) + 1
    BY <1>5, <1>6, FS_AddElement
  <2> QED BY <1>5, <1>7, <1>8, <2>1 DEF old
<1>9. CASE ~e.handle
  BY <1>3, <1>5, <1>7, <1>9 DEF old
<1> QED BY <1>8, <1>9


\* What all objects hold: what one holds, and what the others do.
LEMMA OneAndTheOthers ==
  ASSUME NEW all, NEW o \in Objects, Opening(all[o].list) \subseteq 1..MaxAdded
  PROVE  /\ Cardinality(NotOf(o, all)) \in Nat
         /\ Cardinality(ReferencesOf(all)) = Cardinality(NotOf(o, all)) + Cardinality(Opening(all[o].list))
<1> DEFINE old == Opening(all[o].list)
           own == {o} \X old
           f == [i \in old |-> <<o, i>>]
           rest == NotOf(o, all)
<1>1. MaxAdded \in Nat /\ IsFiniteSet(Objects)
  BY PluginAssumption
<1>2. IsFiniteSet(old) /\ Cardinality(old) \in Nat
  BY <1>1, NumbersBelowAreFinite
<1>3. f \in Bijection(old, own)
  <2>1. f \in [old -> own]
    OBVIOUS
  <2>2. \A i, j \in old : f[i] = f[j] => i = j
    OBVIOUS
  <2>3. \A k \in own : \E i \in old : f[i] = k
    OBVIOUS
  <2> HIDE DEF f, own
  <2> QED BY <2>1, <2>2, <2>3 DEF Bijection, Injection, Surjection, IsInjective
<1>4. IsFiniteSet(own) /\ Cardinality(own) = Cardinality(old)
  <2>1. ExistsBijection(old, own)
    BY <1>3 DEF ExistsBijection
  <2> HIDE DEF own, old
  <2> QED BY <1>2, <2>1, FS_Bijection
<1>5. IsFiniteSet(rest) /\ Cardinality(rest) \in Nat
  <2>1. IsFiniteSet(1..MaxAdded)
    BY <1>1, FS_Interval
  <2>2. IsFiniteSet(Objects \X (1..MaxAdded))
    BY <1>1, <2>1, FS_Product
  <2>3. rest \subseteq Objects \X (1..MaxAdded)
    BY DEF NotOf, ReferencesOf
  <2> QED BY <2>2, <2>3, FS_Subset, FS_CardinalityType
<1>6. own \cup rest = ReferencesOf(all)
  <2>1. ASSUME NEW r \in ReferencesOf(all) PROVE r \in own \cup rest
    <3>1. r \in Objects \X (1..MaxAdded) /\ r[2] \in Opening(all[r[1]].list)
      BY DEF ReferencesOf
    <3>2. r = <<r[1], r[2]>>
      BY <3>1
    <3>3. CASE r[1] = o
      BY <3>1, <3>2, <3>3
    <3>4. CASE r[1] # o
      BY <3>4 DEF NotOf
    <3> QED BY <3>3, <3>4
  <2>2. ASSUME NEW r \in own PROVE r \in ReferencesOf(all)
    BY DEF ReferencesOf
  <2>3. rest \subseteq ReferencesOf(all)
    BY DEF NotOf
  <2> HIDE DEF own, rest
  <2> QED BY <2>1, <2>2, <2>3
<1>7. own \cap rest = {}
  BY DEF NotOf
<1> HIDE DEF own, rest, old
<1>8. Cardinality(own \cup rest) = Cardinality(own) + Cardinality(rest)
  <2>1. Cardinality(own \cup rest) = Cardinality(own) + Cardinality(rest) - Cardinality(own \cap rest)
    BY <1>4, <1>5, FS_Union
  <2>2. Cardinality({}) = 0
    BY FS_EmptySet
  <2> QED BY <1>2, <1>4, <1>5, <1>7, <2>1, <2>2
<1>9. Cardinality(rest) \in Nat /\ Cardinality(ReferencesOf(all)) = Cardinality(rest) + Cardinality(old)
  <2> DEFINE a == Cardinality(own)
             b == Cardinality(rest)
  <2>1. Cardinality(ReferencesOf(all)) = a + b
    BY ONLY <1>6, <1>8, Zenon
  <2>2. a = Cardinality(old)
    BY <1>4
  <2>3. b \in Nat /\ Cardinality(old) \in Nat
    BY <1>2, <1>5
  <2> HIDE DEF a, b
  <2>4. Cardinality(ReferencesOf(all)) = b + Cardinality(old)
    BY ONLY <2>1, <2>2, <2>3
  <2> QED BY <2>3, <2>4 DEF b
<1> QED BY ONLY <1>9 DEF old, rest

\* A change of one object changes the references by its own.
LEMMA OneChanges ==
  ASSUME NEW o \in Objects, PluginInv, DOMAIN object' = Objects,
         \A p \in Objects : p # o => object'[p] = object[p],
         object'[o].list \in Seq(Plugged), Len(object'[o].list) <= MaxAdded
  PROVE  /\ Cardinality(Opening(object'[o].list)) \in Nat
         /\ Cardinality(Opening(object[o].list)) \in Nat
         /\ Cardinality(ReferencesOf(object')) + Cardinality(Opening(object[o].list))
              = opened + Cardinality(Opening(object'[o].list))
<1>1. MaxAdded \in Nat
  BY PluginAssumption
<1>2. object[o].list \in Seq(Plugged) /\ Len(object[o].list) <= MaxAdded
  BY DEF PluginInv, Plugs, ObjectStates
<1>3. /\ Opening(object[o].list) \subseteq 1..Len(object[o].list)
      /\ Cardinality(Opening(object[o].list)) \in Nat
  BY <1>2, OpeningIsFinite
<1>4. /\ Opening(object'[o].list) \subseteq 1..Len(object'[o].list)
      /\ Cardinality(Opening(object'[o].list)) \in Nat
  BY OpeningIsFinite
<1>5. Len(object[o].list) \in Nat /\ Len(object'[o].list) \in Nat
  BY <1>2, LenProperties
<1>6. Opening(object[o].list) \subseteq 1..MaxAdded
  BY <1>1, <1>2, <1>3, <1>5
<1>7. Opening(object'[o].list) \subseteq 1..MaxAdded
  BY <1>1, <1>4, <1>5
<1>8. /\ Cardinality(NotOf(o, object)) \in Nat
      /\ Cardinality(ReferencesOf(object)) = Cardinality(NotOf(o, object)) + Cardinality(Opening(object[o].list))
  BY <1>6, OneAndTheOthers
<1>9. Cardinality(ReferencesOf(object')) = Cardinality(NotOf(o, object')) + Cardinality(Opening(object'[o].list))
  BY <1>7, OneAndTheOthers
<1>10. NotOf(o, object) = NotOf(o, object')
  <2>1. \A r \in Objects \X (1..MaxAdded) : r[1] # o => object'[r[1]] = object[r[1]]
    OBVIOUS
  <2> QED BY <2>1 DEF NotOf, ReferencesOf
<1>11. opened = Cardinality(ReferencesOf(object))
  BY DEF PluginInv
<1> DEFINE a == Cardinality(Opening(object[o].list))
           b == Cardinality(Opening(object'[o].list))
           c == Cardinality(NotOf(o, object))
<1>12. a \in Nat /\ b \in Nat /\ c \in Nat /\ opened = c + a /\ Cardinality(ReferencesOf(object')) = c + b
  BY <1>3, <1>4, <1>8, <1>9, <1>10, <1>11
<1> HIDE DEF a, b, c
<1>13. Cardinality(ReferencesOf(object')) + a = opened + b
  BY <1>12
<1> QED BY <1>12, <1>13 DEF a, b

-----------------------------------------------------------------------------
(* Looking for a plugin.                                                    *)

LEMMA LeastOfNumbers ==
  ASSUME NEW set \in SUBSET Nat, set # {}
  PROVE  \E least \in set : \A x \in set : least <= x
<1>1. PICK least \in set : \A x \in set : ~(<<x, least>> \in OpToRel(<, Nat))
  BY NatLessThanWellFounded, WFMin
<1>2. ASSUME NEW x \in set PROVE least <= x
  <2>1. x \in Nat /\ least \in Nat /\ ~(x < least)
    BY <1>1 DEF OpToRel
  <2> QED BY <2>1
<1> QED BY <1>2

\* Nothing in the list goes by that name.
Missing(list, name) == \A i \in 1..Len(list) : SameInList[list[i].name] # SameInList[name]

\* An entry that is the first one of its name.
FirstIn(list, e, i) ==
    /\ i \in 1..Len(list) /\ list[i] = e
    /\ \A j \in 1..(i - 1) : SameInList[list[j].name] # SameInList[e.name]

LEMMA FindIs ==
  ASSUME PluginInv, NEW o \in Objects, NEW name \in PluginNames
  PROVE  \/ Find(o, name) = None /\ Missing(object[o].list, name)
         \/ /\ Find(o, name) \in Plugged
            /\ \E i \in 1..Len(object[o].list) : FirstIn(object[o].list, Find(o, name), i)
<1> DEFINE list == object[o].list
           found == {i \in 1..Len(list) : SameInList[list[i].name] = SameInList[name]}
<1>1. list \in Seq(Plugged) /\ Len(list) \in Nat
  BY LenProperties DEF PluginInv, Plugs, ObjectStates
<1>2. Find(o, name) = IF found = {} THEN None ELSE list[Min(found)]
  BY DEF Find
<1>3. CASE found = {}
  BY <1>2, <1>3 DEF Missing
<1>4. CASE found # {}
  <2> DEFINE i == Min(found)
  <2>1. i \in found /\ \A x \in found : i <= x
    <3>1. found \in SUBSET Nat
      BY <1>1
    <3> HIDE DEF found
    <3>2. \E least \in found : \A x \in found : least <= x
      BY <1>4, <3>1, LeastOfNumbers
    <3> QED BY <3>2 DEF Min
  <2>2. Find(o, name) = list[i]
    BY <1>2, <1>4
  <2> HIDE DEF i
  <2>3. i \in 1..Len(list) /\ list[i] \in Plugged
    BY <1>1, <2>1, ElementOfSeq
  <2>4. ASSUME NEW j \in 1..(i - 1) PROVE SameInList[list[j].name] # SameInList[list[i].name]
    <3>1. j \in 1..Len(list) /\ ~(i <= j)
      BY <1>1, <2>3
    <3>2. j \notin found
      BY <2>1, <3>1
    <3>3. SameInList[list[i].name] = SameInList[name]
      BY <2>1
    <3> QED BY <3>1, <3>2, <3>3
  <2> HIDE DEF list, found
  <2>5. FirstIn(list, list[i], i)
    BY <2>3, <2>4 DEF FirstIn
  <2> QED BY <2>2, <2>3, <2>5 DEF list
<1> QED BY <1>3, <1>4

LEMMA LoadIs ==
  ASSUME NEW name \in PluginNames
  PROVE  \/ Load(name).entry = None /\ Load(name).opens = 0
         \/ /\ Load(name).entry \in Plugged /\ Load(name).entry.name = name
            /\ Load(name).opens = IF Load(name).entry.handle THEN 1 ELSE 0
<1>1. \A from \in Sources, handle \in BOOLEAN :
        /\ Entry(name, from, handle) \in Plugged
        /\ Entry(name, from, handle).name = name /\ Entry(name, from, handle).handle = handle
  BY DEF Entry, Plugged
<1>2. CASE name \in BuiltIn
  BY <1>1, <1>2 DEF Load, Sources
<1>3. CASE name \notin BuiltIn /\ name \in Symbols
  BY <1>1, <1>3 DEF Load, Sources
<1>4. CASE name \notin BuiltIn /\ name \notin Symbols
  BY <1>1, <1>4 DEF Load, Sources
<1> QED BY <1>2, <1>3, <1>4

\* The three ways a search ends.
Had(o, s) ==
    /\ s.entry \in Plugged /\ s.list = object[o].list /\ s.opens = 0
    /\ \E i \in 1..Len(s.list) : FirstIn(s.list, s.entry, i)
HasNot(o, s) == s.entry = None /\ s.list = object[o].list /\ s.opens = 0
Loaded(o, s) ==
    /\ s.entry \in Plugged /\ s.list = <<s.entry>> \o object[o].list
    /\ s.opens = IF s.entry.handle THEN 1 ELSE 0
    /\ Missing(object[o].list, s.entry.name)

LEMMA SearchIs ==
  ASSUME PluginInv, NEW o \in Objects, NEW name \in PluginNames
  PROVE  Had(o, Search(o, name)) \/ HasNot(o, Search(o, name)) \/ Loaded(o, Search(o, name))
<1> DEFINE found == Find(o, name)
           loaded == Load(name)
           s == Search(o, name)
<1>1. CASE found # None
  <2>1. s.entry = found /\ s.list = object[o].list /\ s.opens = 0
    BY <1>1 DEF Search
  <2>2. Had(o, s)
    BY <1>1, <2>1, FindIs DEF Had
  <2> QED BY <2>2
<1>2. CASE found = None
  <2>1. Missing(object[o].list, name)
    BY <1>2, FindIs, NamesAreTold
  <2>2. /\ s.entry = loaded.entry /\ s.opens = loaded.opens
        /\ s.list = IF loaded.entry = None THEN object[o].list ELSE <<loaded.entry>> \o object[o].list
    BY <1>2 DEF Search
  <2> HIDE DEF s
  <2>3. CASE loaded.entry = None
    BY <2>2, <2>3, LoadIs, NamesAreTold DEF HasNot, s
  <2>4. CASE loaded.entry # None
    <3>1. loaded.entry \in Plugged /\ loaded.entry.name = name
          /\ loaded.opens = IF loaded.entry.handle THEN 1 ELSE 0
      BY <2>4, LoadIs
    <3> HIDE DEF loaded
    <3>2. Loaded(o, s)
      BY <2>1, <2>2, <2>4, <3>1 DEF Loaded
    <3> QED BY <3>2 DEF s
  <2> QED BY <2>3, <2>4
<1> QED BY <1>1, <1>2

-----------------------------------------------------------------------------
(* What a step does to an object.                                           *)

ComesToUse(o) ==
    object'[o].current \notin {object[o].current, None} =>
        \A e \in Range(object'[o].list) : object'[o].current = e => Newest(o, e)'
ErrorsKeep(o) ==
    object'[o].valid /\ object'[o].error # object[o].error =>
        /\ object'[o].current = object[o].current
        /\ object'[o].list = object[o].list /\ opened' = opened
StaysFound(o) ==
    object[o].valid /\ object'[o].valid =>
        \A e \in Range(object[o].list) :
            \/ Newest(o, e) => Newest(o, e)'
            \/ object'[o].list[1].from = "user"
GoesWell(o) == ComesToUse(o) /\ ErrorsKeep(o) /\ StaysFound(o)

LEMMA QuietlyWell ==
  ASSUME NEW o, object'[o] = object[o]
  PROVE  GoesWell(o)
BY DEF GoesWell, ComesToUse, ErrorsKeep, StaysFound, Newest

\* Only one object changes, and holds together.
LEMMA OneIs ==
  ASSUME PluginInv, NEW o \in Objects, NEW new \in ObjectStates,
         object' = [object EXCEPT ![o] = new],
         Len(new.list) <= MaxAdded,
         new.current = None \/ Contains(new.list, new.current),
         ~new.valid => new = Invalid,
         o \in PluginChannels => new.error = FALSE,
         installed' \in BOOLEAN,
         opened' + Cardinality(Opening(object[o].list)) = opened + Cardinality(Opening(new.list)),
         opened' \in Int
  PROVE  PluginInv' /\ object'[o] = new /\ \A p \in Objects : p # o => object'[p] = object[p]
<1>1. /\ object'[o] = new /\ DOMAIN object' = Objects /\ object' = [p \in Objects |-> object'[p]]
      /\ \A p \in Objects : p # o => object'[p] = object[p]
  BY DEF PluginInv
<1>2. ASSUME NEW p \in Objects PROVE Plugs(p)'
  <2>1. CASE p = o
    BY <1>1, <2>1 DEF Plugs
  <2>2. CASE p # o
    <3>1. Plugs(p) /\ object'[p] = object[p]
      BY <1>1, <2>2 DEF PluginInv
    <3> QED BY <3>1 DEF Plugs
  <2> QED BY <2>1, <2>2
<1>3. opened' = Cardinality(ReferencesOf(object'))
  <2>1. new.list \in Seq(Plugged)
    BY DEF ObjectStates
  <2>2. /\ Cardinality(Opening(new.list)) \in Nat
        /\ Cardinality(Opening(object[o].list)) \in Nat
        /\ Cardinality(ReferencesOf(object')) + Cardinality(Opening(object[o].list))
             = opened + Cardinality(Opening(new.list))
    BY <1>1, <2>1, OneChanges
  <2> DEFINE a == Cardinality(Opening(object[o].list))
             b == Cardinality(Opening(new.list))
             c == Cardinality(ReferencesOf(object'))
  <2>3. c \in Int
    <3>1. object'[o].list \in Seq(Plugged) /\ Len(object'[o].list) <= MaxAdded
      BY <1>1, <2>1
    <3>2. Opening(object'[o].list) \subseteq 1..Len(object'[o].list) /\ Len(object'[o].list) \in Nat
      BY <3>1, OpeningIsFinite, LenProperties
    <3>3. Opening(object'[o].list) \subseteq 1..MaxAdded
      BY <3>1, <3>2, PluginAssumption
    <3>4. c = Cardinality(NotOf(o, object')) + Cardinality(Opening(object'[o].list))
          /\ Cardinality(NotOf(o, object')) \in Nat
      BY <3>3, OneAndTheOthers
    <3>5. Cardinality(Opening(object'[o].list)) \in Nat
      BY <3>1, OpeningIsFinite
    <3> HIDE DEF c
    <3> QED BY ONLY <3>4, <3>5
  <2> HIDE DEF a, b, c
  <2>4. opened' = c
    BY <2>2, <2>3 DEF a, b, c
  <2> QED BY <2>4 DEF c
<1> QED BY <1>1, <1>2, <1>3 DEF PluginInv

LEMMA WhatItIs ==
  ASSUME PluginInv, NEW o \in Objects
  PROVE  /\ object[o] \in ObjectStates /\ Plugs(o) /\ opened \in Nat /\ installed \in BOOLEAN
         /\ object[o].list \in Seq(Plugged) /\ Len(object[o].list) \in Nat
         /\ Cardinality(Opening(object[o].list)) \in Nat
         /\ Cardinality(Opening(object[o].list)) <= opened
<1>1. object[o] \in ObjectStates /\ Plugs(o) /\ installed \in BOOLEAN /\ object[o].list \in Seq(Plugged)
  BY DEF PluginInv, Plugs, ObjectStates
<1>2. /\ Len(object[o].list) \in Nat /\ Cardinality(Opening(object[o].list)) \in Nat
      /\ Opening(object[o].list) \subseteq 1..Len(object[o].list)
  BY <1>1, OpeningIsFinite, LenProperties
<1>3. Opening(object[o].list) \subseteq 1..MaxAdded
  BY <1>1, <1>2, PluginAssumption DEF Plugs
<1> DEFINE a == Cardinality(Opening(object[o].list))
           b == Cardinality(NotOf(o, object))
<1>4. b \in Nat /\ opened = b + a
  BY <1>3, OneAndTheOthers DEF PluginInv
<1>5. a \in Nat
  BY <1>2
<1> HIDE DEF a, b
<1>6. opened \in Nat /\ a <= opened
  BY ONLY <1>4, <1>5
<1> QED BY <1>1, <1>2, <1>6 DEF a

LEMMA InvalidIs ==
  /\ Invalid \in ObjectStates /\ [Invalid EXCEPT !.valid = TRUE] \in ObjectStates
  /\ Invalid.list = <<>> /\ Len(Invalid.list) = 0 /\ Opening(Invalid.list) = {}
  /\ Cardinality(Opening(Invalid.list)) = 0
<1>1. <<>> \in Seq(Plugged) /\ Len(<<>>) = 0 /\ Opening(<<>>) = {}
  BY LenProperties DEF Opening
<1>2. Cardinality({}) = 0
  BY FS_EmptySet
<1>3. Invalid.list = <<>>
  BY DEF Invalid
<1>4. Invalid \in ObjectStates
  <2> DEFINE used == Plugged \cup {None}
  <2>1. None \in used
    OBVIOUS
  <2> HIDE DEF used
  <2> QED BY <1>1, <2>1 DEF Invalid, ObjectStates, used
<1>5. [Invalid EXCEPT !.valid = TRUE] \in ObjectStates
  BY <1>4 DEF ObjectStates
<1> QED BY <1>1, <1>2, <1>3, <1>4, <1>5

\* IOChannel_init, Serialize_init: an object that holds nothing yet.
LEMMA InitKeeps ==
  ASSUME PluginInv, NEW o \in Objects, ObjectInit(o)
  PROVE  PluginInv' /\ \A p \in Objects : GoesWell(p)
<1> DEFINE new == [Invalid EXCEPT !.valid = TRUE]
<1>1. /\ ~object[o].valid /\ object' = [object EXCEPT ![o] = new] /\ opened' = opened
      /\ installed' = installed
  BY DEF ObjectInit
<1>2. object[o] = Invalid
  BY <1>1 DEF PluginInv, Plugs
<1>3. /\ new \in ObjectStates /\ new.list = <<>> /\ new.current = None /\ new.valid /\ new.error = FALSE
      /\ Len(new.list) <= MaxAdded
  BY InvalidIs, PluginAssumption DEF Invalid
<1>4. opened \in Nat /\ installed \in BOOLEAN
  BY WhatItIs
<1>5. /\ opened' + Cardinality(Opening(object[o].list)) = opened + Cardinality(Opening(new.list))
      /\ opened' \in Int
  BY <1>1, <1>2, <1>3, <1>4, InvalidIs
<1>6. Invalid.current = None /\ Invalid.error = FALSE
  BY DEF Invalid
<1> HIDE DEF new
<1>7. PluginInv' /\ object'[o] = new /\ \A p \in Objects : p # o => object'[p] = object[p]
  BY <1>1, <1>3, <1>4, <1>5, OneIs
<1>8. GoesWell(o)
  <2>1. object'[o].current = None /\ object'[o].error = object[o].error
    BY <1>2, <1>3, <1>6, <1>7
  <2> QED BY <1>1, <2>1 DEF GoesWell, ComesToUse, ErrorsKeep, StaysFound
<1> QED BY <1>7, <1>8, QuietlyWell

\* IOChannel_clear, Serialize_clear: every entry gives back what it opened.
LEMMA ClearKeeps ==
  ASSUME PluginInv, NEW o \in Objects, ObjectClear(o)
  PROVE  PluginInv' /\ \A p \in Objects : GoesWell(p)
<1> DEFINE a == Cardinality(Opening(object[o].list))
           none == Cardinality(Opening(Invalid.list))
<1>1. /\ object' = [object EXCEPT ![o] = Invalid] /\ opened' = opened - a /\ installed' = installed
  BY DEF ObjectClear
<1>2. opened \in Nat /\ installed \in BOOLEAN /\ a \in Nat /\ a <= opened
  BY WhatItIs
<1>3. none = 0
  BY InvalidIs
<1>4. Len(Invalid.list) <= MaxAdded
  BY InvalidIs, PluginAssumption
<1> HIDE DEF a, none
<1>5. opened' + a = opened + none /\ opened' \in Int
  BY <1>1, <1>2, <1>3
<1>6. Invalid.current = None /\ Invalid.error = FALSE /\ Invalid.valid = FALSE
  BY DEF Invalid
<1>7. PluginInv' /\ object'[o] = Invalid /\ \A p \in Objects : p # o => object'[p] = object[p]
  BY <1>1, <1>2, <1>4, <1>5, <1>6, InvalidIs, OneIs DEF a, none
<1>8. GoesWell(o)
  BY <1>6, <1>7 DEF GoesWell, ComesToUse, ErrorsKeep, StaysFound
<1> QED BY <1>7, <1>8, QuietlyWell

\* An entry in front of a list leaves those found there found, unless it goes by
\* their name.
LEMMA StillFirst ==
  ASSUME NEW e \in Plugged, NEW l \in Seq(Plugged), NEW m, m = <<e>> \o l, Missing(l, e.name),
         NEW i, NEW x, FirstIn(l, x, i)
  PROVE  FirstIn(m, x, i + 1)
<1>1. /\ m[1] = e /\ Len(m) = Len(l) + 1 /\ Len(l) \in Nat
      /\ \A j \in 1..Len(l) : j + 1 \in 1..Len(m) /\ m[j + 1] = l[j]
  BY InFront, LenProperties
<1>2. i \in 1..Len(l) /\ l[i] = x
  BY DEF FirstIn
<1>3. ASSUME NEW j \in 1..((i + 1) - 1) PROVE SameInList[m[j].name] # SameInList[x.name]
  <2>1. CASE j = 1
    BY <1>1, <1>2, <2>1 DEF Missing
  <2>2. CASE j # 1
    <3> DEFINE k == j - 1
    <3>1. k \in 1..(i - 1) /\ k \in 1..Len(l) /\ k + 1 = j
      BY <1>1, <1>2, <2>2
    <3> HIDE DEF k
    <3>2. m[j] = l[k]
      BY <1>1, <3>1
    <3> QED BY <3>1, <3>2 DEF FirstIn
  <2> QED BY <2>1, <2>2
<1>4. i + 1 \in 1..Len(m) /\ m[i + 1] = x
  BY <1>1, <1>2
<1> QED BY <1>3, <1>4 DEF FirstIn

LEMMA NewestIs ==
  ASSUME NEW o, NEW e, object[o].list \in Seq(Plugged)
  PROVE  Newest(o, e) <=> \E i \in 1..Len(object[o].list) : FirstIn(object[o].list, e, i)
<1>1. DOMAIN object[o].list = 1..Len(object[o].list)
  BY LenProperties
<1> QED BY <1>1 DEF Newest, FirstIn

LEMMA NewestWillBe ==
  ASSUME NEW o, NEW e, object'[o].list \in Seq(Plugged)
  PROVE  Newest(o, e)' <=> \E i \in 1..Len(object'[o].list) : FirstIn(object'[o].list, e, i)
<1>1. DOMAIN object'[o].list = 1..Len(object'[o].list)
  BY LenProperties
<1> QED BY <1>1 DEF Newest, FirstIn

\* Three fields of one object set one by one, and all at once.
OneByOne(f, o, l, u, x) == [f EXCEPT ![o].list = l, ![o].current = u, ![o].error = x]
AtOnce(f, o, v, l, u, x) == [f EXCEPT ![o] = [valid |-> v, list |-> l, current |-> u, error |-> x]]

LEMMA SetsThree ==
  ASSUME NEW f, NEW o \in DOMAIN f, NEW v, NEW l, NEW u, NEW x, NEW l0, NEW u0, NEW x0,
         f[o] = [valid |-> v, list |-> l0, current |-> u0, error |-> x0]
  PROVE  OneByOne(f, o, l, u, x) = AtOnce(f, o, v, l, u, x)
<1> DEFINE g == [f EXCEPT ![o] = [@ EXCEPT !.list = l]]
           h == [g EXCEPT ![o] = [@ EXCEPT !.current = u]]
           k == [h EXCEPT ![o] = [@ EXCEPT !.error = x]]
           m == [f EXCEPT ![o].list = l, ![o].current = u, ![o].error = x]
           n == [f EXCEPT ![o] = [valid |-> v, list |-> l, current |-> u, error |-> x]]
<1>1. g[o] = [valid |-> v, list |-> l, current |-> u0, error |-> x0] /\ DOMAIN g = DOMAIN f
  OBVIOUS
<1>2. m = k
  OBVIOUS
<1>3. g = [p \in DOMAIN f |-> IF p = o THEN g[o] ELSE f[p]]
  OBVIOUS
<1> HIDE DEF g
<1>4. h[o] = [valid |-> v, list |-> l, current |-> u, error |-> x0] /\ DOMAIN h = DOMAIN f
  BY <1>1
<1>5. h = [p \in DOMAIN f |-> IF p = o THEN h[o] ELSE f[p]]
  BY <1>1, <1>3
<1> HIDE DEF h
<1>6. k[o] = [valid |-> v, list |-> l, current |-> u, error |-> x] /\ DOMAIN k = DOMAIN f
  BY <1>4
<1>7. k = [p \in DOMAIN f |-> IF p = o THEN k[o] ELSE f[p]]
  BY <1>4, <1>5
<1>8. n = [p \in DOMAIN f |-> IF p = o THEN k[o] ELSE f[p]]
  BY <1>6
<1> HIDE DEF k, m, n
<1>9. m = n
  BY <1>2, <1>7, <1>8
<1> QED BY <1>9 DEF m, n, OneByOne, AtOnce

\* Once a search has ended in one of its three ways, what the caller makes of it
\* keeps the list in order.
LEMMA FindsKeeps ==
  ASSUME PluginInv, NEW o \in Objects, NEW name \in PluginNames, NEW uses, NEW error \in BOOLEAN,
         Finds(o, name, uses, error),
         uses = object[o].current \/ uses = Search(o, name).entry,
         o \in PluginChannels => error = FALSE,
         error # object[o].error => Search(o, name).entry = None /\ uses = object[o].current
  PROVE  PluginInv' /\ \A p \in Objects : GoesWell(p)
<1> DEFINE s == Search(o, name)
           old == object[o]
           new == [valid |-> TRUE, list |-> s.list, current |-> uses, error |-> error]
           a == Cardinality(Opening(old.list))
<1>1. /\ old \in ObjectStates /\ Plugs(o) /\ opened \in Nat /\ installed \in BOOLEAN
      /\ old.list \in Seq(Plugged) /\ Len(old.list) \in Nat /\ a \in Nat
  BY WhatItIs
<1>2. /\ old.valid /\ Len(s.list) <= MaxAdded /\ opened' = opened + s.opens /\ installed' = installed
      /\ object' = [object EXCEPT ![o].list = s.list, ![o].current = uses, ![o].error = error]
  BY DEF Finds
<1>3. object' = [object EXCEPT ![o] = new]
  <2>1. o \in DOMAIN object
    BY DEF PluginInv
  <2> DEFINE list == s.list
             v == old.valid
  <2>2. object' = [object EXCEPT ![o].list = list, ![o].current = uses, ![o].error = error]
    BY <1>2
  <2>3. object[o] = [valid |-> v, list |-> old.list, current |-> old.current, error |-> old.error]
    BY <1>1 DEF ObjectStates
  <2>4. v = TRUE
    BY <1>1, <1>2 DEF ObjectStates
  <2> HIDE DEF s, old, list, v
  <2>5. OneByOne(object, o, list, uses, error) = AtOnce(object, o, v, list, uses, error)
    BY ONLY <2>1, <2>3, SetsThree
  <2> QED BY <2>2, <2>5, <2>4 DEF list, OneByOne, AtOnce
<1>4. Had(o, s) \/ HasNot(o, s) \/ Loaded(o, s)
  BY SearchIs
<1> HIDE DEF s
<1>5. CASE Had(o, s) \/ HasNot(o, s)
  <2>1. s.list = old.list /\ s.opens = 0 /\ s.entry \in Plugged \cup {None}
    BY <1>5 DEF Had, HasNot
  <2>2. uses \in Plugged \cup {None}
    BY <1>1, <2>1 DEF ObjectStates, s
  <2>3. new \in ObjectStates /\ Len(new.list) <= MaxAdded /\ new.valid /\ new.error = error
        /\ new.list = old.list /\ new.current = uses
    BY <1>1, <1>2, <2>1, <2>2 DEF ObjectStates
  <2>4. uses = None \/ Contains(old.list, uses)
    <3>1. CASE uses = old.current
      BY <1>1, <3>1 DEF Plugs
    <3>2. CASE uses = s.entry
      BY <1>5, <2>1, <3>2 DEF Had, HasNot, FirstIn, Contains
    <3> QED BY <3>1, <3>2 DEF s
  <2>5. opened' = opened /\ opened' + a = opened + Cardinality(Opening(new.list)) /\ opened' \in Int
    <3>1. opened' = opened
      BY <1>1, <1>2, <2>1
    <3> QED BY <1>1, <2>3, <3>1
  <2> HIDE DEF new, old, a
  <2>6. PluginInv' /\ object'[o] = new /\ \A p \in Objects : p # o => object'[p] = object[p]
    <3>1. new \in ObjectStates /\ Len(new.list) <= MaxAdded /\ installed' \in BOOLEAN
      BY <1>1, <1>2, <1>5, <2>3, <2>4, <2>5
    <3>2. new.current = None \/ Contains(new.list, new.current)
      BY <1>1, <1>2, <1>5, <2>3, <2>4, <2>5
    <3>3. (~new.valid => new = Invalid) /\ (o \in PluginChannels => new.error = FALSE)
      BY <1>1, <1>2, <1>5, <2>3, <2>4, <2>5
    <3>4. opened' + Cardinality(Opening(object[o].list)) = opened + Cardinality(Opening(new.list))
          /\ opened' \in Int
      BY <1>1, <1>2, <1>5, <2>3, <2>4, <2>5 DEF old, a
    <3> QED BY ONLY PluginInv, o \in Objects, <1>3, <3>1, <3>2, <3>3, <3>4, OneIs
  <2>7. ComesToUse(o)
    <3>1. CASE uses = old.current
      BY <2>3, <2>6, <3>1 DEF ComesToUse, old
    <3>2. CASE uses = s.entry /\ s.entry # None
      <4>1. \E i \in 1..Len(old.list) : FirstIn(old.list, uses, i)
        BY <1>5, <2>1, <3>2 DEF Had, HasNot
      <4>2. object'[o].list \in Seq(Plugged) /\ object'[o].list = old.list
        BY <1>1, <2>3, <2>6
      <4>3. Newest(o, uses)'
        BY <4>1, <4>2, NewestWillBe
      <4> QED BY <2>3, <2>6, <4>3 DEF ComesToUse
    <3>3. CASE uses = None
      BY <2>3, <2>6, <3>3 DEF ComesToUse
    <3> QED BY <3>1, <3>2, <3>3 DEF s, old
  <2>8. ErrorsKeep(o)
    BY <2>3, <2>5, <2>6 DEF ErrorsKeep, old
  <2>9. StaysFound(o)
    BY <2>3, <2>6 DEF StaysFound, Newest, old
  <2> QED BY <2>6, <2>7, <2>8, <2>9, QuietlyWell DEF GoesWell
<1>6. CASE Loaded(o, s)
  <2> DEFINE e == s.entry
  <2>1. e \in Plugged /\ s.list = <<e>> \o old.list /\ Missing(old.list, e.name)
        /\ s.opens = IF e.handle THEN 1 ELSE 0
    BY <1>6 DEF Loaded
  <2>2. /\ s.list \in Seq(Plugged) /\ Len(s.list) = Len(old.list) + 1 /\ s.list[1] = e
        /\ \A i \in 1..Len(old.list) : i + 1 \in 1..Len(s.list) /\ s.list[i + 1] = old.list[i]
    BY <1>1, <2>1, InFront
  <2>3. Cardinality(Opening(s.list)) = a + s.opens
    <3>1. Cardinality(Opening(s.list)) = Cardinality(Opening(old.list)) + (IF e.handle THEN 1 ELSE 0)
      BY <1>1, <2>1, OneMore
    <3> QED BY <2>1, <3>1
  <2>4. uses = old.current \/ uses = e
    BY DEF s
  <2>5. new \in ObjectStates /\ new.valid /\ new.error = error /\ new.list = s.list /\ new.current = uses
    BY <1>1, <2>1, <2>2, <2>4 DEF ObjectStates
  <2>6. uses = None \/ Contains(s.list, uses)
    <3>1. CASE uses = old.current
      <4>1. CASE old.current # None
        <5>1. PICK i \in 1..Len(old.list) : old.list[i] = old.current
          BY <1>1, <4>1 DEF Plugs, Contains
        <5>2. i + 1 \in 1..Len(s.list) /\ s.list[i + 1] = uses
          BY <2>2, <3>1, <5>1
        <5> QED BY <5>2 DEF Contains
      <4> QED BY <3>1, <4>1
    <3>2. CASE uses = e
      <4>1. 1 \in 1..Len(s.list)
        BY <1>1, <2>2
      <4> QED BY <2>2, <3>2, <4>1 DEF Contains
    <3> QED BY <2>4, <3>1, <3>2
  <2>7. opened' + a = opened + Cardinality(Opening(new.list)) /\ opened' \in Int
    <3> DEFINE u == s.opens
    <3>1. u \in Nat /\ opened' = opened + u /\ Cardinality(Opening(s.list)) = a + u
      BY <1>2, <2>1, <2>3
    <3>2. new.list = s.list
      BY <2>5
    <3> HIDE DEF u, a
    <3>3. opened' + a = opened + Cardinality(Opening(s.list)) /\ opened' \in Int
      BY <1>1, <3>1
    <3> QED BY <3>2, <3>3
  <2> HIDE DEF new, old, a, e
  <2>8. PluginInv' /\ object'[o] = new /\ \A p \in Objects : p # o => object'[p] = object[p]
    <3>1. new \in ObjectStates /\ Len(new.list) <= MaxAdded /\ installed' \in BOOLEAN
      BY <1>1, <1>2, <2>5, <2>6, <2>7
    <3>2. new.current = None \/ Contains(new.list, new.current)
      BY <1>1, <1>2, <2>5, <2>6, <2>7
    <3>3. (~new.valid => new = Invalid) /\ (o \in PluginChannels => new.error = FALSE)
      BY <1>1, <1>2, <2>5, <2>6, <2>7
    <3>4. opened' + Cardinality(Opening(object[o].list)) = opened + Cardinality(Opening(new.list))
          /\ opened' \in Int
      BY <1>1, <1>2, <2>5, <2>6, <2>7 DEF old, a
    <3> QED BY ONLY PluginInv, o \in Objects, <1>3, <3>1, <3>2, <3>3, <3>4, OneIs
  <2>9. object'[o].list = s.list /\ object'[o].current = uses /\ object'[o].error = error
    BY <2>5, <2>8
  <2>10. ComesToUse(o)
    <3>1. CASE uses = old.current
      BY <2>9, <3>1 DEF ComesToUse, old
    <3>2. CASE uses = e
      <4>1. FirstIn(s.list, e, 1) /\ 1 \in 1..Len(s.list)
        <5>1. 1 \in 1..Len(s.list) /\ \A j : j \notin 1..(1 - 1)
          BY <1>1, <2>2
        <5> QED BY <2>2, <5>1 DEF FirstIn
      <4>2. Newest(o, uses)'
        BY <2>2, <2>9, <3>2, <4>1, NewestWillBe
      <4> QED BY <2>9, <4>2 DEF ComesToUse
    <3> QED BY <2>4, <3>1, <3>2
  <2>11. ErrorsKeep(o)
    <3>1. e # None
      BY <2>1, NamesAreTold
    <3> QED BY <2>9, <3>1 DEF ErrorsKeep, e, s
  <2>12. StaysFound(o)
    <3>1. ASSUME NEW x, Newest(o, x) PROVE Newest(o, x)'
      <4>1. PICK i \in 1..Len(old.list) : FirstIn(old.list, x, i)
        BY <1>1, <3>1, NewestIs DEF old
      <4>2. FirstIn(s.list, x, i + 1) /\ i + 1 \in 1..Len(s.list)
        BY <1>1, <2>1, <2>2, <4>1, StillFirst
      <4> QED BY <2>2, <2>9, <4>2, NewestWillBe
    <3> QED BY <3>1 DEF StaysFound
  <2> QED BY <2>8, <2>10, <2>11, <2>12, QuietlyWell DEF GoesWell
<1> QED BY <1>4, <1>5, <1>6

\* IOChannel_addInterface, Serialize_addFormat: the program's own comes first.
LEMMA AddKeeps ==
  ASSUME PluginInv, NEW o \in Objects, NEW name \in OwnPlugins, AddPlugin(o, name)
  PROVE  PluginInv' /\ \A p \in Objects : GoesWell(p)
<1> DEFINE e == Entry(name, "user", FALSE)
           old == object[o]
           m == <<e>> \o old.list
           new == [old EXCEPT !.list = m]
           a == Cardinality(Opening(old.list))
<1>1. /\ old \in ObjectStates /\ Plugs(o) /\ opened \in Nat /\ installed \in BOOLEAN
      /\ old.list \in Seq(Plugged) /\ Len(old.list) \in Nat /\ a \in Nat
  BY WhatItIs
<1>2. /\ old.valid /\ Len(old.list) < MaxAdded /\ opened' = opened /\ installed' = installed
      /\ object' = [object EXCEPT ![o] = new]
  BY DEF AddPlugin
<1>3. e \in Plugged /\ e.handle = FALSE /\ e.from = "user"
  BY PluginAssumption DEF Entry, Plugged, Sources
<1> HIDE DEF e
<1>4. /\ m \in Seq(Plugged) /\ Len(m) = Len(old.list) + 1 /\ m[1] = e
      /\ \A i \in 1..Len(old.list) : i + 1 \in 1..Len(m) /\ m[i + 1] = old.list[i]
  BY <1>1, <1>3, InFront
<1>5. Cardinality(Opening(m)) = a
  <2>1. Cardinality(Opening(m)) = Cardinality(Opening(old.list)) + (IF e.handle THEN 1 ELSE 0)
    BY <1>1, <1>3, OneMore, ZenonT(30)
  <2>2. ~e.handle
    BY <1>3
  <2> HIDE DEF m, old
  <2> QED BY <1>1, <2>1, <2>2
<1> HIDE DEF m
<1>6. /\ new \in ObjectStates /\ new.valid = old.valid /\ new.list = m /\ new.current = old.current
      /\ new.error = old.error
  BY <1>1, <1>4 DEF ObjectStates
<1>7. Len(m) <= MaxAdded
  BY <1>1, <1>2, <1>4, PluginAssumption
<1>8. old.current = None \/ Contains(m, old.current)
  <2>1. CASE old.current # None
    <3>1. PICK i \in 1..Len(old.list) : old.list[i] = old.current
      BY <1>1, <2>1 DEF Plugs, Contains
    <3>2. i + 1 \in 1..Len(m) /\ m[i + 1] = old.current
      BY <1>4, <3>1
    <3> QED BY <3>2 DEF Contains
  <2> QED BY <2>1
<1> HIDE DEF new, a
<1>9. PluginInv' /\ object'[o] = new /\ \A p \in Objects : p # o => object'[p] = object[p]
  <2>1. new \in ObjectStates /\ Len(new.list) <= MaxAdded /\ installed' \in BOOLEAN
    BY <1>1, <1>2, <1>6, <1>7
  <2>2. new.current = None \/ Contains(new.list, new.current)
    BY <1>6, <1>8
  <2>3. (~new.valid => new = Invalid) /\ (o \in PluginChannels => new.error = FALSE)
    BY <1>1, <1>2, <1>6 DEF Plugs
  <2>4. opened' + Cardinality(Opening(object[o].list)) = opened + Cardinality(Opening(new.list))
        /\ opened' \in Int
    BY <1>1, <1>2, <1>5, <1>6 DEF a
  <2>5. object' = [object EXCEPT ![o] = new]
    BY <1>2
  <2> QED BY ONLY PluginInv, o \in Objects, <2>1, <2>2, <2>3, <2>4, <2>5, OneIs
<1>10. GoesWell(o)
  <2>1. object'[o].list[1].from = "user"
    BY <1>3, <1>4, <1>6, <1>9
  <2>2. object'[o].current = object[o].current /\ object'[o].error = object[o].error
    BY <1>6, <1>9
  <2> QED BY <2>1, <2>2 DEF GoesWell, ComesToUse, ErrorsKeep, StaysFound
<1> QED BY <1>9, <1>10, QuietlyWell

LEMMA LookingKeeps ==
  ASSUME PluginInv, NEW o \in Objects, NEW name \in PluginNames,
         Open(o, name) \/ IOChannel_isInterfaceDefined(o, name) \/ Serialize_setFormat(o, name)
  PROVE  PluginInv' /\ \A p \in Objects : GoesWell(p)
<1>1. Plugs(o) /\ object[o].error \in BOOLEAN /\ installed \in BOOLEAN
  BY WhatItIs DEF ObjectStates
<1> DEFINE s == Search(o, name)
<1>2. CASE Open(o, name)
  <2>1. o \in PluginChannels /\ Finds(o, name, s.entry, FALSE) /\ object[o].error = FALSE
    BY <1>1, <1>2 DEF Open, Plugs
  <2> HIDE DEF s
  <2> QED BY <2>1, FindsKeeps DEF s
<1>3. CASE IOChannel_isInterfaceDefined(o, name)
  <2>1. o \in PluginChannels /\ Finds(o, name, object[o].current, FALSE) /\ object[o].error = FALSE
    BY <1>1, <1>3 DEF IOChannel_isInterfaceDefined, Plugs
  <2> QED BY <2>1, FindsKeeps
<1>4. CASE Serialize_setFormat(o, name)
  <2>1. o \notin PluginChannels
    BY <1>4, PluginAssumption DEF Serialize_setFormat
  <2>2. CASE s.entry # None
    <3>1. Finds(o, name, s.entry, object[o].error)
      BY <1>4, <2>2 DEF Serialize_setFormat
    <3> QED BY <1>1, <2>1, <3>1, FindsKeeps
  <2>3. CASE s.entry = None
    <3> DEFINE error == object[o].error \/ installed
    <3>1. Finds(o, name, object[o].current, error)
      BY <1>4, <2>3 DEF Serialize_setFormat
    <3>2. error \in BOOLEAN
      OBVIOUS
    <3> HIDE DEF error
    <3> QED BY <2>1, <2>3, <3>1, <3>2, FindsKeeps
  <2> QED BY <2>2, <2>3
<1> QED BY <1>2, <1>3, <1>4

LEMMA PluginStep ==
  ASSUME PluginInv, [PluginNext]_pluginVars
  PROVE  PluginInv' /\ \A p \in Objects : GoesWell(p)
<1>1. CASE Install
  <2>1. object' = object /\ opened' = opened /\ installed' \in BOOLEAN
    BY <1>1 DEF Install, PluginInv
  <2>2. \A p \in Objects : GoesWell(p)
    BY <2>1, QuietlyWell
  <2>3. PluginInv'
    BY <2>1 DEF PluginInv, Plugs, ReferencesOf
  <2> QED BY <2>2, <2>3
<1>2. ASSUME NEW o \in Objects, ObjectInit(o) PROVE PluginInv' /\ \A p \in Objects : GoesWell(p)
  BY <1>2, InitKeeps
<1>3. ASSUME NEW o \in Objects, ObjectClear(o) PROVE PluginInv' /\ \A p \in Objects : GoesWell(p)
  BY <1>3, ClearKeeps
<1>4. ASSUME NEW o \in Objects, NEW n \in PluginNames,
             Open(o, n) \/ IOChannel_isInterfaceDefined(o, n) \/ Serialize_setFormat(o, n)
      PROVE  PluginInv' /\ \A p \in Objects : GoesWell(p)
  BY <1>4, LookingKeeps
<1>5. ASSUME NEW o \in Objects, NEW n \in OwnPlugins, AddPlugin(o, n)
      PROVE  PluginInv' /\ \A p \in Objects : GoesWell(p)
  BY <1>5, AddKeeps
<1>6. CASE UNCHANGED pluginVars
  <2>1. object' = object /\ opened' = opened /\ installed' = installed
    BY <1>6 DEF pluginVars
  <2>2. \A p \in Objects : GoesWell(p)
    BY <2>1, QuietlyWell
  <2>3. PluginInv'
    BY <2>1 DEF PluginInv, Plugs, ReferencesOf
  <2> QED BY <2>2, <2>3
<1> QED BY <1>1, <1>2, <1>3, <1>4, <1>5, <1>6 DEF PluginNext

LEMMA PluginBegins ==
  ASSUME PluginInit
  PROVE  PluginInv
<1>1. /\ object = [o \in Objects |-> Invalid] /\ opened = 0 /\ installed \in BOOLEAN
  BY DEF PluginInit
<1>2. DOMAIN object = Objects /\ object = [o \in Objects |-> object[o]]
  BY <1>1
<1>3. ASSUME NEW o \in Objects PROVE Plugs(o)
  <2>1. object[o] = Invalid /\ Len(Invalid.list) <= MaxAdded
    BY <1>1, InvalidIs, PluginAssumption
  <2>2. Invalid.current = None /\ Invalid.error = FALSE
    BY DEF Invalid
  <2> QED BY <2>1, <2>2, InvalidIs DEF Plugs
<1>4. ReferencesOf(object) = {}
  <2>1. \A o \in Objects : Opening(object[o].list) = {}
    BY <1>1, InvalidIs
  <2> QED BY <2>1 DEF ReferencesOf
<1>5. Cardinality({}) = 0
  BY FS_EmptySet
<1> QED BY <1>1, <1>2, <1>3, <1>4, <1>5 DEF PluginInv

LEMMA PluginTells ==
  ASSUME PluginInv
  PROVE  PluginTypeOK /\ OpenedForPlugins
<1>1. OpenedForPlugins
  BY DEF PluginInv, OpenedForPlugins, ReferencesOf
<1>2. ASSUME NEW o \in Objects
      PROVE  /\ Len(object[o].list) <= MaxAdded
             /\ \A e \in Range(object[o].list) : e.name \in PluginNames /\ e.from \in Sources
             /\ object[o].current = None \/ Contains(object[o].list, object[o].current)
  <2>1. Plugs(o) /\ object[o].list \in Seq(Plugged)
    BY WhatItIs
  <2>2. ASSUME NEW e \in Range(object[o].list) PROVE e.name \in PluginNames /\ e.from \in Sources
    <3>1. PICK i \in 1..Len(object[o].list) : e = object[o].list[i]
      BY <2>1, LenProperties DEF Range
    <3>2. e \in Plugged
      BY <2>1, <3>1, ElementOfSeq
    <3> QED BY <3>2 DEF Plugged
  <2> QED BY <2>1, <2>2 DEF Plugs
<1>3. opened \in Nat /\ installed \in BOOLEAN
  <2>1. CASE Objects = {}
    <3>1. ReferencesOf(object) = {}
      BY <2>1 DEF ReferencesOf
    <3> QED BY <3>1, FS_EmptySet DEF PluginInv
  <2>2. CASE Objects # {}
    BY <2>2, WhatItIs
  <2> QED BY <2>1, <2>2
<1> QED BY <1>1, <1>2, <1>3 DEF PluginTypeOK

\* Every reference to the library belongs to one plugin of a valid object, what
\* an object comes to use is the newest plugin of its name, a search that ends in
\* an error leaves everything as it was, and what was found stays found
\* (IOChannel_open, IOChannel_clear, Serialize_setFormat, DynamicLoader.c).
THEOREM PluginsStayKept == PluginInit /\ [][PluginNext]_pluginVars => PluginsAreKept
<1>1. PluginInit => PluginInv
  BY PluginBegins
<1>2. PluginInv /\ [PluginNext]_pluginVars => PluginInv'
  BY PluginStep
<1>3. PluginInv => PluginTypeOK /\ OpenedForPlugins
  BY PluginTells
<1>4. PluginInv /\ [PluginNext]_pluginVars =>
        [\A o \in Objects :
           /\ object'[o].current \notin {object[o].current, None} =>
                \A e \in Range(object'[o].list) :
                    object'[o].current = e => Newest(o, e)'
           /\ object'[o].valid /\ object'[o].error # object[o].error =>
                /\ object'[o].current = object[o].current
                /\ object'[o].list = object[o].list /\ opened' = opened]_pluginVars
  BY PluginStep DEF GoesWell, ComesToUse, ErrorsKeep
<1>5. PluginInv /\ [PluginNext]_pluginVars =>
        [\A o \in Objects : object[o].valid /\ object'[o].valid =>
           \A e \in Range(object[o].list) :
               \/ Newest(o, e) => Newest(o, e)'
               \/ object'[o].list[1].from = "user"]_pluginVars
  BY PluginStep DEF GoesWell, StaysFound
<1> QED BY <1>1, <1>2, <1>3, <1>4, <1>5, PTL
        DEF PluginsAreKept, UsesWhatItFound, FoundStaysFound

-----------------------------------------------------------------------------
(* The command line.                                                        *)

Given == UNION {Range(c) : c \in CommandLines}
Parsers == [valid : {"NEW", "INIT", "VALID", "INVALID"}, argc : Int,
            descriptors : BOOLEAN, ignore : BOOLEAN, error : BOOLEAN,
            curArgIdx : Int, curOptIdx : Int, curParameter : Given \cup {Null},
            stopped : BOOLEAN]
OptionIndices == 0..Len(Descriptors) - 1

\* The numbers of the arguments, as far as they are taken.
UpTo(n) == [k \in 1..n |-> k - 1]

\* How many arguments a parser that is at argument i has taken: the last one may
\* lack the parameter it asks for.
Eaten(i) == IF i >= Len(line) THEN Len(line) ELSE i + 1

\* What a parser that is set up is to be, now that it is at its argument.
AtItsArgument(p) ==
    /\ p.argc = Len(line) /\ p.curArgIdx \in 0..Len(line) + 1
    /\ p.curOptIdx \in {NO_OPTION, ERROR, EOL} \cup OptionIndices
    /\ p.curOptIdx = EOL => p.curArgIdx >= Len(line)
    /\ p.curOptIdx \in OptionIndices =>
         /\ p.curArgIdx < Len(line)
         /\ IF Descriptor(p.curOptIdx).hasParameter
            THEN /\ p.curParameter = Argument(p.curArgIdx)
                 /\ Option(Argument(p.curArgIdx - 1)) = p.curOptIdx
            ELSE /\ p.curParameter = Null
                 /\ Option(Argument(p.curArgIdx)) = p.curOptIdx

\* A parser that is not set up has read nothing and met no error.
ParserInv ==
    /\ line \in CommandLines /\ self \in Parsers
    /\ self.argc \in {-1, Len(line)}
    /\ self.valid # "VALID" =>
         self.curArgIdx = 0 /\ self.curOptIdx = 0 /\ self.error = FALSE
    /\ self.valid = "VALID" =>
         AtItsArgument(self) /\ eaten = UpTo(Eaten(self.curArgIdx))

LEMMA LinesAre ==
  ASSUME line \in CommandLines
  PROVE  /\ Len(line) \in Nat /\ DOMAIN line = 1..Len(line)
         /\ \A i \in 0..Len(line) - 1 :
              Argument(i) \in Given /\ Argument(i).kind \in Kinds /\ Argument(i) # Null
         /\ Len(Descriptors) \in Nat
<1>1. line \in Seq(Range(line)) /\ \A i \in 1..Len(line) : line[i].kind \in Kinds
  BY ArgvAssumption
<1>2. Len(line) \in Nat /\ DOMAIN line = 1..Len(line)
  BY <1>1, LenProperties
<1>3. ASSUME NEW i \in 0..Len(line) - 1
      PROVE  Argument(i) \in Given /\ Argument(i).kind \in Kinds /\ Argument(i) # Null
  <2>1. i + 1 \in 1..Len(line)
    BY <1>2
  <2>2. line[i + 1] \in Range(line) /\ line[i + 1].kind \in Kinds
    BY <2>1, <1>1, <1>2 DEF Range
  <2>3. line[i + 1] # Null
    BY <2>2 DEF Null, Kinds
  <2> QED BY <2>2, <2>3 DEF Argument, Given
<1>4. Len(Descriptors) \in Nat
  BY ArgvAssumption, LenProperties
<1> QED BY <1>2, <1>3, <1>4

LEMMA OptionIs ==
  ASSUME NEW arg, Len(Descriptors) \in Nat
  PROVE  Option(arg) \in {NO_OPTION} \cup OptionIndices
<1> DEFINE named(i) == \/ arg.kind = "short" /\ Descriptor(i).short = arg.name
                       \/ arg.kind = "long" /\ Descriptor(i).long = arg.name
           found == {i \in 0..Len(Descriptors) - 1 : named(i)}
<1>1. CASE found = {}
  BY <1>1 DEF Option
<1>2. CASE found # {}
  <2>1. found \subseteq OptionIndices
    BY DEF OptionIndices
  <2>2. found \in SUBSET Nat
    OBVIOUS
  <2>3. Option(arg) = Min(found)
    BY <1>2 DEF Option
  <2> HIDE DEF found
  <2>4. PICK least \in found : \A x \in found : least <= x
    BY <1>2, <2>2, LeastOfNumbers
  <2>5. Min(found) \in found
    BY <2>4 DEF Min
  <2> QED BY <2>1, <2>3, <2>5
<1> QED BY <1>1, <1>2


\* What the parser has become at its next argument, i.
NextIs(b, q, i) ==
    /\ q \in Parsers /\ q.valid = b.valid /\ q.argc = b.argc
    /\ b.error => q.error
    /\ \/ q.curOptIdx = EOL /\ i >= b.argc /\ q.curArgIdx = i
       \/ q.curOptIdx \in {NO_OPTION, ERROR} /\ i < b.argc /\ q.curArgIdx = i
       \/ q.curOptIdx = ERROR /\ i + 1 = b.argc /\ q.curArgIdx = i + 1
       \/ /\ q.curOptIdx \in OptionIndices /\ i < b.argc /\ q.curArgIdx = i
          /\ q.curOptIdx = Option(Argument(i)) /\ q.curParameter = Null
          /\ ~Descriptor(q.curOptIdx).hasParameter
       \/ /\ q.curOptIdx \in OptionIndices /\ i + 1 < b.argc /\ q.curArgIdx = i + 1
          /\ q.curOptIdx = Option(Argument(i)) /\ q.curParameter = Argument(i + 1)
          /\ Descriptor(q.curOptIdx).hasParameter

\* One field after the other.
LEMMA FailedIs ==
  ASSUME NEW p \in Parsers
  PROVE  /\ Failed(p) \in Parsers /\ Failed(p).valid = p.valid /\ Failed(p).argc = p.argc
         /\ Failed(p).error = TRUE /\ Failed(p).curOptIdx = ERROR
         /\ Failed(p).curArgIdx = p.curArgIdx
<1> DEFINE r == [p EXCEPT !.error = TRUE]
           q == [r EXCEPT !.curOptIdx = ERROR]
<1>1. Failed(p) = q
  BY DEF Failed
<1>2. r \in Parsers /\ r.valid = p.valid /\ r.argc = p.argc /\ r.error = TRUE
      /\ r.curArgIdx = p.curArgIdx
  BY DEF Parsers
<1> HIDE DEF r
<1>3. q \in Parsers /\ q.valid = r.valid /\ q.argc = r.argc /\ q.error = r.error
      /\ q.curOptIdx = ERROR /\ q.curArgIdx = r.curArgIdx
  BY <1>2 DEF Parsers, ERROR
<1> HIDE DEF q
<1> QED BY <1>1, <1>2, <1>3

LEMMA OntoIs ==
  ASSUME NEW b \in Parsers
  PROVE  /\ Onto(b) \in Parsers /\ Onto(b).valid = b.valid /\ Onto(b).argc = b.argc
         /\ Onto(b).error = b.error /\ Onto(b).curArgIdx = b.curArgIdx + 1
         /\ Onto(b).curParameter = Null /\ Onto(b).ignore = b.ignore
<1> DEFINE r == [b EXCEPT !.curArgIdx = b.curArgIdx + 1]
           q == [r EXCEPT !.curParameter = Null]
<1>1. Onto(b) = q
  BY DEF Onto
<1>2. r \in Parsers /\ r.valid = b.valid /\ r.argc = b.argc /\ r.error = b.error
      /\ r.curArgIdx = b.curArgIdx + 1 /\ r.ignore = b.ignore
  BY DEF Parsers
<1> HIDE DEF r
<1>3. q \in Parsers /\ q.valid = r.valid /\ q.argc = r.argc /\ q.error = r.error
      /\ q.curParameter = Null /\ q.curArgIdx = r.curArgIdx /\ q.ignore = r.ignore
  BY <1>2 DEF Parsers
<1> HIDE DEF q
<1> QED BY <1>1, <1>2, <1>3

\* An argument that is no option, and one that follows its option.
Alone(p, arg) == [p EXCEPT !.curOptIdx = NO_OPTION, !.curParameter = arg]
Follows(p, opt, i, arg) == [p EXCEPT !.curOptIdx = opt, !.curArgIdx = i, !.curParameter = arg]
LastOne(p, i) == Failed([p EXCEPT !.curArgIdx = i])

LEMMA AloneIs ==
  ASSUME NEW p \in Parsers, NEW arg \in Given
  PROVE  /\ Alone(p, arg) \in Parsers /\ Alone(p, arg).valid = p.valid
         /\ Alone(p, arg).argc = p.argc /\ Alone(p, arg).error = p.error
         /\ Alone(p, arg).curOptIdx = NO_OPTION /\ Alone(p, arg).curArgIdx = p.curArgIdx
<1> DEFINE r == [p EXCEPT !.curOptIdx = NO_OPTION]
           q == [r EXCEPT !.curParameter = arg]
<1>1. Alone(p, arg) = q
  BY DEF Alone
<1>2. r \in Parsers /\ r.valid = p.valid /\ r.argc = p.argc /\ r.error = p.error
      /\ r.curOptIdx = NO_OPTION /\ r.curArgIdx = p.curArgIdx
  BY DEF Parsers, NO_OPTION
<1> HIDE DEF r
<1>3. q \in Parsers /\ q.valid = r.valid /\ q.argc = r.argc /\ q.error = r.error
      /\ q.curOptIdx = r.curOptIdx /\ q.curArgIdx = r.curArgIdx
  BY <1>2 DEF Parsers
<1> HIDE DEF q
<1> QED BY <1>1, <1>2, <1>3

LEMMA FollowsIs ==
  ASSUME NEW p \in Parsers, NEW i \in Int, NEW opt \in Int, NEW arg \in Given
  PROVE  LET q == Follows(p, opt, i, arg)
         IN  /\ q \in Parsers /\ q.valid = p.valid /\ q.argc = p.argc /\ q.error = p.error
             /\ q.curOptIdx = opt /\ q.curArgIdx = i /\ q.curParameter = arg
<1> DEFINE r == [p EXCEPT !.curOptIdx = opt]
           s == [r EXCEPT !.curArgIdx = i]
           q == [s EXCEPT !.curParameter = arg]
<1>1. Follows(p, opt, i, arg) = q
  BY DEF Follows
<1>2. r \in Parsers /\ r.valid = p.valid /\ r.argc = p.argc /\ r.error = p.error
      /\ r.curOptIdx = opt
  BY DEF Parsers
<1> HIDE DEF r
<1>3. s \in Parsers /\ s.valid = r.valid /\ s.argc = r.argc /\ s.error = r.error
      /\ s.curOptIdx = r.curOptIdx /\ s.curArgIdx = i
  BY <1>2 DEF Parsers
<1> HIDE DEF s
<1>4. q \in Parsers /\ q.valid = s.valid /\ q.argc = s.argc /\ q.error = s.error
      /\ q.curOptIdx = s.curOptIdx /\ q.curArgIdx = s.curArgIdx /\ q.curParameter = arg
  BY <1>3 DEF Parsers
<1> HIDE DEF q
<1> QED BY <1>1, <1>2, <1>3, <1>4

LEMMA LastOneIs ==
  ASSUME NEW p \in Parsers, NEW i \in Int
  PROVE  LET q == LastOne(p, i)
         IN  /\ q \in Parsers /\ q.valid = p.valid /\ q.argc = p.argc /\ q.error = TRUE
             /\ q.curOptIdx = ERROR /\ q.curArgIdx = i
<1> DEFINE r == [p EXCEPT !.curArgIdx = i]
<1>1. r \in Parsers /\ r.valid = p.valid /\ r.argc = p.argc /\ r.curArgIdx = i
  BY DEF Parsers
<1>2. LastOne(p, i) = Failed(r)
  BY DEF LastOne
<1> HIDE DEF r
<1> QED BY <1>1, <1>2, FailedIs

LEMMA AdvancedIs ==
  ASSUME line \in CommandLines, NEW b \in Parsers, b.argc = Len(line),
         b.curArgIdx \in -1..Len(line)
  PROVE  NextIs(b, Advanced(b), b.curArgIdx + 1)
<1> DEFINE i == b.curArgIdx + 1
           p == Onto(b)
           arg == Argument(i)
           alone == Alone(p, arg)
           opt == Option(arg)
<1>1. Len(line) \in Nat /\ i \in 0..Len(line) + 1 /\ i \in Int /\ Len(Descriptors) \in Nat
  BY LinesAre
<1>2. /\ p \in Parsers /\ p.valid = b.valid /\ p.argc = b.argc /\ p.error = b.error
      /\ p.curArgIdx = i /\ p.curParameter = Null /\ p.ignore = b.ignore
  BY OntoIs DEF p
<1> HIDE DEF p
<1>3. CASE i >= b.argc
  <2>1. Advanced(b) = [p EXCEPT !.curOptIdx = EOL]
    BY <1>2, <1>3 DEF Advanced, p
  <2> DEFINE q == [p EXCEPT !.curOptIdx = EOL]
  <2>2. q \in Parsers /\ q.valid = b.valid /\ q.argc = b.argc /\ q.error = b.error
        /\ q.curOptIdx = EOL /\ q.curArgIdx = i
    BY <1>2 DEF Parsers, EOL
  <2> HIDE DEF q
  <2> QED BY <2>1, <2>2, <1>3 DEF NextIs, q
<1>4. CASE ~(i >= b.argc)
  <2>1. i \in 0..Len(line) - 1 /\ i < b.argc
    BY <1>1, <1>4
  <2>2. arg \in Given /\ arg.kind \in Kinds
    BY <2>1, LinesAre
  <2>3. opt \in {NO_OPTION} \cup OptionIndices
    BY <1>1, OptionIs
  <2> HIDE DEF arg, opt
  <2>4. Advanced(b) = CASE arg.kind = "plain" -> alone
                        [] arg.kind = "letters" -> Failed(p)
                        [] arg.kind \in {"short", "long"} /\ opt = NO_OPTION ->
                             IF p.ignore THEN alone ELSE Failed(p)
                        [] OTHER -> IF Descriptor(opt).hasParameter THEN WithParameter(p, opt)
                                    ELSE [p EXCEPT !.curOptIdx = opt]
    BY <1>2, <1>4 DEF Advanced, arg, opt, p, Alone
  <2>5. \/ Advanced(b) = alone \/ Advanced(b) = Failed(p)
        \/ opt # NO_OPTION /\ Descriptor(opt).hasParameter /\ Advanced(b) = WithParameter(p, opt)
        \/ /\ opt # NO_OPTION /\ ~Descriptor(opt).hasParameter
           /\ Advanced(b) = [p EXCEPT !.curOptIdx = opt]
    BY <2>2, <2>4 DEF Kinds
  <2>6. NextIs(b, alone, i)
    <3>1. alone \in Parsers /\ alone.valid = b.valid /\ alone.argc = b.argc /\ alone.error = b.error
          /\ alone.curOptIdx = NO_OPTION /\ alone.curArgIdx = i
      BY <1>2, <2>2, AloneIs
    <3> HIDE DEF alone
    <3> QED BY <3>1, <2>1 DEF NextIs
  <2>7. NextIs(b, Failed(p), i)
    <3> DEFINE q == Failed(p)
    <3>1. q \in Parsers /\ q.valid = b.valid /\ q.argc = b.argc /\ q.error = TRUE
          /\ q.curOptIdx = ERROR /\ q.curArgIdx = i
      BY <1>2, FailedIs
    <3> HIDE DEF q
    <3>2. NextIs(b, q, i)
      BY <3>1, <2>1 DEF NextIs
    <3> QED BY <3>2 DEF q
  <2>8. ASSUME opt # NO_OPTION, Descriptor(opt).hasParameter
        PROVE  NextIs(b, WithParameter(p, opt), i)
    <3>1. opt \in OptionIndices /\ opt \in Int
      BY <2>3, <2>8 DEF OptionIndices
    <3>2. CASE i + 1 >= b.argc
      <4> DEFINE q == LastOne(p, i + 1)
      <4>0. i + 1 \in Int
        BY <1>1
      <4>1. WithParameter(p, opt) = q
        BY <1>2, <3>2 DEF WithParameter, LastOne
      <4>2. q \in Parsers /\ q.valid = b.valid /\ q.argc = b.argc /\ q.error = TRUE
            /\ q.curOptIdx = ERROR /\ q.curArgIdx = i + 1
        BY <1>2, <4>0, LastOneIs
      <4>3. i + 1 = b.argc
        BY <2>1, <3>2, <1>1
      <4> HIDE DEF q
      <4> QED BY <4>1, <4>2, <4>3 DEF NextIs
    <3>3. CASE ~(i + 1 >= b.argc)
      <4> DEFINE q == Follows(p, opt, i + 1, Argument(i + 1))
      <4>1. WithParameter(p, opt) = q
        BY <1>2, <3>3 DEF WithParameter, Follows
      <4>2. i + 1 \in 0..Len(line) - 1 /\ i + 1 < b.argc /\ i + 1 \in Int
        BY <1>1, <2>1, <3>3
      <4>3. Argument(i + 1) \in Given
        BY <4>2, LinesAre
      <4>4. q \in Parsers /\ q.valid = b.valid /\ q.argc = b.argc /\ q.error = b.error
            /\ q.curOptIdx = opt /\ q.curArgIdx = i + 1 /\ q.curParameter = Argument(i + 1)
        BY <1>2, <3>1, <4>2, <4>3, FollowsIs
      <4> HIDE DEF q
      <4> QED BY <4>1, <4>2, <4>4, <3>1, <2>8 DEF NextIs, opt, arg
    <3> QED BY <3>2, <3>3
  <2>9. ASSUME opt # NO_OPTION, ~Descriptor(opt).hasParameter
        PROVE  NextIs(b, [p EXCEPT !.curOptIdx = opt], i)
    <3> DEFINE q == [p EXCEPT !.curOptIdx = opt]
    <3>1. opt \in OptionIndices /\ opt \in Int
      BY <2>3, <2>9 DEF OptionIndices
    <3>2. q \in Parsers /\ q.valid = b.valid /\ q.argc = b.argc /\ q.error = b.error
          /\ q.curOptIdx = opt /\ q.curArgIdx = i /\ q.curParameter = Null
      BY <1>2, <3>1 DEF Parsers
    <3> HIDE DEF q
    <3>3. NextIs(b, q, i)
      BY <3>1, <3>2, <2>1, <2>9 DEF NextIs, opt, arg
    <3> QED BY <3>3 DEF q
  <2> HIDE DEF alone
  <2> QED BY <2>5, <2>6, <2>7, <2>8, <2>9
<1> QED BY <1>3, <1>4

LEMMA NextIsAtItsArgument ==
  ASSUME line \in CommandLines, NEW b \in Parsers, NEW q, b.argc = Len(line),
         b.curArgIdx \in -1..Len(line), NextIs(b, q, b.curArgIdx + 1)
  PROVE  AtItsArgument(q)
<1>1. Len(line) \in Nat /\ Len(Descriptors) \in Nat
  BY LinesAre
<1>2. NO_OPTION \notin OptionIndices /\ ERROR \notin OptionIndices /\ EOL \notin OptionIndices
      /\ NO_OPTION # EOL /\ ERROR # EOL /\ OptionIndices \subseteq Int
  BY <1>1 DEF NO_OPTION, ERROR, EOL, OptionIndices
<1>3. b.curArgIdx + 1 + 1 - 1 = b.curArgIdx + 1
  BY <1>1
<1>4. b.curArgIdx + 1 \in 0..Len(line) + 1
  BY <1>1
<1>5. q.argc = Len(line)
  BY DEF NextIs
<1> DEFINE i == b.curArgIdx + 1
<1>6. (i + 1) - 1 = i /\ i \in Int
  BY <1>4
<1> HIDE DEF i
<1>7. NextIs(b, q, i) /\ i \in 0..Len(line) + 1
  BY <1>4 DEF i
<1>8. CASE q.curOptIdx \notin OptionIndices
  <2>1. \/ q.curOptIdx = EOL /\ i >= Len(line) /\ q.curArgIdx = i
        \/ q.curOptIdx \in {NO_OPTION, ERROR} /\ i < Len(line) /\ q.curArgIdx = i
        \/ q.curOptIdx = ERROR /\ i + 1 = Len(line) /\ q.curArgIdx = i + 1
    BY <1>7, <1>8 DEF NextIs
  <2>2. q.curArgIdx \in 0..Len(line) + 1 /\ (q.curOptIdx = EOL => q.curArgIdx >= Len(line))
    BY <2>1, <1>1, <1>2, <1>6, <1>7
  <2> QED BY <2>1, <2>2, <1>5, <1>8 DEF AtItsArgument
<1>9. CASE q.curOptIdx \in OptionIndices
  <2>1. \/ /\ i < Len(line) /\ q.curArgIdx = i
           /\ q.curOptIdx = Option(Argument(i)) /\ q.curParameter = Null
           /\ ~Descriptor(q.curOptIdx).hasParameter
        \/ /\ i + 1 < Len(line) /\ q.curArgIdx = i + 1
           /\ q.curOptIdx = Option(Argument(i)) /\ q.curParameter = Argument(i + 1)
           /\ Descriptor(q.curOptIdx).hasParameter
    BY <1>2, <1>7, <1>9 DEF NextIs
  <2>2. q.curArgIdx \in 0..Len(line) + 1 /\ q.curArgIdx < Len(line)
    BY <2>1, <1>1, <1>6, <1>7
  <2>3. IF Descriptor(q.curOptIdx).hasParameter
        THEN q.curParameter = Argument(q.curArgIdx) /\ Option(Argument(q.curArgIdx - 1)) = q.curOptIdx
        ELSE q.curParameter = Null /\ Option(Argument(q.curArgIdx)) = q.curOptIdx
    BY <2>1, <1>6
  <2> QED BY <2>2, <2>3, <1>2, <1>5, <1>9 DEF AtItsArgument
<1> QED BY <1>8, <1>9

LEMMA UpToGrows ==
  ASSUME NEW n \in Nat
  PROVE  /\ UpTo(n) \o <<>> = UpTo(n)
         /\ UpTo(n) \o <<n>> = UpTo(n + 1)
         /\ UpTo(n) \o <<n, n + 1>> = UpTo(n + 2)
<1>1. UpTo(n) \in Seq(Int) /\ Len(UpTo(n)) = n
  BY DEF UpTo
<1>2. UpTo(n) \o <<n>> = UpTo(n + 1)
  <2>1. UpTo(n) \o <<n>> \in Seq(Int) /\ Len(UpTo(n) \o <<n>>) = n + 1
    BY <1>1, ConcatProperties
  <2>2. UpTo(n + 1) \in Seq(Int) /\ Len(UpTo(n + 1)) = n + 1
    BY DEF UpTo
  <2>3. \A k \in 1..n + 1 : (UpTo(n) \o <<n>>)[k] = UpTo(n + 1)[k]
    BY <1>1 DEF UpTo
  <2> QED BY <2>1, <2>2, <2>3, SeqEqual
<1>3. UpTo(n) \o <<n, n + 1>> = UpTo(n + 2)
  <2>1. /\ UpTo(n) \o <<n, n + 1>> \in Seq(Int)
        /\ Len(UpTo(n) \o <<n, n + 1>>) = n + 2
    BY <1>1, ConcatProperties
  <2>2. UpTo(n + 2) \in Seq(Int) /\ Len(UpTo(n + 2)) = n + 2
    BY DEF UpTo
  <2>3. \A k \in 1..n + 2 : (UpTo(n) \o <<n, n + 1>>)[k] = UpTo(n + 2)[k]
    BY <1>1 DEF UpTo
  <2> QED BY <2>1, <2>2, <2>3, SeqEqual
<1>4. UpTo(n) \o <<>> = UpTo(n)
  BY <1>1, ConcatEmptySeq
<1> QED BY <1>2, <1>3, <1>4


LEMMA TakenExtends ==
  ASSUME line \in CommandLines, NEW b \in Parsers, NEW q, b.argc = Len(line),
         b.curArgIdx \in -1..Len(line), NextIs(b, q, b.curArgIdx + 1)
  PROVE  UpTo(Eaten(b.curArgIdx)) \o Taken(q, b.curArgIdx + 1) = UpTo(Eaten(q.curArgIdx))
<1> DEFINE i == b.curArgIdx + 1
           n == Eaten(b.curArgIdx)
<1>1. Len(line) \in Nat /\ i \in 0..Len(line) + 1 /\ Len(Descriptors) \in Nat
  BY LinesAre
<1>2. n = IF i >= Len(line) THEN Len(line) ELSE i
  BY <1>1 DEF Eaten
<1>3. n \in Nat
  BY <1>1, <1>2
<1>4. q.argc = Len(line) /\ NextIs(b, q, i)
  BY DEF NextIs
<1> HIDE DEF i, n
<1>5. CASE i >= Len(line)
  <2>1. Taken(q, i) = <<>> /\ q.curArgIdx = i
    BY <1>1, <1>4, <1>5 DEF Taken, NextIs
  <2>2. Eaten(q.curArgIdx) = n
    BY <2>1, <1>2, <1>5 DEF Eaten
  <2> QED BY <2>1, <2>2, <1>3, UpToGrows DEF i, n
<1>6. CASE ~(i >= Len(line))
  <2>1. n = i /\ i < Len(line) /\ i \in 0..Len(line) - 1
    BY <1>1, <1>2, <1>6
  <2>2. /\ NO_OPTION < 0 /\ ERROR < 0 /\ \A o \in OptionIndices : o >= 0
        /\ NO_OPTION \in Int /\ ERROR \in Int /\ EOL < 0 /\ EOL \in Int
    BY DEF NO_OPTION, ERROR, EOL, OptionIndices
  <2>3. CASE q.curOptIdx \in OptionIndices /\ q.curParameter # Null
    <3>1. i + 1 < Len(line) /\ q.curArgIdx = i + 1
      BY <1>4, <2>2, <2>3, <2>1, <1>1 DEF NextIs
    <3>2. Taken(q, i) = <<i, i + 1>>
      BY <2>1, <2>2, <2>3, <1>1, <1>4, <1>6 DEF Taken
    <3>3. Eaten(q.curArgIdx) = n + 2
      BY <3>1, <2>1, <1>1 DEF Eaten
    <3>4. UpTo(n) \o <<n, n + 1>> = UpTo(n + 2)
      BY <1>3, UpToGrows
    <3> QED BY <3>2, <3>3, <3>4, <2>1 DEF i, n
  <2>4. CASE ~(q.curOptIdx \in OptionIndices /\ q.curParameter # Null)
    <3>1. ~(q.curOptIdx >= 0 /\ q.curParameter # Null)
      BY <1>4, <2>1, <2>2, <2>4, <1>1 DEF NextIs
    <3>2. Taken(q, i) = <<i>>
      BY <3>1, <1>4, <1>6 DEF Taken
    <3>3. q.curArgIdx = i \/ (q.curArgIdx = i + 1 /\ i + 1 = Len(line))
      <4>1. ASSUME q.curOptIdx \in OptionIndices, i + 1 < b.argc, q.curParameter = Argument(i + 1)
            PROVE  FALSE
        <5>1. i + 1 \in 0..Len(line) - 1
          BY <4>1, <2>1, <1>1
        <5> QED BY <5>1, <4>1, <2>4, LinesAre
      <4> QED BY <4>1, <1>4, <2>1, <1>1 DEF NextIs
    <3>4. Eaten(q.curArgIdx) = n + 1
      BY <3>3, <2>1, <1>1 DEF Eaten
    <3>5. UpTo(n) \o <<n>> = UpTo(n + 1)
      BY <1>3, UpToGrows
    <3> QED BY <3>2, <3>4, <3>5, <2>1 DEF i, n
  <2> QED BY <2>3, <2>4
<1> QED BY <1>5, <1>6

\* A parser that goes on keeps the invariant.
LEMMA GoesOn ==
  ASSUME line \in CommandLines, NEW b \in Parsers, b.argc = Len(line), b.valid = "VALID",
         b.curArgIdx \in -1..Len(line), self' = Advanced(b), line' = line,
         eaten' = UpTo(Eaten(b.curArgIdx)) \o Taken(self', b.curArgIdx + 1)
  PROVE  ParserInv' /\ (b.error => self'.error)
<1>1. NextIs(b, self', b.curArgIdx + 1)
  BY AdvancedIs
<1>2. AtItsArgument(self')
  BY <1>1, NextIsAtItsArgument
<1>3. eaten' = UpTo(Eaten(self'.curArgIdx))
  BY <1>1, TakenExtends
<1>4. self' \in Parsers /\ self'.valid = "VALID" /\ self'.argc = Len(line) /\ (b.error => self'.error)
  BY <1>1 DEF NextIs
<1> QED
  BY <1>2, <1>3, <1>4 DEF ParserInv, AtItsArgument, Eaten, Argument

ArgvSpec == ArgvInit /\ [][ArgvNext]_argvVars

LEMMA FreshIs ==
  ASSUME NEW v \in {"INIT", "INVALID"}
  PROVE  LET q == [Fresh EXCEPT !.valid = v]
         IN  /\ q \in Parsers /\ q.valid # "VALID" /\ q.argc = -1 /\ q.error = FALSE
             /\ q.curArgIdx = 0 /\ q.curOptIdx = 0
<1>1. /\ Fresh \in Parsers /\ Fresh.argc = -1 /\ Fresh.error = FALSE
      /\ Fresh.curArgIdx = 0 /\ Fresh.curOptIdx = 0
  BY DEF Fresh, Parsers
<1> QED BY <1>1 DEF Parsers

LEMMA ParserInit == ArgvInit => ParserInv
<1> SUFFICES ASSUME ArgvInit PROVE ParserInv
  OBVIOUS
<1>1. Fresh \in Parsers
  BY DEF Fresh, Parsers
<1> QED BY <1>1 DEF ArgvInit, ParserInv, Fresh

\* A parser that is not set up, with another value in one of its fields.
LEMMA Unset ==
  ASSUME ParserInv, self' \in Parsers, self'.valid # "VALID", line' = line,
         self'.argc \in {-1, Len(line)}, self'.error = FALSE,
         self'.curArgIdx = 0, self'.curOptIdx = 0
  PROVE  ParserInv' /\ (self.error => self'.error \/ self'.valid # "VALID")
BY DEF ParserInv

\* Nothing changes that a parser that is set up depends on.
LEMMA Unchanged ==
  ASSUME ParserInv, self' \in Parsers, self'.valid = self.valid, self'.argc = self.argc,
         self'.error = self.error, self'.curArgIdx = self.curArgIdx,
         self'.curOptIdx = self.curOptIdx, self'.curParameter = self.curParameter,
         line' = line, eaten' = eaten
  PROVE  ParserInv' /\ (self.error => self'.error)
BY DEF ParserInv, AtItsArgument, Eaten, Argument

LEMMA RequireKeeps ==
  ASSUME ParserInv, NEW states, Require(states)
  PROVE  ParserInv' /\ (self.error => self'.error)
<1>1. self \in Parsers
  BY DEF ParserInv
<1>2. /\ self' \in Parsers /\ self'.valid = self.valid /\ self'.argc = self.argc
      /\ self'.error = self.error /\ self'.curArgIdx = self.curArgIdx
      /\ self'.curOptIdx = self.curOptIdx /\ self'.curParameter = self.curParameter
      /\ line' = line /\ eaten' = eaten
  BY <1>1 DEF Require, Parsers
<1> QED BY <1>2, Unchanged

LEMMA CallKeeps ==
  ASSUME ParserInv, ArgvNext
  PROVE  ParserInv' /\ (self.error => self'.error \/ self'.valid # "VALID")
<1>0. self \in Parsers /\ line \in CommandLines /\ self.argc \in {-1, Len(line)}
  BY DEF ParserInv
<1>0a. Len(line) \in Nat
  BY <1>0, LinesAre
<1>1. CASE ArgvParser_init
  <2>1. self' = [Fresh EXCEPT !.valid = "INIT"] /\ line' = line
    BY <1>1 DEF ArgvParser_init
  <2>2. /\ self' \in Parsers /\ self'.valid # "VALID" /\ self'.argc = -1 /\ self'.error = FALSE
        /\ self'.curArgIdx = 0 /\ self'.curOptIdx = 0
    BY <2>1, FreshIs
  <2> QED BY <2>1, <2>2, Unset
<1>2. CASE ArgvParser_clear
  <2>1. CASE Require({"INIT", "VALID"})
    BY <2>1, RequireKeeps
  <2>2. CASE ~Require({"INIT", "VALID"})
    <3>1. self' = [Fresh EXCEPT !.valid = "INVALID"] /\ line' = line
      BY <1>2, <2>2 DEF ArgvParser_clear
    <3>2. /\ self' \in Parsers /\ self'.valid # "VALID" /\ self'.argc = -1 /\ self'.error = FALSE
          /\ self'.curArgIdx = 0 /\ self'.curOptIdx = 0
      BY <3>1, FreshIs
    <3> QED BY <3>1, <3>2, Unset
  <2> QED BY <2>1, <2>2
<1>3. CASE ArgvParser_setArguments
  <2>1. CASE Require({"INIT"})
    BY <2>1, RequireKeeps
  <2>2. CASE ~Require({"INIT"})
    <3>1. self.valid = "INIT" /\ self' = [self EXCEPT !.argc = Len(line)] /\ line' = line
      BY <1>3, <2>2 DEF ArgvParser_setArguments
    <3>2. self.curArgIdx = 0 /\ self.curOptIdx = 0 /\ self.error = FALSE
      BY <3>1 DEF ParserInv
    <3>3. /\ self' \in Parsers /\ self'.valid = "INIT" /\ self'.argc = Len(line)
          /\ self'.error = FALSE /\ self'.curArgIdx = 0 /\ self'.curOptIdx = 0
      BY <1>0, <1>0a, <3>1, <3>2 DEF Parsers
    <3> QED BY <3>1, <3>3, Unset
  <2> QED BY <2>1, <2>2
<1>4. CASE ArgvParser_setOptionDescriptors
  <2>1. CASE Require({"INIT"})
    BY <2>1, RequireKeeps
  <2>2. CASE ~Require({"INIT"})
    <3>1. self' = [self EXCEPT !.descriptors = TRUE] /\ line' = line /\ eaten' = eaten
      BY <1>4, <2>2 DEF ArgvParser_setOptionDescriptors
    <3>2. /\ self' \in Parsers /\ self'.valid = self.valid /\ self'.argc = self.argc
          /\ self'.error = self.error /\ self'.curArgIdx = self.curArgIdx
          /\ self'.curOptIdx = self.curOptIdx /\ self'.curParameter = self.curParameter
      BY <1>0, <3>1 DEF Parsers
    <3> QED BY <3>1, <3>2, Unchanged
  <2> QED BY <2>1, <2>2
<1>5. CASE ArgvParser_setIgnoreUnknownOptions
  <2>1. CASE Require({"INIT", "VALID"})
    BY <2>1, RequireKeeps
  <2>2. CASE ~Require({"INIT", "VALID"})
    <3>1. PICK flag \in BOOLEAN : self' = [self EXCEPT !.ignore = flag]
      BY <1>5, <2>2 DEF ArgvParser_setIgnoreUnknownOptions
    <3>2. line' = line /\ eaten' = eaten
      BY <1>5, <2>2 DEF ArgvParser_setIgnoreUnknownOptions
    <3>3. /\ self' \in Parsers /\ self'.valid = self.valid /\ self'.argc = self.argc
          /\ self'.error = self.error /\ self'.curArgIdx = self.curArgIdx
          /\ self'.curOptIdx = self.curOptIdx /\ self'.curParameter = self.curParameter
      BY <1>0, <3>1 DEF Parsers
    <3> QED BY <3>2, <3>3, Unchanged
  <2> QED BY <2>1, <2>2
<1>6. CASE ArgvParser_setup
  <2>1. CASE Require({"INIT"})
    BY <2>1, RequireKeeps
  <2>2. CASE ~Require({"INIT"}) /\ (self.argc < 0 \/ ~self.descriptors)
    <3>1. self' = self /\ line' = line /\ eaten' = eaten
      BY <1>6, <2>2 DEF ArgvParser_setup
    <3> QED BY <1>0, <3>1, Unchanged
  <2>3. CASE ~Require({"INIT"}) /\ ~(self.argc < 0 \/ ~self.descriptors)
    <3> DEFINE a == [self EXCEPT !.valid = "VALID"]
               b == [a EXCEPT !.curArgIdx = -1]
    <3>1. /\ self.valid = "INIT" /\ line' = line /\ self' = Advanced(b)
          /\ eaten' = Taken(self', 0)
      BY <1>6, <2>3 DEF ArgvParser_setup
    <3>2. self.argc = Len(line) /\ self.error = FALSE
      BY <1>0, <2>3, <3>1 DEF ParserInv
    <3>3. a \in Parsers /\ a.valid = "VALID" /\ a.argc = Len(line)
      BY <1>0, <3>2 DEF Parsers
    <3> HIDE DEF a
    <3>4. b \in Parsers /\ b.valid = "VALID" /\ b.argc = Len(line) /\ b.curArgIdx = -1
      BY <3>3 DEF Parsers
    <3> HIDE DEF b
    <3>5. -1 \in -1..Len(line) /\ -1 + 1 = 0
      BY <1>0a
    <3>6. Eaten(-1) = 0
      BY <1>0a DEF Eaten
    <3>7. NextIs(b, self', 0)
      BY <1>0, <3>1, <3>4, <3>5, AdvancedIs
    <3>8. Taken(self', 0) \in Seq(Int)
      BY DEF Taken
    <3>9. UpTo(0) \o Taken(self', 0) = Taken(self', 0)
      <4>1. UpTo(0) = <<>>
        BY DEF UpTo
      <4> QED BY <4>1, <3>8, ConcatEmptySeq
    <3> QED BY <1>0, <3>1, <3>2, <3>4, <3>5, <3>6, <3>9, GoesOn
  <2> QED BY <2>1, <2>2, <2>3
<1>7. CASE ArgvParser_advance
  <2>1. CASE Require({"VALID"})
    BY <2>1, RequireKeeps
  <2>2. CASE ~Require({"VALID"})
    <3>1. /\ self.valid = "VALID" /\ self.curArgIdx <= self.argc /\ self' = Advanced(self)
          /\ eaten' = eaten \o Taken(self', self.curArgIdx + 1) /\ line' = line
      BY <1>7, <2>2 DEF ArgvParser_advance
    <3>2. self.argc = Len(line) /\ self.curArgIdx \in 0..Len(line) + 1
          /\ eaten = UpTo(Eaten(self.curArgIdx))
      BY <3>1 DEF ParserInv, AtItsArgument
    <3>3. self.curArgIdx \in -1..Len(line)
      BY <1>0a, <3>1, <3>2
    <3> QED BY <1>0, <3>1, <3>2, <3>3, GoesOn
  <2> QED BY <2>1, <2>2
<1> QED BY <1>1, <1>2, <1>3, <1>4, <1>5, <1>6, <1>7 DEF ArgvNext

LEMMA ParserInvSays ==
  ASSUME ParserInv
  PROVE  ParserTypeOK /\ EachArgumentOnce /\ ParameterIsOwn
<1>1. Len(line) \in Nat /\ Len(Descriptors) \in Nat
  BY LinesAre DEF ParserInv
<1>2. ParserTypeOK
  <2>1. CASE self.valid = "VALID"
    BY <1>1, <2>1 DEF ParserTypeOK, ParserInv, Parsers, AtItsArgument, OptionIndices
  <2>2. CASE self.valid # "VALID"
    BY <1>1, <2>2 DEF ParserTypeOK, ParserInv, Parsers
  <2> QED BY <2>1, <2>2
<1>3. ASSUME self.valid = "VALID"
      PROVE  /\ \A k \in 1..Len(eaten) : eaten[k] = k - 1
             /\ self.curOptIdx = EOL => Len(eaten) = self.argc
  <2>1. eaten = UpTo(Eaten(self.curArgIdx)) /\ AtItsArgument(self)
    BY <1>3 DEF ParserInv
  <2>2. Eaten(self.curArgIdx) \in Nat
        /\ (self.curOptIdx = EOL => Eaten(self.curArgIdx) = self.argc)
    BY <1>1, <2>1 DEF AtItsArgument, Eaten
  <2> QED BY <2>1, <2>2 DEF UpTo
<1>4. EachArgumentOnce
  BY <1>3 DEF EachArgumentOnce
<1>5. ParameterIsOwn
  <2>1. ASSUME self.valid = "VALID", self.curOptIdx >= 0
        PROVE  self.curOptIdx \in OptionIndices /\ AtItsArgument(self)
    BY <2>1 DEF ParserInv, AtItsArgument, NO_OPTION, ERROR, EOL
  <2> QED BY <2>1 DEF ParameterIsOwn, AtItsArgument
<1> QED BY <1>2, <1>4, <1>5

(* Whatever the command line and the options, and in whatever order a       *)
(* program makes its calls, ArgvParser takes every argument once, gives an  *)
(* option its own parameter and does not forget an error.                   *)
THEOREM ArgumentsGoOnce == ArgvSpec => ArgumentsAreTaken
<1>1. ArgvInit => ParserInv
  BY ParserInit
<1>2. ParserInv /\ [ArgvNext]_argvVars => ParserInv'
  <2>1. ASSUME ParserInv, UNCHANGED argvVars PROVE ParserInv'
    BY <2>1, Unchanged DEF argvVars, ParserInv
  <2> QED BY <2>1, CallKeeps
<1>3. ParserInv => ParserTypeOK /\ EachArgumentOnce /\ ParameterIsOwn
  BY ParserInvSays
<1>4. ParserInv /\ [ArgvNext]_argvVars =>
        [self.error => self'.error \/ self'.valid # "VALID"]_argvVars
  BY CallKeeps
<1> QED
  BY <1>1, <1>2, <1>3, <1>4, PTL DEF ArgvSpec, ArgumentsAreTaken, ErrorSticks

=============================================================================
