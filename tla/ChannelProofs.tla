---------------------------- MODULE ChannelProofs ----------------------------
(***************************************************************************)
(* Proofs about the channel of module IOChannel: for any sizes of the       *)
(* buffers, the blocks and the file, the two buffers and the file offset    *)
(* together are one stream of bytes.                                        *)
(*                                                                          *)
(* First come lemmas on blocks of bytes (Overlay, Found, Bytes), then the   *)
(* invariant ChannelInv and what each of the channel's helpers (Flush,      *)
(* Lseek, FdRead, FdWrite, Unget...) does to the stream a channel stands    *)
(* for, then one lemma for each call, and the theorems.                     *)
(***************************************************************************)
EXTENDS IOChannel, SequenceTheorems, TLAPS

Byte == 0..FileSize \cup {Zero}
ByteSeq == Seq(Byte)

-----------------------------------------------------------------------------
(* Blocks of bytes.                                                         *)

LEMMA MaxOfTwo ==
  ASSUME NEW a \in Int, NEW b \in Int
  PROVE  Max({a, b}) = IF a >= b THEN a ELSE b
<1> DEFINE m == IF a >= b THEN a ELSE b
<1>1. m \in {a, b} /\ \A y \in {a, b} : m >= y
  OBVIOUS
<1>2. \A x \in {a, b} : (\A y \in {a, b} : x >= y) => x = m
  OBVIOUS
<1> QED BY <1>1, <1>2 DEF Max

LEMMA MinOfTwo ==
  ASSUME NEW a \in Int, NEW b \in Int
  PROVE  Min({a, b}) = IF a <= b THEN a ELSE b
<1> DEFINE m == IF a <= b THEN a ELSE b
<1>1. m \in {a, b} /\ \A y \in {a, b} : m <= y
  OBVIOUS
<1>2. \A x \in {a, b} : (\A y \in {a, b} : x <= y) => x = m
  OBVIOUS
<1> QED BY <1>1, <1>2 DEF Min

\* What lies over what, byte by byte.
LEMMA OverlayIs ==
  ASSUME NEW s \in ByteSeq, NEW p \in Nat, NEW b \in ByteSeq, b # <<>>
  PROVE  /\ Overlay(s, p, b) \in ByteSeq
         /\ Len(Overlay(s, p, b)) = IF Len(s) >= p + Len(b) THEN Len(s) ELSE p + Len(b)
         /\ \A i \in 1..Len(Overlay(s, p, b)) :
               Overlay(s, p, b)[i] = IF i \in p + 1 .. p + Len(b) THEN b[i - p]
                                     ELSE IF i <= Len(s) THEN s[i] ELSE Zero
<1> DEFINE n == IF Len(s) >= p + Len(b) THEN Len(s) ELSE p + Len(b)
           e(i) == IF i \in p + 1 .. p + Len(b) THEN b[i - p]
                   ELSE IF i <= Len(s) THEN s[i] ELSE Zero
<1>1. Len(s) \in Nat /\ Len(b) \in Nat
  BY LenProperties DEF ByteSeq
<1>2. Max({Len(s), p + Len(b)}) = n
  BY <1>1, MaxOfTwo
<1>3. n \in Nat
  BY <1>1
<1>4. ASSUME NEW i \in 1..n PROVE e(i) \in Byte
  <2>1. Zero \in Byte
    BY DEF Byte
  <2>2. CASE i \in p + 1 .. p + Len(b)
    <3>1. i - p \in 1..Len(b)
      BY <1>1, <2>2
    <3> QED BY <2>2, <3>1, ElementOfSeq DEF ByteSeq
  <2>3. CASE i \notin p + 1 .. p + Len(b) /\ i <= Len(s)
    <3>1. i \in 1..Len(s)
      BY <1>1, <1>3, <2>3
    <3> QED BY <2>3, <3>1, ElementOfSeq DEF ByteSeq
  <2> QED BY <2>1, <2>2, <2>3
<1>5. Overlay(s, p, b) = [i \in 1..n |-> e(i)]
  <2>1. ASSUME NEW i \in 1..n
        PROVE  (CASE i \in p + 1 .. p + Len(b) -> b[i - p]
                  [] i <= Len(s) /\ i \notin p + 1 .. p + Len(b) -> s[i]
                  [] OTHER -> Zero) = e(i)
    OBVIOUS
  <2> HIDE DEF n, e
  <2> QED BY <1>2, <2>1 DEF Overlay
<1> HIDE DEF e, n
<1>6. [i \in 1..n |-> e(i)] \in ByteSeq /\ Len([i \in 1..n |-> e(i)]) = n
  <2>1. [i \in 1..n |-> e(i)] \in [1..n -> Byte]
    BY <1>4
  <2> QED BY <1>3, <2>1 DEF ByteSeq
<1>7. \A i \in 1..n : Overlay(s, p, b)[i] = e(i)
  BY <1>5
<1>8. Overlay(s, p, b) \in ByteSeq /\ Len(Overlay(s, p, b)) = n
  BY <1>5, <1>6
<1> QED BY <1>7, <1>8 DEF e, n

LEMMA OverlayNothing == \A s, p : Overlay(s, p, <<>>) = s
BY DEF Overlay

LEMMA OverlayTyped ==
  ASSUME NEW s \in ByteSeq, NEW p \in Nat, NEW b \in ByteSeq
  PROVE  /\ Overlay(s, p, b) \in ByteSeq
         /\ \A n \in Nat : Len(s) <= n /\ p + Len(b) <= n => Len(Overlay(s, p, b)) <= n
<1>1. CASE b = <<>>
  BY <1>1, OverlayNothing
<1>2. CASE b # <<>>
  <2>1. Len(s) \in Nat /\ Len(b) \in Nat
    BY LenProperties DEF ByteSeq
  <2> QED BY <1>2, <2>1, OverlayIs
<1> QED BY <1>1, <1>2

\* One block after the other is one block.
LEMMA OverlayTwo ==
  ASSUME NEW s \in ByteSeq, NEW p \in Nat, NEW a \in ByteSeq, NEW b \in ByteSeq
  PROVE  Overlay(Overlay(s, p, a), p + Len(a), b) = Overlay(s, p, a \o b)
<1>1. Len(s) \in Nat /\ Len(a) \in Nat /\ Len(b) \in Nat
  BY LenProperties DEF ByteSeq
<1>2. CASE b = <<>>
  <2>1. a \o b = a
    BY <1>2, ConcatEmptySeq DEF ByteSeq
  <2> QED BY <1>2, <2>1, OverlayNothing
<1>3. CASE a = <<>>
  <2>1. a \o b = b /\ Len(a) = 0
    BY <1>3, ConcatEmptySeq DEF ByteSeq
  <2> QED BY <1>3, <2>1, OverlayNothing
<1>4. CASE a # <<>> /\ b # <<>>
  <2> DEFINE o == Overlay(s, p, a)
             l == Overlay(o, p + Len(a), b)
             ab == a \o b
             r == Overlay(s, p, ab)
  <2>1. /\ ab \in ByteSeq /\ Len(ab) = Len(a) + Len(b)
        /\ \A i \in 1..Len(a) + Len(b) : ab[i] = IF i <= Len(a) THEN a[i] ELSE b[i - Len(a)]
    BY ConcatProperties DEF ByteSeq
  <2> HIDE DEF ab
  <2>2. Len(a) > 0 /\ Len(b) > 0
    BY <1>1, <1>4, EmptySeq DEF ByteSeq
  <2>3. ab # <<>>
    BY <1>1, <2>1, <2>2, EmptySeq
  <2>4. /\ o \in ByteSeq
        /\ Len(o) = IF Len(s) >= p + Len(a) THEN Len(s) ELSE p + Len(a)
        /\ \A i \in 1..Len(o) : o[i] = IF i \in p + 1 .. p + Len(a) THEN a[i - p]
                                       ELSE IF i <= Len(s) THEN s[i] ELSE Zero
    BY <1>4, OverlayIs
  <2>5. /\ r \in ByteSeq
        /\ Len(r) = IF Len(s) >= p + Len(ab) THEN Len(s) ELSE p + Len(ab)
        /\ \A i \in 1..Len(r) : r[i] = IF i \in p + 1 .. p + Len(ab) THEN ab[i - p]
                                       ELSE IF i <= Len(s) THEN s[i] ELSE Zero
    BY <2>1, <2>3, OverlayIs
  <2> HIDE DEF o, r
  <2>6. p + Len(a) \in Nat
    BY <1>1
  <2>7. /\ l \in ByteSeq
        /\ Len(l) = IF Len(o) >= (p + Len(a)) + Len(b) THEN Len(o) ELSE (p + Len(a)) + Len(b)
        /\ \A i \in 1..Len(l) :
              l[i] = IF i \in (p + Len(a)) + 1 .. (p + Len(a)) + Len(b) THEN b[i - (p + Len(a))]
                     ELSE IF i <= Len(o) THEN o[i] ELSE Zero
    BY <1>4, <2>4, <2>6, OverlayIs
  <2> HIDE DEF l
  <2>8. Len(l) = Len(r) /\ Len(l) \in Nat /\ Len(l) >= Len(o) /\ Len(o) \in Nat
    <3>1. Len(o) \in Nat /\ Len(l) \in Nat /\ Len(r) \in Nat
      BY <2>4, <2>5, <2>7, LenProperties DEF ByteSeq
    <3>2. Len(o) = IF Len(s) >= p + Len(a) THEN Len(s) ELSE p + Len(a)
      BY <2>4
    <3>3. Len(r) = IF Len(s) >= p + (Len(a) + Len(b)) THEN Len(s) ELSE p + (Len(a) + Len(b))
      BY <2>1, <2>5
    <3>4. Len(l) = IF Len(o) >= (p + Len(a)) + Len(b) THEN Len(o) ELSE (p + Len(a)) + Len(b)
      BY <2>7
    <3> QED BY <1>1, <3>1, <3>2, <3>3, <3>4
  <2>9. ASSUME NEW i \in 1..Len(l) PROVE l[i] = r[i]
    <3>1. i \in Nat /\ i >= 1 /\ i <= Len(l) /\ i \in 1..Len(r)
      BY <2>8
    <3>2. CASE i <= p
      <4>1. i <= Len(o)
        BY <1>1, <2>4, <3>2
      <4> QED BY <1>1, <2>1, <2>4, <2>5, <2>7, <3>1, <3>2, <4>1
    <3>3. CASE i > p /\ i <= p + Len(a)
      <4>1. i <= Len(o) /\ i - p \in 1..Len(a) + Len(b) /\ i - p <= Len(a)
        BY <1>1, <2>4, <3>1, <3>3
      <4>2. l[i] = a[i - p]
        <5>1. l[i] = o[i]
          BY <1>1, <2>7, <3>1, <3>3, <4>1
        <5>2. o[i] = a[i - p]
          BY <1>1, <2>4, <2>8, <3>1, <3>3, <4>1
        <5> QED BY <5>1, <5>2
      <4>3. r[i] = ab[i - p]
        BY <1>1, <2>1, <2>5, <3>1, <3>3, <4>1
      <4>4. ab[i - p] = a[i - p]
        BY <2>1, <4>1
      <4> QED BY <4>2, <4>3, <4>4
    <3>4. CASE i > p + Len(a) /\ i <= p + Len(a) + Len(b)
      <4>1. i - p \in 1..Len(a) + Len(b) /\ ~(i - p <= Len(a))
            /\ (i - p) - Len(a) = i - (p + Len(a))
        BY <1>1, <3>1, <3>4
      <4>2. l[i] = b[i - (p + Len(a))]
        BY <1>1, <2>7, <3>1, <3>4
      <4>3. r[i] = ab[i - p]
        BY <1>1, <2>1, <2>5, <3>1, <3>4, <4>1
      <4>4. ab[i - p] = b[(i - p) - Len(a)]
        BY <2>1, <4>1
      <4> QED BY <4>1, <4>2, <4>3, <4>4
    <3>5. CASE i > p + Len(a) + Len(b)
      <4>1. l[i] = IF i <= Len(o) THEN o[i] ELSE Zero
        BY <1>1, <2>7, <3>1, <3>5
      <4>2. r[i] = IF i <= Len(s) THEN s[i] ELSE Zero
        BY <1>1, <2>1, <2>5, <3>1, <3>5
      <4>3. i <= Len(o) <=> i <= Len(s)
        BY <1>1, <2>4, <3>1, <3>5
      <4>4. i <= Len(o) => o[i] = s[i]
        BY <1>1, <2>4, <3>1, <3>5, <4>3
      <4> QED BY <4>1, <4>2, <4>3, <4>4
    <3> QED BY <1>1, <3>1, <3>2, <3>3, <3>4, <3>5
  <2>10. l = r
    BY <2>5, <2>7, <2>8, <2>9, SeqEqual DEF ByteSeq
  <2> QED BY <2>10 DEF l, o, r, ab
<1> QED BY <1>2, <1>3, <1>4

\* What a read of n bytes finds.
Found(s, p, n, b) ==
    /\ b \in ByteSeq /\ Len(b) \in Nat /\ Len(b) <= n
    /\ b # <<>> => p + Len(b) <= Len(s)
    /\ p + n <= Len(s) => Len(b) = n
    /\ \A i \in 1..Len(b) : p + i \in 1..Len(s) /\ b[i] = s[p + i]

LEMMA BytesFromIs ==
  ASSUME NEW s \in ByteSeq, NEW p \in Nat, NEW n \in Nat, NEW b, b = BytesFrom(s, p, n)
  PROVE  Found(s, p, n, b)
<1> DEFINE end == IF p + n <= Len(s) THEN p + n ELSE Len(s)
<1>1. Len(s) \in Nat /\ \A i \in 1..Len(s) : s[i] \in Byte
  BY LenProperties, ElementOfSeq DEF ByteSeq
<1>2. b = SubSeq(s, p + 1, end) /\ end \in Nat /\ end <= Len(s) /\ end <= p + n
  <2>1. Min({p + n, Len(s)}) = end
    BY <1>1, MinOfTwo
  <2>2. end \in Nat /\ end <= Len(s) /\ end <= p + n
    BY <1>1
  <2> HIDE DEF end
  <2> QED BY <2>1, <2>2 DEF BytesFrom
<1> HIDE DEF end
<1>3. /\ b \in ByteSeq /\ Len(b) = IF p + 1 <= end THEN end - (p + 1) + 1 ELSE 0
      /\ \A i \in 1 .. end - (p + 1) + 1 : b[i] = s[(p + 1) + i - 1]
  <2>1. p + 1 \in Int /\ end \in Int /\ \A i \in p + 1 .. end : s[i] \in Byte
    BY <1>1, <1>2
  <2> QED BY <1>2, <2>1, SubSeqProperties DEF ByteSeq
<1>4. Len(b) \in Nat /\ Len(b) <= n
  BY <1>2, <1>3
<1>5. b # <<>> => p + Len(b) <= Len(s)
  <2>1. b # <<>> => Len(b) > 0
    BY <1>3, EmptySeq DEF ByteSeq
  <2> QED BY <1>1, <1>2, <1>3, <2>1
<1>6. p + n <= Len(s) => Len(b) = n
  <2>1. p + n <= Len(s) => end = p + n
    BY DEF end
  <2>2. (p + n) - (p + 1) + 1 = n /\ (~(p + 1 <= p + n) => n = 0)
    OBVIOUS
  <2> QED BY <1>3, <2>1, <2>2
<1>7. ASSUME NEW i \in 1..Len(b) PROVE p + i \in 1..Len(s) /\ b[i] = s[p + i]
  <2>1. i \in 1 .. end - (p + 1) + 1 /\ (p + 1) + i - 1 = p + i /\ p + i \in 1..Len(s)
    BY <1>1, <1>2, <1>3
  <2> QED BY <1>3, <2>1
<1> QED BY <1>3, <1>4, <1>5, <1>6, <1>7 DEF Found

\* A block that lies there as a whole is the one that is read.
LEMMA BytesFromAll ==
  ASSUME NEW s \in ByteSeq, NEW p \in Nat, NEW h \in ByteSeq, p + Len(h) <= Len(s),
         \A i \in 1..Len(h) : h[i] = s[p + i]
  PROVE  h = BytesFrom(s, p, Len(h))
<1> DEFINE n == Len(h)
           b == BytesFrom(s, p, n)
<1>1. n \in Nat /\ p + n <= Len(s) /\ b = BytesFrom(s, p, n)
  BY LenProperties DEF ByteSeq
<1> HIDE DEF n, b
<1>2. b \in ByteSeq /\ (p + n <= Len(s) => Len(b) = n)
      /\ \A i \in 1..Len(b) : p + i \in 1..Len(s) /\ b[i] = s[p + i]
  <2>1. Found(s, p, n, b)
    BY <1>1, BytesFromIs
  <2> QED BY <2>1 DEF Found
<1>3. Len(b) = n /\ Len(h) = n
  BY <1>1, <1>2 DEF n
<1>4. h = b
  BY <1>2, <1>3, SeqEqual DEF ByteSeq
<1> QED BY <1>4 DEF b, n

-----------------------------------------------------------------------------
(* Channels.                                                                *)

Names == {"isOpen", "fd", "mode", "error", "foundEof", "currentIndexPosition",
          "rdBytesFromLastWrite", "usesWriteBuffering", "autoResize",
          "writeBufferIsExternal", "unget", "written", "size", "file", "offset",
          "got", "retVal", "short", "aborted"}

Chan(c) ==
    /\ DOMAIN c = Names
    /\ c.isOpen \in BOOLEAN /\ c.fd \in {"none", "open", "closed"} /\ c.mode \in Modes
    /\ c.error \in BOOLEAN /\ c.foundEof \in BOOLEAN
    /\ c.currentIndexPosition \in Nat /\ c.rdBytesFromLastWrite \in Nat
    /\ c.usesWriteBuffering \in BOOLEAN /\ c.autoResize \in BOOLEAN
    /\ c.writeBufferIsExternal \in BOOLEAN
    /\ c.unget \in ByteSeq /\ c.written \in ByteSeq
    /\ c.size \in Nat /\ c.file \in ByteSeq /\ c.offset \in Nat
    /\ c.got \in ByteSeq /\ c.retVal \in Int
    /\ c.short \in BOOLEAN /\ c.aborted \in BOOLEAN

\* The stream and the drift of the position, of one channel.
Cont(c)    == Overlay(c.file, c.offset, c.written)
Place(c)   == (c.offset + Len(c.written)) - Len(c.unget)
DriftOf(c) == c.currentIndexPosition - c.offset - Len(c.written)

\* The buffers keep within their sizes and the file within its own.
Fits(c) ==
    /\ Len(c.file) <= MaxFile /\ c.offset + Len(c.written) <= MaxFile
    /\ Len(c.unget) <= UngetBufferSize
    /\ Len(c.written) <= c.size /\ WriteBufferSize <= c.size
    /\ Len(c.got) <= MaxIO

\* Only one buffer is in use; what waits to be written was written after the last
\* read, so that nothing can be ungot.
Apart(c, b) == c.unget = <<>> \/ c.written = <<>> \/ b
Waits(c, r) ==
    c.written # <<>> => c.mode # "R_ONLY" /\ (c.rdBytesFromLastWrite = 0 \/ r = <<>>)

\* The bytes that are ungot are those of the stream at its place ...
Ungot(c) ==
    c.unget # <<>> =>
        /\ Place(c) \in Nat /\ Place(c) + Len(c.unget) <= Len(Cont(c))
        /\ \A i \in 1..Len(c.unget) : c.unget[i] = Cont(c)[Place(c) + i]

\* ... and those the caller may unget lie right before it.
Recalls(c, r) ==
    \A j \in 0..Len(r) - 1 : j < c.rdBytesFromLastWrite =>
        /\ j < Place(c) /\ Place(c) - j <= Len(Cont(c))
        /\ r[Len(r) - j] = Cont(c)[Place(c) - j]

Good(c, r, b) ==
    /\ Chan(c) /\ r \in ByteSeq /\ b \in BOOLEAN
    /\ Fits(c)
    /\ Apart(c, b)
    /\ Waits(c, r)
    /\ Stuck(c) => b
    /\ ~b => Ungot(c)
    /\ Recalls(c, r)

ChannelInv ==
    /\ Good(ch, recent, broken)
    /\ ch.currentIndexPosition <= MaxCount /\ ch.rdBytesFromLastWrite <= MaxCount

LEMMA Sizes ==
  /\ MaxIO \in Nat /\ MaxIO > 0 /\ MaxFile \in Nat /\ MaxCount \in Nat
  /\ WriteBufferSize \in Nat /\ WriteBufferSize > 0 /\ UngetBufferSize \in Nat
  /\ UngetBufferSize > 0 /\ MaxIO <= WriteBufferSize /\ FileSize \in 0..MaxFile
BY IOChannelAssumption

\* The lengths that a channel has.
LEMMA Lengths ==
  ASSUME NEW c, Chan(c)
  PROVE  /\ Len(c.unget) \in Nat /\ Len(c.written) \in Nat
         /\ Len(c.file) \in Nat /\ Len(c.got) \in Nat
         /\ (c.unget = <<>>) <=> (Len(c.unget) = 0)
         /\ (c.written = <<>>) <=> (Len(c.written) = 0)
BY LenProperties, EmptySeq DEF Chan, ByteSeq

LEMMA ContentTyped ==
  ASSUME NEW c, Chan(c)
  PROVE  Cont(c) \in ByteSeq /\ Len(Cont(c)) \in Nat
<1>1. Cont(c) \in ByteSeq
  BY OverlayTyped DEF Chan, Cont
<1> QED BY <1>1, LenProperties DEF ByteSeq

\* Without bytes that wait, the stream is the file.
LEMMA ContentOfFile ==
  ASSUME NEW c, c.written = <<>>
  PROVE  Cont(c) = c.file
BY OverlayNothing DEF Cont

\* What the stream promises, in terms of the channel.
LEMMA StreamIs ==
  /\ \A n : Stream!Read(n) <=> /\ ch'.got = BytesFrom(content, place, n)
                               /\ place' = place + Len(ch'.got)
                               /\ content' = content
  /\ \A b : Stream!Write(b) <=> /\ content' = Overlay(content, place, b)
                                /\ place' = place + Len(b)
                                /\ ch'.got = <<>>
  /\ \A n : Stream!Unget(n) <=> /\ n <= place
                                /\ place' = place - n
                                /\ ch'.got = <<>>
                                /\ content' = content
  /\ \A p : Stream!Seek(p) <=> place' = p /\ ch'.got = <<>> /\ content' = content
  /\ Stream!Stay <=> ch'.got = <<>> /\ content' = content /\ place' = place
<1>1. \A n : Stream!Read(n) <=> /\ ch'.got = BytesFrom(content, place, n)
                                /\ place' = place + Len(ch'.got)
                                /\ content' = content
  BY DEF Stream!Read, Stream!BytesFrom, BytesFrom, Stream!Min, Min
<1>2. \A b : Stream!Write(b) <=> /\ content' = Overlay(content, place, b)
                                 /\ place' = place + Len(b)
                                 /\ ch'.got = <<>>
  BY DEF Stream!Write, Stream!Overlay, Overlay, Stream!Max, Max
<1>3. \A n : Stream!Unget(n) <=> /\ n <= place
                                 /\ place' = place - n
                                 /\ ch'.got = <<>>
                                 /\ content' = content
  BY DEF Stream!Unget
<1>4. \A p : Stream!Seek(p) <=> place' = p /\ ch'.got = <<>> /\ content' = content
  BY DEF Stream!Seek
<1>5. Stream!Stay <=> ch'.got = <<>> /\ content' = content /\ place' = place
  BY DEF Stream!Stay
<1> QED BY <1>1, <1>2, <1>3, <1>4, <1>5

LEMMA PlaceIs ==
  ASSUME NEW c, Chan(c)
  PROVE  c.offset + Len(c.written) - Len(c.unget) = Place(c)
<1>1. \A o, w, u \in Int : (o + w) - u = o + (w - u)
  OBVIOUS
<1>2. c.offset \in Int /\ Len(c.written) \in Int /\ Len(c.unget) \in Int
  BY Lengths DEF Chan
<1> QED BY <1>1, <1>2 DEF Place

\* A call starts from the channel as it is, without a result.
LEMMA FreshIs ==
  ASSUME Chan(ch)
  PROVE  /\ Chan(Fresh)
         /\ Fresh.isOpen = ch.isOpen /\ Fresh.fd = ch.fd /\ Fresh.mode = ch.mode
         /\ Fresh.error = ch.error /\ Fresh.foundEof = ch.foundEof
         /\ Fresh.currentIndexPosition = ch.currentIndexPosition
         /\ Fresh.rdBytesFromLastWrite = ch.rdBytesFromLastWrite
         /\ Fresh.usesWriteBuffering = ch.usesWriteBuffering
         /\ Fresh.autoResize = ch.autoResize
         /\ Fresh.writeBufferIsExternal = ch.writeBufferIsExternal
         /\ Fresh.unget = ch.unget /\ Fresh.written = ch.written
         /\ Fresh.size = ch.size /\ Fresh.file = ch.file /\ Fresh.offset = ch.offset
         /\ Fresh.got = <<>> /\ Fresh.retVal = 0 /\ Fresh.short = FALSE
         /\ Fresh.aborted = ch.aborted
<1>1. <<>> \in ByteSeq
  BY DEF ByteSeq
<1> QED BY <1>1 DEF Chan, Names, Fresh

\* The same channel for the invariant: what differs is not in it.
LEMMA SameGood ==
  ASSUME NEW c, NEW d, NEW r, NEW a, NEW b \in BOOLEAN, Good(c, r, a), a => b,
         Chan(d), Stuck(d) => b, d.mode = c.mode,
         d.rdBytesFromLastWrite \in {0, c.rdBytesFromLastWrite},
         d.unget = c.unget, d.written = c.written, d.size = c.size,
         d.file = c.file, d.offset = c.offset, Len(d.got) <= MaxIO
  PROVE  Good(d, r, b) /\ Cont(d) = Cont(c) /\ Place(d) = Place(c)
<1>1. Cont(d) = Cont(c) /\ Place(d) = Place(c)
  BY DEF Cont, Place
<1>2. Fits(d) /\ Apart(d, b) /\ Waits(d, r)
  BY DEF Good, Fits, Apart, Waits
<1>3. ~b => Ungot(d)
  BY <1>1 DEF Good, Ungot
<1>4. Recalls(d, r)
  <2>1. \A j \in 0..Len(r) - 1 : j < d.rdBytesFromLastWrite => j < c.rdBytesFromLastWrite
    BY DEF Good, Chan
  <2> QED BY <1>1, <2>1 DEF Good, Recalls
<1> QED BY <1>1, <1>2, <1>3, <1>4 DEF Good

LEMMA FreshGood ==
  ASSUME ChannelInv
  PROVE  /\ Good(Fresh, recent, broken)
         /\ Cont(Fresh) = Cont(ch) /\ Place(Fresh) = Place(ch)
         /\ DriftOf(Fresh) = DriftOf(ch)
<1>1. Good(ch, recent, broken) /\ Chan(ch)
  BY DEF ChannelInv, Good
<1>2. Len(Fresh.got) <= MaxIO
  BY <1>1, FreshIs, Sizes, EmptySeq
<1>3. (Stuck(Fresh) => broken) /\ broken \in BOOLEAN
  BY <1>1, FreshIs DEF Good, Stuck
<1> QED BY <1>1, <1>2, <1>3, FreshIs, SameGood DEF DriftOf

-----------------------------------------------------------------------------
(* The system calls and the flush.                                          *)

\* What a write and a flush leave alone.
Kin(c, d) ==
    /\ d.isOpen = c.isOpen /\ d.fd = c.fd /\ d.mode = c.mode
    /\ d.usesWriteBuffering = c.usesWriteBuffering /\ d.autoResize = c.autoResize
    /\ d.writeBufferIsExternal = c.writeBufferIsExternal
    /\ d.unget = c.unget /\ d.size = c.size /\ d.got = c.got
    /\ d.currentIndexPosition = c.currentIndexPosition
    /\ d.rdBytesFromLastWrite = c.rdBytesFromLastWrite
    /\ d.aborted = c.aborted

\* The first n bytes of b have gone to the file.
Moved(c, d, b, n) ==
    /\ d.file = Overlay(c.file, c.offset, SubSeq(b, 1, n))
    /\ d.offset = c.offset + n
    /\ d.retVal = n
    /\ n = Len(b) => d.short = FALSE /\ (d.error <=> c.error)
    /\ n < Len(b) => d.short = TRUE /\ d.error = TRUE

\* Nothing has.
Rests(c, d) == d.file = c.file /\ d.offset = c.offset /\ d.short = c.short

LEMMA FdWriteIs ==
  ASSUME NEW c, Chan(c), NEW b \in ByteSeq, b # <<>>, NEW f, NEW d, d = FdWrite(c, b, f)
  PROVE  /\ Chan(d) /\ Kin(c, d) /\ d.written = c.written
         /\ \/ Rests(c, d) /\ d.retVal = -1 /\ d.error = TRUE
            \/ \E n \in 1..Len(b) : Moved(c, d, b, n)
<1>1. Len(b) \in Nat /\ Len(b) > 0
  BY LenProperties, EmptySeq DEF ByteSeq
<1>2. CASE "write" \in f \/ c.fd # "open"
  <2>1. d = [c EXCEPT !.error = TRUE, !.retVal = -1]
    BY <1>2 DEF FdWrite, Fail
  <2>2. Chan(d) /\ Kin(c, d) /\ d.written = c.written
    BY <2>1 DEF Chan, Names, Kin
  <2>3. Rests(c, d) /\ d.retVal = -1 /\ d.error = TRUE
    BY <2>1 DEF Chan, Names, Rests
  <2> QED BY <2>2, <2>3
<1>3. CASE ~("write" \in f \/ c.fd # "open")
  <2> DEFINE n == IF "short" \in f /\ Len(b) > 1 THEN Len(b) - 1 ELSE Len(b)
             o == Overlay(c.file, c.offset, SubSeq(b, 1, n))
             e == c.error \/ n < Len(b)
             m == c.offset + n
             t == n < Len(b)
  <2>1. n \in 1..Len(b) /\ n \in Nat
    BY <1>1
  <2>2. d = [c EXCEPT !.file = o, !.offset = m, !.retVal = n, !.error = e, !.short = t]
    BY <1>3 DEF FdWrite
  <2>3. SubSeq(b, 1, n) \in ByteSeq
    <3>1. \A i \in 1..n : b[i] \in Byte
      BY <1>1, <2>1, ElementOfSeq DEF ByteSeq
    <3> QED BY <2>1, <3>1, SubSeqProperties DEF ByteSeq
  <2>4. o \in ByteSeq
    BY <2>3, OverlayTyped DEF Chan
  <2>5. e \in BOOLEAN /\ t \in BOOLEAN /\ m \in Nat
    BY <2>1 DEF Chan
  <2>6. /\ n = Len(b) => t = FALSE /\ (e <=> c.error)
        /\ n < Len(b) => t = TRUE /\ e = TRUE
    BY <1>1, <2>1
  <2> HIDE DEF n, o, e, m, t
  <2>7. Chan(d)
    BY <2>1, <2>2, <2>4, <2>5 DEF Chan, Names
  <2>8. Kin(c, d) /\ d.written = c.written
    BY <2>2 DEF Chan, Names, Kin
  <2>9. d.file = o /\ d.offset = m /\ d.retVal = n /\ d.error = e /\ d.short = t
    BY <2>2 DEF Chan, Names
  <2>10. o = Overlay(c.file, c.offset, SubSeq(b, 1, n)) /\ m = c.offset + n
    BY DEF o, m
  <2>11. Moved(c, d, b, n)
    BY <2>6, <2>9, <2>10 DEF Moved
  <2> QED BY <2>1, <2>7, <2>8, <2>11
<1> QED BY <1>2, <1>3

\* What reached the file lies in it.
LEMMA MovedTyped ==
  ASSUME NEW c, Chan(c), NEW d, NEW b \in ByteSeq, NEW n \in 1..Len(b), Moved(c, d, b, n)
  PROVE  /\ SubSeq(b, 1, n) \in ByteSeq /\ Len(SubSeq(b, 1, n)) = n
         /\ n = Len(b) => SubSeq(b, 1, n) = b
         /\ Len(c.file) <= MaxFile /\ c.offset + n <= MaxFile => Len(d.file) <= MaxFile
<1>1. Len(b) \in Nat /\ n \in Nat /\ n >= 1 /\ n <= Len(b)
  BY LenProperties DEF ByteSeq
<1>2. SubSeq(b, 1, n) \in ByteSeq /\ Len(SubSeq(b, 1, n)) = n
      /\ \A i \in 1..n : SubSeq(b, 1, n)[i] = b[i]
  <2>1. \A i \in 1..n : b[i] \in Byte
    BY <1>1, ElementOfSeq DEF ByteSeq
  <2>2. /\ SubSeq(b, 1, n) \in ByteSeq
        /\ Len(SubSeq(b, 1, n)) = IF 1 <= n THEN n - 1 + 1 ELSE 0
        /\ \A i \in 1 .. n - 1 + 1 : SubSeq(b, 1, n)[i] = b[1 + i - 1]
    BY <1>1, <2>1, SubSeqProperties DEF ByteSeq
  <2>3. n - 1 + 1 = n /\ \A i \in 1..n : 1 + i - 1 = i
    BY <1>1
  <2> QED BY <1>1, <2>2, <2>3
<1>3. n = Len(b) => SubSeq(b, 1, n) = b
  BY <1>2, SeqEqual DEF ByteSeq
<1>4. Len(c.file) <= MaxFile /\ c.offset + n <= MaxFile => Len(d.file) <= MaxFile
  BY <1>2, OverlayTyped, Sizes, ZenonT(30) DEF Moved, Chan
<1> QED BY <1>2, <1>3, <1>4

\* A flush does nothing, fails, or hands all that waits or a part of it to the file.
FlushFails(c, d) ==
    /\ Rests(c, d) /\ d.written = c.written /\ c.written # <<>>
    /\ d.retVal = -1 /\ d.error = TRUE

FlushIdle(c, d) ==
    /\ Rests(c, d) /\ d.written = c.written
    /\ c.written = <<>> \/ ~c.isOpen \/ ~c.usesWriteBuffering
    /\ d.retVal = 0 /\ (d.error <=> c.error)

FlushWhole(c, d) ==
    /\ c.written # <<>> /\ d.written = <<>>
    /\ d.file = Overlay(c.file, c.offset, c.written)
    /\ d.offset = c.offset + Len(c.written)
    /\ d.retVal # -1 /\ d.short = FALSE /\ (d.error <=> c.error)

FlushTorn(c, d) ==
    /\ c.written # <<>> /\ d.written = <<>>
    /\ Len(c.file) <= MaxFile /\ d.offset <= MaxFile => Len(d.file) <= MaxFile
    /\ d.offset <= c.offset + Len(c.written)
    /\ d.retVal # -1 /\ d.short = TRUE /\ d.error = TRUE

LEMMA FlushIs ==
  ASSUME NEW c, Chan(c), NEW f, NEW d, d = Flush(c, f)
  PROVE  /\ Chan(d) /\ Kin(c, d)
         /\ FlushFails(c, d) \/ FlushIdle(c, d) \/ FlushWhole(c, d) \/ FlushTorn(c, d)
<1>1. CASE ~c.isOpen \/ ~c.usesWriteBuffering \/ c.written = <<>>
  <2>1. d = [c EXCEPT !.retVal = 0]
    BY <1>1 DEF Flush
  <2>2. Chan(d) /\ Kin(c, d) /\ d.written = c.written
    BY <2>1 DEF Chan, Names, Kin
  <2>3. Rests(c, d) /\ d.retVal = 0 /\ (d.error <=> c.error)
    BY <2>1 DEF Chan, Names, Rests
  <2> QED BY <1>1, <2>2, <2>3 DEF FlushIdle
<1>2. CASE ~(~c.isOpen \/ ~c.usesWriteBuffering \/ c.written = <<>>)
  <2> DEFINE w == FdWrite(c, c.written, f)
  <2>1. c.written \in ByteSeq /\ c.written # <<>>
    BY <1>2 DEF Chan
  <2>2. /\ Chan(w) /\ Kin(c, w) /\ w.written = c.written
        /\ \/ Rests(c, w) /\ w.retVal = -1 /\ w.error = TRUE
           \/ \E n \in 1..Len(c.written) : Moved(c, w, c.written, n)
    BY <2>1, FdWriteIs
  <2>3. d = IF w.retVal = -1 THEN w ELSE [w EXCEPT !.written = <<>>]
    BY <1>2 DEF Flush
  <2> HIDE DEF w
  <2>4. CASE w.retVal = -1
    <3>1. ~ \E n \in 1..Len(c.written) : Moved(c, w, c.written, n)
      <4>1. \A n \in 1..Len(c.written) : n # -1
        BY <2>1, LenProperties DEF ByteSeq
      <4> QED BY <2>4, <4>1 DEF Moved
    <3> QED BY <2>1, <2>2, <2>3, <2>4, <3>1 DEF FlushFails
  <2>5. CASE w.retVal # -1
    <3>1. PICK n \in 1..Len(c.written) : Moved(c, w, c.written, n)
      BY <2>2, <2>5
    <3>2. d = [w EXCEPT !.written = <<>>]
      BY <2>3, <2>5
    <3>3. <<>> \in ByteSeq
      BY DEF ByteSeq
    <3>4. Chan(d)
      BY <2>2, <3>2, <3>3 DEF Chan, Names
    <3>5. /\ d.written = <<>> /\ Kin(w, d) /\ d.file = w.file /\ d.offset = w.offset
          /\ d.retVal = w.retVal /\ d.short = w.short /\ d.error = w.error
      BY <2>2, <3>2 DEF Chan, Names, Kin
    <3>6. Kin(c, d)
      BY <2>2, <3>5 DEF Kin
    <3>7. Len(c.written) \in Nat /\ n \in Nat /\ n <= Len(c.written)
      BY <2>1, <3>1, LenProperties DEF ByteSeq
    <3>8. CASE n = Len(c.written)
      <4>1. SubSeq(c.written, 1, n) = c.written
        BY <2>1, <3>1, <3>8, MovedTyped
      <4>2. FlushWhole(c, d)
        BY <2>1, <2>5, <3>1, <3>5, <3>8, <4>1 DEF FlushWhole, Moved
      <4> QED BY <3>4, <3>6, <4>2
    <3>9. CASE n # Len(c.written)
      <4>1. n < Len(c.written)
        BY <3>7, <3>9
      <4>2. Len(c.file) <= MaxFile /\ c.offset + n <= MaxFile => Len(w.file) <= MaxFile
        BY <2>1, <3>1, MovedTyped
      <4>3. d.offset = c.offset + n
        BY <3>1, <3>5 DEF Moved
      <4>4. d.offset <= c.offset + Len(c.written)
        BY <3>1, <3>5, <3>7 DEF Moved, Chan
      <4>5. FlushTorn(c, d)
        BY <2>1, <2>5, <3>1, <3>5, <4>1, <4>2, <4>3, <4>4 DEF FlushTorn, Moved
      <4> QED BY <3>4, <3>6, <4>5
    <3> QED BY <3>8, <3>9
  <2> QED BY <2>4, <2>5
<1> QED BY <1>1, <1>2

\* A flush keeps the invariant and, unless it is torn, the stream.
FlushEnds(c, d, r, b) ==
    /\ Good(d, r, b) /\ Kin(c, d)
    /\ d.retVal = -1 => d.error = TRUE /\ d.written = c.written
    /\ d.retVal # -1 /\ c.isOpen /\ ~b => d.written = <<>>
    /\ c.usesWriteBuffering /\ c.isOpen /\ d.retVal # -1 => d.written = <<>>
    /\ d.written = <<>> \/ d.written = c.written
    /\ c.written = <<>> => d.file = c.file /\ d.offset = c.offset /\ d.written = <<>>
                           /\ d.retVal = 0 /\ (d.error <=> c.error)
    /\ d.offset + Len(d.written) <= c.offset + Len(c.written)
    /\ \/ d.short = TRUE /\ d.error = TRUE
       \/ /\ Cont(d) = Cont(c) /\ Place(d) = Place(c) /\ DriftOf(d) = DriftOf(c)
          /\ d.short \in {FALSE, c.short}

LEMMA FlushGood ==
  ASSUME NEW c, NEW r, NEW b, Good(c, r, b), NEW f, NEW d, d = Flush(c, f)
  PROVE  FlushEnds(c, d, r, b)
<1> USE DEF FlushEnds
<1>1. Chan(c) /\ Chan(d) /\ Kin(c, d)
      /\ (FlushFails(c, d) \/ FlushIdle(c, d) \/ FlushWhole(c, d) \/ FlushTorn(c, d))
  BY FlushIs DEF Good
<1>2. /\ Len(c.unget) \in Nat /\ Len(c.written) \in Nat /\ Len(d.written) \in Nat
      /\ c.offset \in Nat /\ d.offset \in Nat
      /\ (d.written = <<>> => Len(d.written) = 0)
      /\ c.currentIndexPosition \in Nat
  BY <1>1, Lengths DEF Chan
<1>3. Len(d.got) <= MaxIO
  BY <1>1 DEF Good, Fits, Kin
<1>4. CASE FlushFails(c, d) \/ FlushIdle(c, d)
  <2>1. d.file = c.file /\ d.offset = c.offset /\ d.written = c.written /\ d.short = c.short
    BY <1>4 DEF FlushFails, FlushIdle, Rests
  <2>2. Good(d, r, b) /\ Cont(d) = Cont(c) /\ Place(d) = Place(c)
    <3>1. (Stuck(d) => b) /\ b \in BOOLEAN
      BY <1>1, <2>1 DEF Good, Stuck, Kin
    <3>2. /\ d.mode = c.mode /\ d.unget = c.unget /\ d.size = c.size
          /\ d.rdBytesFromLastWrite \in {0, c.rdBytesFromLastWrite}
      BY <1>1 DEF Kin
    <3> DEFINE a == b
               e == b
    <3>3. Good(c, r, a) /\ (a => e) /\ (Stuck(d) => e) /\ e \in BOOLEAN
      BY <3>1
    <3> HIDE DEF a, e
    <3>4. Good(d, r, e) /\ Cont(d) = Cont(c) /\ Place(d) = Place(c)
      BY <1>1, <1>3, <2>1, <3>2, <3>3, SameGood
    <3> QED BY <3>4 DEF e
  <2>3. DriftOf(d) = DriftOf(c)
    BY <1>1, <2>1 DEF DriftOf, Kin
  <2>4. /\ d.retVal = -1 => d.error = TRUE /\ d.written = c.written
        /\ d.retVal # -1 /\ c.isOpen /\ ~b => d.written = <<>>
        /\ c.usesWriteBuffering /\ c.isOpen /\ d.retVal # -1 => d.written = <<>>
    BY <1>4, <2>1 DEF FlushFails, FlushIdle, Good, Stuck
  <2>5. c.written = <<>> => d.retVal = 0 /\ (d.error <=> c.error)
    BY <1>4 DEF FlushFails, FlushIdle
  <2>6. d.offset + Len(d.written) <= c.offset + Len(c.written)
    BY <1>2, <2>1
  <2> QED BY <1>1, <2>1, <2>2, <2>3, <2>4, <2>5, <2>6
<1>5. CASE FlushWhole(c, d) \/ FlushTorn(c, d)
  <2>1. c.written # <<>> /\ d.written = <<>> /\ d.retVal # -1
        /\ d.offset <= c.offset + Len(c.written)
    BY <1>2, <1>5 DEF FlushWhole, FlushTorn
  <2>2. Len(d.file) <= MaxFile
    <3>1. Len(c.file) <= MaxFile /\ c.offset + Len(c.written) <= MaxFile
      BY DEF Good, Fits
    <3>2. CASE FlushWhole(c, d)
      BY <1>1, <3>1, <3>2, OverlayTyped, Sizes DEF FlushWhole, Chan
    <3>3. CASE FlushTorn(c, d)
      <4>1. d.offset <= MaxFile
        BY <1>2, <2>1, <3>1, Sizes
      <4> QED BY <3>1, <3>3, <4>1 DEF FlushTorn
    <3> QED BY <1>5, <3>2, <3>3
  <2>3. Fits(d)
    <3>1. Len(d.unget) <= UngetBufferSize /\ Len(d.written) <= d.size
          /\ WriteBufferSize <= d.size
      BY <1>1, <1>2, <2>1, Sizes DEF Good, Fits, Kin, Chan
    <3>2. d.offset + Len(d.written) <= MaxFile
      BY <1>2, <2>1, Sizes DEF Good, Fits
    <3> QED BY <1>3, <2>2, <3>1, <3>2 DEF Fits
  <2>4. Apart(d, b) /\ Waits(d, r) /\ (Stuck(d) => b)
    BY <2>1 DEF Apart, Waits, Stuck
  <2>5. ~b => Ungot(d)
    BY <1>1, <2>1 DEF Good, Apart, Ungot, Kin
  <2>6. c.rdBytesFromLastWrite = 0 \/ r = <<>>
    BY <2>1 DEF Good, Waits
  <2>7. Recalls(d, r)
    BY <1>1, <2>6 DEF Recalls, Kin, Good, ByteSeq
  <2>8. Good(d, r, b)
    BY <1>1, <2>3, <2>4, <2>5, <2>7 DEF Good
  <2>9. /\ d.offset + Len(d.written) <= c.offset + Len(c.written)
         /\ ~(c.written = <<>>) /\ ~(d.retVal = -1)
    BY <1>2, <2>1
  <2>10. CASE FlushTorn(c, d)
    <3>1. d.short = TRUE /\ d.error = TRUE
      BY <2>10 DEF FlushTorn
    <3> QED BY <1>1, <2>1, <2>8, <2>9, <3>1
  <2>11. CASE FlushWhole(c, d)
    <3>1. Cont(d) = Cont(c)
      BY <2>1, <2>11, ContentOfFile DEF FlushWhole, Cont
    <3>2. Place(d) = Place(c) /\ DriftOf(d) = DriftOf(c)
      <4>1. d.offset = c.offset + Len(c.written) /\ Len(d.written) = 0
        BY <1>2, <2>1, <2>11 DEF FlushWhole
      <4>2. d.unget = c.unget /\ d.currentIndexPosition = c.currentIndexPosition
        BY <1>1 DEF Kin
      <4> QED BY <1>2, <4>1, <4>2 DEF Place, DriftOf
    <3>3. d.short = FALSE
      BY <2>11 DEF FlushWhole
    <3> QED BY <1>1, <2>1, <2>8, <2>9, <3>1, <3>2, <3>3
  <2> QED BY <1>5, <2>10, <2>11
<1> QED BY <1>1, <1>4, <1>5

-----------------------------------------------------------------------------
(* A call and its return.                                                   *)

\* What every call keeps: the invariant, the promise and the position.
Kept ==
    /\ ChannelInv'
    /\ Excused \/ Promised
    /\ Excused \/ call'[1] \in {"seekBy", "resetIndexes"} \/ Drift' \in {0, Drift}

\* When a call that ends with channel c may break the order of the buffers.
Rises(c) ==
    \/ broken
    \/ Stuck(c)
    \/ c.offset + Len(c.written) > ch.offset + Len(ch.written) /\ ch.unget # <<>>

LEMMA ReturnIs ==
  ASSUME ChannelInv, NEW name, NEW arg, NEW c, Chan(c), Return(name, arg, c)
  PROVE  /\ Chan(ch')
         /\ Cont(ch') = Cont(c) /\ Place(ch') = Place(c) /\ DriftOf(ch') = DriftOf(c)
         /\ ch'.mode = c.mode /\ ch'.rdBytesFromLastWrite = c.rdBytesFromLastWrite
         /\ ch'.currentIndexPosition = c.currentIndexPosition
         /\ ch'.usesWriteBuffering = c.usesWriteBuffering
         /\ ch'.size = c.size /\ ch'.file = c.file /\ ch'.offset = c.offset
         /\ ch'.unget = c.unget /\ ch'.written = c.written /\ ch'.got = c.got
         /\ ch'.error = c.error /\ ch'.short = c.short /\ ch'.aborted = c.aborted
         /\ call'[1] = name /\ call'[2] = arg
         /\ broken' = ((c.unget # <<>> \/ c.written # <<>>) /\ Rises(c))
         /\ Bounded(c)
         /\ content = Cont(ch) /\ content' = Cont(ch')
         /\ place = Place(ch) /\ place' = Place(ch')
         /\ Drift = DriftOf(ch) /\ Drift' = DriftOf(ch')
<1>1. ch' = [c EXCEPT !.retVal = 0] /\ call' = <<name, arg>> /\ Bounded(c)
  BY DEF Return
<1>2. broken' = ((c.unget # <<>> \/ c.written # <<>>) /\ Rises(c))
  BY DEF Return, Rises
<1>3. /\ Chan(ch')
      /\ ch'.mode = c.mode /\ ch'.rdBytesFromLastWrite = c.rdBytesFromLastWrite
      /\ ch'.currentIndexPosition = c.currentIndexPosition
      /\ ch'.usesWriteBuffering = c.usesWriteBuffering
      /\ ch'.size = c.size /\ ch'.file = c.file /\ ch'.offset = c.offset
      /\ ch'.unget = c.unget /\ ch'.written = c.written /\ ch'.got = c.got
      /\ ch'.error = c.error /\ ch'.short = c.short /\ ch'.aborted = c.aborted
  BY <1>1 DEF Chan, Names
<1>4. Cont(ch') = Cont(c) /\ Place(ch') = Place(c) /\ DriftOf(ch') = DriftOf(c)
  BY <1>3 DEF Cont, Place, DriftOf
<1>5. Chan(ch)
  BY DEF ChannelInv, Good
<1>6. content = Cont(ch) /\ content' = Cont(ch')
  BY DEF content, Cont
<1>7. place = Place(ch)
  BY <1>5, PlaceIs DEF place
<1>8. place' = Place(ch')
  BY <1>3, PlaceIs DEF place
<1>9. Drift = DriftOf(ch) /\ Drift' = DriftOf(ch')
  BY DEF Drift, DriftOf
<1>10. call'[1] = name /\ call'[2] = arg
  BY <1>1
<1> QED BY <1>1, <1>2, <1>3, <1>4, <1>6, <1>7, <1>8, <1>9, <1>10

LEMMA RisesMore ==
  ASSUME NEW c, NEW d, NEW r, Good(c, r, broken), Chan(d), d.mode = c.mode,
         d.rdBytesFromLastWrite \in {0, c.rdBytesFromLastWrite},
         d.unget = c.unget, d.written = c.written, d.size = c.size,
         d.file = c.file, d.offset = c.offset, Len(d.got) <= MaxIO
  PROVE  Good(d, r, Rises(d)) /\ Cont(d) = Cont(c) /\ Place(d) = Place(c)
<1> DEFINE b == Rises(d)
<1>1. b \in BOOLEAN /\ (broken => b) /\ (Stuck(d) => b)
  BY DEF Rises
<1> HIDE DEF b
<1>2. Good(d, r, b) /\ Cont(d) = Cont(c) /\ Place(d) = Place(c)
  <2> DEFINE a == broken
  <2>1. Good(c, r, a) /\ (a => b)
    BY <1>1
  <2> HIDE DEF a
  <2> QED BY <1>1, <2>1, SameGood, SMTT(30)
<1> QED BY <1>2 DEF b

LEMMA ReturnGood ==
  ASSUME ChannelInv, NEW name, NEW arg, NEW c, Return(name, arg, c),
         Good(c, recent', Rises(c))
  PROVE  ChannelInv'
<1>1. Chan(c)
  BY DEF Good
<1> DEFINE b == (c.unget # <<>> \/ c.written # <<>>) /\ Rises(c)
<1>2. b \in BOOLEAN
  BY DEF Rises
<1>3. Apart(c, b) /\ (Stuck(c) => b) /\ (~b => Ungot(c))
  <2>1. Apart(c, b)
    BY DEF Good, Apart
  <2>2. Stuck(c) => b
    BY DEF Good, Stuck
  <2>3. ~b => Ungot(c)
    BY DEF Good, Ungot
  <2> QED BY <2>1, <2>2, <2>3
<1> HIDE DEF b
<1>4. Good(c, recent', b)
  BY <1>2, <1>3 DEF Good
<1>5. broken' = b
  BY <1>1, ReturnIs DEF b
<1>6. Len(ch'.got) <= MaxIO
  BY <1>1, ReturnIs DEF Good, Fits
<1>7. Good(ch', recent', b)
  <2>1. Stuck(ch') => b
    BY <1>1, <1>3, ReturnIs DEF Stuck
  <2> QED BY <1>1, <1>2, <1>4, <1>6, <2>1, ReturnIs, SameGood
<1>8. ch'.currentIndexPosition <= MaxCount /\ ch'.rdBytesFromLastWrite <= MaxCount
  BY <1>1, ReturnIs DEF Bounded
<1> QED BY <1>5, <1>7, <1>8 DEF ChannelInv

Others == {"read", "write", "seekTo", "seekEnd", "seekBy", "open", "close"}

\* A call that fails, or does something else, leaves the stream.
LEMMA Stays ==
  ASSUME ChannelInv, NEW name, NEW arg, NEW c, Return(name, arg, c),
         Good(c, recent', Rises(c)), c.got = <<>>,
         c.error = TRUE \/ name \notin Others,
         \/ c.short = TRUE
         \/ Cont(c) = Cont(ch) /\ Place(c) = Place(ch) /\ DriftOf(c) = DriftOf(ch)
  PROVE  Kept
<1>1. Chan(c)
  BY DEF Good
<1>2. ChannelInv'
  BY ReturnGood
<1>3. CASE c.short = TRUE
  <2>1. Excused
    BY <1>1, <1>3, ReturnIs DEF Excused
  <2> QED BY <1>2, <2>1 DEF Kept
<1>4. CASE Cont(c) = Cont(ch) /\ Place(c) = Place(ch) /\ DriftOf(c) = DriftOf(ch)
  <2>1. ch'.got = <<>> /\ content' = content /\ place' = place
    BY <1>1, <1>4, ReturnIs
  <2>2. Stream!Stay
    BY <2>1, StreamIs
  <2>3. ch'.error = TRUE \/ call'[1] \notin Others
    BY <1>1, ReturnIs
  <2>4. Promised
    BY <2>2, <2>3 DEF Promised, Others
  <2>5. Drift' \in {0, Drift}
    BY <1>1, <1>4, ReturnIs
  <2> QED BY <1>2, <2>4, <2>5 DEF Kept
<1> QED BY <1>3, <1>4

\* Any other step of the stream.
LEMMA Keeps ==
  ASSUME ChannelInv, NEW name, NEW arg, NEW c, Return(name, arg, c),
         Good(c, recent', Rises(c)),
         Excused \/ (Promised /\ (name = "seekBy" \/ DriftOf(c) \in {0, DriftOf(ch)}))
  PROVE  Kept
<1>1. Chan(c)
  BY DEF Good
<1>2. ChannelInv'
  BY ReturnGood
<1>3. name = call'[1] /\ Drift' = DriftOf(c) /\ Drift = DriftOf(ch)
  BY <1>1, ReturnIs
<1> QED BY <1>2, <1>3 DEF Kept

\* The flush that a call begins with.
LEMMA FirstFlush ==
  ASSUME ChannelInv, ch.isOpen, NEW f, NEW c, c = Flush(Fresh, f)
  PROVE  /\ Good(c, recent, broken) /\ Chan(c) /\ Kin(Fresh, c) /\ c.got = <<>>
         /\ c.isOpen = ch.isOpen /\ c.fd = ch.fd /\ c.mode = ch.mode
         /\ c.unget = ch.unget /\ c.size = ch.size
         /\ c.aborted = ch.aborted
         /\ c.currentIndexPosition = ch.currentIndexPosition
         /\ c.rdBytesFromLastWrite = ch.rdBytesFromLastWrite
         /\ c.usesWriteBuffering = ch.usesWriteBuffering
         /\ c.retVal = -1 => c.error = TRUE
         /\ c.retVal # -1 /\ ~broken => c.written = <<>>
         /\ c.retVal # -1 /\ c.usesWriteBuffering => c.written = <<>>
         /\ c.offset + Len(c.written) <= ch.offset + Len(ch.written)
         /\ c.written = <<>> \/ c.written = ch.written
         /\ ch.written = <<>> => c.file = ch.file /\ c.offset = ch.offset
                                 /\ c.written = <<>> /\ (c.error <=> ch.error)
         /\ \/ c.short = TRUE /\ c.error = TRUE
            \/ /\ Cont(c) = Cont(ch) /\ Place(c) = Place(ch) /\ DriftOf(c) = DriftOf(ch)
               /\ c.short = FALSE
<1>1. Chan(ch)
  BY DEF ChannelInv, Good
<1>2. /\ Good(Fresh, recent, broken) /\ Cont(Fresh) = Cont(ch) /\ Place(Fresh) = Place(ch)
      /\ DriftOf(Fresh) = DriftOf(ch)
  BY FreshGood
<1> DEFINE g == Fresh
<1>3. g = Fresh
  OBVIOUS
<1> HIDE DEF g
<1>4. c = Flush(g, f) /\ Good(g, recent, broken)
  BY <1>2, <1>3
<1>5. /\ Good(c, recent, broken) /\ Kin(g, c)
      /\ c.retVal = -1 => c.error = TRUE /\ c.written = g.written
      /\ c.retVal # -1 /\ g.isOpen /\ ~broken => c.written = <<>>
      /\ g.usesWriteBuffering /\ g.isOpen /\ c.retVal # -1 => c.written = <<>>
      /\ c.written = <<>> \/ c.written = g.written
      /\ g.written = <<>> => c.file = g.file /\ c.offset = g.offset /\ c.written = <<>>
                             /\ c.retVal = 0 /\ (c.error <=> g.error)
      /\ c.offset + Len(c.written) <= g.offset + Len(g.written)
      /\ \/ c.short = TRUE /\ c.error = TRUE
         \/ /\ Cont(c) = Cont(g) /\ Place(c) = Place(g) /\ DriftOf(c) = DriftOf(g)
            /\ c.short \in {FALSE, g.short}
  <2>1. FlushEnds(g, c, recent, broken)
    BY <1>4, FlushGood
  <2> QED BY <2>1 DEF FlushEnds
<1>6. Kin(Fresh, c) /\ Chan(c)
  BY <1>3, <1>5 DEF Good
<1>7. /\ c.got = <<>> /\ c.isOpen = ch.isOpen /\ c.fd = ch.fd /\ c.mode = ch.mode
      /\ c.unget = ch.unget /\ c.size = ch.size
      /\ c.aborted = ch.aborted
      /\ c.currentIndexPosition = ch.currentIndexPosition
      /\ c.rdBytesFromLastWrite = ch.rdBytesFromLastWrite
      /\ c.usesWriteBuffering = ch.usesWriteBuffering
  BY <1>1, <1>6, FreshIs DEF Kin
<1>8. /\ g.written = ch.written /\ g.file = ch.file /\ g.offset = ch.offset
      /\ (g.error <=> ch.error) /\ g.isOpen = TRUE /\ g.short = FALSE
      /\ g.usesWriteBuffering = c.usesWriteBuffering
      /\ Cont(g) = Cont(ch) /\ Place(g) = Place(ch) /\ DriftOf(g) = DriftOf(ch)
  BY <1>1, <1>2, <1>3, <1>7, FreshIs DEF Chan
<1>9. c.retVal # -1 /\ ~broken => c.written = <<>>
  BY <1>5, <1>8
<1>10. c.retVal # -1 /\ c.usesWriteBuffering => c.written = <<>>
  BY <1>5, <1>8
<1>11. \/ c.short = TRUE /\ c.error = TRUE
       \/ /\ Cont(c) = Cont(ch) /\ Place(c) = Place(ch) /\ DriftOf(c) = DriftOf(ch)
          /\ c.short = FALSE
  BY <1>5, <1>8
<1>12. ch.written = <<>> => c.file = ch.file /\ c.offset = ch.offset
                            /\ c.written = <<>> /\ (c.error <=> ch.error)
  BY <1>5, <1>8
<1>13. c.offset + Len(c.written) <= ch.offset + Len(ch.written)
       /\ (c.written = <<>> \/ c.written = ch.written)
  BY <1>5, <1>8
<1>14. c.retVal = -1 => c.error = TRUE
  BY <1>5
<1> QED BY <1>5, <1>6, <1>7, <1>9, <1>10, <1>11, <1>12, <1>13, <1>14

-----------------------------------------------------------------------------
(* The calls that move no bytes of the stream.                              *)

LEMMA FlushCallKeeps ==
  ASSUME ChannelInv, NEW f, FlushCall(f)
  PROVE  Kept
<1> DEFINE c == Flush(Fresh, f)
<1>1. ch.isOpen /\ Return("flush", 0, c) /\ recent' = recent
  BY DEF FlushCall
<1>2. /\ Good(c, recent, broken) /\ Chan(c) /\ c.got = <<>>
      /\ \/ c.short = TRUE
         \/ Cont(c) = Cont(ch) /\ Place(c) = Place(ch) /\ DriftOf(c) = DriftOf(ch)
  BY <1>1, FirstFlush
<1> HIDE DEF c
<1>3. Good(c, recent', Rises(c))
  BY <1>1, <1>2, RisesMore DEF Good, Fits
<1> QED BY <1>1, <1>2, <1>3, Stays DEF Others

LEMMA ResetIndexesKeeps ==
  ASSUME ChannelInv, NEW f, ResetIndexes(f)
  PROVE  Kept
<1> DEFINE g == Flush(Fresh, f)
<1> DEFINE c == [g EXCEPT !.currentIndexPosition = 0, !.rdBytesFromLastWrite = 0]
<1>1. ch.isOpen /\ Return("resetIndexes", 0, c) /\ recent' = recent
  BY DEF ResetIndexes, Allowed
<1>2. /\ Good(g, recent, broken) /\ Chan(g) /\ g.got = <<>>
      /\ \/ g.short = TRUE
         \/ Cont(g) = Cont(ch) /\ Place(g) = Place(ch)
  BY <1>1, FirstFlush
<1> HIDE DEF g
<1>3. /\ Chan(c) /\ c.mode = g.mode /\ c.rdBytesFromLastWrite = 0
      /\ c.unget = g.unget /\ c.written = g.written /\ c.size = g.size
      /\ c.file = g.file /\ c.offset = g.offset /\ c.got = g.got /\ c.short = g.short
  BY <1>2 DEF Chan, Names
<1> HIDE DEF c
<1>4. Good(c, recent', Rises(c)) /\ Cont(c) = Cont(g) /\ Place(c) = Place(g)
  <2>1. Len(c.got) <= MaxIO
    BY <1>2, <1>3 DEF Good, Fits
  <2> QED BY <1>1, <1>2, <1>3, <2>1, RisesMore
<1>5. ChannelInv'
  BY <1>1, <1>4, ReturnGood
<1>6. ch'.got = <<>> /\ (ch'.short = TRUE \/ (content' = content /\ place' = place))
      /\ call'[1] = "resetIndexes"
  BY <1>1, <1>2, <1>3, <1>4, ReturnIs
<1>7. Excused \/ Promised
  <2>1. CASE ch'.short = TRUE
    BY <2>1 DEF Excused
  <2>2. CASE content' = content /\ place' = place
    <3>1. Stream!Stay
      BY <1>6, <2>2, StreamIs
    <3> QED BY <1>6, <3>1 DEF Promised
  <2> QED BY <1>6, <2>1, <2>2
<1> QED BY <1>5, <1>6, <1>7 DEF Kept

LEMMA SetUseWriteBufferingKeeps ==
  ASSUME ChannelInv, NEW use \in BOOLEAN, NEW resize \in BOOLEAN, NEW f,
         SetUseWriteBuffering(use, resize, f)
  PROVE  Kept
<1> DEFINE g == IF use THEN Fresh ELSE Flush(Fresh, f)
<1> DEFINE c == [g EXCEPT !.usesWriteBuffering = use, !.autoResize = resize]
<1>1. ch.isOpen /\ Return("setUseWriteBuffering", 0, c) /\ recent' = recent
  BY DEF SetUseWriteBuffering
<1>2. /\ Good(g, recent, broken) /\ Chan(g) /\ g.got = <<>>
      /\ \/ g.short = TRUE
         \/ Cont(g) = Cont(ch) /\ Place(g) = Place(ch) /\ DriftOf(g) = DriftOf(ch)
  <2>1. Chan(ch)
    BY DEF ChannelInv, Good
  <2>2. CASE use
    BY <2>1, <2>2, FreshIs, FreshGood
  <2>3. CASE ~use
    BY <1>1, <2>3, FirstFlush
  <2> QED BY <2>2, <2>3
<1> HIDE DEF g
<1>3. /\ Chan(c) /\ c.mode = g.mode /\ c.rdBytesFromLastWrite = g.rdBytesFromLastWrite
      /\ c.currentIndexPosition = g.currentIndexPosition
      /\ c.unget = g.unget /\ c.written = g.written /\ c.size = g.size
      /\ c.file = g.file /\ c.offset = g.offset /\ c.got = g.got /\ c.short = g.short
  BY <1>2 DEF Chan, Names
<1> HIDE DEF c
<1>4. Good(c, recent', Rises(c)) /\ Cont(c) = Cont(g) /\ Place(c) = Place(g)
  <2>1. Len(c.got) <= MaxIO
    BY <1>2, <1>3 DEF Good, Fits
  <2> QED BY <1>1, <1>2, <1>3, <2>1, RisesMore
<1>5. DriftOf(c) = DriftOf(g)
  BY <1>3 DEF DriftOf
<1> QED BY <1>1, <1>2, <1>3, <1>4, <1>5, Stays DEF Others

LEMMA CleanErrorKeeps ==
  ASSUME ChannelInv, CleanError
  PROVE  Kept
<1> DEFINE c == [Fresh EXCEPT !.error = FALSE]
<1>1. Return("cleanError", 0, c) /\ recent' = recent
  BY DEF CleanError
<1>2. Chan(ch)
  BY DEF ChannelInv, Good
<1>3. Chan(Fresh) /\ Good(Fresh, recent, broken) /\ Fresh.got = <<>>
      /\ Cont(Fresh) = Cont(ch) /\ Place(Fresh) = Place(ch) /\ DriftOf(Fresh) = DriftOf(ch)
  BY <1>2, FreshIs, FreshGood
<1> DEFINE g == Fresh
<1>4. g = Fresh /\ c = [g EXCEPT !.error = FALSE] /\ Chan(g)
  BY <1>3
<1> HIDE DEF g, c
<1>5. /\ Chan(c) /\ c.mode = g.mode /\ c.rdBytesFromLastWrite = g.rdBytesFromLastWrite
      /\ c.currentIndexPosition = g.currentIndexPosition
      /\ c.unget = g.unget /\ c.written = g.written /\ c.size = g.size
      /\ c.file = g.file /\ c.offset = g.offset /\ c.got = g.got
  BY <1>4 DEF Chan, Names
<1>6. Good(c, recent', Rises(c)) /\ Cont(c) = Cont(g) /\ Place(c) = Place(g)
  <2>1. Len(c.got) <= MaxIO
    BY <1>3, <1>4, <1>5 DEF Good, Fits
  <2> QED BY <1>1, <1>3, <1>4, <1>5, <2>1, RisesMore
<1>7. DriftOf(c) = DriftOf(g)
  BY <1>5 DEF DriftOf
<1> QED BY <1>1, <1>3, <1>4, <1>5, <1>6, <1>7, Stays DEF Others

\* A channel whose buffers are empty, after a call that forgets what was read.
LEMMA EmptyGood ==
  ASSUME NEW c, Chan(c), c.unget = <<>>, c.written = <<>>, c.got = <<>>,
         c.size = WriteBufferSize, Len(c.file) <= MaxFile, c.offset <= MaxFile
  PROVE  Good(c, <<>>, Rises(c)) /\ Cont(c) = c.file /\ Place(c) = c.offset
<1>1. Len(c.unget) = 0 /\ Len(c.written) = 0 /\ Len(c.got) = 0 /\ c.offset \in Nat
  BY DEF Chan
<1>2. Fits(c)
  BY <1>1, Sizes DEF Fits
<1>3. Rises(c) \in BOOLEAN /\ <<>> \in ByteSeq
  BY DEF Rises, ByteSeq
<1>4. Apart(c, Rises(c)) /\ Waits(c, <<>>) /\ ~Stuck(c) /\ Ungot(c)
  BY DEF Apart, Waits, Stuck, Ungot
<1>5. Recalls(c, <<>>)
  <2>1. Len(<<>>) - 1 = -1
    OBVIOUS
  <2> QED BY <2>1 DEF Recalls
<1>6. Cont(c) = c.file /\ Place(c) = c.offset
  BY <1>1, ContentOfFile DEF Place
<1> QED BY <1>2, <1>3, <1>4, <1>5, <1>6 DEF Good

LEMMA SetWriteBufferKeeps ==
  ASSUME ChannelInv, NEW external \in BOOLEAN, SetWriteBuffer(external)
  PROVE  Kept
<1> DEFINE g == Fresh
           c == [g EXCEPT !.writeBufferIsExternal = external, !.written = <<>>,
                          !.size = WriteBufferSize]
<1>1. Return("setWriteBuffer", 0, c) /\ recent' = <<>>
  BY DEF SetWriteBuffer
<1>2. Chan(ch) /\ broken \in BOOLEAN
  BY DEF ChannelInv, Good
<1>3. /\ Chan(g) /\ Good(g, recent, broken) /\ g.got = <<>> /\ g.written = ch.written
      /\ Cont(g) = Cont(ch) /\ Place(g) = Place(ch) /\ DriftOf(g) = DriftOf(ch)
  BY <1>2, FreshIs, FreshGood
<1> HIDE DEF g
<1>4. /\ Chan(c) /\ c.currentIndexPosition = g.currentIndexPosition
      /\ c.unget = g.unget /\ c.written = <<>> /\ c.size = WriteBufferSize
      /\ c.file = g.file /\ c.offset = g.offset /\ c.got = g.got
  <2>1. <<>> \in ByteSeq /\ WriteBufferSize \in Nat
    BY Sizes DEF ByteSeq
  <2> QED BY <1>3, <2>1 DEF Chan, Names
<1> HIDE DEF c
<1>5. Good(c, recent', Rises(c))
  <2>1. /\ Len(g.file) <= MaxFile /\ g.offset + Len(g.written) <= MaxFile
        /\ Len(g.unget) <= UngetBufferSize /\ Len(g.got) <= MaxIO
    BY <1>3 DEF Good, Fits
  <2>2. Len(g.written) \in Nat /\ g.offset \in Nat /\ Len(c.written) = 0
    BY <1>3, <1>4, Lengths DEF Chan
  <2>3. Fits(c)
    BY <1>4, <2>1, <2>2, Sizes DEF Fits
  <2>4. Rises(c) \in BOOLEAN /\ <<>> \in ByteSeq /\ (broken => Rises(c))
    BY DEF Rises, ByteSeq
  <2>5. Apart(c, Rises(c)) /\ Waits(c, <<>>) /\ ~Stuck(c)
    BY <1>4 DEF Apart, Waits, Stuck
  <2>6. ~Rises(c) => Ungot(c)
    <3>1. CASE g.written = <<>>
      <4>1. Cont(c) = Cont(g) /\ Place(c) = Place(g)
        BY <1>4, <3>1 DEF Cont, Place
      <4> QED BY <1>3, <1>4, <2>4, <4>1 DEF Good, Ungot
    <3>2. CASE g.written # <<>>
      BY <1>3, <1>4, <2>4, <3>2 DEF Good, Apart, Ungot
    <3> QED BY <3>1, <3>2
  <2>7. Recalls(c, <<>>)
    <3>1. Len(<<>>) - 1 = -1
      OBVIOUS
    <3> QED BY <3>1 DEF Recalls
  <2> QED BY <1>1, <1>4, <2>3, <2>4, <2>5, <2>6, <2>7 DEF Good
<1>6. CASE ch.written = <<>>
  <2>1. Cont(c) = Cont(ch) /\ Place(c) = Place(ch) /\ DriftOf(c) = DriftOf(ch)
    BY <1>3, <1>4, <1>6 DEF Cont, Place, DriftOf
  <2> QED BY <1>1, <1>3, <1>4, <1>5, <2>1, Stays DEF Others
<1>7. CASE ch.written # <<>>
  <2>1. Excused
    BY <1>1, <1>4, <1>7, ReturnIs DEF Excused
  <2> QED BY <1>1, <1>5, <2>1, Keeps
<1> QED BY <1>6, <1>7

-----------------------------------------------------------------------------
(* Opening and closing.                                                     *)

LEMMA ResetIs ==
  ASSUME NEW c, c.file \in ByteSeq, NEW r, r = Reset(c)
  PROVE  /\ Chan(r) /\ r.unget = <<>> /\ r.written = <<>> /\ r.got = <<>>
         /\ r.size = WriteBufferSize /\ r.file = c.file /\ r.offset = 0
         /\ r.currentIndexPosition = 0 /\ r.rdBytesFromLastWrite = 0
         /\ r.usesWriteBuffering = FALSE /\ r.error = FALSE /\ r.short = FALSE
<1>1. <<>> \in ByteSeq /\ WriteBufferSize \in Nat
  BY Sizes DEF ByteSeq
<1>2. DOMAIN r = Names
  BY DEF Reset, Names
<1>3. r.unget = <<>> /\ r.written = <<>> /\ r.got = <<>>
      /\ r.size = WriteBufferSize /\ r.file = c.file /\ r.offset = 0
      /\ r.currentIndexPosition = 0 /\ r.rdBytesFromLastWrite = 0 /\ r.retVal = 0
  BY DEF Reset
<1>4. /\ r.isOpen = FALSE /\ r.fd = "none" /\ r.mode = "R_ONLY" /\ r.error = FALSE
      /\ r.foundEof = FALSE /\ r.usesWriteBuffering = FALSE /\ r.autoResize = FALSE
      /\ r.writeBufferIsExternal = FALSE /\ r.short = FALSE /\ r.aborted = FALSE
  BY DEF Reset
<1>5. /\ r.isOpen \in BOOLEAN /\ r.fd \in {"none", "open", "closed"} /\ r.mode \in Modes
      /\ r.error \in BOOLEAN /\ r.foundEof \in BOOLEAN
      /\ r.usesWriteBuffering \in BOOLEAN /\ r.autoResize \in BOOLEAN
      /\ r.writeBufferIsExternal \in BOOLEAN
      /\ r.short \in BOOLEAN /\ r.aborted \in BOOLEAN
  BY <1>4 DEF Modes
<1>6. r.currentIndexPosition \in Nat /\ r.rdBytesFromLastWrite \in Nat
      /\ r.offset \in Nat /\ r.retVal \in Int
  BY <1>3
<1>7. Chan(r)
  BY <1>1, <1>2, <1>3, <1>5, <1>6 DEF Chan
<1> QED BY <1>3, <1>4, <1>7

LEMMA OpenKeeps ==
  ASSUME ChannelInv, NEW mode \in Modes, NEW f, Open(mode, f)
  PROVE  Kept
<1> DEFINE r == Reset(ch)
           o == [r EXCEPT !.mode = mode]
           c == CASE "open" \in f -> [o EXCEPT !.error = TRUE]
                  [] "fstat" \in f -> [o EXCEPT !.error = TRUE, !.isOpen = TRUE]
                  [] OTHER -> [o EXCEPT !.isOpen = TRUE, !.fd = "open"]
<1>1. Return("open", 0, c) /\ recent' = <<>>
  BY DEF Open
<1>2. Chan(ch) /\ Len(ch.file) <= MaxFile
  BY DEF ChannelInv, Good, Fits
<1>3. /\ Chan(r) /\ r.unget = <<>> /\ r.written = <<>> /\ r.got = <<>>
      /\ r.size = WriteBufferSize /\ r.file = ch.file /\ r.offset = 0
      /\ r.currentIndexPosition = 0
  BY <1>2, ResetIs DEF Chan
<1> HIDE DEF r
<1>4. /\ Chan(o) /\ o.unget = <<>> /\ o.written = <<>> /\ o.got = <<>>
      /\ o.size = WriteBufferSize /\ o.file = ch.file /\ o.offset = 0
      /\ o.currentIndexPosition = 0
  BY <1>3 DEF Chan, Names
<1> HIDE DEF o
<1>5. /\ Chan(c) /\ c.unget = <<>> /\ c.written = <<>> /\ c.got = <<>>
      /\ c.size = WriteBufferSize /\ c.file = ch.file /\ c.offset = 0
      /\ c.currentIndexPosition = 0
  <2>1. CASE c = [o EXCEPT !.error = TRUE]
    <3> HIDE DEF c
    <3> QED BY <1>4, <2>1 DEF Chan, Names
  <2>2. CASE c = [o EXCEPT !.error = TRUE, !.isOpen = TRUE]
    <3> HIDE DEF c
    <3> QED BY <1>4, <2>2 DEF Chan, Names
  <2>3. CASE c = [o EXCEPT !.isOpen = TRUE, !.fd = "open"]
    <3> HIDE DEF c
    <3> QED BY <1>4, <2>3 DEF Chan, Names
  <2>4. \/ c = [o EXCEPT !.error = TRUE]
        \/ c = [o EXCEPT !.error = TRUE, !.isOpen = TRUE]
        \/ c = [o EXCEPT !.isOpen = TRUE, !.fd = "open"]
    OBVIOUS
  <2> QED BY <2>1, <2>2, <2>3, <2>4
<1> HIDE DEF c
<1>6. Good(c, recent', Rises(c)) /\ Cont(c) = ch.file /\ Place(c) = 0
  BY <1>1, <1>2, <1>5, EmptyGood, Sizes
<1>7. DriftOf(c) = 0
  <2>1. Len(c.written) = 0
    BY <1>5
  <2>2. DriftOf(c) = 0 - 0 - 0
    BY <1>5, <2>1 DEF DriftOf
  <2> QED BY <2>2
<1>8. CASE ch.written # <<>>
  <2>1. Excused
    BY <1>1, <1>5, <1>8, ReturnIs DEF Excused
  <2> QED BY <1>1, <1>6, <2>1, Keeps
<1>9. CASE ch.written = <<>>
  <2>1. Cont(ch) = ch.file
    BY <1>9, ContentOfFile
  <2>2. content' = content /\ place' = ch'.offset /\ ch'.got = <<>> /\ call'[1] = "open"
    BY <1>1, <1>5, <1>6, <2>1, ReturnIs
  <2>3. Stream!Seek(ch'.offset)
    BY <2>2, StreamIs
  <2>4. Promised
    BY <2>2, <2>3 DEF Promised
  <2> QED BY <1>1, <1>6, <1>7, <2>4, Keeps
<1> QED BY <1>8, <1>9

LEMMA CloseKeeps ==
  ASSUME ChannelInv, NEW f, Close(f)
  PROVE  Kept
<1> DEFINE g == Flush(Fresh, f)
           e == [g EXCEPT !.unget = <<>>, !.written = <<>>, !.size = WriteBufferSize]
           x == IF e.fd = "none" THEN e.fd ELSE "closed"
           h == [e EXCEPT !.error = TRUE, !.fd = x]
           r == Reset(g)
           s == [r EXCEPT !.short = g.short]
           c == IF g.retVal = -1 THEN g
                ELSE IF "close" \in f \/ ch.fd # "open" THEN h ELSE s
<1>1. ch.isOpen /\ Return("close", 0, c) /\ recent' = <<>>
  BY DEF Close
<1>2. /\ Good(g, recent, broken) /\ Chan(g) /\ g.got = <<>>
      /\ g.retVal = -1 => g.error = TRUE
      /\ g.retVal # -1 /\ ~broken => g.written = <<>>
      /\ \/ g.short = TRUE
         \/ Cont(g) = Cont(ch) /\ Place(g) = Place(ch) /\ DriftOf(g) = DriftOf(ch)
  BY <1>1, FirstFlush
<1> HIDE DEF g
<1>3. Len(g.file) <= MaxFile /\ g.offset <= MaxFile
  <2>1. Len(g.file) <= MaxFile /\ g.offset + Len(g.written) <= MaxFile
    BY <1>2 DEF Good, Fits
  <2> QED BY <1>2, <2>1, Lengths, Sizes DEF Chan
<1>4. CASE g.retVal = -1
  <2>1. c = g
    BY <1>4
  <2> HIDE DEF c
  <2>2. Good(g, <<>>, Rises(g))
    <3>1. Good(g, recent, Rises(g)) /\ <<>> \in ByteSeq
      BY <1>2, RisesMore DEF Good, Fits, ByteSeq
    <3>2. Recalls(g, <<>>) /\ Waits(g, <<>>)
      <4>1. Len(<<>>) - 1 = -1
        OBVIOUS
      <4> QED BY <3>1, <4>1 DEF Recalls, Waits, Good
    <3> QED BY <3>1, <3>2 DEF Good
  <2> QED BY <1>1, <1>2, <1>4, <2>1, <2>2, Stays
<1>5. CASE g.retVal # -1
  <2> DEFINE d == IF "close" \in f \/ ch.fd # "open" THEN h ELSE s
  <2>1. c = d
    BY <1>5
  <2> HIDE DEF c
  <2>2. /\ Chan(e) /\ e.unget = <<>> /\ e.written = <<>> /\ e.got = <<>>
        /\ e.size = WriteBufferSize /\ e.file = g.file /\ e.offset = g.offset
        /\ e.currentIndexPosition = g.currentIndexPosition /\ e.short = g.short
    <3>1. <<>> \in ByteSeq /\ WriteBufferSize \in Nat
      BY Sizes DEF ByteSeq
    <3> QED BY <1>2, <3>1 DEF Chan, Names
  <2> HIDE DEF e
  <2>3. x \in {"none", "open", "closed"}
    OBVIOUS
  <2> HIDE DEF x
  <2>4. /\ Chan(h) /\ h.unget = <<>> /\ h.written = <<>> /\ h.got = <<>>
        /\ h.size = WriteBufferSize /\ h.file = g.file /\ h.offset = g.offset
        /\ h.currentIndexPosition = g.currentIndexPosition /\ h.short = g.short
    BY <2>2, <2>3 DEF Chan, Names
  <2> HIDE DEF h
  <2>5. /\ Chan(r) /\ r.unget = <<>> /\ r.written = <<>> /\ r.got = <<>>
        /\ r.size = WriteBufferSize /\ r.file = g.file /\ r.offset = 0
        /\ r.currentIndexPosition = 0
    BY <1>2, ResetIs DEF Chan
  <2> HIDE DEF r
  <2>6. /\ Chan(s) /\ s.unget = <<>> /\ s.written = <<>> /\ s.got = <<>>
        /\ s.size = WriteBufferSize /\ s.file = g.file /\ s.offset = 0
        /\ s.currentIndexPosition = 0 /\ s.short = g.short
    <3>1. g.short \in BOOLEAN
      BY <1>2 DEF Chan
    <3> QED BY <2>5, <3>1 DEF Chan, Names
  <2> HIDE DEF s
  <2>7. /\ Chan(d) /\ d.unget = <<>> /\ d.written = <<>> /\ d.got = <<>>
        /\ d.size = WriteBufferSize /\ d.file = g.file /\ d.short = g.short
        /\ \/ d.offset = 0 /\ d.currentIndexPosition = 0
           \/ d.offset = g.offset /\ d.currentIndexPosition = g.currentIndexPosition
    BY <2>4, <2>6
  <2> HIDE DEF d
  <2>8. Good(d, <<>>, Rises(d)) /\ Cont(d) = d.file /\ Place(d) = d.offset
    BY <1>3, <2>7, EmptyGood, Sizes
  <2>9. CASE g.short = TRUE \/ broken
    <3>1. Excused
      BY <1>1, <2>1, <2>7, <2>9, ReturnIs DEF Excused
    <3> QED BY <1>1, <2>1, <2>8, <3>1, Keeps
  <2>10. CASE ~(g.short = TRUE \/ broken)
    <3>1. g.written = <<>> /\ Cont(g) = g.file /\ Len(g.written) = 0 /\ Len(d.written) = 0
      BY <1>2, <1>5, <2>7, <2>10, ContentOfFile
    <3>2. content' = content /\ place' = ch'.offset /\ ch'.got = <<>> /\ call'[1] = "close"
      BY <1>1, <1>2, <2>1, <2>7, <2>8, <2>10, <3>1, ReturnIs
    <3>3. Stream!Seek(ch'.offset)
      BY <3>2, StreamIs
    <3>4. Promised
      BY <3>2, <3>3 DEF Promised
    <3>5. DriftOf(d) \in {0, DriftOf(g)}
      BY <2>7, <3>1 DEF DriftOf
    <3> QED BY <1>1, <1>2, <2>1, <2>8, <2>10, <3>4, <3>5, Keeps
  <2> QED BY <2>9, <2>10
<1> QED BY <1>4, <1>5

-----------------------------------------------------------------------------
(* Seeks.                                                                   *)

LEMMA TailIs ==
  ASSUME NEW b \in ByteSeq, NEW n \in 0..Len(b), NEW t, t = SubSeq(b, n + 1, Len(b))
  PROVE  /\ t \in ByteSeq /\ Len(t) = Len(b) - n /\ Len(t) \in Nat
         /\ \A i \in 1..Len(t) : t[i] = b[n + i] /\ n + i \in 1..Len(b)
<1>1. Len(b) \in Nat /\ n \in Nat /\ n <= Len(b)
  BY LenProperties DEF ByteSeq
<1>2. \A i \in n + 1 .. Len(b) : b[i] \in Byte
  BY <1>1, ElementOfSeq DEF ByteSeq
<1>3. /\ t \in ByteSeq
      /\ Len(t) = IF n + 1 <= Len(b) THEN Len(b) - (n + 1) + 1 ELSE 0
      /\ \A i \in 1 .. Len(b) - (n + 1) + 1 : t[i] = b[(n + 1) + i - 1]
  BY <1>1, <1>2, SubSeqProperties DEF ByteSeq
<1>4. Len(t) = Len(b) - n /\ Len(t) \in Nat
  BY <1>1, <1>3
<1>5. ASSUME NEW i \in 1..Len(t)
      PROVE  t[i] = b[n + i] /\ n + i \in 1..Len(b)
  <2>1. i \in 1 .. Len(b) - (n + 1) + 1 /\ (n + 1) + i - 1 = n + i /\ n + i \in 1..Len(b)
    BY <1>1, <1>4
  <2> QED BY <1>3, <2>1
<1> QED BY <1>3, <1>4, <1>5

LEMMA HeadIs ==
  ASSUME NEW b \in ByteSeq, NEW n \in 0..Len(b), NEW t, t = SubSeq(b, 1, n)
  PROVE  /\ t \in ByteSeq /\ Len(t) = n
         /\ \A i \in 1..n : t[i] = b[i] /\ i \in 1..Len(b)
<1>1. Len(b) \in Nat /\ n \in Nat /\ n <= Len(b)
  BY LenProperties DEF ByteSeq
<1>2. \A i \in 1..n : b[i] \in Byte
  BY <1>1, ElementOfSeq DEF ByteSeq
<1>3. /\ t \in ByteSeq
      /\ Len(t) = IF 1 <= n THEN n - 1 + 1 ELSE 0
      /\ \A i \in 1 .. n - 1 + 1 : t[i] = b[1 + i - 1]
  BY <1>1, <1>2, SubSeqProperties DEF ByteSeq
<1>4. Len(t) = n
  BY <1>1, <1>3
<1>5. ASSUME NEW i \in 1..n
      PROVE  t[i] = b[i] /\ i \in 1..Len(b)
  <2>1. i \in 1 .. n - 1 + 1 /\ 1 + i - 1 = i /\ i \in 1..Len(b)
    BY <1>1
  <2> QED BY <1>3, <2>1
<1> QED BY <1>3, <1>4, <1>5

\* A caller that has forgotten what it read can unget nothing.
LEMMA Forget ==
  ASSUME NEW c, NEW r, NEW b, Good(c, r, b)
  PROVE  Good(c, <<>>, b)
<1>1. Len(<<>>) - 1 = -1 /\ <<>> \in ByteSeq
  BY DEF ByteSeq
<1>2. Recalls(c, <<>>) /\ Waits(c, <<>>)
  BY <1>1 DEF Good, Recalls, Waits
<1> QED BY <1>1, <1>2 DEF Good

LEMMA LseekIs ==
  ASSUME NEW c, Chan(c), NEW to \in Int, NEW d, d = Lseek(c, to)
  PROVE  /\ Chan(d) /\ Kin(c, d)
         /\ d.written = c.written /\ d.file = c.file /\ d.short = c.short
         /\ \/ d.offset = c.offset /\ d.error = TRUE /\ d.retVal = -1
            \/ /\ to \in Nat /\ d.offset = to /\ d.retVal = to /\ (d.error <=> c.error)
<1>1. CASE to < 0 \/ c.fd # "open"
  <2>1. d = [c EXCEPT !.error = TRUE, !.retVal = -1]
    BY <1>1 DEF Lseek, Fail
  <2>2. Chan(d) /\ Kin(c, d)
    BY <2>1 DEF Chan, Names, Kin
  <2> QED BY <2>1, <2>2 DEF Chan, Names
<1>2. CASE ~(to < 0 \/ c.fd # "open")
  <2>1. d = [c EXCEPT !.offset = to, !.retVal = to] /\ to \in Nat
    BY <1>2 DEF Lseek
  <2>2. Chan(d) /\ Kin(c, d)
    BY <2>1 DEF Chan, Names, Kin
  <2>3. d.offset = to /\ d.retVal = to /\ (d.error <=> c.error)
    BY <2>1 DEF Chan, Names
  <2>4. d.written = c.written /\ d.file = c.file /\ d.short = c.short
    BY <2>1 DEF Chan, Names
  <2> QED BY <2>1, <2>2, <2>3, <2>4
<1> QED BY <1>1, <1>2

\* A seek that leaves no ungot bytes.
LEMMA SoughtGood ==
  ASSUME NEW c, NEW d, NEW r, Good(c, r, broken), Chan(d), d.mode = c.mode,
         d.unget = <<>>, d.written = c.written, d.size = c.size,
         d.file = c.file, Len(d.got) <= MaxIO, d.offset + Len(d.written) <= MaxFile
  PROVE  Good(d, <<>>, Rises(d))
<1>1. Fits(d)
  BY Sizes DEF Good, Fits
<1>2. Rises(d) \in BOOLEAN /\ <<>> \in ByteSeq /\ (Stuck(d) => Rises(d))
  BY DEF Rises, ByteSeq
<1>3. Apart(d, Rises(d)) /\ Waits(d, <<>>) /\ Ungot(d)
  BY DEF Good, Apart, Waits, Ungot
<1>4. Recalls(d, <<>>)
  <2>1. Len(<<>>) - 1 = -1
    OBVIOUS
  <2> QED BY <2>1 DEF Recalls
<1> QED BY <1>1, <1>2, <1>3, <1>4 DEF Good

\* What a seek from the start or the end does.
Sought(c, d, to) ==
    /\ Chan(d) /\ d.mode = c.mode
    /\ d.rdBytesFromLastWrite \in {0, c.rdBytesFromLastWrite}
    /\ d.written = c.written /\ d.size = c.size /\ d.file = c.file
    /\ d.got = c.got /\ d.short = c.short
    /\ \/ /\ d.unget = c.unget /\ d.offset = c.offset
          /\ d.currentIndexPosition = c.currentIndexPosition
          /\ c.fd = "none" \/ d.error = TRUE
       \/ /\ d.unget = <<>> /\ to \in Nat /\ d.offset = to
          /\ d.currentIndexPosition = to

LEMMA SeekToIs ==
  ASSUME NEW c, Chan(c), NEW to \in Int, NEW d, d = SeekTo(c, to)
  PROVE  Sought(c, d, to)
<1>1. CASE c.fd = "none"
  <2>1. d = [c EXCEPT !.retVal = 0]
    BY <1>1 DEF SeekTo
  <2>2. Chan(d)
    BY <2>1 DEF Chan, Names
  <2>3. /\ d.mode = c.mode /\ d.rdBytesFromLastWrite = c.rdBytesFromLastWrite
        /\ d.written = c.written /\ d.size = c.size /\ d.file = c.file
        /\ d.got = c.got /\ d.short = c.short
        /\ d.unget = c.unget /\ d.offset = c.offset
        /\ d.currentIndexPosition = c.currentIndexPosition
    BY <2>1 DEF Chan, Names
  <2> QED BY <1>1, <2>2, <2>3 DEF Sought
<1>2. CASE c.fd # "none"
  <2> DEFINE l == Lseek(c, to)
  <2>1. d = IF l.retVal = -1 THEN l
            ELSE [l EXCEPT !.unget = <<>>, !.currentIndexPosition = to]
    BY <1>2 DEF SeekTo
  <2>2. /\ Chan(l) /\ Kin(c, l)
        /\ l.written = c.written /\ l.file = c.file /\ l.short = c.short
        /\ \/ l.offset = c.offset /\ l.error = TRUE /\ l.retVal = -1
           \/ /\ to \in Nat /\ l.offset = to /\ l.retVal = to /\ (l.error <=> c.error)
    BY LseekIs
  <2> HIDE DEF l
  <2>3. CASE l.retVal = -1
    <3>1. d = l /\ l.offset = c.offset /\ l.error = TRUE
      BY <2>1, <2>2, <2>3
    <3> QED BY <2>2, <3>1 DEF Sought, Kin
  <2>4. CASE l.retVal # -1
    <3>1. d = [l EXCEPT !.unget = <<>>, !.currentIndexPosition = to]
          /\ to \in Nat /\ l.offset = to
      BY <2>1, <2>2, <2>4
    <3>2. <<>> \in ByteSeq
      BY DEF ByteSeq
    <3>3. Chan(d)
      BY <2>2, <3>1, <3>2 DEF Chan, Names
    <3>4. /\ d.mode = l.mode /\ d.rdBytesFromLastWrite = l.rdBytesFromLastWrite
          /\ d.written = l.written /\ d.size = l.size /\ d.file = l.file
          /\ d.got = l.got /\ d.short = l.short
          /\ d.unget = <<>> /\ d.offset = to /\ d.currentIndexPosition = to
      BY <2>2, <3>1 DEF Chan, Names
    <3> QED BY <2>2, <3>1, <3>3, <3>4 DEF Sought, Kin
  <2> QED BY <2>3, <2>4
<1> QED BY <1>1, <1>2

LEMMA SeekFails ==
  ASSUME ChannelInv, ch.isOpen, NEW f, NEW c, c = Flush(Fresh, f), c.retVal = -1,
         NEW name, NEW arg, Return(name, arg, c), recent' \in {recent, <<>>}
  PROVE  Kept
<1>1. /\ Good(c, recent, broken) /\ Chan(c) /\ c.got = <<>> /\ c.error = TRUE
      /\ \/ c.short = TRUE
         \/ Cont(c) = Cont(ch) /\ Place(c) = Place(ch) /\ DriftOf(c) = DriftOf(ch)
  BY FirstFlush
<1>2. Good(c, recent, Rises(c))
  BY <1>1, RisesMore DEF Good, Fits
<1>3. Good(c, recent', Rises(c))
  BY <1>2, Forget
<1> QED BY <1>1, <1>3, Stays

LEMMA SoughtKeeps ==
  ASSUME ChannelInv, ch.isOpen, NEW f, NEW c, c = Flush(Fresh, f), c.retVal # -1,
         NEW to \in Int, NEW d, Sought(c, d, to),
         NEW name, NEW arg, Return(name, arg, d), recent' = <<>>,
         \/ name = "seekTo" /\ arg = to
         \/ name = "seekEnd" /\ to = Len(c.file) - arg
  PROVE  Kept
<1>1. /\ Good(c, recent, broken) /\ Chan(c) /\ c.got = <<>> /\ c.fd = ch.fd
      /\ ~broken => c.written = <<>>
      /\ \/ c.short = TRUE
         \/ Cont(c) = Cont(ch) /\ Place(c) = Place(ch) /\ DriftOf(c) = DriftOf(ch)
  BY FirstFlush
<1>2. /\ Chan(d) /\ d.mode = c.mode
      /\ d.rdBytesFromLastWrite \in {0, c.rdBytesFromLastWrite}
      /\ d.written = c.written /\ d.size = c.size /\ d.file = c.file
      /\ d.got = <<>> /\ d.short = c.short
  BY <1>1 DEF Sought
<1>3. Len(d.got) <= MaxIO
  BY <1>2, Sizes
<1>4. CASE /\ d.unget = c.unget /\ d.offset = c.offset
           /\ d.currentIndexPosition = c.currentIndexPosition
           /\ c.fd = "none" \/ d.error = TRUE
  <2>1. Good(d, recent, Rises(d)) /\ Cont(d) = Cont(c) /\ Place(d) = Place(c)
    BY <1>1, <1>2, <1>3, <1>4, RisesMore
  <2>2. Good(d, recent', Rises(d))
    BY <2>1, Forget
  <2>3. CASE c.fd = "none"
    <3>1. Excused
      BY <1>1, <1>2, <2>3, ReturnIs DEF Excused
    <3> QED BY <2>2, <3>1, Keeps
  <2>4. CASE d.error = TRUE
    <3>1. DriftOf(d) = DriftOf(c)
      BY <1>2, <1>4 DEF DriftOf
    <3>2. \/ d.short = TRUE
          \/ Cont(d) = Cont(ch) /\ Place(d) = Place(ch) /\ DriftOf(d) = DriftOf(ch)
      BY <1>1, <1>2, <2>1, <3>1
    <3> QED BY <1>2, <2>2, <2>4, <3>2, Stays
  <2> QED BY <1>4, <2>3, <2>4
<1>5. CASE /\ d.unget = <<>> /\ to \in Nat /\ d.offset = to
           /\ d.currentIndexPosition = to
  <2>1. d.offset + Len(d.written) <= MaxFile
    BY <1>2, ReturnIs DEF Bounded
  <2>2. Good(d, recent', Rises(d))
    BY <1>1, <1>2, <1>3, <1>5, <2>1, SoughtGood
  <2>3. CASE c.short = TRUE \/ broken
    <3>1. Excused
      BY <1>2, <2>3, ReturnIs DEF Excused
    <3> QED BY <2>2, <3>1, Keeps
  <2>4. CASE ~(c.short = TRUE \/ broken)
    <3>1. d.written = <<>> /\ Len(d.written) = 0 /\ Len(d.unget) = 0 /\ Cont(c) = c.file
          /\ Cont(d) = d.file
      BY <1>1, <1>2, <1>5, <2>4, ContentOfFile
    <3>2. Place(d) = to /\ DriftOf(d) = 0
      <4>1. Place(d) = (to + 0) - 0 /\ DriftOf(d) = to - to - 0
        BY <1>5, <3>1 DEF Place, DriftOf
      <4> QED BY <4>1
    <3>3. content = c.file /\ content' = content /\ place' = to /\ ch'.got = <<>>
          /\ call'[1] = name /\ call'[2] = arg
      BY <1>1, <1>2, <2>4, <3>1, <3>2, ReturnIs
    <3>4. Stream!Seek(to)
      BY <3>3, StreamIs
    <3>5. Promised
      BY <3>3, <3>4 DEF Promised
    <3> QED BY <2>2, <3>2, <3>5, Keeps
  <2> QED BY <2>3, <2>4
<1> QED BY <1>4, <1>5 DEF Sought

LEMMA SeekToKeeps ==
  ASSUME ChannelInv, NEW f, NEW to \in Int, SeekSet(to, f)
  PROVE  Kept
<1> DEFINE c == Flush(Fresh, f)
           d == SeekTo(c, to)
<1>1. ch.isOpen /\ recent' = <<>>
      /\ Return("seekTo", to, IF c.retVal = -1 THEN c ELSE d)
  BY DEF SeekSet, Seek, Allowed
<1>2. Sought(c, d, to)
  BY <1>1, FirstFlush, SeekToIs
<1>3. c = Flush(Fresh, f)
  OBVIOUS
<1> HIDE DEF c, d
<1>4. CASE c.retVal = -1
  <2>1. Return("seekTo", to, c) /\ recent' \in {recent, <<>>}
    BY <1>1, <1>4
  <2> QED BY <1>1, <1>3, <1>4, <2>1, SeekFails
<1>5. CASE c.retVal # -1
  <2>1. Return("seekTo", to, d)
    BY <1>1, <1>5
  <2> QED BY <1>1, <1>2, <1>3, <1>5, <2>1, SoughtKeeps
<1> QED BY <1>4, <1>5

LEMMA SeekEndKeeps ==
  ASSUME ChannelInv, NEW f, NEW back \in Int, SeekEnd(back, f)
  PROVE  Kept
<1> DEFINE c == Flush(Fresh, f)
           to == Len(c.file) - back
           d == SeekTo(c, to)
<1>1. ch.isOpen /\ recent' = <<>>
      /\ Return("seekEnd", back, IF c.retVal = -1 THEN c ELSE d)
  BY DEF SeekEnd, Seek, Allowed
<1>2. c = Flush(Fresh, f) /\ to = Len(c.file) - back
  OBVIOUS
<1> HIDE DEF c
<1>3. to \in Int /\ Chan(c)
  <2>1. Chan(c)
    BY <1>1, <1>2, FirstFlush
  <2>2. Len(c.file) \in Int
    BY <2>1, Lengths
  <2> QED BY <2>1, <2>2
<1> HIDE DEF to
<1>4. Sought(c, d, to)
  BY <1>3, SeekToIs
<1> HIDE DEF d
<1>5. CASE c.retVal = -1
  <2>1. Return("seekEnd", back, c) /\ recent' \in {recent, <<>>}
    BY <1>1, <1>5
  <2> QED BY <1>1, <1>2, <1>5, <2>1, SeekFails
<1>6. CASE c.retVal # -1
  <2>1. Return("seekEnd", back, d)
    BY <1>1, <1>6
  <2> QED BY <1>1, <1>3, <1>2, <1>4, <1>6, <2>1, SoughtKeeps
<1> QED BY <1>5, <1>6

LEMMA RewindKeeps ==
  ASSUME ChannelInv, NEW f, Rewind(f)
  PROVE  Kept
<1> DEFINE c == Flush(Fresh, f)
           e == SeekTo(c, 0)
           x == e.foundEof /\ e.retVal # 0
           d == [e EXCEPT !.foundEof = x]
<1>1. ch.isOpen /\ recent' = <<>>
      /\ Return("seekTo", 0, IF c.retVal = -1 THEN c ELSE d)
  BY DEF Rewind, Seek, Allowed
<1>2. c = Flush(Fresh, f) /\ x \in BOOLEAN
  OBVIOUS
<1> HIDE DEF c, x
<1>3. Sought(c, e, 0)
  <2>1. Chan(c)
    BY <1>1, <1>2, FirstFlush
  <2> QED BY <2>1, SeekToIs
<1> HIDE DEF e
<1>4. Chan(e)
  BY <1>3 DEF Sought
<1>5. /\ Chan(d) /\ d.mode = e.mode /\ d.rdBytesFromLastWrite = e.rdBytesFromLastWrite
      /\ d.written = e.written /\ d.size = e.size /\ d.file = e.file
      /\ d.got = e.got /\ d.short = e.short /\ d.error = e.error
      /\ d.unget = e.unget /\ d.offset = e.offset
      /\ d.currentIndexPosition = e.currentIndexPosition
  BY <1>2, <1>4 DEF Chan, Names
<1> HIDE DEF d
<1>6. Sought(c, d, 0)
  BY <1>3, <1>5 DEF Sought
<1>7. CASE c.retVal = -1
  <2>1. Return("seekTo", 0, c) /\ recent' \in {recent, <<>>}
    BY <1>1, <1>7
  <2> QED BY <1>1, <1>2, <1>7, <2>1, SeekFails
<1>8. CASE c.retVal # -1
  <2>1. Return("seekTo", 0, d)
    BY <1>1, <1>8
  <2> QED BY <1>1, <1>2, <1>6, <1>8, <2>1, SoughtKeeps
<1> QED BY <1>7, <1>8

\* Seeking forward within the ungot bytes takes as many of them away.
LEMMA UngotTail ==
  ASSUME NEW c, NEW d, NEW r, Good(c, r, broken), Chan(d),
         NEW k \in 1..Len(c.unget) - 1,
         d.unget = SubSeq(c.unget, k + 1, Len(c.unget)),
         d.mode = c.mode, d.written = c.written, d.size = c.size,
         d.file = c.file, d.offset = c.offset, Len(d.got) <= MaxIO
  PROVE  /\ Good(d, <<>>, Rises(d)) /\ Cont(d) = Cont(c) /\ Place(d) = Place(c) + k
         /\ d.unget # <<>>
<1>1. Chan(c) /\ c.unget \in ByteSeq /\ Len(c.unget) \in Nat /\ k \in 0..Len(c.unget)
      /\ k \in Nat /\ c.offset \in Int /\ Len(c.written) \in Int
  BY Lengths DEF Good, Chan
<1>2. /\ Len(d.unget) = Len(c.unget) - k /\ Len(d.unget) \in Nat
      /\ \A i \in 1..Len(d.unget) :
            d.unget[i] = c.unget[k + i] /\ k + i \in 1..Len(c.unget)
  BY <1>1, TailIs
<1>3. Cont(d) = Cont(c)
  BY DEF Cont
<1>4. Place(d) = Place(c) + k
  BY <1>1, <1>2 DEF Place
<1>5. Len(d.unget) > 0 /\ d.unget # <<>> /\ c.unget # <<>>
  <2>1. Len(d.unget) > 0 /\ Len(c.unget) > 0
    BY <1>1, <1>2
  <2>2. Len(<<>>) = 0
    OBVIOUS
  <2>3. d.unget # <<>>
    <3>1. CASE d.unget = <<>>
      BY <2>1, <2>2, <3>1
    <3> QED BY <3>1
  <2>4. c.unget # <<>>
    <3>1. CASE c.unget = <<>>
      BY <2>1, <2>2, <3>1
    <3> QED BY <3>1
  <2> QED BY <2>1, <2>3, <2>4
<1>6. Fits(d)
  BY <1>1, <1>2, Sizes DEF Good, Fits
<1>7. Rises(d) \in BOOLEAN /\ <<>> \in ByteSeq /\ (Stuck(d) => Rises(d))
      /\ (broken => Rises(d))
  BY DEF Rises, ByteSeq
<1>8. Apart(d, Rises(d)) /\ Waits(d, <<>>)
  BY <1>5, <1>7 DEF Good, Apart, Waits
<1>9. ~Rises(d) => Ungot(d)
  <2>1. SUFFICES ASSUME ~Rises(d)
                 PROVE  /\ Place(d) \in Nat /\ Place(d) + Len(d.unget) <= Len(Cont(d))
                        /\ \A i \in 1..Len(d.unget) : d.unget[i] = Cont(d)[Place(d) + i]
    BY DEF Ungot
  <2>2. /\ Place(c) \in Nat /\ Place(c) + Len(c.unget) <= Len(Cont(c))
        /\ \A i \in 1..Len(c.unget) : c.unget[i] = Cont(c)[Place(c) + i]
    BY <1>5, <1>7, <2>1 DEF Good, Ungot
  <2>3. Len(Cont(c)) \in Nat
    BY <1>1, ContentTyped
  <2>4. Place(d) \in Nat /\ Place(d) + Len(d.unget) <= Len(Cont(d))
    BY <1>1, <1>2, <1>3, <1>4, <2>2, <2>3
  <2>5. ASSUME NEW i \in 1..Len(d.unget)
        PROVE  d.unget[i] = Cont(d)[Place(d) + i]
    <3>1. d.unget[i] = Cont(c)[Place(c) + (k + i)]
      BY <1>2, <2>2
    <3>2. Place(c) + (k + i) = Place(d) + i
      BY <1>1, <1>4, <2>2
    <3> QED BY <1>3, <3>1, <3>2
  <2> QED BY <2>4, <2>5
<1>10. Recalls(d, <<>>)
  <2>1. Len(<<>>) - 1 = -1
    OBVIOUS
  <2> QED BY <2>1 DEF Recalls
<1> QED BY <1>3, <1>4, <1>5, <1>6, <1>7, <1>8, <1>9, <1>10 DEF Good

\* How a seek from the current place ends.
LEMMA SeekByEnds ==
  ASSUME ChannelInv, ch.isOpen, NEW f, NEW c, c = Flush(Fresh, f), c.retVal # -1,
         NEW offset \in Int, NEW d, Return("seekBy", offset, d),
         Good(d, recent', Rises(d)), d.got = <<>>,
         \/ ch.fd = "none" \/ d.error = TRUE \/ d.short = TRUE \/ broken
         \/ ch.unget # <<>> /\ offset >= Len(ch.unget)
         \/ Cont(d) = Cont(ch) /\ Place(d) = Place(ch) + offset
  PROVE  Kept
<1>1. Chan(d)
  BY DEF Good
<1>2. /\ call'[1] = "seekBy" /\ call'[2] = offset /\ ch'.error = d.error
      /\ ch'.short = d.short /\ content = Cont(ch) /\ content' = Cont(d)
      /\ place = Place(ch) /\ place' = Place(d) /\ ch'.got = <<>>
  BY <1>1, ReturnIs
<1>3. CASE \/ ch.fd = "none" \/ d.error = TRUE \/ d.short = TRUE \/ broken
           \/ ch.unget # <<>> /\ offset >= Len(ch.unget)
  <2>1. Excused
    BY <1>2, <1>3 DEF Excused
  <2> QED BY <2>1, Keeps
<1>4. CASE Cont(d) = Cont(ch) /\ Place(d) = Place(ch) + offset
  <2>1. Stream!Seek(place + offset)
    BY <1>2, <1>4, StreamIs
  <2>2. Promised
    BY <1>2, <2>1 DEF Promised
  <2> QED BY <2>2, Keeps
<1> QED BY <1>3, <1>4

LEMMA SeekCurKeeps ==
  ASSUME ChannelInv, NEW f, NEW offset \in Int, SeekCur(offset, f)
  PROVE  Kept
<1> DEFINE c == Flush(Fresh, f)
           d == SeekBy(c, offset)
<1>1. /\ ch.isOpen /\ recent' = IF offset = 0 THEN recent ELSE <<>>
      /\ Return("seekBy", offset, IF c.retVal = -1 THEN c ELSE d)
  BY DEF SeekCur, Seek, Allowed
<1>2. c = Flush(Fresh, f) /\ d = SeekBy(c, offset)
  OBVIOUS
<1> HIDE DEF c, d
<1>3. /\ Good(c, recent, broken) /\ Chan(c) /\ c.got = <<>> /\ c.fd = ch.fd
      /\ c.unget = ch.unget
      /\ ~broken => c.retVal = -1 \/ c.written = <<>>
      /\ ch.written = <<>> => c.offset = ch.offset /\ c.written = <<>>
      /\ \/ c.short = TRUE
         \/ Cont(c) = Cont(ch) /\ Place(c) = Place(ch) /\ DriftOf(c) = DriftOf(ch)
  BY <1>1, <1>2, FirstFlush
<1>4. CASE c.retVal = -1
  <2>1. Return("seekBy", offset, c) /\ recent' \in {recent, <<>>}
    BY <1>1, <1>4
  <2> QED BY <1>1, <1>2, <1>4, <2>1, SeekFails
<1>5. CASE c.retVal # -1
  <2>1. Return("seekBy", offset, d)
    BY <1>1, <1>5
  <2>2. /\ Len(c.unget) \in Nat /\ Len(c.written) \in Nat /\ c.offset \in Nat
        /\ (c.written = <<>> => Len(c.written) = 0)
        /\ (c.unget = <<>> <=> Len(c.unget) = 0)
    BY <1>3, Lengths DEF Chan
  <2>3. c.short \in BOOLEAN /\ MaxIO >= 0 /\ Len(c.got) = 0
    BY <1>3, Sizes DEF Chan
  \* Nothing happens to the channel.
  <2>4. ASSUME NEW v \in Int, d = [c EXCEPT !.retVal = v],
               ch.fd = "none" \/ offset = 0 \/ (ch.unget # <<>> /\ offset >= Len(ch.unget))
        PROVE  Kept
    <3>1. /\ Chan(d) /\ d.mode = c.mode /\ d.rdBytesFromLastWrite = c.rdBytesFromLastWrite
          /\ d.unget = c.unget /\ d.written = c.written /\ d.size = c.size
          /\ d.file = c.file /\ d.offset = c.offset /\ d.got = <<>> /\ d.short = c.short
      BY <1>3, <2>4 DEF Chan, Names
    <3>2. Good(d, recent, Rises(d)) /\ Cont(d) = Cont(c) /\ Place(d) = Place(c)
      BY <1>3, <2>3, <3>1, RisesMore
    <3>3. Good(d, recent', Rises(d))
      BY <1>1, <3>2, Forget
    <3>4. offset = 0 => Place(d) = Place(c) + offset
      BY <2>2, <3>2 DEF Place
    <3> QED BY <1>1, <1>2, <1>3, <1>5, <2>1, <2>4, <3>1, <3>2, <3>3, <3>4, SeekByEnds
  <2>5. c.retVal \in Int /\ c.currentIndexPosition \in Int
    BY <1>3 DEF Chan
  <2>6. CASE c.fd = "none"
    <3>1. d = [c EXCEPT !.retVal = 0]
      BY <1>2, <2>6 DEF SeekBy
    <3> QED BY <1>3, <2>4, <2>6, <3>1
  <2>7. CASE c.fd # "none" /\ offset = 0
    <3>1. d = [c EXCEPT !.retVal = c.currentIndexPosition]
      BY <1>2, <2>7 DEF SeekBy
    <3> QED BY <2>4, <2>5, <2>7, <3>1
  <2>8. CASE c.fd # "none" /\ offset < 0
    <3> DEFINE to == (c.offset + offset) - Len(c.unget)
               l == Lseek(c, to)
    <3>1. d = [l EXCEPT !.unget = <<>>]
      <4>1. c.offset + offset - Len(c.unget) = to
        <5>1. \A o, w, u \in Int : (o + w) - u = o + (w - u)
          OBVIOUS
        <5> QED BY <2>2, <5>1
      <4>2. d = SeekBack(c, offset)
        BY <1>2, <2>8 DEF SeekBy
      <4> QED BY <4>1, <4>2 DEF SeekBack
    <3>2. to \in Int
      BY <2>2
    <3>3. to = (c.offset + offset) - Len(c.unget)
      OBVIOUS
    <3> HIDE DEF to
    <3>4. /\ Chan(l) /\ Kin(c, l)
          /\ l.written = c.written /\ l.file = c.file /\ l.short = c.short
          /\ \/ l.offset = c.offset /\ l.error = TRUE /\ l.retVal = -1
             \/ /\ to \in Nat /\ l.offset = to /\ l.retVal = to /\ (l.error <=> c.error)
      BY <1>3, <3>2, LseekIs
    <3> HIDE DEF l
    <3>5. /\ Chan(d) /\ d.mode = l.mode /\ d.unget = <<>> /\ d.written = l.written
          /\ d.size = l.size /\ d.file = l.file /\ d.offset = l.offset
          /\ d.got = l.got /\ d.short = l.short /\ d.error = l.error
      <4>1. <<>> \in ByteSeq
        BY DEF ByteSeq
      <4> QED BY <3>1, <3>4, <4>1 DEF Chan, Names
    <3>6. /\ d.mode = c.mode /\ d.written = c.written /\ d.size = c.size
          /\ d.file = c.file /\ d.got = <<>> /\ d.short = c.short
      BY <1>3, <3>4, <3>5 DEF Kin
    <3>7. Good(d, recent', Rises(d))
      <4>1. d.offset + Len(d.written) <= MaxFile
        BY <2>1, <3>5, ReturnIs DEF Bounded
      <4>2. recent' = <<>>
        BY <1>1, <2>8
      <4>3. Len(d.got) <= MaxIO
        BY <1>3, <2>3, <3>6
      <4> QED BY <1>3, <3>5, <3>6, <4>1, <4>2, <4>3, SoughtGood
    <3>8. d.error = TRUE \/ d.short = TRUE \/ broken
          \/ (Cont(d) = Cont(ch) /\ Place(d) = Place(ch) + offset)
      <4>1. SUFFICES ASSUME d.error # TRUE, d.short # TRUE, ~broken
                     PROVE  Cont(d) = Cont(ch) /\ Place(d) = Place(ch) + offset
        OBVIOUS
      <4>2. c.written = <<>> /\ Cont(c) = Cont(ch) /\ Place(c) = Place(ch) /\ d.offset = to
        BY <1>3, <1>5, <3>4, <3>5, <3>6, <4>1
      <4>3. Cont(d) = Cont(ch)
        BY <3>6, <4>2, ContentOfFile
      <4>4. Len(d.written) = 0 /\ Len(d.unget) = 0
        BY <3>5, <3>6, <4>2
      <4>5. Place(d) = (to + 0) - 0 /\ Place(c) = (c.offset + 0) - Len(c.unget)
        BY <2>2, <3>5, <4>2, <4>4 DEF Place
      <4>6. Place(d) = Place(c) + offset
        BY <2>2, <3>2, <3>3, <4>5
      <4> QED BY <4>2, <4>3, <4>6
    <3> QED BY <1>1, <1>2, <1>5, <2>1, <3>6, <3>7, <3>8, SeekByEnds
  <2>9. CASE c.fd # "none" /\ offset > 0
    <3>1. d = SeekForward(c, offset) /\ recent' = <<>>
      BY <1>1, <1>2, <2>9 DEF SeekBy
    <3>2. CASE offset = Len(c.unget)
      <4>1. d = [c EXCEPT !.retVal = c.currentIndexPosition]
        BY <2>2, <3>1, <3>2 DEF SeekForward
      <4>2. ch.unget # <<>> /\ offset >= Len(ch.unget)
        BY <1>3, <2>2, <2>9, <3>2
      <4> QED BY <2>4, <2>5, <4>1, <4>2
    <3>3. CASE offset < Len(c.unget)
      <4> DEFINE t == SubSeq(c.unget, offset + 1, Len(c.unget))
                 v == c.currentIndexPosition - (Len(c.unget) - offset)
      <4>1. d = [c EXCEPT !.unget = t, !.retVal = v]
        BY <2>2, <3>1, <3>3 DEF SeekForward
      <4>2. offset \in 1..Len(c.unget) - 1 /\ offset \in 0..Len(c.unget) /\ v \in Int
        BY <2>2, <2>5, <2>9, <3>3
      <4>3. t \in ByteSeq
        BY <1>3, <4>2, TailIs DEF Chan
      <4>4. t = SubSeq(c.unget, offset + 1, Len(c.unget))
        OBVIOUS
      <4> HIDE DEF t, v
      <4>5. /\ Chan(d) /\ d.mode = c.mode /\ d.unget = t /\ d.written = c.written
            /\ d.size = c.size /\ d.file = c.file /\ d.offset = c.offset
            /\ d.got = <<>> /\ d.short = c.short
        BY <1>3, <4>1, <4>2, <4>3 DEF Chan, Names
      <4>6. Len(d.got) <= MaxIO
        BY <1>3, <2>3, <4>5
      <4>7. /\ Good(d, <<>>, Rises(d)) /\ Cont(d) = Cont(c) /\ Place(d) = Place(c) + offset
        BY <1>3, <4>2, <4>4, <4>5, <4>6, UngotTail
      <4> QED BY <1>1, <1>2, <1>3, <1>5, <2>1, <3>1, <4>5, <4>7, SeekByEnds
    <3>4. CASE offset > Len(c.unget)
      <4> DEFINE to == (c.offset + offset) - Len(c.unget)
      <4>1. d = Lseek(c, to)
        <5>1. c.offset + offset - Len(c.unget) = to
          <6>1. \A o, w, u \in Int : (o + w) - u = o + (w - u)
            OBVIOUS
          <6> QED BY <2>2, <6>1
        <5>2. d = Lseek(c, c.offset + offset - Len(c.unget))
          BY <2>2, <3>1, <3>4 DEF SeekForward
        <5> QED BY <5>1, <5>2
      <4>2. to \in Int /\ to > c.offset
        BY <2>2, <3>4
      <4>3. to = (c.offset + offset) - Len(c.unget)
        OBVIOUS
      <4> HIDE DEF to
      <4>4. /\ Chan(d) /\ Kin(c, d)
            /\ d.written = c.written /\ d.file = c.file /\ d.short = c.short
            /\ \/ d.offset = c.offset /\ d.error = TRUE
               \/ d.offset = to
        <5> DEFINE l == Lseek(c, to)
        <5>1. /\ Chan(l) /\ Kin(c, l)
              /\ l.written = c.written /\ l.file = c.file /\ l.short = c.short
              /\ \/ l.offset = c.offset /\ l.error = TRUE /\ l.retVal = -1
                 \/ /\ to \in Nat /\ l.offset = to /\ l.retVal = to /\ (l.error <=> c.error)
          BY <1>3, <4>2, LseekIs
        <5>2. d = l
          BY <4>1
        <5> HIDE DEF l
        <5> QED BY <5>1, <5>2
      <4>5. /\ d.mode = c.mode /\ d.rdBytesFromLastWrite = c.rdBytesFromLastWrite
            /\ d.unget = c.unget /\ d.size = c.size /\ d.got = <<>>
        BY <1>3, <4>4 DEF Kin
      <4>6. Len(d.got) <= MaxIO
        BY <1>3, <2>3, <4>5
      <4>7. CASE d.offset = c.offset /\ d.error = TRUE
        <5>1. Good(d, recent, Rises(d))
          BY <1>3, <4>4, <4>5, <4>6, <4>7, RisesMore
        <5>2. Good(d, recent', Rises(d))
          BY <3>1, <5>1, Forget
        <5> QED BY <1>1, <1>2, <1>5, <2>1, <4>5, <4>7, <5>2, SeekByEnds
      <4>8. CASE d.offset = to /\ c.unget = <<>>
        <5>1. d.offset + Len(d.written) <= MaxFile
          BY <2>1, <4>4, ReturnIs DEF Bounded
        <5>2. Good(d, recent', Rises(d))
          BY <1>3, <3>1, <4>4, <4>5, <4>6, <4>8, <5>1, SoughtGood
        <5>3. d.short = TRUE \/ broken
              \/ (Cont(d) = Cont(ch) /\ Place(d) = Place(ch) + offset)
          <6>1. SUFFICES ASSUME d.short # TRUE, ~broken
                         PROVE  Cont(d) = Cont(ch) /\ Place(d) = Place(ch) + offset
            OBVIOUS
          <6>2. c.written = <<>> /\ Cont(c) = Cont(ch) /\ Place(c) = Place(ch)
            BY <1>3, <1>5, <4>4, <6>1
          <6>3. Cont(d) = Cont(ch)
            BY <4>4, <6>2, ContentOfFile
          <6>4. Len(d.written) = 0 /\ Len(d.unget) = 0 /\ Len(c.unget) = 0
            BY <4>4, <4>5, <4>8, <6>2
          <6>5. Place(d) = (to + 0) - 0 /\ Place(c) = (c.offset + 0) - 0
            BY <2>2, <4>8, <6>2, <6>4 DEF Place
          <6>6. Place(d) = Place(c) + offset
            BY <2>2, <4>2, <4>3, <6>4, <6>5
          <6> QED BY <6>2, <6>3, <6>6
        <5> QED BY <1>1, <1>2, <1>5, <2>1, <4>5, <5>2, <5>3, SeekByEnds
      <4>9. CASE d.offset = to /\ c.unget # <<>>
        <5>1. Rises(d)
          <6>1. CASE broken
            BY <6>1 DEF Rises
          <6>2. CASE ~broken
            <7>1. ch.unget # <<>> /\ ch.written = <<>>
              BY <1>3, <4>9, <6>2 DEF ChannelInv, Good, Apart
            <7>2. c.offset = ch.offset /\ d.written = <<>>
              BY <1>3, <4>4, <7>1
            <7>3. Len(d.written) = 0 /\ Len(ch.written) = 0
              BY <7>1, <7>2
            <7>4. d.offset + Len(d.written) > ch.offset + Len(ch.written)
              BY <2>2, <4>2, <4>9, <7>2, <7>3
            <7> QED BY <7>1, <7>4 DEF Rises
          <6> QED BY <6>1, <6>2
        <5>2. Good(d, <<>>, Rises(d))
          <6>1. d.offset + Len(d.written) <= MaxFile
            BY <2>1, <4>4, ReturnIs DEF Bounded
          <6>2. Fits(d)
            BY <1>3, <4>4, <4>5, <4>6, <6>1 DEF Good, Fits
          <6>3. <<>> \in ByteSeq /\ Len(<<>>) - 1 = -1
            BY DEF ByteSeq
          <6>4. Rises(d) \in BOOLEAN
            BY DEF Rises
          <6>5. Waits(d, <<>>)
            BY <1>3, <4>4, <4>5 DEF Good, Waits
          <6>6. Recalls(d, <<>>)
            BY <6>3 DEF Recalls
          <6> QED BY <4>4, <5>1, <6>2, <6>3, <6>4, <6>5, <6>6 DEF Good, Apart
        <5>3. ch.unget # <<>> /\ offset >= Len(ch.unget)
          BY <1>3, <2>2, <3>4, <4>9
        <5> QED BY <1>1, <1>2, <1>5, <2>1, <3>1, <4>5, <5>2, <5>3, SeekByEnds
      <4> QED BY <4>4, <4>7, <4>8, <4>9
    <3> QED BY <2>2, <3>2, <3>3, <3>4
  <2> QED BY <2>6, <2>7, <2>8, <2>9
<1> QED BY <1>4, <1>5

-----------------------------------------------------------------------------
(* Reads.                                                                   *)

\* Block b lies in s from place p on.
Lies(s, p, b) ==
    /\ p \in Nat
    /\ b # <<>> => p + Len(b) <= Len(s)
    /\ \A i \in 1..Len(b) : b[i] = s[p + i]

\* The bytes read now, after those read before, lie before the new place.
LEMMA RecallsMore ==
  ASSUME NEW c, NEW d, NEW r \in ByteSeq, NEW b \in ByteSeq, Chan(c), Chan(d),
         Recalls(c, r), Lies(Cont(c), Place(c), b), Cont(d) = Cont(c),
         Place(d) = Place(c) + Len(b),
         d.rdBytesFromLastWrite = c.rdBytesFromLastWrite + Len(b)
  PROVE  Recalls(d, r \o b)
<1>1. /\ Len(r) \in Nat /\ Len(b) \in Nat /\ Place(c) \in Nat /\ Len(Cont(c)) \in Nat
      /\ c.rdBytesFromLastWrite \in Nat
  BY LenProperties, ContentTyped DEF ByteSeq, Lies, Chan
<1>2. /\ Len(r \o b) = Len(r) + Len(b)
      /\ \A i \in 1..Len(r) + Len(b) : (r \o b)[i] = IF i <= Len(r) THEN r[i] ELSE b[i - Len(r)]
  BY ConcatProperties DEF ByteSeq
<1> DEFINE s == Cont(c)
           p == Place(c)
           k == Len(b)
           m == Len(r)
           rb == r \o b
<1>3. /\ k > 0 => p + k <= Len(s)
      /\ \A i \in 1..k : b[i] = s[p + i]
  <2>1. k > 0 => b # <<>>
    OBVIOUS
  <2> QED BY <2>1 DEF Lies
<1>4. \A j \in 0..m - 1 : j < c.rdBytesFromLastWrite =>
          j < p /\ p - j <= Len(s) /\ r[m - j] = s[p - j]
  BY DEF Recalls
<1>5. /\ p \in Nat /\ k \in Nat /\ m \in Nat /\ Len(s) \in Nat
      /\ Len(rb) = m + k
      /\ \A i \in 1..m + k : rb[i] = IF i <= m THEN r[i] ELSE b[i - m]
  BY <1>1, <1>2
<1>6. Cont(d) = s /\ Place(d) = p + k
      /\ d.rdBytesFromLastWrite = c.rdBytesFromLastWrite + k
  OBVIOUS
<1> HIDE DEF s, p, k, m, rb
<1>7. ASSUME NEW j \in 0..Len(rb) - 1, j < d.rdBytesFromLastWrite
      PROVE  j < Place(d) /\ Place(d) - j <= Len(Cont(d))
             /\ rb[Len(rb) - j] = Cont(d)[Place(d) - j]
  <2>1. j \in Nat /\ j < m + k /\ Len(rb) - j \in 1..m + k /\ Len(rb) - j = (m + k) - j
    BY <1>5
  <2>2. CASE j < k
    <3>1. k - j \in 1..k /\ ((m + k) - j) - m = k - j /\ ~((m + k) - j <= m)
          /\ p + (k - j) = (p + k) - j
      BY <1>5, <2>1, <2>2
    <3>2. rb[Len(rb) - j] = b[k - j]
      <4>1. rb[(m + k) - j] = b[((m + k) - j) - m]
        BY <1>5, <2>1, <3>1
      <4> QED BY <2>1, <3>1, <4>1
    <3>3. b[k - j] = s[p + (k - j)]
      BY <1>3, <3>1
    <3>4. j < p + k /\ (p + k) - j <= Len(s)
      BY <1>3, <1>5, <2>1, <2>2
    <3> QED BY <1>6, <3>1, <3>2, <3>3, <3>4
  <2>3. CASE j >= k
    <3> DEFINE i == j - k
    <3>1. i \in 0..m - 1 /\ i < c.rdBytesFromLastWrite /\ (m + k) - j = m - i
          /\ p - i = (p + k) - j /\ m - i <= m /\ i \in Nat
      BY <1>1, <1>5, <1>6, <1>7, <2>1, <2>3
    <3> HIDE DEF i
    <3>2. i < p /\ p - i <= Len(s) /\ r[m - i] = s[p - i]
      BY <1>4, <3>1
    <3>3. rb[Len(rb) - j] = r[m - i]
      <4>1. rb[(m + k) - j] = r[(m + k) - j]
        BY <1>5, <2>1, <3>1
      <4> QED BY <2>1, <3>1, <4>1
    <3>4. j < p + k
      BY <1>5, <2>1, <3>1, <3>2
    <3> QED BY <1>6, <3>1, <3>2, <3>3, <3>4
  <2> QED BY <1>5, <2>1, <2>2, <2>3
<1>8. \A j \in 0..Len(rb) - 1 : j < d.rdBytesFromLastWrite =>
          j < Place(d) /\ Place(d) - j <= Len(Cont(d))
          /\ rb[Len(rb) - j] = Cont(d)[Place(d) - j]
  BY <1>7
<1> QED BY <1>8 DEF Recalls, rb

\* What a read begins with: the write buffer has been flushed, or was empty.
LEMMA ReadFlush ==
  ASSUME ChannelInv, ch.isOpen, NEW f,
         NEW d, d = IF Fresh.mode = "R_ONLY" THEN Fresh ELSE Flush(Fresh, f)
  PROVE  /\ Good(d, recent, broken) /\ Chan(d) /\ d.got = <<>>
         /\ d.unget = ch.unget /\ d.aborted = ch.aborted
         /\ d.retVal = -1 => d.error = TRUE
         /\ d.retVal # -1 /\ ~broken => d.written = <<>>
         /\ \/ d.short = TRUE
            \/ Cont(d) = Cont(ch) /\ Place(d) = Place(ch) /\ DriftOf(d) = DriftOf(ch)
<1>1. Chan(ch)
  BY DEF ChannelInv, Good
<1>2. CASE Fresh.mode = "R_ONLY"
  <2>1. d = Fresh
    BY <1>2
  <2>2. /\ Good(Fresh, recent, broken) /\ Chan(Fresh) /\ Fresh.got = <<>>
        /\ Fresh.unget = ch.unget /\ Fresh.aborted = ch.aborted /\ Fresh.retVal = 0
        /\ Cont(Fresh) = Cont(ch) /\ Place(Fresh) = Place(ch)
        /\ DriftOf(Fresh) = DriftOf(ch)
    BY <1>1, FreshIs, FreshGood
  <2>3. Fresh.written = <<>>
    BY <1>2, <2>2 DEF Good, Waits
  <2> HIDE DEF Fresh
  <2> QED BY <2>1, <2>2, <2>3
<1>3. CASE Fresh.mode # "R_ONLY"
  <2>1. d = Flush(Fresh, f)
    BY <1>3
  <2>2. /\ Good(d, recent, broken) /\ Chan(d) /\ d.got = <<>>
        /\ d.unget = ch.unget /\ d.aborted = ch.aborted
    BY <2>1, FirstFlush
  <2>3. /\ d.retVal = -1 => d.error = TRUE
        /\ d.retVal # -1 /\ ~broken => d.written = <<>>
    BY <2>1, FirstFlush
  <2>4. \/ d.short = TRUE
        \/ Cont(d) = Cont(ch) /\ Place(d) = Place(ch) /\ DriftOf(d) = DriftOf(ch)
    <3>1. \/ d.short = TRUE /\ d.error = TRUE
          \/ /\ Cont(d) = Cont(ch) /\ Place(d) = Place(ch) /\ DriftOf(d) = DriftOf(ch)
             /\ d.short = FALSE
      BY <2>1, FirstFlush
    <3> QED BY <3>1
  <2> QED BY <2>2, <2>3, <2>4
<1> QED BY <1>2, <1>3

\* A channel that differs in what may be ungot, when nothing may.
LEMMA ForgetGood ==
  ASSUME NEW c, NEW d, NEW r, Good(c, r, broken), Chan(d), d.mode = c.mode,
         d.unget = c.unget, d.written = c.written, d.size = c.size,
         d.file = c.file, d.offset = c.offset, Len(d.got) <= MaxIO
  PROVE  Good(d, <<>>, Rises(d))
<1>1. Cont(d) = Cont(c) /\ Place(d) = Place(c)
  BY DEF Cont, Place
<1>2. Rises(d) \in BOOLEAN /\ <<>> \in ByteSeq /\ (Stuck(d) => Rises(d))
      /\ (broken => Rises(d)) /\ Len(<<>>) - 1 = -1
  BY DEF Rises, ByteSeq
<1>3. Fits(d)
  BY DEF Good, Fits
<1>4. Apart(d, Rises(d)) /\ Waits(d, <<>>) /\ (~Rises(d) => Ungot(d))
  BY <1>1, <1>2 DEF Good, Apart, Waits, Ungot
<1>5. Recalls(d, <<>>)
  BY <1>2 DEF Recalls
<1> QED BY <1>2, <1>3, <1>4, <1>5 DEF Good

\* While the order of the buffers is broken, only the sizes are left to keep.
LEMMA BrokenGood ==
  ASSUME NEW c, Chan(c), Fits(c), broken, c.written # <<>> => c.mode # "R_ONLY"
  PROVE  Good(c, <<>>, Rises(c))
<1>1. Rises(c) /\ Rises(c) \in BOOLEAN /\ <<>> \in ByteSeq /\ Len(<<>>) - 1 = -1
  BY DEF Rises, ByteSeq
<1>2. Apart(c, Rises(c)) /\ Waits(c, <<>>) /\ Recalls(c, <<>>)
  BY <1>1 DEF Apart, Waits, Recalls
<1> QED BY <1>1, <1>2 DEF Good

\* A read that takes back ungot bytes.
Popped(d, c, n) ==
    /\ Chan(c) /\ c.mode = d.mode /\ c.written = d.written
    /\ c.size = d.size /\ c.file = d.file /\ c.offset = d.offset /\ c.short = d.short
    /\ c.currentIndexPosition = d.currentIndexPosition
    /\ c.rdBytesFromLastWrite = d.rdBytesFromLastWrite + n
    /\ \/ n > Len(d.unget) /\ c.unget = d.unget /\ c.got = d.got /\ c.aborted = TRUE
       \/ /\ n <= Len(d.unget)
          /\ c.got = SubSeq(d.unget, 1, n)
          /\ c.unget = SubSeq(d.unget, n + 1, Len(d.unget))

LEMMA PopIs ==
  ASSUME NEW d, Chan(d), NEW n \in Nat, NEW c,
         c = [PopFromUngetBuffer(d, n) EXCEPT !.rdBytesFromLastWrite = @ + n]
  PROVE  Popped(d, c, n)
<1> DEFINE e == PopFromUngetBuffer(d, n)
           k == e.rdBytesFromLastWrite + n
<1>1. c = [e EXCEPT !.rdBytesFromLastWrite = k]
  OBVIOUS
<1>2. /\ Len(d.unget) \in Nat /\ d.unget \in ByteSeq /\ d.rdBytesFromLastWrite \in Nat
  BY Lengths DEF Chan
<1>3. /\ Chan(e) /\ e.mode = d.mode /\ e.written = d.written
      /\ e.size = d.size /\ e.file = d.file /\ e.offset = d.offset /\ e.short = d.short
      /\ e.currentIndexPosition = d.currentIndexPosition
      /\ e.rdBytesFromLastWrite = d.rdBytesFromLastWrite
      /\ \/ n > Len(d.unget) /\ e.unget = d.unget /\ e.got = d.got /\ e.aborted = TRUE
         \/ /\ n <= Len(d.unget)
            /\ e.got = SubSeq(d.unget, 1, n)
            /\ e.unget = SubSeq(d.unget, n + 1, Len(d.unget))
  <2>1. CASE n > Len(d.unget)
    <3>1. e = [d EXCEPT !.aborted = TRUE]
      BY <2>1 DEF PopFromUngetBuffer
    <3> HIDE DEF e
    <3>2. /\ Chan(e) /\ e.mode = d.mode /\ e.written = d.written
          /\ e.size = d.size /\ e.file = d.file /\ e.offset = d.offset /\ e.short = d.short
          /\ e.currentIndexPosition = d.currentIndexPosition
          /\ e.rdBytesFromLastWrite = d.rdBytesFromLastWrite
          /\ e.unget = d.unget /\ e.got = d.got /\ e.aborted = TRUE
      BY <3>1 DEF Chan, Names
    <3>3. \/ n > Len(d.unget) /\ e.unget = d.unget /\ e.got = d.got /\ e.aborted = TRUE
          \/ /\ n <= Len(d.unget)
             /\ e.got = SubSeq(d.unget, 1, n)
             /\ e.unget = SubSeq(d.unget, n + 1, Len(d.unget))
      BY <2>1, <3>2
    <3> QED BY <3>2, <3>3
  <2>2. CASE n <= Len(d.unget)
    <3> DEFINE h == SubSeq(d.unget, 1, n)
               t == SubSeq(d.unget, n + 1, Len(d.unget))
    <3>1. e = [d EXCEPT !.got = h, !.unget = t, !.retVal = n]
      <4>1. ~(n > Len(d.unget))
        BY <1>2, <2>2
      <4> QED BY <4>1 DEF PopFromUngetBuffer
    <3>2. n \in 0..Len(d.unget)
      BY <1>2, <2>2
    <3>3. h \in ByteSeq /\ t \in ByteSeq
      BY <1>2, <3>2, HeadIs, TailIs
    <3>4. h = SubSeq(d.unget, 1, n) /\ t = SubSeq(d.unget, n + 1, Len(d.unget))
      OBVIOUS
    <3> HIDE DEF e, h, t
    <3>5. /\ Chan(e) /\ e.mode = d.mode /\ e.written = d.written
          /\ e.size = d.size /\ e.file = d.file /\ e.offset = d.offset /\ e.short = d.short
          /\ e.currentIndexPosition = d.currentIndexPosition
          /\ e.rdBytesFromLastWrite = d.rdBytesFromLastWrite
          /\ e.got = h /\ e.unget = t
      BY <3>1, <3>3 DEF Chan, Names
    <3> QED BY <2>2, <3>4, <3>5
  <2>3. n > Len(d.unget) \/ n <= Len(d.unget)
    BY <1>2
  <2> HIDE DEF e
  <2> QED BY <2>1, <2>2, <2>3
<1> HIDE DEF e
<1>4. k \in Nat /\ k = d.rdBytesFromLastWrite + n
  BY <1>2, <1>3
<1> HIDE DEF k
<1>5. /\ Chan(c) /\ c.mode = e.mode /\ c.written = e.written
      /\ c.size = e.size /\ c.file = e.file /\ c.offset = e.offset /\ c.short = e.short
      /\ c.currentIndexPosition = e.currentIndexPosition
      /\ c.rdBytesFromLastWrite = k
      /\ c.unget = e.unget /\ c.got = e.got /\ c.aborted = e.aborted
  BY <1>1, <1>3, <1>4 DEF Chan, Names
<1> QED BY <1>3, <1>4, <1>5 DEF Popped

LEMMA PopKeeps ==
  ASSUME ChannelInv, NEW n \in 1..MaxIO, NEW d, NEW c,
         Good(d, recent, broken), Chan(d), d.got = <<>>,
         d.unget # <<>>, ~broken => d.written = <<>>,
         \/ d.short = TRUE
         \/ Cont(d) = Cont(ch) /\ Place(d) = Place(ch) /\ DriftOf(d) = DriftOf(ch),
         Popped(d, c, n), Return("read", n, c),
         recent' = IF broken \/ ch'.aborted THEN <<>> ELSE recent \o ch'.got
  PROVE  Kept
<1>1. /\ Len(d.unget) \in Nat /\ n \in Nat /\ n > 0 /\ n <= MaxIO
      /\ d.unget \in ByteSeq /\ d.rdBytesFromLastWrite \in Nat
  BY Lengths, Sizes DEF Chan
<1>2. Chan(c)
  BY DEF Popped
<1>3. CASE n > Len(d.unget)
  <2>1. /\ c.mode = d.mode /\ c.unget = d.unget /\ c.written = d.written
        /\ c.size = d.size /\ c.file = d.file /\ c.offset = d.offset
        /\ c.got = d.got /\ c.aborted = TRUE
    BY <1>1, <1>3 DEF Popped
  <2>2. ch'.aborted = TRUE
    BY <1>2, <2>1, ReturnIs
  <2>3. recent' = <<>>
    BY <2>2
  <2>4. Good(c, recent', Rises(c))
    <3>1. Len(c.got) <= MaxIO
      BY <2>1 DEF Good, Fits
    <3> QED BY <1>2, <2>1, <2>3, <3>1, ForgetGood
  <2>5. Excused
    BY <2>2 DEF Excused
  <2> QED BY <2>4, <2>5, Keeps
<1>4. CASE n <= Len(d.unget)
  <2> DEFINE h == SubSeq(d.unget, 1, n)
             t == SubSeq(d.unget, n + 1, Len(d.unget))
  <2>1. n \in 0..Len(d.unget)
    BY <1>1, <1>4
  <2>2. /\ h \in ByteSeq /\ Len(h) = n
        /\ \A i \in 1..n : h[i] = d.unget[i] /\ i \in 1..Len(d.unget)
    BY <1>1, <2>1, HeadIs
  <2>3. /\ t \in ByteSeq /\ Len(t) = Len(d.unget) - n /\ Len(t) \in Nat
        /\ \A i \in 1..Len(t) : t[i] = d.unget[n + i] /\ n + i \in 1..Len(d.unget)
    BY <1>1, <2>1, TailIs
  <2>4. /\ c.mode = d.mode /\ c.unget = t /\ c.written = d.written
        /\ c.size = d.size /\ c.file = d.file /\ c.offset = d.offset
        /\ c.got = h /\ c.short = d.short
        /\ c.currentIndexPosition = d.currentIndexPosition
        /\ c.rdBytesFromLastWrite = d.rdBytesFromLastWrite + n
    BY <1>1, <1>4 DEF Popped
  <2> HIDE DEF h, t
  <2>5. Fits(c)
    <3>1. /\ Len(d.file) <= MaxFile /\ d.offset + Len(d.written) <= MaxFile
          /\ Len(d.unget) <= UngetBufferSize
          /\ Len(d.written) <= d.size /\ WriteBufferSize <= d.size
      BY DEF Good, Fits
    <3>2. Len(c.unget) <= UngetBufferSize /\ Len(c.got) <= MaxIO
      BY <1>1, <2>2, <2>3, <2>4, <3>1, Sizes
    <3> QED BY <2>4, <3>1, <3>2 DEF Fits
  <2>6. /\ Cont(c) = Cont(d) /\ DriftOf(c) = DriftOf(d) /\ Place(c) = Place(d) + n
    <3>1. Cont(c) = Cont(d) /\ DriftOf(c) = DriftOf(d)
      BY <2>4 DEF Cont, DriftOf
    <3>2. Len(d.written) \in Int /\ d.offset \in Int
      BY Lengths DEF Chan
    <3>3. Place(c) = Place(d) + n
      BY <1>1, <2>3, <2>4, <3>2 DEF Place
    <3> QED BY <3>1, <3>3
  <2>7. CASE broken
    <3>1. recent' = <<>> /\ Excused
      BY <2>7 DEF Excused
    <3>2. c.written # <<>> => c.mode # "R_ONLY"
      BY <2>4 DEF Good, Waits
    <3>3. Good(c, recent', Rises(c))
      BY <1>2, <2>5, <2>7, <3>1, <3>2, BrokenGood
    <3> QED BY <3>1, <3>3, Keeps
  <2>8. CASE ~broken
    <3>1. d.written = <<>> /\ c.written = <<>>
      BY <2>4, <2>8
    <3>2. /\ Place(d) \in Nat /\ Place(d) + Len(d.unget) <= Len(Cont(d))
          /\ \A i \in 1..Len(d.unget) : d.unget[i] = Cont(d)[Place(d) + i]
      BY <2>8 DEF Good, Ungot
    <3>3. Len(Cont(d)) \in Nat
      BY ContentTyped
    <3>4. Ungot(c)
      <4>1. Place(c) \in Nat /\ Place(c) + Len(c.unget) <= Len(Cont(c))
        BY <1>1, <2>3, <2>4, <2>6, <3>2, <3>3
      <4>2. ASSUME NEW i \in 1..Len(t)
            PROVE  t[i] = Cont(d)[Place(c) + i]
        <5>1. t[i] = Cont(d)[Place(d) + (n + i)]
          BY <2>3, <3>2
        <5>2. Place(d) + (n + i) = Place(c) + i
          BY <1>1, <2>6, <3>2
        <5> QED BY <5>1, <5>2
      <4> QED BY <2>4, <2>6, <4>1, <4>2 DEF Ungot
    <3>5. Lies(Cont(d), Place(d), h)
      <4>1. \A i \in 1..Len(h) : h[i] = Cont(d)[Place(d) + i]
        BY <2>2, <3>2
      <4>2. Place(d) + Len(h) <= Len(Cont(d))
        BY <1>1, <1>4, <2>2, <3>2, <3>3
      <4> QED BY <3>2, <4>1, <4>2 DEF Lies
    <3>6. recent \in ByteSeq /\ recent \o h \in ByteSeq
      <4>1. recent \in ByteSeq
        BY DEF Good
      <4> QED BY <2>2, <4>1, ConcatProperties DEF ByteSeq
    <3>7. Recalls(c, recent \o h)
      <4>1. Recalls(d, recent)
        BY DEF Good
      <4>2. Place(c) = Place(d) + Len(h)
            /\ c.rdBytesFromLastWrite = d.rdBytesFromLastWrite + Len(h)
        BY <2>2, <2>4, <2>6
      <4> QED BY <1>2, <2>2, <2>6, <3>5, <3>6, <4>1, <4>2, RecallsMore
    <3>8. Good(c, recent \o h, Rises(c))
      <4>1. Rises(c) \in BOOLEAN /\ (Stuck(c) => Rises(c))
        BY DEF Rises
      <4>2. Apart(c, Rises(c)) /\ Waits(c, recent \o h)
        BY <3>1 DEF Apart, Waits
      <4> QED BY <1>2, <2>5, <3>4, <3>6, <3>7, <4>1, <4>2 DEF Good
    <3>9. Good(c, recent', Rises(c))
      <4>1. ch'.got = h
        BY <1>2, <2>4, ReturnIs
      <4>2. recent' = <<>> \/ recent' = recent \o h
        BY <4>1
      <4> QED BY <3>8, <4>2, Forget
    <3>10. CASE d.short = TRUE
      <4>1. Excused
        BY <1>2, <2>4, <3>10, ReturnIs DEF Excused
      <4> QED BY <3>9, <4>1, Keeps
    <3>11. CASE d.short # TRUE
      <4>1. Cont(d) = Cont(ch) /\ Place(d) = Place(ch) /\ DriftOf(d) = DriftOf(ch)
        BY <3>11
      <4>2. h = BytesFrom(Cont(d), Place(d), n)
        <5> DEFINE s == Cont(d)
                   p == Place(d)
        <5>1. s \in ByteSeq /\ p \in Nat /\ p + Len(h) <= Len(s)
          BY <3>2, <3>5, <2>2, <1>1, <1>4, <3>3, ContentTyped
        <5>2. \A i \in 1..Len(h) : h[i] = s[p + i]
          BY <2>2, <3>2
        <5> HIDE DEF s, p
        <5>3. h = BytesFrom(s, p, Len(h))
          BY <2>2, <5>1, <5>2, BytesFromAll
        <5> QED BY <2>2, <5>3 DEF s, p
      <4>3. /\ ch'.got = BytesFrom(content, place, n) /\ content' = content
            /\ place' = place + Len(ch'.got) /\ call'[1] = "read" /\ call'[2] = n
        BY <1>2, <2>2, <2>4, <2>6, <4>1, <4>2, ReturnIs
      <4>4. Stream!Read(n)
        BY <4>3, StreamIs
      <4>5. Promised
        BY <4>3, <4>4 DEF Promised
      <4>6. DriftOf(c) \in {0, DriftOf(ch)}
        BY <2>6, <4>1
      <4> QED BY <3>9, <4>5, <4>6, Keeps
    <3> QED BY <3>10, <3>11
  <2> QED BY <2>7, <2>8
<1> QED BY <1>1, <1>3, <1>4

\* A read that goes to the file.
FdReads(d, c, n) ==
    LET b == BytesFrom(d.file, d.offset, n)
    IN  /\ Chan(c) /\ c.mode = d.mode /\ c.unget = d.unget /\ c.written = d.written
        /\ c.size = d.size /\ c.file = d.file /\ c.short = d.short
        /\ \/ /\ c.error = TRUE /\ c.got = d.got /\ c.offset = d.offset
              /\ c.currentIndexPosition = d.currentIndexPosition
              /\ c.rdBytesFromLastWrite = d.rdBytesFromLastWrite
           \/ /\ c.got = b /\ c.offset = d.offset + Len(b)
              /\ c.currentIndexPosition = d.currentIndexPosition + Len(b)
              /\ c.rdBytesFromLastWrite = d.rdBytesFromLastWrite + Len(b)

LEMMA FdReadIs ==
  ASSUME NEW d, Chan(d), NEW n \in Nat, NEW f, NEW c,
         LET e == FdRead(d, n, f)
         IN  c = IF e.retVal = -1 THEN e
                 ELSE [e EXCEPT !.currentIndexPosition = @ + e.retVal,
                                !.rdBytesFromLastWrite = @ + e.retVal]
  PROVE  FdReads(d, c, n)
<1> DEFINE e == FdRead(d, n, f)
           b == BytesFrom(d.file, d.offset, n)
<1>1. c = IF e.retVal = -1 THEN e
          ELSE [e EXCEPT !.currentIndexPosition = @ + e.retVal,
                         !.rdBytesFromLastWrite = @ + e.retVal]
  OBVIOUS
<1>2. b \in ByteSeq /\ Len(b) \in Nat
  <2>1. b = BytesFrom(d.file, d.offset, n) /\ d.file \in ByteSeq /\ d.offset \in Nat
    BY DEF Chan
  <2> HIDE DEF b
  <2>2. Found(d.file, d.offset, n, b)
    BY <2>1, BytesFromIs
  <2> QED BY <2>2 DEF Found
<1>3. CASE "read" \in f \/ d.fd # "open"
  <2> DEFINE g == [d EXCEPT !.error = TRUE, !.retVal = -1]
  <2>1. e = [g EXCEPT !.foundEof = TRUE]
    BY <1>3 DEF FdRead, Fail
  <2>2. Chan(g) /\ g.retVal = -1 /\ g.error = TRUE
        /\ g.mode = d.mode /\ g.unget = d.unget /\ g.written = d.written
        /\ g.size = d.size /\ g.file = d.file /\ g.short = d.short
        /\ g.got = d.got /\ g.offset = d.offset
        /\ g.currentIndexPosition = d.currentIndexPosition
        /\ g.rdBytesFromLastWrite = d.rdBytesFromLastWrite
    BY DEF Chan, Names
  <2> HIDE DEF g, e
  <2>3. Chan(e) /\ e.retVal = -1 /\ e.error = TRUE
        /\ e.mode = d.mode /\ e.unget = d.unget /\ e.written = d.written
        /\ e.size = d.size /\ e.file = d.file /\ e.short = d.short
        /\ e.got = d.got /\ e.offset = d.offset
        /\ e.currentIndexPosition = d.currentIndexPosition
        /\ e.rdBytesFromLastWrite = d.rdBytesFromLastWrite
    BY <2>1, <2>2 DEF Chan, Names
  <2>4. c = e
    BY <1>1, <2>3
  <2> QED BY <2>3, <2>4 DEF FdReads
<1>4. CASE ~("read" \in f \/ d.fd # "open")
  <2> DEFINE o == d.offset + Len(b)
             x == d.foundEof \/ Len(b) < n
             v == Len(b)
  <2>1. e = [d EXCEPT !.got = b, !.offset = o, !.retVal = v, !.foundEof = x]
    BY <1>4 DEF FdRead
  <2>2. o \in Nat /\ x \in BOOLEAN /\ v \in Nat /\ o = d.offset + v /\ v = Len(b)
    BY <1>2 DEF Chan
  <2>3. b = BytesFrom(d.file, d.offset, n)
    OBVIOUS
  <2> HIDE DEF b, o, x, v, e
  <2>4. /\ Chan(e) /\ e.retVal = v
        /\ e.mode = d.mode /\ e.unget = d.unget /\ e.written = d.written
        /\ e.size = d.size /\ e.file = d.file /\ e.short = d.short
        /\ e.got = b /\ e.offset = o
        /\ e.currentIndexPosition = d.currentIndexPosition
        /\ e.rdBytesFromLastWrite = d.rdBytesFromLastWrite
    BY <1>2, <2>1, <2>2 DEF Chan, Names
  <2> DEFINE y == e.currentIndexPosition + v
             z == e.rdBytesFromLastWrite + v
  <2>5. c = [e EXCEPT !.currentIndexPosition = y, !.rdBytesFromLastWrite = z]
    <3>1. e.retVal # -1
      BY <2>2, <2>4
    <3> QED BY <1>1, <2>4, <3>1
  <2>6. /\ y \in Nat /\ z \in Nat /\ y = d.currentIndexPosition + v
        /\ z = d.rdBytesFromLastWrite + v
    BY <2>2, <2>4, SMTT(30) DEF Chan
  <2> HIDE DEF y, z
  <2>7. /\ Chan(c)
        /\ c.mode = e.mode /\ c.unget = e.unget /\ c.written = e.written
        /\ c.size = e.size /\ c.file = e.file /\ c.short = e.short
        /\ c.got = e.got /\ c.offset = e.offset
        /\ c.currentIndexPosition = y /\ c.rdBytesFromLastWrite = z
    BY <2>4, <2>5, <2>6 DEF Chan, Names
  <2>8. c.got = b /\ c.offset = d.offset + v /\ c.currentIndexPosition = d.currentIndexPosition + v
        /\ c.rdBytesFromLastWrite = d.rdBytesFromLastWrite + v
    BY <2>2, <2>4, <2>6, <2>7
  <2> QED BY <2>2, <2>3, <2>4, <2>7, <2>8 DEF FdReads
<1> QED BY <1>3, <1>4

LEMMA FdReadKeeps ==
  ASSUME ChannelInv, NEW n \in 1..MaxIO, NEW d, NEW c,
         Good(d, recent, broken), Chan(d), d.got = <<>>,
         d.unget = <<>>, ~broken => d.written = <<>>,
         \/ d.short = TRUE
         \/ Cont(d) = Cont(ch) /\ Place(d) = Place(ch) /\ DriftOf(d) = DriftOf(ch),
         FdReads(d, c, n), Return("read", n, c),
         recent' = IF broken \/ ch'.aborted THEN <<>> ELSE recent \o ch'.got
  PROVE  Kept
<1> DEFINE b == BytesFrom(d.file, d.offset, n)
<1>1. /\ n \in Nat /\ n <= MaxIO /\ MaxIO \in Nat /\ recent \in ByteSeq
      /\ d.file \in ByteSeq /\ d.offset \in Nat /\ d.currentIndexPosition \in Nat
      /\ d.rdBytesFromLastWrite \in Nat
  BY Sizes DEF Good, Chan
<1>2. Found(d.file, d.offset, n, b)
  <2>1. b = BytesFrom(d.file, d.offset, n)
    OBVIOUS
  <2> HIDE DEF b
  <2> QED BY <1>1, <2>1, BytesFromIs
<1>3. /\ Chan(c) /\ c.mode = d.mode /\ c.unget = <<>> /\ c.written = d.written
      /\ c.size = d.size /\ c.file = d.file /\ c.short = d.short
  BY DEF FdReads
<1>4. \/ /\ c.error = TRUE /\ c.got = <<>> /\ c.offset = d.offset
         /\ c.currentIndexPosition = d.currentIndexPosition
         /\ c.rdBytesFromLastWrite = d.rdBytesFromLastWrite
      \/ /\ c.got = b /\ c.offset = d.offset + Len(b)
         /\ c.currentIndexPosition = d.currentIndexPosition + Len(b)
         /\ c.rdBytesFromLastWrite = d.rdBytesFromLastWrite + Len(b)
  BY DEF FdReads
<1>5. b = BytesFrom(d.file, d.offset, n)
  OBVIOUS
<1> HIDE DEF b
<1>6. b \in ByteSeq /\ Len(b) \in Nat /\ Len(b) <= n
  BY <1>2 DEF Found
<1>7. /\ Len(d.file) <= MaxFile /\ Len(d.unget) <= UngetBufferSize
      /\ Len(d.written) <= d.size /\ WriteBufferSize <= d.size
      /\ d.written # <<>> => d.mode # "R_ONLY"
  BY DEF Good, Fits, Waits
<1>8. Len(c.got) <= MaxIO
  <2>1. Len(<<>>) <= MaxIO
    BY <1>1, EmptySeq
  <2> QED BY <1>1, <1>4, <1>6, <2>1
<1>9. Fits(c)
  <2>1. c.offset + Len(c.written) <= MaxFile
    BY <1>3, ReturnIs DEF Bounded
  <2> QED BY <1>3, <1>7, <1>8, <2>1 DEF Fits
<1>10. CASE broken
  <2>1. recent' = <<>> /\ Excused
    BY <1>10 DEF Excused
  <2>2. Good(c, recent', Rises(c))
    BY <1>3, <1>7, <1>9, <1>10, <2>1, BrokenGood
  <2> QED BY <2>1, <2>2, Keeps
<1>11. CASE ~broken /\ c.error = TRUE /\ c.got = <<>> /\ c.offset = d.offset
       /\ c.currentIndexPosition = d.currentIndexPosition
       /\ c.rdBytesFromLastWrite = d.rdBytesFromLastWrite
  <2>1. Good(c, recent, Rises(c)) /\ Cont(c) = Cont(d) /\ Place(c) = Place(d)
    <3>1. c.unget = d.unget
      BY <1>3
    <3>2. c.rdBytesFromLastWrite \in {0, d.rdBytesFromLastWrite}
      BY <1>11
    <3> QED BY <1>3, <1>8, <1>11, <3>1, <3>2, RisesMore
  <2>2. DriftOf(c) = DriftOf(d)
    BY <1>3, <1>11 DEF DriftOf
  <2>3. recent' \in {recent, <<>>}
    <3>1. ch'.got = <<>>
      BY <1>3, <1>11, ReturnIs
    <3>2. recent \o <<>> = recent
      BY <1>1, ConcatEmptySeq DEF ByteSeq
    <3> QED BY <3>1, <3>2
  <2>4. Good(c, recent', Rises(c))
    BY <2>1, <2>3, Forget
  <2>5. \/ c.short = TRUE
        \/ Cont(c) = Cont(ch) /\ Place(c) = Place(ch) /\ DriftOf(c) = DriftOf(ch)
    BY <1>3, <2>1, <2>2
  <2> QED BY <1>11, <2>4, <2>5, Stays
<1>12. CASE ~broken /\ c.got = b /\ c.offset = d.offset + Len(b)
            /\ c.currentIndexPosition = d.currentIndexPosition + Len(b)
            /\ c.rdBytesFromLastWrite = d.rdBytesFromLastWrite + Len(b)
  <2>1. d.written = <<>> /\ c.written = <<>>
    BY <1>3, <1>12
  <2>2. Cont(d) = d.file /\ Cont(c) = d.file
    BY <1>3, <2>1, ContentOfFile
  <2>3. Place(d) = d.offset /\ Place(c) = d.offset + Len(b) /\ DriftOf(c) = DriftOf(d)
    <3>1. Place(d) = (d.offset + 0) - 0 /\ Place(c) = ((d.offset + Len(b)) + 0) - 0
      BY <1>3, <1>12, <2>1, EmptySeq DEF Place
    <3>2. /\ DriftOf(d) = d.currentIndexPosition - d.offset - 0
          /\ DriftOf(c) = (d.currentIndexPosition + Len(b)) - (d.offset + Len(b)) - 0
      BY <1>3, <1>12, <2>1, EmptySeq DEF DriftOf
    <3> QED BY <1>1, <1>6, <3>1, <3>2
  <2>4. Lies(Cont(d), Place(d), b)
    BY <1>1, <1>2, <2>2, <2>3 DEF Lies, Found
  <2>5. recent \o b \in ByteSeq
    BY <1>1, <1>6, ConcatProperties DEF ByteSeq
  <2>6. Recalls(c, recent \o b)
    <3>1. Recalls(d, recent)
      BY DEF Good
    <3>2. Cont(c) = Cont(d) /\ Place(c) = Place(d) + Len(b)
      BY <2>2, <2>3
    <3> QED BY <1>1, <1>3, <1>6, <1>12, <2>4, <3>1, <3>2, RecallsMore
  <2>7. Good(c, recent \o b, Rises(c))
    <3>1. Rises(c) \in BOOLEAN /\ (Stuck(c) => Rises(c))
      BY DEF Rises
    <3>2. Apart(c, Rises(c)) /\ Waits(c, recent \o b) /\ Ungot(c)
      BY <1>3, <2>1 DEF Apart, Waits, Ungot
    <3> QED BY <1>3, <1>9, <2>5, <2>6, <3>1, <3>2 DEF Good
  <2>8. Good(c, recent', Rises(c))
    <3>1. ch'.got = b
      BY <1>3, <1>12, ReturnIs
    <3>2. recent' = <<>> \/ recent' = recent \o b
      BY <3>1
    <3> QED BY <2>7, <3>2, Forget
  <2>9. CASE d.short = TRUE
    <3>1. Excused
      BY <1>3, <2>9, ReturnIs DEF Excused
    <3> QED BY <2>8, <3>1, Keeps
  <2>10. CASE d.short # TRUE
    <3>1. Cont(d) = Cont(ch) /\ Place(d) = Place(ch) /\ DriftOf(d) = DriftOf(ch)
      BY <2>10
    <3>2. /\ ch'.got = BytesFrom(content, place, n) /\ content' = content
          /\ place' = place + Len(ch'.got) /\ call'[1] = "read" /\ call'[2] = n
      BY <1>3, <1>5, <1>12, <2>2, <2>3, <3>1, ReturnIs
    <3>3. Stream!Read(n)
      BY <3>2, StreamIs
    <3>4. Promised
      BY <3>2, <3>3 DEF Promised
    <3>5. DriftOf(c) \in {0, DriftOf(ch)}
      BY <2>3, <3>1
    <3> QED BY <2>8, <3>4, <3>5, Keeps
  <2> QED BY <2>9, <2>10
<1> QED BY <1>4, <1>10, <1>11, <1>12

\* A call that is refused because of the mode or a full buffer.
LEMMA FailIs ==
  ASSUME ChannelInv, NEW name, NEW arg, Return(name, arg, Fail(Fresh))
  PROVE  ch'.got = <<>> /\ ch'.unget = ch.unget
<1>1. ch' = [Fail(Fresh) EXCEPT !.retVal = 0]
  BY DEF Return
<1>2. Chan(ch)
  BY DEF ChannelInv, Good
<1>3. Chan(Fresh) /\ Fresh.got = <<>> /\ Fresh.unget = ch.unget
  BY <1>2, FreshIs
<1> QED BY <1>1, <1>3 DEF Fail, Chan, Names

LEMMA FailKeeps ==
  ASSUME ChannelInv, NEW name, NEW arg, Return(name, arg, Fail(Fresh)),
         recent' \in {recent, <<>>}
  PROVE  Kept
<1> DEFINE g == Fresh
           c == Fail(g)
<1>1. Chan(ch)
  BY DEF ChannelInv, Good
<1>2. /\ Good(g, recent, broken) /\ Chan(g) /\ g.got = <<>>
      /\ Cont(g) = Cont(ch) /\ Place(g) = Place(ch) /\ DriftOf(g) = DriftOf(ch)
  BY <1>1, FreshIs, FreshGood
<1>3. Return(name, arg, c)
  OBVIOUS
<1> HIDE DEF g
<1>4. /\ Chan(c) /\ c.mode = g.mode /\ c.rdBytesFromLastWrite = g.rdBytesFromLastWrite
      /\ c.currentIndexPosition = g.currentIndexPosition
      /\ c.unget = g.unget /\ c.written = g.written /\ c.size = g.size
      /\ c.file = g.file /\ c.offset = g.offset /\ c.got = g.got /\ c.error = TRUE
  BY <1>2 DEF Chan, Names, Fail
<1> HIDE DEF c
<1>5. Good(c, recent, Rises(c)) /\ Cont(c) = Cont(g) /\ Place(c) = Place(g)
  <2>1. Len(g.got) <= MaxIO
    BY <1>2 DEF Good, Fits
  <2>2. c.rdBytesFromLastWrite \in {0, g.rdBytesFromLastWrite}
    BY <1>4
  <2>3. Len(c.got) <= MaxIO
    BY <1>4, <2>1
  <2> QED BY <1>2, <1>4, <2>2, <2>3, RisesMore
<1>6. Good(c, recent', Rises(c))
  BY <1>5, Forget
<1>7. Cont(c) = Cont(ch) /\ Place(c) = Place(ch) /\ DriftOf(c) = DriftOf(ch)
  <2>1. DriftOf(c) = DriftOf(g)
    BY <1>4 DEF DriftOf
  <2> QED BY <1>2, <1>5, <2>1
<1> QED BY <1>2, <1>3, <1>4, <1>6, <1>7, Stays

LEMMA ReadKeeps ==
  ASSUME ChannelInv, NEW n \in 1..MaxIO, NEW f, Read(n, f)
  PROVE  Kept
<1> DEFINE g == Fresh
           d == IF g.mode = "R_ONLY" THEN g ELSE Flush(g, f)
           e == FdRead(d, n, f)
           p == [PopFromUngetBuffer(d, n) EXCEPT !.rdBytesFromLastWrite = @ + n]
           r == IF e.retVal = -1 THEN e
                ELSE [e EXCEPT !.currentIndexPosition = @ + e.retVal,
                               !.rdBytesFromLastWrite = @ + e.retVal]
           c == IF ch.mode = "W_ONLY" THEN Fail(g) ELSE ReadInternal(g, n, f)
<1>1. /\ ch.isOpen /\ Return("read", n, c) /\ n \in Nat
      /\ recent' = IF broken \/ ch'.aborted THEN <<>> ELSE recent \o ch'.got
  BY Sizes DEF Read, Allowed
<1>2. Chan(ch) /\ recent \in ByteSeq
  BY DEF ChannelInv, Good
<1>3. CASE ch.mode = "W_ONLY"
  <2>1. Return("read", n, Fail(Fresh))
    BY <1>1, <1>3
  <2>2. recent' \in {recent, <<>>}
    <3>1. ch'.got = <<>>
      BY <2>1, FailIs
    <3>2. recent \o <<>> = recent
      BY <1>2, ConcatEmptySeq DEF ByteSeq
    <3> QED BY <1>1, <3>1, <3>2
  <2> QED BY <2>1, <2>2, FailKeeps
<1>4. CASE ch.mode # "W_ONLY"
  <2>1. c = IF d.retVal = -1 THEN d ELSE IF d.unget # <<>> THEN p ELSE r
    BY <1>4 DEF ReadInternal
  <2>2. d = IF Fresh.mode = "R_ONLY" THEN Fresh ELSE Flush(Fresh, f)
    OBVIOUS
  <2>3. /\ p = [PopFromUngetBuffer(d, n) EXCEPT !.rdBytesFromLastWrite = @ + n]
        /\ LET x == FdRead(d, n, f)
           IN  r = IF x.retVal = -1 THEN x
                   ELSE [x EXCEPT !.currentIndexPosition = @ + x.retVal,
                                  !.rdBytesFromLastWrite = @ + x.retVal]
    OBVIOUS
  <2> HIDE DEF c, d, e, p, r
  <2>4. /\ Good(d, recent, broken) /\ Chan(d) /\ d.got = <<>>
        /\ d.unget = ch.unget /\ d.aborted = ch.aborted
        /\ d.retVal = -1 => d.error = TRUE
        /\ d.retVal # -1 /\ ~broken => d.written = <<>>
        /\ \/ d.short = TRUE
           \/ Cont(d) = Cont(ch) /\ Place(d) = Place(ch) /\ DriftOf(d) = DriftOf(ch)
    BY <1>1, <2>2, ReadFlush
  <2>5. CASE d.retVal = -1
    <3>1. Return("read", n, d) /\ d.error = TRUE
      BY <1>1, <2>1, <2>4, <2>5
    <3>2. Good(d, recent, Rises(d))
      BY <2>4, RisesMore DEF Good, Fits
    <3>3. recent' \in {recent, <<>>}
      <4>1. ch'.got = <<>>
        BY <2>4, <3>1, ReturnIs
      <4>2. recent \o <<>> = recent
        BY <1>2, ConcatEmptySeq DEF ByteSeq
      <4> QED BY <1>1, <4>1, <4>2
    <3>4. Good(d, recent', Rises(d))
      BY <3>2, <3>3, Forget
    <3> QED BY <2>4, <3>1, <3>4, Stays
  <2>6. CASE d.retVal # -1 /\ d.unget # <<>>
    <3>1. Return("read", n, p)
      BY <1>1, <2>1, <2>6
    <3>2. Popped(d, p, n)
      BY <1>1, <2>3, <2>4, PopIs
    <3> QED BY <1>1, <2>4, <2>6, <3>1, <3>2, PopKeeps
  <2>7. CASE d.retVal # -1 /\ d.unget = <<>>
    <3>1. Return("read", n, r)
      BY <1>1, <2>1, <2>7
    <3>2. FdReads(d, r, n)
      BY <1>1, <2>3, <2>4, FdReadIs
    <3> QED BY <1>1, <2>4, <2>7, <3>1, <3>2, FdReadKeeps
  <2> QED BY <2>5, <2>6, <2>7
<1> QED BY <1>3, <1>4

-----------------------------------------------------------------------------
(* Ungets.                                                                  *)

\* Sequence b shows the n bytes of s behind place p.
Shows(b, n, s, p) == \A i \in 1..n : b[i] = s[p + i]

Joined(t, b, n, u, w) == \A i \in 1..n + w : t[i] = IF i <= n THEN b[i] ELSE u[i - n]

Agree(r, m, s, p, n) == \A j \in 0..n - 1 : r[m - j] = s[p - j]

\* The last n bytes of r, which lie before place p, in front of those behind it.
LEMMA InFront ==
  ASSUME NEW s, NEW p \in Int, NEW r, NEW m \in Nat, NEW n \in Nat, NEW k \in Int, k = m - n,
         NEW b, NEW u, NEW w \in Nat, NEW t, NEW o \in Int, o = p - n,
         Shows(b, n, r, k), Joined(t, b, n, u, w), Agree(r, m, s, p, n),
         Shows(u, w, s, p)
  PROVE  Shows(t, n + w, s, o)
<1> SUFFICES ASSUME NEW i \in 1..n + w PROVE t[i] = s[o + i]
  BY DEF Shows
<1>1. CASE i <= n
  <2>1. i \in 1..n /\ n - i \in 0..n - 1 /\ m - (n - i) = k + i
        /\ p - (n - i) = o + i
    BY <1>1
  <2>2. t[i] = r[k + i]
    BY <1>1, <2>1 DEF Shows, Joined
  <2>3. r[m - (n - i)] = s[p - (n - i)]
    BY <2>1 DEF Agree
  <2> QED BY <2>1, <2>2, <2>3
<1>2. CASE i > n
  <2>1. i - n \in 1..w /\ ~(i <= n) /\ p + (i - n) = o + i
    BY <1>2
  <2>2. t[i] = u[i - n]
    BY <2>1 DEF Joined
  <2>3. u[i - n] = s[p + (i - n)]
    BY <2>1 DEF Shows
  <2> QED BY <2>1, <2>2, <2>3
<1> QED BY <1>1, <1>2

\* An unget that fits: the last n bytes the caller has read lie in front again.
LEMMA UngotKeeps ==
  ASSUME ChannelInv, NEW n \in 1..MaxIO, n <= Len(recent), NEW c, Chan(c),
         n <= ch.rdBytesFromLastWrite, Len(ch.unget) + n <= UngetBufferSize,
         c.unget = SubSeq(recent, (Len(recent) - n) + 1, Len(recent)) \o ch.unget,
         c.rdBytesFromLastWrite = ch.rdBytesFromLastWrite - n,
         c.currentIndexPosition = ch.currentIndexPosition,
         c.mode = ch.mode, c.written = ch.written, c.size = ch.size,
         c.file = ch.file, c.offset = ch.offset, c.got = <<>>,
         Return("unget", n, c), recent' = SubSeq(recent, 1, Len(recent) - n)
  PROVE  Kept
<1> DEFINE m == Len(recent)
           k == m - n
           b == SubSeq(recent, k + 1, m)
           q == SubSeq(recent, 1, k)
           u == ch.unget
           s == Cont(ch)
           p == Place(ch)
           w == Len(ch.unget)
<1>1. /\ Good(ch, recent, broken) /\ Chan(ch) /\ recent \in ByteSeq /\ u \in ByteSeq
      /\ ch.rdBytesFromLastWrite \in Nat /\ ch.offset \in Nat
  BY DEF ChannelInv, Good, Chan
<1>2. m \in Nat /\ n \in Nat /\ n >= 1 /\ n <= m /\ k \in Nat /\ w \in Nat /\ n <= MaxIO
  BY <1>1, Sizes, LenProperties DEF ByteSeq
<1>3. recent # <<>> /\ ch.rdBytesFromLastWrite > 0 /\ m > 0
  BY <1>1, <1>2, EmptySeq
<1>4. ch.written = <<>> /\ c.written = <<>>
  BY <1>1, <1>3 DEF Good, Waits
<1>5. Cont(c) = s /\ s = ch.file
  BY <1>4, ContentOfFile
<1>6. /\ b \in ByteSeq /\ Len(b) = n
      /\ \A i \in 1..n : b[i] = recent[k + i]
  <2>1. k \in 0..m /\ m - k = n
    BY <1>2
  <2>2. b = SubSeq(recent, k + 1, Len(recent))
    OBVIOUS
  <2> HIDE DEF b, k
  <2>3. /\ b \in ByteSeq /\ Len(b) = Len(recent) - k
        /\ \A i \in 1..Len(b) : b[i] = recent[k + i]
    BY <1>1, <2>1, <2>2, TailIs
  <2> QED BY <2>1, <2>3
<1>7. /\ q \in ByteSeq /\ Len(q) = k
      /\ \A i \in 1..k : q[i] = recent[i]
  <2>1. k \in 0..Len(recent) /\ q = SubSeq(recent, 1, k)
    BY <1>2
  <2> HIDE DEF q, k
  <2> QED BY <1>1, <2>1, HeadIs
<1>8. c.unget = b \o u /\ recent' = q
  OBVIOUS
<1> HIDE DEF b, q
<1>9. /\ c.unget \in ByteSeq /\ Len(c.unget) = n + w
      /\ \A i \in 1..n + w : c.unget[i] = IF i <= n THEN b[i] ELSE u[i - n]
  <2>1. /\ b \in Seq(Byte) /\ u \in Seq(Byte) /\ c.unget = b \o u
        /\ Len(b) = n /\ Len(u) = w
    BY <1>1, <1>6, <1>8 DEF ByteSeq
  <2> HIDE DEF u, w
  <2>2. /\ b \o u \in Seq(Byte) /\ Len(b \o u) = Len(b) + Len(u)
        /\ \A i \in 1..Len(b) + Len(u) :
             (b \o u)[i] = IF i <= Len(b) THEN b[i] ELSE u[i - Len(b)]
    BY ONLY <2>1, ConcatProperties
  <2> QED BY ONLY <2>1, <2>2 DEF ByteSeq
<1>10. \A j \in 0..m - 1 : j < ch.rdBytesFromLastWrite =>
            j < p /\ p - j <= Len(s) /\ recent[m - j] = s[p - j]
  BY <1>1 DEF Good, Recalls
<1>11. p = ch.offset - w /\ p \in Int /\ Len(s) \in Nat
  <2>1. Len(ch.written) = 0
    BY <1>4, EmptySeq
  <2>2. p = (ch.offset + 0) - w
    BY <2>1 DEF Place
  <2> QED BY <1>1, <1>2, <2>2, ContentTyped
<1>12. Place(c) = p - n /\ DriftOf(c) = DriftOf(ch)
  <2>1. Len(c.written) = 0
    BY <1>4, EmptySeq
  <2>2. Place(c) = (ch.offset + 0) - (n + w)
    BY <1>9, <2>1 DEF Place
  <2>3. DriftOf(c) = DriftOf(ch)
    BY DEF DriftOf
  <2> QED BY <1>1, <1>2, <1>11, <2>2, <2>3
<1>13. n <= p /\ p - n \in Nat
  <2>1. n - 1 \in 0..m - 1 /\ n - 1 < ch.rdBytesFromLastWrite
    BY <1>1, <1>2
  <2>2. n - 1 < p
    BY <1>10, <2>1
  <2> QED BY <1>2, <1>11, <2>2
<1> HIDE DEF k, m, u, s, p, w
<1>14. ~broken => Ungot(c)
  <2> SUFFICES ASSUME ~broken PROVE Ungot(c)
    OBVIOUS
  <2>1. ch.unget # <<>> => p + w <= Len(s) /\ \A i \in 1..w : u[i] = s[p + i]
    BY <1>1 DEF Good, Ungot, u, s, p, w
  <2>2. (p - n) + (n + w) <= Len(s)
    <3>1. CASE ch.unget # <<>>
      BY <1>2, <1>11, <2>1, <3>1
    <3>2. CASE ch.unget = <<>>
      <4>1. w = 0
        BY <3>2, EmptySeq DEF w
      <4>2. 0 \in 0..m - 1 /\ 0 < ch.rdBytesFromLastWrite
        BY <1>2, <1>3
      <4>3. p - 0 <= Len(s)
        BY <1>10, <4>2
      <4> QED BY <1>2, <1>11, <4>1, <4>3
    <3> QED BY <3>1, <3>2
  <2>3. Shows(u, w, s, p)
    <3>1. ch.unget = <<>> => w = 0
      BY EmptySeq DEF w
    <3> QED BY <2>1, <3>1 DEF Shows
  <2>4. Agree(recent, m, s, p, n)
    <3>1. \A j \in 0..n - 1 : j \in 0..m - 1 /\ j < ch.rdBytesFromLastWrite
      BY <1>1, <1>2
    <3> QED BY <1>10, <3>1 DEF Agree
  <2>5. Shows(b, n, recent, k) /\ k = m - n /\ k \in Int
    BY <1>2, <1>6 DEF Shows, k
  <2>6. Joined(c.unget, b, n, u, w)
    BY <1>9 DEF Joined
  <2> DEFINE o == p - n
             t == c.unget
  <2>7. o = p - n /\ o \in Int /\ p \in Int /\ Joined(t, b, n, u, w)
    BY <1>2, <1>11, <2>6
  <2> HIDE DEF o, t
  <2>8. Shows(t, n + w, s, o)
    BY <1>2, <2>3, <2>4, <2>5, <2>7, InFront
  <2>9. \A i \in 1..n + w : c.unget[i] = s[(p - n) + i]
    BY <2>8 DEF Shows, o, t
  <2> QED BY <1>5, <1>9, <1>12, <1>13, <2>2, <2>9 DEF Ungot
<1>15. Recalls(c, q)
  <2>1. ASSUME NEW j \in 0..Len(q) - 1, j < c.rdBytesFromLastWrite
        PROVE  j < p - n /\ (p - n) - j <= Len(s) /\ q[Len(q) - j] = s[(p - n) - j]
    <3>1. j \in Nat /\ j <= k - 1 /\ k = m - n
      BY <1>2, <1>7, <2>1 DEF k
    <3>2. j + n \in 0..m - 1 /\ j + n < ch.rdBytesFromLastWrite
      BY <1>1, <1>2, <2>1, <3>1
    <3>3. j + n < p /\ p - (j + n) <= Len(s) /\ recent[m - (j + n)] = s[p - (j + n)]
      BY <1>10, <3>2
    <3>4. /\ p - (j + n) = (p - n) - j /\ m - (j + n) = k - j /\ k - j \in 1..k
          /\ (j + n < p <=> j < p - n)
      BY <1>2, <1>11, <3>1
    <3>5. q[Len(q) - j] = recent[k - j]
      BY <1>7, <3>4
    <3> QED BY <3>3, <3>4, <3>5
  <2> QED BY <1>5, <1>12, <2>1 DEF Recalls
<1>16. Good(c, recent', Rises(c))
  <2>1. Rises(c) \in BOOLEAN /\ (Stuck(c) => Rises(c)) /\ (~Rises(c) => ~broken)
    BY DEF Rises
  <2>2. Apart(c, Rises(c)) /\ Waits(c, q)
    BY <1>4 DEF Apart, Waits
  <2>3. Fits(c)
    <3>1. Len(c.got) <= MaxIO
      BY Sizes, EmptySeq
    <3>2. Len(c.unget) <= UngetBufferSize
      BY <1>2, <1>9 DEF w
    <3> QED BY <1>1, <3>1, <3>2 DEF Good, Fits
  <2> QED BY <1>7, <1>8, <1>14, <1>15, <2>1, <2>2, <2>3 DEF Good
<1>17. Promised
  <2>1. /\ n <= place /\ place' = place - n /\ ch'.got = <<>> /\ content' = content
        /\ call'[1] = "unget" /\ call'[2] = n
    BY <1>5, <1>12, <1>13, ReturnIs DEF p, s
  <2>2. Stream!Unget(n)
    BY <2>1, StreamIs
  <2> QED BY <2>1, <2>2 DEF Promised
<1>18. DriftOf(c) \in {0, DriftOf(ch)}
  BY <1>12
<1> QED BY <1>16, <1>17, <1>18, Keeps

LEMMA UngetKeeps ==
  ASSUME ChannelInv, NEW n \in 1..MaxIO, Unget(n)
  PROVE  Kept
<1> DEFINE g == Fresh
           b == SubSeq(recent, Len(recent) - n + 1, Len(recent))
           t == b \o g.unget
           r == g.rdBytesFromLastWrite - n
           d == [g EXCEPT !.unget = t, !.rdBytesFromLastWrite = r]
           c == IF ch.mode = "W_ONLY" THEN Fail(g)
                ELSE IF ~(n <= ch.rdBytesFromLastWrite) THEN g
                ELSE IF ~(Len(ch.unget) + n <= UngetBufferSize) THEN Fail(g)
                ELSE d
<1>1. /\ n <= Len(recent) /\ Return("unget", n, c)
      /\ recent' = IF Len(ch'.unget) > Len(ch.unget)
                   THEN SubSeq(recent, 1, Len(recent) - n) ELSE recent
  BY DEF Unget
<1>2. Chan(ch) /\ recent \in ByteSeq
  BY DEF ChannelInv, Good
<1>3. Len(recent) \in Nat /\ Len(ch.unget) \in Nat /\ n \in Nat /\ n > 0
      /\ ch.unget \in ByteSeq /\ ch.rdBytesFromLastWrite \in Nat
  BY <1>2, Lengths, Sizes, LenProperties DEF ByteSeq, Chan
<1>4. g = Fresh
  OBVIOUS
<1>5. /\ Chan(g) /\ g.mode = ch.mode /\ g.rdBytesFromLastWrite = ch.rdBytesFromLastWrite
      /\ g.currentIndexPosition = ch.currentIndexPosition
      /\ g.unget = ch.unget /\ g.written = ch.written /\ g.size = ch.size
      /\ g.file = ch.file /\ g.offset = ch.offset /\ g.got = <<>>
      /\ Good(g, recent, broken)
      /\ Cont(g) = Cont(ch) /\ Place(g) = Place(ch) /\ DriftOf(g) = DriftOf(ch)
  BY <1>2, FreshIs, FreshGood
<1> HIDE DEF g
<1>6. CASE c = Fail(g)
  <2>1. Return("unget", n, Fail(Fresh))
    BY <1>1, <1>4, <1>6
  <2>2. ch'.unget = ch.unget
    BY <2>1, FailIs
  <2>3. recent' \in {recent, <<>>}
    BY <1>1, <1>3, <2>2
  <2> QED BY <2>1, <2>3, FailKeeps
<1>7. CASE c = g
  <2>1. Return("unget", n, g)
    BY <1>1, <1>7
  <2>2. ch'.unget = ch.unget
    BY <1>5, <2>1, ReturnIs
  <2>3. recent' = recent
    BY <1>1, <1>3, <2>2
  <2>4. Good(g, recent', Rises(g))
    <3>1. Len(g.got) <= MaxIO
      BY <1>5 DEF Good, Fits
    <3> QED BY <1>5, <2>3, <3>1, RisesMore
  <2> QED BY <1>5, <2>1, <2>4, Stays DEF Others
<1>8. CASE /\ c = d /\ n <= ch.rdBytesFromLastWrite
           /\ Len(ch.unget) + n <= UngetBufferSize
  <2>1. b \in ByteSeq /\ Len(b) = n
        /\ b = SubSeq(recent, (Len(recent) - n) + 1, Len(recent))
    <3> DEFINE k == Len(recent) - n
    <3>1. k \in 0..Len(recent) /\ Len(recent) - k = n
          /\ Len(recent) - n + 1 = k + 1
      BY <1>1, <1>3
    <3>2. b = SubSeq(recent, k + 1, Len(recent))
      BY <3>1
    <3> HIDE DEF b, k
    <3>3. b \in ByteSeq /\ Len(b) = Len(recent) - k
      BY <1>2, <3>1, <3>2, TailIs
    <3> QED BY <3>1, <3>2, <3>3 DEF k
  <2> HIDE DEF b
  <2>2. t \in ByteSeq /\ Len(t) = n + Len(ch.unget) /\ t = b \o ch.unget
    BY <1>3, <1>5, <2>1, ConcatProperties DEF ByteSeq
  <2>3. r \in Nat /\ r = ch.rdBytesFromLastWrite - n
    BY <1>3, <1>5, <1>8
  <2> HIDE DEF t, r
  <2>4. /\ Chan(d) /\ d.mode = g.mode /\ d.rdBytesFromLastWrite = r
        /\ d.currentIndexPosition = g.currentIndexPosition
        /\ d.unget = t /\ d.written = g.written /\ d.size = g.size
        /\ d.file = g.file /\ d.offset = g.offset /\ d.got = g.got
    BY <1>5, <2>2, <2>3 DEF Chan, Names
  <2>5. Return("unget", n, d)
    BY <1>1, <1>8
  <2> HIDE DEF d
  <2>6. ch'.unget = t
    BY <2>4, <2>5, ReturnIs
  <2>7. recent' = SubSeq(recent, 1, Len(recent) - n)
    BY <1>1, <1>3, <2>2, <2>6
  <2>8. d.unget = SubSeq(recent, (Len(recent) - n) + 1, Len(recent)) \o ch.unget
    BY <2>1, <2>2, <2>4
  <2> QED BY <1>1, <1>5, <1>8, <2>3, <2>4, <2>5, <2>7, <2>8, UngotKeeps
<1> QED BY <1>6, <1>7, <1>8

-----------------------------------------------------------------------------
(* Writes.                                                                  *)

LEMMA BlocksAre ==
  ASSUME NEW b \in Blocks
  PROVE  b \in ByteSeq /\ b # <<>> /\ Len(b) \in Nat /\ Len(b) > 0 /\ Len(b) <= MaxIO
<1>1. PICK n \in 1..MaxIO : b = [i \in 1..n |-> 0]
  BY DEF Blocks
<1>2. n \in Nat /\ n > 0 /\ n <= MaxIO /\ 0 \in Byte
  BY Sizes DEF Byte
<1>3. b \in [1..n -> Byte]
  BY <1>1, <1>2
<1>4. b \in ByteSeq /\ Len(b) = n
  BY <1>2, <1>3 DEF ByteSeq
<1> QED BY <1>2, <1>4, EmptySeq

\* A block that is split is written as if it were not.
Splits(a, b, n, head, rest, x, y) ==
    /\ head \in ByteSeq /\ Len(head) = n
    /\ rest \in ByteSeq /\ Len(rest) = Len(b) - n
    /\ x \in ByteSeq /\ Len(x) = Len(a) + n
    /\ y \in ByteSeq /\ Len(y) = Len(a) + Len(b)
    /\ y = a \o b

LEMMA SplitJoin ==
  ASSUME NEW a \in ByteSeq, NEW b \in ByteSeq, NEW n \in 0..Len(b)
  PROVE  LET head == SubSeq(b, 1, n)
             rest == SubSeq(b, n + 1, Len(b))
         IN  Splits(a, b, n, head, rest, a \o head, (a \o head) \o rest)
<1> DEFINE head == SubSeq(b, 1, n)
           rest == SubSeq(b, n + 1, Len(b))
           x == a \o head
           y == x \o rest
           z == a \o b
<1>1. Len(a) \in Nat /\ Len(b) \in Nat /\ n \in Nat /\ n <= Len(b)
  BY LenProperties DEF ByteSeq
<1>2. rest = SubSeq(b, n + 1, Len(b))
  OBVIOUS
<1>3. /\ head \in ByteSeq /\ Len(head) = n
      /\ \A i \in 1..n : head[i] = b[i] /\ i \in 1..Len(b)
  BY HeadIs
<1> HIDE DEF head, rest
<1>4. /\ rest \in ByteSeq /\ Len(rest) = Len(b) - n /\ Len(rest) \in Nat
      /\ \A i \in 1..Len(rest) : rest[i] = b[n + i] /\ n + i \in 1..Len(b)
  BY <1>2, TailIs
<1>5. /\ x \in ByteSeq /\ Len(x) = Len(a) + n
      /\ \A i \in 1..Len(a) + n : x[i] = IF i <= Len(a) THEN a[i] ELSE head[i - Len(a)]
  BY <1>3, ConcatProperties DEF ByteSeq
<1> HIDE DEF x
<1>6. /\ y \in ByteSeq /\ Len(y) = Len(x) + Len(rest)
      /\ \A i \in 1..Len(x) + Len(rest) : y[i] = IF i <= Len(x) THEN x[i] ELSE rest[i - Len(x)]
  BY <1>4, <1>5, ConcatProperties DEF ByteSeq
<1>7. /\ z \in ByteSeq /\ Len(z) = Len(a) + Len(b)
      /\ \A i \in 1..Len(a) + Len(b) : z[i] = IF i <= Len(a) THEN a[i] ELSE b[i - Len(a)]
  BY ConcatProperties DEF ByteSeq
<1> HIDE DEF y, z
<1>8. Len(y) = Len(a) + Len(b) /\ Len(y) = Len(z)
  BY <1>1, <1>4, <1>5, <1>6, <1>7
<1>9. ASSUME NEW i \in 1..Len(y) PROVE y[i] = z[i]
  <2>1. i \in Nat /\ i >= 1 /\ i <= Len(a) + Len(b)
    BY <1>1, <1>8
  <2>2. CASE i <= Len(a) + n
    <3>1. y[i] = x[i]
      BY <1>1, <1>4, <1>5, <1>6, <2>1, <2>2
    <3>2. CASE i <= Len(a)
      BY <1>1, <1>5, <1>7, <2>1, <2>2, <3>1, <3>2
    <3>3. CASE i > Len(a)
      <4>1. i - Len(a) \in 1..n /\ ~(i <= Len(a))
        BY <1>1, <2>1, <2>2, <3>3
      <4>2. x[i] = head[i - Len(a)]
        BY <1>1, <1>5, <2>1, <2>2, <4>1
      <4>3. z[i] = b[i - Len(a)]
        BY <1>1, <1>7, <2>1, <4>1
      <4> QED BY <1>3, <3>1, <4>1, <4>2, <4>3
    <3> QED BY <1>1, <2>1, <3>2, <3>3
  <2>3. CASE i > Len(a) + n
    <3>1. i - (Len(a) + n) \in 1..Len(rest) /\ ~(i <= Len(a) + n) /\ ~(i <= Len(a))
          /\ n + (i - (Len(a) + n)) = i - Len(a)
      BY <1>1, <1>4, <2>1, <2>3
    <3>2. y[i] = rest[i - (Len(a) + n)]
      BY <1>1, <1>4, <1>5, <1>6, <2>1, <3>1
    <3>3. z[i] = b[i - Len(a)]
      BY <1>1, <1>7, <2>1, <3>1
    <3>4. rest[i - (Len(a) + n)] = b[n + (i - (Len(a) + n))]
      BY <1>4, <3>1
    <3> QED BY <3>1, <3>2, <3>3, <3>4
  <2> QED BY <1>1, <2>1, <2>2, <2>3
<1>10. y = z
  BY <1>6, <1>7, <1>8, <1>9, SeqEqual DEF ByteSeq
<1> QED BY <1>3, <1>4, <1>5, <1>6, <1>8, <1>10 DEF head, rest, x, y, z, Splits

LEMMA AddAgain ==
  /\ \A o, l, k \in Int : o + (l + k) = (o + l) + k
  /\ \A o, l, k, n \in Int : (o + (l + n)) + (k - n) = (o + l) + k
OBVIOUS

\* How a block ends that a channel s is to write: refused, held up behind a full
\* buffer, written, or written in part.
Refused(s, w) ==
    /\ w.retVal = -1 /\ w.error = TRUE
    /\ w.file = s.file /\ w.offset = s.offset /\ w.written = s.written /\ w.size = s.size

HeldUp(s, w) == w.retVal = -1 /\ w.error = TRUE /\ s.written # <<>>

Wrote(s, w, b) ==
    /\ w.retVal = Len(b)
    /\ w.offset + Len(w.written) = (s.offset + Len(s.written)) + Len(b)
    /\ s.written = <<>> \/ s.usesWriteBuffering =>
          Cont(w) = Overlay(Cont(s), s.offset + Len(s.written), b)

Tore(s, w) ==
    /\ w.retVal \in Nat /\ w.short = TRUE
    /\ s.written # <<>> \/ w.offset + Len(w.written) > s.offset + Len(s.written)

WriteEnds(s, w, b) ==
    /\ Chan(w) /\ w.mode = s.mode /\ w.unget = s.unget /\ w.got = s.got
    /\ w.currentIndexPosition = s.currentIndexPosition
    /\ w.rdBytesFromLastWrite = s.rdBytesFromLastWrite
    /\ Len(w.written) <= w.size /\ WriteBufferSize <= w.size
    /\ w.offset <= MaxFile => Len(w.file) <= MaxFile
    /\ Refused(s, w) \/ HeldUp(s, w) \/ Wrote(s, w, b) \/ Tore(s, w)

\* What a channel must have for a write.
Writable(s) ==
    /\ Chan(s) /\ s.isOpen = TRUE
    /\ Len(s.file) <= MaxFile /\ Len(s.written) <= s.size /\ WriteBufferSize <= s.size

LEMMA FdWriteEnds ==
  ASSUME NEW s, Writable(s), ~s.usesWriteBuffering, NEW b \in ByteSeq, b # <<>>,
         NEW f, NEW w, w = FdWrite(s, b, f)
  PROVE  WriteEnds(s, w, b)
<1>1. /\ Chan(s) /\ Chan(w) /\ Kin(s, w) /\ w.written = s.written
      /\ \/ Rests(s, w) /\ w.retVal = -1 /\ w.error = TRUE
         \/ \E n \in 1..Len(b) : Moved(s, w, b, n)
  <2>1. Chan(s)
    BY DEF Writable
  <2> QED BY <2>1, FdWriteIs, ZenonT(30)
<1>2. /\ w.mode = s.mode /\ w.unget = s.unget /\ w.got = s.got
      /\ w.currentIndexPosition = s.currentIndexPosition
      /\ w.rdBytesFromLastWrite = s.rdBytesFromLastWrite /\ w.size = s.size
      /\ Len(w.written) <= w.size /\ WriteBufferSize <= w.size
  BY <1>1 DEF Kin, Writable
<1>3. CASE Rests(s, w) /\ w.retVal = -1 /\ w.error = TRUE
  <2>1. w.file = s.file /\ w.offset = s.offset /\ Len(w.file) <= MaxFile
    BY <1>3 DEF Rests, Writable
  <2>2. Refused(s, w)
    BY <1>1, <1>2, <1>3, <2>1 DEF Refused
  <2> QED BY <1>1, <1>2, <2>1, <2>2 DEF WriteEnds
<1>4. CASE \E n \in 1..Len(b) : Moved(s, w, b, n)
  <2>1. PICK n \in 1..Len(b) : Moved(s, w, b, n)
    BY <1>4
  <2>2. /\ n = Len(b) => SubSeq(b, 1, n) = b
        /\ Len(s.file) <= MaxFile /\ s.offset + n <= MaxFile => Len(w.file) <= MaxFile
    BY <1>1, <2>1, MovedTyped
  <2>3. Len(b) \in Nat /\ n \in Nat /\ n >= 1 /\ n <= Len(b)
        /\ Len(s.written) \in Nat /\ s.offset \in Nat
    BY <1>1, <2>1, Lengths, LenProperties DEF ByteSeq, Chan
  <2>4. w.offset = s.offset + n /\ w.retVal = n
    BY <2>1 DEF Moved
  <2>5. w.offset <= MaxFile => Len(w.file) <= MaxFile
    BY <2>2, <2>4 DEF Writable
  <2>6. w.offset + Len(w.written) = (s.offset + Len(s.written)) + n
    BY <1>1, <2>3, <2>4
  <2>7. CASE n = Len(b)
    <3>1. ASSUME s.written = <<>>
          PROVE  Cont(w) = Overlay(Cont(s), s.offset + Len(s.written), b)
      <4>1. Cont(w) = w.file /\ Cont(s) = s.file /\ s.offset + Len(s.written) = s.offset
        BY <1>1, <2>3, <3>1, ContentOfFile, EmptySeq
      <4>2. w.file = Overlay(s.file, s.offset, b)
        BY <2>1, <2>2, <2>7 DEF Moved
      <4> QED BY <4>1, <4>2
    <3>2. Wrote(s, w, b)
      BY <2>4, <2>6, <2>7, <3>1 DEF Wrote
    <3> QED BY <1>1, <1>2, <2>5, <3>2 DEF WriteEnds
  <2>8. CASE n < Len(b)
    <3>1. Tore(s, w)
      BY <2>1, <2>3, <2>4, <2>6, <2>8 DEF Tore, Moved
    <3> QED BY <1>1, <1>2, <2>5, <3>1 DEF WriteEnds
  <2> QED BY <2>3, <2>7, <2>8
<1> QED BY <1>1, <1>3, <1>4

LEMMA AddEnds ==
  ASSUME NEW s, Writable(s), s.usesWriteBuffering, NEW b \in ByteSeq, b # <<>>,
         Len(b) <= MaxIO, NEW f, NEW w, w = AddToWriteBuffer(s, b, f)
  PROVE  WriteEnds(s, w, b)
<1> DEFINE left == Min({s.size - Len(s.written), Len(b)})
           head == SubSeq(b, 1, left)
           rest == SubSeq(b, left + 1, Len(b))
           x    == s.written \o head
           v    == Len(b)
           full == [s EXCEPT !.written = x, !.retVal = v]
           d    == Flush(full, f)
           y    == x \o rest
           z    == (full.size + Len(rest)) * 2
           big  == [full EXCEPT !.written = y, !.size = z]
           e    == [d EXCEPT !.written = @ \o rest, !.retVal = v]
<1>1. w = IF rest = <<>> THEN full
          ELSE IF s.autoResize /\ ~s.writeBufferIsExternal THEN big
          ELSE IF d.retVal = -1 THEN d ELSE e
  BY DEF AddToWriteBuffer
<1>2. /\ Chan(s) /\ s.isOpen = TRUE /\ s.written \in ByteSeq /\ s.size \in Nat
      /\ s.file \in ByteSeq /\ s.offset \in Nat /\ Len(s.written) \in Nat
      /\ Len(s.file) <= MaxFile /\ Len(s.written) <= s.size /\ WriteBufferSize <= s.size
  BY Lengths DEF Writable, Chan
<1>3. v \in Nat /\ v > 0 /\ v <= s.size /\ v = Len(b)
      /\ WriteBufferSize \in Nat /\ WriteBufferSize > 0
  BY <1>2, Sizes, LenProperties, EmptySeq DEF ByteSeq
<1>4. left \in 0..v /\ (left = v \/ left = s.size - Len(s.written))
      /\ left <= s.size - Len(s.written)
  <2>1. s.size - Len(s.written) \in Nat
    BY <1>2
  <2>2. left = IF s.size - Len(s.written) <= v THEN s.size - Len(s.written) ELSE v
    BY <1>3, <2>1, MinOfTwo
  <2> HIDE DEF left, v
  <2> QED BY <1>3, <2>1, <2>2
<1>5. head = SubSeq(b, 1, left) /\ rest = SubSeq(b, left + 1, Len(b))
      /\ x = s.written \o head /\ y = x \o rest
  OBVIOUS
<1> HIDE DEF head, rest, left
<1>6. /\ head \in ByteSeq /\ Len(head) = left
      /\ rest \in ByteSeq /\ Len(rest) = v - left
      /\ x \in ByteSeq /\ Len(x) = Len(s.written) + left
      /\ y \in ByteSeq /\ Len(y) = Len(s.written) + v
      /\ y = s.written \o b
  <2>1. left \in 0..Len(b)
    BY <1>3, <1>4
  <2> HIDE DEF x, y, v
  <2>2. Splits(s.written, b, left, SubSeq(b, 1, left), SubSeq(b, left + 1, Len(b)),
               s.written \o SubSeq(b, 1, left),
               (s.written \o SubSeq(b, 1, left)) \o SubSeq(b, left + 1, Len(b)))
    BY <1>2, <2>1, SplitJoin
  <2>3. Splits(s.written, b, left, head, rest, x, y)
    BY <1>5, <2>2
  <2> QED BY <1>3, <2>3 DEF Splits
<1>7. rest = <<>> => y = x
  BY <1>6, ConcatEmptySeq DEF ByteSeq
<1> HIDE DEF x, y, v
<1>8. /\ Chan(full) /\ Kin(s, full) /\ full.written = x /\ full.retVal = v
      /\ full.file = s.file /\ full.offset = s.offset /\ full.isOpen = TRUE
      /\ full.short = s.short
  <2>1. Chan(s) /\ x \in ByteSeq /\ v \in Int
    BY <1>2, <1>3, <1>6
  <2>2. Chan(full)
    BY <2>1 DEF Chan, Names
  <2>3. Kin(s, full)
    BY <1>2 DEF Chan, Names, Kin
  <2>4. /\ full.written = x /\ full.retVal = v
        /\ full.file = s.file /\ full.offset = s.offset /\ full.short = s.short
    BY <1>2 DEF Chan, Names
  <2>5. full.isOpen = TRUE
    BY <1>2, <2>3 DEF Kin
  <2> HIDE DEF full
  <2> QED BY <2>2, <2>3, <2>4, <2>5
<1>9. d = Flush(full, f) /\ z = (full.size + Len(rest)) * 2
  OBVIOUS
<1> HIDE DEF full
\* The stream with the block behind what was written before.
<1>10. ASSUME NEW t, t.file = s.file, t.offset = s.offset, t.written = y
       PROVE  /\ Cont(t) = Overlay(Cont(s), s.offset + Len(s.written), b)
              /\ t.offset + Len(t.written) = (s.offset + Len(s.written)) + Len(b)
  <2>1. Cont(t) = Overlay(s.file, s.offset, s.written \o b)
    BY <1>6, <1>10 DEF Cont
  <2>2. Cont(s) = Overlay(s.file, s.offset, s.written)
    BY DEF Cont
  <2>3. Overlay(Overlay(s.file, s.offset, s.written), s.offset + Len(s.written), b)
        = Overlay(s.file, s.offset, s.written \o b)
    BY <1>2, OverlayTwo, ZenonT(30)
  <2>4. t.offset + Len(t.written) = (s.offset + Len(s.written)) + Len(b)
    <3>1. t.offset + Len(t.written) = s.offset + (Len(s.written) + v)
      BY <1>6, <1>10
    <3>2. s.offset \in Int /\ Len(s.written) \in Int /\ v \in Int
      BY <1>2, <1>3
    <3>3. s.offset + (Len(s.written) + v) = (s.offset + Len(s.written)) + v
      BY ONLY <3>2, AddAgain
    <3>4. v = Len(b)
      BY <1>3
    <3> HIDE DEF v
    <3> QED BY ONLY <3>1, <3>3, <3>4
  <2> QED BY <2>1, <2>2, <2>3, <2>4
<1>11. CASE rest = <<>>
  <2>1. w = full
    BY <1>1, <1>11
  <2>2. w.file = s.file /\ w.offset = s.offset /\ w.written = y /\ w.retVal = Len(b)
    BY <1>3, <1>7, <1>8, <1>11, <2>1
  <2>3. Wrote(s, w, b)
    BY <1>10, <2>2 DEF Wrote
  <2>4. Len(w.written) <= w.size /\ WriteBufferSize <= w.size
    <3>1. Len(x) <= s.size
      BY <1>2, <1>3, <1>4, <1>6
    <3> QED BY <1>2, <1>8, <2>1, <3>1 DEF Kin
  <2> QED BY <1>2, <1>8, <2>1, <2>2, <2>3, <2>4 DEF WriteEnds, Kin
<1>12. CASE rest # <<>> /\ s.autoResize /\ ~s.writeBufferIsExternal
  <2>1. w = big
    BY <1>1, <1>12
  <2>2. z \in Nat /\ Len(y) <= z /\ WriteBufferSize <= z
    <3>1. z = (s.size + Len(rest)) * 2
      BY <1>8, <1>9 DEF Kin
    <3>2. Len(rest) \in Nat /\ Len(y) <= s.size + Len(rest)
      BY <1>2, <1>3, <1>4, <1>6, SMTT(30)
    <3> HIDE DEF z
    <3> DEFINE k == s.size + Len(rest)
    <3>3. k \in Nat /\ WriteBufferSize <= k /\ Len(y) \in Nat /\ Len(y) <= k
      BY <1>2, <1>3, <1>6, <3>2, SMTT(30)
    <3>4. z = k * 2
      BY <3>1
    <3> HIDE DEF k
    <3>5. k * 2 \in Nat /\ k <= k * 2
      BY <3>3
    <3> QED BY <1>3, <3>3, <3>4, <3>5
  <2> HIDE DEF z
  <2>3. /\ Chan(big) /\ big.file = full.file /\ big.offset = full.offset
        /\ big.written = y /\ big.size = z /\ big.retVal = v
        /\ big.mode = full.mode /\ big.unget = full.unget /\ big.got = full.got
        /\ big.currentIndexPosition = full.currentIndexPosition
        /\ big.rdBytesFromLastWrite = full.rdBytesFromLastWrite
    BY <1>6, <1>8, <2>2 DEF Chan, Names
  <2> HIDE DEF big
  <2>4. w.file = s.file /\ w.offset = s.offset /\ w.written = y /\ w.retVal = Len(b)
    BY <1>3, <1>8, <2>1, <2>3
  <2>5. Wrote(s, w, b)
    BY <1>10, <2>4 DEF Wrote
  <2> QED BY <1>2, <1>8, <2>1, <2>2, <2>3, <2>4, <2>5 DEF WriteEnds, Kin
<1>13. CASE rest # <<>> /\ ~(s.autoResize /\ ~s.writeBufferIsExternal)
  <2>1. w = IF d.retVal = -1 THEN d ELSE e
    BY <1>1, <1>13
  <2>2. Len(rest) > 0 /\ Len(rest) \in Nat
    BY <1>6, <1>13, LenProperties, EmptySeq DEF ByteSeq
  <2>3. left = s.size - Len(s.written) /\ left < v
    BY <1>3, <1>4, <1>6, <2>2
  <2>4. Len(x) = s.size /\ x # <<>> /\ s.written # <<>>
    <3>1. Len(x) = s.size
      BY <1>2, <1>6, <2>3
    <3>2. Len(x) > 0
      BY <1>2, <1>3, <3>1
    <3>3. Len(s.written) > 0
      BY <1>2, <1>3, <1>4, <2>3
    <3> QED BY <3>1, <3>2, <3>3, EmptySeq
  <2>5. /\ Chan(d) /\ Kin(full, d)
        /\ FlushFails(full, d) \/ FlushIdle(full, d) \/ FlushWhole(full, d) \/ FlushTorn(full, d)
    BY <1>8, <1>9, FlushIs
  <2>6. ~FlushIdle(full, d)
    BY <1>8, <2>4 DEF FlushIdle, Kin
  <2> HIDE DEF d
  <2>7. Kin(s, d)
    BY <1>8, <2>5 DEF Kin
  <2>8. CASE FlushFails(full, d)
    <3>1. w = d /\ d.written = x /\ d.error = TRUE /\ d.retVal = -1 /\ d.file = s.file
      BY <1>8, <2>1, <2>8 DEF FlushFails, Rests
    <3>2. HeldUp(s, w)
      BY <2>4, <3>1 DEF HeldUp
    <3>3. Len(w.written) <= w.size /\ WriteBufferSize <= w.size
      BY <1>2, <2>4, <2>7, <3>1 DEF Kin
    <3> QED BY <1>2, <2>5, <2>7, <3>1, <3>2, <3>3 DEF WriteEnds, Kin
  <2>9. CASE FlushWhole(full, d) \/ FlushTorn(full, d)
    <3>1. w = e /\ d.written = <<>>
      BY <2>1, <2>9 DEF FlushWhole, FlushTorn
    <3>2. d.written \o rest = rest
      BY <1>6, <3>1, ConcatEmptySeq DEF ByteSeq
    <3> DEFINE k == d.written \o rest
    <3>3. e = [d EXCEPT !.written = k, !.retVal = v] /\ k = rest
      BY <3>2
    <3> HIDE DEF e, k
    <3>4. /\ Chan(e) /\ e.written = rest /\ e.retVal = v /\ e.file = d.file
          /\ e.offset = d.offset /\ e.short = d.short /\ Kin(d, e)
      <4>1. Chan(e)
        BY <1>3, <1>6, <2>5, <3>3 DEF Chan, Names
      <4>2. Kin(d, e)
        BY <2>5, <3>3 DEF Chan, Names, Kin
      <4>3. /\ e.written = rest /\ e.retVal = v /\ e.file = d.file
            /\ e.offset = d.offset /\ e.short = d.short
        BY <2>5, <3>3 DEF Chan, Names
      <4> QED BY <4>1, <4>2, <4>3
    <3>5. Kin(s, w) /\ Chan(w) /\ w.written = rest /\ w.retVal = v /\ w.file = d.file
          /\ w.offset = d.offset /\ w.short = d.short
      BY <2>7, <3>1, <3>4 DEF Kin
    <3>6. Len(w.written) <= w.size /\ WriteBufferSize <= w.size
      <4>1. Len(rest) <= s.size
        BY <1>2, <1>3, <1>4, <1>6
      <4> QED BY <1>2, <3>5, <4>1 DEF Kin
    <3>7. CASE FlushWhole(full, d)
      <4>1. d.file = Overlay(s.file, s.offset, x) /\ d.offset = s.offset + Len(x)
        BY <1>8, <3>7 DEF FlushWhole
      <4>2. w.offset <= MaxFile => Len(w.file) <= MaxFile
        BY <1>2, <1>6, <3>5, <4>1, OverlayTyped, Sizes, SMTT(30)
      <4>3. Cont(w) = Overlay(s.file, s.offset, y)
        <5>1. Cont(w) = Overlay(Overlay(s.file, s.offset, x), s.offset + Len(x), rest)
          BY <3>5, <4>1 DEF Cont
        <5>2. Overlay(Overlay(s.file, s.offset, x), s.offset + Len(x), rest)
              = Overlay(s.file, s.offset, x \o rest)
          <6>1. s.file \in ByteSeq /\ s.offset \in Nat /\ x \in ByteSeq /\ rest \in ByteSeq
            BY <1>2, <1>6
          <6> QED BY <6>1, OverlayTwo, ZenonT(30)
        <5> QED BY <1>5, <5>1, <5>2
      <4>4. Wrote(s, w, b)
        <5> DEFINE t == [file |-> s.file, offset |-> s.offset, written |-> y]
        <5>1. t.file = s.file /\ t.offset = s.offset /\ t.written = y
          OBVIOUS
        <5> HIDE DEF t
        <5>2. Cont(t) = Overlay(Cont(s), s.offset + Len(s.written), b)
          BY <1>10, <5>1
        <5>3. Cont(t) = Cont(w)
          BY <4>3, <5>1 DEF Cont
        <5>4. w.offset + Len(w.written) = (s.offset + Len(s.written)) + Len(b)
          <6>1. w.offset = s.offset + Len(x) /\ Len(w.written) = v - left
            BY <1>6, <3>5, <4>1
          <6>2. w.offset + Len(w.written) = (s.offset + (Len(s.written) + left)) + (v - left)
            BY <1>6, <6>1
          <6>3. left \in Nat /\ left <= v
            BY <1>3, <1>4
          <6>4. (s.offset + (Len(s.written) + left)) + (v - left) = (s.offset + Len(s.written)) + v
            BY <1>2, <1>3, <6>3, AddAgain, SMTT(30)
          <6> QED BY <1>3, <6>2, <6>4
        <5> QED BY <1>3, <3>5, <5>2, <5>3, <5>4 DEF Wrote
      <4> QED BY <3>5, <3>6, <4>2, <4>4 DEF WriteEnds, Kin
    <3>8. CASE FlushTorn(full, d)
      <4>1. w.offset <= MaxFile => Len(w.file) <= MaxFile
        BY <1>2, <1>8, <3>5, <3>8 DEF FlushTorn
      <4>2. Tore(s, w)
        BY <1>3, <2>4, <3>5, <3>8 DEF FlushTorn, Tore
      <4> QED BY <3>5, <3>6, <4>1, <4>2 DEF WriteEnds, Kin
    <3> QED BY <2>9, <3>7, <3>8
  <2> QED BY <2>5, <2>6, <2>8, <2>9
<1> QED BY <1>11, <1>12, <1>13

\* A call whose channel ends within the sizes.
LEMMA FitsIs ==
  ASSUME ChannelInv, NEW name, NEW arg, NEW c, Chan(c), Return(name, arg, c),
         Len(c.unget) <= UngetBufferSize, Len(c.written) <= c.size,
         WriteBufferSize <= c.size, Len(c.got) <= MaxIO,
         c.offset <= MaxFile => Len(c.file) <= MaxFile
  PROVE  Fits(c)
<1>1. c.offset + Len(c.written) <= MaxFile
  BY ReturnIs DEF Bounded
<1>2. c.offset \in Nat /\ Len(c.written) \in Nat
  BY Lengths DEF Chan
<1>3. c.offset <= MaxFile
  BY <1>1, <1>2, Sizes
<1> QED BY <1>1, <1>3 DEF Fits

\* A write of a channel that may unget nothing afterwards.
LEMMA WroteGood ==
  ASSUME ChannelInv, NEW c, Chan(c), Fits(c), c.mode # "R_ONLY", c.unget = ch.unget,
         NEW r \in ByteSeq, c.rdBytesFromLastWrite = 0 \/ r = <<>>,
         ch.unget # <<>> => Rises(c)
  PROVE  Good(c, r, Rises(c))
<1>1. Rises(c) \in BOOLEAN /\ (Stuck(c) => Rises(c))
  BY DEF Rises
<1>2. Apart(c, Rises(c)) /\ Waits(c, r) /\ (~Rises(c) => Ungot(c))
  BY DEF Apart, Waits, Ungot
<1>3. Recalls(c, r)
  <2>1. CASE r = <<>>
    <3>1. Len(<<>>) - 1 = -1
      OBVIOUS
    <3> QED BY <2>1, <3>1 DEF Recalls
  <2>2. CASE c.rdBytesFromLastWrite = 0
    <3>1. Len(r) \in Nat
      BY LenProperties DEF ByteSeq
    <3>2. \A j \in 0..Len(r) - 1 : ~(j < 0)
      BY <3>1
    <3> QED BY <2>2, <3>2 DEF Recalls
  <2> QED BY <2>1, <2>2
<1> QED BY <1>1, <1>2, <1>3 DEF Good

\* The counters after a write.
Counted(w, c) ==
    /\ Chan(c) /\ c.mode = w.mode /\ c.unget = w.unget /\ c.got = w.got
    /\ c.written = w.written /\ c.size = w.size /\ c.file = w.file
    /\ c.offset = w.offset /\ c.error = w.error /\ c.short = w.short
    /\ c.rdBytesFromLastWrite = 0
    /\ c.currentIndexPosition = w.currentIndexPosition + w.retVal

LEMMA CountedIs ==
  ASSUME NEW w, Chan(w), NEW k \in Nat, NEW c,
         c = [w EXCEPT !.rdBytesFromLastWrite = 0, !.currentIndexPosition = k]
  PROVE  k = w.currentIndexPosition + w.retVal => Counted(w, c)
<1>1. /\ Chan(c) /\ c.mode = w.mode /\ c.unget = w.unget /\ c.got = w.got
      /\ c.written = w.written /\ c.size = w.size /\ c.file = w.file
      /\ c.offset = w.offset /\ c.error = w.error /\ c.short = w.short
      /\ c.rdBytesFromLastWrite = 0 /\ c.currentIndexPosition = k
  BY DEF Chan, Names
<1> QED BY <1>1 DEF Counted

\* A write to a channel that holds bytes in one buffer at most.
Alike(s) ==
    /\ Chan(s) /\ s.mode = ch.mode /\ s.unget = ch.unget /\ s.got = <<>>
    /\ s.currentIndexPosition = ch.currentIndexPosition
    /\ s.rdBytesFromLastWrite = ch.rdBytesFromLastWrite
    /\ s.usesWriteBuffering = ch.usesWriteBuffering
    /\ s.written = ch.written /\ s.size = ch.size /\ s.file = ch.file
    /\ s.offset = ch.offset

LEMMA WrittenKeeps ==
  ASSUME ChannelInv, NEW b \in Blocks, NEW s, Alike(s), ch.mode # "R_ONLY",
         NEW w, WriteEnds(s, w, b), NEW c,
         w.retVal = -1 => c = w, w.retVal # -1 => Counted(w, c),
         Return("write", b, c), recent' = IF ch.unget = <<>> THEN recent ELSE <<>>
  PROVE  Kept
<1>1. /\ Good(ch, recent, broken) /\ Chan(ch) /\ recent \in ByteSeq
      /\ broken \in BOOLEAN /\ Fits(ch) /\ ch.usesWriteBuffering \in BOOLEAN
      /\ <<>> \in ByteSeq
  BY DEF ChannelInv, Good, Chan, ByteSeq
<1>2. b \in ByteSeq /\ Len(b) \in Nat /\ Len(b) > 0
  BY BlocksAre
<1>3. /\ Chan(w) /\ w.mode = ch.mode /\ w.unget = ch.unget /\ w.got = <<>>
      /\ w.currentIndexPosition = ch.currentIndexPosition
      /\ w.rdBytesFromLastWrite = ch.rdBytesFromLastWrite
      /\ Len(w.written) <= w.size /\ WriteBufferSize <= w.size
      /\ w.offset <= MaxFile => Len(w.file) <= MaxFile
      /\ Refused(s, w) \/ HeldUp(s, w) \/ Wrote(s, w, b) \/ Tore(s, w)
  BY DEF WriteEnds, Alike
<1>4. /\ s.written = ch.written /\ s.offset = ch.offset /\ s.file = ch.file
      /\ s.size = ch.size /\ Cont(s) = Cont(ch)
      /\ s.usesWriteBuffering = ch.usesWriteBuffering
  BY DEF Alike, Cont
<1>5. Chan(c) /\ c.mode = ch.mode /\ c.unget = ch.unget /\ c.got = <<>>
      /\ c.written = w.written /\ c.size = w.size /\ c.file = w.file
      /\ c.offset = w.offset /\ c.error = w.error /\ c.short = w.short
  <2>1. CASE w.retVal = -1
    BY <1>3, <2>1
  <2>2. CASE w.retVal # -1
    BY <1>3, <2>2 DEF Counted
  <2> QED BY <2>1, <2>2
<1>6. Fits(c) /\ Len(c.got) <= MaxIO
  <2>1. Len(c.got) <= MaxIO
    BY <1>5, Sizes, EmptySeq
  <2>2. Len(c.unget) <= UngetBufferSize
    BY <1>1, <1>5 DEF Fits
  <2> QED BY <1>3, <1>5, <2>1, <2>2, FitsIs
<1>7. recent' \in {recent, <<>>} /\ recent' \in ByteSeq
  BY <1>1
<1>8. /\ ch.offset \in Nat /\ Len(ch.written) \in Nat /\ Len(ch.unget) \in Nat
      /\ ch.currentIndexPosition \in Nat /\ c.offset \in Nat /\ Len(c.written) \in Nat
      /\ (ch.unget = <<>> => Len(ch.unget) = 0)
  BY <1>1, <1>5, Lengths DEF Chan
<1>9. ch.unget # <<>> /\ ~broken => ch.written = <<>>
  BY <1>1 DEF Good, Apart
<1>10. CASE Refused(s, w)
  <2>1. c = w /\ w.error = TRUE /\ c.file = ch.file /\ c.offset = ch.offset
        /\ c.written = ch.written /\ c.size = ch.size
    BY <1>4, <1>10 DEF Refused
  <2>2. c.rdBytesFromLastWrite \in {0, ch.rdBytesFromLastWrite}
    BY <1>3, <2>1
  <2>3. Good(c, recent, Rises(c)) /\ Cont(c) = Cont(ch) /\ Place(c) = Place(ch)
    BY <1>1, <1>5, <1>6, <2>1, <2>2, RisesMore
  <2>4. Good(c, recent', Rises(c))
    BY <1>7, <2>3, Forget
  <2>5. DriftOf(c) = DriftOf(ch)
    BY <1>3, <2>1 DEF DriftOf
  <2> QED BY <1>5, <2>1, <2>3, <2>4, <2>5, Stays
<1>11. CASE HeldUp(s, w)
  <2>1. c = w /\ w.error = TRUE /\ ch.written # <<>>
    BY <1>4, <1>11 DEF HeldUp
  <2>2. c.rdBytesFromLastWrite = 0 \/ recent' = <<>>
    <3>1. ch.rdBytesFromLastWrite = 0 \/ recent = <<>>
      BY <1>1, <2>1 DEF Good, Waits
    <3> QED BY <1>3, <1>7, <2>1, <3>1
  <2>3. ch.unget # <<>> => Rises(c)
    BY <1>9, <2>1 DEF Rises
  <2> DEFINE r == recent'
  <2>4. r \in ByteSeq /\ (c.rdBytesFromLastWrite = 0 \/ r = <<>>)
    BY <1>7, <2>2
  <2> HIDE DEF r
  <2>5. Good(c, r, Rises(c))
    BY <1>5, <1>6, <2>3, <2>4, WroteGood
  <2>6. Good(c, recent', Rises(c))
    BY <2>5 DEF r
  <2>7. Excused
    BY <1>5, <2>1, ReturnIs DEF Excused
  <2> QED BY <2>6, <2>7, Keeps
<1>12. CASE Wrote(s, w, b) \/ Tore(s, w)
  <2>1. w.retVal # -1 /\ w.retVal \in Nat
    BY <1>2, <1>12 DEF Wrote, Tore
  <2>2. Counted(w, c) /\ c.rdBytesFromLastWrite = 0
    BY <2>1 DEF Counted
  <2>3. ch.unget # <<>> => Rises(c)
    <3>1. ASSUME ch.unget # <<>>, ~broken PROVE Rises(c)
      <4>1. s.written = <<>>
        BY <1>4, <1>9, <3>1
      <4>2. c.offset + Len(c.written) > ch.offset + Len(ch.written)
        <5>1. CASE Wrote(s, w, b)
          <6>1. c.offset + Len(c.written) = (ch.offset + Len(ch.written)) + Len(b)
            BY <1>4, <1>5, <5>1 DEF Wrote
          <6> QED BY <1>2, <1>8, <6>1
        <5>2. CASE Tore(s, w)
          BY <1>4, <1>5, <4>1, <5>2 DEF Tore
        <5> QED BY <1>12, <5>1, <5>2
      <4> QED BY <3>1, <4>2 DEF Rises
    <3> QED BY <3>1 DEF Rises
  <2> DEFINE r == recent'
  <2>4. r \in ByteSeq /\ (c.rdBytesFromLastWrite = 0 \/ r = <<>>)
    BY <1>7, <2>2
  <2> HIDE DEF r
  <2>5. Good(c, r, Rises(c))
    BY <1>5, <1>6, <2>3, <2>4, WroteGood
  <2>6. Good(c, recent', Rises(c))
    BY <2>5 DEF r
  <2>7. CASE broken \/ ch.unget # <<>> \/ Tore(s, w)
    <3>1. ch.unget # <<>> => broken'
      BY <1>5, <2>3, ReturnIs
    <3>2. Tore(s, w) => ch'.short
      BY <1>5, ReturnIs DEF Tore
    <3>3. Excused
      BY <2>7, <3>1, <3>2 DEF Excused
    <3> QED BY <2>6, <3>3, Keeps
  <2>8. CASE ~broken /\ ch.unget = <<>> /\ Wrote(s, w, b)
    <3>1. s.written = <<>> \/ s.usesWriteBuffering
      BY <1>1, <1>4, <2>8 DEF Good, Stuck
    <3>2. Cont(c) = Overlay(Cont(ch), ch.offset + Len(ch.written), b)
      <4>1. Cont(w) = Overlay(Cont(s), s.offset + Len(s.written), b)
        BY <2>8, <3>1 DEF Wrote
      <4>2. Cont(c) = Cont(w)
        BY <1>5 DEF Cont
      <4> QED BY <1>4, <4>1, <4>2
    <3>3. c.offset + Len(c.written) = (ch.offset + Len(ch.written)) + Len(b)
      BY <1>4, <1>5, <2>8 DEF Wrote
    <3>4. Place(ch) = ch.offset + Len(ch.written) /\ Place(c) = Place(ch) + Len(b)
      <4>1. Place(ch) = (ch.offset + Len(ch.written)) - 0
            /\ Place(c) = ((ch.offset + Len(ch.written)) + Len(b)) - 0
        BY <1>5, <1>8, <2>8, <3>3 DEF Place
      <4> QED BY <1>2, <1>8, <4>1
    <3>5. DriftOf(c) = DriftOf(ch)
      <4>1. \A p, o, l \in Int : p - o - l = p - (o + l)
        OBVIOUS
      <4>2. \A p, q, l \in Int : (p + l) - (q + l) = p - q
        OBVIOUS
      <4>3. c.currentIndexPosition = ch.currentIndexPosition + Len(b)
        BY <1>3, <2>2, <2>8 DEF Counted, Wrote
      <4>4. DriftOf(ch) = ch.currentIndexPosition - (ch.offset + Len(ch.written))
        BY <1>8, <4>1 DEF DriftOf
      <4>5. c.currentIndexPosition \in Int
        BY <1>2, <1>8, <4>3
      <4>6. DriftOf(c) = c.currentIndexPosition - (c.offset + Len(c.written))
        BY <1>8, <4>1, <4>5 DEF DriftOf
      <4>7. ch.offset + Len(ch.written) \in Int
        BY <1>8
      <4> QED BY <1>2, <1>8, <3>3, <4>2, <4>3, <4>4, <4>6, <4>7
    <3>6. /\ content' = Overlay(content, place, b) /\ place' = place + Len(b)
          /\ ch'.got = <<>> /\ call'[1] = "write" /\ call'[2] = b
      BY <1>5, <3>2, <3>4, ReturnIs
    <3>7. Stream!Write(b)
      BY <3>6, StreamIs
    <3>8. Promised
      BY <3>6, <3>7 DEF Promised
    <3> QED BY <2>6, <3>5, <3>8, Keeps
  <2> QED BY <1>1, <1>12, <2>7, <2>8
<1> QED BY <1>3, <1>10, <1>11, <1>12

\* A write while the order of the buffers is broken.
LEMMA BrokenWriteKeeps ==
  ASSUME ChannelInv, broken, NEW b, NEW c, Chan(c), c.mode # "R_ONLY",
         Return("write", b, c), recent' = <<>>,
         Len(c.unget) <= UngetBufferSize, Len(c.written) <= c.size,
         WriteBufferSize <= c.size, Len(c.got) <= MaxIO,
         c.offset <= MaxFile => Len(c.file) <= MaxFile
  PROVE  Kept
<1>1. Fits(c)
  BY FitsIs
<1>2. Good(c, recent', Rises(c))
  BY <1>1, BrokenGood
<1>3. Excused
  BY DEF Excused
<1> QED BY <1>2, <1>3, Keeps

\* LseekIs for any channel and any place.
LEMMA LseekMoves ==
  \A x, to, z : Chan(x) /\ to \in Int /\ z = Lseek(x, to)
     => Chan(z) /\ Kin(x, z) /\ z.written = x.written /\ z.file = x.file
<1> SUFFICES ASSUME NEW x, Chan(x), NEW to \in Int
             PROVE  \A z : z = Lseek(x, to) => Chan(z) /\ Kin(x, z)
                                  /\ z.written = x.written /\ z.file = x.file
  OBVIOUS
<1> DEFINE l == Lseek(x, to)
<1>1. /\ Chan(l) /\ Kin(x, l)
      /\ l.written = x.written /\ l.file = x.file /\ l.short = x.short
      /\ \/ l.offset = x.offset /\ l.error = TRUE /\ l.retVal = -1
         \/ /\ to \in Nat /\ l.offset = to /\ l.retVal = to /\ (l.error <=> x.error)
  BY LseekIs
<1> QED BY <1>1

LEMMA WriteKeeps ==
  ASSUME ChannelInv, NEW b \in Blocks, NEW f, Write(b, f)
  PROVE  Kept
<1> DEFINE g == Fresh
           d == Flush(g, f)
           l == Lseek(d, d.offset + (- Len(g.unget)) - Len(d.unget))
           k == [l EXCEPT !.unget = <<>>]
           s == IF g.written = <<>> \/ g.unget = <<>> THEN [g EXCEPT !.retVal = 0]
                ELSE IF d.retVal = -1 THEN d ELSE k
           w == IF g.usesWriteBuffering THEN AddToWriteBuffer(s, b, f) ELSE FdWrite(s, b, f)
           p == w.currentIndexPosition + w.retVal
           t == [w EXCEPT !.rdBytesFromLastWrite = 0, !.currentIndexPosition = p]
           c == IF s.retVal = -1 THEN s ELSE IF w.retVal = -1 THEN w ELSE t
<1>1. ch.isOpen /\ recent' = IF ch.unget = <<>> THEN recent ELSE <<>>
  BY DEF Write, Allowed
<1>2. CASE ch.mode = "R_ONLY"
  <2>1. Return("write", b, Fail(Fresh))
    BY <1>2 DEF Write
  <2> QED BY <1>1, <2>1, FailKeeps
<1>3. CASE ch.mode # "R_ONLY"
  <2>1. Return("write", b, c)
    BY <1>3 DEF Write, WriteInternal, SeekBack
  <2>2. g = Fresh /\ d = Flush(Fresh, f)
    OBVIOUS
  <2>3. /\ Good(ch, recent, broken) /\ Chan(ch) /\ Fits(ch) /\ ch.isOpen = TRUE
    BY <1>1 DEF ChannelInv, Good, Chan
  <2>4. /\ Chan(g) /\ g.mode = ch.mode /\ g.unget = ch.unget /\ g.written = ch.written
        /\ g.usesWriteBuffering = ch.usesWriteBuffering /\ g.size = ch.size
        /\ g.file = ch.file /\ g.offset = ch.offset /\ g.got = <<>>
        /\ g.currentIndexPosition = ch.currentIndexPosition
        /\ g.rdBytesFromLastWrite = ch.rdBytesFromLastWrite
        /\ g.isOpen = TRUE
    BY <2>3, FreshIs
  <2>5. b \in ByteSeq /\ b # <<>> /\ Len(b) \in Nat /\ Len(b) <= MaxIO
    BY BlocksAre
  <2> HIDE DEF g
  \* What follows from a channel that can be written.
  <2>6. ASSUME Writable(s), s.usesWriteBuffering = ch.usesWriteBuffering
        PROVE  /\ WriteEnds(s, w, b)
               /\ w.retVal # -1 => Counted(w, t)
    <3> HIDE DEF s
    <3>1. w = IF s.usesWriteBuffering THEN AddToWriteBuffer(s, b, f) ELSE FdWrite(s, b, f)
      BY <2>4, <2>6
    <3> HIDE DEF w
    <3>2. WriteEnds(s, w, b)
      <4>1. CASE s.usesWriteBuffering
        <5>1. w = AddToWriteBuffer(s, b, f)
          BY <3>1, <4>1
        <5> QED BY <2>5, <2>6, <4>1, <5>1, AddEnds
      <4>2. CASE ~s.usesWriteBuffering
        <5>1. w = FdWrite(s, b, f)
          BY <3>1, <4>2
        <5> QED BY <2>5, <2>6, <4>2, <5>1, FdWriteEnds
      <4> QED BY <4>1, <4>2
    <3>3. ASSUME w.retVal # -1 PROVE Counted(w, t)
      <4>1. Chan(w) /\ w.retVal \in Nat
        BY <2>5, <3>2, <3>3 DEF WriteEnds, Refused, HeldUp, Wrote, Tore
      <4>2. p \in Nat /\ p = w.currentIndexPosition + w.retVal
        BY <4>1 DEF Chan
      <4>3. t = [w EXCEPT !.rdBytesFromLastWrite = 0, !.currentIndexPosition = p]
        OBVIOUS
      <4> HIDE DEF p, t
      <4> QED BY <4>1, <4>2, <4>3, CountedIs
    <3> QED BY <3>2, <3>3
  <2>7. CASE g.written = <<>> \/ g.unget = <<>>
    <3>1. s = [g EXCEPT !.retVal = 0]
      BY <2>7
    <3> HIDE DEF s, w, p
    <3>2. /\ Chan(s) /\ s.mode = g.mode /\ s.unget = g.unget /\ s.written = g.written
          /\ s.size = g.size /\ s.file = g.file /\ s.offset = g.offset /\ s.got = g.got
          /\ s.currentIndexPosition = g.currentIndexPosition
          /\ s.rdBytesFromLastWrite = g.rdBytesFromLastWrite
          /\ s.retVal = 0
      BY <2>4, <3>1 DEF Chan, Names
    <3>3. s.usesWriteBuffering = ch.usesWriteBuffering /\ s.isOpen = TRUE
      <4>1. s.usesWriteBuffering = g.usesWriteBuffering /\ s.isOpen = g.isOpen
        BY <2>4, <3>1 DEF Chan, Names
      <4> QED BY <2>4, <4>1
    <3>4. Alike(s)
      BY <2>4, <3>2, <3>3 DEF Alike
    <3>5. Writable(s)
      BY <2>3, <2>4, <3>2, <3>3 DEF Writable, Fits
    <3>6. WriteEnds(s, w, b) /\ (w.retVal # -1 => Counted(w, t))
      BY <2>6, <3>3, <3>5
    <3>7. c = IF w.retVal = -1 THEN w ELSE t
      BY <3>2
    <3> HIDE DEF c, t
    <3>8. (w.retVal = -1 => c = w) /\ (w.retVal # -1 => Counted(w, c))
      BY <3>6, <3>7
    <3> QED BY <1>1, <1>3, <2>1, <3>4, <3>6, <3>8, WrittenKeeps
  <2>8. CASE ~(g.written = <<>> \/ g.unget = <<>>)
    <3>1. ch.written # <<>> /\ ch.unget # <<>> /\ recent' = <<>>
      BY <1>1, <2>4, <2>8
    <3>2. broken
      BY <2>3, <3>1 DEF Good, Apart
    <3>3. /\ Good(d, recent, broken) /\ Chan(d) /\ d.mode = ch.mode
          /\ d.usesWriteBuffering = ch.usesWriteBuffering /\ d.isOpen = ch.isOpen
          /\ d.unget = ch.unget
      BY <1>1, <2>2, FirstFlush
    <3>4. /\ Len(d.unget) <= UngetBufferSize /\ Len(d.written) <= d.size
          /\ WriteBufferSize <= d.size /\ Len(d.got) <= MaxIO /\ Len(d.file) <= MaxFile
      BY <3>3 DEF Good, Fits
    <3>5. s = IF d.retVal = -1 THEN d ELSE k
      BY <2>8
    <3> HIDE DEF d
    <3> DEFINE to == d.offset + (- Len(g.unget)) - Len(d.unget)
    <3>6. to \in Int /\ l = Lseek(d, to)
      BY <2>4, <3>3, Lengths DEF Chan
    <3> HIDE DEF l, to
    <3>7. Chan(l) /\ Kin(d, l) /\ l.written = d.written /\ l.file = d.file
      <4>1. Chan(d) /\ to \in Int /\ l = Lseek(d, to)
        BY <3>3, <3>6
      <4> QED BY ONLY <4>1, LseekMoves
    <3>8. /\ Chan(k) /\ k.mode = l.mode /\ k.unget = <<>> /\ k.written = l.written
          /\ k.size = l.size /\ k.file = l.file /\ k.got = l.got
          /\ k.usesWriteBuffering = l.usesWriteBuffering /\ k.isOpen = l.isOpen
      <4>1. <<>> \in ByteSeq
        BY DEF ByteSeq
      <4> QED BY <3>7, <4>1 DEF Chan, Names
    <3> HIDE DEF k
    <3>9. /\ Chan(s) /\ s.mode = ch.mode /\ s.usesWriteBuffering = ch.usesWriteBuffering
          /\ s.isOpen = TRUE
          /\ Len(s.unget) <= UngetBufferSize /\ Len(s.written) <= s.size
          /\ WriteBufferSize <= s.size /\ Len(s.got) <= MaxIO /\ Len(s.file) <= MaxFile
      <4>1. CASE s = d
        BY <2>3, <3>3, <3>4, <4>1
      <4>2. CASE s = k
        <5>1. /\ k.mode = d.mode /\ k.usesWriteBuffering = d.usesWriteBuffering
              /\ k.isOpen = d.isOpen /\ k.size = d.size /\ k.got = d.got
              /\ k.written = d.written /\ k.file = d.file
          BY <3>7, <3>8 DEF Kin
        <5>2. Len(k.unget) <= UngetBufferSize
          BY <3>8, Sizes, EmptySeq
        <5> HIDE DEF s
        <5> QED BY <2>3, <3>3, <3>4, <3>8, <4>2, <5>1, <5>2
      <4> QED BY <3>5, <4>1, <4>2
    <3> HIDE DEF s
    <3>10. Writable(s)
      BY <3>9 DEF Writable
    <3>11. WriteEnds(s, w, b) /\ (w.retVal # -1 => Counted(w, t))
      BY <2>6, <3>9, <3>10
    <3> HIDE DEF w, t
    <3>12. /\ Chan(c) /\ c.mode # "R_ONLY" /\ Len(c.unget) <= UngetBufferSize
           /\ Len(c.written) <= c.size /\ WriteBufferSize <= c.size
           /\ Len(c.got) <= MaxIO /\ (c.offset <= MaxFile => Len(c.file) <= MaxFile)
      <4>1. CASE c = s
        BY <1>3, <3>9, <4>1
      <4>2. CASE c = w
        BY <1>3, <3>9, <3>11, <4>2 DEF WriteEnds
      <4>3. CASE c = t /\ w.retVal # -1
        <5> HIDE DEF c
        <5> QED BY <1>3, <3>9, <3>11, <4>3 DEF WriteEnds, Counted
      <4> QED BY <4>1, <4>2, <4>3
    <3> HIDE DEF c
    <3> QED BY <2>1, <3>1, <3>2, <3>12, BrokenWriteKeeps
  <2> QED BY <2>7, <2>8
<1> QED BY <1>2, <1>3

-----------------------------------------------------------------------------
(* The theorems.                                                            *)

LEMMA InitGood ==
  ASSUME Init
  PROVE  ChannelInv
<1> DEFINE z == [file |-> File]
<1>1. File \in ByteSeq /\ Len(File) = FileSize
  <2>1. File \in [1..FileSize -> Byte]
    BY Sizes DEF File, Byte
  <2>2. FileSize \in Nat
    BY Sizes
  <2> QED BY <2>1, <2>2 DEF ByteSeq
<1>2. z.file = File /\ ch = Reset(z) /\ recent = <<>> /\ broken = FALSE
  BY DEF Init
<1> HIDE DEF z
<1>3. /\ Chan(ch) /\ ch.unget = <<>> /\ ch.written = <<>> /\ ch.got = <<>>
      /\ ch.size = WriteBufferSize /\ ch.file = File /\ ch.offset = 0
      /\ ch.currentIndexPosition = 0 /\ ch.rdBytesFromLastWrite = 0
  BY <1>1, <1>2, ResetIs
<1>4. Len(<<>>) = 0 /\ <<>> \in ByteSeq /\ Len(<<>>) - 1 = -1
  BY DEF ByteSeq
<1>5. Fits(ch)
  BY <1>1, <1>3, <1>4, Sizes DEF Fits
<1>6. Apart(ch, broken) /\ Waits(ch, recent) /\ ~Stuck(ch) /\ Ungot(ch)
  BY <1>3 DEF Apart, Waits, Stuck, Ungot
<1>7. Recalls(ch, recent)
  BY <1>2, <1>4 DEF Recalls
<1>8. (Stuck(ch) => broken) /\ (~broken => Ungot(ch))
  BY <1>6
<1>9. recent \in ByteSeq /\ broken \in BOOLEAN
  BY <1>2, <1>4
<1>10. Good(ch, recent, broken)
  BY <1>3, <1>5, <1>6, <1>7, <1>8, <1>9 DEF Good
<1>11. ch.currentIndexPosition <= MaxCount /\ ch.rdBytesFromLastWrite <= MaxCount
  BY <1>3, Sizes
<1> QED BY <1>10, <1>11 DEF ChannelInv

LEMMA NextKeeps ==
  ASSUME ChannelInv, Next
  PROVE  Kept
<1>1. \A f : FlushCall(f) => Kept
  BY FlushCallKeeps
<1>2. \A b \in Blocks : \A f : Write(b, f) => Kept
  BY WriteKeeps
<1>3. \A to \in -1..MaxFile : \A f : SeekSet(to, f) => Kept
  <2>1. \A to \in -1..MaxFile : to \in Int
    BY Sizes
  <2> QED BY <2>1, SeekToKeeps
<1>4. \A back \in 0..MaxFile : \A f : SeekEnd(back, f) => Kept
  <2>1. \A back \in 0..MaxFile : back \in Int
    BY Sizes
  <2> QED BY <2>1, SeekEndKeeps
<1>5. \A offset \in -MaxIO..MaxIO : \A f : SeekCur(offset, f) => Kept
  <2>1. \A offset \in -MaxIO..MaxIO : offset \in Int
    BY Sizes
  <2> QED BY <2>1, SeekCurKeeps
<1>6. \A f : Rewind(f) => Kept
  BY RewindKeeps
<1>7. \A f : ResetIndexes(f) => Kept
  BY ResetIndexesKeeps
<1>8. \A use, resize \in BOOLEAN : \A f : SetUseWriteBuffering(use, resize, f) => Kept
  BY SetUseWriteBufferingKeeps
<1>9. \A n \in 1..MaxIO : Unget(n) => Kept
  BY UngetKeeps
<1>10. \A n \in 1..MaxIO : \A f : Read(n, f) => Kept
  BY ReadKeeps
<1>11. \A f : Close(f) => Kept
  BY CloseKeeps
<1>12. \A mode \in Modes : \A f : Open(mode, f) => Kept
  BY OpenKeeps
<1>13. \A external \in BOOLEAN : SetWriteBuffer(external) => Kept
  BY SetWriteBufferKeeps
<1>14. CleanError => Kept
  BY CleanErrorKeeps
<1> QED BY <1>1, <1>2, <1>3, <1>4, <1>5, <1>6, <1>7, <1>8, <1>9, <1>10, <1>11, <1>12,
           <1>13, <1>14 DEF Next

LEMMA StutterKeeps ==
  ASSUME ChannelInv, UNCHANGED vars
  PROVE  ChannelInv'
BY DEF ChannelInv, vars

LEMMA InvariantTells ==
  ASSUME ChannelInv
  PROVE  TypeOK /\ OneBufferInUse
<1>1. /\ Chan(ch) /\ Fits(ch) /\ Apart(ch, broken) /\ recent \in ByteSeq
      /\ broken \in BOOLEAN
      /\ ch.currentIndexPosition <= MaxCount /\ ch.rdBytesFromLastWrite <= MaxCount
  BY DEF ChannelInv, Good
<1>2. ByteSeq = ByteSeqs
  BY DEF ByteSeq, ByteSeqs, Byte
<1>3. /\ ch.offset \in 0..MaxFile /\ ch.currentIndexPosition \in 0..MaxCount
      /\ ch.rdBytesFromLastWrite \in 0..MaxCount
  <2>1. /\ ch.offset \in Nat /\ Len(ch.written) \in Nat
        /\ ch.currentIndexPosition \in Nat /\ ch.rdBytesFromLastWrite \in Nat
    BY <1>1, Lengths DEF Chan
  <2>2. ch.offset + Len(ch.written) <= MaxFile
    BY <1>1 DEF Fits
  <2> QED BY <1>1, <2>1, <2>2, Sizes
<1>4. {ch.isOpen, ch.error, ch.foundEof, ch.usesWriteBuffering, ch.autoResize,
       ch.writeBufferIsExternal, ch.short, ch.aborted} \subseteq BOOLEAN
  BY <1>1 DEF Chan
<1>5. TypeOK
  BY <1>1, <1>2, <1>3, <1>4 DEF TypeOK, Chan, Fits
<1>6. OneBufferInUse
  BY <1>1 DEF OneBufferInUse, Apart
<1> QED BY <1>5, <1>6

\* The inductive invariant: what is ungot is what the stream holds at its place,
\* what may still be ungot lies right before it, and bytes wait to be written only
\* when none can be ungot.
THEOREM ChannelIsConsistent == Spec => []ChannelInv
<1>1. Init => ChannelInv
  BY InitGood
<1>2. ChannelInv /\ [Next]_vars => ChannelInv'
  BY NextKeeps, StutterKeeps DEF Kept
<1> QED BY <1>1, <1>2, PTL DEF Spec

\* IOChannel_unget and IOChannel_read never leave bytes of the file in both buffers,
\* and a call that fails leaves the position of the stream where it was.
THEOREM BuffersStayKept == Spec => BuffersAreKept
<1>1. ChannelInv => TypeOK /\ OneBufferInUse
  BY InvariantTells
<1>2. ChannelInv /\ [Next]_vars
      => [Excused \/ call'[1] \in {"seekBy", "resetIndexes"} \/ Drift' \in {0, Drift}]_vars
  BY NextKeeps DEF Kept
<1> QED BY <1>1, <1>2, ChannelIsConsistent, PTL DEF Spec, BuffersAreKept, PositionKept

\* The write buffer, the unget buffer and the file offset are together one stream of
\* bytes: every call of the channel is the step of ByteStream that it promises.
THEOREM ChannelIsAStream == Spec => ImplementsStream
<1>1. ChannelInv /\ [Next]_vars => [Excused \/ Promised]_vars
  BY NextKeeps DEF Kept
<1> QED BY <1>1, ChannelIsConsistent, PTL DEF Spec, ImplementsStream
=============================================================================
