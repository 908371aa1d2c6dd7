------------------------------ MODULE ByteStream ------------------------------
(***************************************************************************)
(* What a channel promises its caller: a sequence of bytes and one place in *)
(* it, where the next read or write happens.  Module IOChannel keeps a      *)
(* write buffer and an unget buffer in front of a file to implement it.     *)
(***************************************************************************)
EXTENDS ByteBlocks

VARIABLES
    content,    \* all bytes of the stream
    place,      \* how many of them lie before the next read or write
    got         \* the bytes that the last call has read

streamVars == <<content, place, got>>

Init == place = 0 /\ got = <<>>

Read(n) ==
    /\ got' = BytesFrom(content, place, n)
    /\ place' = place + Len(got')
    /\ UNCHANGED content

Write(b) ==
    /\ content' = Overlay(content, place, b)
    /\ place' = place + Len(b)
    /\ got' = <<>>

(* a byte that is ungot will be read again: the place goes back *)
Unget(n) ==
    /\ n <= place
    /\ place' = place - n
    /\ got' = <<>>
    /\ UNCHANGED content

Seek(p) ==
    /\ place' = p
    /\ got' = <<>>
    /\ UNCHANGED content

(* whatever else is called, and every call that fails *)
Stay == got' = <<>> /\ UNCHANGED <<content, place>>
=============================================================================
