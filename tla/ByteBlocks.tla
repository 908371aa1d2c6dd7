------------------------------ MODULE ByteBlocks ------------------------------
(***************************************************************************)
(* Blocks of bytes and what reading and writing them at a place means.      *)
(***************************************************************************)
EXTENDS Integers, Sequences, FiniteSetsExt

CONSTANT Zero       \* the byte that fills a gap in front of a write

(* s with block b laid over it from place p on *)
Overlay(s, p, b) ==
    IF b = <<>> THEN s
    ELSE [i \in 1..Max({Len(s), p + Len(b)}) |->
             CASE i \in p + 1 .. p + Len(b) -> b[i - p]
               [] i <= Len(s) /\ i \notin p + 1 .. p + Len(b) -> s[i]
               [] OTHER -> Zero]

(* the bytes of s from place p on, n of them or as many as there are *)
BytesFrom(s, p, n) == SubSeq(s, p + 1, Min({p + n, Len(s)}))
=============================================================================
