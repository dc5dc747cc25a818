------------------------------ MODULE ChunkRef ------------------------------
(***************************************************************************)
(* What the spec (sections 3 and 8) says a split into chunks is.  A chunk  *)
(* is abstracted to its destination address, the position in the input    *)
(* file its payload starts at, and its payload length: the bytes           *)
(* themselves are whatever the file holds at those positions.              *)
(***************************************************************************)
EXTENDS Naturals, SequencesExt

CONSTANT ChunkSize   \* chunk_size (4096 in the code)

ASSUME ChunkSizeAssumption == ChunkSize \in Nat \ {0}

Chunk == [addr : Nat, from : Nat, len : Nat]

MinOf(a, b) == IF a <= b THEN a ELSE b

CeilDiv(n, c) == (n + c - 1) \div c

\* Length of the Python slice x[a:b] of a buffer of length n (0 <= a).
SliceLen(n, a, b) == IF MinOf(b, n) > a THEN MinOf(b, n) - a ELSE 0

\* Sum of the payload lengths of a chunk sequence.
LenSum(cs) ==
    LET s[k \in 0..Len(cs)] == IF k = 0 THEN 0 ELSE s[k - 1] + cs[k].len
    IN  s[Len(cs)]

\* Section 8: splitting n bytes, taken from position p, to base address a
\* yields ceil(n/C) chunks, addresses strictly increasing by exactly the
\* previous chunk's length, no chunk empty or longer than C, payload
\* lengths summing to n; each payload is read from the file at the same
\* distance from p as its address is from a.
IsSplit(cs, a, p, n) ==
    /\ Len(cs) = CeilDiv(n, ChunkSize)
    /\ \A k \in 1..Len(cs) :
          /\ cs[k].len \in 1..ChunkSize
          /\ cs[k].addr = IF k = 1 THEN a ELSE cs[k - 1].addr + cs[k - 1].len
          /\ cs[k].from - p = cs[k].addr - a
    /\ LenSum(cs) = n

\* The one sequence with that shape: chunk k at a + (k-1)*C.
SplitRef(a, p, n) ==
    [k \in 1..CeilDiv(n, ChunkSize) |->
        [addr |-> a + (k - 1) * ChunkSize,
         from |-> p + (k - 1) * ChunkSize,
         len  |-> MinOf(ChunkSize, n - (k - 1) * ChunkSize)]]
=============================================================================
