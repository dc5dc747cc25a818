------------------------------ MODULE ChunksBin ------------------------------
(***************************************************************************)
(* parse_chunks_bin: read a .bin file chunk_size bytes at a time until a   *)
(* read returns nothing; each chunk is tagged with the running offset.     *)
(***************************************************************************)
EXTENDS ChunkRef

CONSTANT FileSizes   \* sizes of the files the run opens

VARIABLES
    size,     \* length of the file
    pos,      \* the file object's read position
    offset,   \* the offset variable of parse_chunks_bin
    chunks,   \* the returned list
    pc        \* "read" (in the while loop) or "done" (returned)

vars == <<size, pos, offset, chunks, pc>>

TypeOK ==
    /\ size \in FileSizes
    /\ pos \in 0..size
    /\ offset \in Nat
    /\ chunks \in Seq(Chunk)
    /\ pc \in {"read", "done"}

Init ==
    /\ size \in FileSizes
    /\ pos = 0
    /\ offset = 0
    /\ chunks = <<>>
    /\ pc = "read"

\* chunk := f.read(chunk_size) is non-empty: append (offset, chunk) and
\* advance offset by len(chunk).
Read ==
    LET n == SliceLen(size, pos, pos + ChunkSize)
    IN  /\ pc = "read"
        /\ n > 0
        /\ chunks' = Append(chunks, [addr |-> offset, from |-> pos, len |-> n])
        /\ pos' = pos + n
        /\ offset' = offset + n
        /\ UNCHANGED <<size, pc>>

\* Mutant of Eof: the loop also stops on a short read, as a
\* "while len(chunk) == chunk_size" loop would.
EofShortRead ==
    /\ pc = "read"
    /\ SliceLen(size, pos, pos + ChunkSize) < ChunkSize
    /\ pc' = "done"
    /\ UNCHANGED <<size, pos, offset, chunks>>

\* f.read returns b"": the loop ends and the list is returned.
Eof ==
    /\ pc = "read"
    /\ SliceLen(size, pos, pos + ChunkSize) = 0
    /\ pc' = "done"
    /\ UNCHANGED <<size, pos, offset, chunks>>

Next == Read \/ Eof

Spec == Init /\ [][Next]_vars

\* The list parse_chunks_bin returns for a file of N bytes is the section 8
\* split of N at base address 0: ceil(N/C) chunks, none empty, none longer
\* than C, contiguous addresses, payload lengths summing to N (an empty
\* file gives no chunk at all).
BinSplitOk == pc = "done" => IsSplit(chunks, 0, 0, size)
=============================================================================
