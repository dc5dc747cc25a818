------------------------------ MODULE ChunksCbor ------------------------------
(***************************************************************************)
(* parse_chunks_cbor after the CBOR decoding: the segment table is the     *)
(* flat (address, length, address, length, ...) list decoded from the      *)
(* manifest, the outer structure ends at blob_offset = Header, and the     *)
(* raw file holds RawLen bytes.  The loop over the table builds the        *)
(* segments, then each segment's bytes are sliced from the raw file and    *)
(* split into chunks, the first segment's into boot_chunks and the rest    *)
(* into fw_chunks.                                                         *)
(***************************************************************************)
EXTENDS ChunkRef

CONSTANTS
    Tables,     \* segments_flat lists the manifests carry
    Header,     \* blob_offset: bytes taken by the outer CBOR structure
    Shortfall   \* by how many bytes the raw file may fall short of the table

\* The bytes the table declares after the header.
Declared(t) ==
    LET s[k \in 0..Len(t)] ==
            IF k = 0 THEN 0 ELSE s[k - 1] + (IF k % 2 = 0 THEN t[k] ELSE 0)
    IN  s[Len(t)]

Segment == [addr : Nat, length : Nat, offset : Nat, is_boot : BOOLEAN]

VARIABLES
    flat,        \* segments_flat
    rawLen,      \* len(raw)
    pc,          \* "segs" (table loop), "split" (chunk loops), "done", "error"
    i,           \* index of the table loop (0-based, step 2)
    dataOffset,  \* data_offset
    segments,
    s,           \* segment of the split loop (1-based)
    j,           \* stride index of the split loop
    boot,        \* boot_chunks
    fw           \* fw_chunks

vars == <<flat, rawLen, pc, i, dataOffset, segments, s, j, boot, fw>>

TypeOK ==
    /\ flat \in Tables
    /\ rawLen \in Nat
    /\ pc \in {"segs", "split", "done", "error"}
    /\ i \in Nat /\ dataOffset \in Nat /\ s \in Nat /\ j \in Nat
    /\ segments \in Seq(Segment)
    /\ boot \in Seq(Chunk) /\ fw \in Seq(Chunk)

Init ==
    /\ flat \in Tables
    /\ rawLen \in {Header + Declared(flat) - d :
                      d \in {e \in Shortfall : e <= Declared(flat)}}
    /\ pc = "segs"
    /\ i = 0
    /\ dataOffset = Header
    /\ segments = <<>>
    /\ s = 1 /\ j = 0
    /\ boot = <<>> /\ fw = <<>>

\* Mutant of AddSegment: data_offset is not advanced past the segment.
AddSegmentSameOffset ==
    /\ pc = "segs"
    /\ i + 2 <= Len(flat)
    /\ segments' = Append(segments, [addr |-> flat[i + 1], length |-> flat[i + 2],
                                     offset |-> dataOffset, is_boot |-> i = 0])
    /\ i' = i + 2
    /\ UNCHANGED <<flat, rawLen, pc, dataOffset, s, j, boot, fw>>

\* One iteration of the table loop: a segment at the running data_offset,
\* the boot segment being the first pair.
AddSegment ==
    /\ pc = "segs"
    /\ i + 2 <= Len(flat)
    /\ segments' = Append(segments, [addr |-> flat[i + 1], length |-> flat[i + 2],
                                     offset |-> dataOffset, is_boot |-> i = 0])
    /\ dataOffset' = dataOffset + flat[i + 2]
    /\ i' = i + 2
    /\ UNCHANGED <<flat, rawLen, pc, s, j, boot, fw>>

\* An odd table: segments_flat[i + 1] raises IndexError out of the parser.
OddTable ==
    /\ pc = "segs"
    /\ i + 1 = Len(flat)
    /\ pc' = "error"
    /\ UNCHANGED <<flat, rawLen, i, dataOffset, segments, s, j, boot, fw>>

EndTable ==
    /\ pc = "segs"
    /\ i >= Len(flat)
    /\ pc' = "split"
    /\ UNCHANGED <<flat, rawLen, i, dataOffset, segments, s, j, boot, fw>>

\* One iteration of "for i in range(0, seg['length'], chunk_size)": the
\* chunk at seg.addr + i holds seg_data[i:i + chunk_size], seg_data being
\* raw[seg.offset:seg.offset + seg.length].
SplitChunk ==
    LET seg   == segments[s]
        avail == SliceLen(rawLen, seg.offset, seg.offset + seg.length)
        c     == [addr |-> seg.addr + j, from |-> seg.offset + j,
                  len  |-> SliceLen(avail, j, j + ChunkSize)]
    IN  /\ pc = "split"
        /\ s <= Len(segments)
        /\ j < seg.length
        /\ IF seg.is_boot THEN boot' = Append(boot, c) /\ fw' = fw
                          ELSE fw' = Append(fw, c) /\ boot' = boot
        /\ j' = j + ChunkSize
        /\ UNCHANGED <<flat, rawLen, pc, i, dataOffset, segments, s>>

NextSegment ==
    /\ pc = "split"
    /\ s <= Len(segments)
    /\ j >= segments[s].length
    /\ s' = s + 1
    /\ j' = 0
    /\ UNCHANGED <<flat, rawLen, pc, i, dataOffset, segments, boot, fw>>

\* return boot_chunks, fw_chunks
Finish ==
    /\ pc = "split"
    /\ s > Len(segments)
    /\ pc' = "done"
    /\ UNCHANGED <<flat, rawLen, i, dataOffset, segments, s, j, boot, fw>>

Next == AddSegment \/ OddTable \/ EndTable \/ SplitChunk \/ NextSegment \/ Finish

Spec == Init /\ [][Next]_vars

(***************************************************************************)
(* Reference (spec section 3 and 8): segment k's payload starts where the  *)
(* payloads of the segments before it end, right after the header, and is *)
(* split as in section 8; the boot chunks are the first segment's, the     *)
(* firmware chunks the others' in table order.                             *)
(***************************************************************************)
NSegs == Len(flat) \div 2

SegStart(k) == Header + Declared(SubSeq(flat, 1, 2 * (k - 1)))

SegSplit(k) == SplitRef(flat[2 * k - 1], SegStart(k), flat[2 * k])

RefBoot == IF NSegs >= 1 THEN SegSplit(1) ELSE <<>>

RefFw == FlattenSeq([k \in 1..(NSegs - 1) |-> SegSplit(k + 1)])

\* Whatever the table, when parse_chunks_cbor returns, its boot and
\* firmware chunk lists are the section 8 splits of the table's segments,
\* each chunk carrying exactly the declared bytes of its segment, read
\* from the raw file after the header with no gap and no overlap.
ManifestChunksOk == pc = "done" => boot = RefBoot /\ fw = RefFw
=============================================================================
