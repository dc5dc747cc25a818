---------------------------- MODULE MC_ChunksCbor ----------------------------
(***************************************************************************)
(* parse_chunks_cbor with 2-byte chunks, a 1-byte header and every table   *)
(* of up to five entries over 0..3: no segment, a boot segment only, boot  *)
(* and one or two firmware segments, empty segments, odd tables.           *)
(***************************************************************************)
EXTENDS ChunksCbor

MC_ChunkSize == 2
MC_Header == 1
MC_Tables == UNION {[1..n -> 0..3] : n \in 0..5}
MC_ShortNone == {0}
MC_ShortSome == 0..3
=============================================================================
