---------------------------- MODULE MC_ChunksBin ----------------------------
(***************************************************************************)
(* parse_chunks_bin with a chunk size of 3 bytes over every file of up to  *)
(* 25 bytes: empty, shorter than a chunk, whole multiples and a tail.      *)
(***************************************************************************)
EXTENDS ChunksBin

MC_ChunkSize == 3
MC_FileSizes == 0..25
=============================================================================
