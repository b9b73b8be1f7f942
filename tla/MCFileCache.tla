---------------------------- MODULE MCFileCache ----------------------------
(* A cache of four bytes for files of one, four and five bytes.            *)
EXTENDS FileCache, TLC

CONSTANTS fa, fb, fc, fd, fe

FileSize == fa :> 1 @@ fb :> 1 @@ fc :> 1 @@ fd :> 4 @@ fe :> 5

(* fa and fb share a bucket; fc shares one with fe, which never fits.      *)
SharedHash == fa :> 4 @@ fb :> 0 @@ fc :> 5 @@ fd :> 2 @@ fe :> 1

Interchangeable == Permutations(Worker) \cup Permutations(Block)
=============================================================================
