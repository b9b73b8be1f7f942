------------------------------ MODULE FileSet ------------------------------
(***************************************************************************)
(* fileset.c, which makes the files that the web server serves and an      *)
(* index of them, and the part of client.c that reads the index and picks  *)
(* the file of a request.  They are run again and again, one at a time;    *)
(* fileset may be killed at any moment, and leaves on disk what it has     *)
(* done.                                                                   *)
(***************************************************************************)
EXTENDS Integers, Sequences, FiniteSets, SequencesExt

CONSTANTS
  Params,      \* what fileset is run with: <<mean file size, number of files>>
  FileSize,    \* the sizes that rand_pareto may return
  FsBlock,     \* the size of a block (4096)
  IntMax,      \* the largest int
  EntryLength, \* the length of a line of the index
  Room         \* the size of idx_buffer, less one

ASSUME FileSetAssumption ==
  /\ Params \subseteq (Nat \ {0, 1}) \X (Nat \ {0})
  /\ FileSize \subseteq Nat \ {0}
  /\ {FsBlock, IntMax, EntryLength, Room} \subseteq Nat \ {0}

VARIABLES
  disk,       \* the files of the directory, by number
  idx_count,  \* the first line of the index, the number of files, or NoLine
  idx,        \* its other lines
  complete,   \* whether the last run of fileset came to its end
  mean,       \* its mean file size; the seed is fixed, so csum follows from it
  nr_files, current_fileset_sz, total_fileset_sz,
  file_sz, remaining,
  idx_buffer, \* the lines of the files made so far
  fs_pc,
  fileset, nr_entries, line_nr, \* the client's files, their number, and its line
  fnr,        \* the file it asks for
  cl_pc

gen_vars == <<mean, nr_files, current_fileset_sz, total_fileset_sz,
              file_sz, remaining, idx_buffer>>
cl_vars == <<fileset, nr_entries, line_nr, fnr, cl_pc>>
fs_vars == <<disk, idx_count, idx, complete, gen_vars, fs_pc, cl_vars>>

NoLine == -1
Info == [name : Nat, csum : Nat, len : Nat]

FsTypeOK ==
  /\ \A n \in DOMAIN disk : n \in Nat /\ disk[n] \in [csum : Nat, len : Nat]
  /\ idx_count \in Nat \cup {NoLine}
  /\ {idx, idx_buffer, fileset} \subseteq Seq(Info)
  /\ {current_fileset_sz, total_fileset_sz} \subseteq -IntMax - 1 .. IntMax
  /\ {nr_files, file_sz, remaining} \subseteq Nat
  /\ fs_pc \in {"idle", "unlink", "loop", "write", "count", "entries"}
  /\ cl_pc \in {"idle", "index", "ask", "get", "abort", "rand_abort"}

FsInit ==
  /\ disk = <<>>
  /\ idx_count = NoLine
  /\ idx = <<>>
  /\ complete = FALSE
  /\ mean = 0 /\ nr_files = 0 /\ current_fileset_sz = 0 /\ total_fileset_sz = 0
  /\ file_sz = 0 /\ remaining = 0
  /\ idx_buffer = <<>>
  /\ fs_pc = "idle"
  /\ fileset = <<>> /\ nr_entries = 0 /\ line_nr = 0 /\ fnr = 0
  /\ cl_pc = "idle"

(* An int that overflows wraps around.                                     *)
Wrap(n) == ((n + IntMax + 1) % (2 * (IntMax + 1))) - (IntMax + 1)

(* The contents of a file: with the same mean, a longer file begins like a *)
(* shorter one, and its checksum is larger.                                *)
Contents(n) == [csum |-> mean * n, len |-> n]

(* The process ends, and its memory with it.                               *)
FsGone ==
  /\ fs_pc' = "idle"
  /\ mean' = 0 /\ nr_files' = 0 /\ current_fileset_sz' = 0
  /\ file_sz' = 0 /\ remaining' = 0
  /\ idx_buffer' = <<>>
  /\ UNCHANGED total_fileset_sz

Smaller(m, n) == IF m < n THEN m ELSE n
-----------------------------------------------------------------------------
(* main: the parameters, and the directory, which is there or is made.     *)
FsStart ==
  /\ fs_pc = "idle" /\ cl_pc \in {"idle", "abort", "rand_abort"}
  /\ \E p \in Params :
       /\ mean' = p[1]
       /\ total_fileset_sz' = Wrap(p[1] * FsBlock * p[2])
  /\ nr_files' = 0
  /\ current_fileset_sz' = 0
  /\ idx_buffer' = <<>>
  /\ complete' = FALSE
  /\ fs_pc' = "unlink"
  /\ cl_pc' = "idle"
  /\ UNCHANGED <<disk, idx_count, idx, file_sz, remaining, fileset, nr_entries,
                 line_nr, fnr>>

(* The files of earlier runs go, one by one.                               *)
StaleNone == {} \* mutant: the directory is not emptied
Stale == DOMAIN disk

FsUnlink ==
  /\ fs_pc = "unlink"
  /\ \/ /\ \E n \in Stale : disk' = [m \in DOMAIN disk \ {n} |-> disk[m]]
        /\ UNCHANGED fs_pc
     \/ /\ Stale = {}
        /\ fs_pc' = "loop"
        /\ UNCHANGED disk
  /\ UNCHANGED <<idx_count, idx, complete, gen_vars, cl_vars>>

(* The loop: a file is made, written block by block, and noted.            *)
rand_pareto(m) == {sz \in FileSize : sz >= m}

FsCreate ==
  /\ fs_pc = "loop"
  /\ current_fileset_sz < total_fileset_sz
  /\ \E sz \in rand_pareto(FsBlock) :
       /\ file_sz' = sz
       /\ remaining' = sz
       /\ current_fileset_sz' = Wrap(current_fileset_sz + sz)
  /\ disk' = [n \in DOMAIN disk \cup {nr_files} |->
                IF n = nr_files THEN Contents(0) ELSE disk[n]]
  /\ nr_files' = nr_files + 1
  /\ fs_pc' = "write"
  /\ UNCHANGED <<idx_count, idx, complete, mean, total_fileset_sz, idx_buffer, cl_vars>>

ChunkWhole == FsBlock \* mutant: the last block is not cut
ChunkBlocks == IF remaining < FsBlock THEN 0 ELSE FsBlock \* mutant: only whole ones
Chunk == Smaller(remaining, FsBlock)

FsWrite ==
  /\ fs_pc = "write"
  /\ remaining > 0
  /\ remaining' = remaining - Chunk
  /\ disk' = [disk EXCEPT ![nr_files - 1] = Contents(file_sz - remaining')]
  /\ UNCHANGED <<idx_count, idx, complete, mean, nr_files, current_fileset_sz,
                 total_fileset_sz, file_sz, idx_buffer, fs_pc, cl_vars>>

(* assert(cur_size < ...): the index outgrows its buffer.                  *)
FitsBuffer == EntryLength * (Len(idx_buffer) + 1) < Room

FsNote ==
  /\ fs_pc = "write"
  /\ remaining <= 0
  /\ \/ /\ FitsBuffer
        /\ idx_buffer' = Append(idx_buffer, [name |-> nr_files - 1,
                           csum |-> mean * file_sz, len |-> file_sz])
        /\ fs_pc' = "loop"
        /\ UNCHANGED <<mean, nr_files, current_fileset_sz, total_fileset_sz,
                       file_sz, remaining>>
     \/ /\ ~FitsBuffer
        /\ FsGone
  /\ UNCHANGED <<disk, idx_count, idx, complete, cl_vars>>

(* The index is written when all files are: it is emptied, the number of   *)
(* files goes to its first line, and then the entries.                     *)
KeepIndex == UNCHANGED idx \* mutant: the index is not truncated
EmptyIndex == idx' = <<>>

FsTruncate ==
  /\ fs_pc = "loop"
  /\ current_fileset_sz >= total_fileset_sz
  /\ idx_count' = NoLine
  /\ EmptyIndex
  /\ fs_pc' = "count"
  /\ UNCHANGED <<disk, complete, gen_vars, cl_vars>>

FsCount ==
  /\ fs_pc = "count"
  /\ idx_count' = nr_files
  /\ fs_pc' = "entries"
  /\ UNCHANGED <<disk, idx, complete, gen_vars, cl_vars>>

FsEntry ==
  /\ fs_pc = "entries"
  /\ \/ /\ Len(idx) < Len(idx_buffer)
        /\ idx' = Append(idx, idx_buffer[Len(idx) + 1])
        /\ UNCHANGED <<complete, fs_pc, gen_vars>>
     \/ /\ Len(idx) >= Len(idx_buffer)
        /\ complete' = TRUE
        /\ FsGone
        /\ UNCHANGED idx
  /\ UNCHANGED <<disk, idx_count, cl_vars>>

FsKilled ==
  /\ fs_pc # "idle"
  /\ FsGone
  /\ UNCHANGED <<disk, idx_count, idx, complete, cl_vars>>
-----------------------------------------------------------------------------
(* The client: main, then init_fileset, a turn of its loop per line.       *)
IsFullEarly == Len(fileset) + 1 >= nr_entries \* mutant: off by one
IsFull == Len(fileset) >= nr_entries

ClStart ==
  /\ fs_pc = "idle" /\ cl_pc \in {"idle", "rand_abort"}
  /\ fileset' = <<>>
  /\ nr_entries' = 0
  /\ line_nr' = 0
  /\ cl_pc' = "index"
  /\ UNCHANGED <<disk, idx_count, idx, complete, gen_vars, fs_pc, fnr>>

ClLine ==
  /\ cl_pc = "index"
  /\ \/ /\ line_nr = 0
        /\ idx_count > 0
        /\ nr_entries' = idx_count
        /\ UNCHANGED <<fileset, cl_pc>>
     \/ /\ line_nr \in 1 .. Len(idx)
        /\ ~IsFull
        /\ fileset' = Append(fileset, idx[line_nr])
        /\ UNCHANGED <<nr_entries, cl_pc>>
     \/ /\ line_nr > Len(idx)
        /\ line_nr # 0
        /\ Len(fileset) = nr_entries
        /\ cl_pc' = "ask"
        /\ UNCHANGED <<fileset, nr_entries>>
  /\ line_nr' = line_nr + 1
  /\ UNCHANGED <<disk, idx_count, idx, complete, gen_vars, fs_pc, fnr>>

(* Its assertions about the index.                                         *)
BadIndex ==
  \/ line_nr = 0 /\ idx_count <= 0
  \/ line_nr \in 1 .. Len(idx) /\ IsFull
  \/ line_nr > Len(idx) /\ line_nr > 0 /\ Len(fileset) # nr_entries

(* What rand_int computes.  It is 0 when random() is, and then its own      *)
(* assertion ends the client, whatever the index says.                     *)
rand_int(high) == 0 .. high

ClAsk ==
  /\ cl_pc = "ask"
  /\ \E ret \in rand_int(nr_entries) :
       \/ ret >= 1 /\ fnr' = ret /\ cl_pc' = "get"
       \/ ret = 0 /\ cl_pc' = "rand_abort" /\ UNCHANGED fnr
  /\ UNCHANGED <<disk, idx_count, idx, complete, gen_vars, fs_pc, fileset, nr_entries, line_nr>>

(* The answer of the server is what is on disk; client_print compares.     *)
Wanted == fileset[fnr]
Served == Wanted.name \in DOMAIN disk /\ disk[Wanted.name] = [csum |-> Wanted.csum, len |-> Wanted.len]

ClGet ==
  /\ cl_pc = "get"
  /\ Served
  /\ cl_pc' \in {"ask", "idle"}
  /\ UNCHANGED <<disk, idx_count, idx, complete, gen_vars, fs_pc, fileset, nr_entries,
                 line_nr, fnr>>

ClAbort ==
  /\ \/ cl_pc = "index" /\ BadIndex
     \/ cl_pc = "get" /\ ~Served
  /\ cl_pc' = "abort"
  /\ UNCHANGED <<disk, idx_count, idx, complete, gen_vars, fs_pc, fileset, nr_entries,
                 line_nr, fnr>>

FsStep == FsUnlink \/ FsCreate \/ FsWrite \/ FsNote \/ FsTruncate \/ FsCount \/ FsEntry
FsNext == FsStart \/ FsStep \/ FsKilled \/ ClStart \/ ClLine \/ ClAsk \/ ClGet \/ ClAbort
FsSpec == FsInit /\ [][FsNext]_fs_vars
-----------------------------------------------------------------------------
(* A run of fileset that comes to its end repairs what runs that were      *)
(* killed have left: the index lists the files that are there, all of them *)
(* and each as it is.                                                      *)
FsIndexTrue ==
  complete =>
    /\ idx_count = Len(idx)
    /\ Len(idx) = Cardinality(DOMAIN disk)
    /\ \A k \in DOMAIN idx :
         /\ idx[k].name = k - 1
         /\ idx[k].name \in DOMAIN disk
         /\ disk[idx[k].name] = [csum |-> idx[k].csum, len |-> idx[k].len]

(* The assertions of init_fileset and client_print, which compare the      *)
(* index, what it says and what is served, fail only when a run of fileset *)
(* was cut short, or when its total overflowed and it made no file.        *)
ClAborts == cl_pc = "abort" => ~complete \/ (total_fileset_sz <= 0 /\ disk = <<>>)

(* Whatever happens to fileset, its loop ends.                             *)
FsEnds == fs_pc # "idle" ~> fs_pc = "idle"
=============================================================================
