--------------------------- MODULE ProgramsProofs ---------------------------
(***************************************************************************)
(* What is proved of fileset and its client and of fact, and of all the    *)
(* programs together.                                                      *)
(*                                                                         *)
(* fileset: the index is true whenever a run came to its end, for any      *)
(* sizes, any number of runs, and runs killed at any moment; and then no   *)
(* client that reads it fails.  fact: its answers are right.               *)
(***************************************************************************)
EXTENDS Programs, WordCountProofs, CopyTreeProofs

(* The first n files are on disk, and the lines of the buffer say what     *)
(* they are.                                                               *)
Noted(n) ==
  /\ idx_buffer \in Seq(Info) /\ Len(idx_buffer) = n
  /\ \A k \in 1 .. n :
       /\ idx_buffer[k].name = k - 1
       /\ disk[k - 1] = [csum |-> idx_buffer[k].csum, len |-> idx_buffer[k].len]

(* What a run has done, by where it is.                                    *)
Run ==
  /\ fs_pc \in {"idle", "unlink", "loop", "write", "count", "entries"}
  /\ {nr_files, mean, remaining, file_sz, current_fileset_sz} \subseteq Int
  /\ total_fileset_sz \in Int
  /\ {nr_files, mean} \subseteq Nat
  /\ disk = [n \in DOMAIN disk |-> disk[n]]
  /\ fs_pc # "idle" => ~complete
  /\ fs_pc = "unlink" => nr_files = 0 /\ idx_buffer = <<>> /\ current_fileset_sz = 0
  /\ fs_pc \in {"loop", "count", "entries"} =>
       DOMAIN disk = 0 .. nr_files - 1 /\ Noted(nr_files)
  /\ fs_pc = "write" =>
       /\ nr_files > 0 /\ remaining \in 0 .. file_sz
       /\ DOMAIN disk = 0 .. nr_files - 1 /\ Noted(nr_files - 1)
       /\ disk[nr_files - 1] = Contents(file_sz - remaining)
  /\ fs_pc = "loop" /\ nr_files = 0 => current_fileset_sz = 0
  /\ fs_pc \in {"count", "entries"} /\ nr_files = 0 => total_fileset_sz <= 0
  /\ fs_pc = "count" => idx = <<>>
  /\ fs_pc = "entries" =>
       /\ idx_count = nr_files /\ idx \in Seq(Info) /\ Len(idx) <= nr_files
       /\ \A k \in 1 .. Len(idx) : idx[k] = idx_buffer[k]

(* The index, and the disk, after a run that came to its end.              *)
Done ==
  complete =>
    /\ idx \in Seq(Info) /\ idx_count = Len(idx)
    /\ DOMAIN disk = 0 .. Len(idx) - 1
    /\ \A k \in 1 .. Len(idx) :
         /\ idx[k].name = k - 1
         /\ disk[k - 1] = [csum |-> idx[k].csum, len |-> idx[k].len]
    /\ Len(idx) = 0 => total_fileset_sz <= 0

GenInv == Run /\ Done
-----------------------------------------------------------------------------
LEMMA WrapInt == \A n \in Int : Wrap(n) \in Int
BY FileSetAssumption, SMT DEF Wrap

LEMMA InitGen == FsInit => GenInv
BY DEF FsInit, GenInv, Run, Done, NoLine

(* What holds of the disk and the buffer is kept with them.                *)
LEMMA FileSetStart == GenInv /\ FsStart => GenInv'
<1>1. SUFFICES ASSUME GenInv, FsStart PROVE GenInv'
  OBVIOUS
<1>2. PICK p \in Params : mean' = p[1] /\ total_fileset_sz' = Wrap(p[1] * FsBlock * p[2])
  BY <1>1 DEF FsStart
<1>3. p[1] \in Nat /\ p[2] \in Nat /\ FsBlock \in Nat
  BY FileSetAssumption
<1>4. p[1] * FsBlock * p[2] \in Int
  BY <1>3
<1>5. mean' \in Nat /\ total_fileset_sz' \in Int
  BY <1>2, <1>3, <1>4, WrapInt
<1>6. QED
  BY <1>1, <1>5 DEF FsStart, GenInv, Run, Done

LEMMA UnlinkStep == GenInv /\ FsUnlink => GenInv'
<1>1. SUFFICES ASSUME GenInv, FsUnlink PROVE GenInv'
  OBVIOUS
<1>2. /\ fs_pc = "unlink" /\ ~complete
      /\ UNCHANGED <<idx_count, idx, complete, mean, nr_files, current_fileset_sz,
                     total_fileset_sz, file_sz, remaining, idx_buffer>>
      /\ nr_files = 0 /\ idx_buffer = <<>> /\ current_fileset_sz = 0
  BY <1>1 DEF FsUnlink, gen_vars, GenInv, Run
<1>3. CASE fs_pc' = fs_pc /\ \E n \in Stale : disk' = [m \in DOMAIN disk \ {n} |-> disk[m]]
  <2>1. disk' = [n \in DOMAIN disk' |-> disk'[n]]
    BY <1>3
  <2>2. QED
    BY <1>1, <1>2, <1>3, <2>1 DEF GenInv, Run, Done
<1>4. CASE Stale = {} /\ fs_pc' = "loop" /\ disk' = disk
  <2>1. DOMAIN disk' = 0 .. nr_files' - 1
    BY <1>2, <1>4 DEF Stale
  <2>2. Noted(nr_files)'
    BY <1>2 DEF Noted
  <2>3. QED
    BY <1>1, <1>2, <1>4, <2>1, <2>2 DEF GenInv, Run, Done
<1>5. QED
  BY <1>1, <1>3, <1>4 DEF FsUnlink

LEMMA CreateStep == GenInv /\ FsCreate => GenInv'
<1>1. SUFFICES ASSUME GenInv, FsCreate PROVE GenInv'
  OBVIOUS
<1>2. /\ fs_pc = "loop" /\ fs_pc' = "write" /\ ~complete
      /\ nr_files \in Nat /\ nr_files' = nr_files + 1
      /\ DOMAIN disk = 0 .. nr_files - 1 /\ Noted(nr_files)
      /\ UNCHANGED <<idx_count, idx, complete, mean, total_fileset_sz, idx_buffer>>
  BY <1>1 DEF FsCreate, GenInv, Run
<1>3. PICK sz \in FileSize : /\ file_sz' = sz /\ remaining' = sz
                             /\ current_fileset_sz' = Wrap(current_fileset_sz + sz)
  BY <1>1 DEF FsCreate, rand_pareto
<1>4. sz \in Nat /\ current_fileset_sz' \in Int
  BY <1>1, <1>3, FileSetAssumption, WrapInt DEF GenInv, Run
<1>5. disk' = [n \in DOMAIN disk \cup {nr_files} |->
                 IF n = nr_files THEN Contents(0) ELSE disk[n]]
  BY <1>1 DEF FsCreate
<1>6. /\ DOMAIN disk' = 0 .. nr_files' - 1
      /\ disk'[nr_files] = Contents(0)
      /\ \A k \in 1 .. nr_files : disk'[k - 1] = disk[k - 1]
      /\ disk' = [n \in DOMAIN disk' |-> disk'[n]]
  BY <1>2, <1>5
<1>7. Noted(nr_files - 1)'
  BY <1>2, <1>6 DEF Noted
<1>8. disk'[nr_files' - 1] = Contents(file_sz - remaining)'
  <2>1. file_sz' - remaining' = 0 /\ nr_files' - 1 = nr_files /\ mean' = mean
    BY <1>2, <1>3, <1>4
  <2>2. QED
    BY <1>6, <2>1 DEF Contents
<1>9. QED
  BY <1>1, <1>2, <1>3, <1>4, <1>6, <1>7, <1>8 DEF GenInv, Run, Done

LEMMA WriteStep == GenInv /\ FsWrite => GenInv'
<1>1. SUFFICES ASSUME GenInv, FsWrite PROVE GenInv'
  OBVIOUS
<1>2. /\ fs_pc = "write" /\ ~complete /\ nr_files \in Nat /\ nr_files > 0
      /\ remaining \in 0 .. file_sz /\ file_sz \in Int
      /\ DOMAIN disk = 0 .. nr_files - 1 /\ Noted(nr_files - 1)
      /\ disk = [n \in DOMAIN disk |-> disk[n]]
      /\ remaining' = remaining - Chunk
      /\ disk' = [disk EXCEPT ![nr_files - 1] = Contents(file_sz - remaining')]
      /\ UNCHANGED <<idx_count, idx, complete, mean, nr_files, current_fileset_sz,
                     total_fileset_sz, file_sz, idx_buffer, fs_pc>>
  BY <1>1 DEF FsWrite, GenInv, Run
<1>3. remaining' \in 0 .. file_sz
  BY <1>2, FileSetAssumption DEF Chunk, Smaller
<1>4. /\ DOMAIN disk' = DOMAIN disk
      /\ \A k \in 1 .. nr_files - 1 : disk'[k - 1] = disk[k - 1]
      /\ disk'[nr_files - 1] = Contents(file_sz - remaining')
      /\ disk' = [n \in DOMAIN disk' |-> disk'[n]]
  <2> DEFINE c == Contents(file_sz - remaining')
  <2>1. disk' = [n \in DOMAIN disk |-> IF n = nr_files - 1 THEN c ELSE disk[n]]
    BY <1>2
  <2>2. nr_files - 1 \in DOMAIN disk /\ \A k \in 1 .. nr_files - 1 :
          k - 1 \in DOMAIN disk /\ k - 1 # nr_files - 1
    BY <1>2
  <2> HIDE DEF c
  <2>3. DOMAIN disk' = DOMAIN disk /\ disk' = [n \in DOMAIN disk' |-> disk'[n]]
    BY <2>1
  <2>4. QED
    BY <2>1, <2>2, <2>3 DEF c
<1>5. Noted(nr_files - 1)'
  BY <1>2, <1>4 DEF Noted
<1>6. Contents(file_sz - remaining)' = Contents(file_sz - remaining')
  BY <1>2 DEF Contents
<1>7. QED
  BY <1>1, <1>2, <1>3, <1>4, <1>5, <1>6 DEF GenInv, Run, Done

(* The process is gone: only what was complete before may be complete.     *)
LEMMA GoneStep ==
  ASSUME GenInv, FsGone, UNCHANGED disk, Done'
  PROVE  GenInv'
BY DEF FsGone, GenInv, Run

LEMMA NoteStep == GenInv /\ FsNote => GenInv'
<1>1. SUFFICES ASSUME GenInv, FsNote PROVE GenInv'
  OBVIOUS
<1>2. /\ fs_pc = "write" /\ ~complete /\ nr_files \in Nat /\ nr_files > 0 /\ mean \in Nat
      /\ remaining = 0 /\ file_sz \in Nat
      /\ DOMAIN disk = 0 .. nr_files - 1 /\ Noted(nr_files - 1)
      /\ disk[nr_files - 1] = Contents(file_sz - remaining)
      /\ UNCHANGED <<disk, idx_count, idx, complete>>
  BY <1>1 DEF FsNote, GenInv, Run
<1>3. CASE FsGone
  BY <1>1, <1>2, <1>3, GoneStep DEF Done
<1>4. CASE /\ idx_buffer' = Append(idx_buffer, [name |-> nr_files - 1,
                              csum |-> mean * file_sz, len |-> file_sz])
           /\ fs_pc' = "loop"
           /\ UNCHANGED <<mean, nr_files, current_fileset_sz, total_fileset_sz,
                          file_sz, remaining>>
  <2> DEFINE e == [name |-> nr_files - 1, csum |-> mean * file_sz, len |-> file_sz]
  <2>1. mean * file_sz \in Nat
    BY <1>2
  <2>2. e \in Info /\ e.name = nr_files - 1 /\ e.csum = mean * file_sz /\ e.len = file_sz
    BY <1>2, <2>1 DEF Info
  <2>3. idx_buffer' = Append(idx_buffer, e)
    BY <1>4
  <2> HIDE DEF e
  <2>4. /\ idx_buffer' \in Seq(Info) /\ Len(idx_buffer') = nr_files
        /\ idx_buffer'[nr_files] = e
        /\ \A k \in 1 .. nr_files - 1 : idx_buffer'[k] = idx_buffer[k]
    BY <1>2, <2>2, <2>3 DEF Noted
  <2>5. disk[nr_files - 1] = [csum |-> e.csum, len |-> e.len]
    BY <1>2, <2>2 DEF Contents
  <2>6. Noted(nr_files)'
    BY <1>2, <1>4, <2>2, <2>4, <2>5 DEF Noted
  <2>7. QED
    BY <1>1, <1>2, <1>4, <2>6 DEF GenInv, Run, Done
<1>5. QED
  BY <1>1, <1>3, <1>4 DEF FsNote

LEMMA IndexStep == GenInv /\ (FsTruncate \/ FsCount) => GenInv'
<1>1. SUFFICES ASSUME GenInv, FsTruncate \/ FsCount PROVE GenInv'
  OBVIOUS
<1>2. /\ fs_pc \in {"loop", "count"} /\ ~complete
      /\ DOMAIN disk = 0 .. nr_files - 1 /\ Noted(nr_files) /\ nr_files \in Nat
      /\ UNCHANGED <<disk, complete, mean, nr_files, current_fileset_sz,
                     total_fileset_sz, file_sz, remaining, idx_buffer>>
  BY <1>1 DEF FsTruncate, FsCount, gen_vars, GenInv, Run
<1>3. Noted(nr_files)'
  BY <1>2 DEF Noted
<1>4. CASE FsTruncate
  BY <1>1, <1>2, <1>3, <1>4 DEF FsTruncate, EmptyIndex, GenInv, Run, Done
<1>5. CASE FsCount
  <2>1. idx' = <<>> /\ idx_count' = nr_files' /\ fs_pc' = "entries"
    BY <1>1, <1>2, <1>5 DEF FsCount, gen_vars, GenInv, Run
  <2>2. idx' \in Seq(Info) /\ Len(idx') = 0
    BY <2>1
  <2>3. QED
    BY <1>1, <1>2, <1>3, <1>5, <2>1, <2>2 DEF FsCount, GenInv, Run, Done
<1>6. QED
  BY <1>1, <1>4, <1>5

LEMMA FileSetEntry == GenInv /\ FsEntry => GenInv'
<1>1. SUFFICES ASSUME GenInv, FsEntry PROVE GenInv'
  OBVIOUS
<1>2. /\ fs_pc = "entries" /\ ~complete /\ nr_files \in Nat
      /\ DOMAIN disk = 0 .. nr_files - 1
      /\ idx_count = nr_files /\ idx \in Seq(Info) /\ Len(idx) <= nr_files
      /\ \A k \in 1 .. Len(idx) : idx[k] = idx_buffer[k]
      /\ UNCHANGED <<disk, idx_count>>
      /\ nr_files = 0 => total_fileset_sz <= 0
  BY <1>1 DEF FsEntry, GenInv, Run
<1>3. /\ idx_buffer \in Seq(Info) /\ Len(idx_buffer) = nr_files
      /\ \A k \in 1 .. nr_files :
           /\ idx_buffer[k].name = k - 1
           /\ disk[k - 1] = [csum |-> idx_buffer[k].csum, len |-> idx_buffer[k].len]
  BY <1>1, <1>2 DEF GenInv, Run, Noted
<1>4. CASE /\ Len(idx) < Len(idx_buffer)
           /\ idx' = Append(idx, idx_buffer[Len(idx) + 1])
           /\ UNCHANGED <<complete, fs_pc, gen_vars>>
  <2>1. /\ Len(idx) \in Nat /\ Len(idx) + 1 \in 1 .. nr_files
        /\ idx_buffer[Len(idx) + 1] \in Info
    BY <1>2, <1>3, <1>4
  <2>2. /\ idx' \in Seq(Info) /\ Len(idx') = Len(idx) + 1
        /\ \A k \in 1 .. Len(idx') : idx'[k] = idx_buffer[k]
    BY <1>2, <1>3, <1>4, <2>1
  <2>3. Noted(nr_files)'
    BY <1>2, <1>3, <1>4 DEF gen_vars, Noted
  <2>4. /\ UNCHANGED <<mean, nr_files, current_fileset_sz, total_fileset_sz,
                       file_sz, remaining, idx_buffer, fs_pc, complete>>
    BY <1>4 DEF gen_vars
  <2>5. QED
    BY <1>1, <1>2, <2>1, <2>2, <2>3, <2>4 DEF GenInv, Run, Done
<1>5. CASE Len(idx) >= Len(idx_buffer) /\ complete' = TRUE /\ FsGone /\ idx' = idx
  <2>1. Len(idx) = nr_files
    BY <1>2, <1>3, <1>5
  <2>2. total_fileset_sz' = total_fileset_sz
    BY <1>5 DEF FsGone
  <2>3. Done'
    BY <1>2, <1>3, <1>5, <2>1, <2>2 DEF Done
  <2>4. QED
    BY <1>1, <1>2, <1>5, <2>3, GoneStep
<1>6. QED
  BY <1>1, <1>4, <1>5 DEF FsEntry

LEMMA KilledStep == GenInv /\ FsKilled => GenInv'
<1>1. SUFFICES ASSUME GenInv, FsKilled PROVE GenInv'
  OBVIOUS
<1>2. FsGone /\ disk' = disk /\ complete' = complete /\ ~complete
  BY <1>1 DEF FsKilled, GenInv, Run
<1>3. QED
  BY <1>1, <1>2, GoneStep DEF Done

LEMMA OtherStep ==
  GenInv /\ UNCHANGED <<disk, idx_count, idx, complete, gen_vars, fs_pc>> => GenInv'
BY SMTT(60) DEF GenInv, Run, Done, Noted, Contents, gen_vars

LEMMA GenStep == GenInv /\ [FsNext]_fs_vars => GenInv'
<1>1. SUFFICES ASSUME GenInv, [FsNext]_fs_vars PROVE GenInv'
  OBVIOUS
<1>2. CASE FsStep
  BY <1>1, <1>2, UnlinkStep, CreateStep, WriteStep, NoteStep, IndexStep, FileSetEntry
     DEF FsStep
<1>3. CASE ClStart \/ ClLine \/ ClAsk \/ ClGet \/ ClAbort \/ UNCHANGED fs_vars
  BY <1>1, <1>3, OtherStep DEF ClStart, ClLine, ClAsk, ClGet, ClAbort, fs_vars
<1>4. QED
  BY <1>1, <1>2, <1>3, FileSetStart, KilledStep DEF FsNext

THEOREM FileSetInvariance == FsSpec => []GenInv
BY InitGen, GenStep, PTL DEF FsSpec

(* However many runs of fileset were killed before, and wherever, a run    *)
(* that comes to its end leaves an index of just the files on disk.        *)
THEOREM FsIndexTrueHolds == FsSpec => []FsIndexTrue
<1>1. GenInv => FsIndexTrue
  <2>1. SUFFICES ASSUME GenInv, complete PROVE FsIndexTrue
    BY DEF FsIndexTrue
  <2>2. /\ idx \in Seq(Info) /\ idx_count = Len(idx) /\ Len(idx) \in Nat
        /\ DOMAIN disk = 0 .. Len(idx) - 1
        /\ \A k \in 1 .. Len(idx) :
             /\ idx[k].name = k - 1
             /\ disk[k - 1] = [csum |-> idx[k].csum, len |-> idx[k].len]
    BY <2>1 DEF GenInv, Done
  <2>3. Cardinality(DOMAIN disk) = Len(idx)
    <3>1. 0 \in Int /\ Len(idx) - 1 \in Int
      BY <2>2
    <3>2. Cardinality(0 .. Len(idx) - 1) =
            IF 0 > Len(idx) - 1 THEN 0 ELSE (Len(idx) - 1) - 0 + 1
      BY <3>1, FS_Interval
    <3>3. QED
      BY <2>2, <3>2
  <2>4. \A k \in 1 .. Len(idx) : k - 1 \in 0 .. Len(idx) - 1
    BY <2>2
  <2>5. QED
    BY <2>2, <2>3, <2>4 DEF FsIndexTrue
<1>2. QED
  BY <1>1, FileSetInvariance, PTL
-----------------------------------------------------------------------------
(* What the client has read of a complete index, which does not change     *)
(* while it runs.                                                          *)
Reader ==
  /\ cl_pc \in {"idle", "index", "ask", "get", "abort", "rand_abort"}
  /\ fs_pc # "idle" => cl_pc = "idle"
  /\ cl_pc = "index" => line_nr \in Nat /\ (complete => fileset \in Seq(Info))
  /\ cl_pc = "index" /\ line_nr = 0 => fileset = <<>>
  /\ cl_pc = "index" /\ line_nr # 0 /\ complete =>
       /\ nr_entries = Len(idx) /\ Len(fileset) = line_nr - 1
       /\ line_nr <= Len(idx) + 1
       /\ \A k \in 1 .. Len(fileset) : fileset[k] = idx[k]
  /\ cl_pc \in {"ask", "get"} /\ complete =>
       /\ nr_entries = Len(idx)
       /\ \A k \in 1 .. nr_entries : fileset[k] = idx[k]
  /\ cl_pc = "get" /\ complete => fnr \in 1 .. nr_entries

ClientInv == Reader /\ ClAborts

LEMMA EmptyDisk ==
  ASSUME Run, DOMAIN disk = {}
  PROVE  disk = <<>>
BY DEF Run

LEMMA LineStep == GenInv /\ ClientInv /\ ClLine => ClientInv'
<1>1. SUFFICES ASSUME GenInv, ClientInv, ClLine PROVE ClientInv'
  OBVIOUS
<1>2. /\ cl_pc = "index" /\ fs_pc = "idle" /\ line_nr \in Nat /\ line_nr' = line_nr + 1
      /\ complete => fileset \in Seq(Info)
      /\ UNCHANGED <<disk, idx_count, idx, complete, total_fileset_sz, fs_pc, fnr>>
  BY <1>1 DEF ClLine, ClientInv, Reader, gen_vars
<1>3. complete => idx \in Seq(Info) /\ Len(idx) \in Nat /\ idx_count = Len(idx)
  BY <1>1 DEF GenInv, Done
<1>4. CASE line_nr = 0 /\ idx_count > 0 /\ nr_entries' = idx_count
           /\ UNCHANGED <<fileset, cl_pc>>
  <2>1. fileset' = <<>> /\ Len(fileset') = 0 /\ line_nr' = 1 /\ cl_pc' = "index"
    BY <1>1, <1>2, <1>4 DEF ClientInv, Reader
  <2>2. QED
    BY <1>2, <1>3, <1>4, <2>1 DEF ClientInv, Reader, ClAborts
<1>5. CASE line_nr \in 1 .. Len(idx) /\ fileset' = Append(fileset, idx[line_nr])
           /\ UNCHANGED <<nr_entries, cl_pc>>
  <2>1. complete => idx[line_nr] \in Info
    BY <1>3, <1>5
  <2>2. complete =>
          /\ nr_entries' = Len(idx) /\ Len(fileset') = line_nr
          /\ \A k \in 1 .. line_nr : fileset'[k] = idx[k]
    BY <1>1, <1>2, <1>3, <1>5, <2>1 DEF ClientInv, Reader
  <2>3. QED
    BY <1>2, <1>3, <1>5, <2>1, <2>2 DEF ClientInv, Reader, ClAborts
<1>6. CASE line_nr > Len(idx) /\ line_nr # 0 /\ cl_pc' = "ask"
           /\ UNCHANGED <<fileset, nr_entries>>
  <2>1. complete => nr_entries' = Len(idx) /\ \A k \in 1 .. nr_entries' : fileset'[k] = idx[k]
    BY <1>1, <1>2, <1>3, <1>6 DEF ClientInv, Reader
  <2>2. QED
    BY <1>2, <1>6, <2>1 DEF ClientInv, Reader, ClAborts
<1>7. QED
  BY <1>1, <1>4, <1>5, <1>6 DEF ClLine

(* With a complete index, only an empty file set makes the client abort.   *)
LEMMA AbortStep == GenInv /\ ClientInv /\ ClAbort => ClientInv'
<1>1. SUFFICES ASSUME GenInv, ClientInv, ClAbort PROVE ClientInv'
  OBVIOUS
<1>2. /\ cl_pc' = "abort" /\ cl_pc \in {"index", "get"} /\ fs_pc = "idle"
      /\ UNCHANGED <<disk, idx, complete, total_fileset_sz, fs_pc>>
  BY <1>1 DEF ClAbort, ClientInv, Reader, gen_vars
<1>3. SUFFICES ASSUME complete PROVE total_fileset_sz <= 0 /\ disk = <<>>
  BY <1>2 DEF ClientInv, Reader, ClAborts
<1>4. /\ idx \in Seq(Info) /\ Len(idx) \in Nat /\ idx_count = Len(idx)
      /\ DOMAIN disk = 0 .. Len(idx) - 1
      /\ \A k \in 1 .. Len(idx) :
           /\ idx[k].name = k - 1
           /\ disk[k - 1] = [csum |-> idx[k].csum, len |-> idx[k].len]
      /\ Len(idx) = 0 => total_fileset_sz <= 0
  BY <1>1, <1>3 DEF GenInv, Done
<1>5. CASE cl_pc = "get" /\ ~Served
  <2>1. fnr \in 1 .. Len(idx) /\ fileset[fnr] = idx[fnr]
    BY <1>1, <1>3, <1>5 DEF ClientInv, Reader
  <2>2. fnr - 1 \in DOMAIN disk
    BY <1>4, <2>1
  <2>3. Served
    BY <1>4, <2>1, <2>2 DEF Served, Wanted
  <2>4. QED
    BY <1>5, <2>3
<1>6. CASE cl_pc = "index" /\ BadIndex
  <2>1. CASE line_nr = 0
    <3>1. Len(idx) = 0
      BY <1>4, <1>6, <2>1 DEF BadIndex
    <3>2. DOMAIN disk = {}
      BY <1>4, <3>1
    <3>3. QED
      BY <1>1, <1>4, <3>1, <3>2, EmptyDisk DEF GenInv
  <2>2. CASE line_nr # 0
    BY <1>1, <1>3, <1>4, <1>6, <2>2 DEF BadIndex, IsFull, ClientInv, Reader
  <2>3. QED
    BY <2>1, <2>2
<1>7. QED
  BY <1>1, <1>5, <1>6 DEF ClAbort

LEMMA ClientStep == GenInv /\ ClientInv /\ [FsNext]_fs_vars => ClientInv'
<1>1. SUFFICES ASSUME GenInv, ClientInv, [FsNext]_fs_vars PROVE ClientInv'
  OBVIOUS
<1>2. CASE FsStart
  BY <1>1, <1>2 DEF FsStart, ClientInv, Reader, ClAborts
(* fileset runs: no client does.                                           *)
<1>3. CASE FsStep \/ FsKilled
  <2>1. fs_pc # "idle"
    BY <1>3 DEF FsStep, FsKilled, FsUnlink, FsCreate, FsWrite, FsNote, FsTruncate, FsCount,
                FsEntry
  <2>2. cl_pc' = cl_pc
    BY <1>3 DEF FsStep, FsKilled, FsUnlink, FsCreate, FsWrite, FsNote, FsTruncate, FsCount,
                FsEntry, cl_vars
  <2>3. QED
    BY <1>1, <2>1, <2>2 DEF ClientInv, Reader, ClAborts
<1>4. CASE ClStart
  BY <1>1, <1>4 DEF ClStart, ClientInv, Reader, ClAborts
<1>5. CASE ClAsk
  <2>1. /\ cl_pc = "ask" /\ fs_pc = "idle" /\ cl_pc' \in {"get", "rand_abort"}
        /\ UNCHANGED <<disk, idx, complete, total_fileset_sz, fs_pc, fileset, nr_entries,
                       line_nr>>
    BY <1>1, <1>5 DEF ClAsk, ClientInv, Reader, gen_vars
  <2>2. cl_pc' = "get" /\ complete => fnr' \in 1 .. nr_entries
    <3>1. SUFFICES ASSUME cl_pc' = "get", complete PROVE fnr' \in 1 .. nr_entries
      OBVIOUS
    <3>2. nr_entries = Len(idx) /\ Len(idx) \in Nat
      BY <1>1, <2>1, <3>1 DEF ClientInv, Reader, GenInv, Done
    <3>3. fnr' \in 0 .. nr_entries /\ fnr' >= 1
      BY <1>5, <3>1 DEF ClAsk, rand_int
    <3>4. QED
      BY <3>2, <3>3
  <2>3. QED
    BY <1>1, <2>1, <2>2 DEF ClientInv, Reader, ClAborts
<1>8. CASE ClGet
  BY <1>1, <1>8 DEF ClGet, ClientInv, Reader, ClAborts
<1>6. CASE UNCHANGED fs_vars
  BY <1>1, <1>6 DEF fs_vars, gen_vars, cl_vars, ClientInv, Reader, ClAborts
<1>7. QED
  BY <1>1, <1>2, <1>3, <1>4, <1>5, <1>6, <1>8, LineStep, AbortStep DEF FsNext

(* A client that reads the index of a complete run, and asks for any of    *)
(* its files any number of times, finds what the index says; its           *)
(* assertions fail only for the empty set that an overflowed total makes.  *)
THEOREM ClAbortsHolds == FsSpec => []ClAborts
<1>1. FsInit => ClientInv
  BY DEF FsInit, ClientInv, Reader, ClAborts
<1>2. ClientInv => ClAborts
  BY DEF ClientInv
<1>3. QED
  BY <1>1, <1>2, FileSetInvariance, ClientStep, PTL DEF FsSpec
-----------------------------------------------------------------------------
(* The types of fileset and its client, whose numbers stay ints because    *)
(* they wrap.                                                              *)
LEMMA Modulo ==
  ASSUME NEW n \in Int, NEW k \in Nat \ {0}
  PROVE  n % k \in 0 .. k - 1
OBVIOUS

LEMMA WrapRange == ASSUME NEW n \in Int PROVE Wrap(n) \in -IntMax - 1 .. IntMax
<1> DEFINE k == 2 * (IntMax + 1)
           r == (n + IntMax + 1) % k
<1>1. IntMax \in Nat /\ k \in Nat \ {0} /\ n + IntMax + 1 \in Int
  BY FileSetAssumption
<1>2. r \in 0 .. k - 1
  <2> HIDE DEF k
  <2>1. QED
    BY <1>1, Modulo
<1>3. Wrap(n) = r - (IntMax + 1)
  BY DEF Wrap
<1> HIDE DEF r
<1>4. QED
  BY <1>1, <1>2, <1>3

LEMMA TypesStart == GenInv /\ FsTypeOK /\ FsStart => FsTypeOK'
<1>1. SUFFICES ASSUME GenInv, FsTypeOK, FsStart PROVE FsTypeOK'
  OBVIOUS
<1>2. PICK p \in Params : total_fileset_sz' = Wrap(p[1] * FsBlock * p[2])
  BY <1>1 DEF FsStart
<1>3. p[1] \in Nat /\ p[2] \in Nat /\ FsBlock \in Nat /\ IntMax \in Nat
  BY FileSetAssumption
<1>4. p[1] * FsBlock * p[2] \in Int
  BY <1>3
<1>5. total_fileset_sz' \in -IntMax - 1 .. IntMax /\ 0 \in -IntMax - 1 .. IntMax
  BY <1>2, <1>3, <1>4, WrapRange
<1>6. QED
  BY <1>1, <1>5 DEF FsStart, FsTypeOK

LEMMA TypesUnlink == GenInv /\ FsTypeOK /\ FsUnlink => FsTypeOK'
<1>1. SUFFICES ASSUME GenInv, FsTypeOK, FsUnlink PROVE FsTypeOK'
  OBVIOUS
<1>2. \A n \in DOMAIN disk' : n \in Nat /\ disk'[n] \in [csum : Nat, len : Nat]
  <2>1. \A n \in DOMAIN disk : n \in Nat /\ disk[n] \in [csum : Nat, len : Nat]
    BY <1>1 DEF FsTypeOK
  <2>2. disk' = disk \/ \E n \in Stale : disk' = [m \in DOMAIN disk \ {n} |-> disk[m]]
    BY <1>1 DEF FsUnlink
  <2>3. QED
    BY <2>1, <2>2
<1>3. QED
  BY <1>1, <1>2 DEF FsUnlink, gen_vars, cl_vars, FsTypeOK

LEMMA TypesCreate == GenInv /\ FsTypeOK /\ FsCreate => FsTypeOK'
<1>1. SUFFICES ASSUME GenInv, FsTypeOK, FsCreate PROVE FsTypeOK'
  OBVIOUS
<1>2. PICK sz \in FileSize : /\ file_sz' = sz /\ remaining' = sz
                             /\ current_fileset_sz' = Wrap(current_fileset_sz + sz)
  BY <1>1 DEF FsCreate, rand_pareto
<1>3. sz \in Nat /\ current_fileset_sz \in Int /\ nr_files \in Nat /\ mean \in Nat
  BY <1>1, FileSetAssumption DEF GenInv, Run
<1>4. current_fileset_sz' \in -IntMax - 1 .. IntMax
  BY <1>2, <1>3, WrapRange
<1>5. Contents(0) \in [csum : Nat, len : Nat]
  BY <1>3 DEF Contents
<1>6. \A n \in DOMAIN disk' : n \in Nat /\ disk'[n] \in [csum : Nat, len : Nat]
  <2>1. disk' = [n \in DOMAIN disk \cup {nr_files} |->
                   IF n = nr_files THEN Contents(0) ELSE disk[n]]
    BY <1>1 DEF FsCreate
  <2>2. QED
    BY <1>1, <1>3, <1>5, <2>1 DEF FsTypeOK
<1>7. nr_files' \in Nat
  BY <1>1, <1>3 DEF FsCreate
<1>8. QED
  BY <1>1, <1>2, <1>3, <1>4, <1>6, <1>7 DEF FsCreate, cl_vars, FsTypeOK

LEMMA TypesWrite == GenInv /\ FsTypeOK /\ FsWrite => FsTypeOK'
<1>1. SUFFICES ASSUME GenInv, FsTypeOK, FsWrite PROVE FsTypeOK'
  OBVIOUS
<1>2. remaining \in 0 .. file_sz /\ file_sz \in Nat /\ mean \in Nat
  BY <1>1 DEF FsWrite, GenInv, Run, FsTypeOK
<1>3. remaining' \in 0 .. file_sz
  BY <1>1, <1>2, FileSetAssumption DEF FsWrite, Chunk, Smaller
<1> DEFINE c == Contents(file_sz - remaining')
<1>4. c \in [csum : Nat, len : Nat]
  <2>1. file_sz - remaining' \in Nat
    <3>1. \A n \in Nat : \A m \in 0 .. n : n - m \in Nat
      OBVIOUS
    <3>2. QED
      BY <1>2, <1>3, <3>1, Zenon
  <2>2. mean * (file_sz - remaining') \in Nat
    BY <1>2, <2>1
  <2>3. QED
    BY <2>1, <2>2 DEF Contents
<1>5. disk' = [disk EXCEPT ![nr_files - 1] = c]
  BY <1>1 DEF FsWrite
<1> HIDE DEF c
<1>6. \A n \in DOMAIN disk' : n \in Nat /\ disk'[n] \in [csum : Nat, len : Nat]
  BY <1>1, <1>4, <1>5 DEF FsTypeOK
<1>7. remaining' \in Nat
  BY <1>2, <1>3
<1>8. QED
  BY <1>1, <1>6, <1>7 DEF FsWrite, cl_vars, FsTypeOK

LEMMA TypesGone ==
  ASSUME FsTypeOK, FsGone, UNCHANGED <<disk, idx_count, idx, cl_vars>>
  PROVE  FsTypeOK'
<1>1. 0 \in -IntMax - 1 .. IntMax
  BY FileSetAssumption
<1>2. QED
  BY <1>1 DEF FsGone, cl_vars, FsTypeOK

LEMMA TypesNote == GenInv /\ FsTypeOK /\ FsNote => FsTypeOK'
<1>1. SUFFICES ASSUME GenInv, FsTypeOK, FsNote PROVE FsTypeOK'
  OBVIOUS
<1>2. CASE FsGone
  BY <1>1, <1>2, TypesGone DEF FsNote
<1> DEFINE e == [name |-> nr_files - 1, csum |-> mean * file_sz, len |-> file_sz]
<1>3. CASE /\ idx_buffer' = Append(idx_buffer, e)
           /\ fs_pc' = "loop"
           /\ UNCHANGED <<mean, nr_files, current_fileset_sz, total_fileset_sz,
                          file_sz, remaining>>
  <2>1. nr_files - 1 \in Nat /\ mean \in Nat /\ file_sz \in Nat
    BY <1>1 DEF FsNote, GenInv, Run, FsTypeOK
  <2>2. mean * file_sz \in Nat
    BY <2>1
  <2>3. e \in Info
    BY <2>1, <2>2 DEF Info
  <2> HIDE DEF e
  <2>4. idx_buffer' \in Seq(Info)
    BY <1>1, <1>3, <2>3 DEF FsTypeOK
  <2>5. QED
    BY <1>1, <1>3, <2>4 DEF FsNote, cl_vars, FsTypeOK
<1>4. QED
  BY <1>1, <1>2, <1>3 DEF FsNote

LEMMA TypesIndex == GenInv /\ FsTypeOK /\ (FsTruncate \/ FsCount) => FsTypeOK'
<1>1. SUFFICES ASSUME GenInv, FsTypeOK, FsTruncate \/ FsCount PROVE FsTypeOK'
  OBVIOUS
<1>2. UNCHANGED <<disk, gen_vars, cl_vars>>
  BY <1>1 DEF FsTruncate, FsCount
<1>3. idx' \in Seq(Info)
  <2>1. idx' = <<>> \/ idx' = idx
    BY <1>1 DEF FsTruncate, FsCount, EmptyIndex
  <2>2. <<>> \in Seq(Info) /\ idx \in Seq(Info)
    BY <1>1 DEF FsTypeOK
  <2>3. QED
    BY <2>1, <2>2
<1>4. idx_count' \in Nat \cup {NoLine} /\ fs_pc' \in {"count", "entries"}
  BY <1>1 DEF FsTruncate, FsCount, FsTypeOK
<1>5. QED
  BY <1>1, <1>2, <1>3, <1>4 DEF gen_vars, cl_vars, FsTypeOK

LEMMA TypesEntry == GenInv /\ FsTypeOK /\ FsEntry => FsTypeOK'
<1>1. SUFFICES ASSUME GenInv, FsTypeOK, FsEntry PROVE FsTypeOK'
  OBVIOUS
<1>2. CASE /\ Len(idx) < Len(idx_buffer)
           /\ idx' = Append(idx, idx_buffer[Len(idx) + 1])
           /\ UNCHANGED <<complete, fs_pc, gen_vars>>
  <2>1. idx \in Seq(Info) /\ idx_buffer \in Seq(Info)
    BY <1>1 DEF FsTypeOK
  <2>2. Len(idx) + 1 \in 1 .. Len(idx_buffer)
    BY <1>2, <2>1
  <2>3. idx' \in Seq(Info)
    BY <1>2, <2>1, <2>2
  <2>4. QED
    BY <1>1, <1>2, <2>3 DEF FsEntry, gen_vars, cl_vars, FsTypeOK
<1>3. CASE FsGone /\ UNCHANGED idx
  BY <1>1, <1>3, TypesGone DEF FsEntry
<1>4. QED
  BY <1>1, <1>2, <1>3 DEF FsEntry

LEMMA TypesClient ==
  GenInv /\ FsTypeOK /\ (ClStart \/ ClLine \/ ClAsk \/ ClGet \/ ClAbort) => FsTypeOK'
<1>1. SUFFICES ASSUME GenInv, FsTypeOK, ClStart \/ ClLine \/ ClAsk \/ ClGet \/ ClAbort
               PROVE  FsTypeOK'
  OBVIOUS
<1>2. UNCHANGED <<disk, idx_count, idx, gen_vars, fs_pc>>
  BY <1>1 DEF ClStart, ClLine, ClAsk, ClGet, ClAbort
<1>3. fileset' \in Seq(Info)
  <2>1. CASE ClLine
    <3>1. fileset \in Seq(Info) /\ idx \in Seq(Info)
      BY <1>1 DEF FsTypeOK
    <3>2. fileset' = fileset \/ (line_nr \in 1 .. Len(idx) /\ fileset' = Append(fileset, idx[line_nr]))
      BY <2>1 DEF ClLine
    <3>3. QED
      BY <3>1, <3>2
  <2>2. CASE ~ClLine
    <3>1. fileset' = <<>> \/ fileset' = fileset
      BY <1>1, <2>2 DEF ClStart, ClAsk, ClGet, ClAbort
    <3>2. <<>> \in Seq(Info) /\ fileset \in Seq(Info)
      BY <1>1 DEF FsTypeOK
    <3>3. QED
      BY <3>1, <3>2
  <2>3. QED
    BY <2>1, <2>2
<1>4. cl_pc' \in {"idle", "index", "ask", "get", "abort", "rand_abort"}
  BY <1>1 DEF ClStart, ClLine, ClAsk, ClGet, ClAbort, FsTypeOK
<1>5. QED
  BY <1>1, <1>2, <1>3, <1>4 DEF gen_vars, FsTypeOK

(* The variables of fileset and of its client keep their types.            *)
THEOREM FileSetTypes == FsSpec => []FsTypeOK
<1>1. FsInit => FsTypeOK
  <2>1. 0 \in -IntMax - 1 .. IntMax
    BY FileSetAssumption
  <2>2. QED
    BY <2>1 DEF FsInit, FsTypeOK
<1>2. GenInv /\ FsTypeOK /\ [FsNext]_fs_vars => FsTypeOK'
  <2>1. SUFFICES ASSUME GenInv, FsTypeOK, [FsNext]_fs_vars PROVE FsTypeOK'
    OBVIOUS
  <2>2. CASE FsStep
    BY <2>1, <2>2, TypesUnlink, TypesCreate, TypesWrite, TypesNote, TypesIndex,
       TypesEntry DEF FsStep
  <2>3. CASE FsKilled
    BY <2>1, <2>3, TypesGone DEF FsKilled
  <2>4. CASE UNCHANGED fs_vars
    BY <2>1, <2>4 DEF fs_vars, gen_vars, cl_vars, FsTypeOK
  <2>5. QED
    BY <2>1, <2>2, <2>3, <2>4, TypesStart, TypesClient DEF FsNext
<1>3. QED
  BY <1>1, <1>2, FileSetInvariance, PTL DEF FsSpec
-----------------------------------------------------------------------------
(* The product of the members of s that are at most n, by running products.*)
Products(s, n, t) ==
  /\ t[0] = 1
  /\ \A i \in 1 .. n : t[i] = t[i - 1] * (IF i \in s THEN i ELSE 1)

LEMMA ProductsExist ==
  ASSUME NEW s, NEW n \in Nat
  PROVE  \E t \in [0 .. n -> Nat] : Products(s, n, t)
<1> DEFINE step == [p \in Nat \X (1 .. n) |-> p[1] * (IF p[2] \in s THEN p[2] ELSE 1)]
<1>1. step \in [Nat \X (1 .. n) -> Nat]
  OBVIOUS
<1>2. PICK t \in [0 .. n -> Nat] : Iterates(step, 1, n, t)
  <2> HIDE DEF step
  <2>1. QED
    BY <1>1, IteratesExist
<1>3. t[0] = 1
  BY <1>2 DEF Iterates
<1>4. ASSUME NEW i \in 1 .. n PROVE t[i] = t[i - 1] * (IF i \in s THEN i ELSE 1)
  <2>1. i - 1 \in 0 .. n /\ t[i - 1] \in Nat
    BY <1>2
  <2>2. t[i] = step[<<t[i - 1], i>>]
    <3> HIDE DEF step
    <3>1. QED
      BY <1>2 DEF Iterates
  <2>3. QED
    BY <2>1, <2>2
<1>5. QED
  BY <1>3, <1>4 DEF Products

(* WithoutIt x, the product is as much smaller, from x on.                   *)
WithoutIt(s, n, x, r) == r = s \ {x} /\ x \in s /\ x \in 1 .. n
TimesLess(t, u, n, x) == t[n] = x * u[n]

LEMMA ProductsWithout ==
  ASSUME NEW s, NEW n \in Nat, NEW x, NEW r, WithoutIt(s, n, x, r),
         NEW t \in [0 .. n -> Nat], Products(s, n, t),
         NEW u \in [0 .. n -> Nat], Products(r, n, u)
  PROVE  TimesLess(t, u, n, x)
<1>0. r = s \ {x} /\ x \in s /\ x \in 1 .. n
  BY DEF WithoutIt
<1> DEFINE T == {i \in Nat : i <= n => t[i] = (IF i < x THEN 1 ELSE x) * u[i]}
<1>1. 0 \in T
  BY <1>0 DEF Products
<1>2. ASSUME NEW i \in Nat, i \in T PROVE i + 1 \in T
  <2>1. SUFFICES ASSUME i + 1 <= n
                 PROVE  t[i + 1] = (IF i + 1 < x THEN 1 ELSE x) * u[i + 1]
    OBVIOUS
  <2>2. /\ t[i] = (IF i < x THEN 1 ELSE x) * u[i]
        /\ i \in 0 .. n /\ t[i] \in Nat /\ u[i] \in Nat /\ x \in Nat
    BY <1>0, <1>2, <2>1
  <2>3. i + 1 \in 1 .. n /\ (i + 1) - 1 = i
    BY <2>1
  <2>4. /\ t[i + 1] = t[i] * (IF i + 1 \in s THEN i + 1 ELSE 1)
        /\ u[i + 1] = u[i] * (IF i + 1 \in r THEN i + 1 ELSE 1)
    BY <2>3 DEF Products
  <2>5. CASE i + 1 = x
    <3>1. t[i] = u[i]
      BY <2>2, <2>5
    <3>2. t[i + 1] = u[i] * x
      BY <1>0, <2>4, <2>5, <3>1
    <3>3. u[i + 1] = u[i]
      BY <1>0, <2>2, <2>4, <2>5
    <3>4. u[i] * x = x * u[i]
      BY <2>2
    <3>5. QED
      BY <2>5, <3>2, <3>3, <3>4
  <2>6. CASE i + 1 # x
    <3>1. (IF i + 1 < x THEN 1 ELSE x) = (IF i < x THEN 1 ELSE x)
      BY <2>2, <2>6
    <3> DEFINE c == IF i < x THEN 1 ELSE x
               k == IF i + 1 \in s THEN i + 1 ELSE 1
    <3>2. c \in Nat /\ k \in Nat
      BY <2>2
    <3>3. t[i + 1] = (c * u[i]) * k /\ u[i + 1] = u[i] * k
      BY <1>0, <2>2, <2>4, <2>6
    <3> HIDE DEF c, k
    <3>4. (c * u[i]) * k = c * (u[i] * k)
      BY <2>2, <3>2
    <3>5. QED
      BY <3>1, <3>3, <3>4 DEF c
  <2>7. QED
    BY <2>5, <2>6
<1> HIDE DEF T
<1>3. n \in T
  BY <1>1, <1>2, SetInduction
<1>4. t[n] = (IF n < x THEN 1 ELSE x) * u[n]
  BY <1>3 DEF T
<1>5. ~(n < x)
  BY <1>0
<1>6. QED
  BY <1>4, <1>5 DEF TimesLess

LEMMA ProductsUnique ==
  ASSUME NEW s, NEW n \in Nat, NEW m \in Nat, NEW t, NEW u,
         Products(s, n, t), Products(s, m, u)
  PROVE  \A i \in Nat : i <= n /\ i <= m => t[i] = u[i]
<1> DEFINE T == {i \in Nat : i <= n /\ i <= m => t[i] = u[i]}
<1>1. 0 \in T
  BY DEF Products
<1>2. ASSUME NEW i \in Nat, i \in T PROVE i + 1 \in T
  <2>1. SUFFICES ASSUME i + 1 <= n, i + 1 <= m PROVE t[i + 1] = u[i + 1]
    OBVIOUS
  <2>2. t[i] = u[i] /\ i + 1 \in 1 .. n /\ i + 1 \in 1 .. m /\ (i + 1) - 1 = i
    BY <1>2, <2>1
  <2>3. QED
    BY <2>2 DEF Products
<1> HIDE DEF T
<1>3. \A i \in Nat : i \in T
  BY <1>1, <1>2, SetInduction
<1>4. QED
  BY <1>3 DEF T

LEMMA ProductsOfNone ==
  ASSUME NEW n \in Nat, NEW t, Products({}, n, t)
  PROVE  t[n] = 1
<1> DEFINE u == [i \in 0 .. n |-> 1]
<1>1. Products({}, n, u)
  BY DEF Products
<1>2. u[n] = 1
  OBVIOUS
<1> HIDE DEF u
<1>3. QED
  BY <1>1, <1>2, ProductsUnique

(* The fold of the reference has that value, whatever member of the set it *)
(* takes first.                                                            *)
Product(s, n) == (CHOOSE t \in [0 .. n -> Nat] : Products(s, n, t))[n]

LEMMA ProductIs ==
  ASSUME NEW s, NEW n \in Nat
  PROVE  \E t \in [0 .. n -> Nat] : Products(s, n, t) /\ Product(s, n) = t[n]
BY ProductsExist DEF Product

LEMMA ProductWithoutOne ==
  ASSUME NEW s, NEW n \in Nat, NEW x \in s, x \in 1 .. n
  PROVE  Product(s, n) = x * Product(s \ {x}, n)
<1>1. PICK t \in [0 .. n -> Nat] : Products(s, n, t) /\ Product(s, n) = t[n]
  BY ProductIs
<1>2. PICK u \in [0 .. n -> Nat] :
        Products(s \ {x}, n, u) /\ Product(s \ {x}, n) = u[n]
  BY ProductIs
<1>3. t[n] = x * u[n]
  <2> DEFINE r == s \ {x}
  <2>1. WithoutIt(s, n, x, r) /\ Products(s, n, t) /\ Products(r, n, u)
    BY <1>1, <1>2 DEF WithoutIt
  <2> HIDE DEF r
  <2>2. TimesLess(t, u, n, x)
    BY <2>1, ProductsWithout, Zenon
  <2>3. QED
    BY <2>2 DEF TimesLess
<1>4. QED
  BY <1>1, <1>2, <1>3

LEMMA TimesIsProduct == ASSUME NEW n \in Nat PROVE Times(n) = Product(1 .. n, n)
<1> DEFINE S == SUBSET (1 .. n)
           Folded(g) == [s \in S |-> IF s = {} THEN 1
                                     ELSE (CHOOSE x \in s : TRUE) * g[s \ {CHOOSE x \in s : TRUE}]]
           iter == CHOOSE g : g = Folded(g)
           w == [s \in S |-> Product(s, n)]
<1>1. Times(n) = iter[1 .. n]
  BY DEF Times, FoldSet, MapThenFoldSet
<1>2. ASSUME NEW s \in S, s # {}, NEW x \in s PROVE s \ {x} \in S /\ w[s] = x * w[s \ {x}]
  <2>1. s \ {x} \in S /\ x \in 1 .. n
    OBVIOUS
  <2>2. Product(s, n) = x * Product(s \ {x}, n)
    <3> HIDE DEF S, w, iter, Folded
    <3>1. QED
      BY <1>2, <2>1, ProductWithoutOne
  <2>3. QED
    BY <2>1, <2>2
<1>3. w[{}] = 1
  <2>1. Product({}, n) = 1
    BY ProductIs, ProductsOfNone
  <2>2. QED
    BY <2>1
<1>4. \A s \in S : s # {} => (CHOOSE x \in s : TRUE) \in s
  OBVIOUS
<1>5. w = Folded(w)
  <2>1. \A s \in S : w[s] = IF s = {} THEN 1
                            ELSE (CHOOSE x \in s : TRUE) * w[s \ {CHOOSE x \in s : TRUE}]
    <3> HIDE DEF w, S
    <3>1. QED
      BY <1>2, <1>3, <1>4
  <2>2. QED
    BY <2>1
<1>6. iter = Folded(iter)
  <2> HIDE DEF Folded, w
  <2>1. QED
    BY <1>5, Zenon
<1> DEFINE T == {c \in Nat : \A s \in S : Cardinality(s) <= c => iter[s] = w[s]}
<1>7. ASSUME NEW s \in S PROVE IsFiniteSet(s) /\ Cardinality(s) \in Nat
  <2>1. 1 \in Int /\ n \in Int /\ s \subseteq 1 .. n
    OBVIOUS
  <2>2. IsFiniteSet(1 .. n)
    BY <2>1, FS_Interval
  <2>3. IsFiniteSet(s)
    BY <2>1, <2>2, FS_Subset
  <2>4. QED
    BY <2>3, FS_CardinalityType
<1>8. iter[{}] = 1
  <2> HIDE DEF iter
  <2>1. {} \in S
    OBVIOUS
  <2>2. QED
    BY <1>6, <2>1
<1>9. 0 \in T
  <2>1. ASSUME NEW s \in S, Cardinality(s) <= 0 PROVE s = {}
    BY <1>7, <2>1, FS_EmptySet
  <2> HIDE DEF iter, w, S
  <2>2. QED
    BY <1>3, <1>8, <2>1
<1>10. ASSUME NEW c \in Nat, c \in T PROVE c + 1 \in T
  <2> SUFFICES \A s \in S : Cardinality(s) <= c + 1 => iter[s] = w[s]
    <3> HIDE DEF iter, w, S
    <3>1. QED
      BY <1>10
  <2>1. SUFFICES ASSUME NEW s \in S, Cardinality(s) <= c + 1 PROVE iter[s] = w[s]
    <3> HIDE DEF iter, w, S
    <3>1. QED
      OBVIOUS
  <2>2. CASE s = {}
    <3> HIDE DEF iter, w
    <3>1. QED
      BY <1>3, <1>8, <2>2
  <2>3. CASE s # {}
    <3> DEFINE x == CHOOSE x \in s : TRUE
    <3>1. x \in s
      BY <2>3
    <3>2. iter[s] = x * iter[s \ {x}]
      <4> HIDE DEF iter
      <4>1. QED
        BY <1>6, <2>3
    <3> HIDE DEF x
    <3>3. s \ {x} \in S /\ w[s] = x * w[s \ {x}]
      BY <1>2, <2>3, <3>1
    <3>4. Cardinality(s \ {x}) <= c
      <4>1. Cardinality(s \ {x}) = Cardinality(s) - 1
        BY <1>7, <3>1, FS_RemoveElement
      <4>2. QED
        BY <1>7, <2>1, <4>1
    <3>5. iter[s \ {x}] = w[s \ {x}]
      BY <1>10, <3>3, <3>4
    <3>6. QED
      BY <3>2, <3>3, <3>5
  <2>4. QED
    BY <2>2, <2>3
<1> HIDE DEF T
<1>11. \A c \in Nat : c \in T
  BY <1>9, <1>10, SetInduction
<1>12. 1 .. n \in S /\ Cardinality(1 .. n) \in T
  BY <1>7, <1>11
<1>13. iter[1 .. n] = w[1 .. n]
  <2> HIDE DEF iter, w
  <2>1. Cardinality(1 .. n) \in Nat /\ Cardinality(1 .. n) <= Cardinality(1 .. n)
    BY <1>7, <1>12
  <2>2. QED
    BY <1>12, <2>1 DEF T
<1>14. w[1 .. n] = Product(1 .. n, n)
  BY <1>12
<1> HIDE DEF iter, w
<1>15. QED
  BY <1>1, <1>13, <1>14

(* The factorials.                                                         *)
LEMMA TimesOf ==
  /\ Times(0) = 1
  /\ \A n \in Nat : Times(n) \in Nat /\ Times(n + 1) = Times(n) * (n + 1)
<1>1. ASSUME NEW n \in Nat, NEW m \in Nat, m <= n, NEW t \in [0 .. n -> Nat],
             Products(1 .. n, n, t)
      PROVE  Times(m) = t[m]
  <2>1. PICK u \in [0 .. m -> Nat] : Products(1 .. m, m, u) /\ Product(1 .. m, m) = u[m]
    BY ProductIs
  <2>2. Products(1 .. m, m, t)
    <3>1. \A i \in 1 .. m : i \in 1 .. n /\ i \in 1 .. m
      BY <1>1
    <3>2. QED
      BY <1>1, <3>1 DEF Products
  <2>3. u[m] = t[m]
    BY <2>1, <2>2, ProductsUnique
  <2>4. QED
    BY <2>1, <2>3, TimesIsProduct
<1>2. ASSUME NEW n \in Nat
      PROVE  Times(n) \in Nat /\ Times(n + 1) = Times(n) * (n + 1) /\ Times(0) = 1
  <2>0. n + 1 \in Nat
    OBVIOUS
  <2>1. PICK t \in [0 .. n + 1 -> Nat] : Products(1 .. n + 1, n + 1, t)
    BY <2>0, ProductsExist, Zenon
  <2>2. Times(n) = t[n] /\ Times(n + 1) = t[n + 1] /\ Times(0) = t[0]
    BY <1>1, <2>1
  <2>3. n + 1 \in 1 .. n + 1 /\ (n + 1) - 1 = n /\ n \in 0 .. n + 1
    OBVIOUS
  <2>4. t[0] = 1 /\ t[n + 1] = t[n] * (n + 1)
    BY <2>1, <2>3 DEF Products
  <2>5. QED
    BY <2>1, <2>2, <2>3, <2>4
<1>3. QED
  BY <1>2

LEMMA TimesNat == ASSUME NEW n \in Nat PROVE Times(n) \in Nat
BY TimesOf, Zenon

LEMMA TimesGrow ==
  \A m \in Nat : \A n \in Nat : m <= n => 1 <= Times(m) /\ Times(m) <= Times(n)
<1> DEFINE T == {n \in Nat : /\ 1 <= Times(n)
                             /\ \A m \in Nat : m <= n => Times(m) <= Times(n)}
<1>1. 0 \in T
  <2>1. Times(0) = 1
    BY TimesOf, Zenon
  <2>2. \A m \in Nat : m <= 0 => m = 0
    OBVIOUS
  <2>3. \A m \in Nat : m <= 0 => Times(m) <= Times(0)
    BY <2>1, <2>2
  <2>4. QED
    BY <2>1, <2>3
<1>2. ASSUME NEW n \in Nat, n \in T PROVE n + 1 \in T
  <2>1. /\ Times(n) \in Nat /\ Times(n + 1) = Times(n) * (n + 1)
        /\ 1 <= Times(n) /\ \A m \in Nat : m <= n => Times(m) <= Times(n)
    BY <1>2, TimesOf
  <2>2. Times(n) * (n + 1) = Times(n) * n + Times(n) /\ Times(n) * n \in Nat
    BY <2>1
  <2>3. Times(n) <= Times(n + 1) /\ Times(n + 1) \in Nat
    BY <2>1, <2>2
  <2>4. ASSUME NEW m \in Nat, m <= n + 1 PROVE Times(m) <= Times(n + 1)
    <3>1. Times(m) \in Nat /\ n + 1 \in Nat
      BY TimesNat
    <3>2. CASE m = n + 1
      BY <2>3, <3>2
    <3>3. CASE m <= n
      BY <2>1, <2>3, <3>1, <3>3
    <3>4. QED
      BY <2>4, <3>2, <3>3
  <2>5. QED
    BY <2>1, <2>3, <2>4
<1> HIDE DEF T
<1>3. \A n \in Nat : n \in T
  BY <1>1, <1>2, SetInduction
<1>4. QED
  BY <1>3 DEF T

(* The program's recursion yields them.                                    *)
Helped(h) == [n \in Nat \ {0} |-> IF n = 1 THEN 1 ELSE h[n - 1] * n]

LEMMA HelperIs == ASSUME NEW n \in Nat \ {0} PROVE helper[n] = Times(n)
<1> DEFINE w == [m \in Nat \ {0} |-> Times(m)]
<1>1. w = Helped(w)
  <2>1. ASSUME NEW m \in Nat \ {0}
        PROVE  Times(m) = IF m = 1 THEN 1 ELSE w[m - 1] * m
    <3>1. m - 1 \in Nat /\ (m - 1) + 1 = m
      OBVIOUS
    <3>2. Times(m) = Times(m - 1) * m /\ Times(0) = 1
      BY <3>1, TimesOf
    <3>3. CASE m = 1
      BY <3>2, <3>3
    <3>4. CASE m # 1
      <4>1. m - 1 \in Nat \ {0}
        BY <3>1, <3>4
      <4>2. w[m - 1] = Times(m - 1)
        BY <4>1
      <4>3. QED
        BY <3>2, <3>4, <4>2
    <3>5. QED
      BY <3>3, <3>4
  <2>2. QED
    BY <2>1 DEF Helped
<1>2. helper = CHOOSE h : h = Helped(h)
  BY DEF helper, Helped
<1>3. helper = Helped(helper)
  <2> HIDE DEF w
  <2>1. QED
    BY <1>1, <1>2, Zenon
<1> DEFINE T == {m \in Nat : m = 0 \/ helper[m] = Times(m)}
<1>4. 0 \in T
  OBVIOUS
<1>5. ASSUME NEW m \in Nat, m \in T PROVE m + 1 \in T
  <2>1. m + 1 \in Nat \ {0} /\ (m + 1) - 1 = m
    OBVIOUS
  <2>2. helper[m + 1] = IF m + 1 = 1 THEN 1 ELSE helper[m] * (m + 1)
    BY <1>3, <2>1 DEF Helped
  <2>3. Times(m + 1) = Times(m) * (m + 1) /\ Times(0) = 1
    BY TimesOf
  <2>4. CASE m = 0
    <3>1. helper[m + 1] = 1
      BY <2>2, <2>4
    <3>2. Times(m + 1) = 1
      BY <2>3, <2>4
    <3>3. QED
      BY <2>1, <3>1, <3>2
  <2>5. CASE m # 0
    <3>1. helper[m] = Times(m)
      BY <1>5, <2>5
    <3>2. helper[m + 1] = Times(m + 1)
      BY <2>2, <2>3, <2>5, <3>1
    <3>3. QED
      BY <2>1, <3>2
  <2>6. QED
    BY <2>4, <2>5
<1> HIDE DEF T
<1>6. n \in T
  BY <1>4, <1>5, SetInduction
<1>7. QED
  BY <1>6 DEF T

(* And the reference's, which divides and so never overflows, says exactly *)
(* which of them are an int.                                               *)
LEMMA Quotient ==
  ASSUME NEW a \in Nat, NEW m \in Nat, NEW k \in Nat \ {0}
  PROVE  a <= m \div k <=> a * k <= m
OBVIOUS

Fitting(f) == [n \in Nat |-> n = 0 \/ (f[n - 1] /\ Times(n - 1) <= MaxInt \div n)]

LEMMA FitsIs ==
  ASSUME 1 <= MaxInt, NEW n \in Nat
  PROVE  FitsInt[n] <=> Times(n) <= MaxInt
<1> DEFINE w == [m \in Nat |-> Times(m) <= MaxInt]
<1>1. MaxInt \in Nat
  BY FactorialAssumption
<1>2. ASSUME NEW m \in Nat \ {0}
      PROVE  Times(m) <= MaxInt <=> Times(m - 1) <= MaxInt /\ Times(m - 1) <= MaxInt \div m
  <2>1. m - 1 \in Nat /\ (m - 1) + 1 = m
    OBVIOUS
  <2>2. Times(m) = Times(m - 1) * m /\ Times(m - 1) \in Nat /\ Times(m) \in Nat
    BY <2>1, TimesOf
  <2>3. Times(m - 1) <= MaxInt \div m <=> Times(m) <= MaxInt
    BY <1>1, <2>2, Quotient
  <2>4. Times(m - 1) <= Times(m)
    BY <2>1, TimesGrow
  <2>5. QED
    BY <1>1, <2>2, <2>3, <2>4
<1>3. Times(0) <= MaxInt
  BY TimesOf
<1>4. w = Fitting(w)
  <2>1. ASSUME NEW m \in Nat
        PROVE  (Times(m) <= MaxInt) = (m = 0 \/ (w[m - 1] /\ Times(m - 1) <= MaxInt \div m))
    <3>1. CASE m = 0
      BY <1>3, <3>1
    <3>2. CASE m # 0
      <4>1. m - 1 \in Nat /\ m \in Nat \ {0}
        BY <3>2
      <4>2. w[m - 1] = (Times(m - 1) <= MaxInt)
        BY <4>1, Zenon
      <4> HIDE DEF w
      <4>3. Times(m) <= MaxInt <=> m = 0 \/ (w[m - 1] /\ Times(m - 1) <= MaxInt \div m)
        BY <1>2, <3>2, <4>1, <4>2, Zenon
      <4>4. QED
        BY <4>3
    <3>3. QED
      BY <3>1, <3>2
  <2>2. QED
    BY <2>1, Zenon DEF Fitting
<1>5. FitsInt = CHOOSE f : f = Fitting(f)
  BY DEF FitsInt, Fitting
<1>6. FitsInt = Fitting(FitsInt)
  <2> HIDE DEF w
  <2>1. QED
    BY <1>4, <1>5, Zenon
<1>7. \A m \in Nat : FitsInt[m] = (m = 0 \/ (FitsInt[m - 1] /\ Times(m - 1) <= MaxInt \div m))
  BY <1>6, Zenon DEF Fitting
<1> DEFINE T == {m \in Nat : FitsInt[m] <=> Times(m) <= MaxInt}
<1>8. 0 \in T
  <2>1. FitsInt[0]
    <3>1. 0 \in Nat
      OBVIOUS
    <3>2. QED
      BY <1>7, <3>1, Zenon
  <2>2. QED
    BY <1>3, <2>1
<1>9. ASSUME NEW m \in Nat, m \in T PROVE m + 1 \in T
  <2>1. m + 1 \in Nat \ {0} /\ (m + 1) - 1 = m /\ m + 1 \in Nat /\ m + 1 # 0
    OBVIOUS
  <2>2. FitsInt[m] <=> Times(m) <= MaxInt
    BY <1>9, Zenon
  <2>3. FitsInt[m + 1] <=> FitsInt[m] /\ Times(m) <= MaxInt \div (m + 1)
    BY <1>7, <2>1, Zenon
  <2>4. Times(m + 1) <= MaxInt <=> Times(m) <= MaxInt /\ Times(m) <= MaxInt \div (m + 1)
    BY <1>2, <2>1, Zenon
  <2>5. FitsInt[m + 1] <=> Times(m + 1) <= MaxInt
    BY <2>2, <2>3, <2>4, Zenon
  <2>6. QED
    BY <2>1, <2>5, Zenon
<1> HIDE DEF T
<1>10. n \in T
  BY <1>8, <1>9, SetInduction
<1>11. QED
  BY <1>10, Zenon DEF T

(* The argument that is not refused is the numeral of num, and no other.   *)
LEMMA TwoDigits ==
  ASSUME NEW a \in 1 .. 9, NEW b \in 0 .. 9
  PROVE  LET n == 10 * a + b IN n \in 10 .. 99 /\ n \div 10 = a /\ n % 10 = b
OBVIOUS

LEMMA CodeOf == ASSUME NEW c \in Int PROVE 48 + (c - 48) = c
OBVIOUS

LEMMA NumeralRead ==
  ASSUME arg \in Seq(Nat), ~Huh
  PROVE  num \in 1 .. 99 /\ arg = Numeral(num)
<1>1. CASE Len(arg) = 1
  <2>1. arg[1] \in 49 .. 57 /\ num = arg[1] - 48
    BY <1>1 DEF Huh, Digits, num
  <2>2. num \in 1 .. 9 /\ 48 + num = arg[1]
    BY <2>1
  <2>3. Numeral(num) = <<arg[1]>>
    BY <2>2 DEF Numeral
  <2>4. arg = <<arg[1]>>
    BY <1>1
  <2>5. QED
    BY <2>2, <2>3, <2>4
<1>2. CASE Len(arg) = 2
  <2>0. arg[1] \in 49 .. 57 /\ arg[2] \in 48 .. 57
    BY <1>2 DEF Huh, Digits
  <2>1. num = 10 * (arg[1] - 48) + arg[2] - 48
    BY <1>2 DEF num
  <2> DEFINE a == arg[1] - 48
             b == arg[2] - 48
  <2>2. a \in 1 .. 9 /\ b \in 0 .. 9 /\ num = 10 * a + b
    BY <2>0, <2>1
  <2>3. 48 + a = arg[1] /\ 48 + b = arg[2]
    <3>1. arg[1] \in Int /\ arg[2] \in Int
      BY <2>0
    <3>2. 48 + (arg[1] - 48) = arg[1]
      BY <3>1, CodeOf, Zenon
    <3>3. 48 + (arg[2] - 48) = arg[2]
      BY <3>1, CodeOf, Zenon
    <3>4. QED
      BY <3>2, <3>3, Zenon
  <2> HIDE DEF a, b
  <2>4. num \in 10 .. 99 /\ num \div 10 = a /\ num % 10 = b
    BY <2>2, TwoDigits
  <2>5. Numeral(num) = <<arg[1], arg[2]>>
    <3>1. ~(num < 10)
      BY <2>4
    <3>2. Numeral(num) = <<48 + a, 48 + b>>
      BY <2>4, <3>1, Zenon DEF Numeral
    <3>3. QED
      BY <2>3, <3>2, Zenon
  <2>6. arg = <<arg[1], arg[2]>>
    BY <1>2
  <2>7. QED
    BY <2>4, <2>5, <2>6
<1>3. QED
  BY <1>1, <1>2 DEF Huh

LEMMA NumeralAccepted ==
  ASSUME NEW n \in 1 .. 99, arg = Numeral(n)
  PROVE  ~Huh /\ num = n
<1>1. CASE n < 10
  <2>1. arg = <<48 + n>>
    BY <1>1 DEF Numeral
  <2>2. Len(arg) = 1 /\ arg[1] = 48 + n
    BY <2>1
  <2>3. QED
    BY <1>1, <2>2 DEF Huh, Digits, num
<1>2. CASE ~(n < 10)
  <2>1. arg = <<48 + (n \div 10), 48 + (n % 10)>>
    BY <1>2 DEF Numeral
  <2>2. Len(arg) = 2 /\ arg[1] = 48 + (n \div 10) /\ arg[2] = 48 + (n % 10)
    BY <2>1
  <2>3. n \div 10 \in 1 .. 9 /\ n % 10 \in 0 .. 9 /\ n = 10 * (n \div 10) + (n % 10)
    BY <1>2
  <2>4. QED
    BY <2>2, <2>3 DEF Huh, Digits, num
<1>3. QED
  BY <1>1, <1>2
-----------------------------------------------------------------------------
FactInv == arg \in Args \cup {NoArg} /\ FactAnswers

(* fact answers every argument rightly: the only thing it relies on is the *)
(* size of the int, in which 12! has room and 13! has not (its test is     *)
(* num > 12).                                                              *)
THEOREM FactAnswersHolds ==
  ASSUME Times(12) <= MaxInt, MaxInt < Times(13)
  PROVE  FactSpec => []FactAnswers
<1>1. MaxInt \in Nat /\ 1 <= MaxInt
  <2>1. MaxInt \in Nat /\ Times(12) \in Nat /\ 1 <= Times(12)
    BY FactorialAssumption, TimesOf, TimesGrow
  <2>2. QED
    BY <2>1
<1>2. FactInit => FactInv
  BY DEF FactInit, FactInv, FactAnswers, Shown
<1>3. ASSUME NEW n \in 1 .. 99 PROVE FitsInt[n] <=> ~(n > 12)
  <2>1. FitsInt[n] <=> Times(n) <= MaxInt
    BY <1>1, FitsIs
  <2>2. Times(n) \in Nat /\ Times(12) \in Nat /\ Times(13) \in Nat
    BY TimesNat
  <2>3. n <= 12 => Times(n) <= Times(12)
    BY TimesGrow
  <2>4. ~(n <= 12) => Times(13) <= Times(n)
    BY TimesGrow
  <2>5. Times(n) <= MaxInt <=> ~(n > 12)
    BY <1>1, <2>2, <2>3, <2>4
  <2>6. QED
    BY <2>1, <2>5, Zenon
<1>4. FactInv /\ [FactMain]_fact_vars => FactInv'
  <2> SUFFICES ASSUME FactInv, [FactMain]_fact_vars PROVE FactInv'
    OBVIOUS
  <2>1. CASE UNCHANGED fact_vars
    BY <2>1 DEF fact_vars, FactInv, FactAnswers
  <2>2. CASE FactMain
    <3>1. arg' = arg /\ arg \in Args \cup {NoArg}
      BY <2>2 DEF FactMain, FactInv
    <3>2. CASE arg = NoArg
      <4>1. fact_out' = Shown("fault")
        BY <2>2, <3>2 DEF FactMain
      <4>2. QED
        BY <3>1, <4>1 DEF FactInv, FactAnswers, Shown
    <3>3. CASE arg # NoArg /\ Huh
      <4>1. fact_out' = Shown("Huh?")
        BY <2>2, <3>3 DEF FactMain
      <4>2. ~\E n \in 1 .. 99 : arg = Numeral(n)
        BY <3>3, NumeralAccepted
      <4>3. ~\E n \in 1 .. 99 : arg' = Numeral(n)
        BY <3>1, <4>2
      <4>4. QED
        BY <3>1, <4>1, <4>3 DEF FactInv, FactAnswers
    <3>4. CASE arg # NoArg /\ ~Huh
      <4>1. arg \in Seq(Nat)
        BY <3>1, <3>4, FactorialAssumption
      <4>2. num \in 1 .. 99 /\ arg = Numeral(num)
        BY <3>4, <4>1, NumeralRead
      <4>3. fact_out' = IF num > 12 THEN Shown("Overflow") ELSE Number(helper[num])
        BY <2>2, <3>4 DEF FactMain, TooLarge
      <4>4. helper[num] = Times(num)
        BY <4>2, HelperIs
      <4>5. FitsInt[num] <=> ~(num > 12)
        BY <1>3, <4>2
      <4>6. fact_out' = IF FitsInt[num] THEN Number(Times(num)) ELSE Shown("Overflow")
        BY <4>3, <4>4, <4>5, Zenon
      <4>7. \E n \in 1 .. 99 :
              /\ arg' = Numeral(n)
              /\ fact_out' = IF FitsInt[n] THEN Number(Times(n)) ELSE Shown("Overflow")
        BY <3>1, <4>2, <4>6, Zenon
      <4>8. FactAnswers'
        BY <4>7, Zenon DEF FactAnswers
      <4>9. QED
        BY <3>1, <4>8 DEF FactInv
    <3>5. QED
      BY <3>2, <3>3, <3>4
  <2>3. QED
    BY <2>1, <2>2
<1>5. FactInv => FactAnswers
  BY DEF FactInv
<1>6. QED
  BY <1>2, <1>4, <1>5, PTL DEF FactSpec
-----------------------------------------------------------------------------
(* The programs together: each is what its own specification says, so what *)
(* is proved of each holds of all of them.                                 *)
THEOREM ProgramsAsSpecified == Spec => WcSpec /\ CpSpec /\ FactSpec /\ FsSpec
<1>1. Init => WcInit /\ CpInit /\ FactInit /\ FsInit
  BY DEF Init, FactInit
<1>2. [Next]_prog_vars =>
        /\ [WcNext]_wc_vars
        /\ [CpNext]_cp_vars
        /\ [FactMain]_fact_vars
        /\ [FsNext]_fs_vars
  BY Zenon DEF Next, Wc, Cp, Fact, Fs, prog_vars
<1>3. QED
  BY <1>1, <1>2, PTL DEF Spec, WcSpec, CpSpec, FactSpec, FsSpec

(* All variables of the programs keep their types.                         *)
THEOREM TypesHold == Spec => []TypesOK
<1>1. CountInv => WcTypeOK
  BY DEF CountInv
<1>2. IInv => CpTypeOK
  <2>1. SUFFICES ASSUME IInv PROVE CpTypeOK
    OBVIOUS
  <2>2. cp_pc \in {"idle", "start", "copy", "done", "failed"}
    BY <2>1 DEF IInv
  <2>3. \A k \in DOMAIN stack : stack[k].entries \subseteq Children(stack[k].path)
    <3>1. Frames(stack)
      BY <2>1 DEF IInv
    <3>2. DOMAIN stack = 1 .. Len(stack)
      BY <3>1 DEF Frames
    <3>3. QED
      BY <3>1, <3>2, Zenon DEF Frames
  <2>4. fd # NoFile => fd.path \in DOMAIN dst /\ fd.offset >= 0
    BY <2>1 DEF IInv, Copying
  <2>5. DOMAIN dst \subseteq DOMAIN src
    BY <2>1 DEF IInv, Exact
  <2>6. QED
    BY <2>2, <2>3, <2>4, <2>5 DEF CpTypeOK
<1>3. QED
  BY <1>1, <1>2, ProgramsAsSpecified, CountInvariance, CopyInvariance, FileSetTypes, PTL
     DEF TypesOK
=============================================================================
