------------------------------ MODULE Programs ------------------------------
(***************************************************************************)
(* The programs that run by themselves, each of which is one sequential    *)
(* process: wc, cpr, fact, and fileset with the client's reading of its    *)
(* index.  A behaviour is a behaviour of one of them; the others stand     *)
(* still.                                                                  *)
(***************************************************************************)
EXTENDS WordCount, CopyTree, Factorial, FileSet

VARIABLE prog \* the program that runs

Init ==
  /\ prog \in {"wc", "cpr", "fact", "fileset"}
  /\ WcInit
  /\ CpInit
  /\ FsInit
  /\ fact_out = Shown("none")
  /\ arg \in IF prog = "fact" THEN Args \cup {NoArg} ELSE {NoArg}

Wc == prog = "wc" /\ WcNext /\ UNCHANGED <<prog, cp_vars, fact_vars, fs_vars>>
Cp == prog = "cpr" /\ CpNext /\ UNCHANGED <<prog, wc_vars, fact_vars, fs_vars>>
Fact == prog = "fact" /\ FactMain /\ UNCHANGED <<prog, wc_vars, cp_vars, fs_vars>>
Fs == prog = "fileset" /\ FsNext /\ UNCHANGED <<prog, wc_vars, cp_vars, fact_vars>>

Next == Wc \/ Cp \/ Fact \/ Fs

prog_vars == <<prog, wc_vars, cp_vars, fact_vars, fs_vars>>

(* fileset, once it is started, goes on.                                   *)
Spec == Init /\ [][Next]_prog_vars /\ WF_fs_vars(FsStep)

TypesOK == WcTypeOK /\ CpTypeOK /\ FsTypeOK
=============================================================================
