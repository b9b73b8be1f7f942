------------------------------ MODULE CopyTree ------------------------------
(***************************************************************************)
(* cpr.c of the warm-up programs: a directory tree is copied.  The         *)
(* recursion of copyDirect is a stack of directories that are being read,  *)
(* and copyFile, which never calls it, a file that is being copied.        *)
(***************************************************************************)
EXTENDS Integers, Sequences, FiniteSets, SequencesExt

CONSTANTS
  Source,     \* the trees to copy: functions from paths to nodes
  BlockSize,  \* the size of copyFile's buffer (4096)
  ShortWrites \* whether write() may write less than it was given

(* A path is a sequence of names, from the root <<>>.  A node has a kind,  *)
(* "dir", "file" or "special"; whether its mode lets its owner write; and  *)
(* its contents.                                                           *)
Node(kind, writable, data) == [kind |-> kind, writable |-> writable, data |-> data]
Nodes == [kind : {"dir", "file", "special"}, writable : BOOLEAN, data : Seq(Nat)]

(* What is on the way from the root to a node are directories.             *)
IsTree(tree) ==
  /\ <<>> \in DOMAIN tree
  /\ \A p \in DOMAIN tree :
       /\ p \in Seq(STRING)
       /\ tree[p] \in Nodes
       /\ tree[p].kind = "dir" => tree[p].data = <<>>
       /\ \A n \in 0 .. Len(p) - 1 :
            SubSeq(p, 1, n) \in DOMAIN tree /\ tree[SubSeq(p, 1, n)].kind = "dir"

ASSUME CopyTreeAssumption ==
  /\ BlockSize \in Nat \ {0}
  /\ ShortWrites \in BOOLEAN
  /\ \A tree \in Source : IsTree(tree)

VARIABLES
  src, dst, \* the two trees
  stack,    \* the calls of copyDirect: each its directory, and what it has yet to read
  fd,       \* copyFile: the path, and how far it has been read; or NoFile
  short,    \* whether some write was short
  cp_pc

cp_vars == <<src, dst, stack, fd, short, cp_pc>>

NoFile == [path |-> <<>>, offset |-> -1]
NoTree == [p \in {} |-> 0]

CpInit ==
  /\ src = NoTree
  /\ dst = NoTree
  /\ stack = <<>>
  /\ fd = NoFile
  /\ short = FALSE
  /\ cp_pc = "idle"

Children(path) == {p \in DOMAIN src : Len(p) = Len(path) + 1 /\ IsPrefix(path, p)}

With(tree, path, node) ==
  [p \in DOMAIN tree \cup {path} |-> IF p = path THEN node ELSE tree[p]]

(* mkdir and creat need a directory that may be written to.                *)
MayCreate(path) == path = <<>> \/ dst[Front(path)].writable
-----------------------------------------------------------------------------
(* copyDirect, called when rest is the stack of the calls that wait.  A    *)
(* directory is made so that it may be written to, and opened; a file is   *)
(* opened, and made; what is neither is left out.                          *)
DirModeFinal(path) == src[path].writable \* mutant: mkdir sets the final mode
DirMode(path) == TRUE

copyDirect(path, rest) ==
  LET kind == src[path].kind IN
  /\ CASE kind = "dir" ->
            /\ dst' = With(dst, path, Node("dir", DirMode(path), <<>>))
            /\ stack' = Append(rest, [path |-> path, entries |-> Children(path)])
            /\ UNCHANGED fd
       [] kind = "file" ->
            /\ dst' = With(dst, path, Node("file", TRUE, <<>>))
            /\ stack' = rest
            /\ fd' = [path |-> path, offset |-> 0]
       [] OTHER -> stack' = rest /\ UNCHANGED <<dst, fd>>
  /\ cp_pc' = "copy"

CpStart ==
  /\ cp_pc = "idle"
  /\ src' \in Source
  /\ cp_pc' = "start"
  /\ UNCHANGED <<dst, stack, fd, short>>

CpRoot ==
  /\ cp_pc = "start"
  /\ copyDirect(<<>>, <<>>)
  /\ UNCHANGED <<src, short>>

Top == Last(stack)
Busy == cp_pc = "copy" /\ fd = NoFile /\ stack # <<>>

(* readdir returns the entries in any order.                               *)
CpEntry ==
  /\ Busy
  /\ \E path \in Top.entries :
       /\ src[path].kind = "special" \/ MayCreate(path)
       /\ copyDirect(path, Append(Front(stack), [Top EXCEPT !.entries = @ \ {path}]))
  /\ UNCHANGED <<src, short>>

(* The directory gets its mode when all that is in it is there.            *)
NoMoreEver == TRUE \* mutant: the rest of a directory is left out
NoMore == Top.entries = {}

CpLeave ==
  /\ Busy
  /\ NoMore
  /\ dst' = [dst EXCEPT ![Top.path].writable = src[Top.path].writable]
  /\ stack' = Front(stack)
  /\ UNCHANGED <<src, fd, short, cp_pc>>

(* A turn of copyFile's loop: what is written is not compared with what    *)
(* was read.                                                               *)
Block(path, offset) ==
  LET data == src[path].data IN
  SubSeq(data, offset + 1,
         IF offset + BlockSize < Len(data) THEN offset + BlockSize ELSE Len(data))

LastBlock(block) == block = <<>>

CpBlock ==
  /\ cp_pc = "copy"
  /\ fd # NoFile
  /\ ~LastBlock(Block(fd.path, fd.offset))
  /\ LET block == Block(fd.path, fd.offset) IN
       \E n \in (IF ShortWrites THEN 0 ELSE Len(block)) .. Len(block) :
         /\ dst' = [dst EXCEPT ![fd.path].data = @ \o SubSeq(block, 1, n)]
         /\ fd' = [fd EXCEPT !.offset = @ + Len(block)]
         /\ short' = (short \/ n < Len(block))
  /\ UNCHANGED <<src, stack, cp_pc>>

(* Nothing is left to read: the file gets its mode.                        *)
CpClose ==
  /\ cp_pc = "copy"
  /\ fd # NoFile
  /\ LastBlock(Block(fd.path, fd.offset))
  /\ dst' = [dst EXCEPT ![fd.path].writable = src[fd.path].writable]
  /\ fd' = NoFile
  /\ UNCHANGED <<src, stack, short, cp_pc>>

CpExit ==
  /\ cp_pc = "copy"
  /\ fd = NoFile
  /\ stack = <<>>
  /\ cp_pc' = "done"
  /\ UNCHANGED <<src, dst, stack, fd, short>>

(* Any system call may fail: syserror.                                     *)
CpFail ==
  /\ cp_pc \in {"start", "copy"}
  /\ cp_pc' = "failed"
  /\ UNCHANGED <<src, dst, stack, fd, short>>

CpStep == CpRoot \/ CpEntry \/ CpLeave \/ CpBlock \/ CpClose \/ CpExit \/ CpFail
CpNext == CpStart \/ CpStep
CpSpec == CpInit /\ [][CpNext]_cp_vars
-----------------------------------------------------------------------------
CpTypeOK ==
  /\ cp_pc \in {"idle", "start", "copy", "done", "failed"}
  /\ \A k \in DOMAIN stack : stack[k].entries \subseteq Children(stack[k].path)
  /\ fd # NoFile => fd.path \in DOMAIN dst /\ fd.offset >= 0
  /\ DOMAIN dst \subseteq DOMAIN src

(* Whatever order the entries come in, and wherever a call fails, only the *)
(* path from the root to what is being copied is incomplete; all else that *)
(* is there is like the source, with its contents and mode.  When cpr says *)
(* that it succeeded, all files and directories are there.  (Unless write  *)
(* took less than it was given, which the code does not look at.)          *)
InProgress(p) ==
  \/ fd # NoFile /\ p = fd.path
  \/ \E k \in DOMAIN stack : stack[k].path = p

CpMirrors ==
  ~short =>
    /\ \A p \in DOMAIN dst : dst[p] = src[p] \/ InProgress(p)
    /\ cp_pc = "done" =>
         DOMAIN dst = {p \in DOMAIN src : src[p].kind # "special"}

(* Write-protected directories can be copied: no entry is ever met when    *)
(* the copy of its directory has its mode already.                         *)
CpNotDenied == Busy => \A path \in Top.entries : MayCreate(path)
=============================================================================
