--------------------------- MODULE CopyTreeProofs ---------------------------
(***************************************************************************)
(* cpr copies every tree, whatever order its directories are read in, and  *)
(* whatever modes and contents its nodes have.                             *)
(***************************************************************************)
EXTENDS CopyTree, SequenceTheorems, TLAPS

Path == Seq(STRING)
Frame == [path : Path, entries : SUBSET Path]

(* The calls of copyDirect go down from the root, and their directories    *)
(* may still be written to.                                                *)
Frames(s) ==
  /\ s \in Seq(Frame)
  /\ \A k \in 1 .. Len(s) :
       /\ Len(s[k].path) = k - 1
       /\ s[k].path \in DOMAIN src /\ src[s[k].path].kind = "dir"
       /\ s[k].path \in DOMAIN dst /\ dst[s[k].path] = Node("dir", TRUE, <<>>)
       /\ s[k].entries \subseteq Children(s[k].path)

Copying ==
  fd # NoFile =>
    /\ fd \in [path : Path, offset : Nat]
    /\ fd.path \in DOMAIN src /\ src[fd.path].kind = "file" /\ fd.path \in DOMAIN dst
    /\ fd.offset <= Len(src[fd.path].data)
    /\ ~short => dst[fd.path] = Node("file", TRUE, SubSeq(src[fd.path].data, 1, fd.offset))

OnStack(s, p) == \E k \in 1 .. Len(s) : s[k].path = p

(* A node is in an entry that some call has yet to read.                   *)
ToRead(s, p) == \E k \in 1 .. Len(s) : \E e \in s[k].entries : IsPrefix(e, p)

Exact(s) ==
  /\ \A p \in DOMAIN dst : p \in DOMAIN src /\ src[p].kind # "special"
  /\ ~short => \A p \in DOMAIN dst :
       dst[p] = src[p] \/ (fd # NoFile /\ p = fd.path) \/ OnStack(s, p)

Whole(s) ==
  \A p \in DOMAIN src : src[p].kind # "special" => p \in DOMAIN dst \/ ToRead(s, p)

IInv ==
  /\ cp_pc \in {"idle", "start", "copy", "done", "failed"}
  /\ cp_pc = "idle" => src = NoTree
  /\ cp_pc # "idle" => IsTree(src)
  /\ cp_pc \in {"idle", "start"} => dst = NoTree /\ stack = <<>> /\ fd = NoFile /\ ~short
  /\ cp_pc = "done" => stack = <<>> /\ fd = NoFile
  /\ cp_pc \in {"copy", "done"} => Whole(stack)
  /\ Frames(stack) /\ Copying /\ Exact(stack)
-----------------------------------------------------------------------------
LEMMA PrefixMeans ==
  ASSUME NEW p \in Path, NEW q \in Path
  PROVE  IsPrefix(p, q) <=> Len(p) <= Len(q) /\ \A i \in 1 .. Len(p) : p[i] = q[i]
<1>1. Len(p) \in Nat /\ Len(q) \in Nat
  BY DEF Path
<1>2. SUFFICES ASSUME Len(p) <= Len(q)
               PROVE  SubSeq(p, 1, Len(p)) = SubSeq(q, 1, Len(p))
                        <=> \A i \in 1 .. Len(p) : p[i] = q[i]
  BY DEF IsPrefix
<1> DEFINE a == SubSeq(p, 1, Len(p))
           b == SubSeq(q, 1, Len(p))
<1>3. /\ a \in Path /\ Len(a) = Len(p) /\ \A i \in 1 .. Len(p) : a[i] = p[i]
      /\ b \in Path /\ Len(b) = Len(p) /\ \A i \in 1 .. Len(p) : b[i] = q[i]
  BY <1>1, <1>2 DEF Path
<1> HIDE DEF a, b
<1>4. a = b <=> \A i \in 1 .. Len(p) : a[i] = b[i]
  BY <1>3, SeqEqual DEF Path
<1>5. QED
  BY <1>3, <1>4 DEF a, b

(* An entry of a directory: its path without its name is the directory's.  *)
LEMMA ChildOf ==
  ASSUME IsTree(src), NEW d \in Path, NEW p \in Children(d)
  PROVE  /\ p \in DOMAIN src /\ p \in Path /\ p # <<>>
         /\ Len(p) = Len(d) + 1 /\ Front(p) = d
<1>1. p \in DOMAIN src /\ p \in Path /\ Len(p) = Len(d) + 1 /\ IsPrefix(d, p)
  BY DEF Children, IsTree, Path
<1>2. Len(d) \in Nat /\ Len(p) - 1 = Len(d)
  BY <1>1 DEF Path
<1>3. Front(p) = SubSeq(d, 1, Len(d))
  BY <1>1, <1>2 DEF Front, IsPrefix
<1>4. QED
  BY <1>1, <1>2, <1>3, SubSeqFull, EmptySeq DEF Path

(* What is below a directory is one of its entries, or below one.          *)
LEMMA Below ==
  ASSUME IsTree(src), NEW d \in Path, NEW p \in DOMAIN src, IsPrefix(d, p)
  PROVE  \/ p = d
         \/ src[d].kind = "dir" /\ \E c \in Children(d) : IsPrefix(c, p)
<1>1. /\ p \in Path /\ Len(p) \in Nat /\ Len(d) \in Nat
      /\ Len(d) <= Len(p) /\ \A i \in 1 .. Len(d) : d[i] = p[i]
  BY PrefixMeans DEF IsTree, Path
<1>2. CASE Len(d) = Len(p)
  BY <1>1, <1>2, SeqEqual DEF Path
<1>3. CASE Len(d) < Len(p)
  <2> DEFINE n == Len(d) + 1
             c == SubSeq(p, 1, n)
  <2>1. n \in 1 .. Len(p)
    BY <1>1, <1>3
  <2>2. c \in Path /\ Len(c) = n /\ \A i \in 1 .. n : c[i] = p[i]
    BY <1>1, <2>1 DEF Path
  <2>3. c \in DOMAIN src
    <3>1. CASE n < Len(p)
      BY <1>1, <2>1, <3>1 DEF IsTree
    <3>2. CASE n = Len(p)
      BY <1>1, <2>1, <3>2, SubSeqFull DEF Path
    <3>3. QED
      BY <2>1, <3>1, <3>2, <1>1
  <2> HIDE DEF c
  <2>4. IsPrefix(d, c) /\ IsPrefix(c, p)
    BY <1>1, <2>1, <2>2, PrefixMeans
  <2>5. c \in Children(d)
    BY <2>2, <2>3, <2>4 DEF Children
  <2>6. d = SubSeq(p, 1, Len(d))
    <3> DEFINE e == SubSeq(p, 1, Len(d))
    <3>1. e \in Path /\ Len(e) = Len(d) /\ \A i \in 1 .. Len(d) : e[i] = p[i]
      BY <1>1 DEF Path
    <3> HIDE DEF e
    <3>2. d = e
      BY <1>1, <3>1, SeqEqual DEF Path
    <3>3. QED
      BY <3>2 DEF e
  <2>7. src[d].kind = "dir"
    <3>1. Len(d) \in 0 .. Len(p) - 1
      BY <1>1, <1>3
    <3>2. \A m \in 0 .. Len(p) - 1 : src[SubSeq(p, 1, m)].kind = "dir"
      BY DEF IsTree
    <3>3. src[SubSeq(p, 1, Len(d))].kind = "dir"
      BY <3>1, <3>2
    <3>4. QED
      BY <2>6, <3>3, Zenon
  <2>8. QED
    BY <2>4, <2>5, <2>7
<1>4. QED
  BY <1>1, <1>2, <1>3

LEMMA RootAbove ==
  ASSUME IsTree(src), NEW p \in DOMAIN src
  PROVE  IsPrefix(<<>>, p)
<1>1. p \in Path /\ <<>> \in Path /\ Len(<<>>) = 0 /\ Len(p) \in Nat
  BY DEF IsTree, Path
<1>2. QED
  BY <1>1, PrefixMeans

(* A stack of calls and one call more; without the last call.              *)
LEMMA Pushed ==
  ASSUME NEW s \in Seq(Frame), NEW f \in Frame
  PROVE  /\ Append(s, f) \in Seq(Frame) /\ Len(Append(s, f)) = Len(s) + 1
         /\ \A k \in 1 .. Len(s) : Append(s, f)[k] = s[k]
         /\ Append(s, f)[Len(s) + 1] = f
BY AppendProperties

LEMMA Popped ==
  ASSUME NEW s \in Seq(Frame), s # <<>>
  PROVE  /\ Len(s) \in Nat \ {0} /\ Last(s) \in Frame /\ Last(s) = s[Len(s)]
         /\ Front(s) \in Seq(Frame) /\ Len(Front(s)) = Len(s) - 1
         /\ \A k \in 1 .. Len(s) - 1 : Front(s)[k] = s[k]
<1>1. Len(s) \in Nat \ {0}
  BY EmptySeq
<1>2. Len(s) \in 1 .. Len(s) /\ s[Len(s)] \in Frame
  BY <1>1
<1> DEFINE f == SubSeq(s, 1, Len(s) - 1)
<1>3. f \in Seq(Frame) /\ Len(f) = Len(s) - 1 /\ \A k \in 1 .. Len(s) - 1 : f[k] = s[k]
  <2> DEFINE m == Len(s) - 1
  <2>1. m \in Nat /\ \A i \in 1 .. m : s[i] \in Frame
    BY <1>1
  <2> HIDE DEF m
  <2> DEFINE g == SubSeq(s, 1, m)
  <2>2. /\ g \in Seq(Frame)
        /\ Len(g) = IF 1 <= m THEN m - 1 + 1 ELSE 0
        /\ \A i \in 1 .. m - 1 + 1 : g[i] = s[1 + i - 1]
    BY <2>1, SubSeqProperties, 1 \in Int, m \in Int
  <2> HIDE DEF g
  <2>3. g \in Seq(Frame) /\ Len(g) = m /\ \A i \in 1 .. m : g[i] = s[i]
    BY <2>1, <2>2
  <2>4. QED
    BY <2>3 DEF m, g
<1> HIDE DEF f
<1>4. Front(s) = f
  BY DEF Front, f
<1>5. QED
  BY <1>1, <1>2, <1>3, <1>4 DEF Last
-----------------------------------------------------------------------------
LEMMA InitInv == CpInit => IInv
BY DEF CpInit, IInv, NoTree, Frames, Copying, Exact

LEMMA StartStep == IInv /\ CpStart => IInv'
<1>1. SUFFICES ASSUME IInv, CpStart PROVE IInv'
  OBVIOUS
<1>2. src' \in Source /\ IsTree(src')
  BY <1>1, CopyTreeAssumption DEF CpStart
<1>3. UNCHANGED <<dst, stack, fd, short>> /\ cp_pc' = "start"
      /\ dst = NoTree /\ stack = <<>> /\ fd = NoFile /\ ~short
  BY <1>1 DEF CpStart, IInv
<1>4. IsTree(src)'
  BY <1>2 DEF IsTree, Nodes
<1>5. QED
  BY <1>3, <1>4 DEF IInv, NoTree, Frames, Copying, Exact

(* copyDirect(path, rest): what is at path or below it is the only thing   *)
(* that rest does not lead to.                                             *)
LEMMA CopyDirectStep ==
  ASSUME IsTree(src), NEW path \in DOMAIN src, NEW rest,
         Frames(rest), Len(path) = Len(rest), fd = NoFile, Exact(rest),
         \A p \in DOMAIN src : src[p].kind # "special" =>
           p \in DOMAIN dst \/ IsPrefix(path, p) \/ ToRead(rest, p),
         copyDirect(path, rest), UNCHANGED <<src, short>>
  PROVE  IInv'
<1>1. /\ path \in Path /\ src[path] \in Nodes /\ cp_pc' = "copy" /\ IsTree(src)'
  BY DEF IsTree, Path, copyDirect
<1>2. rest \in Seq(Frame) /\ Len(rest) \in Nat
  BY DEF Frames
(* A node that is made: all others are as they were.                       *)
<1>3. ASSUME NEW node, dst' = With(dst, path, node)
      PROVE  /\ DOMAIN dst' = DOMAIN dst \cup {path} /\ dst'[path] = node
             /\ \A p \in DOMAIN dst : p # path => dst'[p] = dst[p]
  BY <1>3 DEF With
<1>4. CASE src[path].kind = "dir"
  <2> DEFINE f == [path |-> path, entries |-> Children(path)]
  <2>1. /\ dst' = With(dst, path, Node("dir", TRUE, <<>>))
        /\ stack' = Append(rest, f) /\ fd' = NoFile
    BY <1>4 DEF copyDirect, DirMode
  <2>2. f \in Frame /\ f.path = path /\ f.entries = Children(path)
    BY <1>1, ChildOf DEF Frame
  <2> HIDE DEF f
  <2>3. /\ stack' \in Seq(Frame) /\ Len(stack') = Len(rest) + 1
        /\ \A k \in 1 .. Len(rest) : stack'[k] = rest[k]
        /\ stack'[Len(rest) + 1] = f
    BY <1>2, <2>1, <2>2, Pushed
  <2>4. /\ DOMAIN dst' = DOMAIN dst \cup {path}
        /\ dst'[path] = Node("dir", TRUE, <<>>)
        /\ \A p \in DOMAIN dst : p # path => dst'[p] = dst[p]
    BY <1>3, <2>1
  <2>5. Frames(stack)'
    <3>1. SUFFICES ASSUME NEW k \in 1 .. Len(stack')
                   PROVE /\ Len(stack'[k].path) = k - 1
                         /\ stack'[k].path \in DOMAIN src /\ src[stack'[k].path].kind = "dir"
                         /\ stack'[k].path \in DOMAIN dst'
                         /\ dst'[stack'[k].path] = Node("dir", TRUE, <<>>)
                         /\ stack'[k].entries \subseteq Children(stack'[k].path)
      BY <2>3 DEF Frames, Children, Node
    <3>2. CASE k \in 1 .. Len(rest)
      BY <2>3, <2>4, <3>2 DEF Frames
    <3>3. CASE k = Len(rest) + 1
      <4>1. stack'[k] = f /\ Len(rest) = k - 1
        BY <1>2, <2>3, <3>3
      <4>2. stack'[k].path = path /\ stack'[k].entries = Children(path)
        BY <4>1, <2>2, Zenon
      <4>3. path \in DOMAIN dst' /\ Len(path) = k - 1
        BY <4>1, <2>4
      <4>4. QED
        BY <1>4, <2>4, <4>2, <4>3, Zenon
    <3>4. k \in 1 .. Len(rest) \/ k = Len(rest) + 1
      BY <1>2, <2>3
    <3>5. QED
      BY <3>2, <3>3, <3>4
  <2>6. \A p : OnStack(rest, p) \/ p = path => OnStack(stack, p)'
    BY <1>2, <2>2, <2>3 DEF OnStack
  <2>7. Exact(stack)'
    BY <1>4, <2>4, <2>6 DEF Exact
  <2>8. \A p : ToRead(rest, p) => ToRead(stack, p)'
    BY <1>2, <2>3 DEF ToRead
  <2>9. \A p \in DOMAIN src : IsPrefix(path, p) => p = path \/ ToRead(stack, p)'
    <3>1. SUFFICES ASSUME NEW p \in DOMAIN src, IsPrefix(path, p), p # path
                   PROVE ToRead(stack, p)'
      OBVIOUS
    <3>2. PICK c \in Children(path) : IsPrefix(c, p)
      BY <1>1, <3>1, Below
    <3>3. Len(rest) + 1 \in 1 .. Len(stack') /\ c \in stack'[Len(rest) + 1].entries
      BY <1>2, <2>2, <2>3, <3>2
    <3>4. QED
      BY <3>2, <3>3 DEF ToRead
  <2>10. Whole(stack)'
    BY <2>4, <2>8, <2>9 DEF Whole
  <2>11. Copying'
    BY <2>1 DEF Copying, NoFile
  <2>12. QED
    BY <1>1, <2>5, <2>7, <2>10, <2>11 DEF IInv
<1>5. CASE src[path].kind = "file"
  <2>1. /\ dst' = With(dst, path, Node("file", TRUE, <<>>))
        /\ stack' = rest /\ fd' = [path |-> path, offset |-> 0]
    BY <1>5 DEF copyDirect
  <2>2. /\ DOMAIN dst' = DOMAIN dst \cup {path}
        /\ dst'[path] = Node("file", TRUE, <<>>)
        /\ \A p \in DOMAIN dst : p # path => dst'[p] = dst[p]
    BY <1>3, <2>1
  <2>3. fd' # NoFile /\ fd'.path = path /\ fd'.offset = 0
    BY <2>1 DEF NoFile
  <2>4. Frames(stack)'
    <3>1. \A k \in 1 .. Len(rest) : rest[k].path # path
      BY <1>5 DEF Frames
    <3>2. QED
      BY <2>1, <2>2, <3>1 DEF Frames, Children, Node
  <2>5. Copying'
    <3>1. Len(src[path].data) \in Nat /\ SubSeq(src[path].data, 1, 0) = <<>>
      BY <1>1, SubSeqEmpty DEF Nodes
    <3>2. fd' \in [path : Path, offset : Nat]
      BY <1>1, <2>1
    <3>3. src' = src /\ path \in DOMAIN dst' /\ 0 <= Len(src[path].data)
      BY <2>2, <3>1
    <3>4. dst'[fd'.path] = Node("file", TRUE, SubSeq(src'[fd'.path].data, 1, fd'.offset))
      BY <2>2, <2>3, <3>1, <3>3, Zenon
    <3>5. QED
      BY <1>5, <2>3, <3>2, <3>3, <3>4 DEF Copying
  <2>6. Exact(stack)'
    BY <1>5, <2>1, <2>2, <2>3 DEF Exact, OnStack
  <2>7. \A p \in DOMAIN src : IsPrefix(path, p) => p = path
    BY <1>1, <1>5, Below
  <2>8. Whole(stack)'
    BY <2>1, <2>2, <2>7 DEF Whole, ToRead
  <2>9. QED
    BY <1>1, <2>4, <2>5, <2>6, <2>8 DEF IInv
<1>6. CASE src[path].kind = "special"
  <2>1. stack' = rest /\ dst' = dst /\ fd' = NoFile
    BY <1>6 DEF copyDirect
  <2>2. \A p \in DOMAIN src : IsPrefix(path, p) => p = path
    BY <1>1, <1>6, Below
  <2>3. Whole(stack)'
    BY <1>6, <2>1, <2>2 DEF Whole, ToRead
  <2>4. Frames(stack)' /\ Copying' /\ Exact(stack)'
    BY <2>1 DEF Frames, Children, Node, Copying, Exact, OnStack
  <2>5. QED
    BY <1>1, <2>3, <2>4 DEF IInv
<1>7. QED
  BY <1>1, <1>4, <1>5, <1>6 DEF Nodes

LEMMA RootStep == IInv /\ CpRoot => IInv'
<1>1. SUFFICES ASSUME IInv, CpRoot PROVE IInv'
  OBVIOUS
<1>2. /\ cp_pc = "start" /\ IsTree(src) /\ dst = NoTree /\ stack = <<>> /\ fd = NoFile
      /\ copyDirect(<<>>, <<>>) /\ UNCHANGED <<src, short>>
      /\ Frames(stack) /\ Exact(stack)
  BY <1>1 DEF CpRoot, IInv
<1>3. <<>> \in DOMAIN src /\ Frames(<<>>) /\ Exact(<<>>)
  BY <1>2 DEF IsTree
<1>4. \A p \in DOMAIN src : IsPrefix(<<>>, p)
  BY <1>2, RootAbove
<1>5. QED
  BY <1>2, <1>3, <1>4, CopyDirectStep

(* The next entry of the directory that is being read.                     *)
LEMMA EntryStep == IInv /\ CpEntry => IInv'
<1>1. SUFFICES ASSUME IInv, CpEntry PROVE IInv'
  OBVIOUS
<1>2. /\ Busy /\ cp_pc = "copy" /\ fd = NoFile /\ stack # <<>> /\ UNCHANGED <<src, short>>
      /\ IsTree(src) /\ Frames(stack) /\ Exact(stack) /\ Whole(stack)
  BY <1>1 DEF CpEntry, Busy, IInv
<1> DEFINE g(path) == [Top EXCEPT !.entries = @ \ {path}]
<1>3. PICK path \in Top.entries : copyDirect(path, Append(Front(stack), g(path)))
  BY <1>1 DEF CpEntry
<1> DEFINE n == Len(stack)
           rest == Append(Front(stack), g(path))
<1>4. /\ n \in Nat \ {0} /\ Top \in Frame /\ Top = stack[n]
      /\ Front(stack) \in Seq(Frame) /\ Len(Front(stack)) = n - 1
      /\ \A k \in 1 .. n - 1 : Front(stack)[k] = stack[k]
  BY <1>2, Popped DEF Frames, Top
<1>5. /\ g(path) \in Frame /\ g(path).path = Top.path
      /\ g(path).entries = Top.entries \ {path}
  BY <1>4 DEF Frame
<1>6. copyDirect(path, rest)
  BY <1>3
<1> HIDE DEF g
<1>7. /\ rest \in Seq(Frame) /\ Len(rest) = n
      /\ \A k \in 1 .. n - 1 : rest[k] = stack[k]
      /\ rest[n] = g(path)
  BY <1>4, <1>5, Pushed
<1> HIDE DEF n, rest
<1>8. /\ n \in 1 .. n /\ Len(stack) = n /\ \A k \in 1 .. n : k \in 1 .. n - 1 \/ k = n
  BY <1>4 DEF n
<1>9. /\ \A k \in 1 .. n : rest[k].path = stack[k].path /\ rest[k].entries \subseteq stack[k].entries
      /\ \A k \in 1 .. n : \A e \in stack[k].entries :
           e = path \/ e \in rest[k].entries
  BY <1>4, <1>5, <1>7, <1>8
<1>10. /\ Top.path \in Path /\ path \in Children(Top.path) /\ Len(Top.path) = n - 1
  BY <1>2, <1>4, <1>8 DEF Frames, Frame
<1>11. path \in DOMAIN src /\ Len(path) = Len(rest)
  BY <1>2, <1>4, <1>7, <1>10, ChildOf
<1>12. Frames(rest)
  BY <1>2, <1>7, <1>8, <1>9 DEF Frames
<1>13. Exact(rest)
  BY <1>2, <1>7, <1>8, <1>9 DEF Exact, OnStack
<1>14. \A p \in DOMAIN src : src[p].kind # "special" =>
         p \in DOMAIN dst \/ IsPrefix(path, p) \/ ToRead(rest, p)
  <2>1. \A p : ToRead(stack, p) => IsPrefix(path, p) \/ ToRead(rest, p)
    BY <1>7, <1>8, <1>9 DEF ToRead
  <2>2. QED
    BY <1>2, <2>1 DEF Whole
<1>15. QED
  BY <1>2, <1>6, <1>11, <1>12, <1>13, <1>14, CopyDirectStep

(* A change of the node at q alone.                                        *)
LEMMA Altered ==
  ASSUME NEW q \in DOMAIN dst, NEW node, dst' = [dst EXCEPT ![q] = node]
  PROVE  /\ DOMAIN dst' = DOMAIN dst /\ dst'[q] = node
         /\ \A p \in DOMAIN dst : p # q => dst'[p] = dst[p]
OBVIOUS

(* The directory is done: the calls that wait are of those above it.       *)
LEMMA LeaveStep == IInv /\ CpLeave => IInv'
<1>1. SUFFICES ASSUME IInv, CpLeave PROVE IInv'
  OBVIOUS
<1>2. /\ cp_pc = "copy" /\ fd = NoFile /\ stack # <<>> /\ UNCHANGED <<src, fd, short, cp_pc>>
      /\ IsTree(src) /\ Frames(stack) /\ Exact(stack) /\ Whole(stack) /\ Top.entries = {}
      /\ stack' = Front(stack)
      /\ dst' = [dst EXCEPT ![Top.path].writable = src[Top.path].writable]
  BY <1>1 DEF CpLeave, Busy, IInv, NoMore
<1> DEFINE n == Len(stack)
           q == Top.path
<1>3. /\ n \in Nat \ {0} /\ Top \in Frame /\ Top = stack[n]
      /\ stack' \in Seq(Frame) /\ Len(stack') = n - 1
      /\ \A k \in 1 .. n - 1 : stack'[k] = stack[k]
  BY <1>2, Popped DEF Frames, Top
<1>4. /\ n \in 1 .. n /\ \A k \in 1 .. n : k \in 1 .. n - 1 \/ k = n
      /\ 1 .. n - 1 \subseteq 1 .. n
  BY <1>3
<1>5. /\ q \in DOMAIN src /\ src[q].kind = "dir" /\ q \in DOMAIN dst /\ Len(q) = n - 1
      /\ dst[q] = Node("dir", TRUE, <<>>)
  BY <1>2, <1>3, <1>4 DEF Frames
<1>6. src[q] \in Nodes /\ src[q].data = <<>>
  BY <1>2, <1>5 DEF IsTree
<1>7. dst' = [dst EXCEPT ![q] = src[q]]
  <2>1. [dst[q] EXCEPT !.writable = src[q].writable] = src[q]
    BY <1>5, <1>6 DEF Node, Nodes
  <2>2. QED
    BY <1>2, <2>1
<1>8. /\ DOMAIN dst' = DOMAIN dst /\ dst'[q] = src[q]
      /\ \A p \in DOMAIN dst : p # q => dst'[p] = dst[p]
  BY <1>5, <1>7, Altered
<1>9. \A k \in 1 .. n - 1 : stack'[k] = stack[k] /\ stack[k].path # q
  <2>1. \A k \in 1 .. n : Len(stack[k].path) = k - 1
    BY <1>2 DEF Frames
  <2> HIDE DEF n, q
  <2>2. SUFFICES ASSUME NEW k \in 1 .. n - 1 PROVE stack[k].path # q
    BY <1>3
  <2>3. Len(stack[k].path) = k - 1 /\ k - 1 # n - 1
    BY <1>3, <1>4, <2>1
  <2>4. QED
    BY <1>5, <2>3
<1> HIDE DEF q
<1>10. Frames(stack)'
  BY <1>2, <1>3, <1>4, <1>8, <1>9 DEF Frames, Children, Node
<1>11. \A p : OnStack(stack, p) => p = q \/ OnStack(stack, p)'
  BY <1>3, <1>4 DEF OnStack, q
<1>12. Exact(stack)'
  BY <1>2, <1>8, <1>11 DEF Exact
<1>13. \A p : ToRead(stack, p) => ToRead(stack, p)'
  BY <1>2, <1>3, <1>4 DEF ToRead
<1>14. Whole(stack)'
  BY <1>2, <1>8, <1>13 DEF Whole
<1>15. Copying'
  BY <1>2 DEF Copying, NoFile
<1>16. IsTree(src)'
  BY <1>2
<1>17. QED
  BY <1>2, <1>10, <1>12, <1>14, <1>15, <1>16 DEF IInv
-----------------------------------------------------------------------------
(* A file that is being copied is no directory of the stack, and what is   *)
(* done to it changes no other node.                                       *)
LEMMA FileStep ==
  ASSUME IInv, fd # NoFile, cp_pc = "copy", NEW node,
         dst' = [dst EXCEPT ![fd.path] = node], UNCHANGED <<src, stack, cp_pc>>,
         short => short', Copying',
         \/ fd' # NoFile /\ fd'.path = fd.path
         \/ ~short' => node = src[fd.path]
  PROVE  IInv'
<1> DEFINE q == fd.path
<1>1. /\ q \in DOMAIN src /\ src[q].kind = "file" /\ q \in DOMAIN dst
      /\ IsTree(src) /\ Frames(stack) /\ Exact(stack) /\ Whole(stack)
  BY DEF IInv, Copying
<1>2. /\ DOMAIN dst' = DOMAIN dst /\ dst'[q] = node
      /\ \A p \in DOMAIN dst : p # q => dst'[p] = dst[p]
  BY <1>1, Altered
<1>3. \A k \in 1 .. Len(stack) : stack[k].path # q
  BY <1>1 DEF Frames
<1>4. Frames(stack)'
  BY <1>1, <1>2, <1>3 DEF Frames, Children, Node
<1>5. Exact(stack)'
  BY <1>1, <1>2 DEF Exact, OnStack
<1>6. Whole(stack)' /\ IsTree(src)'
  BY <1>1, <1>2 DEF Whole, ToRead
<1>7. QED
  BY <1>4, <1>5, <1>6 DEF IInv

(* Where the block that is read ends.                                      *)
Until(path, offset) ==
  IF offset + BlockSize < Len(src[path].data) THEN offset + BlockSize
                                              ELSE Len(src[path].data)

LEMMA BlockMeans ==
  ASSUME IInv, fd # NoFile
  PROVE  LET data == src[fd.path].data
             block == Block(fd.path, fd.offset)
             end == Until(fd.path, fd.offset)
         IN /\ data \in Seq(Nat) /\ fd.offset \in Nat /\ end \in Nat
            /\ fd.offset <= end /\ end <= Len(data) /\ Len(data) \in Nat
            /\ block \in Seq(Nat) /\ block = SubSeq(data, fd.offset + 1, end)
            /\ Len(block) = end - fd.offset
            /\ end = fd.offset => end = Len(data)
<1> DEFINE data == src[fd.path].data
           o == fd.offset
           end == Until(fd.path, fd.offset)
<1>1. data \in Seq(Nat) /\ o \in Nat /\ o <= Len(data) /\ Len(data) \in Nat
  BY DEF IInv, Copying, IsTree, Nodes, NoFile
<1>2. BlockSize \in Nat \ {0}
  BY CopyTreeAssumption
<1>3. /\ end \in Nat /\ o <= end /\ end <= Len(data)
      /\ end = o => end = Len(data)
  BY <1>1, <1>2 DEF Until
<1>4. Block(fd.path, fd.offset) = SubSeq(data, o + 1, end)
  BY DEF Block, Until
<1> HIDE DEF data, o, end
<1>5. SubSeq(data, o + 1, end) \in Seq(Nat) /\ Len(SubSeq(data, o + 1, end)) = end - o
  <2>1. \A i \in o + 1 .. end : data[i] \in Nat
    BY <1>1, <1>3
  <2>2. o + 1 \in Int /\ end \in Int
    BY <1>1, <1>3
  <2> DEFINE b == SubSeq(data, o + 1, end)
  <2>3. b \in Seq(Nat) /\ Len(b) = IF o + 1 <= end THEN end - (o + 1) + 1 ELSE 0
    BY <2>1, <2>2, SubSeqProperties
  <2> HIDE DEF b
  <2>4. b \in Seq(Nat) /\ Len(b) = end - o
    BY <1>1, <1>3, <2>3
  <2>5. QED
    BY <2>4 DEF b
<1>6. QED
  BY <1>1, <1>3, <1>4, <1>5 DEF data, o, end

LEMMA NodeData ==
  ASSUME NEW a \in Seq(Nat), NEW b \in Seq(Nat), NEW r, r = Node("file", TRUE, a)
  PROVE  r.data = a /\ [r EXCEPT !.data = b] = Node("file", TRUE, b)
<1>1. r \in Nodes /\ r.kind = "file" /\ r.writable = TRUE /\ r.data = a
  BY DEF Node, Nodes
<1> DEFINE s == [r EXCEPT !.data = b]
<1>2. s \in Nodes /\ s.kind = "file" /\ s.writable = TRUE /\ s.data = b
  BY <1>1 DEF Nodes
<1> HIDE DEF s
<1>3. s = Node("file", TRUE, b)
  BY <1>2 DEF Node, Nodes
<1>4. QED
  BY <1>1, <1>3 DEF s

(* What was read, and the next block of it.                                *)
LEMMA ReadSoFar ==
  ASSUME NEW data \in Seq(Nat), NEW o \in Nat, NEW end \in Nat, o <= end, end <= Len(data)
  PROVE  /\ SubSeq(data, 1, o) \o SubSeq(data, o + 1, end) = SubSeq(data, 1, end)
         /\ SubSeq(data, 1, o) \in Seq(Nat) /\ SubSeq(data, 1, end) \in Seq(Nat)
<1>1. 1 \in 1 .. Len(data) + 1 /\ o \in 1 - 1 .. Len(data) /\ end \in o .. Len(data)
  OBVIOUS
<1>2. SubSeq(data, 1, o) \o SubSeq(data, o + 1, end) = SubSeq(data, 1, end)
  BY <1>1, ConcatAdjacentSubSeq
<1>3. /\ 1 \in Int /\ o \in Int /\ end \in Int
      /\ \A i \in 1 .. end : data[i] \in Nat
      /\ \A i \in 1 .. o : data[i] \in Nat
  BY <1>1
<1>4. SubSeq(data, 1, o) \in Seq(Nat) /\ SubSeq(data, 1, end) \in Seq(Nat)
  BY <1>3, SubSeqProperties
<1>5. QED
  BY <1>2, <1>4

LEMMA BlockStep == IInv /\ CpBlock => IInv'
<1>1. SUFFICES ASSUME IInv, CpBlock PROVE IInv'
  OBVIOUS
<1> DEFINE q == fd.path
           o == fd.offset
           data == src[q].data
           block == Block(q, o)
           end == Until(q, o)
<1>2. /\ cp_pc = "copy" /\ fd # NoFile /\ UNCHANGED <<src, stack, cp_pc>>
      /\ fd' = [fd EXCEPT !.offset = @ + Len(block)]
      /\ fd \in [path : Path, offset : Nat] /\ q \in DOMAIN src /\ src[q].kind = "file"
      /\ q \in DOMAIN dst
      /\ ~short => dst[q] = Node("file", TRUE, SubSeq(data, 1, o))
  BY <1>1 DEF CpBlock, IInv, Copying
<1>3. PICK n \in (IF ShortWrites THEN 0 ELSE Len(block)) .. Len(block) :
        /\ dst' = [dst EXCEPT ![q].data = @ \o SubSeq(block, 1, n)]
        /\ short' = (short \/ n < Len(block))
  BY <1>1 DEF CpBlock
<1>4. /\ data \in Seq(Nat) /\ o \in Nat /\ end \in Nat /\ o <= end /\ end <= Len(data)
      /\ Len(data) \in Nat /\ block \in Seq(Nat) /\ block = SubSeq(data, o + 1, end)
      /\ Len(block) = end - o
  BY <1>1, <1>2, BlockMeans
<1> DEFINE node == [dst[q] EXCEPT !.data = @ \o SubSeq(block, 1, n)]
<1>5. dst' = [dst EXCEPT ![q] = node]
  BY <1>3
<1>6. fd' \in [path : Path, offset : Nat] /\ fd'.path = q /\ fd'.offset = end /\ fd' # NoFile
  <2>1. o + Len(block) = end
    BY <1>4
  <2>2. fd' = [fd EXCEPT !.offset = end]
    BY <1>2, <2>1
  <2> HIDE DEF end
  <2>3. fd' \in [path : Path, offset : Nat] /\ fd'.path = q /\ fd'.offset = end
    BY <1>2, <1>4, <2>2
  <2>4. QED
    BY <1>4, <2>3 DEF NoFile
<1>7. ASSUME ~short' PROVE node = Node("file", TRUE, SubSeq(data, 1, end))
  <2>1. ~short /\ n = Len(block)
    <3>1. ~short /\ ~(n < Len(block))
      BY <1>3, <1>7, Zenon
    <3>2. Len(block) \in Nat /\ (IF ShortWrites THEN 0 ELSE Len(block)) \in Nat
      BY <1>4
    <3> HIDE DEF block
    <3>3. n \in Int /\ n <= Len(block)
      BY <3>2
    <3>4. QED
      BY <3>1, <3>2, <3>3
  <2>2. SubSeq(block, 1, n) = block
    BY <1>4, <2>1, SubSeqFull
  <2>3. SubSeq(data, 1, o) \o SubSeq(data, o + 1, end) = SubSeq(data, 1, end)
    <3> HIDE DEF o, data, end
    <3>1. QED
      BY <1>4, ReadSoFar
  <2>4. dst[q] = Node("file", TRUE, SubSeq(data, 1, o))
    BY <1>2, <2>1
  <2>5. SubSeq(data, 1, o) \o SubSeq(block, 1, n) = SubSeq(data, 1, end)
    BY <1>4, <2>2, <2>3, Zenon
  <2> HIDE DEF q, o, data, block, end
  <2>6. SubSeq(data, 1, o) \in Seq(Nat) /\ SubSeq(data, 1, end) \in Seq(Nat)
    BY <1>4, ReadSoFar
  <2>7. /\ dst[q].data = SubSeq(data, 1, o)
        /\ [dst[q] EXCEPT !.data = SubSeq(data, 1, end)]
             = Node("file", TRUE, SubSeq(data, 1, end))
    BY ZenonT(60), <2>4, <2>6, NodeData
  <2>8. node = [dst[q] EXCEPT !.data = SubSeq(data, 1, end)]
    BY <2>5, <2>7, Zenon
  <2>9. QED
    BY <2>7, <2>8, Zenon
<1>8. DOMAIN dst' = DOMAIN dst /\ dst'[q] = node
  BY <1>2, <1>5, Altered
<1> HIDE DEF node
<1>9. Copying'
  <2>1. fd'.path \in DOMAIN src' /\ src'[fd'.path].kind = "file" /\ fd'.path \in DOMAIN dst'
    BY <1>2, <1>6, <1>8
  <2>2. fd'.offset <= Len(src'[fd'.path].data)
    BY <1>2, <1>4, <1>6
  <2>3. ~short' => dst'[fd'.path]
                     = Node("file", TRUE, SubSeq(src'[fd'.path].data, 1, fd'.offset))
    BY <1>2, <1>6, <1>7, <1>8, Zenon
  <2>4. QED
    BY <1>6, <2>1, <2>2, <2>3 DEF Copying, NoFile, Node
<1>10. QED
  BY <1>1, <1>2, <1>3, <1>5, <1>6, <1>9, FileStep

LEMMA CloseStep == IInv /\ CpClose => IInv'
<1>1. SUFFICES ASSUME IInv, CpClose PROVE IInv'
  OBVIOUS
<1> DEFINE q == fd.path
           data == src[q].data
           block == Block(q, fd.offset)
           end == Until(q, fd.offset)
<1>2. /\ cp_pc = "copy" /\ fd # NoFile /\ UNCHANGED <<src, stack, short, cp_pc>>
      /\ block = <<>> /\ fd' = NoFile
      /\ dst' = [dst EXCEPT ![q].writable = src[q].writable]
      /\ q \in DOMAIN src /\ src[q].kind = "file" /\ src[q] \in Nodes
      /\ ~short => dst[q] = Node("file", TRUE, SubSeq(data, 1, fd.offset))
  BY <1>1 DEF CpClose, LastBlock, IInv, Copying, IsTree
<1>3. /\ data \in Seq(Nat) /\ Len(block) = end - fd.offset
      /\ fd.offset \in Nat /\ end \in Nat
      /\ end = fd.offset => end = Len(data)
  BY <1>1, <1>2, BlockMeans
<1>4. fd.offset = Len(data)
  BY <1>2, <1>3, EmptySeq
<1> DEFINE node == [dst[q] EXCEPT !.writable = src[q].writable]
<1>5. dst' = [dst EXCEPT ![q] = node]
  BY <1>2
<1>6. ASSUME ~short' PROVE node = src[q]
  <2>1. SubSeq(data, 1, fd.offset) = data
    BY <1>3, <1>4, SubSeqFull
  <2>2. dst[q] = Node("file", TRUE, data)
    BY <1>2, <1>6, <2>1
  <2>3. QED
    BY <1>2, <2>2 DEF Node, Nodes
<1>7. Copying'
  BY <1>2 DEF Copying, NoFile
<1> HIDE DEF node
<1>8. QED
  BY <1>1, <1>2, <1>5, <1>6, <1>7, FileStep

LEMMA StopStep == IInv /\ (CpExit \/ CpFail) => IInv'
<1>1. SUFFICES ASSUME IInv, CpExit \/ CpFail PROVE IInv'
  OBVIOUS
<1>2. UNCHANGED <<src, dst, stack, fd, short>>
  BY <1>1 DEF CpExit, CpFail
<1>3. /\ cp_pc # "idle" /\ cp_pc' \in {"done", "failed"}
      /\ cp_pc' = "done" => cp_pc = "copy" /\ stack = <<>> /\ fd = NoFile
  BY <1>1 DEF CpExit, CpFail
<1>4. IsTree(src)' /\ Frames(stack)' /\ Copying' /\ Exact(stack)'
  BY <1>1, <1>2, <1>3 DEF IInv, Frames, Children, Node, Copying, Exact, OnStack
<1>5. cp_pc' = "done" => Whole(stack)'
  BY <1>1, <1>2, <1>3 DEF IInv, Whole, ToRead
<1>6. QED
  BY <1>2, <1>3, <1>4, <1>5 DEF IInv

LEMMA StutterStep == IInv /\ UNCHANGED cp_vars => IInv'
<1>1. SUFFICES ASSUME IInv, UNCHANGED cp_vars PROVE IInv'
  OBVIOUS
<1>2. UNCHANGED <<src, dst, stack, fd, short, cp_pc>>
  BY <1>1 DEF cp_vars
<1>3. Frames(stack)' /\ Copying' /\ Exact(stack)' /\ (Whole(stack) => Whole(stack)')
  BY <1>1, <1>2 DEF IInv, Frames, Children, Node, Copying, Exact, OnStack, Whole, ToRead
<1>4. IsTree(src) => IsTree(src)'
  BY <1>2
<1>5. QED
  BY <1>1, <1>2, <1>3, <1>4 DEF IInv
-----------------------------------------------------------------------------
(* The calls that wait are of the directories from the root down, none of  *)
(* which has its mode yet; and all that is not there yet is below an entry *)
(* that one of them has still to read.                                     *)
THEOREM CopyInvariance == CpSpec => []IInv
<1>1. IInv /\ [CpNext]_cp_vars => IInv'
  BY StartStep, RootStep, EntryStep, LeaveStep, BlockStep, CloseStep, StopStep, StutterStep
     DEF CpNext, CpStep
<1>2. QED
  BY InitInv, <1>1, PTL DEF CpSpec

(* Directories whose owner may not write to them can be copied.            *)
THEOREM CpNotDeniedHolds == CpSpec => []CpNotDenied
<1>1. IInv => CpNotDenied
  <2>1. SUFFICES ASSUME IInv, Busy, NEW path \in Top.entries PROVE MayCreate(path)
    BY DEF CpNotDenied
  <2>2. IsTree(src) /\ Frames(stack) /\ stack # <<>>
    BY <2>1 DEF IInv, Busy
  <2>3. Len(stack) \in 1 .. Len(stack) /\ Top \in Frame /\ Top = stack[Len(stack)]
    BY <2>2, Popped DEF Frames, Top
  <2>4. Top.path \in Path /\ path \in Children(Top.path)
        /\ dst[Top.path] = Node("dir", TRUE, <<>>)
    BY <2>1, <2>2, <2>3 DEF Frames, Frame
  <2>5. Front(path) = Top.path
    BY <2>2, <2>4, ChildOf
  <2>6. QED
    BY <2>4, <2>5 DEF MayCreate, Node
<1>2. QED
  BY CopyInvariance, <1>1, PTL

(* However the entries come, and wherever a call fails, what is there is   *)
(* like the source but for what is being copied; and all of it is there    *)
(* when cpr says so.                                                       *)
THEOREM CpMirrorsHolds == CpSpec => []CpMirrors
<1>1. IInv => CpMirrors
  <2>1. SUFFICES ASSUME IInv, ~short
                 PROVE /\ \A p \in DOMAIN dst : dst[p] = src[p] \/ InProgress(p)
                       /\ cp_pc = "done" =>
                            DOMAIN dst = {p \in DOMAIN src : src[p].kind # "special"}
    BY DEF CpMirrors
  <2>2. \A p \in DOMAIN dst : dst[p] = src[p] \/ InProgress(p)
    BY <2>1, LenProperties DEF IInv, Exact, OnStack, InProgress, Frames
  <2>3. ASSUME cp_pc = "done"
        PROVE  DOMAIN dst = {p \in DOMAIN src : src[p].kind # "special"}
    <3>1. Whole(<<>>) /\ Exact(<<>>)
      BY <2>1, <2>3 DEF IInv
    <3>2. \A p : ~ToRead(<<>>, p)
      BY DEF ToRead
    <3>3. QED
      BY <3>1, <3>2 DEF Whole, Exact
  <2>4. QED
    BY <2>2, <2>3
<1>2. QED
  BY CopyInvariance, <1>1, PTL
=============================================================================
