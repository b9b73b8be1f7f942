--------------------------- MODULE ExchangeProofs ---------------------------
(***************************************************************************)
(* The Rio package carries a stream of bytes, for any sizes of its buffer, *)
(* of lines and of sockets, any files, and clients that die at any moment. *)
(*                                                                         *)
(* From the stream follows what the programs know of each other: what each *)
(* end has yet to read is the rest of what the other one says (Talk).  So  *)
(* the client's assertions hold, no request is left unread, and only a     *)
(* long line overruns a buffer.                                            *)
(***************************************************************************)
EXTENDS Exchange, ListLemmas, SequenceTheorems, TLAPS

Octets == Seq(Byte)

Carried ==
  /\ wire \in [End -> Octets]
  /\ open \in [End -> BOOLEAN]
  /\ rio_buf \in [End -> Octets]
  /\ out \in [End -> Octets]

(* A closed end holds nothing; and where a program has a connection.       *)
Quiet == \A e \in End : ~open[e] => rio_buf[e] = <<>> /\ wire[e] = <<>> /\ out[e] = <<>>

Inside == [client |-> {"send", "status", "headers", "body", "check"},
           server |-> {"request", "headers", "respond", "reply"}]

Label == {"connect", "send", "status", "headers", "body", "check", "done", "abort",
          "exit", "smashed", "dead", "accept", "request", "respond", "reply"}

Connected ==
  /\ pc \in [End -> Label]
  /\ \A e \in End : open[e] <=> pc[e] \in Inside[e]

Named == name \in Name /\ asked \in Octets

IInv == Carried /\ Quiet /\ Connected /\ Named

P == [e \in End |-> Pending(e)]
-----------------------------------------------------------------------------
LEMMA Ends == \A e \in End : Peer(e) \in End /\ Peer(e) # e /\ Peer(Peer(e)) = e
BY DEF End, Peer

LEMMA Split ==
  ASSUME NEW s \in Octets, NEW n \in 1 .. Len(s)
  PROVE  /\ First(s, n) \in Octets /\ Rest(s, n) \in Octets
         /\ First(s, n) \o Rest(s, n) = s
<1>1. Len(s) \in Nat /\ \A i \in 1 .. Len(s) : s[i] \in Byte
  BY ElementOfSeq, LenProperties DEF Octets
<1>2. First(s, n) \in Octets
  BY <1>1, SubSeqProperties DEF First, Octets
<1>3. Rest(s, n) \in Octets
  BY <1>1, SubSeqProperties DEF Rest, Octets
<1>4. First(s, n) \o Rest(s, n) = SubSeq(s, 1, Len(s))
  BY <1>1, ConcatAdjacentSubSeq DEF First, Rest, Octets
<1>5. QED
  BY <1>2, <1>3, <1>4, SubSeqFull DEF Octets

LEMMA Join ==
  ASSUME NEW a \in Octets, NEW b \in Octets
  PROVE  /\ a \o b \in Octets
         /\ a \o <<>> = a /\ <<>> \o a = a
         /\ \A c \in Octets : (a \o b) \o c = a \o (b \o c)
         /\ IsPrefix(a, a \o b)
<1>1. /\ a \o b \in Octets
      /\ a \o <<>> = a /\ <<>> \o a = a
      /\ \A c \in Octets : (a \o b) \o c = a \o (b \o c)
  BY ConcatProperties, ConcatEmptySeq, ConcatAssociative DEF Octets
<1>2. Len(a) \in Nat /\ Len(b) \in Nat /\ Len(a \o b) = Len(a) + Len(b)
  BY ConcatProperties, LenProperties DEF Octets
<1>3. SubSeq(a, 1, Len(a)) = SubSeq(a \o b, 1, Len(a))
  <2>1. CASE Len(a) = 0
    BY <1>2, <2>1, SubSeqEmpty
  <2>2. CASE Len(a) # 0
    BY <1>2, <2>2, SubSeqOfConcat1 DEF Octets
  <2>3. QED
    BY <2>1, <2>2
<1>4. QED
  BY <1>1, <1>2, <1>3 DEF IsPrefix

LEMMA Associative ==
  \A a, b, c \in Octets : (a \o b) \o c = a \o (b \o c)
BY ConcatAssociative DEF Octets

(* The next byte leaves the front of what is pending.                      *)
LEMMA Front1 ==
  ASSUME NEW a \in Octets, NEW b \in Octets, a # <<>>
  PROVE  /\ Tail(a) \in Octets /\ a \o b # <<>>
         /\ Tail(a) \o b = Tail(a \o b) /\ Head(a) = Head(a \o b)
<1>1. /\ Tail(a) \in Octets
      /\ Len(Tail(a)) = Len(a) - 1 /\ \A i \in 1 .. Len(a) - 1 : Tail(a)[i] = a[i + 1]
  BY HeadTailProperties DEF Octets
<1>2. /\ Len(a) \in Nat \ {0} /\ Len(b) \in Nat
      /\ a \o b \in Octets /\ Len(a \o b) = Len(a) + Len(b)
      /\ \A i \in 1 .. Len(a) + Len(b) :
           (a \o b)[i] = IF i <= Len(a) THEN a[i] ELSE b[i - Len(a)]
  BY ConcatProperties, LenProperties, EmptySeq DEF Octets
<1>3. a \o b # <<>>
  BY <1>2, EmptySeq DEF Octets
<1>4. /\ Tail(a \o b) \in Octets /\ Len(Tail(a \o b)) = Len(a) + Len(b) - 1
      /\ \A i \in 1 .. Len(a) + Len(b) - 1 : Tail(a \o b)[i] = (a \o b)[i + 1]
  BY <1>2, <1>3, HeadTailProperties DEF Octets
<1>5. /\ Tail(a) \o b \in Octets /\ Len(Tail(a) \o b) = Len(a) - 1 + Len(b)
      /\ \A i \in 1 .. Len(a) - 1 + Len(b) :
           (Tail(a) \o b)[i] = IF i <= Len(a) - 1 THEN Tail(a)[i] ELSE b[i - (Len(a) - 1)]
  BY <1>1, ConcatProperties DEF Octets
<1>6. \A i \in 1 .. Len(a) - 1 + Len(b) : (Tail(a) \o b)[i] = Tail(a \o b)[i]
  BY <1>1, <1>2, <1>4, <1>5
<1>7. Tail(a) \o b = Tail(a \o b)
  BY <1>2, <1>4, <1>5, <1>6, SeqEqual DEF Octets
<1>8. Head(a) = Head(a \o b)
  BY <1>2
<1>9. QED
  BY <1>1, <1>3, <1>7, <1>8

(* A checksum is a number, and that of two pieces the sum of theirs.       *)
LEMMA SumIsTotal ==
  ASSUME NEW s \in Octets
  PROVE  /\ Sum(s) \in Nat
         /\ \E t \in [0 .. Len(s) -> Nat] : Totals(s, Len(s), t) /\ Sum(s) = t[Len(s)]
<1> DEFINE n == Len(s)
           total == CHOOSE f : f = [i \in 0 .. n |-> IF i = 0 THEN 0 ELSE f[i - 1] + s[i]]
<1>1. n \in Nat /\ \A i \in 1 .. n : s[i] \in Nat
  BY ElementOfSeq, LenProperties DEF Octets, Byte
<1>2. Sum(s) = total[n]
  BY DEF Sum
<1> HIDE DEF n
<1>3. PICK t \in [0 .. n -> Nat] : Totals(s, n, t)
  BY <1>1, TotalsExist
<1>4. t = [i \in 0 .. n |-> IF i = 0 THEN 0 ELSE t[i - 1] + s[i]]
  BY <1>1, <1>3 DEF Totals
<1>5. total = [i \in 0 .. n |-> IF i = 0 THEN 0 ELSE total[i - 1] + s[i]]
  BY <1>4, Zenon
<1> HIDE DEF total
<1>6. Totals(s, n, total)
  <2>1. total[0] = 0
    BY <1>1, <1>5
  <2>2. \A i \in 1 .. n : total[i] = total[i - 1] + s[i]
    BY <1>1, <1>5
  <2>3. QED
    BY <2>1, <2>2 DEF Totals
<1>7. t[n] = total[n] /\ t[n] \in Nat
  BY <1>1, <1>3, <1>6, TotalsUnique
<1>8. QED
  BY <1>2, <1>3, <1>7 DEF n

LEMMA SumOfNone == Sum(<<>>) = 0
<1>1. <<>> \in Octets /\ Len(<<>>) = 0
  BY EmptySeq DEF Octets
<1>2. QED
  BY <1>1, SumIsTotal DEF Totals

LEMMA SumOfTwo ==
  ASSUME NEW s \in Octets, NEW r \in Octets
  PROVE  Sum(s \o r) = Sum(s) + Sum(r)
<1> DEFINE m == Len(s)
           n == Len(r)
           c == s \o r
<1>1. /\ c \in Octets /\ Len(c) = m + n
      /\ \A i \in 1 .. m + n : c[i] = IF i <= m THEN s[i] ELSE r[i - m]
  BY ConcatProperties DEF Octets
<1>2. m \in Nat /\ n \in Nat
  BY LenProperties DEF Octets
<1>3. PICK a \in [0 .. m -> Nat] : Totals(s, m, a) /\ Sum(s) = a[m]
  BY SumIsTotal
<1>4. PICK b \in [0 .. n -> Nat] : Totals(r, n, b) /\ Sum(r) = b[n]
  BY SumIsTotal
<1>5. PICK t \in [0 .. Len(c) -> Nat] : Totals(c, Len(c), t) /\ Sum(c) = t[Len(c)]
  BY <1>1, SumIsTotal
<1> HIDE DEF m, n, c
<1> DEFINE u == [i \in 0 .. m + n |-> IF i <= m THEN a[i] ELSE a[m] + b[i - m]]
<1>6. u[0] = 0
  BY <1>2, <1>3 DEF Totals
<1>7. ASSUME NEW i \in 1 .. m + n PROVE u[i] = u[i - 1] + c[i]
  <2>1. CASE i <= m
    <3>1. i \in 1 .. m /\ i \in 0 .. m + n /\ i - 1 \in 0 .. m + n /\ i - 1 <= m
      BY <1>2, <2>1
    <3>2. a[i] = a[i - 1] + s[i]
      BY <1>3, <3>1 DEF Totals
    <3>3. u[i] = a[i] /\ u[i - 1] = a[i - 1] /\ c[i] = s[i]
      BY <1>1, <2>1, <3>1
    <3>4. QED
      BY <3>2, <3>3
  <2>2. CASE i = m + 1
    <3>1. b[1] = b[0] + r[1] /\ b[0] = 0 /\ c[i] = r[1]
      <4>1. 1 \in 1 .. n /\ 1 - 1 = 0
        BY <1>2, <2>2
      <4>2. b[1] = b[0] + r[1] /\ b[0] = 0
        BY <1>4, <4>1 DEF Totals
      <4>3. c[i] = r[i - m] /\ i - m = 1
        BY <1>1, <1>2, <2>2
      <4>4. QED
        BY <4>2, <4>3
    <3>2. u[i] = a[m] + b[1] /\ u[i - 1] = a[m]
      BY <1>2, <2>2
    <3>3. b[1] \in Nat /\ a[m] \in Nat
      BY <1>2, <2>2
    <3>4. b[1] = c[i]
      <4>1. b[1] - b[0] = b[1]
        BY <3>1, <3>3
      <4>2. r[1] \in Nat
        <5>1. 1 \in 1 .. Len(r)
          BY <1>2, <2>2 DEF n
        <5>2. QED
          BY <5>1, ElementOfSeq DEF Octets, Byte
      <4>3. QED
        BY <3>1, <4>2
    <3>5. QED
      BY <3>2, <3>4
  <2>3. CASE i > m + 1
    <3>1. /\ i - m \in 1 .. n /\ (i - m) - 1 \in 0 .. n /\ (i - 1) - m = (i - m) - 1
          /\ i - 1 \in 0 .. m + n /\ i \in 0 .. m + n /\ ~(i <= m) /\ ~(i - 1 <= m)
      BY <1>2, <2>3
    <3>2. b[i - m] = b[(i - m) - 1] + r[i - m] /\ c[i] = r[i - m]
      BY <1>1, <1>4, <3>1 DEF Totals
    <3>3. u[i] = a[m] + b[i - m] /\ u[i - 1] = a[m] + b[(i - m) - 1]
      BY <3>1
    <3>4. a[m] \in Nat /\ b[i - m] \in Nat /\ b[(i - m) - 1] \in Nat /\ r[i - m] \in Nat
      <4>1. i - m \in 1 .. Len(r)
        BY <3>1 DEF n
      <4>2. r[i - m] \in Nat
        BY <4>1, ElementOfSeq DEF Octets, Byte
      <4>3. QED
        BY <1>2, <3>1, <4>2
    <3>5. QED
      BY <3>2, <3>3, <3>4
  <2>4. QED
    BY <1>2, <2>1, <2>2, <2>3
<1>8. Totals(c, m + n, u) /\ u[m + n] = Sum(s) + Sum(r)
  <2>1. Totals(c, m + n, u)
    BY <1>6, <1>7 DEF Totals
  <2>2. CASE n = 0
    <3>1. u[m + n] = a[m] /\ b[n] = 0 /\ a[m] \in Nat
      BY <1>2, <1>4, <2>2 DEF Totals
    <3>2. QED
      BY <1>3, <1>4, <2>1, <3>1
  <2>3. CASE n # 0
    <3>1. m + n \in 0 .. m + n /\ ~(m + n <= m) /\ (m + n) - m = n
      BY <1>2, <2>3
    <3>2. u[m + n] = a[m] + b[n]
      BY <3>1
    <3>3. QED
      BY <1>3, <1>4, <2>1, <3>2
  <2>4. QED
    BY <2>2, <2>3
<1> HIDE DEF u
<1>9. m + n \in Nat /\ m + n \in 0 .. m + n
  BY <1>2
<1>10. Totals(c, m + n, t) /\ Sum(c) = t[m + n]
  BY <1>1, <1>5
<1>11. t[m + n] = u[m + n]
  BY <1>8, <1>9, <1>10, TotalsUnique
<1>12. QED
  BY <1>8, <1>10, <1>11 DEF c

(* What is said consists of bytes.                                         *)
LEMMA SaidIsOctets ==
  /\ \A n \in Name : Request(n) \in Octets
  /\ \A body \in Seq(Byte) : Answer(body) \in Octets
  /\ ErrorPage \in Seq(Byte)
<1>1. Name \subseteq Byte /\ {NL, 13, GET, PUT, Host, Status, Length, Csum} \subseteq Byte
  BY ExchangeAssumption DEF Byte, NL, GET, PUT, Host, Status, Length, Csum
<1>2. CRLF \in Octets /\ ErrorPage \in Seq(Byte)
  BY <1>1 DEF CRLF, Octets, ErrorPage, Byte, NL
<1>3. ASSUME NEW n \in Name PROVE Request(n) \in Octets
  <2>1. <<GET, n, NL>> \in Octets /\ <<Host, NL>> \in Octets
    BY <1>1 DEF Octets
  <2>2. QED
    BY <1>2, <2>1, Join DEF Request
<1>4. ASSUME NEW body \in Seq(Byte) PROVE Answer(body) \in Octets
  <2>1. Digit(Len(body)) \in Byte /\ Digit(Sum(body)) \in Byte
    <3>1. Len(body) \in Nat /\ Sum(body) \in Nat
      BY LenProperties, SumIsTotal DEF Octets
    <3>2. QED
      BY <3>1 DEF Digit, Byte
  <2>2. /\ <<Status, NL>> \in Octets /\ <<Length, Digit(Len(body)), NL>> \in Octets
        /\ <<Csum, Digit(Sum(body)), NL>> \in Octets
    BY <1>1, <2>1 DEF Octets
  <2>3. body \in Octets
    BY DEF Octets
  <2>4. /\ <<Status, NL>> \o <<Length, Digit(Len(body)), NL>> \in Octets
    BY <2>2, Join
  <2>5. (<<Status, NL>> \o <<Length, Digit(Len(body)), NL>>) \o <<Csum, Digit(Sum(body)), NL>> \in Octets
    BY <2>2, <2>4, Join
  <2>6. ((<<Status, NL>> \o <<Length, Digit(Len(body)), NL>>) \o <<Csum, Digit(Sum(body)), NL>>) \o CRLF \in Octets
    BY <1>2, <2>5, Join
  <2>7. QED
    BY <2>3, <2>6, Join DEF Answer
<1>5. QED
  BY <1>2, <1>3, <1>4

LEMMA InitInv == Init => IInv
<1>1. SUFFICES ASSUME Init PROVE IInv
  OBVIOUS
<1>2. Carried /\ Quiet
  BY <1>1, EmptySeq DEF Init, ConnectionInit, Nothing, Carried, Quiet, Octets
<1>3. Connected
  <2>1. pc = [e \in End |-> IF e = "client" THEN "connect" ELSE "accept"]
    BY <1>1 DEF Init, End
  <2>2. pc \in [End -> Label]
    BY <2>1 DEF Label
  <2>3. \A e \in End : ~open[e]
    BY <1>1 DEF Init, ConnectionInit
  <2>4. \A e \in End : pc[e] \notin Inside[e]
    BY <2>1 DEF Inside, End
  <2>5. QED
    BY <2>2, <2>3, <2>4 DEF Connected
<1>4. Named
  BY <1>1, EmptySeq DEF Init, Named, Octets
<1>5. QED
  BY <1>2, <1>3, <1>4 DEF IInv
-----------------------------------------------------------------------------
(* What each operation on the connection does to the streams.              *)
Streamed == [Stream!Next]_(Stream!vars)

LEMMA PendingOctets ==
  ASSUME Carried
  PROVE  \A e \in End : Pending(e) \in Octets
<1>1. SUFFICES ASSUME NEW e \in End PROVE Pending(e) \in Octets
  OBVIOUS
<1>2. rio_buf[e] \in Octets /\ wire[e] \in Octets /\ out[Peer(e)] \in Octets
  BY Ends DEF Carried
<1>3. (rio_buf[e] \o wire[e]) \o out[Peer(e)] \in Octets
  BY <1>2, Join
<1>4. QED
  BY <1>3, EmptySeq DEF Pending, Octets

(* A step that leaves what is pending as it is.                            *)
LEMMA SameStreams ==
  ASSUME open' = open, \A e \in End : Pending(e)' = Pending(e)
  PROVE  Streamed
<1>1. P' = P
  BY DEF P
<1>2. QED
  BY <1>1 DEF Streamed, Stream!vars, P

LEMMA OpenStep ==
  ASSUME Open
  PROVE  Carried' /\ Quiet' /\ Streamed
<1>1. Carried' /\ Quiet'
  BY EmptySeq DEF Open, Nothing, Carried, Quiet, Octets
<1>2. \A e \in End : Pending(e)' = <<>>
  BY Ends DEF Open, Nothing, Pending
<1>3. P' = [e \in End |-> <<>>]
  BY <1>2 DEF P
<1>4. Stream!Connect
  BY <1>3 DEF Open, Stream!Connect, P
<1>5. QED
  BY <1>1, <1>4 DEF Streamed, Stream!Next

LEMMA CloseStep ==
  ASSUME Carried, Quiet, NEW e \in End, open[e], Close(e)
  PROVE  /\ Carried' /\ Quiet' /\ Streamed /\ open' = [open EXCEPT ![e] = FALSE]
         /\ Pending(e)' = <<>>
         /\ \E r \in Octets : /\ Pending(Peer(e))' \o r = Pending(Peer(e))
                              /\ out[e] = <<>> => r = <<>>
<1>1. /\ wire' = [wire EXCEPT ![e] = <<>>]
      /\ rio_buf' = [rio_buf EXCEPT ![e] = <<>>]
      /\ out' = [out EXCEPT ![e] = <<>>]
      /\ open' = [open EXCEPT ![e] = FALSE]
  BY DEF Close
<1>2. <<>> \in Octets
  BY EmptySeq DEF Octets
<1>3. Carried' /\ Quiet'
  BY <1>1, <1>2 DEF Carried, Quiet
<1>4. \A d \in End : IsPrefix(Pending(d)', Pending(d))
  <2>1. SUFFICES ASSUME NEW d \in End PROVE IsPrefix(Pending(d)', Pending(d))
    OBVIOUS
  <2>2. /\ rio_buf[d] \in Octets /\ wire[d] \in Octets /\ out[Peer(d)] \in Octets
        /\ rio_buf[d] \o wire[d] \in Octets
    BY Ends, Join DEF Carried
  <2>3. CASE ~open'[d]
    <3>1. Pending(d)' = <<>>
      BY <2>3 DEF Pending
    <3>2. Pending(d) \in Octets /\ <<>> \o Pending(d) = Pending(d)
      BY <1>2, PendingOctets, Join
    <3>3. IsPrefix(<<>>, <<>> \o Pending(d))
      BY <1>2, <3>2, Join
    <3>4. QED
      BY <3>1, <3>2, <3>3
  <2>4. CASE open'[d]
    <3>1. d # e /\ Peer(d) = e /\ open[d]
      BY <1>1, <2>4 DEF Carried, End, Peer
    <3>2. Pending(d)' = (rio_buf[d] \o wire[d]) \o <<>>
      BY <1>1, <2>4, <3>1, Ends DEF Pending, Carried
    <3>3. Pending(d) = (rio_buf[d] \o wire[d]) \o out[e]
      BY <3>1 DEF Pending
    <3>4. Pending(d)' = rio_buf[d] \o wire[d]
      BY <2>2, <1>2, <3>2, Join
    <3>5. QED
      BY <2>2, <3>1, <3>3, <3>4, Join
  <2>5. QED
    BY <2>3, <2>4
<1>5. Stream!Close(e)
  BY <1>1, <1>4 DEF Stream!Close, IsPrefix, Stream!IsPrefix
<1>6. Pending(e)' = <<>>
  BY <1>1 DEF Pending, Carried
<1>7. \E r \in Octets : /\ Pending(Peer(e))' \o r = Pending(Peer(e))
                        /\ out[e] = <<>> => r = <<>>
  <2> DEFINE d == Peer(e)
  <2>1. d \in End /\ d # e /\ Peer(d) = e
    BY Ends
  <2>2. open'[d] = open[d] /\ rio_buf'[d] = rio_buf[d] /\ wire'[d] = wire[d] /\ out'[e] = <<>>
    BY <1>1, <2>1 DEF Carried
  <2>3. CASE ~open[d]
    <3>1. Pending(d) = <<>> /\ Pending(d)' = <<>>
      BY <2>2, <2>3 DEF Pending
    <3>2. <<>> \o <<>> = <<>>
      BY <1>2, Join
    <3>3. QED
      BY <1>2, <3>1, <3>2
  <2>4. CASE open[d]
    <3> DEFINE a == rio_buf[d] \o wire[d]
    <3>1. a \in Octets /\ out[e] \in Octets /\ a \o <<>> = a
      BY <2>1, Join DEF Carried
    <3>2. Pending(d) = a \o out[e] /\ Pending(d)' = a
      BY <2>1, <2>2, <2>4, <3>1 DEF Pending
    <3>3. QED
      BY <3>1, <3>2
  <2>5. QED
    BY <2>3, <2>4
<1>8. QED
  BY <1>1, <1>3, <1>5, <1>6, <1>7 DEF Streamed, Stream!Next

LEMMA SayStep ==
  ASSUME Carried, Quiet, NEW e \in End, NEW s \in Octets, open[e], Say(e, s)
  PROVE  /\ Carried' /\ Quiet' /\ Streamed /\ open' = open
         /\ Pending(e)' = Pending(e)
         /\ Pending(Peer(e))' = IF open[Peer(e)] THEN Pending(Peer(e)) \o s ELSE Pending(Peer(e))
<1>1. /\ out[e] = <<>> /\ out' = [out EXCEPT ![e] = s]
      /\ wire' = wire /\ open' = open /\ rio_buf' = rio_buf
  BY DEF Say
<1>2. Carried' /\ Quiet'
  BY <1>1 DEF Carried, Quiet
<1>3. Pending(e)' = Pending(e)
  BY <1>1, Ends DEF Pending, Carried
<1>4. CASE ~open[Peer(e)]
  <2>1. \A d \in End : Pending(d)' = Pending(d)
    BY <1>1, <1>3, <1>4 DEF Pending, End, Peer
  <2>2. QED
    BY <1>1, <1>2, <1>4, <2>1, Ends, SameStreams
<1>5. CASE open[Peer(e)]
  <2> DEFINE d == Peer(e)
             a == rio_buf[d] \o wire[d]
  <2>1. d \in End /\ Peer(d) = e /\ d # e
    BY Ends
  <2>2. a \in Octets /\ a \o <<>> = a
    BY <2>1, Join DEF Carried
  <2>3. Pending(d) = a /\ Pending(d)' = a \o s
    BY <1>1, <1>5, <2>1, <2>2 DEF Pending, Carried
  <2>4. IsPrefix(Pending(d), Pending(d)')
    BY <2>2, <2>3, Join
  <2>5. P' = [P EXCEPT ![d] = P'[d]]
    BY <1>3, <2>1 DEF P, End
  <2>6. Stream!Say(d)
    BY <1>1, <2>1, <2>4, <2>5 DEF Stream!Say, Stream!Only, P, IsPrefix, Stream!IsPrefix
  <2>7. QED
    BY <1>1, <1>2, <1>3, <1>5, <2>1, <2>3, <2>6 DEF Streamed, Stream!Next
<1>6. QED
  BY <1>4, <1>5

(* What moves between a buffer and the wire does not change the stream.    *)
LEMMA WriteStep ==
  ASSUME Carried, Quiet, NEW e \in End, Write(e)
  PROVE  /\ Carried' /\ Quiet' /\ Streamed /\ open' = open
         /\ \A x \in End : Pending(x)' = Pending(x)
<1> DEFINE d == Peer(e)
<1>0. /\ d \in End /\ d # e /\ Peer(d) = e
      /\ out[e] \in Octets /\ wire[d] \in Octets /\ rio_buf[d] \in Octets
      /\ <<>> \in Octets
  BY Ends, EmptySeq DEF Carried, Octets
<1>1. open' = open /\ rio_buf' = rio_buf /\ out[e] # <<>> /\ open[e]
  BY DEF Write, Quiet
<1>2. CASE open[d]
  <2>1. PICK n \in 1 .. Len(out[e]) :
          /\ wire' = [wire EXCEPT ![d] = @ \o First(out[e], n)]
          /\ out' = [out EXCEPT ![e] = Rest(out[e], n)]
    BY <1>2 DEF Write, Left
  <2> DEFINE f == First(out[e], n)
             r == Rest(out[e], n)
  <2>2. f \in Octets /\ r \in Octets /\ f \o r = out[e]
    BY <1>0, Split
  <2> HIDE DEF f, r
  <2>3. wire[d] \o f \in Octets
    BY <1>0, <2>2, Join
  <2>4. wire' = [wire EXCEPT ![d] = wire[d] \o f] /\ out' = [out EXCEPT ![e] = r]
    BY <2>1 DEF f, r
  <2> HIDE DEF d
  <2>5. Carried' /\ Quiet'
    BY <1>0, <1>1, <1>2, <2>2, <2>3, <2>4 DEF Carried, Quiet
  <2>6. Pending(e)' = Pending(e)
    BY <1>0, <1>1, <2>4 DEF Pending, Carried, d
  <2>7. Pending(d)' = Pending(d)
    <3>1. PICK a \in Octets, b \in Octets, c \in Octets, w \in Octets :
            a = rio_buf[d] /\ b = wire[d] /\ c = f /\ w = r
      BY <1>0, <2>2
    <3>2. Pending(d)' = (a \o (b \o c)) \o w
      BY <1>0, <1>1, <1>2, <2>4, <3>1 DEF Pending, Carried
    <3>3. (a \o (b \o c)) \o w = (a \o b) \o (c \o w)
      <4>1. (a \o b) \o c = a \o (b \o c)
        BY Associative, ZenonT(60)
      <4>2. a \o b \in Octets
        BY Join
      <4>3. ((a \o b) \o c) \o w = (a \o b) \o (c \o w)
        BY <4>2, Associative, Zenon
      <4>4. QED
        BY <4>1, <4>3, Zenon
    <3>4. Pending(d) = (a \o b) \o (c \o w)
      BY <1>0, <1>2, <2>2, <3>1 DEF Pending
    <3>5. QED
      BY <3>2, <3>3, <3>4
  <2>8. \A x \in End : Pending(x)' = Pending(x)
    BY <2>6, <2>7 DEF d, End, Peer
  <2>9. QED
    BY <1>1, <2>5, <2>8, SameStreams
<1>3. CASE ~open[d]
  <2>1. PICK n \in 1 .. Len(out[e]) : out' = [out EXCEPT ![e] = Rest(out[e], n)]
    BY <1>3 DEF Write, Left
  <2>2. Rest(out[e], n) \in Octets /\ wire' = wire
    BY <1>0, <1>3, Split DEF Write
  <2>3. Carried' /\ Quiet'
    BY <1>1, <2>1, <2>2 DEF Carried, Quiet
  <2>4. Pending(e)' = Pending(e)
    BY <1>0, <1>1, <2>1, <2>2 DEF Pending, Carried
  <2>5. Pending(d)' = Pending(d)
    BY <1>1, <1>3 DEF Pending
  <2>6. \A x \in End : Pending(x)' = Pending(x)
    BY <2>4, <2>5 DEF End, Peer
  <2>7. QED
    BY <1>1, <2>3, <2>6, SameStreams
<1>4. QED
  BY <1>2, <1>3

LEMMA RefillStep ==
  ASSUME Carried, Quiet, NEW e \in End, open[e], Refill(e)
  PROVE  /\ Carried' /\ Quiet' /\ Streamed /\ open' = open
         /\ \A x \in End : Pending(x)' = Pending(x)
<1>1. PICK n \in 1 .. Len(wire[e]) :
        /\ rio_buf' = [rio_buf EXCEPT ![e] = First(wire[e], n)]
        /\ wire' = [wire EXCEPT ![e] = Rest(wire[e], n)]
  BY DEF Refill
<1>2. rio_buf[e] = <<>> /\ open' = open /\ out' = out
  BY DEF Refill
<1> DEFINE f == First(wire[e], n)
           r == Rest(wire[e], n)
<1>3. wire[e] \in Octets /\ out[Peer(e)] \in Octets
  BY Ends DEF Carried
<1>4. f \in Octets /\ r \in Octets /\ f \o r = wire[e]
  BY <1>3, Split
<1>5. rio_buf' = [rio_buf EXCEPT ![e] = f] /\ wire' = [wire EXCEPT ![e] = r]
  BY <1>1
<1> HIDE DEF f, r
<1>6. Carried' /\ Quiet'
  BY <1>2, <1>4, <1>5 DEF Carried, Quiet
<1>7. <<>> \o wire[e] = wire[e]
  BY <1>3, Join
<1>8. Pending(e)' = Pending(e)
  <2>1. Pending(e)' = (f \o r) \o out[Peer(e)]
    BY <1>2, <1>5 DEF Pending, Carried
  <2>2. Pending(e) = wire[e] \o out[Peer(e)]
    BY <1>2, <1>7 DEF Pending
  <2>3. QED
    BY <1>4, <2>1, <2>2
<1>9. \A x \in End : Pending(x)' = Pending(x)
  BY <1>2, <1>5, <1>8 DEF Pending, Carried
<1>10. QED
  BY <1>2, <1>6, <1>9, SameStreams

(* The byte that rio_readlineb takes is the first that is pending.         *)
LEMMA NextByteStep ==
  ASSUME Carried, Quiet, NEW e \in End, open[e], NextByte(e)
  PROVE  /\ Carried' /\ Quiet' /\ Streamed /\ open' = open
         /\ Pending(e) # <<>> /\ Head(rio_buf[e]) = Head(Pending(e))
         /\ Pending(e)' = Tail(Pending(e))
         /\ \A x \in End : x # e => Pending(x)' = Pending(x)
<1>1. /\ rio_buf' = [rio_buf EXCEPT ![e] = Tail(rio_buf[e])]
      /\ rio_buf[e] # <<>> /\ open' = open /\ out' = out /\ wire' = wire
  BY DEF NextByte
<1>2. /\ rio_buf[e] \in Octets /\ wire[e] \in Octets /\ out[Peer(e)] \in Octets
      /\ rio_buf[e] \o wire[e] \in Octets
  BY Ends, Join DEF Carried
<1>3. /\ Tail(rio_buf[e]) \in Octets
      /\ rio_buf[e] \o wire[e] # <<>>
      /\ Tail(rio_buf[e]) \o wire[e] = Tail(rio_buf[e] \o wire[e])
      /\ Head(rio_buf[e]) = Head(rio_buf[e] \o wire[e])
  BY <1>1, <1>2, Front1
<1>4. Carried' /\ Quiet'
  BY <1>1, <1>3 DEF Carried, Quiet
<1>5. /\ Pending(e) # <<>> /\ Pending(e)' = Tail(Pending(e))
      /\ Head(rio_buf[e]) = Head(Pending(e))
  <2> DEFINE a == rio_buf[e] \o wire[e]
             o == out[Peer(e)]
  <2>1. a \in Octets /\ o \in Octets /\ a # <<>>
    BY <1>2, <1>3
  <2>2. a \o o # <<>> /\ Tail(a) \o o = Tail(a \o o) /\ Head(a) = Head(a \o o)
    BY <2>1, Front1
  <2>3. Pending(e) = a \o o
    BY DEF Pending
  <2>4. Pending(e)' = Tail(a) \o o
    BY <1>1, <1>3 DEF Pending, Carried
  <2>5. QED
    BY <1>3, <2>2, <2>3, <2>4
<1>6. \A x \in End : x # e => Pending(x)' = Pending(x)
  BY <1>1 DEF Pending, Carried
<1>7. P' = [P EXCEPT ![e] = Tail(P[e])]
  BY <1>5, <1>6 DEF P
<1>8. Stream!Take(e)
  BY <1>1, <1>5, <1>7 DEF Stream!Take, P
<1>9. QED
  BY <1>1, <1>4, <1>5, <1>6, <1>8 DEF Streamed, Stream!Next

LEMMA StillStep ==
  ASSUME Carried, Quiet, UNCHANGED <<wire, open, rio_buf, out>>
  PROVE  Carried' /\ Quiet' /\ Streamed
<1>1. Carried' /\ Quiet'
  BY DEF Carried, Quiet
<1>2. \A e \in End : Pending(e)' = Pending(e)
  BY DEF Pending
<1>3. QED
  BY <1>1, <1>2, SameStreams
-----------------------------------------------------------------------------
(* A step of a program inside its connection, and one that leaves it.      *)
LEMMA StayInside ==
  ASSUME Connected, NEW e \in End, NEW l \in Inside[e], pc[e] \in Inside[e],
         Goto(e, l), open' = open
  PROVE  Connected'
<1>1. l \in Label
  BY DEF Inside, Label, End
<1>2. QED
  BY <1>1 DEF Connected, Goto

LEMMA GoOut ==
  ASSUME Connected, NEW e \in End, NEW l \in Label, l \notin Inside[e],
         Goto(e, l), open' = [open EXCEPT ![e] = FALSE], open \in [End -> BOOLEAN]
  PROVE  Connected'
BY DEF Connected, Goto

(* Every step keeps the invariant, and is one of the stream or none.       *)
Good == IInv' /\ Streamed

LEMMA SayGood ==
  ASSUME IInv, NEW e \in End, NEW s \in Octets, Say(e, s),
         pc[e] \in Inside[e], NEW l \in Inside[e], Goto(e, l), name' = name /\ asked' = asked
  PROVE  Good
<1>1. open[e]
  BY DEF IInv, Connected
<1>2. Carried' /\ Quiet' /\ Streamed /\ open' = open
  BY <1>1, SayStep DEF IInv
<1>3. QED
  BY <1>2, StayInside DEF IInv, Good, Named

LEMMA LineGood ==
  ASSUME IInv, NEW e \in End, NextLine(e),
         pc[e] \in Inside[e], NEW l \in Inside[e], Goto(e, l), name' = name /\ asked' = asked
  PROVE  Good
<1>1. Carried' /\ Quiet' /\ Streamed /\ open' = open
  BY StillStep DEF IInv, NextLine
<1>2. QED
  BY <1>1, StayInside DEF IInv, Good, Named

LEMMA CloseGood ==
  ASSUME IInv, NEW e \in End, open[e], Close(e),
         NEW l \in Label, l \notin Inside[e], Goto(e, l), name' = name /\ asked' = asked
  PROVE  Good
<1>1. Carried' /\ Quiet' /\ Streamed /\ open' = [open EXCEPT ![e] = FALSE]
  BY CloseStep DEF IInv
<1>2. QED
  BY <1>1, GoOut DEF IInv, Good, Named, Carried

LEMMA ConnectGood == IInv /\ Connect => Good
<1>1. SUFFICES ASSUME IInv, Connect PROVE Good
  OBVIOUS
<1>2. Carried' /\ Quiet' /\ Streamed
  BY <1>1, OpenStep DEF Connect
<1>3. Connected'
  BY <1>1 DEF Connect, Open, Connected, Inside, Label, End
<1>4. Named'
  <2>1. program \in {"client", "client_simple", "other"} /\ name \in Name
    BY <1>1 DEF Connect, Asks, IInv, Named
  <2>2. name' \in Name /\ (asked' = Request(name') \/ asked' \in Others)
    BY <1>1, <2>1, ExchangeAssumption DEF Connect, Asks
  <2>3. QED
    BY <2>2, SaidIsOctets, ExchangeAssumption DEF Named, Octets
<1>5. QED
  BY <1>2, <1>3, <1>4 DEF IInv, Good

LEMMA SendGood == IInv /\ Send => Good
<1>1. SUFFICES ASSUME IInv, Send PROVE Good
  OBVIOUS
<1>2. asked \in Octets
  BY <1>1 DEF IInv, Named
<1>3. /\ Say("client", asked) /\ pc["client"] = "send" /\ Goto("client", "status")
      /\ name' = name /\ asked' = asked
  BY <1>1 DEF Send, client
<1>4. "client" \in End /\ "send" \in Inside["client"] /\ "status" \in Inside["client"]
  BY DEF End, Inside
<1>5. QED
  BY <1>1, <1>2, <1>3, <1>4, SayGood

LEMMA RespondGood == IInv /\ Respond => Good
<1>1. SUFFICES ASSUME IInv, Respond PROVE Good
  OBVIOUS
<1> DEFINE s == Answer(Page)
<1>2. Page \in Seq(Byte)
  BY ExchangeAssumption, SaidIsOctets DEF Page
<1>3. s \in Octets
  BY <1>2, SaidIsOctets
<1>4. /\ Say("server", s) /\ pc["server"] = "respond" /\ Goto("server", "reply")
      /\ name' = name /\ asked' = asked
  BY <1>1 DEF Respond, client
<1> HIDE DEF s
<1>5. "server" \in End /\ "respond" \in Inside["server"] /\ "reply" \in Inside["server"]
  BY DEF End, Inside
<1>6. QED
  BY <1>1, <1>3, <1>4, <1>5, SayGood

LEMMA TransferGood ==
  ASSUME IInv, NEW e \in End, WriteOn(e) \/ ReadOn(e)
  PROVE  Good
<1>1. pc' = pc /\ name' = name /\ asked' = asked
  BY DEF WriteOn, ReadOn, client
<1>2. CASE WriteOn(e)
  <2>1. Carried' /\ Quiet' /\ Streamed /\ open' = open
    BY <1>2, WriteStep DEF IInv, WriteOn
  <2>2. QED
    BY <1>1, <2>1 DEF IInv, Good, Connected, Named
<1>3. CASE ReadOn(e)
  <2>1. open[e]
    BY <1>3 DEF ReadOn, Reads, IInv, Connected, Inside, End
  <2>2. Carried' /\ Quiet' /\ Streamed /\ open' = open
    BY <1>3, <2>1, RefillStep, NextByteStep DEF IInv, ReadOn
  <2>3. QED
    BY <1>1, <2>2 DEF IInv, Good, Connected, Named
<1>4. QED
  BY <1>2, <1>3

LEMMA ReadGood ==
  IInv /\ (ReadRequest \/ ReadHeader \/ ReadStatus \/ ReadTag \/ ReadBody) => Good
<1>1. SUFFICES ASSUME IInv PROVE
        ReadRequest \/ ReadHeader \/ ReadStatus \/ ReadTag \/ ReadBody => Good
  OBVIOUS
<1>2. {"client", "server"} \subseteq End
  BY DEF End
<1>3. /\ {"request", "headers", "respond"} \subseteq Inside["server"]
      /\ {"status", "headers", "body", "check"} \subseteq Inside["client"]
  BY DEF Inside
<1>4. ASSUME ReadRequest PROVE Good
  <2>1. PICK l \in {"headers", "respond"} : Goto("server", l)
    BY <1>4 DEF ReadRequest, AfterRequest
  <2>2. pc["server"] = "request" /\ NextLine("server") /\ name' = name /\ asked' = asked
    BY <1>4 DEF ReadRequest, Back, client
  <2>3. QED
    BY <1>1, <1>2, <1>3, <2>1, <2>2, LineGood
<1>5. ASSUME ReadHeader PROVE Good
  <2>1. PICK l \in {"headers", "respond"} : Goto("server", l)
    BY <1>5 DEF ReadHeader
  <2>2. pc["server"] = "headers" /\ NextLine("server") /\ name' = name /\ asked' = asked
    BY <1>5 DEF ReadHeader, Back, client
  <2>3. QED
    BY <1>1, <1>2, <1>3, <2>1, <2>2, LineGood
<1>6. ASSUME ReadStatus PROVE Good
  <2>1. PICK l \in {"headers", "body"} : Goto("client", l)
    BY <1>6 DEF ReadStatus
  <2>2. pc["client"] = "status" /\ NextLine("client") /\ name' = name /\ asked' = asked
    BY <1>6 DEF ReadStatus, Back, client
  <2>3. QED
    BY <1>1, <1>2, <1>3, <2>1, <2>2, LineGood
<1>7. ASSUME ReadTag PROVE Good
  <2>1. PICK l \in {"headers", "body"} : Goto("client", l)
    BY <1>7 DEF ReadTag
  <2>2. pc["client"] = "headers" /\ NextLine("client") /\ name' = name /\ asked' = asked
    BY <1>7 DEF ReadTag, Back
  <2>3. QED
    BY <1>1, <1>2, <1>3, <2>1, <2>2, LineGood
<1>8. ASSUME ReadBody PROVE Good
  <2>1. PICK l \in {"body", "check"} : Goto("client", l)
    BY <1>8 DEF ReadBody
  <2>2. pc["client"] = "body" /\ NextLine("client") /\ name' = name /\ asked' = asked
    BY <1>8 DEF ReadBody, Back
  <2>3. QED
    BY <1>1, <1>2, <1>3, <2>1, <2>2, LineGood
<1>9. QED
  BY <1>4, <1>5, <1>6, <1>7, <1>8

(* Only an end that is open reads, or has something to write.              *)
LEMMA FailsOpen ==
  ASSUME IInv, NEW e \in End, WriteFails(e) \/ pc[e] \in Reads[e]
  PROVE  open[e]
<1>1. Reads[e] \subseteq Inside[e]
  BY DEF Reads, Inside, End
<1>2. QED
  BY <1>1 DEF WriteFails, IInv, Quiet, Connected

LEMMA LeaveGood ==
  IInv /\ (Finish \/ ServerFails \/ ServerSmashed \/ Check \/ ClientFails \/ ClientSmashed
            \/ ClientKilled)
    => Good
<1>1. SUFFICES ASSUME IInv PROVE
        Finish \/ ServerFails \/ ServerSmashed \/ Check \/ ClientFails \/ ClientSmashed
          \/ ClientKilled => Good
  OBVIOUS
<1>2. {"client", "server"} \subseteq End
  BY DEF End
<1>3. /\ \A l \in {"accept", "exit", "smashed"} : l \in Label /\ l \notin Inside["server"]
      /\ \A l \in {"connect", "done", "abort", "exit", "smashed", "dead"} :
           l \in Label /\ l \notin Inside["client"]
  BY DEF Inside, Label
<1>4. ASSUME Finish \/ ServerFails \/ ServerSmashed PROVE Good
  <2>1. PICK l \in {"accept", "exit", "smashed"} : Goto("server", l)
    BY <1>4 DEF Finish, ServerFails, ServerSmashed
  <2>2. Close("server") /\ name' = name /\ asked' = asked
    BY <1>4 DEF Finish, Destroy, ServerFails, ServerSmashed, client
  <2>3. open["server"]
    <3>1. CASE Finish
      BY <1>1, <1>2, <3>1 DEF Finish, IInv, Connected, Inside
    <3>2. CASE ServerFails \/ ServerSmashed
      BY <1>1, <1>2, <3>2, FailsOpen DEF ServerFails, ServerSmashed
    <3>3. QED
      BY <1>4, <3>1, <3>2
  <2>4. QED
    BY <1>1, <1>2, <1>3, <2>1, <2>2, <2>3, CloseGood
<1>5. ASSUME Check PROVE Good
  <2>1. PICK l \in {"connect", "done", "abort"} : Goto("client", l)
    BY <1>5 DEF Check
  <2>2. Close("client") /\ name' = name /\ asked' = asked
    BY <1>5 DEF Check
  <2>3. open["client"]
    BY <1>1, <1>2, <1>5 DEF Check, IInv, Connected, Inside
  <2>4. QED
    BY <1>1, <1>2, <1>3, <2>1, <2>2, <2>3, CloseGood
<1>6. ASSUME ClientFails \/ ClientSmashed \/ ClientKilled PROVE Good
  <2>1. PICK l \in {"exit", "smashed", "dead"} : ClientLeaves(l)
    BY <1>6 DEF ClientFails, ClientSmashed, ClientKilled
  <2>2. Goto("client", l) /\ Close("client") /\ name' = name /\ asked' = asked
    BY <2>1 DEF ClientLeaves, client
  <2>3. open["client"]
    BY <1>1, <1>2, <1>6, FailsOpen DEF ClientFails, ClientSmashed, ClientKilled
  <2>4. QED
    BY <1>1, <1>2, <1>3, <2>2, <2>3, CloseGood
<1>7. QED
  BY <1>4, <1>5, <1>6

LEMMA StepGood == IInv /\ [Next]_vars => Good
<1>1. SUFFICES ASSUME IInv, [Next]_vars PROVE Good
  OBVIOUS
<1>2. {"client", "server"} \subseteq End
  BY DEF End
<1>3. CASE UNCHANGED vars
  <2>1. Carried' /\ Quiet' /\ Streamed
    BY <1>1, <1>3, StillStep DEF IInv, vars, connection
  <2>2. pc' = pc /\ open' = open /\ name' = name /\ asked' = asked
    BY <1>3 DEF vars, connection, client
  <2>3. QED
    BY <1>1, <2>1, <2>2 DEF IInv, Good, Connected, Named
<1>4. CASE ClientStep
  BY <1>1, <1>2, <1>4, ConnectGood, SendGood, TransferGood, ReadGood, LeaveGood
     DEF ClientStep
<1>5. CASE ServerStep
  BY <1>1, <1>2, <1>5, RespondGood, TransferGood, ReadGood, LeaveGood DEF ServerStep
<1>6. CASE ClientSmashed \/ ServerSmashed \/ ClientKilled
  BY <1>1, <1>6, LeaveGood
<1>7. QED
  BY <1>1, <1>3, <1>4, <1>5, <1>6 DEF Next

(* In every state a program is inside its connection exactly while its end *)
(* is open, and a closed end holds no bytes.                               *)
THEOREM Invariance == Spec => []IInv
<1>1. IInv /\ [Next]_vars => IInv'
  BY StepGood DEF Good
<1>2. QED
  BY InitInv, <1>1, PTL DEF Spec

(* The Rio package implements the stream of bytes: whatever the kernel     *)
(* does with the pieces of a read or a write, each end takes what the      *)
(* other one has said, byte by byte and in that order, however lines and   *)
(* files are sized and whenever a client dies.                             *)
THEOREM StreamsRefined == Spec => Streams
<1>1. Init => Stream!Init
  <2>1. SUFFICES ASSUME Init PROVE Stream!Init
    OBVIOUS
  <2>2. open = [e \in End |-> FALSE]
    BY <2>1 DEF Init, ConnectionInit
  <2>3. [e \in End |-> Pending(e)] = [e \in End |-> <<>>]
    BY <2>2 DEF Pending
  <2>4. QED
    BY <2>2, <2>3 DEF Stream!Init
<1>2. IInv /\ [Next]_vars => [Stream!Next]_(Stream!vars)
  BY StepGood DEF Good, Streamed
<1>3. QED
  BY Invariance, <1>1, <1>2, PTL DEF Spec, Streams, Stream!Spec
-----------------------------------------------------------------------------
(* What the two programs say to each other.                                *)
(*                                                                         *)
(* What e has yet to return: what its rio_readlineb has stored, and what   *)
(* is underway.                                                            *)
Unread(e) == line[e] \o Pending(e)

(* The lines of a request of this repository's clients, and of an answer.  *)
RequestLine == <<GET, name, NL>>
HostLine == <<Host, NL>>
StatusLine == <<Status, NL>>
LengthLine == <<Length, Digit(Len(Page)), NL>>
CsumLine == <<Csum, Digit(Sum(Page)), NL>>

Headers == HostLine \o CRLF
Sums == CsumLine \o (CRLF \o Page)
Sizes == LengthLine \o Sums

(* A newline ends what rio_readlineb stores.                               *)
OneLine(l) == \A i \in 1 .. Len(l) : l[i] = NL => i = Len(l)

Reading ==
  /\ line \in [End -> Octets]
  /\ \A e \in End : OneLine(line[e]) /\ (~open[e] => line[e] = <<>>)
  /\ reset \in [End -> BOOLEAN]

Stages ==
  /\ pc["client"] \in {"connect", "send", "status", "headers", "body", "check",
                       "done", "exit", "smashed", "dead"}
  /\ pc["server"] \in {"accept", "request", "headers", "respond", "reply", "exit",
                       "smashed"}
  /\ program \in {"client", "client_simple", "other"}
  /\ program = "client" /\ open["client"] => name \in DOMAIN File
  /\ pc["server"] = "smashed" => program = "other"

(* The worker's end, where the death of the client may cut t short.        *)
Hears(t) ==
  \E r \in Octets : Unread("server") \o r = t /\ (open["client"] => r = <<>>)

(* A worker with a client of this repository: where it is in the request.  *)
Understood ==
  /\ pc["server"] = "request" /\ pc["client"] # "send" => Hears(RequestLine \o Headers)
  /\ pc["server"] = "headers" => method = GET /\ (Hears(Headers) \/ Hears(CRLF))
  /\ pc["server"] \in {"respond", "reply"} => Pending("server") = <<>>
  /\ open["client"] /\ pc["server"] # "request" => uri = name /\ method = GET
  /\ open["client"] => asked = Request(name)

Heard ==
  /\ pc["client"] = "send" => pc["server"] = "request" /\ Unread("server") = <<>>
  /\ pc["server"] \in {"respond", "reply"} => line["server"] = <<>>
  /\ {uri, method} \subseteq Byte /\ buf \in Octets
  /\ program # "other" => Understood

(* With any client: what the worker reads is a stretch of what was asked.  *)
Overheard ==
  open["server"] =>
    \E taken, rest \in Octets : (taken \o Unread("server")) \o rest = asked

(* Nothing that a client of this repository says is left unread.           *)
NoReset ==
  /\ pc["server"] # "reply" => out["server"] = <<>>
  /\ program # "other" =>
       /\ ~reset["client"] /\ pc["client"] # "exit"
       /\ ~open["server"] => out["client"] = <<>>

(* The client's end, while it lives: where it is in the answer; or it gets *)
(* none, from a worker that ended on a long line.                          *)
Answered == pc["server"] \notin {"request", "headers", "respond"}

Fresh == length_received = 0 /\ csum_received = 0

AtStatus ==
  /\ pc["client"] = "status"
  /\ Unread("client") = StatusLine \o Sizes
  /\ Fresh

AtHeaders ==
  /\ pc["client"] = "headers"
  /\ \/ Unread("client") = Sizes
     \/ Unread("client") = Sums /\ length = Len(Page)
     \/ Unread("client") = CRLF \o Page /\ length = Len(Page) /\ csum = Sum(Page)
  /\ Fresh

InBody ==
  /\ pc["client"] = "body"
  /\ length = Len(Page) /\ csum = Sum(Page)
  /\ \E taken \in Octets :
       /\ taken \o Unread("client") = Page
       /\ length_received = Len(taken) /\ csum_received = Sum(taken)

AtEnd ==
  /\ pc["client"] = "check"
  /\ Unread("client") = <<>>
  /\ length = Len(Page) /\ csum = Sum(Page)
  /\ length_received = Len(Page) /\ csum_received = Sum(Page)

Cut ==
  /\ pc["server"] = "smashed"
  /\ pc["client"] \in {"status", "body", "check"}
  /\ Unread("client") = <<>>

Told ==
  open["client"] =>
    IF Answered THEN AtStatus \/ AtHeaders \/ InBody \/ AtEnd \/ Cut
    ELSE pc["client"] \in {"send", "status"} /\ Unread("client") = <<>> /\ Fresh

Counted ==
  /\ {length, csum, length_received, csum_received} \subseteq Nat
  /\ times \in 0 .. NrTimes
  /\ pc["client"] \in {"connect", "send", "status", "headers", "body", "check"} =>
       times < NrTimes

Talk == Reading /\ Stages /\ Heard /\ Overheard /\ NoReset /\ Told /\ Counted
-----------------------------------------------------------------------------
(* A line as the programs send it.                                         *)
Line(one) ==
  one \in Octets /\ one # <<>> /\ one[Len(one)] = NL /\ OneLine(one) /\ Len(one) < MaxLine

LEMMA Cancel ==
  \A a, b, c \in Octets : a \o b = a \o c => b = c
<1>1. SUFFICES ASSUME NEW a \in Octets, NEW b \in Octets, NEW c \in Octets, a \o b = a \o c
               PROVE  b = c
  OBVIOUS
<1>2. QED
  BY <1>1, ConcatSimplifications, Zenon DEF Octets

(* Of a stream that starts with the line one, rio_readlineb stores in l no *)
(* more than this line, and returns when it has all of it.                 *)
Within(l, p, one, t) ==
  /\ Len(l) <= Len(one) /\ \A i \in 1 .. Len(l) : l[i] = one[i]
  /\ l # <<>> /\ (Last(l) = NL \/ Len(l) = MaxLine) => l = one /\ p = t
  /\ p = <<>> => l = one /\ t = <<>>

LEMMA HeadLine ==
  ASSUME NEW l \in Octets, NEW p \in Octets, NEW one, NEW t \in Octets,
         Line(one), OneLine(l), l \o p = one \o t
  PROVE  Within(l, p, one, t)
<1>1. /\ Len(l) \in Nat /\ Len(p) \in Nat /\ Len(one) \in Nat \ {0} /\ Len(t) \in Nat
      /\ one \in Octets /\ one[Len(one)] = NL /\ Len(one) < MaxLine
  BY LenProperties, EmptySeq DEF Octets, Line
<1>2. /\ Len(l) + Len(p) = Len(one) + Len(t)
      /\ \A i \in 1 .. Len(l) + Len(p) :
           (l \o p)[i] = IF i <= Len(l) THEN l[i] ELSE p[i - Len(l)]
      /\ \A i \in 1 .. Len(l) + Len(p) :
           (l \o p)[i] = IF i <= Len(one) THEN one[i] ELSE t[i - Len(one)]
  <2>1. /\ Len(l \o p) = Len(l) + Len(p)
        /\ \A i \in 1 .. Len(l) + Len(p) :
             (l \o p)[i] = IF i <= Len(l) THEN l[i] ELSE p[i - Len(l)]
    BY ConcatProperties DEF Octets
  <2>2. /\ Len(one \o t) = Len(one) + Len(t)
        /\ \A i \in 1 .. Len(one) + Len(t) :
             (one \o t)[i] = IF i <= Len(one) THEN one[i] ELSE t[i - Len(one)]
    BY <1>1, ConcatProperties DEF Octets
  <2>3. QED
    BY <2>1, <2>2
<1>3. Len(l) <= Len(one)
  <2>1. SUFFICES ASSUME Len(l) > Len(one) PROVE FALSE
    BY <1>1
  <2>2. Len(one) \in 1 .. Len(l) /\ Len(one) \in 1 .. Len(l) + Len(p)
    BY <1>1, <2>1
  <2>3. l[Len(one)] = NL
    BY <1>1, <1>2, <2>2
  <2>4. QED
    BY <1>1, <2>1, <2>2, <2>3 DEF OneLine
<1>4. \A i \in 1 .. Len(l) : l[i] = one[i]
  BY <1>1, <1>2, <1>3
<1>5. ASSUME Len(l) = Len(one) PROVE l = one /\ p = t
  <2>1. l = one
    BY <1>1, <1>4, <1>5, SeqEqual DEF Octets
  <2>2. QED
    BY <1>1, <2>1, Cancel
<1>6. ASSUME l # <<>>, Last(l) = NL \/ Len(l) = MaxLine PROVE Len(l) = Len(one)
  <2>1. Len(l) \in 1 .. Len(l) /\ Last(l) = l[Len(l)]
    BY <1>1, <1>6, EmptySeq DEF Last, Octets
  <2>2. CASE Last(l) = NL
    <3>1. Len(l) \in 1 .. Len(one) /\ one[Len(l)] = NL
      <4>1. Len(l) \in 1 .. Len(one) /\ l[Len(l)] = NL
        BY <1>1, <1>3, <2>1, <2>2
      <4>2. l[Len(l)] = one[Len(l)]
        BY <1>4, <2>1
      <4>3. QED
        BY <4>1, <4>2
    <3>2. QED
      BY <3>1 DEF Line, OneLine
  <2>3. CASE Len(l) = MaxLine
    BY <1>1, <1>3, <2>3
  <2>4. QED
    BY <1>6, <2>2, <2>3
<1>7. ASSUME p = <<>> PROVE Len(l) = Len(one) /\ t = <<>>
  <2>1. Len(p) = 0
    BY <1>7
  <2>2. Len(t) = 0 /\ Len(l) = Len(one)
    BY <1>1, <1>2, <1>3, <2>1
  <2>3. QED
    BY <2>2, EmptySeq DEF Octets
<1>8. QED
  BY <1>3, <1>4, <1>5, <1>6, <1>7 DEF Within

(* What the programs say is made of such lines.                            *)
LEMMA TheLines ==
  ASSUME IInv, MaxLine >= 4
  PROVE  /\ Line(RequestLine) /\ Line(HostLine) /\ Line(CRLF)
         /\ Line(StatusLine) /\ Line(LengthLine) /\ Line(CsumLine)
         /\ Page \in Octets /\ Headers \in Octets /\ Sums \in Octets /\ Sizes \in Octets
         /\ CRLF \o <<>> = CRLF /\ <<>> \in Octets
<1>1. /\ name \in Byte \ {13, NL} /\ MaxLine \in Nat /\ <<>> \in Octets
      /\ {NL, 13, GET, PUT, Host, Status, Length, Csum} \subseteq Byte
  BY ExchangeAssumption, ConnectionAssumption, EmptySeq
     DEF IInv, Named, Byte, NL, GET, PUT, Host, Status, Length, Csum, Octets
<1>2. ASSUME NEW a \in Byte \ {NL}, NEW b \in Byte \ {NL} PROVE Line(<<a, b, NL>>)
  BY <1>1 DEF Line, OneLine, Octets
<1>3. ASSUME NEW a \in Byte \ {NL} PROVE Line(<<a, NL>>)
  BY <1>1 DEF Line, OneLine, Octets
<1>4. Page \in Octets
  BY ExchangeAssumption, SaidIsOctets DEF Page, Octets
<1>5. Digit(Len(Page)) \in Byte \ {NL} /\ Digit(Sum(Page)) \in Byte \ {NL}
  <2>1. Len(Page) \in Nat /\ Sum(Page) \in Nat
    BY <1>4, LenProperties, SumIsTotal DEF Octets
  <2>2. QED
    BY <2>1 DEF Digit, Byte, NL
<1>6. /\ GET \in Byte \ {NL} /\ Host \in Byte \ {NL} /\ 13 \in Byte \ {NL}
      /\ Status \in Byte \ {NL} /\ Length \in Byte \ {NL} /\ Csum \in Byte \ {NL}
  BY <1>1 DEF NL, GET, Host, Status, Length, Csum
<1>7. /\ Line(RequestLine) /\ Line(HostLine) /\ Line(CRLF)
      /\ Line(StatusLine) /\ Line(LengthLine) /\ Line(CsumLine)
  BY <1>1, <1>2, <1>3, <1>5, <1>6
     DEF RequestLine, HostLine, CRLF, StatusLine, LengthLine, CsumLine
<1>8. /\ HostLine \in Octets /\ CRLF \in Octets /\ LengthLine \in Octets
      /\ CsumLine \in Octets
  BY <1>7 DEF Line
<1>9. CRLF \o Page \in Octets
  BY <1>4, <1>8, Join
<1>10. Headers \in Octets /\ Sums \in Octets /\ CRLF \o <<>> = CRLF
  BY <1>8, <1>9, Join DEF Headers, Sums
<1>11. Sizes \in Octets
  BY <1>8, <1>10, Join DEF Sizes
<1>12. QED
  BY <1>1, <1>4, <1>7, <1>10, <1>11

LEMMA UnreadOctets ==
  ASSUME IInv, Reading, NEW e \in End
  PROVE  line[e] \in Octets /\ Pending(e) \in Octets /\ Unread(e) \in Octets
<1>1. line[e] \in Octets /\ Pending(e) \in Octets
  BY PendingOctets DEF IInv, Reading
<1>2. QED
  BY <1>1, Join DEF Unread
-----------------------------------------------------------------------------
(* What a step leaves as it is.                                            *)
LEMMA GotoOnly ==
  ASSUME IInv
  PROVE  /\ \A l : Goto("client", l) => pc'["client"] = l /\ pc'["server"] = pc["server"]
         /\ \A l : Goto("server", l) => pc'["server"] = l /\ pc'["client"] = pc["client"]
BY DEF IInv, Connected, Goto, End

LEMMA SameRequest ==
  ASSUME name' = name
  PROVE  RequestLine' = RequestLine /\ Headers' = Headers /\ Request(name)' = Request(name)
BY DEF RequestLine, Headers, HostLine

LEMMA SameAnswer ==
  ASSUME uri' = uri, method' = method
  PROVE  /\ Page' = Page /\ StatusLine' = StatusLine
         /\ Sizes' = Sizes /\ Sums' = Sums
<1>1. Page' = Page
  BY DEF Page
<1>2. QED
  BY <1>1 DEF StatusLine, Sizes, LengthLine, Sums, CsumLine

LEMMA ReadingKept ==
  ASSUME IInv, Reading, NEW e \in End,
         \/ \E s : Say(e, s)
         \/ Write(e) \/ Refill(e) \/ NextLine(e) \/ Close(e)
         \/ open[e] /\ NextByte(e)
  PROVE  Reading'
<1>1. CASE (\E s : Say(e, s)) \/ Refill(e)
  BY <1>1 DEF Reading, Say, Refill
<1>2. CASE Write(e)
  <2>1. line' = line /\ open' = open /\ (reset' = reset \/ reset' = [reset EXCEPT ![e] = TRUE])
    BY <1>2 DEF Write
  <2>2. QED
    BY <2>1 DEF Reading
<1>3. CASE NextLine(e) \/ Close(e)
  <2>1. <<>> \in Octets /\ OneLine(<<>>)
    BY EmptySeq DEF Octets, OneLine
  <2>2. /\ line' = [line EXCEPT ![e] = <<>>]
        /\ open' = open \/ open' = [open EXCEPT ![e] = FALSE]
        /\ open \in [End -> BOOLEAN]
    BY <1>3 DEF NextLine, Close, IInv, Carried
  <2>3. reset' \in [End -> BOOLEAN]
    <3>1. CASE NextLine(e)
      BY <3>1 DEF NextLine, Reading
    <3>2. CASE Close(e)
      <4>1. Peer(e) \in End /\ (reset[Peer(e)] \/ wire[e] # <<>>) \in BOOLEAN
        BY Ends DEF Reading
      <4>2. reset' = [reset EXCEPT ![Peer(e)] = reset[Peer(e)] \/ wire[e] # <<>>]
        BY <3>2 DEF Close
      <4>3. QED
        BY <4>1, <4>2, Zenon DEF Reading
    <3>3. QED
      BY <1>3, <3>1, <3>2
  <2>4. QED
    BY <2>1, <2>2, <2>3 DEF Reading
<1>4. CASE open[e] /\ NextByte(e)
  <2> DEFINE h == Head(rio_buf[e])
             l == line[e]
  <2>1. /\ rio_buf[e] \in Octets /\ rio_buf[e] # <<>> /\ ~LineRead(e)
        /\ line' = [line EXCEPT ![e] = Append(l, h)]
        /\ open' = open /\ reset' = reset
    BY <1>4 DEF NextByte, IInv, Carried
  <2>2. l \in Octets /\ h \in Byte /\ OneLine(l)
    BY <2>1, HeadTailProperties DEF Reading, Octets
  <2>3. /\ Append(l, h) \in Octets /\ Len(Append(l, h)) = Len(l) + 1
        /\ \A i \in 1 .. Len(l) : Append(l, h)[i] = l[i]
    BY <2>2, AppendProperties DEF Octets
  <2>4. Len(l) \in Nat
    BY <2>2, LenProperties DEF Octets
  <2>5. \A i \in 1 .. Len(l) : l[i] # NL
    <3>1. SUFFICES ASSUME NEW i \in 1 .. Len(l), l[i] = NL PROVE FALSE
      OBVIOUS
    <3>2. i = Len(l) /\ Len(l) # 0
      BY <2>2, <2>4, <3>1 DEF OneLine
    <3>3. l # <<>> /\ Last(l) = NL
      BY <3>1, <3>2 DEF Last
    <3>4. QED
      BY <2>1, <3>3 DEF LineRead
  <2> HIDE DEF h, l
  <2>6. OneLine(Append(l, h))
    <3>1. SUFFICES ASSUME NEW i \in 1 .. Len(l) + 1, Append(l, h)[i] = NL, i # Len(l) + 1
                   PROVE  FALSE
      BY <2>3 DEF OneLine
    <3>2. i \in 1 .. Len(l)
      BY <2>4, <3>1
    <3>3. QED
      BY <2>3, <2>5, <3>1, <3>2
  <2>7. QED
    BY <1>4, <2>1, <2>3, <2>6 DEF Reading
<1>5. QED
  BY <1>1, <1>2, <1>3, <1>4

(* The client is where it was, and has the same to read.                   *)
LEMMA ToldKept ==
  ASSUME Told, pc'["client"] = pc["client"], Answered' <=> Answered,
         Answered => uri' = uri /\ method' = method,
         pc["server"] = "smashed" => pc'["server"] = "smashed",
         open'["client"] => open["client"],
         UNCHANGED <<length, csum, length_received, csum_received>>,
         Unread("client")' = Unread("client")
  PROVE  Told'
<1>1. Fresh => Fresh'
  BY DEF Fresh
<1>2. CASE ~Answered
  BY <1>1, <1>2 DEF Told
<1>3. CASE Answered
  <2>1. Page' = Page /\ Sizes' = Sizes /\ Sums' = Sums /\ StatusLine' = StatusLine
    BY <1>3, SameAnswer
  <2>2. /\ AtStatus => AtStatus'
        /\ AtHeaders => AtHeaders'
        /\ AtEnd => AtEnd'
    BY <1>1, <2>1, Zenon DEF AtStatus, AtHeaders, AtEnd
  <2>3. InBody => InBody'
    BY <2>1, Zenon DEF InBody
  <2>4. Cut => Cut'
    BY Zenon DEF Cut
  <2>5. QED
    BY <1>3, <2>2, <2>3, <2>4 DEF Told
<1>4. QED
  BY <1>2, <1>3

(* And so is the worker.                                                   *)
LEMMA HeardKept ==
  ASSUME Heard, program' = program, name' = name /\ asked' = asked, UNCHANGED server,
         pc'["server"] = pc["server"], pc'["client"] = "send" <=> pc["client"] = "send",
         open'["client"] = open["client"],
         Unread("server")' = Unread("server"),
         pc["server"] \in {"respond", "reply"} =>
           line'["server"] = line["server"] /\ Pending("server")' = Pending("server")
  PROVE  Heard'
<1>1. /\ RequestLine' = RequestLine /\ Headers' = Headers
      /\ Request(name)' = Request(name)
  BY SameRequest
<1>2. uri' = uri /\ method' = method /\ buf' = buf
  BY DEF server
<1>3. /\ Hears(Headers) => Hears(Headers)'
      /\ Hears(RequestLine \o Headers) => Hears(RequestLine \o Headers)'
      /\ Hears(CRLF) => Hears(CRLF)'
  BY <1>1, Zenon DEF Hears
<1>4. Understood => Understood'
  BY <1>1, <1>2, <1>3 DEF Understood
<1>5. QED
  BY <1>2, <1>4 DEF Heard

(* The client has closed its end: the worker has less to read.             *)
LEMMA CutUnread ==
  ASSUME IInv, Reading, line'["server"] = line["server"],
         Pending("server")' \in Octets, NEW r \in Octets,
         Pending("server")' \o r = Pending("server")
  PROVE  Unread("server")' \in Octets /\ Unread("server")' \o r = Unread("server")
<1> DEFINE l == line["server"]
           p == Pending("server")
           q == Pending("server")'
<1>1. l \in Octets /\ p \in Octets /\ q \in Octets
  BY UnreadOctets DEF End
<1>2. Unread("server")' = l \o q /\ Unread("server") = l \o p /\ q \o r = p
  BY DEF Unread
<1> HIDE DEF l, p, q
<1>3. (l \o q) \o r = l \o (q \o r)
  <2>1. \A b, c \in Octets : (l \o b) \o c = l \o (b \o c)
    BY <1>1, Associative, Zenon
  <2>2. QED
    BY <1>1, <2>1, Zenon
<1>4. l \o q \in Octets
  BY <1>1, Join
<1>5. QED
  BY <1>2, <1>3, <1>4

LEMMA HeardCut ==
  ASSUME IInv, Reading, Heard, program' = program, name' = name, UNCHANGED server,
         pc'["server"] = pc["server"], pc'["client"] # "send", ~open'["client"],
         line'["server"] = line["server"],
         Pending("server")' \in Octets, NEW r \in Octets,
         Pending("server")' \o r = Pending("server"),
         RequestLine \o Headers \in Octets
  PROVE  Heard'
<1>1. RequestLine' = RequestLine /\ Headers' = Headers
  BY SameRequest
<1>2. uri' = uri /\ method' = method /\ buf' = buf
  BY DEF server
<1> DEFINE u == Unread("server")
           v == Unread("server")'
<1>3. v \in Octets /\ v \o r = u
  BY CutUnread
<1> HIDE DEF u, v
<1>4. ASSUME NEW t, Hears(t) PROVE \E c \in Octets : v \o c = t
  <2>1. PICK c \in Octets : u \o c = t
    BY <1>4 DEF Hears, u
  <2>2. (v \o r) \o c = v \o (r \o c)
    <3>1. \A a, b \in Octets : (v \o a) \o b = v \o (a \o b)
      BY <1>3, Associative, ZenonT(60)
    <3>2. QED
      BY <2>1, <3>1, ZenonT(60)
  <2>3. v \o (r \o c) = t
    BY <1>3, <2>1, <2>2
  <2>4. r \o c \in Octets
    BY Join
  <2>5. QED
    BY <2>3, <2>4
<1>5. /\ Hears(Headers) => Hears(Headers)'
      /\ Hears(RequestLine \o Headers) => Hears(RequestLine \o Headers)'
      /\ Hears(CRLF) => Hears(CRLF)'
  BY <1>1, <1>4 DEF Hears, v
<1>6. ASSUME u = <<>> PROVE Hears(RequestLine \o Headers)'
  <2>1. v = <<>>
    BY <1>3, <1>6, ConcatEqualIffEmpty DEF Octets
  <2>2. v \o (RequestLine \o Headers) = RequestLine \o Headers
    BY <2>1, Join
  <2>3. QED
    BY <1>1, <2>2 DEF Hears, v
<1>7. Pending("server") = <<>> => Pending("server")' = <<>>
  BY ConcatEqualIffEmpty DEF Octets
<1>8. (pc["client"] = "send" => u = <<>>) /\ Understood => Understood'
  BY <1>2, <1>5, <1>6, <1>7 DEF Understood
<1>9. QED
  BY <1>2, <1>8 DEF Heard, u

(* What the worker reads stays a stretch of what was asked.                *)
LEMMA OverheardKept ==
  ASSUME Overheard, asked' = asked, open'["server"] => open["server"],
         Unread("server")' = Unread("server")
  PROVE  Overheard'
BY Zenon DEF Overheard

LEMMA OverheardCut ==
  ASSUME IInv, Reading, Overheard, asked' = asked, open'["server"] => open["server"],
         line'["server"] = line["server"],
         Pending("server")' \in Octets, NEW r \in Octets,
         Pending("server")' \o r = Pending("server")
  PROVE  Overheard'
<1>1. SUFFICES ASSUME open["server"]
               PROVE  \E t, rest \in Octets : (t \o Unread("server")') \o rest = asked
  BY DEF Overheard
<1> DEFINE u == Unread("server")
           v == Unread("server")'
<1>2. v \in Octets /\ v \o r = u
  BY CutUnread
<1>3. PICK t \in Octets, rest \in Octets : (t \o u) \o rest = asked
  BY <1>1 DEF Overheard
<1> HIDE DEF u, v
<1>4. (t \o v) \o r = t \o (v \o r) /\ t \o v \in Octets
  <2>1. \A b, c \in Octets : (t \o b) \o c = t \o (b \o c)
    BY <1>3, Associative, Zenon
  <2>2. (t \o v) \o r = t \o (v \o r)
    BY <1>2, <2>1, Zenon
  <2>3. QED
    BY <1>2, <1>3, <2>2, Join
<1> DEFINE tv == t \o v
<1>5. tv \in Octets /\ (tv \o r) \o rest = asked
  BY <1>2, <1>3, <1>4
<1> HIDE DEF tv
<1>6. (tv \o r) \o rest = tv \o (r \o rest)
  <2>1. \A b, c \in Octets : (tv \o b) \o c = tv \o (b \o c)
    BY <1>5, Associative, Zenon
  <2>2. QED
    BY <1>3, <2>1, Zenon
<1>7. r \o rest \in Octets
  BY <1>3, Join
<1>8. QED
  BY <1>3, <1>5, <1>6, <1>7 DEF tv, v

-----------------------------------------------------------------------------
(* Every step keeps what the programs know of each other.                  *)
LEMMA ConnectTalk ==
  ASSUME IInv, Talk, Connect
  PROVE  Talk'
<1>1. /\ pc["client"] = "connect" /\ program' = program /\ buf' = buf /\ times' = times
      /\ line' = Nothing /\ rio_buf' = Nothing /\ wire' = Nothing /\ out' = Nothing
      /\ open' = [e \in End |-> TRUE] /\ reset' = [e \in End |-> FALSE]
      /\ pc' = [client |-> "send", server |-> "request"]
      /\ program = "client" => name' \in DOMAIN File
      /\ program # "other" => asked' = Request(name')
      /\ uri' = 0 /\ method' = 0 /\ length' = 0 /\ csum' = 0
      /\ length_received' = 0 /\ csum_received' = 0
  BY DEF Connect, Open, Asks
<1>2. <<>> \in Octets /\ <<>> \o <<>> = <<>> /\ OneLine(<<>>)
  BY EmptySeq, Join DEF Octets, OneLine
<1>3. Reading'
  BY <1>1, <1>2 DEF Reading, Nothing
<1>4. \A e \in End : Unread(e)' = <<>>
  <2>1. SUFFICES ASSUME NEW e \in End PROVE Unread(e)' = <<>>
    OBVIOUS
  <2>2. Peer(e) \in End
    BY Ends
  <2>3. Pending(e)' = <<>>
    BY <1>1, <1>2, <2>2 DEF Pending, Nothing
  <2>4. QED
    BY <1>1, <1>2, <2>3 DEF Unread, Nothing
<1>5. Stages'
  BY <1>1 DEF Talk, Stages
<1>6. Heard'
  <2>1. Understood' \/ program' = "other"
    BY <1>1 DEF Understood
  <2>2. {uri', method'} \subseteq Byte /\ buf' \in Octets
    BY <1>1 DEF Talk, Heard, Byte
  <2>3. QED
    BY <1>1, <1>4, <2>1, <2>2 DEF Heard, End
<1>7. Overheard'
  <2>1. asked' \in Octets
    <3>1. IInv'
      BY ConnectGood DEF Good
    <3>2. QED
      BY <3>1 DEF IInv, Named
  <2>2. Unread("server")' = <<>> /\ (<<>> \o <<>>) \o asked' = asked'
    BY <1>2, <1>4, <2>1, Join DEF End
  <2>3. QED
    BY <1>2, <2>1, <2>2 DEF Overheard
<1>8. NoReset'
  BY <1>1 DEF NoReset, Nothing, End
<1>9. Told'
  BY <1>1, <1>4 DEF Told, Answered, Fresh, End
<1>10. Counted'
  BY <1>1 DEF Talk, Counted
<1>11. QED
  BY <1>3, <1>5, <1>6, <1>7, <1>8, <1>9, <1>10 DEF Talk

LEMMA SendTalk ==
  ASSUME IInv, Talk, MaxLine >= 4, Send
  PROVE  Talk'
<1>1. /\ pc["client"] = "send" /\ Say("client", asked) /\ Goto("client", "status")
      /\ UNCHANGED <<client, server>>
  BY DEF Send
<1>2. /\ pc["server"] = "request" /\ Unread("server") = <<>> /\ "client" \in End
      /\ "server" \in End /\ Peer("client") = "server"
      /\ open["client"] /\ open["server"]
  BY <1>1 DEF Talk, Heard, IInv, Connected, Inside, End, Peer
<1>3. asked \in Octets /\ asked \o <<>> = asked /\ <<>> \in Octets
  BY EmptySeq, Join DEF IInv, Named, Octets
<1>4. /\ pc'["client"] = "status" /\ pc'["server"] = "request"
      /\ line' = line /\ reset' = reset /\ open' = open
      /\ out' = [out EXCEPT !["client"] = asked]
      /\ program' = program /\ name' = name /\ asked' = asked
      /\ uri' = uri /\ method' = method /\ buf' = buf
  BY <1>1, <1>2, GotoOnly DEF Say, client, server
<1>5. Pending("client")' = Pending("client") /\ Pending("server")' = Pending("server") \o asked
  BY <1>1, <1>2, <1>3, SayStep DEF IInv
<1>6. Unread("client")' = Unread("client")
  BY <1>4, <1>5 DEF Unread
<1>7. Unread("server")' = asked
  <2>1. line["server"] \in Octets /\ Pending("server") \in Octets
    BY <1>2, UnreadOctets DEF Talk
  <2>2. line["server"] = <<>> /\ Pending("server") = <<>>
    BY <1>2, <2>1, ConcatEqualIffEmpty DEF Unread, Octets
  <2>3. QED
    BY <1>3, <1>4, <1>5, <2>2, Join DEF Unread
<1>8. Reading'
  BY <1>1, <1>2, ReadingKept DEF Talk
<1>9. Stages'
  BY <1>4 DEF Talk, Stages
<1>10. Heard'
  <2>1. ASSUME program # "other" PROVE asked = RequestLine \o Headers
    <3>1. RequestLine \in Octets /\ HostLine \in Octets /\ CRLF \in Octets
      BY TheLines DEF Line
    <3>2. asked = (RequestLine \o HostLine) \o CRLF
      BY <1>2, <2>1 DEF Talk, Heard, Understood, Request, RequestLine, HostLine
    <3>3. asked = RequestLine \o (HostLine \o CRLF)
      BY <3>1, <3>2, Associative
    <3>4. QED
      BY <3>3 DEF Headers
  <2>2. RequestLine' = RequestLine /\ Headers' = Headers /\ Request(name)' = Request(name)
    BY <1>4, SameRequest
  <2>3. program # "other" => Hears(RequestLine \o Headers)'
    BY <1>3, <1>7, <2>1, <2>2 DEF Hears
  <2>4. program # "other" => Understood'
    BY <1>2, <1>4, <2>2, <2>3 DEF Talk, Heard, Understood
  <2>5. QED
    BY <1>2, <1>4, <2>4 DEF Talk, Heard
<1>11. Overheard'
  <2>1. (<<>> \o asked) \o <<>> = asked
    BY <1>3, Join
  <2>2. QED
    BY <1>3, <1>4, <1>7, <2>1 DEF Overheard
<1>12. NoReset'
  BY <1>2, <1>4 DEF Talk, NoReset, IInv, Carried, End
<1>13. Told'
  BY <1>1, <1>2, <1>4, <1>6 DEF Talk, Told, Answered, Fresh, client
<1>14. Counted'
  BY <1>1, <1>4 DEF Talk, Counted, client
<1>15. QED
  BY <1>8, <1>9, <1>10, <1>11, <1>12, <1>13, <1>14 DEF Talk

(* A byte goes from what is pending to the line.                           *)
LEMMA NextByteUnread ==
  ASSUME IInv, Reading, NEW e \in End, open[e], NextByte(e)
  PROVE  \A x \in End : Unread(x)' = Unread(x)
<1> DEFINE l == line[e]
           p == Pending(e)
           h == Head(p)
           q == Tail(p)
<1>1. /\ l \in Octets /\ p \in Octets /\ p # <<>> /\ Pending(e)' = q
      /\ Head(rio_buf[e]) = h
      /\ \A x \in End : x # e => Pending(x)' = Pending(x)
  BY UnreadOctets, NextByteStep DEF IInv
<1>2. line' = [line EXCEPT ![e] = Append(l, h)]
  BY <1>1 DEF NextByte
<1> HIDE DEF l, p
<1>3. h \in Byte /\ q \in Octets /\ Len(q) = Len(p) - 1 /\ \A i \in 1 .. Len(q) : q[i] = p[i + 1]
  BY <1>1, HeadTailProperties DEF Octets
<1>4. Append(l, h) = l \o <<h>> /\ <<h>> \in Octets
  BY <1>1, <1>3, AppendIsConcat DEF Octets
<1>5. <<h>> \o q = p
  <2>1. /\ <<h>> \o q \in Octets /\ Len(<<h>> \o q) = 1 + Len(q)
        /\ \A i \in 1 .. 1 + Len(q) : (<<h>> \o q)[i] = IF i <= 1 THEN h ELSE q[i - 1]
    BY <1>3, <1>4, ConcatProperties DEF Octets
  <2>2. Len(p) \in Nat /\ h = p[1]
    BY <1>1, LenProperties DEF Octets
  <2>3. Len(<<h>> \o q) = Len(p)
    BY <1>3, <2>1, <2>2
  <2>4. \A i \in 1 .. Len(p) : (<<h>> \o q)[i] = p[i]
    BY <1>3, <2>1, <2>2
  <2>5. QED
    BY <1>1, <2>1, <2>3, <2>4, SeqEqual DEF Octets
<1> HIDE DEF h, q
<1>6. (l \o <<h>>) \o q = l \o p
  <2>1. \A b, c \in Octets : (l \o b) \o c = l \o (b \o c)
    BY <1>1, Associative, Zenon
  <2>2. QED
    BY <1>3, <1>4, <1>5, <2>1
<1>7. Unread(e)' = Unread(e)
  <2>1. line'[e] = l \o <<h>>
    BY <1>2, <1>4 DEF Reading
  <2>2. QED
    BY <1>1, <1>6, <2>1 DEF Unread, l, p
<1>8. ASSUME NEW x \in End, x # e PROVE Unread(x)' = Unread(x)
  BY <1>1, <1>2, <1>8 DEF Unread, Reading
<1>9. QED
  BY <1>7, <1>8

LEMMA TransferTalk ==
  ASSUME IInv, Talk, NEW e \in End, WriteOn(e) \/ ReadOn(e)
  PROVE  Talk'
<1>1. /\ pc' = pc /\ UNCHANGED <<client, server>>
      /\ program' = program /\ name' = name /\ asked' = asked
  BY DEF WriteOn, ReadOn, client
<1>2. ReadOn(e) => open[e] /\ pc[e] \in Reads[e]
  BY DEF ReadOn, Reads, IInv, Connected, Inside, End
<1>3. Reading'
  BY <1>2, ReadingKept DEF WriteOn, ReadOn, Talk
<1>4. open' = open /\ \A x \in End : Unread(x)' = Unread(x)
  <2>1. CASE WriteOn(e)
    BY <2>1, WriteStep DEF IInv, Unread, WriteOn, Write
  <2>2. CASE ReadOn(e) /\ Refill(e)
    BY <1>2, <2>2, RefillStep DEF IInv, Unread, Refill
  <2>3. CASE ReadOn(e) /\ NextByte(e)
    BY <1>2, <2>3, NextByteUnread DEF Talk, NextByte
  <2>4. QED
    BY <2>1, <2>2, <2>3 DEF ReadOn
<1>5. Stages'
  BY <1>1, <1>4 DEF Talk, Stages
<1>6. ASSUME pc["server"] \in {"respond", "reply"}
      PROVE  line'["server"] = line["server"] /\ Pending("server")' = Pending("server")
  <2>1. CASE WriteOn(e)
    BY <2>1, WriteStep DEF IInv, WriteOn, Write, End
  <2>2. CASE ReadOn(e) /\ Refill(e)
    BY <1>2, <2>2, RefillStep DEF IInv, Refill, End
  <2>3. CASE ReadOn(e) /\ NextByte(e)
    <3>1. e # "server"
      BY <1>2, <1>6, <2>3 DEF Reads
    <3>2. "server" \in End /\ Pending("server")' = Pending("server")
      BY <1>2, <2>3, <3>1, NextByteStep DEF IInv, End
    <3>3. QED
      BY <2>3, <3>1, <3>2 DEF NextByte, Talk, Reading
  <2>4. QED
    BY <2>1, <2>2, <2>3 DEF ReadOn
<1>7. Heard'
  <2>1. Unread("server")' = Unread("server")
    BY <1>4 DEF End
  <2>2. QED
    BY <1>1, <1>4, <1>6, <2>1, HeardKept DEF Talk
<1>8. Told'
  <2>1. Unread("client")' = Unread("client") /\ Answered' = Answered
    BY <1>1, <1>4 DEF End, Answered
  <2>2. QED
    BY <1>1, <1>4, <2>1, ToldKept DEF Talk, client, server
<1>9. NoReset'
  <2>1. CASE ReadOn(e)
    BY <1>1, <1>4, <2>1 DEF Talk, NoReset, ReadOn, Refill, NextByte
  <2>2. CASE WriteOn(e)
    <3>1. \A x \in End : x # e => out'[x] = out[x] /\ reset'[x] = reset[x]
      BY <2>2 DEF WriteOn, Write, IInv, Carried, Talk, Reading
    <3>2. out[e] # <<>> /\ (reset' = reset \/ ~open[Peer(e)])
      BY <2>2 DEF WriteOn, Write
    <3>3. CASE e = "client"
      BY <1>1, <1>4, <3>1, <3>2, <3>3 DEF Talk, NoReset, End, Peer
    <3>4. CASE e = "server"
      BY <1>1, <1>4, <3>1, <3>2, <3>4 DEF Talk, NoReset, End, Peer
    <3>5. QED
      BY <3>3, <3>4 DEF End
  <2>3. QED
    BY <2>1, <2>2
<1>10. Counted'
  BY <1>1 DEF Talk, Counted, client
<1>11. Overheard'
  BY <1>1, <1>4, OverheardKept DEF Talk, End
<1>12. QED
  BY <1>3, <1>5, <1>7, <1>8, <1>9, <1>10, <1>11 DEF Talk

LEMMA FivePieces ==
  \A a, b, c, d, p \in Octets :
    (((a \o b) \o c) \o d) \o p = a \o (b \o (c \o (d \o p)))
<1> SUFFICES ASSUME NEW a \in Octets, NEW b \in Octets, NEW c \in Octets, NEW d \in Octets,
                    NEW p \in Octets
             PROVE  (((a \o b) \o c) \o d) \o p = a \o (b \o (c \o (d \o p)))
  OBVIOUS
<1> DEFINE ab == a \o b
           abc == ab \o c
           dp == d \o p
           cdp == c \o dp
<1>1. ab \in Octets /\ abc \in Octets /\ dp \in Octets /\ cdp \in Octets
  BY Join
<1> HIDE DEF ab, abc, dp, cdp
<1>2. (abc \o d) \o p = abc \o (d \o p)
  <2>1. \A y, z \in Octets : (abc \o y) \o z = abc \o (y \o z)
    BY <1>1, Associative, Zenon
  <2>2. QED
    BY <1>1, <2>1, Zenon
<1>3. (ab \o c) \o dp = ab \o (c \o dp)
  <2>1. \A y, z \in Octets : (ab \o y) \o z = ab \o (y \o z)
    BY <1>1, Associative, Zenon
  <2>2. QED
    BY <1>1, <2>1, Zenon
<1>4. (a \o b) \o cdp = a \o (b \o cdp)
  <2>1. \A y, z \in Octets : (a \o y) \o z = a \o (y \o z)
    BY <1>1, Associative, Zenon
  <2>2. QED
    BY <1>1, <2>1, Zenon
<1>5. (abc \o d) \o p = a \o (b \o cdp)
  BY <1>2, <1>3, <1>4 DEF ab, abc, dp, cdp
<1>6. QED
  BY <1>5 DEF ab, abc, dp, cdp

LEMMA RespondTalk ==
  ASSUME IInv, Talk, MaxLine >= 4, Respond
  PROVE  Talk'
<1> DEFINE s == Answer(Page)
<1>1. /\ pc["server"] = "respond" /\ Say("server", s) /\ Goto("server", "reply")
      /\ UNCHANGED <<client, server>>
  BY DEF Respond
<1>2. /\ "client" \in End /\ "server" \in End /\ Peer("server") = "client"
      /\ open["server"]
  BY <1>1 DEF IInv, Connected, Inside, End, Peer
<1>3. s \in Octets
  BY TheLines, SaidIsOctets DEF Octets
<1>4. s = StatusLine \o Sizes
  <2>1. /\ StatusLine \in Octets /\ LengthLine \in Octets /\ CsumLine \in Octets
        /\ CRLF \in Octets /\ Page \in Octets
    BY TheLines DEF Line
  <2>2. s = (((StatusLine \o LengthLine) \o CsumLine) \o CRLF) \o Page
    BY DEF Answer, StatusLine, LengthLine, CsumLine
  <2>3. (((StatusLine \o LengthLine) \o CsumLine) \o CRLF) \o Page
          = StatusLine \o (LengthLine \o (CsumLine \o (CRLF \o Page)))
    <3>1. \A c, d, p \in Octets :
            (((StatusLine \o LengthLine) \o c) \o d) \o p
              = StatusLine \o (LengthLine \o (c \o (d \o p)))
      BY <2>1, FivePieces, ZenonT(60)
    <3>2. QED
      BY <2>1, <3>1, ZenonT(60)
  <2>4. QED
    BY <2>2, <2>3 DEF Sizes, Sums
<1> HIDE DEF s
<1>5. /\ pc'["server"] = "reply" /\ pc'["client"] = pc["client"]
      /\ line' = line /\ reset' = reset /\ open' = open
      /\ out' = [out EXCEPT !["server"] = s]
      /\ program' = program /\ name' = name /\ asked' = asked
      /\ uri' = uri /\ method' = method /\ buf' = buf
      /\ UNCHANGED <<length, csum, length_received, csum_received, times>>
  BY <1>1, GotoOnly DEF Say, client, server
<1>6. /\ Pending("server")' = Pending("server")
      /\ open["client"] => Pending("client")' = Pending("client") \o s
  BY <1>1, <1>2, <1>3, SayStep DEF IInv
<1>7. Reading'
  BY <1>1, <1>2, ReadingKept DEF Talk
<1>8. Stages'
  BY <1>5 DEF Talk, Stages
<1>9. Heard'
  <2>1. Request(name)' = Request(name)
    BY <1>5, SameRequest
  <2>2. Understood => Understood'
    BY <1>1, <1>5, <1>6, <2>1 DEF Understood
  <2>3. QED
    BY <1>1, <1>5, <2>2 DEF Talk, Heard
<1>10. Overheard'
  BY <1>5, <1>6, OverheardKept DEF Talk, Unread
<1>11. NoReset'
  BY <1>2, <1>5 DEF Talk, NoReset, IInv, Carried, End
<1>12. Told'
  <2>1. SUFFICES ASSUME open["client"] PROVE AtStatus'
    BY <1>5 DEF Told, Answered
  <2>2. pc["client"] = "status" /\ Unread("client") = <<>> /\ Fresh
    BY <1>1, <2>1 DEF Talk, Told, Answered, Heard
  <2>3. line["client"] = <<>> /\ Pending("client") = <<>>
    <3>1. line["client"] \in Octets /\ Pending("client") \in Octets
      BY <1>2, UnreadOctets DEF Talk
    <3>2. QED
      BY <2>2, <3>1, ConcatEqualIffEmpty DEF Unread, Octets
  <2>4. Unread("client")' = s
    BY <1>3, <1>5, <1>6, <2>1, <2>3, Join DEF Unread
  <2>5. StatusLine' = StatusLine /\ Sizes' = Sizes
    BY <1>5, SameAnswer
  <2>6. QED
    BY <1>4, <1>5, <2>2, <2>4, <2>5 DEF AtStatus, Fresh
<1>13. Counted'
  BY <1>5 DEF Talk, Counted
<1>14. QED
  BY <1>7, <1>8, <1>9, <1>10, <1>11, <1>12, <1>13 DEF Talk

(* What is pending for a worker that has read its request is nothing.      *)
LEMMA NothingLeft ==
  ASSUME IInv, NEW e \in End, open[e], Pending(e) = <<>>
  PROVE  rio_buf[e] = <<>> /\ wire[e] = <<>> /\ out[Peer(e)] = <<>>
<1> DEFINE a == rio_buf[e]
           b == wire[e]
           c == out[Peer(e)]
<1>1. a \in Octets /\ b \in Octets /\ c \in Octets /\ a \o b \in Octets
  BY Ends, Join DEF IInv, Carried
<1>2. (a \o b) \o c = <<>>
  BY DEF Pending
<1> HIDE DEF a, b, c
<1>3. a \o b = <<>> /\ c = <<>>
  BY <1>1, <1>2, ConcatEqualIffEmpty DEF Octets
<1>4. a = <<>> /\ b = <<>>
  BY <1>1, <1>3, ConcatEqualIffEmpty DEF Octets
<1>5. QED
  BY <1>3, <1>4 DEF a, b, c

LEMMA FinishTalk ==
  ASSUME IInv, Talk, Finish
  PROVE  Talk'
<1>1. /\ pc["server"] = "reply" /\ out["server"] = <<>> /\ Close("server")
      /\ Goto("server", "accept") /\ UNCHANGED <<client, server>>
  BY DEF Finish, Destroy
<1>2. /\ "client" \in End /\ "server" \in End /\ Peer("server") = "client"
      /\ Peer("client") = "server" /\ open["server"]
  BY <1>1 DEF IInv, Connected, Inside, End, Peer
<1>3. /\ pc'["server"] = "accept" /\ pc'["client"] = pc["client"]
      /\ line' = [line EXCEPT !["server"] = <<>>]
      /\ open' = [open EXCEPT !["server"] = FALSE]
      /\ reset' = [reset EXCEPT !["client"] = reset["client"] \/ wire["server"] # <<>>]
      /\ out' = [out EXCEPT !["server"] = <<>>] /\ program' = program /\ name' = name /\ asked' = asked
      /\ uri' = uri /\ method' = method /\ buf' = buf
      /\ UNCHANGED <<length, csum, length_received, csum_received, times>>
  BY <1>1, <1>2, GotoOnly DEF Close, client, server
<1>4. /\ open'["client"] = open["client"] /\ out'["client"] = out["client"]
      /\ line'["client"] = line["client"] /\ out'["server"] = <<>>
  BY <1>2, <1>3 DEF IInv, Carried, Talk, Reading
<1>5. Unread("client")' = Unread("client")
  <2>1. PICK r \in Octets : Pending("client")' \o r = Pending("client") /\ r = <<>>
    BY <1>1, <1>2, CloseStep DEF IInv
  <2>2. rio_buf'["client"] = rio_buf["client"] /\ wire'["client"] = wire["client"]
    BY <1>1, <1>2 DEF Close, IInv, Carried
  <2>3. Pending("client")' = Pending("client")
    BY <1>1, <1>2, <1>4, <2>2 DEF Pending
  <2>4. QED
    BY <1>4, <2>3 DEF Unread
<1>6. Reading'
  BY <1>1, <1>2, ReadingKept DEF Talk
<1>7. Stages'
  BY <1>3, <1>4 DEF Talk, Stages
<1>8. Heard'
  <2>1. Request(name)' = Request(name)
    BY <1>3, SameRequest
  <2>2. Understood => Understood'
    BY <1>1, <1>3, <1>4, <2>1 DEF Understood
  <2>3. QED
    BY <1>1, <1>3, <2>2 DEF Talk, Heard
<1>9. NoReset'
  <2>1. SUFFICES ASSUME program # "other"
                 PROVE  /\ ~reset'["client"] /\ pc'["client"] # "exit"
                        /\ out'["client"] = <<>>
    BY <1>3, <1>4 DEF NoReset
  <2>2. wire["server"] = <<>> /\ out["client"] = <<>>
    BY <1>1, <1>2, <2>1, NothingLeft DEF Talk, Heard, Understood
  <2>3. ~reset["client"] /\ pc["client"] # "exit"
    BY <2>1 DEF Talk, NoReset
  <2>4. QED
    BY <1>2, <1>3, <1>4, <2>2, <2>3 DEF Talk, Reading
<1>10. Told'
  <2>1. Answered' <=> Answered
    BY <1>1, <1>3 DEF Answered
  <2>2. QED
    BY <1>1, <1>3, <1>4, <1>5, <2>1, ToldKept DEF Talk
<1>11. Counted'
  BY <1>3 DEF Talk, Counted
<1>12. Overheard'
  BY <1>2, <1>3 DEF Overheard, IInv, Carried
<1>13. QED
  BY <1>6, <1>7, <1>8, <1>9, <1>10, <1>11, <1>12 DEF Talk

LEMMA ServerFailsTalk ==
  ASSUME IInv, Talk, ServerFails
  PROVE  Talk'
<1>1. /\ \/ out["server"] # <<>> /\ ~open["client"]
         \/ pc["server"] \in {"request", "headers"} /\ wire["server"] = <<>> /\ ~open["client"]
      /\ Close("server") /\ Goto("server", "exit") /\ UNCHANGED <<client, server>>
  BY DEF ServerFails, WriteFails, ReadFails, Dry, Reads, Peer
<1>2. /\ "client" \in End /\ "server" \in End /\ Peer("server") = "client"
      /\ ~open["client"] /\ out["client"] = <<>> /\ pc["client"] # "send"
      /\ open["server"]
  <2>1. open["server"]
    BY FailsOpen DEF ServerFails, End
  <2>2. QED
    BY <1>1, <2>1 DEF IInv, Connected, Quiet, Inside, End, Peer
<1>3. /\ pc'["server"] = "exit" /\ pc'["client"] = pc["client"]
      /\ line' = [line EXCEPT !["server"] = <<>>]
      /\ open' = [open EXCEPT !["server"] = FALSE]
      /\ reset' = [reset EXCEPT !["client"] = reset["client"] \/ wire["server"] # <<>>]
      /\ out' = [out EXCEPT !["server"] = <<>>] /\ program' = program /\ name' = name /\ asked' = asked
      /\ uri' = uri /\ method' = method /\ buf' = buf
      /\ UNCHANGED <<length, csum, length_received, csum_received, times>>
  BY <1>1, <1>2, GotoOnly DEF Close, client, server
<1>4. ~open'["client"] /\ out'["client"] = <<>> /\ out'["server"] = <<>>
  BY <1>2, <1>3 DEF IInv, Carried
<1>5. Reading'
  BY <1>1, <1>2, ReadingKept DEF Talk
<1>6. Stages'
  BY <1>3, <1>4 DEF Talk, Stages
<1>7. Heard'
  <2>1. Understood'
    BY <1>3, <1>4 DEF Understood
  <2>2. QED
    BY <1>2, <1>3, <2>1 DEF Talk, Heard
<1>8. NoReset'
  <2>1. SUFFICES ASSUME program # "other"
                 PROVE  ~reset'["client"] /\ pc'["client"] # "exit"
    BY <1>3, <1>4 DEF NoReset
  <2>2. wire["server"] = <<>>
    <3>1. CASE out["server"] # <<>>
      <4>1. Pending("server") = <<>>
        BY <2>1, <3>1 DEF Talk, NoReset, Heard, Understood
      <4>2. QED
        BY <1>2, <3>1, <4>1, NothingLeft
    <3>2. QED
      BY <1>1, <3>1
  <2>3. ~reset["client"] /\ pc["client"] # "exit"
    BY <2>1 DEF Talk, NoReset
  <2>4. QED
    BY <1>2, <1>3, <2>2, <2>3 DEF Talk, Reading
<1>9. Told'
  BY <1>4 DEF Told
<1>10. Counted'
  BY <1>3 DEF Talk, Counted
<1>11. Overheard'
  BY <1>2, <1>3 DEF Overheard, IInv, Carried
<1>12. QED
  BY <1>5, <1>6, <1>7, <1>8, <1>9, <1>10, <1>11 DEF Talk

LEMMA AlwaysOctets == Carried => \A e \in End : Pending(e) \in Octets
BY PendingOctets

(* The client closes its end and goes to l.                                *)
LEMMA CloseTalk ==
  ASSUME IInv, Talk, MaxLine >= 4, open["client"], Close("client"), UNCHANGED server,
         NEW l \in {"connect", "done", "exit", "smashed", "dead"}, Goto("client", l),
         l = "exit" => program = "other",
         UNCHANGED <<program, name, asked, length, csum, length_received, csum_received>>
  PROVE  Reading' /\ Stages' /\ Heard' /\ Overheard' /\ NoReset' /\ Told'
<1>1. /\ "client" \in End /\ "server" \in End /\ Peer("client") = "server"
  BY DEF End, Peer
<1>2. /\ pc'["client"] = l /\ pc'["server"] = pc["server"]
      /\ line' = [line EXCEPT !["client"] = <<>>]
      /\ open' = [open EXCEPT !["client"] = FALSE]
      /\ reset' = [reset EXCEPT !["server"] = reset["server"] \/ wire["client"] # <<>>]
      /\ out' = [out EXCEPT !["client"] = <<>>]
  BY <1>1, GotoOnly DEF Close
<1>3. /\ ~open'["client"] /\ open'["server"] = open["server"]
      /\ line'["server"] = line["server"] /\ reset'["client"] = reset["client"]
      /\ out'["client"] = <<>> /\ out'["server"] = out["server"]
  BY <1>1, <1>2 DEF IInv, Carried, Talk, Reading
<1>4. Reading'
  BY <1>1, ReadingKept DEF Talk
<1>5. Stages'
  BY <1>2, <1>3 DEF Talk, Stages
<1>6. Pending("server")' \in Octets
  <2>1. Carried'
    BY <1>1, CloseStep DEF IInv
  <2>2. (Carried => \A e \in End : Pending(e) \in Octets)'
    BY AlwaysOctets, PTL
  <2>3. QED
    BY <1>1, <2>1, <2>2
<1>7. PICK r \in Octets : Pending("server")' \o r = Pending("server")
  BY <1>1, CloseStep DEF IInv
<1>8. Heard'
  <2>1. RequestLine \o Headers \in Octets
    BY TheLines, Join DEF Line
  <2>2. QED
    BY <1>2, <1>3, <1>6, <1>7, <2>1, HeardCut DEF Talk
<1>9. Overheard'
  BY <1>3, <1>6, <1>7, OverheardCut DEF Talk
<1>10. NoReset'
  BY <1>2, <1>3 DEF Talk, NoReset
<1>11. Told'
  BY <1>3 DEF Told
<1>12. QED
  BY <1>4, <1>5, <1>8, <1>9, <1>10, <1>11

(* The assertions of client_print hold where they are checked.             *)
LEMMA CheckTalk ==
  ASSUME IInv, Talk, MaxLine >= 4, Check
  PROVE  Talk'
<1>1. /\ pc["client"] = "check" /\ Close("client") /\ UNCHANGED server
      /\ Goto("client", IF ~Assertions THEN "abort"
                        ELSE IF program = "client" /\ Again THEN "connect" ELSE "done")
      /\ times' = times + 1
      /\ UNCHANGED <<program, name, asked, length, csum, length_received, csum_received>>
  BY DEF Check
<1>2. open["client"]
  BY <1>1 DEF IInv, Connected, Inside, End
<1>3. AtEnd \/ Cut
  BY <1>1, <1>2 DEF Talk, Told, AtStatus, AtHeaders, InBody
<1>4. ASSUME Cut PROVE Assertions
  BY <1>4 DEF Cut, Talk, Stages, Assertions
<1>5. ASSUME AtEnd PROVE Assertions
  <2>1. pc["server"] # "request"
    BY <1>1, <1>2 DEF Talk, Told, Answered
  <2>2. program = "client" => Page = File[name]
    BY <1>2, <2>1 DEF Talk, Stages, Heard, Understood, Page
  <2>3. QED
    BY <1>5, <2>2 DEF AtEnd, Assertions, FileReceived, SizeReceived
<1>6. PICK l \in {"connect", "done"} : Goto("client", l) /\ (l = "connect" => Again)
  BY <1>1, <1>3, <1>4, <1>5
<1>7. Reading' /\ Stages' /\ Heard' /\ Overheard' /\ NoReset' /\ Told'
  BY <1>1, <1>2, <1>6, CloseTalk
<1>8. Counted'
  <2>1. times \in Nat /\ NrTimes \in Nat /\ times < NrTimes
    BY <1>1, ExchangeAssumption DEF Talk, Counted
  <2>2. pc'["client"] = l
    BY <1>6, GotoOnly
  <2>3. QED
    BY <1>1, <1>6, <2>1, <2>2 DEF Talk, Counted, Again
<1>9. QED
  BY <1>7, <1>8 DEF Talk

LEMMA LeaveTalk ==
  ASSUME IInv, Talk, MaxLine >= 4, ClientFails \/ ClientSmashed \/ ClientKilled
  PROVE  Talk'
<1>1. PICK l \in {"exit", "smashed", "dead"} :
        /\ ClientLeaves(l)
        /\ l = "exit" =>
             \/ out["client"] # <<>> /\ ~open["server"]
             \/ reset["client"]
  BY DEF ClientFails, ClientSmashed, ClientKilled, WriteFails, ReadFails, Peer
<1>2. /\ Close("client") /\ Goto("client", l) /\ UNCHANGED server
      /\ UNCHANGED <<program, name, asked, length, csum, length_received, csum_received,
                     times>>
  BY <1>1 DEF ClientLeaves, client
<1>3. l = "exit" => program = "other"
  BY <1>1 DEF Talk, NoReset
<1>4. Reading' /\ Stages' /\ Heard' /\ Overheard' /\ NoReset' /\ Told'
  <2>1. open["client"]
    BY FailsOpen DEF ClientFails, ClientSmashed, ClientKilled, End
  <2>2. QED
    BY <1>2, <1>3, <2>1, CloseTalk
<1>5. Counted'
  <2>1. pc'["client"] = l
    BY <1>2, GotoOnly
  <2>2. QED
    BY <1>2, <2>1 DEF Talk, Counted
<1>6. QED
  BY <1>4, <1>5 DEF Talk
-----------------------------------------------------------------------------
(* What the callers of rio_readlineb learn.                                *)
LEMMA NextLineUnread ==
  ASSUME IInv, Reading, NEW e \in End, NextLine(e)
  PROVE  /\ Unread(e)' = Pending(e) /\ line'[e] = <<>>
         /\ Unread(Peer(e))' = Unread(Peer(e)) /\ line'[Peer(e)] = line[Peer(e)]
         /\ \A x \in End : Pending(x)' = Pending(x)
         /\ open' = open /\ out' = out /\ reset' = reset
<1>1. /\ line' = [line EXCEPT ![e] = <<>>]
      /\ wire' = wire /\ open' = open /\ reset' = reset /\ rio_buf' = rio_buf /\ out' = out
  BY DEF NextLine
<1>2. \A x \in End : Pending(x)' = Pending(x)
  BY <1>1 DEF Pending
<1>3. Peer(e) \in End /\ Peer(e) # e
  BY Ends
<1>4. line'[e] = <<>> /\ line'[Peer(e)] = line[Peer(e)]
  BY <1>1, <1>3 DEF Reading
<1>5. <<>> \o Pending(e) = Pending(e)
  BY UnreadOctets, Join
<1>6. QED
  BY <1>1, <1>2, <1>3, <1>4, <1>5 DEF Unread

LEMMA DryIsNothing ==
  ASSUME IInv, NEW e \in End, Dry(e)
  PROVE  Pending(e) = <<>> /\ ~open[Peer(e)]
<1>1. rio_buf[e] = <<>> /\ wire[e] = <<>> /\ out[Peer(e)] = <<>> /\ ~open[Peer(e)]
  BY Ends DEF Dry, IInv, Quiet
<1>2. <<>> \o <<>> = <<>>
  BY EmptySeq, Join DEF Octets
<1>3. QED
  BY <1>1, <1>2 DEF Pending

LEMMA ClientLine ==
  ASSUME IInv, Reading, Returns("client"), NEW one, Line(one), NEW t \in Octets,
         Unread("client") = one \o t
  PROVE  line["client"] = one /\ Pending("client") = t
<1> DEFINE l == line["client"]
           p == Pending("client")
<1>1. l \in Octets /\ p \in Octets /\ OneLine(l) /\ "client" \in End
  BY UnreadOctets DEF Reading, End
<1>2. l \o p = one \o t
  BY DEF Unread
<1>3. \/ l # <<>> /\ (Last(l) = NL \/ Len(l) = MaxLine)
      \/ p = <<>>
  BY <1>1, DryIsNothing DEF Returns, LineRead
<1> HIDE DEF l, p
<1>4. Within(l, p, one, t)
  BY <1>1, <1>2, HeadLine
<1>5. l = one /\ p = t
  BY <1>3, <1>4 DEF Within
<1>6. QED
  BY <1>5 DEF l, p

(* The worker has the next line; or the client is dead, and nothing is     *)
(* left of what it said.                                                   *)
LEMMA ServerLine ==
  ASSUME IInv, Reading, Returns("server"), NEW one, Line(one), NEW t \in Octets,
         Hears(one \o t)
  PROVE  /\ \/ line["server"] = one
            \/ ~open["client"] /\ Pending("server") = <<>>
         /\ \E r \in Octets : Pending("server") \o r = t /\ (open["client"] => r = <<>>)
         /\ Len(line["server"]) <= Len(one)
         /\ \A i \in 1 .. Len(line["server"]) : line["server"][i] = one[i]
<1> DEFINE l == line["server"]
           p == Pending("server")
<1>1. l \in Octets /\ p \in Octets /\ OneLine(l) /\ "server" \in End /\ Peer("server") = "client"
  BY UnreadOctets DEF Reading, End, Peer
<1>2. PICK r \in Octets : (l \o p) \o r = one \o t /\ (open["client"] => r = <<>>)
  BY DEF Hears, Unread
<1>3. LineRead("server") => l # <<>> /\ (Last(l) = NL \/ Len(l) = MaxLine)
  BY DEF LineRead
<1>4. Dry("server") => p = <<>> /\ ~open["client"]
  BY <1>1, DryIsNothing
<1> HIDE DEF l, p
<1>5. l \o (p \o r) = one \o t /\ p \o r \in Octets
  <2>1. \A b, c \in Octets : (l \o b) \o c = l \o (b \o c)
    BY <1>1, Associative, Zenon
  <2>2. (l \o p) \o r = l \o (p \o r)
    BY <1>1, <1>2, <2>1, Zenon
  <2>3. p \o r \in Octets
    BY <1>1, <1>2, Join
  <2>4. QED
    BY <1>2, <2>2, <2>3
<1> DEFINE q == p \o r
<1> HIDE DEF q
<1>6. Within(l, q, one, t)
  <2>1. l \o q = one \o t /\ q \in Octets
    BY <1>5 DEF q
  <2>2. QED
    BY <1>1, <2>1, HeadLine
<1>7. CASE LineRead("server")
  <2>1. l = one /\ p \o r = t
    BY <1>3, <1>6, <1>7 DEF Within, q
  <2>2. QED
    BY <1>2, <1>6, <2>1 DEF Within, l, p
<1>8. CASE Dry("server")
  <2>1. p \o t = t
    BY <1>4, <1>8, Join
  <2>2. QED
    BY <1>4, <1>6, <1>8, <2>1 DEF Within, l, p
<1>9. QED
  BY <1>7, <1>8 DEF Returns

LEMMA StillHears ==
  ASSUME IInv, Reading, NextLine("server"), NEW t,
         \E r \in Octets : Pending("server") \o r = t /\ (open["client"] => r = <<>>)
  PROVE  Hears(t)'
<1>1. Unread("server")' = Pending("server") /\ open' = open
  BY NextLineUnread DEF End
<1>2. QED
  BY <1>1 DEF Hears

LEMMA OverheardNext ==
  ASSUME IInv, Reading, Overheard, NextLine("server"), asked' = asked
  PROVE  Overheard'
<1>1. "server" \in End
  BY DEF End
<1>2. Unread("server")' = Pending("server") /\ open' = open
  BY <1>1, NextLineUnread
<1>3. SUFFICES ASSUME open["server"]
               PROVE  \E t, rest \in Octets : (t \o Pending("server")) \o rest = asked
  BY <1>2 DEF Overheard
<1> DEFINE l == line["server"]
           p == Pending("server")
<1>4. l \in Octets /\ p \in Octets
  BY <1>1, UnreadOctets
<1>5. PICK t \in Octets, rest \in Octets : (t \o (l \o p)) \o rest = asked
  BY <1>3 DEF Overheard, Unread
<1> HIDE DEF l, p
<1>6. (t \o l) \o p = t \o (l \o p)
  <2>1. \A b, c \in Octets : (t \o b) \o c = t \o (b \o c)
    BY <1>5, Associative, Zenon
  <2>2. QED
    BY <1>4, <2>1, Zenon
<1>7. t \o l \in Octets
  BY <1>4, <1>5, Join
<1>8. ((t \o l) \o p) \o rest = asked
  BY <1>5, <1>6
<1>9. QED
  BY <1>5, <1>7, <1>8 DEF p

LEMMA ScannedBytes ==
  ASSUME NEW l \in Octets, NEW i \in {1, 2}, NEW any \in SUBSET Byte
  PROVE  Scanned(l, i, any) \subseteq Byte
<1>1. Len(l) \in Nat /\ MaxLine \in Nat
  BY ConnectionAssumption, LenProperties DEF Octets
<1>2. Len(l) \in i + 1 .. MaxLine - 1 => l[i] \in Byte
  <2>1. SUFFICES ASSUME Len(l) \in i + 1 .. MaxLine - 1 PROVE l[i] \in Byte
    OBVIOUS
  <2>2. i \in 1 .. Len(l)
    BY <1>1, <2>1
  <2>3. QED
    BY <2>2, ElementOfSeq DEF Octets
<1>3. QED
  BY <1>2 DEF Scanned

LEMMA ReadRequestTalk ==
  ASSUME IInv, Talk, MaxLine >= 4, ReadRequest
  PROVE  Talk'
<1> DEFINE l == line["server"]
<1>1. /\ pc["server"] = "request" /\ Returns("server") /\ NextLine("server")
      /\ method' \in Scanned(l, 1, {GET, PUT})
      /\ uri' \in Scanned(l, 2, Name)
      /\ buf' \in {<<>>, CRLF}
      /\ Goto("server", IF method' = GET THEN "headers" ELSE "respond")
      /\ UNCHANGED client
  BY DEF ReadRequest, Back, AfterRequest
<1>2. /\ "client" \in End /\ "server" \in End /\ Peer("server") = "client"
      /\ open["client"] <=> pc["client"] \in Inside["client"]
  BY DEF IInv, Connected, End, Peer
<1>3. pc["client"] # "send"
  <2>1. SUFFICES ASSUME pc["client"] = "send", Unread("server") = <<>> PROVE FALSE
    BY DEF Talk, Heard
  <2>2. l = <<>>
    BY <1>2, <2>1, UnreadOctets, ConcatEqualIffEmpty DEF Talk, Unread, Octets
  <2>3. ~open["client"]
    BY <1>1, <1>2, <2>2, DryIsNothing DEF Returns, LineRead
  <2>4. QED
    BY <1>2, <2>1, <2>3 DEF Inside
<1>4. /\ line'["server"] = <<>> /\ line'["client"] = line["client"]
      /\ open' = open /\ out' = out /\ reset' = reset
      /\ Pending("server")' = Pending("server")
      /\ Unread("client")' = Unread("client")
  BY <1>1, <1>2, NextLineUnread DEF Talk
<1>5. /\ pc'["server"] = IF method' = GET THEN "headers" ELSE "respond"
      /\ pc'["client"] = pc["client"]
      /\ program' = program /\ name' = name /\ asked' = asked
      /\ UNCHANGED <<length, csum, length_received, csum_received, times>>
  BY <1>1, GotoOnly DEF client
<1>6. l \in Octets
  BY <1>2 DEF Talk, Reading
<1>7. {uri', method'} \subseteq Byte /\ buf' \in Octets
  <2>1. {GET, PUT} \in SUBSET Byte /\ Name \in SUBSET Byte
    BY ExchangeAssumption DEF GET, PUT, Byte
  <2>2. /\ Scanned(l, 1, {GET, PUT}) \subseteq Byte
        /\ Scanned(l, 2, Name) \subseteq Byte
    BY <1>6, <2>1, ScannedBytes
  <2>3. buf' \in Octets
    BY <1>1, TheLines DEF Line
  <2>4. QED
    BY <1>1, <2>2, <2>3
<1>8. ASSUME program # "other" PROVE Understood'
  <2>1. Hears(RequestLine \o Headers) /\ (open["client"] => asked = Request(name))
    BY <1>1, <1>3, <1>8 DEF Talk, Heard, Understood
  <2>2. /\ \/ l = RequestLine
           \/ ~open["client"] /\ Pending("server") = <<>>
        /\ \E r \in Octets : Pending("server") \o r = Headers /\ (open["client"] => r = <<>>)
    BY <1>1, <2>1, TheLines, ServerLine DEF Talk
  <2>3. l = RequestLine => method' = GET /\ uri' = name
    <3>1. SUFFICES ASSUME l = RequestLine PROVE method' = GET /\ uri' = name
      OBVIOUS
    <3>2. Len(l) = 3 /\ l[1] = GET /\ l[2] = name
      BY <3>1 DEF RequestLine
    <3>3. MaxLine \in Nat /\ name \notin {13, NL} /\ GET \notin {13, NL}
      BY ConnectionAssumption, ExchangeAssumption DEF IInv, Named, GET, NL
    <3>4. Len(l) \in 1 + 1 .. MaxLine - 1 /\ Len(l) \in 2 + 1 .. MaxLine - 1
      BY <3>2, <3>3
    <3> HIDE DEF l
    <3>5. QED
      BY <1>1, <3>2, <3>3, <3>4 DEF Scanned
  <2> HIDE DEF l
  <2>4. Hears(Headers)'
    <3>1. Hears(Headers)' <=> \E r \in Octets : Unread("server")' \o r = Headers'
                                                /\ (open'["client"] => r = <<>>)
      BY Zenon DEF Hears
    <3>2. Headers' = Headers
      BY <1>5, SameRequest
    <3>3. Unread("server")' = Pending("server")
      BY <1>1, <1>2, NextLineUnread DEF Talk
    <3>4. QED
      BY <1>4, <2>2, <3>1, <3>2, <3>3
  <2>5. Request(name)' = Request(name)
    BY <1>5, SameRequest
  <2>6. pc'["server"] # "request"
    BY <1>5
  <2>7. pc'["server"] = "headers" => method' = GET
    BY <1>5
  <2>8. pc'["server"] \in {"respond", "reply"} => Pending("server")' = <<>>
    BY <1>4, <1>5, <2>2, <2>3
  <2>9. open'["client"] => uri' = name' /\ method' = GET
    BY <1>4, <1>5, <2>2, <2>3
  <2>10. open'["client"] => asked' = Request(name)'
    BY <1>4, <1>5, <2>1, <2>5
  <2>11. QED
    BY <2>4, <2>6, <2>7, <2>8, <2>9, <2>10, Zenon DEF Understood
<1> HIDE DEF l
<1>9. Reading'
  BY <1>1, <1>2, ReadingKept DEF Talk
<1>10. pc'["server"] \in {"headers", "respond"}
  BY <1>5
<1>11. Stages'
  BY <1>4, <1>5, <1>10 DEF Talk, Stages
<1>12. Heard'
  BY <1>3, <1>4, <1>5, <1>7, <1>8 DEF Heard
<1>13. Overheard'
  BY <1>1, <1>5, OverheardNext DEF Talk
<1>14. NoReset'
  BY <1>1, <1>4, <1>5 DEF Talk, NoReset
<1>15. Told'
  <2>1. ~Answered /\ ~Answered'
    BY <1>1, <1>10 DEF Answered
  <2>2. QED
    BY <1>1, <1>4, <1>5, <2>1, ToldKept DEF Talk
<1>16. Counted'
  BY <1>5 DEF Talk, Counted
<1>17. QED
  BY <1>9, <1>11, <1>12, <1>13, <1>14, <1>15, <1>16 DEF Talk

LEMMA ReadHeaderTalk ==
  ASSUME IInv, Talk, MaxLine >= 4, ReadHeader
  PROVE  Talk'
<1> DEFINE l == IF line["server"] = <<>> THEN buf ELSE line["server"]
<1>1. /\ pc["server"] = "headers" /\ Returns("server") /\ NextLine("server")
      /\ buf' = l /\ Goto("server", IF l = CRLF THEN "respond" ELSE "headers")
      /\ UNCHANGED <<client, uri, method>>
  BY DEF ReadHeader, Back, IsBlank
<1>2. "client" \in End /\ "server" \in End /\ Peer("server") = "client"
  BY DEF End, Peer
<1>3. /\ line'["server"] = <<>> /\ open' = open /\ out' = out /\ reset' = reset
      /\ Pending("server")' = Pending("server")
      /\ Unread("client")' = Unread("client")
  BY <1>1, <1>2, NextLineUnread DEF Talk
<1>4. /\ pc'["server"] = IF l = CRLF THEN "respond" ELSE "headers"
      /\ pc'["client"] = pc["client"]
      /\ program' = program /\ name' = name /\ asked' = asked /\ uri' = uri /\ method' = method
      /\ UNCHANGED <<length, csum, length_received, csum_received, times>>
  BY <1>1, GotoOnly DEF client
<1>5. l \in Octets
  BY <1>2 DEF Talk, Heard, Reading
<1>6. program # "other" => method = GET /\ (Hears(Headers) \/ Hears(CRLF))
  BY <1>1 DEF Talk, Heard, Understood
<1>7. ASSUME program # "other"
      PROVE  /\ l = CRLF => Pending("server") = <<>>
             /\ Hears(CRLF)' \/ l = CRLF
  <2>1. CASE Hears(Headers)
    <3>1. /\ \/ line["server"] = HostLine
             \/ ~open["client"] /\ Pending("server") = <<>>
          /\ \E r \in Octets : Pending("server") \o r = CRLF /\ (open["client"] => r = <<>>)
      BY <1>1, <2>1, TheLines, ServerLine DEF Talk, Headers, Line
    <3>2. Hears(CRLF)'
      BY <1>1, <3>1, StillHears DEF Talk
    <3>3. HostLine # <<>> /\ HostLine # CRLF
      BY DEF HostLine, CRLF, Host
    <3>4. QED
      BY <3>1, <3>2, <3>3
  <2>2. CASE Hears(CRLF)
    <3>1. /\ \/ line["server"] = CRLF
             \/ ~open["client"] /\ Pending("server") = <<>>
          /\ \E r \in Octets : Pending("server") \o r = <<>> /\ (open["client"] => r = <<>>)
      BY <1>1, <2>2, TheLines, ServerLine DEF Talk
    <3>2. Pending("server") = <<>>
      BY <1>2, <3>1, UnreadOctets, ConcatEqualIffEmpty DEF Talk, Octets
    <3>3. CASE line["server"] = CRLF
      <4>1. CRLF # <<>>
        BY DEF CRLF
      <4>2. QED
        BY <3>2, <3>3, <4>1
    <3>4. CASE ~open["client"]
      <4>1. CRLF \in Octets /\ <<>> \o CRLF = CRLF
        BY TheLines, Join DEF Line
      <4>2. Hears(CRLF)'
        BY <1>1, <3>2, <3>4, <4>1, StillHears DEF Talk
      <4>3. QED
        BY <3>2, <4>2
    <3>5. QED
      BY <3>1, <3>3, <3>4
  <2>3. QED
    BY <1>6, <1>7, <2>1, <2>2
<1> HIDE DEF l
<1>8. Reading'
  BY <1>1, <1>2, ReadingKept DEF Talk
<1>9. pc'["server"] \in {"headers", "respond"}
  BY <1>4
<1>10. Stages'
  BY <1>3, <1>4, <1>9 DEF Talk, Stages
<1>11. Heard'
  <2>1. Request(name)' = Request(name)
    BY <1>4, SameRequest
  <2>2. pc'["client"] # "send" /\ pc'["server"] # "request"
    BY <1>1, <1>4, <1>9 DEF Talk, Heard
  <2>3. ASSUME program # "other" PROVE Understood'
    <3>1. pc'["server"] = "headers" => method' = GET /\ Hears(CRLF)'
      BY <1>4, <1>6, <1>7, <2>3
    <3>2. pc'["server"] \in {"respond", "reply"} => Pending("server")' = <<>>
      BY <1>3, <1>4, <1>7, <1>9, <2>3
    <3>3. open'["client"] => uri' = name' /\ method' = GET /\ asked' = Request(name)'
      BY <1>1, <1>3, <1>4, <2>1, <2>3 DEF Talk, Heard, Understood
    <3>4. QED
      BY <2>2, <3>1, <3>2, <3>3, Zenon DEF Understood
  <2>4. {uri', method'} \subseteq Byte /\ buf' \in Octets
    BY <1>1, <1>4, <1>5 DEF Talk, Heard
  <2>5. QED
    BY <1>3, <1>4, <2>2, <2>3, <2>4 DEF Heard
<1>12. Overheard'
  BY <1>1, <1>4, OverheardNext DEF Talk
<1>13. NoReset'
  BY <1>1, <1>3, <1>4, <1>9 DEF Talk, NoReset
<1>14. Told'
  <2>1. ~Answered /\ ~Answered'
    BY <1>1, <1>9 DEF Answered
  <2>2. QED
    BY <1>1, <1>3, <1>4, <2>1, ToldKept DEF Talk
<1>15. Counted'
  BY <1>4 DEF Talk, Counted
<1>16. QED
  BY <1>8, <1>10, <1>11, <1>12, <1>13, <1>14, <1>15 DEF Talk

(* The client has read a line, and goes on to l in the answer.             *)
LEMMA ClientReadTalk ==
  ASSUME IInv, Talk, NextLine("client"), UNCHANGED server,
         pc["client"] \in {"status", "headers", "body"},
         NEW l \in {"headers", "body", "check"}, Goto("client", l),
         program' = program, name' = name /\ asked' = asked, times' = times
  PROVE  /\ Reading' /\ Stages' /\ Heard' /\ Overheard' /\ NoReset'
         /\ pc'["client"] = l /\ pc'["server"] = pc["server"] /\ Unread("client")' = Pending("client")
         /\ Answered' = Answered /\ open["client"]
         /\ times' \in 0 .. NrTimes /\ times' < NrTimes
         /\ Page' = Page /\ Sizes' = Sizes /\ Sums' = Sums
<1>1. "client" \in End /\ "server" \in End /\ Peer("client") = "server"
  BY DEF End, Peer
<1>2. open["client"]
  BY <1>1 DEF IInv, Connected, Inside
<1>3. /\ open' = open /\ out' = out /\ reset' = reset
      /\ line'["server"] = line["server"]
      /\ Pending("server")' = Pending("server")
      /\ Unread("server")' = Unread("server")
      /\ Unread("client")' = Pending("client")
  BY <1>1, NextLineUnread DEF Talk
<1>4. pc'["client"] = l /\ pc'["server"] = pc["server"]
  BY GotoOnly
<1>5. Reading'
  BY <1>1, ReadingKept DEF Talk
<1>6. Stages'
  BY <1>3, <1>4 DEF Talk, Stages
<1>7. Heard'
  BY <1>3, <1>4, HeardKept DEF Talk
<1>8. NoReset'
  BY <1>3, <1>4 DEF Talk, NoReset
<1>9. Answered' = Answered
  BY <1>4 DEF Answered
<1>10. times' \in 0 .. NrTimes /\ times' < NrTimes
  BY DEF Talk, Counted
<1>11. Overheard'
  BY <1>3, OverheardKept DEF Talk
<1>12. Page' = Page /\ Sizes' = Sizes /\ Sums' = Sums
  BY SameAnswer DEF server
<1>13. QED
  BY <1>2, <1>3, <1>4, <1>5, <1>6, <1>7, <1>8, <1>9, <1>10, <1>11, <1>12

(* A client that waits for an answer reads nothing before there is one.    *)
LEMMA IsAnswered ==
  ASSUME IInv, Talk, Returns("client"), pc["client"] \in {"status", "headers", "body"}
  PROVE  Answered
<1>1. "client" \in End /\ Peer("client") = "server" /\ open["client"]
  BY DEF End, Peer, IInv, Connected, Inside
<1>2. SUFFICES ASSUME ~Answered PROVE FALSE
  OBVIOUS
<1>3. Unread("client") = <<>>
  BY <1>1, <1>2 DEF Talk, Told
<1>4. line["client"] = <<>>
  BY <1>1, <1>3, UnreadOctets, ConcatEqualIffEmpty DEF Talk, Unread, Octets
<1>5. ~open["server"]
  BY <1>1, <1>4, DryIsNothing DEF Returns, LineRead
<1>6. QED
  BY <1>2, <1>5 DEF Answered, IInv, Connected, Inside, End

(* Behind a worker that ended on a long line there is nothing to read.     *)
LEMMA CutLine ==
  ASSUME IInv, Reading, Cut
  PROVE  line["client"] = <<>> /\ Pending("client") = <<>>
<1>1. line["client"] \in Octets /\ Pending("client") \in Octets
  BY UnreadOctets DEF End
<1>2. QED
  BY <1>1, ConcatEqualIffEmpty DEF Cut, Unread, Octets

LEMMA ReadStatusTalk ==
  ASSUME IInv, Talk, MaxLine >= 4, ReadStatus
  PROVE  Talk'
<1>1. /\ pc["client"] = "status" /\ Returns("client") /\ NextLine("client")
      /\ Goto("client", IF line["client"] = <<>> \/ line["client"] = CRLF
                        THEN "body" ELSE "headers")
      /\ UNCHANGED <<client, server>>
  BY DEF ReadStatus, Back, IsBlank
<1>2. open["client"] /\ Answered
  BY <1>1, IsAnswered DEF IInv, Connected, Inside, End
<1>3. (Unread("client") = StatusLine \o Sizes /\ Fresh) \/ Cut
  BY <1>1, <1>2 DEF Talk, Told, AtStatus, AtHeaders, InBody, AtEnd
<1>4. /\ program' = program /\ name' = name /\ asked' = asked /\ times' = times
      /\ UNCHANGED <<length, csum, length_received, csum_received>>
  BY <1>1 DEF client
<1>5. PICK l \in {"headers", "body"} :
        /\ Goto("client", l)
        /\ l = IF line["client"] = <<>> \/ line["client"] = CRLF THEN "body" ELSE "headers"
  BY <1>1
<1>6. /\ Reading' /\ Stages' /\ Heard' /\ Overheard' /\ NoReset'
      /\ pc'["client"] = l /\ pc'["server"] = pc["server"]
      /\ Unread("client")' = Pending("client")
      /\ Answered' = Answered
      /\ times' \in 0 .. NrTimes /\ times' < NrTimes
      /\ Page' = Page /\ Sizes' = Sizes /\ Sums' = Sums
  BY <1>1, <1>4, <1>5, ClientReadTalk
<1>7. ASSUME Unread("client") = StatusLine \o Sizes, Fresh PROVE Told'
  <2>1. line["client"] = StatusLine /\ Pending("client") = Sizes
    BY <1>1, <1>7, TheLines, ClientLine DEF Talk
  <2>2. StatusLine # <<>> /\ StatusLine # CRLF
    BY DEF StatusLine, CRLF, Status
  <2>3. AtHeaders'
    BY <1>4, <1>5, <1>6, <1>7, <2>1, <2>2 DEF AtHeaders, Fresh
  <2>4. QED
    BY <1>2, <1>6, <2>3 DEF Told
<1>8. ASSUME Cut PROVE Told'
  <2>1. line["client"] = <<>> /\ Pending("client") = <<>>
    BY <1>8, CutLine DEF Talk
  <2>2. Cut'
    BY <1>5, <1>6, <1>8, <2>1 DEF Cut
  <2>3. QED
    BY <1>2, <1>6, <2>2 DEF Told
<1>9. Told'
  BY <1>3, <1>7, <1>8
<1>10. Counted'
  BY <1>4, <1>6 DEF Talk, Counted
<1>11. QED
  BY <1>6, <1>9, <1>10 DEF Talk

LEMMA ReadTagTalk ==
  ASSUME IInv, Talk, MaxLine >= 4, ReadTag
  PROVE  Talk'
<1> DEFINE l == line["client"]
           Tag(t, old) == IF Len(l) > 1 /\ l[1] = t THEN l[2] - Digit(0) ELSE old
           next == IF l = <<>> \/ l = CRLF THEN "body" ELSE "headers"
<1>1. /\ pc["client"] = "headers" /\ Returns("client") /\ NextLine("client")
      /\ length' = Tag(Length, length) /\ csum' = Tag(Csum, csum)
      /\ Goto("client", next)
      /\ UNCHANGED server /\ program' = program /\ name' = name /\ asked' = asked /\ times' = times
      /\ length_received' = length_received /\ csum_received' = csum_received
  BY DEF ReadTag, Back, IsBlank
<1>2. open["client"] /\ Answered
  BY <1>1, IsAnswered DEF IInv, Connected, Inside, End
<1>3. next \in {"headers", "body"}
  OBVIOUS
<1>4. /\ Reading' /\ Stages' /\ Heard' /\ Overheard' /\ NoReset'
      /\ pc'["client"] = next /\ Unread("client")' = Pending("client")
      /\ Answered' = Answered
      /\ times' \in 0 .. NrTimes /\ times' < NrTimes
      /\ Page' = Page /\ Sizes' = Sizes /\ Sums' = Sums
  <2> HIDE DEF next
  <2>1. QED
    BY <1>1, <1>3, ClientReadTalk
<1>5. /\ Len(Page) \in Nat /\ Sum(Page) \in Nat
      /\ Digit(Len(Page)) - Digit(0) = Len(Page) /\ Digit(Sum(Page)) - Digit(0) = Sum(Page)
  <2>1. Len(Page) \in Nat /\ Sum(Page) \in Nat
    BY TheLines, SumIsTotal, LenProperties DEF Octets
  <2>2. QED
    BY <2>1 DEF Digit
<1>6. /\ \/ Unread("client") = LengthLine \o Sums
         \/ Unread("client") = CsumLine \o (CRLF \o Page) /\ length = Len(Page)
         \/ Unread("client") = CRLF \o Page /\ length = Len(Page) /\ csum = Sum(Page)
      /\ Fresh
  BY <1>1, <1>2 DEF Talk, Told, AtStatus, AtHeaders, InBody, AtEnd, Cut, Sizes, Sums
<1>7. CASE Unread("client") = LengthLine \o Sums
  <2>1. l = LengthLine /\ Pending("client") = Sums
    BY <1>1, <1>7, TheLines, ClientLine DEF Talk
  <2>2. /\ Len(LengthLine) = 3 /\ LengthLine[1] = Length /\ LengthLine[2] = Digit(Len(Page))
        /\ LengthLine # <<>> /\ LengthLine # CRLF /\ Length # Csum
    BY DEF LengthLine, CRLF, Length, Csum
  <2>3. length' = Len(Page) /\ csum' = csum /\ next = "headers"
    BY <1>1, <1>5, <2>1, <2>2
  <2>4. AtHeaders'
    BY <1>1, <1>4, <1>6, <2>1, <2>3 DEF AtHeaders, Fresh
  <2>5. Told' /\ Counted'
    BY <1>1, <1>2, <1>4, <1>5, <2>3, <2>4 DEF Talk, Told, Counted
  <2>6. QED
    BY <1>4, <2>5 DEF Talk
<1>8. CASE Unread("client") = CsumLine \o (CRLF \o Page) /\ length = Len(Page)
  <2>1. l = CsumLine /\ Pending("client") = CRLF \o Page
    <3>1. CRLF \o Page \in Octets
      BY TheLines, Join DEF Line
    <3>2. QED
      BY <1>1, <1>8, <3>1, TheLines, ClientLine DEF Talk
  <2>2. /\ Len(CsumLine) = 3 /\ CsumLine[1] = Csum /\ CsumLine[2] = Digit(Sum(Page))
        /\ CsumLine # <<>> /\ CsumLine # CRLF /\ Length # Csum
    BY DEF CsumLine, CRLF, Length, Csum
  <2>3. length' = Len(Page) /\ csum' = Sum(Page) /\ next = "headers"
    BY <1>1, <1>5, <1>8, <2>1, <2>2
  <2>4. AtHeaders'
    BY <1>1, <1>4, <1>6, <2>1, <2>3 DEF AtHeaders, Fresh
  <2>5. Told' /\ Counted'
    BY <1>1, <1>2, <1>4, <1>5, <2>3, <2>4 DEF Talk, Told, Counted
  <2>6. QED
    BY <1>4, <2>5 DEF Talk
<1>9. CASE Unread("client") = CRLF \o Page /\ length = Len(Page) /\ csum = Sum(Page)
  <2>1. l = CRLF /\ Pending("client") = Page
    BY <1>1, <1>9, TheLines, ClientLine DEF Talk
  <2>2. Len(CRLF) = 2 /\ CRLF[1] = 13 /\ 13 # Length /\ 13 # Csum
    BY DEF CRLF, Length, Csum
  <2>3. length' = Len(Page) /\ csum' = Sum(Page) /\ next = "body"
    BY <1>1, <1>9, <2>1, <2>2
  <2>4. InBody'
    <3>1. /\ <<>> \in Octets /\ <<>> \o Page = Page /\ Len(<<>>) = 0 /\ Sum(<<>>) = 0
      BY TheLines, Join, SumOfNone
    <3>2. Unread("client")' = Page /\ Page' = Page
      BY <1>4, <2>1
    <3>3. /\ <<>> \o Unread("client")' = Page'
          /\ length_received' = Len(<<>>) /\ csum_received' = Sum(<<>>)
      BY <1>1, <1>6, <3>1, <3>2 DEF Fresh
    <3>4. QED
      BY <1>4, <2>3, <3>1, <3>3 DEF InBody
  <2>5. Told' /\ Counted'
    BY <1>1, <1>2, <1>4, <1>5, <2>3, <2>4 DEF Talk, Told, Counted
  <2>6. QED
    BY <1>4, <2>5 DEF Talk
<1>10. QED
  BY <1>6, <1>7, <1>8, <1>9

LEMMA ReadBodyTalk ==
  ASSUME IInv, Talk, MaxLine >= 4, ReadBody
  PROVE  Talk'
<1> DEFINE l == line["client"]
           p == Pending("client")
           next == IF l = <<>> THEN "check" ELSE "body"
<1>1. /\ pc["client"] = "body" /\ Returns("client") /\ NextLine("client")
      /\ length_received' = length_received + Len(l)
      /\ csum_received' = csum_received + Sum(l)
      /\ Goto("client", next)
      /\ UNCHANGED server /\ program' = program /\ name' = name /\ asked' = asked /\ times' = times
      /\ length' = length /\ csum' = csum
  BY DEF ReadBody, Back, BodyEnds
<1>2. open["client"] /\ Answered /\ "client" \in End
  BY <1>1, IsAnswered DEF IInv, Connected, Inside, End
<1>3. /\ Reading' /\ Stages' /\ Heard' /\ Overheard' /\ NoReset'
      /\ pc'["client"] = next /\ pc'["server"] = pc["server"] /\ Unread("client")' = p
      /\ Answered' = Answered
      /\ times' \in 0 .. NrTimes /\ times' < NrTimes
      /\ Page' = Page
  <2>1. next \in {"check", "body"}
    OBVIOUS
  <2> HIDE DEF next
  <2>2. QED
    BY <1>1, <2>1, ClientReadTalk
<1>4. InBody \/ Cut
  BY <1>1, <1>2 DEF Talk, Told, AtStatus, AtHeaders, InBody, AtEnd
<1>5. ASSUME Cut PROVE Talk'
  <2>1. l = <<>> /\ p = <<>>
    BY <1>5, CutLine DEF Talk
  <2>2. Len(<<>>) = 0 /\ Sum(<<>>) = 0
    BY SumOfNone
  <2>3. length_received' \in Nat /\ csum_received' \in Nat
    BY <1>1, <2>1, <2>2 DEF Talk, Counted
  <2>4. Cut'
    BY <1>3, <1>5, <2>1 DEF Cut
  <2>5. Told' /\ Counted'
    BY <1>1, <1>2, <1>3, <2>3, <2>4 DEF Talk, Told, Counted
  <2>6. QED
    BY <1>3, <2>5 DEF Talk
<1>6. SUFFICES ASSUME InBody PROVE Talk'
  BY <1>4, <1>5
<1>7. PICK taken \in Octets :
        /\ taken \o Unread("client") = Page
        /\ length_received = Len(taken) /\ csum_received = Sum(taken)
  BY <1>6 DEF InBody
<1>8. l \in Octets /\ p \in Octets /\ (l = <<>> => p = <<>>)
  BY <1>1, <1>2, UnreadOctets, DryIsNothing DEF Talk, Returns, LineRead
<1>9. taken \o (l \o p) = Page
  BY <1>7 DEF Unread
<1> HIDE DEF l, p
<1>10. (taken \o l) \o p = Page /\ taken \o l \in Octets
  <2>1. \A b, c \in Octets : (taken \o b) \o c = taken \o (b \o c)
    BY <1>7, Associative, Zenon
  <2>2. (taken \o l) \o p = taken \o (l \o p)
    BY <1>8, <2>1, Zenon
  <2>3. QED
    BY <1>7, <1>8, <1>9, <2>2, Join
<1>11. Len(taken \o l) = length_received' /\ Sum(taken \o l) = csum_received'
  <2>1. Len(taken \o l) = Len(taken) + Len(l)
    BY <1>7, <1>8, ConcatProperties DEF Octets
  <2>2. Sum(taken \o l) = Sum(taken) + Sum(l)
    BY <1>7, <1>8, SumOfTwo
  <2>3. QED
    BY <1>1, <1>7, <2>1, <2>2
<1>12. length' = Len(Page) /\ csum' = Sum(Page)
  BY <1>1, <1>6 DEF InBody
<1>13. Len(taken \o l) \in Nat /\ Sum(taken \o l) \in Nat
  BY <1>10, SumIsTotal, LenProperties DEF Octets
<1>14. CASE l # <<>>
  <2>1. InBody'
    <3>1. (taken \o l) \o Unread("client")' = Page'
      BY <1>3, <1>10
    <3>2. pc'["client"] = "body"
      BY <1>3, <1>14
    <3>3. QED
      BY <1>3, <1>10, <1>11, <1>12, <3>1, <3>2 DEF InBody
  <2>2. Told' /\ Counted'
    BY <1>1, <1>2, <1>3, <1>11, <1>13, <2>1 DEF Talk, Told, Counted
  <2>3. QED
    BY <1>3, <2>2 DEF Talk
<1>15. CASE l = <<>>
  <2>1. taken \o l = Page
    BY <1>8, <1>10, <1>15, Join
  <2>2. AtEnd'
    BY <1>3, <1>8, <1>11, <1>12, <1>15, <2>1 DEF AtEnd
  <2>3. Told' /\ Counted'
    BY <1>1, <1>2, <1>3, <1>11, <1>13, <2>2 DEF Talk, Told, Counted
  <2>4. QED
    BY <1>3, <2>3 DEF Talk
<1>16. QED
  BY <1>14, <1>15
-----------------------------------------------------------------------------
LEMMA InitTalk == Init => Talk
<1>1. SUFFICES ASSUME Init PROVE Talk
  OBVIOUS
<1>2. /\ line = [e \in End |-> <<>>] /\ out = [e \in End |-> <<>>]
      /\ open = [e \in End |-> FALSE] /\ reset = [e \in End |-> FALSE]
      /\ pc = [client |-> "connect", server |-> "accept"]
      /\ program \in {"client", "client_simple", "other"}
  BY <1>1 DEF Init, ConnectionInit, Nothing
<1>3. <<>> \in Octets /\ OneLine(<<>>) /\ "client" \in End /\ "server" \in End
  BY EmptySeq DEF Octets, OneLine, End
<1>4. Reading /\ Stages /\ NoReset /\ Told
  BY <1>2, <1>3 DEF Reading, Stages, NoReset, Told
<1>5. Heard /\ Overheard
  <2>1. Understood
    BY <1>2, <1>3 DEF Understood
  <2>2. QED
    BY <1>1, <1>2, <1>3, <2>1 DEF Init, Heard, Overheard, Byte
<1>6. Counted
  BY <1>1, ExchangeAssumption DEF Init, Counted
<1>7. QED
  BY <1>4, <1>5, <1>6 DEF Talk

LEMMA StillTalk ==
  ASSUME IInv, Talk, UNCHANGED vars
  PROVE  Talk'
<1>1. /\ UNCHANGED connection /\ pc' = pc /\ UNCHANGED <<client, server>>
      /\ wire' = wire /\ open' = open /\ reset' = reset /\ rio_buf' = rio_buf
      /\ line' = line /\ out' = out
      /\ program' = program /\ name' = name /\ asked' = asked
      /\ UNCHANGED <<length, csum, length_received, csum_received, times>>
  BY DEF vars, connection, client
<1>2. \A e \in {"client", "server"} :
        Pending(e)' = Pending(e) /\ Unread(e)' = Unread(e)
  BY <1>1 DEF Pending, Unread
<1>3. Reading' /\ Stages' /\ NoReset' /\ Counted'
  BY <1>1 DEF Talk, Reading, Stages, NoReset, Counted
<1>4. Heard'
  BY <1>1, <1>2, HeardKept DEF Talk
<1>5. Told'
  <2>1. Answered' <=> Answered
    BY <1>1 DEF Answered
  <2>2. QED
    BY <1>1, <1>2, <2>1, ToldKept DEF Talk, server
<1>6. Overheard'
  BY <1>1, <1>2, OverheardKept DEF Talk
<1>7. QED
  BY <1>3, <1>4, <1>5, <1>6 DEF Talk

(* A line of a request of this repository's clients fits into a buffer.    *)
LEMMA ShortLine ==
  ASSUME IInv, Reading, NEW e \in End, NEW one, Line(one), NEW t \in Octets, NEW r \in Octets,
         Unread(e) \o r = one \o t
  PROVE  Len(line[e]) < MaxLine
<1> DEFINE l == line[e]
           p == Pending(e)
           q == p \o r
<1>1. l \in Octets /\ p \in Octets /\ q \in Octets /\ OneLine(l)
  BY UnreadOctets, Join DEF Reading
<1>2. (l \o p) \o r = one \o t
  BY DEF Unread
<1> HIDE DEF l, p
<1>3. (l \o p) \o r = l \o (p \o r)
  <2>1. \A b, c \in Octets : (l \o b) \o c = l \o (b \o c)
    BY <1>1, Associative, Zenon
  <2>2. QED
    BY <1>1, <2>1, Zenon
<1>4. l \o q = one \o t
  BY <1>2, <1>3
<1> HIDE DEF q
<1>5. Within(l, q, one, t)
  BY <1>1, <1>4, HeadLine
<1>6. Len(l) \in Nat /\ Len(one) \in Nat /\ Len(one) < MaxLine /\ MaxLine \in Nat
  BY <1>1, ConnectionAssumption, LenProperties DEF Line, Octets
<1>7. QED
  BY <1>5, <1>6 DEF Within, l

LEMMA NothingIsShort ==
  ASSUME IInv, Reading, NEW e \in End, Unread(e) = <<>>
  PROVE  ~Overrun(e)
<1>1. line[e] = <<>>
  BY UnreadOctets, ConcatEqualIffEmpty DEF Unread, Octets
<1>2. Len(<<>>) = 0 /\ MaxLine # 0
  BY ConnectionAssumption
<1>3. QED
  BY <1>1, <1>2 DEF Overrun

LEMMA OverrunOfOthers ==
  ASSUME IInv, Talk, MaxLine >= 4, program # "other"
  PROVE  ~Overrun("server")
<1>1. "server" \in End /\ MaxLine \in Nat /\ Len(<<>>) = 0
  BY ConnectionAssumption DEF End
<1>2. CASE Unread("server") = <<>>
  BY <1>1, <1>2, NothingIsShort DEF Talk
<1>3. CASE Hears(RequestLine \o Headers) \/ Hears(HostLine \o CRLF) \/ Hears(CRLF \o <<>>)
  <2>1. PICK one \in {RequestLine, HostLine, CRLF}, t \in {Headers, CRLF, <<>>} :
          Hears(one \o t)
    BY <1>3
  <2>2. Line(one) /\ t \in Octets
    BY <2>1, TheLines DEF Line
  <2>3. PICK r \in Octets : Unread("server") \o r = one \o t
    BY <2>1 DEF Hears
  <2>4. Len(line["server"]) < MaxLine
    BY <1>1, <2>2, <2>3, ShortLine DEF Talk
  <2>5. QED
    BY <1>1, <2>4 DEF Overrun
<1>4. CASE line["server"] = <<>>
  BY <1>1, <1>4 DEF Overrun
<1>5. ~open["server"] => line["server"] = <<>>
  BY <1>1 DEF Talk, Reading
<1>6. open["server"] => pc["server"] \in {"request", "headers", "respond", "reply"}
  BY <1>1 DEF IInv, Connected, Inside
<1>7. Headers = HostLine \o CRLF /\ CRLF = CRLF \o <<>>
  BY TheLines DEF Headers
<1>8. QED
  BY <1>2, <1>3, <1>4, <1>5, <1>6, <1>7 DEF Talk, Heard, Understood

(* A worker that ends on a long line has not answered.                     *)
LEMMA ServerSmashedTalk ==
  ASSUME IInv, Talk, MaxLine >= 4, ServerSmashed
  PROVE  Talk'
<1>1. /\ pc["server"] \in {"request", "headers"} /\ Overrun("server")
      /\ Close("server") /\ Goto("server", "smashed") /\ UNCHANGED <<client, server>>
  BY DEF ServerSmashed, Reads
<1>2. program = "other"
  BY <1>1, OverrunOfOthers
<1>3. /\ "client" \in End /\ "server" \in End /\ Peer("server") = "client"
      /\ Peer("client") = "server" /\ open["server"]
      /\ open["client"] <=> pc["client"] \in Inside["client"]
  BY <1>1 DEF IInv, Connected, Inside, End, Peer
<1>4. /\ pc'["server"] = "smashed" /\ pc'["client"] = pc["client"]
      /\ line' = [line EXCEPT !["server"] = <<>>]
      /\ open' = [open EXCEPT !["server"] = FALSE]
      /\ out' = [out EXCEPT !["server"] = <<>>]
      /\ program' = program /\ name' = name /\ asked' = asked
      /\ uri' = uri /\ method' = method /\ buf' = buf
      /\ UNCHANGED <<length, csum, length_received, csum_received, times>>
  BY <1>1, <1>3, GotoOnly DEF Close, client, server
<1>5. /\ ~open'["server"] /\ open'["client"] = open["client"]
      /\ line'["client"] = line["client"] /\ out'["server"] = <<>>
      /\ out["server"] = <<>>
  BY <1>1, <1>3, <1>4 DEF IInv, Carried, Talk, Reading, NoReset
<1>6. pc["client"] # "send"
  BY <1>1, <1>3, NothingIsShort DEF Talk, Heard
<1>7. Unread("client")' = Unread("client")
  <2>1. rio_buf'["client"] = rio_buf["client"] /\ wire'["client"] = wire["client"]
    BY <1>1, <1>3 DEF Close, IInv, Carried
  <2>2. Pending("client")' = Pending("client")
    BY <1>3, <1>5, <2>1 DEF Pending
  <2>3. QED
    BY <1>5, <2>2 DEF Unread
<1>8. Reading'
  BY <1>1, <1>3, ReadingKept DEF Talk
<1>9. Stages'
  BY <1>2, <1>4, <1>5 DEF Talk, Stages
<1>10. Heard'
  BY <1>2, <1>4, <1>6 DEF Talk, Heard
<1>11. Overheard'
  BY <1>5 DEF Overheard
<1>12. NoReset'
  BY <1>2, <1>4, <1>5 DEF NoReset
<1>13. Told'
  <2>1. SUFFICES ASSUME open["client"] PROVE Cut'
    BY <1>4, <1>5 DEF Told, Answered
  <2>2. pc["client"] = "status" /\ Unread("client") = <<>>
    BY <1>1, <1>6, <2>1 DEF Talk, Told, Answered
  <2>3. QED
    BY <1>4, <1>7, <2>2 DEF Cut
<1>14. Counted'
  BY <1>4 DEF Talk, Counted
<1>15. QED
  BY <1>8, <1>9, <1>10, <1>11, <1>12, <1>13, <1>14 DEF Talk

LEMMA StepTalk ==
  ASSUME MaxLine >= 4
  PROVE  IInv /\ Talk /\ [Next]_vars => Talk'
<1>1. SUFFICES ASSUME IInv, Talk, [Next]_vars PROVE Talk'
  OBVIOUS
<1>2. {"client", "server"} \subseteq End
  BY DEF End
<1>3. CASE UNCHANGED vars
  BY <1>1, <1>3, StillTalk
<1>4. CASE ClientStep
  BY <1>1, <1>2, <1>4, ConnectTalk, SendTalk, TransferTalk, ReadStatusTalk, ReadTagTalk,
     ReadBodyTalk, CheckTalk, LeaveTalk DEF ClientStep
<1>5. CASE ServerStep
  BY <1>1, <1>2, <1>5, TransferTalk, ReadRequestTalk, ReadHeaderTalk, RespondTalk,
     FinishTalk, ServerFailsTalk DEF ServerStep
<1>6. CASE ClientSmashed \/ ServerSmashed \/ ClientKilled
  BY <1>1, <1>6, LeaveTalk, ServerSmashedTalk
<1>7. QED
  BY <1>1, <1>3, <1>4, <1>5, <1>6 DEF Next

(* What each end has yet to read is, at every point, the rest of what the  *)
(* other one says.  A worker with a client of this repository is at a line *)
(* of the request, of which the death of the client may take the end; with *)
(* any client, what it reads is a stretch of what was asked.  A client is  *)
(* at a line of the answer, with what it has counted of it.  MAXLINE is    *)
(* 8192 in the code; with less than 4, the headers that the model's        *)
(* clients and workers send would not fit.                                 *)
THEOREM TalkInvariance ==
  ASSUME MaxLine >= 4
  PROVE  Spec => []Talk
<1>1. IInv /\ Talk /\ [Next]_vars => Talk'
  BY StepTalk
<1>2. Init => Talk
  BY InitTalk
<1>3. Spec => []IInv
  BY Invariance
<1>4. QED
  BY <1>1, <1>2, <1>3, PTL DEF Spec

(* Type correctness.                                                       *)
THEOREM TypesHold ==
  ASSUME MaxLine >= 4
  PROVE  Spec => []TypeOK
<1>1. IInv /\ Talk => TypeOK
  <2>1. SUFFICES ASSUME IInv, Talk PROVE TypeOK
    OBVIOUS
  <2>2. ConnectionType
    BY <2>1 DEF IInv, Carried, Talk, Reading, ConnectionType, Octets
  <2>3. name \in Name /\ {asked, buf} \subseteq Seq(Byte) /\ {uri, method} \subseteq Byte
    BY <2>1 DEF IInv, Named, Talk, Heard, Octets
  <2>4. QED
    BY <2>1, <2>2, <2>3 DEF Talk, Stages, Heard, Counted, TypeOK
<1>2. Spec => []Talk
  BY TalkInvariance
<1>3. QED
  BY <1>1, <1>2, Invariance, PTL

(* The assertions of client_print hold: for any files and sizes, for every *)
(* way in which the kernel, the Rio package and the lines of the file cut  *)
(* the answer into pieces, the client counts what the headers say, and     *)
(* this is the length and the checksum of the file that it asked for.      *)
THEOREM AssertionsAlwaysHold ==
  ASSUME MaxLine >= 4
  PROVE  Spec => []AssertionsHold
<1>1. Talk => AssertionsHold
  BY DEF Talk, Stages, AssertionsHold
<1>2. Spec => []Talk
  BY TalkInvariance
<1>3. QED
  BY <1>1, <1>2, PTL

(* A worker closes the connection of a GET when it has read all of the     *)
(* request: a reset never takes the end of an answer from a client of this *)
(* repository, and none of its clients fails in a read or a write.         *)
THEOREM GetNeverReset ==
  ASSUME MaxLine >= 4
  PROVE  Spec => []GetNotReset
<1>1. Talk => GetNotReset
  BY DEF Talk, NoReset, GetNotReset
<1>2. Spec => []Talk
  BY TalkInvariance
<1>3. QED
  BY <1>1, <1>2, PTL

LEMMA Concatenated ==
  ASSUME NEW a \in Octets, NEW b \in Octets
  PROVE  /\ Len(a \o b) = Len(a) + Len(b)
         /\ \A i \in 1 .. Len(a) + Len(b) :
              (a \o b)[i] = IF i <= Len(a) THEN a[i] ELSE b[i - Len(a)]
BY ConcatProperties DEF Octets

(* A full line anywhere in a text makes it one with a long line.           *)
LEMMA InfixLong ==
  ASSUME NEW taken \in Octets, NEW l \in Octets, NEW rest \in Octets,
         Len(l) = MaxLine, OneLine(l)
  PROVE  LongLine(taken \o (l \o rest))
<1> DEFINE m == Len(taken)
           tail == l \o rest
           whole == taken \o tail
<1>1. m \in Nat /\ Len(rest) \in Nat /\ MaxLine \in Nat \ {0}
  BY ConnectionAssumption, LenProperties DEF Octets
<1>2. /\ tail \in Octets /\ Len(tail) = MaxLine + Len(rest)
      /\ \A i \in 1 .. MaxLine + Len(rest) :
           tail[i] = IF i <= MaxLine THEN l[i] ELSE rest[i - MaxLine]
  BY ConcatProperties DEF Octets
<1> HIDE DEF tail
<1>3. /\ Len(whole) = m + Len(tail)
      /\ \A i \in 1 .. m + Len(tail) : whole[i] = IF i <= m THEN taken[i] ELSE tail[i - m]
  BY <1>2, Concatenated
<1> HIDE DEF m, whole
<1>4. ASSUME NEW i \in 1 .. MaxLine PROVE whole[m + i] = l[i]
  <2>1. /\ m + i \in 1 .. m + Len(tail) /\ ~(m + i <= m) /\ (m + i) - m = i
        /\ i \in 1 .. MaxLine + Len(rest) /\ i <= MaxLine
    BY <1>1, <1>2
  <2>2. whole[m + i] = tail[i]
    BY <1>3, <2>1
  <2>3. QED
    BY <1>2, <2>1, <2>2
<1> DEFINE i == m + 1
<1>5. i \in 1 .. Len(whole) + 1 - MaxLine
  BY <1>1, <1>2, <1>3
<1>6. ASSUME NEW k \in i .. i + MaxLine - 2 PROVE whole[k] # NL
  <2>1. k - m \in 1 .. MaxLine /\ k - m # MaxLine /\ m + (k - m) = k
    BY <1>1, <1>6
  <2>2. whole[k] = l[k - m]
    BY <1>4, <2>1
  <2>3. l[k - m] # NL
    BY <2>1 DEF OneLine
  <2>4. QED
    BY <2>2, <2>3
<1>7. LongLine(whole)
  BY <1>5, <1>6 DEF LongLine
<1>8. QED
  BY <1>7 DEF whole, tail

(* In the worker, that text is what a client of another make asked.        *)
LEMMA ServerOverrunIsLong ==
  ASSUME IInv, Talk, MaxLine >= 4, Overrun("server")
  PROVE  program = "other" /\ LongLine(asked)
<1>1. program = "other"
  BY OverrunOfOthers
<1> DEFINE l == line["server"]
           p == Pending("server")
<1>2. l \in Octets /\ p \in Octets /\ l \o p \in Octets /\ OneLine(l)
  BY UnreadOctets, Join DEF Talk, Reading, End
<1>3. Len(l) = MaxLine /\ l # <<>>
  <2>1. Len(<<>>) = 0 /\ MaxLine # 0
    BY ConnectionAssumption
  <2>2. QED
    BY <2>1 DEF Overrun
<1>4. open["server"]
  BY <1>3 DEF Talk, Reading, End
<1>5. PICK taken \in Octets, rest \in Octets : (taken \o (l \o p)) \o rest = asked
  BY <1>4 DEF Talk, Overheard, Unread
<1> HIDE DEF l, p
<1> DEFINE lp == l \o p
<1>6. (l \o p) \o rest = l \o (p \o rest)
  <2>1. \A b, c \in Octets : (l \o b) \o c = l \o (b \o c)
    BY <1>2, Associative, Zenon
  <2>2. QED
    BY <1>2, <1>5, <2>1, Zenon
<1>7. lp \in Octets /\ (taken \o lp) \o rest = asked /\ lp \o rest = l \o (p \o rest)
  BY <1>2, <1>5, <1>6
<1> HIDE DEF lp
<1>8. (taken \o lp) \o rest = taken \o (lp \o rest)
  <2>1. \A b, c \in Octets : (taken \o b) \o c = taken \o (b \o c)
    BY <1>5, Associative, Zenon
  <2>2. QED
    BY <1>5, <1>7, <2>1, Zenon
<1>9. asked = taken \o (l \o (p \o rest))
  BY <1>7, <1>8
<1>10. p \o rest \in Octets
  BY <1>2, <1>5, Join
<1> DEFINE tail == p \o rest
<1>11. tail \in Octets /\ asked = taken \o (l \o tail)
  BY <1>9, <1>10
<1> HIDE DEF tail
<1>12. LongLine(taken \o (l \o tail))
  BY <1>2, <1>3, <1>5, <1>11, InfixLong
<1>13. QED
  BY <1>1, <1>11, <1>12

(* In a client, it is the body of the answer.                              *)
LEMMA ClientOverrunIsLong ==
  ASSUME IInv, Talk, MaxLine >= 4, Overrun("client")
  PROVE  LongLine(Page)
<1> DEFINE l == line["client"]
           p == Pending("client")
<1>1. "client" \in End /\ Len(<<>>) = 0 /\ MaxLine \in Nat /\ <<>> \in Octets
  BY ConnectionAssumption, EmptySeq DEF End, Octets
<1>2. Len(l) = MaxLine /\ l # <<>>
  BY <1>1 DEF Overrun
<1>3. open["client"] /\ Unread("client") # <<>>
  BY <1>1, <1>2, NothingIsShort DEF Talk, Reading
<1>4. ASSUME NEW one, Line(one), NEW t \in Octets, Unread("client") = one \o t
      PROVE  FALSE
  <2>1. Unread("client") \o <<>> = one \o t
    BY <1>1, <1>4, UnreadOctets, Join DEF Talk
  <2>2. Len(l) < MaxLine
    BY <1>1, <1>4, <2>1, ShortLine DEF Talk
  <2>3. QED
    BY <1>1, <1>2, <2>2
<1>5. InBody
  <2>1. CRLF \o Page \in Octets
    BY TheLines, Join DEF Line
  <2>2. ~AtStatus
    BY <1>4, TheLines DEF AtStatus
  <2>3. ~AtHeaders
    BY <1>4, <2>1, TheLines DEF AtHeaders, Sizes, Sums
  <2>4. QED
    BY <1>3, <2>2, <2>3 DEF Talk, Told, AtEnd, Cut
<1>6. PICK taken \in Octets : taken \o (l \o p) = Page
  BY <1>5 DEF InBody, Unread
<1>7. l \in Octets /\ p \in Octets /\ OneLine(l)
  BY <1>1, UnreadOctets DEF Talk, Reading
<1> HIDE DEF l, p
<1>8. LongLine(taken \o (l \o p))
  BY <1>2, <1>6, <1>7, InfixLong
<1>9. QED
  BY <1>6, <1>8

(* Whoever calls rio_readlineb, and whatever the other end says: the       *)
(* terminating zero is stored past the buffer only for MAXLINE bytes with  *)
(* no newline before the last.  In the worker, at the request line or a    *)
(* header, this takes a client of another make that says them; in a        *)
(* client, an answer with a body that has them.                            *)
THEOREM OverrunOnlyForLongLines ==
  ASSUME MaxLine >= 4
  PROVE  Spec => []OverrunOnlyLong
<1>1. IInv /\ Talk => OverrunOnlyLong
  BY ServerOverrunIsLong, ClientOverrunIsLong DEF OverrunOnlyLong
<1>2. Spec => []Talk
  BY TalkInvariance
<1>3. QED
  BY <1>1, <1>2, Invariance, PTL
=============================================================================
