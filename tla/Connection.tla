----------------------------- MODULE Connection -----------------------------
(***************************************************************************)
(* One connection between a client and a worker of the web server, and the *)
(* Rio package of common.c at both ends of it.                             *)
(*                                                                         *)
(* An action is one system call or one turn of a loop of the package.  The *)
(* kernel moves any part of what a read or a write asks for, and blocks a  *)
(* write when SockBuf bytes are underway.  read() interrupted by a signal  *)
(* (EINTR) is called again and changes nothing.                            *)
(***************************************************************************)
EXTENDS Integers, Sequences, SequencesExt

CONSTANTS
  RioBuf,  \* RIO_BUFSIZE
  MaxLine, \* MAXLINE and MAXBUF, which are equal
  SockBuf  \* the bytes that a socket holds

ASSUME ConnectionAssumption ==
  /\ RioBuf \in Nat \ {0}
  /\ MaxLine \in Nat \ {0}
  /\ SockBuf \in Nat \ {0}

End == {"client", "server"}
Peer(e) == IF e = "client" THEN "server" ELSE "client"

(* A byte is a number, as in C; a formatted number counts as one byte.     *)
Byte == Nat
NL == 10

VARIABLES
  wire,    \* wire[e]: what the kernel holds for e to read
  open,    \* which ends are open
  reset,   \* where the connection was reset by the other end
  rio_buf, \* rio_buf[e]: the unread bytes of e's struct rio
  line,    \* line[e]: what e's rio_readlineb has stored in usrbuf
  out      \* out[e]: what e's rio_write has yet to write

connection == <<wire, open, reset, rio_buf, line, out>>

ConnectionType ==
  /\ wire \in [End -> Seq(Byte)]
  /\ open \in [End -> BOOLEAN]
  /\ reset \in [End -> BOOLEAN]
  /\ rio_buf \in [End -> Seq(Byte)]
  /\ line \in [End -> Seq(Byte)]
  /\ out \in [End -> Seq(Byte)]

Nothing == [e \in End |-> <<>>]

ConnectionInit ==
  /\ wire = Nothing
  /\ open = [e \in End |-> FALSE]
  /\ reset = [e \in End |-> FALSE]
  /\ rio_buf = Nothing
  /\ line = Nothing
  /\ out = Nothing

First(s, n) == SubSeq(s, 1, n)
Rest(s, n) == SubSeq(s, n + 1, Len(s))
-----------------------------------------------------------------------------
(* open_clientfd and accept, and Rio_init at both ends.                    *)
Open ==
  /\ wire' = Nothing
  /\ open' = [e \in End |-> TRUE]
  /\ reset' = [e \in End |-> FALSE]
  /\ rio_buf' = Nothing
  /\ line' = Nothing
  /\ out' = Nothing

(* close, or the end of the process.  When the kernel still holds bytes    *)
(* for e, it resets the connection instead of ending it.                   *)
Close(e) ==
  /\ open' = [open EXCEPT ![e] = FALSE]
  /\ reset' = [reset EXCEPT ![Peer(e)] = @ \/ wire[e] # <<>>]
  /\ wire' = [wire EXCEPT ![e] = <<>>]
  /\ rio_buf' = [rio_buf EXCEPT ![e] = <<>>]
  /\ line' = [line EXCEPT ![e] = <<>>]
  /\ out' = [out EXCEPT ![e] = <<>>]
-----------------------------------------------------------------------------
(* Rio_write: the caller goes on when everything is written.               *)
Say(e, s) ==
  /\ out[e] = <<>>
  /\ out' = [out EXCEPT ![e] = s]
  /\ UNCHANGED <<wire, open, reset, rio_buf, line>>

LeftNone(s, n) == <<>> \* mutant: a short write ends the loop
Left(s, n) == Rest(s, n)

(* One write().  When the other end is closed, the first one succeeds, but *)
(* the bytes are gone, and the connection is reset.                        *)
Write(e) ==
  /\ out[e] # <<>>
  /\ UNCHANGED <<open, rio_buf, line>>
  /\ \/ /\ open[Peer(e)]
        /\ \E n \in 1 .. Len(out[e]) :
             /\ Len(wire[Peer(e)]) + n <= SockBuf
             /\ wire' = [wire EXCEPT ![Peer(e)] = @ \o First(out[e], n)]
             /\ out' = [out EXCEPT ![e] = Left(@, n)]
        /\ UNCHANGED reset
     \/ /\ ~open[Peer(e)]
        /\ ~reset[e]
        /\ \E n \in 1 .. Len(out[e]) : out' = [out EXCEPT ![e] = Left(@, n)]
        /\ reset' = [reset EXCEPT ![e] = TRUE]
        /\ UNCHANGED wire

(* The next one fails: unix_error, or SIGPIPE, ends the process.           *)
WriteFails(e) == out[e] # <<>> /\ ~open[Peer(e)] /\ reset[e]
-----------------------------------------------------------------------------
(* The loop of rio_readlineb ends after a newline, or maxlen bytes.        *)
LineReadFull(e) == Len(line[e]) = MaxLine \* mutant: lines run together
LineRead(e) ==
  /\ line[e] # <<>>
  /\ Last(line[e]) = NL \/ Len(line[e]) = MaxLine

(* rio_readb: when its buffer is empty, it reads what there is.            *)
Refill(e) ==
  /\ ~LineRead(e)
  /\ rio_buf[e] = <<>>
  /\ wire[e] # <<>>
  /\ \E n \in 1 .. Len(wire[e]) :
       /\ n <= RioBuf
       /\ rio_buf' = [rio_buf EXCEPT ![e] = First(wire[e], n)]
       /\ wire' = [wire EXCEPT ![e] = Rest(@, n)]
  /\ UNCHANGED <<open, reset, line, out>>

(* One turn of it: a byte goes from the struct rio to usrbuf.              *)
NextByte(e) ==
  /\ ~LineRead(e)
  /\ rio_buf[e] # <<>>
  /\ line' = [line EXCEPT ![e] = Append(@, Head(rio_buf[e]))]
  /\ rio_buf' = [rio_buf EXCEPT ![e] = Tail(@)]
  /\ UNCHANGED <<wire, open, reset, out>>

Dry(e) == rio_buf[e] = <<>> /\ wire[e] = <<>> /\ ~open[Peer(e)]

(* rio_readlineb returns Len(line[e]), 0 at the end of the stream; or it   *)
(* fails, and Rio_readlineb ends the process.                              *)
Returns(e) == LineRead(e) \/ (Dry(e) /\ ~reset[e])
ReadFails(e) == ~LineRead(e) /\ Dry(e) /\ reset[e]

(* The next call.                                                          *)
NextLine(e) ==
  /\ line' = [line EXCEPT ![e] = <<>>]
  /\ UNCHANGED <<wire, open, reset, rio_buf, out>>

(* The terminating zero goes to usrbuf[maxlen], one past the buffer.       *)
Overrun(e) == Len(line[e]) = MaxLine
=============================================================================
