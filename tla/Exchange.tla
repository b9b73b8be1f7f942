------------------------------ MODULE Exchange ------------------------------
(***************************************************************************)
(* Requests and answers over a Connection: request_init, request_error and *)
(* request_sendfile of request.c at one worker of the server, and, at the  *)
(* other end, client_request of client.c, main of client_simple.c, or a    *)
(* client of another make, which may say anything.                         *)
(*                                                                         *)
(* A request or an answer is the sequence of its lines, and each line the  *)
(* bytes that one of the readers looks at.                                 *)
(***************************************************************************)
EXTENDS Connection

CONSTANTS
  Name,       \* what a request may name
  File,       \* the contents of the names that are regular, readable files
  Others,     \* what a client of another make may say
  NrTimes,    \* nr_times
  ClientDies  \* whether a client may be killed

(* The first byte of each line of interest; PUT is any other method.       *)
GET == 71
PUT == 80
Host == 72
Status == 83
Length == 76
Csum == 67
CRLF == <<13, NL>>

(* A formatted number, and a checksum.                                     *)
Digit(n) == 48 + n
Sum(s) ==
  LET total[i \in 0 .. Len(s)] == IF i = 0 THEN 0 ELSE total[i - 1] + s[i]
  IN total[Len(s)]

Request(n) == <<GET, n, NL>> \o <<Host, NL>> \o CRLF

Answer(body) ==
  <<Status, NL>> \o <<Length, Digit(Len(body)), NL>>
    \o <<Csum, Digit(Sum(body)), NL>> \o CRLF \o body

(* The page that request_error makes.                                      *)
ErrorPage == <<60, NL>>

(* An error page fits into the buffer of a socket.                         *)
ASSUME ExchangeAssumption ==
  /\ Name \subseteq Byte \ {13, NL}
  /\ File \in [DOMAIN File -> Seq(Byte)] /\ DOMAIN File \subseteq Name
  /\ Others \subseteq Seq(Byte)
  /\ NrTimes \in Nat \ {0}
  /\ ClientDies \in BOOLEAN
  /\ SockBuf >= Len(Answer(ErrorPage))

VARIABLES
  pc,      \* where each end is
  program, \* the client's program
  name,    \* the name it asks for, unless it is of another make
  asked,   \* all that it says, <<>> before its first connection
  uri,     \* the name the worker has read, 0 before it has
  method,  \* the method it has read, 0 before it has
  buf,     \* buf of request_read_headers
  length, csum,          \* what client_print has read in the headers
  length_received, csum_received, \* and what it has counted in the body
  times    \* how many requests client_request has made

client == <<program, name, asked, length, csum, length_received, csum_received, times>>
server == <<uri, method, buf>>
vars == <<connection, pc, client, server>>

TypeOK ==
  /\ ConnectionType
  /\ pc["client"] \in {"connect", "send", "status", "headers", "body", "check",
                       "done", "abort", "exit", "smashed", "dead"}
  /\ pc["server"] \in {"accept", "request", "headers", "respond", "reply",
                       "exit", "smashed"}
  /\ program \in {"client", "client_simple", "other"}
  /\ name \in Name
  /\ {uri, method} \subseteq Byte
  /\ {asked, buf} \subseteq Seq(Byte)
  /\ {length, csum, length_received, csum_received} \subseteq Nat
  /\ times \in 0 .. NrTimes

Init ==
  /\ ConnectionInit
  /\ pc = [client |-> "connect", server |-> "accept"]
  /\ program \in {"client", "client_simple", "other"}
  /\ name \in Name
  /\ asked = <<>>
  /\ uri = 0
  /\ method = 0
  /\ buf = <<>>
  /\ length = 0 /\ csum = 0
  /\ length_received = 0 /\ csum_received = 0
  /\ times = 0

Goto(e, l) == pc' = [pc EXCEPT ![e] = l]
-----------------------------------------------------------------------------
(* client_request: a connection, on which a worker waits for the request.  *)
Asks ==
  \/ program = "client" /\ name' \in DOMAIN File /\ asked' = Request(name')
  \/ program = "client_simple" /\ name' \in Name /\ asked' = Request(name')
  \/ program = "other" /\ name' = name /\ asked' \in Others

Connect ==
  /\ pc["client"] = "connect"
  /\ pc["server"] = "accept"
  /\ Open
  /\ pc' = [client |-> "send", server |-> "request"]
  /\ Asks
  /\ uri' = 0
  /\ method' = 0
  /\ length' = 0 /\ csum' = 0
  /\ length_received' = 0 /\ csum_received' = 0
  /\ UNCHANGED <<program, buf, times>>

(* client_send.                                                            *)
Send ==
  /\ pc["client"] = "send"
  /\ Say("client", asked)
  /\ Goto("client", "status")
  /\ UNCHANGED <<client, server>>

WriteOn(e) == Write(e) /\ UNCHANGED <<pc, client, server>>

(* Where each end is in rio_readlineb.                                     *)
Reads == [client |-> {"status", "headers", "body"}, server |-> {"request", "headers"}]

ReadOn(e) ==
  /\ pc[e] \in Reads[e]
  /\ out[e] = <<>>
  /\ Refill(e) \/ NextByte(e)
  /\ UNCHANGED <<pc, client, server>>

(* rio_readlineb has returned to the caller at l.                          *)
Back(e, l) == pc[e] = l /\ out[e] = <<>> /\ Returns(e)
-----------------------------------------------------------------------------
(* The worker: request_init.  What sscanf does not find in buf keeps what   *)
(* happens to be on the stack; so do buf at the end of the stream, and, for *)
(* all that is known, method and uri when the zero behind buf went astray.  *)
Scanned(l, i, any) ==
  IF Len(l) \in i + 1 .. MaxLine - 1 /\ l[i] \notin {13, NL} THEN {l[i]} ELSE any

AfterRequestSkip == "respond" \* mutant: the headers are not read
AfterRequest == "headers"

ReadRequest ==
  LET l == line["server"] IN
  /\ Back("server", "request")
  /\ method' \in Scanned(l, 1, {GET, PUT})
  /\ uri' \in Scanned(l, 2, Name)
  /\ buf' \in {<<>>, CRLF}
  /\ Goto("server", IF method' = GET THEN AfterRequest ELSE "respond")
  /\ NextLine("server")
  /\ UNCHANGED client

(* One turn of request_read_headers, which looks at buf and not at what    *)
(* Rio_readlineb returned.                                                 *)
IsBlankLf(l) == l = <<NL>> \* mutant: a line without CR ends the headers
IsBlank(l) == l = CRLF

ReadHeader ==
  LET l == IF line["server"] = <<>> THEN buf ELSE line["server"] IN
  /\ Back("server", "headers")
  /\ buf' = l
  /\ Goto("server", IF IsBlank(l) THEN "respond" ELSE "headers")
  /\ NextLine("server")
  /\ UNCHANGED <<client, uri, method>>

(* request_sendfile; or request_error, from request_init or                *)
(* request_readfile.                                                       *)
Page == IF method = GET /\ uri \in DOMAIN File THEN File[uri] ELSE ErrorPage

Respond ==
  /\ pc["server"] = "respond"
  /\ Say("server", Answer(Page))
  /\ Goto("server", "reply")
  /\ UNCHANGED <<client, server>>

(* request_destroy.                                                        *)
DestroyNot == UNCHANGED connection \* mutant: the connection stays open
Destroy == Close("server")

Finish ==
  /\ pc["server"] = "reply"
  /\ out["server"] = <<>>
  /\ Destroy
  /\ Goto("server", "accept")
  /\ UNCHANGED <<client, server>>

(* unix_error, or SIGPIPE: the server ends, with all its workers.          *)
ServerFails ==
  /\ WriteFails("server") \/ (pc["server"] \in Reads["server"] /\ ReadFails("server"))
  /\ Close("server")
  /\ Goto("server", "exit")
  /\ UNCHANGED <<client, server>>

(* What the zero past buf does to the worker's stack, at the worst.        *)
ServerSmashed ==
  /\ pc["server"] \in Reads["server"]
  /\ Overrun("server")
  /\ Close("server")
  /\ Goto("server", "smashed")
  /\ UNCHANGED <<client, server>>
-----------------------------------------------------------------------------
(* client_print: the first line is not looked at.                          *)
ReadStatus ==
  LET l == line["client"] IN
  /\ Back("client", "status")
  /\ Goto("client", IF l = <<>> \/ IsBlank(l) THEN "body" ELSE "headers")
  /\ NextLine("client")
  /\ UNCHANGED <<client, server>>

(* The headers up to the empty line, or the end of the stream.             *)
ReadTag ==
  LET l == line["client"]
      Tag(t, old) == IF Len(l) > 1 /\ l[1] = t THEN l[2] - Digit(0) ELSE old
  IN
  /\ Back("client", "headers")
  /\ length' = Tag(Length, length)
  /\ csum' = Tag(Csum, csum)
  /\ Goto("client", IF l = <<>> \/ IsBlank(l) THEN "body" ELSE "headers")
  /\ NextLine("client")
  /\ UNCHANGED <<server, program, name, asked, length_received, csum_received, times>>

(* The body up to the end of the stream, as far as MAXBUF bytes at a time. *)
BodyEndsSoon(l) == Len(l) < MaxLine \* mutant: a short read ends the body
BodyEnds(l) == l = <<>>

ReadBody ==
  LET l == line["client"] IN
  /\ Back("client", "body")
  /\ length_received' = length_received + Len(l)
  /\ csum_received' = csum_received + Sum(l)
  /\ Goto("client", IF BodyEnds(l) THEN "check" ELSE "body")
  /\ NextLine("client")
  /\ UNCHANGED <<server, program, name, asked, length, csum, times>>

(* The assertions at the end of client_print, of each client.              *)
FileReceived ==
  /\ csum = Sum(File[name]) /\ length = Len(File[name])
  /\ length = length_received /\ csum = csum_received

SizeReceived == length # 0 => length = length_received

Assertions ==
  /\ program = "client" => FileReceived
  /\ program = "client_simple" => SizeReceived

AgainOnce == times < NrTimes \* mutant: off by one
Again == times + 1 < NrTimes

Check ==
  /\ pc["client"] = "check"
  /\ Close("client")
  /\ Goto("client", IF ~Assertions THEN "abort"
                    ELSE IF program = "client" /\ Again THEN "connect" ELSE "done")
  /\ times' = times + 1
  /\ UNCHANGED <<server, program, name, asked, length, csum, length_received,
                 csum_received>>

(* The end of the client's process: unix_error; what the zero past buf     *)
(* does to its stack; a signal from outside.                               *)
ClientLeaves(l) ==
  /\ Close("client")
  /\ Goto("client", l)
  /\ UNCHANGED <<client, server>>

ClientFails ==
  /\ WriteFails("client") \/ (pc["client"] \in Reads["client"] /\ ReadFails("client"))
  /\ ClientLeaves("exit")

ClientSmashed ==
  /\ pc["client"] \in Reads["client"]
  /\ Overrun("client")
  /\ ClientLeaves("smashed")

ClientKilled ==
  /\ ClientDies
  /\ open["client"]
  /\ ClientLeaves("dead")
-----------------------------------------------------------------------------
ClientStep ==
  \/ Connect \/ Send \/ WriteOn("client") \/ ReadOn("client")
  \/ ReadStatus \/ ReadTag \/ ReadBody \/ Check \/ ClientFails

ServerStep ==
  \/ WriteOn("server") \/ ReadOn("server")
  \/ ReadRequest \/ ReadHeader \/ Respond \/ Finish \/ ServerFails

Next == ClientStep \/ ServerStep \/ ClientSmashed \/ ServerSmashed \/ ClientKilled

Spec == Init /\ [][Next]_vars

(* Both processes run, and the kernel delivers.                            *)
FairSpec == Spec /\ WF_vars(ClientStep) /\ WF_vars(ServerStep)
-----------------------------------------------------------------------------
(* Whatever the kernel does with the pieces, and whatever Rio keeps in its *)
(* buffers, each end takes what the other has said, byte by byte.          *)
Pending(e) == IF open[e] THEN rio_buf[e] \o wire[e] \o out[Peer(e)] ELSE <<>>
Stream == INSTANCE ByteStream WITH pending <- [e \in End |-> Pending(e)]
Streams == Stream!Spec

(* The assertions of client_print hold: what the client counts is what the *)
(* headers say, and this is the file that it asked for, of all requests it *)
(* makes and for every way the answer is cut into pieces and lines.        *)
AssertionsHold == pc["client"] # "abort"

(* A worker that answers a GET has read its headers to the end, so that it *)
(* closes a connection with nothing left to read: no client of this        *)
(* repository ever loses the end of an answer to a reset.                  *)
GetNotReset == program # "other" => pc["client"] # "exit" /\ ~reset["client"]

(* rio_readlineb stores its terminating zero past the buffer only for      *)
(* MAXLINE bytes with no newline before the last: in the worker, when a    *)
(* client of another make sends them; in a client, when the file that the  *)
(* worker answers with has them.                                           *)
LongLine(s) ==
  \E i \in 1 .. Len(s) + 1 - MaxLine : \A k \in i .. i + MaxLine - 2 : s[k] # NL

OverrunOnlyLong ==
  /\ Overrun("server") => program = "other" /\ LongLine(asked)
  /\ Overrun("client") => LongLine(Page)

(* A client of another make that has not said all of its headers may keep  *)
(* the worker waiting for them.                                            *)
Stalls == open["client"] /\ ~IsSuffix(<<NL>> \o CRLF, asked)

(* Every request that is whole comes to an end for the client.             *)
ClientEnds ==
  <>(pc["client"] \in {"done", "abort", "exit", "smashed", "dead"} \/ Stalls)

(* Unless the client dies or stalls, or the worker does on a long line, a  *)
(* worker that takes a connection is done with it some time, and the       *)
(* server goes on.                                                         *)
ServerReturns ==
  pc["server"] # "accept" ~>
    \/ pc["server"] \in {"accept", "smashed"}
    \/ pc["client"] \in {"dead", "smashed"}
    \/ Stalls

(* "Returns NULL on failure": request_init returns, whatever happens to    *)
(* the connection.                                                         *)
InitReturns ==
  pc["server"] \in Reads["server"] ~> pc["server"] \notin Reads["server"]
=============================================================================
