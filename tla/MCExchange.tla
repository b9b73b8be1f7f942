----------------------------- MODULE MCExchange -----------------------------
(* Two files, and a third name that is no file.                            *)
EXTENDS Exchange, TLC

(* A file with lines; and one that fills the client's buffer of 4 bytes.   *)
Files == 97 :> <<1, NL, 2>> @@ 98 :> <<1, 1, 2, 2, 1, 2>>

(* Requests of another make, with lines for a buffer of 4 bytes: a method  *)
(* that is refused, in a line that fills the buffer; a name that the end   *)
(* of the buffer cuts off; a header whose rest looks like the empty line;  *)
(* and headers without an end.                                             *)
OtherRequests ==
  { <<PUT, 97, 13, NL>> \o CRLF,
    <<GET, 97, 1, 1, 1, NL>> \o CRLF,
    <<GET, 98, NL>> \o <<Host, 1, 1, 1, 13, NL>> \o CRLF,
    <<GET, 97, NL>> \o <<Host, NL>> }
=============================================================================
