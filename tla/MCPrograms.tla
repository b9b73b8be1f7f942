----------------------------- MODULE MCPrograms -----------------------------
(***************************************************************************)
(* Small inputs for the programs that run by themselves.                   *)
(***************************************************************************)
EXTENDS Programs, TLC

(* A read-only file; and a tree with a write-protected directory in which  *)
(* there are a file, whose last block is not full, and a directory; an     *)
(* empty file; and something else.                                         *)
Dir(w) == Node("dir", w, <<>>)
Plain(w, d) == Node("file", w, d)

Trees ==
  {<<>> :> Plain(FALSE, <<1, 2, 3, 4>>),
   <<>> :> Dir(TRUE) @@ <<"a">> :> Dir(FALSE) @@ <<"a", "b">> :> Plain(FALSE, <<1, 2, 3>>)
     @@ <<"a", "c">> :> Dir(FALSE) @@ <<"b">> :> Plain(TRUE, <<>>)
     @@ <<"c">> :> Node("special", TRUE, <<>>)}

(* All strings of up to three characters around the digits' ends.          *)
Chars == {47, 48, 49, 50, 51, 57, 58}
Strings == UNION {[1 .. n -> Chars] : n \in 0 .. 3}

(* A file set of two or three files; of one; and one whose size overflows. *)
Runs == {<<2, 1>>, <<3, 1>>, <<2, 4>>}
=============================================================================
