------------------------------ MODULE MCProcTable ------------------------------
(***************************************************************************)
(* ProcTable with a watched name, a longer one that begins with it, and    *)
(* one with a bracket in it.                                               *)
(***************************************************************************)
EXTENDS ProcTable

nginx == <<"n">>

PlainComms   == {nginx, <<"n", "x">>}
MixedComms   == PlainComms \union {<<"x", ")", "n">>}
===============================================================================
