------------------------------ MODULE MCPathGate ------------------------------
(***************************************************************************)
(* PathGate on file systems of two names and two levels, with one root and *)
(* the credential directory inside it.                                     *)
(***************************************************************************)
EXTENDS PathGate

TwoNames   == {"a", "b"}
TheRoots   == << <<"a">> >>
TheCreds   == <<"a", "a">>
NoSecrets  == {}
TheTargets == {<<"b">>, <<"a", "b">>}

Relative(parts) == [absolute |-> FALSE, parts |-> parts]
Absolute(parts) == [absolute |-> TRUE, parts |-> parts]

TheRequests ==
  {Relative(<<"b">>), Relative(<<"a">>), Relative(<<"a", "b">>), Relative(<<"b", "a">>),
   Relative(<<Up, Up, "b">>), Relative(<<"b", Up, "a">>),
   Absolute(<<"b">>), Absolute(<<"b", "a">>), Absolute(<<"a">>)}
===============================================================================
