------------------------------ MODULE MCExecCall ------------------------------
(***************************************************************************)
(* ExecCall with a command and one process it may fork.                    *)
(***************************************************************************)
EXTENDS ExecCall

CONSTANTS child, forked

Alone == {}
OneForked == {forked}

\* Nothing, or what a pipe holds.
FitsPipe == {0, 2}
\* More than a pipe holds.
ExceedsPipe == {3}
===============================================================================
