------------------------------ MODULE MCDialLoop ------------------------------
(***************************************************************************)
(* DialLoop with the shipped backoff (1 s doubling to 30 s), in seconds.   *)
(***************************************************************************)
EXTENDS DialLoop

MCBackoffMin == 1
MCBackoffMax == 30

\* Five doublings reach the cap (1, 2, 4, 8, 16, 30); one more rung shows it
\* stays there.
MCRungCap == 6
===============================================================================
