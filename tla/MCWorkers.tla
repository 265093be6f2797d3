------------------------------- MODULE MCWorkers -------------------------------
(***************************************************************************)
(* Workers with two threads and three calls, of which one follows a log:   *)
(* one thread may be gone for good.                                        *)
(***************************************************************************)
EXTENDS Workers

CONSTANTS w1, w2, c1, c2, c3

TwoThreads == {w1, w2}
MCCalls    == {c1, c2, c3}
OneCall    == {c1}
===============================================================================
