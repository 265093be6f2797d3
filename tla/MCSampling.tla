------------------------------ MODULE MCSampling ------------------------------
(***************************************************************************)
(* Sampling with a watched container, one beside it whose name has the     *)
(* watched one in it, a process, a pod and a node.                         *)
(***************************************************************************)
EXTENDS Sampling

CONSTANTS web, oldWeb, pod, node

MCNames  == {web, oldWeb}
OneName  == {web}
MCWithin == {<<n, n>> : n \in MCNames} \union {<<web, oldWeb>>}
OnePod   == {pod}
OneNode  == {node}
===============================================================================
