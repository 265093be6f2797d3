----------------------------- MODULE MCSelfHealer -----------------------------
(***************************************************************************)
(* SelfHealer watching a process, alone or with a cluster.                 *)
(***************************************************************************)
EXTENDS SelfHealer

CONSTANTS nginx, pod, node

OneProcess == {nginx}
OnePod == {pod}
OneNode == {node}
Nothing == {}
===============================================================================
