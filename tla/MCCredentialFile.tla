---------------------------- MODULE MCCredentialFile ----------------------------
(***************************************************************************)
(* CredentialFile with one pod on the volume, and the names of the files   *)
(* of two nodes (CredentialName).                                          *)
(***************************************************************************)
EXTENDS CredentialFile, TLC

CONSTANTS p1, s1, s2, i1, i2, i3

OnePod == {p1}
TwoSecrets == {s1, s2}

\* One for each name and one the disk still holds.
ThreeInodes == {i1, i2, i3}

\* Secrets and inodes are interchangeable.
Symmetry == Permutations(TwoSecrets) \union Permutations(ThreeInodes)

\* Two letters, a capital and a separator; texts are longer than a slug may be.
TwoPlain   == {"a", "b"}
OneCapital == [c \in {"A"} |-> "a"]
OneOther   == {"/"}
TheDefault == <<"b">>
Urls       == BoundedSeq({"a", "b", "A", "/"}, 5)
Labels     == BoundedSeq({"a", "b", "/"}, 2)
===============================================================================
