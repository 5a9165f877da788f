---------------------------- MODULE MC_InetDomain ----------------------------
(* Names of up to four characters over a, A, b and the dot.                *)
EXTENDS InetDomain

CONSTANT NoDom

MCAlphabet == {"a", "A", "b", "."}
MCFolding == [c \in {"A"} |-> "a"]
=============================================================================
