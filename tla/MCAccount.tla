----------------------------- MODULE MCAccount -----------------------------
(* The account's TLC run.  No handler prefers one identity to another.     *)
EXTENDS Account, TLC

Symmetry ==
    UNION {Permutations(S) : S \in {Handlers, Sessions, Usernames, Passwords, Secrets, Codes}}
=============================================================================
