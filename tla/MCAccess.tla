------------------------------ MODULE MCAccess ------------------------------
(* Small instances of the parts of Access: what is alike is symmetric.     *)
EXTENDS Access, TLC

Symmetry == Permutations(Request) \union Permutations(Token) \union Permutations(Chain)
=============================================================================
