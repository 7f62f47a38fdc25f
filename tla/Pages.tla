-------------------------------- MODULE Pages --------------------------------
(***************************************************************************)
(* LIMIT and OFFSET: how the repositories return one page of the rows that *)
(* a query finds, in the order of a column that need not be unique.        *)
(***************************************************************************)
EXTENDS Integers, FiniteSets

DefaultPerPage == 2
MaxPerPage     == 3

\* perPageParam, with 2 and 3 in the place of 20 and 100.
PerPageParam(raw) ==
    IF raw < 1 THEN DefaultPerPage ELSE IF raw > MaxPerPage THEN MaxPerPage ELSE raw

\* An offset that counts pages from 0.
WrongPageOffset(p, size) == p * size

PageOffset(p, size) == (p - 1) * size

TotalPages(n, size) == (n + size - 1) \div size

\* ORDER BY at puts the rows P behind the rows B and before all other rows.
Ordered(B, P, rows, at) ==
    /\ \A b \in B, p \in P : at[b] <= at[p]
    /\ \A x \in B \union P, r \in rows \ (B \union P) : at[x] <= at[r]

\* Rows that are equal at the column come in any order, each time anew.
MayReturn(P, rows, at, offset, size) ==
    LET rest == Cardinality(rows) - offset IN
    IF rest <= 0 THEN P = {}
    ELSE /\ Cardinality(P) = (IF rest < size THEN rest ELSE size)
         /\ \E B \in SUBSET (rows \ P) : Cardinality(B) = offset /\ Ordered(B, P, rows, at)
=============================================================================
