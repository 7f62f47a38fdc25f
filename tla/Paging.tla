------------------------------- MODULE Paging -------------------------------
(***************************************************************************)
(* Reading a list page by page, as every FindAllByUser of the repositories *)
(* lets a client do it: each page is a request that counts the rows and    *)
(* then selects LIMIT rows from OFFSET on, in the order of a sort key that *)
(* need not be unique.  Between any two of these statements other requests *)
(* may add, remove or move rows.                                           *)
(***************************************************************************)
EXTENDS Pages

CONSTANTS
    Line,           \* rows that may be in the list
    Key,           \* values of the column the list is sorted by
    RawPerPage,    \* per_page as the client writes it
    MaxChanges     \* bound: changes while the client is reading

ASSUME PagingAssumption ==
    /\ IsFiniteSet(Line) /\ Key \subseteq Nat \ {0}
    /\ RawPerPage \subseteq Int /\ MaxChanges \in Nat

VARIABLES
    key,           \* key[r], the sort key of a row, NotListed without the row
    perPage,       \* the page size that is used
    page,          \* the page the client asks for next
    total,         \* the count of the request in progress, or NotCounted
    reading,       \* the client wants another page
    seen,          \* seen[r], how often the row was in a page
    changes        \* <<r, before, after>> for each row changed meanwhile

pagingVars == <<key, perPage, page, total, reading, seen, changes>>

NotListed  == 0
NotCounted == -1

Listed == {r \in Line : key[r] # NotListed}

PagingStarts(k, size) ==
    /\ key = k /\ perPage = size /\ page = 1 /\ total = NotCounted /\ reading = TRUE
    /\ seen = [r \in Line |-> 0]
    /\ changes = {}

PagingInit ==
    \E k \in [Line -> Key \union {NotListed}], raw \in RawPerPage :
        PagingStarts(k, PerPageParam(raw))

CountRows ==
    /\ reading /\ total = NotCounted
    /\ total' = Cardinality(Listed)
    /\ UNCHANGED <<key, perPage, page, reading, seen, changes>>

FetchPage ==
    /\ reading /\ total # NotCounted
    /\ \E P \in SUBSET Listed :
        /\ MayReturn(P, Listed, key, PageOffset(page, perPage), perPage)
        /\ seen' = [r \in Line |-> IF r \in P THEN seen[r] + 1 ELSE seen[r]]
    /\ reading' = (page < TotalPages(total, perPage))
    /\ page' = page + 1 /\ total' = NotCounted
    /\ UNCHANGED <<key, perPage, changes>>

\* Another request adds, removes or moves a row.
ChangeRow ==
    /\ reading /\ Cardinality(changes) < MaxChanges
    /\ \E r \in Line, k \in Key \union {NotListed} :
        /\ k # key[r]
        /\ key' = [key EXCEPT ![r] = k]
        /\ changes' = changes \union {<<r, key[r], k>>}
    /\ UNCHANGED <<perPage, page, total, reading, seen>>

PagingNext == CountRows \/ FetchPage \/ ChangeRow
PagingSpec == PagingInit /\ [][PagingNext]_pagingVars

-----------------------------------------------------------------------------
(* Properties                                                              *)

PagingTypeOK ==
    /\ key \in [Line -> Key \union {NotListed}]
    /\ perPage \in 1 .. MaxPerPage /\ page \in Nat \ {0}
    /\ total \in Nat \union {NotCounted} /\ reading \in BOOLEAN
    /\ seen \in [Line -> Nat]
    /\ changes \subseteq Line \X (Key \union {NotListed}) \X (Key \union {NotListed})

\* Something at or before the place of r that made r's place move.
Disturbed(r) ==
    \/ \E x \in Line \ {r} : key[x] = key[r]
    \/ \E c \in changes : \E k \in {c[2], c[3]} : k # NotListed /\ k <= key[r]

\* A client that reads all pages sees every row that was there all the time
\* exactly once, unless another row has the same key, or a change took place at
\* or before the row's own place: what happens behind it does not matter.
EveryRowOnce ==
    \A r \in Listed : ~reading /\ ~Disturbed(r) => seen[r] = 1
=============================================================================
