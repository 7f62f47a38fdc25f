--------------------------- MODULE MCDocumentVault ---------------------------
\* DocumentVault on small instances.
EXTENDS DocumentVault, TLC

Symmetry == Permutations(Request)

\* Bound: what follows once a document was overwritten with an outdated row is
\* explored only where it has no file and no alert.  With one document only
\* TypeOK and UsageShortfall look at it from then on, and files and alerts do
\* not touch the counter.
StaleIsBare ==
    stale # {} => store = {} /\ \A k \in DOMAIN alert : alert[k].status = "absent"
=============================================================================
