----------------------------- MODULE MCDeletion -----------------------------
(* Model-checking instances of Deletion.                                   *)
EXTENDS Deletion, TLC

\* Attempts and names are interchangeable: no operator tells them apart.
Symmetric == Permutations(Uploads) \cup Permutations(Names)

\* Bound: one crash, one deletion or one upload that ends in an error.
OneMishap ==
    faults + Cardinality({d \in DelOps : del[d].status # "none"})
           + Cardinality({u \in Uploads : pc[u] \in {"fail", "error"}}) <= 1

=============================================================================
