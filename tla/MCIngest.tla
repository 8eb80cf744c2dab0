------------------------------ MODULE MCIngest ------------------------------
(* Model-checking instances of Ingest.                                     *)
EXTENDS Ingest, TLC

\* Attempts and names are interchangeable: no operator tells them apart.
Symmetric == Permutations(Uploads) \cup Permutations(Names)

=============================================================================
