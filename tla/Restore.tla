------------------------------ MODULE Restore -------------------------------
(***************************************************************************)
(* What a restore would find: restoreplan, restore.StreamSnapshot and      *)
(* restore-chain-to, as operators on the state of Ingest.  A restore       *)
(* changes no state.                                                       *)
(***************************************************************************)
EXTENDS Ingest

\* Plan.ValidateStreamable: CommitSnapshot is the only statement that sets
\* manifest_object_key, so a committed row has one.
Streamable(u) == snap[u] = "committed"

\* restore.StreamSnapshot: the stream of the attempt whose manifest is at the
\* name's key, if every chunk that manifest lists has its checksum.
StreamSnapshot(n) ==
    LET m == manifestObj[n] IN
    IF m # None /\ \A i \in 0 .. idx[m] - 1 : chunkObj[n][i] = m THEN m ELSE None

\* restore-chain-to: every snapshot of the chain is streamable and yields
\* the stream that was received for it.
RestorableChain(u) ==
    \A p \in RestoreChain(u) : Streamable(p) /\ StreamSnapshot(name[p]) = p

\* The attempt that restoring the name yields.
RestorableAs(n) ==
    LET found == {u \in RowNamed(n) : RestorableChain(u)}
    IN  IF found = {} THEN None ELSE CHOOSE u \in found : TRUE

=============================================================================
