----------------------------- MODULE BackupStore ----------------------------
(***************************************************************************)
(* What zfs-s3nd promises a client that backs up snapshots: a snapshot     *)
(* becomes restorable in one step, that step is what the client's "ok"     *)
(* reports, and from then on restoring it yields the same stream until it  *)
(* is removed on request.                                                  *)
(***************************************************************************)

CONSTANTS Uploads, Names, None

VARIABLES
    restorable,   \* the attempt whose stream a restore of a name yields
    acked,        \* the attempts whose client was told "ok"
    requested     \* the names somebody has asked to remove

Init ==
    /\ restorable = [n \in Names |-> None]
    /\ acked = {} /\ requested = {}

Store(u, n) ==
    /\ u \notin acked
    /\ acked' = acked \cup {u}
    /\ restorable[n] = None
    /\ restorable' = [restorable EXCEPT ![n] = u]
    /\ UNCHANGED requested

\* Requests come and are settled.
Request ==
    /\ requested' \in SUBSET Names
    /\ UNCHANGED <<restorable, acked>>

\* Only what is asked for goes away, and at once.
Remove(removed) ==
    /\ removed \subseteq requested
    /\ restorable' = [n \in Names |-> IF n \in removed THEN None ELSE restorable[n]]
    /\ UNCHANGED <<acked, requested>>

Next ==
    \/ \E u \in Uploads, n \in Names : Store(u, n)
    \/ \E removed \in SUBSET Names : Remove(removed)
    \/ Request

Spec == Init /\ [][Next]_<<restorable, acked, requested>>

=============================================================================
