--------------------------- MODULE MCStagedOutput ---------------------------
(* Small instances of StagedOutput for TLC. *)
EXTENDS StagedOutput, TLC

CONSTANTS a, b

Asked(front, source, output, format, force, verify, remote) ==
  [front |-> front, source |-> source, output |-> output, format |-> format,
   named |-> Nothing, force |-> force, verify |-> verify, remote |-> remote]

AllRequests ==
  {Asked("cli", Folder, Dest, Nothing, TRUE, FALSE, FALSE),
   Asked("cli", Folder, Dest, "7z", FALSE, TRUE, FALSE),
   Asked("desktop", b, a, "tar", TRUE, TRUE, FALSE),
   Asked("desktop", Folder, Dest, "zip", TRUE, FALSE, TRUE)}

RemoteRequests == {r \in AllRequests : r.remote}

(* A member is missing at first only where nothing is at Dest, which is not in
   the folder, and all runs were asked for the same. *)
MCInit ==
  /\ Init
  /\ (\E m \in Members : ~Exists(m)) =>
        ~nested /\ ~Exists(Dest) /\ \A v, w \in Runs : ask[v] = ask[w]
MCSpec == MCInit /\ [][Next]_vars

Symmetry == Permutations(Runs) \union Permutations(Procs) \union Permutations(Pids)
=============================================================================
