------------------------- MODULE MCReplicaLifecycle -------------------------
(***************************************************************************)
(* Three runs over one container name: two contents of its env_file, which *)
(* stand for two versions of the service as well, and three volumes.       *)
(***************************************************************************)
EXTENDS ReplicaLifecycle

Flags(no_recreate, force, renew, start) ==
    [no_recreate |-> no_recreate, force_recreate |-> force, renew |-> renew, start |-> start]

\* up, up --no-recreate, up --force-recreate, up -V, create.
MCOptions ==
    {Flags(FALSE, FALSE, FALSE, TRUE), Flags(TRUE, FALSE, FALSE, TRUE),
     Flags(FALSE, TRUE, FALSE, TRUE), Flags(FALSE, FALSE, TRUE, TRUE),
     Flags(FALSE, FALSE, FALSE, FALSE)}

MCEnv == 1 .. 2
MCVol == {"v1", "v2", "v3"}
MCConfig == {1}
=============================================================================
