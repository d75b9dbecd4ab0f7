------------------------------ MODULE MCDaemon ------------------------------
(* Instances of Daemon for TLC: which lists mounts.ini may hold.           *)
EXTENDS Daemon, TLC

CONSTANT a

Info(u, e, k, t, g) ==
  [uuid |-> u, enabled |-> e, keepAlive |-> k, target |-> t, tuning |-> g]

T1 == CHOOSE t \in Targets : TRUE
G1 == CHOOSE g \in Tunings : TRUE

\* One mount: absent, or with its flags set or not.
OneMount == {{}} \cup {{Info(a, e, e, t, G1)} : e \in BOOLEAN, t \in Targets}

\* One mount that comes and goes.
Present == {{}, {Info(a, TRUE, TRUE, T1, G1)}}

\* One mount whose compared and uncompared fields change.
Fields == {{Info(a, TRUE, TRUE, t, g)} : t \in Targets, g \in Tunings}

Symmetry == Permutations(Procs) \cup Permutations(Jobs)
=============================================================================
