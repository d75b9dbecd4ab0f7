------------------------------ MODULE MountTable ------------------------------
(***************************************************************************)
(* What the service promises of mounts.ini: the mounts it stands for are   *)
(* the contents of the file at one moment, taken over at once, and what it *)
(* starts to serve is one of them.  What was served before may go on until *)
(* it is withdrawn, but nothing is started, and the file not read again,   *)
(* while something is served that the table does not have.                 *)
(*                                                                         *)
(* Daemon, which changes its list one mount at a time and starts children  *)
(* for jobs that hold old copies of it, implements this.                   *)
(***************************************************************************)
CONSTANT Contents  \* what the file may have: sets of mounts

VARIABLES
  saved,  \* the file
  table,  \* the mounts the service stands for
  served  \* those a child of the current list serves

vars == <<saved, table, served>>

Init ==
  /\ saved \in Contents
  /\ table = {}
  /\ served = {}

\* The controller writes the file.
Save ==
  /\ saved' \in Contents
  /\ UNCHANGED <<table, served>>

\* A reload takes the file over; what it does to the children comes later.
Load ==
  /\ served \subseteq table
  /\ table' = saved
  /\ UNCHANGED <<saved, served>>

\* A child starts.
Serve ==
  /\ served \subseteq table
  /\ \E m \in table : served' = served \cup {m}
  /\ UNCHANGED <<saved, table>>

\* Children end, or are removed or replaced.
Withdraw ==
  /\ served' \in SUBSET served
  /\ UNCHANGED <<saved, table>>

\* The service stops.
End ==
  /\ table' = {}
  /\ served' = {}
  /\ UNCHANGED saved

Next == Save \/ Load \/ Serve \/ Withdraw \/ End

Spec == Init /\ [][Next]_vars
=============================================================================
