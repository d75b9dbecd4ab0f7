-------------------------------- MODULE Child --------------------------------
(***************************************************************************)
(* What the supervisor and a child process promise each other: the states  *)
(* QProcess and the child go through.  The supervisor starts a child, asks *)
(* it to close, notices its exit and destroys its QProcess; the child      *)
(* creates its window and exits.  Daemon is written against this protocol  *)
(* and MountProcess is the program behind it.                              *)
(***************************************************************************)
CONSTANT Procs

VARIABLE child

ChildStates == {"none", "booting", "up", "closing", "exited"}
Alive       == {"booting", "up", "closing"}

\* Moves of the supervisor, one from each state to another.
Start  == {<<"none", "booting">>}
Ask    == {<<"up", "closing">>}
Notice == {<<"exited", "none">>}
Drop   == {<<s, "none">> : s \in Alive}

\* Moves of the child.
Ready == {<<"booting", "up">>}
Exit  == {<<s, "exited">> : s \in Alive}

Init == child = [p \in Procs |-> "none"]

\* The supervisor may move several children in one step.
Next ==
  /\ child' \in [Procs -> ChildStates]
  /\ \A p \in Procs :
       \/ child'[p] = child[p]
       \/ <<child[p], child'[p]>> \in
            Start \cup Ask \cup Notice \cup Drop \cup Ready \cup Exit

Spec == Init /\ [][Next]_child
=============================================================================
