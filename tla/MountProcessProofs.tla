-------------------------- MODULE MountProcessProofs --------------------------
(***************************************************************************)
(* Proofs about MountProcess, for every value of its constants: any number *)
(* of processes of the mount may be alive at the same time.                *)
(***************************************************************************)
EXTENDS MountProcess, TLAPS

\* WM_CLOSE is posted to windows only, and a FileMount is made after the window.
WindowInv ==
  \A p \in Procs :
    /\ posted[p] => HasWindow(p)
    /\ filemount[p] => HasWindow(p) /\ pc[p] # "constructing"

\* Processes that are alive at the same time know of their company.
OverlapInv ==
  \A p, q \in Procs : (p # q /\ ~Dead(p) /\ ~Dead(q)) => overlapped[p]

(***************************************************************************)
(* While something is promised nobody serves the drive and one process is  *)
(* alive at most.  What is promised is in its memory from the time it has  *)
(* read the file, and in the file unless that process has still to save or *)
(* the file is torn, which no process survives.                            *)
(***************************************************************************)
Keeps(p) ==
  /\ pc[p] \in {"loaded", "mounting", "saving", "closed", "lastSave"}
       => mem[p] = promise
  /\ pc[p] = "looping" /\ filemount[p] => mem[p] = promise
PromiseInv ==
  promise # Nothing =>
    /\ drive = NoProc
    /\ \A p, q \in Procs : ~Dead(p) /\ ~Dead(q) => p = q
    /\ \A p \in Procs : Keeps(p)
    /\ (\A p \in Procs : pc[p] \notin {"closed", "lastSave"})
         => dat \in {promise, Torn}

IInv == TypeOK /\ TornHasCause /\ WindowInv /\ OverlapInv /\ PromiseInv

-----------------------------------------------------------------------------
(* Type correctness.                                                       *)

\* A process that is over leaves values of their types.
LEMMA DieType ==
  ASSUME TypeOK, NEW p \in Procs, NEW l \in {"none", "exited"}, Die(p, l)
  PROVE  TypeOK'
BY ConstantsAssumption
   DEF ConstantsAssumption, TypeOK, Die, Over, Goto, Locations, Monitors

\* The end of a save leaves nodes or a torn file.
LEMMA WriteType ==
  ASSUME TypeOK, NEW p \in Procs, Written(p) \/ WriteFails
  PROVE  /\ dat' \in Values \cup {Torn}
         /\ damaged' \in BOOLEAN
         /\ unwritten' \in BOOLEAN
<1>1. mem[p] \in Values
  BY DEF TypeOK
<1>2. CASE Written(p)
  BY <1>1, <1>2 DEF TypeOK, Written
<1>3. CASE WriteFails
  BY <1>3 DEF TypeOK, WriteFails
<1> QED BY <1>2, <1>3

\* Every step keeps the types.
LEMMA NextType == TypeOK /\ [Next]_vars => TypeOK'
<1> SUFFICES ASSUME TypeOK, [Next]_vars PROVE TypeOK'
  OBVIOUS
<1> USE DEF Locations, Monitors, Goto, flags, history
<1>1. ASSUME NEW p \in Procs, Supervise(p) PROVE TypeOK'
  <2>1. CASE Start(p)
    BY <2>1, ConstantsAssumption DEF ConstantsAssumption, TypeOK, Start, Alone, Dead
  <2>2. CASE Terminate(p)
    BY <2>2 DEF TypeOK, Terminate, HasWindow
  <2>3. CASE Kill(p)
    BY <2>3, DieType DEF Kill
  <2>4. CASE NoticeExit(p)
    BY <2>4 DEF TypeOK, NoticeExit
  <2> QED BY <1>1, <2>1, <2>2, <2>3, <2>4 DEF Supervise
<1>2. ASSUME NEW p \in Procs, Boot(p) PROVE TypeOK'
  <2>1. CASE CreateWindow(p)
    BY <2>1 DEF TypeOK, CreateWindow
  <2>2. CASE Load(p)
    <3>1. CASE dat = Torn
      BY <2>2, <3>1, DieType DEF Load
    <3>2. CASE dat # Torn
      BY <2>2, <3>2 DEF TypeOK, Load
    <3> QED BY <3>1, <3>2
  <2>3. CASE LoadNoMount(p)
    BY <2>3 DEF TypeOK, LoadNoMount
  <2>4. CASE CheckLetter(p)
    BY <2>4 DEF TypeOK, CheckLetter
  <2>5. CASE Mount(p)
    BY <2>5 DEF TypeOK, Mount
  <2> QED BY <1>2, <2>1, <2>2, <2>3, <2>4, <2>5 DEF Boot
<1>3. ASSUME NEW p \in Procs, Loop(p) PROVE TypeOK'
  <2>1. CASE BeginSave(p)
    <3>1. CASE filemount[p]
      BY <2>1, <3>1 DEF TypeOK, BeginSave, Truncate, OpenFails
    <3>2. CASE ~filemount[p]
      BY <2>1, <3>2, DieType DEF BeginSave
    <3> QED BY <3>1, <3>2
  <2>2. CASE EndSave(p)
    <3>1. CASE Die(p, "exited")
      BY <3>1, DieType
    <3>2. CASE ~Die(p, "exited")
      <4>1. Written(p) \/ WriteFails
        BY <2>2, <3>2 DEF EndSave
      <4>2. dat' \in Values \cup {Torn} /\ damaged' \in BOOLEAN /\ unwritten' \in BOOLEAN
        BY <4>1, WriteType
      <4> QED BY <2>2, <3>2, <4>2 DEF TypeOK, EndSave
    <3> QED BY <3>1, <3>2
  <2>3. CASE LeaveLoop(p)
    BY <2>3 DEF TypeOK, LeaveLoop
  <2> QED BY <1>3, <2>1, <2>2, <2>3 DEF Loop
<1>4. ASSUME NEW p \in Procs, Leaving(p) PROVE TypeOK'
  <2>1. CASE Leave(p)
    BY <2>1 DEF TypeOK, Leave, Join
  <2>2. CASE LeaveNoMount(p)
    BY <2>2, DieType DEF LeaveNoMount
  <2>3. CASE BeginLastSave(p)
    <3>1. CASE Goto(p, "lastSave") /\ Truncate(p)
               /\ UNCHANGED <<flags, mem, drive, overlapped, promise>>
      BY <3>1 DEF TypeOK, Truncate
    <3>2. CASE Join(p) /\ OpenFails /\ promise' = Nothing
               /\ UNCHANGED <<mounted, drive>>
      BY <3>2 DEF TypeOK, Join, OpenFails
    <3> QED BY <2>3, <3>1, <3>2 DEF BeginLastSave
  <2>4. CASE EndLastSave(p)
    <3>1. CASE Die(p, "exited")
      BY <3>1, DieType
    <3>2. CASE ~Die(p, "exited")
      <4>1. Written(p) \/ WriteFails
        BY <2>4, <3>2 DEF EndLastSave
      <4>2. dat' \in Values \cup {Torn} /\ damaged' \in BOOLEAN /\ unwritten' \in BOOLEAN
        BY <4>1, WriteType
      <4>3. /\ Join(p) /\ UNCHANGED <<mounted, drive>>
            /\ promise' \in Values \cup {Nothing}
        BY <2>4, <3>2 DEF TypeOK, EndLastSave
      <4> QED BY <4>2, <4>3 DEF TypeOK, Join
    <3> QED BY <3>1, <3>2
  <2>5. CASE Exit(p)
    BY <2>5, ConstantsAssumption DEF ConstantsAssumption, TypeOK, Exit, Over
  <2> QED BY <1>4, <2>1, <2>2, <2>3, <2>4, <2>5 DEF Leaving
<1>5. ASSUME NEW p \in Procs, LateMonitor(p) PROVE TypeOK'
  BY <1>5 DEF TypeOK, LateMonitor
<1>6. ASSUME NEW p \in Procs, Crash(p) PROVE TypeOK'
  BY <1>6, DieType DEF Crash
<1>7. ASSUME NEW p \in Procs, NEW v \in Values, ChangeNodes(p, v) PROVE TypeOK'
  BY <1>7 DEF TypeOK, ChangeNodes
<1>8. CASE Unmounted
  BY <1>8 DEF TypeOK, Unmounted
<1>9. CASE UNCHANGED vars
  BY <1>9 DEF TypeOK, vars
<1> QED BY <1>1, <1>2, <1>3, <1>4, <1>5, <1>6, <1>7, <1>8, <1>9 DEF Next, MainThread

-----------------------------------------------------------------------------
(* One lemma for each part of the invariant.                               *)

\* A process that dies while it writes has damaged the file.
LEMMA DieTorn ==
  ASSUME TypeOK, TornHasCause, NEW p \in Procs, NEW l \in {"none", "exited"}, Die(p, l)
  PROVE  TornHasCause'
BY DEF TypeOK, TornHasCause, Die, Over, Goto, Writing

\* The file is torn for a reason, which no later save inherits.
LEMMA NextTorn == TypeOK /\ TornHasCause /\ [Next]_vars => TornHasCause'
<1> SUFFICES ASSUME TypeOK, TornHasCause, [Next]_vars PROVE TornHasCause'
  OBVIOUS
<1> USE DEF TypeOK, TornHasCause, Writing, Goto, flags, history
<1>1. ASSUME NEW p \in Procs, Supervise(p) PROVE TornHasCause'
  BY <1>1, DieTorn DEF Supervise, Start, Terminate, Kill, NoticeExit
<1>2. ASSUME NEW p \in Procs, Boot(p) PROVE TornHasCause'
  BY <1>2, DieTorn DEF Boot, CreateWindow, Load, LoadNoMount, CheckLetter, Mount
<1>3. ASSUME NEW p \in Procs, Loop(p) PROVE TornHasCause'
  <2>1. CASE BeginSave(p)
    BY <2>1, DieTorn DEF BeginSave, Truncate, OpenFails
  <2>2. CASE EndSave(p)
    BY <2>2, DieTorn, ConstantsAssumption
       DEF ConstantsAssumption, EndSave, Written, WriteFails
  <2>3. CASE LeaveLoop(p)
    BY <2>3 DEF LeaveLoop
  <2> QED BY <1>3, <2>1, <2>2, <2>3 DEF Loop
<1>4. ASSUME NEW p \in Procs, Leaving(p) PROVE TornHasCause'
  <2>1. CASE Leave(p)
    BY <2>1 DEF Leave, Join
  <2>2. CASE LeaveNoMount(p)
    BY <2>2, DieTorn DEF LeaveNoMount
  <2>3. CASE BeginLastSave(p)
    BY <2>3 DEF BeginLastSave, Truncate, OpenFails, Join
  <2>4. CASE EndLastSave(p)
    BY <2>4, DieTorn, ConstantsAssumption
       DEF ConstantsAssumption, EndLastSave, Written, WriteFails, Join
  <2>5. CASE Exit(p)
    BY <2>5 DEF Exit, Over
  <2> QED BY <1>4, <2>1, <2>2, <2>3, <2>4, <2>5 DEF Leaving
<1>5. ASSUME NEW p \in Procs, LateMonitor(p) PROVE TornHasCause'
  BY <1>5 DEF LateMonitor
<1>6. ASSUME NEW p \in Procs, Crash(p) PROVE TornHasCause'
  BY <1>6, DieTorn DEF Crash
<1>7. ASSUME NEW p \in Procs, NEW v \in Values, ChangeNodes(p, v) PROVE TornHasCause'
  BY <1>7 DEF ChangeNodes
<1>8. CASE Unmounted
  BY <1>8 DEF Unmounted
<1>9. CASE UNCHANGED vars
  BY <1>9 DEF vars
<1> QED BY <1>1, <1>2, <1>3, <1>4, <1>5, <1>6, <1>7, <1>8, <1>9 DEF Next, MainThread

\* Only a process that has a window gets WM_CLOSE or makes a FileMount.
LEMMA NextWindow == TypeOK /\ WindowInv /\ [Next]_vars => WindowInv'
<1> SUFFICES ASSUME TypeOK, WindowInv, [Next]_vars PROVE WindowInv'
  OBVIOUS
<1> USE DEF TypeOK, WindowInv, HasWindow, Dead, Goto, flags, history
<1>1. ASSUME NEW p \in Procs, NEW l \in {"none", "exited"}, Die(p, l) PROVE WindowInv'
  BY <1>1 DEF Die, Over
<1>2. ASSUME NEW p \in Procs, Supervise(p) PROVE WindowInv'
  BY <1>1, <1>2 DEF Supervise, Start, Terminate, Kill, NoticeExit
<1>3. ASSUME NEW p \in Procs, Boot(p) PROVE WindowInv'
  BY <1>1, <1>3 DEF Boot, CreateWindow, Load, LoadNoMount, CheckLetter, Mount
<1>4. ASSUME NEW p \in Procs, Loop(p) PROVE WindowInv'
  BY <1>1, <1>4 DEF Loop, BeginSave, EndSave, LeaveLoop
<1>5. ASSUME NEW p \in Procs, Leaving(p) PROVE WindowInv'
  BY <1>1, <1>5 DEF Leaving, Leave, LeaveNoMount, BeginLastSave, EndLastSave, Exit,
                    Join, Over
<1>6. ASSUME NEW p \in Procs, LateMonitor(p) \/ Crash(p) PROVE WindowInv'
  BY <1>1, <1>6 DEF LateMonitor, Crash
<1>7. ASSUME NEW p \in Procs, NEW v \in Values, ChangeNodes(p, v) PROVE WindowInv'
  BY <1>7 DEF ChangeNodes
<1>8. CASE Unmounted \/ UNCHANGED vars
  BY <1>8 DEF Unmounted, vars
<1> QED BY <1>2, <1>3, <1>4, <1>5, <1>6, <1>7, <1>8 DEF Next, MainThread

\* What one step does to who is alive: Start is the only one that makes a
\* process, and the only one that records company.
LEMMA NextAlive ==
  ASSUME TypeOK, [Next]_vars
  PROVE  \/ \E p \in Procs : Start(p)
         \/ /\ \A q \in Procs : Dead(q) => Dead(q)'
            /\ overlapped' = overlapped
<1> USE DEF TypeOK, Dead, Goto, flags, history
<1> DEFINE Same == /\ \A q \in Procs : Dead(q) => Dead(q)'
                   /\ overlapped' = overlapped
<1>1. ASSUME NEW p \in Procs, NEW l \in {"none", "exited"}, Die(p, l) PROVE Same
  BY <1>1 DEF Die, Over
<1>2. ASSUME NEW p \in Procs, Terminate(p) \/ Kill(p) \/ NoticeExit(p) PROVE Same
  BY <1>1, <1>2 DEF Terminate, Kill, NoticeExit
<1>3. ASSUME NEW p \in Procs, Boot(p) PROVE Same
  BY <1>1, <1>3 DEF Boot, CreateWindow, Load, LoadNoMount, CheckLetter, Mount
<1>4. ASSUME NEW p \in Procs, Loop(p) PROVE Same
  BY <1>1, <1>4 DEF Loop, BeginSave, EndSave, LeaveLoop
<1>5. ASSUME NEW p \in Procs, Leaving(p) PROVE Same
  BY <1>1, <1>5 DEF Leaving, Leave, LeaveNoMount, BeginLastSave, EndLastSave, Exit,
                    Join, Over
<1>6. ASSUME NEW p \in Procs, LateMonitor(p) \/ Crash(p) PROVE Same
  BY <1>1, <1>6 DEF LateMonitor, Crash
<1>7. ASSUME NEW p \in Procs, NEW v \in Values, ChangeNodes(p, v) PROVE Same
  BY <1>7 DEF ChangeNodes
<1>8. CASE Unmounted \/ UNCHANGED vars
  BY <1>8 DEF Unmounted, vars
<1> QED BY <1>2, <1>3, <1>4, <1>5, <1>6, <1>7, <1>8 DEF Next, MainThread, Supervise

\* Company is known on both sides.
LEMMA NextOverlap == TypeOK /\ OverlapInv /\ [Next]_vars => OverlapInv'
<1> SUFFICES ASSUME TypeOK, OverlapInv, [Next]_vars PROVE OverlapInv'
  OBVIOUS
<1>1. ASSUME NEW p \in Procs, Start(p) PROVE OverlapInv'
  BY <1>1 DEF TypeOK, OverlapInv, Start, Goto, Alone, Dead
<1>2. CASE (\A q \in Procs : Dead(q) => Dead(q)') /\ overlapped' = overlapped
  BY <1>2 DEF OverlapInv
<1> QED BY <1>1, <1>2, NextAlive

\* A process that dies breaks no promise: what it alone had is not promised.
LEMMA DiePromise ==
  ASSUME TypeOK, PromiseInv, NEW p \in Procs, NEW l \in {"none", "exited"}, Die(p, l)
  PROVE  PromiseInv'
BY DEF TypeOK, PromiseInv, Keeps, Die, Over, Goto, Dead

\* The supervisor starts a process for a promise only if it will be alone.
LEMMA SupervisePromise ==
  ASSUME TypeOK, PromiseInv, NEW p \in Procs, Supervise(p)
  PROVE  PromiseInv'
<1>1. CASE Start(p)
  BY <1>1 DEF TypeOK, PromiseInv, Keeps, Start, Goto, Alone, Dead
<1>2. CASE Terminate(p)
  BY <1>2 DEF TypeOK, PromiseInv, Keeps, Terminate, Dead, history
<1>3. CASE Kill(p)
  BY <1>3, DiePromise DEF Kill
<1>4. CASE NoticeExit(p)
  BY <1>4 DEF TypeOK, PromiseInv, Keeps, NoticeExit, Goto, Dead, flags, history
<1> QED BY <1>1, <1>2, <1>3, <1>4 DEF Supervise

\* A process that boots reads what is promised, and mounting it keeps it.
LEMMA BootPromise ==
  ASSUME TypeOK, WindowInv, PromiseInv, NEW p \in Procs, Boot(p)
  PROVE  PromiseInv'
<1> USE DEF TypeOK, PromiseInv, Keeps, Goto, Dead, flags, history
<1>1. CASE CreateWindow(p)
  BY <1>1 DEF CreateWindow
<1>2. CASE Load(p)
  <2>1. CASE dat = Torn
    BY <1>2, <2>1, DiePromise DEF Load
  <2>2. CASE dat # Torn
    BY <1>2, <2>2 DEF Load
  <2> QED BY <2>1, <2>2
<1>3. CASE LoadNoMount(p)
  BY <1>3 DEF LoadNoMount, WindowInv
<1>4. CASE CheckLetter(p)
  BY <1>4 DEF CheckLetter
<1>5. CASE Mount(p)
  BY <1>5 DEF Mount
<1> QED BY <1>1, <1>2, <1>3, <1>4, <1>5 DEF Boot

\* The timer writes what is promised, if anything.
LEMMA LoopPromise ==
  ASSUME TypeOK, PromiseInv, NEW p \in Procs, Loop(p)
  PROVE  PromiseInv'
<1> USE DEF TypeOK, PromiseInv, Keeps, Goto, Dead, flags, history
<1>1. CASE BeginSave(p)
  <2>1. CASE filemount[p]
    BY <1>1, <2>1 DEF BeginSave, Truncate, OpenFails
  <2>2. CASE ~filemount[p]
    BY <1>1, <2>2, DiePromise DEF BeginSave
  <2> QED BY <2>1, <2>2
<1>2. CASE EndSave(p)
  <2>1. CASE Die(p, "exited")
    BY <2>1, DiePromise
  <2>2. CASE ~Die(p, "exited")
    BY <1>2, <2>2 DEF EndSave, Written, WriteFails
  <2> QED BY <2>1, <2>2
<1>3. CASE LeaveLoop(p)
  BY <1>3 DEF LeaveLoop
<1> QED BY <1>1, <1>2, <1>3 DEF Loop

\* A process that closes its drive in order and alone makes the promise, and
\* keeps it if it can open and write the file.
LEMMA LeavingPromise ==
  ASSUME TypeOK, OverlapInv, PromiseInv, NEW p \in Procs, Leaving(p)
  PROVE  PromiseInv'
<1> USE DEF TypeOK, PromiseInv, Keeps, Goto, Dead, flags, history
<1>1. CASE Leave(p)
  <2>1. CASE mounted[p] /\ drive = p
    <3>1. /\ drive' = NoProc /\ mem' = mem /\ filemount' = filemount
          /\ pc' = [pc EXCEPT ![p] = "closed"]
          /\ promise' = IF overlapped[p] THEN Nothing ELSE mem[p]
      BY <1>1, <2>1 DEF Leave
    <3>2. CASE overlapped[p]
      BY <3>1, <3>2
    <3>3. CASE ~overlapped[p]
      <4>1. \A q \in Procs \ {p} : Dead(q)
        BY <1>1, <3>3 DEF OverlapInv, Leave
      <4> QED BY <3>1, <3>3, <4>1
    <3> QED BY <3>2, <3>3
  <2>2. CASE ~(mounted[p] /\ drive = p)
    BY <1>1, <2>2 DEF Leave, Join
  <2> QED BY <2>1, <2>2
<1>2. CASE LeaveNoMount(p)
  BY <1>2, DiePromise DEF LeaveNoMount
<1>3. CASE BeginLastSave(p)
  BY <1>3 DEF BeginLastSave, Truncate, OpenFails, Join
<1>4. CASE EndLastSave(p)
  <2>1. CASE Die(p, "exited")
    BY <2>1, DiePromise
  <2>2. CASE ~Die(p, "exited")
    BY <1>4, <2>2 DEF EndLastSave, Written, WriteFails, Join
  <2> QED BY <2>1, <2>2
<1>5. CASE Exit(p)
  BY <1>5 DEF Exit, Over
<1> QED BY <1>1, <1>2, <1>3, <1>4, <1>5 DEF Leaving

\* A promise is kept by every step.
LEMMA NextPromise ==
  TypeOK /\ WindowInv /\ OverlapInv /\ PromiseInv /\ [Next]_vars => PromiseInv'
<1> SUFFICES ASSUME TypeOK, WindowInv, OverlapInv, PromiseInv, [Next]_vars PROVE PromiseInv'
  OBVIOUS
<1> USE DEF TypeOK, PromiseInv, Keeps, Dead, flags, history
<1>1. ASSUME NEW p \in Procs, LateMonitor(p) \/ Crash(p) PROVE PromiseInv'
  BY <1>1, DiePromise DEF LateMonitor, Crash
<1>2. ASSUME NEW p \in Procs, NEW v \in Values, ChangeNodes(p, v) PROVE PromiseInv'
  BY <1>2, ConstantsAssumption DEF ConstantsAssumption, ChangeNodes
<1>3. CASE Unmounted \/ UNCHANGED vars
  BY <1>3 DEF Unmounted, vars
<1> QED BY <1>1, <1>2, <1>3, SupervisePromise, BootPromise, LoopPromise, LeavingPromise
           DEF Next, MainThread

-----------------------------------------------------------------------------
(* The refinement of Child.                                                *)

\* A move of one child that its supervisor or the child itself may make.
Moves(p) ==
  \/ ChildOf(p)' = ChildOf(p)
  \/ <<ChildOf(p), ChildOf(p)'>> \in
       C!Start \cup C!Ask \cup C!Notice \cup C!Drop \cup C!Ready \cup C!Exit

\* A process that dies was alive, and has exited or is dropped.
LEMMA DieMoves ==
  ASSUME TypeOK, NEW p \in Procs, NEW l \in {"none", "exited"}, Die(p, l), ~Dead(p)
  PROVE  \A q \in Procs : Moves(q)
BY DEF TypeOK, Locations, Die, Over, Goto, Moves, ChildOf, HasWindow, Dead,
       C!Alive, C!Drop, C!Exit

\* Every step moves each child by the rules, or not at all.
LEMMA NextMoves ==
  ASSUME TypeOK, WindowInv, [Next]_vars
  PROVE  \A q \in Procs : Moves(q)
<1> USE DEF TypeOK, Locations, Goto, flags, history, Moves, ChildOf, HasWindow, Dead
<1>1. ASSUME NEW p \in Procs, Supervise(p) PROVE \A q \in Procs : Moves(q)
  <2>1. CASE Start(p)
    BY <2>1 DEF Start, WindowInv, C!Start
  <2>2. CASE Terminate(p)
    BY <2>2 DEF Terminate, C!Ask
  <2>3. CASE Kill(p)
    BY <2>3, DieMoves DEF Kill
  <2>4. CASE NoticeExit(p)
    BY <2>4 DEF NoticeExit, C!Notice
  <2> QED BY <1>1, <2>1, <2>2, <2>3, <2>4 DEF Supervise
<1>2. ASSUME NEW p \in Procs, Boot(p) PROVE \A q \in Procs : Moves(q)
  <2>1. CASE CreateWindow(p)
    BY <2>1 DEF CreateWindow, WindowInv, C!Ready
  <2>2. CASE Load(p)
    BY <2>2, DieMoves DEF Load
  <2>3. CASE LoadNoMount(p) \/ CheckLetter(p) \/ Mount(p)
    BY <2>3 DEF LoadNoMount, CheckLetter, Mount
  <2> QED BY <1>2, <2>1, <2>2, <2>3 DEF Boot
<1>3. ASSUME NEW p \in Procs, Loop(p) PROVE \A q \in Procs : Moves(q)
  BY <1>3, DieMoves DEF Loop, BeginSave, EndSave, LeaveLoop
<1>4. ASSUME NEW p \in Procs, Leaving(p) PROVE \A q \in Procs : Moves(q)
  <2>1. CASE Leave(p) \/ BeginLastSave(p) \/ EndLastSave(p)
    BY <2>1, DieMoves DEF Leave, BeginLastSave, EndLastSave, Join
  <2>2. CASE LeaveNoMount(p)
    BY <2>2, DieMoves DEF LeaveNoMount
  <2>3. CASE Exit(p)
    BY <2>3 DEF Exit, Over, C!Alive, C!Exit
  <2> QED BY <1>4, <2>1, <2>2, <2>3 DEF Leaving
<1>5. ASSUME NEW p \in Procs, LateMonitor(p) \/ Crash(p)
      PROVE  \A q \in Procs : Moves(q)
  BY <1>5, DieMoves DEF LateMonitor, Crash
<1>6. ASSUME NEW p \in Procs, NEW v \in Values, ChangeNodes(p, v)
      PROVE  \A q \in Procs : Moves(q)
  BY <1>6 DEF ChangeNodes
<1>7. CASE Unmounted \/ UNCHANGED vars
  BY <1>7 DEF Unmounted, vars
<1> QED BY <1>1, <1>2, <1>3, <1>4, <1>5, <1>6, <1>7 DEF Next, MainThread

-----------------------------------------------------------------------------
(* The theorems.                                                           *)

\* The invariant holds before the first process.
LEMMA InitIInv == Init => IInv
BY ConstantsAssumption
   DEF ConstantsAssumption, Init, IInv, TypeOK, Locations, Monitors, TornHasCause,
       WindowInv, OverlapInv, PromiseInv, HasWindow, Dead

\* The invariant is kept by every step.
LEMMA NextIInv == IInv /\ [Next]_vars => IInv'
BY NextType, NextTorn, NextWindow, NextOverlap, NextPromise DEF IInv

\* The invariant holds in every state a run reaches.
LEMMA Invariant == Spec => []IInv
BY InitIInv, NextIInv, PTL DEF Spec

\* The values of the state are of their types.
THEOREM TypeCorrect == Spec => []TypeOK
<1>1. IInv => TypeOK
  BY DEF IInv
<1> QED BY <1>1, Invariant, PTL

\* A .dat file that cannot be read is being written, or the last save of it was
\* not written whole, or it was left by a process that died while it wrote, or
\* it was written by two at once.
THEOREM TornFileHasCause == Spec => []TornHasCause
<1>1. IInv => TornHasCause
  BY DEF IInv
<1> QED BY <1>1, Invariant, PTL

\* The process that gets the drive has what is promised: only Mount gives it.
LEMMA ServesIfPromised == IInv /\ [Next]_vars => ServesThePromise
<1> SUFFICES ASSUME IInv, [Next]_vars,
                    NEW p \in Procs, drive # p, drive' = p, promise # Nothing
             PROVE  mem'[p] = promise
  BY DEF ServesThePromise
<1>1. TypeOK /\ PromiseInv
  BY DEF IInv
<1> USE DEF Goto, flags, history, Die, Over, Truncate, OpenFails, Written, WriteFails, Join
<1>2. NoProc # p
  BY ConstantsAssumption DEF ConstantsAssumption
<1>3. PICK q \in Procs : Mount(q)
  <2>1. ASSUME NEW q \in Procs, Boot(q) PROVE Mount(q)
    BY <2>1 DEF Boot, CreateWindow, Load, LoadNoMount, CheckLetter
  <2>2. ASSUME NEW q \in Procs, Supervise(q) \/ Loop(q) PROVE FALSE
    BY <2>2 DEF Supervise, Start, Terminate, Kill, NoticeExit,
                Loop, BeginSave, EndSave, LeaveLoop
  <2>3. ASSUME NEW q \in Procs, Leaving(q) PROVE FALSE
    BY <2>3, <1>2 DEF Leaving, Leave, LeaveNoMount, BeginLastSave, EndLastSave, Exit
  <2>4. ASSUME NEW q \in Procs, LateMonitor(q) \/ Crash(q) PROVE FALSE
    BY <2>4 DEF LateMonitor, Crash
  <2>5. ASSUME NEW q \in Procs, NEW v \in Values, ChangeNodes(q, v) PROVE FALSE
    BY <2>5 DEF ChangeNodes
  <2>6. CASE Unmounted \/ UNCHANGED vars
    BY <2>6, <1>2 DEF Unmounted, vars
  <2> QED BY <2>1, <2>2, <2>3, <2>4, <2>5, <2>6 DEF Next, MainThread
<1>4. p = q /\ pc[p] = "mounting" /\ mem' = mem
  BY <1>2, <1>3 DEF Mount
<1> QED BY <1>1, <1>4 DEF PromiseInv, Keeps

\* What clients saw when a process closed in order is what they see when the
\* drive comes back, however many processes started in vain in between.
THEOREM OrderedRestartServes == Spec => OrderedRestartKeeps
<1>1. IInv /\ [Next]_vars => [ServesThePromise]_vars
  BY ServesIfPromised
<1> QED BY <1>1, Invariant, PTL DEF Spec, OrderedRestartKeeps

\* The processes of a mount are the children that Daemon is written against:
\* they keep the protocol that Child states, which Daemon's own children keep.
THEOREM ProcessIsChild == Spec => ImplementsChild
<1>1. Init => C!Init
  BY DEF Init, C!Init, ChildOf, HasWindow
<1>2. IInv /\ [Next]_vars => [C!Next]_([p \in Procs |-> ChildOf(p)])
  <2> SUFFICES ASSUME IInv, [Next]_vars PROVE C!Next
    OBVIOUS
  <2>1. TypeOK /\ WindowInv /\ TypeOK'
    BY NextIInv DEF IInv
  <2>2. \A p \in Procs : Moves(p)
    BY <2>1, NextMoves
  <2>3. \A p \in Procs : ChildOf(p)' \in C!ChildStates
    BY <2>1 DEF TypeOK, Locations, ChildOf, HasWindow, C!ChildStates
  <2> QED BY <2>2, <2>3 DEF C!Next, Moves
<1> QED BY <1>1, <1>2, Invariant, PTL DEF Spec, ImplementsChild, C!Spec
=============================================================================
