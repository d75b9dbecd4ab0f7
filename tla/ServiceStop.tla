------------------------------ MODULE ServiceStop ------------------------------
(***************************************************************************)
(* seamless_smb_service::start and stop against the thread of the Daemon.  *)
(* stop posts the deletion of the Daemon, waits three seconds and deletes  *)
(* the thread, which ends the program (qFatal) if the thread still runs.   *)
(* The thread may sleep in a reload, one second for each mount it adds, or *)
(* wait half a second for a child to start, or for a child it has killed   *)
(* to end; its destructor waits up to two seconds for each child and up to *)
(* one for the thread of the Server, and deletes that thread, which is a   *)
(* qFatal of its own if it still runs.                                     *)
(*                                                                         *)
(* Time passes in half seconds, and only while no thread can go on: what a *)
(* thread does between two waits takes no time.  Daemon has the contents   *)
(* of the lists and the jobs; here a mount is a child that may be started. *)
(***************************************************************************)
EXTENDS Naturals, Sequences, FiniteSets

CONSTANTS
  Mounts,  \* the mounts in the settings
  NoMount, \* the destructor waits for no child
  MaxAdds, \* bound: mounts that one reload adds
  MaxDying \* bound: half seconds that killed children take to end

ASSUME ServiceStopAssumption ==
  /\ NoMount \notin Mounts /\ IsFiniteSet(Mounts)
  /\ MaxAdds \in Nat /\ MaxDying \in Nat

VARIABLES
  scm,     \* the service: stopped, running, stopping, or ended by qFatal
  waited,  \* half seconds stop has waited
  daemon,  \* the thread of the Daemon: none, or where it is
  queue,   \* its events: reloads and its deletion
  busy,    \* half seconds left of what the thread sleeps or waits for now
  todo,    \* mounts the loop of the destructor has not reached
  cur,     \* the mount whose child the destructor waits for
  grace,   \* half seconds it has waited for it
  server,  \* the thread of the Server runs, or did when the program ended
  joined,  \* half seconds the destructor has waited for that thread
  child,   \* the child of each mount
  orphans, \* mounts with a child nobody supervises any more
  late,    \* history: half seconds of this stop spent in add, mount, ~QProcess
  slow,    \* history: children this stop waited for, half a second or more
  fatal    \* history: qFatal has ended the service before

wrapper  == <<scm, waited>>
thread   == <<daemon, queue, busy, todo, cur, grace, server, joined>>
history  == <<late, slow, fatal>>
vars     == <<wrapper, thread, child, orphans, history>>

\* Faulty: a limit below what one child may take.
StopWaitShort == 3

StopWait   == 6  \* dthread->wait(3*1000)
CloseWait  == 4  \* waitForFinished(2000)
ServerWait == 2  \* sockThread->wait(1000)
StartWait  == 1  \* waitForStarted(500)
AddWait    == 2  \* QThread::sleep(1)

\* The event loop runs, or the destructor calls processEvents.
Dispatching == daemon \in {"idle", "draining", "deleting"} /\ busy = 0

Alive(m) == child[m] \in {"booting", "up", "closing"}

Init ==
  /\ scm = "stopped"
  /\ waited = 0
  /\ daemon = "none"
  /\ queue = <<>>
  /\ busy = 0
  /\ todo = {}
  /\ cur = NoMount
  /\ grace = 0
  /\ server = FALSE
  /\ joined = 0
  /\ child = [m \in Mounts |-> "none"]
  /\ orphans = {}
  /\ late = 0
  /\ slow = {}
  /\ fatal = FALSE

\* A thread can go on: time does not pass, and nobody is faster.
Urgent ==
  \/ scm = "stopping" /\ (daemon = "none" \/ waited = StopWait)
  \/ daemon \in {"reloading", "draining", "deleting", "ending"} /\ busy = 0
  \/ daemon = "idle" /\ busy = 0 /\ queue # <<>>
  \/ daemon = "closing" /\ (cur = NoMount \/ ~Alive(cur) \/ grace = CloseWait)
  \/ daemon = "joining" /\ (~server \/ joined = ServerWait)

-----------------------------------------------------------------------------
(* The main thread.                                                        *)

\* start: the thread calls Daemon::start, which starts the thread of the Server
\* and adds every mount.
Start ==
  /\ scm \in {"stopped", "aborted"}
  /\ scm' = "running"
  /\ daemon' = "reloading"
  /\ busy' = AddWait * Cardinality(Mounts)
  /\ server' = TRUE
  /\ joined' = 0
  /\ UNCHANGED <<waited, queue, todo, cur, grace, child, orphans, history>>

\* stop: deleteLater, and the wait begins.
BeginStop ==
  /\ scm = "running"
  /\ scm' = "stopping"
  /\ queue' = Append(queue, "delete")
  /\ late' = 0
  /\ slow' = {}
  /\ UNCHANGED <<waited, daemon, busy, todo, cur, grace, server, joined, child,
                 orphans, fatal>>

\* The thread has ended.
EndStop ==
  /\ scm = "stopping" /\ daemon = "none"
  /\ scm' = "stopped"
  /\ waited' = 0
  /\ UNCHANGED <<thread, child, orphans, history>>

\* Faulty: the wait begins again.
AbortNever ==
  /\ scm = "stopping" /\ daemon # "none" /\ waited = StopWait
  /\ waited' = 0
  /\ late' = 0
  /\ UNCHANGED <<scm, thread, child, orphans, slow, fatal>>

\* qFatal: the program ends, its children do not.
Fatal ==
  /\ scm' = "aborted"
  /\ waited' = 0
  /\ daemon' = "none"
  /\ queue' = <<>>
  /\ busy' = 0
  /\ todo' = {}
  /\ cur' = NoMount
  /\ grace' = 0
  /\ child' = [m \in Mounts |-> "none"]
  /\ orphans' = orphans \cup {m \in Mounts : Alive(m)}
  /\ fatal' = TRUE
  /\ UNCHANGED <<server, joined, late, slow>>

\* The thread of the Daemon is deleted while it runs.
Abort ==
  /\ scm = "stopping" /\ daemon # "none" /\ waited = StopWait
  /\ Fatal

-----------------------------------------------------------------------------
(* The thread of the Daemon.                                               *)

\* The controller saves: a reload is queued, while the Server is there.
RequestReload ==
  /\ daemon # "none" /\ server /\ ~Urgent
  /\ "reload" \notin {queue[i] : i \in DOMAIN queue}
  /\ queue' = Append(queue, "reload")
  /\ UNCHANGED <<wrapper, daemon, busy, todo, cur, grace, server, joined, child,
                 orphans, history>>

\* reloadMounts: a second of sleep for each mount that is new; a QProcess that
\* is dropped kills its child and waits until it has ended.
BeginReload ==
  /\ Dispatching
  /\ queue # <<>> /\ Head(queue) = "reload"
  /\ queue' = Tail(queue)
  /\ \E adds \in 0..MaxAdds, dying \in 0..MaxDying : busy' = AddWait * adds + dying
  /\ UNCHANGED <<wrapper, daemon, todo, cur, grace, server, joined, child, orphans,
                 history>>

\* Daemon::start returns to the event loop.
EndFirstReload ==
  /\ daemon = "reloading" /\ busy = 0
  /\ daemon' = "idle"
  /\ UNCHANGED <<wrapper, queue, busy, todo, cur, grace, server, joined, child,
                 orphans, history>>

\* Faulty: a child that starts is not taken for one that runs.
StartChildUnseen(m) ==
  /\ Dispatching
  /\ ~Alive(m)
  /\ child' = [child EXCEPT ![m] = "starting"]
  /\ UNCHANGED <<wrapper, thread, orphans, history>>

\* Daemon::mount, called by a job: waitForStarted returns at once or takes up
\* to its half second.  The destructor dispatches such calls too.
StartChild(m) ==
  /\ Dispatching
  /\ ~Alive(m)
  /\ child' = [child EXCEPT ![m] = "booting"]
  /\ busy' \in {0, StartWait}
  /\ UNCHANGED <<wrapper, daemon, queue, todo, cur, grace, server, joined, orphans,
                 history>>

\* The destructor: unmountAll asks every child that has a window.
BeginDestructor ==
  /\ daemon = "idle" /\ busy = 0
  /\ queue # <<>> /\ Head(queue) = "delete"
  /\ queue' = Tail(queue)
  /\ daemon' = "closing"
  /\ todo' = Mounts
  /\ child' = [m \in Mounts |-> IF child[m] = "up" THEN "closing" ELSE child[m]]
  /\ UNCHANGED <<wrapper, busy, cur, grace, server, joined, orphans, history>>

\* waitForFinished for a child that runs; the others are passed over.
WaitForChild(m) ==
  /\ daemon = "closing" /\ cur = NoMount
  /\ m \in todo
  /\ todo' = todo \ {m}
  /\ cur' = IF Alive(m) THEN m ELSE NoMount
  /\ grace' = 0
  /\ UNCHANGED <<wrapper, daemon, queue, busy, server, joined, child, orphans, history>>

\* It finished, or its time is over and it is killed.
EndWait ==
  /\ daemon = "closing" /\ cur # NoMount
  /\ ~Alive(cur) \/ grace = CloseWait
  /\ child' = [child EXCEPT ![cur] = IF Alive(cur) THEN "exited" ELSE @]
  /\ cur' = NoMount
  /\ grace' = 0
  /\ UNCHANGED <<wrapper, daemon, queue, busy, todo, server, joined, orphans, history>>

\* The destructor goes on where nothing but its place changes.
Proceed(from, to) ==
  /\ daemon = from
  /\ daemon' = to
  /\ UNCHANGED <<wrapper, queue, busy, todo, cur, grace, server, joined, child,
                 orphans, history>>

\* processEvents dispatches what was queued meanwhile.
BeginDrain == cur = NoMount /\ todo = {} /\ Proceed("closing", "draining")

\* The Server is told to go, which ends its thread, and the thread is waited for.
BeginJoin == busy = 0 /\ queue = <<>> /\ Proceed("draining", "joining")

\* The thread of the Server has ended or not; processEvents once more.
EndJoin == (~server \/ joined = ServerWait) /\ Proceed("joining", "deleting")

\* Faulty: the QProcess objects outlive the Daemon.
EndDestructorDetached ==
  busy = 0 /\ queue = <<>> /\ ~server /\ Proceed("deleting", "none")

\* The thread of the Server is deleted: if it runs, qFatal.  If it has ended,
\* ~QProcess kills what was started since and waits for it, and for what the
\* destructor has killed.
EndDestructor ==
  /\ daemon = "deleting" /\ busy = 0 /\ queue = <<>>
  /\ \/ /\ server
        /\ Fatal
     \/ /\ ~server
        /\ daemon' = "ending"
        /\ child' = [m \in Mounts |-> "none"]
        /\ busy' \in IF slow # {} \/ \E m \in Mounts : Alive(m) THEN 0..MaxDying ELSE {0}
        /\ UNCHANGED <<wrapper, queue, todo, cur, grace, server, joined, orphans,
                       history>>

\* The Daemon is gone, and its thread quits.
EndThread == busy = 0 /\ Proceed("ending", "none")

\* The thread of the Server, told to go.
ServerEnds ==
  /\ daemon \in {"joining", "deleting"} /\ server
  /\ server' = FALSE
  /\ UNCHANGED <<wrapper, daemon, queue, busy, todo, cur, grace, joined, child,
                 orphans, history>>

-----------------------------------------------------------------------------
(* The children, and time.                                                 *)

ChildReady(m) ==
  /\ child[m] = "booting"
  /\ child' = [child EXCEPT ![m] = "up"]
  /\ UNCHANGED <<wrapper, thread, orphans, history>>

ChildExit(m) ==
  /\ Alive(m)
  /\ child' = [child EXCEPT ![m] = "exited"]
  /\ UNCHANGED <<wrapper, thread, orphans, history>>

OrphanExit(m) ==
  /\ m \in orphans
  /\ orphans' = orphans \ {m}
  /\ UNCHANGED <<wrapper, thread, child, history>>

Tick ==
  /\ ~Urgent
  /\ scm = "stopping" \/ busy > 0
  /\ busy' = IF busy > 0 THEN busy - 1 ELSE 0
  /\ grace' = IF cur # NoMount THEN grace + 1 ELSE grace
  /\ joined' = IF daemon = "joining" THEN joined + 1 ELSE joined
  /\ waited' = IF scm = "stopping" THEN waited + 1 ELSE waited
  /\ late' = IF scm = "stopping" /\ busy > 0 THEN late + 1 ELSE late
  /\ slow' = slow \cup ({cur} \ {NoMount})
  /\ UNCHANGED <<scm, daemon, queue, todo, cur, server, child, orphans, fatal>>

DaemonThread ==
  \/ BeginReload \/ EndFirstReload \/ BeginDestructor
  \/ \E m \in Mounts : WaitForChild(m)
  \/ EndWait \/ BeginDrain \/ BeginJoin \/ EndJoin \/ EndDestructor \/ EndThread

Next ==
  \/ Start \/ BeginStop \/ EndStop \/ Abort
  \/ DaemonThread \/ ServerEnds \/ RequestReload
  \/ \E m \in Mounts : StartChild(m) \/ ChildReady(m) \/ ChildExit(m) \/ OrphanExit(m)
  \/ Tick

Spec == Init /\ [][Next]_vars

\* Threads run, and time passes however often a reload is requested.  Nothing
\* is assumed of children, jobs, the Server's thread, the controller and the user.
Fairness ==
  /\ WF_vars(EndStop) /\ WF_vars(Abort)
  /\ WF_vars(DaemonThread)
  /\ SF_vars(Tick)

FairSpec == Spec /\ Fairness

-----------------------------------------------------------------------------
(* Properties.                                                             *)

TypeOK ==
  /\ scm \in {"stopped", "running", "stopping", "aborted"}
  /\ waited \in 0..StopWait
  /\ daemon \in {"none", "reloading", "idle", "closing", "draining", "joining",
                 "deleting", "ending"}
  /\ queue \in Seq({"reload", "delete"})
  /\ busy \in Nat /\ late \in Nat
  /\ todo \subseteq Mounts
  /\ cur \in Mounts \cup {NoMount}
  /\ grace \in 0..CloseWait
  /\ server \in BOOLEAN
  /\ joined \in 0..ServerWait
  /\ child \in [Mounts -> {"none", "booting", "up", "closing", "exited"}]
  /\ orphans \subseteq Mounts
  /\ slow \subseteq Mounts
  /\ fatal \in BOOLEAN

\* The service ends by qFatal only if the thread of the Server outlasted its
\* second, or the three seconds of stop (six halves) went to the reloads and the
\* starts the thread was in or dispatched and to what it had killed, to children
\* it waited for, of which each took two at most, and to the thread of the
\* Server.  One child that hangs and ends when it is killed does not end it, and
\* neither do two seconds of sleep; one child and the thread of the Server, or
\* one child and two starts, do.
AbortHasCause ==
  scm = "aborted" =>
    \/ server /\ joined = ServerWait
    \/ late + CloseWait * Cardinality(slow) + joined >= 6

\* A stop that completes leaves no child, whatever was started while it went
\* on; a child without a supervisor is the work of a qFatal.
StopLeavesNoChild ==
  /\ scm = "stopped" => daemon = "none" /\ \A m \in Mounts : ~Alive(m)
  /\ orphans # {} => fatal

\* A stop ends, in order or by qFatal, and never by waiting for ever.
StopEnds == scm = "stopping" ~> scm \in {"stopped", "aborted"}
=============================================================================
