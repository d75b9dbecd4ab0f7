----------------------------- MODULE MountProcess -----------------------------
(***************************************************************************)
(* The child processes that serve one mount: main, DokanRunner, FileMount, *)
(* the monitor thread of its Cache, and the .dat file that keeps the       *)
(* security descriptors from one process to the next.                      *)
(*                                                                         *)
(* Two processes of one mount can be alive at the same time: Daemon::modify *)
(* starts a new one while a job of the pool still holds the QProcess of the *)
(* old one.  They share the drive letter and the .dat file.  The contents  *)
(* of Nodes are one value here, and a path that was never secured is part  *)
(* of it; SecurityStore has their detail.  The supervisor keeps the rules  *)
(* of Child.  A crash may happen at any time.                              *)
(***************************************************************************)
EXTENDS Naturals

CONSTANTS
  Procs,    \* QProcess objects of the mount (bound: how many at one time)
  Values,   \* contents of Nodes
  Empty,    \* Nodes as constructed, when there is no .dat file
  Torn,     \* what is in the .dat file while it is written
  NoProc,   \* "no process has the drive"
  Nothing   \* "nothing is promised"

ASSUME ConstantsAssumption ==
  /\ Empty \in Values
  /\ Torn \notin Values
  /\ Nothing \notin Values
  /\ NoProc \notin Procs

VARIABLES
  pc,         \* where each process is
  asked,      \* QProcess::terminate was called for it
  posted,     \* its window has got WM_CLOSE
  quit,       \* an exit code of DokanRunner::exits is queued for it
  filemount,  \* DokanRunner::filemount is set
  mounted,    \* FileMount::mounted
  mem,        \* the contents of its Nodes
  monitor,    \* the thread of its Cache, as ~Cache finds it
  drive,      \* the process whose file system has the drive letter
  dat,        \* the .dat file
  damaged,    \* history: two processes wrote it at once, or one died doing so
  unwritten,  \* history: the last save could not open it, or not write it all
  overlapped, \* history: another process was alive at the same time
  promise     \* history: what the next process has to serve

flags   == <<asked, posted, quit, filemount, mounted, monitor>>
history == <<damaged, unwritten, overlapped, promise>>
vars    == <<pc, flags, mem, drive, dat, history>>

Locations == {"none", "booting", "constructing", "loaded", "mounting", "looping",
              "saving", "leaving", "closed", "lastSave", "joining", "exited"}
Writing   == {"saving", "lastSave"}

Dead(p)  == pc[p] \in {"none", "exited"}
Alone(p) == \A q \in Procs \ {p} : Dead(q)

\* The window exists, so WM_CLOSE reaches it.
HasWindow(p) == pc[p] \notin {"none", "booting", "exited"}

Goto(p, l) == pc' = [pc EXCEPT ![p] = l]

Init ==
  /\ pc = [p \in Procs |-> "none"]
  /\ asked = [p \in Procs |-> FALSE]
  /\ posted = [p \in Procs |-> FALSE]
  /\ quit = [p \in Procs |-> FALSE]
  /\ filemount = [p \in Procs |-> FALSE]
  /\ mounted = [p \in Procs |-> FALSE]
  /\ mem = [p \in Procs |-> Empty]
  /\ monitor = [p \in Procs |-> "off"]
  /\ drive = NoProc
  /\ dat = Empty
  /\ damaged = FALSE
  /\ unwritten = FALSE
  /\ overlapped = [p \in Procs |-> FALSE]
  /\ promise = Nothing

-----------------------------------------------------------------------------
(* The end of a process.                                                   *)

\* The process is over: its memory, its threads and its messages are gone.
\* The driver takes the drive letter back later.
Over(p, l) ==
  /\ Goto(p, l)
  /\ posted' = [posted EXCEPT ![p] = FALSE]
  /\ quit' = [quit EXCEPT ![p] = FALSE]
  /\ filemount' = [filemount EXCEPT ![p] = FALSE]
  /\ mounted' = [mounted EXCEPT ![p] = FALSE]
  /\ mem' = [mem EXCEPT ![p] = Empty]
  /\ monitor' = [monitor EXCEPT ![p] = "off"]

\* It is over before its time: what it had not saved is lost.
Die(p, l) ==
  /\ Over(p, l)
  /\ damaged' = (damaged \/ pc[p] \in Writing)
  /\ promise' = IF mounted[p] \/ pc[p] \in {"closed", "lastSave"}
                THEN Nothing ELSE promise
  /\ UNCHANGED <<asked, drive, dat, unwritten, overlapped>>

-----------------------------------------------------------------------------
(* The supervisor.                                                         *)

\* A mount has one current QProcess; the others were asked to close when the
\* list was changed.
Start(p) ==
  /\ pc[p] = "none"
  /\ \A q \in Procs \ {p} : pc[q] # "none" => asked[q]
  /\ Goto(p, "booting")
  /\ asked' = [asked EXCEPT ![p] = FALSE]
  /\ overlapped' = [q \in Procs |->
                      IF q = p THEN ~Alone(p) ELSE overlapped[q] \/ ~Dead(q)]
  /\ promise' = IF Alone(p) THEN promise ELSE Nothing
  /\ UNCHANGED <<posted, quit, filemount, mounted, mem, monitor,
                 drive, dat, damaged, unwritten>>

\* Faulty: a message waits for a window that does not exist yet.
TerminateEarly(p) ==
  /\ ~Dead(p) /\ ~asked[p]
  /\ asked' = [asked EXCEPT ![p] = TRUE]
  /\ posted' = [posted EXCEPT ![p] = TRUE]
  /\ UNCHANGED <<pc, quit, filemount, mounted, mem, monitor, drive, dat, history>>

\* QProcess::terminate posts WM_CLOSE to the windows the process has now.
Terminate(p) ==
  /\ ~Dead(p) /\ ~asked[p]
  /\ asked' = [asked EXCEPT ![p] = TRUE]
  /\ posted' = [posted EXCEPT ![p] = HasWindow(p)]
  /\ UNCHANGED <<pc, quit, filemount, mounted, mem, monitor,
                 drive, dat, history>>

\* ~QProcess, or ~Daemon after two seconds.
Kill(p) ==
  /\ ~Dead(p)
  /\ Die(p, "none")

\* QProcess learns of the exit.
NoticeExit(p) ==
  /\ pc[p] = "exited"
  /\ Goto(p, "none")
  /\ UNCHANGED <<flags, mem, drive, dat, history>>

-----------------------------------------------------------------------------
(* Boot: main creates the window, the constructor of DokanRunner mounts.   *)

CreateWindow(p) ==
  /\ pc[p] = "booting"
  /\ Goto(p, "constructing")
  /\ UNCHANGED <<flags, mem, drive, dat, history>>

\* Faulty: what a torn file gives is taken for nodes.
LoadTorn(p) ==
  /\ pc[p] = "constructing"
  /\ Goto(p, "loaded")
  /\ filemount' = [filemount EXCEPT ![p] = TRUE]
  /\ mem' = [mem EXCEPT ![p] = dat]
  /\ UNCHANGED <<asked, posted, quit, mounted, monitor, drive, dat, history>>

\* The settings have the uuid: FileMount starts the thread of its Cache, then
\* reads the .dat file.  A torn file throws, and nobody catches.
Load(p) ==
  /\ pc[p] = "constructing"
  /\ IF dat = Torn
     THEN Die(p, "exited")
     ELSE /\ Goto(p, "loaded")
          /\ filemount' = [filemount EXCEPT ![p] = TRUE]
          /\ mem' = [mem EXCEPT ![p] = dat]
          /\ UNCHANGED <<asked, posted, quit, mounted, monitor, drive, dat, history>>

\* The uuid left the settings before the process read them.
LoadNoMount(p) ==
  /\ pc[p] = "constructing"
  /\ Goto(p, "looping")
  /\ UNCHANGED <<flags, mem, drive, dat, history>>

\* freeDrives: exit code 3 if the letter is taken, by another drive perhaps.
CheckLetter(p) ==
  /\ pc[p] = "loaded"
  /\ \/ /\ drive = NoProc
        /\ Goto(p, "mounting")
        /\ UNCHANGED quit
     \/ /\ Goto(p, "looping")
        /\ quit' = [quit EXCEPT ![p] = TRUE]
  /\ UNCHANGED <<asked, posted, filemount, mounted, monitor, mem,
                 drive, dat, history>>

\* FileMount::mount.  The letter may be taken by now, or Dokan may fail: exit
\* code 2; the letter may not show up in freeDrives: exit code 3.
Mount(p) ==
  /\ pc[p] = "mounting"
  /\ Goto(p, "looping")
  /\ \/ /\ drive = NoProc
        /\ drive' = p
        /\ mounted' = [mounted EXCEPT ![p] = TRUE]
        /\ promise' = Nothing
        /\ \/ UNCHANGED quit
           \/ quit' = [quit EXCEPT ![p] = TRUE]
     \/ /\ quit' = [quit EXCEPT ![p] = TRUE]
        /\ UNCHANGED <<drive, mounted, promise>>
  /\ UNCHANGED <<asked, posted, filemount, monitor, mem, dat, damaged,
                 unwritten, overlapped>>

-----------------------------------------------------------------------------
(* Service: clients of the drive, the monitor thread, the event loop.      *)

\* A callback of Dokan changes Nodes.
ChangeNodes(p, v) ==
  /\ drive = p /\ mounted[p]
  /\ mem' = [mem EXCEPT ![p] = v]
  /\ UNCHANGED <<pc, flags, drive, dat, history>>

\* The user ejects the drive, or the driver unmounts that of a dead process.
Unmounted ==
  /\ drive # NoProc
  /\ drive' = NoProc
  /\ UNCHANGED <<pc, flags, mem, dat, history>>

\* filebuf::open with truncation, over what another process may be writing.
Truncate(p) ==
  /\ dat' = Torn
  /\ damaged' = \E q \in Procs \ {p} : pc[q] \in Writing
  /\ unwritten' = FALSE

\* The file is not opened: nothing is saved, and nobody is told.
OpenFails == unwritten' = TRUE /\ UNCHANGED <<dat, damaged>>

\* The archive is written and the file closed.
Written(p) ==
  /\ dat' \in {mem[p]} \cup (IF damaged THEN {Torn} ELSE {})
  /\ UNCHANGED <<damaged, unwritten>>

\* The disk is full, say, when the destructor of the filebuf flushes what is
\* left, and nobody looks.
WriteFails ==
  /\ dat' = Torn
  /\ unwritten' = TRUE
  /\ UNCHANGED damaged

\* Faulty: the timer was never started.
BeginSaveNever(p) == FALSE /\ UNCHANGED vars

\* Faulty: a null check and nothing else.
BeginSaveGuarded(p) ==
  /\ pc[p] = "looping" /\ ~quit[p] /\ ~posted[p] /\ filemount[p]
  /\ \/ /\ Goto(p, "saving")
        /\ Truncate(p)
     \/ /\ UNCHANGED pc
        /\ OpenFails
  /\ UNCHANGED <<flags, mem, drive, overlapped, promise>>

\* Faulty: the nodes are found unchanged after the file was opened.
BeginSaveTooSoon(p) ==
  /\ pc[p] = "looping" /\ ~quit[p] /\ ~posted[p] /\ filemount[p]
  /\ Goto(p, IF dat = mem[p] THEN "looping" ELSE "saving")
  /\ Truncate(p)
  /\ UNCHANGED <<flags, mem, drive, overlapped, promise>>

\* onSaveSecurity on the timer: open with truncation.  Without a FileMount a
\* null pointer is dereferenced.  WM_TIMER comes after what is queued.
BeginSave(p) ==
  /\ pc[p] = "looping" /\ ~quit[p] /\ ~posted[p]
  /\ IF filemount[p]
     THEN /\ \/ /\ Goto(p, "saving")
                /\ Truncate(p)
             \/ /\ UNCHANGED pc
                /\ OpenFails
          /\ UNCHANGED <<flags, mem, drive, overlapped, promise>>
     ELSE Die(p, "exited")

\* The save is written, or its last flush fails, or the archive finds that it
\* cannot write: it throws, and nobody catches.
EndSave(p) ==
  /\ pc[p] = "saving"
  /\ \/ /\ Goto(p, "looping")
        /\ Written(p) \/ WriteFails
        /\ UNCHANGED <<flags, mem, drive, overlapped, promise>>
     \/ Die(p, "exited")

\* Faulty: the signal exits is not connected.
LeaveLoopOnClose(p) ==
  /\ pc[p] = "looping" /\ posted[p]
  /\ Goto(p, "leaving")
  /\ UNCHANGED <<flags, mem, drive, dat, history>>

\* WM_CLOSE, or the queued exit code: the event loop returns.
LeaveLoop(p) ==
  /\ pc[p] = "looping"
  /\ posted[p] \/ quit[p]
  /\ Goto(p, "leaving")
  /\ UNCHANGED <<flags, mem, drive, dat, history>>

-----------------------------------------------------------------------------
(* The destructor of DokanRunner.                                          *)

\* ~Cache, called when the FileMount goes.  The monitor thread may have come to
\* its end because the directory cannot be watched, it may wait for exitEvent,
\* and it may not have created the event: SetEvent does nothing then.
Join(p) ==
  /\ Goto(p, "joining")
  /\ \E m \in {"ended", "signalled", "late"} : monitor' = [monitor EXCEPT ![p] = m]
  /\ UNCHANGED <<asked, posted, quit, filemount, mem, overlapped>>

\* The late thread creates the event and waits for it, or cannot watch.
LateMonitor(p) ==
  /\ monitor[p] = "late"
  /\ \E m \in {"ended", "stuck"} : monitor' = [monitor EXCEPT ![p] = m]
  /\ UNCHANGED <<pc, asked, posted, quit, filemount, mounted, mem, drive, dat, history>>

\* isRunning, and unmount: the handle is closed first, then the nodes are
\* saved.  A file system that was ejected is not saved.
Leave(p) ==
  /\ pc[p] = "leaving"
  /\ filemount[p]
  /\ mounted' = [mounted EXCEPT ![p] = FALSE]
  /\ IF mounted[p] /\ drive = p
     THEN /\ Goto(p, "closed")
          /\ drive' = NoProc
          /\ promise' = IF overlapped[p] THEN Nothing ELSE mem[p]
          /\ UNCHANGED <<asked, posted, quit, filemount, monitor, mem, overlapped>>
     ELSE Join(p) /\ UNCHANGED <<drive, promise>>
  /\ UNCHANGED <<dat, damaged, unwritten>>

\* getMountPoint of a FileMount that was never made.
LeaveNoMount(p) ==
  /\ pc[p] = "leaving"
  /\ ~filemount[p]
  /\ Die(p, "exited")

\* Faulty: unmount does not save.
BeginLastSaveSkipped(p) ==
  /\ pc[p] = "closed"
  /\ Join(p)
  /\ UNCHANGED <<mounted, drive, dat, damaged, unwritten, promise>>

\* saveSecurity in unmount; if the file cannot be opened nothing is saved.
BeginLastSave(p) ==
  /\ pc[p] = "closed"
  /\ \/ /\ Goto(p, "lastSave")
        /\ Truncate(p)
        /\ UNCHANGED <<flags, mem, drive, overlapped, promise>>
     \/ /\ Join(p)
        /\ OpenFails
        /\ promise' = Nothing
        /\ UNCHANGED <<mounted, drive>>

\* It ends as EndSave does; what could not be written is not promised.
EndLastSave(p) ==
  /\ pc[p] = "lastSave"
  /\ \/ /\ Join(p)
        /\ \/ Written(p) /\ UNCHANGED promise
           \/ WriteFails /\ promise' = Nothing
        /\ UNCHANGED <<mounted, drive>>
     \/ Die(p, "exited")

\* The thread has ended, so has the process.
Exit(p) ==
  /\ pc[p] = "joining"
  /\ monitor[p] \in {"ended", "signalled"}
  /\ Over(p, "exited")
  /\ UNCHANGED <<asked, drive, dat, history>>

\* Power loss, or whatever else ends a process.
Crash(p) ==
  /\ ~Dead(p)
  /\ Die(p, "exited")

-----------------------------------------------------------------------------
Supervise(p) == Start(p) \/ Terminate(p) \/ Kill(p) \/ NoticeExit(p)

Boot(p) == CreateWindow(p) \/ Load(p) \/ LoadNoMount(p) \/ CheckLetter(p) \/ Mount(p)

Loop(p) == BeginSave(p) \/ EndSave(p) \/ LeaveLoop(p)

Leaving(p) == Leave(p) \/ LeaveNoMount(p) \/ BeginLastSave(p) \/ EndLastSave(p) \/ Exit(p)

MainThread(p) == Boot(p) \/ Loop(p) \/ Leaving(p)

Next ==
  \/ \E p \in Procs :
       \/ Supervise(p) \/ MainThread(p) \/ LateMonitor(p) \/ Crash(p)
       \/ \E v \in Values : ChangeNodes(p, v)
  \/ Unmounted

Spec == Init /\ [][Next]_vars

\* The threads of a process run and its timer fires.  Nothing is assumed of
\* the supervisor, the clients, the user or the driver.
Fairness ==
  \A p \in Procs : WF_vars(MainThread(p)) /\ WF_vars(LateMonitor(p))

FairSpec == Spec /\ Fairness

-----------------------------------------------------------------------------
(* Properties.                                                             *)

Monitors == {"off", "ended", "signalled", "late", "stuck"}

TypeOK ==
  /\ pc \in [Procs -> Locations]
  /\ asked \in [Procs -> BOOLEAN]
  /\ posted \in [Procs -> BOOLEAN]
  /\ quit \in [Procs -> BOOLEAN]
  /\ filemount \in [Procs -> BOOLEAN]
  /\ mounted \in [Procs -> BOOLEAN]
  /\ mem \in [Procs -> Values]
  /\ monitor \in [Procs -> Monitors]
  /\ drive \in Procs \cup {NoProc}
  /\ dat \in Values \cup {Torn}
  /\ damaged \in BOOLEAN
  /\ unwritten \in BOOLEAN
  /\ overlapped \in [Procs -> BOOLEAN]
  /\ promise \in Values \cup {Nothing}

\* A .dat file that cannot be read is being written now, or the last save of it
\* was not written whole, or a process died while it wrote it, or two wrote it
\* at once: no order of saves, closes and restarts leaves one otherwise, and
\* none of these causes outlives the next save.
TornHasCause ==
  dat = Torn => damaged \/ unwritten \/ \E p \in Procs : pc[p] \in Writing

\* What clients could see when a process was closed is what they see when the
\* drive comes back, however many processes start in vain in between.  It is
\* not so after a crash, after an eject, when the file could not be opened or
\* written, and when a process starts before its predecessor is gone: promise is
\* empty then.
ServesThePromise ==
  \A p \in Procs : (drive # p /\ drive' = p /\ promise # Nothing) => mem'[p] = promise
OrderedRestartKeeps == [][ServesThePromise]_vars

\* The processes are the children Daemon is written against.
ChildOf(p) ==
  IF ~HasWindow(p) THEN pc[p]
  ELSE IF posted[p] THEN "closing" ELSE "up"

C == INSTANCE Child WITH child <- [p \in Procs |-> ChildOf(p)]
ImplementsChild == C!Spec

\* A process that got WM_CLOSE or could not mount ends, unless it was so fast
\* that the thread of its Cache missed the signal.
CloseEnds ==
  \A p \in Procs : (posted[p] \/ quit[p]) ~> (Dead(p) \/ monitor[p] = "stuck")

\* What a client changed is on disk in the end, or was changed again; the
\* exceptions are a save that could not open or write the file, a process that
\* ended, one that was closed after an eject, and one that has company.
ChangeReachesDisk ==
  \A p \in Procs, v \in Values :
    (drive = p /\ mem[p] = v /\ Alone(p)) ~>
      (dat = v \/ unwritten \/ mem[p] # v \/ Dead(p) \/ pc[p] = "joining" \/ ~Alone(p))

\* A process whose mount left the settings does not stay: its timer ends it.
NoMountEnds ==
  \A p \in Procs : (pc[p] = "looping" /\ ~filemount[p]) ~> Dead(p)
=============================================================================
