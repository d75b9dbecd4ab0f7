------------------------------- MODULE Daemon -------------------------------
(***************************************************************************)
(* The supervisor of seamless_smb_service (class Daemon): one thread owns  *)
(* the list of mounts, one child process serves each mount, and jobs of    *)
(* the global thread pool iterate over copies of the list and ask the      *)
(* daemon thread, with a blocking queued call, to start children.          *)
(*                                                                         *)
(* A list of the code is a set here: the order of its elements is left     *)
(* open, and every list operation is atomic.  A QProcess is a member of    *)
(* Procs; it exists while the list of mounts or the copy of a running job  *)
(* refers to it, and its destructor kills the child it still has.  What    *)
(* the child does between its start and its exit is left to the mount      *)
(* process; here it boots, may be asked to close, and exits at any time.   *)
(***************************************************************************)
EXTENDS Naturals, FiniteSets

CONSTANTS
  Uuids,          \* identities of the mounts
  Targets,        \* values of the MountInfo fields that operator== compares
  Tunings,        \* values of the fields it skips: debug, cerr, singlethreaded
  SettingsLists,  \* the contents mounts.ini may have: sets of MountInfo
  Procs,          \* QProcess objects (bound: how many exist at one time)
  Jobs,           \* jobs in the thread pool (bound: how many at one time)
  NoEntry,        \* "this job is not at an element of its copy"
  StartMayFail,   \* whether CreateProcess may fail
  MaxSaves,       \* bound: how often the controller saves the settings
  Commanded       \* the uuids a client of the local socket starts by command

MountInfo == [uuid : Uuids, enabled : BOOLEAN, keepAlive : BOOLEAN,
              target : Targets, tuning : Tunings]

\* An element of Daemon::mounts.
Mount == [proc : Procs, info : MountInfo]

ChildStates == {"none", "booting", "up", "closing", "exited"}
Phases      == {"starting", "serving", "closing", "draining", "gone"}
JobStates   == {"idle", "queued", "copying", "looping", "sending", "testing",
                "blocked"}

\* The file has finitely many entries, and the controller never writes two with
\* one uuid.
ASSUME SettingsAssumption ==
  /\ \A S \in SettingsLists :
       /\ S \subseteq MountInfo /\ IsFiniteSet(S)
       /\ \A i, k \in S : i.uuid = k.uuid => i = k
ASSUME ConstantsAssumption ==
  /\ NoEntry \notin Mount
  /\ IsFiniteSet(Procs)
  /\ StartMayFail \in BOOLEAN
  /\ MaxSaves \in Nat
  /\ Commanded \subseteq Uuids

VARIABLES
  settings,        \* mounts.ini, written by the controller
  saves,           \* how often it was written
  reload,          \* a reloadMounts call is queued for the daemon thread
  commands,        \* uuids with a mount call of the server queued for it
  phase,           \* life of the Daemon object
  reloading,       \* the daemon thread is inside reloadMounts
  loaded,          \* mountlist: the settings the last reload read
  toAdd, toModify, toRemove,  \* what is left of the lists of that reload
  toClose,         \* mounts the destructor has not visited yet
  mounts,          \* Daemon::mounts
  child,           \* the child of each QProcess
  mountAllrunning, \* Daemon::mountAllrunning
  reported,        \* the status last sent to the controller
  kind, jpc,       \* what each job of the pool runs and where it is
  copy, todo,      \* its copy of mounts, and what its loop has not reached
  cur, seen        \* the element it is at, and the state it read there

listVars == <<loaded, toAdd, toModify, toRemove, toClose, mounts>>
jobVars  == <<kind, jpc, copy, todo, cur, seen>>
vars == <<settings, saves, reload, commands, phase, reloading, listVars, child,
          mountAllrunning, reported, jobVars>>

-----------------------------------------------------------------------------
UuidsOf(infos) == {i.uuid : i \in infos}
InfosOf(ms)    == {m.info : m \in ms}

\* MountInfo::operator==: every field but uuid, debug, cerr, singlethreaded.
SameMount(a, b) ==
  /\ a.enabled = b.enabled
  /\ a.keepAlive = b.keepAlive
  /\ a.target = b.target

\* The QProcess objects some shared_ptr refers to.
HeldBy(ms, copies) ==
  {m.proc : m \in ms} \cup UNION {{m.proc : m \in copies[j]} : j \in Jobs}

Free == Procs \ HeldBy(mounts, copy)

\* QProcess::state() == Running.  An exit counts only once it is noticed.
Running(p) == child[p] # "none"

\* Faulty: the message waits for a window that does not exist yet.
AskToCloseEarly(c) == IF c \in {"booting", "up"} THEN "closing" ELSE c

\* QProcess::terminate posts WM_CLOSE: a child without a window misses it.
AskToClose(c) == IF c = "up" THEN "closing" ELSE c

\* Faulty: a QProcess that is dropped leaves its child running.
ChildrenDetached(asked, held) ==
  [p \in Procs |-> IF p \in asked THEN AskToClose(child[p]) ELSE child[p]]

\* The children after "asked" were asked to close and the QProcess objects
\* that nothing refers to any more were destroyed, which kills their child.
ChildrenAfter(asked, held) ==
  [p \in Procs |-> IF p \notin held THEN "none"
                   ELSE IF p \in asked THEN AskToClose(child[p])
                   ELSE child[p]]

\* Faulty: only the fields other than the flags are compared.
ModifiedByTarget(new) == {i \in new : \E m \in mounts : /\ m.info.uuid = i.uuid
                                                        /\ i.target # m.info.target}

\* toaddModify and toRemove.
Added(new)    == {i \in new : i.uuid \notin UuidsOf(InfosOf(mounts))}
Modified(new) == {i \in new : \E m \in mounts : /\ m.info.uuid = i.uuid
                                                /\ ~SameMount(i, m.info)}
Removed(new)  == {i \in InfosOf(mounts) : i.uuid \notin UuidsOf(new)}

Active(j) == jpc[j] # "idle"

\* Faulty: the arguments are swapped.
SubmitSwapped(j, k) ==
  /\ ~Active(j)
  /\ kind' = [kind EXCEPT ![j] = "queued"]
  /\ jpc'  = [jpc EXCEPT ![j] = k]

\* QtConcurrent::run: a job is handed to the thread pool.
Submit(j, k) ==
  /\ ~Active(j)
  /\ kind' = [kind EXCEPT ![j] = k]
  /\ jpc'  = [jpc EXCEPT ![j] = "queued"]

Init ==
  /\ settings \in SettingsLists
  /\ saves = 0
  /\ reload = FALSE
  /\ commands = {}
  /\ phase = "starting"
  /\ reloading = FALSE
  /\ loaded = {} /\ toAdd = {} /\ toModify = {} /\ toRemove = {}
  /\ toClose = {}
  /\ mounts = {}
  /\ child = [p \in Procs |-> "none"]
  /\ mountAllrunning = FALSE
  /\ reported = [u \in Uuids |-> FALSE]
  /\ kind = [j \in Jobs |-> "check"]
  /\ jpc  = [j \in Jobs |-> "idle"]
  /\ copy = [j \in Jobs |-> {}]
  /\ todo = [j \in Jobs |-> {}]
  /\ cur  = [j \in Jobs |-> NoEntry]
  /\ seen = [j \in Jobs |-> FALSE]

-----------------------------------------------------------------------------
(* The controller.                                                         *)

\* The controller saves a list and sends "reload", which may get lost.
Save(new) ==
  /\ saves < MaxSaves
  /\ phase # "gone"
  /\ saves' = saves + 1
  /\ settings' = new
  /\ reload' \in {reload, TRUE}
  /\ UNCHANGED <<commands, phase, reloading, listVars, child, mountAllrunning,
                 reported, jobVars>>

\* "start/<uuid>": the server queues a mount call for the daemon thread.
StartCommand(u) ==
  /\ u \in Commanded
  /\ phase # "gone"
  /\ commands' = commands \cup {u}
  /\ UNCHANGED <<settings, saves, reload, phase, reloading, listVars, child,
                 mountAllrunning, reported, jobVars>>

-----------------------------------------------------------------------------
(* The daemon thread.                                                      *)

\* The thread is in its event loop, or in the processEvents of ~Daemon.
Dispatching == ~reloading /\ phase \in {"serving", "draining"}

\* Faulty: settings->sync() is missing, so a later reload reads the old list.
BeginReloadUnsynced ==
  /\ \/ ~reloading /\ phase = "starting" /\ reload' = reload /\ loaded' = settings
     \/ Dispatching /\ reload /\ reload' = FALSE /\ loaded' = loaded
  /\ \E j \in Jobs : ~Active(j)
  /\ reloading' = TRUE
  /\ toAdd' = Added(loaded')
  /\ toModify' = Modified(loaded')
  /\ toRemove' = Removed(loaded')
  /\ UNCHANGED <<settings, saves, commands, phase, toClose, mounts, child,
                 mountAllrunning, reported, jobVars>>

\* reloadMounts, first part: Daemon::start calls it, later it is queued.
\* Bounds: a job and enough QProcess objects must be free.
BeginReload ==
  /\ \/ ~reloading /\ phase = "starting" /\ reload' = reload
     \/ Dispatching /\ reload /\ reload' = FALSE
  /\ \E j \in Jobs : ~Active(j)
  /\ Cardinality(Added(settings) \cup Modified(settings)) =< Cardinality(Free)
  /\ reloading' = TRUE
  /\ loaded' = settings
  /\ toAdd' = Added(settings)
  /\ toModify' = Modified(settings)
  /\ toRemove' = Removed(settings)
  /\ UNCHANGED <<settings, saves, commands, phase, toClose, mounts, child,
                 mountAllrunning, reported, jobVars>>

\* remove(info): terminate, removeAt.
RemoveMount(m) ==
  /\ reloading
  /\ m \in mounts
  /\ m.info \in toRemove
  /\ toRemove' = toRemove \ {m.info}
  /\ mounts' = mounts \ {m}
  /\ child' = ChildrenAfter({m.proc}, HeldBy(mounts', copy))
  /\ UNCHANGED <<settings, saves, reload, commands, phase, reloading, loaded, toAdd,
                 toModify, toClose, mountAllrunning, reported, jobVars>>

\* add(info): a new QProcess that is not started yet.
AddMount(i, p) ==
  /\ reloading
  /\ toRemove = {}
  /\ i \in toAdd
  /\ p \in Free
  /\ toAdd' = toAdd \ {i}
  /\ mounts' = mounts \cup {[proc |-> p, info |-> i]}
  /\ UNCHANGED <<settings, saves, reload, commands, phase, reloading, loaded, toModify,
                 toRemove, toClose, child, mountAllrunning, reported, jobVars>>

\* Faulty: modify keeps the QProcess and only replaces the MountInfo.
ModifyInPlace(i, m, p) ==
  /\ reloading
  /\ toRemove = {} /\ toAdd = {}
  /\ i \in toModify
  /\ m \in mounts
  /\ m.info.uuid = i.uuid
  /\ toModify' = toModify \ {i}
  /\ mounts' = (mounts \ {m}) \cup {[m EXCEPT !.info = i]}
  /\ child' = ChildrenAfter({m.proc}, HeldBy(mounts', copy))
  /\ UNCHANGED <<settings, saves, reload, commands, phase, reloading, loaded, toAdd,
                 toRemove, toClose, mountAllrunning, reported, jobVars>>

\* modify(info): terminate the old child, replace the pair.
ModifyMount(i, m, p) ==
  /\ reloading
  /\ toRemove = {} /\ toAdd = {}
  /\ i \in toModify
  /\ m \in mounts
  /\ m.info.uuid = i.uuid
  /\ p \in Free
  /\ toModify' = toModify \ {i}
  /\ mounts' = (mounts \ {m}) \cup {[proc |-> p, info |-> i]}
  /\ child' = ChildrenAfter({m.proc}, HeldBy(mounts', copy))
  /\ UNCHANGED <<settings, saves, reload, commands, phase, reloading, loaded, toAdd,
                 toRemove, toClose, mountAllrunning, reported, jobVars>>

\* The end of reloadMounts: mountAll submits a job.  In Daemon::start the
\* status timer starts now.
FinishReload(j) ==
  /\ reloading
  /\ toRemove = {} /\ toAdd = {} /\ toModify = {}
  /\ reloading' = FALSE
  /\ phase' = IF phase = "starting" THEN "serving" ELSE phase
  /\ Submit(j, "mountAll")
  /\ UNCHANGED <<settings, saves, reload, commands, listVars, child, mountAllrunning,
                 reported, copy, todo, cur, seen>>

\* checkStatus: the timer submits a job, until ~Daemon stops the timer.
Tick(j) ==
  /\ Dispatching /\ phase = "serving"
  /\ Submit(j, "check")
  /\ UNCHANGED <<settings, saves, reload, commands, phase, reloading, listVars, child,
                 mountAllrunning, reported, copy, todo, cur, seen>>

\* Faulty: the QProcess of the job's copy is started, and a uuid that is gone
\* from the list leaves the caller without an answer.
HandleStaleMount(j) ==
  /\ Dispatching
  /\ jpc[j] = "blocked"
  /\ jpc' = [jpc EXCEPT ![j] = "looping"]
  /\ cur' = [cur EXCEPT ![j] = NoEntry]
  /\ cur[j].info.uuid \in UuidsOf(InfosOf(mounts))
  /\ child' = IF Running(cur[j].proc) THEN child
              ELSE [child EXCEPT ![cur[j].proc] = "booting"]
  /\ reported' = [reported EXCEPT ![cur[j].info.uuid] = TRUE]
  /\ UNCHANGED <<settings, saves, reload, commands, phase, reloading, listVars,
                 mountAllrunning, kind, copy, todo, seen>>

\* mount(uuid): the CURRENT list is searched, whatever copy the caller read,
\* and start() does nothing when the QProcess runs.
MountByUuid(u) ==
  \/ /\ u \notin UuidsOf(InfosOf(mounts))
     /\ UNCHANGED <<child, reported>>
  \/ \E m \in mounts :
       /\ m.info.uuid = u
       /\ child' \in
            IF Running(m.proc) THEN {child}
            ELSE {[child EXCEPT ![m.proc] = "booting"]}
                 \cup (IF StartMayFail THEN {child} ELSE {})
       /\ reported' = [reported EXCEPT ![u] = child'[m.proc] # "none"]

\* The call of a blocked job, which goes on.
HandleMount(j) ==
  /\ Dispatching
  /\ jpc[j] = "blocked"
  /\ jpc' = [jpc EXCEPT ![j] = "looping"]
  /\ cur' = [cur EXCEPT ![j] = NoEntry]
  /\ MountByUuid(cur[j].info.uuid)
  /\ UNCHANGED <<settings, saves, reload, commands, phase, reloading, listVars,
                 mountAllrunning, kind, copy, todo, seen>>

\* The call a command asked for.
HandleCommand(u) ==
  /\ Dispatching
  /\ u \in commands
  /\ commands' = commands \ {u}
  /\ MountByUuid(u)
  /\ UNCHANGED <<settings, saves, reload, phase, reloading, listVars,
                 mountAllrunning, jobVars>>

\* QProcess learns of the child's exit in the thread it lives in.
NoticeExit(p) ==
  /\ Dispatching
  /\ child[p] = "exited"
  /\ child' = [child EXCEPT ![p] = "none"]
  /\ UNCHANGED <<settings, saves, reload, commands, phase, reloading, listVars,
                 mountAllrunning, reported, jobVars>>

\* ~Daemon, first part: stop the timer, unmountAll.
BeginStop ==
  /\ ~reloading /\ phase = "serving"
  /\ phase' = "closing"
  /\ toClose' = mounts
  /\ child' = ChildrenAfter({m.proc : m \in mounts}, HeldBy(mounts, copy))
  /\ UNCHANGED <<settings, saves, reload, commands, reloading, loaded, toAdd, toModify,
                 toRemove, mounts, mountAllrunning, reported, jobVars>>

\* Faulty: the destructor waits for the child without a limit.
CloseMountPatiently(m) ==
  /\ phase = "closing"
  /\ m \in toClose
  /\ child[m.proc] \in {"none", "exited"}
  /\ toClose' = toClose \ {m}
  /\ child' = [child EXCEPT ![m.proc] = "none"]
  /\ reported' = [reported EXCEPT ![m.info.uuid] = FALSE]
  /\ UNCHANGED <<settings, saves, reload, commands, phase, reloading, loaded, toAdd,
                 toModify, toRemove, mounts, mountAllrunning, jobVars>>

\* ~Daemon, the loop: wait two seconds for a running child, then kill it.
\* A killed child is reported as it was: kill() does not wait for the exit.
CloseMount(m) ==
  /\ phase = "closing"
  /\ m \in toClose
  /\ toClose' = toClose \ {m}
  /\ IF Running(m.proc)
     THEN \E c \in {"none", "exited"} :
            /\ child' = [child EXCEPT ![m.proc] = c]
            /\ reported' = [reported EXCEPT ![m.info.uuid] = c # "none"]
     ELSE UNCHANGED <<child, reported>>
  /\ UNCHANGED <<settings, saves, reload, commands, phase, reloading, loaded, toAdd,
                 toModify, toRemove, mounts, mountAllrunning, jobVars>>

\* ~Daemon goes on to QCoreApplication::processEvents: what is queued for
\* the daemon, mount and reloadMounts too, is still dispatched.
BeginDrain ==
  /\ phase = "closing"
  /\ toClose = {}
  /\ phase' = "draining"
  /\ UNCHANGED <<settings, saves, reload, commands, reloading, listVars, child,
                 mountAllrunning, reported, jobVars>>

\* The object is gone, and with it every QProcess, which it is parent of, and
\* the calls that are still queued for it.  What a job that is in flight does
\* from here on is undefined.
EndStop ==
  /\ phase = "draining" /\ ~reloading
  /\ phase' = "gone"
  /\ mounts' = {}
  /\ reload' = FALSE /\ commands' = {}
  /\ child' = [p \in Procs |-> "none"]
  /\ UNCHANGED <<settings, saves, reloading, loaded, toAdd, toModify,
                 toRemove, toClose, mountAllrunning, reported, jobVars>>

-----------------------------------------------------------------------------
(* The jobs of the thread pool.                                            *)

jobOnly == <<settings, saves, reload, commands, phase, reloading, listVars>>

\* mountAll's job sets the flag before it copies the list.
SetFlag(j) ==
  /\ phase # "gone"
  /\ jpc[j] = "queued" /\ kind[j] = "mountAll"
  /\ mountAllrunning' = TRUE
  /\ jpc' = [jpc EXCEPT ![j] = "copying"]
  /\ UNCHANGED <<jobOnly, child, reported, kind, copy, todo, cur, seen>>

\* foreach iterates over a copy.
CopyMounts(j) ==
  /\ phase # "gone"
  /\ \/ jpc[j] = "copying"
     \/ jpc[j] = "queued" /\ kind[j] = "check"
  /\ jpc'  = [jpc EXCEPT ![j] = "looping"]
  /\ copy' = [copy EXCEPT ![j] = mounts]
  /\ todo' = [todo EXCEPT ![j] = mounts]
  /\ UNCHANGED <<jobOnly, child, mountAllrunning, reported, kind, cur, seen>>

\* The loop of mountAll: an enabled mount whose directory exists is mounted.
MountAllStep(j, m) ==
  /\ phase # "gone"
  /\ jpc[j] = "looping" /\ kind[j] = "mountAll"
  /\ m \in todo[j]
  /\ todo' = [todo EXCEPT ![j] = @ \ {m}]
  /\ \/ /\ m.info.enabled
        /\ jpc' = [jpc EXCEPT ![j] = "blocked"]
        /\ cur' = [cur EXCEPT ![j] = m]
     \/ UNCHANGED <<jpc, cur>>
  /\ UNCHANGED <<jobOnly, child, mountAllrunning, reported, kind, copy, seen>>

\* The loop of checkStatus, first the state of the QProcess in the copy ...
CheckRead(j, m) ==
  /\ phase # "gone"
  /\ jpc[j] = "looping" /\ kind[j] = "check"
  /\ m \in todo[j]
  /\ todo' = [todo EXCEPT ![j] = @ \ {m}]
  /\ cur'  = [cur EXCEPT ![j] = m]
  /\ seen' = [seen EXCEPT ![j] = Running(m.proc)]
  /\ jpc'  = [jpc EXCEPT ![j] = "sending"]
  /\ UNCHANGED <<jobOnly, child, mountAllrunning, reported, kind, copy>>

\* Faulty: only a child that is down is told, since mount tells of the others.
CheckSendDown(j) ==
  /\ phase # "gone"
  /\ jpc[j] = "sending"
  /\ jpc' = [jpc EXCEPT ![j] = "testing"]
  /\ reported' = IF seen[j] THEN reported
                 ELSE [reported EXCEPT ![cur[j].info.uuid] = FALSE]
  /\ UNCHANGED <<jobOnly, child, mountAllrunning, kind, copy, todo, cur, seen>>

\* ... which is then sent ...
CheckSend(j) ==
  /\ phase # "gone"
  /\ jpc[j] = "sending"
  /\ jpc' = [jpc EXCEPT ![j] = "testing"]
  /\ reported' = [reported EXCEPT ![cur[j].info.uuid] = seen[j]]
  /\ UNCHANGED <<jobOnly, child, mountAllrunning, kind, copy, todo, cur, seen>>

\* Faulty: the flag is tested the wrong way round.
CheckTestInverted(j) ==
  /\ phase # "gone"
  /\ jpc[j] = "testing"
  /\ IF /\ mountAllrunning /\ ~seen[j]
        /\ cur[j].info.enabled /\ cur[j].info.keepAlive
     THEN jpc' = [jpc EXCEPT ![j] = "blocked"] /\ cur' = cur
     ELSE /\ jpc' = [jpc EXCEPT ![j] = "looping"]
          /\ cur' = [cur EXCEPT ![j] = NoEntry]
  /\ seen' = [seen EXCEPT ![j] = FALSE]
  /\ UNCHANGED <<jobOnly, child, mountAllrunning, reported, kind, copy, todo>>

\* ... and a dead mount is mounted again.
CheckTest(j) ==
  /\ phase # "gone"
  /\ jpc[j] = "testing"
  /\ IF /\ ~mountAllrunning /\ ~seen[j]
        /\ cur[j].info.enabled /\ cur[j].info.keepAlive
     THEN jpc' = [jpc EXCEPT ![j] = "blocked"] /\ cur' = cur
     ELSE /\ jpc' = [jpc EXCEPT ![j] = "looping"]
          /\ cur' = [cur EXCEPT ![j] = NoEntry]
  /\ seen' = [seen EXCEPT ![j] = FALSE]
  /\ UNCHANGED <<jobOnly, child, mountAllrunning, reported, kind, copy, todo>>

\* Faulty: the job ends without clearing the flag.
EndJobFlagged(j) ==
  /\ phase # "gone"
  /\ jpc[j] = "looping"
  /\ todo[j] = {}
  /\ jpc'  = [jpc EXCEPT ![j] = "idle"]
  /\ copy' = [copy EXCEPT ![j] = {}]
  /\ seen' = [seen EXCEPT ![j] = FALSE]
  /\ child' = ChildrenAfter({}, HeldBy(mounts, copy'))
  /\ UNCHANGED <<jobOnly, mountAllrunning, reported, kind, todo, cur>>

\* The loop ends, the copy is dropped; mountAll's job clears the flag.
EndJob(j) ==
  /\ phase # "gone"
  /\ jpc[j] = "looping"
  /\ todo[j] = {}
  /\ jpc'  = [jpc EXCEPT ![j] = "idle"]
  /\ copy' = [copy EXCEPT ![j] = {}]
  /\ seen' = [seen EXCEPT ![j] = FALSE]
  /\ child' = ChildrenAfter({}, HeldBy(mounts, copy'))
  /\ mountAllrunning' = IF kind[j] = "mountAll" THEN FALSE ELSE mountAllrunning
  /\ UNCHANGED <<jobOnly, reported, kind, todo, cur>>

-----------------------------------------------------------------------------
(* The children.                                                           *)

childOnly == <<settings, saves, reload, commands, phase, reloading, listVars,
               mountAllrunning, reported, jobVars>>

\* The child has created its window: from now on WM_CLOSE reaches it.
ChildReady(p) ==
  /\ child[p] = "booting"
  /\ child' = [child EXCEPT ![p] = "up"]
  /\ UNCHANGED childOnly

\* The child exits: asked to, on an error, or by a crash.
ChildExit(p) ==
  /\ child[p] \in {"booting", "up", "closing"}
  /\ child' = [child EXCEPT ![p] = "exited"]
  /\ UNCHANGED childOnly

-----------------------------------------------------------------------------
ReloadStep ==
  \/ BeginReload
  \/ \E m \in mounts : RemoveMount(m)
  \/ \E i \in toAdd, p \in Procs : AddMount(i, p)
  \/ \E i \in toModify, m \in mounts, p \in Procs : ModifyMount(i, m, p)
  \/ \E j \in Jobs : FinishReload(j)

StopStep ==
  \/ \E m \in toClose : CloseMount(m)
  \/ BeginDrain
  \/ EndStop

JobStep(j) ==
  \/ SetFlag(j)
  \/ CopyMounts(j)
  \/ \E m \in todo[j] : MountAllStep(j, m) \/ CheckRead(j, m)
  \/ CheckSend(j)
  \/ CheckTest(j)
  \/ EndJob(j)

\* Nothing is left to do once the daemon is gone.
Ended == phase = "gone" /\ UNCHANGED vars

Next ==
  \/ \E new \in SettingsLists : Save(new)
  \/ \E u \in Commanded : StartCommand(u) \/ HandleCommand(u)
  \/ ReloadStep
  \/ \E j \in Jobs : Tick(j) \/ HandleMount(j) \/ JobStep(j)
  \/ BeginStop \/ StopStep
  \/ \E p \in Procs : NoticeExit(p) \/ ChildReady(p) \/ ChildExit(p)
  \/ Ended

Spec == Init /\ [][Next]_vars

-----------------------------------------------------------------------------
(* Properties.                                                             *)

\* Every variable holds a value of its kind.
TypeOK ==
  /\ settings \in SettingsLists
  /\ saves \in 0..MaxSaves
  /\ reload \in BOOLEAN
  /\ commands \subseteq Uuids
  /\ phase \in Phases
  /\ reloading \in BOOLEAN
  /\ loaded \subseteq MountInfo
  /\ toAdd \subseteq MountInfo
  /\ toModify \subseteq MountInfo
  /\ toRemove \subseteq MountInfo
  /\ toClose \subseteq Mount
  /\ mounts \subseteq Mount
  /\ child \in [Procs -> ChildStates]
  /\ mountAllrunning \in BOOLEAN
  /\ reported \in [Uuids -> BOOLEAN]
  /\ kind \in [Jobs -> {"mountAll", "check"}]
  /\ jpc \in [Jobs -> JobStates]
  /\ copy \in [Jobs -> SUBSET Mount]
  /\ todo \in [Jobs -> SUBSET Mount]
  /\ cur \in [Jobs -> Mount \cup {NoEntry}]
  /\ seen \in [Jobs -> BOOLEAN]

\* Whenever the daemon thread is outside reloadMounts, the list of mounts is
\* the list the last reload read: the same uuids, and for each of them an
\* entry that operator== takes for the one in mounts.ini (reloadMounts,
\* toaddModify and toRemove work on lists taken before any step of theirs).
ListMatches(new) ==
  /\ UuidsOf(InfosOf(mounts)) = UuidsOf(new)
  /\ \A m \in mounts, i \in new : m.info.uuid = i.uuid => SameMount(m.info, i)

ReloadApplied == ~reloading /\ phase \in {"serving", "closing", "draining"}
                   => ListMatches(loaded)

\* A QProcess belongs to one entry for good: whatever refers to it, the list
\* or the stale copy of a job, pairs it with the same MountInfo; and the list
\* has one entry per uuid.  This is what makes looking a uuid up in the list
\* and reading a state through a copy speak of one mount.
Entries == mounts \cup UNION {copy[j] : j \in Jobs}

OneEntryPerProcess ==
  /\ \A m, n \in Entries : m.proc = n.proc => m = n
  /\ \A m, n \in mounts : m.info.uuid = n.info.uuid => m = n

\* No child outlives the objects that can stop it: a child the QProcess has
\* belongs to the list or to the copy of a job that has not ended, and after
\* ~Daemon there is none (shared_ptr copies keep a QProcess alive).
NoOrphanChild ==
  /\ \A p \in Procs : Running(p) => p \in HeldBy(mounts, copy)
  /\ phase = "gone" => \A p \in Procs : ~Running(p)

\* keepAlive is suspended only while a mountAll job is under way: the flag,
\* which overlapping jobs share, is never left set without one.
FlagHasOwner ==
  mountAllrunning =>
    \E j \in Jobs : kind[j] = "mountAll" /\ jpc[j] \in {"copying", "looping", "blocked"}

\* A child is started only for a QProcess that is in the list now, never for
\* one that was replaced or removed, and only by a command for its uuid or by
\* a blocked job whose copy has the mount enabled.  A job starts a mount that
\* the list has disabled only if its copy is older than the list's entry.
StartsFor(p, j) ==
  /\ jpc[j] = "blocked" /\ jpc'[j] = "looping"
  /\ cur[j].info.enabled
  /\ \E m \in mounts : /\ m.proc = p
                       /\ m.info.uuid = cur[j].info.uuid
                       /\ m.info.enabled \/ m.proc # cur[j].proc

Justified ==
  \A p \in Procs : child[p] = "none" /\ child'[p] = "booting"
                    => \/ \E j \in Jobs : StartsFor(p, j)
                       \/ \E u \in commands \ commands' :
                            \E m \in mounts : m.proc = p /\ m.info.uuid = u

StartIsJustified == [][Justified]_vars

\* The daemon keeps the protocol of its children, which MountProcess implements:
\* whatever is replaced, dropped or killed meanwhile, a child is started only
\* when there is none and asked to close only when it has a window.
C == INSTANCE Child
KeepsChildProtocol == C!Spec

\* The daemon stands for the contents mounts.ini had at one moment, as far as
\* operator== compares them: while it works on a reload for what it has read,
\* else for its list.  However reloads, jobs with old copies, commands and the
\* end of the service come together, it implements MountTable: what is loaded
\* is loaded as a whole, and only what is in the table is started.
Compared(i) == [uuid |-> i.uuid, enabled |-> i.enabled, keepAlive |-> i.keepAlive,
                target |-> i.target]
ComparedIn(infos) == {Compared(i) : i \in infos}

Table  == ComparedIn(IF reloading THEN loaded ELSE InfosOf(mounts))
Served == {Compared(m.info) : m \in {m \in mounts : Running(m.proc)}}

T == INSTANCE MountTable WITH Contents <- {ComparedIn(S) : S \in SettingsLists},
                              saved <- ComparedIn(settings),
                              table <- Table, served <- Served
KeepsTable == T!Spec

\* "Compares everything expect the UUID" (common.h:39): an entry differs from
\* the one in mounts.ini in no field once the reload is over.
ReloadAppliesEveryField ==
  ~reloading /\ phase = "serving" => InfosOf(mounts) = loaded

-----------------------------------------------------------------------------
(* Liveness.  The event loop of the daemon thread serves its queue in      *)
(* order, so an event that stays queued is dispatched although reloads     *)
(* come between: strong fairness.  The steps inside a handler, the running *)
(* jobs and the timer only need weak fairness.  The children and the       *)
(* controller owe nothing, except that a child comes up or exits.          *)
Fairness ==
  /\ WF_vars(ReloadStep) /\ SF_vars(BeginReload)
  /\ WF_vars(StopStep)
  /\ WF_vars(\E j \in Jobs : Tick(j))
  /\ \A j \in Jobs : WF_vars(JobStep(j)) /\ SF_vars(HandleMount(j))
  /\ \A p \in Procs : SF_vars(NoticeExit(p)) /\ WF_vars(ChildReady(p))

FairSpec == Spec /\ Fairness

Stopping == phase \in {"closing", "draining", "gone"}

\* A job blocked in the queued call gets its answer, or the daemon stops: the
\* daemon thread never waits for a job, so the two cannot wait for each other.
BlockedJobResumes ==
  \A j \in Jobs : jpc[j] = "blocked" ~> jpc[j] # "blocked" \/ Stopping

\* A reload request that reached the service is applied with the settings as
\* they are, unless they are saved again or the service stops.
ReloadIsServed ==
  \A S \in SettingsLists :
    reload /\ settings = S
      ~> settings # S \/ Stopping \/ (loaded = S /\ ~reloading /\ ListMatches(S))

\* An enabled keepAlive mount whose child is gone is started again, or it is
\* changed, or the service stops (checkStatus; the flag of mountAll and stale
\* copies only delay it).
KeepAliveRestarts ==
  \A u \in Uuids :
    (\E m \in mounts : m.info.uuid = u /\ m.info.enabled /\ m.info.keepAlive)
      ~> \/ \E m \in mounts : m.info.uuid = u /\ Running(m.proc)
         \/ ~\E m \in mounts : m.info.uuid = u /\ m.info.enabled
                                              /\ m.info.keepAlive
         \/ Stopping

\* A status that stays true is the one the controller ends up with, although
\* a job may send a state it read before a child was started or replaced.
StatusConverges ==
  \A u \in Uuids, b \in BOOLEAN :
    <>[](phase = "serving" /\ \E m \in mounts : m.info.uuid = u /\ Running(m.proc) = b)
      => <>[](reported[u] = b)

\* A stop that began comes to its end.
StopCompletes == phase = "closing" ~> phase = "gone"

=============================================================================
