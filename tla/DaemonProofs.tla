---------------------------- MODULE DaemonProofs ----------------------------
(***************************************************************************)
(* Proofs about Daemon, for every value of its constants.                  *)
(***************************************************************************)
EXTENDS Daemon, FiniteSetTheorems, TLAPS

UniqueUuids(infos) == \A i, k \in infos : i.uuid = k.uuid => i = k

(***************************************************************************)
(* What is left to do of a reload, at every step of it: what the list has  *)
(* too much is still to be removed, what it lacks is still to be added,    *)
(* and an entry that differs from the settings is still to be modified.    *)
(***************************************************************************)
WorkLeft ==
  /\ toAdd \subseteq loaded
  /\ \A i \in toAdd : i.uuid \notin UuidsOf(InfosOf(mounts))
  /\ \A m \in mounts : m.info.uuid \in UuidsOf(loaded) \/ m.info \in toRemove
  /\ \A i \in toRemove : i.uuid \notin UuidsOf(loaded)
  /\ \A i \in loaded : i.uuid \in UuidsOf(InfosOf(mounts)) \/ i \in toAdd
  /\ \A m \in mounts, i \in loaded :
       m.info.uuid = i.uuid => SameMount(m.info, i) \/ i \in toModify

ReloadInv ==
  /\ UniqueUuids(loaded)
  /\ toModify \subseteq loaded
  /\ reloading => WorkLeft /\ phase \in {"starting", "serving", "draining"}
  /\ ~reloading /\ phase = "starting" => mounts = {}
  /\ ReloadApplied

\* A job works on elements of its copy, and blocks on enabled ones.
JobInv ==
  \A j \in Jobs :
    /\ todo[j] \subseteq copy[j]
    /\ jpc[j] \in {"sending", "testing", "blocked"} => cur[j] \in copy[j]
    /\ jpc[j] = "blocked" => cur[j].info.enabled
    /\ jpc[j] \in {"sending", "testing"} => kind[j] = "check"
    /\ jpc[j] \in {"idle", "queued", "copying"} => copy[j] = {}

IInv ==
  /\ TypeOK
  /\ OneEntryPerProcess
  /\ NoOrphanChild
  /\ FlagHasOwner
  /\ ReloadInv
  /\ JobInv

-----------------------------------------------------------------------------
(* Facts about the operators.                                              *)

\* A pair of a QProcess and a MountInfo is an entry of the list.
LEMMA MountFields ==
  /\ \A m \in Mount : m.proc \in Procs /\ m.info \in MountInfo
  /\ \A p \in Procs, i \in MountInfo : [proc |-> p, info |-> i] \in Mount
BY DEF Mount

\* Closing and destroying children leaves each in a state of a child, starts
\* none, and leaves none without a QProcess that is held.
LEMMA ChildrenAfterFacts ==
  ASSUME child \in [Procs -> ChildStates], NEW asked, NEW held
  PROVE  /\ ChildrenAfter(asked, held) \in [Procs -> ChildStates]
         /\ \A p \in Procs :
              /\ ChildrenAfter(asked, held)[p] # "none" => p \in held
              /\ child[p] = "none" => ChildrenAfter(asked, held)[p] = "none"
BY DEF ChildrenAfter, AskToClose, ChildStates

-----------------------------------------------------------------------------
(* Type correctness.                                                       *)

\* Every variable keeps its type (TypeOK of Daemon).
LEMMA InitType == Init => TypeOK
<1> SUFFICES ASSUME Init PROVE TypeOK
  OBVIOUS
<1>1. saves \in 0..MaxSaves
  BY ConstantsAssumption DEF Init, ConstantsAssumption
<1>2. /\ child \in [Procs -> ChildStates]
      /\ reported \in [Uuids -> BOOLEAN]
      /\ kind \in [Jobs -> {"mountAll", "check"}]
      /\ jpc \in [Jobs -> JobStates]
  BY DEF Init, ChildStates, JobStates
<1>3. /\ copy \in [Jobs -> SUBSET Mount] /\ todo \in [Jobs -> SUBSET Mount]
      /\ cur \in [Jobs -> Mount \cup {NoEntry}] /\ seen \in [Jobs -> BOOLEAN]
  BY DEF Init
<1> QED BY <1>1, <1>2, <1>3 DEF Init, TypeOK, Phases

\* Every action of the daemon, the jobs and the children keeps the types.
LEMMA NextType == TypeOK /\ [Next]_vars => TypeOK'
<1> SUFFICES ASSUME TypeOK, [Next]_vars PROVE TypeOK'
  OBVIOUS
<1> USE DEF TypeOK
<1>1. ASSUME NEW new \in SettingsLists, Save(new) PROVE TypeOK'
  <2>1. saves' \in 0..MaxSaves
    BY <1>1, ConstantsAssumption DEF Save, ConstantsAssumption
  <2> QED BY <1>1, <2>1 DEF Save, listVars, jobVars
<1>2. CASE BeginReload
  <2>1. loaded' \subseteq MountInfo /\ toAdd' \subseteq MountInfo
        /\ toModify' \subseteq MountInfo /\ toRemove' \subseteq MountInfo
    BY <1>2, SettingsAssumption, MountFields
    DEF BeginReload, Added, Modified, Removed, InfosOf, SettingsAssumption
  <2> QED BY <1>2, <2>1 DEF BeginReload, jobVars
<1>3. ASSUME NEW m \in mounts, RemoveMount(m) PROVE TypeOK'
  BY <1>3, ChildrenAfterFacts DEF RemoveMount, jobVars
<1>4. ASSUME NEW i \in toAdd, NEW p \in Procs, AddMount(i, p) PROVE TypeOK'
  BY <1>4, MountFields DEF AddMount, jobVars
<1>5. ASSUME NEW i \in toModify, NEW m \in mounts, NEW p \in Procs, ModifyMount(i, m, p)
      PROVE TypeOK'
  BY <1>5, MountFields, ChildrenAfterFacts DEF ModifyMount, jobVars
<1>6. ASSUME NEW j \in Jobs, FinishReload(j) PROVE TypeOK'
  BY <1>6 DEF FinishReload, Submit, listVars, Phases, JobStates
<1>7. ASSUME NEW j \in Jobs, Tick(j) PROVE TypeOK'
  BY <1>7 DEF Tick, Submit, listVars, JobStates
<1>8. ASSUME NEW j \in Jobs, HandleMount(j) PROVE TypeOK'
  <2>1. child' \in [Procs -> ChildStates] /\ reported' \in [Uuids -> BOOLEAN]
    BY <1>8, MountFields DEF HandleMount, MountByUuid, ChildStates
  <2> QED BY <1>8, <2>1 DEF HandleMount, listVars, JobStates
<1>9. ASSUME NEW j \in Jobs, JobStep(j) PROVE TypeOK'
  <2>1. CASE SetFlag(j)
    BY <2>1 DEF SetFlag, jobOnly, listVars, JobStates
  <2>2. CASE CopyMounts(j)
    BY <2>2 DEF CopyMounts, jobOnly, listVars, JobStates
  <2>3. ASSUME NEW m \in todo[j], MountAllStep(j, m) PROVE TypeOK'
    BY <2>3 DEF MountAllStep, jobOnly, listVars, JobStates
  <2>4. ASSUME NEW m \in todo[j], CheckRead(j, m) PROVE TypeOK'
    BY <2>4 DEF CheckRead, jobOnly, listVars, JobStates, Running
  <2>5. CASE CheckTest(j)
    BY <2>5 DEF CheckSend, CheckTest, jobOnly, listVars, JobStates
  <2>7. CASE CheckSend(j)
    <3>1. reported' \in [Uuids -> BOOLEAN]
      BY <2>7 DEF CheckSend
    <3> QED BY <2>7, <3>1 DEF CheckSend, jobOnly, listVars, JobStates
  <2>6. CASE EndJob(j)
    BY <2>6, ChildrenAfterFacts DEF EndJob, jobOnly, listVars, JobStates
  <2> QED BY <1>9, <2>1, <2>2, <2>3, <2>4, <2>5, <2>6, <2>7 DEF JobStep
<1>10. CASE BeginStop
  BY <1>10, ChildrenAfterFacts DEF BeginStop, jobVars, Phases
<1>11. CASE StopStep
  <2>1. ASSUME NEW m \in toClose, CloseMount(m) PROVE TypeOK'
    BY <2>1, MountFields DEF CloseMount, jobVars, ChildStates
  <2>2. CASE BeginDrain
    BY <2>2 DEF BeginDrain, listVars, jobVars, Phases
  <2>3. CASE EndStop
    BY <2>3 DEF EndStop, jobVars, Phases, ChildStates
  <2> QED BY <1>11, <2>1, <2>2, <2>3 DEF StopStep
<1>12. ASSUME NEW p \in Procs, NoticeExit(p) \/ ChildReady(p) \/ ChildExit(p)
       PROVE TypeOK'
  BY <1>12 DEF NoticeExit, ChildReady, ChildExit, childOnly, listVars, jobVars,
               ChildStates
<1>13. CASE Ended \/ UNCHANGED vars
  BY <1>13 DEF Ended, vars, listVars, jobVars
<1>14. ASSUME NEW u \in Commanded, StartCommand(u) PROVE TypeOK'
  BY <1>14, ConstantsAssumption DEF StartCommand, listVars, jobVars, ConstantsAssumption
<1>15. ASSUME NEW u \in Commanded, HandleCommand(u) PROVE TypeOK'
  <2>1. child' \in [Procs -> ChildStates] /\ reported' \in [Uuids -> BOOLEAN]
    BY <1>15, MountFields DEF HandleCommand, MountByUuid, ChildStates
  <2> QED BY <1>15, <2>1 DEF HandleCommand, listVars, jobVars
<1> QED
  BY <1>1, <1>2, <1>3, <1>4, <1>5, <1>6, <1>7, <1>8, <1>9, <1>10, <1>11, <1>12,
     <1>13, <1>14, <1>15 DEF Next, ReloadStep

\* Whatever the constants, the state of the service is well typed (TypeOK).
THEOREM TypeCorrect == Spec => []TypeOK
BY InitType, NextType, PTL DEF Spec

-----------------------------------------------------------------------------
(* One entry per process and per uuid.                                     *)

\* The held QProcess objects are those of the entries.
LEMMA HeldByEntries ==
  \A p : p \in HeldBy(mounts, copy) <=> \E m \in Entries : m.proc = p
BY DEF HeldBy, Entries

\* A list and copies that refer to no new entry keep the invariant.
LEMMA FewerEntries ==
  ASSUME OneEntryPerProcess, mounts' \subseteq mounts, Entries' \subseteq Entries
  PROVE  OneEntryPerProcess'
BY DEF OneEntryPerProcess

\* A step that leaves the list and the copies alone keeps the invariant.
LEMMA SameEntries ==
  ASSUME OneEntryPerProcess, UNCHANGED <<mounts, copy>> PROVE OneEntryPerProcess'
BY DEF OneEntryPerProcess, Entries

\* A new entry with a free QProcess and a uuid the rest of the list lacks.
LEMMA OneMoreEntry ==
  ASSUME OneEntryPerProcess, NEW e, NEW rest, rest \subseteq mounts,
         e.proc \in Free, \A m \in rest : m.info.uuid # e.info.uuid,
         mounts' = rest \cup {e}, copy' = copy
  PROVE  OneEntryPerProcess'
<1>1. Entries' \subseteq Entries \cup {e}
  BY DEF Entries
<1>2. \A m \in Entries : m.proc # e.proc
  BY HeldByEntries DEF Free
<1> QED BY <1>1, <1>2 DEF OneEntryPerProcess

\* Only add and modify bring a new pair into the list; it has a free QProcess
\* and a uuid no other entry has, so one entry per process and uuid is kept.
LEMMA NextEntries == IInv /\ [Next]_vars => OneEntryPerProcess'
<1> SUFFICES ASSUME IInv, [Next]_vars PROVE OneEntryPerProcess'
  OBVIOUS
<1>0. OneEntryPerProcess
  BY DEF IInv
<1>1. CASE UNCHANGED <<mounts, copy>>
  BY <1>0, <1>1, SameEntries
<1>2. ASSUME NEW m \in mounts, RemoveMount(m) PROVE OneEntryPerProcess'
  BY <1>0, <1>2, FewerEntries DEF RemoveMount, Entries, jobVars
<1>3. ASSUME NEW i \in toAdd, NEW p \in Procs, AddMount(i, p) PROVE OneEntryPerProcess'
  <2>1. \A m \in mounts : m.info.uuid # i.uuid
    BY <1>3 DEF AddMount, IInv, ReloadInv, WorkLeft, UuidsOf, InfosOf
  <2>2. /\ mounts' = mounts \cup {[proc |-> p, info |-> i]} /\ copy' = copy
        /\ p \in Free
    BY <1>3 DEF AddMount, jobVars
  <2> DEFINE e == [proc |-> p, info |-> i]
  <2>3. e.proc = p /\ e.info = i
    OBVIOUS
  <2>4. mounts' = mounts \cup {e}
    BY <2>2
  <2> HIDE DEF e
  <2> QED BY <1>0, <2>1, <2>2, <2>3, <2>4, OneMoreEntry
<1>4. ASSUME NEW i \in toModify, NEW m \in mounts, NEW p \in Procs, ModifyMount(i, m, p)
      PROVE OneEntryPerProcess'
  <2>1. \A n \in mounts \ {m} : n.info.uuid # i.uuid
    BY <1>0, <1>4 DEF ModifyMount, OneEntryPerProcess
  <2>2. /\ mounts' = (mounts \ {m}) \cup {[proc |-> p, info |-> i]}
        /\ copy' = copy /\ p \in Free
    BY <1>4 DEF ModifyMount, jobVars
  <2> DEFINE e == [proc |-> p, info |-> i]
  <2>3. e.proc = p /\ e.info = i
    OBVIOUS
  <2>4. mounts' = (mounts \ {m}) \cup {e}
    BY <2>2
  <2> HIDE DEF e
  <2> QED BY <1>0, <2>1, <2>2, <2>3, <2>4, OneMoreEntry
<1>5. ASSUME NEW j \in Jobs, CopyMounts(j) PROVE OneEntryPerProcess'
  <2>1. mounts' = mounts /\ Entries' \subseteq Entries
    BY <1>5 DEF CopyMounts, Entries, jobOnly, listVars, IInv, TypeOK
  <2> QED BY <1>0, <2>1, FewerEntries
<1>6. ASSUME NEW j \in Jobs, EndJob(j) PROVE OneEntryPerProcess'
  <2>1. mounts' = mounts /\ Entries' \subseteq Entries
    BY <1>6 DEF EndJob, Entries, jobOnly, listVars, IInv, TypeOK
  <2> QED BY <1>0, <2>1, FewerEntries
<1>7. CASE EndStop
  BY <1>0, <1>7, FewerEntries DEF EndStop, Entries, jobVars
<1> QED
  BY <1>1, <1>2, <1>3, <1>4, <1>5, <1>6, <1>7
  DEF Next, ReloadStep, StopStep, JobStep, Save, BeginReload, FinishReload, Tick,
      HandleMount, HandleCommand, StartCommand, SetFlag, MountAllStep, CheckRead,
      CheckSend, CheckTest, BeginStop,
      CloseMount, BeginDrain, NoticeExit, ChildReady, ChildExit, Ended, childOnly,
      jobOnly, listVars, jobVars, vars

-----------------------------------------------------------------------------
(* No orphan child.                                                        *)

\* Closing and destroying children, with what is held computed anew.
LEMMA OrphansAfter ==
  ASSUME TypeOK, NoOrphanChild, NEW asked, phase # "gone", phase' = phase,
         child' = ChildrenAfter(asked, HeldBy(mounts', copy'))
  PROVE  NoOrphanChild'
BY ChildrenAfterFacts DEF TypeOK, NoOrphanChild, Running

\* A child starts only through an entry of the list, and whatever drops an
\* entry or a copy destroys the QProcess objects nobody refers to any more.
LEMMA NextOrphans == IInv /\ [Next]_vars => NoOrphanChild'
<1> SUFFICES ASSUME IInv, [Next]_vars PROVE NoOrphanChild'
  OBVIOUS
<1>0. TypeOK /\ NoOrphanChild
  BY DEF IInv
<1> USE <1>0
<1>1. ASSUME UNCHANGED <<child, phase>>, HeldBy(mounts, copy) \subseteq HeldBy(mounts', copy')
      PROVE NoOrphanChild'
  BY <1>1 DEF NoOrphanChild, Running
<1>2. CASE UNCHANGED <<child, phase, mounts, copy>>
  BY <1>1, <1>2 DEF HeldBy
<1>3. ASSUME NEW m \in mounts, RemoveMount(m) PROVE NoOrphanChild'
  <2>1. phase # "gone"
    BY <1>3 DEF RemoveMount, IInv, ReloadInv
  <2>2. copy' = copy
    BY <1>3 DEF RemoveMount, jobVars
  <2> QED BY <1>3, <2>1, <2>2, OrphansAfter DEF RemoveMount, HeldBy
<1>4. ASSUME NEW i \in toAdd, NEW p \in Procs, AddMount(i, p) PROVE NoOrphanChild'
  BY <1>1, <1>4 DEF AddMount, jobVars, HeldBy
<1>5. ASSUME NEW i \in toModify, NEW m \in mounts, NEW p \in Procs, ModifyMount(i, m, p)
      PROVE NoOrphanChild'
  <2>1. phase # "gone"
    BY <1>5 DEF ModifyMount, IInv, ReloadInv
  <2>2. copy' = copy
    BY <1>5 DEF ModifyMount, jobVars
  <2> QED BY <1>5, <2>1, <2>2, OrphansAfter DEF ModifyMount, HeldBy
<1>6. ASSUME NEW j \in Jobs, FinishReload(j) PROVE NoOrphanChild'
  BY <1>6 DEF FinishReload, listVars, NoOrphanChild, Running, HeldBy, IInv, ReloadInv
<1>7. ASSUME NEW j \in Jobs, HandleMount(j) PROVE NoOrphanChild'
  <2>1. /\ phase' = phase /\ phase # "gone" /\ mounts' = mounts /\ copy' = copy
    BY <1>7 DEF HandleMount, Dispatching, listVars
  <2>2. \A p \in Procs : child'[p] # "none" =>
          child[p] # "none" \/ \E m \in mounts : m.proc = p
    BY <1>7 DEF HandleMount, MountByUuid, Running, TypeOK
  <2> QED BY <2>1, <2>2 DEF NoOrphanChild, Running, HeldBy
<1>8. ASSUME NEW j \in Jobs, CopyMounts(j) PROVE NoOrphanChild'
  <2>1. /\ UNCHANGED <<child, phase, mounts>> /\ phase # "gone"
        /\ copy' = [copy EXCEPT ![j] = mounts] /\ copy[j] = {}
    BY <1>8 DEF CopyMounts, jobOnly, listVars, IInv, JobInv
  <2> QED BY <1>1, <2>1 DEF HeldBy, TypeOK
<1>9. ASSUME NEW j \in Jobs, EndJob(j) PROVE NoOrphanChild'
  BY <1>9, OrphansAfter DEF EndJob, jobOnly, listVars
<1>10. CASE BeginStop
  <2>1. mounts' = mounts /\ copy' = copy
    BY <1>10 DEF BeginStop, jobVars
  <2> QED BY <1>10, <2>1, ChildrenAfterFacts
    DEF BeginStop, NoOrphanChild, Running, TypeOK
<1>11. ASSUME NEW m \in toClose, CloseMount(m) PROVE NoOrphanChild'
  <2>1. /\ phase' = phase /\ phase # "gone" /\ mounts' = mounts /\ copy' = copy
    BY <1>11 DEF CloseMount, jobVars
  <2>2. \A p \in Procs : child'[p] # "none" => child[p] # "none"
    BY <1>11 DEF CloseMount, Running, TypeOK
  <2> QED BY <2>1, <2>2 DEF NoOrphanChild, Running, HeldBy
<1>12. CASE BeginDrain
  BY <1>12 DEF BeginDrain, listVars, jobVars, NoOrphanChild, Running, HeldBy
<1>13. CASE EndStop
  BY <1>13 DEF EndStop, NoOrphanChild, Running
<1>14. ASSUME NEW p \in Procs, NoticeExit(p) \/ ChildReady(p) \/ ChildExit(p)
       PROVE NoOrphanChild'
  <2>1. UNCHANGED <<phase, mounts, copy>>
    BY <1>14 DEF NoticeExit, ChildReady, ChildExit, childOnly, listVars, jobVars
  <2>2. \A q \in Procs : child'[q] # "none" => child[q] # "none"
    BY <1>14 DEF NoticeExit, ChildReady, ChildExit, TypeOK
  <2> QED BY <2>1, <2>2 DEF NoOrphanChild, Running, HeldBy
<1>15. ASSUME NEW u \in Commanded, HandleCommand(u) PROVE NoOrphanChild'
  <2>1. /\ phase' = phase /\ phase # "gone" /\ mounts' = mounts /\ copy' = copy
    BY <1>15 DEF HandleCommand, Dispatching, listVars, jobVars
  <2>2. \A p \in Procs : child'[p] # "none" =>
          child[p] # "none" \/ \E m \in mounts : m.proc = p
    BY <1>15 DEF HandleCommand, MountByUuid, Running, TypeOK
  <2> QED BY <2>1, <2>2 DEF NoOrphanChild, Running, HeldBy
<1> QED
  BY <1>2, <1>3, <1>4, <1>5, <1>6, <1>7, <1>8, <1>9, <1>10, <1>11, <1>12, <1>13, <1>14,
     <1>15
  DEF Next, ReloadStep, StopStep, JobStep, Save, StartCommand, BeginReload, Tick, SetFlag,
      MountAllStep, CheckRead, CheckSend, CheckTest, Ended, jobOnly, listVars, jobVars, vars

-----------------------------------------------------------------------------
(* The flag of mountAll has an owner.                                      *)

\* The flag is set by a mountAll job and cleared when such a job ends.
LEMMA NextFlag == IInv /\ [Next]_vars => FlagHasOwner'
<1> SUFFICES ASSUME IInv, [Next]_vars PROVE FlagHasOwner'
  OBVIOUS
<1>0. TypeOK /\ FlagHasOwner
  BY DEF IInv
<1> USE <1>0 DEF FlagHasOwner, TypeOK
<1>1. CASE UNCHANGED <<mountAllrunning, kind, jpc>>
  BY <1>1
<1>2. ASSUME NEW j \in Jobs, FinishReload(j) \/ Tick(j) PROVE FlagHasOwner'
  BY <1>2 DEF FinishReload, Tick, Submit, Active
<1>3. ASSUME NEW j \in Jobs, HandleMount(j) PROVE FlagHasOwner'
  BY <1>3 DEF HandleMount
<1>4. ASSUME NEW j \in Jobs, SetFlag(j) PROVE FlagHasOwner'
  BY <1>4 DEF SetFlag
<1>5. ASSUME NEW j \in Jobs, CopyMounts(j) PROVE FlagHasOwner'
  BY <1>5 DEF CopyMounts
<1>6. ASSUME NEW j \in Jobs, NEW m \in todo[j], MountAllStep(j, m) PROVE FlagHasOwner'
  BY <1>6 DEF MountAllStep
<1>7. ASSUME NEW j \in Jobs, NEW m \in todo[j], CheckRead(j, m) PROVE FlagHasOwner'
  BY <1>7 DEF CheckRead
<1>8. ASSUME NEW j \in Jobs, CheckSend(j) \/ CheckTest(j) PROVE FlagHasOwner'
  BY <1>8 DEF CheckSend, CheckTest
<1>9. ASSUME NEW j \in Jobs, EndJob(j) PROVE FlagHasOwner'
  BY <1>9 DEF EndJob
<1> QED
  BY <1>1, <1>2, <1>3, <1>4, <1>5, <1>6, <1>7, <1>8, <1>9
  DEF Next, ReloadStep, StopStep, JobStep, Save, StartCommand, HandleCommand,
      BeginReload, RemoveMount, AddMount,
      ModifyMount, BeginStop, CloseMount, BeginDrain, EndStop, NoticeExit, ChildReady,
      ChildExit, Ended, childOnly, jobVars, vars

-----------------------------------------------------------------------------
(* What a job works on.                                                    *)

\* A job at an element of its copy stays at it until it is answered or done.
LEMMA NextJobs == IInv /\ [Next]_vars => JobInv'
<1> SUFFICES ASSUME IInv, [Next]_vars PROVE JobInv'
  OBVIOUS
<1>0. TypeOK /\ JobInv
  BY DEF IInv
<1> USE <1>0 DEF JobInv, TypeOK
<1>1. CASE UNCHANGED jobVars
  BY <1>1 DEF jobVars
<1>2. ASSUME NEW j \in Jobs, FinishReload(j) \/ Tick(j) PROVE JobInv'
  BY <1>2 DEF FinishReload, Tick, Submit, Active
<1>3. ASSUME NEW j \in Jobs, HandleMount(j) PROVE JobInv'
  BY <1>3 DEF HandleMount
<1>4. ASSUME NEW j \in Jobs, SetFlag(j) PROVE JobInv'
  BY <1>4 DEF SetFlag
<1>5. ASSUME NEW j \in Jobs, CopyMounts(j) PROVE JobInv'
  BY <1>5 DEF CopyMounts
<1>6. ASSUME NEW j \in Jobs, NEW m \in todo[j], MountAllStep(j, m) PROVE JobInv'
  BY <1>6 DEF MountAllStep
<1>7. ASSUME NEW j \in Jobs, NEW m \in todo[j], CheckRead(j, m) PROVE JobInv'
  BY <1>7 DEF CheckRead
<1>8. ASSUME NEW j \in Jobs, CheckSend(j) \/ CheckTest(j) PROVE JobInv'
  BY <1>8 DEF CheckSend, CheckTest
<1>9. ASSUME NEW j \in Jobs, EndJob(j) PROVE JobInv'
  BY <1>9 DEF EndJob
<1> QED
  BY <1>1, <1>2, <1>3, <1>4, <1>5, <1>6, <1>7, <1>8, <1>9
  DEF Next, ReloadStep, StopStep, JobStep, Save, StartCommand, HandleCommand,
      BeginReload, RemoveMount, AddMount,
      ModifyMount, BeginStop, CloseMount, BeginDrain, EndStop, NoticeExit, ChildReady,
      ChildExit, Ended, childOnly, vars

-----------------------------------------------------------------------------
(* The reload.                                                             *)

\* Each step of reloadMounts takes one element off the lists of work and does
\* what that element stands for; the work left describes the difference.
LEMMA NextReload == IInv /\ [Next]_vars => ReloadInv'
<1> SUFFICES ASSUME IInv, [Next]_vars PROVE ReloadInv'
  OBVIOUS
<1>0. TypeOK /\ OneEntryPerProcess /\ ReloadInv
  BY DEF IInv
<1>1. CASE UNCHANGED <<phase, reloading, listVars>>
  BY <1>0, <1>1 DEF ReloadInv, ReloadApplied, ListMatches, WorkLeft, listVars
<1>2. CASE BeginReload
  <2>1. UniqueUuids(settings)
    BY <1>0, SettingsAssumption DEF UniqueUuids, TypeOK, SettingsAssumption
  <2>2. /\ reloading' /\ phase' = phase /\ phase \in {"starting", "serving", "draining"}
        /\ mounts' = mounts /\ loaded' = settings /\ toAdd' = Added(settings)
        /\ toModify' = Modified(settings) /\ toRemove' = Removed(settings)
    BY <1>2 DEF BeginReload, Dispatching
  <2>3. WorkLeft'
    BY <2>2 DEF WorkLeft, Added, Modified, Removed, UuidsOf, InfosOf, SameMount
  <2> QED BY <2>1, <2>2, <2>3
    DEF ReloadInv, ReloadApplied, UniqueUuids, Modified
<1>3. ASSUME NEW m \in mounts, RemoveMount(m) PROVE ReloadInv'
  <2>1. /\ reloading /\ reloading' /\ UNCHANGED <<phase, loaded, toAdd, toModify>>
        /\ toRemove' = toRemove \ {m.info} /\ mounts' = mounts \ {m}
        /\ m.info \in toRemove
    BY <1>3 DEF RemoveMount
  <2>2. WorkLeft
    BY <1>0, <2>1 DEF ReloadInv
  <2>3. m.info.uuid \notin UuidsOf(loaded)
    BY <2>1, <2>2 DEF WorkLeft
  <2>4. \A n \in mounts \ {m} : n.info.uuid # m.info.uuid
    BY <1>0 DEF OneEntryPerProcess
  <2>5. WorkLeft'
    BY <2>1, <2>2, <2>3, <2>4 DEF WorkLeft, UuidsOf, InfosOf
  <2> QED BY <1>0, <2>1, <2>5 DEF ReloadInv, ReloadApplied
<1>4. ASSUME NEW i \in toAdd, NEW p \in Procs, AddMount(i, p) PROVE ReloadInv'
  <2> DEFINE e == [proc |-> p, info |-> i]
  <2>1. /\ reloading /\ reloading' /\ UNCHANGED <<phase, loaded, toModify, toRemove>>
        /\ toAdd' = toAdd \ {i} /\ mounts' = mounts \cup {e}
    BY <1>4 DEF AddMount
  <2>2. WorkLeft /\ UniqueUuids(loaded)
    BY <1>0, <2>1 DEF ReloadInv
  <2>3. e.info = i /\ i \in loaded
    BY <2>2 DEF WorkLeft
  <2>4. SameMount(i, i)
    BY DEF SameMount
  <2> HIDE DEF e
  <2>5. WorkLeft'
    <3>1. toAdd' \subseteq loaded'
      BY <2>1, <2>2 DEF WorkLeft
    <3>2. \A k \in toAdd' : k.uuid \notin UuidsOf(InfosOf(mounts'))
      BY <2>1, <2>2, <2>3 DEF WorkLeft, UniqueUuids, UuidsOf, InfosOf
    <3>3. \A m \in mounts' : m.info.uuid \in UuidsOf(loaded') \/ m.info \in toRemove'
      BY <2>1, <2>2, <2>3 DEF WorkLeft, UuidsOf
    <3>4. \A k \in loaded' : k.uuid \in UuidsOf(InfosOf(mounts')) \/ k \in toAdd'
      BY <2>1, <2>2, <2>3 DEF WorkLeft, UuidsOf, InfosOf
    <3>5. \A m \in mounts', k \in loaded' :
            m.info.uuid = k.uuid => SameMount(m.info, k) \/ k \in toModify'
      BY <2>1, <2>2, <2>3, <2>4 DEF WorkLeft, UniqueUuids
    <3>6. \A k \in toRemove' : k.uuid \notin UuidsOf(loaded')
      BY <2>1, <2>2 DEF WorkLeft
    <3> QED BY <3>1, <3>2, <3>3, <3>4, <3>5, <3>6 DEF WorkLeft, UuidsOf, InfosOf, SameMount
  <2> QED BY <1>0, <2>1, <2>5 DEF ReloadInv, ReloadApplied
<1>5. ASSUME NEW i \in toModify, NEW m \in mounts, NEW p \in Procs, ModifyMount(i, m, p)
      PROVE ReloadInv'
  <2> DEFINE e == [proc |-> p, info |-> i]
  <2>1. /\ reloading /\ reloading' /\ UNCHANGED <<phase, loaded, toAdd, toRemove>>
        /\ toAdd = {} /\ toModify' = toModify \ {i}
        /\ mounts' = (mounts \ {m}) \cup {e} /\ m.info.uuid = i.uuid
    BY <1>5 DEF ModifyMount
  <2>2. WorkLeft /\ UniqueUuids(loaded) /\ toModify \subseteq loaded
    BY <1>0, <2>1 DEF ReloadInv
  <2>3. e.info = i /\ i \in loaded
    BY <2>2
  <2>4. SameMount(i, i)
    BY DEF SameMount
  <2>5. \A n \in mounts \ {m} : n.info.uuid # i.uuid
    BY <1>0, <2>1 DEF OneEntryPerProcess
  <2> HIDE DEF e
  <2>6. WorkLeft'
    <3>1. \A n \in mounts' : n.info.uuid \in UuidsOf(loaded') \/ n.info \in toRemove'
      BY <2>1, <2>2, <2>3 DEF WorkLeft, UuidsOf
    <3>2. \A k \in loaded' : k.uuid \in UuidsOf(InfosOf(mounts')) \/ k \in toAdd'
      BY <2>1, <2>2, <2>3 DEF WorkLeft, UuidsOf, InfosOf
    <3>3. \A n \in mounts', k \in loaded' :
            n.info.uuid = k.uuid => SameMount(n.info, k) \/ k \in toModify'
      BY <2>1, <2>2, <2>3, <2>4, <2>5 DEF WorkLeft, UniqueUuids
    <3>4. \A k \in toRemove' : k.uuid \notin UuidsOf(loaded')
      BY <2>1, <2>2 DEF WorkLeft
    <3> QED BY <2>1, <3>1, <3>2, <3>3, <3>4 DEF WorkLeft, UuidsOf, InfosOf, SameMount
  <2> QED BY <1>0, <2>1, <2>2, <2>6 DEF ReloadInv, ReloadApplied
<1>6. ASSUME NEW j \in Jobs, FinishReload(j) PROVE ReloadInv'
  <2>1. /\ reloading /\ ~reloading' /\ phase' # "starting" /\ UNCHANGED listVars
        /\ toRemove = {} /\ toAdd = {} /\ toModify = {}
    BY <1>6 DEF FinishReload
  <2>2. WorkLeft
    BY <1>0, <2>1 DEF ReloadInv
  <2>3. ListMatches(loaded)
    BY <2>1, <2>2 DEF WorkLeft, ListMatches, UuidsOf, InfosOf
  <2> QED BY <1>0, <2>1, <2>3 DEF ReloadInv, ReloadApplied, ListMatches, listVars
<1>7. CASE BeginStop \/ BeginDrain \/ \E m \in toClose : CloseMount(m)
  BY <1>0, <1>7 DEF BeginStop, BeginDrain, CloseMount, ReloadInv, ReloadApplied,
                    ListMatches, listVars
<1>8. CASE EndStop
  BY <1>0, <1>8 DEF EndStop, ReloadInv, ReloadApplied
<1> QED
  BY <1>1, <1>2, <1>3, <1>4, <1>5, <1>6, <1>7, <1>8
  DEF Next, ReloadStep, StopStep, JobStep, Save, StartCommand, HandleCommand, Tick,
      HandleMount, SetFlag, CopyMounts,
      MountAllStep, CheckRead, CheckSend, CheckTest, EndJob, NoticeExit, ChildReady, ChildExit,
      Ended, childOnly, jobOnly, vars

-----------------------------------------------------------------------------
(* The theorems.                                                           *)

\* The inductive invariant holds before Daemon::start.
LEMMA InitInv == Init => IInv
<1> SUFFICES ASSUME Init PROVE IInv
  OBVIOUS
<1>1. TypeOK
  BY InitType
<1>2. OneEntryPerProcess /\ FlagHasOwner
  BY DEF Init, OneEntryPerProcess, Entries, FlagHasOwner
<1>3. NoOrphanChild
  BY DEF Init, NoOrphanChild, Running
<1>4. ReloadInv
  BY DEF Init, ReloadInv, ReloadApplied, UniqueUuids
<1>5. JobInv
  BY DEF Init, JobInv
<1> QED BY <1>1, <1>2, <1>3, <1>4, <1>5 DEF IInv

\* The inductive invariant of the daemon, its jobs and its children.
THEOREM Invariance == Spec => []IInv
<1>1. IInv /\ [Next]_vars => IInv'
  BY NextType, NextEntries, NextOrphans, NextFlag, NextReload, NextJobs DEF IInv
<1> QED BY InitInv, <1>1, PTL DEF Spec

\* However many mounts, jobs and processes there are: outside reloadMounts the
\* list of mounts is the list of the last reload (toaddModify, toRemove, add,
\* remove, modify), up to the fields operator== compares.
THEOREM ReloadIsApplied == Spec => []ReloadApplied
BY Invariance, PTL DEF IInv, ReloadInv

\* A QProcess stands for one mount, in the list and in every stale copy.
THEOREM EntriesAgree == Spec => []OneEntryPerProcess
BY Invariance, PTL DEF IInv

\* Every child can still be stopped through a QProcess, and none is left when
\* the Daemon object is gone.
THEOREM NoChildIsOrphaned == Spec => []NoOrphanChild
BY Invariance, PTL DEF IInv

\* The flag that suspends keepAlive is never set without a mountAll job.
THEOREM FlagIsOwned == Spec => []FlagHasOwner
BY Invariance, PTL DEF IInv

\* Only mount(uuid) starts a child: on a command, or for a job that saw the
\* mount enabled, and then a mount that is disabled now only if the job's copy
\* is older than its entry; one entry per process is what excludes a fresh one.
THEOREM StartsAreJustified == Spec => StartIsJustified
<1>1. IInv /\ [Next]_vars => [Justified]_vars
  <2> SUFFICES ASSUME IInv, Next, NEW p \in Procs, child[p] = "none", child'[p] = "booting"
               PROVE  \/ \E j \in Jobs : StartsFor(p, j)
                      \/ \E u \in commands \ commands' :
                           \E m \in mounts : m.proc = p /\ m.info.uuid = u
    BY DEF Justified
  <2>1. child' # child
    OBVIOUS
  <2>2. \A asked, held : child' # ChildrenAfter(asked, held)
    BY ChildrenAfterFacts DEF IInv, TypeOK
  <2>3. (\E j \in Jobs : HandleMount(j)) \/ \E u \in Commanded : HandleCommand(u)
    BY <2>1, <2>2
    DEF Next, ReloadStep, StopStep, JobStep, Save, StartCommand, BeginReload,
        RemoveMount, AddMount,
        ModifyMount, FinishReload, Tick, SetFlag, CopyMounts, MountAllStep, CheckRead,
        CheckSend, CheckTest, EndJob, BeginStop, CloseMount, BeginDrain, EndStop, NoticeExit,
        ChildReady, ChildExit, Ended, childOnly, listVars, jobVars, vars, IInv, TypeOK
  <2>4. ASSUME NEW j \in Jobs, HandleMount(j) PROVE StartsFor(p, j)
    <3>1. /\ jpc[j] = "blocked" /\ jpc'[j] = "looping"
          /\ cur[j].info.enabled /\ cur[j] \in Entries
      BY <2>4 DEF HandleMount, IInv, TypeOK, JobInv, Entries
    <3>2. PICK m \in mounts : m.proc = p /\ m.info.uuid = cur[j].info.uuid
      BY <2>4 DEF HandleMount, MountByUuid, IInv, TypeOK
    <3>3. m.proc = cur[j].proc => m = cur[j]
      BY <3>1, <3>2 DEF IInv, OneEntryPerProcess, Entries
    <3> QED BY <3>1, <3>2, <3>3 DEF StartsFor
  <2>5. ASSUME NEW u \in Commanded, HandleCommand(u)
        PROVE  /\ u \in commands \ commands'
               /\ \E m \in mounts : m.proc = p /\ m.info.uuid = u
    BY <2>5 DEF HandleCommand, MountByUuid, IInv, TypeOK
  <2> QED BY <2>3, <2>4, <2>5
<1> QED BY <1>1, Invariance, PTL DEF Spec, StartIsJustified

\* The moves that Child allows one child.
Moves(c, d) ==
  c = d \/ <<c, d>> \in C!Start \cup C!Ask \cup C!Notice \cup C!Drop \cup C!Ready \cup C!Exit

\* Asking some children to close and dropping others is a move of each of them.
LEMMA ChildrenAfterMoves ==
  ASSUME TypeOK, NEW asked, NEW held, NEW p \in Procs
  PROVE  Moves(child[p], ChildrenAfter(asked, held)[p])
<1>1. child[p] \in ChildStates
  BY DEF TypeOK
<1>2. ChildrenAfter(asked, held)[p] \in {"none", AskToClose(child[p]), child[p]}
  BY DEF ChildrenAfter
<1> QED BY <1>1, <1>2 DEF Moves, AskToClose, ChildStates, C!Ask, C!Notice, C!Drop, C!Alive

\* Every step moves every child by the protocol, or not at all.
LEMMA NextMoves ==
  ASSUME IInv, [Next]_vars, NEW p \in Procs
  PROVE  Moves(child[p], child'[p])
<1>1. CASE UNCHANGED child
  BY <1>1 DEF Moves
<1>2. CASE \E asked, held : child' = ChildrenAfter(asked, held)
  BY <1>2, ChildrenAfterMoves DEF IInv
<1>3. TypeOK
  BY DEF IInv
<1> USE <1>3 DEF Moves, TypeOK, ChildStates
<1>4. ASSUME NEW j \in Jobs, HandleMount(j) PROVE Moves(child[p], child'[p])
  BY <1>4 DEF HandleMount, MountByUuid, Running, C!Start
<1>5. ASSUME NEW u \in Commanded, HandleCommand(u) PROVE Moves(child[p], child'[p])
  BY <1>5 DEF HandleCommand, MountByUuid, Running, C!Start
<1>6. ASSUME NEW m \in toClose, CloseMount(m) PROVE Moves(child[p], child'[p])
  BY <1>6 DEF CloseMount, Running, C!Notice, C!Drop, C!Exit, C!Alive
<1>7. CASE EndStop
  BY <1>7 DEF EndStop, C!Notice, C!Drop, C!Alive
<1>8. ASSUME NEW q \in Procs, NoticeExit(q) \/ ChildReady(q) \/ ChildExit(q)
      PROVE  Moves(child[p], child'[p])
  BY <1>8 DEF NoticeExit, ChildReady, ChildExit, C!Notice, C!Ready, C!Exit, C!Alive
<1> QED
  BY <1>1, <1>2, <1>4, <1>5, <1>6, <1>7, <1>8
  DEF Next, ReloadStep, StopStep, JobStep, Save, StartCommand, BeginReload, RemoveMount,
      AddMount, ModifyMount, FinishReload, Tick, SetFlag, CopyMounts, MountAllStep,
      CheckRead, CheckSend, CheckTest, EndJob, BeginStop, BeginDrain, Ended, listVars, jobVars,
      jobOnly, vars

\* The daemon is written against the children that MountProcess implements.
THEOREM ChildProtocolIsKept == Spec => KeepsChildProtocol
<1>1. Init => C!Init
  BY DEF Init, C!Init
<1>2. IInv /\ IInv' /\ [Next]_vars => [C!Next]_child
  <2> SUFFICES ASSUME IInv, IInv', [Next]_vars PROVE C!Next
    OBVIOUS
  <2>1. child' \in [Procs -> C!ChildStates]
    BY DEF IInv, TypeOK, ChildStates, C!ChildStates
  <2>2. \A p \in Procs : Moves(child[p], child'[p])
    BY NextMoves
  <2> QED BY <2>1, <2>2 DEF C!Next, Moves
<1> QED BY <1>1, <1>2, Invariance, PTL DEF Spec, KeepsChildProtocol, C!Spec

-----------------------------------------------------------------------------
(* The table of mounts.  Table and Served depend on the list, the children *)
(* and the reload only; ServedFrom and TableIs say how a step changes them. *)

\* Infos that operator== takes for each other and that have one uuid.
LEMMA ComparedFacts ==
  ASSUME NEW i, NEW k
  PROVE  Compared(i) = Compared(k) <=> i.uuid = k.uuid /\ SameMount(i, k)
BY DEF Compared, SameMount

\* A list that matches what was loaded is, as far as it is compared, the same.
LEMMA MatchesIsTable ==
  ASSUME NEW S, ListMatches(S), UniqueUuids(S)
  PROVE  ComparedIn(InfosOf(mounts)) = ComparedIn(S)
<1>1. ASSUME NEW m \in mounts PROVE \E i \in S : Compared(m.info) = Compared(i)
  <2>1. m.info.uuid \in UuidsOf(S)
    BY DEF ListMatches, UuidsOf, InfosOf
  <2>2. PICK i \in S : m.info.uuid = i.uuid
    BY <2>1 DEF UuidsOf
  <2>3. SameMount(m.info, i)
    BY <2>2 DEF ListMatches
  <2> QED BY <2>2, <2>3, ComparedFacts
<1>2. ASSUME NEW i \in S PROVE \E m \in mounts : Compared(m.info) = Compared(i)
  <2>1. i.uuid \in UuidsOf(InfosOf(mounts))
    BY DEF ListMatches, UuidsOf
  <2>2. PICK m \in mounts : m.info.uuid = i.uuid
    BY <2>1 DEF UuidsOf, InfosOf
  <2>3. SameMount(m.info, i)
    BY <2>2 DEF ListMatches
  <2> QED BY <2>2, <2>3, ComparedFacts
<1> QED BY <1>1, <1>2 DEF ComparedIn, InfosOf

\* What is served is in the list, and so in the table outside a reload.
LEMMA ServedInTable == ~reloading => Served \subseteq Table
BY DEF Served, Table, ComparedIn, InfosOf

\* A step after which no entry of the list has a child that it did not have
\* before only withdraws.
LEMMA ServedFrom ==
  ASSUME \A m \in mounts' : child'[m.proc] # "none" =>
           m \in mounts /\ child[m.proc] # "none"
  PROVE  Served' \in SUBSET Served
BY DEF Served, Running

\* A step that leaves the settings and the table alone and only withdraws.
LEMMA WithdrawStep ==
  ASSUME settings' = settings, Table' = Table,
         \A m \in mounts' : child'[m.proc] # "none" =>
           m \in mounts /\ child[m.proc] # "none"
  PROVE  T!Next
BY ServedFrom DEF T!Next, T!Withdraw

\* Outside a reload the table is that of the list.
LEMMA SameTable ==
  UNCHANGED <<reloading, loaded, mounts>> => Table' = Table
BY DEF Table, ComparedIn, InfosOf

\* During a reload it is what was loaded, whatever becomes of the list.
LEMMA LoadedTable ==
  reloading /\ reloading' /\ loaded' = loaded => Table' = Table
BY DEF Table, ComparedIn

\* reloadMounts takes the settings over when it reads them.
LEMMA BeginReloadLoads == ASSUME IInv, BeginReload PROVE T!Next
<1>1. /\ ~reloading /\ reloading' /\ loaded' = settings /\ settings' = settings
      /\ mounts' = mounts /\ child' = child
  BY DEF BeginReload, Dispatching
<1>2. Table' = ComparedIn(settings)
  BY <1>1 DEF Table, ComparedIn
<1>3. Served' = Served
  BY <1>1 DEF Served, Running
<1> QED BY <1>1, <1>2, <1>3, ServedInTable DEF T!Next, T!Load, ComparedIn

\* At its end the list is what was read: the work that was left is done.
LEMMA FinishReloadStutters ==
  ASSUME IInv, NEW j \in Jobs, FinishReload(j)
  PROVE  Table' = Table
<1>1. /\ reloading /\ ~reloading' /\ mounts' = mounts /\ loaded' = loaded
      /\ toRemove = {} /\ toAdd = {} /\ toModify = {}
  BY DEF FinishReload, listVars
<1>2. WorkLeft /\ UniqueUuids(loaded)
  BY <1>1 DEF IInv, ReloadInv
<1>3. ListMatches(loaded)
  BY <1>1, <1>2 DEF WorkLeft, ListMatches, UuidsOf, InfosOf
<1>4. ComparedIn(InfosOf(mounts)) = ComparedIn(loaded)
  BY <1>2, <1>3, MatchesIsTable
<1>5. Table = ComparedIn(loaded) /\ Table' = ComparedIn(InfosOf(mounts))
  BY <1>1 DEF Table, ComparedIn, InfosOf
<1> QED BY <1>4, <1>5

\* mount(uuid) serves what the table has, outside a reload.
LEMMA MountServes ==
  ASSUME IInv, Dispatching, NEW u, MountByUuid(u),
         UNCHANGED <<settings, reloading, loaded, mounts>>
  PROVE  T!Next
<1>1. ~reloading /\ Table' = Table
  BY SameTable DEF Dispatching
<1>2. CASE child' = child
  BY <1>1, <1>2, WithdrawStep
<1>3. CASE child' # child
  <2>1. PICK m \in mounts : child' = [child EXCEPT ![m.proc] = "booting"]
    BY <1>3 DEF MountByUuid
  <2>2. child \in [Procs -> ChildStates] /\ m.proc \in Procs
    BY MountFields DEF IInv, TypeOK
  <2>3. \A n \in mounts : n.proc = m.proc => n = m
    BY DEF IInv, OneEntryPerProcess, Entries
  <2>4. {n \in mounts : Running(n.proc)}' = {n \in mounts : Running(n.proc)} \cup {m}
    <3>1. child'[m.proc] # "none"
      BY <2>1, <2>2
    <3>2. \A n \in mounts : n # m => child'[n.proc] = child[n.proc]
      BY <2>1, <2>2, <2>3
    <3> QED BY <3>1, <3>2 DEF Running
  <2>5. Served' = Served \cup {Compared(m.info)}
    BY <2>4 DEF Served, Compared
  <2>6. Compared(m.info) \in Table
    BY <1>1 DEF Table, ComparedIn, InfosOf
  <2> QED BY <1>1, <2>5, <2>6, ServedInTable DEF T!Next, T!Serve
<1> QED BY <1>2, <1>3

\* Asking children to close and dropping others starts none.
LEMMA AskedAreServed ==
  ASSUME IInv, NEW asked, NEW held, child' = ChildrenAfter(asked, held)
  PROVE  \A p \in Procs : child'[p] # "none" => child[p] # "none"
BY ChildrenAfterFacts DEF IInv, TypeOK

\* A step that adds nothing to the list and starts no child.
LEMMA FewerServed ==
  ASSUME IInv, settings' = settings, Table' = Table, mounts' \subseteq mounts,
         \A p \in Procs : child'[p] # "none" => child[p] # "none"
  PROVE  T!Next
BY WithdrawStep, MountFields DEF IInv, TypeOK

\* A new entry of a QProcess that has no child.
LEMMA NewEntryServesNothing ==
  ASSUME IInv, settings' = settings, Table' = Table, NEW e, NEW p \in Free, e.proc = p,
         mounts' \subseteq mounts \cup {e},
         \A q \in Procs : child'[q] # "none" => child[q] # "none"
  PROVE  T!Next
<1>1. p \in Procs /\ child[p] = "none"
  BY DEF IInv, NoOrphanChild, Running, Free
<1>2. \A m \in mounts' : child'[m.proc] # "none" =>
        m \in mounts /\ child[m.proc] # "none"
  BY <1>1, MountFields DEF IInv, TypeOK
<1> QED BY <1>2, WithdrawStep

\* The service goes.
LEMMA EndStopEnds == ASSUME EndStop PROVE T!Next
<1>1. Table' = {} /\ Served' = {} /\ settings' = settings
  BY DEF EndStop, Table, Served, ComparedIn, InfosOf
<1> QED BY <1>1 DEF T!Next, T!End

\* Every step of the daemon is a step of the table, or none.
LEMMA NextTable == IInv /\ [Next]_vars => [T!Next]_(T!vars)
<1> SUFFICES ASSUME IInv, [Next]_vars PROVE T!Next \/ UNCHANGED T!vars
  OBVIOUS
<1>1. CASE UNCHANGED <<settings, reloading, loaded, mounts, child>>
  <2>1. Table' = Table /\ settings' = settings
    BY <1>1, SameTable
  <2> QED BY <1>1, <2>1, FewerServed
<1>2. ASSUME NEW new \in SettingsLists, Save(new) PROVE T!Next
  <2>1. settings' = new /\ UNCHANGED <<reloading, loaded, mounts, child>>
    BY <1>2 DEF Save, listVars
  <2>2. Table' = Table /\ Served' = Served
    BY <2>1, SameTable DEF Served, Running
  <2>3. ComparedIn(settings)' = ComparedIn(new)
    BY <2>1 DEF ComparedIn
  <2> QED BY <2>2, <2>3 DEF T!Next, T!Save
<1>3. ASSUME NEW m \in mounts, RemoveMount(m) PROVE T!Next
  <2>1. /\ settings' = settings /\ reloading /\ reloading' /\ loaded' = loaded
        /\ mounts' \subseteq mounts
        /\ child' = ChildrenAfter({m.proc}, HeldBy(mounts', copy))
    BY <1>3 DEF RemoveMount
  <2> QED BY <2>1, LoadedTable, AskedAreServed, FewerServed
<1>4. ASSUME NEW i \in toAdd, NEW p \in Procs, AddMount(i, p) PROVE T!Next
  <2> DEFINE e == [proc |-> p, info |-> i]
  <2>1. /\ settings' = settings /\ reloading /\ reloading' /\ loaded' = loaded
        /\ mounts' \subseteq mounts \cup {e} /\ p \in Free /\ child' = child
    BY <1>4 DEF AddMount
  <2>2. e.proc = p
    OBVIOUS
  <2> HIDE DEF e
  <2> QED BY <2>1, <2>2, LoadedTable, NewEntryServesNothing
<1>5. ASSUME NEW i \in toModify, NEW m \in mounts, NEW p \in Procs, ModifyMount(i, m, p)
      PROVE T!Next
  <2> DEFINE e == [proc |-> p, info |-> i]
  <2>1. /\ settings' = settings /\ reloading /\ reloading' /\ loaded' = loaded
        /\ mounts' \subseteq mounts \cup {e} /\ p \in Free
        /\ child' = ChildrenAfter({m.proc}, HeldBy(mounts', copy))
    BY <1>5 DEF ModifyMount
  <2>2. e.proc = p
    OBVIOUS
  <2> HIDE DEF e
  <2> QED BY <2>1, <2>2, LoadedTable, AskedAreServed, NewEntryServesNothing
<1>6. ASSUME NEW j \in Jobs, FinishReload(j) PROVE T!Next
  <2>1. UNCHANGED <<settings, mounts, child>>
    BY <1>6 DEF FinishReload, listVars
  <2> QED BY <1>6, <2>1, FinishReloadStutters, FewerServed
<1>7. ASSUME NEW j \in Jobs, HandleMount(j) PROVE T!Next
  BY <1>7, MountServes DEF HandleMount, listVars
<1>8. ASSUME NEW u \in Commanded, HandleCommand(u) PROVE T!Next
  BY <1>8, MountServes DEF HandleCommand, listVars
<1>9. ASSUME NEW j \in Jobs, EndJob(j) PROVE T!Next
  <2>1. /\ UNCHANGED <<settings, reloading, loaded, mounts>>
        /\ child' = ChildrenAfter({}, HeldBy(mounts, copy'))
    BY <1>9 DEF EndJob, jobOnly, listVars
  <2> QED BY <2>1, SameTable, AskedAreServed, FewerServed
<1>10. CASE BeginStop
  <2>1. /\ UNCHANGED <<settings, reloading, loaded, mounts>>
        /\ child' = ChildrenAfter({m.proc : m \in mounts}, HeldBy(mounts, copy))
    BY <1>10 DEF BeginStop
  <2> QED BY <2>1, SameTable, AskedAreServed, FewerServed
<1>11. ASSUME NEW m \in toClose, CloseMount(m) PROVE T!Next
  <2>1. UNCHANGED <<settings, reloading, loaded, mounts>>
    BY <1>11 DEF CloseMount
  <2>2. \A p \in Procs : child'[p] # "none" => child[p] # "none"
    BY <1>11 DEF CloseMount, Running, IInv, TypeOK
  <2> QED BY <2>1, <2>2, SameTable, FewerServed
<1>12. ASSUME NEW p \in Procs, NoticeExit(p) \/ ChildReady(p) \/ ChildExit(p)
       PROVE T!Next
  <2>1. UNCHANGED <<settings, reloading, loaded, mounts>>
    BY <1>12 DEF NoticeExit, ChildReady, ChildExit, childOnly, listVars
  <2>2. \A q \in Procs : child'[q] # "none" => child[q] # "none"
    BY <1>12 DEF NoticeExit, ChildReady, ChildExit, IInv, TypeOK
  <2> QED BY <2>1, <2>2, SameTable, FewerServed
<1>13. CASE BeginReload
  BY <1>13, BeginReloadLoads
<1>14. CASE EndStop
  BY <1>14, EndStopEnds
<1> QED
  BY <1>1, <1>2, <1>3, <1>4, <1>5, <1>6, <1>7, <1>8, <1>9, <1>10, <1>11, <1>12, <1>13,
     <1>14
  DEF Next, ReloadStep, StopStep, JobStep, StartCommand, Tick, SetFlag, CopyMounts,
      MountAllStep, CheckRead, CheckSend, CheckTest, BeginDrain, Ended, jobOnly, listVars, vars

\* However many mounts, jobs and saves there are: the daemon takes the settings
\* over as they were at one moment, and starts nothing that they do not have.
THEOREM TableIsKept == Spec => KeepsTable
<1>1. Init => T!Init
  <2> SUFFICES ASSUME Init PROVE T!Init
    OBVIOUS
  <2>1. Table = {} /\ Served = {}
    BY DEF Init, Table, Served, ComparedIn, InfosOf
  <2>2. settings \in SettingsLists
    BY DEF Init
  <2> QED BY <2>1, <2>2 DEF T!Init
<1> QED BY <1>1, NextTable, Invariance, PTL DEF Spec, KeepsTable, T!Spec
-----------------------------------------------------------------------------
(* Inside reloadMounts.                                                    *)

\* The daemon thread gets through reloadMounts whatever jobs and children do
\* meanwhile: as long as it is inside, the next element of the three lists has
\* its entry in the list of mounts.  Daemon::remove and Daemon::modify pass over
\* an element without one, so no element is passed over, and the job and the
\* QProcess objects that the bounds of the model ask for at the beginning of a
\* reload are there when they are needed.
ReloadGoesOn ==
  reloading =>
    \/ \E m \in mounts : m.info \in toRemove
    \/ toRemove = {} /\ toAdd # {} /\ Free # {}
    \/ /\ toRemove = {} /\ toAdd = {} /\ Free # {}
       /\ \E i \in toModify, m \in mounts : m.info.uuid = i.uuid
    \/ /\ toRemove = {} /\ toAdd = {} /\ toModify = {}
       /\ \E j \in Jobs : ~Active(j)

ToMake == toAdd \cup toModify

\* What is left of a reload, and what it needs.
Provided ==
  reloading =>
    /\ toRemove \subseteq InfosOf(mounts)
    /\ UuidsOf(toModify) \subseteq UuidsOf(InfosOf(mounts))
    /\ IsFiniteSet(ToMake)
    /\ Cardinality(ToMake) =< Cardinality(Free)
    /\ \E j \in Jobs : ~Active(j)

\* There are finitely many QProcess objects, so there are finitely many free.
LEMMA FreeIsFinite ==
  /\ IsFiniteSet(Free) /\ Cardinality(Free) \in Nat
  /\ IsFiniteSet(Free') /\ Cardinality(Free') \in Nat
<1>1. Free \in SUBSET Procs /\ Free' \in SUBSET Procs
  BY DEF Free
<1>2. IsFiniteSet(Procs)
  BY ConstantsAssumption DEF ConstantsAssumption
<1>3. IsFiniteSet(Free) /\ IsFiniteSet(Free')
  BY <1>1, <1>2, FS_Subset
<1> QED BY <1>3, FS_CardinalityType

\* An element of work that takes one QProcess leaves enough for the others.
LEMMA OneTaken ==
  ASSUME NEW i \in ToMake, NEW p, IsFiniteSet(ToMake),
         Cardinality(ToMake) =< Cardinality(Free),
         ToMake' = ToMake \ {i}, Free \ {p} \subseteq Free'
  PROVE  /\ IsFiniteSet(ToMake')
         /\ Cardinality(ToMake') =< Cardinality(Free')
<1>1. /\ IsFiniteSet(ToMake \ {i}) /\ Cardinality(ToMake \ {i}) = Cardinality(ToMake) - 1
      /\ Cardinality(ToMake) \in Nat
  BY FS_RemoveElement, FS_CardinalityType
<1>2. Cardinality(Free \ {p}) >= Cardinality(Free) - 1
  <2>1. IsFiniteSet(Free) /\ Cardinality(Free) \in Nat
    BY FreeIsFinite
  <2>2. Cardinality(Free \ {p}) =
          IF p \in Free THEN Cardinality(Free) - 1 ELSE Cardinality(Free)
    BY <2>1, FS_RemoveElement
  <2> QED BY <2>1, <2>2
<1>3. Cardinality(Free \ {p}) =< Cardinality(Free') /\ Cardinality(Free \ {p}) \in Nat
  <2>1. Free \ {p} \in SUBSET Free'
    OBVIOUS
  <2>2. IsFiniteSet(Free \ {p})
    BY <2>1, FreeIsFinite, FS_Subset
  <2> QED BY <2>1, <2>2, FreeIsFinite, FS_Subset, FS_CardinalityType
<1>4. Cardinality(Free) \in Nat /\ Cardinality(Free') \in Nat
  BY FreeIsFinite
<1> QED BY <1>1, <1>2, <1>3, <1>4

\* Work that stays as it is finds no fewer QProcess objects.
LEMMA NoneTaken ==
  ASSUME Provided, reloading, ToMake' = ToMake, Free \subseteq Free'
  PROVE  /\ IsFiniteSet(ToMake')
         /\ Cardinality(ToMake') =< Cardinality(Free')
<1>1. IsFiniteSet(ToMake) /\ Cardinality(ToMake) =< Cardinality(Free)
  BY DEF Provided
<1>2. Cardinality(ToMake) \in Nat
  BY <1>1, FS_CardinalityType
<1>3. Cardinality(Free) =< Cardinality(Free')
  <2>1. Free \in SUBSET Free'
    OBVIOUS
  <2> QED BY <2>1, FreeIsFinite, FS_Subset
<1> QED BY <1>1, <1>2, <1>3, FreeIsFinite

\* A step outside the lists of work that refers to no new QProcess and submits
\* no job.
LEMMA StillProvided ==
  ASSUME Provided, UNCHANGED <<reloading, toAdd, toModify, toRemove, mounts>>,
         Free \subseteq Free', \A j \in Jobs : Active(j)' => Active(j)
  PROVE  Provided'
<1>1. ToMake' = ToMake
  BY DEF ToMake
<1> QED BY <1>1, NoneTaken DEF Provided, UuidsOf, InfosOf

\* The steps of the jobs and of the rest of the daemon.
LEMMA NextProvided == IInv /\ Provided /\ [Next]_vars => Provided'
<1> SUFFICES ASSUME IInv, Provided, [Next]_vars PROVE Provided'
  OBVIOUS
<1>0. TypeOK /\ OneEntryPerProcess /\ ReloadInv
  BY DEF IInv
<1>1. CASE UNCHANGED <<reloading, toAdd, toModify, toRemove, mounts, copy, jpc>>
  <2>1. Free \subseteq Free'
    BY <1>1 DEF Free, HeldBy
  <2> QED BY <1>1, <2>1, StillProvided DEF Active
<1>2. CASE ~reloading'
  BY <1>2 DEF Provided
<1>3. CASE BeginReload
  <2>1. /\ toAdd' = Added(settings) /\ toModify' = Modified(settings)
        /\ toRemove' = Removed(settings)
        /\ UNCHANGED <<mounts, copy, jpc>>
        /\ \E j \in Jobs : ~Active(j)
        /\ Cardinality(Added(settings) \cup Modified(settings)) =< Cardinality(Free)
    BY <1>3 DEF BeginReload, jobVars
  <2>2. Free' = Free /\ ToMake' = Added(settings) \cup Modified(settings)
    BY <2>1 DEF Free, HeldBy, ToMake
  <2>3. IsFiniteSet(ToMake')
    <3>1. ToMake' \in SUBSET settings
      BY <2>2 DEF Added, Modified
    <3>2. IsFiniteSet(settings)
      BY <1>0, SettingsAssumption DEF SettingsAssumption, TypeOK
    <3> QED BY <3>1, <3>2, FS_Subset
  <2>4. /\ toRemove' \subseteq InfosOf(mounts')
        /\ UuidsOf(toModify') \subseteq UuidsOf(InfosOf(mounts'))
    BY <2>1 DEF Removed, Modified, UuidsOf, InfosOf
  <2>5. \E j \in Jobs : ~Active(j)'
    BY <2>1 DEF Active
  <2>6. Cardinality(ToMake') =< Cardinality(Free')
    BY <2>1, <2>2
  <2> QED BY <2>3, <2>4, <2>5, <2>6 DEF Provided, UuidsOf, InfosOf, Active
<1>4. ASSUME NEW m \in mounts, RemoveMount(m) PROVE Provided'
  <2>1. /\ reloading /\ toRemove' = toRemove \ {m.info} /\ mounts' = mounts \ {m}
        /\ m.info \in toRemove
        /\ UNCHANGED <<toAdd, toModify, copy, jpc>>
    BY <1>4 DEF RemoveMount, jobVars
  <2>2. WorkLeft /\ toModify \subseteq loaded
    BY <1>0, <2>1 DEF ReloadInv
  <2>3. Free \subseteq Free' /\ ToMake' = ToMake
    BY <2>1 DEF Free, HeldBy, ToMake
  <2>4. toRemove' \subseteq InfosOf(mounts')
    BY <2>1 DEF Provided, InfosOf
  <2>5. UuidsOf(toModify') \subseteq UuidsOf(InfosOf(mounts'))
    <3>1. \A i \in toModify : i.uuid # m.info.uuid
      BY <2>1, <2>2 DEF WorkLeft, UuidsOf
    <3>2. \A i \in toModify : \E n \in mounts : n.info.uuid = i.uuid
      BY <2>1 DEF Provided, UuidsOf, InfosOf
    <3>3. \A i \in toModify : \E n \in mounts \ {m} : n.info.uuid = i.uuid
      BY <3>1, <3>2
    <3> QED BY <2>1, <3>3 DEF UuidsOf, InfosOf
  <2> QED BY <2>1, <2>3, <2>4, <2>5, NoneTaken DEF Provided, UuidsOf, InfosOf, Active
<1>5. ASSUME NEW i \in toAdd, NEW p \in Procs, AddMount(i, p) PROVE Provided'
  <2> DEFINE e == [proc |-> p, info |-> i]
  <2>1. /\ reloading /\ toAdd' = toAdd \ {i} /\ mounts' = mounts \cup {e}
        /\ UNCHANGED <<toModify, toRemove, copy, jpc>>
    BY <1>5 DEF AddMount, jobVars
  <2>2. e.proc = p
    OBVIOUS
  <2> HIDE DEF e
  <2>3. i \notin toModify
    BY <1>0, <2>1 DEF ReloadInv, WorkLeft, Provided, UuidsOf, InfosOf
  <2>4. ToMake' = ToMake \ {i} /\ i \in ToMake
    BY <2>1, <2>3 DEF ToMake
  <2>5. Free \ {p} \subseteq Free'
    BY <2>1, <2>2 DEF Free, HeldBy
  <2>6. IsFiniteSet(ToMake') /\ Cardinality(ToMake') =< Cardinality(Free')
    BY <2>1, <2>4, <2>5, OneTaken DEF Provided
  <2> QED BY <2>1, <2>6 DEF Provided, UuidsOf, InfosOf, Active
<1>6. ASSUME NEW i \in toModify, NEW m \in mounts, NEW p \in Procs, ModifyMount(i, m, p)
      PROVE Provided'
  <2> DEFINE e == [proc |-> p, info |-> i]
  <2>1. /\ reloading /\ toAdd = {} /\ toRemove = {} /\ toModify' = toModify \ {i}
        /\ mounts' = (mounts \ {m}) \cup {e} /\ m.info.uuid = i.uuid
        /\ UNCHANGED <<toAdd, toRemove, copy, jpc>>
    BY <1>6 DEF ModifyMount, jobVars
  <2>2. e.proc = p /\ e.info.uuid = m.info.uuid
    BY <2>1
  <2> HIDE DEF e
  <2>3. ToMake' = ToMake \ {i} /\ i \in ToMake
    BY <2>1 DEF ToMake
  <2>4. Free \ {p} \subseteq Free'
    BY <2>1, <2>2 DEF Free, HeldBy
  <2>5. IsFiniteSet(ToMake') /\ Cardinality(ToMake') =< Cardinality(Free')
    BY <2>1, <2>3, <2>4, OneTaken DEF Provided
  <2>6. UuidsOf(InfosOf(mounts)) \subseteq UuidsOf(InfosOf(mounts'))
    BY <2>1, <2>2 DEF UuidsOf, InfosOf
  <2> QED BY <2>1, <2>5, <2>6 DEF Provided, UuidsOf, InfosOf, Active
<1>7. ASSUME NEW j \in Jobs, HandleMount(j) \/ JobStep(j) PROVE Provided'
  <2>1. UNCHANGED <<reloading, toAdd, toModify, toRemove, mounts>>
    BY <1>7 DEF HandleMount, JobStep, SetFlag, CopyMounts, MountAllStep, CheckRead,
                CheckSend, CheckTest, EndJob, jobOnly, listVars
  <2>2. \A k \in Jobs : Active(k)' => Active(k)
    BY <1>0, <1>7 DEF HandleMount, JobStep, SetFlag, CopyMounts, MountAllStep, CheckRead,
                      CheckSend, CheckTest, EndJob, Active, TypeOK
  <2>3. \A k \in Jobs : copy'[k] \in {copy[k], mounts, {}}
    BY <1>0, <1>7 DEF HandleMount, JobStep, SetFlag, CopyMounts, MountAllStep, CheckRead,
                      CheckSend, CheckTest, EndJob, TypeOK
  <2>4. Free \subseteq Free'
    BY <2>1, <2>3 DEF Free, HeldBy
  <2> QED BY <2>1, <2>2, <2>4, StillProvided
<1>8. ASSUME NEW j \in Jobs, Tick(j) PROVE Provided'
  BY <1>2, <1>8 DEF Tick, Dispatching
<1>9. ASSUME NEW j \in Jobs, FinishReload(j) PROVE Provided'
  BY <1>2, <1>9 DEF FinishReload
<1>10. CASE EndStop
  BY <1>2, <1>10 DEF EndStop
<1> QED
  BY <1>1, <1>3, <1>4, <1>5, <1>6, <1>7, <1>8, <1>9, <1>10
  DEF Next, ReloadStep, StopStep, Save, StartCommand, HandleCommand, BeginStop,
      CloseMount, BeginDrain, NoticeExit, ChildReady, ChildExit, Ended, childOnly,
      jobVars, listVars, vars

\* A reload that is provided for has a step to take.
LEMMA ProvidedGoesOn == IInv /\ Provided => ReloadGoesOn
<1> SUFFICES ASSUME Provided, reloading PROVE ReloadGoesOn
  BY DEF ReloadGoesOn
<1>1. CASE toRemove # {}
  BY <1>1 DEF Provided, ReloadGoesOn, InfosOf
<1>2. ASSUME ToMake # {} PROVE Free # {}
  <2>1. Cardinality(ToMake) # 0 /\ Cardinality(ToMake) \in Nat
    BY <1>2, FS_EmptySet, FS_CardinalityType DEF Provided
  <2>2. Cardinality(Free) # 0
    BY <2>1, FreeIsFinite DEF Provided
  <2> QED BY <2>2, FS_EmptySet
<1>3. CASE toRemove = {} /\ toAdd # {}
  BY <1>2, <1>3 DEF ToMake, ReloadGoesOn
<1>4. CASE toRemove = {} /\ toAdd = {} /\ toModify # {}
  <2>1. \E i \in toModify, m \in mounts : m.info.uuid = i.uuid
    BY <1>4 DEF Provided, UuidsOf, InfosOf
  <2> QED BY <1>2, <1>4, <2>1 DEF ToMake, ReloadGoesOn
<1>5. CASE toRemove = {} /\ toAdd = {} /\ toModify = {}
  BY <1>5 DEF Provided, ReloadGoesOn
<1> QED BY <1>1, <1>3, <1>4, <1>5

\* For any number of mounts, jobs and QProcess objects, reloadMounts is never
\* stuck, and remove and modify find the entry of each element of their lists.
THEOREM ReloadIsNeverStuck == Spec => []ReloadGoesOn
<1>1. Init => Provided
  BY DEF Init, Provided
<1> QED BY <1>1, Invariance, NextProvided, ProvidedGoesOn, PTL DEF Spec
=============================================================================
