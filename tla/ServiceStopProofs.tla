-------------------------- MODULE ServiceStopProofs --------------------------
(***************************************************************************)
(* Proofs about ServiceStop, for any number of mounts and of mounts that a *)
(* reload adds, and however long a killed child takes to end.              *)
(***************************************************************************)
EXTENDS ServiceStop, FiniteSetTheorems, TLAPS

Deleting == \E i \in DOMAIN queue : queue[i] = "delete"

Destructor == {"closing", "draining", "joining", "deleting", "ending"}

\* Where the thread may be, by what the service control manager was told.
PlaceInv ==
  /\ scm \in {"stopped", "aborted"} => daemon = "none"
  /\ scm = "running" => daemon # "none"
  /\ scm # "stopping" => waited = 0 /\ ~Deleting /\ daemon \notin Destructor
  /\ daemon = "none" => busy = 0
  /\ daemon = "ending" => ~server
  /\ daemon \in {"ending", "none"} => queue = <<>> /\ \A m \in Mounts : ~Alive(m)
  /\ cur # NoMount => daemon = "closing" /\ cur \notin todo
  /\ orphans # {} => fatal
  /\ daemon = "deleting" /\ server => joined = ServerWait

(***************************************************************************)
(* The account of the half seconds of a stop: each was spent in a reload,  *)
(* in the wait of a start or on what was killed, or on a child, on each    *)
(* child once and on one at most four, or on the thread of the Server.     *)
(***************************************************************************)
TimeInv ==
  /\ cur = NoMount => grace = 0
  /\ daemon \in {"closing", "joining"} => busy = 0
  /\ scm = "stopping" =>
       /\ daemon \in {"reloading", "idle"} => slow = {} /\ Deleting
       /\ daemon \in Destructor => slow \cap todo = {}
       /\ cur # NoMount /\ cur \notin slow => grace = 0
       /\ waited <= late + CloseWait * Cardinality(slow \ {cur}) + grace + joined

IInv == TypeOK /\ PlaceInv /\ TimeInv /\ AbortHasCause

-----------------------------------------------------------------------------
(* Facts.                                                                  *)

Events == {"reload", "delete"}

\* A queue that gets an event at its end, or gives up the one at its head.
LEMMA QueueFacts ==
  ASSUME NEW q \in Seq(Events), NEW e \in Events
  PROVE  /\ Append(q, e) \in Seq(Events)
         /\ (\E i \in DOMAIN Append(q, e) : Append(q, e)[i] = "delete")
              <=> (e = "delete" \/ \E i \in DOMAIN q : q[i] = "delete")
<1>1. Len(q) \in Nat /\ DOMAIN q = 1..Len(q)
  OBVIOUS
<1>2. /\ Append(q, e) \in Seq(Events) /\ DOMAIN Append(q, e) = 1..(Len(q) + 1)
      /\ \A i \in 1..Len(q) : Append(q, e)[i] = q[i]
      /\ Append(q, e)[Len(q) + 1] = e
  BY <1>1
<1>3. \A i \in 1..(Len(q) + 1) : i \in 1..Len(q) \/ i = Len(q) + 1
  BY <1>1
<1>4. \A i \in 1..Len(q) : i \in 1..(Len(q) + 1)
  BY <1>1
<1>5. Len(q) + 1 \in 1..(Len(q) + 1)
  BY <1>1
<1> QED BY <1>1, <1>2, <1>3, <1>4, <1>5

\* What is left of a queue when a reload at its head is taken.
LEMMA TailFacts ==
  ASSUME NEW q \in Seq(Events), q # <<>>
  PROVE  /\ Tail(q) \in Seq(Events)
         /\ (\E i \in DOMAIN Tail(q) : Tail(q)[i] = "delete")
              => \E i \in DOMAIN q : q[i] = "delete"
         /\ Head(q) = "reload" =>
              ((\E i \in DOMAIN q : q[i] = "delete")
                 => \E i \in DOMAIN Tail(q) : Tail(q)[i] = "delete")
<1>1. Len(q) \in Nat \ {0} /\ DOMAIN q = 1..Len(q)
  OBVIOUS
<1>2. /\ Tail(q) \in Seq(Events) /\ DOMAIN Tail(q) = 1..(Len(q) - 1)
      /\ \A i \in 1..(Len(q) - 1) : Tail(q)[i] = q[i + 1]
  BY <1>1
<1>3. Head(q) = q[1]
  BY <1>1
<1>4. \A i \in 1..(Len(q) - 1) : i + 1 \in 1..Len(q)
  BY <1>1
<1>5. \A i \in 1..Len(q) : i = 1 \/ (i - 1 \in 1..(Len(q) - 1) /\ (i - 1) + 1 = i)
  BY <1>1
<1> QED BY <1>1, <1>2, <1>3, <1>4, <1>5

\* The mounts of a set but for one.
LEMMA ButOne ==
  ASSUME NEW S \in SUBSET Mounts, NEW m
  PROVE  /\ Cardinality(S) \in Nat /\ Cardinality(S \ {m}) \in Nat
         /\ m \in S => Cardinality(S) = Cardinality(S \ {m}) + 1
         /\ m \notin S => S \ {m} = S
<1>1. IsFiniteSet(S)
  BY ServiceStopAssumption, FS_Subset DEF ServiceStopAssumption
<1>2. Cardinality(S) \in Nat /\ Cardinality(S \ {m}) \in Nat
  BY <1>1, FS_CardinalityType, FS_RemoveElement
<1>3. m \in S => Cardinality(S \ {m}) = Cardinality(S) - 1
  BY <1>1, FS_RemoveElement
<1> QED BY <1>2, <1>3

-----------------------------------------------------------------------------
(* Type correctness.                                                       *)

\* Time stops at the limits of both waits.
LEMMA TickType == TypeOK /\ PlaceInv /\ Tick => TypeOK'
<1> SUFFICES ASSUME TypeOK, PlaceInv, Tick PROVE TypeOK'
  OBVIOUS
<1>1. grace' \in 0..CloseWait
  <2>1. CASE cur = NoMount
    BY <2>1 DEF Tick, TypeOK
  <2>2. CASE cur # NoMount
    <3>1. grace # CloseWait
      BY <2>2 DEF PlaceInv, Tick, Urgent
    <3> QED BY <2>2, <3>1 DEF Tick, TypeOK, CloseWait
  <2> QED BY <2>1, <2>2
<1>2. waited' \in 0..StopWait
  <2>1. CASE scm # "stopping"
    BY <2>1 DEF Tick, TypeOK
  <2>2. CASE scm = "stopping"
    <3>1. waited # StopWait
      BY <2>2 DEF Tick, Urgent
    <3> QED BY <2>2, <3>1 DEF Tick, TypeOK, StopWait
  <2> QED BY <2>1, <2>2
<1>3. busy' \in Nat /\ late' \in Nat
  BY DEF Tick, TypeOK
<1>5. joined' \in 0..ServerWait
  <2>1. CASE daemon = "joining"
    <3>1. joined # ServerWait
      BY <2>1 DEF Tick, Urgent
    <3> QED BY <2>1, <3>1 DEF Tick, TypeOK, ServerWait
  <2>2. CASE daemon # "joining"
    BY <2>2 DEF Tick, TypeOK
  <2> QED BY <2>1, <2>2
<1>4. slow' \subseteq Mounts
  BY DEF Tick, TypeOK
<1> QED BY <1>1, <1>2, <1>3, <1>4, <1>5 DEF Tick, TypeOK

\* Every step keeps the types.
LEMMA NextType == TypeOK /\ PlaceInv /\ [Next]_vars => TypeOK'
<1> SUFFICES ASSUME TypeOK, PlaceInv, [Next]_vars PROVE TypeOK'
  OBVIOUS
<1> USE DEF TypeOK, wrapper, thread, history, StopWait, CloseWait, ServerWait, AddWait, StartWait
<1>1. CASE Start
  <2>1. Cardinality(Mounts) \in Nat
    BY ServiceStopAssumption, FS_CardinalityType DEF ServiceStopAssumption
  <2> QED BY <1>1, <2>1 DEF Start
<1>2. CASE BeginStop \/ RequestReload
  <2>1. queue' \in Seq(Events)
    BY <1>2, QueueFacts DEF BeginStop, RequestReload, Events
  <2> QED BY <1>2, <2>1 DEF BeginStop, RequestReload, Events
<1>3. CASE \/ EndStop \/ EndFirstReload \/ BeginDrain \/ BeginJoin \/ EndJoin
           \/ ServerEnds \/ EndThread
  <2>1. CASE EndStop
    BY <2>1 DEF EndStop
  <2>2. CASE EndFirstReload
    BY <2>2 DEF EndFirstReload
  <2>3. CASE BeginDrain
    BY <2>3 DEF BeginDrain, Proceed
  <2>4. CASE BeginJoin
    BY <2>4 DEF BeginJoin, Proceed
  <2>5. CASE EndJoin
    BY <2>5 DEF EndJoin, Proceed
  <2>6. CASE ServerEnds
    BY <2>6 DEF ServerEnds
  <2>7. CASE EndThread
    BY <2>7 DEF EndThread, Proceed
  <2> QED BY <1>3, <2>1, <2>2, <2>3, <2>4, <2>5, <2>6, <2>7
<1>4. CASE Abort \/ EndDestructor
  <2>1. CASE Abort
    BY <2>1 DEF Abort, Fatal
  <2>2. CASE EndDestructor /\ server
    BY <2>2 DEF EndDestructor, Fatal
  <2>3. CASE EndDestructor /\ ~server
    <3>1. busy' \in Nat
      BY <2>3, ServiceStopAssumption DEF EndDestructor, ServiceStopAssumption
    <3> QED BY <2>3, <3>1 DEF EndDestructor
  <2> QED BY <1>4, <2>1, <2>2, <2>3
<1>5. CASE BeginReload \/ BeginDestructor
  <2>1. queue' \in Seq(Events)
    BY <1>5, TailFacts DEF BeginReload, BeginDestructor, Events
  <2>2. \A adds \in 0..MaxAdds, dying \in 0..MaxDying : AddWait * adds + dying \in Nat
    BY ServiceStopAssumption DEF ServiceStopAssumption
  <2> QED BY <1>5, <2>1, <2>2 DEF BeginReload, BeginDestructor, Events
<1>6. CASE EndWait
  BY <1>6 DEF EndWait
<1>7. ASSUME NEW m \in Mounts,
             WaitForChild(m) \/ StartChild(m) \/ ChildReady(m) \/ ChildExit(m)
               \/ OrphanExit(m)
      PROVE  TypeOK'
  BY <1>7 DEF WaitForChild, StartChild, ChildReady, ChildExit, OrphanExit
<1>8. CASE Tick
  BY <1>8, TickType
<1>9. CASE UNCHANGED vars
  BY <1>9 DEF vars
<1> QED BY <1>1, <1>2, <1>3, <1>4, <1>5, <1>6, <1>7, <1>8, <1>9 DEF Next, DaemonThread

-----------------------------------------------------------------------------
(* Where the thread is.                                                    *)

\* Every step keeps the thread in a place that fits the service.
LEMMA NextPlace == TypeOK /\ PlaceInv /\ [Next]_vars => PlaceInv'
<1> SUFFICES ASSUME TypeOK, PlaceInv, [Next]_vars PROVE PlaceInv'
  OBVIOUS
<1> USE DEF TypeOK, PlaceInv, wrapper, thread, history, Alive, Dispatching, Destructor
<1>1. CASE Start
  BY <1>1 DEF Start, Deleting
<1>2. CASE BeginStop
  BY <1>2 DEF BeginStop
<1>3. CASE RequestReload
  <2>1. Deleting' <=> Deleting
    BY <1>3, QueueFacts DEF RequestReload, Events, Deleting
  <2> QED BY <1>3, <2>1 DEF RequestReload
<1>4. CASE EndStop
  BY <1>4 DEF EndStop, Deleting
<1>5. CASE EndDestructor
  BY <1>5 DEF EndDestructor, Fatal, Deleting
<1>6. CASE Abort
  BY <1>6 DEF Abort, Fatal, Deleting
<1>7. CASE BeginReload
  <2>1. Deleting' => Deleting
    BY <1>7, TailFacts DEF BeginReload, Events, Deleting
  <2> QED BY <1>7, <2>1 DEF BeginReload
<1>8. CASE BeginDestructor
  <2>1. Deleting
    BY <1>8 DEF BeginDestructor, Deleting
  <2> QED BY <1>8, <2>1 DEF BeginDestructor
<1>9. CASE EndFirstReload
  BY <1>9 DEF EndFirstReload, Deleting
<1>10. CASE EndWait
  BY <1>10 DEF EndWait, Deleting
<1>16. CASE BeginDrain \/ BeginJoin \/ EndJoin \/ ServerEnds
  BY <1>16 DEF BeginDrain, BeginJoin, EndJoin, Proceed, ServerEnds, Deleting
<1>17. CASE EndThread
  BY <1>17 DEF EndThread, Proceed, Deleting
<1>11. ASSUME NEW m \in Mounts, WaitForChild(m) PROVE PlaceInv'
  BY <1>11 DEF WaitForChild, Deleting
<1>12. ASSUME NEW m \in Mounts, StartChild(m) \/ ChildReady(m) \/ ChildExit(m)
       PROVE  PlaceInv'
  BY <1>12 DEF StartChild, ChildReady, ChildExit, Deleting
<1>13. ASSUME NEW m \in Mounts, OrphanExit(m) PROVE PlaceInv'
  BY <1>13 DEF OrphanExit, Deleting
<1>14. CASE Tick
  BY <1>14 DEF Tick, Urgent, Deleting
<1>15. CASE UNCHANGED vars
  BY <1>15 DEF vars, Deleting
<1> QED BY <1>1, <1>2, <1>3, <1>4, <1>5, <1>6, <1>7, <1>8, <1>9, <1>10, <1>11, <1>12,
           <1>13, <1>14, <1>15, <1>16, <1>17 DEF Next, DaemonThread

-----------------------------------------------------------------------------
(* The account of the seconds.                                             *)

\* The numbers of the account.
LEMMA TimeType ==
  ASSUME TypeOK
  PROVE  /\ waited \in Nat /\ late \in Nat /\ grace \in Nat /\ joined \in Nat
         /\ grace <= CloseWait
         /\ slow \in SUBSET Mounts
         /\ Cardinality(slow) \in Nat /\ Cardinality(slow \ {cur}) \in Nat
<1>1. slow \in SUBSET Mounts
  BY DEF TypeOK
<1>2. Cardinality(slow) \in Nat /\ Cardinality(slow \ {cur}) \in Nat
  BY <1>1, ButOne
<1> QED BY <1>1, <1>2 DEF TypeOK, StopWait, CloseWait, ServerWait

\* Half a second of a stop is one of a sleep or a start, or of waiting for a
\* child, or for the thread of the Server.
LEMMA TickTime == TypeOK /\ PlaceInv /\ TimeInv /\ Tick => TimeInv'
<1> SUFFICES ASSUME TypeOK, PlaceInv, TimeInv, Tick PROVE TimeInv'
  OBVIOUS
<1>1. UNCHANGED <<scm, daemon, queue, todo, cur>>
  BY DEF Tick
<1>2. /\ cur = NoMount => grace' = 0
      /\ daemon \in {"closing", "joining"} => busy' = 0
  BY DEF Tick, TimeInv
<1> DEFINE n == Cardinality(slow \ {cur})
<1>3. n \in Nat /\ waited \in Nat /\ late \in Nat /\ grace \in Nat /\ joined \in Nat
  BY TimeType
<1>4. scm = "stopping" => waited <= late + CloseWait * n + grace + joined
  BY DEF TimeInv
<1> HIDE DEF n
<1>5. Deleting' <=> Deleting
  BY <1>1 DEF Deleting
<1>6. ASSUME scm = "stopping", busy > 0
      PROVE  TimeInv'
  <2>1. cur = NoMount /\ daemon \notin {"closing", "joining"} /\ grace = 0
    BY <1>6 DEF TimeInv, PlaceInv, TypeOK
  <2>2. /\ slow' = slow /\ late' = late + 1 /\ grace' = grace /\ waited' = waited + 1
        /\ joined' = joined
    BY <1>6, <2>1 DEF Tick
  <2>3. waited' <= late' + CloseWait * n + grace' + joined'
    BY <1>3, <1>4, <1>6, <2>2 DEF CloseWait
  <2>4. waited' <= late' + CloseWait * Cardinality(slow' \ {cur'}) + grace' + joined'
    BY <1>1, <2>2, <2>3 DEF n
  <2> QED BY <1>1, <1>2, <1>5, <1>6, <2>1, <2>2, <2>4 DEF TimeInv
<1>7. ASSUME scm = "stopping", ~(busy > 0)
      PROVE  TimeInv'
  <2>1. busy = 0 /\ daemon # "none"
    BY <1>7 DEF Tick, Urgent, TypeOK
  <2>2. \/ daemon = "closing" /\ cur \in Mounts /\ cur # NoMount
        \/ daemon = "joining" /\ cur = NoMount
    <3>1. daemon \notin {"reloading", "draining", "deleting", "ending"}
      BY <2>1 DEF Tick, Urgent
    <3>2. daemon = "idle" => Deleting
      BY <1>7 DEF TimeInv
    <3>3. Deleting => queue # <<>>
      BY DEF Deleting
    <3>4. daemon # "idle"
      BY <2>1, <3>2, <3>3 DEF Tick, Urgent
    <3> QED BY <2>1, <3>1, <3>4 DEF Tick, Urgent, TypeOK, PlaceInv
  <2>3. CASE daemon = "closing"
    <3>1. cur \in Mounts /\ cur # NoMount
      BY <2>2, <2>3
    <3>2. /\ slow' = slow \cup {cur} /\ late' = late /\ grace' = grace + 1
          /\ waited' = waited + 1 /\ joined' = joined
      BY <1>7, <2>3, <3>1 DEF Tick
    <3>3. slow' \ {cur'} = slow \ {cur}
      BY <1>1, <3>2
    <3>4. waited' <= late' + CloseWait * n + grace' + joined'
      BY <1>3, <1>4, <1>7, <3>2 DEF CloseWait
    <3>5. waited' <= late' + CloseWait * Cardinality(slow' \ {cur'}) + grace' + joined'
      BY <3>3, <3>4 DEF n
    <3>6. slow' \cap todo' = {}
      <4>1. slow \cap todo = {} /\ cur \notin todo
        BY <1>7, <2>3, <3>1 DEF TimeInv, PlaceInv, Destructor
      <4> QED BY <1>1, <3>2, <4>1
    <3>7. daemon' = "closing" /\ cur' \in slow' /\ cur' # NoMount
      BY <1>1, <2>3, <3>1, <3>2
    <3> QED BY <1>1, <1>2, <3>5, <3>6, <3>7 DEF TimeInv
  <2>4. CASE daemon = "joining"
    <3>1. cur = NoMount /\ grace = 0
      BY <2>2, <2>4 DEF TimeInv
    <3>2. /\ slow' = slow /\ late' = late /\ grace' = grace /\ waited' = waited + 1
          /\ joined' = joined + 1
      BY <1>7, <2>4, <3>1 DEF Tick
    <3>3. waited' <= late' + CloseWait * n + grace' + joined'
      BY <1>3, <1>4, <1>7, <3>2 DEF CloseWait
    <3>4. waited' <= late' + CloseWait * Cardinality(slow' \ {cur'}) + grace' + joined'
      BY <1>1, <3>2, <3>3 DEF n
    <3> QED BY <1>1, <1>2, <1>5, <1>7, <2>4, <3>1, <3>2, <3>4 DEF TimeInv
  <2> QED BY <2>2, <2>3, <2>4
<1>8. CASE scm # "stopping"
  BY <1>1, <1>2, <1>8 DEF TimeInv
<1> QED BY <1>6, <1>7, <1>8

\* A child the destructor has waited for is left, killed or finished.
LEMMA EndWaitTime == TypeOK /\ PlaceInv /\ TimeInv /\ EndWait => TimeInv'
<1> SUFFICES ASSUME TypeOK, PlaceInv, TimeInv, EndWait PROVE TimeInv'
  OBVIOUS
<1>1. /\ daemon = "closing" /\ cur' = NoMount /\ grace' = 0
      /\ UNCHANGED <<scm, waited, daemon, queue, busy, todo, joined, late, slow>>
  BY DEF EndWait, wrapper, history
<1>2. ASSUME scm = "stopping"
      PROVE  waited' <= late' + CloseWait * Cardinality(slow' \ {cur'}) + grace' + joined'
  <2> DEFINE n == Cardinality(slow \ {cur})
             k == Cardinality(slow)
  <2>1. /\ n \in Nat /\ k \in Nat /\ waited \in Nat /\ late \in Nat /\ joined \in Nat
        /\ grace \in Nat /\ grace <= CloseWait
    BY TimeType
  <2>2. waited <= late + CloseWait * n + grace + joined
    BY <1>2 DEF TimeInv
  <2>3. (cur \in slow => k = n + 1) /\ (cur \notin slow => k = n)
    BY ButOne DEF TypeOK
  <2>4. cur \notin slow => grace = 0
    BY <1>2 DEF TimeInv
  <2>5. slow' \ {cur'} = slow
    BY <1>1, ServiceStopAssumption DEF TypeOK, ServiceStopAssumption
  <2> HIDE DEF n, k
  <2>6. waited <= late + CloseWait * k + joined
    BY <2>1, <2>2, <2>3, <2>4 DEF CloseWait
  <2>7. waited' <= late' + CloseWait * k + grace' + joined'
    BY <1>1, <2>1, <2>6 DEF CloseWait
  <2> QED BY <2>5, <2>7 DEF k
<1> QED BY <1>1, <1>2 DEF TimeInv, Deleting

\* A step that leaves the clocks alone leaves the account as it is.
LEMMA SameTime ==
  ASSUME TimeInv, UNCHANGED <<scm, waited, grace, joined, cur, late, slow>>,
         daemon' \in {"closing", "joining"} => busy' = 0,
         scm = "stopping" =>
           /\ daemon' \in {"reloading", "idle"} => slow = {} /\ Deleting'
           /\ daemon' \in Destructor => slow \cap todo' = {}
  PROVE  TimeInv'
BY DEF TimeInv

\* Every step keeps the account.
LEMMA NextTime == TypeOK /\ PlaceInv /\ TimeInv /\ [Next]_vars => TimeInv'
<1> SUFFICES ASSUME TypeOK, PlaceInv, TimeInv, [Next]_vars PROVE TimeInv'
  OBVIOUS
<1> USE DEF wrapper, thread, history, Destructor, Dispatching
<1>1. CASE Start
  <2>1. scm' # "stopping" /\ daemon' \notin {"closing", "joining"} /\ UNCHANGED <<cur, grace>>
    BY <1>1 DEF Start
  <2> QED BY <2>1 DEF TimeInv
<1>2. CASE EndStop \/ Abort
  <2>1. /\ scm' # "stopping" /\ daemon' \notin {"closing", "joining"}
        /\ UNCHANGED <<cur, grace>> \/ grace' = 0
    BY <1>2 DEF EndStop, Abort, Fatal
  <2> QED BY <2>1 DEF TimeInv
<1>3. CASE BeginStop
  <2>1. Deleting'
    BY <1>3, QueueFacts DEF BeginStop, TypeOK, Events, Deleting
  <2>2. /\ waited' = 0 /\ slow' = {} /\ late' = 0 /\ daemon' \notin Destructor
        /\ cur' = NoMount /\ grace' = 0 /\ joined' = joined
    BY <1>3 DEF BeginStop, PlaceInv, TimeInv
  <2>3. Cardinality(slow' \ {cur'}) = 0
    <3>1. slow' \ {cur'} = {}
      BY <2>2
    <3> QED BY <3>1, FS_EmptySet
  <2>4. waited' <= late' + CloseWait * Cardinality(slow' \ {cur'}) + grace' + joined'
    <3>1. joined \in Nat
      BY TimeType
    <3> QED BY <2>2, <2>3, <3>1 DEF CloseWait
  <2> QED BY <2>1, <2>2, <2>4 DEF TimeInv
<1>4. CASE RequestReload
  <2>1. Deleting' <=> Deleting
    BY <1>4, QueueFacts DEF RequestReload, TypeOK, Events, Deleting
  <2> QED BY <1>4, <2>1, SameTime DEF RequestReload, TimeInv
<1>5. CASE BeginReload
  <2>1. Deleting => Deleting'
    BY <1>5, TailFacts DEF BeginReload, TypeOK, Events, Deleting
  <2> QED BY <1>5, <2>1, SameTime DEF BeginReload, TimeInv
<1>6. CASE EndFirstReload
  BY <1>6, SameTime DEF EndFirstReload, TimeInv, Deleting
<1>7. CASE BeginDestructor
  BY <1>7, SameTime DEF BeginDestructor, TimeInv
<1>8. ASSUME NEW m \in Mounts, WaitForChild(m) PROVE TimeInv'
  <2>1. /\ daemon = "closing" /\ m \in todo /\ todo' = todo \ {m} /\ grace' = 0
        /\ cur = NoMount /\ cur' \in {m, NoMount}
        /\ UNCHANGED <<scm, daemon, busy, joined, waited, slow, late>>
    BY <1>8 DEF WaitForChild
  <2>2. grace = 0
    BY <2>1 DEF TimeInv
  <2>3. ASSUME scm = "stopping"
        PROVE  /\ slow \cap todo' = {}
               /\ waited' <= late' + CloseWait * Cardinality(slow' \ {cur'}) + grace' + joined'
    <3>1. m \notin slow /\ slow \cap todo' = {}
      BY <2>1, <2>3 DEF TimeInv
    <3>2. slow' \ {cur'} = slow /\ slow \ {cur} = slow
      BY <2>1, <3>1, ServiceStopAssumption DEF ServiceStopAssumption, TypeOK
    <3>3. waited <= late + CloseWait * Cardinality(slow) + grace + joined
      BY <2>3, <3>2 DEF TimeInv
    <3> QED BY <2>1, <2>2, <3>1, <3>2, <3>3
  <2> QED BY <2>1, <2>3 DEF TimeInv
<1>9. CASE EndWait
  BY <1>9, EndWaitTime
<1>10. CASE BeginDrain \/ BeginJoin \/ EndJoin \/ ServerEnds \/ EndThread
  BY <1>10, SameTime
     DEF BeginDrain, BeginJoin, EndJoin, EndThread, Proceed, ServerEnds, TimeInv, Deleting
<1>11. CASE EndDestructor
  <2>1. CASE ~server
    BY <1>11, <2>1, SameTime DEF EndDestructor, TimeInv
  <2>2. CASE server
    <3>1. scm' # "stopping" /\ daemon' \notin {"closing", "joining"} /\ grace' = 0
      BY <1>11, <2>2 DEF EndDestructor, Fatal
    <3> QED BY <3>1 DEF TimeInv
  <2> QED BY <2>1, <2>2
<1>12. ASSUME NEW m \in Mounts, StartChild(m) PROVE TimeInv'
  BY <1>12, SameTime DEF StartChild, TimeInv, Deleting
<1>13. ASSUME NEW m \in Mounts, ChildReady(m) \/ ChildExit(m) \/ OrphanExit(m)
       PROVE  TimeInv'
  BY <1>13, SameTime DEF ChildReady, ChildExit, OrphanExit, TimeInv, Deleting
<1>14. CASE Tick
  BY <1>14, TickTime
<1>15. CASE UNCHANGED vars
  BY <1>15, SameTime DEF vars, TimeInv, Deleting
<1> QED BY <1>1, <1>2, <1>3, <1>4, <1>5, <1>6, <1>7, <1>8, <1>9, <1>10, <1>11, <1>12,
           <1>13, <1>14, <1>15 DEF Next, DaemonThread

\* The wait of stop is over: the account is that of its three seconds.
LEMMA AbortAccount ==
  IInv /\ Abort => late + CloseWait * Cardinality(slow) + joined >= 6
<1> SUFFICES ASSUME IInv, Abort
             PROVE  late + CloseWait * Cardinality(slow) + joined >= 6
  OBVIOUS
<1>1. TypeOK /\ TimeInv /\ waited = 6 /\ scm = "stopping"
  BY DEF IInv, Abort, StopWait
<1> DEFINE n == Cardinality(slow \ {cur})
           k == Cardinality(slow)
<1>2. /\ n \in Nat /\ k \in Nat /\ late \in Nat /\ joined \in Nat
      /\ grace \in Nat /\ grace <= CloseWait
  BY <1>1, TimeType
<1>3. waited <= late + CloseWait * n + grace + joined
  BY <1>1 DEF TimeInv
<1>4. (cur \in slow => k = n + 1) /\ (cur \notin slow => k = n)
  BY <1>1, ButOne DEF TypeOK
<1>5. cur \notin slow => grace = 0
  BY <1>1 DEF TimeInv
<1> HIDE DEF n, k
<1>6. late + CloseWait * k + joined >= 6
  BY <1>1, <1>2, <1>3, <1>4, <1>5 DEF CloseWait
<1> QED BY <1>6 DEF k

\* qFatal comes after three seconds, or of a Server's thread that still runs.
LEMMA NextAbort == IInv /\ [Next]_vars => AbortHasCause'
<1> SUFFICES ASSUME IInv, [Next]_vars, scm' = "aborted" PROVE AbortHasCause'
  BY DEF AbortHasCause
<1> USE DEF wrapper, thread, history
<1>1. CASE Abort
  <2>1. UNCHANGED <<late, slow, joined>>
    BY <1>1 DEF Abort, Fatal
  <2>2. late + CloseWait * Cardinality(slow) + joined >= 6
    BY <1>1, AbortAccount
  <2> QED BY <2>1, <2>2 DEF AbortHasCause, CloseWait
<1>2. CASE EndDestructor /\ server
  BY <1>2 DEF EndDestructor, Fatal, IInv, PlaceInv, AbortHasCause
<1>3. CASE ~Abort /\ ~(EndDestructor /\ server)
  <2> USE DEF IInv, PlaceInv, Destructor, Dispatching
  <2>1. scm = "aborted" /\ daemon = "none" /\ cur = NoMount
    BY <1>3 DEF Next, DaemonThread, Start, BeginStop, EndStop, BeginReload, EndFirstReload,
                BeginDestructor, WaitForChild, EndWait, BeginDrain, BeginJoin, EndJoin,
                Proceed, EndDestructor, EndThread, ServerEnds, RequestReload, StartChild,
                ChildReady, ChildExit, OrphanExit, Tick, vars
  <2>2. UNCHANGED <<late, slow, joined, server>>
    BY <1>3, <2>1
            DEF Next, DaemonThread, Start, BeginStop, EndStop, BeginReload, EndFirstReload,
                BeginDestructor, WaitForChild, EndWait, BeginDrain, BeginJoin, EndJoin,
                Proceed, EndDestructor, EndThread, ServerEnds, RequestReload, StartChild,
                ChildReady, ChildExit, OrphanExit, Tick, vars
  <2> QED BY <2>1, <2>2 DEF AbortHasCause
<1> QED BY <1>1, <1>2, <1>3

-----------------------------------------------------------------------------
(* The theorems.                                                           *)

\* The invariant holds before the service is started.
LEMMA InitIInv == Init => IInv
<1> SUFFICES ASSUME Init PROVE IInv
  OBVIOUS
<1>1. TypeOK
  <2>1. queue \in Seq({"reload", "delete"})
    BY DEF Init
  <2>2. waited \in 0..StopWait /\ grace \in 0..CloseWait /\ joined \in 0..ServerWait
    BY DEF Init, StopWait, CloseWait, ServerWait
  <2> QED BY <2>1, <2>2 DEF Init, TypeOK
<1>2. PlaceInv
  BY DEF Init, PlaceInv, Deleting, Alive, Destructor
<1>3. TimeInv /\ AbortHasCause
  BY DEF Init, TimeInv, AbortHasCause, Destructor
<1> QED BY <1>1, <1>2, <1>3 DEF IInv

\* The invariant of the stop: where the thread is, and the account of the time.
THEOREM Invariance == Spec => []IInv
<1>1. IInv /\ [Next]_vars => IInv'
  BY NextType, NextPlace, NextTime, NextAbort DEF IInv
<1> QED BY <1>1, InitIInv, PTL DEF Spec

\* The values of the state are of their types.
THEOREM TypeCorrect == Spec => []TypeOK
BY Invariance, PTL DEF IInv

\* However many mounts there are, seamless_smb_service::stop ends the program
\* by qFatal only if the thread of the Server outlasted the second the
\* destructor waits for it, or the sleeps of reloads, the waits of starts and of
\* what was killed, that wait, and two seconds for each child make up the three
\* seconds of stop.
THEOREM FatalHasCause == Spec => []AbortHasCause
BY Invariance, PTL DEF IInv

\* A stop that completes leaves no child, and none is left without a
\* supervisor but by qFatal.
THEOREM NoChildIsLeft == Spec => []StopLeavesNoChild
<1>1. IInv => StopLeavesNoChild
  BY DEF IInv, PlaceInv, StopLeavesNoChild
<1> QED BY <1>1, Invariance, PTL
=============================================================================
