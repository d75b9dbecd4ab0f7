------------------------- MODULE SecurityStoreProofs -------------------------
(***************************************************************************)
(* Proofs about SecurityStore, for every value of its constants.           *)
(***************************************************************************)
EXTENDS SecurityStore, TLAPS

\* The objects of the list.
Listed == {filenodes[k] : k \in DOMAIN filenodes}

(***************************************************************************)
(* What a thread in a callback may rely on: it has the filenode, nobody    *)
(* else refers to one that it is about to add, and between the read and    *)
(* the store it owns the filenode's mutex.                                 *)
(***************************************************************************)
ThreadInv ==
  \A t \in Threads :
    /\ pc[t] \in {"adding", "locking", "reading", "writing"} => found[t] \in Ids
    /\ pc[t] = "adding" =>
         /\ found[t] \notin Listed
         /\ \A s \in Threads \ {t} : found[s] # found[t]
    /\ pc[t] \in {"locking", "reading", "writing"} => change[t] \in Change
    /\ pc[t] \in {"reading", "writing"} => holder[found[t]] = t

IInv == TypeOK /\ ThreadInv /\ ReadIsFresh

-----------------------------------------------------------------------------
(* Facts about the operators.                                              *)

\* A filenode with no descriptor of its own is a filenode.
LEMMA BlankIsNode == Blank \in Node
BY PathsAssumption, ValuesAssumption DEF Blank, Node, PathsAssumption, ValuesAssumption

\* A filenode that gets a descriptor or a name keeps its other field.
LEMMA NodeFields ==
  /\ \A n \in Node : n.name \in Paths /\ n.sd \in Descriptor
  /\ \A n \in Node, d \in Descriptor :
       /\ [n EXCEPT !.sd = d] \in Node
       /\ [n EXCEPT !.sd = d].name = n.name /\ [n EXCEPT !.sd = d].sd = d
  /\ \A n \in Node, x \in Paths :
       /\ [n EXCEPT !.name = x] \in Node
       /\ [n EXCEPT !.name = x].name = x /\ [n EXCEPT !.name = x].sd = n.sd
BY DEF Node

\* Freeing objects leaves those that are referred to as they are.
LEMMA FreedFacts ==
  ASSUME NEW nodes \in [Ids -> Node], NEW list, NEW founds
  PROVE  /\ Freed(nodes, list, founds) \in [Ids -> Node]
         /\ \A i \in Ids : i \in Referred(list, founds)
                             => Freed(nodes, list, founds)[i] = nodes[i]
BY BlankIsNode DEF Freed

\* What is in the list and what a callback has found is referred to.
LEMMA ReferredFacts ==
  ASSUME NEW list, NEW founds
  PROVE  /\ \A k \in DOMAIN list : list[k] \in Referred(list, founds)
         /\ \A t \in Threads : founds[t] \in Referred(list, founds)
BY DEF Referred

\* Taking an element off a list moves those behind it one place forward.
LEMMA WithoutFacts ==
  ASSUME filenodes \in Seq(Ids), NEW i \in DOMAIN filenodes
  PROVE  /\ Without(i) \in Seq(Ids)
         /\ DOMAIN Without(i) = 1..(Len(filenodes) - 1)
         /\ \A k \in 1..(i - 1) : Without(i)[k] = filenodes[k]
         /\ \A k \in i..(Len(filenodes) - 1) : Without(i)[k] = filenodes[k + 1]
<1>1. Len(filenodes) \in Nat /\ DOMAIN filenodes = 1..Len(filenodes)
  OBVIOUS
<1>2. i \in 1..Len(filenodes)
  BY <1>1
<1> DEFINE n == Len(filenodes) - 1
<1>3. n \in Nat
  BY <1>1, <1>2
<1>4. \A k \in 1..n : (IF k < i THEN filenodes[k] ELSE filenodes[k + 1]) \in Ids
  BY <1>1, <1>2
<1>5. Without(i) = [k \in 1..n |-> IF k < i THEN filenodes[k] ELSE filenodes[k + 1]]
  BY DEF Without
<1>6. Without(i) \in [1..n -> Ids]
  BY <1>4, <1>5
<1>7. Without(i) \in Seq(Ids)
  BY <1>3, <1>6
<1> QED BY <1>1, <1>2, <1>3, <1>5, <1>7

-----------------------------------------------------------------------------
(* Type correctness.                                                       *)

\* A new list of filenodes that has each object once.
NoTwice(list) == \A i, k \in DOMAIN list : list[i] = list[k] => i = k

\* Taking one filenode off the list leaves a list that has each object once.
LEMMA WithoutTwice ==
  ASSUME filenodes \in Seq(Ids), NoTwice(filenodes), NEW i \in DOMAIN filenodes
  PROVE  NoTwice(Without(i)) /\ \A k \in DOMAIN Without(i) : Without(i)[k] \in Listed
<1>1. Len(filenodes) \in Nat /\ DOMAIN filenodes = 1..Len(filenodes)
  OBVIOUS
<1>2. \A k \in DOMAIN Without(i) :
        \/ k \in 1..(i - 1) /\ Without(i)[k] = filenodes[k]
        \/ k \in i..(Len(filenodes) - 1) /\ Without(i)[k] = filenodes[k + 1]
  BY <1>1, WithoutFacts
<1> QED BY <1>1, <1>2 DEF NoTwice, Listed

\* The share and the list are well typed before the first callback.
LEMMA InitType == Init => TypeOK
BY BlankIsNode, ValuesAssumption DEF Init, TypeOK, Node, Steps, ValuesAssumption

\* The types of a thread's variables when its callback returns.
LEMMA ReturnType ==
  ASSUME TypeOK, NEW t \in Threads, Return(t)
  PROVE  /\ pc' \in [Threads -> Steps] /\ at' \in [Threads -> Paths]
         /\ to' \in [Threads -> Paths] /\ found' \in [Threads -> Ids \cup {NoNode}]
         /\ change' \in [Threads -> Change \cup {NoChange}]
         /\ heap' \in [Threads -> Descriptor]
BY BlankIsNode, ValuesAssumption DEF Return, TypeOK, Node, Steps, ValuesAssumption

\* What SetFileSecurity stores is a descriptor.
LEMMA StoredType ==
  ASSUME TypeOK, ThreadInv, NEW t \in Threads, pc[t] = "writing",
         NEW d \in {node[found[t]].sd, [heap[t] EXCEPT ![change[t][1]] = change[t][2]]}
  PROVE  d \in Descriptor
<1>1. found[t] \in Ids /\ change[t] \in Change
  BY DEF ThreadInv
<1>2. [heap[t] EXCEPT ![change[t][1]] = change[t][2]] \in Descriptor
  BY <1>1 DEF TypeOK, Descriptor, Change
<1>3. node[found[t]].sd \in Descriptor
  BY <1>1, NodeFields DEF TypeOK
<1> QED BY <1>2, <1>3

\* Nodes::rename changes no descriptor and keeps the filenodes filenodes.
LEMMA RenameFacts ==
  ASSUME TypeOK, NEW t \in Threads, RenameNode(t)
  PROVE  node' \in [Ids -> Node] /\ \A i \in Ids : node'[i].sd = node[i].sd
<1>1. CASE node' = node
  BY <1>1 DEF TypeOK
<1>2. ASSUME NEW k \in DOMAIN filenodes, node' = [node EXCEPT ![filenodes[k]].name = to[t]]
      PROVE  node' \in [Ids -> Node] /\ \A i \in Ids : node'[i].sd = node[i].sd
  <2>1. filenodes[k] \in Ids /\ to[t] \in Paths
    BY DEF TypeOK
  <2> QED BY <1>2, <2>1, NodeFields DEF TypeOK
<1> QED BY <1>1, <1>2 DEF RenameNode, Finds

\* Every callback keeps the types.
LEMMA NextType == IInv /\ [Next]_vars => TypeOK'
<1> SUFFICES ASSUME IInv, [Next]_vars PROVE TypeOK'
  OBVIOUS
<1>0. TypeOK /\ ThreadInv
  BY DEF IInv
<1> USE <1>0 DEF TypeOK
<1>1. ASSUME NEW t \in Threads, NEW x \in Paths, NEW d \in Descriptor, NEW i \in Ids,
             CreateNew(t, x, d, i)
      PROVE  TypeOK'
  BY <1>1 DEF CreateNew, GoOn, Steps, Node
<1>2. ASSUME NEW t \in Threads, NEW x \in Paths, CreateAlways(t, x) PROVE TypeOK'
  BY <1>2 DEF CreateAlways, threadVars
<1>3. ASSUME NEW t \in Threads, NEW x \in Paths, NEW c \in Change, SetFind(t, x, c)
      PROVE  TypeOK'
  <2>1. /\ pc' \in [Threads -> Steps] /\ at' \in [Threads -> Paths]
        /\ change' \in [Threads -> Change \cup {NoChange}]
    BY <1>3 DEF SetFind, GoOn, Steps
  <2>4. found' \in [Threads -> Ids \cup {NoNode}]
    <3>1. \A i \in DOMAIN filenodes : filenodes[i] \in Ids
      OBVIOUS
    <3> QED BY <1>3, <3>1 DEF SetFind, Finds, Fresh
  <2>2. [DefaultSD EXCEPT ![c[1]] = c[2]] \in Descriptor
    BY ValuesAssumption DEF ValuesAssumption, Descriptor, Change
  <2>3. node' \in [Ids -> Node]
    <3>1. [name |-> x, sd |-> [DefaultSD EXCEPT ![c[1]] = c[2]]] \in Node
      BY <2>2 DEF Node
    <3> QED BY <1>3, <3>1 DEF SetFind, Fresh
  <2> QED BY <1>3, <2>1, <2>3, <2>4 DEF SetFind, shareVars
<1>4. ASSUME NEW t \in Threads, NEW x \in Paths, RequestDelete(t, x) PROVE TypeOK'
  BY <1>4 DEF RequestDelete, GoOn, Steps
<1>5. ASSUME NEW t \in Threads, NEW x \in Paths, CancelDelete(t, x) PROVE TypeOK'
  BY <1>5 DEF CancelDelete, GoOn, Steps, threadVars
<1>6. ASSUME NEW t \in Threads, NEW x \in Paths, NEW y \in Paths, MoveOnShare(t, x, y)
      PROVE  TypeOK'
  <2>1. deleting' \subseteq present'
    BY <1>6 DEF MoveOnShare
  <2> QED BY <1>6, <2>1 DEF MoveOnShare, GoOn, Steps
<1>7. ASSUME NEW t \in Threads, AddNode(t) PROVE TypeOK'
  <2>1. filenodes' \in Seq(Ids) /\ NoTwice(filenodes')
    BY <1>7 DEF AddNode, ThreadInv, Listed, NoTwice
  <2>2. node' \in [Ids -> Node]
    BY <1>7, FreedFacts DEF AddNode
  <2> QED BY <1>7, <2>1, <2>2, ReturnType DEF AddNode, shareVars, NoTwice
<1>8. ASSUME NEW t \in Threads, SetLock(t) \/ SetRead(t) PROVE TypeOK'
  <2>1. CASE SetLock(t)
    BY <2>1 DEF SetLock, Step, Steps, shareVars
  <2>2. CASE SetRead(t)
    <3>1. node[found[t]].sd \in Descriptor
      BY <2>2, NodeFields DEF SetRead, ThreadInv
    <3>2. heap' \in [Threads -> Descriptor]
      BY <2>2, <3>1 DEF SetRead
    <3> QED BY <2>2, <3>2 DEF SetRead, Step, Steps, shareVars
  <2> QED BY <1>8, <2>1, <2>2
<1>9. ASSUME NEW t \in Threads, SetWrite(t) PROVE TypeOK'
  <2>1. found[t] \in Ids /\ change[t] \in Change
    BY <1>9 DEF SetWrite, ThreadInv
  <2>2. PICK d \in {node[found[t]].sd, [heap[t] EXCEPT ![change[t][1]] = change[t][2]]} :
          node' = Freed([node EXCEPT ![found[t]].sd = d], filenodes, found')
    BY <1>9 DEF SetWrite
  <2>3. d \in Descriptor
    BY <1>9, <2>2, StoredType DEF SetWrite
  <2>4. [node EXCEPT ![found[t]].sd = d] \in [Ids -> Node]
    BY <2>1, <2>3, NodeFields
  <2>5. node' \in [Ids -> Node]
    BY <2>2, <2>4, FreedFacts
  <2> QED BY <1>9, <2>1, <2>5, ReturnType DEF SetWrite, shareVars
<1>10. ASSUME NEW t \in Threads, RemoveNode(t) PROVE TypeOK'
  <2>1. filenodes' \in Seq(Ids) /\ NoTwice(filenodes')
    BY <1>10, WithoutFacts, WithoutTwice DEF RemoveNode, NoTwice, Finds
  <2>2. node' \in [Ids -> Node]
    BY <1>10, FreedFacts DEF RemoveNode
  <2>3. had' \subseteq Paths
    BY <1>10 DEF RemoveNode
  <2> QED BY <1>10, <2>1, <2>2, <2>3, ReturnType DEF RemoveNode, NoTwice
<1>11. ASSUME NEW t \in Threads, RenameNode(t) PROVE TypeOK'
  BY <1>11, RenameFacts, ReturnType DEF RenameNode, shareVars
<1>12. ASSUME NEW x \in Paths, Cleanup(x) PROVE TypeOK'
  BY <1>12 DEF Cleanup, threadVars
<1>13. CASE UNCHANGED vars
  BY <1>13 DEF vars, shareVars, threadVars
<1> QED
  BY <1>1, <1>2, <1>3, <1>4, <1>5, <1>6, <1>7, <1>8, <1>9, <1>10, <1>11, <1>12, <1>13
  DEF Next, Callback

-----------------------------------------------------------------------------
(* What a thread may rely on.                                              *)

\* A fresh object is in no list and in no callback.
LEMMA FreshFacts ==
  \A i \in Fresh : i \in Ids /\ i \notin Listed /\ \A s \in Threads : found[s] # i
BY DEF Fresh, Referred, Listed

\* A callback adds a filenode only it knows; the mutex it has taken is its own
\* until it gives it back.
LEMMA NextThreads == IInv /\ [Next]_vars => ThreadInv'
<1> SUFFICES ASSUME IInv, [Next]_vars PROVE ThreadInv'
  OBVIOUS
<1>0. TypeOK /\ ThreadInv
  BY DEF IInv
<1> USE <1>0 DEF TypeOK, ThreadInv
<1>1. ASSUME NEW t \in Threads, NEW x \in Paths, NEW d \in Descriptor, NEW i \in Ids,
             CreateNew(t, x, d, i)
      PROVE  ThreadInv'
  BY <1>1, FreshFacts DEF CreateNew, GoOn, Listed
<1>2. ASSUME NEW t \in Threads, NEW x \in Paths, NEW c \in Change, SetFind(t, x, c)
      PROVE  ThreadInv'
  <2>1. \A k \in DOMAIN filenodes : filenodes[k] \in Ids /\ filenodes[k] \in Listed
    BY DEF Listed
  <2>2. CASE \E k \in DOMAIN filenodes : GoOn(t, "locking", x)
                                         /\ found' = [found EXCEPT ![t] = filenodes[k]]
    BY <1>2, <2>1, <2>2 DEF SetFind, GoOn, Listed
  <2>3. CASE \E i \in Fresh : GoOn(t, "adding", x) /\ found' = [found EXCEPT ![t] = i]
    BY <1>2, <2>3, FreshFacts DEF SetFind, GoOn, Listed
  <2> QED BY <1>2, <2>2, <2>3 DEF SetFind, Finds
<1>3. ASSUME NEW t \in Threads, NEW x \in Paths,
             RequestDelete(t, x) \/ CancelDelete(t, x) \/ \E y \in Paths : MoveOnShare(t, x, y)
      PROVE  ThreadInv'
  BY <1>3 DEF RequestDelete, CancelDelete, MoveOnShare, GoOn, Listed, threadVars
<1>4. ASSUME NEW t \in Threads, AddNode(t) PROVE ThreadInv'
  <2>1. Listed' \subseteq Listed \cup {found[t]}
    BY <1>4 DEF AddNode, Listed
  <2>2. /\ pc[t] = "adding" /\ holder' = holder /\ pc' = [pc EXCEPT ![t] = "idle"]
        /\ found' = [found EXCEPT ![t] = NoNode]
        /\ change' = [change EXCEPT ![t] = NoChange]
    BY <1>4 DEF AddNode, Return
  <2>3. NoNode \notin Ids
    BY ValuesAssumption DEF ValuesAssumption
  <2> QED BY <2>1, <2>2, <2>3
<1>5. ASSUME NEW t \in Threads, SetLock(t) PROVE ThreadInv'
  BY <1>5, ValuesAssumption DEF SetLock, Step, Listed, shareVars, ValuesAssumption
<1>6. ASSUME NEW t \in Threads, SetRead(t) PROVE ThreadInv'
  BY <1>6 DEF SetRead, Step, Listed
<1>7. ASSUME NEW t \in Threads, SetWrite(t) PROVE ThreadInv'
  <2>1. NoNode \notin Ids
    BY ValuesAssumption DEF ValuesAssumption
  <2> QED BY <1>7, <2>1 DEF SetWrite, Return, Listed
<1>8. ASSUME NEW t \in Threads, RemoveNode(t) PROVE ThreadInv'
  <2>1. Listed' \subseteq Listed
    BY <1>8, WithoutTwice DEF RemoveNode, Listed, NoTwice, Finds
  <2>2. NoNode \notin Ids
    BY ValuesAssumption DEF ValuesAssumption
  <2> QED BY <1>8, <2>1, <2>2 DEF RemoveNode, Return
<1>9. ASSUME NEW t \in Threads, RenameNode(t) PROVE ThreadInv'
  <2>1. NoNode \notin Ids
    BY ValuesAssumption DEF ValuesAssumption
  <2> QED BY <1>9, <2>1 DEF RenameNode, Return, Listed
<1>10. CASE UNCHANGED <<filenodes, holder, threadVars>>
  BY <1>10 DEF threadVars, Listed
<1> QED
  BY <1>1, <1>2, <1>3, <1>4, <1>5, <1>6, <1>7, <1>8, <1>9, <1>10
  DEF Next, Callback, CreateAlways, Cleanup, vars

-----------------------------------------------------------------------------
(* The read of SetFileSecurity is fresh.                                   *)

\* A step that leaves the other threads and the descriptors they have found
\* alone, and ends no read of its own thread, keeps what was read fresh.
LEMMA OthersFresh ==
  ASSUME ReadIsFresh, TypeOK, NEW t \in Threads, pc'[t] # "writing",
         \A s \in Threads \ {t} :
            /\ pc'[s] = pc[s] /\ found'[s] = found[s] /\ heap'[s] = heap[s]
            /\ pc[s] = "writing" => node'[found[s]].sd = node[found[s]].sd
  PROVE  ReadIsFresh'
BY DEF ReadIsFresh

\* A descriptor that was read stays as it is until it is stored: the mutex
\* excludes the other callbacks that would store one in the same filenode.
LEMMA NextFresh == IInv /\ [Next]_vars => ReadIsFresh'
<1> SUFFICES ASSUME IInv, [Next]_vars PROVE ReadIsFresh'
  OBVIOUS
<1>0. TypeOK /\ ThreadInv /\ ReadIsFresh
  BY DEF IInv
<1> USE <1>0
<1>1. CASE UNCHANGED <<pc, found, heap, node>>
  BY <1>1 DEF ReadIsFresh
<1>2. ASSUME NEW t \in Threads, NEW i \in Fresh, NEW n \in Node,
             node' = [node EXCEPT ![i] = n], heap' = heap,
             found' = [found EXCEPT ![t] = i], pc' = [pc EXCEPT ![t] = "adding"]
      PROVE  ReadIsFresh'
  BY <1>2, FreshFacts, OthersFresh DEF TypeOK, ThreadInv
<1>3. ASSUME NEW t \in Threads, NEW x \in Paths, NEW d \in Descriptor, NEW i \in Ids,
             CreateNew(t, x, d, i)
      PROVE  ReadIsFresh'
  BY <1>2, <1>3 DEF CreateNew, GoOn, Node
<1>4. ASSUME NEW t \in Threads, NEW x \in Paths, NEW c \in Change, SetFind(t, x, c)
      PROVE  ReadIsFresh'
  <2>1. CASE pc' = [pc EXCEPT ![t] = "locking"] /\ node' = node
    BY <1>4, <2>1, OthersFresh DEF SetFind, TypeOK
  <2>2. ASSUME NEW i \in Fresh, pc' = [pc EXCEPT ![t] = "adding"],
               found' = [found EXCEPT ![t] = i],
               node' = [node EXCEPT ![i] =
                          [name |-> x, sd |-> [DefaultSD EXCEPT ![c[1]] = c[2]]]]
        PROVE  ReadIsFresh'
    <3>1. [name |-> x, sd |-> [DefaultSD EXCEPT ![c[1]] = c[2]]] \in Node
      BY ValuesAssumption DEF ValuesAssumption, Descriptor, Change, Node
    <3>2. heap' = heap
      BY <1>4 DEF SetFind
    <3> QED BY <1>2, <2>2, <3>1, <3>2
  <2> QED BY <1>4, <2>1, <2>2 DEF SetFind, GoOn
<1>5. ASSUME NEW t \in Threads, NEW x \in Paths,
             RequestDelete(t, x) \/ CancelDelete(t, x) \/ \E y \in Paths : MoveOnShare(t, x, y)
      PROVE  ReadIsFresh'
  BY <1>5 DEF RequestDelete, CancelDelete, MoveOnShare, GoOn, threadVars, TypeOK, ReadIsFresh
<1>6. ASSUME NEW t \in Threads, NEW nodes \in [Ids -> Node], Return(t),
             node' = Freed(nodes, filenodes', found'),
             \A s \in Threads \ {t} :
                pc[s] = "writing" => nodes[found[s]].sd = node[found[s]].sd
      PROVE  ReadIsFresh'
  <2>1. \A s \in Threads \ {t} : /\ pc'[s] = pc[s] /\ found'[s] = found[s] /\ heap'[s] = heap[s]
    BY <1>6 DEF Return, TypeOK
  <2>2. \A s \in Threads \ {t} :
          pc[s] = "writing" => node'[found[s]].sd = node[found[s]].sd
    BY <1>6, <2>1, FreedFacts, ReferredFacts DEF ThreadInv
  <2>3. pc'[t] # "writing"
    BY <1>6 DEF Return, TypeOK
  <2> QED BY <2>1, <2>2, <2>3, OthersFresh
<1>7. ASSUME NEW t \in Threads, AddNode(t) \/ RemoveNode(t) PROVE ReadIsFresh'
  BY <1>6, <1>7 DEF AddNode, RemoveNode, TypeOK
<1>8. ASSUME NEW t \in Threads, SetLock(t) PROVE ReadIsFresh'
  BY <1>8 DEF SetLock, Step, shareVars, TypeOK, ReadIsFresh
<1>9. ASSUME NEW t \in Threads, SetRead(t) PROVE ReadIsFresh'
  BY <1>9 DEF SetRead, Step, TypeOK, ReadIsFresh
<1>10. ASSUME NEW t \in Threads, SetWrite(t) PROVE ReadIsFresh'
  <2>1. found[t] \in Ids /\ change[t] \in Change
        /\ \A s \in Threads \ {t} : pc[s] = "writing" => found[s] # found[t]
    BY <1>10 DEF SetWrite, ThreadInv
  <2>2. PICK d \in {node[found[t]].sd, [heap[t] EXCEPT ![change[t][1]] = change[t][2]]} :
          node' = Freed([node EXCEPT ![found[t]].sd = d], filenodes, found')
    BY <1>10 DEF SetWrite
  <2> DEFINE nodes == [node EXCEPT ![found[t]].sd = d]
  <2>3. d \in Descriptor
    BY <1>10, <2>2, StoredType DEF SetWrite
  <2>4. nodes \in [Ids -> Node]
    BY <2>1, <2>3, NodeFields DEF TypeOK
  <2>5. \A s \in Threads \ {t} :
          pc[s] = "writing" => nodes[found[s]].sd = node[found[s]].sd
    BY <2>1 DEF TypeOK, ThreadInv
  <2>6. node' = Freed(nodes, filenodes', found') /\ Return(t)
    BY <1>10, <2>2 DEF SetWrite
  <2> HIDE DEF nodes
  <2> QED BY <1>6, <2>4, <2>5, <2>6
<1>11. ASSUME NEW t \in Threads, RenameNode(t) PROVE ReadIsFresh'
  <2>1. \A i \in Ids : node'[i].sd = node[i].sd
    BY <1>11, RenameFacts
  <2>2. \A s \in Threads \ {t} : /\ pc'[s] = pc[s] /\ found'[s] = found[s] /\ heap'[s] = heap[s]
    BY <1>11 DEF RenameNode, Return, TypeOK
  <2>3. pc'[t] # "writing"
    BY <1>11 DEF RenameNode, Return, TypeOK
  <2> QED BY <2>1, <2>2, <2>3, OthersFresh DEF ThreadInv
<1> QED
  BY <1>1, <1>3, <1>4, <1>5, <1>7, <1>8, <1>9, <1>10, <1>11
  DEF Next, Callback, CreateAlways, Cleanup, threadVars, vars

-----------------------------------------------------------------------------
(* What one step does to the list.                                         *)

\* The list and what is in it stay as they are.
SameList == filenodes' = filenodes /\ \A i \in Listed : node'[i] = node[i]

\* A filenode with a name the list does not have is appended.
OneMore ==
  \E t \in Threads :
    /\ Unknown(node[found[t]].name)
    /\ filenodes' = Append(filenodes, found[t])
    /\ \A i \in Listed \cup {found[t]} : node'[i] = node[i]

\* One part of the descriptor of one filenode of the list may change.
OneStored(t) ==
  /\ pc[t] = "writing" /\ pc'[t] = "idle"
  /\ filenodes' = filenodes
  /\ \A i \in Listed : /\ node'[i].name = node[i].name
                       /\ i # found[t] => node'[i] = node[i]
  /\ \E p \in Parts, v \in Values :
       found[t] \in Listed =>
         node'[found[t]].sd \in {node[found[t]].sd, [node[found[t]].sd EXCEPT ![p] = v]}

\* The first filenode of the callback's path is taken off the list.
OneLess(t) ==
  /\ pc[t] \in {"removing", "keeping"} /\ pc'[t] = "idle"
  /\ \E i \in DOMAIN filenodes : Finds(at[t], i) /\ filenodes' = Without(i)
  /\ \A i \in {filenodes'[k] : k \in DOMAIN filenodes'} : node'[i] = node[i]

\* The first filenode of the callback's path gets its new name.
OneRenamed(t) ==
  /\ pc[t] = "renaming" /\ pc'[t] = "idle"
  /\ filenodes' = filenodes
  /\ \E i \in DOMAIN filenodes :
       /\ Finds(at[t], i)
       /\ node' = [node EXCEPT ![filenodes[i]].name = to[t]]

\* Whatever is listed after a step is not freed by it.
LEMMA ListedNotFreed ==
  ASSUME NEW nodes \in [Ids -> Node], filenodes' \in Seq(Ids),
         node' = Freed(nodes, filenodes', found')
  PROVE  \A k \in DOMAIN filenodes' : node'[filenodes'[k]] = nodes[filenodes'[k]]
<1>1. \A k \in DOMAIN filenodes' : filenodes'[k] \in Ids
  OBVIOUS
<1> QED BY <1>1, FreedFacts, ReferredFacts

\* Every step does one of these five things.
LEMMA ListSteps ==
  ASSUME IInv, [Next]_vars
  PROVE  \/ SameList \/ OneMore
         \/ \E t \in Threads : OneStored(t) \/ OneLess(t) \/ OneRenamed(t)
<1>0. TypeOK /\ ThreadInv
  BY DEF IInv
<1>type. filenodes' \in Seq(Ids)
  BY NextType DEF TypeOK
<1>1. CASE UNCHANGED <<filenodes, node>>
  BY <1>1 DEF SameList
<1>2. ASSUME NEW t \in Threads, NEW x \in Paths, NEW d \in Descriptor, NEW i \in Ids,
             CreateNew(t, x, d, i)
      PROVE  SameList
  BY <1>0, <1>2, FreshFacts DEF CreateNew, SameList, TypeOK
<1>3. ASSUME NEW t \in Threads, NEW x \in Paths, NEW c \in Change, SetFind(t, x, c)
      PROVE  SameList
  <2>1. filenodes' = filenodes /\ Listed \subseteq Ids
    BY <1>0, <1>3 DEF SetFind, Listed, TypeOK
  <2>2. node' = node \/ \E i \in Fresh : \E n : node' = [node EXCEPT ![i] = n]
    BY <1>3 DEF SetFind
  <2> QED BY <1>0, <2>1, <2>2, FreshFacts DEF SameList, TypeOK
<1>4. ASSUME NEW t \in Threads, AddNode(t) PROVE SameList \/ OneMore
  <2>1. /\ pc[t] = "adding" /\ node' = Freed(node, filenodes', found')
        /\ found[t] \in Ids /\ node \in [Ids -> Node] /\ filenodes \in Seq(Ids)
    BY <1>0, <1>4 DEF AddNode, ThreadInv, TypeOK
  <2>2. \A k \in DOMAIN filenodes' : node'[filenodes'[k]] = node[filenodes'[k]]
    BY <1>type, <2>1, ListedNotFreed
  <2>3. CASE filenodes' = filenodes
    BY <2>2, <2>3 DEF SameList, Listed
  <2>4. CASE Unknown(node[found[t]].name) /\ filenodes' = Append(filenodes, found[t])
    <3>1. /\ \A k \in DOMAIN filenodes : k \in DOMAIN filenodes' /\ filenodes'[k] = filenodes[k]
          /\ \E k \in DOMAIN filenodes' : filenodes'[k] = found[t]
      <4>1. Len(filenodes) + 1 \in DOMAIN filenodes'
            /\ filenodes'[Len(filenodes) + 1] = found[t]
        BY <2>1, <2>4
      <4> QED BY <2>1, <2>4, <4>1
    <3> QED BY <2>2, <2>4, <3>1 DEF OneMore, Listed
  <2> QED BY <1>4, <2>3, <2>4 DEF AddNode
<1>5. ASSUME NEW t \in Threads, SetWrite(t) PROVE OneStored(t)
  <2>1. PICK d \in {node[found[t]].sd, [heap[t] EXCEPT ![change[t][1]] = change[t][2]]} :
          node' = Freed([node EXCEPT ![found[t]].sd = d], filenodes, found')
    BY <1>5 DEF SetWrite
  <2>2. d \in Descriptor /\ found[t] \in Ids
    BY <1>0, <1>5, <2>1, StoredType DEF SetWrite, ThreadInv
  <2> DEFINE nodes == [node EXCEPT ![found[t]].sd = d]
  <2>3. /\ nodes \in [Ids -> Node]
        /\ \A i \in Ids : /\ nodes[i].name = node[i].name
                          /\ i # found[t] => nodes[i] = node[i]
    BY <1>0, <2>2, NodeFields DEF TypeOK
  <2>4. filenodes' = filenodes /\ pc[t] = "writing" /\ pc'[t] = "idle"
    BY <1>0, <1>5 DEF SetWrite, Return, TypeOK
  <2>5. node' = Freed(nodes, filenodes', found')
    BY <2>1, <2>4
  <2> HIDE DEF nodes
  <2>6. \A k \in DOMAIN filenodes' : node'[filenodes'[k]] = nodes[filenodes'[k]]
    BY <1>type, <2>3, <2>5, ListedNotFreed
  <2>7. \A k \in DOMAIN filenodes : filenodes[k] \in Ids
    BY <1>0 DEF TypeOK
  <2>8. nodes[found[t]].sd = d
    BY <1>0, <2>2, NodeFields DEF nodes, TypeOK
  <2>9. PICK p \in Parts, v \in Values : change[t] = <<p, v>>
    BY <1>0, <1>5 DEF SetWrite, ThreadInv, Change
  <2>10. heap[t] = node[found[t]].sd
    BY <1>5 DEF SetWrite, IInv, ReadIsFresh
  <2>11. nodes[found[t]].sd \in {node[found[t]].sd, [node[found[t]].sd EXCEPT ![p] = v]}
    BY <2>1, <2>8, <2>9, <2>10
  <2>12. found[t] \in Listed => node'[found[t]] = nodes[found[t]]
    BY <2>4, <2>6 DEF Listed
  <2>13. \A i \in Listed : /\ node'[i].name = node[i].name
                           /\ i # found[t] => node'[i] = node[i]
    BY <2>3, <2>4, <2>6, <2>7 DEF Listed
  <2>14. found[t] \in Listed =>
           node'[found[t]].sd \in {node[found[t]].sd, [node[found[t]].sd EXCEPT ![p] = v]}
    BY <2>11, <2>12
  <2> QED BY <2>4, <2>13, <2>14 DEF OneStored
<1>6. ASSUME NEW t \in Threads, RemoveNode(t) PROVE SameList \/ OneLess(t)
  <2>1. /\ pc[t] \in {"removing", "keeping"} /\ pc'[t] = "idle"
        /\ node' = Freed(node, filenodes', found') /\ node \in [Ids -> Node]
    BY <1>0, <1>6 DEF RemoveNode, Return, TypeOK
  <2>2. \A k \in DOMAIN filenodes' : node'[filenodes'[k]] = node[filenodes'[k]]
    BY <1>type, <2>1, ListedNotFreed
  <2> QED BY <1>6, <2>1, <2>2 DEF RemoveNode, SameList, OneLess, Listed
<1>7. ASSUME NEW t \in Threads, RenameNode(t) PROVE SameList \/ OneRenamed(t)
  BY <1>0, <1>7 DEF RenameNode, Return, SameList, OneRenamed, TypeOK
<1> QED
  BY <1>1, <1>2, <1>3, <1>4, <1>5, <1>6, <1>7
  DEF Next, Callback, CreateAlways, SetLock, SetRead, RequestDelete, CancelDelete,
      MoveOnShare, Cleanup, vars

\* The list is a sequence of filenodes, each once.
LEMMA ListFacts ==
  ASSUME TypeOK
  PROVE  /\ Len(filenodes) \in Nat /\ DOMAIN filenodes = 1..Len(filenodes)
         /\ \A k \in DOMAIN filenodes : filenodes[k] \in Ids /\ filenodes[k] \in Listed
         /\ NoTwice(filenodes)
BY DEF TypeOK, Listed, NoTwice

\* Where the elements of the list are after its element at i is taken off.
LEMMA AfterWithout ==
  ASSUME TypeOK, NEW t \in Threads, OneLess(t)
  PROVE  \E i \in DOMAIN filenodes :
           /\ Name(i) = at[t]
           /\ DOMAIN filenodes' = 1..(Len(filenodes) - 1)
           /\ \A k \in DOMAIN filenodes' :
                /\ k < i => filenodes'[k] = filenodes[k]
                /\ k >= i => filenodes'[k] = filenodes[k + 1]
                /\ node'[filenodes'[k]] = node[filenodes'[k]]
<1>1. PICK i \in DOMAIN filenodes : Finds(at[t], i) /\ filenodes' = Without(i)
  BY DEF OneLess
<1>2. Len(filenodes) \in Nat /\ i \in 1..Len(filenodes)
  BY ListFacts
<1>3. /\ DOMAIN filenodes' = 1..(Len(filenodes) - 1)
      /\ \A k \in DOMAIN filenodes' : /\ k < i => filenodes'[k] = filenodes[k]
                                      /\ k >= i => filenodes'[k] = filenodes[k + 1]
  <2>1. filenodes \in Seq(Ids)
    BY DEF TypeOK
  <2>2. /\ DOMAIN Without(i) = 1..(Len(filenodes) - 1)
        /\ \A k \in 1..(i - 1) : Without(i)[k] = filenodes[k]
        /\ \A k \in i..(Len(filenodes) - 1) : Without(i)[k] = filenodes[k + 1]
    BY <2>1, WithoutFacts
  <2> QED BY <1>1, <1>2, <2>2
<1>4. \A k \in DOMAIN filenodes' : node'[filenodes'[k]] = node[filenodes'[k]]
  BY DEF OneLess
<1> QED BY <1>1, <1>3, <1>4 DEF Finds

\* What an append leaves in the list, and where.
LEMMA AfterOneMore ==
  ASSUME TypeOK, OneMore
  PROVE  LET n == Len(filenodes) + 1 IN
         /\ n \in Nat /\ DOMAIN filenodes = 1..(n - 1) /\ DOMAIN filenodes' = 1..n
         /\ \A k \in DOMAIN filenodes :
              /\ filenodes'[k] = filenodes[k]
              /\ node'[filenodes'[k]] = node[filenodes[k]]
              /\ node'[filenodes'[n]].name # Name(k)
<1>1. PICK t \in Threads :
        /\ Unknown(node[found[t]].name)
        /\ filenodes' = Append(filenodes, found[t])
        /\ \A i \in Listed \cup {found[t]} : node'[i] = node[i]
  BY DEF OneMore
<1>2. filenodes \in Seq(Ids)
  BY DEF TypeOK
<1>3. /\ Len(filenodes) \in Nat /\ DOMAIN filenodes = 1..Len(filenodes)
      /\ DOMAIN filenodes' = 1..(Len(filenodes) + 1)
      /\ filenodes'[Len(filenodes) + 1] = found[t]
      /\ \A k \in DOMAIN filenodes : filenodes'[k] = filenodes[k]
  BY <1>1, <1>2
<1> QED BY <1>1, <1>3 DEF Listed, Unknown

-----------------------------------------------------------------------------
(* The theorems.                                                           *)

\* The inductive invariant holds before the first callback.
LEMMA InitInv == Init => IInv
BY InitType DEF Init, IInv, ThreadInv, ReadIsFresh

\* The inductive invariant of the store: what each thread may rely on.
THEOREM Invariance == Spec => []IInv
<1>1. IInv /\ [Next]_vars => IInv'
  BY NextType, NextThreads, NextFresh DEF IInv
<1> QED BY InitInv, <1>1, PTL DEF Spec

\* Whatever the constants, the store is well typed and lists no object twice.
THEOREM TypeCorrect == Spec => []TypeOK
BY Invariance, PTL DEF IInv

\* However many threads set however many parts: what SetFileSecurity has read
\* is what is there when it stores (the lock_guard on _data_mutex).
THEOREM ReadsAreFresh == Spec => []ReadIsFresh
BY Invariance, PTL DEF IInv

\* Only Nodes::rename gives a name to a second filenode; addFileNode, whatever
\* its caller found earlier, does not.
THEOREM DuplicatesAreRenames == Spec => OnlyRenameDuplicates
<1>1. IInv /\ [Next]_vars => [Duplicates]_vars
  <2> SUFFICES ASSUME IInv, [Next]_vars, Unique,
                      \A t \in Threads : ~(pc[t] = "renaming" /\ pc'[t] = "idle")
               PROVE  Unique'
    BY DEF Duplicates
  <2>0. TypeOK
    BY DEF IInv
  <2>1. CASE SameList
    BY <2>0, <2>1, ListFacts DEF SameList, Unique, Name
  <2>2. CASE OneMore
    BY <2>0, <2>2, AfterOneMore DEF Unique, Name
  <2>3. ASSUME NEW t \in Threads, OneStored(t) PROVE Unique'
    BY <2>0, <2>3, ListFacts DEF OneStored, Unique, Name
  <2>4. ASSUME NEW t \in Threads, OneLess(t) PROVE Unique'
    <3>1. PICK i \in DOMAIN filenodes :
            /\ DOMAIN filenodes' = 1..(Len(filenodes) - 1)
            /\ \A k \in DOMAIN filenodes' :
                 /\ k < i => filenodes'[k] = filenodes[k]
                 /\ k >= i => filenodes'[k] = filenodes[k + 1]
                 /\ node'[filenodes'[k]] = node[filenodes'[k]]
      BY <2>0, <2>4, AfterWithout
    <3>2. Len(filenodes) \in Nat /\ DOMAIN filenodes = 1..Len(filenodes)
      BY <2>0, ListFacts
    <3>3. \A k \in DOMAIN filenodes' :
            /\ k < i => k \in DOMAIN filenodes /\ Name(k)' = Name(k)
            /\ k >= i => k + 1 \in DOMAIN filenodes /\ Name(k)' = Name(k + 1)
      BY <3>1, <3>2 DEF Name
    <3> QED BY <3>1, <3>2, <3>3 DEF Unique
  <2> QED BY <2>1, <2>2, <2>3, <2>4, ListSteps DEF OneRenamed
<1> QED BY <1>1, Invariance, PTL DEF Spec, OnlyRenameDuplicates

\* What a client reads for a known path changes only by a callback that works
\* on this filenode or on this path: addFileNode never replaces a filenode.
THEOREM KnownIsStable == Spec => KnownSecurityIsStable
<1>1. IInv /\ [Next]_vars => [Stable]_vars
  <2> SUFFICES ASSUME IInv, [Next]_vars, NEW x \in Paths, NEW k \in DOMAIN filenodes,
                      Finds(x, k),
                      \A t \in Threads : ~(Touches(t, x) /\ pc'[t] = "idle")
               PROVE  \E m \in DOMAIN filenodes' :
                         Finds(x, m)' /\ node'[filenodes'[m]].sd = node[filenodes[k]].sd
    BY DEF Stable, Reads, Unknown, Finds
  <2>0. TypeOK
    BY DEF IInv
  <2>k. /\ Len(filenodes) \in Nat /\ DOMAIN filenodes = 1..Len(filenodes)
        /\ k \in 1..Len(filenodes) /\ Name(k) = x
        /\ \A m \in 1..(k - 1) : m \in DOMAIN filenodes /\ Name(m) # x
    BY <2>0, ListFacts DEF Finds
  <2>1. CASE SameList
    BY <2>0, <2>1, <2>k, ListFacts DEF SameList, Finds, Name
  <2>2. CASE OneMore
    BY <2>0, <2>2, <2>k, AfterOneMore DEF Finds, Name
  <2>3. ASSUME NEW t \in Threads, OneStored(t)
        PROVE  Finds(x, k)' /\ node'[filenodes'[k]].sd = node[filenodes[k]].sd
    <3>1. found[t] # filenodes[k]
      BY <2>3 DEF OneStored, Touches
    <3> QED BY <2>0, <2>3, <2>k, <3>1, ListFacts DEF OneStored, Finds, Name
  <2>4. ASSUME NEW t \in Threads, OneLess(t)
        PROVE  \E m \in DOMAIN filenodes' :
                  Finds(x, m)' /\ node'[filenodes'[m]].sd = node[filenodes[k]].sd
    <3>1. PICK i \in DOMAIN filenodes :
            /\ Name(i) = at[t]
            /\ DOMAIN filenodes' = 1..(Len(filenodes) - 1)
            /\ \A m \in DOMAIN filenodes' :
                 /\ m < i => filenodes'[m] = filenodes[m]
                 /\ m >= i => filenodes'[m] = filenodes[m + 1]
                 /\ node'[filenodes'[m]] = node[filenodes'[m]]
      BY <2>0, <2>4, AfterWithout
    <3>2. at[t] # x /\ i # k /\ i \in 1..Len(filenodes)
      BY <2>4, <2>k, <3>1 DEF OneLess, Touches
    <3>3. CASE k < i
      BY <2>k, <3>1, <3>2, <3>3 DEF Finds, Name
    <3>4. CASE k > i
      <4>1. k - 1 \in DOMAIN filenodes' /\ filenodes'[k - 1] = filenodes[k]
        BY <2>k, <3>1, <3>2, <3>4
      <4>2. \A m \in 1..(k - 2) : m \in DOMAIN filenodes' /\ Name(m)' # x
        BY <2>k, <3>1, <3>2, <3>4 DEF Name
      <4>3. node'[filenodes'[k - 1]] = node[filenodes[k]]
        BY <3>1, <4>1
      <4> QED BY <2>k, <4>1, <4>2, <4>3 DEF Finds, Name
    <3> QED BY <2>k, <3>2, <3>3, <3>4
  <2>5. ASSUME NEW t \in Threads, OneRenamed(t)
        PROVE  Finds(x, k)' /\ node'[filenodes'[k]].sd = node[filenodes[k]].sd
    <3>1. x # at[t] /\ x # to[t]
      BY <2>5 DEF OneRenamed, Touches
    <3>2. PICK i \in DOMAIN filenodes :
            Name(i) = at[t] /\ node' = [node EXCEPT ![filenodes[i]].name = to[t]]
      BY <2>5 DEF OneRenamed, Finds
    <3>3. filenodes' = filenodes /\ node \in [Ids -> Node]
      BY <2>0, <2>5 DEF OneRenamed, TypeOK
    <3>4. \A m \in DOMAIN filenodes :
            IF filenodes[m] = filenodes[i] THEN node'[filenodes[m]].name = to[t]
            ELSE node'[filenodes[m]] = node[filenodes[m]]
      <4>1. to[t] \in Paths /\ filenodes[i] \in Ids
        BY <2>0, ListFacts DEF TypeOK
      <4>2. node'[filenodes[i]] = [node[filenodes[i]] EXCEPT !.name = to[t]]
        BY <3>2, <3>3, <4>1
      <4>3. node'[filenodes[i]].name = to[t]
        BY <3>3, <4>1, <4>2, NodeFields
      <4> QED BY <2>0, <3>2, <3>3, <4>3, ListFacts
    <3>5. filenodes[k] # filenodes[i]
      BY <2>k, <3>1, <3>2 DEF Name
    <3> QED BY <2>k, <3>1, <3>3, <3>4, <3>5 DEF Finds, Name
  <2> QED BY <2>1, <2>2, <2>3, <2>4, <2>5, <2>k, ListSteps DEF SameList, OneStored, OneRenamed
<1> QED BY <1>1, Invariance, PTL DEF Spec, KnownSecurityIsStable

-----------------------------------------------------------------------------
(* The list the clients see.                                               *)

\* What is at each place of it.
LEMMA ListAt ==
  /\ DOMAIN List = DOMAIN filenodes
  /\ \A k \in DOMAIN filenodes : List[k] = node[filenodes[k]]
BY DEF List

\* And after a step.
LEMMA ListAtNext ==
  /\ List' = [k \in DOMAIN filenodes' |-> node'[filenodes'[k]]]
  /\ DOMAIN List' = DOMAIN filenodes'
  /\ \A k \in DOMAIN filenodes' : List'[k] = node'[filenodes'[k]]
BY DEF List

\* It is a sequence of filenodes.
LEMMA ListType ==
  ASSUME TypeOK
  PROVE  List \in Seq(Node) /\ Len(List) = Len(filenodes)
<1>1. Len(filenodes) \in Nat /\ DOMAIN filenodes = 1..Len(filenodes)
  BY ListFacts
<1>2. \A k \in DOMAIN filenodes : node[filenodes[k]] \in Node
  BY ListFacts DEF TypeOK
<1>3. List \in [1..Len(filenodes) -> Node]
  BY <1>1, <1>2 DEF List
<1> HIDE DEF List
<1> QED BY <1>1, <1>3

\* A sequence with one more element, place by place.
LEMMA AppendIs ==
  ASSUME NEW S, NEW s \in Seq(S), NEW e \in S
  PROVE  Append(s, e) = [k \in 1..(Len(s) + 1) |-> IF k = Len(s) + 1 THEN e ELSE s[k]]
<1>1. Len(s) \in Nat /\ DOMAIN s = 1..Len(s)
  OBVIOUS
<1>2. /\ Append(s, e) \in Seq(S)
      /\ DOMAIN Append(s, e) = 1..(Len(s) + 1)
      /\ \A k \in 1..Len(s) : Append(s, e)[k] = s[k]
      /\ Append(s, e)[Len(s) + 1] = e
  BY <1>1
<1>3. \A k \in 1..(Len(s) + 1) : k = Len(s) + 1 \/ k \in 1..Len(s)
  BY <1>1
<1>4. Append(s, e) = [k \in DOMAIN Append(s, e) |-> Append(s, e)[k]]
  <2>1. \A a \in Seq(S) : a = [k \in DOMAIN a |-> a[k]]
    OBVIOUS
  <2> QED BY <1>2, <2>1
<1>5. \A k \in 1..Len(s) : k # Len(s) + 1
  BY <1>1
<1> QED BY <1>2, <1>3, <1>4, <1>5

\* A name that is looked up is found at the same place.
LEMMA FindsIsFirst ==
  ASSUME TypeOK, NEW x, NEW i, Finds(x, i)
  PROVE  i \in L!First(x)
<1>1. Len(filenodes) \in Nat /\ DOMAIN filenodes = 1..Len(filenodes)
  BY ListFacts
<1>2. \A k \in 1..(i - 1) : k \in DOMAIN filenodes
  BY <1>1 DEF Finds
<1> QED BY <1>2, ListAt DEF Finds, Name, L!First

\* addFileNode appends a filenode whose name the list does not have.
LEMMA OneMoreAdds == ASSUME IInv, IInv', OneMore PROVE L!Add
<1> DEFINE n == Len(filenodes) + 1
           e == node'[filenodes'[n]]
<1>0. TypeOK /\ TypeOK'
  BY DEF IInv
<1>1. /\ n \in Nat /\ DOMAIN filenodes = 1..(n - 1) /\ DOMAIN filenodes' = 1..n
      /\ \A k \in DOMAIN filenodes :
           /\ filenodes'[k] = filenodes[k]
           /\ node'[filenodes'[k]] = node[filenodes[k]]
           /\ node'[filenodes'[n]].name # Name(k)
  BY <1>0, AfterOneMore
<1>2. e \in Node
  <2>1. n \in 1..n
    BY <1>0, ListFacts
  <2>2. filenodes'[n] \in Ids
    BY <1>0, <1>1, <2>1 DEF TypeOK
  <2> QED BY <1>0, <2>2 DEF TypeOK
<1>3. Len(filenodes) \in Nat
  BY <1>0, ListFacts
<1> HIDE DEF n, e
<1>4. \A k \in DOMAIN List : List[k].name # e.name
  BY <1>1, ListAt DEF e, Name
<1>5. List' = Append(List, e)
  <2>1. List \in Seq(Node) /\ Len(List) = n - 1 /\ n - 1 \in Nat
    BY <1>0, <1>3, ListType DEF n
  <2>2. DOMAIN List' = 1..n /\ \A k \in 1..n : List'[k] = node'[filenodes'[k]]
    BY <1>1, ListAtNext
  <2>3. Append(List, e) = [k \in 1..n |-> IF k = n THEN e ELSE List[k]]
    <3>1. Len(List) + 1 = n
      BY <1>1, <2>1
    <3> QED BY <1>2, <2>1, <3>1, AppendIs
  <2>4. \A k \in 1..n : node'[filenodes'[k]] = IF k = n THEN e ELSE List[k]
    <3>1. \A k \in 1..n : k = n \/ k \in 1..(n - 1)
      BY <1>1
    <3>2. \A k \in 1..(n - 1) : node'[filenodes'[k]] = List[k] /\ k # n
      BY <1>1, ListAt
    <3> QED BY <3>1, <3>2 DEF e
  <2>5. List' = [k \in 1..n |-> node'[filenodes'[k]]]
    BY <1>1, ListAtNext
  <2> QED BY <2>3, <2>4, <2>5
<1>6. e = [name |-> e.name, sd |-> e.sd] /\ e.name \in Paths /\ e.sd \in [Parts -> Values]
  BY <1>2 DEF Node, Descriptor
<1> QED BY <1>4, <1>5, <1>6 DEF L!Add

\* SetFileSecurity changes one part of one descriptor, or nothing.
LEMMA OneStoredStores ==
  ASSUME IInv, IInv', NEW t \in Threads, OneStored(t)
  PROVE  L!Store \/ List' = List
<1>0. TypeOK /\ TypeOK'
  BY DEF IInv
<1>1. PICK p \in Parts, v \in Values :
        found[t] \in Listed =>
          node'[found[t]].sd \in {node[found[t]].sd, [node[found[t]].sd EXCEPT ![p] = v]}
  BY DEF OneStored
<1>2. /\ filenodes' = filenodes
      /\ \A i \in Listed : /\ node'[i].name = node[i].name
                           /\ i # found[t] => node'[i] = node[i]
  BY DEF OneStored
<1>3. List' = [k \in DOMAIN filenodes |-> node'[filenodes[k]]]
  BY <1>2, ListAtNext
<1>4. \A k \in DOMAIN filenodes : filenodes[k] \in Listed
  BY DEF Listed
<1>5. \A n, m \in Node : n.name = m.name /\ n.sd = m.sd => n = m
  BY DEF Node
<1>6. \A i \in Listed : node[i] \in Node /\ node'[i] \in Node
  <2>1. Listed \subseteq Ids
    BY <1>0 DEF Listed, TypeOK
  <2> QED BY <1>0, <2>1 DEF TypeOK
<1>7. ASSUME \A i \in Listed : node'[i] = node[i]
      PROVE  List' = List
  BY <1>3, <1>4, <1>7 DEF List
<1>8. CASE found[t] \notin Listed \/ node'[found[t]].sd = node[found[t]].sd
  BY <1>2, <1>5, <1>6, <1>7, <1>8
<1>9. ASSUME found[t] \in Listed, node'[found[t]].sd # node[found[t]].sd
      PROVE  L!Store
  <2>1. PICK k \in DOMAIN filenodes : filenodes[k] = found[t]
    BY <1>9 DEF Listed
  <2> DEFINE old == node[found[t]]
             new == node'[found[t]]
  <2>2. new.sd = [old.sd EXCEPT ![p] = v]
    BY <1>1, <1>9
  <2>3. new = [old EXCEPT !.sd = [@ EXCEPT ![p] = v]]
    <3>1. old \in Node /\ new \in Node /\ new.name = old.name
      BY <1>2, <1>6, <1>9
    <3> HIDE DEF old, new
    <3> QED BY <2>2, <3>1 DEF Node
  <2>4. \A m \in DOMAIN filenodes :
          node'[filenodes[m]] = IF m = k THEN new ELSE node[filenodes[m]]
    BY <1>0, <1>2, <1>4, <2>1, ListFacts DEF NoTwice
  <2>5. List[k] = old /\ k \in DOMAIN List
    BY <2>1, ListAt
  <2>6. List' = [m \in DOMAIN filenodes |-> IF m = k THEN new ELSE List[m]]
    BY <1>3, <2>4, ListAt
  <2> HIDE DEF old, new
  <2>7. List' = [List EXCEPT ![k] = new]
    BY <2>6, ListAt
  <2>8. List' = [List EXCEPT ![k].sd = [@ EXCEPT ![p] = v]]
    BY <2>3, <2>5, <2>7
  <2> QED BY <2>5, <2>8 DEF L!Store
<1> QED BY <1>8, <1>9

\* deleteFileNode takes off the first of the name.
LEMMA OneLessRemoves ==
  ASSUME IInv, IInv', NEW t \in Threads, OneLess(t)
  PROVE  L!Remove
<1>0. TypeOK /\ at[t] \in Paths
  BY DEF IInv, TypeOK
<1>1. PICK i \in DOMAIN filenodes : Finds(at[t], i) /\ filenodes' = Without(i)
  BY DEF OneLess
<1>2. i \in L!First(at[t])
  BY <1>0, <1>1, FindsIsFirst
<1> DEFINE n == Len(filenodes) - 1
<1>3. DOMAIN filenodes' = 1..n
  BY <1>1 DEF Without
<1>4. \A k \in 1..n :
        /\ filenodes'[k] = filenodes[IF k < i THEN k ELSE k + 1]
        /\ node'[filenodes'[k]] = node[filenodes'[k]]
        /\ (IF k < i THEN k ELSE k + 1) \in DOMAIN filenodes
  <2>1. filenodes' = [k \in 1..n |-> filenodes[IF k < i THEN k ELSE k + 1]]
    BY <1>1 DEF Without
  <2>2. \A k \in 1..n : filenodes'[k] = filenodes[IF k < i THEN k ELSE k + 1]
    BY <2>1
  <2>3. \A k \in 1..n : node'[filenodes'[k]] = node[filenodes'[k]]
    BY <1>3 DEF OneLess
  <2>4. /\ Len(filenodes) \in Nat /\ DOMAIN filenodes = 1..Len(filenodes)
        /\ i \in 1..Len(filenodes)
    BY <1>0, ListFacts
  <2>5. \A k \in 1..n : (IF k < i THEN k ELSE k + 1) \in DOMAIN filenodes
    BY <2>4
  <2> QED BY <2>2, <2>3, <2>5
<1>5. List' = [k \in 1..n |-> node'[filenodes'[k]]]
  BY <1>3, ListAtNext
<1>6. \A k \in 1..n :
        node'[filenodes'[k]] = IF k < i THEN List[k] ELSE List[k + 1]
  BY <1>4, ListAt
<1>7. Len(List) - 1 = n
  BY <1>0, ListType
<1> HIDE DEF n
<1>8. List' = [k \in 1..n |-> IF k < i THEN List[k] ELSE List[k + 1]]
  BY <1>5, <1>6
<1> QED BY <1>0, <1>2, <1>7, <1>8 DEF L!Remove

\* Nodes::rename gives the first of the name another one.
LEMMA OneRenamedRenames ==
  ASSUME IInv, NEW t \in Threads, OneRenamed(t)
  PROVE  L!Rename
<1>0. TypeOK /\ at[t] \in Paths /\ to[t] \in Paths
  BY DEF IInv, TypeOK
<1>1. PICK i \in DOMAIN filenodes :
        Finds(at[t], i) /\ node' = [node EXCEPT ![filenodes[i]].name = to[t]]
  BY DEF OneRenamed
<1>2. i \in L!First(at[t])
  BY <1>0, <1>1, FindsIsFirst
<1>3. filenodes' = filenodes
  BY DEF OneRenamed
<1> DEFINE new == [node[filenodes[i]] EXCEPT !.name = to[t]]
<1>4. \A m \in DOMAIN filenodes :
        node'[filenodes[m]] = IF m = i THEN new ELSE node[filenodes[m]]
  <2>1. \A m \in DOMAIN filenodes : filenodes[m] \in Ids /\ (filenodes[m] = filenodes[i] => m = i)
    BY <1>0, ListFacts DEF NoTwice
  <2>2. node \in [Ids -> Node]
    BY <1>0 DEF TypeOK
  <2> QED BY <1>1, <2>1, <2>2
<1>5. List' = [m \in DOMAIN filenodes |-> node'[filenodes[m]]]
  BY <1>3, ListAtNext
<1>6. List[i] = node[filenodes[i]] /\ i \in DOMAIN List
  BY ListAt
<1> HIDE DEF new
<1>7. List' = [m \in DOMAIN filenodes |-> IF m = i THEN new ELSE List[m]]
  BY <1>4, <1>5, ListAt
<1>8. List' = [List EXCEPT ![i] = new]
  BY <1>7, ListAt
<1>9. List' = [List EXCEPT ![i].name = to[t]]
  BY <1>6, <1>8 DEF new
<1> QED BY <1>0, <1>2, <1>9 DEF L!Rename

\* However many callbacks run at a time: each takes effect at one moment, adds
\* a name only if nobody has it, and changes one part of what is there then.
THEOREM ListIsKept == Spec => KeepsList
<1>1. Init => L!Init
  <2> SUFFICES ASSUME Init PROVE List = <<>>
    BY DEF L!Init
  <2>1. filenodes = <<>>
    BY DEF Init
  <2> QED BY <2>1 DEF List
<1>2. IInv /\ IInv' /\ [Next]_vars => [L!Next]_List
  <2> SUFFICES ASSUME IInv, IInv', [Next]_vars PROVE L!Next \/ List' = List
    OBVIOUS
  <2>1. CASE SameList
    <3>1. \A k \in DOMAIN filenodes : filenodes[k] \in Listed
      BY DEF Listed
    <3>2. List' = [k \in DOMAIN filenodes |-> node'[filenodes[k]]]
      BY <2>1, ListAtNext DEF SameList
    <3> QED BY <2>1, <3>1, <3>2 DEF SameList, List
  <2>2. CASE OneMore
    BY <2>2, OneMoreAdds DEF L!Next
  <2>3. ASSUME NEW t \in Threads, OneStored(t) \/ OneLess(t) \/ OneRenamed(t)
        PROVE  L!Next \/ List' = List
    BY <2>3, OneStoredStores, OneLessRemoves, OneRenamedRenames DEF L!Next
  <2> QED BY <2>1, <2>2, <2>3, ListSteps
<1> QED BY <1>1, <1>2, Invariance, PTL DEF Spec, KeepsList, L!Spec
=============================================================================
