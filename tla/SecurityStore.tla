---------------------------- MODULE SecurityStore ----------------------------
(***************************************************************************)
(* The security descriptors a mount keeps beside the share it mirrors      *)
(* (struct Nodes, class filenode, FileOps): the share's own descriptors    *)
(* are never used; a list of filenodes, searched by name, holds those the  *)
(* clients have given.  Threads of the driver run the callbacks at the     *)
(* same time: each of them first works on the share and then on the list,  *)
(* and only the list is behind a lock (Nodes::m_mutex), for one call each. *)
(*                                                                         *)
(* A path is a sequence of names.  A descriptor is the values of its parts *)
(* (owner, group, DACL, SACL); a filenode with none reads as the default   *)
(* one.  A callback runs for a handle the client has opened.  The share is *)
(* written through this mount only; other clients of it would add files    *)
(* without a filenode and filenodes without a file, and both occur anyway. *)
(***************************************************************************)
EXTENDS Naturals, Sequences

CONSTANTS
  Paths,      \* what clients name
  Dirs,       \* the paths that name a directory when they exist
  Ids,        \* filenode objects (bound: how many exist at one time)
  Threads,    \* threads of the driver
  Parts,      \* the parts of a security descriptor
  Values,     \* the values of a part
  DefaultSD,  \* CreateDefaultSelfRelativeSD
  Nobody,     \* the holder of a free _data_mutex
  NoNode,     \* no filenode
  NoChange    \* the callback is not SetFileSecurity

Descriptor == [Parts -> Values]
Node       == [name : Paths, sd : Descriptor]
Change     == Parts \X Values
Steps      == {"idle", "adding", "locking", "reading", "writing",
               "removing", "keeping", "renaming"}

ASSUME PathsAssumption ==
  /\ Paths # {}
  /\ Dirs \subseteq Paths
ASSUME ValuesAssumption ==
  /\ DefaultSD \in Descriptor
  /\ Nobody \notin Threads
  /\ NoNode \notin Ids
  /\ NoChange \notin Change

VARIABLES
  present,    \* the paths that exist on the share
  deleting,   \* their deletion is requested, the handle is not closed yet
  filenodes,  \* Nodes::_filenodes
  node,       \* the filenode objects
  holder,     \* who holds the _data_mutex of each
  pc,         \* where each thread is in its callback
  at, to,     \* FileName and NewFileName
  found,      \* the filenode the callback has found or made
  change,     \* what SetFileSecurity is to change
  heap,       \* heapSecurityDescriptor
  had         \* history: the paths in deleting that had a filenode

shareVars  == <<present, deleting, had>>
threadVars == <<pc, at, to, found, change, heap>>
vars == <<shareVars, filenodes, node, holder, threadVars>>

-----------------------------------------------------------------------------
(* The share.                                                              *)

\* The path q lies in the directory p.
Below(p, q) == Len(p) < Len(q) /\ SubSeq(q, 1, Len(p)) = p

\* The directory of a new path exists.
HasDirectory(x, S) ==
  Len(x) > 1 => SubSeq(x, 1, Len(x) - 1) \in S \cap Dirs

Empty(x, S) == ~\E y \in S : Below(x, y)

\* Where x and what lies in it end up when x is moved to y.
Rebase(z, x, y) == IF z = x \/ Below(x, z)
                   THEN y \o SubSeq(z, Len(x) + 1, Len(z)) ELSE z

-----------------------------------------------------------------------------
(* The list of filenodes.                                                  *)

Name(i) == node[filenodes[i]].name

\* findFileNodeP: the first filenode with the name.
Finds(x, i) ==
  /\ i \in DOMAIN filenodes
  /\ Name(i) = x
  /\ \A k \in 1..(i - 1) : Name(k) # x

Unknown(x) == \A i \in DOMAIN filenodes : Name(i) # x

\* What GetFileSecurity returns for a path.
Reads(x, d) ==
  \/ \E i \in DOMAIN filenodes : Finds(x, i) /\ d = node[filenodes[i]].sd
  \/ Unknown(x) /\ d = DefaultSD

\* The objects some shared_ptr refers to: of the list or of a callback.
Referred(list, founds) ==
  {list[i] : i \in DOMAIN list} \cup {founds[t] : t \in Threads}

Fresh == Ids \ Referred(filenodes, found)

Blank == [name |-> CHOOSE x \in Paths : TRUE, sd |-> DefaultSD]

\* The others are freed.
Freed(nodes, list, founds) ==
  [i \in Ids |-> IF i \in Referred(list, founds) THEN nodes[i] ELSE Blank]

\* The list without its element at i.
Without(i) ==
  [k \in 1..(Len(filenodes) - 1) |-> filenodes[IF k < i THEN k ELSE k + 1]]

-----------------------------------------------------------------------------
\* The share may hold files when it is mounted; there is no .dat file yet.
Init ==
  /\ present \in {S \in SUBSET Paths : \A x \in S : HasDirectory(x, S)}
  /\ deleting = {}
  /\ had = {}
  /\ filenodes = <<>>
  /\ node = [i \in Ids |-> Blank]
  /\ holder = [i \in Ids |-> Nobody]
  /\ pc = [t \in Threads |-> "idle"]
  /\ at = [t \in Threads |-> Blank.name]
  /\ to = [t \in Threads |-> Blank.name]
  /\ found = [t \in Threads |-> NoNode]
  /\ change = [t \in Threads |-> NoChange]
  /\ heap = [t \in Threads |-> DefaultSD]

\* The callback of an idle thread goes on at step s, for the path x.
GoOn(t, s, x) ==
  /\ pc[t] = "idle"
  /\ pc' = [pc EXCEPT ![t] = s]
  /\ at' = [at EXCEPT ![t] = x]

Step(t, s) == pc' = [pc EXCEPT ![t] = s]

\* The callback returns; what it had in its variables is gone.
Return(t) ==
  /\ pc' = [pc EXCEPT ![t] = "idle"]
  /\ at' = [at EXCEPT ![t] = Blank.name]
  /\ to' = [to EXCEPT ![t] = Blank.name]
  /\ found' = [found EXCEPT ![t] = NoNode]
  /\ change' = [change EXCEPT ![t] = NoChange]
  /\ heap' = [heap EXCEPT ![t] = DefaultSD]

-----------------------------------------------------------------------------
(* MirrorCreateFile.                                                       *)

\* CREATE_NEW: a filenode with the caller's descriptor is made before the
\* share is asked.  A directory that the share refuses returns an error; a
\* file goes on to addFileNode in any case, because the test of the handle,
\* "!= INVALID_HANDLE_VALUE || != NULL", is true of every handle.
CreateNew(t, x, d, i) ==
  /\ i \in Fresh
  /\ GoOn(t, "adding", x)
  /\ node' = [node EXCEPT ![i] = [name |-> x, sd |-> d]]
  /\ found' = [found EXCEPT ![t] = i]
  /\ \/ /\ x \notin present
        /\ HasDirectory(x, present)
        /\ present' = present \cup {x}
     \/ /\ x \notin Dirs
        /\ present' = present
  /\ UNCHANGED <<deleting, had, filenodes, holder, to, change, heap>>

\* OPEN_ALWAYS and CREATE_ALWAYS make a file, OPEN_ALWAYS a directory,
\* without a filenode.
CreateAlways(t, x) ==
  /\ pc[t] = "idle"
  /\ x \notin present
  /\ HasDirectory(x, present)
  /\ present' = present \cup {x}
  /\ UNCHANGED <<deleting, had, filenodes, node, holder, threadVars>>

\* Faulty: addFileNode does not look for the name, or replaces the filenode
\* that has it.
AddNodeUnchecked(t) ==
  /\ pc[t] = "adding"
  /\ filenodes' = Append(filenodes, found[t])
  /\ Return(t)
  /\ UNCHANGED <<shareVars, node, holder>>

AddNodeReplacing(t) ==
  /\ pc[t] = "adding"
  /\ \/ Unknown(node[found[t]].name) /\ filenodes' = Append(filenodes, found[t])
     \/ \E i \in DOMAIN filenodes :
          /\ Finds(node[found[t]].name, i)
          /\ filenodes' = [filenodes EXCEPT ![i] = found[t]]
  /\ Return(t)
  /\ node' = Freed(node, filenodes', found')
  /\ UNCHANGED <<shareVars, holder>>

\* addFileNode, of MirrorCreateFile and of MirrorSetFileSecurity: a filenode
\* whose name is in the list is dropped, and neither caller looks whether.
AddNode(t) ==
  /\ pc[t] = "adding"
  /\ filenodes' = IF Unknown(node[found[t]].name)
                  THEN Append(filenodes, found[t]) ELSE filenodes
  /\ Return(t)
  /\ node' = Freed(node, filenodes', found')
  /\ UNCHANGED <<shareVars, holder>>

-----------------------------------------------------------------------------
(* MirrorSetFileSecurity.                                                  *)

\* Faulty: the position in the list is kept for the filenode.
SetFindPosition(t, x, c) ==
  /\ x \in present
  /\ change' = [change EXCEPT ![t] = c]
  /\ \E i \in DOMAIN filenodes : Finds(x, i) /\ found' = [found EXCEPT ![t] = i]
  /\ GoOn(t, "locking", x)
  /\ UNCHANGED <<shareVars, filenodes, node, holder, to, heap>>

\* findFileNode: with a filenode it is changed in place, without one a new
\* one is made from the default descriptor.
SetFind(t, x, c) ==
  /\ x \in present
  /\ change' = [change EXCEPT ![t] = c]
  /\ \/ \E i \in DOMAIN filenodes :
          /\ Finds(x, i)
          /\ GoOn(t, "locking", x)
          /\ found' = [found EXCEPT ![t] = filenodes[i]]
          /\ node' = node
     \/ \E i \in Fresh :
          /\ Unknown(x)
          /\ GoOn(t, "adding", x)
          /\ found' = [found EXCEPT ![t] = i]
          /\ node' = [node EXCEPT ![i] =
                        [name |-> x, sd |-> [DefaultSD EXCEPT ![c[1]] = c[2]]]]
  /\ UNCHANGED <<shareVars, filenodes, holder, to, heap>>

\* Faulty: the lock_guard is missing.
SetLockMissing(t) ==
  /\ pc[t] = "locking"
  /\ Step(t, "reading")
  /\ UNCHANGED <<shareVars, filenodes, node, holder, at, to, found, change, heap>>

\* std::lock_guard on _data_mutex.
SetLock(t) ==
  /\ pc[t] = "locking"
  /\ holder[found[t]] = Nobody
  /\ holder' = [holder EXCEPT ![found[t]] = t]
  /\ Step(t, "reading")
  /\ UNCHANGED <<shareVars, filenodes, node, at, to, found, change, heap>>

\* GetDescriptor copies the descriptor to the heap.
SetRead(t) ==
  /\ pc[t] = "reading"
  /\ heap' = [heap EXCEPT ![t] = node[found[t]].sd]
  /\ Step(t, "writing")
  /\ UNCHANGED <<shareVars, filenodes, node, holder, at, to, found, change>>

\* SetPrivateObjectSecurity changes the copy, and SetDescriptor stores it; or
\* "stat", which nothing has written, is not zero, and nothing is stored.
SetWrite(t) ==
  /\ pc[t] = "writing"
  /\ Return(t)
  /\ \E d \in {node[found[t]].sd, [heap[t] EXCEPT ![change[t][1]] = change[t][2]]} :
       node' = Freed([node EXCEPT ![found[t]].sd = d], filenodes, found')
  /\ holder' = [holder EXCEPT ![found[t]] = Nobody]
  /\ UNCHANGED <<shareVars, filenodes>>

-----------------------------------------------------------------------------
(* MirrorDeleteFile, DeleteDirectory, MirrorCleanup.                       *)

\* DeleteOnClose is TRUE: the share accepts, then the filenode is removed.
RequestDelete(t, x) ==
  /\ x \in present
  /\ x \in Dirs => Empty(x, present)
  /\ GoOn(t, "removing", x)
  /\ deleting' = deleting \cup {x}
  /\ had' = IF Unknown(x) \/ x \in deleting THEN had ELSE had \cup {x}
  /\ UNCHANGED <<present, filenodes, node, holder, to, found, change, heap>>

\* DeleteOnClose is FALSE, the file is to stay: a directory has nothing to do.
CancelDelete(t, x) ==
  /\ x \in deleting
  /\ \A s \in Threads : pc[s] = "removing" => at[s] # x
  /\ deleting' = deleting \ {x}
  /\ IF x \in Dirs
     THEN /\ pc[t] = "idle"
          /\ had' = had \ {x}
          /\ UNCHANGED threadVars
     ELSE /\ GoOn(t, "keeping", x)
          /\ UNCHANGED <<had, to, found, change, heap>>
  /\ UNCHANGED <<present, filenodes, node, holder>>

\* deleteFileNode(FileName), whatever DeleteOnClose is.
RemoveNode(t) ==
  /\ pc[t] \in {"removing", "keeping"}
  /\ \/ Unknown(at[t]) /\ filenodes' = filenodes
     \/ \E i \in DOMAIN filenodes : Finds(at[t], i) /\ filenodes' = Without(i)
  /\ had' = IF pc[t] = "keeping" THEN had \ {at[t]} ELSE had
  /\ Return(t)
  /\ node' = Freed(node, filenodes', found')
  /\ UNCHANGED <<present, deleting, holder>>

\* Cleanup with DeleteOnClose: the file is gone once its handle is closed; a
\* directory that has got an entry by now stays.
Cleanup(x) ==
  /\ x \in deleting
  /\ \A s \in Threads : pc[s] \in {"removing", "keeping"} => at[s] # x
  /\ deleting' = deleting \ {x}
  /\ had' = had \ {x}
  /\ present' = IF Empty(x, present) THEN present \ {x} ELSE present
  /\ UNCHANGED <<filenodes, node, holder, threadVars>>

-----------------------------------------------------------------------------
(* MirrorMoveFile.                                                         *)

\* SetFileInformationByHandle: a file may replace a file, and a directory
\* takes what lies in it along.
MoveOnShare(t, x, y) ==
  /\ x \in present /\ x # y /\ ~Below(x, y)
  /\ x \in Dirs <=> y \in Dirs
  /\ HasDirectory(y, present)
  /\ y \in present => x \notin Dirs
  /\ \A z \in deleting : z # y /\ Rebase(z, x, y) = z
  /\ GoOn(t, "renaming", x)
  /\ to' = [to EXCEPT ![t] = y]
  /\ present' = {Rebase(z, x, y) : z \in present}
  /\ present' \subseteq Paths
  /\ UNCHANGED <<deleting, had, filenodes, node, holder, found, change, heap>>

\* Nodes::rename: the first filenode of the old name gets the new one.  One
\* that has the new name already stays, and so do those of what lies below.
RenameNode(t) ==
  /\ pc[t] = "renaming"
  /\ \/ Unknown(at[t]) /\ node' = node
     \/ \E i \in DOMAIN filenodes :
          /\ Finds(at[t], i)
          /\ node' = [node EXCEPT ![filenodes[i]].name = to[t]]
  /\ Return(t)
  /\ UNCHANGED <<shareVars, filenodes, holder>>

-----------------------------------------------------------------------------
Callback(t) ==
  \/ \E x \in Paths :
       \/ \E d \in Descriptor, i \in Ids : CreateNew(t, x, d, i)
       \/ CreateAlways(t, x)
       \/ \E c \in Change : SetFind(t, x, c)
       \/ RequestDelete(t, x)
       \/ CancelDelete(t, x)
       \/ \E y \in Paths : MoveOnShare(t, x, y)
  \/ AddNode(t)
  \/ SetLock(t) \/ SetRead(t) \/ SetWrite(t)
  \/ RemoveNode(t)
  \/ RenameNode(t)

Next == (\E t \in Threads : Callback(t)) \/ (\E x \in Paths : Cleanup(x))

Spec == Init /\ [][Next]_vars

-----------------------------------------------------------------------------
(* Properties.                                                             *)

\* Every variable holds a value of its kind, and the list no filenode twice.
TypeOK ==
  /\ present \subseteq Paths
  /\ deleting \subseteq present
  /\ had \subseteq Paths
  /\ filenodes \in Seq(Ids)
  /\ \A i, k \in DOMAIN filenodes : filenodes[i] = filenodes[k] => i = k
  /\ node \in [Ids -> Node]
  /\ holder \in [Ids -> Threads \cup {Nobody}]
  /\ pc \in [Threads -> Steps]
  /\ at \in [Threads -> Paths]
  /\ to \in [Threads -> Paths]
  /\ found \in [Threads -> Ids \cup {NoNode}]
  /\ change \in [Threads -> Change \cup {NoChange}]
  /\ heap \in [Threads -> Descriptor]

\* SetFileSecurity on a known path reads, changes and stores in one go as
\* far as other threads can tell: what it has read is what is there when it
\* stores, so that two callbacks that set two parts both take effect.
ReadIsFresh ==
  \A t \in Threads : pc[t] = "writing" => heap[t] = node[found[t]].sd

\* The list gets a second filenode of one name only by a rename: callbacks
\* that look for a name, find none and add one later cannot produce it.
Unique == \A i, k \in DOMAIN filenodes : Name(i) = Name(k) => i = k

Duplicates ==
  Unique /\ ~Unique' => \E t \in Threads : pc[t] = "renaming" /\ pc'[t] = "idle"

OnlyRenameDuplicates == [][Duplicates]_vars

\* What a client reads for a path that has a filenode changes only when a
\* callback stores a change in that very filenode, deletes the path, or moves
\* a file from it or to it: creating a file over it, a failed create, or a
\* first SetFileSecurity that found nothing, never replaces it.
Touches(t, x) ==
  \/ pc[t] = "writing" /\ \E i \in DOMAIN filenodes : Finds(x, i) /\ found[t] = filenodes[i]
  \/ pc[t] \in {"removing", "keeping"} /\ at[t] = x
  \/ pc[t] = "renaming" /\ x \in {at[t], to[t]}

Stable ==
  \A x \in Paths, d \in Descriptor :
    ~Unknown(x) /\ Reads(x, d)
      => Reads(x, d)' \/ \E t \in Threads : Touches(t, x) /\ pc'[t] = "idle"

KnownSecurityIsStable == [][Stable]_vars

\* The callbacks take several steps, hold filenodes that others rename, delete
\* or change meanwhile, and act on what they looked up before; for the clients
\* each takes effect at one moment, on the list as it is then (DescriptorList).
\* So a rename is what makes a second filenode of a name, and nothing that
\* another callback has stored is undone.
List == [k \in DOMAIN filenodes |-> node[filenodes[k]]]

L == INSTANCE DescriptorList WITH list <- List
KeepsList == L!Spec

\* "DeleteFile will also be called with DOKAN_FILE_INFO.DeleteOnClose set to
\* FALSE to notify the driver when the file is no longer requested to be
\* deleted" (dokan.h:478): a file that had a filenode when its deletion was
\* requested has one when the request has been taken back.
CancelKeepsFilenode ==
  [][ \A x \in had \ had' : x \in deleting' \/ ~Unknown(x)' \/ x \notin present' ]_vars

\* STATUS_SUCCESS "on success" (dokan.h:739): when a SetFileSecurity that made
\* a filenode returns, the change is what a client reads.
SuccessIsReadBack ==
  [][ \A t \in Threads, x \in Paths, p \in Parts, v \in Values :
        pc[t] = "adding" /\ pc'[t] = "idle" /\ at[t] = x /\ change[t] = <<p, v>>
          => \E d \in Descriptor : Reads(x, d)' /\ d[p] = v ]_vars

=============================================================================
