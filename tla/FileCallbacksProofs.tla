------------------------- MODULE FileCallbacksProofs -------------------------
(***************************************************************************)
(* Proofs about FileCallbacks, for any number of threads, opens, handles   *)
(* and writes, and for every count at which a write flushes.               *)
(***************************************************************************)
EXTENDS FileCallbacks, TLAPS

\* Threads that read the cached file, and where a thread can be.
Reading == {"read", "test", "filled"} \cup Filling
Places  == {"idle"} \cup Holding \cup {"info"} \cup CopyInfo

\* The values of the variables that the invariants below are about.
TypeInv ==
  /\ context \in [Opens -> Handles \cup {Null}]
  /\ owner \in [Handles -> Opens \cup {Null}]
  /\ counts \in [Handles -> Nat \cup {Null}]
  /\ unflushed \in [Handles -> Nat]
  /\ missed \in [Handles -> Nat]
  /\ pc \in [Threads -> Places]
  /\ open \in [Threads -> Opens \cup {Null}]
  /\ handle \in [Threads -> Handles \cup {Null}]
  /\ reopened \in [Threads -> BOOLEAN]
  /\ raced \in [Handles -> BOOLEAN]
  /\ pointer \in [Handles -> Threads \cup {Null, Start}]
  /\ met \in [Threads -> BOOLEAN]
  /\ cut \in [Threads -> BOOLEAN]

\* A thread has a handle, which may be closed under it, in the callbacks of
\* several steps, and only there; it reads for the cache from the cached file.
HandleInv ==
  \A t \in Threads :
    /\ pc[t] \in Holding => handle[t] \in Handles /\ open[t] \in Opens
    /\ pc[t] \notin Holding => handle[t] = Null /\ ~cut[t]
    /\ pc[t] \in Reading => open[t] \in Cached

\* The Context of an open is a handle of its file.
ContextInv ==
  \A o \in Opens : context[o] # Null => owner[context[o]] = o

(***************************************************************************)
(* A handle that a thread opened for itself is of its file and nobody else *)
(* has it; a handle it took from an open is of that open's file until the  *)
(* open is cleaned up or closed.                                           *)
(***************************************************************************)
OwnerInv ==
  \A t \in Threads : pc[t] \in Holding =>
    /\ ~cut[t] => /\ owner[handle[t]] = open[t]
                  /\ reopened[t] \/ context[open[t]] = handle[t]
    /\ reopened[t] =>
         /\ ~cut[t]
         /\ \A o \in Opens : context[o] # handle[t]
         /\ \A x \in Threads \ {t} : handle[x] = handle[t] => cut[x]

(***************************************************************************)
(* While no two writes used the entry of a handle at once, one thread at   *)
(* most is in a write with it, and the count is not behind the writes by   *)
(* more than the one this thread has made and those of the flushes that    *)
(* failed.                                                                 *)
(***************************************************************************)
At(t, h) == pc[t] \in InWrite /\ handle[t] = h
Owed(h)  == (FlushAt + 1) * missed[h]
Behind(h) ==
  /\ (\A t \in Threads : ~At(t, h)) => unflushed[h] <= CountOf(h) + Owed(h)
  /\ \A t \in Threads : At(t, h) =>
       /\ pc[t] \in {"write", "placed"} => unflushed[h] <= CountOf(h) + Owed(h)
       /\ pc[t] \in {"written", "add"} => unflushed[h] <= CountOf(h) + 1 + Owed(h)
       /\ pc[t] = "due" => unflushed[h] <= FlushAt + 1 + Owed(h)
       /\ pc[t] = "flushed" => unflushed[h] <= Owed(h)
Counted(h) ==
  ~raced[h] =>
    /\ \A t, x \in Threads : At(t, h) /\ At(x, h) => t = x
    /\ CountOf(h) <= FlushAt
    /\ \A t \in Threads : At(t, h) /\ pc[t] = "add" => CountOf(h) < FlushAt
    /\ owner[h] # Null => Behind(h)
CountInv == \A h \in Handles : Counted(h)

(***************************************************************************)
(* Two threads that count on the file pointer of one handle have met, and  *)
(* until a thread meets another callback the pointer stays where it has    *)
(* put it.                                                                 *)
(***************************************************************************)
Pointed(t) ==
  pc[t] \in Seeking =>
    /\ Others(t, handle[t], Seeking) # {} => met[t]
    /\ ~met[t] /\ ~cut[t] =>
         /\ pc[t] \in {"placed", "resized"} => pointer[handle[t]] = t
         /\ pc[t] \in Filling => pointer[handle[t]] = Start
PointerInv == \A t \in Threads : Pointed(t)

\* What the cache holds when nobody is filling it and nothing went wrong.
CacheInv ==
  /\ spoiled = "no" =>
       /\ \A t, x \in Threads : pc[t] \in Filling /\ pc[x] \in Filling => t = x
       /\ \A t \in Threads : pc[t] = "unset" => ~dataSet
       /\ dataSet /\ (\A t \in Threads : pc[t] \notin Filling) => data = "whole"
  /\ infoSet /\ (\A t \in Threads : pc[t] \notin CopyInfo) => info = "whole"

Base == TypeInv /\ HandleInv /\ ContextInv
IInv == Base /\ OwnerInv /\ CountInv /\ PointerInv /\ CacheInv /\ AnswersAreWhole

-----------------------------------------------------------------------------
(* The kinds of steps.                                                     *)

\* A callback goes on with its handle, or returns; another takes a handle.
Going(t) ==
  \/ Place(t) \/ Write(t) \/ SetEnd(t) \/ TestCount(t) \/ Flush(t)
  \/ ReadShare(t) \/ TestLength(t) \/ SetLength(t) \/ Allocate(t) \/ Fill(t)
Returning(t) == GiveUp(t) \/ ResetCount(t) \/ AddOne(t) \/ EndRead(t)
Taking(t, o) == BeginWrite(t, o) \/ BeginResize(t, o) \/ BeginRead(t, o)

\* Callbacks of one step that use the cache, and those that have no handle.
Asking(t) == ReadCached(t) \/ GetFileInformation(t)

\* The count of a handle is a number.
LEMMA CountFacts ==
  ASSUME TypeInv, NEW h \in Handles
  PROVE  CountOf(h) \in Nat
BY DEF TypeInv, CountOf

\* A callback meets others, and nothing makes that undone.
LEMMA MeetFacts ==
  ASSUME TypeInv, NEW t \in Threads, NEW h, NEW seeks \in BOOLEAN, Meet(t, h, seeks)
  PROVE  /\ met' \in [Threads -> BOOLEAN]
         /\ \A x \in Threads : met[x] => met'[x]
         /\ \A x \in Others(t, h, Seeking) : met'[x]
         /\ seeks /\ Others(t, h, Seeking) # {} => met'[t]
         /\ \A x \in Threads : met'[x] => met[x] \/ x \in Others(t, h, Seeking)
                                           \/ (x = t /\ seeks)
BY DEF Meet, TypeInv, Others

\* A callback that goes on keeps its handle.
LEMMA GoingFacts ==
  ASSUME TypeInv, HandleInv, NEW t \in Threads, Going(t)
  PROVE  /\ pc[t] \in Holding /\ pc'[t] \in Holding /\ pc' \in [Threads -> Places]
         /\ pc'[t] \in Reading <=> pc[t] \in Reading
         /\ pc'[t] \in InWrite <=> pc[t] \in InWrite
         /\ \A x \in Threads \ {t} : pc'[x] = pc[x]
         /\ UNCHANGED <<context, owner, open, handle, reopened, raced, cut>>
         /\ counts' \in [Handles -> Nat \cup {Null}]
         /\ unflushed' \in [Handles -> Nat] /\ missed' \in [Handles -> Nat]
         /\ pointer' \in [Handles -> Threads \cup {Null, Start}]
         /\ met' \in [Threads -> BOOLEAN]
         /\ \A x \in Threads : met[x] => met'[x]
         /\ \A h \in Handles \ {handle[t]} :
              /\ counts'[h] = counts[h] /\ unflushed'[h] = unflushed[h]
              /\ missed'[h] = missed[h] /\ pointer'[h] = pointer[h]
<1> USE DEF InWrite, Counting, InResize, Filling, Seeking, Holding, Reading, Goto
<1>1. handle[t] \in Handles /\ pc[t] \in Holding
  BY DEF HandleInv, Going, Place, Write, SetEnd, TestCount, Flush, ReadShare,
         TestLength, SetLength, Allocate, Fill
<1>2. CountOf(handle[t]) \in Nat
  BY <1>1, CountFacts
<1>3. \A l : pc' = [pc EXCEPT ![t] = l] /\ l \in Holding =>
        pc' \in [Threads -> Places] /\ pc'[t] = l
        /\ \A x \in Threads \ {t} : pc'[x] = pc[x]
  BY DEF TypeInv, Places
<1>4. CASE Place(t)
  BY <1>1, <1>3, <1>4 DEF Place, TypeInv, threads, history
<1>5. CASE Write(t)
  <2>1. unflushed' = [unflushed EXCEPT ![handle[t]] = @ + 1]
    BY <1>5 DEF Write
  <2>2. /\ unflushed' \in [Handles -> Nat]
        /\ \A h \in Handles \ {handle[t]} : unflushed'[h] = unflushed[h]
    BY <1>1, <2>1 DEF TypeInv
  <2> QED BY <1>1, <1>3, <1>5, <2>2 DEF Write, TypeInv, threads, history
<1>6. CASE SetEnd(t)
  BY <1>1, <1>3, <1>6 DEF SetEnd, TypeInv, files, threads, history
<1>7. CASE TestCount(t)
  BY <1>1, <1>2, <1>3, <1>7 DEF TestCount, TypeInv, files, threads, history
<1>8. CASE Flush(t)
  <2>1. /\ unflushed' \in [Handles -> Nat] /\ missed' \in [Handles -> Nat]
        /\ \A h \in Handles \ {handle[t]} :
             unflushed'[h] = unflushed[h] /\ missed'[h] = missed[h]
    BY <1>1, <1>8 DEF Flush, TypeInv
  <2> QED BY <1>1, <1>3, <1>8, <2>1 DEF Flush, TypeInv, threads, history
<1>9. CASE ReadShare(t)
  <2>1. Meet(t, handle[t], FALSE)
    BY <1>9 DEF ReadShare
  <2>2. met' \in [Threads -> BOOLEAN] /\ \A x \in Threads : met[x] => met'[x]
    BY <2>1, MeetFacts
  <2> QED BY <1>1, <1>3, <1>9, <2>2 DEF ReadShare, TypeInv, threads
<1>10. CASE TestLength(t)
  <2>1. Meet(t, handle[t], TRUE)
    BY <1>10 DEF TestLength
  <2>2. met' \in [Threads -> BOOLEAN] /\ \A x \in Threads : met[x] => met'[x]
    BY <2>1, MeetFacts
  <2> QED BY <1>1, <1>3, <1>10, <2>2 DEF TestLength, TypeInv, threads
<1>11. CASE SetLength(t)
  BY <1>1, <1>3, <1>11 DEF SetLength, TypeInv, files, threads, history
<1>12. CASE Allocate(t)
  BY <1>1, <1>3, <1>12 DEF Allocate, TypeInv, files, threads, history
<1>13. CASE Fill(t)
  BY <1>1, <1>3, <1>13 DEF Fill, TypeInv, threads, history
<1> QED BY <1>4, <1>5, <1>6, <1>7, <1>8, <1>9, <1>10, <1>11, <1>12, <1>13 DEF Going

\* A callback that returns has no handle any more; its own is closed.
LEMMA ReturnFacts ==
  ASSUME TypeInv, HandleInv, NEW t \in Threads, Returning(t)
  PROVE  /\ pc[t] \in Holding /\ handle[t] \in Handles
         /\ pc' \in [Threads -> Places] /\ pc'[t] = "idle"
         /\ \A x \in Threads \ {t} : pc'[x] = pc[x]
         /\ handle' \in [Threads -> Handles \cup {Null}] /\ handle'[t] = Null
         /\ \A x \in Threads \ {t} : handle'[x] = handle[x]
         /\ open' \in [Threads -> Opens \cup {Null}]
         /\ \A x \in Threads \ {t} : open'[x] = open[x]
         /\ reopened' \in [Threads -> BOOLEAN]
         /\ \A x \in Threads \ {t} : reopened'[x] = reopened[x]
         /\ met' \in [Threads -> BOOLEAN] /\ cut' \in [Threads -> BOOLEAN] /\ ~cut'[t]
         /\ \A x \in Threads \ {t} : met'[x] = met[x] /\ cut'[x] = cut[x]
         /\ UNCHANGED <<context, raced>>
         /\ owner' \in [Handles -> Opens \cup {Null}]
         /\ unflushed' \in [Handles -> Nat] /\ missed' \in [Handles -> Nat]
         /\ pointer' \in [Handles -> Threads \cup {Null, Start}]
         /\ \A h \in Handles :
              \/ reopened[t] /\ h = handle[t] /\ owner'[h] = Null
              \/ /\ ~(reopened[t] /\ h = handle[t])
                 /\ owner'[h] = owner[h] /\ unflushed'[h] = unflushed[h]
                 /\ missed'[h] = missed[h] /\ pointer'[h] = pointer[h]
<1>1. Return(t) /\ pc[t] \in Holding /\ UNCHANGED <<context, raced>>
  BY DEF Returning, GiveUp, ResetCount, AddOne, EndRead, InWrite, Counting, InResize,
         Filling, Seeking, Holding
<1>2. handle[t] \in Handles
  BY <1>1 DEF HandleInv
<1>3. CASE reopened[t]
  BY <1>1, <1>2, <1>3 DEF TypeInv, Return, CloseHandle, Goto, Places
<1>4. CASE ~reopened[t]
  BY <1>1, <1>2, <1>4 DEF TypeInv, Return, Goto, Places
<1> QED BY <1>3, <1>4

\* What a thread has when it has taken a handle.
Took(t, o, h) ==
  /\ pc[t] = "idle" /\ pc'[t] \in Holding /\ pc' \in [Threads -> Places]
  /\ \A x \in Threads \ {t} : pc'[x] = pc[x]
  /\ open' \in [Threads -> Opens \cup {Null}] /\ open'[t] = o
  /\ \A x \in Threads \ {t} : open'[x] = open[x]
  /\ handle' \in [Threads -> Handles \cup {Null}] /\ handle'[t] = h
  /\ \A x \in Threads \ {t} : handle'[x] = handle[x]
  /\ reopened' \in [Threads -> BOOLEAN]
  /\ \A x \in Threads \ {t} : reopened'[x] = reopened[x]
  /\ UNCHANGED <<context, counts, cut>>
  /\ owner' \in [Handles -> Opens \cup {Null}]
  /\ unflushed' \in [Handles -> Nat] /\ missed' \in [Handles -> Nat]
  /\ pointer' \in [Handles -> Threads \cup {Null, Start}]
  /\ \/ /\ context[o] = h /\ owner[h] = o /\ ~reopened'[t]
        /\ UNCHANGED <<owner, unflushed, missed, pointer>>
     \/ /\ context[o] = Null /\ owner[h] = Null /\ reopened'[t]
        /\ owner'[h] = o /\ unflushed'[h] = 0
        /\ \A g \in Handles \ {h} :
             /\ owner'[g] = owner[g] /\ unflushed'[g] = unflushed[g]
             /\ missed'[g] = missed[g] /\ pointer'[g] = pointer[g]

\* The handle is the Context of the open, or a number that was free.
LEMMA TakeFacts ==
  ASSUME Base, NEW t \in Threads, NEW o \in Opens, NEW l \in Holding, TakeHandle(t, o, l)
  PROVE  \E h \in Handles : Took(t, o, h) /\ pc'[t] = l
<1>1. TypeInv /\ ContextInv
  BY DEF Base
<1>2. l \in Places
  BY DEF Places
<1>3. CASE context[o] # Null
  <2>1. context[o] \in Handles /\ owner[context[o]] = o
    BY <1>1, <1>3 DEF TypeInv, ContextInv
  <2>2. Took(t, o, context[o]) /\ pc'[t] = l
    BY <1>1, <1>2, <1>3, <2>1 DEF Took, TakeHandle, Goto, TypeInv
  <2> QED BY <2>1, <2>2
<1>4. CASE context[o] = Null
  <2>1. PICK h \in Handles : OpenHandle(o, h) /\ handle' = [handle EXCEPT ![t] = h]
    BY <1>4 DEF TakeHandle
  <2>2. Took(t, o, h) /\ pc'[t] = l
    BY <1>1, <1>2, <1>4, <2>1 DEF Took, TakeHandle, OpenHandle, Goto, TypeInv
  <2> QED BY <2>1, <2>2
<1> QED BY <1>3, <1>4

\* What the three callbacks that take a handle do besides.
LEMMA TakingFacts ==
  ASSUME Base, NEW t \in Threads, NEW o \in Opens, Taking(t, o)
  PROVE  \E h \in Handles :
           /\ Took(t, o, h)
           /\ raced' \in [Handles -> BOOLEAN] /\ met' \in [Threads -> BOOLEAN]
           /\ \A x \in Threads : met[x] => met'[x]
           /\ \/ /\ pc'[t] = "write"
                 /\ raced' = [raced EXCEPT ![h] = @ \/ Others(t, h, InWrite) # {}]
                 /\ Meet(t, h, TRUE)
              \/ /\ pc'[t] = "resize"
                 /\ raced' = raced
                 /\ Meet(t, h, TRUE)
              \/ /\ pc'[t] = "read" /\ o \in Cached
                 /\ UNCHANGED <<raced, met>>
<1>1. TypeInv
  BY DEF Base
<1>2. {"write", "resize", "read"} \subseteq Holding
  BY DEF InWrite, InResize, Seeking, Holding
<1>3. CASE BeginWrite(t, o)
  <2>1. PICK h \in Handles : Took(t, o, h) /\ pc'[t] = "write"
    BY <1>2, <1>3, TakeFacts DEF BeginWrite
  <2>2. handle'[t] = h
    BY <2>1 DEF Took
  <2>3. Meet(t, h, TRUE) /\ raced' = [raced EXCEPT ![h] = @ \/ Others(t, h, InWrite) # {}]
    BY <1>3, <2>2 DEF BeginWrite
  <2>4. met' \in [Threads -> BOOLEAN] /\ \A x \in Threads : met[x] => met'[x]
    BY <1>1, <2>3, MeetFacts
  <2> QED BY <1>1, <2>1, <2>3, <2>4 DEF TypeInv
<1>4. CASE BeginResize(t, o)
  <2>1. PICK h \in Handles : Took(t, o, h) /\ pc'[t] = "resize"
    BY <1>2, <1>4, TakeFacts DEF BeginResize
  <2>2. h = context[o]
    BY <1>4, <2>1 DEF Took, BeginResize
  <2>3. Meet(t, h, TRUE) /\ raced' = raced
    BY <1>4, <2>2 DEF BeginResize
  <2>4. met' \in [Threads -> BOOLEAN] /\ \A x \in Threads : met[x] => met'[x]
    BY <1>1, <2>3, MeetFacts
  <2> QED BY <1>1, <2>1, <2>3, <2>4 DEF TypeInv
<1>5. CASE BeginRead(t, o)
  <2>1. PICK h \in Handles : Took(t, o, h) /\ pc'[t] = "read"
    BY <1>2, <1>5, TakeFacts DEF BeginRead
  <2> QED BY <1>1, <1>5, <2>1 DEF BeginRead, TypeInv
<1> QED BY <1>3, <1>4, <1>5 DEF Taking

\* Callbacks of the cache that have no handle.
LEMMA AskingFacts ==
  ASSUME TypeInv, NEW t \in Threads, Asking(t)
  PROVE  /\ UNCHANGED <<files, counts, threads, history>>
         /\ pc' \in [Threads -> Places]
         /\ \A x \in Threads : pc'[x] = pc[x] \/ (pc[x] \notin Holding /\ pc'[x] \notin Holding)
<1> USE DEF InWrite, Counting, InResize, Filling, Seeking, Holding, CopyInfo, Places, Goto,
            TypeInv
<1>1. CASE ReadCached(t) \/ InfoCached(t)
  BY <1>1 DEF ReadCached, InfoCached
<1>2. CASE InfoFromShare(t) \/ TestInfo(t)
  BY <1>2 DEF InfoFromShare, TestInfo
<1>3. CASE BeginCopy(t) \/ EndCopy(t)
  BY <1>3 DEF BeginCopy, EndCopy
<1> QED BY <1>1, <1>2, <1>3 DEF Asking, GetFileInformation

\* A read moves the file pointer of its handle, and who counts on it meets it.
LEMMA ReadOpenFacts ==
  ASSUME TypeInv, NEW t \in Threads, NEW o \in Opens, ReadOpen(t, o)
  PROVE  /\ UNCHANGED <<context, owner, unflushed, missed, counts, pc, threads, raced,
                        cut, cache>>
         /\ pc[t] = "idle"
         /\ pointer' \in [Handles -> Threads \cup {Null, Start}]
         /\ met' \in [Threads -> BOOLEAN]
         /\ context[o] \in Handles
         /\ \A h \in Handles : h # context[o] => pointer'[h] = pointer[h]
         /\ \A x \in Threads : met[x] => met'[x]
         /\ \A x \in Others(t, context[o], Seeking) : met'[x]
<1>1. context[o] \in Handles /\ Meet(t, context[o], FALSE)
  BY DEF ReadOpen, TypeInv
<1>2. /\ met' \in [Threads -> BOOLEAN]
      /\ \A x \in Threads : met[x] => met'[x]
      /\ \A x \in Others(t, context[o], Seeking) : met'[x]
  BY <1>1, MeetFacts
<1> QED BY <1>1, <1>2 DEF ReadOpen, TypeInv

\* MirrorCleanup and MirrorCloseFile close the handle of an open.
LEMMA CloseFacts ==
  ASSUME TypeInv, NEW o \in Opens, Cleanup(o) \/ CloseFile(o)
  PROVE  \E h \in Handles :
           /\ context[o] = h
           /\ context' = [context EXCEPT ![o] = Null]
           /\ owner' = [owner EXCEPT ![h] = Null]
           /\ pointer' = [pointer EXCEPT ![h] = Null]
           /\ cut' = [t \in Threads |-> cut[t] \/ (pc[t] \in Holding /\ handle[t] = h)]
           /\ UNCHANGED <<pc, open, handle, reopened, met, cache>>
           /\ unflushed' \in [Handles -> Nat] /\ missed' \in [Handles -> Nat]
           /\ counts' \in [Handles -> Nat \cup {Null}] /\ raced' \in [Handles -> BOOLEAN]
           /\ \A g \in Handles \ {h} :
                /\ unflushed'[g] = unflushed[g] /\ missed'[g] = missed[g]
                /\ counts'[g] = counts[g] /\ raced'[g] = raced[g]
           /\ \/ UNCHANGED <<counts, raced>>
              \/ /\ counts'[h] = Null
                 /\ raced'[h] = (raced[h] /\ \E t \in Threads : At(t, h))
<1>1. PICK h \in Handles : h = context[o]
  BY DEF Cleanup, CloseFile, TypeInv
<1>2. CASE Cleanup(o)
  BY <1>1, <1>2 DEF Cleanup, CloseHandle, CutOff, At, TypeInv, threads
<1>3. CASE CloseFile(o)
  BY <1>1, <1>3 DEF CloseFile, CloseHandle, CutOff, TypeInv, threads
<1> QED BY <1>2, <1>3

\* Next, by the kinds of its steps.
LEMMA NextKinds ==
  ASSUME [Next]_vars
  PROVE  \/ \E o \in Opens, h \in Handles : Create(o, h)
         \/ \E o \in Opens : Cleanup(o) \/ CloseFile(o) \/ FlushOpen(o)
         \/ \E t \in Threads, o \in Opens : Taking(t, o) \/ ReadOpen(t, o)
         \/ \E t \in Threads : Going(t) \/ Returning(t) \/ Asking(t)
         \/ UNCHANGED vars
BY DEF Next, WriteFile, ReadFile, Taking, Going, Returning, Asking

-----------------------------------------------------------------------------
(* Types, handles and contexts.                                            *)

\* The kinds of places do not overlap.
LEMMA PlaceFacts ==
  /\ "idle" \notin Holding /\ InWrite \subseteq Seeking /\ Seeking \subseteq Holding
  /\ Filling \subseteq Seeking /\ Filling \subseteq Reading /\ Reading \subseteq Holding
  /\ "write" \in InWrite /\ "resize" \in Seeking /\ "read" \in Reading
  /\ "write" \notin Reading /\ "resize" \notin InWrite \cup Reading
  /\ "read" \notin Seeking /\ {"placed", "resized"} \subseteq Seeking
  /\ {"placed", "resized", "write", "resize", "read", "idle"} \cap Filling = {}
  /\ CopyInfo \cap Holding = {} /\ "idle" \notin CopyInfo
BY DEF InWrite, Counting, InResize, Filling, Seeking, Holding, Reading, CopyInfo

\* Every step keeps the types, the handles and the contexts.
LEMMA NextBase == Base /\ OwnerInv /\ [Next]_vars => Base'
<1> SUFFICES ASSUME Base, OwnerInv, [Next]_vars PROVE Base'
  OBVIOUS
<1>0. TypeInv /\ HandleInv /\ ContextInv
  BY DEF Base
<1>b. Null \notin Handles /\ Null \notin Opens /\ Cached \subseteq Opens
  BY FileCallbacksAssumption DEF FileCallbacksAssumption
<1>1. ASSUME NEW o \in Opens, NEW h \in Handles, Create(o, h) PROVE Base'
  <2>1. counts' \in [Handles -> Nat \cup {Null}]
    BY <1>0, <1>1, CountFacts DEF Create, InsertCount, TypeInv
  <2>2. TypeInv'
    BY <1>0, <1>1, <2>1 DEF Create, OpenHandle, TypeInv, threads, history
  <2> QED BY <1>0, <1>1, <1>b, <2>2
          DEF Create, OpenHandle, Base, TypeInv, HandleInv, ContextInv, threads, history
<1>2. ASSUME NEW o \in Opens, Cleanup(o) \/ CloseFile(o) PROVE Base'
  <2>1. PICK h \in Handles :
          /\ context[o] = h
          /\ context' = [context EXCEPT ![o] = Null]
          /\ owner' = [owner EXCEPT ![h] = Null]
          /\ pointer' = [pointer EXCEPT ![h] = Null]
          /\ cut' = [t \in Threads |-> cut[t] \/ (pc[t] \in Holding /\ handle[t] = h)]
          /\ UNCHANGED <<pc, open, handle, reopened, met>>
          /\ unflushed' \in [Handles -> Nat] /\ missed' \in [Handles -> Nat]
          /\ counts' \in [Handles -> Nat \cup {Null}] /\ raced' \in [Handles -> BOOLEAN]
    BY <1>0, <1>2, CloseFacts
  <2>2. TypeInv'
    BY <1>0, <2>1 DEF TypeInv
  <2>3. HandleInv'
    BY <1>0, <2>1 DEF HandleInv
  <2>4. ContextInv'
    BY <1>0, <1>b, <2>1 DEF TypeInv, ContextInv
  <2> QED BY <2>2, <2>3, <2>4 DEF Base
<1>3. ASSUME NEW o \in Opens, FlushOpen(o) PROVE Base'
  <2>1. TypeInv'
    BY <1>0, <1>3 DEF FlushOpen, TypeInv, threads, history
  <2> QED BY <1>0, <1>3, <2>1
          DEF FlushOpen, Base, HandleInv, ContextInv, threads, history
<1>4. ASSUME NEW t \in Threads, NEW o \in Opens, Taking(t, o) PROVE Base'
  <2>1. PICK h \in Handles :
          /\ Took(t, o, h)
          /\ raced' \in [Handles -> BOOLEAN] /\ met' \in [Threads -> BOOLEAN]
          /\ pc'[t] \in Reading => o \in Cached
    BY <1>4, TakingFacts, PlaceFacts
  <2>2. counts' = counts /\ cut' = cut /\ context' = context
    BY <2>1 DEF Took
  <2>3. TypeInv'
    BY <1>0, <2>1, <2>2 DEF Took, TypeInv
  <2>4. HandleInv'
    BY <1>0, <2>1, <2>2 DEF Took, HandleInv
  <2>5. ContextInv'
    BY <1>0, <1>b, <2>1, <2>2 DEF Took, TypeInv, ContextInv
  <2> QED BY <2>3, <2>4, <2>5 DEF Base
<1>5. ASSUME NEW t \in Threads, Going(t) PROVE Base'
  <2>1. TypeInv'
    BY <1>0, <1>5, GoingFacts DEF TypeInv
  <2>2. HandleInv'
    BY <1>0, <1>5, GoingFacts DEF HandleInv
  <2>3. ContextInv'
    BY <1>0, <1>5, GoingFacts DEF ContextInv
  <2> QED BY <2>1, <2>2, <2>3 DEF Base
<1>6. ASSUME NEW t \in Threads, Returning(t) PROVE Base'
  <2>1. counts' \in [Handles -> Nat \cup {Null}]
    <3>1. handle[t] \in Handles
      BY <1>0, <1>6, ReturnFacts
    <3>2. (CountOf(handle[t]) + 1) % Modulus \in Nat
      BY <1>0, <3>1, CountFacts, FileCallbacksAssumption DEF FileCallbacksAssumption
    <3> QED BY <1>0, <1>6, <3>1, <3>2
            DEF Returning, GiveUp, ResetCount, AddOne, EndRead, TypeInv
  <2>2. TypeInv'
    BY <1>0, <1>6, <2>1, ReturnFacts DEF TypeInv
  <2>3. HandleInv'
    BY <1>0, <1>6, ReturnFacts, PlaceFacts DEF HandleInv
  <2>4. ContextInv'
    <3> SUFFICES ASSUME NEW o \in Opens, context[o] # Null PROVE owner'[context[o]] = o
      BY <1>0, <1>6, ReturnFacts DEF ContextInv
    <3>1. context[o] \in Handles /\ owner[context[o]] = o
      BY <1>0 DEF TypeInv, ContextInv
    <3>2. reopened[t] => context[o] # handle[t]
      BY <1>0, <1>6, ReturnFacts DEF OwnerInv
    <3> QED BY <1>0, <1>6, <3>1, <3>2, ReturnFacts
  <2> QED BY <2>2, <2>3, <2>4 DEF Base
<1>7. ASSUME NEW t \in Threads, Asking(t) PROVE Base'
  <2>1. TypeInv'
    BY <1>0, <1>7, AskingFacts DEF TypeInv, files, threads, history
  <2>2. HandleInv'
    BY <1>0, <1>7, AskingFacts, PlaceFacts DEF HandleInv, files, threads, history
  <2> QED BY <1>0, <1>7, <2>1, <2>2, AskingFacts DEF Base, ContextInv, files, threads, history
<1>8. ASSUME NEW t \in Threads, NEW o \in Opens, ReadOpen(t, o) PROVE Base'
  <2>1. TypeInv'
    BY <1>0, <1>8, ReadOpenFacts DEF TypeInv, threads
  <2> QED BY <1>0, <1>8, <2>1, ReadOpenFacts DEF Base, HandleInv, ContextInv, threads
<1>9. CASE UNCHANGED vars
  BY <1>0, <1>9 DEF Base, TypeInv, HandleInv, ContextInv, vars, files, threads, history
<1> QED BY <1>1, <1>2, <1>3, <1>4, <1>5, <1>6, <1>7, <1>8, <1>9, NextKinds

-----------------------------------------------------------------------------
(* Whose file a handle is of.                                              *)

\* A callback returns: a handle it had for itself was nobody else's.
LEMMA ReturnOwner ==
  ASSUME Base, OwnerInv, NEW t \in Threads, Returning(t)
  PROVE  OwnerInv'
<1>1. TypeInv /\ HandleInv /\ context' = context
  BY ReturnFacts DEF Base
<1> SUFFICES ASSUME NEW x \in Threads, pc'[x] \in Holding
             PROVE  /\ ~cut'[x] => /\ owner'[handle'[x]] = open'[x]
                                   /\ reopened'[x] \/ context'[open'[x]] = handle'[x]
                    /\ reopened'[x] =>
                         /\ ~cut'[x]
                         /\ \A o \in Opens : context'[o] # handle'[x]
                         /\ \A y \in Threads \ {x} : handle'[y] = handle'[x] => cut'[y]
  BY DEF OwnerInv
<1>3. /\ x # t /\ pc[x] \in Holding /\ handle'[x] = handle[x] /\ open'[x] = open[x]
      /\ reopened'[x] = reopened[x] /\ cut'[x] = cut[x] /\ handle[x] \in Handles
  BY <1>1, ReturnFacts, PlaceFacts DEF HandleInv
<1>4. ~cut[x] => ~(reopened[t] /\ handle[x] = handle[t])
  BY <1>1, <1>3, ReturnFacts DEF OwnerInv
<1>5. ~cut[x] => owner'[handle[x]] = open[x]
  <2> SUFFICES ASSUME ~cut[x] PROVE owner'[handle[x]] = open[x]
    OBVIOUS
  <2>1. owner'[handle[x]] = owner[handle[x]]
    BY <1>1, <1>3, <1>4, ReturnFacts
  <2> QED BY <1>3, <2>1 DEF OwnerInv
<1>6. \A y \in Threads \ {x} :
        handle'[y] = handle'[x] => handle[y] = handle[x] /\ cut'[y] = cut[y]
  BY <1>1, <1>3, ReturnFacts, FileCallbacksAssumption DEF FileCallbacksAssumption
<1> QED BY <1>1, <1>3, <1>5, <1>6 DEF OwnerInv

\* A thread takes the handle of an open, or a number that was closed: whoever
\* still has that number was cut.
LEMMA TakeOwner ==
  ASSUME Base, OwnerInv, NEW t \in Threads, NEW o \in Opens, Taking(t, o)
  PROVE  OwnerInv'
<1>1. TypeInv /\ HandleInv /\ ContextInv
  BY DEF Base
<1>2. PICK h \in Handles : Took(t, o, h)
  BY TakingFacts
<1>3. Null \notin Handles /\ Null \notin Opens
  BY FileCallbacksAssumption DEF FileCallbacksAssumption
<1>4. /\ pc[t] = "idle" /\ context' = context /\ cut' = cut /\ ~cut[t]
      /\ open'[t] = o /\ handle'[t] = h
      /\ \A x \in Threads \ {t} : /\ pc'[x] = pc[x] /\ open'[x] = open[x]
                                 /\ handle'[x] = handle[x] /\ reopened'[x] = reopened[x]
  BY <1>1, <1>2, PlaceFacts DEF Took, HandleInv
<1>5. CASE context[o] = h /\ owner[h] = o /\ ~reopened'[t] /\ owner' = owner
  <2>1. \A x \in Threads \ {t} : pc[x] \in Holding /\ reopened[x] => handle[x] # h
    BY <1>5 DEF OwnerInv
  <2> QED BY <1>4, <1>5, <2>1 DEF OwnerInv
<1>6. CASE /\ context[o] = Null /\ owner[h] = Null /\ reopened'[t] /\ owner'[h] = o
           /\ \A g \in Handles \ {h} : owner'[g] = owner[g]
  <2>1. \A x \in Threads \ {t} : pc[x] \in Holding /\ handle[x] = h => cut[x]
    BY <1>1, <1>3, <1>6 DEF OwnerInv, HandleInv
  <2>2. \A x \in Threads \ {t} : pc[x] \notin Holding => handle[x] # h
    BY <1>1, <1>3 DEF HandleInv
  <2>3. \A p \in Opens : context[p] # h
    BY <1>1, <1>3, <1>6 DEF ContextInv
  <2>4. \A x \in Threads \ {t} :
          pc[x] \in Holding /\ ~cut[x] => owner'[handle[x]] = owner[handle[x]]
    BY <1>1, <1>6, <2>1 DEF HandleInv
  <2>5. \A x \in Threads \ {t} : pc[x] \in Holding /\ reopened[x] => handle[x] # h
    BY <2>1 DEF OwnerInv
  <2> QED BY <1>4, <1>6, <2>1, <2>2, <2>3, <2>4, <2>5 DEF OwnerInv
<1> QED BY <1>2, <1>5, <1>6 DEF Took

\* Every step keeps the handles with their files.
LEMMA NextOwner == Base /\ OwnerInv /\ [Next]_vars => OwnerInv'
<1> SUFFICES ASSUME Base, OwnerInv, [Next]_vars PROVE OwnerInv'
  OBVIOUS
<1>0. TypeInv /\ HandleInv /\ ContextInv
  BY DEF Base
<1>b. Null \notin Handles /\ Null \notin Opens
  BY FileCallbacksAssumption DEF FileCallbacksAssumption
<1>1. ASSUME NEW o \in Opens, NEW h \in Handles, Create(o, h) PROVE OwnerInv'
  <2>1. /\ owner[h] = Null /\ context[o] = Null
        /\ context' = [context EXCEPT ![o] = h] /\ owner' = [owner EXCEPT ![h] = o]
        /\ UNCHANGED <<pc, open, handle, reopened, cut>>
    BY <1>1 DEF Create, OpenHandle, threads, history
  <2>2. \A t \in Threads : pc[t] \in Holding /\ ~cut[t] =>
          /\ owner'[handle[t]] = owner[handle[t]]
          /\ reopened[t] \/ context'[open[t]] = context[open[t]]
    BY <1>0, <1>b, <2>1 DEF TypeInv, HandleInv, OwnerInv
  <2>3. \A t \in Threads : pc[t] \in Holding /\ reopened[t] =>
          \A p \in Opens : context'[p] # handle[t]
    BY <1>0, <1>b, <2>1 DEF TypeInv, HandleInv, OwnerInv
  <2> QED BY <2>1, <2>2, <2>3 DEF OwnerInv
<1>2. ASSUME NEW o \in Opens, Cleanup(o) \/ CloseFile(o) PROVE OwnerInv'
  <2>1. PICK h \in Handles :
          /\ context[o] = h
          /\ context' = [context EXCEPT ![o] = Null]
          /\ owner' = [owner EXCEPT ![h] = Null]
          /\ cut' = [t \in Threads |-> cut[t] \/ (pc[t] \in Holding /\ handle[t] = h)]
          /\ UNCHANGED <<pc, open, handle, reopened>>
    BY <1>0, <1>2, CloseFacts
  <2>2. \A t \in Threads : pc[t] \in Holding /\ ~cut'[t] =>
          /\ ~cut[t] /\ handle[t] # h /\ owner'[handle[t]] = owner[handle[t]]
          /\ reopened[t] \/ (open[t] # o /\ context'[open[t]] = context[open[t]])
    BY <1>0, <2>1 DEF TypeInv, HandleInv, OwnerInv
  <2>3. \A t \in Threads : pc[t] \in Holding /\ reopened[t] =>
          ~cut'[t] /\ \A p \in Opens : context'[p] # handle[t]
    BY <1>0, <1>b, <2>1 DEF TypeInv, HandleInv, OwnerInv
  <2>4. \A t \in Threads : cut[t] => cut'[t]
    BY <2>1
  <2> QED BY <2>1, <2>2, <2>3, <2>4 DEF OwnerInv
<1>3. ASSUME NEW o \in Opens, FlushOpen(o) PROVE OwnerInv'
  BY <1>3 DEF FlushOpen, threads, history, OwnerInv
<1>4. ASSUME NEW t \in Threads, Going(t) PROVE OwnerInv'
  BY <1>0, <1>4, GoingFacts DEF OwnerInv
<1>5. ASSUME NEW t \in Threads, Asking(t) PROVE OwnerInv'
  <2>1. UNCHANGED <<context, owner, open, handle, reopened, cut>>
    BY <1>0, <1>5, AskingFacts DEF files, threads, history
  <2>2. \A x \in Threads : pc'[x] \in Holding => pc[x] \in Holding
    BY <1>0, <1>5, AskingFacts
  <2> QED BY <2>1, <2>2 DEF OwnerInv
<1>6. ASSUME NEW t \in Threads, NEW o \in Opens, ReadOpen(t, o) PROVE OwnerInv'
  BY <1>0, <1>6, ReadOpenFacts DEF OwnerInv, threads
<1>7. CASE UNCHANGED vars
  BY <1>7 DEF OwnerInv, vars, files, threads, history
<1> QED BY <1>1, <1>2, <1>3, <1>4, <1>5, <1>6, <1>7, NextKinds, TakeOwner, ReturnOwner

-----------------------------------------------------------------------------
(* How far the count of a handle is behind.                                *)

\* A step that leaves the writes with a handle where they are: it keeps what was
\* counted of it, closes it, or leaves nothing to be flushed.
LEMMA CalmHandle ==
  ASSUME TypeInv, TypeInv', NEW h \in Handles, Counted(h),
         \A x \in Threads : /\ At(x, h)' <=> At(x, h)
                            /\ At(x, h) => pc'[x] = pc[x],
         CountOf(h)' = CountOf(h), raced'[h] = raced[h],
         \/ owner'[h] = Null
         \/ owner[h] # Null /\ unflushed'[h] = unflushed[h] /\ missed'[h] = missed[h]
         \/ unflushed'[h] = 0
  PROVE  Counted(h)'
<1> SUFFICES ASSUME ~raced[h] PROVE Counted(h)'
  BY DEF Counted
<1>1. /\ \A t, x \in Threads : At(t, h)' /\ At(x, h)' => t = x
      /\ CountOf(h)' <= FlushAt
      /\ \A t \in Threads : At(t, h)' /\ pc'[t] = "add" => CountOf(h)' < FlushAt
  BY DEF Counted
<1>2. owner'[h] # Null => Behind(h)'
  <2>1. CASE owner[h] # Null /\ unflushed'[h] = unflushed[h] /\ missed'[h] = missed[h]
    <3>1. Owed(h)' = Owed(h) /\ Behind(h)
      BY <2>1 DEF Owed, Counted
    <3> QED BY <2>1, <3>1 DEF Behind
  <2>2. CASE unflushed'[h] = 0
    <3>1. missed'[h] \in Nat /\ FlushAt \in Nat /\ CountOf(h)' \in Nat
      BY CountFacts, FileCallbacksAssumption DEF TypeInv, FileCallbacksAssumption
    <3>2. Owed(h)' \in Nat
      BY <3>1 DEF Owed
    <3>3. /\ 0 <= CountOf(h)' + Owed(h)' /\ 0 <= CountOf(h)' + 1 + Owed(h)'
          /\ 0 <= FlushAt + 1 + Owed(h)' /\ 0 <= Owed(h)'
      BY <3>1, <3>2
    <3> QED BY <2>2, <3>3 DEF Behind
  <2> QED BY <2>1, <2>2
<1> QED BY <1>1, <1>2 DEF Counted

\* What a write makes of its own handle, if nobody else is in a write with it.
LEMMA OwnHandle ==
  ASSUME NEW t \in Threads, NEW h \in Handles, Counted(h), At(t, h),
         raced'[h] = raced[h], owner'[h] # Null => owner[h] # Null,
         \A x \in Threads \ {t} : pc'[x] = pc[x] /\ handle'[x] = handle[x],
         ~raced[h] =>
           /\ CountOf(h)' <= FlushAt
           /\ pc'[t] = "add" => CountOf(h)' < FlushAt
           /\ owner'[h] # Null =>
                /\ ~At(t, h)' => unflushed'[h] <= CountOf(h)' + Owed(h)'
                /\ pc'[t] \in {"write", "placed"} => unflushed'[h] <= CountOf(h)' + Owed(h)'
                /\ pc'[t] \in {"written", "add"}
                     => unflushed'[h] <= CountOf(h)' + 1 + Owed(h)'
                /\ pc'[t] = "due" => unflushed'[h] <= FlushAt + 1 + Owed(h)'
                /\ pc'[t] = "flushed" => unflushed'[h] <= Owed(h)'
  PROVE  Counted(h)'
<1> SUFFICES ASSUME ~raced[h] PROVE Counted(h)'
  BY DEF Counted
<1>1. \A x \in Threads \ {t} : ~At(x, h)'
  BY DEF Counted, At
<1>2. owner'[h] # Null => Behind(h)'
  BY <1>1 DEF Behind
<1> QED BY <1>1, <1>2 DEF Counted

\* The numbers of a handle.
LEMMA Numbers ==
  ASSUME TypeInv, NEW h \in Handles
  PROVE  /\ CountOf(h) \in Nat /\ FlushAt \in Nat /\ unflushed[h] \in Nat
         /\ Owed(h) \in Nat
         /\ Modulus \in Nat /\ FlushAt < Modulus /\ Null \notin Nat
         /\ Null \notin Handles
<1>1. CountOf(h) \in Nat /\ missed[h] \in Nat /\ unflushed[h] \in Nat
  BY CountFacts DEF TypeInv
<1>2. FlushAt \in Nat
  BY FileCallbacksAssumption DEF FileCallbacksAssumption
<1> QED BY <1>1, <1>2, FileCallbacksAssumption DEF Owed, FileCallbacksAssumption

\* A step of a thread in a write changes its own handle only.
LEMMA OtherHandle ==
  ASSUME TypeInv, TypeInv', NEW t \in Threads, NEW h \in Handles, NEW g \in Handles \ {h},
         Counted(g), handle[t] \in {h, Null}, handle'[t] \in {h, Null},
         \A x \in Threads \ {t} : pc'[x] = pc[x] /\ handle'[x] = handle[x],
         counts'[g] = counts[g], raced'[g] = raced[g],
         \/ owner'[g] = Null
         \/ /\ owner'[g] = owner[g] /\ unflushed'[g] = unflushed[g]
            /\ missed'[g] = missed[g]
  PROVE  Counted(g)'
<1>1. Null \notin Handles
  BY FileCallbacksAssumption DEF FileCallbacksAssumption
<1>2. \A x \in Threads : /\ At(x, g)' <=> At(x, g)
                         /\ At(x, g) => pc'[x] = pc[x]
  BY <1>1 DEF At
<1>3. CountOf(g)' = CountOf(g)
  BY DEF CountOf
<1> QED BY <1>2, <1>3, CalmHandle

\* A write goes on.
LEMMA GoOnCount ==
  ASSUME Base, Base', CountInv, NEW t \in Threads, Going(t), pc[t] \in InWrite
  PROVE  CountInv'
<1>1. TypeInv /\ HandleInv /\ TypeInv'
  BY DEF Base
<1>2. PICK h \in Handles : h = handle[t] /\ At(t, h)
  BY <1>1, PlaceFacts DEF HandleInv, At
<1>3. /\ handle' = handle /\ raced' = raced /\ owner' = owner
      /\ \A x \in Threads \ {t} : pc'[x] = pc[x] /\ handle'[x] = handle[x]
      /\ At(t, h)'
      /\ \A g \in Handles \ {h} : /\ counts'[g] = counts[g] /\ unflushed'[g] = unflushed[g]
                                 /\ missed'[g] = missed[g]
  BY <1>1, <1>2, GoingFacts DEF At
<1>4. /\ CountOf(h) \in Nat /\ FlushAt \in Nat /\ unflushed[h] \in Nat /\ Owed(h) \in Nat
      /\ Null \notin Nat
  BY <1>1, Numbers
<1>5. Counted(h)
  BY <1>2 DEF CountInv
<1>6. \A g \in Handles \ {h} : Counted(g)'
  BY <1>1, <1>2, <1>3, OtherHandle DEF CountInv
<1>7. CASE Place(t)
  <2>1. /\ pc[t] = "write" /\ pc'[t] = "placed"
        /\ UNCHANGED <<unflushed, missed, counts>>
    BY <1>1, <1>7, PlaceFacts DEF Place, Goto, TypeInv
  <2>2. CountOf(h)' = CountOf(h) /\ Owed(h)' = Owed(h)
    BY <2>1 DEF CountOf, Owed
  <2>3. ~raced[h] => /\ CountOf(h) <= FlushAt
                     /\ owner[h] # Null => unflushed[h] <= CountOf(h) + Owed(h)
    BY <1>2, <1>5, <2>1 DEF Counted, Behind
  <2>4. Counted(h)'
    BY <1>2, <1>3, <1>5, <2>1, <2>2, <2>3, OwnHandle
  <2> QED BY <1>6, <2>4 DEF CountInv
<1>8. CASE Write(t)
  <2>1. /\ pc[t] = "placed" /\ pc'[t] = "written"
        /\ unflushed'[h] = unflushed[h] + 1 /\ UNCHANGED <<missed, counts>>
    BY <1>1, <1>2, <1>8 DEF Write, Goto, TypeInv
  <2>2. CountOf(h)' = CountOf(h) /\ Owed(h)' = Owed(h)
    BY <2>1 DEF CountOf, Owed
  <2>3. ~raced[h] => /\ CountOf(h) <= FlushAt
                     /\ owner[h] # Null => unflushed[h] <= CountOf(h) + Owed(h)
    BY <1>2, <1>5, <2>1 DEF Counted, Behind
  <2>4. ~raced[h] => (owner[h] # Null => unflushed[h] + 1 <= CountOf(h) + 1 + Owed(h))
    BY <1>4, <2>3
  <2>5. Counted(h)'
    BY <1>2, <1>3, <1>5, <2>1, <2>2, <2>3, <2>4, OwnHandle
  <2> QED BY <1>6, <2>5 DEF CountInv
<1>9. CASE TestCount(t)
  <2>1. /\ pc[t] = "written" /\ UNCHANGED <<unflushed, missed>>
        /\ counts'[h] = CountOf(h)
        /\ pc'[t] = IF CountOf(h) = FlushAt THEN "due" ELSE "add"
    BY <1>1, <1>2, <1>9 DEF TestCount, Goto, TypeInv, files
  <2>2. CountOf(h)' = CountOf(h) /\ Owed(h)' = Owed(h)
    BY <1>4, <2>1 DEF CountOf, Owed
  <2>3. ~raced[h] => /\ CountOf(h) <= FlushAt
                     /\ owner[h] # Null => unflushed[h] <= CountOf(h) + 1 + Owed(h)
    BY <1>2, <1>5, <2>1 DEF Counted, Behind
  <2>4. pc'[t] = "add" /\ ~raced[h] => CountOf(h) < FlushAt
    BY <1>4, <2>1, <2>3
  <2>5. pc'[t] = "due" => CountOf(h) = FlushAt
    BY <2>1
  <2>6. pc'[t] \in {"due", "add"}
    BY <2>1
  <2>7. Counted(h)'
    BY <1>2, <1>3, <1>5, <2>1, <2>2, <2>3, <2>4, <2>5, <2>6, OwnHandle
  <2> QED BY <1>6, <2>7 DEF CountInv
<1>10. CASE Flush(t)
  <2>1. pc[t] = "due" /\ pc'[t] = "flushed" /\ counts' = counts
    BY <1>1, <1>10 DEF Flush, Goto, TypeInv
  <2>2. ~raced[h] => /\ CountOf(h) <= FlushAt
                     /\ owner[h] # Null => unflushed[h] <= FlushAt + 1 + Owed(h)
    BY <1>2, <1>5, <2>1 DEF Counted, Behind
  <2>3. CountOf(h)' = CountOf(h)
    BY <2>1 DEF CountOf
  <2>4. ~raced[h] /\ owner[h] # Null => unflushed'[h] <= Owed(h)'
    <3> SUFFICES ASSUME ~raced[h], owner[h] # Null PROVE unflushed'[h] <= Owed(h)'
      OBVIOUS
    <3>1. missed[h] \in Nat
      BY <1>1 DEF TypeInv
    <3>2. CASE unflushed'[h] = 0 /\ missed'[h] = 0
      BY <1>4, <3>2 DEF Owed
    <3>3. CASE unflushed'[h] = unflushed[h] /\ missed'[h] = missed[h] + 1
      <4>1. Owed(h)' = (FlushAt + 1) * (missed[h] + 1)
        BY <3>3 DEF Owed
      <4>2. (FlushAt + 1) * (missed[h] + 1) = (FlushAt + 1) * missed[h] + FlushAt + 1
        BY <1>4, <3>1
      <4>3. Owed(h)' = FlushAt + 1 + Owed(h)
        BY <1>4, <3>1, <4>1, <4>2 DEF Owed
      <4> QED BY <2>2, <3>3, <4>3
    <3> QED BY <1>1, <1>2, <1>10, <3>2, <3>3 DEF Flush, TypeInv
  <2>5. Counted(h)'
    BY <1>2, <1>3, <1>5, <2>1, <2>2, <2>3, <2>4, OwnHandle
  <2> QED BY <1>6, <2>5 DEF CountInv
<1> QED BY <1>7, <1>8, <1>9, <1>10
        DEF Going, SetEnd, ReadShare, TestLength, SetLength, Allocate, Fill, InWrite, Counting

\* A write returns.
LEMMA ReturnCount ==
  ASSUME Base, Base', CountInv, NEW t \in Threads, Returning(t), pc[t] \in InWrite
  PROVE  CountInv'
<1>1. TypeInv /\ HandleInv /\ TypeInv'
  BY DEF Base
<1>2. PICK h \in Handles : h = handle[t] /\ At(t, h)
  BY <1>1, ReturnFacts DEF At
<1>3. /\ raced' = raced /\ handle'[t] = Null /\ pc'[t] = "idle"
      /\ \A x \in Threads \ {t} : pc'[x] = pc[x] /\ handle'[x] = handle[x]
      /\ \A g \in Handles :
           \/ owner'[g] = Null
           \/ /\ owner'[g] = owner[g] /\ unflushed'[g] = unflushed[g]
              /\ missed'[g] = missed[g]
  BY <1>1, ReturnFacts
<1>4. /\ CountOf(h) \in Nat /\ FlushAt \in Nat /\ unflushed[h] \in Nat /\ Owed(h) \in Nat
      /\ Modulus \in Nat /\ FlushAt < Modulus /\ Null \notin Nat
  BY <1>1, Numbers
<1>5. \A g \in Handles \ {h} : counts'[g] = counts[g]
  BY <1>1, <1>2 DEF Returning, GiveUp, ResetCount, AddOne, EndRead, TypeInv
<1>6. Counted(h)
  BY <1>2 DEF CountInv
<1>7. \A g \in Handles \ {h} : Counted(g)'
  BY <1>1, <1>2, <1>3, <1>5, OtherHandle DEF CountInv
<1>8. ~raced[h] => /\ CountOf(h)' <= FlushAt
                   /\ owner[h] # Null => unflushed[h] <= CountOf(h)' + Owed(h)
  <2>1. CASE GiveUp(t)
    <3>1. pc[t] \in {"write", "placed"} /\ counts' = counts
      BY <2>1 DEF GiveUp, InResize, InWrite, Counting
    <3> QED BY <1>2, <1>6, <3>1 DEF Counted, Behind, CountOf
  <2>2. CASE ResetCount(t)
    <3>1. CountOf(h)' = 0
      BY <1>1, <1>2, <2>2 DEF ResetCount, CountOf, TypeInv
    <3>2. ~raced[h] => (owner[h] # Null => unflushed[h] <= Owed(h))
      BY <1>2, <1>6, <2>2 DEF ResetCount, Counted, Behind
    <3> QED BY <1>4, <3>1, <3>2
  <2>3. CASE AddOne(t)
    <3>1. (CountOf(h) + 1) % Modulus \in Nat
      BY <1>4
    <3>2. CountOf(h)' = (CountOf(h) + 1) % Modulus
      BY <1>1, <1>2, <1>4, <2>3, <3>1 DEF AddOne, CountOf, TypeInv
    <3>3. ~raced[h] => /\ CountOf(h) < FlushAt
                       /\ owner[h] # Null => unflushed[h] <= CountOf(h) + 1 + Owed(h)
      BY <1>2, <1>6, <2>3 DEF AddOne, Counted, Behind
    <3>4. CountOf(h) < FlushAt => (CountOf(h) + 1) % Modulus = CountOf(h) + 1
      BY <1>4
    <3> QED BY <1>4, <3>2, <3>3, <3>4
  <2> QED BY <2>1, <2>2, <2>3 DEF Returning, EndRead, InWrite, Counting
<1>9. Counted(h)'
  <2>1. owner'[h] # Null => /\ owner[h] # Null /\ unflushed'[h] = unflushed[h]
                            /\ Owed(h)' = Owed(h)
    BY <1>3 DEF Owed
  <2> QED BY <1>2, <1>3, <1>6, <1>8, <2>1, OwnHandle
<1> QED BY <1>7, <1>9 DEF CountInv

\* A thread begins to write with a handle: it is alone with it, or its entry is
\* raced.
LEMMA BeginCount ==
  ASSUME Base, Base', CountInv, NEW t \in Threads, NEW h \in Handles, NEW o \in Opens,
         Took(t, o, h), pc'[t] = "write",
         raced' = [raced EXCEPT ![h] = @ \/ Others(t, h, InWrite) # {}]
  PROVE  CountInv'
<1>1. TypeInv /\ TypeInv' /\ HandleInv
  BY DEF Base
<1>2. Null \notin Handles /\ Null \notin Opens
  BY FileCallbacksAssumption DEF FileCallbacksAssumption
<1>3. /\ pc[t] = "idle" /\ handle[t] = Null /\ counts' = counts /\ handle'[t] = h
      /\ \A x \in Threads \ {t} : pc'[x] = pc[x] /\ handle'[x] = handle[x]
  BY <1>1, PlaceFacts DEF Took, HandleInv
<1>4. /\ raced'[h] = (raced[h] \/ Others(t, h, InWrite) # {})
      /\ \A g \in Handles \ {h} : raced'[g] = raced[g]
  BY <1>1 DEF TypeInv
<1>5. \A g \in Handles \ {h} : /\ owner'[g] = owner[g] /\ unflushed'[g] = unflushed[g]
                              /\ missed'[g] = missed[g]
  BY DEF Took
<1>6. \/ owner[h] # Null /\ unflushed'[h] = unflushed[h] /\ missed'[h] = missed[h]
      \/ unflushed'[h] = 0
  BY <1>2 DEF Took
<1>7. \A g \in Handles \ {h} : Counted(g)'
  BY <1>1, <1>3, <1>4, <1>5, OtherHandle DEF CountInv
<1>8. Counted(h)'
  <2> SUFFICES ASSUME ~raced'[h] PROVE Counted(h)'
    BY DEF Counted
  <2>1. ~raced[h] /\ Others(t, h, InWrite) = {}
    BY <1>4
  <2>2. \A x \in Threads : ~At(x, h)
    BY <1>2, <1>3, <2>1 DEF Others, At
  <2>3. \A x \in Threads \ {t} : ~At(x, h)'
    BY <1>3, <2>2 DEF At
  <2>4. CountOf(h)' = CountOf(h) /\ CountOf(h) <= FlushAt
    BY <1>3, <2>1 DEF CountInv, Counted, CountOf
  <2>5. unflushed'[h] <= CountOf(h)' + Owed(h)'
    <3>1. CASE unflushed'[h] = 0
      <4>1. CountOf(h)' \in Nat /\ Owed(h)' \in Nat
        BY <1>1, Numbers, <2>4 DEF Owed, TypeInv
      <4> QED BY <3>1, <4>1
    <3>2. CASE owner[h] # Null /\ unflushed'[h] = unflushed[h] /\ missed'[h] = missed[h]
      <4>1. unflushed[h] <= CountOf(h) + Owed(h)
        BY <2>1, <2>2, <3>2 DEF CountInv, Counted, Behind
      <4>2. Owed(h)' = Owed(h)
        BY <3>2 DEF Owed
      <4> QED BY <2>4, <3>2, <4>1, <4>2
    <3> QED BY <1>6, <3>1, <3>2
  <2>6. Behind(h)'
    BY <2>3, <2>5 DEF Behind, At
  <2> QED BY <2>3, <2>4, <2>6 DEF Counted
<1> QED BY <1>7, <1>8 DEF CountInv

\* A handle is closed: its entry goes or stays.
LEMMA CloseCount ==
  ASSUME Base, Base', CountInv, NEW o \in Opens, Cleanup(o) \/ CloseFile(o)
  PROVE  CountInv'
<1>1. TypeInv /\ TypeInv'
  BY DEF Base
<1>2. PICK h \in Handles :
        /\ owner' = [owner EXCEPT ![h] = Null]
        /\ UNCHANGED <<pc, handle>>
        /\ \A g \in Handles \ {h} :
             /\ unflushed'[g] = unflushed[g] /\ missed'[g] = missed[g]
             /\ counts'[g] = counts[g] /\ raced'[g] = raced[g]
        /\ \/ UNCHANGED <<counts, raced>>
           \/ /\ counts'[h] = Null
              /\ raced'[h] = (raced[h] /\ \E t \in Threads : At(t, h))
  BY <1>1, CloseFacts
<1>3. \A g \in Handles, x \in Threads : At(x, g)' = At(x, g)
  BY <1>2 DEF At
<1>4. owner'[h] = Null /\ \A g \in Handles \ {h} : owner'[g] = owner[g]
  BY <1>1, <1>2 DEF TypeInv
<1>5. ASSUME NEW g \in Handles \ {h} PROVE Counted(g)'
  <2>1. CountOf(g)' = CountOf(g) /\ Owed(g)' = Owed(g)
    BY <1>2 DEF CountOf, Owed
  <2>2. Behind(g) => Behind(g)'
    BY <1>2, <1>3, <2>1 DEF Behind
  <2> QED BY <1>2, <1>3, <1>4, <2>1, <2>2 DEF CountInv, Counted
<1>6. Counted(h)'
  <2>1. CASE UNCHANGED <<counts, raced>>
    <3>1. CountOf(h)' = CountOf(h)
      BY <2>1 DEF CountOf
    <3> QED BY <1>2, <1>3, <1>4, <2>1, <3>1 DEF CountInv, Counted
  <2>2. CASE /\ counts'[h] = Null
             /\ raced'[h] = (raced[h] /\ \E t \in Threads : At(t, h))
    <3>1. CountOf(h)' = 0 /\ CountOf(h) \in Nat /\ FlushAt \in Nat
      BY <1>1, <2>2, Numbers DEF CountOf
    <3>2. CASE raced[h] /\ \A t \in Threads : ~At(t, h)
      BY <1>3, <1>4, <3>1, <3>2 DEF Counted
    <3>3. CASE ~raced[h]
      BY <1>2, <1>3, <1>4, <3>1, <3>3 DEF CountInv, Counted
    <3>4. CASE raced[h] /\ \E t \in Threads : At(t, h)
      BY <2>2, <3>4 DEF Counted
    <3> QED BY <3>2, <3>3, <3>4
  <2> QED BY <1>2, <2>1, <2>2
<1> QED BY <1>5, <1>6 DEF CountInv

\* Every step keeps the counts with the writes.
LEMMA NextCount == Base /\ Base' /\ CountInv /\ [Next]_vars => CountInv'
<1> SUFFICES ASSUME Base, Base', CountInv, [Next]_vars PROVE CountInv'
  OBVIOUS
<1>0. TypeInv /\ HandleInv /\ TypeInv' /\ Null \notin Handles
  BY FileCallbacksAssumption DEF Base, FileCallbacksAssumption
<1>1. ASSUME \A h \in Handles :
               /\ \A x \in Threads : (At(x, h)' <=> At(x, h)) /\ (At(x, h) => pc'[x] = pc[x])
               /\ CountOf(h)' = CountOf(h) /\ raced'[h] = raced[h]
               /\ \/ owner'[h] = Null
                  \/ owner[h] # Null /\ unflushed'[h] = unflushed[h] /\ missed'[h] = missed[h]
                  \/ unflushed'[h] = 0
      PROVE  CountInv'
  BY <1>0, <1>1, CalmHandle DEF CountInv
<1>2. ASSUME NEW o \in Opens, NEW h \in Handles, Create(o, h) PROVE CountInv'
  <2>1. /\ pc' = pc /\ handle' = handle /\ raced' = raced /\ unflushed'[h] = 0
        /\ \A g \in Handles \ {h} : /\ unflushed'[g] = unflushed[g]
                                   /\ missed'[g] = missed[g] /\ owner'[g] = owner[g]
    BY <1>0, <1>2 DEF Create, OpenHandle, TypeInv, threads, history
  <2>2. \A g \in Handles : CountOf(g)' = CountOf(g)
    BY <1>0, <1>2, CountFacts, FileCallbacksAssumption
       DEF Create, InsertCount, CountOf, TypeInv, FileCallbacksAssumption
  <2>3. \A g \in Handles, x \in Threads : At(x, g)' <=> At(x, g)
    BY <2>1 DEF At
  <2> QED BY <1>1, <2>1, <2>2, <2>3
<1>3. ASSUME NEW o \in Opens, FlushOpen(o) PROVE CountInv'
  <2>1. /\ UNCHANGED <<pc, handle, raced, owner, counts>>
        /\ \A g \in Handles : \/ unflushed'[g] = unflushed[g] /\ missed'[g] = missed[g]
                              \/ unflushed'[g] = 0
    BY <1>0, <1>3 DEF FlushOpen, TypeInv, threads, history
  <2>2. \A g \in Handles : CountOf(g)' = CountOf(g)
    BY <2>1 DEF CountOf
  <2>3. \A g \in Handles, x \in Threads : At(x, g)' <=> At(x, g)
    BY <2>1 DEF At
  <2> QED BY <1>1, <2>1, <2>2, <2>3
<1>4. ASSUME NEW t \in Threads, NEW o \in Opens, Taking(t, o) PROVE CountInv'
  <2>1. PICK h \in Handles :
          /\ Took(t, o, h)
          /\ \/ /\ pc'[t] = "write"
                /\ raced' = [raced EXCEPT ![h] = @ \/ Others(t, h, InWrite) # {}]
             \/ pc'[t] = "resize" /\ raced' = raced
             \/ pc'[t] = "read" /\ raced' = raced
    BY <1>4, TakingFacts
  <2>2. CASE pc'[t] \in {"resize", "read"} /\ raced' = raced
    <3>1. pc[t] \notin InWrite /\ pc'[t] \notin InWrite
      BY <2>1, <2>2, PlaceFacts DEF Took
    <3>2. \A g \in Handles, x \in Threads :
            (At(x, g)' <=> At(x, g)) /\ (At(x, g) => pc'[x] = pc[x])
      BY <2>1, <3>1 DEF Took, At
    <3>3. \A g \in Handles : CountOf(g)' = CountOf(g)
      BY <2>1 DEF Took, CountOf
    <3>4. \A g \in Handles :
            \/ owner'[g] = Null
            \/ owner[g] # Null /\ unflushed'[g] = unflushed[g] /\ missed'[g] = missed[g]
            \/ unflushed'[g] = 0
      BY <2>1 DEF Took
    <3> QED BY <1>1, <2>2, <3>2, <3>3, <3>4
  <2> QED BY <2>1, <2>2, BeginCount
<1>5. ASSUME NEW t \in Threads, Going(t), pc[t] \notin InWrite PROVE CountInv'
  <2>1. UNCHANGED <<unflushed, missed, counts>>
    BY <1>5 DEF Going, Place, Write, SetEnd, TestCount, Flush, ReadShare, TestLength,
                SetLength, Allocate, Fill, InWrite, Counting, files
  <2>2. /\ UNCHANGED <<owner, raced, handle>> /\ pc'[t] \notin InWrite
        /\ \A x \in Threads \ {t} : pc'[x] = pc[x]
    BY <1>0, <1>5, GoingFacts
  <2>3. \A g \in Handles, x \in Threads :
          (At(x, g)' <=> At(x, g)) /\ (At(x, g) => pc'[x] = pc[x])
    BY <1>5, <2>2 DEF At
  <2>4. \A g \in Handles : CountOf(g)' = CountOf(g)
    BY <2>1 DEF CountOf
  <2> QED BY <1>1, <2>1, <2>2, <2>3, <2>4
<1>6. ASSUME NEW t \in Threads, Returning(t), pc[t] \notin InWrite PROVE CountInv'
  <2>1. counts' = counts
    BY <1>6 DEF Returning, GiveUp, ResetCount, AddOne, EndRead, InWrite, Counting
  <2>2. /\ raced' = raced /\ pc'[t] \notin InWrite
        /\ \A x \in Threads \ {t} : pc'[x] = pc[x] /\ handle'[x] = handle[x]
        /\ \A g \in Handles :
             \/ owner'[g] = Null
             \/ /\ owner'[g] = owner[g] /\ unflushed'[g] = unflushed[g]
                /\ missed'[g] = missed[g]
    BY <1>0, <1>6, ReturnFacts, PlaceFacts
  <2>3. \A g \in Handles, x \in Threads :
          (At(x, g)' <=> At(x, g)) /\ (At(x, g) => pc'[x] = pc[x])
    BY <1>6, <2>2 DEF At
  <2>4. \A g \in Handles : CountOf(g)' = CountOf(g)
    BY <2>1 DEF CountOf
  <2> QED BY <1>1, <2>2, <2>3, <2>4
<1>7. ASSUME NEW t \in Threads, Asking(t) PROVE CountInv'
  <2>1. UNCHANGED <<handle, raced, owner, counts, unflushed, missed>>
    BY <1>0, <1>7, AskingFacts DEF files, threads, history
  <2>2. \A x \in Threads : pc'[x] = pc[x] \/ (pc[x] \notin InWrite /\ pc'[x] \notin InWrite)
    BY <1>0, <1>7, AskingFacts, PlaceFacts
  <2>3. \A g \in Handles, x \in Threads :
          (At(x, g)' <=> At(x, g)) /\ (At(x, g) => pc'[x] = pc[x])
    BY <2>1, <2>2 DEF At
  <2>4. \A g \in Handles : CountOf(g)' = CountOf(g)
    BY <2>1 DEF CountOf
  <2> QED BY <1>1, <2>1, <2>3, <2>4
<1>8. ASSUME NEW t \in Threads, NEW o \in Opens, ReadOpen(t, o) PROVE CountInv'
  <2>1. UNCHANGED <<pc, handle, raced, owner, counts, unflushed, missed>>
    BY <1>0, <1>8, ReadOpenFacts DEF threads
  <2>2. \A g \in Handles : CountOf(g)' = CountOf(g)
    BY <2>1 DEF CountOf
  <2>3. \A g \in Handles, x \in Threads : At(x, g)' <=> At(x, g)
    BY <2>1 DEF At
  <2> QED BY <1>1, <2>1, <2>2, <2>3
<1>9. CASE UNCHANGED vars
  <2>1. UNCHANGED <<pc, handle, raced, owner, counts, unflushed, missed>>
    BY <1>9 DEF vars, files, threads, history
  <2>2. \A g \in Handles : CountOf(g)' = CountOf(g)
    BY <2>1 DEF CountOf
  <2>3. \A g \in Handles, x \in Threads : At(x, g)' <=> At(x, g)
    BY <2>1 DEF At
  <2> QED BY <1>1, <2>1, <2>2, <2>3
<1> QED BY <1>2, <1>3, <1>4, <1>5, <1>6, <1>7, <1>8, <1>9, NextKinds, CloseCount,
           GoOnCount, ReturnCount

-----------------------------------------------------------------------------
(* Where the file pointer of a handle is.                                  *)

\* A thread that a step leaves where it is: no thread joins it unless they meet,
\* and its pointer stays unless it meets a callback or loses the handle.
LEMMA StillPointed ==
  ASSUME NEW x \in Threads, Pointed(x), pc'[x] = pc[x], handle'[x] = handle[x],
         met[x] => met'[x], cut[x] => cut'[x],
         pc[x] \in Seeking =>
           /\ \/ met'[x]
              \/ Others(x, handle[x], Seeking)' \subseteq Others(x, handle[x], Seeking)
           /\ pointer'[handle[x]] = pointer[handle[x]] \/ met'[x] \/ cut'[x]
  PROVE  Pointed(x)'
BY DEF Pointed

\* A callback goes on: those that count on its pointer met it already, or meet
\* it when it takes up the pointer.
LEMMA GoOnPointer ==
  ASSUME Base, PointerInv, NEW t \in Threads, Going(t)
  PROVE  PointerInv'
<1>1. TypeInv /\ HandleInv
  BY DEF Base
<1>2. /\ pc[t] \in Holding /\ pc'[t] \in Holding /\ UNCHANGED <<handle, cut>>
      /\ \A x \in Threads \ {t} : pc'[x] = pc[x]
      /\ \A x \in Threads : met[x] => met'[x]
      /\ \A h \in Handles \ {handle[t]} : pointer'[h] = pointer[h]
  BY <1>1, GoingFacts
<1>3. \/ /\ pc[t] \in Seeking
         /\ UNCHANGED met
      \/ /\ ReadShare(t)
         /\ pc'[t] \notin Seeking
         /\ \A x \in Others(t, handle[t], Seeking) : met'[x]
      \/ /\ TestLength(t)
         /\ \A x \in Others(t, handle[t], Seeking) : met'[x]
         /\ Others(t, handle[t], Seeking) # {} => met'[t]
  <2>1. CASE ReadShare(t)
    <3>1. Meet(t, handle[t], FALSE)
      BY <2>1 DEF ReadShare
    <3>2. \A x \in Others(t, handle[t], Seeking) : met'[x]
      BY <1>1, <3>1, MeetFacts
    <3>3. pc'[t] \notin Seeking
      BY <1>1, <2>1 DEF ReadShare, Goto, TypeInv, Seeking, InWrite, Counting, InResize, Filling
    <3> QED BY <2>1, <3>2, <3>3
  <2>2. CASE TestLength(t)
    <3>1. Meet(t, handle[t], TRUE)
      BY <2>2 DEF TestLength
    <3>2. /\ \A x \in Others(t, handle[t], Seeking) : met'[x]
          /\ Others(t, handle[t], Seeking) # {} => met'[t]
      BY <1>1, <3>1, MeetFacts
    <3> QED BY <2>2, <3>2
  <2>3. CASE Place(t) \/ Write(t) \/ SetEnd(t) \/ TestCount(t) \/ Flush(t)
             \/ SetLength(t) \/ Allocate(t) \/ Fill(t)
    BY <2>3 DEF Place, Write, SetEnd, TestCount, Flush, SetLength, Allocate, Fill, history,
                Seeking, InWrite, Counting, InResize, Filling
  <2> QED BY <2>1, <2>2, <2>3 DEF Going
<1>4. ASSUME NEW x \in Threads \ {t} PROVE Pointed(x)'
  <2>1. CASE pc[x] \in Seeking /\ handle[x] = handle[t]
    <3>1. met'[x]
      <4>1. CASE pc[t] \in Seeking
        BY <1>2, <2>1, <4>1 DEF PointerInv, Pointed, Others
      <4>2. CASE x \in Others(t, handle[t], Seeking) => met'[x]
        BY <2>1, <4>2 DEF Others
      <4> QED BY <1>3, <4>1, <4>2
    <3> QED BY <1>2, <2>1, <3>1, StillPointed DEF PointerInv
  <2>2. CASE pc[x] \in Seeking /\ handle[x] # handle[t]
    <3>1. Others(x, handle[x], Seeking)' \subseteq Others(x, handle[x], Seeking)
      BY <1>2, <2>2 DEF Others
    <3>2. handle[x] \in Handles
      BY <1>1, <2>2, PlaceFacts DEF HandleInv
    <3> QED BY <1>2, <2>2, <3>1, <3>2, StillPointed DEF PointerInv
  <2>3. CASE pc[x] \notin Seeking
    BY <1>2, <2>3 DEF Pointed
  <2> QED BY <2>1, <2>2, <2>3
<1>5. Pointed(t)'
  <2>1. Others(t, handle[t], Seeking)' = Others(t, handle[t], Seeking)
    BY <1>2 DEF Others
  <2>2. handle[t] \in Handles
    BY <1>1, <1>2 DEF HandleInv
  <2>3. pc'[t] \in Seeking /\ Others(t, handle[t], Seeking) # {} => met'[t]
    BY <1>3 DEF PointerInv, Pointed
  <2>4. ASSUME ~met'[t], ~cut[t]
        PROVE  /\ pc'[t] \in {"placed", "resized"} => pointer'[handle[t]] = t
               /\ pc'[t] \in Filling => pointer'[handle[t]] = Start
    <3> USE DEF Filling
    <3>1. CASE Place(t)
      BY <1>1, <2>2, <3>1 DEF Place, Goto, TypeInv
    <3>2. CASE TestLength(t)
      BY <1>1, <2>2, <3>2 DEF TestLength, Goto, TypeInv
    <3>3. CASE SetLength(t) \/ Allocate(t)
      <4>1. pc[t] \in Filling /\ pc[t] \in Seeking /\ pointer' = pointer
        BY <3>3, PlaceFacts DEF SetLength, Allocate, files
      <4>2. pointer[handle[t]] = Start
        BY <1>2, <2>4, <4>1 DEF PointerInv, Pointed
      <4>3. pc'[t] \notin {"placed", "resized"}
        BY <1>1, <3>3 DEF SetLength, Allocate, Goto, TypeInv
      <4> QED BY <4>1, <4>2, <4>3
    <3>4. CASE Write(t) \/ SetEnd(t) \/ TestCount(t) \/ Flush(t) \/ ReadShare(t) \/ Fill(t)
      <4>1. pc'[t] \in {"written", "truncated", "due", "add", "flushed", "test", "filled"}
        BY <1>1, <3>4 DEF Write, SetEnd, TestCount, Flush, ReadShare, Fill, Goto, TypeInv
      <4> QED BY <4>1
    <3> QED BY <3>1, <3>2, <3>3, <3>4 DEF Going
  <2> QED BY <1>2, <2>1, <2>3, <2>4 DEF Pointed
<1> QED BY <1>4, <1>5 DEF PointerInv

\* A thread takes a handle, and meets those that count on its pointer if it will.
LEMMA TakePointer ==
  ASSUME Base, OwnerInv, PointerInv, NEW t \in Threads, NEW o \in Opens, Taking(t, o)
  PROVE  PointerInv'
<1>1. TypeInv /\ HandleInv
  BY DEF Base
<1>2. PICK h \in Handles :
        /\ Took(t, o, h)
        /\ \A x \in Threads : met[x] => met'[x]
        /\ \/ pc'[t] \in {"write", "resize"} /\ Meet(t, h, TRUE)
           \/ pc'[t] = "read"
  BY TakingFacts
<1>3. /\ pc[t] = "idle" /\ cut' = cut /\ handle'[t] = h
      /\ \A x \in Threads \ {t} : pc'[x] = pc[x] /\ handle'[x] = handle[x]
      /\ \/ pointer' = pointer
         \/ owner[h] = Null /\ \A g \in Handles \ {h} : pointer'[g] = pointer[g]
  BY <1>2 DEF Took
<1>4. \/ pc'[t] \notin Seeking
      \/ /\ \A x \in Others(t, h, Seeking) : met'[x]
         /\ Others(t, h, Seeking) # {} => met'[t]
  <2>1. CASE Meet(t, h, TRUE)
    BY <1>1, <2>1, MeetFacts
  <2>2. CASE pc'[t] = "read"
    BY <2>2, PlaceFacts
  <2> QED BY <1>2, <2>1, <2>2
<1>5. ASSUME NEW x \in Threads \ {t} PROVE Pointed(x)'
  <2>1. CASE pc[x] \in Seeking
    <3>1. handle[x] \in Handles /\ (owner[handle[x]] = Null => cut[x])
      BY <1>1, <2>1, PlaceFacts, FileCallbacksAssumption
         DEF HandleInv, OwnerInv, FileCallbacksAssumption
    <3>2. met'[x] \/ Others(x, handle[x], Seeking)' \subseteq Others(x, handle[x], Seeking)
      <4>1. CASE pc'[t] \notin Seeking \/ handle[x] # h
        BY <1>3, <4>1 DEF Others
      <4>2. CASE handle[x] = h /\ \A y \in Others(t, h, Seeking) : met'[y]
        BY <2>1, <4>2 DEF Others
      <4> QED BY <1>4, <4>1, <4>2
    <3>3. pointer'[handle[x]] = pointer[handle[x]] \/ cut'[x]
      BY <1>3, <3>1
    <3> QED BY <1>2, <1>3, <3>2, <3>3, StillPointed DEF PointerInv
  <2>2. CASE pc[x] \notin Seeking
    BY <1>3, <2>2 DEF Pointed
  <2> QED BY <2>1, <2>2
<1>6. Pointed(t)'
  <2>1. Others(t, h, Seeking)' = Others(t, h, Seeking)
    BY <1>3 DEF Others
  <2>2. pc'[t] \notin {"placed", "resized"} \cup Filling
    BY <1>2, PlaceFacts
  <2> QED BY <1>3, <1>4, <2>1, <2>2 DEF Pointed
<1> QED BY <1>5, <1>6 DEF PointerInv

\* A callback returns: it is no company any more.
LEMMA ReturnPointer ==
  ASSUME Base, OwnerInv, PointerInv, NEW t \in Threads, Returning(t)
  PROVE  PointerInv'
<1>1. TypeInv /\ HandleInv
  BY DEF Base
<1>2. /\ pc[t] \in Holding /\ pc'[t] = "idle"
      /\ \A x \in Threads \ {t} : /\ pc'[x] = pc[x] /\ handle'[x] = handle[x]
                                 /\ met'[x] = met[x] /\ cut'[x] = cut[x]
      /\ \A h \in Handles : (reopened[t] /\ h = handle[t]) \/ pointer'[h] = pointer[h]
  BY <1>1, ReturnFacts
<1>3. pc'[t] \notin Seeking
  BY <1>2, PlaceFacts
<1>4. ASSUME NEW x \in Threads \ {t} PROVE Pointed(x)'
  <2>1. CASE pc[x] \in Seeking
    <3>1. handle[x] \in Handles
      BY <1>1, <2>1, PlaceFacts DEF HandleInv
    <3>2. reopened[t] /\ handle[x] = handle[t] => cut[x]
      BY <1>2 DEF OwnerInv
    <3>3. Others(x, handle[x], Seeking)' \subseteq Others(x, handle[x], Seeking)
      BY <1>2, <1>3 DEF Others
    <3> QED BY <1>2, <3>1, <3>2, <3>3, StillPointed DEF PointerInv
  <2>2. CASE pc[x] \notin Seeking
    BY <1>2, <2>2 DEF Pointed
  <2> QED BY <2>1, <2>2
<1> QED BY <1>3, <1>4 DEF PointerInv, Pointed

\* Every step keeps the pointers.
LEMMA NextPointer == Base /\ OwnerInv /\ PointerInv /\ [Next]_vars => PointerInv'
<1> SUFFICES ASSUME Base, OwnerInv, PointerInv, [Next]_vars PROVE PointerInv'
  OBVIOUS
<1>0. TypeInv /\ HandleInv /\ ContextInv
  BY DEF Base
<1>a. ASSUME UNCHANGED <<pc, handle>>, \A x \in Threads : (met[x] => met'[x]) /\ (cut[x] => cut'[x]),
             \A x \in Threads : pc[x] \in Seeking =>
               pointer'[handle[x]] = pointer[handle[x]] \/ met'[x] \/ cut'[x]
      PROVE  PointerInv'
  <2>1. \A x \in Threads : Others(x, handle[x], Seeking)' = Others(x, handle[x], Seeking)
    BY <1>a DEF Others
  <2> QED BY <1>a, <2>1, StillPointed DEF PointerInv
<1>b. Null \notin Handles /\ Null \notin Opens
  BY FileCallbacksAssumption DEF FileCallbacksAssumption
<1>1. ASSUME NEW o \in Opens, NEW h \in Handles, Create(o, h) PROVE PointerInv'
  <2>1. /\ owner[h] = Null /\ UNCHANGED <<pc, handle, met, cut>>
        /\ \A g \in Handles \ {h} : pointer'[g] = pointer[g]
    BY <1>0, <1>1 DEF Create, OpenHandle, TypeInv, threads, history
  <2>2. \A t \in Threads : pc[t] \in Seeking /\ ~cut[t] => handle[t] \in Handles \ {h}
    BY <1>0, <1>b, <2>1, PlaceFacts DEF HandleInv, OwnerInv
  <2> QED BY <1>a, <2>1, <2>2
<1>2. ASSUME NEW o \in Opens, Cleanup(o) \/ CloseFile(o) PROVE PointerInv'
  <2>1. PICK h \in Handles :
          /\ pointer' = [pointer EXCEPT ![h] = Null]
          /\ cut' = [t \in Threads |-> cut[t] \/ (pc[t] \in Holding /\ handle[t] = h)]
          /\ UNCHANGED <<pc, handle, met>>
    BY <1>0, <1>2, CloseFacts
  <2>2. \A x \in Threads : pc[x] \in Seeking =>
          pointer'[handle[x]] = pointer[handle[x]] \/ cut'[x]
    BY <1>0, <2>1, PlaceFacts DEF TypeInv, HandleInv
  <2> QED BY <1>a, <2>1, <2>2
<1>3. ASSUME NEW o \in Opens, FlushOpen(o) PROVE PointerInv'
  BY <1>3, <1>a DEF FlushOpen, threads, history
<1>4. ASSUME NEW t \in Threads, Asking(t) PROVE PointerInv'
  <2>1. UNCHANGED <<handle, met, cut, pointer>>
    BY <1>0, <1>4, AskingFacts DEF files, threads, history
  <2>2. \A x \in Threads : pc'[x] = pc[x] \/ (pc[x] \notin Seeking /\ pc'[x] \notin Seeking)
    BY <1>0, <1>4, AskingFacts, PlaceFacts
  <2>3. \A x \in Threads : Others(x, handle[x], Seeking)' = Others(x, handle[x], Seeking)
    BY <2>1, <2>2 DEF Others
  <2>4. ASSUME NEW x \in Threads PROVE Pointed(x)'
    <3>1. CASE pc'[x] = pc[x]
      BY <2>1, <2>3, <3>1, StillPointed DEF PointerInv
    <3>2. CASE pc'[x] \notin Seeking
      BY <3>2 DEF Pointed
    <3> QED BY <2>2, <3>1, <3>2
  <2> QED BY <2>4 DEF PointerInv
<1>5. ASSUME NEW t \in Threads, NEW o \in Opens, ReadOpen(t, o) PROVE PointerInv'
  <2>1. UNCHANGED <<pc, handle, cut>> /\ pc[t] = "idle"
    BY <1>0, <1>5, ReadOpenFacts DEF threads
  <2>2. /\ \A h \in Handles : h # context[o] => pointer'[h] = pointer[h]
        /\ \A x \in Threads : met[x] => met'[x]
        /\ \A x \in Others(t, context[o], Seeking) : met'[x]
    BY <1>0, <1>5, ReadOpenFacts
  <2>3. \A x \in Threads : pc[x] \in Seeking =>
          handle[x] \in Handles /\ (handle[x] = context[o] => met'[x])
    BY <1>0, <2>1, <2>2, PlaceFacts DEF HandleInv, Others
  <2> QED BY <1>a, <2>1, <2>2, <2>3
<1>6. CASE UNCHANGED vars
  BY <1>6, <1>a DEF vars, files, threads, history
<1> QED BY <1>1, <1>2, <1>3, <1>4, <1>5, <1>6, NextKinds, GoOnPointer, TakePointer,
           ReturnPointer

-----------------------------------------------------------------------------
(* What the cache holds.                                                   *)

\* A step that leaves the cache, and who fills it, as they are.
LEMMA SameCache ==
  ASSUME CacheInv, AnswersAreWhole, UNCHANGED cache,
         \A x \in Threads : \/ pc'[x] = pc[x]
                            \/ /\ pc[x] \notin Filling \cup CopyInfo
                               /\ pc'[x] \notin Filling \cup CopyInfo
  PROVE  CacheInv' /\ AnswersAreWhole'
<1>1. /\ \A x \in Threads : (pc'[x] \in Filling <=> pc[x] \in Filling)
                            /\ (pc'[x] \in CopyInfo <=> pc[x] \in CopyInfo)
      /\ \A x \in Threads : pc'[x] = "unset" <=> pc[x] = "unset"
  BY DEF Filling
<1>2. UNCHANGED <<dataSet, data, infoSet, info, answer, spoiled>>
  BY DEF cache
<1> QED BY <1>1, <1>2 DEF CacheInv, AnswersAreWhole

\* A thread that fills the cache and has met nobody reads the file from its start.
LEMMA FillsFromStart ==
  ASSUME Base, OwnerInv, PointerInv, NEW t \in Threads, pc[t] = "filling", ~met[t], ~cut[t]
  PROVE  owner[handle[t]] \in Cached /\ pointer[handle[t]] = Start
<1>1. pc[t] \in Filling /\ pc[t] \in Seeking /\ pc[t] \in Reading /\ pc[t] \in Holding
  BY PlaceFacts DEF Filling
<1>2. open[t] \in Cached /\ owner[handle[t]] = open[t]
  BY <1>1 DEF Base, HandleInv, OwnerInv
<1> QED BY <1>1, <1>2 DEF PointerInv, Pointed

\* A thread goes on filling the cache.
LEMMA FillCache ==
  ASSUME Base, OwnerInv, PointerInv, CacheInv, AnswersAreWhole, NEW t \in Threads,
         TestLength(t) \/ SetLength(t) \/ Allocate(t) \/ Fill(t)
  PROVE  CacheInv' /\ AnswersAreWhole'
<1>0. TypeInv
  BY DEF Base
<1>1. CASE TestLength(t)
  <2>1. /\ pc[t] = "test" /\ pc'[t] = "unset" /\ ~dataSet
        /\ \A x \in Threads \ {t} : pc'[x] = pc[x]
        /\ UNCHANGED <<dataSet, data, infoSet, info, answer>>
        /\ Spoil(Busy(t, Filling), "together")
    BY <1>0, <1>1 DEF TestLength, Goto, TypeInv
  <2>2. /\ spoiled # "no" => spoiled' # "no"
        /\ spoiled' = "no" => spoiled = "no" /\ \A x \in Threads \ {t} : pc[x] \notin Filling
    BY <2>1 DEF Spoil, Busy
  <2>3. pc[t] \notin CopyInfo /\ pc'[t] \notin CopyInfo /\ pc'[t] \in Filling
    BY <2>1 DEF CopyInfo, Filling
  <2>4. AnswersAreWhole'
    BY <2>1, <2>2 DEF AnswersAreWhole
  <2>5. /\ \A x \in Threads : pc'[x] \in CopyInfo <=> pc[x] \in CopyInfo
        /\ spoiled' = "no" => \A x \in Threads \ {t} : pc'[x] \notin Filling
    BY <2>1, <2>2, <2>3
  <2> QED BY <2>1, <2>2, <2>3, <2>4, <2>5 DEF CacheInv
<1>2. CASE SetLength(t) \/ Allocate(t)
  <2>1. /\ pc[t] \in Filling /\ pc'[t] \in Filling /\ pc'[t] # "unset"
        /\ \A x \in Threads \ {t} : pc'[x] = pc[x]
        /\ UNCHANGED <<infoSet, info, answer, spoiled>>
    BY <1>0, <1>2 DEF SetLength, Allocate, Goto, TypeInv, Filling
  <2>2. spoiled = "no" => \A x \in Threads \ {t} : pc'[x] # "unset"
    BY <2>1 DEF CacheInv, Filling
  <2>3. \A x \in Threads : (pc'[x] \in CopyInfo <=> pc[x] \in CopyInfo)
                           /\ (pc'[x] \in Filling <=> pc[x] \in Filling)
    BY <2>1 DEF CopyInfo, Filling
  <2> QED BY <2>1, <2>2, <2>3 DEF CacheInv, AnswersAreWhole
<1>3. CASE Fill(t)
  <2>1. /\ pc[t] = "filling" /\ pc'[t] = "filled"
        /\ \A x \in Threads \ {t} : pc'[x] = pc[x]
        /\ UNCHANGED <<dataSet, infoSet, info, answer>>
    BY <1>0, <1>3 DEF Fill, Goto, TypeInv
  <2>2. /\ spoiled # "no" => spoiled' # "no"
        /\ spoiled' = "no" => spoiled = "no" /\ data' = "whole"
    <3>1. CASE data' = "whole" /\ UNCHANGED spoiled
      BY <3>1
    <3>2. CASE Spoil(TRUE, "failed")
      BY <3>2 DEF Spoil
    <3>3. CASE /\ ~(owner[handle[t]] \in Cached /\ pointer[handle[t]] = Start)
               /\ Spoil(met[t] \/ cut[t], "misled")
      <4>1. met[t] \/ cut[t]
        BY <2>1, <3>3, FillsFromStart
      <4> QED BY <3>3, <4>1 DEF Spoil
    <3> QED BY <1>3, <3>1, <3>2, <3>3 DEF Fill
  <2>3. /\ pc[t] \in Filling /\ pc'[t] \notin Filling
        /\ pc[t] \notin CopyInfo /\ pc'[t] \notin CopyInfo /\ pc'[t] # "unset"
    BY <2>1 DEF CopyInfo, Filling
  <2> QED BY <2>1, <2>2, <2>3 DEF CacheInv, AnswersAreWhole
<1> QED BY <1>1, <1>2, <1>3

\* A callback that asks the cache.
LEMMA AskCache ==
  ASSUME TypeInv, CacheInv, AnswersAreWhole, NEW t \in Threads, Asking(t)
  PROVE  CacheInv' /\ AnswersAreWhole'
<1>1. CASE ReadCached(t)
  <2>1. /\ pc' = pc /\ dataSet /\ answer' \in {data, "beyond"} /\ pc[t] = "idle"
        /\ UNCHANGED <<dataSet, data, infoSet, info>> /\ Spoil(Busy(t, Filling), "together")
    BY <1>1 DEF ReadCached
  <2>2. /\ spoiled # "no" => spoiled' # "no"
        /\ spoiled' = "no" => spoiled = "no" /\ \A x \in Threads \ {t} : pc[x] \notin Filling
    BY <2>1 DEF Spoil, Busy
  <2>3. spoiled' = "no" => data = "whole"
    BY <2>1, <2>2, PlaceFacts DEF CacheInv
  <2> QED BY <2>1, <2>2, <2>3 DEF CacheInv, AnswersAreWhole
<1>2. CASE InfoCached(t)
  <2>1. /\ pc' = pc /\ infoSet /\ answer' = info /\ pc[t] = "idle"
        /\ UNCHANGED <<dataSet, data, infoSet, info>> /\ Spoil(Busy(t, CopyInfo), "together")
    BY <1>2 DEF InfoCached
  <2>2. /\ spoiled # "no" => spoiled' # "no"
        /\ spoiled' = "no" => spoiled = "no" /\ \A x \in Threads \ {t} : pc[x] \notin CopyInfo
    BY <2>1 DEF Spoil, Busy
  <2>3. spoiled' = "no" => info = "whole"
    BY <2>1, <2>2, PlaceFacts DEF CacheInv
  <2> QED BY <2>1, <2>2, <2>3 DEF CacheInv, AnswersAreWhole
<1>3. CASE InfoFromShare(t) \/ TestInfo(t)
  <2>1. UNCHANGED cache
    BY <1>3 DEF InfoFromShare, TestInfo
  <2>2. /\ \A x \in Threads \ {t} : pc'[x] = pc[x]
        /\ pc[t] \in {"idle", "info"} /\ pc'[t] \in {"idle", "info", "infoUnset"}
        /\ pc'[t] = "infoUnset" => ~infoSet
    BY <1>3 DEF InfoFromShare, TestInfo, Goto, TypeInv
  <2>3. /\ pc[t] \notin Filling /\ pc'[t] \notin Filling /\ pc[t] \notin CopyInfo
        /\ pc'[t] \in CopyInfo => ~infoSet
    BY <2>2 DEF Filling, CopyInfo
  <2>4. \A x \in Threads : /\ pc'[x] \in Filling <=> pc[x] \in Filling
                           /\ pc'[x] = "unset" <=> pc[x] = "unset"
    BY <2>2, <2>3
  <2>5. infoSet => \A x \in Threads : pc'[x] \in CopyInfo <=> pc[x] \in CopyInfo
    BY <2>2, <2>3
  <2>6. UNCHANGED <<dataSet, data, infoSet, info, answer, spoiled>>
    BY <2>1 DEF cache
  <2> QED BY <2>4, <2>5, <2>6 DEF CacheInv, AnswersAreWhole
<1>4. CASE BeginCopy(t) \/ EndCopy(t)
  <2>1. /\ \A x \in Threads \ {t} : pc'[x] = pc[x]
        /\ pc[t] \in CopyInfo /\ pc'[t] \in {"copying", "idle"}
        /\ pc'[t] = "idle" => info' = "whole"
        /\ UNCHANGED <<dataSet, data, answer, spoiled>>
    BY <1>4 DEF BeginCopy, EndCopy, Goto, TypeInv, CopyInfo
  <2>2. /\ pc[t] \notin Filling /\ pc'[t] \notin Filling
        /\ pc'[t] = "idle" \/ pc'[t] \in CopyInfo
    BY <2>1 DEF Filling, CopyInfo
  <2>3. \A x \in Threads : /\ pc'[x] \in Filling <=> pc[x] \in Filling
                           /\ pc'[x] = "unset" <=> pc[x] = "unset"
    BY <2>1, <2>2 DEF Filling
  <2>4. infoSet' /\ (\A x \in Threads : pc'[x] \notin CopyInfo) => info' = "whole"
    BY <2>1, <2>2
  <2> QED BY <2>1, <2>3, <2>4 DEF CacheInv, AnswersAreWhole
<1> QED BY <1>1, <1>2, <1>3, <1>4 DEF Asking, GetFileInformation

\* Every step keeps the cache.
LEMMA NextCache ==
  Base /\ OwnerInv /\ PointerInv /\ CacheInv /\ AnswersAreWhole /\ [Next]_vars
    => CacheInv' /\ AnswersAreWhole'
<1> SUFFICES ASSUME Base, OwnerInv, PointerInv, CacheInv, AnswersAreWhole, [Next]_vars
             PROVE  CacheInv' /\ AnswersAreWhole'
  OBVIOUS
<1>0. TypeInv /\ HandleInv
  BY DEF Base
<1>1. ASSUME NEW o \in Opens,
             Cleanup(o) \/ CloseFile(o) \/ FlushOpen(o) \/ \E h \in Handles : Create(o, h)
      PROVE  CacheInv' /\ AnswersAreWhole'
  BY <1>1, SameCache DEF Cleanup, CloseFile, FlushOpen, Create
<1>2. ASSUME NEW t \in Threads, NEW o \in Opens, Taking(t, o)
      PROVE  CacheInv' /\ AnswersAreWhole'
  <2>1. UNCHANGED cache
    BY <1>2 DEF Taking, BeginWrite, BeginResize, BeginRead, TakeHandle
  <2>2. /\ pc[t] = "idle" /\ pc'[t] \in {"write", "resize", "read"}
        /\ \A x \in Threads \ {t} : pc'[x] = pc[x]
    BY <1>2, TakingFacts DEF Took
  <2>3. pc[t] \notin Filling \cup CopyInfo /\ pc'[t] \notin Filling \cup CopyInfo
    BY <2>2 DEF Filling, CopyInfo
  <2> QED BY <2>1, <2>2, <2>3, SameCache
<1>3. ASSUME NEW t \in Threads, NEW o \in Opens, ReadOpen(t, o)
      PROVE  CacheInv' /\ AnswersAreWhole'
  BY <1>3, SameCache DEF ReadOpen
<1>4. ASSUME NEW t \in Threads, Going(t) PROVE CacheInv' /\ AnswersAreWhole'
  <2>1. CASE Place(t) \/ Write(t) \/ SetEnd(t) \/ TestCount(t) \/ Flush(t) \/ ReadShare(t)
    <3>1. UNCHANGED cache
      BY <2>1 DEF Place, Write, SetEnd, TestCount, Flush, ReadShare
    <3>2. /\ pc[t] \in InWrite \cup InResize \cup {"read"}
          /\ pc'[t] \in InWrite \cup InResize \cup {"test"}
          /\ \A x \in Threads \ {t} : pc'[x] = pc[x]
      BY <1>0, <2>1 DEF Place, Write, SetEnd, TestCount, Flush, ReadShare, Goto, TypeInv,
                        InWrite, Counting, InResize
    <3>3. pc[t] \notin Filling \cup CopyInfo /\ pc'[t] \notin Filling \cup CopyInfo
      BY <3>2 DEF Filling, CopyInfo, InWrite, Counting, InResize
    <3> QED BY <3>1, <3>2, <3>3, SameCache
  <2> QED BY <1>4, <2>1, FillCache DEF Going
<1>5. ASSUME NEW t \in Threads, Returning(t) PROVE CacheInv' /\ AnswersAreWhole'
  <2>1. UNCHANGED cache
    BY <1>5 DEF Returning, GiveUp, ResetCount, AddOne, EndRead
  <2>2. UNCHANGED <<dataSet, data, infoSet, info, answer, spoiled>>
    BY <2>1 DEF cache
  <2>3. pc'[t] = "idle" /\ \A x \in Threads \ {t} : pc'[x] = pc[x]
    BY <1>0, <1>5, ReturnFacts
  <2>4. CASE pc[t] = "unset"
    <3>1. pc[t] \in Filling /\ pc[t] \notin CopyInfo
      BY <2>4 DEF Filling, CopyInfo
    <3>2. pc'[t] \notin Filling /\ pc'[t] \notin CopyInfo /\ pc'[t] # "unset"
      BY <2>3 DEF Filling, CopyInfo
    <3>3. spoiled = "no" => ~dataSet
      BY <2>4 DEF CacheInv
    <3>4. \A x \in Threads : /\ pc'[x] \in Filling => pc[x] \in Filling
                             /\ pc'[x] = "unset" => pc[x] = "unset"
                             /\ pc'[x] \in CopyInfo <=> pc[x] \in CopyInfo
      BY <2>3, <3>1, <3>2
    <3> QED BY <2>2, <3>3, <3>4 DEF CacheInv, AnswersAreWhole
  <2>5. CASE pc[t] # "unset"
    <3>1. pc[t] \in {"read", "test", "filled"} \cup InWrite \cup InResize
      BY <1>5, <2>5 DEF Returning, GiveUp, ResetCount, AddOne, EndRead, InWrite, Counting
    <3>2. pc[t] \notin Filling \cup CopyInfo /\ pc'[t] \notin Filling \cup CopyInfo
      BY <2>3, <3>1 DEF Filling, CopyInfo, InWrite, Counting, InResize
    <3> QED BY <2>1, <2>3, <3>2, SameCache
  <2> QED BY <2>4, <2>5
<1>6. CASE UNCHANGED vars
  BY <1>6, SameCache DEF vars
<1> QED BY <1>0, <1>1, <1>2, <1>3, <1>4, <1>5, <1>6, NextKinds, AskCache

-----------------------------------------------------------------------------
(* The theorems.                                                           *)

\* The invariant is inductive.
THEOREM Invariance == Spec => []IInv
<1>1. Init => IInv
  <2>1. Init => Base
    BY PlaceFacts, FileCallbacksAssumption
       DEF Init, Base, TypeInv, HandleInv, ContextInv, Places, FileCallbacksAssumption
  <2>2. Init => OwnerInv
    BY PlaceFacts DEF Init, OwnerInv
  <2>3. Init => PointerInv
    BY PlaceFacts DEF Init, PointerInv, Pointed
  <2>4. Init => CacheInv /\ AnswersAreWhole
    BY DEF Init, CacheInv, AnswersAreWhole, Filling, CopyInfo
  <2>5. Init => CountInv
    <3> SUFFICES ASSUME Init, NEW h \in Handles PROVE Counted(h)
      BY DEF CountInv
    <3>1. CountOf(h) = 0 /\ FlushAt \in Nat /\ owner[h] = Null
      BY FileCallbacksAssumption DEF Init, CountOf, FileCallbacksAssumption
    <3>2. \A t \in Threads : ~At(t, h)
      BY PlaceFacts DEF Init, At
    <3> QED BY <3>1, <3>2 DEF Counted
  <2> QED BY <2>1, <2>2, <2>3, <2>4, <2>5 DEF IInv
<1>2. IInv /\ [Next]_vars => IInv'
  <2> SUFFICES ASSUME IInv, [Next]_vars PROVE IInv'
    OBVIOUS
  <2>1. Base' /\ OwnerInv'
    BY NextBase, NextOwner DEF IInv
  <2> QED BY <2>1, NextCount, NextPointer, NextCache DEF IInv
<1> QED BY <1>1, <1>2, PTL DEF Spec

\* The counts, the handles and the places of the threads are what they should be.
THEOREM TypeCorrect == Spec => []TypeInv
<1>1. IInv => TypeInv
  BY DEF IInv, Base
<1> QED BY <1>1, Invariance, PTL

\* No more than FlushAt writes of a handle wait for a flush, and FlushAt + 1 more
\* for each flush since that failed, unless two writes used its entry at once.
THEOREM FlushComesInTime == Spec => []FlushIsTimely
<1>1. IInv => FlushIsTimely
  <2> SUFFICES ASSUME IInv, NEW h \in Handles, owner[h] # Null, ~raced[h],
                      \A t \in Threads : handle[t] = h => pc[t] \notin InWrite
               PROVE  unflushed[h] <= FlushAt + (FlushAt + 1) * missed[h]
    BY DEF FlushIsTimely
  <2>1. unflushed[h] <= CountOf(h) + Owed(h) /\ CountOf(h) <= FlushAt
    BY DEF IInv, CountInv, Counted, Behind, At
  <2>2. unflushed[h] <= FlushAt + Owed(h)
    BY <2>1, Numbers DEF IInv, Base
  <2> QED BY <2>2 DEF Owed
<1> QED BY <1>1, Invariance, PTL

\* A write or the end of a file is set in its file at its offset, or the handle
\* was closed under it, or another callback used its handle meanwhile.
THEOREM WritesInPlace == Spec => WriteReachesItsPlace
<1>1. IInv => StepWritesInPlace
  <2> SUFFICES ASSUME IInv, NEW t \in Threads, pc[t] \in {"placed", "resized"}, ~cut[t]
               PROVE  owner[handle[t]] = open[t] /\ (pointer[handle[t]] = t \/ met[t])
    BY DEF StepWritesInPlace
  <2>1. pc[t] \in Seeking /\ pc[t] \in Holding
    BY PlaceFacts
  <2> QED BY <2>1 DEF IInv, OwnerInv, PointerInv, Pointed
<1> QED BY <1>1, Invariance, PTL DEF WriteReachesItsPlace

\* What the cache gives out of its buffer is the content as it was read, unless
\* two callbacks met in it, the content could not be read whole, or the handle it
\* was read through was used or closed by another callback meanwhile.
THEOREM CacheAnswers == Spec => []AnswersAreWhole
<1>1. IInv => AnswersAreWhole
  BY DEF IInv
<1> QED BY <1>1, Invariance, PTL
=============================================================================
