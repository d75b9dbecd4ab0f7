----------------------------- MODULE FileCallbacks -----------------------------
(***************************************************************************)
(* The callbacks of Dokan that share state without a lock: MirrorWriteFile *)
(* sets the file pointer of a handle, writes there, counts the writes and  *)
(* flushes when the count is due; MirrorSetAllocationSize cuts the file at *)
(* the same pointer; MirrorReadFile moves it, and with                     *)
(* MirrorGetFileInformation it fills the cache of one file through it.     *)
(*                                                                         *)
(* The driver calls in many threads.  A handle is a number that Windows    *)
(* gives again once it is closed.  An open is a DOKAN_FILE_INFO with its   *)
(* Context.  The cached content is whole, or what stands elsewhere, or     *)
(* memory nobody has filled.                                               *)
(***************************************************************************)
EXTENDS Naturals

CONSTANTS
  Threads,  \* threads of the driver
  Opens,    \* bound: opens at one time, each of a file of its own
  Cached,   \* those of the file whose content is cached
  Handles,  \* bound: numbers Windows gives to handles
  Null,     \* a Context that is 0 or INVALID_HANDLE_VALUE, a closed handle
  Start,    \* the file pointer is at the start of the file
  FlushAt,  \* the count at which a write flushes (5 in the code)
  Modulus,  \* of the count (256 in the code: uint8_t)
  MaxWrites \* bound: writes of a handle that nobody flushed

ASSUME FileCallbacksAssumption ==
  /\ Null \notin Handles \cup Opens \cup Threads \cup Nat \cup {Start}
  /\ Start \notin Threads
  /\ Cached \subseteq Opens
  /\ FlushAt \in Nat /\ Modulus \in Nat /\ FlushAt < Modulus
  /\ MaxWrites \in Nat

VARIABLES
  context,   \* DokanFileInfo->Context of each open
  owner,     \* the open whose file a handle is of, or Null
  counts,    \* writeCounts; a handle without an entry counts Null
  unflushed, \* writes through a handle since it was opened or flushed
  missed,    \* history: flushes of a handle that failed since then
  pc,        \* where each thread is
  open,      \* the open it works for
  handle,    \* the handle it works with
  reopened,  \* the handle is its own
  pointer,   \* a thread if the file pointer is at its offset, Start, or Null
  raced,     \* history: two threads used the entry of a handle at once
  met,       \* history: another callback used the handle of the thread meanwhile
  cut,       \* history: the handle of the thread was closed under it
  dataSet,   \* bzvolDataLength is not 0
  data,      \* what bzvolData points to
  infoSet,   \* bzvolInfoSet
  info,      \* bzvolInfo
  answer,    \* the last answer given from the cache
  spoiled    \* history: what first went wrong while it was filled, or "no"

files   == <<context, owner, unflushed, missed, pointer>>
threads == <<open, handle, reopened>>
cache   == <<dataSet, data, infoSet, info, answer, spoiled>>
history == <<raced, met, cut>>
vars    == <<files, counts, pc, threads, history, cache>>

Goto(t, l) == pc' = [pc EXCEPT ![t] = l]

\* Threads between WriteFile and the end of the callback.
Counting  == {"written", "due", "flushed", "add"}
InWrite   == {"write", "placed"} \cup Counting
InResize  == {"resize", "resized", "truncated"}
Filling   == {"unset", "sized", "filling"}
CopyInfo  == {"infoUnset", "copying"}

\* Threads that count on the file pointer, and threads that have a handle.
Seeking   == InWrite \cup InResize \cup Filling
Holding   == Seeking \cup {"read", "test", "filled"}

Others(t, h, ls) == {x \in Threads \ {t} : pc[x] \in ls /\ handle[x] = h}

\* A callback of t uses a handle: the threads that count on its file pointer
\* meet it, and it meets them if it counts on it itself.
Meet(t, h, seeks) ==
  met' = [x \in Threads |->
            met[x] \/ x \in Others(t, h, Seeking)
                   \/ (x = t /\ seeks /\ Others(t, h, Seeking) # {})]

\* The handle is closed under the threads that have it.
CutOff(h) == cut' = [t \in Threads |-> cut[t] \/ (pc[t] \in Holding /\ handle[t] = h)]

Init ==
  /\ context = [o \in Opens |-> Null]
  /\ owner = [h \in Handles |-> Null]
  /\ counts = [h \in Handles |-> Null]
  /\ unflushed = [h \in Handles |-> 0]
  /\ missed = [h \in Handles |-> 0]
  /\ pc = [t \in Threads |-> "idle"]
  /\ open = [t \in Threads |-> Null]
  /\ handle = [t \in Threads |-> Null]
  /\ reopened = [t \in Threads |-> FALSE]
  /\ pointer = [h \in Handles |-> Null]
  /\ raced = [h \in Handles |-> FALSE]
  /\ met = [t \in Threads |-> FALSE]
  /\ cut = [t \in Threads |-> FALSE]
  /\ dataSet = FALSE
  /\ data = "none"
  /\ infoSet = FALSE
  /\ info = "none"
  /\ answer = "whole"
  /\ spoiled = "no"

-----------------------------------------------------------------------------
(* Create, cleanup and close.                                              *)

\* writeCounts[h], which makes an entry if there is none.
CountOf(h) == IF counts[h] = Null THEN 0 ELSE counts[h]

\* insert keeps an entry that is there.
InsertCount(h) == counts' = [counts EXCEPT ![h] = CountOf(h)]

\* CreateFile gives a number that is free.
OpenHandle(o, h) ==
  /\ owner[h] = Null
  /\ owner' = [owner EXCEPT ![h] = o]
  /\ unflushed' = [unflushed EXCEPT ![h] = 0]
  /\ missed' = [missed EXCEPT ![h] = 0]
  /\ pointer' = [pointer EXCEPT ![h] = Start]

\* What was counted of a handle that is closed is of no interest any more.
CloseHandle(h) ==
  /\ owner' = [owner EXCEPT ![h] = Null]
  /\ unflushed' = [unflushed EXCEPT ![h] = 0]
  /\ missed' = [missed EXCEPT ![h] = 0]
  /\ pointer' = [pointer EXCEPT ![h] = Null]

\* MirrorCreateFile; the entry is inserted if the open may write data.
Create(o, h) ==
  /\ context[o] = Null
  /\ OpenHandle(o, h)
  /\ context' = [context EXCEPT ![o] = h]
  /\ InsertCount(h) \/ UNCHANGED counts
  /\ UNCHANGED <<pc, threads, history, cache>>

\* Faulty: the Context keeps the handle.
CleanupKeepsContext(o) ==
  /\ context[o] # Null
  /\ LET h == context[o] IN
       /\ counts' = [counts EXCEPT ![h] = Null]
       /\ CloseHandle(h)
       /\ CutOff(h)
  /\ UNCHANGED <<context, pc, threads, raced, met, cache>>

\* MirrorCleanup may come while callbacks of the open are at work.
Cleanup(o) ==
  /\ context[o] # Null
  /\ LET h == context[o] IN
       /\ context' = [context EXCEPT ![o] = Null]
       /\ counts' = [counts EXCEPT ![h] = Null]
       /\ CloseHandle(h)
       /\ CutOff(h)
       /\ raced' = [raced EXCEPT ![h] =
                      @ /\ \E t \in Threads : pc[t] \in InWrite /\ handle[t] = h]
  /\ UNCHANGED <<pc, threads, met, cache>>

\* MirrorCloseFile of an open that was not cleaned up: the entry stays.
CloseFile(o) ==
  /\ context[o] # Null
  /\ context' = [context EXCEPT ![o] = Null]
  /\ CloseHandle(context[o])
  /\ CutOff(context[o])
  /\ UNCHANGED <<counts, pc, threads, raced, met, cache>>

-----------------------------------------------------------------------------
(* A callback of several steps.                                            *)

\* The thread takes the handle of the open, or opens the file again.
TakeHandle(t, o, l) ==
  /\ pc[t] = "idle"
  /\ Goto(t, l)
  /\ open' = [open EXCEPT ![t] = o]
  /\ reopened' = [reopened EXCEPT ![t] = context[o] = Null]
  /\ IF context[o] # Null
     THEN /\ handle' = [handle EXCEPT ![t] = context[o]]
          /\ UNCHANGED <<owner, unflushed, missed, pointer>>
     ELSE \E h \in Handles :
            /\ OpenHandle(o, h)
            /\ handle' = [handle EXCEPT ![t] = h]
  /\ UNCHANGED <<context, counts, cut, cache>>

\* The callback returns and closes the handle if it opened it.
Return(t) ==
  /\ Goto(t, "idle")
  /\ handle' = [handle EXCEPT ![t] = Null]
  /\ open' = [open EXCEPT ![t] = Null]
  /\ reopened' = [reopened EXCEPT ![t] = FALSE]
  /\ met' = [met EXCEPT ![t] = FALSE]
  /\ cut' = [cut EXCEPT ![t] = FALSE]
  /\ IF reopened[t]
     THEN CloseHandle(handle[t])
     ELSE UNCHANGED <<owner, unflushed, missed, pointer>>

-----------------------------------------------------------------------------
(* MirrorWriteFile, and MirrorSetAllocationSize to less than the size.     *)

BeginWrite(t, o) ==
  /\ TakeHandle(t, o, "write")
  /\ LET h == handle'[t] IN
       /\ raced' = [raced EXCEPT ![h] = @ \/ Others(t, h, InWrite) # {}]
       /\ Meet(t, h, TRUE)

BeginResize(t, o) ==
  /\ context[o] # Null
  /\ TakeHandle(t, o, "resize")
  /\ Meet(t, context[o], TRUE)
  /\ UNCHANGED raced

\* SetFilePointerEx, to the offset or the new size, or to the end of the file.
Place(t) ==
  /\ pc[t] \in {"write", "resize"}
  /\ owner[handle[t]] # Null
  /\ Goto(t, IF pc[t] = "write" THEN "placed" ELSE "resized")
  /\ pointer' = [pointer EXCEPT ![handle[t]] = t]
  /\ UNCHANGED <<context, owner, unflushed, missed, counts, threads, history, cache>>

\* WriteFile, at the file pointer, through whatever the handle is of by now.
Write(t) ==
  /\ pc[t] = "placed"
  /\ LET h == handle[t] IN
       /\ owner[h] # Null
       /\ unflushed[h] < MaxWrites
       /\ Goto(t, "written")
       /\ unflushed' = [unflushed EXCEPT ![h] = @ + 1]
       /\ pointer' = [pointer EXCEPT ![h] = Null]
  /\ UNCHANGED <<context, owner, missed, counts, threads, history, cache>>

\* SetEndOfFile, at the file pointer.
SetEnd(t) ==
  /\ pc[t] = "resized"
  /\ owner[handle[t]] # Null
  /\ Goto(t, "truncated")
  /\ UNCHANGED <<files, counts, threads, history, cache>>

\* SetAllocationSize is over, or the handle is closed, or a size, a seek or the
\* write fails.
GiveUp(t) ==
  /\ pc[t] \in {"write", "placed"} \cup InResize
  /\ Return(t)
  /\ UNCHANGED <<context, counts, raced, cache>>

\* Faulty: the count is tested for more than five.
TestCountLate(t) ==
  /\ pc[t] = "written"
  /\ counts' = [counts EXCEPT ![handle[t]] = CountOf(handle[t])]
  /\ Goto(t, IF CountOf(handle[t]) = FlushAt + 1 THEN "due" ELSE "add")
  /\ UNCHANGED <<files, threads, history, cache>>

\* The count is read once, and nothing keeps it as it is.
TestCount(t) ==
  /\ pc[t] = "written"
  /\ counts' = [counts EXCEPT ![handle[t]] = CountOf(handle[t])]
  /\ Goto(t, IF CountOf(handle[t]) = FlushAt THEN "due" ELSE "add")
  /\ UNCHANGED <<files, threads, history, cache>>

\* FlushFileBuffers may fail, or the handle is closed by now: nobody looks.
Flush(t) ==
  /\ pc[t] = "due"
  /\ Goto(t, "flushed")
  /\ \/ /\ owner[handle[t]] # Null
        /\ unflushed' = [unflushed EXCEPT ![handle[t]] = 0]
        /\ missed' = [missed EXCEPT ![handle[t]] = 0]
     \/ /\ owner[handle[t]] # Null
        /\ missed' = [missed EXCEPT ![handle[t]] = @ + 1]
        /\ UNCHANGED unflushed
     \/ /\ owner[handle[t]] = Null
        /\ UNCHANGED <<unflushed, missed>>
  /\ UNCHANGED <<context, owner, pointer, counts, threads, history, cache>>

\* Flushed or not; the entry is made again if a cleanup has erased it.
ResetCount(t) ==
  /\ pc[t] = "flushed"
  /\ counts' = [counts EXCEPT ![handle[t]] = 0]
  /\ Return(t)
  /\ UNCHANGED <<context, raced, cache>>

AddOne(t) ==
  /\ pc[t] = "add"
  /\ counts' = [counts EXCEPT ![handle[t]] = (CountOf(handle[t]) + 1) % Modulus]
  /\ Return(t)
  /\ UNCHANGED <<context, raced, cache>>

\* MirrorFlushFileBuffers; if it fails nothing changes, and the caller is told.
FlushOpen(o) ==
  /\ context[o] # Null
  /\ unflushed' = [unflushed EXCEPT ![context[o]] = 0]
  /\ missed' = [missed EXCEPT ![context[o]] = 0]
  /\ UNCHANGED <<context, owner, pointer, counts, pc, threads, history, cache>>

-----------------------------------------------------------------------------
(* MirrorReadFile.                                                         *)

\* A read that fills no cache: ReadFile moves the file pointer of the handle.
ReadOpen(t, o) ==
  /\ pc[t] = "idle" /\ context[o] # Null
  /\ pointer' = [pointer EXCEPT ![context[o]] = Null]
  /\ Meet(t, context[o], FALSE)
  /\ UNCHANGED <<context, owner, unflushed, missed, counts, pc, threads, raced, cut,
                 cache>>

\* The cached file.

Busy(t, ls) == \E x \in Threads \ {t} : pc[x] \in ls

\* If c holds, something goes wrong; the first is remembered.
Spoil(c, what) == spoiled' = IF c /\ spoiled = "no" THEN what ELSE spoiled

\* A part of the buffer; a request for less than the length but more than what
\* is left after its offset gets what lies behind the buffer as well.
ReadCached(t) ==
  /\ pc[t] = "idle" /\ dataSet
  /\ answer' \in {data, "beyond"}
  /\ Spoil(Busy(t, Filling), "together")
  /\ UNCHANGED <<files, counts, pc, threads, history, dataSet, data, infoSet, info>>

BeginRead(t, o) ==
  /\ o \in Cached /\ ~dataSet
  /\ TakeHandle(t, o, "read")
  /\ UNCHANGED <<raced, met>>

\* ReadFile into the caller's buffer.
ReadShare(t) ==
  /\ pc[t] = "read"
  /\ owner[handle[t]] # Null
  /\ Goto(t, "test")
  /\ pointer' = [pointer EXCEPT ![handle[t]] = Null]
  /\ Meet(t, handle[t], FALSE)
  /\ UNCHANGED <<context, owner, unflushed, missed, counts, threads, raced, cut, cache>>

\* Faulty: the content is read from where the file stands.
TestLengthNoSeek(t) ==
  /\ pc[t] = "test" /\ ~dataSet
  /\ owner[handle[t]] # Null
  /\ Goto(t, "unset")
  /\ Meet(t, handle[t], TRUE)
  /\ Spoil(Busy(t, Filling), "together")
  /\ UNCHANGED <<files, counts, threads, raced, cut, dataSet, data, infoSet, info,
                 answer>>

\* The second test of the length, and the seek to the start.
TestLength(t) ==
  /\ pc[t] = "test" /\ ~dataSet
  /\ owner[handle[t]] # Null
  /\ Goto(t, "unset")
  /\ pointer' = [pointer EXCEPT ![handle[t]] = Start]
  /\ Meet(t, handle[t], TRUE)
  /\ Spoil(Busy(t, Filling), "together")
  /\ UNCHANGED <<context, owner, unflushed, missed, counts, threads, raced, cut,
                 dataSet, data, infoSet, info, answer>>

\* The cache is filled, the length is set by now, or the read, the seek or the
\* size fails.
EndRead(t) ==
  /\ pc[t] \in {"read", "test", "unset", "filled"}
  /\ Return(t)
  /\ UNCHANGED <<context, counts, raced, cache>>

\* The size of the file is the length, which is set first.
SetLength(t) ==
  /\ pc[t] = "unset"
  /\ owner[handle[t]] # Null
  /\ Goto(t, "sized")
  /\ dataSet' = TRUE
  /\ UNCHANGED <<files, counts, threads, history, data, infoSet, info, answer, spoiled>>

\* Then the buffer.
Allocate(t) ==
  /\ pc[t] = "sized"
  /\ Goto(t, "filling")
  /\ data' = "garbage"
  /\ UNCHANGED <<files, counts, threads, history, dataSet, infoSet, info, answer,
                 spoiled>>

\* Then its content, from where the file pointer of the handle is by now: it is
\* whole, or what stands elsewhere, or nothing.  The bytes read are not compared
\* with the size, and if the read fails the length and the buffer stay.
Fill(t) ==
  /\ pc[t] = "filling"
  /\ Goto(t, "filled")
  /\ LET h == handle[t]
         there == owner[h] \in Cached /\ pointer[h] = Start
     IN  /\ \/ there /\ data' = "whole" /\ UNCHANGED spoiled
            \/ there /\ UNCHANGED data /\ Spoil(TRUE, "failed")
            \/ /\ ~there
               /\ data' \in {data, "elsewhere"}
               /\ Spoil(met[t] \/ cut[t], "misled")
         /\ pointer' = [pointer EXCEPT ![h] = Null]
  /\ UNCHANGED <<context, owner, unflushed, missed, counts, threads, history, dataSet,
                 infoSet, info, answer>>

-----------------------------------------------------------------------------
(* MirrorGetFileInformation of the cached file.                            *)

InfoCached(t) ==
  /\ pc[t] = "idle" /\ infoSet
  /\ answer' = info
  /\ Spoil(Busy(t, CopyInfo), "together")
  /\ UNCHANGED <<files, counts, pc, threads, history, dataSet, data, infoSet, info>>

InfoFromShare(t) ==
  /\ pc[t] = "idle" /\ ~infoSet
  /\ Goto(t, "info")
  /\ UNCHANGED <<files, counts, threads, history, cache>>

TestInfo(t) ==
  /\ pc[t] = "info"
  /\ Goto(t, IF infoSet THEN "idle" ELSE "infoUnset")
  /\ UNCHANGED <<files, counts, threads, history, cache>>

BeginCopy(t) ==
  /\ pc[t] = "infoUnset"
  /\ info' = "garbage"
  /\ Goto(t, "copying")
  /\ UNCHANGED <<files, counts, threads, history, dataSet, data, infoSet, answer,
                 spoiled>>

EndCopy(t) ==
  /\ pc[t] = "copying"
  /\ info' = "whole"
  /\ infoSet' = TRUE
  /\ Goto(t, "idle")
  /\ UNCHANGED <<files, counts, threads, history, dataSet, data, answer, spoiled>>

-----------------------------------------------------------------------------
WriteFile(t) ==
  \/ \E o \in Opens : BeginWrite(t, o) \/ BeginResize(t, o)
  \/ Place(t) \/ Write(t) \/ SetEnd(t) \/ GiveUp(t)
  \/ TestCount(t) \/ Flush(t) \/ ResetCount(t) \/ AddOne(t)

ReadFile(t) ==
  \/ \E o \in Opens : ReadOpen(t, o) \/ BeginRead(t, o)
  \/ ReadCached(t) \/ ReadShare(t) \/ TestLength(t) \/ EndRead(t)
  \/ SetLength(t) \/ Allocate(t) \/ Fill(t)

GetFileInformation(t) ==
  InfoCached(t) \/ InfoFromShare(t) \/ TestInfo(t) \/ BeginCopy(t) \/ EndCopy(t)

Next ==
  \/ \E o \in Opens :
       Cleanup(o) \/ CloseFile(o) \/ FlushOpen(o) \/ \E h \in Handles : Create(o, h)
  \/ \E t \in Threads : WriteFile(t) \/ ReadFile(t) \/ GetFileInformation(t)

Spec == Init /\ [][Next]_vars

-----------------------------------------------------------------------------
(* Properties.                                                             *)

\* Between the writes of a handle no more than five of them wait for a flush,
\* and six more for each flush that failed, unless two writes used its entry at
\* once.  It may inherit the count of a handle of the same number, which only
\* makes it flush early.
FlushIsTimely ==
  \A h \in Handles :
    (owner[h] # Null /\ ~raced[h] /\ \A t \in Threads : handle[t] = h => pc[t] \notin InWrite)
      => unflushed[h] <= FlushAt + (FlushAt + 1) * missed[h]

\* A write or the end of a file is set in another file only if the handle was
\* closed under it and its number was given to that file, and at another
\* offset only then or if another callback used the handle meanwhile.
StepWritesInPlace ==
  \A t \in Threads :
    (\/ pc[t] = "placed" /\ pc'[t] = "written"
     \/ pc[t] = "resized" /\ pc'[t] = "truncated") =>
      \/ cut[t]
      \/ owner[handle[t]] = open[t] /\ (pointer[handle[t]] = t \/ met[t])
WriteReachesItsPlace == [][StepWritesInPlace]_vars

\* The cache answers with something else than the content of the file only if
\* two callbacks met while it was being filled ("together"), if the content could
\* not be read whole ("failed"), or if it was read through a handle that another
\* callback used or a cleanup closed meanwhile ("misled"): a callback that fills
\* it undisturbed leaves it right.  It is not so for a request that goes on
\* after the end of the buffer ("beyond").
AnswersAreWhole == answer \notin {"whole", "beyond"} => spoiled # "no"
=============================================================================
