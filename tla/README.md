# A TLA+ model of seamless_smb

seamless_smb mirrors directories (usually SMB shares) into Windows drives with
Dokan, so that programs see drives with security descriptors of their own. A
Windows service supervises one child process per mount; a controller with a
QML interface edits the list of mounts and talks to the service over a local
socket. This directory holds TLA+ modules that model that program, the TLC
configurations that check them, and proofs checked by TLAPS.

Source paths below are relative to `src/`; `service/` stands for
`seamless_smb_service/`, `lib/` for `seamless_smb_lib/`, `controller/` for
`seamless_smb_service_controller/`, `common/` for `seamless_smb_common/`.

## 1. The system

### Components, their state and their operations

| Component | State | Operations | Interacts with |
|---|---|---|---|
| **Daemon** `service/daemon.cpp` | `mounts` (list of QProcess, MountInfo), `mountAllrunning`, the settings, the status timer | `start`, `reloadMounts` (`toRemove`, `toaddModify`, `remove`, `add`, `modify`), `mountAll`, `mount`, `checkStatus`, the destructor with `unmountAll` | jobs of the global thread pool call it back with a blocking queued call; signals of Server are queued for it; QProcess tells it of exits |
| **Server** `service/server.cpp` | sockets, the controller's socket | `start`, new connection, close, one line per `readyRead`, status broadcast; a thread of its own | emits `reloadMounts`, `mount` to Daemon; `sendStatus` from the daemon thread and from jobs |
| **Service wrapper** `service/seamless_smb_service.cpp` | the daemon thread | `start`, `stop` (waits three seconds) | the service control manager |
| **Mount process** `service/process/main.cpp`, `dokanrunner.cpp` | a FileMount, a save timer, a hidden window | boot, mount, timer save, WM_CLOSE, exit codes 2 and 3 | Daemon starts, asks it to close and kills it |
| **FileMount** `lib/filemount.cpp` | the Dokan handle, the `.dat` file | constructor reads the `.dat` file, `mount`, `unmount`, `isRunning`, `join`, `saveSecurity` | Dokan; Nodes |
| **Security store** `lib/nodes.h`, `filenode.cpp`, `filesecurity.cpp` | list of filenodes, each a name and a descriptor behind a mutex | find, add, rename, delete; GetFileSecurity, SetFileSecurity | callbacks of Dokan in many threads |
| **File operations** `lib/fileops.cpp` | handles, `writeCounts` | the Dokan callbacks | the share; the security store; the cache |
| **Cache** `lib/cache.cpp` | cached file attributes, a monitor thread | lookup, invalidation, destructor | file operations |
| **Common** `common/common.cpp` | none | MountInfo, its comparison, its option names | everybody |
| **Client, ApplicationUI** `controller/client.cpp`, `applicationui.cpp` | the socket, `mounts.ini` | save and send `reload`, receive statuses, reconnect | Server; MountListModel |
| **MountListModel, MountEditor** `controller/mountlistmodel.cpp`, `mounteditor.cpp` | the edited list | add, remove, edit, accept | ApplicationUI |
| **Loggers** `service/logger.cpp`, `service/process/logger.cpp` | the current file and its size | write, rotate | none |

Not part of the modelled system: `SecurityProcessor` (every call of it is
commented out), `WinSec` (a descriptor is a value to the rest of the program;
the rest prints), the command line of `mirror.cpp`, the interactive tester, the
QML files, and the vendored code (Dokan, FUSE, Boost, Qt solutions).

### What is hard in it

* **Stale copies.** The jobs of `mountAll` and `checkStatus` walk a copy of the
  list of mounts while the daemon thread replaces its entries.
* **Shared flag.** Overlapping jobs share `mountAllrunning`, which suspends the
  restart of dead mounts.
* **Blocking calls between threads.** A job waits for the daemon thread, which
  may be reloading, sleeping or in its destructor; the destructor dispatches
  queued calls once more.
* **Ownership of processes.** A QProcess lives as long as some `shared_ptr`,
  in the list or in a copy, and its destructor kills the child.
* **Read and write in two steps.** A callback looks a path up and adds or
  changes its filenode later; the list is locked for each of the two calls.
* **Deletion that is taken back, a file moved over another one.**
* **One stream, several meanings.** The greeting of a controller has no end of
  line and can be read together with the request behind it.
* **A file written in place** by a process that may be killed meanwhile, or that
  has a successor already, and never looked at again: a write that fails says
  nothing.
* **Timeouts against each other.** `stop` waits three seconds for a thread that
  may sleep a second per mount, wait half a second per start, two seconds per
  child and one for the thread of the server, and wait for what it has killed.
* **Results nobody looks at.** A flush that fails starts the count of writes
  again; a read that fails leaves a cache that is taken for filled.
* **Handles as keys.** Windows gives the number of a closed handle again while a
  callback still counts its writes under it, and two callbacks share one file
  pointer.
* **A dialog that is not modal** over a list that changes behind it.

### What makes each component correct

* Daemon: the list is what `mounts.ini` says; a process belongs to one mount; no
  child is left behind; children are started only for a reason; a dead mount
  comes back; the controller learns the truth in the end; a stop ends.
* Security store: what a client sets it reads back; concurrent changes of two
  parts both last; a descriptor changes only through an operation on its path.
* Mount process: what was served at the end is served after an ordered restart;
  the file is torn only for a reason; a process that is asked to close ends.
* Link and list: a save is loaded unless it is lost for a named reason; silence
  of the service has a cause; no list has a uuid twice; the file is what the
  application that wrote last shows.
* Service wrapper: a stop ends, in order if it can, and leaves no child.
* Callbacks: the writes that wait for a flush are those since the last one that
  was tried; a write reaches its file and its offset, and the cache holds the
  content, unless another callback used or closed the handle meanwhile.

`PROJECT.json` lists each hazard at its line with the properties about it.

## 2. The modules and the plan

| Module | Models | Proofs |
|---|---|---|
| `Daemon`, `MCDaemon` | supervisor, jobs, children, the controller's save | `DaemonProofs` |
| `Child` | abstract: the states a QProcess and its child go through | refined in `DaemonProofs`, `MountProcessProofs` |
| `MountTable` | abstract: what the service promises of `mounts.ini` | refined in `DaemonProofs` |
| `DescriptorList` | abstract: a list of names with descriptors, every call at one moment | refined in `SecurityStoreProofs` |
| `MountProcess` | main, DokanRunner, FileMount, the cache's monitor thread, the `.dat` file, crash and restart | `MountProcessProofs` |
| `SecurityStore`, `MCSecurityStore` | filenodes, share, security callbacks | `SecurityStoreProofs` |
| `ControlLink` | applications, Client, the local socket, Server | `ControlLinkProofs` |
| `MountList` | MountListModel, MountEditor, the dialog, `mounts.ini` | `MountListProofs` |
| `ServiceStop` | start and stop of the service against the daemon thread, in half seconds | `ServiceStopProofs` |
| `FileCallbacks`, `MCFileCallbacks` | write, allocation size, read and file information: file pointer, write count, cached file | `FileCallbacksProofs` |

Three of them are abstract: they say what a component promises, with a state of
their own, and the component's module is shown to implement them by a mapping
that stands at its end (`C`, `T`, `L`). How they meet. `Child` is the contract between `Daemon`, which uses it, and
`MountProcess`, which is the program behind it: both are shown to implement it.
`MountProcess` treats the contents of Nodes as one value, `SecurityStore` has
their detail. `ControlLink` decides whether a save reaches the daemon, `Daemon`
what a reload then does; `MountList` shows that the file satisfies
`SettingsAssumption` of `Daemon`. `ServiceStop` adds time to the destructor that
`Daemon` has without it.

What could follow: the status decisions of the callbacks (`fileops.cpp`, mostly
a translation of errors), a composition of `ControlLink` and `Daemon` in one
state space, the directory tree of `MirrorMoveFile` in the store.

### Daemon

One action is one atomic step of a thread. `settings` is `mounts.ini`;
`reload` and `commands` are the calls queued for the daemon thread; `loaded`,
`toAdd`, `toModify`, `toRemove` are the local lists of `reloadMounts`. `kind`,
`jpc`, `copy`, `todo`, `cur`, `seen` are the program counters and locals of the
jobs of the thread pool; `child[p]` is the child process of the QProcess `p`.

| Action | Code |
|---|---|
| `Save` | `ApplicationUI::onModelModified`: saves and sends `reload`, which may get lost |
| `StartCommand`, `HandleCommand` | the line `start/<uuid>` and the queued `Daemon::mount`; no program of the repository sends it |
| `BeginReload`, `RemoveMount`, `AddMount`, `ModifyMount`, `FinishReload` | `Daemon::reloadMounts`, one action per element |
| `HandleMount` | `Daemon::mount` called by a blocked job (`MountByUuid` is its body) |
| `Tick`, `CheckRead`, `CheckSend`, `CheckTest` | `Daemon::checkStatus` and its job: the state is read, sent, and looked at for keepAlive, in three steps |
| `SetFlag`, `CopyMounts`, `MountAllStep`, `EndJob` | the job of `Daemon::mountAll` |
| `BeginStop`, `CloseMount`, `BeginDrain`, `EndStop` | `Daemon::~Daemon` |
| `NoticeExit`, `ChildReady`, `ChildExit` | QProcess and the child |

Abstractions. Lists are sets: only the order of elements is lost, and it is
left open. `MountInfo` keeps the uuid and the two flags the supervisor reads;
the other fields are one value if `operator==` compares them (`target`) and one
if it does not (`tuning`). The copy that `foreach` takes is atomic; in the code
it races with the changes of the list by the daemon thread, which has no defined
outcome. `waitForStarted(500)` and the sleeps have no
duration; `ServiceStop` has them. `mount` cannot
see a child that was started and has exited before the exit is noticed, as in
the code. `Daemon::unmount` and the signal `unmount` are connected to nothing.
Jobs that outlive the object use freed memory: the model ends there.

`MountTable` is the daemon as the user of the controller sees it: `saved` is the
file, `table` the mounts the service stands for, `served` those of the table, or
of an older one, that a child serves. `Load` takes the file over at one moment,
`Serve` starts a mount of the table, and neither happens while something is
served that the table does not have; `Withdraw` and `End` let go. In the code a
reload takes one mount after the other, jobs with old copies ask for starts
meanwhile, and `mount` looks the uuid up in the list as it is then. The mapping
is `Table`, what the reload in progress has read or else the list, and `Served`,
the entries of the list whose process runs, both as far as `operator==` looks.
An entry that was removed or replaced is not served any more in this sense,
although its child may live on while a job's copy holds the QProcess;
`NoOrphanChild` is about that child.

### SecurityStore

`present` is the share, `deleting` the paths whose deletion was requested;
`filenodes` is the list, `node` the objects, `holder` their mutexes; `pc`, `at`,
`to`, `found`, `change`, `heap` are the locals of the threads of the driver. A
callback is its work on the share followed by one call on the list:

| Action | Code |
|---|---|
| `CreateNew`, `CreateAlways`, `AddNode` | `MirrorCreateFile`, `Nodes::addFileNode` |
| `SetFind`, `SetLock`, `SetRead`, `SetWrite` | `MirrorSetFileSecurity`, `GetDescriptor`, `SetDescriptor` |
| `RequestDelete`, `CancelDelete`, `RemoveNode`, `Cleanup` | `MirrorDeleteFile`, `DeleteDirectory`, `MirrorCleanup`, `Nodes::deleteFileNode` |
| `MoveOnShare`, `RenameNode` | `MirrorMoveFile`, `Nodes::rename` |

`Reads(x, d)` is what `MirrorGetFileSecurity` returns. A path is a sequence of
names, so that moving a directory moves what lies in it on the share (the list
does not follow). A descriptor is a function from parts to values. `stat`, which
the code tests and never assigns, leaves `SetWrite` two outcomes. Operations
that touch neither the list nor the existence of a path are left out.

`DescriptorList` is the list as the clients see it: names with descriptors, no
objects, no mutexes, no half-done calls. `Add`, `Store`, `Remove` and `Rename`
each happen at one moment, a `Store` changes one part and leaves the others as
they are at that moment. The mapping is `List`, the names and descriptors behind
`filenodes`. The moment is that of `addFileNode`, `SetDescriptor`,
`deleteFileNode` and `rename`: that what the callback looked up before is still
true then, or does not matter, is what the refinement shows.

### Child and MountProcess

`Child` has one variable, the state of each QProcess: `none`, `booting`, `up`
(its window exists), `closing` (WM_CLOSE is posted), `exited` (not yet noticed).
`MountProcess` refines it by `ChildOf`, `Daemon` by its own variable `child`.

| Action | Code |
|---|---|
| `Start`, `Terminate`, `Kill`, `NoticeExit` | `Daemon::mount`, `remove`/`modify`, the end of a QProcess |
| `CreateWindow`, `Load`, `LoadNoMount`, `CheckLetter`, `Mount` | `main`, the constructors of DokanRunner and FileMount, `FileMount::mount` |
| `BeginSave`, `EndSave` | the timer and `FileMount::saveSecurity`: the open that truncates (`Truncate`) or fails (`OpenFails`), then the write (`Written`), one that fails unseen (`WriteFails`), or an archive that throws |
| `LeaveLoop`, `Leave`, `LeaveNoMount`, `BeginLastSave`, `EndLastSave` | WM_CLOSE or an exit code, `~DokanRunner`, `FileMount::unmount` |
| `Join`, `LateMonitor`, `Exit` | `~Cache` and the thread that watches the directory |
| `ChangeNodes`, `Unmounted`, `Crash` | callbacks, an eject or the driver, power loss |

Abstractions. The contents of Nodes are one value; a save writes what they are
when it ends, while the code serializes one filenode after the other under the
lock of the list and without the locks of the filenodes. The monitor thread is
looked at only where `~Cache` meets it. Messages of the window come before the
timer. The driver frees the letter of a dead process later. The `.dat` file is
named after the `RootDirectory` (`filemount.cpp:43`), so two mounts of one
directory share it; the module has one mount, and what its two processes do to
each other's saves is what those of two such mounts would do, but that the
second mount's descriptors replace the first's is not stated anywhere and not
modelled.

A save may fail in four places. The open fails: nothing is written, and nobody
is told. The archive cannot write and throws, nobody catches, and the process
ends: that is `Die` in the middle of a save. The last part is in the buffer of
the `filebuf`, which its destructor flushes without a word (`filemount.cpp:174`):
the file is torn, and the process goes on. The process is killed. `unwritten`
remembers the first and the third until the next save opens the file,
`damaged` the second and the fourth, and two saves at once. `overlapped` and
`promise` are history as well.

`TornHasCause` is so about order: the file may be torn only while it is written
or for one of these causes, and never because of saves, closes, restarts and
ejects in some order; and a cause does not outlive the next save, which truncates
the file again. `ChangeReachesDisk` and the promise of `OrderedRestartKeeps` are
for saves that could write. The promise is empty after a kill and when a process
starts before its predecessor is gone: a replaced mount loses what was not saved,
and the code has nothing against it.

### ControlLink

`pipe[a]` and `inbox[a]` are the commands of an application on their way and in
the buffer of the server's socket; `notified` is a `readyRead` to be delivered;
`current` says whether the daemon has the list of the file.

| Action | Code |
|---|---|
| `Open`, `Quit`, `Tick` | ApplicationUI, its destructor, `isRunningTimerTimeout` |
| `Save`, `Send` | `onModelModified`, `Client::sendReload` |
| `TryConnect`, `Greet` | `Client::start`, its timer, the queued lambda that greets |
| `Listen`, `Arrive`, `Accept`, `ReadLine` | `Server::start`, the pipe, `onnewConnection`, `onReadyRead` with `readLine` |
| `StartService`, `Reload`, `StopService` | the daemon as far as the link is concerned |

Abstractions. The list is current or not. Two commands read as one line are an
unknown command, which the code ignores. The server's pointer to a socket that
closed is as good as none. A `Client` whose socket does not exist yet is a null
pointer in `sendReload`: the application ends. What an application wrote before
it left may or may not be read. A Client never connects a second time, as in the
code, so a restart of the service between two ticks leaves it `lost`. The status
lines are not modelled.

### MountList

`rows` is `modelList`, `editor` the MountEditor, `dialog` whether the QML dialog
is open, on the editor or on the null that `edit` and `newMount` return when
there is one. `RemoveRow`, `SetEnabled`, `SetRunning`, `Edit`, `NewMount`,
`Accept`, `Reject` are the methods of MountListModel, `ChangeEditor` the setters
of MountEditor, `Edited` is `onModelModified`. The fields other than uuid and
enabled are one value. A new uuid is one that nobody has. `running` is shown and
not saved. Two applications share the file and read it only when they start.

### ServiceStop

Time is counted in half seconds and passes only when no thread can go on
(`Urgent`). The waits are those of the code, each of which may end sooner:

| Wait | Code | State |
|---|---|---|
| three seconds of `stop` | `seamless_smb_service.cpp:36` | `waited` |
| one second for each mount a reload adds | `daemon.cpp:204` | `busy`, `late` |
| half a second for a child to start, also in calls the destructor dispatches | `daemon.cpp:282`, `87`, `93`, `98` | `busy`, `late` |
| for a child that `~QProcess` kills, in a reload and at the end | `daemon.cpp:193`, `244`, `102` | `busy`, `late` |
| two seconds for each child | `daemon.cpp:77` | `grace`, `slow` |
| one second for the thread of the server | `daemon.cpp:97` | `joined` |

Deleting a running QThread ends the program (`qFatal`, external), at two places:
`Abort` is the one of `stop`, and `EndDestructor` has that of `delete sockThread`
(`daemon.cpp:99`), which a server that outlasts its second meets. `Fatal` is what
both do. `late`, `slow` and `joined` are the account that `AbortHasCause` looks
at: the half seconds of the stop in a reload, a start or on a killed child; the
children that were waited for, four half seconds each at most; the thread of the
server. The smallest accounts that end the service are: the server's thread
alone, by the second `qFatal`; one child that hangs and the server's second; one
child that hangs and two starts, or one new mount; three seconds of reload; two
children. One child that hangs, and ends once it is killed, does not, nor two
seconds of sleep alone.

What a thread does between two waits takes no time. `MaxAdds` bounds the mounts
that one reload adds, `MaxDying` the half seconds that killed children take to
end; a reload is requested again only when none is queued. The waits of
`~QProcess` that end a copy of a job happen in the job's thread.

### FileCallbacks

`context[o]` is the handle of an open, `owner[h]` the open whose file the handle
is of, `counts` is `writeCounts`, `pointer[h]` the thread at whose offset the
file pointer stands, or `Start`, or neither. `unflushed[h]` is what a flush would
have to write and `missed[h]` the flushes that failed since the last that did
not.

| Action | Code |
|---|---|
| `Create`, `Cleanup`, `CloseFile`, `FlushOpen` | `MirrorCreateFile`, `MirrorCleanup`, `MirrorCloseFile` of an open that was not cleaned up, `MirrorFlushFileBuffers` |
| `BeginWrite`, `Place`, `Write`, `GiveUp` | `MirrorWriteFile`: the handle or a new one (`TakeHandle`), the seek, the write, a call that fails |
| `TestCount`, `Flush`, `ResetCount`, `AddOne` | its count of writes, outside the lock; the flush may fail, and the count starts again all the same |
| `BeginResize`, `Place`, `SetEnd`, `GiveUp` | `MirrorSetAllocationSize`: the seek and `SetEndOfFile` |
| `ReadOpen` | `MirrorReadFile` of any file: it moves the file pointer |
| `BeginRead`, `ReadShare`, `TestLength`, `SetLength`, `Allocate`, `Fill`, `EndRead` | `MirrorReadFile` of the cached file while the cache is empty |
| `ReadCached` | `MirrorReadFile` of the cached file from the cache |
| `InfoCached`, `InfoFromShare`, `TestInfo`, `BeginCopy`, `EndCopy` | `MirrorGetFileInformation` of the cached file |

**Handles.** A cleanup or a close may come between any two steps of a callback.
The callback goes on with the number it has: its calls fail while the number is
free, and reach another file once it is given again. `CloseFile` closes the
handle and leaves its entry in `writeCounts`, as the code does; so does a write
that opened its own handle. The next open of that number inherits the count.
`met[t]` and `cut[t]` remember that another callback used the handle of a thread,
or that it was closed, since the thread took it.

**Flushes.** `FlushIsTimely` is an account: no more than `FlushAt` writes wait,
and `FlushAt + 1` for each flush that failed, since a failed flush
(`fileops.cpp:698`) starts the count again and says nothing. It does not hold of
an entry that two callbacks used at once (`raced`): there the count may pass
`FlushAt` without being tested and flush after it has wrapped.

**The cached file.** The first read seeks to the start (`fileops.cpp:564`), sets
the length, allocates, and reads through the handle of the open, where the file
pointer is by then. A callback that uses the handle in between moves it, a cleanup
takes the handle away, and the bytes read are not compared with the length. The
content is then `whole`, or what stands `elsewhere`, or the `garbage` of malloc.
`AnswersAreWhole` names what went wrong first: two callbacks met while the cache
was filled, the content could not be read whole, or the handle was used or closed
meanwhile. A thread that fills it undisturbed leaves it right, and the mutant,
which forgets the seek, breaks that. A request for less than the length that goes
on past the end of the content gets memory behind the buffer
(`fileops.cpp:525`); such an answer is `beyond`, and `AnswersAreWhole` is not
about it: it takes no order of steps to get, and the code has no bound to check.

Abstractions. Loading, storing and incrementing a count are each atomic; two
callbacks that change the structure of the map at once have undefined behaviour,
which is left out. The entry of INVALID_HANDLE that a failed create leaves is
left out. The cached file is not empty (a length of 0 means that nothing is
cached). That the content grows stale is certain (the monitor compares a name
that never matches) and is not modelled. A write to a file and a read of it are
calls of Windows, each at one moment.

## 3. What TLC checks

| Run | Question | Bounds |
|---|---|---|
| `one` | safety of the daemon, the protocol of its children and the promise of `MountTable`, with a mount that comes, goes, changes, is started by command, and may fail to start | one uuid, two saves, two jobs, three QProcess objects |
| `live` | are blocked jobs answered, reloads applied, stops completed? | one uuid, one save, two jobs, one QProcess |
| `replace` | is a dead mount restarted, and does the reported status settle, while processes are replaced under two jobs? | one mount, two targets, one save, two jobs, two QProcess objects |
| `process` | is the `.dat` file whole and served after a restart, do processes end, are they children as `Daemon` takes them, when opens and writes fail? | two processes, two contents |
| `link` | is a save on its way or lost for a named reason, is it loaded, do applications connect? | two applications, two commands when a list is saved |
| `list` | are uuids unique, is the file what is shown, does each write come of an edit? | two applications, two uuids, one value of the fields |
| `stop` | does a stop end, when by `qFatal`, and what does it leave? | two mounts, one added in a reload, half a second for what is killed |
| `callbacks` | are flushes timely, do writes reach their place, is the cache whole? | two threads, two opens, one of the cached file, one number for handles, a flush at a count of 1, count modulo 2, three writes without a flush |
| `fields` | does a reload apply every field? (violated) | one mount, two tunings |
| `store` | safety of the security store, and does each call take effect at one moment (`DescriptorList`)? | a directory, a file in it, a file beside it; two filenode objects, two threads, one part with two values |
| `first` | does a successful SetFileSecurity last? (violated) | the same, three objects |
| `cancel` | does a file whose deletion is taken back keep its descriptor? (violated) | the same, one thread |

The bounds are small and each interesting case still happens. Two jobs overlap
in every way a shared flag and stale copies can show. Two QProcess objects let
a mount be replaced while a job holds the one it had, three let it be replaced
twice, and the reload waits when none is free (a bound of the model, named in
`BeginReload`). Two saves let a mount be removed and added again, or disabled
and enabled again. One uuid is enough to TLC because entries
meet only in the reload, which matches them by uuid; the theorems cover lists
of any length. In the store a path can be created, found, secured, deleted and moved
over by another in every order of two threads. One part is enough for a stale descriptor
to be seen (`ReadIsFresh`); that two parts both last is proved for any number of
parts (`ListIsKept`). Two processes of one mount are
enough for a file that two write, a letter that is taken and a restart after
each other. Two applications greet over each other, and two commands let a
greeting swallow a request and another follow it. Two mounts let one child
outlast a stop, or both, while the other is started in its destructor, and every
sum of waits that makes three seconds is met. One number for handles makes Windows
give every handle of a closed file again, which is the case that matters. The
code flushes at 5 and counts modulo 256; at 1 and modulo 2 a count reaches its
limit, is tested late, wraps and is inherited, and the theorem
(`FlushComesInTime`) is about every limit and modulus. The process objects, jobs,
filenodes, threads and opens are symmetric; symmetry is used for safety runs only.

Each property has a mutant in `PROJECT.json`: an operator marked `Faulty` in
the module, which replaces a definition by what a likely mistake would make of
it (a reload without `sync`, a missing lock, a flag not cleared, an `addFileNode`
without its search) and breaks the property. No `Faulty` operator is part of a
specification.

### Fairness

`FairSpec` of `Daemon` is used by `live` and `replace`. The steps inside
`reloadMounts` and the destructor, the timer, and the jobs of the pool each run
in a thread that is scheduled: weak fairness. A call queued for the daemon
thread may be delayed by reloads that come between, but the event loop serves
its queue in order, so it is dispatched: strong fairness for `BeginReload`,
`HandleMount` and `NoticeExit`. A child that boots creates its window or exits.
Nothing is assumed of the controller, of commands, of a child's exit or of the
service's stop. In `replace` a start does not fail, since a start that always
fails restarts nothing. Every setting of `replace` is enabled and has keepAlive,
so of `StatusConverges` it checks the half that matters there, a mount that runs
is told to run in the end; a mount that stays down is not among its behaviours.

`MountProcess`: the main thread of a process and its monitor thread run, and the
timer is part of the main thread's loop. Nothing is assumed of the supervisor,
the clients of the drive or the driver. `ControlLink`: each thread runs and a
pipe delivers. The timer of an application is strongly fair: the application may
be busy whenever it is due, and the event stays in its queue. Users owe nothing:
they open, save, quit, start and stop as they like. `ServiceStop`: threads run,
and time passes even if requests for a reload keep coming between (strong
fairness for `Tick`); nothing is assumed of children, jobs or the controller.
`MountList` and `FileCallbacks` have safety properties only.

### Violated runs

* `fields`: `MountInfo::operator==` (`common/common.cpp:78`) skips `debug`,
  `cerr` and `singlethreaded` although `common.h:39` says it compares
  everything except the uuid; changing one of them alone is never applied.
* `first`: `addFileNode` drops a filenode whose name is taken by now, and
  `MirrorSetFileSecurity` (`lib/filesecurity.cpp:265`) returns success.
* `cancel`: the filenode goes when the deletion is requested and also when it
  is taken back (`lib/fileops.cpp:966`, `:911`), against `dokan.h:478`.

## 4. What is proved

Seven modules of proofs, one for each module of the system. Each proves an
inductive invariant for every value of the constants that satisfies the named
assumptions, and from it what the runs check on small instances. They use no
recursion.

Where a module implements an abstract one, the theorem is `Spec => <abstract
spec>` under the mapping: initial states map to initial states, and for each
action there is a step of the proof that names the abstract action, or the
stutter, it becomes.

**Assumptions.** `SettingsAssumption`: the file has finitely many entries, and the
controller never writes two with one uuid (`UuidsAreUnique` of `MountListProofs`
is that fact about the controller). `ServiceStopAssumption`: there are finitely many mounts.
`FileCallbacksAssumption`: the count at which a write flushes is below the
modulus. The others (`ConstantsAssumption`, `ValuesAssumption`,
`PathsAssumption`, `AppsAssumption`, `MountListAssumption`) say that the marker
values differ from what they mark, that a default is a value, that there is a
path, that there are finitely many QProcess objects at a time, and that a bound
is a number. `Cached` and the numbers of `FileCallbacks` are free otherwise: any
of the opens may be of the cached file.

**Daemon.** `ReloadApplied` speaks only of the time outside `reloadMounts` and
is not inductive. The invariant `IInv` adds `WorkLeft`, what the lists of a
running reload still promise: what the list lacks is in `toAdd`, what it has too
much is in `toRemove`, what differs is in `toModify`; each step takes one element
off and does what it promises. `OneEntryPerProcess` is needed there (a step for
a uuid concerns one entry) and in `StartsAreJustified`, where it shows that a
job whose element is the current entry has a fresh copy. `JobInv` says that a
job works on elements of its own copy and blocks only on enabled ones.
`ChildProtocolIsKept` is the refinement of `Child`: each step moves each child
along an edge of the protocol or not at all.

`TableIsKept` is the refinement of `MountTable`. The table may change only where
a reload begins, so the end of a reload is a stutter, and that takes the whole
of `WorkLeft`: when the three lists are empty, the list of mounts is what was
read (`MatchesIsTable`, `ReloadIsApplied`). That the daemon may read the file or
start a child only while it serves nothing outside the table is `ServedInTable`;
the actions that do either wait for the end of the reload, since the daemon
thread runs both. A start is a `Serve` because `mount` finds its entry in the
list and not in the job's copy; `OneEntryPerProcess` shows that it then starts
the process of no other mount.

`ReloadIsNeverStuck` is the safety half of `ReloadIsServed`: inside
`reloadMounts` there is always a next element, and it has its entry in the list.
It matters for the model too. `Daemon::remove` and `Daemon::modify` pass over an
element they find no entry for, where `RemoveMount` and `ModifyMount` would
wait; the theorem shows that this never arises, and that the bounds which
`BeginReload` names (a job, QProcess objects) stop a reload nowhere else. Its
invariant `Provided` says that the elements to remove and to modify have entries
and that there are at least as many free QProcess objects as elements to add or
modify; it is inductive beside `IInv`. No run has it as a property, since it is
about the guards of the model as much as about the code; TLC agrees with
`Provided` on the instance of `one`.

**SecurityStore.** `ReadIsFresh` needs `ThreadInv`: a thread between read and
store holds the mutex of its filenode, and a filenode that is being added is
known to its callback alone. For the action properties, `ListSteps` shows that a
step leaves the list alone, appends a filenode of an unknown name, stores in
one, removes the first of a name or renames the first of a name; each of the
five then keeps names apart (but for the last) and keeps what is read for the paths it
does not touch. `ListIsKept`, the refinement of `DescriptorList`, maps them one
by one: `OneMoreAdds`, `OneStoredStores`, `OneLessRemoves`, `OneRenamedRenames`.
The second needs `ReadIsFresh`: the whole descriptor is written, and only because
what the thread read is still there does it differ from the old one in one part.

**MountProcess.** `WindowInv` (a message is posted, and a FileMount made, only
where there is a window), `OverlapInv` (processes that are alive together are
marked so) and `PromiseInv` (while a content is promised nobody has the drive,
one process is alive at most, it holds that content once it has read the file,
and the file has it or is torn unless that process has still to save) give
`TornFileHasCause` (the file is torn only while a process is in a save, or
`damaged` or `unwritten` says why, and each step that leaves a save without the
whole of it sets one of the two), `OrderedRestartServes` and `ProcessIsChild`, the refinement
of `Child`.

**ControlLink.** `AppInv` speaks of `Stream(a)`, what a connection has written
and nobody has read: it has one greeting at most; until that is read the
connection has lost no request and is not the controller; if no request was sent
early the greeting comes first, so that whatever reads the buffer takes it. The
lemmas say what `readLine` takes off such a stream (`LineCommands`,
`StreamAfterRead`). `SilenceIsExplained` and `OneRequestLost` follow from it;
`RequestStaysOnItsWay` is inductive beside it, because a read of a buffer with a
request in it takes the first one.

**MountList.** `ListInv` keeps the uuids of a list apart and the file equal to
what its last writer shows, through lemmas about removing, replacing and
appending a row; `EditorInv` adds `DialogInv`, the editor behind an open dialog.
`EditsOnly` looks at the file entry by entry: a write changes the entry of one
uuid at most, and a uuid comes into the file only by an editor that is accepted,
unless the application that writes has not seen what the other wrote.
`RemoveEntry`, `ReplaceEntry` and `AppendEntry` say what an edit of the rows does
to the entries; `FileIsShown` says that the file had the rows before it.

**ServiceStop.** `PlaceInv` says where the daemon thread can be while the service
is in each state; `TimeInv` is an account of every half second `stop` has waited:
it went to a reload, a start or what was killed (`late`), to a child that was
waited for, `CloseWait` at most each, to the child the thread waits for now, or
to the thread of the server (`joined`). A child is waited for once, so those that
took time form a set and their number is that of the account; `AbortAccount` is
the account at the end of the wait. The second `qFatal` is no matter of the
account: `PlaceInv` says that where the server's thread is deleted it has ended or
the second for it is over. Neither one hanging child nor two seconds of sleep
alone makes a stop fail; one hanging child and the second of the server's thread
do, and so do one and two starts.

**FileCallbacks.** `CountInv` is about handles whose entry no two writes used at
once: the count and `FlushAt + 1` for each flush that failed account for the
writes that wait, but for what the single thread at work still owes (`Owed`: its
write is not counted yet, or the flush it has tried not yet taken off). So a count
that is inherited, or started again after a failed flush, never jumps over the
limit. `HandleInv`, `ContextInv` and `OwnerInv` say whose file a handle is of
while a callback holds it; `PointerInv`, that the file pointer of a thread that
counts on it is where the thread has put it unless the handle was used (`met`) or
closed (`cut`) since; `CacheInv`, that the cache is right, or being filled by one
thread whose place says how far it is, or that `spoiled` says what went wrong.
`FillsFromStart` joins the two: an undisturbed thread reads from the start of the
cached file.

**Only model-checked.** Liveness under fairness (`BlockedJobResumes`,
`ReloadIsServed`, `StopCompletes`, `KeepAliveRestarts`, `StatusConverges`,
`CloseEnds`, `ChangeReachesDisk`, `NoMountEnds`, `SaveIsLoaded`, `AppConnects`,
`StopEnds`) is outside what the prover does. Every invariant and every
action property of the passing runs is the subject of a theorem. The violated properties have counterexamples instead.

## 5. Not modelled

What section 1 lists as no part of the modelled system, and the loggers, whose
rotation no other part reads. The callbacks of `fileops.cpp` that neither change
what exists, nor the list, nor a file pointer, a count or the cache: finding files,
times, attributes, locks, free space, volume information, and the end of file,
which `MirrorSetEndOfFile` sets with `SetFileInformationByHandle` and without the
file pointer; they translate an error of Windows into a status.
(`MirrorSetAllocationSize` moves the file pointer of the open's handle and is
modelled.) Two mounts of one directory, which share one `.dat` file. `MountOptionsConverter` is a fixed table of
names. In `Daemon`, the priority and the arguments of the child and the text of
the log. In `SecurityStore`, the size negotiation of GetFileSecurity, access
checks and impersonation: they do not change the store. The status lines that
the application parses are only shown. A data race on the container itself
(`mounts` copied while it changes, `writeCounts` inserted into by two threads,
the job that outlives its Daemon) has undefined behaviour and no outcome a build
promises: the models take the copy or the access as atomic, or end there.
