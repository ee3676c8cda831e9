# Verification of nui-scp

This directory holds TLA+ models of nui-scp, the TLC configurations that check them and proofs that
TLAPS checks. Every module is written from the code under `src/`; `PROJECT.json` names the lines each
definition stands for, the runs, the mutants that show each property can fail, and the hazards the properties are for.

    tlc -workers 4 -config queue.cfg OperationQueue.tla           # one run
    tlapm LoginProofs.tla                                         # the proofs of one module

## 1. The system

nui-scp is a terminal and SFTP client. The *frontend* (compiled to WebAssembly, in a web view) draws
terminals, a file grid and a transfer queue. The *backend* owns SSH sessions and processes. They talk by
calls with a reply channel and by events (RPC). All libssh calls of one SSH session are made by one
thread, the *processing thread*.

    page (frontend)  --calls-->  SessionManager strand (asio)  --tasks-->  ProcessingThread (libssh)
         ^                          Session, OperationQueue                  Channel, SftpSession,
         +------ events, replies -------+                                    FileStream through strands

| component | state | operations | interacts with |
|---|---|---|---|
| `ssh/async/ProcessingThread` | task queue, permanent tasks, deferred modifications, `running_`, `shuttingDown_`, flags read without the mutex | start, stop, pushTask, pushPromiseTask, pushPermanentTask, removePermanentTask, clearPermanentTasks, awaitCycle, the loop `run()` | every ssh object pushes to it; task bodies call it again |
| `ssh/async/ProcessingStrand` | `finalized_`, ids of its permanent tasks, its own mutex | pushTask, pushPromiseTask, pushPermanentTask, pushFinalTask, pushFinalPromiseTask, doFinalSync | locks its mutex, then the thread's |
| ssh `Session`, `Channel`, `SftpSession`, `FileStream` | containers of channels and sftp sessions, streams of a session, the libssh handles | create, read, write, seek, stat, close from inside and from outside the thread, shutdown | strands of one thread |
| backend `OperationQueue` | deque of operations, `paused_` | addDownload of a file or a directory, cancel, cancelAll, pause, isPaused, `work()` | `Session` works it, the page hears of it |
| backend `Session` | the continuation of `doOperationQueueWork`, its timer, throttle and counter; channels and sftp channels | start, resetQueueThrottle, the RPCs | runs on the session manager's strand |
| `DownloadOperation` | state, local file, remote stream, options | prepare, readOnce, finalize, cancel, destructor | worked by the queue or by a bulk download; the file system |
| `ScanOperation`, `DeepDirectoryWalker` | state, entries, index | work = one directory at a time | hands its entries to the bulk download behind it |
| `BulkDownloadOperation` | state, entries, index, current download | work = one entry at a time | nested `DownloadOperation`s |
| `SessionManager`, `PasswordPrompter`, the page's `PasswordPrompter` and `InputDialog` | sessions, password cache; one pending callback; the open dialog | addSession with its chain of authentications, prompt, promptDone, removeSession | the strand blocks while the page asks the user |
| `Process`, `ProcessStore`, pseudo terminals | processes by id, exit state; the handler's slots | spawn, exit, write, terminate, the list of processes | SIGCHLD, the window's thread |
| Persistence (`State`, `StateHolder`) | the state cache and a file | load, save, defaults, references | loaded, changed and saved by several parts of the page |
| frontend `Session`, `Terminal`, `SessionArea` | engine, panels, tabs, the selected tab | connect, create and close panels, add, select and remove tabs | engines, the backend's sessions and processes |
| frontend engines (`SshTerminalEngine`, `SshChannel`, `SftpFileEngine`, `ExecutingTerminalEngine`, `UserControlEngine`) | open or not, channels, pending callbacks | open, createChannel, closeChannel, dispose, the sftp calls | calls and replies |
| file explorer (`FileGrid`, dialogs) | items, selection, menu, current path | navigate, select, create, download | `SftpFileEngine`, the transfer queue |
| frontend `OperationQueue` | cards, pause button, options | clicks, events, replies, automatic removal | the backend's queue |
| rest of the frontend, shared data, ids, log, themes, test servers | - | - | rendering, records, tools |

What is hard in it:

* the executor: one mutex, flags read without it, tasks and removals from three kinds of threads and from
  the tasks themselves, exceptions, `stop()` at any moment;
* two mutexes taken in both orders (strand and thread), held while waiting for promises;
* the queue's position-based bookkeeping (front, i-th, next), with cancels between rounds, failures and
  barriers; the one continuation that keeps the loop alive;
* state kept twice (queue and page) and brought together by messages that cross;
* downloads interrupted at any point and continued later; the file system changing in between;
* objects owned in one thread and used by tasks of another: channels, streams and whole sessions that go while
  reads, callbacks and closes are on their way; a strand that waits for the thread that waits for the strand;
* a prompt that travels to the page and back without a number while two threads share its callback;
* an engine of the page that is disposed of while it is still connecting, creating or closing channels;
* deaths of children that are told by merged signals through a fixed number of slots;
* settings that every part of the page loads, resolves, changes and writes back as a whole.

What makes each component correct is stated as properties in section 4; the hazards behind them are listed,
line by line, in `PROJECT.json`.

## 2. Modules

| module | models | state and actions |
|---|---|---|
| `Executor` | what pushing code may rely on (abstract) | a queue of accepted tasks, what ran, `draining` |
| `ProcessingThread` | `processing_thread.cpp/.hpp` | variables named as the members; one action per critical section of `taskMutex_` and per read outside it; `wpc` is the worker's place in `run()`, `ctl` the owner's in start/stop, `cpc` each client's |
| `MCProcessingThread` | - | symmetry and model values for TLC |
| `ProcessingStrand` | `processing_strand.hpp`, on top of `ProcessingThread` | `holder` of the strand's mutex; `Lock` and the client's remaining steps; task bodies that use the strand |
| `OperationQueue` | backend `operation_queue.cpp` with the loop of `session.cpp` | the deque as a sequence of `[id, kind, state, left, scan]`; `Work` is one round of `work()`; `loop` is where the single continuation is (posted, timer, expired, cancelled, ended) |
| `OperationCards` | frontend `operation_queue.cpp`, on top of `OperationQueue` | cards, button, calls on the way to the strand, events on the way back |
| `DownloadOperation`, `MCDownloadOperation` | `download_operation.cpp` and the file system under it | files are nodes behind names; one action per phase of `work()` and outcome |
| `DirectoryDownload`, `MCDirectoryDownload` | `scan_operation.cpp` with `directory_traversal.hpp`, `bulk_download_operation.cpp` and the server's tree | `entries` with parent indices, `scanIndex` and `bulkIndex` counted from 0 as in the code; one action per outcome of `work()`, the nested download in three phases |
| `SshSession` | ssh `session.cpp`, `channel.cpp`, `sftp_session.cpp`, `file_stream.cpp` with the backend calls that use them | `queue` is the thread's; containers, strands and the server's view of every channel and file; one action per task, per call of the strand, and per step of `~Session` |
| `Login`, `MCLogin` | `SessionManager::addSession()`, `makeSession()`, `askPassDefault`, both `PasswordPrompter`s, `InputDialog` | `attempt` is the place in `makeSession()`; one action per authentication and outcome; `ready` and `ui` are the callback and the window thread between calling and resetting it |
| `Explorer`, `MCExplorer` | `FileGrid`, the navigation of the frontend `Session`, `SftpFileEngine`, `ConfirmDialog`, the backend's sftp calls | requests and replies in order, the user in between; paths are sequences of names |
| `SshTerminal` | frontend `Terminal`, `SshTerminalEngine`, `SshChannel`, and the channel calls of the backend `Session` | `requests` wait for the strand, `inbox` for the page; a reply remembers who asked |
| `LocalTerminal` | `SessionArea`, `ExecutingTerminalEngine`, `ProcessStore`, `Process`, the SIGCHLD handler and its timer | a call of the page or a task of the timer runs to completion on the window's thread |
| `FrontendSession` | the frontend `Session`'s choice of engine | EXTENDS the two; what follows is that engine's |
| `ProcessingStrandProofs`, `OperationCardsProofs` | - | theorems and proofs about the module each is named after and the one it extends, `ProcessingThread` and `OperationQueue`; see section 5 |
| `DownloadOperationProofs`, `DirectoryDownloadProofs`, `SshSessionProofs`, `LoginProofs`, `ExplorerProofs`, `FrontendSessionProofs` | - | theorems and proofs about the module each is named after |
| `Settings`, `MCSettings` | `State` with its conversions, defaults and references, `StateHolder` in the backend and the page, and who uses it | texts are functions of the members that are set; `requests` and `replies` between page and backend |

How they fit together. `ProcessingThread` implements `Executor`; `SshSession` builds on what `Executor` promises
(accepted tasks run one at a time and in order) and on what `ProcessingStrand` shows (nothing after the final
task); `SshTerminal` and `Explorer` build on the channels of `SshSession` as the backend `Session` sees them;
`DirectoryDownload` uses of `DownloadOperation` that it ends, and `OperationQueue` uses of both that they end or
fail. `OperationCards` (with `OperationQueue`) and `FrontendSession` are compositions, checked and proved about as a whole.

Abstractions. A task body in `ProcessingThread` may call any operation of the executor, when it runs: the
model has no program for it. Operations in `OperationQueue` are a kind, a state and the number of `work()`
calls they still need. In `DownloadOperation` the remote file is the sequence 1..size, so that a byte at a
wrong place is visible, and what a reserved or foreign byte is, is 0. Throttle delays, progress numbers,
log messages and rendering are left out. A write that fails is taken to write nothing. Setting permissions
is one outcome (it fails or not). In `DirectoryDownload` the content of a file is its remote path and a number
of bytes; the remote tree only loses nodes, so a file has the size it was listed with; a link that leads to a
directory above it would be followed for ever and is excluded by `DirectoryAssumption`, which also says what a tree is
(`IsTree`: finitely many non-empty paths, every node but the root in a directory of the tree, no name "." or ".."), all
of it what a file system and the filter of these two names in the walk guarantee; what happens inside one
nested `work()` is `DownloadOperation`'s subject.
In `SshSession` a transfer in parts is two tasks, the second pushed by the first; data is left out. In `Login` a
password is a sequence of characters because its length matters (the buffer), the chain of authentications is the
code's, and prompts carry a number that only the properties read. In `Explorer` items remember the directory they
were listed in, and so does the menu; again only properties read it. In `SshTerminal` a shell writes once. In
`Settings` one member stands for all of its struct that the code treats alike; which these are is said where
they are defined. There is one entry of each kind, and one session. Opening the settings file for writing is taken to
succeed; the writing may fail, in a load that adds defaults as in a save. Deleting a layout of a session that has none
tells so and then erases from an optional that is not set (`session_options.cpp:192`): undefined, and modelled as either
outcome, the page gives up or saves what it loaded.

History variables (`happened`, `misled`, `missed`, `took`, `downloads`, `saved`, `waiting`) are read by properties
only. Where a property is conditional on one of them, the condition is stated in its comment and the unconditional
form is in the list of what does not hold below.

Every module keeps its faulty variants next to the definition they are variants of ("Faulty: ..."). They are
not part of any specification; replacing the definition by its variant must violate the property named in
`PROJECT.json`.

## 3. Fairness

* `ProcessingThread!FairSpec`: weak fairness of the worker (a thread of the operating system; task bodies
  return), of `StartSpawn` and `Stop` once called, and of each client's call once begun. Nobody is obliged
  to begin a call. Waits with a limit in the code (removal, awaitCycle) have a timeout action.
* `ProcessingStrand!StrandFairSpec`: the same, with strong fairness for worker and stop, because they
  compete for the strand's mutex, which is released again and again; mutexes are not starved for ever.
* `QueueFairSpec`: weak fairness of the loop: asio runs what is posted and completes timers, also
  cancelled ones.
* `CardsFairSpec`: the strand handles posted calls and rounds, and the page handles what arrives. The user
  is free.
* `DownloadOperation!FairSpec`: weak fairness of each operation's `Work`: the queue goes on calling it.
* `DirectoryDownload!FairSpec`: the same for the scan and for the bulk download.

* `SshSession!FairSpec`: the strand goes on, and strong fairness of the thread's tasks: a cycle runs the read tasks
  and then the queue, so neither starves the other. Requests, timeouts and ends of shells need not come.
* `Login!FairSpec`: strand, window and page go on, and the user answers a dialog that is open: the code waits for
  that answer without a limit.
* `Explorer!FairSpec`, `FrontendFairness`, `Settings!Spec`: strand and page handle what arrives; for local
  shells also the signal handler, the timer and the window's thread. The user, the server and the children are free.

`CHECK_DEADLOCK FALSE` in every configuration: all these systems may stop. The bounded counts of calls and
tasks run out, and a program whose user does nothing does nothing.

## 4. Runs

Twelve runs, each with the question it answers:

* `thread_safety` - two clients and task bodies push tasks and add and remove permanent tasks, one of each kind
  throws, batches of two, two starts and stops: tasks run in the order of acceptance (`RunsInOrder`); a task
  reported as removed is gone (`RemovedStaysRemoved`); the unlocked flag is exact (`AvailabilityIsExact`); the
  thread implements the abstract `Executor` (`ImplementsExecutor`, with `queue <- batch \o tasks`); and the
  inductive invariant of the proofs, which contains `TypeOK`, holds (`IInv`).
* `thread_liveness` - with clear and awaitCycle as well: accepted tasks run, permanent tasks are called again,
  `stop()` returns. Removals from another thread are left out here, see `thread_starved` below.
* `strand_close` - two clients and task bodies push through one strand and finalize it while the clients, as users
  of other strands, remove permanent tasks of the thread between its cycles: the final task comes last; when it is
  queued every permanent task of the strand is gone, or its removal was cut off (`FinalTaskRemovesUnlessCutOff`: it
  stands in the thread's list behind one whose promise was set before, at which the end of each cycle gives up); and
  a client that holds the strand's mutex releases it even when the worker it waits for is blocked on that mutex (the
  five second limit), until `stop()` is called, see `strand_stop` below.
* `queue` - one or three operations at a time with adds, cancels, failures, a pause and a disconnect: nothing
  overtakes a scan (`BulkWaitsForScan`); the loop never loses its one continuation (a cancelled timer, an unpause,
  a limit reached), so that what is queued leaves the queue (`EveryOperationSettles`); one at a time every
  operation is in the queue, reported or cancelled, exactly one of them (`EveryOperationAccountedFor`), and reports
  come in order.
* `cards_queue` - when nothing is on its way the open cards are the queued operations, and the pause button of a
  user who waits for each reply shows the queue's state until persisted options are loaded.
* `download` - two downloads to one path, one after the other, over all options, with streams that fail, crashes,
  cancels, a disk that gets full, and files that appear, also at the worst moment: every download ends; what is
  completed is the remote file unless a write failed or space was reserved in a continued file; a foreign file is
  not overwritten unless it came between check and renaming; part files are removed when they should be.
* `directory_download` - eight small trees, some with links and special files, listed in every order and with
  both dot entries, one or none, while streams fail, parts of the tree vanish, a file appears in the target and
  either operation is cancelled. The walker's list is the tree (`ListingIsComplete`, against the tree itself as
  the reference); a completed download mirrors it (`MirrorsRemote`); nothing torn is left however it ends; and it
  ends.
* `ssh_session` - two channels, an SFTP session and two files, six calls of the backend, calls that time out, shells
  that end, and the session let go of at any time, by the manager or by the thread that is in a callback: every
  task finds the object it points to (`TasksFindTheirObjects`), a file open at the server always belongs to a
  stream, to a queued close or to a session that is closed (`NoHandleIsLost`), channels are told before the
  connection is cut, and if the strand lets go the session ends (`SessionEndsOnStrand`).
* `login` - three connects, keys and passwords, a server that changes its password, a dialog that is confirmed,
  cancelled or escaped: the cache holds only what the server took for that target, what was typed for one prompt
  answers no other one, and each connect is answered unless its prompt is lost (`PromptIsLost` says when).
* `explorer` - two directories, navigations that cross or fail, selections, the context menu, new files, calls that
  fail or are given up and done all the same: when all is quiet the grid shows the current directory as the server
  has it, and "Download" never takes the parent directory.
* `frontend_session` - an ssh tab with two channels that are created, closed by the user or die while the engine is
  disposed of; or two local tabs with three children that die, stop and raise signals that merge: the replies to
  the engine's own calls find it alive, page and backend agree on the channels, disposal ends with the session
  disconnected and the tab closed, and a tab is closed only when its process is gone and reaped.
* `settings` - seven files to start from (none, torn, one of wrong types, shells with shared and with own
  settings, an ssh session), two of save a layout, delete it, toggle a switch and open a session, with writes that
  fail and a crash: loading, resolving and saving again changes no setting in force of a shell session, and a
  save on top of what was loaded changes the one entry it is about.

These hold as well, with the constants of the run, and are not listed to keep the runs to what matters most:
`RunsOnce`, `StopRunsAllPending` and `NotRemovedUponExecution` (`thread_safety`); `StrandTypeOK` (`strand_close`);
`LoopNeverDies`, `QueueTypeOK` (`queue`); `CardsTypeOK`, `EveryCardSettles` (`cards_queue`); `TypeOK`,
`PartIsPrefix` (`download`); `DirectoryTypeOK`, `EntriesNameTheTree`, `NothingFailsWithoutAReason`,
`ForeignFilesSurvive` (`directory_download`); `TypeOK`, `CallsReturn` (`ssh_session`); `TypeOK` (`login`);
`DeadProcessClosesItsTab` (`frontend_session`); `EveryChangeIsAnswered` (`settings`); and `BulkGetsItsOwnScan`
with the constants of `queue` but without cancels of single operations.

### What does not hold

Disagreements between the code and what its documentation, comments or tests lead one to expect, found while
modelling. Each is a property of the module it is about, violated in the configuration named, or with the constants
of the run named when there is no configuration of its own:

| configuration | property | what happens |
|---|---|---|
| `thread_starved` | `AcceptedTaskRuns` | the deferred modification of a removal is run again one permanent cycle later, sets its promise twice, and the exception ends the worker: accepted tasks never run |
| run `thread_safety` with calls of `clear` and no throwing permanent task | `NotRemovedUponExecution` | a deferred clear is repeated and removes permanent tasks that were added after it |
| `thread_double_remove` | `RemoveTellsTheTruth` | two removals of one task are both answered "true" |
| `thread_await` | `AwaitTellsTheTruth` | `awaitCycle()` that races `stop()` reports a cycle that never ran |
| `strand_stop` | `StopReturns` | `stop()` runs tasks with `taskMutex_` held, strands take `taskMutex_` with their own mutex held: deadlock |
| `strand_removal` | `FinalTaskRemovesAllPermanentTasks` | a final task of a strand with two permanent tasks leaves one registered: the removal of the second is cut off by the promise of the first |
| `queue_parallel` | `CompletedStaysCompleted` | with concurrency two, a completion at index 1 pops index 0 |
| `queue_wrong_scan` | `BulkGetsItsOwnScan` | after two cancels a scan's entries go to another directory's bulk download |
| run `queue` with directories only | `BulkCompletesAfterItsScan` | the bulk download of a failed scan is reported as completed |
| `cards_cancel_race` | `CanceledCardWasCanceled` | a late cancel turns a completed card into a canceled one |
| `cards_pause_twice` | `PauseButtonTellsTheTruth` | a double click leaves the pause button wrong for good |
| run `cards_queue` | `PauseButtonAlwaysTellsTheTruth` | `startInPausedState` reaches the button, never the queue |
| run `download` | `AlwaysWhole` | a failed write is taken for the end of the data, and one that fails at `close()` is not looked at: without cleanup the torn file is renamed |
| `download_reserve_continue` | `AlwaysWhole` | seeks do not move appending writes: a stray byte goes in, the last byte is never read, and the download completes |
| run `download` with `Parallelism = 2` | `AlwaysWhole` | two downloads of one path share the part file |
| `download_adopt` | `FailsOnlyForAReason` | a complete part file makes the next download fail and is deleted, instead of being renamed |
| run `download` | `AlwaysSurvives` | a file that appears between check and rename is replaced |
| `directory_links` | `UnsupportedIsSkipped` | the scan lists links and special files like directories: a link to a file and a special file fail it; what is behind a link to a directory is listed, and its files fail the bulk download, which skipped the link and made no directory for them |
| `directory_part_name` | `MirrorsRemote` | the part file of `f` replaces a downloaded file named `f.filepart` and takes its place; the download completes without it |
| run `directory_download` | `ProgressStaysWithinTotal` | the progress of a file is cumulative and is added again with every read |
| `ssh_session_ends` | `SessionEnds` | `onExit` locks the backend's session on the processing thread; if it is the last owner, `~Session` waits there for itself |
| `ssh_transfer` | `TransfersFindTheirStream` | a part of a transfer pushes the next one with the plain stream: closed in between, it is gone |
| run `login` | `CallbackIsKept` | the window's thread resets `ready_` after the strand has set it for the next prompt: that prompt's answer is dropped |
| `login_second_click` | `NoPasswordGoesToAnotherPrompt` | the dialog's handler stays set after it was answered: a click on Ok after Cancel answers a later prompt; so is it with `NoPromptIsCancelledByAnother` |
| run `login` | `PromptedPasswordIsWhole` | an answer is copied into a buffer of the size of the password tried before it |
| run `login` | `AsksOnlyForUnknownPasswords` | after a password has changed the old entry is tried first for ever and the user is asked each time |
| `explorer_undo` | `NavigationEnds` | undoing a navigation navigates; if that fails as well it is undone again, and so on |
| run `explorer` with four gestures | `DownloadsWhatWasSelected` | the current path is read again when the download is confirmed, or belongs to a list that has not come yet |
| run `explorer` | `OneSftpChannel` | requests made before the channel is open each open one |
| run `explorer` | `MenuActsOnClicked` | a right click on an unselected item clears the selection, and the menu acts on the old one |
| run `explorer` | `ShiftStopsAtTheSelected` | the search backwards does not look at the first item: with that one selected a click with shift selects everything |
| run `frontend_session` | `NoOutputIsLost` | reading starts before the page knows the channel; what is output until then has no panel |
| run `frontend_session` | `UserFindsTheEngine` | the reply to a user's close of a channel comes after the disposer has ended the engine |
| run `frontend_session` | `TabGoesWithTheConnection` | with a file engine the tab of a dead connection stays |
| run `frontend_session` | `EveryDeathIsNoticed`, `NoOrphans`, `OneTabIsVisible`, `StoppedChildStays` | signals merge or find no slot; the terminal opens its engine twice and leaves a process behind; removing the first tab selects none; a stopped child is taken for dead and killed |
| run `settings` | `SshKeepsItsSettings` | `to_json()` assigns the whole object after the reference was put in: it is gone after one load |
| run `settings` | `OwnPasswordWins` | the default password is taken when there is one of its own |
| run `settings` | `SavedMeansSaved` | two parts load, change and save: the first change is reported as saved and taken back; a layout of an existing name is not replaced |
| run `settings` | `FileStaysReadable`, `EverySessionOpens` | the file is truncated in place, by a load too, and errors are not looked at; defaults that are missing in the entry throw |

### Bounds and why they are enough

Two clients are enough for every race on one mutex with a third and fourth actor (worker, owner) always present. Two
tasks with batches of two give an empty, a partial and a full take, a batch that a throw cuts short and a task that
is accepted while another one is in the batch. Two permanent ids and two deferred modifications give a modification
that outlives its cycle. Two starts and stops give pushes that straddle a stop. `MaxModifications` bounds the
removals that others make; those a strand makes when it is finalized are made once and have no bound, or a client
would seem to keep the mutex for ever. `FinalTaskRemovesUnlessCutOff` was also checked with the constants of
`strand_shared`: other clients and task bodies push and remove permanent tasks, the strand's as well and in the
middle of a cycle too, and a stop between two starts makes the strand keep the id of a refused push. The theorem is
about any number of all of these. `thread_safety` uses symmetry of the clients: it checks safety only, and its step
properties do not tell clients apart. The queue has up to three operations, a file and a directory or three files,
and concurrency three, the smallest at which a barrier is neither first nor last in a round; `UnthrottledLimit` is 2
instead of 10, since it only counts rounds before a wait; `MaxWork` of 1 gives operations that end at once and ones
that go on. `queue` allows one call of pause, which can only start the paused queue; pauses in the middle of the
work are in `cards_queue`, with up to four. The card runs bound clicks by four: an add, a cancel, a pause and one
more. Downloads have no, one or three bytes and reads of one or two, so that short reads, an odd rest and a crash
inside happen, and two operations so that the second meets what the first left. The trees of `directory_download`
have one to five nodes: files beside and under directories, an empty directory, a chain of three, files of no, one
and two bytes, and each kind of link. With two levels under the root the parent of a parent is neither 0 nor the
newest entry.

`ssh_session`: six calls create both channels and the SFTP session, open both files and leave one to close or
read while the session goes; with two channels the draining of the container meets a second one, and with two
files one is closed by the page and one by the deleter. `login`: with three connects a prompt follows one that
was answered and one that was cancelled, and the cache is used after the password has changed; passwords have
one or two characters against buffers of their own size or of four. `explorer`: three gestures are a navigation,
one that crosses it, and something done in between. `frontend_session`: two channels let one be closed while the
other is created; one slot for signals is full with two deaths, three children and two tabs give a tab that goes
while its neighbour's process dies. `settings`: two clicks are two parts that cross; each file to start from
leaves out what another one has.

## 5. Proofs

Every theorem holds for every value of the constants that the module's assumption allows: any number of clients,
tasks, operations, channels, files, prompts, tabs, any batch size, concurrency, size of file and buffer, and any
bound. Where a theorem needs more, its hypothesis is part of its statement.

| module | theorem | states | hypothesis |
|---|---|---|---|
| `ProcessingStrandProofs` | `TypeCorrect`, `TasksRunInOrder`, `RemovedForGood`, `AvailabilityFlag`, `Invariance` | `TypeOK`, `RunsInOrder`, `RemovedStaysRemoved`, `AvailabilityIsExact`, `IInv` | |
| | `ImplementsQueue` | `ImplementsExecutor`: the executor implements `Executor` | |
| | `StopRunsPending`, `EachTaskRunsOnce` | `StopRunsAllPending`, `RunsOnce` | |
| | `PermanentTasksStay` | `NotRemovedUponExecution` | `NobodyClears` |
| | `CloseComesLast` | `FinalTaskIsLast` | |
| | `CloseRemovesPermanentTasks` | `FinalTaskRemovesUnlessCutOff`, for any number of permanent tasks and any other strands | |
| `OperationCardsProofs` | `QueueTypeCorrect`, `BulkDownloadWaits` | `QueueTypeOK`, `BulkWaitsForScan` for every concurrency | |
| | `ReportsComeInOrder`, `NothingIsDropped` | `ReportsInOrder`, `EveryOperationAccountedFor` | none; both speak of concurrency one |
| | `CardsTypeCorrect` | `CardsTypeOK` | |
| | `CardsShowTheQueue` | `CardsAgreeWithQueue` | `parallelism = 1` |
| | `PauseButtonIsRight` | `PauseButtonTellsTheTruth`, for every concurrency | `"pauseAgain" \notin Clicks` |
| `DownloadOperationProofs` | `DownloadTypeCorrect`, `NoPartFileIsLeft`, `ForeignFileIsKept` | `TypeOK`, `PartIsCleanedUp`, `ForeignFileSurvives`, for every `Parallelism` | |
| | `CompletedIsWhole` | `CompletedFileIsWhole` | `Parallelism = 1` |
| `DirectoryDownloadProofs` | `NothingTorn` | `NothingTornIsLeft` | |
| | `EntriesLeadToNodes`, `ListingHasTheTree` | `EntriesNameTheTree`, `ListingIsComplete` | |
| | `DownloadMirrors` | `MirrorsRemote` | `PartNamesAreFree`: no file is named like the part file of another in its directory |
| `SshSessionProofs` | `PointersAreGood`, `HandlesAreKept`, `ChannelsAreClosed` | `TasksFindTheirObjects`, `NoHandleIsLost`, `ChannelsAreClosedBeforeDisconnect` | |
| `LoginProofs` | `LoginTypeCorrect`, `OnlyAcceptedPasswordsAreCached` | `TypeOK`, `CacheHoldsAcceptedPasswords` | |
| | `AnswersGoToTheirPrompt`, `CancelsStayWithTheirPrompt` | `NoPasswordGoesToAnotherPrompt`, `NoPromptIsCancelledByAnother` | `~SecondClicks` |
| `ExplorerProofs` | `ParentIsFiltered`, `GridIsCurrent` | `ParentIsNeverDownloaded`, `ShownListIsCurrent` | |
| `FrontendSessionProofs` | `RepliesAreInTime`, `ChannelsAgreeAtRest`, `TabClosesAfterItsProcess` | `RepliesFindTheirEngine`, `ChannelsAgree`, `TabClosesWithItsProcess` | |

The hypotheses about clicks and about downloads are exactly where the code stops keeping the promise: with two downloads
of one path at a time a completed file may be torn, with a second click on a dialog that was answered a password goes to
a later prompt, and with a second click on the pause button before the reply to the first the button may show the
opposite (all three are listed under "What does not hold"). So are the hypotheses about names and about clears: the part
file of one file replaces a remote file that has its name (`directory_part_name`), and a deferred clear is repeated.
One operation at a time is what the backend takes when the options name no concurrency; it is also
the only concurrency `cards_queue` checks.

How the arguments go. Each module has one inductive invariant (two where the second builds on the first), made of named
parts; each part has a lemma "every step keeps it", with a step per action of the next-state relation; actions that
touch a part in the same way are one case. The invariants were first checked by TLC.

* **The thread.** `IInv` adds to the properties where each actor is and what it may hold (`ActorsInv`: the batch is
  non-empty exactly while the worker is at "tasks", nothing is moved outside permanent cycles), that ids are never
  reused (`IdsInv`), that a promise is set only when its task is gone (`PromisesInv`, which makes the late answer
  "removed" true), that a waiting client's promise exists (`WaitersInv`), and that a task in a client's hands was not
  accepted before and what is queued or ran was (`TasksInv`). `PermChange` abstracts every way a body or a client can
  touch the permanent tasks; `ModificationsGrow` says the deferred list only grows, so indices that waiters hold stay
  valid. `SplitQueue` is the fact about sequences: what a take moves to the batch and what stays make up the queue.
  `OnceInv` keeps the places a task may be in (ran, batch, queue, lost) apart and free of repetitions; together with
  `NothingIsLost`, which `stop()` needs as well, that is `RunsOnce`.
* **The refinement.** Under `queue <- batch \o tasks` a take is a stutter, a body that runs and pushes is `RunFirst`
  followed by what it accepts, a throw loses its task only, and `stop()` is `BeginDrain`, one `RunLast` per pending
  task, `EndDrain`. `ImplementsQueue` has a step per action, over `IInv`.
* **Strands.** `FinalTaskIsLast` needs that the final task is in one place only and that everything pushed before it is
  in front of it there. `FinalInv` says that what is queued, taken or ran was accepted (`QueuesOK`), that the batch
  is non-empty exactly while the worker runs it (`HandsOK`), that a task in a client's hands is new and nobody else's
  (`CarriedOK`), that whoever pushes through the strand holds its mutex and that a strand with a final task is
  finalized (`ProtocolOK`), and that nothing of the strand is behind its final task, in the batch, in the queue or
  across the two (`InOrder`). It claims nothing after a `stop()`, as the property does not. It stands beside `IInv`
  and shares the lemmas about sequences.
  `FinalTaskRemovesUnlessCutOff` has an invariant of its own, `RemovalInv`, over `IInv`: who walks through the
  strand's ids holds its mutex (`MutexInv`), so the set of ids stays what it is until the walk is over; ids come from
  the counter, so none is registered twice, and the list of modifications is of the right form (`PermanentIdsInv`);
  and each id of the strand is, once its finalizing has begun, still to be walked to, or gone, or asked for in the
  permanent cycle that is in progress, or cut off (`HandledInv`). The end of a cycle turns "asked for" into "gone" or
  "cut off" (`MergeKeepsList`, `HandledStays`), whatever other strands of the thread have put in the list. The excuse
  is needed: modifications stay in the deferred list after their cycle, so when a later cycle comes to a removal that
  was answered before, setting its promise again throws, and the removals behind it in the list are not made. Two
  channels of one session are strands of one thread, so a removal of one may cut off the other's.
* **The queue.** `QueueInv` adds to the types that ids ascend with the places; a scan that is
  not finished has no bulk download behind it that was started or reported. `OneByOneInv` holds for concurrency one, where only the front
  operation is ever started: what was reported is before what is queued, and each id is in one place.
* **The cards.** The page learns of the queue by events and replies, so `AgreeInv` relates the two over what is under way:
  an operation is added once (`AddedOnce`); a card was added (`CardsWereAdded`); what is queued has an open card or its
  "added" is still unread (`QueuedIsShown`); an open card is queued, or the event or reply that ends it is still unread
  (`ShownIsQueued`); and an unread "added" is of an operation that is queued or whose end comes behind it
  (`ComingIsQueued`). The queue's own steps come from the lemmas over `QueueInv` (`NextMoves`, `QueueInvMove`): the cards add
  only who calls them. `PauseInv`: at most one of the pause call and its reply is under way (`OnePause`), the
  question the page asks at its start is ahead of it (`QuestionIsFirst`), and what is unread leads from what the button
  shows to what the queue is (`ShownFollows`).
* **Downloads.** `CleanInv`: a part file that is to be cleaned up has an operation that will do it, or the program died
  over it. `ForeignInv`: no operation has the foreign file's node, and between check and renaming the local path is
  free. Both hold for any number of operations at a time. `WholeInv` needs that an operation begins when those before
  it are gone (`OneByOne`) and that the part file, the local file and open files are not mixed up (`Disjoint`): what a
  crash leaves is a prefix of the remote file (`PrefixInv`), and what an operation wrote is the remote file up to its
  offset, where the next bytes go (`ReadInv`).
* **Directories.** `NestedInv`: the only file that lacks bytes is the part file of the nested download in progress. `ScanInv`:
  every entry is a child of the folder its parent entry leads to, parents come before their children, and the walked
  folders, those before the walker's place, have all their children in the list, each once, also behind links. When the
  walker's place is at the end the list is the whole tree: a path that is missing would have a missing parent, and the shortest one has none. `CountInv`: the total is the sum over the files listed so
  far. `MirrorInv`: what is behind the bulk download's place is in the target at its own path, and everything in the target is
  there because of an entry. The two recursive functions (`FullPath` and `Resolve`) and the fold behind
  the sum are reasoned about without induction over data: a
  property of every index or every path is shown by the least counterexample, and the sum over a finite set by the order the
  fold takes, of which the result is shown to be independent.
* **The ssh session.** `ContainersInv` ties the containers to the strands and to the server's view; `TasksInv` says
  for each kind of queued task what it may still find; `AwaitedInv` that a task whose caller waits is the one the strand's call is
  about, with nothing behind it but what nobody waits for. Steps are grouped into those that leave the queue alone (`Quiet`), that push (`Pushes`), that run a task
  (`Runs`) and `GiveUp`, after which the task stays queued and its answer goes to nobody. `HandlesInv` and `OpenedInv`
  are what a handle and an opened channel have in common with the queue: one of the owner, a queued close, or the end.
* **Login.** `CacheInv` is the property with the types it needs; the chain of authentications puts a password in the cache
  only where the server took it. `PromptInv` is about the one slot for a callback and the one dialog that belong to no prompt: at
  most one prompt, dialog, typed text or answer is under way, and `ready_` is of that prompt or already reset.
  `CountInv` and `TextInv` bound the prompts of a connect and what may be typed.
* **The explorer.** `MenuInv`: what the menu and the dialog hold was filtered. `ShownInv`: calls and their replies are one line that the
  backend and the page move along. Before the channel is known, the first list is on this line and nothing
  else is (`Asking`, `Telling`); from then on (`Flowing`) something was created and its reply will ask for a list, or
  the last list that is asked for, answered or shown is the one of the current path.
* **The page.** `SshInv` says for each letter between page and backend who sent it and what it may find when it
  arrives; an engine that is disposed of has no request of its own under way. `LocalInv` adds to the types that a
  death which is on its way to the page is one of a child that was reaped.

Changes that the proofs asked for. `OperationQueue!Cancel` removes the place an id is at instead of filtering the
sequence, which is the same because ids are unique (`QueueInv`), and `OperationCards!ClickRemove` the card at its place,
as the erase by key of the code does. In `SshSession` a task carries whether its caller
still waits (`waited`) instead of the number of the call: with numbers the late answer of a call that had been given up
could end a later call, which a future cannot do. `SelectSeq`, `SortSeq` and `@@` are opaque to the provers:
`ProcessingThread`'s walk over the permanent tasks, the menu's items in the order of the grid and the replies of the
explorer are stated by what they are. `IsTree` says what a path is.

Only model-checked: the
order of cancels and the other runs of the cards; `ForeignFilesSurvive` of directories; the settings; and all liveness: properties under
fairness, and `ENABLED`, are outside what the prover handles here.

## 6. Not modelled, and the plan

Not modelled: rendering, themes, the geometry of layouts, logging, build files and test servers have no behaviour
that the properties could be about. `UserControlEngine` prints messages of the page. The Windows pseudo terminal is a
second variant of thin calls; writing to and resizing a terminal only forwards. Input, the options of the
executing engine (environment, path) and the user interface's options are records that are passed on. The filter
box of the file grid is connected to nothing; `pruneDeadProcesses()`, `Session::stop()`, `walkAll()` and
`workAsArchive()` have no caller or no body. Futures of promise tasks are not modelled (only that they are ready), so
an exception delivered by a future is not seen; nor is the buffer a read that timed out still writes to
(`download_operation.cpp:150`), which only the destructor's wait keeps alive.

Left to do: the components are modelled as far as the properties above need them, and every safety invariant that a
run checks is proved. What remains are properties of steps, in this order:

1. `Settings`: `ChangeTouchesNothingElse` and `KeepsItsSettings`.
2. `DirectoryDownload`: `ForeignFilesSurvive`, when no node is named like a part file.
