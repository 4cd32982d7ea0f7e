# A TLA+ model of NexFile

NexFile is a file server for Linux in C: a server process with a main thread
and a pool of worker threads, and a command-line client.  This directory holds
TLA+ modules for the parts of it where something can go wrong that a test would
hardly reach, TLC configurations that check them on small instances, and TLAPS
proofs of what matters most for every size.  Paths below are relative to
`src/NexFile/`.  `PROJECT.json` maps every definition to the lines it stands
for and lists the hazards with the properties that watch them.

## 1. The system

| Component | State | Operations | Modelled in |
|---|---|---|---|
| Task queue (`server/taskQueue.c`) | `phead_`, `ptail_`, `queueSize_`, malloc'd nodes | push, pop | `TaskQueue`, `FifoQueue` |
| Main thread and shutdown (`server/server.c`, `server/epoll.c`) | listening socket, exit pipe, epoll set | accept + push + signal; exit event: flag + broadcast + join | `ThreadPool`, `PoolService` |
| Worker pool (`server/worker.c`, `server/threadPool.c`) | `mutex_`, `cond_`, `exitFlag_`, the queue | wait, pop, serve, exit | `ThreadPool`, `PoolService` |
| Client handling (`server/clientHandle.c`, `server/recvCmd.c`) | the client's descriptor, an epoll set, `clientPath` (global) | authenticate, command loop, close | `ThreadPool` (descriptor), `Login`, `Session` |
| Authentication (`server/sendMessage.c`, `server/authen.c`) | `clientPath`, the static entry of `getspnam` | receive, look up, compare, append, reply | `Login`; `recvn` and `sendn` in `ByteStream` |
| Server commands (`server/cmdHandle.c`) | the connection, the file system | cd, ls, pwd, put, get, rm, mkdir | `Session`; mkdir's directory in `Login` |
| Client loop and commands (`client/client.c`, `client/fileOpt.c`, `client/epoll.c`) | the connection, standard input | log in, read a command, send it, wait for the result | `Client` (login and loop), `Session` (commands) |
| Client parsing (`client/cmdOpt.c`) | - | split, verify | `Client`; verify also in `Session` |
| Client authentication and transport (`client/encryption.c`, `client/clientsendMessage.c`) | `g_clientState` | send credentials, read the verdict, `recvn`, `sendn` | `Client`, `ByteStream` |
| Directory stack (`server/filePath.c`) | a path and its depth | push, pop | not modelled (section 6) |
| Configuration, status, logging, `tcpInit.c`, `fileHandle.c`, `databases/user.sql` | - | - | not modelled (section 6) |

How they interact.  The main thread owns the listening socket; a descriptor it
has accepted goes to a worker through the queue, which together with `exitFlag_`
is shared under `mutex_`, with one condition variable.  A worker runs one
client from authentication to the end of the connection before it looks at the
queue or at the flag again.  Workers share, without a lock, `clientPath` and the
static entry of `getspnam`.  A parent process forked at the start holds the
only write end of the exit pipe, so that its death is the exit event.  Client
and worker talk over one TCP connection whose frames carry no type: each side
reads the number of bytes it expects next.  `ERROR_CHECK` calls `exit(1)`, so a
failed `malloc`, `open` or `mmap` in one worker ends the server for everyone.  Both
programs move bytes with a `recvn` and a `sendn` of their own, and mostly ignore
what these return.  The client reads the login with stdio and its commands with
`read`, from the same standard input.

What is hard: lost and spurious wakeups, the order of signal, broadcast and
join, descriptor numbers that are reused at once, lists with uninitialised
links, unlocked global state, verdicts and replies that get lost with the
connection, two programs that must agree, command by command, on how many
bytes are sent, streams that end in the middle of a train, and lines of input
that one of two readers has taken from the other.

What makes each component correct:

* queue: a FIFO queue of descriptors, no node leaked, freed twice or read after
  `free`, the uninitialised link never used;
* pool: no wakeup is lost, no empty queue is popped, every open descriptor has one
  owner, clients are served once and in order, the shutdown terminates;
* authentication: the verdict is that of the credentials sent, `clientPath` stays
  in its array, a client that leaves frees its worker;
* transfer loops: trains arrive whole and in order however the stream is cut, and
  nothing of one train is taken for another;
* client: it is in step with its worker, executes what was typed, and its login
  ends;
* session: each side reads the frames the other sends, and is not left waiting.

## 2. The modules

**`FifoQueue`** - abstract: a queue, the descriptor last taken, the last result.

**`TaskQueue`** - `taskQueue.c` with an explicit heap.  Every call is one step,
because every caller holds `mutex_`.  `malloc` returns *any* free node with
*arbitrary* contents (`junk` for `Pnext_`, which `taskQueuePush` never sets),
`free` leaves arbitrary contents behind.  `clientFd` is the worker's read of
`phead_->netFd` just before the pop (`worker.c:61-62`).  `order` is a history
variable (the nodes of the list), used by the properties and the refinement only.
`TaskQueue => FifoQueue` by `queue <- Contents, taken <- clientFd`.

**`PoolService`** - abstract: connections are admitted, started in order when
one of `Slots` is free, finished; or everything stops.

**`ThreadPool`** - the server process.  `mpc` and `wpc[w]` are the program
counters of the main thread and the workers, a label stands for the code between
two accesses to shared state:

| Label | Code |
|---|---|
| main `boot`, `epoll` | `server.c:46-65`, `epoll_wait` in 67-72 |
| main `lock`, `push`, `signal` | 84, 85, 86-87 |
| main `exitLock`, `broadcast`, `join` | 93, 94-96, 98-107 |
| worker `lock`, `check` | `worker.c:48`, the loop condition of 49 |
| worker `wait`, `waiting`, `relock` | `pthread_cond_wait` (51): before it releases the mutex, asleep, woken |
| worker `leave` | 54-66 with the mutex held |
| worker `auth`, `cmd` | `handleClient` before and after authentication |

The queue is the FIFO of `FifoQueue`.  `backlog` is the kernel's queue of
completed connections, `connOf` the descriptor table, `accept` returns the lowest
free descriptor or fails when none is left.  `pthread_cond_signal` wakes any one
sleeper, and sleepers may wake without a signal.  `EndProcess` stands for `exit(1)`
anywhere and for the return from `main`.  `ThreadPool => PoolService`: a
connection is admitted when its descriptor is pushed, started when it is
popped and finished when the worker closes it.

**`TrainChannel`** - abstract: trains arrive whole, in order, none twice and none
skipped, until one is cut short.

**`ByteStream`** - one direction of a connection: `sendn` (`sending` is the
train it is called for), the kernel's buffer `wire`, and a receiver that calls
`recvn` for the length and then for the data, as `UserAuthen` and
`handle_authentication` do, ignoring the results.  Every `send` and `recv` is a step
and moves any part of what it is asked for.  A unit of the stream is its number,
so that a unit in a wrong place is seen.  `reader` chooses between the two
`recvn`, which differ when `recv` fails: the server's returns, or calls `recv` again after
`EINTR`; the client's adds -1 to its position and goes on, whatever the reason.  A call that
waits is interrupted in the programs that handle a signal (`Handlers`).
`ByteStream => TrainChannel`.

**`Login`** - `handle_authen_event`, `UserAuthen`, `authenticateUser` for any number
of workers at once, with each access to `clientPath` and to the shared `spwd` entry
as a step of its own, and `mkdir`'s use of the path.  `clientPath` is a real array
indexed from 0 with a terminating NUL; names and the base directory are one
character long, so the bound checks are exact and the paths short.  A password is
identified with the user whose shadow entry it matches.  `peer` is the other end: once it
has left, any number of sends still succeed and every `recv` returns 0, so that
failed logins start again, until the reset that a send has provoked arrives
(`ResetArrives`, a step of its own).  `getspnam` may fail for any name.
The appends of two workers may interleave, and so may a lookup and another
worker's comparison.  That is undefined behaviour in C; the model has the outcomes of
the single accesses in any order.  Three history variables say what the properties
need: `log` (the names appended so far), `overlapped` (two workers have been appending at
once) and `disturbed` (another worker has looked a name up since this one did).

**`LoginProtocol`** - abstract: a user submits credentials, each submission is judged at
most once, the user learns the verdict or that the server has gone, and gives commands
only once accepted.

**`Client`** - the client process from its connection to its end, with the worker
reduced to its side of the protocol (`worker`: waiting for a name, for a password,
in the session, gone).  `typed` are the lines of standard input, each a sequence of words;
`next` is the first that nobody has read, `stdio` the first and the last of those that
`fgets` has read ahead, and `half` says that of the first, a long one, the first part is
taken.  A word that `cmdCut` finds is a place in these lines.  A terminal gives one line per
read, a pipe everything there is (`source`), and `read` takes at most 1023 bytes of it: it
may end at any line, or within one, which then counts as two (`ReadLines`; `Parts` are the
ways to cut a line, between two words or within one, and `cut` remembers where that
happened).  What `fgets` reads ahead is whole lines.  `client` is the program counter:
`name` and `password` are the two `fgets`, `crypt`, `sending` and `reply` the stages of
`handle_authentication`, `loop` and `executing` the event loop.  Trains are whole
here because `ByteStream` implements `TrainChannel`; verdicts are arbitrary, `Login`
says which are right; a command that is executed just ends, `Session` says how.
`Client => LoginProtocol` by `user <- User` (where the client is), `server <- Server`,
`verdict <- Verdict` (the reply under way) and `pending <- Pending` (the command
frames under way).

**`Session`** - one client and its worker after authentication.  `toServer` is a
sequence of frames, `toClient` a sequence of units smaller than a frame, because
the client may start reading in the middle (`handle_socket_event` prints any
prefix).  A signal header is two units and its message three, so that, as in the
code (16 and 26 or 30 bytes), left-over bytes are no multiple of a header.
`cmdVeri` is modelled with the condition as written: it compares `argFlag_` with
4..7, so only pwd is checked.  When a side takes bytes for something they
are not it is `"garbled"`; what it then does is reduced to how it can end.

How the models fit together: `ThreadPool` uses of a session only that it ends when
its client has left, which `Login` and `Session` show for its two phases; `Client`
uses the whole trains of `ByteStream` and the same fact; the queue of `ThreadPool` is
the one `TaskQueue` implements.

`MCThreadPool`, `MCByteStream` and `MCClient` hold what a configuration cannot express:
the symmetry set, the lengths of the trains, the words and the lines.  The modules whose
names end in `Proofs` hold the theorems of section 4.  Definitions marked "Mutant" are
variants of the code with a plausible bug; no specification uses them.

## 3. What TLC checks

| Run | Instance | Shows |
|---|---|---|
| `task_queue` | 3 nodes, 2 descriptors | `TypeOK`, `NoLeak`, `ListShape`, `ImplementsFifo`: the garbage in `phead_` of an empty list is never used |
| `thread_pool` | 3 workers, 4 clients, 3 descriptors, backlog 1 | `OneOwner`, `NoLostWakeup`, `NeverPopsEmpty`, `NobodySleepsThroughExit`, `ImplementsService` |
| `thread_pool_live` | 2 workers, 2 clients, 2 descriptors | `QueuedGetsWorker`, `ShutdownCompletes` |
| `thread_pool_one_worker` | 1 worker, 3 clients | `QueuedIsServed`: clients queued behind sessions |
| `byte_stream` | 3 trains of 3, 2 and 4 units, header 2, buffer 4, both `recvn` | `BufferIsBeginningOfNext`, `NoStoreBeforeBuffer`, `ImplementsChannel`, `SentIsReceived` |
| `login` | 2 workers, 2 users, `MAX_PATH_LEN` 6 | `NoOverrun`, `PathIsLog`, `OnlyFullPathTurnsAway`, `VerdictIsRight`, `DisconnectFreesWorker`, `LoginWindsDown` |
| `login_verdict` | 2 workers, `MAX_PATH_LEN` 9 | refutes `FailMeansMismatch` |
| `login_mkdir` | 1 worker, `MAX_PATH_LEN` 9 | refutes `MkdirInOwnDirectory` |
| `client` | 4 lines out of 5, the parts of a cut line counted, terminal and pipe | `InStep`, `NoMutualWait`, `ImplementsProtocol`, `LostLinesArePipedOrLong`, `CommandIsTheLine`, `VerdictArrives`, `LoginEndsWithInput` |
| `session` | 3 commands | `GarbledWorkerNeedsBarePut`, `LoopFindsCommands`, `GarbledClientNeedsLeftOver`, `StuckOnlyOnSilence`, `WorkerSeesClientLeave`, `SessionWindsDown` |
| `session_answer` | 2 commands | refutes `CommandIsAnswered` |
| `session_report` | 2 commands | refutes `ClosedMeansClosed` |

Bounds, and why they suffice.

* `task_queue`: three nodes give lists of length 0, 1, 2 and 3, the lengths the
  code distinguishes (empty, one element, more), and every way of reusing a node.
  The proofs cover the rest.
* `thread_pool`: with more workers than two, a signal may wake a worker that is not
  the one on its way; with more clients than descriptors `accept` fails, and
  descriptor numbers are reused.  Each client connects once.
  Workers and clients are symmetric; the descriptors are not (`accept` takes the
  lowest).  No symmetry is used in the liveness runs.
* `byte_stream`: the data of a train are one unit, none and two, so that a call for
  nothing and a call that takes several `recv` occur; the buffer is as large as the
  largest train, so that a train is sent in one piece, in single units and together
  with the beginning of the next one.  Closing and resetting the
  connection are possible at every point, and so is an interruption wherever the
  server's `recvn` waits.
* `login`: two workers interleave their lookups and their appends.  `MAX_PATH_LEN` 6
  fits exactly two names (`B/a/b` and the NUL are six cells), so that the array is
  full for the third login, and a path spoilt by two appends at once can reach its end
  and beyond.  The reset of a client that has left may take any number of failed
  attempts.  Locals that are not read again, and an entry of `getspnam` that nobody is about
  to compare with, are forgotten, which keeps the run at a million states.  Longer paths are covered by
  the proofs; the only property that is not proved, `DisconnectFreesWorker`, does
  not depend on the length.
* `client`: two lines are a login and two are left, so that a refusal, a line read ahead
  after a login and two lines run together all occur.  Of the lines one is longer than
  the name's buffer, one is empty, one is a command that takes no argument, one a
  command without and one a command with an argument; as a name or a password
  each of them will do.  A read may cut a line in front of, between or behind its words, or
  within one, and the rest may be a command again; the two parts count as two of the
  four lines.  Bytes are not counted: any read of the loop may end anywhere.
  Reads by `fgets` are not cut, so that input of more than stdio's buffer (1024 bytes for a
  terminal, 4096 for a pipe) before the login is over is outside this bound.
* `session`: three commands are enough for a command to leave bytes behind, for
  another to trip over them and for a third to be affected; two for the findings.

Deadlock is checked for `login` and `byte_stream`, which never stop (the receiver of a
stream that has ended calls `recvn` again and again).  The other models stop
where the program does: the server has ended, or the session is over - or hangs,
which is what `StuckOnlyOnSilence` and `CommandIsAnswered` are about.

Fairness.  In `ThreadPool` every thread is scheduled (weak fairness), and a
thread to which the mutex is free again and again gets it (strong fairness of
the locking steps: spuriously woken workers may take it in between for
ever; POSIX promises no order among the threads that wait for a mutex, so this
assumes a scheduler under which no thread loses the race every time).
Nothing is assumed of clients, of the parent, of failures, of spurious wakeups
or of `exit(1)`.
A session ends only once its client has left, because then `recv` reports it;
this is what `DisconnectFreesWorker` and `WorkerSeesClientLeave` justify for the
two phases of a session; the first needs that the reset a send has provoked is
delivered in the end, after any number of further sends.  `QueuedIsServed` carries its assumption in the formula
(sessions do not last for ever).  In `Login` the workers are fair except that a
client that is there may keep one waiting, and the network delivers a reset that is due; in `Session` client and worker are
fair, and the user, other sessions and a garbled worker are not.  In `ByteStream` the
two programs run on, and a connection need not break.  In `Client` the
client's login and a worker that has taken the client run on (`WorkerServes`); nothing is
assumed of the user, of commands, of verdicts, of `crypt`, of the server's end, or of
`TakeClient`: workers may serve others for ever, and `VerdictArrives` and
`LoginEndsWithInput` make an exception of a client that stays in the queue.  No action whose outcome the environment
chooses is made fair by itself: fairness is on the disjunction of all outcomes.

## 4. What is proved

Every theorem is about the specification without fairness, for all values of the
constants under the assumptions each module names: `NullAssumption` (NULL is no
node), `PoolAssumption` (finitely many workers, at least one; descriptors are natural
numbers; `None` and `Main` are nothing else), `StreamAssumption` (trains are at least
as long as their headers, the buffer holds at least one unit, and the client installs no
signal handler), `LoginAssumption`
(`MAX_PATH_LEN` exceeds 1; users and characters are distinct) and
`SessionAssumption` and `ClientAssumption` (bounds are natural numbers; lines are sequences
of words, the long line is one of them, and a word is cut into words).

That the client handles no signal is a fact about this code: `signal` is called once, by the
server's parent (`server/server.c:40`), and no socket has a receive timeout.  It matters,
because the client's `recvn` lacks the `EINTR` branch of the other three loops: with a
handler, an interrupted call would move its position in front of the buffer while data are
still to come, and they would be stored there.  The mutant `RecvInterruptedAnyway` is
this case, and `NoStoreBeforeBuffer` is violated by it.

* `TaskQueue`: `TypeOK /\ NoLeak /\ ListShape` is inductive.  The three need each
  other: `taskQueuePop` of a list longer than one relies on the link of the
  first node (`ListShape`), which `malloc` and `free` of *other* nodes leave
  alone only because the nodes are distinct and allocated (`NoLeak`), and the size is
  right because of `ListShape`.  `TypeCorrect`, `NodesNeverLeak` and
  `PointersSound` follow, and `ListImplementsFifo` maps every call to its abstract
  operation, an out-of-memory exit to a stutter.
* `ThreadPool`: `IInv` is `TypeOK` with `LockInv` (who holds the mutex, by
  the program counters), `MainInv` (main has a descriptor in hand between accept and
  push; the flag is set exactly while main broadcasts and joins), `WaitInv` (a
  worker about to sleep has just seen an empty queue and no flag, and both still
  hold), `NeverPopsEmpty` and `NobodySleepsThroughExit`.  The last two are not
  inductive alone: they need that nobody changes the queue or the flag while a
  worker holds the mutex.  From `IInv` follow `TypeCorrect`, `PopsOnlyClients` and
  `ExitWakesAll`.
* `WakeupsAreNotLost`: `NoLostWakeup` is inductive relative to `IInv`.  The
  argument counts: a push adds one client and one signal, a signal adds a woken
  worker or finds nobody asleep, a pop takes one client and one worker, and a
  worker goes to sleep only with an empty queue.

* `DescriptorsHaveOneOwner` (`OneOwner`): the invariant `OwnerInv`, on top of `IInv`.
  `Owned` says that a descriptor is open exactly if main has just accepted it, it is
  in the queue or a worker serves it; `OwnedOnce` that only one of these holds, once.
  The third part, `Connected`, is not in the property but needed for it: `accept`
  gives a descriptor to a connection that no other descriptor is for,
  because connections in the backlog are distinct from each other and from those that
  have a descriptor.  All three speak of a server that is up.
* `PoolImplementsService` (`ImplementsService`): with `OwnerInv`, a push is
  `Admit`, a pop `Start` (a worker that pops serves nobody, so fewer connections are
  in service than there are workers), a close `Finish`, an end of the process `Stop`,
  and every other step leaves the mapped state alone.

* `ByteStreamProofs`: `IInv` counts.  As long as no train has been cut, what has been
  received, what is in the caller's buffer and what is on the wire are consecutive units,
  which end where the sender is if the line is up (`WireInv`); a call that came
  back early and a failed `recv` come only when nothing more can (`EndInv`); and
  `recvn`'s position is the length of the buffer's contents (`CallInv`).  Hence
  `TypeCorrect`, `BuffersHoldOneTrain` (`BufferIsBeginningOfNext`), `PositionIsHarmless`
  (`NoStoreBeforeBuffer`) and `StreamImplementsChannel` (`ImplementsChannel`), for every
  list of trains, every header and every buffer.
* `ClientProofs`: while the worker is there, client and worker are in one of four joint
  states (`Asks`, `HalfSent`, `Waits`, `Commands`), each of which says exactly which trains
  and replies are under way; `ClientAndWorkerInStep` (`InStep`) and
  `ClientAndWorkerDoNotDeadlock` (`NoMutualWait`) follow, for any lines and any number of them:
  in `Waits`, where the client waits for a verdict, there is either something left for the
  worker to read or a verdict under way.  `ClientImplementsProtocol`: the joint states determine
  what a step is in `LoginProtocol` - the password's `send` is `Submit`, the worker's verdict
  `Judge`, its reading `Learn` - and that a verdict is never sent over another one; most
  steps are stutters.
* `ClientInputProofs`: `InputInv` says what standard input has become.  `Buffer`: the lines in
  stdin's buffer are among those read; `OneLineAhead`: with a terminal at most the rest of
  one long line is left in it once the password is read.  `Attempts` counts: every `fgets`
  takes at least half a line and every attempt two of them, so that the client never starts
  more attempts than lines were typed; this bounds the numbers of the trains under way
  (`Network`) and makes `TypeOK` inductive.  `ClientTypeCorrect`,
  `OnlyPipedOrLongLinesAreLost` (`LostLinesArePipedOrLong`) and `CommandIsWhatWasTyped`
  (`CommandIsTheLine`) follow; for the last, that `cmdCut` picks the first of two words needs
  that the places in the lines are totally ordered (`FirstOfTwo`), and that a line is as it was
  typed unless it is one of the two parts of a cut one needs `Uncut`: a cut moves the lines
  behind it, but leaves those that have been read alone (`CutLineIs`, `TypedGrows`).
  `LoginRunsOut` is the safety
  half of `LoginEndsWithInput`: once nothing more is typed and until the login is over,
  `LoginLeft`, a natural number, falls with every step of the login and rises with none.
* `LoginProofs`, for any number of workers, users and logins and any `MAX_PATH_LEN`:
  `Clean` says what every cell of `clientPath` holds at each stage of an append, as long
  as no two workers have appended at once; `EntryIsOwn` whose entry a worker is about to
  compare with; `Guarded` that the room was checked before the slash is stored.  `TypeCorrect`,
  `ArrayNotOverrun`, `PathHoldsEveryLogin`, `TurnedAwayOnlyWhenFull` and, as an action
  property, `UndisturbedVerdictIsRight` follow.  `TypeCorrect` holds of overlapping
  appends too: even then no length that is used as an index leaves its range.
  `WorkerOfGoneClientMovesOn` (`LoginWindsDown`): once a client has left, a worker goes back in
  one way only, by a refusal that is sent before the reset has arrived; every other step
  takes it nearer to idle.  How often that happens has no bound, because the network sets
  none; from the reset on, twelve steps are left at most.  Besides the types it
  needs that a worker is idle exactly while it has no client, and in a session only after an
  acceptance.
* `SessionProofs`, for any number of commands: while server and client are there, the
  frames under way are the last commands typed (`Backlog`), so that the command the client is
  in is the last of them (`InCommand`).  `PutsHaveNames`, `NothingLeft` and `Answered` say what
  the two have sent each other for it, as long as no put came without an argument,
  and nothing was left in the stream.  `WorkerGarbledByBarePut`,
  `ClientGarbledByLeftOver`, `StuckOnlyWhenUnanswered` and `TypeCorrect` follow.
  `NoNameIsReadAsCommand` (`LoopFindsCommands`) drops the condition on puts: whatever is
  typed, a name under way is the last frame of a client that has gone, behind its put or with
  the worker waiting for it (`NamesInPlace`, inductive on top of `IInv`).
  `SessionEndsAfterItsClient` (`SessionWindsDown`): a frame under way counts three steps and a
  worker's place up to three more, and every step after the client's end lowers the sum.

Only model-checked: the liveness properties, because liveness under fairness and `ENABLED` are
out of the prover's reach (`QueuedGetsWorker`, `QueuedIsServed`, `ShutdownCompletes`,
`DisconnectFreesWorker`, `WorkerSeesClientLeave`, `SentIsReceived`, `VerdictArrives`,
`LoginEndsWithInput`).  Of four of them the part that is about states is proved: that steps
only lead on (`LoginWindsDown`, `SessionWindsDown`, `LoginRunsOut`) and that nobody waits for
each other (`NoMutualWait`).  What is left to TLC there is that some fair step is enabled.
Every invariant and every other action property that a passing run checks is a theorem.

## 5. Where the code disagrees with what it says

* A worker's `getspnam` may overwrite the entry another worker is about
  to compare with: a right password gets `AUTH_RESULT_FAIL`
  (`server/authen.c:15`, run `login_verdict`).
* `clientPath` is one for all clients and only grows: the second login works below the
  first one's directory, and when the array is full everyone is turned away
  (`server/sendMessage.c:95`, `login_mkdir`; `OnlyFullPathTurnsAway`).
* The client waits for the result of every command, the server sends one for
  mkdir only (`client/fileOpt.c:117`, `session_answer`).
* `recvSignal` takes the client's `recvn` returning 0, its success, for a closed
  connection (`client/fileOpt.c:77`, `session_report`).

Two commands do not work at all, and no property above says that they do:

* `put` never uploads.  Having sent the name, the client opens `cmd->cmdCode_`, a number,
  instead of the path `cmd->data_` (`client/fileOpt.c:176`), so that `open` fails and
  `ERROR_CHECK` ends the client.  Neither the size nor any content is sent, against the
  comments of `client/fileOpt.c:157` and 179 and against `PutFile`, which reads a size and a
  content (`server/cmdHandle.c:159-171`).  A client repaired there would send the size, but
  still no content.  `Session` has the code as it is (`PutNameAndExit`), so that the worker
  comes to the size of an upload only to find that the client has left (`PutAtEof`).
* The content of a `get` is never sent.  `GetFile` sends name and size and returns
  (`server/cmdHandle.c:177-212`); the client waits for the content (`client/fileOpt.c:228`)
  until the server ends.  `StuckOnlyOnSilence` excuses this wait, as it does that for an
  answer that is not sent: `silent` holds after every get.

Smaller observations, without a run of their own:

* `UserAuthen` ignores what `recvn` returns (`server/sendMessage.c:66-77`), so a connection that
  is cut while the credentials are read is a failed attempt and is retried, where
  `server/sendMessage.h:9` promises `AUTH_RESULT_IO_ERROR`.  It does no harm beyond
  further attempts, until the reset has arrived: `DisconnectFreesWorker` holds.
* The test `client/cmdOpt.c:72` announces (the commands 4 to 7 must have an argument) looks at
  `argFlag_` and never succeeds; `GarbledWorkerNeedsBarePut` says what follows.
* A client that is asking for its credentials does not learn that the server has ended: it
  goes on asking until its input ends (`client/client.c:93-122`; `LoginEndsWithInput`).
* A line of more than 1023 bytes is read in two (`client/client.c:42`; a terminal gives lines of
  up to 4095): the first part is executed as a command with a cut argument, and the rest
  is parsed as another command (`CommandIsTheLine`, `cut`).
* `makeWorker` compares what `pthread_create` returns with -1 (`server/worker.c:34-35`), but
  that is 0 or a positive error number: a thread that is not created goes unnoticed.
* The client's `recvn` has no `EINTR` branch (`client/clientsendMessage.c:15-20`, section 4).
* Lines that are piped into the client may be lost between `fgets` and `read`, or run
  together into one command (`LostLinesArePipedOrLong`, `CommandIsTheLine`).

## 6. Not modelled, and why

No function of the running programs calls these, so that no behaviour of NexFile depends on
them: the directory stack `filePath.c` (its pop takes off one component where a
push of a name with an inner slash has added two, `server/filePath.c:75`, but nobody
pushes), the configuration readers `server/configParser.c` and `client/config.c` (the
programs use the macros of their headers), `fileHandle.c` and `tcpInit.c` (`cmdHandle.c` and
`main` have versions of their own).  `userStatus.c` is called by nothing either, and of
`status.c` the client uses the flag `is_connected` only, which is the step from `reply` to
`loop` in `Client`.  Logging is output; the `exit(1)` of `ERROR_CHECK` is modelled where it is
used.  `databases/user.sql` is read by no code.

Inside the modelled parts: the contents of files, directories and messages; the lengths
of names beyond the bound checks; main's epoll set, which also watches the
clients' descriptors and makes main spin, without any effect on the state; the bytes that
a store past the end of an array destroys; a connection attempt that fails (the client
exits); a thread that cannot be created (section 5); more than one buffer of input
before the login is over (section 3).

## 7. Plan

Done: `FifoQueue`, `TaskQueue`, `PoolService`, `ThreadPool`, `Login`, `Session`,
`TrainChannel`, `ByteStream`, `Client`, `LoginProtocol`, in this order, and the proofs above.  What could be
added:

1. `Session` with two clients of one server, so that `OtherSessionAborts` becomes the other
   client's command.
2. Countdowns like `LoginRunsOut` for the pool's shutdown and for a transfer in `ByteStream`.
3. The bytes that a store past the end of `clientPath` destroys, once workers overlap.
