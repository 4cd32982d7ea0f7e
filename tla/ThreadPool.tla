----------------------------- MODULE ThreadPool -----------------------------
(***************************************************************************)
(* The server process of NexFile: the main thread (server.c) accepts       *)
(* connections and pushes their descriptors to a task queue; a pool of     *)
(* workers (worker.c) takes descriptors from the queue and serves each     *)
(* client until it leaves (clientHandle.c).  Queue and exit flag are       *)
(* shared under one mutex with one condition variable.                     *)
(*                                                                         *)
(* The queue is used here as the FIFO that FifoQueue specifies; TaskQueue  *)
(* shows that the linked list implements it.  A parent process waits for   *)
(* the server and holds the only write end of the exit pipe: the server    *)
(* shuts down when the parent dies and the pipe reports end of file.       *)
(***************************************************************************)
EXTENDS Integers, Sequences, FiniteSets

CONSTANTS
    Worker,     \* the worker threads
    Main,       \* the main thread
    Conn,       \* client connections, each made at most once (bound)
    Fd,         \* descriptor numbers the process may use for clients (bound)
    Backlog,    \* connections the kernel queues for listen()
    None        \* no owner, no descriptor, no connection

ASSUME PoolAssumption ==
    /\ IsFiniteSet(Worker) /\ Worker # {}
    /\ Main \notin Worker
    /\ Fd \subseteq Nat
    /\ Backlog \in Nat
    /\ None \notin Worker \union {Main} \union Fd \union Conn

VARIABLES
    server,     \* "up", "exited" (main returned) or "aborted" (exit(1))
    parent,     \* "waiting" for the server, or "gone"
    exitFlag_,  \* shared under the mutex
    queue,      \* ptaskQueue_: descriptors waiting for a worker
    mutex_,     \* owner of the mutex, or None
    mpc,        \* where the main thread is
    newFd,      \* main's clientFd: accepted, not yet pushed
    wpc,        \* where each worker is
    clientFd,   \* the descriptor each worker serves
    backlog,    \* connections completed by the kernel, not yet accepted
    connOf,     \* descriptor table: the connection an open descriptor is for
    conn,       \* each connection: "idle", "connected", "closed" (by a worker)
    left        \* connections whose client has closed its end

poolVars == <<exitFlag_, queue, mutex_>>
mainVars == <<mpc, newFd>>
workerVars == <<wpc, clientFd>>
netVars == <<backlog, connOf, conn, left>>
vars == <<server, parent, poolVars, mainVars, workerVars, netVars>>

-----------------------------------------------------------------------------
Sleeping == {w \in Worker : wpc[w] = "waiting"}
Ready == {w \in Worker : wpc[w] \in {"lock", "relock", "check", "leave"}}
InWait == {w \in Worker : wpc[w] = "wait"}     \* about to sleep
Busy == {w \in Worker : wpc[w] \in {"auth", "cmd"}}

Goto(w, label) == wpc' = [wpc EXCEPT ![w] = label]

Lock(thread) == mutex_ = None /\ mutex_' = thread
Unlock == mutex_' = None

Init ==
    /\ server = "up"
    /\ parent = "waiting"
    /\ exitFlag_ = 0
    /\ queue = <<>>
    /\ mutex_ = None
    /\ mpc = "boot"
    /\ newFd = None
    /\ wpc = [w \in Worker |-> "lock"]
    /\ clientFd = [w \in Worker |-> None]
    /\ backlog = <<>>
    /\ connOf = [fd \in Fd |-> None]
    /\ conn = [c \in Conn |-> "idle"]
    /\ left = {}

\* The process ends: its memory, its descriptors and the listening socket are
\* gone.
EndProcess(how) ==
    /\ server' = how
    /\ exitFlag_' = 0
    /\ queue' = <<>>
    /\ mutex_' = None
    /\ mpc' = "boot"
    /\ newFd' = None
    /\ wpc' = [w \in Worker |-> "lock"]
    /\ clientFd' = [w \in Worker |-> None]
    /\ backlog' = <<>>
    /\ connOf' = [fd \in Fd |-> None]
    /\ UNCHANGED <<parent, conn, left>>

-----------------------------------------------------------------------------
(* The main thread. *)

MainListen ==
    /\ mpc = "boot"
    /\ mpc' = "epoll"
    /\ UNCHANGED <<server, parent, poolVars, newFd, workerVars, netVars>>

\* bind, listen or setsockopt fails: ERROR_CHECK exits.
BootFails ==
    /\ mpc = "boot"
    /\ EndProcess("aborted")

FreeFds == {fd \in Fd : connOf[fd] = None}

\* accept returns the lowest free descriptor.
MainAccept ==
    /\ mpc = "epoll"
    /\ backlog # <<>>
    /\ \E fd \in FreeFds :
        /\ \A other \in FreeFds : fd <= other
        /\ connOf' = [connOf EXCEPT ![fd] = Head(backlog)]
        /\ newFd' = fd
    /\ backlog' = Tail(backlog)
    /\ mpc' = "lock"
    /\ UNCHANGED <<server, parent, poolVars, workerVars, conn, left>>

\* Mutant: the failed accept falls through to the push.
AcceptFailsThrough ==
    /\ mpc = "epoll"
    /\ backlog # <<>>
    /\ FreeFds = {}
    /\ newFd' = -1
    /\ mpc' = "lock"
    /\ UNCHANGED <<server, parent, poolVars, workerVars, netVars>>

\* No descriptor is free: accept fails and the loop continues.
AcceptFails ==
    /\ mpc = "epoll"
    /\ backlog # <<>>
    /\ FreeFds = {}
    /\ UNCHANGED vars

MainLock ==
    /\ mpc = "lock"
    /\ Lock(Main)
    /\ mpc' = "push"
    /\ UNCHANGED <<server, parent, exitFlag_, queue, newFd, workerVars, netVars>>

MainPush ==
    /\ mpc = "push"
    /\ queue' = Append(queue, newFd)
    /\ newFd' = None
    /\ mpc' = "signal"
    /\ UNCHANGED <<server, parent, exitFlag_, mutex_, workerVars, netVars>>

\* malloc fails in taskQueuePush: ERROR_CHECK exits.
PushOutOfMemory ==
    /\ mpc = "push"
    /\ EndProcess("aborted")

\* Mutant: signal only when the queue has just become non-empty.
WakeOneOnFirst ==
    IF Sleeping = {} \/ Len(queue) > 1
    THEN UNCHANGED wpc
    ELSE \E w \in Sleeping : Goto(w, "relock")

\* Mutant: no signal at all.
WakeNobody == UNCHANGED wpc

\* pthread_cond_signal wakes a worker if one sleeps; then the mutex is freed.
WakeOne ==
    IF Sleeping = {} THEN UNCHANGED wpc
                     ELSE \E w \in Sleeping : Goto(w, "relock")

MainSignal ==
    /\ mpc = "signal"
    /\ WakeOne
    /\ Unlock
    /\ mpc' = "epoll"
    /\ UNCHANGED <<server, parent, exitFlag_, queue, newFd, clientFd, netVars>>

\* The exit pipe is at end of file once the parent is gone.
MainExitEvent ==
    /\ mpc = "epoll"
    /\ parent = "gone"
    /\ mpc' = "exitLock"
    /\ UNCHANGED <<server, parent, poolVars, newFd, workerVars, netVars>>

MainExitLock ==
    /\ mpc = "exitLock"
    /\ Lock(Main)
    /\ exitFlag_' = 1
    /\ mpc' = "broadcast"
    /\ UNCHANGED <<server, parent, queue, newFd, workerVars, netVars>>

\* Mutant: signal instead of broadcast.
WakeAllBySignal == WakeOne

WakeAll == wpc' = [w \in Worker |-> IF w \in Sleeping THEN "relock" ELSE wpc[w]]

MainBroadcast ==
    /\ mpc = "broadcast"
    /\ WakeAll
    /\ Unlock
    /\ mpc' = "join"
    /\ UNCHANGED <<server, parent, exitFlag_, queue, newFd, clientFd, netVars>>

\* Every worker has been joined: main closes up and returns.  Clients still
\* in the queue are dropped.
MainJoin ==
    /\ mpc = "join"
    /\ \A w \in Worker : wpc[w] = "exited"
    /\ EndProcess("exited")

-----------------------------------------------------------------------------
(* A worker: workerFunc, and handleClient for the client it has taken. *)

WorkerLock(w) ==
    /\ wpc[w] = "lock"
    /\ Lock(w)
    /\ Goto(w, "check")
    /\ UNCHANGED <<server, parent, exitFlag_, queue, mainVars, clientFd, netVars>>

\* The loop condition holds: the worker is about to call pthread_cond_wait.
WorkerEntersWait(w) ==
    /\ wpc[w] = "check"
    /\ exitFlag_ = 0 /\ queue = <<>>
    /\ Goto(w, "wait")
    /\ UNCHANGED <<server, parent, poolVars, mainVars, clientFd, netVars>>

\* pthread_cond_wait releases the mutex and sleeps.
WorkerWait(w) ==
    /\ wpc[w] = "wait"
    /\ Unlock
    /\ Goto(w, "waiting")
    /\ UNCHANGED <<server, parent, exitFlag_, queue, mainVars, clientFd, netVars>>

\* POSIX lets pthread_cond_wait return without a signal.
SpuriousWakeup(w) ==
    /\ wpc[w] = "waiting"
    /\ Goto(w, "relock")
    /\ UNCHANGED <<server, parent, poolVars, mainVars, clientFd, netVars>>

\* Mutant: "if" in place of "while" around pthread_cond_wait.
AfterWaitByIf == "leave"

\* After waking the worker evaluates the loop condition again.
AfterWait == "check"

WorkerRelock(w) ==
    /\ wpc[w] = "relock"
    /\ Lock(w)
    /\ Goto(w, AfterWait)
    /\ UNCHANGED <<server, parent, exitFlag_, queue, mainVars, clientFd, netVars>>

WorkerLeaveLoop(w) ==
    /\ wpc[w] = "check"
    /\ exitFlag_ = 1 \/ queue # <<>>
    /\ Goto(w, "leave")
    /\ UNCHANGED <<server, parent, poolVars, mainVars, clientFd, netVars>>

WorkerExit(w) ==
    /\ wpc[w] = "leave"
    /\ exitFlag_ = 1
    /\ Unlock
    /\ Goto(w, "exited")
    /\ UNCHANGED <<server, parent, exitFlag_, queue, mainVars, clientFd, netVars>>

\* Mutant: the worker reads the head and unlocks before it pops.
PopLater(w) ==
    /\ wpc[w] = "leave"
    /\ exitFlag_ = 0
    /\ clientFd' = [clientFd EXCEPT ![w] = Head(queue)]
    /\ Unlock
    /\ Goto(w, "auth")
    /\ UNCHANGED <<server, parent, exitFlag_, queue, mainVars, netVars>>

WorkerPop(w) ==
    /\ wpc[w] = "leave"
    /\ exitFlag_ = 0
    /\ clientFd' = [clientFd EXCEPT ![w] = Head(queue)]
    /\ queue' = Tail(queue)
    /\ Unlock
    /\ Goto(w, "auth")
    /\ UNCHANGED <<server, parent, exitFlag_, mainVars, netVars>>

\* handle_authen_event returned 0 and the session's epoll instance is set up.
Authenticated(w) ==
    /\ wpc[w] = "auth"
    /\ Goto(w, "cmd")
    /\ UNCHANGED <<server, parent, poolVars, mainVars, clientFd, netVars>>

PeerLeft(w) == connOf[clientFd[w]] \in left

\* Mutant: the descriptor is closed only by the failing paths of handleClient.
ReturnWithoutClose(w) ==
    /\ conn' = [conn EXCEPT ![connOf[clientFd[w]]] = "closed"]
    /\ Goto(w, "lock")
    /\ UNCHANGED <<server, parent, poolVars, mainVars, clientFd, backlog, connOf, left>>

\* Mutant: the worker returns after its first client.
CloseAndExit(w) ==
    /\ conn' = [conn EXCEPT ![connOf[clientFd[w]]] = "closed"]
    /\ connOf' = [connOf EXCEPT ![clientFd[w]] = None]
    /\ Goto(w, "exited")
    /\ UNCHANGED <<server, parent, poolVars, mainVars, clientFd, backlog, left>>

\* handleClient closes the descriptor on every way out.
CloseAndReturn(w) ==
    /\ conn' = [conn EXCEPT ![connOf[clientFd[w]]] = "closed"]
    /\ connOf' = [connOf EXCEPT ![clientFd[w]] = None]
    /\ Goto(w, "lock")
    /\ UNCHANGED <<server, parent, poolVars, mainVars, clientFd, backlog, left>>

\* The client has left: authentication or the command loop notices it.
SessionEnds(w) ==
    /\ w \in Busy
    /\ PeerLeft(w)
    /\ CloseAndReturn(w)

\* The session fails on the server's side: an I/O error, no room in
\* clientPath, epoll_create, epoll_ctl or epoll_wait fails.
SessionFails(w) ==
    /\ w \in Busy
    /\ CloseAndReturn(w)

\* PutFile or GetFile cannot open or map a file: ERROR_CHECK exits, from the
\* worker's thread.
HandlerExits(w) ==
    /\ wpc[w] = "cmd"
    /\ EndProcess("aborted")

-----------------------------------------------------------------------------
(* Clients and the parent process. *)

Connect(c) ==
    /\ mpc # "boot"
    /\ conn[c] = "idle"
    /\ Len(backlog) <= Backlog
    /\ conn' = [conn EXCEPT ![c] = "connected"]
    /\ backlog' = Append(backlog, c)
    /\ UNCHANGED <<server, parent, poolVars, mainVars, workerVars, connOf, left>>

Leave(c) ==
    /\ conn[c] # "idle"
    /\ c \notin left
    /\ left' = left \union {c}
    /\ UNCHANGED <<server, parent, poolVars, mainVars, workerVars, backlog, connOf, conn>>

\* The parent is killed while it waits in wait(NULL).
ParentDies ==
    /\ parent = "waiting"
    /\ parent' = "gone"
    /\ UNCHANGED <<server, poolVars, mainVars, workerVars, netVars>>

-----------------------------------------------------------------------------
MainThread ==
    \/ MainListen \/ BootFails
    \/ MainAccept \/ AcceptFails \/ MainLock \/ MainPush \/ PushOutOfMemory
    \/ MainSignal
    \/ MainExitEvent \/ MainExitLock \/ MainBroadcast \/ MainJoin

WorkerThread(w) ==
    \/ WorkerLock(w) \/ WorkerEntersWait(w) \/ WorkerWait(w)
    \/ SpuriousWakeup(w) \/ WorkerRelock(w)
    \/ WorkerLeaveLoop(w) \/ WorkerExit(w) \/ WorkerPop(w)
    \/ Authenticated(w) \/ SessionEnds(w) \/ SessionFails(w) \/ HandlerExits(w)

Next ==
    /\ server = "up"
    /\ \/ MainThread
       \/ \E w \in Worker : WorkerThread(w)
       \/ \E c \in Conn : Connect(c) \/ Leave(c)
       \/ ParentDies

Spec == Init /\ [][Next]_vars

(***************************************************************************)
(* Fairness.  Each thread is scheduled, and a thread that finds the mutex  *)
(* free again and again gets it (strong fairness: spurious wakeups may     *)
(* take the mutex in between for ever).  Nothing is assumed of clients, of *)
(* the parent, of failures or of spurious wakeups.  A session is only      *)
(* assumed to end once its client has left: recv then reports end of file  *)
(* and send fails.                                                         *)
(***************************************************************************)
MainProgress ==
    /\ server = "up"
    /\ \/ MainListen \/ MainAccept \/ MainPush \/ MainSignal
       \/ MainExitEvent \/ MainBroadcast \/ MainJoin

MainLocks == server = "up" /\ (MainLock \/ MainExitLock)

WorkerProgress(w) ==
    /\ server = "up"
    /\ \/ WorkerEntersWait(w) \/ WorkerWait(w) \/ WorkerLeaveLoop(w)
       \/ WorkerExit(w) \/ WorkerPop(w) \/ SessionEnds(w)

WorkerLocks(w) == server = "up" /\ (WorkerLock(w) \/ WorkerRelock(w))

Fairness ==
    /\ WF_vars(MainProgress) /\ SF_vars(MainLocks)
    /\ \A w \in Worker : WF_vars(WorkerProgress(w)) /\ SF_vars(WorkerLocks(w))

FairSpec == Spec /\ Fairness

-----------------------------------------------------------------------------
(* Properties. *)

OpenFds == {fd \in Fd : connOf[fd] # None}
QueuedFds == {queue[i] : i \in 1..Len(queue)}
AcceptedFd == IF mpc \in {"lock", "push"} THEN {newFd} ELSE {}
ServedFds == {clientFd[w] : w \in Busy}

\* Every variable keeps its type; in particular main never pushes a value
\* that is not an open descriptor (server.c:76-85).
TypeOK ==
    /\ server \in {"up", "exited", "aborted"}
    /\ parent \in {"waiting", "gone"}
    /\ exitFlag_ \in {0, 1}
    /\ queue \in Seq(Fd)
    /\ mutex_ \in Worker \union {Main, None}
    /\ mpc \in {"boot", "epoll", "lock", "push", "signal",
                "exitLock", "broadcast", "join"}
    /\ newFd \in Fd \union {None}
    /\ wpc \in [Worker -> {"lock", "check", "wait", "waiting", "relock",
                           "leave", "auth", "cmd", "exited"}]
    /\ clientFd \in [Worker -> Fd \union {None}]
    /\ backlog \in Seq(Conn)
    /\ connOf \in [Fd -> Conn \union {None}]
    /\ conn \in [Conn -> {"idle", "connected", "closed"}]
    /\ left \subseteq Conn

\* Every open client descriptor has exactly one owner - main between accept
\* and push, one place in the queue, or one worker - so none is leaked, served
\* twice or closed by one thread while another uses it; and two descriptors
\* never stand for the same connection (server.c:76-86, worker.c:61-66,
\* clientHandle.c:51-135).
OneOwner ==
    server = "up" =>
        /\ OpenFds = AcceptedFd \union QueuedFds \union ServedFds
        /\ AcceptedFd \intersect (QueuedFds \union ServedFds) = {}
        /\ QueuedFds \intersect ServedFds = {}
        /\ \A i, j \in 1..Len(queue) : queue[i] = queue[j] => i = j
        /\ \A v, w \in Busy : clientFd[v] = clientFd[w] => v = w
        /\ \A f, g \in OpenFds : connOf[f] = connOf[g] => f = g

\* No wakeup is lost: while a worker sleeps, there are at least as many workers
\* on their way to the queue (or a signal about to be sent) as clients in it,
\* so no client waits for a session to end while a worker is free
\* (server.c:84-87 against the loop of worker.c:48-52).
NoLostWakeup ==
    (exitFlag_ = 0 /\ Sleeping # {})
        => Len(queue) <= Cardinality(Ready) + (IF mpc = "signal" THEN 1 ELSE 0)

\* A worker past the wait loop that is not told to exit finds a client in the
\* queue: worker.c:61 never dereferences the head of an empty list, whatever
\* the interleaving of pushes, pops and spurious wakeups.
NeverPopsEmpty ==
    \A w \in Worker : (wpc[w] = "leave" /\ exitFlag_ = 0) => queue # <<>>

\* Once main has broadcast the exit flag and waits in pthread_join
\* (server.c:93-101) no worker sleeps on the condition variable or is about
\* to: one that did would never be woken, and main never return.
NobodySleepsThroughExit ==
    mpc = "join" => Sleeping \union InWait = {}

\* The pool implements PoolService: clients are served in the order in which
\* they were admitted, once each, at most one per worker.
Service == INSTANCE PoolService WITH
    Slots <- Cardinality(Worker),
    waiting <- IF server = "up" THEN [i \in 1..Len(queue) |-> connOf[queue[i]]]
                                ELSE <<>>,
    serving <- IF server = "up" THEN {connOf[clientFd[w]] : w \in Busy} ELSE {},
    served <- {c \in Conn : conn[c] = "closed"},
    down <- server # "up"

ImplementsService == Service!Spec

Queued(c) == \E i \in 1..Len(queue) : connOf[queue[i]] = c

\* A queued client does not wait for ever while a worker is free to take it:
\* it is taken, or again and again every worker is busy with a client
\* (worker.c:46-67).
QueuedGetsWorker ==
    \A c \in Conn :
        Queued(c) ~> \/ ~Queued(c)
                     \/ Busy = Worker
                     \/ exitFlag_ = 1
                     \/ server # "up"

\* Clients queued behind long sessions are served in the end: if sessions with
\* clients that stay never last for ever, then every queued client is taken by
\* a worker, even by the only one (worker.c:46-67).
QueuedIsServed ==
    []<>(\A w \in Busy : PeerLeft(w))
        => \A c \in Conn :
               Queued(c) ~> ~Queued(c) \/ exitFlag_ = 1 \/ server # "up"

\* Once the parent is gone the server ends, unless a worker serves a client
\* that never leaves: the exit flag is only looked at between two clients
\* (worker.c:49-58, server.c:89-107).
ShutdownCompletes ==
    parent = "gone" ~> \/ server # "up"
                       \/ \E w \in Busy : ~PeerLeft(w)
=============================================================================
