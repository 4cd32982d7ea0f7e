---------------------- MODULE ThreadPoolServiceProofs ----------------------
(***************************************************************************)
(* Who owns a client's descriptor, and that the pool implements            *)
(* PoolService, for every number of workers, clients and descriptors.      *)
(***************************************************************************)
EXTENDS ThreadPoolProofs

\* The four places a descriptor can be in, and which of them holds it.
HasNew(fd) == mpc \in {"lock", "push"} /\ newFd = fd
HasQueue(fd) == \E i \in 1..Len(queue) : queue[i] = fd
Serving(w) == wpc[w] \in {"auth", "cmd"}
HasWorker(fd) == \E w \in Worker : Serving(w) /\ clientFd[w] = fd

\* An open descriptor is in one of the places, and nothing else is.
Owned ==
    /\ \A fd \in Fd : connOf[fd] # None <=> HasNew(fd) \/ HasQueue(fd) \/ HasWorker(fd)
    /\ \A w \in Worker : Serving(w) => clientFd[w] \in Fd

\* It is there once.
OwnedOnce ==
    /\ \A fd \in Fd : HasNew(fd) => ~HasQueue(fd) /\ ~HasWorker(fd)
    /\ \A fd \in Fd : HasQueue(fd) => ~HasWorker(fd)
    /\ \A i, j \in 1..Len(queue) : queue[i] = queue[j] => i = j
    /\ \A v, w \in Worker :
           Serving(v) /\ Serving(w) /\ clientFd[v] = clientFd[w] => v = w

\* A connection is in the backlog or has a descriptor, but not both and not
\* two of them, and only until a worker has closed it.
Connected ==
    /\ \A i \in 1..Len(backlog) : conn[backlog[i]] = "connected"
    /\ \A i, j \in 1..Len(backlog) : backlog[i] = backlog[j] => i = j
    /\ \A fd \in Fd : connOf[fd] # None =>
           /\ conn[connOf[fd]] = "connected"
           /\ \A i \in 1..Len(backlog) : backlog[i] # connOf[fd]
    /\ \A f, g \in Fd : connOf[f] # None /\ connOf[f] = connOf[g] => f = g

OwnerInv == server = "up" => Owned /\ OwnedOnce /\ Connected

-----------------------------------------------------------------------------
LEMMA OwnerInvImpliesOneOwner ==
    ASSUME IInv, OwnerInv
    PROVE  OneOwner
<1>. SUFFICES ASSUME server = "up"
              PROVE  OneOwner
  BY DEF OneOwner
<1>1. /\ newFd \in Fd \/ mpc \notin {"lock", "push"}
      /\ \A i \in 1..Len(queue) : queue[i] \in Fd
  BY DEF IInv, ControlInv, MainInv, TypeOK
<1>2. OpenFds = AcceptedFd \union QueuedFds \union ServedFds
  BY <1>1 DEF OwnerInv, Owned, HasNew, HasQueue, HasWorker, Serving,
              OpenFds, AcceptedFd, QueuedFds, ServedFds, Busy
<1>3. /\ AcceptedFd \intersect (QueuedFds \union ServedFds) = {}
      /\ QueuedFds \intersect ServedFds = {}
  BY <1>1 DEF OwnerInv, OwnedOnce, HasNew, HasQueue, HasWorker, Serving,
              AcceptedFd, QueuedFds, ServedFds, Busy
<1>4. /\ \A i, j \in 1..Len(queue) : queue[i] = queue[j] => i = j
      /\ \A v, w \in Busy : clientFd[v] = clientFd[w] => v = w
      /\ \A f, g \in OpenFds : connOf[f] = connOf[g] => f = g
  BY DEF OwnerInv, OwnedOnce, Connected, Serving, Busy, OpenFds
<1>. QED
  BY <1>2, <1>3, <1>4 DEF OneOwner

LEMMA InitOwnerInv == Init => OwnerInv
BY PoolAssumption
   DEF Init, OwnerInv, Owned, OwnedOnce, Connected, HasNew, HasQueue, HasWorker, Serving

\* Steps that move no descriptor and no connection.
LEMMA NothingMoves ==
    ASSUME IInv, OwnerInv, server = "up",
           UNCHANGED <<queue, newFd, clientFd, backlog, connOf, conn>>,
           mpc' \in {"lock", "push"} <=> mpc \in {"lock", "push"},
           \A w \in Worker : Serving(w)' <=> Serving(w)
    PROVE  OwnerInv'
BY DEF OwnerInv, Owned, OwnedOnce, Connected, HasNew, HasQueue, HasWorker

LEMMA AcceptOwnerInv ==
    ASSUME IInv, OwnerInv, server = "up", MainAccept
    PROVE  OwnerInv'
<1>. USE PoolAssumption
<1>1. PICK fd \in Fd : /\ connOf[fd] = None
                       /\ connOf' = [connOf EXCEPT ![fd] = Head(backlog)]
                       /\ newFd' = fd
  BY DEF MainAccept, FreeFds
<1>2. /\ mpc = "epoll" /\ mpc' = "lock"
      /\ UNCHANGED <<queue, wpc, clientFd, conn>>
      /\ backlog # <<>> /\ backlog' = Tail(backlog)
  BY DEF MainAccept, poolVars, workerVars
<1>3. /\ backlog \in Seq(Conn)
      /\ connOf \in [Fd -> Conn \union {None}]
  BY DEF IInv, TypeOK
<1>4. /\ Head(backlog) = backlog[1] /\ backlog[1] \in Conn /\ backlog[1] # None
      /\ Len(backlog) \in Nat /\ Len(backlog) > 0
      /\ Len(backlog') = Len(backlog) - 1
      /\ \A i \in 1..Len(backlog') : backlog'[i] = backlog[i + 1]
  BY <1>2, <1>3, HeadTailProperties, LenProperties
<1>5. \A f \in Fd : connOf'[f] = IF f = fd THEN backlog[1] ELSE connOf[f]
  BY <1>1, <1>3, <1>4
<1>6. \A f \in Fd : /\ HasNew(f)' <=> f = fd
                    /\ ~HasNew(f)
                    /\ HasQueue(f)' <=> HasQueue(f)
                    /\ HasWorker(f)' <=> HasWorker(f)
  BY <1>1, <1>2 DEF HasNew, HasQueue, HasWorker, Serving
<1>7. ~HasQueue(fd) /\ ~HasWorker(fd)
  BY <1>1 DEF OwnerInv, Owned
<1>8. Owned'
  <2>1. \A w \in Worker : Serving(w)' => clientFd'[w] \in Fd
    BY <1>2 DEF Serving, OwnerInv, Owned
  <2>2. \A f \in Fd : connOf'[f] # None <=> HasNew(f)' \/ HasQueue(f)' \/ HasWorker(f)'
    BY <1>4, <1>5, <1>6, <1>7 DEF OwnerInv, Owned
  <2>. QED
    BY <2>1, <2>2 DEF Owned
<1>9. OwnedOnce'
  <2>1. /\ \A f \in Fd : HasNew(f)' => ~HasQueue(f)' /\ ~HasWorker(f)'
        /\ \A f \in Fd : HasQueue(f)' => ~HasWorker(f)'
    BY <1>6, <1>7 DEF OwnerInv, OwnedOnce
  <2>2. /\ \A i, j \in 1..Len(queue') : queue'[i] = queue'[j] => i = j
        /\ \A v, w \in Worker :
               Serving(v)' /\ Serving(w)' /\ clientFd'[v] = clientFd'[w] => v = w
    BY <1>2 DEF OwnerInv, OwnedOnce, Serving
  <2>. QED
    BY <2>1, <2>2 DEF OwnedOnce
<1>10. Connected'
  <2>1. /\ \A i \in 1..Len(backlog') : /\ conn'[backlog'[i]] = "connected"
                                       /\ backlog'[i] # backlog[1]
        /\ \A i, j \in 1..Len(backlog') : backlog'[i] = backlog'[j] => i = j
    BY <1>2, <1>4 DEF OwnerInv, Connected
  <2>2. \A f \in Fd : connOf'[f] # None =>
           /\ conn'[connOf'[f]] = "connected"
           /\ \A i \in 1..Len(backlog') : backlog'[i] # connOf'[f]
    BY <1>2, <1>4, <1>5, <2>1 DEF OwnerInv, Connected
  <2>3. \A f, g \in Fd : connOf'[f] # None /\ connOf'[f] = connOf'[g] => f = g
    BY <1>4, <1>5 DEF OwnerInv, Connected
  <2>. QED
    BY <2>1, <2>2, <2>3 DEF Connected
<1>. QED
  BY <1>8, <1>9, <1>10 DEF OwnerInv

LEMMA PushOwnerInv ==
    ASSUME IInv, OwnerInv, server = "up", MainPush
    PROVE  OwnerInv'
<1>1. /\ mpc = "push" /\ mpc' = "signal"
      /\ UNCHANGED <<wpc, clientFd, backlog, connOf, conn>>
      /\ queue' = Append(queue, newFd)
      /\ newFd \in Fd
  BY DEF MainPush, workerVars, netVars, IInv, ControlInv, MainInv
<1>2. /\ Len(queue) \in Nat
      /\ Len(queue') = Len(queue) + 1
      /\ \A i \in 1..Len(queue) : queue'[i] = queue[i]
      /\ queue'[Len(queue) + 1] = newFd
  BY <1>1, AppendProperties, LenProperties DEF IInv, TypeOK
<1>3. \A f \in Fd : /\ HasNew(f) <=> f = newFd
                    /\ ~HasNew(f)'
                    /\ HasQueue(f)' <=> HasQueue(f) \/ f = newFd
                    /\ HasWorker(f)' <=> HasWorker(f)
  <2>1. \A f \in Fd : /\ HasNew(f) <=> f = newFd
                      /\ ~HasNew(f)'
                      /\ HasWorker(f)' <=> HasWorker(f)
    BY <1>1 DEF HasNew, HasWorker, Serving
  <2>2. \A f \in Fd : HasQueue(f)' <=> HasQueue(f) \/ f = newFd
    BY <1>2 DEF HasQueue
  <2>. QED
    BY <2>1, <2>2
<1>4. ~HasQueue(newFd) /\ ~HasWorker(newFd)
  BY <1>1, <1>3 DEF OwnerInv, OwnedOnce
<1>5. Owned' /\ Connected'
  BY <1>1, <1>3 DEF OwnerInv, Owned, Connected, Serving
<1>6. OwnedOnce'
  <2>1. /\ \A f \in Fd : HasNew(f)' => ~HasQueue(f)' /\ ~HasWorker(f)'
        /\ \A f \in Fd : HasQueue(f)' => ~HasWorker(f)'
    BY <1>3, <1>4 DEF OwnerInv, OwnedOnce
  <2>2. \A i \in 1..Len(queue) : queue[i] # newFd
    BY <1>4 DEF HasQueue
  <2>3. \A i, j \in 1..Len(queue') : queue'[i] = queue'[j] => i = j
    BY <1>2, <2>2 DEF OwnerInv, OwnedOnce
  <2>4. \A v, w \in Worker :
               Serving(v)' /\ Serving(w)' /\ clientFd'[v] = clientFd'[w] => v = w
    BY <1>1 DEF OwnerInv, OwnedOnce, Serving
  <2>. QED
    BY <2>1, <2>3, <2>4 DEF OwnedOnce
<1>. QED
  BY <1>5, <1>6 DEF OwnerInv

\* What a pop does to queue and worker.
LEMMA PopFacts ==
    ASSUME IInv, OwnerInv, server = "up", NEW w \in Worker, WorkerPop(w)
    PROVE  /\ UNCHANGED <<server, mpc, newFd, backlog, connOf, conn>>
           /\ queue # <<>> /\ queue' = Tail(queue)
           /\ Len(queue) \in Nat /\ Len(queue) > 0
           /\ Len(queue') = Len(queue) - 1
           /\ \A i \in 1..Len(queue') : queue'[i] = queue[i + 1]
           /\ Head(queue) = queue[1] /\ queue[1] \in Fd
           /\ ~Serving(w)
           /\ \A v \in Worker : Serving(v)' <=> Serving(v) \/ v = w
           /\ \A v \in Worker : clientFd'[v] = IF v = w THEN queue[1] ELSE clientFd[v]
<1>1. /\ UNCHANGED <<server, mpc, newFd, backlog, connOf, conn>>
      /\ queue # <<>> /\ queue' = Tail(queue)
      /\ wpc[w] = "leave" /\ wpc' = [wpc EXCEPT ![w] = "auth"]
      /\ clientFd' = [clientFd EXCEPT ![w] = Head(queue)]
  BY DEF WorkerPop, Goto, mainVars, netVars, IInv, ControlInv, NeverPopsEmpty
<1>2. /\ Len(queue) \in Nat /\ Len(queue) > 0
      /\ Len(queue') = Len(queue) - 1
      /\ \A i \in 1..Len(queue') : queue'[i] = queue[i + 1]
      /\ Head(queue) = queue[1] /\ queue[1] \in Fd
  BY <1>1, HeadTailProperties, LenProperties DEF IInv, TypeOK
<1>3. /\ ~Serving(w)
      /\ \A v \in Worker : Serving(v)' <=> Serving(v) \/ v = w
  BY <1>1 DEF Serving, IInv, TypeOK
<1>4. \A v \in Worker : clientFd'[v] = IF v = w THEN queue[1] ELSE clientFd[v]
  BY <1>1, <1>2 DEF IInv, TypeOK
<1>. QED
  BY <1>1, <1>2, <1>3, <1>4

LEMMA PopOwnerInv ==
    ASSUME IInv, OwnerInv, server = "up", NEW w \in Worker, WorkerPop(w)
    PROVE  OwnerInv'
<1>. DEFINE fd == queue[1]
<1>. USE PopFacts
<1>1. HasQueue(fd) /\ fd \in Fd /\ ~HasWorker(fd) /\ ~HasNew(fd)
  <2>1. HasQueue(fd) /\ fd \in Fd
    BY DEF HasQueue
  <2>. QED
    BY <2>1 DEF OwnerInv, OwnedOnce
<1>2. \A f \in Fd : HasNew(f)' <=> HasNew(f)
  BY DEF HasNew
<1>3. \A f \in Fd : HasQueue(f)' <=> HasQueue(f) /\ f # fd
  <2>1. \A i \in 1..Len(queue) : i # 1 => queue[i] # fd
    BY DEF OwnerInv, OwnedOnce
  <2>2. ASSUME NEW f \in Fd, HasQueue(f)'
        PROVE  HasQueue(f) /\ f # fd
    BY <2>1, <2>2 DEF HasQueue
  <2>3. ASSUME NEW f \in Fd, HasQueue(f), f # fd
        PROVE  HasQueue(f)'
    <3>1. PICK i \in 1..Len(queue) : queue[i] = f
      BY <2>3 DEF HasQueue
    <3>2. i - 1 \in 1..Len(queue') /\ queue'[i - 1] = f
      BY <3>1, <2>3
    <3>. QED
      BY <3>2 DEF HasQueue
  <2>. QED
    BY <2>2, <2>3
<1>4. \A f \in Fd : HasWorker(f)' <=> HasWorker(f) \/ f = fd
  <2>1. \A v \in Worker : Serving(v) => v # w
    OBVIOUS
  <2>. QED
    BY <2>1 DEF HasWorker
<1>5. Owned'
  <2>1. \A f \in Fd : connOf'[f] # None <=> HasNew(f)' \/ HasQueue(f)' \/ HasWorker(f)'
    BY <1>1, <1>2, <1>3, <1>4 DEF OwnerInv, Owned
  <2>2. \A v \in Worker : Serving(v)' => clientFd'[v] \in Fd
    BY <1>1 DEF OwnerInv, Owned
  <2>. QED
    BY <2>1, <2>2 DEF Owned
<1>6. OwnedOnce'
  <2>1. /\ \A f \in Fd : HasNew(f)' => ~HasQueue(f)' /\ ~HasWorker(f)'
        /\ \A f \in Fd : HasQueue(f)' => ~HasWorker(f)'
    BY <1>1, <1>2, <1>3, <1>4 DEF OwnerInv, OwnedOnce
  <2>2. \A i, j \in 1..Len(queue') : queue'[i] = queue'[j] => i = j
    BY DEF OwnerInv, OwnedOnce
  <2>3. \A v \in Worker : Serving(v) => clientFd[v] # fd
    BY <1>1 DEF HasWorker
  <2>4. \A u, v \in Worker :
               Serving(u)' /\ Serving(v)' /\ clientFd'[u] = clientFd'[v] => u = v
    BY <2>3 DEF OwnerInv, OwnedOnce
  <2>. QED
    BY <2>1, <2>2, <2>4 DEF OwnedOnce
<1>7. Connected'
  BY DEF OwnerInv, Connected
<1>. QED
  BY <1>5, <1>6, <1>7 DEF OwnerInv

\* What closing a descriptor does to the connection and the worker.
LEMMA CloseFacts ==
    ASSUME IInv, OwnerInv, server = "up", NEW w \in Worker, Serving(w),
           CloseAndReturn(w)
    PROVE  /\ UNCHANGED <<server, queue, mpc, newFd, clientFd, backlog>>
           /\ clientFd[w] \in Fd /\ connOf[clientFd[w]] \in Conn
           /\ \A v \in Worker : Serving(v)' <=> Serving(v) /\ v # w
           /\ \A f \in Fd : connOf'[f] = IF f = clientFd[w] THEN None ELSE connOf[f]
           /\ \A c \in Conn : conn'[c] = IF c = connOf[clientFd[w]] THEN "closed"
                                                                    ELSE conn[c]
<1>1. /\ UNCHANGED <<server, queue, mpc, newFd, clientFd, backlog>>
      /\ conn' = [conn EXCEPT ![connOf[clientFd[w]]] = "closed"]
      /\ connOf' = [connOf EXCEPT ![clientFd[w]] = None]
      /\ wpc' = [wpc EXCEPT ![w] = "lock"]
  BY DEF CloseAndReturn, Goto, poolVars, mainVars
<1>2. /\ conn \in [Conn -> {"idle", "connected", "closed"}]
      /\ connOf \in [Fd -> Conn \union {None}]
      /\ wpc \in [Worker -> {"lock", "check", "wait", "waiting", "relock",
                           "leave", "auth", "cmd", "exited"}]
  BY DEF IInv, TypeOK
<1>3. clientFd[w] \in Fd /\ HasWorker(clientFd[w])
  BY DEF OwnerInv, Owned, HasWorker
<1>4. connOf[clientFd[w]] \in Conn
  BY <1>2, <1>3 DEF OwnerInv, Owned
<1>5. \A v \in Worker : Serving(v)' <=> Serving(v) /\ v # w
  BY <1>1, <1>2 DEF Serving
<1>6. \A f \in Fd : connOf'[f] = IF f = clientFd[w] THEN None ELSE connOf[f]
  BY <1>1, <1>2
<1>7. \A c \in Conn : conn'[c] = IF c = connOf[clientFd[w]] THEN "closed" ELSE conn[c]
  BY <1>1, <1>2
<1>. QED
  BY <1>1, <1>3, <1>4, <1>5, <1>6, <1>7

LEMMA CloseOwnerInv ==
    ASSUME IInv, OwnerInv, server = "up", NEW w \in Worker, Serving(w),
           CloseAndReturn(w)
    PROVE  OwnerInv'
<1>. DEFINE fd == clientFd[w]
<1>. USE CloseFacts
<1>1. HasWorker(fd) /\ fd \in Fd /\ ~HasQueue(fd) /\ ~HasNew(fd)
  <2>1. HasWorker(fd) /\ fd \in Fd
    BY DEF HasWorker
  <2>. QED
    BY <2>1 DEF OwnerInv, OwnedOnce
<1>2. \A f \in Fd : (HasNew(f)' <=> HasNew(f)) /\ (HasQueue(f)' <=> HasQueue(f))
  BY DEF HasNew, HasQueue
<1>3. \A f \in Fd : HasWorker(f)' <=> HasWorker(f) /\ f # fd
  BY DEF HasWorker, OwnerInv, OwnedOnce
<1>4. Owned'
  <2>1. \A f \in Fd : connOf'[f] # None <=> HasNew(f)' \/ HasQueue(f)' \/ HasWorker(f)'
    BY <1>1, <1>2, <1>3 DEF OwnerInv, Owned
  <2>2. \A v \in Worker : Serving(v)' => clientFd'[v] \in Fd
    BY DEF OwnerInv, Owned
  <2>. QED
    BY <2>1, <2>2 DEF Owned
<1>5. OwnedOnce'
  <2>1. /\ \A f \in Fd : HasNew(f)' => ~HasQueue(f)' /\ ~HasWorker(f)'
        /\ \A f \in Fd : HasQueue(f)' => ~HasWorker(f)'
    BY <1>2, <1>3 DEF OwnerInv, OwnedOnce
  <2>2. /\ \A i, j \in 1..Len(queue') : queue'[i] = queue'[j] => i = j
        /\ \A u, v \in Worker :
               Serving(u)' /\ Serving(v)' /\ clientFd'[u] = clientFd'[v] => u = v
    BY DEF OwnerInv, OwnedOnce
  <2>. QED
    BY <2>1, <2>2 DEF OwnedOnce
<1>6. Connected'
  <2>1. /\ backlog \in Seq(Conn) /\ backlog' = backlog
        /\ connOf \in [Fd -> Conn \union {None}]
        /\ connOf[fd] \in Conn /\ connOf[fd] # None
    BY PoolAssumption DEF IInv, TypeOK
  <2>2. \A i \in 1..Len(backlog) : /\ backlog[i] \in Conn
                                   /\ backlog[i] # connOf[fd]
                                   /\ conn[backlog[i]] = "connected"
    BY <1>1, <2>1, ElementOfSeq DEF OwnerInv, Connected
  <2>3. \A f \in Fd : connOf'[f] # None =>
            /\ f # fd /\ connOf'[f] = connOf[f]
            /\ connOf[f] \in Conn /\ connOf[f] # connOf[fd]
            /\ conn[connOf[f]] = "connected"
            /\ \A i \in 1..Len(backlog) : backlog[i] # connOf[f]
    BY <1>1, <2>1 DEF OwnerInv, Connected
  <2>4. \A i \in 1..Len(backlog') : conn'[backlog'[i]] = "connected"
    BY <2>1, <2>2
  <2>5. \A f \in Fd : connOf'[f] # None =>
           /\ conn'[connOf'[f]] = "connected"
           /\ \A i \in 1..Len(backlog') : backlog'[i] # connOf'[f]
    BY <2>1, <2>3
  <2>6. \A f, g \in Fd : connOf'[f] # None /\ connOf'[f] = connOf'[g] => f = g
    BY <2>3 DEF OwnerInv, Connected
  <2>7. \A i, j \in 1..Len(backlog') : backlog'[i] = backlog'[j] => i = j
    BY <2>1 DEF OwnerInv, Connected
  <2>. QED
    BY <2>4, <2>5, <2>6, <2>7 DEF Connected
<1>. QED
  BY <1>4, <1>5, <1>6 DEF OwnerInv

LEMMA ConnectOwnerInv ==
    ASSUME IInv, OwnerInv, server = "up", NEW c \in Conn, Connect(c)
    PROVE  OwnerInv'
<1>1. /\ UNCHANGED <<server, queue, mpc, newFd, wpc, clientFd, connOf>>
      /\ conn[c] = "idle"
      /\ conn' = [conn EXCEPT ![c] = "connected"]
      /\ backlog' = Append(backlog, c)
  BY DEF Connect, poolVars, mainVars, workerVars
<1>2. /\ backlog \in Seq(Conn)
      /\ conn \in [Conn -> {"idle", "connected", "closed"}]
      /\ connOf \in [Fd -> Conn \union {None}]
  BY DEF IInv, TypeOK
<1>3. /\ Len(backlog) \in Nat
      /\ Len(backlog') = Len(backlog) + 1
      /\ \A i \in 1..Len(backlog) : backlog'[i] = backlog[i]
      /\ backlog'[Len(backlog) + 1] = c
      /\ \A i \in 1..Len(backlog) : backlog[i] \in Conn
  BY <1>1, <1>2, AppendProperties, LenProperties, ElementOfSeq
<1>4. \A d \in Conn : conn'[d] = IF d = c THEN "connected" ELSE conn[d]
  BY <1>1, <1>2
<1>5. /\ \A i \in 1..Len(backlog) : backlog[i] # c
      /\ \A fd \in Fd : connOf[fd] # c
  <2>1. "idle" # "connected"
    OBVIOUS
  <2>2. None # c
    BY PoolAssumption
  <2>. QED
    BY <1>1, <2>1, <2>2 DEF OwnerInv, Connected
<1>6. Owned' /\ OwnedOnce'
  BY <1>1 DEF OwnerInv, Owned, OwnedOnce, HasNew, HasQueue, HasWorker, Serving
<1>7. Connected'
  <2>1. \A i \in 1..Len(backlog') : conn'[backlog'[i]] = "connected"
    BY <1>3, <1>4 DEF OwnerInv, Connected
  <2>2. \A i, j \in 1..Len(backlog') : backlog'[i] = backlog'[j] => i = j
    BY <1>3, <1>5 DEF OwnerInv, Connected
  <2>3. \A fd \in Fd : connOf[fd] # None =>
           /\ connOf[fd] \in Conn /\ connOf[fd] # c
           /\ conn[connOf[fd]] = "connected"
           /\ \A i \in 1..Len(backlog) : backlog[i] # connOf[fd]
    BY <1>2, <1>5 DEF OwnerInv, Connected
  <2>4. \A fd \in Fd : connOf[fd] # None =>
           /\ conn'[connOf[fd]] = "connected"
           /\ \A i \in 1..Len(backlog') : backlog'[i] # connOf[fd]
    BY <1>3, <1>4, <2>3
  <2>. QED
    BY <1>1, <2>1, <2>2, <2>4 DEF OwnerInv, Connected
<1>. QED
  BY <1>6, <1>7 DEF OwnerInv

LEMMA NextOwnerInv ==
    ASSUME IInv, OwnerInv, [Next]_vars
    PROVE  OwnerInv'
<1>0. wpc \in [Worker -> {"lock", "check", "wait", "waiting", "relock",
                           "leave", "auth", "cmd", "exited"}]
  BY DEF IInv, TypeOK
<1>1. CASE UNCHANGED vars
  BY <1>1 DEF vars, poolVars, mainVars, workerVars, netVars, OwnerInv, Owned, OwnedOnce,
              Connected, HasNew, HasQueue, HasWorker, Serving
<1>2. CASE \E how \in {"exited", "aborted"} : EndProcess(how)
  BY <1>2 DEF EndProcess, OwnerInv
<1>3. CASE server = "up" /\ MainThread
  <2>1. CASE MainListen \/ AcceptFails \/ MainLock \/ MainExitEvent \/ MainExitLock
    <3>1. /\ UNCHANGED <<queue, newFd, wpc, clientFd, backlog, connOf, conn>>
          /\ mpc' \in {"lock", "push"} <=> mpc \in {"lock", "push"}
      BY <2>1 DEF MainListen, AcceptFails, MainLock, MainExitEvent, MainExitLock,
                  vars, poolVars, mainVars, workerVars, netVars
    <3>. QED
      BY <1>3, <3>1, NothingMoves DEF Serving
  <2>2. CASE MainSignal \/ MainBroadcast
    <3>1. /\ UNCHANGED <<queue, newFd, clientFd, backlog, connOf, conn>>
          /\ mpc' \in {"lock", "push"} <=> mpc \in {"lock", "push"}
      BY <2>2 DEF MainSignal, MainBroadcast, netVars
    <3>2. \A w \in Worker : wpc'[w] = wpc[w] \/ (wpc[w] = "waiting" /\ wpc'[w] = "relock")
      <4>1. CASE MainSignal
        BY <4>1, <1>0 DEF MainSignal, WakeOne, Goto, Sleeping
      <4>2. CASE MainBroadcast
        BY <4>2, <1>0 DEF MainBroadcast, WakeAll, Sleeping
      <4>. QED
        BY <2>2, <4>1, <4>2
    <3>3. \A w \in Worker : Serving(w)' <=> Serving(w)
      BY <3>2 DEF Serving
    <3>. QED
      BY <1>3, <3>1, <3>3, NothingMoves
  <2>3. CASE MainAccept
    BY <2>3, <1>3, AcceptOwnerInv
  <2>4. CASE MainPush
    BY <2>4, <1>3, PushOwnerInv
  <2>5. CASE BootFails \/ PushOutOfMemory \/ MainJoin
    BY <2>5, <1>2 DEF BootFails, PushOutOfMemory, MainJoin
  <2>. QED
    BY <1>3, <2>1, <2>2, <2>3, <2>4, <2>5 DEF MainThread
<1>4. ASSUME server = "up", NEW w \in Worker, WorkerThread(w)
      PROVE  OwnerInv'
  <2>1. CASE WorkerLock(w) \/ WorkerEntersWait(w) \/ WorkerWait(w)
             \/ SpuriousWakeup(w) \/ WorkerRelock(w)
             \/ WorkerLeaveLoop(w) \/ WorkerExit(w) \/ Authenticated(w)
    <3>1. UNCHANGED <<queue, mpc, newFd, clientFd, backlog, connOf, conn>>
      BY <2>1 DEF WorkerLock, WorkerEntersWait, WorkerWait, SpuriousWakeup, WorkerRelock,
                  WorkerLeaveLoop, WorkerExit, Authenticated,
                  poolVars, mainVars, netVars
    <3>2. \A v \in Worker : Serving(v)' <=> Serving(v)
      BY <2>1, <1>0
         DEF WorkerLock, WorkerEntersWait, WorkerWait, SpuriousWakeup, WorkerRelock,
             WorkerLeaveLoop, WorkerExit, Authenticated, AfterWait, Goto, Serving
    <3>. QED
      BY <1>4, <3>1, <3>2, NothingMoves
  <2>2. CASE WorkerPop(w)
    BY <2>2, <1>4, PopOwnerInv
  <2>3. CASE SessionEnds(w) \/ SessionFails(w)
    BY <2>3, <1>4, CloseOwnerInv DEF SessionEnds, SessionFails, Busy, Serving
  <2>4. CASE HandlerExits(w)
    BY <2>4, <1>2 DEF HandlerExits
  <2>. QED
    BY <1>4, <2>1, <2>2, <2>3, <2>4 DEF WorkerThread
<1>5. CASE server = "up" /\ \E c \in Conn : Connect(c)
  BY <1>5, ConnectOwnerInv
<1>6. CASE server = "up" /\ (ParentDies \/ \E c \in Conn : Leave(c))
  <2>1. UNCHANGED <<queue, mpc, newFd, wpc, clientFd, backlog, connOf, conn>>
    BY <1>6 DEF ParentDies, Leave, poolVars, mainVars, workerVars, netVars
  <2>. QED
    BY <1>6, <2>1, NothingMoves DEF Serving
<1>. QED
  BY <1>1, <1>3, <1>4, <1>5, <1>6 DEF Next

LEMMA OwnerInductive == Spec => [](IInv /\ OwnerInv)
BY InitIInv, NextIInv, InitOwnerInv, NextOwnerInv, PTL DEF Spec

\* Every open client descriptor has exactly one owner, and two descriptors are
\* never for the same connection.
THEOREM DescriptorsHaveOneOwner == Spec => []OneOwner
BY OwnerInductive, OwnerInvImpliesOneOwner, PTL

-----------------------------------------------------------------------------
(* The pool implements PoolService. *)

\* The values of PoolService's variables while the server is up.
Line == [i \in 1..Len(queue) |-> connOf[queue[i]]]
InService == {connOf[clientFd[w]] : w \in Busy}
Served == {c \in Conn : conn[c] = "closed"}

\* Steps that leave line, service and record alone.
LEMMA ServiceStutters ==
    ASSUME server = "up", server' = "up",
           Line' = Line, InService' = InService, Served' = Served
    PROVE  UNCHANGED Service!vars
BY DEF Service!vars, Line, InService, Served

LEMMA NewLine ==
    ASSUME Len(queue') \in Nat,
           \A i \in 1..Len(queue') : connOf'[queue'[i]] \in Conn
    PROVE  Line' \in Seq(Conn) /\ Len(Line') = Len(queue')
<1>1. Line' \in Seq(Conn)
  BY IsASeq DEF Line
<1>. QED
  BY <1>1 DEF Line

LEMMA LineType ==
    ASSUME IInv, OwnerInv, server = "up"
    PROVE  /\ Line \in Seq(Conn)
           /\ Len(Line) = Len(queue) /\ Len(queue) \in Nat
           /\ \A i \in 1..Len(queue) : /\ queue[i] \in Fd
                                       /\ connOf[queue[i]] \in Conn
                                       /\ connOf[queue[i]] # None
                                       /\ Line[i] = connOf[queue[i]]
<1>1. /\ Len(queue) \in Nat
      /\ \A i \in 1..Len(queue) : queue[i] \in Fd
  BY LenProperties, ElementOfSeq DEF IInv, TypeOK
<1>2. \A i \in 1..Len(queue) : HasQueue(queue[i])
  BY DEF HasQueue
<1>3. \A i \in 1..Len(queue) : connOf[queue[i]] # None /\ connOf[queue[i]] \in Conn
  BY <1>1, <1>2 DEF OwnerInv, Owned, IInv, TypeOK
<1>4. Line \in Seq(Conn)
  BY <1>1, <1>3, IsASeq DEF Line
<1>. QED
  BY <1>1, <1>3, <1>4 DEF Line

\* A descriptor that is not in the queue and not served is for a connection
\* that is neither in line nor in service nor served.
LEMMA OutsideIsFresh ==
    ASSUME IInv, OwnerInv, server = "up",
           NEW fd \in Fd, connOf[fd] # None
    PROVE  /\ connOf[fd] \in Conn /\ connOf[fd] \notin Served
           /\ ~HasQueue(fd) => \A i \in 1..Len(queue) : connOf[queue[i]] # connOf[fd]
           /\ ~HasWorker(fd) => connOf[fd] \notin InService
<1>1. connOf[fd] \in Conn
  BY DEF IInv, TypeOK
<1>2. connOf[fd] \notin Served
  <2>1. conn[connOf[fd]] = "connected"
    BY DEF OwnerInv, Connected
  <2>. QED
    BY <2>1 DEF Served
<1>3. ~HasQueue(fd) => \A i \in 1..Len(queue) : connOf[queue[i]] # connOf[fd]
  BY LineType DEF HasQueue, OwnerInv, Connected
<1>4. ~HasWorker(fd) => connOf[fd] \notin InService
  <2>1. \A w \in Busy : /\ clientFd[w] \in Fd
                        /\ HasWorker(clientFd[w])
    BY DEF Busy, Serving, HasWorker, OwnerInv, Owned
  <2>2. \A w \in Busy : connOf[clientFd[w]] # None
    BY <2>1 DEF OwnerInv, Owned
  <2>3. ~HasWorker(fd) => \A w \in Busy : clientFd[w] # fd
    BY DEF HasWorker, Busy, Serving
  <2>. QED
    BY <2>1, <2>2, <2>3 DEF InService, OwnerInv, Connected
<1>. QED
  BY <1>1, <1>2, <1>3, <1>4

LEMMA PushAdmits ==
    ASSUME IInv, OwnerInv, server = "up", MainPush
    PROVE  \E c \in Conn : Service!Admit(c)
<1>. DEFINE c == connOf[newFd]
<1>1. /\ mpc = "push" /\ newFd \in Fd
      /\ UNCHANGED <<server, wpc, clientFd, connOf, conn>>
      /\ queue' = Append(queue, newFd)
  BY DEF MainPush, workerVars, netVars, IInv, ControlInv, MainInv
<1>2. connOf[newFd] # None /\ ~HasQueue(newFd) /\ ~HasWorker(newFd)
  <2>1. HasNew(newFd)
    BY <1>1 DEF HasNew
  <2>. QED
    BY <1>1, <2>1 DEF OwnerInv, Owned, OwnedOnce
<1>3. /\ c \in Conn /\ c \notin InService /\ c \notin Served
      /\ \A i \in 1..Len(Line) : Line[i] # c
  BY <1>1, <1>2, OutsideIsFresh, LineType
<1>4. /\ Len(queue') = Len(queue) + 1 /\ Len(queue) \in Nat
      /\ \A i \in 1..Len(queue) : queue'[i] = queue[i]
      /\ queue'[Len(queue) + 1] = newFd
  BY <1>1, AppendProperties, LenProperties DEF IInv, TypeOK
<1>5. Line' = Append(Line, c)
  <2>1. /\ Append(Line, c) \in Seq(Conn)
        /\ Len(Append(Line, c)) = Len(queue) + 1
        /\ \A i \in 1..Len(queue) : Append(Line, c)[i] = connOf[queue[i]]
        /\ Append(Line, c)[Len(queue) + 1] = c
    BY <1>3, LineType, AppendProperties
  <2>2. \A i \in 1..Len(queue') : /\ connOf'[queue'[i]] = Append(Line, c)[i]
                                  /\ connOf'[queue'[i]] \in Conn
    BY <1>1, <1>3, <1>4, <2>1, LineType
  <2>3. Line' \in Seq(Conn) /\ Len(Line') = Len(queue')
    BY <1>4, <2>2, NewLine
  <2>4. \A i \in 1..Len(Line') : Line'[i] = Append(Line, c)[i]
    BY <2>2, <2>3 DEF Line
  <2>. QED
    BY <1>4, <2>1, <2>3, <2>4, SeqEqual
<1>6. InService' = InService /\ Served' = Served
  BY <1>1 DEF InService, Served, Busy
<1>7. Service!Admit(c)
  BY <1>1, <1>3, <1>5, <1>6 DEF Service!Admit, Service!Queued, Line, InService, Served
<1>. QED
  BY <1>3, <1>7 DEF Service!Admit

\* A worker that is about to pop is one that serves nobody.
LEMMA ServiceHasRoom ==
    ASSUME IInv, OwnerInv, server = "up", NEW w \in Worker, ~Serving(w)
    PROVE  Cardinality(InService) < Cardinality(Worker)
<1>1. /\ IsFiniteSet(Busy) /\ Cardinality(Busy) \in Nat
      /\ IsFiniteSet(Worker) /\ Cardinality(Worker) \in Nat
      /\ w \notin Busy
  BY PoolAssumption, FS_Subset, FS_CardinalityType DEF Busy, Serving
<1>2. Cardinality(Busy) < Cardinality(Worker)
  <2>1. Cardinality(Busy) <= Cardinality(Worker) /\ Busy # Worker
    BY <1>1, PoolAssumption, FS_Subset DEF Busy
  <2>2. Cardinality(Busy) # Cardinality(Worker)
    BY <1>1, <2>1, PoolAssumption, FS_Subset DEF Busy
  <2>. QED
    BY <1>1, <2>1, <2>2
<1>3. IsFiniteSet(InService) /\ Cardinality(InService) <= Cardinality(Busy)
  <2>. DEFINE f == [v \in Busy |-> connOf[clientFd[v]]]
  <2>1. f \in Surjection(Busy, InService)
    BY DEF Surjection, InService
  <2>. HIDE DEF f
  <2>. QED
    BY <1>1, <2>1, FS_Surjection
<1>4. Cardinality(InService) \in Nat
  BY <1>3, FS_CardinalityType
<1>. QED
  BY <1>1, <1>2, <1>3, <1>4

\* PoolService counts with its own instance of FiniteSets.
LEMMA SameCardinality ==
    ASSUME NEW S
    PROVE  Service!Cardinality(S) = Cardinality(S)
BY DEF Service!Cardinality, Cardinality

LEMMA HeadStarts ==
    ASSUME server = "up", server' = "up",
           Line # <<>>, Line' = Tail(Line),
           InService' = InService \union {Head(Line)}, Served' = Served,
           Cardinality(InService) < Cardinality(Worker)
    PROVE  Service!Start
BY SameCardinality DEF Service!Start, Line, InService, Served

LEMMA PopStarts ==
    ASSUME IInv, OwnerInv, server = "up", NEW w \in Worker, WorkerPop(w)
    PROVE  Service!Start
<1>. USE PopFacts
<1>1. Line # <<>> /\ Head(Line) = connOf[queue[1]]
  BY LineType, HeadTailProperties
<1>2. Line' = Tail(Line)
  <2>1. /\ Tail(Line) \in Seq(Conn)
        /\ Len(Tail(Line)) = Len(queue')
        /\ \A i \in 1..Len(queue') : Tail(Line)[i] = connOf[queue[i + 1]]
    BY <1>1, LineType, HeadTailProperties
  <2>2. \A i \in 1..Len(queue') : /\ connOf'[queue'[i]] = Tail(Line)[i]
                                  /\ connOf'[queue'[i]] \in Conn
    BY <2>1, LineType
  <2>3. Len(queue') \in Nat
    OBVIOUS
  <2>4. Line' \in Seq(Conn) /\ Len(Line') = Len(queue')
    BY <2>2, <2>3, NewLine
  <2>5. \A i \in 1..Len(Line') : Line'[i] = Tail(Line)[i]
    BY <2>2, <2>4 DEF Line
  <2>. QED
    BY <2>1, <2>4, <2>5, SeqEqual
<1>3. InService' = InService \union {connOf[queue[1]]}
  <2>1. w \notin Busy /\ Busy' = Busy \union {w}
    BY DEF Busy, Serving
  <2>2. \A v \in Busy : clientFd'[v] = clientFd[v]
    BY <2>1 DEF Busy
  <2>. QED
    BY <2>1, <2>2 DEF InService
<1>4. Served' = Served
  BY DEF Served
<1>5. Cardinality(InService) < Cardinality(Worker)
  BY ServiceHasRoom
<1>6. InService' = InService \union {Head(Line)} /\ server' = "up"
  BY <1>1, <1>3
<1>. QED
  BY <1>1, <1>2, <1>4, <1>5, <1>6, HeadStarts

LEMMA CloseFinishes ==
    ASSUME IInv, OwnerInv, server = "up", NEW w \in Worker, Serving(w),
           CloseAndReturn(w)
    PROVE  \E c \in Conn : Service!Finish(c)
<1>. DEFINE fd == clientFd[w]
            c == connOf[fd]
<1>. USE CloseFacts
<1>1. c \in Conn /\ c \in InService /\ HasWorker(fd)
  BY DEF InService, Busy, Serving, HasWorker
<1>2. Line' = Line
  <2>1. \A i \in 1..Len(queue) : queue[i] \in Fd /\ queue[i] # fd
    BY <1>1, LineType DEF OwnerInv, OwnedOnce, HasQueue
  <2>2. \A i \in 1..Len(queue) : connOf'[queue[i]] = connOf[queue[i]]
    BY <2>1
  <2>. QED
    BY <2>2 DEF Line
<1>3. InService' = InService \ {c}
  <2>1. Busy' = Busy \ {w} /\ w \in Busy
    BY DEF Busy, Serving
  <2>2. \A v \in Busy \ {w} : /\ clientFd[v] \in Fd
                               /\ clientFd[v] # fd
                               /\ HasWorker(clientFd[v])
    BY DEF Busy, Serving, HasWorker, OwnerInv, Owned, OwnedOnce
  <2>3. \A v \in Busy \ {w} : /\ connOf'[clientFd'[v]] = connOf[clientFd[v]]
                               /\ connOf[clientFd[v]] # c
    BY <2>2 DEF OwnerInv, Owned, Connected
  <2>. QED
    BY <2>1, <2>3 DEF InService
<1>4. Served' = Served \union {c}
  BY <1>1 DEF Served
<1>5. Service!Finish(c)
  BY <1>1, <1>2, <1>3, <1>4 DEF Service!Finish, Line, InService, Served
<1>. QED
  BY <1>1, <1>5 DEF Service!Finish

LEMMA EndStops ==
    ASSUME server = "up", NEW how \in {"exited", "aborted"}, EndProcess(how)
    PROVE  Service!Stop
BY DEF EndProcess, Service!Stop, Busy

\* Every step of the pool is a step of PoolService or leaves its state alone.
LEMMA NextImplementsService ==
    ASSUME IInv, OwnerInv, [Next]_vars
    PROVE  [Service!Next]_(Service!vars)
<1>0. wpc \in [Worker -> {"lock", "check", "wait", "waiting", "relock",
                           "leave", "auth", "cmd", "exited"}]
  BY DEF IInv, TypeOK
<1>1. CASE UNCHANGED vars
  BY <1>1 DEF vars, poolVars, mainVars, workerVars, netVars, Service!vars, Busy
<1>2. CASE server = "up" /\ \E how \in {"exited", "aborted"} : EndProcess(how)
  BY <1>2, EndStops DEF Service!Next
<1>3. CASE server = "up" /\ MainThread
  <2>1. CASE MainListen \/ AcceptFails \/ MainLock \/ MainExitEvent \/ MainExitLock
    <3>1. UNCHANGED <<server, queue, wpc, clientFd, connOf, conn>>
      BY <2>1 DEF MainListen, AcceptFails, MainLock, MainExitEvent, MainExitLock,
                  vars, poolVars, mainVars, workerVars, netVars
    <3>. QED
      BY <1>3, <3>1, ServiceStutters DEF Line, InService, Served, Busy
  <2>2. CASE MainSignal \/ MainBroadcast
    <3>1. UNCHANGED <<server, queue, clientFd, connOf, conn>>
      BY <2>2 DEF MainSignal, MainBroadcast, netVars
    <3>2. Busy' = Busy
      <4>1. CASE MainSignal
        BY <4>1, <1>0 DEF MainSignal, WakeOne, Goto, Sleeping, Busy
      <4>2. CASE MainBroadcast
        BY <4>2, <1>0 DEF MainBroadcast, WakeAll, Sleeping, Busy
      <4>. QED
        BY <2>2, <4>1, <4>2
    <3>. QED
      BY <1>3, <3>1, <3>2, ServiceStutters DEF Line, InService, Served
  <2>3. CASE MainAccept
    <3>1. UNCHANGED <<server, queue, wpc, clientFd, conn>>
      BY <2>3 DEF MainAccept, poolVars, workerVars
    <3>2. PICK fd \in Fd : /\ connOf[fd] = None
                           /\ connOf' = [connOf EXCEPT ![fd] = Head(backlog)]
      BY <2>3 DEF MainAccept, FreeFds
    <3>3. \A f \in Fd : connOf[f] # None => connOf'[f] = connOf[f]
      BY <3>2 DEF IInv, TypeOK
    <3>4. Line' = Line
      BY <1>3, <3>1, <3>3, LineType DEF Line
    <3>5. \A w \in Busy : clientFd[w] \in Fd /\ connOf[clientFd[w]] # None
      BY <1>3 DEF Busy, Serving, HasWorker, OwnerInv, Owned
    <3>6. InService' = InService /\ Served' = Served
      BY <3>1, <3>3, <3>5 DEF InService, Served, Busy
    <3>. QED
      BY <1>3, <3>1, <3>4, <3>6, ServiceStutters
  <2>4. CASE MainPush
    BY <2>4, <1>3, PushAdmits DEF Service!Next
  <2>5. CASE BootFails \/ PushOutOfMemory \/ MainJoin
    BY <2>5, <1>3, <1>2 DEF BootFails, PushOutOfMemory, MainJoin
  <2>. QED
    BY <1>3, <2>1, <2>2, <2>3, <2>4, <2>5 DEF MainThread
<1>4. ASSUME server = "up", NEW w \in Worker, WorkerThread(w)
      PROVE  [Service!Next]_(Service!vars)
  <2>1. CASE WorkerLock(w) \/ WorkerEntersWait(w) \/ WorkerWait(w)
             \/ SpuriousWakeup(w) \/ WorkerRelock(w)
             \/ WorkerLeaveLoop(w) \/ WorkerExit(w) \/ Authenticated(w)
    <3>1. UNCHANGED <<server, queue, clientFd, connOf, conn>>
      BY <2>1 DEF WorkerLock, WorkerEntersWait, WorkerWait, SpuriousWakeup, WorkerRelock,
                  WorkerLeaveLoop, WorkerExit, Authenticated,
                  poolVars, mainVars, netVars
    <3>2. Busy' = Busy
      BY <2>1, <1>0
         DEF WorkerLock, WorkerEntersWait, WorkerWait, SpuriousWakeup, WorkerRelock,
             WorkerLeaveLoop, WorkerExit, Authenticated, AfterWait, Goto, Busy
    <3>. QED
      BY <1>4, <3>1, <3>2, ServiceStutters DEF Line, InService, Served
  <2>2. CASE WorkerPop(w)
    BY <2>2, <1>4, PopStarts DEF Service!Next
  <2>3. CASE SessionEnds(w) \/ SessionFails(w)
    <3>1. \E c \in Conn : Service!Finish(c)
      BY <2>3, <1>4, CloseFinishes DEF SessionEnds, SessionFails, Busy, Serving
    <3>. QED
      BY <3>1 DEF Service!Next
  <2>4. CASE HandlerExits(w)
    BY <2>4, <1>4, <1>2 DEF HandlerExits
  <2>. QED
    BY <1>4, <2>1, <2>2, <2>3, <2>4 DEF WorkerThread
<1>5. ASSUME server = "up", NEW c \in Conn, Connect(c)
      PROVE  [Service!Next]_(Service!vars)
  <2>1. /\ UNCHANGED <<server, queue, wpc, clientFd, connOf>>
        /\ conn[c] = "idle" /\ conn' = [conn EXCEPT ![c] = "connected"]
    BY <1>5 DEF Connect, poolVars, mainVars, workerVars
  <2>2. Served' = Served
    BY <2>1 DEF Served, IInv, TypeOK
  <2>. QED
    BY <1>5, <2>1, <2>2, ServiceStutters DEF Line, InService, Busy
<1>6. CASE server = "up" /\ (ParentDies \/ \E c \in Conn : Leave(c))
  <2>1. UNCHANGED <<server, queue, wpc, clientFd, connOf, conn>>
    BY <1>6 DEF ParentDies, Leave, poolVars, mainVars, workerVars, netVars
  <2>. QED
    BY <1>6, <2>1, ServiceStutters DEF Line, InService, Served, Busy
<1>. QED
  BY <1>1, <1>3, <1>4, <1>5, <1>6 DEF Next

\* Clients are served in the order in which their descriptors were pushed, each
\* once and by one worker, at most one per worker at a time.
THEOREM PoolImplementsService == Spec => ImplementsService
<1>1. Init => Service!Init
  BY DEF Init, Service!Init, Busy
<1>. QED
  BY <1>1, NextImplementsService, OwnerInductive, PTL
     DEF Spec, ImplementsService, Service!Spec
=============================================================================
