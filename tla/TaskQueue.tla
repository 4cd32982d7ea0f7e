----------------------------- MODULE TaskQueue ------------------------------
(***************************************************************************)
(* The server's task queue (taskQueue.c): a singly linked list of malloc'd *)
(* nodes with a head pointer, a tail pointer and a size.  Every call runs  *)
(* under the thread pool's mutex, so a call is one step.                   *)
(*                                                                         *)
(* The heap is explicit because the list relies on memory it never         *)
(* initialises: taskQueuePush leaves Pnext_ of the new node as malloc      *)
(* returned it, so taskQueuePop of a one-element list moves garbage into   *)
(* phead_.  malloc hands out any free node with arbitrary contents, and    *)
(* free leaves arbitrary contents behind.                                  *)
(***************************************************************************)
EXTENDS Integers, Sequences, FiniteSets

CONSTANTS
    Node,   \* addresses malloc can return
    Null,   \* the NULL pointer
    Fd,     \* client descriptors
    NoFd    \* "no descriptor read yet"

ASSUME NullAssumption == Null \notin Node

VARIABLES
    queueSize_, phead_, ptail_,   \* TaskQueue_t
    heap,       \* contents of every node, allocated or not
    allocated,  \* nodes malloc'd and not yet freed
    clientFd,   \* what the worker read from phead_->netFd
    ret,        \* what the last call returned
    running,    \* FALSE once a failed malloc has ended the process
    order       \* history variable: the nodes in the list, oldest first

listVars == <<queueSize_, phead_, ptail_, heap, allocated, order>>
vars == <<listVars, clientFd, ret, running>>

Ptr == Node \union {Null}
node_t == [netFd : Fd, Pnext_ : Ptr]

-----------------------------------------------------------------------------
taskQueueInit ==
    /\ queueSize_ = 0
    /\ phead_ = Null
    /\ ptail_ = Null

Init ==
    /\ taskQueueInit
    /\ heap \in [Node -> node_t]
    /\ allocated = {}
    /\ clientFd = NoFd
    /\ ret = 0
    /\ running = TRUE
    /\ order = <<>>

\* taskQueuePush and taskQueuePop decide by the size, never by the pointers.
IsEmptyByHead == phead_ = Null  \* mutant: test the head pointer instead
IsEmpty == queueSize_ = 0

\* free(pCur): the node may be handed out again, its contents are lost.
FreeNothing(node) == allocated' = allocated  \* mutant: the node is leaked
Free(node) == allocated' = allocated \ {node}

\* The worker reads the head's descriptor before it pops the node.
HeadFdAfterPop == heap'[phead_].netFd  \* mutant: read and pop swapped
HeadFd == heap[phead_].netFd

\* A new node is linked behind the tail, or becomes head and tail of an
\* empty list.
Link(newNode, contents) ==
    /\ IF IsEmpty
         THEN /\ phead_' = newNode
              /\ heap' = [heap EXCEPT ![newNode] = contents]
         ELSE /\ heap' = [heap EXCEPT ![newNode] = contents,
                                      ![ptail_].Pnext_ = newNode]
              /\ UNCHANGED phead_
    /\ ptail_' = newNode
    /\ queueSize_' = queueSize_ + 1
    /\ order' = Append(order, newNode)

\* malloc returns any free node, and its Pnext_ stays what it was (junk).
taskQueuePush(netFd) ==
    \E newNode \in Node \ allocated, junk \in Ptr :
        /\ allocated' = allocated \union {newNode}
        /\ Link(newNode, [netFd |-> netFd, Pnext_ |-> junk])
        /\ ret' = 0
        /\ UNCHANGED <<clientFd, running>>

\* malloc returned NULL: ERROR_CHECK ends the process.
PushOutOfMemory ==
    /\ running' = FALSE
    /\ UNCHANGED <<listVars, clientFd, ret>>

\* The early return of taskQueuePop.
PopUnderflows ==  \* mutant: the early return is missing
    /\ IsEmpty
    /\ queueSize_' = queueSize_ - 1
    /\ ret' = 0
    /\ UNCHANGED <<phead_, ptail_, heap, allocated, order, clientFd, running>>

PopEmpty ==
    /\ IsEmpty
    /\ ret' = -1
    /\ UNCHANGED <<listVars, clientFd, running>>

\* A worker reads the head's descriptor and pops the node.
taskQueuePop ==
    /\ ~IsEmpty
    /\ \E junk \in node_t : heap' = [heap EXCEPT ![phead_] = junk]
    /\ clientFd' = HeadFd
    /\ phead_' = heap[phead_].Pnext_
    /\ ptail_' = IF queueSize_ = 1 THEN Null ELSE ptail_
    /\ Free(phead_)
    /\ queueSize_' = queueSize_ - 1
    /\ order' = Tail(order)
    /\ ret' = 0
    /\ UNCHANGED running

Next ==
    /\ running
    /\ \/ \E netFd \in Fd : taskQueuePush(netFd)
       \/ PushOutOfMemory
       \/ PopEmpty
       \/ taskQueuePop

Spec == Init /\ [][Next]_vars

-----------------------------------------------------------------------------
TypeOK ==
    /\ queueSize_ \in Nat
    /\ phead_ \in Ptr
    /\ ptail_ \in Ptr
    /\ heap \in [Node -> node_t]
    /\ allocated \in SUBSET Node
    /\ clientFd \in Fd \union {NoFd}
    /\ ret \in {0, -1}
    /\ running \in BOOLEAN
    /\ order \in Seq(Node)

\* The nodes of the list are distinct, and they are exactly the allocated
\* ones: no node is leaked, freed twice or linked twice.
NoLeak ==
    /\ allocated = {order[i] : i \in 1..Len(order)}
    /\ \A i, j \in 1..Len(order) : order[i] = order[j] => i = j

\* Whenever the list is not empty its pointers are sound: the head and the
\* tail are its first and last node, and every node but the last points to
\* the next one.  When it is empty, phead_ may be garbage (taskQueue.c:42
\* copies an uninitialised Pnext_) and nothing is said about it.
ListShape ==
    /\ queueSize_ = Len(order)
    /\ queueSize_ > 0 => /\ phead_ = order[1]
                         /\ ptail_ = order[queueSize_]
    /\ \A i \in 1..Len(order) - 1 : heap[order[i]].Pnext_ = order[i + 1]

\* The linked list implements the FIFO queue: no descriptor is lost,
\* duplicated, reordered or replaced by garbage on its way from the main
\* thread to a worker.
Contents == [i \in 1..Len(order) |-> heap[order[i]].netFd]

Fifo == INSTANCE FifoQueue WITH queue <- Contents, taken <- clientFd

ImplementsFifo == Fifo!Spec
=============================================================================
