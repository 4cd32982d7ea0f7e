----------------------------- MODULE FifoQueue ------------------------------
(***************************************************************************)
(* What the server's task queue promises its callers: a FIFO queue of      *)
(* client descriptors.  The main thread appends a descriptor; a worker     *)
(* takes the oldest one; popping an empty queue is refused with -1.        *)
(* TaskQueue (the linked list of taskQueue.c) is shown to implement this   *)
(* specification, and ThreadPool uses its queue at this level.             *)
(***************************************************************************)
EXTENDS Integers, Sequences

CONSTANTS
    Fd,     \* client descriptors
    NoFd    \* "no descriptor taken yet"

VARIABLES
    queue,  \* descriptors waiting for a worker, oldest first
    taken,  \* the descriptor most recently handed to a worker
    ret     \* result of the last queue operation (0 or -1)

vars == <<queue, taken, ret>>

Init ==
    /\ queue = <<>>
    /\ taken = NoFd
    /\ ret = 0

Push(fd) ==
    /\ queue' = Append(queue, fd)
    /\ ret' = 0
    /\ UNCHANGED taken

Take ==
    /\ queue # <<>>
    /\ taken' = Head(queue)
    /\ queue' = Tail(queue)
    /\ ret' = 0

PopEmpty ==
    /\ queue = <<>>
    /\ ret' = -1
    /\ UNCHANGED <<queue, taken>>

Next ==
    \/ \E fd \in Fd : Push(fd)
    \/ Take
    \/ PopEmpty

Spec == Init /\ [][Next]_vars
=============================================================================
