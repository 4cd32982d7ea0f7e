---------------------------- MODULE PoolService -----------------------------
(***************************************************************************)
(* What the server promises a client that gets connected: connections are  *)
(* served in the order in which they were admitted, each by one worker, at *)
(* most once, and never more at a time than there are workers.  ThreadPool *)
(* implements this specification.                                          *)
(***************************************************************************)
EXTENDS Integers, Sequences, FiniteSets

CONSTANTS
    Conn,   \* connections
    Slots   \* how many can be served at a time

VARIABLES
    waiting,    \* admitted, not yet served: oldest first
    serving,    \* being served
    served,     \* no longer served
    down        \* the server process has ended

vars == <<waiting, serving, served, down>>

Queued == {waiting[i] : i \in 1..Len(waiting)}

Init ==
    /\ waiting = <<>>
    /\ serving = {}
    /\ served = {}
    /\ down = FALSE

Admit(c) ==
    /\ ~down
    /\ c \notin Queued \union serving \union served
    /\ waiting' = Append(waiting, c)
    /\ UNCHANGED <<serving, served, down>>

Start ==
    /\ ~down
    /\ waiting # <<>>
    /\ Cardinality(serving) < Slots
    /\ serving' = serving \union {Head(waiting)}
    /\ waiting' = Tail(waiting)
    /\ UNCHANGED <<served, down>>

Finish(c) ==
    /\ ~down
    /\ c \in serving
    /\ serving' = serving \ {c}
    /\ served' = served \union {c}
    /\ UNCHANGED <<waiting, down>>

\* The process ends, by its shutdown or by exit(1): nobody is waiting or
\* served any more.
Stop ==
    /\ ~down
    /\ down' = TRUE
    /\ waiting' = <<>>
    /\ serving' = {}
    /\ UNCHANGED served

Next ==
    \/ \E c \in Conn : Admit(c) \/ Finish(c)
    \/ Start
    \/ Stop

Spec == Init /\ [][Next]_vars
=============================================================================
