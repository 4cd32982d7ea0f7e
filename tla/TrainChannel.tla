---------------------------- MODULE TrainChannel ----------------------------
(***************************************************************************)
(* What recvn promises its callers: trains arrive whole, in the order in   *)
(* which they were sent, none twice and none skipped, until one is cut     *)
(* short; after that no whole train comes any more.  ByteStream implements *)
(* it.                                                                     *)
(***************************************************************************)
EXTENDS Integers, Sequences

CONSTANT Sent   \* the trains, in the order of sending

VARIABLES
    received,   \* the trains received whole
    over        \* a train has been cut short

vars == <<received, over>>

Init ==
    /\ received = <<>>
    /\ over = FALSE

Receive ==
    /\ ~over
    /\ Len(received) < Len(Sent)
    /\ received' = Append(received, Sent[Len(received) + 1])
    /\ UNCHANGED over

CutShort ==
    /\ ~over
    /\ over' = TRUE
    /\ UNCHANGED received

Next == Receive \/ CutShort

Spec == Init /\ [][Next]_vars
=============================================================================
