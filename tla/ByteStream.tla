----------------------------- MODULE ByteStream -----------------------------
(***************************************************************************)
(* One direction of a connection, from sendn to recvn (clientsendMessage.c *)
(* and sendMessage.c).  The sender sends trains, a length followed by that *)
(* much data, with sendn; the receiver calls recvn for the length and then *)
(* for the data, as UserAuthen and handle_authentication do, ignoring what *)
(* the calls return.  send takes, and recv gives, any part of what it is   *)
(* asked for.                                                              *)
(*                                                                         *)
(* A unit of the stream is its number: train k consists of the units       *)
(* Start[k-1]+1 to Start[k], the first Header of which are its length.     *)
(* The two recvn differ when recv fails: the server's returns, or calls    *)
(* recv again if a signal's handler interrupted it (EINTR); the client's   *)
(* adds -1 to its position and goes on, whatever the reason.  Both sendn   *)
(* call send again after EINTR, which is no step here.                     *)
(***************************************************************************)
EXTENDS Integers, Sequences

CONSTANTS
    Trains,     \* how many trains the sender has to send
    Start,      \* where each ends and the next one starts
    Header,     \* size of train_t.length_
    Handlers,   \* the programs that install a signal handler
    Capacity    \* what the kernel buffers between the two

ASSUME StreamAssumption ==
    /\ Trains \in Nat
    /\ Header \in Nat \ {0}
    /\ Capacity \in Nat \ {0}
    /\ Handlers \subseteq {"server"}      \* not the client
    /\ Start \in [0..Trains -> Nat] /\ Start[0] = 0
    /\ \A j, k \in 0..Trains : j < k => Start[j] + Header <= Start[k]

VARIABLES
    reader,     \* whose recvn it is, "server" or "client"
    line,       \* "up", "closed", "reset", or "dead": the reset is reported
    wire,       \* units sent and not received
    sending,    \* the train sendn is called for
    sent,       \* sendn's sent
    call,       \* what recvn is called for: "header", "data" or "none"
    total,      \* recvn's total
    cursize,    \* recvn's cursize
    train,      \* the units in the caller's train_t
    short,      \* history variable: a call for this train has come back early
    received,   \* history variable: the trains received whole
    over        \* history variable: a train has been cut short

senderVars == <<sending, sent>>
resultVars == <<received, over>>
vars == <<reader, line, wire, senderVars, call, total, cursize, train, short,
          resultVars>>

Size(k) == Start[k] - Start[k - 1]
Train(k) == [i \in 1..Size(k) |-> Start[k - 1] + i]

\* The length that the units of a header stand for.  Units that are not a
\* header stand for no length in particular.
Length(header) ==
    IF \E k \in 1..Trains : Head(header) = Start[k - 1] + 1
    THEN Size(CHOOSE k \in 1..Trains : Head(header) = Start[k - 1] + 1) - Header
    ELSE 0

Init ==
    /\ reader \in {"server", "client"}
    /\ line = "up"
    /\ wire = <<>>
    /\ sending = 1 /\ sent = 0
    /\ call = "none" /\ total = 0 /\ cursize = 0
    /\ train = <<>> /\ short = FALSE
    /\ received = <<>> /\ over = FALSE

-----------------------------------------------------------------------------
(* sendn *)

\* The n units that follow the first from units of the train being sent.
UnitsFrom(from, n) == [i \in 1..n |-> Start[sending - 1] + from + i]

\* Mutant: send is given p instead of p + sent.
SendFromStart ==
    /\ line = "up"
    /\ sending <= Trains
    /\ \E n \in 1..Size(sending) - sent :
        /\ Len(wire) + n <= Capacity
        /\ wire' = wire \o UnitsFrom(0, n)
        /\ sent' = sent + n
    /\ UNCHANGED <<reader, line, sending, call, total, cursize, train, short,
                   resultVars>>

SendSome ==
    /\ line = "up"
    /\ sending <= Trains
    /\ \E n \in 1..Size(sending) - sent :
        /\ Len(wire) + n <= Capacity
        /\ wire' = wire \o UnitsFrom(sent, n)
        /\ sent' = sent + n
    /\ UNCHANGED <<reader, line, sending, call, total, cursize, train, short,
                   resultVars>>

SendnReturns ==
    /\ line = "up"
    /\ sending <= Trains /\ sent = Size(sending)
    /\ sending' = sending + 1
    /\ sent' = 0
    /\ UNCHANGED <<reader, line, wire, call, total, cursize, train, short,
                   resultVars>>

-----------------------------------------------------------------------------
(* The connection. *)

\* The sender closes its end or its process ends, maybe within sendn.
Close ==
    /\ line = "up"
    /\ line' = "closed"
    /\ UNCHANGED <<reader, wire, senderVars, call, total, cursize, train, short,
                   resultVars>>

\* The connection is reset: units that have not arrived are lost.  sendn
\* fails from now on.
Reset ==
    /\ line \in {"up", "closed"}
    /\ line' = "reset"
    /\ \E n \in 0..Len(wire) : wire' = SubSeq(wire, 1, n)
    /\ UNCHANGED <<reader, senderVars, call, total, cursize, train, short,
                   resultVars>>

-----------------------------------------------------------------------------
(* recvn *)

\* Mutant: the whole train_t's header is asked for, data included.
HeaderTotalOfStruct == Header + 1

HeaderTotal == Header

ReceiveTrain ==
    /\ call = "none"
    /\ call' = "header" /\ total' = HeaderTotal /\ cursize' = 0
    /\ train' = <<>> /\ short' = FALSE
    /\ UNCHANGED <<reader, line, wire, senderVars, resultVars>>

\* buf in the train_t: the length is at its start, the data follow it.
Offset == IF call = "header" THEN 0 ELSE Header

\* The loop condition.
More == cursize < total

\* Mutant: recv is given the size of the whole train_t.
RecvTooMuch ==
    /\ call # "none" /\ More
    /\ \E n \in 1..Len(wire) :
        /\ train' = SubSeq(train, 1, Offset + cursize) \o SubSeq(wire, 1, n)
        /\ wire' = SubSeq(wire, n + 1, Len(wire))
        /\ cursize' = cursize + n
    /\ UNCHANGED <<reader, line, senderVars, call, total, short, resultVars>>

RecvSome ==
    /\ call # "none" /\ More
    /\ \E n \in 1..Len(wire) :
        /\ n <= total - cursize
        /\ train' = SubSeq(train, 1, Offset + cursize) \o SubSeq(wire, 1, n)
        /\ wire' = SubSeq(wire, n + 1, Len(wire))
        /\ cursize' = cursize + n
    /\ UNCHANGED <<reader, line, senderVars, call, total, short, resultVars>>

\* The caller goes on: with the data, whose length is not known when the
\* header is not complete, or with the train.
Return(early) ==
    /\ short' = (short \/ early)
    /\ cursize' = 0
    /\ IF call = "header"
       THEN /\ call' = "data"
            /\ IF early THEN total' \in 0..Capacity ELSE total' = Length(train)
            /\ UNCHANGED resultVars
       ELSE /\ call' = "none"
            /\ total' = 0
            /\ received' = IF short' THEN received ELSE Append(received, train)
            /\ over' = (over \/ short')
    /\ UNCHANGED <<reader, wire, senderVars, train>>

\* Mutant: <= for < in the loop condition, so that recv is at last called for
\* nothing and returns 0.
RecvnAsksForNothing ==
    /\ call # "none" /\ ~More
    /\ Return(TRUE)
    /\ UNCHANGED line

RecvnComplete ==
    /\ call # "none" /\ ~More
    /\ Return(FALSE)
    /\ UNCHANGED line

\* recv returns 0.
RecvEof ==
    /\ call # "none" /\ More
    /\ wire = <<>> /\ line \in {"closed", "dead"}
    /\ Return(TRUE)
    /\ UNCHANGED line

\* recv returns -1 because the connection was reset, once.
RecvFails ==
    /\ call # "none" /\ More
    /\ wire = <<>> /\ line = "reset"
    /\ line' = "dead"
    /\ IF reader = "server" THEN Return(TRUE)
       ELSE /\ cursize' = cursize - 1
            /\ UNCHANGED <<reader, wire, senderVars, call, total, train, short,
                           resultVars>>

\* recv returns -1 while it waits, with EINTR.
AfterInterrupt ==
    IF reader = "server" THEN UNCHANGED vars
    ELSE /\ cursize' = cursize - 1
         /\ UNCHANGED <<reader, line, wire, senderVars, call, total, train, short,
                        resultVars>>

\* Mutant: both programs handle a signal (a timer for an idle connection, say).
RecvInterruptedAnyway ==
    /\ call # "none" /\ More
    /\ wire = <<>> /\ line = "up" /\ cursize >= 0
    /\ AfterInterrupt

RecvInterrupted ==
    /\ call # "none" /\ More
    /\ wire = <<>> /\ line = "up"
    /\ reader \in Handlers
    /\ AfterInterrupt

-----------------------------------------------------------------------------
Sender == SendSome \/ SendnReturns
Receiver ==
    \/ ReceiveTrain \/ RecvSome \/ RecvnComplete
    \/ RecvEof \/ RecvFails \/ RecvInterrupted

Next == Sender \/ Close \/ Reset \/ Receiver

Spec == Init /\ [][Next]_vars

\* Both programs run on; a connection need not break.
FairSpec == Spec /\ WF_vars(Sender) /\ WF_vars(Receiver)

-----------------------------------------------------------------------------
(* Properties. *)

\* Every variable keeps its type; recvn's position does not pass its total
\* (clientsendMessage.c:13-21, sendMessage.c:18-34).
TypeOK ==
    /\ reader \in {"server", "client"}
    /\ line \in {"up", "closed", "reset", "dead"}
    /\ wire \in Seq(Nat)
    /\ sending \in 1..Trains + 1
    /\ sent \in Nat
    /\ call \in {"none", "header", "data"}
    /\ total \in Nat
    /\ cursize \in -1..total
    /\ train \in Seq(Nat)
    /\ short \in BOOLEAN
    /\ received \in Seq(Seq(Nat))
    /\ over \in BOOLEAN

\* However the stream is cut into pieces and wherever it ends, what the
\* caller's buffer holds is the beginning of the train that is due next, never a
\* unit of another one: callers that ignore recvn's result, as UserAuthen and
\* handle_authentication do, read a shorter train (sendMessage.c:66-77,
\* encryption.c:59-61).
BufferIsBeginningOfNext ==
    call # "none" /\ train # <<>> =>
        /\ Len(received) < Trains
        /\ Len(train) <= Size(Len(received) + 1)
        /\ \A i \in 1..Len(train) : train[i] = Train(Len(received) + 1)[i]

\* The client's recvn counts a failed recv as -1, an interrupted one included
\* (clientsendMessage.c:15-20), so that its position lies before the buffer;
\* nothing is ever stored there, because without a handler for any signal only a
\* connection that has nothing more to deliver makes recv fail.
NoStoreBeforeBuffer == cursize < 0 => wire = <<>> /\ line = "dead"

Channel == INSTANCE TrainChannel WITH Sent <- [k \in 1..Trains |-> Train(k)]

\* The transfer loops of both programs implement the channel of whole trains.
ImplementsChannel == Channel!Spec

\* A train that sendn has sent completely is received, whatever the receiver
\* asks for and the kernel's buffers hold, unless the connection is reset; that
\* the sender closes its end does not matter (clientsendMessage.c:25-43).
SentIsReceived ==
    \A k \in 1..Trains :
        sending > k ~> Len(received) >= k \/ line \in {"reset", "dead"}
=============================================================================
