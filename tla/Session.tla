------------------------------- MODULE Session -------------------------------
(***************************************************************************)
(* The session of one authenticated client with the worker that serves it: *)
(* the client's event loop and commands (client.c, fileOpt.c, cmdOpt.c)    *)
(* against the worker's loop and commands (clientHandle.c, recvCmd.c,      *)
(* cmdHandle.c), over the two directions of one TCP connection.            *)
(*                                                                         *)
(* The client sends whole frames, and the server reads frame by frame:     *)
(* toServer is a sequence of frames.  The client may read anything from    *)
(* the first byte on, so toClient is a sequence of units: a cmdSignal_t    *)
(* header is two units, its message three - no multiple of the header, as  *)
(* in the code (16 and 26 or 30 bytes) - and a train_t a length and data.  *)
(* Once a side takes one kind of bytes for another its state is "garbled"  *)
(* and what it does next is not modelled beyond how it can end.            *)
(***************************************************************************)
EXTENDS Integers, Sequences

CONSTANT MaxTyped   \* commands the user types (bound)

ASSUME SessionAssumption == MaxTyped \in Nat

VARIABLES
    client,     \* where the client is
    server,     \* where the worker is
    typed,      \* commands sent so far; the last one is being executed
    toServer,   \* frames on their way to the server
    toClient,   \* units on their way to the client
    report,     \* what recvSignal printed last: "none", "result", "closed"
    silent      \* history variable: the last command served sent no signal

vars == <<client, server, typed, toServer, toClient, report, silent>>

Code == {"cd", "ls", "pwd", "rm", "put", "get", "mkdir"}
Command == [code : Code, arg : BOOLEAN]
NameFrame == [code : {"name"}, arg : {TRUE}]

Signal == <<"sig1", "sig2">>
Message == <<"msg", "msg", "msg">>
NameTrain == <<"nlen", "name">>
SizeTrain(size) == <<"slen", size>>

Unit == {"sig1", "sig2", "msg", "nlen", "name", "slen", "zero", "some"}

Init ==
    /\ client = "prompt"
    /\ server = "idle"
    /\ typed = <<>>
    /\ toServer = <<>>
    /\ toClient = <<>>
    /\ report = "none"
    /\ silent = FALSE

Ended == server \in {"closed", "aborted"}

\* The connection is closed and every byte of the server has been read.
ClientEof == Ended /\ toClient = <<>>
ServerEof == client = "exited" /\ toServer = <<>>

Send(frame) == toServer' = Append(toServer, frame)
Take(n) == toClient' = SubSeq(toClient, n + 1, Len(toClient))

-----------------------------------------------------------------------------
(* The client. *)

\* cmdVeri: the test meant for the commands 4 to 7 looks at argFlag_, which is
\* 0 or 1, so that only pwd is checked.
cmdVeri(cmd) == cmd.code = "pwd" => ~cmd.arg

\* What the client waits for once it has sent the command.
AfterSending(cmd) ==
    CASE cmd.code \in {"cd", "ls", "pwd"} -> "signal"
      [] cmd.code \in {"rm", "mkdir"} /\ cmd.arg -> "signal"
      [] cmd.code = "get" /\ cmd.arg -> "getName"
      [] cmd.code = "put" /\ cmd.arg -> "putName"
      [] OTHER -> "prompt"

TypeCommand ==
    /\ client = "prompt"
    /\ Len(typed) < MaxTyped
    /\ \E cmd \in Command :
        /\ cmdVeri(cmd)
        /\ Send(cmd)
        /\ typed' = Append(typed, cmd)
        /\ client' = AfterSending(cmd)
    /\ UNCHANGED <<server, toClient, report, silent>>

\* Standard input is at its end.
Quit ==
    /\ client = "prompt"
    /\ client' = "exited"
    /\ UNCHANGED <<server, typed, toServer, toClient, report, silent>>

\* handle_socket_event prints whatever has arrived.
PrintArrived ==
    /\ client = "prompt"
    /\ \E n \in 1..Len(toClient) : Take(n)
    /\ UNCHANGED <<client, server, typed, toServer, report, silent>>

ServerLeft ==
    /\ client = "prompt"
    /\ ClientEof
    /\ client' = "exited"
    /\ UNCHANGED <<server, typed, toServer, toClient, report, silent>>

\* recvSignal gets a header: recvn returns 0, which recvSignal takes for a
\* closed connection; the message stays in the stream.
RecvSignal ==
    /\ client = "signal"
    /\ Len(toClient) >= Len(Signal)
    /\ Take(Len(Signal))
    /\ report' = "closed"
    /\ client' = "prompt"
    /\ UNCHANGED <<server, typed, toServer, silent>>

\* recvn meets end of file and returns 1: recvSignal goes on with an empty
\* header and prints an empty result.
RecvSignalAtEof ==
    /\ client = "signal"
    /\ Ended /\ Len(toClient) < Len(Signal)
    /\ toClient' = <<>>
    /\ report' = "result"
    /\ client' = "prompt"
    /\ UNCHANGED <<server, typed, toServer, silent>>

\* Mutant: the file is opened before the name is sent, and a failure is
\* reported instead of ending the client.
PutReportsAndReturns ==
    /\ client = "putName"
    /\ client' = "prompt"
    /\ UNCHANGED <<server, typed, toServer, toClient, report, silent>>

\* putFile sends the name, opens the command code instead of the path, and
\* exits because that fails.
PutNameAndExit ==
    /\ client = "putName"
    /\ Send([code |-> "name", arg |-> TRUE])
    /\ client' = "exited"
    /\ UNCHANGED <<server, typed, toClient, report, silent>>

\* The server has ended and the command was already answered by a reset.
PutSendFails ==
    /\ client = "putName"
    /\ Ended
    /\ client' = "prompt"
    /\ UNCHANGED <<server, typed, toServer, toClient, report, silent>>

GetName ==
    /\ client = "getName"
    /\ Len(toClient) >= 2 /\ Head(toClient) = "nlen"
    /\ Take(2)
    /\ client' = "getSize"
    /\ UNCHANGED <<server, typed, toServer, report, silent>>

\* The local file cannot be created, or it is empty and mmap fails: exit.
GetSizeAndExit ==
    /\ client = "getSize"
    /\ Len(toClient) >= 2
    /\ Take(2)
    /\ client' = "exited"
    /\ UNCHANGED <<server, typed, toServer, report, silent>>

GetSize ==
    /\ client = "getSize"
    /\ Len(toClient) >= 2 /\ toClient[2] = "some"
    /\ Take(2)
    /\ client' = "getContent"
    /\ UNCHANGED <<server, typed, toServer, report, silent>>

\* The content never comes; recvn returns when the connection is closed.
GetContentAtEof ==
    /\ client = "getContent"
    /\ ClientEof
    /\ client' = "signal"
    /\ UNCHANGED <<server, typed, toServer, toClient, report, silent>>

\* getFile reads left-over bytes, or uninitialised memory at end of file, as a
\* length.
GetGarbled ==
    /\ \/ client = "getName" /\ toClient # <<>> /\ Head(toClient) # "nlen"
       \/ client \in {"getName", "getSize"} /\ ClientEof
    /\ client' = "garbled"
    /\ UNCHANGED <<server, typed, toServer, toClient, report, silent>>

\* A client out of step is ended, by itself or by its user.
GarbledClientEnds ==
    /\ client = "garbled"
    /\ client' = "exited"
    /\ UNCHANGED <<server, typed, toServer, toClient, report, silent>>

-----------------------------------------------------------------------------
(* The worker. *)

Receive(cmd) ==
    /\ server = "idle"
    /\ toServer # <<>>
    /\ Head(toServer) = cmd
    /\ toServer' = Tail(toServer)

\* Mutant: the other commands answer like mkdir, to the client as it is.
ServeWithResult ==
    /\ \E cmd \in Command :
        /\ cmd.code \in {"cd", "ls", "pwd", "rm"}
        /\ Receive(cmd)
    /\ toClient' = toClient \o Signal \o Message
    /\ silent' = FALSE
    /\ UNCHANGED <<client, server, typed, report>>

\* changeDir, listDir, printWorkingDir and removeFile send nothing.
ServeSilently ==
    /\ \E cmd \in Command :
        /\ cmd.code \in {"cd", "ls", "pwd", "rm"}
        /\ Receive(cmd)
    /\ silent' = TRUE
    /\ UNCHANGED <<client, server, typed, toClient, report>>

\* Mutant: no signal when mkdir fails.
MkdirRepliesOnSuccess ==
    /\ \E cmd \in Command : cmd.code = "mkdir" /\ Receive(cmd)
    /\ toClient' \in {toClient, toClient \o Signal}
    /\ server' = IF toClient' = toClient THEN "idle" ELSE "message"
    /\ silent' = FALSE
    /\ UNCHANGED <<client, typed, report>>

\* mkdir succeeds or fails; either way a signal is sent, header first.
MkdirReplies ==
    /\ \E cmd \in Command : cmd.code = "mkdir" /\ Receive(cmd)
    /\ toClient' = toClient \o Signal
    /\ server' = "message"
    /\ silent' = FALSE
    /\ UNCHANGED <<client, typed, report>>

\* Mutant: the terminating NUL is sent too.
SendMessageAndNul ==
    /\ server = "message"
    /\ toClient' = toClient \o Message \o <<"nul">>
    /\ server' = "idle"
    /\ UNCHANGED <<client, typed, toServer, report, silent>>

SendMessage ==
    /\ server = "message"
    /\ toClient' = toClient \o Message
    /\ server' = "idle"
    /\ UNCHANGED <<client, typed, toServer, report, silent>>

\* The full path does not fit: makeDir returns without a signal.
MkdirPathTooLong ==
    /\ \E cmd \in Command : cmd.code = "mkdir" /\ Receive(cmd)
    /\ silent' = TRUE
    /\ UNCHANGED <<client, server, typed, toClient, report>>

\* Mutant: an upload that the server does not want ends at once.
StartPutRefuses ==
    /\ \E cmd \in Command : cmd.code = "put" /\ Receive(cmd)
    /\ server' \in {"putName", "idle"}
    /\ silent' = TRUE
    /\ UNCHANGED <<client, typed, toClient, report>>

StartPut ==
    /\ \E cmd \in Command : cmd.code = "put" /\ Receive(cmd)
    /\ server' = "putName"
    /\ silent' = TRUE
    /\ UNCHANGED <<client, typed, toClient, report>>

PutName ==
    /\ server = "putName"
    /\ toServer # <<>>
    /\ server' = IF Head(toServer) \in NameFrame THEN "putSize" ELSE "garbled"
    /\ toServer' = Tail(toServer)
    /\ UNCHANGED <<client, typed, toClient, report, silent>>

\* The client has gone: recvn's result is ignored, name and size are what the
\* stack holds.  open or mmap fails and the process exits, or the command ends.
\* Mutants: recvn's result is heeded and the reading tried again; the whole
\* command is.
PutWaitsAtEof ==
    /\ server \in {"putName", "putSize"}
    /\ ServerEof
    /\ UNCHANGED vars

PutRetriesAtEof ==
    /\ server \in {"putName", "putSize"}
    /\ ServerEof
    /\ server' \in {"aborted", "putName"}
    /\ UNCHANGED <<client, typed, toServer, toClient, report, silent>>

PutAtEof ==
    /\ server \in {"putName", "putSize"}
    /\ ServerEof
    /\ server' \in {"aborted", "idle"}
    /\ UNCHANGED <<client, typed, toServer, toClient, report, silent>>

StartGet ==
    /\ \E cmd \in Command :
        /\ cmd.code = "get" /\ Receive(cmd)
        /\ server' = IF cmd.arg THEN "getOpen" ELSE "getNoFile"
    /\ toClient' = toClient \o NameTrain
    /\ silent' = TRUE
    /\ UNCHANGED <<client, typed, report>>

\* The size is sent, the content is not.
GetSendSize ==
    /\ server = "getOpen"
    /\ \E size \in {"zero", "some"} : toClient' = toClient \o SizeTrain(size)
    /\ server' = "idle"
    /\ UNCHANGED <<client, typed, toServer, report, silent>>

\* The client has gone: the name, or the size, cannot be sent.
GetSendFails ==
    /\ client = "exited"
    /\ \/ \E cmd \in Command : cmd.code = "get" /\ Receive(cmd)
       \/ server = "getOpen" /\ toServer' = toServer
    /\ server' = "idle"
    /\ silent' = TRUE
    /\ UNCHANGED <<client, typed, toClient, report>>

\* No such file, or no name: ERROR_CHECK exits.
GetOpenFails ==
    /\ server \in {"getOpen", "getNoFile"}
    /\ server' = "aborted"
    /\ UNCHANGED <<client, typed, toServer, toClient, report, silent>>

ClientLeft ==
    /\ server = "idle"
    /\ ServerEof
    /\ server' = "closed"
    /\ UNCHANGED <<client, typed, toServer, toClient, report, silent>>

\* A worker out of step ends with its connection or takes the process with it.
GarbledWorkerEnds ==
    /\ server = "garbled"
    /\ \/ server' = "aborted"
       \/ client = "exited" /\ server' = "closed"
    /\ UNCHANGED <<client, typed, toServer, toClient, report, silent>>

\* A client that ends with bytes unread resets the connection: frames the
\* worker has not read are lost.
ResetDropsFrames ==
    /\ client = "exited" /\ toClient # <<>>
    /\ toServer # <<>>
    /\ toServer' = <<>>
    /\ UNCHANGED <<client, server, typed, toClient, report, silent>>

\* The command of another client ends the process.
OtherSessionAborts ==
    /\ ~Ended
    /\ server' = "aborted"
    /\ UNCHANGED <<client, typed, toServer, toClient, report, silent>>

-----------------------------------------------------------------------------
\* handle_stdin_event and handle_socket_event as the client's loop runs them,
\* and what the commands it is in do.
ClientStep ==
    \/ PrintArrived \/ ServerLeft
    \/ RecvSignal \/ RecvSignalAtEof
    \/ PutNameAndExit \/ PutSendFails
    \/ GetName \/ GetSize \/ GetSizeAndExit \/ GetContentAtEof
    \/ GetGarbled \/ GarbledClientEnds

\* cmdParse and the commands; none of them runs once the session is over.
WorkerStep ==
    \/ ServeSilently
    \/ MkdirReplies \/ SendMessage \/ MkdirPathTooLong
    \/ StartPut \/ PutName \/ PutAtEof
    \/ StartGet \/ GetSendSize \/ GetSendFails \/ GetOpenFails
    \/ ClientLeft

Next ==
    \/ TypeCommand \/ Quit
    \/ ClientStep
    \/ WorkerStep
    \/ GarbledWorkerEnds
    \/ ResetDropsFrames
    \/ OtherSessionAborts

Spec == Init /\ [][Next]_vars

(***************************************************************************)
(* Fairness: client and worker run on.  Nothing is assumed of the user, of *)
(* other sessions, or of a worker out of step while its client is there.   *)
(***************************************************************************)
FairSpec ==
    /\ Spec
    /\ WF_vars(ClientStep) /\ WF_vars(WorkerStep)
    /\ WF_vars(client = "exited" /\ GarbledWorkerEnds)

-----------------------------------------------------------------------------
(* Properties. *)

\* Every variable keeps its type; what is in the streams are frames and units
\* that the two programs send.
TypeOK ==
    /\ client \in {"prompt", "signal", "putName", "getName", "getSize",
                   "getContent", "garbled", "exited"}
    /\ server \in {"idle", "message", "putName", "putSize", "getOpen",
                   "getNoFile", "garbled", "closed", "aborted"}
    /\ typed \in Seq(Command) /\ Len(typed) <= MaxTyped
    /\ toServer \in Seq(Command \union NameFrame)
    /\ toClient \in Seq(Unit)
    /\ report \in {"none", "result", "closed"}
    /\ silent \in BOOLEAN

Bare(code) == [code |-> code, arg |-> FALSE]

\* The worker takes bytes for something they are not only after a put without
\* an argument, which cmdVeri lets pass and for which the client sends no name
\* (cmdOpt.c:72-79, fileOpt.c:160-164, cmdHandle.c:146-155): whatever else is
\* typed, and however fast, the frames it reads are those it expects.
GarbledWorkerNeedsBarePut ==
    server = "garbled" => \E i \in 1..Len(typed) : typed[i] = Bare("put")

\* A worker that has not done so finds commands only in its command loop: the name
\* of an upload is never left for it, whatever is typed and wherever either side
\* gives up (recvCmd.c:7-21, clientHandle.c:98-125, cmdHandle.c:146-157).
LoopFindsCommands ==
    server = "idle" /\ toServer # <<>> => Head(toServer) \in Command

\* The client's get takes bytes for something they are not only if the server
\* has ended, or if an earlier command has left bytes unread: a mkdir, whose
\* message recvSignal never reads, or a get without an argument, to which the
\* server sends an empty name (fileOpt.c:72-84, fileOpt.c:199-219).
GarbledClientNeedsLeftOver ==
    client = "garbled" =>
        \/ Ended
        \/ \E i \in 1..Len(typed) - 1 :
               typed[i].code = "mkdir" \/ typed[i] = Bare("get")

Quiet == server = "idle" /\ toServer = <<>>

\* The client waits for bytes that are not there.
ClientWaits ==
    \/ client = "signal" /\ Len(toClient) < Len(Signal)
    \/ client = "getContent"

\* When client and worker wait for each other, the last command served was one
\* that sends no signal or, as every get, no content: a mkdir whose path fits is
\* always answered, whatever was left in the stream before (fileOpt.c:72-111,
\* fileOpt.c:228-231, cmdHandle.c:210-211, cmdHandle.c:228-250).
StuckOnlyOnSilence == ClientWaits /\ Quiet => silent

\* Once the client is gone, by quitting or by its own exit, the worker's
\* session ends, in whatever command it is (clientHandle.c:75-134); ThreadPool
\* relies on it.
WorkerSeesClientLeave == client = "exited" ~> Ended

\* How many steps a worker whose client has gone may still take.
StepsLeft ==
    3 * Len(toServer)
    + (CASE server = "putName" -> 3
         [] server \in {"message", "putSize", "getOpen", "getNoFile", "garbled"} -> 2
         [] server = "idle" -> 1
         [] Ended -> 0)

\* Once the client is gone nothing goes round in circles: every step, of
\* whatever command, brings the session nearer to its end, however many
\* commands are still under way (clientHandle.c:75-134).
SessionWindsDown == [][client = "exited" => StepsLeft' < StepsLeft]_vars

\* What fileOpt.c:117 and the same comment in the other commands say: the
\* client waits for the result of the command, which the server returns.
CommandIsAnswered == client = "signal" ~> client # "signal"

\* What recvSignal prints (fileOpt.c:77-80): that the server has closed the
\* connection is reported only when it has.
ClosedMeansClosed == report = "closed" => Ended
=============================================================================
