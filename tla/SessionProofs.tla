---------------------------- MODULE SessionProofs ----------------------------
(***************************************************************************)
(* What a session guarantees however many commands are typed and however   *)
(* fast.  While the server is there, the frames under way to it are the    *)
(* last commands typed (Backlog), so that the command the client waits for *)
(* is the last of them; the other parts of the invariant say what client   *)
(* and worker have sent each other for it.                                 *)
(***************************************************************************)
EXTENDS Session, SequenceTheorems, TLAPS

Full(code) == [code |-> code, arg |-> TRUE]

AtPrompt == {"prompt", "signal", "putName"}
Getting == {"getName", "getSize", "getContent"}
Sending == {"message", "getOpen", "getNoFile"}
Putting == {"putName", "putSize"}

Typed == Len(typed)
Pending == Len(toServer)

\* What the worker has not read are the last commands typed.
Backlog ==
    ~Ended /\ client # "exited" =>
        /\ Pending <= Typed
        /\ \A i \in 1..Pending : toServer[i] = typed[Typed - Pending + i]

\* The command that the client is in is the last one; a get that has a name
\* does not come back as long as the server is there.
InCommand ==
    ~Ended =>
        /\ client = "signal" => Typed > 0 /\ typed[Typed].code \notin {"put", "get"}
        /\ client = "putName" => Typed > 0 /\ typed[Typed] = Full("put")
        /\ client \in Getting => Typed > 0 /\ typed[Typed] = Full("get")
        /\ client \in AtPrompt => \A i \in 1..Typed : typed[i] # Full("get")
        /\ client \in Getting => \A i \in 1..Typed - 1 : typed[i] # Full("get")

\* The command that the client waits for is under way, or served; then it was
\* answered, or it was one without an answer.
Answered ==
    /\ server \in Putting \union {"getOpen", "getNoFile"} => silent
    /\ ~Ended /\ server # "garbled" =>
        /\ client = "signal" => Pending > 0 \/ silent \/ Len(toClient) >= Len(Signal)
        /\ client \in Getting => Pending > 0 \/ silent

BarePutTyped == \E i \in 1..Typed : typed[i] = Bare("put")

\* In what is under way to a worker whose client has gone, name and put come
\* together.
NamesFollowPuts ==
    /\ server = "putSize" => toServer = <<>>
    /\ server = "putName" => toServer = <<>> \/ (Pending = 1 /\ toServer[1].code = "name")
    /\ server \notin Putting =>
        \A i \in 1..Pending :
            /\ toServer[i].code = "put" => i = Pending - 1 /\ toServer[Pending].code = "name"
            /\ toServer[i].code = "name" => i = Pending /\ i > 1 /\ toServer[i - 1].code = "put"

\* As long as every put has a name, the worker reads a name where one is sent.
PutsHaveNames ==
    ~Ended /\ server # "garbled" /\ ~BarePutTyped =>
        /\ client \notin {"putName", "exited"} =>
               server \notin Putting /\ \A i \in 1..Typed : typed[i].code # "put"
        /\ client = "putName" =>
               /\ \A i \in 1..Typed - 1 : typed[i].code # "put"
               /\ server # "putSize" /\ (server = "putName" <=> toServer = <<>>)
        /\ client = "exited" => NamesFollowPuts

LeavesNothing(cmd) == cmd.code \notin {"mkdir", "get"}
LeftOver == \E i \in 1..Typed - 1 : typed[i].code = "mkdir" \/ typed[i] = Bare("get")

\* As long as no command has left anything in the stream, a get finds there what
\* the server has sent for it.
NothingLeft ==
    ~Ended /\ ~LeftOver =>
        /\ client \in AtPrompt /\ (\A i \in 1..Typed : LeavesNothing(typed[i])) =>
               toClient = <<>> /\ server \notin Sending
        /\ client = "getName" =>
               \/ toClient = <<>> /\ server \notin Sending
               \/ toServer = <<>> /\ toClient # <<>> /\ toClient[1] = "nlen"

IInv ==
    /\ TypeOK /\ Backlog /\ InCommand /\ Answered /\ PutsHaveNames /\ NothingLeft
    /\ GarbledWorkerNeedsBarePut /\ GarbledClientNeedsLeftOver

-----------------------------------------------------------------------------
(* Facts about sequences, commands and frames. *)

LEMMA HeadAndTail ==
    ASSUME NEW S, NEW s \in Seq(S), s # <<>>
    PROVE  /\ Len(s) \in Nat /\ Len(s) > 0
           /\ Head(s) = s[1] /\ s[1] \in S
           /\ Tail(s) \in Seq(S) /\ Len(Tail(s)) = Len(s) - 1
           /\ \A i \in 1..Len(s) - 1 : Tail(s)[i] = s[i + 1]
<1>1. Len(s) \in Nat /\ Len(s) > 0
  BY LenProperties, EmptySeq
<1>2. Tail(s) \in Seq(S) /\ Head(s) = s[1] /\ Len(Tail(s)) = Len(s) - 1
  BY HeadTailProperties
<1>3. \A i \in 1..Len(s) - 1 : Tail(s)[i] = s[i + 1]
  BY <1>2, HeadTailProperties
<1>4. s[1] \in S
  BY <1>1, ElementOfSeq
<1> QED
  BY <1>1, <1>2, <1>3, <1>4

LEMMA Appended ==
    ASSUME NEW S, NEW s \in Seq(S), NEW e \in S
    PROVE  /\ Len(s) \in Nat
           /\ Append(s, e) \in Seq(S) /\ Len(Append(s, e)) = Len(s) + 1
           /\ \A i \in 1..Len(s) : Append(s, e)[i] = s[i]
           /\ Append(s, e)[Len(s) + 1] = e
BY AppendProperties, LenProperties

LEMMA Elements ==
    ASSUME NEW S, NEW s \in Seq(S)
    PROVE  /\ Len(s) \in Nat /\ (Len(s) = 0 <=> s = <<>>)
           /\ \A i \in 1..Len(s) : s[i] \in S
BY LenProperties, ElementOfSeq, EmptySeq

Frame == Command \union NameFrame

\* A command is known by its code and by whether it has an argument.
LEMMA Commands ==
    /\ \A cmd \in Command :
        /\ cmd.code \in Code /\ cmd.code # "name" /\ cmd \notin NameFrame
        /\ \A code \in Code : /\ cmd = Full(code) <=> cmd.code = code /\ cmd.arg
                              /\ cmd = Bare(code) <=> cmd.code = code /\ ~cmd.arg
    /\ \A frame \in Frame : frame \in NameFrame <=> frame.code = "name"
    /\ \A frame \in NameFrame : frame.code = "name"
    /\ [code |-> "name", arg |-> TRUE] \in NameFrame
<1>1. "name" \notin Code
  BY DEF Code
<1>2. ASSUME NEW cmd \in Command
      PROVE  /\ cmd.code \in Code /\ cmd.code # "name" /\ cmd \notin NameFrame
             /\ \A code \in Code : /\ cmd = Full(code) <=> cmd.code = code /\ cmd.arg
                                   /\ cmd = Bare(code) <=> cmd.code = code /\ ~cmd.arg
  <2>1. cmd = [code |-> cmd.code, arg |-> cmd.arg] /\ cmd.code \in Code /\ cmd.arg \in BOOLEAN
    BY DEF Command
  <2>2. \A frame \in NameFrame : frame.code = "name"
    BY DEF NameFrame
  <2>3. ASSUME NEW code \in Code PROVE cmd = Full(code) <=> cmd.code = code /\ cmd.arg
    BY <2>1 DEF Full
  <2>4. ASSUME NEW code \in Code PROVE cmd = Bare(code) <=> cmd.code = code /\ ~cmd.arg
    BY <2>1 DEF Bare
  <2> QED
    BY <1>1, <2>1, <2>2, <2>3, <2>4
<1>3. \A frame \in NameFrame : frame.code = "name"
  BY DEF NameFrame
<1>4. \A frame \in Frame : frame \in NameFrame <=> frame.code = "name"
  BY <1>2, <1>3 DEF Frame
<1>5. [code |-> "name", arg |-> TRUE] \in NameFrame
  BY DEF NameFrame
<1> QED
  BY <1>2, <1>3, <1>4, <1>5

\* What the client does once it has sent a command.
LEMMA AfterSendingIs ==
    ASSUME NEW cmd \in Command
    PROVE  /\ AfterSending(cmd) \in {"signal", "getName", "putName", "prompt"}
           /\ AfterSending(cmd) = "signal" => cmd.code \notin {"put", "get"}
           /\ AfterSending(cmd) = "getName" <=> cmd.code = "get" /\ cmd.arg
           /\ AfterSending(cmd) = "putName" <=> cmd.code = "put" /\ cmd.arg
<1>1. cmd.code \in Code /\ cmd.arg \in BOOLEAN
  BY DEF Command
<1>2. CASE cmd.code \in {"cd", "ls", "pwd"}
  BY <1>2 DEF AfterSending
<1>3. CASE cmd.code \in {"rm", "mkdir"}
  BY <1>3 DEF AfterSending
<1>4. CASE cmd.code = "get"
  BY <1>4 DEF AfterSending
<1>5. CASE cmd.code = "put"
  BY <1>5 DEF AfterSending
<1> QED
  BY <1>1, <1>2, <1>3, <1>4, <1>5 DEF Code

\* The server does not come back.
LEMMA EndedStays == Next /\ Ended => Ended'
<1> SUFFICES ASSUME Next, Ended PROVE Ended'
  OBVIOUS
<1>1. server \notin {"idle", "message", "putName", "putSize", "getOpen", "getNoFile", "garbled"}
  BY DEF Ended
<1> QED
  BY <1>1 DEF Next, ClientStep, WorkerStep, TypeCommand, Quit, PrintArrived, ServerLeft,
     RecvSignal, RecvSignalAtEof, PutNameAndExit, PutSendFails, GetName, GetSize,
     GetSizeAndExit, GetContentAtEof, GetGarbled, GarbledClientEnds, ServeSilently,
     MkdirReplies, SendMessage, MkdirPathTooLong, StartPut, PutName, PutAtEof, StartGet,
     GetSendSize, GetSendFails, GetOpenFails, ClientLeft, GarbledWorkerEnds,
     ResetDropsFrames, OtherSessionAborts, Receive, Ended

-----------------------------------------------------------------------------
(* Type correctness. *)

\* What a step of the client takes from the stream, it takes from the front.
LEMMA Taken ==
    ASSUME NEW s \in Seq(Unit), NEW n \in Nat, n <= Len(s)
    PROVE  SubSeq(s, n + 1, Len(s)) \in Seq(Unit)
<1>1. Len(s) \in Nat
  BY LenProperties
<1>2. \A i \in n + 1..Len(s) : s[i] \in Unit
  BY <1>1, ElementOfSeq
<1> QED
  BY <1>1, <1>2, SubSeqProperties

LEMMA Sent ==
    /\ Signal \in Seq(Unit) /\ Message \in Seq(Unit) /\ NameTrain \in Seq(Unit)
    /\ \A size \in {"zero", "some"} : SizeTrain(size) \in Seq(Unit)
    /\ \A s, t \in Seq(Unit) : s \o t \in Seq(Unit)
<1>1. \A s, t \in Seq(Unit) : s \o t \in Seq(Unit)
  BY ConcatProperties
<1> QED
  BY <1>1 DEF Signal, Message, NameTrain, SizeTrain, Unit

LEMMA ClientTypes == TypeOK /\ ClientStep => TypeOK'
<1> SUFFICES ASSUME TypeOK, ClientStep PROVE TypeOK'
  OBVIOUS
<1>1. Len(toClient) \in Nat /\ Len(Signal) = 2
  BY LenProperties DEF TypeOK, Signal
<1>2. CASE PrintArrived
  <2>1. PICK n \in 1..Len(toClient) : toClient' = SubSeq(toClient, n + 1, Len(toClient))
    BY <1>2 DEF PrintArrived, Take
  <2>2. toClient' \in Seq(Unit)
    BY <1>1, <2>1, Taken DEF TypeOK
  <2> QED
    BY <1>2, <2>2 DEF PrintArrived, TypeOK
<1>3. CASE RecvSignal \/ GetName \/ GetSizeAndExit \/ GetSize
  <2>1. toClient' = SubSeq(toClient, 2 + 1, Len(toClient)) /\ 2 <= Len(toClient)
    BY <1>1, <1>3 DEF RecvSignal, GetName, GetSizeAndExit, GetSize, Take
  <2>2. toClient' \in Seq(Unit)
    BY <1>1, <2>1, Taken DEF TypeOK
  <2> QED
    BY <1>3, <2>2 DEF RecvSignal, GetName, GetSizeAndExit, GetSize, TypeOK
<1>4. CASE PutNameAndExit
  <2>1. toServer' \in Seq(Frame)
    BY <1>4, Commands, Appended DEF PutNameAndExit, Send, TypeOK, Frame
  <2> QED
    BY <1>4, <2>1 DEF PutNameAndExit, TypeOK, Frame
<1>5. CASE RecvSignalAtEof
  BY <1>5, EmptySeq DEF RecvSignalAtEof, TypeOK
<1>6. CASE ServerLeft \/ PutSendFails \/ GetContentAtEof \/ GetGarbled \/ GarbledClientEnds
  BY <1>6 DEF ServerLeft, PutSendFails, GetContentAtEof, GetGarbled, GarbledClientEnds,
              TypeOK
<1> QED
  BY <1>2, <1>3, <1>4, <1>5, <1>6 DEF ClientStep

\* A worker's step that reads a frame.
Reading == \E cmd \in Command : Receive(cmd)

LEMMA ReadingFacts ==
    ASSUME TypeOK, NEW cmd \in Command, Receive(cmd)
    PROVE  /\ server = "idle" /\ Pending \in Nat /\ Pending > 0 /\ toServer[1] = cmd
           /\ toServer' = Tail(toServer) /\ toServer' \in Seq(Frame)
           /\ Pending' = Pending - 1 /\ (toServer' = <<>> <=> Pending = 1)
           /\ \A i \in 1..Pending - 1 : toServer'[i] = toServer[i + 1]
<1>1. toServer \in Seq(Frame) /\ toServer # <<>>
  BY DEF TypeOK, Frame, Receive
<1>2. /\ Pending \in Nat /\ Pending > 0 /\ Head(toServer) = toServer[1]
      /\ Tail(toServer) \in Seq(Frame) /\ Len(Tail(toServer)) = Pending - 1
      /\ \A i \in 1..Pending - 1 : Tail(toServer)[i] = toServer[i + 1]
  BY <1>1, HeadAndTail DEF Pending
<1>3. toServer' = Tail(toServer) /\ Pending' = Len(Tail(toServer))
  BY DEF Receive, Pending
<1>4. toServer' = <<>> <=> Pending' = 0
  BY <1>2, <1>3, Elements DEF Pending
<1> QED
  BY <1>2, <1>3, <1>4 DEF Receive

LEMMA WorkerTypes == TypeOK /\ WorkerStep => TypeOK'
<1> SUFFICES ASSUME TypeOK, WorkerStep PROVE TypeOK'
  OBVIOUS
<1>1. /\ toClient \o Signal \in Seq(Unit) /\ toClient \o Message \in Seq(Unit)
      /\ toClient \o NameTrain \in Seq(Unit)
      /\ \A size \in {"zero", "some"} : toClient \o SizeTrain(size) \in Seq(Unit)
  BY Sent DEF TypeOK
<1>2. Reading => toServer' \in Seq(Frame)
  BY ReadingFacts DEF Reading
<1>3. CASE ServeSilently \/ MkdirPathTooLong \/ StartPut
  <2>1. Reading
    BY <1>3 DEF ServeSilently, MkdirPathTooLong, StartPut, Reading
  <2> QED
    BY <1>2, <1>3, <2>1 DEF ServeSilently, MkdirPathTooLong, StartPut, TypeOK, Frame
<1>4. CASE MkdirReplies
  <2>1. Reading
    BY <1>4 DEF MkdirReplies, Reading
  <2> QED
    BY <1>1, <1>2, <1>4, <2>1 DEF MkdirReplies, TypeOK, Frame
<1>5. CASE StartGet
  <2>1. Reading /\ server' \in {"getOpen", "getNoFile"}
    BY <1>5 DEF StartGet, Reading
  <2> QED
    BY <1>1, <1>2, <1>5, <2>1 DEF StartGet, TypeOK, Frame
<1>6. CASE GetSendFails
  <2>1. Reading \/ toServer' = toServer
    BY <1>6 DEF GetSendFails, Reading
  <2> QED
    BY <1>2, <1>6, <2>1 DEF GetSendFails, TypeOK, Frame
<1>7. CASE PutName
  <2>1. toServer \in Seq(Frame) /\ toServer # <<>>
    BY <1>7 DEF PutName, TypeOK, Frame
  <2>2. toServer' \in Seq(Frame)
    BY <1>7, <2>1, HeadAndTail DEF PutName
  <2>3. server' \in {"putSize", "garbled"}
    BY <1>7 DEF PutName
  <2> QED
    BY <1>7, <2>2, <2>3 DEF PutName, TypeOK, Frame
<1>8. CASE SendMessage \/ GetSendSize
  BY <1>1, <1>8 DEF SendMessage, GetSendSize, TypeOK
<1>9. CASE PutAtEof \/ GetOpenFails \/ ClientLeft
  BY <1>9 DEF PutAtEof, GetOpenFails, ClientLeft, TypeOK
<1> QED
  BY <1>3, <1>4, <1>5, <1>6, <1>7, <1>8, <1>9 DEF WorkerStep

\* What typing a command changes.
LEMMA TypingFacts ==
    ASSUME TypeOK, TypeCommand
    PROVE  \E cmd \in Command :
            /\ client = "prompt" /\ cmdVeri(cmd) /\ client' = AfterSending(cmd)
            /\ Typed \in Nat /\ Typed' = Typed + 1 /\ Typed < MaxTyped
            /\ typed' \in Seq(Command) /\ typed'[Typed + 1] = cmd
            /\ \A i \in 1..Typed : typed'[i] = typed[i] /\ typed[i] \in Command
            /\ Pending \in Nat /\ Pending' = Pending + 1
            /\ toServer' \in Seq(Frame) /\ toServer' # <<>> /\ toServer'[Pending + 1] = cmd
            /\ \A i \in 1..Pending : toServer'[i] = toServer[i]
            /\ UNCHANGED <<server, toClient, report, silent>>
<1>1. PICK cmd \in Command :
          /\ cmdVeri(cmd) /\ toServer' = Append(toServer, cmd)
          /\ typed' = Append(typed, cmd) /\ client' = AfterSending(cmd)
  BY DEF TypeCommand, Send
<1>2. typed \in Seq(Command) /\ toServer \in Seq(Frame) /\ cmd \in Frame
  BY DEF TypeOK, Frame
<1>3. /\ Typed \in Nat /\ Typed' = Typed + 1 /\ typed' \in Seq(Command)
      /\ typed'[Typed + 1] = cmd /\ \A i \in 1..Typed : typed'[i] = typed[i]
  BY <1>1, <1>2, Appended DEF Typed
<1>4. /\ Pending \in Nat /\ Pending' = Pending + 1 /\ toServer' \in Seq(Frame)
      /\ toServer'[Pending + 1] = cmd /\ \A i \in 1..Pending : toServer'[i] = toServer[i]
  BY <1>1, <1>2, Appended DEF Pending
<1>5. toServer' # <<>>
  BY <1>4, Elements DEF Pending
<1>6. \A i \in 1..Typed : typed[i] \in Command
  BY <1>2, Elements DEF Typed
<1> QED
  BY <1>1, <1>3, <1>4, <1>5, <1>6 DEF TypeCommand, Typed

LEMMA TypesPreserved == TypeOK /\ Next => TypeOK'
<1> SUFFICES ASSUME TypeOK, Next PROVE TypeOK'
  OBVIOUS
<1>1. CASE TypeCommand
  <2>1. PICK cmd \in Command :
            /\ client' = AfterSending(cmd)
            /\ Typed \in Nat /\ Typed' = Typed + 1 /\ Typed < MaxTyped
            /\ typed' \in Seq(Command) /\ toServer' \in Seq(Frame)
            /\ UNCHANGED <<server, toClient, report, silent>>
    BY <1>1, TypingFacts
  <2>2. client' \in {"signal", "getName", "putName", "prompt"}
    BY <2>1, AfterSendingIs
  <2>3. Len(typed)' <= MaxTyped
    BY <2>1, SessionAssumption DEF Typed
  <2> QED
    BY <2>1, <2>2, <2>3 DEF TypeOK, Frame
<1>2. CASE Quit \/ GarbledWorkerEnds \/ OtherSessionAborts
  BY <1>2 DEF Quit, GarbledWorkerEnds, OtherSessionAborts, TypeOK
<1>3. CASE ResetDropsFrames
  BY <1>3, EmptySeq DEF ResetDropsFrames, TypeOK
<1> QED
  BY <1>1, <1>2, <1>3, ClientTypes, WorkerTypes DEF Next

-----------------------------------------------------------------------------
(* The frames under way, and the command the client is in. *)

\* The worker reads a frame.
Took == toServer # <<>> /\ toServer' = Tail(toServer) /\ client' = client

LEMMA FrameSteps ==
    ASSUME Next
    PROVE  /\ \/ TypeCommand
              \/ typed' = typed /\ (toServer' = toServer \/ Took \/ client' = "exited")
           /\ client = "exited" => client' = "exited"
<1>1. CASE WorkerStep
  BY <1>1 DEF WorkerStep, ServeSilently, MkdirReplies, SendMessage, MkdirPathTooLong,
     StartPut, PutName, PutAtEof, StartGet, GetSendSize, GetSendFails, GetOpenFails,
     ClientLeft, Receive, Took
<1>2. CASE ClientStep
  BY <1>2 DEF ClientStep, PrintArrived, ServerLeft, RecvSignal, RecvSignalAtEof,
     PutNameAndExit, PutSendFails, GetName, GetSize, GetSizeAndExit, GetContentAtEof,
     GetGarbled, GarbledClientEnds
<1>3. CASE TypeCommand
  BY <1>3 DEF TypeCommand
<1>4. CASE Quit \/ GarbledWorkerEnds \/ ResetDropsFrames \/ OtherSessionAborts
  BY <1>4 DEF Quit, GarbledWorkerEnds, ResetDropsFrames, OtherSessionAborts
<1> QED
  BY <1>1, <1>2, <1>3, <1>4 DEF Next

LEMMA BacklogPreserved == IInv /\ Next => Backlog'
<1> SUFFICES ASSUME IInv, Next, ~Ended', client' # "exited"
             PROVE  Pending' <= Typed' /\
                    \A i \in 1..Pending' : toServer'[i] = typed'[Typed' - Pending' + i]
  BY DEF Backlog
<1>1. /\ Pending <= Typed
      /\ \A i \in 1..Pending : toServer[i] = typed[Typed - Pending + i]
  BY EndedStays, FrameSteps DEF IInv, Backlog
<1>2. Typed \in Nat /\ Pending \in Nat
  BY LenProperties DEF IInv, TypeOK, Typed, Pending
<1>3. CASE TypeCommand
  <2>1. PICK cmd \in Command :
            /\ Typed' = Typed + 1 /\ typed'[Typed + 1] = cmd
            /\ \A i \in 1..Typed : typed'[i] = typed[i]
            /\ Pending' = Pending + 1 /\ toServer'[Pending + 1] = cmd
            /\ \A i \in 1..Pending : toServer'[i] = toServer[i]
    BY <1>3, TypingFacts DEF IInv
  <2> SUFFICES ASSUME NEW i \in 1..Pending + 1
               PROVE  toServer'[i] = typed'[Typed - Pending + i]
    BY <1>1, <1>2, <2>1
  <2>2. CASE i = Pending + 1
    BY <1>2, <2>1, <2>2
  <2>3. CASE i \in 1..Pending
    <3>1. Typed - Pending + i \in 1..Typed
      BY <1>1, <1>2, <2>3
    <3> QED
      BY <1>1, <2>1, <2>3, <3>1
  <2> QED
    BY <1>2, <2>2, <2>3
<1>4. CASE typed' = typed /\ toServer' = toServer
  BY <1>1, <1>4 DEF Typed, Pending
<1>5. CASE typed' = typed /\ Took
  <2>1. /\ Pending' = Pending - 1 /\ Typed' = Typed
        /\ \A i \in 1..Pending - 1 : toServer'[i] = toServer[i + 1]
    BY <1>5, HeadAndTail DEF Took, IInv, TypeOK, Pending, Typed
  <2> SUFFICES ASSUME NEW i \in 1..Pending - 1
               PROVE  toServer'[i] = typed[Typed - (Pending - 1) + i]
    BY <1>1, <1>2, <1>5, <2>1
  <2>2. i + 1 \in 1..Pending /\ Typed - Pending + (i + 1) = Typed - (Pending - 1) + i
    BY <1>2
  <2> QED
    BY <1>1, <2>1, <2>2
<1> QED
  BY <1>3, <1>4, <1>5, FrameSteps

LEMMA InCommandPreserved == IInv /\ Next => InCommand'
<1> SUFFICES ASSUME IInv, Next, ~Ended' PROVE InCommand'
  BY DEF InCommand
<1>1. ~Ended /\ InCommand
  BY EndedStays DEF IInv
<1>2. Typed \in Nat
  BY LenProperties DEF IInv, TypeOK, Typed
<1>3. CASE TypeCommand
  <2>1. PICK cmd \in Command :
            /\ client = "prompt" /\ client' = AfterSending(cmd)
            /\ Typed' = Typed + 1 /\ typed'[Typed + 1] = cmd
            /\ \A i \in 1..Typed : typed'[i] = typed[i]
    BY <1>3, TypingFacts DEF IInv
  <2>2. \A i \in 1..Typed : typed'[i] # Full("get")
    BY <1>1, <2>1 DEF InCommand, AtPrompt
  <2>3. /\ cmd = Full("get") <=> cmd.code = "get" /\ cmd.arg
        /\ cmd = Full("put") <=> cmd.code = "put" /\ cmd.arg
    BY Commands DEF Code
  <2>4. /\ client' \in {"signal", "getName", "putName", "prompt"}
        /\ client' = "signal" => cmd.code \notin {"put", "get"}
        /\ client' = "getName" <=> cmd = Full("get")
        /\ client' = "putName" <=> cmd = Full("put")
    BY <2>1, <2>3, AfterSendingIs
  <2>5. \A i \in 1..Typed' : i \in 1..Typed \/ i = Typed + 1
    BY <1>2, <2>1
  <2>6. Typed' > 0 /\ Typed' - 1 = Typed /\ typed'[Typed'] = cmd
    BY <1>2, <2>1
  <2>7. client' \in AtPrompt => \A i \in 1..Typed' : typed'[i] # Full("get")
    BY <2>1, <2>2, <2>4, <2>5 DEF AtPrompt
  <2> QED
    BY <2>2, <2>4, <2>6, <2>7 DEF InCommand, Getting
<1>4. CASE ~TypeCommand
  <2>1. typed' = typed
    BY <1>4, FrameSteps
  <2>2. \/ client' \in {client, "exited", "garbled"}
        \/ client \in AtPrompt /\ client' = "prompt"
        \/ client \in Getting /\ client' \in Getting
    BY <1>1, <1>4 DEF Next, ClientStep, WorkerStep, Quit, PrintArrived, ServerLeft,
       RecvSignal, RecvSignalAtEof, PutNameAndExit, PutSendFails, GetName, GetSize,
       GetSizeAndExit, GetContentAtEof, GetGarbled, GarbledClientEnds, ServeSilently,
       MkdirReplies, SendMessage, MkdirPathTooLong, StartPut, PutName, PutAtEof, StartGet,
       GetSendSize, GetSendFails, GetOpenFails, ClientLeft, GarbledWorkerEnds,
       ResetDropsFrames, OtherSessionAborts, ClientEof, AtPrompt, Getting
  <2> QED
    BY <1>1, <2>1, <2>2 DEF InCommand, Typed, AtPrompt, Getting
<1> QED
  BY <1>3, <1>4

\* The frame that the worker reads while the client is there.
LEMMA ReadFrame ==
    ASSUME TypeOK, Backlog, ~Ended, client # "exited", toServer # <<>>
    PROVE  /\ Pending \in 1..Typed /\ Typed \in Nat
           /\ Typed - Pending + 1 \in 1..Typed /\ toServer[1] = typed[Typed - Pending + 1]
           /\ toServer[1] \in Command
<1>1. Typed \in Nat /\ Pending \in Nat /\ Pending > 0
  BY Elements DEF TypeOK, Typed, Pending
<1>2. Pending <= Typed /\ toServer[1] = typed[Typed - Pending + 1]
  BY <1>1 DEF Backlog
<1>3. Typed - Pending + 1 \in 1..Typed
  BY <1>1, <1>2
<1>4. typed[Typed - Pending + 1] \in Command
  BY <1>3, ElementOfSeq DEF TypeOK, Typed
<1> QED
  BY <1>1, <1>2, <1>3, <1>4

LEMMA AnsweredPreserved == IInv /\ Next => Answered'
<1> SUFFICES ASSUME IInv, Next PROVE Answered'
  OBVIOUS
<1>0. /\ TypeOK /\ Backlog /\ InCommand /\ Answered
      /\ toServer \in Seq(Frame) /\ Pending \in Nat
  BY LenProperties DEF IInv, TypeOK, Frame, Pending
<1>1. server' \in Putting \union {"getOpen", "getNoFile"} => silent'
  BY <1>0 DEF Next, ClientStep, WorkerStep, TypeCommand, Quit, PrintArrived, ServerLeft,
     RecvSignal, RecvSignalAtEof, PutNameAndExit, PutSendFails, GetName, GetSize,
     GetSizeAndExit, GetContentAtEof, GetGarbled, GarbledClientEnds, ServeSilently,
     MkdirReplies, SendMessage, MkdirPathTooLong, StartPut, PutName, PutAtEof, StartGet,
     GetSendSize, GetSendFails, GetOpenFails, ClientLeft, GarbledWorkerEnds,
     ResetDropsFrames, OtherSessionAborts, Receive, Answered, Putting
<1>2. SUFFICES ASSUME ~Ended', server' # "garbled"
               PROVE  /\ client' = "signal" =>
                             Pending' > 0 \/ silent' \/ Len(toClient') >= Len(Signal)
                      /\ client' \in Getting => Pending' > 0 \/ silent'
  BY <1>1 DEF Answered
<1>3. ~Ended
  BY <1>2, EndedStays
<1>4. server # "garbled"
  BY <1>2 DEF Next, ClientStep, WorkerStep, TypeCommand, Quit, PrintArrived, ServerLeft,
     RecvSignal, RecvSignalAtEof, PutNameAndExit, PutSendFails, GetName, GetSize,
     GetSizeAndExit, GetContentAtEof, GetGarbled, GarbledClientEnds, ServeSilently,
     MkdirReplies, SendMessage, MkdirPathTooLong, StartPut, PutName, PutAtEof, StartGet,
     GetSendSize, GetSendFails, GetOpenFails, ClientLeft, GarbledWorkerEnds,
     ResetDropsFrames, OtherSessionAborts, Receive, Ended
<1>5. /\ client = "signal" => Pending > 0 \/ silent \/ Len(toClient) >= Len(Signal)
      /\ client \in Getting => Pending > 0 \/ silent
  BY <1>0, <1>3, <1>4 DEF Answered
<1>6. CASE TypeCommand
  <2>1. Pending' > 0
    BY <1>0, <1>6, TypingFacts
  <2> QED
    BY <2>1
<1>7. CASE ServeSilently \/ MkdirPathTooLong \/ StartPut \/ StartGet \/ GetSendFails
  BY <1>7 DEF ServeSilently, MkdirPathTooLong, StartPut, StartGet, GetSendFails
<1>8. CASE MkdirReplies
  <2>1. PICK cmd \in Command : cmd.code = "mkdir" /\ Receive(cmd)
    BY <1>8 DEF MkdirReplies
  <2>2. Len(toClient') >= Len(Signal)
    <3>1. Len(toClient') = Len(toClient) + Len(Signal) /\ Len(toClient) \in Nat
      BY <1>0, <1>8, Sent, ConcatProperties, LenProperties DEF MkdirReplies, TypeOK
    <3> QED
      BY <3>1 DEF Signal
  <2>3. ASSUME client' \in Getting PROVE Pending' > 0
    <3>1. client = client' /\ client # "exited" /\ Typed > 0 /\ typed[Typed].code = "get"
      BY <1>0, <1>3, <1>8, <2>3 DEF MkdirReplies, InCommand, Getting, Full
    <3>2. toServer[1] = cmd /\ Pending' = Pending - 1 /\ Pending > 0 /\ toServer # <<>>
      BY <1>0, <2>1, ReadingFacts DEF Receive
    <3>3. Typed \in Nat /\ toServer[1] = typed[Typed - Pending + 1]
      BY <1>0, <1>3, <3>1, <3>2, ReadFrame
    <3>4. Pending # 1
      BY <2>1, <3>1, <3>2, <3>3
    <3> QED
      BY <1>0, <3>2, <3>4
  <2> QED
    BY <2>2, <2>3
<1>9. CASE PutName
  <2>1. toServer # <<>> /\ toServer[1] = Head(toServer)
    BY <1>0, <1>9, HeadAndTail DEF PutName
  <2>2. client = "exited" \/ toServer[1] \in Command
    BY <1>0, <1>3, <2>1, ReadFrame
  <2>3. client = "exited"
    BY <1>2, <1>9, <2>1, <2>2, Commands DEF PutName
  <2> QED
    BY <1>9, <2>3 DEF PutName, Getting
<1>10. CASE SendMessage \/ GetSendSize
  <2>1. PICK units \in Seq(Unit) : toClient' = toClient \o units
    BY <1>10, Sent DEF SendMessage, GetSendSize
  <2>2. Len(toClient') >= Len(toClient) /\ Len(toClient) \in Nat /\ Len(toClient') \in Nat
    BY <1>0, <2>1, ConcatProperties, LenProperties DEF TypeOK
  <2>3. UNCHANGED <<client, toServer, silent>>
    BY <1>10 DEF SendMessage, GetSendSize
  <2> QED
    BY <1>5, <2>2, <2>3 DEF Pending, Signal
<1>11. CASE PutAtEof \/ GetOpenFails \/ ClientLeft \/ GarbledWorkerEnds \/ OtherSessionAborts
            \/ ResetDropsFrames
  BY <1>2, <1>5, <1>11 DEF PutAtEof, ServerEof, GetOpenFails, ClientLeft, GarbledWorkerEnds,
     OtherSessionAborts, ResetDropsFrames, Ended, Getting, Pending
<1>12. CASE ClientStep \/ Quit
  <2>1. /\ client' \notin {"signal"} \union Getting \/ (client \in Getting /\ client' \in Getting)
        /\ toServer' = toServer \/ client' = "exited"
        /\ silent' = silent
    BY <1>3, <1>12 DEF ClientStep, Quit, PrintArrived, ServerLeft, RecvSignal,
       RecvSignalAtEof, PutNameAndExit, PutSendFails, GetName, GetSize, GetSizeAndExit,
       GetContentAtEof, GetGarbled, GarbledClientEnds, ClientEof, Getting
  <2> QED
    BY <1>5, <2>1 DEF Getting, Pending
<1> QED
  BY <1>6, <1>7, <1>8, <1>9, <1>10, <1>11, <1>12 DEF Next, WorkerStep

-----------------------------------------------------------------------------
(* A put and its name. *)

LEMMA PutsHaveNamesPreserved == IInv /\ Next => PutsHaveNames'
<1> SUFFICES ASSUME IInv, Next, ~Ended', server' # "garbled", ~BarePutTyped'
             PROVE  /\ client' \notin {"putName", "exited"} =>
                           /\ server' \notin Putting
                           /\ \A i \in 1..Typed' : typed'[i].code # "put"
                    /\ client' = "putName" =>
                           /\ \A i \in 1..Typed' - 1 : typed'[i].code # "put"
                           /\ server' # "putSize"
                           /\ server' = "putName" <=> toServer' = <<>>
                    /\ client' = "exited" => NamesFollowPuts'
  BY DEF PutsHaveNames
<1>0. /\ TypeOK /\ Backlog /\ InCommand /\ ~Ended
      /\ toServer \in Seq(Frame) /\ Pending \in Nat /\ Typed \in Nat
      /\ \A i \in 1..Typed : typed[i] \in Command
      /\ \A i \in 1..Pending : toServer[i] \in Frame
  BY EndedStays, Elements DEF IInv, TypeOK, Frame, Pending, Typed
<1>1. server # "garbled"
  BY DEF Next, ClientStep, WorkerStep, TypeCommand, Quit, PrintArrived, ServerLeft,
     RecvSignal, RecvSignalAtEof, PutNameAndExit, PutSendFails, GetName, GetSize,
     GetSizeAndExit, GetContentAtEof, GetGarbled, GarbledClientEnds, ServeSilently,
     MkdirReplies, SendMessage, MkdirPathTooLong, StartPut, PutName, PutAtEof, StartGet,
     GetSendSize, GetSendFails, GetOpenFails, ClientLeft, GarbledWorkerEnds,
     ResetDropsFrames, OtherSessionAborts, Receive, Ended
<1>2. ~BarePutTyped
  <2>1. CASE TypeCommand
    <3>1. Typed' = Typed + 1 /\ \A i \in 1..Typed : typed'[i] = typed[i]
      BY <1>0, <2>1, TypingFacts
    <3>2. \A i \in 1..Typed : i \in 1..Typed'
      BY <1>0, <3>1
    <3> QED
      BY <3>1, <3>2 DEF BarePutTyped
  <2>2. CASE typed' = typed
    BY <2>2 DEF BarePutTyped, Typed
  <2> QED
    BY <2>1, <2>2, FrameSteps
<1>3. /\ client \notin {"putName", "exited"} =>
             server \notin Putting /\ \A i \in 1..Typed : typed[i].code # "put"
      /\ client = "putName" =>
             /\ \A i \in 1..Typed - 1 : typed[i].code # "put"
             /\ server # "putSize" /\ (server = "putName" <=> toServer = <<>>)
      /\ client = "exited" => NamesFollowPuts
  BY <1>0, <1>1, <1>2 DEF IInv, PutsHaveNames
\* While the client is there, the first frame is a command, and a put only if it
\* is the last one and the client is in it.
<1>4. ASSUME client # "exited", toServer # <<>>
      PROVE  /\ toServer[1] \in Command
             /\ toServer[1].code = "put" => client = "putName" /\ Pending = 1
             /\ client = "putName" /\ Pending = 1 => toServer[1] = Full("put")
  <2>1. /\ Pending \in 1..Typed /\ toServer[1] = typed[Typed - Pending + 1]
        /\ Typed - Pending + 1 \in 1..Typed /\ toServer[1] \in Command
    BY <1>0, <1>4, ReadFrame
  <2>2. CASE client = "putName"
    <3>1. typed[Typed] = Full("put")
      BY <1>0, <2>2 DEF InCommand
    <3>2. Typed - Pending + 1 \in 1..Typed - 1 \/ Pending = 1
      BY <1>0, <2>1
    <3>3. Pending = 1 => Typed - Pending + 1 = Typed
      BY <1>0
    <3> QED
      BY <1>3, <2>1, <2>2, <3>1, <3>2, <3>3
  <2>3. CASE client # "putName"
    BY <1>3, <1>4, <2>1, <2>3
  <2> QED
    BY <2>2, <2>3
<1>5. CASE TypeCommand
  <2>1. PICK cmd \in Command :
            /\ client = "prompt" /\ client' = AfterSending(cmd) /\ server' = server
            /\ Typed' = Typed + 1 /\ typed'[Typed + 1] = cmd
            /\ \A i \in 1..Typed : typed'[i] = typed[i]
            /\ toServer' # <<>>
    BY <1>0, <1>5, TypingFacts
  <2>2. server \notin Putting /\ \A i \in 1..Typed : typed'[i].code # "put"
    BY <1>3, <2>1
  <2>3. client' \in {"signal", "getName", "putName", "prompt"}
    BY <2>1, AfterSendingIs
  <2>4. client' = "putName" \/ cmd.code # "put"
    <3>1. Typed + 1 \in 1..Typed'
      BY <1>0, <2>1
    <3>2. cmd # Bare("put")
      BY <2>1, <3>1 DEF BarePutTyped, Bare
    <3> QED
      BY <2>1, <3>2, AfterSendingIs, Commands DEF Code, Command
  <2>5. Typed' - 1 = Typed /\ \A i \in 1..Typed' : i \in 1..Typed \/ i = Typed + 1
    BY <1>0, <2>1
  <2> QED
    BY <2>1, <2>2, <2>3, <2>4, <2>5 DEF Putting
\* The worker reads a command.
<1>6. ASSUME NEW cmd \in Command, Receive(cmd), typed' = typed, client' = client,
             server' = "putName" <=> cmd.code = "put", server' # "putSize"
      PROVE  PutsHaveNames'
  <2>1. /\ server = "idle" /\ Pending > 0 /\ toServer # <<>> /\ toServer[1] = cmd
        /\ Pending' = Pending - 1 /\ (toServer' = <<>> <=> Pending = 1)
        /\ \A i \in 1..Pending - 1 : toServer'[i] = toServer[i + 1]
        /\ Typed' = Typed
    BY <1>0, <1>6, ReadingFacts DEF Receive, Typed
  <2>2. CASE client \notin {"putName", "exited"}
    <3>1. cmd.code # "put"
      BY <1>4, <2>1, <2>2
    <3> QED
      BY <1>3, <1>6, <2>1, <2>2, <3>1 DEF PutsHaveNames, Putting
  <2>3. CASE client = "putName"
    <3>1. cmd.code = "put" <=> Pending = 1
      BY <1>4, <2>1, <2>3 DEF Full
    <3> QED
      BY <1>3, <1>6, <2>1, <2>3, <3>1 DEF PutsHaveNames
  <2>4. CASE client = "exited"
    <3>1. \A i \in 1..Pending :
              /\ toServer[i].code = "put" =>
                     i = Pending - 1 /\ toServer[Pending].code = "name"
              /\ toServer[i].code = "name" =>
                     i = Pending /\ i > 1 /\ toServer[i - 1].code = "put"
      BY <1>3, <2>1, <2>4 DEF NamesFollowPuts, Putting
    <3>2. CASE cmd.code = "put"
      <4>1. Pending = 2 /\ toServer[2].code = "name"
        BY <1>0, <2>1, <3>1, <3>2
      <4> QED
        BY <1>6, <2>1, <2>4, <3>2, <4>1 DEF PutsHaveNames, NamesFollowPuts, Putting
    <3>3. CASE cmd.code # "put"
      <4>1. ASSUME NEW i \in 1..Pending'
            PROVE  /\ toServer'[i].code = "put" =>
                          i = Pending' - 1 /\ toServer'[Pending'].code = "name"
                   /\ toServer'[i].code = "name" =>
                          i = Pending' /\ i > 1 /\ toServer'[i - 1].code = "put"
        <5>1. /\ i \in 1..Pending - 1 /\ i + 1 \in 1..Pending
              /\ toServer'[i] = toServer[i + 1] /\ toServer'[Pending'] = toServer[Pending]
          BY <1>0, <2>1
        <5>2. toServer[i + 1].code = "put" => i + 1 = Pending - 1 /\ toServer[Pending].code = "name"
          BY <3>1, <5>1
        <5>3. toServer[i + 1].code = "name" => i + 1 = Pending /\ toServer[i].code = "put"
          BY <1>0, <3>1, <5>1
        <5>4. ASSUME toServer[i].code = "put" PROVE i > 1 /\ toServer'[i - 1] = toServer[i]
          <6>1. i # 1
            BY <2>1, <3>3, <5>4
          <6> QED
            BY <1>0, <2>1, <5>1, <6>1
        <5> QED
          BY <1>0, <2>1, <5>1, <5>2, <5>3, <5>4
      <4> QED
        BY <1>6, <2>4, <3>3, <4>1 DEF PutsHaveNames, NamesFollowPuts, Putting
    <3> QED
      BY <3>2, <3>3
  <2> QED
    BY <2>2, <2>3, <2>4
<1>7. CASE ServeSilently \/ MkdirReplies \/ MkdirPathTooLong \/ StartPut \/ StartGet
           \/ (GetSendFails /\ Reading)
  <2>1. \E cmd \in Command :
            /\ Receive(cmd) /\ typed' = typed /\ client' = client
            /\ server' = "putName" <=> cmd.code = "put"
            /\ server' # "putSize"
    BY <1>7 DEF ServeSilently, MkdirReplies, MkdirPathTooLong, StartPut, StartGet,
       GetSendFails, Reading, Receive
  <2> QED
    BY <1>6, <2>1 DEF PutsHaveNames
<1>8. CASE PutName
  <2>1. toServer # <<>> /\ toServer[1] = Head(toServer) /\ server = "putName"
        /\ Pending' = Pending - 1 /\ toServer' \in Seq(Frame)
    BY <1>0, <1>8, HeadAndTail DEF PutName, Pending
  <2>2. client = "exited"
    BY <1>4, <1>8, <2>1, Commands DEF PutName
  <2>3. Pending = 1
    BY <1>3, <2>1, <2>2 DEF NamesFollowPuts
  <2>4. toServer' = <<>>
    BY <2>1, <2>3, Elements DEF Pending
  <2> QED
    BY <1>8, <2>2, <2>4 DEF PutName, NamesFollowPuts, Putting
<1>9. CASE PutNameAndExit
  <2> DEFINE name == [code |-> "name", arg |-> TRUE]
  <2>1. /\ client = "putName" /\ client' = "exited" /\ server' = server
        /\ Pending' = Pending + 1 /\ toServer'[Pending + 1] = name
        /\ \A i \in 1..Pending : toServer'[i] = toServer[i]
        /\ toServer' # <<>>
    BY <1>0, <1>9, Commands, Appended, Elements DEF PutNameAndExit, Send, Pending, Frame
  <2>2. CASE server = "putName"
    <3>1. Pending = 0
      BY <1>3, <2>1, <2>2, Elements DEF Pending
    <3> QED
      BY <2>1, <2>2, <3>1 DEF NamesFollowPuts, Putting
  <2>3. CASE server # "putName"
    <3>1. server \notin Putting /\ Pending > 0
      BY <1>0, <1>3, <2>1, <2>3, Elements DEF Putting, Pending
    <3>2. toServer[Pending].code = "put"
      <4>1. Pending <= Typed /\ toServer[Pending] = typed[Typed - Pending + Pending]
        BY <1>0, <2>1, <3>1 DEF Backlog
      <4> QED
        BY <1>0, <2>1, <4>1 DEF InCommand, Full
    <3>3. ASSUME NEW i \in 1..Pending - 1
          PROVE  toServer[i].code \notin {"put", "name"}
      <4>1. Pending <= Typed /\ toServer[i] = typed[Typed - Pending + i]
        BY <1>0, <2>1 DEF Backlog
      <4>2. Typed - Pending + i \in 1..Typed - 1 /\ Typed - Pending + i \in 1..Typed
        BY <1>0, <4>1
      <4> QED
        BY <1>0, <1>3, <2>1, <4>1, <4>2, Commands
    <3>4. \A i \in 1..Pending' : i \in 1..Pending - 1 \/ i = Pending \/ i = Pending + 1
      BY <1>0, <2>1
    <3>5. ASSUME NEW i \in 1..Pending'
          PROVE  /\ toServer'[i].code = "put" => i = Pending
                 /\ toServer'[i].code = "name" => i = Pending + 1
      <4>1. CASE i = Pending + 1
        BY <2>1, <4>1
      <4>2. CASE i = Pending
        BY <1>0, <2>1, <3>1, <3>2, <4>2
      <4>3. CASE i \in 1..Pending - 1
        BY <1>0, <2>1, <3>3, <4>3
      <4> QED
        BY <3>4, <4>1, <4>2, <4>3
    <3>6. toServer'[Pending].code = "put" /\ toServer'[Pending + 1].code = "name"
      BY <1>0, <2>1, <3>1, <3>2
    <3>7. NamesFollowPuts'
      BY <1>0, <2>1, <3>1, <3>5, <3>6 DEF NamesFollowPuts, Putting
    <3> QED
      BY <2>1, <3>7
  <2> QED
    BY <2>2, <2>3
<1>10. CASE PutAtEof \/ ResetDropsFrames
  <2>1. client' = "exited" /\ toServer' = <<>> /\ Pending' = 0
    BY <1>10 DEF PutAtEof, ResetDropsFrames, ServerEof, Pending
  <2> QED
    BY <2>1 DEF NamesFollowPuts
<1>11. CASE Quit \/ ServerLeft \/ GarbledClientEnds \/ GetSizeAndExit
  <2>1. client \notin {"putName", "exited"} /\ client' = "exited"
        /\ UNCHANGED <<server, toServer>>
    BY <1>11 DEF Quit, ServerLeft, GarbledClientEnds, GetSizeAndExit
  <2>2. ASSUME NEW i \in 1..Pending PROVE toServer[i].code \notin {"put", "name"}
    <3>1. Typed - Pending + i \in 1..Typed /\ toServer[i] = typed[Typed - Pending + i]
      BY <1>0, <2>1 DEF Backlog
    <3> QED
      BY <1>0, <1>3, <2>1, <3>1, Commands
  <2> QED
    BY <1>3, <2>1, <2>2 DEF NamesFollowPuts, Putting, Pending
<1>12. CASE \/ RecvSignal \/ RecvSignalAtEof \/ PrintArrived \/ GetName \/ GetSize
            \/ GetContentAtEof \/ GetGarbled \/ PutSendFails
  BY <1>0, <1>3, <1>12 DEF RecvSignal, RecvSignalAtEof, PrintArrived, GetName, GetSize,
     GetContentAtEof, GetGarbled, PutSendFails, Typed
<1>13. CASE SendMessage \/ GetSendSize \/ (GetSendFails /\ ~Reading)
  <2>1. /\ UNCHANGED <<client, typed, toServer>>
        /\ server \notin Putting /\ server' \notin Putting
    BY <1>13 DEF SendMessage, GetSendSize, GetSendFails, Reading, Putting
  <2> QED
    BY <1>3, <2>1 DEF NamesFollowPuts, Putting, Pending, Typed
<1>14. CASE GetOpenFails \/ ClientLeft \/ GarbledWorkerEnds \/ OtherSessionAborts
  BY <1>14 DEF GetOpenFails, ClientLeft, GarbledWorkerEnds, OtherSessionAborts, Ended
<1> QED
  BY <1>5, <1>7, <1>8, <1>9, <1>10, <1>11, <1>12, <1>13, <1>14
     DEF Next, ClientStep, WorkerStep

-----------------------------------------------------------------------------
(* What is left in the stream. *)

LEMMA NothingLeftPreserved == IInv /\ Next => NothingLeft'
<1> SUFFICES ASSUME IInv, Next, ~Ended', ~LeftOver'
             PROVE  /\ client' \in AtPrompt
                       /\ (\A i \in 1..Typed' : LeavesNothing(typed'[i])) =>
                           toClient' = <<>> /\ server' \notin Sending
                    /\ client' = "getName" =>
                         \/ toClient' = <<>> /\ server' \notin Sending
                         \/ toServer' = <<>> /\ toClient' # <<>> /\ toClient'[1] = "nlen"
  BY DEF NothingLeft
<1>0. /\ TypeOK /\ Backlog /\ InCommand /\ ~Ended
      /\ Typed \in Nat /\ \A i \in 1..Typed : typed[i] \in Command
  BY EndedStays, Elements DEF IInv, TypeOK, Typed
<1>1. CASE TypeCommand
  <2>1. PICK cmd \in Command :
            /\ client = "prompt" /\ client' = AfterSending(cmd)
            /\ Typed' = Typed + 1 /\ typed'[Typed + 1] = cmd
            /\ \A i \in 1..Typed : typed'[i] = typed[i]
            /\ UNCHANGED <<server, toClient>>
    BY <1>0, <1>1, TypingFacts
  <2>2. ASSUME NEW i \in 1..Typed PROVE LeavesNothing(typed[i])
    <3>1. i \in 1..Typed' - 1 /\ typed'[i] = typed[i] /\ typed[i] \in Command
      BY <1>0, <2>1
    <3>2. typed[i].code # "mkdir" /\ typed[i] # Bare("get")
      BY <3>1 DEF LeftOver, Bare
    <3>3. typed[i] # Full("get")
      BY <1>0, <2>1 DEF InCommand, AtPrompt
    <3> QED
      BY <3>1, <3>2, <3>3, Commands DEF LeavesNothing, Code, Command
  <2>3. ~LeftOver
    <3> SUFFICES ASSUME NEW i \in 1..Typed - 1
                 PROVE  typed[i].code # "mkdir" /\ typed[i] # Bare("get")
      BY DEF LeftOver
    <3>1. i \in 1..Typed
      BY <1>0
    <3> QED
      BY <2>2, <3>1 DEF LeavesNothing, Bare
  <2>4. toClient = <<>> /\ server \notin Sending
    BY <1>0, <2>1, <2>2, <2>3 DEF IInv, NothingLeft, AtPrompt
  <2> QED
    BY <2>1, <2>4
<1>2. CASE ~TypeCommand
  <2>0. typed' = typed /\ Typed' = Typed /\ ~LeftOver
    BY <1>2, FrameSteps DEF LeftOver, Typed
  <2>1. /\ client \in AtPrompt /\ (\A i \in 1..Typed : LeavesNothing(typed[i])) =>
               toClient = <<>> /\ server \notin Sending
        /\ client = "getName" =>
               \/ toClient = <<>> /\ server \notin Sending
               \/ toServer = <<>> /\ toClient # <<>> /\ toClient[1] = "nlen"
    BY <1>0, <2>0 DEF IInv, NothingLeft
  \* What the worker reads for a client that waits for a name: a command that
  \* leaves nothing, or, at last, the get.
  <2>2. ASSUME NEW cmd \in Command, Receive(cmd), client = "getName"
        PROVE  LeavesNothing(cmd) \/ (cmd = Full("get") /\ toServer' = <<>>)
    <3>1. toServer # <<>> /\ toServer[1] = cmd /\ (toServer' = <<>> <=> Pending = 1)
      BY <1>0, <2>2, ReadingFacts DEF Receive
    <3>2. /\ Pending \in 1..Typed /\ Typed - Pending + 1 \in 1..Typed
          /\ cmd = typed[Typed - Pending + 1]
      BY <1>0, <2>2, <3>1, ReadFrame
    <3>3. typed[Typed] = Full("get") /\ \A i \in 1..Typed - 1 : typed[i] # Full("get")
      BY <1>0, <2>2 DEF InCommand, Getting
    <3>4. CASE Pending = 1
      BY <1>0, <3>1, <3>2, <3>3, <3>4
    <3>5. CASE Pending # 1
      <4>1. Typed - Pending + 1 \in 1..Typed - 1
        BY <1>0, <3>2, <3>5
      <4>2. cmd.code # "mkdir" /\ cmd # Bare("get") /\ cmd # Full("get")
        BY <2>0, <3>2, <3>3, <4>1 DEF LeftOver
      <4> QED
        BY <4>2, Commands DEF LeavesNothing, Code, Command
    <3> QED
      BY <3>4, <3>5
  <2>3. ASSUME NEW cmd \in Command, Receive(cmd), client \in AtPrompt,
               \A i \in 1..Typed : LeavesNothing(typed[i])
        PROVE  LeavesNothing(cmd)
    <3>1. toServer # <<>> /\ toServer[1] = cmd
      BY <1>0, <2>3, ReadingFacts DEF Receive
    <3>2. Typed - Pending + 1 \in 1..Typed /\ cmd = typed[Typed - Pending + 1]
      BY <1>0, <2>3, <3>1, ReadFrame DEF AtPrompt
    <3> QED
      BY <2>3, <3>2
  <2>4. CASE ServeSilently \/ MkdirPathTooLong \/ StartPut
    <3>1. /\ client' = client /\ toClient' = toClient
          /\ server = "idle" /\ server' \notin Sending
          /\ toServer = <<>> => FALSE
      BY <2>4 DEF ServeSilently, MkdirPathTooLong, StartPut, Receive, Sending
    <3> QED
      BY <2>0, <2>1, <3>1
  <2>5. CASE MkdirReplies
    <3>1. PICK cmd \in Command : cmd.code = "mkdir" /\ Receive(cmd)
      BY <2>5 DEF MkdirReplies
    <3>2. ~LeavesNothing(cmd) /\ cmd # Full("get") /\ client' = client
      BY <2>5, <3>1 DEF LeavesNothing, Full, MkdirReplies
    <3> QED
      BY <2>0, <2>2, <2>3, <3>1, <3>2
  <2>6. CASE StartGet
    <3>1. PICK cmd \in Command : cmd.code = "get" /\ Receive(cmd)
      BY <2>6 DEF StartGet
    <3>2. ~LeavesNothing(cmd) /\ client' = client /\ toClient' = toClient \o NameTrain
          /\ toServer # <<>>
      BY <2>6, <3>1 DEF LeavesNothing, StartGet, Receive
    <3>3. client' = "getName" => toServer' = <<>> /\ toClient = <<>>
      BY <2>1, <2>2, <3>1, <3>2
    <3>4. client' = "getName" => toClient' # <<>> /\ toClient'[1] = "nlen"
      BY <3>2, <3>3 DEF NameTrain
    <3> QED
      BY <2>0, <2>3, <3>1, <3>2, <3>3, <3>4
  <2>7. CASE SendMessage \/ GetSendSize
    <3>1. PICK units \in Seq(Unit) : toClient' = toClient \o units
      BY <2>7, Sent DEF SendMessage, GetSendSize
    <3>2. client' = client /\ toServer' = toServer /\ server \in Sending
      BY <2>7 DEF SendMessage, GetSendSize, Sending
    <3>3. ASSUME toClient # <<>> PROVE toClient' # <<>> /\ toClient'[1] = toClient[1]
      <4>1. Len(toClient) \in Nat /\ Len(toClient) > 0
        BY <1>0, <3>3, Elements DEF TypeOK
      <4>2. toClient' \in Seq(Unit) /\ Len(toClient') = Len(toClient) + Len(units)
            /\ toClient'[1] = toClient[1] /\ Len(units) \in Nat
        BY <1>0, <3>1, <4>1, ConcatProperties, LenProperties DEF TypeOK
      <4> QED
        BY <4>1, <4>2, Elements
    <3> QED
      BY <2>0, <2>1, <3>2, <3>3
  <2>8. CASE PutName \/ PutAtEof
    <3>1. /\ client' = client /\ toClient' = toClient /\ server' \notin Sending
          /\ toServer = <<>> => toServer' = <<>>
      BY <2>8 DEF PutName, PutAtEof, Ended, Sending
    <3> QED
      BY <2>0, <2>1, <3>1
  <2>9. CASE GetSendFails \/ ResetDropsFrames \/ Quit
    BY <2>9 DEF GetSendFails, ResetDropsFrames, Quit, AtPrompt
  <2>10. CASE GetOpenFails \/ ClientLeft \/ GarbledWorkerEnds \/ OtherSessionAborts
    BY <2>10 DEF GetOpenFails, ClientLeft, GarbledWorkerEnds, OtherSessionAborts, Ended
  <2>11. CASE PrintArrived \/ RecvSignal \/ RecvSignalAtEof
    <3>1. /\ client \in AtPrompt /\ client' = "prompt" /\ server' = server
          /\ toClient # <<>> \/ toClient' = <<>>
      <4>1. PrintArrived => toClient # <<>>
        BY DEF PrintArrived
      <4>2. RecvSignal => toClient # <<>>
        BY DEF RecvSignal, Signal
      <4> QED
        BY <2>11, <4>1, <4>2 DEF PrintArrived, RecvSignal, RecvSignalAtEof, AtPrompt
    <3> QED
      BY <2>0, <2>1, <3>1
  <2>12. CASE \/ ServerLeft \/ PutNameAndExit \/ PutSendFails \/ GetName \/ GetSize
              \/ GetSizeAndExit \/ GetContentAtEof \/ GetGarbled \/ GarbledClientEnds
    BY <1>0, <2>12 DEF ServerLeft, PutNameAndExit, PutSendFails, GetName, GetSize,
       GetSizeAndExit, GetContentAtEof, GetGarbled, GarbledClientEnds, ClientEof, AtPrompt
  <2> QED
    BY <1>2, <2>4, <2>5, <2>6, <2>7, <2>8, <2>9, <2>10, <2>11, <2>12
       DEF Next, ClientStep, WorkerStep
<1> QED
  BY <1>1, <1>2

-----------------------------------------------------------------------------
(* Names and sizes, whatever is typed. *)

\* The name of an upload is the last frame of a client that has gone; the put
\* before it is still under way, or the worker waits for the name.
NamesInPlace ==
    ~Ended /\ server # "garbled" =>
        /\ client # "exited" => server # "putSize"
        /\ client = "putName" /\ toServer = <<>> => server = "putName"
        /\ server = "putSize" => toServer = <<>>
        /\ client = "exited" => \A i \in 1..Pending : toServer[i].code = "name" =>
               /\ i = Pending
               /\ i = 1 => server = "putName"
               /\ i > 1 => toServer[i - 1] = Full("put")

LEMMA NamesInPlaceInit == Init => NamesInPlace
BY DEF Init, NamesInPlace, Pending

\* While the client is there, no frame under way is a name, and the last one is
\* the command that the client is in.
LEMMA OnlyCommandsUnderWay ==
    ASSUME TypeOK, Backlog, InCommand, ~Ended, client # "exited"
    PROVE  /\ \A i \in 1..Pending : toServer[i].code # "name"
           /\ client = "putName" /\ Pending > 0 => toServer[Pending] = Full("put")
<1>1. Typed \in Nat /\ Pending \in Nat /\ \A i \in 1..Typed : typed[i] \in Command
  BY Elements DEF TypeOK, Typed, Pending
<1>2. Pending <= Typed /\ \A i \in 1..Pending : toServer[i] = typed[Typed - Pending + i]
  BY DEF Backlog
<1>3. ASSUME NEW i \in 1..Pending PROVE toServer[i].code # "name"
  <2>1. Typed - Pending + i \in 1..Typed
    BY <1>1, <1>2
  <2> QED
    BY <1>1, <1>2, <2>1, Commands
<1>4. ASSUME client = "putName", Pending > 0 PROVE toServer[Pending] = Full("put")
  <2>1. Pending \in 1..Pending /\ Typed - Pending + Pending = Typed
    BY <1>1, <1>4
  <2>2. typed[Typed] = Full("put")
    BY <1>4 DEF InCommand
  <2> QED
    BY <1>2, <2>1, <2>2
<1> QED
  BY <1>3, <1>4

LEMMA NamesInPlacePreserved == IInv /\ NamesInPlace /\ Next => NamesInPlace'
<1> SUFFICES ASSUME IInv, NamesInPlace, Next, ~Ended', server' # "garbled"
             PROVE  NamesInPlace'
  BY DEF NamesInPlace
<1>0. /\ TypeOK /\ Backlog /\ InCommand /\ ~Ended
      /\ toServer \in Seq(Frame) /\ Pending \in Nat /\ (Pending = 0 <=> toServer = <<>>)
  BY EndedStays, Elements DEF IInv, TypeOK, Frame, Pending
<1>1. server # "garbled"
  BY DEF Next, ClientStep, WorkerStep, TypeCommand, Quit, PrintArrived, ServerLeft,
     RecvSignal, RecvSignalAtEof, PutNameAndExit, PutSendFails, GetName, GetSize,
     GetSizeAndExit, GetContentAtEof, GetGarbled, GarbledClientEnds, ServeSilently,
     MkdirReplies, SendMessage, MkdirPathTooLong, StartPut, PutName, PutAtEof, StartGet,
     GetSendSize, GetSendFails, GetOpenFails, ClientLeft, GarbledWorkerEnds,
     ResetDropsFrames, OtherSessionAborts, Receive, Ended
<1>2. /\ client # "exited" => server # "putSize"
      /\ client = "putName" /\ toServer = <<>> => server = "putName"
      /\ server = "putSize" => toServer = <<>>
      /\ client = "exited" => \A i \in 1..Pending : toServer[i].code = "name" =>
             i = Pending /\ (i = 1 => server = "putName")
             /\ (i > 1 => toServer[i - 1] = Full("put"))
  BY <1>0, <1>1 DEF NamesInPlace
<1>3. client # "exited" =>
          /\ \A i \in 1..Pending : toServer[i].code # "name"
          /\ client = "putName" /\ Pending > 0 => toServer[Pending] = Full("put")
  BY <1>0, OnlyCommandsUnderWay
<1>4. CASE TypeCommand
  <2>1. client = "prompt" /\ server' = server /\ toServer' # <<>>
    BY <1>0, <1>4, TypingFacts
  <2>2. client' # "exited"
    BY <1>4, AfterSendingIs DEF TypeCommand
  <2> QED
    BY <1>2, <2>1, <2>2 DEF NamesInPlace
\* The worker reads a command: only a put makes it wait, for the name that
\* follows.
<1>5. ASSUME NEW cmd \in Command, Receive(cmd), client' = client,
             server' # "putSize", server' = "putName" <=> cmd.code = "put"
      PROVE  NamesInPlace'
  <2>1. /\ server = "idle" /\ Pending > 0 /\ toServer # <<>> /\ toServer[1] = cmd
        /\ Pending' = Pending - 1 /\ (toServer' = <<>> <=> Pending = 1)
        /\ \A i \in 1..Pending - 1 : toServer'[i] = toServer[i + 1]
    BY <1>0, <1>5, ReadingFacts DEF Receive
  <2>2. ASSUME client = "putName", toServer' = <<>> PROVE server' = "putName"
    BY <1>0, <1>3, <1>5, <2>1, <2>2 DEF Full
  <2>3. ASSUME client = "exited", NEW i \in 1..Pending', toServer'[i].code = "name"
        PROVE  /\ i = Pending' /\ (i = 1 => server' = "putName")
               /\ (i > 1 => toServer'[i - 1] = Full("put"))
    <3>1. i \in 1..Pending - 1 /\ i + 1 \in 1..Pending /\ toServer'[i] = toServer[i + 1]
      BY <1>0, <2>1
    <3>2. i + 1 = Pending /\ toServer[i] = Full("put")
      BY <1>0, <1>2, <2>3, <3>1
    <3>3. i = 1 => server' = "putName"
      BY <1>5, <2>1, <3>2 DEF Full
    <3>4. i > 1 => toServer'[i - 1] = toServer[i]
      BY <1>0, <2>1, <3>1
    <3> QED
      BY <1>0, <2>1, <3>2, <3>3, <3>4
  <2> QED
    BY <1>5, <2>2, <2>3 DEF NamesInPlace
<1>6. CASE ServeSilently \/ MkdirReplies \/ MkdirPathTooLong \/ StartPut \/ StartGet
           \/ (GetSendFails /\ Reading)
  <2>1. \E cmd \in Command :
            /\ Receive(cmd) /\ client' = client /\ server' # "putSize"
            /\ server' = "putName" <=> cmd.code = "put"
    BY <1>6 DEF ServeSilently, MkdirReplies, MkdirPathTooLong, StartPut, StartGet,
       GetSendFails, Reading, Receive
  <2> QED
    BY <1>5, <2>1
\* What the worker takes for a name is one, or it is out of step.
<1>7. CASE PutName
  <2>1. /\ toServer # <<>> /\ toServer[1] = Head(toServer) /\ client' = client
        /\ Pending' = Pending - 1 /\ toServer' \in Seq(Frame) /\ server' = "putSize"
    BY <1>0, <1>7, HeadAndTail DEF PutName, Pending
  <2>2. toServer[1].code = "name" /\ 1 \in 1..Pending
    BY <1>0, <1>7, <2>1, Commands DEF PutName
  <2>3. client = "exited" /\ Pending = 1
    BY <1>2, <1>3, <2>2
  <2>4. toServer' = <<>>
    BY <2>1, <2>3, Elements DEF Pending
  <2>5. Pending' = 0
    BY <2>1, <2>3
  <2> QED
    BY <2>1, <2>3, <2>4, <2>5 DEF NamesInPlace
<1>8. CASE PutNameAndExit
  <2>1. /\ client = "putName" /\ client' = "exited" /\ server' = server
        /\ Pending' = Pending + 1
        /\ \A i \in 1..Pending : toServer'[i] = toServer[i]
    BY <1>0, <1>8, Commands, Appended DEF PutNameAndExit, Send, Pending, Frame
  <2>2. ASSUME NEW i \in 1..Pending', toServer'[i].code = "name"
        PROVE  /\ i = Pending' /\ (i = 1 => server' = "putName")
               /\ (i > 1 => toServer'[i - 1] = Full("put"))
    <3>1. i = Pending + 1
      BY <1>0, <1>3, <2>1, <2>2
    <3>2. i = 1 => server' = "putName"
      BY <1>0, <1>2, <2>1, <3>1
    <3>3. i > 1 => toServer'[i - 1] = Full("put")
      BY <1>0, <1>3, <2>1, <3>1
    <3> QED
      BY <2>1, <3>1, <3>2, <3>3
  <2> QED
    BY <1>2, <2>1, <2>2 DEF NamesInPlace
<1>9. CASE PutAtEof \/ ResetDropsFrames
  <2>1. client' = "exited" /\ toServer' = <<>> /\ Pending' = 0
    BY <1>9 DEF PutAtEof, ResetDropsFrames, ServerEof, Pending
  <2> QED
    BY <2>1 DEF NamesInPlace
<1>10. CASE Quit \/ ServerLeft \/ GarbledClientEnds \/ GetSizeAndExit
  <2>1. client # "exited" /\ client' = "exited" /\ UNCHANGED <<server, toServer>>
    BY <1>10 DEF Quit, ServerLeft, GarbledClientEnds, GetSizeAndExit
  <2> QED
    BY <1>2, <1>3, <2>1 DEF NamesInPlace, Pending
<1>11. CASE \/ RecvSignal \/ RecvSignalAtEof \/ PrintArrived \/ GetName \/ GetSize
            \/ GetContentAtEof \/ GetGarbled \/ PutSendFails
  <2>1. client' \notin {"exited", "putName"} /\ client # "exited"
        /\ UNCHANGED <<server, toServer>>
    BY <1>11 DEF RecvSignal, RecvSignalAtEof, PrintArrived, GetName, GetSize,
       GetContentAtEof, GetGarbled, PutSendFails
  <2> QED
    BY <1>2, <2>1 DEF NamesInPlace
<1>12. CASE SendMessage \/ GetSendSize \/ (GetSendFails /\ ~Reading)
  <2>1. /\ UNCHANGED <<client, toServer>>
        /\ server \notin Putting /\ server' \notin Putting
    BY <1>12 DEF SendMessage, GetSendSize, GetSendFails, Reading, Putting
  <2> QED
    BY <1>2, <2>1 DEF NamesInPlace, Putting, Pending
<1>13. CASE GetOpenFails \/ ClientLeft \/ GarbledWorkerEnds \/ OtherSessionAborts
  BY <1>13 DEF GetOpenFails, ClientLeft, GarbledWorkerEnds, OtherSessionAborts, Ended
<1> QED
  BY <1>4, <1>6, <1>7, <1>8, <1>9, <1>10, <1>11, <1>12, <1>13
     DEF Next, ClientStep, WorkerStep

-----------------------------------------------------------------------------
(* A client that has gone. *)

\* The value of StepsLeft.
LEMMA StepsLeftIs ==
    TypeOK => \E steps \in 0..3 :
        /\ StepsLeft = 3 * Pending + steps /\ Pending \in Nat
        /\ (Pending = 0 <=> toServer = <<>>)
        /\ steps = 3 <=> server = "putName"
        /\ steps = 1 <=> server = "idle"
        /\ steps = 0 <=> Ended
<1> SUFFICES ASSUME TypeOK
             PROVE  \E steps \in 0..3 :
                        /\ StepsLeft = 3 * Pending + steps /\ Pending \in Nat
                        /\ (Pending = 0 <=> toServer = <<>>)
                        /\ steps = 3 <=> server = "putName"
                        /\ steps = 1 <=> server = "idle"
                        /\ steps = 0 <=> Ended
  OBVIOUS
<1>1. Pending \in Nat /\ (Pending = 0 <=> toServer = <<>>)
  BY Elements DEF TypeOK, Pending
<1>2. CASE server = "putName"
  <2>1. StepsLeft = 3 * Pending + 3
    BY <1>2 DEF StepsLeft, Pending, Ended
  <2> QED
    BY <1>1, <1>2, <2>1 DEF Ended
<1>3. CASE server \in {"message", "putSize", "getOpen", "getNoFile", "garbled"}
  <2>1. StepsLeft = 3 * Pending + 2
    BY <1>3 DEF StepsLeft, Pending, Ended
  <2> QED
    BY <1>1, <1>3, <2>1 DEF Ended
<1>4. CASE server = "idle"
  <2>1. StepsLeft = 3 * Pending + 1
    BY <1>4 DEF StepsLeft, Pending, Ended
  <2> QED
    BY <1>1, <1>4, <2>1 DEF Ended
<1>5. CASE Ended
  <2>1. StepsLeft = 3 * Pending + 0
    BY <1>5 DEF StepsLeft, Pending, Ended
  <2> QED
    BY <1>1, <1>5, <2>1 DEF Ended
<1> QED
  BY <1>2, <1>3, <1>4, <1>5 DEF TypeOK, Ended

LEMMA GoneStepsDecrease ==
    TypeOK /\ TypeOK' /\ Next /\ client = "exited" => StepsLeft' < StepsLeft
<1> SUFFICES ASSUME TypeOK, TypeOK', Next, client = "exited" PROVE StepsLeft' < StepsLeft
  OBVIOUS
<1>1. PICK steps \in 0..3 :
          /\ StepsLeft = 3 * Pending + steps /\ Pending \in Nat
          /\ (Pending = 0 <=> toServer = <<>>)
          /\ steps = 3 <=> server = "putName"
          /\ steps = 1 <=> server = "idle"
          /\ steps = 0 <=> Ended
  BY StepsLeftIs
<1>2. StepsLeftIs'
  BY StepsLeftIs, PTL
<1>3. PICK stepsNext \in 0..3 :
          /\ StepsLeft' = 3 * Pending' + stepsNext /\ Pending' \in Nat
          /\ (Pending' = 0 <=> toServer' = <<>>)
          /\ stepsNext = 3 <=> server' = "putName"
          /\ stepsNext = 1 <=> server' = "idle"
          /\ stepsNext = 0 <=> Ended'
  BY <1>2
\* The client does nothing any more.
<1>4. ~(TypeCommand \/ Quit \/ ClientStep)
  BY DEF TypeCommand, Quit, ClientStep, PrintArrived, ServerLeft, RecvSignal,
     RecvSignalAtEof, PutNameAndExit, PutSendFails, GetName, GetSize, GetSizeAndExit,
     GetContentAtEof, GetGarbled, GarbledClientEnds
\* A frame counts three, so that reading one pays for what it starts.
<1>5. ASSUME Reading PROVE StepsLeft' < StepsLeft
  <2>1. server = "idle" /\ Pending' = Pending - 1
    BY <1>5, ReadingFacts DEF Reading
  <2> QED
    BY <1>1, <1>3, <2>1
<1>6. CASE ServeSilently \/ MkdirReplies \/ MkdirPathTooLong \/ StartPut \/ StartGet
           \/ (GetSendFails /\ Reading)
  BY <1>5, <1>6 DEF ServeSilently, MkdirReplies, MkdirPathTooLong, StartPut, StartGet, Reading
<1>7. CASE PutName
  <2>1. Pending' = Pending - 1
    BY <1>7, HeadAndTail DEF PutName, TypeOK, Pending
  <2>2. server = "putName" /\ server' # "putName"
    BY <1>7 DEF PutName
  <2> QED
    BY <1>1, <1>3, <2>1, <2>2
<1>8. CASE SendMessage \/ GetSendSize \/ PutAtEof \/ (GetSendFails /\ ~Reading)
  <2>1. /\ Pending' = Pending
        /\ server \in {"message", "getOpen", "putName", "putSize"}
        /\ server' \in {"idle", "aborted"}
    BY <1>8 DEF SendMessage, GetSendSize, PutAtEof, GetSendFails, Reading, Pending
  <2> QED
    BY <1>1, <1>3, <2>1 DEF Ended
<1>9. CASE GetOpenFails \/ ClientLeft \/ GarbledWorkerEnds \/ OtherSessionAborts
  <2>1. Pending' = Pending /\ ~Ended /\ Ended'
    BY <1>9 DEF GetOpenFails, ClientLeft, GarbledWorkerEnds, OtherSessionAborts, Pending,
       Ended
  <2> QED
    BY <1>1, <1>3, <2>1
<1>10. CASE ResetDropsFrames
  <2>1. Pending' = 0 /\ Pending > 0 /\ server' = server
    BY <1>1, <1>10 DEF ResetDropsFrames, Pending
  <2>2. Ended <=> Ended'
    BY <2>1 DEF Ended
  <2> QED
    BY <1>1, <1>3, <2>1, <2>2
<1> QED
  BY <1>4, <1>6, <1>7, <1>8, <1>9, <1>10 DEF Next, WorkerStep

-----------------------------------------------------------------------------
(* The properties. *)

LEMMA GarbledWorkerPreserved == IInv /\ Next => GarbledWorkerNeedsBarePut'
<1> SUFFICES ASSUME IInv, Next, server' = "garbled" PROVE BarePutTyped'
  BY DEF GarbledWorkerNeedsBarePut, BarePutTyped, Typed
<1>0. TypeOK /\ Backlog /\ PutsHaveNames /\ GarbledWorkerNeedsBarePut
  BY DEF IInv
<1>1. BarePutTyped => BarePutTyped'
  <2>1. CASE TypeCommand
    <3>1. Typed \in Nat /\ Typed' = Typed + 1 /\ \A i \in 1..Typed : typed'[i] = typed[i]
      BY <1>0, <2>1, TypingFacts
    <3>2. \A i \in 1..Typed : i \in 1..Typed'
      BY <3>1
    <3> QED
      BY <3>1, <3>2 DEF BarePutTyped
  <2>2. CASE typed' = typed
    BY <2>2 DEF BarePutTyped, Typed
  <2> QED
    BY <2>1, <2>2, FrameSteps
<1>2. CASE server = "garbled"
  BY <1>0, <1>1, <1>2 DEF GarbledWorkerNeedsBarePut, BarePutTyped, Typed
<1>3. CASE server # "garbled"
  <2>1. PutName
    BY <1>3 DEF Next, ClientStep, WorkerStep, TypeCommand, Quit, PrintArrived, ServerLeft,
       RecvSignal, RecvSignalAtEof, PutNameAndExit, PutSendFails, GetName, GetSize,
       GetSizeAndExit, GetContentAtEof, GetGarbled, GarbledClientEnds, ServeSilently,
       MkdirReplies, SendMessage, MkdirPathTooLong, StartPut, PutAtEof, StartGet,
       GetSendSize, GetSendFails, GetOpenFails, ClientLeft, GarbledWorkerEnds,
       ResetDropsFrames, OtherSessionAborts, Receive
  <2>2. /\ server = "putName" /\ ~Ended /\ toServer # <<>>
        /\ toServer \in Seq(Frame) /\ Head(toServer) \notin NameFrame
    BY <1>0, <2>1 DEF PutName, Ended, TypeOK, Frame
  <2>3. toServer[1] \in Frame /\ toServer[1].code # "name"
    BY <2>2, HeadAndTail, Commands
  <2>4. BarePutTyped
    <3> SUFFICES ASSUME ~BarePutTyped PROVE FALSE
      OBVIOUS
    <3>1. client = "putName" => toServer = <<>>
      BY <1>0, <2>2 DEF PutsHaveNames
    <3>2. client \in {"putName", "exited"}
      BY <1>0, <2>2 DEF PutsHaveNames, Putting
    <3>3. client = "exited" => toServer = <<>> \/ toServer[1].code = "name"
      BY <1>0, <2>2 DEF PutsHaveNames, NamesFollowPuts
    <3> QED
      BY <2>2, <2>3, <3>1, <3>2, <3>3
  <2> QED
    BY <1>1, <2>4
<1> QED
  BY <1>2, <1>3

LEMMA GarbledClientPreserved == IInv /\ Next => GarbledClientNeedsLeftOver'
<1> SUFFICES ASSUME IInv, Next, client' = "garbled", ~Ended' PROVE LeftOver'
  BY DEF GarbledClientNeedsLeftOver, LeftOver, Typed
<1>0. ~Ended /\ NothingLeft /\ GarbledClientNeedsLeftOver /\ toClient \in Seq(Unit)
  BY EndedStays DEF IInv, TypeOK
<1>1. typed' = typed
  BY AfterSendingIs, FrameSteps DEF TypeCommand
<1>2. CASE client = "garbled"
  BY <1>0, <1>1, <1>2 DEF GarbledClientNeedsLeftOver, LeftOver, Typed
<1>3. CASE client # "garbled"
  <2>1. GetGarbled
    BY <1>1, <1>3, AfterSendingIs DEF Next, ClientStep, WorkerStep, TypeCommand, Quit,
       PrintArrived, ServerLeft, RecvSignal, RecvSignalAtEof, PutNameAndExit,
       PutSendFails, GetName, GetSize, GetSizeAndExit, GetContentAtEof,
       GarbledClientEnds, ServeSilently, MkdirReplies, SendMessage, MkdirPathTooLong,
       StartPut, PutName, PutAtEof, StartGet, GetSendSize, GetSendFails, GetOpenFails,
       ClientLeft, GarbledWorkerEnds, ResetDropsFrames, OtherSessionAborts, Receive
  <2>2. client = "getName" /\ toClient # <<>> /\ Head(toClient) # "nlen"
    BY <1>0, <2>1 DEF GetGarbled, ClientEof
  <2>3. toClient[1] # "nlen"
    BY <1>0, <2>2, HeadAndTail
  <2> QED
    BY <1>0, <1>1, <2>2, <2>3 DEF NothingLeft, LeftOver, Typed
<1> QED
  BY <1>2, <1>3

LEMMA IInvInit == Init => IInv
<1> SUFFICES ASSUME Init PROVE IInv
  OBVIOUS
<1>1. Typed = 0 /\ Pending = 0 /\ typed = <<>>
  BY DEF Init, Typed, Pending
<1>2. TypeOK
  <2>1. /\ typed \in Seq(Command) /\ toServer \in Seq(Command \union NameFrame)
        /\ toClient \in Seq(Unit)
    BY EmptySeq DEF Init
  <2>2. Len(typed) <= MaxTyped
    BY <1>1, SessionAssumption DEF Typed
  <2> QED
    BY <2>1, <2>2 DEF Init, TypeOK
<1>3. Backlog /\ InCommand /\ Answered
  BY <1>1 DEF Init, Backlog, InCommand, Answered, Getting, AtPrompt, Putting
<1>4. PutsHaveNames /\ NothingLeft
  BY <1>1 DEF Init, PutsHaveNames, NothingLeft, Putting, Sending
<1>5. GarbledWorkerNeedsBarePut /\ GarbledClientNeedsLeftOver
  BY DEF Init, GarbledWorkerNeedsBarePut, GarbledClientNeedsLeftOver
<1> QED
  BY <1>2, <1>3, <1>4, <1>5 DEF IInv

\* The invariant on which the theorems rest.
THEOREM IInvInvariant == Spec => []IInv
<1>1. IInv /\ [Next]_vars => IInv'
  <2> SUFFICES ASSUME IInv, [Next]_vars PROVE IInv'
    OBVIOUS
  <2>1. CASE Next
    BY <2>1, TypesPreserved, BacklogPreserved, InCommandPreserved, AnsweredPreserved,
       PutsHaveNamesPreserved, NothingLeftPreserved, GarbledWorkerPreserved,
       GarbledClientPreserved DEF IInv
  <2>2. CASE UNCHANGED vars
    BY <2>2 DEF vars, IInv, TypeOK, Backlog, InCommand, Answered, PutsHaveNames,
       NamesFollowPuts, NothingLeft, LeftOver, BarePutTyped, GarbledWorkerNeedsBarePut,
       GarbledClientNeedsLeftOver, Ended, Typed, Pending
  <2> QED
    BY <2>1, <2>2
<1> QED
  BY <1>1, IInvInit, PTL DEF Spec

\* Every variable keeps its type, however many commands are typed.
THEOREM TypeCorrect == Spec => []TypeOK
<1>1. IInv => TypeOK
  BY DEF IInv
<1> QED
  BY <1>1, IInvInvariant, PTL

\* A worker gets out of step only if a put without an argument was typed
\* (cmdOpt.c:72-79, cmdHandle.c:146-155).
THEOREM WorkerGarbledByBarePut == Spec => []GarbledWorkerNeedsBarePut
<1>1. IInv => GarbledWorkerNeedsBarePut
  BY DEF IInv
<1> QED
  BY <1>1, IInvInvariant, PTL

\* A client's get gets out of step only if the server has ended or an earlier
\* command has left bytes unread (fileOpt.c:72-84, fileOpt.c:199-219).
THEOREM ClientGarbledByLeftOver == Spec => []GarbledClientNeedsLeftOver
<1>1. IInv => GarbledClientNeedsLeftOver
  BY DEF IInv
<1> QED
  BY <1>1, IInvInvariant, PTL

\* Client and worker wait for each other only over a command that the server
\* does not answer (fileOpt.c:72-111, cmdHandle.c:210-250).
THEOREM StuckOnlyWhenUnanswered == Spec => []StuckOnlyOnSilence
<1>1. IInv => StuckOnlyOnSilence
  <2> SUFFICES ASSUME IInv, ClientWaits, server = "idle", toServer = <<>> PROVE silent
    BY DEF StuckOnlyOnSilence, Quiet
  <2>1. /\ client = "signal" => Pending > 0 \/ silent \/ Len(toClient) >= Len(Signal)
        /\ client \in Getting => Pending > 0 \/ silent
    BY DEF IInv, Answered, Ended
  <2>2. Pending = 0 /\ Len(toClient) \in Nat /\ Len(Signal) = 2
    BY LenProperties DEF IInv, TypeOK, Pending, Signal
  <2> QED
    BY <2>1, <2>2 DEF ClientWaits, Getting
<1> QED
  BY <1>1, IInvInvariant, PTL

\* The command loop of a worker that has misread nothing finds commands only
\* (recvCmd.c:7-21, clientHandle.c:98-125, cmdHandle.c:146-157).
THEOREM NoNameIsReadAsCommand == Spec => []LoopFindsCommands
<1>1. IInv /\ NamesInPlace /\ [Next]_vars => NamesInPlace'
  <2>1. UNCHANGED vars /\ NamesInPlace => NamesInPlace'
    BY DEF vars, NamesInPlace, Ended, Pending
  <2> QED
    BY <2>1, NamesInPlacePreserved
<1>2. IInv /\ NamesInPlace => LoopFindsCommands
  <2> SUFFICES ASSUME IInv, NamesInPlace PROVE LoopFindsCommands
    OBVIOUS
  <2>1. ASSUME server = "idle", toServer # <<>> PROVE Head(toServer) \in Command
    <3>1. ~Ended /\ TypeOK /\ Backlog /\ toServer \in Seq(Frame)
      BY <2>1 DEF IInv, Ended, TypeOK, Frame
    <3>2. Head(toServer) = toServer[1] /\ toServer[1] \in Frame /\ Pending \in Nat /\ Pending > 0
      BY <2>1, <3>1, HeadAndTail DEF Pending
    <3>3. CASE client = "exited"
      <4>1. toServer[1].code # "name"
        BY <2>1, <3>1, <3>2, <3>3 DEF NamesInPlace
      <4> QED
        BY <3>2, <4>1, Commands DEF Frame
    <3>4. CASE client # "exited"
      BY <2>1, <3>1, <3>2, <3>4, ReadFrame
    <3> QED
      BY <3>3, <3>4
  <2> QED
    BY <2>1 DEF LoopFindsCommands
<1> QED
  BY <1>1, <1>2, NamesInPlaceInit, IInvInvariant, PTL DEF Spec

\* Once the client has gone, every step brings the session nearer to its end,
\* however many commands are still under way (clientHandle.c:75-134).
THEOREM SessionEndsAfterItsClient == Spec => SessionWindsDown
<1>1. TypeOK /\ TypeOK' /\ [Next]_vars => [client = "exited" => StepsLeft' < StepsLeft]_vars
  BY GoneStepsDecrease
<1> QED
  BY <1>1, TypeCorrect, PTL DEF Spec, SessionWindsDown
=============================================================================
