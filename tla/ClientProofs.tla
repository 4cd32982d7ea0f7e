---------------------------- MODULE ClientProofs ----------------------------
(***************************************************************************)
(* Client and worker stay in step, for any lines and any number of them    *)
(* (InStep).  The argument: as long as the worker is there, the two are in *)
(* one of four joint states, and these determine what is under way in both *)
(* directions, command frames aside.                                       *)
(***************************************************************************)
EXTENDS Client, SequenceTheorems, TLAPS

Waiting == worker \in {"queued", "name"}

NameFrame == [kind |-> "name", of |-> attempt]
PasswordFrame == [kind |-> "password", of |-> attempt]

\* The client reads name and password, or has ended before it was accepted.
Asks ==
    /\ client \in {"name", "password", "crypt", "exited"}
    /\ Waiting /\ toServer = <<>> /\ toClient = <<>>

\* The name is sent, the password is not.
HalfSent ==
    /\ client = "sending" /\ toClient = <<>>
    /\ \/ Waiting /\ toServer = <<NameFrame>>
       \/ worker = "password" /\ heard = attempt /\ toServer = <<>>

\* Both are sent, and the verdict is not read.
Waits ==
    /\ client = "reply"
    /\ \/ Waiting /\ toServer = <<NameFrame, PasswordFrame>> /\ toClient = <<>>
       \/ /\ worker = "password" /\ heard = attempt
          /\ toServer = <<PasswordFrame>> /\ toClient = <<>>
       \/ worker = "name" /\ toServer = <<>> /\ toClient = <<"AUTH_FAIL">>
       \/ worker = "session" /\ toServer = <<>> /\ toClient = <<"AUTH_RESULT_OK">>

\* The client has been accepted.
Commands ==
    /\ client \in {"loop", "executing", "exited"}
    /\ worker = "session" /\ toClient = <<>>
    /\ toServer \in Seq([kind : {"command"}, of : Nat])

Together == Asks \/ HalfSent \/ Waits \/ Commands

Verdicts ==
    /\ client # "reply" => toClient = <<>>
    /\ toClient \in {<<>>, <<"AUTH_RESULT_OK">>, <<"AUTH_FAIL">>}

IInv ==
    /\ attempt \in Nat
    /\ worker = "gone" <=> line # "up"
    /\ Verdicts
    /\ worker # "gone" => Together

-----------------------------------------------------------------------------
\* One and two frames, as sequences: what Head, Tail and Append make of them.
LEMMA Frames ==
    ASSUME NEW a, NEW b
    PROVE  /\ <<>> # <<a>> /\ <<>> # <<a, b>>
           /\ Append(<<>>, a) = <<a>> /\ Append(<<a>>, b) = <<a, b>>
           /\ Head(<<a>>) = a /\ Tail(<<a>>) = <<>>
           /\ Head(<<a, b>>) = a /\ Tail(<<a, b>>) = <<b>>
           /\ <<a>>[1] = a /\ <<a, b>>[1] = a
<1>1. <<>> # <<a>> /\ <<>> # <<a, b>>
  OBVIOUS
<1>2. Append(<<>>, a) = <<a>>
  OBVIOUS
<1>3. Append(<<a>>, b) = <<a, b>>
  <2> DEFINE S == {a, b}
             s == Append(<<a>>, b)
  <2>1. <<a>> \in Seq(S) /\ Len(<<a>>) = 1 /\ <<a>>[1] = a /\ b \in S
    OBVIOUS
  <2>2. s \in Seq(S) /\ Len(s) = 2 /\ s[1] = a /\ s[2] = b
    <3> HIDE DEF S
    <3> QED
      BY <2>1, AppendProperties
  <2>3. <<a, b>> \in Seq(S) /\ Len(<<a, b>>) = 2 /\ <<a, b>>[1] = a /\ <<a, b>>[2] = b
    OBVIOUS
  <2> HIDE DEF s, S
  <2>4. Len(s) = Len(<<a, b>>) /\ \A i \in 1..Len(s) : s[i] = <<a, b>>[i]
    <3> SUFFICES ASSUME NEW i \in 1..2 PROVE s[i] = <<a, b>>[i]
      BY <2>2, <2>3
    <3> i = 1 \/ i = 2
      OBVIOUS
    <3> QED
      BY <2>2, <2>3
  <2>5. s = <<a, b>>
    BY <2>2, <2>3, <2>4, SeqEqual
  <2> QED
    BY <2>5 DEF s
<1>4. Head(<<a>>) = a /\ Head(<<a, b>>) = a
  OBVIOUS
<1>5. Tail(<<a>>) = <<>>
  OBVIOUS
<1>6. Tail(<<a, b>>) = <<b>>
  OBVIOUS
<1>7. <<a>>[1] = a /\ <<a, b>>[1] = a
  OBVIOUS
<1> QED
  BY <1>1, <1>2, <1>3, <1>4, <1>5, <1>6, <1>7

LEMMA IInvImpliesInStep == IInv => InStep
<1> SUFFICES ASSUME IInv PROVE InStep
  OBVIOUS
<1> USE DEF IInv, Verdicts
<1>1. CASE worker = "gone"
  BY <1>1 DEF InStep, InLoop
<1>2. CASE worker # "gone" /\ Asks
  BY <1>2 DEF InStep, InLoop, Asks, Waiting
<1>3. CASE worker # "gone" /\ HalfSent
  BY <1>3 DEF InStep, InLoop, HalfSent, Waiting, NameFrame
<1>4. CASE worker # "gone" /\ Waits
  BY <1>4 DEF InStep, InLoop, Waits, Waiting, NameFrame, PasswordFrame
<1>5. CASE worker # "gone" /\ Commands
  <2> \A i \in 1..Len(toServer) : toServer[i] \in [kind : {"command"}, of : Nat]
    BY <1>5, ElementOfSeq DEF Commands
  <2> \A i \in 1..Len(toServer) : toServer[i].kind = "command"
    OBVIOUS
  <2> QED
    BY <1>5 DEF InStep, InLoop, Commands
<1> QED
  BY <1>1, <1>2, <1>3, <1>4, <1>5 DEF Together

LEMMA IInvInit == Init => IInv
  BY DEF Init, IInv, Verdicts, Together, Asks, Waiting

-----------------------------------------------------------------------------
\* Steps that leave the protocol alone, but for the client's place among those
\* where it asks or those where it has ended.
LEMMA QuietSteps ==
    ASSUME IInv,
           UNCHANGED <<attempt, workerVars, netVars>>,
           \/ client' = client
           \/ /\ client \in {"name", "password", "crypt"}
              /\ client' \in {"name", "password", "crypt", "exited"}
           \/ /\ client \in {"loop", "executing"}
              /\ client' \in {"loop", "executing", "exited"}
           \/ line # "up" /\ client' # "reply" /\ toClient = <<>>
    PROVE  IInv'
<1> USE DEF IInv, Verdicts, workerVars, netVars
<1>1. CASE worker = "gone"
  BY <1>1
<1>2. CASE worker # "gone" /\ Asks
  BY <1>2 DEF Together, Asks, Waiting
<1>3. CASE worker # "gone" /\ HalfSent
  BY <1>3 DEF Together, HalfSent, Waiting, NameFrame
<1>4. CASE worker # "gone" /\ Waits
  BY <1>4 DEF Together, Waits, Waiting, NameFrame, PasswordFrame
<1>5. CASE worker # "gone" /\ Commands
  BY <1>5 DEF Together, Commands
<1> QED
  BY <1>1, <1>2, <1>3, <1>4, <1>5 DEF Together

\* What a successful or a failed send does while the worker is there.
LEMMA SendWhileUp ==
    ASSUME IInv, worker # "gone", NEW kind, SendOk(kind) \/ SendFails
    PROVE  /\ toServer' = Append(toServer, [kind |-> kind, of |-> attempt'])
           /\ UNCHANGED <<toClient, line>>
  BY DEF IInv, SendOk, SendFails

\* And after it has gone.
LEMMA SendAfterGone ==
    ASSUME IInv, worker = "gone", NEW kind, SendOk(kind) \/ SendFails
    PROVE  line' # "up" /\ toClient' = toClient
  BY DEF IInv, SendOk, SendFails, netVars

LEMMA SendNameStep == IInv /\ SendName => IInv'
<1> SUFFICES ASSUME IInv, SendName PROVE IInv'
  OBVIOUS
<1>0. /\ client = "crypt" /\ attempt' = attempt + 1 /\ attempt' \in Nat
      /\ worker' = worker /\ toClient = <<>> /\ client' # "reply"
      /\ SendOk("name") \/ SendFails
  BY DEF SendName, IInv, Verdicts, workerVars
<1>1. CASE worker = "gone"
  BY <1>0, <1>1, SendAfterGone DEF IInv, Verdicts
<1>2. CASE worker # "gone"
  <2>1. Asks
    BY <1>0, <1>2 DEF IInv, Together, Asks, HalfSent, Waits, Commands
  <2>2. toServer' = <<NameFrame'>>
    BY <1>0, <1>2, <2>1, SendWhileUp, Frames DEF Asks, NameFrame
  <2>3. client' = "sending" /\ line' = line /\ toClient' = <<>>
    BY <1>0, <1>2, SendWhileUp DEF SendName, IInv, SendFails
  <2>4. HalfSent'
    BY <1>0, <2>1, <2>2, <2>3 DEF HalfSent, Asks, Waiting
  <2> QED
    BY <1>0, <1>2, <2>3, <2>4 DEF IInv, Verdicts, Together
<1> QED
  BY <1>1, <1>2

LEMMA SendPasswordStep == IInv /\ SendPassword => IInv'
<1> SUFFICES ASSUME IInv, SendPassword PROVE IInv'
  OBVIOUS
<1>0. /\ client = "sending" /\ attempt' = attempt /\ attempt' \in Nat
      /\ worker' = worker /\ heard' = heard /\ toClient = <<>>
      /\ SendOk("password") \/ SendFails
  BY DEF SendPassword, IInv, Verdicts, workerVars
<1>1. CASE worker = "gone"
  BY <1>0, <1>1, SendAfterGone DEF IInv, Verdicts
<1>2. CASE worker # "gone"
  <2>1. HalfSent
    BY <1>0, <1>2 DEF IInv, Together, Asks, HalfSent, Waits, Commands
  <2>2. /\ toServer' = Append(toServer, PasswordFrame')
        /\ client' = "reply" /\ line' = line /\ toClient' = <<>>
    BY <1>0, <1>2, SendWhileUp DEF SendPassword, IInv, SendFails, PasswordFrame
  <2>3. NameFrame' = NameFrame /\ PasswordFrame' = PasswordFrame
    BY <1>0 DEF NameFrame, PasswordFrame
  <2>4. ASSUME Waiting, toServer = <<NameFrame>> PROVE Waits'
    <3>1. toServer' = <<NameFrame', PasswordFrame'>>
      BY <2>2, <2>3, <2>4, Frames
    <3> QED
      BY <1>0, <2>2, <2>4, <3>1 DEF Waits, Waiting
  <2>5. ASSUME worker = "password", heard = attempt, toServer = <<>> PROVE Waits'
    <3>1. toServer' = <<PasswordFrame'>>
      BY <2>2, <2>5, Frames
    <3> QED
      BY <1>0, <2>2, <2>5, <3>1 DEF Waits
  <2> QED
    BY <1>0, <1>2, <2>1, <2>2, <2>4, <2>5 DEF IInv, Verdicts, Together, HalfSent
<1> QED
  BY <1>1, <1>2

LEMMA ReadReplyStep == IInv /\ ReadReply => IInv'
<1> SUFFICES ASSUME IInv, ReadReply PROVE IInv'
  OBVIOUS
<1>0. /\ client = "reply" /\ toClient # <<>> /\ client' \in {"loop", "name"}
      /\ UNCHANGED <<attempt, worker, heard, toServer, line>>
  BY DEF ReadReply, workerVars
<1>1. CASE toClient = <<"AUTH_RESULT_OK">>
  <2>1. toClient' = <<>> /\ client' = "loop"
    BY <1>1, Frames DEF ReadReply
  <2>2. worker # "gone" => worker = "session" /\ toServer = <<>>
    BY <1>0, <1>1 DEF IInv, Together, Asks, HalfSent, Waits, Commands
  <2>3. toServer = <<>> => toServer \in Seq([kind : {"command"}, of : Nat])
    OBVIOUS
  <2> QED
    BY <1>0, <2>1, <2>2, <2>3 DEF IInv, Verdicts, Together, Commands
<1>2. CASE toClient = <<"AUTH_FAIL">>
  <2>1. toClient' = <<>> /\ client' = "name"
    BY <1>2, Frames DEF ReadReply
  <2>2. worker # "gone" => worker = "name" /\ toServer = <<>>
    BY <1>0, <1>2 DEF IInv, Together, Asks, HalfSent, Waits, Commands
  <2> QED
    BY <1>0, <2>1, <2>2 DEF IInv, Verdicts, Together, Asks, Waiting
<1> QED
  BY <1>0, <1>1, <1>2 DEF IInv, Verdicts

LEMMA ReadCommandStep == IInv /\ ReadCommand => IInv'
<1> SUFFICES ASSUME IInv, ReadCommand PROVE IInv'
  OBVIOUS
<1>0. client = "loop" /\ UNCHANGED <<attempt, worker, heard>>
  BY DEF ReadCommand, workerVars
<1>1. CASE UNCHANGED <<client, netVars>>
  BY <1>0, <1>1, QuietSteps DEF workerVars, netVars
<1>2. CASE client' = "executing" /\ (SendOk("command") \/ SendFails)
  <2>1. CASE worker = "gone"
    BY <1>0, <1>2, <2>1, SendAfterGone DEF IInv, Verdicts
  <2>2. CASE worker # "gone"
    <3> DEFINE F == [kind : {"command"}, of : Nat]
    <3>1. worker = "session" /\ toClient = <<>> /\ toServer \in Seq(F)
      BY <1>0, <2>2 DEF IInv, Together, Asks, HalfSent, Waits, Commands
    <3>2. /\ toServer' = Append(toServer, [kind |-> "command", of |-> attempt'])
          /\ UNCHANGED <<toClient, line>>
      BY <1>2, <2>2, SendWhileUp
    <3>3. [kind |-> "command", of |-> attempt'] \in F
      BY <1>0 DEF IInv
    <3>4. toServer' \in Seq(F)
      <4> HIDE DEF F
      <4> QED
        BY <3>1, <3>2, <3>3, AppendProperties
    <3> QED
      BY <1>0, <1>2, <2>2, <3>1, <3>2, <3>4 DEF IInv, Verdicts, Together, Commands
  <2> QED
    BY <2>1, <2>2
<1> QED
  BY <1>1, <1>2 DEF ReadCommand

LEMMA ReceiveNameStep == IInv /\ ReceiveName => IInv'
<1> SUFFICES ASSUME IInv, ReceiveName PROVE IInv'
  OBVIOUS
<1>0. /\ worker = "name" /\ toServer # <<>> /\ worker' = "password"
      /\ heard' = Head(toServer).of /\ toServer' = Tail(toServer)
      /\ UNCHANGED <<client, attempt, toClient, line>>
  BY DEF ReceiveName
<1>1. NameFrame.of = attempt /\ PasswordFrame' = PasswordFrame
  BY <1>0 DEF NameFrame, PasswordFrame
<1>2. \/ HalfSent /\ toServer = <<NameFrame>>
      \/ /\ Waits /\ toServer = <<NameFrame, PasswordFrame>>
         /\ toClient = <<>>
  BY <1>0 DEF IInv, Together, Asks, HalfSent, Waits, Commands
<1>3. CASE HalfSent /\ toServer = <<NameFrame>>
  <2>1. heard' = attempt /\ toServer' = <<>>
    BY <1>0, <1>1, <1>3, Frames
  <2> QED
    BY <1>0, <1>3, <2>1 DEF IInv, Verdicts, Together, HalfSent
<1>4. CASE Waits /\ toServer = <<NameFrame, PasswordFrame>> /\ toClient = <<>>
  <2>1. heard' = attempt /\ toServer' = <<PasswordFrame'>>
    BY <1>0, <1>1, <1>4, Frames
  <2> QED
    BY <1>0, <1>4, <2>1 DEF IInv, Verdicts, Together, Waits
<1> QED
  BY <1>2, <1>3, <1>4

LEMMA ReceivePasswordStep == IInv /\ ReceivePassword => IInv'
<1> SUFFICES ASSUME IInv, ReceivePassword PROVE IInv'
  OBVIOUS
<1>0. /\ worker = "password" /\ toServer # <<>> /\ toServer' = Tail(toServer)
      /\ UNCHANGED <<client, attempt, heard>>
  BY DEF ReceivePassword
<1>1. /\ client = "reply" /\ toServer = <<PasswordFrame>> /\ toClient = <<>>
      /\ line = "up"
  BY <1>0 DEF IInv, Together, Asks, HalfSent, Waits, Commands, Waiting
<1>2. toServer' = <<>>
  BY <1>0, <1>1, Frames
<1>3. CASE worker' = "session" /\ line' = line /\ toClient' = <<"AUTH_RESULT_OK">>
  BY <1>0, <1>1, <1>2, <1>3 DEF IInv, Verdicts, Together, Waits
<1>4. CASE worker' = "name" /\ line' = line /\ toClient' = <<"AUTH_FAIL">>
  BY <1>0, <1>1, <1>2, <1>4 DEF IInv, Verdicts, Together, Waits
<1>5. CASE worker' = "gone" /\ line' = "closed" /\ toClient' = toClient
  BY <1>0, <1>1, <1>5 DEF IInv, Verdicts
<1> QED
  BY <1>1, <1>3, <1>4, <1>5, Frames DEF ReceivePassword

LEMMA ServeCommandStep == IInv /\ ServeCommand => IInv'
<1> SUFFICES ASSUME IInv, ServeCommand PROVE IInv'
  OBVIOUS
<1> DEFINE F == [kind : {"command"}, of : Nat]
<1>0. /\ worker = "session" /\ toServer # <<>> /\ toServer' = Tail(toServer)
      /\ UNCHANGED <<client, attempt, worker, heard, toClient, line>>
  BY DEF ServeCommand, workerVars
<1>1. Commands /\ toServer \in Seq(F)
  BY <1>0 DEF IInv, Together, Asks, HalfSent, Waits, Commands, Waiting
<1>2. toServer' \in Seq(F)
  <2> HIDE DEF F
  <2> QED
    BY <1>0, <1>1, HeadTailProperties
<1> QED
  BY <1>0, <1>1, <1>2 DEF IInv, Verdicts, Together, Commands

\* The worker leaves, in whatever state the two are.
LEMMA WorkerLeaves ==
    ASSUME IInv, SeeClientLeave \/ ServerEnds
    PROVE  IInv'
  BY DEF SeeClientLeave, ServerEnds, IInv, Verdicts

-----------------------------------------------------------------------------
LEMMA LoginSteps == IInv /\ handle_authen_event => IInv'
<1> SUFFICES ASSUME IInv, handle_authen_event PROVE IInv'
  OBVIOUS
<1>1. CASE FillStdio
  BY <1>1, QuietSteps DEF FillStdio
<1>2. CASE GetName
  BY <1>2, QuietSteps DEF GetName
<1>3. CASE GetPassword
  BY <1>3, QuietSteps DEF GetPassword
<1>4. CASE LoginInputEnds
  BY <1>4, QuietSteps DEF LoginInputEnds
<1>5. CASE CryptFails
  BY <1>5, QuietSteps DEF CryptFails
<1>6. CASE SendName
  BY <1>6, SendNameStep
<1>7. CASE SendPassword
  BY <1>7, SendPasswordStep
<1>8. CASE ReadReply
  BY <1>8, ReadReplyStep
<1>9. CASE ReadReplyAtEof
  BY <1>9, QuietSteps DEF ReadReplyAtEof
<1> QED
  BY <1>1, <1>2, <1>3, <1>4, <1>5, <1>6, <1>7, <1>8, <1>9
     DEF handle_authen_event, handle_authentication

LEMMA LoopSteps == IInv /\ EventLoop => IInv'
<1> SUFFICES ASSUME IInv, EventLoop PROVE IInv'
  OBVIOUS
<1>1. CASE ReadCommand
  BY <1>1, ReadCommandStep
<1>2. CASE CommandEnds
  BY <1>2, QuietSteps DEF CommandEnds
<1>3. CASE LoopEnds
  BY <1>3, QuietSteps DEF LoopEnds
<1> QED
  BY <1>1, <1>2, <1>3 DEF EventLoop

LEMMA WorkerSteps == IInv /\ WorkerStep => IInv'
<1> SUFFICES ASSUME IInv, WorkerStep PROVE IInv'
  OBVIOUS
<1>1. CASE TakeClient
  BY <1>1 DEF TakeClient, IInv, Verdicts, Together, Asks, HalfSent, Waits, Commands,
              Waiting, NameFrame, PasswordFrame, netVars
<1>2. CASE ReceiveName
  BY <1>2, ReceiveNameStep
<1>3. CASE ReceivePassword
  BY <1>3, ReceivePasswordStep
<1>4. CASE ServeCommand
  BY <1>4, ServeCommandStep
<1>5. CASE SeeClientLeave
  BY <1>5, WorkerLeaves
<1> QED
  BY <1>1, <1>2, <1>3, <1>4, <1>5 DEF WorkerStep, WorkerServes

\* The joint state of client and worker is one of the four in every reachable
\* state.
THEOREM IInvInvariant == Spec => []IInv
<1>1. IInv /\ [Next]_vars => IInv'
  <2> SUFFICES ASSUME IInv, [Next]_vars PROVE IInv'
    OBVIOUS
  <2>1. CASE TypeLine
    BY <2>1, QuietSteps DEF TypeLine
  <2>2. CASE CloseInput
    BY <2>2, QuietSteps DEF CloseInput
  <2>3. CASE handle_authen_event
    BY <2>3, LoginSteps
  <2>4. CASE EventLoop
    BY <2>4, LoopSteps
  <2>5. CASE WorkerStep
    BY <2>5, WorkerSteps
  <2>6. CASE ServerEnds
    BY <2>6, WorkerLeaves
  <2>7. CASE UNCHANGED vars
    BY <2>7, QuietSteps DEF vars
  <2> QED
    BY <2>1, <2>2, <2>3, <2>4, <2>5, <2>6, <2>7 DEF Next
<1> QED
  BY <1>1, IInvInit, PTL DEF Spec

\* Whatever fails, the worker pairs name and password of one attempt, takes only
\* commands for commands, and serves them to a client that it has accepted
\* (encryption.c:45-72, clientsendMessage.c:45-73, sendMessage.c:59-77).
THEOREM ClientAndWorkerInStep == Spec => []InStep
  BY IInvInvariant, IInvImpliesInStep, PTL

-----------------------------------------------------------------------------
LEMMA IInvImpliesNoMutualWait == IInv => NoMutualWait
<1> SUFFICES ASSUME IInv, client = "reply", worker \notin {"queued", "gone"},
                    toServer = <<>>
             PROVE  toClient # <<>>
  BY DEF NoMutualWait
<1>1. Waits
  BY DEF IInv, Together, Asks, HalfSent, Commands
<1> QED
  BY <1>1, Frames DEF Waits, Waiting

\* Client and worker never wait for each other during a login, the safety half
\* of VerdictArrives (encryption.c:59-60, sendMessage.c:63-77).
THEOREM ClientAndWorkerDoNotDeadlock == Spec => []NoMutualWait
  BY IInvInvariant, IInvImpliesNoMutualWait, PTL

-----------------------------------------------------------------------------
(* The login protocol. *)

\* What the mapping reads, before and after a step.
UserIs ==
    /\ client \in {"name", "password", "crypt", "sending"} => User = "asking"
    /\ client = "reply" => User = "submitted"
    /\ client \in {"loop", "executing"} => User = "accepted"
    /\ client = "exited" => User = "left"

ServerIs ==
    /\ worker \in {"queued", "name", "password"} => Server = "open" /\ Pending = 0
    /\ worker = "session" => Server = "serving" /\ Pending = Len(toServer)
    /\ worker = "gone" => Server = "gone" /\ Pending = 0

VerdictIs ==
    /\ toClient = <<>> => Verdict = "none"
    /\ toClient = <<"AUTH_RESULT_OK">> => Verdict = "AUTH_RESULT_OK"
    /\ toClient = <<"AUTH_FAIL">> => Verdict = "AUTH_FAIL"

MappingIs == UserIs /\ ServerIs /\ VerdictIs

LEMMA Mapping == MappingIs
<1>1. UserIs
  <2>1. client \in {"name", "password", "crypt", "sending"} => User = "asking"
    BY DEF User
  <2>2. client = "reply" => User = "submitted"
    BY DEF User
  <2>3. client \in {"loop", "executing"} => User = "accepted"
    BY DEF User
  <2>4. client = "exited" => User = "left"
    BY DEF User
  <2> QED
    BY <2>1, <2>2, <2>3, <2>4 DEF UserIs
<1>2. ServerIs
  BY DEF ServerIs, Server, Pending
<1>3. VerdictIs
  BY Frames DEF VerdictIs, Verdict
<1> QED
  BY <1>1, <1>2, <1>3 DEF MappingIs

LEMMA MappingNext == MappingIs'
  BY Mapping, PTL

LEMMA ProtocolInit == Init => Protocol!Init
  BY Mapping DEF Init, Protocol!Init, MappingIs, UserIs, ServerIs, VerdictIs

\* The places of client and worker.
Places ==
    /\ client \in {"name", "password", "crypt", "sending", "reply", "loop", "executing",
                   "exited"}
    /\ worker \in {"queued", "name", "password", "session", "gone"}

LEMMA PlacesStep == Places /\ [Next]_vars => Places'
<1> SUFFICES ASSUME Places, [Next]_vars PROVE Places'
  OBVIOUS
<1> USE DEF Places
<1>1. CASE handle_authen_event
  BY <1>1 DEF handle_authen_event, handle_authentication, FillStdio, GetName, GetPassword,
              LoginInputEnds, CryptFails, SendName, SendPassword, ReadReply,
              ReadReplyAtEof, workerVars
<1>2. CASE EventLoop
  BY <1>2 DEF EventLoop, ReadCommand, CommandEnds, LoopEnds, workerVars
<1>3. CASE WorkerStep
  BY <1>3 DEF WorkerStep, WorkerServes, TakeClient, ReceiveName, ReceivePassword,
              ServeCommand, SeeClientLeave, workerVars
<1>4. CASE TypeLine \/ CloseInput \/ ServerEnds \/ UNCHANGED vars
  BY <1>4 DEF TypeLine, CloseInput, ServerEnds, vars, workerVars
<1> QED
  BY <1>1, <1>2, <1>3, <1>4 DEF Next

LEMMA PlacesInvariant == Spec => []Places
<1>1. Init => Places
  BY DEF Init, Places
<1> QED
  BY <1>1, PlacesStep, PTL DEF Spec

View == <<User, Server, Verdict, Pending>>

LEMMA StutterSteps ==
    ASSUME UNCHANGED <<workerVars, netVars>>,
           \/ client' = client
           \/ {client, client'} \subseteq {"name", "password", "crypt", "sending"}
           \/ {client, client'} \subseteq {"loop", "executing"}
    PROVE  UNCHANGED View
<1>1. User' = User
  BY DEF User
<1>2. UNCHANGED <<Server, Verdict, Pending>>
  BY DEF Server, Verdict, Pending, workerVars, netVars
<1> QED
  BY <1>1, <1>2 DEF View

LEMMA LeaveSteps ==
    ASSUME UNCHANGED <<workerVars, netVars>>, client' = "exited",
           client \in {"name", "password", "loop", "executing"}
    PROVE  Protocol!Leave
<1>1. UNCHANGED <<Server, Verdict, Pending>>
  BY DEF Server, Verdict, Pending, workerVars, netVars
<1>2. User \in {"asking", "accepted"} /\ User' = "left"
  BY Mapping, MappingNext DEF MappingIs, UserIs
<1> QED
  BY <1>1, <1>2 DEF Protocol!Leave

\* What the worker's place and the replies are when the client sends.
LEMMA SendViews ==
    ASSUME IInv, Places, client \in {"crypt", "sending"},
           NEW kind, SendOk(kind) \/ SendFails, UNCHANGED workerVars
    PROVE  /\ UNCHANGED <<Server, Verdict, Pending>>
           /\ SendFails => worker = "gone"
<1>1. toClient' = toClient /\ worker' = worker /\ (SendFails => worker = "gone")
  BY DEF SendOk, SendFails, netVars, workerVars, IInv
<1>2. worker # "session"
  BY DEF IInv, Together, Asks, HalfSent, Waits, Commands, Waiting
<1> QED
  BY <1>1, <1>2 DEF Server, Verdict, Pending

LEMMA SendSteps ==
    ASSUME IInv, Places, SendName \/ SendPassword
    PROVE  Protocol!Next \/ UNCHANGED View
<1> USE Mapping, MappingNext DEF MappingIs, UserIs
<1>1. CASE SendName
  <2>1. User = "asking" /\ User' = "asking"
    BY <1>1 DEF SendName
  <2>2. UNCHANGED <<Server, Verdict, Pending>>
    BY <1>1, SendViews DEF SendName
  <2> QED
    BY <2>1, <2>2 DEF View
<1>2. CASE SendPassword
  <2>1. User = "asking" /\ User' \in {"asking", "submitted"}
    BY <1>2 DEF SendPassword
  <2>2. UNCHANGED <<Server, Verdict, Pending>>
    BY <1>2, SendViews DEF SendPassword
  <2> QED
    BY <2>1, <2>2 DEF View, Protocol!Next, Protocol!Submit
<1> QED
  BY <1>1, <1>2

LEMMA ReplySteps ==
    ASSUME IInv, Places, ReadReply \/ ReadReplyAtEof
    PROVE  Protocol!Next
<1> USE Mapping, MappingNext DEF MappingIs, UserIs, VerdictIs
<1>1. CASE ReadReply
  <2>1. /\ toClient = <<"AUTH_RESULT_OK">> \/ toClient = <<"AUTH_FAIL">>
        /\ UNCHANGED <<Server, Pending>>
    BY <1>1 DEF ReadReply, IInv, Verdicts, Server, Pending, workerVars
  <2>2. User = "submitted" /\ Verdict' = "none"
    BY <1>1, <2>1, Frames DEF ReadReply
  <2>3. /\ Verdict # "none"
        /\ User' = IF Verdict = "AUTH_RESULT_OK" THEN "accepted" ELSE "asking"
    BY <1>1, <2>1, Frames DEF ReadReply
  <2> QED
    BY <2>1, <2>2, <2>3 DEF Protocol!Next, Protocol!Learn
<1>2. CASE ReadReplyAtEof
  <2>1. User = "submitted" /\ User' \in {"asking", "left"} /\ Verdict = "none"
    BY <1>2 DEF ReadReplyAtEof
  <2>2. Server = "gone"
    BY <1>2 DEF ReadReplyAtEof, IInv, ServerIs
  <2>3. UNCHANGED <<Server, Verdict, Pending>>
    BY <1>2 DEF ReadReplyAtEof, Server, Verdict, Pending, workerVars, netVars
  <2> QED
    BY <2>1, <2>2, <2>3 DEF Protocol!Next, Protocol!LearnNothing
<1> QED
  BY <1>1, <1>2

LEMMA ReadCommandViews ==
    ASSUME IInv, Places, ReadCommand
    PROVE  Protocol!Next \/ UNCHANGED View
<1>0. client = "loop" /\ UNCHANGED workerVars
  BY DEF ReadCommand
<1>1. CASE UNCHANGED <<client, netVars>>
  BY <1>0, <1>1, StutterSteps
<1>2. CASE client' = "executing" /\ (SendOk("command") \/ SendFails)
  <2>1. User = "accepted" /\ User' = "accepted"
    BY <1>0, <1>2, Mapping, MappingNext DEF MappingIs, UserIs
  <2>2. UNCHANGED <<Server, Verdict>>
    BY <1>0, <1>2 DEF SendOk, SendFails, Server, Verdict, workerVars, netVars
  <2>3. CASE worker = "gone"
    BY <1>0, <2>1, <2>2, <2>3 DEF View, Pending, workerVars
  <2>4. CASE worker # "gone"
    <3> DEFINE F == [kind : {"command"}, of : Nat]
    <3>1. worker = "session" /\ toServer \in Seq(F) /\ attempt' \in Nat
      BY <1>0, <2>4 DEF IInv, Together, Asks, HalfSent, Waits, Commands, ReadCommand
    <3>2. toServer' = Append(toServer, [kind |-> "command", of |-> attempt'])
      BY <1>2, <2>4, SendWhileUp
    <3>3. Len(toServer') = Len(toServer) + 1
      <4>1. [kind |-> "command", of |-> attempt'] \in F
        BY <3>1
      <4> HIDE DEF F
      <4> QED
        BY <3>1, <3>2, <4>1, AppendProperties
    <3>4. Server = "serving" /\ Pending' = Pending + 1
      BY <1>0, <3>1, <3>3 DEF Server, Pending, workerVars
    <3> QED
      BY <2>1, <2>2, <3>4 DEF Protocol!Next, Protocol!Command
  <2> QED
    BY <2>3, <2>4
<1> QED
  BY <1>1, <1>2 DEF ReadCommand

LEMMA ReceivePasswordViews ==
    ASSUME IInv, Places, ReceivePassword
    PROVE  Protocol!Next
<1> USE Mapping, MappingNext DEF MappingIs, UserIs, ServerIs, VerdictIs
<1>1. /\ worker = "password" /\ client = "reply" /\ toServer = <<PasswordFrame>>
      /\ toClient = <<>> /\ client' = client
  BY DEF ReceivePassword, IInv, Together, Asks, HalfSent, Waits, Commands, Waiting
<1>2. toServer' = <<>> /\ Len(toServer') = 0
  BY <1>1, Frames DEF ReceivePassword
<1>3. /\ User = "submitted" /\ User' = "submitted" /\ Server = "open" /\ Verdict = "none"
      /\ Pending = 0
  BY <1>1
<1>4. CASE worker' = "session" /\ toClient' = Append(toClient, "AUTH_RESULT_OK")
  <2>1. Server' = "serving" /\ Pending' = 0 /\ Verdict' = "AUTH_RESULT_OK"
    BY <1>1, <1>2, <1>4, Frames
  <2> QED
    BY <1>3, <2>1 DEF Protocol!Next, Protocol!Judge
<1>5. CASE worker' = "name" /\ toClient' = Append(toClient, "AUTH_FAIL")
  <2>1. Server' = "open" /\ Pending' = 0 /\ Verdict' = "AUTH_FAIL"
    BY <1>1, <1>5, Frames
  <2> QED
    BY <1>3, <2>1 DEF Protocol!Next, Protocol!Judge
<1>6. CASE worker' = "gone" /\ toClient' = toClient
  <2>1. Server' = "gone" /\ Pending' = 0 /\ Verdict' = "none"
    BY <1>1, <1>6
  <2> QED
    BY <1>3, <2>1 DEF Protocol!Next, Protocol!Close
<1> QED
  BY <1>4, <1>5, <1>6 DEF ReceivePassword

LEMMA ServeCommandViews ==
    ASSUME IInv, Places, ServeCommand
    PROVE  Protocol!Next
<1> DEFINE F == [kind : {"command"}, of : Nat]
<1>0. /\ worker = "session" /\ worker' = "session" /\ toServer # <<>>
      /\ toServer' = Tail(toServer) /\ UNCHANGED <<client, toClient>>
  BY DEF ServeCommand, workerVars
<1>1. toServer \in Seq(F)
  BY <1>0 DEF IInv, Together, Asks, HalfSent, Waits, Commands, Waiting
<1>2. Len(toServer) \in Nat /\ Len(toServer) > 0 /\ Len(toServer') = Len(toServer) - 1
  <2> HIDE DEF F
  <2>1. Len(toServer) \in Nat /\ Len(toServer) # 0
    BY <1>0, <1>1, EmptySeq, LenProperties
  <2> QED
    BY <1>0, <1>1, <2>1, HeadTailProperties
<1>3. UNCHANGED <<User, Server, Verdict>> /\ Server = "serving"
  BY <1>0 DEF User, Server, Verdict
<1>4. Pending > 0 /\ Pending' = Pending - 1
  BY <1>0, <1>2 DEF Pending
<1> QED
  BY <1>3, <1>4 DEF Protocol!Next, Protocol!Execute

LEMMA CloseViews ==
    ASSUME Places, worker # "gone", worker' = "gone", UNCHANGED <<client, toClient>>
    PROVE  Protocol!Next
<1>1. Server # "gone" /\ Server' = "gone" /\ Pending' = 0
  BY Mapping, MappingNext DEF MappingIs, ServerIs, Places
<1>2. UNCHANGED <<User, Verdict>>
  BY DEF User, Verdict
<1> QED
  BY <1>1, <1>2 DEF Protocol!Next, Protocol!Close

LEMMA LoginViews ==
    ASSUME IInv, Places, handle_authen_event
    PROVE  Protocol!Next \/ UNCHANGED View
<1>1. CASE FillStdio
  BY <1>1, StutterSteps DEF FillStdio
<1>2. CASE GetName
  BY <1>2, StutterSteps DEF GetName
<1>3. CASE GetPassword
  BY <1>3, StutterSteps DEF GetPassword
<1>4. CASE LoginInputEnds
  BY <1>4, LeaveSteps DEF LoginInputEnds, Protocol!Next
<1>5. CASE CryptFails
  BY <1>5, StutterSteps DEF CryptFails
<1>6. CASE SendName \/ SendPassword
  BY <1>6, SendSteps
<1>7. CASE ReadReply \/ ReadReplyAtEof
  BY <1>7, ReplySteps
<1> QED
  BY <1>1, <1>2, <1>3, <1>4, <1>5, <1>6, <1>7
     DEF handle_authen_event, handle_authentication

LEMMA LoopViews ==
    ASSUME IInv, Places, EventLoop
    PROVE  Protocol!Next \/ UNCHANGED View
<1>1. CASE ReadCommand
  BY <1>1, ReadCommandViews
<1>2. CASE CommandEnds /\ client' = "loop"
  BY <1>2, StutterSteps DEF CommandEnds
<1>3. CASE CommandEnds /\ client' = "exited"
  BY <1>3, LeaveSteps DEF CommandEnds, Protocol!Next
<1>4. CASE LoopEnds
  BY <1>4, LeaveSteps DEF LoopEnds, Protocol!Next
<1> QED
  BY <1>1, <1>2, <1>3, <1>4 DEF EventLoop, CommandEnds

LEMMA WorkerViews ==
    ASSUME IInv, Places, WorkerStep \/ ServerEnds
    PROVE  Protocol!Next \/ UNCHANGED View
<1>1. CASE TakeClient
  BY <1>1 DEF TakeClient, View, User, Server, Verdict, Pending, netVars
<1>2. CASE ReceiveName
  BY <1>2 DEF ReceiveName, View, User, Server, Verdict, Pending
<1>3. CASE ReceivePassword
  BY <1>3, ReceivePasswordViews
<1>4. CASE ServeCommand
  BY <1>4, ServeCommandViews
<1>5. CASE SeeClientLeave \/ ServerEnds
  BY <1>5, CloseViews DEF SeeClientLeave, ServerEnds
<1> QED
  BY <1>1, <1>2, <1>3, <1>4, <1>5 DEF WorkerStep, WorkerServes

\* Client and worker implement the login protocol: a submission is judged at most
\* once, the client is accepted by a verdict on its submission and by nothing
\* else, and commands are executed only for accepted clients, each once
\* (encryption.c:45-75, sendMessage.c:59-122, clientHandle.c:51-135).
THEOREM ClientImplementsProtocol == Spec => ImplementsProtocol
<1>1. IInv /\ Places /\ [Next]_vars => [Protocol!Next]_(Protocol!vars)
  <2> SUFFICES ASSUME IInv, Places, [Next]_vars
               PROVE  Protocol!Next \/ UNCHANGED View
    BY DEF View, Protocol!vars
  <2>1. CASE TypeLine
    BY <2>1, StutterSteps DEF TypeLine
  <2>2. CASE CloseInput
    BY <2>2, StutterSteps DEF CloseInput
  <2>3. CASE handle_authen_event
    BY <2>3, LoginViews
  <2>4. CASE EventLoop
    BY <2>4, LoopViews
  <2>5. CASE WorkerStep \/ ServerEnds
    BY <2>5, WorkerViews
  <2>6. CASE UNCHANGED vars
    BY <2>6, StutterSteps DEF vars
  <2> QED
    BY <2>1, <2>2, <2>3, <2>4, <2>5, <2>6 DEF Next
<1> QED
  BY <1>1, ProtocolInit, IInvInvariant, PlacesInvariant, PTL
     DEF Spec, ImplementsProtocol, Protocol!Spec
=============================================================================
