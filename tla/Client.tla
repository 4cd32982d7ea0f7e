------------------------------- MODULE Client -------------------------------
(***************************************************************************)
(* The client from its connection to its end (client.c): it asks for name  *)
(* and password until the server accepts them (handle_authen_event,        *)
(* encryption.c, clientsendMessage.c), then reads commands from standard   *)
(* input and executes them (handle_stdin_event, cmdOpt.c).                 *)
(*                                                                         *)
(* Two things make it more than a loop.  It reads standard input through   *)
(* stdio's buffer first and with read() later: a terminal delivers one     *)
(* line at a time, a pipe everything that is there, and read() at most     *)
(* 1023 bytes of it, so that a line may be cut.  And it follows a          *)
(* protocol without types or acknowledgements with a worker that may       *)
(* leave at any time.  Trains and commands are whole here (ByteStream);    *)
(* the worker is reduced to its side of the protocol (Login), an executed  *)
(* command to how it ends (Session).                                       *)
(***************************************************************************)
EXTENDS Integers, Sequences

CONSTANTS
    Token,      \* words
    Line,       \* lines a user may type, each a sequence of words
    Long,       \* the one among them that is longer than username and fits
                \* username and password together
    Halves,     \* in which two words a read may cut each word
    MaxLines    \* how many are typed, parts of cut ones included (bound)

ASSUME ClientAssumption ==
    /\ Line \subseteq Seq(Token) /\ Long \in Line
    /\ Halves \in [Token -> SUBSET (Token \X Token)]
    /\ MaxLines \in Nat

VARIABLES
    source,     \* what standard input is: "terminal" or "pipe"
    typed,      \* the lines typed so far, a line that a read has cut as two
    cut,        \* history variable: the first parts of such lines
    inputOpen,  \* more may be typed
    next,       \* the first line the client has not read
    stdio,      \* the lines in stdin's buffer, first and last
    half,       \* the first of them is long and its first part is taken
    client,     \* where the client is
    attempt,    \* how many times it has started to send credentials
    chunk,      \* the lines that the last read() has returned, first and last
    pcmdArg,    \* the command parsed from them
    worker,     \* where the worker is
    heard,      \* history variable: the attempt whose name it has received
    toServer,   \* trains and commands on their way to the worker
    toClient,   \* replies on their way to the client
    line        \* "up", "closed" by the worker, "reset" by an answer to that

inputVars == <<typed, cut, inputOpen>>
readVars == <<next, stdio, half>>
loopVars == <<chunk, pcmdArg>>
workerVars == <<worker, heard>>
netVars == <<toServer, toClient, line>>
vars == <<source, inputVars, readVars, client, attempt, loopVars, workerVars, netVars>>

Code == {"cd", "ls", "pwd", "rm", "put", "get", "mkdir"}
\* arg holds the argument, if there is one.
Invalid == [code |-> "invalid", arg |-> {}]

Init ==
    /\ source \in {"terminal", "pipe"}
    /\ typed = <<>> /\ cut = {} /\ inputOpen = TRUE
    /\ next = 1 /\ stdio = <<1, 0>> /\ half = FALSE
    /\ client = "name" /\ attempt = 0
    /\ chunk = <<1, 0>> /\ pcmdArg = Invalid
    /\ worker = "queued" /\ heard = 0
    /\ toServer = <<>> /\ toClient = <<>> /\ line = "up"

-----------------------------------------------------------------------------
(* Standard input. *)

TypeLine ==
    /\ inputOpen /\ Len(typed) < MaxLines
    /\ \E words \in Line : typed' = Append(typed, words)
    /\ UNCHANGED <<source, cut, inputOpen, readVars, client, attempt, loopVars, workerVars,
                   netVars>>

CloseInput ==
    /\ inputOpen
    /\ inputOpen' = FALSE
    /\ UNCHANGED <<source, typed, cut, readVars, client, attempt, loopVars, workerVars,
                   netVars>>

\* Up to which line there is something for one read of standard input.
LastRead == IF source = "terminal" THEN next ELSE Len(typed)

AtEof == next > Len(typed) /\ ~inputOpen

StdioEmpty == stdio[1] > stdio[2]

\* fgets fills its buffer when that is empty; what is there fits it (bound).
FillStdio ==
    /\ client \in {"name", "password"}
    /\ StdioEmpty /\ next <= Len(typed)
    /\ stdio' = <<next, LastRead>> /\ half' = half
    /\ next' = LastRead + 1
    /\ UNCHANGED <<source, inputVars, client, attempt, loopVars, workerVars, netVars>>

\* It takes a line, or one of the two parts of a long one.
fgets ==
    /\ ~StdioEmpty
    /\ half' = (typed[stdio[1]] = Long /\ ~half)
    /\ stdio' = IF half' THEN stdio ELSE <<stdio[1] + 1, stdio[2]>>
    /\ next' = next

\* Mutant: scanf for fgets, which leaves the newline in the buffer.
GetPasswordByScanf ==
    /\ client = "password" /\ ~StdioEmpty
    /\ client' = "crypt"
    /\ UNCHANGED <<source, inputVars, readVars, attempt, loopVars, workerVars, netVars>>

GetName ==
    /\ client = "name" /\ fgets
    /\ client' = "password"
    /\ UNCHANGED <<source, inputVars, attempt, loopVars, workerVars, netVars>>

GetPassword ==
    /\ client = "password" /\ fgets
    /\ client' = "crypt"
    /\ UNCHANGED <<source, inputVars, attempt, loopVars, workerVars, netVars>>

\* Mutant: fgets's NULL is taken for an empty answer.
LoginInputContinues ==
    /\ client \in {"name", "password"} /\ StdioEmpty /\ AtEof
    /\ client' = IF client = "name" THEN "password" ELSE "crypt"
    /\ UNCHANGED <<source, inputVars, readVars, attempt, loopVars, workerVars, netVars>>

LoginInputEnds ==
    /\ client \in {"name", "password"} /\ StdioEmpty /\ AtEof
    /\ client' = "exited"
    /\ UNCHANGED <<source, inputVars, readVars, attempt, loopVars, workerVars, netVars>>

-----------------------------------------------------------------------------
(* Sending the credentials and reading the verdict. *)

\* After the worker has closed sends succeed until a reset has arrived, the
\* answer to one of them.
SendOk(kind) ==
    /\ \/ /\ line = "up"
          /\ toServer' = Append(toServer, [kind |-> kind, of |-> attempt'])
          /\ line' = line
       \/ line = "closed" /\ toServer' = toServer /\ line' \in {"closed", "reset"}
    /\ UNCHANGED toClient

SendFails == line # "up" /\ UNCHANGED netVars

\* crypt may fail: nothing is sent.  Mutant: the client waits for a reply all
\* the same.
CryptFailsUnnoticed ==
    /\ client = "crypt"
    /\ client' = "reply"
    /\ UNCHANGED <<source, inputVars, readVars, attempt, loopVars, workerVars, netVars>>

CryptFails ==
    /\ client = "crypt"
    /\ client' = "name"
    /\ UNCHANGED <<source, inputVars, readVars, attempt, loopVars, workerVars, netVars>>

SendName ==
    /\ client = "crypt"
    /\ attempt' = attempt + 1
    /\ \/ SendOk("name") /\ client' = "sending"
       \/ SendFails /\ client' = "name"
    /\ UNCHANGED <<source, inputVars, readVars, loopVars, workerVars>>

SendPassword ==
    /\ client = "sending"
    /\ attempt' = attempt
    /\ \/ SendOk("password") /\ client' = "reply"
       \/ SendFails /\ client' = "name"
    /\ UNCHANGED <<source, inputVars, readVars, loopVars, workerVars>>

\* Mutant: the reply is compared up to the length of "AUTH_" only.
ReadReplyByPrefix ==
    /\ client = "reply" /\ toClient # <<>>
    /\ toClient' = Tail(toClient)
    /\ client' = "loop"
    /\ UNCHANGED <<source, inputVars, readVars, attempt, loopVars, workerVars, toServer,
                   line>>

ReadReply ==
    /\ client = "reply" /\ toClient # <<>>
    /\ toClient' = Tail(toClient)
    /\ client' = IF Head(toClient) = "AUTH_RESULT_OK" THEN "loop" ELSE "name"
    /\ UNCHANGED <<source, inputVars, readVars, attempt, loopVars, workerVars, toServer,
                   line>>

\* The worker has left: recvn's report is ignored.  Length and text are what
\* the stack holds, at most an earlier refusal; too long a length ends the
\* client.
ReadReplyAtEof ==
    /\ client = "reply" /\ toClient = <<>> /\ line # "up"
    /\ client' \in {"name", "exited"}
    /\ UNCHANGED <<source, inputVars, readVars, attempt, loopVars, workerVars, netVars>>

-----------------------------------------------------------------------------
(* The event loop. *)

\* A word is a place in the lines; strtok_r takes the newlines between lines for
\* blanks.
Words(lines, range) ==
    UNION {{i} \X (1..Len(lines[i])) : i \in range[1]..range[2]}
Word(lines, p) == lines[p[1]][p[2]]
Before(p, q) == p[1] < q[1] \/ (p[1] = q[1] /\ p[2] < q[2])
First(places) == CHOOSE p \in places : \A q \in places : q = p \/ Before(p, q)

OneOrTwo(places) == \E p, q \in places : places = {p, q}
FirstWord(lines, places) == Word(lines, First(places))
Others(lines, places) == {Word(lines, p) : p \in places \ {First(places)}}

\* Mutants: a word that is no command's name passes for one; the
\* initialisation of *pcmdArg is dropped, and an earlier argument stays.
cmdCutUnchecked(lines, words) ==
    IF OneOrTwo(words)
    THEN [code |-> FirstWord(lines, words), arg |-> Others(lines, words)]
    ELSE Invalid

cmdCutStale(lines, words) ==
    IF OneOrTwo(words) /\ FirstWord(lines, words) \in Code
    THEN [code |-> FirstWord(lines, words),
          arg |-> IF Others(lines, words) = {} THEN pcmdArg.arg ELSE Others(lines, words)]
    ELSE Invalid

cmdCut(lines, words) ==
    IF OneOrTwo(words) /\ FirstWord(lines, words) \in Code
    THEN [code |-> FirstWord(lines, words), arg |-> Others(lines, words)]
    ELSE Invalid

\* The test meant for the commands 4 to 7 looks at argFlag_ and never succeeds.
cmdVeri(cmd) == cmd # Invalid /\ (cmd.code = "pwd" => cmd.arg = {})

\* The two parts in which a read may cut a line: between words or within one.
Parts(words) ==
    {<<SubSeq(words, 1, k), SubSeq(words, k + 1, Len(words))>> : k \in 0..Len(words)}
    \union UNION {{<<Append(SubSeq(words, 1, k - 1), h[1]),
                    <<h[2]>> \o SubSeq(words, k + 1, Len(words))>> : h \in Halves[words[k]]}
                  : k \in 1..Len(words)}

CutLine(i, parts) == SubSeq(typed, 1, i - 1) \o parts \o SubSeq(typed, i + 1, Len(typed))

\* What is there may not fit the 1023 bytes that read() takes: it ends at an
\* earlier line, or within one, and the next read begins there.
ReadLines(last) ==
    /\ chunk' = <<next, last>> /\ next' = last + 1
    /\ \/ typed' = typed /\ cut' = cut
       \/ /\ Len(typed) < MaxLines
          /\ \E parts \in Parts(typed[last]) : typed' = CutLine(last, parts)
          /\ cut' = cut \union {last}

\* read() from standard input, past what stdin's buffer holds; the command is
\* parsed and, if it is one, sent.  sendCmd's result is ignored.
ReadCommand ==
    /\ client = "loop" /\ next <= Len(typed)
    /\ \E last \in next..LastRead : ReadLines(last)
    /\ pcmdArg' = cmdCut(typed', Words(typed', chunk'))
    /\ attempt' = attempt
    /\ IF cmdVeri(pcmdArg')
       THEN /\ client' = "executing"
            /\ SendOk("command") \/ SendFails
       ELSE UNCHANGED <<client, netVars>>
    /\ UNCHANGED <<source, inputOpen, stdio, half, workerVars>>

\* recvSignal and the transfers return, or the client exits (Session).
CommandEnds ==
    /\ client = "executing"
    /\ client' \in {"loop", "exited"}
    /\ UNCHANGED <<source, inputVars, readVars, attempt, loopVars, workerVars, netVars>>

\* End of input, or the worker has left.
LoopEnds ==
    /\ client = "loop"
    /\ AtEof \/ line # "up"
    /\ client' = "exited"
    /\ UNCHANGED <<source, inputVars, readVars, attempt, loopVars, workerVars, netVars>>

-----------------------------------------------------------------------------
(* The worker's side: handle_authen_event and handleClient. *)

TakeClient ==
    /\ worker = "queued"
    /\ worker' = "name"
    /\ UNCHANGED <<source, inputVars, readVars, client, attempt, loopVars, heard, netVars>>

ReceiveName ==
    /\ worker = "name" /\ toServer # <<>>
    /\ heard' = Head(toServer).of
    /\ toServer' = Tail(toServer)
    /\ worker' = "password"
    /\ UNCHANGED <<source, inputVars, readVars, client, attempt, loopVars, toClient, line>>

\* The verdict is sent, or clientPath is full and the worker closes.  Mutants:
\* authenticateUser returns something that UserAuthen does not know, and
\* UserAuthen sends nothing; a refusal ends the login as an acceptance does.
ReceivePasswordSilently ==
    /\ worker = "password" /\ toServer # <<>>
    /\ toServer' = Tail(toServer)
    /\ worker' = "name"
    /\ UNCHANGED <<source, inputVars, readVars, client, attempt, loopVars, heard, toClient,
                   line>>

ReceivePasswordOnce ==
    /\ worker = "password" /\ toServer # <<>>
    /\ toServer' = Tail(toServer)
    /\ worker' = "session"
    /\ \E verdict \in {"AUTH_RESULT_OK", "AUTH_FAIL"} : toClient' = Append(toClient, verdict)
    /\ UNCHANGED <<source, inputVars, readVars, client, attempt, loopVars, heard, line>>

ReceivePassword ==
    /\ worker = "password" /\ toServer # <<>>
    /\ toServer' = Tail(toServer)
    /\ \/ /\ worker' = "session" /\ line' = line
          /\ toClient' = Append(toClient, "AUTH_RESULT_OK")
       \/ /\ worker' = "name" /\ line' = line
          /\ toClient' = Append(toClient, "AUTH_FAIL")
       \/ worker' = "gone" /\ line' = "closed" /\ toClient' = toClient
    /\ UNCHANGED <<source, inputVars, readVars, client, attempt, loopVars, heard>>

ServeCommand ==
    /\ worker = "session" /\ toServer # <<>>
    /\ toServer' = Tail(toServer)
    /\ UNCHANGED <<source, inputVars, readVars, client, attempt, loopVars, workerVars,
                   toClient, line>>

\* The client has left (DisconnectFreesWorker, WorkerSeesClientLeave).
SeeClientLeave ==
    /\ client = "exited" /\ worker \notin {"queued", "gone"}
    /\ worker' = "gone" /\ line' = "closed"
    /\ UNCHANGED <<source, inputVars, readVars, client, attempt, loopVars, heard, toServer,
                   toClient>>

\* The server process ends.
ServerEnds ==
    /\ worker # "gone"
    /\ worker' = "gone" /\ line' = "closed"
    /\ UNCHANGED <<source, inputVars, readVars, client, attempt, loopVars, heard, toServer,
                   toClient>>

-----------------------------------------------------------------------------
handle_authentication ==
    CryptFails \/ SendName \/ SendPassword \/ ReadReply \/ ReadReplyAtEof
handle_authen_event ==
    FillStdio \/ GetName \/ GetPassword \/ LoginInputEnds \/ handle_authentication
EventLoop == ReadCommand \/ CommandEnds \/ LoopEnds
WorkerServes == ReceiveName \/ ReceivePassword \/ ServeCommand \/ SeeClientLeave
WorkerStep == TakeClient \/ WorkerServes

Next ==
    \/ TypeLine \/ CloseInput
    \/ handle_authen_event \/ EventLoop
    \/ WorkerStep \/ ServerEnds

Spec == Init /\ [][Next]_vars

(***************************************************************************)
(* Fairness: the client's login runs on, and the worker once it has taken  *)
(* the client.  TakeClient is not fair: a queued client gets a worker only *)
(* if sessions before it end (QueuedIsServed in ThreadPool).  Nothing is   *)
(* assumed of the user or of commands, which need not end (Session).       *)
(***************************************************************************)
FairSpec == Spec /\ WF_vars(handle_authen_event) /\ WF_vars(WorkerServes)

-----------------------------------------------------------------------------
(* Properties. *)

InLoop == client \in {"loop", "executing"}

\* Every variable keeps its type.
TypeOK ==
    /\ source \in {"terminal", "pipe"}
    /\ typed \in Seq(Seq(Token)) /\ cut \subseteq 1..MaxLines /\ inputOpen \in BOOLEAN
    /\ next \in 1..Len(typed) + 1
    /\ stdio \in (1..next) \X (0..next - 1) /\ half \in BOOLEAN
    /\ client \in {"name", "password", "crypt", "sending", "reply", "loop", "executing",
                   "exited"}
    /\ attempt \in 0..MaxLines
    /\ chunk \in (1..MaxLines + 1) \X (0..MaxLines)
    /\ pcmdArg \in [code : Code \union {"invalid"}, arg : SUBSET Token]
    /\ worker \in {"queued", "name", "password", "session", "gone"}
    /\ heard \in 0..MaxLines
    /\ toServer \in Seq([kind : {"name", "password", "command"}, of : 1..MaxLines])
    /\ toClient \in Seq({"AUTH_RESULT_OK", "AUTH_FAIL"})
    /\ line \in {"up", "closed", "reset"}

\* Client and worker stay in step without types or acknowledgements, whatever
\* fails: what the worker takes for a name and a password are those of one
\* attempt, what it takes for commands are commands, and a client that executes
\* commands has been accepted and has no verdict left to read
\* (encryption.c:45-72, clientsendMessage.c:45-73, sendMessage.c:59-77).
InStep ==
    /\ worker = "name" /\ toServer # <<>> => toServer[1].kind = "name"
    /\ worker = "password" =>
        /\ heard = attempt
        /\ toServer # <<>> => toServer[1] = [kind |-> "password", of |-> heard]
    /\ worker = "session" => \A i \in 1..Len(toServer) : toServer[i].kind = "command"
    /\ InLoop => worker \in {"session", "gone"} /\ toClient = <<>>

\* Lines that fgets has read ahead are lost to the loop, which uses read().  That
\* happens only to the lines of a pipe and to the rest of one line too long for
\* the buffer it was read into: with a terminal every other line typed before
\* or after the verdict reaches the loop (client.c:96-103, client.c:42).
LostLinesArePipedOrLong ==
    InLoop /\ ~StdioEmpty =>
        \/ source = "pipe"
        \/ stdio[1] = stdio[2] /\ typed[stdio[1]] = Long /\ half

\* A command is made of the words of one read: the first is the code and the
\* second, if there is one, the argument.  From a terminal they are those of one
\* line, as it was typed unless it was too long for a read: then its beginning is
\* one command and the rest another.  From a pipe lines may also be run together,
\* the words of the second taken for the argument of the first (client.c:42-63,
\* cmdOpt.c:11-62).
CommandIsTheLine ==
    client = "executing" =>
        /\ source = "terminal" => chunk[1] = chunk[2]
        /\ \A i \in chunk[1]..chunk[2] : i \in cut \/ i - 1 \in cut \/ typed[i] \in Line
        /\ \E p \in Words(typed, chunk) :
               /\ Word(typed, p) = pcmdArg.code
               /\ \/ Words(typed, chunk) = {p} /\ pcmdArg.arg = {}
                  \/ \E q \in Words(typed, chunk) :
                         /\ Words(typed, chunk) = {p, q} /\ Before(p, q)
                         /\ pcmdArg.arg = {Word(typed, q)}

\* Never does the client wait for a verdict while the worker, with nothing left
\* to read, waits for the client (encryption.c:59-60, sendMessage.c:63-77): the
\* last return of UserAuthen sends nothing (sendMessage.c:120-121).
NoMutualWait ==
    ~ /\ client = "reply" /\ toClient = <<>>
      /\ worker \notin {"queued", "gone"} /\ toServer = <<>>

\* What user and server are in the login protocol, and what is under way.
User ==
    CASE client \in {"name", "password", "crypt", "sending"} -> "asking"
      [] client = "reply" -> "submitted"
      [] client \in {"loop", "executing"} -> "accepted"
      [] client = "exited" -> "left"
Server ==
    CASE worker \in {"queued", "name", "password"} -> "open"
      [] worker = "session" -> "serving"
      [] worker = "gone" -> "gone"
Verdict == IF toClient = <<>> THEN "none" ELSE Head(toClient)
Pending == IF worker = "session" THEN Len(toServer) ELSE 0

Protocol == INSTANCE LoginProtocol WITH
    user <- User, server <- Server, verdict <- Verdict, pending <- Pending

\* Client and worker implement the login protocol: one verdict for one
\* submission, and commands for accepted users only (encryption.c:45-75,
\* sendMessage.c:59-122, clientHandle.c:51-135).
ImplementsProtocol == Protocol!Spec

\* A client that waits for the verdict gets one or learns that there is none,
\* unless it stays in the queue for ever: client and worker never wait for each
\* other (encryption.c:59-60, sendMessage.c:66-77).
VerdictArrives == client = "reply" ~> client # "reply" \/ [](worker = "queued")

\* When standard input ends during the login, the login ends, however often it
\* was refused and even if the server has gone, unless the client waits for the
\* verdict in a queue that no worker takes it from (client.c:93-122).
LoginEndsWithInput ==
    ~inputOpen ~> \/ InLoop \/ client = "exited"
                  \/ [](client = "reply" /\ worker = "queued")
=============================================================================
