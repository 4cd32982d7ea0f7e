-------------------------------- MODULE Login --------------------------------
(***************************************************************************)
(* Authentication in the server: handle_authen_event (clientHandle.c),     *)
(* UserAuthen (sendMessage.c) and authenticateUser (authen.c), run by      *)
(* every worker for its own client, and the mkdir of cmdHandle.c that uses *)
(* the outcome.                                                            *)
(*                                                                         *)
(* The workers share two pieces of memory without a lock: the character    *)
(* array clientPath, to which every successful login appends "/name", and  *)
(* the static entry that getspnam returns.  Each access to them is a step  *)
(* of its own.  Two history variables say when the workers have met there: *)
(* the server is right as long as they have not.  A name is one character  *)
(* long, so a path of n names takes 1 + 2n cells and the terminating NUL:  *)
(* lengths are kept, spelling is not.  A password is identified with the   *)
(* user whose shadow entry it matches.                                     *)
(***************************************************************************)
EXTENDS Integers, Sequences

CONSTANTS
    Worker,         \* the workers
    User,           \* users with an entry in the shadow file
    Other,          \* a name, or a password, of nobody
    Base,           \* the directory clientPath starts with, one cell
    Nul, Slash,     \* characters
    MAX_PATH_LEN    \* size of clientPath

ASSUME LoginAssumption ==
    /\ MAX_PATH_LEN \in Nat /\ MAX_PATH_LEN > 1
    /\ User \intersect {Other, Base, Nul, Slash} = {}
    /\ Nul \notin {Base, Slash} /\ Base # Slash

VARIABLES
    clientPath,     \* shared: the array, indexed from 0
    spwd,           \* shared: whose entry getspnam's static buffer holds
    wpc,            \* where each worker is
    peer,           \* its client: "none", "here", "gone", "resetting", "reset"
    username,       \* what the client sent, or Other
    password,
    authRet,        \* AUTH_RESULT_...: verdict of the attempt
    pathLen,        \* local copy of strlen(clientPath)
    catAt,          \* where strncat has found the end of clientPath
    overrun,        \* a store has missed the array
    log,            \* history variable: names appended, until workers overlap
    overlapped,     \* history variable: two workers have appended at once
    disturbed       \* history variable: another lookup since the worker's own

arrayVars == <<clientPath, overrun>>
pathVars == <<arrayVars, log, overlapped>>
entryVars == <<spwd, disturbed>>
attemptVars == <<username, password, authRet>>
localVars == <<pathLen, catAt>>
vars == <<pathVars, entryVars, wpc, peer, attemptVars, localVars>>

Index == 0..MAX_PATH_LEN - 1
Char == User \union {Base, Nul, Slash}

\* strlen; a path without a NUL has no length inside the array.
StrLen ==
    IF \A i \in Index : clientPath[i] # Nul
    THEN MAX_PATH_LEN
    ELSE CHOOSE i \in Index : /\ clientPath[i] = Nul
                              /\ \A j \in 0..i - 1 : clientPath[j] # Nul

Path == [i \in 1..StrLen |-> clientPath[i - 1]]

\* A client that has left is gone; once something has been sent to it a reset is
\* on its way, "resetting", until it has arrived.
Left == {"gone", "resetting", "reset"}

Goto(w, label) == wpc' = [wpc EXCEPT ![w] = label]
Return(w, ret) == authRet' = [authRet EXCEPT ![w] = ret]

\* Locals that are not read again are forgotten.  A session keeps the name and
\* a mismatch keeps both, for the properties that are about them.
Leave(w, name) ==
    /\ username' = [username EXCEPT ![w] = name]
    /\ password' = [password EXCEPT ![w] = Other]

Init ==
    /\ clientPath = [i \in Index |-> IF i = 0 THEN Base ELSE Nul]
    /\ overrun = FALSE
    /\ log = <<>>
    /\ spwd = Other
    /\ wpc = [w \in Worker |-> "idle"]
    /\ peer = [w \in Worker |-> "none"]
    /\ username = [w \in Worker |-> Other]
    /\ password = [w \in Worker |-> Other]
    /\ authRet = [w \in Worker |-> "OK"]
    /\ pathLen = [w \in Worker |-> 0]
    /\ catAt = [w \in Worker |-> 0]
    /\ overlapped = FALSE
    /\ disturbed = [w \in Worker |-> FALSE]

-----------------------------------------------------------------------------
(* Receiving a name and a password, and looking them up. *)

\* The worker has taken a client from the queue.
TakeClient(w) ==
    /\ wpc[w] = "idle"
    /\ peer' = [peer EXCEPT ![w] = "here"]
    /\ Goto(w, "recv")
    /\ UNCHANGED <<pathVars, entryVars, attemptVars, localVars>>

Receive(w, name, word) ==
    /\ wpc[w] = "recv"
    /\ username' = [username EXCEPT ![w] = name]
    /\ password' = [password EXCEPT ![w] = word]
    /\ Goto(w, "lookup")
    /\ UNCHANGED <<pathVars, entryVars, peer, authRet, localVars>>

\* A client that has left may have sent both before.  It waits for the verdict
\* before it sends more, so after a reply to it nothing is left to read.
ReceiveCredentials(w) ==
    /\ peer[w] \in {"here", "gone"}
    /\ \E name, word \in User \union {Other} : Receive(w, name, word)

\* The client has left: recvn reports it, UserAuthen ignores the report and
\* goes on with an empty name or an empty password.
ReceiveNothing(w) ==
    /\ peer[w] \in Left
    /\ \E name \in User \union {Other} :
        /\ peer[w] # "gone" => name = Other
        /\ Receive(w, name, Other)

\* getspnam's static entry now holds what w has looked up.
Disturb(w) ==
    disturbed' = [v \in Worker |-> v # w /\ (disturbed[v] \/ wpc[v] = "compare")]

\* An entry that no other worker is to compare with is forgotten.
Kept(w, user) == IF \E v \in Worker \ {w} : wpc[v] = "compare" THEN user ELSE Other

\* getspnam reads the shadow file into its static entry until it finds the name.
LookupFound(w) ==
    /\ wpc[w] = "lookup"
    /\ username[w] \in User
    /\ spwd' = username[w]
    /\ Disturb(w)
    /\ Goto(w, "compare")
    /\ UNCHANGED <<pathVars, peer, attemptVars, localVars>>

\* It finds nothing, or fails before it has read anything, or on the way.
LookupFails(w) ==
    /\ wpc[w] = "lookup"
    /\ \E user \in User \union {spwd} : spwd' = Kept(w, user)
    /\ Disturb(w)
    /\ Return(w, "USER_QUERY_FAIL") /\ Leave(w, Other)
    /\ Goto(w, "reply")
    /\ UNCHANGED <<pathVars, peer, localVars>>

Accept(w) ==
    /\ Return(w, "OK") /\ Leave(w, username[w])
    /\ disturbed' = [disturbed EXCEPT ![w] = FALSE]
    /\ Goto(w, "strlen")

Refuse(w) ==
    /\ Return(w, "FAIL")
    /\ disturbed' = [disturbed EXCEPT ![w] = FALSE]
    /\ Goto(w, "reply")
    /\ UNCHANGED <<username, password>>

\* Mutant: strcmp taken for "equal".
ComparePasswordInverted(w) ==
    /\ wpc[w] = "compare"
    /\ IF password[w] # spwd THEN Accept(w) ELSE Refuse(w)
    /\ spwd' = Kept(w, spwd)
    /\ UNCHANGED <<pathVars, peer, localVars>>

ComparePassword(w) ==
    /\ wpc[w] = "compare"
    /\ IF password[w] = spwd THEN Accept(w) ELSE Refuse(w)
    /\ spwd' = Kept(w, spwd)
    /\ UNCHANGED <<pathVars, peer, localVars>>

-----------------------------------------------------------------------------
(* Appending the name to clientPath. *)

Appending == {"slash", "nul", "scan", "cat", "terminate"}

\* Mutants: no check at all; a check for the name alone; one that keeps room
\* for a second name.
RoomAlways(len) == TRUE
RoomForNameOnly(len) == len + 1 <= MAX_PATH_LEN
RoomForTwo(len) == len + 2 * (1 + 1) < MAX_PATH_LEN

Room(len) == len + 1 + 1 < MAX_PATH_LEN

\* The length that w takes is in use by another worker.
Overlap(w) ==
    /\ overlapped' = (overlapped \/ \E v \in Worker \ {w} : wpc[v] \in Appending)
    /\ log' = IF overlapped' THEN <<>> ELSE log

MeasurePath(w) ==
    /\ wpc[w] = "strlen"
    /\ Room(StrLen)
    /\ Overlap(w)
    /\ pathLen' = [pathLen EXCEPT ![w] = StrLen]
    /\ Goto(w, "slash")
    /\ UNCHANGED <<arrayVars, entryVars, peer, attemptVars, catAt>>

\* No room for the name: an I/O error, which ends the connection.
NoRoom(w) ==
    /\ wpc[w] = "strlen"
    /\ ~Room(StrLen)
    /\ Overlap(w)
    /\ Return(w, "IO_ERROR") /\ Leave(w, Other)
    /\ Goto(w, "close")
    /\ UNCHANGED <<arrayVars, entryVars, peer, localVars>>

\* clientPath[i] = c.  What a store outside the array destroys is not
\* modelled.
Store(i, c) ==
    /\ clientPath' = IF i \in Index THEN [clientPath EXCEPT ![i] = c]
                                    ELSE clientPath
    /\ overrun' = (overrun \/ i \notin Index)

EndsInSlash(len) == len \in 1..MAX_PATH_LEN /\ clientPath[len - 1] = Slash

\* Mutant: pathLen is not moved past the slash.
StoreSlashInPlace(w) ==
    /\ wpc[w] = "slash"
    /\ Store(pathLen[w], Slash)
    /\ Goto(w, "nul")
    /\ UNCHANGED <<log, overlapped, entryVars, peer, attemptVars, localVars>>

StoreSlash(w) ==
    /\ wpc[w] = "slash"
    /\ IF EndsInSlash(pathLen[w])
       THEN Goto(w, "scan") /\ UNCHANGED <<arrayVars, pathLen>>
       ELSE /\ Store(pathLen[w], Slash)
            /\ pathLen' = [pathLen EXCEPT ![w] = @ + 1]
            /\ Goto(w, "nul")
    /\ UNCHANGED <<log, overlapped, entryVars, peer, attemptVars, catAt>>

StoreNul(w) ==
    /\ wpc[w] = "nul"
    /\ Store(pathLen[w], Nul)
    /\ Goto(w, "scan")
    /\ UNCHANGED <<log, overlapped, entryVars, peer, attemptVars, localVars>>

\* strncat: find the end, copy the name, terminate it.
ScanEnd(w) ==
    /\ wpc[w] = "scan"
    /\ catAt' = [catAt EXCEPT ![w] = StrLen]
    /\ pathLen' = [pathLen EXCEPT ![w] = 0]
    /\ Goto(w, "cat")
    /\ UNCHANGED <<pathVars, entryVars, peer, attemptVars>>

CopyName(w) ==
    /\ wpc[w] = "cat"
    /\ Store(catAt[w], username[w])
    /\ Goto(w, "terminate")
    /\ UNCHANGED <<log, overlapped, entryVars, peer, attemptVars, localVars>>

Terminate(w) ==
    /\ wpc[w] = "terminate"
    /\ Store(catAt[w] + 1, Nul)
    /\ log' = IF overlapped THEN log ELSE Append(log, username[w])
    /\ catAt' = [catAt EXCEPT ![w] = 0]
    /\ Goto(w, "reply")
    /\ UNCHANGED <<overlapped, entryVars, peer, attemptVars, pathLen>>

-----------------------------------------------------------------------------
(* The reply, and what handle_authen_event makes of the verdict. *)

\* A send succeeds until a reset has arrived.  A client that has left answers
\* it with a reset.
SendSucceeds(w) ==
    /\ peer[w] \in {"here", "gone", "resetting"}
    /\ peer' = [peer EXCEPT ![w] = IF @ = "here" THEN @ ELSE "resetting"]

SendFails(w) == peer[w] = "reset"

ReplySent(w) ==
    /\ wpc[w] = "reply"
    /\ SendSucceeds(w)
    /\ IF authRet[w] = "OK"
       THEN Goto(w, "session") /\ Leave(w, username[w])
       ELSE Goto(w, "recv") /\ Leave(w, Other)
    /\ Return(w, "OK")
    /\ UNCHANGED <<pathVars, entryVars, localVars>>

\* Mutant: a failed send is retried like a failed login.
ReplyFailsAndRetries(w) ==
    /\ wpc[w] = "reply"
    /\ SendFails(w)
    /\ Goto(w, "recv")
    /\ UNCHANGED <<pathVars, entryVars, peer, attemptVars, localVars>>

ReplyFails(w) ==
    /\ wpc[w] = "reply"
    /\ SendFails(w)
    /\ Return(w, "IO_ERROR") /\ Leave(w, Other)
    /\ Goto(w, "close")
    /\ UNCHANGED <<pathVars, entryVars, peer, localVars>>

Close(w) ==
    /\ wpc[w] = "close"
    /\ peer' = [peer EXCEPT ![w] = "none"]
    /\ Return(w, "OK")
    /\ Goto(w, "idle")
    /\ UNCHANGED <<pathVars, entryVars, username, password, localVars>>

-----------------------------------------------------------------------------
(* The session that follows, as far as it uses clientPath. *)

\* Where makeDir makes its directories: fullPath is clientPath and the name.
MkdirPath == Path

\* The client has left, or epoll or recvCmd fails.
EndSession(w) ==
    /\ wpc[w] = "session"
    /\ Leave(w, Other)
    /\ Goto(w, "close")
    /\ UNCHANGED <<pathVars, entryVars, peer, authRet, localVars>>

\* The client closes its end.
Disconnect(w) ==
    /\ peer[w] = "here"
    /\ peer' = [peer EXCEPT ![w] = "gone"]
    /\ UNCHANGED <<pathVars, entryVars, wpc, attemptVars, localVars>>

\* A reset arrives: the answer to a send, or sent by a client that has closed
\* its end with bytes unread.
ResetArrives(w) ==
    /\ peer[w] \in {"gone", "resetting"}
    /\ peer' = [peer EXCEPT ![w] = "reset"]
    /\ UNCHANGED <<pathVars, entryVars, wpc, attemptVars, localVars>>

-----------------------------------------------------------------------------
Authenticate(w) ==
    \/ ReceiveCredentials(w) \/ ReceiveNothing(w)
    \/ LookupFound(w) \/ LookupFails(w) \/ ComparePassword(w)
    \/ MeasurePath(w) \/ NoRoom(w)
    \/ StoreSlash(w) \/ StoreNul(w)
    \/ ScanEnd(w) \/ CopyName(w) \/ Terminate(w)
    \/ ReplySent(w) \/ ReplyFails(w)

Next ==
    \E w \in Worker :
        \/ TakeClient(w) \/ Authenticate(w) \/ Close(w)
        \/ EndSession(w) \/ Disconnect(w) \/ ResetArrives(w)

Spec == Init /\ [][Next]_vars

(***************************************************************************)
(* Fairness: a worker runs on, except that a client that is there may take *)
(* any time to send its credentials, to use its session or to leave.  The  *)
(* network delivers the reset that a send has provoked, after any number   *)
(* of sends; no reset is due before the first.                             *)
(***************************************************************************)
Proceed(w) ==
    /\ wpc[w] \in {"recv", "session"} => peer[w] # "here"
    /\ Authenticate(w) \/ Close(w) \/ EndSession(w)

FairSpec ==
    /\ Spec
    /\ \A w \in Worker :
          /\ WF_vars(Proceed(w))
          /\ WF_vars(peer[w] = "resetting" /\ ResetArrives(w))

-----------------------------------------------------------------------------
(* Properties. *)

\* Every variable keeps its type; a length that is used as an index is one,
\* even if workers overlap (sendMessage.c:83-95).
TypeOK ==
    /\ clientPath \in [Index -> Char]
    /\ overrun \in BOOLEAN
    /\ log \in Seq(User)
    /\ overlapped \in BOOLEAN /\ disturbed \in [Worker -> BOOLEAN]
    /\ spwd \in User \union {Other}
    /\ wpc \in [Worker -> {"idle", "recv", "lookup", "compare", "strlen", "reply",
                           "close", "session"} \union Appending]
    /\ peer \in [Worker -> {"none", "here"} \union Left]
    /\ username \in [Worker -> User \union {Other}]
    /\ password \in [Worker -> User \union {Other}]
    /\ authRet \in [Worker -> {"OK", "FAIL", "USER_QUERY_FAIL", "IO_ERROR"}]
    /\ pathLen \in [Worker -> Index]
    /\ catAt \in [Worker -> 0..MAX_PATH_LEN]

\* A store misses the array only if two workers have appended at once, however
\* many logins the server has seen (the check of sendMessage.c:85-88 leaves
\* room for one slash, one name and one NUL).
NoOverrun == overrun => overlapped

BaseAndNames ==
    [i \in 1..1 + 2 * Len(log) |->
        IF i = 1 THEN Base
        ELSE IF i % 2 = 0 THEN Slash
        ELSE log[(i - 1) \div 2]]

\* As long as no two workers have appended at once, clientPath is the base
\* directory followed by "/name" for every login that has succeeded since the
\* server was started, in order: nothing is ever removed from it, a login that
\* fails or is refused leaves it alone, and one whose reply is lost does not
\* (sendMessage.c:81-106).
PathIsLog ==
    overlapped \/ (\E w \in Worker : wpc[w] \in Appending) \/ Path = BaseAndNames

\* A client that is still there is turned away with an I/O error only if its
\* path really does not fit the array, or workers have appended at once.
OnlyFullPathTurnsAway ==
    \A w \in Worker :
        (wpc[w] = "close" /\ authRet[w] = "IO_ERROR" /\ peer[w] = "here")
            => overlapped \/ 1 + 2 * (Len(log) + 1) + 1 > MAX_PATH_LEN

\* AUTH_RESULT_FAIL means that name and password do not match, as
\* sendMessage.h:7 says.
FailMeansMismatch ==
    \A w \in Worker :
        (wpc[w] = "reply" /\ authRet[w] = "FAIL") => password[w] # username[w]

\* The verdict is that of the credentials the client has sent: OK only for a
\* name with its own password, FAIL only for a mismatch, unless another worker
\* has looked a name up between this one's lookup and its comparison
\* (authen.c:15-27).
VerdictIsRight ==
    [][\A w \in Worker :
          (wpc[w] = "compare" /\ wpc'[w] # "compare") =>
              disturbed[w] \/ (authRet'[w] = "OK" <=> password[w] = username[w])]_vars

\* A worker whose client has left gets free again, although recvn's reports
\* are ignored and failed logins start again: sooner or later the reset that its
\* replies provoke makes one of them fail (sendMessage.c:100-116,
\* clientHandle.c:23-57).
DisconnectFreesWorker ==
    \A w \in Worker : peer[w] \in Left ~> wpc[w] = "idle"

\* How far a worker is from idle, in steps of its own, if no login starts again.
Stage == [idle |-> 0, close |-> 1, session |-> 2, reply |-> 3, terminate |-> 4, cat |-> 5,
          scan |-> 6, nul |-> 7, slash |-> 8, strlen |-> 9, compare |-> 10, lookup |-> 11,
          recv |-> 12]

\* A refusal that its client never sees: no reset has arrived, and from now on
\* one is due.
RefusalUnseen(w) ==
    /\ wpc[w] = "reply" /\ wpc'[w] = "recv" /\ authRet[w] # "OK"
    /\ peer[w] # "reset" /\ peer'[w] = "resetting"

\* Once its client has left, a worker goes back in one way only, a refusal sent
\* before the reset has arrived, whatever the other workers do meanwhile to path
\* and entry; so from the reset on it is idle after at most 12 steps of its own
\* (clientHandle.c:25-48, sendMessage.c:100-116).
LoginWindsDown ==
    [][\A w \in Worker :
          peer[w] \in Left /\ wpc'[w] # wpc[w]
              => Stage[wpc'[w]] < Stage[wpc[w]] \/ RefusalUnseen(w)]_vars

\* What clientHandle.c:20 says of clientPath: it is the path of the client
\* being served, so mkdir works below that client's own directory.
MkdirInOwnDirectory ==
    \A w \in Worker :
        wpc[w] = "session" => MkdirPath = <<Base, Slash, username[w]>>
=============================================================================
