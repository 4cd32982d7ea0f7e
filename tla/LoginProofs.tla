----------------------------- MODULE LoginProofs -----------------------------
(***************************************************************************)
(* What the server's authentication guarantees for any number of workers,  *)
(* users and logins, and any size of clientPath.  Two invariants carry the *)
(* proof.  Clean says what clientPath holds at each point of an append, as *)
(* long as no two workers have appended at once; the check for room is     *)
(* enough because of it.  EntryIsOwn says whose entry a worker compares    *)
(* with as long as nobody else has looked one up.                          *)
(***************************************************************************)
EXTENDS Login, SequenceTheorems, WellFoundedInduction, TLAPS

Looked == {"compare", "strlen"} \union Appending

\* A worker that compares or appends has a user's name, and one that is about
\* to store the slash knows that there is room behind it.  A session has been
\* accepted.
Guarded ==
    \A w \in Worker :
        /\ wpc[w] \in Looked => username[w] \in User
        /\ wpc[w] = "slash" => pathLen[w] + 2 < MAX_PATH_LEN
        /\ wpc[w] = "session" => authRet[w] = "OK"

\* The entry that a worker compares with is its own, unless it was disturbed.
EntryIsOwn ==
    \A w \in Worker :
        wpc[w] = "compare" /\ ~disturbed[w] => spwd = username[w]

\* Length of the base directory and the logged names.
PathEnd == 1 + 2 * Len(log)

NulFrom(n) == \A i \in Index : i >= n => clientPath[i] = Nul

\* What an append of worker w has done so far.
Progress(w) ==
    /\ wpc[w] \in Appending => PathEnd + 2 < MAX_PATH_LEN
    /\ wpc[w] = "slash" => pathLen[w] = PathEnd /\ NulFrom(PathEnd)
    /\ wpc[w] = "nul" => pathLen[w] = PathEnd + 1
    /\ wpc[w] \in {"nul", "scan", "cat"} =>
           clientPath[PathEnd] = Slash /\ NulFrom(PathEnd + 1)
    /\ wpc[w] \in {"cat", "terminate"} => catAt[w] = PathEnd + 1
    /\ wpc[w] = "terminate" =>
           /\ clientPath[PathEnd] = Slash /\ clientPath[PathEnd + 1] = username[w]
           /\ NulFrom(PathEnd + 2)

Clean ==
    /\ ~overrun
    /\ PathEnd < MAX_PATH_LEN
    /\ \A i \in 0..PathEnd - 1 : clientPath[i] = BaseAndNames[i + 1]
    /\ \A v, w \in Worker : wpc[v] \in Appending /\ wpc[w] \in Appending => v = w
    /\ (\A w \in Worker : wpc[w] \notin Appending) => NulFrom(PathEnd)
    /\ \A w \in Worker : Progress(w)

CleanUntilOverlap == overlapped \/ Clean

\* What happens to one worker or its client.
Step(w) ==
    \/ TakeClient(w) \/ Authenticate(w) \/ Close(w)
    \/ EndSession(w) \/ Disconnect(w) \/ ResetArrives(w)

IInv ==
    /\ TypeOK /\ Guarded /\ EntryIsOwn
    /\ CleanUntilOverlap
    /\ OnlyFullPathTurnsAway

-----------------------------------------------------------------------------
\* A nonempty set of indexes has a least one.
LEMMA LeastIndex ==
    ASSUME NEW S \in SUBSET Nat, S # {}
    PROVE  \E i \in S : \A j \in S : i <= j
<1> DEFINE R == OpToRel(<, Nat)
<1>1. \E i \in S : \A j \in S : <<j, i>> \notin R
  <2>1. IsWellFoundedOn(R, Nat)
    BY NatLessThanWellFounded
  <2> HIDE DEF R
  <2> QED
    BY <2>1, WFMin
<1>2. \A i, j \in Nat : j < i => <<j, i>> \in R
  BY DEF OpToRel
<1> HIDE DEF R
<1>3. PICK i \in S : \A j \in S : <<j, i>> \notin R
  BY <1>1
<1>4. \A j \in S : i <= j
  <2> SUFFICES ASSUME NEW j \in S PROVE ~(j < i)
    OBVIOUS
  <2> QED
    BY <1>2, <1>3
<1> QED
  BY <1>3, <1>4

\* strlen finds the first NUL.
LEMMA StrLenIs ==
    ASSUME NEW n \in Index, clientPath[n] = Nul,
           \A j \in 0..n - 1 : clientPath[j] # Nul
    PROVE  StrLen = n
<1> DEFINE First(i) == /\ clientPath[i] = Nul
                       /\ \A j \in 0..i - 1 : clientPath[j] # Nul
<1>1. \A i \in Index : First(i) => i = n
  BY LoginAssumption DEF Index
<1>2. StrLen = CHOOSE i \in Index : First(i)
  BY DEF StrLen
<1>3. First(n)
  OBVIOUS
<1> QED
  BY <1>1, <1>2, <1>3

LEMMA StrLenType == StrLen \in 0..MAX_PATH_LEN
<1>1. CASE \A i \in Index : clientPath[i] # Nul
  BY <1>1, LoginAssumption DEF StrLen
<1>2. CASE \E i \in Index : clientPath[i] = Nul
  <2> DEFINE S == {i \in Index : clientPath[i] = Nul}
  <2>1. S \in SUBSET Nat /\ S # {}
    BY <1>2 DEF Index
  <2>2. PICK n \in S : \A j \in S : n <= j
    <3> HIDE DEF S
    <3> QED
      BY <2>1, LeastIndex
  <2>3. n \in Index /\ clientPath[n] = Nul /\ \A j \in 0..n - 1 : clientPath[j] # Nul
    BY <2>2, LoginAssumption DEF Index
  <2>4. StrLen = n
    BY <2>3, StrLenIs
  <2> QED
    BY <2>3, <2>4, LoginAssumption DEF Index
<1> QED
  BY <1>1, <1>2

-----------------------------------------------------------------------------
\* Types and guards.
LEMMA TypesPreserved ==
    ASSUME TypeOK, Guarded,
           NEW w \in Worker, Step(w)
    PROVE  TypeOK' /\ Guarded'
<1> USE DEF TypeOK, Guarded, Looked, Appending, vars, pathVars, arrayVars, entryVars,
            attemptVars, localVars
<1>0. Left = {"gone", "resetting", "reset"}
  BY DEF Left
<1>1. CASE TakeClient(w)
  BY <1>1 DEF TakeClient, Goto
<1>2. CASE ReceiveCredentials(w)
  BY <1>2 DEF ReceiveCredentials, Goto, Receive
<1>3. CASE ReceiveNothing(w)
  BY <1>3 DEF ReceiveNothing, Goto, Receive
<1>4. CASE LookupFound(w)
  BY <1>4 DEF LookupFound, Goto, Disturb
<1>5. CASE LookupFails(w)
  BY <1>5 DEF LookupFails, Kept, Goto, Disturb, Return, Leave
<1>6. CASE ComparePassword(w)
  <2>1. spwd' \in User \union {Other}
    BY <1>6 DEF ComparePassword, Kept
  <2>2. CASE password[w] = spwd
    <3>1. /\ authRet' = [authRet EXCEPT ![w] = "OK"]
          /\ username' = [username EXCEPT ![w] = username[w]]
          /\ password' = [password EXCEPT ![w] = Other]
          /\ disturbed' = [disturbed EXCEPT ![w] = FALSE]
          /\ wpc' = [wpc EXCEPT ![w] = "strlen"]
          /\ wpc[w] = "compare" /\ UNCHANGED <<pathVars, peer, localVars>>
      BY <1>6, <2>2 DEF ComparePassword, Goto, Accept, Return, Leave
    <3>2. /\ username' = username /\ username[w] \in User
          /\ password' \in [Worker -> User \union {Other}]
          /\ authRet' \in [Worker -> {"OK", "FAIL", "USER_QUERY_FAIL", "IO_ERROR"}]
          /\ disturbed' \in [Worker -> BOOLEAN]
      BY <3>1
    <3>3. Guarded'
      BY <3>1, <3>2
    <3> QED
      BY <2>1, <3>1, <3>2, <3>3
  <2>3. CASE password[w] # spwd
    BY <1>6, <2>1, <2>3 DEF ComparePassword, Goto, Refuse, Return
  <2> QED
    BY <2>2, <2>3
<1>7. CASE MeasurePath(w)
  BY <1>7, StrLenType, LoginAssumption DEF MeasurePath, Goto, Overlap, Room, Index
<1>8. CASE NoRoom(w)
  BY <1>8 DEF NoRoom, Goto, Overlap, Return, Leave
<1>9. CASE StoreSlash(w)
  <2>1. CASE EndsInSlash(pathLen[w])
    BY <1>9, <2>1 DEF StoreSlash, Goto
  <2>2. CASE ~EndsInSlash(pathLen[w])
    <3>1. clientPath' \in [Index -> Char] /\ overrun' \in BOOLEAN
      BY <1>9, <2>2 DEF StoreSlash, Store, Char
    <3>2. pathLen[w] + 1 \in Index
      BY <1>9, LoginAssumption DEF StoreSlash, Index
    <3>3. pathLen' \in [Worker -> Index]
      BY <1>9, <2>2, <3>2 DEF StoreSlash
    <3> QED
      BY <1>9, <2>2, <3>1, <3>3 DEF StoreSlash, Goto
  <2> QED
    BY <2>1, <2>2
<1>10. CASE StoreNul(w)
  BY <1>10 DEF StoreNul, Goto, Store, Char
<1>11. CASE ScanEnd(w)
  BY <1>11, StrLenType, LoginAssumption DEF ScanEnd, Goto, Index
<1>12. CASE CopyName(w)
  BY <1>12 DEF CopyName, Goto, Store, Char
<1>13. CASE Terminate(w)
  <2>1. clientPath' \in [Index -> Char] /\ overrun' \in BOOLEAN
    BY <1>13 DEF Terminate, Store, Char
  <2>2. log' \in Seq(User)
    BY <1>13, AppendProperties DEF Terminate
  <2>3. 0 \in 0..MAX_PATH_LEN
    BY LoginAssumption
  <2> QED
    BY <1>13, <2>1, <2>2, <2>3 DEF Terminate, Goto
<1>14. CASE ReplySent(w)
  <2>1. peer' \in [Worker -> {"none", "here"} \union Left]
    BY <1>0, <1>14 DEF ReplySent, SendSucceeds
  <2>2. CASE authRet[w] = "OK"
    <3>1. /\ wpc' = [wpc EXCEPT ![w] = "session"]
          /\ username' = [username EXCEPT ![w] = username[w]]
          /\ password' = [password EXCEPT ![w] = Other]
          /\ authRet' = [authRet EXCEPT ![w] = "OK"]
          /\ UNCHANGED <<pathVars, entryVars, localVars>>
      BY <1>14, <2>2 DEF ReplySent, Goto, Leave, Return
    <3>2. /\ wpc' \in [Worker -> {"idle", "recv", "lookup", "compare", "strlen", "reply",
                                 "close", "session"} \union Appending]
          /\ username' \in [Worker -> User \union {Other}]
          /\ password' \in [Worker -> User \union {Other}]
          /\ authRet' \in [Worker -> {"OK", "FAIL", "USER_QUERY_FAIL", "IO_ERROR"}]
      BY <3>1
    <3> QED
      BY <2>1, <3>1, <3>2
  <2>3. CASE authRet[w] # "OK"
    <3>1. /\ wpc' = [wpc EXCEPT ![w] = "recv"]
          /\ username' = [username EXCEPT ![w] = Other]
          /\ password' = [password EXCEPT ![w] = Other]
          /\ authRet' = [authRet EXCEPT ![w] = "OK"]
          /\ UNCHANGED <<pathVars, entryVars, localVars>>
      BY <1>14, <2>3 DEF ReplySent, Goto, Leave, Return
    <3>2. /\ wpc' \in [Worker -> {"idle", "recv", "lookup", "compare", "strlen", "reply",
                                 "close", "session"} \union Appending]
          /\ username' \in [Worker -> User \union {Other}]
          /\ password' \in [Worker -> User \union {Other}]
          /\ authRet' \in [Worker -> {"OK", "FAIL", "USER_QUERY_FAIL", "IO_ERROR"}]
      BY <3>1
    <3> QED
      BY <2>1, <3>1, <3>2
  <2> QED
    BY <2>2, <2>3
<1>15. CASE ReplyFails(w)
  BY <1>15 DEF ReplyFails, Goto, Return, Leave
<1>16. CASE Close(w)
  BY <1>16 DEF Close, Goto, Return
<1>17. CASE EndSession(w)
  BY <1>17 DEF EndSession, Goto, Leave
<1>18. CASE Disconnect(w)
  BY <1>0, <1>18 DEF Disconnect, Goto
<1>19. CASE ResetArrives(w)
  BY <1>0, <1>19 DEF ResetArrives
<1> QED
  BY <1>1, <1>2, <1>3, <1>4, <1>5, <1>6, <1>7, <1>8, <1>9, <1>10, <1>11, <1>12, <1>13,
     <1>14, <1>15, <1>16, <1>17, <1>18, <1>19 DEF Step, Authenticate

-----------------------------------------------------------------------------
\* The entry a worker compares with.
LEMMA EntryPreserved ==
    ASSUME TypeOK, EntryIsOwn,
           NEW w \in Worker, Step(w)
    PROVE  EntryIsOwn'
<1> USE DEF TypeOK, EntryIsOwn
\* A step that leaves the entry, and moves w anywhere but to the comparison.
<1> DEFINE Aside ==
        \A v \in Worker :
            wpc'[v] = "compare" =>
                /\ spwd' = spwd
                /\ wpc[v] = "compare" /\ username'[v] = username[v]
                /\ disturbed'[v] = disturbed[v]
<1>0. ASSUME Aside PROVE EntryIsOwn'
  BY <1>0
<1> HIDE DEF Aside
<1>1. CASE LookupFound(w)
  BY <1>1 DEF LookupFound, Disturb, Goto, attemptVars
<1>2. CASE LookupFails(w)
  BY <1>2 DEF LookupFails, Disturb, Goto, Leave
<1>3. CASE ComparePassword(w)
  <2>1. Aside
    BY <1>3 DEF ComparePassword, Accept, Refuse, Kept, Goto, Leave, Aside
  <2> QED
    BY <1>0, <2>1
<1>4. CASE TakeClient(w) \/ ReceiveCredentials(w) \/ ReceiveNothing(w)
  <2>1. Aside
    BY <1>4 DEF TakeClient, ReceiveCredentials, ReceiveNothing, Receive, Goto, entryVars,
                attemptVars, Aside
  <2> QED
    BY <1>0, <2>1
<1>5. CASE \/ MeasurePath(w) \/ NoRoom(w) \/ StoreSlash(w) \/ StoreNul(w)
           \/ ScanEnd(w) \/ CopyName(w) \/ Terminate(w)
  <2>1. /\ spwd' = spwd /\ disturbed' = disturbed
        /\ \A v \in Worker \ {w} : username'[v] = username[v]
        /\ \E label : label # "compare" /\ wpc' = [wpc EXCEPT ![w] = label]
    BY <1>5 DEF MeasurePath, NoRoom, StoreSlash, StoreNul, ScanEnd, CopyName, Terminate,
                Goto, Leave, entryVars, attemptVars
  <2>2. Aside
    BY <2>1 DEF Aside
  <2> QED
    BY <1>0, <2>2
<1>6. CASE \/ ReplySent(w) \/ ReplyFails(w) \/ Close(w) \/ EndSession(w)
           \/ Disconnect(w) \/ ResetArrives(w)
  <2>1. /\ spwd' = spwd /\ disturbed' = disturbed
        /\ \A v \in Worker \ {w} : username'[v] = username[v] /\ wpc'[v] = wpc[v]
        /\ (wpc'[w] = wpc[w] /\ username'[w] = username[w]) \/ wpc'[w] # "compare"
    BY <1>6 DEF ReplySent, ReplyFails, Close, EndSession, Disconnect, ResetArrives, Goto, Leave,
                entryVars, attemptVars
  <2>2. Aside
    BY <2>1 DEF Aside
  <2> QED
    BY <1>0, <2>2
<1> QED
  BY <1>1, <1>2, <1>3, <1>4, <1>5, <1>6 DEF Step, Authenticate

-----------------------------------------------------------------------------
\* The cells of BaseAndNames: none is a NUL, and the last one is no slash.
LEMMA NameCells ==
    ASSUME log \in Seq(User)
    PROVE  /\ PathEnd \in Nat /\ PathEnd >= 1 /\ Len(log) \in Nat
           /\ \A i \in 1..PathEnd : BaseAndNames[i] # Nul
           /\ BaseAndNames[PathEnd] # Slash
<1>1. Len(log) \in Nat /\ PathEnd \in Nat /\ PathEnd >= 1
  BY LenProperties DEF PathEnd
<1>2. ASSUME NEW i \in 1..PathEnd, i # 1, i % 2 # 0
      PROVE  (i - 1) \div 2 \in 1..Len(log)
  BY <1>1, <1>2 DEF PathEnd
<1>3. \A k \in 1..Len(log) : log[k] \in User
  BY ElementOfSeq
<1>4. ASSUME NEW i \in 1..PathEnd
      PROVE  BaseAndNames[i] # Nul /\ (i % 2 # 0 => BaseAndNames[i] # Slash)
  <2>1. CASE i = 1
    BY <2>1, <1>1, LoginAssumption DEF BaseAndNames, PathEnd
  <2>2. CASE i # 1 /\ i % 2 = 0
    BY <2>2, <1>1, LoginAssumption DEF BaseAndNames, PathEnd
  <2>3. CASE i # 1 /\ i % 2 # 0
    <3>1. BaseAndNames[i] = log[(i - 1) \div 2]
      BY <2>3, <1>1 DEF BaseAndNames, PathEnd
    <3>2. BaseAndNames[i] \in User
      BY <3>1, <2>3, <1>2, <1>3
    <3> QED
      BY <3>2, LoginAssumption
  <2> QED
    BY <2>1, <2>2, <2>3
<1>5. PathEnd \in 1..PathEnd /\ PathEnd % 2 # 0
  BY <1>1 DEF PathEnd
<1> QED
  BY <1>1, <1>4, <1>5

\* A login adds two cells.
LEMMA NextNames ==
    ASSUME log \in Seq(User), NEW u \in User, log' = Append(log, u)
    PROVE  /\ PathEnd' = PathEnd + 2
           /\ \A i \in 1..PathEnd : BaseAndNames'[i] = BaseAndNames[i]
           /\ BaseAndNames'[PathEnd + 1] = Slash
           /\ BaseAndNames'[PathEnd + 2] = u
<1>1. /\ Len(log) \in Nat /\ Len(log') = Len(log) + 1
      /\ \A k \in 1..Len(log) : log'[k] = log[k]
      /\ log'[Len(log) + 1] = u
  BY AppendProperties, LenProperties
<1>2. PathEnd \in Nat /\ PathEnd' = PathEnd + 2 /\ PathEnd' = 1 + 2 * Len(log')
  BY <1>1 DEF PathEnd
<1>3. ASSUME NEW i \in 1..PathEnd
      PROVE  BaseAndNames'[i] = BaseAndNames[i]
  <2>1. i # 1 /\ i % 2 # 0 => (i - 1) \div 2 \in 1..Len(log)
    BY <1>1 DEF PathEnd
  <2>2. i \in 1..1 + 2 * Len(log) /\ i \in 1..1 + 2 * Len(log')
    BY <1>1 DEF PathEnd
  <2>3. CASE i = 1 \/ i % 2 = 0
    BY <2>2, <2>3 DEF BaseAndNames
  <2>4. CASE i # 1 /\ i % 2 # 0
    <3>1. BaseAndNames[i] = log[(i - 1) \div 2]
      BY <2>2, <2>4 DEF BaseAndNames
    <3>2. BaseAndNames'[i] = log'[(i - 1) \div 2]
      BY <2>2, <2>4 DEF BaseAndNames
    <3> QED
      BY <1>1, <2>1, <2>4, <3>1, <3>2
  <2> QED
    BY <2>3, <2>4
<1>4. BaseAndNames'[PathEnd + 1] = Slash
  <2>1. /\ PathEnd + 1 \in 1..1 + 2 * Len(log') /\ PathEnd + 1 # 1
        /\ (PathEnd + 1) % 2 = 0
    BY <1>1 DEF PathEnd
  <2> QED
    BY <2>1 DEF BaseAndNames
<1>5. BaseAndNames'[PathEnd + 2] = u
  <2>1. /\ PathEnd + 2 \in 1..1 + 2 * Len(log') /\ PathEnd + 2 # 1
        /\ (PathEnd + 2) % 2 # 0 /\ (PathEnd + 2 - 1) \div 2 = Len(log) + 1
    BY <1>1 DEF PathEnd
  <2>2. \A i \in 1..1 + 2 * Len(log') :
            i # 1 /\ i % 2 # 0 => BaseAndNames'[i] = log'[(i - 1) \div 2]
    BY DEF BaseAndNames
  <2>3. ASSUME NEW n \in Nat, n = PathEnd + 2 PROVE BaseAndNames'[n] = u
    <3>1. /\ n \in 1..1 + 2 * Len(log') /\ n # 1 /\ n % 2 # 0
          /\ (n - 1) \div 2 = Len(log) + 1
      BY <1>1, <2>3 DEF PathEnd
    <3>2. BaseAndNames'[n] = log'[(n - 1) \div 2]
      BY <2>2, <3>1
    <3>3. log'[(n - 1) \div 2] = u
      BY <1>1, <3>1
    <3> QED
      BY <3>2, <3>3
  <2> QED
    BY <1>2, <2>3
<1> QED
  BY <1>2, <1>3, <1>4, <1>5

\* strlen while nobody appends, and once the slash is there.
LEMMA CleanStrLen ==
    ASSUME TypeOK, Clean
    PROVE  /\ NulFrom(PathEnd) => StrLen = PathEnd
           /\ clientPath[PathEnd] = Slash /\ NulFrom(PathEnd + 1)
                /\ PathEnd + 1 < MAX_PATH_LEN
                  => StrLen = PathEnd + 1
<1>1. /\ PathEnd \in Nat /\ PathEnd >= 1 /\ PathEnd < MAX_PATH_LEN
      /\ \A i \in 1..PathEnd : BaseAndNames[i] # Nul
  BY NameCells DEF TypeOK, Clean
<1>2. \A j \in 0..PathEnd - 1 : clientPath[j] # Nul
  BY <1>1 DEF Clean
<1>3. ASSUME NulFrom(PathEnd) PROVE StrLen = PathEnd
  <2>1. PathEnd \in Index /\ clientPath[PathEnd] = Nul
    BY <1>1, <1>3, LoginAssumption DEF NulFrom, Index
  <2> QED
    BY <1>2, <2>1, StrLenIs
<1>4. ASSUME clientPath[PathEnd] = Slash, NulFrom(PathEnd + 1), PathEnd + 1 < MAX_PATH_LEN
      PROVE  StrLen = PathEnd + 1
  <2>1. PathEnd + 1 \in Index /\ clientPath[PathEnd + 1] = Nul
    BY <1>1, <1>4, LoginAssumption DEF NulFrom, Index
  <2>2. \A j \in 0..(PathEnd + 1) - 1 : clientPath[j] # Nul
    BY <1>1, <1>2, <1>4, LoginAssumption
  <2> QED
    BY <2>1, <2>2, StrLenIs
<1> QED
  BY <1>3, <1>4

LEMMA CleanImpliesPathIsLog == TypeOK /\ CleanUntilOverlap => PathIsLog
<1> SUFFICES ASSUME TypeOK, Clean, \A w \in Worker : wpc[w] \notin Appending
             PROVE  Path = BaseAndNames
  BY DEF CleanUntilOverlap, PathIsLog
<1>1. StrLen = 1 + 2 * Len(log) /\ Len(log) \in Nat
  BY CleanStrLen, NameCells DEF Clean, PathEnd, TypeOK
<1>2. \A i \in 1..1 + 2 * Len(log) : clientPath[i - 1] = BaseAndNames[i]
  <2> SUFFICES ASSUME NEW i \in 1..1 + 2 * Len(log)
               PROVE  clientPath[i - 1] = BaseAndNames[i]
    OBVIOUS
  <2>1. i - 1 \in 0..PathEnd - 1 /\ (i - 1) + 1 = i
    BY <1>1 DEF PathEnd
  <2> QED
    BY <2>1 DEF Clean
<1>3. Path = [i \in 1..1 + 2 * Len(log) |-> BaseAndNames[i]]
  BY <1>1, <1>2 DEF Path
<1> QED
  BY <1>3 DEF BaseAndNames

-----------------------------------------------------------------------------
\* Clean is kept by a step of a worker that does not append.
LEMMA CleanAside ==
    ASSUME TypeOK, Clean,
           NEW w \in Worker,
           UNCHANGED <<arrayVars, log>>,
           wpc[w] \notin Appending, wpc'[w] \notin Appending,
           \A v \in Worker \ {w} :
               /\ wpc'[v] = wpc[v] /\ username'[v] = username[v]
               /\ pathLen'[v] = pathLen[v] /\ catAt'[v] = catAt[v]
    PROVE  Clean'
<1>1. /\ clientPath' = clientPath /\ overrun' = overrun /\ PathEnd' = PathEnd
      /\ BaseAndNames' = BaseAndNames
  BY DEF arrayVars, PathEnd, BaseAndNames
<1>2. \A v \in Worker : wpc'[v] \in Appending => v # w
  OBVIOUS
<1>3. ASSUME NEW v \in Worker PROVE Progress(v)'
  <2>1. CASE v = w
    BY <2>1 DEF Progress, Appending
  <2>2. CASE v # w
    <3>1. Progress(v)
      BY DEF Clean
    <3> QED
      BY <1>1, <2>2, <3>1 DEF Progress, NulFrom
  <2> QED
    BY <2>1, <2>2
<1>4. (\A v \in Worker : wpc'[v] \notin Appending) => NulFrom(PathEnd)'
  BY <1>1 DEF Clean, NulFrom
<1>5. \A u, v \in Worker : wpc'[u] \in Appending /\ wpc'[v] \in Appending => u = v
  BY <1>2 DEF Clean
<1> QED
  BY <1>1, <1>3, <1>4, <1>5 DEF Clean

\* Clean holds after a step of the only worker that appends if its own
\* progress is right.
LEMMA CleanByProgress ==
    ASSUME NEW w \in Worker,
           \A v \in Worker \ {w} : wpc'[v] \notin Appending,
           ~overrun', PathEnd' < MAX_PATH_LEN,
           \A i \in 0..PathEnd' - 1 : clientPath'[i] = BaseAndNames'[i + 1],
           Progress(w)',
           wpc'[w] \notin Appending => NulFrom(PathEnd)'
    PROVE  Clean'
<1>1. ASSUME NEW v \in Worker PROVE Progress(v)'
  <2>1. CASE v # w
    BY <2>1 DEF Progress, Appending
  <2> QED
    BY <2>1
<1> QED
  BY <1>1 DEF Clean

\* The facts that every append starts from.
LEMMA CleanFacts ==
    ASSUME TypeOK, Clean
    PROVE  /\ PathEnd \in Nat /\ PathEnd >= 1 /\ PathEnd < MAX_PATH_LEN
           /\ MAX_PATH_LEN \in Nat /\ overrun = FALSE
           /\ \A i \in 0..PathEnd - 1 : clientPath[i] = BaseAndNames[i + 1]
           /\ \A w \in Worker : wpc[w] \in Appending =>
                  /\ PathEnd + 2 < MAX_PATH_LEN
                  /\ \A v \in Worker \ {w} : wpc[v] \notin Appending
  BY NameCells, LoginAssumption DEF TypeOK, Clean, Progress

LEMMA MeasurePathClean ==
    ASSUME TypeOK, CleanUntilOverlap, NEW w \in Worker, MeasurePath(w)
    PROVE  CleanUntilOverlap'
<1> SUFFICES ASSUME ~overlapped' PROVE Clean'
  BY DEF CleanUntilOverlap
<1>1. /\ Clean /\ UNCHANGED <<clientPath, overrun, log>>
      /\ \A v \in Worker \ {w} : wpc[v] \notin Appending
  BY DEF CleanUntilOverlap, MeasurePath, Overlap, arrayVars
<1>2. wpc[w] = "strlen" /\ Room(StrLen) /\ pathLen'[w] = StrLen
  BY DEF MeasurePath, TypeOK
<1>3. wpc'[w] = "slash" /\ \A v \in Worker \ {w} : wpc'[v] = wpc[v]
  BY DEF MeasurePath, Goto, TypeOK
<1>4. NulFrom(PathEnd)
  BY <1>1, <1>2 DEF Clean, Appending
<1>5. StrLen = PathEnd /\ PathEnd + 2 < MAX_PATH_LEN
  <2>1. StrLen = PathEnd
    BY <1>1, <1>4, CleanStrLen
  <2> QED
    BY <1>1, <1>2, <2>1, CleanFacts DEF Room
<1>6. PathEnd' = PathEnd /\ BaseAndNames' = BaseAndNames /\ NulFrom(PathEnd)'
  BY <1>1, <1>4 DEF PathEnd, BaseAndNames, NulFrom
<1>7. Progress(w)'
  BY <1>2, <1>3, <1>5, <1>6 DEF Progress
<1> QED
  BY <1>1, <1>3, <1>6, <1>7, CleanFacts, CleanByProgress DEF Appending

LEMMA NoRoomClean ==
    ASSUME TypeOK, CleanUntilOverlap, NEW w \in Worker, NoRoom(w)
    PROVE  CleanUntilOverlap'
<1> SUFFICES ASSUME ~overlapped' PROVE Clean'
  BY DEF CleanUntilOverlap
<1>1. Clean /\ UNCHANGED <<arrayVars, log>>
  BY DEF CleanUntilOverlap, NoRoom, Overlap, arrayVars
<1>2. /\ wpc[w] \notin Appending /\ wpc'[w] \notin Appending
      /\ \A v \in Worker \ {w} : wpc'[v] = wpc[v]
  BY DEF NoRoom, Goto, TypeOK, Appending
<1>3. /\ UNCHANGED <<pathLen, catAt>>
      /\ \A v \in Worker \ {w} : username'[v] = username[v]
  BY DEF NoRoom, localVars, Leave, TypeOK
<1> QED
  BY <1>1, <1>2, <1>3, CleanAside

\* A step of an append: the others stand still, and the cells that the step
\* leaves alone keep what they hold.
LEMMA StoreSlashClean ==
    ASSUME TypeOK, Clean, NEW w \in Worker, StoreSlash(w)
    PROVE  Clean'
<1> DEFINE n == PathEnd
<1>1. /\ wpc[w] = "slash" /\ wpc[w] \in Appending
      /\ pathLen[w] = n /\ NulFrom(n) /\ log' = log /\ n + 2 < MAX_PATH_LEN
  BY DEF Clean, Progress, StoreSlash, Appending
<1>2. PathEnd' = n /\ BaseAndNames' = BaseAndNames /\ n \in Index /\ n + 1 \in Nat
  BY <1>1, CleanFacts, LoginAssumption DEF PathEnd, BaseAndNames, Index
<1>3. ~EndsInSlash(n)
  <2>1. BaseAndNames[PathEnd] # Slash
    BY NameCells DEF TypeOK
  <2>2. n - 1 \in 0..n - 1 /\ (n - 1) + 1 = n
    BY CleanFacts
  <2>3. clientPath[n - 1] = BaseAndNames[n]
    BY <2>2, CleanFacts
  <2> QED
    BY <2>1, <2>3 DEF EndsInSlash
<1>4. /\ clientPath' = [clientPath EXCEPT ![n] = Slash]
      /\ overrun' = (overrun \/ n \notin Index)
      /\ pathLen' = [pathLen EXCEPT ![w] = @ + 1]
      /\ wpc' = [wpc EXCEPT ![w] = "nul"]
  BY <1>1, <1>2, <1>3 DEF StoreSlash, Store, Goto
<1>0. /\ \A i \in 0..n - 1 : clientPath[i] = BaseAndNames[i + 1]
      /\ n \in Nat /\ MAX_PATH_LEN \in Nat
  BY CleanFacts
<1> HIDE DEF n
<1>5. /\ wpc'[w] = "nul" /\ pathLen'[w] = n + 1 /\ ~overrun'
      /\ \A v \in Worker \ {w} : wpc'[v] \notin Appending
  BY <1>1, <1>2, <1>4, CleanFacts DEF TypeOK, n
<1>6. /\ \A i \in 0..n - 1 : clientPath'[i] = BaseAndNames[i + 1]
      /\ clientPath'[n] = Slash
      /\ \A i \in Index : i >= n + 1 => clientPath'[i] = Nul
  BY <1>0, <1>1, <1>2, <1>4 DEF TypeOK, NulFrom, Index
<1>7. Progress(w)'
  BY <1>1, <1>2, <1>5, <1>6 DEF Progress, NulFrom
<1> QED
  BY <1>1, <1>2, <1>5, <1>6, <1>7, CleanFacts, CleanByProgress DEF Appending, n

LEMMA StoreNulClean ==
    ASSUME TypeOK, Clean, NEW w \in Worker, StoreNul(w)
    PROVE  Clean'
<1> DEFINE n == PathEnd
<1>1. /\ wpc[w] = "nul" /\ wpc[w] \in Appending /\ pathLen[w] = n + 1
      /\ clientPath[n] = Slash /\ NulFrom(n + 1) /\ log' = log
      /\ n + 2 < MAX_PATH_LEN
  BY DEF Clean, Progress, StoreNul, Appending
<1>2. /\ PathEnd' = n /\ BaseAndNames' = BaseAndNames /\ n \in Index
      /\ n + 1 \in Index
  BY <1>1, CleanFacts, LoginAssumption DEF PathEnd, BaseAndNames, Index
<1>4. /\ clientPath' = [clientPath EXCEPT ![n + 1] = Nul]
      /\ overrun' = (overrun \/ n + 1 \notin Index)
      /\ wpc' = [wpc EXCEPT ![w] = "scan"]
  BY <1>1, <1>2 DEF StoreNul, Store, Goto
<1>0. /\ \A i \in 0..n - 1 : clientPath[i] = BaseAndNames[i + 1]
      /\ n \in Nat /\ MAX_PATH_LEN \in Nat
  BY CleanFacts
<1> HIDE DEF n
<1>5. /\ wpc'[w] = "scan" /\ ~overrun'
      /\ \A v \in Worker \ {w} : wpc'[v] \notin Appending
  BY <1>1, <1>2, <1>4, CleanFacts DEF TypeOK, n
<1>6. /\ \A i \in 0..n - 1 : clientPath'[i] = BaseAndNames[i + 1]
      /\ clientPath'[n] = Slash
      /\ \A i \in Index : i >= n + 1 => clientPath'[i] = Nul
  BY <1>0, <1>1, <1>2, <1>4 DEF TypeOK, NulFrom, Index
<1>7. Progress(w)'
  BY <1>1, <1>2, <1>5, <1>6 DEF Progress, NulFrom
<1> QED
  BY <1>1, <1>2, <1>5, <1>6, <1>7, CleanFacts, CleanByProgress DEF Appending, n

LEMMA ScanEndClean ==
    ASSUME TypeOK, Clean, NEW w \in Worker, ScanEnd(w)
    PROVE  Clean'
<1> DEFINE n == PathEnd
<1>1. /\ wpc[w] = "scan" /\ wpc[w] \in Appending
      /\ clientPath[n] = Slash /\ NulFrom(n + 1) /\ n + 2 < MAX_PATH_LEN
      /\ UNCHANGED <<clientPath, overrun, log>>
  BY DEF Clean, Progress, ScanEnd, Appending, pathVars, arrayVars
<1>2. PathEnd' = n /\ BaseAndNames' = BaseAndNames /\ NulFrom(n + 1)'
  BY <1>1 DEF PathEnd, BaseAndNames, NulFrom
<1>3. n + 1 < MAX_PATH_LEN
  BY <1>1, CleanFacts
<1>4. StrLen = n + 1
  BY <1>1, <1>3, CleanStrLen
<1>5. /\ wpc'[w] = "cat" /\ catAt'[w] = n + 1
      /\ \A v \in Worker \ {w} : wpc'[v] \notin Appending
  BY <1>1, <1>4, CleanFacts DEF ScanEnd, Goto, TypeOK
<1>6. Progress(w)'
  BY <1>1, <1>2, <1>5 DEF Progress, NulFrom
<1> QED
  BY <1>1, <1>2, <1>5, <1>6, CleanFacts, CleanByProgress DEF Appending

LEMMA CopyNameClean ==
    ASSUME TypeOK, Clean, NEW w \in Worker, CopyName(w)
    PROVE  Clean'
<1> DEFINE n == PathEnd
<1>1. /\ wpc[w] = "cat" /\ wpc[w] \in Appending /\ catAt[w] = n + 1
      /\ clientPath[n] = Slash /\ NulFrom(n + 1) /\ log' = log
      /\ username' = username /\ catAt' = catAt /\ n + 2 < MAX_PATH_LEN
  BY DEF Clean, Progress, CopyName, Appending, attemptVars, localVars
<1>2. /\ PathEnd' = n /\ BaseAndNames' = BaseAndNames /\ n \in Index
      /\ n + 1 \in Index
  BY <1>1, CleanFacts, LoginAssumption DEF PathEnd, BaseAndNames, Index
<1>4. /\ clientPath' = [clientPath EXCEPT ![n + 1] = username[w]]
      /\ overrun' = (overrun \/ n + 1 \notin Index)
      /\ wpc' = [wpc EXCEPT ![w] = "terminate"]
  BY <1>1, <1>2 DEF CopyName, Store, Goto
<1>0. /\ \A i \in 0..n - 1 : clientPath[i] = BaseAndNames[i + 1]
      /\ n \in Nat /\ MAX_PATH_LEN \in Nat
  BY CleanFacts
<1> HIDE DEF n
<1>5. /\ wpc'[w] = "terminate" /\ ~overrun'
      /\ \A v \in Worker \ {w} : wpc'[v] \notin Appending
  BY <1>1, <1>2, <1>4, CleanFacts DEF TypeOK, n
<1>6. /\ \A i \in 0..n - 1 : clientPath'[i] = BaseAndNames[i + 1]
      /\ clientPath'[n] = Slash /\ clientPath'[n + 1] = username[w]
      /\ \A i \in Index : i >= n + 2 => clientPath'[i] = Nul
  BY <1>0, <1>1, <1>2, <1>4 DEF TypeOK, NulFrom, Index
<1>7. Progress(w)'
  BY <1>1, <1>2, <1>5, <1>6 DEF Progress, NulFrom
<1> QED
  BY <1>1, <1>2, <1>5, <1>6, <1>7, CleanFacts, CleanByProgress DEF Appending, n

LEMMA TerminateClean ==
    ASSUME TypeOK, Guarded, Clean, ~overlapped, NEW w \in Worker, Terminate(w)
    PROVE  Clean'
<1> DEFINE n == PathEnd
<1>1. /\ wpc[w] = "terminate" /\ wpc[w] \in Appending /\ catAt[w] = n + 1
      /\ clientPath[n] = Slash /\ clientPath[n + 1] = username[w] /\ NulFrom(n + 2)
      /\ log' = Append(log, username[w]) /\ username[w] \in User
      /\ n + 2 < MAX_PATH_LEN
  BY DEF Clean, Progress, Guarded, Looked, Terminate, Appending
<1>2. /\ PathEnd' = n + 2
      /\ \A i \in 1..n : BaseAndNames'[i] = BaseAndNames[i]
      /\ BaseAndNames'[n + 1] = Slash /\ BaseAndNames'[n + 2] = username[w]
  BY <1>1, NextNames DEF TypeOK
<1>3. n \in Nat /\ n >= 1 /\ (n + 1) + 1 = n + 2 /\ n + 2 \in Index
  BY <1>1, CleanFacts, LoginAssumption DEF Index
<1>4. /\ clientPath' = [clientPath EXCEPT ![n + 2] = Nul]
      /\ overrun' = (overrun \/ n + 2 \notin Index)
      /\ wpc' = [wpc EXCEPT ![w] = "reply"]
  BY <1>1, <1>3 DEF Terminate, Store, Goto
<1>0. /\ \A i \in 0..n - 1 : clientPath[i] = BaseAndNames[i + 1]
      /\ overrun = FALSE /\ MAX_PATH_LEN \in Nat
      /\ \A v \in Worker \ {w} : wpc[v] \notin Appending
  BY <1>1, CleanFacts
<1> HIDE DEF n
<1>5. /\ wpc'[w] = "reply" /\ ~overrun'
      /\ \A v \in Worker \ {w} : wpc'[v] \notin Appending
  BY <1>0, <1>3, <1>4 DEF TypeOK
<1>6. /\ \A i \in 0..n + 1 : clientPath'[i] = clientPath[i]
      /\ \A i \in Index : i >= n + 2 => clientPath'[i] = Nul
  BY <1>0, <1>1, <1>3, <1>4 DEF TypeOK, NulFrom, Index
<1>7. \A i \in 0..PathEnd' - 1 : clientPath'[i] = BaseAndNames'[i + 1]
  <2> SUFFICES ASSUME NEW i \in 0..n + 1 PROVE clientPath[i] = BaseAndNames'[i + 1]
    BY <1>2, <1>3, <1>6
  <2>1. CASE i \in 0..n - 1
    <3>1. i + 1 \in 1..n
      BY <2>1, <1>3
    <3> QED
      BY <2>1, <3>1, <1>0, <1>2
  <2>2. CASE i = n
    BY <2>2, <1>1, <1>2
  <2>3. CASE i = n + 1
    BY <2>3, <1>1, <1>2, <1>3
  <2> QED
    BY <1>3, <2>1, <2>2, <2>3
<1>8. Progress(w)' /\ NulFrom(PathEnd)'
  BY <1>2, <1>5, <1>6 DEF Progress, NulFrom, Appending
<1> QED
  BY <1>1, <1>2, <1>5, <1>7, <1>8, CleanByProgress

LEMMA CleanPreserved ==
    ASSUME TypeOK, Guarded, CleanUntilOverlap,
           NEW w \in Worker, Step(w)
    PROVE  CleanUntilOverlap'
<1>1. CASE MeasurePath(w)
  BY <1>1, MeasurePathClean
<1>2. CASE NoRoom(w)
  BY <1>2, NoRoomClean
<1>3. CASE ~MeasurePath(w) /\ ~NoRoom(w)
  <2>0. overlapped' = overlapped
    BY <1>3 DEF Step, Authenticate, TakeClient, ReceiveCredentials, ReceiveNothing, Receive,
                LookupFound, LookupFails, ComparePassword, StoreSlash, StoreNul, ScanEnd,
                CopyName, Terminate, ReplySent, ReplyFails, Close, EndSession, Disconnect,
                ResetArrives, pathVars
  <2> SUFFICES ASSUME ~overlapped, Clean PROVE Clean'
    BY <2>0 DEF CleanUntilOverlap
  <2>1. CASE StoreSlash(w)
    BY <2>1, StoreSlashClean
  <2>2. CASE StoreNul(w)
    BY <2>2, StoreNulClean
  <2>3. CASE ScanEnd(w)
    BY <2>3, ScanEndClean
  <2>4. CASE CopyName(w)
    BY <2>4, CopyNameClean
  <2>5. CASE Terminate(w)
    BY <2>5, TerminateClean
  <2>6. CASE Disconnect(w) \/ ResetArrives(w)
    <3>1. UNCHANGED <<arrayVars, log, wpc, username, pathLen, catAt>>
      BY <2>6 DEF Disconnect, ResetArrives, pathVars, attemptVars, localVars
    <3> QED
      BY <3>1 DEF Clean, Progress, NulFrom, PathEnd, BaseAndNames, arrayVars
  <2>7. CASE \/ TakeClient(w) \/ ReceiveCredentials(w) \/ ReceiveNothing(w)
             \/ LookupFound(w) \/ LookupFails(w) \/ ComparePassword(w)
             \/ ReplySent(w) \/ ReplyFails(w) \/ Close(w) \/ EndSession(w)
    <3>1. UNCHANGED <<arrayVars, log, pathLen, catAt>>
      BY <2>7 DEF TakeClient, ReceiveCredentials, ReceiveNothing, Receive, LookupFound,
                  LookupFails, ComparePassword, ReplySent, ReplyFails, Close, EndSession,
                  pathVars, localVars
    <3>2. \A v \in Worker \ {w} : username'[v] = username[v]
      BY <2>7 DEF TakeClient, ReceiveCredentials, ReceiveNothing, Receive, LookupFound,
                  LookupFails, ComparePassword, ReplySent, ReplyFails, Close, EndSession,
                  Accept, Refuse, Leave, attemptVars, TypeOK
    <3>3. /\ wpc[w] \notin Appending
          /\ \E label : label \notin Appending /\ wpc' = [wpc EXCEPT ![w] = label]
      BY <2>7 DEF TakeClient, ReceiveCredentials, ReceiveNothing, Receive, LookupFound,
                  LookupFails, ComparePassword, Accept, Refuse, ReplySent, ReplyFails,
                  Close, EndSession, Goto, Appending
    <3>4. wpc'[w] \notin Appending /\ \A v \in Worker \ {w} : wpc'[v] = wpc[v]
      BY <3>3 DEF TypeOK
    <3> QED
      BY <3>1, <3>2, <3>3, <3>4, CleanAside
  <2> QED
    BY <1>3, <2>1, <2>2, <2>3, <2>4, <2>5, <2>6, <2>7 DEF Step, Authenticate
<1> QED
  BY <1>1, <1>2, <1>3

-----------------------------------------------------------------------------
\* The path of a log of n names and one more does not fit.
Full(n) == 1 + 2 * (n + 1) + 1 > MAX_PATH_LEN

LEMMA TurnedAwayPreserved ==
    ASSUME TypeOK, Guarded, CleanUntilOverlap, OnlyFullPathTurnsAway,
           NEW w \in Worker, Step(w)
    PROVE  OnlyFullPathTurnsAway'
<1> DEFINE Turned(v) == wpc[v] = "close" /\ authRet[v] = "IO_ERROR" /\ peer[v] = "here"
\* Only NoRoom turns away a client that is there.
<1>1. CASE ~NoRoom(w)
  <2>1. \A v \in Worker : Turned(v)' => Turned(v)
    <3> SUFFICES ASSUME NEW v \in Worker, Turned(v)' PROVE Turned(v)
      OBVIOUS
    <3> USE DEF Goto, Return, attemptVars, TypeOK
    <3>1. CASE TakeClient(w) \/ ReceiveCredentials(w) \/ ReceiveNothing(w)
      BY <3>1 DEF TakeClient, ReceiveCredentials, ReceiveNothing, Receive
    <3>2. CASE LookupFound(w) \/ LookupFails(w) \/ ComparePassword(w)
      BY <3>2 DEF LookupFound, LookupFails, ComparePassword, Accept, Refuse
    <3>3. CASE \/ MeasurePath(w) \/ StoreSlash(w) \/ StoreNul(w)
               \/ ScanEnd(w) \/ CopyName(w) \/ Terminate(w)
      BY <3>3 DEF MeasurePath, StoreSlash, StoreNul, ScanEnd, CopyName, Terminate
    <3>4. CASE ReplySent(w) \/ ReplyFails(w)
      BY <3>4 DEF ReplySent, SendSucceeds, ReplyFails, SendFails
    <3>5. CASE Close(w) \/ EndSession(w) \/ Disconnect(w) \/ ResetArrives(w)
      BY <3>5 DEF Close, EndSession, Disconnect, ResetArrives, Guarded
    <3> QED
      BY <1>1, <3>1, <3>2, <3>3, <3>4, <3>5 DEF Step, Authenticate
  <2>2. overlapped' \/ (~overlapped /\ (log' = log \/ log' = Append(log, username[w])))
    BY <1>1 DEF Step, Authenticate, TakeClient, ReceiveCredentials, ReceiveNothing, Receive,
                LookupFound, LookupFails, ComparePassword, MeasurePath, Overlap,
                StoreSlash, StoreNul, ScanEnd, CopyName, Terminate, ReplySent,
                ReplyFails, Close, EndSession, Disconnect, ResetArrives, pathVars, TypeOK
  <2>3. Len(log) \in Nat /\ Len(Append(log, username[w])) = Len(log) + 1
    BY LenProperties DEF TypeOK
  <2> QED
    BY <2>1, <2>2, <2>3, LoginAssumption DEF OnlyFullPathTurnsAway
<1>2. CASE NoRoom(w)
  <2> SUFFICES ASSUME ~overlapped' PROVE Full(Len(log'))
    BY DEF OnlyFullPathTurnsAway, Full
  <2>1. /\ Clean /\ log' = log /\ wpc[w] = "strlen" /\ ~Room(StrLen)
        /\ \A v \in Worker \ {w} : wpc[v] \notin Appending
    BY <1>2 DEF NoRoom, Overlap, CleanUntilOverlap
  <2>2. NulFrom(PathEnd)
    BY <2>1 DEF Clean, Appending
  <2>3. StrLen = PathEnd
    BY <2>1, <2>2, CleanStrLen
  <2>4. PathEnd + 2 >= MAX_PATH_LEN
    BY <2>1, <2>3, CleanFacts DEF Room
  <2>5. Len(log) \in Nat /\ PathEnd = 1 + 2 * Len(log)
    BY NameCells DEF TypeOK, PathEnd
  <2> QED
    BY <2>1, <2>4, <2>5, LoginAssumption DEF Full
<1> QED
  BY <1>1, <1>2

LEMMA IInvInit == Init => IInv
<1> SUFFICES ASSUME Init PROVE IInv
  OBVIOUS
<1>1. log = <<>> /\ log \in Seq(User) /\ Len(log) = 0
  BY DEF Init
<1>2. TypeOK
  <2>1. clientPath \in [Index -> Char]
    BY DEF Init, Char
  <2>2. 0 \in Index /\ 0 \in 0..MAX_PATH_LEN
    BY LoginAssumption DEF Index
  <2>3. /\ spwd \in User \union {Other} /\ overrun \in BOOLEAN
        /\ overlapped \in BOOLEAN /\ disturbed \in [Worker -> BOOLEAN]
    BY DEF Init
  <2>4. /\ username \in [Worker -> User \union {Other}]
        /\ password \in [Worker -> User \union {Other}]
    BY DEF Init
  <2>5. /\ pathLen \in [Worker -> Index]
        /\ catAt \in [Worker -> 0..MAX_PATH_LEN]
    BY <2>2 DEF Init
  <2>6. /\ wpc \in [Worker -> {"idle", "recv", "lookup", "compare", "strlen", "reply",
                               "close", "session"} \union Appending]
        /\ peer \in [Worker -> {"none", "here"} \union Left]
        /\ authRet \in [Worker -> {"OK", "FAIL", "USER_QUERY_FAIL", "IO_ERROR"}]
    BY DEF Init
  <2> QED
    BY <1>1, <2>1, <2>3, <2>4, <2>5, <2>6 DEF TypeOK
<1>3. Guarded /\ EntryIsOwn /\ OnlyFullPathTurnsAway
  BY DEF Init, Guarded, Looked, Appending, EntryIsOwn, OnlyFullPathTurnsAway
<1>4. PathEnd = 1 /\ BaseAndNames[1] = Base
  BY <1>1 DEF PathEnd, BaseAndNames
<1>5. Clean
  BY <1>4, LoginAssumption DEF Init, Clean, Progress, NulFrom, Appending, Index
<1> QED
  BY <1>2, <1>3, <1>5 DEF IInv, CleanUntilOverlap

\* The invariants on which the theorems rest.
THEOREM IInvInvariant == Spec => []IInv
<1>1. IInv /\ [Next]_vars => IInv'
  <2> SUFFICES ASSUME IInv, [Next]_vars PROVE IInv'
    OBVIOUS
  <2>1. CASE Next
    <3>1. PICK w \in Worker : Step(w)
      BY <2>1 DEF Next, Step
    <3> QED
      BY <3>1, TypesPreserved, EntryPreserved, CleanPreserved, TurnedAwayPreserved
         DEF IInv
  <2>2. CASE UNCHANGED vars
    <3> USE <2>2 DEF vars, pathVars, arrayVars, entryVars, attemptVars, localVars
    <3>1. TypeOK' /\ Guarded' /\ EntryIsOwn' /\ OnlyFullPathTurnsAway'
      BY DEF IInv, TypeOK, Guarded, EntryIsOwn, OnlyFullPathTurnsAway
    <3>2. CleanUntilOverlap'
      BY DEF IInv, CleanUntilOverlap, Clean, Progress, NulFrom, PathEnd, BaseAndNames
    <3> QED
      BY <3>1, <3>2 DEF IInv
  <2> QED
    BY <2>1, <2>2
<1> QED
  BY <1>1, IInvInit, PTL DEF Spec

\* Every variable keeps its type, and every length that is used as an index is
\* one, whatever the workers do at once (sendMessage.c:83-95).
THEOREM TypeCorrect == Spec => []TypeOK
  BY IInvInvariant, PTL DEF IInv

\* No store misses clientPath before two workers have appended at once, for
\* every size of it (sendMessage.c:85-95).
THEOREM ArrayNotOverrun == Spec => []NoOverrun
<1>1. IInv => NoOverrun
  BY DEF IInv, CleanUntilOverlap, Clean, NoOverrun
<1> QED
  BY <1>1, IInvInvariant, PTL

\* Until then clientPath is the base directory and the names of all logins
\* (sendMessage.c:81-106).
THEOREM PathHoldsEveryLogin == Spec => []PathIsLog
<1>1. IInv => PathIsLog
  BY CleanImpliesPathIsLog DEF IInv
<1> QED
  BY <1>1, IInvInvariant, PTL

\* Until then nobody who is there is turned away before clientPath is full
\* (sendMessage.c:85-88).
THEOREM TurnedAwayOnlyWhenFull == Spec => []OnlyFullPathTurnsAway
  BY IInvInvariant, PTL DEF IInv

\* A worker that was not disturbed between lookup and comparison gives the
\* verdict that its client's name and password deserve (authen.c:15-27).
THEOREM UndisturbedVerdictIsRight == Spec => VerdictIsRight
<1> DEFINE Right == \A w \in Worker :
              (wpc[w] = "compare" /\ wpc'[w] # "compare") =>
                  disturbed[w] \/ (authRet'[w] = "OK" <=> password[w] = username[w])
<1>1. IInv /\ [Next]_vars => [Right]_vars
  <2> SUFFICES ASSUME IInv, Next, NEW w \in Worker,
                      wpc[w] = "compare", wpc'[w] # "compare", ~disturbed[w]
               PROVE  authRet'[w] = "OK" <=> password[w] = username[w]
    OBVIOUS
  <2>1. ComparePassword(w)
    BY DEF IInv, TypeOK, Next, Authenticate, TakeClient, ReceiveCredentials,
           ReceiveNothing, Receive, LookupFound, LookupFails, ComparePassword, Accept,
           Refuse, MeasurePath, NoRoom, StoreSlash, StoreNul, ScanEnd, CopyName,
           Terminate, ReplySent, ReplyFails, Close, EndSession, Disconnect, ResetArrives, Goto
  <2>2. spwd = username[w]
    BY DEF IInv, EntryIsOwn
  <2> QED
    BY <2>1, <2>2 DEF ComparePassword, Accept, Refuse, Return, IInv, TypeOK
<1> QED
  BY <1>1, IInvInvariant, PTL DEF Spec, VerdictIsRight

-----------------------------------------------------------------------------
(* A client that has left. *)

\* A worker is idle exactly as long as it has no client.
IdleHasNoClient == \A w \in Worker : wpc[w] = "idle" <=> peer[w] = "none"

\* A step of one worker leaves the others' place and client alone.
LEMMA OthersStay ==
    ASSUME TypeOK, NEW v \in Worker, Step(v), NEW w \in Worker, w # v
    PROVE  wpc'[w] = wpc[w] /\ peer'[w] = peer[w]
BY DEF Step, TypeOK, Authenticate, TakeClient, ReceiveCredentials, ReceiveNothing, Receive,
   LookupFound, LookupFails, ComparePassword, Accept, Refuse, MeasurePath, NoRoom,
   StoreSlash, StoreNul, ScanEnd, CopyName, Terminate, ReplySent, SendSucceeds, ReplyFails,
   Close, EndSession, Disconnect, ResetArrives, Goto, attemptVars

\* Where each step leads.
Onward ==
    {<<"recv", "lookup">>, <<"lookup", "compare">>, <<"lookup", "reply">>,
     <<"compare", "strlen">>, <<"compare", "reply">>, <<"strlen", "slash">>,
     <<"strlen", "close">>, <<"slash", "nul">>, <<"slash", "scan">>, <<"nul", "scan">>,
     <<"scan", "cat">>, <<"cat", "terminate">>, <<"terminate", "reply">>,
     <<"reply", "close">>, <<"session", "close">>}

LEMMA OwnSteps ==
    ASSUME TypeOK, NEW w \in Worker, Step(w)
    PROVE  \/ wpc[w] = "idle" /\ wpc'[w] = "recv" /\ peer'[w] = "here"
           \/ <<wpc[w], wpc'[w]>> \in Onward /\ peer'[w] = peer[w]
           \/ /\ wpc[w] = "reply" /\ wpc'[w] \in {"session", "recv"}
              /\ wpc'[w] = "recv" => authRet[w] # "OK"
              /\ \/ peer[w] = "here" /\ peer'[w] = "here"
                 \/ peer[w] \in {"gone", "resetting"} /\ peer'[w] = "resetting"
           \/ wpc[w] = "close" /\ wpc'[w] = "idle" /\ peer'[w] = "none"
           \/ wpc'[w] = wpc[w] /\ peer[w] \in {"here", "gone", "resetting"} /\ peer'[w] # "none"
<1> USE DEF TypeOK, Goto, attemptVars
<1>1. CASE TakeClient(w) \/ Close(w) \/ Disconnect(w) \/ ResetArrives(w)
  BY <1>1 DEF TakeClient, Close, Disconnect, ResetArrives
<1>2. CASE ReceiveCredentials(w) \/ ReceiveNothing(w)
  BY <1>2 DEF ReceiveCredentials, ReceiveNothing, Receive, Onward
<1>3. CASE LookupFound(w) \/ LookupFails(w) \/ ComparePassword(w)
  BY <1>3 DEF LookupFound, LookupFails, ComparePassword, Accept, Refuse, Onward
<1>4. CASE MeasurePath(w) \/ NoRoom(w) \/ StoreSlash(w) \/ StoreNul(w)
  BY <1>4 DEF MeasurePath, NoRoom, StoreSlash, StoreNul, Onward
<1>5. CASE ScanEnd(w) \/ CopyName(w) \/ Terminate(w)
  BY <1>5 DEF ScanEnd, CopyName, Terminate, Onward
<1>6. CASE ReplySent(w)
  <2>1. /\ wpc[w] = "reply" /\ wpc'[w] \in {"session", "recv"}
        /\ wpc'[w] = "recv" => authRet[w] # "OK"
    BY <1>6 DEF ReplySent
  <2>2. \/ peer[w] = "here" /\ peer'[w] = "here"
        \/ peer[w] \in {"gone", "resetting"} /\ peer'[w] = "resetting"
    BY <1>6 DEF ReplySent, SendSucceeds
  <2> QED
    BY <2>1, <2>2
<1>7. CASE ReplyFails(w) \/ EndSession(w)
  BY <1>7 DEF ReplyFails, EndSession, Onward
<1> QED
  BY <1>1, <1>2, <1>3, <1>4, <1>5, <1>6, <1>7 DEF Step, Authenticate

LEMMA IdlePreserved ==
    ASSUME TypeOK, IdleHasNoClient, NEW v \in Worker, Step(v)
    PROVE  IdleHasNoClient'
<1> SUFFICES ASSUME NEW w \in Worker PROVE wpc'[w] = "idle" <=> peer'[w] = "none"
  BY DEF IdleHasNoClient
<1>1. wpc[w] = "idle" <=> peer[w] = "none"
  BY DEF IdleHasNoClient
<1>2. CASE w = v
  BY <1>1, <1>2, OwnSteps DEF Onward
<1>3. CASE w # v
  BY <1>1, <1>3, OthersStay
<1> QED
  BY <1>2, <1>3

LEMMA IdleInvariant == Spec => []IdleHasNoClient
<1>1. Init => IdleHasNoClient
  BY DEF Init, IdleHasNoClient
<1>2. TypeOK /\ IdleHasNoClient /\ [Next]_vars => IdleHasNoClient'
  <2>1. ASSUME TypeOK, IdleHasNoClient, Next PROVE IdleHasNoClient'
    BY <2>1, IdlePreserved DEF Next, Step
  <2>2. UNCHANGED vars /\ IdleHasNoClient => IdleHasNoClient'
    BY DEF vars, attemptVars, IdleHasNoClient
  <2> QED
    BY <2>1, <2>2
<1> QED
  BY <1>1, <1>2, TypeCorrect, PTL DEF Spec

\* Every step onward lowers the stage.
LEMMA OnwardIsDown ==
    /\ \A step \in Onward :
           Stage[step[1]] \in Nat /\ Stage[step[2]] \in Nat /\ Stage[step[2]] < Stage[step[1]]
    /\ Stage["recv"] = 12 /\ Stage["reply"] = 3 /\ Stage["session"] = 2
    /\ Stage["close"] = 1 /\ Stage["idle"] = 0
BY DEF Onward, Stage

\* A worker whose client has left goes back after a refusal without a reset
\* only (clientHandle.c:25-48, sendMessage.c:100-116).
THEOREM WorkerOfGoneClientMovesOn == Spec => LoginWindsDown
<1> DEFINE Down == \A w \in Worker :
              peer[w] \in Left /\ wpc'[w] # wpc[w]
                  => Stage[wpc'[w]] < Stage[wpc[w]] \/ RefusalUnseen(w)
<1>1. TypeOK /\ IdleHasNoClient /\ [Next]_vars => [Down]_vars
  <2> SUFFICES ASSUME TypeOK, IdleHasNoClient, NEW v \in Worker, Step(v),
                      NEW w \in Worker, peer[w] \in Left, wpc'[w] # wpc[w]
               PROVE  Stage[wpc'[w]] < Stage[wpc[w]] \/ RefusalUnseen(w)
    BY DEF Next, Step
  <2>1. w = v
    BY OthersStay
  <2>2. wpc[w] # "idle" /\ peer[w] # "here"
    BY DEF IdleHasNoClient, Left
  <2>3. CASE <<wpc[w], wpc'[w]>> \in Onward
    BY <2>3, OnwardIsDown
  <2>4. CASE /\ wpc[w] = "reply" /\ wpc'[w] \in {"session", "recv"}
             /\ wpc'[w] = "recv" => authRet[w] # "OK"
             /\ peer[w] \in {"gone", "resetting"} /\ peer'[w] = "resetting"
    <3>1. CASE wpc'[w] = "session"
      BY <2>4, <3>1, OnwardIsDown
    <3>2. CASE wpc'[w] = "recv"
      BY <2>4, <3>2 DEF RefusalUnseen
    <3> QED
      BY <2>4, <3>1, <3>2
  <2>5. CASE wpc[w] = "close" /\ wpc'[w] = "idle"
    BY <2>5, OnwardIsDown
  <2> QED
    BY <2>1, <2>2, <2>3, <2>4, <2>5, OwnSteps
<1> QED
  BY <1>1, TypeCorrect, IdleInvariant, PTL DEF Spec, LoginWindsDown
=============================================================================
