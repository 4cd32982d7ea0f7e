------------------------- MODULE ClientInputProofs --------------------------
(***************************************************************************)
(* What the client makes of its standard input, for any lines and any      *)
(* number of them: its types, and with them that it never sends more       *)
(* credentials than lines were typed (TypeOK), which lines the loop does   *)
(* not see (LostLinesArePipedOrLong), and that a command is the line that  *)
(* was typed, or the part of it that a read has returned                   *)
(* (CommandIsTheLine).                                                     *)
(***************************************************************************)
EXTENDS ClientProofs

-----------------------------------------------------------------------------
(* The inductive invariant. *)

Inputs ==
    /\ source \in {"terminal", "pipe"}
    /\ typed \in Seq(Seq(Token)) /\ Len(typed) <= MaxLines
    /\ inputOpen \in BOOLEAN

\* What has been read is next - 1 lines; the last of what was read through
\* stdin's buffer may still be there, its first line perhaps in part.
Buffer ==
    /\ next \in 1..Len(typed) + 1
    /\ stdio \in (1..next) \X (0..next - 1) /\ stdio[1] <= stdio[2] + 1
    /\ half \in BOOLEAN
    /\ half => ~StdioEmpty /\ typed[stdio[1]] = Long

\* Only what has been read is cut, and what is not cut is as it was typed.
Uncut ==
    /\ cut \subseteq 1..next - 1
    /\ \A i \in 1..Len(typed) : i \in cut \/ i - 1 \in cut \/ typed[i] \in Line

\* A terminal gives one line at a time, and after the password at most the rest
\* of a long one is left.
OneLineAhead ==
    source = "terminal" =>
        /\ stdio[2] <= stdio[1]
        /\ client \in {"crypt", "sending", "reply", "loop", "executing"} =>
               StdioEmpty \/ half

\* Every fgets takes half a line at least, and an attempt takes two.
Taken == 2 * (stdio[1] - 1) + (IF half THEN 1 ELSE 0)
Spent == 2 * attempt
         + (IF client = "password" THEN 1 ELSE IF client = "crypt" THEN 2 ELSE 0)

Attempts ==
    /\ attempt \in Nat
    /\ Spent <= Taken
    /\ client \in {"sending", "reply", "loop", "executing"} => attempt >= 1

Frame == [kind : {"name", "password", "command"}, of : 1..MaxLines]

Network ==
    /\ heard \in 0..MaxLines
    /\ toServer \in Seq(Frame)
    /\ toClient \in Seq({"AUTH_RESULT_OK", "AUTH_FAIL"})
    /\ line \in {"up", "closed", "reset"}

Parsed ==
    /\ chunk \in (1..MaxLines + 1) \X (0..MaxLines)
    /\ pcmdArg \in [code : Code \union {"invalid"}, arg : SUBSET Token]
    /\ client = "executing" => chunk[2] <= Len(typed)

InputInv ==
    /\ Inputs /\ Buffer /\ Uncut /\ OneLineAhead /\ Attempts
    /\ Places /\ Network /\ Parsed
    /\ CommandIsTheLine

-----------------------------------------------------------------------------
\* No more is taken than was typed, so that there are no more attempts than lines.
LEMMA AttemptsBounded ==
    ASSUME Inputs, Buffer, Attempts
    PROVE  /\ attempt \in 0..MaxLines
           /\ client = "crypt" => attempt + 1 \in 1..MaxLines
<1>0. /\ MaxLines \in Nat /\ Len(typed) \in Nat /\ Len(typed) <= MaxLines
      /\ next \in Nat /\ next <= Len(typed) + 1
      /\ stdio[1] \in Nat /\ stdio[2] \in Nat /\ attempt \in Nat
      /\ stdio[1] <= stdio[2] + 1 /\ stdio[2] <= next - 1
  BY ClientAssumption, LenProperties DEF Inputs, Buffer, Attempts
<1>1. Taken <= 2 * Len(typed)
  <2>1. CASE half
    BY <1>0, <2>1 DEF Buffer, StdioEmpty, Taken
  <2>2. CASE ~half
    BY <1>0, <2>2 DEF Taken
  <2> QED
    BY <2>1, <2>2
<1>2. Taken \in Int
  BY <1>0 DEF Taken
<1>3. 2 * attempt <= Spent /\ Spent \in Int
  BY <1>0 DEF Spent
<1>4. client = "crypt" => Spent = 2 * attempt + 2
  BY <1>0 DEF Spent
<1>5. Spent <= 2 * MaxLines
  BY <1>0, <1>1, <1>2, <1>3 DEF Attempts
<1> QED
  BY <1>0, <1>3, <1>4, <1>5

LEMMA InputInvImpliesTypeOK == InputInv => TypeOK
<1> SUFFICES ASSUME InputInv PROVE TypeOK
  OBVIOUS
<1>1. cut \subseteq 1..MaxLines
  BY LenProperties, ClientAssumption DEF InputInv, Inputs, Buffer, Uncut
<1> QED
  BY <1>1, AttemptsBounded
     DEF InputInv, Inputs, Buffer, Places, Network, Parsed, TypeOK, Frame

LEMMA InputInvImpliesLostLines == InputInv => LostLinesArePipedOrLong
  BY DEF InputInv, Inputs, Buffer, OneLineAhead, LostLinesArePipedOrLong, InLoop, StdioEmpty

LEMMA InputInvInit == Init => InputInv
<1> SUFFICES ASSUME Init PROVE InputInv
  OBVIOUS
<1> USE ClientAssumption DEF Init
<1>1. Inputs
  BY DEF Inputs
<1>2. Buffer /\ OneLineAhead
  <2>1. Len(typed) = 0
    OBVIOUS
  <2>2. next = 1 /\ stdio = <<1, 0>>
    OBVIOUS
  <2>3. stdio[1] = 1 /\ stdio[2] = 0 /\ StdioEmpty
    <3> HIDE DEF Init
    <3> QED
      BY <2>2 DEF StdioEmpty
  <2>4. /\ next \in 1..Len(typed) + 1 /\ stdio \in (1..next) \X (0..next - 1)
        /\ stdio[1] <= stdio[2] + 1 /\ stdio[2] <= stdio[1]
    BY <2>1, <2>2, <2>3
  <2>5. half \in BOOLEAN /\ ~half
    OBVIOUS
  <2> QED
    BY <2>3, <2>4, <2>5, Zenon DEF Buffer, OneLineAhead
<1>6. Uncut
  BY DEF Uncut
<1>3. Attempts
  BY DEF Attempts, Spent, Taken
<1>4. Places /\ Network
  BY DEF Places, Network
<1>5. Parsed /\ CommandIsTheLine
  BY DEF Parsed, CommandIsTheLine, Invalid
<1> QED
  BY <1>1, <1>2, <1>3, <1>4, <1>5, <1>6 DEF InputInv

\* Which actions write what.
LEMMA WhoWrites ==
    ASSUME [Next]_vars
    PROVE  /\ source' = source
           /\ UNCHANGED <<typed, cut>> \/ TypeLine \/ ReadCommand
           /\ inputOpen' = inputOpen \/ CloseInput
           /\ UNCHANGED readVars \/ FillStdio \/ GetName \/ GetPassword \/ ReadCommand
           /\ UNCHANGED loopVars \/ ReadCommand
           /\ UNCHANGED attempt \/ SendName
           /\ UNCHANGED heard \/ ReceiveName
<1> USE DEF inputVars, readVars, loopVars, workerVars
<1>1. CASE handle_authen_event
  BY <1>1 DEF handle_authen_event, handle_authentication, FillStdio, GetName, GetPassword,
              LoginInputEnds, CryptFails, SendName, SendPassword, ReadReply,
              ReadReplyAtEof
<1>2. CASE EventLoop
  BY <1>2 DEF EventLoop, ReadCommand, CommandEnds, LoopEnds
<1>3. CASE WorkerStep
  BY <1>3 DEF WorkerStep, WorkerServes, TakeClient, ReceiveName, ReceivePassword, ServeCommand,
              SeeClientLeave
<1>4. CASE TypeLine \/ CloseInput \/ ServerEnds \/ UNCHANGED vars
  BY <1>4 DEF TypeLine, CloseInput, ServerEnds, vars
<1> QED
  BY <1>1, <1>2, <1>3, <1>4 DEF Next

-----------------------------------------------------------------------------
(* The steps. *)

LEMMA LastReadBounds ==
    ASSUME Inputs, Buffer, next <= Len(typed)
    PROVE  /\ LastRead \in next..Len(typed) /\ next \in 1..Len(typed)
           /\ source = "terminal" => LastRead = next
  BY LenProperties DEF Inputs, Buffer, LastRead

\* A cut line is two sequences of words.
LEMMA PartsType ==
    ASSUME NEW words \in Seq(Token), NEW parts \in Parts(words)
    PROVE  parts \in Seq(Seq(Token)) /\ Len(parts) = 2
<1> DEFINE Front(k) == SubSeq(words, 1, k)
           Back(k) == SubSeq(words, k, Len(words))
<1>0. Len(words) \in Nat /\ \A i \in 1..Len(words) : words[i] \in Token
  BY LenProperties, ElementOfSeq
<1>1. \A k \in 0..Len(words) : Front(k) \in Seq(Token)
  BY <1>0, SubSeqProperties
<1>2. \A k \in 1..Len(words) + 1 : Back(k) \in Seq(Token)
  <2> TAKE k \in 1..Len(words) + 1
  <2>1. k \in Int /\ Len(words) \in Int /\ \A i \in k..Len(words) : words[i] \in Token
    BY <1>0
  <2> QED
    BY <2>1, SubSeqProperties
<1>3. \E f, b \in Seq(Token) : parts = <<f, b>>
  <2>1. CASE \E k \in 0..Len(words) : parts = <<Front(k), Back(k + 1)>>
    <3> PICK k \in 0..Len(words) : parts = <<Front(k), Back(k + 1)>>
      BY <2>1
    <3>1. Front(k) \in Seq(Token) /\ Back(k + 1) \in Seq(Token)
      BY <1>0, <1>1, <1>2
    <3> HIDE DEF Front, Back
    <3> QED
      BY <3>1
  <2>2. CASE \E k \in 1..Len(words) : \E h \in Halves[words[k]] :
                 parts = <<Append(Front(k - 1), h[1]), <<h[2]>> \o Back(k + 1)>>
    <3> PICK k \in 1..Len(words) : \E h \in Halves[words[k]] :
                 parts = <<Append(Front(k - 1), h[1]), <<h[2]>> \o Back(k + 1)>>
      BY <2>2
    <3> PICK h \in Halves[words[k]] :
                 parts = <<Append(Front(k - 1), h[1]), <<h[2]>> \o Back(k + 1)>>
      OBVIOUS
    <3>1. Front(k - 1) \in Seq(Token) /\ Back(k + 1) \in Seq(Token)
      BY <1>0, <1>1, <1>2
    <3>2. h[1] \in Token /\ h[2] \in Token
      BY <1>0, ClientAssumption
    <3> HIDE DEF Front, Back
    <3>3. Append(Front(k - 1), h[1]) \in Seq(Token)
      BY <3>1, <3>2, AppendProperties
    <3>4. <<h[2]>> \in Seq(Token)
      BY <3>2
    <3>5. <<h[2]>> \o Back(k + 1) \in Seq(Token)
      BY <3>1, <3>4, ConcatProperties
    <3> QED
      BY <3>3, <3>5
  <2> QED
    BY <2>1, <2>2 DEF Parts
<1> QED
  BY <1>3

LEMMA Concatenation ==
    ASSUME NEW T, NEW s \in Seq(T), NEW t \in Seq(T)
    PROVE  /\ s \o t \in Seq(T) /\ Len(s \o t) = Len(s) + Len(t)
           /\ \A j \in 1..Len(s) + Len(t) :
                  (s \o t)[j] = IF j <= Len(s) THEN s[j] ELSE t[j - Len(s)]
  BY ConcatProperties

\* A cut moves the lines behind it by one and leaves those before it alone.
LEMMA CutLineIs ==
    ASSUME typed \in Seq(Seq(Token)), NEW i \in 1..Len(typed), NEW parts \in Parts(typed[i])
    PROVE  /\ CutLine(i, parts) \in Seq(Seq(Token))
           /\ Len(CutLine(i, parts)) = Len(typed) + 1
           /\ \A j \in 1..i - 1 : CutLine(i, parts)[j] = typed[j]
           /\ \A j \in i + 2..Len(typed) + 1 : CutLine(i, parts)[j] = typed[j - 1]
<1> DEFINE T == Seq(Token)
           Front == SubSeq(typed, 1, i - 1)
           Back == SubSeq(typed, i + 1, Len(typed))
<1>0. Len(typed) \in Nat /\ \A j \in 1..Len(typed) : typed[j] \in T
  BY LenProperties, ElementOfSeq
<1>1. parts \in Seq(T) /\ Len(parts) = 2
  BY <1>0, PartsType
<1> HIDE DEF T
<1>2. /\ Front \in Seq(T) /\ Len(Front) = i - 1
      /\ \A j \in 1..i - 1 : Front[j] = typed[j]
  <2>1. i - 1 \in Int /\ 1 \in Int /\ \A j \in 1..i - 1 : typed[j] \in T
    BY <1>0
  <2> QED
    BY <2>1, SubSeqProperties
<1>3. /\ Back \in Seq(T) /\ Len(Back) = Len(typed) - i
      /\ \A j \in 1..Len(typed) - i : Back[j] = typed[i + j]
  <2>1. i + 1 \in Int /\ Len(typed) \in Int /\ \A j \in i + 1..Len(typed) : typed[j] \in T
    BY <1>0
  <2>2. /\ Back \in Seq(T)
        /\ Len(Back) = IF i + 1 <= Len(typed) THEN Len(typed) - (i + 1) + 1 ELSE 0
        /\ \A j \in 1..Len(typed) - (i + 1) + 1 : Back[j] = typed[(i + 1) + j - 1]
    BY <2>1, SubSeqProperties
  <2> HIDE DEF Back
  <2> QED
    BY <1>0, <2>2
<1> HIDE DEF Front, Back
<1>4. /\ Front \o parts \in Seq(T) /\ Len(Front \o parts) = i + 1
      /\ \A j \in 1..i - 1 : (Front \o parts)[j] = Front[j]
  <2>1. /\ Front \o parts \in Seq(T)
        /\ Len(Front \o parts) = Len(Front) + Len(parts)
        /\ \A j \in 1..Len(Front) + Len(parts) :
               (Front \o parts)[j] =
                   IF j <= Len(Front) THEN Front[j] ELSE parts[j - Len(Front)]
    BY <1>1, <1>2, Concatenation
  <2> QED
    BY <1>0, <1>1, <1>2, <2>1
<1>5. /\ (Front \o parts) \o Back \in Seq(T)
      /\ Len((Front \o parts) \o Back) = Len(typed) + 1
      /\ \A j \in 1..Len(typed) + 1 :
             ((Front \o parts) \o Back)[j] =
                 IF j <= i + 1 THEN (Front \o parts)[j] ELSE Back[j - (i + 1)]
  <2> DEFINE Both == Front \o parts
  <2>1. /\ Both \in Seq(T) /\ Len(Both) = i + 1
        /\ Back \in Seq(T) /\ Len(Back) = Len(typed) - i
    BY <1>3, <1>4
  <2> HIDE DEF Both
  <2>2. /\ Both \o Back \in Seq(T) /\ Len(Both \o Back) = Len(Both) + Len(Back)
        /\ \A j \in 1..Len(Both) + Len(Back) :
               (Both \o Back)[j] =
                   IF j <= Len(Both) THEN Both[j] ELSE Back[j - Len(Both)]
    BY <2>1, Concatenation
  <2>3. Len(Both) + Len(Back) = Len(typed) + 1
    BY <1>0, <2>1
  <2> QED
    BY <2>1, <2>2, <2>3 DEF Both
<1>6. CutLine(i, parts) = (Front \o parts) \o Back
  BY DEF CutLine, Front, Back
<1>7. \A j \in 1..i - 1 : CutLine(i, parts)[j] = typed[j]
  <2> TAKE j \in 1..i - 1
  <2>1. j \in 1..Len(typed) + 1 /\ j <= i + 1
    BY <1>0
  <2> QED
    BY <1>2, <1>4, <1>5, <1>6, <2>1
<1>8. \A j \in i + 2..Len(typed) + 1 : CutLine(i, parts)[j] = typed[j - 1]
  <2> TAKE j \in i + 2..Len(typed) + 1
  <2>1. /\ j \in 1..Len(typed) + 1 /\ ~(j <= i + 1)
        /\ j - (i + 1) \in 1..Len(typed) - i /\ i + (j - (i + 1)) = j - 1
    BY <1>0
  <2> QED
    BY <1>3, <1>5, <1>6, <2>1
<1> QED
  BY <1>5, <1>6, <1>7, <1>8 DEF T

\* Lines come after the others, and what has been read stays as it is.
LEMMA TypedGrows ==
    ASSUME Inputs, Buffer, [Next]_vars
    PROVE  /\ typed' \in Seq(Seq(Token)) /\ Len(typed) \in Nat /\ Len(typed') \in Nat
           /\ Len(typed') >= Len(typed) /\ Len(typed') <= MaxLines
           /\ \A i \in 1..next - 1 : typed'[i] = typed[i]
           /\ ~ReadCommand => \A i \in 1..Len(typed) : typed'[i] = typed[i]
<1>0. /\ Len(typed) \in Nat /\ MaxLines \in Nat /\ next \in 1..Len(typed) + 1
      /\ typed \in Seq(Seq(Token)) /\ Len(typed) <= MaxLines
  BY LenProperties, ClientAssumption DEF Inputs, Buffer
<1>1. CASE TypeLine
  <2> PICK words \in Line : typed' = Append(typed, words)
    BY <1>1 DEF TypeLine
  <2>1. words \in Seq(Token)
    BY ClientAssumption
  <2>2. /\ typed' \in Seq(Seq(Token)) /\ Len(typed') = Len(typed) + 1
        /\ \A i \in 1..Len(typed) : typed'[i] = typed[i]
    BY <1>0, <2>1, AppendProperties
  <2>3. Len(typed) < MaxLines
    BY <1>1 DEF TypeLine
  <2> QED
    BY <1>0, <2>2, <2>3
<1>2. CASE ReadCommand /\ typed' # typed
  <2> PICK last \in next..LastRead : ReadLines(last)
    BY <1>2 DEF ReadCommand
  <2>1. last \in 1..Len(typed) /\ next <= last
    BY <1>0, <1>2, LastReadBounds DEF ReadCommand
  <2>2. Len(typed) < MaxLines
    BY <1>2 DEF ReadLines
  <2> PICK parts \in Parts(typed[last]) : typed' = CutLine(last, parts)
    BY <1>2 DEF ReadLines
  <2>3. /\ typed' \in Seq(Seq(Token)) /\ Len(typed') = Len(typed) + 1
        /\ \A i \in 1..last - 1 : typed'[i] = typed[i]
    BY <1>0, <2>1, CutLineIs
  <2> QED
    BY <1>0, <1>2, <2>1, <2>2, <2>3
<1>3. CASE typed' = typed
  BY <1>0, <1>3
<1> QED
  BY <1>1, <1>2, <1>3, WhoWrites

LEMMA InputsStep == Inputs /\ Buffer /\ [Next]_vars => Inputs'
<1> SUFFICES ASSUME Inputs, Buffer, [Next]_vars PROVE Inputs'
  OBVIOUS
<1>1. typed' \in Seq(Seq(Token)) /\ Len(typed') <= MaxLines
  BY TypedGrows
<1>2. inputOpen' \in BOOLEAN /\ source' = source
  BY WhoWrites DEF Inputs, CloseInput
<1> QED
  BY <1>1, <1>2 DEF Inputs

\* What fgets leaves in the buffer.
LEMMA FgetsEffect ==
    ASSUME Inputs, Buffer, fgets
    PROVE  /\ next' = next /\ half' \in BOOLEAN
           /\ stdio' \in (1..next) \X (0..next - 1)
           /\ stdio[1] <= stdio[2] /\ stdio'[2] = stdio[2]
           /\ half' => stdio'[1] = stdio[1] /\ ~half /\ typed[stdio[1]] = Long
           /\ ~half' => stdio'[1] = stdio[1] + 1
<1>0. /\ stdio[1] \in 1..next /\ stdio[2] \in 0..next - 1 /\ next \in Nat
      /\ stdio[1] <= stdio[2]
  BY LenProperties DEF Inputs, Buffer, fgets, StdioEmpty
<1>1. CASE half'
  BY <1>0, <1>1 DEF fgets, Buffer
<1>2. CASE ~half'
  <2>1. stdio' = <<stdio[1] + 1, stdio[2]>>
    BY <1>2 DEF fgets
  <2> QED
    BY <1>0, <1>2, <2>1 DEF fgets, Buffer
<1>3. half' \in BOOLEAN
  BY DEF fgets
<1> QED
  BY <1>0, <1>1, <1>2, <1>3 DEF fgets

\* How far a read for a command comes.
LEMMA ReadCommandMoves ==
    ASSUME Inputs, Buffer, [Next]_vars, ReadCommand
    PROVE  \E last \in next..Len(typed) :
               /\ last \in Nat /\ next' = last + 1 /\ chunk' = <<next, last>>
               /\ source = "terminal" => last = next
               /\ ReadLines(last)
<1>1. LastRead \in next..Len(typed) /\ (source = "terminal" => LastRead = next)
  BY LastReadBounds DEF ReadCommand
<1>2. Len(typed) \in Nat /\ next \in Nat
  BY LenProperties DEF Inputs, Buffer
<1>3. PICK last \in next..LastRead : ReadLines(last)
  BY DEF ReadCommand
<1>4. last \in next..Len(typed) /\ last \in Nat /\ (source = "terminal" => last = next)
  BY <1>1, <1>2
<1> QED
  BY <1>3, <1>4 DEF ReadLines

\* What has been read stays read.
LEMMA NextGrows ==
    ASSUME Inputs, Buffer, [Next]_vars
    PROVE  next \in Nat /\ next' \in Nat /\ next' >= next /\ (FillStdio => next' > next)
<1>0. Len(typed) \in Nat /\ next \in Nat /\ next >= 1
  BY LenProperties DEF Inputs, Buffer
<1>1. CASE FillStdio
  <2>1. next <= Len(typed) /\ next' = LastRead + 1
    BY <1>1 DEF FillStdio
  <2>2. LastRead \in next..Len(typed)
    BY <2>1, LastReadBounds
  <2> QED
    BY <1>0, <2>1, <2>2
<1>2. CASE ReadCommand /\ ~FillStdio
  <2> PICK last \in next..Len(typed) : last \in Nat /\ next' = last + 1
    BY <1>2, ReadCommandMoves
  <2> QED
    BY <1>0, <1>2
<1>3. CASE ~FillStdio /\ ~ReadCommand
  BY <1>0, <1>3, WhoWrites DEF readVars, GetName, GetPassword, fgets
<1> QED
  BY <1>1, <1>2, <1>3

LEMMA BufferStep == Inputs /\ Buffer /\ [Next]_vars => Buffer'
<1> SUFFICES ASSUME Inputs, Buffer, [Next]_vars PROVE Buffer'
  OBVIOUS
<1>0. /\ Len(typed) \in Nat /\ next \in 1..Len(typed) + 1
      /\ stdio[1] \in 1..next /\ stdio[2] \in 0..next - 1
  BY LenProperties DEF Inputs, Buffer
<1>1. CASE UNCHANGED readVars
  <2>1. /\ Len(typed') \in Nat /\ Len(typed') >= Len(typed)
        /\ \A i \in 1..next - 1 : typed'[i] = typed[i]
    BY TypedGrows
  <2>2. half => stdio[1] \in 1..next - 1
    BY <1>0 DEF Buffer, StdioEmpty
  <2> QED
    BY <1>0, <1>1, <2>1, <2>2 DEF Buffer, readVars, StdioEmpty
<1>2. CASE FillStdio
  <2>1. half' \in BOOLEAN /\ ~half' /\ typed' = typed
    BY <1>2 DEF FillStdio, Buffer, inputVars
  <2>2. stdio' = <<next, LastRead>> /\ next' = LastRead + 1
    BY <1>2 DEF FillStdio
  <2>3. LastRead \in next..Len(typed)
    BY <1>2, LastReadBounds DEF FillStdio
  <2>4. /\ next' \in 1..Len(typed') + 1
        /\ stdio' \in (1..next') \X (0..next' - 1)
        /\ stdio'[1] <= stdio'[2] + 1
    BY <1>0, <2>1, <2>2, <2>3
  <2> QED
    BY <2>1, <2>4, Zenon DEF Buffer
<1>3. CASE GetName \/ GetPassword
  <2>1. fgets /\ typed' = typed
    BY <1>3 DEF GetName, GetPassword, inputVars
  <2>2. stdio' \in (1..next') \X (0..next' - 1) /\ next' = next /\ half' \in BOOLEAN
    BY <2>1, FgetsEffect
  <2>3. stdio'[1] <= stdio'[2] + 1
    BY <1>0, <2>1, FgetsEffect
  <2>4. half' => ~StdioEmpty' /\ typed'[stdio'[1]] = Long
    <3> SUFFICES ASSUME half' PROVE ~StdioEmpty' /\ typed'[stdio'[1]] = Long
      OBVIOUS
    <3>1. /\ stdio'[1] = stdio[1] /\ stdio'[2] = stdio[2] /\ stdio[1] <= stdio[2]
          /\ typed[stdio[1]] = Long
      BY <2>1, FgetsEffect
    <3>2. ~(stdio'[1] > stdio'[2]) /\ typed'[stdio'[1]] = Long
      BY <1>0, <2>1, <3>1
    <3> QED
      BY <3>2 DEF StdioEmpty
  <2>5. /\ next' \in 1..Len(typed') + 1
        /\ stdio' \in (1..next') \X (0..next' - 1)
    BY <1>0, <2>1, <2>2
  <2>6. half' \in BOOLEAN
    BY <2>2
  <2> QED
    BY <2>3, <2>4, <2>5, <2>6, Zenon DEF Buffer
<1>4. CASE ReadCommand
  <2>1. UNCHANGED <<stdio, half>>
    BY <1>4 DEF ReadCommand
  <2>2. PICK last \in next..Len(typed) : last \in Nat /\ next' = last + 1
    BY <1>4, ReadCommandMoves
  <2>3. /\ Len(typed') \in Nat /\ Len(typed') >= Len(typed)
        /\ \A i \in 1..next - 1 : typed'[i] = typed[i]
    BY TypedGrows
  <2>4. next' \in 1..Len(typed') + 1 /\ next' >= next
    BY <1>0, <2>2, <2>3
  <2>5. stdio \in (1..next') \X (0..next' - 1)
    BY <1>0, <2>4 DEF Buffer
  <2>6. half => stdio[1] \in 1..next - 1
    BY <1>0 DEF Buffer, StdioEmpty
  <2> QED
    BY <2>1, <2>3, <2>4, <2>5, <2>6 DEF Buffer, StdioEmpty
<1> QED
  BY <1>1, <1>2, <1>3, <1>4, WhoWrites

LEMMA RangeGrows ==
    ASSUME NEW a \in Nat, NEW b \in Nat, b >= a
    PROVE  1..a - 1 \subseteq 1..b - 1
  OBVIOUS

LEMMA UncutStep == Inputs /\ Buffer /\ Uncut /\ [Next]_vars => Uncut'
<1> SUFFICES ASSUME Inputs, Buffer, Uncut, [Next]_vars PROVE Uncut'
  OBVIOUS
<1>0. /\ Len(typed) \in Nat /\ next \in 1..Len(typed) + 1
      /\ cut \subseteq 1..next - 1
  BY LenProperties DEF Inputs, Buffer, Uncut
<1>1. CASE UNCHANGED <<typed, cut>>
  <2>1. next \in Nat /\ next' \in Nat /\ next' >= next
    BY NextGrows
  <2>2. 1..next - 1 \subseteq 1..next' - 1
    BY <2>1, RangeGrows
  <2>3. cut' = cut /\ typed' = typed
    BY <1>1
  <2>4. cut' \subseteq 1..next' - 1
    BY <1>0, <2>2, <2>3, Zenon
  <2> QED
    BY <2>3, <2>4 DEF Uncut
<1>2. CASE TypeLine
  <2> PICK words \in Line : typed' = Append(typed, words)
    BY <1>2 DEF TypeLine
  <2>1. words \in Seq(Token)
    BY ClientAssumption
  <2>2. /\ Len(typed') = Len(typed) + 1 /\ typed'[Len(typed) + 1] = words
        /\ \A i \in 1..Len(typed) : typed'[i] = typed[i]
    BY <2>1, AppendProperties DEF Inputs
  <2>3. cut' = cut /\ next' = next
    BY <1>2 DEF TypeLine, readVars
  <2> QED
    BY <1>0, <2>2, <2>3 DEF Uncut
<1>3. CASE ReadCommand /\ ~UNCHANGED <<typed, cut>>
  <2>1. PICK last \in next..Len(typed) :
            last \in Nat /\ next' = last + 1 /\ ReadLines(last)
    BY <1>3, ReadCommandMoves
  <2>2. PICK parts \in Parts(typed[last]) : typed' = CutLine(last, parts)
    BY <1>3, <2>1 DEF ReadLines
  <2>3. cut' = cut \union {last}
    BY <1>3, <2>1 DEF ReadLines
  <2>4. last \in 1..Len(typed)
    BY <1>0
  <2>5. /\ Len(typed') = Len(typed) + 1
        /\ \A j \in 1..last - 1 : typed'[j] = typed[j]
        /\ \A j \in last + 2..Len(typed) + 1 : typed'[j] = typed[j - 1]
    BY <2>2, <2>4, CutLineIs DEF Inputs
  <2>6. cut' \subseteq 1..next' - 1
    BY <1>0, <2>1, <2>3, <2>4
  <2>7. ASSUME NEW i \in 1..Len(typed) + 1
        PROVE  i \in cut' \/ i - 1 \in cut' \/ typed'[i] \in Line
    <3>1. CASE i \in 1..last - 1
      BY <1>0, <2>3, <2>4, <2>5, <3>1 DEF Uncut
    <3>2. CASE i \in {last, last + 1}
      BY <2>3, <2>4, <3>2
    <3>3. CASE i \in last + 2..Len(typed) + 1
      <4>1. i - 1 \in 1..Len(typed) /\ i - 1 \notin cut /\ (i - 1) - 1 \notin cut
        BY <1>0, <2>1, <2>4, <3>3
      <4> QED
        BY <2>5, <3>3, <4>1 DEF Uncut
    <3> QED
      BY <1>0, <2>4, <3>1, <3>2, <3>3
  <2> QED
    BY <2>5, <2>6, <2>7 DEF Uncut
<1> QED
  BY <1>1, <1>2, <1>3, WhoWrites

\* Where the client can come from.
LEMMA ClientMoves ==
    ASSUME Places, [Next]_vars, client' # client
    PROVE  /\ client' = "password" => GetName
           /\ client' = "crypt" => GetPassword
           /\ client' = "sending" => SendName
           /\ client' = "reply" => client = "sending"
           /\ client' = "loop" => client \in {"reply", "executing"}
           /\ client' = "executing" => ReadCommand
<1>1. CASE handle_authen_event
  BY <1>1 DEF handle_authen_event, handle_authentication, FillStdio, GetName, GetPassword,
              LoginInputEnds, CryptFails, SendName, SendPassword, ReadReply,
              ReadReplyAtEof
<1>2. CASE EventLoop
  BY <1>2 DEF EventLoop, ReadCommand, CommandEnds, LoopEnds
<1>3. CASE WorkerStep
  BY <1>3 DEF WorkerStep, WorkerServes, TakeClient, ReceiveName, ReceivePassword, ServeCommand,
              SeeClientLeave
<1>4. CASE TypeLine \/ CloseInput \/ ServerEnds \/ UNCHANGED vars
  BY <1>4 DEF TypeLine, CloseInput, ServerEnds, vars
<1> QED
  BY <1>1, <1>2, <1>3, <1>4 DEF Next

LEMMA OneLineAheadStep ==
    Inputs /\ Buffer /\ OneLineAhead /\ Places /\ [Next]_vars => OneLineAhead'
<1> SUFFICES ASSUME Inputs, Buffer, OneLineAhead, Places, [Next]_vars,
                    source = "terminal"
             PROVE  /\ stdio'[2] <= stdio'[1]
                    /\ client' \in {"crypt", "sending", "reply", "loop", "executing"} =>
                           StdioEmpty' \/ half'
  BY WhoWrites DEF OneLineAhead
<1>0. /\ Len(typed) \in Nat /\ next \in 1..Len(typed) + 1
      /\ stdio[1] \in 1..next /\ stdio[2] \in 0..next - 1 /\ stdio[2] <= stdio[1]
  BY LenProperties DEF Inputs, Buffer, OneLineAhead
<1>1. CASE FillStdio
  BY <1>0, <1>1, LastReadBounds DEF FillStdio
<1>2. CASE fgets
  BY <1>0, <1>2, FgetsEffect DEF StdioEmpty
<1>3. CASE UNCHANGED <<stdio, half>> /\ client' \in {client, "loop", "exited", "name"}
  BY <1>0, <1>3, ClientMoves DEF StdioEmpty, OneLineAhead
<1>4. CASE UNCHANGED <<stdio, half>> /\ client' \in {"sending", "reply", "executing"}
  BY <1>0, <1>4, ClientMoves DEF StdioEmpty, OneLineAhead, SendName, ReadCommand
<1>5. ASSUME ~FillStdio, ~fgets PROVE UNCHANGED <<stdio, half>>
  BY <1>5, WhoWrites DEF readVars, GetName, GetPassword, ReadCommand
<1>6. ASSUME ~FillStdio, ~fgets PROVE client' \notin {"password", "crypt"} \/ client' = client
  BY <1>6, ClientMoves DEF GetName, GetPassword
<1>7. client' \in {"name", "password", "crypt", "sending", "reply", "loop", "executing",
                   "exited"}
  BY PlacesStep DEF Places
<1> QED
  BY <1>1, <1>2, <1>3, <1>4, <1>5, <1>6, <1>7

-----------------------------------------------------------------------------
(* Attempts, and what is on its way. *)

LEMMA TakenGrows ==
    ASSUME Inputs, Buffer, [Next]_vars
    PROVE  /\ Taken \in Int /\ Taken' \in Int /\ Taken' >= Taken
           /\ GetName \/ GetPassword => Taken' > Taken
<1>0. /\ stdio[1] \in Nat /\ stdio[2] \in Nat /\ next \in Nat /\ stdio[1] <= next
  BY LenProperties DEF Inputs, Buffer
<1>1. CASE UNCHANGED <<stdio, half>> /\ ~GetName /\ ~GetPassword
  BY <1>0, <1>1 DEF Taken
<1>2. CASE GetName \/ GetPassword
  <2>1. fgets
    BY <1>2 DEF GetName, GetPassword
  <2>2. CASE half'
    <3>1. stdio'[1] = stdio[1] /\ ~half
      BY <2>1, <2>2, FgetsEffect
    <3>2. Taken = 2 * (stdio[1] - 1) /\ Taken' = 2 * (stdio'[1] - 1) + 1
      BY <1>0, <2>2, <3>1 DEF Taken
    <3> QED
      BY <1>0, <3>1, <3>2
  <2>3. CASE ~half'
    <3>1. stdio'[1] = stdio[1] + 1
      BY <2>1, <2>3, FgetsEffect
    <3>2. Taken' = 2 * stdio[1] /\ Taken \in {2 * (stdio[1] - 1), 2 * (stdio[1] - 1) + 1}
      BY <1>0, <2>3, <3>1 DEF Taken
    <3> QED
      BY <1>0, <3>2
  <2> QED
    BY <2>2, <2>3
<1>3. CASE FillStdio /\ ~GetName /\ ~GetPassword
  <2>1. ~half /\ ~half' /\ stdio'[1] = next
    BY <1>3 DEF FillStdio, Buffer
  <2> QED
    BY <1>0, <1>3, <2>1 DEF Taken
<1>4. UNCHANGED <<stdio, half>> \/ FillStdio \/ GetName \/ GetPassword
  BY WhoWrites DEF readVars, ReadCommand
<1> QED
  BY <1>1, <1>2, <1>3, <1>4

LEMMA AttemptsStep ==
    Inputs /\ Buffer /\ Attempts /\ Places /\ [Next]_vars => Attempts'
<1> SUFFICES ASSUME Inputs, Buffer, Attempts, Places, [Next]_vars PROVE Attempts'
  OBVIOUS
<1>0. Taken \in Int /\ Taken' \in Int /\ Taken' >= Taken /\ attempt \in Nat
      /\ Spent <= Taken
  BY TakenGrows DEF Attempts
<1>1. CASE GetName \/ GetPassword
  <2>1. /\ attempt' = attempt /\ Taken' > Taken /\ Spent' = Spent + 1 /\ Spent \in Int
        /\ client' \in {"password", "crypt"}
    BY <1>0, <1>1, TakenGrows DEF GetName, GetPassword, Spent
  <2> QED
    BY <1>0, <2>1 DEF Attempts
<1>2. CASE SendName
  <2>1. /\ attempt' = attempt + 1 /\ Spent' = Spent /\ Spent \in Int
        /\ client' \in {"sending", "name"}
    BY <1>0, <1>2 DEF SendName, Spent
  <2> QED
    BY <1>0, <2>1 DEF Attempts
<1>3. CASE ~GetName /\ ~GetPassword /\ ~SendName
  <2>1. attempt' = attempt
    BY <1>3, WhoWrites
  <2>2. client' = client \/ client' \in {"name", "reply", "loop", "executing", "exited"}
    BY <1>3, ClientMoves, PlacesStep DEF Places
  <2>3. Spent' <= Spent /\ Spent \in Int /\ Spent' \in Int
    BY <1>0, <2>1, <2>2 DEF Spent
  <2>4. client' \in {"sending", "reply", "loop", "executing"} => attempt >= 1
    BY <1>3, ClientMoves DEF Attempts, ReadCommand
  <2> QED
    BY <1>0, <2>1, <2>3, <2>4 DEF Attempts
<1> QED
  BY <1>1, <1>2, <1>3

LEMMA SendKeepsNetwork ==
    ASSUME Network, NEW kind \in {"name", "password", "command"},
           attempt' \in 1..MaxLines, SendOk(kind) \/ SendFails
    PROVE  /\ toServer' \in Seq(Frame) /\ toClient' = toClient
           /\ line' \in {"up", "closed", "reset"}
<1>1. [kind |-> kind, of |-> attempt'] \in Frame
  BY DEF Frame
<1>2. CASE SendOk(kind)
  BY <1>1, <1>2, AppendProperties DEF SendOk, Network
<1>3. CASE SendFails
  BY <1>3 DEF SendFails, netVars, Network
<1> QED
  BY <1>2, <1>3

LEMMA NetworkStep ==
    Inputs /\ Buffer /\ Attempts /\ Places /\ Network /\ [Next]_vars => Network'
<1> SUFFICES ASSUME Inputs, Buffer, Attempts, Places, Network, [Next]_vars
             PROVE  Network'
  OBVIOUS
<1> DEFINE V == {"AUTH_RESULT_OK", "AUTH_FAIL"}
<1>0. MaxLines \in Nat /\ attempt \in Nat
  BY ClientAssumption DEF Attempts
<1>1. CASE UNCHANGED <<heard, netVars>>
  BY <1>1 DEF Network, netVars
<1>2. CASE SendName
  <2>1. attempt' \in 1..MaxLines /\ heard' = heard /\ (SendOk("name") \/ SendFails)
    BY <1>2, AttemptsBounded DEF SendName, workerVars
  <2> QED
    BY <2>1, SendKeepsNetwork DEF Network
<1>3. CASE SendPassword
  <2>1. attempt' \in 1..MaxLines /\ heard' = heard /\ (SendOk("password") \/ SendFails)
    BY <1>0, <1>3, AttemptsBounded DEF SendPassword, workerVars, Attempts
  <2> QED
    BY <2>1, SendKeepsNetwork DEF Network
<1>4. CASE ReadCommand /\ ~UNCHANGED netVars
  <2>1. attempt' \in 1..MaxLines /\ heard' = heard /\ (SendOk("command") \/ SendFails)
    BY <1>0, <1>4, AttemptsBounded DEF ReadCommand, workerVars, Attempts
  <2> QED
    BY <2>1, SendKeepsNetwork DEF Network
<1>5. CASE ReadReply
  <2>1. toClient' \in Seq(V)
    <3>1. toClient \in Seq(V) /\ toClient # <<>> /\ toClient' = Tail(toClient)
      BY <1>5 DEF ReadReply, Network
    <3> HIDE DEF V
    <3> QED
      BY <3>1, HeadTailProperties
  <2> QED
    BY <1>5, <2>1 DEF ReadReply, Network, workerVars
<1>6. CASE ReceiveName \/ ReceivePassword \/ ServeCommand
  <2>1. toServer \in Seq(Frame) /\ toServer # <<>> /\ toServer' = Tail(toServer)
    BY <1>6 DEF ReceiveName, ReceivePassword, ServeCommand, Network
  <2>2. toServer' \in Seq(Frame) /\ Head(toServer) \in Frame
    BY <2>1, HeadTailProperties
  <2>3. heard' \in {heard, Head(toServer).of}
    BY <1>6 DEF ReceiveName, ReceivePassword, ServeCommand, workerVars
  <2>4. heard' \in 0..MaxLines
    BY <1>0, <2>2, <2>3 DEF Network, Frame
  <2>5. toClient' \in Seq(V)
    <3>1. \/ toClient' = toClient
          \/ toClient' = Append(toClient, "AUTH_RESULT_OK")
          \/ toClient' = Append(toClient, "AUTH_FAIL")
      BY <1>6 DEF ReceiveName, ReceivePassword, ServeCommand
    <3>2. toClient \in Seq(V) /\ "AUTH_RESULT_OK" \in V /\ "AUTH_FAIL" \in V
      BY DEF Network
    <3> HIDE DEF V
    <3> QED
      BY <3>1, <3>2, AppendProperties
  <2>6. line' \in {"up", "closed", "reset"}
    BY <1>6 DEF ReceiveName, ReceivePassword, ServeCommand, Network
  <2> QED
    BY <2>2, <2>4, <2>5, <2>6 DEF Network
<1>7. CASE SeeClientLeave \/ ServerEnds
  BY <1>7 DEF SeeClientLeave, ServerEnds, Network
<1>8. \/ UNCHANGED <<heard, netVars>> \/ SendName \/ SendPassword \/ ReadCommand
      \/ ReadReply \/ ReceiveName \/ ReceivePassword \/ ServeCommand
      \/ SeeClientLeave \/ ServerEnds
  BY DEF Next, handle_authen_event, handle_authentication, EventLoop, WorkerStep, WorkerServes,
         vars, workerVars, netVars, TypeLine, CloseInput, FillStdio, GetName, GetPassword,
         LoginInputEnds, CryptFails, ReadReplyAtEof, CommandEnds, LoopEnds, TakeClient
<1>9. ReadCommand => heard' = heard
  BY DEF ReadCommand, workerVars
<1> QED
  BY <1>1, <1>2, <1>3, <1>4, <1>5, <1>6, <1>7, <1>8, <1>9

-----------------------------------------------------------------------------
(* Commands. *)

LEMMA WordsOf ==
    ASSUME NEW lines \in Seq(Seq(Token)),
           NEW r, r[1] \in Nat \ {0}, r[2] \in 0..Len(lines)
    PROVE  \A p \in Words(lines, r) : /\ p \in Nat \X Nat /\ p[1] \in r[1]..r[2]
                                      /\ p[2] \in 1..Len(lines[p[1]])
                                      /\ Word(lines, p) \in Token
<1> SUFFICES ASSUME NEW p \in Words(lines, r)
             PROVE  /\ p \in Nat \X Nat /\ p[1] \in r[1]..r[2]
                    /\ p[2] \in 1..Len(lines[p[1]])
                    /\ Word(lines, p) \in Token
  OBVIOUS
<1>1. PICK i \in r[1]..r[2] : p \in {i} \X (1..Len(lines[i]))
  BY DEF Words
<1>2. Len(lines) \in Nat /\ i \in 1..Len(lines)
  BY LenProperties
<1>3. lines[i] \in Seq(Token)
  BY <1>2, ElementOfSeq
<1>4. p[1] = i /\ p[2] \in 1..Len(lines[i]) /\ Len(lines[i]) \in Nat
  BY <1>1, <1>3, LenProperties
<1>5. p \in Nat \X Nat
  BY <1>1, <1>2, <1>4
<1>6. Word(lines, p) \in Token
  BY <1>3, <1>4, ElementOfSeq DEF Word
<1> QED
  BY <1>4, <1>5, <1>6

\* Of two places one comes first.
LEMMA FirstOfTwo ==
    ASSUME NEW p \in Nat \X Nat, NEW q \in Nat \X Nat
    PROVE  \E f, o \in {p, q} : /\ {p, q} = {f, o} /\ First({p, q}) = f
                                /\ o = f \/ Before(f, o)
<1>1. p = q \/ Before(p, q) \/ Before(q, p)
  BY DEF Before
<1>2. ~(Before(p, q) /\ Before(q, p)) /\ ~Before(p, p) /\ ~Before(q, q)
  BY DEF Before
<1>3. CASE p = q
  BY <1>3 DEF First
<1>4. CASE p # q /\ Before(p, q)
  <2>1. First({p, q}) = p
    BY <1>2, <1>4 DEF First
  <2> QED
    BY <1>4, <2>1
<1>5. CASE p # q /\ Before(q, p)
  <2>1. First({p, q}) = q
    BY <1>2, <1>5 DEF First
  <2> QED
    BY <1>5, <2>1
<1> QED
  BY <1>1, <1>3, <1>4, <1>5

\* A command is made of one or two words.
IsCommandOf(cmd, lines, words) ==
    \E p \in words :
        /\ Word(lines, p) = cmd.code
        /\ \/ words = {p} /\ cmd.arg = {}
           \/ \E q \in words :
                  words = {p, q} /\ Before(p, q) /\ cmd.arg = {Word(lines, q)}

LEMMA cmdCutIs ==
    ASSUME NEW lines, NEW words,
           \A p \in words : p \in Nat \X Nat /\ Word(lines, p) \in Token
    PROVE  /\ cmdCut(lines, words) \in [code : Code \union {"invalid"}, arg : SUBSET Token]
           /\ cmdCut(lines, words) # Invalid
                => IsCommandOf(cmdCut(lines, words), lines, words)
<1>1. CASE ~(OneOrTwo(words) /\ FirstWord(lines, words) \in Code)
  BY <1>1 DEF cmdCut, Invalid
<1>2. CASE OneOrTwo(words) /\ FirstWord(lines, words) \in Code
  <2>1. PICK p \in words, q \in words : words = {p, q}
    BY <1>2 DEF OneOrTwo
  <2>2. PICK f \in words, o \in words :
            words = {f, o} /\ First(words) = f /\ (o = f \/ Before(f, o))
    BY <2>1, FirstOfTwo
  <2>3. /\ Word(lines, f) \in Code
        /\ cmdCut(lines, words) = [code |-> Word(lines, f), arg |-> Others(lines, words)]
    BY <1>2, <2>2 DEF cmdCut, FirstWord
  <2>4. CASE o = f
    <3>1. Others(lines, words) = {}
      BY <2>2, <2>4 DEF Others
    <3> QED
      BY <2>2, <2>3, <2>4, <3>1 DEF IsCommandOf
  <2>5. CASE o # f
    <3>1. Others(lines, words) = {Word(lines, o)}
      BY <2>2, <2>5 DEF Others
    <3> QED
      BY <2>2, <2>3, <2>5, <3>1 DEF IsCommandOf
  <2> QED
    BY <2>4, <2>5
<1> QED
  BY <1>1, <1>2

\* What ReadCommand reads.
LEMMA ReadCommandReads ==
    ASSUME Inputs, Buffer, [Next]_vars, ReadCommand
    PROVE  /\ chunk'[1] \in 1..Len(typed) /\ chunk'[2] \in 1..Len(typed)
           /\ chunk' = <<chunk'[1], chunk'[2]>>
           /\ source = "terminal" => chunk'[1] = chunk'[2]
           /\ pcmdArg' \in [code : Code \union {"invalid"}, arg : SUBSET Token]
           /\ client' = "executing" => IsCommandOf(pcmdArg', typed', Words(typed', chunk'))
<1>1. PICK last \in next..Len(typed) :
          chunk' = <<next, last>> /\ (source = "terminal" => last = next)
  BY ReadCommandMoves
<1>2. Len(typed) \in Nat /\ next \in 1..Len(typed) /\ last \in 1..Len(typed)
  BY LastReadBounds, LenProperties DEF ReadCommand, Inputs
<1>3. chunk'[1] = next /\ chunk'[2] = last
  BY <1>1
<1>4. \A p \in Words(typed', chunk') : p \in Nat \X Nat /\ Word(typed', p) \in Token
  <2>1. typed' \in Seq(Seq(Token)) /\ Len(typed') \in Nat /\ Len(typed') >= Len(typed)
    BY TypedGrows
  <2>2. chunk'[1] \in Nat \ {0} /\ chunk'[2] \in 0..Len(typed')
    BY <1>2, <1>3, <2>1
  <2> QED
    BY <2>1, <2>2, WordsOf
<1>5. pcmdArg' = cmdCut(typed', Words(typed', chunk'))
  BY DEF ReadCommand
<1>6. client' = "executing" => pcmdArg' # Invalid
  BY DEF ReadCommand, cmdVeri
<1> QED
  BY <1>1, <1>2, <1>3, <1>4, <1>5, <1>6, cmdCutIs

LEMMA ParsedStep == Inputs /\ Buffer /\ Places /\ Parsed /\ [Next]_vars => Parsed'
<1> SUFFICES ASSUME Inputs, Buffer, Places, Parsed, [Next]_vars PROVE Parsed'
  OBVIOUS
<1>0. /\ Len(typed) \in Nat /\ Len(typed') \in Nat /\ Len(typed) <= MaxLines
      /\ MaxLines \in Nat /\ Len(typed') >= Len(typed)
  BY TypedGrows, ClientAssumption DEF Inputs
<1>1. CASE ReadCommand
  BY <1>0, <1>1, ReadCommandReads DEF Parsed
<1>2. CASE UNCHANGED loopVars /\ ~ReadCommand
  <2>1. client' = "executing" => client = "executing"
    BY <1>2, ClientMoves
  <2> QED
    BY <1>0, <1>2, <2>1 DEF Parsed, loopVars
<1> QED
  BY <1>1, <1>2, WhoWrites

LEMMA CommandStep ==
    Inputs /\ Buffer /\ Uncut /\ Places /\ Parsed /\ CommandIsTheLine /\ [Next]_vars
        => CommandIsTheLine'
<1> SUFFICES ASSUME Inputs, Buffer, Uncut, Places, Parsed, CommandIsTheLine, [Next]_vars,
                    client' = "executing"
             PROVE  /\ source' = "terminal" => chunk'[1] = chunk'[2]
                    /\ \A i \in chunk'[1]..chunk'[2] :
                           i \in cut' \/ i - 1 \in cut' \/ typed'[i] \in Line
                    /\ IsCommandOf(pcmdArg', typed', Words(typed', chunk'))
  BY DEF CommandIsTheLine, IsCommandOf
<1>0. \A i \in chunk'[1]..chunk'[2] : i \in cut' \/ i - 1 \in cut' \/ typed'[i] \in Line
  <2>1. /\ chunk'[1] \in 1..MaxLines + 1 /\ chunk'[2] \in 0..MaxLines
        /\ chunk'[2] <= Len(typed')
    BY ParsedStep DEF Parsed
  <2>2. MaxLines \in Nat /\ Len(typed') \in Nat
    BY TypedGrows, ClientAssumption
  <2>3. \A i \in chunk'[1]..chunk'[2] : i \in 1..Len(typed')
    BY <2>1, <2>2
  <2> QED
    BY <2>3, UncutStep DEF Uncut
<1>1. CASE ReadCommand
  BY <1>0, <1>1, ReadCommandReads, WhoWrites
<1>2. CASE UNCHANGED loopVars /\ ~ReadCommand
  <2>1. client = "executing" /\ chunk' = chunk /\ pcmdArg' = pcmdArg
    BY <1>2, ClientMoves DEF loopVars
  <2>2. IsCommandOf(pcmdArg, typed, Words(typed, chunk))
    BY <2>1 DEF CommandIsTheLine, IsCommandOf
  <2>3. chunk[1] \in Nat \ {0} /\ chunk[2] \in 0..Len(typed) /\ Len(typed) \in Nat
    BY <2>1, LenProperties DEF Parsed, Inputs
  <2>4. \A i \in chunk[1]..chunk[2] : typed'[i] = typed[i]
    BY <1>2, <2>3, TypedGrows
  <2>5. Words(typed', chunk) = Words(typed, chunk)
    BY <2>4 DEF Words
  <2>6. \A p \in Words(typed, chunk) : Word(typed', p) = Word(typed, p)
    <3> TAKE p \in Words(typed, chunk)
    <3>1. p[1] \in chunk[1]..chunk[2]
      BY <2>3, WordsOf DEF Inputs
    <3> QED
      BY <2>4, <3>1 DEF Word
  <2>7. IsCommandOf(pcmdArg', typed', Words(typed', chunk'))
    BY <2>1, <2>2, <2>5, <2>6 DEF IsCommandOf
  <2> QED
    BY <1>0, <2>1, <2>7, WhoWrites DEF CommandIsTheLine
<1> QED
  BY <1>1, <1>2, WhoWrites

-----------------------------------------------------------------------------
THEOREM InputInvariant == Spec => []InputInv
<1>1. InputInv /\ [Next]_vars => InputInv'
  BY InputsStep, BufferStep, UncutStep, OneLineAheadStep, AttemptsStep, PlacesStep, NetworkStep,
     ParsedStep, CommandStep DEF InputInv
<1> QED
  BY <1>1, InputInvInit, PTL DEF Spec

\* Every variable keeps its type; in particular the client never starts more
\* attempts to send credentials than lines were typed (client.c:93-117).
THEOREM ClientTypeCorrect == Spec => []TypeOK
  BY InputInvariant, InputInvImpliesTypeOK, PTL

\* With a terminal the loop misses no line but the rest of one that was too long
\* for the login (client.c:96-103, client.c:42).
THEOREM OnlyPipedOrLongLinesAreLost == Spec => []LostLinesArePipedOrLong
  BY InputInvariant, InputInvImpliesLostLines, PTL

\* The command that is executed is made of the words that were read, in their
\* order, and with a terminal of those of one line, as it was typed unless a read
\* has cut it (client.c:42-63, cmdOpt.c:11-62).
THEOREM CommandIsWhatWasTyped == Spec => []CommandIsTheLine
<1>1. InputInv => CommandIsTheLine
  BY DEF InputInv
<1> QED
  BY <1>1, InputInvariant, PTL

-----------------------------------------------------------------------------
(* A login whose input is at its end. *)

\* How many steps a login attempt is from its end.
Stage == [exited |-> 0, loop |-> 0, executing |-> 0, name |-> 1, password |-> 1,
          reply |-> 2, sending |-> 3, crypt |-> 4]

\* How many steps the login may still take when nothing more is typed: four for
\* every half line that fgets has not taken, one for every line not read, and
\* the rest of the attempt.
LoginLeft == 4 * (2 * Len(typed) - Taken) + (Len(typed) + 1 - next) + Stage[client]

LEMMA StageIs ==
    /\ \A place \in {"name", "password", "crypt", "sending", "reply", "loop", "executing",
                     "exited"} : Stage[place] \in 0..4
    /\ Stage["name"] = 1 /\ Stage["password"] = 1 /\ Stage["crypt"] = 4
    /\ Stage["sending"] = 3 /\ Stage["reply"] = 2
    /\ \A place \in {"loop", "executing", "exited"} : Stage[place] = 0
BY DEF Stage

LEMMA LoginLeftNat == InputInv => LoginLeft \in Nat
<1> SUFFICES ASSUME InputInv PROVE LoginLeft \in Nat
  OBVIOUS
<1>0. /\ Len(typed) \in Nat /\ next \in Nat /\ next <= Len(typed) + 1
      /\ stdio[1] \in Nat /\ stdio[2] \in Nat /\ stdio[1] <= next /\ stdio[2] <= next - 1
  BY LenProperties DEF InputInv, Inputs, Buffer
<1>1. Taken \in Int /\ Taken <= 2 * Len(typed)
  <2>1. CASE half
    BY <1>0, <2>1 DEF InputInv, Buffer, StdioEmpty, Taken
  <2>2. CASE ~half
    BY <1>0, <2>2 DEF Taken
  <2> QED
    BY <2>1, <2>2
<1>2. Stage[client] \in Nat
  BY StageIs DEF InputInv, Places
<1> QED
  BY <1>0, <1>1, <1>2 DEF LoginLeft

\* The steps of the login that do not touch standard input lead on.
LEMMA StageFalls ==
    ASSUME Places, handle_authen_event, ~FillStdio, ~GetName, ~GetPassword
    PROVE  /\ UNCHANGED readVars
           /\ Stage[client] \in 0..4 /\ Stage[client'] \in 0..4
           /\ Stage[client'] < Stage[client]
<1>1. CASE LoginInputEnds
  BY <1>1, StageIs DEF LoginInputEnds
<1>2. CASE CryptFails \/ SendName
  BY <1>2, StageIs DEF CryptFails, SendName
<1>3. CASE SendPassword
  BY <1>3, StageIs DEF SendPassword
<1>4. CASE ReadReply
  <2>1. client = "reply" /\ client' \in {"loop", "name"} /\ UNCHANGED readVars
    BY <1>4 DEF ReadReply
  <2> QED
    BY <2>1, StageIs
<1>5. CASE ReadReplyAtEof
  BY <1>5, StageIs DEF ReadReplyAtEof
<1> QED
  BY <1>1, <1>2, <1>3, <1>4, <1>5 DEF handle_authen_event, handle_authentication

\* What all other steps do to the client's place.
LEMMA StageElsewhere ==
    ASSUME Places, Next, ~handle_authen_event
    PROVE  Stage[client'] = Stage[client]
<1>1. CASE EventLoop
  <2>1. client \in {"loop", "executing"} /\ client' \in {"loop", "executing", "exited"}
    BY <1>1 DEF EventLoop, ReadCommand, CommandEnds, LoopEnds
  <2> QED
    BY <2>1, StageIs
<1>2. CASE WorkerStep
  BY <1>2 DEF WorkerStep, WorkerServes, TakeClient, ReceiveName, ReceivePassword, ServeCommand,
              SeeClientLeave
<1>3. CASE TypeLine \/ CloseInput \/ ServerEnds
  BY <1>3 DEF TypeLine, CloseInput, ServerEnds
<1> QED
  BY <1>1, <1>2, <1>3 DEF Next

LEMMA LoginLeftFalls ==
    ASSUME InputInv, Next, typed' = typed
    PROVE  LoginLeft' <= LoginLeft /\ (handle_authen_event => LoginLeft' < LoginLeft)
<1>0. Inputs /\ Buffer /\ Places
  BY DEF InputInv
<1>l. Len(typed) \in Nat /\ next \in Nat
  BY LenProperties DEF InputInv, Inputs, Buffer
<1>2. Taken \in Int /\ Taken' \in Int /\ Taken' >= Taken
  BY <1>0, TakenGrows
<1>3. next' \in Nat /\ next' >= next /\ (FillStdio => next' > next)
  BY <1>0, NextGrows
\* Rigid names for the numbers, before and after the step.
<1>4. PICK lines \in Nat, taken \in Int, takenNext \in Int, n \in Nat, nNext \in Nat,
           s \in 0..4, sNext \in 0..4 :
          /\ lines = Len(typed) /\ taken = Taken /\ takenNext = Taken'
          /\ n = next /\ nNext = next'
          /\ s = Stage[client] /\ sNext = Stage[client']
  <2>1. Stage[client] \in 0..4 /\ Stage[client'] \in 0..4
    BY <1>0, PlacesStep, StageIs DEF Places
  <2> QED
    BY <1>l, <1>2, <1>3, <2>1, Zenon
<1>5. /\ LoginLeft = 4 * (2 * lines - taken) + (lines + 1 - n) + s
      /\ LoginLeft' = 4 * (2 * lines - takenNext) + (lines + 1 - nNext) + sNext
  BY <1>4, Zenon DEF LoginLeft
<1>6. takenNext >= taken /\ nNext >= n
  BY <1>2, <1>3, <1>4, Zenon
<1>7. CASE GetName \/ GetPassword
  <2>1. Taken' > Taken
    BY <1>0, <1>7, TakenGrows
  <2>2. takenNext > taken
    BY <1>4, <2>1, Zenon
  <2>3. s = 1
    BY <1>4, <1>7, StageIs DEF GetName, GetPassword
  <2>4. LoginLeft' < LoginLeft /\ LoginLeft' <= LoginLeft
    BY <1>5, <1>6, <2>2, <2>3
  <2> QED
    BY <2>4
<1>8. CASE FillStdio
  <2>1. sNext = s
    BY <1>4, <1>8 DEF FillStdio
  <2>2. nNext > n
    BY <1>3, <1>4, <1>8, Zenon
  <2>3. LoginLeft' < LoginLeft /\ LoginLeft' <= LoginLeft
    BY <1>5, <1>6, <2>1, <2>2
  <2> QED
    BY <2>3
<1>9. CASE handle_authen_event /\ ~FillStdio /\ ~GetName /\ ~GetPassword
  <2>1. sNext < s
    BY <1>0, <1>4, <1>9, StageFalls, Zenon
  <2>2. LoginLeft' < LoginLeft /\ LoginLeft' <= LoginLeft
    BY <1>5, <1>6, <2>1
  <2> QED
    BY <2>2
<1>10. CASE ~handle_authen_event
  <2>1. sNext = s
    BY <1>0, <1>4, <1>10, StageElsewhere
  <2>2. LoginLeft' <= LoginLeft
    BY <1>5, <1>6, <2>1
  <2> QED
    BY <1>10, <2>2
<1> QED
  BY <1>7, <1>8, <1>9, <1>10

\* Once standard input is at its end, every step of the login counts down and
\* until the login is over nothing counts up: however often it is refused and
\* whatever the server does, the login takes a bounded number of steps
\* (client.c:93-122).  With the fairness of FairSpec this is why
\* LoginEndsWithInput holds.
THEOREM LoginRunsOut ==
    Spec => /\ [](LoginLeft \in Nat)
            /\ [][~inputOpen /\ ~InLoop =>
                      /\ LoginLeft' <= LoginLeft
                      /\ handle_authen_event => LoginLeft' < LoginLeft]_vars
<1> DEFINE Falls == ~inputOpen /\ ~InLoop =>
                        /\ LoginLeft' <= LoginLeft
                        /\ handle_authen_event => LoginLeft' < LoginLeft
<1>1. InputInv /\ [Next]_vars => [Falls]_vars
  <2>1. ~inputOpen /\ ~InLoop /\ Next => typed' = typed
    BY WhoWrites DEF TypeLine, ReadCommand, InLoop
  <2> QED
    BY <2>1, LoginLeftFalls
<1> QED
  BY <1>1, InputInvariant, LoginLeftNat, PTL DEF Spec
=============================================================================
