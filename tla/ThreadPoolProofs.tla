-------------------------- MODULE ThreadPoolProofs --------------------------
(***************************************************************************)
(* Safety of the thread pool for every number of workers, clients and      *)
(* descriptors.                                                            *)
(***************************************************************************)
EXTENDS ThreadPool, FiniteSetTheorems, SequenceTheorems, TLAPS

\* Who holds the mutex, by where the threads are.
LockInv ==
    /\ \A w \in Worker : mutex_ = w <=> wpc[w] \in {"check", "wait", "leave"}
    /\ mutex_ = Main <=> mpc \in {"push", "signal", "broadcast"}

\* What main has in hand, and when the exit flag is set.
MainInv ==
    /\ mpc \in {"lock", "push"} => newFd \in Fd
    /\ exitFlag_ = 1 <=> mpc \in {"broadcast", "join"}

\* A worker that is about to sleep has seen an empty queue and no exit flag,
\* and both still hold: it has the mutex.
WaitInv ==
    \A w \in Worker : wpc[w] = "wait" => exitFlag_ = 0 /\ queue = <<>>

ControlInv ==
    /\ LockInv
    /\ MainInv
    /\ WaitInv
    /\ NeverPopsEmpty
    /\ NobodySleepsThroughExit

IInv == TypeOK /\ ControlInv

-----------------------------------------------------------------------------
LEMMA InitIInv == Init => IInv
BY PoolAssumption
   DEF Init, IInv, TypeOK, ControlInv, LockInv, MainInv, WaitInv, NeverPopsEmpty,
       NobodySleepsThroughExit, Sleeping, InWait

\* The end of the process leaves the state of a new one.
LEMMA EndIInv ==
    ASSUME IInv, NEW how \in {"exited", "aborted"}, EndProcess(how)
    PROVE  IInv'
BY PoolAssumption
   DEF EndProcess, IInv, TypeOK, ControlInv, LockInv, MainInv, WaitInv,
       NeverPopsEmpty, NobodySleepsThroughExit, Sleeping, InWait

LEMMA NextIInv ==
    ASSUME IInv, [Next]_vars
    PROVE  IInv'
<1>. USE PoolAssumption DEF IInv
<1>1. CASE UNCHANGED vars
  BY <1>1 DEF vars, poolVars, mainVars, workerVars, netVars, TypeOK, ControlInv, LockInv, MainInv, WaitInv,
                 NeverPopsEmpty, NobodySleepsThroughExit, Sleeping, InWait
<1>2. CASE MainListen
  <2>1. TypeOK'
    BY <1>2 DEF TypeOK, ControlInv, MainInv, NeverPopsEmpty, Sleeping,
                 MainListen, Lock, Unlock, Goto, poolVars, mainVars, workerVars, netVars
  <2>2. ControlInv'
    BY <1>2 DEF TypeOK, ControlInv, LockInv, MainInv, WaitInv,
                 NeverPopsEmpty, NobodySleepsThroughExit, Sleeping, InWait,
                 MainListen, Lock, Unlock, Goto, poolVars, mainVars, workerVars, netVars
  <2>. QED
    BY <2>1, <2>2
<1>3. CASE MainAccept
  <2>1. TypeOK'
    BY <1>3 DEF TypeOK, ControlInv, MainInv, NeverPopsEmpty, Sleeping,
                 MainAccept, Lock, Unlock, Goto, poolVars, mainVars, workerVars, netVars, FreeFds
  <2>2. ControlInv'
    BY <1>3 DEF TypeOK, ControlInv, LockInv, MainInv, WaitInv,
                 NeverPopsEmpty, NobodySleepsThroughExit, Sleeping, InWait,
                 MainAccept, Lock, Unlock, Goto, poolVars, mainVars, workerVars, netVars, FreeFds
  <2>. QED
    BY <2>1, <2>2
<1>4. CASE MainLock
  <2>1. TypeOK'
    BY <1>4 DEF TypeOK, ControlInv, MainInv, NeverPopsEmpty, Sleeping,
                 MainLock, Lock, Unlock, Goto, poolVars, mainVars, workerVars, netVars
  <2>2. ControlInv'
    BY <1>4 DEF TypeOK, ControlInv, LockInv, MainInv, WaitInv,
                 NeverPopsEmpty, NobodySleepsThroughExit, Sleeping, InWait,
                 MainLock, Lock, Unlock, Goto, poolVars, mainVars, workerVars, netVars
  <2>. QED
    BY <2>1, <2>2
<1>5. CASE MainPush
  <2>1. TypeOK'
    BY <1>5 DEF TypeOK, ControlInv, MainInv, NeverPopsEmpty, Sleeping,
                 MainPush, Lock, Unlock, Goto, poolVars, mainVars, workerVars, netVars
  <2>2. ControlInv'
    BY <1>5 DEF TypeOK, ControlInv, LockInv, MainInv, WaitInv,
                 NeverPopsEmpty, NobodySleepsThroughExit, Sleeping, InWait,
                 MainPush, Lock, Unlock, Goto, poolVars, mainVars, workerVars, netVars
  <2>. QED
    BY <2>1, <2>2
<1>6. CASE MainSignal
  <2>1. TypeOK'
    BY <1>6 DEF TypeOK, ControlInv, MainInv, NeverPopsEmpty, Sleeping,
                 MainSignal, Lock, Unlock, Goto, poolVars, mainVars, workerVars, netVars, WakeOne
  <2>2. ControlInv'
    BY <1>6 DEF TypeOK, ControlInv, LockInv, MainInv, WaitInv,
                 NeverPopsEmpty, NobodySleepsThroughExit, Sleeping, InWait,
                 MainSignal, Lock, Unlock, Goto, poolVars, mainVars, workerVars, netVars, WakeOne
  <2>. QED
    BY <2>1, <2>2
<1>7. CASE MainExitEvent
  <2>1. TypeOK'
    BY <1>7 DEF TypeOK, ControlInv, MainInv, NeverPopsEmpty, Sleeping,
                 MainExitEvent, Lock, Unlock, Goto, poolVars, mainVars, workerVars, netVars
  <2>2. ControlInv'
    BY <1>7 DEF TypeOK, ControlInv, LockInv, MainInv, WaitInv,
                 NeverPopsEmpty, NobodySleepsThroughExit, Sleeping, InWait,
                 MainExitEvent, Lock, Unlock, Goto, poolVars, mainVars, workerVars, netVars
  <2>. QED
    BY <2>1, <2>2
<1>8. CASE MainExitLock
  <2>1. TypeOK'
    BY <1>8 DEF TypeOK, ControlInv, MainInv, NeverPopsEmpty, Sleeping,
                 MainExitLock, Lock, Unlock, Goto, poolVars, mainVars, workerVars, netVars
  <2>2. ControlInv'
    BY <1>8 DEF TypeOK, ControlInv, LockInv, MainInv, WaitInv,
                 NeverPopsEmpty, NobodySleepsThroughExit, Sleeping, InWait,
                 MainExitLock, Lock, Unlock, Goto, poolVars, mainVars, workerVars, netVars
  <2>. QED
    BY <2>1, <2>2
<1>9. CASE MainBroadcast
  <2>1. TypeOK'
    BY <1>9 DEF TypeOK, ControlInv, MainInv, NeverPopsEmpty, Sleeping,
                 MainBroadcast, Lock, Unlock, Goto, poolVars, mainVars, workerVars, netVars, WakeAll
  <2>2. ControlInv'
    BY <1>9 DEF TypeOK, ControlInv, LockInv, MainInv, WaitInv,
                 NeverPopsEmpty, NobodySleepsThroughExit, Sleeping, InWait,
                 MainBroadcast, Lock, Unlock, Goto, poolVars, mainVars, workerVars, netVars, WakeAll
  <2>. QED
    BY <2>1, <2>2
<1>10. ASSUME NEW w \in Worker, WorkerLock(w)
      PROVE  IInv'
  <2>1. TypeOK'
    BY <1>10 DEF TypeOK, ControlInv, MainInv, NeverPopsEmpty, Sleeping,
                 WorkerLock, Lock, Unlock, Goto, poolVars, mainVars, workerVars, netVars
  <2>2. ControlInv'
    BY <1>10 DEF TypeOK, ControlInv, LockInv, MainInv, WaitInv,
                 NeverPopsEmpty, NobodySleepsThroughExit, Sleeping, InWait,
                 WorkerLock, Lock, Unlock, Goto, poolVars, mainVars, workerVars, netVars
  <2>. QED
    BY <2>1, <2>2
<1>11. ASSUME NEW w \in Worker, WorkerEntersWait(w)
      PROVE  IInv'
  <2>1. TypeOK'
    BY <1>11 DEF TypeOK, ControlInv, MainInv, NeverPopsEmpty, Sleeping,
                 WorkerEntersWait, Lock, Unlock, Goto, poolVars, mainVars, workerVars, netVars
  <2>2. ControlInv'
    BY <1>11 DEF TypeOK, ControlInv, LockInv, MainInv, WaitInv,
                 NeverPopsEmpty, NobodySleepsThroughExit, Sleeping, InWait,
                 WorkerEntersWait, Lock, Unlock, Goto, poolVars, mainVars, workerVars, netVars
  <2>. QED
    BY <2>1, <2>2
<1>12. ASSUME NEW w \in Worker, WorkerWait(w)
      PROVE  IInv'
  <2>1. TypeOK'
    BY <1>12 DEF TypeOK, ControlInv, MainInv, NeverPopsEmpty, Sleeping,
                 WorkerWait, Lock, Unlock, Goto, poolVars, mainVars, workerVars, netVars
  <2>2. ControlInv'
    BY <1>12 DEF TypeOK, ControlInv, LockInv, MainInv, WaitInv,
                 NeverPopsEmpty, NobodySleepsThroughExit, Sleeping, InWait,
                 WorkerWait, Lock, Unlock, Goto, poolVars, mainVars, workerVars, netVars
  <2>. QED
    BY <2>1, <2>2
<1>13. ASSUME NEW w \in Worker, SpuriousWakeup(w)
      PROVE  IInv'
  <2>1. TypeOK'
    BY <1>13 DEF TypeOK, ControlInv, MainInv, NeverPopsEmpty, Sleeping,
                 SpuriousWakeup, Lock, Unlock, Goto, poolVars, mainVars, workerVars, netVars
  <2>2. ControlInv'
    BY <1>13 DEF TypeOK, ControlInv, LockInv, MainInv, WaitInv,
                 NeverPopsEmpty, NobodySleepsThroughExit, Sleeping, InWait,
                 SpuriousWakeup, Lock, Unlock, Goto, poolVars, mainVars, workerVars, netVars
  <2>. QED
    BY <2>1, <2>2
<1>14. ASSUME NEW w \in Worker, WorkerRelock(w)
      PROVE  IInv'
  <2>1. TypeOK'
    BY <1>14 DEF TypeOK, ControlInv, MainInv, NeverPopsEmpty, Sleeping,
                 WorkerRelock, Lock, Unlock, Goto, poolVars, mainVars, workerVars, netVars, AfterWait
  <2>2. ControlInv'
    BY <1>14 DEF TypeOK, ControlInv, LockInv, MainInv, WaitInv,
                 NeverPopsEmpty, NobodySleepsThroughExit, Sleeping, InWait,
                 WorkerRelock, Lock, Unlock, Goto, poolVars, mainVars, workerVars, netVars, AfterWait
  <2>. QED
    BY <2>1, <2>2
<1>15. ASSUME NEW w \in Worker, WorkerLeaveLoop(w)
      PROVE  IInv'
  <2>1. TypeOK'
    BY <1>15 DEF TypeOK, ControlInv, MainInv, NeverPopsEmpty, Sleeping,
                 WorkerLeaveLoop, Lock, Unlock, Goto, poolVars, mainVars, workerVars, netVars
  <2>2. ControlInv'
    BY <1>15 DEF TypeOK, ControlInv, LockInv, MainInv, WaitInv,
                 NeverPopsEmpty, NobodySleepsThroughExit, Sleeping, InWait,
                 WorkerLeaveLoop, Lock, Unlock, Goto, poolVars, mainVars, workerVars, netVars
  <2>. QED
    BY <2>1, <2>2
<1>16. ASSUME NEW w \in Worker, WorkerExit(w)
      PROVE  IInv'
  <2>1. TypeOK'
    BY <1>16 DEF TypeOK, ControlInv, MainInv, NeverPopsEmpty, Sleeping,
                 WorkerExit, Lock, Unlock, Goto, poolVars, mainVars, workerVars, netVars
  <2>2. ControlInv'
    BY <1>16 DEF TypeOK, ControlInv, LockInv, MainInv, WaitInv,
                 NeverPopsEmpty, NobodySleepsThroughExit, Sleeping, InWait,
                 WorkerExit, Lock, Unlock, Goto, poolVars, mainVars, workerVars, netVars
  <2>. QED
    BY <2>1, <2>2
<1>17. ASSUME NEW w \in Worker, WorkerPop(w)
      PROVE  IInv'
  <2>1. TypeOK'
    BY <1>17 DEF TypeOK, ControlInv, MainInv, NeverPopsEmpty, Sleeping,
                 WorkerPop, Lock, Unlock, Goto, poolVars, mainVars, workerVars, netVars
  <2>2. ControlInv'
    BY <1>17 DEF TypeOK, ControlInv, LockInv, MainInv, WaitInv,
                 NeverPopsEmpty, NobodySleepsThroughExit, Sleeping, InWait,
                 WorkerPop, Lock, Unlock, Goto, poolVars, mainVars, workerVars, netVars
  <2>. QED
    BY <2>1, <2>2
<1>18. ASSUME NEW w \in Worker, Authenticated(w)
      PROVE  IInv'
  <2>1. TypeOK'
    BY <1>18 DEF TypeOK, ControlInv, MainInv, NeverPopsEmpty, Sleeping,
                 Authenticated, Lock, Unlock, Goto, poolVars, mainVars, workerVars, netVars
  <2>2. ControlInv'
    BY <1>18 DEF TypeOK, ControlInv, LockInv, MainInv, WaitInv,
                 NeverPopsEmpty, NobodySleepsThroughExit, Sleeping, InWait,
                 Authenticated, Lock, Unlock, Goto, poolVars, mainVars, workerVars, netVars
  <2>. QED
    BY <2>1, <2>2
<1>19. ASSUME NEW w \in Worker, w \in Busy, CloseAndReturn(w)
      PROVE  IInv'
  <2>1. TypeOK'
    BY <1>19 DEF TypeOK, ControlInv, MainInv, NeverPopsEmpty, Sleeping,
                 CloseAndReturn, Busy, Goto, poolVars, mainVars
  <2>2. ControlInv'
    BY <1>19 DEF TypeOK, ControlInv, LockInv, MainInv, WaitInv,
                 NeverPopsEmpty, NobodySleepsThroughExit, Sleeping, InWait,
                 CloseAndReturn, Busy, Goto, poolVars, mainVars
  <2>. QED
    BY <2>1, <2>2
<1>20. ASSUME NEW c \in Conn, Connect(c)
      PROVE  IInv'
  <2>1. TypeOK'
    BY <1>20 DEF TypeOK, ControlInv, MainInv, NeverPopsEmpty, Sleeping,
                 Connect, poolVars, mainVars, workerVars
  <2>2. ControlInv'
    BY <1>20 DEF TypeOK, ControlInv, LockInv, MainInv, WaitInv,
                 NeverPopsEmpty, NobodySleepsThroughExit, Sleeping, InWait,
                 Connect, poolVars, mainVars, workerVars
  <2>. QED
    BY <2>1, <2>2
<1>21. ASSUME NEW c \in Conn, Leave(c)
      PROVE  IInv'
  <2>1. TypeOK'
    BY <1>21 DEF TypeOK, ControlInv, MainInv, NeverPopsEmpty, Sleeping,
                 Leave, poolVars, mainVars, workerVars
  <2>2. ControlInv'
    BY <1>21 DEF TypeOK, ControlInv, LockInv, MainInv, WaitInv,
                 NeverPopsEmpty, NobodySleepsThroughExit, Sleeping, InWait,
                 Leave, poolVars, mainVars, workerVars
  <2>. QED
    BY <2>1, <2>2
<1>22. CASE ParentDies
  <2>1. TypeOK'
    BY <1>22 DEF TypeOK, ControlInv, MainInv, NeverPopsEmpty, Sleeping,
                 ParentDies, poolVars, mainVars, workerVars, netVars
  <2>2. ControlInv'
    BY <1>22 DEF TypeOK, ControlInv, LockInv, MainInv, WaitInv,
                 NeverPopsEmpty, NobodySleepsThroughExit, Sleeping, InWait,
                 ParentDies, poolVars, mainVars, workerVars, netVars
  <2>. QED
    BY <2>1, <2>2
<1>23. CASE BootFails \/ PushOutOfMemory \/ MainJoin \/ \E w \in Worker : HandlerExits(w)
  <2>1. PICK how \in {"exited", "aborted"} : EndProcess(how)
    BY <1>23 DEF BootFails, PushOutOfMemory, MainJoin, HandlerExits
  <2>. QED
    BY <2>1, EndIInv
<1>24. CASE MainThread
  BY <1>24, <1>2, <1>3, <1>4, <1>5, <1>6, <1>7, <1>8, <1>9, <1>23, <1>1
     DEF MainThread, AcceptFails
<1>25. ASSUME NEW w \in Worker, WorkerThread(w)
      PROVE  IInv'
  <2>1. CASE SessionEnds(w) \/ SessionFails(w)
    BY <2>1, <1>19 DEF SessionEnds, SessionFails
  <2>2. CASE HandlerExits(w)
    BY <2>2, <1>23
  <2>. QED
    BY <1>25, <2>1, <2>2, <1>10, <1>11, <1>12, <1>13, <1>14, <1>15, <1>16, <1>17, <1>18
       DEF WorkerThread
<1>. QED
  BY <1>1, <1>24, <1>25, <1>20, <1>21, <1>22 DEF Next

LEMMA Inductive == Spec => []IInv
BY InitIInv, NextIInv, PTL DEF Spec

-----------------------------------------------------------------------------
\* For any number of workers, clients and descriptors every variable keeps its
\* type; main only pushes descriptors that accept returned.
THEOREM TypeCorrect == Spec => []TypeOK
BY Inductive, PTL DEF IInv

\* No worker ever pops an empty queue.
THEOREM PopsOnlyClients == Spec => []NeverPopsEmpty
BY Inductive, PTL DEF IInv, ControlInv

\* No worker sleeps, or goes to sleep, while main joins the workers.
THEOREM ExitWakesAll == Spec => []NobodySleepsThroughExit
BY Inductive, PTL DEF IInv, ControlInv

-----------------------------------------------------------------------------
(* No wakeup is lost: given IInv, NoLostWakeup is inductive. *)

\* One worker more, or one fewer, on its way to the queue.
LEMMA ReadyCounts ==
    /\ Cardinality(Ready) \in Nat
    /\ \A w \in Worker \ Ready :
           Cardinality(Ready \union {w}) = Cardinality(Ready) + 1
    /\ \A w \in Ready : Cardinality(Ready \ {w}) = Cardinality(Ready) - 1
<1>1. IsFiniteSet(Ready)
  BY PoolAssumption, FS_Subset DEF Ready
<1>. QED
  BY <1>1, FS_CardinalityType, FS_AddElement, FS_RemoveElement DEF Ready

Pending == IF mpc = "signal" THEN 1 ELSE 0

\* Steps that leave the queue alone, take back no signal, put nobody to sleep
\* and turn no worker away from the queue.
LEMMA NobodyTurnsAway ==
    ASSUME IInv, NoLostWakeup,
           UNCHANGED <<exitFlag_, queue>>,
           mpc = "signal" => mpc' = "signal",
           Sleeping' \subseteq Sleeping,
           Ready' = Ready \/ \E w \in Worker \ Ready : Ready' = Ready \union {w}
    PROVE  NoLostWakeup'
<1>1. Len(queue) <= Cardinality(Ready) + Pending \/ exitFlag_ # 0 \/ Sleeping = {}
  BY DEF NoLostWakeup, Pending
<1>2. /\ Pending \in {0, 1} /\ Pending' \in {0, 1} /\ Pending <= Pending'
      /\ Len(queue) \in Nat
  BY LenProperties DEF Pending, IInv, TypeOK
<1>3. Cardinality(Ready') \in Nat /\ Cardinality(Ready') >= Cardinality(Ready)
  BY ReadyCounts
<1>. QED
  BY <1>1, <1>2, <1>3, ReadyCounts DEF NoLostWakeup, Pending

\* With an empty queue, a set exit flag or nobody asleep there is no one to wake.
LEMMA NobodyToWake ==
    ASSUME queue' = <<>> \/ exitFlag_' # 0 \/ Sleeping' = {},
           IsFiniteSet(Ready')
    PROVE  NoLostWakeup'
<1>1. Cardinality(Ready') \in Nat
  BY FS_CardinalityType
<1>. QED
  BY <1>1 DEF NoLostWakeup

LEMMA NextNoLostWakeup ==
    ASSUME IInv, NoLostWakeup, [Next]_vars
    PROVE  NoLostWakeup'
<1>. USE PoolAssumption
<1>0. /\ wpc \in [Worker -> {"lock", "check", "wait", "waiting", "relock",
                           "leave", "auth", "cmd", "exited"}]
      /\ queue \in Seq(Fd)
      /\ exitFlag_ \in {0, 1}
  BY DEF IInv, TypeOK
<1>a. IsFiniteSet(Ready')
  BY FS_Subset DEF Ready
<1>1. CASE UNCHANGED <<exitFlag_, queue, mpc, wpc>>
  BY <1>1, NobodyTurnsAway DEF Sleeping, Ready
<1>2. CASE \E how \in {"exited", "aborted"} : EndProcess(how)
  BY <1>2, <1>a, NobodyToWake DEF EndProcess
<1>3. CASE MainThread
  <2>1. CASE MainListen \/ MainAccept \/ AcceptFails \/ MainLock \/ MainExitEvent
    <3>1. UNCHANGED <<exitFlag_, queue, wpc>> /\ (mpc = "signal" => mpc' = "signal")
      BY <2>1 DEF MainListen, MainAccept, AcceptFails, MainLock, MainExitEvent,
                  vars, poolVars, mainVars, workerVars
    <3>. QED
      BY <3>1, NobodyTurnsAway DEF Sleeping, Ready
  <2>2. CASE MainPush
    <3>1. /\ mpc = "push" /\ mpc' = "signal"
          /\ UNCHANGED <<exitFlag_, wpc>>
          /\ queue' = Append(queue, newFd)
          /\ newFd \in Fd
      BY <2>2 DEF MainPush, workerVars, IInv, ControlInv, MainInv
    <3>2. Len(queue') = Len(queue) + 1 /\ Len(queue) \in Nat
      BY <1>0, <3>1, AppendProperties, LenProperties
    <3>. QED
      BY <3>1, <3>2, ReadyCounts DEF NoLostWakeup, Sleeping, Ready
  <2>3. CASE MainSignal /\ Sleeping = {}
    <3>1. Sleeping' = {}
      BY <2>3 DEF MainSignal, WakeOne, Sleeping
    <3>. QED
      BY <3>1, <1>a, NobodyToWake
  <2>4. CASE MainSignal /\ Sleeping # {}
    <3>1. PICK w \in Sleeping : Goto(w, "relock")
      BY <2>4 DEF MainSignal, WakeOne
    <3>2. /\ mpc = "signal" /\ mpc' = "epoll"
          /\ UNCHANGED <<exitFlag_, queue>>
      BY <2>4 DEF MainSignal
    <3>3. w \in Worker \ Ready /\ Ready' = Ready \union {w}
      BY <1>0, <3>1 DEF Ready, Sleeping, Goto
    <3>4. Cardinality(Ready') = Cardinality(Ready) + 1
      BY <3>3, ReadyCounts
    <3>5. exitFlag_ = 0 => Len(queue) <= Cardinality(Ready) + 1
      BY <2>4, <3>2 DEF NoLostWakeup
    <3>. QED
      BY <3>2, <3>4, <3>5, ReadyCounts DEF NoLostWakeup
  <2>5. CASE MainExitLock
    BY <2>5, <1>a, NobodyToWake DEF MainExitLock
  <2>6. CASE MainBroadcast
    BY <2>6, <1>a, NobodyToWake DEF MainBroadcast, IInv, ControlInv, MainInv
  <2>7. CASE BootFails \/ PushOutOfMemory \/ MainJoin
    BY <2>7, <1>2 DEF BootFails, PushOutOfMemory, MainJoin
  <2>. QED
    BY <1>3, <2>1, <2>2, <2>3, <2>4, <2>5, <2>6, <2>7 DEF MainThread
<1>4. ASSUME NEW w \in Worker, WorkerThread(w)
      PROVE  NoLostWakeup'
  <2>1. CASE WorkerLock(w) \/ SpuriousWakeup(w) \/ WorkerRelock(w)
             \/ WorkerLeaveLoop(w) \/ Authenticated(w)
             \/ SessionEnds(w) \/ SessionFails(w)
    <3>1. UNCHANGED <<exitFlag_, queue, mpc>>
      BY <2>1 DEF WorkerLock, SpuriousWakeup, WorkerRelock, WorkerLeaveLoop,
                  Authenticated, SessionEnds, SessionFails, CloseAndReturn,
                  poolVars, mainVars
    <3>2. Sleeping' \subseteq Sleeping
      BY <2>1, <1>0 DEF WorkerLock, SpuriousWakeup, WorkerRelock, WorkerLeaveLoop,
                  Authenticated, SessionEnds, SessionFails, CloseAndReturn,
                  Goto, AfterWait, Sleeping
    <3>3. CASE WorkerLock(w) \/ WorkerRelock(w) \/ WorkerLeaveLoop(w) \/ Authenticated(w)
      <4>1. Ready' = Ready
        BY <3>3, <1>0 DEF WorkerLock, WorkerRelock, WorkerLeaveLoop, Authenticated,
                    Goto, AfterWait, Ready
      <4>. QED
        BY <4>1, <3>1, <3>2, NobodyTurnsAway
    <3>4. CASE SpuriousWakeup(w) \/ SessionEnds(w) \/ SessionFails(w)
      <4>1. w \notin Ready /\ Ready' = Ready \union {w}
        BY <3>4, <1>0 DEF SpuriousWakeup, SessionEnds, SessionFails, CloseAndReturn,
                    Busy, Goto, Ready
      <4>. QED
        BY <4>1, <3>1, <3>2, NobodyTurnsAway
    <3>. QED
      BY <2>1, <3>3, <3>4
  <2>2. CASE WorkerEntersWait(w)
    BY <2>2, <1>a, NobodyToWake DEF WorkerEntersWait, poolVars
  <2>3. CASE WorkerWait(w)
    <3>1. queue' = <<>>
      BY <2>3 DEF WorkerWait, IInv, ControlInv, WaitInv
    <3>. QED
      BY <3>1, <1>a, NobodyToWake
  <2>4. CASE WorkerExit(w)
    BY <2>4, <1>a, NobodyToWake DEF WorkerExit
  <2>5. CASE WorkerPop(w)
    <3>1. /\ exitFlag_ = 0 /\ UNCHANGED <<exitFlag_, mpc>>
          /\ queue # <<>> /\ queue' = Tail(queue)
      BY <2>5 DEF WorkerPop, mainVars, IInv, ControlInv, NeverPopsEmpty
    <3>2. Len(queue') = Len(queue) - 1 /\ Len(queue) \in Nat
      BY <1>0, <3>1, HeadTailProperties, LenProperties
    <3>3. w \in Ready /\ Ready' = Ready \ {w} /\ Sleeping' = Sleeping
      BY <2>5, <1>0 DEF WorkerPop, Goto, Ready, Sleeping
    <3>4. Cardinality(Ready') = Cardinality(Ready) - 1
      BY <3>3, ReadyCounts
    <3>. QED
      BY <3>1, <3>2, <3>3, <3>4, ReadyCounts DEF NoLostWakeup
  <2>6. CASE HandlerExits(w)
    BY <2>6, <1>2 DEF HandlerExits
  <2>. QED
    BY <1>4, <2>1, <2>2, <2>3, <2>4, <2>5, <2>6 DEF WorkerThread
<1>5. CASE ParentDies \/ (\E c \in Conn : Connect(c) \/ Leave(c)) \/ UNCHANGED vars
  BY <1>5, <1>1 DEF ParentDies, Connect, Leave, vars, poolVars, mainVars, workerVars
<1>. QED
  BY <1>3, <1>4, <1>5 DEF Next

\* As long as a worker sleeps, the clients in the queue have as many workers on
\* their way to them; with IInv as the invariant that makes it inductive.
THEOREM WakeupsAreNotLost == Spec => []NoLostWakeup
<1>1. Init => NoLostWakeup
  BY DEF Init, NoLostWakeup, Sleeping
<1>2. IInv /\ NoLostWakeup /\ [Next]_vars => NoLostWakeup'
  BY NextNoLostWakeup
<1>. QED
  BY <1>1, <1>2, Inductive, PTL DEF Spec
=============================================================================
