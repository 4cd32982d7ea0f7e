-------------------------- MODULE TaskQueueProofs ---------------------------
(***************************************************************************)
(* Proofs about TaskQueue, for every heap size and every descriptor set.   *)
(*                                                                         *)
(* TypeOK, NoLeak and ListShape are inductive together: that the pointers  *)
(* of the list are sound needs that its nodes are distinct (or linking a   *)
(* new node could rewrite an inner link), and that the nodes are distinct  *)
(* needs that the allocated ones are exactly those of the list.            *)
(***************************************************************************)
EXTENDS TaskQueue, SequenceTheorems, TLAPS

IInv == TypeOK /\ NoLeak /\ ListShape

LEMMA InitIInv == Init => IInv
BY NullAssumption DEF Init, taskQueueInit, IInv, TypeOK, NoLeak, ListShape, Ptr

\* Pushing keeps the list sound.
LEMMA PushIInv ==
    ASSUME IInv, NEW netFd \in Fd, taskQueuePush(netFd)
    PROVE  IInv'
<1>1. PICK newNode \in Node \ allocated, junk \in Ptr :
        /\ allocated' = allocated \union {newNode}
        /\ Link(newNode, [netFd |-> netFd, Pnext_ |-> junk])
        /\ ret' = 0
        /\ UNCHANGED <<clientFd, running>>
  BY DEF taskQueuePush
<1> DEFINE fresh == [netFd |-> netFd, Pnext_ |-> junk]
<1>2. fresh \in node_t
  BY DEF node_t
<1>3. /\ order \in Seq(Node)
      /\ order' = Append(order, newNode)
      /\ Link(newNode, fresh)
  BY <1>1 DEF IInv, TypeOK, Link
<1>4. /\ Len(order') = Len(order) + 1
      /\ \A i \in 1..Len(order) : order'[i] = order[i]
      /\ order'[Len(order) + 1] = newNode
      /\ order' \in Seq(Node)
      /\ Len(order) \in Nat
  BY <1>3
<1> HIDE DEF fresh
<1>5. heap' \in [Node -> node_t]
  <2>1. CASE IsEmpty
    BY <2>1, <1>2, <1>3 DEF IInv, TypeOK, Link
  <2>2. CASE ~IsEmpty
    <3> DEFINE linked == [heap EXCEPT ![newNode] = fresh]
    <3>1. linked \in [Node -> node_t]
      BY <1>2 DEF IInv, TypeOK
    <3>2. heap' = [linked EXCEPT ![ptail_] = [@ EXCEPT !.Pnext_ = newNode]]
      BY <2>2, <1>3 DEF Link
    <3> HIDE DEF linked
    <3>3. ASSUME NEW c \in node_t PROVE [c EXCEPT !.Pnext_ = newNode] \in node_t
      BY DEF node_t, Ptr
    <3>4. QED
      BY <3>1, <3>2, <3>3
  <2>3. QED
    BY <2>1, <2>2
<1>6. TypeOK'
  BY <1>1, <1>2, <1>3, <1>4, <1>5 DEF IInv, TypeOK, Link, Ptr
<1>7. NoLeak'
  BY <1>1, <1>4 DEF IInv, NoLeak
<1>8. ListShape'
  <2>1. CASE IsEmpty
    BY <2>1, <1>3, <1>4 DEF IInv, TypeOK, NoLeak, ListShape, IsEmpty, Link
  <2>2. CASE ~IsEmpty
    <3>1. ptail_ = order[Len(order)] /\ ptail_ \in Node /\ ptail_ # newNode
      BY <2>2, <1>1, <1>3, <1>4 DEF IInv, TypeOK, NoLeak, ListShape, IsEmpty
    <3>2. \A i \in 1..Len(order) - 1 : heap'[order[i]] = heap[order[i]]
      BY <2>2, <3>1, <1>3, <1>4 DEF IInv, TypeOK, NoLeak, ListShape, Link
    <3>3. heap'[ptail_].Pnext_ = newNode
      BY <2>2, <3>1, <1>3 DEF IInv, TypeOK, Link, node_t
    <3>4. QED
      BY <2>2, <3>1, <3>2, <3>3, <1>3, <1>4
      DEF IInv, TypeOK, ListShape, IsEmpty, Link
  <2>3. QED
    BY <2>1, <2>2
<1>9. QED
  BY <1>6, <1>7, <1>8 DEF IInv

\* What a pop does to a non-empty list: the head is its oldest node, and the
\* remaining nodes keep their order.
LEMMA PopFacts ==
    ASSUME IInv, taskQueuePop
    PROVE  /\ order \in Seq(Node)
           /\ Len(order) \in Nat \ {0}
           /\ phead_ = order[1]
           /\ phead_ \in Node
           /\ order' \in Seq(Node)
           /\ Len(order') = Len(order) - 1
           /\ \A i \in 1..Len(order') : order'[i] = order[i + 1]
           /\ \A n \in Node \ {phead_} : heap'[n] = heap[n]
<1>1. /\ order \in Seq(Node)
      /\ Len(order) \in Nat \ {0}
      /\ phead_ = order[1]
      /\ phead_ \in Node
  BY DEF IInv, TypeOK, ListShape, taskQueuePop, IsEmpty
<1>2. order' = Tail(order) /\ order # <<>>
  BY <1>1 DEF taskQueuePop
<1>3. /\ order' \in Seq(Node)
      /\ Len(order') = Len(order) - 1
      /\ \A i \in 1..Len(order') : order'[i] = order[i + 1]
  BY <1>1, <1>2, HeadTailProperties
<1>4. \A n \in Node \ {phead_} : heap'[n] = heap[n]
  BY <1>1 DEF taskQueuePop, IInv, TypeOK
<1>5. QED
  BY <1>1, <1>3, <1>4

\* Popping keeps the list sound, whatever free leaves in the node.
LEMMA PopIInv ==
    ASSUME IInv, taskQueuePop
    PROVE  IInv'
<1> USE PopFacts
<1>1. TypeOK'
  <2>1. heap' \in [Node -> node_t]
    BY DEF taskQueuePop, IInv, TypeOK
  <2>2. /\ heap[phead_].netFd \in Fd
        /\ heap[phead_].Pnext_ \in Ptr
    BY DEF IInv, TypeOK, node_t
  <2>3. QED
    BY <2>1, <2>2
    DEF taskQueuePop, IInv, TypeOK, ListShape, IsEmpty, Free, HeadFd, Ptr
<1>2. NoLeak'
  <2>1. \A i \in 1..Len(order') : order'[i] # phead_
    BY DEF IInv, NoLeak
  <2>2. allocated' = {order[i] : i \in 2..Len(order)}
    <3>1. allocated' = allocated \ {order[1]}
      BY DEF taskQueuePop, Free
    <3>2. \A i \in 2..Len(order) : i \in 1..Len(order) /\ order[i] # order[1]
      BY DEF IInv, NoLeak
    <3>3. \A i \in 1..Len(order) : i = 1 \/ i \in 2..Len(order)
      OBVIOUS
    <3>4. QED
      BY <3>1, <3>2, <3>3 DEF IInv, NoLeak
  <2>3. {order[i] : i \in 2..Len(order)} = {order'[i] : i \in 1..Len(order')}
    <3>1. \A i \in 2..Len(order) : i - 1 \in 1..Len(order') /\ order'[i - 1] = order[i]
      OBVIOUS
    <3>2. \A i \in 1..Len(order') : i + 1 \in 2..Len(order) /\ order'[i] = order[i + 1]
      OBVIOUS
    <3>3. QED
      BY <3>1, <3>2
  <2>4. \A i, j \in 1..Len(order') : order'[i] = order'[j] => i = j
    BY DEF IInv, NoLeak
  <2>5. QED
    BY <2>2, <2>3, <2>4 DEF NoLeak
<1>3. ListShape'
  <2>1. \A i \in 1..Len(order') : order'[i] \in Node \ {phead_}
    BY DEF IInv, NoLeak
  <2>2. \A i \in 1..Len(order') - 1 : heap'[order'[i]].Pnext_ = order'[i + 1]
    BY <2>1 DEF IInv, ListShape
  <2>3. queueSize_' = Len(order')
    BY DEF taskQueuePop, IInv, ListShape
  <2>4. Len(order') > 0 => phead_' = order'[1] /\ ptail_' = order'[Len(order')]
    BY DEF taskQueuePop, IInv, ListShape
  <2>5. QED
    BY <2>2, <2>3, <2>4 DEF ListShape
<1>4. QED
  BY <1>1, <1>2, <1>3 DEF IInv

\* IInv is inductive: the two list operations above, and the steps that
\* leave the list alone.
LEMMA NextIInv == IInv /\ [Next]_vars => IInv'
<1> SUFFICES ASSUME IInv, [Next]_vars
             PROVE  IInv'
  OBVIOUS
<1>1. CASE \E netFd \in Fd : taskQueuePush(netFd)
  BY <1>1, PushIInv
<1>2. CASE PushOutOfMemory
  <2>1. UNCHANGED <<queueSize_, phead_, ptail_, heap, allocated, order, clientFd, ret>>
    BY <1>2 DEF PushOutOfMemory, listVars
  <2>2. running' \in BOOLEAN
    BY <1>2 DEF PushOutOfMemory
  <2>3. QED
    BY <2>1, <2>2 DEF IInv, TypeOK, NoLeak, ListShape, node_t, Ptr
<1>3. CASE PopEmpty
  BY <1>3 DEF PopEmpty, listVars, IInv, TypeOK, NoLeak, ListShape
<1>4. CASE taskQueuePop
  BY <1>4, PopIInv
<1>5. CASE UNCHANGED vars
  BY <1>5 DEF vars, listVars, IInv, TypeOK, NoLeak, ListShape
<1>6. QED
  BY <1>1, <1>2, <1>3, <1>4, <1>5 DEF Next

LEMMA Inductive == Spec => []IInv
BY InitIInv, NextIInv, PTL DEF Spec

\* The fields of the queue always have their types.
THEOREM TypeCorrect == Spec => []TypeOK
BY Inductive, PTL DEF IInv

\* No sequence of pushes and pops leaks a node or frees one twice.
THEOREM NodesNeverLeak == Spec => []NoLeak
BY Inductive, PTL DEF IInv

\* The pointers the code follows are sound whenever the list is not empty,
\* although the list stores uninitialised links.
THEOREM PointersSound == Spec => []ListShape
BY Inductive, PTL DEF IInv

-----------------------------------------------------------------------------
\* The refinement: what each call does to the contents of the list.
LEMMA ContentsType ==
    ASSUME IInv
    PROVE  /\ Contents \in Seq(Fd)
           /\ Len(Contents) = Len(order)
           /\ \A i \in 1..Len(order) : Contents[i] = heap[order[i]].netFd
<1>1. Len(order) \in Nat
  BY DEF IInv, TypeOK
<1>2. \A i \in 1..Len(order) : heap[order[i]].netFd \in Fd
  BY DEF IInv, TypeOK, node_t
<1>3. Contents \in Seq(Fd)
  BY <1>1, <1>2, IsASeq DEF Contents
<1>4. QED
  BY <1>1, <1>3 DEF Contents

LEMMA PushAppends ==
    ASSUME IInv, NEW netFd \in Fd, taskQueuePush(netFd)
    PROVE  Contents' = Append(Contents, netFd)
<1>1. IInv'
  BY PushIInv
<1>2. PICK newNode \in Node \ allocated, junk \in Ptr :
        Link(newNode, [netFd |-> netFd, Pnext_ |-> junk])
  BY DEF taskQueuePush
<1>3. /\ order \in Seq(Node)
      /\ order' = Append(order, newNode)
      /\ Len(order) \in Nat
      /\ Len(order') = Len(order) + 1
      /\ \A i \in 1..Len(order) : order'[i] = order[i]
      /\ order'[Len(order) + 1] = newNode
  BY <1>2 DEF IInv, TypeOK, Link
<1>4. heap'[newNode].netFd = netFd
  <2>1. CASE IsEmpty
    BY <2>1, <1>2 DEF Link, IInv, TypeOK
  <2>2. CASE ~IsEmpty
    <3>1. ptail_ # newNode
      BY <2>2, <1>2 DEF IInv, TypeOK, NoLeak, ListShape, IsEmpty
    <3>2. QED
      BY <3>1, <2>2, <1>2 DEF Link, IInv, TypeOK
  <2>3. QED
    BY <2>1, <2>2
<1>5. \A i \in 1..Len(order) : heap'[order[i]].netFd = heap[order[i]].netFd
  <2>1. \A i \in 1..Len(order) : order[i] \in Node /\ order[i] # newNode
    BY <1>2, <1>3 DEF IInv, NoLeak
  <2>2. CASE IsEmpty
    BY <2>1, <2>2, <1>2 DEF Link, IInv, TypeOK
  <2>3. CASE ~IsEmpty
    <3>1. \A n \in Node \ {newNode} : heap'[n] = heap[n]
                     \/ heap'[n] = [heap[n] EXCEPT !.Pnext_ = newNode]
      BY <2>3, <1>2 DEF Link, IInv, TypeOK
    <3>2. \A n \in Node : [heap[n] EXCEPT !.Pnext_ = newNode].netFd = heap[n].netFd
      BY DEF IInv, TypeOK, node_t
    <3>3. QED
      BY <3>1, <3>2, <2>1
  <2>4. QED
    BY <2>2, <2>3
<1>6. /\ Contents' \in Seq(Fd)
      /\ Len(Contents') = Len(order')
      /\ \A i \in 1..Len(order') : Contents'[i] = heap'[order'[i]].netFd
  <2>1. Len(order') \in Nat
    BY <1>3
  <2>2. \A i \in 1..Len(order') : heap'[order'[i]].netFd \in Fd
    BY <1>3, <1>4, <1>5, ContentsType
  <2>3. Contents' \in Seq(Fd)
    BY <2>1, <2>2, IsASeq DEF Contents
  <2>4. QED
    BY <2>1, <2>3 DEF Contents
<1>7. /\ Append(Contents, netFd) \in Seq(Fd)
      /\ Len(Append(Contents, netFd)) = Len(order) + 1
      /\ \A i \in 1..Len(order) : Append(Contents, netFd)[i] = Contents[i]
      /\ Append(Contents, netFd)[Len(order) + 1] = netFd
  BY ContentsType, AppendProperties
<1>8. \A i \in 1..Len(Contents') : Contents'[i] = Append(Contents, netFd)[i]
  BY <1>3, <1>4, <1>5, <1>6, <1>7, ContentsType
<1>9. QED
  BY <1>3, <1>6, <1>7, <1>8, SeqEqual

LEMMA PopTakesHead ==
    ASSUME IInv, taskQueuePop
    PROVE  /\ Contents # <<>>
           /\ clientFd' = Head(Contents)
           /\ Contents' = Tail(Contents)
<1> USE PopFacts, ContentsType
<1>1. Contents # <<>>
  OBVIOUS
<1>2. clientFd' = Head(Contents)
  <2>1. clientFd' = heap[order[1]].netFd
    BY DEF taskQueuePop, HeadFd
  <2>2. Head(Contents) = Contents[1]
    BY <1>1
  <2>3. QED
    BY <2>1, <2>2
<1>3. \A i \in 1..Len(order') : heap'[order'[i]] = heap[order[i + 1]]
  <2>1. \A i \in 1..Len(order') : order[i + 1] \in Node /\ order[i + 1] # order[1]
    BY DEF IInv, NoLeak
  <2>2. QED
    BY <2>1
<1>4. /\ Contents' \in Seq(Fd)
      /\ Len(Contents') = Len(order')
      /\ \A i \in 1..Len(order') : Contents'[i] = Contents[i + 1]
  <2>1. \A i \in 1..Len(order') : heap'[order'[i]].netFd = Contents[i + 1]
    BY <1>3
  <2>2. \A i \in 1..Len(order') : heap'[order'[i]].netFd \in Fd
    BY <2>1
  <2>3. Len(order') \in Nat
    OBVIOUS
  <2>4. Contents' \in Seq(Fd)
    BY <2>2, <2>3, IsASeq DEF Contents
  <2>5. QED
    BY <2>1, <2>3, <2>4 DEF Contents
<1>5. /\ Tail(Contents) \in Seq(Fd)
      /\ Len(Tail(Contents)) = Len(order')
      /\ \A i \in 1..Len(order') : Tail(Contents)[i] = Contents[i + 1]
  BY <1>1, HeadTailProperties
<1>6. Contents' = Tail(Contents)
  BY <1>4, <1>5, SeqEqual
<1>7. QED
  BY <1>1, <1>2, <1>6

\* The linked list is a FIFO queue: every call of the list is the same call
\* of FifoQueue on its contents.
THEOREM ListImplementsFifo == Spec => ImplementsFifo
<1>1. Init => Fifo!Init
  BY DEF Init, Fifo!Init, Contents
<1>2. IInv /\ [Next]_vars => [Fifo!Next]_(Fifo!vars)
  <2> SUFFICES ASSUME IInv, [Next]_vars
               PROVE  Fifo!Next \/ UNCHANGED Fifo!vars
    OBVIOUS
  <2>1. ASSUME NEW netFd \in Fd, taskQueuePush(netFd)
        PROVE  Fifo!Push(netFd)
    BY <2>1, PushAppends DEF taskQueuePush, Fifo!Push
  <2>2. CASE PushOutOfMemory
    BY <2>2 DEF PushOutOfMemory, listVars, Fifo!vars, Contents
  <2>3. CASE PopEmpty
    <3>1. Contents = <<>>
      BY <2>3, ContentsType DEF PopEmpty, IsEmpty, IInv, ListShape
    <3>2. Contents' = Contents
      BY <2>3 DEF PopEmpty, listVars, Contents
    <3>3. QED
      BY <3>1, <3>2, <2>3 DEF PopEmpty, Fifo!PopEmpty, Fifo!Next
  <2>4. CASE taskQueuePop
    BY <2>4, PopTakesHead DEF taskQueuePop, Fifo!Take, Fifo!Next
  <2>5. CASE UNCHANGED vars
    BY <2>5 DEF vars, listVars, Fifo!vars, Contents
  <2>6. QED
    BY <2>1, <2>2, <2>3, <2>4, <2>5 DEF Next, Fifo!Next
<1>3. QED
  BY <1>1, <1>2, Inductive, PTL DEF Spec, ImplementsFifo, Fifo!Spec
=============================================================================
