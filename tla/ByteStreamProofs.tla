-------------------------- MODULE ByteStreamProofs --------------------------
(* Safety of the transfer loops, for all trains and every kernel buffer.    *)
EXTENDS ByteStream, SequenceTheorems, TLAPS

Due == Len(received)
Written == Start[sending - 1] + sent
Taken == Start[Due] + IF call = "none" THEN 0 ELSE Len(train)
AtEnd == wire = <<>> /\ line # "up"

\* sendn does not pass the end of its train.
SenderInv == sent <= IF sending <= Trains THEN Size(sending) ELSE 0

\* What has been received are the first trains, and what is under way continues
\* where the receiver is.
WireInv ==
    /\ Due <= Trains
    /\ \A k \in 1..Due : received[k] = Train(k)
    /\ ~over => /\ Taken + Len(wire) <= Written
                /\ line = "up" => Taken + Len(wire) = Written
                /\ \A i \in 1..Len(wire) : wire[i] = Taken + i

\* After a call that came back early, or a failed recv, nothing more comes.
EndInv ==
    /\ over \/ short => AtEnd
    /\ over /\ call = "data" => short
    /\ over /\ call = "header" => train = <<>> /\ cursize <= 0
    /\ line = "dead" => wire = <<>>
    /\ call # "none" /\ ~short /\ line = "dead" => cursize < total

\* The caller's buffer, and recvn's position in it.
CallInv ==
    /\ call = "header" => total = Header /\ ~short /\ Len(train) <= Header
    /\ call = "data" /\ ~short =>
        /\ Due < Trains
        /\ total = Size(Due + 1) - Header
        /\ Len(train) >= Header
    /\ call # "none" /\ ~short /\ line # "dead" => Len(train) = Offset + cursize

IInv ==
    /\ TypeOK /\ SenderInv /\ WireInv /\ EndInv /\ CallInv
    /\ BufferIsBeginningOfNext /\ NoStoreBeforeBuffer

-----------------------------------------------------------------------------
(* Facts about trains and about pieces of sequences. *)

LEMMA StartFacts ==
    /\ \A k \in 0..Trains : Start[k] \in Nat /\ Start[k] <= Start[Trains]
    /\ \A k \in 1..Trains :
        /\ k - 1 \in 0..Trains
        /\ Size(k) \in Nat /\ Size(k) >= Header
        /\ Start[k] = Start[k - 1] + Size(k)
<1>1. \A k \in 0..Trains : Start[k] \in Nat
    BY StreamAssumption
<1>2. \A k \in 0..Trains : Start[k] <= Start[Trains]
    <2>1. TAKE k \in 0..Trains
    <2>2. Trains \in 0..Trains
        BY StreamAssumption
    <2>3. k = Trains \/ Start[k] + Header <= Start[Trains]
        BY <2>2, StreamAssumption
    <2> QED BY <1>1, <2>2, <2>3, StreamAssumption
<1>3. ASSUME NEW k \in 1..Trains
      PROVE  /\ k - 1 \in 0..Trains
             /\ Size(k) \in Nat /\ Size(k) >= Header
             /\ Start[k] = Start[k - 1] + Size(k)
    <2>1. k - 1 \in 0..Trains /\ k \in 0..Trains /\ k - 1 < k
        BY StreamAssumption
    <2>2. Start[k - 1] + Header <= Start[k]
        BY <2>1, StreamAssumption
    <2> QED BY <1>1, <2>1, <2>2, StreamAssumption DEF Size
<1> QED BY <1>1, <1>2, <1>3

LEMMA TrainFacts ==
    ASSUME NEW k \in 1..Trains
    PROVE  /\ Train(k) \in Seq(Nat) /\ Len(Train(k)) = Size(k)
           /\ \A i \in 1..Size(k) : Train(k)[i] = Start[k - 1] + i
<1>1. Size(k) \in Nat /\ Start[k - 1] \in Nat
    BY StartFacts
<1>2. \A i \in 1..Size(k) : Start[k - 1] + i \in Nat
    BY <1>1
<1>3. Train(k) \in [1..Size(k) -> Nat]
    BY <1>2 DEF Train
<1>4. Train(k) \in Seq(Nat)
    BY <1>1, <1>3, IsASeq
<1>5. Len(Train(k)) = Size(k)
    BY <1>1, <1>3, <1>4, LenProperties
<1> QED BY <1>4, <1>5 DEF Train

\* A train's first unit tells how long it is.
LEMMA LengthOfHeader ==
    ASSUME NEW k \in 1..Trains, NEW header, Head(header) = Start[k - 1] + 1
    PROVE  Length(header) = Size(k) - Header
<1>1. ASSUME NEW j \in 1..Trains, Head(header) = Start[j - 1] + 1
      PROVE  j = k
    <2>1. j - 1 \in 0..Trains /\ k - 1 \in 0..Trains
        BY StartFacts
    <2>2. Start[j - 1] = Start[k - 1]
        BY <1>1, <2>1, StartFacts
    <2>3. ~(j - 1 < k - 1) /\ ~(k - 1 < j - 1)
        BY <2>1, <2>2, StreamAssumption, StartFacts
    <2> QED BY <2>1, <2>3
<1>2. k = CHOOSE j \in 1..Trains : Head(header) = Start[j - 1] + 1
    BY <1>1
<1> QED BY <1>2 DEF Length

LEMMA LengthType ==
    ASSUME NEW header
    PROVE  Length(header) \in Nat
<1>1. CASE \E k \in 1..Trains : Head(header) = Start[k - 1] + 1
    <2>1. PICK k \in 1..Trains : Head(header) = Start[k - 1] + 1
        BY <1>1
    <2>2. Length(header) = Size(k) - Header
        BY <2>1, LengthOfHeader
    <2> QED BY <2>2, StartFacts, StreamAssumption
<1>2. CASE ~ \E k \in 1..Trains : Head(header) = Start[k - 1] + 1
    BY <1>2 DEF Length
<1> QED BY <1>1, <1>2

LEMMA Pieces ==
    ASSUME NEW s \in Seq(Nat), NEW n \in 0..Len(s)
    PROVE  /\ SubSeq(s, 1, n) \in Seq(Nat) /\ Len(SubSeq(s, 1, n)) = n
           /\ \A i \in 1..n : SubSeq(s, 1, n)[i] = s[i]
           /\ SubSeq(s, n + 1, Len(s)) \in Seq(Nat)
           /\ Len(SubSeq(s, n + 1, Len(s))) = Len(s) - n
           /\ \A i \in 1..Len(s) - n : SubSeq(s, n + 1, Len(s))[i] = s[n + i]
<1>1. Len(s) \in Nat /\ \A i \in 1..Len(s) : s[i] \in Nat
    BY ElementOfSeq, LenProperties
<1>2. /\ SubSeq(s, 1, n) \in Seq(Nat) /\ Len(SubSeq(s, 1, n)) = n
      /\ \A i \in 1..n : SubSeq(s, 1, n)[i] = s[i]
    <2>1. \A i \in 1..n : s[i] \in Nat
        BY <1>1
    <2>2. /\ SubSeq(s, 1, n) \in Seq(Nat)
          /\ Len(SubSeq(s, 1, n)) = IF 1 <= n THEN n - 1 + 1 ELSE 0
          /\ \A i \in 1..n - 1 + 1 : SubSeq(s, 1, n)[i] = s[1 + i - 1]
        BY <1>1, <2>1, SubSeqProperties
    <2> QED BY <1>1, <2>2
<1>3. /\ SubSeq(s, n + 1, Len(s)) \in Seq(Nat)
      /\ Len(SubSeq(s, n + 1, Len(s))) = Len(s) - n
      /\ \A i \in 1..Len(s) - n : SubSeq(s, n + 1, Len(s))[i] = s[n + i]
    <2>1. \A i \in n + 1..Len(s) : s[i] \in Nat
        BY <1>1
    <2>2. /\ SubSeq(s, n + 1, Len(s)) \in Seq(Nat)
          /\ Len(SubSeq(s, n + 1, Len(s)))
                = IF n + 1 <= Len(s) THEN Len(s) - (n + 1) + 1 ELSE 0
          /\ \A i \in 1..Len(s) - (n + 1) + 1 :
                 SubSeq(s, n + 1, Len(s))[i] = s[n + 1 + i - 1]
        BY <1>1, <2>1, SubSeqProperties
    <2> QED BY <1>1, <2>2
<1> QED BY <1>2, <1>3

LEMMA UnitsFacts ==
    ASSUME TypeOK, SenderInv, sending <= Trains,
           NEW n \in 1..Size(sending) - sent
    PROVE  /\ UnitsFrom(sent, n) \in Seq(Nat) /\ Len(UnitsFrom(sent, n)) = n
           /\ \A i \in 1..n : UnitsFrom(sent, n)[i] = Start[sending - 1] + sent + i
           /\ Start[sending - 1] \in Nat
<1>1. Start[sending - 1] \in Nat /\ sent \in Nat /\ n \in Nat
    BY StartFacts, StreamAssumption DEF TypeOK
<1>2. UnitsFrom(sent, n) \in [1..n -> Nat]
    BY <1>1 DEF UnitsFrom
<1>3. UnitsFrom(sent, n) \in Seq(Nat)
    BY <1>1, <1>2, IsASeq
<1>4. Len(UnitsFrom(sent, n)) = n
    BY <1>1, <1>2, <1>3, LenProperties
<1> QED BY <1>1, <1>3, <1>4 DEF UnitsFrom

-----------------------------------------------------------------------------
(* What the invariant says when recv returns units, and when a call ends. *)

LEMMA WrittenFacts ==
    ASSUME TypeOK, SenderInv
    PROVE  Written \in Nat /\ Written <= Start[Trains]
<1>1. sending - 1 \in 0..Trains /\ sent \in Nat
    BY StreamAssumption DEF TypeOK
<1>2. Start[sending - 1] \in Nat /\ Start[sending - 1] <= Start[Trains]
    BY <1>1, StartFacts
<1>3. CASE sending <= Trains
    <2>1. sending \in 1..Trains
        BY <1>3, StreamAssumption DEF TypeOK
    <2>2. Start[sending] = Start[sending - 1] + Size(sending) /\ Size(sending) \in Nat
        BY <2>1, StartFacts
    <2>3. Start[sending] <= Start[Trains] /\ Start[sending] \in Nat
        BY <2>1, StartFacts, StreamAssumption
    <2> QED BY <1>1, <1>2, <1>3, <2>2, <2>3, StreamAssumption, StartFacts
            DEF Written, SenderInv
<1>4. CASE ~(sending <= Trains)
    <2>1. sent = 0
        BY <1>1, <1>4 DEF SenderInv
    <2> QED BY <1>2, <2>1 DEF Written
<1> QED BY <1>3, <1>4

\* While units arrive, the buffer ends where recv stores the next ones, and
\* a train is due.
LEMMA RecvFacts ==
    ASSUME IInv, call # "none", More, NEW n \in 1..Len(wire), n <= total - cursize
    PROVE  /\ ~over /\ ~short /\ line # "dead"
           /\ Due \in Nat /\ Due < Trains
           /\ Offset + cursize = Len(train) /\ cursize \in Nat
           /\ SubSeq(train, 1, Offset + cursize) = train
           /\ Len(train) + n <= Size(Due + 1)
           /\ Len(train) + n <= Offset + total
<1>1. TypeOK /\ SenderInv /\ WireInv /\ EndInv /\ CallInv
    BY DEF IInv
<1>2. wire \in Seq(Nat) /\ train \in Seq(Nat) /\ Due \in Nat /\ Len(wire) \in Nat
          /\ Len(train) \in Nat
    BY <1>1, LenProperties DEF TypeOK, Due
<1>3. wire # <<>>
    BY <1>2, EmptySeq
<1>4. ~over /\ ~short /\ line # "dead"
    BY <1>1, <1>3 DEF EndInv, AtEnd
<1>5. cursize \in Nat
    BY <1>1, <1>3 DEF IInv, NoStoreBeforeBuffer, TypeOK
<1>6. Offset + cursize = Len(train)
    BY <1>1, <1>4 DEF CallInv
<1>7. SubSeq(train, 1, Offset + cursize) = train
    <2>1. Len(train) \in 0..Len(train)
        BY <1>2
    <2>2. /\ SubSeq(train, 1, Len(train)) \in Seq(Nat)
          /\ Len(SubSeq(train, 1, Len(train))) = Len(train)
          /\ \A i \in 1..Len(train) : SubSeq(train, 1, Len(train))[i] = train[i]
        BY <1>2, <2>1, Pieces
    <2>3. SubSeq(train, 1, Len(train)) = train
        BY <1>2, <2>2, SeqEqual
    <2> QED BY <1>6, <2>3
<1>8. Due < Trains
    <2>1. Taken < Start[Trains]
        BY <1>1, <1>2, <1>4, WrittenFacts, StartFacts, StreamAssumption DEF WireInv, Taken
    <2>2. Start[Due] <= Taken /\ Start[Due] \in Nat /\ Taken \in Nat
        BY <1>1, <1>2, StartFacts, StreamAssumption DEF WireInv, Taken
    <2>3. Due # Trains
        BY <2>1, <2>2, StartFacts, StreamAssumption
    <2> QED BY <1>1, <1>2, <2>3, StreamAssumption DEF WireInv
<1>9. Due + 1 \in 1..Trains /\ Size(Due + 1) \in Nat /\ Size(Due + 1) >= Header
    BY <1>2, <1>8, StartFacts, StreamAssumption
<1>10. total \in Nat /\ n \in Nat /\ Header \in Nat
    BY <1>1, StreamAssumption DEF TypeOK
<1>11. Len(train) + n <= Offset + total
    BY <1>2, <1>5, <1>6, <1>10 DEF Offset
<1>12. Len(train) + n <= Size(Due + 1)
    <2>1. CASE call = "header"
        BY <1>1, <1>2, <1>9, <1>10, <1>11, <2>1 DEF CallInv, Offset
    <2>2. CASE call = "data"
        BY <1>1, <1>2, <1>4, <1>9, <1>10, <1>11, <2>2 DEF CallInv, Offset
    <2> QED BY <1>1, <2>1, <2>2 DEF TypeOK
<1> QED BY <1>2, <1>4, <1>5, <1>6, <1>7, <1>8, <1>11, <1>12

\* A call that has got all it asked for is one of a train that is not cut, or one
\* with a wrong length after a header that was.
LEMMA CompleteFacts ==
    ASSUME IInv, call # "none", ~More, ~short
    PROVE  /\ ~over /\ line # "dead"
           /\ cursize = total /\ Len(train) = Offset + total
           /\ train # <<>> /\ Len(train) >= Header /\ Header > 0
           /\ Due \in Nat /\ Due < Trains /\ Due + 1 \in 1..Trains
           /\ call = "header" => Len(train) = Header
           /\ call = "data" => Len(train) = Size(Due + 1)
<1>1. TypeOK /\ WireInv /\ EndInv /\ CallInv /\ BufferIsBeginningOfNext
    BY DEF IInv
<1>2. total \in Nat /\ cursize \in -1..total /\ train \in Seq(Nat) /\ Len(train) \in Nat
          /\ Due \in Nat /\ Header \in Nat \ {0}
    BY <1>1, LenProperties, StreamAssumption DEF TypeOK, Due
<1>3. cursize = total
    BY <1>2 DEF More
<1>4. line # "dead"
    BY <1>1, <1>2, <1>3 DEF EndInv
<1>5. call \in {"header", "data"}
    BY <1>1 DEF TypeOK
<1>6. ~over
    BY <1>1, <1>2, <1>3, <1>5 DEF EndInv, CallInv
<1>7. Len(train) = Offset + total
    BY <1>1, <1>3, <1>4 DEF CallInv
<1>8. Len(train) >= Header /\ (call = "header" => Len(train) = Header)
    BY <1>1, <1>2, <1>5, <1>7 DEF CallInv, Offset
<1>9. train # <<>>
    BY <1>2, <1>8, EmptySeq
<1>10. Due < Trains
    BY <1>1, <1>9, StreamAssumption DEF BufferIsBeginningOfNext, Due
<1>11. call = "data" => Len(train) = Size(Due + 1)
    <2> SUFFICES ASSUME call = "data" PROVE Len(train) = Size(Due + 1)
        OBVIOUS
    <2>1. total = Size(Due + 1) - Header
        BY <1>1 DEF CallInv
    <2>2. Due + 1 \in 1..Trains
        BY <1>2, <1>10, StreamAssumption
    <2> QED BY <1>2, <1>7, <2>1, <2>2, StartFacts DEF Offset
<1> QED BY <1>2, <1>3, <1>4, <1>6, <1>7, <1>8, <1>9, <1>10, <1>11, StreamAssumption

-----------------------------------------------------------------------------
(* The invariant. *)

LEMMA InitInv ==
    ASSUME Init
    PROVE  IInv
<1>1. 0 \in 0..Trains /\ Trains \in Nat /\ Start[0] = 0
    BY StreamAssumption
<1>2. 1 \in 1..Trains => Size(1) \in Nat
    BY StartFacts
<1>3. TypeOK
    <2>1. <<>> \in Seq(Nat) /\ <<>> \in Seq(Seq(Nat))
        BY EmptySeq
    <2>2. wire \in Seq(Nat) /\ train \in Seq(Nat) /\ received \in Seq(Seq(Nat))
        BY <2>1 DEF Init
    <2>3. sending \in 1..Trains + 1 /\ cursize \in -1..total
        BY <1>1 DEF Init
    <2> QED BY <2>2, <2>3 DEF Init, TypeOK
<1>4. SenderInv
    BY <1>1, <1>2 DEF Init, SenderInv
<1>5. WireInv
    BY <1>1 DEF Init, WireInv, Due, Taken, Written
<1>6. EndInv /\ CallInv /\ BufferIsBeginningOfNext /\ NoStoreBeforeBuffer
    BY DEF Init, EndInv, CallInv, BufferIsBeginningOfNext, NoStoreBeforeBuffer
<1> QED BY <1>3, <1>4, <1>5, <1>6 DEF IInv

\* sendn moves units from the train being sent to the wire.
LEMMA SendSomeInv ==
    ASSUME IInv, SendSome
    PROVE  IInv'
<1>1. TypeOK /\ SenderInv /\ WireInv /\ EndInv /\ CallInv
          /\ BufferIsBeginningOfNext /\ NoStoreBeforeBuffer
    BY DEF IInv
<1>2. /\ line = "up" /\ sending <= Trains
      /\ UNCHANGED <<reader, line, sending, call, total, cursize, train, short,
                     received, over>>
    BY DEF SendSome, resultVars
<1>3. PICK n \in 1..Size(sending) - sent :
          wire' = wire \o UnitsFrom(sent, n) /\ sent' = sent + n
    BY DEF SendSome
<1>4. /\ UnitsFrom(sent, n) \in Seq(Nat) /\ Len(UnitsFrom(sent, n)) = n
      /\ \A i \in 1..n : UnitsFrom(sent, n)[i] = Start[sending - 1] + sent + i
      /\ Start[sending - 1] \in Nat
    BY <1>1, <1>2, UnitsFacts
<1>5. wire \in Seq(Nat) /\ Len(wire) \in Nat /\ sending \in 1..Trains /\ sent \in Nat
          /\ n \in Nat
    BY <1>1, <1>2, LenProperties, StreamAssumption DEF TypeOK
<1>6. /\ wire' \in Seq(Nat) /\ Len(wire') = Len(wire) + n
      /\ \A i \in 1..Len(wire) + n :
             wire'[i] = IF i <= Len(wire) THEN wire[i]
                                          ELSE UnitsFrom(sent, n)[i - Len(wire)]
    <2> DEFINE units == UnitsFrom(sent, n)
    <2>1. units \in Seq(Nat) /\ Len(units) = n /\ wire' = wire \o units
        BY <1>3, <1>4
    <2> HIDE DEF units
    <2>2. /\ wire \o units \in Seq(Nat)
          /\ Len(wire \o units) = Len(wire) + Len(units)
          /\ \A i \in 1..Len(wire) + Len(units) :
                 (wire \o units)[i] = IF i <= Len(wire) THEN wire[i]
                                                       ELSE units[i - Len(wire)]
        BY <1>5, <2>1, ConcatProperties
    <2>3. /\ wire' \in Seq(Nat) /\ Len(wire') = Len(wire) + n
          /\ \A i \in 1..Len(wire) + n :
                 wire'[i] = IF i <= Len(wire) THEN wire[i] ELSE units[i - Len(wire)]
        BY <2>1, <2>2
    <2> QED BY <2>3 DEF units
<1>7. Size(sending) \in Nat
    BY <1>5, StartFacts
<1>8. TypeOK'
    BY <1>1, <1>2, <1>3, <1>5, <1>6 DEF TypeOK
<1>9. SenderInv'
    <2>1. sent + n <= Size(sending)
        BY <1>5, <1>7
    <2> QED BY <1>2, <1>3, <2>1 DEF SenderInv, Size
<1>10. ~over /\ ~short /\ line # "dead"
    BY <1>1, <1>2 DEF EndInv, AtEnd
<1>11. WireInv'
    <2>1. Due' = Due /\ Taken' = Taken /\ Written' = Written + n
        BY <1>2, <1>3, <1>4, <1>5 DEF Due, Taken, Written
    <2>2. Taken + Len(wire) = Written
        BY <1>1, <1>2, <1>10 DEF WireInv
    <2>3. Taken \in Nat /\ Written \in Nat
        <3>1. Due \in 0..Trains /\ (train \in Seq(Nat) => Len(train) \in Nat)
            BY <1>1, LenProperties, StreamAssumption DEF Due, WireInv, TypeOK
        <3> QED BY <1>1, <3>1, StartFacts, WrittenFacts DEF Taken, TypeOK
    <2>4. \A i \in 1..Len(wire') : wire'[i] = Taken' + i
        <3>1. TAKE i \in 1..Len(wire')
        <3>2. CASE i <= Len(wire)
            BY <1>1, <1>5, <1>6, <1>10, <2>1, <3>2 DEF WireInv
        <3>3. CASE ~(i <= Len(wire))
            <4>1. i - Len(wire) \in 1..n
                BY <1>5, <1>6, <3>3
            <4>2. wire'[i] = Start[sending - 1] + sent + (i - Len(wire))
                BY <1>4, <1>6, <3>3, <4>1
            <4>3. wire'[i] = Taken + i
                BY <1>4, <1>5, <1>6, <2>2, <2>3, <4>2 DEF Written
            <4> QED BY <2>1, <4>3
        <3> QED BY <3>2, <3>3
    <2>5. Taken' + Len(wire') = Written'
        <3>1. Len(wire') = Len(wire) + n
            BY <1>6
        <3> QED BY <1>5, <2>1, <2>2, <2>3, <3>1
    <2>6. Due' <= Trains /\ \A k \in 1..Due' : received'[k] = Train(k)
        BY <1>1, <1>2, <2>1 DEF WireInv
    <2>7. Taken' + Len(wire') <= Written'
        BY <1>5, <1>6, <2>1, <2>3, <2>5
    <2> QED BY <2>4, <2>5, <2>6, <2>7 DEF WireInv, Train, Size
<1>12. EndInv'
    BY <1>2, <1>10 DEF EndInv
<1>13. CallInv'
    BY <1>1, <1>2 DEF CallInv, Due, Offset, Size
<1>14. BufferIsBeginningOfNext' /\ NoStoreBeforeBuffer'
    BY <1>1, <1>2 DEF BufferIsBeginningOfNext, NoStoreBeforeBuffer, Size, Train
<1> QED BY <1>8, <1>9, <1>11, <1>12, <1>13, <1>14 DEF IInv

LEMMA SendnReturnsInv ==
    ASSUME IInv, SendnReturns
    PROVE  IInv'
<1>1. TypeOK /\ SenderInv /\ WireInv /\ EndInv /\ CallInv
          /\ BufferIsBeginningOfNext /\ NoStoreBeforeBuffer
    BY DEF IInv
<1>2. /\ line = "up" /\ sending <= Trains /\ sent = Size(sending)
      /\ sending' = sending + 1 /\ sent' = 0
      /\ UNCHANGED <<reader, line, wire, call, total, cursize, train, short,
                     received, over>>
    BY DEF SendnReturns, resultVars
<1>3. sending \in 1..Trains /\ sending' \in 1..Trains + 1
    BY <1>1, <1>2, StreamAssumption DEF TypeOK
<1>4. TypeOK'
    BY <1>1, <1>2, <1>3 DEF TypeOK
<1>5. SenderInv'
    <2>1. sending' <= Trains => sending' \in 1..Trains
        BY <1>3, StreamAssumption
    <2>2. sending' <= Trains => Size(sending') \in Nat
        BY <2>1, StartFacts
    <2> QED BY <1>2, <2>2 DEF SenderInv, Size
<1>6. Written' = Written
    <2>1. /\ Start[sending] = Start[sending - 1] + Size(sending)
          /\ Start[sending] \in Nat /\ sending' - 1 = sending
        BY <1>2, <1>3, StartFacts, StreamAssumption
    <2> QED BY <1>2, <2>1 DEF Written
<1>7. WireInv'
    BY <1>1, <1>2, <1>6 DEF WireInv, Due, Taken, Train, Size
<1>8. EndInv' /\ CallInv'
    BY <1>1, <1>2 DEF EndInv, AtEnd, CallInv, Due, Offset, Size
<1>9. BufferIsBeginningOfNext' /\ NoStoreBeforeBuffer'
    BY <1>1, <1>2 DEF BufferIsBeginningOfNext, NoStoreBeforeBuffer, Size, Train
<1> QED BY <1>4, <1>5, <1>7, <1>8, <1>9 DEF IInv

LEMMA CloseInv ==
    ASSUME IInv, Close
    PROVE  IInv'
<1>1. TypeOK /\ SenderInv /\ WireInv /\ EndInv /\ CallInv
          /\ BufferIsBeginningOfNext /\ NoStoreBeforeBuffer
    BY DEF IInv
<1>2. /\ line = "up" /\ line' = "closed"
      /\ UNCHANGED <<reader, wire, sending, sent, call, total, cursize, train,
                     short, received, over>>
    BY DEF Close, senderVars, resultVars
<1>3. TypeOK' /\ SenderInv'
    BY <1>1, <1>2 DEF TypeOK, SenderInv, Size
<1>4. WireInv'
    BY <1>1, <1>2 DEF WireInv, Due, Taken, Written, Train, Size
<1>5. EndInv' /\ CallInv'
    BY <1>1, <1>2 DEF EndInv, AtEnd, CallInv, Due, Offset, Size
<1>6. BufferIsBeginningOfNext' /\ NoStoreBeforeBuffer'
    BY <1>1, <1>2 DEF BufferIsBeginningOfNext, NoStoreBeforeBuffer, Size, Train
<1> QED BY <1>3, <1>4, <1>5, <1>6 DEF IInv

\* A reset loses the end of what is on the wire.
LEMMA ResetInv ==
    ASSUME IInv, Reset
    PROVE  IInv'
<1>1. TypeOK /\ SenderInv /\ WireInv /\ EndInv /\ CallInv
          /\ BufferIsBeginningOfNext /\ NoStoreBeforeBuffer
    BY DEF IInv
<1>2. /\ line \in {"up", "closed"} /\ line' = "reset"
      /\ UNCHANGED <<reader, sending, sent, call, total, cursize, train, short,
                     received, over>>
    BY DEF Reset, senderVars, resultVars
<1>3. PICK n \in 0..Len(wire) : wire' = SubSeq(wire, 1, n)
    BY DEF Reset
<1>4. wire \in Seq(Nat) /\ Len(wire) \in Nat
    BY <1>1, LenProperties DEF TypeOK
<1>5. /\ wire' \in Seq(Nat) /\ Len(wire') = n
      /\ \A i \in 1..n : wire'[i] = wire[i]
    BY <1>3, <1>4, Pieces
<1>6. wire = <<>> => wire' = <<>>
    <2> SUFFICES ASSUME wire = <<>> PROVE wire' = <<>>
        OBVIOUS
    <2>1. Len(wire') = 0
        BY <1>4, <1>5, EmptySeq
    <2> QED BY <1>5, <2>1, EmptySeq
<1>7. TypeOK' /\ SenderInv'
    BY <1>1, <1>2, <1>5 DEF TypeOK, SenderInv, Size
<1>8. WireInv'
    <2>1. Due' = Due /\ Taken' = Taken /\ Written' = Written
        BY <1>2 DEF Due, Taken, Written
    <2>2. Due' <= Trains /\ \A k \in 1..Due' : received'[k] = Train(k)
        BY <1>1, <1>2, <2>1 DEF WireInv
    <2>3. ASSUME ~over
          PROVE  /\ Taken' + Len(wire') <= Written'
                 /\ \A i \in 1..Len(wire') : wire'[i] = Taken' + i
        <3>1. Taken + Len(wire) <= Written /\ \A i \in 1..Len(wire) : wire[i] = Taken + i
            BY <1>1, <2>3 DEF WireInv
        <3>2. Due \in 0..Trains /\ (train \in Seq(Nat) => Len(train) \in Nat)
            BY <1>1, LenProperties, StreamAssumption DEF Due, WireInv, TypeOK
        <3>3. Taken \in Nat /\ Written \in Nat
            BY <1>1, <3>2, StartFacts, WrittenFacts DEF Taken, TypeOK
        <3> QED BY <1>4, <1>5, <2>1, <3>1, <3>3
    <2> QED BY <1>2, <2>2, <2>3 DEF WireInv, Train, Size
<1>9. EndInv'
    BY <1>1, <1>2, <1>6 DEF EndInv, AtEnd
<1>10. CallInv'
    BY <1>1, <1>2 DEF CallInv, Due, Offset, Size
<1>11. BufferIsBeginningOfNext' /\ NoStoreBeforeBuffer'
    BY <1>1, <1>2 DEF BufferIsBeginningOfNext, NoStoreBeforeBuffer, Size, Train
<1> QED BY <1>7, <1>8, <1>9, <1>10, <1>11 DEF IInv

LEMMA ReceiveTrainInv ==
    ASSUME IInv, ReceiveTrain
    PROVE  IInv'
<1>1. TypeOK /\ SenderInv /\ WireInv /\ EndInv /\ CallInv
          /\ BufferIsBeginningOfNext /\ NoStoreBeforeBuffer
    BY DEF IInv
<1>2. /\ call = "none" /\ call' = "header" /\ total' = Header /\ cursize' = 0
      /\ train' = <<>> /\ short' = FALSE
      /\ UNCHANGED <<reader, line, wire, sending, sent, received, over>>
    BY DEF ReceiveTrain, HeaderTotal, senderVars, resultVars
<1>3. Header \in Nat \ {0} /\ train' \in Seq(Nat) /\ Len(train') = 0
    BY <1>2, EmptySeq, StreamAssumption
<1>4. TypeOK' /\ SenderInv'
    <2>1. cursize' \in -1..total' /\ total' \in Nat
        BY <1>2, <1>3
    <2>2. SenderInv'
        BY <1>1, <1>2 DEF SenderInv, Size
    <2> QED BY <1>1, <1>2, <1>3, <2>1, <2>2 DEF TypeOK
<1>5. WireInv'
    <2>1. Due' = Due /\ Written' = Written /\ Due \in 0..Trains
        BY <1>1, <1>2, LenProperties, StreamAssumption DEF Due, Written, WireInv, TypeOK
    <2>2. Taken' = Taken
        BY <1>2, <1>3, <2>1, StartFacts DEF Taken
    <2> QED BY <1>1, <1>2, <2>1, <2>2 DEF WireInv, Train, Size
<1>6. EndInv' /\ CallInv'
    BY <1>1, <1>2, <1>3 DEF EndInv, AtEnd, CallInv, Due, Offset, Size
<1>7. BufferIsBeginningOfNext' /\ NoStoreBeforeBuffer'
    BY <1>2 DEF BufferIsBeginningOfNext, NoStoreBeforeBuffer
<1> QED BY <1>4, <1>5, <1>6, <1>7 DEF IInv

\* recv moves units from the wire to the end of the buffer.
LEMMA RecvSomeInv ==
    ASSUME IInv, RecvSome
    PROVE  IInv'
<1>1. TypeOK /\ SenderInv /\ WireInv /\ EndInv /\ CallInv
          /\ BufferIsBeginningOfNext /\ NoStoreBeforeBuffer
    BY DEF IInv
<1>2. /\ call # "none" /\ More
      /\ UNCHANGED <<reader, line, sending, sent, call, total, short, received, over>>
    BY DEF RecvSome, senderVars, resultVars
<1>3. PICK n \in 1..Len(wire) :
          /\ n <= total - cursize
          /\ train' = SubSeq(train, 1, Offset + cursize) \o SubSeq(wire, 1, n)
          /\ wire' = SubSeq(wire, n + 1, Len(wire))
          /\ cursize' = cursize + n
    BY DEF RecvSome
<1>4. /\ ~over /\ ~short /\ line # "dead"
      /\ Due \in Nat /\ Due < Trains
      /\ Offset + cursize = Len(train) /\ cursize \in Nat
      /\ SubSeq(train, 1, Offset + cursize) = train
      /\ Len(train) + n <= Size(Due + 1)
      /\ Len(train) + n <= Offset + total
    BY <1>2, <1>3, RecvFacts
<1>5. wire \in Seq(Nat) /\ Len(wire) \in Nat /\ train \in Seq(Nat) /\ Len(train) \in Nat
          /\ n \in Nat /\ total \in Nat /\ n \in 0..Len(wire)
    BY <1>1, LenProperties DEF TypeOK
<1>6. /\ SubSeq(wire, 1, n) \in Seq(Nat) /\ Len(SubSeq(wire, 1, n)) = n
      /\ \A i \in 1..n : SubSeq(wire, 1, n)[i] = wire[i]
    BY <1>5, Pieces
<1>7. /\ wire' \in Seq(Nat) /\ Len(wire') = Len(wire) - n
      /\ \A i \in 1..Len(wire) - n : wire'[i] = wire[n + i]
    BY <1>3, <1>5, Pieces
<1>8. /\ train' \in Seq(Nat) /\ Len(train') = Len(train) + n
      /\ \A i \in 1..Len(train) + n :
             train'[i] = IF i <= Len(train) THEN train[i] ELSE wire[i - Len(train)]
    <2> DEFINE chunk == SubSeq(wire, 1, n)
    <2>1. chunk \in Seq(Nat) /\ Len(chunk) = n /\ train' = train \o chunk
              /\ \A i \in 1..n : chunk[i] = wire[i]
        BY <1>3, <1>4, <1>6
    <2> HIDE DEF chunk
    <2>2. /\ train \o chunk \in Seq(Nat)
          /\ Len(train \o chunk) = Len(train) + Len(chunk)
          /\ \A i \in 1..Len(train) + Len(chunk) :
                 (train \o chunk)[i] = IF i <= Len(train) THEN train[i]
                                                        ELSE chunk[i - Len(train)]
        BY <1>5, <2>1, ConcatProperties
    <2>3. ASSUME NEW i \in 1..Len(train) + n, ~(i <= Len(train))
          PROVE  chunk[i - Len(train)] = wire[i - Len(train)]
        <3>1. i - Len(train) \in 1..n
            BY <1>5, <2>3
        <3> QED BY <2>1, <3>1
    <2> QED BY <2>1, <2>2, <2>3
<1>9. Taken = Start[Due] + Len(train) /\ Start[Due] \in Nat /\ Taken \in Nat
          /\ Written \in Nat
    <2>1. Due \in 0..Trains
        BY <1>4, StreamAssumption
    <2> QED BY <1>1, <1>2, <1>5, <2>1, StartFacts, WrittenFacts DEF Taken
<1>10. Due' = Due /\ Taken' = Taken + n /\ Written' = Written
    <2>1. Due' = Due /\ Written' = Written
        BY <1>2 DEF Due, Written
    <2>2. Taken' = Start[Due] + Len(train')
        BY <1>2, <2>1 DEF Taken
    <2>3. Len(train') = Len(train) + n
        BY <1>8
    <2> QED BY <1>5, <1>9, <2>1, <2>2, <2>3
<1>11. TypeOK'
    <2>1. cursize' \in -1..total
        BY <1>3, <1>4, <1>5
    <2> QED BY <1>1, <1>2, <1>7, <1>8, <2>1 DEF TypeOK
<1>12. SenderInv'
    BY <1>1, <1>2 DEF SenderInv, Size
<1>13. WireInv'
    <2>1. /\ Taken + Len(wire) <= Written
          /\ line = "up" => Taken + Len(wire) = Written
          /\ \A i \in 1..Len(wire) : wire[i] = Taken + i
        BY <1>1, <1>4 DEF WireInv
    <2>2. Len(wire') = Len(wire) - n
        BY <1>7
    <2>3. /\ Taken' + Len(wire') <= Written'
          /\ line' = "up" => Taken' + Len(wire') = Written'
        <3>1. Taken + n + (Len(wire) - n) = Taken + Len(wire)
            BY <1>5, <1>9
        <3>2. Taken' + Len(wire') = Taken + Len(wire)
            BY <1>10, <2>2, <3>1
        <3> QED BY <1>2, <1>10, <2>1, <3>2
    <2>4. \A i \in 1..Len(wire') : wire'[i] = Taken' + i
        <3>1. TAKE i \in 1..Len(wire')
        <3>2. n + i \in 1..Len(wire) /\ i \in 1..Len(wire) - n
            BY <1>5, <2>2
        <3>3. wire'[i] = Taken + (n + i)
            BY <1>7, <2>1, <3>2
        <3> QED BY <1>5, <1>9, <1>10, <3>2, <3>3
    <2>5. Due' <= Trains /\ \A k \in 1..Due' : received'[k] = Train(k)
        BY <1>1, <1>2, <1>10 DEF WireInv
    <2> QED BY <2>3, <2>4, <2>5 DEF WireInv, Train, Size
<1>14. EndInv'
    BY <1>2, <1>4 DEF EndInv
<1>15. CallInv'
    <2>1. Len(train') = Len(train) + n
        BY <1>8
    <2>2. call' # "none" => Len(train') = Offset' + cursize'
        BY <1>2, <1>3, <1>4, <1>5, <2>1, StreamAssumption DEF Offset
    <2>3. call' = "header" => total' = Header /\ ~short' /\ Len(train') <= Header
        BY <1>1, <1>2, <1>4, <1>5, <2>1, StreamAssumption DEF CallInv, Offset
    <2>4. call' = "data" => /\ Due' < Trains
                            /\ total' = Size(Due + 1) - Header
                            /\ Len(train') >= Header
        BY <1>1, <1>2, <1>4, <1>5, <1>10, <2>1, StreamAssumption DEF CallInv
    <2> QED BY <1>10, <2>2, <2>3, <2>4 DEF CallInv, Size
<1>16. BufferIsBeginningOfNext'
    <2>1. \A i \in 1..Len(train') : train'[i] = Start[Due] + i
        <3>1. TAKE i \in 1..Len(train')
        <3>2. Len(train') = Len(train) + n
            BY <1>8
        <3>3. CASE i <= Len(train)
            <4>1. i \in 1..Len(train)
                BY <1>5, <3>2, <3>3
            <4>2. train # <<>>
                BY <1>5, <4>1, EmptySeq
            <4>3. i \in 1..Size(Due + 1)
                <5>1. Size(Due + 1) \in Nat
                    BY <1>4, StartFacts, StreamAssumption
                <5> QED BY <1>4, <1>5, <4>1, <5>1
            <4>4. train[i] = Train(Due + 1)[i]
                BY <1>1, <1>2, <4>1, <4>2 DEF BufferIsBeginningOfNext, Due
            <4>5. train[i] = Start[Due] + i
                BY <1>4, <4>3, <4>4, StreamAssumption DEF Train
            <4> QED BY <1>8, <3>2, <3>3, <4>5
        <3>4. CASE ~(i <= Len(train))
            <4>1. i - Len(train) \in 1..n /\ i - Len(train) \in 1..Len(wire)
                BY <1>5, <3>2, <3>4
            <4>2. train'[i] = wire[i - Len(train)]
                BY <1>8, <3>2, <3>4
            <4>3. wire[i - Len(train)] = Taken + (i - Len(train))
                BY <1>1, <1>4, <4>1 DEF WireInv
            <4> QED BY <1>5, <1>9, <4>1, <4>2, <4>3
        <3> QED BY <3>3, <3>4
    <2>2. Len(train') <= Size(Due + 1) /\ Len(train') \in Nat
        BY <1>4, <1>5, <1>8
    <2>3. Due + 1 \in 1..Trains /\ Size(Due + 1) \in Nat /\ (Due + 1) - 1 = Due
        BY <1>4, StartFacts, StreamAssumption
    <2>4. \A i \in 1..Len(train') : train'[i] = Train(Due + 1)[i]
        BY <2>1, <2>2, <2>3 DEF Train
    <2> QED BY <1>2, <1>4, <1>10, <2>2, <2>4 DEF BufferIsBeginningOfNext, Due, Train, Size
<1>17. NoStoreBeforeBuffer'
    BY <1>3, <1>4, <1>5 DEF NoStoreBeforeBuffer
<1> QED BY <1>11, <1>12, <1>13, <1>14, <1>15, <1>16, <1>17 DEF IInv

\* A call that comes back early, and every later one for the same train.
LEMMA ReturnShortInv ==
    ASSUME IInv, call # "none", NEW early \in BOOLEAN, early \/ short, Return(early),
           AtEnd, line' \in {line, "dead"}
    PROVE  IInv'
<1>1. TypeOK /\ SenderInv /\ WireInv /\ EndInv /\ CallInv
          /\ BufferIsBeginningOfNext /\ NoStoreBeforeBuffer
    BY DEF IInv
<1>2. /\ short' = TRUE /\ cursize' = 0 /\ wire' = wire /\ wire = <<>>
      /\ line' # "up" /\ line' \in {"closed", "reset", "dead"}
      /\ UNCHANGED <<reader, sending, sent, train>>
    BY <1>1 DEF Return, AtEnd, senderVars, TypeOK
<1>3. AtEnd'
    BY <1>2 DEF AtEnd
<1>4. SenderInv'
    BY <1>1, <1>2 DEF SenderInv, Size
<1>5. CASE call = "header"
    <2>1. call' = "data" /\ received' = received /\ over' = over /\ early
        BY <1>1, <1>5 DEF Return, CallInv, resultVars
    <2>2. total' \in 0..Capacity
        BY <1>5, <2>1 DEF Return
    <2>3. TypeOK'
        <3>1. total' \in Nat /\ cursize' \in -1..total'
            BY <1>2, <2>2, StreamAssumption
        <3> QED BY <1>1, <1>2, <2>1, <3>1 DEF TypeOK
    <2>4. WireInv'
        <3>1. Due' = Due /\ Taken' = Taken /\ Written' = Written
            BY <1>2, <1>5, <2>1 DEF Due, Taken, Written
        <3> QED BY <1>1, <1>2, <2>1, <3>1 DEF WireInv, Train, Size
    <2>5. EndInv' /\ CallInv'
        BY <1>2, <1>3, <2>1 DEF EndInv, CallInv
    <2>6. BufferIsBeginningOfNext' /\ NoStoreBeforeBuffer'
        BY <1>1, <1>2, <1>5, <2>1 DEF BufferIsBeginningOfNext, NoStoreBeforeBuffer,
                                      Train, Size
    <2> QED BY <1>4, <2>3, <2>4, <2>5, <2>6 DEF IInv
<1>6. CASE call # "header"
    <2>1. call' = "none" /\ total' = 0 /\ received' = received /\ over' = TRUE
        BY <1>2, <1>6 DEF Return
    <2>2. TypeOK'
        <3>1. total' \in Nat /\ cursize' \in -1..total'
            BY <1>2, <2>1
        <3> QED BY <1>1, <1>2, <2>1, <3>1 DEF TypeOK
    <2>3. WireInv'
        BY <1>1, <2>1 DEF WireInv, Due, Train, Size
    <2>4. EndInv' /\ CallInv'
        BY <1>2, <1>3, <2>1 DEF EndInv, CallInv
    <2>5. BufferIsBeginningOfNext' /\ NoStoreBeforeBuffer'
        BY <1>2, <2>1 DEF BufferIsBeginningOfNext, NoStoreBeforeBuffer
    <2> QED BY <1>4, <2>2, <2>3, <2>4, <2>5 DEF IInv
<1> QED BY <1>5, <1>6

\* A header, or the data, that are complete.
LEMMA ReturnWholeInv ==
    ASSUME IInv, call # "none", ~More, ~short, Return(FALSE), UNCHANGED line
    PROVE  /\ IInv'
           /\ call = "data" => /\ ~over /\ ~over' /\ Due < Trains
                              /\ received' = Append(received, Train(Due + 1))
<1>1. TypeOK /\ SenderInv /\ WireInv /\ EndInv /\ CallInv
          /\ BufferIsBeginningOfNext /\ NoStoreBeforeBuffer
    BY DEF IInv
<1>2. /\ short' = FALSE /\ cursize' = 0
      /\ UNCHANGED <<reader, wire, line, sending, sent, train>>
    BY DEF Return, senderVars
<1>3. /\ ~over /\ line # "dead"
      /\ cursize = total /\ Len(train) = Offset + total
      /\ train # <<>> /\ Len(train) >= Header /\ Header > 0
      /\ Due \in Nat /\ Due < Trains /\ Due + 1 \in 1..Trains
      /\ call = "header" => Len(train) = Header
      /\ call = "data" => Len(train) = Size(Due + 1)
    BY CompleteFacts
<1>4. /\ train \in Seq(Nat) /\ Len(train) \in Nat /\ Start[Due] \in Nat
      /\ Size(Due + 1) \in Nat /\ Size(Due + 1) >= Header /\ Header \in Nat
      /\ (Due + 1) - 1 = Due /\ Start[Due + 1] = Start[Due] + Size(Due + 1)
    BY <1>1, <1>3, StartFacts, LenProperties, StreamAssumption DEF TypeOK
<1>5. SenderInv'
    BY <1>1, <1>2 DEF SenderInv, Size
<1>6. \A i \in 1..Len(train) : train[i] = Train(Due + 1)[i]
    BY <1>1, <1>3 DEF BufferIsBeginningOfNext, Due
<1>7. CASE call = "header"
    <2>1. call' = "data" /\ received' = received /\ over' = over /\ total' = Length(train)
        BY <1>7 DEF Return, resultVars
    <2>2. Head(train) = Start[Due] + 1
        <3>1. 1 \in 1..Len(train) /\ 1 \in 1..Size(Due + 1)
            BY <1>3, <1>4
        <3>2. train[1] = Start[Due] + 1
            BY <1>4, <1>6, <3>1 DEF Train
        <3> QED BY <1>3, <1>4, <3>2
    <2>3. total' = Size(Due + 1) - Header
        BY <1>3, <1>4, <2>1, <2>2, LengthOfHeader
    <2>4. TypeOK'
        <3>1. total' \in Nat /\ cursize' \in -1..total'
            BY <1>2, <1>4, <2>3
        <3> QED BY <1>1, <1>2, <2>1, <3>1 DEF TypeOK
    <2>5. WireInv'
        <3>1. Due' = Due /\ Taken' = Taken /\ Written' = Written
            BY <1>2, <1>7, <2>1 DEF Due, Taken, Written
        <3> QED BY <1>1, <1>2, <2>1, <3>1 DEF WireInv, Train, Size
    <2>6. EndInv'
        BY <1>2, <1>3, <2>1 DEF EndInv
    <2>7. CallInv'
        <3>1. Due' = Due /\ Offset' = Header
            BY <2>1 DEF Due, Offset
        <3>2. Len(train') = Offset' + cursize'
            BY <1>2, <1>3, <1>4, <1>7, <3>1
        <3> QED BY <1>2, <1>3, <2>1, <2>3, <3>1, <3>2 DEF CallInv, Size
    <2>8. BufferIsBeginningOfNext' /\ NoStoreBeforeBuffer'
        <3>1. BufferIsBeginningOfNext'
            BY <1>2, <1>3, <1>4, <1>6, <1>7, <2>1
               DEF BufferIsBeginningOfNext, Due, Train, Size
        <3>2. NoStoreBeforeBuffer'
            BY <1>2 DEF NoStoreBeforeBuffer
        <3> QED BY <3>1, <3>2
    <2> QED BY <1>5, <1>7, <2>4, <2>5, <2>6, <2>7, <2>8 DEF IInv
<1>8. CASE call # "header"
    <2>1. call = "data"
        BY <1>1, <1>8 DEF TypeOK
    <2>2. call' = "none" /\ total' = 0 /\ over' = FALSE
              /\ received' = Append(received, train)
        BY <1>2, <1>3, <1>8 DEF Return
    <2>3. train = Train(Due + 1)
        BY <1>3, <1>4, <1>6, <2>1, TrainFacts, SeqEqual
    <2>4. received \in Seq(Seq(Nat))
        BY <1>1 DEF TypeOK
    <2>5. /\ received' \in Seq(Seq(Nat)) /\ Due' = Due + 1
          /\ \A i \in 1..Due : received'[i] = received[i]
          /\ received'[Due + 1] = train
        <3>1. /\ Append(received, train) \in Seq(Seq(Nat))
              /\ Len(Append(received, train)) = Len(received) + 1
              /\ \A i \in 1..Len(received) : Append(received, train)[i] = received[i]
              /\ Append(received, train)[Len(received) + 1] = train
            BY <1>4, <2>4, AppendProperties
        <3> QED BY <2>2, <3>1 DEF Due
    <2>6. TypeOK'
        <3>1. total' \in Nat /\ cursize' \in -1..total'
            BY <1>2, <2>2
        <3> QED BY <1>1, <1>2, <2>2, <2>5, <3>1 DEF TypeOK
    <2>7. WireInv'
        <3>1. Taken' = Taken /\ Written' = Written
            <4>1. Taken' = Start[Due + 1] + 0
                BY <2>2, <2>5 DEF Taken
            <4>2. Taken = Start[Due] + Len(train)
                BY <2>1 DEF Taken
            <4> QED BY <1>2, <1>3, <1>4, <2>1, <4>1, <4>2 DEF Written
        <3>2. Due' <= Trains
            BY <1>3, <2>5, StreamAssumption
        <3>3. \A k \in 1..Due' : received'[k] = Train(k)
            <4>1. TAKE k \in 1..Due'
            <4>2. CASE k = Due + 1
                BY <2>3, <2>5, <4>2
            <4>3. CASE k # Due + 1
                <5>1. k \in 1..Due
                    BY <1>3, <2>5, <4>3
                <5> QED BY <1>1, <2>5, <5>1 DEF WireInv
            <4> QED BY <4>2, <4>3
        <3> QED BY <1>1, <1>2, <1>3, <3>1, <3>2, <3>3 DEF WireInv, Train, Size
    <2>8. EndInv' /\ CallInv'
        BY <1>1, <1>2, <2>2 DEF EndInv, CallInv
    <2>9. BufferIsBeginningOfNext' /\ NoStoreBeforeBuffer'
        BY <1>2, <2>2 DEF BufferIsBeginningOfNext, NoStoreBeforeBuffer
    <2> QED BY <1>3, <1>5, <2>2, <2>3, <2>6, <2>7, <2>8, <2>9 DEF IInv
<1> QED BY <1>7, <1>8

LEMMA RecvFailsInv ==
    ASSUME IInv, RecvFails, reader # "server"
    PROVE  IInv'
<1>1. TypeOK /\ SenderInv /\ WireInv /\ EndInv /\ CallInv
          /\ BufferIsBeginningOfNext /\ NoStoreBeforeBuffer
    BY DEF IInv
<1>2. /\ call # "none" /\ More /\ wire = <<>> /\ line = "reset" /\ line' = "dead"
      /\ cursize' = cursize - 1
      /\ UNCHANGED <<reader, wire, sending, sent, call, total, train, short,
                     received, over>>
    BY DEF RecvFails, senderVars, resultVars
<1>3. cursize \in -1..total /\ total \in Nat /\ cursize < total /\ cursize >= 0
    BY <1>1, <1>2 DEF TypeOK, More, NoStoreBeforeBuffer
<1>4. cursize' \in -1..total /\ cursize' < total /\ (cursize <= 0 => cursize' <= 0)
    BY <1>2, <1>3
<1>5. TypeOK' /\ SenderInv'
    BY <1>1, <1>2, <1>4 DEF TypeOK, SenderInv, Size
<1>6. WireInv'
    BY <1>1, <1>2 DEF WireInv, Due, Taken, Written, Train, Size
<1>7. EndInv'
    BY <1>1, <1>2, <1>4 DEF EndInv, AtEnd
<1>8. CallInv'
    BY <1>1, <1>2 DEF CallInv, Due, Size
<1>9. BufferIsBeginningOfNext' /\ NoStoreBeforeBuffer'
    BY <1>1, <1>2 DEF BufferIsBeginningOfNext, NoStoreBeforeBuffer, Size, Train
<1> QED BY <1>5, <1>6, <1>7, <1>8, <1>9 DEF IInv

\* Only the server's recvn is interrupted, and it calls recv again.
LEMMA InterruptIsNoStep ==
    ASSUME IInv, RecvInterrupted
    PROVE  UNCHANGED vars
<1>1. reader = "server"
    BY StreamAssumption DEF RecvInterrupted
<1> QED BY <1>1 DEF RecvInterrupted, AfterInterrupt

LEMMA NextInv ==
    ASSUME IInv, [Next]_vars
    PROVE  IInv'
<1>1. CASE RecvnComplete
    <2>1. call # "none" /\ ~More /\ Return(FALSE) /\ UNCHANGED line
        BY <1>1 DEF RecvnComplete
    <2>2. CASE short
        <3>1. AtEnd
            BY <2>2 DEF IInv, EndInv
        <3> QED BY <2>1, <2>2, <3>1, ReturnShortInv
    <2>3. CASE ~short
        BY <2>1, <2>3, ReturnWholeInv
    <2> QED BY <2>2, <2>3
<1>2. CASE RecvEof
    <2>1. call # "none" /\ Return(TRUE) /\ AtEnd /\ line' = line
        BY <1>2 DEF RecvEof, AtEnd
    <2> QED BY <2>1, ReturnShortInv
<1>3. CASE RecvFails
    <2>1. CASE reader = "server"
        <3>1. call # "none" /\ Return(TRUE) /\ AtEnd /\ line' = "dead"
            BY <1>3, <2>1 DEF RecvFails, AtEnd
        <3> QED BY <3>1, ReturnShortInv
    <2>2. CASE reader # "server"
        BY <1>3, <2>2, RecvFailsInv
    <2> QED BY <2>1, <2>2
<1>4. CASE UNCHANGED vars \/ RecvInterrupted
    <2>1. UNCHANGED <<reader, line, wire, sending, sent, call, total, cursize, train,
                      short, received, over>>
        BY <1>4, InterruptIsNoStep DEF vars, senderVars, resultVars
    <2> QED BY <2>1 DEF IInv, TypeOK, SenderInv, WireInv, EndInv, CallInv, AtEnd, Due,
                        Taken, Written, Offset, BufferIsBeginningOfNext,
                        NoStoreBeforeBuffer, Train, Size
<1> QED BY <1>1, <1>2, <1>3, <1>4, SendSomeInv, SendnReturnsInv, CloseInv, ResetInv,
           ReceiveTrainInv, RecvSomeInv DEF Next, Sender, Receiver

-----------------------------------------------------------------------------
(* The theorems. *)

\* Every variable keeps its type, for all trains and every kernel buffer.
THEOREM TypeCorrect == Spec => []TypeOK
<1>1. Init => IInv
    BY InitInv
<1>2. IInv /\ [Next]_vars => IInv'
    BY NextInv
<1>3. IInv => TypeOK
    BY DEF IInv
<1> QED BY <1>1, <1>2, <1>3, PTL DEF Spec

\* Callers of recvn never see a unit of another train in their buffer.
THEOREM BuffersHoldOneTrain == Spec => []BufferIsBeginningOfNext
<1>1. Init => IInv
    BY InitInv
<1>2. IInv /\ [Next]_vars => IInv'
    BY NextInv
<1>3. IInv => BufferIsBeginningOfNext
    BY DEF IInv
<1> QED BY <1>1, <1>2, <1>3, PTL DEF Spec

\* The position that a failed recv moves before the buffer is never stored to, as
\* long as the client handles no signal (StreamAssumption).
THEOREM PositionIsHarmless == Spec => []NoStoreBeforeBuffer
<1>1. Init => IInv
    BY InitInv
<1>2. IInv /\ [Next]_vars => IInv'
    BY NextInv
<1>3. IInv => NoStoreBeforeBuffer
    BY DEF IInv
<1> QED BY <1>1, <1>2, <1>3, PTL DEF Spec

\* Every step of the transfer loops is a step of the channel or leaves it alone.
LEMMA StepImplements ==
    ASSUME IInv, [Next]_vars
    PROVE  [Channel!Next]_(Channel!vars)
<1> DEFINE Trns == [k \in 1..Trains |-> Train(k)]
<1>1. Len(Trns) = Trains
    <2>1. \A k \in 1..Trains : Train(k) \in Seq(Nat)
        BY TrainFacts
    <2>2. Trns \in [1..Trains -> Seq(Nat)]
        BY <2>1
    <2>3. Trns \in Seq(Seq(Nat))
        BY <2>1, <2>2, IsASeq, StreamAssumption
    <2> QED BY <2>2, <2>3, LenProperties, StreamAssumption
<1>2. CASE UNCHANGED <<received, over>>
    BY <1>2 DEF Channel!vars
<1>3. CASE call = "data" /\ ~More /\ ~short /\ Return(FALSE) /\ UNCHANGED line
    <2>1. /\ ~over /\ ~over' /\ Due < Trains
          /\ received' = Append(received, Train(Due + 1))
        BY <1>3, ReturnWholeInv
    <2>2. over \in BOOLEAN /\ over' \in BOOLEAN /\ Due \in Nat
        BY NextInv, LenProperties DEF IInv, TypeOK, Due
    <2>3. Trns[Due + 1] = Train(Due + 1)
        BY <2>1, <2>2, StreamAssumption
    <2>4. Channel!Receive
        BY <1>1, <2>1, <2>2, <2>3 DEF Channel!Receive, Due
    <2> QED BY <2>4 DEF Channel!Next
<1>4. CASE received' = received /\ over' = TRUE
    <2>1. over \in BOOLEAN
        BY DEF IInv, TypeOK
    <2> QED BY <1>4, <2>1 DEF Channel!Next, Channel!CutShort, Channel!vars
<1>5. ASSUME NEW early \in BOOLEAN, Return(early), early \/ short
      PROVE  UNCHANGED <<received, over>> \/ (received' = received /\ over' = TRUE)
    BY <1>5 DEF Return, resultVars
<1>6. ASSUME call # "none", ~(call = "data"), Return(FALSE)
      PROVE  UNCHANGED <<received, over>>
    BY <1>6 DEF Return, resultVars, IInv, TypeOK
<1>7. CASE RecvnComplete
    <2>1. call # "none" /\ ~More /\ Return(FALSE) /\ UNCHANGED line
        BY <1>7 DEF RecvnComplete
    <2> QED BY <1>2, <1>3, <1>4, <1>5, <1>6, <2>1
<1>8. CASE RecvEof
    <2>1. Return(TRUE)
        BY <1>8 DEF RecvEof
    <2> QED BY <1>2, <1>4, <1>5, <2>1
<1>9. CASE RecvFails
    <2>1. Return(TRUE) \/ UNCHANGED <<received, over>>
        BY <1>9 DEF RecvFails, resultVars
    <2> QED BY <1>2, <1>4, <1>5, <2>1
<1>10. CASE SendSome \/ SendnReturns \/ Close \/ Reset \/ ReceiveTrain \/ RecvSome
            \/ RecvInterrupted \/ UNCHANGED vars
    <2>1. UNCHANGED <<received, over>>
        BY <1>10, InterruptIsNoStep DEF SendSome, SendnReturns, Close, Reset, ReceiveTrain, RecvSome,
                     resultVars, vars
    <2> QED BY <1>2, <2>1
<1> QED BY <1>7, <1>8, <1>9, <1>10 DEF Next, Sender, Receiver

\* sendn and recvn carry trains whole, in order and without loss until one is
\* cut short, however the kernel cuts the stream into pieces.
THEOREM StreamImplementsChannel == Spec => ImplementsChannel
<1>1. Init => IInv /\ Channel!Init
    BY InitInv DEF Init, Channel!Init
<1>2. IInv /\ [Next]_vars => IInv' /\ [Channel!Next]_(Channel!vars)
    BY NextInv, StepImplements
<1> QED BY <1>1, <1>2, PTL DEF Spec, ImplementsChannel, Channel!Spec
=============================================================================
