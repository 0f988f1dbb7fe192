---------------------------- MODULE HelperProofs -----------------------------
(***************************************************************************)
(* The two algorithms the servers use and that use nothing else: a         *)
(* question to any number of members is answered as AnyOf promises, and    *)
(* setupPacks is right for every number of cards.                          *)
(***************************************************************************)
EXTENDS FanOut, Packs, FiniteSetTheorems, TLAPS

-----------------------------------------------------------------------------
(* The question.                                                            *)

Unfinished == {m \in Member : task[m] # "done"}

\* The WaitGroup counts the goroutines that have not called Done, so the
\* channel is closed after the last of them.
WaitGroupCounts ==
  /\ wg = Cardinality(Unfinished)
  /\ closed => \A m \in Member : task[m] = "done"

\* Where a goroutine is tells what it heard.
TasksKnow ==
  \A m \in Member : /\ task[m] = "asking" <=> said[m] = "pending"
                    /\ task[m] = "reporting" => said[m] = "yes"

\* A value in the channel is some member's yes; and until the caller took one,
\* a yes that was reported is in the channel.
ChannelKnows ==
  /\ buffered > 0 => \E m \in Member : said[m] = "yes"
  /\ result = "none" /\ buffered = 0 =>
       \A m \in Member : task[m] \in {"returning", "done"} => said[m] # "yes"

FanOutInv ==
  TypeOK /\ WaitGroupCounts /\ TasksKnow /\ ChannelKnows /\ NoSendOnClosed

LEMMA UnfinishedFinite == IsFiniteSet(Unfinished)
  BY FanOutAssumption, FS_Subset DEF Unfinished

LEMMA FanOutInit == Init => FanOutInv
<1> SUFFICES ASSUME Init PROVE FanOutInv
  OBVIOUS
<1>1. Unfinished = Member
  BY DEF Init, Unfinished
<1>2. Cardinality(Member) \in Nat
  BY FanOutAssumption, FS_CardinalityType
<1>3. WaitGroupCounts
  BY <1>1 DEF Init, WaitGroupCounts
<1>4. TypeOK
  <2>1. wg \in Int
    BY <1>2 DEF Init
  <2>2. buffered \in 0 .. Capacity
    BY FanOutAssumption DEF Init
  <2> QED BY <2>1, <2>2 DEF Init, TypeOK
<1> QED
  BY <1>3, <1>4 DEF Init, FanOutInv, TasksKnow, ChannelKnows, NoSendOnClosed

LEMMA FanOutStep == FanOutInv /\ [Next]_vars => FanOutInv'
<1> SUFFICES ASSUME FanOutInv, [Next]_vars PROVE FanOutInv'
  OBVIOUS
<1> USE FanOutAssumption DEF FanOutInv
<1>1. CASE UNCHANGED vars
  BY <1>1 DEF vars, TypeOK, WaitGroupCounts, TasksKnow, ChannelKnows, NoSendOnClosed,
              Unfinished
<1>2. ASSUME NEW m \in Member, Hear(m) PROVE FanOutInv'
  <2>1. TypeOK' /\ TasksKnow' /\ ChannelKnows' /\ NoSendOnClosed'
    BY <1>2 DEF Hear, TypeOK, TasksKnow, ChannelKnows, NoSendOnClosed
  <2>2. Unfinished' = Unfinished
    BY <1>2 DEF Hear, TypeOK, Unfinished
  <2>3. ~closed
    BY <1>2 DEF Hear, WaitGroupCounts
  <2> QED BY <1>2, <2>1, <2>2, <2>3 DEF Hear, WaitGroupCounts
<1>3. ASSUME NEW m \in Member, Report(m) PROVE FanOutInv'
  <2>1. ~closed
    BY <1>3 DEF Report, WaitGroupCounts
  <2>2. TypeOK' /\ TasksKnow' /\ ChannelKnows' /\ NoSendOnClosed'
    BY <1>3, <2>1 DEF Report, TypeOK, TasksKnow, ChannelKnows, NoSendOnClosed
  <2>3. Unfinished' = Unfinished
    BY <1>3 DEF Report, TypeOK, Unfinished
  <2> QED BY <1>3, <2>1, <2>2, <2>3 DEF Report, WaitGroupCounts
<1>4. ASSUME NEW m \in Member, Leave(m) PROVE FanOutInv'
  <2>1. ~closed
    BY <1>4 DEF Leave, WaitGroupCounts
  <2>2. TypeOK' /\ TasksKnow' /\ ChannelKnows' /\ NoSendOnClosed'
    BY <1>4 DEF Leave, TypeOK, TasksKnow, ChannelKnows, NoSendOnClosed
  <2>3. Unfinished' = Unfinished \ {m} /\ m \in Unfinished
    BY <1>4 DEF Leave, TypeOK, Unfinished
  <2>4. Cardinality(Unfinished') = Cardinality(Unfinished) - 1
    BY <2>3, UnfinishedFinite, FS_RemoveElement
  <2> QED BY <1>4, <2>1, <2>2, <2>4 DEF Leave, WaitGroupCounts
<1>5. CASE CloseChannel
  <2>1. Unfinished = {}
    BY <1>5, UnfinishedFinite, FS_EmptySet DEF CloseChannel, WaitGroupCounts
  <2>2. \A m \in Member : task[m] = "done"
    BY <2>1 DEF Unfinished
  <2>3. TypeOK' /\ TasksKnow' /\ ChannelKnows' /\ NoSendOnClosed'
    BY <1>5 DEF CloseChannel, TypeOK, TasksKnow, ChannelKnows, NoSendOnClosed
  <2> QED BY <1>5, <2>2, <2>3 DEF CloseChannel, WaitGroupCounts, Unfinished
<1>6. CASE Receive
  <2>1. TypeOK' /\ TasksKnow' /\ ChannelKnows' /\ NoSendOnClosed'
    BY <1>6 DEF Receive, TypeOK, TasksKnow, ChannelKnows, NoSendOnClosed
  <2> QED BY <1>6, <2>1 DEF Receive, WaitGroupCounts, Unfinished
<1> QED
  BY <1>1, <1>2, <1>3, <1>4, <1>5, <1>6 DEF Next, Goroutine

\* No goroutine ever writes to the closed channel, for any number of members.
THEOREM NoSendOnClosedCorrect == Spec => []NoSendOnClosed
<1>1. FanOutInv => NoSendOnClosed
  BY DEF FanOutInv
<1> QED
  BY <1>1, FanOutInit, FanOutStep, PTL DEF Spec

\* The goroutines, the WaitGroup and the channel implement AnyOf: the answer is
\* true only if a member said yes and false only if none of them did.
THEOREM AnyOfCorrect == Spec => ImplementsAnyOf
<1>1. Init => Question!Init
  BY DEF Init, Question!Init
<1>2. FanOutInv /\ [Next]_vars => [Question!Next]_(Question!vars)
  <2> SUFFICES ASSUME FanOutInv, [Next]_vars PROVE [Question!Next]_(Question!vars)
    OBVIOUS
  <2>1. CASE UNCHANGED vars
    BY <2>1 DEF vars, Question!vars
  <2>2. ASSUME NEW m \in Member, Hear(m) PROVE Question!Hear(m)
    BY <2>2, FanOutAssumption DEF Hear, Question!Hear, FanOutInv, TasksKnow
  <2>3. ASSUME NEW m \in Member, Report(m) \/ Leave(m) PROVE UNCHANGED Question!vars
    BY <2>3 DEF Report, Leave, Question!vars
  <2>4. CASE CloseChannel
    BY <2>4 DEF CloseChannel, Question!vars
  <2>5. ASSUME Receive PROVE Question!Conclude
    <3>1. CASE buffered > 0
      BY <2>5, <3>1 DEF Receive, Question!Conclude, FanOutInv, ChannelKnows
    <3>2. CASE buffered = 0 /\ closed
      <4>1. \A m \in Member : task[m] = "done" /\ said[m] \in {"no", "failed"}
        BY <2>5, <3>2
        DEF Receive, FanOutInv, TypeOK, WaitGroupCounts, TasksKnow, ChannelKnows
      <4> QED BY <2>5, <3>2, <4>1 DEF Receive, Question!Conclude
    <3> QED BY <2>5, <3>1, <3>2 DEF Receive
  <2> QED
    BY <2>1, <2>2, <2>3, <2>4, <2>5 DEF Next, Goroutine, Question!Next
<1> QED
  BY <1>1, <1>2, FanOutInit, FanOutStep, PTL DEF Spec, ImplementsAnyOf, Question!Spec

-----------------------------------------------------------------------------
(* The packs.                                                               *)

\* Which card is in which place once the first i packs are filled.
Filled ==
  \A p \in 1 .. numPacks, k \in Slot :
    packs[p][k] = IF p <= i /\ 3 * (p - 1) + k <= N THEN 3 * (p - 1) + k ELSE 0

LoopInv == PacksTypeOK /\ Filled

LEMMA LoopInit == PacksInit => LoopInv
<1> SUFFICES ASSUME PacksInit PROVE LoopInv
  OBVIOUS
<1>1. numPacks \in Nat
  BY PacksAssumption DEF PacksInit, numPacks
<1> QED
  BY <1>1, PacksAssumption DEF PacksInit, LoopInv, PacksTypeOK, Filled, Slot

LEMMA LoopStep == LoopInv /\ [FillPack]_packsVars => LoopInv'
<1> SUFFICES ASSUME LoopInv, [FillPack]_packsVars PROVE LoopInv'
  OBVIOUS
<1>1. CASE UNCHANGED packsVars
  BY <1>1 DEF LoopInv, PacksTypeOK, Filled, packsVars, numPacks
<1>2. CASE FillPack
  <2>1. /\ N \in Nat /\ N <= MaxCards /\ i \in Nat /\ numPacks \in Nat /\ i < numPacks
        /\ MaxCards \in Nat /\ N' = N /\ i' = i + 1 /\ numPacks' = numPacks
    BY <1>2, PacksAssumption DEF LoopInv, PacksTypeOK, FillPack, numPacks
  <2>2. 3 * i < N /\ 3 * numPacks >= N
    BY <2>1 DEF numPacks
  <2>3. packs \in [1 .. numPacks -> [Slot -> 0 .. MaxCards]] /\ i + 1 \in 1 .. numPacks
    BY <2>1 DEF LoopInv, PacksTypeOK
  <2>4. packs' = [packs EXCEPT ![i + 1] = Copied(packs[i + 1])]
    BY <1>2 DEF FillPack
  <2>5. \A k \in Slot : packs[i + 1][k] = 0
    BY <2>1, <2>3 DEF LoopInv, Filled, Slot
  <2>6. \A k \in Slot : /\ Copied(packs[i + 1])[k] \in 0 .. MaxCards
                        /\ Copied(packs[i + 1])[k] =
                             IF 3 * i + k <= N THEN 3 * i + k ELSE 0
    BY <2>1, <2>2, <2>5 DEF Copied, start, sliceEnd, Slot
  <2>7. Copied(packs[i + 1]) \in [Slot -> 0 .. MaxCards]
    BY <2>6 DEF Copied
  <2>8. PacksTypeOK'
    BY <2>1, <2>3, <2>4, <2>7 DEF LoopInv, PacksTypeOK
  <2>9. Filled'
    <3> SUFFICES ASSUME NEW p \in 1 .. numPacks, NEW k \in Slot
                 PROVE  packs'[p][k] = IF p <= i + 1 /\ 3 * (p - 1) + k <= N
                                       THEN 3 * (p - 1) + k ELSE 0
      BY <2>1 DEF Filled
    <3>1. CASE p = i + 1
      BY <2>1, <2>3, <2>4, <2>6, <3>1
    <3>2. CASE p # i + 1
      BY <2>1, <2>3, <2>4, <3>2 DEF LoopInv, Filled
    <3> QED BY <3>1, <3>2
  <2> QED BY <2>8, <2>9 DEF LoopInv
<1> QED BY <1>1, <1>2

\* No number of cards makes a slice bound of setupPacks panic.
THEOREM SliceInBoundsCorrect == PacksSpec => []SliceInBounds
<1>1. PacksInit => LoopInv
  BY LoopInit
<1>2. LoopInv /\ [FillPack]_packsVars => LoopInv'
  BY LoopStep
<1>3. LoopInv => SliceInBounds
  BY PacksAssumption DEF LoopInv, PacksTypeOK, SliceInBounds, start, sliceEnd, numPacks
<1> QED
  BY <1>1, <1>2, <1>3, PTL DEF PacksSpec

\* setupPacks puts every card in exactly one place, for every number of cards.
THEOREM EveryCardOnceCorrect == PacksSpec => []EveryCardOnce
<1>1. PacksInit => LoopInv
  BY LoopInit
<1>2. LoopInv /\ [FillPack]_packsVars => LoopInv'
  BY LoopStep
<1>3. LoopInv => EveryCardOnce
  <2> SUFFICES ASSUME LoopInv, Done, NEW c \in 1 .. N
               PROVE  \E p \in 1 .. numPacks, k \in Slot :
                        /\ packs[p][k] = c
                        /\ \A q \in 1 .. numPacks, l \in Slot :
                             packs[q][l] = c => q = p /\ l = k
    BY DEF EveryCardOnce
  <2>1. N \in Nat /\ numPacks \in Nat /\ i = numPacks /\ 3 * numPacks >= N
    BY PacksAssumption DEF LoopInv, PacksTypeOK, Done, numPacks
  <2>2. PICK p \in 1 .. numPacks, k \in Slot : c = 3 * (p - 1) + k
    <3>1. PICK p \in 1 .. numPacks : 3 * (p - 1) < c /\ c <= 3 * p
      <4>1. (c + 2) \div 3 \in 1 .. numPacks
        BY <2>1
      <4>2. 3 * ((c + 2) \div 3 - 1) < c /\ c <= 3 * ((c + 2) \div 3)
        BY <2>1
      <4> QED BY <4>1, <4>2
    <3>2. c - 3 * (p - 1) \in Slot
      BY <2>1, <3>1 DEF Slot
    <3>3. c = 3 * (p - 1) + (c - 3 * (p - 1))
      BY <2>1, <3>1
    <3> QED BY <3>2, <3>3
  <2>3. packs[p][k] = c
    BY <2>1, <2>2 DEF LoopInv, Filled
  <2>4. ASSUME NEW q \in 1 .. numPacks, NEW l \in Slot, packs[q][l] = c
        PROVE  q = p /\ l = k
    <3>1. packs[q][l] = IF 3 * (q - 1) + l <= N THEN 3 * (q - 1) + l ELSE 0
      BY <2>1 DEF LoopInv, Filled
    <3>2. 3 * (q - 1) + l = 3 * (p - 1) + k
      BY <2>1, <2>2, <2>4, <3>1 DEF Slot
    <3> QED BY <2>1, <3>2 DEF Slot
  <2> QED BY <2>3, <2>4
<1> QED
  BY <1>1, <1>2, <1>3, PTL DEF PacksSpec

\* Only the last pack of setupPacks may be short, and none is empty, for every
\* number of cards.
THEOREM ShortPackLastCorrect == PacksSpec => []ShortPackLast
<1>1. PacksInit => LoopInv
  BY LoopInit
<1>2. LoopInv /\ [FillPack]_packsVars => LoopInv'
  BY LoopStep
<1>3. LoopInv => ShortPackLast
  <2> SUFFICES ASSUME LoopInv, Done, NEW p \in 1 .. numPacks
               PROVE  /\ packs[p][1] # 0
                      /\ p < numPacks => packs[p][3] # 0
    BY DEF ShortPackLast
  <2>1. N \in Nat /\ numPacks \in Nat /\ i = numPacks /\ 3 * (numPacks - 1) < N
    BY PacksAssumption DEF LoopInv, PacksTypeOK, Done, numPacks
  <2>2. 3 * (p - 1) + 1 <= N /\ (p < numPacks => 3 * (p - 1) + 3 <= N)
    BY <2>1
  <2> QED BY <2>1, <2>2 DEF LoopInv, Filled, Slot
<1> QED
  BY <1>1, <1>2, <1>3, PTL DEF PacksSpec
=============================================================================
