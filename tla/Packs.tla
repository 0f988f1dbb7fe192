-------------------------------- MODULE Packs --------------------------------
(***************************************************************************)
(* setupPacks of src/server/API/game_logic.go: N cards, numbered from 1,    *)
(* cut into packs of three; the places left over in the last pack keep the *)
(* zero of a new [3]int.  One step is one iteration of its second loop.    *)
(*                                                                         *)
(* Module Store knows a pack by its number; EveryCardOnce is what allows   *)
(* it: two packs share no card, and every card is in one of them.          *)
(***************************************************************************)
EXTENDS Integers

CONSTANT MaxCards  \* bound on N; NewStore calls setupPacks(900)

ASSUME PacksAssumption == MaxCards \in Nat

VARIABLES N, i, packs

packsVars == <<N, i, packs>>

Slot == 1 .. 3

\* Mutation of numPacks: one pack too many when 3 divides N.
numPacksExtra == N \div 3 + 1

\* Mutation of numPacks: the last, short pack is forgotten.
numPacksFloor == N \div 3

numPacks == (N + 3 - 1) \div 3

\* The slices of Go count from 0 and end before end: arr[start .. sliceEnd - 1]
\* holds the cards start + 1 .. sliceEnd.
start == i * 3

\* Mutation of sliceEnd: an inclusive bound taken for an exclusive one.
sliceEndShort == IF start + 2 < N THEN start + 2 ELSE N

sliceEnd == IF start + 3 < N THEN start + 3 ELSE N

\* copy(packs[i][:], sourceSlice) leaves the places past the source alone.
Copied(pack) ==
  [k \in Slot |-> IF start + k <= sliceEnd THEN start + k ELSE pack[k]]

PacksInit ==
  /\ N \in 0 .. MaxCards
  /\ i = 0
  /\ packs = [p \in 1 .. numPacks |-> [k \in Slot |-> 0]]

FillPack ==
  /\ i < numPacks
  /\ packs' = [packs EXCEPT ![i + 1] = Copied(@)]
  /\ i' = i + 1
  /\ UNCHANGED N

Done == i = numPacks

PacksSpec == PacksInit /\ [][FillPack]_packsVars

-----------------------------------------------------------------------------
PacksTypeOK ==
  /\ N \in 0 .. MaxCards
  /\ i \in 0 .. numPacks
  /\ packs \in [1 .. numPacks -> [Slot -> 0 .. MaxCards]]

\* arr[start:sliceEnd] never panics: its bounds are in order and inside arr.
SliceInBounds == i < numPacks => start < sliceEnd /\ sliceEnd <= N

\* The packs returned hold every card exactly once: a card that is missing can
\* never be drawn, one that is twice can be owned by two players.
EveryCardOnce ==
  Done =>
    \A c \in 1 .. N : \E p \in 1 .. numPacks, k \in Slot :
      /\ packs[p][k] = c
      /\ \A q \in 1 .. numPacks, l \in Slot : packs[q][l] = c => q = p /\ l = k

\* Only the last pack may be short, and never empty: OpenPack hands it out and
\* its zeros with it.
ShortPackLast ==
  Done => \A p \in 1 .. numPacks : /\ packs[p][1] # 0
                                   /\ p < numPacks => packs[p][3] # 0
=============================================================================
