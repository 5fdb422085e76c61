--------------------------- MODULE Ps1CardProofs ---------------------------
(***************************************************************************)
(* Proofs about Ps1Card, for any number of slots, any saves and any number *)
(* of damaged directory entries.  The inductive invariant says three       *)
(* things: how the builder has laid the saves down so far, how far a       *)
(* read-back of that layout has got, and that an image kept instead of     *)
(* saves has no save on it.  The refinement of CardContents adds what has  *)
(* been read of any card, how many blocks are built, and that an undamaged *)
(* card's saves are chains apart.                                          *)
(***************************************************************************)
EXTENDS Ps1Card, ChainProofs, SequenceTheorems

\* The block of a save that comes after <<save, block>> when saves are packed.
Succ(p) == IF p[2] < Len(held[p[1]].data) THEN <<p[1], p[2] + 1>> ELSE <<p[1] + 1, 1>>
Due(b) == IF b = 1 THEN <<1, 1>> ELSE Succ(placed[b - 1])

\* What the builder has put in block b.
Entry(i, k, b) ==
    LET blocks == Len(held[i].data)
    IN [state |-> IF k = 1 THEN "FIRST" ELSE IF k = blocks THEN "LAST" ELSE "MIDDLE",
        size |-> IF k = 1 THEN blocks ELSE 0,
        link |-> IF k = blocks THEN NO_NEXT ELSE b,
        name |-> IF k = 1 THEN held[i].name ELSE NoName]

\* The blocks placed are the blocks of the saves in order, none left out and
\* none twice, each holding its save's data and an entry that leads on to the
\* next; the rest of the card is free.
IsPlaced(b, p) ==
    /\ p[1] \in 1 .. Len(held)
    /\ p[2] \in 1 .. Len(held[p[1]].data)
    /\ image.dir[b] = Entry(p[1], p[2], b)
    /\ image.data[b] = held[p[1]].data[p[2]]

PackedSoFar ==
    /\ Len(placed) <= SLOTS
    /\ \A b \in 1 .. Len(placed) : placed[b] = Due(b) /\ IsPlaced(b, placed[b])
    /\ \A b \in Slots : b > Len(placed) => image.dir[b] = FreeEntry
    /\ <<saved + 1, index + 1>> = Due(Len(placed) + 1)

Building ==
    /\ PackedSoFar
    /\ saved <= Len(held)
    /\ Len(placed) = nextBlock + index - 1
    /\ index > 0 => /\ saved < Len(held)
                    /\ index < Blocks
                    /\ nextBlock + Blocks - 1 <= SLOTS

\* How many saves have been found when the scan stands at slot b.
Passed(b) == IF b > Len(placed) THEN Len(held)
             ELSE IF placed[b][2] = 1 THEN placed[b][1] - 1 ELSE placed[b][1]

\* follow_chain is going through the blocks of one save in order.
Following ==
    /\ Len(found) = placed[slot][1] - 1
    /\ slot + Len(chain) - 1 <= Len(placed)
    /\ \A j \in 1 .. Len(chain) :
         /\ chain[j] = slot + j - 1
         /\ placed[slot + j - 1] = <<placed[slot][1], j>>

\* The read-back has found the saves whose first block it has passed.
ReadingBack ==
    /\ PackedSoFar
    /\ saved = Len(held) /\ index = 0
    /\ card = image
    /\ \A i \in 1 .. Len(found) : found[i] = held[i]
    /\ pc = "scan" => Len(found) = Passed(slot)
    /\ pc = "chain" => Following

\* An image kept instead of saves has none.
NoSaveBefore(c, b) == \A s \in Slots : s < b => c.dir[s].state # "FIRST"
KeptIsEmpty ==
    kept # <<>> => /\ held = <<>>
                   /\ NoSaveBefore(kept[1], SLOTS + 1)
                   /\ checking => card = kept[1] /\ found = <<>> /\ pc = "scan"

Phases ==
    /\ pc = "chain" => chain # <<>> /\ slot <= SLOTS /\ chain[1] = slot /\ Injective(chain)
    /\ pc \in {"closed", "editing", "build"} => ~checking
    /\ pc = "closed" => kept = <<>> /\ held = <<>>
    /\ ~checking /\ pc \in {"scan", "chain"} => kept = <<>>
    /\ checking => pc \in {"scan", "chain", "refused"}
    /\ checking => image \in Cards
    /\ pc \in {"scan", "chain"} /\ ~checking /\ found = <<>> => NoSaveBefore(card, slot)

IInv ==
    /\ TypeOK
    /\ Phases
    /\ pc = "build" => kept = <<>> /\ Building
    /\ checking /\ kept = <<>> => pc \in {"scan", "chain"} /\ ReadingBack
    /\ KeptIsEmpty

-----------------------------------------------------------------------------

LEMMA BlankIsACard == Blank \in Cards /\ FreeEntry \in Entries
BY SlotsAssumption, FormattedAssumption DEF Blank, Cards, Entries, FreeEntry, States, LinkWords, NO_NEXT, Slots

LEMMA InitIInv == Init => IInv
<1> SUFFICES ASSUME Init PROVE IInv
  OBVIOUS
<1>1. disk \in Cards
  BY BlankIsACard DEF Init, Cards
<1>2. card \in Cards /\ image \in Cards /\ damage \in 0 .. MaxDamage /\ slot \in 1 .. SLOTS + 1
      /\ nextBlock \in 1 .. SLOTS + 1
  BY BlankIsACard, SlotsAssumption, BoundsAssumption DEF Init
<1>3. chain \in Seq(Slots) /\ found \in Seq(Saves) /\ held \in Seq(Saves)
      /\ placed \in Seq(Nat \X Nat)
  BY DEF Init
<1>4. TypeOK
  BY <1>1, <1>2, <1>3, Zenon DEF Init, TypeOK
<1>5. Phases /\ KeptIsEmpty
  BY DEF Init, Phases, KeptIsEmpty
<1> QED
  BY <1>4, <1>5 DEF IInv, Init

LEMMA ConsoleEntryType ==
  ASSUME NEW name \in Names \cup {NoName}, NEW n \in Nat, NEW blocks \in [1 .. n -> Slots],
         NEW i \in 1 .. n
  PROVE  ConsoleEntry(name, blocks, i) \in Entries
<1> /\ blocks \in Seq(Slots) /\ Len(blocks) = n
  OBVIOUS
<1> QED
  BY SlotsAssumption DEF ConsoleEntry, Entries, States, LinkWords, NO_NEXT, Slots

LEMMA ConsoleType == TypeOK /\ Console => disk' \in Cards /\ damage' \in 0 .. MaxDamage
<1> SUFFICES ASSUME TypeOK, Console PROVE disk' \in Cards /\ damage' \in 0 .. MaxDamage
  OBVIOUS
<1>0. disk \in Cards /\ disk.dir \in [Slots -> Entries] /\ disk.area \in Areas
      /\ disk.data \in [Slots -> Contents \cup {Zeros}] /\ damage \in 0 .. MaxDamage
  BY DEF TypeOK, Cards
<1>1. ASSUME NEW game \in Games, ConsoleSave(game)
      PROVE  disk' \in Cards /\ damage' \in 0 .. MaxDamage
  <2>1. game \in Saves
    BY GamesAssumption
  <2>2. PICK blocks \in BlockLists(Len(game.data)) :
          LET used == {blocks[i] : i \in DOMAIN blocks}
              at(b) == CHOOSE i \in DOMAIN blocks : blocks[i] = b
          IN disk' = [disk EXCEPT
                 !.dir = [b \in Slots |-> IF b \in used
                            THEN ConsoleEntry(game.name, blocks, at(b)) ELSE @[b]],
                 !.data = [b \in Slots |-> IF b \in used
                             THEN game.data[at(b)] ELSE @[b]]]
    BY <1>1 DEF ConsoleSave
  <2> DEFINE n == Len(game.data)
             used == {blocks[i] : i \in DOMAIN blocks}
             at(b) == CHOOSE i \in DOMAIN blocks : blocks[i] = b
             dir == [b \in Slots |-> IF b \in used
                       THEN ConsoleEntry(game.name, blocks, at(b)) ELSE disk.dir[b]]
             data == [b \in Slots |-> IF b \in used THEN game.data[at(b)] ELSE disk.data[b]]
  <2>3. n \in Nat /\ blocks \in [1 .. n -> Slots] /\ game.name \in Names \cup {NoName}
        /\ game.data \in [1 .. n -> Contents \cup {Zeros}]
    BY <2>1 DEF Saves, BlockLists
  <2>4. \A b \in used : at(b) \in 1 .. n
    BY <2>3
  <2>5. dir \in [Slots -> Entries]
    BY <2>3, <2>4, <1>0, ConsoleEntryType
  <2>6. data \in [Slots -> Contents \cup {Zeros}]
    BY <2>3, <2>4, <1>0
  <2>7. disk' = [disk EXCEPT !.dir = dir, !.data = data]
    BY <2>2
  <2> HIDE DEF dir, data
  <2> QED
    BY <2>5, <2>6, <2>7, <1>0, <1>1 DEF ConsoleSave, Cards
<1>2. ASSUME NEW game \in Games, ConsoleDelete(game)
      PROVE  disk' \in Cards /\ damage' \in 0 .. MaxDamage
  <2>1. PICK blocks \in BlockLists(Len(game.data)) :
          disk' = [disk EXCEPT !.dir = [b \in Slots |->
                       IF \E i \in DOMAIN blocks : blocks[i] = b
                       THEN [@[b] EXCEPT !.state = "DELETED", !.name = NoName]
                       ELSE @[b]]]
    BY <1>2 DEF ConsoleDelete
  <2> DEFINE dir == [b \in Slots |->
                       IF \E i \in DOMAIN blocks : blocks[i] = b
                       THEN [disk.dir[b] EXCEPT !.state = "DELETED", !.name = NoName]
                       ELSE disk.dir[b]]
  <2>2. dir \in [Slots -> Entries]
    BY <1>0 DEF Entries, States
  <2>3. disk' = [disk EXCEPT !.dir = dir]
    BY <2>1
  <2> HIDE DEF dir
  <2> QED
    BY <2>2, <2>3, <1>0, <1>2 DEF ConsoleDelete, Cards
<1>3. ASSUME NEW b \in Slots, NEW state \in States, NEW link \in LinkWords, Decay(b, state, link)
      PROVE  disk' \in Cards /\ damage' \in 0 .. MaxDamage
  <2> DEFINE dir == [disk.dir EXCEPT ![b] = [@ EXCEPT !.state = state, !.link = link]]
  <2>1. dir \in [Slots -> Entries]
    BY <1>0 DEF Entries
  <2>2. disk' = [disk EXCEPT !.dir = dir]
    BY <1>3, <1>0 DEF Decay, Cards
  <2>3. damage' \in 0 .. MaxDamage
    BY <1>3, <1>0, BoundsAssumption DEF Decay
  <2> HIDE DEF dir
  <2> QED
    BY <2>1, <2>2, <2>3, <1>0 DEF Cards
<1> QED
  BY <1>1, <1>2, <1>3 DEF Console

-----------------------------------------------------------------------------
(* Types.                                                                  *)

LEMMA ReadingTypes ==
  ASSUME NEW bytes \in Cards, StartReading(bytes)
  PROVE  card' \in Cards /\ slot' \in 1 .. SLOTS + 1 /\ chain' \in Seq(Slots)
         /\ found' \in Seq(Saves)
BY SlotsAssumption DEF StartReading

LEMMA PutAwayTypes ==
  ASSUME TypeOK, PutAway, disk' \in Cards, damage' \in 0 .. MaxDamage
  PROVE  TypeOK'
<1>1. card' \in Cards /\ slot' \in 1 .. SLOTS + 1 /\ chain' \in Seq(Slots) /\ found' \in Seq(Saves)
  BY BlankIsACard, ReadingTypes DEF PutAway, Drop
<1>2. image' \in Cards /\ nextBlock' \in 1 .. SLOTS + 1 /\ saved' \in Nat /\ index' \in Nat
      /\ placed' \in Seq(Nat \X Nat)
  BY BlankIsACard, SlotsAssumption DEF PutAway, Drop
<1>3. held' \in Seq(Saves) /\ kept' = <<>> /\ heldArea' = "none" /\ pc' = "closed" /\ checking' = FALSE
  BY DEF PutAway, Drop
<1> QED
  BY <1>1, <1>2, <1>3, Zenon DEF TypeOK

LEMMA ReadTypes == IInv /\ Read => TypeOK'
<1> SUFFICES ASSUME IInv, Read PROVE TypeOK'
  OBVIOUS
<1>0. TypeOK /\ Phases
  BY DEF IInv
<1>a. /\ card.data \in [Slots -> Contents \cup {Zeros}]
      /\ slot \in 1 .. SLOTS + 1 /\ chain \in Seq(Slots)
  BY <1>0 DEF TypeOK, Cards
<1>1. CASE ScanSlot
  <2>1. slot' \in 1 .. SLOTS + 1 /\ chain' \in Seq(Slots)
    <3>1. slot \in Slots
      BY <1>1, <1>a DEF ScanSlot, Slots
    <3>2. <<slot>> \in Seq(Slots)
      BY <3>1
    <3>3. slot + 1 \in 1 .. SLOTS + 1 /\ slot \in 1 .. SLOTS + 1
      BY <3>1, SlotsAssumption DEF Slots
    <3>4. \/ slot' = slot /\ chain' = <<slot>>
          \/ slot' = slot + 1 /\ chain' = chain
      BY <1>1 DEF ScanSlot
    <3> QED
      BY <3>2, <3>3, <3>4, <1>a
  <2> QED
    BY <1>0, <1>1, <2>1 DEF ScanSlot, TypeOK, bundleVars, buildVars
<1>2. CASE EndChain
  <2>1. pc = "chain" /\ chain # <<>> /\ slot \in Slots
    BY <1>0, <1>2 DEF EndChain, Phases, TypeOK, Slots
  <2>2. [i \in DOMAIN chain |-> card.data[chain[i]]] \in Seq(Contents \cup {Zeros})
    <3> \A i \in DOMAIN chain : chain[i] \in Slots
      BY <1>a
    <3> QED
      BY <1>a
  <2>3. card.dir[slot].name \in Names \cup {NoName}
    BY <1>0, <2>1 DEF TypeOK, Cards, Entries
  <2>4. found' \in Seq(Saves)
    BY <1>0, <1>2, <2>2, <2>3 DEF EndChain, TypeOK, Saves
  <2>5. slot' \in 1 .. SLOTS + 1 /\ chain' \in Seq(Slots)
    BY <1>2, <2>1, SlotsAssumption DEF EndChain, Slots
  <2> QED
    BY <1>0, <1>2, <2>4, <2>5 DEF EndChain, TypeOK, bundleVars, buildVars
<1>3. CASE FollowLink
  <2>1. pc = "chain" /\ chain # <<>> /\ Len(chain) \in DOMAIN chain
    BY <1>0, <1>3 DEF FollowLink, Phases, TypeOK
  <2>2. Link \in LinkWords
    BY <1>0, <2>1 DEF Link, TypeOK, Cards, Entries
  <2>3. Link + 1 \in Slots
    BY <2>2, <1>3, SlotsAssumption DEF FollowLink, Continues, LinkWords, NO_NEXT, Slots
  <2>4. chain' \in Seq(Slots)
    BY <1>0, <1>3, <2>3 DEF FollowLink, TypeOK
  <2> QED
    BY <1>0, <1>3, <2>4 DEF FollowLink, TypeOK, bundleVars, buildVars
<1>4. CASE RefuseChain
  BY <1>0, <1>4 DEF RefuseChain, TypeOK, toolVars, readVars, bundleVars, buildVars
<1>5. CASE Opened
  <2>1. card' \in Cards /\ slot' \in 1 .. SLOTS + 1 /\ chain' \in Seq(Slots) /\ found' \in Seq(Saves)
    BY <1>5, BlankIsACard, ReadingTypes DEF Opened
  <2>2. held' \in Seq(Saves) /\ kept' \in {<<>>} \cup [{1} -> Cards]
    BY <1>0, <1>5 DEF Opened, TypeOK
  <2>3. heldArea' \in Areas \cup {"none"}
    BY <1>0, <1>5 DEF Opened, SystemArea, TypeOK, Cards
  <2> QED
    BY <1>0, <1>5, <2>1, <2>2, <2>3 DEF Opened, TypeOK, buildVars
<1> QED
  BY <1>1, <1>2, <1>3, <1>4, <1>5 DEF Read

LEMMA SaveType ==
  ASSUME TypeOK, saved < Len(held)
  PROVE  /\ Save \in Saves /\ Blocks \in Nat /\ Save.data \in Seq(Contents \cup {Zeros})
         /\ nextBlock \in Nat /\ nextBlock >= 1 /\ index \in Nat /\ saved \in Nat
<1>1. held \in Seq(Saves) /\ saved \in Nat
  BY DEF TypeOK
<1>2. Save \in Saves
  BY <1>1 DEF Save
<1>3. Save.data \in Seq(Contents \cup {Zeros})
  BY <1>2 DEF Saves
<1>4. nextBlock \in Nat /\ nextBlock >= 1 /\ index \in Nat
  BY SlotsAssumption DEF TypeOK
<1> QED
  BY <1>1, <1>2, <1>3, <1>4 DEF Blocks

LEMMA BuiltEntryType ==
  ASSUME TypeOK, saved < Len(held), nextBlock + index <= SLOTS
  PROVE  BuiltEntry(index) \in Entries
<1>1. Save \in Saves /\ Blocks \in Nat /\ nextBlock \in Nat /\ index \in Nat
  BY SaveType
<1>2. nextBlock + index \in LinkWords /\ NO_NEXT \in LinkWords
  BY <1>1, SlotsAssumption DEF LinkWords, NO_NEXT
<1> QED
  BY <1>1, <1>2 DEF BuiltEntry, Entries, States, Saves

LEMMA PlaceBlockFits ==
  ASSUME IInv, PlaceBlock
  PROVE  /\ nextBlock + index \in Slots /\ nextBlock + Blocks - 1 <= SLOTS
         /\ Blocks \in Nat /\ index < Blocks /\ Save \in Saves
         /\ nextBlock \in Nat /\ nextBlock >= 1 /\ index \in Nat /\ saved \in Nat
<1>1. /\ Save \in Saves /\ Blocks \in Nat
      /\ nextBlock \in Nat /\ nextBlock >= 1 /\ index \in Nat /\ saved \in Nat
  BY SaveType DEF IInv, PlaceBlock
<1>0. index > 0 => index < Blocks /\ nextBlock + Blocks - 1 <= SLOTS
  <2>1. pc = "build" => Building
    BY DEF IInv
  <2> QED
    BY <2>1 DEF PlaceBlock, Building
<1>a. index > 0 \/ ~(Blocks = 0 \/ nextBlock + Blocks - 1 > SLOTS)
  BY DEF PlaceBlock, EmptySave, Full
<1>2. nextBlock + Blocks - 1 <= SLOTS /\ index < Blocks
  <2> HIDE DEF EmptySave, Full
  <2>1. CASE index > 0
    BY <1>0, <2>1
  <2>2. CASE ~(index > 0)
    BY <1>1, <1>a, <2>2, SlotsAssumption
  <2> QED
    BY <2>1, <2>2
<1> QED
  BY <1>1, <1>2, SlotsAssumption DEF Slots

LEMMA BuildTypes == IInv /\ Build => TypeOK'
<1> SUFFICES ASSUME IInv, Build PROVE TypeOK'
  OBVIOUS
<1>0. TypeOK /\ Phases
  BY DEF IInv
<1>1. CASE StartBuild
  <2>1. image' \in Cards /\ nextBlock' \in 1 .. SLOTS + 1 /\ placed' \in Seq(Nat \X Nat)
    BY <1>1, BlankIsACard, SlotsAssumption DEF StartBuild
  <2> QED
    BY <1>0, <1>1, <2>1 DEF StartBuild, TypeOK, readVars, bundleVars
<1>2. CASE RefuseSave
  BY <1>0, <1>2 DEF RefuseSave, TypeOK, toolVars, readVars, bundleVars, buildVars
<1>3. CASE PlaceBlock
  <2>1. PICK b \in Slots : b = nextBlock + index
    BY <1>3, PlaceBlockFits
  <2>2. BuiltEntry(index) \in Entries
    BY <1>0, <1>3, <2>1, BuiltEntryType, SlotsAssumption DEF PlaceBlock, Slots
  <2>3. Save.data[index + 1] \in Contents \cup {Zeros}
    BY <1>3, PlaceBlockFits DEF Saves, Blocks
  <2>4. image \in Cards
    BY <1>0 DEF TypeOK
  <2>5. image' \in Cards
    BY <1>3, <2>1, <2>2, <2>3, <2>4 DEF PlaceBlock, Cards
  <2>6. placed' \in Seq(Nat \X Nat)
    <3>1. <<saved + 1, index + 1>> \in Nat \X Nat
      BY <1>3, PlaceBlockFits
    <3> QED
      BY <1>0, <1>3, <3>1 DEF PlaceBlock, TypeOK
  <2>7. nextBlock' \in 1 .. SLOTS + 1 /\ saved' \in Nat /\ index' \in Nat
    <3>1. nextBlock + Blocks \in 1 .. SLOTS + 1 /\ nextBlock \in 1 .. SLOTS + 1
      BY <1>3, PlaceBlockFits, SlotsAssumption, <1>0 DEF TypeOK
    <3>2. \/ saved' = saved + 1 /\ index' = 0 /\ nextBlock' = nextBlock + Blocks
          \/ saved' = saved /\ index' = index + 1 /\ nextBlock' = nextBlock
      BY <1>3 DEF PlaceBlock
    <3> QED
      BY <3>1, <3>2, <1>3, PlaceBlockFits
  <2> QED
    BY <1>0, <1>3, <2>5, <2>6, <2>7 DEF PlaceBlock, TypeOK, readVars, bundleVars
<1>4. CASE FinishBuild
  <2>1. image' \in Cards
    BY <1>0, <1>4, FormattedAssumption DEF FinishBuild, TypeOK, Cards
  <2>2. card' \in Cards /\ slot' \in 1 .. SLOTS + 1 /\ chain' \in Seq(Slots) /\ found' \in Seq(Saves)
    BY <1>4, <2>1, SlotsAssumption DEF FinishBuild, StartReading
  <2> QED
    BY <1>0, <1>4, <2>1, <2>2 DEF FinishBuild, TypeOK, bundleVars
<1>5. CASE WriteImage
  <2>1. kept[1] \in Cards
    BY <1>0, <1>5 DEF WriteImage, TypeOK
  <2>2. card' \in Cards /\ slot' \in 1 .. SLOTS + 1 /\ chain' \in Seq(Slots) /\ found' \in Seq(Saves)
    BY <1>5, <2>1, ReadingTypes DEF WriteImage
  <2> QED
    BY <1>0, <1>5, <2>1, <2>2 DEF WriteImage, TypeOK, bundleVars
<1> QED
  BY <1>1, <1>2, <1>3, <1>4, <1>5 DEF Build

LEMMA WithoutType ==
  ASSUME NEW S, NEW s \in Seq(S), NEW i \in DOMAIN s
  PROVE  [j \in 1 .. Len(s) - 1 |-> IF j < i THEN s[j] ELSE s[j + 1]] \in Seq(S)
<1>1. Len(s) - 1 \in Nat
  OBVIOUS
<1>2. [j \in 1 .. Len(s) - 1 |-> IF j < i THEN s[j] ELSE s[j + 1]] \in [1 .. Len(s) - 1 -> S]
  OBVIOUS
<1> QED
  BY <1>1, <1>2

LEMMA TypeStep == IInv /\ [Next]_vars => TypeOK'
<1> SUFFICES ASSUME IInv, [Next]_vars PROVE TypeOK'
  OBVIOUS
<1>0. TypeOK
  BY DEF IInv
<1>1. CASE Console
  <2>1. disk' \in Cards /\ damage' \in 0 .. MaxDamage
    BY <1>0, <1>1, ConsoleType
  <2>2. UNCHANGED <<pc, toolVars>>
    BY <1>1 DEF Console, ConsoleSave, ConsoleDelete, Decay
  <2> QED
    BY <1>0, <2>1, <2>2 DEF TypeOK, toolVars, readVars, bundleVars, buildVars
<1>2. CASE Open
  <2>1. card' \in Cards /\ slot' \in 1 .. SLOTS + 1 /\ chain' \in Seq(Slots) /\ found' \in Seq(Saves)
    BY <1>0, <1>2, SlotsAssumption DEF Open, StartReading, TypeOK
  <2> QED
    BY <1>0, <1>2, <2>1 DEF Open, TypeOK, bundleVars, buildVars
<1>3. CASE Read
  BY <1>3, ReadTypes
<1>4. CASE Edit
  <2>1. held' \in Seq(Saves) /\ kept' = <<>> /\ pc' = pc
        /\ UNCHANGED <<disk, damage, checking, readVars, heldArea, buildVars>>
    <3>1. ASSUME NEW i \in DOMAIN held, RemoveSave(i) PROVE held' \in Seq(Saves)
      BY <1>0, <3>1, WithoutType DEF RemoveSave, TypeOK
    <3>2. ASSUME NEW game \in Games, AddSave(game) PROVE held' \in Seq(Saves)
      BY <1>0, <3>2, GamesAssumption DEF AddSave, TypeOK
    <3> QED
      BY <1>4, <3>1, <3>2 DEF Edit, RemoveSave, AddSave
  <2> QED
    BY <1>0, <2>1 DEF TypeOK, readVars, buildVars
<1>5. CASE Build
  BY <1>5, BuildTypes
<1>6. CASE CheckBack
  <2>1. CASE Len(found) = Len(held)
    BY <1>0, <1>6, <2>1, PutAwayTypes DEF CheckBack, TypeOK
  <2>2. CASE Len(found) # Len(held)
    BY <1>0, <1>6, <2>2 DEF CheckBack, TypeOK, toolVars, readVars, bundleVars, buildVars
  <2> QED
    BY <2>1, <2>2
<1>7. CASE Resume
  <2>1. card' \in Cards /\ slot' \in 1 .. SLOTS + 1 /\ chain' \in Seq(Slots) /\ found' \in Seq(Saves)
    BY <1>7, BlankIsACard, ReadingTypes DEF Resume, Drop
  <2>2. image' \in Cards /\ nextBlock' \in 1 .. SLOTS + 1 /\ saved' \in Nat /\ index' \in Nat
        /\ placed' \in Seq(Nat \X Nat)
    BY <1>7, BlankIsACard, SlotsAssumption DEF Resume, Drop
  <2> QED
    BY <1>0, <1>7, <2>1, <2>2 DEF Resume, Drop, TypeOK, bundleVars
<1>8. CASE Close
  BY <1>0, <1>8, PutAwayTypes DEF Close, TypeOK
<1>9. CASE UNCHANGED vars
  BY <1>0, <1>9 DEF TypeOK, vars, toolVars, readVars, bundleVars, buildVars
<1> QED
  BY <1>1, <1>2, <1>3, <1>4, <1>5, <1>6, <1>7, <1>8, <1>9 DEF Next, Check

-----------------------------------------------------------------------------
(* Phases: the chain being followed stays simple, and a scan that has      *)
(* found nothing has passed no save.                                       *)

LEMMA SimpleChain ==
  ASSUME NEW c \in Seq(Slots), Injective(c), NEW b, \A i \in DOMAIN c : c[i] # b
  PROVE  Injective(Append(c, b))
BY DEF Injective

\* Reading a packed card back, a chain runs through one save's blocks in order.
LEMMA PackedChain ==
  ASSUME IInv, pc = "chain", checking,
         NEW i, i = placed[slot][1], NEW n, n = Len(held[i].data), NEW L, L = Len(chain)
  PROVE  /\ kept = <<>> /\ PackedSoFar /\ ReadingBack /\ Following /\ card = image
         /\ slot \in 1 .. Len(placed) /\ Len(placed) <= SLOTS
         /\ i \in 1 .. Len(held) /\ n \in Nat /\ L \in 1 .. n
         /\ slot + L - 1 \in 1 .. Len(placed) /\ placed[slot + L - 1] = <<i, L>>
         /\ chain[L] = slot + L - 1
         /\ Link = IF L = n THEN NO_NEXT ELSE slot + L - 1
<1>1. kept = <<>> /\ ReadingBack
  BY DEF IInv, KeptIsEmpty
<1>2. chain \in Seq(Slots) /\ chain # <<>> /\ placed \in Seq(Nat \X Nat) /\ slot \in Nat /\ slot >= 1
      /\ held \in Seq(Saves)
  BY SlotsAssumption DEF IInv, TypeOK, Phases
<1>3. PackedSoFar /\ Following /\ card = image
  BY <1>1 DEF ReadingBack
<1>4. L \in Nat /\ L >= 1
  BY <1>2
<1>5. slot + L - 1 <= Len(placed) /\ Len(placed) <= SLOTS /\ Len(placed) \in Nat
  BY <1>2, <1>3 DEF Following, PackedSoFar
<1>6. slot \in 1 .. Len(placed) /\ slot + L - 1 \in 1 .. Len(placed)
  BY SMTT(30), <1>2, <1>4, <1>5
<1>7. chain[L] = slot + L - 1 /\ placed[slot + L - 1] = <<i, L>>
  BY <1>3, <1>4 DEF Following
<1>8. IsPlaced(slot + L - 1, <<i, L>>)
  BY <1>3, <1>6, <1>7 DEF PackedSoFar
<1>9. i \in 1 .. Len(held) /\ L \in 1 .. n /\ card.dir[slot + L - 1] = Entry(i, L, slot + L - 1)
  BY <1>3, <1>8 DEF IsPlaced
<1>10. n \in Nat
  <2>1. held[i] \in Saves
    BY <1>2, <1>9
  <2> QED
    BY <2>1 DEF Saves
<1>11. Link = IF L = n THEN NO_NEXT ELSE slot + L - 1
  BY <1>7, <1>9 DEF Link, Entry
<1> QED
  BY <1>1, <1>3, <1>5, <1>6, <1>7, <1>9, <1>10, <1>11

\* Where a save has another block, the next card block is it.
LEMMA PackedNext ==
  ASSUME IInv, checking, kept = <<>>, NEW b \in 1 .. Len(placed)
  PROVE  /\ b < Len(placed) => placed[b + 1] = Succ(placed[b])
         /\ b = Len(placed) => placed[b][1] = Len(held) /\ Succ(placed[b]) = <<Len(held) + 1, 1>>
<1>1. PackedSoFar /\ saved = Len(held) /\ index = 0 /\ placed \in Seq(Nat \X Nat) /\ held \in Seq(Saves)
  BY DEF IInv, ReadingBack, TypeOK
<1>2. Len(placed) \in Nat /\ placed[b] \in Nat \X Nat
  BY <1>1
<1>3. ASSUME b < Len(placed) PROVE placed[b + 1] = Succ(placed[b])
  <2>1. b + 1 \in 1 .. Len(placed) /\ b + 1 # 1 /\ b + 1 - 1 = b
    BY <1>2, <1>3
  <2> QED
    BY <2>1, <1>1 DEF PackedSoFar, Due
<1>4. ASSUME b = Len(placed)
      PROVE  placed[b][1] = Len(held) /\ Succ(placed[b]) = <<Len(held) + 1, 1>>
  <2>1. <<Len(held) + 1, 1>> = Succ(placed[b])
    <3>1. Len(placed) + 1 # 1 /\ Len(placed) + 1 - 1 = b
      BY <1>2, <1>4
    <3>2. <<saved + 1, index + 1>> = <<Len(held) + 1, 1>>
      BY <1>1
    <3> QED
      BY <3>1, <3>2, <1>1 DEF PackedSoFar, Due
  <2>2. placed[b][2] >= 1
    BY <1>1, <1>2 DEF PackedSoFar, IsPlaced
  <2>3. placed[b][1] + 1 = Len(held) + 1
    <3>1. Succ(placed[b]) = <<placed[b][1], placed[b][2] + 1>> \/ Succ(placed[b]) = <<placed[b][1] + 1, 1>>
      BY DEF Succ
    <3> QED
      BY <3>1, <2>1, <2>2, <1>2
  <2> QED
    BY <2>1, <2>3, <1>1, <1>2
<1> QED
  BY <1>3, <1>4

LEMMA PackedContinues ==
  ASSUME IInv, pc = "chain", checking, Link # NO_NEXT
  PROVE  /\ Link = slot + Len(chain) - 1 /\ Link + 1 <= Len(placed)
         /\ placed[Link + 1] = <<placed[slot][1], Len(chain) + 1>>
         /\ Continues(Link + 1)
<1> DEFINE i == placed[slot][1]
           n == Len(held[i].data)
           L == Len(chain)
<1>1. /\ kept = <<>> /\ PackedSoFar /\ Following /\ card = image
      /\ slot \in 1 .. Len(placed) /\ Len(placed) <= SLOTS
      /\ i \in 1 .. Len(held) /\ n \in Nat /\ L \in 1 .. n
      /\ slot + L - 1 \in 1 .. Len(placed) /\ placed[slot + L - 1] = <<i, L>>
      /\ Link = IF L = n THEN NO_NEXT ELSE slot + L - 1
  BY ZenonT(60), PackedChain
<1> HIDE DEF i, n, L
<1>2. L < n /\ Link = slot + L - 1 /\ Link \in 1 .. Len(placed)
  BY <1>1
<1>3. Succ(placed[Link]) = <<i, L + 1>>
  <2>1. placed[Link] = <<i, L>>
    BY <1>1, <1>2
  <2> QED
    BY <2>1, <1>2 DEF Succ, n
<1>4. Link < Len(placed)
  <2>1. L + 1 # 1
    BY <1>1
  <2>2. placed \in Seq(Nat \X Nat)
    BY DEF IInv, TypeOK
  <2>3. Len(placed) \in Nat
    BY <2>2
  <2> QED
    BY <2>1, <2>3, <1>1, <1>2, <1>3, PackedNext
<1>5. placed[Link + 1] = <<i, L + 1>>
  BY <1>1, <1>2, <1>3, <1>4, PackedNext
<1>6. Link + 1 \in 1 .. Len(placed) /\ Link + 1 <= SLOTS
  BY <1>1, <1>2, <1>4, SlotsAssumption
<1>7. card.dir[Link + 1] = Entry(i, L + 1, Link + 1)
  BY <1>1, <1>5, <1>6 DEF PackedSoFar, IsPlaced
<1>8. card.dir[Link + 1].state \in {"MIDDLE", "LAST"}
  BY <1>1, <1>2, <1>7 DEF Entry
<1>9. \A j \in DOMAIN chain : chain[j] # Link + 1
  <2>1. DOMAIN chain = 1 .. L
    BY DEF IInv, TypeOK, L
  <2>2. \A j \in 1 .. L : chain[j] = slot + j - 1
    BY <1>1 DEF Following, L
  <2> QED
    BY <2>1, <2>2, <1>1, <1>2
<1> QED
  BY <1>2, <1>5, <1>6, <1>8, <1>9 DEF Continues, i, L

LEMMA NeverRefusedReadingBack == IInv /\ RefuseChain => ~checking
BY PackedContinues DEF RefuseChain

LEMMA PhasesRead == IInv /\ Read => Phases'
<1> SUFFICES ASSUME IInv, Read PROVE Phases'
  OBVIOUS
<1>0. TypeOK /\ Phases /\ chain \in Seq(Slots) /\ slot \in 1 .. SLOTS + 1 /\ found \in Seq(Saves)
  BY DEF IInv, TypeOK
<1>1. CASE ScanSlot
  <2>1. CASE card.dir[slot].state = "FIRST"
    <3>1. chain' = <<slot>> /\ Injective(<<slot>>) /\ slot' = slot /\ pc' = "chain"
      BY <1>1, <2>1 DEF ScanSlot, Injective
    <3> QED
      BY <1>0, <1>1, <3>1 DEF ScanSlot, Phases, bundleVars, buildVars, NoSaveBefore
  <2>2. CASE card.dir[slot].state # "FIRST"
    BY <1>0, <1>1, <2>2 DEF ScanSlot, Phases, bundleVars, buildVars, NoSaveBefore, Slots
  <2> QED
    BY <2>1, <2>2
<1>2. CASE EndChain
  BY <1>0, <1>2 DEF EndChain, Phases, bundleVars, buildVars
<1>3. CASE FollowLink
  <2>1. chain # <<>> /\ Injective(chain) /\ Injective(chain') /\ chain' # <<>> /\ chain'[1] = slot
    BY <1>0, <1>3, SimpleChain DEF FollowLink, Continues, Phases
  <2> QED
    BY <1>0, <1>3, <2>1 DEF FollowLink, Phases, bundleVars, buildVars, NoSaveBefore
<1>4. CASE RefuseChain
  BY <1>0, <1>4, NeverRefusedReadingBack
     DEF RefuseChain, Phases, toolVars, readVars, bundleVars, buildVars
<1>5. CASE Opened
  BY <1>0, <1>5 DEF Opened, Phases, buildVars
<1> QED
  BY <1>1, <1>2, <1>3, <1>4, <1>5 DEF Read

LEMMA PhasesStep == IInv /\ [Next]_vars => Phases'
<1> SUFFICES ASSUME IInv, [Next]_vars PROVE Phases'
  OBVIOUS
<1>0. TypeOK /\ Phases
  BY DEF IInv
<1>1. CASE Console
  <2>1. pc = "closed" /\ UNCHANGED <<pc, toolVars>>
    BY <1>1 DEF Console, ConsoleSave, ConsoleDelete, Decay
  <2> QED
    BY <1>0, <2>1 DEF Phases, toolVars, readVars, bundleVars, buildVars
<1>2. CASE Open
  BY <1>0, <1>2, SlotsAssumption DEF Open, Phases, StartReading, bundleVars, buildVars, NoSaveBefore, Slots
<1>3. CASE Read
  BY <1>3, PhasesRead
<1>4. CASE Edit
  <2>1. pc = "editing" /\ pc' = pc /\ UNCHANGED <<checking, image>>
    BY <1>4 DEF Edit, RemoveSave, AddSave, buildVars
  <2> QED
    BY <1>0, <2>1 DEF Phases
<1>5. CASE Build
  <2>1. CASE StartBuild
    BY <1>0, <2>1 DEF StartBuild, Phases
  <2>2. CASE RefuseSave
    BY <1>0, <2>2 DEF RefuseSave, Phases, toolVars, readVars, bundleVars, buildVars
  <2>3. CASE PlaceBlock
    BY <1>0, <2>3 DEF PlaceBlock, Phases
  <2>4. CASE FinishBuild \/ WriteImage
    <3>1. checking' = TRUE /\ pc' = "scan"
      BY <2>4 DEF FinishBuild, WriteImage
    <3>2. image' \in Cards
      BY <1>5, BuildTypes DEF TypeOK
    <3> QED
      BY <3>1, <3>2 DEF Phases
  <2> QED
    BY <1>5, <2>1, <2>2, <2>3, <2>4 DEF Build
<1>6. CASE CheckBack
  <2>1. CASE Len(found) = Len(held)
    BY <2>1, <1>6 DEF CheckBack, PutAway, Drop, Phases
  <2>2. CASE Len(found) # Len(held)
    BY <1>0, <2>2, <1>6 DEF CheckBack, Phases, toolVars, readVars, bundleVars, buildVars
  <2> QED
    BY <2>1, <2>2
<1>7. CASE Resume
  BY <1>0, <1>7 DEF Resume, Drop, Phases
<1>8. CASE Close
  BY <1>8 DEF Close, PutAway, Drop, Phases
<1>9. CASE UNCHANGED vars
  BY <1>0, <1>9 DEF Phases, vars, toolVars, readVars, bundleVars, buildVars, NoSaveBefore
<1> QED
  BY <1>1, <1>2, <1>3, <1>4, <1>5, <1>6, <1>7, <1>8, <1>9 DEF Next, Check

LEMMA KeptStep == IInv /\ [Next]_vars => KeptIsEmpty'
<1> SUFFICES ASSUME IInv, [Next]_vars, kept' # <<>> PROVE KeptIsEmpty'
  BY DEF KeptIsEmpty
<1>0. TypeOK /\ Phases /\ KeptIsEmpty
  BY DEF IInv
<1>1. CASE Opened
  <2>1. found = <<>> /\ kept' = <<card>> /\ held' = <<>> /\ NoSaveBefore(card, slot) /\ slot > SLOTS
        /\ checking' = FALSE
    BY <1>0, <1>1 DEF Opened, Phases, TypeOK
  <2>2. \A s \in Slots : s < slot /\ s < SLOTS + 1
    BY <1>0, <2>1, SlotsAssumption DEF TypeOK, Slots
  <2>3. NoSaveBefore(card, SLOTS + 1)
    BY <2>1, <2>2 DEF NoSaveBefore
  <2> QED
    BY <2>1, <2>3 DEF KeptIsEmpty
<1>2. CASE WriteImage
  BY <1>0, <1>2 DEF WriteImage, KeptIsEmpty, bundleVars, StartReading
<1>3. CASE ScanSlot
  <2>1. kept # <<>> /\ UNCHANGED <<kept, held, checking, card, found>>
    BY <1>3 DEF ScanSlot, bundleVars
  <2>2. checking => card.dir[slot].state # "FIRST"
    <3>1. slot \in Slots /\ slot < SLOTS + 1
      BY <1>0, <1>3, SlotsAssumption DEF ScanSlot, TypeOK, Slots
    <3>2. checking => NoSaveBefore(card, SLOTS + 1)
      BY <1>0, <2>1 DEF KeptIsEmpty
    <3> QED
      BY <3>1, <3>2 DEF NoSaveBefore
  <2>3. checking => pc' = "scan"
    BY <2>2, <1>3 DEF ScanSlot
  <2> QED
    BY <1>0, <2>1, <2>3 DEF KeptIsEmpty
<1>4. CASE EndChain \/ FollowLink \/ RefuseChain
  <2>1. pc = "chain" /\ UNCHANGED <<kept, held, checking>>
    BY <1>4 DEF EndChain, FollowLink, RefuseChain, toolVars, bundleVars
  <2> QED
    BY <1>0, <2>1 DEF KeptIsEmpty
<1>5. CASE Console \/ Open
  <2>1. pc = "closed" /\ kept' = kept
    BY <1>5 DEF Console, ConsoleSave, ConsoleDelete, Decay, Open, toolVars, bundleVars
  <2> QED
    BY <1>0, <2>1 DEF Phases
<1>6. CASE Edit
  BY <1>6 DEF Edit, RemoveSave, AddSave
<1>7. CASE StartBuild \/ RefuseSave \/ PlaceBlock \/ FinishBuild
  <2>1. kept' = kept /\ (kept # <<>> => pc # "build")
    BY <1>7 DEF IInv, StartBuild, RefuseSave, PlaceBlock, FinishBuild, toolVars, bundleVars
  <2> QED
    BY <1>7, <2>1 DEF StartBuild, RefuseSave, PlaceBlock, FinishBuild
<1>8. CASE CheckBack
  <2>1. Len(found) = Len(held)
    BY <1>0, <1>8 DEF CheckBack, KeptIsEmpty, toolVars, bundleVars
  <2> QED
    BY <1>8, <2>1 DEF CheckBack, PutAway
<1>9. CASE Resume
  BY <1>0, <1>9 DEF Resume, Drop, KeptIsEmpty, bundleVars
<1>10. CASE Close
  BY <1>10 DEF Close, PutAway
<1>11. CASE UNCHANGED vars
  BY <1>0, <1>11 DEF KeptIsEmpty, vars, toolVars, readVars, bundleVars
<1> QED
  BY <1>1, <1>2, <1>3, <1>4, <1>5, <1>6, <1>7, <1>8, <1>9, <1>10, <1>11
     DEF Next, Read, Build, Check

-----------------------------------------------------------------------------
(* The builder keeps the card packed.                                      *)

LEMMA PlacedOne ==
  ASSUME IInv, PlaceBlock
  PROVE  Building'
<1>1. /\ PackedSoFar /\ Len(placed) = nextBlock + index - 1 /\ saved < Len(held)
      /\ placed \in Seq(Nat \X Nat) /\ held \in Seq(Saves) /\ image \in Cards
  BY DEF IInv, TypeOK, PlaceBlock, Building
<1>2. /\ nextBlock + index \in Slots /\ nextBlock + Blocks - 1 <= SLOTS
      /\ Blocks \in Nat /\ index < Blocks /\ Save \in Saves
      /\ nextBlock \in Nat /\ nextBlock >= 1 /\ index \in Nat /\ saved \in Nat
  BY PlaceBlockFits
<1>3. PICK N \in Nat, b \in Slots, s \in Nat, k \in Nat, n \in Nat :
        N = Len(placed) /\ b = N + 1 /\ s = saved + 1 /\ k = index + 1 /\ n = Blocks
  BY <1>1, <1>2 DEF Slots
<1>4. /\ b \in Nat /\ b >= 1 /\ b <= SLOTS /\ b = nextBlock + index /\ Save = held[s]
      /\ n = Len(held[s].data) /\ s \in 1 .. Len(held) /\ k \in 1 .. n
  <2>1. b = nextBlock + index /\ Save = held[s] /\ n = Len(held[s].data)
    BY <1>1, <1>2, <1>3 DEF Save, Blocks
  <2>2. Len(held) \in Nat
    BY <1>1
  <2> QED
    BY <1>1, <1>2, <1>3, <2>1, <2>2, SlotsAssumption DEF Slots
<1>5. /\ image'.dir = [image.dir EXCEPT ![b] = BuiltEntry(index)]
      /\ image'.data = [image.data EXCEPT ![b] = held[s].data[k]]
      /\ placed' = Append(placed, <<s, k>>) /\ held' = held
  BY <1>1, <1>3, <1>4 DEF PlaceBlock, bundleVars, Cards
<1>6. /\ Len(placed') = b /\ placed'[b] = <<s, k>>
      /\ \A c \in 1 .. N : placed'[c] = placed[c]
  BY <1>1, <1>3, <1>5
<1>7. ASSUME NEW c \in 1 .. b PROVE Due(c)' = Due(c)
  <2>1. c = 1 \/ (c # 1 /\ c - 1 \in 1 .. N)
    BY <1>3
  <2>2. c # 1 => placed'[c - 1] = placed[c - 1]
    BY <2>1, <1>6
  <2> QED
    BY <2>1, <2>2, <1>5 DEF Due, Succ
<1>8. ASSUME NEW c \in 1 .. N PROVE placed'[c] = Due(c)' /\ IsPlaced(c, placed[c])'
  <2>1. IsPlaced(c, placed[c]) /\ placed[c] = Due(c)
    BY <1>1, <1>3 DEF PackedSoFar
  <2>2. c # b /\ c \in 1 .. b /\ c \in Slots
    BY <1>3, <1>4, SlotsAssumption DEF Slots
  <2>3. image'.dir[c] = image.dir[c] /\ image'.data[c] = image.data[c]
    BY <1>1, <1>5, <2>2 DEF Cards
  <2>4. placed'[c] = placed[c]
    BY <1>6
  <2>5. IsPlaced(c, placed[c])'
    BY <2>1, <2>3, <2>4, <1>5 DEF IsPlaced, Entry
  <2> QED
    BY <2>1, <2>2, <2>4, <2>5, <1>7
<1>9. placed'[b] = Due(b)' /\ IsPlaced(b, placed[b])'
  <2>1. <<s, k>> = Due(b)
    BY <1>1, <1>3 DEF PackedSoFar
  <2>2. BuiltEntry(index) = Entry(s, k, b)
    BY SMTT(30), <1>3, <1>4, <1>2 DEF BuiltEntry, Entry
  <2>3. Entry(s, k, b)' = Entry(s, k, b)
    BY <1>5 DEF Entry
  <2>4. image'.dir[b] = BuiltEntry(index) /\ image'.data[b] = held[s].data[k]
    BY <1>1, <1>5 DEF Cards
  <2>5. b \in 1 .. b
    BY <1>4
  <2>6. <<s, k>>[1] = s /\ <<s, k>>[2] = k
    OBVIOUS
  <2>7. image'.dir[b] = Entry(s, k, b)'
    BY <2>2, <2>3, <2>4
  <2>8. IsPlaced(b, placed[b])'
    BY <2>4, <2>6, <2>7, <1>4, <1>5, <1>6 DEF IsPlaced
  <2> QED
    BY <2>1, <2>5, <2>8, <1>6, <1>7
<1>10. \A c \in Slots : c > b => image'.dir[c] = FreeEntry
  BY <1>1, <1>3, <1>4, <1>5 DEF PackedSoFar, Cards, Slots
<1>11. <<saved' + 1, index' + 1>> = Due(b + 1)'
  <2>1. Due(b + 1)' = IF k < n THEN <<s, k + 1>> ELSE <<s + 1, 1>>
    <3>1. b + 1 # 1 /\ b + 1 - 1 = b
      BY <1>4
    <3>2. Due(b + 1)' = Succ(placed[b])'
      BY SMTT(30), <1>4, <3>1 DEF Due, Succ
    <3>3. <<s, k>>[1] = s /\ <<s, k>>[2] = k
      OBVIOUS
    <3>4. Succ(placed[b])' = IF k < n THEN <<s, k + 1>> ELSE <<s + 1, 1>>
      BY <3>3, <1>4, <1>5, <1>6 DEF Succ
    <3> QED
      BY <3>2, <3>4
  <2>2. \/ k < n /\ saved' + 1 = s /\ index' + 1 = k + 1
        \/ ~(k < n) /\ saved' + 1 = s + 1 /\ index' + 1 = 1
    BY SMTT(30), <1>2, <1>3, <1>4 DEF PlaceBlock
  <2> QED
    BY <2>1, <2>2
<1>12. PackedSoFar'
  <2>1. \A c \in 1 .. b : placed'[c] = Due(c)' /\ IsPlaced(c, placed[c])'
    BY <1>3, <1>8, <1>9
  <2> QED
    BY <2>1, <1>4, <1>6, <1>10, <1>11 DEF PackedSoFar
<1>13. saved' <= Len(held') /\ Len(placed') = nextBlock' + index' - 1
       /\ (index' > 0 => saved' < Len(held') /\ index' < Blocks' /\ nextBlock' + Blocks' - 1 <= SLOTS)
  <2>0. Len(held) \in Nat
    BY <1>1
  <2>1. CASE index + 1 = Blocks
    <3>1. saved' = saved + 1 /\ index' = 0 /\ nextBlock' = nextBlock + Blocks
      BY <2>1 DEF PlaceBlock
    <3>2. Len(placed') = nextBlock + index /\ held' = held
      BY <1>4, <1>5, <1>6
    <3> QED
      BY <2>0, <2>1, <3>1, <3>2, <1>1, <1>2
  <2>2. CASE index + 1 # Blocks
    <3>1. saved' = saved /\ index' = index + 1 /\ nextBlock' = nextBlock
      BY <2>2 DEF PlaceBlock
    <3>2. Blocks' = Blocks
      BY <3>1, <1>5 DEF Blocks, Save
    <3>3. Len(placed') = nextBlock + index /\ held' = held
      BY <1>4, <1>5, <1>6
    <3> QED
      BY <2>0, <2>2, <3>1, <3>2, <3>3, <1>1, <1>2
  <2> QED
    BY <2>1, <2>2
<1> QED
  BY <1>12, <1>13 DEF Building

LEMMA BuildingStep == IInv /\ [Next]_vars /\ pc' = "build" => kept' = <<>> /\ Building'
<1> SUFFICES ASSUME IInv, [Next]_vars, pc' = "build" PROVE kept' = <<>> /\ Building'
  OBVIOUS
<1>1. CASE StartBuild
  <2>1. /\ placed' = <<>> /\ nextBlock' = 1 /\ saved' = 0 /\ index' = 0 /\ kept' = <<>>
        /\ held' = held /\ held \in Seq(Saves) /\ image' = Blank
    BY <1>1 DEF StartBuild, bundleVars, IInv, TypeOK
  <2>2. Len(placed') = 0 /\ Len(held) \in Nat
    BY <2>1
  <2>3. Due(1)' = <<1, 1>>
    BY DEF Due
  <2>4. \A b \in Slots : image'.dir[b] = FreeEntry
    BY <2>1 DEF Blank
  <2>5. PackedSoFar'
    BY <2>1, <2>2, <2>3, <2>4, SlotsAssumption DEF PackedSoFar
  <2> QED
    BY <2>1, <2>2, <2>5 DEF Building
<1>2. CASE PlaceBlock
  <2>1. kept' = <<>>
    BY <1>2 DEF IInv, PlaceBlock, bundleVars
  <2> QED
    BY <1>2, <2>1, PlacedOne
<1>3. CASE UNCHANGED vars
  BY <1>3 DEF IInv, vars, toolVars, bundleVars, buildVars, Building, PackedSoFar, IsPlaced, Entry, Due,
              Succ, Blocks, Save
<1>4. CASE Next /\ ~StartBuild /\ ~PlaceBlock
  <2>1. pc' # "build"
    BY <1>4 DEF Next, Console, ConsoleSave, ConsoleDelete, Decay, Open, Read, ScanSlot, EndChain,
         FollowLink, RefuseChain, Opened, Edit, RemoveSave, AddSave, Build, RefuseSave, FinishBuild,
         WriteImage, Check, CheckBack, PutAway, Resume, Close
  <2> QED
    BY <2>1
<1> QED
  BY <1>1, <1>2, <1>3, <1>4

-----------------------------------------------------------------------------
(* The read-back finds one save after another.                             *)

\* A whole chain gives back the save it was placed from.
LEMMA ChainIsSave ==
  ASSUME IInv, checking, EndChain
  PROVE  /\ kept = <<>> /\ placed[slot][1] \in 1 .. Len(held)
         /\ Len(found) = placed[slot][1] - 1
         /\ found' = Append(found, held[placed[slot][1]])
<1>0. pc = "chain"
  BY DEF EndChain
<1>a. Link = NO_NEXT
  BY DEF EndChain
<1>1. found' = Append(found,
         [name |-> card.dir[slot].name, data |-> [j \in DOMAIN chain |-> card.data[chain[j]]]])
  BY DEF EndChain
<1>2. PICK i, n, L : i = placed[slot][1] /\ n = Len(held[i].data) /\ L = Len(chain)
  OBVIOUS
<1>3. /\ kept = <<>> /\ PackedSoFar /\ Following /\ card = image
      /\ slot \in 1 .. Len(placed) /\ Len(placed) <= SLOTS
      /\ i \in 1 .. Len(held) /\ n \in Nat /\ L \in 1 .. n
      /\ slot + L - 1 \in 1 .. Len(placed) /\ placed[slot + L - 1] = <<i, L>>
      /\ Link = IF L = n THEN NO_NEXT ELSE slot + L - 1
  <2>1. i = placed[slot][1] /\ n = Len(held[i].data) /\ L = Len(chain)
    BY <1>2
  <2> QED
    BY ONLY SMTT(30), IInv, checking, <1>0, <2>1, PackedChain
<1>4. L = n
  <2>1. slot + L - 1 <= SLOTS /\ slot + L - 1 # NO_NEXT
    BY <1>3, SlotsAssumption DEF NO_NEXT
  <2> QED
    BY <2>1, <1>a, <1>3
<1>5. held[i] \in Saves /\ chain \in Seq(Slots) /\ held[i].data \in Seq(Contents \cup {Zeros})
  <2>1. held \in Seq(Saves) /\ chain \in Seq(Slots)
    BY DEF IInv, TypeOK
  <2>2. held[i] \in Saves
    BY <2>1, <1>3
  <2> QED
    BY <2>1, <2>2 DEF Saves
<1>6. ASSUME NEW j \in 1 .. n
      PROVE  /\ chain[j] = slot + j - 1 /\ card.data[chain[j]] = held[i].data[j]
             /\ card.dir[chain[j]] = Entry(i, j, chain[j])
  <2>1. chain[j] = slot + j - 1 /\ placed[slot + j - 1] = <<i, j>>
    BY <1>2, <1>3, <1>4 DEF Following
  <2>2. slot + j - 1 \in 1 .. Len(placed)
    BY <1>3, <1>4
  <2>3. IsPlaced(slot + j - 1, <<i, j>>)
    BY <2>1, <2>2, <1>3 DEF PackedSoFar
  <2> QED
    BY <2>1, <2>3, <1>3 DEF IsPlaced
<1>7. [j \in DOMAIN chain |-> card.data[chain[j]]] = held[i].data
  <2>1. DOMAIN chain = 1 .. n
    <3>1. Len(chain) = n
      BY <1>2, <1>4
    <3> QED
      BY <3>1, <1>5, LenProperties
  <2>2. held[i].data \in [1 .. n -> Contents \cup {Zeros}]
    BY <1>2, <1>5, LenProperties
  <2>3. held[i].data = [j \in 1 .. n |-> held[i].data[j]]
    BY <2>2
  <2>4. [j \in DOMAIN chain |-> card.data[chain[j]]] = [j \in 1 .. n |-> held[i].data[j]]
    BY <2>1, <1>6
  <2> QED
    BY <2>3, <2>4
<1>8. card.dir[slot].name = held[i].name
  <2>1. 1 \in 1 .. n /\ chain[1] = slot
    BY SMTT(30), <1>3, <1>4, <1>6
  <2>2. card.dir[slot] = Entry(i, 1, slot)
    BY <2>1, <1>6
  <2> QED
    BY <2>2 DEF Entry
<1>9. held[i] = [name |-> held[i].name, data |-> held[i].data]
  BY <1>5 DEF Saves
<1>10. Len(found) = i - 1
  BY <1>2, <1>3 DEF Following
<1> QED
  BY <1>1, <1>2, <1>3, <1>7, <1>8, <1>9, <1>10

LEMMA PassedNext ==
  ASSUME IInv, checking, kept = <<>>, NEW b \in 1 .. Len(placed)
  PROVE  Passed(b + 1) = placed[b][1]
<1>1. placed \in Seq(Nat \X Nat) /\ held \in Seq(Saves)
  BY DEF IInv, TypeOK
<1>2. Len(placed) \in Nat /\ placed[b] \in Nat \X Nat /\ Len(held) \in Nat /\ b \in Nat
  BY <1>1
<1>3. placed[b][2] >= 1
  <2>1. PackedSoFar
    BY DEF IInv, ReadingBack
  <2> QED
    BY <2>1, <1>2 DEF PackedSoFar, IsPlaced
<1>4. CASE b = Len(placed)
  BY <1>2, <1>4, PackedNext DEF Passed
<1>5. CASE b < Len(placed)
  <2>1. placed[b + 1] = Succ(placed[b])
    BY <1>5, PackedNext
  <2>2. \/ placed[b + 1] = <<placed[b][1], placed[b][2] + 1>>
        \/ placed[b + 1] = <<placed[b][1] + 1, 1>>
    BY <2>1 DEF Succ
  <2>3. ~(b + 1 > Len(placed)) /\ placed[b][2] + 1 # 1
    BY <1>2, <1>3, <1>5
  <2> QED
    BY <1>2, <2>2, <2>3 DEF Passed
<1> QED
  BY <1>2, <1>4, <1>5

\* What a read-back goes by is the layout and the saves, and no step of it
\* disturbs either.
LEMMA SameLayout ==
  ASSUME PackedSoFar, UNCHANGED <<placed, held, saved, index>>,
         image'.dir = image.dir, image'.data = image.data
  PROVE  /\ PackedSoFar'
         /\ \A b : Passed(b)' = Passed(b)
<1>1. \A b : Due(b)' = Due(b) /\ (IsPlaced(b, placed[b])' <=> IsPlaced(b, placed[b]))
  BY DEF Due, Succ, IsPlaced, Entry
<1>2. PackedSoFar'
  BY <1>1 DEF PackedSoFar
<1>3. \A b : Passed(b)' = Passed(b)
  BY DEF Passed
<1> QED
  BY <1>2, <1>3

LEMMA ReadBackStarts ==
  ASSUME IInv, FinishBuild
  PROVE  kept' = <<>> /\ pc' = "scan" /\ ReadingBack'
<1>1. /\ PackedSoFar /\ saved = Len(held) /\ index = 0 /\ kept' = <<>> /\ pc' = "scan"
      /\ placed \in Seq(Nat \X Nat) /\ image \in Cards /\ Len(held) \in Nat
  <2>1. Building /\ kept = <<>> /\ held \in Seq(Saves) /\ index \in Nat /\ saved = Len(held)
    BY DEF IInv, TypeOK, FinishBuild
  <2>2. Len(held) \in Nat
    BY <2>1
  <2>3. index = 0
    BY <2>1, <2>2 DEF Building
  <2> QED
    BY <2>1, <2>2, <2>3 DEF IInv, TypeOK, Building, FinishBuild, bundleVars
<1>2. UNCHANGED <<placed, held, saved, index>> /\ image'.dir = image.dir /\ image'.data = image.data
  BY <1>1 DEF FinishBuild, bundleVars, Cards
<1>3. PackedSoFar' /\ \A b : Passed(b)' = Passed(b)
  BY <1>1, <1>2, SameLayout
<1>4. card' = image' /\ slot' = 1 /\ found' = <<>>
  BY DEF FinishBuild, StartReading
<1>5. Passed(1) = 0
  <2>0. Len(placed) \in Nat
    BY <1>1
  <2>1. CASE Len(placed) = 0
    <3>1. <<saved + 1, index + 1>> = <<1, 1>>
      BY <1>1, <2>1 DEF PackedSoFar, Due
    <3> QED
      BY <1>1, <2>1, <3>1 DEF Passed
  <2>2. CASE Len(placed) # 0
    <3>1. 1 \in 1 .. Len(placed)
      BY <2>0, <2>2
    <3>2. placed[1] = <<1, 1>>
      BY <3>1, <1>1 DEF PackedSoFar, Due
    <3> QED
      BY <2>0, <2>2, <3>2 DEF Passed
  <2> QED
    BY <2>1, <2>2
<1>6. Len(found') = Passed(slot)'
  <2>1. Passed(slot') = 0
    BY <1>4, <1>5
  <2>2. Passed(slot)' = Passed(slot')
    BY <1>2 DEF Passed
  <2> QED
    BY <1>4, <2>1, <2>2
<1> QED
  BY <1>1, <1>2, <1>3, <1>4, <1>6 DEF ReadingBack

LEMMA ReadBackScans ==
  ASSUME IInv, ScanSlot, checking, kept = <<>>
  PROVE  pc' \in {"scan", "chain"} /\ ReadingBack'
<1>1. /\ ReadingBack /\ PackedSoFar /\ card = image /\ Len(found) = Passed(slot) /\ pc = "scan"
      /\ placed \in Seq(Nat \X Nat) /\ held \in Seq(Saves) /\ found \in Seq(Saves)
      /\ slot \in 1 .. SLOTS
  <2>1. ReadingBack /\ pc = "scan"
    BY DEF IInv, ScanSlot
  <2>2. slot \in 1 .. SLOTS
    BY SlotsAssumption DEF IInv, TypeOK, ScanSlot
  <2> QED
    BY <2>1, <2>2 DEF ReadingBack, IInv, TypeOK
<1>2. UNCHANGED <<placed, held, saved, index, image, card, found, kept>>
  BY DEF ScanSlot, bundleVars, buildVars
<1>3. PackedSoFar' /\ \A b : Passed(b)' = Passed(b)
  BY <1>1, <1>2, SameLayout
<1>4. Len(placed) \in Nat /\ Len(held) \in Nat
  BY <1>1
<1>5. slot <= Len(placed) => /\ placed[slot] \in Nat \X Nat
                             /\ card.dir[slot] = Entry(placed[slot][1], placed[slot][2], slot)
  BY <1>1, <1>4 DEF PackedSoFar, IsPlaced
<1>6. card.dir[slot].state = "FIRST" <=> slot <= Len(placed) /\ placed[slot][2] = 1
  <2>1. CASE slot <= Len(placed)
    BY <2>1, <1>5 DEF Entry
  <2>2. CASE ~(slot <= Len(placed))
    <3>1. slot \in Slots /\ slot > Len(placed)
      BY <2>2, <1>1, <1>4, SlotsAssumption DEF Slots
    <3>2. card.dir[slot] = FreeEntry
      BY <3>1, <1>1 DEF PackedSoFar
    <3> QED
      BY <2>2, <3>2 DEF FreeEntry
  <2> QED
    BY <2>1, <2>2
<1>7. CASE card.dir[slot].state = "FIRST"
  <2>1. pc' = "chain" /\ chain' = <<slot>> /\ slot' = slot
    BY <1>7 DEF ScanSlot
  <2>2. slot <= Len(placed) /\ placed[slot] = <<placed[slot][1], 1>>
    BY <1>5, <1>6, <1>7
  <2>3. Len(found) = placed[slot][1] - 1
    BY <2>2, <1>1, <1>4 DEF Passed
  <2>4. Following'
    BY <2>1, <2>2, <2>3, <1>1, <1>2, <1>4 DEF Following
  <2> QED
    BY <2>1, <2>4, <1>1, <1>2, <1>3 DEF ReadingBack
<1>8. CASE card.dir[slot].state # "FIRST"
  <2>1. pc' = "scan" /\ slot' = slot + 1
    BY <1>1, <1>8 DEF ScanSlot
  <2>2. Passed(slot + 1) = Passed(slot)
    <3>1. CASE slot <= Len(placed)
      <4>1. Passed(slot) = placed[slot][1]
        BY <3>1, <1>1, <1>4, <1>6, <1>8 DEF Passed
      <4>2. slot \in 1 .. Len(placed)
        BY <3>1, <1>1, <1>4
      <4> QED
        BY <4>1, <4>2, PassedNext
    <3>2. CASE ~(slot <= Len(placed))
      BY <3>2, <1>1, <1>4 DEF Passed
    <3> QED
      BY <3>1, <3>2
  <2>3. Passed(slot)' = Passed(slot')
    BY <1>2 DEF Passed
  <2>4. Len(found') = Passed(slot)'
    BY <2>1, <2>2, <2>3, <1>1, <1>2
  <2> QED
    BY <2>1, <2>4, <1>1, <1>2, <1>3 DEF ReadingBack
<1> QED
  BY <1>7, <1>8

LEMMA ReadBackFinds ==
  ASSUME IInv, EndChain, checking
  PROVE  pc' = "scan" /\ ReadingBack'
<1>1. /\ kept = <<>> /\ placed[slot][1] \in 1 .. Len(held)
      /\ Len(found) = placed[slot][1] - 1 /\ found' = Append(found, held[placed[slot][1]])
  BY ChainIsSave
<1>2. ReadingBack /\ PackedSoFar /\ Following /\ pc = "chain"
  BY <1>1 DEF IInv, EndChain, ReadingBack
<1>3. /\ placed \in Seq(Nat \X Nat) /\ held \in Seq(Saves) /\ found \in Seq(Saves)
      /\ chain \in Seq(Slots) /\ chain # <<>> /\ slot \in 1 .. SLOTS + 1
  BY <1>2 DEF IInv, TypeOK, Phases
<1>4. UNCHANGED <<placed, held, saved, index, image, card, kept>> /\ pc' = "scan" /\ slot' = slot + 1
  BY DEF EndChain, bundleVars, buildVars
<1>5. PackedSoFar' /\ \A b : Passed(b)' = Passed(b)
  BY <1>2, <1>4, SameLayout
<1>6. slot \in 1 .. Len(placed)
  <2>1. Len(placed) \in Nat /\ Len(chain) \in Nat /\ Len(chain) >= 1 /\ slot \in Nat /\ slot >= 1
    BY <1>3, SlotsAssumption
  <2>2. slot + Len(chain) - 1 <= Len(placed)
    BY <1>2 DEF Following
  <2> QED
    BY <2>1, <2>2
<1>7. Passed(slot + 1) = placed[slot][1]
  BY <1>1, <1>2, <1>6, PassedNext
<1>8. PICK i \in Nat : i = placed[slot][1]
  <2>1. Len(held) \in Nat
    BY <1>3
  <2> QED
    BY <2>1, <1>1
<1>9. /\ Len(found') = i
      /\ \A j \in 1 .. i : found'[j] = held[j]
  <2>1. \A j \in 1 .. Len(found) : found[j] = held[j]
    BY <1>2 DEF ReadingBack
  <2>2. Len(found') = Len(found) + 1 /\ found'[Len(found) + 1] = held[i]
        /\ \A j \in 1 .. Len(found) : found'[j] = found[j]
    <3>1. held[i] \in Saves /\ found' = Append(found, held[i])
      BY SMTT(30), <1>1, <1>3, <1>8
    <3> QED
      BY <3>1, <1>3, AppendProperties
  <2>3. Len(found) \in Nat /\ Len(found) + 1 = i
    BY <1>1, <1>3, <1>8
  <2>4. ASSUME NEW j \in 1 .. i PROVE found'[j] = held[j]
    <3>1. j = i \/ j \in 1 .. Len(found)
      BY <2>3, <1>8
    <3> QED
      BY <3>1, <2>1, <2>2, <2>3
  <2> QED
    BY <2>2, <2>3, <2>4
<1>10. Len(found') = Passed(slot)'
  <2>1. Passed(slot)' = Passed(slot')
    BY <1>4 DEF Passed
  <2> QED
    BY <2>1, <1>4, <1>7, <1>8, <1>9
<1> QED
  BY <1>2, <1>4, <1>5, <1>9, <1>10 DEF ReadingBack

LEMMA ReadBackFollows ==
  ASSUME IInv, FollowLink, checking
  PROVE  pc' = "chain" /\ ReadingBack'
<1>1. pc = "chain"
  BY DEF FollowLink
<1>2. PICK L : L = Len(chain)
  OBVIOUS
<1>3. kept = <<>> /\ PackedSoFar /\ ReadingBack /\ Following
  BY <1>1, PackedChain
<1>4. /\ Link = slot + L - 1 /\ Link + 1 <= Len(placed)
      /\ placed[Link + 1] = <<placed[slot][1], L + 1>>
  BY <1>1, <1>2, PackedContinues DEF FollowLink
<1>5. /\ chain \in Seq(Slots) /\ L \in Nat /\ slot \in Nat
  <2>1. chain \in Seq(Slots) /\ slot \in 1 .. SLOTS + 1
    BY DEF IInv, TypeOK
  <2> QED
    BY <2>1, <1>2, SlotsAssumption
<1>6. /\ UNCHANGED <<placed, held, saved, index, image, card, found, kept, slot>> /\ pc' = "chain"
      /\ chain' = Append(chain, Link + 1)
  BY <1>1 DEF FollowLink, bundleVars, buildVars
<1>7. PackedSoFar'
  BY <1>3, <1>6, SameLayout
<1>8. /\ Len(chain') = L + 1 /\ chain'[L + 1] = slot + L
      /\ \A j \in 1 .. L : chain'[j] = chain[j]
  BY <1>2, <1>4, <1>5, <1>6
<1>9. \A j \in 1 .. L + 1 : /\ chain'[j] = slot + j - 1
                            /\ placed[slot + j - 1] = <<placed[slot][1], j>>
  <2>1. \A j \in 1 .. L : /\ chain[j] = slot + j - 1
                          /\ placed[slot + j - 1] = <<placed[slot][1], j>>
    BY <1>2, <1>3 DEF Following
  <2>2. SUFFICES ASSUME NEW j \in 1 .. L + 1
                 PROVE chain'[j] = slot + j - 1 /\ placed[slot + j - 1] = <<placed[slot][1], j>>
    OBVIOUS
  <2>3. CASE j = L + 1
    <3>1. slot + j - 1 = slot + L /\ Link + 1 = slot + L
      BY <2>3, <1>4, <1>5
    <3> QED
      BY <2>3, <3>1, <1>4, <1>8
  <2>4. CASE j # L + 1
    <3>1. j \in 1 .. L
      BY <2>2, <2>4, <1>5
    <3> QED
      BY <3>1, <2>1, <1>8
  <2> QED
    BY <2>3, <2>4
<1>10. Following'
  <2>1. Len(found) = placed[slot][1] - 1
    BY <1>3 DEF Following
  <2>2. slot + (L + 1) - 1 <= Len(placed)
    BY <1>4, <1>5
  <2> QED
    BY <2>1, <2>2, <1>6, <1>8, <1>9 DEF Following
<1> QED
  BY <1>3, <1>6, <1>7, <1>10 DEF ReadingBack

\* At the end of the scan every save has been passed.
LEMMA AllFound ==
  ASSUME IInv, checking, pc = "scan", slot > SLOTS
  PROVE  found = held
<1>1. found \in Seq(Saves) /\ held \in Seq(Saves) /\ slot \in 1 .. SLOTS + 1
      /\ placed \in Seq(Nat \X Nat)
  BY DEF IInv, TypeOK
<1>2. CASE kept = <<>>
  <2>1. /\ PackedSoFar /\ Len(found) = Passed(slot)
        /\ \A j \in 1 .. Len(found) : found[j] = held[j]
    BY <1>2 DEF IInv, ReadingBack
  <2>2. slot > Len(placed)
    <3>1. Len(placed) \in Nat /\ Len(placed) <= SLOTS
      BY <1>1, <2>1 DEF PackedSoFar
    <3> QED
      BY <3>1, <1>1, SlotsAssumption
  <2>3. Len(found) = Len(held)
    BY <2>1, <2>2 DEF Passed
  <2> QED
    BY <1>1, <2>1, <2>3, SeqEqual
<1>3. CASE kept # <<>>
  BY <1>3 DEF IInv, KeptIsEmpty
<1> QED
  BY <1>2, <1>3

LEMMA ReadingBackStep ==
  IInv /\ [Next]_vars /\ checking' /\ kept' = <<>> => pc' \in {"scan", "chain"} /\ ReadingBack'
<1> SUFFICES ASSUME IInv, [Next]_vars, checking', kept' = <<>>
             PROVE  pc' \in {"scan", "chain"} /\ ReadingBack'
  OBVIOUS
<1>0. Phases
  BY DEF IInv
<1>1. CASE FinishBuild
  BY <1>1, ReadBackStarts
<1>2. CASE ScanSlot
  <2>1. checking /\ kept = <<>>
    BY <1>2 DEF ScanSlot, bundleVars
  <2> QED
    BY <1>2, <2>1, ReadBackScans
<1>3. CASE EndChain
  BY <1>3, ReadBackFinds DEF EndChain
<1>4. CASE FollowLink
  BY <1>4, ReadBackFollows DEF FollowLink
<1>5. CASE RefuseChain
  BY <1>5, NeverRefusedReadingBack DEF RefuseChain, toolVars
<1>6. CASE CheckBack
  <2>1. found = held
    BY <1>6, AllFound DEF CheckBack
  <2> QED
    BY <1>6, <2>1 DEF CheckBack, PutAway, Drop
<1>7. CASE WriteImage
  BY <1>7 DEF WriteImage, bundleVars
<1>8. CASE Console \/ Open \/ Opened \/ Edit \/ StartBuild \/ RefuseSave \/ PlaceBlock
  <2>1. pc \in {"closed", "editing", "build"} \/ ~checking
    BY <1>8 DEF Console, ConsoleSave, ConsoleDelete, Decay, Open, Opened, Edit, RemoveSave, AddSave,
                StartBuild, RefuseSave, PlaceBlock
  <2>2. checking' = checking
    BY <1>8 DEF Console, ConsoleSave, ConsoleDelete, Decay, Open, Opened, Edit, RemoveSave, AddSave,
                StartBuild, RefuseSave, PlaceBlock, toolVars
  <2> QED
    BY <2>1, <2>2, <1>0 DEF Phases
<1>9. CASE Resume \/ Close
  BY <1>9 DEF Resume, Close, PutAway, Drop
<1>10. CASE UNCHANGED vars
  <2>1. UNCHANGED <<pc, checking, card, slot, chain, found, held, kept, image, saved, index, placed>>
    BY <1>10 DEF vars, toolVars, readVars, bundleVars, buildVars
  <2>2. pc \in {"scan", "chain"} /\ ReadingBack
    BY <2>1 DEF IInv
  <2>3. PackedSoFar' /\ \A b : Passed(b)' = Passed(b)
    BY <2>1, <2>2, SameLayout DEF ReadingBack
  <2>4. Passed(slot)' = Passed(slot)
    BY <2>1 DEF Passed
  <2> QED
    BY <2>1, <2>2, <2>3, <2>4 DEF ReadingBack, Following
<1> QED
  BY <1>1, <1>2, <1>3, <1>4, <1>5, <1>6, <1>7, <1>8, <1>9, <1>10 DEF Next, Read, Build, Check

LEMMA InductiveInv == Spec => []IInv
<1>1. IInv /\ [Next]_vars => IInv'
  BY TypeStep, PhasesStep, BuildingStep, ReadingBackStep, KeptStep DEF IInv
<1> QED
  BY InitIInv, <1>1, PTL DEF Spec

-----------------------------------------------------------------------------

\* The variables keep their types: block numbers stay on the card and every
\* link a card holds is one a card can hold, whatever it was read from.
THEOREM TypeCorrect == Spec => []TypeOK
<1>1. IInv => TypeOK
  BY DEF IInv
<1> QED
  BY <1>1, InductiveInv, PTL

\* follow_chain never walks a block twice, on any card, damaged or not.
THEOREM ChainsAreSimple == Spec => []ChainIsSimple
<1>1. IInv => ChainIsSimple
  BY DEF IInv, Phases, ChainIsSimple
<1> QED
  BY <1>1, InductiveInv, PTL

\* A card the builder made is never corrupt to the reader, whatever card the
\* saves were read off.
THEOREM RebuiltReads == Spec => []RebuiltIsSound
<1>1. IInv => RebuiltIsSound
  BY DEF IInv, Phases, RebuiltIsSound
<1> QED
  BY <1>1, InductiveInv, PTL

\* Every rebuilt card reads back as the saves it was built from, in order and
\* whole, so the check before the file is replaced never fails and never lets
\* anything else through.
THEOREM RebuiltIsTheSame == Spec => []ReadsBackTheSame
<1>1. IInv => ReadsBackTheSame
  BY AllFound DEF ReadsBackTheSame
<1> QED
  BY <1>1, InductiveInv, PTL
-----------------------------------------------------------------------------
(* What a console's firmware goes by on a card the builder made: each      *)
(* save's size is on its first entry alone and is the length of its chain. *)
(* PackedSoFar says what each block is from the block before it; Laid says it   *)
(* of the whole of the save the block is in, so that nothing is left to an *)
(* induction over the saves' lengths.                                      *)

\* In a layout p of l blocks, the first k blocks of save i come after block o.
\* So do the rest of its z[i] when it is one of the s saves finished; the one
\* being placed has x blocks down, from n on.
InRun(p, l, z, s, x, n, o, i, k) ==
    /\ k >= 1 /\ o >= 0 /\ i <= s + 1
    /\ \A j \in 1 .. k : p[o + j] = <<i, j>>
    /\ i = s + 1 => o + 1 = n /\ k <= x
    /\ i <= s => o + z[i] <= l /\ \A j \in 1 .. z[i] : p[o + j] = <<i, j>>

Sizes == [i \in 1 .. Len(held) |-> Len(held[i].data)]

Laid == \A b \in 1 .. Len(placed) :
          InRun(placed, Len(placed), Sizes, saved, index, nextBlock,
                b - placed[b][2], placed[b][1], placed[b][2])

SInv == IInv /\ (pc = "build" \/ (checking /\ kept = <<>>) => Laid)

-----------------------------------------------------------------------------
(* One block more: it is in the run of its save, and what was in a run is. *)

\* s2, x2 and n2 are what the builder's three counters are afterwards.
LEMMA NewRun ==
  ASSUME NEW q, NEW l \in Nat, NEW z, NEW s \in Nat, NEW x \in Nat, NEW n \in Nat,
         n >= 1, l = n + x - 1, z[s + 1] \in Nat, x < z[s + 1],
         NEW s2 \in Nat, NEW x2 \in Nat, NEW n2 \in Nat,
         IF x + 1 = z[s + 1] THEN s2 = s + 1 /\ x2 = 0 ELSE s2 = s /\ x2 = x + 1 /\ n2 = n,
         \A j \in 1 .. x + 1 : q[n - 1 + j] = <<s + 1, j>>
  PROVE  InRun(q, l + 1, z, s2, x2, n2, n - 1, s + 1, x + 1)
<1>1. n - 1 \in Nat /\ n - 1 + 1 = n /\ x + 1 \in Nat /\ s + 1 \in Nat
  OBVIOUS
<1>2. CASE x + 1 = z[s + 1]
  <2>1. s2 = s + 1 /\ n - 1 + z[s + 1] <= l + 1
    BY <1>2
  <2> QED
    BY <1>1, <1>2, <2>1 DEF InRun
<1>3. CASE x + 1 # z[s + 1]
  <2>1. s2 = s /\ x2 = x + 1 /\ n2 = n
    BY <1>3
  <2> QED
    BY <1>1, <2>1 DEF InRun
<1> QED
  BY <1>2, <1>3

LEMMA OldRun ==
  ASSUME NEW p, NEW q, NEW l \in Nat, NEW z, NEW s \in Nat, NEW x \in Nat, NEW n \in Nat,
         n >= 1, l = n + x - 1, z[s + 1] \in Nat, x < z[s + 1],
         NEW s2 \in Nat, NEW x2 \in Nat, NEW n2 \in Nat,
         IF x + 1 = z[s + 1] THEN s2 = s + 1 /\ x2 = 0 ELSE s2 = s /\ x2 = x + 1 /\ n2 = n,
         \A c \in 1 .. l : q[c] = p[c],
         \A j \in 1 .. x + 1 : q[n - 1 + j] = <<s + 1, j>>,
         NEW o \in Nat, NEW i \in Nat, NEW k \in Nat, o + k <= l, i <= s => z[i] \in Nat,
         InRun(p, l, z, s, x, n, o, i, k)
  PROVE  InRun(q, l + 1, z, s2, x2, n2, o, i, k)
<1>1. /\ k >= 1 /\ i <= s + 1 /\ i <= s2 + 1
      /\ \A j \in 1 .. k : q[o + j] = <<i, j>>
  <2>1. k >= 1 /\ i <= s + 1 /\ \A j \in 1 .. k : p[o + j] = <<i, j>>
    BY DEF InRun
  <2>2. \A j \in 1 .. k : o + j \in 1 .. l
    OBVIOUS
  <2>3. s2 >= s
    OBVIOUS
  <2> QED
    BY <2>1, <2>2, <2>3
<1>2. CASE i <= s
  <2>1. o + z[i] <= l /\ \A j \in 1 .. z[i] : p[o + j] = <<i, j>>
    BY <1>2 DEF InRun
  <2>2. \A j \in 1 .. z[i] : o + j \in 1 .. l
    BY <1>2, <2>1
  <2>3. \A j \in 1 .. z[i] : q[o + j] = <<i, j>>
    BY <2>1, <2>2
  <2>4. i # s2 + 1 /\ o + z[i] <= l + 1
    BY <1>2, <2>1
  <2> QED
    BY <1>1, <2>3, <2>4 DEF InRun
<1>3. CASE ~(i <= s)
  <2>1. i = s + 1 /\ o = n - 1 /\ o + 1 = n /\ k <= x
    BY <1>1, <1>3 DEF InRun
  <2>2. CASE x + 1 = z[s + 1]
    <3>1. i = s2 /\ i # s2 + 1 /\ z[i] = x + 1
      BY <2>1, <2>2
    <3>2. o + z[i] <= l + 1 /\ \A j \in 1 .. z[i] : q[o + j] = <<i, j>>
      BY <2>1, <3>1
    <3> QED
      BY <1>1, <3>1, <3>2 DEF InRun
  <2>3. CASE x + 1 # z[s + 1]
    <3>1. i = s2 + 1 /\ ~(i <= s2) /\ o + 1 = n2 /\ k <= x2
      BY <2>1, <2>3
    <3> QED
      BY <1>1, <3>1 DEF InRun
  <2> QED
    BY <2>2, <2>3
<1> QED
  BY <1>2, <1>3

LEMMA PlacingLays == IInv /\ PlaceBlock /\ Laid => Laid'
<1> SUFFICES ASSUME IInv, PlaceBlock, Laid PROVE Laid'
  OBVIOUS
<1> DEFINE L == Len(placed)
           n == nextBlock
           s == saved
           x == index
<1>1. /\ PackedSoFar /\ L = n + x - 1 /\ s < Len(held)
      /\ placed \in Seq(Nat \X Nat) /\ held \in Seq(Saves)
  BY DEF IInv, TypeOK, PlaceBlock, Building
<1>2. /\ Blocks \in Nat /\ x < Blocks
      /\ n \in Nat /\ n >= 1 /\ x \in Nat /\ s \in Nat /\ L \in Nat
  BY PlaceBlockFits, <1>1
<1>3. Sizes[s + 1] = Blocks /\ Sizes' = Sizes
  <2>1. s + 1 \in 1 .. Len(held) /\ Blocks = Len(held[s + 1].data)
    BY <1>1, <1>2 DEF Blocks, Save
  <2>2. held' = held
    BY DEF PlaceBlock, bundleVars
  <2> QED
    BY <2>1, <2>2 DEF Sizes
<1>4. placed' = Append(placed, <<s + 1, x + 1>>)
  BY DEF PlaceBlock
<1>5. /\ Len(placed') = L + 1 /\ placed'[L + 1] = <<s + 1, x + 1>>
      /\ \A c \in 1 .. L : placed'[c] = placed[c] /\ placed[c] \in Nat \X Nat
  BY <1>1, <1>2, <1>4
<1>6. /\ saved' \in Nat /\ index' \in Nat /\ nextBlock' \in Nat
      /\ IF x + 1 = Sizes[s + 1] THEN saved' = s + 1 /\ index' = 0
         ELSE saved' = s /\ index' = x + 1 /\ nextBlock' = n
  BY <1>2, <1>3 DEF PlaceBlock
<1>7. ASSUME x > 0 PROVE InRun(placed, L, Sizes, s, x, n, n - 1, s + 1, x)
  <2>1. L \in 1 .. L /\ L # 0 /\ L + 1 # 1
    BY <1>1, <1>2, <1>7
  <2>2. <<s + 1, x + 1>> = Succ(placed[L])
    <3>1. <<s + 1, x + 1>> = Due(L + 1)
      BY <1>1 DEF PackedSoFar
    <3>2. L + 1 - 1 = L
      BY <1>2
    <3> QED
      BY <2>1, <3>1, <3>2 DEF Due
  <2>3. placed[L] \in Nat \X Nat
    BY <1>5, <2>1
  <2>4. placed[L][1] = s + 1 /\ placed[L][2] = x
    BY <2>2, <2>3, <1>2, <1>7 DEF Succ
  <2>5. L - x = n - 1
    BY <1>1, <1>2
  <2> QED
    BY <2>1, <2>4, <2>5 DEF Laid
<1> HIDE DEF L, n, s, x
<1>8. \A j \in 1 .. x + 1 : placed'[n - 1 + j] = <<s + 1, j>>
  <2> SUFFICES ASSUME NEW j \in 1 .. x + 1 PROVE placed'[n - 1 + j] = <<s + 1, j>>
    OBVIOUS
  <2>1. CASE j = x + 1
    <3>1. n - 1 + j = L + 1
      BY <2>1, <1>1, <1>2
    <3> QED
      BY <2>1, <3>1, <1>5
  <2>2. CASE j # x + 1
    <3>1. x > 0 /\ j \in 1 .. x /\ n - 1 + j \in 1 .. L
      BY <2>2, <1>1, <1>2
    <3>2. placed[n - 1 + j] = <<s + 1, j>>
      BY <3>1, <1>7 DEF InRun
    <3> QED
      BY <3>1, <3>2, <1>5
  <2> QED
    BY <2>1, <2>2
<1>9. InRun(placed', L + 1, Sizes, saved', index', nextBlock', n - 1, s + 1, x + 1)
  BY <1>1, <1>2, <1>3, <1>6, <1>8, NewRun
<1>10. ASSUME NEW c \in 1 .. L
       PROVE  InRun(placed', L + 1, Sizes, saved', index', nextBlock',
                    c - placed[c][2], placed[c][1], placed[c][2])
  <2> DEFINE i == placed[c][1]
             k == placed[c][2]
  <2>1. i \in Nat /\ k \in Nat /\ c - k + k <= L
    BY <1>2, <1>5
  <2>2. InRun(placed, L, Sizes, s, x, n, c - k, i, k)
    BY DEF Laid, L, n, s, x
  <2>3. c - k \in Nat
    BY <2>1, <2>2 DEF InRun
  <2>4. i <= s => Sizes[i] \in Nat
    <3> SUFFICES ASSUME i <= s PROVE Sizes[i] \in Nat
      OBVIOUS
    <3>1. i \in 1 .. Len(held)
      BY <1>1 DEF PackedSoFar, IsPlaced, L
    <3>2. held[i] \in Saves
      BY <3>1, <1>1
    <3> QED
      BY <3>1, <3>2 DEF Sizes, Saves
  <2> HIDE DEF i, k
  <2> QED
    <3>1. \A b \in 1 .. L : placed'[b] = placed[b]
      BY <1>5
    <3>2. Sizes[s + 1] \in Nat /\ x < Sizes[s + 1] /\ L = n + x - 1
      BY <1>1, <1>2, <1>3
    <3>3. InRun(placed', L + 1, Sizes, saved', index', nextBlock', c - k, i, k)
      BY <1>2, <1>6, <1>8, <2>1, <2>2, <2>3, <2>4, <3>1, <3>2, OldRun, Zenon
    <3> QED
      BY <3>3 DEF i, k
<1>11. ASSUME NEW c \in 1 .. L + 1
       PROVE  InRun(placed', L + 1, Sizes, saved', index', nextBlock',
                    c - placed'[c][2], placed'[c][1], placed'[c][2])
  <2>1. CASE c = L + 1
    <3>1. placed'[c][1] = s + 1 /\ placed'[c][2] = x + 1 /\ c - placed'[c][2] = n - 1
      BY <2>1, <1>1, <1>2, <1>5
    <3> QED
      BY <3>1, <1>9
  <2>2. CASE c # L + 1
    <3>1. c \in 1 .. L
      BY <2>2, <1>2
    <3>2. placed'[c] = placed[c]
      BY <3>1, <1>5
    <3> QED
      BY <3>1, <3>2, <1>10
  <2> QED
    BY <2>1, <2>2
<1> QED
  BY <1>3, <1>5, <1>11 DEF Laid

LEMMA SameRuns ==
  ASSUME Laid, UNCHANGED <<placed, held, saved, index, nextBlock>>
  PROVE  Laid'
<1>1. Sizes' = Sizes
  BY DEF Sizes
<1> QED
  BY <1>1 DEF Laid

-----------------------------------------------------------------------------
(* The layout stays as it was laid until the card built from it is read.   *)

LEMMA LaidStep ==
  IInv /\ SInv /\ [Next]_vars /\ (pc' = "build" \/ (checking' /\ kept' = <<>>)) => Laid'
<1> SUFFICES ASSUME IInv, SInv, [Next]_vars, pc' = "build" \/ (checking' /\ kept' = <<>>)
             PROVE  Laid'
  OBVIOUS
<1>0. Phases /\ (pc = "build" \/ (checking /\ kept = <<>>) => Laid)
  BY DEF IInv, SInv
<1>1. CASE StartBuild
  BY <1>1 DEF StartBuild, Laid
<1>2. CASE PlaceBlock
  BY <1>2, <1>0, PlacingLays DEF PlaceBlock
<1>3. CASE FinishBuild
  BY <1>3, <1>0, SameRuns DEF FinishBuild, bundleVars
<1>4. CASE Read \/ UNCHANGED vars
  <2>1. /\ UNCHANGED <<placed, saved, index, nextBlock, checking>>
        /\ pc' = "build" => pc = "build"
        /\ ~Opened => UNCHANGED <<held, kept>>
    BY <1>4 DEF Read, ScanSlot, EndChain, FollowLink, RefuseChain, Opened, vars, toolVars,
                bundleVars, buildVars
  <2>2. ~Opened
    BY <2>1 DEF Opened
  <2> QED
    BY <2>1, <2>2, <1>0, SameRuns
<1>5. CASE CheckBack
  <2>1. pc' # "build" /\ (checking' => UNCHANGED <<placed, held, saved, index, nextBlock, kept, checking>>)
    BY <1>5 DEF CheckBack, PutAway, Drop, toolVars, bundleVars, buildVars
  <2> QED
    BY <2>1, <1>0, SameRuns
<1>6. CASE Console \/ Open \/ Edit
  BY <1>6, <1>0 DEF Console, ConsoleSave, ConsoleDelete, Decay, Open, Edit, RemoveSave, AddSave,
                    toolVars, Phases
<1>7. CASE RefuseSave
  BY <1>7, <1>0 DEF RefuseSave, toolVars, Phases
<1>8. CASE WriteImage \/ Resume \/ Close
  BY <1>8 DEF WriteImage, Resume, Close, PutAway, Drop, bundleVars
<1> QED
  BY <1>1, <1>2, <1>3, <1>4, <1>5, <1>6, <1>7, <1>8 DEF Next, Build, Check

LEMMA InductiveSizes == Spec => []SInv
<1>1. Init => SInv
  BY InitIInv DEF Init, SInv
<1>2. SInv /\ [Next]_vars => SInv'
  <2>1. SInv => IInv
    BY DEF SInv
  <2>2. IInv /\ [Next]_vars => IInv'
    BY TypeStep, PhasesStep, BuildingStep, ReadingBackStep, KeptStep DEF IInv
  <2> QED
    BY <2>1, <2>2, LaidStep DEF SInv
<1> QED
  BY <1>1, <1>2, PTL DEF Spec

-----------------------------------------------------------------------------
(* What a directory entry of the finished card says of the save it is in.  *)

\* Block b is of save i, whose n blocks are the ones after block o.
LEMMA WholeSave ==
  ASSUME SInv, checking, kept = <<>>, NEW b \in 1 .. Len(placed)
  PROVE  \E i \in 1 .. Len(held), n \in Nat, k \in Nat, o \in Nat :
           /\ k \in 1 .. n /\ n = Len(held[i].data) /\ b = o + k /\ o + n <= SLOTS
           /\ \A j \in 1 .. n : image.dir[o + j] = Entry(i, j, o + j)
<1>1. /\ PackedSoFar /\ saved = Len(held) /\ Laid
      /\ placed \in Seq(Nat \X Nat) /\ held \in Seq(Saves) /\ Len(placed) <= SLOTS
  <2>1. TypeOK /\ ReadingBack /\ Laid
    BY DEF SInv, IInv
  <2> QED
    BY <2>1 DEF TypeOK, ReadingBack, PackedSoFar
<1>2. PICK i \in Nat, k \in Nat : placed[b] = <<i, k>>
  <2>1. placed[b] \in Nat \X Nat
    <3>1. placed \in Seq(Nat \X Nat)
      BY <1>1
    <3> QED
      BY <3>1
  <2> QED
    BY <2>1
<1>3. i \in 1 .. Len(held) /\ k \in 1 .. Len(held[i].data)
  <2>1. IsPlaced(b, <<i, k>>)
    BY <1>1, <1>2 DEF PackedSoFar
  <2> QED
    BY <2>1 DEF IsPlaced
<1>4. PICK n \in Nat : n = Len(held[i].data)
  <2>1. held[i] \in Saves
    BY <1>1, <1>3
  <2> QED
    BY <2>1 DEF Saves
<1>5. InRun(placed, Len(placed), Sizes, saved, index, nextBlock, b - k, i, k)
  BY <1>1, <1>2 DEF Laid
<1>6. PICK o \in Nat : o = b - k
  BY <1>5 DEF InRun
<1>7. Sizes[i] = n /\ i <= saved
  BY <1>1, <1>3, <1>4 DEF Sizes
<1>8. o + n <= Len(placed) /\ \A j \in 1 .. n : placed[o + j] = <<i, j>>
  BY <1>5, <1>6, <1>7 DEF InRun
<1>9. ASSUME NEW j \in 1 .. n PROVE image.dir[o + j] = Entry(i, j, o + j)
  <2>1. o + j \in 1 .. Len(placed) /\ placed[o + j] = <<i, j>>
    <3>1. Len(placed) \in Nat /\ o + n <= Len(placed)
      BY <1>1, <1>8
    <3>2. o + j \in 1 .. Len(placed)
      BY <3>1
    <3> QED
      BY <1>8, <3>2
  <2>2. IsPlaced(o + j, <<i, j>>)
    BY <2>1, <1>1 DEF PackedSoFar
  <2> QED
    BY <2>2 DEF IsPlaced
<1>10. k \in 1 .. n /\ b = o + k /\ o + n <= SLOTS
  <2>1. k \in 1 .. n
    BY <1>3, <1>4
  <2>2. b \in Nat /\ Len(placed) \in Nat
    BY <1>1
  <2>3. b = o + k
    BY <1>2, <1>6, <2>2
  <2>4. o + n <= SLOTS
    BY <1>1, <1>8, <2>2, SlotsAssumption
  <2> QED
    BY <2>1, <2>3, <2>4
<1>11. /\ k \in 1 .. n /\ n = Len(held[i].data) /\ b = o + k /\ o + n <= SLOTS
       /\ \A j \in 1 .. n : image.dir[o + j] = Entry(i, j, o + j)
  BY <1>4, <1>9, <1>10
<1>12. i \in 1 .. Len(held)
  BY <1>3
<1> QED
  BY <1>11, <1>12, ZenonT(30)

LEMMA SizesFollow == SInv => SizesAgree
<1> SUFFICES ASSUME SInv, checking, kept = <<>>, NEW b \in Slots
             PROVE  LET firsts == {c \in Slots : image.dir[c].state = "FIRST"}
                        next(c) == image.dir[c].link + 1
                        e == image.dir[b]
                    IN CASE e.state = "FIRST" ->
                              /\ e.size >= 1
                              /\ \A t \in 0 .. e.size - 1 : LET at == b + t IN
                                   /\ t < e.size - 1 => next(at) = at + 1
                                   /\ t = e.size - 1 => image.dir[at].link = NO_NEXT
                                   /\ t > 0 => image.dir[at].state \in {"MIDDLE", "LAST"}
                         [] e.state = "FREE" -> e = FreeEntry
                         [] OTHER -> e.size = 0 /\ \E f \in firsts :
                                       f < b /\ b < f + image.dir[f].size
  BY DEF SizesAgree
<1>1. CASE b > Len(placed)
  <2>1. image.dir[b] = FreeEntry
    BY <1>1 DEF SInv, IInv, ReadingBack, PackedSoFar
  <2> QED
    BY <2>1 DEF FreeEntry
<1>2. CASE ~(b > Len(placed))
  <2>1. b \in 1 .. Len(placed)
    <3>1. placed \in Seq(Nat \X Nat)
      BY DEF SInv, IInv, TypeOK
    <3> QED
      BY <3>1, <1>2 DEF Slots
  <2>2. PICK i \in 1 .. Len(held), n \in Nat, k \in Nat, o \in Nat :
           /\ k \in 1 .. n /\ n = Len(held[i].data) /\ b = o + k /\ o + n <= SLOTS
           /\ \A j \in 1 .. n : image.dir[o + j] = Entry(i, j, o + j)
    BY <2>1, WholeSave
  <2>3. ASSUME NEW j \in 1 .. n
        PROVE  /\ image.dir[o + j].state =
                    IF j = 1 THEN "FIRST" ELSE IF j = n THEN "LAST" ELSE "MIDDLE"
               /\ image.dir[o + j].size = IF j = 1 THEN n ELSE 0
               /\ image.dir[o + j].link = IF j = n THEN NO_NEXT ELSE o + j
    <3>1. image.dir[o + j] = Entry(i, j, o + j)
      BY <2>2
    <3>2. /\ Entry(i, j, o + j).state =
                IF j = 1 THEN "FIRST" ELSE IF j = n THEN "LAST" ELSE "MIDDLE"
          /\ Entry(i, j, o + j).size = IF j = 1 THEN n ELSE 0
          /\ Entry(i, j, o + j).link = IF j = n THEN NO_NEXT ELSE o + j
      BY <2>2 DEF Entry
    <3> QED
      BY <3>1, <3>2, Zenon
  <2>a. n >= 1 /\ k \in 1 .. n /\ b = o + k
    BY <2>2
  <2>4. CASE k = 1
    <3>1. /\ image.dir[b].state = "FIRST" /\ image.dir[b].size = n /\ n >= 1
      <4>1. 1 \in 1 .. n /\ image.dir[b] = image.dir[o + 1]
        BY <2>a, <2>4
      <4> QED
        BY <4>1, <2>3
    <3>2. ASSUME NEW t \in 0 .. n - 1
          PROVE  /\ t < n - 1 => image.dir[b + t].link + 1 = b + t + 1
                 /\ t = n - 1 => image.dir[b + t].link = NO_NEXT
                 /\ t > 0 => image.dir[b + t].state \in {"MIDDLE", "LAST"}
      <4>1. PICK j \in 1 .. n : j = t + 1
        BY <2>2
      <4>2. image.dir[b + t] = image.dir[o + j] /\ b + t = o + j
        BY <2>a, <2>4, <4>1
      <4>3. /\ j = n => image.dir[o + j].link = NO_NEXT
            /\ j # n => image.dir[o + j].link = o + j
            /\ j # 1 => image.dir[o + j].state \in {"MIDDLE", "LAST"}
        BY <2>3
      <4> QED
        BY <4>1, <4>2, <4>3
    <3> QED
      BY <3>1, <3>2
  <2>5. CASE k # 1
    <3>1. image.dir[b].size = 0 /\ image.dir[b].state \in {"MIDDLE", "LAST"}
      <4>1. image.dir[b] = image.dir[o + k]
        BY <2>a
      <4> QED
        BY <4>1, <2>a, <2>3, <2>5
    <3>2. PICK f \in Slots : f = o + 1
      BY <2>2, SlotsAssumption DEF Slots
    <3>3. image.dir[f].state = "FIRST" /\ image.dir[f].size = n
      <4>1. 1 \in 1 .. n
        BY <2>2
      <4> QED
        BY <4>1, <2>3, <3>2
    <3>4. f < b /\ b < f + n
      BY <2>a, <2>5, <3>2
    <3> QED
      BY <3>1, <3>3, <3>4
  <2> QED
    BY <2>4, <2>5
<1> QED
  BY <1>1, <1>2

\* What the console's firmware goes by on a rebuilt card: a save's size is on its
\* first entry alone and is the length of its chain, and every other entry in
\* use is in the chain of one save, however fragmented the card read was.
THEOREM SizesFollowChains == Spec => []SizesAgree
  BY InductiveSizes, SizesFollow, PTL

-----------------------------------------------------------------------------
(* The ways along links: what a reader follows and a console goes by.      *)

InUse == {"FIRST", "MIDDLE", "LAST"}

\* A way as far as it has been followed.
OnWay(dir, first, way) ==
    /\ way \in Seq(Slots) /\ way # <<>> /\ Injective(way) /\ way[1] = first
    /\ \A i \in 2 .. Len(way) : /\ dir[way[i - 1]].link = way[i] - 1
                               /\ dir[way[i]].state \in {"MIDDLE", "LAST"}

\* A list of slots that has none of them twice is no longer than the card.
LEMMA RouteIs ==
  ASSUME NEW way
  PROVE  way \in Routes <=> way \in Seq(Slots) /\ way # <<>> /\ Injective(way)
<1>0. SLOTS \in Nat
  BY SlotsAssumption
<1>1. ASSUME way \in Routes PROVE way \in Seq(Slots) /\ way # <<>> /\ Injective(way)
  <2>1. PICK n \in Slots : way \in [1 .. n -> Slots] /\ Injective(way)
    BY <1>1 DEF Routes, BlockLists
  <2>2. n \in Nat /\ n >= 1
    BY <1>0 DEF Slots
  <2>3. way \in Seq(Slots) /\ Len(way) = n
    BY <2>1, <2>2, ListOf
  <2> QED BY <2>1, <2>2, <2>3
<1>2. ASSUME way \in Seq(Slots), way # <<>>, Injective(way) PROVE way \in Routes
  <2> DEFINE n == Len(way)
  <2>1. n \in Nat /\ n >= 1 /\ way \in [1 .. n -> Slots]
    BY <1>2
  <2>2. n <= SLOTS
    <3> SUFFICES ASSUME n > SLOTS PROVE FALSE
      BY <2>1, <1>0
    <3> HIDE DEF n
    <3>1. IsFiniteSet(1 .. n) /\ Cardinality(1 .. n) = n
      BY <2>1, FS_Interval
    <3>2. IsFiniteSet(1 .. SLOTS) /\ Cardinality(1 .. SLOTS) = SLOTS
      <4>1. IsFiniteSet(1 .. SLOTS) /\ Cardinality(1 .. SLOTS) = IF 1 > SLOTS THEN 0 ELSE SLOTS - 1 + 1
        BY <1>0, FS_Interval
      <4> QED BY <4>1, <1>0
    <3> DEFINE S == 1 .. n
    <3>3. IsFiniteSet(S) /\ IsFiniteSet(Slots) /\ Cardinality(Slots) < Cardinality(S) /\ way \in [S -> Slots]
      BY <3>1, <3>2, <2>1, <1>0 DEF Slots
    <3> HIDE DEF S
    <3>4. \E x, y \in S : x # y /\ way[x] = way[y]
      BY <3>3, FS_PigeonHole
    <3> QED BY <3>4, <2>1, <1>2 DEF Injective, S
  <2>3. n \in Slots
    BY <2>1, <2>2, <1>0 DEF Slots
  <2>4. way \in BlockLists(n)
    BY <2>1, <1>2 DEF BlockLists
  <2> HIDE DEF n
  <2> QED BY <2>3, <2>4 DEF Routes
<1> QED BY <1>1, <1>2

LEMMA WayIs ==
  ASSUME NEW dir, NEW first, NEW way
  PROVE  way \in Ways(dir, first) <=> OnWay(dir, first, way) /\ dir[way[Len(way)]].link = NO_NEXT
BY RouteIs DEF Ways, OnWay

\* There is one way at the most to the end of a save.
LEMMA OneWay ==
  ASSUME NEW dir, NEW first, NEW v \in Ways(dir, first), NEW w \in Ways(dir, first)
  PROVE  v = w
<1>0. SLOTS \in Nat /\ SLOTS < 65535
  BY SlotsAssumption
<1>1. /\ OnWay(dir, first, v) /\ dir[v[Len(v)]].link = NO_NEXT
      /\ OnWay(dir, first, w) /\ dir[w[Len(w)]].link = NO_NEXT
  BY WayIs
<1>2. /\ v \in Seq(Slots) /\ w \in Seq(Slots) /\ v # <<>> /\ w # <<>>
      /\ v[1] = first /\ w[1] = first
      /\ \A i \in 2 .. Len(v) : dir[v[i - 1]].link = v[i] - 1
      /\ \A i \in 2 .. Len(w) : dir[w[i - 1]].link = w[i] - 1
  BY <1>1 DEF OnWay
<1>3. /\ Len(v) \in Nat /\ Len(w) \in Nat /\ Len(v) >= 1 /\ Len(w) >= 1
      /\ \A i \in 1 .. Len(v) : v[i] \in Slots
      /\ \A i \in 1 .. Len(w) : w[i] \in Slots
  BY <1>2
<1> DEFINE D == {i \in Nat : i \in 1 .. Len(v) /\ i \in 1 .. Len(w) /\ v[i] # w[i]}
<1>4. ASSUME NEW i \in 1 .. Len(v), i \in 1 .. Len(w) PROVE v[i] = w[i]
  <2> SUFFICES ASSUME D # {} PROVE FALSE
    BY <1>3, <1>4
  <2>1. PICK m \in D : \A d \in D : m <= d
    <3>1. D \subseteq Nat
      OBVIOUS
    <3> HIDE DEF D
    <3> QED BY <3>1, LeastNat
  <2>2. m \in 2 .. Len(v) /\ m \in 2 .. Len(w) /\ m - 1 \in Nat /\ m - 1 \notin D
    <3>1. m \in Nat /\ m \in 1 .. Len(v) /\ m \in 1 .. Len(w) /\ v[m] # w[m]
      OBVIOUS
    <3>2. m # 1
      BY <3>1, <1>2
    <3> HIDE DEF D
    <3>3. m - 1 \notin D
      BY <2>1, <3>1
    <3> QED BY <3>1, <3>2, <3>3, <1>3
  <2>3. v[m - 1] = w[m - 1]
    BY <2>2, <1>3
  <2>4. v[m] - 1 = w[m] - 1
    BY <2>2, <2>3, <1>2
  <2>5. v[m] \in Slots /\ w[m] \in Slots
    BY <2>2, <1>3
  <2>6. v[m] = w[m]
    BY <2>4, <2>5, <1>0 DEF Slots
  <2> QED BY <2>1, <2>6
<1> HIDE DEF D
<1>5. ~(Len(v) < Len(w))
  <2> SUFFICES ASSUME Len(v) < Len(w) PROVE FALSE
    OBVIOUS
  <2> DEFINE l == Len(v)
  <2>1. l + 1 \in 2 .. Len(w) /\ l \in 1 .. Len(v) /\ l \in 1 .. Len(w) /\ (l + 1) - 1 = l
    BY <1>3
  <2> HIDE DEF l
  <2>2. v[l] = w[l] /\ dir[v[l]].link = NO_NEXT
    BY <2>1, <1>1, <1>4 DEF l
  <2>3. dir[w[l]].link = w[l + 1] - 1 /\ w[l + 1] \in Slots
    BY <2>1, <1>2, <1>3
  <2> QED BY <2>2, <2>3, <1>0 DEF Slots, NO_NEXT
<1>6. ~(Len(w) < Len(v))
  <2> SUFFICES ASSUME Len(w) < Len(v) PROVE FALSE
    OBVIOUS
  <2> DEFINE l == Len(w)
  <2>1. l + 1 \in 2 .. Len(v) /\ l \in 1 .. Len(w) /\ l \in 1 .. Len(v) /\ (l + 1) - 1 = l
    BY <1>3
  <2> HIDE DEF l
  <2>2. v[l] = w[l] /\ dir[w[l]].link = NO_NEXT
    BY <2>1, <1>1, <1>4 DEF l
  <2>3. dir[v[l]].link = v[l + 1] - 1 /\ v[l + 1] \in Slots
    BY <2>1, <1>2, <1>3
  <2> QED BY <2>2, <2>3, <1>0 DEF Slots, NO_NEXT
<1>7. Len(v) = Len(w)
  BY <1>3, <1>5, <1>6
<1> QED BY <1>2, <1>3, <1>4, <1>7, ListsEqual

\* So what is on it is the save.
LEMMA SaveIs ==
  ASSUME NEW c, NEW first, NEW way \in Ways(c.dir, first)
  PROVE  SaveAt(c, first) = [name |-> c.dir[first].name, data |-> [j \in DOMAIN way |-> c.data[way[j]]]]
<1> DEFINE w == CHOOSE w \in Ways(c.dir, first) : TRUE
<1>1. w \in Ways(c.dir, first)
  OBVIOUS
<1>2. SaveAt(c, first) = [name |-> c.dir[first].name, data |-> [j \in DOMAIN w |-> c.data[w[j]]]]
  BY DEF SaveAt
<1> HIDE DEF w
<1>3. w = way
  BY <1>1, OneWay
<1> QED BY <1>2, <1>3

\* A card's saves are saves.
LEMMA SaveAtType ==
  ASSUME NEW c \in Cards, NEW first \in Slots, Ways(c.dir, first) # {}
  PROVE  SaveAt(c, first) \in Saves
<1>1. PICK way : way \in Ways(c.dir, first)
  OBVIOUS
<1>2. way \in Seq(Slots)
  BY <1>1, WayIs DEF OnWay
<1> DEFINE data == [j \in DOMAIN way |-> c.data[way[j]]]
<1>3. data \in Seq(Contents \cup {Zeros})
  <2>1. /\ c.data \in [Slots -> Contents \cup {Zeros}] /\ Len(way) \in Nat /\ DOMAIN way = 1 .. Len(way)
        /\ \A j \in 1 .. Len(way) : way[j] \in Slots
    BY <1>2 DEF Cards
  <2>2. data \in [1 .. Len(way) -> Contents \cup {Zeros}]
    BY <2>1
  <2> HIDE DEF data
  <2> QED BY <2>1, <2>2, ListOf
<1>4. c.dir[first].name \in Names \cup {NoName}
  BY DEF Cards, Entries
<1>5. SaveAt(c, first) = [name |-> c.dir[first].name, data |-> data]
  BY <1>1, SaveIs
<1> HIDE DEF data
<1> QED BY <1>3, <1>4, <1>5 DEF Saves

-----------------------------------------------------------------------------
(* What has been read of a card, in directory order.                       *)

At(c) == [b \in Slots |-> SaveAt(c, b)]
Sofar(c, b) ==
    LET firsts == Picked(SLOTS, Firsts(c))[b - 1] IN [i \in DOMAIN firsts |-> At(c)[firsts[i]]]

\* What there is of each of a list, and of one more.
LEMMA EachAppend ==
  ASSUME NEW S, NEW f \in Seq(S), NEW x \in S, NEW rec
  PROVE  [i \in DOMAIN Append(f, x) |-> rec[Append(f, x)[i]]] = Append([i \in DOMAIN f |-> rec[f[i]]], rec[x])
<1> DEFINE T == {rec[s] : s \in S}
           g == Append(f, x)
           a == [i \in DOMAIN f |-> rec[f[i]]]
           b == [i \in DOMAIN g |-> rec[g[i]]]
           n == Len(f)
<1>1. /\ n \in Nat /\ g \in Seq(S) /\ Len(g) = n + 1 /\ g[n + 1] = x
      /\ \A i \in 1 .. n : g[i] = f[i]
  OBVIOUS
<1>2. \A s \in S : rec[s] \in T
  OBVIOUS
<1>3. DOMAIN f = 1 .. n /\ DOMAIN g = 1 .. n + 1 /\ (\A i \in 1 .. n : f[i] \in S) /\ (\A i \in 1 .. n + 1 : g[i] \in S)
  BY <1>1
<1> HIDE DEF T, g, n
<1>4. a \in Seq(T) /\ Len(a) = n
  <2>1. a \in [1 .. n -> T]
    BY <1>2, <1>3
  <2> HIDE DEF a
  <2> QED BY <1>1, <2>1, ListOf
<1>5. b \in Seq(T) /\ Len(b) = n + 1
  <2>1. b \in [1 .. n + 1 -> T] /\ n + 1 \in Nat
    BY <1>1, <1>2, <1>3
  <2> HIDE DEF b
  <2> QED BY <2>1, ListOf
<1>6. \A i \in 1 .. n : a[i] = rec[f[i]]
  BY <1>3
<1>7. \A i \in 1 .. n + 1 : b[i] = rec[g[i]]
  BY <1>3
<1> HIDE DEF a, b
<1>8. Append(a, rec[x]) \in Seq(T) /\ Len(Append(a, rec[x])) = n + 1
  BY <1>2, <1>4
<1>9. ASSUME NEW i \in 1 .. n + 1 PROVE b[i] = Append(a, rec[x])[i]
  BY <1>1, <1>4, <1>6, <1>7
<1>10. b = Append(a, rec[x])
  BY <1>5, <1>8, <1>9, ListsEqual
<1> QED BY <1>10 DEF a, b, g

LEMMA SofarIs ==
  ASSUME NEW c
  PROVE  /\ Sofar(c, 1) = <<>>
         /\ \A b \in Slots : Sofar(c, b + 1) = IF b \in Firsts(c) THEN Append(Sofar(c, b), SaveAt(c, b)) ELSE Sofar(c, b)
         /\ Reads(c) => Contained(c) = Sofar(c, SLOTS + 1)
         /\ Reads(c) => Contained(c) = Listing(SLOTS, Firsts(c), At(c))
<1> DEFINE S == Firsts(c)
           g == Picked(SLOTS, S)
<1>0. SLOTS \in Nat /\ SLOTS >= 1
  BY SlotsAssumption
<1>1. /\ g \in [0 .. SLOTS -> Seq(1 .. SLOTS)] /\ g[0] = <<>> /\ InOrder(SLOTS, S) = g[SLOTS]
      /\ \A n \in 1 .. SLOTS : g[n] = IF n \in S THEN Append(g[n - 1], n) ELSE g[n - 1]
  BY <1>0, PickedIsThere
<1>2. \A b : Sofar(c, b) = [i \in DOMAIN g[b - 1] |-> At(c)[g[b - 1][i]]]
  BY DEF Sofar
<1> HIDE DEF g
<1>3. Sofar(c, 1) = <<>>
  <2>1. Sofar(c, 1) = [i \in DOMAIN <<>> |-> At(c)[<<>>[i]]]
    BY <1>1, <1>2
  <2> QED BY <2>1
<1>4. ASSUME NEW b \in Slots
      PROVE  Sofar(c, b + 1) = IF b \in S THEN Append(Sofar(c, b), SaveAt(c, b)) ELSE Sofar(c, b)
  <2>1. b \in 1 .. SLOTS /\ (b + 1) - 1 = b /\ b - 1 \in 0 .. SLOTS
    BY <1>0 DEF Slots
  <2>2. g[b] = IF b \in S THEN Append(g[b - 1], b) ELSE g[b - 1]
    BY <2>1, <1>1
  <2>3. Sofar(c, b + 1) = [i \in DOMAIN g[b] |-> At(c)[g[b][i]]]
    BY <2>1, <1>2
  <2>4. g[b - 1] \in Seq(1 .. SLOTS)
    BY <2>1, <1>1
  <2>5. At(c)[b] = SaveAt(c, b)
    BY DEF At
  <2>6. CASE b \in S
    <3> DEFINE f == g[b - 1]
    <3>1. g[b] = Append(f, b) /\ f \in Seq(1 .. SLOTS)
      BY <2>2, <2>4, <2>6
    <3>2. Sofar(c, b) = [i \in DOMAIN f |-> At(c)[f[i]]]
      BY <1>2
    <3>3. Sofar(c, b + 1) = [i \in DOMAIN Append(f, b) |-> At(c)[Append(f, b)[i]]]
      BY <2>3, <3>1
    <3> HIDE DEF f
    <3>4. Sofar(c, b + 1) = Append(Sofar(c, b), At(c)[b])
      BY SMTT(30), <2>1, <3>1, <3>2, <3>3, EachAppend
    <3> QED BY <2>5, <2>6, <3>4
  <2>7. CASE b \notin S
    BY <2>2, <2>3, <2>7, <1>2
  <2> QED BY <2>6, <2>7
<1>5. ASSUME Reads(c) PROVE Contained(c) = Sofar(c, SLOTS + 1) /\ Contained(c) = Listing(SLOTS, S, At(c))
  <2>1. (SLOTS + 1) - 1 = SLOTS
    BY <1>0
  <2> DEFINE f == g[SLOTS]
  <2>2. f \in Seq(Slots)
    BY <1>0, <1>1 DEF Slots
  <2>3. Contained(c) = [i \in DOMAIN f |-> SaveAt(c, f[i])]
    BY <1>1, <1>5 DEF Contained
  <2>4. Sofar(c, SLOTS + 1) = [i \in DOMAIN f |-> At(c)[f[i]]] /\ Listing(SLOTS, S, At(c)) = [i \in DOMAIN f |-> At(c)[f[i]]]
    <3>1. Sofar(c, SLOTS + 1) = [i \in DOMAIN g[(SLOTS + 1) - 1] |-> At(c)[g[(SLOTS + 1) - 1][i]]]
      BY <1>2
    <3>2. Listing(SLOTS, S, At(c)) = [i \in DOMAIN InOrder(SLOTS, S) |-> At(c)[InOrder(SLOTS, S)[i]]]
      BY DEF Listing
    <3> QED BY <3>1, <3>2, <1>1, <2>1
  <2> HIDE DEF f
  <2>5. \A i \in DOMAIN f : At(c)[f[i]] = SaveAt(c, f[i])
    <3>1. \A i \in DOMAIN f : f[i] \in Slots
      BY <2>2
    <3> QED BY <3>1 DEF At
  <2> QED BY <2>3, <2>4, <2>5
<1> QED BY <1>3, <1>4, <1>5

\* What a card that reads holds.
LEMMA ContainedType ==
  ASSUME NEW c \in Cards, Reads(c)
  PROVE  Contained(c) \in Seq(Saves) /\ Contained(c) # Unreadable
<1>0. SLOTS \in Nat /\ Firsts(c) \in SUBSET (1 .. SLOTS)
  BY SlotsAssumption DEF Firsts, Slots
<1>1. \A b \in Firsts(c) : At(c)[b] \in Saves
  BY SaveAtType DEF Reads, Firsts, At
<1>2. Of(Listing(SLOTS, Firsts(c), At(c)), InOrder(SLOTS, Firsts(c)), SLOTS, Firsts(c), At(c), Saves)
  BY <1>0, <1>1, ListingIs
<1>3. Contained(c) \in Seq(Saves)
  BY <1>2, SofarIs DEF Of
<1> QED BY <1>3, UnreadableAssumption

-----------------------------------------------------------------------------
(* What a console does to a card that is whole.                            *)

\* No two links of the saves there are lead to one block, and none to a block
\* that is in no save: what an allocator keeps to, and a worn card may not.
LeadsOn(dir, b) ==
    dir[b].state \in InUse /\ dir[b].link # NO_NEXT =>
        dir[b].link + 1 \in Slots /\ dir[dir[b].link + 1].state \in {"MIDDLE", "LAST"}
LeadsAlone(dir, a, b) ==
    /\ dir[a].state \in InUse /\ dir[b].state \in InUse
    /\ dir[a].link = dir[b].link /\ dir[a].link # NO_NEXT
    => a = b
Led(dir) == (\A b \in Slots : LeadsOn(dir, b)) /\ (\A a, b \in Slots : LeadsAlone(dir, a, b))
Tidy(c) == Reads(c) /\ Led(c.dir)

\* A save's blocks are all in use, each linked to the next.
LEMMA WayUses ==
  ASSUME NEW dir, NEW first, NEW way, OnWay(dir, first, way), dir[first].state = "FIRST"
  PROVE  /\ way \in Seq(Slots) /\ Len(way) \in Nat /\ Len(way) >= 1 /\ way[1] = first
         /\ \A i \in 1 .. Len(way) : way[i] \in Slots /\ dir[way[i]].state \in InUse
         /\ \A i \in 2 .. Len(way) : dir[way[i - 1]].link = way[i] - 1 /\ dir[way[i - 1]].link # NO_NEXT
<1>0. SLOTS \in Nat /\ SLOTS < 65535
  BY SlotsAssumption
<1>1. /\ way \in Seq(Slots) /\ way # <<>> /\ way[1] = first
      /\ \A i \in 2 .. Len(way) : dir[way[i - 1]].link = way[i] - 1 /\ dir[way[i]].state \in {"MIDDLE", "LAST"}
  BY DEF OnWay
<1>2. Len(way) \in Nat /\ Len(way) >= 1 /\ \A i \in 1 .. Len(way) : way[i] \in Slots
  BY <1>1
<1>3. ASSUME NEW i \in 1 .. Len(way) PROVE dir[way[i]].state \in InUse
  <2>1. i = 1 \/ i \in 2 .. Len(way)
    BY <1>2
  <2> QED BY <2>1, <1>1 DEF InUse
<1>4. ASSUME NEW i \in 2 .. Len(way) PROVE way[i] - 1 # NO_NEXT
  <2>1. way[i] \in Slots
    BY <1>2
  <2> QED BY <2>1, <1>0 DEF Slots, NO_NEXT
<1> QED BY <1>1, <1>2, <1>3, <1>4

\* No two saves share a block.
LEMMA WaysApart ==
  ASSUME NEW dir, Led(dir),
         NEW f, NEW v, OnWay(dir, f, v), dir[f].state = "FIRST",
         NEW g, NEW w, OnWay(dir, g, w), dir[g].state = "FIRST", f # g
  PROVE  \A i \in 1 .. Len(v), j \in 1 .. Len(w) : v[i] # w[j]
<1>1. /\ Len(v) \in Nat /\ Len(v) >= 1 /\ v[1] = f
      /\ \A i \in 1 .. Len(v) : v[i] \in Slots /\ dir[v[i]].state \in InUse
      /\ \A i \in 2 .. Len(v) : dir[v[i - 1]].link = v[i] - 1 /\ dir[v[i - 1]].link # NO_NEXT
  BY WayUses
<1>2. /\ Len(w) \in Nat /\ Len(w) >= 1 /\ w[1] = g
      /\ \A i \in 1 .. Len(w) : w[i] \in Slots /\ dir[w[i]].state \in InUse
      /\ \A i \in 2 .. Len(w) : dir[w[i - 1]].link = w[i] - 1 /\ dir[w[i - 1]].link # NO_NEXT
  BY WayUses
<1>3. /\ \A i \in 2 .. Len(v) : dir[v[i]].state \in {"MIDDLE", "LAST"}
      /\ \A i \in 2 .. Len(w) : dir[w[i]].state \in {"MIDDLE", "LAST"}
  BY DEF OnWay
<1> DEFINE D == {k \in Nat : k \in 1 .. Len(v) /\ \E l \in 1 .. Len(w) : v[k] = w[l]}
<1> SUFFICES ASSUME D # {} PROVE FALSE
  BY <1>1
<1>4. PICK m \in D : \A d \in D : m <= d
  <2>1. D \subseteq Nat
    OBVIOUS
  <2> HIDE DEF D
  <2> QED BY <2>1, LeastNat
<1>5. PICK l \in 1 .. Len(w) : v[m] = w[l]
  OBVIOUS
<1>6. m \in 1 .. Len(v)
  OBVIOUS
<1>7. m \in 2 .. Len(v) /\ l \in 2 .. Len(w)
  <2>1. ASSUME m = 1, l = 1 PROVE FALSE
    BY <2>1, <1>1, <1>2, <1>5
  <2>2. ASSUME m = 1, l \in 2 .. Len(w) PROVE FALSE
    BY <2>2, <1>1, <1>3, <1>5
  <2>3. ASSUME m \in 2 .. Len(v), l = 1 PROVE FALSE
    BY <2>3, <1>2, <1>3, <1>5
  <2> HIDE DEF D
  <2>4. (m = 1 \/ m \in 2 .. Len(v)) /\ (l = 1 \/ l \in 2 .. Len(w))
    BY <1>1, <1>2, <1>6
  <2> QED BY <2>1, <2>2, <2>3, <2>4
<1>8. m - 1 \in 1 .. Len(v) /\ m - 1 \in Nat /\ l - 1 \in 1 .. Len(w) /\ ~(m <= m - 1)
  BY <1>1, <1>2, <1>7
<1>9. v[m - 1] = w[l - 1]
  <2>1. dir[v[m - 1]].link = v[m] - 1 /\ dir[v[m - 1]].link # NO_NEXT /\ dir[w[l - 1]].link = w[l] - 1
    BY <1>1, <1>2, <1>7
  <2>2. dir[v[m - 1]].link = dir[w[l - 1]].link
    BY <2>1, <1>5
  <2>3. v[m - 1] \in Slots /\ w[l - 1] \in Slots /\ dir[v[m - 1]].state \in InUse /\ dir[w[l - 1]].state \in InUse
    BY <1>1, <1>2, <1>8
  <2> QED BY <2>1, <2>2, <2>3 DEF Led, LeadsOn, LeadsAlone
<1>10. m - 1 \in D
  BY <1>8, <1>9
<1> QED BY <1>4, <1>8, <1>10

\* A save whose entries and blocks are let be is the save it was.
LEMMA SaveStays ==
  ASSUME NEW c, NEW d, NEW first, NEW way \in Ways(c.dir, first),
         \A i \in 1 .. Len(way) : d.dir[way[i]] = c.dir[way[i]] /\ d.data[way[i]] = c.data[way[i]]
  PROVE  way \in Ways(d.dir, first) /\ SaveAt(d, first) = SaveAt(c, first)
<1>1. OnWay(c.dir, first, way) /\ c.dir[way[Len(way)]].link = NO_NEXT
  BY WayIs
<1>2. /\ way \in Seq(Slots) /\ way # <<>> /\ way[1] = first /\ Injective(way)
      /\ \A i \in 2 .. Len(way) : c.dir[way[i - 1]].link = way[i] - 1 /\ c.dir[way[i]].state \in {"MIDDLE", "LAST"}
  BY <1>1 DEF OnWay
<1>3. Len(way) \in Nat /\ Len(way) >= 1 /\ DOMAIN way = 1 .. Len(way)
  BY <1>2
<1>4. /\ 1 \in 1 .. Len(way) /\ Len(way) \in 1 .. Len(way)
      /\ \A i \in 2 .. Len(way) : i \in 1 .. Len(way) /\ i - 1 \in 1 .. Len(way)
  BY <1>3
<1>5. \A i \in 2 .. Len(way) : d.dir[way[i - 1]].link = way[i] - 1 /\ d.dir[way[i]].state \in {"MIDDLE", "LAST"}
  BY <1>2, <1>4
<1>6. OnWay(d.dir, first, way) /\ d.dir[way[Len(way)]].link = NO_NEXT
  BY <1>1, <1>2, <1>4, <1>5 DEF OnWay
<1>7. way \in Ways(d.dir, first)
  BY <1>6, WayIs
<1>8. d.dir[first].name = c.dir[first].name
  BY <1>2, <1>4
<1>9. [j \in DOMAIN way |-> d.data[way[j]]] = [j \in DOMAIN way |-> c.data[way[j]]]
  BY <1>3
<1>10. /\ SaveAt(c, first) = [name |-> c.dir[first].name, data |-> [j \in DOMAIN way |-> c.data[way[j]]]]
       /\ SaveAt(d, first) = [name |-> d.dir[first].name, data |-> [j \in DOMAIN way |-> d.data[way[j]]]]
  BY <1>7, SaveIs
<1> QED BY <1>7, <1>8, <1>9, <1>10

\* What a console writes for a save: its blocks in the order it was given them.
Lies(c, game, blocks) ==
    /\ blocks \in Seq(Slots) /\ Injective(blocks) /\ blocks # <<>>
    /\ \A i \in 1 .. Len(blocks) : c.dir[blocks[i]] = ConsoleEntry(game.name, blocks, i)

LEMMA LyingIsWay ==
  ASSUME NEW c, NEW game, NEW blocks, Lies(c, game, blocks)
  PROVE  /\ blocks \in Ways(c.dir, blocks[1]) /\ c.dir[blocks[1]].state = "FIRST" /\ blocks[1] \in Slots
         /\ c.dir[blocks[1]].name = game.name /\ Len(blocks) \in Nat /\ Len(blocks) >= 1
         /\ \A i \in 2 .. Len(blocks) : c.dir[blocks[i]].state \in {"MIDDLE", "LAST"}
<1> DEFINE n == Len(blocks)
<1>1. /\ n \in Nat /\ n >= 1 /\ blocks \in Seq(Slots) /\ Injective(blocks) /\ blocks # <<>>
      /\ \A i \in 1 .. n : c.dir[blocks[i]] = ConsoleEntry(game.name, blocks, i) /\ blocks[i] \in Slots
  BY DEF Lies
<1>2. ASSUME NEW i \in 1 .. n
      PROVE  /\ c.dir[blocks[i]].state = IF i = 1 THEN "FIRST" ELSE IF i = n THEN "LAST" ELSE "MIDDLE"
             /\ c.dir[blocks[i]].link = IF i = n THEN NO_NEXT ELSE blocks[i + 1] - 1
             /\ c.dir[blocks[i]].name = IF i = 1 THEN game.name ELSE NoName
  <2> DEFINE e == ConsoleEntry(game.name, blocks, i)
  <2>1. c.dir[blocks[i]] = e
    BY <1>1
  <2>2. /\ e.state = IF i = 1 THEN "FIRST" ELSE IF i = n THEN "LAST" ELSE "MIDDLE"
        /\ e.link = IF i = n THEN NO_NEXT ELSE blocks[i + 1] - 1
        /\ e.name = IF i = 1 THEN game.name ELSE NoName
    BY DEF ConsoleEntry
  <2> HIDE DEF e, n
  <2> QED BY <2>1, <2>2
<1> HIDE DEF n
<1>3. \A i \in 2 .. n : i \in 1 .. n /\ i # 1 /\ i - 1 \in 1 .. n /\ i - 1 # n /\ (i - 1) + 1 = i
  BY <1>1
<1>4. \A i \in 2 .. n : c.dir[blocks[i - 1]].link = blocks[i] - 1 /\ c.dir[blocks[i]].state \in {"MIDDLE", "LAST"}
  <2> TAKE i \in 2 .. n
  <2>1. i \in 1 .. n /\ i # 1 /\ i - 1 \in 1 .. n /\ i - 1 # n /\ (i - 1) + 1 = i
    BY <1>3
  <2>2. c.dir[blocks[i - 1]].link = blocks[(i - 1) + 1] - 1
    BY <2>1, <1>2
  <2> QED BY <2>1, <2>2, <1>2
<1>5. 1 \in 1 .. n /\ n \in 1 .. n
  BY <1>1
<1>6. c.dir[blocks[n]].link = NO_NEXT /\ c.dir[blocks[1]].state = "FIRST" /\ c.dir[blocks[1]].name = game.name
      /\ blocks[1] \in Slots
  BY <1>1, <1>2, <1>5
<1>7. OnWay(c.dir, blocks[1], blocks)
  BY <1>1, <1>4 DEF OnWay, n
<1>8. blocks \in Ways(c.dir, blocks[1])
  BY <1>6, <1>7, WayIs DEF n
<1> QED BY <1>1, <1>4, <1>6, <1>8 DEF n

LetBe(d, c, blocks) ==
    \A b \in Slots : (\A i \in 1 .. Len(blocks) : blocks[i] # b) => d.dir[b] = c.dir[b] /\ d.data[b] = c.data[b]

\* Of two cards that differ in the blocks of one save only one holds, it has
\* that one more.
LEMMA OneSaveMore ==
  ASSUME NEW c \in Cards, NEW d \in Cards, Reads(c), NEW x \in Slots, NEW game \in Saves,
         Firsts(d) = Firsts(c) \cup {x}, x \notin Firsts(c),
         Ways(d.dir, x) # {}, SaveAt(d, x) = game,
         \A f \in Firsts(c) : Ways(d.dir, f) # {} /\ SaveAt(d, f) = SaveAt(c, f)
  PROVE  Reads(d) /\ \E i \in Nat : Inserted(Contained(d), Contained(c), game, i)
<1>0. SLOTS \in Nat /\ Firsts(c) \in SUBSET (1 .. SLOTS) /\ x \in 1 .. SLOTS
  BY SlotsAssumption DEF Firsts, Slots
<1>1. Reads(d)
  BY DEF Reads
<1>2. \A f \in Firsts(c) : At(c)[f] \in Saves
  BY SaveAtType DEF Reads, Firsts, At
<1>3. Joins(At(d), At(c), Firsts(c), x, game)
  BY DEF Joins, At, Firsts
<1>4. \E i \in Nat : Inserted(Listing(SLOTS, Firsts(c) \cup {x}, At(d)), Listing(SLOTS, Firsts(c), At(c)), game, i)
  BY <1>0, <1>2, <1>3, ListingMore
<1>5. Contained(c) = Listing(SLOTS, Firsts(c), At(c)) /\ Contained(d) = Listing(SLOTS, Firsts(c) \cup {x}, At(d))
  BY <1>1, SofarIs
<1> QED BY <1>1, <1>4, <1>5

\* A console that saves into blocks of no save leaves every other save be.
LEMMA SavedMore ==
  ASSUME NEW c \in Cards, NEW d \in Cards, Tidy(c), NEW game \in Saves, NEW blocks, Lies(d, game, blocks),
         Len(blocks) = Len(game.data), \A i \in 1 .. Len(blocks) : d.data[blocks[i]] = game.data[i],
         LetBe(d, c, blocks), \A i \in 1 .. Len(blocks) : c.dir[blocks[i]].state \notin InUse
  PROVE  Tidy(d) /\ \E i \in Nat : Inserted(Contained(d), Contained(c), game, i)
<1> DEFINE n == Len(blocks)
           x == blocks[1]
<1>0. SLOTS \in Nat /\ SLOTS < 65535
  BY SlotsAssumption
<1>1. /\ n \in Nat /\ n >= 1 /\ blocks \in Seq(Slots) /\ Injective(blocks)
      /\ \A i \in 1 .. n : d.dir[blocks[i]] = ConsoleEntry(game.name, blocks, i)
      /\ \A i \in 1 .. n : blocks[i] \in Slots
      /\ DOMAIN blocks = 1 .. n
  BY DEF Lies
<1>2. /\ blocks \in Ways(d.dir, x) /\ d.dir[x].state = "FIRST" /\ x \in Slots /\ d.dir[x].name = game.name
      /\ \A i \in 2 .. n : d.dir[blocks[i]].state \in {"MIDDLE", "LAST"}
  BY LyingIsWay
<1>3. \A i \in 1 .. n : c.dir[blocks[i]].state \notin InUse
  OBVIOUS
<1>4. \A b \in Slots : (\A i \in 1 .. n : blocks[i] # b) => d.dir[b] = c.dir[b] /\ d.data[b] = c.data[b]
  BY DEF LetBe
<1>5. SaveAt(d, x) = game
  <2>1. SaveAt(d, x) = [name |-> d.dir[x].name, data |-> [j \in DOMAIN blocks |-> d.data[blocks[j]]]]
    BY <1>2, SaveIs
  <2>2. game = [name |-> game.name, data |-> game.data] /\ game.data \in Seq(Contents \cup {Zeros})
    BY DEF Saves
  <2>3. game.data = [j \in 1 .. n |-> game.data[j]]
    BY <2>2
  <2>4. [j \in DOMAIN blocks |-> d.data[blocks[j]]] = [j \in 1 .. n |-> game.data[j]]
    BY <1>1
  <2> QED BY <2>1, <2>2, <2>3, <2>4, <1>2
<1> HIDE DEF n, x
<1>6. x \notin Firsts(c) /\ Firsts(d) = Firsts(c) \cup {x}
  <2>1. x \notin Firsts(c)
    BY <1>1, <1>3 DEF Firsts, InUse, x
  <2>2. ASSUME NEW b \in Slots PROVE b \in Firsts(d) <=> b \in Firsts(c) \/ b = x
    <3>1. ASSUME NEW i \in 1 .. n, b = blocks[i] PROVE b \in Firsts(d) <=> b \in Firsts(c) \/ b = x
      <4>1. b \notin Firsts(c)
        BY <1>3, <3>1 DEF Firsts, InUse
      <4>2. CASE i = 1
        BY <3>1, <4>2, <1>2 DEF Firsts, x
      <4>3. CASE i \in 2 .. n
        <5>1. b \notin Firsts(d)
          BY <3>1, <4>3, <1>2 DEF Firsts
        <5> QED BY <4>1, <5>1, <1>2 DEF Firsts
      <4> QED BY <4>2, <4>3, <1>1
    <3>2. CASE \A i \in 1 .. n : blocks[i] # b
      <4>1. d.dir[b] = c.dir[b] /\ b # x
        BY <3>2, <1>1, <1>4 DEF x
      <4> QED BY <4>1 DEF Firsts
    <3> QED BY <3>1, <3>2
  <2> QED BY <2>1, <2>2, <1>2 DEF Firsts
<1>7. ASSUME NEW f \in Firsts(c) PROVE Ways(d.dir, f) # {} /\ SaveAt(d, f) = SaveAt(c, f)
  <2>1. PICK way : way \in Ways(c.dir, f)
    BY <1>7 DEF Tidy, Reads
  <2>2. OnWay(c.dir, f, way) /\ c.dir[f].state = "FIRST"
    BY <2>1, WayIs DEF Firsts
  <2>3. \A i \in 1 .. Len(way) : way[i] \in Slots /\ c.dir[way[i]].state \in InUse
    BY <2>2, WayUses
  <2>4. \A i \in 1 .. Len(way) : d.dir[way[i]] = c.dir[way[i]] /\ d.data[way[i]] = c.data[way[i]]
    BY <2>3, <1>3, <1>4
  <2>5. way \in Ways(d.dir, f) /\ SaveAt(d, f) = SaveAt(c, f)
    BY <2>1, <2>4, SaveStays
  <2> QED BY <2>5
<1>8. Reads(d) /\ \E i \in Nat : Inserted(Contained(d), Contained(c), game, i)
  <2>1. Ways(d.dir, x) # {}
    BY <1>2
  <2>2. \A f \in Firsts(c) : Ways(d.dir, f) # {} /\ SaveAt(d, f) = SaveAt(c, f)
    BY <1>7
  <2> QED BY <2>1, <2>2, <1>2, <1>5, <1>6, OneSaveMore DEF Tidy
<1>9. Led(c.dir)
  BY DEF Tidy
<1>10. ASSUME NEW b \in Slots, d.dir[b].state \in InUse, d.dir[b].link # NO_NEXT
       PROVE  \/ \E i \in 2 .. n : b = blocks[i - 1] /\ d.dir[b].link = blocks[i] - 1
              \/ /\ d.dir[b] = c.dir[b] /\ d.dir[b].link + 1 \in Slots /\ c.dir[d.dir[b].link + 1].state \in {"MIDDLE", "LAST"}
                 /\ \A i \in 1 .. n : d.dir[b].link + 1 # blocks[i]
  <2>1. CASE \E i \in 1 .. n : blocks[i] = b
    <3>1. PICK i \in 1 .. n : blocks[i] = b
      BY <2>1
    <3>2. d.dir[b].link = IF i = n THEN NO_NEXT ELSE blocks[i + 1] - 1
      <4>1. d.dir[b] = ConsoleEntry(game.name, blocks, i)
        BY <3>1, <1>1
      <4> QED BY <4>1 DEF ConsoleEntry, n
    <3>3. i # n /\ i + 1 \in 2 .. n /\ (i + 1) - 1 = i
      BY <3>2, <1>1, <1>10
    <3> QED BY <3>1, <3>2, <3>3
  <2>2. CASE \A i \in 1 .. n : blocks[i] # b
    <3>1. d.dir[b] = c.dir[b]
      BY <2>2, <1>4
    <3>2. c.dir[b].link + 1 \in Slots /\ c.dir[c.dir[b].link + 1].state \in {"MIDDLE", "LAST"}
      BY <3>1, <1>9, <1>10 DEF Led, LeadsOn, LeadsAlone
    <3>3. \A i \in 1 .. n : c.dir[b].link + 1 # blocks[i]
      BY <3>2, <1>3 DEF InUse
    <3> QED BY <3>1, <3>2, <3>3
  <2> QED BY <2>1, <2>2
<1>s. \A i \in 2 .. n : i \in 1 .. n /\ blocks[i] \in Slots /\ blocks[i] \in Nat /\ (blocks[i] - 1) + 1 = blocks[i]
  BY <1>0, <1>1 DEF Slots
<1>11. Led(d.dir)
  <2>1. ASSUME NEW b \in Slots, d.dir[b].state \in InUse, d.dir[b].link # NO_NEXT
        PROVE  d.dir[b].link + 1 \in Slots /\ d.dir[d.dir[b].link + 1].state \in {"MIDDLE", "LAST"}
    <3>1. CASE \E i \in 2 .. n : b = blocks[i - 1] /\ d.dir[b].link = blocks[i] - 1
      <4>1. PICK i \in 2 .. n : d.dir[b].link = blocks[i] - 1
        BY <3>1
      <4>2. d.dir[b].link + 1 = blocks[i] /\ blocks[i] \in Slots
        BY <4>1, <1>s
      <4> QED BY <4>2, <1>2
    <3>2. CASE /\ d.dir[b].link + 1 \in Slots /\ c.dir[d.dir[b].link + 1].state \in {"MIDDLE", "LAST"}
               /\ \A i \in 1 .. n : d.dir[b].link + 1 # blocks[i]
      <4>1. d.dir[d.dir[b].link + 1] = c.dir[d.dir[b].link + 1]
        BY <3>2, <1>4
      <4> QED BY <3>2, <4>1
    <3> QED BY <2>1, <3>1, <3>2, <1>10
  <2>2. ASSUME NEW a \in Slots, NEW b \in Slots, d.dir[a].state \in InUse, d.dir[b].state \in InUse,
               d.dir[a].link = d.dir[b].link, d.dir[a].link # NO_NEXT
        PROVE  a = b
    <3> DEFINE New(e) == \E i \in 2 .. n : e = blocks[i - 1] /\ d.dir[e].link = blocks[i] - 1
               Old(e) == d.dir[e] = c.dir[e] /\ \A i \in 1 .. n : d.dir[e].link + 1 # blocks[i]
    <3>1. (New(a) \/ Old(a)) /\ (New(b) \/ Old(b))
      BY <2>2, <1>10
    <3>2. CASE New(a) /\ New(b)
      <4>1. PICK i \in 2 .. n : a = blocks[i - 1] /\ d.dir[a].link = blocks[i] - 1
        BY <3>2
      <4>2. PICK j \in 2 .. n : b = blocks[j - 1] /\ d.dir[b].link = blocks[j] - 1
        BY <3>2
      <4>3. blocks[i] = blocks[j]
        BY <4>1, <4>2, <2>2, <1>s
      <4>4. i = j
        BY <4>3, <1>1, <1>s DEF Injective
      <4> QED BY <4>1, <4>2, <4>4
    <3>3. ~(New(a) /\ Old(b)) /\ ~(New(b) /\ Old(a))
      BY <2>2, <1>s
    <3>4. CASE Old(a) /\ Old(b)
      BY <3>4, <2>2, <1>9 DEF Led, LeadsOn, LeadsAlone
    <3> HIDE DEF New, Old
    <3> QED BY <3>1, <3>2, <3>3, <3>4
  <2>3. \A b \in Slots : LeadsOn(d.dir, b)
    BY <2>1 DEF LeadsOn
  <2>4. \A a, b \in Slots : LeadsAlone(d.dir, a, b)
    BY <2>2 DEF LeadsAlone
  <2> QED BY <2>3, <2>4 DEF Led
<1> QED BY <1>8, <1>11 DEF Tidy

\* One that deletes a save's blocks leaves every other save be.
LEMMA DeletedFewer ==
  ASSUME NEW c \in Cards, NEW d \in Cards, Tidy(c), NEW game \in Saves, NEW blocks, Lies(c, game, blocks),
         LetBe(d, c, blocks), \A i \in 1 .. Len(blocks) : d.dir[blocks[i]].state \notin InUse
  PROVE  Tidy(d) /\ \E save \in Saves, i \in Nat : Inserted(Contained(c), Contained(d), save, i)
<1> DEFINE n == Len(blocks)
           x == blocks[1]
<1>1. /\ n \in Nat /\ n >= 1 /\ blocks \in Seq(Slots)
      /\ \A i \in 1 .. n : blocks[i] \in Slots
  BY DEF Lies
<1>2. /\ blocks \in Ways(c.dir, x) /\ c.dir[x].state = "FIRST" /\ x \in Slots
      /\ \A i \in 2 .. n : c.dir[blocks[i]].state \in {"MIDDLE", "LAST"}
  BY LyingIsWay
<1>3. \A i \in 1 .. n : d.dir[blocks[i]].state \notin InUse
  OBVIOUS
<1>4. \A b \in Slots : (\A i \in 1 .. n : blocks[i] # b) => d.dir[b] = c.dir[b] /\ d.data[b] = c.data[b]
  BY DEF LetBe
<1>5. OnWay(c.dir, x, blocks) /\ Led(c.dir)
  BY <1>2, WayIs DEF Tidy
<1>6. /\ \A i \in 1 .. n : c.dir[blocks[i]].state \in InUse
      /\ \A i \in 2 .. n : c.dir[blocks[i - 1]].link = blocks[i] - 1
  BY <1>2, <1>5, WayUses
<1> HIDE DEF n, x
<1>7. x \notin Firsts(d) /\ Firsts(c) = Firsts(d) \cup {x}
  <2>1. x \notin Firsts(d)
    BY <1>1, <1>3 DEF Firsts, InUse, x
  <2>2. ASSUME NEW b \in Slots PROVE b \in Firsts(c) <=> b \in Firsts(d) \/ b = x
    <3>1. ASSUME NEW i \in 1 .. n, b = blocks[i] PROVE b \in Firsts(c) <=> b \in Firsts(d) \/ b = x
      <4>1. b \notin Firsts(d)
        BY <1>3, <3>1 DEF Firsts, InUse
      <4>2. CASE i = 1
        BY <3>1, <4>2, <1>2 DEF Firsts, x
      <4>3. CASE i \in 2 .. n
        <5>1. b \notin Firsts(c)
          BY <3>1, <4>3, <1>2 DEF Firsts
        <5> QED BY <4>1, <5>1, <1>2 DEF Firsts
      <4> QED BY <4>2, <4>3, <1>1
    <3>2. CASE \A i \in 1 .. n : blocks[i] # b
      <4>1. d.dir[b] = c.dir[b] /\ b # x
        BY <3>2, <1>1, <1>4 DEF x
      <4> QED BY <4>1 DEF Firsts
    <3> QED BY <3>1, <3>2
  <2> QED BY <2>1, <2>2, <1>2 DEF Firsts
<1>8. ASSUME NEW f \in Firsts(d)
      PROVE  Ways(d.dir, f) # {} /\ Ways(c.dir, f) # {} /\ SaveAt(d, f) = SaveAt(c, f)
  <2>1. f \in Firsts(c) /\ f # x
    BY <1>7
  <2>2. PICK way : way \in Ways(c.dir, f)
    BY <2>1 DEF Tidy, Reads
  <2>3. OnWay(c.dir, f, way) /\ c.dir[f].state = "FIRST"
    BY <2>1, <2>2, WayIs DEF Firsts
  <2>4. \A i \in 1 .. Len(way) : way[i] \in Slots
    BY <2>3, WayUses
  <2>5. \A i \in 1 .. Len(way), j \in 1 .. Len(blocks) : way[i] # blocks[j]
    BY <1>2, <1>5, <2>1, <2>3, WaysApart
  <2>6. \A i \in 1 .. Len(way) : d.dir[way[i]] = c.dir[way[i]] /\ d.data[way[i]] = c.data[way[i]]
    BY <2>4, <2>5, <1>4 DEF n
  <2>7. way \in Ways(d.dir, f) /\ SaveAt(d, f) = SaveAt(c, f)
    BY <2>2, <2>6, SaveStays
  <2> QED BY <2>2, <2>7
<1>9. Reads(d)
  BY <1>8 DEF Reads
<1>10. Ways(c.dir, x) # {} /\ SaveAt(c, x) \in Saves
  BY <1>2, SaveAtType
<1>11. \E i \in Nat : Inserted(Contained(c), Contained(d), SaveAt(c, x), i)
  <2>1. \A f \in Firsts(d) : Ways(c.dir, f) # {} /\ SaveAt(c, f) = SaveAt(d, f)
    BY <1>8
  <2> DEFINE save == SaveAt(c, x)
  <2>2. save \in Saves /\ SaveAt(c, x) = save
    BY <1>10
  <2> HIDE DEF save
  <2> QED BY <2>1, <2>2, <1>2, <1>7, <1>9, <1>10, OneSaveMore
<1>12. ASSUME NEW b \in Slots, d.dir[b].state \in InUse
       PROVE  d.dir[b] = c.dir[b] /\ \A i \in 1 .. n : blocks[i] # b
  BY <1>3, <1>4, <1>12
<1>13. Led(d.dir)
  <2>1. ASSUME NEW b \in Slots, d.dir[b].state \in InUse, d.dir[b].link # NO_NEXT
        PROVE  d.dir[b].link + 1 \in Slots /\ d.dir[d.dir[b].link + 1].state \in {"MIDDLE", "LAST"}
    <3> DEFINE t == c.dir[b].link + 1
    <3>1. d.dir[b] = c.dir[b] /\ \A i \in 1 .. n : blocks[i] # b
      BY <2>1, <1>12
    <3>2. t \in Slots /\ c.dir[t].state \in {"MIDDLE", "LAST"}
      BY <2>1, <3>1, <1>5 DEF Led, LeadsOn, LeadsAlone
    <3>3. ASSUME NEW i \in 1 .. n PROVE blocks[i] # t
      <4>1. CASE i = 1
        BY <4>1, <3>2, <1>2 DEF x
      <4>2. CASE i \in 2 .. n
        <5> SUFFICES ASSUME blocks[i] = t PROVE FALSE
          OBVIOUS
        <5>1. c.dir[b].link \in Int
          <6>1. c.dir[b].link \in LinkWords
            BY DEF Cards, Entries
          <6> QED BY <6>1, SlotsAssumption DEF LinkWords, NO_NEXT
        <5>2. c.dir[blocks[i - 1]].link = c.dir[b].link
          BY <4>2, <5>1, <1>6
        <5>3. i - 1 \in 1 .. n /\ blocks[i - 1] \in Slots /\ c.dir[blocks[i - 1]].state \in InUse
          BY <4>2, <1>1, <1>6
        <5>4. b = blocks[i - 1]
          BY <5>2, <5>3, <2>1, <3>1, <1>5 DEF Led, LeadsOn, LeadsAlone
        <5> QED BY <5>3, <5>4, <3>1
      <4> QED BY <4>1, <4>2, <1>1
    <3>4. d.dir[t] = c.dir[t]
      BY <3>2, <3>3, <1>4
    <3> QED BY <3>1, <3>2, <3>4
  <2>2. ASSUME NEW a \in Slots, NEW b \in Slots, d.dir[a].state \in InUse, d.dir[b].state \in InUse,
               d.dir[a].link = d.dir[b].link, d.dir[a].link # NO_NEXT
        PROVE  a = b
    <3>1. d.dir[a] = c.dir[a] /\ d.dir[b] = c.dir[b]
      BY <2>2, <1>12
    <3> QED BY <2>2, <3>1, <1>5 DEF Led, LeadsOn, LeadsAlone
  <2>3. \A b \in Slots : LeadsOn(d.dir, b)
    BY <2>1 DEF LeadsOn
  <2>4. \A a, b \in Slots : LeadsAlone(d.dir, a, b)
    BY <2>2 DEF LeadsAlone
  <2> QED BY <2>3, <2>4 DEF Led
<1> QED BY <1>9, <1>10, <1>11, <1>13 DEF Tidy

LEMMA ConsoleSaves ==
  ASSUME TypeOK, disk' \in Cards, Tidy(disk), NEW game \in Games, ConsoleSave(game)
  PROVE  /\ Tidy(disk') /\ disk'.area = disk.area
         /\ \E i \in Nat : Inserted(Contained(disk'), Contained(disk), game, i)
<1> DEFINE n == Len(game.data)
<1>1. /\ game \in Saves /\ game.data \in Seq(Contents \cup {Zeros}) /\ n \in Nat
      /\ disk \in Cards /\ disk.dir \in [Slots -> Entries] /\ disk.data \in [Slots -> Contents \cup {Zeros}]
  BY GamesAssumption DEF Saves, TypeOK, Cards
<1>2. PICK blocks \in BlockLists(n) :
        LET used == {blocks[i] : i \in DOMAIN blocks}
            at(b) == CHOOSE i \in DOMAIN blocks : blocks[i] = b
        IN /\ \A b \in used : disk.dir[b].state \in {"FREE", "DELETED"}
           /\ disk' = [disk EXCEPT
                 !.dir = [b \in Slots |-> IF b \in used
                            THEN ConsoleEntry(game.name, blocks, at(b)) ELSE @[b]],
                 !.data = [b \in Slots |-> IF b \in used
                             THEN game.data[at(b)] ELSE @[b]]]
  BY DEF ConsoleSave
<1> DEFINE used == {blocks[i] : i \in DOMAIN blocks}
           at(b) == CHOOSE i \in DOMAIN blocks : blocks[i] = b
           dir == [b \in Slots |-> IF b \in used THEN ConsoleEntry(game.name, blocks, at(b)) ELSE disk.dir[b]]
           data == [b \in Slots |-> IF b \in used THEN game.data[at(b)] ELSE disk.data[b]]
<1>3. /\ \A b \in used : disk.dir[b].state \in {"FREE", "DELETED"}
      /\ disk' = [disk EXCEPT !.dir = dir, !.data = data]
  BY <1>2
<1>4. blocks \in Seq(Slots) /\ Len(blocks) = n /\ DOMAIN blocks = 1 .. n /\ Injective(blocks)
      /\ \A i \in 1 .. n : blocks[i] \in Slots
  <2>1. blocks \in [1 .. n -> Slots] /\ Injective(blocks)
    BY DEF BlockLists
  <2> HIDE DEF n
  <2> QED BY <1>1, <2>1, ListOf
<1>5. blocks # <<>> /\ n # 0
  <2>1. game.data # <<>>
    BY DEF ConsoleSave
  <2> QED BY <1>1, <1>4, <2>1
<1>6. ASSUME NEW i \in 1 .. n PROVE blocks[i] \in used /\ at(blocks[i]) = i
  BY <1>4 DEF Injective
<1>7. \A b \in Slots : (\A i \in 1 .. n : blocks[i] # b) => b \notin used
  BY <1>4
<1>8. \A b \in used : disk.dir[b].state \in {"FREE", "DELETED"}
  BY <1>3
<1> HIDE DEF used, at
<1>9. \A b \in Slots : /\ dir[b] = IF b \in used THEN ConsoleEntry(game.name, blocks, at(b)) ELSE disk.dir[b]
                       /\ data[b] = IF b \in used THEN game.data[at(b)] ELSE disk.data[b]
  OBVIOUS
<1> HIDE DEF dir, data
<1>10. disk'.dir = dir /\ disk'.data = data /\ disk'.area = disk.area
  BY <1>1, <1>3 DEF Cards
<1>11. \A i \in 1 .. n : disk'.dir[blocks[i]] = ConsoleEntry(game.name, blocks, i) /\ disk'.data[blocks[i]] = game.data[i]
  BY <1>4, <1>6, <1>9, <1>10
<1>12. Lies(disk', game, blocks)
  BY <1>4, <1>5, <1>11 DEF Lies
<1>13. LetBe(disk', disk, blocks)
  BY <1>4, <1>7, <1>9, <1>10 DEF LetBe
<1>14. \A i \in 1 .. Len(blocks) : disk.dir[blocks[i]].state \notin InUse
  BY <1>4, <1>6, <1>8 DEF InUse
<1>15. \A i \in 1 .. Len(blocks) : disk'.data[blocks[i]] = game.data[i]
  BY <1>4, <1>11
<1> DEFINE d == disk'
<1>16. d \in Cards /\ Lies(d, game, blocks) /\ LetBe(d, disk, blocks)
       /\ \A i \in 1 .. Len(blocks) : d.data[blocks[i]] = game.data[i]
  BY <1>12, <1>13, <1>15
<1> HIDE DEF d
<1>17. Tidy(d) /\ \E i \in Nat : Inserted(Contained(d), Contained(disk), game, i)
  BY <1>1, <1>4, <1>14, <1>16, SavedMore DEF n
<1> QED BY <1>10, <1>17 DEF d

LEMMA ConsoleDeletes ==
  ASSUME TypeOK, disk' \in Cards, Tidy(disk), NEW game \in Games, ConsoleDelete(game)
  PROVE  /\ Tidy(disk') /\ disk'.area = disk.area
         /\ disk' = disk \/ \E save \in Saves, i \in Nat : Inserted(Contained(disk), Contained(disk'), save, i)
<1> DEFINE n == Len(game.data)
<1>1. /\ game \in Saves /\ n \in Nat
      /\ disk \in Cards /\ disk.dir \in [Slots -> Entries]
      /\ disk = [dir |-> disk.dir, data |-> disk.data, area |-> disk.area]
  BY GamesAssumption DEF Saves, TypeOK, Cards
<1>2. PICK blocks \in BlockLists(n) :
        /\ \A i \in DOMAIN blocks : disk.dir[blocks[i]] = ConsoleEntry(game.name, blocks, i)
        /\ disk' = [disk EXCEPT !.dir = [b \in Slots |->
                       IF \E i \in DOMAIN blocks : blocks[i] = b
                       THEN [@[b] EXCEPT !.state = "DELETED", !.name = NoName]
                       ELSE @[b]]]
  BY DEF ConsoleDelete
<1> DEFINE dir == [b \in Slots |-> IF \E i \in DOMAIN blocks : blocks[i] = b
                                   THEN [disk.dir[b] EXCEPT !.state = "DELETED", !.name = NoName] ELSE disk.dir[b]]
<1>3. disk' = [disk EXCEPT !.dir = dir]
  BY <1>2
<1>4. blocks \in Seq(Slots) /\ Len(blocks) = n /\ DOMAIN blocks = 1 .. n /\ Injective(blocks)
      /\ \A i \in 1 .. n : blocks[i] \in Slots
  <2>1. blocks \in [1 .. n -> Slots] /\ Injective(blocks)
    BY DEF BlockLists
  <2> HIDE DEF n
  <2> QED BY <1>1, <2>1, ListOf
<1>5. \A b \in Slots : dir[b] = IF \E i \in 1 .. n : blocks[i] = b
                                THEN [disk.dir[b] EXCEPT !.state = "DELETED", !.name = NoName] ELSE disk.dir[b]
  BY <1>4
<1>6. DOMAIN dir = Slots /\ dir = [b \in Slots |-> dir[b]]
  OBVIOUS
<1> HIDE DEF dir
<1>7. disk'.dir = dir /\ disk'.data = disk.data /\ disk'.area = disk.area
  BY <1>1, <1>3 DEF Cards
<1>8. CASE n = 0
  <2>1. \A b \in Slots : dir[b] = disk.dir[b]
    BY <1>5, <1>8
  <2>2. dir = disk.dir
    BY <1>1, <1>6, <2>1
  <2>3. disk' = disk
    BY <1>1, <1>3, <2>2
  <2> QED BY <2>3
<1>9. CASE n # 0
  <2> DEFINE d == disk'
  <2>1. d \in Cards
    OBVIOUS
  <2>2. Lies(disk, game, blocks)
    <3>1. blocks # <<>>
      BY <1>4, <1>9
    <3> QED BY <3>1, <1>2, <1>4 DEF Lies
  <2>3. LetBe(d, disk, blocks)
    BY <1>4, <1>5, <1>7 DEF LetBe
  <2>4. ASSUME NEW i \in 1 .. Len(blocks) PROVE d.dir[blocks[i]].state \notin InUse
    <3>1. blocks[i] \in Slots /\ \E k \in 1 .. n : blocks[k] = blocks[i]
      BY <1>4
    <3>2. d.dir[blocks[i]] = [disk.dir[blocks[i]] EXCEPT !.state = "DELETED", !.name = NoName]
      BY <3>1, <1>5, <1>7
    <3>3. disk.dir[blocks[i]] \in Entries
      BY <3>1, <1>1
    <3> QED BY <3>2, <3>3 DEF Entries, InUse
  <2> HIDE DEF d
  <2>5. Tidy(d) /\ \E save \in Saves, i \in Nat : Inserted(Contained(disk), Contained(d), save, i)
    BY <1>1, <2>1, <2>2, <2>3, <2>4, DeletedFewer
  <2> QED BY <2>5, <1>7 DEF d
<1> QED BY <1>8, <1>9

-----------------------------------------------------------------------------
(* What the refinement rests on, of the tool: how far it has read, how many *)
(* blocks what it has built is, and that it holds the card there is.        *)

\* What has been read is what the card holds so far, and the chain being
\* followed is the start of a way.
ReadTo(c, s, f) == (\A b \in Firsts(c) : b < s => Ways(c.dir, b) # {}) /\ f = Sofar(c, s)
Seen ==
    pc \in {"scan", "chain"} =>
        /\ ReadTo(card, slot, found)
        /\ pc = "chain" => slot \in Firsts(card) /\ OnWay(card.dir, slot, chain)

\* The builder's next block is past the saves it has finished, none empty.
Counted(saves, n, b) == b = 1 + Summed(Lengths(saves))[n] /\ \A i \in 1 .. n : saves[i].data # <<>>
Count == pc = "build" \/ (checking /\ kept = <<>>) => Counted(held, saved, nextBlock)

Same ==
    /\ ~checking /\ pc \in {"scan", "chain"} => card = disk
    /\ ~checking /\ pc \in {"scan", "chain", "corrupt"} => held = <<>>
    /\ checking => card = image /\ image.area = AreaToWrite
    /\ kept # <<>> => kept[1] = disk /\ disk.area = AreaToWrite

Whole == damage = 0 => Tidy(disk)

RInv == IInv /\ Seen /\ Count /\ Same /\ Whole

-----------------------------------------------------------------------------
(* Reading.                                                                *)

LEMMA ReadStarts ==
  ASSUME NEW c
  PROVE  ReadTo(c, 1, <<>>)
<1>1. \A b \in Firsts(c) : ~(b < 1)
  BY SlotsAssumption DEF Firsts, Slots
<1> QED BY <1>1, SofarIs DEF ReadTo

LEMMA ReadOn ==
  ASSUME NEW c, NEW s \in Slots, NEW f, ReadTo(c, s, f), s \in Firsts(c) => Ways(c.dir, s) # {}
  PROVE  ReadTo(c, s + 1, IF s \in Firsts(c) THEN Append(f, SaveAt(c, s)) ELSE f)
<1>1. \A b \in Firsts(c) : b < s + 1 => b < s \/ b = s
  BY SlotsAssumption DEF Firsts, Slots
<1> QED BY <1>1, SofarIs DEF ReadTo

LEMMA ReadAll ==
  ASSUME NEW c \in Cards, NEW f, ReadTo(c, SLOTS + 1, f)
  PROVE  Reads(c) /\ f = Contained(c) /\ Contained(c) # Unreadable
<1>1. \A b \in Firsts(c) : b < SLOTS + 1
  BY SlotsAssumption DEF Firsts, Slots
<1>2. Reads(c)
  BY <1>1 DEF ReadTo, Reads
<1> QED BY <1>2, SofarIs, ContainedType DEF ReadTo

LEMMA AllSeen ==
  ASSUME IInv, Seen, pc = "scan", slot > SLOTS
  PROVE  Reads(card) /\ found = Contained(card) /\ Contained(card) # Unreadable
<1>1. card \in Cards /\ slot = SLOTS + 1
  BY SlotsAssumption DEF IInv, TypeOK
<1>2. ReadTo(card, SLOTS + 1, found)
  BY <1>1 DEF Seen
<1> QED BY <1>1, <1>2, ReadAll

LEMMA SeenStep ==
  ASSUME IInv, Seen, [Next]_vars
  PROVE  Seen'
<1>0. TypeOK /\ Phases /\ chain \in Seq(Slots) /\ slot \in 1 .. SLOTS + 1 /\ SLOTS \in Nat
  BY SlotsAssumption DEF IInv, TypeOK
<1>1. CASE Open \/ FinishBuild \/ WriteImage
  <2>1. pc' = "scan" /\ slot' = 1 /\ found' = <<>>
    BY <1>1 DEF Open, FinishBuild, WriteImage, StartReading
  <2>2. ReadTo(card', 1, <<>>)
    BY ReadStarts
  <2> QED BY <2>1, <2>2 DEF Seen
<1>2. CASE ScanSlot
  <2>1. pc = "scan" /\ slot \in Slots /\ card' = card /\ found' = found /\ ReadTo(card, slot, found)
    BY <1>0, <1>2 DEF ScanSlot, Seen, Slots
  <2>2. CASE card.dir[slot].state = "FIRST"
    <3>1. pc' = "chain" /\ chain' = <<slot>> /\ slot' = slot /\ slot \in Firsts(card)
      BY <1>2, <2>1, <2>2 DEF ScanSlot, Firsts
    <3>2. OnWay(card.dir, slot, <<slot>>)
      <4> DEFINE w == <<slot>>
      <4>1. w \in Seq(Slots) /\ Len(w) = 1 /\ w[1] = slot /\ w # <<>> /\ DOMAIN w = 1 .. 1
        BY <2>1
      <4> HIDE DEF w
      <4>2. Injective(w) /\ \A i \in 2 .. Len(w) : FALSE
        BY <4>1 DEF Injective
      <4>3. OnWay(card.dir, slot, w)
        BY <4>1, <4>2 DEF OnWay
      <4> QED BY <4>3 DEF w
    <3> QED BY <2>1, <3>1, <3>2 DEF Seen
  <2>3. CASE card.dir[slot].state # "FIRST"
    <3>1. pc' = "scan" /\ slot' = slot + 1 /\ slot \notin Firsts(card)
      BY <1>2, <2>1, <2>3 DEF ScanSlot, Firsts
    <3>2. ReadTo(card, slot + 1, found)
      BY <2>1, <3>1, ReadOn
    <3> QED BY <2>1, <3>1, <3>2 DEF Seen
  <2> QED BY <2>2, <2>3
<1>3. CASE EndChain
  <2>1. /\ pc = "chain" /\ Link = NO_NEXT /\ card' = card /\ pc' = "scan" /\ slot' = slot + 1
        /\ found' = Append(found, [name |-> card.dir[slot].name, data |-> [i \in DOMAIN chain |-> card.data[chain[i]]]])
    BY <1>3 DEF EndChain
  <2>2. ReadTo(card, slot, found) /\ slot \in Firsts(card) /\ slot \in Slots /\ OnWay(card.dir, slot, chain)
    BY <2>1 DEF Seen, Firsts
  <2>3. chain \in Ways(card.dir, slot)
    BY <2>1, <2>2, WayIs DEF Link
  <2>4. found' = Append(found, SaveAt(card, slot))
    BY <2>1, <2>3, SaveIs
  <2>5. ReadTo(card, slot + 1, found')
    BY <2>2, <2>3, <2>4, ReadOn
  <2> QED BY <2>1, <2>5 DEF Seen
<1>4. CASE FollowLink
  <2>1. /\ pc = "chain" /\ pc' = pc /\ Link # NO_NEXT /\ Continues(Link + 1) /\ chain' = Append(chain, Link + 1)
        /\ UNCHANGED <<card, slot, found>>
    BY <1>4 DEF FollowLink
  <2>2. ReadTo(card, slot, found) /\ slot \in Firsts(card) /\ OnWay(card.dir, slot, chain)
    BY <2>1 DEF Seen
  <2> DEFINE n == Len(chain)
             w == Append(chain, Link + 1)
  <2>3. n \in Nat /\ n >= 1 /\ chain # <<>> /\ chain[1] = slot /\ Injective(chain)
    BY <1>0, <2>1 DEF Phases
  <2>4. Link + 1 \in Slots /\ Link \in Nat
    <3>1. chain[n] \in Slots
      BY <1>0, <2>3
    <3>2. Link \in LinkWords
      BY <1>0, <3>1 DEF Link, TypeOK, Cards, Entries
    <3> QED BY <2>1, <3>2, SlotsAssumption DEF Continues, LinkWords, NO_NEXT, Slots
  <2>5. /\ w \in Seq(Slots) /\ Len(w) = n + 1 /\ w[n + 1] = Link + 1
        /\ \A i \in 1 .. n : w[i] = chain[i]
    BY <1>0, <2>4
  <2>6. Injective(w)
    BY <1>0, <2>1, <2>3, SimpleChain DEF Continues
  <2>7. ASSUME NEW i \in 2 .. n + 1
        PROVE  card.dir[w[i - 1]].link = w[i] - 1 /\ card.dir[w[i]].state \in {"MIDDLE", "LAST"}
    <3>1. CASE i = n + 1
      <4>1. card.dir[Link + 1].state \in {"MIDDLE", "LAST"} /\ card.dir[chain[n]].link = Link
        BY <2>1 DEF Continues, Link
      <4>2. i - 1 = n /\ n \in 1 .. n /\ (Link + 1) - 1 = Link
        BY <2>3, <2>4, <3>1
      <4>3. w[i - 1] = chain[n] /\ w[i] = Link + 1
        BY <4>2, <3>1, <2>5
      <4> QED BY <4>1, <4>2, <4>3
    <3>2. CASE i # n + 1
      <4>1. i \in 2 .. n /\ i \in 1 .. n /\ i - 1 \in 1 .. n
        BY <2>3, <3>2
      <4>2. w[i - 1] = chain[i - 1] /\ w[i] = chain[i]
        BY <4>1, <2>5
      <4> QED BY <4>1, <4>2, <2>2 DEF OnWay
    <3> QED BY <3>1, <3>2
  <2>8. w # <<>> /\ w[1] = slot
    <3>1. 1 \in 1 .. n
      BY <2>3
    <3>2. w[1] = slot
      BY <3>1, <2>3, <2>5
    <3> QED BY <3>2, <2>3, <2>5
  <2> HIDE DEF n, w
  <2>9. OnWay(card.dir, slot, w)
    BY <2>5, <2>6, <2>7, <2>8 DEF OnWay
  <2> QED BY <2>1, <2>2, <2>9 DEF Seen, w
<1>5. CASE RefuseChain \/ Opened \/ CheckBack \/ Resume \/ Close \/ StartBuild \/ RefuseSave \/ PlaceBlock \/ Edit \/ Console
  <2>1. pc' \notin {"scan", "chain"}
    BY <1>5 DEF RefuseChain, Opened, CheckBack, PutAway, Resume, Close, StartBuild, RefuseSave, PlaceBlock, Edit,
                RemoveSave, AddSave, Console, ConsoleSave, ConsoleDelete, Decay
  <2> QED BY <2>1 DEF Seen
<1>6. CASE UNCHANGED vars
  <2>1. UNCHANGED <<pc, card, slot, chain, found>>
    BY <1>6 DEF vars, toolVars, readVars
  <2> QED BY <2>1 DEF Seen
<1> QED BY <1>1, <1>2, <1>3, <1>4, <1>5, <1>6 DEF Next, Read, Build, Check

-----------------------------------------------------------------------------
(* Building.                                                               *)

LEMMA LengthsAre ==
  ASSUME NEW saves \in Seq(Saves)
  PROVE  /\ Lengths(saves) \in Seq(Nat) /\ Len(Lengths(saves)) = Len(saves)
         /\ \A i \in 1 .. Len(saves) : /\ saves[i].data \in Seq(Contents \cup {Zeros})
                                       /\ Len(saves[i].data) \in Nat /\ Lengths(saves)[i] = Len(saves[i].data)
<1> DEFINE n == Len(saves)
<1>1. n \in Nat /\ DOMAIN saves = 1 .. n
  OBVIOUS
<1>2. ASSUME NEW i \in 1 .. n PROVE saves[i].data \in Seq(Contents \cup {Zeros}) /\ Len(saves[i].data) \in Nat
  <2>1. saves[i] \in Saves
    OBVIOUS
  <2>2. saves[i].data \in Seq(Contents \cup {Zeros})
    BY <2>1 DEF Saves
  <2> QED BY <2>2
<1>3. Lengths(saves) = [i \in 1 .. n |-> Len(saves[i].data)]
  BY <1>1 DEF Lengths
<1> HIDE DEF n
<1>4. Lengths(saves) \in [1 .. n -> Nat]
  BY <1>2, <1>3
<1>5. Lengths(saves) \in Seq(Nat) /\ Len(Lengths(saves)) = n
  BY <1>1, <1>4, ListOf
<1> QED BY <1>2, <1>3, <1>5 DEF n

\* A save more finished is its blocks more.
LEMMA CountedMore ==
  ASSUME NEW saves \in Seq(Saves), NEW n \in Nat, n < Len(saves), NEW b \in Nat, Counted(saves, n, b),
         saves[n + 1].data # <<>>
  PROVE  Counted(saves, n + 1, b + Len(saves[n + 1].data))
<1> DEFINE l == Lengths(saves)
           g == Summed(l)
           k == Len(saves[n + 1].data)
<1>1. l \in Seq(Nat) /\ Len(l) = Len(saves) /\ n + 1 \in 1 .. Len(saves) /\ l[n + 1] = k /\ k \in Nat
      /\ Len(saves) \in Nat
  BY LengthsAre
<1>2. g[n + 1] = g[(n + 1) - 1] + l[n + 1] /\ g \in [0 .. Len(l) -> Nat]
  BY <1>1, SummedIsThere
<1>3. (n + 1) - 1 = n /\ n \in 0 .. Len(l)
  BY <1>1
<1>4. b = 1 + g[n] /\ g[n] \in Nat
  BY <1>2, <1>3 DEF Counted
<1> HIDE DEF g, l, k
<1>5. g[n + 1] = g[n] + k
  BY <1>1, <1>2, <1>3
<1>6. b + k = 1 + g[n + 1]
  BY <1>1, <1>4, <1>5
<1>7. \A i \in 1 .. n + 1 : saves[i].data # <<>>
  <2>1. \A i \in 1 .. n + 1 : i \in 1 .. n \/ i = n + 1
    OBVIOUS
  <2> QED BY <2>1 DEF Counted
<1> QED BY <1>6, <1>7 DEF Counted, g, l, k

LEMMA CountStep ==
  ASSUME IInv, Count, [Next]_vars
  PROVE  Count'
<1>0. Phases /\ held \in Seq(Saves) /\ saved \in Nat /\ nextBlock \in Nat
  BY SlotsAssumption DEF IInv, TypeOK
<1>1. CASE StartBuild
  <2>1. held' = held /\ nextBlock' = 1 /\ saved' = 0
    BY <1>1 DEF StartBuild, bundleVars
  <2>2. Summed(Lengths(held))[0] = 0
    BY <1>0, LengthsAre, SummedIsThere
  <2>3. Counted(held, 0, 1)
    BY <2>2 DEF Counted
  <2> QED BY <2>1, <2>3 DEF Count
<1>2. CASE PlaceBlock
  <2>1. held' = held /\ pc = "build" /\ saved < Len(held) /\ Counted(held, saved, nextBlock)
    BY <1>2 DEF PlaceBlock, bundleVars, Count
  <2>2. Blocks \in Nat /\ index < Blocks /\ index \in Nat
    BY <1>2, PlaceBlockFits
  <2>3. CASE index + 1 = Blocks
    <3>1. saved' = saved + 1 /\ nextBlock' = nextBlock + Len(held[saved + 1].data)
      BY <1>2, <2>3 DEF PlaceBlock, Blocks, Save
    <3>2. held[saved + 1].data # <<>>
      BY <2>2 DEF Blocks, Save
    <3>3. Counted(held, saved + 1, nextBlock + Len(held[saved + 1].data))
      BY <1>0, <2>1, <3>2, CountedMore
    <3> QED BY <2>1, <3>1, <3>3 DEF Count
  <2>4. CASE index + 1 # Blocks
    <3>1. saved' = saved /\ nextBlock' = nextBlock
      BY <1>2, <2>4 DEF PlaceBlock
    <3> QED BY <2>1, <3>1 DEF Count
  <2> QED BY <2>3, <2>4
<1>3. CASE FinishBuild
  <2>1. pc = "build" /\ UNCHANGED <<held, saved, nextBlock>>
    BY <1>3 DEF FinishBuild, bundleVars
  <2> QED BY <2>1 DEF Count
<1>4. CASE WriteImage
  <2>1. kept' # <<>> /\ pc' = "scan"
    BY <1>4 DEF WriteImage, bundleVars
  <2> QED BY <2>1 DEF Count
<1>5. CASE ScanSlot \/ EndChain \/ FollowLink \/ RefuseChain
  <2>1. pc' # "build" /\ UNCHANGED <<checking, kept, held, saved, nextBlock>>
    BY <1>5 DEF ScanSlot, EndChain, FollowLink, RefuseChain, bundleVars, buildVars, toolVars
  <2> QED BY <2>1 DEF Count
<1>6. CASE Console \/ Open \/ Opened \/ Edit \/ RefuseSave
  <2>1. ~checking
    BY <1>0, <1>6 DEF Phases, Console, ConsoleSave, ConsoleDelete, Decay, Open, Opened, Edit, RemoveSave, AddSave, RefuseSave
  <2>2. checking' = checking /\ pc' # "build"
    BY <1>6 DEF Console, ConsoleSave, ConsoleDelete, Decay, Open, Opened, Edit, RemoveSave, AddSave, RefuseSave, toolVars
  <2> QED BY <2>1, <2>2 DEF Count
<1>7. CASE CheckBack
  <2>1. found = held
    BY <1>7, AllFound DEF CheckBack
  <2>2. pc' = "closed" /\ ~checking'
    BY <1>7, <2>1 DEF CheckBack, PutAway, Drop
  <2> QED BY <2>2 DEF Count
<1>8. CASE Resume \/ Close
  <2>1. pc' # "build" /\ ~checking'
    BY <1>8 DEF Resume, Close, PutAway, Drop
  <2> QED BY <2>1 DEF Count
<1>9. CASE UNCHANGED vars
  <2>1. UNCHANGED <<pc, checking, kept, held, saved, nextBlock>>
    BY <1>9 DEF vars, toolVars, bundleVars, buildVars
  <2> QED BY <2>1 DEF Count
<1> QED BY <1>1, <1>2, <1>3, <1>4, <1>5, <1>6, <1>7, <1>8, <1>9 DEF Next, Read, Build, Check

\* What has been built fits: it is on the card.
LEMMA BuiltFits ==
  ASSUME IInv, Count, checking, pc = "scan"
  PROVE  CardFits(held)
<1>0. held \in Seq(Saves) /\ nextBlock \in 1 .. SLOTS + 1 /\ SLOTS \in Nat /\ DOMAIN held = 1 .. Len(held)
  BY SlotsAssumption DEF IInv, TypeOK
<1>1. CASE kept = <<>>
  <2>1. saved = Len(held) /\ Counted(held, saved, nextBlock)
    BY <1>1 DEF IInv, ReadingBack, Count
  <2>2. Lengths(held) \in Seq(Nat) /\ Len(Lengths(held)) = Len(held)
    BY <1>0, LengthsAre
  <2>3. Total(Lengths(held)) \in Nat /\ nextBlock = 1 + Total(Lengths(held))
    BY <2>1, <2>2, SummedIsThere, TotalIsNat DEF Counted
  <2>4. Total(Lengths(held)) <= SLOTS
    BY <1>0, <2>3
  <2> QED BY <1>0, <2>1, <2>4 DEF CardFits, Counted
<1>2. CASE kept # <<>>
  <2>1. held = <<>>
    BY <1>2 DEF IInv, KeptIsEmpty
  <2>2. Lengths(held) \in Seq(Nat) /\ Len(Lengths(held)) = 0
    BY <1>0, <2>1, LengthsAre
  <2>3. Total(Lengths(held)) = 0
    BY <2>2, SummedIsThere
  <2> QED BY <1>0, <2>1, <2>3 DEF CardFits
<1> QED BY <1>1, <1>2

\* What is refused does not fit.
LEMMA RefusedIsTooMuch ==
  ASSUME IInv, Count, RefuseSave
  PROVE  ~CardFits(held)
<1>0. /\ held \in Seq(Saves) /\ SLOTS \in Nat /\ saved \in Nat /\ saved < Len(held) /\ DOMAIN held = 1 .. Len(held)
      /\ nextBlock \in Nat /\ pc = "build" /\ (EmptySave \/ Full)
  BY SlotsAssumption DEF IInv, TypeOK, RefuseSave
<1>1. Counted(held, saved, nextBlock)
  BY <1>0 DEF Count
<1>2. saved + 1 \in 1 .. Len(held) /\ Blocks = Len(held[saved + 1].data) /\ held[saved + 1].data \in Seq(Contents \cup {Zeros})
      /\ Blocks \in Nat
  BY <1>0, LengthsAre DEF Blocks, Save
<1>3. CASE held[saved + 1].data = <<>>
  BY <1>0, <1>2, <1>3 DEF CardFits
<1>4. CASE held[saved + 1].data # <<>>
  <2> DEFINE l == Lengths(held)
             t == Summed(l)[saved + 1]
  <2>1. nextBlock + Blocks = 1 + t
    <3>1. Counted(held, saved + 1, nextBlock + Len(held[saved + 1].data))
      BY <1>0, <1>1, <1>4, CountedMore
    <3> QED BY <1>2, <3>1 DEF Counted
  <2>2. l \in Seq(Nat) /\ Len(l) = Len(held) /\ Len(held) \in Nat
    BY <1>0, LengthsAre
  <2>3. t <= Total(l) /\ t \in Nat /\ Total(l) \in Nat
    <3>1. saved + 1 \in 0 .. Len(l) /\ Len(l) \in 0 .. Len(l) /\ saved + 1 <= Len(l)
      BY <1>0, <2>2
    <3>2. t <= Summed(l)[Len(l)]
      BY <2>2, <3>1, SummedRises
    <3>3. Total(l) = Summed(l)[Len(l)] /\ Summed(l) \in [0 .. Len(l) -> Nat]
      BY <2>2, SummedIsThere
    <3> QED BY <3>1, <3>2, <3>3
  <2>4. Blocks # 0
    BY <1>2, <1>4
  <2>5. nextBlock + Blocks - 1 > SLOTS
    BY <1>0, <2>4 DEF EmptySave, Full
  <2> HIDE DEF t, l
  <2>6. Total(l) > SLOTS
    BY <1>0, <1>2, <2>1, <2>3, <2>5
  <2>7. Total(Lengths(held)) > SLOTS /\ Total(Lengths(held)) \in Nat
    BY <2>3, <2>6 DEF l
  <2> QED BY <1>0, <2>7 DEF CardFits
<1> QED BY <1>3, <1>4

\* What has been built leads on as a console's saves do.
LEMMA BuiltLed ==
  ASSUME IInv, checking, kept = <<>>
  PROVE  Led(image.dir)
<1>0. /\ held \in Seq(Saves) /\ placed \in Seq(Nat \X Nat) /\ SLOTS \in Nat /\ SLOTS < 65535
      /\ PackedSoFar /\ Len(placed) \in Nat
  BY SlotsAssumption DEF IInv, TypeOK, ReadingBack
<1>1. ASSUME NEW b \in Slots, image.dir[b].state \in InUse, image.dir[b].link # NO_NEXT
      PROVE  /\ image.dir[b].link = b /\ b + 1 \in Slots
             /\ image.dir[b + 1].state \in {"MIDDLE", "LAST"}
  <2> DEFINE i == placed[b][1]
             k == placed[b][2]
             n == Len(held[i].data)
  <2>1. b \in Nat /\ b \in 1 .. Len(placed)
    <3>1. b \in Nat /\ b >= 1
      BY DEF Slots
    <3>2. CASE b > Len(placed)
      <4>1. image.dir[b] = FreeEntry
        BY <1>0, <3>2 DEF PackedSoFar
      <4> QED BY <1>1, <4>1 DEF FreeEntry, InUse
    <3>3. CASE ~(b > Len(placed))
      BY <1>0, <3>1, <3>3
    <3> QED BY <3>2, <3>3
  <2>2. /\ i \in 1 .. Len(held) /\ k \in 1 .. n /\ image.dir[b] = Entry(i, k, b) /\ n \in Nat /\ k \in Nat
        /\ placed[b] = <<i, k>>
    <3>1. IsPlaced(b, placed[b])
      BY <1>0, <2>1 DEF PackedSoFar
    <3>2. i \in 1 .. Len(held) /\ k \in 1 .. n /\ image.dir[b] = Entry(i, k, b)
      BY <3>1 DEF IsPlaced
    <3>3. n \in Nat
      BY <1>0, <3>2, LengthsAre
    <3>4. placed[b] \in Nat \X Nat
      BY <1>0, <2>1
    <3> QED BY <3>2, <3>3, <3>4
  <2> HIDE DEF i, k, n
  <2>3. k # n /\ image.dir[b].link = b
    <3>1. image.dir[b].link = IF k = n THEN NO_NEXT ELSE b
      BY <2>2 DEF Entry, n
    <3> QED BY <1>1, <3>1
  <2>4. k < n /\ Succ(placed[b]) = <<i, k + 1>>
    <3>1. k < n
      BY <2>2, <2>3
    <3> QED BY <3>1, <2>2 DEF Succ, n, i, k
  <2>5. b < Len(placed)
    <3> SUFFICES ASSUME b = Len(placed) PROVE FALSE
      BY <2>1, <1>0
    <3>1. <<i, k + 1>> = <<Len(held) + 1, 1>>
      BY <2>1, <2>4, PackedNext
    <3>2. k + 1 = 1
      BY <3>1
    <3> QED BY <3>2, <2>2
  <2>6. placed[b + 1] = <<i, k + 1>> /\ b + 1 \in 1 .. Len(placed)
    BY SMTT(30), <1>0, <2>1, <2>4, <2>5, PackedNext
  <2>7. b + 1 \in Slots
    BY <1>0, <2>6 DEF PackedSoFar, Slots
  <2>8. image.dir[b + 1] = Entry(i, k + 1, b + 1)
    <3>1. PICK c : c = b + 1
      OBVIOUS
    <3>2. c \in 1 .. Len(placed)
      BY <2>6, <3>1
    <3>3. IsPlaced(c, placed[c])
      BY <1>0, <3>2 DEF PackedSoFar
    <3>4. image.dir[c] = Entry(placed[c][1], placed[c][2], c)
      BY <3>3 DEF IsPlaced
    <3>5. placed[c] = <<i, k + 1>>
      BY <2>6, <3>1
    <3>6. placed[c][1] = i /\ placed[c][2] = k + 1
      BY <3>5
    <3> QED BY <3>1, <3>4, <3>6
  <2>9. image.dir[b + 1].state \in {"MIDDLE", "LAST"}
    BY <2>2, <2>8 DEF Entry
  <2> QED BY <2>3, <2>7, <2>9
<1>2. \A b \in Slots : LeadsOn(image.dir, b)
  BY <1>1 DEF LeadsOn
<1>3. \A a, b \in Slots : LeadsAlone(image.dir, a, b)
  BY <1>1 DEF LeadsAlone
<1> QED BY <1>2, <1>3 DEF Led

-----------------------------------------------------------------------------
(* The tool holds the card there is, and a card no entry of which is       *)
(* damaged stays one whose every save comes to an end.                     *)

\* The area a card opened is given back is its own.
LEMMA AreaKept ==
  ASSUME card.area \in Areas
  PROVE  (IF SystemArea = "none" THEN Formatted ELSE SystemArea) = card.area
BY FormattedAssumption DEF SystemArea

LEMMA SameStep ==
  ASSUME IInv, Same, [Next]_vars
  PROVE  Same'
<1>0. Phases /\ TypeOK
  BY DEF IInv
<1>1. CASE Console
  <2>1. pc = "closed" /\ UNCHANGED <<pc, toolVars>>
    BY <1>1 DEF Console, ConsoleSave, ConsoleDelete, Decay
  <2> QED BY <1>0, <2>1 DEF Same, Phases, toolVars, bundleVars
<1>2. CASE Open
  <2>1. ~checking /\ kept = <<>> /\ held = <<>>
    BY <1>0, <1>2 DEF Open, Phases
  <2> QED BY <1>2, <2>1 DEF Open, StartReading, Same, bundleVars
<1>3. CASE ScanSlot \/ EndChain \/ FollowLink \/ RefuseChain
  <2>1. pc \in {"scan", "chain"} /\ UNCHANGED <<disk, checking, card, held, kept, heldArea, image>>
    BY <1>3 DEF ScanSlot, EndChain, FollowLink, RefuseChain, bundleVars, buildVars, toolVars, readVars
  <2> QED BY <2>1 DEF Same, AreaToWrite
<1>4. CASE Opened
  <2>1. /\ pc = "scan" /\ ~checking /\ checking' = checking /\ pc' = "editing" /\ disk' = disk
        /\ kept' = (IF found = <<>> THEN <<card>> ELSE <<>>) /\ heldArea' = SystemArea
    BY <1>4 DEF Opened
  <2>2. card = disk
    BY <2>1 DEF Same
  <2>3. card.area \in Areas
    BY <1>0 DEF TypeOK, Cards
  <2>4. AreaToWrite' = card.area
    BY <2>1, <2>3, AreaKept DEF AreaToWrite
  <2>5. kept' # <<>> => kept'[1] = card
    BY <2>1
  <2> QED BY <2>1, <2>2, <2>4, <2>5 DEF Same
<1>5. CASE Edit
  <2>1. pc = "editing" /\ pc' = pc /\ ~checking /\ checking' = checking /\ kept' = <<>>
    BY <1>0, <1>5 DEF Edit, RemoveSave, AddSave, Phases
  <2> QED BY <2>1 DEF Same
<1>6. CASE StartBuild \/ RefuseSave \/ PlaceBlock
  <2>1. /\ pc \in {"editing", "build"} /\ pc' \in {"build", "refused"} /\ ~checking /\ checking' = checking
        /\ UNCHANGED <<disk, kept, heldArea>>
    BY <1>0, <1>6 DEF StartBuild, RefuseSave, PlaceBlock, Phases, bundleVars, toolVars
  <2> QED BY <2>1 DEF Same, AreaToWrite
<1>7. CASE FinishBuild
  <2>1. /\ checking' = TRUE /\ image' = [image EXCEPT !.area = AreaToWrite] /\ card' = image'
        /\ UNCHANGED <<disk, held, kept, heldArea>> /\ pc = "build"
    BY <1>7 DEF FinishBuild, StartReading, bundleVars, AreaToWrite
  <2>2. image'.area = AreaToWrite /\ kept = <<>>
    <3>1. image \in Cards
      BY <1>0 DEF TypeOK
    <3>2. kept = <<>>
      BY <2>1 DEF IInv
    <3> QED BY <2>1, <3>1, <3>2 DEF Cards
  <2>3. AreaToWrite' = AreaToWrite
    BY <2>1 DEF AreaToWrite
  <2> QED BY <2>1, <2>2, <2>3 DEF Same
<1>8. CASE WriteImage
  <2>1. /\ checking' = TRUE /\ image' = kept[1] /\ card' = kept[1] /\ kept # <<>>
        /\ UNCHANGED <<disk, held, kept, heldArea>>
    BY <1>8 DEF WriteImage, StartReading, bundleVars
  <2>2. AreaToWrite' = AreaToWrite
    BY <2>1 DEF AreaToWrite
  <2> QED BY <2>1, <2>2 DEF Same
<1>9. CASE CheckBack
  <2>1. found = held
    BY <1>9, AllFound DEF CheckBack
  <2>2. pc' = "closed" /\ ~checking' /\ kept' = <<>>
    BY <1>9, <2>1 DEF CheckBack, PutAway, Drop
  <2> QED BY <2>2 DEF Same
<1>10. CASE Resume
  <2>1. pc' = "editing" /\ ~checking' /\ UNCHANGED <<disk, kept, heldArea>>
    BY <1>10 DEF Resume, Drop, bundleVars
  <2> QED BY <2>1 DEF Same, AreaToWrite
<1>11. CASE Close
  <2>1. pc' = "closed" /\ ~checking' /\ kept' = <<>>
    BY <1>11 DEF Close, PutAway, Drop
  <2> QED BY <2>1 DEF Same
<1>12. CASE UNCHANGED vars
  <2>1. UNCHANGED <<disk, pc, checking, card, held, kept, heldArea, image>>
    BY <1>12 DEF vars, toolVars, readVars, bundleVars, buildVars
  <2> QED BY <2>1 DEF Same, AreaToWrite
<1> QED BY <1>1, <1>2, <1>3, <1>4, <1>5, <1>6, <1>7, <1>8, <1>9, <1>10, <1>11, <1>12 DEF Next, Read, Build, Check

\* What a checked card becomes the file of.
LEMMA CheckedIs ==
  ASSUME IInv, Seen, Same, Whole, CheckBack
  PROVE  /\ found = held /\ disk' = image /\ PutAway /\ card = image
         /\ Contained(disk') = held /\ Contained(disk') # Unreadable /\ disk'.area = AreaToWrite
         /\ damage = 0 => Tidy(disk')
<1>0. pc = "scan" /\ checking /\ slot > SLOTS
  BY DEF CheckBack
<1>1. found = held
  BY <1>0, AllFound
<1>2. disk' = image /\ PutAway
  BY <1>1 DEF CheckBack
<1>3. card = image /\ image.area = AreaToWrite
  BY <1>0 DEF Same
<1>4. Reads(card) /\ found = Contained(card) /\ Contained(card) # Unreadable
  BY <1>0, AllSeen
<1> DEFINE d == disk'
<1>5. d = card
  BY <1>2, <1>3
<1> HIDE DEF d
<1>6. Reads(d) /\ found = Contained(d) /\ Contained(d) # Unreadable
  BY <1>4, <1>5
<1>7. ASSUME damage = 0 PROVE Tidy(d)
  <2>1. CASE kept = <<>>
    <3>1. Led(image.dir)
      BY <1>0, <2>1, BuiltLed
    <3> QED BY <1>3, <1>5, <1>6, <3>1 DEF Tidy
  <2>2. CASE kept # <<>>
    <3>1. d = disk
      BY <1>0, <1>5, <2>2 DEF IInv, KeptIsEmpty, Same
    <3> QED BY <1>7, <3>1 DEF Whole
  <2> QED BY <2>1, <2>2
<1> QED BY <1>1, <1>2, <1>3, <1>6, <1>7 DEF d

LEMMA WholeStep ==
  ASSUME IInv, Seen, Same, Whole, [Next]_vars
  PROVE  Whole'
<1>0. TypeOK /\ damage \in Nat
  BY BoundsAssumption DEF IInv, TypeOK
<1> DEFINE d == disk'
<1>1. ASSUME damage' = 0 PROVE Tidy(d)
  <2>1. CASE Console
    <3>0. d \in Cards
      BY <1>0, <2>1, ConsoleType
    <3>1. ASSUME NEW game \in Games, ConsoleSave(game) PROVE Tidy(d)
      <4>1. Tidy(disk)
        BY <1>1, <3>1 DEF Whole, ConsoleSave
      <4> QED BY <1>0, <3>0, <3>1, <4>1, ConsoleSaves
    <3>2. ASSUME NEW game \in Games, ConsoleDelete(game) PROVE Tidy(d)
      <4>1. Tidy(disk)
        BY <1>1, <3>2 DEF Whole, ConsoleDelete
      <4> QED BY <1>0, <3>0, <3>2, <4>1, ConsoleDeletes
    <3>3. ASSUME NEW b \in Slots, NEW state \in States, NEW link \in LinkWords, Decay(b, state, link) PROVE FALSE
      BY <1>0, <1>1, <3>3 DEF Decay
    <3> QED BY <2>1, <3>1, <3>2, <3>3 DEF Console
  <2>2. CASE CheckBack
    <3>1. damage = 0
      BY <1>1, <2>2 DEF CheckBack
    <3> QED BY <2>2, <3>1, CheckedIs
  <2>3. CASE Open \/ Read \/ Edit \/ Build \/ Resume \/ Close \/ UNCHANGED vars
    <3>1. UNCHANGED <<disk, damage>>
      BY <2>3 DEF Open, Read, ScanSlot, EndChain, FollowLink, RefuseChain, Opened, Edit, RemoveSave, AddSave,
                  Build, StartBuild, RefuseSave, PlaceBlock, FinishBuild, WriteImage, Resume, Close, vars
    <3>2. d = disk
      BY <3>1
    <3> QED BY <1>1, <3>1, <3>2 DEF Whole
  <2> QED BY <2>1, <2>2, <2>3 DEF Next, Check
<1> QED BY <1>1 DEF Whole, d

LEMMA InitRInv == Init => RInv
<1> SUFFICES ASSUME Init PROVE RInv
  OBVIOUS
<1>1. IInv
  BY InitIInv
<1>2. Seen /\ Count /\ Same
  BY DEF Init, Seen, Count, Same
<1>3. Tidy(disk)
  <2>1. ASSUME NEW b \in Slots PROVE disk.dir[b].state = "FREE"
    BY DEF Init, Blank, FreeEntry
  <2>2. Reads(disk)
    BY <2>1 DEF Reads, Firsts
  <2>3. \A b \in Slots : LeadsOn(disk.dir, b)
    BY <2>1 DEF LeadsOn, InUse
  <2>4. \A a, b \in Slots : LeadsAlone(disk.dir, a, b)
    BY <2>1 DEF LeadsAlone, InUse
  <2> QED BY <2>2, <2>3, <2>4 DEF Tidy, Led
<1> QED BY <1>1, <1>2, <1>3 DEF RInv, Whole

LEMMA RInvStep == RInv /\ [Next]_vars => RInv'
<1> SUFFICES ASSUME RInv, [Next]_vars PROVE RInv'
  OBVIOUS
<1>1. IInv'
  BY TypeStep, PhasesStep, BuildingStep, ReadingBackStep, KeptStep DEF IInv, RInv
<1>2. Seen' /\ Count' /\ Same' /\ Whole'
  BY SeenStep, CountStep, SameStep, WholeStep DEF RInv
<1> QED BY <1>1, <1>2 DEF RInv

-----------------------------------------------------------------------------
(* A PlayStation card is a CardContents.                                   *)

LEMMA PhaseIs ==
  ASSUME Phases
  PROVE  Phase = CASE pc \in {"closed", "corrupt"} -> "closed"
                   [] pc \in {"scan", "chain"} -> IF checking THEN "open" ELSE "closed"
                   [] pc \in {"editing", "build"} -> "open"
                   [] OTHER -> pc
BY DEF Phases, Phase

\* A list with a save more, as CardContents has it.
LEMMA OneMoreSave ==
  ASSUME NEW more \in Seq(Saves), NEW fewer \in Seq(Saves), NEW save, NEW i \in Nat, Inserted(more, fewer, save, i)
  PROVE  /\ Len(more) = Len(fewer) + 1 /\ more # fewer
         /\ i \in DOMAIN more /\ more[i] = save /\ fewer = Promise!Without(more, i)
<1>1. /\ i \in 1 .. Len(more) /\ Len(more) = Len(fewer) + 1 /\ more[i] = save
      /\ \A j \in 1 .. Len(fewer) : fewer[j] = IF j < i THEN more[j] ELSE more[j + 1]
  BY DEF Inserted
<1>2. /\ Len(fewer) \in Nat /\ fewer = [j \in 1 .. Len(fewer) |-> fewer[j]]
      /\ i \in DOMAIN more
  BY <1>1
<1>3. Len(more) - 1 = Len(fewer) /\ Len(more) # Len(fewer)
  <2> DEFINE m == Len(more)
             n == Len(fewer)
  <2>1. n \in Nat /\ m = n + 1
    BY <1>1, <1>2
  <2> HIDE DEF m, n
  <2>2. m - 1 = n /\ m # n
    BY <2>1
  <2> QED BY <2>2 DEF m, n
<1>4. fewer = [j \in 1 .. Len(more) - 1 |-> IF j < i THEN more[j] ELSE more[j + 1]]
  BY <1>1, <1>2, <1>3
<1>5. fewer = Promise!Without(more, i)
  BY <1>4 DEF Promise!Without
<1> QED BY <1>1, <1>2, <1>3, <1>5

\* A step the tool takes on the way, of which CardContents sees nothing.
LEMMA Unseen ==
  ASSUME Phase' = Phase, UNCHANGED <<disk, damage, held, heldArea>>
  PROVE  UNCHANGED Promise!vars
<1>1. Contained(disk)' = Contained(disk) /\ disk.area' = disk.area /\ AreaHeld' = AreaHeld
  BY DEF AreaHeld, AreaToWrite
<1> QED BY <1>1 DEF Promise!vars

LEMMA ConsoleIsContents ==
  ASSUME RInv, RInv', Console
  PROVE  Promise!Next \/ UNCHANGED Promise!vars
<1>0. /\ TypeOK /\ disk' \in Cards /\ damage \in Nat /\ damage' \in Nat /\ Phases /\ Phases'
      /\ (damage = 0 => Tidy(disk)) /\ disk \in Cards
  BY ConsoleType, BoundsAssumption DEF RInv, IInv, TypeOK, Whole
<1>1. pc = "closed" /\ pc' = "closed" /\ UNCHANGED <<held, heldArea>>
  BY DEF Console, ConsoleSave, ConsoleDelete, Decay, toolVars, bundleVars
<1>2. disk'.area = disk.area
  <2>1. disk \in Cards
    BY <1>0
  <2>2. ASSUME NEW game \in Games, ConsoleSave(game) PROVE disk'.area = disk.area
    BY <2>1, <2>2 DEF ConsoleSave, Cards
  <2>3. ASSUME NEW game \in Games, ConsoleDelete(game) PROVE disk'.area = disk.area
    BY <2>1, <2>3 DEF ConsoleDelete, Cards
  <2>4. ASSUME NEW b \in Slots, NEW state \in States, NEW link \in LinkWords, Decay(b, state, link)
        PROVE  disk'.area = disk.area
    BY <2>1, <2>4 DEF Decay, Cards
  <2> QED BY <2>2, <2>3, <2>4 DEF Console
<1>3. Phase = "closed" /\ Phase' = "closed"
  BY <1>1 DEF Phase
<1>4. AreaHeld = disk.area /\ AreaHeld' = disk.area /\ AreaHeld' = AreaHeld /\ (disk.area)' = disk.area
  BY <1>2, <1>3 DEF AreaHeld
<1>5. ASSUME damage' # 0, damage' \in {damage, damage + 1} PROVE Promise!Damage
  BY <1>0, <1>1, <1>3, <1>4, <1>5 DEF Promise!Damage
<1> DEFINE was == Contained(disk)
           is == Contained(disk')
<1>6. Contained(disk)' = is
  OBVIOUS
<1>7. Tidy(disk) => was \in Seq(Saves) /\ was # Unreadable
  BY <1>0, ContainedType DEF Tidy
<1>8. Tidy(disk') => is \in Seq(Saves) /\ is # Unreadable
  <2> DEFINE d == disk'
  <2>1. d \in Cards
    BY <1>0
  <2> HIDE DEF d
  <2>2. Tidy(d) => Contained(d) \in Seq(Saves) /\ Contained(d) # Unreadable
    BY <2>1, ContainedType DEF Tidy
  <2> QED BY <2>2 DEF d
<1> HIDE DEF was, is
<1>9. ASSUME NEW game \in Games, ConsoleSave(game) PROVE Promise!Next
  <2>1. damage' = damage
    BY <1>9 DEF ConsoleSave
  <2>2. CASE damage = 0
    <3>1. Tidy(disk') /\ \E i \in Nat : Inserted(is, was, game, i)
      BY <1>0, <1>9, <2>2, ConsoleSaves DEF is, was
    <3>2. PICK i \in Nat : Inserted(is, was, game, i)
      BY <3>1
    <3>3. is \in Seq(Saves) /\ was \in Seq(Saves) /\ Unreadable \notin {was, is}
      BY <1>0, <1>7, <1>8, <2>2, <3>1
    <3>4. Len(is) = Len(was) + 1 /\ is # was /\ i \in DOMAIN is /\ is[i] = game /\ was = Promise!Without(is, i)
      BY <3>2, <3>3, OneMoreSave
    <3>5. Promise!Console
      BY <1>1, <1>3, <1>4, <1>6, <2>1, <3>3, <3>4 DEF Promise!Console, was
    <3> QED BY <3>5 DEF Promise!Next
  <2>3. CASE damage # 0
    BY <1>0, <1>5, <2>1, <2>3 DEF Promise!Next
  <2> QED BY <2>2, <2>3
<1>10. ASSUME NEW game \in Games, ConsoleDelete(game) PROVE Promise!Next \/ UNCHANGED Promise!vars
  <2>1. damage' = damage
    BY <1>10 DEF ConsoleDelete
  <2>2. CASE damage = 0
    <3>1. Tidy(disk') /\ (disk' = disk \/ \E save \in Saves, i \in Nat : Inserted(was, is, save, i))
      BY <1>0, <1>10, <2>2, ConsoleDeletes DEF is, was
    <3>2. CASE disk' = disk
      BY <1>1, <1>3, <2>1, <3>2, Unseen
    <3>3. CASE disk' # disk
      <4>1. PICK save \in Saves, i \in Nat : Inserted(was, is, save, i)
        BY <3>1, <3>3
      <4>2. is \in Seq(Saves) /\ was \in Seq(Saves) /\ Unreadable \notin {was, is}
        BY <1>0, <1>7, <1>8, <2>2, <3>1
      <4>3. is # was /\ i \in DOMAIN was /\ is = Promise!Without(was, i)
        BY <4>1, <4>2, OneMoreSave
      <4>4. Promise!Console
        BY <1>1, <1>3, <1>4, <1>6, <2>1, <4>2, <4>3 DEF Promise!Console, was
      <4> QED BY <4>4 DEF Promise!Next
    <3> QED BY <3>2, <3>3
  <2>3. CASE damage # 0
    BY <1>0, <1>5, <2>1, <2>3 DEF Promise!Next
  <2> QED BY <2>2, <2>3
<1>11. ASSUME NEW b \in Slots, NEW state \in States, NEW link \in LinkWords, Decay(b, state, link) PROVE Promise!Next
  <2>1. damage' = damage + 1
    BY <1>11 DEF Decay
  <2> QED BY <1>0, <1>5, <2>1 DEF Promise!Next
<1> QED BY <1>9, <1>10, <1>11 DEF Console

LEMMA CardIsContents ==
  ASSUME RInv, RInv', [Next]_vars
  PROVE  Promise!Next \/ UNCHANGED Promise!vars
<1>0. IInv /\ TypeOK /\ Phases /\ Phases' /\ Seen /\ Count /\ Same /\ Whole
  BY DEF RInv, IInv
<1>1. CASE Console
  BY <1>1, ConsoleIsContents
<1>2. CASE Open \/ ScanSlot \/ EndChain \/ FollowLink \/ StartBuild \/ PlaceBlock \/ FinishBuild \/ WriteImage
  <2>1. UNCHANGED <<disk, damage, held, heldArea>>
    BY <1>2 DEF Open, ScanSlot, EndChain, FollowLink, StartBuild, PlaceBlock, FinishBuild, WriteImage, bundleVars
  <2>2. Phase' = Phase
    <3>1. CASE Open \/ StartBuild \/ PlaceBlock \/ FinishBuild \/ WriteImage
      BY <1>0, <3>1 DEF Phases, Phase, Open, StartBuild, PlaceBlock, FinishBuild, WriteImage
    <3>2. CASE ScanSlot \/ EndChain \/ FollowLink
      BY <3>2 DEF Phase, ScanSlot, EndChain, FollowLink
    <3> QED BY <1>2, <3>1, <3>2
  <2> QED BY <2>1, <2>2, Unseen
<1>3. CASE RefuseChain
  <2>1. ~checking /\ pc \in {"scan", "chain"} /\ pc' = "corrupt" /\ UNCHANGED <<disk, damage, held, heldArea, checking>>
    BY <1>0, <1>3, NeverRefusedReadingBack DEF RefuseChain, toolVars, bundleVars
  <2>2. Phase' = Phase
    BY <2>1 DEF Phase
  <2> QED BY <2>1, <2>2, Unseen
<1>4. CASE Opened
  <2>1. /\ pc = "scan" /\ ~checking /\ slot > SLOTS /\ held' = found /\ heldArea' = SystemArea
        /\ pc' = "editing" /\ UNCHANGED <<disk, damage, checking>>
    BY <1>4 DEF Opened
  <2>2. card = disk /\ card.area \in Areas
    BY <1>0, <2>1 DEF Same, TypeOK, Cards
  <2>3. found = Contained(disk) /\ Contained(disk) # Unreadable /\ Contained(disk)' = Contained(disk)
    BY <1>0, <2>1, <2>2, AllSeen
  <2>4. Phase = "closed" /\ Phase' = "open"
    BY <2>1 DEF Phase
  <2>5. AreaHeld' = disk.area
    BY <2>1, <2>2, <2>4, AreaKept DEF AreaHeld, AreaToWrite
  <2>6. Promise!Open
    BY <2>1, <2>3, <2>4, <2>5 DEF Promise!Open
  <2> QED BY <2>6 DEF Promise!Next
<1>5. CASE Edit
  <2>1. /\ pc = "editing" /\ pc' = pc /\ UNCHANGED <<disk, damage, heldArea>>
    BY <1>5 DEF Edit, RemoveSave, AddSave
  <2>2. /\ Phase = "open" /\ Phase' = "open" /\ AreaHeld' = AreaHeld /\ Contained(disk)' = Contained(disk)
        /\ (disk.area)' = disk.area
    BY <2>1 DEF Phase, AreaHeld, AreaToWrite
  <2>3. ASSUME NEW i \in DOMAIN held, RemoveSave(i) PROVE Promise!Remove
    <3>1. held' = Promise!Without(held, i)
      BY <2>3 DEF RemoveSave, Promise!Without
    <3> QED BY <2>1, <2>2, <3>1 DEF Promise!Remove
  <2>4. ASSUME NEW game \in Games, AddSave(game) PROVE Promise!Add
    <3>1. held' = Append(held, game)
      BY <2>4 DEF AddSave
    <3> QED BY <2>1, <2>2, <3>1 DEF Promise!Add
  <2> QED BY <1>5, <2>3, <2>4 DEF Edit, Promise!Next
<1>6. CASE RefuseSave
  <2>1. pc = "build" /\ pc' = "refused" /\ UNCHANGED <<disk, damage, held, heldArea>>
    BY <1>6 DEF RefuseSave, toolVars, bundleVars
  <2>2. ~CardFits(held)
    BY <1>0, <1>6, RefusedIsTooMuch
  <2>3. Phase = "open" /\ Phase' = "refused"
    BY <2>1 DEF Phase
  <2>4. AreaHeld' = AreaHeld /\ Contained(disk)' = Contained(disk) /\ (disk.area)' = disk.area
    BY <2>1, <2>3 DEF AreaHeld, AreaToWrite
  <2>5. Promise!Refuse
    BY <2>1, <2>2, <2>3, <2>4 DEF Promise!Refuse
  <2> QED BY <2>5 DEF Promise!Next
<1>7. CASE CheckBack
  <2>1. pc = "scan" /\ checking /\ UNCHANGED damage
    BY <1>7 DEF CheckBack
  <2>2. PutAway /\ Contained(disk') = held /\ disk'.area = AreaToWrite
    BY <1>0, <1>7, CheckedIs
  <2>3. Contained(disk)' = held /\ (disk.area)' = AreaToWrite
    BY <2>2
  <2>4. CardFits(held)
    BY <1>0, <2>1, BuiltFits
  <2>5. Phase = "open" /\ Phase' = "closed" /\ held' = <<>>
    BY <2>1, <2>2 DEF Phase, PutAway
  <2>6. AreaHeld = AreaToWrite /\ AreaHeld' = (disk.area)'
    BY <2>5 DEF AreaHeld
  <2>7. Promise!PutAway
    BY <2>5, <2>6 DEF Promise!PutAway
  <2>8. Promise!Write
    BY <2>1, <2>3, <2>4, <2>5, <2>6, <2>7 DEF Promise!Write, DirectoryOrder
  <2> QED BY <2>8 DEF Promise!Next
<1>8. CASE Resume
  <2>1. pc \in {"refused", "corrupt"} /\ (pc = "corrupt" => checking) /\ pc' = "editing"
        /\ UNCHANGED <<disk, damage, held, heldArea>>
    BY <1>8 DEF Resume, bundleVars
  <2>2. Phase = "refused" /\ Phase' = "open"
    BY <1>0, <2>1 DEF Phase, Phases
  <2>3. AreaHeld' = AreaHeld /\ Contained(disk)' = Contained(disk) /\ (disk.area)' = disk.area
    BY <2>1, <2>2 DEF AreaHeld, AreaToWrite
  <2>4. Promise!Resume
    BY <2>1, <2>2, <2>3 DEF Promise!Resume
  <2> QED BY <2>4 DEF Promise!Next
<1>9. CASE Close
  <2>1. /\ pc = "editing" \/ (pc = "corrupt" /\ ~checking)
        /\ pc' = "closed" /\ held' = <<>> /\ UNCHANGED <<disk, damage>>
    BY <1>9 DEF Close, PutAway
  <2>2. /\ Phase' = "closed" /\ Contained(disk)' = Contained(disk) /\ (disk.area)' = disk.area
        /\ AreaHeld' = (disk.area)'
    BY <2>1 DEF Phase, AreaHeld
  <2>3. CASE pc = "editing"
    <3>1. Phase = "open"
      BY <2>3 DEF Phase
    <3>2. Promise!PutAway
      BY <2>1, <2>2 DEF Promise!PutAway
    <3>3. Promise!Close
      BY <2>1, <2>2, <3>1, <3>2 DEF Promise!Close
    <3> QED BY <3>3 DEF Promise!Next
  <2>4. CASE pc = "corrupt" /\ ~checking
    <3>1. Phase = "closed" /\ held = <<>>
      BY <1>0, <2>4 DEF Phase, Same
    <3>2. AreaHeld = disk.area
      BY <3>1 DEF AreaHeld
    <3> QED BY <2>1, <2>2, <3>1, <3>2 DEF Promise!vars
  <2> QED BY <2>1, <2>3, <2>4
<1>10. CASE UNCHANGED vars
  <2>1. UNCHANGED <<disk, damage, held, heldArea, pc, checking>>
    BY <1>10 DEF vars, toolVars, bundleVars
  <2>2. Phase' = Phase
    BY <2>1 DEF Phase
  <2> QED BY <2>1, <2>2, Unseen
<1> QED BY <1>1, <1>2, <1>3, <1>4, <1>5, <1>6, <1>7, <1>8, <1>9, <1>10 DEF Next, Read, Build, Check

LEMMA NewIsContents == Init => Promise!Init
<1> SUFFICES ASSUME Init PROVE Promise!Init
  OBVIOUS
<1>1. /\ pc = "closed" /\ damage = 0 /\ held = <<>> /\ disk.area \in Areas
      /\ \A b \in Slots : disk.dir[b].state = "FREE"
  BY DEF Init, Blank, FreeEntry
<1>2. Firsts(disk) = {}
  BY <1>1 DEF Firsts
<1>3. Reads(disk)
  BY <1>2 DEF Reads
<1>4. Contained(disk) = <<>>
  <2> DEFINE l == Contained(disk)
             rec == At(disk)
  <2>1. l = Listing(SLOTS, {}, rec)
    BY <1>2, <1>3, SofarIs
  <2>2. {} \in SUBSET (1 .. SLOTS) /\ SLOTS \in Nat
    BY SlotsAssumption
  <2> HIDE DEF l, rec
  <2>3. \A s \in {} : rec[s] \in {}
    OBVIOUS
  <2>4. l \in Seq({})
    BY <2>1, <2>2, <2>3, ListingIs DEF Of
  <2>5. ~(1 \in 1 .. Len(l))
    BY <2>4
  <2>6. l = <<>>
    BY <2>4, <2>5
  <2> QED BY <2>6 DEF l
<1>5. Phase = "closed"
  BY <1>1 DEF Phase
<1>6. AreaHeld = disk.area
  BY <1>5 DEF AreaHeld
<1> QED BY <1>1, <1>4, <1>5, <1>6 DEF Promise!Init

\* Whatever a console's allocator made of the card, and whatever of it decayed,
\* what read_directory reads are the saves there are, every one whole; what is
\* written is the list held, with the header block it came with; and only saves
\* that do not fit are refused, the card then untouched.
THEOREM CardKeepsItsPromise == Spec => KeepsItsPromise
<1>1. RInv /\ RInv' /\ [Next]_vars => [Promise!Next]_(Promise!vars)
  BY CardIsContents
<1> QED BY <1>1, InitRInv, RInvStep, NewIsContents, PTL DEF Spec, Promise!Spec, KeepsItsPromise
=============================================================================
