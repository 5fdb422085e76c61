------------------------------ MODULE Ps1Card ------------------------------
(***************************************************************************)
(* A PlayStation memory card as crates/ps1-memcard reads and writes it,    *)
(* with the adapter crates/one-saves-convert/src/card/ps1.rs around it.    *)
(*                                                                         *)
(* A console (external) saves and deletes on `disk`, fragmenting it.  The  *)
(* tool opens the card: a scan of the directory, one slot a step, that     *)
(* follows each save's chain one link a step.  It edits the list of saves  *)
(* it got, rebuilds a card from the list one block a step, reads the       *)
(* rebuilt card back with the same reader, and only then replaces `disk`.  *)
(*                                                                         *)
(* A block's contents, a save's name and what the header block holds       *)
(* beyond the directory are opaque values; checksums are left out.         *)
(***************************************************************************)
EXTENDS Chains

CONSTANTS
    SLOTS,        \* directory entries, one per data block: 15 on a real card
    Names,        \* what a directory entry calls a save
    NoName,       \* ... and what a continuation entry has instead
    Contents,     \* what a block of a save can hold
    Zeros,        \* ... and what a block nothing was written to holds
    Areas,        \* header blocks that differ outside the directory
    Formatted,    \* ... and the one a builder writes from nothing
    Games,        \* the saves a console or an edit may bring
    MaxHeld,      \* bound: saves the tool holds at once
    MaxDamage     \* bound: fields of entries that decay or are mis-written

ASSUME SlotsAssumption == SLOTS \in Nat /\ SLOTS >= 1 /\ SLOTS < 65535
ASSUME FormattedAssumption == Formatted \in Areas /\ "none" \notin Areas
ASSUME BoundsAssumption == MaxHeld \in Nat /\ MaxDamage \in Nat

Slots == 1 .. SLOTS
NO_NEXT == 65535

\* The state word of a directory entry.  DELETED is any other value: what a
\* console leaves of a deleted save.
States == {"FIRST", "MIDDLE", "LAST", "FREE", "DELETED"}

\* LinkWords are zero-based: block b is written b - 1.  SLOTS is past the card.
LinkWords == 0 .. SLOTS \cup {NO_NEXT}

Entries == [state : States, size : Nat, link : LinkWords, name : Names \cup {NoName}]
Cards == [dir : [Slots -> Entries], data : [Slots -> Contents \cup {Zeros}],
          area : Areas]
Saves == [name : Names \cup {NoName}, data : Seq(Contents \cup {Zeros})]

ASSUME GamesAssumption == Games \subseteq Saves

FreeEntry == [state |-> "FREE", size |-> 0, link |-> NO_NEXT, name |-> NoName]
Blank == [dir |-> [b \in Slots |-> FreeEntry], data |-> [b \in Slots |-> Zeros],
          area |-> Formatted]

VARIABLES
    disk,      \* the card file
    damage,    \* how many entries have been damaged
    pc,        \* what the tool is doing
    checking,  \* whether the card being read is the rebuilt one
    card,      \* the bytes being parsed
    slot,      \* read_directory's slot
    chain,     \* follow_chain's blocks so far, while pc = "chain"
    found,     \* the saves read_directory has collected
    held,      \* the saves of the bundle, in part order
    kept,      \* the bundle's card-image part, if it carries one: <<>> or <<a card>>
    heldArea,  \* the bundle's system_area, or "none"
    image,     \* the card being built
    nextBlock, \* the builder's next_block
    saved,     \* how many saves the builder has finished
    index,     \* how many blocks of the next save it has placed
    placed     \* history: <<save, block of it>> of each block placed, in order

readVars == <<card, slot, chain, found>>
bundleVars == <<held, kept, heldArea>>
buildVars == <<image, nextBlock, saved, index, placed>>
toolVars == <<checking, readVars, bundleVars, buildVars>>
vars == <<disk, damage, pc, toolVars>>

Init ==
    /\ disk \in {[Blank EXCEPT !.area = a] : a \in Areas}
    /\ damage = 0
    /\ pc = "closed" /\ checking = FALSE
    /\ card = Blank /\ slot = 1 /\ chain = <<>> /\ found = <<>>
    /\ held = <<>> /\ kept = <<>> /\ heldArea = "none"
    /\ image = Blank /\ nextBlock = 1 /\ saved = 0 /\ index = 0 /\ placed = <<>>

-----------------------------------------------------------------------------
(* The console, which is external: it saves into whatever entries are      *)
(* free, in any order, and deletes by marking entries, links left behind.  *)

Injective(s) == \A i, j \in DOMAIN s : s[i] = s[j] => i = j
BlockLists(n) == {s \in [1 .. n -> Slots] : Injective(s)}

ConsoleEntry(name, blocks, i) ==
    [state |-> IF i = 1 THEN "FIRST" ELSE IF i = Len(blocks) THEN "LAST" ELSE "MIDDLE",
     size |-> IF i = 1 THEN Len(blocks) ELSE 0,
     link |-> IF i = Len(blocks) THEN NO_NEXT ELSE blocks[i + 1] - 1,
     name |-> IF i = 1 THEN name ELSE NoName]

ConsoleSave(game) ==
    /\ pc = "closed"
    /\ game.data # <<>>
    /\ \A b \in Slots : disk.dir[b].name # game.name
    /\ \E blocks \in BlockLists(Len(game.data)) :
         LET used == {blocks[i] : i \in DOMAIN blocks}
             at(b) == CHOOSE i \in DOMAIN blocks : blocks[i] = b
         IN /\ \A b \in used : disk.dir[b].state \in {"FREE", "DELETED"}
            /\ disk' = [disk EXCEPT
                 !.dir = [b \in Slots |-> IF b \in used
                            THEN ConsoleEntry(game.name, blocks, at(b)) ELSE @[b]],
                 !.data = [b \in Slots |-> IF b \in used
                             THEN game.data[at(b)] ELSE @[b]]]
    /\ UNCHANGED <<damage, pc, toolVars>>

ConsoleDelete(game) ==
    /\ pc = "closed"
    /\ \E blocks \in BlockLists(Len(game.data)) :
         /\ \A i \in DOMAIN blocks :
              disk.dir[blocks[i]] = ConsoleEntry(game.name, blocks, i)
         /\ disk' = [disk EXCEPT !.dir = [b \in Slots |->
                       IF \E i \in DOMAIN blocks : blocks[i] = b
                       THEN [@[b] EXCEPT !.state = "DELETED", !.name = NoName]
                       ELSE @[b]]]
    /\ UNCHANGED <<damage, pc, toolVars>>

\* A worn cell, or a writer that is not careful: one field of an entry is wrong.
Decay(b, state, link) ==
    /\ pc = "closed"
    /\ damage < MaxDamage
    /\ state = disk.dir[b].state \/ link = disk.dir[b].link
    /\ damage' = damage + 1
    /\ disk' = [disk EXCEPT !.dir[b].state = state, !.dir[b].link = link]
    /\ UNCHANGED <<pc, toolVars>>

Console ==
    \/ \E game \in Games : ConsoleSave(game) \/ ConsoleDelete(game)
    \/ \E b \in Slots, state \in States, link \in LinkWords : Decay(b, state, link)

-----------------------------------------------------------------------------
(* MemoryCard::parse: read_directory and follow_chain.                     *)

StartReading(bytes) == card' = bytes /\ slot' = 1 /\ chain' = <<>> /\ found' = <<>>

Open ==
    /\ pc = "closed"
    /\ StartReading(disk)
    /\ pc' = "scan"
    /\ UNCHANGED <<disk, damage, checking, bundleVars, buildVars>>

\* Only a FIRST entry starts a save.
ScanSlot ==
    /\ pc = "scan"
    /\ slot <= SLOTS
    /\ IF card.dir[slot].state = "FIRST"
       THEN pc' = "chain" /\ chain' = <<slot>> /\ slot' = slot
       ELSE pc' = pc /\ chain' = chain /\ slot' = slot + 1
    /\ UNCHANGED <<disk, damage, checking, card, found, bundleVars, buildVars>>

Link == card.dir[chain[Len(chain)]].link

EndChain ==
    /\ pc = "chain"
    /\ Link = NO_NEXT
    /\ found' = Append(found, [name |-> card.dir[slot].name,
                               data |-> [i \in DOMAIN chain |-> card.data[chain[i]]]])
    /\ slot' = slot + 1
    /\ chain' = <<>>
    /\ pc' = "scan"
    /\ UNCHANGED <<disk, damage, checking, card, bundleVars, buildVars>>

\* Mutant: a block may come round again.
ContinuesAgain(b) == b <= SLOTS /\ card.dir[b].state \in {"MIDDLE", "LAST"}

\* Whether the chain may go on at block b: on the card, not there already,
\* and a continuation.
Continues(b) ==
    /\ b <= SLOTS
    /\ \A i \in DOMAIN chain : chain[i] # b
    /\ card.dir[b].state \in {"MIDDLE", "LAST"}

FollowLink ==
    /\ pc = "chain"
    /\ Link # NO_NEXT
    /\ Continues(Link + 1)
    /\ chain' = Append(chain, Link + 1)
    /\ UNCHANGED <<disk, damage, pc, checking, card, slot, found, bundleVars, buildVars>>

\* Mutant: the save is passed over, and the scan not moved past it.
PassOverChain ==
    /\ pc = "chain"
    /\ Link # NO_NEXT
    /\ ~Continues(Link + 1)
    /\ pc' = "scan"
    /\ chain' = <<>>
    /\ UNCHANGED <<disk, damage, checking, card, slot, found, bundleVars, buildVars>>

RefuseChain ==
    /\ pc = "chain"
    /\ Link # NO_NEXT
    /\ ~Continues(Link + 1)
    /\ pc' = "corrupt"
    /\ UNCHANGED <<disk, damage, toolVars>>

\* Mutant: the directory alone decides.
AreaOfOddDirectory ==
    IF \A b \in Slots : card.dir[b].state = "FIRST" \/ card.dir[b] = FreeEntry
    THEN "none" ELSE card.area

\* MemoryCard::system_area: the header block, where a builder would not
\* write the same from the saves' own entries.
SystemArea ==
    LET regenerated == [b \in Slots |-> IF card.dir[b].state = "FIRST"
                                        THEN card.dir[b] ELSE FreeEntry]
    IN IF card.area = Formatted /\ card.dir = regenerated THEN "none" ELSE card.area

\* ps1::read: one part per save, or the card's own image when there are none.
Opened ==
    /\ pc = "scan"
    /\ ~checking
    /\ slot > SLOTS
    /\ held' = found
    /\ kept' = IF found = <<>> THEN <<card>> ELSE <<>>
    /\ heldArea' = SystemArea
    /\ StartReading(Blank)
    /\ pc' = "editing"
    /\ UNCHANGED <<disk, damage, checking, buildVars>>

-----------------------------------------------------------------------------
(* Editing: a part taken out or put in, and any image with it, as          *)
(* one-saves-tui's Card::edited does.                                      *)

RemoveSave(i) ==
    /\ pc = "editing"
    /\ held' = [j \in 1 .. Len(held) - 1 |-> IF j < i THEN held[j] ELSE held[j + 1]]
    /\ kept' = <<>>
    /\ UNCHANGED <<disk, damage, pc, checking, readVars, heldArea, buildVars>>

AddSave(game) ==
    /\ pc = "editing"
    /\ Len(held) < MaxHeld
    /\ held' = Append(held, game)
    /\ kept' = <<>>
    /\ UNCHANGED <<disk, damage, pc, checking, readVars, heldArea, buildVars>>

-----------------------------------------------------------------------------
(* ps1::write and CardBuilder::build.                                      *)

StartBuild ==
    /\ pc = "editing"
    /\ kept = <<>>
    /\ image' = Blank
    /\ nextBlock' = 1 /\ saved' = 0 /\ index' = 0 /\ placed' = <<>>
    /\ pc' = "build"
    /\ UNCHANGED <<disk, damage, checking, readVars, bundleVars>>

Save == held[saved + 1]
Blocks == Len(Save.data)

\* Mutant: one block more than there is.
FullOffByOne == nextBlock + Blocks - 1 > SLOTS + 1

EmptySave == Blocks = 0
Full == nextBlock + Blocks - 1 > SLOTS

\* Decided before any block of the save is placed.
RefuseSave ==
    /\ pc = "build"
    /\ saved < Len(held)
    /\ index = 0
    /\ EmptySave \/ Full
    /\ pc' = "refused"
    /\ UNCHANGED <<disk, damage, toolVars>>

\* Mutants: a link in blocks rather than zero-based; the last block decided
\* before the first; a size on every entry.
EntryLinkedFromOne(i) ==
    [state |-> IF i = 0 THEN "FIRST" ELSE IF i = Blocks - 1 THEN "LAST" ELSE "MIDDLE",
     size |-> IF i = 0 THEN Blocks ELSE 0,
     link |-> IF i + 1 = Blocks THEN NO_NEXT ELSE nextBlock + i + 1,
     name |-> IF i = 0 THEN Save.name ELSE NoName]
EntryLastBeforeFirst(i) ==
    [state |-> IF i = Blocks - 1 THEN "LAST" ELSE IF i = 0 THEN "FIRST" ELSE "MIDDLE",
     size |-> IF i = 0 THEN Blocks ELSE 0,
     link |-> IF i + 1 = Blocks THEN NO_NEXT ELSE nextBlock + i,
     name |-> IF i = 0 THEN Save.name ELSE NoName]
EntrySizedThroughout(i) ==
    [state |-> IF i = 0 THEN "FIRST" ELSE IF i = Blocks - 1 THEN "LAST" ELSE "MIDDLE",
     size |-> Blocks,
     link |-> IF i + 1 = Blocks THEN NO_NEXT ELSE nextBlock + i,
     name |-> IF i = 0 THEN Save.name ELSE NoName]

\* The entry of a save's index-th block, counting from 0.
BuiltEntry(i) ==
    [state |-> IF i = 0 THEN "FIRST" ELSE IF i = Blocks - 1 THEN "LAST" ELSE "MIDDLE",
     size |-> IF i = 0 THEN Blocks ELSE 0,
     link |-> IF i + 1 = Blocks THEN NO_NEXT ELSE nextBlock + i,
     name |-> IF i = 0 THEN Save.name ELSE NoName]

PlaceBlock ==
    /\ pc = "build"
    /\ saved < Len(held)
    /\ index > 0 \/ ~(EmptySave \/ Full)
    /\ image' = [image EXCEPT !.dir[nextBlock + index] = BuiltEntry(index),
                              !.data[nextBlock + index] = Save.data[index + 1]]
    /\ placed' = Append(placed, <<saved + 1, index + 1>>)
    /\ IF index + 1 = Blocks
       THEN saved' = saved + 1 /\ index' = 0 /\ nextBlock' = nextBlock + Blocks
       ELSE saved' = saved /\ index' = index + 1 /\ nextBlock' = nextBlock
    /\ UNCHANGED <<disk, damage, pc, checking, readVars, bundleVars>>

-----------------------------------------------------------------------------
(* one-saves-tui's Card::save: what was built replaces the file once it    *)
(* has been read back and holds as many saves.                             *)

\* The header block: the one kept, every directory frame rewritten, or a new one.
FinishBuild ==
    /\ pc = "build"
    /\ saved = Len(held)
    /\ image' = [image EXCEPT !.area = IF heldArea = "none" THEN Formatted ELSE heldArea]
    /\ StartReading(image')
    /\ checking' = TRUE
    /\ pc' = "scan"
    /\ UNCHANGED <<disk, damage, bundleVars, nextBlock, saved, index, placed>>

\* image_only: the bytes the card was read from.
WriteImage ==
    /\ pc = "editing"
    /\ kept # <<>>
    /\ image' = kept[1]
    /\ StartReading(kept[1])
    /\ checking' = TRUE
    /\ pc' = "scan"
    /\ UNCHANGED <<disk, damage, bundleVars, nextBlock, saved, index, placed>>

\* The builder and the reader are dropped, and what they held is gone.
Drop ==
    /\ checking' = FALSE
    /\ StartReading(Blank)
    /\ image' = Blank /\ nextBlock' = 1 /\ saved' = 0 /\ index' = 0 /\ placed' = <<>>

\* The card is done with, and the bundle goes too.
PutAway ==
    /\ pc' = "closed"
    /\ held' = <<>> /\ kept' = <<>> /\ heldArea' = "none"
    /\ Drop

CheckBack ==
    /\ pc = "scan"
    /\ checking
    /\ slot > SLOTS
    /\ IF Len(found) = Len(held)
       THEN disk' = image /\ PutAway
       ELSE pc' = "refused" /\ UNCHANGED <<disk, toolVars>>
    /\ UNCHANGED damage

\* A refused write leaves the card open as it was edited.
Resume ==
    /\ pc \in {"refused", "corrupt"}
    /\ pc = "corrupt" => checking
    /\ pc' = "editing"
    /\ Drop
    /\ UNCHANGED <<disk, damage, bundleVars>>

Close ==
    /\ pc = "editing" \/ (pc = "corrupt" /\ ~checking)
    /\ PutAway
    /\ UNCHANGED <<disk, damage>>

Read == ScanSlot \/ EndChain \/ FollowLink \/ RefuseChain \/ Opened
Edit ==
    \/ \E i \in DOMAIN held : RemoveSave(i)
    \/ \E game \in Games : AddSave(game)
Build == StartBuild \/ RefuseSave \/ PlaceBlock \/ FinishBuild \/ WriteImage
Check == CheckBack \/ Resume

Next == Console \/ Open \/ Read \/ Edit \/ Build \/ Check \/ Close

\* The reader and the builder are plain loops: once started they run on.
Loops == Read \/ RefuseSave \/ PlaceBlock \/ FinishBuild \/ CheckBack
Spec == Init /\ [][Next]_vars /\ WF_vars(Loops)
-----------------------------------------------------------------------------

TypeOK ==
    /\ disk \in Cards /\ card \in Cards /\ image \in Cards
    /\ damage \in 0 .. MaxDamage
    /\ pc \in {"closed", "scan", "chain", "editing", "build", "refused", "corrupt"}
    /\ checking \in BOOLEAN /\ kept \in {<<>>} \cup [{1} -> Cards]
    /\ slot \in 1 .. SLOTS + 1
    /\ chain \in Seq(Slots)
    /\ found \in Seq(Saves) /\ held \in Seq(Saves)
    /\ heldArea \in Areas \cup {"none"}
    /\ nextBlock \in 1 .. SLOTS + 1
    /\ saved \in Nat /\ index \in Nat
    /\ placed \in Seq(Nat \X Nat)

\* follow_chain: however a card's links were damaged, a chain being followed
\* never holds a block twice, which is what ends it.
ChainIsSimple == pc = "chain" => Injective(chain)

\* CardBuilder::build and read_directory agree: whatever was read or edited,
\* once a rebuilt card has been read back the saves found are the saves held,
\* in the same order, every one with its name and with all its blocks.
ReadsBackTheSame == pc = "scan" /\ checking /\ slot > SLOTS => found = held

\* A card the builder made is never one its own reader calls corrupt.
RebuiltIsSound == checking => pc # "corrupt"

\* What the console's firmware goes by: on a card the builder finished, the
\* size of a save is on its first entry alone and is the length of its chain,
\* and every entry in use is on the chain of one save.
SizesAgree ==
    checking /\ kept = <<>> =>
      LET firsts == {b \in Slots : image.dir[b].state = "FIRST"}
          next(b) == image.dir[b].link + 1
      IN \A b \in Slots :
           LET e == image.dir[b] IN
           CASE e.state = "FIRST" ->
                  /\ e.size >= 1
                  /\ \A i \in 0 .. e.size - 1 : LET at == b + i IN
                       /\ i < e.size - 1 => next(at) = at + 1
                       /\ i = e.size - 1 => image.dir[at].link = NO_NEXT
                       /\ i > 0 => image.dir[at].state \in {"MIDDLE", "LAST"}
             [] e.state = "FREE" -> e = FreeEntry
             [] OTHER -> e.size = 0 /\ \E f \in firsts : f < b /\ b < f + image.dir[f].size

\* A parse, a build and a read-back all come to an end.
Settles == pc \in {"scan", "chain", "build"} ~> pc \in {"closed", "editing", "refused", "corrupt"}

-----------------------------------------------------------------------------
(* A PlayStation card is a CardContents. *)
CONSTANT Unreadable    \* what a card with a broken chain holds

ASSUME UnreadableAssumption == Unreadable \notin Seq(Saves)

Routes == UNION {BlockLists(n) : n \in Slots}

\* The ways along a save's links to the end of it: one at the most.
Ways(dir, first) ==
    {way \in Routes :
      /\ way[1] = first
      /\ \A i \in 2 .. Len(way) : /\ dir[way[i - 1]].link = way[i] - 1
                                 /\ dir[way[i]].state \in {"MIDDLE", "LAST"}
      /\ dir[way[Len(way)]].link = NO_NEXT}
SaveAt(c, first) ==
    LET way == CHOOSE way \in Ways(c.dir, first) : TRUE
    IN [name |-> c.dir[first].name, data |-> [j \in DOMAIN way |-> c.data[way[j]]]]

\* What a card holds, in directory order, if every save on it comes to an end.
Firsts(c) == {b \in Slots : c.dir[b].state = "FIRST"}
Reads(c) == \A b \in Firsts(c) : Ways(c.dir, b) # {}
Contained(c) ==
    LET firsts == InOrder(SLOTS, Firsts(c))
    IN IF Reads(c) THEN [i \in DOMAIN firsts |-> SaveAt(c, firsts[i])] ELSE Unreadable

Lengths(saves) == [i \in DOMAIN saves |-> Len(saves[i].data)]
CardFits(saves) == (\A i \in DOMAIN saves : saves[i].data # <<>>) /\ Total(Lengths(saves)) <= SLOTS
DirectoryOrder(saves) == saves

Phase == CASE pc \in {"scan", "chain", "build"} -> IF checking \/ pc = "build" THEN "open" ELSE "closed"
           [] pc = "corrupt" -> IF checking THEN "refused" ELSE "closed"
           [] pc = "editing" -> "open"
           [] OTHER -> pc

AreaToWrite == IF heldArea = "none" THEN Formatted ELSE heldArea
AreaHeld == IF Phase = "closed" THEN disk.area ELSE AreaToWrite

Promise == INSTANCE CardContents WITH
    Fits <- CardFits, Arranged <- DirectoryOrder,
    contents <- Contained(disk), area <- disk.area, held <- held, heldArea <- AreaHeld,
    phase <- Phase, damage <- damage

\* Whatever a console's allocator did to the card before, what the tool reads
\* is what the card holds, and what it writes is the list it was given, every
\* save whole, with the header block it came with; it is refused only when the
\* saves do not fit, and then the card is untouched.  The same is so of what
\* can be read of a card an entry of which is damaged.
KeepsItsPromise == Promise!Spec
=============================================================================
