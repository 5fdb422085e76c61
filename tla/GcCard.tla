------------------------------- MODULE GcCard -------------------------------
(***************************************************************************)
(* A GameCube memory card as crates/gc-memcard reads and writes it, with   *)
(* crates/one-saves-convert/src/card/gc.rs around it.                      *)
(*                                                                         *)
(* The directory and the allocation table are each kept twice.  A console  *)
(* (external) changes one by writing the older of the two with a counter   *)
(* one higher, and may be switched off part-way through any write.  The    *)
(* tool then reads the card, edits the saves and writes a card anew.       *)
(*                                                                         *)
(* Blocks are counted from the first a save may have.  A checksum is       *)
(* whether a copy has one that holds, and a block's contents are opaque.   *)
(***************************************************************************)
EXTENDS Chains

CONSTANTS
    BLOCK,        \* bytes in a block
    KNOWN_SIZES,  \* the blocks for saves on the cards there are
    Size,         \* ... and on this one
    MAX_ENTRIES,  \* how many saves a directory holds
    Erased,       \* a directory entry with no save
    COUNTERS,     \* what an update counter wraps at: 65536, or any even number from 4
    Contents,     \* what a block of a save can hold
    Zeros,        \* ... and what any other holds
    Headers,      \* header blocks
    Formatted,    \* ... and the one a builder makes, with no serial
    Games,        \* the saves a console or an edit may bring
    Unreadable,   \* what a card that does not read holds
    MaxHeld,      \* bound: saves the tool holds at once
    MaxDamage     \* bound: how often a card is damaged

Slots == 1 .. MAX_ENTRIES

VARIABLES
    disk,    \* the card file
    job,     \* what the console has still to write: copies, each of a region
    damage,  \* how often the card has been damaged
    pc,      \* what the tool is doing
    held,    \* the saves of the bundle
    kept,    \* the bundle's card-image part, if it carries one: <<>> or <<a card>>
    area     \* the bundle's system_area

toolVars == <<pc, held, kept, area>>
vars == <<disk, job, damage, toolVars>>

\* A region is a pair of copies; both are written at once only by a builder.
Twice(map) == LET copy == [counter |-> 0, valid |-> TRUE, map |-> map] IN <<copy, copy>>

Blank(header) ==
    [size |-> Size, header |-> header,
     dirs |-> Twice([s \in Slots |-> Erased]),
     tables |-> Twice(Packed(<<>>, Size)),
     data |-> Filled(<<>>, Size, Zeros)]

Init ==
    /\ disk \in {Blank(header) : header \in Headers \ {Formatted}}
    /\ job = <<>> /\ damage = 0
    /\ pc = "closed" /\ held = <<>> /\ kept = <<>> /\ area = Formatted

-----------------------------------------------------------------------------
(* Reading: MemoryCard::parse.                                             *)

\* The copy the console would trust: 1 or 2, or 0 for neither.  Counters
\* wrap, so the higher is the one the other is not far behind.
pick_mirror(pair) ==
    LET ahead == (pair[2].counter - pair[1].counter) % COUNTERS
    IN CASE pair[1].valid /\ pair[2].valid ->
              IF ahead < COUNTERS \div 2 /\ ahead # 0 THEN 2 ELSE 1
         [] pair[1].valid /\ ~pair[2].valid -> 1
         [] ~pair[1].valid /\ pair[2].valid -> 2
         [] OTHER -> 0

Trusted(pair) == pair[pick_mirror(pair)].map

Used(dir) == {s \in Slots : dir[s] # Erased}

\* As many blocks as the entry claims, each a save block and none twice, and
\* no more of them.
follow_chain(table, entry) ==
    /\ entry.first \in DOMAIN table /\ entry.count > 0
    /\ Len(Chain(table, entry.first)) = entry.count

\* Mutant: every entry has the whole card to itself.
EachWithinCard(claims, size) == \A i \in DOMAIN claims : claims[i] <= size

\* No block belongs to two saves on a card in working order, so what all the
\* entries claim is held to the blocks there are.
WithinCard(claims, size) == Total(claims) <= size

NotRead == [ok |-> FALSE, saves |-> <<>>]

parse(card) ==
    LET table == Trusted(card.tables)
        dir == Trusted(card.dirs)
        slots == InOrder(MAX_ENTRIES, Used(dir))
    IN IF /\ pick_mirror(card.dirs) # 0 /\ pick_mirror(card.tables) # 0
          /\ WithinCard([i \in DOMAIN slots |-> dir[slots[i]].count], card.size)
          /\ \A s \in Used(dir) : follow_chain(table, dir[s])
       THEN [ok |-> TRUE,
             saves |-> [i \in DOMAIN slots |->
               [name |-> dir[slots[i]].name,
                data |-> Content(table, card.data, dir[slots[i]].first)]]]
       ELSE NotRead

-----------------------------------------------------------------------------
(* Building: CardBuilder::build.                                           *)

\* The stated capacity, in bytes, where cards come in it, or else the
\* smallest card the saves fit on; 0 where there is none.
card_size(capacity, needed) ==
    LET stated == capacity \div BLOCK
        fitting == {size \in KNOWN_SIZES : size >= needed}
    IN IF stated \in KNOWN_SIZES THEN stated
       ELSE IF fitting = {} THEN 0
       ELSE CHOOSE size \in fitting : \A other \in fitting : size <= other

Lengths(saves) == [k \in DOMAIN saves |-> Len(saves[k].data)]
Count(saves) == Total(Lengths(saves))

\* Saves go one after the other from the first block.
directory_entry(saves, k) ==
    [name |-> saves[k].name, first |-> StartsAt(Lengths(saves), k), count |-> Len(saves[k].data)]

\* Both copies of each region alike, with a counter that starts over.
build(saves, header, capacity) ==
    LET size == card_size(capacity, Count(saves))
    IN [ok |-> Len(saves) <= MAX_ENTRIES /\ Count(saves) <= size,
        card |->
          [size |-> size, header |-> header,
           dirs |-> Twice([s \in Slots |-> IF s \in DOMAIN saves
                                           THEN directory_entry(saves, s) ELSE Erased]),
           tables |-> Twice(Packed(Lengths(saves), size)),
           data |-> Filled(Joined([k \in DOMAIN saves |-> saves[k].data]), size, Zeros)]]

-----------------------------------------------------------------------------
(* The console, which is external.  It goes by the same copies, gives a    *)
(* save its blocks before it names it, and takes its name off before it    *)
(* gives them up.                                                          *)

Copy(region, map) ==
    [region |-> region,
     copy |-> [counter |-> (disk[region][pick_mirror(disk[region])].counter + 1) % COUNTERS,
               valid |-> TRUE, map |-> map]]

\* A console given a damaged card is left out.
Idle == pc = "closed" /\ job = <<>> /\ damage = 0

ConsoleSave(game) ==
    LET dir == Trusted(disk.dirs)
        table == Trusted(disk.tables)
    IN /\ Idle
       /\ \A s \in Used(dir) : dir[s].name # game.name
       /\ \E blocks \in FreeRuns(table, Len(game.data)), slot \in Slots \ Used(dir) :
            LET entry == [name |-> game.name, first |-> blocks[1], count |-> Len(game.data)]
            IN /\ \A s \in 1 .. slot - 1 : s \in Used(dir)
               /\ disk' = [disk EXCEPT !.data = Written(@, blocks, game.data)]
               /\ job' = <<Copy("tables", Given(table, blocks)),
                           Copy("dirs", [dir EXCEPT ![slot] = entry])>>
    /\ UNCHANGED <<damage, toolVars>>

ConsoleDelete(slot) ==
    LET dir == Trusted(disk.dirs)
        table == Trusted(disk.tables)
    IN /\ Idle
       /\ slot \in Used(dir)
       /\ job' = <<Copy("dirs", [dir EXCEPT ![slot] = Erased]),
                   Copy("tables", Freed(table, Chain(table, dir[slot].first)))>>
    /\ UNCHANGED <<disk, damage, toolVars>>

\* The copy not trusted is erased, and then the new one is in its place.
Stale(pair) == IF pick_mirror(pair) = 1 THEN 2 ELSE 1

ConsoleErases ==
    /\ job # <<>>
    /\ LET region == Head(job).region
           stale == Stale(disk[region])
       IN /\ disk[region][stale].valid
          /\ disk' = [disk EXCEPT ![region][stale].valid = FALSE]
    /\ UNCHANGED <<job, damage, toolVars>>

ConsoleWrites ==
    /\ job # <<>>
    /\ LET region == Head(job).region
           stale == Stale(disk[region])
       IN /\ ~disk[region][stale].valid
          /\ disk' = [disk EXCEPT ![region][stale] = Head(job).copy]
    /\ job' = Tail(job)
    /\ UNCHANGED <<damage, toolVars>>

SwitchedOff ==
    /\ job # <<>>
    /\ job' = <<>>
    /\ UNCHANGED <<disk, damage, toolVars>>

\* The copy trusted decays, or a writer that is not careful links a block
\* elsewhere in it, or lists a save again at blocks not its own, with a
\* checksum that holds.
\* (Of the other copy nothing is read, and all is overwritten.)
Damaged ==
    /\ pc = "closed" /\ job = <<>>
    /\ pick_mirror(disk.dirs) # 0 /\ pick_mirror(disk.tables) # 0
    /\ damage < MaxDamage
    /\ damage' = damage + 1
    /\ LET dir == pick_mirror(disk.dirs)
           table == pick_mirror(disk.tables)
       IN \/ disk' = [disk EXCEPT !.dirs[dir].valid = FALSE]
          \/ disk' = [disk EXCEPT !.tables[table].valid = FALSE]
          \/ \E b \in 1 .. Size, link \in {CHAIN_END, FREE} \cup 1 .. Size :
               disk' = [disk EXCEPT !.tables[table].map[b] = link]
          \/ \E s, listed \in Slots, first, count \in 0 .. Size :
               /\ listed \in Used(disk.dirs[dir].map)
               /\ disk' = [disk EXCEPT !.dirs[dir].map[s] =
                             [disk.dirs[dir].map[listed] EXCEPT !.first = first, !.count = count]]
    /\ UNCHANGED <<job, toolVars>>

Console == \/ \E game \in Games : ConsoleSave(game)
           \/ \E slot \in Slots : ConsoleDelete(slot)
           \/ ConsoleErases \/ ConsoleWrites \/ SwitchedOff \/ Damaged

-----------------------------------------------------------------------------
(* The tool: gc::read, edits, gc::write and one-saves-tui's Card::save.    *)

\* One part per save, or the card's own image when there are none.
Open ==
    /\ pc = "closed" /\ job = <<>>
    /\ parse(disk).ok
    /\ held' = parse(disk).saves
    /\ kept' = IF held' = <<>> THEN <<disk>> ELSE <<>>
    /\ area' = disk.header
    /\ pc' = "editing"
    /\ UNCHANGED <<disk, job, damage>>

Edited(saves) ==
    /\ pc = "editing"
    /\ held' = saves
    /\ kept' = <<>>
    /\ UNCHANGED <<disk, job, damage, pc, area>>

RemoveSave == \E i \in DOMAIN held : Edited(RemoveAt(held, i))
AddSave == Len(held) < MaxHeld /\ \E game \in Games : Edited(Append(held, game))

PutAway == pc' = "closed" /\ held' = <<>> /\ kept' = <<>> /\ area' = Formatted

\* What is built is read back before it replaces the file: a save with no
\* bytes is built into a card that does not read.
Rebuilt == IF kept # <<>> THEN [ok |-> TRUE, card |-> kept[1]]
           ELSE build(held, area, Size * BLOCK)
ReadsBack(rebuilt) ==
    LET back == parse(rebuilt.card)
    IN rebuilt.ok /\ back.ok /\ Len(back.saves) = Len(held)

Write ==
    /\ pc = "editing"
    /\ LET rebuilt == Rebuilt
       IN IF ReadsBack(rebuilt)
          THEN disk' = rebuilt.card /\ PutAway
          ELSE pc' = "refused" /\ UNCHANGED <<disk, held, kept, area>>
    /\ UNCHANGED <<job, damage>>

Resume ==
    /\ pc = "refused"
    /\ pc' = "editing"
    /\ UNCHANGED <<disk, job, damage, held, kept, area>>

Close ==
    /\ pc = "editing"
    /\ PutAway
    /\ UNCHANGED <<disk, job, damage>>

Tool == Open \/ RemoveSave \/ AddSave \/ Write \/ Resume \/ Close
Next == Console \/ Tool
Spec == Init /\ [][Next]_vars
-----------------------------------------------------------------------------

Names == {game.name : game \in Games}
Saves == [name : Names, data : Seq(Contents \cup {Zeros})]
Entries == [name : Names, first : 0 .. Size, count : 0 .. Size]
Copies(maps) == [counter : 0 .. COUNTERS - 1, valid : BOOLEAN, map : maps]
Pairs(maps) == [1 .. 2 -> Copies(maps)]
Dirs == [Slots -> Entries \cup {Erased}]
Tables == [1 .. Size -> {CHAIN_END, FREE} \cup 1 .. Size]
Cards == [size : {Size}, header : Headers, dirs : Pairs(Dirs), tables : Pairs(Tables),
          data : [1 .. Size -> Contents \cup {Zeros}]]

\* What the constants are: a card of a size there is, with room in a directory
\* for some saves, of blocks that hold something.
CountersWrap == COUNTERS \in Nat /\ COUNTERS >= 4 /\ COUNTERS % 2 = 0
CardIsPossible ==
    /\ CountersWrap
    /\ BLOCK \in Nat \ {0} /\ KNOWN_SIZES \subseteq Nat \ {0} /\ Size \in KNOWN_SIZES
    /\ MAX_ENTRIES \in Nat /\ MaxDamage \in Nat
    /\ Formatted \in Headers
    /\ Games \subseteq Saves
    /\ Erased \notin [name : Names, first : Nat, count : Nat]
    /\ Unreadable \notin Seq(Saves)

TypeOK ==
    /\ disk \in Cards
    /\ \A i \in DOMAIN job : job[i].region \in {"dirs", "tables"}
    /\ damage \in 0 .. MaxDamage
    /\ pc \in {"closed", "editing", "refused"}
    /\ held \in Seq(Saves)
    /\ kept \in {<<>>, <<disk>>} /\ area \in Headers

\* The lists of saves that go on a card and read back.
CardFits(saves) ==
    /\ \A i \in DOMAIN saves : saves[i].data # <<>>
    /\ Count(saves) <= Size
    /\ Len(saves) <= MAX_ENTRIES

\* Whatever was done to a card, if it reads then what was read can be written
\* to a card of the same size, and reads from there the same: its saves come
\* to no more than the card has room for, blocks shared between them counted
\* once for each.
ReadableIsWritable ==
    pc = "closed" =>
      LET read == parse(disk)
          rebuilt == build(read.saves, disk.header, disk.size * BLOCK)
      IN read.ok => rebuilt.ok /\ parse(rebuilt.card) = read

Regions == {"dirs", "tables"}

\* Wherever in its writing a console was switched off, and however often the
\* counters have wrapped, one copy of each region can be trusted.
ACopyStands == damage = 0 => \A r \in Regions : pick_mirror(disk[r]) # 0

\* What is trusted of a region does not go back, and is never half of a write:
\* while no tool and no damage is at the card it is as it was until the console
\* has written all of the next copy, and is that copy from there.
MovesOn(r) ==
    damage' = 0 /\ pc' = pc /\ Trusted(disk'[r]) # Trusted(disk[r]) =>
      /\ job # <<>> /\ job' = Tail(job)
      /\ Head(job).region = r /\ Trusted(disk'[r]) = Head(job).copy.map
TrustedMovesOn == [][\A r \in Regions : MovesOn(r)]_vars

-----------------------------------------------------------------------------
(* A GameCube card is a CardContents. *)

Holds == IF parse(disk).ok THEN parse(disk).saves ELSE Unreadable
DirectoryOrder(saves) == saves

Promise == INSTANCE CardContents WITH
    Areas <- Headers, Fits <- CardFits, Arranged <- DirectoryOrder,
    contents <- Holds, area <- disk.header, held <- held,
    heldArea <- IF pc = "closed" THEN disk.header ELSE area,
    phase <- IF pc = "editing" THEN "open" ELSE pc

\* Wherever in its writing a console was switched off and however it laid its
\* saves out, the tool reads the saves there were before or after, every one
\* whole; what it writes is the list it was given with the header block it came
\* with, or nothing, where that list does not fit; and what can be read of a
\* damaged card is kept as whole.
KeepsItsPromise == Promise!Spec
=============================================================================
