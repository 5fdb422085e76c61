----------------------------- MODULE OtherCards -----------------------------
(***************************************************************************)
(* The card editor over the five formats whose consoles keep one copy of   *)
(* what they write: crates/one-saves-convert/src/card/mod.rs and           *)
(* crates/one-saves-tui/src/model.rs around the modules of the formats.    *)
(* A console (external) saves and deletes, each whole; a card may be       *)
(* damaged; the tool reads it, edits the saves and writes a card anew.     *)
(*                                                                         *)
(* What the bundle carries of a card beside its saves is its area.  What   *)
(* blocks hold, and names, are numbers.                                    *)
(***************************************************************************)
EXTENDS Integers, Sequences, SequencesExt

CONSTANTS
    Formats,    \* of "n64", "vmu", "neogeo", "saturn", "ps2"
    Sizes,      \* the blocks, or clusters, of a card of each
    MAX,        \* how many saves a directory holds, where it has a limit
    CONTENT,    \* units in a block of a Saturn volume
    UNITS,      \* units in a cluster of a PlayStation 2 card
    LongNames,  \* names too long for a Saturn entry once read as text
    Folders,    \* names of a PlayStation 2's own directories
    Games,      \* the saves a console or an edit may bring
    MaxHeld,    \* bound: saves the tool holds at once
    MaxDamage   \* bound: how often a card is damaged

ASSUME FormatsAssumption == Formats \subseteq {"n64", "vmu", "neogeo", "saturn", "ps2"}
ASSUME SizesAssumption ==
    /\ Sizes \in [Formats -> Nat \ {0}]
    /\ MAX \in Nat \ {0} /\ CONTENT \in Nat \ 0 .. 2 /\ UNITS \in Nat \ {0}
    /\ \A game \in Games : game.system \in Formats

ASSUME BoundsAssumption == MaxHeld \in Nat /\ MaxDamage \in Nat

\* What blocks hold, and names, are numbers.  A Neo Geo save has a name.
SavesOf(system) ==
    CASE system = "n64" -> [system : {"n64"}, name : Nat, data : Seq(Nat)]
      [] system = "vmu" -> [system : {"vmu"}, name : Nat, kind : {"data", "game"}, data : Seq(Nat)]
      [] system = "neogeo" -> [system : {"neogeo"}, name : Nat \ {0}, data : Seq(Nat)]
      [] system = "saturn" -> [system : {"saturn"}, name : Nat, data : Seq(Nat)]
ASSUME GamesAssumption ==
    \A game \in Games : game.system \in {"n64", "vmu", "neogeo", "saturn"} => game \in SavesOf(game.system)

VARIABLES
    format,  \* what the file was found to be
    disk,    \* the card file
    reads,   \* what a tool that opened it would read of it
    damage,  \* how often the card has been damaged
    pc,      \* what the tool is doing
    held,    \* the saves of the bundle
    kept,    \* the bundle's card-image part, if it carries one: <<>> or <<a card>>
    area     \* the bundle's system_area

toolVars == <<pc, held, kept, area>>
vars == <<format, disk, reads, damage, toolVars>>

N64 == INSTANCE N64Pak WITH Size <- Sizes["n64"], Zeros <- 0
Vmu == INSTANCE VmuCard WITH Size <- Sizes["vmu"], Zeros <- 0
NeoGeo == INSTANCE NeoGeoCard WITH Size <- Sizes["neogeo"], Zeros <- 0
Saturn == INSTANCE SaturnVolume WITH Size <- Sizes["saturn"]
Ps2 == INSTANCE Ps2Card WITH Size <- Sizes["ps2"]

\* A PlayStation 2 card has no area: what is not a save there is a directory.
None == "none"
AreaOf(card) ==
    CASE format = "n64" -> card.label
      [] format = "vmu" -> card.root
      [] format = "neogeo" -> card.header
      [] format = "saturn" -> card.area
      [] format = "ps2" -> None

Blank ==
    CASE format = "n64" -> N64!Blank("own")
      [] format = "vmu" -> Vmu!Blank("own")
      [] format = "neogeo" -> NeoGeo!Blank("own")
      [] format = "saturn" -> Saturn!Blank("own")
      [] format = "ps2" -> Ps2!Blank

\* card::read and card::write.
read(card) ==
    CASE format = "n64" -> N64!parse(card)
      [] format = "vmu" -> Vmu!parse(card)
      [] format = "neogeo" -> NeoGeo!parse(card)
      [] format = "saturn" -> Saturn!parse(card)
      [] format = "ps2" -> Ps2!parse(card)

write(saves, system_area) ==
    CASE format = "n64" -> N64!build(saves, system_area)
      [] format = "vmu" -> Vmu!build(saves, system_area)
      [] format = "neogeo" -> NeoGeo!build(saves, system_area)
      [] format = "saturn" -> Saturn!build(saves, system_area)
      [] format = "ps2" -> Ps2!build(saves)

Init ==
    /\ format \in Formats
    /\ disk = Blank /\ reads = read(disk)
    /\ damage = 0
    /\ pc = "closed" /\ held = <<>> /\ kept = <<>> /\ area = None

-----------------------------------------------------------------------------
(* Between sittings.  A console given a damaged card is left out.          *)

Idle == pc = "closed" /\ damage = 0

ConsoleSave ==
    /\ Idle
    /\ \E game \in {g \in Games : g.system = format} :
         /\ \A i \in DOMAIN reads.saves : reads.saves[i].name # game.name
         /\ disk' \in CASE format = "n64" -> N64!Saved(disk, game)
                        [] format = "vmu" -> Vmu!Saved(disk, game)
                        [] format = "neogeo" -> NeoGeo!Saved(disk, game)
                        [] format = "saturn" -> Saturn!Saved(disk, game)
                        [] format = "ps2" -> Ps2!Saved(disk, game)
    /\ reads' = read(disk')
    /\ UNCHANGED <<format, damage, toolVars>>

ConsoleDelete ==
    /\ Idle
    /\ disk' \in CASE format = "n64" -> N64!Deleted(disk)
                   [] format = "vmu" -> Vmu!Deleted(disk)
                   [] format = "neogeo" -> NeoGeo!Deleted(disk)
                   [] format = "saturn" -> Saturn!Deleted(disk)
                   [] format = "ps2" -> Ps2!Deleted(disk)
    /\ reads' = read(disk')
    /\ UNCHANGED <<format, damage, toolVars>>

Damaged ==
    /\ pc = "closed" /\ damage < MaxDamage
    /\ damage' = damage + 1
    /\ disk' \in CASE format = "n64" -> N64!Damaged(disk)
                   [] format = "vmu" -> Vmu!Damaged(disk)
                   [] format = "neogeo" -> NeoGeo!Damaged(disk)
                   [] format = "saturn" -> Saturn!Damaged(disk)
                   [] format = "ps2" -> Ps2!Damaged(disk)
    /\ reads' = read(disk')
    /\ UNCHANGED <<format, toolVars>>

Console == ConsoleSave \/ ConsoleDelete \/ Damaged

-----------------------------------------------------------------------------
(* The tool: the adapters' read and write, edits, and Card::save.          *)

\* One part per save, or the card's own image when there are none.
Open ==
    /\ pc = "closed"
    /\ reads.ok
    /\ held' = reads.saves
    /\ kept' = IF held' = <<>> THEN <<disk>> ELSE <<>>
    /\ area' = AreaOf(disk)
    /\ pc' = "editing"
    /\ UNCHANGED <<format, disk, reads, damage>>

\* Mutant: the image of the card as it was stays in the bundle.
EditedKeeping(saves) ==
    /\ pc = "editing"
    /\ held' = saves
    /\ UNCHANGED <<format, disk, reads, damage, pc, kept, area>>

Edited(saves) ==
    /\ pc = "editing"
    /\ held' = saves
    /\ kept' = <<>>
    /\ UNCHANGED <<format, disk, reads, damage, pc, area>>

\* Edits as the library allows them, which counts nothing until it builds;
\* CardSession has the card editor's count of free blocks.
RemoveSave == \E i \in DOMAIN held : Edited(RemoveAt(held, i))
AddSave ==
    /\ Len(held) < MaxHeld
    /\ \E game \in {g \in Games : g.system = format} : Edited(Append(held, game))

PutAway == pc' = "closed" /\ held' = <<>> /\ kept' = <<>> /\ area' = None

\* What is built is read back before it replaces the file, and has to hold
\* as many saves, a console's own directories not counted.
Rebuilt == IF kept # <<>> THEN [ok |-> TRUE, card |-> kept[1]] ELSE write(held, area)
Counted(saves) == SelectSeq(saves, LAMBDA save : save.system = "ps2" => save.name \notin Folders)
ReadsBack(rebuilt) ==
    LET back == read(rebuilt.card)
    IN rebuilt.ok /\ back.ok /\ Len(Counted(back.saves)) = Len(Counted(held))

Write ==
    /\ pc = "editing"
    /\ LET rebuilt == Rebuilt
       IN IF ReadsBack(rebuilt)
          THEN disk' = rebuilt.card /\ reads' = read(disk') /\ PutAway
          ELSE pc' = "refused" /\ UNCHANGED <<disk, reads, held, kept, area>>
    /\ UNCHANGED <<format, damage>>

Resume ==
    /\ pc = "refused"
    /\ pc' = "editing"
    /\ UNCHANGED <<format, disk, reads, damage, held, kept, area>>

Close ==
    /\ pc = "editing"
    /\ PutAway
    /\ UNCHANGED <<format, disk, reads, damage>>

Tool == Open \/ RemoveSave \/ AddSave \/ Write \/ Resume \/ Close
Next == Console \/ Tool
Spec == Init /\ [][Next]_vars
-----------------------------------------------------------------------------

\* The card's image is in the bundle only while no save is.
TypeOK ==
    /\ format \in Formats
    /\ damage \in 0 .. MaxDamage
    /\ pc \in {"closed", "editing", "refused"}
    /\ reads.ok \in BOOLEAN
    /\ \A i \in DOMAIN held : held[i].system = format
    /\ kept # <<>> => Len(kept) = 1 /\ held = <<>>
    /\ AreaOf(disk) \in {"own", None} /\ area \in {"own", None}

-----------------------------------------------------------------------------
(* What a card of any of the five formats promises: it is a CardContents. *)
CONSTANT Unreadable    \* what a card that does not read is seen to hold

ASSUME UnreadableAssumption ==
    \A system \in {"n64", "vmu", "neogeo"} : Unreadable \notin Seq(SavesOf(system))

\* Every save is of the format of the first.
CardFits(saves) ==
    \/ saves = <<>>
    \/ LET system == saves[1].system
       IN CASE system = "n64" -> N64!Fits(saves)
            [] system = "vmu" -> Vmu!Fits(saves)
            [] system = "neogeo" -> NeoGeo!Fits(saves)
            [] system = "saturn" -> Saturn!Fits(saves)
            [] system = "ps2" -> Ps2!Fits(saves)
ListedOrder(saves) == saves

Holds == IF reads.ok THEN reads.saves ELSE Unreadable

\* A card of one of the five formats, as any card.
Promise == INSTANCE CardContents WITH
    Areas <- {"own", None}, Fits <- CardFits, Arranged <- ListedOrder,
    contents <- Holds, area <- AreaOf(disk),
    heldArea <- IF pc = "closed" THEN AreaOf(disk) ELSE area,
    phase <- IF pc = "editing" THEN "open" ELSE pc

\* What follows is asked of a card while no tool has it open: it stays the same
\* until one writes it.

\* What a console wrote can always be read, and written anew.
UndamagedIsWritable ==
    pc = "closed" /\ damage = 0 =>
      LET rebuilt == write(reads.saves, AreaOf(disk))
      IN reads.ok /\ rebuilt.ok /\ read(rebuilt.card) = reads

\* However a Saturn volume's lists were damaged, if it reads then its saves,
\* shared blocks and all, can be written anew, but for one of no bytes or
\* with a name that is not text.
SharedBlocksAreCounted ==
    /\ pc = "closed" /\ format = "saturn"
    /\ reads.ok
    /\ \A i \in DOMAIN reads.saves :
         reads.saves[i].data # <<>> /\ reads.saves[i].name \notin LongNames
    => Saturn!Fits(reads.saves)

\* What a tool writes to a VMU has its one mini-game in one piece from the
\* first block, wherever in the list of saves it is; and what a console saves
\* and deletes beside it leaves it there.
GamesRunInPlace ==
    [][format = "vmu" /\ damage' = 0 =>
         /\ pc = "editing" /\ disk' # disk => Vmu!RunsInPlace(disk')
         /\ pc = "closed" /\ (\E s \in 1 .. MAX : Vmu!GamesOf(disk) \subseteq {s}) =>
              (Vmu!RunsInPlace(disk) => Vmu!RunsInPlace(disk'))]_vars

\* No one bad link of a Controller Pak's index that could be no link loses
\* a note, or changes one.
BackupStandsIn ==
    pc = "closed" /\ format = "n64" /\ damage = 0 =>
      \A copy \in 1 .. 2, page \in 1 .. Sizes["n64"] :
        N64!parse([disk EXCEPT !.index[copy][page] = 0]) = reads
=============================================================================
