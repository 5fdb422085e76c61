------------------------------- MODULE MCCards -------------------------------
(* Cards of the five formats and GameCube cards, for TLC: format says which. *)
(* All of them are one machine's; only a GameCube has writing still to do.   *)
(* And beside the cards, the files an N64's cartridges and paks are kept in: *)
(* one or the other, and chip is that of no cartridge while cards are.       *)
EXTENDS MCOtherCards

CONSTANT Unused  \* a GameCube directory entry with no save

VARIABLES
    job,
    chip, files, device, bundle, plays    \* N64Saves

\* A save of one block and one of two, no two blocks alike, and one of none.
GcGames == {[name |-> "a", data |-> <<"a1">>],
            [name |-> "b", data |-> <<"b1", "b2">>],
            [name |-> "z", data |-> <<>>]}

Gc == INSTANCE GcCard WITH
    BLOCK <- 2, KNOWN_SIZES <- {1, 2}, Size <- 2, MAX_ENTRIES <- 2, COUNTERS <- 4,
    Contents <- {"a1", "b1", "b2"}, Zeros <- "zeros", Headers <- {"own", None}, Formatted <- None, Games <- GcGames, Erased <- Unused

ASSUME GcAssumption == Gc!CardIsPossible

\* Each emulator with chips it keeps in a way of its own.
PlayedWith ==
    ({"retroarch"} \X {"eeprom4k", "sram256k"}) \cup {<<"mupen64plus", "eeprom4k">>, <<"everdrive", "sram768k">>}
        \cup ({"project64"} \X {"eeprom16k", "sram768k"})
Nintendo64 == INSTANCE N64Saves WITH
    held <- bundle, Games <- {"g", "h"}, Ports <- {1, 2}, Room <- 2, Saved <- {"x", "y"}, Plays <- 2, Keeps <- PlayedWith
nintendo64Vars == <<chip, files, device, bundle, plays>>

CardsInit ==
    \/ /\ (Init /\ job = <<>>) \/ (Gc!Init /\ format = "gc" /\ reads = Gc!parse(disk))
       /\ chip = "no cartridge" /\ files = <<>> /\ device = <<>> /\ bundle = <<>> /\ plays = 0
    \/ Init /\ format = "n64" /\ job = <<>> /\ Nintendo64!N64Init
CardsNext ==
    \/ chip = "no cartridge" /\ format # "gc" /\ Next /\ UNCHANGED <<job, nintendo64Vars>>
    \/ chip = "no cartridge" /\ format = "gc" /\ Gc!Next /\ reads' = Gc!parse(disk') /\ UNCHANGED <<format, nintendo64Vars>>
    \/ chip # "no cartridge" /\ Nintendo64!N64Next /\ UNCHANGED <<vars, job>>
cardsVars == <<vars, job, nintendo64Vars>>
CardsSpec == CardsInit /\ [][CardsNext]_cardsVars

-----------------------------------------------------------------------------
\* Every variable keeps its type, and a card's image is in the bundle only
\* while no save is.
CardsTypeOK ==
    /\ IF format = "gc" THEN Gc!TypeOK ELSE TypeOK
    /\ chip # "no cartridge" => Nintendo64!N64TypeOK

\* A GameCube's save names no system.
EveryFit(saves) == IF saves # <<>> /\ "system" \notin DOMAIN saves[1] THEN Gc!CardFits(saves) ELSE CardFits(saves)
Area == IF format = "gc" THEN disk.header ELSE AreaOf(disk)

Promised == INSTANCE CardContents WITH
    Games <- Games \cup GcGames, Areas <- {"own", None}, Fits <- EveryFit, Arranged <- ListedOrder,
    contents <- Holds, area <- Area, held <- held,
    heldArea <- IF pc = "closed" THEN Area ELSE area,
    phase <- IF pc = "editing" THEN "open" ELSE pc

\* Whatever console wrote the card, however it laid it out and wherever in its
\* writing a GameCube was switched off or its counters wrapped, the tool reads
\* the saves there were before or after, every one whole; and what it writes
\* is the list it was given with the area it came with, or nothing, where that
\* list does not fit.  What can be read of a damaged card is kept as whole.
EveryCardKeepsItsPromise == Promised!Spec

\* What a console wrote can always be read, and written anew; and so can
\* whatever reads of a GameCube card that was damaged.
EveryCardIsWritable == IF format = "gc" THEN Gc!ReadableIsWritable ELSE UndamagedIsWritable

\* N64Saves: a cartridge's memory is read as the game reads it, and put back
\* where it came from it changes nothing.
MemoryIsKept == chip # "no cartridge" => Nintendo64!MemoryIsRead /\ Nintendo64!PutBackIsNothing

\* N64Saves: written for an emulator or onto a console's files, a save is all
\* there and what was not the bundle's is as it was.
PaksAreKept ==
    [][chip # "no cartridge" => Nintendo64!Restored /\ Nintendo64!OthersKept /\ Nintendo64!OwnNotes]_cardsVars

\* What is kept twice can be lost once: a Controller Pak's index to a bad link,
\* and a GameCube's directory or table to a console switched off.
CopiesStandIn == IF format = "gc" THEN Gc!ACopyStands ELSE BackupStandsIn
==============================================================================
