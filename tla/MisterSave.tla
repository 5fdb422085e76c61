------------------------------ MODULE MisterSave ------------------------------
(***************************************************************************)
(* A Neo Geo card, bare or behind the cabinet's RAM in a MiSTer save, read *)
(* into a bundle and written back (crates/neogeo-memcard and               *)
(* one-saves-convert/src/card/neogeo.rs). Sizes are in the 2 KiB steps     *)
(* cards come in, and blocks are the card's own 64 bytes; a save is a name *)
(* and the run of blocks it is in. What a block or the RAM holds is one    *)
(* value, and the swap of every byte pair is not modelled.                 *)
(***************************************************************************)
EXTENDS Integers, Sequences, FiniteSets, SequencesExt

CONSTANTS
    CardSizes,     \* the sizes, in steps, of the cards there are
    Lengths        \* how many blocks a game's save takes

None == << >>
VARIABLES
    console,       \* what wrote the file: a cabinet, a home console or a CD
    dump,          \* the file: [ram, region, held], a bare card having no ram
    options,       \* what the caller states: [system, role]
    device,        \* the bundle it was read into, or None or Refused
    file           \* what that was written back as

misterVars == <<console, dump, options, device, file>>
Refused == <<"refused", "">>

-----------------------------------------------------------------------------
CART == 1
CD == 4
REGION == 4
BACKUP_RAM == 32
STEP == 2048
BLOCK == 64
BLOCKS == STEP \div BLOCK
RoundedUp(n, by) == (n + by - 1) \div by

(* One directory entry of 4 bytes and one byte of each table to a block. *)
Blocks(size) == BLOCKS * size
first_data_block(size) == 1 + RoundedUp(4 * Blocks(size), 64) + 2 * RoundedUp(Blocks(size), 64)
Room(size) == Blocks(size) - first_data_block(size)

(* The card in a file, as its signature finds it: its header says its size. *)
IsCard(region) == region # None /\ region[1] = "card"
Card(size, saves) == <<"card", [size |-> size, saves |-> saves]>>
header_size(region) == IF IsCard(region) THEN region[2].size ELSE 0
BlocksIn(size, medium) == IF size < medium THEN Blocks(size) ELSE Blocks(medium)

(* Read as large as the medium is, whatever its header claims. *)
parse_within(card, held, medium) ==
    IF \/ held < medium
       \/ first_data_block(card.size) > Blocks(medium)
       \/ \E i \in DOMAIN card.saves : card.saves[i].first + card.saves[i].length > BlocksIn(card.size, medium)
    THEN Refused
    ELSE <<[size |-> card.size, capacity |-> medium, saves |-> card.saves]>>

-----------------------------------------------------------------------------
(* Reading: a card bundle, or a device where the cabinet's RAM holds anything. *)

Stated(says) == {"neogeo", "neogeo-cd"} \cap {says}
role_for(system) ==
    IF options.role # "none" THEN options.role ELSE IF system = "neogeo-cd" THEN "internal" ELSE "neogeo-card"

(* A card of no saves is kept whole, as the medium's bytes. *)
card_bundle(card, system) ==
    [shape |-> "card", system |-> system, role |-> role_for(system), capacity |-> STEP * card.capacity,
     saves |-> [i \in DOMAIN card.saves |-> [name |-> card.saves[i].name, length |-> card.saves[i].length]],
     image |-> IF card.saves = << >> THEN <<[size |-> card.size, held |-> card.capacity]>> ELSE None]
Bundled(read, system) == IF read = Refused THEN Refused ELSE <<card_bundle(read[1], system)>>

(* Two games in the RAM's table are nobody's save in particular. *)
recorded_game(ram) == IF Len(ram) = 1 THEN ram[1] ELSE "none"
Component(role, shape, game, of, length) == [role |-> role, shape |-> shape, game |-> game, of |-> of, length |-> length]
cabinet_device(found) ==
    LET ram == Component("internal", "save", recorded_game(found.ram), found.ram, BACKUP_RAM)
        role == role_for("neogeo")
        card == Bundled(parse_within(found.region[2], found.held, CART), "neogeo")
    IN IF IsCard(found.region)
       THEN IF role = "internal" \/ card = Refused THEN Refused
            ELSE <<[shape |-> "device", parts |-> <<ram, Component(role, "card", "none", card, CART)>>]>>
       ELSE <<[shape |-> "device",
               parts |-> IF found.region = None THEN <<ram>>
                         ELSE <<ram, Component("cartridge", "save", recorded_game(found.ram), found.region, REGION)>>]>>

IsMister(found) == found.ram # <<"bare">>
(* Only in CD mode is there an 8 KiB card and no RAM; a bare card is of any size. *)
Guessed(found) == IF IsMister(found) /\ found.ram = None /\ header_size(found.region) = CD THEN "neogeo-cd" ELSE "neogeo"
MediumOf(found, system) == IF system = "neogeo-cd" THEN CD ELSE CART
Medium(found, system) == IF IsMister(found) THEN MediumOf(found, system) ELSE header_size(found.region)
read(found, says) ==
    LET system == IF Stated(says) # {} THEN says ELSE Guessed(found)
    IN IF IsMister(found) /\ found.ram # None
       THEN IF system = "neogeo-cd" THEN Refused ELSE cabinet_device(found)
       ELSE IF IsCard(found.region)
            THEN Bundled(parse_within(found.region[2], found.held, Medium(found, system)), system) ELSE Refused

-----------------------------------------------------------------------------
(* Writing. The saves go on one after another, at the size asked for. *)

Starts(saves, size) ==
    [i \in DOMAIN saves |-> first_data_block(size) + FoldLeft(LAMBDA sum, save : sum + save.length, 0, SubSeq(saves, 1, i - 1))]
build(bundle, size) ==
    LET starts == Starts(bundle.saves, size)
        past == first_data_block(size) + FoldLeft(LAMBDA sum, save : sum + save.length, 0, bundle.saves)
    IN IF size \notin 1 .. 8 \/ past > Blocks(size) THEN Refused
       ELSE Card(size, [i \in DOMAIN bundle.saves |->
                          [name |-> bundle.saves[i].name, first |-> starts[i], length |-> bundle.saves[i].length]])

(* Older bundles recorded the room for saves, in bytes, where newer ones record the card's size. *)
card_capacity(recorded) ==
    LET older == {size \in 1 .. 8 : recorded = BLOCK * Room(size)}
    IN IF recorded \notin {STEP * size : size \in 1 .. 8} /\ older # {} THEN STEP * (CHOOSE size \in older : TRUE) ELSE recorded
card_size(bundle) == card_capacity(bundle.capacity) \div STEP

Bare(card, held) == [ram |-> <<"bare">>, region |-> card, held |-> held]
card_on_cartridge_medium(bundle) ==
    IF bundle.image = None THEN build(bundle, CART)
    ELSE IF card_size(bundle) > CART \/ bundle.image[1].held > CART THEN Refused
    ELSE Card(bundle.image[1].size, << >>)

(* A part that is empty leaves its half as a fresh file holds it; one that does not fit is refused. *)
Half(part) == IF part.length = 0 THEN None ELSE part.of
write_cabinet(bundle) ==
    LET rams == SelectSeq(bundle.parts, LAMBDA p : p.role = "internal" /\ p.shape = "save")
        beside == SelectSeq(bundle.parts, LAMBDA p : ~(p.role = "internal" /\ p.shape = "save"))
        Put(p) == IF p.shape = "card" THEN card_on_cartridge_medium(p.of[1])
                  ELSE IF p.role = "cartridge" THEN Half(p) ELSE Refused
        put == [i \in DOMAIN beside |-> Put(beside[i])]
    IN IF \/ Len(beside) > 1 \/ \E i \in DOMAIN put : put[i] = Refused
          \/ rams # << >> /\ Last(rams).length \notin {0, BACKUP_RAM}
          \/ beside # << >> /\ beside[1].length > REGION
       THEN Refused
       ELSE <<[ram |-> IF rams = << >> THEN None ELSE Half(Last(rams)), held |-> REGION,
               region |-> IF put = << >> THEN None ELSE put[1]]>>
write(bundle) ==
    IF bundle.shape = "device" THEN write_cabinet(bundle)
    ELSE IF bundle.image # None
         THEN <<Bare(Card(bundle.image[1].size, << >>), bundle.image[1].held)>>
         ELSE LET card == build(bundle, card_size(bundle))
              IN IF card = Refused THEN Refused ELSE <<Bare(card, card_size(bundle))>>

-----------------------------------------------------------------------------
(* What the core keeps (external). It addresses the first 2 KiB of the region *)
(* in cart mode and 8 KiB in CD mode; a card put in the slot may be larger.   *)

Addressed == IF ~IsMister(dump) THEN dump.held ELSE IF console = "cd" THEN CD ELSE CART
Load ==
    /\ device = None /\ dump.region = None
    /\ \E size \in IF console = "cd" THEN {CD} ELSE CardSizes : dump' = [dump EXCEPT !.region = Card(size, << >>)]
    /\ UNCHANGED <<console, options, device, file>>
Save ==
    /\ device = None /\ IsCard(dump.region)
    /\ LET card == dump.region[2]
       IN /\ first_data_block(card.size) < BlocksIn(card.size, Addressed)
          /\ Len(card.saves) < 2
          /\ \E length \in Lengths, gap \in {0, 1} :
               LET after == IF card.saves = << >> THEN first_data_block(card.size)
                            ELSE Last(card.saves).first + Last(card.saves).length
                   run == [name |-> Len(card.saves) + 1, first |-> after + gap, length |-> length]
               IN /\ run.first + length <= BlocksIn(card.size, Addressed)
                  /\ dump' = [dump EXCEPT !.region[2].saves = Append(@, run)]
    /\ UNCHANGED <<console, options, device, file>>
Delete ==
    /\ device = None /\ IsCard(dump.region) /\ dump.region[2].saves # << >>
    /\ dump' = [dump EXCEPT !.region[2].saves = Tail(@)]
    /\ UNCHANGED <<console, options, device, file>>
SetUp ==
    /\ device = None /\ console = "cabinet" /\ dump.ram = None
    /\ \E games \in {<<"a">>, <<"a", "b">>} : dump' = [dump EXCEPT !.ram = games]
    /\ UNCHANGED <<console, options, device, file>>
Jockey ==
    /\ device = None /\ console # "cd" /\ IsMister(dump) /\ dump.region = None
    /\ dump' = [dump EXCEPT !.region = <<"own", 1>>]
    /\ UNCHANGED <<console, options, device, file>>

Systems == {"none", "neogeo", "neogeo-cd", "psx"}
MisterInit ==
    /\ \/ console \in {"cabinet", "home", "cd"} /\ dump = [ram |-> None, region |-> None, held |-> REGION]
       \/ console = "home" /\ \E size \in CardSizes : dump = Bare(Card(size, << >>), size)
    /\ options \in [system : Systems, role : {"none", "internal"}]
    /\ device = None /\ file = None

Convert == device = None /\ device' = read(dump, options.system) /\ UNCHANGED <<console, dump, options, file>>
Older ==
    /\ device \notin {None, Refused} /\ device[1].shape = "card" /\ file = None
    /\ device' = <<[device[1] EXCEPT !.capacity = BLOCK * Room(card_size(device[1]))]>>
    /\ UNCHANGED <<console, dump, options, file>>
(* Another program's device: a part of it longer than this one's, or empty (external). *)
Others ==
    /\ device \notin {None, Refused} /\ device[1].shape = "device" /\ device = read(dump, options.system) /\ file = None
    /\ \E i \in DOMAIN device[1].parts :
          /\ device[1].parts[i].shape = "save"
          /\ \E length \in {0, device[1].parts[i].length + 1} : device' = <<[device[1] EXCEPT !.parts[i].length = length]>>
    /\ UNCHANGED <<console, dump, options, file>>
Extract ==
    /\ device \notin {None, Refused} /\ file = None
    /\ file' = write(device[1])
    /\ UNCHANGED <<console, dump, options, device>>
MisterNext == Load \/ Save \/ Delete \/ SetUp \/ Jockey \/ Convert \/ Older \/ Others \/ Extract
MisterSpec == MisterInit /\ [][MisterNext]_misterVars

-----------------------------------------------------------------------------
MisterTypeOK ==
    /\ dump.held \in 1 .. 8 /\ Len(device) <= 2 /\ Len(file) <= 2
    /\ IsCard(dump.region) => dump.region[2].size \in CardSizes

(* A cabinet's file that was read can be put back, and what the core then sees is *)
(* what it saw: the RAM, a cartridge's own RAM, or the card's saves in their      *)
(* order; and no save put back lies where the core would wrap round to the header.*)
Saved(card) == [i \in DOMAIN card.saves |-> <<card.saves[i].name, card.saves[i].length>>]
CabinetComesBack ==
    device \notin {None, Refused} /\ device[1].shape = "device" /\ device = read(dump, options.system) /\ file # None =>
        /\ file # Refused
        /\ file[1].ram = dump.ram /\ IsMister(file[1])
        /\ IsCard(dump.region) = IsCard(file[1].region)
        /\ ~IsCard(dump.region) => file[1].region = dump.region
        /\ IsCard(dump.region) =>
             LET before == dump.region[2]
                 after == file[1].region[2]
             IN /\ Saved(before) = Saved(after)
                /\ \A i \in DOMAIN after.saves : after.saves[i].first + after.saves[i].length <= Blocks(CART)
                /\ after.saves # << >> => after.size = CART

(* A card a console kept is read, whatever wrote it, with no word from the caller;   *)
(* and what is written reads back as the bundle it was written from, told which      *)
(* system that was: but for a card of no saves whose header is larger than the       *)
(* medium it was on, whose bare image is then too short for its own header, and a    *)
(* half with nothing in it, which is not there to be read.                           *)
ShortImage(bundle) == bundle.shape = "card" /\ bundle.image # None /\ bundle.image[1].size > bundle.image[1].held
HasEmptyHalf(bundle) == bundle.shape = "device" /\ \E i \in DOMAIN bundle.parts : bundle.parts[i].length = 0
WrittenReadsBack ==
    /\ device = Refused => options # [system |-> "none", role |-> "none"] \/ ~IsCard(dump.region)
    /\ file \notin {None, Refused} /\ ~ShortImage(device[1]) /\ ~HasEmptyHalf(device[1]) =>
        LET again == read(file[1], IF device[1].shape = "card" THEN device[1].system ELSE "neogeo")
        IN /\ again # Refused
           /\ device[1].shape = "device" =>
                 /\ Len(again[1].parts) = Len(device[1].parts)
                 /\ \A i \in DOMAIN device[1].parts :
                       device[1].parts[i].shape = "save" => again[1].parts[i] = device[1].parts[i]
           /\ device[1].shape = "card" => again[1].saves = device[1].saves /\ again[1].system = device[1].system

(* A cabinet's RAM never goes missing: its file is read as a device, whatever card is *)
(* beside the RAM, unless the caller calls the card a CD's or its socket the RAM's. And *)
(* a card alone in the core's file is as large as what the core addresses of it.       *)
RamIsNeverDropped ==
    device # None /\ IsMister(dump) =>
        /\ dump.ram # None /\ options.system # "neogeo-cd" /\ options.role = "none" =>
             device # Refused /\ device[1].shape = "device" /\ device[1].parts[1].of = dump.ram
        /\ dump.ram = None /\ device # Refused =>
             device[1].shape = "card" /\ card_size(device[1]) = IF device[1].system = "neogeo-cd" THEN CD ELSE CART
================================================================================
