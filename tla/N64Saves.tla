------------------------------ MODULE N64Saves ------------------------------
(***************************************************************************)
(* A Nintendo 64 cartridge's save and the Controller Paks played with it,  *)
(* as emulators keep them, and crates/one-saves-convert's n64.rs and the   *)
(* command line's n64.rs, which read them into a bundle, cut one game out  *)
(* of it, and write it onto the files another emulator has.                *)
(*                                                                         *)
(* A chip's memory is a sequence of words, a 4 Kbit EEPROM being one, each *)
(* erased, zero, or written: "a", which reversed is "A".                   *)
(***************************************************************************)
EXTENDS Integers, Sequences, FiniteSets

CONSTANTS
    Games,       \* the games whose notes the paks hold
    Ports,       \* a console's
    Room,        \* how many notes a pak has room for
    Saved,       \* what a note can hold
    Plays,       \* how often the model plays
    Keeps        \* the chips played with each emulator, as pairs

Erased == "-"
None == << >>

VARIABLES
    chip,        \* the one the cartridge has
    files,       \* its emulator's: [by, srm, whole, paks], srm its regions, or the chip's own file
    device,      \* what was read: [of, cart, paks], or None
    held,        \* the bundle to write: the device, or one game's cut out of it
    plays

n64Vars == <<chip, files, device, held, plays>>

-----------------------------------------------------------------------------
ChipSizes == [eeprom4k |-> 1, eeprom16k |-> 2, sram256k |-> 2, sram768k |-> 3, flash1m |-> 2]
Chips == DOMAIN ChipSizes
is_eeprom(save) == save \in {"eeprom4k", "eeprom16k"}
is_erased(words) == \A i \in DOMAIN words : words[i] = Erased
is_blank(words) == is_erased(words) \/ \A i \in DOMAIN words : words[i] = "0"

reverse(word) == CASE word = "a" -> "A" [] word = "A" -> "a" [] OTHER -> word
swap_words(words) == [i \in DOMAIN words |-> reverse(words[i])]
InOrder(words, save, order) == IF order = "swapped" /\ ~is_eeprom(save) THEN swap_words(words) ELSE words
Resized(words, n) == [i \in 1 .. n |-> IF i \in DOMAIN words THEN words[i] ELSE Erased]

normalize(words, save, order) ==
    IF Len(words) > ChipSizes[save] /\ ~is_erased(SubSeq(words, ChipSizes[save] + 1, Len(words))) THEN None
    ELSE InOrder(Resized(words, ChipSizes[save]), save, order)
denormalize(normal, save, order) == InOrder(normal, save, order)

-----------------------------------------------------------------------------
(* A libretro .srm: a region for each kind of chip, and the paks.            *)

region(save) ==
    CASE is_eeprom(save) -> "eeprom" [] save = "sram256k" -> "sram" [] save = "flash1m" -> "flash" [] OTHER -> "none"
Regions == [eeprom |-> 2, sram |-> 2, flash |-> 2]

ShortIsFourKbit(srm) ==
    LET written == {r \in DOMAIN Regions : ~is_blank(srm[r])}
    IN CASE written = {"eeprom"} -> IF is_blank(SubSeq(srm.eeprom, 2, 2)) THEN "eeprom4k" ELSE "eeprom16k"
         [] written = {"sram"} -> "sram256k" [] written = {"flash"} -> "flash1m"
         [] written = {} -> "none" [] OTHER -> "unproven"
(* The one region written, and of EEPROM a byte only the larger chip has. *)
chip_written(srm) ==
    LET written == {r \in DOMAIN Regions : ~is_blank(srm[r])}
    IN CASE written = {"eeprom"} -> IF is_blank(SubSeq(srm.eeprom, 2, 2)) THEN "unproven" ELSE "eeprom16k"
         [] written = {"sram"} -> "sram256k" [] written = {"flash"} -> "flash1m"
         [] written = {} -> "none" [] OTHER -> "unproven"

Refused == [ok |-> FALSE, cart |-> None]
Cart(save, normal) == [ok |-> TRUE, cart |-> <<save, normal>>]
NoCart == [ok |-> TRUE, cart |-> None]
cartridge_in(srm, stated) ==
    LET save == IF stated = "unstated" THEN chip_written(srm) ELSE stated
    IN CASE save = "none" -> NoCart
         [] save = "unproven" -> Refused
         [] region(save) = "none" -> Refused
         [] OTHER -> LET memory == SubSeq(srm[region(save)], 1, ChipSizes[save])
                     IN IF is_blank(memory) THEN NoCart ELSE Cart(save, normalize(memory, save, "swapped"))

(* The chip a file of one chip is, where its name and length settle it. *)
chip_extension(by, save) ==
    CASE is_eeprom(save) -> "eep" [] save = "flash1m" -> "fla" [] by = "everdrive" -> "srm" [] OTHER -> "sra"
writes_whole_chips(by) == by = "mupen64plus"
chip_of_file(extension, words, whole_chips) ==
    CASE extension = "fla" -> "flash1m"
      [] extension \in {"sra", "srm"} /\ Len(words) <= 2 -> "sram256k"
      [] extension \in {"sra", "srm"} /\ Len(words) = 3 -> "sram768k"
      [] extension = "eep" /\ ~is_erased(Tail(words)) -> "eeprom16k"
      [] extension = "eep" /\ whole_chips /\ Len(words) = 1 -> "eeprom4k"
      [] OTHER -> "unproven"
order_of_producer(by) == IF by = "everdrive" THEN "console" ELSE "swapped"

ConvertChip(by, words, stated) ==
    LET save == IF stated = "unstated" THEN chip_of_file(chip_extension(by, chip), words, writes_whole_chips(by)) ELSE stated
        normal == normalize(words, save, IF is_eeprom(save) THEN "console" ELSE order_of_producer(by))
    IN IF words = None \/ save = "unproven" THEN Refused
       ELSE IF normal = None THEN Refused ELSE Cart(save, normal)

-----------------------------------------------------------------------------
(* Paks, each with the ID a console knows it by. One that was never          *)
(* formatted is blank, and one whose index does not read has none either.    *)

Blank == -1
Damaged == -2
Made == 0
Pak(id, notes) == [id |-> id, notes |-> notes]
Reads(pak) == pak.id \notin {Blank, Damaged}
Fits(notes) == Len(notes) <= Room
Code(note) == note.game

(* The ports that hold a note, or a refusal. *)
paks_into(paks) ==
    [ok |-> \A port \in Ports : paks[port].id # Damaged,
     paks |-> [port \in {p \in Ports : Reads(paks[p]) /\ paks[p].notes # <<>>} |-> paks[port].notes]]

formatted_pak == Pak(Made, <<>>)
IdOfThere(there) == IF Reads(there) THEN there.id ELSE Made
(* A device's pak goes back whole, on the pak it replaces. *)
write_onto(notes, there) == Pak(IdOfThere(there), notes)
(* A game's notes replace that game's. *)
MergedOnto(there, incoming) == Pak(IdOfThere(there), there.notes \o incoming)
merge_notes(there, incoming) ==
    LET others == SelectSeq(there.notes, LAMBDA note : \A i \in DOMAIN incoming : Code(incoming[i]) # Code(note))
    IN Pak(IdOfThere(there), (IF Reads(there) THEN others ELSE <<>>) \o incoming)

pak_for(bundle, port, there) ==
    IF bundle.game = "all" THEN write_onto(bundle.paks[port], there) ELSE merge_notes(there, bundle.paks[port])
pak_ports(bundle) == DOMAIN bundle.paks

-----------------------------------------------------------------------------
(* Writing: [ok, files]. The chip's file comes before the paks', which may   *)
(* not all fit.                                                              *)

Own(words) == [own |-> words]
FreshSrm == [r \in DOMAIN Regions |-> [i \in 1 .. Regions[r] |-> Erased]]
FreshPaks == [port \in Ports |-> formatted_pak]

CartInto(bundle, srm) ==
    IF bundle.cart = None THEN srm
    ELSE LET save == bundle.cart[1] bytes == denormalize(bundle.cart[2], save, "swapped")
         IN [srm EXCEPT ![region(save)] = bytes \o SubSeq(@, Len(bytes) + 1, Len(@))]
PaksOnto(bundle, paks, ports) ==
    [port \in Ports |-> IF port \in ports THEN pak_for(bundle, port, paks[port]) ELSE paks[port]]
AllFit(paks) == \A port \in Ports : Fits(paks[port].notes)

write_srm(bundle, onto) ==
    LET base == IF onto = None THEN [by |-> "retroarch", srm |-> FreshSrm, paks |-> FreshPaks] ELSE onto
        paks == PaksOnto(bundle, base.paks, pak_ports(bundle))
    IN IF (bundle.cart # None /\ region(bundle.cart[1]) = "none") \/ ~AllFit(paks) THEN [ok |-> FALSE, files |-> onto]
       ELSE [ok |-> TRUE, files |-> [base EXCEPT !.srm = CartInto(bundle, @), !.paks = paks]]

AsConsole(by) == "console"
order(by) == IF by = "everdrive" THEN "console" ELSE "swapped"
ChipFile(by, cart) ==
    LET words == denormalize(cart[2], cart[1], order(by))
    IN IF by = "mupen64plus" /\ is_eeprom(cart[1]) THEN Resized(words, 2) ELSE words
PortsOf(by, bundle) == IF by = "everdrive" THEN {1} \cap pak_ports(bundle) ELSE pak_ports(bundle)

(* Project64's paks have a file each, so only one is written onto. *)
extract(by, bundle, onto) ==
    IF by = "retroarch" THEN write_srm(bundle, onto)
    ELSE LET base == IF onto = None THEN [by |-> by, srm |-> Own(None), paks |-> FreshPaks] ELSE onto
             chipped == IF bundle.cart = None THEN base ELSE [base EXCEPT !.srm = Own(ChipFile(by, bundle.cart))]
             paks == PaksOnto(bundle, base.paks, PortsOf(by, bundle))
         IN IF AllFit(paks) /\ ~(by = "project64" /\ onto # None /\ Cardinality(pak_ports(bundle)) > 1)
            THEN [ok |-> TRUE, files |-> [chipped EXCEPT !.paks = paks]]
            ELSE [ok |-> FALSE, files |-> chipped]

-----------------------------------------------------------------------------
(* The emulators (external): what memory a game finds in their files, and    *)
(* what they make of what it writes. Project64 writes a chip only as far as  *)
(* the game has; mupen64plus wrote any EEPROM as the larger.                 *)

Emulators == {"retroarch", "mupen64plus", "project64", "everdrive"}
LoadsAs(save, f) ==
    IF f.by = "retroarch" /\ region(save) = "none" THEN Resized(None, ChipSizes[save])
    ELSE IF f.by = "retroarch" THEN InOrder(SubSeq(f.srm[region(save)], 1, ChipSizes[save]), save, "swapped")
    ELSE InOrder(Resized(f.srm.own, ChipSizes[save]), save, order_of_producer(f.by))
Loads(f) == LoadsAs(chip, f)

AsFarAs(words) ==
    LET written == {i \in DOMAIN words : words[i] # Erased}
    IN SubSeq(words, 1, IF written = {} THEN 0 ELSE CHOOSE i \in written : \A j \in written : j <= i)
Stores(f, memory) ==
    LET words == InOrder(memory, chip, order_of_producer(f.by))
    IN CASE f.by = "retroarch" -> {[f.srm EXCEPT ![region(chip)] = words \o SubSeq(@, Len(words) + 1, Len(@))]}
         [] f.by = "mupen64plus" /\ chip = "eeprom4k" -> {Own(words), Own(Resized(words, 2))}
         [] f.by = "project64" -> {Own(AsFarAs(words))}
         [] OTHER -> {Own(words)}

N64Init ==
    /\ chip \in Chips
    /\ \E by \in {e \in Emulators : <<e, chip>> \in Keeps}, pad \in {Erased, "0"} :
            files = [by |-> by,
                     srm |-> IF by = "retroarch" THEN [FreshSrm EXCEPT !.eeprom = <<pad, pad>>] ELSE Own(None),
                     paks |-> [port \in Ports |-> Pak(port, <<>>)]]
    /\ device = None /\ held = None /\ plays = 0

PlayChip ==
    /\ plays < Plays /\ plays' = plays + 1
    /\ <<files.by, chip>> \in Keeps
    /\ \E i \in 1 .. ChipSizes[chip], word \in {Erased, "0", "a"} :
         \E srm \in Stores(files, [Loads(files) EXCEPT ![i] = word]) : files' = [files EXCEPT !.srm = srm]
    /\ UNCHANGED <<chip, device, held>>

(* A game saves a note, or over one of its own, or deletes one; or a pak is  *)
(* found not to read.                                                        *)
PlayPak ==
    /\ plays < Plays /\ plays' = plays + 1
    /\ \E port \in Ports :
         LET pak == files.paks[port] IN
         \/ /\ Reads(pak) /\ Len(pak.notes) < Room
            /\ \E game \in Games, data \in Saved :
                 files' = [files EXCEPT !.paks[port].notes = Append(@, [game |-> game, data |-> data])]
         \/ /\ pak.notes # <<>>
            /\ \/ files' = [files EXCEPT !.paks[port].notes = Tail(@)]
               \/ \E data \in Saved : files' = [files EXCEPT !.paks[port].notes[1].data = data]
         \/ \E state \in {Blank, Damaged} : pak.id # state /\ files' = [files EXCEPT !.paks[port] = Pak(state, <<>>)]
    /\ UNCHANGED <<chip, device, held>>

(* 1saves convert, the chip stated (or the ROM, which states it) or not: of  *)
(* a libretro .srm, of mupen64plus's four paks, or of one chip's file.       *)
Convert ==
    /\ \E stated \in {chip, "unstated"}, what \in {"chip", "paks"} :
         LET cart == IF files.by = "retroarch" THEN cartridge_in(files.srm, stated)
                     ELSE IF what = "paks" THEN NoCart ELSE ConvertChip(files.by, files.srm.own, stated)
             read == IF what = "paks" \/ files.by = "retroarch" THEN paks_into(files.paks)
                     ELSE [ok |-> TRUE, paks |-> <<>>]
         IN /\ (what = "paks" => files.by = "mupen64plus")
            /\ cart.ok /\ read.ok
            /\ ~(cart.cart = None /\ read.paks = <<>>)
            /\ device' = [of |-> files, game |-> "all", cart |-> cart.cart, paks |-> read.paks]
    /\ held' = device'
    /\ UNCHANGED <<chip, files, plays>>

(* A file of one pak reads as a card, its notes on the role --role names: a   *)
(* port, or a socket this console does not have. A card is not written as an *)
(* N64 save; a game's notes cut out of it are.                               *)
Elsewhere == 0
PakFiles(by) == CASE by = "project64" -> Ports [] by = "everdrive" -> {1} \cap Ports [] OTHER -> {}
ConvertPak ==
    /\ \E port \in PakFiles(files.by), role \in Ports \cup {Elsewhere} :
         /\ Reads(files.paks[port])
         /\ device' = [of |-> files, game |-> "all", cart |-> None, paks |-> [r \in {role} |-> files.paks[port].notes]]
    /\ held' = None
    /\ UNCHANGED <<chip, files, plays>>

(* --n64-game: refused where a note has no port to go back to, or nothing is the game's. *)
game_save(bundle, game) ==
    LET own == [role \in DOMAIN bundle.paks |-> SelectSeq(bundle.paks[role], LAMBDA note : Code(note) = game)]
        roles == {role \in DOMAIN own : own[role] # <<>>}
    IN [ok |-> roles \subseteq Ports /\ (bundle.cart # None \/ roles # {}),
        save |-> [bundle EXCEPT !.game = game, !.paks = [role \in roles |-> own[role]]]]
Cut(game) ==
    /\ device # None
    /\ LET cut == game_save(device, game) IN cut.ok /\ held' = cut.save
    /\ UNCHANGED <<chip, files, device, plays>>

(* 1saves extract, --onto the files there are, or as files of their own for  *)
(* another emulator; a pak it writes none for is one that one formats.       *)
Extract(by) ==
    /\ held # None
    /\ LET written == extract(by, held, IF files.by = by THEN files ELSE None).files
       IN written # None /\ files' = written
    /\ UNCHANGED <<chip, device, held, plays>>

N64Next == PlayChip \/ PlayPak \/ Convert \/ ConvertPak \/ (\E game \in Games : Cut(game)) \/ \E by \in Emulators : Extract(by)
N64Spec == N64Init /\ [][N64Next]_n64Vars

-----------------------------------------------------------------------------
Others(notes, bundle) ==
    LET NotIncoming(note) == \A port \in pak_ports(bundle) : \A i \in DOMAIN bundle.paks[port] :
                               Code(bundle.paks[port][i]) # Code(note)
    IN SelectSeq(notes, NotIncoming)
OwnOf(notes, bundle) == SelectSeq(notes, LAMBDA note : bundle.game \in {"all", Code(note)})
WritesFiles == files' # files /\ plays' = plays
WrittenOnto == WritesFiles /\ files'.by = files.by

(* What is read has a chip's whole memory, and a pak no more notes than there  *)
(* is room for, whichever emulator wrote it and however short.                 *)
N64TypeOK ==
    /\ chip \in Chips /\ plays \in 0 .. Plays /\ files.by \in Emulators
    /\ \A port \in Ports : Fits(files.paks[port].notes)
    /\ held # None /\ held.cart # None => Len(held.cart[2]) = ChipSizes[held.cart[1]]
    /\ held # None => pak_ports(held) \subseteq Ports /\ \A port \in pak_ports(held) : held.paks[port] # <<>>

(* What is read as a cartridge's memory is the memory the game finds in the    *)
(* file, in its word order, for the chip it has; and what is read as no        *)
(* cartridge holds none. A chip is guessed wrong in one case only: SRAM of 96  *)
(* KiB a game has written no more than 32 of, in the file Project64 leaves it  *)
(* and any that is made of it, is read as the smaller SRAM, all that was       *)
(* written of it and no more.                                                  *)
FitsTheSmaller(f) == chip = "sram768k" /\ (f.by = "retroarch" \/ Len(f.srm.own) <= ChipSizes.sram256k)
MemoryIsRead ==
    device # None =>
        /\ device.cart # None =>
             \/ device.cart = <<chip, Loads(device.of)>>
             \/ FitsTheSmaller(device.of) /\ device.cart = <<"sram256k", LoadsAs("sram256k", device.of)>>
        /\ device.cart = None /\ device.of.by = "retroarch" => is_blank(Loads(device.of))

(* Of a step: the emulator a save is written for loads the memory it was taken *)
(* from.                                                                       *)
Restored ==
    WritesFiles /\ held.cart # None /\ held.cart[1] = chip => Loads(files') = held.cart[2]

(* Of a step: written onto a console's files, a bundle changes nothing it does *)
(* not hold: a pak it has no note for, another chip's region, another game's   *)
(* notes and their order, and the ID of every pak that has one stay as they    *)
(* were.                                                                       *)
OthersKept ==
    WrittenOnto =>
        /\ \A port \in Ports :
             LET old == files.paks[port] new == files'.paks[port] IN
             IF port \notin pak_ports(held) THEN new = old
             ELSE Reads(old) => new.id = old.id /\ (held.game # "all" => Others(new.notes, held) = Others(old.notes, held))
        /\ files.by = "retroarch" =>
             \A r \in DOMAIN Regions : (held.cart # None => r # region(held.cart[1])) => files'.srm[r] = files.srm[r]

(* Of a step: of the games it holds, a bundle's notes are the ones a pak it    *)
(* writes has after: none it lacked lingers, and none is there twice.          *)
OwnNotes ==
    WritesFiles => \A port \in pak_ports(held) :
        files'.paks[port] # files.paks[port] /\ files'.paks[port].notes # <<>> =>
            OwnOf(files'.paks[port].notes, held) = held.paks[port]

(* Read from a libretro .srm and written back onto it, whole or one game of    *)
(* it, a save changes nothing there: each note is where a game finds it, and   *)
(* the padding after a small EEPROM is as its core left it.                    *)
Has(notes, note) == Cardinality({i \in DOMAIN notes : notes[i] = note})
PutBackIsNothing ==
    held # None /\ files.by = "retroarch" /\ files = device.of =>
        LET written == write_srm(held, files)
        IN /\ written.ok /\ written.files.srm = files.srm
           /\ \A port \in Ports :
                LET old == files.paks[port] new == written.files.paks[port] IN
                /\ new.id = old.id
                /\ \A note \in [game : Games, data : Saved] : Has(new.notes, note) = Has(old.notes, note)
=============================================================================
