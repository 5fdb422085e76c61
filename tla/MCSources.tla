------------------------------- MODULE MCSources ------------------------------
(***************************************************************************)
(* What is given to the converter, for TLC: discs, ROMs, the Neo Geo and   *)
(* Saturn files, archives, and what says where they came from. area says   *)
(* which. They share nothing, and so can all be kept in the same variables *)
(* for TLC to have few of them: what area does not need stays empty.       *)
(***************************************************************************)
EXTENDS Integers, TLC

VARIABLES
    area,
    s1, s2, s3, s4, s5, s6, s7, s8  \* the variables of whichever is at work, in the order it has them

-----------------------------------------------------------------------------
Member(name, kind, made, length, marks, extension, size, save) ==
    [name |-> name, kind |-> kind, made |-> made, length |-> length, marks |-> marks, extension |-> extension, size |-> size, save |-> save]
ArchivedFiles ==
    {Member("folder", "directory", "other", 0, {}, "", 0, 0),
     Member("junk", "junk", "ps1", 131072, {"mc", "bare"}, "mcr", 0, 0),
     Member("readme", "file", "other", 100, {}, "txt", 0, 0),
     Member("data", "file", "other", 100, {}, "pak", 0, 0),
     Member("disc", "file", "other", 1, {}, "iso", 3, 0),
     Member("flat", "file", "raw", 8192, {"bram"}, "brm", 0, 0),
     Member("epsxe", "file", "ps1", 131072, {"mc", "bare"}, "srm", 0, 0),
     Member("dolphin", "file", "gc", 524288, {"directory"}, "raw", 1, 0),
     Member("a", "file", "save", 8320, {}, "mcs", 0, 1),
     Member("b", "file", "save", 65668, {}, "psv", 0, 8),
     Member("torn", "broken", "other", 0, {}, "mcr", 0, 0),
     Member("c", "file", "save", 122936, {}, "mcs", 0, 15)}
FileNames == {"1saves", "mcr", "mpk", "pak", "raw", "ps2", "neo", "bkr", "srm", "bin", "txt"}

(* Rows of the registry of each kind a lookup tells apart, in the order of their slugs. *)
Core(slug, names, kind, systems) == [slug |-> slug, names |-> names, kind |-> kind, systems |-> systems]
CoreRows ==
    <<Core("beetle-saturn", {"beetle saturn", "mednafen saturn"}, "libretro", {"saturn"}),
      Core("dolphin-emu", {"dolphin-emu"}, "libretro", {"gc", "wii"}), Core("mgba", {"mgba"}, "libretro", {"gba", "gbc", "gb"}),
      Core("n64-mister", {"n64_mister", "n64"}, "mister", {"n64"}), Core("psx-mister", {"psx_mister", "psx"}, "mister", {"psx"}),
      Core("saturn-mister", {"saturn_mister", "saturn"}, "mister", {"saturn"})>>
App(slug, name, kinds, builds) == [slug |-> slug, names |-> {name}, kinds |-> kinds, builds |-> builds]
AppRows ==
    <<App("analogue-pocket", "analogue pocket", {"openfpga"}, {}), App("dolphin", "dolphin", {}, {"dolphin-emu"}),
      App("mgba", "mgba", {}, {"mgba"}), App("mister", "mister", {"mister"}, {}), App("retroarch", "retroarch", {"libretro"}, {})>>
PlatformRows == <<[slug |-> "muos", names |-> {"muos"}], [slug |-> "windows", names |-> {"windows"}]>>
Producer(key, kind, app, core, systems) == [key |-> key, kind |-> kind, app |-> app, core |-> core, systems |-> systems]
ProfileRows ==
    <<Producer("retroarch", "emulator", "retroarch", "", {}), Producer("mgba", "emulator", "", "mgba", {"gba", "gbc", "gb"}),
      Producer("dolphin", "emulator", "", "dolphin-emu", {"gc", "wii"}), Producer("everdrive", "flashcart", "", "", {}),
      Producer("gboperator", "cartridge-reader", "", "", {"gb", "gbc", "gba"})>>
LowerCase ==
    ("mGBA" :> "mgba") @@ ("Mednafen Saturn" :> "mednafen saturn") @@ ("muOS" :> "muos") @@ ("Analogue Pocket" :> "analogue pocket")
    @@ ("PS2" :> "ps2") @@ ("8M" :> "8m") @@ ("6K" :> "6k") @@ ("MiSTer" :> "mister")

(* What is typed, the ROMs and the catalogs given beside it, and the files. *)
Rom(of, title, serial, sha1, crc32) ==
    [system |-> of, title |-> title, serial |-> serial, hashes |-> [sha256 |-> "s", sha1 |-> sha1, md5 |-> "m", crc32 |-> crc32]]
NoRom == [system |-> "", title |-> "", serial |-> "", hashes |-> << >>]
RomsRead == {Rom("gb", "CRYSTAL", "", "A", "c"), Rom("", "", "SLUS-1", "B", "c")}
Entry(name, serial, hashes) == [name |-> name, serial |-> serial, hashes |-> hashes]
Entries ==
    {Entry("Crystal", "DMG-1", [sha1 |-> "A", crc32 |-> "c"]), Entry("Silver", "DMG-2", [crc32 |-> "c"]),
     Entry("Gold", "", [sha1 |-> "B"]), Entry("Other", "", [sha1 |-> "Z", crc32 |-> "z"])}
Dat(entries) == [readable |-> TRUE, entries |-> entries]
Catalogs ==
    {Dat(<< >>), [readable |-> FALSE, entries |-> << >>]} \cup {Dat(<<a>>) : a \in Entries} \cup {Dat(<<a, b>>) : a, b \in Entries}
SpokenNames == {"", "retroarch", "mGBA", "mgba", "Mednafen Saturn", "beetle-saturn", "dolphin", "gboperator", "mister",
           "psx", "n64", "ps1", "com.example.core", "Analogue Pocket", "nobody"}
SavedFile(length, marks, extension) == [length |-> length, marks |-> marks, extension |-> extension]
Flat == SavedFile(32768, {}, "sav")
SavedFiles ==
    {SavedFile(131072, {"mc", "bare"}, "mcr"), SavedFile(131072, {"index"}, "mpk"), SavedFile(32768, {"index"}, "mpk"), SavedFile(2048, {}, "eep"),
     SavedFile(8192, {"bram"}, "brm"), SavedFile(8192, {"neogeo"}, "neo"), SavedFile(32768, {"saturn"}, "bkr"), SavedFile(524288, {"saturn"}, "bcr"),
     SavedFile(9000, {"1saves"}, "srm"), SavedFile(9000, {"state"}, "sav"), SavedFile(100, {}, "txt"), Flat}
Flag(from, core, platform, versions, system, role, rom, dat, saved) ==
    [from |-> from, core |-> core, platform |-> platform, versions |-> versions, system |-> system, role |-> role,
     rom |-> rom, dat |-> dat, file |-> saved]
Commands ==
    {Flag(from, core, platform, versions, "", "", NoRom, Dat(<< >>), Flat) :
        from \in SpokenNames, core \in SpokenNames, platform \in {"", "muOS", "com.example.core", "cores"},
        versions \in SUBSET {"app", "core", "platform"}}
    \cup {Flag(from, core, "", {}, system, "", rom, dat, Flat) :
        from \in {"", "mGBA", "n64"}, core \in {"", "mgba"}, system \in {"", "gbc"}, rom \in {NoRom} \cup RomsRead, dat \in Catalogs}
    \cup {Flag(from, "", "", {}, system, role, NoRom, Dat(<< >>), saved) :
        from \in SpokenNames, system \in {"", "neogeo-cd", "gbc", "Not A Slug"}, role \in {"", "ram-cart", "Not A Slug"}, saved \in SavedFiles}

(* Cards that other programs keep, two of them of sizes nothing is made in. *)
Kept(length, marks, stated, shift_jis) ==
    [length |-> length, marks |-> marks, stated |-> stated, shift_jis |-> shift_jis, extension |-> "bin"]
OtherCards ==
    {Kept(8388608, {"directory"}, 0, TRUE), Kept(524288, {"directory"}, 0, FALSE), Kept(4325376, {"ps2"}, 4096, FALSE),
     Kept(17301504, {"ps2"}, 16384, FALSE), Kept(65536, {"saturn"}, 64, FALSE), Kept(131072, {"root55"}, 0, FALSE),
     Kept(73728, {"neogeo"}, 8192, FALSE), Kept(4096, {"neogeo"}, 4096, FALSE)}

-----------------------------------------------------------------------------
Disc == INSTANCE DiscId WITH
    disc <- s1, image <- s2, stream <- s3, job <- s4, got <- s5, want <- s6, at <- s7, out <- s8,
    USER_DATA <- 2, RAW <- 4, HEAD <- 1, MAX_PREFIX <- 25, STEP <- 5, PVD_SECTOR <- 2, HunkFrames <- 2, TRACK_PADDING <- 2,
    MAX_HUNK <- 4, MAX_HUNKS <- 10, MAX_METADATA <- 4, MAX_METADATA_ENTRY <- 1, Wanted <- 3
RomFile == INSTANCE RomId WITH
    rom <- s1, named <- s2, reads <- s3, answers <- s4
Mister == INSTANCE MisterSave WITH
    console <- s1, dump <- s2, options <- s3, device <- s4, file <- s5,
    CardSizes <- {1, 4, 8}, Lengths <- {1, 14}
Saturn == INSTANCE SaturnFile WITH
    dump <- s1, stated <- s2, bundle <- s3, volume <- s4, smpc <- s5,
    Odd <- {<<65536, 64>>, <<131072, 256>>}, Data <- {0, 28, 29, 3000, 29000}, MaxSaves <- 2
Arrived == INSTANCE Intake WITH
    given <- s1, looked <- s2, index <- s3, outcome <- s4, Lower <- LowerCase,
    MAX_MEMBERS <- 3, MAX_MEMBER <- 2, MAX_TOTAL <- 4, Extensions <- FileNames, Archived <- ArchivedFiles
Told == INSTANCE Catalog WITH
    args <- s1, format <- s2, game <- s3, source <- s4, written <- s5,
    at <- s6, Lower <- LowerCase, CORES <- CoreRows, APPS <- AppRows, PLATFORMS <- PlatformRows,
    PROFILES <- ProfileRows, ReverseDns <- {"com.example.core"}, NotSlugs <- {"Not A Slug"}, Flags <- Commands
Blank == INSTANCE Blanks WITH
    file <- s1, card <- s2, dirty <- s3, beside <- s4, asked <- s5, Lower <- LowerCase,
    Kinds <- {"ps1", "PS2", "gamecube", "mpk", "vmu", "saturn", "neogeo", "raw", "wii"},
    SizeNames <- {"", "128k", "8M", "16m", "251", "2043", "32k", "4m", "2k", "6K", "8k", "16k", "9k"},
    LayoutNames <- {"", "bare", "wide", "MiSTer", "tape"},
    Called <- {"mcr", "mpk", "raw", "ps2", "neo", "bkr", "bin", "srm", "1saves"}, Others <- OtherCards

From7 == s7 = << >> /\ s8 = << >>
From6 == s6 = << >> /\ From7
From5 == s5 = << >> /\ From6

SourcesInit ==
    \/ area = "disc" /\ Disc!DiscInit
    \/ area = "rom" /\ RomFile!RomInit /\ From5
    \/ area = "mister" /\ Mister!MisterInit /\ From6
    \/ area = "saturn" /\ Saturn!SaturnInit /\ From6
    \/ area = "intake" /\ Arrived!IntakeInit /\ From5
    \/ area = "catalog" /\ Told!CatalogInit /\ From7
    \/ area = "blank" /\ Blank!BlanksInit /\ From6
SourcesNext ==
    \/ area = "disc" /\ Disc!DiscNext /\ UNCHANGED area
    \/ area = "rom" /\ RomFile!RomNext /\ UNCHANGED <<area, s5, s6, s7, s8>>
    \/ area = "mister" /\ Mister!MisterNext /\ UNCHANGED <<area, s6, s7, s8>>
    \/ area = "saturn" /\ Saturn!SaturnNext /\ UNCHANGED <<area, s6, s7, s8>>
    \/ area = "intake" /\ Arrived!IntakeNext /\ UNCHANGED <<area, s5, s6, s7, s8>>
    \/ area = "catalog" /\ Told!CatalogNext /\ UNCHANGED <<area, s7, s8>>
    \/ area = "blank" /\ Blank!BlanksNext /\ UNCHANGED <<area, s6, s7, s8>>
sourcesVars == <<area, s1, s2, s3, s4, s5, s6, s7, s8>>
SourcesSpec == SourcesInit /\ [][SourcesNext]_sourcesVars

-----------------------------------------------------------------------------
(* Every part's variables keep their types, whichever part is at work. *)
SourcesTypesOK ==
    /\ area = "disc" => Disc!DiscTypeOK
    /\ area = "rom" => RomFile!RomTypeOK
    /\ area = "mister" => Mister!MisterTypeOK
    /\ area = "saturn" => Saturn!SaturnTypeOK
    /\ area = "intake" => Arrived!IntakeTypeOK
    /\ area = "catalog" => Told!CatalogTypeOK
    /\ area = "blank" => Blank!BlanksTypeOK

(* DiscId: a disc is what was mastered on it however it was dumped and read,   *)
(* and the sectors a caller is given are its data track's own.                 *)
SameDiscHoweverDumped == area = "disc" => Disc!SameDisc /\ Disc!SameSectors

(* RomId: the windows read of a ROM show the headers the whole of it does, and *)
(* a header is believed before a name.                                         *)
HeadersAreFound == area = "rom" => RomFile!WindowsSuffice /\ RomFile!HeaderBeforeName

(* MisterSave, SaturnFile: a cabinet's file and a volume come back as they     *)
(* were in the files they came in, what is written reads back, and no RAM is   *)
(* dropped.                                                                    *)
CardFilesComeBack ==
    /\ area = "mister" => Mister!CabinetComesBack /\ Mister!WrittenReadsBack /\ Mister!RamIsNeverDropped
    /\ area = "saturn" => Saturn!VolumeComesBack

(* SaturnFile, DiscId: a clock that was read goes on as the console's calendar *)
(* does, and each time of asking for more of a disc asks for more.             *)
StepsGoOn ==
    [][/\ area = "saturn" => Saturn!ClockGoesOn
       /\ area = "disc" => Disc!AsksForMore]_sourcesVars

(* Intake, Blanks: a file is known for what made it; an archive gives one      *)
(* card; and a card made from nothing is the kind and size that was asked for. *)
ArrivesAsWhatItIs ==
    /\ area = "intake" => Arrived!WrittenIsRecognised /\ Arrived!ArchiveGivesOneCard
    /\ area = "blank" => Blank!BlankIsAsAsked

(* Catalog: a source is the same however it was named and its layers agree; a  *)
(* catalog takes nothing from the ROM's own and goes by the strongest digest.  *)
SaysWhoWroteIt == area = "catalog" => Told!SourceIsOneThing /\ Told!StrongestNames

(* Catalog: main.rs says of a --from that names a format that the format is    *)
(* still detected from the bytes: it says nothing of who wrote them.           *)
FromAFormat == area = "catalog" => Told!FormatNamesNobody
=============================================================================
