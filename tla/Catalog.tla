------------------------------- MODULE Catalog -------------------------------
(***************************************************************************)
(* What `1saves convert` says of a file: which format it is, who wrote it, *)
(* which system it is for, where it was kept and which game it is          *)
(* (one-saves-cli/src/main.rs, one-saves-convert/src/profile.rs, raw.rs    *)
(* and dat.rs, one-saves-registry).  The registry's generated tables are   *)
(* constants: rows in the order of their slugs.  A DAT catalog is matched  *)
(* by digest; that its text nests only so deep is left to the parser.      *)
(***************************************************************************)
EXTENDS Formats

CONSTANTS
    CORES, APPS, PLATFORMS,    \* the registry's tables, their names in lower case
    PROFILES,                  \* the producers known by name
    ReverseDns,                \* what may be typed that is its owner's own name
    NotSlugs,                  \* what may be typed that is no slug
    Flags                      \* the commands that may be given

Unsaid == ""
VARIABLES
    args,          \* the command's flags, the file it is given among them
    format,        \* what the file is
    game,          \* what the ROM and the catalog said of the game
    source,        \* who wrote the save
    written,       \* what the bundle's header says
    at             \* how far the command is

catalogVars == <<args, format, game, source, written, at>>

-----------------------------------------------------------------------------
(* A row that has the very slug, or else the first that goes by the name. *)
FirstOf(rows) == IF rows = << >> THEN {} ELSE {rows[1]}
BySlug(rows, text) == {row \in ToSet(rows) : row.slug = text}
by_any_name(rows, text) ==
    IF BySlug(rows, text) # {} THEN BySlug(rows, text)
    ELSE FirstOf(SelectSeq(rows, LAMBDA row : Lowered(text) \in row.names \cup {row.slug}))
SlugOf(found, other) == IF found = {} THEN other ELSE (CHOOSE row \in found : TRUE).slug
runs(app, core) == core.kind \in app.kinds \/ core.slug \in app.builds

(* A producer: the app or the core it is, and the systems it covers. *)
Profile(kind, app, core, systems) == [kind |-> kind, app |-> app, core |-> core, systems |-> systems]
Nobody == Profile(Unsaid, Unsaid, Unsaid, {})
profile(text) ==
    LET known == FirstOf(SelectSeq(PROFILES, LAMBDA row : row.key = Lowered(text)))
        cores == by_any_name(CORES, text)
    IN IF known # {} THEN LET row == CHOOSE row \in known : TRUE IN Profile(row.kind, row.app, row.core, row.systems)
       ELSE IF cores # {} THEN Profile("emulator", Unsaid, SlugOf(cores, Unsaid), (CHOOSE row \in cores : TRUE).systems)
       ELSE IF by_any_name(APPS, text) # {} THEN Profile("emulator", SlugOf(by_any_name(APPS, text), Unsaid), Unsaid, {})
       ELSE Nobody
Only(systems) == IF Cardinality(systems) = 1 THEN systems ELSE {}

(* The name to write for a core or a platform somebody typed; none for one refused. *)
listed_name(rows, text) ==
    IF by_any_name(rows, text) # {} THEN {SlugOf(by_any_name(rows, text), Unsaid)} ELSE {text} \cap ReverseDns

-----------------------------------------------------------------------------
(* Who wrote it: what --from names, and what the other flags add to it. *)
Refused == [kind |-> "refused", app |-> Unsaid, core |-> Unsaid, platform |-> Unsaid, versions |-> {}]
CannotRun(app, core) ==
    \E row \in BySlug(APPS, app) : \E listed \in BySlug(CORES, core) : ~runs(row, listed)
Given(text, names) == IF text = Unsaid THEN Unsaid ELSE CHOOSE name \in names : TRUE
source_of(flags) ==
    LET from == profile(flags.from)
        cores == listed_name(CORES, flags.core)
        platforms == listed_name(PLATFORMS, flags.platform)
        core == IF flags.core = Unsaid THEN from.core ELSE Given(flags.core, cores)
        platform == Given(flags.platform, platforms)
    IN IF \/ flags.core # Unsaid /\ cores = {}
          \/ flags.platform # Unsaid /\ platforms = {}
          \/ from.core \notin {Unsaid, core}
          \/ flags.core # Unsaid /\ CannotRun(from.app, core)
          \/ "app" \in flags.versions /\ from.app = Unsaid
          \/ "core" \in flags.versions /\ core = Unsaid
          \/ "platform" \in flags.versions /\ platform = Unsaid
       THEN Refused
       ELSE [kind |-> from.kind, app |-> from.app, core |-> core, platform |-> platform, versions |-> flags.versions]

(* What was said, else what the ROM says, else what one thing that wrote it can only be for. *)
system_of_extension(called) == IF called \in {"eep", "sra", "fla"} THEN {"n64"} ELSE {}
system_of(flags, by) ==
    LET said == <<{flags.system} \ {Unsaid}, {flags.rom.system} \ {Unsaid}, Only(profile(flags.from).systems),
                  UNION {Only(row.systems) : row \in BySlug(CORES, by.core)}, system_of_extension(flags.file.extension)>>
        some == SelectSeq(said, LAMBDA systems : systems # {})
    IN IF some = << >> THEN Unsaid ELSE CHOOSE system \in some[1] : TRUE

-----------------------------------------------------------------------------
(* Catalogs: entries in order, each a name, a serial and its digests by algorithm. *)
Algorithms == <<"sha256", "sha1", "md5", "crc32">>
Hash(hashes, algorithm) == IF algorithm \in DOMAIN hashes THEN hashes[algorithm] ELSE Unsaid
lookup(dat, algorithm, digest) ==
    SelectSeq(dat, LAMBDA entry : digest # Unsaid /\ Hash(entry.hashes, algorithm) = digest)
Found(dat, hashes, order) ==
    LET by == SelectSeq([n \in DOMAIN order |-> lookup(dat, order[n], Hash(hashes, order[n]))],
                        LAMBDA found : found # << >>)
    IN IF by = << >> THEN << >> ELSE <<by[1][1]>>
ByTag(dat, hashes) == Found(dat, hashes, <<"crc32", "md5", "sha1", "sha256">>)
lookup_any(dat, hashes) == Found(dat, hashes, Algorithms)

enrich(dat, of) ==
    LET found == lookup_any(dat, of.hashes)
        entry == found[1]
    IN IF found = << >> THEN of
       ELSE [title |-> entry.name, serial |-> IF of.serial = Unsaid THEN entry.serial ELSE of.serial,
             hashes |-> of.hashes @@ entry.hashes]

NoRom == [system |-> Unsaid, title |-> Unsaid, serial |-> Unsaid, hashes |-> << >>]
NoGame == [title |-> Unsaid, serial |-> Unsaid, hashes |-> << >>]
game_from_rom(rom) == [title |-> rom.title, serial |-> rom.serial, hashes |-> rom.hashes]

-----------------------------------------------------------------------------
Unwritten == [system |-> Unsaid, role |-> Unsaid]
CatalogInit ==
    /\ args \in Flags
    /\ format = Unsaid
    /\ game = NoGame
    /\ source = Refused
    /\ written = Unwritten
    /\ at = "detect"

(* convert: what the file is. A state is its own thing, and a name of a format settles it. *)
IsState(file) == "state" \in file.marks
Detect ==
    /\ at = "detect"
    /\ LET named == from_name(args.from)
           is == IF named = {} THEN detect(args.file) ELSE CHOOSE name \in named : TRUE
       IN IF IsState(args.file) THEN at' = "a state" /\ UNCHANGED format
          ELSE /\ format' = is
               /\ at' = IF is \in {"undetected", "bundle"} THEN "refused" ELSE "identify"
    /\ UNCHANGED <<args, game, source, written>>

(* identify: the catalog is opened only for a ROM. *)
Identify ==
    /\ at = "identify"
    /\ IF args.rom = NoRom THEN at' = "source" /\ UNCHANGED game
       ELSE IF ~args.dat.readable THEN at' = "refused" /\ UNCHANGED game
       ELSE /\ at' = "source"
            /\ game' = enrich(args.dat.entries, game_from_rom(args.rom))
    /\ UNCHANGED <<args, format, source, written>>
Source ==
    /\ at = "source"
    /\ source' = source_of(args)
    /\ at' = IF source' = Refused THEN "refused" ELSE "wrap"
    /\ UNCHANGED <<args, format, game, written>>

(* The chips' files and the paks of a whole console are N64Saves' own. *)
is_n64(system, file) ==
    \/ file.length = 4 * PAK_LENGTH /\ file.extension = "mpk"
    \/ system = "n64" /\ file.extension \notin {"mpk", "pak", "cpk"}
SATURN_INTERNAL == 32768
slug_flag(text) == text \notin NotSlugs

(* raw::wrap and card::read: what the caller said is the last word of a flat *)
(* save; a card's system is its format's, but for a Neo Geo's two consoles.  *)
wrap(system) == IF system = Unsaid /\ is_segacd_bram(args.file) THEN "sega-cd" ELSE system
card_system(system) ==
    IF format = "neogeo" /\ system \in {"neogeo", "neogeo-cd"} THEN system ELSE system_held[format]
card_role(system) ==
    CASE args.role # Unsaid -> args.role
      [] args.role = Unsaid /\ system = "neogeo-cd" -> "internal"
      [] args.role = Unsaid /\ format = "saturn" /\ args.file.length # SATURN_INTERNAL -> "ram-cart"
      [] OTHER -> default_role(format)
IsRead(file) == format = "raw" \/ <<format, TRUE>> \in ToSet(Tests(file))
Wrap ==
    /\ at = "wrap"
    /\ LET system == system_of(args, source)
       IN IF is_n64(system, args.file)
          THEN at' = "written" /\ written' = [system |-> "n64", role |-> Unsaid]
          ELSE IF ~slug_flag(system) \/ ~slug_flag(args.role) \/ ~IsRead(args.file)
          THEN at' = "refused" /\ UNCHANGED written
          ELSE /\ at' = "written"
               /\ written' = IF format = "raw" THEN [system |-> wrap(system), role |-> args.role]
                             ELSE [system |-> card_system(system), role |-> card_role(card_system(system))]
    /\ UNCHANGED <<args, format, game, source>>
CatalogNext == Detect \/ Identify \/ Source \/ Wrap
CatalogSpec == CatalogInit /\ [][CatalogNext]_catalogVars

-----------------------------------------------------------------------------
CatalogTypeOK ==
    /\ args \in Flags
    /\ at \in {"detect", "identify", "source", "wrap", "written", "refused", "a state"}
    /\ format \in Formats \cup {Unsaid, "undetected"}
    /\ at = "written" => format \in Formats \ {"bundle"}

(***************************************************************************)
(* What a bundle says of its source is the same whatever each thing was    *)
(* called: by its slug, its name, or another it goes by.  It is said in    *)
(* the header, so another spelling would be another content hash.  Its     *)
(* layers agree: an app runs the core, a version is of something.  And a   *)
(* slug that is none is never written.                                     *)
(***************************************************************************)
Plain(rows, text) == SlugOf(by_any_name(rows, text), text)
Plainly(flags) ==
    [flags EXCEPT !.core = Plain(CORES, @), !.platform = Plain(PLATFORMS, @),
                  !.from = IF \E row \in ToSet(PROFILES) : row.key = Lowered(@) THEN Lowered(@)
                           ELSE Plain(APPS, Plain(CORES, @))]
SourceIsOneThing ==
    at = "written" =>
        /\ source = source_of(Plainly(args))
        /\ ~CannotRun(source.app, source.core)
        /\ source.core \in {row.slug : row \in ToSet(CORES)} \cup ReverseDns \cup {Unsaid}
        /\ {written.system, written.role} \cap NotSlugs = {}

(***************************************************************************)
(* A catalog never changes what was read from the ROM itself, its digests  *)
(* and a serial in its header; and a game one of its entries has the       *)
(* strongest digest of is called what that entry calls it, whatever        *)
(* another with the same CRC-32 is called.                                 *)
(***************************************************************************)
StrongestNames ==
    (at \in {"source", "wrap", "written"} /\ args.rom # NoRom) =>
        LET strong == lookup(args.dat.entries, "sha1", args.rom.hashes["sha1"])
        IN /\ \A a \in DOMAIN args.rom.hashes : game.hashes[a] = args.rom.hashes[a]
           /\ args.rom.serial # Unsaid => game.serial = args.rom.serial
           /\ strong # << >> => game.title = strong[1].name

(***************************************************************************)
(* As convert says of --from, it names a producer or a format, and a       *)
(* producer says who wrote the bytes: a format says nothing of who did.    *)
(***************************************************************************)
FormatNamesNobody ==
    (at = "written" /\ from_name(args.from) # {} /\ args.core = Unsaid) => source.app = Unsaid /\ source.core = Unsaid
=============================================================================
