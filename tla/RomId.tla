--------------------------------- MODULE RomId ---------------------------------
(***************************************************************************)
(* Identifying a ROM by its header (crates/rom-id), held whole or read a   *)
(* window at a time, and what its name adds. Offsets and lengths are the   *)
(* code's. A ROM is its length and the headers found in it, each a mark    *)
(* [header, at, says].                                                     *)
(***************************************************************************)
EXTENDS Integers, Sequences, FiniteSets, SequencesExt

None == << >>
VARIABLES
    rom,       \* the file: [len, marks]
    named,     \* its name: [folder, extension]
    reads,     \* the windows read of it, <<start, end>>, or None before any is
    answers    \* what it was identified as, held whole and by its windows

romVars == <<rom, named, reads, answers>>

-----------------------------------------------------------------------------
FRONT == 512
SEGA_8BIT_HEADERS == <<32752, 16368, 8176>>
SNES_HEADERS == <<32704, 65472, 4259776>>
SNES_COPIER == 512
TAIL == 16
MARS_HEADER == 960

(* The byte ranges any header could be in, cut to the file and run together. *)
RangesUncopied(len) ==
    {<<0, FRONT>>, <<MARS_HEADER, MARS_HEADER + 16>>, <<IF len < TAIL THEN 0 ELSE len - TAIL, len>>}
      \cup {<<at, at + 16>> : at \in Range(SEGA_8BIT_HEADERS)}
      \cup {<<at, at + 32>> : at \in Range(SNES_HEADERS)}
Ranges(len) ==
    {<<0, FRONT>>, <<MARS_HEADER, MARS_HEADER + 16>>}
      \cup {<<at, at + 16>> : at \in Range(SEGA_8BIT_HEADERS)}
      \cup {<<base + at, base + at + 32>> : base \in {0, SNES_COPIER}, at \in Range(SNES_HEADERS)}
      \cup {<<IF len < TAIL THEN 0 ELSE len - TAIL, len>>}
Least(a, b) == IF a < b THEN a ELSE b
Merge(merged, range) ==
    IF merged # << >> /\ range[1] <= Last(merged)[2]
    THEN Append(Front(merged), <<Last(merged)[1], Max({Last(merged)[2], range[2]})>>)
    ELSE Append(merged, range)
windows(len) ==
    LET clipped == {r \in {<<Least(range[1], len), Least(range[2], len)>> : range \in Ranges(len)} : r[1] < r[2]}
        Before(a, b) == a[1] < b[1] \/ (a[1] = b[1] /\ a[2] > b[2])
        InOrder == [n \in 1 .. Cardinality(clipped) |->
                      CHOOSE r \in clipped : Cardinality({q \in clipped : Before(q, r)}) = n - 1]
    IN FoldLeft(Merge, << >>, InOrder)

(* How much of the file each header is read from. *)
Lengths ==
    [n64 |-> 64, ines |-> 16, unif |-> 4, fds |-> 16, lynx |-> 64, atari_7800 |-> 128, c64 |-> 64, ncsd |-> 4, nds |-> 352,
     gba |-> 192, gameboy |-> 96, neogeo_pocket |-> 48, mega_drive |-> 256, mars |-> 15, master_system |-> 16, vectrex |-> 5,
     snes |-> 32, colecovision |-> 2, wonderswan |-> 16]

(* Whether the bytes from at are to be had: of all of it, or of one window. *)
Whole == {<<0, rom.len>>}
Has(view, at, len) == \E window \in view : window[1] <= at /\ at + len <= window[2]
Says(view, header, at) ==
    LET marks == {m \in rom.marks : m.header = header /\ m.at = at}
    IN IF marks # {} /\ Has(view, at, Lengths[header]) THEN <<(CHOOSE m \in marks : TRUE).says>> ELSE None

-----------------------------------------------------------------------------
(* The parsers, each None or <<[system, payload, clock]>>. *)

Found(system, payload, clock) == <<[system |-> system, payload |-> payload, clock |-> clock]>>
Plain(view, header, at, system, payload) ==
    IF Says(view, header, at) = None THEN None ELSE Found(system, payload, "none")

(* A header in words of another order is put in its own before it is read. *)
n64(view) ==
    LET says == Says(view, "n64", 0) IN IF says = None THEN None ELSE Found("n64", 0, says[1].clock)
nds(view) == Plain(view, "nds", 0, "nds", 0)
gba(view) == LET says == Says(view, "gba", 0) IN IF says = None THEN None ELSE Found("gba", 0, says[1].clock)
(* Made for both consoles, a game is for the one its name says, and otherwise for the later. *)
gameboy(view, names) ==
    LET says == Says(view, "gameboy", 256)
        named_gb == "gb" \in names /\ "gbc" \notin names
    IN IF says = None THEN None
       ELSE Found(IF says[1].cgb = "only" \/ (says[1].cgb = "both" /\ ~named_gb) THEN "gbc" ELSE "gb", 0, says[1].clock)
(* A cartridge of the 32X is one of the Mega Drive with a header more. *)
mega_drive(view) ==
    IF Says(view, "mega_drive", 256) = None THEN None
    ELSE Found(IF Says(view, "mars", MARS_HEADER) # None THEN "sega32x" ELSE "genesis", 0, "none")
FirstOf(options) ==
    LET some == SelectSeq(options, LAMBDA o : o # None) IN IF some = << >> THEN None ELSE some[1]
master_system(view, names) ==
    LET At(at) ==
            LET says == Says(view, "master_system", at)
                gear == says[1].gear \/ ("gg" \in names /\ "sms" \notin names)
            IN IF says = None THEN None ELSE Found(IF gear THEN "gg" ELSE "sms", 0, "none")
    IN FirstOf([i \in DOMAIN SEGA_8BIT_HEADERS |-> At(SEGA_8BIT_HEADERS[i])])
(* A copier's header is known by the length it leaves, and stands ahead of the cartridge. *)
Copier == IF rom.len % 1024 = SNES_COPIER THEN SNES_COPIER ELSE 0
snes(view) ==
    FirstOf([i \in DOMAIN SNES_HEADERS |->
        LET says == Says(view, "snes", Copier + SNES_HEADERS[i])
        IN IF says = None THEN None ELSE Found("snes", Copier, says[1].clock)])
wonderswan(view) ==
    LET says == IF rom.len < TAIL THEN None ELSE Says(view, "wonderswan", rom.len - TAIL)
    IN IF says = None THEN None ELSE Found("wonderswan", 0, says[1].clock)

PARSERS(view, names) ==
    <<n64(view), Plain(view, "ines", 0, "nes", 16), Plain(view, "unif", 0, "nes", 0),
      Plain(view, "fds", 0, "fds", 16), Plain(view, "lynx", 0, "lynx", 64),
      Plain(view, "atari_7800", 0, "atari_7800", 128), Plain(view, "c64", 0, "c64", 0),
      Plain(view, "ncsd", 256, "3ds", 0), nds(view), gba(view), gameboy(view, names),
      Plain(view, "neogeo_pocket", 0, "ngp", 0), mega_drive(view), master_system(view, names),
      Plain(view, "vectrex", 0, "vectrex", 0), snes(view),
      Plain(view, "colecovision", 0, "colecovision", 0), wonderswan(view)>>
Strong == 1 .. 15

(* What a name allows: its folder's system, where that is one its extension may be. *)
EXTENSIONS ==
    [bin |-> {"genesis", "sega32x", "atari_7800", "colecovision", "vectrex"}, rom |-> {"msx", "colecovision", "atari_7800"},
     gb |-> {"gb"}, gbc |-> {"gbc"}, gg |-> {"gg"}, sfc |-> {"snes"}, ws |-> {"wonderswan"}, unknown |-> {}]
NOT_DUMPS == {"zip", "sav"}
candidates(name) ==
    LET allowed == IF name.extension \in DOMAIN EXTENSIONS THEN EXTENSIONS[name.extension] ELSE {}
    IN IF name.extension \in NOT_DUMPS THEN {}
       ELSE IF name.folder # "none" /\ (name.folder \in allowed \/ allowed = {}) THEN {name.folder} ELSE allowed

(* A weak header is one too many files have by chance, unless the name may be that system's. *)
Believed(i, found, names) == found # None /\ (i \in Strong \/ names = {} \/ found[1].system \in names)
identify_view(name, view) ==
    LET names == candidates(name)
        found == PARSERS(view, names)
        believed == {i \in DOMAIN found : Believed(i, found[i], names)}
    IN CASE believed # {} -> [evidence |-> "header", id |-> found[Min(believed)]]
         [] believed = {} /\ Cardinality(names) = 1 ->
              [evidence |-> "name", id |-> Found(CHOOSE s \in names : TRUE, 0, "none")]
         [] OTHER -> [evidence |-> "none", id |-> None]

(* Only what a header says goes into a bundle, and with no name to read it by. *)
NoName == [folder |-> "none", extension |-> "none"]
identify == LET found == identify_view(NoName, Whole) IN IF found.evidence = "header" THEN found.id ELSE None

-----------------------------------------------------------------------------
(* ROMs (external): a header, or two of them that do not overlap, in a file  *)
(* of any length that could matter.                                          *)

Mark(header, at, says) == [header |-> header, at |-> at, says |-> says]
Clocked(clocks) == [clock : clocks]
Fronts == {"ines", "unif", "fds", "lynx", "atari_7800", "c64", "nds", "neogeo_pocket", "vectrex", "colecovision"}
Marks(len) ==
    {Mark("n64", 0, says) : says \in Clocked({"none", "joybus"})}
    \cup {Mark(header, 0, [plain |-> TRUE]) : header \in Fronts}
    \cup {Mark("ncsd", 256, [plain |-> TRUE]), Mark("mega_drive", 256, [plain |-> TRUE]), Mark("mars", MARS_HEADER, [plain |-> TRUE])}
    \cup {Mark("gba", 0, says) : says \in Clocked({"none", "s3511a"})}
    \cup {Mark("gameboy", 256, says) : says \in [cgb : {"no", "both", "only"}, clock : {"mbc3"}]}
    \cup {Mark("master_system", at, says) : at \in Range(SEGA_8BIT_HEADERS), says \in [gear : BOOLEAN]}
    \cup {Mark("snes", base + at, says) : base \in {0, SNES_COPIER}, at \in Range(SNES_HEADERS), says \in Clocked({"srtc"})}
    \cup (IF len < TAIL THEN {} ELSE {Mark("wonderswan", len - TAIL, says) : says \in Clocked({"s3511a"})})
Spread(mark) == Lengths[mark.header]
Apart(a, b) == a.at + Spread(a) <= b.at \/ b.at + Spread(b) <= a.at
Edges ==
    LET ends == UNION {{r[1], r[2]} : r \in Ranges(0)} \cup {4, 64, 128, 352, 260}
    IN {e \in UNION {{end - 1, end, end + 1} : end \in ends} : e > 0} \cup {1024, 1536, 33280, 66048, 4260352}
Names == [folder : {"none", "gb", "gg", "colecovision"}, extension : {"none", "bin", "gb", "sfc", "sav"}]

RomInit ==
    /\ \E len \in Edges :
         \E a \in Marks(len) : \E b \in {a} \cup {m \in Marks(len) : m.header \in {"mars", "snes", "wonderswan", "colecovision"} /\ len \in {1024, 33280, 4260352}} :
            /\ a = b \/ Apart(a, b)
            /\ \A m \in {a, b} : m.at < len
            /\ rom = [len |-> len, marks |-> {a, b}]
    /\ named \in Names
    /\ reads = None /\ answers = None

Probe == reads = None /\ reads' = windows(rom.len) /\ UNCHANGED <<rom, named, answers>>
Identify ==
    /\ reads # None /\ answers = None
    /\ answers' = <<identify_view(named, Whole), identify_view(named, Range(reads))>>
    /\ UNCHANGED <<rom, named, reads>>
RomNext == Probe \/ Identify
RomSpec == RomInit /\ [][RomNext]_romVars

-----------------------------------------------------------------------------
RomTypeOK == answers # None => \A i \in 1 .. 2 : answers[i].evidence \in {"header", "name", "none"}

(* The windows, at most a dozen and of a few hundred bytes, say all that the   *)
(* file does, whatever its length: probing a ROM and holding it are the same.  *)
WindowsSuffice ==
    /\ reads # None => /\ Len(reads) <= 12
                       /\ \A i \in DOMAIN reads : reads[i][1] < reads[i][2] /\ reads[i][2] - reads[i][1] <= 2 * FRONT
    /\ answers # None => answers[1] = answers[2]

(* A header anyone might have by chance is believed only of a file whose name   *)
(* may be that system's; a header no name can talk out of its system is         *)
(* believed under every name; and a name alone answers only where it says one.  *)
Weak == {"snes", "colecovision", "wonderswan"}
HeaderBeforeName ==
    answers # None =>
        LET answer == answers[1]
            names == candidates(named)
            strong == {m \in rom.marks : m.header \notin Weak \cup {"mars"} /\ Has(Whole, m.at, Spread(m))}
        IN /\ strong # {} => answer.evidence = "header" /\ answer.id[1].system \notin Weak
           /\ strong = {} /\ answer.evidence = "header" /\ names # {} => answer.id[1].system \in names
           /\ answer.evidence = "name" => names = {answer.id[1].system}
           /\ answer.evidence # "none" => answer.id[1].payload <= rom.len

================================================================================
