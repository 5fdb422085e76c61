-------------------------------- MODULE Formats --------------------------------
(***************************************************************************)
(* The formats a file may be, what each goes by, and how one is told from  *)
(* another (one-saves-convert/src/detect.rs).  A file is the length it     *)
(* has, the extension it goes by and the marks its bytes bear, which a     *)
(* format's own test looks for.  A name is compared without its capitals.   *)
(***************************************************************************)
EXTENDS Integers, Sequences, FiniteSets, SequencesExt

CONSTANT Lower    \* what is typed with capitals, and without them

CAPACITY == 131072
PS1_LENGTHS == {<<"bare", CAPACITY>>, <<"dex", CAPACITY + 3904>>, <<"vgs", CAPACITY + 64>>, <<"vmp", CAPACITY + 128>>}
GC_BLOCK == 8192
KNOWN_SIZES == {64, 128, 256, 512, 1024, 2048}
PAK_LENGTH == 32768
SEGA_CD_BRAM_BLOCK == 64
SEGA_CD_BRAM_MIN == 8192
MISTER_RAM == 65536
MISTER_SAVE == MISTER_RAM + 8192

-----------------------------------------------------------------------------
(* What each format is called elsewhere. *)
card_format ==
    [ps1 |-> "ps1-mc", n64 |-> "n64-cpak", gc |-> "gc-mc", vmu |-> "vmu", ps2 |-> "ps2-mc", neogeo |-> "neogeo-mc",
     saturn |-> "saturn-bup"]
CardFormats == DOMAIN card_format
Formats == CardFormats \cup {"bundle", "raw"}
from_card_format(slug) == {format \in CardFormats : card_format[format] = slug}

system_held ==
    [ps1 |-> "psx", n64 |-> "n64", gc |-> "gc", vmu |-> "dreamcast", ps2 |-> "ps2", neogeo |-> "neogeo", saturn |-> "saturn"]
default_role(format) ==
    CASE format = "neogeo" -> "neogeo-card"
      [] format = "n64" -> "controller-pak-1"
      [] format = "saturn" -> "internal"
      [] OTHER -> "memcard-1"
extension ==
    [bundle |-> "1saves", raw |-> "srm", ps1 |-> "mcr", n64 |-> "mpk", gc |-> "raw", vmu |-> "bin", ps2 |-> "ps2",
     neogeo |-> "neo", saturn |-> "bkr"]

(* The names --from and --to take for one; no format for any other. *)
NamesOf ==
    [bundle |-> {"1saves", "bundle"}, raw |-> {"raw", "srm", "sav", "brm"},
     ps1 |-> {"ps1", "ps1-mc", "psx", "mcr"}, n64 |-> {"n64", "n64-cpak", "cpak", "mpk"}, gc |-> {"gc", "gc-mc", "gamecube"},
     vmu |-> {"vmu", "dreamcast"}, ps2 |-> {"ps2", "ps2-mc", "psu"}, neogeo |-> {"neogeo", "neogeo-mc", "neo", "mvs", "aes"},
     saturn |-> {"saturn", "saturn-bup", "bkr", "bcr"}]
Lowered(text) == IF text \in DOMAIN Lower THEN Lower[text] ELSE text
from_name(name) == {format \in Formats : Lowered(name) \in NamesOf[format]}

-----------------------------------------------------------------------------
(* Each format's test.  GameCube cards and paks have no magic: their marks   *)
(* are a directory whose sum is right and an index of plausible links, which *)
(* other bytes may pass for.                                                 *)
is_bundle(file) == "1saves" \in file.marks
is_segacd_bram(file) ==
    file.length >= SEGA_CD_BRAM_MIN /\ file.length % SEGA_CD_BRAM_BLOCK = 0 /\ "bram" \in file.marks
saturn_detect(file) == "saturn" \in file.marks
ps1_detect(file) ==
    /\ "mc" \in file.marks
    /\ \E container \in PS1_LENGTHS :
          file.length = container[2] /\ (container[1] = "bare" \/ container[1] \in file.marks)
vmu_detect(file) == file.length = CAPACITY /\ "root55" \in file.marks
gc_detect(file) ==
    file.length % GC_BLOCK = 0 /\ file.length \div GC_BLOCK \in KNOWN_SIZES /\ "directory" \in file.marks
ps2_detect(file) == "ps2" \in file.marks
neogeo_detect(file) == "neogeo" \in file.marks \/ (file.length = MISTER_SAVE /\ "cabinet" \in file.marks)
n64_detect(file) == file.length = PAK_LENGTH /\ "index" \in file.marks

Tests(file) ==
    <<<<"bundle", is_bundle(file)>>, <<"raw", is_segacd_bram(file)>>, <<"saturn", saturn_detect(file)>>,
      <<"ps1", ps1_detect(file)>>, <<"vmu", vmu_detect(file)>>, <<"gc", gc_detect(file)>>,
      <<"ps2", ps2_detect(file)>>, <<"neogeo", neogeo_detect(file)>>, <<"n64", n64_detect(file)>>>>
RAW_EXTENSIONS == {"srm", "sav", "eep", "sra", "fla", "flash", "sa1", "brm", "rtc", "bsv"}
ByExtension(called) ==
    CASE called = "1saves" -> "bundle"
      [] called \in {"mcr", "mcd", "gme", "vgs", "vmp"} -> "ps1"
      [] called \in {"mpk", "pak"} -> "n64"
      [] called \in {"raw", "gcp"} -> "gc"
      [] called = "ps2" -> "ps2"
      [] called = "neo" -> "neogeo"
      [] called \in {"bkr", "bcr"} -> "saturn"
      [] called \in RAW_EXTENSIONS -> "raw"
      [] OTHER -> "undetected"

(* The first test a file passes, and what it is called when it passes none. *)
Passed(file) == SelectSeq(Tests(file), LAMBDA test : test[2])
detect(file) == IF Passed(file) = << >> THEN ByExtension(file.extension) ELSE Passed(file)[1][1]
=============================================================================
