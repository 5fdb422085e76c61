------------------------------- MODULE MCFormats ------------------------------
(***************************************************************************)
(* Bundles, clocks, save states, the clocks of cartridges and extension    *)
(* keys for TLC, beside what MCSources gives to the converter: one at a    *)
(* time, area says which, in the variables MCSources has for it. A         *)
(* bundle's are its own.                                                   *)
(***************************************************************************)
EXTENDS MCBundle, MCSources

-----------------------------------------------------------------------------
(* What the chips show, and what is put under extension keys: by their own   *)
(* types within the limits of their schemas and beyond, and off the wire     *)
(* what is near it.                                                          *)
Limit == 100000
Word == 99999
Type == INSTANCE ExtensionTypes WITH MAX_PNG <- 2, MAX_FILENAME <- 3, WORD <- Word, LastDay <- Limit

(* What each chip shows when the model starts: the last second of a day,     *)
(* after which something carries; and where it counts twelve hours, on one   *)
(* day the ones before noon and before one o'clock too.                      *)
Midnight == {<<23, 59, 59>>}
Noon == {<<11, 59, 59>>, <<0, 59, 59>>}
Turns(years) == UNION {{<<y, 2, 28>>, <<y, 12, 31>>} : y \in years}
Showing(dates, times) == {date \o time : date \in dates, time \in times}
Nights(days, hours) == Showing(days, Midnight) \cup Showing({CHOOSE day \in days : TRUE}, hours)
ShownByChip ==
    [mbc3 |-> Nights({<<0>>, <<255>>, <<511>>}, Noon), huc3 |-> Nights({<<0>>, <<4095>>, <<65535>>}, Noon),
     tpp1 |-> Nights({<<6>>, <<1791>>}, {}), s3511a |-> Nights(Turns({2000, 2023, 2099}) \cup {<<2000, 2, 29>>, <<2023, 4, 30>>}, Noon),
     joybus |-> Nights(Turns({1999, 2000, 2100}), Noon), srtc |-> Nights(Turns({1000, 1999, 2100}), {}),
     rtc4513 |-> Nights(Turns({1900, 1999, 2000}), Noon), tc8521 |-> Nights(Turns({1900, 1999, 2000}), Noon)]

Fit(type, ofs) == {[type |-> type, of |-> of] : of \in ofs}
line == <<"text", "line", 8>>
blank == <<"text", "", 0>>
long == <<"text", "long", 257>>
png == <<1, 1>>
huge == <<1, 1, 1>>
early == <<-1, 86399>>
DirectoryEntry(filename, numbers, code, image) ==
    [game_code |-> Type!Text("code", code), maker_code |-> Type!Text("maker", 2), filename |-> filename, numbers |-> numbers, image_offset |-> image, comments_offset |-> <<Word>>]
CheatsOf(name, disabled, codes) == [sets |-> <<[name |-> name, disabled |-> disabled, directives |-> << >>, codes |-> codes]>>]
At(seconds, utc_offset) == [seconds |-> seconds, utc_offset |-> utc_offset]
OutOfLimits ==
    Fit("label", {[title |-> blank, detail |-> Type!None], [title |-> line, detail |-> <<long>>]})
    \cup Fit("icon", {[frames |-> << >>, banner |-> <<png>>], [frames |-> <<[png |-> huge, hold |-> Type!None]>>, banner |-> Type!None]})
    \cup Fit("dirent", {[created_at |-> Type!None, modified_at |-> Type!None], [created_at |-> Type!None, modified_at |-> <<At(early, <<50401>>)>>]})
    \cup Fit("dirent.gc-mc", {DirectoryEntry(<<1, 2, 3, 4>>, <<0, 0, 0, 0, 0>>, 4, Type!None), DirectoryEntry(<<1>>, <<0, 0, 0, 0, 0>>, 3, Type!None)})
    \cup Fit("cheats.mgba", {[sets |-> << >>], CheatsOf(<<blank>>, FALSE, <<line>>)})
WithinLimits ==
    Fit("label", {[title |-> line, detail |-> Type!None], [title |-> line, detail |-> <<line>>]})
    \cup Fit("icon", {[frames |-> <<[png |-> png, hold |-> Type!None], [png |-> <<1>>, hold |-> <<0>>]>>, banner |-> Type!None],
                      [frames |-> <<[png |-> png, hold |-> <<Word>>]>>, banner |-> <<png>>]})
    \cup Fit("dirent", {[created_at |-> <<At(early, Type!None)>>, modified_at |-> Type!None], [created_at |-> <<At(<<0, 0>>, <<-43200>>)>>, modified_at |-> <<At(<<Limit, 0>>, <<0>>)>>]})
    \cup Fit("dirent.gc-mc", {DirectoryEntry(<<1, 2, 3>>, <<255, 65535, 65535, 255, 255>>, 4, Type!None), DirectoryEntry(<<1>>, <<0, 0, 0, 0, 0>>, 4, <<0>>)})
    \cup Fit("n64", {[save |-> save] : save \in {"eeprom-16k", "flash-1m"}})
    \cup Fit("forge", {[parser |-> blank, parsed |-> Type!None], [parser |-> line, parsed |-> <<Type!None>>], [parser |-> long, parsed |-> <<0 :> Type!Uint(1)>>]})
    \cup Fit("cheats.mgba", {CheatsOf(Type!None, FALSE, << >>), CheatsOf(<<line>>, TRUE, <<blank, line>>)})
    \cup Fit("count", {[value |-> Type!Uint(Word)]}) \cup Fit("note", {[value |-> line]})
PutThere == WithinLimits \cup OutOfLimits

(* On the wire, what is written there and what is near it. *)
Strange == {Type!Null, Type!MapOf(9 :> line)}
OnTheWire ==
    [label |-> Strange \cup {line, Type!MapOf((0 :> line) @@ (1 :> Type!Null)), Type!MapOf((0 :> line) @@ (1 :> blank)), Type!MapOf((0 :> line) @@ (2 :> line))},
     icon |-> Strange \cup {Type!MapOf(0 :> Type!Array(<<Type!Array(<<Type!Bytes(<< >>)>>)>>)),
                            Type!MapOf(0 :> Type!Array(<<Type!Array(<<Type!Bytes(png), Type!Uint(0), Type!Uint(0)>>)>>))},
     dirent |-> Strange \cup {Type!MapOf(0 :> Type!Array(<<Type!epoch(early), Type!Signed(offset)>>)) : offset \in {-43201, -43200, 50400}}
                \cup {Type!MapOf(Type!None), Type!MapOf(1 :> Type!epoch(early)), Type!MapOf(1 :> Type!Array(<<<<"epoch", "unsigned", Limit + 1, 0>>>>))},
     n64 |-> Strange \cup {Type!MapOf(0 :> Type!Named("sram-64k")), Type!MapOf(0 :> Type!Uint(0)), Type!Named("flash-1m")},
     forge |-> Strange \cup {Type!MapOf((0 :> line) @@ (1 :> Type!Null)), Type!MapOf(1 :> Type!MapOf(Type!None))}]
    @@ ("dirent.gc-mc" :> Strange \cup {Type!MapOf([key \in 0 .. 7 |-> IF key < 2 THEN Type!Text("code", 4 - 2 * key) ELSE IF key = 2 THEN Type!Bytes(png) ELSE Type!Uint(n)]) : n \in {0, 255, 256}})
    @@ ("cheats.mgba" :> Strange \cup {Type!Array(<<Type!MapOf(1 :> <<"bool", flag>>)>>) : flag \in BOOLEAN}
                \cup {Type!Array(<< >>), Type!Array(<<Type!MapOf(Type!None), Type!MapOf(0 :> blank)>>), Type!Array(<<Type!MapOf(3 :> Type!Array(<< >>))>>), Type!Array(<<Type!MapOf(4 :> Type!Null)>>)})
    @@ ("own" :> Strange \cup {line, Type!Uint(7), Type!Uint(Word + 1)})

-----------------------------------------------------------------------------
Clock == INSTANCE Clocks WITH
    now <- s1, chip <- s2, count <- s3, halted <- s4, core <- s5, file <- s6, rtc <- s7, bundle <- s8,
    Day <- 3, DayRadix <- 4, Days <- 2, HucDays <- 8, Century <- 4, First <- 48, Top <- 52, Until <- 52
StateFile == INSTANCE StateFiles WITH
    disk <- s1, held <- s2, made <- s3,
    CoreFlags <- {"none", "mgba", "snes9x"}, MaxItems <- 4
ChipClock == INSTANCE ChipClocks WITH
    chip <- s1, shown <- s2, style <- s3, holds <- s4, taken <- s5, wire <- s6, read <- s7,
    step <- s8, Shown <- ShownByChip, WINDOW <- 32,
    MAX_PNG <- 2, MAX_FILENAME <- 3, WORD <- Word, LastDay <- Limit
Keyed == INSTANCE ExtensionKeys WITH
    entries <- s1, put <- s2, asked <- s3, answer <- s4,
    Values <- PutThere, Unfit <- OutOfLimits, Wired <- OnTheWire, MaxKeys <- 2,
    MAX_PNG <- 2, MAX_FILENAME <- 3, WORD <- Word, LastDay <- Limit

bundleVars == vars
From4 == s4 = << >> /\ From5
BundleAway == file = << >> /\ mem = << >> /\ was = << >> /\ edited = FALSE /\ told = "found"

FormatsInit ==
    \/ area = "bundle" /\ Init /\ s1 = << >> /\ s2 = << >> /\ s3 = << >> /\ From4
    \/ area = "clocks" /\ Clock!ClockInit /\ BundleAway
    \/ area = "states" /\ StateFile!StateInit /\ BundleAway /\ From4
    \/ area = "chips" /\ ChipClock!ChipInit /\ BundleAway
    \/ area = "keys" /\ Keyed!ExtensionInit /\ BundleAway /\ From5
    \/ SourcesInit /\ BundleAway
FormatsNext ==
    \/ area = "bundle" /\ Next /\ UNCHANGED sourcesVars
    \/ area = "clocks" /\ Clock!ClockNext /\ UNCHANGED <<area, bundleVars>>
    \/ area = "states" /\ StateFile!StateNext /\ UNCHANGED <<area, bundleVars, s4, s5, s6, s7, s8>>
    \/ area = "chips" /\ ChipClock!ChipNext /\ UNCHANGED <<area, bundleVars>>
    \/ area = "keys" /\ Keyed!ExtensionNext /\ UNCHANGED <<area, bundleVars, s5, s6, s7, s8>>
    \/ SourcesNext /\ UNCHANGED bundleVars
formatsVars == <<sourcesVars, bundleVars>>
FormatsSpec == FormatsInit /\ [][FormatsNext]_formatsVars

-----------------------------------------------------------------------------
(* Every part's variables keep their types, whichever part is at work. *)
TypesOK ==
    /\ area = "bundle" => BundleTypeOK
    /\ area = "clocks" => Clock!ClockTypeOK
    /\ area = "states" => StateFile!StateTypeOK
    /\ area = "chips" => ChipClock!ChipTypeOK
    /\ area = "keys" => Keyed!ExtensionTypeOK
    /\ SourcesTypesOK

(* Bundle: what was read is what is written back, a later version's and a      *)
(* producer's included, byte for byte as long as nothing was edited. Keys: the *)
(* value of one is written as it was put, whatever was asked of it, and what   *)
(* is told of it is what it says. Chips: a clock's key read is that written.   *)
ReadIsWritten ==
    /\ area = "bundle" => ReadIsWrittenBack
    /\ area = "keys" => Keyed!WireIsKept /\ Keyed!AnswersAreHonest
    /\ area = "chips" => ChipClock!ReadAsWritten

(* Bundle: what is written can be read, what is nested in it stands alone, and *)
(* what passes verification is whole. Keys: a value within its schema reads    *)
(* back as itself, one beyond it not at all, and none has a second spelling.   *)
WritesWhatReads ==
    /\ area = "bundle" => WrittenReads /\ NestedStandAlone /\ VerifiedMeansIntact
    /\ area = "keys" => Keyed!OneSpelling

(* Bundle: what a bundle is known by changes only with what it says, and what  *)
(* a later version wrote is never lost from one that is edited.                *)
EditsKeepTheRest == ContentHashIsOfContent /\ LaterKeysSurvive

(* Clocks: a clock goes on from where it was through any conversions, no clock *)
(* is left in the save's own bytes, and its files come back as they were.      *)
(* Chips: registers stand for the moment the chip showed, and show its face.   *)
ClocksKeepTime ==
    /\ area = "clocks" => Clock!KeepsTime /\ Clock!SaveAlone /\ Clock!ComesBack
    /\ area = "chips" => ChipClock!StandsForWhatItShowed /\ ChipClock!ShowsItsFace

(* StateFiles: a file made of a state reads as that state, for its core only.  *)
StatesReload == area = "states" => StateFile!Reloads /\ StateFile!OnlyItsCore

(* Clocks: rtc.rs says of an origin read from Gambatte's file that it is what  *)
(* is written back, whatever instant it was read at.                           *)
OriginIsExact == area = "clocks" => Clock!OriginComesBack
=============================================================================
