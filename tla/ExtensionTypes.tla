---------------------------- MODULE ExtensionTypes ----------------------------
(***************************************************************************)
(* CBOR as the extension keys write and read it (one-saves/src/            *)
(* extension.rs and extension/rtc.rs), and the types this crate has for    *)
(* them (one-saves/src/extension/) but the clocks', which are ChipClocks': *)
(* how each is written and what is read as it.                             *)
(*                                                                         *)
(* A value is its kind and what it holds, a map the function it is, a text *)
(* what it says and its length in bytes, an instant its day since 1970 and *)
(* its second of the day.  What is not there, or not read, is nothing.     *)
(***************************************************************************)
EXTENDS Integers, Sequences, TLC

CONSTANTS
    LastDay,                    \* the last day an instant of 64 bits can name
    MAX_PNG, MAX_FILENAME,      \* the limits of a picture and of a GameCube's name
    WORD                        \* the last number of 32 bits

None == << >>
Maybe(S) == {some \in Seq(S) : Len(some) <= 1}
All(some) == \A i \in DOMAIN some : some[i] # None

Uint(n) == <<"uint", n>>
Null == <<"null">>
Bytes(bytes) == <<"bytes", bytes>>
Array(items) == <<"array", items>>
or_null(value, Write(_)) == IF value = None THEN Null ELSE Write(value[1])
array(values, Write(_)) == Array([i \in DOMAIN values |-> Write(values[i])])
nybble_or_null(value) == or_null(value, Uint)
(* A negative integer is written as what it is short of -1. *)
epoch(at) ==
    IF at[1] >= 0 THEN <<"epoch", "unsigned", at[1], at[2]>> ELSE <<"epoch", "negative", -1 - at[1], 86399 - at[2]>>
Optional(key, value, Write(_)) == IF value = None THEN None ELSE key :> Write(value[1])

field(map, key) == IF key \in DOMAIN map THEN <<map[key]>> ELSE None
only_keys(map, allowed) == DOMAIN map \subseteq allowed
Wanted(value, Read(_)) == IF value = None THEN None ELSE Read(value[1])
want_uint(value, max) == IF value[1] = "uint" /\ value[2] <= max THEN <<value[2]>> ELSE None
want_byte(value) == want_uint(value, 255)
want_nybble(value) == want_uint(value, 15)
want_bytes(value, n) == IF value[1] = "bytes" /\ Len(value[2]) = n THEN <<value[2]>> ELSE None
want_epoch(value) ==
    IF value[1] # "epoch" \/ value[3] > LastDay THEN None
    ELSE IF value[2] = "unsigned" THEN <<<<value[3], value[4]>>>> ELSE <<<<-1 - value[3], 86399 - value[4]>>>>
want_array(value, n, Read(_)) ==
    IF value[1] # "array" \/ Len(value[2]) # n THEN None
    ELSE LET items == [i \in 1 .. n |-> Read(value[2][i])]
         IN IF All(items) THEN <<[i \in 1 .. n |-> items[i][1]]>> ELSE None
nullable(value, Read(_)) == IF value = Null THEN <<None>> ELSE LET some == Read(value) IN IF some = None THEN None ELSE <<some>>
(* A key that may be absent: read as nothing, or else it is what it has to be. *)
Perhaps(map, key, Read(_)) ==
    IF key \notin DOMAIN map THEN <<None>> ELSE LET some == Read(map[key]) IN IF some = None THEN None ELSE <<some>>
optional_epoch(map, key) == Perhaps(map, key, want_epoch)
Parsed(some) == IF All(some) THEN <<[name \in DOMAIN some |-> some[name][1]]>> ELSE None

-----------------------------------------------------------------------------
(* Values with shapes of their own, and the limits they keep to. *)
Texts == {"text"} \X STRING \X Nat
Text(says, length) == <<"text", says, length>>
MapOf(f) == <<"map", f>>
Signed(n) == IF n >= 0 THEN Uint(n) ELSE <<"negative", -1 - n>>
want_text(value, lengths) == IF value[1] = "text" /\ value[3] \in lengths THEN <<value>> ELSE None
want_number(value) == IF value[1] = "uint" THEN <<value[2]>> ELSE None
want_length(value, most) == IF value[1] = "bytes" /\ Len(value[2]) \in 1 .. most THEN <<value[2]>> ELSE None
want_map(value) == IF value[1] = "map" THEN <<value[2]>> ELSE None
want_items(value, Read(_)) ==
    IF value[1] # "array" \/ value[2] = << >> THEN None ELSE want_array(value, Len(value[2]), Read)
OfMap(value, allowed, Read(_)) ==
    IF value[1] # "map" \/ ~only_keys(value[2], allowed) THEN None ELSE Read(value[2])
Itself(value) == value

-----------------------------------------------------------------------------
(* Each type, written and read. *)
Label == [title : Texts, detail : Maybe(Texts)]
WriteLabel(label) == MapOf((0 :> label.title) @@ Optional(1, label.detail, Itself))
ReadLabel(value) ==
    LET line(text) == want_text(text, 1 .. 256)
    IN OfMap(value, 0 .. 1, LAMBDA map : Parsed([title |-> Wanted(field(map, 0), line), detail |-> Perhaps(map, 1, line)]))

IconFrame == [png : Seq(Nat), hold : Maybe(Nat)]
Icon == [frames : Seq(IconFrame), banner : Maybe(Seq(Nat))]
WriteFrame(frame) == Array(<<Bytes(frame.png)>> \o (IF frame.hold = None THEN << >> ELSE <<Uint(frame.hold[1])>>))
want_png(value) == want_length(value, MAX_PNG)
ReadFrame(value) ==
    IF value[1] # "array" \/ Len(value[2]) \notin {1, 2} THEN None
    ELSE Parsed([png |-> want_png(value[2][1]), hold |-> IF Len(value[2]) = 1 THEN <<None>>
                                                         ELSE LET hold == want_number(value[2][2]) IN IF hold = None THEN None ELSE <<hold>>])
WriteIcon(icon) == MapOf((0 :> array(icon.frames, WriteFrame)) @@ Optional(1, icon.banner, Bytes))
ReadIcon(value) ==
    OfMap(value, 0 .. 1, LAMBDA map :
        Parsed([frames |-> Wanted(field(map, 0), LAMBDA frames : want_items(frames, ReadFrame)), banner |-> Perhaps(map, 1, want_png)]))

EntryTime == [seconds : Int \X (0 .. 86399), utc_offset : Maybe(Int)]
Dirent == [created_at : Maybe(EntryTime), modified_at : Maybe(EntryTime)]
WriteTime(time) == Array(<<epoch(time.seconds)>> \o (IF time.utc_offset = None THEN << >> ELSE <<Signed(time.utc_offset[1])>>))
want_offset(value) ==
    LET n == IF value[1] = "uint" THEN <<value[2]>> ELSE IF value[1] = "negative" THEN <<-1 - value[2]>> ELSE None
    IN IF n # None /\ n[1] \notin -43200 .. 50400 THEN None ELSE n
ReadTime(value) ==
    IF value[1] # "array" \/ Len(value[2]) \notin {1, 2} THEN None
    ELSE Parsed([seconds |-> want_epoch(value[2][1]), utc_offset |-> IF Len(value[2]) = 1 THEN <<None>>
                    ELSE LET offset == want_offset(value[2][2]) IN IF offset = None THEN None ELSE <<offset>>])
WriteDirent(dirent) == MapOf(Optional(0, dirent.created_at, WriteTime) @@ Optional(1, dirent.modified_at, WriteTime))
ReadDirent(value) ==
    OfMap(value, 0 .. 1, LAMBDA map :
        IF DOMAIN map = {} THEN None
        ELSE Parsed([created_at |-> Perhaps(map, 0, ReadTime), modified_at |-> Perhaps(map, 1, ReadTime)]))

(* A GameCube's entry: its codes, its name, five numbers and where two things start. *)
DirentGcMc ==
    [game_code : Texts, maker_code : Texts, filename : Seq(Nat), numbers : [1 .. 5 -> Nat], image_offset : Maybe(Nat), comments_offset : Maybe(Nat)]
Widths == <<255, 65535, 65535, 255, 255>>
WriteGcMc(entry) ==
    MapOf((0 :> entry.game_code) @@ (1 :> entry.maker_code) @@ (2 :> Bytes(entry.filename)) @@ [key \in 3 .. 7 |-> Uint(entry.numbers[key - 2])]
          @@ Optional(8, entry.image_offset, Uint) @@ Optional(9, entry.comments_offset, Uint))
ReadGcMc(value) ==
    LET number(map, key) == Wanted(field(map, key), LAMBDA n : want_uint(n, Widths[key - 2]))
        offset(n) == want_uint(n, WORD)
    IN OfMap(value, 0 .. 9, LAMBDA map :
        LET numbers == [n \in 1 .. 5 |-> number(map, n + 2)]
        IN Parsed([game_code |-> Wanted(field(map, 0), LAMBDA text : want_text(text, {4})),
                   maker_code |-> Wanted(field(map, 1), LAMBDA text : want_text(text, {2})),
                   filename |-> Wanted(field(map, 2), LAMBDA bytes : want_length(bytes, MAX_FILENAME)),
                   numbers |-> IF All(numbers) THEN <<[n \in 1 .. 5 |-> numbers[n][1]]>> ELSE None,
                   image_offset |-> Perhaps(map, 8, offset), comments_offset |-> Perhaps(map, 9, offset)]))

N64Saves == {"eeprom-4k", "eeprom-16k", "sram-256k", "sram-768k", "flash-1m"}
N64 == [save : N64Saves]
Named(save) == Text(save, 8)
WriteN64(n64) == MapOf(0 :> Named(n64.save))
from_name(value) == IF value[1] = "text" /\ value[2] \in N64Saves THEN <<value[2]>> ELSE None
ReadN64(value) == OfMap(value, {0}, LAMBDA map : Parsed([save |-> Wanted(field(map, 0), from_name)]))

WriteForge(forge) == MapOf((0 :> forge.parser) @@ Optional(1, forge.parsed, MapOf))
ReadForge(value) ==
    OfMap(value, 0 .. 1, LAMBDA map :
        Parsed([parser |-> Wanted(field(map, 0), LAMBDA text : want_text(text, Nat)), parsed |-> Perhaps(map, 1, want_map)]))

CheatSet == [name : Maybe(Texts), disabled : BOOLEAN, directives : Seq(Texts), codes : Seq(Texts)]
CheatsMgba == [sets : Seq(CheatSet)]
(* Absence is each key's only default: nothing is a second spelling of it. *)
Lines(map, key) == LET some == Perhaps(map, key, LAMBDA value : want_items(value, LAMBDA line : want_text(line, Nat)))
                   IN IF some = None THEN None ELSE IF some[1] = None THEN <<<< >>>> ELSE some[1]
Said(key, lines) == IF lines = << >> THEN None ELSE key :> Array(lines)
WriteSet(set) ==
    MapOf(Optional(0, set.name, Itself) @@ (IF set.disabled THEN 1 :> <<"bool", TRUE>> ELSE None) @@ Said(2, set.directives) @@ Said(3, set.codes))
ReadSet(value) ==
    OfMap(value, 0 .. 3, LAMBDA map :
        Parsed([name |-> Perhaps(map, 0, LAMBDA name : want_text(name, Nat \ {0})),
                disabled |-> IF 1 \notin DOMAIN map THEN <<FALSE>> ELSE IF map[1] = <<"bool", TRUE>> THEN <<TRUE>> ELSE None,
                directives |-> Lines(map, 2), codes |-> Lines(map, 3)]))
WriteCheats(cheats) == array(cheats.sets, WriteSet)
ReadCheats(value) == Parsed([sets |-> want_items(value, ReadSet)])

(* Types of a producer's own, two for one key: a number and a text. *)
WriteOwn(own) == own.value
ReadCount(value) == Parsed([value |-> IF want_uint(value, WORD) = None THEN None ELSE <<value>>])
ReadNote(value) == Parsed([value |-> want_text(value, Nat)])

Registered == {"label", "icon", "dirent", "dirent.gc-mc", "n64", "forge", "cheats.mgba", "count", "note"}
KEY(type) == IF type \in {"count", "note"} THEN "own" ELSE type
Encode(typed) ==
    LET of == typed.of
    IN CASE typed.type = "label" -> WriteLabel(of) [] typed.type = "icon" -> WriteIcon(of) [] typed.type = "dirent" -> WriteDirent(of)
         [] typed.type = "dirent.gc-mc" -> WriteGcMc(of) [] typed.type = "n64" -> WriteN64(of) [] typed.type = "forge" -> WriteForge(of)
         [] typed.type = "cheats.mgba" -> WriteCheats(of) [] OTHER -> WriteOwn(of)
ReadOf(type, value) ==
    CASE type = "label" -> ReadLabel(value) [] type = "icon" -> ReadIcon(value) [] type = "dirent" -> ReadDirent(value)
      [] type = "dirent.gc-mc" -> ReadGcMc(value) [] type = "n64" -> ReadN64(value) [] type = "forge" -> ReadForge(value)
      [] type = "cheats.mgba" -> ReadCheats(value) [] type = "count" -> ReadCount(value) [] type = "note" -> ReadNote(value)
IsA(type, of) ==
    CASE type = "label" -> of \in Label [] type = "icon" -> of \in Icon [] type = "dirent" -> of \in Dirent
      [] type = "dirent.gc-mc" -> of \in DirentGcMc [] type = "n64" -> of \in N64 [] type = "cheats.mgba" -> of \in CheatsMgba
      [] type = "forge" -> DOMAIN of = {"parser", "parsed"} /\ of.parser \in Texts
      [] OTHER -> DOMAIN of = {"value"}
decode(type, value) == LET of == ReadOf(type, value) IN IF of = None THEN None ELSE <<[type |-> type, of |-> of[1]]>>
==============================================================================
