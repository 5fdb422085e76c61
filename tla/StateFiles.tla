----------------------------- MODULE StateFiles -----------------------------
(* Save states: what an emulator took of a running game, its file read into a   *)
(* bundle and made again from one.  crates/one-saves-convert/src/state and      *)
(* crates/one-saves-cli/src/state.rs.  An emulator's file is a container, and   *)
(* only the core that took the data in it loads it.                             *)
(*                                                                              *)
(* A core's data is the core it is of, the machine its first word says, and the *)
(* items mGBA's libretro core keeps after it.  A picture is its pixels, the     *)
(* layout its file has them in, and whether a screen of mGBA's has room for it. *)
(* The end of a file's name, which says the slot, is <<extension, slot>>.       *)
EXTENDS Integers, Sequences, SequencesExt

CONSTANTS
  CoreFlags,    \* the cores a caller may name, and None
  MaxItems      \* how many items mGBA's reader takes

VARIABLES
  disk,         \* the state file there
  held,         \* the bundle in hand, or Refused or Unread
  made          \* what the file was made from last, <<>> or <<[of, emu, left_out]>>

stateVars == <<disk, held, made>>

None == "none"
Unread == [is |-> "nothing"]
Refused == [is |-> "refused"]
Emulators == {"retroarch", "mgba", "duckstation"}
Or(first, second) == IF first = None THEN second ELSE first

Machine(data) == IF data.machine \in {"gba", "gb"} THEN data.machine ELSE None
identity(data) == data.machine

-----------------------------------------------------------------------------
(* Which emulator's a file is: by how it opens, and by its name when its bytes  *)
(* are a core's bare data.                                                      *)
retroarch_slot(name) ==
  CASE name[1] # "state" -> None
    [] name[1] = "state" /\ name[2] = "" -> "0"
    [] OTHER -> name[2]
mgba_slot(name) ==
  CASE name[1] # "ss" -> None
    [] name[1] = "ss" /\ name[2] = "0" -> "auto"
    [] OTHER -> IF name[2] = "00" THEN "0" ELSE name[2]
slot_of_name(name) ==
  CASE name[1] = "resume.sav" -> [origin |-> "auto", slot |-> None]
    [] name[1] \in {"sav", "bak"} ->
         [origin |-> IF name[1] = "bak" /\ name[2] # None THEN "undo" ELSE None, slot |-> name[2]]
    [] OTHER -> [origin |-> None, slot |-> None]

is_mgba_png(file) == file.opens = "png"
detect(file) ==
  CASE file.opens \in {"rzip", "rastate"} -> "retroarch"
    [] file.opens = "ducc" -> "duckstation"
    [] is_mgba_png(file) -> "mgba"
    [] OTHER -> IF retroarch_slot(file.name) # None THEN "retroarch"
                ELSE IF mgba_slot(file.name) # None THEN "mgba" ELSE None

origin_and_slot(slot) ==
  IF slot = "auto" THEN [origin |-> "auto", slot |-> None] ELSE [origin |-> None, slot |-> slot]

-----------------------------------------------------------------------------
(* A bundle of what was found and what the caller gave. *)
header(options, found) ==
  [is |-> "bundle", app |-> found.app, core |-> Or(found.core, options.core),
   version |-> found.version, taken |-> Or(found.taken, options.taken),
   title |-> Or(options.title, found.title), serial |-> found.serial, format |-> found.format,
   origin |-> found.origin, slot |-> found.slot, clock |-> found.clock, cheats |-> found.cheats]
Found(app, core, where) ==
  [app |-> app, core |-> core, version |-> None, taken |-> None, title |-> None, serial |-> None,
   format |-> 0, origin |-> where.origin, slot |-> where.slot, clock |-> None, cheats |-> <<>>]

Part(kind, path, data) == [kind |-> kind, path |-> path, data |-> data]
IsPicture(picture) == picture.layout # "other"

(* No two parts of a bundle that validates have one path. *)
validate(bundle) ==
  \A i, j \in DOMAIN bundle.parts :
    bundle.parts[i].path = bundle.parts[j].path /\ bundle.parts[i].path # <<>> => i = j
Bundled(found, options, parts) ==
  LET bundle == header(options, found) @@ [parts |-> parts]
  IN IF validate(bundle) THEN bundle ELSE Refused

Those(bundle, kind) == SelectSeq(bundle.parts, LAMBDA part : part.kind = kind)
TheState(bundle) == Those(bundle, "state")[1].data
SlotOf(bundle) == IF bundle.origin = "auto" THEN "auto" ELSE bundle.slot

require_core(bundle, core) == Or(bundle.core, bundle.app) = core

emulator_of(bundle) ==
  IF bundle.app # None THEN IF bundle.app \in Emulators THEN bundle.app ELSE None
  ELSE IF bundle.core \in Emulators \ {"retroarch"} THEN bundle.core ELSE None

-----------------------------------------------------------------------------
(* mGBA's items are <<tag, strings>>. *)
END == 0
SCREENSHOT == 1
SAVEDATA == 2
CHEATS == 3
SCREENSHOT_DIMENSIONS == 5
META_TIME == 257
META_CREATOR == 258

(* The cheats' text, line by line: `#` opens a set, `!` says something of the next. *)
NameOf(line) == IF line = "# a" THEN "a" ELSE ""
parse_cheats(text) ==
  LET none == [name |-> "", disabled |-> FALSE, directives |-> <<>>, codes |-> <<>>]
      Opened(read, name) ==
        [name |-> name, disabled |-> read.disabled, directives |-> read.directives, codes |-> <<>>]
      Line(read, line) ==
        CASE line = "" -> read
          [] line \in {"# a", "#"} ->
               [read EXCEPT !.sets = Append(@, Opened(read, NameOf(line))), !.disabled = FALSE, !.directives = <<>>]
          [] line = "!disabled" -> [read EXCEPT !.disabled = TRUE]
          [] line = "!raw" -> [read EXCEPT !.directives = Append(@, "raw")]
          [] OTHER ->
               LET opened == IF read.sets # <<>> THEN read
                             ELSE [read EXCEPT !.sets = <<Opened(read, "")>>, !.disabled = FALSE, !.directives = <<>>]
               IN [opened EXCEPT !.sets[Len(opened.sets)].codes = Append(@, line)]
  IN FoldLeft(Line, [sets |-> <<>>, disabled |-> FALSE, directives |-> <<>>], text).sets

NameFirst(sets) ==
  FlattenSeq([i \in DOMAIN sets |->
    <<IF sets[i].name = "" THEN "#" ELSE "# " \o sets[i].name>>
      \o (IF sets[i].disabled THEN <<"!disabled">> ELSE <<>>)
      \o [d \in DOMAIN sets[i].directives |-> "!" \o sets[i].directives[d]] \o sets[i].codes])
cheats_text(sets) ==
  FlattenSeq([i \in DOMAIN sets |->
    (IF sets[i].disabled THEN <<"!disabled">> ELSE <<>>)
      \o [d \in DOMAIN sets[i].directives |-> "!" \o sets[i].directives[d]]
      \o <<IF sets[i].name = "" THEN "#" ELSE "# " \o sets[i].name>> \o sets[i].codes])

-----------------------------------------------------------------------------
(* What a bare file says its items are: where the data ends is the list, the    *)
(* data's own if it carries one, and a tag of zero ends it.                     *)
unpack_bare(file) ==
  LET list == IF file.data.tail # <<>> THEN file.data.tail ELSE file.items
      ends == {i \in DOMAIN list : list[i][1] = END}
  IN [data |-> [file.data EXCEPT !.tail = <<>>], picture |-> <<>>,
      items |-> IF ends = {} THEN list ELSE SubSeq(list, 1, Min(ends) - 1)]
unpack_png(file) == [data |-> file.data, picture |-> file.picture, items |-> file.items]
unpack(file) == IF is_mgba_png(file) THEN unpack_png(file) ELSE unpack_bare(file)

framebuffer(item, dimensions) ==
  IF IF dimensions = <<>> THEN item[2] = "screen" ELSE dimensions[1][2][1] = "right"
  THEN <<[pixels |-> item[1], layout |-> "rgb", fits |-> TRUE]>> ELSE <<>>
creator_version(item) == IF Len(item) = 2 /\ item[1] = "mGBA" THEN item[2] ELSE None
split(item) == IF Len(item) = 2 THEN [sram |-> <<item[1]>>, clock |-> item[2]] ELSE [sram |-> item, clock |-> None]
aux(item) == Part("aux", <<"extdata", item[1]>>, item[2])

ReadItem(dimensions, machine, read, item) ==
  LET v == item[2]
      rest(part) == [read EXCEPT !.rest = Append(@, part)]
      carried == rest(aux(item))
      picture == framebuffer(v, dimensions)
      saved == split(v)
  IN CASE item[1] = SCREENSHOT /\ read.picture = <<>> ->
            IF picture # <<>> THEN [read EXCEPT !.picture = picture] ELSE carried
       [] item[1] = SAVEDATA /\ ~\E i \in DOMAIN read.rest : read.rest[i].kind = "save" ->
            IF machine = "gb"
            THEN [rest(Part("save", <<>>, saved.sram)) EXCEPT !.found.clock = Or(saved.clock, @)]
            ELSE rest(Part("save", <<>>, v))
       [] item[1] = CHEATS ->
            IF v = <<"not UTF-8">> THEN carried
            ELSE IF parse_cheats(v) # <<>> THEN [read EXCEPT !.found.cheats = parse_cheats(v)] ELSE read
       [] item[1] = SCREENSHOT_DIMENSIONS -> read
       [] item[1] = META_TIME /\ Len(v) = 1 -> [read EXCEPT !.found.taken = v[1]]
       [] item[1] = META_CREATOR /\ creator_version(v) # None -> [read EXCEPT !.found.version = creator_version(v)]
       [] OTHER -> carried

read_mgba(file, options) ==
  LET got == unpack(file)
      dimensions == SelectSeq(got.items, LAMBDA item : item[1] = SCREENSHOT_DIMENSIONS)
      read == FoldLeft(LAMBDA r, item : ReadItem(dimensions, Machine(got.data), r, item),
                       [found |-> Found("mgba", "mgba", origin_and_slot(mgba_slot(file.name))),
                        picture |-> got.picture, rest |-> <<>>], got.items)
      shot == [i \in DOMAIN read.picture |-> Part("screenshot", <<>>, read.picture[i])]
  IN IF Machine(got.data) = None \/ Len(got.items) > MaxItems \/ ~\A i \in DOMAIN shot : IsPicture(shot[i].data)
     THEN Refused
     ELSE Bundled(read.found, options, <<Part("state", <<>>, got.data)>> \o shot \o read.rest)

(* A picture mGBA reads back: as it is when it is laid out so, else drawn again. *)
rgb_png(picture) ==
  CASE picture.layout = "rgb" -> <<picture>>
    [] picture.layout = "rgba" /\ picture.fits -> <<[picture EXCEPT !.layout = "rgb"]>>
    [] OTHER -> <<>>

File(opens, name, data, items, picture) ==
  [opens |-> opens, name |-> name, data |-> data, items |-> items, blocks |-> <<>>,
   picture |-> picture, beside |-> <<>>,
   folder |-> None, version |-> 0, title |-> None, serial |-> None, packed |-> None]

SortedByTag(items) ==
  LET tags == SetToSortSeq({items[i][1] : i \in DOMAIN items}, <)
  IN FlattenSeq([t \in DOMAIN tags |-> SelectSeq(items, LAMBDA item : item[1] = tags[t])])

ItemsOf(bundle) ==
  LET saves == Those(bundle, "save")
      auxes == SelectSeq(Those(bundle, "aux"), LAMBDA part : part.path[1] = "extdata")
      clock == IF Machine(TheState(bundle)) = "gb" /\ bundle.clock # None THEN <<bundle.clock>> ELSE <<>>
      When(there, item) == IF there THEN <<item>> ELSE <<>>
  IN SortedByTag(
       (IF saves = <<>> THEN <<>> ELSE <<<<SAVEDATA, saves[1].data \o clock>>>>)
       \o When(bundle.cheats # <<>>, <<CHEATS, cheats_text(bundle.cheats)>>)
       \o [i \in DOMAIN auxes |-> <<auxes[i].path[2], auxes[i].data>>]
       \o When(bundle.taken # None, <<META_TIME, <<bundle.taken>>>>)
       \o When(bundle.version # None, <<META_CREATOR, <<"mGBA", bundle.version>>>>))

write_mgba(bundle) ==
  LET shots == Those(bundle, "screenshot")
      png == IF shots = <<>> THEN <<>> ELSE rgb_png(shots[1].data)
      slot == SlotOf(bundle)
      firstSave == Min({i \in DOMAIN bundle.parts : bundle.parts[i].kind = "save"} \cup {Len(bundle.parts) + 1})
      Out(i) == \/ bundle.parts[i].kind = "save" /\ i # firstSave
                \/ bundle.parts[i].kind = "aux" /\ bundle.parts[i].path[1] # "extdata"
                \/ bundle.parts[i].kind = "screenshot" /\ png = <<>>
  IN IF ~require_core(bundle, "mgba") THEN Refused
     ELSE [is |-> "rebuilt", left_out |-> {i \in DOMAIN bundle.parts : Out(i)},
           file |-> File(IF png = <<>> THEN "data" ELSE "png",
                         <<"ss", IF slot = "auto" THEN "0" ELSE Or(slot, "1")>>,
                         TheState(bundle), ItemsOf(bundle), png)]

-----------------------------------------------------------------------------
(* RetroArch's blocks are <<tag, strings>>; the one of the core's data is where *)
(* the file's data goes, and what a tag no path spells is taken for is "0x".    *)
path_tag(path) == IF path[1] # "block" \/ path[2] = "0x12" THEN None ELSE path[2]

unwrap(file) == IF file.opens = "data" THEN <<>> ELSE file.blocks
read_retroarch(file, options) ==
  LET blocks == unwrap(file)
      parts == <<Part("state", <<>>, file.data)>>
                 \o [i \in DOMAIN file.beside |-> Part("screenshot", <<>>, file.beside[i])]
                 \o [i \in DOMAIN blocks |-> Part("aux", <<"block", blocks[i][1]>>, blocks[i][2])]
      found == Found("retroarch", None, origin_and_slot(retroarch_slot(file.name)))
  IN IF options.core = None \/ \E i \in DOMAIN file.beside : ~IsPicture(file.beside[i]) THEN Refused
     ELSE Bundled(found, options, parts)

IsPng(picture) == picture.layout \in {"rgb", "rgba"}
write_retroarch(bundle) ==
  LET auxes == Those(bundle, "aux")
      shots == SelectSeq(Those(bundle, "screenshot"), LAMBDA part : IsPng(part.data))
      blocks == [i \in DOMAIN auxes |-> <<path_tag(auxes[i].path), auxes[i].data>>]
      slot == SlotOf(bundle)
      Ordered == SelectSeq(blocks, LAMBDA b : b[1] = "RPLY") \o SelectSeq(blocks, LAMBDA b : b[1] # "RPLY")
  IN IF bundle.core = None \/ \E i \in DOMAIN blocks : blocks[i][1] = None THEN Refused
     ELSE [is |-> "rebuilt",
           left_out |-> {i \in DOMAIN bundle.parts :
                           \/ bundle.parts[i].kind = "save"
                           \/ bundle.parts[i].kind = "screenshot" /\ ~IsPng(bundle.parts[i].data)},
           file |-> [File("rzip", <<"state", IF slot \in {"0", None} THEN "" ELSE slot>>,
                          TheState(bundle), <<>>, <<>>)
                       EXCEPT !.blocks = Ordered, !.beside = [i \in DOMAIN shots |-> shots[i].data]]]

-----------------------------------------------------------------------------
(* DuckStation's header says what it took and at which version of itself; a     *)
(* field of it cuts off what it has no room for.                                *)
OLDEST == 42
FirstCompressed == 56
fixed(text) == IF text = "a long title" THEN "a long" ELSE text

read_duckstation(file, options) ==
  LET found == [Found("duckstation", "duckstation", slot_of_name(file.name)) EXCEPT
                  !.format = file.version, !.title = file.title, !.serial = file.serial]
      shot == [i \in DOMAIN file.picture |-> Part("screenshot", <<>>, file.picture[i])]
  IN IF file.version < OLDEST \/ file.packed = "xz" THEN Refused
     ELSE Bundled(found, options, <<Part("state", <<>>, file.data)>> \o shot)

write_duckstation(bundle) ==
  LET shots == SelectSeq(Those(bundle, "screenshot"), LAMBDA part : IsPng(part.data))
      slot == SlotOf(bundle)
      name == CASE slot = "auto" -> <<"resume.sav", None>>
                [] slot \notin {"auto", None} /\ bundle.origin = "undo" -> <<"bak", slot>>
                [] OTHER -> <<"sav", Or(slot, "1")>>
  IN IF ~require_core(bundle, "duckstation") \/ bundle.format = 0 THEN Refused
     ELSE [is |-> "rebuilt",
           left_out |-> {i \in DOMAIN bundle.parts :
                           \/ bundle.parts[i].kind \in {"save", "aux"}
                           \/ bundle.parts[i].kind = "screenshot" /\ ~IsPng(bundle.parts[i].data)},
           file |-> [File("ducc", name, TheState(bundle), <<>>, [i \in DOMAIN shots |-> shots[i].data])
                       EXCEPT !.version = bundle.format, !.title = fixed(bundle.title), !.serial = bundle.serial,
                              !.packed = IF bundle.format < FirstCompressed THEN "none" ELSE "zstd"]]

-----------------------------------------------------------------------------
ReadAs(emulator, file, options) ==
  CASE emulator = "retroarch" -> read_retroarch(file, options)
    [] emulator = "mgba" -> read_mgba(file, options)
    [] emulator = "duckstation" -> read_duckstation(file, options)
WrittenFor(emulator, bundle) ==
  CASE emulator = "retroarch" -> write_retroarch(bundle)
    [] emulator = "mgba" -> write_mgba(bundle)
    [] emulator = "duckstation" -> write_duckstation(bundle)

(* The state files emulators have left. *)
Core(core, machine) == [core |-> core, machine |-> machine, tail |-> <<>>]
Picture(layout, fits) == [pixels |-> "px", layout |-> layout, fits |-> fits]
Shots == {<<>>, <<Picture("rgb", TRUE)>>, <<Picture("rgba", TRUE)>>, <<Picture("rgb", FALSE)>>,
          <<Picture("rgba", FALSE)>>, <<Picture("jpeg", TRUE)>>, <<Picture("other", TRUE)>>}
Cheats == <<"code", "!disabled", "!raw", "# a", "code", "", "#", "# a", "!raw">>
ItemsKept ==
  {<<>>, <<<<SAVEDATA, <<"sram", "clock">>>>, <<SAVEDATA, <<"again">>>>>>,
   <<<<SAVEDATA, <<"sram">>>>, <<SAVEDATA, <<"b">>>>, <<SAVEDATA, <<"c">>>>>>,
   <<<<META_CREATOR, <<"mGBA", "0.10">>>>, <<META_TIME, <<"then">>>>, <<CHEATS, Cheats>>>>,
   <<<<META_CREATOR, <<"odd">>>>, <<META_TIME, <<"then", "some">>>>, <<CHEATS, <<"not UTF-8">>>>, <<6, <<"x">>>>>>,
   <<<<CHEATS, <<"!disabled">>>>, <<SCREENSHOT, <<"fb", "screen">>>>, <<SCREENSHOT, <<"fb2", "odd">>>>>>,
   <<<<SCREENSHOT_DIMENSIONS, <<"right">>>>, <<SCREENSHOT, <<"fb", "odd">>>>>>,
   <<<<END, <<"x">>>>, <<SAVEDATA, <<"sram">>>>>>,
   <<<<6, <<"a">>>>, <<7, <<"b">>>>, <<8, <<"c">>>>, <<9, <<"d">>>>>>}
Tailed(machine) == [Core("mgba", machine) EXCEPT !.tail = <<<<SAVEDATA, <<"sram">>>>>>]
MGba ==
  {File("data", <<"ss", n>>, Core("mgba", m), items, <<>>) : n \in {"0", "00", "1"}, m \in {"gba", "gb", "other"}, items \in ItemsKept}
   \cup {File("png", name, Core("mgba", "gb"), items, <<Picture("rgb", TRUE)>>) : name \in {<<"ss", "1">>, <<"png", None>>}, items \in ItemsKept}
Beside(file, blocks, shot, folder) == [file EXCEPT !.blocks = blocks, !.beside = shot, !.folder = folder]
Retro ==
  {Beside(File("rastate", <<"state", n>>, data, <<>>, <<>>), blocks, shot, folder) :
     n \in {"", "3", "auto"}, data \in {Core("mgba", "gba"), Tailed("gb"), Core("snes9x", "other")},
     blocks \in {<<>>, <<<<"ACHV", <<"a">>>>, <<"RPLY", <<"r">>>>>>, <<<<"odd", <<"a">>>>, <<"odd", <<"b">>>>>>, <<<<"0x12", <<"a">>>>>>},
     shot \in Shots, folder \in {None}}
   \cup {Beside(File("data", <<"state", "">>, Core("snes9x", "other"), <<>>, <<>>), <<>>, <<>>, "snes9x")}
Duck ==
  {[File("ducc", name, Core("duckstation", "other"), <<>>, shot) EXCEPT !.version = v, !.title = "a long title", !.serial = s, !.packed = p] :
     name \in {<<"resume.sav", None>>, <<"sav", "1">>, <<"bak", "1">>, <<"bak", None>>, <<"state", "">>},
     shot \in {<<>>, <<Picture("rgba", TRUE)>>}, v \in {41, 42, 60}, s \in {None, "SLUS"}, p \in {"none", "zstd", "xz"}}
FilesLeft == MGba \cup Retro \cup Duck

StateInit == disk \in FilesLeft /\ held = Unread /\ made = <<>>

(* `1saves convert`: the core is the caller's to name where the file's folder   *)
(* does not, and is the one that took it; the time is the file's own where the  *)
(* emulator kept none.                                                          *)
core_from_folder(file) == file.folder
ConvertState(core, title) ==
  /\ held = Unread /\ detect(disk) # None
  /\ detect(disk) = "retroarch" => core \in {None, disk.data.core}
  /\ held' = ReadAs(detect(disk), disk,
                    [core |-> IF detect(disk) = "retroarch" THEN Or(core, core_from_folder(disk)) ELSE core,
                     taken |-> "when the file was written", title |-> title])
  /\ UNCHANGED <<disk, made>>

(* `1saves extract`, for the emulator asked for, or the one it was taken in. *)
ExtractState(to) ==
  LET emulator == Or(to, emulator_of(held))
      rebuilt == WrittenFor(emulator, held)
  IN /\ held.is = "bundle" /\ emulator # None /\ rebuilt # Refused
     /\ disk' = rebuilt.file
     /\ made' = <<[of |-> held, emulator |-> emulator, left_out |-> rebuilt.left_out]>>
     /\ held' = Unread

StateNext ==
  \/ \E core \in CoreFlags, title \in {None, "a title"} : ConvertState(core, title)
  \/ \E to \in Emulators \cup {None} : ExtractState(to)

StateSpec == StateInit /\ [][StateNext]_stateVars

-----------------------------------------------------------------------------
StateTypeOK ==
  /\ held.is \in {"nothing", "refused", "bundle"}
  /\ held.is = "bundle" => held.app \in Emulators /\ held.origin \in {None, "auto", "undo"} /\ validate(held)
  /\ made # <<>> => made[1].left_out \subseteq DOMAIN made[1].of.parts

(* What a part says, whatever a picture's file is laid out as. *)
Says(part) ==
  IF part.kind = "screenshot" THEN <<part.kind, part.path, part.data.pixels>> ELSE <<part.kind, part.path, part.data>>
SaidBy(bundle, out) == {Says(bundle.parts[i]) : i \in DOMAIN bundle.parts \ out}
Fits(written, bundle) ==
  /\ Len(ItemsOf(bundle)) <= MaxItems
  /\ disk.opens = "data" => bundle.parts[1].data.tail = <<>> /\ \A i \in DOMAIN disk.items : disk.items[i][1] # END

SlotNamed(emulator, bundle) ==
  CASE SlotOf(bundle) = "auto" -> "auto"
    [] OTHER -> Or(bundle.slot, IF emulator = "retroarch" THEN "0" ELSE "1")

(* A file made from a bundle, read again, is the same bundle but for the parts  *)
(* the tool said it left out: the core's data, the in-game save and its clock,  *)
(* the picture, the cheats, what is the emulator's own, the slot it was in and  *)
(* who took it when, as far as that emulator's files say.  mGBA's are excepted  *)
(* where a bare one's list of items ends early, or is longer than is read, and  *)
(* where the slot is the one it has only for itself.                            *)
Reloads ==
  made # <<>> =>
    LET was == made[1].of
        emulator == made[1].emulator
        again == ReadAs(emulator, disk, [core |-> was.core, taken |-> was.taken, title |-> None])
        Same(f) == again[f] = was[f]
    IN (emulator = "mgba" => Fits(disk, was)) =>
         /\ detect(disk) = emulator /\ again.is = "bundle"
         /\ SaidBy(again, {}) = SaidBy(was, made[1].left_out) /\ TheState(again) = TheState(was)
         /\ ~(emulator = "mgba" /\ was.slot = "0") => SlotOf(again) = SlotNamed(emulator, was)
         /\ emulator = "mgba" => Same("version") /\ Same("taken") /\ Same("cheats") /\ Same("clock")
         /\ emulator = "duckstation" =>
              Same("format") /\ Same("serial") /\ Same("origin") /\ again.title = fixed(was.title)

(* However a state goes from one emulator's file to another's, its data is only *)
(* ever in the file of one that runs the core that took it, and the bundle in   *)
(* between names that core.                                                     *)
OnlyItsCore ==
  /\ held.is = "bundle" => Or(held.core, held.app) = TheState(held).core
  /\ detect(disk) \in {"mgba", "duckstation"} => detect(disk) = disk.data.core
=============================================================================
