-------------------------------- MODULE Blanks --------------------------------
(***************************************************************************)
(* Cards made from nothing (one-saves-convert/src/card/blank.rs): by the   *)
(* command `new` (new_card of one-saves-cli/src/main.rs), by the editor    *)
(* opened on a name nothing is at, and by formatting a card there (create  *)
(* and format of one-saves-tui/src/model.rs).  A file is what the formats' *)
(* tests look at (Formats) and the three things that say how large a card  *)
(* it is: its length, whether it is stretched, and what it states itself.  *)
(***************************************************************************)
EXTENDS Formats

CONSTANTS
    Kinds, SizeNames, LayoutNames,    \* what may be typed for each, or ""
    Called,                           \* the extensions a file may go by
    Others                            \* the files other cards are kept in

VARIABLES
    file,      \* the file that was made, or that another card is in
    card,      \* the card open in the editor, as its bundle says it is
    dirty,     \* whether it has something to write
    beside,    \* and the one beside it
    asked      \* what was asked for: a format, a capacity, a character set

blankVars == <<file, card, dirty, beside, asked>>

-----------------------------------------------------------------------------
(* The sizes each kind of card comes in: a name and what a card map records. *)
PS2_STANDARD == 8388608
GC_BLOCKS == <<59, 123, 251, 507, 1019, 2043>>
GC_NAMES == <<"59", "123", "251", "507", "1019", "2043">>
NEOGEO_NAMES == <<"2k", "4k", "6k", "8k", "10k", "12k", "14k", "16k">>
sizes ==
    [ps1 |-> <<<<"128k", CAPACITY>>>>, n64 |-> <<<<"32k", PAK_LENGTH>>>>, vmu |-> <<<<"128k", 102400>>>>,
     ps2 |-> <<<<"8m", PS2_STANDARD>>, <<"16m", 2 * PS2_STANDARD>>, <<"32m", 4 * PS2_STANDARD>>, <<"64m", 8 * PS2_STANDARD>>>>,
     gc |-> [n \in 1 .. 6 |-> <<GC_NAMES[n], GC_BLOCKS[n] * GC_BLOCK>>],
     saturn |-> <<<<"32k", 32640>>, <<"512k", 523264>>, <<"1m", 1047552>>, <<"2m", 2096128>>, <<"4m", 4192256>>>>,
     neogeo |-> [n \in 1 .. 8 |-> <<NEOGEO_NAMES[n], 2048 * n>>]]
standard(format) == IF format = "gc" THEN sizes[format][3][2] ELSE sizes[format][1][2]
size(format, name) == {row[2] : row \in {row \in ToSet(sizes[format]) : row[1] = Lowered(name)}}

from_layout(name) == {Lowered(name)} \cap {"bare", "wide", "mister"}
LayoutFormat == [bare |-> CardFormats, wide |-> {"saturn"}, mister |-> {"neogeo"}]

-----------------------------------------------------------------------------
(* The file a card of some size is built in. *)
RESERVED_BLOCKS == 5
CLUSTER == 1024
PAGE == 512
SPARE == 16
GEOMETRIES == {<<32768, 64>>, <<524288, 512>>, <<1048576, 512>>, <<2097152, 512>>, <<4194304, 1024>>}
FIRST_DATA_BLOCK == 2
data_capacity(length, block) == (length \div block - FIRST_DATA_BLOCK) * block
MISTER_CARD_REGION == 8192

File(length, marks, stated, shift_jis) ==
    [length |-> length, marks |-> marks, stated |-> stated, shift_jis |-> shift_jis, extension |-> ""]
NoFile == File(0, {}, 0, FALSE)
Volume(capacity) == CHOOSE geometry \in GEOMETRIES : data_capacity(geometry[1], geometry[2]) = capacity
build(format, capacity, shift_jis, layout) ==
    CASE format = "ps1" -> {File(CAPACITY, {"mc", "bare"}, 0, FALSE)}
      [] format = "n64" -> {File(PAK_LENGTH, {"index"}, 0, FALSE)}
      [] format = "vmu" -> {File(CAPACITY, {"root55"}, 0, FALSE)}
      [] format = "ps2" -> {File((capacity \div PAGE) * (PAGE + SPARE), {"ps2"}, capacity \div CLUSTER, FALSE)}
      [] format = "gc" -> {File(capacity + RESERVED_BLOCKS * GC_BLOCK, {"directory"}, 0, shift_jis)}
      [] format = "saturn" /\ layout = "wide" -> {File(2 * Volume(capacity)[1], {"saturn", "wide"}, Volume(capacity)[2], FALSE)}
      [] format = "saturn" /\ layout # "wide" -> {File(Volume(capacity)[1], {"saturn"}, Volume(capacity)[2], FALSE)}
      [] format = "neogeo" /\ layout # "mister" -> {File(capacity, {"neogeo"}, capacity, FALSE)}
      [] format = "neogeo" /\ layout = "mister" ->
            {made \in {File(MISTER_SAVE, {"neogeo"}, capacity, FALSE)} : capacity <= MISTER_CARD_REGION}

(* blank: the file, or none when there is no such card. *)
blank(format, capacity, shift_jis, layout) ==
    IF /\ capacity \in {row[2] : row \in ToSet(sizes[format])}
       /\ shift_jis => format = "gc"
       /\ format \in LayoutFormat[layout]
    THEN build(format, capacity, shift_jis, layout) ELSE {}

-----------------------------------------------------------------------------
(* card::read: what a card is when it is read, and the image an empty one is kept as. *)
MISTER_CART_CARD == 2048
CD_CARD == 8192
capacity_of(format, of) ==
    CASE format = "ps1" -> CAPACITY
      [] format = "n64" -> PAK_LENGTH
      [] format = "vmu" -> 102400
      [] format = "ps2" -> of.stated * CLUSTER
      [] format = "gc" -> (of.length \div GC_BLOCK - RESERVED_BLOCKS) * GC_BLOCK
      [] format = "saturn" -> data_capacity(IF "wide" \in of.marks THEN of.length \div 2 ELSE of.length, of.stated)
      [] format = "neogeo" /\ of.length # MISTER_SAVE -> of.stated
      [] format = "neogeo" /\ of.length = MISTER_SAVE -> IF of.stated = CD_CARD THEN CD_CARD ELSE MISTER_CART_CARD
Card(format, capacity, shift_jis, image) ==
    [format |-> card_format[format], capacity |-> capacity, shift_jis |-> shift_jis, image |-> image]
NoCard == [format |-> "none", capacity |-> 0, shift_jis |-> FALSE, image |-> NoFile]
Image(format, of) ==
    IF format = "neogeo" /\ of.length = MISTER_SAVE THEN [of EXCEPT !.length = capacity_of(format, of)] ELSE of
read(format, of) == Card(format, capacity_of(format, of), format = "gc" /\ of.shift_jis, Image(format, of))

(* An empty card like this one: what formatting it leaves. *)
blank_like(like) ==
    UNION {blank(format, like.capacity, like.shift_jis, "bare") : format \in from_card_format(like.format)}

-----------------------------------------------------------------------------
Opened(of) == read(detect(of), of)
Asked(format, capacity, shift_jis) == Card(format, capacity, shift_jis, NoFile)
Named(of, called) == [of EXCEPT !.extension = called]
BlanksInit ==
    /\ file = NoFile
    /\ card = NoCard
    /\ dirty = FALSE
    /\ asked = NoCard
    /\ beside \in {NoCard} \cup {Opened(of) : of \in Others}

(* new_card: refused, or a file, which for a bundle is the card and no file of an emulator's. *)
AsBundle(called) == Named(File(1, {"1saves"}, 0, FALSE), called)
NewCard ==
    /\ file = NoFile
    /\ card = NoCard
    /\ \E kind \in Kinds, name \in SizeNames, layoutName \in LayoutNames, shift_jis \in BOOLEAN, called \in Called :
          \E format \in from_name(kind) \cap CardFormats,
             layout \in IF layoutName = "" THEN {"bare"} ELSE from_layout(layoutName) :
             \E capacity \in IF name = "" THEN {standard(format)} ELSE size(format, name) :
                \E made \in blank(format, capacity, shift_jis, layout) :
                   /\ called = "1saves" => layout = "bare"
                   /\ file' = IF called = "1saves" THEN AsBundle(called) ELSE Named(made, called)
                   /\ asked' = Asked(format, IF layout = "mister" /\ capacity < CD_CARD THEN MISTER_CART_CARD ELSE capacity, shift_jis)
    /\ UNCHANGED <<card, dirty, beside>>

(* Card::create: the kind the name says, or of the card beside; like that one when of its kind. *)
Create ==
    /\ file = NoFile
    /\ card = NoCard
    /\ \E called \in Called :
          LET named == {detect(Named(NoFile, called))} \cap CardFormats
          IN \E format \in IF named # {} THEN named ELSE from_card_format(beside.format) :
                \E made \in IF beside.format = card_format[format] THEN blank_like(beside)
                            ELSE blank(format, standard(format), FALSE, "bare") :
                   /\ card' = read(format, made)
                   /\ file' = Named(made, called)
                   /\ asked' = IF beside.format = card_format[format] THEN Asked(format, beside.capacity, beside.shift_jis)
                               ELSE Asked(format, standard(format), FALSE)
    /\ dirty' = TRUE
    /\ UNCHANGED beside

(* A file is called something else; and one that another program made is there instead. *)
IsFile == file # NoFile
Rename ==
    /\ IsFile
    /\ \E called \in Called : file' = Named(file, called)
    /\ UNCHANGED <<card, dirty, beside, asked>>
Found ==
    /\ ~IsFile
    /\ card = NoCard
    /\ \E other \in Others : file' = other /\ asked' = [Opened(other) EXCEPT !.image = NoFile]
    /\ UNCHANGED <<card, dirty, beside>>
Open ==
    /\ IsFile
    /\ detect(file) \in CardFormats
    /\ card' = Opened(file)
    /\ dirty' = FALSE
    /\ UNCHANGED <<file, beside, asked>>

(* Card::format, and a card with nothing on it written as the image it is kept as. *)
Format ==
    /\ card # NoCard
    /\ \E format \in from_card_format(card.format), made \in blank_like(card) : card' = read(format, made)
    /\ dirty' = TRUE
    /\ UNCHANGED <<file, beside, asked>>
Save ==
    /\ dirty
    /\ file' = Named(card.image, file.extension)
    /\ dirty' = FALSE
    /\ UNCHANGED <<card, beside, asked>>
BlanksNext == NewCard \/ Create \/ Rename \/ Found \/ Open \/ Format \/ Save
BlanksSpec == BlanksInit /\ [][BlanksNext]_blankVars

-----------------------------------------------------------------------------
BlanksTypeOK ==
    /\ from_card_format(card.format) # {} \/ card = NoCard
    /\ card # NoCard => card.capacity > 0 /\ IsFile
    /\ dirty \in BOOLEAN /\ (dirty => card # NoCard)
    /\ IsFile => from_card_format(asked.format) # {}

(***************************************************************************)
(* A card is the kind, the size and for the console that was asked for,    *)
(* whoever made it and whatever its file is called: its own bytes say all  *)
(* three.  Formatting changes none of them, nor does writing it and        *)
(* opening it again; and what is made beside a card of its kind is like    *)
(* that one.                                                               *)
(***************************************************************************)
IsAsAsked(of) == of.format = asked.format /\ of.capacity = asked.capacity /\ of.shift_jis = asked.shift_jis
BlankIsAsAsked ==
    /\ card # NoCard => IsAsAsked(card)
    /\ IsFile /\ "1saves" \notin file.marks => from_card_format(asked.format) = {detect(file)} /\ IsAsAsked(Opened(file))
=============================================================================
