---------------------------- MODULE CardSession ----------------------------
(***************************************************************************)
(* A sitting at crates/one-saves-tui: one or two cards open, a save        *)
(* selected on each, and a key at a time.  app.rs decides what a key does  *)
(* and model.rs does it to a card's parts; the card formats are taken at   *)
(* the level of directories, as card::read and card::write hand them over. *)
(*                                                                         *)
(* A card is a list of directories: saves, and folders of the console's    *)
(* own.  A file takes a block; what a block holds and what is drawn are    *)
(* left out.                                                               *)
(***************************************************************************)
EXTENDS Chains

CONSTANTS
    CardCount,    \* how many cards are open: one or two
    System,       \* System[c]: the console card c is for
    Blocks,       \* Blocks[c]: capacity / block_size, as Card::blocks reports it
    Room,         \* Room[c]: the blocks a writer of c's format can give to files
    Overhead,     \* blocks a directory takes beside its files
    Encoding,     \* blocks more a save takes encoded than on a card
    Disks,        \* the lists of directories a card may start with
    ReadOnlyCards,\* cards that came out of an archive
    Nowhere,      \* what is at the path of a card there is no file for yet
    MaxParts      \* bound: parts of a card that is still copied onto

ASSUME CardsAssumption == CardCount \in {1, 2}
ASSUME SizesAssumption ==
    /\ Overhead \in Nat /\ Encoding \in Nat /\ MaxParts \in Nat
    /\ \A c \in 1 .. CardCount : Blocks[c] \in Nat /\ Room[c] \in Nat

Cards == 1 .. CardCount

Directories == [name : STRING, files : Seq(STRING), system : BOOLEAN]
ASSUME DisksAssumption == Disks \subseteq Seq(Directories) /\ Nowhere \notin Seq(Directories)

VARIABLES
    disk,      \* disk[c]: the directories in card c's file, or Nowhere
    parts,     \* parts[c]: the bundle's parts
    dirty,     \* dirty[c]
    new,       \* new[c]
    focus,     \* the card the keys act on
    selection, \* selection[c]: a place in c's list, from 1, or 0 for none
    asking,    \* what is being asked: a Pending, or "nothing"
    yes,       \* whether the cursor is on Yes
    about,     \* the save the question names
    said,      \* the status line
    done

cardVars == <<disk, parts, dirty, new>>
placeVars == <<focus, selection>>
modeVars == <<asking, yes, about>>
vars == <<cardVars, placeVars, modeVars, said, done>>

\* Parts: a save's nested bundle; a console folder or a file of one; or the
\* card's own image.
Part(kind, name, files) == [kind |-> kind, name |-> name, files |-> files, image |-> <<>>]
Bundles(ps) == Those(ps, {"bundle"})
SystemParts(ps) == Those(ps, {"system"})

\* What a list of directories or parts holds, in blocks.
Files(s) == Total([i \in DOMAIN s |-> Len(s[i].files)])

-----------------------------------------------------------------------------
(* card::read and card::write.                                             *)

\* A console folder is a part and each file in it another; a save with no
\* files is left out; a card that is left with no parts carries its image.
DirectoryParts(d) ==
    IF d.system
    THEN <<Part("system", d.name, <<>>)>>
         \o [i \in DOMAIN d.files |-> Part("system", d.name, <<d.files[i]>>)]
    ELSE IF d.files = <<>> THEN <<>> ELSE <<Part("bundle", d.name, d.files)>>

Read(dirs) ==
    LET ps == Joined([i \in DOMAIN dirs |-> DirectoryParts(dirs[i])])
    IN IF ps = <<>> THEN <<[Part("card-image", "none", <<>>) EXCEPT !.image = dirs]>> ELSE ps

\* Directories in part order.  A file of a console folder goes in the last
\* folder of that name before it, and there has to be one.
AddPart(laid, p) ==
    LET folders == {i \in DOMAIN laid.dirs : laid.dirs[i].system /\ laid.dirs[i].name = p.name}
        last == CHOOSE i \in folders : \A j \in folders : j <= i
    IN CASE p.kind = "bundle" \/ (p.kind = "system" /\ p.files = <<>>) ->
              [laid EXCEPT !.dirs = Append(@, [name |-> p.name, files |-> p.files,
                                               system |-> p.kind = "system"])]
         [] p.kind = "system" /\ p.files # <<>> /\ folders # {} ->
              [laid EXCEPT !.dirs[last].files = @ \o p.files]
         [] p.kind = "system" /\ p.files # <<>> /\ folders = {} -> [laid EXCEPT !.orphan = TRUE]
         [] OTHER -> laid
Laid(ps) ==
    LET laid[n \in 0 .. Len(ps)] ==
          IF n = 0 THEN [dirs |-> <<>>, orphan |-> FALSE] ELSE AddPart(laid[n - 1], ps[n])
    IN laid[Len(ps)]

ImageOnly(ps) == Bundles(ps) = <<>> /\ \E i \in DOMAIN ps : ps[i].kind = "card-image"
Image(ps) == ps[CHOOSE i \in DOMAIN ps : ps[i].kind = "card-image"].image

Taken(dirs) == Files(dirs) + Len(dirs) * Overhead

\* What card::write comes to: "orphan" and "full" are its errors.
Outcome(c) ==
    CASE ImageOnly(parts[c]) -> "written"
      [] ~ImageOnly(parts[c]) /\ Laid(parts[c]).orphan -> "orphan"
      [] ~ImageOnly(parts[c]) /\ ~Laid(parts[c]).orphan ->
           IF Taken(Laid(parts[c]).dirs) > Room[c] THEN "full" ELSE "written"
Rebuilt(c) == IF ImageOnly(parts[c]) THEN Image(parts[c]) ELSE Laid(parts[c]).dirs

-----------------------------------------------------------------------------
(* model.rs: Card.                                                         *)

Entries(c) == Bundles(parts[c])

\* Mutant: every save counted as one block.
UsedBySaves(c) == Len(Entries(c)) + Len(SystemParts(parts[c]))

UsedBlocks(c) == Files(Entries(c)) + Files(SystemParts(parts[c]))
FreeBlocks(c) == IF UsedBlocks(c) > Blocks[c] THEN 0 ELSE Blocks[c] - UsedBlocks(c)
PayloadBlocks(p) == Len(p.files) + IF p.kind = "bundle" THEN Encoding ELSE 0

\* Mutants: the card is left clean; the card the keys act on is the one edited.
EditedClean(c, ps) ==
    /\ parts' = [parts EXCEPT ![c] = Those(ps, {"bundle", "system"})]
    /\ UNCHANGED <<disk, dirty, new>>
\* Card::edited: any image goes, and the card is dirty.
Edited(c, ps) ==
    /\ parts' = [parts EXCEPT ![c] = Those(ps, {"bundle", "system"})]
    /\ dirty' = [dirty EXCEPT ![c] = TRUE]
    /\ UNCHANGED <<disk, new>>

Init ==
    /\ disk \in [Cards -> Disks \cup {Nowhere}]
    /\ \A c \in ReadOnlyCards : disk[c] # Nowhere
    /\ parts = [c \in Cards |-> Read(IF disk[c] = Nowhere THEN <<>> ELSE disk[c])]
    /\ dirty = [c \in Cards |-> disk[c] = Nowhere]
    /\ new = [c \in Cards |-> disk[c] = Nowhere]
    /\ focus = 1
    /\ selection = [c \in Cards |-> IF Entries(c) = <<>> THEN 0 ELSE 1]
    /\ asking = "nothing" /\ yes = TRUE /\ about = "nothing"
    /\ said = "nothing" /\ done = FALSE

-----------------------------------------------------------------------------
(* app.rs: browsing.                                                       *)

Other == (focus % CardCount) + 1
Selected == selection[focus]
Showing == Selected \in DOMAIN Entries(focus)

\* A key while browsing takes the last report off the status line.
Browsing == asking = "nothing" /\ ~done

Ask(pending, leading, name) == asking' = pending /\ yes' = leading /\ about' = name

\* Mutant: no upper end.
ClampedBelow(at, delta, count) ==
    LET from == IF at = 0 THEN 1 ELSE at
    IN IF count = 0 THEN 0 ELSE IF from + delta < 1 THEN 1 ELSE from + delta

\* App::step's clamp, over a list of `count` saves.
Clamped(at, delta, count) ==
    LET from == IF at = 0 THEN 1 ELSE at
        to == IF from + delta < 1 THEN 1 ELSE from + delta
    IN IF count = 0 THEN 0 ELSE IF to > count THEN count ELSE to

Step(delta) ==
    /\ Browsing
    /\ selection' = [selection EXCEPT ![focus] = Clamped(@, delta, Len(Entries(focus)))]
    /\ said' = "nothing"
    /\ UNCHANGED <<cardVars, focus, modeVars, done>>

Switch ==
    /\ Browsing
    /\ focus' = IF CardCount > 1 THEN Other ELSE focus
    /\ said' = "nothing"
    /\ UNCHANGED <<cardVars, selection, modeVars, done>>

AskDelete ==
    /\ Browsing
    /\ IF Showing THEN Ask("delete", TRUE, Entries(focus)[Selected].name) ELSE UNCHANGED modeVars
    /\ said' = "nothing"
    /\ UNCHANGED <<cardVars, placeVars, done>>

AskFormat ==
    /\ Browsing
    /\ Ask("format", TRUE, "the card")
    /\ said' = "nothing"
    /\ UNCHANGED <<cardVars, placeVars, done>>

AskWrite ==
    /\ Browsing
    /\ IF dirty[focus]
       THEN Ask("write", TRUE, "the card") /\ said' = "nothing"
       ELSE said' = "nothing to write" /\ UNCHANGED modeVars
    /\ UNCHANGED <<cardVars, placeVars, done>>

AskQuit ==
    /\ Browsing
    /\ IF \E c \in Cards : dirty[c]
       THEN Ask("quit", FALSE, "the cards") /\ done' = done
       ELSE done' = TRUE /\ UNCHANGED modeVars
    /\ said' = "nothing"
    /\ UNCHANGED <<cardVars, placeVars>>

\* App::do_copy and Card::copy_from: the part at the list's index goes to the
\* other card, and the focus with it.
DoCopy ==
    LET part == parts[focus][Selected]
    IN IF Selected = 0
       THEN UNCHANGED <<cardVars, placeVars, said>>
       ELSE IF System[focus] # System[Other] \/ PayloadBlocks(part) > FreeBlocks(Other)
       THEN said' = "refused" /\ UNCHANGED <<cardVars, placeVars>>
       ELSE /\ Edited(Other, Append(parts[Other], part))
            /\ focus' = Other
            /\ selection' = [selection EXCEPT ![Other] = Clamped(@, 0, Len(Bundles(parts'[Other])))]
            /\ said' = "copied"

Copy ==
    /\ Browsing
    /\ IF CardCount < 2
       THEN said' = "open a second card" /\ UNCHANGED <<cardVars, placeVars, modeVars>>
       ELSE IF ~Showing
       THEN said' = "nothing" /\ UNCHANGED <<cardVars, placeVars, modeVars>>
       ELSE IF \E i \in DOMAIN Entries(Other) : Entries(Other)[i].name = Entries(focus)[Selected].name
       THEN /\ Ask("copy over", TRUE, Entries(focus)[Selected].name)
            /\ said' = "nothing"
            /\ UNCHANGED <<cardVars, placeVars>>
       ELSE Len(parts[Other]) < MaxParts /\ DoCopy /\ UNCHANGED modeVars
    /\ UNCHANGED done

-----------------------------------------------------------------------------
(* app.rs: a question being answered.                                      *)

PointAt(button) ==
    /\ asking # "nothing"
    /\ yes' = button
    /\ UNCHANGED <<cardVars, placeVars, asking, about, said, done>>

Put == asking' = "nothing" /\ yes' = TRUE /\ about' = "nothing"

\* Escape, or Enter on No.
Dismiss ==
    /\ asking # "nothing"
    /\ Put
    /\ said' = "nothing"
    /\ UNCHANGED <<cardVars, placeVars, done>>

Confirmed(pending) == asking = pending /\ yes /\ Put

\* Mutant: an index counted from one given to a list counted from none.
ConfirmDeleteNext ==
    /\ Confirmed("delete")
    /\ IF Selected = 0
       THEN UNCHANGED <<cardVars, placeVars, said>>
       ELSE /\ Edited(focus, RemoveAt(parts[focus], Selected + 1))
            /\ selection' = [selection EXCEPT ![focus] = Clamped(@, 0, Len(Bundles(parts'[focus])))]
            /\ focus' = focus
            /\ said' = "deleted"
    /\ UNCHANGED done

\* Card::remove, with the list's index.
ConfirmDelete ==
    /\ Confirmed("delete")
    /\ IF Selected = 0
       THEN UNCHANGED <<cardVars, placeVars, said>>
       ELSE /\ Edited(focus, RemoveAt(parts[focus], Selected))
            /\ selection' = [selection EXCEPT ![focus] = Clamped(@, 0, Len(Bundles(parts'[focus])))]
            /\ focus' = focus
            /\ said' = "deleted"
    /\ UNCHANGED done

ConfirmCopyOver ==
    /\ Confirmed("copy over")
    /\ Len(parts[Other]) < MaxParts
    /\ DoCopy
    /\ UNCHANGED done

\* Card::format: a blank card of the same kind and size, read.
ConfirmFormat ==
    /\ Confirmed("format")
    /\ parts' = [parts EXCEPT ![focus] = Read(<<>>)]
    /\ dirty' = [dirty EXCEPT ![focus] = TRUE]
    /\ selection' = [selection EXCEPT ![focus] = 0]
    /\ said' = "formatted"
    /\ UNCHANGED <<disk, new, focus, done>>

\* Card::save.  The rebuilt card has to read back with as many saves.
ReadsBack(c) == Len(Bundles(Read(Rebuilt(c)))) = Len(Entries(c))

ConfirmWrite ==
    /\ Confirmed("write")
    /\ IF focus \in ReadOnlyCards
       THEN said' = "read only" /\ UNCHANGED cardVars
       ELSE IF Outcome(focus) # "written"
       THEN said' = Outcome(focus) /\ UNCHANGED cardVars
       ELSE IF ~ReadsBack(focus)
       THEN said' = "lost a save" /\ UNCHANGED cardVars
       ELSE \/ /\ disk' = [disk EXCEPT ![focus] = Rebuilt(focus)]
               /\ dirty' = [dirty EXCEPT ![focus] = FALSE]
               /\ new' = [new EXCEPT ![focus] = FALSE]
               /\ said' = "written"
               /\ UNCHANGED parts
            \/ said' = "io error" /\ UNCHANGED cardVars
    /\ UNCHANGED <<placeVars, done>>

ConfirmQuit ==
    /\ Confirmed("quit")
    /\ done' = TRUE
    /\ UNCHANGED <<cardVars, placeVars, said>>

Browse == Step(-1) \/ Step(1) \/ Switch \/ Copy \/ AskDelete \/ AskFormat \/ AskWrite \/ AskQuit
Answer == \/ PointAt(TRUE) \/ PointAt(FALSE) \/ Dismiss
          \/ ConfirmDelete \/ ConfirmCopyOver \/ ConfirmFormat \/ ConfirmWrite \/ ConfirmQuit
Next == Browse \/ Answer
Spec == Init /\ [][Next]_vars
-----------------------------------------------------------------------------

TypeOK ==
    /\ \A c \in Cards : disk[c] = Nowhere \/ \A i \in DOMAIN disk[c] : disk[c][i] \in Directories
    /\ \A c \in Cards : \A i \in DOMAIN parts[c] :
         parts[c][i].kind \in {"bundle", "system", "card-image"}
    /\ dirty \in [Cards -> BOOLEAN] /\ new \in [Cards -> BOOLEAN]
    /\ focus \in Cards /\ selection \in [Cards -> Nat]
    /\ asking \in {"nothing", "delete", "write", "copy over", "format", "quit"}
    /\ yes \in BOOLEAN /\ done \in BOOLEAN

\* However saves are copied, deleted and formatted away, each list's cursor
\* is on a save of it, and is nowhere exactly when the list is empty.
SelectionIsListed ==
    \A c \in Cards : IF Entries(c) = <<>> THEN selection[c] = 0
                     ELSE selection[c] \in DOMAIN Entries(c)

\* The console's folders called `name`, and the files in each, in order.
Folder(ps, name) ==
    Joined([i \in DOMAIN ps |-> IF ps[i].kind = "system" /\ ps[i].name = name THEN <<ps[i]>> ELSE <<>>])

\* A card with nothing to write is the card in its file: the same saves in
\* the same order, and in each of the console's folders the same files.
CleanIsOnDisk ==
    \A c \in Cards : ~dirty[c] =>
        /\ disk[c] # Nowhere
        /\ Bundles(Read(disk[c])) = Entries(c)
        /\ \A p \in Range(Read(disk[c])) \cup Range(parts[c]) :
             Folder(Read(disk[c]), p.name) = Folder(parts[c], p.name)

\* A change to card c is to the save selected: deleting takes it, the one the
\* question named, off the card, and copying puts it on the other.
Acted(c) ==
    /\ asking = "delete" =>
         /\ c = focus
         /\ Entries(c)[Selected].name = about
         /\ Entries(c)' = RemoveAt(Entries(c), Selected)
         /\ SystemParts(parts'[c]) = SystemParts(parts[c])
    /\ said' = "copied" =>
         /\ c = Other
         /\ Entries(c)' = Append(Entries(c), Entries(focus)[Selected])
         /\ SystemParts(parts'[c]) = SystemParts(parts[c])

\* model.rs says of Entry::index that every operation names a save by it:
\* what is deleted or copied is the save selected, whatever is on the card.
ActsOnTheSelected == [][\A c \in Cards : parts'[c] # parts[c] => Acted(c)]_vars

\* ... which holds of a card with nothing of its console's own on it.
ActsOnTheListed ==
    [][\A c \in Cards : parts'[c] # parts[c] /\ SystemParts(parts[focus]) = <<>> => Acted(c)]_vars

\* A file changes only as the answer to a question about writing it, and a
\* card out of an archive never has its file changed.
WritesOnlyWhenAsked ==
    [][\A c \in Cards : disk'[c] # disk[c] =>
          c = focus /\ asking = "write" /\ yes /\ dirty[c] /\ c \notin ReadOnlyCards]_vars

\* Whatever card a key changed is the card the next key acts on, so that
\* writing it does not find the other one unchanged.
FocusFollowsTheEdit == [][\A c \in Cards : parts'[c] # parts[c] => focus' = c]_vars

\* Work on either card is left behind only on a Yes to the question about it.
QuitsOnlyWhenTold ==
    [][done' /\ ~done /\ (\E c \in Cards : dirty[c]) => asking = "quit" /\ yes]_vars

\* A key does what it says: it acts on the save under the cursor, leaves the
\* cursor on the card it changed, writes a file when told to write that file,
\* and leaves work behind when told to.
KeysDoWhatTheySay == ActsOnTheListed /\ FocusFollowsTheEdit /\ WritesOnlyWhenAsked /\ QuitsOnlyWhenTold

\* However saves are copied, deleted and formatted away, and whichever part a
\* copy takes, a card never holds more than the capacity it reports: the
\* payload that is weighed is never less than what it adds to the count.
WithinCapacity ==
    \A c \in Cards : Files(Entries(c)) + Files(SystemParts(parts[c])) <= Blocks[c]

\* Cards as they come hold no more than that.
StartWithinCapacity ==
    \A d \in Disks : \A c \in Cards :
       Files(Bundles(Read(d))) + Files(SystemParts(Read(d))) <= Blocks[c]

\* Card::copy_from: "Refused where it would not fit".  A card of saves that
\* took every copy it was asked to can be written.
NeverFull == said = "full" => SystemParts(parts[focus]) # <<>>
=============================================================================
