-------------------------------- MODULE Intake --------------------------------
(***************************************************************************)
(* A file opened for its card, which may be in an archive (Card::open of   *)
(* one-saves-tui/src/model.rs and one-saves-convert/src/archive.rs; the    *)
(* command line unwraps an archive the same way).  A file bears the marks  *)
(* its maker gave it and those another format's test would find by         *)
(* accident.  An archive is looked at a member at a time, as far as its    *)
(* limits.  What a card reads as is left to each format's own module.      *)
(***************************************************************************)
EXTENDS Formats

CONSTANTS
    MAX_MEMBERS, MAX_MEMBER, MAX_TOTAL,  \* how much of an archive is looked at
    Extensions,    \* what a file on its own may be called
    Archived       \* the members an archive may have

VARIABLES
    given,         \* the file, or the members of the archive
    looked,        \* the members looked at so far, each as much as was read
    index,         \* the members gone past
    outcome        \* what came of it, and of what file

intakeVars == <<given, looked, index, outcome>>

-----------------------------------------------------------------------------
(* A file as its maker wrote it: who that was, its length and its marks. *)
BRAM_LENGTHS == {8192, 524288}
SATURN_LENGTHS == {32768, 65536, 524288, 1048576}
PS2_LENGTHS == {8388608, 8650752, 16777216, 17301504}    \* of data pages alone, and with their spare areas
Made(format, length, marks) == [made |-> format, length |-> length, marks |-> marks]
Written ==
    {Made("bundle", 900, {"1saves"}), Made("vmu", CAPACITY, {"root55"}), Made("n64", PAK_LENGTH, {"index"}),
     Made("neogeo", 2048, {"neogeo"}), Made("neogeo", MISTER_SAVE, {"neogeo"}), Made("neogeo", MISTER_SAVE, {"cabinet"})}
    \cup {Made("ps2", length, {"ps2"}) : length \in PS2_LENGTHS}
    \cup {Made("ps1", container[2], {"mc", container[1]}) : container \in PS1_LENGTHS}
    \cup {Made("gc", GC_BLOCK * blocks, {"directory"}) : blocks \in KNOWN_SIZES}
    \cup {Made("raw", length, {"bram"}) : length \in BRAM_LENGTHS}
    \cup {Made("saturn", length, {"saturn"}) : length \in SATURN_LENGTHS}
Accidents == {"index", "directory", "mc"}
Alone == {[made |-> file.made, length |-> file.length, marks |-> file.marks \cup by, extension |-> called] :
              file \in Written, by \in SUBSET Accidents, called \in Extensions}

-----------------------------------------------------------------------------
(* A member is passed over when it is a directory, climbs out of the archive *)
(* or is what an archiver leaves behind; one that is broken fails the whole. *)
IsLookedAt(member) == member.kind = "file"
IsBroken(member) == member.kind = "broken"
Total(members) == FoldLeft(LAMBDA sum, member : sum + member.size, 0, members)
Least(a, b) == IF a < b THEN a ELSE b

(* What is read of it, which when cut short has another length and no end. *)
CutTo(member, size) ==
    IF size = member.size THEN member
    ELSE [member EXCEPT !.size = size, !.length = 0, !.save = 0, !.marks = @ \ {"bram", "directory", "saturn"}]
Taken(member, room) == CutTo(member, Least(member.size, Least(MAX_MEMBER, room)))

(* The loose saves filed onto a card made for them, which holds fifteen blocks. *)
Outcome(said, file, saves) == [said |-> said, file |-> file, saves |-> saves]
Nothing == [length |-> 0, marks |-> {}, extension |-> "", made |-> "nothing"]
Refused(why) == Outcome(why, Nothing, << >>)
BLOCKS == 15
read_single(member) == member.save # 0
assemble(members) ==
    LET saves == SelectSeq(members, read_single)
        blocks == FoldLeft(LAMBDA sum, member : sum + member.save, 0, saves)
    IN IF saves = << >> THEN Refused("no card and no save")
       ELSE IF blocks > BLOCKS THEN Refused("do not fit")
       ELSE Outcome("taken", [length |-> CAPACITY, marks |-> {"mc", "bare"}, extension |-> extension["ps1"], made |-> "ps1"],
                    [n \in DOMAIN saves |-> saves[n].name])

(* The members that detection says are cards: one, none, or too many. *)
Cards(members) == SelectSeq(members, LAMBDA member : detect(member) \in CardFormats)
TakesTheFirst(members) ==
    IF members = << >> THEN Refused("holds nothing")
    ELSE IF Cards(members) # << >> THEN Outcome("taken", Cards(members)[1], << >>)
    ELSE assemble(members)
unpack(members) ==
    IF members = << >> THEN Refused("holds nothing")
    ELSE IF Len(Cards(members)) > 1 THEN Refused("holds several cards")
    ELSE IF Cards(members) # << >> THEN Outcome("taken", Cards(members)[1], << >>)
    ELSE assemble(members)

-----------------------------------------------------------------------------
Undecided == Refused("nothing yet")
IntakeInit ==
    /\ \/ \E file \in Alone : given = [kind |-> "file", files |-> <<file>>]
       \/ \E n \in 0 .. MAX_MEMBERS + 1 : \E files \in [1 .. n -> Archived] : given = [kind |-> "archive", files |-> files]
       \/ given = [kind |-> "broken archive", files |-> << >>]
    /\ looked = << >>
    /\ index = 0
    /\ outcome = Undecided

(* members: it has to open, and then to read as far as the limits. *)
Working == given.kind # "file" /\ outcome = Undecided
Unopened ==
    /\ Working
    /\ given.kind = "broken archive"
    /\ outcome' = Refused("could not be opened")
    /\ UNCHANGED <<given, looked, index>>
Ended == index = Least(Len(given.files), MAX_MEMBERS) \/ Total(looked) >= MAX_TOTAL
Look ==
    /\ Working
    /\ given.kind = "archive"
    /\ ~Ended
    /\ LET member == given.files[index + 1]
       IN IF IsBroken(member)
          THEN outcome' = Refused("is broken") /\ UNCHANGED <<looked, index>>
          ELSE /\ index' = index + 1
               /\ looked' = IF IsLookedAt(member)
                            THEN Append(looked, Taken(member, MAX_TOTAL - Total(looked))) ELSE looked
               /\ UNCHANGED outcome
    /\ UNCHANGED given

(* What was found in the archive, or what is not one, as it is. *)
Unpack ==
    /\ Working
    /\ given.kind = "archive"
    /\ Ended
    /\ outcome' = unpack(looked)
    /\ UNCHANGED <<given, looked, index>>
TakeAsItIs ==
    /\ given.kind = "file"
    /\ outcome = Undecided
    /\ outcome' = Outcome("taken", given.files[1], << >>)
    /\ UNCHANGED <<given, looked, index>>

(* A cabinet's RAM beside a card is two things, and this opens one. *)
OpenIt ==
    /\ outcome.said = "taken"
    /\ LET format == detect(outcome.file)
       IN outcome' = [outcome EXCEPT !.said =
             CASE format = "undetected" -> "not a card"
               [] format \in {"bundle", "raw"} -> "a file that is no card"
               [] format = "neogeo" /\ "cabinet" \in outcome.file.marks -> "two things"
               [] OTHER -> format]
    /\ UNCHANGED <<given, looked, index>>
IntakeNext == Unopened \/ Look \/ Unpack \/ TakeAsItIs \/ OpenIt
IntakeSpec == IntakeInit /\ [][IntakeNext]_intakeVars

-----------------------------------------------------------------------------
Refusals ==
    {"could not be opened", "is broken", "holds nothing", "holds several cards", "no card and no save", "do not fit",
     "not a card", "a file that is no card", "two things"}
IntakeTypeOK ==
    /\ index \in 0 .. MAX_MEMBERS
    /\ Len(looked) <= index
    /\ Total(looked) <= MAX_TOTAL
    /\ outcome.said \in Refusals \cup CardFormats \cup {"nothing yet", "taken"}

(***************************************************************************)
(* A file is known for what made it, whatever it is called and whatever    *)
(* other test its bytes would pass, but for two.  Bytes that begin "MC" at *)
(* the length of a PS1 card are one, and a VMU's first block may.  And the *)
(* plausibility check of a GameCube card is asked before the magic of a    *)
(* PS2 card, whose plain images of 8 and 16 MB are of a GameCube card's    *)
(* sizes: where the directory's sum is right by accident they are taken    *)
(* for one.  An accident never speaks for a card of any other maker.       *)
(***************************************************************************)
PassesForGameCube(file) == file.made = "ps2" /\ gc_detect(file)
WrittenIsRecognised ==
    given.kind = "file" =>
        LET file == given.files[1]
            aCard == {file.made} \ {"bundle", "raw"}
        IN \/ outcome.said \in {"nothing yet", "taken"}
           \/ outcome.said \in aCard
           \/ outcome.said = "a file that is no card" /\ aCard = {}
           \/ outcome.said = "two things" /\ "cabinet" \in file.marks
           \/ file.made = "vmu" /\ "mc" \in file.marks /\ outcome.said = "ps1"
           \/ PassesForGameCube(file) /\ outcome.said = "gc"

Members == SelectSeq(given.files, IsLookedAt)
Fits ==
    /\ Len(given.files) <= MAX_MEMBERS /\ Total(Members) < MAX_TOTAL
    /\ \A n \in DOMAIN Members : Members[n].size <= MAX_MEMBER
RealCards == SelectSeq(Members, LAMBDA member : member.made \in CardFormats)
LooseSaves == SelectSeq(Members, LAMBDA member : member.made = "save")

(***************************************************************************)
(* An archive that fits the limits gives one card or is refused: a card in *)
(* it comes out whole, only when it is alone; two are never chosen         *)
(* between; without one every save in it is on the card that is made, in   *)
(* order; and what comes out is opened for a card.  A member that is not a *)
(* card counts as one only by its name.                                    *)
(***************************************************************************)
ArchiveGivesOneCard ==
    given.kind = "archive" /\ outcome # Undecided /\ Fits =>
        LET opened == outcome.said \in CardFormats
        IN /\ \A n \in DOMAIN given.files : IsBroken(given.files[n]) => outcome.said = "is broken"
           /\ outcome.said \notin {"not a card", "a file that is no card"}
           /\ opened => Len(RealCards) < 2
           /\ (Len(RealCards) = 1 /\ opened) => outcome.file = RealCards[1]
           /\ (RealCards = << >> /\ opened) =>
                 \/ outcome.saves # << >> /\ outcome.saves = [n \in DOMAIN LooseSaves |-> LooseSaves[n].name]
                 \/ outcome.file.made = "other" /\ ByExtension(outcome.file.extension) \in CardFormats
           /\ outcome.said = "no card and no save" => LooseSaves = << >> /\ RealCards = << >>
=============================================================================
