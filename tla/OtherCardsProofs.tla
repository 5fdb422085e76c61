--------------------------- MODULE OtherCardsProofs ---------------------------
(***************************************************************************)
(* Theorems about a card of any size, with any saves, and what is done     *)
(* with it.  Controller Paks, VMUs and Neo Geo cards alike: what is so of  *)
(* every card of them, and that each keeps a card's promise.  Then Saturn  *)
(* volumes, however they are damaged.                                      *)
(***************************************************************************)
EXTENDS LinkedProofs

-----------------------------------------------------------------------------
(* The three formats alike.                                                *)

Linked == {"n64", "vmu", "neogeo"}

\* Every note a game saves, or an edit adds, has a page.
NotesHavePages == \A game \in Games : game.system = "n64" => game.data # <<>>

CardTyped(f, card) ==
    \/ f = "n64" /\ N64Typed(card)
    \/ f = "vmu" /\ VmuTyped(card)
    \/ f = "neogeo" /\ NeoTyped(card)

\* As a console leaves it, and with every save there.  What a tool writes to a
\* Controller Pak may be the one and not the other.
CardPlain(f, card) ==
    \/ f = "n64" /\ N64Plain(card)
    \/ f = "vmu" /\ VmuWhole(card)
    \/ f = "neogeo" /\ NeoWhole(card)
CardWhole(f, card) ==
    \/ f = "n64" /\ N64Whole(card)
    \/ f = "vmu" /\ VmuWhole(card)
    \/ f = "neogeo" /\ NeoWhole(card)

\* Saves, and saves that come back as they were.
Savable(f, saves) == saves \in Seq(SavesOf(f))
Returns(f, saves) == Savable(f, saves) /\ (f = "n64" => N64Notes(saves))

Parsed(f, card) ==
    IF f = "n64" THEN N64!parse(card) ELSE IF f = "vmu" THEN Vmu!parse(card) ELSE NeoGeo!parse(card)
Built(f, saves) ==
    IF f = "n64" THEN N64!build(saves, "own")
    ELSE IF f = "vmu" THEN Vmu!build(saves, "own") ELSE NeoGeo!build(saves, "own")
FitsOn(f, saves) ==
    IF f = "n64" THEN N64!Fits(saves) ELSE IF f = "vmu" THEN Vmu!Fits(saves) ELSE NeoGeo!Fits(saves)
SavedOn(f, card, game) ==
    IF f = "n64" THEN N64!Saved(card, game)
    ELSE IF f = "vmu" THEN Vmu!Saved(card, game) ELSE NeoGeo!Saved(card, game)
DeletedOn(f, card) ==
    IF f = "n64" THEN N64!Deleted(card) ELSE IF f = "vmu" THEN Vmu!Deleted(card) ELSE NeoGeo!Deleted(card)
DamagedOn(f, card) ==
    IF f = "n64" THEN N64!Damaged(card) ELSE IF f = "vmu" THEN Vmu!Damaged(card) ELSE NeoGeo!Damaged(card)
BlankOf(f) ==
    IF f = "n64" THEN N64!Blank("own") ELSE IF f = "vmu" THEN Vmu!Blank("own") ELSE NeoGeo!Blank("own")

\* One save more, as it is seen of a card.
OneMore(more, fewer, save) == \E i \in Nat : Inserted(more, fewer, save, i)
OneFewer(more, fewer) == \E save : OneMore(more, fewer, save)
InPlace(f, card, new) == f = "vmu" => StaysInPlace(card, new)

LEMMA WholeIsPlain ==
  ASSUME NEW f, NEW card, CardWhole(f, card)
  PROVE  CardPlain(f, card)
BY DEF CardWhole, CardPlain, N64Whole

LEMMA PlainIsTyped ==
  ASSUME NEW f, NEW card, CardPlain(f, card)
  PROVE  CardTyped(f, card)
BY DEF CardTyped, CardPlain, N64Plain, VmuWhole, NeoWhole

\* What reads of a card, whatever became of it, comes back.
LEMMA TypedReads ==
  ASSUME NEW f \in Linked \cap Formats, NEW card, CardTyped(f, card)
  PROVE  Parsed(f, card).ok \in BOOLEAN /\ (Parsed(f, card).ok => Returns(f, Parsed(f, card).saves))
<1>1. CASE f = "n64"
  <2> DEFINE t == N64!index_table(card)
             bad == t = <<>> \/ \E s \in N64Used(card) : Chain(t, N64First(card)[s]) = <<>>
  <2>1. N64Typed(card)
    BY <1>1 DEF CardTyped
  <2>2. N64!parse(card).ok \in BOOLEAN
    <3>1. bad => N64!parse(card) = N64!NotRead
      BY N64Reads
    <3>2. ~bad => N64!parse(card) = [ok |-> TRUE, saves |-> Listing(MAX, N64Used(card), N64Note(card, t))]
      BY N64Reads
    <3> DEFINE l == Listing(MAX, N64Used(card), N64Note(card, t))
    <3>3. N64!NotRead.ok = FALSE /\ [ok |-> TRUE, saves |-> l].ok = TRUE
      BY DEF N64!NotRead
    <3>4. bad \/ ~bad
      OBVIOUS
    <3> HIDE DEF bad, l
    <3>5. CASE bad
      BY <3>1, <3>3, <3>5
    <3>6. CASE ~bad
      BY <3>2, <3>3, <3>6 DEF l
    <3> QED BY <3>4, <3>5, <3>6
  <2>3. N64!parse(card).ok => N64Notes(N64!parse(card).saves)
    BY <1>1, <2>1, N64ReadsNotes
  <2>4. N64!parse(card).ok => N64!parse(card).saves \in Seq(SavesOf("n64"))
    BY <2>3 DEF N64Notes
  <2> QED BY <1>1, <2>2, <2>3, <2>4 DEF Parsed, Returns, Savable
<1>2. CASE f = "vmu"
  <2> DEFINE l == Listing(MAX, VmuUsed(card), VmuSave(card))
  <2>1. VmuTyped(card) /\ "vmu" \in Formats
    BY <1>2 DEF CardTyped
  <2>2. Vmu!parse(card) = IF VmuReadable(card) THEN [ok |-> TRUE, saves |-> l] ELSE Vmu!NotRead
    BY VmuReads
  <2>3. VmuReadable(card) => l \in Seq(SavesOf("vmu"))
    BY <2>1, VmuReadsSaves
  <2> HIDE DEF l
  <2>4. Vmu!parse(card).ok \in BOOLEAN
        /\ (Vmu!parse(card).ok => Vmu!parse(card).saves \in Seq(SavesOf("vmu")))
    BY <2>2, <2>3 DEF Vmu!NotRead
  <2> QED BY <1>2, <2>4 DEF Parsed, Returns, Savable
<1>3. CASE f = "neogeo"
  <2> DEFINE l == Listing(MAX, NeoUsed(card), NeoSave(card))
  <2>1. NeoTyped(card) /\ "neogeo" \in Formats
    BY <1>3 DEF CardTyped
  <2>2. NeoGeo!parse(card) = IF NeoReadable(card) THEN [ok |-> TRUE, saves |-> l] ELSE NeoGeo!NotRead
    BY NeoReads
  <2>3. NeoReadable(card) => l \in Seq(SavesOf("neogeo"))
    BY <2>1, NeoReadsSaves
  <2> HIDE DEF l
  <2>4. NeoGeo!parse(card).ok \in BOOLEAN
        /\ (NeoGeo!parse(card).ok => NeoGeo!parse(card).saves \in Seq(SavesOf("neogeo")))
    BY <2>2, <2>3 DEF NeoGeo!NotRead
  <2> QED BY <1>3, <2>4 DEF Parsed, Returns, Savable
<1> QED BY <1>1, <1>2, <1>3 DEF Linked

\* A card with every save there reads, and what is read goes on one.
LEMMA WholeReads ==
  ASSUME NEW f \in Linked \cap Formats, NEW card, CardWhole(f, card)
  PROVE  /\ Parsed(f, card) = [ok |-> TRUE, saves |-> Parsed(f, card).saves]
         /\ Returns(f, Parsed(f, card).saves) /\ FitsOn(f, Parsed(f, card).saves)
<1>1. Parsed(f, card) = [ok |-> TRUE, saves |-> Parsed(f, card).saves] /\ FitsOn(f, Parsed(f, card).saves)
  <2>1. CASE f = "n64"
    <3> DEFINE l == Listing(MAX, N64Used(card), N64Note(card, card.index[1]))
    <3>1. N64Whole(card) /\ "n64" \in Formats
      BY <2>1 DEF CardWhole
    <3>2. N64!parse(card) = [ok |-> TRUE, saves |-> l] /\ N64!Fits(N64!parse(card).saves)
      BY <3>1, N64WholeIs
    <3> HIDE DEF l
    <3> QED BY <2>1, <3>2 DEF Parsed, FitsOn
  <2>2. CASE f = "vmu"
    <3> DEFINE l == Listing(MAX, VmuUsed(card), VmuSave(card))
    <3>1. VmuWhole(card) /\ "vmu" \in Formats
      BY <2>2 DEF CardWhole
    <3>2. Vmu!parse(card) = [ok |-> TRUE, saves |-> l] /\ Vmu!Fits(Vmu!parse(card).saves)
      BY <3>1, VmuWholeIs
    <3> HIDE DEF l
    <3> QED BY <2>2, <3>2 DEF Parsed, FitsOn
  <2>3. CASE f = "neogeo"
    <3> DEFINE l == Listing(MAX, NeoUsed(card), NeoSave(card))
    <3>1. NeoWhole(card) /\ "neogeo" \in Formats
      BY <2>3 DEF CardWhole
    <3>2. NeoGeo!parse(card) = [ok |-> TRUE, saves |-> l] /\ NeoGeo!Fits(NeoGeo!parse(card).saves)
      BY <3>1, NeoWholeIs
    <3> HIDE DEF l
    <3> QED BY <2>3, <3>2 DEF Parsed, FitsOn
  <2> QED BY <2>1, <2>2, <2>3 DEF Linked
<1>2. CardTyped(f, card)
  BY WholeIsPlain, PlainIsTyped
<1>3. Parsed(f, card).ok
  BY <1>1
<1> QED BY <1>1, <1>2, <1>3, TypedReads

\* What a console makes of a card with every save there.
LEMMA SavedWhole ==
  ASSUME NEW f \in Linked \cap Formats, NEW card, CardWhole(f, card), NEW game \in SavesOf(f),
         NEW new \in SavedOn(f, card, game)
  PROVE  /\ CardWhole(f, new) /\ InPlace(f, card, new)
         /\ OneMore(Parsed(f, new).saves, Parsed(f, card).saves, game)
<1>1. CASE f = "n64"
  <2>1. N64Whole(card) /\ "n64" \in Formats /\ game \in SavesOf("n64") /\ new \in N64!Saved(card, game)
    BY <1>1 DEF CardWhole, SavedOn
  <2>2. N64Whole(new) /\ OneMore(N64!parse(new).saves, N64!parse(card).saves, game)
    BY <2>1, N64SaveWhole DEF OneMore
  <2> QED BY <1>1, <2>2 DEF CardWhole, InPlace, Parsed
<1>2. CASE f = "vmu"
  <2>1. VmuWhole(card) /\ "vmu" \in Formats /\ game \in SavesOf("vmu") /\ new \in Vmu!Saved(card, game)
    BY <1>2 DEF CardWhole, SavedOn
  <2>2. VmuWhole(new) /\ StaysInPlace(card, new) /\ OneMore(Vmu!parse(new).saves, Vmu!parse(card).saves, game)
    BY <2>1, VmuSaveWhole DEF OneMore
  <2> QED BY <1>2, <2>2 DEF CardWhole, InPlace, Parsed
<1>3. CASE f = "neogeo"
  <2>1. NeoWhole(card) /\ "neogeo" \in Formats /\ game \in SavesOf("neogeo") /\ new \in NeoGeo!Saved(card, game)
    BY <1>3 DEF CardWhole, SavedOn
  <2>2. NeoWhole(new) /\ OneMore(NeoGeo!parse(new).saves, NeoGeo!parse(card).saves, game)
    BY <2>1, NeoSaveWhole DEF OneMore
  <2> QED BY <1>3, <2>2 DEF CardWhole, InPlace, Parsed
<1> QED BY <1>1, <1>2, <1>3 DEF Linked

LEMMA DeletedWhole ==
  ASSUME NEW f \in Linked \cap Formats, NEW card, CardWhole(f, card), NEW new \in DeletedOn(f, card)
  PROVE  /\ CardWhole(f, new) /\ InPlace(f, card, new)
         /\ OneFewer(Parsed(f, card).saves, Parsed(f, new).saves)
<1>1. CASE f = "n64"
  <2>1. N64Whole(card) /\ "n64" \in Formats /\ new \in N64!Deleted(card)
    BY <1>1 DEF CardWhole, DeletedOn
  <2>2. N64Whole(new) /\ \E i \in Nat : \E e : Inserted(N64!parse(card).saves, N64!parse(new).saves, e, i)
    BY <2>1, N64DeleteWhole
  <2>3. OneFewer(N64!parse(card).saves, N64!parse(new).saves)
    BY <2>2 DEF OneFewer, OneMore
  <2> QED BY <1>1, <2>2, <2>3 DEF CardWhole, InPlace, Parsed
<1>2. CASE f = "vmu"
  <2>1. VmuWhole(card) /\ "vmu" \in Formats /\ new \in Vmu!Deleted(card)
    BY <1>2 DEF CardWhole, DeletedOn
  <2>2. /\ VmuWhole(new) /\ StaysInPlace(card, new)
        /\ \E i \in Nat : \E e : Inserted(Vmu!parse(card).saves, Vmu!parse(new).saves, e, i)
    BY <2>1, VmuDeleteWhole
  <2>3. OneFewer(Vmu!parse(card).saves, Vmu!parse(new).saves)
    BY <2>2 DEF OneFewer, OneMore
  <2> QED BY <1>2, <2>2, <2>3 DEF CardWhole, InPlace, Parsed
<1>3. CASE f = "neogeo"
  <2>1. NeoWhole(card) /\ "neogeo" \in Formats /\ new \in NeoGeo!Deleted(card)
    BY <1>3 DEF CardWhole, DeletedOn
  <2>2. NeoWhole(new) /\ \E i \in Nat : \E e : Inserted(NeoGeo!parse(card).saves, NeoGeo!parse(new).saves, e, i)
    BY <2>1, NeoDeleteWhole
  <2>3. OneFewer(NeoGeo!parse(card).saves, NeoGeo!parse(new).saves)
    BY <2>2 DEF OneFewer, OneMore
  <2> QED BY <1>3, <2>2, <2>3 DEF CardWhole, InPlace, Parsed
<1> QED BY <1>1, <1>2, <1>3 DEF Linked

\* What a console makes of a card as consoles leave them.
LEMMA SavedPlain ==
  ASSUME NEW f \in Linked \cap Formats, NEW card, CardPlain(f, card), NEW game \in SavesOf(f),
         NEW new \in SavedOn(f, card, game)
  PROVE  CardPlain(f, new) /\ InPlace(f, card, new)
<1>1. CASE f = "n64"
  <2>1. N64Plain(card) /\ "n64" \in Formats /\ game \in SavesOf("n64") /\ new \in N64!Saved(card, game)
    BY <1>1 DEF CardPlain, SavedOn
  <2>2. N64Plain(new)
    BY <2>1, N64SavedIs
  <2> QED BY <1>1, <2>2 DEF CardPlain, InPlace
<1>2. CASE f # "n64"
  <2>1. CardWhole(f, card)
    BY <1>2 DEF CardPlain, CardWhole
  <2> QED BY <2>1, SavedWhole, WholeIsPlain
<1> QED BY <1>1, <1>2

LEMMA DeletedPlain ==
  ASSUME NEW f \in Linked \cap Formats, NEW card, CardPlain(f, card), NEW new \in DeletedOn(f, card)
  PROVE  CardPlain(f, new) /\ InPlace(f, card, new)
<1>1. CASE f = "n64"
  <2>1. N64Plain(card) /\ "n64" \in Formats /\ new \in N64!Deleted(card)
    BY <1>1 DEF CardPlain, DeletedOn
  <2>2. N64Plain(new)
    BY <2>1, N64DeletedIs
  <2> QED BY <1>1, <2>2 DEF CardPlain, InPlace
<1>2. CASE f # "n64"
  <2>1. CardWhole(f, card)
    BY <1>2 DEF CardPlain, CardWhole
  <2> QED BY <2>1, DeletedWhole, WholeIsPlain
<1> QED BY <1>1, <1>2

LEMMA DamagedTyped ==
  ASSUME NEW f \in Linked \cap Formats, NEW card, CardTyped(f, card), NEW new \in DamagedOn(f, card)
  PROVE  CardTyped(f, new)
<1>1. CASE f = "n64"
  <2>1. N64Typed(card) /\ "n64" \in Formats /\ new \in N64!Damaged(card)
    BY <1>1 DEF CardTyped, DamagedOn
  <2> QED BY <1>1, <2>1, N64DamagedIs DEF CardTyped
<1>2. CASE f = "vmu"
  <2>1. VmuTyped(card) /\ "vmu" \in Formats /\ new \in Vmu!Damaged(card)
    BY <1>2 DEF CardTyped, DamagedOn
  <2> QED BY <1>2, <2>1, VmuDamagedIs DEF CardTyped
<1>3. CASE f = "neogeo"
  <2>1. NeoTyped(card) /\ "neogeo" \in Formats /\ new \in NeoGeo!Damaged(card)
    BY <1>3 DEF CardTyped, DamagedOn
  <2> QED BY <1>3, <2>1, NeoDamagedIs DEF CardTyped
<1> QED BY <1>1, <1>2, <1>3 DEF Linked

\* A card is built just when the saves go on it.
LEMMA BuiltFits ==
  ASSUME NEW f \in Linked, NEW saves
  PROVE  Built(f, saves).ok = FitsOn(f, saves)
<1>1. N64!build(saves, "own").ok = N64!Fits(saves)
  BY DEF N64!build
<1>2. Vmu!build(saves, "own").ok = Vmu!Fits(saves)
  BY DEF Vmu!build
<1>3. NeoGeo!build(saves, "own").ok = NeoGeo!Fits(saves)
  BY DEF NeoGeo!build
<1> QED BY <1>1, <1>2, <1>3 DEF Built, FitsOn, Linked

LEMMA BuiltPlain ==
  ASSUME NEW f \in Linked \cap Formats, NEW saves, Savable(f, saves), FitsOn(f, saves)
  PROVE  /\ CardPlain(f, Built(f, saves).card)
         /\ f = "vmu" => Vmu!RunsInPlace(Built(f, saves).card)
<1>1. CASE f = "n64"
  <2>1. "n64" \in Formats /\ saves \in Seq(SavesOf("n64")) /\ N64!Fits(saves)
    BY <1>1 DEF Savable, FitsOn
  <2>2. N64Plain(N64!build(saves, "own").card)
    BY <2>1, N64BuildFits
  <2> QED BY <1>1, <2>2 DEF CardPlain, Built
<1>2. CASE f = "vmu"
  <2>1. "vmu" \in Formats /\ saves \in Seq(SavesOf("vmu")) /\ Vmu!Fits(saves)
    BY <1>2 DEF Savable, FitsOn
  <2>2. VmuWhole(Vmu!build(saves, "own").card) /\ Vmu!RunsInPlace(Vmu!build(saves, "own").card)
    BY <2>1, VmuBuildIs
  <2> QED BY <1>2, <2>2 DEF CardPlain, Built
<1>3. CASE f = "neogeo"
  <2>1. "neogeo" \in Formats /\ saves \in Seq(SavesOf("neogeo")) /\ NeoGeo!Fits(saves)
    BY <1>3 DEF Savable, FitsOn
  <2>2. NeoWhole(NeoGeo!build(saves, "own").card)
    BY <2>1, NeoBuildIs
  <2> QED BY <1>3, <2>2 DEF CardPlain, Built
<1> QED BY <1>1, <1>2, <1>3 DEF Linked

LEMMA BuiltWhole ==
  ASSUME NEW f \in Linked \cap Formats, NEW saves, Returns(f, saves), FitsOn(f, saves)
  PROVE  /\ CardWhole(f, Built(f, saves).card)
         /\ Parsed(f, Built(f, saves).card) = [ok |-> TRUE, saves |-> saves]
<1>1. CASE f = "n64"
  <2>1. "n64" \in Formats /\ N64Notes(saves) /\ N64!Fits(saves)
    BY <1>1 DEF Returns, FitsOn
  <2>2. /\ N64Whole(N64!build(saves, "own").card)
        /\ N64!parse(N64!build(saves, "own").card) = [ok |-> TRUE, saves |-> saves]
    BY <2>1, N64BuildIs
  <2> QED BY <1>1, <2>2 DEF CardWhole, Built, Parsed
<1>2. CASE f = "vmu"
  <2>1. "vmu" \in Formats /\ saves \in Seq(SavesOf("vmu")) /\ Vmu!Fits(saves)
    BY <1>2 DEF Returns, Savable, FitsOn
  <2>2. /\ VmuWhole(Vmu!build(saves, "own").card)
        /\ Vmu!parse(Vmu!build(saves, "own").card) = [ok |-> TRUE, saves |-> saves]
    BY <2>1, VmuBuildIs
  <2> QED BY <1>2, <2>2 DEF CardWhole, Built, Parsed
<1>3. CASE f = "neogeo"
  <2>1. "neogeo" \in Formats /\ saves \in Seq(SavesOf("neogeo")) /\ NeoGeo!Fits(saves)
    BY <1>3 DEF Returns, Savable, FitsOn
  <2>2. /\ NeoWhole(NeoGeo!build(saves, "own").card)
        /\ NeoGeo!parse(NeoGeo!build(saves, "own").card) = [ok |-> TRUE, saves |-> saves]
    BY <2>1, NeoBuildIs
  <2> QED BY <1>3, <2>2 DEF CardWhole, Built, Parsed
<1> QED BY <1>1, <1>2, <1>3 DEF Linked

LEMMA BlankIs ==
  ASSUME NEW f \in Linked \cap Formats
  PROVE  /\ Returns(f, <<>>) /\ FitsOn(f, <<>>)
         /\ BlankOf(f) = Built(f, <<>>).card
<1>0. <<>> \in Seq(SavesOf(f))
  OBVIOUS
<1>1. CASE f = "n64"
  <2>1. "n64" \in Formats
    BY <1>1
  <2>2. N64Notes(<<>>) /\ N64!Fits(<<>>) /\ N64!Blank("own") = N64!build(<<>>, "own").card
    BY <2>1, N64BlankIs
  <2> QED BY <1>0, <1>1, <2>2 DEF Returns, Savable, FitsOn, BlankOf, Built
<1>2. CASE f = "vmu"
  <2>1. "vmu" \in Formats
    BY <1>2
  <2>2. Vmu!Fits(<<>>) /\ Vmu!Blank("own") = Vmu!build(<<>>, "own").card
    BY <2>1, VmuBlankIs
  <2> QED BY <1>0, <1>2, <2>2 DEF Returns, Savable, FitsOn, BlankOf, Built
<1>3. CASE f = "neogeo"
  <2>1. "neogeo" \in Formats
    BY <1>3
  <2>2. NeoGeo!Fits(<<>>) /\ NeoGeo!Blank("own") = NeoGeo!build(<<>>, "own").card
    BY <2>1, NeoBlankIs
  <2> QED BY <1>0, <1>3, <2>2 DEF Returns, Savable, FitsOn, BlankOf, Built
<1> QED BY <1>1, <1>2, <1>3 DEF Linked

\* What the card editor does with a file is what the crate of its format does.
LEMMA Alike ==
  ASSUME format \in Linked
  PROVE  /\ \A card : read(card) = Parsed(format, card)
         /\ \A saves : write(saves, "own") = Built(format, saves)
         /\ Blank = BlankOf(format)
<1>1. CASE format = "n64"
  BY <1>1 DEF read, write, Blank, Parsed, Built, BlankOf
<1>2. CASE format = "vmu"
  BY <1>2 DEF read, write, Blank, Parsed, Built, BlankOf
<1>3. CASE format = "neogeo"
  BY <1>3 DEF read, write, Blank, Parsed, Built, BlankOf
<1> QED BY <1>1, <1>2, <1>3 DEF Linked

LEMMA OwnArea ==
  ASSUME NEW card, format \in Linked, CardTyped(format, card)
  PROVE  AreaOf(card) = "own"
<1>1. CASE format = "n64"
  <2>1. N64Typed(card)
    BY <1>1 DEF CardTyped
  <2>2. card.label = "own"
    BY <2>1 DEF N64Typed
  <2> QED BY <1>1, <2>2 DEF AreaOf
<1>2. CASE format = "vmu"
  <2>1. VmuTyped(card)
    BY <1>2 DEF CardTyped
  <2>2. card.root = "own"
    BY <2>1 DEF VmuTyped
  <2> QED BY <1>2, <2>2 DEF AreaOf
<1>3. CASE format = "neogeo"
  <2>1. NeoTyped(card)
    BY <1>3 DEF CardTyped
  <2>2. card.header = "own"
    BY <2>1 DEF NeoTyped
  <2> QED BY <1>3, <2>2 DEF AreaOf
<1> QED BY <1>1, <1>2, <1>3 DEF Linked

\* Saves of one format fit as that format has them.
LEMMA FitsAlike ==
  ASSUME NEW f \in Linked \cap Formats, NEW saves, Savable(f, saves)
  PROVE  CardFits(saves) <=> FitsOn(f, saves)
<1>1. CASE saves = <<>>
  <2>1. FitsOn(f, saves)
    BY <1>1, BlankIs
  <2> QED BY <1>1, <2>1 DEF CardFits
<1>2. CASE saves # <<>>
  <2> DEFINE system == saves[1].system
  <2>1. saves[1] \in SavesOf(f)
    BY <1>2 DEF Savable
  <2>2. system = f
    <3>1. CASE f = "n64"
      BY <2>1, <3>1 DEF SavesOf
    <3>2. CASE f = "vmu"
      BY <2>1, <3>2 DEF SavesOf
    <3>3. CASE f = "neogeo"
      BY <2>1, <3>3 DEF SavesOf
    <3> QED BY <3>1, <3>2, <3>3 DEF Linked
  <2>3. CASE f = "n64"
    BY <1>2, <2>2, <2>3 DEF CardFits, FitsOn
  <2>4. CASE f = "vmu"
    BY <1>2, <2>2, <2>4 DEF CardFits, FitsOn
  <2>5. CASE f = "neogeo"
    BY <1>2, <2>2, <2>5 DEF CardFits, FitsOn
  <2> QED BY <2>3, <2>4, <2>5 DEF Linked
<1> QED BY <1>1, <1>2

-----------------------------------------------------------------------------
(* What is so of a card, whoever has it, and of what the tool holds.       *)

\* A Controller Pak's notes come back if each has a page.
Sure == format = "n64" => NotesHavePages

\* A card no console found damaged is as a console would leave it; and it
\* has every save there, unless a note with no page was put on it.
DiskInv ==
    /\ CardTyped(format, disk) /\ reads = Parsed(format, disk)
    /\ damage = 0 => CardPlain(format, disk)
    /\ damage = 0 /\ Sure => CardWhole(format, disk)

\* What the tool holds can be put on a card, but for there being too much; and
\* the card's own image stands for no saves, on the card it came from.
ToolInv ==
    /\ Savable(format, held) /\ (Sure => Returns(format, held))
    /\ area = IF pc = "closed" THEN None ELSE "own"
    /\ pc = "closed" => held = <<>> /\ kept = <<>>
    /\ kept # <<>> => kept = <<disk>> /\ held = <<>> /\ reads.ok /\ reads.saves = <<>>

LinkedInv ==
    /\ format \in Linked \cap Formats
    /\ damage \in 0 .. MaxDamage
    /\ pc \in {"closed", "editing", "refused"}
    /\ DiskInv /\ ToolInv

\* A game there is for a card of some format is a save of that format.
LEMMA GameIs ==
  ASSUME NEW f \in Linked, NEW game \in Games, game.system = f
  PROVE  game \in SavesOf(f)
BY GamesAssumption DEF Linked

\* What is written is the card as it was, if its image is still in the bundle,
\* and what the saves held come to if not.
LEMMA WriteIs ==
  ASSUME LinkedInv, pc # "closed"
  PROVE  /\ kept # <<>> => ReadsBack(Rebuilt) /\ Rebuilt.card = disk /\ held = <<>>
         /\ kept = <<>> => Rebuilt = Built(format, held)
         /\ kept = <<>> /\ ReadsBack(Rebuilt) => FitsOn(format, held)
         /\ kept = <<>> /\ Sure => (ReadsBack(Rebuilt) <=> FitsOn(format, held))
<1>1. area = "own" /\ format \in Linked \cap Formats
  BY DEF LinkedInv, ToolInv
<1>2. CASE kept # <<>>
  <2>1. kept[1] = disk /\ held = <<>> /\ reads.ok /\ reads.saves = <<>>
    BY <1>2 DEF LinkedInv, ToolInv
  <2>2. Rebuilt = [ok |-> TRUE, card |-> disk]
    BY <1>2, <2>1 DEF Rebuilt
  <2>3. Rebuilt.ok /\ Rebuilt.card = disk
    BY <2>2
  <2>4. read(Rebuilt.card) = reads
    BY <1>1, <2>3, Alike DEF LinkedInv, DiskInv
  <2>5. ReadsBack(Rebuilt)
    BY <2>1, <2>3, <2>4 DEF ReadsBack
  <2> QED BY <1>2, <2>1, <2>3, <2>5
<1>3. CASE kept = <<>>
  <2>1. Rebuilt = Built(format, held)
    BY <1>1, <1>3, Alike DEF Rebuilt
  <2>2. Rebuilt.ok = FitsOn(format, held)
    BY <1>1, <2>1, BuiltFits
  <2>3. ReadsBack(Rebuilt) => FitsOn(format, held)
    BY <2>2 DEF ReadsBack
  <2>4. Sure /\ FitsOn(format, held) => ReadsBack(Rebuilt)
    <3> SUFFICES ASSUME Sure, FitsOn(format, held) PROVE ReadsBack(Rebuilt)
      OBVIOUS
    <3>1. Returns(format, held)
      BY DEF LinkedInv, ToolInv
    <3>2. Parsed(format, Built(format, held).card) = [ok |-> TRUE, saves |-> held]
      BY <1>1, <3>1, BuiltWhole
    <3>3. read(Rebuilt.card) = [ok |-> TRUE, saves |-> held]
      BY <1>1, <2>1, <3>2, Alike
    <3>4. read(Rebuilt.card).ok /\ read(Rebuilt.card).saves = held
      BY <3>3
    <3> QED BY <2>2, <3>4 DEF ReadsBack
  <2> QED BY <1>3, <2>1, <2>3, <2>4
<1> QED BY <1>2, <1>3

LEMMA LinkedInit ==
  ASSUME Init, format \in Linked
  PROVE  LinkedInv
<1>1. format \in Linked \cap Formats /\ disk = BlankOf(format) /\ reads = Parsed(format, disk)
  BY Alike DEF Init
<1>2. Returns(format, <<>>) /\ FitsOn(format, <<>>) /\ BlankOf(format) = Built(format, <<>>).card
  BY <1>1, BlankIs
<1>3. CardWhole(format, disk)
  BY <1>1, <1>2, BuiltWhole
<1>4. CardPlain(format, disk) /\ CardTyped(format, disk)
  BY <1>3, WholeIsPlain, PlainIsTyped
<1>5. DiskInv
  BY <1>1, <1>3, <1>4 DEF DiskInv
<1>6. Savable(format, <<>>)
  BY <1>2 DEF Returns
<1>7. ToolInv
  BY <1>2, <1>6 DEF ToolInv, Init
<1>8. damage \in 0 .. MaxDamage
  BY BoundsAssumption DEF Init
<1> QED BY <1>1, <1>5, <1>7, <1>8 DEF LinkedInv, Init

\* Saves that come back still do with one gone, or with one more.
LEMMA FewerReturn ==
  ASSUME NEW f, NEW saves \in Seq(SavesOf(f)), NEW i \in DOMAIN saves
  PROVE  /\ RemoveAt(saves, i) \in Seq(SavesOf(f))
         /\ Returns(f, saves) => Returns(f, RemoveAt(saves, i))
         /\ Len(RemoveAt(saves, i)) = Len(saves) - 1
         /\ \A j \in 1 .. Len(saves) - 1 : RemoveAt(saves, i)[j] = IF j < i THEN saves[j] ELSE saves[j + 1]
<1> DEFINE S == SavesOf(f)
           r == RemoveAt(saves, i)
<1>0. saves \in Seq(S) /\ i \in 1 .. Len(saves) /\ Len(saves) \in Nat
  OBVIOUS
<1>r. r = SubSeq(saves, 1, i - 1) \o SubSeq(saves, i + 1, Len(saves))
  BY DEF RemoveAt
<1>p. r = RemoveAt(saves, i) /\ S = SavesOf(f)
  OBVIOUS
<1> HIDE DEF S, r
<1>1. /\ r \in Seq(S) /\ Len(r) = Len(saves) - 1
      /\ \A j \in 1 .. Len(saves) - 1 : r[j] = IF j < i THEN saves[j] ELSE saves[j + 1]
  BY <1>0, <1>r, WithoutIsSeq
<1>2. ASSUME N64Notes(saves), f = "n64" PROVE N64Notes(r)
  <2>1. \A k \in 1 .. Len(saves) : saves[k].data # <<>>
    BY <1>0, <1>2 DEF N64Notes
  <2>2. ASSUME NEW j \in 1 .. Len(saves) - 1 PROVE r[j].data # <<>>
    <3>1. CASE j < i
      BY <1>0, <1>1, <2>1, <3>1
    <3>2. CASE ~(j < i)
      <4>1. j + 1 \in 1 .. Len(saves) /\ r[j] = saves[j + 1]
        BY <1>0, <1>1, <3>2
      <4> QED BY <4>1, <2>1
    <3> QED BY <3>1, <3>2
  <2>3. DOMAIN r = 1 .. Len(saves) - 1
    BY <1>1
  <2> QED BY <1>1, <1>2, <1>p, <2>2, <2>3 DEF N64Notes
<1> QED BY <1>1, <1>2, <1>p DEF Returns, Savable

LEMMA MoreReturn ==
  ASSUME NEW f, NEW saves \in Seq(SavesOf(f)), NEW game \in SavesOf(f)
  PROVE  /\ Append(saves, game) \in Seq(SavesOf(f))
         /\ Returns(f, saves) /\ (f = "n64" => game.data # <<>>) => Returns(f, Append(saves, game))
<1> DEFINE S == SavesOf(f)
           r == Append(saves, game)
<1>0. saves \in Seq(S) /\ game \in S /\ Len(saves) \in Nat
  OBVIOUS
<1>p. r = Append(saves, game) /\ S = SavesOf(f)
  OBVIOUS
<1> HIDE DEF S
<1>1. /\ r \in Seq(S) /\ Len(r) = Len(saves) + 1 /\ DOMAIN r = 1 .. Len(saves) + 1
      /\ \A j \in 1 .. Len(saves) : r[j] = saves[j]
      /\ r[Len(saves) + 1] = game
  BY <1>0
<1> HIDE DEF r
<1>2. ASSUME N64Notes(saves), game.data # <<>>, f = "n64" PROVE N64Notes(r)
  <2>1. \A k \in 1 .. Len(saves) : saves[k].data # <<>>
    BY <1>0, <1>2 DEF N64Notes
  <2>2. \A j \in 1 .. Len(saves) + 1 : j \in 1 .. Len(saves) \/ j = Len(saves) + 1
    BY <1>0
  <2>3. \A j \in 1 .. Len(saves) + 1 : r[j].data # <<>>
    BY <1>1, <1>2, <2>1, <2>2
  <2> QED BY <1>1, <1>2, <1>p, <2>3 DEF N64Notes
<1> QED BY <1>1, <1>2, <1>p DEF Returns, Savable

\* A console's turn.
LEMMA LinkedSave ==
  ASSUME LinkedInv, ConsoleSave
  PROVE  \E game \in Games : game.system = format /\ game \in SavesOf(format)
                             /\ disk' \in SavedOn(format, disk, game)
<1>1. PICK game \in Games : /\ game.system = format
                            /\ disk' \in CASE format = "n64" -> N64!Saved(disk, game)
                                           [] format = "vmu" -> Vmu!Saved(disk, game)
                                           [] format = "neogeo" -> NeoGeo!Saved(disk, game)
                                           [] format = "saturn" -> Saturn!Saved(disk, game)
                                           [] format = "ps2" -> Ps2!Saved(disk, game)
  BY DEF ConsoleSave
<1>2. format \in Linked
  BY DEF LinkedInv
<1>3. game \in SavesOf(format)
  BY <1>1, <1>2, GameIs
<1>4. disk' \in SavedOn(format, disk, game)
  <2>1. CASE format = "n64"
    BY <1>1, <2>1 DEF SavedOn
  <2>2. CASE format = "vmu"
    BY <1>1, <2>2 DEF SavedOn
  <2>3. CASE format = "neogeo"
    BY <1>1, <2>3 DEF SavedOn
  <2> QED BY <1>2, <2>1, <2>2, <2>3 DEF Linked
<1> QED BY <1>1, <1>3, <1>4

LEMMA LinkedDelete ==
  ASSUME LinkedInv, ConsoleDelete
  PROVE  disk' \in DeletedOn(format, disk)
<1>1. CASE format = "n64"
  BY <1>1 DEF ConsoleDelete, DeletedOn
<1>2. CASE format = "vmu"
  BY <1>2 DEF ConsoleDelete, DeletedOn
<1>3. CASE format = "neogeo"
  BY <1>3 DEF ConsoleDelete, DeletedOn
<1> QED BY <1>1, <1>2, <1>3 DEF LinkedInv, Linked

LEMMA LinkedDamage ==
  ASSUME LinkedInv, Damaged
  PROVE  disk' \in DamagedOn(format, disk)
<1>1. CASE format = "n64"
  BY <1>1 DEF Damaged, DamagedOn
<1>2. CASE format = "vmu"
  BY <1>2 DEF Damaged, DamagedOn
<1>3. CASE format = "neogeo"
  BY <1>3 DEF Damaged, DamagedOn
<1> QED BY <1>1, <1>2, <1>3 DEF LinkedInv, Linked

LEMMA LinkedNext ==
  ASSUME LinkedInv, [Next]_vars
  PROVE  LinkedInv'
<1>0. /\ format \in Linked /\ format \in Formats /\ format \in Linked \cap Formats
      /\ damage \in Nat /\ MaxDamage \in Nat /\ damage \in 0 .. MaxDamage
      /\ CardTyped(format, disk) /\ reads = Parsed(format, disk)
      /\ damage = 0 => CardPlain(format, disk)
      /\ damage = 0 /\ Sure => CardWhole(format, disk)
  BY BoundsAssumption DEF LinkedInv, DiskInv
\* The disk is another, and the tool has nothing.
<1>a. ASSUME format' = format, UNCHANGED toolVars, pc = "closed",
             CardTyped(format, disk'), reads' = read(disk'),
             damage' \in 0 .. MaxDamage,
             damage' = 0 => CardPlain(format, disk'),
             damage' = 0 /\ Sure => CardWhole(format, disk')
      PROVE  LinkedInv'
  <2>1. reads' = Parsed(format, disk')
    BY <1>0, <1>a, Alike
  <2>2. Sure' <=> Sure
    BY <1>a DEF Sure
  <2>3. DiskInv'
    BY <1>a, <2>1, <2>2 DEF DiskInv
  <2>4. ToolInv'
    BY <1>a, <2>2 DEF LinkedInv, ToolInv, toolVars
  <2> QED BY <1>0, <1>a, <2>3, <2>4 DEF LinkedInv, toolVars
\* The disk stays, and the tool has something else.
<1>b. ASSUME UNCHANGED <<format, disk, reads, damage>>, pc' \in {"closed", "editing", "refused"},
             ToolInv'
      PROVE  LinkedInv'
  <2>1. DiskInv'
    BY <1>b DEF LinkedInv, DiskInv, Sure
  <2> QED BY <1>0, <1>b, <2>1 DEF LinkedInv
<1>1. CASE ConsoleSave
  <2>1. pc = "closed" /\ damage = 0 /\ format' = format /\ damage' = 0 /\ UNCHANGED toolVars /\ reads' = read(disk')
    BY <1>1 DEF ConsoleSave, Idle
  <2>2. PICK game \in Games : game \in SavesOf(format) /\ disk' \in SavedOn(format, disk, game)
    BY <1>1, LinkedSave
  <2>3. CardPlain(format, disk')
    BY <1>0, <2>1, <2>2, SavedPlain
  <2>4. Sure => CardWhole(format, disk')
    BY <1>0, <2>1, <2>2, SavedWhole
  <2>5. CardTyped(format, disk')
    BY <2>3, PlainIsTyped
  <2> QED BY <1>0, <1>a, <2>1, <2>3, <2>4, <2>5
<1>2. CASE ConsoleDelete
  <2>1. pc = "closed" /\ damage = 0 /\ format' = format /\ damage' = 0 /\ UNCHANGED toolVars /\ reads' = read(disk')
    BY <1>2 DEF ConsoleDelete, Idle
  <2>2. disk' \in DeletedOn(format, disk)
    BY <1>2, LinkedDelete
  <2>3. CardPlain(format, disk')
    BY <1>0, <2>1, <2>2, DeletedPlain
  <2>4. Sure => CardWhole(format, disk')
    BY <1>0, <2>1, <2>2, DeletedWhole
  <2>5. CardTyped(format, disk')
    BY <2>3, PlainIsTyped
  <2> QED BY <1>0, <1>a, <2>1, <2>3, <2>4, <2>5
<1>3. CASE Damaged
  <2>1. /\ pc = "closed" /\ format' = format /\ damage' = damage + 1 /\ damage < MaxDamage
        /\ UNCHANGED toolVars /\ reads' = read(disk')
    BY <1>3 DEF Damaged
  <2>2. disk' \in DamagedOn(format, disk)
    BY <1>3, LinkedDamage
  <2>3. CardTyped(format, disk')
    BY <1>0, <2>2, DamagedTyped
  <2>4. damage' \in 0 .. MaxDamage /\ damage' # 0
    BY <1>0, <2>1
  <2> QED BY <1>a, <2>1, <2>3, <2>4
<1>4. CASE Open
  <2>1. /\ pc = "closed" /\ reads.ok /\ held' = reads.saves /\ kept' = IF held' = <<>> THEN <<disk>> ELSE <<>>
        /\ area' = AreaOf(disk) /\ pc' = "editing" /\ UNCHANGED <<format, disk, reads, damage>>
    BY <1>4 DEF Open
  <2>2. Returns(format, reads.saves)
    BY <1>0, <2>1, TypedReads
  <2>3. Savable(format, reads.saves)
    BY <2>2 DEF Returns
  <2>4. area' = "own"
    BY <1>0, <2>1, OwnArea
  <2>5. kept' # <<>> => kept' = <<disk'>> /\ held' = <<>> /\ reads'.ok /\ reads'.saves = <<>>
    BY <2>1
  <2>6. Savable(format', held') /\ Returns(format', held')
    BY <2>1, <2>2, <2>3
  <2>7. ToolInv'
    BY <2>1, <2>4, <2>5, <2>6 DEF ToolInv
  <2> QED BY <1>b, <2>1, <2>7
<1>5. ASSUME NEW saves, Edited(saves), Savable(format, saves), Sure => Returns(format, saves)
      PROVE  LinkedInv'
  <2>1. /\ pc = "editing" /\ held' = saves /\ kept' = <<>>
        /\ UNCHANGED <<format, disk, reads, damage, pc, area>>
    BY <1>5 DEF Edited
  <2>2. Sure' <=> Sure
    BY <2>1 DEF Sure
  <2>3. ToolInv'
    BY <1>5, <2>1, <2>2 DEF LinkedInv, ToolInv
  <2> QED BY <1>b, <2>1, <2>3
<1>6. CASE RemoveSave
  <2>1. PICK i \in DOMAIN held : Edited(RemoveAt(held, i))
    BY <1>6 DEF RemoveSave
  <2>2. held \in Seq(SavesOf(format)) /\ (Sure => Returns(format, held))
    BY DEF LinkedInv, ToolInv, Savable
  <2> QED BY <1>5, <2>1, <2>2, FewerReturn DEF Savable
<1>7. CASE AddSave
  <2>1. PICK game \in Games : game.system = format /\ Edited(Append(held, game))
    BY <1>7 DEF AddSave
  <2>2. held \in Seq(SavesOf(format)) /\ (Sure => Returns(format, held))
    BY DEF LinkedInv, ToolInv, Savable
  <2>3. game \in SavesOf(format)
    BY <1>0, <2>1, GameIs
  <2>4. Sure /\ format = "n64" => game.data # <<>>
    BY <2>1 DEF Sure, NotesHavePages
  <2> QED BY <1>5, <2>1, <2>2, <2>3, <2>4, MoreReturn DEF Savable
<1>8. ASSUME PutAway, UNCHANGED format PROVE ToolInv'
  <2>1. pc' = "closed" /\ held' = <<>> /\ kept' = <<>> /\ area' = None /\ format' = format
    BY <1>8 DEF PutAway
  <2>2. Returns(format, <<>>)
    BY <1>0, BlankIs
  <2>3. Savable(format', held') /\ Returns(format', held')
    BY <2>1, <2>2 DEF Returns
  <2> QED BY <2>1, <2>3 DEF ToolInv
<1>9. CASE Write
  <2>1. pc = "editing" /\ UNCHANGED <<format, damage>>
    BY <1>9 DEF Write
  <2>2. CASE ReadsBack(Rebuilt)
    <3>1. disk' = Rebuilt.card /\ reads' = read(disk') /\ PutAway
      BY <1>9, <2>2 DEF Write
    <3>2. ToolInv'
      BY <1>8, <2>1, <3>1
    <3>3. CASE kept # <<>>
      <4>1. disk' = disk
        BY <2>1, <3>1, <3>3, WriteIs
      <4>2. reads' = reads
        BY <1>0, <2>1, <3>1, <4>1, Alike
      <4> QED BY <1>b, <2>1, <3>1, <3>2, <4>1, <4>2 DEF PutAway
    <3>4. CASE kept = <<>>
      <4>1. FitsOn(format, held) /\ disk' = Built(format, held).card
        BY <2>1, <2>2, <3>1, <3>4, WriteIs
      <4>2. Savable(format, held) /\ (Sure => Returns(format, held))
        BY DEF LinkedInv, ToolInv
      <4>3. CardPlain(format, disk')
        BY <1>0, <4>1, <4>2, BuiltPlain
      <4>4. Sure => CardWhole(format, disk')
        BY <1>0, <4>1, <4>2, BuiltWhole
      <4>5. CardTyped(format, disk')
        BY <4>3, PlainIsTyped
      <4>6. reads' = Parsed(format', disk')
        BY <1>0, <2>1, <3>1, Alike
      <4>7. DiskInv'
        BY <2>1, <4>3, <4>4, <4>5, <4>6 DEF DiskInv, Sure
      <4> QED BY <1>0, <2>1, <3>1, <3>2, <4>7 DEF LinkedInv, PutAway
    <3> QED BY <3>3, <3>4
  <2>3. CASE ~ReadsBack(Rebuilt)
    <3>1. pc' = "refused" /\ UNCHANGED <<disk, reads, held, kept, area>>
      BY <1>9, <2>3 DEF Write
    <3>2. ToolInv'
      BY <2>1, <3>1 DEF LinkedInv, ToolInv, Sure
    <3> QED BY <1>b, <2>1, <3>1, <3>2
  <2> QED BY <2>2, <2>3
<1>10. CASE Resume
  <2>1. pc = "refused" /\ pc' = "editing" /\ UNCHANGED <<format, disk, reads, damage, held, kept, area>>
    BY <1>10 DEF Resume
  <2>2. ToolInv'
    BY <2>1 DEF LinkedInv, ToolInv, Sure
  <2> QED BY <1>b, <2>1, <2>2
<1>11. CASE Close
  <2>1. PutAway /\ UNCHANGED <<format, disk, reads, damage>>
    BY <1>11 DEF Close
  <2>2. ToolInv'
    BY <1>8, <2>1
  <2> QED BY <1>b, <2>1, <2>2 DEF PutAway
<1>12. CASE UNCHANGED vars
  <2>1. ToolInv'
    BY <1>12 DEF LinkedInv, ToolInv, Sure, vars, toolVars
  <2>2. pc' \in {"closed", "editing", "refused"}
    BY <1>12 DEF LinkedInv, vars, toolVars
  <2> QED BY <1>b, <1>12, <2>1, <2>2 DEF vars
<1> QED BY <1>1, <1>2, <1>3, <1>4, <1>6, <1>7, <1>9, <1>10, <1>11, <1>12 DEF Next, Console, Tool

-----------------------------------------------------------------------------
(* What is so of every card of the three formats.                          *)

\* No step makes a card one of another format.
LEMMA SameFormat ==
  ASSUME [Next]_vars
  PROVE  format' = format
BY DEF Next, Console, Tool, ConsoleSave, ConsoleDelete, Damaged, Open, RemoveSave, AddSave, Edited,
       Write, Resume, Close, vars

LEMMA LinkedStays == Spec => [](format \in Linked => LinkedInv)
<1>1. Init => (format \in Linked => LinkedInv)
  BY LinkedInit
<1>2. (format \in Linked => LinkedInv) /\ [Next]_vars => (format \in Linked => LinkedInv)'
  <2> SUFFICES ASSUME format \in Linked => LinkedInv, [Next]_vars, format' \in Linked
               PROVE  LinkedInv'
    OBVIOUS
  <2>1. format \in Linked
    BY SameFormat
  <2> QED BY <2>1, LinkedNext
<1> QED BY <1>1, <1>2, PTL DEF Spec

\* Every variable keeps its type, and a card's own image is in the bundle only
\* while no save is, so that no edit is lost to it.
THEOREM LinkedTypes == Spec => [](format \in Linked => TypeOK)
<1>1. LinkedInv => TypeOK
  <2> SUFFICES ASSUME LinkedInv PROVE TypeOK
    OBVIOUS
  <2>1. format \in Linked \cap Formats /\ CardTyped(format, disk) /\ reads = Parsed(format, disk)
    BY DEF LinkedInv, DiskInv
  <2>2. reads.ok \in BOOLEAN
    BY <2>1, TypedReads
  <2>3. AreaOf(disk) = "own"
    BY <2>1, OwnArea
  <2>4. area \in {"own", None}
    BY DEF LinkedInv, ToolInv
  <2>5. held \in Seq(SavesOf(format)) /\ (kept # <<>> => kept = <<disk>> /\ held = <<>>)
    BY DEF LinkedInv, ToolInv, Savable
  <2>6. ASSUME NEW i \in DOMAIN held PROVE held[i].system = format
    <3>1. held[i] \in SavesOf(format)
      BY <2>5
    <3>2. format = "n64" \/ format = "vmu" \/ format = "neogeo"
      BY <2>1 DEF Linked
    <3> QED BY <3>1, <3>2 DEF SavesOf
  <2>7. kept # <<>> => Len(kept) = 1 /\ held = <<>>
    BY <2>5
  <2> QED BY <2>1, <2>2, <2>3, <2>4, <2>6, <2>7 DEF LinkedInv, TypeOK
<1> QED BY <1>1, LinkedStays, PTL

\* Whatever a console saved and deleted, in whatever blocks, the tool reads it,
\* and can write it all anew; and whatever the tool wrote, and was edited and
\* written again, still reads and can still be written.
THEOREM LinkedIsWritable == Spec => [](format \in Linked /\ Sure => UndamagedIsWritable)
<1>1. LinkedInv => (Sure => UndamagedIsWritable)
  <2> SUFFICES ASSUME LinkedInv, Sure, pc = "closed", damage = 0
               PROVE  LET rebuilt == write(reads.saves, AreaOf(disk))
                      IN reads.ok /\ rebuilt.ok /\ read(rebuilt.card) = reads
    BY DEF UndamagedIsWritable
  <2>1. format \in Linked \cap Formats /\ CardWhole(format, disk) /\ reads = Parsed(format, disk)
    BY DEF LinkedInv, DiskInv
  <2>2. /\ reads = [ok |-> TRUE, saves |-> reads.saves]
        /\ Returns(format, reads.saves) /\ FitsOn(format, reads.saves)
    BY <2>1, WholeReads
  <2>3. AreaOf(disk) = "own"
    BY <2>1, WholeIsPlain, PlainIsTyped, OwnArea
  <2>4. write(reads.saves, AreaOf(disk)) = Built(format, reads.saves)
    BY <2>1, <2>3, Alike
  <2>5. Built(format, reads.saves).ok = TRUE
    BY <2>1, <2>2, BuiltFits
  <2>6. Parsed(format, Built(format, reads.saves).card) = [ok |-> TRUE, saves |-> reads.saves]
    BY <2>1, <2>2, BuiltWhole
  <2>7. read(Built(format, reads.saves).card) = reads
    BY <2>1, <2>2, <2>6, Alike
  <2>8. reads.ok = TRUE
    BY <2>2
  <2> QED BY <2>4, <2>5, <2>7, <2>8
<1> QED BY <1>1, LinkedStays, PTL

\* No one bad link of a Controller Pak's index that could be no link loses a
\* note or changes one, whoever wrote the pak and whatever notes are on it.
THEOREM BackupAlwaysStandsIn == Spec => []BackupStandsIn
<1>1. (format \in Linked => LinkedInv) => BackupStandsIn
  <2> SUFFICES ASSUME format \in Linked => LinkedInv, format = "n64", damage = 0,
                      NEW copy \in 1 .. 2, NEW page \in 1 .. Sizes["n64"]
               PROVE  N64!parse([disk EXCEPT !.index[copy][page] = 0]) = reads
    BY DEF BackupStandsIn
  <2>1. LinkedInv
    BY DEF Linked
  <2>2. N64Plain(disk) /\ reads = N64!parse(disk) /\ "n64" \in Formats
    BY <2>1 DEF LinkedInv, DiskInv, CardPlain, Parsed
  <2> QED BY <2>2, N64Backup DEF Pages
<1> QED BY <1>1, LinkedStays, PTL

\* What a tool writes to a VMU has its one mini-game in one piece from the
\* first block, and what a console saves and deletes beside it leaves it there.
THEOREM GamesStayInPlace == Spec => GamesRunInPlace
<1>1. (format \in Linked => LinkedInv) /\ [Next]_vars =>
        (format = "vmu" /\ damage' = 0 =>
           /\ pc = "editing" /\ disk' # disk => Vmu!RunsInPlace(disk')
           /\ pc = "closed" /\ (\E s \in 1 .. MAX : Vmu!GamesOf(disk) \subseteq {s}) =>
                (Vmu!RunsInPlace(disk) => Vmu!RunsInPlace(disk')))
  <2> SUFFICES ASSUME LinkedInv, [Next]_vars, format = "vmu", damage' = 0
               PROVE  /\ pc = "editing" /\ disk' # disk => Vmu!RunsInPlace(disk')
                      /\ pc = "closed" => InPlace("vmu", disk, disk')
    BY DEF Linked, InPlace, StaysInPlace
  <2>0. "vmu" \in Linked \cap Formats /\ damage \in Nat /\ (damage = 0 => CardPlain("vmu", disk))
    BY BoundsAssumption DEF LinkedInv, DiskInv
  <2>s. disk' = disk => InPlace("vmu", disk, disk')
    BY DEF InPlace, StaysInPlace
  <2>1. CASE ConsoleSave
    <3>1. pc = "closed" /\ damage = 0
      BY <2>1 DEF ConsoleSave, Idle
    <3>2. PICK game \in Games : game \in SavesOf("vmu") /\ disk' \in SavedOn("vmu", disk, game)
      BY <2>1, LinkedSave
    <3> QED BY <2>0, <3>1, <3>2, SavedPlain
  <2>2. CASE ConsoleDelete
    <3>1. pc = "closed" /\ damage = 0
      BY <2>2 DEF ConsoleDelete, Idle
    <3>2. disk' \in DeletedOn("vmu", disk)
      BY <2>2, LinkedDelete
    <3> QED BY <2>0, <3>1, <3>2, DeletedPlain
  <2>3. CASE Damaged
    <3>1. damage' = damage + 1
      BY <2>3 DEF Damaged
    <3> QED BY <2>0, <3>1
  <2>4. CASE Write
    <3>1. pc = "editing" /\ pc # "closed"
      BY <2>4 DEF Write
    <3>2. CASE disk' = disk
      BY <3>1, <3>2
    <3>3. CASE disk' # disk
      <4>1. ReadsBack(Rebuilt) /\ disk' = Rebuilt.card
        BY <2>4, <3>3 DEF Write
      <4>2. kept = <<>>
        BY <3>1, <3>3, <4>1, WriteIs
      <4>3. FitsOn("vmu", held) /\ disk' = Built("vmu", held).card
        BY <3>1, <4>1, <4>2, WriteIs
      <4>4. Savable("vmu", held)
        BY DEF LinkedInv, ToolInv
      <4> QED BY <2>0, <3>1, <4>3, <4>4, BuiltPlain
    <3> QED BY <3>2, <3>3
  <2>5. CASE Open \/ RemoveSave \/ AddSave \/ Resume \/ Close \/ UNCHANGED vars
    <3>1. disk' = disk
      BY <2>5 DEF Open, RemoveSave, AddSave, Edited, Resume, Close, vars
    <3> QED BY <2>s, <3>1
  <2> QED BY <2>1, <2>2, <2>3, <2>4, <2>5 DEF Next, Console, Tool
<1> QED BY <1>1, LinkedStays, PTL DEF Spec, GamesRunInPlace

-----------------------------------------------------------------------------
(* A card of the three formats is a CardContents.                          *)

\* A list with a save more, as CardContents has it.
LEMMA OneMoreIs ==
  ASSUME NEW S, NEW more \in Seq(S), NEW fewer \in Seq(S), NEW save, OneMore(more, fewer, save)
  PROVE  /\ Len(more) = Len(fewer) + 1 /\ more # fewer
         /\ \E i \in DOMAIN more : more[i] = save /\ fewer = Promise!Without(more, i)
<1>1. PICK i \in Nat : Inserted(more, fewer, save, i)
  BY DEF OneMore
<1>2. /\ i \in 1 .. Len(more) /\ Len(more) = Len(fewer) + 1 /\ more[i] = save
      /\ \A j \in 1 .. Len(fewer) : fewer[j] = IF j < i THEN more[j] ELSE more[j + 1]
  BY <1>1 DEF Inserted
<1>3. /\ Len(fewer) \in Nat /\ fewer = [j \in 1 .. Len(fewer) |-> fewer[j]]
      /\ i \in DOMAIN more
  BY <1>2
<1>4. Len(more) - 1 = Len(fewer) /\ Len(more) # Len(fewer)
  <2> DEFINE m == Len(more)
             n == Len(fewer)
  <2>1. n \in Nat /\ m = n + 1
    BY <1>2, <1>3
  <2> HIDE DEF m, n
  <2>2. m - 1 = n /\ m # n
    BY <2>1
  <2> QED BY <2>2 DEF m, n
<1>5. fewer = [j \in 1 .. Len(more) - 1 |-> IF j < i THEN more[j] ELSE more[j + 1]]
  BY <1>2, <1>3, <1>4
<1>6. fewer = Promise!Without(more, i)
  BY <1>5 DEF Promise!Without
<1> QED BY <1>2, <1>3, <1>4, <1>6

\* What CardContents sees of a card.
LEMMA SeenIs ==
  ASSUME LinkedInv
  PROVE  /\ AreaOf(disk) = "own" /\ (IF pc = "closed" THEN AreaOf(disk) ELSE area) = "own"
         /\ Holds \in Seq(SavesOf(format)) \cup {Unreadable}
         /\ Holds # Unreadable => reads.ok
         /\ reads.ok => Holds = reads.saves /\ Holds \in Seq(SavesOf(format)) /\ Holds # Unreadable
<1>1. format \in Linked \cap Formats /\ CardTyped(format, disk) /\ reads = Parsed(format, disk)
  BY DEF LinkedInv, DiskInv
<1>2. AreaOf(disk) = "own"
  BY <1>1, OwnArea
<1>3. area = IF pc = "closed" THEN None ELSE "own"
  BY DEF LinkedInv, ToolInv
<1>4. reads.ok \in BOOLEAN /\ (reads.ok => reads.saves \in Seq(SavesOf(format)))
  BY <1>1, TypedReads DEF Returns, Savable
<1>5. Unreadable \notin Seq(SavesOf(format))
  BY <1>1, UnreadableAssumption DEF Linked
<1> QED BY <1>2, <1>3, <1>4, <1>5 DEF Holds

LEMMA SeenNext ==
  ASSUME LinkedInv', format' = format
  PROVE  /\ AreaOf(disk)' = "own" /\ (IF pc = "closed" THEN AreaOf(disk) ELSE area)' = "own"
         /\ reads'.ok \in BOOLEAN
         /\ Holds' = IF reads'.ok THEN reads'.saves ELSE Unreadable
         /\ reads'.ok => Holds' \in Seq(SavesOf(format)) /\ Holds' # Unreadable
<1>1. format \in Linked \cap Formats /\ CardTyped(format, disk') /\ reads' = Parsed(format, disk')
  BY DEF LinkedInv, DiskInv
<1>2. AreaOf(disk') = "own"
  BY <1>1, OwnArea
<1>3. AreaOf(disk)' = AreaOf(disk')
  BY DEF AreaOf
<1>4. area' = IF pc' = "closed" THEN None ELSE "own"
  BY DEF LinkedInv, ToolInv
<1>5. reads'.ok \in BOOLEAN /\ (reads'.ok => reads'.saves \in Seq(SavesOf(format)))
  BY <1>1, TypedReads DEF Returns, Savable
<1>6. Unreadable \notin Seq(SavesOf(format))
  BY <1>1, UnreadableAssumption DEF Linked
<1>7. Holds' = IF reads'.ok THEN reads'.saves ELSE Unreadable
  BY DEF Holds
<1> QED BY <1>2, <1>3, <1>4, <1>5, <1>6, <1>7

\* A console's step on a card that reads before and after.
LEMMA ConsoleIsConsole ==
  ASSUME LinkedInv, LinkedInv', format' = format, pc = "closed", UNCHANGED <<damage, toolVars>>,
         reads.ok, reads'.ok,
         \/ \E game \in Games : OneMore(reads'.saves, reads.saves, game)
         \/ OneFewer(reads.saves, reads'.saves)
  PROVE  Promise!Console
<1>1. /\ AreaOf(disk) = "own" /\ AreaOf(disk)' = "own"
      /\ (IF pc = "closed" THEN AreaOf(disk) ELSE area) = "own"
      /\ (IF pc = "closed" THEN AreaOf(disk) ELSE area)' = "own"
      /\ Holds = reads.saves /\ Holds' = reads'.saves
      /\ Holds \in Seq(SavesOf(format)) /\ Holds' \in Seq(SavesOf(format))
      /\ Unreadable \notin {Holds, Holds'}
  BY SeenIs, SeenNext
<1>2. held' = held /\ pc' = pc /\ damage' = damage
  BY DEF toolVars
<1>3. CASE \E game \in Games : OneMore(reads'.saves, reads.saves, game)
  <2>1. PICK game \in Games : OneMore(Holds', Holds, game)
    BY <1>1, <1>3
  <2>2. /\ Len(Holds') = Len(Holds) + 1 /\ Holds' # Holds
        /\ \E i \in DOMAIN Holds' : Holds'[i] = game /\ Holds = Promise!Without(Holds', i)
    BY <1>1, <2>1, OneMoreIs
  <2> QED BY <1>1, <1>2, <2>2 DEF Promise!Console
<1>4. CASE OneFewer(reads.saves, reads'.saves)
  <2>1. PICK save : OneMore(Holds, Holds', save)
    BY <1>1, <1>4 DEF OneFewer
  <2>2. /\ Holds' # Holds
        /\ \E i \in DOMAIN Holds : Holds' = Promise!Without(Holds, i)
    BY <1>1, <2>1, OneMoreIs
  <2> QED BY <1>1, <1>2, <2>2 DEF Promise!Console
<1> QED BY <1>3, <1>4

LEMMA LinkedIsContents ==
  ASSUME LinkedInv, LinkedInv', Sure, [Next]_vars
  PROVE  Promise!Next \/ UNCHANGED Promise!vars
<1>0. format' = format /\ format \in Linked \cap Formats /\ damage \in Nat
  BY SameFormat, BoundsAssumption DEF LinkedInv
<1>1. /\ AreaOf(disk) = "own" /\ AreaOf(disk)' = "own"
      /\ (IF pc = "closed" THEN AreaOf(disk) ELSE area) = "own"
      /\ (IF pc = "closed" THEN AreaOf(disk) ELSE area)' = "own"
  BY <1>0, SeenIs, SeenNext
<1>2. /\ reads = Parsed(format, disk) /\ reads' = Parsed(format, disk')
      /\ damage = 0 => CardWhole(format, disk)
      /\ damage' = 0 => CardWhole(format, disk')
  BY <1>0 DEF LinkedInv, DiskInv, Sure
<1>3. /\ damage = 0 => reads.ok
      /\ damage' = 0 => reads'.ok
  <2>1. damage = 0 => reads.ok = TRUE
    BY <1>0, <1>2, WholeReads
  <2>2. damage' = 0 => reads'.ok = TRUE
    BY <1>0, <1>2, WholeReads
  <2> QED BY <2>1, <2>2
<1>4. CASE ConsoleSave
  <2>1. pc = "closed" /\ damage = 0 /\ UNCHANGED <<damage, toolVars>>
    BY <1>4 DEF ConsoleSave, Idle
  <2>2. PICK game \in Games : game \in SavesOf(format) /\ disk' \in SavedOn(format, disk, game)
    BY <1>4, LinkedSave
  <2>3. OneMore(reads'.saves, reads.saves, game)
    BY <1>0, <1>2, <2>1, <2>2, SavedWhole
  <2>4. Promise!Console
    BY <1>0, <1>3, <2>1, <2>3, ConsoleIsConsole
  <2> QED BY <2>4 DEF Promise!Next
<1>5. CASE ConsoleDelete
  <2>1. pc = "closed" /\ damage = 0 /\ UNCHANGED <<damage, toolVars>>
    BY <1>5 DEF ConsoleDelete, Idle
  <2>2. disk' \in DeletedOn(format, disk)
    BY <1>5, LinkedDelete
  <2>3. OneFewer(reads.saves, reads'.saves)
    BY <1>0, <1>2, <2>1, <2>2, DeletedWhole
  <2>4. Promise!Console
    BY <1>0, <1>3, <2>1, <2>3, ConsoleIsConsole
  <2> QED BY <2>4 DEF Promise!Next
<1>6. CASE Damaged
  <2>1. pc = "closed" /\ damage' = damage + 1 /\ UNCHANGED toolVars
    BY <1>6 DEF Damaged
  <2>2. damage' \in {damage, damage + 1} /\ damage' > 0
    BY <1>0, <2>1
  <2>3. Promise!Damage
    BY <1>1, <2>1, <2>2 DEF Promise!Damage, toolVars
  <2> QED BY <2>3 DEF Promise!Next
<1>7. CASE Open
  <2>1. /\ pc = "closed" /\ reads.ok /\ held' = reads.saves /\ pc' = "editing"
        /\ UNCHANGED <<format, disk, reads, damage>>
    BY <1>7 DEF Open
  <2>2. Holds = reads.saves /\ Holds # Unreadable /\ Holds' = Holds
    BY <2>1, SeenIs DEF Holds
  <2>3. Promise!Open
    BY <1>1, <2>1, <2>2 DEF Promise!Open
  <2> QED BY <2>3 DEF Promise!Next
<1>8. ASSUME NEW saves, Edited(saves)
      PROVE  /\ pc = "editing" /\ pc' = pc /\ held' = saves /\ Holds' = Holds /\ damage' = damage
  BY <1>8 DEF Edited, Holds
<1>9. CASE RemoveSave
  <2>1. PICK i \in DOMAIN held : Edited(RemoveAt(held, i))
    BY <1>9 DEF RemoveSave
  <2>2. held \in Seq(SavesOf(format))
    BY DEF LinkedInv, ToolInv, Savable
  <2> DEFINE r == RemoveAt(held, i)
  <2>3. /\ r \in Seq(SavesOf(format)) /\ Len(r) = Len(held) - 1
        /\ \A j \in 1 .. Len(held) - 1 : r[j] = IF j < i THEN held[j] ELSE held[j + 1]
    BY <2>2, FewerReturn
  <2>4. held' = r
    BY <1>8, <2>1
  <2> HIDE DEF r
  <2>5. r = [j \in 1 .. Len(r) |-> r[j]]
    BY <2>3
  <2>6. r = [j \in 1 .. Len(held) - 1 |-> IF j < i THEN held[j] ELSE held[j + 1]]
    BY <2>3, <2>5
  <2>7. r = Promise!Without(held, i)
    BY <2>6 DEF Promise!Without
  <2>8. Promise!Remove
    BY <1>1, <1>8, <2>1, <2>4, <2>7 DEF Promise!Remove
  <2> QED BY <2>8 DEF Promise!Next
<1>10. CASE AddSave
  <2>1. PICK game \in Games : Edited(Append(held, game))
    BY <1>10 DEF AddSave
  <2>2. pc = "editing" /\ pc' = pc /\ held' = Append(held, game) /\ Holds' = Holds /\ damage' = damage
    BY <1>8, <2>1
  <2>3. Promise!Add
    BY <1>1, <2>2 DEF Promise!Add
  <2> QED BY <2>3 DEF Promise!Next
<1>11. CASE Write
  <2>1. pc = "editing" /\ damage' = damage
    BY <1>11 DEF Write
  <2>2. Savable(format, held) /\ Returns(format, held)
    BY DEF LinkedInv, ToolInv
  <2>3. CardFits(held) <=> FitsOn(format, held)
    BY <1>0, <2>2, FitsAlike
  <2>4. kept # <<>> => CardFits(held) /\ ReadsBack(Rebuilt)
    <3> SUFFICES ASSUME kept # <<>> PROVE CardFits(held) /\ ReadsBack(Rebuilt)
      OBVIOUS
    <3>1. held = <<>> /\ ReadsBack(Rebuilt)
      BY <2>1, WriteIs
    <3> QED BY <3>1 DEF CardFits
  <2>5. ReadsBack(Rebuilt) <=> CardFits(held)
    BY <2>1, <2>3, <2>4, WriteIs
  <2>6. CASE ReadsBack(Rebuilt)
    <3>1. disk' = Rebuilt.card /\ PutAway
      BY <1>11, <2>6 DEF Write
    <3>2. Parsed(format, disk').ok = TRUE /\ Parsed(format, disk').saves = held
      <4>1. CASE kept # <<>>
        <5>1. disk' = disk /\ held = <<>> /\ reads.ok /\ reads.saves = <<>>
          BY <2>1, <3>1, <4>1, WriteIs DEF LinkedInv, ToolInv
        <5>2. reads.ok \in BOOLEAN
          BY <1>0, TypedReads DEF LinkedInv, DiskInv
        <5> QED BY <1>2, <5>1, <5>2
      <4>2. CASE kept = <<>>
        <5>1. disk' = Built(format, held).card /\ FitsOn(format, held)
          BY <2>1, <2>6, <3>1, <4>2, WriteIs
        <5>2. Parsed(format, disk') = [ok |-> TRUE, saves |-> held]
          BY <1>0, <2>2, <5>1, BuiltWhole
        <5> QED BY <5>2
      <4> QED BY <4>1, <4>2
    <3>3. Holds' = held
      BY <1>2, <3>2 DEF Holds
    <3>4. Promise!PutAway
      BY <1>1, <3>1 DEF PutAway, Promise!PutAway
    <3>5. Promise!Write
      BY <1>1, <2>1, <2>5, <2>6, <3>3, <3>4 DEF Promise!Write, ListedOrder
    <3> QED BY <3>5 DEF Promise!Next
  <2>7. CASE ~ReadsBack(Rebuilt)
    <3>1. pc' = "refused" /\ UNCHANGED <<disk, reads, held, kept, area>>
      BY <1>11, <2>7 DEF Write
    <3>2. Holds' = Holds
      BY <3>1 DEF Holds
    <3>3. Promise!Refuse
      BY <1>1, <2>1, <2>5, <2>7, <3>1, <3>2 DEF Promise!Refuse
    <3> QED BY <3>3 DEF Promise!Next
  <2> QED BY <2>6, <2>7
<1>12. CASE Resume
  <2>1. /\ pc = "refused" /\ pc' = "editing" /\ held' = held /\ reads' = reads /\ damage' = damage
    BY <1>12 DEF Resume
  <2>2. Holds' = Holds
    BY <2>1 DEF Holds
  <2>3. Promise!Resume
    BY <1>1, <2>1, <2>2 DEF Promise!Resume
  <2> QED BY <2>3 DEF Promise!Next
<1>13. CASE Close
  <2>1. pc = "editing" /\ PutAway /\ reads' = reads /\ damage' = damage
    BY <1>13 DEF Close
  <2>2. Holds' = Holds
    BY <2>1 DEF Holds
  <2>3. Promise!PutAway
    BY <1>1, <2>1 DEF PutAway, Promise!PutAway
  <2>4. Promise!Close
    BY <1>1, <2>1, <2>2, <2>3 DEF Promise!Close
  <2> QED BY <2>4 DEF Promise!Next
<1>14. CASE UNCHANGED vars
  <2>1. Holds' = Holds
    BY <1>14 DEF Holds, vars
  <2> QED BY <1>1, <1>14, <2>1 DEF Promise!vars, vars, toolVars
<1> QED BY <1>4, <1>5, <1>6, <1>7, <1>9, <1>10, <1>11, <1>12, <1>13, <1>14 DEF Next, Console, Tool

LEMMA BlankIsContents ==
  ASSUME Init, format \in Linked
  PROVE  Promise!Init
<1>1. LinkedInv /\ pc = "closed" /\ held = <<>> /\ damage = 0
  BY LinkedInit DEF Init
<1>2. AreaOf(disk) = "own"
  BY <1>1, SeenIs
<1>3. format \in Linked \cap Formats /\ disk = BlankOf(format) /\ reads = Parsed(format, disk)
  BY Alike DEF Init
<1>4. Returns(format, <<>>) /\ FitsOn(format, <<>>) /\ disk = Built(format, <<>>).card
  BY <1>3, BlankIs
<1>5. reads = [ok |-> TRUE, saves |-> <<>>]
  BY <1>3, <1>4, BuiltWhole
<1>6. Holds = <<>>
  BY <1>5 DEF Holds
<1> QED BY <1>1, <1>2, <1>6 DEF Promise!Init

\* Whatever console wrote the card, and whatever blocks it put things in, the
\* tool reads the saves there are, every one whole; what it writes is the list
\* it was given, with the area it came with, or nothing, where that list does
\* not fit; and what can be read of a damaged card is kept as whole.
THEOREM LinkedKeepsItsPromise == Spec /\ format \in Linked /\ Sure => Promise!Spec
<1>1. Init /\ format \in Linked => Promise!Init
  BY BlankIsContents
<1>2. (format \in Linked => LinkedInv) /\ (format \in Linked => LinkedInv)'
        /\ format \in Linked /\ Sure /\ [Next]_vars
        => [Promise!Next]_(Promise!vars)
  <2> SUFFICES ASSUME LinkedInv, (format \in Linked => LinkedInv)', format \in Linked, Sure, [Next]_vars
               PROVE  Promise!Next \/ UNCHANGED Promise!vars
    OBVIOUS
  <2>1. LinkedInv'
    BY LinkedNext
  <2> QED BY <2>1, LinkedIsContents
<1>3. format \in Linked /\ Sure /\ [Next]_vars => (format \in Linked /\ Sure)'
  BY SameFormat DEF Sure
<1> QED BY <1>1, <1>2, <1>3, LinkedStays, PTL DEF Spec, Promise!Spec

-----------------------------------------------------------------------------
(* The Saturn volume: whatever became of it, what reads of it can be laid  *)
(* out anew.                                                               *)

\* Its module's lists are those above.
LEMMA SatLists ==
  /\ Saturn!ENTRY = 2
  /\ \A n, S : Saturn!InOrder(n, S) = InOrder(n, S)
  /\ \A l : Saturn!Total(l) = Total(l) /\ Saturn!Joined(l) = Joined(l)
  /\ \A l, k : Saturn!StartsAt(l, k) = StartsAt(l, k)
<1>1. Saturn!ENTRY = 2
  BY DEF Saturn!ENTRY
<1>2. ASSUME NEW n, NEW S PROVE Saturn!InOrder(n, S) = InOrder(n, S)
  BY DEF Saturn!InOrder, InOrder, Saturn!Picked, Picked
<1>3. ASSUME NEW l PROVE Saturn!Total(l) = Total(l) /\ Saturn!Joined(l) = Joined(l)
  BY DEF Saturn!Total, Total, Saturn!Summed, Summed, Saturn!Joined, Joined, Saturn!Laced, Laced
<1>4. ASSUME NEW l, NEW k PROVE Saturn!StartsAt(l, k) = StartsAt(l, k)
  BY DEF Saturn!StartsAt, StartsAt, Saturn!Summed, Summed
<1> QED BY <1>1, <1>2, <1>3, <1>4

\* A volume as it can be, whatever became of it.
SatBlocks == Sizes["saturn"]
SatContent == [1 .. CONTENT -> Nat]
SatTyped(volume) ==
    volume \in [area : {"own"}, tag : [1 .. SatBlocks -> BOOLEAN], content : [1 .. SatBlocks -> SatContent]]

LEMMA SatBlocksAre == ASSUME "saturn" \in Formats
                      PROVE /\ SatBlocks \in Nat /\ SatBlocks > 0 /\ Sizes["saturn"] = SatBlocks
                            /\ CONTENT \in Nat /\ CONTENT >= 3
BY SizesAssumption DEF SatBlocks

\* What is in blocks, past an entry.
LEMMA SatStream ==
  ASSUME NEW volume, SatTyped(volume), "saturn" \in Formats,
         NEW blocks \in Seq(1 .. SatBlocks), blocks # <<>>
  PROVE  /\ Saturn!Stream(volume, blocks) \in Seq(Nat)
         /\ Len(Saturn!Stream(volume, blocks)) = Len(blocks) * CONTENT - 2
         /\ Len(blocks) * CONTENT \in Nat /\ Len(blocks) * CONTENT >= 3 * Len(blocks)
<1> DEFINE parts == [i \in DOMAIN blocks |-> volume.content[blocks[i]]]
           L == Len(blocks)
<1>a. L \in Nat /\ DOMAIN blocks = 1 .. L /\ \A i \in 1 .. L : blocks[i] \in 1 .. SatBlocks
  BY ListHas
<1>b. L # 0
  OBVIOUS
<1>1. L \in Nat /\ L > 0 /\ DOMAIN blocks = 1 .. L /\ \A i \in 1 .. L : blocks[i] \in 1 .. SatBlocks
  BY <1>a, <1>b
<1>2. CONTENT \in Nat /\ CONTENT >= 3
  BY SatBlocksAre
<1>3. \A i \in 1 .. L : volume.content[blocks[i]] \in SatContent
  BY <1>1 DEF SatTyped
<1>4. \A x \in SatContent : x \in Seq(Nat) /\ Len(x) = CONTENT
  BY <1>2, ListOf DEF SatContent
<1>5. parts \in [1 .. L -> Seq(Nat)]
  BY <1>1, <1>3, <1>4
<1>6. \A i \in 1 .. L : Len(parts[i]) = CONTENT
  <2>1. \A i \in 1 .. L : parts[i] = volume.content[blocks[i]]
    BY <1>1
  <2> HIDE DEF parts, L
  <2> TAKE i \in 1 .. L
  <2>2. volume.content[blocks[i]] \in SatContent /\ parts[i] = volume.content[blocks[i]]
    BY <2>1, <1>3
  <2>3. \A x \in SatContent : Len(x) = CONTENT
    BY <1>4
  <2>4. Len(volume.content[blocks[i]]) = CONTENT
    BY <2>2, <2>3, Zenon
  <2> QED BY <2>2, <2>4, Zenon
<1>7. Saturn!Stream(volume, blocks) = SubSeq(Joined(parts), 3, L * CONTENT)
  <2>1. Saturn!Stream(volume, blocks) = SubSeq(Saturn!Joined(parts), Saturn!ENTRY + 1, L * CONTENT)
    BY DEF Saturn!Stream
  <2> HIDE DEF parts, L
  <2>2. Saturn!Joined(parts) = Joined(parts) /\ Saturn!ENTRY + 1 = 3
    BY SatLists
  <2> QED BY <2>1, <2>2
<1> HIDE DEF parts
<1>8. parts \in Seq(Seq(Nat)) /\ Len(parts) = L
  BY <1>1, <1>5, ListOf
<1> DEFINE lengths == LengthsOf(parts)
           all == Joined(parts)
           M == L * CONTENT
<1>9. lengths \in Seq(Nat) /\ Len(lengths) = L /\ all \in Seq(Nat) /\ Len(all) = Total(lengths)
  BY <1>8, LacedAt
<1>10. \A i \in 1 .. L : lengths[i] = CONTENT
  BY <1>6, <1>8 DEF LengthsOf
<1> HIDE DEF lengths
<1>11. Total(lengths) = L * CONTENT
  BY <1>2, <1>9, <1>10, TotalSame
<1>12. \A l, c \in Nat : l > 0 /\ c >= 3 => l * c \in Nat /\ l * c >= 3 * l
  OBVIOUS
<1>13. M \in Nat /\ M >= 3 * L
  BY <1>1, <1>2, <1>12
<1>14. Len(all) = M
  BY <1>9, <1>11
<1> HIDE DEF all, M, L
<1>15. SubSeq(all, 3, M) \in Seq(Nat) /\ Len(SubSeq(all, 3, M)) = M - 2
  BY <1>1, <1>9, <1>13, <1>14
<1> QED BY <1>7, <1>13, <1>15 DEF all, M, L

\* What is added to a list of blocks at a step, and the list at each.
SatStep(volume, before, n) ==
    IF Len(before) = n /\ Saturn!Stream(volume, before)[n] \in 1 .. SatBlocks
    THEN Append(before, Saturn!Stream(volume, before)[n]) ELSE before

\* The blocks of a save are of the volume's, the first among them.
LEMMA SatListed ==
  ASSUME NEW volume, SatTyped(volume), "saturn" \in Formats, NEW first \in 1 .. SatBlocks
  PROVE  /\ Saturn!Listed(volume, first) \in Seq(1 .. SatBlocks)
         /\ Saturn!Listed(volume, first) # <<>>
<1> DEFINE N == SatBlocks
           T == {s \in Seq(1 .. N) : s # <<>>}
           step == [x \in T \X (1 .. N) |-> SatStep(volume, x[1], x[2])]
           base == <<first>>
           Body(f) == [n \in 0 .. N |-> IF n = 0 THEN base ELSE SatStep(volume, f[n - 1], n)]
           g == CHOOSE list : list = Body(list)
<1>1. N \in Nat /\ base \in T
  BY SatBlocksAre
<1>a. ASSUME NEW x \in T, NEW n \in 1 .. N PROVE SatStep(volume, x, n) \in T
  <2>1. ASSUME NEW next \in 1 .. N PROVE Append(x, next) \in T
    OBVIOUS
  <2> HIDE DEF T
  <2> QED BY <2>1 DEF SatStep
<1>2. /\ step \in [T \X (1 .. N) -> T]
      /\ \A x \in T, n \in 1 .. N : step[<<x, n>>] = SatStep(volume, x, n)
  <2> HIDE DEF T
  <2> QED BY <1>a
<1> HIDE DEF step
<1>3. PICK f \in [0 .. N -> T] : Steps(f, base, N, step)
  <2>1. step \in [T \X (1 .. N) -> T]
    BY <1>2
  <2> HIDE DEF T, base
  <2> QED BY <1>1, <2>1, Recursion, Zenon
<1>4. f = Body(f)
  <2> HIDE DEF T, base
  <2>1. ASSUME NEW n \in 0 .. N, n # 0
        PROVE  f[n] = SatStep(volume, f[n - 1], n)
    <3>1. n \in 1 .. N /\ n - 1 \in 0 .. N
      BY <2>1, <1>1
    <3>2. f[n - 1] \in T
      BY <3>1
    <3> QED BY <3>1, <3>2, <1>2, <1>3 DEF Steps
  <2> QED BY <2>1, <1>3 DEF Steps
<1>5. g = Body(g)
  <2> HIDE DEF Body
  <2> QED BY <1>4
<1>6. Saturn!Listed(volume, first) = g[N]
  BY DEF Saturn!Listed, SatStep, SatBlocks
<1> HIDE DEF g
<1>7. g[0] = base /\ \A n \in 1 .. N : g[n] = SatStep(volume, g[n - 1], n)
  <2> HIDE DEF base
  <2>2. g[0] = base
    BY <1>5, <1>1
  <2>3. ASSUME NEW n \in 1 .. N
        PROVE  g[n] = SatStep(volume, g[n - 1], n)
    <3>1. n \in 0 .. N /\ n # 0
      BY <1>1
    <3> QED BY <3>1, <1>5
  <2> QED BY <2>2, <2>3
<1>8. \A n \in 0 .. N : g[n] \in T
  <2> HIDE DEF T, base
  <2>1. \A n \in 1 .. N : g[n - 1] \in T => g[n] \in T
    BY <1>7, <1>a
  <2> QED BY <2>1, <1>1, <1>7, StepsStay
<1>9. g[N] \in T
  <2> HIDE DEF T
  <2> QED BY <1>1, <1>8
<1> QED BY <1>6, <1>9

\* As many blocks as a save of n bytes needs, and no more than any run with
\* room for it.
LEMMA SatNeeds ==
  ASSUME "saturn" \in Formats, NEW n \in Nat
  PROVE  /\ Saturn!blocks_for(n) \in Nat /\ Saturn!blocks_for(n) > 0
         /\ \A l \in Nat : l > 0 /\ l * CONTENT >= 2 + l + n => Saturn!blocks_for(n) <= l
<1> DEFINE most == 2 + n + 1
           D == {m \in 1 .. most : m * CONTENT >= 2 + m + n}
<1>1. CONTENT \in Nat /\ CONTENT >= 3
  BY SatBlocksAre
<1>2. Saturn!blocks_for(n) = CHOOSE x \in D : \A y \in D : x <= y
  BY SatLists DEF Saturn!blocks_for, Saturn!Min
<1>3. most \in Nat /\ most \in 1 .. most
  OBVIOUS
<1>4. \A m, c \in Nat : c >= 3 => m * c >= 3 * m
  OBVIOUS
<1>5. most * CONTENT >= 3 * most
  BY <1>1, <1>3, <1>4
<1>6. 3 * most >= 2 + most + n
  OBVIOUS
<1>7. most * CONTENT \in Nat
  BY <1>1
<1>8. most \in D
  <2> DEFINE room == most * CONTENT
  <2>1. room \in Nat /\ room >= 3 * most
    BY <1>5, <1>7
  <2> HIDE DEF room
  <2>2. room >= 2 + most + n
    BY <1>3, <1>6, <2>1
  <2> QED BY <1>3, <2>2 DEF room
<1>9. D \subseteq Nat /\ \A l \in D : l \in 1 .. most
  OBVIOUS
<1>10. PICK least \in D : \A d \in D : least <= d
  <2> HIDE DEF D
  <2> QED BY <1>8, <1>9, LeastNat
<1> DEFINE least0 == CHOOSE x \in D : \A y \in D : x <= y
<1>11. least0 \in D /\ \A y \in D : least0 <= y
  <2> HIDE DEF D
  <2> QED BY <1>10
<1>12. ASSUME NEW l \in Nat, l > 0, l * CONTENT >= 2 + l + n PROVE least0 <= l
  <2>1. CASE l \in 1 .. most
    <3>1. l \in D
      BY <1>12, <2>1
    <3> HIDE DEF D, least0
    <3> QED BY <3>1, <1>11
  <2>2. CASE l \notin 1 .. most
    <3> HIDE DEF D, least0
    <3>1. least0 \in 1 .. most
      BY <1>9, <1>11
    <3> QED BY <3>1, <2>2, <1>3, <1>12
  <2> QED BY <2>1, <2>2
<1>13. least0 \in Nat /\ least0 > 0
  <2> HIDE DEF D, least0
  <2>1. least0 \in 1 .. most
    BY <1>9, <1>11
  <2> QED BY <2>1, <1>3
<1> HIDE DEF D
<1>14. Saturn!blocks_for(n) = least0
  BY <1>2
<1> HIDE DEF least0
<1> QED BY <1>12, <1>13, <1>14

\* A save reads with no more bytes than its blocks have room for.
LEMMA SatReads ==
  ASSUME NEW volume, SatTyped(volume), "saturn" \in Formats, NEW first \in 1 .. SatBlocks,
         Saturn!read_save(volume, first).ok
  PROVE  LET got == Saturn!read_save(volume, first)
         IN /\ got.save \in SavesOf("saturn")
            /\ Len(got.blocks) \in Nat
            /\ Saturn!blocks_for(Len(got.save.data)) <= Len(got.blocks)
<1> DEFINE blocks == Saturn!Listed(volume, first)
           stream == Saturn!Stream(volume, blocks)
           L == Len(blocks)
           rest == SubSeq(stream, L + 1, Len(stream))
           name == volume.content[first][1]
           size == volume.content[first][2]
           data == SubSeq(rest, 1, Saturn!Min({size, Len(rest)}))
           got == Saturn!read_save(volume, first)
<1>1. /\ got.ok = (Saturn!IsInjective(blocks) /\ stream[L] = 0 /\ size <= Len(rest))
      /\ got.blocks = blocks
      /\ got.save = [system |-> "saturn", name |-> name, data |-> data]
  BY DEF Saturn!read_save
<1>2. blocks \in Seq(1 .. SatBlocks) /\ blocks # <<>>
  BY SatListed
<1>3. CONTENT \in Nat /\ CONTENT >= 3
  BY SatBlocksAre
<1>4. name \in Nat /\ size \in Nat
  <2>1. volume.content[first] \in SatContent
    BY DEF SatTyped
  <2>2. 1 \in 1 .. CONTENT /\ 2 \in 1 .. CONTENT
    BY <1>3
  <2> QED BY <2>1, <2>2 DEF SatContent
<1> HIDE DEF blocks, name, size
<1>5. size <= Len(rest)
  BY <1>1
<1>6. L \in Nat /\ L # 0
  <2>1. L # 0
    BY <1>2
  <2> QED BY <1>2, <2>1, ListHas
<1>7. /\ stream \in Seq(Nat) /\ Len(stream) = L * CONTENT - 2
      /\ L * CONTENT \in Nat /\ L * CONTENT >= 3 * L
  BY <1>2, SatStream
<1> DEFINE M == L * CONTENT
<1>8. Len(stream) = M - 2 /\ M \in Nat /\ M >= 3 * L
  BY <1>7
<1> HIDE DEF stream, L, M
<1>9. rest \in Seq(Nat) /\ Len(rest) = M - 2 - L
  <2> DEFINE from == L + 1
             end == M - 2
  <2>1. /\ from \in Nat /\ end \in Nat /\ 1 <= from /\ from <= end + 1
        /\ end - from + 1 = M - 2 - L
    BY <1>6, <1>8
  <2>2. end = Len(stream) /\ rest = SubSeq(stream, from, end)
    BY <1>8
  <2> HIDE DEF from, end, rest
  <2>3. end <= Len(stream)
    BY <2>1, <2>2
  <2>4. stream \in Seq(Nat)
    BY <1>7
  <2>5. end \in Nat
    BY <2>2, <2>4
  <2> HIDE DEF M
  <2>6. SubSeq(stream, from, end) \in Seq(Nat) /\ Len(SubSeq(stream, from, end)) = end - from + 1
    BY <2>1, <2>3, <2>4, <2>5, PartIs
  <2> QED BY <2>1, <2>2, <2>6, Zenon
<1> HIDE DEF rest
<1>10. Len(rest) \in Nat
  BY <1>9
<1>11. Saturn!Min({size, Len(rest)}) = size
  <2> DEFINE l == Len(rest)
             S == {size, l}
  <2> HIDE DEF l
  <2>1. size \in S /\ \A y \in S : size <= y
    BY <1>4, <1>5 DEF l
  <2>2. \A x \in S : (\A y \in S : x <= y) => x = size
    BY <1>4, <1>10, <2>1 DEF l
  <2>3. Saturn!Min(S) = CHOOSE x \in S : \A y \in S : x <= y
    BY DEF Saturn!Min
  <2> HIDE DEF S
  <2>4. Saturn!Min(S) = size
    BY <2>1, <2>2, <2>3
  <2> QED BY <2>4 DEF S, l
<1>12. data = SubSeq(rest, 1, size)
  BY <1>11
<1> HIDE DEF data
<1>13. data \in Seq(Nat) /\ Len(data) = size
  BY <1>4, <1>5, <1>9, <1>12
<1>14. got.save \in SavesOf("saturn")
  BY <1>1, <1>4, <1>13 DEF SavesOf
<1>15. got.save.data = data /\ Len(got.blocks) = L
  BY <1>1 DEF L
<1>16. M >= 2 + L + size
  BY <1>4, <1>5, <1>6, <1>8, <1>9
<1>17. L * CONTENT >= 2 + L + size
  BY <1>16 DEF M
<1>18. Saturn!blocks_for(size) <= L
  BY <1>4, <1>6, <1>17, SatNeeds
<1> QED BY <1>6, <1>13, <1>14, <1>15, <1>18

\* So if all the saves read, as many blocks as they need are there.
LEMMA SatParses ==
  ASSUME NEW volume, SatTyped(volume), "saturn" \in Formats
  PROVE  LET parsed == Saturn!parse(volume)
         IN /\ parsed.ok \in BOOLEAN
            /\ parsed.saves \in Seq(SavesOf("saturn"))
            /\ parsed.ok => Total(Saturn!Needed(parsed.saves)) <= SatBlocks
<1> DEFINE heads == Saturn!Heads(volume)
           got == [i \in DOMAIN heads |-> Saturn!read_save(volume, heads[i])]
           good == Saturn!Walk(got) /\ \A i \in DOMAIN got : got[i].ok
           parsed == Saturn!parse(volume)
           n == Len(heads)
<1>1. parsed = IF good THEN [ok |-> TRUE, saves |-> [i \in DOMAIN got |-> got[i].save]]
               ELSE [ok |-> FALSE, saves |-> <<>>]
  BY DEF Saturn!parse, Saturn!NotRead
<1>2. SatBlocks \in Nat /\ Sizes["saturn"] = SatBlocks
  BY SatBlocksAre
<1>3. heads \in Seq(1 .. SatBlocks)
  BY <1>2, SatLists, InOrderIs DEF Saturn!Heads, Ascends
<1>4. n \in Nat /\ DOMAIN heads = 1 .. n /\ \A i \in 1 .. n : heads[i] \in 1 .. SatBlocks
  BY <1>3, ListHas
<1> HIDE DEF heads, n
<1>5. DOMAIN got = 1 .. n /\ \A i \in 1 .. n : got[i] = Saturn!read_save(volume, heads[i])
  BY <1>4
<1>6. CASE ~good
  <2>1. parsed = [ok |-> FALSE, saves |-> <<>>]
    BY <1>1, <1>6
  <2> QED BY <2>1, ListOfNone
<1>7. CASE good
  <2> DEFINE saves == [i \in 1 .. n |-> got[i].save]
             needed == [k \in 1 .. n |-> Saturn!blocks_for(Len(saves[k].data))]
             listed == [i \in 1 .. n |-> Len(got[i].blocks)]
  <2>1. parsed = [ok |-> TRUE, saves |-> saves]
    BY <1>1, <1>5, <1>7
  <2>2. Total(listed) <= SatBlocks
    BY <1>2, <1>5, <1>7, SatLists DEF Saturn!Walk
  <2>3. \A i \in 1 .. n : got[i].ok
    BY <1>5, <1>7
  <2> HIDE DEF got
  <2>4. ASSUME NEW i \in 1 .. n
        PROVE  /\ got[i].save \in SavesOf("saturn") /\ Len(got[i].blocks) \in Nat
               /\ Saturn!blocks_for(Len(got[i].save.data)) <= Len(got[i].blocks)
    <3>1. heads[i] \in 1 .. SatBlocks /\ got[i] = Saturn!read_save(volume, heads[i]) /\ got[i].ok
      BY <1>4, <1>5, <2>3
    <3> QED BY <3>1, SatReads
  <2>5. saves \in Seq(SavesOf("saturn")) /\ Len(saves) = n
    <3>1. saves \in [1 .. n -> SavesOf("saturn")]
      BY <2>4
    <3> HIDE DEF saves
    <3> QED BY <1>4, <3>1, ListOf
  <2>6. ASSUME NEW i \in 1 .. n
        PROVE  /\ needed[i] = Saturn!blocks_for(Len(got[i].save.data)) /\ needed[i] \in Nat
               /\ listed[i] = Len(got[i].blocks) /\ listed[i] \in Nat
    <3>1. needed[i] = Saturn!blocks_for(Len(got[i].save.data)) /\ listed[i] = Len(got[i].blocks)
      OBVIOUS
    <3>2. got[i].save.data \in Seq(Nat)
      BY <2>4 DEF SavesOf
    <3>3. Len(got[i].save.data) \in Nat
      BY <3>2, ListHas
    <3> HIDE DEF needed, listed
    <3> QED BY <2>4, <3>1, <3>3, SatNeeds
  <2>7. Saturn!Needed(saves) = needed
    <3>1. DOMAIN saves = 1 .. n
      OBVIOUS
    <3> HIDE DEF saves
    <3> QED BY <3>1 DEF Saturn!Needed
  <2>8. /\ needed \in [1 .. n -> Nat] /\ listed \in [1 .. n -> Nat]
    <3>1. DOMAIN needed = 1 .. n /\ needed = [k \in 1 .. n |-> needed[k]]
      OBVIOUS
    <3>2. DOMAIN listed = 1 .. n /\ listed = [k \in 1 .. n |-> listed[k]]
      OBVIOUS
    <3> HIDE DEF needed, listed
    <3> QED BY <2>6, <3>1, <3>2
  <2> HIDE DEF needed, listed, saves
  <2>9. needed \in Seq(Nat) /\ Len(needed) = n /\ listed \in Seq(Nat) /\ Len(listed) = n
    BY <1>4, <2>8, ListOf
  <2>10. \A i \in 1 .. n : needed[i] <= listed[i]
    BY <2>4, <2>6
  <2>11. Total(needed) <= Total(listed) /\ Total(needed) \in Nat /\ Total(listed) \in Nat
    BY <2>9, <2>10, TotalLess, TotalIsNat
  <2>12. Total(needed) <= SatBlocks
    BY <1>2, <2>2, <2>11
  <2> QED BY <2>1, <2>5, <2>7, <2>12
<1> QED BY <1>6, <1>7

\* Blocks that a save is laid in are blocks still, and so are the rest.
LEMMA SatLaid ==
  ASSUME NEW volume, SatTyped(volume), "saturn" \in Formats, NEW save \in SavesOf("saturn"),
         NEW blocks \in Seq(Nat), blocks # <<>>
  PROVE  SatTyped(Saturn!Laid(volume, save, blocks))
<1> DEFINE stream == Saturn!write_save(save, blocks)
           used == Saturn!ToSet(blocks)
           nth(b) == CHOOSE i \in DOMAIN blocks : blocks[i] = b
           piece(i) == SubSeq(stream, (i - 1) * CONTENT + 1, i * CONTENT)
           tag == [b \in 1 .. SatBlocks |-> IF b \in used THEN b = blocks[1] ELSE volume.tag[b]]
           content == [b \in 1 .. SatBlocks |-> IF b \in used THEN piece(nth(b)) ELSE volume.content[b]]
           L == Len(blocks)
<1>1. /\ volume.tag \in [1 .. SatBlocks -> BOOLEAN] /\ volume.content \in [1 .. SatBlocks -> SatContent]
  BY DEF SatTyped
<1>2. SatBlocks \in Nat /\ Sizes["saturn"] = SatBlocks /\ CONTENT \in Nat /\ CONTENT >= 3
  BY SatBlocksAre
<1>3. Saturn!Laid(volume, save, blocks) = [volume EXCEPT !.tag = tag, !.content = content]
  BY <1>2 DEF Saturn!Laid
<1>4. L \in Nat /\ DOMAIN blocks = 1 .. L /\ \A i \in 1 .. L : blocks[i] \in Nat
  BY ListHas
<1>5. save.name \in Nat /\ save.data \in Seq(Nat)
  BY DEF SavesOf
<1>6. \A i \in 1 .. L : L * CONTENT \in Nat /\ i * CONTENT <= L * CONTENT /\ i * CONTENT \in Nat
                        /\ (i - 1) * CONTENT + CONTENT = i * CONTENT /\ (i - 1) * CONTENT \in Nat
  <2>1. \A i, l, c \in Nat : i >= 1 /\ i <= l => l * c \in Nat /\ i * c <= l * c /\ i * c \in Nat
                        /\ (i - 1) * c + c = i * c /\ (i - 1) * c \in Nat
    OBVIOUS
  <2> QED BY <1>2, <1>4, <2>1
<1>7. stream \in [1 .. L * CONTENT -> Nat]
  <2> DEFINE told == <<save.name, Len(save.data)>> \o Tail(blocks) \o <<0>> \o save.data
  <2>1. <<save.name, Len(save.data)>> \in Seq(Nat)
    BY <1>5
  <2>2. Tail(blocks) \in Seq(Nat)
    OBVIOUS
  <2>3. <<0>> \in Seq(Nat)
    OBVIOUS
  <2>4. told \in Seq(Nat)
    <3>1. \A a, b \in Seq(Nat) : a \o b \in Seq(Nat)
      OBVIOUS
    <3> QED BY <1>5, <2>1, <2>2, <2>3, <3>1, Zenon
  <2>5. stream = [unit \in 1 .. L * CONTENT |-> IF unit \in DOMAIN told THEN told[unit] ELSE 0]
    BY DEF Saturn!write_save
  <2> HIDE DEF told, L, stream
  <2>6. \A unit \in DOMAIN told : told[unit] \in Nat
    BY <2>4
  <2> QED BY <2>5, <2>6
<1>8. ASSUME NEW i \in 1 .. L PROVE piece(i) \in SatContent
  <2> DEFINE from == (i - 1) * CONTENT
             M == L * CONTENT
  <2>1. M \in Nat /\ from \in Nat /\ i * CONTENT = from + CONTENT /\ from + CONTENT <= M
    BY <1>6
  <2>2. piece(i) = SubSeq(stream, from + 1, from + CONTENT)
    BY <2>1
  <2>3. stream \in [1 .. M -> Nat]
    BY <1>7
  <2> DEFINE a == from + 1
             z == from + CONTENT
  <2> HIDE DEF stream, piece, from, M
  <2>4. stream \in Seq(Nat) /\ Len(stream) = M
    BY <2>1, <2>3, ListOf
  <2>5. a \in Nat /\ z \in Nat /\ 1 <= a /\ a <= z + 1 /\ z <= Len(stream) /\ z - a + 1 = CONTENT
    BY <1>2, <2>1, <2>4
  <2> HIDE DEF a, z
  <2>6. piece(i) \in Seq(Nat) /\ Len(piece(i)) = CONTENT
    <3>1. piece(i) = SubSeq(stream, a, z)
      BY <2>2 DEF a, z
    <3>2. SubSeq(stream, a, z) \in Seq(Nat) /\ Len(SubSeq(stream, a, z)) = z - a + 1
      BY <2>4, <2>5, PartIs
    <3>3. z - a + 1 = CONTENT
      BY <2>5
    <3> QED BY <3>1, <3>2, <3>3, Zenon
  <2> QED BY <1>2, <2>6 DEF SatContent
<1> HIDE DEF piece
<1>9. ASSUME NEW b \in 1 .. SatBlocks PROVE content[b] \in SatContent
  <2>1. CASE b \in used
    <3>1. PICK i \in 1 .. L : blocks[i] = b
      BY <1>4, <2>1 DEF Saturn!ToSet
    <3>2. nth(b) \in 1 .. L
      BY <1>4, <3>1
    <3> HIDE DEF nth, used
    <3> QED BY <1>8, <2>1, <3>2
  <2>2. CASE b \notin used
    BY <1>1, <2>2
  <2> QED BY <2>1, <2>2
<1>10. content \in [1 .. SatBlocks -> SatContent]
  <2>1. content = [b \in 1 .. SatBlocks |-> content[b]]
    OBVIOUS
  <2> HIDE DEF content
  <2> QED BY <1>9, <2>1
<1>11. tag \in [1 .. SatBlocks -> BOOLEAN]
  <2> HIDE DEF used
  <2>1. ASSUME NEW b \in 1 .. SatBlocks PROVE (IF b \in used THEN b = blocks[1] ELSE volume.tag[b]) \in BOOLEAN
    BY <1>1
  <2> QED BY <2>1
<1> DEFINE A == [1 .. SatBlocks -> BOOLEAN]
           B == [1 .. SatBlocks -> SatContent]
<1> HIDE DEF tag, content
<1>12. volume \in [area : {"own"}, tag : A, content : B] /\ tag \in A /\ content \in B
  BY <1>10, <1>11 DEF SatTyped
<1>13. SatTyped(Saturn!Laid(volume, save, blocks)) <=>
         [volume EXCEPT !.tag = tag, !.content = content] \in [area : {"own"}, tag : A, content : B]
  BY <1>3 DEF SatTyped
<1> HIDE DEF A, B
<1> QED BY <1>12, <1>13

LEMMA SatBlankIs ==
  ASSUME "saturn" \in Formats
  PROVE  SatTyped(Saturn!Blank("own"))
<1>1. SatBlocks \in Nat /\ Sizes["saturn"] = SatBlocks /\ CONTENT \in Nat
  BY SatBlocksAre
<1>2. [unit \in 1 .. CONTENT |-> 0] \in SatContent
  BY <1>1 DEF SatContent
<1> QED BY <1>1, <1>2 DEF Saturn!Blank, SatTyped

\* A volume of saves laid out one after another.
LEMMA SatBuilds ==
  ASSUME "saturn" \in Formats, NEW saves \in Seq(SavesOf("saturn"))
  PROVE  SatTyped(Saturn!build(saves, "own").card)
<1> DEFINE N == Len(saves)
           needed == Saturn!Needed(saves)
           run(k) == [i \in 1 .. needed[k] |-> Saturn!StartsAt(needed, k) + i - 1]
           T == {volume \in [area : {"own"}, tag : [1 .. SatBlocks -> BOOLEAN],
                             content : [1 .. SatBlocks -> SatContent]] : SatTyped(volume)}
           Step(volume, k) == Saturn!Laid(volume, saves[k], run(k))
           step == [x \in T \X (1 .. N) |-> Step(x[1], x[2])]
           base == Saturn!Blank("own")
           Body(f) == [n \in 0 .. N |-> IF n = 0 THEN base ELSE Step(f[n - 1], n)]
           g == Saturn!Placed(saves, "own")
<1>1. N \in Nat /\ DOMAIN saves = 1 .. N /\ \A k \in 1 .. N : saves[k] \in SavesOf("saturn")
  BY ListHas
<1>2. \A volume : volume \in T <=> SatTyped(volume)
  BY DEF SatTyped
<1> HIDE DEF T
<1>3. base \in T
  BY <1>2, SatBlankIs
<1>4. ASSUME NEW k \in 1 .. N PROVE needed[k] \in Nat /\ needed[k] > 0
  <2>1. needed[k] = Saturn!blocks_for(Len(saves[k].data))
    BY <1>1 DEF Saturn!Needed
  <2>2. saves[k].data \in Seq(Nat)
    BY <1>1 DEF SavesOf
  <2>3. Len(saves[k].data) \in Nat
    BY <2>2, ListHas
  <2> HIDE DEF needed
  <2> QED BY <2>1, <2>3, SatNeeds
<1>5. needed \in Seq(Nat) /\ Len(needed) = N
  <2>1. needed = [k \in 1 .. N |-> needed[k]]
    BY <1>1 DEF Saturn!Needed
  <2> HIDE DEF needed
  <2>2. needed \in [1 .. N -> Nat]
    BY <1>4, <2>1
  <2> QED BY <1>1, <2>2, ListOf
<1> HIDE DEF needed
<1>6. ASSUME NEW k \in 1 .. N PROVE run(k) \in Seq(Nat) /\ run(k) # <<>>
  <2>1. Saturn!StartsAt(needed, k) = 1 + Summed(needed)[k - 1] /\ Summed(needed)[k - 1] \in Nat
    BY <1>5, SatLists, PiecesLie
  <2> DEFINE from == Saturn!StartsAt(needed, k)
  <2>2. from \in Nat /\ from >= 1
    BY <2>1
  <2> HIDE DEF from
  <2>3. run(k) = [i \in 1 .. needed[k] |-> from + i - 1]
    BY DEF from
  <2>4. run(k) \in [1 .. needed[k] -> Nat]
    <3> HIDE DEF run
    <3> QED BY <1>4, <2>2, <2>3
  <2> HIDE DEF run
  <2>5. run(k) \in Seq(Nat) /\ Len(run(k)) = needed[k]
    BY <1>4, <2>4, ListOf
  <2> QED BY <1>4, <2>5
<1> HIDE DEF run
<1>a. ASSUME NEW x \in T, NEW n \in 1 .. N PROVE Step(x, n) \in T
  BY <1>1, <1>2, <1>6, SatLaid
<1>b. g = CHOOSE placed : placed = Body(placed)
  BY DEF Saturn!Placed, run, needed
<1> HIDE DEF Step
<1>7. /\ step \in [T \X (1 .. N) -> T]
      /\ \A x \in T, n \in 1 .. N : step[<<x, n>>] = Step(x, n)
  BY <1>a
<1> HIDE DEF step
<1>8. PICK f \in [0 .. N -> T] : Steps(f, base, N, step)
  <2>1. step \in [T \X (1 .. N) -> T]
    BY <1>7
  <2> HIDE DEF base
  <2> QED BY <1>1, <1>3, <2>1, Recursion, Zenon
<1>9. f = Body(f)
  <2> HIDE DEF base
  <2>1. ASSUME NEW n \in 0 .. N, n # 0
        PROVE  f[n] = Step(f[n - 1], n)
    <3>1. n \in 1 .. N /\ n - 1 \in 0 .. N
      BY <2>1, <1>1
    <3>2. f[n - 1] \in T
      BY <3>1
    <3> QED BY <3>1, <3>2, <1>7, <1>8 DEF Steps
  <2> QED BY <2>1, <1>8 DEF Steps
<1>10. g = Body(g)
  <2> HIDE DEF g, Body
  <2> QED BY <1>9, <1>b
<1> HIDE DEF g
<1>11. g[0] = base /\ \A n \in 1 .. N : g[n] = Step(g[n - 1], n)
  <2> HIDE DEF base
  <2>2. g[0] = base
    BY <1>10, <1>1
  <2>3. ASSUME NEW n \in 1 .. N
        PROVE  g[n] = Step(g[n - 1], n)
    <3>1. n \in 0 .. N /\ n # 0
      BY <1>1
    <3> QED BY <3>1, <1>10
  <2> QED BY <2>2, <2>3
<1>12. \A n \in 0 .. N : g[n] \in T
  <2> HIDE DEF base
  <2>1. \A n \in 1 .. N : g[n - 1] \in T => g[n] \in T
    BY <1>11, <1>a
  <2> QED BY <2>1, <1>1, <1>3, <1>11, StepsStay
<1>13. g[N] \in T
  BY <1>1, <1>12
<1>14. Saturn!build(saves, "own").card = IF Saturn!Fits(saves) THEN g[N] ELSE base
  BY DEF Saturn!build, g
<1> QED BY <1>2, <1>3, <1>13, <1>14

\* What a console makes of a volume, and what damage does, is a volume.
LEMMA SatSaved ==
  ASSUME NEW volume, SatTyped(volume), "saturn" \in Formats, NEW game \in SavesOf("saturn"),
         NEW new \in Saturn!Saved(volume, game)
  PROVE  SatTyped(new)
<1> DEFINE n == Saturn!blocks_for(Len(game.data))
           free == Saturn!Free(volume)
<1>1. PICK blocks \in [1 .. n -> free] : new = Saturn!Laid(volume, game, blocks)
  BY DEF Saturn!Saved
<1>2. SatBlocks \in Nat /\ Sizes["saturn"] = SatBlocks
  BY SatBlocksAre
<1>3. free \subseteq Nat
  BY <1>2 DEF Saturn!Free
<1>4. game.data \in Seq(Nat)
  BY DEF SavesOf
<1>5. Len(game.data) \in Nat
  BY <1>4, ListHas
<1>6. n \in Nat /\ n > 0
  BY <1>5, SatNeeds
<1> HIDE DEF n, free
<1>7. blocks \in [1 .. n -> Nat]
  BY <1>3
<1>8. blocks \in Seq(Nat) /\ Len(blocks) = n
  BY <1>6, <1>7, ListOf
<1>9. blocks # <<>>
  BY <1>6, <1>8
<1> QED BY <1>1, <1>8, <1>9, SatLaid

LEMMA SatDeleted ==
  ASSUME NEW volume, SatTyped(volume), "saturn" \in Formats, NEW new \in Saturn!Deleted(volume)
  PROVE  SatTyped(new)
<1> DEFINE A == [1 .. SatBlocks -> BOOLEAN]
           B == [1 .. SatBlocks -> SatContent]
           zero == Saturn!Blank("").content
<1>1. SatBlocks \in Nat /\ Sizes["saturn"] = SatBlocks /\ CONTENT \in Nat
  BY SatBlocksAre
<1>2. PICK head : new = LET gone == Saturn!ToSet(Saturn!Listed(volume, head))
                        IN [volume EXCEPT !.tag = [b \in 1 .. SatBlocks |-> @[b] /\ b \notin gone],
                                          !.content = [b \in 1 .. SatBlocks |->
                                             IF b \in gone THEN zero[b] ELSE @[b]]]
  BY <1>1 DEF Saturn!Deleted
<1> DEFINE gone == Saturn!ToSet(Saturn!Listed(volume, head))
           tag == [b \in 1 .. SatBlocks |-> volume.tag[b] /\ b \notin gone]
           content == [b \in 1 .. SatBlocks |-> IF b \in gone THEN zero[b] ELSE volume.content[b]]
<1>3. new = [volume EXCEPT !.tag = tag, !.content = content]
  BY <1>2
<1>4. volume \in [area : {"own"}, tag : A, content : B] /\ volume.tag \in A /\ volume.content \in B
  BY DEF SatTyped
<1>5. \A b \in 1 .. SatBlocks : zero[b] \in SatContent
  BY <1>1 DEF Saturn!Blank, SatContent
<1> HIDE DEF gone, zero
<1>6. tag \in A
  BY <1>4
<1>7. content \in B
  BY <1>4, <1>5
<1>8. SatTyped(new) <=> new \in [area : {"own"}, tag : A, content : B]
  BY DEF SatTyped
<1> HIDE DEF tag, content, A, B
<1> QED BY <1>3, <1>4, <1>6, <1>7, <1>8

LEMMA SatDamaged ==
  ASSUME NEW volume, SatTyped(volume), "saturn" \in Formats, NEW new \in Saturn!Damaged(volume)
  PROVE  SatTyped(new)
<1> DEFINE A == [1 .. SatBlocks -> BOOLEAN]
           B == [1 .. SatBlocks -> SatContent]
<1>1. SatBlocks \in Nat /\ Sizes["saturn"] = SatBlocks /\ CONTENT \in Nat
  BY SatBlocksAre
<1>2. volume \in [area : {"own"}, tag : A, content : B]
  BY DEF SatTyped
<1>3. SatTyped(new) <=> new \in [area : {"own"}, tag : A, content : B]
  BY DEF SatTyped
<1>4. CASE \E b \in 1 .. SatBlocks : new = [volume EXCEPT !.tag[b] = ~@]
  BY <1>2, <1>3, <1>4
<1>5. CASE \E b \in 1 .. SatBlocks, unit \in 1 .. CONTENT, value \in 0 .. SatBlocks :
             new = [volume EXCEPT !.content[b][unit] = value]
  <2>1. PICK b \in 1 .. SatBlocks, unit \in 1 .. CONTENT, value \in 0 .. SatBlocks :
             new = [volume EXCEPT !.content[b][unit] = value]
    BY <1>5
  <2> DEFINE one == [volume.content[b] EXCEPT ![unit] = value]
  <2>2. volume.content[b] \in SatContent
    BY <1>2
  <2>3. one \in SatContent
    BY <1>1, <2>2 DEF SatContent
  <2>4. new = [volume EXCEPT !.content[b] = one]
    BY <2>1
  <2> HIDE DEF one
  <2> QED BY <1>2, <1>3, <2>3, <2>4
<1>6. \/ \E b \in 1 .. SatBlocks : new = [volume EXCEPT !.tag[b] = ~@]
      \/ \E b \in 1 .. SatBlocks, unit \in 1 .. CONTENT, value \in 0 .. SatBlocks :
             new = [volume EXCEPT !.content[b][unit] = value]
  BY <1>1 DEF Saturn!Damaged
<1> QED BY <1>4, <1>5, <1>6

\* The file is a volume, whatever is in it, and is what the tool last read; the
\* bundle's saves are ones a volume can have, and its image is of the file.
VolumeInv ==
    /\ format = "saturn" /\ format \in Formats
    /\ damage \in 0 .. MaxDamage
    /\ pc \in {"closed", "editing", "refused"}
    /\ SatTyped(disk) /\ reads = Saturn!parse(disk)
    /\ held \in Seq(SavesOf("saturn"))
    /\ area \in {"own", None} /\ (pc # "closed" => area = "own")
    /\ kept # <<>> => pc # "closed" /\ kept = <<disk>> /\ held = <<>>

LEMMA VolumeInit == ASSUME Init, format = "saturn" PROVE VolumeInv
<1>1. format \in Formats /\ disk = Saturn!Blank("own") /\ reads = Saturn!parse(disk)
      /\ damage = 0 /\ pc = "closed" /\ held = <<>> /\ kept = <<>> /\ area = None
  BY DEF Init, Blank, read
<1>2. SatTyped(disk)
  BY <1>1, SatBlankIs
<1>3. held \in Seq(SavesOf("saturn")) /\ damage \in 0 .. MaxDamage
  BY <1>1, BoundsAssumption
<1> QED BY <1>1, <1>2, <1>3 DEF VolumeInv

LEMMA VolumeNext == ASSUME VolumeInv, [Next]_vars PROVE VolumeInv'
<1> USE DEF VolumeInv
<1>0. "saturn" \in Formats /\ damage \in Nat /\ MaxDamage \in Nat /\ damage <= MaxDamage
  BY BoundsAssumption
\* The file is another, and the tool has nothing.
<1>a. ASSUME pc = "closed", format' = format, UNCHANGED toolVars, damage' \in 0 .. MaxDamage,
             SatTyped(disk'), reads' = read(disk')
      PROVE  VolumeInv'
  <2>1. reads' = Saturn!parse(disk')
    BY <1>a DEF read
  <2> QED BY <1>a, <2>1 DEF toolVars
<1>1. CASE ConsoleSave
  <2>1. pc = "closed" /\ format' = format /\ damage' = damage /\ UNCHANGED toolVars /\ reads' = read(disk')
    BY <1>1 DEF ConsoleSave, Idle
  <2>2. PICK game \in Games : game.system = "saturn" /\ disk' \in Saturn!Saved(disk, game)
    BY <1>1 DEF ConsoleSave
  <2>3. game \in SavesOf("saturn")
    BY <2>2, GamesAssumption
  <2>4. SatTyped(disk')
    BY <1>0, <2>2, <2>3, SatSaved
  <2> QED BY <1>a, <2>1, <2>4
<1>2. CASE ConsoleDelete
  <2>1. pc = "closed" /\ format' = format /\ damage' = damage /\ UNCHANGED toolVars /\ reads' = read(disk')
    BY <1>2 DEF ConsoleDelete, Idle
  <2>2. disk' \in Saturn!Deleted(disk)
    BY <1>2 DEF ConsoleDelete
  <2>3. SatTyped(disk')
    BY <1>0, <2>2, SatDeleted
  <2> QED BY <1>a, <2>1, <2>3
<1>3. CASE Damaged
  <2>1. /\ pc = "closed" /\ format' = format /\ damage' = damage + 1 /\ damage < MaxDamage
        /\ UNCHANGED toolVars /\ reads' = read(disk')
    BY <1>3 DEF Damaged
  <2>2. disk' \in Saturn!Damaged(disk)
    BY <1>3 DEF Damaged
  <2>3. SatTyped(disk')
    BY <1>0, <2>2, SatDamaged
  <2>4. damage' \in 0 .. MaxDamage
    BY <1>0, <2>1
  <2> QED BY <1>a, <2>1, <2>3, <2>4
<1>4. CASE Open
  <2>1. /\ pc = "closed" /\ held' = reads.saves /\ kept' = IF held' = <<>> THEN <<disk>> ELSE <<>>
        /\ area' = AreaOf(disk) /\ pc' = "editing" /\ UNCHANGED <<format, disk, reads, damage>>
    BY <1>4 DEF Open
  <2>2. AreaOf(disk) = "own"
    BY DEF AreaOf, SatTyped
  <2>3. reads.saves \in Seq(SavesOf("saturn"))
    BY <1>0, SatParses
  <2> QED BY <2>1, <2>2, <2>3
<1>5. ASSUME NEW saves \in Seq(SavesOf("saturn")), Edited(saves) PROVE VolumeInv'
  BY <1>5 DEF Edited
<1>6. CASE RemoveSave
  <2>1. PICK i \in DOMAIN held : Edited(RemoveAt(held, i))
    BY <1>6 DEF RemoveSave
  <2>2. RemoveAt(held, i) \in Seq(SavesOf("saturn"))
    BY FewerReturn
  <2> QED BY <1>5, <2>1, <2>2
<1>7. CASE AddSave
  <2>1. PICK game \in Games : game.system = "saturn" /\ Edited(Append(held, game))
    BY <1>7 DEF AddSave
  <2>2. game \in SavesOf("saturn")
    BY <2>1, GamesAssumption
  <2>3. Append(held, game) \in Seq(SavesOf("saturn"))
    BY <2>2
  <2> QED BY <1>5, <2>1, <2>3
<1>8. CASE Write
  <2>1. pc = "editing" /\ UNCHANGED <<format, damage>>
    BY <1>8 DEF Write
  <2>2. CASE ReadsBack(Rebuilt)
    <3>1. disk' = Rebuilt.card /\ reads' = read(disk') /\ PutAway
      BY <1>8, <2>2 DEF Write
    <3>2. reads' = Saturn!parse(disk')
      BY <3>1 DEF read
    <3>3. pc' = "closed" /\ held' = <<>> /\ kept' = <<>> /\ area' = None
      BY <3>1 DEF PutAway
    <3>4. SatTyped(disk')
      <4>1. CASE kept # <<>>
        BY <3>1, <4>1 DEF Rebuilt
      <4>2. CASE kept = <<>>
        <5>1. Rebuilt = Saturn!build(held, "own")
          BY <2>1, <4>2 DEF Rebuilt, write
        <5> QED BY <1>0, <3>1, <5>1, SatBuilds
      <4> QED BY <4>1, <4>2
    <3>5. held' \in Seq(SavesOf("saturn"))
      BY <3>3
    <3> QED BY <2>1, <3>2, <3>3, <3>4, <3>5
  <2>3. CASE ~ReadsBack(Rebuilt)
    <3>1. pc' = "refused" /\ UNCHANGED <<disk, reads, held, kept, area>>
      BY <1>8, <2>3 DEF Write
    <3> QED BY <2>1, <3>1
  <2> QED BY <2>2, <2>3
<1>9. CASE Resume
  BY <1>9 DEF Resume
<1>10. CASE Close
  <2>1. pc' = "closed" /\ held' = <<>> /\ kept' = <<>> /\ area' = None
        /\ UNCHANGED <<format, disk, reads, damage>>
    BY <1>10 DEF Close, PutAway
  <2>2. held' \in Seq(SavesOf("saturn"))
    BY <2>1
  <2> QED BY <2>1, <2>2
<1>11. CASE UNCHANGED vars
  BY <1>11 DEF vars, toolVars
<1> QED BY <1>1, <1>2, <1>3, <1>4, <1>6, <1>7, <1>8, <1>9, <1>10, <1>11 DEF Next, Console, Tool

LEMMA VolumeStays == Spec => [](format = "saturn" => VolumeInv)
<1>1. Init => (format = "saturn" => VolumeInv)
  BY VolumeInit
<1>2. (format = "saturn" => VolumeInv) /\ [Next]_vars => (format = "saturn" => VolumeInv)'
  <2> SUFFICES ASSUME format = "saturn" => VolumeInv, [Next]_vars, format' = "saturn"
               PROVE  VolumeInv'
    OBVIOUS
  <2>1. format = "saturn"
    BY SameFormat
  <2> QED BY <2>1, VolumeNext
<1> QED BY <1>1, <1>2, PTL DEF Spec

\* Every variable keeps its type over a Saturn volume too.
THEOREM VolumeTypes == Spec => [](format = "saturn" => TypeOK)
<1>1. VolumeInv => TypeOK
  <2> SUFFICES ASSUME VolumeInv PROVE TypeOK
    OBVIOUS
  <2> USE DEF VolumeInv
  <2>1. reads.ok \in BOOLEAN
    BY SatParses
  <2>2. AreaOf(disk) = "own"
    BY DEF AreaOf, SatTyped
  <2>3. ASSUME NEW i \in DOMAIN held PROVE held[i].system = format
    <3>1. held[i] \in SavesOf("saturn")
      OBVIOUS
    <3> QED BY <3>1 DEF SavesOf
  <2>4. kept # <<>> => Len(kept) = 1 /\ held = <<>>
    OBVIOUS
  <2> QED BY <2>1, <2>2, <2>3, <2>4 DEF TypeOK
<1> QED BY <1>1, VolumeStays, PTL

\* However the lists of a Saturn volume were damaged, whatever blocks its saves
\* have come to share, if it reads then there is room to lay its saves out anew
\* with no block shared: a save states no more bytes than its own blocks hold,
\* and the reader counts a shared block once for each save it is in.
THEOREM SharedAreCounted == Spec => []SharedBlocksAreCounted
<1>1. (format = "saturn" => VolumeInv) => SharedBlocksAreCounted
  <2> SUFFICES ASSUME VolumeInv, reads.ok,
                      \A i \in DOMAIN reads.saves :
                        reads.saves[i].data # <<>> /\ reads.saves[i].name \notin LongNames
               PROVE  Saturn!Fits(reads.saves)
    BY DEF SharedBlocksAreCounted
  <2>1. SatTyped(disk) /\ reads = Saturn!parse(disk) /\ "saturn" \in Formats
    BY DEF VolumeInv
  <2>2. Total(Saturn!Needed(reads.saves)) <= SatBlocks
    BY <2>1, SatParses
  <2>3. Saturn!Total(Saturn!Needed(reads.saves)) <= Sizes["saturn"]
    BY <2>1, <2>2, SatLists, SatBlocksAre
  <2> QED BY <2>3 DEF Saturn!Fits
<1> QED BY <1>1, VolumeStays, PTL
=============================================================================
