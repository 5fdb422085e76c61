-------------------------- MODULE CardSessionProofs --------------------------
(***************************************************************************)
(* Theorems about the card editor's sitting, for every number of saves,    *)
(* folders and blocks.                                                     *)
(***************************************************************************)
EXTENDS CardSession, ChainProofs

\* What a part can be: a save's is never without files, a console file's has
\* one file and its folder's none, and only the card's own image holds one.
Kinds == {"bundle", "system", "card-image"}
Names == STRING \cup {"none"}
PartSet ==
    {p \in [kind : Kinds, name : Names, files : Seq(STRING), image : Seq(Directories)] :
       /\ p.kind # "card-image" => p.image = <<>> /\ p.name \in STRING
       /\ p.kind = "bundle" => p.files # <<>>
       /\ p.kind = "system" => Len(p.files) <= 1}

\* Parts of a card that has something on it.
Plain == {p \in PartSet : p.kind # "card-image"}

\* A card's image is the only part of its card, as it was read.
Alone(ps) == \A i \in 1 .. Len(ps) : ps[i].kind = "card-image" => ps = Read(ps[i].image)

Typed ==
    /\ disk \in [Cards -> Seq(Directories) \cup {Nowhere}]
    /\ parts \in [Cards -> Seq(PartSet)]
    /\ dirty \in [Cards -> BOOLEAN]
    /\ focus \in Cards
    /\ selection \in [Cards -> Nat]

\* A question is about what is still so when it is answered.
Asked ==
    /\ asking = "delete" => Showing /\ Entries(focus)[Selected].name = about
    /\ asking = "write" => dirty[focus]
    /\ asking # "nothing" => said = "nothing"

\* What every key keeps.
IInv ==
    /\ Typed
    /\ \A c \in Cards : Alone(parts[c])
    /\ SelectionIsListed
    /\ Asked

-----------------------------------------------------------------------------
(* Lists of parts.                                                         *)

\* A list with one element less.
LEMMA RemoveAtIsSeq ==
  ASSUME NEW S, NEW s \in Seq(S), NEW i \in 1 .. Len(s)
  PROVE  /\ RemoveAt(s, i) \in Seq(S)
         /\ Len(RemoveAt(s, i)) = Len(s) - 1
         /\ \A j \in 1 .. Len(s) - 1 : RemoveAt(s, i)[j] = IF j < i THEN s[j] ELSE s[j + 1]
<1> DEFINE less == RemoveAt(s, i)
<1>1. less = SubSeq(s, 1, i - 1) \o SubSeq(s, i + 1, Len(s))
  BY DEF RemoveAt
<1> HIDE DEF less
<1>2. /\ less \in Seq(S) /\ Len(less) = Len(s) - 1
      /\ \A j \in 1 .. Len(s) - 1 : less[j] = IF j < i THEN s[j] ELSE s[j + 1]
  BY <1>1, WithoutIsSeq
<1> QED BY <1>2 DEF less

\* A save's part.
LEMMA SavePartIs ==
  ASSUME NEW name \in STRING, NEW files \in Seq(STRING), files # <<>>
  PROVE  /\ Part("bundle", name, files) \in PartSet
         /\ Part("bundle", name, files).kind = "bundle"
         /\ Part("bundle", name, files).name = name
         /\ Part("bundle", name, files).files = files
<1>1. <<>> \in Seq(Directories)
  OBVIOUS
<1> QED BY <1>1 DEF Part, PartSet, Kinds, Names

\* A console folder's part, and a file's.
LEMMA SystemPartIs ==
  ASSUME NEW name \in STRING, NEW files \in Seq(STRING), Len(files) <= 1
  PROVE  /\ Part("system", name, files) \in PartSet
         /\ Part("system", name, files).kind = "system"
         /\ Part("system", name, files).name = name
         /\ Part("system", name, files).files = files
<1>1. <<>> \in Seq(Directories)
  OBVIOUS
<1> QED BY <1>1 DEF Part, PartSet, Kinds, Names

\* A directory is read as parts that can be.
LEMMA DirectoryPartsAre ==
  ASSUME NEW d \in Directories
  PROVE  DirectoryParts(d) \in Seq(Plain)
<1> DEFINE head == Part("system", d.name, <<>>)
           tail == [i \in DOMAIN d.files |-> Part("system", d.name, <<d.files[i]>>)]
<1>1. d.name \in STRING /\ d.files \in Seq(STRING) /\ d.system \in BOOLEAN
  BY DEF Directories
<1>2. head \in Plain
  <2>0. <<>> \in Seq(STRING)
    BY ListOfNone
  <2>1. Len(<<>>) <= 1
    OBVIOUS
  <2>2. head \in PartSet /\ head.kind = "system"
    BY <2>0, <2>1, <1>1, SystemPartIs
  <2> QED BY <2>2 DEF Plain
<1>3. ASSUME NEW f \in STRING
      PROVE  Part("system", d.name, <<f>>) \in Plain
  <2>1. <<f>> \in Seq(STRING)
    BY ListOfOne
  <2>2. Len(<<f>>) <= 1
    OBVIOUS
  <2>3. /\ Part("system", d.name, <<f>>) \in PartSet
        /\ Part("system", d.name, <<f>>).kind = "system"
    BY <2>1, <2>2, <1>1, SystemPartIs
  <2> QED BY <2>3 DEF Plain
<1>4. tail \in Seq(Plain)
  <2>1. DOMAIN d.files = 1 .. Len(d.files) /\ Len(d.files) \in Nat
    BY <1>1
  <2>2. \A i \in 1 .. Len(d.files) : d.files[i] \in STRING
    BY <1>1
  <2>3. tail \in [1 .. Len(d.files) -> Plain]
    BY <2>1, <2>2, <1>3
  <2> HIDE DEF tail
  <2> QED BY <2>1, <2>3, ListOf
<1>5. CASE d.system
  <2>1. DirectoryParts(d) = <<head>> \o tail
    BY <1>5 DEF DirectoryParts
  <2> HIDE DEF head, tail
  <2>2. <<head>> \in Seq(Plain)
    BY <1>2, ListOfOne
  <2>3. <<head>> \o tail \in Seq(Plain)
    BY <2>2, <1>4, ConcatIs
  <2> QED BY <2>1, <2>3
<1>6. CASE ~d.system /\ d.files = <<>>
  BY <1>6 DEF DirectoryParts
<1>7. CASE ~d.system /\ d.files # <<>>
  <2> DEFINE save == Part("bundle", d.name, d.files)
  <2>1. DirectoryParts(d) = <<save>>
    BY <1>7 DEF DirectoryParts
  <2>2. save \in PartSet /\ save.kind = "bundle"
    BY <1>1, <1>7, SavePartIs
  <2>3. save \in Plain
    BY <2>2 DEF Plain
  <2> HIDE DEF save
  <2> QED BY <2>1, <2>3, ListOfOne
<1> QED BY <1>1, <1>5, <1>6, <1>7

\* The parts a list of directories is read as.
PartsOf(dirs) == Joined([i \in DOMAIN dirs |-> DirectoryParts(dirs[i])])

\* They are parts that can be, none of them an image.
LEMMA PartsOfIs ==
  ASSUME NEW dirs \in Seq(Directories)
  PROVE  /\ [i \in DOMAIN dirs |-> DirectoryParts(dirs[i])] \in Seq(Seq(Plain))
         /\ PartsOf(dirs) \in Seq(Plain)
<1> DEFINE f == [i \in DOMAIN dirs |-> DirectoryParts(dirs[i])]
<1>1. DOMAIN dirs = 1 .. Len(dirs) /\ Len(dirs) \in Nat
  OBVIOUS
<1>2. \A i \in 1 .. Len(dirs) : dirs[i] \in Directories
  OBVIOUS
<1>3. f \in [1 .. Len(dirs) -> Seq(Plain)]
  BY <1>1, <1>2, DirectoryPartsAre
<1>4. PartsOf(dirs) = Joined(f)
  BY DEF PartsOf
<1> HIDE DEF f
<1>5. f \in Seq(Seq(Plain))
  BY <1>1, <1>3, ListOf
<1>6. Joined(f) \in Seq(Plain)
  BY <1>5, JoinedIsSeq
<1> QED BY <1>4, <1>5, <1>6 DEF f

\* The image a card with nothing on it is read as.
ImagePart(dirs) == [Part("card-image", "none", <<>>) EXCEPT !.image = dirs]

\* What card::read gives.
LEMMA ReadIs ==
  ASSUME NEW dirs \in Seq(Directories)
  PROVE  /\ Read(dirs) = IF PartsOf(dirs) = <<>> THEN <<ImagePart(dirs)>> ELSE PartsOf(dirs)
         /\ Read(dirs) \in Seq(PartSet)
         /\ Alone(Read(dirs))
<1>1. Read(dirs) = IF PartsOf(dirs) = <<>> THEN <<ImagePart(dirs)>> ELSE PartsOf(dirs)
  BY DEF Read, PartsOf, ImagePart
<1>2. ImagePart(dirs) \in PartSet /\ ImagePart(dirs).kind = "card-image" /\ ImagePart(dirs).image = dirs
  <2>1. <<>> \in Seq(STRING)
    BY ListOfNone
  <2> QED BY <2>1 DEF ImagePart, Part, PartSet, Kinds, Names
<1>3. CASE PartsOf(dirs) = <<>>
  <2>1. Read(dirs) = <<ImagePart(dirs)>>
    BY <1>1, <1>3
  <2>2. Read(dirs) \in Seq(PartSet) /\ Len(Read(dirs)) = 1 /\ Read(dirs)[1] = ImagePart(dirs)
    BY <2>1, <1>2, ListOfOne
  <2>3. Read(dirs)[1].image = dirs
    BY <2>2, <1>2
  <2>4. \A i \in 1 .. Len(Read(dirs)) : Read(dirs)[i].image = dirs
    BY <2>2, <2>3
  <2>5. Alone(Read(dirs))
    BY <2>4 DEF Alone
  <2> QED BY <1>1, <2>2, <2>5
<1>4. CASE PartsOf(dirs) # <<>>
  <2>1. Read(dirs) \in Seq(Plain)
    BY <1>1, <1>4, PartsOfIs
  <2>2. \A i \in 1 .. Len(Read(dirs)) : Read(dirs)[i] \in Plain
    BY <2>1
  <2>3. Read(dirs) \in Seq(PartSet)
    BY <2>1 DEF Plain
  <2>4. Alone(Read(dirs))
    BY <2>2 DEF Plain, Alone
  <2> QED BY <1>1, <2>3, <2>4
<1> QED BY <1>3, <1>4

\* What Card::edited leaves: the card's image goes, and nothing else.
LEMMA EditedIs ==
  ASSUME NEW ps \in Seq(PartSet)
  PROVE  /\ Those(ps, {"bundle", "system"}) \in Seq(PartSet)
         /\ Alone(Those(ps, {"bundle", "system"}))
         /\ Bundles(Those(ps, {"bundle", "system"})) = Bundles(ps)
         /\ SystemParts(Those(ps, {"bundle", "system"})) = SystemParts(ps)
<1> DEFINE left == Those(ps, {"bundle", "system"})
<1>1. left \in Seq(PartSet) /\ \A i \in DOMAIN left : left[i].kind \in {"bundle", "system"}
  BY ThoseAre
<1>2. {"bundle"} \subseteq {"bundle", "system"} /\ {"system"} \subseteq {"bundle", "system"}
  OBVIOUS
<1>3. Bundles(left) = Bundles(ps) /\ SystemParts(left) = SystemParts(ps)
  BY <1>2, ThoseTwice DEF Bundles, SystemParts
<1> HIDE DEF left
<1>4. Alone(left)
  BY <1>1 DEF Alone
<1> QED BY <1>1, <1>3, <1>4 DEF left

\* Where the cursor comes to rest in a list.
LEMMA ClampedIs ==
  ASSUME NEW at \in Nat, NEW delta \in {-1, 0, 1}, NEW count \in Nat
  PROVE  /\ Clamped(at, delta, count) \in Nat
         /\ count = 0 => Clamped(at, delta, count) = 0
         /\ count # 0 => Clamped(at, delta, count) \in 1 .. count
BY DEF Clamped

-----------------------------------------------------------------------------
(* The sitting.                                                            *)

\* The card that is not in focus.
LEMMA OtherIs == ASSUME focus \in Cards PROVE Other \in Cards
BY CardsAssumption DEF Cards, Other

\* A card's list of saves.
LEMMA EntriesAre ==
  ASSUME Typed, NEW c \in Cards
  PROVE  /\ Entries(c) \in Seq(PartSet)
         /\ Len(Entries(c)) <= Len(parts[c])
         /\ Len(Entries(c)) \in Nat
         /\ DOMAIN Entries(c) = 1 .. Len(Entries(c))
         /\ Entries(c) = <<>> <=> Len(Entries(c)) = 0
<1>1. parts[c] \in Seq(PartSet)
  BY DEF Typed
<1>2. Entries(c) \in Seq(PartSet) /\ Len(Entries(c)) <= Len(parts[c])
  BY <1>1, ThoseAre DEF Entries, Bundles
<1> QED BY <1>2


\* A card's parts being edited, with the cursor put back on its list.
LEMMA EditKeeps ==
  ASSUME IInv, NEW c \in Cards, NEW ps \in Seq(PartSet), Edited(c, ps), focus' = c,
         selection' = [selection EXCEPT ![c] = Clamped(@, 0, Len(Bundles(parts'[c])))],
         asking' = "nothing"
  PROVE  IInv'
<1> DEFINE left == Those(ps, {"bundle", "system"})
<1>1. Typed
  BY DEF IInv
<1>2. left \in Seq(PartSet) /\ Alone(left)
  BY EditedIs
<1>3. parts' = [parts EXCEPT ![c] = left]
  BY DEF Edited
<1>4. parts \in [Cards -> Seq(PartSet)] /\ dirty \in [Cards -> BOOLEAN] /\ selection \in [Cards -> Nat]
  BY <1>1 DEF Typed
<1> HIDE DEF left
<1>5. /\ parts' \in [Cards -> Seq(PartSet)] /\ parts'[c] = left
      /\ \A d \in Cards : d # c => parts'[d] = parts[d]
  BY <1>2, <1>3, <1>4
<1>6. Len(Bundles(left)) \in Nat
  BY <1>2, ThoseAre DEF Bundles
<1> DEFINE at == Clamped(selection[c], 0, Len(Bundles(left)))
<1>7. /\ at \in Nat
      /\ Len(Bundles(left)) = 0 => at = 0
      /\ Len(Bundles(left)) # 0 => at \in 1 .. Len(Bundles(left))
  BY <1>4, <1>6, ClampedIs
<1>8. selection' = [selection EXCEPT ![c] = at]
  BY <1>5
<1> HIDE DEF at
<1>9. selection' \in [Cards -> Nat] /\ selection'[c] = at
      /\ \A d \in Cards : d # c => selection'[d] = selection[d]
  BY <1>4, <1>7, <1>8
<1>10. Typed'
  <2>1. dirty' \in [Cards -> BOOLEAN] /\ disk' = disk
    BY <1>4 DEF Edited
  <2> QED BY <1>1, <1>5, <1>9, <2>1 DEF Typed
<1>11. ASSUME NEW d \in Cards
       PROVE  Alone(parts'[d])
  BY <1>5, <1>2 DEF IInv
<1>12. ASSUME NEW d \in Cards
       PROVE  IF Entries(d)' = <<>> THEN selection'[d] = 0 ELSE selection'[d] \in DOMAIN Entries(d)'
  <2>1. CASE d = c
    <3>1. Entries(d)' = Bundles(left)
      BY <1>5, <2>1 DEF Entries
    <3>2. Bundles(left) \in Seq(PartSet)
      BY <1>2, ThoseAre DEF Bundles
    <3>3. DOMAIN Bundles(left) = 1 .. Len(Bundles(left)) /\ (Bundles(left) = <<>> <=> Len(Bundles(left)) = 0)
      BY <3>2
    <3> QED BY <3>1, <3>3, <1>7, <1>9, <2>1
  <2>2. CASE d # c
    <3>1. Entries(d)' = Entries(d) /\ selection'[d] = selection[d]
      BY <1>5, <1>9, <2>2 DEF Entries
    <3> QED BY <3>1 DEF IInv, SelectionIsListed
  <2> QED BY <2>1, <2>2
<1> QED BY <1>10, <1>11, <1>12 DEF IInv, SelectionIsListed, Asked

\* A save being copied.
LEMMA CopyKeeps ==
  ASSUME IInv, DoCopy, asking' = "nothing"
  PROVE  IInv'
<1>1. Typed /\ focus \in Cards /\ Other \in Cards
  BY OtherIs DEF IInv, Typed
<1>2. CASE UNCHANGED <<cardVars, placeVars>>
  BY <1>2 DEF IInv, Typed, SelectionIsListed, Asked, Entries, cardVars, placeVars
<1>3. CASE ~UNCHANGED <<cardVars, placeVars>>
  <2> DEFINE part == parts[focus][Selected]
             ps == Append(parts[Other], part)
  <2>1. /\ Selected # 0
        /\ Edited(Other, ps)
        /\ focus' = Other
        /\ selection' = [selection EXCEPT ![Other] = Clamped(@, 0, Len(Bundles(parts'[Other])))]
    BY <1>3 DEF DoCopy
  <2>2. Selected \in 1 .. Len(parts[focus])
    <3>1. Selected \in DOMAIN Entries(focus)
      BY <1>1, <2>1 DEF IInv, SelectionIsListed, Selected
    <3>2. DOMAIN Entries(focus) = 1 .. Len(Entries(focus)) /\ Len(Entries(focus)) <= Len(parts[focus])
          /\ Len(Entries(focus)) \in Nat
      BY <1>1, EntriesAre
    <3>3. Len(parts[focus]) \in Nat
      BY <1>1 DEF Typed
    <3> QED BY <3>1, <3>2, <3>3
  <2>3. parts[focus] \in Seq(PartSet) /\ parts[Other] \in Seq(PartSet)
    BY <1>1 DEF Typed
  <2>4. part \in PartSet
    BY <2>2, <2>3
  <2> HIDE DEF part
  <2>5. ps \in Seq(PartSet)
    BY <2>3, <2>4
  <2> HIDE DEF ps
  <2> QED BY <1>1, <2>1, <2>5, EditKeeps
<1> QED BY <1>2, <1>3

\* A save being deleted.
LEMMA DeleteKeeps ==
  ASSUME IInv, ConfirmDelete
  PROVE  IInv'
<1>1. Typed /\ focus \in Cards /\ asking' = "nothing"
  BY DEF IInv, Typed, ConfirmDelete, Confirmed, Put
<1>2. CASE Selected = 0
  BY <1>1, <1>2 DEF ConfirmDelete, IInv, Typed, SelectionIsListed, Asked, Entries, cardVars, placeVars
<1>3. CASE Selected # 0
  <2> DEFINE ps == RemoveAt(parts[focus], Selected)
  <2>1. /\ Edited(focus, ps)
        /\ focus' = focus
        /\ selection' = [selection EXCEPT ![focus] = Clamped(@, 0, Len(Bundles(parts'[focus])))]
    BY <1>3 DEF ConfirmDelete
  <2>2. Selected \in 1 .. Len(parts[focus])
    <3>1. Selected \in DOMAIN Entries(focus)
      BY <1>1, <1>3 DEF IInv, SelectionIsListed, Selected
    <3>2. DOMAIN Entries(focus) = 1 .. Len(Entries(focus)) /\ Len(Entries(focus)) <= Len(parts[focus])
          /\ Len(Entries(focus)) \in Nat
      BY <1>1, EntriesAre
    <3>3. Len(parts[focus]) \in Nat
      BY <1>1 DEF Typed
    <3> QED BY <3>1, <3>2, <3>3
  <2>3. parts[focus] \in Seq(PartSet)
    BY <1>1 DEF Typed
  <2>4. ps \in Seq(PartSet)
    BY <2>2, <2>3, RemoveAtIsSeq
  <2> HIDE DEF ps
  <2> QED BY <1>1, <2>1, <2>4, EditKeeps
<1> QED BY <1>2, <1>3

\* A card being formatted.
LEMMA FormatKeeps ==
  ASSUME IInv, ConfirmFormat
  PROVE  IInv'
<1>1. Typed /\ focus \in Cards /\ asking' = "nothing"
  BY DEF IInv, Typed, ConfirmFormat, Confirmed, Put
<1> DEFINE blank == Read(<<>>)
<1>2. /\ parts' = [parts EXCEPT ![focus] = blank]
      /\ dirty' = [dirty EXCEPT ![focus] = TRUE]
      /\ selection' = [selection EXCEPT ![focus] = 0]
      /\ disk' = disk /\ focus' = focus
  BY DEF ConfirmFormat
<1>3. blank \in Seq(PartSet) /\ Alone(blank) /\ Bundles(blank) = <<>>
  <2>1. <<>> \in Seq(Directories)
    BY ListOfNone
  <2>2. blank \in Seq(PartSet) /\ Alone(blank)
        /\ blank = IF PartsOf(<<>>) = <<>> THEN <<ImagePart(<<>>)>> ELSE PartsOf(<<>>)
    BY <2>1, ReadIs
  <2>3. PartsOf(<<>>) = <<>>
    <3>1. [i \in DOMAIN <<>> |-> DirectoryParts(<<>>[i])] = <<>>
      OBVIOUS
    <3> QED BY <3>1, JoinedEmpty DEF PartsOf
  <2>4. blank = <<ImagePart(<<>>)>>
    BY <2>2, <2>3
  <2>5. Len(blank) = 1 /\ blank[1].kind = "card-image"
    BY <2>4 DEF ImagePart, Part
  <2> HIDE DEF blank
  <2>6. \A i \in 1 .. Len(blank) : blank[i].kind \notin {"bundle"}
    BY <2>5
  <2> QED BY <2>2, <2>6, ThoseNone DEF Bundles
<1> HIDE DEF blank
<1>4. Typed'
  BY <1>1, <1>2, <1>3 DEF Typed
<1>5. ASSUME NEW d \in Cards
      PROVE  /\ Alone(parts'[d])
             /\ IF Entries(d)' = <<>> THEN selection'[d] = 0 ELSE selection'[d] \in DOMAIN Entries(d)'
  <2>1. CASE d = focus
    <3>1. parts'[d] = blank /\ selection'[d] = 0
      BY <1>1, <1>2, <2>1 DEF Typed
    <3> QED BY <3>1, <1>3 DEF Entries
  <2>2. CASE d # focus
    <3>1. parts'[d] = parts[d] /\ selection'[d] = selection[d]
      BY <1>1, <1>2, <2>2 DEF Typed
    <3> QED BY <3>1 DEF IInv, SelectionIsListed, Entries
  <2> QED BY <2>1, <2>2
<1> QED BY <1>1, <1>4, <1>5 DEF IInv, SelectionIsListed, Asked

\* A key that changes no card, and leaves the cursors where they are.
LEMMA StayKeeps ==
  ASSUME IInv, UNCHANGED <<cardVars, placeVars>>, Asked'
  PROVE  IInv'
BY DEF IInv, Typed, SelectionIsListed, Entries, cardVars, placeVars

\* The cursor being moved along a list.
LEMMA StepKeeps ==
  ASSUME IInv, NEW delta \in {-1, 0, 1}, Step(delta)
  PROVE  IInv'
<1>1. Typed /\ focus \in Cards /\ selection \in [Cards -> Nat]
  BY DEF IInv, Typed
<1> DEFINE at == Clamped(selection[focus], delta, Len(Entries(focus)))
<1>2. /\ selection' = [selection EXCEPT ![focus] = at]
      /\ asking' = asking /\ asking = "nothing"
      /\ UNCHANGED <<disk, parts, dirty, focus>>
  BY DEF Step, Browsing, cardVars, modeVars
<1>3. Len(Entries(focus)) \in Nat /\ DOMAIN Entries(focus) = 1 .. Len(Entries(focus))
      /\ (Entries(focus) = <<>> <=> Len(Entries(focus)) = 0)
  BY <1>1, EntriesAre
<1>4. /\ at \in Nat
      /\ Len(Entries(focus)) = 0 => at = 0
      /\ Len(Entries(focus)) # 0 => at \in 1 .. Len(Entries(focus))
  BY <1>1, <1>3, ClampedIs
<1> HIDE DEF at
<1>5. selection' \in [Cards -> Nat] /\ selection'[focus] = at
      /\ \A d \in Cards : d # focus => selection'[d] = selection[d]
  BY <1>1, <1>2, <1>4
<1>6. Typed'
  BY <1>1, <1>2, <1>5 DEF Typed
<1>7. ASSUME NEW d \in Cards
      PROVE  IF Entries(d)' = <<>> THEN selection'[d] = 0 ELSE selection'[d] \in DOMAIN Entries(d)'
  <2>1. Entries(d)' = Entries(d)
    BY <1>2 DEF Entries
  <2>2. CASE d = focus
    BY <2>1, <2>2, <1>3, <1>4, <1>5
  <2>3. CASE d # focus
    BY <2>1, <2>3, <1>5 DEF IInv, SelectionIsListed
  <2> QED BY <2>2, <2>3
<1>8. \A d \in Cards : Alone(parts'[d])
  BY <1>2 DEF IInv
<1> QED BY <1>2, <1>6, <1>7, <1>8 DEF IInv, SelectionIsListed, Asked

\* The other card being looked at.
LEMMA SwitchKeeps ==
  ASSUME IInv, Switch
  PROVE  IInv'
<1>1. Typed /\ focus \in Cards /\ Other \in Cards
  BY OtherIs DEF IInv, Typed
<1>2. focus' \in Cards /\ UNCHANGED <<disk, parts, dirty, selection, asking>> /\ asking = "nothing"
  BY <1>1 DEF Switch, Browsing, cardVars, modeVars
<1>3. Typed'
  BY <1>1, <1>2 DEF Typed
<1> QED BY <1>2, <1>3 DEF IInv, SelectionIsListed, Entries, Asked

\* A list of directories being laid down.
LayStep == [dirs : Seq(Directories), orphan : BOOLEAN]

Nothing == [dirs |-> <<>>, orphan |-> FALSE]

\* Nothing laid down is a list of directories.
LEMMA NothingIs == Nothing \in LayStep
<1>1. <<>> \in Seq(Directories)
  BY ListOfNone
<1> QED BY <1>1 DEF Nothing, LayStep

\* The folders of a name, and the last of them.
Folders(dirs, name) == {i \in DOMAIN dirs : dirs[i].system /\ dirs[i].name = name}
LastOf(folders) == CHOOSE i \in folders : \A j \in folders : j <= i

\* Among folders there is a last.
LEMMA LastOfIs ==
  ASSUME NEW n \in Nat, NEW D, D \subseteq 1 .. n, D # {}
  PROVE  LastOf(D) \in D /\ \A d \in D : d <= LastOf(D)
<1> DEFINE E == {k \in Nat : n - k \in D}
<1>0. \A d \in D : n - d \in Nat /\ n - (n - d) = d
  OBVIOUS
<1>1. E \subseteq Nat /\ E # {}
  BY <1>0
<1>2. PICK m \in E : \A e \in E : m <= e
  <2> HIDE DEF E
  <2> QED BY <1>1, LeastNat
<1>3. PICK d \in D : m = n - d
  <2>1. m \in Nat /\ n - m \in D /\ m = n - (n - m)
    BY <1>2
  <2> QED BY <2>1
<1>4. \A j \in D : j <= d
  <2>1. ASSUME NEW j \in D PROVE j <= d
    <3>1. m <= n - j
      BY <1>0, <1>2
    <3> QED BY <3>1, <1>3
  <2> QED BY <2>1
<1> QED BY <1>4 DEF LastOf

\* The folders of a list, and which is the last of them.
LEMMA FoldersAre ==
  ASSUME NEW dirs \in Seq(Directories), NEW name, Folders(dirs, name) # {}
  PROVE  /\ LastOf(Folders(dirs, name)) \in 1 .. Len(dirs)
         /\ dirs[LastOf(Folders(dirs, name))].system
         /\ dirs[LastOf(Folders(dirs, name))].name = name
         /\ \A j \in 1 .. Len(dirs) :
              dirs[j].system /\ dirs[j].name = name => j <= LastOf(Folders(dirs, name))
<1>1. Folders(dirs, name) \subseteq 1 .. Len(dirs) /\ Len(dirs) \in Nat
  BY DEF Folders
<1>2. /\ LastOf(Folders(dirs, name)) \in Folders(dirs, name)
      /\ \A d \in Folders(dirs, name) : d <= LastOf(Folders(dirs, name))
  BY <1>1, LastOfIs
<1> QED BY <1>1, <1>2 DEF Folders

\* The four things that adding a part can be.
LEMMA AddPartDoes ==
  ASSUME NEW laid \in LayStep, NEW p \in PartSet
  PROVE  \/ /\ p.kind = "bundle" \/ (p.kind = "system" /\ p.files = <<>>)
            /\ AddPart(laid, p) =
                 [laid EXCEPT !.dirs = Append(@, [name |-> p.name, files |-> p.files,
                                                  system |-> p.kind = "system"])]
         \/ /\ p.kind = "system" /\ p.files # <<>> /\ Folders(laid.dirs, p.name) # {}
            /\ AddPart(laid, p) =
                 [laid EXCEPT !.dirs[LastOf(Folders(laid.dirs, p.name))].files = @ \o p.files]
         \/ /\ p.kind = "system" /\ p.files # <<>> /\ Folders(laid.dirs, p.name) = {}
            /\ AddPart(laid, p) = [laid EXCEPT !.orphan = TRUE]
         \/ /\ p.kind = "card-image"
            /\ AddPart(laid, p) = laid
<1>1. p.kind \in Kinds
  BY DEF PartSet
<1>2. CASE p.kind = "bundle" \/ (p.kind = "system" /\ p.files = <<>>)
  BY <1>2 DEF AddPart
<1>3. CASE p.kind = "system" /\ p.files # <<>> /\ Folders(laid.dirs, p.name) # {}
  BY <1>3 DEF AddPart, Folders, LastOf
<1>4. CASE p.kind = "system" /\ p.files # <<>> /\ Folders(laid.dirs, p.name) = {}
  BY <1>4 DEF AddPart, Folders
<1>5. CASE p.kind = "card-image"
  BY <1>5 DEF AddPart
<1> QED BY <1>1, <1>2, <1>3, <1>4, <1>5 DEF Kinds

\* A list of directories with a part more on it is one.
LEMMA AddPartIs ==
  ASSUME NEW laid \in LayStep, NEW p \in PartSet
  PROVE  AddPart(laid, p) \in LayStep
<1>1. laid.dirs \in Seq(Directories) /\ laid.orphan \in BOOLEAN
  BY DEF LayStep
<1>2. p.files \in Seq(STRING) /\ (p.kind # "card-image" => p.name \in STRING)
  BY DEF PartSet
<1>3. CASE /\ p.kind = "bundle" \/ (p.kind = "system" /\ p.files = <<>>)
           /\ AddPart(laid, p) =
                 [laid EXCEPT !.dirs = Append(@, [name |-> p.name, files |-> p.files,
                                                  system |-> p.kind = "system"])]
  <2> DEFINE d == [name |-> p.name, files |-> p.files, system |-> p.kind = "system"]
  <2>1. p.name \in STRING
    BY <1>2, <1>3
  <2>2. d \in Directories
    BY <1>2, <2>1 DEF Directories
  <2> HIDE DEF d
  <2>3. Append(laid.dirs, d) \in Seq(Directories)
    BY <1>1, <2>2
  <2>4. AddPart(laid, p) = [laid EXCEPT !.dirs = Append(laid.dirs, d)]
    BY <1>3 DEF d
  <2> QED BY <2>3, <2>4 DEF LayStep
<1>4. CASE /\ Folders(laid.dirs, p.name) # {}
           /\ AddPart(laid, p) =
                 [laid EXCEPT !.dirs[LastOf(Folders(laid.dirs, p.name))].files = @ \o p.files]
  <2> DEFINE at == LastOf(Folders(laid.dirs, p.name))
             more == laid.dirs[at].files \o p.files
             d == [laid.dirs[at] EXCEPT !.files = more]
  <2>1. at \in 1 .. Len(laid.dirs)
    BY <1>1, <1>4, FoldersAre
  <2>2. laid.dirs[at] \in Directories /\ laid.dirs[at].files \in Seq(STRING)
    <3>1. laid.dirs[at] \in Directories
      BY <1>1, <2>1
    <3> QED BY <3>1 DEF Directories
  <2>3. more \in Seq(STRING)
    BY <1>2, <2>2, ConcatIs
  <2>4. AddPart(laid, p) = [laid EXCEPT !.dirs = [laid.dirs EXCEPT ![at] = d]]
    BY <1>4
  <2> HIDE DEF at, more
  <2>5. d \in Directories
    BY <2>2, <2>3 DEF Directories
  <2> HIDE DEF d
  <2>6. [laid.dirs EXCEPT ![at] = d] \in Seq(Directories)
    BY <1>1, <2>1, <2>5
  <2> QED BY <2>4, <2>6 DEF LayStep
<1>5. CASE AddPart(laid, p) = [laid EXCEPT !.orphan = TRUE]
  BY <1>5 DEF LayStep
<1>6. CASE AddPart(laid, p) = laid
  BY <1>6
<1> QED BY <1>3, <1>4, <1>5, <1>6, AddPartDoes

\* The directories as far as the parts have been laid down.
Laying(s) ==
    CHOOSE laid : laid = [n \in 0 .. Len(s) |-> IF n = 0 THEN Nothing ELSE AddPart(laid[n - 1], s[n])]

\* The function there is a choice of is there, and gives directories.
LEMMA LayingIsThere ==
  ASSUME NEW s \in Seq(PartSet)
  PROVE  /\ Laying(s) \in [0 .. Len(s) -> LayStep]
         /\ Laying(s)[0] = Nothing
         /\ \A n \in 1 .. Len(s) : Laying(s)[n] = AddPart(Laying(s)[n - 1], s[n])
         /\ Laid(s) = Laying(s)[Len(s)]
<1> DEFINE N == Len(s)
           T == LayStep
           step == [x \in T \X (1 .. N) |-> AddPart(x[1], s[x[2]])]
           base == Nothing
           Body(f) == [n \in 0 .. N |-> IF n = 0 THEN base ELSE AddPart(f[n - 1], s[n])]
           g == Laying(s)
<1>1. N \in Nat /\ base \in T
  BY NothingIs
<1>a. \A x \in T, n \in 1 .. N : AddPart(x, s[n]) \in T
  <2>1. \A n \in 1 .. N : s[n] \in PartSet
    OBVIOUS
  <2> QED BY <2>1, AddPartIs
<1>2. /\ step \in [T \X (1 .. N) -> T]
      /\ \A x \in T, n \in 1 .. N : step[<<x, n>>] = AddPart(x, s[n])
  <2> HIDE DEF N, T
  <2> QED BY <1>a
<1> HIDE DEF step
<1>3. PICK f \in [0 .. N -> T] : Steps(f, base, N, step)
  <2>1. step \in [T \X (1 .. N) -> T]
    BY <1>2
  <2> HIDE DEF N, T, base
  <2> QED BY <1>1, <2>1, Recursion, Zenon
<1>4. f = Body(f)
  <2> HIDE DEF T, N, base
  <2>1. ASSUME NEW n \in 0 .. N, n # 0
        PROVE  f[n] = AddPart(f[n - 1], s[n])
    <3>1. n \in 1 .. N /\ n - 1 \in 0 .. N
      BY <2>1, <1>1
    <3>2. f[n - 1] \in T
      BY <3>1
    <3> QED BY <3>1, <3>2, <1>2, <1>3 DEF Steps
  <2> QED BY <2>1, <1>3 DEF Steps
<1>5. g = Body(g)
  <2>1. g = CHOOSE laid : laid = Body(laid)
    BY DEF Laying
  <2> HIDE DEF g, Body
  <2> QED BY <1>4, <2>1
<1>6. Laid(s) = g[N]
  BY DEF Laid, Laying, Nothing
<1> HIDE DEF g
<1>7. /\ g[0] = base
      /\ \A n \in 1 .. N : g[n] = AddPart(g[n - 1], s[n])
      /\ DOMAIN g = 0 .. N /\ g = [n \in DOMAIN g |-> g[n]]
  <2> HIDE DEF N, base
  <2>1. DOMAIN g = 0 .. N /\ g = [n \in DOMAIN g |-> g[n]]
    BY <1>5
  <2>2. g[0] = base
    BY <1>5, <1>1
  <2>3. ASSUME NEW n \in 1 .. N
        PROVE  g[n] = AddPart(g[n - 1], s[n])
    <3>1. n \in 0 .. N /\ n # 0
      BY <1>1
    <3> QED BY <3>1, <1>5
  <2> QED BY <2>1, <2>2, <2>3
<1>8. \A n \in 0 .. N : g[n] \in T
  <2> HIDE DEF N, T, base
  <2>1. \A n \in 1 .. N : g[n - 1] \in T => g[n] \in T
    BY <1>7, <1>a
  <2> QED BY <2>1, <1>1, <1>7, StepsStay
<1>9. g \in [0 .. N -> T]
  <2> HIDE DEF N, T
  <2> QED BY <1>7, <1>8
<1> QED BY <1>6, <1>7, <1>9 DEF g

\* No parts make no directories.
LEMMA LaidEmpty == Laid(<<>>) = Nothing
<1>1. ASSUME NEW s \in Seq(PartSet), Len(s) = 0
      PROVE  Laid(s) = Nothing
  <2>1. Laying(s)[0] = Nothing /\ Laid(s) = Laying(s)[Len(s)]
    BY LayingIsThere
  <2> QED BY <1>1, <2>1
<1>2. <<>> \in Seq(PartSet) /\ Len(<<>>) = 0
  OBVIOUS
<1> QED BY <1>1, <1>2

\* A part more is laid after the others.
LEMMA LaidAppend ==
  ASSUME NEW s \in Seq(PartSet), NEW e \in PartSet
  PROVE  Laid(Append(s, e)) = AddPart(Laid(s), e)
<1> DEFINE t == Append(s, e)
           N == Len(s)
           g == Laying(s)
           h == Laying(t)
<1>1. t \in Seq(PartSet) /\ Len(t) = N + 1 /\ N \in Nat /\ t[N + 1] = e
  OBVIOUS
<1>2. \A n \in 1 .. N : t[n] = s[n]
  OBVIOUS
<1> HIDE DEF t
<1>3. /\ g[0] = Nothing /\ Laid(s) = g[N]
      /\ \A n \in 1 .. N : g[n] = AddPart(g[n - 1], s[n])
  BY LayingIsThere
<1>4. /\ h[0] = Nothing /\ Laid(t) = h[N + 1]
      /\ \A n \in 1 .. N + 1 : h[n] = AddPart(h[n - 1], t[n])
  BY <1>1, LayingIsThere
<1> HIDE DEF g, h, N
<1>5. \A n \in Nat : n \in {k \in Nat : k <= N => h[k] = g[k]}
  <2> DEFINE P == {k \in Nat : k <= N => h[k] = g[k]}
  <2>1. 0 \in P
    BY <1>3, <1>4
  <2>2. ASSUME NEW n \in Nat, n \in P PROVE n + 1 \in P
    <3> SUFFICES ASSUME n + 1 <= N PROVE h[n + 1] = g[n + 1]
      OBVIOUS
    <3>1. h[n] = g[n] /\ n + 1 \in 1 .. N /\ n + 1 \in 1 .. N + 1 /\ (n + 1) - 1 = n
      BY <2>2, <1>1
    <3>2. g[n + 1] = AddPart(g[n], s[n + 1])
      BY <3>1, <1>3
    <3>3. h[n + 1] = AddPart(h[n], t[n + 1])
      BY <3>1, <1>4
    <3> QED BY <3>1, <3>2, <3>3, <1>2
  <2>3. \A n \in Nat : n \in P
    <3> HIDE DEF P
    <3> QED BY <2>1, <2>2, NatInduct
  <2> QED BY <2>3
<1>6. h[N] = g[N]
  BY <1>5, <1>1
<1>7. h[N + 1] = AddPart(h[N], t[N + 1])
  <2>1. N + 1 \in 1 .. N + 1 /\ (N + 1) - 1 = N
    BY <1>1
  <2> QED BY <2>1, <1>4
<1> QED BY <1>1, <1>3, <1>4, <1>6, <1>7 DEF t

\* It is a list of directories.
LEMMA LaidIs ==
  ASSUME NEW s \in Seq(PartSet)
  PROVE  Laid(s) \in LayStep
<1>1. /\ Laying(s) \in [0 .. Len(s) -> LayStep]
      /\ Laid(s) = Laying(s)[Len(s)]
  BY LayingIsThere
<1>2. Len(s) \in 0 .. Len(s)
  OBVIOUS
<1> QED BY <1>1, <1>2

\* What is written in a card's file is a list of directories.
LEMMA RebuiltIs ==
  ASSUME Typed, NEW c \in Cards
  PROVE  Rebuilt(c) \in Seq(Directories)
<1>1. parts[c] \in Seq(PartSet)
  BY DEF Typed
<1>2. CASE ImageOnly(parts[c])
  <2>1. PICK i \in DOMAIN parts[c] : parts[c][i].kind = "card-image"
    BY <1>2 DEF ImageOnly
  <2> DEFINE at == CHOOSE k \in DOMAIN parts[c] : parts[c][k].kind = "card-image"
  <2>2. at \in DOMAIN parts[c] /\ Image(parts[c]) = parts[c][at].image
    BY <2>1 DEF Image
  <2> HIDE DEF at
  <2>3. parts[c][at] \in PartSet
    BY <1>1, <2>2
  <2>4. parts[c][at].image \in Seq(Directories)
    BY <2>3 DEF PartSet
  <2> QED BY <1>2, <2>2, <2>4 DEF Rebuilt
<1>3. CASE ~ImageOnly(parts[c])
  <2>1. Laid(parts[c]) \in LayStep
    BY <1>1, LaidIs
  <2> QED BY <1>3, <2>1 DEF Rebuilt, LayStep
<1> QED BY <1>2, <1>3

\* A card being written to its file.
LEMMA WriteKeeps ==
  ASSUME IInv, ConfirmWrite
  PROVE  IInv'
<1>1. Typed /\ focus \in Cards /\ asking' = "nothing" /\ UNCHANGED <<parts, focus, selection>>
  BY DEF IInv, Typed, ConfirmWrite, Confirmed, Put, cardVars, placeVars
<1>2. \/ UNCHANGED <<disk, dirty>>
      \/ /\ disk' = [disk EXCEPT ![focus] = Rebuilt(focus)]
         /\ dirty' = [dirty EXCEPT ![focus] = FALSE]
  BY DEF ConfirmWrite, cardVars
<1>3. Rebuilt(focus) \in Seq(Directories)
  BY <1>1, RebuiltIs
<1>4. disk' \in [Cards -> Seq(Directories) \cup {Nowhere}] /\ dirty' \in [Cards -> BOOLEAN]
  BY <1>1, <1>2, <1>3 DEF Typed
<1>5. Typed'
  BY <1>1, <1>4 DEF Typed
<1> QED BY <1>1, <1>5 DEF IInv, SelectionIsListed, Entries, Asked

\* Two cards as they are opened.
LEMMA InitIInv == Init => IInv
<1> SUFFICES ASSUME Init PROVE IInv
  OBVIOUS
<1> DEFINE On(c) == IF disk[c] = Nowhere THEN <<>> ELSE disk[c]
<1>1. disk \in [Cards -> Seq(Directories) \cup {Nowhere}]
  BY DisksAssumption DEF Init
<1>2. <<>> \in Seq(Directories)
  BY ListOfNone
<1>3. ASSUME NEW c \in Cards
      PROVE  On(c) \in Seq(Directories)
  BY <1>1, <1>2
<1>4. \A c \in Cards : parts[c] = Read(On(c)) /\ parts = [d \in Cards |-> parts[d]]
  BY DEF Init
<1> HIDE DEF On
<1>5. \A c \in Cards : parts[c] \in Seq(PartSet) /\ Alone(parts[c])
  BY <1>3, <1>4, ReadIs
<1>6. parts \in [Cards -> Seq(PartSet)]
  BY <1>5 DEF Init
<1>7. focus \in Cards /\ dirty \in [Cards -> BOOLEAN]
  BY CardsAssumption DEF Init, Cards
<1>8. \A c \in Cards : selection[c] = IF Entries(c) = <<>> THEN 0 ELSE 1
  BY DEF Init
<1>9. selection \in [Cards -> Nat]
  BY DEF Init
<1>10. Typed
  BY <1>1, <1>6, <1>7, <1>9 DEF Typed
<1>11. ASSUME NEW c \in Cards
       PROVE  IF Entries(c) = <<>> THEN selection[c] = 0 ELSE selection[c] \in DOMAIN Entries(c)
  <2>1. /\ Len(Entries(c)) \in Nat /\ DOMAIN Entries(c) = 1 .. Len(Entries(c))
        /\ (Entries(c) = <<>> <=> Len(Entries(c)) = 0)
    BY <1>10, EntriesAre
  <2> QED BY <1>8, <2>1
<1> QED BY <1>5, <1>10, <1>11 DEF Init, IInv, SelectionIsListed, Asked

\* Every key keeps it.
LEMMA NextIInv == IInv /\ [Next]_vars => IInv'
<1> SUFFICES ASSUME IInv, [Next]_vars PROVE IInv'
  OBVIOUS
<1>1. CASE Step(-1) \/ Step(1)
  BY <1>1, StepKeeps
<1>2. CASE Switch
  BY <1>2, SwitchKeeps
<1>3. CASE AskDelete
  <2>1. UNCHANGED <<cardVars, placeVars>> /\ Asked'
    BY <1>3 DEF AskDelete, Ask, Browsing, Asked, Showing, Selected, Entries, cardVars, placeVars, modeVars
  <2> QED BY <2>1, StayKeeps
<1>4. CASE AskFormat
  <2>1. UNCHANGED <<cardVars, placeVars>> /\ Asked'
    BY <1>4 DEF AskFormat, Ask, Asked
  <2> QED BY <2>1, StayKeeps
<1>5. CASE AskWrite
  <2>1. UNCHANGED <<cardVars, placeVars>> /\ Asked'
    BY <1>5 DEF AskWrite, Ask, Browsing, Asked, cardVars, placeVars, modeVars
  <2> QED BY <2>1, StayKeeps
<1>6. CASE AskQuit
  <2>1. UNCHANGED <<cardVars, placeVars>> /\ Asked'
    BY <1>6 DEF AskQuit, Ask, Browsing, Asked, cardVars, placeVars, modeVars
  <2> QED BY <2>1, StayKeeps
<1>7. CASE Copy
  <2>1. CASE UNCHANGED <<cardVars, placeVars>>
    <3>1. Asked'
      BY <1>7, <2>1 DEF Copy, DoCopy, Ask, Browsing, Asked, modeVars
    <3> QED BY <2>1, <3>1, StayKeeps
  <2>2. CASE ~UNCHANGED <<cardVars, placeVars>>
    <3>1. DoCopy /\ asking' = "nothing"
      BY <1>7, <2>2 DEF Copy, Browsing, modeVars
    <3> QED BY <3>1, CopyKeeps
  <2> QED BY <2>1, <2>2
<1>8. CASE PointAt(TRUE) \/ PointAt(FALSE)
  <2>1. UNCHANGED <<cardVars, placeVars>> /\ Asked'
    BY <1>8 DEF PointAt, IInv, Asked, Showing, Selected, Entries, cardVars, placeVars
  <2> QED BY <2>1, StayKeeps
<1>9. CASE Dismiss
  <2>1. UNCHANGED <<cardVars, placeVars>> /\ Asked'
    BY <1>9 DEF Dismiss, Put, Asked
  <2> QED BY <2>1, StayKeeps
<1>10. CASE ConfirmDelete
  BY <1>10, DeleteKeeps
<1>11. CASE ConfirmCopyOver
  <2>1. DoCopy /\ asking' = "nothing"
    BY <1>11 DEF ConfirmCopyOver, Confirmed, Put
  <2> QED BY <2>1, CopyKeeps
<1>12. CASE ConfirmFormat
  BY <1>12, FormatKeeps
<1>13. CASE ConfirmWrite
  BY <1>13, WriteKeeps
<1>14. CASE ConfirmQuit
  <2>1. UNCHANGED <<cardVars, placeVars>> /\ Asked'
    BY <1>14 DEF ConfirmQuit, Confirmed, Put, Asked
  <2> QED BY <2>1, StayKeeps
<1>15. CASE UNCHANGED vars
  <2>1. UNCHANGED <<cardVars, placeVars>> /\ Asked'
    BY <1>15 DEF vars, IInv, Asked, Showing, Selected, Entries, cardVars, placeVars, modeVars
  <2> QED BY <2>1, StayKeeps
<1> QED BY <1>1, <1>2, <1>3, <1>4, <1>5, <1>6, <1>7, <1>8, <1>9, <1>10, <1>11, <1>12, <1>13, <1>14, <1>15
        DEF Next, Browse, Answer

\* It holds of every sitting.
LEMMA SpecIInv == Spec => []IInv
<1>1. Init => IInv
  BY InitIInv
<1>2. IInv /\ [Next]_vars => IInv'
  BY NextIInv
<1> QED BY <1>1, <1>2, PTL DEF Spec

\* However saves are copied, deleted and formatted away, whatever the cards
\* held, each list's cursor is on a save of it (App::step, do_copy, confirm).
THEOREM SelectionStays == Spec => []SelectionIsListed
<1>1. IInv => SelectionIsListed
  BY DEF IInv
<1> QED BY <1>1, SpecIInv, PTL

-----------------------------------------------------------------------------
(* What a key changes.                                                     *)

\* A card's image is alone on it, and no save.
LEMMA ImageIsAlone ==
  ASSUME NEW ps \in Seq(PartSet), Alone(ps), NEW i \in 1 .. Len(ps), ps[i].kind = "card-image"
  PROVE  /\ ps[i].image \in Seq(Directories)
         /\ PartsOf(ps[i].image) = <<>>
         /\ ps = <<ImagePart(ps[i].image)>>
         /\ Bundles(ps) = <<>>
<1> DEFINE dirs == ps[i].image
<1>1. ps[i] \in PartSet
  OBVIOUS
<1>2. dirs \in Seq(Directories) /\ ps = Read(dirs)
  BY <1>1 DEF PartSet, Alone
<1> HIDE DEF dirs
<1>3. ps = IF PartsOf(dirs) = <<>> THEN <<ImagePart(dirs)>> ELSE PartsOf(dirs)
  BY <1>2, ReadIs
<1>4. PartsOf(dirs) = <<>>
  <2> SUFFICES ASSUME PartsOf(dirs) # <<>> PROVE FALSE
    OBVIOUS
  <2>1. ps \in Seq(Plain)
    BY <1>2, <1>3, PartsOfIs
  <2>2. ps[i] \in Plain
    BY <2>1
  <2> QED BY <2>2 DEF Plain
<1>5. ps = <<ImagePart(dirs)>>
  BY <1>3, <1>4
<1>6. \A j \in 1 .. Len(ps) : ps[j].kind \notin {"bundle"}
  <2>1. Len(ps) = 1 /\ ps[1] = ps[i]
    BY <1>5
  <2> QED BY <2>1
<1>7. Bundles(ps) = <<>>
  BY <1>6, ThoseNone DEF Bundles
<1> QED BY <1>2, <1>4, <1>5, <1>7 DEF dirs

\* On a card with nothing of the console's own, the list is the parts.
LEMMA SavesAlone ==
  ASSUME NEW ps \in Seq(PartSet), Alone(ps), SystemParts(ps) = <<>>, Bundles(ps) # <<>>
  PROVE  /\ \A i \in 1 .. Len(ps) : ps[i].kind \in {"bundle"}
         /\ Bundles(ps) = ps
<1>1. \A i \in 1 .. Len(ps) : ps[i].kind \notin {"system"}
  BY ThoseNone DEF SystemParts
<1>2. \A i \in 1 .. Len(ps) : ps[i].kind \in {"bundle"}
  <2> SUFFICES ASSUME NEW i \in 1 .. Len(ps) PROVE ps[i].kind \in {"bundle"}
    OBVIOUS
  <2>1. ps[i] \in PartSet
    OBVIOUS
  <2>2. ps[i].kind # "card-image"
    BY ImageIsAlone
  <2> QED BY <2>1, <2>2, <1>1 DEF PartSet, Kinds
<1> QED BY <1>2, ThoseAll DEF Bundles

\* A copy's own: the part goes after the others, on the other card.
LEMMA CopyActs ==
  ASSUME IInv, DoCopy, asking # "delete", NEW c \in Cards, parts'[c] # parts[c],
         SystemParts(parts[focus]) = <<>>
  PROVE  Acted(c)
<1>1. Typed /\ focus \in Cards /\ Other \in Cards
  BY OtherIs DEF IInv, Typed
<1>2. parts[focus] \in Seq(PartSet) /\ parts[Other] \in Seq(PartSet)
      /\ Alone(parts[focus]) /\ parts \in [Cards -> Seq(PartSet)]
  BY <1>1 DEF Typed, IInv
<1> DEFINE part == parts[focus][Selected]
           ps == Append(parts[Other], part)
           left == Those(ps, {"bundle", "system"})
<1>3. Selected # 0 /\ parts' = [parts EXCEPT ![Other] = left]
  BY DEF DoCopy, Edited, cardVars, placeVars
<1>4. c = Other /\ parts'[c] = left
  BY <1>1, <1>2, <1>3
<1>5. Selected \in 1 .. Len(Entries(focus)) /\ Entries(focus) # <<>>
  <2>1. IF Entries(focus) = <<>> THEN Selected = 0 ELSE Selected \in DOMAIN Entries(focus)
    BY <1>1 DEF IInv, SelectionIsListed, Selected
  <2> QED BY <1>1, <1>3, <2>1, EntriesAre
<1>6. Entries(focus) = parts[focus] /\ part.kind = "bundle" /\ part \in PartSet
  <2>1. Bundles(parts[focus]) # <<>>
    BY <1>5 DEF Entries
  <2>2. /\ \A i \in 1 .. Len(parts[focus]) : parts[focus][i].kind \in {"bundle"}
        /\ Bundles(parts[focus]) = parts[focus]
    BY <1>2, <2>1, SavesAlone
  <2>3. Entries(focus) = parts[focus]
    BY <2>2 DEF Entries
  <2>4. Selected \in 1 .. Len(parts[focus])
    BY <1>5, <2>3
  <2>5. part \in PartSet
    BY <1>2, <2>4
  <2> QED BY <2>2, <2>3, <2>4, <2>5
<1>7. part = Entries(focus)[Selected]
  BY <1>6
<1> HIDE DEF part
<1>8. ps \in Seq(PartSet)
  BY <1>2, <1>6
<1>9. Bundles(ps) = Append(Bundles(parts[Other]), part) /\ SystemParts(ps) = SystemParts(parts[Other])
  <2>1. part.kind \in {"bundle"} /\ part.kind \notin {"system"}
    BY <1>6
  <2> QED BY <1>2, <1>6, <2>1, ThoseAppend DEF Bundles, SystemParts
<1>10. Bundles(left) = Bundles(ps) /\ SystemParts(left) = SystemParts(ps)
  BY <1>8, EditedIs
<1> HIDE DEF ps, left
<1>11. Entries(c)' = Append(Entries(c), Entries(focus)[Selected])
  BY <1>4, <1>7, <1>9, <1>10 DEF Entries
<1>12. SystemParts(parts'[c]) = SystemParts(parts[c])
  BY <1>4, <1>9, <1>10
<1> QED BY <1>4, <1>11, <1>12 DEF Acted

\* A deletion's own: the save the question named goes, and nothing else.
LEMMA DeleteActs ==
  ASSUME IInv, ConfirmDelete, NEW c \in Cards, parts'[c] # parts[c],
         SystemParts(parts[focus]) = <<>>
  PROVE  Acted(c)
<1>1. Typed /\ focus \in Cards /\ asking = "delete" /\ yes
  BY DEF IInv, Typed, ConfirmDelete, Confirmed
<1>2. parts[focus] \in Seq(PartSet) /\ Alone(parts[focus]) /\ parts \in [Cards -> Seq(PartSet)]
  BY <1>1 DEF Typed, IInv
<1> DEFINE ps == RemoveAt(parts[focus], Selected)
           left == Those(ps, {"bundle", "system"})
<1>3. Selected # 0 /\ parts' = [parts EXCEPT ![focus] = left] /\ said' = "deleted"
  BY DEF ConfirmDelete, Edited, cardVars, placeVars
<1>4. c = focus /\ parts'[c] = left
  BY <1>1, <1>2, <1>3
<1>5. Selected \in 1 .. Len(Entries(focus)) /\ Entries(focus) # <<>>
      /\ Entries(focus)[Selected].name = about
  <2>1. IF Entries(focus) = <<>> THEN Selected = 0 ELSE Selected \in DOMAIN Entries(focus)
    BY <1>1 DEF IInv, SelectionIsListed, Selected
  <2> QED BY <1>1, <1>3, <2>1, EntriesAre DEF IInv, Asked
<1>6. /\ Entries(focus) = parts[focus]
      /\ \A i \in 1 .. Len(parts[focus]) : parts[focus][i].kind \in {"bundle"}
  <2>1. Bundles(parts[focus]) # <<>>
    BY <1>5 DEF Entries
  <2> QED BY <1>2, <2>1, SavesAlone DEF Entries
<1>7. /\ ps \in Seq(PartSet) /\ Len(ps) = Len(parts[focus]) - 1
      /\ \A j \in 1 .. Len(parts[focus]) - 1 :
           ps[j] = IF j < Selected THEN parts[focus][j] ELSE parts[focus][j + 1]
  <2>1. Selected \in 1 .. Len(parts[focus])
    BY <1>5, <1>6
  <2> QED BY <1>2, <2>1, RemoveAtIsSeq
<1>8. \A j \in 1 .. Len(ps) : ps[j].kind \in {"bundle"}
  <2> SUFFICES ASSUME NEW j \in 1 .. Len(ps) PROVE ps[j].kind \in {"bundle"}
    OBVIOUS
  <2> HIDE DEF ps
  <2>0. Len(parts[focus]) \in Nat
    BY <1>2
  <2>1. j \in 1 .. Len(parts[focus]) /\ j + 1 \in 1 .. Len(parts[focus]) /\ j \in 1 .. Len(parts[focus]) - 1
    BY <1>7, <2>0
  <2> QED BY <2>1, <1>6, <1>7
<1> HIDE DEF ps
<1>9. Bundles(ps) = ps /\ SystemParts(ps) = <<>>
  <2>1. \A j \in 1 .. Len(ps) : ps[j].kind \notin {"system"}
    BY <1>8
  <2> QED BY <1>7, <1>8, <2>1, ThoseAll, ThoseNone DEF Bundles, SystemParts
<1>10. Bundles(left) = ps /\ SystemParts(left) = <<>>
  BY <1>7, <1>9, EditedIs
<1> HIDE DEF left
<1>11. Entries(c)' = RemoveAt(Entries(c), Selected)
  BY <1>4, <1>6, <1>10 DEF Entries, ps
<1>12. SystemParts(parts'[c]) = SystemParts(parts[c])
  BY <1>4, <1>10
<1> QED BY <1>3, <1>4, <1>5, <1>11, <1>12 DEF Acted

\* A key's own change to a card is the one it says.
LEMMA StepActs ==
  ASSUME IInv, Next, NEW c \in Cards, parts'[c] # parts[c], SystemParts(parts[focus]) = <<>>
  PROVE  Acted(c)
<1>1. CASE Copy
  <2>1. DoCopy /\ asking # "delete"
    BY <1>1 DEF Copy, Browsing, cardVars
  <2> QED BY <2>1, CopyActs
<1>2. CASE ConfirmCopyOver
  <2>1. DoCopy /\ asking # "delete"
    BY <1>2 DEF ConfirmCopyOver, Confirmed
  <2> QED BY <2>1, CopyActs
<1>3. CASE ConfirmDelete
  BY <1>3, DeleteActs
<1>4. CASE ConfirmFormat
  <2>1. asking = "format" /\ said' = "formatted"
    BY <1>4 DEF ConfirmFormat, Confirmed
  <2> QED BY <2>1 DEF Acted
<1>5. CASE ~Copy /\ ~ConfirmCopyOver /\ ~ConfirmDelete /\ ~ConfirmFormat
  <2>1. parts' = parts
    BY <1>5 DEF Next, Browse, Answer, Step, Switch, AskDelete, AskFormat, AskWrite, AskQuit, PointAt,
                Dismiss, ConfirmWrite, ConfirmQuit, cardVars
  <2> QED BY <2>1
<1> QED BY <1>1, <1>2, <1>3, <1>4, <1>5

\* The card a key changes is the card in focus after it.
LEMMA FocusFollows ==
  ASSUME IInv, Next, NEW c \in Cards, parts'[c] # parts[c]
  PROVE  focus' = c
<1>1. Typed /\ focus \in Cards /\ Other \in Cards /\ parts \in [Cards -> Seq(PartSet)]
  BY OtherIs DEF IInv, Typed
<1>2. CASE DoCopy
  BY <1>1, <1>2 DEF DoCopy, Edited, cardVars, placeVars
<1>3. CASE ConfirmDelete
  BY <1>1, <1>3 DEF ConfirmDelete, Edited, cardVars, placeVars
<1>4. CASE ConfirmFormat
  BY <1>1, <1>4 DEF ConfirmFormat
<1>5. CASE ~DoCopy /\ ~ConfirmDelete /\ ~ConfirmFormat
  <2>1. parts' = parts
    BY <1>5 DEF Next, Browse, Answer, Step, Switch, AskDelete, AskFormat, AskWrite, AskQuit, PointAt,
                Dismiss, ConfirmWrite, ConfirmQuit, Copy, ConfirmCopyOver, cardVars
  <2> QED BY <2>1
<1> QED BY <1>2, <1>3, <1>4, <1>5

\* A file changes as the answer to the question about writing it.
LEMMA WritesWhenAsked ==
  ASSUME IInv, Next, NEW c \in Cards, disk'[c] # disk[c]
  PROVE  c = focus /\ asking = "write" /\ yes /\ dirty[c] /\ c \notin ReadOnlyCards
<1>1. Typed /\ focus \in Cards /\ disk \in [Cards -> Seq(Directories) \cup {Nowhere}]
  BY DEF IInv, Typed
<1>2. CASE ConfirmWrite
  <2>1. /\ asking = "write" /\ yes /\ focus \notin ReadOnlyCards
        /\ disk' = [disk EXCEPT ![focus] = Rebuilt(focus)]
    BY <1>2 DEF ConfirmWrite, Confirmed, cardVars
  <2>2. c = focus
    BY <1>1, <2>1
  <2>3. dirty[focus]
    BY <2>1 DEF IInv, Asked
  <2> QED BY <2>1, <2>2, <2>3
<1>3. CASE ~ConfirmWrite
  <2>1. disk' = disk
    BY <1>3 DEF Next, Browse, Answer, Step, Switch, AskDelete, AskFormat, AskWrite, AskQuit, PointAt,
                Dismiss, ConfirmDelete, ConfirmFormat, ConfirmQuit, Copy, ConfirmCopyOver, DoCopy, Edited,
                cardVars
  <2> QED BY <2>1
<1> QED BY <1>2, <1>3

\* The program is left with work undone only on a Yes to the question about it.
LEMMA QuitsWhenTold ==
  ASSUME Next, done', ~done, \E c \in Cards : dirty[c]
  PROVE  asking = "quit" /\ yes
BY DEF Next, Browse, Answer, Step, Switch, AskDelete, AskFormat, AskWrite, AskQuit, PointAt,
       Dismiss, ConfirmDelete, ConfirmFormat, ConfirmQuit, Copy, ConfirmCopyOver, ConfirmWrite, Confirmed

\* A key leaves the cursor on the card it changed, writes a file when told to
\* write that file, and leaves work behind when told to, whatever is on the
\* cards; and on a card with nothing of its console's own it acts on the save
\* under the cursor (App::on_key, App::confirm).
THEOREM KeysAct == Spec => KeysDoWhatTheySay
<1>1. IInv /\ [Next]_vars =>
        [\A c \in Cards : parts'[c] # parts[c] /\ SystemParts(parts[focus]) = <<>> => Acted(c)]_vars
  BY StepActs
<1>2. IInv /\ [Next]_vars => [\A c \in Cards : parts'[c] # parts[c] => focus' = c]_vars
  BY FocusFollows
<1>3. IInv /\ [Next]_vars =>
        [\A c \in Cards : disk'[c] # disk[c] =>
            c = focus /\ asking = "write" /\ yes /\ dirty[c] /\ c \notin ReadOnlyCards]_vars
  BY WritesWhenAsked
<1>4. IInv /\ [Next]_vars =>
        [done' /\ ~done /\ (\E c \in Cards : dirty[c]) => asking = "quit" /\ yes]_vars
  BY QuitsWhenTold
<1>5. Spec => ActsOnTheListed
  BY <1>1, SpecIInv, PTL DEF Spec, ActsOnTheListed
<1>6. Spec => FocusFollowsTheEdit
  BY <1>2, SpecIInv, PTL DEF Spec, FocusFollowsTheEdit
<1>7. Spec => WritesOnlyWhenAsked
  BY <1>3, SpecIInv, PTL DEF Spec, WritesOnlyWhenAsked
<1>8. Spec => QuitsOnlyWhenTold
  BY <1>4, SpecIInv, PTL DEF Spec, QuitsOnlyWhenTold
<1> QED BY <1>5, <1>6, <1>7, <1>8 DEF KeysDoWhatTheySay

-----------------------------------------------------------------------------
(* What a card holds.                                                      *)

\* What a list's files come to, for a list of anything that has files.
LEMMA FilesAre ==
  ASSUME NEW S, \A e \in S : Len(e.files) \in Nat, NEW s \in Seq(S)
  PROVE  /\ [i \in DOMAIN s |-> Len(s[i].files)] \in Seq(Nat)
         /\ Len([i \in DOMAIN s |-> Len(s[i].files)]) = Len(s)
         /\ Files(s) \in Nat
<1> DEFINE f == [i \in DOMAIN s |-> Len(s[i].files)]
<1>1. DOMAIN s = 1 .. Len(s) /\ Len(s) \in Nat /\ \A i \in 1 .. Len(s) : s[i] \in S
  OBVIOUS
<1>2. f \in [1 .. Len(s) -> Nat]
  BY <1>1
<1>3. Files(s) = Total(f)
  BY DEF Files
<1> HIDE DEF f
<1>4. f \in Seq(Nat) /\ Len(f) = Len(s)
  BY <1>1, <1>2, ListOf
<1>5. Total(f) \in Nat
  BY <1>4, TotalIsNat
<1> QED BY <1>3, <1>4, <1>5 DEF f

\* Two lists of files come to what each does.
LEMMA FilesConcat ==
  ASSUME NEW S, \A e \in S : Len(e.files) \in Nat, NEW s \in Seq(S), NEW t \in Seq(S)
  PROVE  Files(s \o t) = Files(s) + Files(t)
<1> DEFINE f == [i \in DOMAIN s |-> Len(s[i].files)]
           g == [i \in DOMAIN t |-> Len(t[i].files)]
           h == [i \in DOMAIN (s \o t) |-> Len((s \o t)[i].files)]
<1>1. f \in Seq(Nat) /\ Len(f) = Len(s) /\ g \in Seq(Nat) /\ Len(g) = Len(t)
  BY FilesAre
<1>2. s \o t \in Seq(S) /\ Len(s \o t) = Len(s) + Len(t)
      /\ (\A i \in 1 .. Len(s) : (s \o t)[i] = s[i])
      /\ \A i \in Len(s) + 1 .. Len(s) + Len(t) : (s \o t)[i] = t[i - Len(s)]
  BY ConcatIs
<1>3. h \in Seq(Nat) /\ Len(h) = Len(s) + Len(t)
  BY <1>2, FilesAre
<1>4. \A i \in 1 .. Len(s) : f[i] = Len(s[i].files)
  OBVIOUS
<1>5. \A i \in 1 .. Len(t) : g[i] = Len(t[i].files)
  OBVIOUS
<1>6. \A i \in 1 .. Len(s) + Len(t) : h[i] = Len((s \o t)[i].files)
  BY <1>2
<1>7. Files(s) = Total(f) /\ Files(t) = Total(g) /\ Files(s \o t) = Total(h)
  BY DEF Files
<1> HIDE DEF f, g, h
<1>8. f \o g \in Seq(Nat) /\ Len(f \o g) = Len(s) + Len(t)
      /\ (\A i \in 1 .. Len(s) : (f \o g)[i] = f[i])
      /\ \A i \in Len(s) + 1 .. Len(s) + Len(t) : (f \o g)[i] = g[i - Len(s)]
  <2>1. /\ f \o g \in Seq(Nat)
        /\ Len(f \o g) = Len(f) + Len(g)
        /\ \A i \in 1 .. Len(f) : (f \o g)[i] = f[i]
        /\ \A i \in Len(f) + 1 .. Len(f) + Len(g) : (f \o g)[i] = g[i - Len(f)]
    BY <1>1, ConcatIs, ZenonT(30)
  <2> QED BY <2>1, <1>1
<1>9. ASSUME NEW i \in 1 .. Len(s) + Len(t) PROVE h[i] = (f \o g)[i]
  <2>0. Len(s) \in Nat /\ Len(t) \in Nat
    OBVIOUS
  <2>1. CASE i <= Len(s)
    <3>1. i \in 1 .. Len(s)
      BY <2>0, <2>1
    <3> QED BY <3>1, <1>2, <1>4, <1>6, <1>8
  <2>2. CASE ~(i <= Len(s))
    <3>1. i \in Len(s) + 1 .. Len(s) + Len(t) /\ i - Len(s) \in 1 .. Len(t)
      BY <2>0, <2>2
    <3> QED BY <3>1, <1>2, <1>5, <1>6, <1>8
  <2> QED BY <2>1, <2>2
<1>10. h = f \o g
  <2>1. Len(h) = Len(f \o g) /\ \A i \in 1 .. Len(h) : h[i] = (f \o g)[i]
    BY <1>3, <1>8, <1>9
  <2> QED BY <1>3, <1>8, <2>1, ListsEqual
<1> QED BY <1>1, <1>7, <1>10, TotalConcat

\* A list of one.
LEMMA FilesOfOne ==
  ASSUME NEW S, \A e \in S : Len(e.files) \in Nat, NEW e \in S
  PROVE  Files(<<e>>) = Len(e.files)
<1>1. [i \in DOMAIN <<e>> |-> Len(<<e>>[i].files)] = <<Len(e.files)>>
  OBVIOUS
<1>2. <<Len(e.files)>> = Append(<<>>, Len(e.files)) /\ <<>> \in Seq(Nat)
  OBVIOUS
<1>3. Total(<<Len(e.files)>>) = Total(<<>>) + Len(e.files)
  BY <1>2, TotalAppend
<1> QED BY <1>1, <1>3, TotalEmpty DEF Files

\* What the parts of some kinds come to.
Held(ps, kinds) == Files(Those(ps, kinds))

\* A part has some number of files.
LEMMA PartsHaveFiles == \A e \in PartSet : Len(e.files) \in Nat
<1> SUFFICES ASSUME NEW e \in PartSet PROVE Len(e.files) \in Nat
  OBVIOUS
<1>1. e.files \in Seq(STRING)
  BY DEF PartSet
<1> QED BY <1>1

\* Blocks of two lists of parts end to end.
LEMMA HeldConcat ==
  ASSUME NEW kinds, NEW s \in Seq(PartSet), NEW t \in Seq(PartSet)
  PROVE  /\ Held(s \o t, kinds) = Held(s, kinds) + Held(t, kinds)
         /\ Held(s, kinds) \in Nat /\ Held(t, kinds) \in Nat
<1>1. Those(s, kinds) \in Seq(PartSet) /\ Those(t, kinds) \in Seq(PartSet)
  BY ThoseAre
<1>2. Those(s \o t, kinds) = Those(s, kinds) \o Those(t, kinds)
  BY ThoseConcat
<1> QED BY <1>1, <1>2, PartsHaveFiles, FilesConcat, FilesAre DEF Held

\* A part more: it is counted where its kind is.
LEMMA HeldAppend ==
  ASSUME NEW kinds, NEW s \in Seq(PartSet), NEW e \in PartSet
  PROVE  Held(Append(s, e), kinds) = Held(s, kinds) + IF e.kind \in kinds THEN Len(e.files) ELSE 0
<1>1. Those(s, kinds) \in Seq(PartSet)
  BY ThoseAre
<1>2. Those(Append(s, e), kinds) = IF e.kind \in kinds THEN Append(Those(s, kinds), e)
                                   ELSE Those(s, kinds)
  BY ThoseAppend
<1>3. Append(Those(s, kinds), e) = Those(s, kinds) \o <<e>> /\ <<e>> \in Seq(PartSet)
  BY <1>1
<1>4. Files(Those(s, kinds) \o <<e>>) = Files(Those(s, kinds)) + Len(e.files)
  BY <1>1, <1>3, PartsHaveFiles, FilesConcat, FilesOfOne
<1>5. Files(Those(s, kinds)) \in Nat
  BY <1>1, PartsHaveFiles, FilesAre
<1> QED BY <1>2, <1>3, <1>4, <1>5 DEF Held

\* A part less.
LEMMA HeldRemove ==
  ASSUME NEW kinds, NEW s \in Seq(PartSet), NEW i \in 1 .. Len(s)
  PROVE  Held(RemoveAt(s, i), kinds) <= Held(s, kinds)
<1> DEFINE a == SubSeq(s, 1, i - 1)
           b == SubSeq(s, i + 1, Len(s))
           one == <<s[i]>>
<1>1. a \in Seq(PartSet) /\ b \in Seq(PartSet) /\ RemoveAt(s, i) = a \o b
  BY DEF RemoveAt
<1>2. one \in Seq(PartSet)
  BY ListOfOne
<1>3. s = (a \o one) \o b
  <2>1. Len(a) = i - 1 /\ Len(b) = Len(s) - i /\ Len(one) = 1 /\ one[1] = s[i]
    OBVIOUS
  <2>2. \A j \in 1 .. i - 1 : a[j] = s[j]
    OBVIOUS
  <2>3. \A j \in 1 .. Len(s) - i : b[j] = s[i + j]
    OBVIOUS
  <2> DEFINE t == (a \o one) \o b
  <2> HIDE DEF a, b, one
  <2>4. a \o one \in Seq(PartSet) /\ Len(a \o one) = i
        /\ (\A j \in 1 .. i - 1 : (a \o one)[j] = a[j]) /\ (a \o one)[i] = s[i]
    <3>1. a \o one \in Seq(PartSet) /\ Len(a \o one) = Len(a) + Len(one)
          /\ (\A j \in 1 .. Len(a) : (a \o one)[j] = a[j])
          /\ \A j \in Len(a) + 1 .. Len(a) + Len(one) : (a \o one)[j] = one[j - Len(a)]
      BY <1>1, <1>2, ConcatIs
    <3>2. i \in Len(a) + 1 .. Len(a) + Len(one) /\ i - Len(a) = 1
      BY <2>1
    <3>3. (a \o one)[i] = one[1]
      BY <3>1, <3>2
    <3> QED BY <2>1, <3>1, <3>3
  <2>5. t \in Seq(PartSet) /\ Len(t) = Len(s)
        /\ (\A j \in 1 .. i : t[j] = (a \o one)[j])
        /\ \A j \in i + 1 .. Len(s) : t[j] = b[j - i]
    <3>1. t \in Seq(PartSet) /\ Len(t) = Len(a \o one) + Len(b)
          /\ (\A j \in 1 .. Len(a \o one) : t[j] = (a \o one)[j])
          /\ \A j \in Len(a \o one) + 1 .. Len(a \o one) + Len(b) : t[j] = b[j - Len(a \o one)]
      BY <2>4, <1>1, ConcatIs, ZenonT(30)
    <3> QED BY <3>1, <2>1, <2>4
  <2> HIDE DEF t
  <2>6. ASSUME NEW j \in 1 .. Len(s) PROVE t[j] = s[j]
    <3>1. CASE j < i
      <4>1. j \in 1 .. i - 1 /\ j \in 1 .. i
        BY <3>1
      <4> QED BY <4>1, <2>2, <2>4, <2>5
    <3>2. CASE j = i
      BY <3>2, <2>4, <2>5
    <3>3. CASE j > i
      <4>1. j \in i + 1 .. Len(s) /\ j - i \in 1 .. Len(s) - i /\ i + (j - i) = j
        BY <3>3
      <4> QED BY <4>1, <2>3, <2>5
    <3> QED BY <3>1, <3>2, <3>3
  <2>7. t = s
    BY <2>5, <2>6
  <2> QED BY <2>7 DEF t
<1> HIDE DEF a, b, one
<1>4. a \o one \in Seq(PartSet)
  BY <1>1, <1>2, ConcatIs
<1>5. Held(s, kinds) = Held(a \o one, kinds) + Held(b, kinds) /\ Held(b, kinds) \in Nat
  BY <1>1, <1>3, <1>4, HeldConcat
<1>6. Held(a \o one, kinds) = Held(a, kinds) + Held(one, kinds) /\ Held(a, kinds) \in Nat /\ Held(one, kinds) \in Nat
  BY <1>1, <1>2, HeldConcat
<1>7. Held(a \o b, kinds) = Held(a, kinds) + Held(b, kinds)
  BY <1>1, HeldConcat
<1> QED BY <1>1, <1>5, <1>6, <1>7

-----------------------------------------------------------------------------
(* A card holds no more than it reports.                                   *)

\* What a card is counted as holding.
Count(ps) == Held(ps, {"bundle"}) + Held(ps, {"system"})

NInv == IInv /\ \A c \in Cards : Count(parts[c]) <= Blocks[c]

LEMMA CountIs ==
  ASSUME NEW s \in Seq(PartSet)
  PROVE  Held(s, {"bundle"}) \in Nat /\ Held(s, {"system"}) \in Nat /\ Count(s) \in Nat
<1>1. Held(s, {"bundle"}) \in Nat
  BY HeldConcat
<1>2. Held(s, {"system"}) \in Nat
  BY HeldConcat
<1> QED BY <1>1, <1>2 DEF Count

\* What an edit leaves counts as what it was given.
LEMMA CountEdited ==
  ASSUME NEW ps \in Seq(PartSet)
  PROVE  Count(Those(ps, {"bundle", "system"})) = Count(ps)
BY EditedIs DEF Count, Held, Bundles, SystemParts

\* The editor's own count.
LEMMA UsedIsCount ==
  ASSUME NEW c
  PROVE  UsedBlocks(c) = Count(parts[c])
BY DEF UsedBlocks, Entries, Bundles, SystemParts, Count, Held

\* The part selected is one of the card's.
LEMMA SelectedIs ==
  ASSUME IInv, Selected # 0
  PROVE  Selected \in 1 .. Len(parts[focus])
<1>1. Typed /\ focus \in Cards
  BY DEF IInv, Typed
<1>2. Selected \in DOMAIN Entries(focus)
  BY <1>1 DEF IInv, SelectionIsListed, Selected
<1>3. DOMAIN Entries(focus) = 1 .. Len(Entries(focus)) /\ Len(Entries(focus)) <= Len(parts[focus])
      /\ Len(Entries(focus)) \in Nat
  BY <1>1, EntriesAre
<1>4. Len(parts[focus]) \in Nat
  BY <1>1 DEF Typed
<1> QED BY <1>2, <1>3, <1>4

\* What is copied onto a card adds no more to its count than was free.
LEMMA CopyFits ==
  ASSUME NInv, DoCopy, NEW c \in Cards
  PROVE  Count(parts'[c]) <= Blocks[c]
<1>1. Typed /\ focus \in Cards /\ Other \in Cards
  BY OtherIs DEF NInv, IInv, Typed
<1>2. parts[focus] \in Seq(PartSet) /\ parts[Other] \in Seq(PartSet) /\ parts \in [Cards -> Seq(PartSet)]
  BY <1>1 DEF Typed
<1>3. CASE parts' = parts
  BY <1>3 DEF NInv
<1>4. CASE parts' # parts
  <2> DEFINE part == parts[focus][Selected]
             ps == Append(parts[Other], part)
             left == Those(ps, {"bundle", "system"})
  <2>1. /\ Selected # 0 /\ parts' = [parts EXCEPT ![Other] = left]
        /\ ~(PayloadBlocks(part) > FreeBlocks(Other))
    BY <1>4 DEF DoCopy, Edited, cardVars, placeVars
  <2>2. part \in PartSet
    BY <1>2, <2>1, SelectedIs DEF NInv
  <2>3. Len(part.files) \in Nat
    BY <2>2, PartsHaveFiles
  <2> HIDE DEF part
  <2>4. ps \in Seq(PartSet)
    BY <1>2, <2>2
  <2>5. Count(left) = Count(ps)
    BY <2>4, CountEdited
  <2>6. Count(ps) <= Count(parts[Other]) + Len(part.files)
    <3>1. Held(ps, {"bundle"}) = Held(parts[Other], {"bundle"})
                                 + IF part.kind \in {"bundle"} THEN Len(part.files) ELSE 0
      BY <1>2, <2>2, HeldAppend
    <3>2. Held(ps, {"system"}) = Held(parts[Other], {"system"})
                                 + IF part.kind \in {"system"} THEN Len(part.files) ELSE 0
      BY <1>2, <2>2, HeldAppend
    <3>3. Held(parts[Other], {"bundle"}) \in Nat /\ Held(parts[Other], {"system"}) \in Nat
      BY <1>2, CountIs
    <3> HIDE DEF ps
    <3> QED BY <2>3, <3>1, <3>2, <3>3 DEF Count
  <2> HIDE DEF ps, left
  <2>7. Count(ps) <= Blocks[Other]
    <3>1. Blocks[Other] \in Nat /\ Encoding \in Nat
      BY <1>1, SizesAssumption DEF Cards
    <3>2. Count(parts[Other]) \in Nat /\ Count(parts[Other]) <= Blocks[Other] /\ Count(ps) \in Nat
      BY <1>1, <1>2, <2>4, CountIs DEF NInv
    <3>3. FreeBlocks(Other) = Blocks[Other] - Count(parts[Other])
      BY <3>1, <3>2, UsedIsCount DEF FreeBlocks
    <3>4. Len(part.files) <= PayloadBlocks(part) /\ PayloadBlocks(part) \in Nat
      <4>1. PayloadBlocks(part) \in {Len(part.files), Len(part.files) + Encoding}
        <5>1. CASE part.kind = "bundle"
          BY <5>1 DEF PayloadBlocks
        <5>2. CASE part.kind # "bundle"
          BY <2>3, <5>2 DEF PayloadBlocks
        <5> QED BY <5>1, <5>2
      <4> QED BY <2>3, <3>1, <4>1
    <3> QED BY <2>1, <2>3, <2>6, <3>1, <3>2, <3>3, <3>4
  <2>8. c = Other => parts'[c] = left
    BY <1>1, <1>2, <2>1
  <2>9. c # Other => parts'[c] = parts[c]
    BY <1>1, <1>2, <2>1
  <2> QED BY <2>5, <2>7, <2>8, <2>9 DEF NInv
<1> QED BY <1>3, <1>4

\* What is left after a deletion is no more.
LEMMA DeleteFits ==
  ASSUME NInv, ConfirmDelete, NEW c \in Cards
  PROVE  Count(parts'[c]) <= Blocks[c]
<1>1. Typed /\ focus \in Cards
  BY DEF NInv, IInv, Typed
<1>2. parts[focus] \in Seq(PartSet) /\ parts \in [Cards -> Seq(PartSet)]
  BY <1>1 DEF Typed
<1>3. CASE parts' = parts
  BY <1>3 DEF NInv
<1>4. CASE parts' # parts
  <2> DEFINE ps == RemoveAt(parts[focus], Selected)
             left == Those(ps, {"bundle", "system"})
  <2>1. Selected # 0 /\ parts' = [parts EXCEPT ![focus] = left]
    BY <1>4 DEF ConfirmDelete, Edited, cardVars, placeVars
  <2>2. Selected \in 1 .. Len(parts[focus])
    BY <2>1, SelectedIs DEF NInv
  <2>3. ps \in Seq(PartSet)
    BY <1>2, <2>2, RemoveAtIsSeq
  <2>4. Count(left) = Count(ps)
    BY <2>3, CountEdited
  <2>5. /\ Held(ps, {"bundle"}) <= Held(parts[focus], {"bundle"})
        /\ Held(ps, {"system"}) <= Held(parts[focus], {"system"})
    BY <1>2, <2>2, HeldRemove
  <2>6. /\ Held(ps, {"bundle"}) \in Nat /\ Held(parts[focus], {"bundle"}) \in Nat
        /\ Held(ps, {"system"}) \in Nat /\ Held(parts[focus], {"system"}) \in Nat
    BY <1>2, <2>3, CountIs
  <2>7. Count(parts[focus]) <= Blocks[focus] /\ Blocks[focus] \in Nat
    BY <1>1, SizesAssumption DEF NInv, Cards
  <2> HIDE DEF ps, left
  <2>8. Count(left) <= Blocks[focus]
    BY <2>4, <2>5, <2>6, <2>7 DEF Count
  <2>9. c = focus => parts'[c] = left
    BY <1>1, <1>2, <2>1
  <2>10. c # focus => parts'[c] = parts[c]
    BY <1>1, <1>2, <2>1
  <2> QED BY <2>8, <2>9, <2>10 DEF NInv
<1> QED BY <1>3, <1>4

\* A blank card has no saves on it.
LEMMA BlankIs ==
  /\ PartsOf(<<>>) = <<>>
  /\ Read(<<>>) = <<ImagePart(<<>>)>>
  /\ Bundles(Read(<<>>)) = <<>>
<1>1. <<>> \in Seq(Directories)
  BY ListOfNone
<1>2. PartsOf(<<>>) = <<>>
  <2>1. [i \in DOMAIN <<>> |-> DirectoryParts(<<>>[i])] = <<>>
    OBVIOUS
  <2> QED BY <2>1, JoinedEmpty DEF PartsOf
<1>3. Read(<<>>) = <<ImagePart(<<>>)>> /\ Read(<<>>) \in Seq(PartSet) /\ Alone(Read(<<>>))
  BY <1>1, <1>2, ReadIs
<1>4. Read(<<>>)[1].kind = "card-image" /\ Len(Read(<<>>)) = 1
  BY <1>3 DEF ImagePart, Part
<1> QED BY <1>2, <1>3, <1>4, ImageIsAlone

\* No parts take no blocks.
LEMMA NothingHeld == Files(<<>>) = 0
<1>1. [i \in DOMAIN <<>> |-> Len(<<>>[i].files)] = <<>>
  OBVIOUS
<1> QED BY <1>1, TotalEmpty DEF Files

LEMMA BlankCount == Count(Read(<<>>)) = 0
<1>1. <<>> \in Seq(Directories)
  BY ListOfNone
<1>2. Read(<<>>) \in Seq(PartSet) /\ Read(<<>>) = <<ImagePart(<<>>)>>
  BY <1>1, ReadIs, BlankIs
<1>3. \A i \in 1 .. Len(Read(<<>>)) : Read(<<>>)[i].kind \notin {"bundle"}
  BY <1>2 DEF ImagePart, Part
<1>4. \A i \in 1 .. Len(Read(<<>>)) : Read(<<>>)[i].kind \notin {"system"}
  BY <1>2 DEF ImagePart, Part
<1>5. Those(Read(<<>>), {"bundle"}) = <<>> /\ Those(Read(<<>>), {"system"}) = <<>>
  BY <1>2, <1>3, <1>4, ThoseNone
<1> QED BY <1>5, NothingHeld DEF Count, Held

\* No key takes a card past what it reports.
LEMMA NextNInv == NInv /\ [Next]_vars => NInv'
<1> SUFFICES ASSUME NInv, [Next]_vars PROVE NInv'
  OBVIOUS
<1>1. IInv'
  BY NextIInv DEF NInv
<1>2. Typed /\ focus \in Cards /\ parts \in [Cards -> Seq(PartSet)]
  BY DEF NInv, IInv, Typed
<1>3. ASSUME NEW c \in Cards
      PROVE  Count(parts'[c]) <= Blocks[c]
  <2>1. CASE DoCopy
    BY <2>1, CopyFits
  <2>2. CASE ConfirmDelete
    BY <2>2, DeleteFits
  <2>3. CASE ConfirmFormat
    <3>1. parts' = [parts EXCEPT ![focus] = Read(<<>>)]
      BY <2>3 DEF ConfirmFormat
    <3>2. CASE c = focus
      <4>1. parts'[c] = Read(<<>>) /\ Blocks[c] \in Nat
        BY <1>2, <3>1, <3>2, SizesAssumption DEF Cards
      <4> QED BY <4>1, BlankCount
    <3>3. CASE c # focus
      <4>1. parts'[c] = parts[c]
        BY <1>2, <3>1, <3>3
      <4> QED BY <4>1 DEF NInv
    <3> QED BY <3>2, <3>3
  <2>4. CASE ~DoCopy /\ ~ConfirmDelete /\ ~ConfirmFormat
    <3>1. parts' = parts
      BY <2>4 DEF Next, Browse, Answer, Step, Switch, AskDelete, AskFormat, AskWrite, AskQuit, PointAt,
                  Dismiss, ConfirmWrite, ConfirmQuit, Copy, ConfirmCopyOver, cardVars, vars
    <3> QED BY <3>1 DEF NInv
  <2> QED BY <2>1, <2>2, <2>3, <2>4
<1> QED BY <1>1, <1>3 DEF NInv

\* Cards as they are opened are within what they report.
LEMMA InitNInv ==
  ASSUME StartWithinCapacity
  PROVE  Init => NInv
<1> SUFFICES ASSUME Init PROVE NInv
  OBVIOUS
<1>1. IInv
  BY InitIInv
<1>2. ASSUME NEW c \in Cards
      PROVE  Count(parts[c]) <= Blocks[c]
  <2>1. CASE disk[c] = Nowhere
    <3>1. parts[c] = Read(<<>>) /\ Blocks[c] \in Nat
      BY <2>1, SizesAssumption DEF Init, Cards
    <3> QED BY <3>1, BlankCount
  <2>2. CASE disk[c] # Nowhere
    <3>1. parts[c] = Read(disk[c]) /\ disk[c] \in Disks
      BY <2>2 DEF Init
    <3> QED BY <3>1 DEF Count, Held, StartWithinCapacity, Bundles, SystemParts
  <2> QED BY <2>1, <2>2
<1> QED BY <1>1, <1>2 DEF NInv

\* A card that starts within the capacity it reports stays within it, for
\* every size of card and whichever of its parts a copy takes
\* (Card::copy_from against Card::used_blocks).
THEOREM CardsStayWithinCapacity ==
  ASSUME StartWithinCapacity
  PROVE  Spec => []WithinCapacity
<1>1. Init => NInv
  BY InitNInv
<1>2. NInv /\ [Next]_vars => NInv'
  BY NextNInv
<1>3. NInv => WithinCapacity
  BY DEF NInv, WithinCapacity, Count, Held, Entries, Bundles, SystemParts
<1> QED BY <1>1, <1>2, <1>3, PTL DEF Spec

-----------------------------------------------------------------------------
(* A folder of the console's: its own part and its files', in order.       *)

Its(p, name) == IF p.kind = "system" /\ p.name = name THEN <<p>> ELSE <<>>

\* What one part is of a folder.
LEMMA ItsIs ==
  ASSUME NEW S, NEW p \in S, NEW name
  PROVE  Its(p, name) \in Seq(S)
BY DEF Its

\* A folder is its parts, one part of the list at a time.
LEMMA FolderIs ==
  ASSUME NEW S, NEW ps \in Seq(S), NEW name
  PROVE  /\ [i \in DOMAIN ps |-> Its(ps[i], name)] \in Seq(Seq(S))
         /\ Len([i \in DOMAIN ps |-> Its(ps[i], name)]) = Len(ps)
         /\ Folder(ps, name) = Joined([i \in DOMAIN ps |-> Its(ps[i], name)])
         /\ Folder(ps, name) \in Seq(S)
<1> DEFINE f == [i \in DOMAIN ps |-> Its(ps[i], name)]
<1>1. DOMAIN ps = 1 .. Len(ps) /\ Len(ps) \in Nat /\ \A i \in 1 .. Len(ps) : ps[i] \in S
  OBVIOUS
<1>2. f \in [1 .. Len(ps) -> Seq(S)]
  BY <1>1, ItsIs
<1>3. Folder(ps, name) = Joined(f)
  BY DEF Folder, Its
<1> HIDE DEF f
<1>4. f \in Seq(Seq(S)) /\ Len(f) = Len(ps)
  BY <1>1, <1>2, ListOf
<1>5. Joined(f) \in Seq(S)
  BY <1>4, JoinedIsSeq
<1> QED BY <1>3, <1>4, <1>5 DEF f

\* A card of no parts has no folders.
LEMMA FolderEmpty ==
  ASSUME NEW name
  PROVE  Folder(<<>>, name) = <<>>
<1>1. [i \in DOMAIN <<>> |-> IF <<>>[i].kind = "system" /\ <<>>[i].name = name THEN <<<<>>[i]>> ELSE <<>>] = <<>>
  OBVIOUS
<1> QED BY <1>1, JoinedEmpty DEF Folder

\* A part more is in its folder, after the others.
LEMMA FolderAppend ==
  ASSUME NEW S, NEW ps \in Seq(S), NEW p \in S, NEW name
  PROVE  Folder(Append(ps, p), name) = Folder(ps, name) \o Its(p, name)
<1> DEFINE f == [i \in DOMAIN ps |-> Its(ps[i], name)]
           qs == Append(ps, p)
           g == [i \in DOMAIN qs |-> Its(qs[i], name)]
           its == Its(p, name)
<1>1. qs \in Seq(S) /\ Len(qs) = Len(ps) + 1 /\ DOMAIN qs = 1 .. Len(ps) + 1 /\ Len(ps) \in Nat
      /\ qs[Len(ps) + 1] = p /\ \A i \in 1 .. Len(ps) : qs[i] = ps[i]
  OBVIOUS
<1>2. f \in Seq(Seq(S)) /\ Len(f) = Len(ps) /\ Folder(ps, name) = Joined(f)
  BY FolderIs
<1> HIDE DEF qs
<1>3. g \in Seq(Seq(S)) /\ Len(g) = Len(ps) + 1 /\ Folder(qs, name) = Joined(g)
  BY <1>1, FolderIs
<1>4. (\A i \in 1 .. Len(ps) : g[i] = Its(ps[i], name)) /\ g[Len(ps) + 1] = its
  BY <1>1
<1>5. \A i \in 1 .. Len(ps) : f[i] = Its(ps[i], name)
  OBVIOUS
<1>6. its \in Seq(S)
  BY ItsIs
<1> HIDE DEF f, g, its
<1>7. /\ Append(f, its) \in Seq(Seq(S)) /\ Len(Append(f, its)) = Len(ps) + 1
      /\ Append(f, its)[Len(ps) + 1] = its /\ \A i \in 1 .. Len(ps) : Append(f, its)[i] = f[i]
  BY <1>2, <1>6
<1>8. \A i \in 1 .. Len(ps) + 1 : i \in 1 .. Len(ps) \/ i = Len(ps) + 1
  BY <1>1
<1>9. \A i \in 1 .. Len(ps) + 1 : g[i] = Append(f, its)[i]
  BY <1>4, <1>5, <1>7, <1>8
<1>10. g = Append(f, its)
  BY <1>3, <1>7, <1>9, ListsEqual
<1>11. Joined(Append(f, its)) = Joined(f) \o its
  BY <1>2, <1>6, JoinedAppend
<1> QED BY <1>2, <1>3, <1>10, <1>11 DEF qs, its

Grows(ps, p, name) == Folder(Append(ps, p), name) = Folder(ps, name) \o Its(p, name)

\* The same of the parts there can be on a card.
LEMMA FolderGrows ==
  ASSUME NEW ps \in Seq(PartSet), NEW p \in PartSet, NEW name
  PROVE  Grows(ps, p, name)
BY FolderAppend DEF Grows

\* The folder of two lists end to end.
LEMMA FolderConcat ==
  ASSUME NEW S, NEW s \in Seq(S), NEW t \in Seq(S), NEW name
  PROVE  Folder(s \o t, name) = Folder(s, name) \o Folder(t, name)
<1> DEFINE P == {u \in Seq(S) : Folder(s \o u, name) = Folder(s, name) \o Folder(u, name)}
<1>0. Folder(s, name) \in Seq(S)
  BY FolderIs
<1>1. <<>> \in P
  <2>1. s \o <<>> = s /\ <<>> \in Seq(S)
    OBVIOUS
  <2>2. Folder(s, name) \o <<>> = Folder(s, name)
    BY <1>0, ConcatNone
  <2> QED BY <2>1, <2>2, FolderEmpty
<1>2. ASSUME NEW u \in Seq(S), NEW e \in S, u \in P
      PROVE  Append(u, e) \in P
  <2> DEFINE a == Folder(s, name)
             b == Folder(u, name)
             c == Its(e, name)
  <2>1. s \o Append(u, e) = Append(s \o u, e) /\ s \o u \in Seq(S) /\ Append(u, e) \in Seq(S)
    OBVIOUS
  <2>2. a \in Seq(S) /\ b \in Seq(S) /\ c \in Seq(S)
    BY FolderIs, ItsIs
  <2>3. Folder(Append(s \o u, e), name) = Folder(s \o u, name) \o c
    BY <2>1, FolderAppend
  <2>4. Folder(s \o u, name) = a \o b
    BY <1>2
  <2>5. Folder(Append(u, e), name) = b \o c
    BY FolderAppend
  <2> HIDE DEF a, b, c, P
  <2>6. (a \o b) \o c = a \o (b \o c)
    <3>1. Associate(a, b, c)
      BY <2>2, ConcatThree, Zenon
    <3> QED BY <3>1 DEF Associate
  <2>7. Folder(s \o Append(u, e), name) = a \o Folder(Append(u, e), name)
    BY <2>1, <2>3, <2>4, <2>5, <2>6
  <2> QED BY <2>1, <2>7 DEF P, a
<1>3. \A u \in Seq(S) : u \in P
  <2> HIDE DEF P
  <2> QED BY <1>1, <1>2, SeqInduct
<1> QED BY <1>3

\* A list with nothing of the folder's in it.
LEMMA FolderNone ==
  ASSUME NEW S, NEW ps \in Seq(S), NEW name,
         \A i \in 1 .. Len(ps) : ~(ps[i].kind = "system" /\ ps[i].name = name)
  PROVE  Folder(ps, name) = <<>>
<1> DEFINE Elsewhere(p) == ~(p.kind = "system" /\ p.name = name)
           T == {p \in S : Elsewhere(p)}
           P == {u \in Seq(T) : Folder(u, name) = <<>>}
<1>1. <<>> \in P
  <2>1. <<>> \in Seq(T)
    OBVIOUS
  <2> QED BY <2>1, FolderEmpty
<1>2. ASSUME NEW u \in Seq(T), NEW e \in T, u \in P
      PROVE  Append(u, e) \in P
  <2>1. Append(u, e) \in Seq(T) /\ Its(e, name) = <<>>
    BY DEF Its
  <2>2. Folder(Append(u, e), name) = Folder(u, name) \o Its(e, name)
    <3> HIDE DEF T
    <3> QED BY FolderAppend
  <2>3. Folder(u, name) = <<>>
    BY <1>2
  <2> QED BY <2>1, <2>2, <2>3
<1>3. \A u \in Seq(T) : u \in P
  <2> HIDE DEF P, T
  <2> QED BY <1>1, <1>2, SeqInduct
<1>4. \A i \in 1 .. Len(ps) : ps[i] \in T
  OBVIOUS
<1>5. ps \in Seq(T)
  <2> HIDE DEF T
  <2> QED BY <1>4
<1> QED BY <1>3, <1>5

-----------------------------------------------------------------------------
(* What is written is read back.                                           *)

\* What a directory is read as, part by part.
LEMMA DirectoryHas ==
  ASSUME NEW d \in Directories, NEW i \in 1 .. Len(DirectoryParts(d))
  PROVE  /\ DirectoryParts(d)[i].name = d.name
         /\ DirectoryParts(d)[i].kind = IF d.system THEN "system" ELSE "bundle"
<1> DEFINE head == Part("system", d.name, <<>>)
           tail == [k \in DOMAIN d.files |-> Part("system", d.name, <<d.files[k]>>)]
<1>1. d.files \in Seq(STRING) /\ d.system \in BOOLEAN
  BY DEF Directories
<1>2. CASE d.system
  <2>1. DirectoryParts(d) = <<head>> \o tail
    BY <1>2 DEF DirectoryParts
  <2>2. head.name = d.name /\ head.kind = "system"
    BY DEF Part
  <2>3. DOMAIN d.files = 1 .. Len(d.files) /\ Len(d.files) \in Nat
    BY <1>1
  <2>4. \A k \in 1 .. Len(d.files) : tail[k].name = d.name /\ tail[k].kind = "system"
    BY <2>3 DEF Part
  <2>5. tail \in [1 .. Len(d.files) -> Range(tail)]
    BY <2>3 DEF Range
  <2> HIDE DEF head, tail
  <2> DEFINE S == Range(tail) \cup {head}
  <2>6. tail \in [1 .. Len(d.files) -> S] /\ head \in S
    BY <2>5
  <2> HIDE DEF S
  <2>7. tail \in Seq(S) /\ Len(tail) = Len(d.files)
    BY <2>3, <2>6, ListOf
  <2>8. <<head>> \in Seq(S) /\ Len(<<head>>) = 1 /\ <<head>>[1] = head
    BY <2>6, ListOfOne
  <2> DEFINE one == <<head>>
  <2>9. one \in Seq(S) /\ Len(one) = 1 /\ one[1] = head
    BY <2>8
  <2> HIDE DEF one
  <2>10. /\ Len(one \o tail) = Len(one) + Len(tail)
         /\ \A k \in 1 .. Len(one) : (one \o tail)[k] = one[k]
         /\ \A k \in Len(one) + 1 .. Len(one) + Len(tail) : (one \o tail)[k] = tail[k - Len(one)]
    <3>1. one \in Seq(S) /\ tail \in Seq(S)
      BY <2>7, <2>9
    <3> QED BY <3>1, ConcatIs
  <2>11. DirectoryParts(d) = one \o tail
    BY <2>1 DEF one
  <2>12. CASE i = 1
    BY <1>2, <2>2, <2>9, <2>10, <2>11, <2>12
  <2>13. CASE i # 1
    <3>1. i \in Len(one) + 1 .. Len(one) + Len(tail) /\ i - Len(one) \in 1 .. Len(d.files)
      BY <2>3, <2>7, <2>9, <2>10, <2>11, <2>13
    <3> QED BY <1>2, <2>4, <2>10, <2>11, <3>1
  <2> QED BY <2>12, <2>13
<1>3. CASE ~d.system
  <2>1. d.files # <<>>
    BY <1>3 DEF DirectoryParts
  <2>2. DirectoryParts(d) = <<Part("bundle", d.name, d.files)>>
    BY <1>3, <2>1 DEF DirectoryParts
  <2>3. Len(DirectoryParts(d)) = 1
    BY <2>2
  <2>4. DirectoryParts(d)[i] = Part("bundle", d.name, d.files)
    BY <2>2, <2>3
  <2> QED BY <1>3, <2>4 DEF Part
<1> QED BY <1>1, <1>2, <1>3

\* A folder with a file more is read as its parts and the file's.
LEMMA DirectoryMore ==
  ASSUME NEW d \in Directories, d.system, NEW f \in STRING
  PROVE  DirectoryParts([d EXCEPT !.files = @ \o <<f>>])
           = Append(DirectoryParts(d), Part("system", d.name, <<f>>))
<1> DEFINE head == Part("system", d.name, <<>>)
           tail == [k \in DOMAIN d.files |-> Part("system", d.name, <<d.files[k]>>)]
           more == d.files \o <<f>>
           longer == [k \in DOMAIN more |-> Part("system", d.name, <<more[k]>>)]
           last == Part("system", d.name, <<f>>)
           e == [d EXCEPT !.files = more]
<1>1. d.files \in Seq(STRING)
  BY DEF Directories
<1>2. <<f>> \in Seq(STRING) /\ Len(<<f>>) = 1 /\ <<f>>[1] = f
  BY ListOfOne
<1>3. /\ more \in Seq(STRING) /\ Len(more) = Len(d.files) + 1
      /\ (\A k \in 1 .. Len(d.files) : more[k] = d.files[k]) /\ more[Len(d.files) + 1] = f
  <2> DEFINE s == d.files
             t == <<f>>
  <2>1. s \in Seq(STRING) /\ t \in Seq(STRING) /\ Len(t) = 1 /\ t[1] = f
    BY <1>1, <1>2
  <2> HIDE DEF s, t
  <2>2. /\ s \o t \in Seq(STRING)
        /\ Len(s \o t) = Len(s) + Len(t)
        /\ \A k \in 1 .. Len(s) : (s \o t)[k] = s[k]
        /\ \A k \in Len(s) + 1 .. Len(s) + Len(t) : (s \o t)[k] = t[k - Len(s)]
    BY <2>1, ConcatIs
  <2>3. Len(s) \in Nat
    BY <2>1
  <2>4. Len(s) + 1 \in Len(s) + 1 .. Len(s) + Len(t) /\ (Len(s) + 1) - Len(s) = 1
    BY <2>1, <2>3
  <2>5. (s \o t)[Len(s) + 1] = f
    BY <2>1, <2>2, <2>4
  <2> QED BY <2>1, <2>2, <2>5 DEF s, t
<1>4. e.name = d.name /\ e.system /\ e.files = more
  BY DEF Directories
<1> DEFINE S == {Part("system", d.name, <<k>>) : k \in STRING} \cup {head}
<1>5. head \in S /\ last \in S
  OBVIOUS
<1> HIDE DEF more
<1>6. /\ tail \in [1 .. Len(d.files) -> S] /\ longer \in [1 .. Len(d.files) + 1 -> S]
      /\ (\A k \in 1 .. Len(d.files) : longer[k] = tail[k]) /\ longer[Len(d.files) + 1] = last
      /\ Len(d.files) \in Nat
  <2>1. DOMAIN d.files = 1 .. Len(d.files) /\ DOMAIN more = 1 .. Len(d.files) + 1 /\ Len(d.files) \in Nat
    BY <1>1, <1>3
  <2>2. \A k \in 1 .. Len(d.files) : d.files[k] \in STRING
    BY <1>1
  <2>3. \A k \in 1 .. Len(d.files) + 1 : more[k] \in STRING
    BY <1>3
  <2>4. Len(d.files) + 1 \in 1 .. Len(d.files) + 1 /\ \A k \in 1 .. Len(d.files) : k \in 1 .. Len(d.files) + 1
    BY <2>1
  <2>5. tail \in [1 .. Len(d.files) -> S]
    BY <2>1, <2>2
  <2>6. longer \in [1 .. Len(d.files) + 1 -> S]
    BY <2>1, <2>3
  <2> QED BY <1>3, <2>1, <2>4, <2>5, <2>6
<1>7. DirectoryParts(d) = <<head>> \o tail
  BY DEF DirectoryParts
<1>8. DirectoryParts(e) = <<head>> \o longer
  BY <1>4 DEF DirectoryParts
<1>9. e = [d EXCEPT !.files = @ \o <<f>>]
  BY DEF more
<1> HIDE DEF head, tail, longer, last, e, S
<1>10. longer = Append(tail, last) /\ tail \in Seq(S) /\ Len(tail) = Len(d.files)
  <2>1. tail \in Seq(S) /\ Len(tail) = Len(d.files)
    BY <1>6, ListOf
  <2>2. longer \in Seq(S) /\ Len(longer) = Len(d.files) + 1
    BY <1>6, ListOf
  <2>3. Append(tail, last) \in Seq(S) /\ Len(Append(tail, last)) = Len(d.files) + 1
        /\ Append(tail, last)[Len(d.files) + 1] = last
        /\ \A k \in 1 .. Len(d.files) : Append(tail, last)[k] = tail[k]
    BY <1>5, <2>1
  <2>4. \A k \in 1 .. Len(d.files) + 1 : k \in 1 .. Len(d.files) \/ k = Len(d.files) + 1
    BY <1>6
  <2>5. \A k \in 1 .. Len(d.files) + 1 : longer[k] = Append(tail, last)[k]
    BY <1>6, <2>3, <2>4
  <2>6. longer = Append(tail, last)
    BY <2>2, <2>3, <2>5, ListsEqual
  <2> QED BY <2>1, <2>6
<1>11. <<head>> \o Append(tail, last) = Append(<<head>> \o tail, last)
  BY <1>5, <1>10
<1> QED BY <1>7, <1>8, <1>9, <1>10, <1>11 DEF last

\* What a list of directories is read as, with another at the end.
LEMMA PartsOfAppend ==
  ASSUME NEW dirs \in Seq(Directories), NEW d \in Directories
  PROVE  PartsOf(Append(dirs, d)) = PartsOf(dirs) \o DirectoryParts(d)
<1> DEFINE f == [i \in DOMAIN dirs |-> DirectoryParts(dirs[i])]
           es == Append(dirs, d)
           g == [i \in DOMAIN es |-> DirectoryParts(es[i])]
           last == DirectoryParts(d)
<1>1. es \in Seq(Directories) /\ Len(es) = Len(dirs) + 1 /\ DOMAIN es = 1 .. Len(dirs) + 1
      /\ Len(dirs) \in Nat /\ es[Len(dirs) + 1] = d /\ \A i \in 1 .. Len(dirs) : es[i] = dirs[i]
  OBVIOUS
<1>2. f \in Seq(Seq(Plain)) /\ Len(f) = Len(dirs) /\ PartsOf(dirs) = Joined(f)
  <2>1. f \in Seq(Seq(Plain)) /\ PartsOf(dirs) = Joined(f)
    BY PartsOfIs DEF PartsOf
  <2>2. DOMAIN f = 1 .. Len(dirs)
    OBVIOUS
  <2> HIDE DEF f
  <2> QED BY <2>1, <2>2
<1> HIDE DEF es
<1>3. g \in Seq(Seq(Plain)) /\ Len(g) = Len(dirs) + 1 /\ PartsOf(es) = Joined(g)
  <2>1. g \in Seq(Seq(Plain)) /\ PartsOf(es) = Joined(g)
    BY <1>1, PartsOfIs DEF PartsOf
  <2>2. DOMAIN g = 1 .. Len(dirs) + 1 /\ Len(dirs) + 1 \in Nat
    BY <1>1
  <2> HIDE DEF g
  <2> QED BY <2>1, <2>2
<1>4. (\A i \in 1 .. Len(dirs) : g[i] = DirectoryParts(dirs[i])) /\ g[Len(dirs) + 1] = last
  BY <1>1
<1>5. \A i \in 1 .. Len(dirs) : f[i] = DirectoryParts(dirs[i])
  OBVIOUS
<1>6. last \in Seq(Plain)
  BY DirectoryPartsAre
<1> HIDE DEF f, g, last
<1>7. /\ Append(f, last) \in Seq(Seq(Plain)) /\ Len(Append(f, last)) = Len(dirs) + 1
      /\ Append(f, last)[Len(dirs) + 1] = last /\ \A i \in 1 .. Len(dirs) : Append(f, last)[i] = f[i]
  BY <1>2, <1>6
<1>8. \A i \in 1 .. Len(dirs) + 1 : i \in 1 .. Len(dirs) \/ i = Len(dirs) + 1
  BY <1>1
<1>9. \A i \in 1 .. Len(dirs) + 1 : g[i] = Append(f, last)[i]
  BY <1>4, <1>5, <1>7, <1>8
<1>10. g = Append(f, last)
  BY <1>3, <1>7, <1>9, ListsEqual
<1>11. Joined(Append(f, last)) = Joined(f) \o last
  BY <1>2, <1>6, JoinedAppend
<1> QED BY <1>2, <1>3, <1>10, <1>11 DEF es, last

\* A filter of lists end to end is its results end to end.
LEMMA BundlesJoined ==
  ASSUME NEW ss \in Seq(Seq(PartSet))
  PROVE  /\ [i \in DOMAIN ss |-> Bundles(ss[i])] \in Seq(Seq(PartSet))
         /\ Len([i \in DOMAIN ss |-> Bundles(ss[i])]) = Len(ss)
         /\ Bundles(Joined(ss)) = Joined([i \in DOMAIN ss |-> Bundles(ss[i])])
<1> DEFINE T == Seq(PartSet)
           AllIn(u) == [i \in DOMAIN u |-> Bundles(u[i])]
           P == {u \in Seq(T) : Bundles(Joined(u)) = Joined(AllIn(u))}
<1>0. ASSUME NEW u \in Seq(T)
      PROVE  AllIn(u) \in Seq(T) /\ Len(AllIn(u)) = Len(u)
  <2>1. DOMAIN u = 1 .. Len(u) /\ Len(u) \in Nat /\ \A i \in 1 .. Len(u) : u[i] \in T
    OBVIOUS
  <2>2. \A i \in 1 .. Len(u) : Bundles(u[i]) \in T
    BY <2>1, ThoseAre DEF Bundles
  <2>3. AllIn(u) \in [1 .. Len(u) -> T]
    BY <2>1, <2>2
  <2> DEFINE f == AllIn(u)
  <2> HIDE DEF f, T
  <2>4. f \in Seq(T) /\ Len(f) = Len(u)
    BY <2>1, <2>3, ListOf DEF f
  <2> QED BY <2>4 DEF f
<1>1. <<>> \in P
  <2>1. AllIn(<<>>) = <<>> /\ <<>> \in Seq(T)
    OBVIOUS
  <2>2. Bundles(<<>>) = <<>>
    BY ThoseEmpty DEF Bundles
  <2> QED BY <2>1, <2>2, JoinedEmpty
<1>2. ASSUME NEW u \in Seq(T), NEW e \in T, u \in P
      PROVE  Append(u, e) \in P
  <2> DEFINE v == Append(u, e)
             b == Bundles(e)
             f == AllIn(u)
             g == AllIn(v)
  <2>1. v \in Seq(T) /\ Len(v) = Len(u) + 1 /\ DOMAIN v = 1 .. Len(u) + 1 /\ Len(u) \in Nat
        /\ v[Len(u) + 1] = e /\ \A i \in 1 .. Len(u) : v[i] = u[i]
    OBVIOUS
  <2>2. f \in Seq(T) /\ Len(f) = Len(u)
    BY <1>0
  <2> HIDE DEF v
  <2>3. g \in Seq(T) /\ Len(g) = Len(u) + 1
    BY <1>0, <2>1
  <2>4. (\A i \in 1 .. Len(u) : g[i] = Bundles(u[i])) /\ g[Len(u) + 1] = b
    BY <2>1
  <2>5. \A i \in 1 .. Len(u) : f[i] = Bundles(u[i])
    OBVIOUS
  <2>6. b \in T
    BY ThoseAre DEF Bundles
  <2>7. Bundles(Joined(u)) = Joined(f)
    BY <1>2
  <2> HIDE DEF f, g, b
  <2>8. /\ Append(f, b) \in Seq(T) /\ Len(Append(f, b)) = Len(u) + 1
        /\ Append(f, b)[Len(u) + 1] = b /\ \A i \in 1 .. Len(u) : Append(f, b)[i] = f[i]
    BY <2>2, <2>6
  <2>9. \A i \in 1 .. Len(u) + 1 : i \in 1 .. Len(u) \/ i = Len(u) + 1
    BY <2>1
  <2>10. \A i \in 1 .. Len(u) + 1 : g[i] = Append(f, b)[i]
    BY <2>4, <2>5, <2>8, <2>9
  <2>11. g = Append(f, b)
    <3> HIDE DEF T
    <3> QED BY <2>3, <2>8, <2>10, ListsEqual
  <2>12. Joined(Append(f, b)) = Joined(f) \o b
    BY <2>2, <2>6, JoinedAppend
  <2>13. Joined(v) = Joined(u) \o e /\ Joined(u) \in Seq(PartSet)
    BY JoinedAppend, JoinedIsSeq DEF v
  <2>14. Bundles(Joined(u) \o e) = Bundles(Joined(u)) \o b
    BY <2>13, ThoseConcat DEF Bundles, b
  <2>15. Bundles(Joined(v)) = Joined(g)
    BY <2>7, <2>11, <2>12, <2>13, <2>14
  <2> QED BY <2>1, <2>15 DEF v, g
<1>3. \A u \in Seq(T) : u \in P
  <2> HIDE DEF P, T
  <2> QED BY <1>1, <1>2, SeqInduct
<1> QED BY <1>0, <1>3

\* A folder's parts in lists end to end are those in each, end to end.
LEMMA FolderJoined ==
  ASSUME NEW ss \in Seq(Seq(PartSet)), NEW name
  PROVE  /\ [i \in DOMAIN ss |-> Folder(ss[i], name)] \in Seq(Seq(PartSet))
         /\ Len([i \in DOMAIN ss |-> Folder(ss[i], name)]) = Len(ss)
         /\ Folder(Joined(ss), name) = Joined([i \in DOMAIN ss |-> Folder(ss[i], name)])
<1> DEFINE T == Seq(PartSet)
           AllIn(u) == [i \in DOMAIN u |-> Folder(u[i], name)]
           P == {u \in Seq(T) : Folder(Joined(u), name) = Joined(AllIn(u))}
<1>0. ASSUME NEW u \in Seq(T)
      PROVE  AllIn(u) \in Seq(T) /\ Len(AllIn(u)) = Len(u)
  <2>1. DOMAIN u = 1 .. Len(u) /\ Len(u) \in Nat /\ \A i \in 1 .. Len(u) : u[i] \in T
    OBVIOUS
  <2>2. \A i \in 1 .. Len(u) : Folder(u[i], name) \in T
    BY <2>1, FolderIs
  <2>3. AllIn(u) \in [1 .. Len(u) -> T]
    BY <2>1, <2>2
  <2> DEFINE f == AllIn(u)
  <2> HIDE DEF f, T
  <2>4. f \in Seq(T) /\ Len(f) = Len(u)
    BY <2>1, <2>3, ListOf DEF f
  <2> QED BY <2>4 DEF f
<1>1. <<>> \in P
  <2>1. AllIn(<<>>) = <<>> /\ <<>> \in Seq(T)
    OBVIOUS
  <2> QED BY <2>1, FolderEmpty, JoinedEmpty
<1>2. ASSUME NEW u \in Seq(T), NEW e \in T, u \in P
      PROVE  Append(u, e) \in P
  <2> DEFINE v == Append(u, e)
             b == Folder(e, name)
             f == AllIn(u)
             g == AllIn(v)
  <2>1. v \in Seq(T) /\ Len(v) = Len(u) + 1 /\ DOMAIN v = 1 .. Len(u) + 1 /\ Len(u) \in Nat
        /\ v[Len(u) + 1] = e /\ \A i \in 1 .. Len(u) : v[i] = u[i]
    OBVIOUS
  <2>2. f \in Seq(T) /\ Len(f) = Len(u)
    BY <1>0
  <2> HIDE DEF v
  <2>3. g \in Seq(T) /\ Len(g) = Len(u) + 1
    BY <1>0, <2>1
  <2>4. (\A i \in 1 .. Len(u) : g[i] = Folder(u[i], name)) /\ g[Len(u) + 1] = b
    BY <2>1
  <2>5. \A i \in 1 .. Len(u) : f[i] = Folder(u[i], name)
    OBVIOUS
  <2>6. b \in T
    BY FolderIs
  <2>7. Folder(Joined(u), name) = Joined(f)
    BY <1>2
  <2> HIDE DEF f, g, b
  <2>8. /\ Append(f, b) \in Seq(T) /\ Len(Append(f, b)) = Len(u) + 1
        /\ Append(f, b)[Len(u) + 1] = b /\ \A i \in 1 .. Len(u) : Append(f, b)[i] = f[i]
    BY <2>2, <2>6
  <2>9. \A i \in 1 .. Len(u) + 1 : i \in 1 .. Len(u) \/ i = Len(u) + 1
    BY <2>1
  <2>10. \A i \in 1 .. Len(u) + 1 : g[i] = Append(f, b)[i]
    BY <2>4, <2>5, <2>8, <2>9
  <2>11. g = Append(f, b)
    <3> HIDE DEF T
    <3> QED BY <2>3, <2>8, <2>10, ListsEqual
  <2>12. Joined(Append(f, b)) = Joined(f) \o b
    BY <2>2, <2>6, JoinedAppend
  <2>13. Joined(v) = Joined(u) \o e /\ Joined(u) \in Seq(PartSet)
    BY JoinedAppend, JoinedIsSeq DEF v
  <2>14. Folder(Joined(u) \o e, name) = Folder(Joined(u), name) \o b
    BY <2>13, FolderConcat DEF b
  <2>15. Folder(Joined(v), name) = Joined(g)
    BY <2>7, <2>11, <2>12, <2>13, <2>14
  <2> QED BY <2>1, <2>15 DEF v, g
<1>3. \A u \in Seq(T) : u \in P
  <2> HIDE DEF P, T
  <2> QED BY <1>1, <1>2, SeqInduct
<1> QED BY <1>0, <1>3

\* A file put in the last folder of its name comes last of that name's parts,
\* and changes nothing else of what is read.
LEMMA FolderChanged ==
  ASSUME NEW dirs \in Seq(Directories), NEW at \in 1 .. Len(dirs), dirs[at].system,
         \A j \in 1 .. Len(dirs) : dirs[j].system /\ dirs[j].name = dirs[at].name => j <= at,
         NEW f \in STRING, NEW es \in Seq(Directories), Len(es) = Len(dirs),
         es[at] = [dirs[at] EXCEPT !.files = @ \o <<f>>],
         \A j \in 1 .. Len(dirs) : j # at => es[j] = dirs[j]
  PROVE  /\ Bundles(PartsOf(es)) = Bundles(PartsOf(dirs))
         /\ \A name : Folder(PartsOf(es), name) =
              Folder(PartsOf(dirs), name) \o Its(Part("system", dirs[at].name, <<f>>), name)
<1> DEFINE ss == [i \in DOMAIN dirs |-> DirectoryParts(dirs[i])]
           tt == [i \in DOMAIN es |-> DirectoryParts(es[i])]
           e == Part("system", dirs[at].name, <<f>>)
           N == Len(dirs)
<1>1. /\ DOMAIN dirs = 1 .. N /\ DOMAIN es = 1 .. N /\ N \in Nat
      /\ \A i \in 1 .. N : dirs[i] \in Directories
  OBVIOUS
<1>2. e \in Plain /\ e.kind = "system" /\ e.name = dirs[at].name
  <2>1. dirs[at].name \in STRING
    BY <1>1 DEF Directories
  <2>2. <<f>> \in Seq(STRING)
    BY ListOfOne
  <2>3. Len(<<f>>) <= 1
    OBVIOUS
  <2>4. /\ e \in PartSet /\ e.kind = "system" /\ e.name = dirs[at].name
    BY <2>1, <2>2, <2>3, SystemPartIs, ZenonT(30)
  <2> QED BY <2>4 DEF Plain
<1>3. ss \in Seq(Seq(Plain)) /\ PartsOf(dirs) = Joined(ss)
  BY PartsOfIs DEF PartsOf
<1>4. tt \in Seq(Seq(Plain)) /\ PartsOf(es) = Joined(tt)
  BY PartsOfIs DEF PartsOf
<1>5. tt[at] = Append(ss[at], e) /\ at \in 1 .. N
  <2>1. DirectoryParts([dirs[at] EXCEPT !.files = @ \o <<f>>]) = Append(DirectoryParts(dirs[at]), e)
    BY <1>1, DirectoryMore
  <2> HIDE DEF e
  <2> QED BY <1>1, <2>1
<1>6. \A i \in 1 .. N : i # at => tt[i] = ss[i]
  BY <1>1
<1>7. \A i \in 1 .. N : ss[i] = DirectoryParts(dirs[i])
  BY <1>1
<1>8. DOMAIN ss = 1 .. N /\ DOMAIN tt = 1 .. N
  BY <1>1
<1> HIDE DEF e, ss, tt, N
<1>9. /\ ss \in Seq(Seq(PartSet)) /\ tt \in Seq(Seq(PartSet)) /\ Len(ss) = N /\ Len(tt) = N
      /\ \A i \in 1 .. N : ss[i] \in Seq(PartSet) /\ ss[i] \in Seq(Plain)
  <2>1. Plain \subseteq PartSet
    BY DEF Plain
  <2>2. Seq(Plain) \subseteq Seq(PartSet)
    BY <2>1
  <2>3. ss \in Seq(Seq(PartSet)) /\ tt \in Seq(Seq(PartSet))
    BY <1>3, <1>4, <2>2
  <2>4. Len(ss) = N /\ Len(tt) = N
    BY <1>1, <1>3, <1>4, <1>8
  <2> QED BY <1>3, <2>2, <2>3, <2>4
<1>10. e \in PartSet
  BY <1>2 DEF Plain
<1>11. Bundles(PartsOf(es)) = Bundles(PartsOf(dirs))
  <2> DEFINE bs == [i \in DOMAIN ss |-> Bundles(ss[i])]
             bt == [i \in DOMAIN tt |-> Bundles(tt[i])]
  <2>1. Bundles(Joined(ss)) = Joined(bs) /\ Bundles(Joined(tt)) = Joined(bt)
    BY <1>9, BundlesJoined
  <2>2. Bundles(tt[at]) = Bundles(ss[at])
    <3>1. e.kind \notin {"bundle"}
      BY <1>2
    <3>2. Those(Append(ss[at], e), {"bundle"}) =
            IF e.kind \in {"bundle"} THEN Append(Those(ss[at], {"bundle"}), e) ELSE Those(ss[at], {"bundle"})
      BY <1>5, <1>9, <1>10, ThoseAppend
    <3> QED BY <1>5, <3>1, <3>2 DEF Bundles
  <2>3. bt = bs
    BY <1>6, <1>8, <2>2
  <2> QED BY <1>3, <1>4, <2>1, <2>3
<1>12. ASSUME NEW name
       PROVE  Folder(PartsOf(es), name) = Folder(PartsOf(dirs), name) \o Its(e, name)
  <2> DEFINE fs == [i \in DOMAIN ss |-> Folder(ss[i], name)]
             ft == [i \in DOMAIN tt |-> Folder(tt[i], name)]
             x == Its(e, name)
  <2>1. /\ fs \in Seq(Seq(PartSet)) /\ Len(fs) = N /\ Folder(Joined(ss), name) = Joined(fs)
        /\ ft \in Seq(Seq(PartSet)) /\ Len(ft) = N /\ Folder(Joined(tt), name) = Joined(ft)
    BY <1>9, FolderJoined
  <2>2. x \in Seq(PartSet)
    BY <1>10, ItsIs
  <2>3. Folder(tt[at], name) = Folder(ss[at], name) \o x
    <3>1. ss[at] \in Seq(PartSet)
      BY <1>5, <1>9
    <3>2. Folder(Append(ss[at], e), name) = Folder(ss[at], name) \o Its(e, name)
      <4>1. Grows(ss[at], e, name)
        BY <1>10, <3>1, FolderGrows, Zenon
      <4> QED BY <4>1 DEF Grows
    <3>3. tt[at] = Append(ss[at], e)
      BY <1>5
    <3> QED BY <3>2, <3>3, Zenon
  <2>4. (\A i \in 1 .. N : fs[i] = Folder(ss[i], name) /\ ft[i] = Folder(tt[i], name))
    BY <1>8
  <2>5. x = <<>> \/ \A j \in at + 1 .. Len(fs) : fs[j] = <<>>
    <3>1. CASE name # dirs[at].name
      BY <1>2, <3>1 DEF Its
    <3>2. CASE name = dirs[at].name
      <4>1. ASSUME NEW j \in at + 1 .. N PROVE fs[j] = <<>>
        <5>1. j \in 1 .. N /\ ~(j <= at)
          BY <1>1, <1>5
        <5>2. ~(dirs[j].system /\ dirs[j].name = name)
          BY <3>2, <5>1 DEF N
        <5>3. dirs[j] \in Directories
          BY <1>1, <5>1
        <5>4. \A i \in 1 .. Len(ss[j]) : ~(ss[j][i].kind = "system" /\ ss[j][i].name = name)
          <6>1. ss[j] = DirectoryParts(dirs[j])
            BY <1>7, <5>1
          <6>2. \A i \in 1 .. Len(DirectoryParts(dirs[j])) :
                  /\ DirectoryParts(dirs[j])[i].name = dirs[j].name
                  /\ DirectoryParts(dirs[j])[i].kind = IF dirs[j].system THEN "system" ELSE "bundle"
            BY <5>3, DirectoryHas
          <6> QED BY <5>2, <6>1, <6>2
        <5>5. ss[j] \in Seq(PartSet)
          BY <1>9, <5>1
        <5>6. Folder(ss[j], name) = <<>>
          BY <5>4, <5>5, FolderNone
        <5> QED BY <2>4, <5>1, <5>6
      <4> QED BY <2>1, <4>1
    <3> QED BY <3>1, <3>2
  <2> HIDE DEF fs, ft, x
  <2> DEFINE gs == [fs EXCEPT ![at] = fs[at] \o x]
  <2>6. at \in 1 .. Len(fs)
    BY <1>5, <2>1
  <2>7. Joined(gs) = Joined(fs) \o x
    BY <2>1, <2>2, <2>5, <2>6, JoinedChanged, ZenonT(30)
  <2>8. fs[at] \o x \in Seq(PartSet)
    <3>1. fs[at] \in Seq(PartSet)
      BY <2>1, <2>6
    <3> QED BY <2>2, <3>1, ConcatIs
  <2>9. gs \in Seq(Seq(PartSet)) /\ Len(gs) = N
        /\ \A j \in 1 .. N : gs[j] = IF j = at THEN fs[at] \o x ELSE fs[j]
    <3> DEFINE w == fs[at] \o x
    <3>1. w \in Seq(PartSet)
      BY <2>8
    <3> HIDE DEF w
    <3>2. /\ [fs EXCEPT ![at] = w] \in Seq(Seq(PartSet))
          /\ Len([fs EXCEPT ![at] = w]) = Len(fs)
          /\ \A j \in 1 .. Len(fs) : [fs EXCEPT ![at] = w][j] = IF j = at THEN w ELSE fs[j]
      BY <2>1, <2>6, <3>1, ChangedIs
    <3> QED BY <2>1, <3>2 DEF w
  <2> HIDE DEF gs
  <2>10. \A j \in 1 .. Len(ft) : ft[j] = gs[j]
    <3>1. SUFFICES ASSUME NEW j \in 1 .. N PROVE ft[j] = gs[j]
      BY <2>1
    <3>2. CASE j = at
      <4>1. ft[j] = Folder(tt[at], name) /\ fs[at] = Folder(ss[at], name)
        BY <2>4, <3>2
      <4>2. gs[j] = fs[at] \o x
        BY <2>9, <3>2
      <4> QED BY <2>3, <4>1, <4>2
    <3>3. CASE j # at
      <4>1. ft[j] = Folder(tt[j], name) /\ fs[j] = Folder(ss[j], name)
        BY <2>4
      <4>2. gs[j] = fs[j]
        BY <2>9, <3>3
      <4> QED BY <1>6, <3>3, <4>1, <4>2
    <3> QED BY <3>2, <3>3
  <2>11. ft = gs
    <3>1. Len(ft) = Len(gs)
      BY <2>1, <2>9
    <3> QED BY <2>1, <2>9, <2>10, <3>1, ListsEqual
  <2> QED BY <1>3, <1>4, <2>1, <2>7, <2>11 DEF x
<1> QED BY <1>11, <1>12 DEF e

\* The same, of a list with the file put in it.
PutIn(dirs, at, f, es) ==
    /\ dirs \in Seq(Directories) /\ at \in 1 .. Len(dirs) /\ dirs[at].system
    /\ \A j \in 1 .. Len(dirs) : dirs[j].system /\ dirs[j].name = dirs[at].name => j <= at
    /\ f \in STRING /\ es \in Seq(Directories) /\ Len(es) = Len(dirs)
    /\ es[at] = [dirs[at] EXCEPT !.files = @ \o <<f>>]
    /\ \A j \in 1 .. Len(dirs) : j # at => es[j] = dirs[j]

ReadsAs(dirs, at, f, es) ==
    /\ Bundles(PartsOf(es)) = Bundles(PartsOf(dirs))
    /\ \A name : Folder(PartsOf(es), name) =
         Folder(PartsOf(dirs), name) \o Its(Part("system", dirs[at].name, <<f>>), name)

\* ... as one fact about the two lists.
LEMMA FolderFed ==
  ASSUME NEW dirs, NEW at, NEW f, NEW es, PutIn(dirs, at, f, es)
  PROVE  ReadsAs(dirs, at, f, es)
<1>1. dirs \in Seq(Directories) /\ at \in 1 .. Len(dirs) /\ dirs[at].system
  BY DEF PutIn
<1>2. \A j \in 1 .. Len(dirs) : dirs[j].system /\ dirs[j].name = dirs[at].name => j <= at
  BY DEF PutIn
<1>3. f \in STRING /\ es \in Seq(Directories) /\ Len(es) = Len(dirs)
  BY DEF PutIn
<1>4. es[at] = [dirs[at] EXCEPT !.files = @ \o <<f>>]
  BY DEF PutIn
<1>5. \A j \in 1 .. Len(dirs) : j # at => es[j] = dirs[j]
  BY DEF PutIn
<1> QED BY <1>1, <1>2, <1>3, <1>4, <1>5, FolderChanged, ZenonT(30) DEF ReadsAs

-----------------------------------------------------------------------------
(* What is laid down is read back.                                         *)

\* The same saves in the same order, and the same files in every folder.
Same(ps, qs) == Bundles(ps) = Bundles(qs) /\ \A name : Folder(ps, name) = Folder(qs, name)

\* Lists that are the same card are with a part more on each.
LEMMA SameAppend ==
  ASSUME NEW ps \in Seq(PartSet), NEW qs \in Seq(PartSet), NEW e \in PartSet, Same(ps, qs)
  PROVE  Same(Append(ps, e), Append(qs, e))
<1>1. Bundles(ps) = Bundles(qs)
  BY DEF Same
<1>2. Bundles(Append(ps, e)) = IF e.kind \in {"bundle"} THEN Append(Bundles(ps), e) ELSE Bundles(ps)
  BY ThoseAppend DEF Bundles
<1>3. Bundles(Append(qs, e)) = IF e.kind \in {"bundle"} THEN Append(Bundles(qs), e) ELSE Bundles(qs)
  BY ThoseAppend DEF Bundles
<1>4. ASSUME NEW name
      PROVE  Folder(Append(ps, e), name) = Folder(Append(qs, e), name)
  <2>1. Grows(ps, e, name) /\ Grows(qs, e, name)
    BY FolderGrows, Zenon
  <2>2. Folder(ps, name) = Folder(qs, name)
    BY DEF Same
  <2> QED BY <2>1, <2>2 DEF Grows
<1> QED BY <1>1, <1>2, <1>3, <1>4 DEF Same

\* A part that makes a directory is what the directory is read as.
Made(e) == [name |-> e.name, files |-> e.files, system |-> e.kind = "system"]

\* A save, or a folder, is read back from the directory it makes.
LEMMA MadeReads ==
  ASSUME NEW e \in Plain, e.kind = "bundle" \/ (e.kind = "system" /\ e.files = <<>>)
  PROVE  Made(e) \in Directories /\ DirectoryParts(Made(e)) = <<e>>
<1>1. /\ e \in [kind : Kinds, name : Names, files : Seq(STRING), image : Seq(Directories)]
      /\ e.image = <<>> /\ e.name \in STRING /\ (e.kind = "bundle" => e.files # <<>>)
  BY DEF Plain, PartSet
<1>2. Made(e) \in Directories
  BY <1>1 DEF Made, Directories
<1>3. CASE e.kind = "bundle"
  <2>1. Part("bundle", e.name, e.files) = e
    BY <1>1, <1>3 DEF Part
  <2>2. ~Made(e).system /\ Made(e).name = e.name /\ Made(e).files = e.files
    BY <1>3 DEF Made
  <2> QED BY <1>1, <1>2, <1>3, <2>1, <2>2 DEF DirectoryParts
<1>4. CASE e.kind = "system" /\ e.files = <<>>
  <2> DEFINE tail == [i \in DOMAIN <<>> |-> Part("system", e.name, <<(<<>>)[i]>>)]
  <2>1. Part("system", e.name, <<>>) = e
    BY <1>1, <1>4 DEF Part
  <2>2. Made(e).system /\ Made(e).name = e.name /\ Made(e).files = <<>>
    BY <1>4 DEF Made
  <2>3. DirectoryParts(Made(e)) = <<e>> \o tail
    BY <2>1, <2>2 DEF DirectoryParts
  <2>4. tail = <<>>
    OBVIOUS
  <2> HIDE DEF tail
  <2>5. <<e>> \in Seq(Plain)
    BY ListOfOne
  <2>6. <<e>> \o <<>> = <<e>>
    BY <2>5, ConcatNone
  <2> QED BY <1>2, <2>3, <2>4, <2>6
<1> QED BY <1>2, <1>3, <1>4

\* A list of one at most, and not of none.
LEMMA OnlyOne ==
  ASSUME NEW S, NEW s \in Seq(S), s # <<>>, Len(s) <= 1
  PROVE  s[1] \in S /\ s = <<s[1]>>
<1>1. Len(s) \in Nat /\ (Len(s) = 0 => s = <<>>)
  OBVIOUS
<1>2. Len(s) = 1
  BY <1>1
<1> QED BY <1>2

\* A folder's file is one of the folder's parts.
LEMMA FileIs ==
  ASSUME NEW e \in Plain, e.kind = "system", e.files # <<>>
  PROVE  /\ e.files[1] \in STRING /\ e.files = <<e.files[1]>>
         /\ Part("system", e.name, <<e.files[1]>>) = e
<1>1. /\ e \in [kind : Kinds, name : Names, files : Seq(STRING), image : Seq(Directories)]
      /\ e.image = <<>> /\ Len(e.files) <= 1
  BY DEF Plain, PartSet
<1>2. e.files \in Seq(STRING)
  BY <1>1
<1>4. e.files[1] \in STRING /\ e.files = <<e.files[1]>>
  BY <1>1, <1>2, OnlyOne
<1>5. Part("system", e.name, e.files) = e
  BY <1>1 DEF Part
<1> QED BY <1>4, <1>5

\* A part laid down after others that are read back is read back after them.
Back(s) == ~Laid(s).orphan => Same(PartsOf(Laid(s).dirs), s)

\* One part more is still read back.
LEMMA BackAppend ==
  ASSUME NEW u \in Seq(Plain), NEW e \in Plain, Back(u)
  PROVE  Back(Append(u, e))
<1> DEFINE laid == Laid(u)
           ps == PartsOf(laid.dirs)
           next == AddPart(laid, e)
<1> SUFFICES ASSUME ~Laid(Append(u, e)).orphan
             PROVE  Same(PartsOf(Laid(Append(u, e)).dirs), Append(u, e))
  BY DEF Back
<1>1. u \in Seq(PartSet) /\ e \in PartSet /\ e.kind # "card-image"
  BY DEF Plain
<1>2. laid \in LayStep /\ Laid(Append(u, e)) = next
  BY <1>1, LaidIs, LaidAppend
<1>3. laid.dirs \in Seq(Directories)
  BY <1>2 DEF LayStep
<1>4. ps \in Seq(PartSet)
  <2>1. ps \in Seq(Plain)
    BY <1>3, PartsOfIs
  <2> QED BY <2>1 DEF Plain
<1>5. ~laid.orphan => Same(ps, u)
  BY DEF Back
<1>6. CASE /\ e.kind = "bundle" \/ (e.kind = "system" /\ e.files = <<>>)
           /\ next = [laid EXCEPT !.dirs = Append(@, [name |-> e.name, files |-> e.files,
                                                      system |-> e.kind = "system"])]
  <2>1. Made(e) \in Directories /\ DirectoryParts(Made(e)) = <<e>>
    BY <1>6, MadeReads
  <2>2. next.dirs = Append(laid.dirs, Made(e)) /\ next.orphan = laid.orphan
    BY <1>2, <1>6 DEF Made, LayStep
  <2> HIDE DEF laid, next
  <2>3. PartsOf(next.dirs) = ps \o <<e>>
    BY <1>3, <2>1, <2>2, PartsOfAppend
  <2> HIDE DEF ps
  <2>4. ps \o <<e>> = Append(ps, e)
    BY <1>1, <1>4
  <2>5. Same(Append(ps, e), Append(u, e))
    BY <1>1, <1>2, <1>4, <1>5, <2>2, SameAppend
  <2> QED BY <1>2, <2>3, <2>4, <2>5
<1>7. CASE /\ e.kind = "system" /\ e.files # <<>> /\ Folders(laid.dirs, e.name) # {}
           /\ next = [laid EXCEPT !.dirs[LastOf(Folders(laid.dirs, e.name))].files = @ \o e.files]
  <2> DEFINE at == LastOf(Folders(laid.dirs, e.name))
             dirs == laid.dirs
             es == next.dirs
             f == e.files[1]
  <2>1. f \in STRING /\ e.files = <<f>> /\ Part("system", e.name, <<f>>) = e
    BY <1>7, FileIs
  <2>2. /\ at \in 1 .. Len(dirs) /\ dirs[at].system /\ dirs[at].name = e.name
        /\ \A j \in 1 .. Len(dirs) : dirs[j].system /\ dirs[j].name = e.name => j <= at
    BY <1>3, <1>7, FoldersAre
  <2>3. next.orphan = laid.orphan /\ next \in LayStep
    BY <1>1, <1>2, <1>7, AddPartIs DEF LayStep
  <2> DEFINE d == [dirs[at] EXCEPT !.files = @ \o <<f>>]
  <2>4. es = [dirs EXCEPT ![at] = d]
    <3>1. next = [laid EXCEPT !.dirs = [laid.dirs EXCEPT ![at] = [laid.dirs[at] EXCEPT !.files = @ \o e.files]]]
      BY <1>7
    <3> HIDE DEF at, f
    <3>2. es = [dirs EXCEPT ![at] = [dirs[at] EXCEPT !.files = @ \o e.files]]
      BY <1>2, <3>1 DEF LayStep
    <3> QED BY <2>1, <3>2
  <2> HIDE DEF at, f
  <2>4a. d \in Directories
    <3>1. dirs[at] \in Directories
      BY <1>3, <2>2
    <3>2. dirs[at].files \in Seq(STRING) /\ <<f>> \in Seq(STRING)
      BY <2>1, <3>1, ListOfOne DEF Directories
    <3>3. dirs[at].files \o <<f>> \in Seq(STRING)
      BY <3>2, ConcatIs
    <3> QED BY <3>1, <3>3 DEF Directories
  <2> HIDE DEF d
  <2>5. /\ es \in Seq(Directories) /\ Len(es) = Len(dirs)
        /\ es[at] = d
        /\ \A j \in 1 .. Len(dirs) : j # at => es[j] = dirs[j]
    BY <1>3, <2>2, <2>4, <2>4a, ChangedIs
  <2> HIDE DEF dirs, es
  <2>6. /\ Bundles(PartsOf(es)) = Bundles(PartsOf(dirs))
        /\ \A name : Folder(PartsOf(es), name) =
             Folder(PartsOf(dirs), name) \o Its(Part("system", dirs[at].name, <<f>>), name)
    <3>1. dirs \in Seq(Directories)
      BY <1>3 DEF dirs
    <3>2. \A j \in 1 .. Len(dirs) : dirs[j].system /\ dirs[j].name = dirs[at].name => j <= at
      BY <2>2
    <3>3. es[at] = [dirs[at] EXCEPT !.files = @ \o <<f>>]
      BY <2>5 DEF d
    <3>4. f \in STRING
      BY <2>1
    <3>5. PutIn(dirs, at, f, es)
      BY <2>2, <2>5, <3>1, <3>2, <3>3, <3>4 DEF PutIn
    <3>6. ReadsAs(dirs, at, f, es)
      BY <3>5, FolderFed, Zenon
    <3> QED BY <3>6 DEF ReadsAs
  <2>7. Same(PartsOf(dirs), u)
    BY <1>2, <1>5, <2>3 DEF dirs
  <2>8. Bundles(Append(u, e)) = Bundles(u)
    <3>1. e.kind \notin {"bundle"}
      BY <1>7
    <3>2. Those(Append(u, e), {"bundle"}) =
            IF e.kind \in {"bundle"} THEN Append(Those(u, {"bundle"}), e) ELSE Those(u, {"bundle"})
      BY <1>1, ThoseAppend
    <3> QED BY <3>1, <3>2 DEF Bundles
  <2>9. ASSUME NEW name
        PROVE  Folder(PartsOf(es), name) = Folder(Append(u, e), name)
    <3>1. Folder(PartsOf(es), name) = Folder(PartsOf(dirs), name) \o Its(e, name)
      BY <2>1, <2>2, <2>6
    <3>2. Folder(PartsOf(dirs), name) = Folder(u, name)
      BY <2>7 DEF Same
    <3>3. Grows(u, e, name)
      BY <1>1, FolderGrows, Zenon
    <3> QED BY <3>1, <3>2, <3>3 DEF Grows
  <2> QED BY <1>2, <2>6, <2>7, <2>8, <2>9 DEF Same, es
<1>8. CASE next = [laid EXCEPT !.orphan = TRUE]
  <2>1. next.orphan = TRUE
    BY <1>2, <1>8 DEF LayStep
  <2> QED BY <1>2, <2>1
<1> HIDE DEF next, ps
<1>9. \/ /\ e.kind = "bundle" \/ (e.kind = "system" /\ e.files = <<>>)
         /\ next = [laid EXCEPT !.dirs = Append(@, [name |-> e.name, files |-> e.files,
                                                  system |-> e.kind = "system"])]
      \/ /\ e.kind = "system" /\ e.files # <<>> /\ Folders(laid.dirs, e.name) # {}
         /\ next = [laid EXCEPT !.dirs[LastOf(Folders(laid.dirs, e.name))].files = @ \o e.files]
      \/ next = [laid EXCEPT !.orphan = TRUE]
  <2> HIDE DEF laid
  <2> QED BY <1>1, <1>2, AddPartDoes DEF next
<1> QED BY <1>6, <1>7, <1>8, <1>9

\* Parts that can be laid down are read back as they were: the same saves,
\* and the same files in each folder, wherever the files stood among the parts.
LEMMA LaidReads ==
  ASSUME NEW s \in Seq(Plain), ~Laid(s).orphan
  PROVE  Same(PartsOf(Laid(s).dirs), s)
<1> DEFINE P == {u \in Seq(Plain) : Back(u)}
<1>1. <<>> \in P
  <2>1. Laid(<<>>).dirs = <<>>
    BY LaidEmpty DEF Nothing
  <2>2. Same(PartsOf(<<>>), <<>>)
    BY BlankIs DEF Same
  <2>3. <<>> \in Seq(Plain)
    BY ListOfNone
  <2> QED BY <2>1, <2>2, <2>3 DEF Back
<1>2. ASSUME NEW u \in Seq(Plain), NEW e \in Plain, u \in P
      PROVE  Append(u, e) \in P
  <2>1. Append(u, e) \in Seq(Plain)
    OBVIOUS
  <2> QED BY <1>2, <2>1, BackAppend
<1>3. \A u \in Seq(Plain) : u \in P
  <2> HIDE DEF P
  <2> QED BY <1>1, <1>2, SeqInduct
<1> QED BY <1>3 DEF Back

\* A card with only its image on it has no saves and no folders.
LEMMA ImageHasNone ==
  ASSUME NEW dirs \in Seq(Directories), PartsOf(dirs) = <<>>
  PROVE  Same(Read(dirs), <<>>)
<1>1. Read(dirs) = <<ImagePart(dirs)>> /\ Read(dirs) \in Seq(PartSet) /\ Alone(Read(dirs))
  BY ReadIs
<1>2. Len(Read(dirs)) = 1 /\ Read(dirs)[1].kind = "card-image"
  BY <1>1 DEF ImagePart, Part
<1>3. Bundles(Read(dirs)) = <<>>
  <2>1. \A i \in 1 .. Len(Read(dirs)) : Read(dirs)[i].kind \notin {"bundle"}
    BY <1>2
  <2> QED BY <1>1, <2>1, ThoseNone DEF Bundles
<1>4. Bundles(<<>>) = <<>>
  BY ThoseEmpty DEF Bundles
<1>5. ASSUME NEW name
      PROVE  Folder(Read(dirs), name) = Folder(<<>>, name)
  <2>1. \A i \in 1 .. Len(Read(dirs)) : ~(Read(dirs)[i].kind = "system" /\ Read(dirs)[i].name = name)
    BY <1>2
  <2>2. Folder(Read(dirs), name) = <<>>
    BY <1>1, <2>1, FolderNone
  <2> QED BY <2>2, FolderEmpty
<1> QED BY <1>3, <1>4, <1>5 DEF Same

\* What Card::save writes of a card is read back as the card.
LEMMA WrittenReads ==
  ASSUME Typed, NEW c \in Cards, Alone(parts[c]), Outcome(c) = "written"
  PROVE  Same(Read(Rebuilt(c)), parts[c])
<1> DEFINE ps == parts[c]
<1>1. ps \in Seq(PartSet) /\ DOMAIN ps = 1 .. Len(ps)
  <2>1. ps \in Seq(PartSet)
    BY DEF Typed
  <2> QED BY <2>1
<1>2. CASE ImageOnly(ps)
  <2>1. PICK i \in DOMAIN ps : ps[i].kind = "card-image"
    BY <1>2 DEF ImageOnly
  <2> DEFINE at == CHOOSE k \in DOMAIN ps : ps[k].kind = "card-image"
  <2>2. at \in DOMAIN ps /\ ps[at].kind = "card-image" /\ Image(ps) = ps[at].image
    BY <2>1 DEF Image
  <2> HIDE DEF at
  <2>3. /\ ps[at].image \in Seq(Directories) /\ PartsOf(ps[at].image) = <<>>
        /\ ps = <<ImagePart(ps[at].image)>>
    BY <1>1, <2>2, ImageIsAlone
  <2>4. Read(ps[at].image) = <<ImagePart(ps[at].image)>>
    BY <2>3, ReadIs
  <2>5. Rebuilt(c) = ps[at].image
    BY <1>2, <2>2 DEF Rebuilt
  <2>6. Read(Rebuilt(c)) = ps
    BY <2>3, <2>4, <2>5
  <2> QED BY <2>6 DEF Same
<1>3. CASE ~ImageOnly(ps)
  <2> DEFINE dirs == Laid(ps).dirs
  <2>1. ~Laid(ps).orphan /\ Rebuilt(c) = dirs
    BY <1>3 DEF Outcome, Rebuilt
  <2>2. \A i \in 1 .. Len(ps) : ps[i].kind # "card-image"
    <3> SUFFICES ASSUME NEW i \in 1 .. Len(ps), ps[i].kind = "card-image" PROVE FALSE
      OBVIOUS
    <3>1. Bundles(ps) = <<>>
      BY <1>1, ImageIsAlone
    <3> QED BY <1>1, <1>3, <3>1 DEF ImageOnly
  <2>3. ps \in Seq(Plain)
    <3>1. \A i \in 1 .. Len(ps) : ps[i] \in Plain
      BY <1>1, <2>2 DEF Plain
    <3> QED BY <1>1, <3>1
  <2>4. Same(PartsOf(dirs), ps)
    BY <2>1, <2>3, LaidReads
  <2>5. dirs \in Seq(Directories)
    <3>1. Laid(ps) \in LayStep
      BY <1>1, LaidIs
    <3> QED BY <3>1 DEF LayStep
  <2> HIDE DEF dirs, ps
  <2>6. CASE PartsOf(dirs) = <<>>
    <3>1. Same(Read(dirs), <<>>)
      BY <2>5, <2>6, ImageHasNone
    <3>2. Same(<<>>, ps)
      BY <2>4, <2>6
    <3> QED BY <2>1, <3>1, <3>2 DEF Same, ps
  <2>7. CASE PartsOf(dirs) # <<>>
    <3>1. Read(dirs) = PartsOf(dirs)
      BY <2>5, <2>7, ReadIs
    <3> QED BY <2>1, <2>4, <3>1 DEF ps
  <2> QED BY <2>6, <2>7
<1> QED BY <1>2, <1>3

\* A clean card's file reads as the card.
CInv ==
    /\ IInv
    /\ \A c \in Cards : ~dirty[c] => disk[c] # Nowhere /\ Same(Read(disk[c]), parts[c])

\* Cards as they are opened are as they were read.
LEMMA InitCInv == Init => CInv
<1> SUFFICES ASSUME Init PROVE CInv
  OBVIOUS
<1>1. IInv
  BY InitIInv
<1>2. ASSUME NEW c \in Cards, ~dirty[c]
      PROVE  disk[c] # Nowhere /\ Same(Read(disk[c]), parts[c])
  <2>1. disk[c] # Nowhere
    BY <1>2 DEF Init
  <2>2. parts[c] = Read(disk[c])
    BY <2>1 DEF Init
  <2> QED BY <2>1, <2>2 DEF Same
<1> QED BY <1>1, <1>2 DEF CInv

\* A key leaves a card dirty, or as it is in its file.
LEMMA NextCInv == CInv /\ [Next]_vars => CInv'
<1> SUFFICES ASSUME CInv, [Next]_vars PROVE CInv'
  OBVIOUS
<1>1. IInv'
  BY NextIInv DEF CInv
<1>2. /\ Typed /\ focus \in Cards /\ dirty \in [Cards -> BOOLEAN] /\ parts \in [Cards -> Seq(PartSet)]
      /\ disk \in [Cards -> Seq(Directories) \cup {Nowhere}] /\ \A c \in Cards : Alone(parts[c])
  BY DEF CInv, IInv, Typed
<1>3. ASSUME NEW c \in Cards, ~dirty'[c]
      PROVE  disk'[c] # Nowhere /\ Same(Read(disk'[c]), parts'[c])
  <2>1. CASE DoCopy
    <3>1. UNCHANGED cardVars \/ Edited(Other, Append(parts[Other], parts[focus][Selected]))
      BY <2>1 DEF DoCopy, cardVars
    <3>2. UNCHANGED <<disk, dirty, parts>>
            \/ /\ dirty' = [dirty EXCEPT ![Other] = TRUE] /\ disk' = disk
               /\ \A d \in Cards : d # Other => parts'[d] = parts[d]
      BY <1>2, <3>1 DEF Edited, cardVars
    <3>3. Other \in Cards
      BY <1>2, OtherIs
    <3>4. disk'[c] = disk[c] /\ parts'[c] = parts[c] /\ ~dirty[c]
      BY <1>2, <1>3, <3>2, <3>3
    <3> QED BY <3>4 DEF CInv
  <2>2. CASE ConfirmDelete
    <3>1. UNCHANGED cardVars \/ Edited(focus, RemoveAt(parts[focus], Selected))
      BY <2>2 DEF ConfirmDelete, cardVars
    <3>2. UNCHANGED <<disk, dirty, parts>>
            \/ /\ dirty' = [dirty EXCEPT ![focus] = TRUE] /\ disk' = disk
               /\ \A d \in Cards : d # focus => parts'[d] = parts[d]
      BY <1>2, <3>1 DEF Edited, cardVars
    <3>4. disk'[c] = disk[c] /\ parts'[c] = parts[c] /\ ~dirty[c]
      BY <1>2, <1>3, <3>2
    <3> QED BY <3>4 DEF CInv
  <2>3. CASE ConfirmFormat
    <3>2. /\ dirty' = [dirty EXCEPT ![focus] = TRUE] /\ disk' = disk
          /\ \A d \in Cards : d # focus => parts'[d] = parts[d]
      BY <1>2, <2>3 DEF ConfirmFormat
    <3>4. disk'[c] = disk[c] /\ parts'[c] = parts[c] /\ ~dirty[c]
      BY <1>2, <1>3, <3>2
    <3> QED BY <3>4 DEF CInv
  <2>4. CASE ConfirmWrite
    <3>1. CASE UNCHANGED cardVars
      BY <1>3, <3>1 DEF CInv, cardVars
    <3>2. CASE ~UNCHANGED cardVars
      <4>1. /\ Outcome(focus) = "written" /\ parts' = parts
            /\ disk' = [disk EXCEPT ![focus] = Rebuilt(focus)]
            /\ dirty' = [dirty EXCEPT ![focus] = FALSE]
        BY <2>4, <3>2 DEF ConfirmWrite
      <4>2. CASE c = focus
        <5>1. disk'[c] = Rebuilt(c) /\ parts'[c] = parts[c]
          BY <1>2, <4>1, <4>2
        <5>2. Rebuilt(c) \in Seq(Directories)
          BY <1>2, RebuiltIs
        <5>3. Same(Read(Rebuilt(c)), parts[c])
          BY <1>2, <4>1, <4>2, WrittenReads
        <5> QED BY <5>1, <5>2, <5>3, DisksAssumption
      <4>3. CASE c # focus
        <5>1. disk'[c] = disk[c] /\ parts'[c] = parts[c] /\ ~dirty[c]
          BY <1>2, <1>3, <4>1, <4>3
        <5> QED BY <5>1 DEF CInv
      <4> QED BY <4>2, <4>3
    <3> QED BY <3>1, <3>2
  <2>5. CASE ~DoCopy /\ ~ConfirmDelete /\ ~ConfirmFormat /\ ~ConfirmWrite
    <3>1. UNCHANGED <<disk, parts, dirty>>
      BY <2>5 DEF Next, Browse, Answer, Step, Switch, AskDelete, AskFormat, AskWrite, AskQuit, PointAt,
                  Dismiss, ConfirmQuit, Copy, ConfirmCopyOver, cardVars, vars
    <3> QED BY <1>3, <3>1 DEF CInv
  <2> QED BY <2>1, <2>2, <2>3, <2>4, <2>5
<1> QED BY <1>1, <1>3 DEF CInv

\* A card with nothing to write is the card in its file: the saves in order,
\* and every folder of the console's with its files.  Every edit marks the
\* card dirty, and what Card::save writes reads back as what was on the card,
\* for any mix and order of saves, folders and files.
THEOREM CleanCardIsOnDisk == Spec => []CleanIsOnDisk
<1>1. CInv /\ [Next]_vars => CInv'
  BY NextCInv
<1>2. CInv => CleanIsOnDisk
  BY DEF CInv, CleanIsOnDisk, Same, Entries
<1> QED BY <1>1, <1>2, InitCInv, PTL DEF Spec

=============================================================================
