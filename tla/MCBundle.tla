------------------------------- MODULE MCBundle -------------------------------
(* Files to find: a bundle of each shape, whole or with one thing about it changed, *)
(* alone or nested in another, as this version, a later one or no version wrote it. *)
EXTENDS Bundle

Data == [raw |-> "a"]
Map(ints) == [ints |-> ints, texts |-> << >>]
PartOf(bytes) == 0 :> 0 @@ 9 :> sha256_of(bytes) @@ -1 :> bytes
Bundled(header, parts) == [header |-> header, parts |-> parts]
Squeezed(bytes) == 7 :> "zstd" @@ 8 :> SizeOf(bytes) @@ -1 :> [zstd |-> bytes]

Game(ints, texts) == [ints |-> ints, texts |-> texts]
Source == Map(4 :> "mgba" @@ 9 :> "later")
HeaderChanges ==
  {<< >>, 2 :> Map(3 :> "SLUS"), 2 :> Map(12 :> "later"), 2 :> Map(<< >>), 3 :> Source, 3 :> Map(<< >>),
   2 :> Map(1 :> <<"sha1", "sha256">>), 2 :> Map(1 :> <<"sha256", "md5">>), 2 :> Map(1 :> << >>),
   2 :> Game(3 :> "SLUS", RtcKey :> "fine"), 4 :> Map(0 :> "ps1" @@ 1 :> 15), 5 :> "a note", 6 :> [seconds |-> 1],
   6 :> [float |-> 1], 7 :> [seconds |-> 1], 11 :> "later", 0 :> "album",
   8 :> Map(3 :> << >>), 9 :> "auto"}
Texts == {<< >>, RtcKey :> "fine", <<"org", "emu", "clock">> :> "odd", <<"x">> :> "fine",
          <<"x", "1sav", "rtcx">> :> "fine", CheatsKey :> "fine"}
PartChanges ==
  {<< >>, 1 :> "aux", 1 :> "save", 1 :> "state", 1 :> "bundle", 1 :> "later", 2 :> "primary", 2 :> "cartridge",
   3 :> <<"DIR", "FILE">>, 3 :> << >>, 3 :> <<"..", "FILE">>, 3 :> <<"", "FILE">>, 4 :> 2, 5 :> 128, 7 :> "none",
   8 :> 1, 7 :> "zstd", Squeezed(Data), 8 :> 2 @@ Squeezed(Data), 9 :> sha256_of([raw |-> "b"]),
   9 :> [alg |-> "md5", of |-> Data], 10 :> Source, 11 :> Map(4 :> "Title"), 42 :> "later"}
Save(header, texts, part, partTexts) ==
  Bundled([ints |-> header @@ 0 :> "save", texts |-> texts],
          <<[ints |-> part @@ PartOf(Data), texts |-> partTexts]>>)
Saves ==
  {Save(h, << >>, << >>, << >>) : h \in HeaderChanges} \cup {Save(11 :> "later", t, << >>, << >>) : t \in Texts}
    \cup {Save(<< >>, << >>, p, << >>) : p \in PartChanges} \cup {Save(<< >>, << >>, << >>, t) : t \in Texts}
Two == {Bundled(Map(0 :> "save"), <<Map(p @@ PartOf(Data)), Map(q @@ PartOf(Data))>>) :
          p \in {<< >>, Squeezed(Data)}, q \in {<< >>, 0 :> 1, 0 :> 1 @@ 4 :> 1, 0 :> 1 @@ 4 :> 1 @@ Squeezed(Data)}}

Shot == 1 :> "screenshot" @@ 6 :> "image/png" @@ PartOf(Data)
State == 1 :> "state" @@ PartOf(Data)
Taken == 0 :> "state" @@ 3 :> Source
TakenWith == {Map(<< >>), Map(2 :> << >> @@ 8 :> "later"), Map(2 :> <<(<<"bios">> :> <<"md5">>)>>),
              Map(2 :> <<(<<"..">> :> <<"md5">>)>>), Map(4 :> <<(<< >>)>>),
              Map(3 :> << >>), Map(3 :> <<<<"language", "Script", "REGION">>>>), Map(3 :> <<<<"language", "REGION">>>>),
              Map(3 :> <<<<"language", "REGION", "Script">>>>), Map(3 :> <<<<"LANGUAGE">>>>)}
States ==
  {Bundled(Map(h @@ Taken), <<Map(s @@ State), Map(0 :> 1 @@ Shot)>>) :
     h \in {<< >>, 3 :> Map(<< >>), 7 :> [seconds |-> 1]} \cup {8 :> t : t \in TakenWith}, s \in {<< >>, 4 :> 1, 3 :> <<"a">>}}
    \cup {Bundled(Map(0 :> "screenshot"), <<Map(Shot)>>), Bundled(Map(Taken), <<Map(Shot)>>),
          Bundled([ints |-> Taken, texts |-> RtcKey :> "fine"], <<[ints |-> State, texts |-> CheatsKey :> "fine"]>>)}

Card(format, part) ==
  Bundled(Map(0 :> "card" @@ 4 :> Map(0 :> format @@ 1 :> 15 @@ 3 :> "later")), <<Map(part)>>)
SystemCard(first, second) ==
  Bundled(Map(0 :> "card" @@ 4 :> Map(0 :> "ps2" @@ 1 :> 15)),
          <<Map(first @@ 1 :> "system" @@ PartOf(Data)), Map(second @@ 0 :> 1 @@ 1 :> "system" @@ PartOf(Data))>>)
SystemCards == {SystemCard(3 :> <<"DIR">>, 3 :> <<"DIR", "FILE">>), SystemCard(3 :> <<"DIR", "FILE">>, 3 :> <<"DIR">>)}

In(bytes) == 1 :> "bundle" @@ 2 :> "memcard" @@ PartOf(bytes)
InnerSaves == {Save(h, << >>, << >>, << >>) : h \in {<< >>, 7 :> [seconds |-> 1], 11 :> "later", 0 :> "album"}}
                \cup {Save(<< >>, << >>, p, << >>) : p \in {5 :> 4, Squeezed(Data), 9 :> sha256_of([raw |-> "b"])}}
Cards == {Card(f, c @@ In(s)) : f \in {"ps1", "neogeo"}, s \in InnerSaves,
                                c \in {<< >>, 9 :> sha256_of(Data), 3 :> <<"0201-0">>, 3 :> <<"BASLUS">>}}
           \cup {Card("n64", (3 :> path) @@ In(s)) : s \in InnerSaves,
                    path \in {<<"0201-0", "BASLUS">>, <<"A.NAME.OF.16.ON.">>, <<"SIXTEEN UP TO IT.EXT">>, <<"note">>,
                             <<"BASLUS", "SIXTEEN UP TO IT.EXT">>, <<"SIXTEEN UP TO IT.LONG.">>}}
           \cup {Card("ps1", Squeezed(s) @@ In(s)) : s \in InnerSaves}
Around(shape, bytes, change) ==
  Bundled(Map(0 :> shape @@ IF shape = "device" THEN 1 :> "neogeo" ELSE << >>), <<Map(change @@ In(bytes))>>)
Deep ==
  {Around(shape, b, c) : shape \in {"device", "collection", "album"}, b \in {Card("ps1", In(s)) : s \in InnerSaves}
                                                                        \cup SystemCards,
                         c \in {<< >>, 9 :> sha256_of(Data)}}
Deeper == {Around("collection", Around("device", Card("ps1", In(s)), << >>), c) : s \in InnerSaves, c \in {<< >>, 42 :> "later"}}
            \cup {Around("collection", Around("collection", s, << >>), Squeezed(Around("collection", s, << >>))) : s \in InnerSaves}

FilesFound == {Data} \cup Saves \cup Two \cup States \cup SystemCards \cup Cards \cup Deep \cup Deeper
===============================================================================
