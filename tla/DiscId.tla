-------------------------------- MODULE DiscId --------------------------------
(***************************************************************************)
(* Identifying a disc from an image of it (crates/disc-id) by reading as   *)
(* little of it as will do: a file read forward, one that seeks, a track   *)
(* of a cue sheet, a CHD a hunk at a time.                                 *)
(*                                                                         *)
(* Lengths are in units small enough to cut a sector anywhere it matters,  *)
(* and a sector is a tuple that opens with what it is.                     *)
(***************************************************************************)
EXTENDS Integers, Sequences, FiniteSets, SequencesExt

CONSTANTS
    USER_DATA, RAW,    \* a sector's own data, and with its framing
    HEAD,              \* the opening bytes a Nintendo disc is known by
    MAX_PREFIX,        \* how far identifying may read
    STEP,              \* how much is asked for at first, and more of each time
    PVD_SECTOR,        \* where a file system describes itself
    HunkFrames,        \* frames in a hunk of a CHD
    TRACK_PADDING,     \* what chdman rounds a track's frames up to
    MAX_HUNK, MAX_HUNKS, MAX_METADATA, MAX_METADATA_ENTRY,    \* the most a CHD is let have
    Wanted             \* how many sectors a caller of user_data_prefix wants

None == << >>
VARIABLES
    disc,      \* what was mastered: the sectors of its data track
    image,     \* the file it was dumped to: [kind, geometry, before, pregap, pad, size, fault]
    stream,    \* the frames of it, from the one the identifier is put at
    job,       \* what is being done: identify, identify_seekable, user_data_prefix
    got, want, \* units read, and units asked for
    at,        \* where the job is
    out        \* what it ended with, <<answer>>

discVars == <<disc, image, stream, job, got, want, at, out>>

-----------------------------------------------------------------------------
(* Discs. *)

Boots == {"sega_cd", "saturn", "dreamcast"}
Pvd(root, dirs) == <<"pvd", root, dirs>>
Dir(records) == <<"dir", records>>                 \* [name, lba]
Cnf(lines) == <<"cnf", lines>>                     \* [key, plausible]
Entry(name, lba) == [name |-> name, lba |-> lba]
IsPvd(sector) == sector # None /\ sector[1][1] = "pvd"
Max0(S) == IF S = {} THEN 0 ELSE Max(S)

-----------------------------------------------------------------------------
(* The track the identifier is put at. *)

Audio(n) == [i \in 1 .. n |-> <<"audio">>]
Pregap(n) == [i \in 1 .. n |-> <<"pregap">>]
RoundUp(n, to) == ((n + to - 1) \div to) * to

(* A CHD as chdman lays one out (external): every track's frames, then its padding. *)
PadFrames == IF image.pad = "stated" THEN image.before + 1 ELSE RoundUp(image.before, TRACK_PADDING) - image.before
Stored ==
    Audio(image.before) \o (IF image.kind = "chd" /\ image.before > 0 THEN Audio(PadFrames) ELSE << >>)
        \o Pregap(image.pregap) \o disc \o Audio(2)
TrackTable ==
    (IF image.before = 0 THEN << >>
     ELSE <<[type |-> "AUDIO", frames |-> image.before, pregap |-> 0,
             pad |-> IF image.pad = "stated" THEN <<PadFrames>> ELSE None]>>)
        \o <<[type |-> "MODE", frames |-> Len(disc), pad |-> None, pregap |-> image.pregap]>>
        \o <<[type |-> "AUDIO", frames |-> 2, pregap |-> 0, pad |-> None]>>

(* What its header says, a disc in frames, and its metadata, each entry naming the next by its
   offset; one thing about them may be wrong. Some entries are of no track. *)
Declared ==
    [hunk |-> CASE image.fault = "no hunk" -> 0 [] image.fault = "vast hunk" -> MAX_HUNK + 1
                [] image.fault = "largest hunk" -> MAX_HUNK [] OTHER -> HunkFrames,
     logical |-> CASE image.fault = "vast disc" -> <<MAX_HUNKS * HunkFrames + 1>>
                   [] image.fault = "disc past any" -> None [] OTHER -> <<Len(Stored)>>,
     older |-> image.fault \in {"older", "empty sectors"}, video |-> image.fault = "video",
     map |-> IF image.fault \in {"map past the end", "map too wide", "map of no tree"} THEN image.fault ELSE "sound"]
NoTrack == [track |-> None, sectors |-> None]
Geometry(sectors) == [NoTrack EXCEPT !.sectors = <<sectors>>]
Metadata ==
    LET others == CASE image.fault = "long" -> [i \in 1 .. MAX_METADATA |-> NoTrack]
                    [] image.fault \in {"empty sectors", "sectors unasked"} -> <<Geometry(0)>>
                    [] image.fault \in {"older", "vast geometry"} -> <<Geometry(1)>>
                    [] OTHER -> <<NoTrack>>
        entries == [i \in DOMAIN TrackTable |-> [NoTrack EXCEPT !.track = <<TrackTable[i]>>]] \o others
        vast == CASE image.fault = "vast entry" -> {1} [] image.fault \in {"vast geometry", "vast note"} -> {Len(entries)} [] OTHER -> {}
    IN [i \in DOMAIN entries |->
          [track |-> entries[i].track, sectors |-> entries[i].sectors,
           length |-> IF i \in vast THEN MAX_METADATA_ENTRY + 1 ELSE 1,
           next |-> CASE i < Len(entries) -> i + 1
                      [] i = Len(entries) /\ image.fault = "cycle" -> 1
                      [] i = Len(entries) /\ image.fault = "cut short" -> i + 1
                      [] OTHER -> 0]]

(* The offsets along the chain. An entry that cannot be read in full ends it; one met before,
   or one too many, and the CHD is refused. *)
metadata_chain ==
    LET Walk[n \in 0 .. MAX_METADATA + 1] ==
            IF n = 0 THEN [chain |-> << >>, at |-> 1, refused |-> FALSE]
            ELSE LET before == Walk[n - 1]
                     chain == before.chain
                 IN IF before.refused \/ before.at = 0 \/ before.at \notin DOMAIN Metadata THEN before
                    ELSE IF before.at \in Range(chain) \/ Len(chain) = MAX_METADATA
                    THEN [before EXCEPT !.refused = TRUE]
                    ELSE [before EXCEPT !.chain = Append(@, before.at), !.at = Metadata[before.at].next]
    IN Walk[MAX_METADATA + 1]
(* The map of a version 5 CHD, which an older one has none of, and the sectors of the first
   geometry of an older one, which is all that states them there. *)
vet_map == Declared.older \/ Declared.map = "sound"
Geometries == SelectSeq(metadata_chain.chain, LAMBDA i : Metadata[i].sectors # None)
vet ==
    /\ Declared.hunk \in 1 .. MAX_HUNK
    /\ ~Declared.video
    /\ Declared.logical # None
    /\ RoundUp(Declared.logical[1], Declared.hunk) \div Declared.hunk <= MAX_HUNKS
    /\ vet_map
    /\ ~metadata_chain.refused
    /\ \A i \in Range(metadata_chain.chain) :
          Metadata[i].track # None \/ Metadata[i].sectors # None => Metadata[i].length <= MAX_METADATA_ENTRY
    /\ Declared.older /\ Geometries # << >> => Metadata[Geometries[1]].sectors # <<0>>
Tracks ==
    LET chain == SelectSeq(metadata_chain.chain, LAMBDA i : Metadata[i].track # None)
    IN [k \in DOMAIN chain |-> Metadata[chain[k]].track[1]]

(* The frames of the tracks before the first of data, and its own pregap where that is stored. *)
PaddedByRule(track) == RoundUp(track.frames, TRACK_PADDING)
stored(track) == IF track.pad # None THEN track.frames + track.pad[1] ELSE RoundUp(track.frames, TRACK_PADDING)
data_track(tracks) ==
    LET first == CHOOSE i \in DOMAIN tracks : tracks[i].type = "MODE" /\ \A j \in 1 .. i - 1 : tracks[j].type # "MODE"
        frames == FoldLeft(LAMBDA sum, track : sum + stored(track), 0, SubSeq(tracks, 1, first - 1))
    IN frames + tracks[first].pregap

(* The lines of a sheet (external): one file for all the tracks, or one for each. *)
Sheet ==
    LET Track(file, mode, start, gap) ==
            (IF image.pad = "file each" \/ start = 0 THEN <<[word |-> "FILE", name |-> file]>> ELSE << >>)
              \o <<[word |-> "TRACK", mode |-> mode]>>
              \o (IF gap = 0 THEN << >> ELSE <<[word |-> "INDEX", n |-> 0, frames |-> start]>>)
              \o <<[word |-> "INDEX", n |-> 1, frames |-> start + gap]>>
        StartOf(frames) == IF image.pad = "file each" THEN 0 ELSE frames
    IN (IF image.before = 0 THEN << >> ELSE Track("1", "AUDIO", 0, 0))
         \o Track("2", "MODE", StartOf(image.before), image.pregap)
         \o Track("3", "AUDIO", StartOf(image.before + image.pregap + Len(disc)), 0)

(* Only INDEX 01 starts a track: INDEX 00 is its pregap. *)
first_data_track(lines) ==
    LET Line(read, line) ==
            CASE line.word = "FILE" -> [read EXCEPT !.file = line.name]
              [] line.word = "TRACK" -> [read EXCEPT !.pending = <<line.mode = "MODE">>]
              [] line.word = "INDEX" /\ read.pending # None /\ line.n = 1 ->
                   [read EXCEPT !.pending = None,
                                !.starts = Append(@, [file |-> read.file, offset |-> line.frames * RAW, data |-> read.pending[1]])]
              [] OTHER -> read
        starts == FoldLeft(Line, [file |-> "", pending |-> None, starts |-> << >>], lines).starts
        first == CHOOSE i \in DOMAIN starts : starts[i].data /\ \A j \in 1 .. i - 1 : ~starts[j].data
        after == SelectSeq(SubSeq(starts, first + 1, Len(starts)), LAMBDA s : s.file = starts[first].file)
    IN [file |-> starts[first].file, offset |-> starts[first].offset,
        length |-> IF after = << >> THEN None ELSE <<after[1].offset - starts[first].offset>>]

(* The file from where the identifier is put at it. *)
FileFrames == IF image.kind = "cue" /\ image.pad = "file each" THEN Pregap(image.pregap) \o disc ELSE Stored
From(frames, n) == SubSeq(frames, n + 1, Len(frames))
DropFrames == data_track(Tracks)
Frames ==
    CASE image.kind = "file" -> disc
      [] image.kind = "cue" -> From(FileFrames, first_data_track(Sheet).offset \div RAW)
      [] image.kind = "chd" -> From(Stored, DropFrames)
Width == IF image.geometry = "cooked" THEN USER_DATA ELSE RAW
Units == IF image.size = None THEN Len(stream) * Width ELSE image.size[1]

-----------------------------------------------------------------------------
(* A prefix of n units: what is in it, and what would have been. *)

Synced == image.geometry # "cooked" /\ stream[1][1] # "audio"
detect(n) ==
    CASE n < USER_DATA -> None
      [] ~Synced -> <<"cooked">>
      [] n < RAW -> None
      [] OTHER -> <<image.geometry>>
offset(geometry) == CASE geometry = "cooked" -> 0 [] geometry = "mode1" -> 1 [] geometry = "mode2" -> 2
stride(geometry) == IF geometry = "cooked" THEN USER_DATA ELSE RAW
End(geometry, index) == index * stride(geometry) + offset(geometry) + USER_DATA

(* What is at those units, which is a sector where the framing is the one they were dumped with. *)
DataAt(geometry, index) ==
    IF stride(geometry) = Width /\ index < Len(stream)
       /\ offset(geometry) = (CASE image.geometry = "cooked" -> 0 [] image.geometry = "mode1" -> 1 [] image.geometry = "mode2" -> 2)
    THEN stream[index + 1] ELSE <<"junk">>
Has(n, index) == detect(n) # None /\ End(detect(n)[1], index) <= n
sector(n, index) == IF Has(n, index) THEN <<DataAt(detect(n)[1], index)>> ELSE None

is_iso9660(n) == IsPvd(sector(n, PVD_SECTOR))

(* The sectors of the root directory there are, up to the first there is not, as far as the one
   that has the file: where that file is, if anywhere, and what is in it. *)
Root == stream[PVD_SECTOR + 1]
DirSectors(n) == {lba \in Root[2] .. Root[2] + Root[3] - 1 : \A before \in Root[2] .. lba : Has(n, before)}
Records(n, lba) == IF sector(n, lba)[1][1] = "dir" THEN sector(n, lba)[1][2] ELSE << >>
find_root_file(n, name) ==
    LET has == {lba \in DirSectors(n) : \E i \in DOMAIN Records(n, lba) : Records(n, lba)[i].name = name}
        nearest == {lba \in has : \A other \in has : lba <= other}
    IN UNION {{Records(n, lba)[i].lba : i \in {i \in DOMAIN Records(n, lba) :
                  Records(n, lba)[i].name = name /\ \A j \in 1 .. i - 1 : Records(n, lba)[j].name # name}} : lba \in nearest}
read_root_file(n, name) == {DataAt(detect(n)[1], lba) : lba \in {lba \in find_root_file(n, name) : Has(n, lba)}}

nintendo(n) ==
    IF n < HEAD \/ image.geometry # "cooked" \/ stream[1][1] \notin {"gc", "wii"} THEN None ELSE <<stream[1][1]>>
(* The first line of SYSTEM.CNF that names a boot file whose name is a serial. *)
parse_system_cnf(cnf) ==
    LET boots == SelectSeq(cnf[2], LAMBDA line : line.key \in {"BOOT", "BOOT2"} /\ line.plausible)
    IN IF cnf[1] # "cnf" \/ boots = << >> THEN None ELSE <<IF boots[1].key = "BOOT2" THEN "ps2" ELSE "psx">>
playstation(n) == {parse_system_cnf(cnf) : cnf \in read_root_file(n, "SYSTEM.CNF")} \ {None}
identify_disc(n) ==
    LET first == sector(n, 0)
        second == sector(n, 1)
    IN CASE nintendo(n) # None -> nintendo(n)
         [] nintendo(n) = None /\ first = None -> None
         [] nintendo(n) = None /\ first # None ->
              CASE first[1][1] \in Boots -> <<first[1][1]>>
                [] second # None /\ first[1][1] \notin Boots /\ second[1][1] = "pce" -> <<"pcenginecd">>
                [] OTHER -> IF ~is_iso9660(n) THEN None
                            ELSE IF find_root_file(n, "IPL.TXT") # {} THEN <<"neogeocd">>
                            ELSE IF playstation(n) = {} THEN None ELSE CHOOSE found \in playstation(n) : TRUE

(* How many units each lookup that came up short would have taken. *)
Lookups(n) ==
    LET missing == {lba \in Root[2] .. Root[2] + Root[3] - 1 : lba - Root[2] = Cardinality(DirSectors(n))}
        sectors == {0, 1, PVD_SECTOR} \cup (IF is_iso9660(n) THEN missing \cup find_root_file(n, "SYSTEM.CNF") ELSE {})
    IN {HEAD, RAW} \cup (IF detect(n) = None THEN {} ELSE {End(detect(n)[1], lba) : lba \in sectors})

(* Mutant: however far in it is. *)
NeededAnywhere(n) == Max0({end \in Lookups(n) : n < end})
(* One further in than may be read is not asked for. *)
needed(n) == Max0({end \in Lookups(n) : n < end /\ end <= MAX_PREFIX})

(* Broken off with an answer, or to go on with more than there is. *)
identify_prefix(n) ==
    IF identify_disc(n) = None /\ needed(n) > n THEN [more |-> needed(n), answer |-> None]
    ELSE [more |-> 0, answer |-> identify_disc(n)]

user_data_upto(n, sectors) ==
    LET there == {i \in 0 .. sectors - 1 : \A j \in 0 .. i : sector(n, j) # None}
    IN [i \in 1 .. Cardinality(there) |-> sector(n, i - 1)[1]]
(* Nothing until there is all of it. *)
user_data_prefix(n, sectors) ==
    LET data == user_data_upto(n, sectors)
        end == IF detect(n) = None THEN RAW ELSE End(detect(n)[1], Len(data))
    IN IF Len(data) = sectors THEN [more |-> 0, answer |-> data]
       ELSE [more |-> IF end <= MAX_PREFIX THEN end ELSE RAW, answer |-> None]

Step(n) == IF job = "data" THEN user_data_prefix(n, Wanted) ELSE identify_prefix(n)

-----------------------------------------------------------------------------
(* Reading: as much as a read gives, which may be less than was asked for. *)

Ended(answer) == at' = "done" /\ out' = <<answer>> /\ UNCHANGED <<got, want>>

Open ==
    /\ at = "open"
    /\ IF image.kind = "chd" /\ ~vet
       THEN Ended(<<"refused">>) /\ UNCHANGED stream
       ELSE at' = "read" /\ stream' = Frames /\ UNCHANGED <<got, want, out>>

ReadSome ==
    /\ at = "read" /\ image.kind # "chd" /\ got < want /\ got < Units
    /\ \E n \in {1, want - got} : got' = IF got + n < Units THEN got + n ELSE Units
    /\ UNCHANGED <<want, at, out>>

(* As far as identifying asks, and a little more each time. *)
Ask ==
    /\ at = "read" /\ image.kind # "chd" /\ job # "seekable" /\ (got >= want \/ got = Units)
    /\ LET step == Step(got)
       IN IF step.more = 0 THEN Ended(step.answer)
          ELSE IF step.more > got /\ got >= want
               THEN want' = Max({step.more, want + STEP}) /\ UNCHANGED <<got, at, out>>
               ELSE Ended(None)

(* All that may be read at once, and then the one file that may be further in. *)
AskSeekable ==
    /\ at = "read" /\ job = "seekable" /\ (got = MAX_PREFIX \/ got = Units)
    /\ IF identify_prefix(got).answer # None THEN Ended(identify_prefix(got).answer)
       ELSE IF ~is_iso9660(got) \/ find_root_file(got, "SYSTEM.CNF") = {} THEN Ended(None)
       ELSE at' = "seek" /\ UNCHANGED <<got, want, out>>
Seek ==
    /\ at = "seek"
    /\ \E lba \in find_root_file(got, "SYSTEM.CNF") :
         Ended(IF End(detect(got)[1], lba) <= Units THEN parse_system_cnf(DataAt(detect(got)[1], lba)) ELSE None)

(* A hunk of a CHD. The first may open with frames of the track before. *)
Hunks == RoundUp(Len(Stored), HunkFrames) \div HunkFrames
Dropped == Len(Stored) - Len(stream)
HunksRead == RoundUp(Dropped + got \div Width, HunkFrames) \div HunkFrames
Exhausted == HunksRead >= Hunks
ReadHunk ==
    /\ at = "read" /\ image.kind = "chd" /\ got < want /\ ~Exhausted
    /\ got' = Width * Min({(HunksRead + 1) * HunkFrames - Dropped, Len(stream)})
    /\ UNCHANGED <<want, at, out>>
AskChd ==
    /\ at = "read" /\ image.kind = "chd" /\ (got >= want \/ Exhausted)
    /\ LET step == Step(got)
       IN IF step.more = 0 THEN Ended(step.answer)
          ELSE IF step.more > got /\ ~Exhausted THEN want' = step.more /\ UNCHANGED <<got, at, out>>
          ELSE Ended(None)

DiscNext ==
    /\ \/ Open
       \/ (ReadSome \/ Ask \/ AskSeekable \/ Seek \/ ReadHunk \/ AskChd) /\ UNCHANGED stream
    /\ UNCHANGED <<disc, image, job>>

(* The discs there are, and the images they are dumped to. *)
Masters ==
    LET Lines == {<<[key |-> "BOOT", plausible |-> TRUE]>>,
                  <<[key |-> "BOOT", plausible |-> FALSE], [key |-> "VER", plausible |-> TRUE], [key |-> "BOOT2", plausible |-> TRUE]>>}
        Made(boot, second, first, last, cnf, deep) ==
            <<boot, second, Pvd(3, 2), Dir(first), Dir(last)>>
               \o [i \in 1 .. deep |-> <<"file">>] \o <<Cnf(cnf)>>
        Listing(names, deep) == [i \in DOMAIN names |-> Entry(names[i], IF names[i] = "SYSTEM.CNF" THEN 5 + deep ELSE 6 + deep)]
        Listings == {<<<<"SYSTEM.CNF">>, << >>>>, <<<<"GAME">>, <<"GAME", "SYSTEM.CNF">>>>, <<<<"IPL.TXT">>, <<"SYSTEM.CNF">>>>,
                     <<<<"GAME">>, <<"SYSTEM.CNF", "IPL.TXT">>>>, <<<<"GAME">>, <<"IPL.TXT">>>>, <<<<"GAME">>, << >>>>}
    IN {Made(<<"file">>, <<"file">>, Listing(names[1], deep), Listing(names[2], deep), cnf, deep) :
            names \in Listings, cnf \in Lines, deep \in {0, 4}}
       \cup {Made(<<boot>>, <<second>>, Listing(<<"SYSTEM.CNF">>, 0), << >>, <<[key |-> "BOOT", plausible |-> TRUE]>>, 0) :
            boot \in Boots \cup {"gc", "wii", "file"}, second \in {"file", "pce"}}
       \cup {<<<<"file">>, <<"pce">>>>, <<<<"saturn">>>>, [i \in 1 .. 8 |-> <<"file">>]}
Faults == {"no hunk", "vast hunk", "video", "vast disc", "disc past any", "map past the end", "map too wide", "map of no tree",
           "cycle", "long", "vast entry", "vast geometry", "empty sectors"}
Harmless == {"largest hunk", "cut short", "vast note", "older", "sectors unasked"}
Images ==
    LET Dumped(kinds, geometries, befores, pregaps, pads) ==
        [kind : kinds, geometry : geometries, before : befores, pregap : pregaps, pad : pads, size : {None}, fault : {"none"}]
    IN Dumped({"file"}, {"cooked", "mode1", "mode2"}, {0}, {0}, {"none"})
       \cup [kind : {"file"}, geometry : {"cooked", "mode1"}, before : {0}, pregap : {0}, pad : {"none"}, size : {<<HEAD>>, <<USER_DATA + 1>>}, fault : {"none"}]
       \cup Dumped({"cue"}, {"mode1"}, {0, 3}, {0, 1}, {"file each", "one file"})
       \cup Dumped({"chd"}, {"cooked", "mode1", "mode2"}, {0, 3}, {0, 1}, {"rounded", "stated"})
       \cup [kind : {"chd"}, geometry : {"mode1"}, before : {3}, pregap : {0}, pad : {"rounded"}, size : {None}, fault : Faults \cup Harmless]

DiscInit ==
    /\ disc \in Masters
    /\ image \in Images
    /\ image.size # None => image.size[1] < Len(disc) * Width
    /\ disc[1][1] \in {"gc", "wii"} => image.kind = "file" /\ image.geometry = "cooked"
    /\ job \in IF image.kind = "chd" THEN {"identify", "data"} ELSE {"identify", "seekable", "data"}
    /\ got = 0 /\ stream = << >>
    /\ want = CASE job = "seekable" -> MAX_PREFIX
                [] job = "data" -> (IF image.kind = "chd" THEN Wanted * RAW ELSE RAW)
                [] OTHER -> STEP
    /\ at = "open" /\ out = None
DiscSpec == DiscInit /\ [][DiscNext]_discVars

-----------------------------------------------------------------------------
(* What is on the disc, whole, whatever it was dumped to. *)
Listed(name) ==
    LET dirs == {lba \in 0 .. Len(disc) - 1 : disc[lba + 1][1] = "dir"}
        records == UNION {{disc[lba + 1][2][i] : i \in DOMAIN disc[lba + 1][2]} : lba \in dirs}
    IN {record \in records : record.name = name}
IsIso == Len(disc) > PVD_SECTOR /\ disc[PVD_SECTOR + 1][1] = "pvd"
Mastered ==
    CASE disc[1][1] \in Boots \cup {"gc", "wii"} -> <<disc[1][1]>>
      [] disc[1][1] = "file" /\ Len(disc) > 1 /\ disc[2][1] = "pce" -> <<"pcenginecd">>
      [] OTHER ->
           IF ~IsIso THEN None
           ELSE IF Listed("IPL.TXT") # {} THEN <<"neogeocd">>
           ELSE IF Listed("SYSTEM.CNF") = {} THEN None
           ELSE parse_system_cnf(disc[(CHOOSE e \in Listed("SYSTEM.CNF") : TRUE).lba + 1])
(* How far in what settles it is, in this image. *)
FarthestSector ==
    CASE Mastered = None \/ Mastered[1] \in Boots \cup {"gc", "wii"} -> 0
      [] Mastered = <<"pcenginecd">> -> 1
      [] Mastered = <<"neogeocd">> -> 4
      [] OTHER -> IF job = "seekable" THEN 4 ELSE Max({4, (CHOOSE e \in Listed("SYSTEM.CNF") : TRUE).lba})
Within(units, lba) == End(image.geometry, lba) <= units
IplIsLater ==
    IsIso /\ \E i, j \in DOMAIN disc : /\ i < j /\ disc[i][1] = "dir" /\ disc[j][1] = "dir"
                                       /\ Listed("SYSTEM.CNF") \cap Range(disc[i][2]) # {}
                                       /\ Listed("IPL.TXT") \cap Range(disc[j][2]) # {}

DiscTypeOK ==
    /\ job \in {"identify", "seekable", "data"} /\ at \in {"open", "read", "seek", "done"}
    /\ got \in 0 .. Units /\ want \in Nat
    /\ out = None <=> at # "done"

(* A disc is what it is: dumped cooked or raw, to a file, a track of a sheet or *)
(* a CHD, behind music or a pregap, and read in whatever pieces, its system is  *)
(* the one mastered on it wherever what says so is near enough to be read, and  *)
(* never another. A CHD is refused for what is wrong with it and nothing else.  *)
(* (A disc with IPL.TXT in a later sector than SYSTEM.CNF is whichever is read  *)
(* first.)                                                                      *)
SameDisc ==
    at = "done" /\ job # "data" /\ ~IplIsLater =>
        CASE image.fault \in Faults -> out = <<<<"refused">>>>
          [] image.fault \notin Faults /\ image.size = None /\ Within(MAX_PREFIX, FarthestSector) -> out = <<Mastered>>
          [] OTHER -> out \in {<<Mastered>>, <<None>>}

(* The sectors a caller is given are the data track's own, from its first, and  *)
(* all it asked for or none. What a sheet says the track takes is what it does. *)
SameSectors ==
    /\ at = "done" /\ job = "data" /\ image.fault \notin Faults /\ Len(disc) >= Wanted =>
         out \in {<<SubSeq(disc, 1, Wanted)>>}
                   \cup (IF image.size = None /\ Within(MAX_PREFIX, Wanted - 1) THEN {} ELSE {<<None>>})
    /\ image.kind = "cue" /\ image.pad = "one file" => first_data_track(Sheet).length = <<Len(disc) * RAW>>

(* Of a step: each time of asking asks for more than is held and was before, so *)
(* every identification ends. What is asked for goes past what may be read once *)
(* at most and by less than a step, when a file read forward has stopped just   *)
(* short of it and asks for a whole step more; a CHD never does.                *)
AsksForMore ==
    at = "read" /\ want' # want =>
        /\ want' > got /\ want' > want
        /\ want' > MAX_PREFIX => want < MAX_PREFIX /\ want' = want + STEP /\ image.kind # "chd"
=============================================================================
