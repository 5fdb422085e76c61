# one-saves, specified

TLA+ modules, TLC runs and TLAPS proofs for the Rust workspace in `src/`: a portable save-bundle
format (`.1saves`), readers and writers for seven consoles' memory cards, converters between what
emulators keep, a command line, and a full-screen editor that writes cards in place. Nothing in the
workspace is a server or a scheduler. What is hard in it is of four kinds:

* **filesystems a console left behind.** A card was written by a console that fragments, is
  switched off part-way, wraps its counters and wears out; a reader follows its links and a builder
  packs it anew;
* **a chain of conversions.** A save is played, read into a bundle, edited by this version or a
  later one, nested, compressed, written for another emulator, over files that hold somebody else's
  saves, and played again - and what comes back has to be what went in;
* **a long session of legal keys** over two cards, where an index, a cursor, a focus or a cached
  image may outlive what it was taken from;
* **files made and replaced**, by several processes, with kills, failed calls and power cuts between
  any two steps.

## The system

| Component | State | Operations | Talks to |
| --- | --- | --- | --- |
| card crates (`ps1-memcard`, `gc-memcard`, `ps2-memcard`, `n64-cpak`, `dreamcast-vmu`, `neogeo-memcard`, `saturn-backup`) | a parsed card: saves and a header area; a builder: saves in order | `parse` (scan, `follow_chain`), `build` (pack from the front) | adapters |
| adapters (`one-saves-convert/src/card/*`) | a `Bundle`: one part a save, console folders, or the card's image | `read`, `write`, `write_onto`, `blank` | crates, bundle |
| bundle (`one-saves`) | header, parts, extensions, unknown keys | `from_slice`, `validate`, `normalized`, `content_hash`, `to_vec` | everything |
| editor session (`one-saves-tui/src/app.rs`, `model.rs`) | cards, `dirty`, `new`, focus, selections, a pending question | a key at a time | adapters |
| file replacement (`one-saves-tui/src/model.rs`) | the card's directory | `create`, sync, rename, remove | the file system, other processes |
| clocks (`rtc.rs`), N64 files (`n64.rs`), save states (`state/*`) | none: files in, bundle out, and back | `split`, `parse_*`, `build_*`; `read_srm`, `merge`; `read`, `write` | bundle, command line |
| detection and archives (`detect.rs`, `archive.rs`) | how much of an archive was taken | `detect`, `unpack` | command line |
| catalogs, profiles, registry (`dat.rs`, `profile.rs`, `one-saves-registry`) | tables | `lookup_any`, `profile`, `Format::from_name` | command line |
| identification (`disc-id`, `rom-id`) | a growing prefix of a file, or windows read of it | `identify*` | command line |
| command line (`one-saves-cli`) | the directory it writes into | `convert`, `extract`, `new`, `inspect`, `verify` | converters, files, other runs |

What makes each correct:

* *card crates*: a read ends whatever the links say; what reads back is what was written, each save
  whole and in order; a card the builder made is one the reader accepts; what a console goes by
  (sizes, ends of chains, redundant copies) agrees with the chain; a card a console was switched
  off on reads as it was before or after.
* *adapters*: nothing a save does not carry - header block, order, console folders - is lost by
  reading and writing; a save that does not fit or cannot be written is refused with the card left
  as it was.
* *bundle*: what is read is written back byte for byte, a later version's keys and a producer's
  values included; what is written is read; what it is known by changes only with what it says;
  what is nested stands alone; `verify` passes exactly what is whole.
* *converters*: a clock goes on from where it was through any chain of cores; a chip's memory is
  what the game saved; other games' notes, other ports' paks and a pak's own ID block are left.
* *intake and identification*: a file is known for what made it, a disc or ROM is the same however
  it was dumped and however little of it is read.
* *session*: the operation is done to the save on the screen; a clean card is its file; nothing is
  written or abandoned without a Yes; what was accepted can be written.
* *files*: a name leads to a whole file or to what was there, a process installs and removes only
  what it made, and every run ends.

## The modules

    CardContents          what a card of any kind promises: a list of saves, edited whole
      ^ implemented by
    Chains -> Ps1Card -> MCPs1Card
    Chains -> N64Pak, VmuCard, NeoGeoCard, SaturnVolume, Ps2Card
                -> OtherCards -> MCOtherCards --+
    Chains -> GcCard ---------------------------+-> MCCards
    N64Saves -----------------------------------+

    Chains -> ChainProofs -> LinkedProofs -> OtherCardsProofs (of OtherCards)
                          -> GcCardProofs (of GcCard)
                          -> CardSessionProofs (of CardSession)
                          -> Ps1CardProofs (of Ps1Card)

    CardFile -> MCCardFile, CardFileProofs

    Chains -> CardSession -> MCCardSession --+
    CommandLine -----------------------------+-> MCCommand
    CommandLine -> CommandLineProofs

    BundleFormat -> Bundle -> MCBundle ------+
    Clocks, StateFiles ----------------------+-> MCFormats
    ExtensionTypes -> ChipClocks ------------+
                   -> ExtensionKeys ---------+
    Formats -> Intake, Catalog, Blanks --+   |
    DiscId, RomId, MisterSave, SaturnFile +-> MCSources

### Cards

**Ps1Card** (`crates/ps1-memcard`, `card/ps1.rs`, `Card::save`). `disk` is the card's file;
`card`, `slot`, `chain` and `found` are the locals of `read_directory` and `follow_chain`, one action
for each turn of their loops (`ScanSlot`, `FollowLink`, `EndChain`, `RefuseChain`); `image`,
`nextBlock`, `saved` and `index` are those of `CardBuilder::build` (`PlaceBlock`, `RefuseSave`,
`FinishBuild`). `held`, `kept` and `heldArea` are the bundle between them: parts, a card-image part
where there are no saves, and `system_area`. `CheckBack` is the comparison `Card::save` makes before
anything is replaced. The console, which is external, saves into any free blocks in any order and
deletes by marking entries with their links left behind; `Decay` makes one field of an entry wrong.
Checksums, names' spelling, icons, and the containers `strip_container` unwraps are left out.

**GcCard** (`crates/gc-memcard`, `card/gc.rs`). The reader and the builder are pure functions of a
card and are operators (`parse`, `pick_mirror`, `follow_chain`, `build`, `card_size`), over the tables and
chains of `Chains`. What takes steps
is the console, external: it writes the older copy of the directory or of the allocation table -
erased, then written, with a counter one higher - and can be switched off between any two writes.
`Damaged` spoils the trusted copy of either region, one link or one entry.

**N64Pak, VmuCard, NeoGeoCard, SaturnVolume, Ps2Card** are each a format's `parse` and `build`, as
operators over a card that is a record of its structures: an index kept twice and a note table; a
table and entries that state a length and a kind; a table and entries that state neither; tagged
blocks whose content is a stream holding its own list of blocks; and clusters holding units, each
a directory entry or data. `Chains` has what they share, and
what the code does to a vector of anything: a filter, a running count, lists end to end; each is a
function of how much of the list has been gone through, as the loops are, so that it can be proved
about. Each module also says what its console,
external, may make of a card (`Saved`, `Deleted`) and what one piece of damage is (`Damaged`). In
paks, VMUs and Neo Geo cards a save's data is whole blocks; in Saturn volumes and on PlayStation 2
cards its length is counted in units smaller than a block, since what is hard there is where in a
block something ends.

**OtherCards** puts the five under one editor: `format` chooses the functions as `card::read` and
`card::write` do, a console saves and deletes between sittings, and the tool opens, edits, rebuilds,
reads back and replaces. `reads` is no state of the code: it is what `read` makes of `disk`, kept so
that it is worked out once a step. A console keeps no older copy in these formats, so each of its
operations is one step. `SavesOf` says what a save of a format is where the proofs go by it
(`GamesAssumption`): what a block holds and a name are numbers, and a Neo Geo name is not 0, which in
a directory is no entry. **MCCards** runs GameCube cards beside them, and beside the
cards the files of `N64Saves`.

**CardContents** is the abstract specification of all seven formats: `contents` is a list of saves,
`area` the rest. A console adds or removes one; a tool takes the list, edits it, and puts it back
whole or is refused with the card unchanged. `Ps1Card`, `OtherCards` and `MCCards` give
the refinement mappings. For a damaged card `Damage` lets the contents become anything, including
something that does not read (`Unreadable`); what is read of it is then kept like any other.

### The editor

**CardSession** (`app.rs`, `model.rs`). One action a key: browsing (`Step`, `Switch`, `Copy`,
`AskDelete`, `AskFormat`, `AskWrite`, `AskQuit`) and answering (`PointAt`, `Dismiss`, `Confirm...`).
A card is a list of directories and `Read`/`Rebuilt` are what `card/ps2.rs` makes of it, since that
adapter alone has console folders beside saves: a folder is a part and each of its files another, a
file goes with the last folder of its name before it, and a save of no files is passed over. `Blocks`
and `Room` keep apart what the editor takes a card to hold from what its writer can place, which no
two formats count alike: a Controller Pak reports 128 pages and has 123 for notes, and a PS2 card's
directories take clusters the editor does not count. `Overhead` and `Encoding` are what a directory
takes on a card and what a save takes more in a bundle. So a card stays within what it reports
(`WithinCapacity`), and it is not so that what was taken can be written (`NeverFull`, in
`session_full`). A card that is clean is its file up to the
order of folders among saves, which a write may change: `CleanIsOnDisk` is of the saves in order and
of each folder's files.

**CardFile** (`Card::save` and `create`). `dir` and `data` are what programs see, `settled` and
`durable` what has reached the disk; `Flush` and `WriteBack` may move either at any time, and
`PowerLoss` leaves only the latter. A writer's `pc` is the system call it is at, each may fail,
and `Stop` kills it anywhere. Other programs may put a file at either name (`Plant`), and the person
at the keyboard may move what is in the way of a write aside, as the error tells them to (`MoveAside`):
the error says nothing of whether the file's writer is alive, and neither does the action.
`disturbed` is a history variable, that what was moved aside was part of a write under way. The
properties are conditioned on it, since from there on the code promises nothing: with the name
cleared, a third may make a file there, and the first then renames that one over the card, half of it
there or not (`Rename` takes `dir["temporary"]`, whatever it leads to).
The directory itself is never synced, so `settled` may lag behind a write that succeeded: after a
power cut the name may still lead to the card as it was, or for a card started here to nothing, or to
half of a file an earlier attempt left there.

### The bundle and what emulators keep

**BundleFormat** (`crates/one-saves`). Bytes are what they say: opaque data, a compressed something,
or the one encoding of a bundle. A map on the wire has integer keys and text keys; `Decoded` splits
it into the fields of this version, the integer keys of a later one, and producers' values;
`Encoded` puts it together. `validate` is every structural rule of `validate.rs`, one operator a
rule under the name it has there, down to how a pak spells a note's name and which languages are
canonical; `Accepts` is `from_slice`; `normalized`, `content_hash` and
`check_digests` follow `identity.rs` and the command line's `verify`.

**Bundle** is one `.1saves` file and the programs that handle it. `file` is its bytes, `mem` the bundle
read from it, `was` the bytes that was read from, `edited` whether it is still those. Each action is
an operation: `Read`, a producer's value read as a type (`Get`), `Clone`, `Describe`, `Compress`,
`Normalize`, `to_vec`, `Extract`, `Wrap` (a flat save), `Nest` (a card or device around it).

**Clocks** (`rtc.rs`, `wrap` and `unwrap`). `count` is what the cartridge's clock reads, `file` and
`rtc` the save and its sidecar as `core` keeps them, `bundle` what was read. A core plays and writes
(`Play`), `convert` reads, `extract` writes for another core or the same, and `now` goes on. An
MBC3, a HuC-3 and a Seiko S-3511A, in footers of two widths of instant, in packed words, and in
Gambatte's and mincer's sidecars.

**ExtensionTypes** is the CBOR extension keys are written as, a value its kind and what it holds, with the
helpers of `extension.rs` and `extension/rtc.rs` that read one or refuse it; and each type this crate
has for a key (`extension/*.rs`), what it is written as and what is read as it, but the clocks', which
are **ChipClocks**. That (`extension/rtc/*.rs`,
`time.rs`) is a cartridge's clock and the key it is carried under. `shown` is what the hardware shows and
counts on (`Tick`, external: each of the eight chips' own digits, styles of hours, carries and wraps,
and no century that is not a leap year); `holds` its registers; `wire` the key once they are taken
(`Take`, of what each producer's file keeps of them), perhaps altered by another program (`Amend`);
`read` what reading it gave. A producer makes its file of that and the clock goes on (`Load`). An
instant is a day and a second of it.

**ExtensionKeys** (`extension.rs`) is the map of them: `entries[key]` is typed, or raw
with the reading it was first given beside it, as in `Entry`; `put` is the CBOR put there, and `asked` and
`answer` the last question. A producer's own key has two types, so that it can be asked for the
wrong one first.

**N64Saves** (`n64.rs` of the converter and of the command line). Four kinds of chip whose memory is
a few words, in each emulator's word order; a libretro file with a region for each, files apart for
each, which Project64 writes no further than the game has; paks of notes in ports, and one on its own,
which is a card. Reading them into a bundle, cutting one game out, and merging onto
what is there.

**StateFiles** (`state/*`, the command line's `state.rs`). RetroArch's, mGBA's and DuckStation's
files, each a container of a core's data; what a file and its name say, and its being made again
from a bundle for its own emulator or another.

### What is given to the converter

**DiscId** (`disc-id`). A disc is what was mastered; an image of it is an ISO, a track of a cue sheet
in either width of sector, or a CHD, whose header and map are vetted (`vet`) against what is too
large, past the end or of no size. Each turn of a reader's loop is an action: a prefix that grows,
a seek, a hunk. **RomId** (`rom-id`): the windows that are read of a ROM, against the headers found in the
whole. **MisterSave**: the three files of a Neo Geo, cut out of a cabinet's or put into one where their
lengths are right. **SaturnFile**: a volume packed,
stretched, or in gzip, and the clock of the console beside it. **Formats** (`detect.rs`): every name
and extension of each format, and its test; a file is a length, an extension and the marks its bytes
bear. **Intake** (`archive.rs`, `Card::open`): the order of the tests, over files with other formats'
marks in them by accident and of other formats' lengths; an archive a member at a time (`Look`). **Catalog** (`main.rs`,
`profile.rs`, `dat.rs`): who wrote a save, which system it is for and which game it is, from every way
of naming them; the rows of the registry's generated tables are constants, in the order of their
slugs. **Blanks** (`card/blank.rs`, `new`, the editor's create and format): cards made from nothing,
of each size and layout that can be named, opened again, formatted, and made beside one another.

### The command line

**CommandLine** (`write_out`, `create_new`, `read_beside`, and what calls them). Several runs at once,
`pc[r]` the system call each is at; `dir` the directory, `whole` the files with all their bytes,
`beside` what is under the name beside an input and `handle[r]` what `r` opened there. Any write or
rename may fail (`WriteFails`, `RenameFails`), a run may be killed anywhere (`Kill`), and somebody
else may put another thing beside the input (`Swap`) or add to the file that is open (`Grow`).

**MCFormats** (with **MCSources**, which it extends) and **MCCommand** each check several modules that
share nothing, in one run: `area` is chosen in the initial state and says which is at work. The modules
of MCFormats are given the same variables, `s1` to `s8`, by its INSTANCEs, and those one does not use
stay as they are; MCCommand's two programs keep their own. Their properties are those modules' own, by
area; nothing is composed in them.

## What the runs check

| Run | Bounds | Shows |
| --- | --- | --- |
| `ps1` | 3 blocks, saves of 1, 3 and 0 blocks, at most 2 added, 1 damaged field | `ReadsBackTheSame`: the saves found on a rebuilt card are the saves held. `RebuiltIsSound`: it is never called corrupt. `SizesAgree`: its size fields and states are what a console needs. `ChainIsSimple`, `Settles`: damaged links cannot make a read go round. `KeepsItsPromise`: it implements `CardContents`. |
| `cards` | 3 blocks (Saturn 4, PlayStation 2 5 clusters, GameCube 2), 2 entries, at most 2 saves held, 1 damage, counters modulo 4; N64 chips of a few words, 2 games, 2 ports | `EveryCardKeepsItsPromise`: all six implement `CardContents`, a GameCube with every switch-off point and counter wrap. `EveryCardIsWritable`: what a console wrote, however scattered, reads, and is rebuilt as the same; so is a damaged GameCube card that reads. `SharedBlocksAreCounted`: a damaged Saturn volume that reads can be rewritten. `GamesRunInPlace`: the one mini-game of a VMU the tool writes is in one piece from block 0, and no save or delete beside it moves it. `CopiesStandIn`: one impossible link in either index of a pak changes nothing, and a GameCube switched off anywhere leaves a copy of each region to trust. Of N64 files, `MemoryIsKept`: what is read as a cartridge's memory is the memory the game finds. `PaksAreKept`: what was not the bundle's is as it was. |
| `cards_names` | a Saturn volume, no damage | `UndamagedIsWritable` **fails**: a name that is not text cannot be written back. |
| `session_acts` | 2 cards, one from an archive, up to 3 directories, of saves and of the console's own, to start with; 5 blocks reported, 3 that can be used | `ActsOnTheSelected` **fails**: a place in the list of saves is used as a place among the parts. |
| `session_full` | the same | `NeverFull` **fails**: a copy fits the blocks a card reports, is taken, and the write of it is refused. |
| `cardfile` | 2 writers, 4 files, the card there or not | `CardStands`: the name of a card that was there leads to a card always. `InstallsItsOwn`: what a writer renames over it is what that writer wrote. `FilesAreKept`: nobody else's file is written over; what a write that succeeded leaves at the name has its bytes on the disk (the name itself may not be there yet); and once the name is on the disk too, the card stays whole through anything. All but for a write whose file was moved aside while it was under way. |
| `cardfile_race` | the same | `RemovesItsOwn` **fails**: a card started at its own name has not been synced when another of the tool saves over it; the sync fails, and what is removed at the name is the other's. |
| `command` | 3 runs, 2 outputs, a hidden file left over; or a sitting as in `session_acts` | Of the command line, `OutputsAreSound`: of runs without `--force` one at most has a name, and half a file is seen only where a run is at it or was killed. `FoundIsKept`: what was there is replaced in one step by all of what was asked. `BesideIsAFile`: what is swapped beside an input is never carried off. `RunsEnd`. Of the editor, `SelectionIsListed`, `CleanIsOnDisk`. `WithinCapacity`: no card comes to hold more than it reports. `KeysDoWhatTheySay`: where the console has no folder on the card, a delete or a copy is of the save at the cursor; the focus goes where the change is, and nothing is written or left behind without a Yes. |
| `formats` | bundles four deep with one thing wrong; a day of 3 seconds, 2 days to a carry; 4 items to a state; eight chips about midnights and noons where something carries; 2 keys of 8; discs of a few sectors of 4 units, hunks of 2 frames; real sizes for ROMs, volumes, cards and archives' members; 3 members an archive | `ReadIsWritten`, `WritesWhatReads`, `EditsKeepTheRest` of bundles; `ClocksKeepTime`; `StatesReload`. In the first three too: a clock's registers stand for the moment the chip showed, and a key is read only as what it writes, and is written as it was put whatever was asked of it. Of what is given to the converter: `SameDiscHoweverDumped`, `HeadersAreFound`, `CardFilesComeBack`, `ArrivesAsWhatItIs`, `SaysWhoWroteIt`. `StepsGoOn`: each asking for more of a disc asks for more, past what may be read once at most and by less than a step; and a Saturn's clock goes forward as the calendar does. |
| `origin` | as `formats` | `OriginIsExact` **fails**: a Gambatte origin further back than the day counter goes is not the one written again. |
| `bundle_refused` | as `formats` | `WrittenReads` **fails**: `--role primary` makes a file no reader takes. |
| `from_format` | as `formats` | `FromAFormat` **fails**: `--from psx` names a format and says who wrote the save. |

The properties of `formats`, and the two of `cards` about N64 files, are conjunctions of what the modules under it state, with a comment
there on each. Every property has a mutant in `PROJECT.json`: an operator in the same
module, named for what it does wrong, that is the mapped definition with a plausible bug in it, and
that TLC finds the property violated by.

*Why these bounds.* Three PlayStation blocks are enough for a chain with a first, a middle and a
last block in all six orders, for two saves whose blocks interleave, for a cycle, and for a card
that is exactly full or one over. Two GameCube blocks hold a save of two blocks in either order;
what matters there is the counters, which at modulo 4 wrap within four writes, the smallest modulus
for which serial comparison tells ahead from behind. In `cards`, three blocks hold a save of two in
any order beside one of one; four Saturn blocks of four units hold a save whose list spills into
its second block, whose data reads as the head of a save where damage tags it as one, and whose
blocks are then counted twice; five clusters of three units hold the root, a save's directory, its
file, and what is left over for a second. Damage comes once, and a console is not given a damaged
card. Two writers are enough for every hazard of `CardFile`, whose proofs cover any number; four files
are what the two names and two open writers can hold at once. Three runs are two that race for a name and
one that replaces it, or two outputs of one with another at each. Sessions are bounded by the parts of
a card that is copied onto (`MaxParts`). A bundle is found in every shape with one field, key or part
changed, and with another inside it; four is one more nesting than digests are checked to. A clock's
radices are as small as leave a word that no core would write, and time runs past each chip's span.
The chips start
where a carry goes furthest: at noons and midnights after 28 February of each kind of year, 30 April and
31 December, at the last day each counts to and where its low digits wrap; and a key is altered in
one item, which is how a reader can be one item wrong. A key's values are within each limit of its schema and
one past it; two keys are as many as a copy or a reload of the whole map can confuse, since nothing
else looks at more than one. The most a disc is read forward is a whole number of steps, as
it is in the code, and the lookups of some discs come short of it by less than a step.
Two games and two ports are a note that is kept and one that is replaced, in a pak and beside it.

*Deadlock* is not checked in the card, command and format runs, nor in the two of a session: a session, a
run or a job ends, and a damaged card that does not read has no next step. It is checked for `CardFile`, and
where a card is not damaged (`cards_names`).

*Fairness.* `Ps1Card` states `WF_vars(Loops)`, where `Loops` is a turn of the reader's or the builder's
loop. These are plain loops in one thread: once started nothing but their end stops them. `Settles`
needs no more; the person at the keyboard is under no obligation. `CommandLine` states
`WF(Works(r))` of each run: a run is one thread that is always at some system call, and no call it
makes waits for anybody - which is what opening with `O_NONBLOCK` is for, and `RunsEnd` fails without
it. Kills, failures and what others do to the directory are not fair to anybody.

## What is proved

`CardFileProofs` proves, for any set of writers and files, `TypeCorrect`, `ACardStands` and
`EachInstallsItsOwn`. Neither safety property is inductive. The invariant `IInv` adds who owns what:
each writer part-way holds a file no other does (`Owns`), with its own bytes in it once written and
on the disk once synced; one that replaces a card has that file at the temporary's name and it is
not yet the card's in either view of the directory (`Replaces`); and where the card was there, no
writer believes it is new (`Standing`). `NoFileIsLost`, which states `FilesAreKept`, needs more, since
a rename goes over whatever is there: `KInv` adds that a writer part-way has nobody else's file where
it writes, and that of writers that found no card one at most is part-way (`Clear`). All of it holds
until a file that is being written is moved aside (`disturbed`), and `ACardStands` keeps the first half of what
it says after that too: the name of a card that was there leads to some file. They rest on
`FilesAssumption` and `ContentsAssumption`: what one writer wrote, the card as it was, half a file and
anybody else's file are told apart.

`Ps1CardProofs` proves, for a card of any number of slots below 65535, any saves and any damage,
`TypeCorrect`, `ChainsAreSimple`, `RebuiltReads` and `RebuiltIsTheSame`. `IInv` says where the builder
and the reader of its card stand in the list of placed blocks: block `b` holds what was due there
(`PackedSoFar`), the builder's counters name what is due next (`Building`), and a read-back that has come
to slot `b` has found exactly the saves whose first block it passed and is following the chain of
one in order (`ReadingBack`, `Following`). It rests on `SlotsAssumption`, `FormattedAssumption`,
`BoundsAssumption` and `GamesAssumption`.

It also proves `SizesFollowChains`, that `SizesAgree` holds of every card built, from the same
assumptions. A size is about a whole chain and `PackedSoFar` is about one link of it; so `SInv` adds `Laid` to `IInv`: each block placed is in a run
of its own save's blocks that starts with the first and, once the save is finished, ends with the
last. `PlacingLays` shows that one block more keeps every run and finishes the one it is due to.

And it proves the refinement, `CardKeepsItsPromise` (`KeepsItsPromise`): every step of `Ps1Card` is a step of
`CardContents` or none, for a card of any number of slots, any console's allocation and any damage. What a
card contains is a selection of its first entries and a way along the links from each (`Ways`), of which
there is at most one (`OneWay`). `RInv` adds four things to `IInv`, one for each thing an abstract step
asks of a concrete one. `Seen`: what has been read is what the card contains up to this slot, and the
chain being followed is the start of a way - so what is opened is what the card holds, and a card is
called corrupt only where a way is missing. `Count`: the builder's next block is one past all the blocks
of the saves it has finished, none of them empty - so a save is refused only when the saves do not fit,
and what was built does. `Same`: the card being read, the bundle's image and its area are those of the
file - so what is written back has the area it came with. `Whole`: while nothing is damaged every save
comes to an end, an entry in use leads to a continuation, and no two lead to the same (`Tidy`). That is
what makes a console's save or delete (`SavedMore`, `DeletedFewer`), at whatever free blocks it likes, one
save more or fewer and the others as they were: a way that reached a block given out would have had to
lead there, and nothing in use did. The tool's own cards must be tidy too for the next console (`BuiltLed`).
It rests on `UnreadableAssumption` besides.

`ChainProofs` begins with what the other proofs know of lists. The library's induction takes the property as an
operator, which no prover here instantiates; but `<` on the naturals is well-founded as a set of pairs
(`NatLessThanWellFounded`, `WFMin`), so a property that is a *set* can be proved by induction:
`NatInduct`, `SeqInduct`, and `Recursion`, that a function defined by the value before has the values it
says. From them come what `Those`, `Total`, `Joined` and `InOrder` compute for every list. The set has to be
named and the conclusions of a lemma kept behind a name, or the solvers do not find the step.

`CardSessionProofs` proves all four properties `command` has of a sitting, for any cards: `SelectionStays`
(`SelectionIsListed`), `KeysAct` (`KeysDoWhatTheySay`), `CardsStayWithinCapacity` (`WithinCapacity`) and
`CleanCardIsOnDisk` (`CleanIsOnDisk`). What `KeysAct` says of the save under the cursor it says of a card with nothing
of the console's own on it; with a folder there it is not so, which is what `session_acts` shows. `IInv` is types, that a card's image is the only part of its card and what that card
read as (`Alone`), the cursors, and that a question is about what is still so when it is answered
(`Asked`): the name shown is the selected save's, and a write is asked for only of a dirty card. `NInv` adds
that a card holds no more than it reports; its theorem has the hypothesis `StartWithinCapacity`, that it did
when it was opened, and asks nothing of how the editor's count and the writer's compare. `CInv` says of a clean card that its file
reads as the card (`Same`), and its step is that `Read` of what `Laid` makes of any parts has the same
saves in the same order and the same files in each folder, by induction over the parts. They rest on
`CardsAssumption`, `SizesAssumption` and `DisksAssumption`.

The rest of `ChainProofs` is about tables: what a chain of a table is, for every table and start (`RunIsChain`,
`ChainRuns`: it is followed as far as its end, if it has one, and holds no block twice); that blocks given
to one save and blocks freed of another leave every other chain as it was (`LaidGiven`, `LaidFreed`,
`GivenContent`); that saves packed from the front have a chain each, apart, with their own blocks in
order (`LaidPacked`, `PackedContent`); and that the entries in use, listed in order, are one more or one
fewer after a save or a delete (`ListingMore`), and all of what was built (`ListedAnew`).

`OtherCardsProofs` has from these, by way of what `LinkedProofs` says of each format's reader and writer,
for Controller Paks, VMUs and Neo Geo cards (`Linked`) of any size and limit, and any saves: `LinkedKeepsItsPromise`, that `OtherCards` implements `CardContents`; `LinkedIsWritable`,
that a card nobody damaged reads, fits and is the same when written anew; `BackupAlwaysStandsIn`, that
either index of a pak stands in for one bad link of the other; `GamesStayInPlace` (`GamesRunInPlace`); and
`LinkedTypes`. For each format there is what a card *typed* is (any damage), and one *whole*: every entry
starts a chain, no two chains meet. `LinkedInv` is that the card is typed, is whole while it is not
damaged, and reads as `reads` says; that what the tool holds can come back; and that an image is in the
bundle only while no save is, and is the card's. A console's save and delete keep a card whole
(`N64SaveWhole` and the like); the tool's write makes one (`N64BuildIs`). Reading is what turns a table
into a list, so the refinement mapping is itself a selection and a walk, and every step of it is one of
the lemmas above.

Of Saturn volumes it proves `SharedAreCounted` (`SharedBlocksAreCounted`) and `VolumeTypes`, for any size and
any damage: whatever saves a volume reads as, blocks listed by several of them counted each time, fit
a volume when they are written anew, but for one of no bytes or with a name that is not text. Two
facts meet there. The walk refuses a volume whose saves together list more blocks than it has
(`Walk`), each counted for every save that lists it; and a save that reads lists
at least the blocks its own length needs (`blocks_for`), since its bytes come out of the stream after
the list, which takes room in the blocks it lists. `VolumeInv` is that the volume is typed, reads as `reads`
says, and that what is held are saves of it. The builder places a save after the others as a function
of how many are placed (`Placed`), which is what an induction over them needs.

Two of these have a hypothesis on the Controller Pak, `NotesHavePages` (`Sure`): every note a game saves or
an edit adds has a page. A note of none is given the page the next note starts at: with one after it, it
reads back as that note's data and the card is written so, since `Card::save` compares how many saves
there are; as the last, it leads to a free page and the write is refused. An attempt without the
hypothesis fails there. On the run every note has a page. `BackupAlwaysStandsIn` needs no such hypothesis, since the two indices are the same
whatever they say. They rest on `FormatsAssumption`, `SizesAssumption`, `BoundsAssumption`, `GamesAssumption`
and `UnreadableAssumption`, that what stands for a card that does not read is no list of saves.

`GcCardProofs` proves, for any card, any saves and any even number of counters from 4, that
`pick_mirror` is right whenever a console may be switched off: `CopiesStand`, one copy of each region
can be trusted (the `ACopyStands` of `CopiesStandIn`), and `CopiesMoveOn`, what is trusted changes only
as the console finishes a copy, and to that copy. Neither is inductive, since counters modulo
anything say which copy is newer only while they are one apart. `GInv` adds that what is still to be
written is one ahead of the copy trusted (`IsNext`), that nobody else is at the card meanwhile, and
that an image kept in the bundle is the card in the file. `Ahead` is the arithmetic of the wrap.
`CountersWrap`, what is said of `COUNTERS`, is a hypothesis of both.

It also proves that a GameCube card implements `CardContents` (`GameCubeKeepsItsPromise`), the GameCube's part of
`EveryCardKeepsItsPromise`; `ReadIsWritable` (`ReadableIsWritable`), its part of `EveryCardIsWritable`, damaged cards
included; and `CardTypes`. A save takes two writes of a region, each of two steps, and what the card
contains is to change at one of the four and no other. So `CardInv` adds to `GInv` that on a card nobody
damaged the directory and the table trusted fit each other (`CardStands`: every entry starts a chain of the
length it claims, no two chains meet, and all of them together are within the card), and that so do the two
that each write still to come would leave, and the two after that, their saves being those of now, one
more or one fewer (`Leads`). A console allocates before it names and takes a name off before it gives up the
blocks, so switching it off at any of these points leaves maps that fit, with blocks nobody has at worst
(`SaveStarts`, `DeleteStarts`). Nothing is left of that once a card is damaged, and `ReadFits` takes over:
whatever reads has claims that come to no more than the card, so it fits when it is written anew,
and `BuildIs` says that what is built of saves that fit reads as those saves and stands. The three rest on
`CardIsPossible`, of which `CountersWrap` is part: the card is of a size there is, a save is a name and
blocks, an erased entry is none that a directory can list, and `Unreadable` is no list of saves.
`MCCards` has it evaluated for the card it runs (`GcAssumption`).

`CommandLineProofs` proves, for any number of runs, any outputs and any command lines,
`CommandTypeCorrect`, `OutputsStaySound`, `OnlyFilesAreRead` and `WhatIsFoundIsKept`. A run's temporary has
the run's own number in its name; the invariant turns that into what it needs. A run that writes has
its file where it made it, one that renames has all of it there (`Staged`); a file of a run's is at
the name it is for or the hidden one, and nowhere else (`NamesLeadToTheirs`); what is reported as
written is not written again by the same run (`WritesOnce`) and stays where it was reported
(`ClaimsStand`). It rests on `LinesAssumption`, `FilesAssumption` and `NamesAssumption`.

Only model-checked: `Settles`, `RunsEnd` and everything else under fairness; of Saturn volumes and
PlayStation 2 cards, whose lists and directories are themselves kept in blocks of the card so that what a
write does to them is known only by an induction over both, their part of
`EveryCardIsWritable` and `EveryCardKeepsItsPromise`; and `N64Saves` and the modules under `MCFormats`. Of those, `BundleFormat` and `Bundle` declare recursive operators, which the prover does not take.

## What the models say of the code

Seven of the runs end in a violation, and `PROJECT.json` quotes the line each contradicts: a delete
or a copy acts on another part where a PS2 card has a console folder before a save (`app.rs:407`,
`317`); a copy is taken that the write then refuses, where a card's capacity counts blocks no save can
have (`model.rs:304`); a failed write can remove another process's file (`model.rs:393`); a Saturn
volume with a name that is not text reads and cannot be written (`saturn-backup/src/build.rs:157`); a
Gambatte origin more than 511 days back is written again as a later one (`rtc.rs:943`); `--role primary`
writes a bundle nothing reads (`codec.rs:601`, `715`); and `--from` with a format that is also a MiSTer
core's old name says that core wrote the save (`main.rs:485`).

Five more places say otherwise than the code does. They have no run of their own; four of them are
exceptions a property names, and the second is outside what `OutputsAreSound` says:

* `model.rs:347` says a card is replaced by a finished copy; where the person did what `model.rs:380`
  says to what another of the tool was writing, that one renames over the card whatever is at the
  temporary's name by then (`disturbed` in `CardFile`).
* `main.rs:304` says a write that fails part-way takes the file it made with it; what is removed is
  what is at the name, which for a run with no `--force` may have been replaced by then.
* the command line's `n64.rs:192` says a name and a length settle SRAM; a `.sra` Project64 wrote for a
  96 KiB chip with no more than 32 KiB written is taken for the smaller chip (`FitsTheSmaller` in
  `N64Saves`).
* `detect.rs:263` asks whether a file is plausible as a GameCube card before `270` asks for a PS2
  card's magic, which tells for certain: a plain PS2 image of 8 or 16 MB is of a GameCube card's
  length, and one whose directory's sum is right by accident is taken for it (`PassesForGameCube` in
  `Intake`).
* `sector.rs:27` gives the most of a disc that is buffered; `disc-id/src/lib.rs:289` asks for a step more
  than it holds and so goes past that once, by less than a step (`AsksForMore` in `DiscId`).

Met on the way, and stated by no property because nothing in the repository promises otherwise: a
note of no data is built onto a Controller Pak at the page of the next one, and reads back as it
(`n64-cpak/src/build.rs:139`); a Neo Geo card of 4 or 6 KiB made in MiSTer's layout reads back as
one of 2 (`card/neogeo.rs:227`); a PS2 directory of no files is gone after a write (`card/ps2.rs:148`), as
the comment there says a bundle cannot hold one; two mini-games on
one VMU are both placed though one can run (`dreamcast-vmu/src/build.rs:54`); two tools that open one
card each write what they read, and the second wins (`model.rs:345`); the directory a card is written in
is not synced, so a power cut may bring back the card as it was before a write that succeeded
(`model.rs:345`); and a Gambatte origin read 512 days late has a carry the chip may not (`rtc.rs:946`).

## What is not modelled

The components table in `PROJECT.json` gives each part and its status, and what of it is left out.
Icons, labels and screenshots (pixels and text), console and terminal drawing, the generated tables
of the registry, character sets and slug alphabets, checksums, and compressors are data without
control. The layout of each console's ROM header and the codecs of CHD are taken as giving their
answer or none.

What would be next: that a Saturn volume implements `CardContents`, for which what is read of a volume
just written has to be the saves it was written of, block by block of each one's stream; a Transfer Pak's
cartridge in `N64Saves`; and PlayStation 2 pages with their ECC.
