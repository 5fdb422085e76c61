------------------------------ MODULE CardFile ------------------------------
(***************************************************************************)
(* How crates/one-saves-tui puts a rebuilt card where the old one was:     *)
(* the end of Card::save, and create().  Several of the tool may be        *)
(* writing the same card, any may be killed between two steps, a write or  *)
(* a sync or a rename may fail, and the power may go.                      *)
(*                                                                         *)
(* The file system (external) keeps two views, what programs see and what  *)
(* has reached the disk.  A name is the card's or the temporary's.         *)
(***************************************************************************)
EXTENDS Integers

CONSTANTS
    Writers,   \* the processes; what w writes is called w
    Files,     \* inodes
    NoFile,    \* a name with nothing at it
    Original,  \* the card as it was
    Torn,      \* a file not all of a card was written to
    Foreign    \* a file that is none of these

ASSUME FilesAssumption == NoFile \notin Files /\ Files # {}
ASSUME ContentsAssumption ==
    Torn \notin Writers \cup {Original, Foreign} /\ Foreign \notin Writers

Names == {"card", "temporary"}
Contents == Writers \cup {Original, Torn, Foreign}

VARIABLES
    existing,  \* whether the card was there to begin with
    dir,       \* dir[n]: the file name n leads to
    settled,   \* ... on the disk
    data,      \* data[f]: what is in file f
    durable,   \* ... on the disk
    pc,        \* where each writer is in Card::save
    new,       \* new[w]: Card::new
    file,      \* file[w]: the file create() opened
    disturbed  \* whether the name a writer was writing to was ever cleared (a history)

fsVars == <<dir, settled, data, durable>>
vars == <<existing, fsVars, pc, new, file, disturbed>>

Init ==
    /\ dir \in [Names -> Files \cup {NoFile}]
    /\ dir["temporary"] = NoFile
    /\ existing = (dir["card"] # NoFile)
    /\ settled = dir
    /\ data = [f \in Files |-> IF f = dir["card"] THEN Original ELSE Torn]
    /\ durable = data
    /\ pc = [w \in Writers |-> "closed"]
    /\ new = [w \in Writers |-> FALSE]
    /\ file = [w \in Writers |-> NoFile]
    /\ disturbed = FALSE

Saving(w) == pc[w] \in {"created", "written", "synced"}

\* The name create() is given.
Target(w) == IF new[w] THEN "card" ELSE "temporary"

InUse(f) == (\E n \in Names : f \in {dir[n], settled[n]}) \/ (\E w \in Writers : file[w] = f)
Link(n, f) == dir' = [dir EXCEPT ![n] = f]
At(w, from, to) == pc[w] = from /\ pc' = [pc EXCEPT ![w] = to]

-----------------------------------------------------------------------------
(* The tool.                                                               *)

\* Card::open of a card that reads, or Card::create where there is none.
Open(w) ==
    /\ dir["card"] # NoFile => data[dir["card"]] \in Writers \cup {Original}
    /\ At(w, "closed", "open")
    /\ new' = [new EXCEPT ![w] = dir["card"] = NoFile]
    /\ UNCHANGED <<fsVars, file>>

\* Mutant: created whether or not something is there.
CreateOver(w) ==
    /\ At(w, "open", "created")
    /\ \E f \in Files :
         /\ ~InUse(f)
         /\ Link(Target(w), f)
         /\ file' = [file EXCEPT ![w] = f]
         /\ data' = [data EXCEPT ![f] = Torn]
         /\ durable' = [durable EXCEPT ![f] = Torn]
    /\ UNCHANGED <<settled, new>>

\* create_new: the name must lead nowhere.
Create(w) ==
    /\ dir[Target(w)] = NoFile
    /\ At(w, "open", "created")
    /\ \E f \in Files :
         /\ ~InUse(f)
         /\ Link(Target(w), f)
         /\ file' = [file EXCEPT ![w] = f]
         /\ data' = [data EXCEPT ![f] = Torn]
         /\ durable' = [durable EXCEPT ![f] = Torn]
    /\ UNCHANGED <<settled, new>>

WriteAll(w) ==
    /\ At(w, "created", "written")
    /\ data' = [data EXCEPT ![file[w]] = w]
    /\ UNCHANGED <<dir, settled, durable, new, file>>

\* Mutant: not synced.
SyncNothing(w) == At(w, "written", "synced") /\ UNCHANGED <<fsVars, new, file>>

SyncAll(w) ==
    /\ At(w, "written", "synced")
    /\ durable' = [durable EXCEPT ![file[w]] = data[file[w]]]
    /\ UNCHANGED <<dir, settled, data, new, file>>

\* remove_file is given the name, whatever it leads to by then.
Removed(w) ==
    /\ Link(Target(w), NoFile)
    /\ file' = [file EXCEPT ![w] = NoFile]
    /\ UNCHANGED <<settled, data, durable, new>>

WriteFails(w) ==
    /\ At(w, "created", "open") \/ At(w, "written", "open")
    /\ Removed(w)

\* Mutant: the file that was written is forgotten and its name is not.
WrittenElsewhere(w) ==
    /\ At(w, "synced", "open")
    /\ new' = [new EXCEPT ![w] = FALSE]
    /\ file' = [file EXCEPT ![w] = "temporary"]
    /\ UNCHANGED <<settled, data, durable>>

\* The card is no longer dirty, nor new.
Written(w) ==
    /\ At(w, "synced", "open")
    /\ new' = [new EXCEPT ![w] = FALSE]
    /\ file' = [file EXCEPT ![w] = NoFile]
    /\ UNCHANGED <<settled, data, durable>>

Rename(w) ==
    /\ ~new[w]
    /\ dir["temporary"] # NoFile
    /\ dir' = [card |-> dir["temporary"], temporary |-> NoFile]
    /\ Written(w)

\* A card started here is already where it goes.
Keep(w) ==
    /\ new[w]
    /\ Written(w)
    /\ UNCHANGED dir

RenameFails(w) ==
    /\ ~new[w]
    /\ At(w, "synced", "open")
    /\ Removed(w)

\* The tool is closed, or killed.
Stop(w) ==
    /\ pc[w] # "closed"
    /\ pc' = [pc EXCEPT ![w] = "closed"]
    /\ file' = [file EXCEPT ![w] = NoFile]
    /\ new' = [new EXCEPT ![w] = FALSE]
    /\ UNCHANGED fsVars

Save(w) == Create(w) \/ WriteAll(w) \/ SyncAll(w) \/ WriteFails(w)
           \/ Rename(w) \/ Keep(w) \/ RenameFails(w)

-----------------------------------------------------------------------------
(* Everything else, which is external.                                     *)

Flush ==
    /\ settled' = dir
    /\ UNCHANGED <<dir, data, durable, pc, new, file>>

WriteBack(f) ==
    /\ durable' = [durable EXCEPT ![f] = data[f]]
    /\ UNCHANGED <<dir, settled, data, pc, new, file>>

PowerLoss ==
    /\ dir' = settled /\ data' = durable
    /\ pc' = [w \in Writers |-> "closed"]
    /\ new' = [w \in Writers |-> FALSE]
    /\ file' = [w \in Writers |-> NoFile]
    /\ UNCHANGED <<settled, durable>>

\* Somebody else's file, or a link, turns up where there was nothing.
Plant(n) ==
    /\ dir[n] = NoFile
    /\ \E f \in Files :
         /\ ~InUse(f)
         /\ Link(n, f)
         /\ data' = [data EXCEPT ![f] = Foreign]
         /\ durable' = [durable EXCEPT ![f] = Foreign]
    /\ UNCHANGED <<settled, pc, new, file>>

\* The person at the keyboard moves what is in the way of their own write
\* aside, as create() tells them to.  It may be what another is writing.
MoveAside(n) ==
    /\ \E w \in Writers : pc[w] = "open" /\ Target(w) = n
    /\ dir[n] # NoFile
    /\ Link(n, NoFile)
    /\ disturbed' = (disturbed \/ \E v \in Writers : Saving(v) /\ Target(v) = n)
    /\ UNCHANGED <<settled, data, durable, pc, new, file>>

Outside == Flush \/ PowerLoss
           \/ (\E f \in Files : WriteBack(f)) \/ (\E n \in Names : Plant(n))
Steps == (\E w \in Writers : Open(w) \/ Save(w) \/ Stop(w)) \/ Outside
Next == /\ (Steps /\ UNCHANGED disturbed) \/ \E n \in Names : MoveAside(n)
        /\ UNCHANGED existing
Spec == Init /\ [][Next]_vars
-----------------------------------------------------------------------------

TypeOK ==
    /\ existing \in BOOLEAN
    /\ dir \in [Names -> Files \cup {NoFile}]
    /\ settled \in [Names -> Files \cup {NoFile}]
    /\ data \in [Files -> Contents] /\ durable \in [Files -> Contents]
    /\ pc \in [Writers -> {"closed", "open", "created", "written", "synced"}]
    /\ new \in [Writers -> BOOLEAN]
    /\ file \in [Writers -> Files \cup {NoFile}]
    /\ disturbed \in BOOLEAN

Whole(f) == f # NoFile /\ Torn \notin {data[f], durable[f]}

\* A card that was there always has its name lead to something, at every
\* moment and after any kill or power cut; and to all of a card, the old one
\* or a new one, unless the temporary of a writer part-way was moved aside.
CardStands ==
    existing => \A f \in {dir["card"], settled["card"]} :
                  f # NoFile /\ (disturbed \/ Whole(f))

\* What a writer moves over the card is the file it wrote, whole and its
\* bytes on the disk, however many others are writing the same card, unless
\* somebody did what create() says, "move it aside and write again", to a
\* file that was still being written.
InstallsItsOwn ==
    [][\A w \in Writers : Rename(w) => disturbed \/
          (dir'["card"] = file[w] /\ durable[file[w]] = w)]_vars

\* A file somebody else put where a writer writes to, at the temporary's name
\* or where its new card was to go, is not written to, moved or removed by it.
LeavesForeignFiles ==
    [][\A w \in Writers : LET n == Target(w) IN
          Save(w) /\ dir[n] # NoFile /\ data[dir[n]] = Foreign =>
            disturbed \/ (dir'[n] = dir[n] /\ data'[dir[n]] = Foreign)]_vars

\* When a write succeeds, the card's name leads to all of a card whose bytes
\* are on the disk.  The name itself may not be: nothing syncs the directory.
LeavesAWholeCard ==
    [][\A w \in Writers : Rename(w) \/ Keep(w) =>
          disturbed \/ (dir'["card"] # NoFile /\ durable[dir'["card"]] # Torn)]_vars

\* Once a card whole in both views has no writer starting it, it stays so
\* through every step of every writer, kill and power cut, a card started
\* here as well as one that was there, until the person moves the card aside.
Settled == /\ Whole(dir["card"]) /\ Whole(settled["card"])
           /\ \A w \in Writers : Saving(w) => ~new[w]
SettledStays ==
    [][Settled => Settled' \/ disturbed \/ MoveAside("card")]_vars

\* No file is lost to a write: not somebody else's, and not the card.
FilesAreKept == LeavesForeignFiles /\ LeavesAWholeCard /\ SettledStays

\* create(): "One this writes and then fails to finish is removed, since it
\* is known to be this one's."
RemovesItsOwn ==
    [][\A w \in Writers : WriteFails(w) => disturbed \/ dir[Target(w)] = file[w]]_vars
=============================================================================
