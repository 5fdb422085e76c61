----------------------------- MODULE CommandLine -----------------------------
(***************************************************************************)
(* The command line's runs over a directory: what each reads, what it      *)
(* writes and in which order (crates/one-saves-cli: write_out, create_new, *)
(* read_beside, and convert, extract and new around them). Several run at  *)
(* once, a write or a rename may fail, and a run may be killed anywhere.   *)
(*                                                                         *)
(* A run's file is named by the run and what it is for, <<r, n>>; so is    *)
(* the hidden name a run told --force writes it under first.               *)
(***************************************************************************)
EXTENDS Naturals, Sequences

CONSTANTS
    Runs,       \* processes, each with an id of its own
    Names,      \* what outputs are called
    Lines,      \* command lines, [command, force, outputs]
    Nothing,    \* no file
    Old,        \* a file found under an output's name: a save, a bundle, a link
    Leftover    \* the hidden file of a run killed long ago that had the same id

ASSUME LinesAssumption ==
    \A told \in Lines : told.force \in BOOLEAN /\ told.outputs \in Seq(Names)
Hidden == Runs \X Names

ASSUME FilesAssumption == {Nothing, Old, Leftover} \cap Hidden = {} /\ Nothing # Old
ASSUME NamesAssumption == Names \cap Hidden = {}

Paths == Names \cup Hidden

VARIABLES
    line,       \* line[r]: what run r was told
    dir,        \* dir[p]: the file at path p
    whole,      \* the files that have all their bytes
    pc,         \* where each run is
    at,         \* at[r]: the output it is on
    beside,     \* what is under the name of the clock or the picture beside the input
    handle,     \* handle[r]: what it opened there
    taken       \* taken[r]: what it read there

outVars == <<line, dir, whole, at>>
besideVars == <<beside, handle, taken>>
commandVars == <<line, dir, whole, pc, at, beside, handle, taken>>

Things == {"absent", "file", "long file", "link", "fifo"}

(* Whether run r reads what is beside its input, and where it goes if that is no file. *)
Looks(r) == line[r].command \in {"convert", "state"}
Refused(r) == IF line[r].command = "state" THEN "make" ELSE "failed"

CommandInit ==
    /\ line \in [Runs -> Lines]
    /\ dir \in [Paths -> {Nothing, Old, Leftover}]
    /\ \A n \in Names : dir[n] # Leftover
    /\ \A h \in Hidden : dir[h] # Old
    /\ whole = {Old}
    /\ pc = [r \in Runs |-> IF Looks(r) THEN "look" ELSE "make"]
    /\ at = [r \in Runs |-> 1]
    /\ beside \in Things
    /\ handle = [r \in Runs |-> "absent"]
    /\ taken = [r \in Runs |-> "absent"]

Output(r) == line[r].outputs[at[r]]
Hides(r) == <<r, Output(r)>>
Target(r) == IF line[r].force THEN Hides(r) ELSE Output(r)
MadeBy(r) == <<r, Output(r)>>
Goes(r, from, to) == pc[r] = from /\ pc' = [pc EXCEPT ![r] = to]

-----------------------------------------------------------------------------
(* Reading. A clock beside a save that is not a file of its own is an error; *)
(* a picture beside a state that is not one is passed over.                  *)

(* Opened without following a link and without waiting on a FIFO. *)
WaitsFor == {"fifo"}
Waits == {}
OpenBeside(r) ==
    /\ beside \notin Waits
    /\ Goes(r, "look", IF beside = "absent" THEN "make" ELSE IF beside = "link" THEN Refused(r) ELSE "judge")
    /\ handle' = [handle EXCEPT ![r] = IF beside = "link" THEN @ ELSE beside]
    /\ UNCHANGED <<outVars, beside, taken>>

JudgedByName(r) == beside = "file"
Judged(r) == handle[r] = "file"
JudgeBeside(r) ==
    /\ Goes(r, "judge", IF Judged(r) THEN "read" ELSE Refused(r))
    /\ UNCHANGED <<outVars, besideVars>>

(* One byte past the limit is asked for, so a file that grew is known for one. *)
ReadBeside(r) ==
    /\ IF handle[r] = "long file"
       THEN Goes(r, "read", Refused(r)) /\ UNCHANGED taken
       ELSE Goes(r, "read", "make") /\ taken' = [taken EXCEPT ![r] = handle[r]]
    /\ UNCHANGED <<outVars, beside, handle>>

(* The input does not read, a digest is not of its bytes, the bundle does not validate: all of
   it before anything is written. To inspect or to verify is no more than this. *)
Make(r) ==
    /\ \/ Goes(r, "make", IF line[r].outputs = << >> THEN "done" ELSE "create")
       \/ Goes(r, "make", "failed")
    /\ UNCHANGED <<outVars, besideVars>>

-----------------------------------------------------------------------------
(* Writing one output. *)

(* O_CREAT and O_EXCL: only where nothing is, and a link is something. *)
CreatesOver(r) == TRUE
Creates(r) == dir[Target(r)] = Nothing
Create(r) ==
    /\ \/ /\ Goes(r, "create", "write")
          /\ Creates(r)
          /\ dir' = [dir EXCEPT ![Target(r)] = MadeBy(r)]
       \/ Goes(r, "create", "failed") /\ UNCHANGED dir
    /\ UNCHANGED <<line, whole, at, besideVars>>

IsLast(r) == at[r] = Len(line[r].outputs)
Reported(r, from) ==
    /\ Goes(r, from, IF IsLast(r) THEN "done" ELSE "create")
    /\ at' = [at EXCEPT ![r] = IF IsLast(r) THEN @ ELSE @ + 1]

WriteAll(r) ==
    /\ IF line[r].force
       THEN Goes(r, "write", "rename") /\ UNCHANGED at
       ELSE Reported(r, "write")
    /\ whole' = whole \cup {MadeBy(r)}
    /\ UNCHANGED <<line, dir, besideVars>>

(* The file is removed by name, whatever the name has come to lead to. *)
WithOutputGone(r) == [dir EXCEPT ![Output(r)] = Nothing]
WithoutHalf(r) == [dir EXCEPT ![Target(r)] = Nothing]
WriteFails(r) ==
    /\ Goes(r, "write", "failed")
    /\ dir' = WithoutHalf(r)
    /\ UNCHANGED <<line, whole, at, besideVars>>

Rename(r) ==
    /\ Reported(r, "rename")
    /\ dir' = [dir EXCEPT ![Output(r)] = dir[Hides(r)], ![Hides(r)] = Nothing]
    /\ UNCHANGED <<line, whole, besideVars>>

RenameFails(r) ==
    /\ Goes(r, "rename", "failed")
    /\ dir' = [dir EXCEPT ![Hides(r)] = Nothing]
    /\ UNCHANGED <<line, whole, at, besideVars>>

Ended == {"done", "failed", "killed"}
Kill(r) ==
    /\ pc[r] \notin Ended
    /\ pc' = [pc EXCEPT ![r] = "killed"]
    /\ UNCHANGED <<outVars, besideVars>>

-----------------------------------------------------------------------------
(* Whoever else uses the directory puts something else beside the input of a *)
(* run that may look there, or adds to the file it has open.                 *)

Swap ==
    /\ \E r \in Runs : Looks(r) /\ pc[r] \in {"look", "judge", "read"}
    /\ \E thing \in Things \ {beside} : beside' = thing
    /\ UNCHANGED <<outVars, pc, handle, taken>>
Grow(r) ==
    /\ handle[r] = "file"
    /\ handle' = [handle EXCEPT ![r] = "long file"]
    /\ UNCHANGED <<outVars, pc, beside, taken>>

Reads(r) == OpenBeside(r) \/ JudgeBeside(r) \/ ReadBeside(r) \/ Make(r)
Writes(r) == Create(r) \/ WriteAll(r) \/ WriteFails(r) \/ Rename(r) \/ RenameFails(r)
Works(r) == Reads(r) \/ Writes(r)

CommandNext ==
    \/ \E r \in Runs : Works(r) \/ Kill(r) \/ Grow(r)
    \/ Swap

CommandSpec == CommandInit /\ [][CommandNext]_commandVars /\ \A r \in Runs : WF_commandVars(Works(r))

-----------------------------------------------------------------------------
CommandTypeOK ==
    /\ line \in [Runs -> Lines]
    /\ dir \in [Paths -> {Nothing, Old, Leftover} \cup (Runs \X Names)]
    /\ whole \subseteq {Old} \cup (Runs \X Names)
    /\ pc \in [Runs -> Ended \cup {"look", "judge", "read", "make", "create", "write", "rename"}]
    /\ at \in [Runs -> Nat] /\ \A r \in Runs : at[r] = 1 \/ at[r] \in DOMAIN line[r].outputs
    /\ beside \in Things
    /\ handle \in [Runs -> Things]
    /\ taken \in [Runs -> Things]

(* What run r without --force has under way or has reported as written to n. *)
Claims(r, n) ==
    /\ ~line[r].force
    /\ \E i \in DOMAIN line[r].outputs :
         /\ line[r].outputs[i] = n
         /\ i < at[r] \/ (i = at[r] /\ pc[r] \in {"write", "done"})

(* However many runs without --force race for one name, at most one of them   *)
(* reports that it wrote it, and what it reported is there.                   *)
OneRunHasTheName ==
    \A n \in Names : \A r, s \in Runs :
        Claims(r, n) => dir[n] # Nothing /\ (Claims(s, n) => r = s)

(* Half a file is under an output's name only while the run writing it in     *)
(* place goes on, or where it was killed: no failure leaves one, and --force   *)
(* never shows one, not even when another run fails at the same time.         *)
HalvesAreHidden ==
    \A n \in Names : dir[n] \notin whole \cup {Nothing} =>
        \E r \in Runs : /\ dir[n] = <<r, n>>
                        /\ ~line[r].force
                        /\ pc[r] \in {"write", "killed"} /\ Output(r) = n

(* What is under an output's name is what was there, nothing, or a file of one *)
(* run that is whole unless that run is at it or died at it.                   *)
OutputsAreSound == OneRunHasTheName /\ HalvesAreHidden

(* A file found under an output's name is replaced only by a run told to, only *)
(* in one step, and only by all of what that run made.                         *)
FoundIsKept ==
    [][\A n \in Names : dir[n] = Old /\ dir'[n] # Old =>
          \E r \in Runs : line[r].force /\ dir'[n] = <<r, n>> /\ <<r, n>> \in whole]_commandVars

(* What is read beside an input was a file of its own, within its limit, by    *)
(* the handle it was read through, whatever was put under its name meanwhile. *)
BesideIsAFile == \A r \in Runs : taken[r] \in {"absent", "file"}

(* Every run ends, whatever is beside its input, a FIFO nobody writes to included. *)
RunsEnd == \A r \in Runs : <>(pc[r] \in Ended)
=============================================================================
