------------------------------- MODULE MCCommand -------------------------------
(* The two programs for TLC: three runs of the command line in one directory, *)
(* or a sitting at the terminal tool as MCCardSession has it.  The other of   *)
(* the two stays as it starts: area says which it is.                         *)
EXTENDS CommandLine, MCCardSession, TLC

CONSTANTS a, b, r1, r2, r3

VARIABLE area

Told(command, force, outputs) == [command |-> command, force |-> force, outputs |-> outputs]
New(force, n) == Told("new", force, <<n>>)
Extract(force) == Told("extract", force, <<a, b>>)
Verify == Told("verify", FALSE, << >>)
Lines3(x, y, z) == r1 :> x @@ r2 :> y @@ r3 :> z

\* Three for one name; two names one run writes and two others one each; a
\* run told to replace what is there; and one that looks beside its input.
Together ==
    {Lines3(New(FALSE, a), New(FALSE, a), New(force, a)) : force \in BOOLEAN}
        \cup {Lines3(Extract(FALSE), New(force, b), New(FALSE, a)) : force \in BOOLEAN}
        \cup {Lines3(Extract(TRUE), New(force, b), Verify) : force \in BOOLEAN}
        \cup {Lines3(Extract(FALSE), Extract(FALSE), Verify)}
        \cup {Lines3(New(FALSE, b), Told(command, force, <<a>>), Verify) :
                 command \in {"convert", "state"}, force \in BOOLEAN}
Idle == Lines3(Verify, Verify, Verify)
LinesTold == UNION {{told[r] : r \in {r1, r2, r3}} : told \in Together}

-----------------------------------------------------------------------------
\* What is beside the input matters to a run that looks; one leftover will do.
LinesInit ==
    /\ line \in Together
    /\ CommandInit
    /\ line[r2].command = "new" => beside = "absent"
    /\ \A h \in Hidden : dir[h] = Leftover => h = <<r1, a>>

RunsAway ==
    /\ line = Idle /\ dir = [p \in Paths |-> Nothing] /\ whole = {Old} /\ pc = [r \in Runs |-> "done"] /\ at = [r \in Runs |-> 1]
    /\ beside = "absent" /\ handle = [r \in Runs |-> "absent"] /\ taken = [r \in Runs |-> "absent"]
SittingAway == Init /\ disk = [c \in Cards |-> <<B>>]

ProgramsInit ==
    \/ area = "runs" /\ LinesInit /\ SittingAway
    \/ area = "sitting" /\ Init /\ RunsAway
ProgramsNext ==
    \/ area = "runs" /\ CommandNext /\ UNCHANGED <<area, vars>>
    \/ area = "sitting" /\ Next /\ UNCHANGED <<area, commandVars>>
programVars == <<area, commandVars, vars>>

\* A run that is not stopped goes on; a person at the keyboard need not.
ProgramsSpec ==
    /\ ProgramsInit /\ [][ProgramsNext]_programVars
    /\ \A r \in Runs : WF_commandVars(area = "runs" /\ Works(r) /\ UNCHANGED <<area, vars>>)
==============================================================================
