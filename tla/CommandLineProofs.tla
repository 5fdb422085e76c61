-------------------------- MODULE CommandLineProofs --------------------------
(***************************************************************************)
(* Proofs about CommandLine, for any runs, names and command lines.  The   *)
(* invariant ties what is under a name to the run that put it there: what  *)
(* a run without --force has made stands under its name until that run     *)
(* itself takes it away, and what a run told --force will rename is whole  *)
(* under a name no other run writes to.                                    *)
(***************************************************************************)
EXTENDS CommandLine, TLAPS

Writing == {"create", "write", "rename"}

\* A run that writes is on one of its outputs; one that has yet to is on the first.
OnAnOutput(r) ==
    /\ pc[r] \in {"look", "judge", "read", "make"} => at[r] = 1
    /\ pc[r] \in Writing => at[r] \in DOMAIN line[r].outputs

\* Under an output's name is what was there, or what a run made for it.
NamesLeadToTheirs == \A n \in Names : dir[n] \in {Nothing, Old} \cup (Runs \X {n})

\* What a run told --force has made is under its hidden name, and whole when renamed.
Staged(r) ==
    /\ line[r].force /\ pc[r] \in {"write", "rename"} => dir[Hides(r)] = MadeBy(r)
    /\ pc[r] = "rename" => line[r].force /\ MadeBy(r) \in whole

\* What a run without --force has made for a name has been there since.
ClaimsStand == \A n \in Names : \A r, s \in Runs :
    Claims(r, n) => dir[n] \in Runs \X {n} /\ (Claims(s, n) => r = s)

\* Such a run writes no output a second time.
WritesOnce(r) ==
    ~line[r].force /\ pc[r] = "write" =>
        \A i \in DOMAIN line[r].outputs : i < at[r] => line[r].outputs[i] # Output(r)

\* What is read from here on is a file's, or more than is allowed.
HoldsAFile(r) == pc[r] = "read" => handle[r] \in {"file", "long file"}

IInv ==
    /\ CommandTypeOK
    /\ \A r \in Runs : OnAnOutput(r) /\ Staged(r) /\ WritesOnce(r) /\ HoldsAFile(r)
    /\ NamesLeadToTheirs
    /\ ClaimsStand
    /\ Old \in whole /\ HalvesAreHidden
    /\ BesideIsAFile

-----------------------------------------------------------------------------
(* What every step keeps.                                                  *)

LEMMA LinesAreTyped ==
    ASSUME CommandTypeOK, NEW r \in Runs
    PROVE /\ line[r] \in Lines /\ line[r].force \in BOOLEAN
          /\ line[r].outputs \in Seq(Names) /\ DOMAIN line[r].outputs = 1 .. Len(line[r].outputs)
          /\ Len(line[r].outputs) \in Nat
<1>1. line[r] \in Lines
  BY DEF CommandTypeOK
<1> QED
  BY <1>1, LinesAssumption

\* A run that writes has an output's name, and a hidden one of its own for it.
LEMMA OutputsAreNames ==
    ASSUME CommandTypeOK, NEW r \in Runs, OnAnOutput(r), pc[r] \in Writing
    PROVE /\ Output(r) \in Names /\ Output(r) \in Paths
          /\ Hides(r) = <<r, Output(r)>> /\ MadeBy(r) = <<r, Output(r)>>
          /\ Hides(r) \in Hidden /\ Hides(r) \in Paths /\ Hides(r) \notin Names
          /\ Target(r) \in Paths
<1>1. Output(r) \in Names
  BY LinesAreTyped DEF OnAnOutput, Output
<1> QED
  BY <1>1, NamesAssumption DEF Paths, Hidden, Hides, MadeBy, Target

LEMMA InitIInv == CommandInit => IInv
<1> SUFFICES ASSUME CommandInit PROVE IInv
  OBVIOUS
<1>1. CommandTypeOK
  BY DEF CommandInit, CommandTypeOK, Ended, Looks, Things
<1>2. ASSUME NEW r \in Runs PROVE pc[r] \in {"look", "make"} /\ at[r] = 1
  BY DEF CommandInit
<1>3. \A r \in Runs : OnAnOutput(r) /\ Staged(r) /\ WritesOnce(r) /\ HoldsAFile(r)
  BY <1>2 DEF OnAnOutput, Staged, WritesOnce, HoldsAFile, Writing
<1>4. \A n \in Names : dir[n] \in {Nothing, Old}
  BY DEF CommandInit, Paths
<1>5. \A n \in Names, r \in Runs : ~Claims(r, n)
  <2> TAKE n \in Names, r \in Runs
  <2> QED
    BY <1>2, <1>1, LinesAreTyped DEF Claims
<1>6. Old \in whole /\ HalvesAreHidden
  BY <1>4 DEF CommandInit, HalvesAreHidden
<1>7. BesideIsAFile
  BY DEF CommandInit, BesideIsAFile
<1> QED
  BY <1>1, <1>3, <1>4, <1>5, <1>6, <1>7 DEF IInv, ClaimsStand, NamesLeadToTheirs

LEMMA TypeStep == IInv /\ [CommandNext]_commandVars => CommandTypeOK'
<1> SUFFICES ASSUME IInv, [CommandNext]_commandVars PROVE CommandTypeOK'
  OBVIOUS
<1>0. CommandTypeOK /\ \A r \in Runs : OnAnOutput(r)
  BY DEF IInv
<1> USE DEF CommandTypeOK
<1>1. ASSUME NEW r \in Runs, Reads(r) PROVE CommandTypeOK'
  <2>1. UNCHANGED outVars /\ UNCHANGED beside
    BY <1>1 DEF Reads, OpenBeside, JudgeBeside, ReadBeside, Make, besideVars, outVars
  <2>2. pc' \in [Runs -> Ended \cup {"look", "judge", "read", "make", "create", "write", "rename"}]
    BY <1>0, <1>1 DEF Reads, OpenBeside, JudgeBeside, ReadBeside, Make, Goes, Refused, Ended
  <2>3. handle' \in [Runs -> Things] /\ taken' \in [Runs -> Things]
    BY ZenonT(30), <1>0, <1>1 DEF Reads, OpenBeside, JudgeBeside, ReadBeside, Make, besideVars
  <2> QED
    BY <1>0, <2>1, <2>2, <2>3 DEF outVars
<1>2. ASSUME NEW r \in Runs, Writes(r) PROVE CommandTypeOK'
  <2>1. pc[r] \in Writing /\ UNCHANGED besideVars /\ line' = line
    BY <1>2 DEF Writes, Create, WriteAll, WriteFails, Rename, RenameFails, Reported, Goes, Writing
  <2>2. Output(r) \in Paths /\ Hides(r) \in Paths /\ Target(r) \in Paths /\ MadeBy(r) \in Runs \X Names
    BY <1>0, <2>1, OutputsAreNames DEF Hidden
  <2>3. dir' \in [Paths -> {Nothing, Old, Leftover} \cup (Runs \X Names)]
    BY <1>0, <1>2, <2>2 DEF Writes, Create, WriteAll, WriteFails, WithoutHalf, Rename, RenameFails
  <2>4. whole' \subseteq {Old} \cup (Runs \X Names)
    BY <1>0, <1>2, <2>2 DEF Writes, Create, WriteAll, WriteFails, Rename, RenameFails
  <2>5. pc' \in [Runs -> Ended \cup {"look", "judge", "read", "make", "create", "write", "rename"}]
    BY <1>0, <1>2 DEF Writes, Create, WriteAll, WriteFails, Rename, RenameFails, Reported, Goes, Ended
  <2>6. at' = at \/ (~IsLast(r) /\ at' = [at EXCEPT ![r] = @ + 1])
    BY <1>0, <1>2 DEF Writes, Create, WriteAll, WriteFails, Rename, RenameFails, Reported
  <2>7. at' \in [Runs -> Nat] /\ \A s \in Runs : at'[s] = 1 \/ at'[s] \in DOMAIN line[s].outputs
    BY SMTT(30), <1>0, <2>1, <2>6, LinesAreTyped DEF OnAnOutput, IsLast
  <2> QED
    BY <1>0, <2>1, <2>3, <2>4, <2>5, <2>7 DEF besideVars
<1>3. ASSUME NEW r \in Runs, Kill(r) PROVE CommandTypeOK'
  BY <1>0, <1>3 DEF Kill, outVars, besideVars, Ended
<1>4. ASSUME NEW r \in Runs, Grow(r) PROVE CommandTypeOK'
  BY <1>0, <1>4 DEF Grow, outVars, Things
<1>5. ASSUME Swap PROVE CommandTypeOK'
  BY <1>0, <1>5 DEF Swap, outVars
<1>6. ASSUME UNCHANGED commandVars PROVE CommandTypeOK'
  BY <1>0, <1>6 DEF commandVars
<1> QED
  BY <1>1, <1>2, <1>3, <1>4, <1>5, <1>6 DEF CommandNext, Works

-----------------------------------------------------------------------------
(* Steps that write nothing: a run reads, ends, is killed, or others do     *)
(* something beside its input.                                             *)

Early == {"look", "judge", "read", "make"}
GoesQuietly(r) ==
    \/ pc'[r] = pc[r]
    \/ pc[r] \notin Ended /\ pc'[r] = "killed"
    \/ pc[r] \in Early /\ pc'[r] \in {"judge", "read", "make", "failed"}
    \/ pc[r] = "make" /\ pc'[r] = IF line[r].outputs = << >> THEN "done" ELSE "create"

\* What IInv says of the files written.
FilesAreRight ==
    /\ \A r \in Runs : OnAnOutput(r) /\ Staged(r) /\ WritesOnce(r)
    /\ NamesLeadToTheirs /\ ClaimsStand
    /\ Old \in whole /\ HalvesAreHidden

LEMMA QuietStep ==
    ASSUME IInv, UNCHANGED outVars, \A r \in Runs : GoesQuietly(r)
    PROVE FilesAreRight'
<1>0. CommandTypeOK /\ \A r \in Runs : OnAnOutput(r) /\ Staged(r) /\ WritesOnce(r)
  BY DEF IInv
<1>1. UNCHANGED <<line, dir, whole, at>>
  BY DEF outVars
<1>2. ASSUME NEW r \in Runs PROVE OnAnOutput(r)' /\ Staged(r)' /\ WritesOnce(r)'
  <2>1. pc'[r] \in Early => at[r] = 1
    BY <1>0 DEF GoesQuietly, OnAnOutput, Early, Ended
  <2>2. pc'[r] \in Writing => at[r] \in DOMAIN line[r].outputs
    BY <1>0, LinesAreTyped DEF GoesQuietly, OnAnOutput, Early, Ended, Writing
  <2>3. pc'[r] \in {"write", "rename"} => pc[r] = pc'[r]
    BY DEF GoesQuietly, Early, Ended
  <2> QED
    BY <1>0, <1>1, <2>1, <2>2, <2>3
    DEF OnAnOutput, Staged, WritesOnce, Early, Hides, MadeBy, Output
<1>3. NamesLeadToTheirs' /\ (Old \in whole)'
  BY <1>1 DEF IInv, NamesLeadToTheirs
<1>4. ASSUME NEW r \in Runs, NEW n \in Names, Claims(r, n)' PROVE Claims(r, n)
  <2>1. pc'[r] \in {"write", "done"} => pc[r] = pc'[r] \/ line[r].outputs = << >>
    BY DEF GoesQuietly, Early, Ended
  <2> QED
    BY <1>1, <1>4, <2>1 DEF Claims
<1>5. ClaimsStand'
  BY <1>1, <1>4 DEF IInv, ClaimsStand
<1>6. HalvesAreHidden'
  <2>1. ASSUME NEW r \in Runs, pc[r] \in {"write", "killed"} PROVE pc'[r] \in {"write", "killed"}
    BY <2>1 DEF GoesQuietly, Early, Ended
  <2> QED
    BY <1>1, <2>1 DEF IInv, HalvesAreHidden, Output
<1> QED
  BY <1>2, <1>3, <1>5, <1>6 DEF FilesAreRight

-----------------------------------------------------------------------------
(* Steps that write.  The run is r; n is the output it is on.              *)

\* What any of them leaves as it was: every other run, and every path that
\* is not r's to write.
WritesAs(r) ==
    /\ pc[r] \in Writing
    /\ UNCHANGED <<line, besideVars>>
    /\ \A s \in Runs \ {r} : pc'[s] = pc[s] /\ at'[s] = at[s]
    /\ \A p \in Paths \ {Output(r), Hides(r)} : dir'[p] = dir[p]
    /\ whole \subseteq whole'

LEMMA WriteIsOneRuns ==
    ASSUME IInv, NEW r \in Runs, Writes(r)
    PROVE WritesAs(r)
<1>1. CommandTypeOK
  BY DEF IInv
<1>2. pc[r] \in Writing /\ UNCHANGED <<line, besideVars>>
  BY DEF Writes, Create, WriteAll, WriteFails, Rename, RenameFails, Reported, Goes, Writing
<1>3. \A s \in Runs \ {r} : pc'[s] = pc[s] /\ at'[s] = at[s]
  BY <1>1 DEF Writes, Create, WriteAll, WriteFails, Rename, RenameFails, Reported, Goes, CommandTypeOK
<1>4. \A p \in Paths \ {Output(r), Hides(r)} : dir'[p] = dir[p]
  BY <1>1 DEF Writes, Create, WriteAll, WriteFails, WithoutHalf, Rename, RenameFails, Target, CommandTypeOK
<1>5. whole \subseteq whole'
  BY DEF Writes, Create, WriteAll, WriteFails, Rename, RenameFails
<1> QED
  BY <1>2, <1>3, <1>4, <1>5 DEF WritesAs

\* The others are where they were, with what they have hidden as it was.
LEMMA OthersStay ==
    ASSUME IInv, NEW r \in Runs, WritesAs(r), NEW s \in Runs \ {r}
    PROVE /\ OnAnOutput(s)' /\ Staged(s)' /\ WritesOnce(s)'
          /\ \A n \in Names : Claims(s, n)' <=> Claims(s, n)
<1>1. CommandTypeOK /\ OnAnOutput(s) /\ Staged(s) /\ WritesOnce(s) /\ OnAnOutput(r)
  BY DEF IInv
<1>2. line' = line /\ pc'[s] = pc[s] /\ at'[s] = at[s] /\ whole \subseteq whole'
  BY DEF WritesAs
<1>3. OnAnOutput(s)' /\ WritesOnce(s)' /\ \A n \in Names : Claims(s, n)' <=> Claims(s, n)
  BY <1>1, <1>2 DEF OnAnOutput, WritesOnce, Claims, Output
<1>4. pc[s] \in Writing => dir'[Hides(s)] = dir[Hides(s)]
  <2> SUFFICES ASSUME pc[s] \in Writing PROVE dir'[Hides(s)] = dir[Hides(s)]
    OBVIOUS
  <2>1. Hides(s) \in Paths /\ Hides(s) \notin Names /\ Hides(s) = <<s, Output(s)>>
    BY <1>1, OutputsAreNames
  <2>2. Output(r) \in Names /\ Hides(r) = <<r, Output(r)>>
    BY <1>1, OutputsAreNames DEF WritesAs
  <2> QED
    BY <2>1, <2>2 DEF WritesAs
<1>5. Staged(s)'
  BY <1>1, <1>2, <1>4 DEF Staged, Hides, MadeBy, Output, Writing
<1> QED
  BY <1>3, <1>5

\* The run that writes stays on its outputs, whichever step it takes.
LEMMA RunStaysOnOutputs ==
    ASSUME IInv, NEW r \in Runs, Writes(r)
    PROVE OnAnOutput(r)'
<1>1. CommandTypeOK /\ OnAnOutput(r)
  BY DEF IInv
<1>2. pc[r] \in Writing /\ line' = line
  BY WriteIsOneRuns DEF WritesAs
<1>3. pc'[r] \notin Early
  BY <1>1 DEF Writes, Create, WriteAll, WriteFails, Rename, RenameFails, Reported, Goes, CommandTypeOK, Early
<1>4. at'[r] = at[r] \/ (~IsLast(r) /\ at'[r] = at[r] + 1)
  BY <1>1 DEF Writes, Create, WriteAll, WriteFails, Rename, RenameFails, Reported, CommandTypeOK
<1>5. at'[r] \in DOMAIN line[r].outputs
  BY <1>1, <1>2, <1>4, LinesAreTyped DEF OnAnOutput, IsLast
<1> QED
  BY <1>2, <1>3, <1>5 DEF OnAnOutput, Early

\* A step that changes nothing under an output's name, claims none, and does
\* not give up half a file there.
LEMMA NamesUntouched ==
    ASSUME IInv, NEW r \in Runs, WritesAs(r), OnAnOutput(r)', Staged(r)', WritesOnce(r)',
           \A n \in Names : dir'[n] = dir[n],
           \A n \in Names : Claims(r, n)' => Claims(r, n),
           line[r].force \/ pc[r] # "write" \/ MadeBy(r) \in whole'
    PROVE FilesAreRight'
<1>1. \A s \in Runs \ {r} : OnAnOutput(s)' /\ Staged(s)' /\ WritesOnce(s)'
  BY OthersStay
<1>2. \A s \in Runs, n \in Names : Claims(s, n)' => Claims(s, n)
  BY OthersStay
<1>3. NamesLeadToTheirs' /\ ClaimsStand'
  BY <1>2 DEF IInv, NamesLeadToTheirs, ClaimsStand
<1>4. (Old \in whole)'
  BY DEF IInv, WritesAs
<1>5. HalvesAreHidden'
  <2> SUFFICES ASSUME NEW n \in Names, dir'[n] \notin whole' \cup {Nothing}
               PROVE \E s \in Runs : /\ dir'[n] = <<s, n>>
                                     /\ ~line'[s].force
                                     /\ pc'[s] \in {"write", "killed"} /\ Output(s)' = n
    BY DEF HalvesAreHidden
  <2>1. dir[n] \notin whole \cup {Nothing}
    BY DEF WritesAs
  <2>2. PICK s \in Runs : dir[n] = <<s, n>> /\ ~line[s].force /\ pc[s] \in {"write", "killed"} /\ Output(s) = n
    BY <2>1 DEF IInv, HalvesAreHidden
  <2>3. s # r
    BY <2>2 DEF WritesAs, Writing, MadeBy
  <2>4. pc'[s] = pc[s] /\ Output(s)' = Output(s) /\ line' = line
    BY <2>3 DEF WritesAs, Output
  <2> QED
    BY <2>2, <2>4
<1> QED
  BY <1>1, <1>3, <1>4, <1>5 DEF FilesAreRight

LEMMA CreateStep ==
    ASSUME IInv, NEW r \in Runs, Create(r), CommandTypeOK'
    PROVE FilesAreRight'
<1>0. CommandTypeOK /\ OnAnOutput(r) /\ Staged(r) /\ WritesOnce(r) /\ ClaimsStand
  BY DEF IInv
<1>1. WritesAs(r) /\ OnAnOutput(r)'
  BY WriteIsOneRuns, RunStaysOnOutputs DEF Writes
<1>2. /\ Output(r) \in Names /\ Hides(r) = <<r, Output(r)>> /\ MadeBy(r) = <<r, Output(r)>>
      /\ Hides(r) \in Hidden /\ Hides(r) \notin Names
  BY <1>0, <1>1, OutputsAreNames DEF WritesAs
<1>3. line' = line /\ at' = at /\ whole' = whole /\ pc[r] = "create"
  BY DEF Create, Goes
<1>4. Output(r)' = Output(r) /\ Hides(r)' = Hides(r) /\ MadeBy(r)' = MadeBy(r)
  BY <1>3 DEF Output, Hides, MadeBy
<1>5. CASE pc'[r] = "failed" /\ UNCHANGED dir
  <2>1. Staged(r)' /\ WritesOnce(r)'
    BY <1>5 DEF Staged, WritesOnce
  <2>2. \A n \in Names : Claims(r, n)' => Claims(r, n)
    BY <1>3, <1>5 DEF Claims
  <2> QED
    BY <1>1, <1>3, <1>5, <2>1, <2>2, NamesUntouched
<1>6. CASE pc'[r] = "write" /\ Creates(r) /\ dir' = [dir EXCEPT ![Target(r)] = MadeBy(r)] /\ line[r].force
  <2>1. dir'[Hides(r)] = MadeBy(r) /\ \A n \in Names : dir'[n] = dir[n]
    BY <1>0, <1>2, <1>6 DEF Target, CommandTypeOK, Paths
  <2>2. Staged(r)' /\ WritesOnce(r)'
    BY <1>3, <1>4, <1>6, <2>1 DEF Staged, WritesOnce
  <2>3. \A n \in Names : ~Claims(r, n)'
    BY <1>3, <1>6 DEF Claims
  <2> QED
    BY <1>1, <1>3, <2>1, <2>2, <2>3, NamesUntouched
<1>7. CASE pc'[r] = "write" /\ Creates(r) /\ dir' = [dir EXCEPT ![Target(r)] = MadeBy(r)] /\ ~line[r].force
  <2> DEFINE n == Output(r)
  <2>1. dir[n] = Nothing /\ dir'[n] = <<r, n>> /\ \A m \in Names \ {n} : dir'[m] = dir[m]
    BY <1>0, <1>2, <1>7 DEF Target, Creates, CommandTypeOK, Paths
  <2>2. \A s \in Runs : ~Claims(s, n)
    BY <1>0, <1>2, <2>1, FilesAssumption DEF ClaimsStand, Hidden
  <2>3. \A m \in Names : Claims(r, m)' => Claims(r, m) \/ m = n
    BY <1>3, <1>4 DEF Claims, Output
  <2>4. Staged(r)' /\ WritesOnce(r)'
    <3>1. Staged(r)'
      BY <1>3, <1>7 DEF Staged
    <3>2. ASSUME NEW i \in DOMAIN line[r].outputs, i < at[r] PROVE line[r].outputs[i] # n
      BY <1>2, <1>7, <2>2, <3>2 DEF Claims
    <3> QED
      BY <1>3, <1>4, <3>1, <3>2 DEF WritesOnce
  <2>5. \A s \in Runs \ {r} : OnAnOutput(s)' /\ Staged(s)' /\ WritesOnce(s)'
                              /\ \A m \in Names : Claims(s, m)' <=> Claims(s, m)
    BY <1>1, OthersStay
  <2>6. NamesLeadToTheirs'
    BY <2>1 DEF IInv, NamesLeadToTheirs
  <2>7. ClaimsStand'
    <3> SUFFICES ASSUME NEW m \in Names, NEW s \in Runs, NEW v \in Runs, Claims(s, m)'
                 PROVE dir'[m] \in Runs \X {m} /\ (Claims(v, m)' => s = v)
      BY DEF ClaimsStand
    <3>1. CASE m = n
      BY <2>1, <2>2, <2>5, <3>1
    <3>2. CASE m # n
      BY <1>0, <2>1, <2>3, <2>5, <3>2 DEF ClaimsStand
    <3> QED
      BY <3>1, <3>2
  <2>8. HalvesAreHidden'
    <3> SUFFICES ASSUME NEW m \in Names, dir'[m] \notin whole' \cup {Nothing}
                 PROVE \E s \in Runs : /\ dir'[m] = <<s, m>>
                                       /\ ~line'[s].force
                                       /\ pc'[s] \in {"write", "killed"} /\ Output(s)' = m
      BY DEF HalvesAreHidden
    <3>1. CASE m = n
      BY <1>3, <1>4, <1>7, <2>1, <3>1
    <3>2. CASE m # n
      <4>1. PICK s \in Runs : dir[m] = <<s, m>> /\ ~line[s].force /\ pc[s] \in {"write", "killed"} /\ Output(s) = m
        BY <1>3, <2>1, <3>2 DEF IInv, HalvesAreHidden
      <4>2. s # r
        BY <1>3, <4>1
      <4> QED
        BY <1>1, <1>3, <2>1, <3>2, <4>1, <4>2 DEF WritesAs, Output
    <3> QED
      BY <3>1, <3>2
  <2>9. (Old \in whole)'
    BY <1>3 DEF IInv
  <2> QED
    BY <1>1, <2>4, <2>5, <2>6, <2>7, <2>8, <2>9 DEF FilesAreRight
<1> QED
  BY <1>0, <1>5, <1>6, <1>7, LinesAreTyped DEF Create, Goes, CommandTypeOK

LEMMA WriteAllStep ==
    ASSUME IInv, NEW r \in Runs, WriteAll(r), CommandTypeOK'
    PROVE FilesAreRight'
<1>0. CommandTypeOK /\ OnAnOutput(r) /\ Staged(r) /\ WritesOnce(r) /\ ClaimsStand
  BY DEF IInv
<1>1. WritesAs(r) /\ OnAnOutput(r)'
  BY WriteIsOneRuns, RunStaysOnOutputs DEF Writes
<1>2. /\ Output(r) \in Names /\ Hides(r) = <<r, Output(r)>> /\ MadeBy(r) = <<r, Output(r)>>
      /\ Hides(r) \in Hidden /\ Hides(r) \notin Names
  BY <1>0, <1>1, OutputsAreNames DEF WritesAs
<1>3. /\ pc[r] = "write" /\ line' = line /\ dir' = dir /\ whole' = whole \cup {MadeBy(r)}
      /\ pc'[r] \in {"rename", "create", "done"}
  BY <1>0 DEF WriteAll, Reported, Goes, CommandTypeOK
<1>4. CASE line[r].force
  <2>1. at' = at /\ Staged(r)' /\ WritesOnce(r)'
    BY <1>0, <1>3, <1>4 DEF WriteAll, Staged, WritesOnce, Hides, MadeBy, Output
  <2>2. \A n \in Names : ~Claims(r, n)'
    BY <1>3, <1>4 DEF Claims
  <2> QED
    BY <1>1, <1>3, <1>4, <2>1, <2>2, NamesUntouched
<1>5. CASE ~line[r].force
  <2>1. /\ pc'[r] = IF IsLast(r) THEN "done" ELSE "create"
        /\ at'[r] = IF IsLast(r) THEN at[r] ELSE at[r] + 1
    BY <1>0, <1>5 DEF WriteAll, Reported, Goes, CommandTypeOK
  <2>2. Staged(r)' /\ WritesOnce(r)'
    BY <1>3, <1>5, <2>1 DEF Staged, WritesOnce
  <2>3. ASSUME NEW n \in Names, Claims(r, n)' PROVE Claims(r, n)
    <3>1. PICK i \in DOMAIN line[r].outputs :
             line[r].outputs[i] = n /\ (i < at'[r] \/ (i = at'[r] /\ pc'[r] \in {"write", "done"}))
      BY <1>3, <2>3 DEF Claims
    <3>2. i < at[r] \/ i = at[r]
      BY <1>0, <2>1, <3>1, LinesAreTyped DEF CommandTypeOK
    <3> QED
      BY <1>3, <1>5, <3>1, <3>2 DEF Claims
  <2> QED
    BY <1>1, <1>3, <2>2, <2>3, NamesUntouched
<1> QED
  BY <1>4, <1>5

\* One that fails with its file hidden takes nothing from under an output's name.
LEMMA HiddenTaken ==
    ASSUME IInv, NEW r \in Runs, Writes(r), CommandTypeOK', line[r].force,
           UNCHANGED <<whole, at>>, pc'[r] = "failed", dir' = [dir EXCEPT ![Hides(r)] = Nothing]
    PROVE FilesAreRight'
<1>0. CommandTypeOK /\ OnAnOutput(r) /\ Staged(r) /\ WritesOnce(r) /\ ClaimsStand
  BY DEF IInv
<1>1. WritesAs(r) /\ OnAnOutput(r)'
  BY WriteIsOneRuns, RunStaysOnOutputs
<1>2. /\ Output(r) \in Names /\ Hides(r) = <<r, Output(r)>> /\ MadeBy(r) = <<r, Output(r)>>
      /\ Hides(r) \in Hidden /\ Hides(r) \notin Names
  BY <1>0, <1>1, OutputsAreNames DEF WritesAs
<1>3. Staged(r)' /\ WritesOnce(r)'
  BY DEF Staged, WritesOnce
<1>4. \A n \in Names : ~Claims(r, n)'
  BY <1>1 DEF Claims, WritesAs
<1>5. \A n \in Names : dir'[n] = dir[n]
  BY <1>0, <1>2 DEF CommandTypeOK, Paths
<1> QED
  BY <1>1, <1>3, <1>4, <1>5, NamesUntouched

LEMMA WriteFailsStep ==
    ASSUME IInv, NEW r \in Runs, WriteFails(r), CommandTypeOK'
    PROVE FilesAreRight'
<1>0. CommandTypeOK /\ OnAnOutput(r) /\ Staged(r) /\ WritesOnce(r) /\ ClaimsStand
  BY DEF IInv
<1>1. WritesAs(r) /\ OnAnOutput(r)'
  BY WriteIsOneRuns, RunStaysOnOutputs DEF Writes
<1>2. /\ Output(r) \in Names /\ Hides(r) = <<r, Output(r)>> /\ MadeBy(r) = <<r, Output(r)>>
      /\ Hides(r) \in Hidden /\ Hides(r) \notin Names
  BY <1>0, <1>1, OutputsAreNames DEF WritesAs
<1>3. pc[r] = "write" /\ pc'[r] = "failed" /\ UNCHANGED <<line, whole, at>>
  BY <1>0 DEF WriteFails, Goes, CommandTypeOK
<1>4. CASE line[r].force
  BY <1>3, <1>4, HiddenTaken DEF WriteFails, WithoutHalf, Target, Writes
<1>5. CASE ~line[r].force
  <2> DEFINE n == Output(r)
  <2>1. dir'[n] = Nothing /\ \A m \in Names \ {n} : dir'[m] = dir[m]
    BY <1>0, <1>2, <1>5 DEF WriteFails, WithoutHalf, Target, CommandTypeOK, Paths
  <2>2. Claims(r, n)
    BY <1>0, <1>2, <1>3, <1>5 DEF Claims, OnAnOutput, Output, Writing
  <2>3. \A m \in Names : Claims(r, m)' => Claims(r, m) /\ m # n
    <3> SUFFICES ASSUME NEW m \in Names, Claims(r, m)' PROVE Claims(r, m) /\ m # n
      OBVIOUS
    <3>1. PICK i \in DOMAIN line[r].outputs : line[r].outputs[i] = m /\ i < at[r]
      BY <1>3 DEF Claims
    <3> QED
      BY <1>0, <1>3, <1>5, <3>1 DEF Claims, WritesOnce
  <2>4. Staged(r)' /\ WritesOnce(r)'
    BY <1>3 DEF Staged, WritesOnce
  <2>5. \A s \in Runs \ {r} : OnAnOutput(s)' /\ Staged(s)' /\ WritesOnce(s)'
                              /\ \A m \in Names : Claims(s, m)' <=> Claims(s, m)
    BY <1>1, OthersStay
  <2>6. NamesLeadToTheirs'
    BY <2>1 DEF IInv, NamesLeadToTheirs
  <2>7. ASSUME NEW m \in Names, NEW s \in Runs, Claims(s, m)' PROVE Claims(s, m) /\ m # n
    BY <1>0, <1>2, <2>2, <2>3, <2>5, <2>7 DEF ClaimsStand
  <2>8. ClaimsStand'
    BY <1>0, <2>1, <2>7 DEF ClaimsStand
  <2>9. HalvesAreHidden'
    <3> SUFFICES ASSUME NEW m \in Names, dir'[m] \notin whole' \cup {Nothing}
                 PROVE \E s \in Runs : /\ dir'[m] = <<s, m>>
                                       /\ ~line'[s].force
                                       /\ pc'[s] \in {"write", "killed"} /\ Output(s)' = m
      BY DEF HalvesAreHidden
    <3>1. m # n
      BY <2>1
    <3>2. PICK s \in Runs : dir[m] = <<s, m>> /\ ~line[s].force /\ pc[s] \in {"write", "killed"} /\ Output(s) = m
      BY <1>3, <2>1, <3>1 DEF IInv, HalvesAreHidden
    <3> QED
      BY <1>1, <1>3, <2>1, <3>1, <3>2 DEF WritesAs, Output
  <2> QED
    BY <1>1, <1>3, <2>4, <2>5, <2>6, <2>8, <2>9 DEF FilesAreRight, IInv
<1> QED
  BY <1>4, <1>5

LEMMA RenameStep ==
    ASSUME IInv, NEW r \in Runs, Rename(r), CommandTypeOK'
    PROVE FilesAreRight'
<1>0. CommandTypeOK /\ OnAnOutput(r) /\ Staged(r) /\ WritesOnce(r) /\ ClaimsStand
  BY DEF IInv
<1>1. WritesAs(r) /\ OnAnOutput(r)'
  BY WriteIsOneRuns, RunStaysOnOutputs DEF Writes
<1>2. /\ Output(r) \in Names /\ Hides(r) = <<r, Output(r)>> /\ MadeBy(r) = <<r, Output(r)>>
      /\ Hides(r) \in Hidden /\ Hides(r) \notin Names
  BY <1>0, <1>1, OutputsAreNames DEF WritesAs
<1>3. pc[r] = "rename" /\ pc'[r] \in {"done", "create"} /\ UNCHANGED <<line, whole>>
  BY <1>0 DEF Rename, Reported, Goes, CommandTypeOK
<1> DEFINE n == Output(r)
<1>4. line[r].force /\ dir[Hides(r)] = <<r, n>> /\ <<r, n>> \in whole
  BY <1>0, <1>2, <1>3 DEF Staged
<1>5. dir'[n] = <<r, n>> /\ \A m \in Names \ {n} : dir'[m] = dir[m]
  BY <1>0, <1>2, <1>4 DEF Rename, CommandTypeOK, Paths
<1>6. Staged(r)' /\ WritesOnce(r)' /\ \A m \in Names : ~Claims(r, m)'
  BY <1>3, <1>4 DEF Staged, WritesOnce, Claims
<1>7. \A s \in Runs \ {r} : OnAnOutput(s)' /\ Staged(s)' /\ WritesOnce(s)'
                            /\ \A m \in Names : Claims(s, m)' <=> Claims(s, m)
  BY <1>1, OthersStay
<1>8. NamesLeadToTheirs'
  BY <1>5 DEF IInv, NamesLeadToTheirs
<1>9. ClaimsStand'
  BY <1>0, <1>5, <1>6, <1>7 DEF ClaimsStand
<1>10. HalvesAreHidden'
  <2> SUFFICES ASSUME NEW m \in Names, dir'[m] \notin whole' \cup {Nothing}
               PROVE \E s \in Runs : /\ dir'[m] = <<s, m>>
                                     /\ ~line'[s].force
                                     /\ pc'[s] \in {"write", "killed"} /\ Output(s)' = m
    BY DEF HalvesAreHidden
  <2>1. m # n
    BY <1>3, <1>4, <1>5
  <2>2. PICK s \in Runs : dir[m] = <<s, m>> /\ ~line[s].force /\ pc[s] \in {"write", "killed"} /\ Output(s) = m
    BY <1>3, <1>5, <2>1 DEF IInv, HalvesAreHidden
  <2> QED
    BY <1>1, <1>3, <1>5, <2>1, <2>2 DEF WritesAs, Output
<1> QED
  BY <1>1, <1>3, <1>6, <1>7, <1>8, <1>9, <1>10 DEF FilesAreRight, IInv

LEMMA RenameFailsStep ==
    ASSUME IInv, NEW r \in Runs, RenameFails(r), CommandTypeOK'
    PROVE FilesAreRight'
<1>1. CommandTypeOK /\ Staged(r)
  BY DEF IInv
<1>2. pc[r] = "rename" /\ pc'[r] = "failed" /\ UNCHANGED <<whole, at>>
  BY <1>1 DEF RenameFails, Goes, CommandTypeOK
<1> QED
  BY <1>1, <1>2, HiddenTaken DEF RenameFails, Staged, Writes

-----------------------------------------------------------------------------
LEMMA NextIInv == IInv /\ [CommandNext]_commandVars => IInv'
<1> SUFFICES ASSUME IInv, [CommandNext]_commandVars PROVE IInv'
  OBVIOUS
<1>0. CommandTypeOK /\ CommandTypeOK' /\ (\A r \in Runs : HoldsAFile(r)) /\ BesideIsAFile
  BY TypeStep DEF IInv
<1> DEFINE ReadsFiles == (\A r \in Runs : HoldsAFile(r)) /\ BesideIsAFile
<1>1. ASSUME NEW r \in Runs, Reads(r) PROVE FilesAreRight' /\ ReadsFiles'
  <2>1. UNCHANGED outVars
    BY <1>1 DEF Reads, OpenBeside, JudgeBeside, ReadBeside, Make
  <2>2. \A s \in Runs \ {r} : pc'[s] = pc[s] /\ handle'[s] = handle[s] /\ taken'[s] = taken[s]
    BY ZenonT(30), <1>0, <1>1 DEF Reads, OpenBeside, JudgeBeside, ReadBeside, Make, Goes, CommandTypeOK, besideVars
  <2>3. ASSUME OpenBeside(r) PROVE (\A s \in Runs : GoesQuietly(s)) /\ ReadsFiles'
    <3>1. pc[r] = "look" /\ pc'[r] \in {"make", "failed", "judge"} /\ taken' = taken
      BY <1>0, <2>3 DEF OpenBeside, Goes, Refused, CommandTypeOK
    <3> QED
      BY <1>0, <2>2, <3>1 DEF GoesQuietly, Early, HoldsAFile, BesideIsAFile
  <2>4. ASSUME JudgeBeside(r) PROVE (\A s \in Runs : GoesQuietly(s)) /\ ReadsFiles'
    <3>1. pc[r] = "judge" /\ pc'[r] = (IF Judged(r) THEN "read" ELSE Refused(r))
          /\ handle' = handle /\ taken' = taken
      BY <1>0, <2>4 DEF JudgeBeside, Goes, CommandTypeOK, besideVars
    <3>2. pc'[r] \in {"read", "make", "failed"} /\ (pc'[r] = "read" => handle[r] = "file")
      BY <3>1 DEF Judged, Refused
    <3> QED
      BY <1>0, <2>2, <3>1, <3>2 DEF GoesQuietly, Early, HoldsAFile, BesideIsAFile
  <2>5. ASSUME ReadBeside(r) PROVE (\A s \in Runs : GoesQuietly(s)) /\ ReadsFiles'
    <3>1. pc[r] = "read" /\ pc'[r] \in {"make", "failed"} /\ taken'[r] \in {taken[r], "file"}
      BY <1>0, <2>5 DEF ReadBeside, Goes, Refused, CommandTypeOK, HoldsAFile
    <3> QED
      BY <1>0, <2>2, <3>1 DEF GoesQuietly, Early, HoldsAFile, BesideIsAFile
  <2>6. ASSUME Make(r) PROVE (\A s \in Runs : GoesQuietly(s)) /\ ReadsFiles'
    <3>1. /\ pc[r] = "make" /\ taken' = taken
          /\ pc'[r] = "failed" \/ pc'[r] = IF line[r].outputs = << >> THEN "done" ELSE "create"
      BY <1>0, <2>6 DEF Make, Goes, CommandTypeOK, besideVars
    <3> QED
      BY <1>0, <2>2, <3>1 DEF GoesQuietly, Early, HoldsAFile, BesideIsAFile
  <2>7. (\A s \in Runs : GoesQuietly(s)) /\ ReadsFiles'
    BY <1>1, <2>3, <2>4, <2>5, <2>6 DEF Reads
  <2> QED
    BY <2>1, <2>7, QuietStep
<1>2. ASSUME NEW r \in Runs, Writes(r) PROVE FilesAreRight' /\ ReadsFiles'
  <2>1. FilesAreRight'
    BY <1>0, <1>2, CreateStep, WriteAllStep, WriteFailsStep, RenameStep, RenameFailsStep DEF Writes
  <2>2. pc'[r] # "read"
    BY <1>0, <1>2 DEF Writes, Create, WriteAll, WriteFails, Rename, RenameFails, Reported, Goes, CommandTypeOK
  <2>3. ReadsFiles'
    BY <1>0, <1>2, <2>2, WriteIsOneRuns DEF WritesAs, HoldsAFile, BesideIsAFile, besideVars
  <2> QED
    BY <2>1, <2>3
<1>3. ASSUME NEW r \in Runs, Kill(r) PROVE FilesAreRight' /\ ReadsFiles'
  <2>1. UNCHANGED outVars /\ \A s \in Runs : GoesQuietly(s)
    BY <1>0, <1>3 DEF Kill, GoesQuietly, CommandTypeOK
  <2>2. ReadsFiles'
    BY <1>0, <1>3 DEF Kill, HoldsAFile, BesideIsAFile, besideVars, CommandTypeOK
  <2> QED
    BY <2>1, <2>2, QuietStep
<1>4. ASSUME NEW r \in Runs, Grow(r) PROVE FilesAreRight' /\ ReadsFiles'
  <2>1. UNCHANGED outVars /\ \A s \in Runs : GoesQuietly(s)
    BY <1>4 DEF Grow, GoesQuietly
  <2>2. ReadsFiles'
    BY <1>0, <1>4 DEF Grow, HoldsAFile, BesideIsAFile, CommandTypeOK
  <2> QED
    BY <2>1, <2>2, QuietStep
<1>5. ASSUME Swap \/ UNCHANGED commandVars PROVE FilesAreRight' /\ ReadsFiles'
  <2>1. UNCHANGED <<outVars, pc, handle, taken>>
    BY <1>5 DEF Swap, commandVars, outVars
  <2>2. ReadsFiles'
    BY <1>0, <2>1 DEF HoldsAFile, BesideIsAFile
  <2> QED
    BY <2>1, <2>2, QuietStep DEF GoesQuietly
<1>6. FilesAreRight' /\ ReadsFiles'
  BY <1>1, <1>2, <1>3, <1>4, <1>5 DEF CommandNext, Works
<1> QED
  BY <1>0, <1>6 DEF IInv, FilesAreRight

LEMMA Invariant == CommandSpec => []IInv
<1> QED
  BY InitIInv, NextIInv, PTL DEF CommandSpec

\* Every variable keeps its type, for any runs and any command lines: a run
\* that writes is always on an output it was told of.
THEOREM CommandTypeCorrect == CommandSpec => []CommandTypeOK
<1>1. IInv => CommandTypeOK
  BY DEF IInv
<1> QED
  BY <1>1, Invariant, PTL

\* However many runs write into one directory, whichever of them fail or are
\* killed: of those without --force one at most has a name, and half a file
\* is seen there only while that run is at it, or where it was killed.
THEOREM OutputsStaySound == CommandSpec => []OutputsAreSound
<1>1. IInv => OutputsAreSound
  <2>1. IInv => \A n \in Names : dir[n] \in Runs \X {n} => dir[n] # Nothing
    BY FilesAssumption DEF Hidden
  <2> QED
    BY <2>1 DEF IInv, OutputsAreSound, OneRunHasTheName, ClaimsStand
<1> QED
  BY <1>1, Invariant, PTL

\* What is read beside an input is a file's, however its name is swapped.
THEOREM OnlyFilesAreRead == CommandSpec => []BesideIsAFile
<1>1. IInv => BesideIsAFile
  BY DEF IInv
<1> QED
  BY <1>1, Invariant, PTL

\* A file that was there is replaced by a whole one, by a run told to.
THEOREM WhatIsFoundIsKept == CommandSpec => FoundIsKept
<1> DEFINE Kept == \A n \in Names : dir[n] = Old /\ dir'[n] # Old =>
                      \E r \in Runs : line[r].force /\ dir'[n] = <<r, n>> /\ <<r, n>> \in whole
<1>1. IInv /\ [CommandNext]_commandVars => [Kept]_commandVars
  <2> SUFFICES ASSUME IInv, CommandNext, NEW n \in Names, dir[n] = Old, dir'[n] # Old
               PROVE \E r \in Runs : line[r].force /\ dir'[n] = <<r, n>> /\ <<r, n>> \in whole
    OBVIOUS
  <2>1. PICK r \in Runs : Writes(r)
    BY DEF CommandNext, Works, Reads, OpenBeside, JudgeBeside, ReadBeside, Make, Kill, Grow, Swap, outVars
  <2>2. CommandTypeOK /\ OnAnOutput(r) /\ Staged(r) /\ WritesAs(r) /\ ClaimsStand
    BY <2>1, WriteIsOneRuns DEF IInv
  <2>3. /\ Output(r) \in Names /\ Hides(r) = <<r, Output(r)>> /\ MadeBy(r) = <<r, Output(r)>>
        /\ Hides(r) \in Hidden /\ Hides(r) \notin Names
    BY <2>2, OutputsAreNames DEF WritesAs
  <2>4. n = Output(r)
    BY <2>2, <2>3 DEF WritesAs, Paths
  <2>5. ~Create(r)
    BY <2>2, <2>3, <2>4, FilesAssumption DEF Create, Creates, Target, CommandTypeOK, Paths
  <2>6. ~WriteFails(r)
    <3> SUFFICES ASSUME WriteFails(r) PROVE FALSE
      OBVIOUS
    <3>1. ~line[r].force
      BY <2>2, <2>3, <2>4 DEF WriteFails, WithoutHalf, Target, CommandTypeOK, Paths
    <3>2. Claims(r, n)
      BY <2>2, <2>4, <3>1 DEF WriteFails, Goes, Claims, OnAnOutput, Output, Writing
    <3> QED
      BY <2>2, <3>2, FilesAssumption DEF ClaimsStand, Hidden
  <2>7. Rename(r)
    BY <2>1, <2>2, <2>3, <2>4, <2>5, <2>6 DEF Writes, WriteAll, RenameFails, CommandTypeOK, Paths
  <2>8. line[r].force /\ dir[Hides(r)] = <<r, n>> /\ <<r, n>> \in whole
    BY <2>2, <2>3, <2>4, <2>7 DEF Rename, Reported, Goes, Staged
  <2> QED
    BY <2>2, <2>3, <2>4, <2>7, <2>8 DEF Rename, CommandTypeOK, Paths
<1> QED
  BY <1>1, Invariant, PTL DEF CommandSpec, FoundIsKept
==============================================================================
