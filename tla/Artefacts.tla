------------------------------ MODULE Artefacts ------------------------------
(***************************************************************************)
(* The generators of committed files: scripts/gen_regmap.py,               *)
(* scripts/generate_coefficients.py and the three generators of            *)
(* model/python.  Each computes its files from the sources, and then       *)
(* either writes those that differ or, with --check, says whether any      *)
(* does.  Runs may overlap, the tree may be edited meanwhile, and a run    *)
(* may be killed in the middle of a write.                                 *)
(***************************************************************************)
EXTENDS Naturals, FiniteSets, Sequences, SequencesExt

CONSTANTS
  Procs,      \* the runs that may be under way at once
  MaxVersion, \* bound on the edits of the sources
  MaxMishaps  \* bound on hand edits and kills

VARIABLES
  kind,    \* the generator considered
  edition,  \* the version of its sources
  disk,    \* disk[f]: what the file holds
  proc,    \* proc[p]: the run: its place, its mode and its locals
  mishaps  \* ghost: hand edits and kills so far

artVars == <<kind, edition, disk, proc, mishaps>>

\* In the order written.  A file of gen_regmap's last name is written and not checked.
Kinds == {"regmap", "twiddle", "fft_vectors", "fxp_vectors", "coefficients"}
Files(k) == CASE k = "regmap"      -> <<"regmap_pkg.sv", "regmap.hpp", "register_map.md", "regmap.json">>
              [] k = "twiddle"     -> <<"fft_twiddle_pkg.sv", "fft_twiddle_table.hpp">>
              [] k = "fft_vectors" -> <<"fft64.vec">>
              [] k = "fxp_vectors" -> <<"fxp_ops.vec", "fxp_accum.vec", "cmult.vec">>
              [] OTHER             -> <<"pfb.coeff", "pfb.vec">>
Committed(k) == Range(Files(k)) \ {"regmap.json"}
Worked(k, check) == IF check /\ k = "regmap" THEN Front(Files(k)) ELSE Files(k)

\* What a file holds: nothing, a part, a hand's work, or what a version generates.
Gone == 0
Text == {"missing", "torn", "edited", "generated"}
Generated(v) == [text |-> "generated", of |-> v]
Other(t)     == [text |-> t, of |-> Gone]

\* A version some generators refuse: gen_regmap a source that breaks a rule (exit 2),
\* gen_fft_vectors a transform that is not near the float one (exit 1).
Refused(k, v) == k \in {"regmap", "fft_vectors"} /\ v = MaxVersion

Idle == [at |-> "idle", check |-> FALSE, content |-> Gone, todo |-> << >>,
         flagged |-> FALSE, exit |-> 0, alone |-> TRUE]

ArtInit ==
  /\ kind \in Kinds /\ edition = 1 /\ mishaps = 0
  /\ disk = [f \in Range(Files(kind)) |-> Other("missing")]
  /\ proc = [p \in Procs |-> Idle]

\* Any change of the tree disturbs the runs that are under way.
Later(q)     == IF proc[q].at = "ended" THEN Idle ELSE [proc[q] EXCEPT !.alone = FALSE]
Disturbed(p) == [q \in Procs |-> IF q = p THEN proc[q] ELSE Later(q)]

(***************************************************************************)
(* What write_if_needed and write_text return, which is not the same in    *)
(* every generator, and what its caller makes of it.                       *)
(***************************************************************************)
documented_returns(k, same, check) ==
  CASE k \in {"twiddle", "fft_vectors", "fxp_vectors"} -> same
    [] k = "coefficients" -> ~same
    [] OTHER              -> IF check THEN same ELSE ~same
Returns(k, same, check) ==
  CASE k \in {"twiddle", "fft_vectors"} -> same
    [] k = "fxp_vectors"  -> same \/ ~check
    [] k = "coefficients" -> ~same
    [] OTHER              -> IF check THEN same ELSE ~same
Flags(k, returned, check) ==
  CASE k \in {"twiddle", "fft_vectors", "fxp_vectors"} -> ~returned
    [] k = "coefficients" -> returned
    [] OTHER              -> check /\ ~returned

Exit(k, check, flagged) ==
  IF flagged /\ (check \/ k = "fxp_vectors") THEN 1 ELSE 0

\* main(): the sources are read and everything is generated before the first file.
Start(p, check) ==
  /\ proc[p].at \in {"idle", "ended"}
  /\ proc' = [q \in Procs |->
       IF q = p
       THEN [at |-> IF Refused(kind, edition) THEN "ended" ELSE "files", check |-> check,
             content |-> edition, todo |-> Worked(kind, check), flagged |-> FALSE,
             exit |-> IF ~Refused(kind, edition) THEN 0 ELSE IF kind = "regmap" THEN 2 ELSE 1,
             alone |-> \A r \in Procs \ {p} : proc[r].at \in {"idle", "ended"}]
       ELSE Later(q)]
  /\ UNCHANGED <<kind, edition, disk, mishaps>>

Step(p, rest, flag) ==
  [proc[p] EXCEPT !.todo = rest, !.flagged = @ \/ flag,
                  !.at = IF rest = << >> THEN "last" ELSE "files"]

\* The file is as generated, or --check finds that it is not.
Compare(p) ==
  /\ proc[p].at = "files"
  /\ LET f == Head(proc[p].todo)  same == disk[f] = Generated(proc[p].content)
     IN  /\ same \/ proc[p].check
         /\ proc' = [proc EXCEPT ![p] =
              Step(p, Tail(@.todo), Flags(kind, Returns(kind, same, @.check), @.check))]
  /\ UNCHANGED <<kind, edition, disk, mishaps>>

\* It differs and is written: opened, which empties it, and closed.
Open(p) ==
  /\ proc[p].at = "files" /\ ~proc[p].check
  /\ disk[Head(proc[p].todo)] # Generated(proc[p].content)
  /\ disk' = [disk EXCEPT ![Head(proc[p].todo)] = Other("torn")]
  /\ proc' = [Disturbed(p) EXCEPT ![p].at = "writing"]
  /\ UNCHANGED <<kind, edition, mishaps>>
Close(p) ==
  /\ proc[p].at = "writing"
  /\ disk' = [disk EXCEPT ![Head(proc[p].todo)] = Generated(proc[p].content)]
  /\ proc' = [Disturbed(p) EXCEPT ![p] =
       Step(p, Tail(proc[p].todo), Flags(kind, Returns(kind, FALSE, FALSE), FALSE))]
  /\ UNCHANGED <<kind, edition, mishaps>>

End(p) ==
  /\ proc[p].at = "last"
  /\ proc' = [proc EXCEPT ![p] = [Idle EXCEPT !.at = "ended", !.check = proc[p].check,
                !.alone = proc[p].alone, !.exit = Exit(kind, proc[p].check, proc[p].flagged)]]
  /\ UNCHANGED <<kind, edition, disk, mishaps>>

\* Others: an edit of the sources, an edit of a file by hand, a kill.
EditSource ==
  /\ edition < MaxVersion /\ edition' = edition + 1
  /\ proc' = [q \in Procs |-> Later(q)]
  /\ UNCHANGED <<kind, disk, mishaps>>
EditFile ==
  /\ mishaps < MaxMishaps /\ mishaps' = mishaps + 1
  /\ \E f \in DOMAIN disk, t \in {"missing", "edited"} : disk' = [disk EXCEPT ![f] = Other(t)]
  /\ proc' = [q \in Procs |-> Later(q)]
  /\ UNCHANGED <<kind, edition>>
KillRun(p) ==
  /\ proc[p].at \notin {"idle", "ended"} /\ mishaps < MaxMishaps
  /\ mishaps' = mishaps + 1 /\ proc' = [proc EXCEPT ![p] = Idle]
  /\ UNCHANGED <<kind, edition, disk>>

RunStep(p) == Compare(p) \/ Open(p) \/ Close(p) \/ End(p)
ArtStep == \E p \in Procs : RunStep(p)
ArtNext ==
  \/ \E p \in Procs, check \in BOOLEAN : Start(p, check)
  \/ ArtStep
  \/ EditSource \/ EditFile
  \/ \E p \in Procs : KillRun(p)
-----------------------------------------------------------------------------
ArtTypeOK ==
  /\ edition \in 1 .. MaxVersion
  /\ \A f \in DOMAIN disk : disk[f].text \in Text /\ disk[f].of \in Gone .. MaxVersion
  /\ \A p \in Procs : proc[p].at \in {"idle", "files", "writing", "last", "ended"}

Current == \A f \in Committed(kind) : disk[f] = Generated(edition)

(***************************************************************************)
(* Of a run nobody disturbed, the exit status is the truth: a --check that *)
(* ends with 0 found every committed file as the sources generate it, one  *)
(* that does not found one that is not, or sources that are refused; a run *)
(* that writes ends with 0 and leaves them all so, whatever was edited or  *)
(* a run that was killed had left behind.                                  *)
(***************************************************************************)
VerdictIsTrue ==
  \A p \in Procs : proc[p].at = "ended" /\ proc[p].alone =>
    IF Refused(kind, edition) THEN proc[p].exit # 0
    ELSE (proc[p].exit = 0 <=> Current) /\ (~proc[p].check => Current)
==============================================================================
