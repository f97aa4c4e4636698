------------------------------ MODULE SeedSweep ------------------------------
(***************************************************************************)
(* scripts/seed_sweep.py: one compile of the same configuration per seed,  *)
(* the record of each copied to seed_<n>.json and all of them aggregated   *)
(* in sweep.json.  A sweep may be killed at any point and resumed, and the *)
(* records of an earlier sweep are taken over by `--resume`.               *)
(***************************************************************************)
EXTENDS QuartusMake, SequencesExt

VARIABLES
  sweeper,  \* the running script: its arguments and its locals
  files,    \* files[s]: seed_<s>.json
  sweep,    \* sweep.json
  exit      \* of the last run: its status, or "running", "killed", "never"

sweepVars == <<sweeper, files, sweep, exit>>

\* '1', '1,2,3', '1-10' or a mix: ranges in the order given, either way round,
\* each seed once.
Range1(chunk) == LET lo == IF chunk[1] <= chunk[2] THEN chunk[1] ELSE chunk[2]
                     hi == IF chunk[1] <= chunk[2] THEN chunk[2] ELSE chunk[1]
                 IN  [i \in 1 .. hi - lo + 1 |-> lo + i - 1]
ParseSeeds(chunks) ==
  LET all   == FlattenSeq([i \in DOMAIN chunks |-> Range1(chunks[i])])
      first == {i \in DOMAIN all : \A j \in 1 .. i - 1 : all[j] # all[i]}
  IN  [n \in 1 .. Cardinality(first) |->
         all[CHOOSE i \in first : Cardinality({j \in first : j < i}) = n - 1]]

Gone == [at |-> "gone", resume |-> FALSE, config |-> QuartusConfig, target |-> "none",
         commit |-> NoFile, seeds |-> << >>, todo |-> << >>, records |-> << >>]

SweepTypeOK ==
  /\ sweeper.at \in {"gone", "loop", "make", "capture", "validate"}
  /\ Range(sweeper.seeds) \subseteq Seeds /\ IsSuffix(sweeper.todo, sweeper.seeds)
  /\ \A i \in DOMAIN sweeper.records :
       sweeper.records[i].seed \in Seeds /\ sweeper.records[i].rec \in Records
  /\ files \in [Seeds -> Records \cup {NoFile, Torn}]
  /\ exit \in {"never", "running", "killed", "failed", "done"}

SweepInit ==
  /\ sweeper = Gone /\ exit = "never"
  /\ files = [s \in Seeds |-> NoFile] /\ sweep = NoFile

\* main() up to the loop.  --force only excludes --resume.
Launch(chunks, resume, config, target) ==
  /\ sweeper.at = "gone" /\ make = Idle
  /\ sweeper' = [at |-> "loop", resume |-> resume, config |-> config, target |-> target,
                 commit |-> head, seeds |-> ParseSeeds(chunks), todo |-> ParseSeeds(chunks),
                 records |-> << >>]
  /\ exit' = "running"
  /\ UNCHANGED <<files, sweep>>

Seed         == Head(sweeper.todo)
never_there  == FALSE
any_commit(rec) == TRUE
Present      == sweeper.resume /\ files[Seed] # NoFile
NextSeed     == [sweeper EXCEPT !.at = "loop", !.todo = Tail(@)]
Keeping(rec) == [NextSeed EXCEPT !.records = Append(@, [seed |-> Seed, rec |-> rec])]
Complete     == Len(sweeper.records) = Len(sweeper.seeds)
InLoop       == sweeper.at = "loop" /\ sweeper.todo # << >>

MatchesHead(rec) == rec.commit = sweeper.commit

\* A record of the commit the sweep started at is taken over as it is.
Reuse ==
  /\ InLoop /\ Present /\ files[Seed] # Torn /\ MatchesHead(files[Seed])
  /\ sweeper' = Keeping(files[Seed])
  /\ UNCHANGED <<files, sweep, exit, makeVars>>

tries_again == InLoop /\ Present /\ files[Seed] = Torn /\ UNCHANGED <<sweepVars, makeVars>>

\* json.load raises on a torn file and nothing catches it.
ResumeRaises ==
  /\ InLoop /\ Present /\ files[Seed] = Torn
  /\ sweeper' = Gone /\ exit' = "failed"
  /\ UNCHANGED <<files, sweep, makeVars>>

\* _run_one: the configuration goes out as PIPE_CONFIG, which no Quartus target reads.
RunOne ==
  /\ InLoop
  /\ Present => files[Seed] # Torn /\ ~MatchesHead(files[Seed])
  /\ sweeper' = [sweeper EXCEPT !.at = "make"]
  /\ Started(Seed, sweeper.target)
  /\ UNCHANGED <<files, sweep, exit, head, pkg, out, latest>>

\* A failed compile loses its seed, not the sweep.
MakeReturns ==
  /\ sweeper.at = "make" /\ make.at = "done" /\ make' = Idle
  /\ sweeper' = IF make.rc = 0 THEN [sweeper EXCEPT !.at = "capture"] ELSE NextSeed
  /\ UNCHANGED <<files, sweep, exit, head, pkg, out, latest, built>>

\* _capture_record: whatever latest.json is now.
Capture ==
  /\ sweeper.at = "capture"
  /\ IF latest = NoFile
     THEN sweeper' = NextSeed /\ UNCHANGED files
     ELSE /\ files' = [files EXCEPT ![Seed] = latest]
          /\ sweeper' = [sweeper EXCEPT !.at = "validate"]
  /\ UNCHANGED <<sweep, exit, makeVars>>

\* _validate_record: a rejected record, or a torn one, is left where it is.
Validate ==
  /\ sweeper.at = "validate"
  /\ sweeper' = IF files[Seed] # Torn /\ files[Seed].verdict = "clean"
                THEN Keeping(files[Seed]) ELSE NextSeed
  /\ UNCHANGED <<files, sweep, exit, makeVars>>

\* The end of main(): sweep.json if anything was captured, and the status.
Aggregate ==
  /\ sweeper.at = "loop" /\ sweeper.todo = << >>
  /\ IF sweeper.records = << >>
     THEN exit' = "failed" /\ UNCHANGED sweep
     ELSE /\ sweep' = [records |-> sweeper.records, commit |-> sweeper.commit,
                       config |-> sweeper.config, requested |-> sweeper.seeds]
          /\ exit' = IF Complete THEN "done" ELSE "failed"
  /\ sweeper' = Gone
  /\ UNCHANGED <<files, makeVars>>

\* The script and the recipe it waits for are killed; a copy under way is torn.
Kill ==
  /\ sweeper.at # "gone" /\ sweeper' = Gone /\ exit' = "killed"
  /\ KillMake
  /\ \/ /\ sweeper.at = "capture" /\ latest # NoFile
        /\ files' = [files EXCEPT ![Seed] = Torn] /\ UNCHANGED sweep
     \/ /\ sweeper.at = "loop" /\ sweeper.todo = << >> /\ sweeper.records # << >>
        /\ sweep' = Torn /\ UNCHANGED files
     \/ UNCHANGED <<files, sweep>>

SweepStep ==
  Reuse \/ ResumeRaises \/ RunOne \/ MakeReturns \/ Capture \/ Validate \/ Aggregate
==============================================================================
