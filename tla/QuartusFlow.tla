----------------------------- MODULE QuartusFlow -----------------------------
(***************************************************************************)
(* The scripts around one Quartus project: the recipe, the sweep that      *)
(* drives it, the baseline made from its record, and the developer, who    *)
(* compiles by hand, commits and builds simulations meanwhile.             *)
(***************************************************************************)
EXTENDS SeedSweep, BaselineEvidence

CONSTANTS
  Requests,     \* the sweeps asked for: a seed list and a configuration
  MaxLaunches,  \* of scripts and compiles by hand
  MaxEvents,    \* of whatever else happens to them
  Cost          \* what each of these counts against its bound

Kinds == {"sweep", "fill", "hand", "between", "other_target", "commit", "build", "clean",
          "kill_sweep", "kill"}

ASSUME BoundsAssumption == MaxLaunches \in Nat /\ MaxEvents \in Nat /\ Cost \in [Kinds -> Nat]
ASSUME RequestsAssumption == \A r \in Requests : ParseSeeds(r.chunks) \in Seq(Seeds)

VARIABLES
  launches, events,  \* bounds
  calm    \* no compile had its sources, its target or its record changed under it

flowVars == <<makeVars, sweepVars, baseVars, launches, events, calm>>

Init ==
  /\ MakeInit /\ SweepInit /\ BaseInit
  /\ launches = 0 /\ events = 0 /\ calm = TRUE

Busy == make # Idle \/ sweeper.at # "gone"

\* Bounds.  Besides, one behaviour has sweeps or baseline runs, not both: what a
\* sweep leaves for a baseline compiles by hand leave too.
Launched(kind) == launches + Cost[kind] <= MaxLaunches /\ launches' = launches + Cost[kind]
Happened(kind) == events + Cost[kind] <= MaxEvents /\ events' = events + Cost[kind]

StartSweep ==
  /\ filled = "never" /\ Launched("sweep")
  /\ \E r \in Requests, resume \in BOOLEAN, target \in Targets :
       /\ Launch(r.chunks, resume, r.config, target)
       /\ calm' = (calm /\ target = "quartus-compile")
       /\ IF target = "quartus-compile" THEN UNCHANGED events ELSE Happened("other_target")
  /\ UNCHANGED <<makeVars, baseVars>>

StartFill ==
  /\ exit = "never" /\ Launched("fill")
  /\ \E force \in BOOLEAN : Populate(force)
  /\ UNCHANGED <<sweepVars, events, calm>>

ByHand ==
  /\ ~Busy /\ Started(DefaultSeed, "quartus-compile")
  /\ IF exit = "never" THEN Launched("hand") /\ UNCHANGED events
     ELSE Happened("between") /\ UNCHANGED launches
  /\ UNCHANGED <<head, pkg, out, latest, sweepVars, baseVars, calm>>

HandDone ==
  /\ sweeper.at = "gone" /\ make.at = "done" /\ make' = Idle
  /\ UNCHANGED <<head, pkg, out, latest, built, sweepVars, baseVars, launches, events, calm>>

Developer ==
  /\ \/ Happened("commit") /\ Commit
     \/ Happened("build") /\ OtherBuild
     \/ Happened("clean") /\ Clean
  /\ calm' = (calm /\ ~Busy)
  /\ UNCHANGED <<sweepVars, baseVars, launches>>

Recipe == MakeStep /\ UNCHANGED <<sweepVars, baseVars, launches, events, calm>>
Script == SweepStep /\ UNCHANGED <<baseVars, launches, events, calm>>
Fill   == FillStep /\ UNCHANGED <<sweepVars, launches, events, calm>>

Interrupt ==
  /\ \/ Happened("kill_sweep") /\ Kill /\ UNCHANGED baseVars
     \/ /\ Happened("kill") /\ sweeper.at = "gone" /\ make # Idle
        /\ KillMake /\ UNCHANGED <<sweepVars, baseVars>>
     \/ Happened("kill") /\ KillFiller /\ UNCHANGED sweepVars
  /\ UNCHANGED <<launches, calm>>

Next == StartSweep \/ StartFill \/ ByHand \/ HandDone \/ Developer
        \/ Recipe \/ Script \/ Fill \/ Interrupt

\* A running process runs on; nobody has to start one.
Spec == /\ Init /\ [][Next]_flowVars
        /\ WF_flowVars(Recipe) /\ WF_flowVars(Script)
        /\ WF_flowVars(Fill) /\ WF_flowVars(HandDone)

-----------------------------------------------------------------------------
TypeOK == MakeTypeOK /\ SweepTypeOK /\ BaseTypeOK
          /\ launches \in 0 .. MaxLaunches /\ events \in 0 .. MaxEvents
          /\ calm \in BOOLEAN

Whole == sweep \notin {NoFile, Torn}
Kept  == {sweep.records[i] : i \in DOMAIN sweep.records}

\* As long as nobody touches the tree or the generated package under a compile,
\* the records of a sweep, the resumed ones included, are each of their own seed,
\* clean, labelled with what they measured, and of the one commit that the sweep
\* names (seed_sweep.py: "reproducible from a commit + seed pair").  Status 0
\* says that sweep.json has each seed asked for, once and in the order asked.
SweepIsReproducible ==
  /\ TypeOK
  /\ Whole /\ calm => \A r \in Kept :
       r.rec.seed = r.seed /\ r.rec.verdict = "clean" /\ Labelled(r.rec)
       /\ r.rec.commit = sweep.commit
  /\ exit = "done" =>
       Whole /\ [i \in DOMAIN sweep.records |-> sweep.records[i].seed] = sweep.requested

\* What a run that ends with status 0 has made of the baseline, whatever compiled,
\* failed, was killed or was cleaned away around it, and whatever run before it
\* was interrupted.  What was there without --force is as it was.  Of the rest, the
\* files made from the loaded record are all of its compile; no file is of an
\* earlier compile, except one that was left because its source was missing or
\* its generator failed; and if output_files/ has not been begun anew since the
\* compile of the record, all of them are of that compile, the constraints report
\* excepted when it could not be made.
Renewed(f) == filler.force \/ before[f] = NoFile
Sound(f) ==
  LET compile == filler.rec.of
  IN  IF ~Renewed(f) THEN base[f] = before[f]
      ELSE /\ base[f] \in {before[f], Torn} \/ base[f].nr >= compile.nr
           /\ f \in ByValue \/ (compile.nr = built /\ f # "constraints_report") =>
                base[f] = compile
           /\ compile.nr = built => base[f] \in {compile, before[f], Torn}
EvidenceIsOneCompile == filled = "done" => \A f \in EvidenceFiles : Sound(f)

\* A resumed sweep never compiles again what it already has of its commit, however
\* the sweep before it ended; without --force no file of the baseline changes again.
WorkIsKept ==
  /\ [][\A s \in Seeds :
          sweeper.at # "gone" /\ sweeper.resume /\ files[s] \in Records /\ MatchesHead(files[s])
          /\ ~(sweeper.at = "validate" /\ Seed = s)
            => files'[s] = files[s]]_flowVars
  /\ [][\A f \in EvidenceFiles : base[f] # NoFile /\ base'[f] # base[f] => filler.force]_flowVars

\* Whatever fails, is torn or raises, a script that was started ends.
ScriptsEnd ==
  /\ (exit = "running") ~> (exit # "running")
  /\ (filled = "running") ~> (filled # "running")

\* The sweep is of the configuration it was asked for.
SweepIsOfItsConfig ==
  Whole => \A r \in Kept : r.rec.config = sweep.config
==============================================================================
