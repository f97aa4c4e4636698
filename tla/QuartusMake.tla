----------------------------- MODULE QuartusMake -----------------------------
(***************************************************************************)
(* `make quartus-compile`: the recipe that every sweep and every baseline  *)
(* rests on.  It regenerates config_pkg.sv, runs synthesis, Fitter and     *)
(* timing analysis, each of which replaces its own report, exports a       *)
(* record to results/timing/latest.json and validates it.  A recipe that   *)
(* fails or is killed leaves the reports of the stages before and those of *)
(* an earlier compile after.  The commit and the configuration of the      *)
(* record are read when it is exported, hours after the compile has read   *)
(* the sources.                                                            *)
(***************************************************************************)
EXTENDS Naturals, Sequences

CONSTANTS
  Seeds,          \* Fitter seeds, a set of naturals
  DefaultSeed,    \* the Makefile's SEED
  Commits,        \* what HEAD can be
  FirstCommit,    \* what it is to begin with
  Configs,        \* the files of config/
  QuartusConfig,  \* the Makefile's QUARTUS_CONFIG
  NoFile,
  Torn            \* a file whose writer was killed

ASSUME MakeAssumption == Seeds \subseteq Nat /\ DefaultSeed \in Seeds
                         /\ QuartusConfig \in Configs /\ FirstCommit \in Commits

VARIABLES
  head,    \* the commit of the working tree
  pkg,     \* CONFIG_NAME in sim/verilator/generated/config_pkg.sv
  out,     \* quartus/project/output_files/: of which compile each report is
  latest,  \* results/timing/latest.json
  make,    \* the running recipe
  built    \* how often output_files/ was begun anew

makeVars == <<head, pkg, out, latest, make, built>>

Targets == {"quartus-compile", "quartus-fit"}
Reports == {"syn", "fit", "sta"}
\* What parse_quartus.py finds: compile errors, or another rule broken.
Verdicts == {"clean", "errors", "invalid"}
\* A compile: what it was made from, and the how manyth it is.
Fits    == [seed : Seeds, commit : Commits, config : Configs, nr : Nat]

\* A record as its consumers read it.  `of` is not in the file: it is the compile
\* the numbers were measured on.
Records == [seed : Seeds, commit : Commits, config : Configs, verdict : Verdicts, of : Fits]

\* The commit and configuration a record names are the ones it measured.
Labelled(rec) == rec.commit = rec.of.commit /\ rec.config = rec.of.config

Idle == [at |-> "idle", seed |-> 0, target |-> "none", rc |-> 0]
\* From here on the reports and the record are under way.
Working == {"regen", "syn", "fit", "sta", "export"}

MakeTypeOK ==
  /\ head \in Commits /\ pkg \in Configs
  /\ out \in [Reports -> Fits \cup {NoFile, Torn}] /\ latest \in Records \cup {NoFile, Torn}
  /\ make = Idle \/ make \in [at : Working \cup {"parse", "done"},
                              seed : Seeds, target : Targets, rc : 0..2]
  /\ built \in Nat

\* No record holds what the package was before the first recipe regenerates it.
MakeInit ==
  /\ head = FirstCommit /\ pkg = QuartusConfig
  /\ out = [r \in Reports |-> NoFile] /\ latest = NoFile /\ make = Idle /\ built = 0

At(place) == make' = [make EXCEPT !.at = place]
Exit(rc)  == make' = [make EXCEPT !.at = "done", !.rc = rc]

Started(seed, target) ==
  /\ make' = [at |-> "regen", seed |-> seed, target |-> target, rc |-> 0]
  /\ built' = built + 1

\* QUARTUS_CONFIG_REGEN: build_verilator.py --config-only, whatever PIPE_CONFIG is.
Regen ==
  /\ make.at = "regen" /\ At("syn")
  /\ pkg' = QuartusConfig
  /\ UNCHANGED <<head, out, latest, built>>

\* compile.tcl, module by module.  Synthesis reads the sources, the Fitter what
\* synthesis left, the timing analysis what the Fitter left.
Replace(report, fit) == out' = [out EXCEPT ![report] = fit]
Syn ==
  /\ make.at = "syn" /\ At("fit")
  /\ Replace("syn", [seed |-> make.seed, commit |-> head, config |-> pkg, nr |-> built])
  /\ UNCHANGED <<head, pkg, latest, built>>
Fitter ==
  /\ make.at = "fit" /\ Replace("fit", out["syn"])
  /\ IF make.target = "quartus-compile" THEN At("sta") ELSE Exit(0)
  /\ UNCHANGED <<head, pkg, latest, built>>
Sta ==
  /\ make.at = "sta" /\ Replace("sta", out["fit"]) /\ At("export")
  /\ UNCHANGED <<head, pkg, latest, built>>

\* Any command may fail and ends the recipe.  (A module that fails after it has
\* written its report leaves what the next one leaves that fails before.)
Fails ==
  /\ make.at \in Working /\ Exit(2)
  /\ UNCHANGED <<head, pkg, out, latest, built>>

\* export_results.tcl: HEAD and config_pkg.sv are read here, not at the compile.
Export ==
  /\ make.at = "export" /\ At("parse")
  /\ \E verdict \in Verdicts :
       latest' = [seed |-> make.seed, commit |-> head, config |-> pkg,
                  verdict |-> verdict, of |-> out["fit"]]
  /\ UNCHANGED <<head, pkg, out, built>>

\* parse_quartus.py latest.json
Parse ==
  /\ make.at = "parse" /\ Exit(IF latest.verdict = "clean" THEN 0 ELSE 2)
  /\ UNCHANGED <<head, pkg, out, latest, built>>

MakeStep == Regen \/ Syn \/ Fitter \/ Sta \/ Fails \/ Export \/ Parse

\* Killed: what it was writing may be torn.
KillMake ==
  /\ make' = Idle
  /\ \/ make.at \in Reports /\ Replace(make.at, Torn) /\ UNCHANGED latest
     \/ make.at = "export" /\ latest' = Torn /\ UNCHANGED out
     \/ UNCHANGED <<out, latest>>
  /\ UNCHANGED <<head, pkg, built>>

\* The developer commits; a simulation build regenerates config_pkg.sv for itself;
\* output_files/, which git ignores, is cleaned away.
Commit     == head' \in Commits \ {head} /\ UNCHANGED <<pkg, out, latest, make, built>>
OtherBuild == make.at \in Working /\ pkg' \in Configs \ {pkg} /\ UNCHANGED <<head, out, latest, make, built>>
Clean ==
  /\ make.at \notin Working /\ out' = [r \in Reports |-> NoFile] /\ built' = built + 1
  /\ UNCHANGED <<head, pkg, latest, make>>
==============================================================================
