-------------------------- MODULE QuartusFlowProofs --------------------------
(***************************************************************************)
(* Proofs about the compile flow for any seeds, commits, configurations    *)
(* and requests, and any number of launches, commits, builds and kills:    *)
(* a sweep is reproducible, a baseline is of its record's compile as far   *)
(* as the script can make it so, and work that is done is kept.            *)
(***************************************************************************)
EXTENDS QuartusFlow, SequenceTheorems, TLAPS

Entries == [seed : Seeds, rec : Records]
Asked   == {r.config : r \in Requests}
Sweeps  == [records : Seq(Entries), commit : Commits, config : Asked, requested : Seq(Seeds)]

\* A file that is missing or torn is told from one that is whole.
FilesApart ==
  /\ NoFile # Torn
  /\ {NoFile, Torn} \cap (Fits \cup Records \cup Sweeps) = {}

(***************************************************************************)
(* The invariant.                                                          *)
(***************************************************************************)

\* A stage works on what the stage before left, and a record is parsed only after
\* it was exported.
Carried ==
  /\ make.at \in {"fit", "sta", "export"} => out["syn"] \in Fits /\ out["syn"].nr = built
  /\ make.at \in {"sta", "export"} => out["fit"] = out["syn"]
  /\ make.at = "export" => out["sta"] = out["syn"]
  /\ make.at = "parse" => latest \in Records
MakeTypes == MakeTypeOK /\ Carried

Sweepers == [at : {"gone", "loop", "make", "capture", "validate"}, resume : BOOLEAN,
             config : Asked \cup {QuartusConfig}, target : Targets \cup {"none"},
             commit : Commits \cup {NoFile}, seeds : Seq(Seeds), todo : Seq(Seeds),
             records : Seq(Entries)]

SweepTypes ==
  /\ sweeper \in Sweepers /\ files \in [Seeds -> Records \cup {NoFile, Torn}]
  /\ sweep \in Sweeps \cup {NoFile, Torn}
  /\ exit \in {"never", "running", "killed", "failed", "done"}
  /\ sweeper.at # "gone" => /\ sweeper.commit \in Commits /\ sweeper.config \in Asked
                            /\ sweeper.target \in Targets
  /\ sweeper.at \in {"make", "capture", "validate"} => sweeper.todo # << >>
  /\ sweeper.at = "validate" => files[Seed] \in Records \cup {Torn}

BaseTypes ==
  /\ BaseTypeOK
  /\ filler \in [next : Nat, force : BOOLEAN, rec : Records \cup {NoFile}]
  /\ filler.next > 0 <=> filled = "running"
  /\ filled \in {"running", "done"} => filler.rec \in Records

FlowTypes ==
  /\ launches \in 0 .. MaxLaunches /\ events \in 0 .. MaxEvents /\ calm \in BOOLEAN

Types == MakeTypes /\ SweepTypes /\ BaseTypes /\ FlowTypes

\* What is left to do is the end of what was asked for, and as long as no seed
\* was lost the records are those of the beginning.
OnTrack(s) ==
  /\ Len(s.records) + Len(s.todo) <= Len(s.seeds)
  /\ \A i \in 1 .. Len(s.todo) : s.todo[i] = s.seeds[Len(s.seeds) - Len(s.todo) + i]
  /\ Len(s.records) + Len(s.todo) = Len(s.seeds) =>
       \A i \in 1 .. Len(s.records) : s.records[i].seed = s.seeds[i]

DoneIsComplete ==
  exit = "done" => /\ sweep \in Sweeps
                   /\ [i \in DOMAIN sweep.records |-> sweep.records[i].seed] = sweep.requested

\* A record is the clean one of its own seed.
Good(rec, seed) == rec.seed = seed /\ rec.verdict = "clean" /\ Labelled(rec)

\* While nobody interferes: the files of earlier sweeps, ...
FilesGood == \A s \in Seeds : files[s] \in Records => Good(files[s], s)

\* ... the records in hand and those of the aggregate, ...
AllGood(entries, commit) ==
  \A i \in DOMAIN entries :
    Good(entries[i].rec, entries[i].seed) /\ entries[i].rec.commit = commit
RecordsGood ==
  /\ AllGood(sweeper.records, sweeper.commit)
  /\ sweep \in Sweeps => AllGood(sweep.records, sweep.commit)

\* ... and the compile under way, which is of this commit and, if a sweep waits
\* for it, of the seed whose turn it is.
Underway ==
  /\ make # Idle => make.target = "quartus-compile"
  /\ make.at \in {"fit", "sta", "export"} =>
       out["syn"] = [seed |-> make.seed, commit |-> head, config |-> pkg, nr |-> built]
  /\ make.at = "parse" \/ (make.at = "done" /\ make.rc = 0) =>
       /\ latest \in Records
       /\ latest.seed = make.seed /\ latest.commit = head /\ Labelled(latest)
  /\ make.at = "done" /\ make.rc = 0 => latest.verdict = "clean"
Waiting ==
  /\ sweeper.at # "gone" => sweeper.commit = head /\ sweeper.target = "quartus-compile"
  /\ sweeper.at = "make" => make # Idle /\ make.seed = Seed
  /\ sweeper.at \in {"loop", "capture", "validate"} => make = Idle
  /\ sweeper.at = "capture" => latest \in Records /\ Good(latest, Seed) /\ latest.commit = head
  /\ sweeper.at = "validate" => files[Seed] \in Records /\ files[Seed].commit = head

CalmInv == calm => FilesGood /\ RecordsGood /\ Underway /\ Waiting

\* A resumed sweep compiles only what it does not have.
WorkInv ==
  sweeper.resume /\ sweeper.at \in {"make", "capture"} =>
    ~(files[Seed] \in Records /\ MatchesHead(files[Seed]))

\* From the compile of a record on, nothing older reaches output_files/ or
\* latest.json; and as long as nothing is begun anew both are of that compile.
Settled(c) ==
  /\ c.nr <= built
  /\ make.at \in Working => c.nr < built
  /\ \A r \in Reports : out[r] \in Fits => out[r].nr >= c.nr
  /\ latest \in Records => latest.of.nr >= c.nr
  /\ c.nr = built => latest \in Records /\ latest.of = c /\ \A r \in Reports : out[r] = c

\* What the script has passed is sound, what is before it is as it found it.
Place == IF filled = "done" THEN 10 ELSE filler.next
FillInv ==
  /\ latest \in Records => Settled(latest.of)
  /\ filled \in {"running", "done"} =>
       /\ Settled(filler.rec.of)
       /\ \A i \in 1 .. 9 : IF i < Place THEN Sound(Evidence[i])
                            ELSE base[Evidence[i]] = before[Evidence[i]]

IInv == Types /\ OnTrack(sweeper) /\ DoneIsComplete /\ CalmInv /\ WorkInv /\ FillInv

-----------------------------------------------------------------------------
(* Types.                                                                  *)

LEMMA InitTypes == ASSUME FilesApart, Init PROVE Types
<1>1. MakeTypes
  BY MakeAssumption DEF Init, MakeInit, MakeTypes, MakeTypeOK, Carried, Idle
<1>2. SweepTypes
  BY DEF Init, SweepInit, SweepTypes, Gone, Sweepers
<1>3. BaseTypes
  BY DEF Init, BaseInit, BaseTypes, BaseTypeOK, NoFiller, Evidence
<1>4. FlowTypes
  <2>1. launches = 0 /\ events = 0 /\ calm = TRUE
    BY DEF Init
  <2>2. launches \in 0 .. MaxLaunches /\ events \in 0 .. MaxEvents
    BY <2>1, BoundsAssumption
  <2>3. calm \in BOOLEAN
    BY <2>1
  <2> QED BY <2>2, <2>3 DEF FlowTypes
<1> QED BY <1>1, <1>2, <1>3, <1>4 DEF Types

\* The recipe.
Making == [at : Working \cup {"parse", "done"}, seed : Seeds,
           target : Targets, rc : 0 .. 2]

LEMMA MakeMoves ==
  ASSUME make \in Making
  PROVE  /\ \A place : At(place) => make' = [at |-> place, seed |-> make.seed,
                                             target |-> make.target, rc |-> make.rc]
         /\ \A rc : Exit(rc) => make' = [at |-> "done", seed |-> make.seed,
                                         target |-> make.target, rc |-> rc]
BY DEF At, Exit, Making

LEMMA ExportIs ==
  ASSUME MakeTypes, Export
  PROVE  /\ latest' \in Records /\ latest'.seed = make.seed /\ latest'.commit = head
         /\ latest'.config = pkg /\ latest'.of = out["syn"] /\ latest'.of.nr = built
         /\ \A r \in Reports : out[r] = latest'.of
<1>1. PICK verdict \in Verdicts :
        latest' = [seed |-> make.seed, commit |-> head, config |-> pkg,
                   verdict |-> verdict, of |-> out["fit"]]
  BY DEF Export
<1>2. /\ out["fit"] = out["syn"] /\ out["sta"] = out["syn"] /\ out["syn"] \in Fits
      /\ out["syn"].nr = built
  BY DEF Export, MakeTypes, Carried
<1>3. make.seed \in Seeds /\ head \in Commits /\ pkg \in Configs
  BY DEF Export, MakeTypes, MakeTypeOK, Idle
<1> QED BY <1>1, <1>2, <1>3 DEF Records, Reports

\* A report is replaced in a directory of reports.
LEMMA Replacing ==
  ASSUME MakeTypeOK, NEW report \in Reports, NEW fit \in Fits \cup {Torn}, Replace(report, fit)
  PROVE  /\ out' \in [Reports -> Fits \cup {NoFile, Torn}]
         /\ out'[report] = fit /\ \A r \in Reports : r # report => out'[r] = out[r]
BY DEF MakeTypeOK, Replace

LEMMA MakeStepTypes == ASSUME FilesApart, MakeTypes, MakeStep PROVE MakeTypes' /\ make \in Making
<1>0. make \in Making
  BY DEF MakeTypes, MakeTypeOK, Idle, MakeStep, Regen, Syn, Fitter, Sta, Fails, Export, Parse,
     Making, Working
<1> SUFFICES MakeTypes'
  BY <1>0
<1>8. ASSUME NEW place \in Working \cup {"parse"}, At(place)
      PROVE  make' \in Making /\ make'.at = place
  BY <1>0, <1>8, MakeMoves DEF Making
<1>9. ASSUME NEW rc \in 0 .. 2, Exit(rc) PROVE make' \in Making /\ make'.at = "done"
  BY <1>0, <1>9, MakeMoves DEF Making
<1>10. ASSUME out' \in [Reports -> Fits \cup {NoFile, Torn}],
              latest' \in Records \cup {NoFile, Torn}, make' \in Making,
              head' = head, pkg' \in Configs, built' = built, Carried'
       PROVE  MakeTypes'
  BY <1>10 DEF MakeTypes, MakeTypeOK, Making
<1> USE DEF MakeTypes, Carried, Working, Reports
<1>1. CASE Regen
  <2>1. make' \in Making /\ make'.at = "syn"
    BY <1>1, <1>8 DEF Regen
  <2> QED BY <1>1, <1>10, <2>1, MakeAssumption DEF Regen, MakeTypeOK
<1>2. CASE Syn
  <2> DEFINE c == [seed |-> make.seed, commit |-> head, config |-> pkg, nr |-> built]
  <2>1. c \in Fits
    BY <1>0 DEF Fits, Making, MakeTypeOK
  <2>2. c.nr = built
    OBVIOUS
  <2>3. make' \in Making /\ make'.at = "fit"
    BY <1>2, <1>8 DEF Syn
  <2>4. Replace("syn", c) /\ UNCHANGED <<head, pkg, latest, built>>
    BY <1>2 DEF Syn
  <2> HIDE DEF c
  <2>5. out'["syn"] = c /\ out' \in [Reports -> Fits \cup {NoFile, Torn}]
    BY <2>1, <2>4, Replacing
  <2> QED BY <1>10, <2>1, <2>2, <2>3, <2>4, <2>5 DEF MakeTypeOK
<1>3. CASE Fitter
  <2>1. out["syn"] \in Fits /\ out["syn"].nr = built /\ UNCHANGED <<head, pkg, latest, built>>
    BY <1>3 DEF Fitter
  <2>2. /\ out'["fit"] = out["syn"] /\ out'["syn"] = out["syn"]
        /\ out' \in [Reports -> Fits \cup {NoFile, Torn}]
    BY <1>3, <2>1, Replacing DEF Fitter
  <2>3. make' \in Making /\ make'.at \in {"sta", "done"}
    BY <1>3, <1>8, <1>9 DEF Fitter
  <2> QED BY <1>10, <2>1, <2>2, <2>3 DEF MakeTypeOK
<1>4. CASE Sta
  <2>1. /\ out["syn"] \in Fits /\ out["syn"].nr = built /\ out["fit"] = out["syn"]
        /\ UNCHANGED <<head, pkg, latest, built>>
    BY <1>4 DEF Sta
  <2>2. /\ out'["sta"] = out["syn"] /\ out'["fit"] = out["fit"] /\ out'["syn"] = out["syn"]
        /\ out' \in [Reports -> Fits \cup {NoFile, Torn}]
    BY <1>4, <2>1, Replacing DEF Sta
  <2>3. make' \in Making /\ make'.at = "export"
    BY <1>4, <1>8 DEF Sta
  <2> QED BY <1>10, <2>1, <2>2, <2>3 DEF MakeTypeOK
<1>5. CASE Fails
  <2>1. make' \in Making /\ make'.at = "done"
    BY <1>5, <1>9 DEF Fails
  <2> QED BY <1>5, <1>10, <2>1 DEF Fails, MakeTypeOK
<1>6. CASE Export
  <2>1. make' \in Making /\ make'.at = "parse"
    BY <1>6, <1>8 DEF Export
  <2>2. latest' \in Records
    BY <1>6, ExportIs
  <2> QED BY <1>6, <1>10, <2>1, <2>2 DEF Export, MakeTypeOK
<1>7. CASE Parse
  <2>1. make' \in Making /\ make'.at = "done"
    BY <1>7, <1>9 DEF Parse
  <2> QED BY <1>7, <1>10, <2>1 DEF Parse, MakeTypeOK
<1> QED BY <1>1, <1>2, <1>3, <1>4, <1>5, <1>6, <1>7 DEF MakeStep

\* A recipe that is killed leaves the rest as it was, or torn.
LEMMA KillMakeIs ==
  ASSUME FilesApart, MakeTypes, KillMake
  PROVE  /\ MakeTypes' /\ make' = Idle /\ UNCHANGED <<head, pkg, built>>
         /\ latest' = latest \/ (make.at = "export" /\ latest' = Torn)
         /\ \A r \in Reports : out'[r] = out[r] \/ (make.at \in Reports /\ out'[r] = Torn)
<1>1. make' = Idle /\ UNCHANGED <<head, pkg, built>>
  BY DEF KillMake
<1>2. CASE make.at \in Reports /\ Replace(make.at, Torn) /\ UNCHANGED latest
  <2>1. /\ out' \in [Reports -> Fits \cup {NoFile, Torn}]
        /\ \A r \in Reports : out'[r] = out[r] \/ out'[r] = Torn
    BY <1>2, Replacing DEF MakeTypes
  <2> QED BY <1>1, <1>2, <2>1 DEF MakeTypes, MakeTypeOK, Carried, Idle
<1>3. CASE UNCHANGED out /\ (latest' = latest \/ (make.at = "export" /\ latest' = Torn))
  BY <1>1, <1>3 DEF MakeTypes, MakeTypeOK, Carried, Idle
<1> QED BY <1>2, <1>3 DEF KillMake

LEMMA CleanIs ==
  ASSUME FilesApart, MakeTypes, Clean
  PROVE  /\ MakeTypes' /\ UNCHANGED <<head, pkg, latest, make>> /\ built' = built + 1
         /\ make.at \notin Working /\ \A r \in Reports : out'[r] = NoFile
<1>1. out' = [r \in Reports |-> NoFile] /\ built' \in Nat
  BY DEF Clean, MakeTypes, MakeTypeOK
<1> QED BY <1>1 DEF Clean, MakeTypes, MakeTypeOK, Carried, Working

\* The sweep.  Each step moves the script on, to the next seed or with one more record.
LEMMA Onward ==
  ASSUME SweepTypes, NEW at \in {"gone", "loop", "make", "capture", "validate"}
  PROVE  LET s == [sweeper EXCEPT !.at = at]
         IN  /\ s \in Sweepers /\ s.at = at /\ s.resume = sweeper.resume
             /\ s.config = sweeper.config /\ s.target = sweeper.target
             /\ s.commit = sweeper.commit /\ s.seeds = sweeper.seeds
             /\ s.todo = sweeper.todo /\ s.records = sweeper.records
BY DEF SweepTypes, Sweepers

LEMMA SeedIsSeed == ASSUME SweepTypes, sweeper.todo # << >> PROVE Seed \in Seeds
<1>1. sweeper.todo \in Seq(Seeds)
  BY DEF SweepTypes, Sweepers
<1> QED BY <1>1 DEF Seed

LEMMA ToNextSeed ==
  ASSUME SweepTypes, sweeper.todo # << >>
  PROVE  /\ NextSeed \in Sweepers /\ NextSeed.at = "loop" /\ NextSeed.resume = sweeper.resume
         /\ NextSeed.config = sweeper.config /\ NextSeed.target = sweeper.target
         /\ NextSeed.commit = sweeper.commit /\ NextSeed.seeds = sweeper.seeds
         /\ NextSeed.todo = Tail(sweeper.todo) /\ NextSeed.records = sweeper.records
<1>1. sweeper.todo \in Seq(Seeds) /\ Tail(sweeper.todo) \in Seq(Seeds)
  BY DEF SweepTypes, Sweepers
<1> QED BY <1>1 DEF SweepTypes, Sweepers, NextSeed

LEMMA ToNextRecord ==
  ASSUME SweepTypes, sweeper.todo # << >>, NEW rec \in Records
  PROVE  LET s == Keeping(rec)
         IN  /\ s \in Sweepers /\ s.at = "loop" /\ s.resume = sweeper.resume
             /\ s.config = sweeper.config /\ s.target = sweeper.target
             /\ s.commit = sweeper.commit /\ s.seeds = sweeper.seeds
             /\ s.todo = Tail(sweeper.todo)
             /\ s.records = Append(sweeper.records, [seed |-> Seed, rec |-> rec])
<1> DEFINE entry == [seed |-> Seed, rec |-> rec]
<1>1. entry \in Entries
  BY SeedIsSeed DEF Entries
<1>2. sweeper.records \in Seq(Entries) /\ Append(sweeper.records, entry) \in Seq(Entries)
  BY <1>1 DEF SweepTypes, Sweepers
<1> HIDE DEF entry
<1>3. Keeping(rec) = [NextSeed EXCEPT !.records = Append(@, entry)]
  BY DEF Keeping, entry
<1>4. NextSeed.records = sweeper.records /\ NextSeed \in Sweepers
  BY ToNextSeed
<1>5. ASSUME NEW n \in Sweepers, n.records = sweeper.records
      PROVE  LET s == [n EXCEPT !.records = Append(@, entry)]
             IN  /\ s \in Sweepers /\ s.records = Append(sweeper.records, entry)
                 /\ s.at = n.at /\ s.resume = n.resume /\ s.config = n.config
                 /\ s.target = n.target /\ s.commit = n.commit /\ s.seeds = n.seeds
                 /\ s.todo = n.todo
  BY <1>2, <1>5 DEF Sweepers
<1> QED BY <1>3, <1>4, <1>5, ToNextSeed DEF entry

LEMMA GoneIs ==
  /\ Gone \in Sweepers /\ Gone.at = "gone" /\ Gone.todo = << >> /\ Gone.records = << >>
  /\ Gone.seeds = << >> /\ Gone.resume = FALSE
BY DEF Gone, Sweepers

\* A whole record is what is neither missing nor torn.
LEMMA WholeFile ==
  ASSUME SweepTypes, NEW s \in Seeds, files[s] # NoFile, files[s] # Torn
  PROVE  files[s] \in Records
BY DEF SweepTypes

LEMMA LaunchIs ==
  ASSUME MakeTypes, NEW r \in Requests, NEW resume \in BOOLEAN, NEW target \in Targets,
         Launch(r.chunks, resume, r.config, target)
  PROVE  /\ sweeper' \in Sweepers /\ sweeper'.at = "loop" /\ sweeper'.resume = resume
         /\ sweeper'.config = r.config /\ sweeper'.target = target
         /\ sweeper'.commit = head /\ sweeper'.todo = sweeper'.seeds
         /\ sweeper'.records = << >>
<1>1. ParseSeeds(r.chunks) \in Seq(Seeds)
  BY RequestsAssumption
<1>2. r.config \in Asked /\ head \in Commits
  BY DEF Asked, MakeTypes, MakeTypeOK
<1> QED BY <1>1, <1>2 DEF Launch, Sweepers, Targets

LEMMA LaunchTypes ==
  ASSUME MakeTypes, SweepTypes, NEW r \in Requests, NEW resume \in BOOLEAN,
         NEW target \in Targets, Launch(r.chunks, resume, r.config, target)
  PROVE  SweepTypes'
<1>1. files' = files /\ sweep' = sweep /\ exit' = "running"
  BY DEF Launch
<1>2. head \in Commits /\ r.config \in Asked
  BY DEF MakeTypes, MakeTypeOK, Asked
<1> QED BY <1>1, <1>2, LaunchIs DEF SweepTypes

LEMMA SweepStepTypes == ASSUME FilesApart, MakeTypes, SweepTypes, SweepStep PROVE SweepTypes'
<1>1. CASE Reuse
  <2>1. sweeper.at = "loop" /\ sweeper.todo # << >> /\ files[Seed] \in Records
    BY <1>1, WholeFile, SeedIsSeed DEF Reuse, InLoop, Present
  <2>2. sweeper' = Keeping(files[Seed]) /\ files' = files /\ sweep' = sweep /\ exit' = exit
    BY <1>1 DEF Reuse
  <2> QED BY <2>1, <2>2, ToNextRecord DEF SweepTypes
<1>2. CASE ResumeRaises
  <2>1. sweeper' = Gone /\ files' = files /\ sweep' = sweep /\ exit' = "failed"
    BY <1>2 DEF ResumeRaises
  <2> QED BY <2>1, GoneIs DEF SweepTypes
<1>3. CASE RunOne
  <2>1. /\ sweeper.at = "loop" /\ sweeper.todo # << >>
        /\ sweeper' = [sweeper EXCEPT !.at = "make"]
        /\ files' = files /\ sweep' = sweep /\ exit' = exit
    BY <1>3 DEF RunOne, InLoop
  <2> QED BY <2>1, Onward DEF SweepTypes
<1>4. CASE MakeReturns
  <2>1. /\ sweeper.at = "make" /\ sweeper.todo # << >>
        /\ sweeper' = [sweeper EXCEPT !.at = "capture"] \/ sweeper' = NextSeed
        /\ files' = files /\ sweep' = sweep /\ exit' = exit
    BY <1>4 DEF MakeReturns, SweepTypes
  <2>2. CASE sweeper' = [sweeper EXCEPT !.at = "capture"]
    BY <2>1, <2>2, Onward DEF SweepTypes
  <2>3. CASE sweeper' = NextSeed
    BY <2>1, <2>3, ToNextSeed DEF SweepTypes
  <2> QED BY <2>1, <2>2, <2>3
<1>5. CASE Capture
  <2>1. sweeper.at = "capture" /\ sweeper.todo # << >> /\ sweep' = sweep /\ exit' = exit
    BY <1>5 DEF Capture, SweepTypes
  <2>2. CASE latest = NoFile
    <3>1. sweeper' = NextSeed /\ files' = files
      BY <1>5, <2>2 DEF Capture
    <3> QED BY <2>1, <3>1, ToNextSeed DEF SweepTypes
  <2>3. CASE latest # NoFile
    <3>1. latest \in Records \cup {Torn}
      BY <2>3 DEF MakeTypes, MakeTypeOK
    <3>2. sweeper' = [sweeper EXCEPT !.at = "validate"] /\ files' = [files EXCEPT ![Seed] = latest]
      BY <1>5, <2>3 DEF Capture
    <3>3. Seed' = Seed
      BY <2>1, <3>2, Onward DEF Seed
    <3>4. files' \in [Seeds -> Records \cup {NoFile, Torn}] /\ files'[Seed] = latest
      BY <2>1, <3>1, <3>2, SeedIsSeed DEF SweepTypes
    <3> QED BY <2>1, <3>1, <3>2, <3>3, <3>4, Onward DEF SweepTypes
  <2> QED BY <2>2, <2>3
<1>6. CASE Validate
  <2>1. /\ sweeper.at = "validate" /\ sweeper.todo # << >>
        /\ files' = files /\ sweep' = sweep /\ exit' = exit
        /\ (files[Seed] \in Records /\ sweeper' = Keeping(files[Seed])) \/ sweeper' = NextSeed
    BY <1>6 DEF Validate, SweepTypes
  <2> QED BY <2>1, ToNextSeed, ToNextRecord DEF SweepTypes
<1>7. CASE Aggregate
  <2>1. sweeper' = Gone /\ files' = files /\ exit' \in {"done", "failed"} /\ sweeper.at = "loop"
    BY <1>7 DEF Aggregate
  <2>2. sweep' \in Sweeps \/ sweep' = sweep
    <3>1. /\ sweeper.records \in Seq(Entries) /\ sweeper.commit \in Commits
          /\ sweeper.config \in Asked /\ sweeper.seeds \in Seq(Seeds)
      BY <2>1 DEF SweepTypes, Sweepers
    <3>2. \/ sweep' = sweep
          \/ sweep' = [records |-> sweeper.records, commit |-> sweeper.commit,
                      config |-> sweeper.config, requested |-> sweeper.seeds]
      BY <1>7 DEF Aggregate
    <3>3. [records |-> sweeper.records, commit |-> sweeper.commit,
           config |-> sweeper.config, requested |-> sweeper.seeds] \in Sweeps
      BY <3>1 DEF Sweeps
    <3> QED BY <3>2, <3>3
  <2> QED BY <2>1, <2>2, GoneIs DEF SweepTypes
<1> QED BY <1>1, <1>2, <1>3, <1>4, <1>5, <1>6, <1>7 DEF SweepStep

LEMMA KillIs ==
  ASSUME SweepTypes, Kill
  PROVE  /\ sweeper' = Gone /\ exit' = "killed" /\ make' = Idle
         /\ sweep' \in {sweep, Torn}
         /\ \/ files' = files
            \/ /\ sweeper.at = "capture" /\ Seed \in Seeds
               /\ files' = [files EXCEPT ![Seed] = Torn]
         /\ UNCHANGED <<head, pkg, built>>
<1>1. sweeper.at = "capture" => Seed \in Seeds
  BY SeedIsSeed DEF SweepTypes
<1> QED BY <1>1 DEF Kill, KillMake

LEMMA KillTypes == ASSUME SweepTypes, Kill PROVE SweepTypes'
<1>1. files' \in [Seeds -> Records \cup {NoFile, Torn}]
  BY KillIs DEF SweepTypes
<1> QED BY <1>1, KillIs, GoneIs DEF SweepTypes

\* The baseline.
LEMMA EvidenceIs ==
  /\ DOMAIN Evidence = 1 .. 9 /\ Len(Evidence) = 9
  /\ \A i \in 1 .. 9 : Evidence[i] \in EvidenceFiles
  /\ \A f \in EvidenceFiles : \E i \in 1 .. 9 : f = Evidence[i]
  /\ \A i, j \in 1 .. 9 : Evidence[i] = Evidence[j] => i = j
<1>1. DOMAIN Evidence = 1 .. 9 /\ Len(Evidence) = 9
  BY DEF Evidence
<1>2. \A i, j \in 1 .. 9 : Evidence[i] = Evidence[j] => i = j
  BY DEF Evidence
<1> QED BY <1>1, <1>2 DEF EvidenceFiles

LEMMA MeasuredIs ==
  ASSUME FilesApart
  PROVE  /\ latest \in Records => Measured(latest) = latest.of /\ latest.of \in Fits
         /\ latest \in {NoFile, Torn} => Measured(latest) = latest
BY DEF FilesApart, Measured, Records

LEMMA SourceType ==
  ASSUME FilesApart, MakeTypes, BaseTypes, filler.next > 0, NEW f \in EvidenceFiles
  PROVE  Source(f) \in Fits \cup {NoFile, Torn}
<1>1. filler.rec.of \in Fits
  BY DEF BaseTypes, Records
<1>2. Measured(latest) \in Fits \cup {NoFile, Torn}
  BY MeasuredIs DEF MakeTypes, MakeTypeOK
<1>3. \A r \in Reports : out[r] \in Fits \cup {NoFile, Torn}
  BY DEF MakeTypes, MakeTypeOK
<1> QED BY <1>1, <1>2, <1>3 DEF Source

\* One file has its turn.
LEMMA WriteIs ==
  ASSUME BaseTypes, WriteNext
  PROVE  /\ filler.next \in 1 .. 9
         /\ filler' = [next |-> filler.next + 1, force |-> filler.force, rec |-> filler.rec]
         /\ LET f == Evidence[filler.next] IN Write(f) \/ Leave(f) \/ Warn(f)
         /\ UNCHANGED <<before, filled, makeVars>>
<1>1. filler \in [next : Nat, force : BOOLEAN, rec : Records \cup {NoFile}]
  BY DEF BaseTypes
<1>2. filler' = [filler EXCEPT !.next = filler.next + 1] /\ filler.next \in 1 .. 9
  BY EvidenceIs DEF WriteNext
<1>3. filler' = [next |-> filler.next + 1, force |-> filler.force, rec |-> filler.rec]
  BY <1>1, <1>2
<1> QED BY <1>2, <1>3 DEF WriteNext

\* Which changes that file or none, and only if it may.
LEMMA TurnIs ==
  ASSUME FilesApart, MakeTypes, BaseTypes, filler.next > 0, NEW f \in EvidenceFiles,
         Write(f) \/ Leave(f) \/ Warn(f)
  PROVE  /\ base' \in [EvidenceFiles -> Fits \cup {NoFile, Torn}]
         /\ \A g \in EvidenceFiles : g # f => base'[g] = base[g]
         /\ base'[f] # base[f] => MayWrite(f)
         /\ Write(f) => base'[f] = Source(f)
         /\ Warn(f) => base'[f] \in {base[f], Torn}
BY SourceType DEF Write, Leave, Warn, BaseTypes, BaseTypeOK

LEMMA FinishIs ==
  ASSUME BaseTypes, Finish
  PROVE  /\ filler.next = 10 /\ filled' = "done" /\ UNCHANGED <<base, before, makeVars>>
         /\ filler' = [next |-> 0, force |-> filler.force, rec |-> filler.rec]
<1>1. filler \in [next : Nat, force : BOOLEAN, rec : Records \cup {NoFile}]
  BY DEF BaseTypes
<1>2. filler' = [filler EXCEPT !.next = 0] /\ filler.next = 10
  BY EvidenceIs DEF Finish
<1>3. filler' = [next |-> 0, force |-> filler.force, rec |-> filler.rec]
  BY <1>1, <1>2
<1> QED BY <1>2, <1>3 DEF Finish

LEMMA FillTypes == ASSUME FilesApart, MakeTypes, BaseTypes, FillStep PROVE BaseTypes'
<1>1. CASE WriteNext
  <2>1. filler.next \in 1 .. 9 /\ Evidence[filler.next] \in EvidenceFiles
    BY <1>1, WriteIs, EvidenceIs
  <2>2. base' \in [EvidenceFiles -> Fits \cup {NoFile, Torn}]
    BY <1>1, <2>1, WriteIs, TurnIs
  <2>3. /\ filler'.next \in 0 .. 10 /\ filler'.next > 0 /\ filler'.force = filler.force
        /\ filler'.rec = filler.rec /\ UNCHANGED <<before, filled>>
        /\ filler' \in [next : Nat, force : BOOLEAN, rec : Records \cup {NoFile}]
    BY <1>1, <2>1, WriteIs DEF BaseTypes
  <2> QED BY <2>1, <2>2, <2>3, EvidenceIs DEF BaseTypes, BaseTypeOK
<1>2. CASE Finish
  <2>1. filler'.next = 0 /\ filler'.rec = filler.rec /\ filler'.force = filler.force
        /\ filler' \in [next : Nat, force : BOOLEAN, rec : Records \cup {NoFile}]
    BY <1>2, FinishIs DEF BaseTypes
  <2> QED BY <1>2, <2>1, FinishIs, EvidenceIs DEF BaseTypes, BaseTypeOK
<1> QED BY <1>1, <1>2 DEF FillStep

LEMMA PopulateTypes ==
  ASSUME FilesApart, BaseTypes, MakeTypes, NEW force \in BOOLEAN, Populate(force)
  PROVE  BaseTypes'
<1>1. base' = base /\ before' = base
  BY DEF Populate
<1>2. CASE Accepted(latest)
  <2>1. filler' = [next |-> 1, force |-> force, rec |-> latest] /\ filled' = "running"
    BY <1>2 DEF Populate
  <2>2. latest \in Records
    BY <1>2 DEF Accepted, MakeTypes, MakeTypeOK
  <2> QED BY <1>1, <2>1, <2>2, EvidenceIs DEF BaseTypes, BaseTypeOK
<1>3. CASE ~Accepted(latest)
  <2>1. filler' = filler /\ filled' = "failed" /\ filler.next = 0
    BY <1>3 DEF Populate
  <2> QED BY <1>1, <2>1 DEF BaseTypes, BaseTypeOK
<1> QED BY <1>2, <1>3

LEMMA KillFillerIs ==
  ASSUME KillFiller
  PROVE  /\ filler.next \in 1 .. 9 /\ filled' = "killed" /\ filler' = NoFiller
         /\ base' = IF MayWrite(Evidence[filler.next])
                    THEN [base EXCEPT ![Evidence[filler.next]] = Torn] ELSE base
         /\ UNCHANGED <<before, makeVars>>
BY EvidenceIs DEF KillFiller

LEMMA KillFillerTypes == ASSUME BaseTypes, KillFiller PROVE BaseTypes'
<1>1. Evidence[filler.next] \in EvidenceFiles
  BY KillFillerIs, EvidenceIs
<1>2. base' \in [EvidenceFiles -> Fits \cup {NoFile, Torn}]
  BY <1>1, KillFillerIs DEF BaseTypes, BaseTypeOK
<1>3. /\ NoFiller.next = 0 /\ NoFiller.force \in BOOLEAN /\ NoFiller.rec = NoFile
      /\ NoFiller \in [next : Nat, force : BOOLEAN, rec : Records \cup {NoFile}]
  BY DEF NoFiller
<1> QED BY <1>2, <1>3, KillFillerIs, EvidenceIs DEF BaseTypes, BaseTypeOK

\* What the others leave alone.
LEMMA BaseTypesFrame == ASSUME BaseTypes, UNCHANGED baseVars PROVE BaseTypes'
BY DEF BaseTypes, BaseTypeOK, baseVars

LEMMA MakeTypesFrame == ASSUME MakeTypes, UNCHANGED makeVars PROVE MakeTypes'
BY DEF MakeTypes, MakeTypeOK, Carried, makeVars

LEMMA SweepTypesFrame == ASSUME SweepTypes, UNCHANGED sweepVars PROVE SweepTypes'
BY DEF SweepTypes, sweepVars, Seed

LEMMA StartedTypes ==
  ASSUME MakeTypes, NEW seed \in Seeds, NEW target \in Targets, Started(seed, target),
         UNCHANGED <<head, pkg, out, latest>>
  PROVE  MakeTypes' /\ make' \in Making /\ make'.at = "regen"
BY DEF MakeTypes, MakeTypeOK, Carried, Started, Making, Working, Targets

LEMMA IdleTypes ==
  ASSUME MakeTypes, make' = Idle, UNCHANGED <<head, pkg, out, latest, built>>
  PROVE  MakeTypes'
BY DEF MakeTypes, MakeTypeOK, Carried, Idle

\* What counts against the bounds.
LEMMA Bounded ==
  ASSUME FlowTypes, NEW kind \in Kinds
  PROVE  /\ Launched(kind) => launches' \in 0 .. MaxLaunches
         /\ Happened(kind) => events' \in 0 .. MaxEvents
<1>1. Cost[kind] \in Nat
  BY BoundsAssumption
<1> QED BY <1>1, BoundsAssumption DEF FlowTypes, Launched, Happened

LEMMA TypesKept == ASSUME FilesApart, Types, [Next]_flowVars PROVE Types'
<1> USE DEF Types
<1>1. CASE StartSweep
  <2>1. PICK r \in Requests, resume \in BOOLEAN, target \in Targets :
          /\ Launch(r.chunks, resume, r.config, target)
          /\ calm' = (calm /\ target = "quartus-compile")
          /\ IF target = "quartus-compile" THEN UNCHANGED events ELSE Happened("other_target")
    BY <1>1 DEF StartSweep
  <2>2. UNCHANGED <<makeVars, baseVars>> /\ Launched("sweep")
    BY <1>1 DEF StartSweep
  <2>3. calm' \in BOOLEAN
    BY <2>1
  <2>4. launches' \in 0 .. MaxLaunches /\ events' \in 0 .. MaxEvents
    BY <2>1, <2>2, Bounded DEF Kinds, FlowTypes
  <2> QED BY <2>1, <2>2, <2>3, <2>4, MakeTypesFrame, BaseTypesFrame, LaunchTypes DEF FlowTypes
<1>2. CASE StartFill
  <2>1. PICK force \in BOOLEAN : Populate(force)
    BY <1>2 DEF StartFill
  <2>2. UNCHANGED <<sweepVars, events, calm>> /\ Launched("fill")
    BY <1>2 DEF StartFill
  <2>3. launches' \in 0 .. MaxLaunches
    BY <2>2, Bounded DEF Kinds
  <2>4. UNCHANGED makeVars
    BY <2>1 DEF Populate
  <2> QED BY <2>1, <2>2, <2>3, <2>4, PopulateTypes, MakeTypesFrame, SweepTypesFrame DEF FlowTypes
<1>3. CASE ByHand
  <2>1. /\ Started(DefaultSeed, "quartus-compile")
        /\ IF exit = "never" THEN Launched("hand") /\ UNCHANGED events
           ELSE Happened("between") /\ UNCHANGED launches
        /\ UNCHANGED <<head, pkg, out, latest, sweepVars, baseVars, calm>>
    BY <1>3 DEF ByHand
  <2>2. launches' \in 0 .. MaxLaunches /\ events' \in 0 .. MaxEvents
    BY <2>1, Bounded DEF Kinds, FlowTypes
  <2>3. MakeTypes'
    BY <2>1, MakeAssumption, StartedTypes DEF Targets
  <2> QED BY <2>1, <2>2, <2>3, BaseTypesFrame, SweepTypesFrame DEF FlowTypes
<1>4. CASE HandDone
  <2>1. /\ UNCHANGED <<head, pkg, out, latest, built, sweepVars, baseVars, launches, events, calm>>
        /\ make' = Idle
    BY <1>4 DEF HandDone
  <2> QED BY <2>1, IdleTypes, BaseTypesFrame, SweepTypesFrame DEF FlowTypes
<1>5. CASE Developer
  <2>1. /\ UNCHANGED <<sweepVars, baseVars, launches>> /\ calm' = (calm /\ ~Busy)
        /\ \/ Happened("commit") /\ Commit
           \/ Happened("build") /\ OtherBuild
           \/ Happened("clean") /\ Clean
    BY <1>5 DEF Developer
  <2>2. calm' \in BOOLEAN /\ events' \in 0 .. MaxEvents
    BY <2>1, Bounded DEF Kinds
  <2>3. MakeTypes'
    <3>1. CASE Commit
      BY <3>1 DEF Commit, MakeTypes, MakeTypeOK, Carried
    <3>2. CASE OtherBuild
      BY <3>2 DEF OtherBuild, MakeTypes, MakeTypeOK, Carried
    <3> QED BY <2>1, <3>1, <3>2, CleanIs
  <2> QED BY <2>1, <2>2, <2>3, BaseTypesFrame, SweepTypesFrame DEF FlowTypes
<1>6. CASE Recipe
  <2>1. MakeStep /\ UNCHANGED <<sweepVars, baseVars, launches, events, calm>>
    BY <1>6 DEF Recipe
  <2> QED BY <2>1, MakeStepTypes, BaseTypesFrame, SweepTypesFrame DEF FlowTypes
<1>7. CASE Script
  <2>1. SweepStep /\ UNCHANGED <<baseVars, launches, events, calm>>
    BY <1>7 DEF Script
  <2>2. MakeTypes'
    <3>1. CASE RunOne
      <4>1. /\ Started(Seed, sweeper.target) /\ sweeper.at = "loop" /\ sweeper.todo # << >>
            /\ UNCHANGED <<head, pkg, out, latest>>
        BY <3>1 DEF RunOne, InLoop
      <4>2. Seed \in Seeds /\ sweeper.target \in Targets
        BY <4>1, SeedIsSeed DEF SweepTypes
      <4> QED BY <4>1, <4>2, StartedTypes
    <3>2. CASE MakeReturns
      BY <3>2, IdleTypes DEF MakeReturns
    <3>3. CASE UNCHANGED makeVars
      BY <3>3, MakeTypesFrame
    <3> QED BY <2>1, <3>1, <3>2, <3>3
        DEF SweepStep, Reuse, ResumeRaises, Capture, Validate, Aggregate
  <2> QED BY <2>1, <2>2, SweepStepTypes, BaseTypesFrame DEF FlowTypes
<1>8. CASE Fill
  <2>1. FillStep /\ UNCHANGED <<sweepVars, launches, events, calm>>
    BY <1>8 DEF Fill
  <2>2. UNCHANGED makeVars
    BY <2>1 DEF FillStep, WriteNext, Finish
  <2> QED BY <2>1, <2>2, FillTypes, MakeTypesFrame, SweepTypesFrame DEF FlowTypes
<1>9. CASE Interrupt
  <2>1. UNCHANGED <<launches, calm>>
    BY <1>9 DEF Interrupt
  <2>2. events' \in 0 .. MaxEvents
    BY <1>9, Bounded DEF Interrupt, Kinds
  <2>3. CASE Kill /\ UNCHANGED baseVars
    <3>1. MakeTypes'
      BY <2>3, KillMakeIs DEF Kill
    <3> QED BY <2>1, <2>2, <2>3, <3>1, KillTypes, BaseTypesFrame DEF FlowTypes
  <2>4. CASE KillMake /\ UNCHANGED <<sweepVars, baseVars>>
    BY <2>1, <2>2, <2>4, KillMakeIs, SweepTypesFrame, BaseTypesFrame DEF FlowTypes
  <2>5. CASE KillFiller /\ UNCHANGED sweepVars
    BY <2>1, <2>2, <2>5, KillFillerIs, KillFillerTypes, MakeTypesFrame, SweepTypesFrame DEF FlowTypes
  <2> QED BY <1>9, <2>3, <2>4, <2>5 DEF Interrupt
<1>10. CASE UNCHANGED flowVars
  BY <1>10, MakeTypesFrame, SweepTypesFrame, BaseTypesFrame DEF flowVars, makeVars, FlowTypes
<1> QED BY <1>1, <1>2, <1>3, <1>4, <1>5, <1>6, <1>7, <1>8, <1>9, <1>10 DEF Next

-----------------------------------------------------------------------------
(* Order: a sweep that says it is complete has what was asked for.         *)

LEMMA GoneOnTrack == OnTrack(Gone)
BY DEF Gone, OnTrack

LEMMA NextSeedOnTrack ==
  ASSUME SweepTypes, OnTrack(sweeper), sweeper.todo # << >>
  PROVE  OnTrack(NextSeed)
<1>1. PICK todo \in Seq(Seeds) : todo = sweeper.todo
  BY DEF SweepTypes, Sweepers
<1>2. PICK seeds \in Seq(Seeds) : seeds = sweeper.seeds
  BY DEF SweepTypes, Sweepers
<1>3. PICK records \in Seq(Entries) : records = sweeper.records
  BY DEF SweepTypes, Sweepers
<1>0. PICK rest \in Seq(Seeds) : rest = Tail(todo)
  <2>1. Tail(todo) \in Seq(Seeds)
    BY <1>1
  <2> QED BY <2>1
<1>4. /\ Len(rest) = Len(todo) - 1 /\ todo # << >>
      /\ \A i \in 1 .. Len(rest) : rest[i] = todo[i + 1]
  BY <1>0, <1>1
<1>5. \A i \in 1 .. Len(todo) : todo[i] = seeds[Len(seeds) - Len(todo) + i]
  BY <1>1, <1>2 DEF OnTrack
<1>6. Len(records) + Len(todo) <= Len(seeds)
  BY <1>1, <1>2, <1>3 DEF OnTrack
<1>7. \A i \in 1 .. Len(rest) : rest[i] = seeds[Len(seeds) - Len(rest) + i]
  BY <1>4, <1>5
<1>8. Len(records) + Len(rest) < Len(seeds)
  BY <1>4, <1>6
<1>9. NextSeed.todo = rest /\ NextSeed.seeds = seeds /\ NextSeed.records = records
  BY <1>0, <1>1, <1>2, <1>3, ToNextSeed
<1>10. Len(records) + Len(rest) <= Len(seeds) /\ ~(Len(records) + Len(rest) = Len(seeds))
  BY <1>8
<1> QED BY <1>7, <1>9, <1>10 DEF OnTrack

\* What is done, what is left and what was asked for, as numbers.
LEMMA Position ==
  ASSUME NEW r \in Nat, NEW t \in Nat, NEW s \in Nat
  PROVE  /\ r + t = s => s - t + 1 = r + 1
         /\ \A i \in Nat : s - (t - 1) + i = s - t + (i + 1)
OBVIOUS

LEMMA KeepingOnTrack ==
  ASSUME SweepTypes, OnTrack(sweeper), sweeper.todo # << >>, NEW rec \in Records
  PROVE  OnTrack(Keeping(rec))
<1>1. PICK todo \in Seq(Seeds) : todo = sweeper.todo
  BY DEF SweepTypes, Sweepers
<1>2. PICK seeds \in Seq(Seeds) : seeds = sweeper.seeds
  BY DEF SweepTypes, Sweepers
<1>3. PICK records \in Seq(Entries) : records = sweeper.records
  BY DEF SweepTypes, Sweepers
<1>0. PICK rest \in Seq(Seeds) : rest = Tail(todo)
  <2>1. Tail(todo) \in Seq(Seeds)
    BY <1>1
  <2> QED BY <2>1
<1>4. /\ Len(rest) = Len(todo) - 1 /\ todo # << >> /\ Seed = todo[1]
      /\ \A i \in 1 .. Len(rest) : rest[i] = todo[i + 1]
  BY <1>0, <1>1 DEF Seed
<1>5. /\ \A i \in 1 .. Len(todo) : todo[i] = seeds[Len(seeds) - Len(todo) + i]
      /\ Len(records) + Len(todo) <= Len(seeds)
      /\ Len(records) + Len(todo) = Len(seeds) =>
           \A i \in 1 .. Len(records) : records[i].seed = seeds[i]
  BY <1>1, <1>2, <1>3 DEF OnTrack
<1>6. PICK entry \in Entries : entry = [seed |-> Seed, rec |-> rec]
  BY SeedIsSeed DEF Entries
<1>7. PICK more \in Seq(Entries) : more = Append(records, entry)
  <2>1. Append(records, entry) \in Seq(Entries)
    OBVIOUS
  <2> QED BY <2>1
<1>8. /\ Len(more) = Len(records) + 1 /\ more[Len(records) + 1] = entry
      /\ \A i \in 1 .. Len(records) : more[i] = records[i]
  BY <1>7
<1>9. /\ Keeping(rec).todo = rest /\ Keeping(rec).seeds = seeds
      /\ Keeping(rec).records = more
  BY <1>0, <1>1, <1>2, <1>3, <1>6, <1>7, ToNextRecord
<1>10. \A i \in 1 .. Len(rest) : rest[i] = seeds[Len(seeds) - Len(rest) + i]
  <2> TAKE i \in 1 .. Len(rest)
  <2>1. i + 1 \in 1 .. Len(todo) /\ rest[i] = todo[i + 1] /\ i \in Nat
    BY <1>4
  <2>2. todo[i + 1] = seeds[Len(seeds) - Len(todo) + (i + 1)]
    BY <1>5, <2>1
  <2>3. Len(seeds) - (Len(todo) - 1) + i = Len(seeds) - Len(todo) + (i + 1)
    BY <2>1, Position, LenProperties
  <2> QED BY <1>4, <2>1, <2>2, <2>3
<1>11. Len(more) + Len(rest) <= Len(seeds)
  BY <1>4, <1>5, <1>8
<1>12. ASSUME Len(more) + Len(rest) = Len(seeds), NEW i \in 1 .. Len(more)
       PROVE  more[i].seed = seeds[i]
  <2>1. Len(records) + Len(todo) = Len(seeds) /\ Len(todo) > 0
    BY <1>4, <1>8, <1>12
  <2>2. CASE i = Len(records) + 1
    <3>0. Len(seeds) - Len(todo) + 1 = i
      BY <2>1, <2>2, Position, LenProperties
    <3>1. todo[1] = seeds[i]
      <4>1. 1 \in 1 .. Len(todo)
        BY <2>1, LenProperties
      <4>2. todo[1] = seeds[Len(seeds) - Len(todo) + 1]
        BY <1>5, <4>1
      <4> QED BY <3>0, <4>2
    <3>2. more[i].seed = Seed
      BY <1>6, <1>8, <2>2
    <3> QED BY <1>4, <3>1, <3>2
  <2>3. CASE i # Len(records) + 1
    <3>1. i \in 1 .. Len(records)
      BY <1>8, <2>3
    <3> QED BY <1>5, <1>8, <2>1, <3>1
  <2> QED BY <2>2, <2>3
<1> QED BY <1>9, <1>10, <1>11, <1>12 DEF OnTrack

\* Who moves the sweep at all.
LEMMA SweepMoves ==
  ASSUME [Next]_flowVars
  PROVE  UNCHANGED sweepVars \/ StartSweep \/ Script \/ Kill
BY DEF Next, StartFill, ByHand, HandDone, Developer, Recipe, Fill, Interrupt, flowVars

\* And how.
LEMMA ScriptMoves ==
  ASSUME Types, Script
  PROVE  \/ sweeper' = Gone
         \/ \E at \in {"make", "capture", "validate"} : sweeper' = [sweeper EXCEPT !.at = at]
         \/ sweeper.todo # << >> /\ sweeper' = NextSeed
         \/ sweeper.todo # << >> /\ \E rec \in Records : sweeper' = Keeping(rec)
<1> USE DEF Types
<1>1. CASE Reuse
  <2>1. files[Seed] \in Records
    BY <1>1, WholeFile, SeedIsSeed DEF Reuse, InLoop, Present
  <2> QED BY <1>1, <2>1 DEF Reuse, InLoop
<1>2. CASE Validate
  BY <1>2 DEF Validate, SweepTypes
<1>3. CASE MakeReturns
  BY <1>3 DEF MakeReturns, SweepTypes
<1>4. CASE Capture
  BY <1>4 DEF Capture, SweepTypes
<1> QED BY <1>1, <1>2, <1>3, <1>4 DEF Script, SweepStep, ResumeRaises, RunOne, Aggregate

LEMMA OnTrackKept ==
  ASSUME FilesApart, Types, OnTrack(sweeper), [Next]_flowVars
  PROVE  OnTrack(sweeper)'
<1> USE DEF Types
<1>0. ASSUME NEW s, sweeper' = s, OnTrack(s) PROVE OnTrack(sweeper)'
  BY <1>0 DEF OnTrack
<1>1. CASE StartSweep
  <2>1. PICK r \in Requests, resume \in BOOLEAN, target \in Targets :
          Launch(r.chunks, resume, r.config, target)
    BY <1>1 DEF StartSweep
  <2>2. PICK s : s = sweeper'
    OBVIOUS
  <2>3. s.todo = s.seeds /\ s.records = << >> /\ s.seeds \in Seq(Seeds)
    BY <2>1, <2>2, LaunchIs DEF Sweepers
  <2>4. PICK seeds \in Seq(Seeds) : seeds = s.seeds
    BY <2>3
  <2>5. Len(seeds) \in Nat /\ Len(s.records) = 0
    BY <2>3, <2>4
  <2>6. \A i \in 1 .. Len(seeds) : seeds[i] = seeds[Len(seeds) - Len(seeds) + i]
    BY <2>5
  <2>7. OnTrack(s)
    BY <2>3, <2>4, <2>5, <2>6 DEF OnTrack
  <2> QED BY <2>2, <2>7, <1>0
<1>2. CASE Script
  <2>1. CASE sweeper' = Gone
    BY <1>0, <2>1, GoneOnTrack
  <2>2. ASSUME NEW at \in {"make", "capture", "validate"}, sweeper' = [sweeper EXCEPT !.at = at]
        PROVE  OnTrack(sweeper)'
    <3>1. /\ sweeper'.todo = sweeper.todo /\ sweeper'.seeds = sweeper.seeds
          /\ sweeper'.records = sweeper.records
      BY <2>2, Onward
    <3> QED BY <3>1 DEF OnTrack
  <2>3. CASE sweeper.todo # << >> /\ sweeper' = NextSeed
    BY <1>0, <2>3, NextSeedOnTrack
  <2>4. ASSUME sweeper.todo # << >>, NEW rec \in Records, sweeper' = Keeping(rec)
        PROVE  OnTrack(sweeper)'
    BY <1>0, <2>4, KeepingOnTrack
  <2> QED BY <1>2, <2>1, <2>2, <2>3, <2>4, ScriptMoves
<1>3. CASE Kill
  BY <1>0, <1>3, KillIs, GoneOnTrack
<1>4. CASE UNCHANGED sweepVars
  BY <1>4 DEF sweepVars, OnTrack
<1> QED BY <1>1, <1>2, <1>3, <1>4, SweepMoves

LEMMA DoneKept ==
  ASSUME Types, OnTrack(sweeper), DoneIsComplete, [Next]_flowVars
  PROVE  DoneIsComplete'
<1> USE DEF Types
<1>1. CASE Aggregate
  <2>1. CASE ~Complete \/ sweeper.records = << >>
    <3>1. exit' = "failed"
      BY <1>1, <2>1 DEF Aggregate
    <3> QED BY <3>1 DEF DoneIsComplete
  <2>2. CASE Complete /\ sweeper.records # << >>
    <3>1. /\ sweep' = [records |-> sweeper.records, commit |-> sweeper.commit,
                       config |-> sweeper.config, requested |-> sweeper.seeds]
          /\ sweeper.todo = << >> /\ sweeper.at = "loop"
      BY <1>1, <2>2 DEF Aggregate
    <3>2. PICK records \in Seq(Entries) : records = sweeper.records
      BY DEF SweepTypes, Sweepers
    <3>3. PICK seeds \in Seq(Seeds) : seeds = sweeper.seeds
      BY DEF SweepTypes, Sweepers
    <3>4. Len(records) = Len(seeds) /\ Len(records) + Len(sweeper.todo) = Len(seeds)
      <4>1. Len(sweeper.todo) = 0
        BY <3>1
      <4>2. Len(records) \in Nat
        BY <3>2, LenProperties
      <4> QED BY <2>2, <3>2, <3>3, <4>1, <4>2 DEF Complete
    <3>5. \A i \in 1 .. Len(records) : records[i].seed = seeds[i]
      BY <3>2, <3>3, <3>4 DEF OnTrack
    <3>6. DOMAIN records = 1 .. Len(seeds) /\ seeds = [i \in 1 .. Len(seeds) |-> seeds[i]]
      BY <3>2, <3>3, <3>4, LenProperties
    <3>7. [i \in DOMAIN records |-> records[i].seed] = [i \in 1 .. Len(seeds) |-> seeds[i]]
      BY <3>4, <3>5, <3>6
    <3>8. [i \in DOMAIN records |-> records[i].seed] = seeds
      BY <3>6, <3>7
    <3>9. sweep' \in Sweeps
      <4>1. /\ sweeper.commit \in Commits /\ sweeper.config \in Asked
        BY <3>1 DEF SweepTypes
      <4> QED BY <3>1, <3>2, <3>3, <4>1 DEF Sweeps
    <3>10. sweep'.records = records /\ sweep'.requested = seeds
      BY <3>1, <3>2, <3>3
    <3> QED BY <3>8, <3>9, <3>10 DEF DoneIsComplete
  <2> QED BY <2>1, <2>2
<1>2. CASE Script /\ ~Aggregate
  <2>1. exit' = "failed" \/ UNCHANGED <<exit, sweep>>
    BY <1>2 DEF Script, SweepStep, Reuse, ResumeRaises, RunOne, MakeReturns, Capture, Validate
  <2> QED BY <2>1 DEF DoneIsComplete
<1>3. CASE StartSweep
  <2>1. exit' = "running"
    BY <1>3 DEF StartSweep, Launch
  <2> QED BY <2>1 DEF DoneIsComplete
<1>4. CASE Kill
  BY <1>4, KillIs DEF DoneIsComplete
<1>5. CASE UNCHANGED sweepVars
  BY <1>5 DEF sweepVars, DoneIsComplete
<1> QED BY <1>1, <1>2, <1>3, <1>4, <1>5, SweepMoves

-----------------------------------------------------------------------------
(* Work that is done is kept.                                              *)

LEMMA WorkInvKept ==
  ASSUME FilesApart, Types, WorkInv, [Next]_flowVars
  PROVE  WorkInv'
<1> USE DEF Types
<1>1. CASE StartSweep
  <2>1. PICK r \in Requests, resume \in BOOLEAN, target \in Targets :
          Launch(r.chunks, resume, r.config, target)
    BY <1>1 DEF StartSweep
  <2> QED BY <2>1, LaunchIs DEF WorkInv
<1>2. CASE RunOne
  <2>1. /\ Present => files[Seed] # Torn /\ ~MatchesHead(files[Seed])
        /\ sweeper' = [sweeper EXCEPT !.at = "make"] /\ files' = files
    BY <1>2 DEF RunOne
  <2>6. sweeper' = [sweeper EXCEPT !.at = "make"]
    BY <2>1
  <2>0. Seed' = Seed /\ sweeper'.resume = sweeper.resume /\ sweeper'.commit = sweeper.commit
    BY <2>6, Onward DEF Seed
  <2>2. (files[Seed])' = files[Seed]
    BY <2>0, <2>1
  <2>3. files[Seed] \in Records /\ sweeper.resume => Present
    BY DEF Present, FilesApart
  <2>4. ~(sweeper.resume /\ files[Seed] \in Records /\ MatchesHead(files[Seed]))
    BY <2>1, <2>3
  <2>5. ~(sweeper'.resume /\ (files[Seed])' \in Records /\ MatchesHead(files[Seed])')
    BY <2>0, <2>2, <2>4 DEF MatchesHead
  <2> QED BY <2>5 DEF WorkInv
<1>3. CASE MakeReturns
  <2>1. CASE sweeper' = [sweeper EXCEPT !.at = "capture"]
    <3>1. Seed' = Seed /\ sweeper'.resume = sweeper.resume /\ sweeper'.commit = sweeper.commit
      BY <2>1, Onward DEF Seed
    <3> QED BY <1>3, <3>1 DEF MakeReturns, WorkInv, MatchesHead
  <2>2. CASE sweeper' = NextSeed
    <3>1. sweeper'.at = "loop"
      BY <1>3, <2>2, ToNextSeed DEF MakeReturns, SweepTypes
    <3> QED BY <3>1 DEF WorkInv
  <2> QED BY <1>3, <2>1, <2>2 DEF MakeReturns
<1>4. CASE Script /\ ~RunOne /\ ~MakeReturns
  <2>1. sweeper'.at \in {"gone", "loop", "validate"}
    <3>1. CASE sweeper' = Gone
      BY <3>1, GoneIs
    <3>2. CASE sweeper.todo # << >> /\ sweeper' = NextSeed
      BY <3>2, ToNextSeed
    <3>3. ASSUME sweeper.todo # << >>, NEW rec \in Records, sweeper' = Keeping(rec)
          PROVE  sweeper'.at = "loop"
      BY <3>3, ToNextRecord
    <3>4. CASE sweeper' = [sweeper EXCEPT !.at = "validate"]
      BY <3>4, Onward
    <3>5. CASE Capture \/ Validate
      BY <3>2, <3>3, <3>4, <3>5 DEF Capture, Validate, SweepTypes
    <3>6. CASE Reuse
      <4>1. files[Seed] \in Records
        BY <3>6, WholeFile, SeedIsSeed DEF Reuse, InLoop, Present
      <4> QED BY <3>3, <3>6, <4>1 DEF Reuse, InLoop
    <3> QED BY <1>4, <3>1, <3>5, <3>6 DEF Script, SweepStep, ResumeRaises, Aggregate
  <2> QED BY <2>1 DEF WorkInv
<1>5. CASE Kill
  BY <1>5, KillIs, GoneIs DEF WorkInv
<1>6. CASE UNCHANGED sweepVars
  BY <1>6 DEF sweepVars, WorkInv, Seed, MatchesHead
<1> QED BY <1>1, <1>2, <1>3, <1>4, <1>5, <1>6, SweepMoves

\* What WorkIsKept says of one step.
FilesKept ==
  \A s \in Seeds :
    sweeper.at # "gone" /\ sweeper.resume /\ files[s] \in Records /\ MatchesHead(files[s])
    /\ ~(sweeper.at = "validate" /\ Seed = s)
      => files'[s] = files[s]
BaseKept == \A f \in EvidenceFiles : base[f] # NoFile /\ base'[f] # base[f] => filler.force

LEMMA StepKeepsFiles ==
  ASSUME FilesApart, Types, WorkInv, [Next]_flowVars
  PROVE  FilesKept
<1> USE DEF Types
<1>0. ASSUME sweeper.at = "capture", NEW x, files' = [files EXCEPT ![Seed] = x]
      PROVE  FilesKept
  <2> SUFFICES ASSUME NEW s \in Seeds, sweeper.resume, files[s] \in Records, MatchesHead(files[s])
               PROVE  files'[s] = files[s]
    BY DEF FilesKept
  <2>1. s # Seed
    BY <1>0 DEF WorkInv
  <2> QED BY <1>0, <2>1 DEF SweepTypes
<1>1. CASE Capture
  BY <1>0, <1>1 DEF Capture, FilesKept
<1>2. CASE Kill
  BY <1>0, <1>2, KillIs DEF FilesKept
<1>3. CASE UNCHANGED files
  BY <1>3 DEF FilesKept
<1>4. CASE Script /\ ~Capture
  BY <1>3, <1>4 DEF Script, SweepStep, Reuse, ResumeRaises, RunOne, MakeReturns, Validate, Aggregate
<1>5. CASE StartSweep
  BY <1>3, <1>5 DEF StartSweep, Launch
<1> QED BY <1>1, <1>2, <1>3, <1>4, <1>5, SweepMoves DEF sweepVars

\* Who writes the baseline.
LEMMA BaseMoves ==
  ASSUME [Next]_flowVars
  PROVE  UNCHANGED baseVars \/ StartFill \/ Fill \/ (KillFiller /\ UNCHANGED sweepVars)
BY DEF Next, StartSweep, ByHand, HandDone, Developer, Recipe, Script, Interrupt, flowVars

LEMMA StepKeepsBase ==
  ASSUME FilesApart, Types, [Next]_flowVars
  PROVE  BaseKept
<1> USE DEF Types
<1>1. CASE WriteNext
  <2> DEFINE f == Evidence[filler.next]
  <2>1. f \in EvidenceFiles /\ filler.next > 0 /\ (Write(f) \/ Leave(f) \/ Warn(f))
    BY <1>1, WriteIs, EvidenceIs
  <2> HIDE DEF f
  <2>2. /\ base'[f] # base[f] => MayWrite(f)
        /\ \A g \in EvidenceFiles : g # f => base'[g] = base[g]
    BY <2>1, TurnIs
  <2> QED BY <2>2 DEF BaseKept, MayWrite
<1>2. CASE KillFiller
  <2>1. Evidence[filler.next] \in EvidenceFiles
    BY <1>2, KillFillerIs, EvidenceIs
  <2> QED BY <1>2, <2>1, KillFillerIs DEF MayWrite, BaseKept, BaseTypes, BaseTypeOK
<1>3. CASE UNCHANGED base
  BY <1>3 DEF BaseKept
<1> QED BY <1>1, <1>2, <1>3, BaseMoves DEF Fill, FillStep, Finish, StartFill, Populate, baseVars

-----------------------------------------------------------------------------
(* The compile behind the baseline.                                        *)

\* What can become of the reports and the record: nothing; they are rewritten or
\* torn by the recipe under way; it exports; or something is begun anew.
OutRests == UNCHANGED <<out, latest, built>> /\ (make'.at \in Working => make.at \in Working)
OutUnderWay ==
  /\ make.at \in Working /\ built' = built /\ latest' \in {latest, Torn}
  /\ \A r \in Reports : out'[r] = out[r] \/ out'[r] = Torn
                         \/ (out'[r] \in Fits /\ out'[r].nr = built)
OutExported ==
  /\ make.at \in Working /\ make'.at \notin Working /\ UNCHANGED <<out, built>>
  /\ latest' \in Records /\ latest'.of.nr = built /\ \A r \in Reports : out[r] = latest'.of
OutBegun ==
  /\ built' = built + 1 /\ latest' = latest
  /\ (\A r \in Reports : out'[r] = out[r]) \/ (\A r \in Reports : out'[r] = NoFile)

LEMMA RecipeOut ==
  ASSUME FilesApart, MakeTypes, MakeStep
  PROVE  OutRests \/ OutUnderWay \/ OutExported
<1>0. make \in Making
  BY MakeStepTypes
<1>1. CASE Regen \/ Fails
  BY <1>1 DEF Regen, Fails, OutRests, Working
<1>2. CASE Parse
  <2>1. \E rc : Exit(rc)
    BY <1>2 DEF Parse
  <2>2. make'.at = "done"
    BY <1>0, <2>1, MakeMoves
  <2> QED BY <1>2, <2>2 DEF Parse, OutRests, Working
<1>3. CASE Export
  <2>1. make'.at = "parse"
    BY <1>0, <1>3, MakeMoves DEF Export
  <2> QED BY <1>3, <2>1, ExportIs DEF Export, OutExported, Working
<1>4. CASE Syn
  <2> DEFINE c == [seed |-> make.seed, commit |-> head, config |-> pkg, nr |-> built]
  <2>1. c \in Fits
    BY <1>0 DEF Fits, Making, MakeTypes, MakeTypeOK
  <2>2. c.nr = built
    OBVIOUS
  <2>3. Replace("syn", c) /\ UNCHANGED <<latest, built>> /\ make.at = "syn"
    BY <1>4 DEF Syn
  <2> HIDE DEF c
  <2>4. out'["syn"] = c /\ \A r \in Reports : r # "syn" => out'[r] = out[r]
    BY <2>1, <2>3, Replacing DEF Reports, MakeTypes
  <2> QED BY <2>1, <2>2, <2>3, <2>4 DEF OutUnderWay, Working
<1>5. CASE Fitter
  <2>1. /\ out["syn"] \in Fits /\ out["syn"].nr = built /\ UNCHANGED <<latest, built>>
        /\ make.at = "fit"
    BY <1>5 DEF Fitter, MakeTypes, Carried
  <2>2. out'["fit"] = out["syn"] /\ \A r \in Reports : r # "fit" => out'[r] = out[r]
    BY <1>5, <2>1, Replacing DEF Fitter, Reports, MakeTypes
  <2> QED BY <2>1, <2>2 DEF OutUnderWay, Working
<1>6. CASE Sta
  <2>1. /\ out["syn"] \in Fits /\ out["syn"].nr = built /\ out["fit"] = out["syn"]
        /\ UNCHANGED <<latest, built>> /\ make.at = "sta"
    BY <1>6 DEF Sta, MakeTypes, Carried
  <2>2. out'["sta"] = out["syn"] /\ \A r \in Reports : r # "sta" => out'[r] = out[r]
    BY <1>6, <2>1, Replacing DEF Sta, Reports, MakeTypes
  <2> QED BY <2>1, <2>2 DEF OutUnderWay, Working
<1> QED BY <1>1, <1>2, <1>3, <1>4, <1>5, <1>6 DEF MakeStep

LEMMA OutMoves ==
  ASSUME FilesApart, Types, [Next]_flowVars
  PROVE  OutRests \/ OutUnderWay \/ OutExported \/ OutBegun
<1> USE DEF Types
<1>1. CASE UNCHANGED makeVars
  BY <1>1 DEF makeVars, OutRests
<1>2. ASSUME NEW seed, NEW target, Started(seed, target), UNCHANGED <<out, latest>> PROVE OutBegun
  BY <1>2 DEF Started, OutBegun
<1>3. CASE KillMake
  <2>1. make'.at \notin Working /\ built' = built
    BY <1>3, KillMakeIs DEF Idle, Working
  <2>2. CASE make.at \in Working
    BY <1>3, <2>1, <2>2, KillMakeIs DEF OutUnderWay
  <2>3. CASE make.at \notin Working
    <3>1. UNCHANGED <<out, latest>>
      BY <1>3, <2>3 DEF KillMake, Working, Reports
    <3> QED BY <2>1, <3>1 DEF OutRests
  <2> QED BY <2>2, <2>3
<1>4. CASE make' = Idle /\ UNCHANGED <<out, latest, built>>
  BY <1>4 DEF OutRests, Idle, Working
<1>5. CASE Developer
  <2>1. CASE Commit \/ OtherBuild
    BY <2>1 DEF Commit, OtherBuild, OutRests
  <2>2. CASE Clean
    BY <2>2, CleanIs DEF OutBegun
  <2> QED BY <1>5, <2>1, <2>2 DEF Developer
<1>6. CASE Script
  BY <1>1, <1>2, <1>4, <1>6
     DEF Script, SweepStep, Reuse, ResumeRaises, RunOne, MakeReturns, Capture, Validate, Aggregate
<1>7. CASE Recipe
  BY <1>7, RecipeOut DEF Recipe
<1>8. CASE StartSweep \/ StartFill \/ Fill
  BY <1>1, <1>8 DEF StartSweep, StartFill, Populate, Fill, FillStep, WriteNext, Finish
<1>9. CASE Interrupt
  BY <1>1, <1>3, <1>9 DEF Interrupt, Kill, KillFiller
<1>10. CASE ByHand
  <2>1. Started(DefaultSeed, "quartus-compile") /\ UNCHANGED <<out, latest>>
    BY <1>10 DEF ByHand
  <2> QED BY <1>2, <2>1
<1>11. CASE HandDone
  <2>1. make' = Idle /\ UNCHANGED <<out, latest, built>>
    BY <1>11 DEF HandDone
  <2> QED BY <1>4, <2>1
<1>12. CASE UNCHANGED flowVars
  BY <1>1, <1>12 DEF flowVars
<1> QED BY <1>5, <1>6, <1>7, <1>8, <1>9, <1>10, <1>11, <1>12 DEF Next

\* What the compile of a record has settled stays settled, ...
LEMMA SettledKept ==
  ASSUME FilesApart, Types, [Next]_flowVars, NEW c \in Fits, Settled(c)
  PROVE  Settled(c)' /\ built' >= built
<1>1. c.nr \in Nat /\ built \in Nat /\ c.nr <= built
  BY DEF Types, MakeTypes, MakeTypeOK, Fits, Settled
<1>2. \A d \in Fits : d.nr \in Nat
  BY DEF Fits
<1>3. Torn \notin Fits \cup Records /\ NoFile \notin Fits
  BY DEF FilesApart
<1>4. CASE OutRests
  BY <1>1, <1>4 DEF OutRests, Settled
<1>5. CASE OutUnderWay
  <2>1. c.nr < built /\ built' = built
    BY <1>5 DEF OutUnderWay, Settled
  <2>2. \A r \in Reports : out'[r] \in Fits => out'[r].nr >= c.nr
    BY <1>1, <1>3, <1>5, <2>1 DEF OutUnderWay, Settled
  <2>3. latest' \in Records => latest'.of.nr >= c.nr
    BY <1>3, <1>5 DEF OutUnderWay, Settled
  <2> QED BY <1>1, <2>1, <2>2, <2>3 DEF Settled
<1>6. CASE OutExported
  <2>1. c.nr < built /\ built' = built /\ out' = out
    BY <1>6 DEF OutExported, Settled
  <2>2. latest'.of.nr >= c.nr
    BY <1>1, <1>6, <2>1 DEF OutExported
  <2> QED BY <1>1, <2>1, <2>2 DEF Settled
<1>7. CASE OutBegun
  <2>1. c.nr < built' /\ built' >= built /\ built' \in Nat
    BY <1>1, <1>7 DEF OutBegun
  <2>4. c.nr # built' /\ c.nr <= built'
    BY <1>1, <2>1
  <2>2. \A r \in Reports : out'[r] \in Fits => out'[r].nr >= c.nr
    BY <1>3, <1>7 DEF OutBegun, Settled
  <2>3. latest' \in Records => latest'.of.nr >= c.nr
    BY <1>7 DEF OutBegun, Settled
  <2> QED BY <2>1, <2>2, <2>3, <2>4 DEF Settled
<1>8. built' >= built
  <2>1. built' = built \/ built' = built + 1
    BY OutMoves DEF OutRests, OutUnderWay, OutExported, OutBegun
  <2> QED BY <1>1, <2>1
<1>9. OutRests \/ OutUnderWay \/ OutExported \/ OutBegun
  BY OutMoves
<1> QED BY <1>4, <1>5, <1>6, <1>7, <1>8, <1>9

\* ... and a new record comes with a compile that is settled.
LEMMA LatestSettled ==
  ASSUME FilesApart, Types, [Next]_flowVars, latest \in Records => Settled(latest.of)
  PROVE  (latest \in Records => Settled(latest.of))'
<1>1. SUFFICES ASSUME latest' \in Records PROVE Settled(latest.of)'
  OBVIOUS
<1>2. PICK c : c = latest'.of
  OBVIOUS
<1>3. c \in Fits /\ c.nr \in Nat
  BY <1>1, <1>2 DEF Records, Fits
<1>4. CASE OutExported
  BY <1>2, <1>3, <1>4 DEF OutExported, Settled
<1>5. CASE ~OutExported
  <2>1. latest' = latest
    BY <1>1, <1>5, OutMoves DEF OutRests, OutUnderWay, OutBegun, FilesApart
  <2>2. Settled(c)
    BY <1>1, <1>2, <2>1
  <2>3. Settled(c)'
    BY <1>3, <2>2, SettledKept
  <2> QED BY <1>2, <2>3 DEF Settled
<1> QED BY <1>4, <1>5

\* A file of the baseline stays sound while it and the record stay what they are.
LEMMA SoundKept ==
  ASSUME FilesApart, Types, [Next]_flowVars, filler.rec \in Records, Settled(filler.rec.of),
         filler'.rec = filler.rec, filler'.force = filler.force,
         NEW f \in EvidenceFiles, base'[f] = base[f], before'[f] = before[f], Sound(f)
  PROVE  Sound(f)'
<1>1. filler.rec.of \in Fits
  BY DEF Records
<1>2. filler.rec.of.nr \in Nat /\ built \in Nat /\ filler.rec.of.nr <= built
  BY <1>1 DEF Fits, Settled, Types, MakeTypes, MakeTypeOK
<1>3. PICK c \in Fits : c = filler.rec.of
  BY <1>1
<1>4. built' >= built /\ built' \in Nat
  BY <1>3, SettledKept, TypesKept DEF Types, MakeTypes, MakeTypeOK
<1>5. c.nr = built' => c.nr = built
  BY <1>2, <1>3, <1>4
<1>6. Renewed(f)' <=> Renewed(f)
  BY DEF Renewed
<1> QED BY <1>3, <1>5, <1>6 DEF Sound

\* When its turn comes a file is made sound, or left so.
LEMMA TurnIsSound ==
  ASSUME FilesApart, Types, filler.next > 0, filler.rec \in Records, Settled(filler.rec.of),
         latest \in Records => Settled(latest.of),
         NEW f \in EvidenceFiles, base[f] = before[f], Write(f) \/ Leave(f) \/ Warn(f),
         UNCHANGED <<before, makeVars>>, filler'.rec = filler.rec, filler'.force = filler.force
  PROVE  Sound(f)'
<1> USE DEF Types
<1>1. PICK c \in Fits : c = filler.rec.of
  BY DEF Records
<1>2. c.nr \in Nat /\ c \notin {NoFile, Torn} /\ Settled(c)
  BY <1>1 DEF Fits, FilesApart
<1>3. Renewed(f) <=> MayWrite(f)
  BY DEF Renewed, MayWrite
<1>4. /\ (Renewed(f)' <=> Renewed(f)) /\ before'[f] = before[f] /\ built' = built
      /\ filler'.rec.of = c
  BY <1>1 DEF Renewed, makeVars
<1>5. SUFFICES
        IF ~Renewed(f) THEN base'[f] = before[f]
        ELSE /\ base'[f] \in {before[f], Torn} \/ base'[f].nr >= c.nr
             /\ f \in ByValue \/ (c.nr = built /\ f # "constraints_report") => base'[f] = c
             /\ c.nr = built => base'[f] \in {c, before[f], Torn}
  BY <1>4 DEF Sound
\* What a source is, once the compile is settled.
<1>6. /\ f \in ByValue => Source(f) = c
      /\ c.nr = built => Source(f) = c
      /\ Source(f) \in {NoFile, Torn} \/ Source(f).nr >= c.nr
  <2>1. CASE f \in {"constraints_report", "compile_record"}
    <3>1. Source(f) = Measured(latest) /\ f \notin ByValue
      <4>1. CASE f = "constraints_report"
        BY <4>1 DEF Source, ByValue, Reports
      <4>2. CASE f = "compile_record"
        BY <4>2 DEF Source, ByValue, Reports
      <4> QED BY <2>1, <4>1, <4>2
    <3>2. CASE latest \in Records
      BY <1>2, <3>1, <3>2, MeasuredIs DEF Settled
    <3>3. CASE latest \in {NoFile, Torn}
      BY <1>2, <3>1, <3>3, MeasuredIs DEF Settled, FilesApart
    <3> QED BY <3>2, <3>3 DEF MakeTypes, MakeTypeOK
  <2>2. CASE f \in Reports
    <3>1. Source(f) = out[f] /\ f \notin ByValue
      BY <2>2 DEF Source, ByValue, Reports
    <3>2. out[f] \in Fits \cup {NoFile, Torn}
      BY <2>2 DEF MakeTypes, MakeTypeOK
    <3> QED BY <1>2, <2>2, <3>1, <3>2 DEF Settled
  <2>3. CASE f \notin {"constraints_report", "compile_record"} \cup Reports
    BY <1>1, <1>2, <2>3 DEF Source
  <2> QED BY <2>1, <2>2, <2>3
<1>7. CASE Write(f)
  <2>1. base'[f] = Source(f) /\ Source(f) # NoFile /\ MayWrite(f)
    BY <1>7, TurnIs DEF Write
  <2> QED BY <1>3, <1>6, <2>1
<1>8. CASE Leave(f)
  <2>1. base'[f] = before[f] /\ (~MayWrite(f) \/ Source(f) = NoFile)
    BY <1>8 DEF Leave
  <2> QED BY <1>2, <1>3, <1>6, <2>1
<1>9. CASE Warn(f)
  <2>1. base'[f] \in {before[f], Torn} /\ f = "constraints_report" /\ MayWrite(f)
    BY <1>9, TurnIs DEF Warn
  <2> QED BY <1>3, <2>1 DEF ByValue
<1> QED BY <1>7, <1>8, <1>9

LEMMA FillInvKept ==
  ASSUME FilesApart, Types, FillInv, [Next]_flowVars
  PROVE  FillInv'
<1>0. (latest \in Records => Settled(latest.of))'
  BY LatestSettled DEF FillInv
<1>1. ASSUME filled \in {"running", "done"}, filler'.rec = filler.rec
      PROVE  Settled(filler.rec.of)'
  <2>1. PICK c \in Fits : c = filler.rec.of
    BY <1>1 DEF Types, BaseTypes, Records
  <2>2. Settled(c)'
    BY <1>1, <2>1, SettledKept DEF FillInv
  <2> QED BY <1>1, <2>1, <2>2 DEF Settled
<1>2. CASE UNCHANGED baseVars
  <2>1. UNCHANGED <<filler, base, before, filled>>
    BY <1>2 DEF baseVars
  <2> SUFFICES ASSUME filled \in {"running", "done"}, NEW i \in 1 .. 9
               PROVE  IF i < Place THEN Sound(Evidence[i])'
                      ELSE base[Evidence[i]] = before[Evidence[i]]
    BY <1>0, <1>1, <2>1 DEF FillInv, Place
  <2>2. Evidence[i] \in EvidenceFiles /\ filler.rec \in Records /\ Settled(filler.rec.of)
    BY EvidenceIs DEF Types, BaseTypes, FillInv
  <2>3. IF i < Place THEN Sound(Evidence[i]) ELSE base[Evidence[i]] = before[Evidence[i]]
    BY DEF FillInv
  <2>4. PICK f \in EvidenceFiles : f = Evidence[i]
    BY <2>2
  <2>5. Sound(f) => Sound(f)'
    BY <2>1, <2>2, SoundKept
  <2> QED BY <2>3, <2>4, <2>5 DEF Evidence
<1>3. CASE StartFill
  <2>1. PICK force \in BOOLEAN : Populate(force)
    BY <1>3 DEF StartFill
  <2>2. CASE ~Accepted(latest)
    <3>1. filled' = "failed"
      BY <2>1, <2>2 DEF Populate
    <3> QED BY <1>0, <3>1 DEF FillInv
  <2>3. CASE Accepted(latest)
    <3>1. /\ filler' = [next |-> 1, force |-> force, rec |-> latest] /\ filled' = "running"
          /\ before' = base /\ base' = base /\ UNCHANGED makeVars
      BY <2>1, <2>3 DEF Populate
    <3>2. latest \in Records /\ latest' = latest /\ filler'.rec = latest /\ filler'.next = 1
      BY <2>3, <3>1 DEF Accepted, Types, MakeTypes, MakeTypeOK, makeVars
    <3>3. Settled(filler.rec.of)'
      BY <1>0, <3>2 DEF Settled
    <3>4. \A i \in 1 .. 9 : ~(i < Place') /\ (base[Evidence[i]] = before[Evidence[i]])'
      BY <3>1, <3>2 DEF Place
    <3> QED BY <1>0, <3>3, <3>4 DEF FillInv
  <2> QED BY <2>2, <2>3
<1>4. CASE WriteNext
  <2> DEFINE k == filler.next
  <2>1. /\ k \in 1 .. 9 /\ filler'.next = k + 1 /\ filler'.force = filler.force
        /\ filler'.rec = filler.rec /\ UNCHANGED <<before, filled, makeVars>>
        /\ Write(Evidence[k]) \/ Leave(Evidence[k]) \/ Warn(Evidence[k])
    BY <1>4, WriteIs DEF Types
  <2>2. filled = "running" /\ filler.rec \in Records /\ Place = k /\ Place' = k + 1
    BY <2>1 DEF Types, BaseTypes, Place
  <2> HIDE DEF k
  <2>3. /\ Settled(filler.rec.of) /\ (latest \in Records => Settled(latest.of))
        /\ \A i \in 1 .. 9 : IF i < k THEN Sound(Evidence[i])
                             ELSE base[Evidence[i]] = before[Evidence[i]]
    BY <2>2 DEF FillInv
  <2>4. PICK f \in EvidenceFiles : f = Evidence[k]
    BY <2>1, EvidenceIs
  <2>5. filler.next > 0 /\ base[f] = before[f]
    BY <2>1, <2>3, <2>4 DEF k
  <2>6. Sound(f)' /\ \A g \in EvidenceFiles : g # f => base'[g] = base[g]
    BY <2>1, <2>2, <2>3, <2>4, <2>5, TurnIsSound, TurnIs DEF Types
  <2>7. ASSUME NEW i \in 1 .. 9
        PROVE  IF i < k + 1 THEN Sound(Evidence[i])'
               ELSE base'[Evidence[i]] = before'[Evidence[i]]
    <3>1. PICK g \in EvidenceFiles : g = Evidence[i]
      BY EvidenceIs
    <3>2. CASE i = k
      <4>1. g = f /\ i < k + 1
        BY <2>1, <2>4, <3>1, <3>2
      <4> QED BY <2>4, <2>6, <3>1, <3>2, <4>1 DEF Evidence
    <3>3. CASE i # k
      <4>1. g # f /\ (i < k + 1 <=> i < k)
        BY <2>1, <2>4, <3>1, <3>3, EvidenceIs
      <4>2. base'[g] = base[g] /\ before'[g] = before[g]
        BY <2>1, <2>6, <4>1
      <4>3. Sound(g) => Sound(g)'
        BY <2>1, <2>2, <2>3, <4>2, SoundKept
      <4> QED BY <2>3, <3>1, <4>1, <4>2, <4>3 DEF Evidence
    <3> QED BY <3>2, <3>3
  <2> QED BY <1>0, <1>1, <2>1, <2>2, <2>7 DEF FillInv
<1>5. CASE Finish
  <2>1. /\ filler.next = 10 /\ filler'.rec = filler.rec /\ filler'.force = filler.force
        /\ filled' = "done" /\ UNCHANGED <<base, before>>
    BY <1>5, FinishIs DEF Types
  <2>2. filled = "running" /\ filler.rec \in Records /\ Place = 10 /\ Place' = 10
    BY <2>1 DEF Types, BaseTypes, Place
  <2>3. Settled(filler.rec.of) /\ \A i \in 1 .. 9 : Sound(Evidence[i])
    BY <2>2 DEF FillInv
  <2>4. \A f \in EvidenceFiles : Sound(f)
    BY <2>3, EvidenceIs
  <2>5. \A f \in EvidenceFiles : Sound(f)'
    BY <2>1, <2>2, <2>3, <2>4, SoundKept
  <2>6. \A i \in 1 .. 9 : Sound(Evidence[i])'
    BY <2>5, EvidenceIs
  <2> QED BY <1>0, <1>1, <2>1, <2>2, <2>6 DEF FillInv
<1>6. CASE KillFiller
  BY <1>0, <1>6, KillFillerIs DEF FillInv
<1>7. CASE Fill
  BY <1>4, <1>5, <1>7 DEF Fill, FillStep
<1> QED BY <1>2, <1>3, <1>6, <1>7, BaseMoves

-----------------------------------------------------------------------------
(* What undisturbed sweeps keep.                                           *)

Calmly == calm /\ FilesGood /\ RecordsGood /\ Underway /\ Waiting

\* A sweep that captures or validates holds a good record.
LEMMA CapturedIsGood ==
  ASSUME Types, Calmly
  PROVE  /\ sweeper.at = "capture" => latest \in Records /\ Good(latest, Seed)
         /\ sweeper.at = "validate" => /\ files[Seed] \in Records /\ Good(files[Seed], Seed)
                                       /\ files[Seed].commit = sweeper.commit
<1> USE DEF Calmly, Types
<1>1. ASSUME sweeper.at = "capture" PROVE latest \in Records /\ Good(latest, Seed)
  BY <1>1 DEF Waiting, MakeTypes, MakeTypeOK
<1>2. ASSUME sweeper.at = "validate"
      PROVE  /\ files[Seed] \in Records /\ Good(files[Seed], Seed)
             /\ files[Seed].commit = sweeper.commit
  <2>1. sweeper.todo # << >>
    BY <1>2 DEF SweepTypes
  <2>2. Seed \in Seeds
    BY <2>1, SeedIsSeed
  <2>3. /\ files[Seed] \in Records /\ files[Seed].commit = head
        /\ sweeper.commit = head
    BY <1>2 DEF Waiting
  <2> QED BY <2>2, <2>3 DEF FilesGood
<1> QED BY <1>1, <1>2

LEMMA FilesGoodKept ==
  ASSUME FilesApart, Types, Calmly, [Next]_flowVars
  PROVE  FilesGood'
<1>1. CASE UNCHANGED files
  BY <1>1 DEF Calmly, FilesGood
<1>2. ASSUME Seed \in Seeds, NEW x, files' = [files EXCEPT ![Seed] = x],
             x \in Records => Good(x, Seed)
      PROVE  FilesGood'
  <2> SUFFICES ASSUME NEW s \in Seeds, files'[s] \in Records PROVE Good(files'[s], s)
    BY DEF FilesGood
  <2>1. files'[s] = IF s = Seed THEN x ELSE files[s]
    BY <1>2 DEF Types, SweepTypes
  <2> QED BY <1>2, <2>1 DEF Calmly, FilesGood
<1>3. CASE Capture
  <2>1. sweeper.at = "capture" /\ Seed \in Seeds
    BY <1>3, SeedIsSeed DEF Capture, Types, SweepTypes
  <2>2. Good(latest, Seed)
    BY <2>1, CapturedIsGood
  <2> QED BY <1>1, <1>2, <1>3, <2>1, <2>2 DEF Capture
<1>4. CASE Kill
  BY <1>1, <1>2, <1>4, KillIs DEF FilesApart, Types
<1>5. CASE Script /\ ~Capture
  BY <1>1, <1>5 DEF Script, SweepStep, Reuse, ResumeRaises, RunOne, MakeReturns, Validate, Aggregate
<1>6. CASE StartSweep
  BY <1>1, <1>6 DEF StartSweep, Launch
<1> QED BY <1>1, <1>3, <1>4, <1>5, <1>6, SweepMoves DEF sweepVars

LEMMA AllGoodAppend ==
  ASSUME NEW entries \in Seq(Entries), NEW commit, AllGood(entries, commit),
         NEW rec \in Records, NEW seed \in Seeds, Good(rec, seed), rec.commit = commit
  PROVE  AllGood(Append(entries, [seed |-> seed, rec |-> rec]), commit)
<1>1. PICK entry \in Entries : entry = [seed |-> seed, rec |-> rec]
  BY DEF Entries
<1>2. /\ DOMAIN Append(entries, entry) = 1 .. Len(entries) + 1
      /\ Append(entries, entry)[Len(entries) + 1] = entry
      /\ \A i \in 1 .. Len(entries) : Append(entries, entry)[i] = entries[i]
  BY AppendProperties
<1>3. \A i \in 1 .. Len(entries) : /\ Good(entries[i].rec, entries[i].seed)
                                   /\ entries[i].rec.commit = commit
  BY LenProperties DEF AllGood
<1> SUFFICES ASSUME NEW i \in 1 .. Len(entries) + 1
             PROVE  LET e == Append(entries, entry)[i]
                    IN  Good(e.rec, e.seed) /\ e.rec.commit = commit
  BY <1>1, <1>2 DEF AllGood
<1>4. CASE i = Len(entries) + 1
  BY <1>1, <1>2, <1>4
<1>5. CASE i # Len(entries) + 1
  <2>1. i \in 1 .. Len(entries)
    BY <1>5, LenProperties
  <2> QED BY <1>2, <1>3, <2>1
<1> QED BY <1>4, <1>5

LEMMA NoneAreGood == ASSUME NEW commit PROVE AllGood(<< >>, commit)
BY DEF AllGood

LEMMA RecordsGoodKept ==
  ASSUME FilesApart, Types, Calmly, [Next]_flowVars
  PROVE  RecordsGood'
<1>0. ASSUME NEW s, sweeper' = s, AllGood(s.records, s.commit), sweep' \in {sweep, Torn}
      PROVE  RecordsGood'
  <2>1. sweep' = sweep => (sweep' \in Sweeps => AllGood(sweep'.records, sweep'.commit))
    BY DEF Calmly, RecordsGood
  <2>2. sweep' \in Sweeps => sweep' = sweep
    BY <1>0 DEF FilesApart
  <2>3. AllGood(sweeper'.records, sweeper'.commit)
    BY <1>0
  <2> QED BY <2>1, <2>2, <2>3 DEF RecordsGood, AllGood
<1>1. AllGood(sweeper.records, sweeper.commit) /\ AllGood(Gone.records, Gone.commit)
  BY NoneAreGood, GoneIs DEF Calmly, RecordsGood
<1>2. CASE StartSweep
  <2>1. PICK r \in Requests, resume \in BOOLEAN, target \in Targets :
          Launch(r.chunks, resume, r.config, target)
    BY <1>2 DEF StartSweep
  <2>2. sweeper'.records = << >> /\ sweep' = sweep
    BY <2>1, LaunchIs DEF Types, Launch
  <2>3. PICK s : s = sweeper'
    OBVIOUS
  <2> QED BY <1>0, <2>2, <2>3, NoneAreGood
<1>3. CASE Aggregate
  <2>1. sweeper' = Gone
    BY <1>3 DEF Aggregate
  <2>2. CASE sweep' = sweep
    BY <1>0, <1>1, <2>1, <2>2
  <2>3. CASE sweep' = [records |-> sweeper.records, commit |-> sweeper.commit,
                       config |-> sweeper.config, requested |-> sweeper.seeds]
    <3>1. sweep'.records = sweeper.records /\ sweep'.commit = sweeper.commit
      BY <2>3
    <3>2. AllGood(sweep'.records, sweep'.commit)
      BY <1>1, <3>1
    <3>3. AllGood(sweeper'.records, sweeper'.commit)
      BY <1>1, <2>1
    <3> QED BY <3>2, <3>3 DEF RecordsGood, AllGood
  <2> QED BY <1>3, <2>2, <2>3 DEF Aggregate
<1>4. CASE Script /\ ~Aggregate
  <2>0. sweep' = sweep
    BY <1>4 DEF Script, SweepStep, Reuse, ResumeRaises, RunOne, MakeReturns, Capture, Validate
  <2>1. CASE sweeper' = Gone
    BY <1>0, <1>1, <2>0, <2>1
  <2>2. ASSUME NEW at \in {"make", "capture", "validate"}, sweeper' = [sweeper EXCEPT !.at = at]
        PROVE  RecordsGood'
    BY <1>0, <1>1, <2>0, <2>2, Onward DEF Types
  <2>3. CASE sweeper.todo # << >> /\ sweeper' = NextSeed
    BY <1>0, <1>1, <2>0, <2>3, ToNextSeed DEF Types
  <2>4. CASE sweeper' = Keeping(files[Seed]) /\ (Reuse \/ Validate)
    <3>1. /\ sweeper.todo # << >> /\ files[Seed] \in Records /\ Seed \in Seeds
          /\ Good(files[Seed], Seed) /\ files[Seed].commit = sweeper.commit
      <4>1. CASE Validate
        <5>1. sweeper.at = "validate" /\ sweeper.todo # << >>
          BY <4>1 DEF Validate, Types, SweepTypes
        <5> QED BY <5>1, CapturedIsGood, SeedIsSeed DEF Types
      <4>2. CASE Reuse
        <5>1. sweeper.todo # << >> /\ files[Seed] # NoFile /\ files[Seed] # Torn /\ Seed \in Seeds
              /\ MatchesHead(files[Seed])
          BY <4>2, SeedIsSeed DEF Reuse, InLoop, Present, Types
        <5>2. files[Seed] \in Records
          BY <5>1, WholeFile DEF Types
        <5> QED BY <5>1, <5>2 DEF Calmly, FilesGood, MatchesHead
      <4> QED BY <2>4, <4>1, <4>2
    <3>2. sweeper.records \in Seq(Entries)
      BY DEF Types, SweepTypes, Sweepers
    <3>3. AllGood(Append(sweeper.records, [seed |-> Seed, rec |-> files[Seed]]), sweeper.commit)
      BY <1>1, <3>1, <3>2, AllGoodAppend
    <3> QED BY <1>0, <2>0, <2>4, <3>1, <3>3, ToNextRecord DEF Types
  <2> QED BY <1>4, <2>1, <2>2, <2>3, <2>4 DEF Script, SweepStep, Reuse, ResumeRaises, RunOne, InLoop,
         MakeReturns, Capture, Validate, Types, SweepTypes
<1>5. CASE Kill
  BY <1>0, <1>1, <1>5, KillIs DEF Types
<1>6. CASE UNCHANGED sweepVars
  BY <1>0, <1>1, <1>6 DEF sweepVars
<1> QED BY <1>2, <1>3, <1>4, <1>5, <1>6, SweepMoves

\* While it is calm, a compile and the tree change in these ways only.
LEMMA CalmMoves ==
  ASSUME Types, Calmly, [Next]_flowVars, calm'
  PROVE  \/ UNCHANGED makeVars
         \/ ByHand \/ HandDone \/ Recipe
         \/ RunOne \/ MakeReturns \/ KillMake
         \/ (Commit \/ OtherBuild \/ Clean) /\ make = Idle
<1>1. CASE StartSweep \/ StartFill \/ Fill
  BY <1>1 DEF StartSweep, StartFill, Populate, Fill, FillStep, WriteNext, Finish
<1>2. CASE Developer
  <2>1. ~Busy
    BY <1>2 DEF Developer
  <2> QED BY <1>2, <2>1 DEF Busy, Developer
<1>3. CASE Script
  BY <1>3 DEF Script, SweepStep, Reuse, ResumeRaises, Capture, Validate, Aggregate
<1>4. CASE Interrupt
  BY <1>4 DEF Interrupt, Kill, KillFiller
<1> QED BY <1>1, <1>2, <1>3, <1>4 DEF Next, flowVars

LEMMA IdleUnderway == ASSUME make = Idle PROVE Underway
BY DEF Idle, Underway

LEMMA UnderwayKept ==
  ASSUME FilesApart, Types, Calmly, [Next]_flowVars, calm'
  PROVE  Underway'
<1> USE DEF Calmly
<1>1. CASE UNCHANGED makeVars
  BY <1>1 DEF makeVars, Underway, Labelled
<1>2. CASE make' = Idle
  BY <1>2 DEF Idle, Underway
<1>3. ASSUME NEW seed, Started(seed, "quartus-compile") PROVE Underway'
  BY <1>3 DEF Started, Underway
<1>4. CASE ByHand
  BY <1>3, <1>4 DEF ByHand
<1>5. CASE RunOne
  <2>1. Started(Seed, sweeper.target) /\ sweeper.target = "quartus-compile"
    BY <1>5 DEF RunOne, InLoop, Waiting
  <2> QED BY <1>3, <2>1
<1>6. CASE Recipe
  <2>1. MakeStep
    BY <1>6 DEF Recipe
  <2>2. make \in Making /\ make # Idle /\ make.target = "quartus-compile"
    BY <2>1, MakeStepTypes DEF Types, Making, Working, Idle, Underway
  <2>3. ASSUME NEW place \in Working \cup {"parse"}, At(place)
        PROVE  /\ make'.at = place /\ make'.seed = make.seed
               /\ make'.target = "quartus-compile"
    BY <2>2, <2>3, MakeMoves
  <2>4. ASSUME NEW rc \in 0 .. 2, Exit(rc)
        PROVE  /\ make'.at = "done" /\ make'.rc = rc /\ make'.seed = make.seed
               /\ make'.target = "quartus-compile"
    BY <2>2, <2>4, MakeMoves
  <2>5. CASE Regen
    <3>1. make'.at = "syn" /\ make'.target = "quartus-compile"
      BY <2>3, <2>5 DEF Regen, Working
    <3> QED BY <3>1 DEF Underway, Idle
  <2>6. CASE Syn
    <3> DEFINE c == [seed |-> make.seed, commit |-> head, config |-> pkg, nr |-> built]
    <3>1. make'.at = "fit" /\ make'.seed = make.seed /\ make'.target = "quartus-compile"
      BY <2>3, <2>6 DEF Syn, Working
    <3>2. c \in Fits /\ Replace("syn", c) /\ UNCHANGED <<head, pkg, built>>
      BY <2>2, <2>6 DEF Syn, Fits, Making, Types, MakeTypes, MakeTypeOK
    <3> HIDE DEF c
    <3>3. out'["syn"] = c
      BY <3>2, Replacing DEF Reports, Types, MakeTypes
    <3> QED BY <3>1, <3>2, <3>3 DEF Underway, Idle, c
  <2>7. CASE Fitter \/ Sta
    <3>1. out["syn"] \in Fits /\ UNCHANGED <<head, pkg, built>> /\ make.at \in {"fit", "sta"}
      BY <2>7 DEF Fitter, Sta, Types, MakeTypes, Carried
    <3>2. out["fit"] \in Fits \/ Fitter
      BY <2>7, <3>1 DEF Sta, Types, MakeTypes, Carried
    <3>3. out'["syn"] = out["syn"]
      BY <2>7, <3>1, <3>2, Replacing DEF Fitter, Sta, Reports, Types, MakeTypes
    <3>4. make'.at \in {"sta", "export"} /\ make'.seed = make.seed /\ make'.target = "quartus-compile"
      BY <2>2, <2>3, <2>7 DEF Fitter, Sta, Working
    <3> QED BY <3>1, <3>3, <3>4 DEF Underway, Idle
  <2>8. CASE Fails
    <3>1. make'.at = "done" /\ make'.rc = 2 /\ make'.target = "quartus-compile"
      BY <2>4, <2>8 DEF Fails
    <3> QED BY <3>1 DEF Underway, Idle
  <2>9. CASE Export
    <3>1. make'.at = "parse" /\ make'.seed = make.seed /\ make'.target = "quartus-compile"
      BY <2>3, <2>9 DEF Export
    <3>2. out["syn"] = [seed |-> make.seed, commit |-> head, config |-> pkg, nr |-> built]
      BY <2>9 DEF Export, Underway
    <3>3. /\ latest' \in Records /\ latest'.seed = make.seed /\ latest'.commit = head
          /\ Labelled(latest') /\ head' = head
      BY <2>9, <3>2, ExportIs DEF Labelled, Types, Export
    <3> QED BY <3>1, <3>3 DEF Underway, Labelled, Idle
  <2>10. CASE Parse
    <3>1. PICK rc \in 0 .. 2 : Exit(rc) /\ rc = IF latest.verdict = "clean" THEN 0 ELSE 2
      BY <2>10 DEF Parse
    <3>2. /\ make'.at = "done" /\ make'.rc = rc /\ make'.seed = make.seed
          /\ make'.target = "quartus-compile"
      BY <2>4, <3>1
    <3>3. latest' = latest /\ head' = head /\ latest \in Records
      BY <2>10 DEF Parse, Types, MakeTypes, Carried
    <3>4. latest.seed = make.seed /\ latest.commit = head /\ Labelled(latest)
      BY <2>10 DEF Parse, Underway
    <3>5. rc = 0 => latest.verdict = "clean"
      BY <3>1
    <3> QED BY <3>2, <3>3, <3>4, <3>5 DEF Underway, Labelled, Idle
  <2> QED BY <2>1, <2>5, <2>6, <2>7, <2>8, <2>9, <2>10 DEF MakeStep
<1>7. CASE (Commit \/ OtherBuild \/ Clean) /\ make = Idle
  <2>1. make' = Idle
    BY <1>7 DEF Commit, OtherBuild, Clean
  <2> QED BY <1>2, <2>1
<1>8. CASE KillMake
  BY <1>2, <1>8 DEF KillMake
<1> QED BY <1>1, <1>2, <1>4, <1>5, <1>6, <1>7, <1>8, CalmMoves DEF HandDone, MakeReturns

LEMMA WaitingKept ==
  ASSUME FilesApart, Types, Calmly, [Next]_flowVars, calm'
  PROVE  Waiting'
<1> USE DEF Calmly
<1>0. ASSUME sweeper'.at = "gone" PROVE Waiting'
  BY <1>0 DEF Waiting
<1>1. CASE StartSweep
  <2>1. PICK r \in Requests, resume \in BOOLEAN, target \in Targets :
          /\ Launch(r.chunks, resume, r.config, target)
          /\ calm' = (calm /\ target = "quartus-compile")
    BY <1>1 DEF StartSweep
  <2>2. make' = Idle /\ head' = head
    BY <1>1, <2>1 DEF StartSweep, Launch, makeVars
  <2>3. /\ sweeper'.at = "loop" /\ sweeper'.commit = head
        /\ sweeper'.target = "quartus-compile"
    BY <2>1, LaunchIs DEF Types
  <2> QED BY <2>2, <2>3 DEF Waiting
<1>2. CASE Script
  <2>1. SweepStep /\ sweeper.at # "gone" /\ head' = head
    BY <1>2 DEF Script, SweepStep, Reuse, ResumeRaises, RunOne, InLoop, MakeReturns, Capture, Validate,
       Aggregate, makeVars
  <2>2. sweeper.commit = head /\ sweeper.target = "quartus-compile"
    BY <2>1 DEF Waiting
  <2>3. ASSUME sweeper'.at = "loop", sweeper'.commit = sweeper.commit,
               sweeper'.target = sweeper.target, make' = Idle
        PROVE  Waiting'
    BY <2>1, <2>2, <2>3 DEF Waiting
  <2>4. CASE Reuse \/ Validate
    <3>1. make = Idle /\ make' = make /\ sweeper.todo # << >>
      BY <2>4 DEF Reuse, InLoop, Validate, Waiting, Types, SweepTypes, makeVars
    <3>2. (files[Seed] \in Records /\ sweeper' = Keeping(files[Seed])) \/ sweeper' = NextSeed
      BY <2>4, WholeFile, SeedIsSeed DEF Reuse, InLoop, Present, Validate, Types, SweepTypes
    <3> QED BY <2>3, <3>1, <3>2, ToNextSeed, ToNextRecord DEF Types
  <2>5. CASE RunOne
    <3>1. sweeper' = [sweeper EXCEPT !.at = "make"] /\ Started(Seed, sweeper.target)
      BY <2>5 DEF RunOne
    <3>2. /\ sweeper'.at = "make" /\ sweeper'.commit = sweeper.commit
          /\ sweeper'.target = sweeper.target /\ Seed' = Seed
      BY <3>1, Onward DEF Types, Seed
    <3>3. make' # Idle /\ make'.seed = Seed
      BY <3>1 DEF Started, Idle
    <3> QED BY <2>1, <2>2, <3>2, <3>3 DEF Waiting
  <2>6. CASE MakeReturns
    <3>1. /\ sweeper.at = "make" /\ make.at = "done" /\ make' = Idle /\ UNCHANGED latest
          /\ sweeper' = IF make.rc = 0 THEN [sweeper EXCEPT !.at = "capture"] ELSE NextSeed
          /\ sweeper.todo # << >>
      BY <2>6 DEF MakeReturns, Types, SweepTypes
    <3>2. CASE make.rc = 0
      <4>1. sweeper' = [sweeper EXCEPT !.at = "capture"]
        BY <3>1, <3>2
      <4>2. /\ sweeper'.at = "capture" /\ sweeper'.commit = sweeper.commit
            /\ sweeper'.target = sweeper.target /\ Seed' = Seed
        BY <4>1, Onward DEF Types, Seed
      <4>3. latest \in Records /\ Good(latest, Seed) /\ latest.commit = head
        BY <3>1, <3>2 DEF Underway, Waiting, Good
      <4>4. latest' \in Records /\ Good(latest', Seed') /\ latest'.commit = head'
        BY <2>1, <3>1, <4>2, <4>3
      <4> QED BY <2>1, <2>2, <3>1, <4>2, <4>4 DEF Waiting, Good, Labelled
    <3>3. CASE make.rc # 0
      BY <2>3, <3>1, <3>3, ToNextSeed DEF Types
    <3> QED BY <3>2, <3>3
  <2>7. CASE Capture
    <3>1. sweeper.at = "capture" /\ sweeper.todo # << >> /\ make = Idle /\ make' = make
      BY <2>7 DEF Capture, Types, SweepTypes, Waiting, makeVars
    <3>2. latest \in Records /\ latest # NoFile /\ latest.commit = head /\ Seed \in Seeds
      BY <3>1, SeedIsSeed DEF Waiting, Types, FilesApart
    <3>3. sweeper' = [sweeper EXCEPT !.at = "validate"] /\ files' = [files EXCEPT ![Seed] = latest]
      BY <2>7, <3>2 DEF Capture
    <3>4. /\ sweeper'.at = "validate" /\ sweeper'.commit = sweeper.commit
          /\ sweeper'.target = sweeper.target /\ Seed' = Seed
      BY <3>3, Onward DEF Types, Seed
    <3>5. files'[Seed] = latest
      BY <3>2, <3>3 DEF Types, SweepTypes
    <3>6. (files[Seed])' = latest
      BY <3>4, <3>5
    <3> QED BY <2>1, <2>2, <3>1, <3>2, <3>4, <3>6 DEF Waiting
  <2>8. CASE ResumeRaises \/ Aggregate
    BY <1>0, <2>8, GoneIs DEF ResumeRaises, Aggregate
  <2> QED BY <2>1, <2>4, <2>5, <2>6, <2>7, <2>8 DEF SweepStep
<1>3. CASE Kill
  BY <1>0, <1>3, KillIs, GoneIs DEF Types
<1>4. CASE ByHand \/ HandDone \/ Developer
  <2>1. sweeper' = sweeper
    BY <1>4 DEF ByHand, HandDone, Developer, sweepVars
  <2>2. sweeper.at = "gone"
    BY <1>4 DEF ByHand, HandDone, Developer, Busy
  <2> QED BY <1>0, <2>1, <2>2
<1>5. CASE Recipe
  <2>1. MakeStep /\ make # Idle /\ make \in Making /\ UNCHANGED <<sweeper, files, head>>
    BY <1>5, MakeStepTypes
       DEF Recipe, MakeStep, Regen, Syn, Fitter, Sta, Fails, Export, Parse, sweepVars, Types, Making,
           Working, Idle
  <2>2. make' # Idle /\ make'.seed = make.seed
    <3>1. \A place \in Working \cup {"parse"} : At(place) => make' # Idle /\ make'.seed = make.seed
      BY <2>1, MakeMoves DEF Idle, Working
    <3>2. \A rc : Exit(rc) => make' # Idle /\ make'.seed = make.seed
      BY <2>1, MakeMoves DEF Idle
    <3> QED BY <2>1, <3>1, <3>2 DEF MakeStep, Regen, Syn, Fitter, Sta, Fails, Export, Parse, Working
  <2>3. sweeper.at \notin {"loop", "capture", "validate"}
    BY <2>1 DEF Waiting
  <2> QED BY <2>1, <2>2, <2>3 DEF Waiting, Seed
<1>7. CASE KillMake /\ sweeper.at = "gone" /\ UNCHANGED sweepVars
  BY <1>0, <1>7 DEF sweepVars
<1>6. CASE StartFill \/ Fill \/ (KillFiller /\ UNCHANGED sweepVars) \/ UNCHANGED flowVars
  <2>1. UNCHANGED <<make, head, latest, sweeper, files>>
    BY <1>6 DEF StartFill, Populate, Fill, FillStep, WriteNext, Finish, KillFiller, flowVars, makeVars,
       sweepVars
  <2> QED BY <2>1 DEF Waiting, Seed, Good, Labelled
<1> QED BY <1>1, <1>2, <1>3, <1>4, <1>5, <1>6, <1>7 DEF Next, Interrupt

LEMMA CalmInvKept ==
  ASSUME FilesApart, Types, CalmInv, [Next]_flowVars
  PROVE  CalmInv'
<1> SUFFICES ASSUME calm' PROVE (FilesGood /\ RecordsGood /\ Underway /\ Waiting)'
  BY DEF CalmInv
<1>1. calm
  BY DEF Next, StartSweep, StartFill, ByHand, HandDone, Developer, Recipe, Script, Fill, Interrupt,
     flowVars
<1>2. Calmly
  BY <1>1 DEF CalmInv, Calmly
<1> QED BY <1>2, FilesGoodKept, RecordsGoodKept, UnderwayKept, WaitingKept

-----------------------------------------------------------------------------
(* The theorems.                                                           *)

LEMMA InitIInv == ASSUME FilesApart, Init PROVE IInv
<1>1. /\ sweeper = Gone /\ exit = "never" /\ sweep = NoFile /\ make = Idle
      /\ filled = "never" /\ filler = NoFiller /\ files = [s \in Seeds |-> NoFile]
  BY DEF Init, MakeInit, SweepInit, BaseInit
<1>2. OnTrack(sweeper)
  BY <1>1, GoneOnTrack
<1>3. DoneIsComplete /\ WorkInv
  BY <1>1, GoneIs DEF DoneIsComplete, WorkInv
<1>4. FilesGood
  BY <1>1 DEF FilesGood, FilesApart
<1>5. RecordsGood
  <2>1. sweeper.records = << >> /\ sweep \notin Sweeps
    BY <1>1, GoneIs DEF FilesApart
  <2> QED BY <2>1, NoneAreGood DEF RecordsGood
<1>6. Underway /\ Waiting
  BY <1>1, IdleUnderway, GoneIs DEF Waiting
<1>7. FillInv
  BY <1>1 DEF FillInv, FilesApart, Init, MakeInit
<1> QED BY <1>2, <1>3, <1>4, <1>5, <1>6, <1>7, InitTypes DEF IInv, CalmInv

LEMMA IInvKept == ASSUME FilesApart, IInv, [Next]_flowVars PROVE IInv'
BY TypesKept, OnTrackKept, DoneKept, CalmInvKept, WorkInvKept, FillInvKept DEF IInv

\* The tail of a list is a suffix of it.
LEMMA TodoIsSuffix ==
  ASSUME SweepTypes, OnTrack(sweeper)
  PROVE  IsSuffix(sweeper.todo, sweeper.seeds)
<1>1. PICK todo \in Seq(Seeds) : todo = sweeper.todo
  BY DEF SweepTypes, Sweepers
<1>2. PICK seeds \in Seq(Seeds) : seeds = sweeper.seeds
  BY DEF SweepTypes, Sweepers
<1>3. PICK m \in Nat : m = Len(todo)
  BY LenProperties
<1>4. PICK n \in Nat : n = Len(seeds)
  BY LenProperties
<1>5. m <= n /\ \A i \in 1 .. m : todo[i] = seeds[n - m + i]
  <2>1. Len(sweeper.records) \in Nat
    BY LenProperties DEF SweepTypes, Sweepers
  <2>2. \A k \in Nat : k + m <= n => m <= n
    OBVIOUS
  <2> QED BY <1>1, <1>2, <1>3, <1>4, <2>1, <2>2 DEF OnTrack
<1> DEFINE r == [i \in 1 .. m |-> todo[(m - i) + 1]]
           t == [i \in 1 .. n |-> seeds[(n - i) + 1]]
<1>6. Reverse(sweeper.todo) = r /\ Reverse(sweeper.seeds) = t
  BY <1>1, <1>2, <1>3, <1>4 DEF Reverse
<1>7. Len(r) = m /\ Len(t) = n
  BY <1>3, <1>4, LenProperties
<1>8. \A i \in 1 .. m : r[i] = t[i]
  <2> TAKE i \in 1 .. m
  <2>1. m - i + 1 \in 1 .. m /\ i \in 1 .. n /\ n - m + (m - i + 1) = n - i + 1
    BY <1>5
  <2>2. todo[m - i + 1] = seeds[n - m + (m - i + 1)]
    BY <1>5, <2>1
  <2> QED BY <2>1, <2>2
<1>9. SubSeq(r, 1, m) = [i \in 1 .. m |-> r[i]] /\ SubSeq(t, 1, m) = [i \in 1 .. m |-> t[i]]
  BY <1>5, <1>7
<1> HIDE DEF r, t
<1>10. SubSeq(r, 1, m) = SubSeq(t, 1, m)
  BY <1>8, <1>9
<1> QED BY <1>5, <1>6, <1>7, <1>10 DEF IsSuffix, IsPrefix

LEMMA TypesSuffice == ASSUME Types, OnTrack(sweeper) PROVE TypeOK
<1>1. MakeTypeOK /\ BaseTypeOK
  BY DEF Types, MakeTypes, BaseTypes
<1>2. sweeper.seeds \in Seq(Seeds) /\ sweeper.records \in Seq(Entries)
  BY DEF Types, SweepTypes, Sweepers
<1>3. Range(sweeper.seeds) \subseteq Seeds
  BY <1>2 DEF Range
<1>4. \A i \in DOMAIN sweeper.records :
        sweeper.records[i].seed \in Seeds /\ sweeper.records[i].rec \in Records
  <2>1. \A i \in DOMAIN sweeper.records : sweeper.records[i] \in Entries
    BY <1>2
  <2> QED BY <2>1 DEF Entries
<1>5. SweepTypeOK
  BY <1>3, <1>4, TodoIsSuffix DEF Types, SweepTypes, Sweepers, SweepTypeOK
<1> QED BY <1>1, <1>5 DEF Types, FlowTypes, TypeOK

(***************************************************************************)
(* While nobody touches the tree under a compile, every record of a sweep, *)
(* the resumed ones included, is the clean record of its own seed at the   *)
(* commit the sweep names; and status 0 means that all the seeds asked for *)
(* are there in order (seed_sweep.py).                                     *)
(***************************************************************************)
THEOREM SweepAlwaysReproducible == ASSUME FilesApart PROVE Spec => []SweepIsReproducible
<1>1. Init => IInv
  BY InitIInv
<1>2. IInv /\ [Next]_flowVars => IInv'
  BY IInvKept
<1>3. IInv => SweepIsReproducible
  <2> SUFFICES ASSUME IInv PROVE SweepIsReproducible
    OBVIOUS
  <2>1. TypeOK
    BY TypesSuffice DEF IInv
  <2>2. ASSUME Whole, calm, NEW r \in Kept
        PROVE  /\ r.rec.seed = r.seed /\ r.rec.verdict = "clean" /\ Labelled(r.rec)
               /\ r.rec.commit = sweep.commit
    <3>1. sweep \in Sweeps
      BY <2>2 DEF Whole, IInv, Types, SweepTypes
    <3>2. AllGood(sweep.records, sweep.commit)
      BY <2>2, <3>1 DEF IInv, CalmInv, RecordsGood
    <3> QED BY <2>2, <3>2 DEF Kept, AllGood, Good
  <2>3. ASSUME exit = "done"
        PROVE  /\ Whole
               /\ [i \in DOMAIN sweep.records |-> sweep.records[i].seed] = sweep.requested
    BY <2>3 DEF IInv, DoneIsComplete, Whole, FilesApart
  <2> QED BY <2>1, <2>2, <2>3 DEF SweepIsReproducible
<1> QED BY <1>1, <1>2, <1>3, PTL DEF Spec

(***************************************************************************)
(* When populate_baseline_evidence.py ends with status 0, whatever compiled *)
(* or failed around it: what was there without --force is as it was, what  *)
(* is made from the loaded record is of its compile, nothing the run made  *)
(* is older, and all of it is of that compile, but for a constraints       *)
(* report that could not be made, unless output_files/ was begun anew.     *)
(***************************************************************************)
THEOREM EvidenceAlwaysOneCompile == ASSUME FilesApart PROVE Spec => []EvidenceIsOneCompile
<1>1. Init => IInv
  BY InitIInv
<1>2. IInv /\ [Next]_flowVars => IInv'
  BY IInvKept
<1>3. IInv => EvidenceIsOneCompile
  <2> SUFFICES ASSUME IInv, filled = "done", NEW f \in EvidenceFiles PROVE Sound(f)
    BY DEF EvidenceIsOneCompile
  <2>1. Place = 10 /\ \A i \in 1 .. 9 : IF i < Place THEN Sound(Evidence[i])
                                      ELSE base[Evidence[i]] = before[Evidence[i]]
    BY DEF IInv, FillInv, Place
  <2>2. \A i \in 1 .. 9 : Sound(Evidence[i])
    BY <2>1
  <2> QED BY <2>2, EvidenceIs
<1> QED BY <1>1, <1>2, <1>3, PTL DEF Spec

(***************************************************************************)
(* No step takes from a resumed sweep what it has of its commit, and only  *)
(* --force changes a file of the baseline that is there.                   *)
(***************************************************************************)
THEOREM WorkAlwaysKept == ASSUME FilesApart PROVE Spec => WorkIsKept
<1>1. Init => IInv
  BY InitIInv
<1>2. IInv /\ [Next]_flowVars => IInv'
  BY IInvKept
<1>3. IInv /\ [Next]_flowVars => [FilesKept]_flowVars /\ [BaseKept]_flowVars
  BY StepKeepsFiles, StepKeepsBase DEF IInv
<1>4. Spec => [][FilesKept]_flowVars /\ [][BaseKept]_flowVars
  BY <1>1, <1>2, <1>3, PTL DEF Spec
<1> QED BY <1>4 DEF WorkIsKept, FilesKept, BaseKept

==============================================================================
