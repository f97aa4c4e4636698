-------------------------- MODULE BaselineEvidence ---------------------------
(***************************************************************************)
(* scripts/populate_baseline_evidence.py: evidence/baseline/ filled, file  *)
(* by file, from a compile record.  A file that exists is skipped unless   *)
(* --force is given, so a run that follows an interrupted one only fills   *)
(* the gaps.  The record is loaded once, but two of the files are made     *)
(* from whatever latest.json holds when their turn comes, and the reports  *)
(* are whatever the output directory holds then.  A report that is not     *)
(* there and a constraints report that cannot be made are warned about:    *)
(* what the baseline held stays, and the status is 0.                      *)
(***************************************************************************)
EXTENDS QuartusMake

VARIABLES
  filler,      \* the running script, or what the last one held
  base,        \* base[f]: the compile that a file of evidence/baseline/ describes
  before,      \* base as the run found it
  filled       \* its last status: "never", "running", "killed", "failed", "done"

baseVars == <<filler, base, before, filled>>

\* In the order in which main() writes them.  (The simulation summary is no part
\* of a compile and is left out.)
Evidence == <<"source_commit", "utilization", "timing", "constraints_report",
              "fit", "sta", "syn", "compile_record", "README">>
EvidenceFiles == {Evidence[i] : i \in DOMAIN Evidence}
\* Made from the record that was loaded.
ByValue == {"source_commit", "utilization", "timing", "README"}

NoFiller == [next |-> 0, force |-> FALSE, rec |-> NoFile]

BaseTypeOK ==
  /\ filler.next \in 0 .. Len(Evidence) + 1 /\ filler.force \in BOOLEAN
  /\ filler.rec \in Records \cup {NoFile}
  /\ base \in [EvidenceFiles -> Fits \cup {NoFile, Torn}]
  /\ before \in [EvidenceFiles -> Fits \cup {NoFile, Torn}]
  /\ filled \in {"never", "running", "killed", "failed", "done"}

BaseInit ==
  /\ filler = NoFiller /\ filled = "never"
  /\ base = [f \in EvidenceFiles |-> NoFile] /\ before = base

\* The checks before the first file: a record, whole, and without compile errors.
\* What else parse_quartus.py refuses is accepted here.
Accepted(rec) == rec \notin {NoFile, Torn} /\ rec.verdict # "errors"

Populate(force) ==
  /\ filler.next = 0
  /\ IF Accepted(latest)
     THEN filler' = [next |-> 1, force |-> force, rec |-> latest] /\ filled' = "running"
     ELSE filled' = "failed" /\ UNCHANGED filler
  /\ before' = base
  /\ UNCHANGED <<base, makeVars>>

MayWrite(f) == base[f] = NoFile \/ filler.force

\* What the file is made from when its turn comes.
Measured(file) == IF file \in {NoFile, Torn} THEN file ELSE file.of
reread(f) == IF f \in Reports THEN out[f] ELSE Measured(latest)
Source(f) == CASE f \in {"constraints_report", "compile_record"} -> Measured(latest)
               [] f \in Reports -> out[f]
               [] OTHER -> filler.rec.of

\* A torn file is copied as it is, but constraints_report.py gives up on it.
Write(f) ==
  /\ MayWrite(f) /\ Source(f) # NoFile
  /\ f = "constraints_report" => Source(f) # Torn
  /\ base' = [base EXCEPT ![f] = Source(f)]

\* Skipped: there already, or nothing to make it from.
Leave(f) == (~MayWrite(f) \/ Source(f) = NoFile) /\ UNCHANGED base

\* constraints_report.py fails, before or while it writes; that is only a warning.
Warn(f) ==
  /\ f = "constraints_report" /\ MayWrite(f)
  /\ UNCHANGED base \/ base' = [base EXCEPT ![f] = Torn]

WriteNext ==
  /\ filler.next \in DOMAIN Evidence
  /\ LET f == Evidence[filler.next] IN Write(f) \/ Leave(f) \/ Warn(f)
  /\ filler' = [filler EXCEPT !.next = @ + 1]
  /\ UNCHANGED <<before, filled, makeVars>>

\* Whatever was skipped, the status is 0.
Finish ==
  /\ filler.next = Len(Evidence) + 1 /\ filler' = [filler EXCEPT !.next = 0]
  /\ filled' = "done"
  /\ UNCHANGED <<base, before, makeVars>>

\* Killed, or ended by an exception, with a file open.
KillFiller ==
  /\ filler.next \in DOMAIN Evidence /\ filler' = NoFiller /\ filled' = "killed"
  /\ LET f == Evidence[filler.next]
     IN  base' = IF MayWrite(f) THEN [base EXCEPT ![f] = Torn] ELSE base
  /\ UNCHANGED <<before, makeVars>>

FillStep == WriteNext \/ Finish
==============================================================================
