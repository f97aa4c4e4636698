----------------------------- MODULE Calibration -----------------------------
(***************************************************************************)
(* scripts/run_calibration.py: the points of one kernel's matrix compiled  *)
(* and analysed by Quartus, one after the other or by a pool of threads,   *)
(* and their records kept in one summary file that is rewritten after      *)
(* every point.  The two tool phases leave their figures in compile.kv and *)
(* timing.kv of the point's directory, which no later run clears.  A sweep *)
(* may be killed, resumed, repeated for some points, or its summary rebuilt*)
(* from the directories.                                                   *)
(***************************************************************************)
EXTENDS Naturals, Sequences, FiniteSets, Functions

CONSTANTS
  Matrix,     \* the points of the kernel, in the matrix's order
  MaxSweeps   \* bound on the launches of the script

VARIABLES
  driver,   \* main(): where it is, its arguments and its locals
  worker,   \* worker[p]: the phase run_point(p) is in
  result,   \* result[p]: what run_point(p) returned
  kv,       \* kv[p]: compile.kv and timing.kv of the point's directory
  summary,  \* summary[p]: the point's record in calibration_<kernel>.json
  status    \* of the last run: its exit status, or "running", "killed", "never"

calVars == <<driver, worker, result, kv, summary, status>>

Points == Range(Matrix)

\* A compile is known by the sweep that launched it; no sweep, no file.
Absent   == [sweep |-> 0, ok |-> FALSE]
Torn(n)  == [sweep |-> n, ok |-> FALSE]
NoRecord == [ok |-> FALSE, compile |-> 0, timing |-> 0, by |-> "nobody"]
Failed   == [NoRecord EXCEPT !.by = "failure"]
Raised   == [NoRecord EXCEPT !.by = "exception"]

\* read_kv and build_record: whatever the two files hold now, merged.
build_record(p, by) ==
  [ok |-> kv[p].compile.ok, compile |-> kv[p].compile.sweep,
   timing |-> kv[p].timing.sweep, by |-> by]

Resting == [at |-> "gone", jobs |-> 1, asked |-> {}, todo |-> {},
            records |-> [p \in Points |-> NoRecord], failures |-> {}, sweep |-> 0]

CalInit ==
  /\ driver = Resting /\ status = "never"
  /\ worker = [p \in Points |-> "idle"] /\ result = [p \in Points |-> NoRecord]
  /\ kv = [p \in Points |-> [compile |-> Absent, timing |-> Absent]]
  /\ summary = [p \in Points |-> NoRecord]

\* --resume drops the points whose record is good.
Wanted(resume, p) == resume => ~summary[p].ok

\* main() up to the loop.
StartCalibration(points, resume, jobs) ==
  /\ driver.at = "gone" /\ driver.sweep < MaxSweeps
  /\ driver' = [at |-> "sweep", jobs |-> jobs, asked |-> points, failures |-> {},
                todo |-> {p \in points : Wanted(resume, p)},
                records |-> summary, sweep |-> driver.sweep + 1]
  /\ status' = "running"
  /\ UNCHANGED <<worker, result, kv, summary>>

\* --summary-only: a record for every directory that holds a compile.kv, good or not.
Rebuild ==
  /\ driver.at = "gone" /\ driver.sweep < MaxSweeps
  /\ \E p \in Points : kv[p].compile # Absent
  /\ summary' = [p \in Points |-> IF kv[p].compile = Absent THEN summary[p]
                                  ELSE build_record(p, "rebuild")]
  /\ driver' = [driver EXCEPT !.sweep = @ + 1]
  /\ status' = "rebuilt"
  /\ UNCHANGED <<worker, result, kv>>

Busy    == {p \in Points : worker[p] \in {"compile", "sta", "build"}}
Pending == {p \in Points : worker[p] = "returned"}
Pooled  == driver.jobs > 1

\* The pool takes the points in the order submitted, the matrix's; the plain loop
\* takes the next one when the last is recorded.
Before(p, q) == \E i, j \in DOMAIN Matrix : i < j /\ Matrix[i] = p /\ Matrix[j] = q
StartPoint(p) ==
  /\ driver.at # "gone" /\ p \in driver.todo /\ \A q \in driver.todo : ~Before(q, p)
  /\ IF Pooled THEN Cardinality(Busy) < driver.jobs ELSE Busy \cup Pending = {}
  /\ driver' = [driver EXCEPT !.todo = @ \ {p}]
  /\ worker' = [worker EXCEPT ![p] = "compile"]
  /\ UNCHANGED <<result, kv, summary, status>>

Return(p, res) ==
  /\ worker' = [worker EXCEPT ![p] = "returned"]
  /\ result' = [result EXCEPT ![p] = res]

\* make_work_copy, a log file that cannot be opened, or build_record raises.
PointRaises(p) ==
  /\ p \in Busy /\ Return(p, Raised)
  /\ UNCHANGED <<driver, kv, summary, status>>

\* The fresh project copy is compiled.  A tool that gets as far as the end of its
\* script writes compile.kv, with the fatal error if there was one.
CompileReturns(p) ==
  /\ worker[p] = "compile"
  /\ \/ /\ kv' = [kv EXCEPT ![p].compile = [sweep |-> driver.sweep, ok |-> TRUE]]
        /\ worker' = [worker EXCEPT ![p] = "sta"] /\ UNCHANGED result
     \/ /\ Return(p, Failed)
        /\ \/ kv' = [kv EXCEPT ![p].compile = [sweep |-> driver.sweep, ok |-> FALSE]]
           \/ UNCHANGED kv
  /\ UNCHANGED <<driver, summary, status>>

\* The analysis of the same copy.  A failed one leaves the old timing.kv, or a torn one.
Analysed(p) == [worker EXCEPT ![p] = "build"]
StaFails(p) == Return(p, Failed)
StaReturns(p) ==
  /\ worker[p] = "sta"
  /\ \/ /\ kv' = [kv EXCEPT ![p].timing = [sweep |-> driver.sweep, ok |-> TRUE]]
        /\ worker' = Analysed(p) /\ UNCHANGED result
     \/ /\ StaFails(p)
        /\ \/ kv' = [kv EXCEPT ![p].timing = Torn(driver.sweep)]
           \/ UNCHANGED kv
  /\ UNCHANGED <<driver, summary, status>>

BuildReturns(p) ==
  /\ worker[p] = "build"
  /\ Return(p, build_record(p, "sweep"))
  /\ UNCHANGED <<driver, kv, summary, status>>

\* finish(): the record or the failure is noted and the summary written.
Unwinding == driver.at = "unwind"
FailuresWith(p) == driver.failures \cup {p}
truncating_write(records) ==
  \/ summary' = records
  \/ summary' = [p \in Points |-> NoRecord]
write_summary(records) == summary' = records

Finish(p) ==
  /\ driver.at = "sweep" /\ worker[p] = "returned" /\ result[p] # Raised
  /\ worker' = [worker EXCEPT ![p] = "idle"]
  /\ LET records == IF result[p].ok THEN [driver.records EXCEPT ![p] = result[p]]
                                    ELSE driver.records
     IN  /\ driver' = [driver EXCEPT !.records = records,
                         !.failures = IF result[p].ok THEN @ ELSE FailuresWith(p)]
         /\ write_summary(records)
  /\ result' = [result EXCEPT ![p] = NoRecord]
  /\ UNCHANGED <<kv, status>>

exception_unseen(p) == FALSE /\ UNCHANGED calVars

\* fut.result() raises in the main thread.  The loop ends there; the pool first runs
\* every point it was given, and nobody records them.
FinishRaises(p) ==
  /\ driver.at = "sweep" /\ worker[p] = "returned" /\ result[p] = Raised
  /\ worker' = [worker EXCEPT ![p] = "idle"]
  /\ driver' = [driver EXCEPT !.at = IF Pooled THEN "unwind" ELSE "gone"]
  /\ status' = IF Pooled THEN status ELSE "failed"
  /\ result' = [result EXCEPT ![p] = NoRecord]
  /\ UNCHANGED <<kv, summary>>

\* The end of main(), and the end of the pool's unwinding.
Conclude ==
  /\ driver.at # "gone" /\ driver.todo = {} /\ Busy = {}
  /\ IF Unwinding THEN status' = "failed" /\ UNCHANGED summary
     ELSE /\ Pending = {}
          /\ summary' = driver.records
          /\ status' = IF driver.failures = {} THEN "done" ELSE "failed"
  /\ driver' = [driver EXCEPT !.at = "gone"]
  /\ worker' = [p \in Points |-> "idle"] /\ result' = [p \in Points |-> NoRecord]
  /\ UNCHANGED kv

\* The script and its tools are killed; a file being written is left torn, except
\* the summary, which is replaced by a finished one.
KillCalibration ==
  /\ driver.at # "gone"
  /\ \E torn \in SUBSET {p \in Points : worker[p] \in {"compile", "sta"}} :
       kv' = [p \in Points |->
                IF p \notin torn THEN kv[p]
                ELSE IF worker[p] = "compile"
                     THEN [kv[p] EXCEPT !.compile = Torn(driver.sweep)]
                     ELSE [kv[p] EXCEPT !.timing = Torn(driver.sweep)]]
  /\ driver' = [driver EXCEPT !.at = "gone"] /\ status' = "killed"
  /\ worker' = [p \in Points |-> "idle"] /\ result' = [p \in Points |-> NoRecord]
  /\ UNCHANGED summary

PointStep(p) ==
  StartPoint(p) \/ PointRaises(p) \/ CompileReturns(p) \/ StaReturns(p) \/ BuildReturns(p)
  \/ Finish(p) \/ FinishRaises(p)

CalStep == Conclude \/ \E p \in Points : PointStep(p)

CalNext ==
  \/ \E points \in (SUBSET Points) \ {{}}, resume \in BOOLEAN, jobs \in {1, 2} :
       StartCalibration(points, resume, jobs)
  \/ Rebuild
  \/ CalStep
  \/ KillCalibration
-----------------------------------------------------------------------------
CalSpec == CalInit /\ [][CalNext]_calVars

CalTypeOK ==
  /\ driver.at \in {"gone", "sweep", "unwind"} /\ driver.asked \subseteq Points
  /\ worker \in [Points -> {"idle", "compile", "sta", "build", "returned"}]
  /\ \A p \in Points : kv[p].compile.sweep \in 0 .. MaxSweeps /\ kv[p].timing.sweep \in 0 .. MaxSweeps
  /\ status \in {"never", "running", "killed", "failed", "done", "rebuilt"}

\* A record a sweep wrote carries the figures of one compile: timing.kv is of the
\* compile that compile.kv is of, however many earlier runs left their files in the
\* directory (build_record).
RecordIsOneCompile ==
  \A p \in Points : summary[p].by = "sweep" => summary[p].timing = summary[p].compile

\* A sweep that exits with 0 leaves a good record of every point it was asked for (main).
SweepStatus == status = "done" => \A p \in driver.asked : summary[p].ok

\* Nothing but a rebuild takes a good record out of the summary (write_summary).
GoodKept == \A p \in Points : summary[p].ok => summary'[p].ok \/ status' = "rebuilt"

\* The summary tells the truth about the compiles, through failures, kills and resumes.
RecordsAreTrue == [](CalTypeOK /\ RecordIsOneCompile /\ SweepStatus) /\ [][GoodKept]_calVars
==============================================================================
