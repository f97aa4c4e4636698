---------------------------- MODULE ScriptsProofs ----------------------------
(***************************************************************************)
(* The bench of the scripts, for every value of its constants: what        *)
(* run_calibration.py records, what the generators of the artefacts        *)
(* report, what gen_config.py and build.py leave in a binary, the register *)
(* plane from gen_regmap.py to its answers, and the pipeline of            *)
(* complex_multiplier.sv, each with its inductive invariant.               *)
(* The recurrence of powers of two is a hypothesis of what depends on it:  *)
(* the provers do not know the definition of ^.                            *)
(***************************************************************************)
EXTENDS MCScripts, FiniteSetTheorems, FunctionTheorems, WellFoundedInduction, TLAPS

-----------------------------------------------------------------------------
(* Powers of two.                                                          *)

\* The definition of ^, which the provers do not know.
PowersOfTwo == 2 ^ 0 = 1 /\ \A i \in Nat : 2 ^ (i + 1) = 2 * 2 ^ i

\* ... and that each of them is a number above 0.
Doubling == PowersOfTwo /\ \A i \in Nat : 2 ^ i \in Nat \ {0}

ExponentLaw ==
  2 ^ 1 = 2 /\ \A i, j \in Nat : 2 ^ i \in Nat \ {0} /\ 2 ^ (i + j) = (2 ^ i) * (2 ^ j)

\* Every number has a least power of two that is not below it.
LogsOfTwo == \A n \in Nat : \E w \in 0 .. n : 2 ^ w >= n /\ (w > 0 => 2 ^ (w - 1) < n)

\* A set of numbers that is not empty has a least member.
LEMMA LeastElement ==
  ASSUME NEW T \in SUBSET Nat, T # {}
  PROVE  \E n \in T : \A k \in T : n <= k
<1> DEFINE R == OpToRel(<, Nat)
<1>1. IsWellFoundedOn(R, Nat)
  BY NatLessThanWellFounded
<1>2. PICK x \in T : \A y \in T : ~(<<y, x>> \in R)
  BY <1>1, WFMin
<1>3. ASSUME NEW y \in T PROVE x <= y
  <2>1. ~(y < x)
    BY <1>2, <1>3 DEF OpToRel
  <2> QED BY <2>1
<1> QED BY <1>3

\* Every power of two is a number, and not zero.
LEMMA PowersDouble == ASSUME PowersOfTwo PROVE Doubling
<1> DEFINE U == {i \in Nat : 2 ^ i \notin Nat \ {0}}
<1>1. ASSUME U # {} PROVE FALSE
  <2>1. PICK u \in U : \A k \in U : u <= k
    BY <1>1, LeastElement
  <2>2. 0 \notin U
    <3>1. 2 ^ 0 = 1
      BY DEF PowersOfTwo
    <3> QED BY <3>1
  <2>3. u - 1 \in Nat /\ u - 1 \notin U /\ (u - 1) + 1 = u
    <3>1. u \in Nat /\ u # 0
      BY <2>2
    <3>2. u - 1 \in Nat /\ (u - 1) + 1 = u /\ ~(u <= u - 1)
      BY <3>1
    <3> HIDE DEF U
    <3> QED BY <2>1, <3>2
  <2>4. 2 ^ ((u - 1) + 1) = 2 * 2 ^ (u - 1)
    BY <2>3 DEF PowersOfTwo
  <2> QED BY <2>1, <2>3, <2>4
<1> QED BY <1>1 DEF Doubling

\* The law of exponents, by induction on the second.
LEMMA PowersMultiply == ASSUME Doubling PROVE ExponentLaw
<1>1. ASSUME NEW i \in Nat, NEW j \in Nat, 2 ^ (i + j) = (2 ^ i) * (2 ^ j)
      PROVE  2 ^ (i + (j + 1)) = (2 ^ i) * (2 ^ (j + 1))
  <2>1. i + (j + 1) = (i + j) + 1 /\ i + j \in Nat
    OBVIOUS
  <2>2. 2 ^ (i + (j + 1)) = 2 * 2 ^ (i + j) /\ 2 ^ (j + 1) = 2 * 2 ^ j
    BY <2>1 DEF Doubling, PowersOfTwo
  <2>3. \A x, y \in Nat : 2 * (x * y) = x * (2 * y)
    OBVIOUS
  <2>4. 2 ^ i \in Nat /\ 2 ^ j \in Nat
    BY DEF Doubling, PowersOfTwo
  <2> QED BY <1>1, <2>2, <2>3, <2>4
<1>2. ASSUME NEW i \in Nat PROVE \A j \in Nat : 2 ^ (i + j) = (2 ^ i) * (2 ^ j)
  <2> DEFINE U == {j \in Nat : 2 ^ (i + j) # (2 ^ i) * (2 ^ j)}
  <2>1. ASSUME U # {} PROVE FALSE
    <3>1. PICK u \in U : \A k \in U : u <= k
      BY <2>1, LeastElement
    <3>2. u # 0
      <4>1. 2 ^ (i + 0) = (2 ^ i) * (2 ^ 0)
        <5>1. i + 0 = i /\ 2 ^ 0 = 1 /\ 2 ^ i \in Nat
          BY DEF Doubling, PowersOfTwo
        <5> QED BY <5>1
      <4> QED BY <4>1
    <3>3. u - 1 \in Nat /\ u - 1 \notin U /\ (u - 1) + 1 = u
      BY <3>1, <3>2
    <3> DEFINE j == u - 1
    <3>4. j \in Nat /\ 2 ^ (i + j) = (2 ^ i) * (2 ^ j) /\ j + 1 = u
      BY <3>3
    <3> HIDE DEF j
    <3>5. 2 ^ (i + (j + 1)) = (2 ^ i) * (2 ^ (j + 1))
      BY <1>1, <3>4
    <3> QED BY <3>1, <3>4, <3>5
  <2> QED BY <2>1
<1>3. 2 ^ 1 = 2
  <2>1. 0 + 1 = 1 /\ 2 ^ (0 + 1) = 2 * 2 ^ 0 /\ 2 ^ 0 = 1
    BY DEF Doubling, PowersOfTwo
  <2> QED BY <2>1
<1> QED BY <1>2, <1>3 DEF Doubling, PowersOfTwo, ExponentLaw

\* No number is above its power of two, so every number has a logarithm, rounded up.
LEMMA LogsExist == ASSUME Doubling PROVE LogsOfTwo
<1>1. ASSUME NEW n \in Nat PROVE n <= 2 ^ n
  <2> DEFINE U == {k \in Nat : ~(k <= 2 ^ k)}
  <2>1. ASSUME U # {} PROVE FALSE
    <3>1. PICK u \in U : \A k \in U : u <= k
      BY <2>1, LeastElement
    <3>2. u # 0
      BY DEF Doubling, PowersOfTwo
    <3>3. u - 1 \in Nat /\ u - 1 \notin U /\ (u - 1) + 1 = u
      BY <3>1, <3>2
    <3> DEFINE j == u - 1
    <3>4. j \in Nat /\ j <= 2 ^ j /\ j + 1 = u
      BY <3>3
    <3> HIDE DEF j
    <3>5. 2 ^ j \in Nat \ {0} /\ 2 ^ (j + 1) = 2 * 2 ^ j
      BY <3>4 DEF Doubling, PowersOfTwo
    <3>6. j + 1 <= 2 ^ (j + 1)
      BY <3>4, <3>5
    <3> QED BY <3>1, <3>4, <3>6
  <2> QED BY <2>1
<1>2. ASSUME NEW n \in Nat
      PROVE  \E w \in 0 .. n : 2 ^ w >= n /\ (w > 0 => 2 ^ (w - 1) < n)
  <2> DEFINE U == {k \in Nat : n <= 2 ^ k}
  <2>1. n \in U
    BY <1>1
  <2>2. PICK w \in U : \A k \in U : w <= k
    BY <2>1, LeastElement
  <2>3. w \in 0 .. n /\ n <= 2 ^ w /\ 2 ^ w \in Nat
    BY <2>1, <2>2 DEF Doubling, PowersOfTwo
  <2>4. ASSUME w > 0 PROVE 2 ^ (w - 1) < n
    <3>1. w - 1 \in Nat /\ w - 1 \notin U
      BY <2>2, <2>3, <2>4
    <3>2. 2 ^ (w - 1) \in Nat
      BY <3>1 DEF Doubling, PowersOfTwo
    <3> QED BY <3>1, <3>2
  <2> QED BY <2>3, <2>4
<1> QED BY <1>2 DEF LogsOfTwo

-----------------------------------------------------------------------------
Sweeps  == 0 .. MaxSweeps
Record  == [ok : BOOLEAN, compile : Sweeps, timing : Sweeps,
            by : {"nobody", "failure", "exception", "sweep", "rebuild"}]
File    == [sweep : Sweeps, ok : BOOLEAN]
Driver  == [at : {"gone", "sweep", "unwind"}, jobs : {1, 2}, asked : SUBSET Cal!Points,
            todo : SUBSET Cal!Points, records : [Cal!Points -> Record], failures : SUBSET Cal!Points,
            sweep : Sweeps]
Phases  == {"idle", "compile", "sta", "build", "returned"}
Outcomes == {"never", "running", "killed", "failed", "done", "rebuilt"}

CalTypes ==
  /\ driver \in Driver /\ worker \in [Cal!Points -> Phases] /\ result \in [Cal!Points -> Record]
  /\ kv \in [Cal!Points -> [compile : File, timing : File]]
  /\ summary \in [Cal!Points -> Record] /\ status \in Outcomes

\* Nobody works for a driver that has gone; the plain loop has one worker, and only
\* the pool unwinds.
WorkersInv ==
  /\ driver.at = "gone" => \A p \in Cal!Points : worker[p] = "idle"
  /\ driver.jobs = 1 => \A p, q \in Cal!Points : worker[p] # "idle" /\ worker[q] # "idle" => p = q
  /\ driver.at = "unwind" => driver.jobs # 1
  /\ driver.at # "gone" => status = "running"

\* What a worker that has passed a phase finds in its directory is of this sweep.
FilesInv ==
  \A p \in Cal!Points :
    /\ worker[p] \in {"sta", "build"} => kv[p].compile.sweep = driver.sweep
    /\ worker[p] = "build" => kv[p].timing.sweep = driver.sweep

OneCompile(r) == r.by = "sweep" => r.timing = r.compile
RecordsInv ==
  \A p \in Cal!Points : OneCompile(summary[p]) /\ OneCompile(driver.records[p]) /\ OneCompile(result[p])

\* A sweep under way knows every good record, and has lost no point it was asked for.
KnownInv ==
  driver.at = "sweep" =>
    /\ \A p \in Cal!Points : summary[p].ok => driver.records[p].ok
    /\ \A p \in driver.asked : p \in driver.todo \/ p \in driver.failures
                                \/ driver.records[p].ok \/ worker[p] # "idle"

CalInv == CalTypes /\ WorkersInv /\ FilesInv /\ RecordsInv /\ KnownInv /\ Cal!SweepStatus

-----------------------------------------------------------------------------
\* The record made of two files of one sweep is of one compile (build_record).
LEMMA BuiltIsRecord ==
  ASSUME CalTypes, NEW p \in Cal!Points, NEW by \in {"sweep", "rebuild"}
  PROVE  /\ Cal!build_record(p, by) \in Record
         /\ Cal!build_record(p, by).by = by
         /\ Cal!build_record(p, by).compile = kv[p].compile.sweep
         /\ Cal!build_record(p, by).timing = kv[p].timing.sweep
  BY DEF CalTypes, Cal!build_record, Record, File

\* The records that are not made of files.
LEMMA EmptyIsRecord ==
  ASSUME MaxSweeps \in Nat
  PROVE  /\ Cal!NoRecord \in Record /\ Cal!Failed \in Record /\ Cal!Raised \in Record
         /\ OneCompile(Cal!NoRecord) /\ OneCompile(Cal!Failed) /\ OneCompile(Cal!Raised)
         /\ ~Cal!NoRecord.ok
<1>1. 0 \in Sweeps
  BY DEF Sweeps
<1>2. Cal!NoRecord \in Record /\ Cal!NoRecord.by = "nobody" /\ ~Cal!NoRecord.ok
  BY <1>1 DEF Cal!NoRecord, Record
<1>3. Cal!Failed \in Record /\ Cal!Failed.by = "failure"
  BY <1>1 DEF Cal!NoRecord, Cal!Failed, Record
<1>4. Cal!Raised \in Record /\ Cal!Raised.by = "exception"
  BY <1>1 DEF Cal!NoRecord, Cal!Raised, Record
<1> QED BY <1>2, <1>3, <1>4 DEF OneCompile

\* One file of a directory is written (the scripts of the tools).
LEMMA WriteFile ==
  ASSUME CalTypes, NEW p \in Cal!Points, NEW f \in File
  PROVE  /\ [kv EXCEPT ![p].compile = f] \in [Cal!Points -> [compile : File, timing : File]]
         /\ [kv EXCEPT ![p].timing = f] \in [Cal!Points -> [compile : File, timing : File]]
<1>1. kv \in [Cal!Points -> [compile : File, timing : File]]
  BY DEF CalTypes
<1>2. [kv[p] EXCEPT !.compile = f] \in [compile : File, timing : File]
  BY <1>1
<1>3. [kv[p] EXCEPT !.timing = f] \in [compile : File, timing : File]
  BY <1>1
<1> QED BY <1>1, <1>2, <1>3

\* The script starts with nothing done (CalInit).
LEMMA CalInitInv == ASSUME MaxSweeps \in Nat, Cal!CalInit PROVE CalInv
<1>1. CalTypes
  BY EmptyIsRecord DEF Cal!CalInit, CalTypes, Cal!Resting, Driver, Sweeps, Phases, File, Cal!Absent, Outcomes
<1>2. WorkersInv
  BY DEF Cal!CalInit, WorkersInv, Cal!Resting
<1>3. FilesInv
  BY DEF Cal!CalInit, FilesInv
<1>4. RecordsInv
  BY EmptyIsRecord DEF Cal!CalInit, RecordsInv, Cal!Resting
<1>5. KnownInv /\ Cal!SweepStatus
  BY DEF Cal!CalInit, KnownInv, Cal!SweepStatus, Cal!Resting
<1> QED BY <1>1, <1>2, <1>3, <1>4, <1>5 DEF CalInv

\* A launch: the points without a good record are to do (main up to its loop).
LEMMA StartCalibrationKeeps ==
  ASSUME MaxSweeps \in Nat, CalInv, NEW points \in (SUBSET Cal!Points) \ {{}}, NEW resume \in BOOLEAN, NEW jobs \in {1, 2},
         Cal!StartCalibration(points, resume, jobs)
  PROVE  CalInv'
<1> USE DEF CalInv
<1>1. CalTypes'
  BY DEF Cal!StartCalibration, Cal!Wanted, Sweeps, Outcomes, CalTypes, Driver
<1>2. WorkersInv'
  BY DEF Cal!StartCalibration, Cal!Wanted, Sweeps, Outcomes, CalTypes, Driver, WorkersInv
<1>3. FilesInv'
  BY DEF Cal!StartCalibration, Cal!Wanted, Sweeps, Outcomes, CalTypes, Driver, WorkersInv, FilesInv
<1>4. RecordsInv'
  BY DEF Cal!StartCalibration, Cal!Wanted, Sweeps, Outcomes, CalTypes, Driver, RecordsInv
<1>5. KnownInv'
  BY DEF Cal!StartCalibration, Cal!Wanted, Sweeps, Outcomes, CalTypes, Driver, KnownInv
<1>6. Cal!SweepStatus'
  BY DEF Cal!StartCalibration, Cal!Wanted, Sweeps, Outcomes, CalTypes, Driver, WorkersInv, KnownInv, Cal!SweepStatus
<1> QED BY <1>1, <1>2, <1>3, <1>4, <1>5, <1>6

\* A point is taken up (the submissions of main).
LEMMA StartPointKeeps ==
  ASSUME MaxSweeps \in Nat, CalInv, NEW p \in Cal!Points, Cal!StartPoint(p)
  PROVE  CalInv'
<1> USE DEF CalInv
<1>1. CalTypes'
  BY DEF Cal!StartPoint, Phases, Cal!Pooled, Cal!Busy, Cal!Pending, CalTypes, Driver
<1>2. WorkersInv'
  BY DEF Cal!StartPoint, Phases, Cal!Pooled, Cal!Busy, Cal!Pending, CalTypes, Driver, WorkersInv
<1>3. FilesInv'
  BY DEF Cal!StartPoint, Phases, Cal!Pooled, Cal!Busy, Cal!Pending, CalTypes, Driver, WorkersInv, FilesInv
<1>4. RecordsInv'
  BY DEF Cal!StartPoint, Phases, Cal!Pooled, Cal!Busy, Cal!Pending, CalTypes, Driver, RecordsInv
<1>5. KnownInv'
  BY DEF Cal!StartPoint, Phases, Cal!Pooled, Cal!Busy, Cal!Pending, CalTypes, Driver, KnownInv
<1>6. Cal!SweepStatus'
  BY DEF Cal!StartPoint, Phases, Cal!Pooled, Cal!Busy, Cal!Pending, CalTypes, Driver, WorkersInv, KnownInv, Cal!SweepStatus
<1> QED BY <1>1, <1>2, <1>3, <1>4, <1>5, <1>6

\* A worker raises (run_point).
LEMMA PointRaisesKeeps ==
  ASSUME MaxSweeps \in Nat, CalInv, NEW p \in Cal!Points, Cal!PointRaises(p)
  PROVE  CalInv'
<1> USE DEF CalInv
<1>1. CalTypes'
  BY EmptyIsRecord DEF Cal!PointRaises, Cal!Busy, Cal!Return, Phases, CalTypes, Driver
<1>2. WorkersInv'
  BY DEF Cal!PointRaises, Cal!Busy, Cal!Return, Phases, CalTypes, Driver, WorkersInv
<1>3. FilesInv'
  BY DEF Cal!PointRaises, Cal!Busy, Cal!Return, Phases, CalTypes, Driver, WorkersInv, FilesInv
<1>4. RecordsInv'
  BY EmptyIsRecord DEF Cal!PointRaises, Cal!Busy, Cal!Return, Phases, CalTypes, Driver, RecordsInv
<1>5. KnownInv'
  BY DEF Cal!PointRaises, Cal!Busy, Cal!Return, Phases, CalTypes, Driver, KnownInv
<1>6. Cal!SweepStatus'
  BY DEF Cal!PointRaises, Cal!Busy, Cal!Return, Phases, CalTypes, Driver, WorkersInv, KnownInv, Cal!SweepStatus
<1> QED BY <1>1, <1>2, <1>3, <1>4, <1>5, <1>6

\* A compile returns (run_point).
LEMMA CompileReturnsKeeps ==
  ASSUME MaxSweeps \in Nat, CalInv, NEW p \in Cal!Points, Cal!CompileReturns(p)
  PROVE  CalInv'
<1> USE DEF CalInv
<1> DEFINE file(ok) == [sweep |-> driver.sweep, ok |-> ok]
<1>1. \A ok \in BOOLEAN : file(ok) \in File
  BY DEF CalTypes, Driver, File
<1>2. kv' \in [Cal!Points -> [compile : File, timing : File]]
  <2>1. kv' = kv \/ \E ok \in BOOLEAN : kv' = [kv EXCEPT ![p].compile = file(ok)]
    BY DEF Cal!CompileReturns
  <2>2. \A ok \in BOOLEAN : [kv EXCEPT ![p].compile = file(ok)] \in [Cal!Points -> [compile : File, timing : File]]
    BY <1>1, WriteFile
  <2> QED BY <2>1, <2>2 DEF CalTypes
<1>3. worker' \in [Cal!Points -> Phases] /\ result' \in [Cal!Points -> Record]
  BY EmptyIsRecord DEF Cal!CompileReturns, Cal!Return, CalTypes, Phases
<1>4. CalTypes'
  BY <1>2, <1>3 DEF Cal!CompileReturns, CalTypes
<1>5. \A q \in Cal!Points : worker'[q] # "idle" => worker[q] # "idle"
  BY DEF Cal!CompileReturns, Cal!Return, CalTypes
<1>6. WorkersInv'
  BY <1>5, <1>3 DEF Cal!CompileReturns, CalTypes, Driver, WorkersInv, Phases
<1>7. \A q \in Cal!Points \ {p} : kv'[q] = kv[q] /\ worker'[q] = worker[q]
  BY DEF Cal!CompileReturns, Cal!Return, CalTypes
<1>8. worker'[p] \in {"sta", "returned"} /\ (worker'[p] = "sta" => kv'[p].compile.sweep = driver.sweep)
  BY DEF Cal!CompileReturns, Cal!Return, CalTypes
<1>9. FilesInv'
  BY <1>7, <1>8 DEF Cal!CompileReturns, FilesInv
<1>10. RecordsInv'
  BY EmptyIsRecord DEF Cal!CompileReturns, Cal!Return, CalTypes, RecordsInv
<1>11. KnownInv'
  BY <1>7, <1>8 DEF Cal!CompileReturns, CalTypes, Driver, KnownInv
<1>12. Cal!SweepStatus'
  BY DEF Cal!CompileReturns, Cal!SweepStatus
<1> QED BY <1>4, <1>6, <1>9, <1>10, <1>11, <1>12

\* An analysis returns (run_point).
LEMMA StaReturnsKeeps ==
  ASSUME MaxSweeps \in Nat, CalInv, NEW p \in Cal!Points, Cal!StaReturns(p)
  PROVE  CalInv'
<1> USE DEF CalInv, Cal!StaFails, Cal!Analysed
<1> DEFINE file(ok) == [sweep |-> driver.sweep, ok |-> ok]
<1>1. \A ok \in BOOLEAN : file(ok) \in File
  BY DEF CalTypes, Driver, File
<1>2. kv' \in [Cal!Points -> [compile : File, timing : File]]
  <2>1. kv' = kv \/ \E ok \in BOOLEAN : kv' = [kv EXCEPT ![p].timing = file(ok)]
    BY DEF Cal!StaReturns, Cal!Torn
  <2>2. \A ok \in BOOLEAN : [kv EXCEPT ![p].timing = file(ok)] \in [Cal!Points -> [compile : File, timing : File]]
    BY <1>1, WriteFile
  <2> QED BY <2>1, <2>2 DEF CalTypes
<1>3. worker' \in [Cal!Points -> Phases] /\ result' \in [Cal!Points -> Record]
  BY EmptyIsRecord DEF Cal!StaReturns, Cal!Return, CalTypes, Phases
<1>4. CalTypes'
  BY <1>2, <1>3 DEF Cal!StaReturns, CalTypes
<1>5. \A q \in Cal!Points : worker'[q] # "idle" => worker[q] # "idle"
  BY DEF Cal!StaReturns, Cal!Return, CalTypes
<1>6. WorkersInv'
  BY <1>5, <1>3 DEF Cal!StaReturns, CalTypes, Driver, WorkersInv, Phases
<1>7. \A q \in Cal!Points \ {p} : kv'[q] = kv[q] /\ worker'[q] = worker[q]
  BY DEF Cal!StaReturns, Cal!Return, CalTypes
<1>8. worker'[p] \in {"build", "returned"} /\ kv'[p].compile = kv[p].compile
  BY DEF Cal!StaReturns, Cal!Return, CalTypes
<1>9. worker'[p] = "build" => kv'[p].timing.sweep = driver.sweep
  BY DEF Cal!StaReturns, Cal!Return, CalTypes
<1>10. FilesInv'
  BY <1>7, <1>8, <1>9 DEF Cal!StaReturns, FilesInv
<1>11. RecordsInv'
  BY EmptyIsRecord DEF Cal!StaReturns, Cal!Return, CalTypes, RecordsInv
<1>12. KnownInv'
  BY <1>7, <1>8 DEF Cal!StaReturns, CalTypes, Driver, KnownInv
<1>13. Cal!SweepStatus'
  BY DEF Cal!StaReturns, Cal!SweepStatus
<1> QED BY <1>4, <1>6, <1>10, <1>11, <1>12, <1>13

\* A record is built (build_record).
LEMMA BuildReturnsKeeps ==
  ASSUME MaxSweeps \in Nat, CalInv, NEW p \in Cal!Points, Cal!BuildReturns(p)
  PROVE  CalInv'
<1> USE DEF CalInv
<1>1. CalTypes'
  BY BuiltIsRecord DEF Cal!BuildReturns, Cal!Return, Phases, CalTypes, Driver
<1>2. WorkersInv'
  BY DEF Cal!BuildReturns, Cal!Return, Phases, CalTypes, Driver, WorkersInv
<1>3. FilesInv'
  BY DEF Cal!BuildReturns, Cal!Return, Phases, CalTypes, Driver, WorkersInv, FilesInv
<1>4. RecordsInv'
  BY BuiltIsRecord DEF Cal!BuildReturns, Cal!Return, Phases, CalTypes, Driver, RecordsInv, FilesInv, OneCompile
<1>5. KnownInv'
  BY DEF Cal!BuildReturns, Cal!Return, Phases, CalTypes, Driver, KnownInv
<1>6. Cal!SweepStatus'
  BY DEF Cal!BuildReturns, Cal!Return, Phases, CalTypes, Driver, WorkersInv, KnownInv, Cal!SweepStatus
<1> QED BY <1>1, <1>2, <1>3, <1>4, <1>5, <1>6

\* A record, or a failure, is noted and the summary written (finish).
LEMMA FinishKeeps ==
  ASSUME MaxSweeps \in Nat, CalInv, NEW p \in Cal!Points, Cal!Finish(p)
  PROVE  CalInv'
<1> USE DEF CalInv
<1> DEFINE noted == IF result[p].ok THEN [driver.records EXCEPT ![p] = result[p]] ELSE driver.records
           failed == IF result[p].ok THEN driver.failures ELSE driver.failures \cup {p}
<1>1. noted \in [Cal!Points -> Record] /\ failed \in SUBSET Cal!Points
  BY DEF CalTypes, Driver
<1>2. driver' = [driver EXCEPT !.records = noted, !.failures = failed] /\ summary' = noted
  BY DEF Cal!Finish, Cal!write_summary, Cal!FailuresWith, CalTypes, Driver
<1>3. driver' \in Driver
  BY <1>1, <1>2 DEF CalTypes, Driver
<1>4. worker' \in [Cal!Points -> Phases] /\ result' \in [Cal!Points -> Record]
  BY EmptyIsRecord DEF Cal!Finish, CalTypes, Phases
<1>5. CalTypes'
  BY <1>1, <1>2, <1>3, <1>4 DEF Cal!Finish, CalTypes
<1>6. driver'.at = driver.at /\ driver'.jobs = driver.jobs /\ driver'.asked = driver.asked
      /\ driver'.todo = driver.todo /\ driver'.sweep = driver.sweep
      /\ driver'.records = noted /\ driver'.failures = failed
  BY <1>2 DEF CalTypes, Driver
<1>7. \A q \in Cal!Points : worker'[q] = IF q = p THEN "idle" ELSE worker[q]
  BY DEF Cal!Finish, CalTypes
<1>8. WorkersInv'
  BY <1>6, <1>7 DEF Cal!Finish, WorkersInv, CalTypes
<1>9. FilesInv'
  BY <1>6, <1>7 DEF Cal!Finish, FilesInv, CalTypes
<1>10. \A q \in Cal!Points : OneCompile(noted[q])
  BY DEF RecordsInv, CalTypes, Driver
<1>11. RecordsInv'
  BY <1>2, <1>6, <1>10, EmptyIsRecord DEF Cal!Finish, RecordsInv, CalTypes
<1>12. \A q \in Cal!Points : driver.records[q].ok => noted[q].ok
  BY DEF CalTypes, Driver
<1>13. noted[p].ok \/ p \in failed
  BY DEF CalTypes, Driver
<1>14. KnownInv'
  BY <1>2, <1>6, <1>7, <1>12, <1>13 DEF KnownInv, CalTypes, Driver
<1>15. Cal!SweepStatus'
  BY DEF Cal!Finish, WorkersInv, Cal!SweepStatus
<1> QED BY <1>5, <1>8, <1>9, <1>11, <1>14, <1>15

\* The result of a worker that raised ends the loop (finish).
LEMMA FinishRaisesKeeps ==
  ASSUME MaxSweeps \in Nat, CalInv, NEW p \in Cal!Points, Cal!FinishRaises(p)
  PROVE  CalInv'
<1> USE DEF CalInv
<1>1. CalTypes'
  BY EmptyIsRecord DEF Cal!FinishRaises, Cal!Pooled, Phases, Outcomes, CalTypes, Driver
<1>2. WorkersInv'
  BY DEF Cal!FinishRaises, Cal!Pooled, Phases, Outcomes, CalTypes, Driver, WorkersInv
<1>3. FilesInv'
  BY DEF Cal!FinishRaises, Cal!Pooled, Phases, Outcomes, CalTypes, Driver, WorkersInv, FilesInv
<1>4. RecordsInv'
  BY EmptyIsRecord DEF Cal!FinishRaises, Cal!Pooled, Phases, Outcomes, CalTypes, Driver, RecordsInv
<1>5. KnownInv'
  BY DEF Cal!FinishRaises, Cal!Pooled, Phases, Outcomes, CalTypes, Driver, KnownInv
<1>6. Cal!SweepStatus'
  BY DEF Cal!FinishRaises, Cal!Pooled, Phases, Outcomes, CalTypes, Driver, WorkersInv, KnownInv, Cal!SweepStatus
<1> QED BY <1>1, <1>2, <1>3, <1>4, <1>5, <1>6

\* The script ends (main).
LEMMA ConcludeKeeps ==
  ASSUME MaxSweeps \in Nat, CalInv, Cal!Conclude
  PROVE  CalInv'
<1> USE DEF CalInv
<1>1. CalTypes'
  BY EmptyIsRecord DEF Cal!Conclude, Cal!Unwinding, Cal!Busy, Cal!Pending, Phases, Outcomes, CalTypes, Driver
<1>2. WorkersInv'
  BY DEF Cal!Conclude, Cal!Unwinding, Cal!Busy, Cal!Pending, Phases, Outcomes, CalTypes, Driver, WorkersInv
<1>3. FilesInv'
  BY DEF Cal!Conclude, Cal!Unwinding, Cal!Busy, Cal!Pending, Phases, Outcomes, CalTypes, Driver, WorkersInv, FilesInv
<1>4. RecordsInv'
  BY EmptyIsRecord DEF Cal!Conclude, Cal!Unwinding, Cal!Busy, Cal!Pending, Phases, Outcomes, CalTypes, Driver, RecordsInv
<1>5. KnownInv'
  BY DEF Cal!Conclude, Cal!Unwinding, Cal!Busy, Cal!Pending, Phases, Outcomes, CalTypes, Driver, KnownInv
<1>6. Cal!SweepStatus'
  BY DEF Cal!Conclude, Cal!Unwinding, Cal!Busy, Cal!Pending, Phases, Outcomes, CalTypes, Driver, WorkersInv, KnownInv, Cal!SweepStatus
<1> QED BY <1>1, <1>2, <1>3, <1>4, <1>5, <1>6

\* The script is killed; files may be torn.
LEMMA KillKeeps ==
  ASSUME MaxSweeps \in Nat, CalInv, Cal!KillCalibration
  PROVE  CalInv'
<1> USE DEF CalInv
<1>1. CalTypes'
  <2>1. Cal!Torn(driver.sweep) \in File
    BY DEF Cal!Torn, File, CalTypes, Driver
  <2>2. \A p \in Cal!Points : kv'[p] \in [compile : File, timing : File]
    <3> TAKE p \in Cal!Points
    <3>1. kv[p] \in [compile : File, timing : File]
      BY DEF CalTypes
    <3>2. kv'[p] \in {kv[p], [kv[p] EXCEPT !.compile = Cal!Torn(driver.sweep)],
                            [kv[p] EXCEPT !.timing = Cal!Torn(driver.sweep)]}
      BY DEF Cal!KillCalibration
    <3> QED BY <2>1, <3>1, <3>2
  <2>3. kv' = [p \in Cal!Points |-> kv'[p]]
    BY DEF Cal!KillCalibration
  <2>4. worker' \in [Cal!Points -> Phases] /\ result' \in [Cal!Points -> Record]
    BY EmptyIsRecord DEF Cal!KillCalibration, Phases
  <2>5. driver' \in Driver
    BY DEF Cal!KillCalibration, CalTypes, Driver
  <2> QED BY <2>2, <2>3, <2>4, <2>5 DEF Cal!KillCalibration, CalTypes, Outcomes
<1>2. WorkersInv'
  BY DEF Cal!KillCalibration, Cal!Torn, Phases, Outcomes, File, CalTypes, Driver, WorkersInv
<1>3. FilesInv'
  BY DEF Cal!KillCalibration, Cal!Torn, Phases, Outcomes, File, CalTypes, Driver, WorkersInv, FilesInv
<1>4. RecordsInv'
  BY EmptyIsRecord DEF Cal!KillCalibration, Cal!Torn, Phases, Outcomes, File, CalTypes, Driver, RecordsInv
<1>5. KnownInv'
  BY DEF Cal!KillCalibration, Cal!Torn, Phases, Outcomes, File, CalTypes, Driver, KnownInv
<1>6. Cal!SweepStatus'
  BY DEF Cal!KillCalibration, Cal!Torn, Phases, Outcomes, File, CalTypes, Driver, WorkersInv, KnownInv, Cal!SweepStatus
<1> QED BY <1>1, <1>2, <1>3, <1>4, <1>5, <1>6

\* The summary is rebuilt from the directories (--summary-only).
LEMMA RebuildKeeps ==
  ASSUME MaxSweeps \in Nat, CalInv, Cal!Rebuild
  PROVE  CalInv'
<1> USE DEF CalInv
<1>1. CalTypes'
  <2>1. driver' \in Driver
    <3>1. driver.sweep + 1 \in Sweeps
      BY DEF Cal!Rebuild, CalTypes, Driver, Sweeps
    <3> QED BY <3>1 DEF Cal!Rebuild, CalTypes, Driver
  <2>2. \A p \in Cal!Points : Cal!build_record(p, "rebuild") \in Record
    BY BuiltIsRecord
  <2>3. summary' \in [Cal!Points -> Record]
    BY <2>2 DEF Cal!Rebuild, CalTypes
  <2> QED BY <2>1, <2>3 DEF Cal!Rebuild, CalTypes, Outcomes
<1>2. WorkersInv'
  BY DEF Cal!Rebuild, Outcomes, Sweeps, CalTypes, Driver, WorkersInv
<1>3. FilesInv'
  BY DEF Cal!Rebuild, Outcomes, Sweeps, CalTypes, Driver, WorkersInv, FilesInv
<1>4. RecordsInv'
  BY BuiltIsRecord DEF Cal!Rebuild, CalTypes, Driver, RecordsInv, OneCompile
<1>5. KnownInv'
  BY DEF Cal!Rebuild, Outcomes, Sweeps, CalTypes, Driver, KnownInv
<1>6. Cal!SweepStatus'
  BY DEF Cal!Rebuild, Outcomes, Sweeps, CalTypes, Driver, WorkersInv, KnownInv, Cal!SweepStatus
<1> QED BY <1>1, <1>2, <1>3, <1>4, <1>5, <1>6

\* A step of something else.
LEMMA CalStutterKeeps ==
  ASSUME MaxSweeps \in Nat, CalInv, UNCHANGED Cal!calVars
  PROVE  CalInv'
<1> USE DEF CalInv
<1>1. CalTypes'
  BY DEF Cal!calVars, CalTypes, Driver
<1>2. WorkersInv'
  BY DEF Cal!calVars, CalTypes, Driver, WorkersInv
<1>3. FilesInv'
  BY DEF Cal!calVars, CalTypes, Driver, WorkersInv, FilesInv
<1>4. RecordsInv'
  BY DEF Cal!calVars, CalTypes, Driver, RecordsInv
<1>5. KnownInv'
  BY DEF Cal!calVars, CalTypes, Driver, KnownInv
<1>6. Cal!SweepStatus'
  BY DEF Cal!calVars, CalTypes, Driver, WorkersInv, KnownInv, Cal!SweepStatus
<1> QED BY <1>1, <1>2, <1>3, <1>4, <1>5, <1>6

-----------------------------------------------------------------------------
\* The invariant is inductive.
LEMMA CalNextKeeps == ASSUME MaxSweeps \in Nat, CalInv, [Cal!CalNext]_(Cal!calVars) PROVE CalInv'
<1>1. ASSUME NEW points \in (SUBSET Cal!Points) \ {{}}, NEW resume \in BOOLEAN, NEW jobs \in {1, 2},
             Cal!StartCalibration(points, resume, jobs)
      PROVE  CalInv'
  BY <1>1, StartCalibrationKeeps
<1>2. ASSUME NEW p \in Cal!Points, Cal!PointStep(p) PROVE CalInv'
  BY <1>2, StartPointKeeps, PointRaisesKeeps, CompileReturnsKeeps, StaReturnsKeeps, BuildReturnsKeeps,
     FinishKeeps, FinishRaisesKeeps DEF Cal!PointStep
<1> QED BY <1>1, <1>2, ConcludeKeeps, KillKeeps, RebuildKeeps, CalStutterKeeps DEF Cal!CalNext, Cal!CalStep

\* What the invariant says of the files and the exit status.
LEMMA CalInvIsTrue == CalInv => Cal!CalTypeOK /\ Cal!RecordIsOneCompile /\ Cal!SweepStatus
<1> QED BY DEF CalInv, CalTypes, Driver, Phases, File, Sweeps, Outcomes, Cal!CalTypeOK, RecordsInv,
               OneCompile, Cal!RecordIsOneCompile

\* A step of the script takes no good record away, unless it rebuilds the summary.
LEMMA NextKeepsGood == ASSUME CalInv, [Cal!CalNext]_(Cal!calVars) PROVE [Cal!GoodKept]_(Cal!calVars)
<1> SUFFICES ASSUME Cal!CalNext PROVE Cal!GoodKept
  OBVIOUS
<1>1. ASSUME NEW p \in Cal!Points, Cal!Finish(p) PROVE Cal!GoodKept
  BY <1>1 DEF Cal!Finish, Cal!write_summary, Cal!GoodKept, CalInv, KnownInv, CalTypes, Driver
<1>2. ASSUME Cal!Conclude PROVE Cal!GoodKept
  BY <1>2 DEF Cal!Conclude, Cal!Unwinding, Cal!GoodKept, CalInv, KnownInv, CalTypes, Driver
<1>3. ASSUME Cal!Rebuild PROVE Cal!GoodKept
  BY <1>3 DEF Cal!Rebuild, Cal!GoodKept
<1>4. ASSUME UNCHANGED summary PROVE Cal!GoodKept
  BY <1>4 DEF Cal!GoodKept
<1> QED BY <1>1, <1>2, <1>3, <1>4 DEF Cal!CalNext, Cal!CalStep, Cal!PointStep, Cal!StartCalibration, Cal!StartPoint,
            Cal!PointRaises, Cal!CompileReturns, Cal!StaReturns, Cal!BuildReturns, Cal!FinishRaises, Cal!KillCalibration

(***************************************************************************)
(* The summary of run_calibration.py tells the truth: a record a sweep     *)
(* wrote is of one compile, an exit status of 0 means a good record of     *)
(* every point asked for, and only a rebuild takes a good record away.     *)
(***************************************************************************)
THEOREM SummaryIsTrue == ASSUME MaxSweeps \in Nat PROVE Cal!CalSpec => Cal!RecordsAreTrue
<1>1. Cal!CalInit => CalInv
  BY CalInitInv
<1>2. CalInv /\ [Cal!CalNext]_(Cal!calVars) => CalInv'
  BY CalNextKeeps
<1>3. CalInv /\ [Cal!CalNext]_(Cal!calVars) => [Cal!GoodKept]_(Cal!calVars)
  BY NextKeepsGood
<1>4. CalInv => Cal!CalTypeOK /\ Cal!RecordIsOneCompile /\ Cal!SweepStatus
  BY DEF CalInv, CalTypes, Driver, Phases, File, Sweeps, Outcomes, Cal!CalTypeOK, RecordsInv, OneCompile,
         Cal!RecordIsOneCompile
<1> QED BY <1>1, <1>2, <1>3, <1>4, PTL DEF Cal!CalSpec, Cal!RecordsAreTrue

-----------------------------------------------------------------------------
Complex  == [re : Int, im : Int]

-----------------------------------------------------------------------------
(* Fixed point.                                                            *)

\* The three-multiplier form computes the same two sums as the four-multiplier form
\* (cmul3_re_raw, cmul3_im_raw).
THEOREM ThreeMultipliersAgree == \A a, b \in Complex : Mul!cmul3_agrees(a, b)
  BY DEF Complex, Mul!cmul3_agrees, Mul!cmul3_re_raw, Mul!cmul3_im_raw, Mul!cmul3_k1, Mul!cmul3_k2, Mul!cmul3_k3,
         Mul!cmul_re_raw, Mul!cmul_im_raw, Mul!mul_q15

\* Saturation keeps what fits and ends in the range.
LEMMA SatRange ==
  ASSUME NEW v \in Int, NEW w \in Nat, Mul!min_of(w) \in Int, Mul!max_of(w) \in Int, Mul!min_of(w) <= Mul!max_of(w)
  PROVE  Mul!sat(v, w) \in Int /\ Mul!min_of(w) <= Mul!sat(v, w) /\ Mul!sat(v, w) <= Mul!max_of(w)
  BY DEF Mul!sat

\* A value of the range of a width survives the width.
LEMMA WrapFits ==
  ASSUME NEW v \in Int, NEW w \in Nat, NEW m \in Nat \ {0},
         2 ^ w = 2 * m, 2 ^ (w - 1) = m, -m <= v, v < m
  PROVE  Mul!Wrap(v, w) = v
<1>1. CASE v >= 0
  <2>1. v % (2 * m) = v
    BY <1>1
  <2> QED BY <2>1, <1>1 DEF Mul!Wrap
<1>2. CASE v < 0
  <2>1. v % (2 * m) = v + 2 * m
    BY <1>2
  <2> QED BY <2>1, <1>2 DEF Mul!Wrap
<1> QED BY <1>1, <1>2

\* A product is within the product of the bounds.
LEMMA ProductBound ==
  ASSUME NEW x \in Int, NEW y \in Int, NEW m \in Nat, NEW n \in Nat,
         -m <= x, x <= m, -n <= y, y <= n
  PROVE  x * y \in Int /\ -(m * n) <= x * y /\ x * y <= m * n
  OBVIOUS

\* The widths, in units of half the sample range.
H == 2 ^ (SAMPLE_W - 1)

\* The widths of the pipeline, as powers of two.
LEMMA Widths ==
  ASSUME ExponentLaw
  PROVE  /\ H \in Nat \ {0} /\ H * H \in Nat \ {0}
         /\ 2 ^ SAMPLE_W = 2 * H
         /\ 2 ^ (Mul!PRE_W - 1) = 2 * H /\ 2 ^ Mul!PRE_W = 2 * (2 * H)
         /\ 2 ^ (Mul!PROD_W - 1) = 2 * (H * H) /\ 2 ^ Mul!PROD_W = 2 * (2 * (H * H))
         /\ 2 ^ (Mul!K_W - 1) = 4 * (H * H) /\ 2 ^ Mul!K_W = 2 * (4 * (H * H))
         /\ 2 ^ (Mul!CMUL_PROD_W - 1) = 4 * (H * H) /\ 2 ^ Mul!CMUL_PROD_W = 2 * (4 * (H * H))
         /\ 2 ^ (Mul!SUM_W - 1) = 8 * (H * H) /\ 2 ^ Mul!SUM_W = 2 * (8 * (H * H))
         /\ SAMPLE_W \in Nat /\ Mul!PRE_W \in Nat /\ Mul!PROD_W \in Nat /\ Mul!K_W \in Nat
         /\ Mul!CMUL_PROD_W \in Nat /\ Mul!SUM_W \in Nat
<1>1. SAMPLE_W \in Nat /\ SAMPLE_W - 1 \in Nat
  BY WidthAssumption
<1>2. H \in Nat \ {0}
  BY <1>1 DEF ExponentLaw, H
<1>3. H * H \in Nat \ {0}
  BY <1>2
<1>4. \A i \in Nat : 2 ^ (i + 1) = 2 * (2 ^ i)
  <2> TAKE i \in Nat
  <2>1. 2 ^ (i + 1) = (2 ^ i) * (2 ^ 1) /\ 2 ^ 1 = 2 /\ 2 ^ i \in Nat
    BY DEF ExponentLaw
  <2>2. (2 ^ i) * (2 ^ 1) = (2 ^ i) * 2
    BY <2>1
  <2> QED BY <2>1, <2>2
<1>5. 2 ^ SAMPLE_W = 2 * H
  BY <1>1, <1>4 DEF H
<1>6. 2 ^ (SAMPLE_W + 1) = 4 * H
  BY <1>1, <1>4, <1>5, <1>2
<1>7. 2 ^ (SAMPLE_W + (SAMPLE_W - 1)) = (2 * H) * H
  BY <1>1, <1>5 DEF ExponentLaw, H
<1>8. 2 ^ (2 * SAMPLE_W - 1) = 2 * (H * H)
  BY <1>1, <1>2, <1>7
<1>9. 2 ^ (2 * SAMPLE_W) = 4 * (H * H)
  <2>1. 2 ^ ((2 * SAMPLE_W - 1) + 1) = 2 * (2 ^ (2 * SAMPLE_W - 1))
    BY <1>1, <1>4
  <2> QED BY <2>1, <1>1, <1>3, <1>8
<1>10. 2 ^ (2 * SAMPLE_W + 1) = 8 * (H * H)
  <2>1. 2 ^ (2 * SAMPLE_W + 1) = 2 * (2 ^ (2 * SAMPLE_W))
    BY <1>1, <1>4
  <2> QED BY <2>1, <1>3, <1>9
<1>11. 2 ^ (2 * SAMPLE_W + 2) = 16 * (H * H)
  <2>1. 2 ^ ((2 * SAMPLE_W + 1) + 1) = 2 * (2 ^ (2 * SAMPLE_W + 1))
    BY <1>1, <1>4
  <2> QED BY <2>1, <1>1, <1>3, <1>10
<1>12. /\ Mul!PRE_W = SAMPLE_W + 1 /\ Mul!PRE_W - 1 = SAMPLE_W
       /\ Mul!PROD_W = 2 * SAMPLE_W /\ Mul!PROD_W - 1 = 2 * SAMPLE_W - 1
       /\ Mul!K_W = 2 * SAMPLE_W + 1 /\ Mul!K_W - 1 = 2 * SAMPLE_W
       /\ Mul!CMUL_PROD_W = 2 * SAMPLE_W + 1 /\ Mul!CMUL_PROD_W - 1 = 2 * SAMPLE_W
       /\ Mul!SUM_W = 2 * SAMPLE_W + 2 /\ Mul!SUM_W - 1 = 2 * SAMPLE_W + 1
  BY <1>1 DEF Mul!PRE_W, Mul!PROD_W, Mul!K_W, Mul!CMUL_PROD_W, Mul!SUM_W
<1> QED BY <1>1, <1>2, <1>3, <1>5, <1>6, <1>8, <1>9, <1>10, <1>11, <1>12

-----------------------------------------------------------------------------
(* No intermediate loses a bit.                                            *)

Reference(x) ==
  [p |-> [re |-> Mul!cmul_re_raw(x.a, x.b), im |-> Mul!cmul_im_raw(x.a, x.b)],
   y |-> Mul!cmul(x.a, x.b), flags |-> Mul!cmul_flags(x.a, x.b)]

\* What is rounded fits the sample it is put in.
LEMMA RoundedFits ==
  ASSUME ExponentLaw, NEW v \in Int
  PROVE  Mul!Wrap(Mul!Rounded(v), SAMPLE_W) = Mul!Rounded(v)
<1>1. /\ H \in Nat \ {0} /\ 2 ^ SAMPLE_W = 2 * H /\ 2 ^ (SAMPLE_W - 1) = H /\ SAMPLE_W \in Nat
  BY Widths DEF H
<1>2. Mul!min_of(SAMPLE_W) = -H /\ Mul!max_of(SAMPLE_W) = H - 1
  BY <1>1 DEF Mul!min_of, Mul!max_of
<1>3. Mul!round_even(v, Mul!PROD_SHIFT) \in Int
  <2>1. 2 ^ Mul!PROD_SHIFT = H
    BY DEF Mul!PROD_SHIFT, Mul!FRAC_W, H
  <2>2. v \div H \in Int /\ v % H \in Int /\ (v \div H) % 2 \in Int
    BY <1>1
  <2> DEFINE half == 2 ^ (Mul!PROD_SHIFT - 1)
  <2>3. Mul!Nearest(v \div H, v % H, half) \in Int
    BY <2>2 DEF Mul!Nearest
  <2> QED BY <2>1, <2>3 DEF Mul!round_even
<1>4. Mul!Rounded(v) \in Int /\ -H <= Mul!Rounded(v) /\ Mul!Rounded(v) < H
  <2>1. Mul!Rounded(v) = Mul!sat(Mul!round_even(v, Mul!PROD_SHIFT), SAMPLE_W)
    BY DEF Mul!Rounded, Mul!round_sat
  <2> QED BY <2>1, <1>1, <1>2, <1>3, SatRange
<1> QED BY <1>1, <1>4, WrapFits

\* The adders of the first stage lose no bit.
LEMMA SumsFit ==
  ASSUME ExponentLaw, NEW x \in Operand
  PROVE  Mul!PreAdd(x) = [bsum |-> x.b.re + x.b.im, asum |-> x.a.re + x.a.im,
                      adif |-> x.a.im - x.a.re, a |-> x.a, b |-> x.b]
<1>1. /\ H \in Nat \ {0} /\ 2 * H \in Nat \ {0} /\ Mul!PRE_W \in Nat
      /\ 2 ^ (Mul!PRE_W - 1) = 2 * H /\ 2 ^ Mul!PRE_W = 2 * (2 * H)
  BY Widths
<1>2. \A s \in {x.a.re, x.a.im, x.b.re, x.b.im} : s \in Int /\ -H <= s /\ s < H
  BY <1>1 DEF Operand, Sample, Mul!Q15, Mul!Q15_MIN, Mul!Q15_MAX, Mul!min_of, Mul!max_of, H
<1>3. \A v \in Int : -(2 * H) <= v /\ v < 2 * H => Mul!Wrap(v, Mul!PRE_W) = v
  BY <1>1, WrapFits
<1>4. Mul!Wrap(x.b.re + x.b.im, Mul!PRE_W) = x.b.re + x.b.im
  BY <1>1, <1>2, <1>3
<1>5. Mul!Wrap(x.a.re + x.a.im, Mul!PRE_W) = x.a.re + x.a.im
  BY <1>1, <1>2, <1>3
<1>6. Mul!Wrap(x.a.im - x.a.re, Mul!PRE_W) = x.a.im - x.a.re
  BY <1>1, <1>2, <1>3
<1> QED BY <1>4, <1>5, <1>6 DEF Mul!PreAdd

\* What each location carries, over the integers.
ExactProducts(variant, x) ==
  IF variant = "MULT3"
  THEN [k1 |-> Mul!cmul3_k1(x.a, x.b), k2 |-> Mul!cmul3_k2(x.a, x.b), k3 |-> Mul!cmul3_k3(x.a, x.b)]
  ELSE [rr |-> x.a.re * x.b.re, ii |-> x.a.im * x.b.im,
        ri |-> x.a.re * x.b.im, ir |-> x.a.im * x.b.re]
ExactSums(x) == [re |-> Mul!cmul_re_raw(x.a, x.b), im |-> Mul!cmul_im_raw(x.a, x.b)]

\* The products and the sums behind them are exact: a sample is within H, a sum of two
\* within 2H, so k1, k2, k3 are within 2H^2 and their sums within 4H^2.
LEMMA ProductsFit ==
  ASSUME ExponentLaw, NEW x \in Operand
  PROVE  /\ Mul!Products(Mul!PreAdd(x)) = ExactProducts(shape.variant, x)
         /\ Mul!PostAdd(ExactProducts(shape.variant, x)) = ExactSums(x)
<1> DEFINE s == Mul!PreAdd(x)
           are == x.a.re
           aim == x.a.im
           bre == x.b.re
           bim == x.b.im
           M == H * H
           settled == ExactProducts(shape.variant, x)
<1>0. /\ H \in Nat \ {0} /\ M \in Nat \ {0} /\ 2 * M \in Nat \ {0} /\ 4 * M \in Nat \ {0}
      /\ 8 * M \in Nat \ {0}
  BY Widths
<1>1. /\ are \in Int /\ -H <= are /\ are < H /\ aim \in Int /\ -H <= aim /\ aim < H
      /\ bre \in Int /\ -H <= bre /\ bre < H /\ bim \in Int /\ -H <= bim /\ bim < H
  BY <1>0 DEF Operand, Sample, Mul!Q15, Mul!Q15_MIN, Mul!Q15_MAX, Mul!min_of, Mul!max_of, H
<1>2. /\ s.bsum = bre + bim /\ s.asum = are + aim /\ s.adif = aim - are /\ s.a = x.a /\ s.b = x.b
  BY SumsFit
<1>3. \A v \in Int : -(2 * M) <= v /\ v < 2 * M => Mul!Wrap(v, Mul!PROD_W) = v
  BY <1>0, Widths, WrapFits
<1>4. \A v \in Int : -(4 * M) <= v /\ v < 4 * M => Mul!Wrap(v, Mul!K_W) = v /\ Mul!Wrap(v, Mul!CMUL_PROD_W) = v
  BY <1>0, Widths, WrapFits
<1>5. \A v \in Int : -(8 * M) <= v /\ v < 8 * M => Mul!Wrap(v, Mul!SUM_W) = v
  BY <1>0, Widths, WrapFits
<1>6. \A p, q \in {are, aim, bre, bim} : p * q \in Int /\ -M <= p * q /\ p * q <= M
  <2>1. \A p, q \in Int : -H <= p /\ p <= H /\ -H <= q /\ q <= H
          => p * q \in Int /\ -M <= p * q /\ p * q <= M
    BY <1>0, ProductBound
  <2>2. \A p \in {are, aim, bre, bim} : p \in Int /\ -H <= p /\ p <= H
    BY <1>0, <1>1
  <2> HIDE DEF are, aim, bre, bim, M
  <2> QED BY <2>1, <2>2
<1> HIDE DEF M
<1> DEFINE re == are * bre - aim * bim
           im == are * bim + aim * bre
<1>7. /\ re \in Int /\ -(2 * M) <= re /\ re <= 2 * M
      /\ im \in Int /\ -(2 * M) <= im /\ im <= 2 * M
  BY <1>0, <1>6
<1>8. Mul!cmul_re_raw(x.a, x.b) = re /\ Mul!cmul_im_raw(x.a, x.b) = im
  BY DEF Mul!cmul_re_raw, Mul!cmul_im_raw, Mul!mul_q15
<1>9. Mul!Wrap(re, Mul!CMUL_PROD_W) = re /\ Mul!Wrap(im, Mul!CMUL_PROD_W) = im
  BY <1>0, <1>4, <1>7
<1>10. CASE shape.variant = "MULT3"
  <2> DEFINE k1 == are * (bre + bim)
             k2 == bim * (are + aim)
             k3 == bre * (aim - are)
  <2>1. /\ k1 = are * bre + are * bim /\ k2 = bim * are + bim * aim /\ k3 = bre * aim - bre * are
        /\ are * bim = bim * are /\ bim * aim = aim * bim /\ bre * are = are * bre
        /\ bre * aim = aim * bre
    BY <1>1
  <2>2. /\ k1 \in Int /\ -(2 * M) <= k1 /\ k1 <= 2 * M
        /\ k2 \in Int /\ -(2 * M) <= k2 /\ k2 <= 2 * M
        /\ k3 \in Int /\ -(2 * M) <= k3 /\ k3 <= 2 * M
    BY <2>1, <1>0, <1>6
  <2>3. k1 - k2 = re /\ k1 + k3 = im
    BY <2>1, <1>6
  <2>4. Mul!Products(s) = [k1 |-> k1, k2 |-> k2, k3 |-> k3]
    <3> HIDE DEF k1, k2, k3
    <3>1. Mul!Wrap(k1, Mul!K_W) = k1 /\ Mul!Wrap(k2, Mul!K_W) = k2 /\ Mul!Wrap(k3, Mul!K_W) = k3
      BY <2>2, <1>0, <1>4
    <3> USE DEF k1, k2, k3
    <3>2. Mul!Products(s) = [k1 |-> Mul!Wrap(k1, Mul!K_W), k2 |-> Mul!Wrap(k2, Mul!K_W), k3 |-> Mul!Wrap(k3, Mul!K_W)]
      BY <1>2, <1>10 DEF Mul!Products
    <3> QED BY <3>1, <3>2
  <2> HIDE DEF k1, k2, k3
  <2>5. Mul!Wrap(k1 - k2, Mul!SUM_W) = re /\ Mul!Wrap(k1 + k3, Mul!SUM_W) = im
    BY <2>3, <1>0, <1>5, <1>7
  <2>6. settled = [k1 |-> k1, k2 |-> k2, k3 |-> k3]
    BY <1>10 DEF ExactProducts, Mul!cmul3_k1, Mul!cmul3_k2, Mul!cmul3_k3, k1, k2, k3
  <2> HIDE DEF settled
  <2>7. Mul!PostAdd(settled) = [re |-> Mul!Wrap(re, Mul!CMUL_PROD_W), im |-> Mul!Wrap(im, Mul!CMUL_PROD_W)]
    BY <2>6, <2>5, <1>10 DEF Mul!PostAdd
  <2> USE DEF settled
  <2> QED BY <2>4, <2>6, <2>7, <1>8, <1>9 DEF ExactSums
<1>11. CASE shape.variant # "MULT3"
  <2>1. Mul!Products(s) = [rr |-> Mul!Wrap(are * bre, Mul!PROD_W), ii |-> Mul!Wrap(aim * bim, Mul!PROD_W),
                       ri |-> Mul!Wrap(are * bim, Mul!PROD_W), ir |-> Mul!Wrap(aim * bre, Mul!PROD_W)]
    BY <1>2, <1>11 DEF Mul!Products
  <2>2. \A p, q \in {are, aim, bre, bim} : Mul!Wrap(p * q, Mul!PROD_W) = p * q
    BY <1>0, <1>3, <1>6
  <2>3. Mul!Products(s) = [rr |-> are * bre, ii |-> aim * bim, ri |-> are * bim, ir |-> aim * bre]
    BY <2>1, <2>2
  <2>4. settled = [rr |-> are * bre, ii |-> aim * bim, ri |-> are * bim, ir |-> aim * bre]
    BY <1>11 DEF ExactProducts
  <2> HIDE DEF settled
  <2>5. Mul!PostAdd(settled) = [re |-> Mul!Wrap(re, Mul!CMUL_PROD_W), im |-> Mul!Wrap(im, Mul!CMUL_PROD_W)]
    BY <2>4, <1>11 DEF Mul!PostAdd
  <2> USE DEF settled
  <2> QED BY <2>3, <2>4, <2>5, <1>8, <1>9 DEF ExactSums
<1> QED BY <1>10, <1>11

\* The output register holds the reference's value.
LEMMA ResultFits ==
  ASSUME ExponentLaw, NEW x \in Operand
  PROVE  Mul!RoundOut(ExactSums(x)) = Reference(x)
<1> DEFINE re == Mul!cmul_re_raw(x.a, x.b)
           im == Mul!cmul_im_raw(x.a, x.b)
<1>1. re \in Int /\ im \in Int
  <2>1. H \in Nat
    BY Widths
  <2> QED BY <2>1 DEF Operand, Sample, Mul!Q15, Mul!Q15_MIN, Mul!Q15_MAX, Mul!min_of, Mul!max_of, H,
                      Mul!cmul_re_raw, Mul!cmul_im_raw, Mul!mul_q15
<1>2. Mul!Wrap(Mul!Rounded(re), SAMPLE_W) = Mul!Rounded(re) /\ Mul!Wrap(Mul!Rounded(im), SAMPLE_W) = Mul!Rounded(im)
  BY <1>1, RoundedFits
<1>3. Mul!RoundOut([re |-> re, im |-> im]) =
        [p |-> [re |-> re, im |-> im],
         y |-> [re |-> Mul!Wrap(Mul!Rounded(re), SAMPLE_W), im |-> Mul!Wrap(Mul!Rounded(im), SAMPLE_W)],
         flags |-> [re |-> Mul!round_sat_flags(re, Mul!PROD_SHIFT, SAMPLE_W),
                    im |-> Mul!round_sat_flags(im, Mul!PROD_SHIFT, SAMPLE_W)]]
  BY DEF Mul!RoundOut
<1> QED BY <1>2, <1>3 DEF ExactSums, Reference, Mul!cmul, Mul!cmul_flags

-----------------------------------------------------------------------------
(* The pipeline: each register belongs to one earlier cycle.               *)

\* How many cycles ago the beat entered that is at the output of each location.
PreAge(n)  == IF Mul!EnPre(n) THEN 2 ELSE 1
MultAge(n) == IF Mul!EnMult(n) THEN PreAge(n) + 1 ELSE PreAge(n)
PostAge(n) == IF Mul!EnPost(n) THEN MultAge(n) + 1 ELSE MultAge(n)
Beats(q, d) == d <= Len(q) /\ q[d] # NoBeat

MulInv ==
  LET n == shape.stages
  IN  /\ shape \in [variant : {"MULT3", "MULT4"}, stages : 1 .. 5]
      /\ DOMAIN valid = 1 .. n
      /\ entered \in Seq(Operands \cup {NoBeat}) /\ Len(entered) <= n
      /\ \A d \in 1 .. n : valid[d] <=> Beats(entered, d)
      /\ Beats(entered, 1) => stage.in = entered[1]
      /\ Mul!EnPre(n) /\ Beats(entered, 2) => stage.pre = Mul!PreAdd(entered[2])
      /\ Mul!EnMult(n) /\ Beats(entered, MultAge(n))
           => stage.mult = ExactProducts(shape.variant, entered[MultAge(n)])
      /\ Mul!EnPost(n) /\ Beats(entered, PostAge(n)) => stage.post = ExactSums(entered[PostAge(n)])
      /\ Mul!EnOut(n) /\ Beats(entered, n) => stage.out = Reference(entered[n])

\* The operands are samples, and a gap is told from a beat.


\* Along the chain, what is at each location is the exact value of the beat of its age.
LEMMA ChainIsExact ==
  ASSUME ExponentLaw, Presented, MulInv
  PROVE  LET n == shape.stages
         IN  /\ Beats(entered, 1) => Mul!AtPre = Mul!PreAdd(entered[1])
             /\ Beats(entered, PreAge(n)) => Mul!AtMult = ExactProducts(shape.variant, entered[PreAge(n)])
             /\ Beats(entered, MultAge(n)) => Mul!AtPost = ExactSums(entered[MultAge(n)])
             /\ Beats(entered, PostAge(n)) => Mul!AtOut = Reference(entered[PostAge(n)])
             /\ Beats(entered, n) => Mul!Result = Reference(entered[n])
<1> DEFINE n == shape.stages
<1>1. n \in 1 .. 5
  BY DEF MulInv
<1>2. \A d \in 1 .. 5 : Beats(entered, d) => entered[d] \in Operand
  BY DEF MulInv, Beats, Presented
<1>3. /\ PreAge(n) \in 1 .. 5 /\ MultAge(n) \in 1 .. 5 /\ PostAge(n) \in 1 .. 5
      /\ (Mul!EnOut(n) => PostAge(n) = n - 1) /\ (~Mul!EnOut(n) => PostAge(n) = n)
      /\ (~Mul!EnPre(n) => PreAge(n) = 1) /\ (Mul!EnPre(n) => PreAge(n) = 2)
      /\ (~Mul!EnMult(n) => MultAge(n) = PreAge(n)) /\ (~Mul!EnPost(n) => PostAge(n) = MultAge(n))
  BY <1>1 DEF PreAge, MultAge, PostAge, Mul!EnPre, Mul!EnMult, Mul!EnPost, Mul!EnOut
<1>4. Beats(entered, 1) => Mul!AtPre = Mul!PreAdd(entered[1])
  BY DEF MulInv, Mul!AtPre
<1>5. ASSUME Beats(entered, PreAge(n))
      PROVE  Mul!AtMult = ExactProducts(shape.variant, entered[PreAge(n)])
  <2>1. (IF Mul!EnPre(n) THEN stage.pre ELSE Mul!AtPre) = Mul!PreAdd(entered[PreAge(n)])
    BY <1>3, <1>4, <1>5 DEF MulInv
  <2> QED BY <2>1, <1>2, <1>3, <1>5, ProductsFit DEF Mul!AtMult
<1>6. ASSUME Beats(entered, MultAge(n))
      PROVE  Mul!AtPost = ExactSums(entered[MultAge(n)])
  <2>1. (IF Mul!EnMult(n) THEN stage.mult ELSE Mul!AtMult)
          = ExactProducts(shape.variant, entered[MultAge(n)])
    BY <1>3, <1>5, <1>6 DEF MulInv
  <2> QED BY <2>1, <1>2, <1>3, <1>6, ProductsFit DEF Mul!AtPost
<1>7. ASSUME Beats(entered, PostAge(n))
      PROVE  Mul!AtOut = Reference(entered[PostAge(n)])
  <2>1. (IF Mul!EnPost(n) THEN stage.post ELSE Mul!AtPost) = ExactSums(entered[PostAge(n)])
    BY <1>3, <1>6, <1>7 DEF MulInv
  <2> QED BY <2>1, <1>2, <1>3, <1>7, ResultFits DEF Mul!AtOut
<1>8. Beats(entered, n) => Mul!Result = Reference(entered[n])
  BY <1>3, <1>7 DEF MulInv, Mul!Result
<1> QED BY <1>4, <1>5, <1>6, <1>7, <1>8

\* What a cycle enters is the newest; every other beat is one cycle older.
LEMMA Ages ==
  ASSUME NEW S, NEW q \in Seq(S), NEW y \in S, NEW n \in Nat \ {0}, Len(q) <= n
  PROVE  LET r == Mul!Shifted(q, y, n)
         IN  /\ r \in Seq(S) /\ Len(r) <= n /\ Len(r) >= 1 /\ r[1] = y
             /\ \A d \in 1 .. n : d >= 2 => (d <= Len(r) <=> d - 1 <= Len(q))
             /\ \A d \in 2 .. Len(r) : r[d] = q[d - 1]
<1> DEFINE m == IF Len(q) < n THEN Len(q) + 1 ELSE n
           long == <<y>> \o q
<1>1. long \in Seq(S) /\ Len(long) = Len(q) + 1 /\ m \in 1 .. Len(long)
  OBVIOUS
<1>2. long[1] = y /\ \A d \in 2 .. Len(long) : long[d] = q[d - 1]
  OBVIOUS
<1> HIDE DEF long, m
<1> DEFINE r == SubSeq(long, 1, m)
<1>3. r \in Seq(S) /\ Len(r) = m /\ \A d \in 1 .. m : r[d] = long[d]
  BY <1>1
<1>4. Mul!Shifted(q, y, n) = r
  BY DEF Mul!Shifted, long, m
<1> HIDE DEF r
<1>5. /\ r \in Seq(S) /\ Len(r) <= n /\ Len(r) >= 1 /\ r[1] = y
      /\ \A d \in 1 .. n : d >= 2 => (d <= Len(r) <=> d - 1 <= Len(q))
      /\ \A d \in 2 .. Len(r) : r[d] = q[d - 1]
  BY <1>1, <1>2, <1>3 DEF m
<1> QED BY <1>4, <1>5

\* A cycle, with a beat (y is x) or without one (y is NoBeat).
LEMMA CycleKeeps ==
  ASSUME ExponentLaw, Presented, MulInv, NEW x \in Operands, NEW y \in {x, NoBeat}, Mul!Clock(x),
         entered' = Mul!Shifted(entered, y, shape.stages),
         valid' = [s \in DOMAIN valid |-> IF s = 1 THEN y # NoBeat ELSE valid[s - 1]]
  PROVE  MulInv'
<1> DEFINE n == shape.stages
<1>1. /\ shape' = shape /\ n \in 1 .. 5 /\ n \in Nat \ {0} /\ DOMAIN valid = 1 .. n
      /\ entered \in Seq(Operands \cup {NoBeat}) /\ Len(entered) <= n
      /\ y \in Operands \cup {NoBeat}
  BY DEF MulInv, Mul!Clock
<1>2. /\ entered' \in Seq(Operands \cup {NoBeat}) /\ Len(entered') <= n /\ Len(entered') >= 1
      /\ entered'[1] = y
      /\ \A d \in 1 .. n : d >= 2 => (d <= Len(entered') <=> d - 1 <= Len(entered))
      /\ \A d \in 2 .. Len(entered') : entered'[d] = entered[d - 1]
  <2> HIDE DEF n
  <2> DEFINE S == Operands \cup {NoBeat}
             r == Mul!Shifted(entered, y, n)
  <2>1. /\ r \in Seq(S) /\ Len(r) <= n /\ Len(r) >= 1 /\ r[1] = y
        /\ \A d \in 1 .. n : d >= 2 => (d <= Len(r) <=> d - 1 <= Len(entered))
        /\ \A d \in 2 .. Len(r) : r[d] = entered[d - 1]
    <3> HIDE DEF S
    <3>1. entered \in Seq(S) /\ y \in S /\ n \in Nat \ {0} /\ Len(entered) <= n
      BY <1>1 DEF S
    <3> QED BY <3>1, Ages
  <2>2. entered' = r
    BY DEF n
  <2> QED BY <2>1, <2>2
\* A beat of age d has age d + 1 a cycle later, and the newest is y.
<1>3. \A d \in 2 .. n, e \in 1 .. n :
        d = e + 1 => /\ Beats(entered', d) <=> Beats(entered, e)
                     /\ Beats(entered', d) => entered'[d] = entered[e]
  BY <1>1, <1>2 DEF Beats
<1>4. Beats(entered', 1) <=> y # NoBeat
  BY <1>2 DEF Beats
<1>5. Beats(entered', 1) => stage'.in = entered'[1]
  BY <1>2, <1>4 DEF Mul!Clock
<1>6. DOMAIN valid' = 1 .. n /\ \A d \in 1 .. n : valid'[d] <=> Beats(entered', d)
  <2>1. DOMAIN valid' = 1 .. n
    BY <1>1
  <2>2. ASSUME NEW d \in 1 .. n PROVE valid'[d] <=> Beats(entered', d)
    <3>1. CASE d = 1
      <4>1. valid'[1] = (y # NoBeat)
        BY <1>1
      <4> QED BY <4>1, <3>1, <1>4
    <3>2. CASE d # 1
      <4>1. d - 1 \in 1 .. n /\ d \in 2 .. n /\ d = (d - 1) + 1
        BY <1>1, <3>2
      <4>2. valid'[d] = valid[d - 1]
        BY <1>1, <3>2
      <4>3. valid[d - 1] <=> Beats(entered, d - 1)
        BY <4>1 DEF MulInv
      <4>4. Beats(entered', d) <=> Beats(entered, d - 1)
        BY <4>1, <1>3
      <4> QED BY <4>2, <4>3, <4>4
    <3> QED BY <3>1, <3>2
  <2> QED BY <2>1, <2>2
<1>7. /\ Mul!EnPre(n) => 2 \in 2 .. n /\ 1 \in 1 .. n /\ 2 = 1 + 1
      /\ Mul!EnMult(n) => MultAge(n) \in 2 .. n /\ PreAge(n) \in 1 .. n /\ MultAge(n) = PreAge(n) + 1
      /\ Mul!EnPost(n) => PostAge(n) \in 2 .. n /\ MultAge(n) \in 1 .. n /\ PostAge(n) = MultAge(n) + 1
      /\ Mul!EnOut(n) => n \in 2 .. n /\ PostAge(n) \in 1 .. n /\ n = PostAge(n) + 1
  BY <1>1 DEF PreAge, MultAge, PostAge, Mul!EnPre, Mul!EnMult, Mul!EnPost, Mul!EnOut
<1>8. /\ Mul!EnPre(n) => stage'.pre = Mul!AtPre
      /\ Mul!EnMult(n) => stage'.mult = Mul!AtMult
      /\ Mul!EnPost(n) => stage'.post = Mul!AtPost
      /\ Mul!EnOut(n) => stage'.out = Mul!AtOut
  BY DEF Mul!Clock, Mul!Kept
<1>9. Mul!EnPre(n) /\ Beats(entered', 2) => stage'.pre = Mul!PreAdd(entered'[2])
  <2>1. Mul!EnPre(n) /\ Beats(entered', 2) => Beats(entered, 1) /\ entered'[2] = entered[1]
    BY <1>3, <1>7
  <2> QED BY <2>1, <1>8, ChainIsExact
<1>10. Mul!EnMult(n) /\ Beats(entered', MultAge(n))
         => stage'.mult = ExactProducts(shape.variant, entered'[MultAge(n)])
  <2>1. Mul!EnMult(n) /\ Beats(entered', MultAge(n))
          => Beats(entered, PreAge(n)) /\ entered'[MultAge(n)] = entered[PreAge(n)]
    BY <1>1, <1>3, <1>7
  <2> QED BY <2>1, <1>8, ChainIsExact
<1>11. Mul!EnPost(n) /\ Beats(entered', PostAge(n)) => stage'.post = ExactSums(entered'[PostAge(n)])
  <2>1. Mul!EnPost(n) /\ Beats(entered', PostAge(n))
          => Beats(entered, MultAge(n)) /\ entered'[PostAge(n)] = entered[MultAge(n)]
    BY <1>1, <1>3, <1>7
  <2> QED BY <2>1, <1>8, ChainIsExact
<1>12. Mul!EnOut(n) /\ Beats(entered', n) => stage'.out = Reference(entered'[n])
  <2>1. Mul!EnOut(n) /\ Beats(entered', n) =>
          Beats(entered, PostAge(n)) /\ entered'[n] = entered[PostAge(n)]
    BY <1>1, <1>3, <1>7
  <2> QED BY <2>1, <1>8, ChainIsExact
<1>13. shape \in [variant : {"MULT3", "MULT4"}, stages : 1 .. 5]
  BY DEF MulInv
<1> QED BY <1>1, <1>2, <1>5, <1>6, <1>9, <1>10, <1>11, <1>12, <1>13 DEF MulInv

\* Without a beat in the pipeline nothing is asked of its registers.
LEMMA EmptyIsExact ==
  ASSUME shape \in [variant : {"MULT3", "MULT4"}, stages : 1 .. 5],
         valid = [s \in 1 .. shape.stages |-> FALSE], entered = << >>
  PROVE  MulInv
<1>1. \A d \in 1 .. 5 : ~Beats(entered, d)
  BY DEF Beats
<1>2. MultAge(shape.stages) \in 1 .. 5 /\ PostAge(shape.stages) \in 1 .. 5
  BY DEF PreAge, MultAge, PostAge, Mul!EnPre, Mul!EnMult, Mul!EnPost
<1> QED BY <1>1, <1>2 DEF MulInv

\* Every cycle of the pipeline keeps the invariant.
LEMMA MulNextKeeps ==
  ASSUME ExponentLaw, Presented, MulInv, Mul!CmultNext
  PROVE  MulInv'
<1> PICK x \in Operands : Mul!Beat(x) \/ Mul!Gap(x) \/ Mul!Reset(x)
  BY DEF Mul!CmultNext
<1>1. CASE Mul!Beat(x)
  <2>1. x # NoBeat
    BY DEF Presented
  <2>2. valid' = [s \in DOMAIN valid |-> IF s = 1 THEN x # NoBeat ELSE valid[s - 1]]
    BY <1>1, <2>1 DEF Mul!Beat
  <2> QED BY <1>1, <2>2, CycleKeeps DEF Mul!Beat
<1>2. CASE Mul!Gap(x)
  <2>1. valid' = [s \in DOMAIN valid |-> IF s = 1 THEN NoBeat # NoBeat ELSE valid[s - 1]]
    BY <1>2 DEF Mul!Gap
  <2> QED BY <1>2, <2>1, CycleKeeps DEF Mul!Gap
<1>3. CASE Mul!Reset(x)
  <2>1. /\ shape' = shape /\ entered' = << >>
        /\ valid' = [s \in 1 .. shape.stages |-> FALSE]
        /\ shape \in [variant : {"MULT3", "MULT4"}, stages : 1 .. 5]
    BY <1>3 DEF Mul!Reset, Mul!Clock, MulInv
  <2>2. \A d \in 1 .. 5 : ~Beats(entered', d)
    BY <2>1 DEF Beats
  <2>3. MultAge(shape.stages) \in 1 .. 5 /\ PostAge(shape.stages) \in 1 .. 5
    BY <2>1 DEF PreAge, MultAge, PostAge, Mul!EnPre, Mul!EnMult, Mul!EnPost
  <2> QED BY <2>1, <2>2, <2>3 DEF MulInv
<1> QED BY <1>1, <1>2, <1>3

\* What the last stage shows is the reference's product.
LEMMA ExactIsReference ==
  ASSUME ExponentLaw, Presented, MulInv
  PROVE  Mul!ProductIsReference
<1> DEFINE n == shape.stages
           beat == Len(entered) = n /\ entered[n] # NoBeat
<1>1. n \in 1 .. 5 /\ Len(entered) \in Nat /\ Len(entered) <= n
  BY DEF MulInv
<1>2. beat <=> Beats(entered, n)
  BY <1>1 DEF Beats
<1>3. valid[n] <=> beat
  BY <1>1, <1>2 DEF MulInv
<1>4. beat => Mul!Result = Reference(entered[n])
  BY <1>2, ChainIsExact
<1> QED BY <1>3, <1>4 DEF Mul!ProductIsReference, Reference

\* complex_multiplier.sv is the reference's multiplier for every sample width, in both
\* variants and at every depth, whatever gaps and resets fall between the beats: with
\* valid_out the ports show cmul, its exact product and its flags of the operands of
\* PIPE_STAGES cycles before.
THEOREM MultiplierIsReference ==
  ASSUME PowersOfTwo
  PROVE  Mul!CmultSpec => []Mul!ProductIsReference
<1>1. Mul!CmultInit => MulInv
  BY EmptyIsExact DEF Mul!CmultInit
<1>2. MulInv /\ [Mul!CmultNext]_(Mul!cmultVars) => MulInv'
  <2>1. ASSUME MulInv, UNCHANGED Mul!cmultVars PROVE MulInv'
    BY <2>1 DEF MulInv, Mul!cmultVars, Beats
  <2> QED BY <2>1, MulNextKeeps, OperandsAssumption, PowersDouble, PowersMultiply
<1>3. MulInv => Mul!ProductIsReference
  BY ExactIsReference, OperandsAssumption, PowersDouble, PowersMultiply
<1> QED BY <1>1, <1>2, <1>3, PTL DEF Mul!CmultSpec

-----------------------------------------------------------------------------
(* The generators of committed files.                                      *)

Tree == Art!Range(Art!Files(kind))
Running == {"files", "writing", "last"}
Run == [at : {"idle", "ended"} \cup Running, check : BOOLEAN, content : 0 .. MaxVersion,
        todo : Seq(Tree), flagged : BOOLEAN, exit : 0 .. 2, alone : BOOLEAN]
Held == [text : Art!Text, of : 0 .. MaxVersion]

ArtTypes ==
  /\ kind \in Art!Kinds /\ edition \in 1 .. MaxVersion
  /\ disk \in [Tree -> Held] /\ proc \in [Procs -> Run]

\* A run that works on a file has one left to work on, and only one that does not check writes.
PlaceInv(r) ==
  /\ r.at \in {"files", "writing"} => r.todo # << >>
  /\ r.at = "writing" => ~r.check
  /\ r.at = "last" => r.todo = << >>

\* The committed files a run has left behind, and what it has to say of them: with --check
\* whether one differs, without it that none does.
Behind(r) == Art!Committed(kind) \ Art!Range(r.todo)
Fresh(f) == disk[f] = Art!Generated(edition)
ToldInv(r) ==
  IF r.check
  THEN /\ Art!Range(r.todo) \subseteq Art!Committed(kind)
       /\ r.flagged => ~Art!Current
       /\ ~r.flagged => \A f \in Behind(r) : Fresh(f)
  ELSE /\ r.flagged => kind # "fxp_vectors"
       /\ \A f \in Behind(r) : Fresh(f)

\* A run that nothing disturbed works for the version that is there, by itself.
AloneInv(p) ==
  proc[p].at \in Running /\ proc[p].alone =>
    /\ proc[p].content = edition /\ ~Art!Refused(kind, edition)
    /\ \A q \in Procs \ {p} : proc[q].at \notin Running
    /\ ToldInv(proc[p])

\* The exit status of one run that ended undisturbed.
Verdict(r) ==
  r.at = "ended" /\ r.alone =>
    IF Art!Refused(kind, edition) THEN r.exit # 0
    ELSE (r.exit = 0 <=> Art!Current) /\ (~r.check => Art!Current)

ArtInv == ArtTypes /\ \A p \in Procs : PlaceInv(proc[p]) /\ AloneInv(p) /\ Verdict(proc[p])

\* What a run tells itself of a file: with --check whether it differs; the generator whose
\* exit status counts its writes flags none (write_if_needed and its callers).
LEMMA FlagsTell ==
  ASSUME kind \in Art!Kinds, NEW same \in BOOLEAN
  PROVE  /\ \A check \in BOOLEAN : Art!Flags(kind, Art!Returns(kind, same, check), check) \in BOOLEAN
         /\ Art!Flags(kind, Art!Returns(kind, same, TRUE), TRUE) <=> ~same
         /\ kind = "fxp_vectors" => ~Art!Flags(kind, Art!Returns(kind, same, FALSE), FALSE)
<1> QED BY DEF Art!Kinds, Art!Flags, Art!Returns

\* A list that is not empty: its members are the first and those of the rest.
LEMMA HeadAndTail ==
  ASSUME NEW S, NEW s \in Seq(S), s # << >>
  PROVE  /\ Head(s) \in S /\ Tail(s) \in Seq(S)
         /\ Art!Range(s) = {Head(s)} \cup Art!Range(Tail(s))
         /\ Art!Range(s) \subseteq S
<1>1. Len(s) \in Nat \ {0} /\ Head(s) = s[1] /\ DOMAIN s = 1 .. Len(s)
  OBVIOUS
<1>2. Tail(s) \in Seq(S) /\ Len(Tail(s)) = Len(s) - 1 /\ \A i \in 1 .. Len(s) - 1 : Tail(s)[i] = s[i + 1]
  BY <1>1
<1>3. \A i \in 2 .. Len(s) : i - 1 \in 1 .. Len(s) - 1 /\ s[i] = Tail(s)[i - 1]
  BY <1>1, <1>2
<1>4. \A i \in 1 .. Len(s) : i = 1 \/ i \in 2 .. Len(s)
  BY <1>1
<1>5. DOMAIN Tail(s) = 1 .. Len(s) - 1
  BY <1>2
<1>6. \A i \in 1 .. Len(s) - 1 : i + 1 \in 1 .. Len(s)
  BY <1>1
<1>7. Art!Range(s) = {Head(s)} \cup Art!Range(Tail(s))
  <2>1. ASSUME NEW x \in Art!Range(s) PROVE x \in {Head(s)} \cup Art!Range(Tail(s))
    BY <1>1, <1>3, <1>4, <1>5 DEF Art!Range
  <2>2. ASSUME NEW x \in {Head(s)} \cup Art!Range(Tail(s)) PROVE x \in Art!Range(s)
    BY <1>1, <1>2, <1>5, <1>6 DEF Art!Range
  <2> QED BY <2>1, <2>2
<1> QED BY <1>1, <1>2, <1>7 DEF Art!Range

\* The list of files a run starts with: with --check the committed ones, otherwise all.
LEMMA ListOfFiles ==
  ASSUME kind \in Art!Kinds, NEW check \in BOOLEAN
  PROVE  /\ Art!Worked(kind, check) \in Seq(Tree) /\ Art!Worked(kind, check) # << >>
         /\ Art!Committed(kind) \subseteq Art!Range(Art!Worked(kind, check))
         /\ check => Art!Range(Art!Worked(kind, check)) \subseteq Art!Committed(kind)
         /\ Art!Committed(kind) \subseteq Tree
<1> DEFINE all == Art!Files(kind)
<1>1. /\ kind = "regmap" => all = <<"regmap_pkg.sv", "regmap.hpp", "register_map.md", "regmap.json">>
      /\ kind = "twiddle" => all = <<"fft_twiddle_pkg.sv", "fft_twiddle_table.hpp">>
      /\ kind = "fft_vectors" => all = <<"fft64.vec">>
      /\ kind = "fxp_vectors" => all = <<"fxp_ops.vec", "fxp_accum.vec", "cmult.vec">>
      /\ kind = "coefficients" => all = <<"pfb.coeff", "pfb.vec">>
  BY DEF Art!Files
<1>2. all \in Seq(Tree) /\ all # << >> /\ Len(all) \in 1 .. 4
  BY <1>1 DEF Art!Kinds, Tree, Art!Range
<1>3. CASE check /\ kind = "regmap"
  <2>1. all = <<"regmap_pkg.sv", "regmap.hpp", "register_map.md", "regmap.json">>
    BY <1>1, <1>3
  <2>2. Art!Worked(kind, check) = SubSeq(all, 1, 3)
    BY <2>1, <1>3 DEF Art!Worked, Art!Front
  <2>3. Art!Range(all) = {"regmap_pkg.sv", "regmap.hpp", "register_map.md", "regmap.json"}
    BY <2>1 DEF Art!Range
  <2> HIDE DEF all
  <2> DEFINE worked == SubSeq(all, 1, 3)
  <2>4. /\ worked \in Seq(Tree) /\ Len(worked) = 3 /\ DOMAIN worked = 1 .. 3
        /\ \A i \in 1 .. 3 : worked[i] = all[i]
    BY <1>2, <2>1
  <2> HIDE DEF worked
  <2>5. worked # << >> /\ Art!Range(worked) = {all[1], all[2], all[3]}
    <3>1. worked # << >>
      BY <2>4
    <3>2. Art!Range(worked) = {worked[i] : i \in 1 .. 3}
      BY <2>4 DEF Art!Range
    <3>3. 1 \in 1 .. 3 /\ 2 \in 1 .. 3 /\ 3 \in 1 .. 3 /\ \A i \in 1 .. 3 : i = 1 \/ i = 2 \/ i = 3
      OBVIOUS
    <3>4. worked[1] = all[1] /\ worked[2] = all[2] /\ worked[3] = all[3]
      BY <2>4, <3>3
    <3> QED BY <3>1, <3>2, <3>3, <3>4, Zenon
  <2>6. Art!Range(worked) = {"regmap_pkg.sv", "regmap.hpp", "register_map.md"}
    BY <2>1, <2>5
  <2>7. Art!Worked(kind, check) = worked
    BY <2>2 DEF worked
  <2>8. Art!Committed(kind) = {"regmap_pkg.sv", "regmap.hpp", "register_map.md"}
    BY <2>3, <1>3 DEF Art!Committed, all
  <2> QED BY <2>3, <2>4, <2>5, <2>6, <2>7, <2>8 DEF Tree, all
<1>4. CASE ~(check /\ kind = "regmap")
  <2>1. Art!Worked(kind, check) = all
    BY <1>4 DEF Art!Worked
  <2>2. check => "regmap.json" \notin Art!Range(all)
    BY <1>1, <1>4 DEF Art!Kinds, Art!Range
  <2> QED BY <1>2, <2>1, <2>2 DEF Art!Committed, Tree
<1> QED BY <1>3, <1>4

\* A change of the tree leaves nothing of the other runs to be told: one that ended is
\* forgotten, one under way is disturbed (Later).
LEMMA LaterIsQuiet ==
  ASSUME MaxVersion \in Nat, ArtTypes, NEW q \in Procs, PlaceInv(proc[q])
  PROVE  /\ Art!Later(q) \in Run /\ PlaceInv(Art!Later(q))
         /\ Art!Later(q).at # "ended" /\ (Art!Later(q).at \in Running => ~Art!Later(q).alone)
         /\ Art!Later(q).at \in Running => proc[q].at \in Running
<1>1. << >> \in Seq(Tree) /\ 0 \in 0 .. MaxVersion
  BY DEF ArtTypes
<1>2. proc[q] \in Run
  BY DEF ArtTypes
<1>3. CASE proc[q].at = "ended"
  <2>1. Art!Later(q) = Art!Idle
    BY <1>3 DEF Art!Later
  <2> QED BY <1>1, <2>1 DEF Art!Idle, Art!Gone, Run, Running, PlaceInv
<1>4. CASE proc[q].at # "ended"
  <2>1. Art!Later(q) = [proc[q] EXCEPT !.alone = FALSE]
    BY <1>4 DEF Art!Later
  <2> QED BY <1>2, <1>4, <2>1 DEF Run, Running, PlaceInv
<1> QED BY <1>3, <1>4

\* A step of one run on a file that leaves the tree alone, or of one that is alone: the
\* invariant is that of the run itself.
LEMMA OneRunSteps ==
  ASSUME ArtInv, NEW p \in Procs, proc[p].at \in Running,
         UNCHANGED <<kind, edition, disk>>, proc' \in [Procs -> Run],
         \A q \in Procs \ {p} : proc'[q] = proc[q],
         PlaceInv(proc'[p]), AloneInv(p)', Verdict(proc[p])'
  PROVE  ArtInv'
<1>1. ArtTypes'
  BY DEF ArtInv, ArtTypes, Tree, Run
<1>2. ASSUME NEW q \in Procs, q # p
      PROVE  PlaceInv(proc[q])' /\ AloneInv(q)' /\ Verdict(proc[q])'
  <2>1. proc'[q] = proc[q] /\ ~(proc[q].at \in Running /\ proc[q].alone)
    BY <1>2 DEF ArtInv, AloneInv
  <2> QED BY <2>1 DEF ArtInv, PlaceInv, AloneInv, Verdict, Art!Current
<1> QED BY <1>1, <1>2 DEF ArtInv, PlaceInv

\* What a run is once a file is behind it (the end of an iteration of main).
Moved(r, rest, flag) ==
  [r EXCEPT !.todo = rest, !.flagged = r.flagged \/ flag,
            !.at = IF rest = << >> THEN "last" ELSE "files"]

\* The fields of a run after a step.
LEMMA StepMoves ==
  ASSUME NEW r \in Run, NEW rest \in Seq(Tree), NEW flag \in BOOLEAN, NEW s, s = Moved(r, rest, flag)
  PROVE  /\ s \in Run
         /\ s.at = IF rest = << >> THEN "last" ELSE "files"
         /\ s.check = r.check /\ s.content = r.content /\ s.todo = rest /\ s.alone = r.alone
         /\ s.flagged = (r.flagged \/ flag)
<1> DEFINE at == IF rest = << >> THEN "last" ELSE "files"
           said == r.flagged \/ flag
<1>1. at \in Running /\ said \in BOOLEAN
  BY DEF Running
<1> HIDE DEF at, said
<1>2. s = [r EXCEPT !.todo = rest, !.flagged = said, !.at = at]
  BY DEF at, said, Moved
<1>3. s \in Run /\ s.at = at /\ s.check = r.check /\ s.content = r.content /\ s.todo = rest
      /\ s.alone = r.alone /\ s.flagged = said
  BY <1>1, <1>2 DEF Run
<1> QED BY <1>3 DEF at, said

\* The step of a file worked on: the run has it behind it, and says so.
LEMMA CompareKeeps ==
  ASSUME ArtInv, NEW p \in Procs, Art!Compare(p)
  PROVE  ArtInv'
<1> DEFINE r == proc[p]
           f == Head(r.todo)
           same == disk[f] = Art!Generated(r.content)
           flag == Art!Flags(kind, Art!Returns(kind, same, r.check), r.check)
<1>1. /\ r \in Run /\ r.at = "files" /\ r.todo # << >> /\ (same \/ r.check)
      /\ proc' = [proc EXCEPT ![p] = Art!Step(p, Tail(r.todo), flag)]
      /\ UNCHANGED <<kind, edition, disk>>
      /\ PlaceInv(r) /\ AloneInv(p) /\ proc \in [Procs -> Run]
  BY DEF Art!Compare, ArtInv, ArtTypes, PlaceInv
<1>2. kind \in Art!Kinds /\ same \in BOOLEAN /\ r.check \in BOOLEAN
  BY <1>1 DEF ArtInv, ArtTypes, Run
<1>3. flag \in BOOLEAN /\ (r.check => (flag <=> ~same)) /\ (~r.check => same /\ (kind = "fxp_vectors" => ~flag))
  BY <1>1, <1>2, FlagsTell
<1>4. /\ r.todo \in Seq(Tree) /\ Tail(r.todo) \in Seq(Tree) /\ f \in Tree
      /\ Art!Range(r.todo) = {f} \cup Art!Range(Tail(r.todo))
  BY <1>1, HeadAndTail DEF Run
<1> DEFINE rest == Tail(r.todo)
<1>10. rest \in Seq(Tree)
  BY <1>4
<1> HIDE DEF same, flag, f, rest
<1>5. /\ proc'[p] = Moved(r, rest, flag)
      /\ \A q \in Procs \ {p} : proc'[q] = proc[q]
  BY <1>1 DEF Art!Step, rest, Moved
<1>9. /\ proc'[p] \in Run /\ proc'[p].at = (IF rest = << >> THEN "last" ELSE "files")
      /\ proc'[p].check = r.check /\ proc'[p].content = r.content /\ proc'[p].todo = rest
      /\ proc'[p].alone = r.alone /\ proc'[p].flagged = (r.flagged \/ flag)
  BY <1>1, <1>3, <1>5, <1>10, StepMoves
<1>6. PlaceInv(proc'[p]) /\ proc' \in [Procs -> Run]
  <2>1. proc' = [proc EXCEPT ![p] = proc'[p]]
    BY <1>1
  <2> QED BY <2>1, <1>1, <1>9 DEF PlaceInv
<1>7. AloneInv(p)'
  <2> SUFFICES ASSUME r.alone
               PROVE  AloneInv(p)'
    BY <1>1, <1>9 DEF AloneInv
  <2>1. /\ r.content = edition /\ ~Art!Refused(kind, edition)
        /\ \A q \in Procs \ {p} : proc[q].at \notin Running
        /\ ToldInv(r)
    BY <1>1 DEF AloneInv, Running
  <2>2. same <=> Fresh(f)
    BY <2>1 DEF same, Fresh, f
  <2>3. ToldInv(proc'[p])
    <3>1. Art!Committed(kind) \ Art!Range(rest) \subseteq (Art!Committed(kind) \ Art!Range(r.todo)) \cup {f}
      BY <1>4 DEF rest
    <3>2. CASE r.check
      <4>1. f \in Art!Committed(kind) /\ Art!Range(rest) \subseteq Art!Committed(kind)
        BY <3>2, <2>1, <1>4 DEF ToldInv, rest
      <4>2. flag => ~Art!Current
        BY <4>1, <3>2, <1>3, <2>2 DEF Art!Current, Fresh
      <4>3. ~r.flagged /\ ~flag => \A g \in Art!Committed(kind) \ Art!Range(rest) : Fresh(g)
        BY <3>1, <3>2, <1>3, <2>1, <2>2 DEF ToldInv, Behind
      <4> QED BY <4>1, <4>2, <4>3, <1>9, <3>2, <2>1 DEF ToldInv, Behind
    <3>3. CASE ~r.check
      <4>1. \A g \in Art!Committed(kind) \ Art!Range(rest) : Fresh(g)
        BY <3>1, <3>3, <1>3, <2>1, <2>2 DEF ToldInv, Behind
      <4> QED BY <4>1, <1>9, <3>3, <1>3, <2>1 DEF ToldInv, Behind
    <3> QED BY <3>2, <3>3
  <2>4. proc'[p].content = r.content /\ \A q \in Procs \ {p} : proc'[q].at \notin Running
    BY <1>5, <1>9, <2>1
  <2>5. ToldInv(proc[p])'
    BY <2>3, <1>1 DEF ToldInv, Behind, Fresh, Art!Current
  <2> QED BY <2>1, <2>4, <2>5, <1>1 DEF AloneInv
<1>8. Verdict(proc[p])'
  BY <1>9 DEF Verdict
<1> QED BY <1>1, <1>5, <1>6, <1>7, <1>8, OneRunSteps DEF Running, PlaceInv

\* main() ends: a run that was alone has all its files behind it, and its exit status says
\* of them what it told itself.
LEMMA EndKeeps ==
  ASSUME MaxVersion \in Nat, ArtInv, NEW p \in Procs, Art!End(p)
  PROVE  ArtInv'
<1> DEFINE r == proc[p]
           code == Art!Exit(kind, r.check, r.flagged)
<1>1. /\ r \in Run /\ r.at = "last" /\ UNCHANGED <<kind, edition, disk>>
      /\ PlaceInv(r) /\ AloneInv(p) /\ proc \in [Procs -> Run]
      /\ proc' = [proc EXCEPT ![p] = [Art!Idle EXCEPT !.at = "ended", !.check = r.check,
                                        !.alone = r.alone, !.exit = code]]
  BY DEF Art!End, ArtInv, ArtTypes
<1>2. code \in 0 .. 2 /\ r.check \in BOOLEAN /\ r.alone \in BOOLEAN /\ r.flagged \in BOOLEAN
  BY <1>1 DEF Art!Exit, Run
<1>3. << >> \in Seq(Tree) /\ r.content \in 0 .. MaxVersion
  BY <1>1 DEF Run
<1>4. 0 \in 0 .. MaxVersion
  OBVIOUS
<1> HIDE DEF code
<1>5. /\ proc'[p] = [at |-> "ended", check |-> r.check, content |-> 0, todo |-> << >>,
                      flagged |-> FALSE, exit |-> code, alone |-> r.alone]
      /\ \A q \in Procs \ {p} : proc'[q] = proc[q]
  BY <1>1 DEF Art!Idle, Art!Gone
<1>6. proc'[p] \in Run /\ PlaceInv(proc'[p]) /\ proc' \in [Procs -> Run]
  <2>1. proc'[p] \in Run /\ PlaceInv(proc'[p])
    BY <1>2, <1>3, <1>4, <1>5 DEF Run, PlaceInv
  <2>2. proc' = [proc EXCEPT ![p] = proc'[p]]
    BY <1>1
  <2> QED BY <2>1, <2>2, <1>1
<1>7. AloneInv(p)'
  BY <1>5 DEF AloneInv, Running
<1>8. Verdict(proc[p])'
  <2> SUFFICES ASSUME r.alone PROVE Verdict(proc'[p])
    BY <1>1, <1>5 DEF Verdict, Art!Current
  <2>1. ~Art!Refused(kind, edition) /\ ToldInv(r) /\ Art!Range(r.todo) = {}
    BY <1>1 DEF AloneInv, Running, PlaceInv, Art!Range
  <2>2. (\A f \in Behind(r) : Fresh(f)) <=> Art!Current
    BY <2>1 DEF Behind, Fresh, Art!Current
  <2>3. (code = 0 <=> Art!Current) /\ (~r.check => Art!Current)
    BY <1>2, <2>1, <2>2 DEF ToldInv, Art!Exit, code
  <2> QED BY <2>1, <2>3, <1>5 DEF Verdict
<1> QED BY <1>1, <1>5, <1>6, <1>7, <1>8, OneRunSteps DEF Running

\* A run that is killed leaves nothing to be told of it.
LEMMA KillRunKeeps ==
  ASSUME MaxVersion \in Nat, ArtInv, NEW p \in Procs, Art!KillRun(p)
  PROVE  ArtInv'
<1>1. /\ proc[p] \in Run /\ proc[p].at \in Running /\ UNCHANGED <<kind, edition, disk>>
      /\ proc \in [Procs -> Run] /\ proc' = [proc EXCEPT ![p] = Art!Idle]
  BY DEF Art!KillRun, ArtInv, ArtTypes, Run
<1>2. << >> \in Seq(Tree) /\ 0 \in 0 .. MaxVersion
  OBVIOUS
<1>3. Art!Idle \in Run /\ Art!Idle.at = "idle"
  BY <1>2 DEF Art!Idle, Art!Gone, Run
<1>4. proc'[p] = Art!Idle /\ \A q \in Procs \ {p} : proc'[q] = proc[q]
  BY <1>1
<1>5. PlaceInv(proc'[p]) /\ AloneInv(p)' /\ Verdict(proc[p])' /\ proc' \in [Procs -> Run]
  BY <1>1, <1>3, <1>4 DEF PlaceInv, AloneInv, Verdict, Running
<1> QED BY <1>1, <1>4, <1>5, OneRunSteps

\* Of a run that a change of the tree disturbs, or that had ended, nothing is left to show.
LEMMA QuietKeeps ==
  ASSUME MaxVersion \in Nat, ArtInv, NEW q \in Procs, proc'[q] = Art!Later(q)
  PROVE  proc'[q] \in Run /\ PlaceInv(proc'[q]) /\ AloneInv(q)' /\ Verdict(proc[q])'
<1>1. /\ proc'[q] \in Run /\ PlaceInv(proc'[q])
      /\ proc'[q].at # "ended" /\ (proc'[q].at \in Running => ~proc'[q].alone)
  BY LaterIsQuiet DEF ArtInv
<1> QED BY <1>1 DEF AloneInv, Verdict

\* The sources are edited.
LEMMA EditSourceKeeps ==
  ASSUME MaxVersion \in Nat, ArtInv, Art!EditSource
  PROVE  ArtInv'
<1>1. /\ edition' \in 1 .. MaxVersion /\ UNCHANGED <<kind, disk>>
      /\ proc' = [q \in Procs |-> Art!Later(q)]
  BY DEF Art!EditSource, ArtInv, ArtTypes
<1>2. \A q \in Procs : proc'[q] \in Run /\ PlaceInv(proc'[q]) /\ AloneInv(q)' /\ Verdict(proc[q])'
  BY <1>1, QuietKeeps
<1>3. ArtTypes'
  BY <1>1, <1>2 DEF ArtInv, ArtTypes, Tree, Run
<1> QED BY <1>2, <1>3 DEF ArtInv, PlaceInv

\* A file is edited, or removed, by hand.
LEMMA EditFileKeeps ==
  ASSUME MaxVersion \in Nat, ArtInv, Art!EditFile
  PROVE  ArtInv'
<1>1. /\ UNCHANGED <<kind, edition>> /\ proc' = [q \in Procs |-> Art!Later(q)]
  BY DEF Art!EditFile
<1>2. disk' \in [Tree -> Held]
  <2> PICK f \in DOMAIN disk, t \in {"missing", "edited"} : disk' = [disk EXCEPT ![f] = Art!Other(t)]
    BY DEF Art!EditFile
  <2>1. Art!Other(t) \in Held
    BY DEF Art!Other, Held, Art!Text, Art!Gone
  <2> QED BY <2>1 DEF ArtInv, ArtTypes
<1>3. \A q \in Procs : proc'[q] \in Run /\ PlaceInv(proc'[q]) /\ AloneInv(q)' /\ Verdict(proc[q])'
  BY <1>1, QuietKeeps
<1>4. ArtTypes'
  BY <1>1, <1>2, <1>3 DEF ArtInv, ArtTypes, Tree, Run
<1> QED BY <1>3, <1>4 DEF ArtInv, PlaceInv

\* A file that differs is opened: none of those behind the run, which do not.
LEMMA OpenKeeps ==
  ASSUME MaxVersion \in Nat, ArtInv, NEW p \in Procs, Art!Open(p)
  PROVE  ArtInv'
<1> DEFINE r == proc[p]
           f == Head(r.todo)
<1>1. /\ r \in Run /\ r.at = "files" /\ ~r.check /\ UNCHANGED <<kind, edition>>
      /\ disk[f] # Art!Generated(r.content) /\ disk' = [disk EXCEPT ![f] = Art!Other("torn")]
      /\ proc' = [Art!Disturbed(p) EXCEPT ![p].at = "writing"]
      /\ PlaceInv(r) /\ AloneInv(p) /\ disk \in [Tree -> Held] /\ r.todo # << >>
  BY DEF Art!Open, ArtInv, ArtTypes, PlaceInv
<1>2. f \in Tree
  BY <1>1, HeadAndTail DEF Run
<1> HIDE DEF f
<1>3. /\ proc'[p] = [r EXCEPT !.at = "writing"]
      /\ \A q \in Procs \ {p} : proc'[q] = Art!Later(q)
      /\ proc' = [q \in Procs |-> proc'[q]]
  BY <1>1 DEF Art!Disturbed
<1>4. Art!Other("torn") \in Held
  BY DEF Art!Other, Art!Text, Held, Art!Gone
<1>5. disk' \in [Tree -> Held] /\ \A g \in Tree : g # f => disk'[g] = disk[g]
  BY <1>1, <1>4
<1>6. proc'[p] \in Run /\ PlaceInv(proc'[p]) /\ Verdict(proc[p])'
  BY <1>1, <1>3 DEF Run, Running, PlaceInv, Verdict
<1>7. \A q \in Procs \ {p} :
        /\ proc'[q] \in Run /\ PlaceInv(proc'[q]) /\ AloneInv(q)' /\ Verdict(proc[q])'
        /\ proc'[q].at \in Running => proc[q].at \in Running
  BY <1>3, QuietKeeps, LaterIsQuiet DEF ArtInv
<1>8. AloneInv(p)'
  <2> SUFFICES ASSUME r.alone PROVE AloneInv(p)'
    BY <1>1, <1>3 DEF AloneInv, Run
  <2>1. /\ r.content = edition /\ ~Art!Refused(kind, edition) /\ ToldInv(r)
        /\ \A q \in Procs \ {p} : proc[q].at \notin Running
    BY <1>1 DEF AloneInv, Running
  <2>2. ~Fresh(f) /\ Art!Committed(kind) \subseteq Tree
    BY <1>1, <2>1, ListOfFiles DEF Fresh, ArtInv, ArtTypes
  <2>3. \A g \in Behind(r) : disk'[g] = Art!Generated(edition)
    BY <1>1, <1>5, <2>1, <2>2 DEF ToldInv, Fresh, Behind
  <2>4. /\ proc'[p].check = r.check /\ proc'[p].flagged = r.flagged /\ proc'[p].todo = r.todo
        /\ proc'[p].content = r.content
    BY <1>1, <1>3 DEF Run
  <2>5. ToldInv(proc[p])'
    BY <1>1, <2>1, <2>3, <2>4 DEF ToldInv, Behind, Fresh
  <2> QED BY <1>1, <1>7, <2>1, <2>4, <2>5 DEF AloneInv
<1>9. ArtTypes'
  BY <1>1, <1>3, <1>5, <1>6, <1>7 DEF ArtInv, ArtTypes, Tree, Run
<1> QED BY <1>6, <1>7, <1>8, <1>9 DEF ArtInv, PlaceInv

\* The file written is closed: it is as the run generated it, and behind it.
LEMMA CloseKeeps ==
  ASSUME MaxVersion \in Nat, ArtInv, NEW p \in Procs, Art!Close(p)
  PROVE  ArtInv'
<1> DEFINE r == proc[p]
           f == Head(r.todo)
           rest == Tail(r.todo)
           flag == Art!Flags(kind, Art!Returns(kind, FALSE, FALSE), FALSE)
<1>1. /\ r \in Run /\ r.at = "writing" /\ UNCHANGED <<kind, edition>>
      /\ disk' = [disk EXCEPT ![f] = Art!Generated(r.content)]
      /\ proc' = [Art!Disturbed(p) EXCEPT ![p] = Art!Step(p, rest, flag)]
      /\ PlaceInv(r) /\ AloneInv(p) /\ disk \in [Tree -> Held] /\ r.todo # << >> /\ ~r.check
      /\ kind \in Art!Kinds
  BY DEF Art!Close, ArtInv, ArtTypes, PlaceInv
<1>2. /\ r.todo \in Seq(Tree) /\ rest \in Seq(Tree) /\ f \in Tree
      /\ Art!Range(r.todo) = {f} \cup Art!Range(rest)
  BY <1>1, HeadAndTail DEF Run
<1>3. flag \in BOOLEAN /\ (kind = "fxp_vectors" => ~flag)
  BY <1>1, FlagsTell
<1> HIDE DEF f, rest, flag
<1>4. /\ proc'[p] = Moved(r, rest, flag)
      /\ \A q \in Procs \ {p} : proc'[q] = Art!Later(q)
      /\ proc' = [q \in Procs |-> proc'[q]]
  BY <1>1 DEF Art!Disturbed, Art!Step, Moved
<1>5. Art!Generated(r.content) \in Held
  BY <1>1 DEF Art!Generated, Art!Text, Held, Run
<1>6. /\ disk' \in [Tree -> Held] /\ disk'[f] = Art!Generated(r.content)
      /\ \A g \in Tree : g # f => disk'[g] = disk[g]
  BY <1>1, <1>2, <1>5
<1>12. /\ proc'[p] \in Run /\ proc'[p].at = (IF rest = << >> THEN "last" ELSE "files")
       /\ proc'[p].check = r.check /\ proc'[p].content = r.content /\ proc'[p].todo = rest
       /\ proc'[p].alone = r.alone /\ proc'[p].flagged = (r.flagged \/ flag)
  BY <1>1, <1>2, <1>3, <1>4, StepMoves
<1>7. proc'[p] \in Run /\ PlaceInv(proc'[p])
  BY <1>12 DEF PlaceInv
<1>8. Verdict(proc[p])'
  BY <1>12 DEF Verdict
<1>9. \A q \in Procs \ {p} :
        /\ proc'[q] \in Run /\ PlaceInv(proc'[q]) /\ AloneInv(q)' /\ Verdict(proc[q])'
        /\ proc'[q].at \in Running => proc[q].at \in Running
  BY <1>4, QuietKeeps, LaterIsQuiet DEF ArtInv
<1>10. AloneInv(p)'
  <2> SUFFICES ASSUME r.alone PROVE AloneInv(p)'
    BY <1>1, <1>12 DEF AloneInv
  <2>1. /\ r.content = edition /\ ~Art!Refused(kind, edition) /\ ToldInv(r)
        /\ \A q \in Procs \ {p} : proc[q].at \notin Running
    BY <1>1 DEF AloneInv, Running
  <2>2. \A g \in Behind(r) : disk[g] = Art!Generated(edition)
    BY <1>1, <2>1 DEF ToldInv, Fresh
  <2>3. Art!Committed(kind) \subseteq Tree
    BY <1>1, ListOfFiles
  <2>4. \A g \in Art!Committed(kind) \ Art!Range(rest) : disk'[g] = Art!Generated(edition)
    BY <1>2, <1>6, <2>1, <2>2, <2>3 DEF Behind
  <2>6. r.flagged => kind # "fxp_vectors"
    BY <1>1, <2>1 DEF ToldInv
  <2>7. ToldInv(proc[p])'
    BY <1>1, <1>3, <1>12, <2>4, <2>6 DEF ToldInv, Behind, Fresh
  <2> QED BY <1>1, <1>9, <1>12, <2>1, <2>7 DEF AloneInv
<1>11. ArtTypes'
  BY <1>1, <1>4, <1>6, <1>7, <1>9 DEF ArtInv, ArtTypes, Tree, Run
<1> QED BY <1>7, <1>8, <1>9, <1>10, <1>11 DEF ArtInv, PlaceInv

\* A run starts, with nothing behind it, alone if the others have ended.
LEMMA StartKeeps ==
  ASSUME MaxVersion \in Nat, ArtInv, NEW p \in Procs, NEW check \in BOOLEAN, Art!Start(p, check)
  PROVE  ArtInv'
<1> DEFINE refused == Art!Refused(kind, edition)
           worked == Art!Worked(kind, check)
           lonely == \A r \in Procs \ {p} : proc[r].at \in {"idle", "ended"}
           code == IF ~refused THEN 0 ELSE IF kind = "regmap" THEN 2 ELSE 1
<1>1. /\ UNCHANGED <<kind, edition, disk>> /\ kind \in Art!Kinds /\ edition \in 0 .. MaxVersion
      /\ proc' = [q \in Procs |->
                    IF q = p THEN [at |-> IF refused THEN "ended" ELSE "files", check |-> check,
                                   content |-> edition, todo |-> worked, flagged |-> FALSE,
                                   exit |-> code, alone |-> lonely]
                    ELSE Art!Later(q)]
  BY DEF Art!Start, ArtInv, ArtTypes
<1>2. /\ worked \in Seq(Tree) /\ worked # << >> /\ Art!Committed(kind) \subseteq Art!Range(worked)
      /\ check => Art!Range(worked) \subseteq Art!Committed(kind)
  BY <1>1, ListOfFiles
<1>3. /\ lonely \in BOOLEAN /\ refused \in BOOLEAN /\ code \in 0 .. 2 /\ (refused => code # 0)
      /\ lonely => \A q \in Procs \ {p} : proc[q].at \notin Running
  BY DEF Art!Refused, Running
<1> HIDE DEF refused, worked, lonely, code
<1>4. /\ proc'[p] = [at |-> IF refused THEN "ended" ELSE "files", check |-> check,
                      content |-> edition, todo |-> worked, flagged |-> FALSE,
                      exit |-> code, alone |-> lonely]
      /\ \A q \in Procs \ {p} : proc'[q] = Art!Later(q)
      /\ proc' = [q \in Procs |-> proc'[q]]
  BY <1>1
<1>5. proc'[p] \in Run /\ PlaceInv(proc'[p])
  BY <1>1, <1>2, <1>3, <1>4 DEF Run, Running, PlaceInv
<1>6. \A q \in Procs \ {p} :
        /\ proc'[q] \in Run /\ PlaceInv(proc'[q]) /\ AloneInv(q)' /\ Verdict(proc[q])'
        /\ proc'[q].at \in Running => proc[q].at \in Running
  BY <1>4, QuietKeeps, LaterIsQuiet DEF ArtInv
<1>7. Verdict(proc[p])'
  BY <1>1, <1>3, <1>4 DEF Verdict, refused
<1>8. AloneInv(p)'
  <2>0. proc'[p].at \in Running /\ proc'[p].alone => lonely /\ ~refused
    BY <1>4 DEF Running
  <2> SUFFICES ASSUME lonely, ~refused PROVE AloneInv(p)'
    BY <2>0 DEF AloneInv
  <2>1. ToldInv(proc[p])'
    BY <1>1, <1>2, <1>4 DEF ToldInv, Behind
  <2>2. \A q \in Procs \ {p} : proc'[q].at \notin Running
    BY <1>3, <1>6
  <2>3. proc'[p].content = edition' /\ ~Art!Refused(kind, edition)'
    BY <1>1, <1>4 DEF refused, Art!Refused
  <2> QED BY <2>1, <2>2, <2>3 DEF AloneInv
<1>9. ArtTypes'
  BY <1>1, <1>4, <1>5, <1>6 DEF ArtInv, ArtTypes, Tree, Run
<1> QED BY <1>5, <1>6, <1>7, <1>8, <1>9 DEF ArtInv, PlaceInv

\* The invariant is inductive.
LEMMA ArtNextKeeps ==
  ASSUME MaxVersion \in Nat, ArtInv, [Art!ArtNext]_(Art!artVars)
  PROVE  ArtInv'
<1>1. CASE UNCHANGED Art!artVars
  BY <1>1 DEF Art!artVars, ArtInv, ArtTypes, Tree, Run, PlaceInv, AloneInv, ToldInv, Behind, Fresh,
              Verdict, Art!Current
<1>2. CASE Art!ArtNext
  BY <1>2, StartKeeps, CompareKeeps, OpenKeeps, CloseKeeps, EndKeeps, EditSourceKeeps, EditFileKeeps,
     KillRunKeeps DEF Art!ArtNext, Art!ArtStep, Art!RunStep
<1> QED BY <1>1, <1>2

\* Before the first run nothing is there.
LEMMA ArtInitInv == ASSUME MaxVersion \in Nat \ {0}, Art!ArtInit PROVE ArtInv
<1>1. /\ kind \in Art!Kinds /\ edition = 1 /\ proc = [p \in Procs |-> Art!Idle]
      /\ disk = [f \in Tree |-> Art!Other("missing")]
  BY DEF Art!ArtInit, Tree
<1>2. Art!Other("missing") \in Held /\ edition \in 1 .. MaxVersion
  BY <1>1 DEF Art!Other, Art!Text, Held, Art!Gone
<1>3. << >> \in Seq(Tree) /\ 0 \in 0 .. MaxVersion
  OBVIOUS
<1>4. Art!Idle \in Run /\ Art!Idle.at = "idle"
  BY <1>3 DEF Art!Idle, Art!Gone, Run
<1>5. ArtTypes
  BY <1>1, <1>2, <1>4 DEF ArtTypes
<1>6. \A p \in Procs : PlaceInv(proc[p]) /\ AloneInv(p) /\ Verdict(proc[p])
  BY <1>1, <1>4 DEF PlaceInv, AloneInv, Verdict, Running
<1> QED BY <1>5, <1>6 DEF ArtInv

-----------------------------------------------------------------------------
(* The configuration and the build.                                        *)

\* The instance's cardinality is that of the library.
LEMMA SameCardinality == ASSUME NEW S PROVE Build!Cardinality(S) = Cardinality(S)
  BY DEF Build!Cardinality, Cardinality

\* A list of the members of a set, each once.
Lists(q, S) == q \in Seq(S) /\ IsInjective(q) /\ Range(q) = S

\* A list without repetitions is as long as the set has members.
LEMMA ListLength ==
  ASSUME NEW S, NEW q, Lists(q, S)
  PROVE  IsFiniteSet(S) /\ Len(q) \in Nat /\ Cardinality(S) = Len(q)
<1>1. q \in [1 .. Len(q) -> S] /\ Len(q) \in Nat /\ DOMAIN q = 1 .. Len(q)
  BY DEF Lists
<1>2. \A a, b \in 1 .. Len(q) : q[a] = q[b] => a = b
  BY <1>1 DEF Lists, IsInjective
<1>3. \A t \in S : \E s \in 1 .. Len(q) : q[s] = t
  BY <1>1 DEF Lists, Range
<1>4. q \in Bijection(1 .. Len(q), S)
  BY <1>1, <1>2, <1>3, Fun_IsBij
<1>5. ExistsBijection(1 .. Len(q), S)
  BY <1>4, Fun_ExistsBij
<1>6. IsFiniteSet(1 .. Len(q)) /\ Cardinality(1 .. Len(q)) = Len(q)
  <2>1. 1 \in Int /\ Len(q) \in Int
    BY <1>1
  <2>2. IsFiniteSet(1 .. Len(q)) /\ Cardinality(1 .. Len(q)) = IF 1 > Len(q) THEN 0 ELSE Len(q) - 1 + 1
    BY <2>1, FS_Interval
  <2> QED BY <1>1, <2>2
<1> QED BY <1>1, <1>5, <1>6, FS_Bijection

\* What sorted() returns, in whatever order.
LEMMA SomeOrderLists == ASSUME NEW S, IsFiniteSet(S) PROVE Lists(Build!InSomeOrder(S), S)
<1> DEFINE n == Cardinality(S)
           q == Build!InSomeOrder(S)
<1>1. n \in Nat /\ ExistsBijection(1 .. n, S)
  BY FS_CardinalityType
<1>2. PICK f : f \in Bijection(1 .. n, S)
  BY <1>1, Fun_ExistsBij
<1>3. f \in [1 .. n -> S] /\ \A a, b \in 1 .. n : f[a] = f[b] => a = b
  BY <1>2, Fun_BijectionProperties
<1>4. Build!IsInjective(f)
  BY <1>3 DEF Build!IsInjective
<1>5. q \in [1 .. n -> S] /\ Build!IsInjective(q)
  BY <1>3, <1>4, SameCardinality DEF Build!InSomeOrder, Build!SetToSeq
<1> HIDE DEF q, n
<1>6. q \in Injection(1 .. n, S)
  BY <1>5, Fun_IsInj DEF Build!IsInjective
<1>7. IsFiniteSet(1 .. n) /\ Cardinality(1 .. n) = n
  <2>1. 1 \in Int /\ n \in Int
    BY <1>1
  <2>2. IsFiniteSet(1 .. n) /\ Cardinality(1 .. n) = IF 1 > n THEN 0 ELSE n - 1 + 1
    BY <2>1, FS_Interval
  <2> QED BY <1>1, <2>2
<1>8. q \in Surjection(1 .. n, S)
  BY <1>6, <1>7, FS_Injection DEF n
<1>9. \A t \in S : \E s \in 1 .. n : q[s] = t
  BY <1>8 DEF Surjection
<1>10. q \in Seq(S) /\ DOMAIN q = 1 .. n
  BY <1>1, <1>5
<1>11. Range(q) = S
  BY <1>5, <1>9, <1>10 DEF Range
<1>12. IsInjective(q)
  BY <1>5 DEF IsInjective, Build!IsInjective
<1> QED BY <1>10, <1>11, <1>12 DEF Lists, q

\* A list of some keys is one of keys.
LEMMA ListWidens == ASSUME NEW S, NEW T, S \subseteq T, NEW q \in Seq(S) PROVE q \in Seq(T)
<1>1. Len(q) \in Nat /\ q \in [1 .. Len(q) -> S]
  OBVIOUS
<1>2. q \in [1 .. Len(q) -> T]
  BY <1>1
<1> QED BY <1>1, <1>2

\* The declarations of a list of keys: as many, and of the same keys.
Decls(params, S) == {<<k, params[k]>> : k \in S}

\* The declarations of a package, one of each key.
LEMMA PairsOfKeys ==
  ASSUME NEW S, NEW keys \in Seq(S), NEW params
  PROVE  /\ Build!Pairs(params, keys) \in Seq(Decls(params, S))
         /\ Len(Build!Pairs(params, keys)) = Len(keys)
         /\ Range(Build!Pairs(params, keys)) = Decls(params, Range(keys))
<1> DEFINE pairs == Build!Pairs(params, keys)
<1>1. Len(keys) \in Nat /\ DOMAIN keys = 1 .. Len(keys) /\ \A i \in 1 .. Len(keys) : keys[i] \in S
  OBVIOUS
<1>2. pairs = [i \in 1 .. Len(keys) |-> <<keys[i], params[keys[i]]>>]
  BY <1>1 DEF Build!Pairs
<1> HIDE DEF pairs
<1>3. pairs \in Seq(Decls(params, S)) /\ Len(pairs) = Len(keys)
  BY <1>1, <1>2 DEF Decls
<1>4. Range(pairs) = Decls(params, Range(keys))
  BY <1>1, <1>2 DEF Range, Decls
<1> QED BY <1>3, <1>4 DEF pairs

\* What two lists make together.
LEMMA JoinedLists ==
  ASSUME NEW S, NEW s \in Seq(S), NEW t \in Seq(S)
  PROVE  /\ s \o t \in Seq(S) /\ Len(s \o t) = Len(s) + Len(t)
         /\ Range(s \o t) = Range(s) \cup Range(t)
<1> DEFINE m == Len(s)
           n == Len(t)
           st == s \o t
<1>1. m \in Nat /\ n \in Nat /\ DOMAIN s = 1 .. m /\ DOMAIN t = 1 .. n
  OBVIOUS
<1>2. /\ st \in Seq(S) /\ Len(st) = m + n
      /\ \A i \in 1 .. m : st[i] = s[i]
      /\ \A i \in m + 1 .. m + n : st[i] = t[i - m]
  OBVIOUS
<1> HIDE DEF st, m, n
<1>3. DOMAIN st = 1 .. m + n
  BY <1>1, <1>2
<1>4. \A i \in 1 .. m + n : i \in 1 .. m \/ i \in m + 1 .. m + n
  BY <1>1
<1>5. /\ \A i \in m + 1 .. m + n : i - m \in 1 .. n
      /\ \A i \in 1 .. n : i + m \in m + 1 .. m + n /\ i + m \in 1 .. m + n /\ i + m - m = i
      /\ \A i \in 1 .. m : i \in 1 .. m + n
  BY <1>1
<1>6. Range(st) \subseteq Range(s) \cup Range(t)
  BY <1>1, <1>2, <1>3, <1>4, <1>5 DEF Range
<1>7. Range(s) \subseteq Range(st)
  BY <1>1, <1>2, <1>3, <1>5 DEF Range
<1>8. Range(t) \subseteq Range(st)
  <2>1. \A i \in 1 .. n : st[i + m] = t[i]
    <3> TAKE i \in 1 .. n
    <3> DEFINE j == i + m
    <3>1. j \in m + 1 .. m + n /\ j - m = i
      <4>1. m \in Nat /\ n \in Nat /\ i \in Nat /\ 1 <= i /\ i <= n
        BY <1>1
      <4> QED BY <4>1
    <3> HIDE DEF j
    <3>2. st[j] = t[j - m]
      BY <3>1, <1>2
    <3> QED BY <3>1, <3>2 DEF j
  <2> QED BY <2>1, <1>1, <1>3, <1>5 DEF Range
<1> QED BY <1>2, <1>6, <1>7, <1>8 DEF st, m, n

\* The layout of the stream's payload, from the widths of a configuration.
LEMMA StreamLayout ==
  ASSUME NEW c, Described(c), ExponentLaw, LogsOfTwo
  PROVE  LET stream == Build!derive_stream_params(c.params)
         IN  /\ stream.id_w \in Nat /\ stream.id_w >= 2 /\ 2 ^ stream.id_w >= c.params.N_ANTENNAS
             /\ Build!LayoutIsThePackages(stream)
<1> DEFINE antennas == c.params.N_ANTENNAS
           bits == Build!clog2(antennas)
           id_w == IF bits > 2 THEN bits ELSE 2
           data_w == 2 * c.params.SAMPLE_W
           stream == Build!derive_stream_params(c.params)
<1>1. antennas \in Nat /\ data_w \in Nat
  BY DEF Described
<1>2. bits \in 0 .. antennas /\ 2 ^ bits >= antennas
  BY <1>1 DEF LogsOfTwo, Build!clog2
<1> HIDE DEF bits, antennas
<1>3. id_w \in Nat /\ id_w >= 2 /\ 2 ^ id_w >= antennas
  <2>1. bits \in Nat
    BY <1>1, <1>2
  <2>2. CASE bits > 2
    BY <1>2, <2>1, <2>2
  <2>3. CASE bits \in 0 .. 2
    <3>1. bits = 0 \/ bits = 1 \/ bits = 2
      BY <2>3
    <3>2. 2 ^ 0 = 1 /\ 2 ^ 1 = 2 /\ 2 ^ 2 = 4
      <4>1. /\ 2 ^ 1 = 2 /\ 2 ^ 0 \in Nat
            /\ 2 ^ (0 + 1) = (2 ^ 0) * (2 ^ 1) /\ 2 ^ (1 + 1) = (2 ^ 1) * (2 ^ 1)
        BY DEF ExponentLaw
      <4> QED BY <4>1
    <3>3. 2 ^ bits <= 4 /\ 2 ^ bits \in Nat
      <4>1. 2 ^ bits = 1 \/ 2 ^ bits = 2 \/ 2 ^ bits = 4
        BY <3>1, <3>2, Zenon
      <4> QED BY <4>1
    <3>5. antennas <= 4
      BY <3>3, <1>1, <1>2
    <3>4. id_w = 2
      BY <2>1, <2>3
    <3> QED BY <3>2, <3>5, <3>4, <1>1
  <2> QED BY <2>1, <2>2, <2>3
<1>4. stream = [data_w |-> data_w, id_w |-> id_w, seq_w |-> 16, user_w |-> 4,
                user |-> 0, seq |-> 4, id |-> 4 + 16, eof |-> 4 + 16 + id_w, sof |-> 4 + 16 + id_w + 1,
                data |-> 4 + 16 + id_w + 2, end |-> 4 + 16 + id_w + 2 + data_w]
  BY DEF Build!derive_stream_params, bits, antennas
<1> HIDE DEF stream, id_w, data_w
<1>5. Build!LayoutIsThePackages(stream)
  BY <1>1, <1>3, <1>4 DEF Build!LayoutIsThePackages, Build!stream_layout_bit
<1> QED BY <1>3, <1>4, <1>5 DEF stream, antennas

\* Both faces of a configuration declare every parameter of the file once, with its
\* value, and the layout the stream package gives (render_config_pkg, render_config_header).
LEMMA FacesDeclare ==
  ASSUME NEW c, Described(c), ExponentLaw, LogsOfTwo
  PROVE  /\ Build!Declares(Build!render_config_pkg(c), c)
         /\ Build!Declares(Build!render_config_header(c), c)
         /\ Build!LayoutIsThePackages(Build!render_config_pkg(c).stream)
         /\ Build!render_config_header(c).stream = Build!render_config_pkg(c).stream
<1> DEFINE keys == DOMAIN c.params
           named == Range(c.sized) \cup Range(c.invariant)
           extra == keys \ named
           all == Build!InSomeOrder(keys)
           rest == Build!InSomeOrder(extra)
           decl == Decls(c.params, keys)
           one == Build!Pairs(c.params, c.sized)
           two == Build!Pairs(c.params, c.invariant)
           three == Build!Pairs(c.params, rest)
           sorted == Build!Pairs(c.params, all)
           stream == Build!derive_stream_params(c.params)
<1>1. /\ IsFiniteSet(keys) /\ c.sized \in Seq(keys) /\ c.invariant \in Seq(keys)
      /\ IsInjective(c.sized) /\ IsInjective(c.invariant)
      /\ Range(c.sized) \cap Range(c.invariant) = {}
  BY DEF Described
<1>2. /\ Range(c.sized) \subseteq keys /\ Range(c.invariant) \subseteq keys
      /\ Lists(c.sized, Range(c.sized)) /\ Lists(c.invariant, Range(c.invariant))
  BY <1>1 DEF Lists, Range
<1>3. IsFiniteSet(extra) /\ IsFiniteSet(named) /\ Lists(rest, extra) /\ Lists(all, keys)
  <2>1. extra \in SUBSET keys /\ named \in SUBSET keys
    BY <1>2
  <2>2. IsFiniteSet(extra) /\ IsFiniteSet(named)
    BY <1>1, <2>1, FS_Subset
  <2> QED BY <1>1, <2>2, SomeOrderLists
<1>4. /\ IsFiniteSet(Range(c.sized)) /\ IsFiniteSet(Range(c.invariant))
      /\ Len(c.sized) = Cardinality(Range(c.sized)) /\ Len(c.sized) \in Nat
      /\ Len(c.invariant) = Cardinality(Range(c.invariant)) /\ Len(c.invariant) \in Nat
      /\ Len(rest) = Cardinality(extra) /\ Len(rest) \in Nat
      /\ Len(all) = Cardinality(keys) /\ Len(all) \in Nat
  BY <1>2, <1>3, ListLength
<1>5. Cardinality(keys) = Len(c.sized) + Len(c.invariant) + Len(rest)
  <2>1. Cardinality(named) = Len(c.sized) + Len(c.invariant)
    <3>1. Cardinality(named)
            = Cardinality(Range(c.sized)) + Cardinality(Range(c.invariant))
              - Cardinality(Range(c.sized) \cap Range(c.invariant))
      BY <1>4, FS_Union
    <3>2. Cardinality(Range(c.sized) \cap Range(c.invariant)) = 0
      BY <1>1, FS_EmptySet
    <3> QED BY <3>1, <3>2, <1>4
  <2>2. Cardinality(named \cup extra)
          = Cardinality(named) + Cardinality(extra) - Cardinality(named \cap extra)
    BY <1>3, FS_Union
  <2>3. named \cup extra = keys /\ named \cap extra = {}
    BY <1>2
  <2>4. Cardinality({}) = 0
    BY FS_EmptySet
  <2>5. Cardinality(named \cup extra) = Cardinality(keys) /\ Cardinality(named \cap extra) = 0
    BY <2>3, <2>4
  <2> HIDE DEF keys, named, extra, rest
  <2> QED BY <2>1, <2>2, <2>5, <1>4
<1>6. /\ one \in Seq(decl) /\ Len(one) = Len(c.sized)
      /\ Range(one) = Decls(c.params, Range(c.sized))
  BY <1>1, PairsOfKeys
<1>7. /\ two \in Seq(decl) /\ Len(two) = Len(c.invariant)
      /\ Range(two) = Decls(c.params, Range(c.invariant))
  BY <1>1, PairsOfKeys
<1>8. /\ three \in Seq(decl) /\ Len(three) = Len(rest)
      /\ Range(three) = Decls(c.params, extra)
  <2>1. rest \in Seq(keys) /\ Range(rest) = extra
    <3>1. extra \subseteq keys /\ rest \in Seq(extra) /\ Range(rest) = extra
      BY <1>3 DEF Lists
    <3> HIDE DEF keys, extra, rest
    <3> QED BY <3>1, ListWidens
  <2> QED BY <2>1, PairsOfKeys
<1>9. Len(sorted) = Len(all) /\ Range(sorted) = decl
  <2>1. all \in Seq(keys) /\ Range(all) = keys
    BY <1>3 DEF Lists
  <2> QED BY <2>1, PairsOfKeys
<1> HIDE DEF keys, named, extra, all, rest, one, two, three, sorted, decl, stream
<1>10. /\ one \o two \in Seq(decl) /\ Len(one \o two) = Len(one) + Len(two)
       /\ Range(one \o two) = Range(one) \cup Range(two)
  <2>1. one \in Seq(decl) /\ two \in Seq(decl)
    BY <1>6, <1>7
  <2> QED BY <2>1, JoinedLists
<1>11. /\ Len(one \o two \o three) = Len(one) + Len(two) + Len(three)
       /\ Range(one \o two \o three) = Range(one) \cup Range(two) \cup Range(three)
  <2> DEFINE both == one \o two
  <2>1. both \in Seq(decl) /\ Len(both) = Len(one) + Len(two) /\ Range(both) = Range(one) \cup Range(two)
    BY <1>10
  <2> HIDE DEF both
  <2>2. Len(both \o three) = Len(both) + Len(three) /\ Range(both \o three) = Range(both) \cup Range(three)
    BY <2>1, <1>8, JoinedLists
  <2> QED BY <2>1, <2>2 DEF both
<1>12. Len(one \o two \o three) = Cardinality(keys)
  BY <1>4, <1>5, <1>6, <1>7, <1>8, <1>11
<1>13. Range(one \o two \o three) = decl
  <2>1. keys = Range(c.sized) \cup Range(c.invariant) \cup extra
    BY <1>2 DEF extra, named
  <2> QED BY <2>1, <1>6, <1>7, <1>8, <1>11 DEF decl, Decls
<1>14. /\ stream.id_w \in Nat /\ stream.id_w >= 2 /\ 2 ^ stream.id_w >= c.params.N_ANTENNAS
       /\ Build!LayoutIsThePackages(stream)
  BY StreamLayout DEF stream
<1>15. Build!render_config_pkg(c) = [params |-> one \o two \o three, stream |-> stream]
  BY DEF Build!render_config_pkg, one, two, three, rest, extra, named, keys, stream, Range, Build!Range
<1>16. Build!render_config_header(c) = [params |-> sorted, stream |-> stream]
  BY DEF Build!render_config_header, sorted, all, keys, stream
<1>17. \A S : Build!Cardinality(S) = Cardinality(S) /\ Build!Range(S) = Range(S)
  BY SameCardinality DEF Range, Build!Range
<1>18. Build!Declares(Build!render_config_pkg(c), c)
  BY <1>12, <1>13, <1>14, <1>15, <1>17 DEF Build!Declares, decl, Decls, keys
<1>19. Build!Declares(Build!render_config_header(c), c)
  BY <1>4, <1>9, <1>14, <1>16, <1>17 DEF Build!Declares, decl, Decls, keys
<1> QED BY <1>14, <1>15, <1>16, <1>18, <1>19

-----------------------------------------------------------------------------
Written == Build!Names \cup {Build!NoConfig}
Pair    == [rtl : Written, harness : Written]
Place   == {"idle", "config", "header", "verilate", "compile", "ended"}
Launch  == [at : Place, config : Written, only : BOOLEAN, lint : BOOLEAN, rtl : Written,
            alone : BOOLEAN, exit : 0 .. 1]

BuildTypes ==
  /\ pkg \in Written /\ header \in Written /\ launched \in 0 .. MaxBuilds
  /\ binary \in [Build!Names -> Pair] /\ build \in [Builds -> Launch]

\* A run has a configuration, and gets past the files, or past verilator, if it was asked to.
AskedInv(r) ==
  /\ r.at # "idle" => r.config \in Build!Names
  /\ r.at \in {"verilate", "compile"} => ~r.only
  /\ r.at = "compile" => ~r.lint

\* What the files and the run hold while nothing disturbed it, up to the binary it leaves.
HalvesInv(r) ==
  /\ r.at \in {"header", "verilate"} => pkg = r.config
  /\ r.at \in {"verilate", "compile"} => header = r.config
  /\ r.at = "compile" => r.rtl = r.config
  /\ r.at = "ended" /\ r.exit = 0 /\ ~r.only /\ ~r.lint =>
       binary[r.config] = [rtl |-> r.config, harness |-> r.config]

AloneBuild(b) ==
  build[b].at # "idle" /\ build[b].alone =>
    HalvesInv(build[b]) /\ \A q \in Builds \ {b} : ~Build!Under(q)

BuildInv == BuildTypes /\ \A b \in Builds : AskedInv(build[b]) /\ AloneBuild(b)

\* A run that another one starts beside is forgotten if it has ended, else disturbed.
Besides(q) == IF Build!Under(q) THEN [build[q] EXCEPT !.alone = FALSE] ELSE Build!Resting

\* A build that another one runs beside is at rest or no longer alone.
LEMMA BesidesIsQuiet ==
  ASSUME BuildTypes, NEW q \in Builds, AskedInv(build[q])
  PROVE  /\ Besides(q) \in Launch /\ AskedInv(Besides(q))
         /\ Besides(q).at = "idle" \/ ~Besides(q).alone
<1>1. build[q] \in Launch
  BY DEF BuildTypes
<1>2. CASE Build!Under(q)
  BY <1>1, <1>2 DEF Besides, Launch, AskedInv
<1>3. CASE ~Build!Under(q)
  BY <1>3 DEF Besides, Launch, AskedInv, Build!Resting, Written, Place
<1> QED BY <1>2, <1>3

\* A run is launched.
LEMMA BeginKeeps ==
  ASSUME MaxBuilds \in Nat, BuildInv, NEW b \in Builds, NEW name \in Build!Names,
         NEW only \in BOOLEAN, NEW lint \in BOOLEAN, NEW clean \in BOOLEAN,
         Build!Begin(b, name, only, lint, clean)
  PROVE  BuildInv'
<1> DEFINE lonely == \A r \in Builds \ {b} : ~Build!Under(r)
<1>1. /\ UNCHANGED <<pkg, header>> /\ launched < MaxBuilds /\ launched' = launched + 1
      /\ build' = [q \in Builds |->
                     IF q # b THEN Besides(q)
                     ELSE [Build!Resting EXCEPT !.at = "config", !.config = name, !.only = only,
                                                !.lint = lint, !.alone = lonely]]
      /\ binary' = [n \in Build!Names |-> IF clean /\ ~only /\ n = name THEN Build!NoBinary ELSE binary[n]]
  BY DEF Build!Begin, Besides
<1>2. lonely \in BOOLEAN
  OBVIOUS
<1> HIDE DEF lonely
<1>3. /\ build'[b] = [at |-> "config", config |-> name, only |-> only, lint |-> lint,
                       rtl |-> Build!NoConfig, alone |-> lonely, exit |-> 0]
      /\ \A q \in Builds \ {b} : build'[q] = Besides(q)
      /\ build' = [q \in Builds |-> build'[q]]
  BY <1>1 DEF Build!Resting
<1>4. build'[b] \in Launch /\ AskedInv(build'[b])
  BY <1>2, <1>3 DEF Launch, Place, Written, AskedInv
<1>5. \A q \in Builds \ {b} : /\ build'[q] \in Launch /\ AskedInv(build'[q])
                              /\ build'[q].at = "idle" \/ ~build'[q].alone
  BY <1>3, BesidesIsQuiet DEF BuildInv
<1>6. binary' \in [Build!Names -> Pair]
  BY <1>1 DEF BuildInv, BuildTypes, Build!NoBinary, Pair, Written
<1>7. launched' \in 0 .. MaxBuilds
  BY <1>1 DEF BuildInv, BuildTypes
<1>8. BuildTypes'
  BY <1>1, <1>3, <1>4, <1>5, <1>6, <1>7 DEF BuildInv, BuildTypes
<1>9. AloneBuild(b)'
  <2> SUFFICES ASSUME lonely PROVE AloneBuild(b)'
    BY <1>3 DEF AloneBuild
  <2>1. \A q \in Builds \ {b} : build'[q].at \in {"idle", "ended"}
    BY <1>3 DEF lonely, Besides, Build!Resting
  <2> QED BY <2>1, <1>3 DEF AloneBuild, HalvesInv, Build!Under
<1>10. \A q \in Builds \ {b} : AloneBuild(q)'
  BY <1>5 DEF AloneBuild
<1> QED BY <1>4, <1>5, <1>8, <1>9, <1>10 DEF BuildInv, AskedInv

\* A step of a run that another does not see but for the files: a run that is alone has no
\* other under way, so the invariant is that of the run itself.
LEMMA OneBuildSteps ==
  ASSUME BuildInv, NEW b \in Builds, Build!Under(b), BuildTypes',
         \A q \in Builds \ {b} : build'[q] = build[q],
         AskedInv(build'[b]), AloneBuild(b)'
  PROVE  BuildInv'
<1>1. ASSUME NEW q \in Builds, q # b
      PROVE  AskedInv(build'[q]) /\ AloneBuild(q)'
  <2>1. build'[q] = build[q] /\ ~(build[q].at # "idle" /\ build[q].alone)
    BY <1>1 DEF BuildInv, AloneBuild
  <2> QED BY <2>1 DEF BuildInv, AskedInv, AloneBuild
<1> QED BY <1>1 DEF BuildInv, AskedInv

\* What a run becomes when it goes on, or ends.
Goes(r, at, code, rtl) == [r EXCEPT !.at = at, !.exit = code, !.rtl = rtl]

\* Its fields after the move, and the other builds as they were.
LEMMA MoveKeeps ==
  ASSUME BuildTypes, NEW b \in Builds, NEW at \in Place, NEW code \in 0 .. 1, NEW rtl \in Written,
         build' = [build EXCEPT ![b] = Goes(build[b], at, code, rtl)]
  PROVE  /\ build' \in [Builds -> Launch] /\ \A q \in Builds \ {b} : build'[q] = build[q]
         /\ build'[b].at = at /\ build'[b].exit = code /\ build'[b].rtl = rtl
         /\ build'[b].config = build[b].config /\ build'[b].alone = build[b].alone
         /\ build'[b].only = build[b].only /\ build'[b].lint = build[b].lint
<1> DEFINE next == Goes(build[b], at, code, rtl)
<1>1. build \in [Builds -> Launch] /\ build[b] \in Launch
  BY DEF BuildTypes
<1>2. /\ next \in Launch /\ next.at = at /\ next.exit = code /\ next.rtl = rtl
      /\ next.config = build[b].config /\ next.alone = build[b].alone
      /\ next.only = build[b].only /\ next.lint = build[b].lint
  BY <1>1 DEF Launch, Goes
<1>3. build' = [build EXCEPT ![b] = next]
  OBVIOUS
<1> HIDE DEF next
<1>4. build'[b] = next /\ build' \in [Builds -> Launch] /\ \A q \in Builds \ {b} : build'[q] = build[q]
  BY <1>1, <1>2, <1>3
<1> QED BY <1>2, <1>4

\* generate_config: the package is of the run's configuration.
LEMMA WritePkgKeeps ==
  ASSUME BuildInv, NEW b \in Builds, Build!WritePkg(b)
  PROVE  BuildInv'
<1> DEFINE r == build[b]
<1>1. /\ r.at = "config" /\ pkg' = r.config /\ UNCHANGED <<header, binary, launched>>
      /\ build' = [build EXCEPT ![b] = Goes(r, "header", r.exit, r.rtl)]
  BY DEF Goes, Build!WritePkg, Build!Go, Build!Rewritten, BuildInv, BuildTypes, Launch
<1>2. r \in Launch /\ AskedInv(r) /\ BuildTypes
  BY DEF BuildInv, BuildTypes
<1>3. r.exit \in 0 .. 1 /\ r.rtl \in Written /\ r.config \in Written /\ "header" \in Place
  BY <1>2 DEF Launch, Place
<1>4. /\ build' \in [Builds -> Launch] /\ \A q \in Builds \ {b} : build'[q] = build[q]
      /\ build'[b].at = "header" /\ build'[b].config = r.config /\ build'[b].alone = r.alone
  BY <1>1, <1>2, <1>3, MoveKeeps
<1>5. BuildTypes'
  BY <1>1, <1>2, <1>3, <1>4 DEF BuildTypes
<1>6. AskedInv(build'[b])
  BY <1>1, <1>2, <1>4 DEF AskedInv
<1>7. AloneBuild(b)'
  BY <1>1, <1>4 DEF BuildInv, AloneBuild, HalvesInv, Build!Under
<1>8. Build!Under(b)
  BY <1>1 DEF Build!Under
<1> QED BY <1>4, <1>5, <1>6, <1>7, <1>8, OneBuildSteps

\* generate_config: the header is too; with --config-only that is the end.
LEMMA WriteHeaderKeeps ==
  ASSUME BuildInv, NEW b \in Builds, Build!WriteHeader(b)
  PROVE  BuildInv'
<1> DEFINE r == build[b]
           at == IF r.only THEN "ended" ELSE "verilate"
           code == IF r.only THEN 0 ELSE r.exit
<1>1. r \in Launch /\ AskedInv(r) /\ BuildTypes
  BY DEF BuildInv, BuildTypes
<1>2. at \in Place /\ code \in 0 .. 1 /\ r.rtl \in Written /\ r.config \in Written
  BY <1>1 DEF Launch, Place
<1>3. /\ r.at = "header" /\ header' = r.config /\ UNCHANGED <<pkg, binary, launched>>
      /\ build' = [build EXCEPT ![b] = Goes(r, at, code, r.rtl)]
  BY <1>1 DEF Goes, Build!WriteHeader, Build!Go, Build!Leave, BuildTypes, Launch
<1>4. (at = "ended" <=> r.only) /\ (at = "verilate" <=> ~r.only)
  OBVIOUS
<1> HIDE DEF at, code
<1>5. /\ build' \in [Builds -> Launch] /\ \A q \in Builds \ {b} : build'[q] = build[q]
      /\ build'[b].at = at /\ build'[b].config = r.config /\ build'[b].alone = r.alone
      /\ build'[b].only = r.only
  BY <1>1, <1>2, <1>3, MoveKeeps
<1>6. BuildTypes'
  BY <1>1, <1>2, <1>3, <1>5 DEF BuildTypes
<1>7. at \in {"ended", "verilate"} /\ (at = "verilate" => ~r.only) /\ (at = "ended" => r.only)
  BY <1>4 DEF at
<1>8. AskedInv(build'[b])
  BY <1>1, <1>3, <1>5, <1>7 DEF AskedInv
<1>9. AloneBuild(b)'
  BY <1>3, <1>5, <1>7 DEF BuildInv, AloneBuild, HalvesInv, Build!Under
<1>10. Build!Under(b)
  BY <1>3 DEF Build!Under
<1> QED BY <1>5, <1>6, <1>8, <1>9, <1>10, OneBuildSteps

\* A test that is not there, or verilator, ends a run with 1.
LEMMA BuildFailsKeeps ==
  ASSUME BuildInv, NEW b \in Builds, Build!BuildFails(b)
  PROVE  BuildInv'
<1> DEFINE r == build[b]
<1>1. r \in Launch /\ AskedInv(r) /\ BuildTypes
  BY DEF BuildInv, BuildTypes
<1>2. 1 \in 0 .. 1 /\ r.rtl \in Written /\ "ended" \in Place
  BY <1>1 DEF Launch, Place
<1>3. /\ r.at \in {"verilate", "compile"} /\ UNCHANGED <<pkg, header, binary, launched>>
      /\ build' = [build EXCEPT ![b] = Goes(r, "ended", 1, r.rtl)]
  BY <1>1 DEF Goes, Build!BuildFails, Build!Leave, BuildTypes, Launch
<1>4. /\ build' \in [Builds -> Launch] /\ \A q \in Builds \ {b} : build'[q] = build[q]
      /\ build'[b].at = "ended" /\ build'[b].exit = 1 /\ build'[b].config = r.config
      /\ build'[b].alone = r.alone
  <2>1. build' = [build EXCEPT ![b] = Goes(build[b], "ended", 1, r.rtl)] /\ 1 \in 0 .. 1
    BY <1>3
  <2>2. BuildTypes /\ "ended" \in Place /\ r.rtl \in Written
    BY <1>1, <1>2
  <2>3. /\ build' \in [Builds -> Launch] /\ \A q \in Builds \ {b} : build'[q] = build[q]
        /\ build'[b].at = "ended" /\ build'[b].exit = 1 /\ build'[b].rtl = r.rtl
        /\ build'[b].config = build[b].config /\ build'[b].alone = build[b].alone
        /\ build'[b].only = build[b].only /\ build'[b].lint = build[b].lint
    BY <2>1, <2>2, MoveKeeps
  <2> QED BY <2>3
<1>5. BuildTypes'
  BY <1>1, <1>3, <1>4 DEF BuildTypes
<1>6. AskedInv(build'[b])
  BY <1>1, <1>3, <1>4 DEF AskedInv
<1>7. AloneBuild(b)'
  <2> SUFFICES ASSUME r.alone PROVE AloneBuild(b)'
    BY <1>4 DEF AloneBuild
  <2>1. r.at # "idle" /\ \A q \in Builds \ {b} : ~Build!Under(q)
    BY <1>3 DEF BuildInv, AloneBuild
  <2>2. /\ build'[b].at = "ended" /\ build'[b].exit # 0
        /\ \A q \in Builds \ {b} : build'[q].at = build[q].at
    BY <1>4
  <2> QED BY <2>1, <2>2 DEF AloneBuild, HalvesInv, Build!Under
<1>8. Build!Under(b)
  BY <1>3 DEF Build!Under
<1> QED BY <1>4, <1>5, <1>6, <1>7, <1>8, OneBuildSteps

\* verilator reads the package; with --lint that is the end.
LEMMA VerilateKeeps ==
  ASSUME BuildInv, NEW b \in Builds, Build!Verilate(b)
  PROVE  BuildInv'
<1> DEFINE r == build[b]
           at == IF r.lint THEN "ended" ELSE "compile"
           code == IF r.lint THEN 0 ELSE r.exit
           rtl == IF r.lint THEN r.rtl ELSE pkg
<1>1. r \in Launch /\ AskedInv(r) /\ BuildTypes
  BY DEF BuildInv, BuildTypes
<1>2. at \in Place /\ code \in 0 .. 1 /\ rtl \in Written
  BY <1>1 DEF Launch, Place, BuildTypes
<1>3. /\ r.at = "verilate" /\ UNCHANGED <<pkg, header, binary, launched>>
      /\ build' = [build EXCEPT ![b] = Goes(r, at, code, rtl)]
  <2>1. r.at = "verilate" /\ UNCHANGED <<pkg, header, binary, launched>>
    BY DEF Build!Verilate
  <2>2. CASE r.lint
    BY <1>1, <2>2 DEF Goes, Build!Verilate, Build!Leave, BuildTypes, Launch
  <2>3. CASE ~r.lint
    BY <1>1, <2>3 DEF Goes, Build!Verilate, BuildTypes, Launch
  <2> QED BY <2>1, <2>2, <2>3
<1>4. /\ at \in {"ended", "compile"} /\ (at = "compile" => ~r.lint /\ rtl = pkg)
      /\ (at = "ended" => r.lint)
  OBVIOUS
<1> HIDE DEF at, code, rtl
<1>5. /\ build' \in [Builds -> Launch] /\ \A q \in Builds \ {b} : build'[q] = build[q]
      /\ build'[b].at = at /\ build'[b].rtl = rtl /\ build'[b].config = r.config
      /\ build'[b].alone = r.alone /\ build'[b].only = r.only /\ build'[b].lint = r.lint
  <2>1. build' = [build EXCEPT ![b] = Goes(build[b], at, code, rtl)]
    BY <1>3
  <2>2. /\ build' \in [Builds -> Launch] /\ \A q \in Builds \ {b} : build'[q] = build[q]
        /\ build'[b].at = at /\ build'[b].exit = code /\ build'[b].rtl = rtl
        /\ build'[b].config = build[b].config /\ build'[b].alone = build[b].alone
        /\ build'[b].only = build[b].only /\ build'[b].lint = build[b].lint
    BY <1>1, <1>2, <2>1, MoveKeeps
  <2> QED BY <2>2
<1>6. BuildTypes'
  BY <1>1, <1>3, <1>5 DEF BuildTypes
<1>7. AskedInv(build'[b])
  BY <1>1, <1>3, <1>4, <1>5 DEF AskedInv
<1>8. AloneBuild(b)'
  BY <1>3, <1>4, <1>5 DEF BuildInv, AloneBuild, HalvesInv, Build!Under
<1>9. Build!Under(b)
  BY <1>3 DEF Build!Under
<1> QED BY <1>5, <1>6, <1>7, <1>8, <1>9, OneBuildSteps

\* The harness is compiled with the header that is there: the binary is of the pair.
LEMMA CompileKeeps ==
  ASSUME BuildInv, NEW b \in Builds, Build!Compile(b)
  PROVE  BuildInv'
<1> DEFINE r == build[b]
           made == [rtl |-> r.rtl, harness |-> header]
<1>1. r \in Launch /\ AskedInv(r) /\ BuildTypes
  BY DEF BuildInv, BuildTypes
<1>2. /\ 0 \in 0 .. 1 /\ r.rtl \in Written /\ "ended" \in Place /\ made \in Pair
      /\ binary \in [Build!Names -> Pair]
  BY <1>1 DEF Launch, Place, Pair, BuildTypes
<1>3. /\ r.at = "compile" /\ UNCHANGED <<pkg, header, launched>>
      /\ build' = [build EXCEPT ![b] = Goes(r, "ended", 0, r.rtl)]
      /\ binary' = [binary EXCEPT ![r.config] = made]
  BY <1>1 DEF Goes, Build!Compile, Build!Leave, BuildTypes, Launch
<1>4. /\ build' \in [Builds -> Launch] /\ \A q \in Builds \ {b} : build'[q] = build[q]
      /\ build'[b].at = "ended" /\ build'[b].config = r.config /\ build'[b].alone = r.alone
  BY <1>1, <1>2, <1>3, MoveKeeps
<1>5. r.config \in Build!Names
  BY <1>1, <1>3 DEF AskedInv
<1>6. binary' \in [Build!Names -> Pair] /\ binary'[r.config] = made
  BY <1>2, <1>3, <1>5
<1>7. BuildTypes'
  BY <1>1, <1>3, <1>4, <1>6 DEF BuildTypes
<1>8. AskedInv(build'[b])
  BY <1>1, <1>3, <1>4 DEF AskedInv
<1>9. AloneBuild(b)'
  <2> SUFFICES ASSUME r.alone PROVE AloneBuild(b)'
    BY <1>4 DEF AloneBuild
  <2>1. r.rtl = r.config /\ header = r.config /\ \A q \in Builds \ {b} : ~Build!Under(q)
    BY <1>3 DEF BuildInv, AloneBuild, HalvesInv
  <2>2. binary'[r.config] = [rtl |-> r.config, harness |-> r.config]
    BY <2>1, <1>6
  <2> QED BY <2>1, <2>2, <1>4 DEF AloneBuild, HalvesInv, Build!Under
<1>10. Build!Under(b)
  BY <1>3 DEF Build!Under
<1> QED BY <1>4, <1>7, <1>8, <1>9, <1>10, OneBuildSteps

\* A run that is killed is forgotten; it leaves no other that is alone.
LEMMA KillBuildKeeps ==
  ASSUME BuildInv, NEW b \in Builds, Build!KillBuild(b)
  PROVE  BuildInv'
<1>1. /\ Build!Under(b) /\ build' = [build EXCEPT ![b] = Build!Resting] /\ UNCHANGED <<binary, launched>>
      /\ pkg' \in {pkg, Build!NoConfig} /\ header' \in {header, Build!NoConfig}
  BY DEF Build!KillBuild
<1>2. BuildTypes
  BY DEF BuildInv
<1>3. Build!Resting \in Launch /\ Build!Resting.at = "idle" /\ Build!NoConfig \in Written
  BY DEF Build!Resting, Launch, Place, Written
<1>4. /\ build'[b] = Build!Resting /\ build' \in [Builds -> Launch]
      /\ \A q \in Builds \ {b} : build'[q] = build[q]
  BY <1>1, <1>2, <1>3 DEF BuildTypes
<1>5. BuildTypes'
  BY <1>1, <1>2, <1>3, <1>4 DEF BuildTypes
<1>6. AskedInv(build'[b]) /\ AloneBuild(b)'
  BY <1>3, <1>4 DEF AskedInv, AloneBuild
<1> QED BY <1>1, <1>4, <1>5, <1>6, OneBuildSteps

\* The invariant is inductive.
LEMMA BuildNextKeeps ==
  ASSUME MaxBuilds \in Nat, BuildInv, [Build!BuildNext]_(Build!buildVars)
  PROVE  BuildInv'
<1>1. CASE UNCHANGED Build!buildVars
  BY <1>1 DEF Build!buildVars, BuildInv, BuildTypes, AskedInv, AloneBuild, HalvesInv, Build!Under
<1>2. CASE Build!BuildNext
  BY <1>2, BeginKeeps, WritePkgKeeps, WriteHeaderKeeps, BuildFailsKeeps, VerilateKeeps, CompileKeeps,
     KillBuildKeeps DEF Build!BuildNext, Build!BuildStep, Build!BuildRun
<1> QED BY <1>1, <1>2

\* At first there is no file, no run and no binary.
LEMMA BuildInitInv == ASSUME MaxBuilds \in Nat, Build!BuildInit PROVE BuildInv
<1>1. Build!Resting \in Launch /\ Build!Resting.at = "idle" /\ Build!NoBinary \in Pair
  BY DEF Build!Resting, Launch, Place, Written, Build!NoBinary, Pair
<1>2. BuildTypes
  BY <1>1 DEF Build!BuildInit, BuildTypes, Written
<1>3. \A b \in Builds : AskedInv(build[b]) /\ AloneBuild(b)
  BY <1>1 DEF Build!BuildInit, AskedInv, AloneBuild
<1> QED BY <1>2, <1>3 DEF BuildInv

\* The invariant and the faces of a configuration make the property.
LEMMA HalvesOfInv == ASSUME ExponentLaw, LogsOfTwo, BuildInv PROVE Build!BuildTypeOK /\ Build!HalvesAgree
<1>1. Build!BuildTypeOK
  BY DEF BuildInv, BuildTypes, Build!BuildTypeOK, Written, Pair
<1>2. ASSUME NEW b \in Builds, build[b].at = "ended", build[b].exit = 0, build[b].alone,
             ~build[b].only, ~build[b].lint, NEW c, c = Build!Config(build[b].config)
      PROVE  /\ binary[build[b].config] = [rtl |-> c.name, harness |-> c.name]
             /\ Build!Declares(Build!render_config_pkg(c), c)
             /\ Build!Declares(Build!render_config_header(c), c)
             /\ Build!LayoutIsThePackages(Build!render_config_pkg(c).stream)
             /\ Build!render_config_header(c).stream = Build!render_config_pkg(c).stream
  <2>1. build[b].config \in Build!Names
    BY <1>2 DEF BuildInv, AskedInv
  <2>2. c \in Configs /\ c.name = build[b].config
    BY <2>1, <1>2 DEF Build!Names, Build!Config
  <2>3. Described(c)
    BY <2>2, ConfigsAssumption
  <2>4. binary[build[b].config] = [rtl |-> build[b].config, harness |-> build[b].config]
    BY <1>2 DEF BuildInv, AloneBuild, HalvesInv
  <2> QED BY <2>2, <2>3, <2>4, FacesDeclare
<1>3. Build!HalvesAgree
  BY <1>2 DEF Build!HalvesAgree
<1> QED BY <1>1, <1>3

-----------------------------------------------------------------------------
(* The register plane: the two faces of a document.                        *)

\* F[n] lists the implemented blocks among the first n of m.
Among(F, m, N) ==
  F = [n \in 0 .. N |->
         IF n = 0 THEN << >> ELSE IF m[n].implemented THEN Append(F[n - 1], m[n]) ELSE F[n - 1]]

\* The recursive definition of the list defines a function.
LEMMA AmongExists == ASSUME NEW m, NEW N \in Nat PROVE \E F : Among(F, m, N)
<1> DEFINE T == {n \in Nat : ~\E F : Among(F, m, n)}
           Next1(f, n) == IF m[n].implemented THEN Append(f, m[n]) ELSE f
<1>1. \E F : Among(F, m, 0)
  <2> DEFINE F == [n \in 0 .. 0 |-> << >>]
  <2>1. F = [n \in 0 .. 0 |-> IF n = 0 THEN << >> ELSE Next1(F[n - 1], n)]
    OBVIOUS
  <2> QED BY <2>1 DEF Among
<1>2. ASSUME NEW n \in Nat, NEW F, Among(F, m, n) PROVE \E G : Among(G, m, n + 1)
  <2> DEFINE G == [k \in 0 .. n + 1 |-> IF k = n + 1 THEN Next1(F[n], n + 1) ELSE F[k]]
  <2>1. F = [k \in 0 .. n |-> IF k = 0 THEN << >> ELSE Next1(F[k - 1], k)]
    BY <1>2 DEF Among
  <2> HIDE DEF Next1
  <2>2. ASSUME NEW k \in 0 .. n + 1
        PROVE  G[k] = IF k = 0 THEN << >> ELSE Next1(G[k - 1], k)
    <3>1. CASE k = 0
      BY <2>1, <3>1
    <3>2. CASE k = n + 1
      BY <3>2
    <3>3. CASE k \in 1 .. n
      <4>1. G[k] = F[k] /\ G[k - 1] = F[k - 1]
        BY <3>3
      <4>2. F[k] = Next1(F[k - 1], k)
        BY <2>1, <3>3
      <4> QED BY <4>1, <4>2, <3>3
    <3> QED BY <3>1, <3>2, <3>3
  <2>3. G = [k \in 0 .. n + 1 |-> IF k = 0 THEN << >> ELSE Next1(G[k - 1], k)]
    BY <2>2
  <2> QED BY <2>3 DEF Among, Next1
<1>3. ASSUME T # {} PROVE FALSE
  <2>1. PICK n \in T : \A k \in T : n <= k
    BY <1>3, LeastElement
  <2>2. n \in Nat /\ ~\E F : Among(F, m, n)
    BY <2>1
  <2>3. n # 0
    BY <1>1, <2>2
  <2>4. n - 1 \in Nat /\ n - 1 \notin T
    BY <2>1, <2>2, <2>3
  <2>5. PICK F : Among(F, m, n - 1)
    BY <2>4
  <2>6. \E G : Among(G, m, n - 1 + 1)
    BY <2>4, <2>5, <1>2
  <2> QED BY <2>2, <2>6
<1> QED BY <1>3

\* A list q of the implemented blocks among the first n of m, each once.
ListsFirst(q, m, n) ==
  /\ q \in Seq(Range(m))
  /\ \A i \in DOMAIN q : \E j \in 1 .. n : m[j].implemented /\ q[i] = m[j]
  /\ \A j \in 1 .. n : m[j].implemented => \E i \in DOMAIN q : q[i] = m[j]
  /\ \A i, k \in DOMAIN q : i # k => \E j, l \in 1 .. n : j # l /\ q[i] = m[j] /\ q[k] = m[l]

\* One more block.
LEMMA ListGrows ==
  ASSUME NEW m, IsList(m), NEW n \in 1 .. Len(m), NEW q, ListsFirst(q, m, n - 1)
  PROVE  ListsFirst(IF m[n].implemented THEN Append(q, m[n]) ELSE q, m, n)
<1>1. q \in Seq(Range(m)) /\ m[n] \in Range(m) /\ Len(q) \in Nat /\ DOMAIN q = 1 .. Len(q)
  BY DEF ListsFirst, IsList, Range
<1>2. \A j \in 1 .. n : j = n \/ j \in 1 .. n - 1
  OBVIOUS
<1>3. \A j \in 1 .. n - 1 : j \in 1 .. n /\ j # n
  OBVIOUS
<1>4. CASE ~m[n].implemented
  BY <1>1, <1>2, <1>3, <1>4 DEF ListsFirst
<1>5. CASE m[n].implemented
  <2> DEFINE p == Append(q, m[n])
  <2>1. /\ p \in Seq(Range(m)) /\ Len(p) = Len(q) + 1 /\ DOMAIN p = 1 .. Len(q) + 1
        /\ p[Len(q) + 1] = m[n] /\ \A i \in DOMAIN q : p[i] = q[i]
    BY <1>1
  <2> HIDE DEF p
  <2>2. \A i \in DOMAIN p : i = Len(q) + 1 \/ i \in DOMAIN q
    BY <1>1, <2>1
  <2>3. \A i \in DOMAIN q : i \in DOMAIN p
    BY <1>1, <2>1
  <2>4. \A i \in DOMAIN p : \E j \in 1 .. n : m[j].implemented /\ p[i] = m[j]
    BY <1>3, <1>5, <2>1, <2>2 DEF ListsFirst
  <2>5. ASSUME NEW j \in 1 .. n, m[j].implemented PROVE \E i \in DOMAIN p : p[i] = m[j]
    <3>1. CASE j = n
      BY <1>1, <2>1, <3>1
    <3>2. CASE j \in 1 .. n - 1
      BY <2>1, <2>3, <2>5, <3>2 DEF ListsFirst
    <3> QED BY <1>2, <3>1, <3>2
  <2>6. ASSUME NEW i \in DOMAIN p, NEW k \in DOMAIN p, i # k
        PROVE  \E j, l \in 1 .. n : j # l /\ p[i] = m[j] /\ p[k] = m[l]
    <3>1. CASE i \in DOMAIN q /\ k \in DOMAIN q
      <4>1. PICK j \in 1 .. n - 1, l \in 1 .. n - 1 : j # l /\ q[i] = m[j] /\ q[k] = m[l]
        BY <2>6, <3>1 DEF ListsFirst
      <4> QED BY <4>1, <3>1, <1>3, <2>1
    <3>2. CASE i \in DOMAIN q /\ k = Len(q) + 1
      <4>1. PICK j \in 1 .. n - 1 : q[i] = m[j]
        BY <3>2 DEF ListsFirst
      <4> QED BY <4>1, <3>2, <1>3, <2>1
    <3>3. CASE i = Len(q) + 1 /\ k \in DOMAIN q
      <4>1. PICK l \in 1 .. n - 1 : q[k] = m[l]
        BY <3>3 DEF ListsFirst
      <4> QED BY <4>1, <3>3, <1>3, <2>1
    <3> QED BY <2>2, <2>6, <3>1, <3>2, <3>3
  <2>7. ListsFirst(p, m, n)
    BY <2>1, <2>4, <2>5, <2>6 DEF ListsFirst
  <2> QED BY <2>7, <1>5 DEF p
<1> QED BY <1>4, <1>5

\* What the two faces take from the map: its implemented blocks, each once.
LEMMA ImplementedLists ==
  ASSUME NEW m, IsList(m)
  PROVE  ListsFirst(Reg!Implemented(m), m, Len(m))
<1>1. Len(m) \in Nat /\ DOMAIN m = 1 .. Len(m)
  BY DEF IsList
<1> DEFINE F == CHOOSE f : Among(f, m, Len(m))
<1>2. Among(F, m, Len(m))
  BY <1>1, AmongExists
<1>3. Reg!Implemented(m) = F[Len(m)]
  BY DEF Reg!Implemented, Among
<1> HIDE DEF F
<1>4. F[0] = << >>
  BY <1>1, <1>2 DEF Among
<1>5. \A n \in 1 .. Len(m) : F[n] = IF m[n].implemented THEN Append(F[n - 1], m[n]) ELSE F[n - 1]
  <2> DEFINE Next1(f, n) == IF m[n].implemented THEN Append(f, m[n]) ELSE f
  <2>1. F = [n \in 0 .. Len(m) |-> IF n = 0 THEN << >> ELSE Next1(F[n - 1], n)]
    BY <1>2 DEF Among
  <2>2. ASSUME NEW n \in 1 .. Len(m) PROVE F[n] = Next1(F[n - 1], n)
    <3> HIDE DEF Next1
    <3> QED BY <1>1, <2>1
  <2> QED BY <2>2
<1>6. ListsFirst(F[0], m, 0)
  BY <1>4 DEF ListsFirst
<1>7. ASSUME NEW n \in 1 .. Len(m), ListsFirst(F[n - 1], m, n - 1) PROVE ListsFirst(F[n], m, n)
  BY <1>5, <1>7, ListGrows
<1> DEFINE T == {n \in 0 .. Len(m) : ~ListsFirst(F[n], m, n)}
<1>8. ASSUME T # {} PROVE FALSE
  <2>1. T \in SUBSET Nat
    BY <1>1
  <2>2. PICK n \in T : \A k \in T : n <= k
    BY <1>8, <2>1, LeastElement
  <2>3. n # 0
    BY <1>6, <2>2
  <2>4. n \in 1 .. Len(m) /\ n - 1 \in 0 .. Len(m) /\ n - 1 \notin T
    BY <1>1, <2>2, <2>3
  <2>5. ListsFirst(F[n - 1], m, n - 1)
    BY <2>4
  <2> QED BY <2>2, <2>4, <2>5, <1>7
<1> QED BY <1>1, <1>3, <1>8

-----------------------------------------------------------------------------
(* A document and its map.                                                 *)

\* A register resolved: its pulses are not stored, and are no other field's.
Masked(x) == x.pulse \cap (x.wmask \cup x.w1c \cup x.reset) = {}

\* A block of the map: aligned, with its registers at every fourth byte from its base.
Placed(b) ==
  /\ b.base \in Nat /\ b.base % Window = 0 /\ b.size = Window /\ b.implemented \in BOOLEAN
  /\ IsList(b.registers) /\ 4 * Len(b.registers) <= Window
  /\ \A n \in DOMAIN b.registers :
       b.registers[n].address = b.base + 4 * (n - 1) /\ Masked(b.registers[n])
  /\ ~b.implemented => b.registers = << >>

Spans(b, c) == b.base + Window <= c.base \/ c.base + Window <= b.base
Mapped(m) ==
  /\ IsList(m) /\ \A j \in DOMAIN m : Placed(m[j])
  /\ \A j, l \in DOMAIN m : j # l => Spans(m[j], m[l])

\* The bits of two fields of a register that is legal.
LEMMA BitsApart ==
  ASSUME NEW r, Reg!RegisterLegal(r), NEW x, NEW y, x # y
  PROVE  Reg!Bits(r, x) \cap Reg!Bits(r, y) = {}
<1> SUFFICES ASSUME NEW b \in Reg!Bits(r, x), b \in Reg!Bits(r, y) PROVE FALSE
  OBVIOUS
<1>1. PICK f \in Range(r.fields) : f.access = x /\ b \in Reg!FieldBits(f)
  BY DEF Reg!Bits, Reg!Range, Range
<1>2. PICK g \in Range(r.fields) : g.access = y /\ b \in Reg!FieldBits(g)
  BY DEF Reg!Bits, Reg!Range, Range
<1>3. PICK i \in DOMAIN r.fields, j \in DOMAIN r.fields : f = r.fields[i] /\ g = r.fields[j] /\ i # j
  BY <1>1, <1>2 DEF Range
<1>4. Reg!FieldBits(f) \cap Reg!FieldBits(g) = {}
  BY <1>3 DEF Reg!RegisterLegal, Reg!Pairwise, Reg!Apart
<1> QED BY <1>1, <1>2, <1>4

\* A reset bit is a bit of a field that is RO or RW.
LEMMA ResetBits ==
  ASSUME NEW b, NEW r, r \in Range(b.registers), Reg!RegisterLegal(r),
         \A f \in Range(r.fields) : f.lsb \in Nat /\ f.width \in Nat /\ f.reset \subseteq Nat
  PROVE  Reg!Resolved(b, r).reset \subseteq Reg!Bits(r, "RO") \cup Reg!Bits(r, "RW")
<1> SUFFICES ASSUME NEW x \in Reg!Resolved(b, r).reset
             PROVE  x \in Reg!Bits(r, "RO") \cup Reg!Bits(r, "RW")
  OBVIOUS
<1>1. PICK f \in Range(r.fields) : \E n \in f.reset : x = f.lsb + n
  BY DEF Reg!Resolved, Reg!Range, Range
<1>2. PICK n \in f.reset : x = f.lsb + n
  BY <1>1
<1>3. Reg!FieldLegal(f)
  BY DEF Reg!RegisterLegal, Reg!Range, Range
<1>4. f.access \in {"RO", "RW"} /\ n < f.width /\ f.lsb \in Nat /\ f.width \in Nat /\ n \in Nat
  BY <1>3 DEF Reg!FieldLegal
<1>5. x \in Reg!FieldBits(f)
  BY <1>2, <1>4 DEF Reg!FieldBits
<1> QED BY <1>4, <1>5 DEF Reg!Bits, Reg!Range, Range

\* What elaborate() makes of a document it does not refuse.
LEMMA MapOfLegal ==
  ASSUME NEW doc, Parsed(doc), Reg!Legal(doc)
  PROVE  Mapped(Reg!elaborate(doc))
<1> DEFINE m == Reg!elaborate(doc)
<1>1. m = [i \in DOMAIN doc |->
             [base |-> doc[i].base, size |-> Window, implemented |-> doc[i].implemented,
              registers |-> [n \in DOMAIN doc[i].registers |->
                               Reg!Resolved(doc[i], doc[i].registers[n])]]]
  BY DEF Reg!elaborate
<1>2. DOMAIN doc = 1 .. Len(doc) /\ Len(doc) \in Nat /\ DOMAIN m = DOMAIN doc
  BY <1>1 DEF Parsed, IsList
<1>3. IsList(m)
  <2>1. m \in [1 .. Len(doc) -> Range(m)]
    BY <1>1, <1>2 DEF Range
  <2> QED BY <1>2, <2>1 DEF IsList
<1>4. ASSUME NEW j \in DOMAIN doc PROVE Placed(m[j])
  <2> DEFINE b == doc[j]
             regs == [n \in DOMAIN b.registers |-> Reg!Resolved(b, b.registers[n])]
  <2>1. /\ b.base \in Nat /\ b.implemented \in BOOLEAN /\ IsList(b.registers)
        /\ \A r \in Range(b.registers) :
             \A f \in Range(r.fields) : f.lsb \in Nat /\ f.width \in Nat /\ f.reset \subseteq Nat
    BY DEF Parsed, Range
  <2>2. Reg!BlockLegal(b)
    BY DEF Reg!Legal, Reg!Range
  <2>3. DOMAIN b.registers = 1 .. Len(b.registers) /\ Len(b.registers) \in Nat
    BY <2>1 DEF IsList
  <2>4. IsList(regs) /\ Len(regs) = Len(b.registers) /\ DOMAIN regs = DOMAIN b.registers
    <3>1. regs \in [1 .. Len(b.registers) -> Range(regs)]
      BY <2>3 DEF Range
    <3> QED BY <2>3, <3>1 DEF IsList
  <2>5. m[j] = [base |-> b.base, size |-> Window, implemented |-> b.implemented, registers |-> regs]
    BY <1>1
  <2>6. ASSUME NEW n \in DOMAIN b.registers
        PROVE  regs[n].address = b.base + 4 * (n - 1) /\ Masked(regs[n])
    <3> DEFINE r == b.registers[n]
    <3>1. r \in Range(b.registers) /\ Reg!RegisterLegal(r) /\ r.offset = 4 * (n - 1)
      BY <2>2 DEF Reg!BlockLegal, Range
    <3>2. regs[n] = Reg!Resolved(b, r)
      OBVIOUS
    <3> HIDE DEF r, regs
    <3>3. /\ Reg!Bits(r, "RWP") \cap Reg!Bits(r, "RW") = {} /\ Reg!Bits(r, "RWP") \cap Reg!Bits(r, "W1C") = {}
          /\ Reg!Bits(r, "RWP") \cap Reg!Bits(r, "RO") = {}
      BY <3>1, BitsApart
    <3>4. Reg!Resolved(b, r).reset \subseteq Reg!Bits(r, "RO") \cup Reg!Bits(r, "RW")
      BY <2>1, <3>1, ResetBits
    <3>5. /\ regs[n].address = b.base + r.offset /\ regs[n].wmask = Reg!Bits(r, "RW")
          /\ regs[n].w1c = Reg!Bits(r, "W1C") /\ regs[n].pulse = Reg!Bits(r, "RWP")
      BY <3>2 DEF Reg!Resolved
    <3> QED BY <3>1, <3>2, <3>3, <3>4, <3>5 DEF Masked
  <2> HIDE DEF regs
  <2>7. /\ b.base % Window = 0 /\ Len(b.registers) * 4 <= Window
        /\ b.implemented <=> b.registers # << >>
    BY <2>2 DEF Reg!BlockLegal
  <2>8. b.registers = << >> => regs = << >>
    BY <2>3, <2>4 DEF IsList
  <2>9. 4 * Len(regs) <= Window
    BY <2>3, <2>4, <2>7
  <2> QED BY <2>1, <2>4, <2>5, <2>6, <2>7, <2>8, <2>9 DEF Placed
<1>5. ASSUME NEW j \in DOMAIN doc, NEW l \in DOMAIN doc, j # l PROVE Spans(m[j], m[l])
  <2>1. Reg!Span(doc[j]) \cap Reg!Span(doc[l]) = {}
    BY <1>5 DEF Reg!Legal, Reg!Pairwise, Reg!Apart
  <2>2. doc[j].base \in Nat /\ doc[l].base \in Nat /\ Window \in Nat \ {0}
    BY PlaneAssumption DEF Parsed, Range
  <2>3. doc[j].base + Window <= doc[l].base \/ doc[l].base + Window <= doc[j].base
    BY <2>1, <2>2 DEF Reg!Span
  <2>4. m[j].base = doc[j].base /\ m[l].base = doc[l].base
    BY <1>1
  <2> QED BY <2>3, <2>4 DEF Spans
<1> QED BY <1>2, <1>3, <1>4, <1>5 DEF Mapped

\* The implemented blocks of a map keep their places, and are all there.
Listed(impl) ==
  /\ IsList(impl) /\ \A i \in DOMAIN impl : Placed(impl[i])
  /\ \A i, k \in DOMAIN impl : i # k => Spans(impl[i], impl[k])

\* The recursive function lists them, in the order of the document.
LEMMA ListedOfMap ==
  ASSUME NEW m, Mapped(m)
  PROVE  LET impl == Reg!Implemented(m)
         IN  /\ Listed(impl)
             /\ \A i \in DOMAIN impl : \E j \in DOMAIN m : m[j].implemented /\ impl[i] = m[j]
             /\ \A j \in DOMAIN m : m[j].implemented => \E i \in DOMAIN impl : impl[i] = m[j]
<1> DEFINE impl == Reg!Implemented(m)
<1>1. ListsFirst(impl, m, Len(m)) /\ DOMAIN m = 1 .. Len(m)
  BY ImplementedLists DEF Mapped, IsList
<1> HIDE DEF impl
<1>2. IsList(impl)
  BY <1>1 DEF ListsFirst, IsList, Range
<1>3. \A i \in DOMAIN impl : \E j \in DOMAIN m : m[j].implemented /\ impl[i] = m[j]
  BY <1>1 DEF ListsFirst
<1>4. \A j \in DOMAIN m : m[j].implemented => \E i \in DOMAIN impl : impl[i] = m[j]
  BY <1>1 DEF ListsFirst
<1>5. ASSUME NEW i \in DOMAIN impl, NEW k \in DOMAIN impl, i # k PROVE Spans(impl[i], impl[k])
  <2>1. PICK j \in DOMAIN m, l \in DOMAIN m : j # l /\ impl[i] = m[j] /\ impl[k] = m[l]
    BY <1>1, <1>5 DEF ListsFirst
  <2> QED BY <2>1 DEF Mapped
<1>6. Listed(impl)
  BY <1>2, <1>3, <1>5 DEF Listed, Mapped
<1> QED BY <1>3, <1>4, <1>6 DEF impl

-----------------------------------------------------------------------------
(* The decode.                                                             *)

\* An address is in a window exactly when its upper bits are the window's.
LEMMA UpperBits ==
  ASSUME NEW a \in Nat, NEW base \in Nat, base % Window = 0
  PROVE  /\ a \div Window = base \div Window <=> base <= a /\ a < base + Window
         /\ base <= a /\ a < base + Window => a % Window = a - base
<1>1. Window \in Nat \ {0}
  BY PlaneAssumption
<1> DEFINE k == base \div Window
           d == a \div Window
           e == a % Window
<1>2. k \in Int /\ base = (Window * k) + (base % Window)
  BY <1>1
<1>3. d \in Int /\ e \in Int /\ a = (Window * d) + e /\ 0 <= e /\ e < Window
  BY <1>1
<1> DEFINE p == Window * k
           q == Window * d
<1>4. p \in Int /\ q \in Int /\ base = p /\ a = q + e
  BY <1>1, <1>2, <1>3
<1>5. ASSUME d = k PROVE base <= a /\ a < base + Window /\ e = a - base
  BY <1>1, <1>3, <1>4, <1>5
<1>6. ASSUME d # k, base <= a, a < base + Window PROVE FALSE
  <2>1. CASE d >= k + 1
    <3>1. q >= p + Window
      BY <1>1, <1>2, <1>3, <2>1
    <3> QED BY <3>1, <1>1, <1>3, <1>4, <1>6
  <2>2. CASE k >= d + 1
    <3>1. p >= q + Window
      BY <1>1, <1>2, <1>3, <2>2
    <3> QED BY <3>1, <1>1, <1>3, <1>4, <1>6
  <2> QED BY <1>2, <1>3, <1>6, <2>1, <2>2
<1> QED BY <1>5, <1>6

\* A block starts at a word.
LEMMA BaseIsWord == ASSUME NEW base \in Nat, base % Window = 0 PROVE base % 4 = 0
<1>1. Window \in Nat \ {0} /\ Window % 4 = 0
  BY PlaneAssumption
<1> DEFINE k == base \div Window
           w == Window \div 4
<1>2. k \in Int /\ base = Window * k /\ w \in Int /\ Window = 4 * w
  BY <1>1
<1> HIDE DEF k, w
<1>3. base = 4 * (w * k) /\ w * k \in Int
  BY <1>2
<1> QED BY <1>3

\* The tables that the hardware and the software are built from are those of impl.
TablesOf(impl) ==
  /\ Reg!Blocks = DOMAIN impl
  /\ \A b \in DOMAIN impl :
       /\ Reg!N_REGS(b) = Len(impl[b].registers)
       /\ Reg!Slice(Reg!sv.IMPL_BASE, b - 1) = impl[b].base
       /\ \A i \in 0 .. Len(impl[b].registers) - 1 : Reg!Table(b, i) = impl[b].registers[i + 1]
  /\ Reg!hpp.kRegisters = [entry \in Reg!Rows(impl) |-> impl[entry[1]].registers[entry[2]]]

\* What a row names.
LEMMA RowsOf ==
  ASSUME NEW impl
  PROVE  /\ \A b \in DOMAIN impl : \A n \in DOMAIN impl[b].registers : <<b, n>> \in Reg!Rows(impl)
         /\ \A entry \in Reg!Rows(impl) : \E b \in DOMAIN impl : \E n \in DOMAIN impl[b].registers :
              entry = <<b, n>>
  BY DEF Reg!Rows

\* Where an address leads: no block, or one, and in it a register or none.
Leads(impl, a, b) == b \in DOMAIN impl /\ impl[b].base <= a /\ a < impl[b].base + Window

\* Two windows share no address.
LEMMA OneBlock ==
  ASSUME NEW impl, Listed(impl), NEW a \in Nat, NEW b, NEW c, Leads(impl, a, b), Leads(impl, a, c)
  PROVE  b = c
<1>1. Window \in Nat \ {0} /\ impl[b].base \in Nat /\ impl[c].base \in Nat
  BY PlaneAssumption DEF Listed, Leads, Placed
<1> QED BY <1>1 DEF Listed, Leads, Spans

\* The hardware's decode: hit and Index.
LEMMA HardwareDecodes ==
  ASSUME NEW impl, Listed(impl), TablesOf(impl), NEW r, r.address \in Nat
  PROVE  /\ \A b : b \in Reg!hit(r) <=> Leads(impl, r.address, b)
         /\ \A b : Leads(impl, r.address, b) /\ r.address % 4 = 0 =>
              /\ Reg!Index(r) \in Nat /\ r.address = impl[b].base + 4 * Reg!Index(r)
              /\ Reg!hit(r) = {b}
<1>1. ASSUME NEW b \in DOMAIN impl
      PROVE  /\ impl[b].base \in Nat /\ impl[b].base % Window = 0
             /\ Reg!Slice(Reg!sv.IMPL_BASE, b - 1) = impl[b].base
  BY DEF Listed, Placed, TablesOf
<1>2. ASSUME NEW b PROVE b \in Reg!hit(r) <=> Leads(impl, r.address, b)
  <2>1. b \in Reg!hit(r) <=>
          b \in DOMAIN impl /\ r.address \div Window = Reg!Slice(Reg!sv.IMPL_BASE, b - 1) \div Window
    BY DEF Reg!hit, TablesOf
  <2>2. CASE b \in DOMAIN impl
    <3>1. r.address \div Window = impl[b].base \div Window <=>
            impl[b].base <= r.address /\ r.address < impl[b].base + Window
      BY <1>1, <2>2, UpperBits
    <3> QED BY <1>1, <2>1, <2>2, <3>1 DEF Leads
  <2> QED BY <2>1, <2>2 DEF Leads
<1>3. ASSUME NEW b, Leads(impl, r.address, b), r.address % 4 = 0
      PROVE  /\ Reg!Index(r) \in Nat /\ r.address = impl[b].base + 4 * Reg!Index(r)
             /\ Reg!hit(r) = {b}
  <2> DEFINE a == r.address
             base == impl[b].base
  <2>1. base \in Nat /\ base % Window = 0 /\ base <= a /\ a < base + Window /\ a \in Nat
    BY <1>1, <1>3 DEF Leads
  <2>2. a % Window = a - base
    BY <2>1, UpperBits
  <2>3. base % 4 = 0
    BY <2>1, BaseIsWord
  <2>4. Reg!Index(r) = (a - base) \div 4
    BY <2>2 DEF Reg!Index
  <2>5. Reg!Index(r) \in Nat /\ a = base + 4 * Reg!Index(r)
    BY <2>1, <2>3, <2>4, <1>3
  <2>6. Reg!hit(r) = {b}
    BY <1>2, <1>3, OneBlock
  <2> QED BY <2>5, <2>6
<1> QED BY <1>2, <1>3

\* A row of the software's table is a register of the block that its address leads to.
LEMMA RowLeads ==
  ASSUME NEW impl, Listed(impl), TablesOf(impl), NEW a \in Nat,
         NEW entry \in DOMAIN Reg!hpp.kRegisters, Reg!hpp.kRegisters[entry].address = a
  PROVE  \E c, n : /\ entry = <<c, n>> /\ Leads(impl, a, c)
                   /\ n \in 1 .. Len(impl[c].registers) /\ a = impl[c].base + 4 * (n - 1)
<1>1. entry \in Reg!Rows(impl) /\ impl[entry[1]].registers[entry[2]].address = a
  BY DEF TablesOf
<1>2. PICK c \in DOMAIN impl : \E n \in DOMAIN impl[c].registers : entry = <<c, n>>
  BY <1>1, RowsOf
<1>3. PICK n \in DOMAIN impl[c].registers : entry = <<c, n>>
  BY <1>2
<1>4. impl[c].registers[n].address = a
  BY <1>1, <1>3
<1>5. Placed(impl[c]) /\ impl[c].registers[n].address = impl[c].base + 4 * (n - 1)
  BY DEF Listed, Placed
<1>6. /\ impl[c].base \in Nat /\ 4 * Len(impl[c].registers) <= Window
      /\ n \in 1 .. Len(impl[c].registers) /\ Len(impl[c].registers) \in Nat
      /\ a = impl[c].base + 4 * (n - 1)
  BY <1>4, <1>5 DEF Placed, IsList
<1>7. Leads(impl, a, c)
  <2> DEFINE base == impl[c].base
             size == Len(impl[c].registers)
  <2>1. base \in Nat /\ size \in Nat /\ Window \in Nat /\ n \in 1 .. size /\ 4 * size <= Window
    BY <1>6, PlaneAssumption
  <2>2. a = base + 4 * (n - 1)
    BY <1>6
  <2> HIDE DEF base, size
  <2>3. base <= a /\ a < base + Window
    BY <2>1, <2>2
  <2> QED BY <2>3 DEF Leads, base
<1> QED BY <1>3, <1>6, <1>7

\* The software's: the row that find() returns is the register the hardware decodes.
LEMMA SoftwareFinds ==
  ASSUME NEW impl, Listed(impl), TablesOf(impl), NEW a \in Nat, NEW b, Leads(impl, a, b),
         NEW i \in Nat, a = impl[b].base + 4 * i
  PROVE  Reg!Named(a) = IF i < Len(impl[b].registers) THEN <<b, i + 1>> ELSE Reg!NoRow
<1> DEFINE held == {entry \in DOMAIN Reg!hpp.kRegisters : Reg!hpp.kRegisters[entry].address = a}
           regs == impl[b].registers
<1>1. b \in DOMAIN impl /\ IsList(regs) /\ Len(regs) \in Nat /\ DOMAIN regs = 1 .. Len(regs)
  BY DEF Leads, Listed, Placed, IsList
<1>2. ASSUME NEW entry \in held PROVE entry = <<b, i + 1>> /\ i < Len(regs)
  <2>1. PICK c, n : /\ entry = <<c, n>> /\ Leads(impl, a, c)
                    /\ n \in 1 .. Len(impl[c].registers) /\ a = impl[c].base + 4 * (n - 1)
    BY RowLeads
  <2>2. c = b
    BY <2>1, OneBlock
  <2>3. impl[b].base \in Nat
    BY <1>1 DEF Listed, Placed
  <2>4. n = i + 1 /\ i < Len(regs)
    BY <1>1, <2>1, <2>2, <2>3
  <2> QED BY <2>1, <2>2, <2>4
<1>3. ASSUME i < Len(regs) PROVE <<b, i + 1>> \in held
  <2>1. i + 1 \in DOMAIN regs
    BY <1>1, <1>3
  <2>2. <<b, i + 1>> \in Reg!Rows(impl)
    BY <1>1, <2>1, RowsOf
  <2>3. regs[i + 1].address = a
    BY <1>1, <2>1 DEF Listed, Placed
  <2> QED BY <2>2, <2>3 DEF TablesOf
<1>4. Reg!Named(a) = IF held = {} THEN Reg!NoRow
                     ELSE CHOOSE entry \in held :
                            \A other \in held : \/ entry[1] < other[1]
                                                \/ (entry[1] = other[1] /\ entry[2] <= other[2])
  BY DEF Reg!Named, Reg!find
<1> HIDE DEF held, regs
<1>5. CASE i < Len(regs)
  <2>1. held = {<<b, i + 1>>}
    BY <1>2, <1>3, <1>5
  <2>2. \E entry \in held : \A other \in held : \/ entry[1] < other[1]
                                              \/ (entry[1] = other[1] /\ entry[2] <= other[2])
    BY <2>1
  <2>3. Reg!Named(a) \in held
    BY <1>4, <2>1, <2>2
  <2> QED BY <2>1, <2>3, <1>5 DEF regs
<1>6. CASE ~(i < Len(regs))
  BY <1>2, <1>4, <1>6 DEF regs
<1> QED BY <1>5, <1>6

\* An address that leads to no block has no row.
LEMMA SoftwareMisses ==
  ASSUME NEW impl, Listed(impl), TablesOf(impl), NEW a \in Nat, \A b : ~Leads(impl, a, b)
  PROVE  Reg!Named(a) = Reg!NoRow
<1>1. ASSUME NEW entry \in DOMAIN Reg!hpp.kRegisters, Reg!hpp.kRegisters[entry].address = a PROVE FALSE
  BY <1>1, RowLeads
<1> QED BY <1>1 DEF Reg!Named, Reg!find

-----------------------------------------------------------------------------
(* What the generator leaves.                                              *)

Map  == Reg!elaborate(source.doc)
Impl == Reg!Implemented(Map)
Generated ==
  /\ source.doc \in Sources /\ Reg!Legal(source.doc)
  /\ files = [sv |-> Reg!render_sv(Map), hpp |-> Reg!render_hpp(Map)]

\* A flat vector is read from its other end.
LEMMA SliceOfReverse ==
  ASSUME NEW q, IsList(q)
  PROVE  /\ Len(Reg!Reverse(q)) = Len(q)
         /\ \A i \in 0 .. Len(q) - 1 : Reg!Slice(Reg!Reverse(q), i) = q[i + 1]
<1>1. Len(q) \in Nat /\ DOMAIN q = 1 .. Len(q) /\ q \in [1 .. Len(q) -> Range(q)]
  BY DEF IsList
<1> DEFINE n == Len(q)
           p == [i \in 1 .. n |-> q[(n - i) + 1]]
<1>2. p \in [1 .. n -> Range(q)]
  <2>1. \A i \in 1 .. n : (n - i) + 1 \in 1 .. n
    BY <1>1
  <2> QED BY <1>1, <2>1
<1>3. p \in Seq(Range(q)) /\ Len(p) = n
  BY <1>1, <1>2
<1>4. ASSUME NEW i \in 0 .. n - 1 PROVE p[n - i] = q[i + 1]
  <2>1. n - i \in 1 .. n /\ (n - (n - i)) + 1 = i + 1
    BY <1>1
  <2> QED BY <2>1
<1>5. p = Reg!Reverse(q)
  BY DEF Reg!Reverse
<1> HIDE DEF p
<1> QED BY <1>3, <1>4, <1>5 DEF Reg!Slice

\* What both faces of an accepted document hold: its map, checked and resolved.
LEMMA GeneratedTables ==
  ASSUME Generated
  PROVE  /\ Mapped(Map) /\ Listed(Impl) /\ TablesOf(Impl)
         /\ \A i \in DOMAIN Impl : \E j \in DOMAIN Map : Map[j].implemented /\ Impl[i] = Map[j]
         /\ \A j \in DOMAIN Map : Map[j].implemented => \E i \in DOMAIN Impl : Impl[i] = Map[j]
         /\ Reg!hpp.kBlocks =
              [i \in DOMAIN Map |-> [base |-> Map[i].base, size |-> Map[i].size,
                                     implemented |-> Map[i].implemented,
                                     reg_count |-> Len(Map[i].registers)]]
<1>1. Mapped(Map)
  BY SourcesAssumption, MapOfLegal DEF Generated, Map
<1>2. /\ Listed(Impl)
      /\ \A i \in DOMAIN Impl : \E j \in DOMAIN Map : Map[j].implemented /\ Impl[i] = Map[j]
      /\ \A j \in DOMAIN Map : Map[j].implemented => \E i \in DOMAIN Impl : Impl[i] = Map[j]
  BY <1>1, ListedOfMap DEF Impl
<1>3. /\ Reg!sv.IMPL_BASE = Reg!Reverse([i \in DOMAIN Impl |-> Impl[i].base])
      /\ Reg!sv.tables = [i \in DOMAIN Impl |-> Reg!Reverse(Impl[i].registers)]
  BY DEF Generated, Reg!sv, Reg!render_sv, Reg!flat_table, Impl
<1>4. /\ Reg!hpp.kRegisters = [entry \in Reg!Rows(Impl) |-> Impl[entry[1]].registers[entry[2]]]
      /\ Reg!hpp.kBlocks =
              [i \in DOMAIN Map |-> [base |-> Map[i].base, size |-> Map[i].size,
                                     implemented |-> Map[i].implemented,
                                     reg_count |-> Len(Map[i].registers)]]
  BY DEF Generated, Reg!hpp, Reg!render_hpp, Impl
<1>5. Len(Impl) \in Nat /\ DOMAIN Impl = 1 .. Len(Impl)
  BY <1>2 DEF Listed, IsList
<1>6. ASSUME NEW b \in DOMAIN Impl
      PROVE  /\ Reg!N_REGS(b) = Len(Impl[b].registers)
             /\ \A i \in 0 .. Len(Impl[b].registers) - 1 : Reg!Table(b, i) = Impl[b].registers[i + 1]
  <2>1. IsList(Impl[b].registers)
    BY <1>2 DEF Listed, Placed
  <2>2. Reg!sv.tables[b] = Reg!Reverse(Impl[b].registers)
    BY <1>3
  <2> QED BY <2>1, <2>2, SliceOfReverse DEF Reg!N_REGS, Reg!Table
<1>7. ASSUME NEW b \in DOMAIN Impl PROVE Reg!Slice(Reg!sv.IMPL_BASE, b - 1) = Impl[b].base
  <2> DEFINE bases == [i \in DOMAIN Impl |-> Impl[i].base]
  <2>1. IsList(bases) /\ Len(bases) = Len(Impl) /\ bases[b] = Impl[b].base
    <3>1. bases \in [1 .. Len(Impl) -> Range(bases)]
      BY <1>5 DEF Range
    <3> QED BY <1>5, <3>1 DEF IsList
  <2>2. Reg!sv.IMPL_BASE = Reg!Reverse(bases)
    BY <1>3
  <2> HIDE DEF bases
  <2>3. b - 1 \in 0 .. Len(bases) - 1 /\ (b - 1) + 1 = b
    BY <1>5, <2>1
  <2> QED BY <2>1, <2>2, <2>3, SliceOfReverse
<1>8. Reg!Blocks = DOMAIN Impl
  BY <1>3 DEF Reg!Blocks
<1>9. TablesOf(Impl)
  BY <1>4, <1>6, <1>7, <1>8 DEF TablesOf
<1> QED BY <1>1, <1>2, <1>4, <1>9

\* The software's other question, address_mapped: one block of the map decides.
LEMMA MappedIsNamed ==
  ASSUME Generated, NEW a \in Nat, a % 4 = 0
  PROVE  Reg!address_mapped(Reg!hpp, a) <=> \E b : Leads(Impl, a, b) /\ a - Impl[b].base < 4 * Len(Impl[b].registers)
<1> DEFINE k(i) == Reg!hpp.kBlocks[i]
           holding == {i \in DOMAIN Reg!hpp.kBlocks :
                         k(i).implemented /\ a >= k(i).base /\ a < k(i).base + k(i).size}
<1>1. \A j \in DOMAIN Map : /\ Placed(Map[j]) /\ k(j).base = Map[j].base /\ k(j).size = Window
                            /\ k(j).implemented = Map[j].implemented
                            /\ k(j).reg_count = Len(Map[j].registers)
  BY GeneratedTables DEF Mapped, Placed
<1>2. DOMAIN Reg!hpp.kBlocks = DOMAIN Map
  BY GeneratedTables
<1>3. \A j \in holding : /\ j \in DOMAIN Map /\ Map[j].implemented
                         /\ Map[j].base <= a /\ a < Map[j].base + Window
  BY <1>1, <1>2
<1>4. \A j \in DOMAIN Map : Map[j].implemented /\ Map[j].base <= a /\ a < Map[j].base + Window =>
        j \in holding
  BY <1>1, <1>2
<1>5. \A i, j \in holding : i = j
  <2> SUFFICES ASSUME NEW i \in holding, NEW j \in holding, i # j PROVE FALSE
    OBVIOUS
  <2>1. Spans(Map[i], Map[j])
    BY <1>3, GeneratedTables DEF Mapped
  <2>2. Map[i].base \in Nat /\ Map[j].base \in Nat /\ Window \in Nat
    BY <1>1, <1>3, PlaneAssumption DEF Placed
  <2> HIDE DEF holding
  <2> QED BY <1>3, <2>1, <2>2 DEF Spans
<1>6. Reg!address_mapped(Reg!hpp, a) <=>
        \E i \in holding : (\A j \in holding : i <= j) /\ a - k(i).base < k(i).reg_count * 4
  BY DEF Reg!address_mapped
<1>7. \A i \in holding : i \in Nat
  BY <1>3, GeneratedTables DEF Mapped, IsList
<1> HIDE DEF holding
<1>8. Reg!address_mapped(Reg!hpp, a) <=> \E i \in holding : a - k(i).base < k(i).reg_count * 4
  BY <1>5, <1>6, <1>7
<1> HIDE DEF k
<1>9. ASSUME NEW i \in holding, a - k(i).base < k(i).reg_count * 4
      PROVE  \E b : Leads(Impl, a, b) /\ a - Impl[b].base < 4 * Len(Impl[b].registers)
  <2>1. i \in DOMAIN Map /\ Map[i].implemented
    BY <1>3
  <2>2. PICK b \in DOMAIN Impl : Impl[b] = Map[i]
    BY <2>1, GeneratedTables
  <2>3. Leads(Impl, a, b)
    BY <1>3, <2>2 DEF Leads
  <2>4. Len(Map[i].registers) \in Nat
    BY <1>1, <2>1 DEF Placed, IsList
  <2>5. a - Impl[b].base < 4 * Len(Impl[b].registers)
    BY <1>1, <1>9, <2>1, <2>2, <2>4
  <2> QED BY <2>3, <2>5
<1>10. ASSUME NEW b, Leads(Impl, a, b), a - Impl[b].base < 4 * Len(Impl[b].registers)
       PROVE  \E i \in holding : a - k(i).base < k(i).reg_count * 4
  <2>1. PICK i \in DOMAIN Map : Map[i].implemented /\ Impl[b] = Map[i]
    BY <1>10, GeneratedTables DEF Leads
  <2>2. i \in holding
    BY <1>4, <1>10, <2>1 DEF Leads
  <2>3. Len(Map[i].registers) \in Nat
    BY <1>1, <2>1 DEF Placed, IsList
  <2> QED BY <1>1, <1>10, <2>1, <2>2, <2>3
<1> QED BY <1>8, <1>9, <1>10

\* The instance's cardinality is that of the library.
LEMMA OneHasOne == ASSUME NEW x PROVE Reg!Cardinality({x}) = 1 /\ Reg!Cardinality({}) = 0
<1>1. \A S : Reg!Cardinality(S) = Cardinality(S)
  BY DEF Reg!Cardinality, Cardinality
<1> QED BY <1>1, FS_Singleton, FS_EmptySet

\* The two decoders agree on what the generator leaves.
LEMMA GeneratedAgree ==
  ASSUME Generated, NEW a \in Nat, a % 4 = 0
  PROVE  LET in_hw == {b \in Reg!hit(Reg!Decoded(a)) : Reg!Index(Reg!Decoded(a)) < Reg!N_REGS(b)}
         IN  /\ Reg!address_mapped(Reg!hpp, a) <=> Reg!Named(a) # Reg!NoRow
             /\ Reg!Named(a) # Reg!NoRow =>
                  Reg!hpp.kRegisters[Reg!Named(a)] \in {Reg!Table(b, Reg!Index(Reg!Decoded(a))) : b \in in_hw}
             /\ Reg!Cardinality(in_hw) = IF Reg!Named(a) # Reg!NoRow THEN 1 ELSE 0
<1> DEFINE r == Reg!Decoded(a)
           in_hw == {b \in Reg!hit(r) : Reg!Index(r) < Reg!N_REGS(b)}
<1>1. r.address = a
  BY DEF Reg!Decoded, Reg!Nothing
<1>2. Listed(Impl) /\ TablesOf(Impl)
  BY GeneratedTables
<1> HIDE DEF r
<1>3. CASE \A b : ~Leads(Impl, a, b)
  <2>1. Reg!hit(r) = {} /\ Reg!Named(a) = Reg!NoRow
    BY <1>1, <1>2, <1>3, HardwareDecodes, SoftwareMisses
  <2>2. ~Reg!address_mapped(Reg!hpp, a)
    BY <1>3, MappedIsNamed
  <2>3. in_hw = {}
    BY <2>1
  <2> QED BY <2>1, <2>2, <2>3, OneHasOne DEF r
<1>4. ASSUME NEW b, Leads(Impl, a, b)
      PROVE  /\ Reg!address_mapped(Reg!hpp, a) <=> Reg!Named(a) # Reg!NoRow
             /\ Reg!Named(a) # Reg!NoRow =>
                  Reg!hpp.kRegisters[Reg!Named(a)] \in {Reg!Table(c, Reg!Index(r)) : c \in in_hw}
             /\ Reg!Cardinality(in_hw) = IF Reg!Named(a) # Reg!NoRow THEN 1 ELSE 0
  <2> DEFINE i == Reg!Index(r)
             size == Len(Impl[b].registers)
  <2>1. i \in Nat /\ a = Impl[b].base + 4 * i /\ Reg!hit(r) = {b} /\ b \in DOMAIN Impl
    BY <1>1, <1>2, <1>4, HardwareDecodes DEF Leads
  <2>2. Impl[b].base \in Nat /\ size \in Nat /\ Reg!N_REGS(b) = size
    BY <1>2, <2>1 DEF Listed, Placed, IsList, TablesOf
  <2> HIDE DEF i
  <2>3. Reg!Named(a) = IF i < size THEN <<b, i + 1>> ELSE Reg!NoRow
    BY <1>2, <1>4, <2>1, SoftwareFinds
  <2>4. <<b, i + 1>> # Reg!NoRow
    BY DEF Reg!NoRow
  <2>5. Reg!address_mapped(Reg!hpp, a) <=> i < size
    <3>1. \A c : Leads(Impl, a, c) => c = b
      BY <1>2, <1>4, OneBlock
    <3>2. a - Impl[b].base < 4 * size <=> i < size
      BY <2>1, <2>2
    <3> QED BY <1>4, <3>1, <3>2, MappedIsNamed
  <2>6. CASE i < size
    <3>1. in_hw = {b}
      BY <2>1, <2>2, <2>6 DEF i
    <3>2. i \in 0 .. size - 1 /\ i + 1 \in DOMAIN Impl[b].registers
      BY <1>2, <2>1, <2>2, <2>6 DEF Listed, Placed, IsList
    <3>3. Reg!Table(b, i) = Impl[b].registers[i + 1]
      BY <1>2, <2>1, <3>2 DEF TablesOf
    <3>4. Reg!hpp.kRegisters[<<b, i + 1>>] = Impl[b].registers[i + 1]
      BY <1>2, <2>1, <3>2, RowsOf DEF TablesOf
    <3> HIDE DEF in_hw
    <3> QED BY <2>3, <2>4, <2>5, <2>6, <3>1, <3>3, <3>4, OneHasOne DEF i
  <2>7. CASE ~(i < size)
    <3>1. in_hw = {}
      BY <2>1, <2>2, <2>7 DEF i
    <3> HIDE DEF in_hw
    <3> QED BY <2>3, <2>5, <2>7, <3>1, OneHasOne
  <2> QED BY <2>6, <2>7
<1> QED BY <1>3, <1>4 DEF r

-----------------------------------------------------------------------------
(* The plane.                                                              *)

\* The hardware's storage of a block that answers is the software's, and no pulse is stored.
StorageInv ==
  /\ DOMAIN blocks = Reg!Blocks /\ DOMAIN shadow = DOMAIN Reg!hpp.kRegisters
  /\ \A b \in Reg!Blocks : DOMAIN blocks[b].q = 0 .. Reg!N_REGS(b) - 1
  /\ \A entry \in DOMAIN Reg!hpp.kRegisters :
       /\ shadow[entry] \cap Reg!hpp.kRegisters[entry].pulse = {}
       /\ entry[1] \notin source.dead => blocks[entry[1]].q[entry[2] - 1] = shadow[entry]

Refusal == [ready |-> TRUE, error |-> TRUE, data |-> {}]

\* What is coming is what was predicted: an error of the fabric's own, the silence of a dead
\* block until the watchdog, or a block's registered response.
ReplyInv ==
  \/ fabric.sel = {} /\ fabric.err /\ expected = Refusal
  \/ \E b \in Reg!Blocks \cap source.dead :
       fabric.sel = {b} /\ ~fabric.err /\ blocks[b].rsp = Reg!Silent /\ expected = Refusal
  \/ \E b \in Reg!Blocks \ source.dead :
       /\ fabric.sel = {b} /\ ~fabric.err /\ fabric.wd = 0
       /\ blocks[b].rsp.ready /\ blocks[b].rsp.error \in BOOLEAN
       /\ expected = [ready |-> TRUE, error |-> blocks[b].rsp.error,
                      data |-> IF fabric.read /\ ~blocks[b].rsp.error THEN blocks[b].rsp.data ELSE {}]

PlaneInv ==
  /\ source \in [doc : Sources, dead : SUBSET {1}, state : {"read", "built", "rejected"}]
  /\ DOMAIN fabric = {"busy", "sel", "err", "read", "wd"}
  /\ source.state = "built" => Generated /\ StorageInv
  /\ source.state # "built" => ~fabric.busy /\ answer = Reg!Silent
  /\ fabric.busy => answer = Reg!Silent /\ ReplyInv
  /\ answer.ready => answer = expected

\* What RegModel stores for a write.
Wrote(q, t, be, data) ==
  (((q \ (t.wmask \cap be)) \cup (data \cap t.wmask \cap be)) \ (data \cap t.w1c \cap be)) \ t.pulse

\* One register's bits after a cycle: the order of the masks in the hardware and in the
\* software makes no difference, as no pulse is sticky or storage.
LEMMA OneStorage ==
  ASSUME NEW q, NEW t, NEW be, NEW data, NEW set, Masked(t), q \cap t.pulse = {}
  PROVE  /\ Reg!NextStorage(q, t, be, data, set) = Wrote(q, t, be, data) \cup (set \cap t.w1c)
         /\ Reg!NextStorage(q, t, {}, data, set) = q \cup (set \cap t.w1c)
         /\ (Wrote(q, t, be, data) \cup (set \cap t.w1c)) \cap t.pulse = {}
         /\ (q \cup (set \cap t.w1c)) \cap t.pulse = {}
<1>1. t.pulse \cap t.w1c = {} /\ t.pulse \cap t.wmask = {}
  BY DEF Masked
<1> QED BY <1>1 DEF Reg!NextStorage, Wrote

\* The registers of the map, by row.
LEMMA RowsArePlaced ==
  ASSUME NEW impl, Listed(impl), TablesOf(impl), NEW entry \in DOMAIN Reg!hpp.kRegisters
  PROVE  \E b \in DOMAIN impl : \E i \in 0 .. Len(impl[b].registers) - 1 :
           /\ entry = <<b, i + 1>> /\ i \in 0 .. Reg!N_REGS(b) - 1 /\ b \in Reg!Blocks
           /\ Reg!hpp.kRegisters[entry] = Reg!Table(b, i) /\ Masked(Reg!Table(b, i))
<1>1. entry \in Reg!Rows(impl) /\ Reg!hpp.kRegisters[entry] = impl[entry[1]].registers[entry[2]]
  BY DEF TablesOf
<1>2. PICK b \in DOMAIN impl : \E n \in DOMAIN impl[b].registers : entry = <<b, n>>
  BY <1>1, RowsOf
<1>3. PICK n \in DOMAIN impl[b].registers : entry = <<b, n>>
  BY <1>2
<1>4. Placed(impl[b]) /\ Masked(impl[b].registers[n])
  BY DEF Listed, Placed
<1>5. Len(impl[b].registers) \in Nat /\ n \in 1 .. Len(impl[b].registers)
  BY <1>4 DEF Placed, IsList
<1>6. n - 1 \in 0 .. Len(impl[b].registers) - 1 /\ (n - 1) + 1 = n
  BY <1>5
<1>7. Reg!Table(b, n - 1) = impl[b].registers[n]
  BY <1>6 DEF TablesOf
<1>8. Reg!hpp.kRegisters[entry] = impl[b].registers[n]
  BY <1>1, <1>3
<1>9. Reg!N_REGS(b) = Len(impl[b].registers) /\ b \in Reg!Blocks
  BY DEF TablesOf
<1> QED BY <1>3, <1>4, <1>6, <1>7, <1>8, <1>9

\* A row is written by the hardware in the cycle in which the software writes it.
Writes(sel, r, entry) ==
  /\ entry[1] \in sel /\ r.we /\ entry[2] - 1 = Reg!Index(r)
  /\ Reg!Writable(Reg!hpp.kRegisters[entry]) # {}
Predicts(r, entry) == ~Reg!Refused(r) /\ r.we /\ entry = Reg!Named(r.address)

\* A cycle of the blocks beside the software's.
LEMMA StorageKeeps ==
  ASSUME PlaneInv, source.state = "built", NEW sel, NEW r, NEW event,
         Reg!Clocked(sel, r, event), Reg!Shadowed(r, event), UNCHANGED <<source, files>>,
         \A entry \in DOMAIN Reg!hpp.kRegisters :
           entry[1] \notin source.dead => (Writes(sel, r, entry) <=> Predicts(r, entry))
  PROVE  StorageInv'
<1>1. Generated /\ StorageInv
  BY DEF PlaneInv
<1>2. Listed(Impl) /\ TablesOf(Impl)
  BY <1>1, GeneratedTables
<1>3. Reg!Blocks' = Reg!Blocks /\ Reg!hpp' = Reg!hpp /\ Reg!sv' = Reg!sv
  BY DEF Reg!Blocks, Reg!hpp, Reg!sv
<1>4. blocks' = [b \in Reg!Blocks |-> Reg!BlockCycle(b, b \in sel \ source.dead, r, event)]
  BY DEF Reg!Clocked
<1>5. shadow' = [entry \in DOMAIN shadow |-> Reg!Stored(entry, r, event)]
  BY DEF Reg!Shadowed
<1>6. \A b \in Reg!Blocks : Reg!N_REGS(b)' = Reg!N_REGS(b)
  BY <1>3 DEF Reg!N_REGS
<1>7. ASSUME NEW b \in Reg!Blocks
      PROVE  DOMAIN blocks'[b].q = 0 .. Reg!N_REGS(b)' - 1
  <2>1. DOMAIN blocks'[b].q = DOMAIN blocks[b].q
    BY <1>4 DEF Reg!BlockCycle
  <2> QED BY <1>1, <1>6, <2>1 DEF StorageInv
<1>8. ASSUME NEW entry \in DOMAIN Reg!hpp.kRegisters
      PROVE  /\ shadow'[entry] \cap Reg!hpp.kRegisters[entry].pulse = {}
             /\ entry[1] \notin source.dead => blocks'[entry[1]].q[entry[2] - 1] = shadow'[entry]
  <2>1. PICK b \in DOMAIN Impl : \E i \in 0 .. Len(Impl[b].registers) - 1 :
           /\ entry = <<b, i + 1>> /\ i \in 0 .. Reg!N_REGS(b) - 1 /\ b \in Reg!Blocks
           /\ Reg!hpp.kRegisters[entry] = Reg!Table(b, i) /\ Masked(Reg!Table(b, i))
    BY <1>2, RowsArePlaced
  <2>2. PICK i \in 0 .. Len(Impl[b].registers) - 1 :
           /\ entry = <<b, i + 1>> /\ i \in 0 .. Reg!N_REGS(b) - 1 /\ b \in Reg!Blocks
           /\ Reg!hpp.kRegisters[entry] = Reg!Table(b, i) /\ Masked(Reg!Table(b, i))
    BY <2>1
  <2> DEFINE t == Reg!Table(b, i)
             set == IF event.at = t.address THEN event.set ELSE {}
             wrote == Wrote(shadow[entry], t, r.be, r.data)
             here == b \in sel \ source.dead /\ r.we /\ i = Reg!Index(r) /\ Reg!Writable(t) # {}
  <2>3. shadow[entry] \cap t.pulse = {} /\ entry \in DOMAIN shadow
    BY <1>1, <2>2 DEF StorageInv
  <2>4. shadow'[entry] = (IF Predicts(r, entry) THEN wrote ELSE shadow[entry]) \cup (set \cap t.w1c)
    <3>1. shadow'[entry] = Reg!Stored(entry, r, event)
      BY <1>5, <2>3
    <3>2. Reg!hpp.kRegisters[entry] = t
      BY <2>2
    <3>3. (IF event.at = t.address THEN event.set \cap t.w1c ELSE {}) = set \cap t.w1c
      OBVIOUS
    <3>4. Reg!apply_write(entry, r) = wrote
      BY <3>2 DEF Reg!apply_write, Wrote
    <3> HIDE DEF wrote, set, t
    <3> QED BY <3>1, <3>2, <3>3, <3>4 DEF Reg!Stored, Predicts
  <2>5. entry[1] = b /\ entry[2] - 1 = i
    BY <2>2
  <2>6. ASSUME b \notin source.dead
        PROVE  /\ blocks'[b].q[i] = Reg!NextStorage(shadow[entry], t, IF here THEN r.be ELSE {}, r.data, set)
               /\ here <=> Predicts(r, entry)
    <3>1. i \in DOMAIN blocks[b].q /\ blocks[b].q[i] = shadow[entry]
      BY <1>1, <2>2, <2>5, <2>6 DEF StorageInv
    <3>2. blocks'[b] = Reg!BlockCycle(b, b \in sel \ source.dead, r, event)
      BY <1>4, <2>2
    <3>3. blocks'[b].q[i] = Reg!NextStorage(blocks[b].q[i], t, IF here THEN r.be ELSE {}, r.data, set)
      BY <3>1, <3>2 DEF Reg!BlockCycle
    <3>4. here <=> Writes(sel, r, entry)
      BY <2>2, <2>5, <2>6 DEF Writes
    <3> QED BY <3>1, <3>3, <3>4, <2>5, <2>6
  <2> HIDE DEF here
  <2>7. /\ Reg!NextStorage(shadow[entry], t, r.be, r.data, set) = wrote \cup (set \cap t.w1c)
        /\ Reg!NextStorage(shadow[entry], t, {}, r.data, set) = shadow[entry] \cup (set \cap t.w1c)
        /\ (wrote \cup (set \cap t.w1c)) \cap t.pulse = {}
        /\ (shadow[entry] \cup (set \cap t.w1c)) \cap t.pulse = {}
    BY <2>2, <2>3, OneStorage
  <2> HIDE DEF set, wrote, t
  <2>8. shadow'[entry] \cap t.pulse = {}
    BY <2>4, <2>7
  <2>9. b \notin source.dead => blocks'[b].q[i] = shadow'[entry]
    BY <2>4, <2>6, <2>7
  <2> QED BY <2>2, <2>5, <2>8, <2>9 DEF t
<1>9. DOMAIN blocks' = Reg!Blocks' /\ DOMAIN shadow' = DOMAIN Reg!hpp.kRegisters'
  BY <1>1, <1>3, <1>4, <1>5 DEF StorageInv
<1> QED BY <1>3, <1>7, <1>8, <1>9 DEF StorageInv

\* A reset hardware and a reset model hold the same.
Reset ==
  /\ blocks = [b \in Reg!Blocks |->
                 [q |-> [i \in 0 .. Reg!N_REGS(b) - 1 |-> Reg!Table(b, i).reset], rsp |-> Reg!Silent]]
  /\ shadow = [n \in DOMAIN Reg!hpp.kRegisters |-> Reg!hpp.kRegisters[n].reset]

\* No register's reset value sets a pulse bit: only RO and RW fields have one.
LEMMA ResetStorage == Generated /\ Reset => StorageInv
<1> SUFFICES ASSUME Generated, Reset PROVE StorageInv
  OBVIOUS
<1>1. Listed(Impl) /\ TablesOf(Impl)
  BY GeneratedTables
<1>2. ASSUME NEW entry \in DOMAIN Reg!hpp.kRegisters
      PROVE  /\ shadow[entry] \cap Reg!hpp.kRegisters[entry].pulse = {}
             /\ blocks[entry[1]].q[entry[2] - 1] = shadow[entry]
  <2>1. PICK b \in DOMAIN Impl : \E i \in 0 .. Len(Impl[b].registers) - 1 :
           /\ entry = <<b, i + 1>> /\ i \in 0 .. Reg!N_REGS(b) - 1 /\ b \in Reg!Blocks
           /\ Reg!hpp.kRegisters[entry] = Reg!Table(b, i) /\ Masked(Reg!Table(b, i))
    BY <1>1, RowsArePlaced
  <2>2. PICK i \in 0 .. Len(Impl[b].registers) - 1 :
           /\ entry = <<b, i + 1>> /\ i \in 0 .. Reg!N_REGS(b) - 1 /\ b \in Reg!Blocks
           /\ Reg!hpp.kRegisters[entry] = Reg!Table(b, i) /\ Masked(Reg!Table(b, i))
    BY <2>1
  <2>3. shadow[entry] = Reg!Table(b, i).reset /\ blocks[b].q[i] = Reg!Table(b, i).reset
    BY <2>2 DEF Reset
  <2>4. entry[1] = b /\ entry[2] - 1 = i
    BY <2>2
  <2>5. Reg!Table(b, i).reset \cap Reg!Table(b, i).pulse = {}
    BY <2>2 DEF Masked
  <2> QED BY <2>2, <2>3, <2>4, <2>5
<1>3. \A b \in Reg!Blocks : DOMAIN blocks[b].q = 0 .. Reg!N_REGS(b) - 1
  BY DEF Reset
<1> QED BY <1>2, <1>3 DEF StorageInv, Reset

\* The generator runs, on a document it takes or refuses.
LEMMA GenerateKeeps == ASSUME PlaneInv, Reg!Generate PROVE PlaneInv'
<1>1. /\ source.doc \in Sources /\ ~fabric.busy /\ answer = Reg!Silent
      /\ UNCHANGED <<fabric, port, expected, answer>>
      /\ source' = [source EXCEPT !.state = IF Reg!Legal(source.doc) THEN "built" ELSE "rejected"]
  BY DEF PlaneInv, Reg!Generate
<1>2. source'.doc = source.doc
  BY <1>1
<1>3. source'.state = "built" => Reg!Legal(source.doc)
  BY <1>1 DEF PlaneInv
<1>4. source' \in [doc : Sources, dead : SUBSET {1}, state : {"read", "built", "rejected"}]
  BY <1>1 DEF PlaneInv
<1>5. ASSUME Reg!Legal(source.doc) PROVE Generated' /\ StorageInv'
  <2>1. files' = [sv |-> Reg!render_sv(Map), hpp |-> Reg!render_hpp(Map)]
    BY <1>5 DEF Reg!Generate, Map
  <2>2. Generated'
    BY <1>1, <1>2, <1>5, <2>1 DEF Generated, Map
  <2>3. Reset'
    BY <1>5 DEF Reg!Generate, Reset
  <2>4. Generated' /\ Reset' => StorageInv'
    BY ResetStorage, PTL
  <2> QED BY <2>2, <2>3, <2>4
<1>6. answer'.ready = FALSE
  BY <1>1 DEF Reg!Silent
<1> QED BY <1>1, <1>2, <1>3, <1>4, <1>5, <1>6 DEF PlaneInv

\* Where a request goes, in the hardware and in the software's model.
LEMMA Routes ==
  ASSUME Generated, NEW r, r.address \in Nat
  PROVE  \/ Reg!Routed(r) = {} /\ Reg!Refused(r)
         \/ \E b \in Reg!Blocks :
              /\ Reg!Routed(r) = {b} /\ ~Reg!reg_req_malformed(r) /\ Reg!Index(r) \in Nat
              /\ IF Reg!Index(r) < Reg!N_REGS(b)
                 THEN /\ Reg!Named(r.address) = <<b, Reg!Index(r) + 1>> /\ Reg!Named(r.address) # Reg!NoRow
                      /\ Reg!Named(r.address) \in DOMAIN Reg!hpp.kRegisters
                      /\ Reg!hpp.kRegisters[Reg!Named(r.address)] = Reg!Table(b, Reg!Index(r))
                 ELSE Reg!Named(r.address) = Reg!NoRow
<1>1. Listed(Impl) /\ TablesOf(Impl)
  BY GeneratedTables
<1>2. CASE Reg!reg_req_malformed(r)
  BY <1>2 DEF Reg!Routed, Reg!Refused
<1>3. CASE ~Reg!reg_req_malformed(r) /\ \A b : ~Leads(Impl, r.address, b)
  <2>1. Reg!hit(r) = {} /\ Reg!Named(r.address) = Reg!NoRow
    BY <1>1, <1>3, HardwareDecodes, SoftwareMisses
  <2> QED BY <2>1 DEF Reg!Routed, Reg!Refused
<1>4. ASSUME ~Reg!reg_req_malformed(r), NEW b, Leads(Impl, r.address, b)
      PROVE  /\ b \in Reg!Blocks
             /\ Reg!Routed(r) = {b} /\ ~Reg!reg_req_malformed(r) /\ Reg!Index(r) \in Nat
             /\ IF Reg!Index(r) < Reg!N_REGS(b)
                THEN /\ Reg!Named(r.address) = <<b, Reg!Index(r) + 1>> /\ Reg!Named(r.address) # Reg!NoRow
                     /\ Reg!Named(r.address) \in DOMAIN Reg!hpp.kRegisters
                     /\ Reg!hpp.kRegisters[Reg!Named(r.address)] = Reg!Table(b, Reg!Index(r))
                ELSE Reg!Named(r.address) = Reg!NoRow
  <2> DEFINE i == Reg!Index(r)
             size == Len(Impl[b].registers)
  <2>1. r.address % 4 = 0
    BY <1>4 DEF Reg!reg_req_malformed
  <2>2. i \in Nat /\ r.address = Impl[b].base + 4 * i /\ Reg!hit(r) = {b} /\ b \in DOMAIN Impl
    BY <1>1, <1>4, <2>1, HardwareDecodes DEF Leads
  <2>3. size \in Nat /\ Reg!N_REGS(b) = size /\ b \in Reg!Blocks
    BY <1>1, <2>2 DEF Listed, Placed, IsList, TablesOf
  <2>4. Reg!Routed(r) = {b}
    BY <1>4, <2>2 DEF Reg!Routed
  <2> HIDE DEF i
  <2>5. Reg!Named(r.address) = IF i < size THEN <<b, i + 1>> ELSE Reg!NoRow
    BY <1>1, <1>4, <2>2, SoftwareFinds
  <2>6. <<b, i + 1>> # Reg!NoRow
    BY DEF Reg!NoRow
  <2>7. ASSUME i < size
        PROVE  /\ <<b, i + 1>> \in DOMAIN Reg!hpp.kRegisters
               /\ Reg!hpp.kRegisters[<<b, i + 1>>] = Reg!Table(b, i)
    <3>1. i \in 0 .. size - 1 /\ i + 1 \in DOMAIN Impl[b].registers
      BY <1>1, <2>2, <2>3, <2>7 DEF Listed, Placed, IsList
    <3>2. Reg!Table(b, i) = Impl[b].registers[i + 1]
      BY <1>1, <2>2, <3>1 DEF TablesOf
    <3> QED BY <1>1, <2>2, <3>1, <3>2, RowsOf DEF TablesOf
  <2> QED BY <1>4, <2>2, <2>3, <2>4, <2>5, <2>6, <2>7 DEF i
<1> QED BY <1>2, <1>3, <1>4

\* A request that is accepted writes the same register on both sides, or none.
LEMMA WritesArePredicted ==
  ASSUME Generated, NEW r, r.address \in Nat, NEW entry \in DOMAIN Reg!hpp.kRegisters
  PROVE  Writes(Reg!Routed(r), r, entry) <=> Predicts(r, entry)
<1>1. Listed(Impl) /\ TablesOf(Impl)
  BY GeneratedTables
<1>2. PICK c \in DOMAIN Impl : \E i \in 0 .. Len(Impl[c].registers) - 1 :
         entry = <<c, i + 1>> /\ i \in 0 .. Reg!N_REGS(c) - 1
  BY <1>1, RowsArePlaced
<1>3. PICK i \in 0 .. Len(Impl[c].registers) - 1 : entry = <<c, i + 1>> /\ i \in 0 .. Reg!N_REGS(c) - 1
  BY <1>2
<1>4. CASE Reg!Routed(r) = {} /\ Reg!Refused(r)
  BY <1>4 DEF Writes, Predicts
<1>5. ASSUME NEW b \in Reg!Blocks,
             Reg!Routed(r) = {b}, ~Reg!reg_req_malformed(r), Reg!Index(r) \in Nat,
             IF Reg!Index(r) < Reg!N_REGS(b)
             THEN Reg!Named(r.address) = <<b, Reg!Index(r) + 1>> /\ Reg!Named(r.address) # Reg!NoRow
             ELSE Reg!Named(r.address) = Reg!NoRow
      PROVE  Writes(Reg!Routed(r), r, entry) <=> Predicts(r, entry)
  <2>1. entry[1] = c /\ entry[2] - 1 = i /\ Len(Impl[c].registers) \in Nat /\ i \in Nat
        /\ i < Reg!N_REGS(c)
    <3>1. Reg!N_REGS(c) = Len(Impl[c].registers) /\ Len(Impl[c].registers) \in Nat
      BY <1>1 DEF TablesOf, Listed, Placed, IsList
    <3> QED BY <1>3, <3>1
  <2>2. entry[1] = b /\ entry[2] - 1 = Reg!Index(r) <=> entry = Reg!Named(r.address)
    <3>1. ASSUME c = b, i = Reg!Index(r) PROVE entry = Reg!Named(r.address)
      BY <1>3, <1>5, <2>1, <3>1
    <3>2. ASSUME entry = Reg!Named(r.address) PROVE c = b /\ i = Reg!Index(r)
      <4>1. <<c, i + 1>> # Reg!NoRow
        BY DEF Reg!NoRow
      <4>2. Reg!Named(r.address) # Reg!NoRow
        BY <1>3, <3>2, <4>1
      <4>3. <<c, i + 1>> = <<b, Reg!Index(r) + 1>>
        BY <1>3, <1>5, <3>2, <4>2
      <4> QED BY <1>5, <2>1, <4>3
    <3> QED BY <2>1, <3>1, <3>2
  <2>3. entry = Reg!Named(r.address) =>
          (Reg!Refused(r) <=> r.we /\ Reg!Writable(Reg!hpp.kRegisters[entry]) = {})
    <3>1. entry # Reg!NoRow
      BY <1>3 DEF Reg!NoRow
    <3> QED BY <1>5, <3>1 DEF Reg!Refused
  <2> QED BY <1>5, <2>2, <2>3 DEF Writes, Predicts
<1> QED BY <1>4, <1>5, Routes

\* A predicted response, corrected for a block that is dead.
LEMMA Corrected ==
  ASSUME NEW p \in BOOLEAN, NEW lost \in BOOLEAN, NEW d
  PROVE  [[ready |-> TRUE, error |-> p, data |-> d]
            EXCEPT !.error = @ \/ lost, !.data = IF ~lost THEN @ ELSE {}]
         = [ready |-> TRUE, error |-> p \/ lost, data |-> IF ~lost THEN d ELSE {}]
<1>1. ASSUME NEW e, NEW f
      PROVE  [[ready |-> TRUE, error |-> p, data |-> d] EXCEPT !.error = e, !.data = f]
             = [ready |-> TRUE, error |-> e, data |-> f]
  <2>1. \A x : [x EXCEPT !.error = e, !.data = f] = [[x EXCEPT !.error = e] EXCEPT !.data = f]
    OBVIOUS
  <2>2. \A t : [[ready |-> t, error |-> p, data |-> d] EXCEPT !.error = e]
               = [ready |-> t, error |-> e, data |-> d]
    OBVIOUS
  <2>3. \A t : [[ready |-> t, error |-> e, data |-> d] EXCEPT !.data = f]
               = [ready |-> t, error |-> e, data |-> f]
    OBVIOUS
  <2> QED BY <2>1, <2>2, <2>3
<1> DEFINE X == [ready |-> TRUE, error |-> p, data |-> d]
           e == X.error \/ lost
           f == IF ~lost THEN X.data ELSE {}
<1>2. (e <=> p \/ lost) /\ f = IF ~lost THEN d ELSE {}
  OBVIOUS
<1>3. e = (p \/ lost)
  BY <1>2
<1> HIDE DEF e, f
<1>4. [X EXCEPT !.error = e, !.data = f] = [ready |-> TRUE, error |-> e, data |-> f]
  BY <1>1
<1>5. [ready |-> TRUE, error |-> e, data |-> f]
      = [ready |-> TRUE, error |-> p \/ lost, data |-> IF ~lost THEN d ELSE {}]
  BY <1>2, <1>3
<1>6. [X EXCEPT !.error = e, !.data = f]
      = [ready |-> TRUE, error |-> p \/ lost, data |-> IF ~lost THEN d ELSE {}]
  BY <1>4, <1>5
<1> QED BY <1>6 DEF e, f

\* What the software's model is asked is answered by its tables, in every branch.
LEMMA AcceptKeeps ==
  ASSUME PlaneInv, NEW r \in Reg!Requests, NEW event, Reg!Accept(r, event) PROVE PlaneInv'
<1>1. /\ source.state = "built" /\ UNCHANGED <<source, files>>
      /\ fabric' = [busy |-> TRUE, sel |-> Reg!Routed(r), err |-> Reg!Routed(r) = {},
                    read |-> r.re /\ ~Reg!reg_req_malformed(r), wd |-> 0]
      /\ Reg!Clocked(Reg!Routed(r), r, event) /\ Reg!Shadowed(r, event)
      /\ answer' = Reg!Silent
  BY DEF Reg!Accept, Reg!NoAnswer
<1>2. r.address \in Nat
  BY PlaneAssumption DEF Reg!Requests
<1>3. Generated /\ StorageInv
  BY <1>1 DEF PlaneInv
<1>4. Generated' /\ Reg!Blocks' = Reg!Blocks
  BY <1>1, <1>3 DEF Generated, Map, Reg!Blocks, Reg!sv
<1>5. StorageInv'
  BY <1>1, <1>2, <1>3, StorageKeeps, WritesArePredicted
<1> DEFINE refused == Reg!Refused(r)
           lost    == Reg!Routed(r) \cap source.dead # {}
           value   == Reg!read_value(Reg!Named(r.address), event)
<1>6. expected' = [ready |-> TRUE, error |-> refused \/ lost,
                   data |-> IF ~lost /\ ~refused /\ r.re THEN value ELSE {}]
  <2>1. Reg!access(r, event) = [ready |-> TRUE, error |-> refused, data |-> IF ~refused /\ r.re THEN value ELSE {}]
    BY DEF Reg!access
  <2>2. expected' = [Reg!access(r, event) EXCEPT !.error = @ \/ lost, !.data = IF ~lost THEN @ ELSE {}]
    BY DEF Reg!Accept
  <2>3. refused \in BOOLEAN /\ lost \in BOOLEAN
    BY DEF Reg!Refused
  <2> DEFINE d == IF ~refused /\ r.re THEN value ELSE {}
  <2> HIDE DEF refused, lost, value, d
  <2>4. [[ready |-> TRUE, error |-> refused, data |-> d]
           EXCEPT !.error = @ \/ lost, !.data = IF ~lost THEN @ ELSE {}]
        = [ready |-> TRUE, error |-> refused \/ lost, data |-> IF ~lost THEN d ELSE {}]
    BY <2>3, Corrected
  <2>5. Reg!access(r, event) = [ready |-> TRUE, error |-> refused, data |-> d]
    BY <2>1 DEF d
  <2>6. expected' = [ready |-> TRUE, error |-> refused \/ lost, data |-> IF ~lost THEN d ELSE {}]
    BY <2>2, <2>4, <2>5
  <2>7. (IF ~lost THEN d ELSE {}) = (IF ~lost /\ ~refused /\ r.re THEN value ELSE {})
    BY DEF d
  <2> QED BY <2>6, <2>7
<1>7. blocks' = [b \in Reg!Blocks |-> Reg!BlockCycle(b, b \in Reg!Routed(r) \ source.dead, r, event)]
  BY <1>1 DEF Reg!Clocked
<1>8. /\ fabric'.busy /\ fabric'.sel = Reg!Routed(r) /\ (fabric'.err <=> Reg!Routed(r) = {})
      /\ fabric'.wd = 0 /\ DOMAIN fabric' = {"busy", "sel", "err", "read", "wd"}
      /\ (fabric'.read <=> r.re /\ ~Reg!reg_req_malformed(r))
  BY <1>1
<1>9. ASSUME Reg!Routed(r) = {}, Reg!Refused(r) PROVE ReplyInv'
  <2>1. ~lost /\ refused
    BY <1>9
  <2> HIDE DEF refused, lost, value
  <2>2. expected' = Refusal
    BY <1>6, <1>9, <2>1 DEF Refusal
  <2> QED BY <1>8, <1>9, <2>2 DEF ReplyInv
<1>10. ASSUME NEW b \in Reg!Blocks, Reg!Routed(r) = {b}, b \in source.dead PROVE ReplyInv'
  <2>1. blocks'[b].rsp = Reg!Silent
    <3>1. ~(b \in Reg!Routed(r) \ source.dead)
      BY <1>10
    <3>2. blocks'[b].rsp = Reg!BlockCycle(b, b \in Reg!Routed(r) \ source.dead, r, event).rsp
      BY <1>7
    <3> QED BY <3>1, <3>2 DEF Reg!BlockCycle
  <2>2. lost
    BY <1>10
  <2> HIDE DEF refused, lost, value
  <2>3. expected' = Refusal
    BY <1>6, <2>2 DEF Refusal
  <2> QED BY <1>1, <1>4, <1>8, <1>10, <2>1, <2>3 DEF ReplyInv
<1>11. ASSUME NEW b \in Reg!Blocks, b \notin source.dead,
              Reg!Routed(r) = {b}, ~Reg!reg_req_malformed(r), Reg!Index(r) \in Nat,
              IF Reg!Index(r) < Reg!N_REGS(b)
              THEN /\ Reg!Named(r.address) = <<b, Reg!Index(r) + 1>> /\ Reg!Named(r.address) # Reg!NoRow
                   /\ Reg!Named(r.address) \in DOMAIN Reg!hpp.kRegisters
                   /\ Reg!hpp.kRegisters[Reg!Named(r.address)] = Reg!Table(b, Reg!Index(r))
              ELSE Reg!Named(r.address) = Reg!NoRow
       PROVE  ReplyInv'
  <2> DEFINE rsp == blocks'[b].rsp
             read == fabric'.read
             found == Reg!Index(r) < Reg!N_REGS(b)
             t == Reg!Table(b, Reg!Index(r))
             bare == r.we /\ Reg!Writable(t) = {}
  <2>1. ~lost
    BY <1>11
  <2>2. blocks'[b] = Reg!BlockCycle(b, TRUE, r, event)
    BY <1>7, <1>11
  <2>3. CASE ~found
    <3>1. rsp = Refusal
      BY <2>2, <2>3 DEF Reg!BlockCycle, Refusal
    <3>2. refused
      BY <1>11, <2>3 DEF Reg!Refused
    <3> HIDE DEF refused, lost, value, found
    <3>3. expected' = Refusal
      BY <1>6, <3>2 DEF Refusal
    <3>4. rsp.ready /\ rsp.error = TRUE /\ rsp.data = {}
      BY <3>1 DEF Refusal
    <3> HIDE DEF rsp, read
    <3>5. expected' = [ready |-> TRUE, error |-> rsp.error, data |-> IF read /\ ~rsp.error THEN rsp.data ELSE {}]
      BY <3>3, <3>4 DEF Refusal
    <3> QED BY <1>1, <1>4, <1>8, <1>11, <3>4, <3>5 DEF ReplyInv, rsp, read
  <2>4. CASE found
    <3>1. refused <=> bare
      BY <1>11, <2>4 DEF Reg!Refused
    <3>2. rsp = [ready |-> TRUE, error |-> bare,
                 data |-> IF r.re THEN (blocks[b].q[Reg!Index(r)] \ t.hw) \cup
                                       ((IF event.at = t.address THEN event.value ELSE {}) \cap t.hw)
                                  ELSE {}]
      BY <2>2, <2>4 DEF Reg!BlockCycle
    <3>3. blocks[b].q[Reg!Index(r)] = shadow[Reg!Named(r.address)]
      BY <1>3, <1>11, <2>4 DEF StorageInv
    <3>4. (blocks[b].q[Reg!Index(r)] \ t.hw) \cup ((IF event.at = t.address THEN event.value ELSE {}) \cap t.hw)
          = value
      BY <1>11, <2>4, <3>3 DEF Reg!read_value
    <3>5. bare \in BOOLEAN /\ (read <=> r.re)
      BY <1>8, <1>11
    <3> HIDE DEF refused, lost, value, found, bare, t, read
    <3>6. rsp = [ready |-> TRUE, error |-> bare, data |-> IF r.re THEN value ELSE {}]
      BY <3>2, <3>4
    <3>7. refused \/ lost <=> bare
      BY <2>1, <3>1
    <3>8. expected' = [ready |-> TRUE, error |-> bare, data |-> IF read /\ ~bare THEN value ELSE {}]
      BY <1>6, <2>1, <3>1, <3>5, <3>7
    <3>9. /\ rsp.ready /\ rsp.error = bare /\ rsp.error \in BOOLEAN
          /\ rsp.data = IF r.re THEN value ELSE {}
      BY <3>5, <3>6
    <3> HIDE DEF rsp
    <3>10. expected' = [ready |-> TRUE, error |-> rsp.error, data |-> IF read /\ ~rsp.error THEN rsp.data ELSE {}]
      BY <3>5, <3>8, <3>9
    <3> QED BY <1>1, <1>4, <1>8, <1>11, <3>9, <3>10 DEF ReplyInv, rsp, read
  <2> QED BY <2>3, <2>4
<1>12. ReplyInv'
  <2>1. CASE Reg!Routed(r) = {} /\ Reg!Refused(r)
    BY <2>1, <1>9
  <2>2. ASSUME NEW b \in Reg!Blocks,
               Reg!Routed(r) = {b}, ~Reg!reg_req_malformed(r), Reg!Index(r) \in Nat,
               IF Reg!Index(r) < Reg!N_REGS(b)
               THEN /\ Reg!Named(r.address) = <<b, Reg!Index(r) + 1>> /\ Reg!Named(r.address) # Reg!NoRow
                    /\ Reg!Named(r.address) \in DOMAIN Reg!hpp.kRegisters
                    /\ Reg!hpp.kRegisters[Reg!Named(r.address)] = Reg!Table(b, Reg!Index(r))
               ELSE Reg!Named(r.address) = Reg!NoRow
        PROVE  ReplyInv'
    BY <2>2, <1>10, <1>11
  <2> QED BY <2>1, <2>2, <1>2, <1>3, Routes
<1>13. ~answer'.ready
  BY <1>1 DEF Reg!Silent
<1> QED BY <1>1, <1>4, <1>5, <1>8, <1>12, <1>13 DEF PlaneInv
\* A cycle without a request changes no register but by the hardware's events, and every
\* block's response falls silent.
LEMMA QuietCycle ==
  ASSUME PlaneInv, source.state = "built", NEW event, UNCHANGED <<source, files>>,
         Reg!Clocked({}, Reg!Nothing, event), Reg!Shadowed(Reg!Nothing, event)
  PROVE  /\ Generated' /\ StorageInv' /\ Reg!Blocks' = Reg!Blocks
         /\ \A b \in Reg!Blocks : blocks'[b].rsp = Reg!Silent
<1>1. Generated' /\ Reg!Blocks' = Reg!Blocks
  BY DEF PlaneInv, Generated, Map, Reg!Blocks, Reg!sv
<1>2. \A entry \in DOMAIN Reg!hpp.kRegisters :
        Writes({}, Reg!Nothing, entry) <=> Predicts(Reg!Nothing, entry)
  BY DEF Writes, Predicts, Reg!Nothing
<1>3. StorageInv'
  BY <1>2, StorageKeeps
<1>4. ASSUME NEW b \in Reg!Blocks PROVE blocks'[b].rsp = Reg!Silent
  <2>1. ~(b \in {} \ source.dead)
    OBVIOUS
  <2>2. blocks'[b] = Reg!BlockCycle(b, b \in {} \ source.dead, Reg!Nothing, event)
    BY DEF Reg!Clocked
  <2> QED BY <2>1, <2>2 DEF Reg!BlockCycle
<1> QED BY <1>1, <1>3, <1>4

\* The fabric waits for a block that is dead, and for no other.
LEMMA WaitKeeps == ASSUME PlaneInv, NEW event, Reg!Wait(event) PROVE PlaneInv'
<1>1. /\ fabric.busy /\ ~Reg!Done /\ UNCHANGED <<source, files, port, expected, answer>>
      /\ Reg!Clocked({}, Reg!Nothing, event) /\ Reg!Shadowed(Reg!Nothing, event)
      /\ fabric' = [fabric EXCEPT !.wd = (@ + 1) % Reg!WdRange]
  BY DEF Reg!Wait
<1>2. source.state = "built" /\ answer = Reg!Silent /\ ReplyInv
  BY <1>1 DEF PlaneInv
<1>3. /\ Generated' /\ StorageInv' /\ Reg!Blocks' = Reg!Blocks
      /\ \A b \in Reg!Blocks : blocks'[b].rsp = Reg!Silent
  BY <1>1, <1>2, QuietCycle
<1>4. /\ DOMAIN fabric' = {"busy", "sel", "err", "read", "wd"}
      /\ fabric'.busy = fabric.busy /\ fabric'.sel = fabric.sel /\ fabric'.err = fabric.err
  BY <1>1 DEF PlaneInv
<1>5. ~fabric.err /\ ~Reg!blk_resp
  BY <1>1 DEF Reg!Done
<1>6. PICK b \in Reg!Blocks \cap source.dead :
        fabric.sel = {b} /\ blocks[b].rsp = Reg!Silent /\ expected = Refusal
  BY <1>2, <1>5 DEF ReplyInv, Reg!blk_resp
<1>7. ReplyInv'
  BY <1>1, <1>3, <1>4, <1>5, <1>6 DEF ReplyInv
<1>8. ~answer'.ready
  BY <1>1, <1>2 DEF Reg!Silent
<1> QED BY <1>1, <1>2, <1>3, <1>4, <1>7, <1>8 DEF PlaneInv

\* The answer is the one predicted: the fabric's own error, the watchdog's, or the block's.
LEMMA RespondKeeps == ASSUME PlaneInv, NEW event, Reg!Respond(event) PROVE PlaneInv'
<1>1. /\ Reg!Done /\ UNCHANGED <<source, files, expected>> /\ fabric' = Reg!IdleFabric
      /\ Reg!Clocked({}, Reg!Nothing, event) /\ Reg!Shadowed(Reg!Nothing, event)
      /\ answer' = [ready |-> TRUE, error |-> Reg!Failed,
                    data |-> IF fabric.read /\ ~Reg!Failed
                             THEN UNION {blocks[b].rsp.data : b \in fabric.sel} ELSE {}]
  BY DEF Reg!Respond
<1>2. source.state = "built" /\ ReplyInv
  BY <1>1 DEF PlaneInv, Reg!Done
<1>3. Generated' /\ StorageInv'
  BY <1>1, <1>2, QuietCycle
<1>4. ~fabric'.busy /\ DOMAIN fabric' = {"busy", "sel", "err", "read", "wd"}
  BY <1>1 DEF Reg!IdleFabric
<1> DEFINE failed == Reg!Failed
<1>5. ASSUME failed, expected = Refusal PROVE answer' = expected
  <2>1. failed = TRUE
    BY <1>5 DEF Reg!Failed
  <2>2. answer' = [ready |-> TRUE, error |-> failed,
                   data |-> IF fabric.read /\ ~failed
                            THEN UNION {blocks[b].rsp.data : b \in fabric.sel} ELSE {}]
    BY <1>1 DEF failed
  <2> HIDE DEF failed
  <2> QED BY <1>5, <2>1, <2>2 DEF Refusal
<1>6. ASSUME fabric.err, expected = Refusal PROVE answer' = expected
  BY <1>5, <1>6 DEF Reg!Failed
<1>7. ASSUME NEW b \in Reg!Blocks,
             fabric.sel = {b}, ~fabric.err, blocks[b].rsp = Reg!Silent, expected = Refusal
      PROVE  answer' = expected
  <2>1. ~Reg!blk_resp
    BY <1>7 DEF Reg!blk_resp, Reg!Silent
  <2> QED BY <1>1, <1>5, <1>7, <2>1 DEF Reg!Done, Reg!Failed
<1>8. ASSUME NEW b \in Reg!Blocks,
             fabric.sel = {b}, ~fabric.err, fabric.wd = 0,
             blocks[b].rsp.ready, blocks[b].rsp.error \in BOOLEAN,
             expected = [ready |-> TRUE, error |-> blocks[b].rsp.error,
                         data |-> IF fabric.read /\ ~blocks[b].rsp.error THEN blocks[b].rsp.data ELSE {}]
      PROVE  answer' = expected
  <2>1. ~Reg!wd_fire
    BY <1>8, PlaneAssumption DEF Reg!wd_fire
  <2>2. (failed <=> blocks[b].rsp.error) /\ failed \in BOOLEAN
    BY <1>8, <2>1 DEF Reg!Failed
  <2> HIDE DEF failed
  <2>3. failed = blocks[b].rsp.error
    BY <1>8, <2>2
  <2>4. UNION {blocks[c].rsp.data : c \in fabric.sel} = blocks[b].rsp.data
    BY <1>8
  <2>5. answer' = [ready |-> TRUE, error |-> failed,
                   data |-> IF fabric.read /\ ~failed THEN blocks[b].rsp.data ELSE {}]
    BY <1>1, <2>4 DEF failed
  <2> QED BY <1>8, <2>3, <2>5
<1>9. answer' = expected'
  BY <1>1, <1>2, <1>6, <1>7, <1>8 DEF ReplyInv
<1> QED BY <1>1, <1>2, <1>3, <1>4, <1>9 DEF PlaneInv

\* Between requests only the hardware's events move the registers.
LEMMA RestKeeps == ASSUME PlaneInv, NEW event, Reg!Rest(event) PROVE PlaneInv'
<1>1. /\ source.state = "built" /\ ~fabric.busy /\ UNCHANGED <<source, files, fabric>>
      /\ Reg!Clocked({}, Reg!Nothing, event) /\ Reg!Shadowed(Reg!Nothing, event)
      /\ answer' = Reg!Silent
  BY DEF Reg!Rest, Reg!NoAnswer
<1>2. Generated' /\ StorageInv'
  BY <1>1, QuietCycle
<1>3. ~answer'.ready
  BY <1>1 DEF Reg!Silent
<1> QED BY <1>1, <1>2, <1>3 DEF PlaneInv

\* Every cycle keeps the invariant, and so does no cycle.
LEMMA PlaneNextKeeps == ASSUME PlaneInv, [Reg!PlaneNext]_(Reg!planeVars) PROVE PlaneInv'
<1>1. CASE Reg!Generate
  BY <1>1, GenerateKeeps
<1>2. ASSUME NEW event, Reg!Wait(event) \/ Reg!Respond(event) PROVE PlaneInv'
  BY <1>2, WaitKeeps, RespondKeeps
<1>3. ASSUME NEW event, Reg!Rest(event) PROVE PlaneInv'
  BY <1>3, RestKeeps
<1>4. ASSUME NEW event, NEW r \in Reg!Requests, Reg!Accept(r, event) PROVE PlaneInv'
  BY <1>4, AcceptKeeps
<1>5. CASE UNCHANGED Reg!planeVars
  <2>1. UNCHANGED <<source, files, fabric, blocks, shadow, expected, answer>>
    BY <1>5 DEF Reg!planeVars
  <2>2. UNCHANGED <<Reg!Blocks, Reg!hpp, Reg!sv>>
    BY <2>1 DEF Reg!Blocks, Reg!hpp, Reg!sv
  <2>3. StorageInv => StorageInv'
    BY <2>1, <2>2 DEF StorageInv, Reg!N_REGS
  <2>4. ReplyInv => ReplyInv'
    BY <2>1, <2>2 DEF ReplyInv
  <2>5. Generated => Generated'
    BY <2>1 DEF Generated, Map
  <2> QED BY <2>1, <2>3, <2>4, <2>5 DEF PlaneInv
<1> QED BY <1>1, <1>2, <1>3, <1>4, <1>5 DEF Reg!PlaneNext, Reg!PlaneStep

\* Before the generator has run there is nothing to agree on.
LEMMA PlaneInitInv == Reg!PlaneInit => PlaneInv
<1> SUFFICES ASSUME Reg!PlaneInit PROVE PlaneInv
  OBVIOUS
<1>1. /\ source \in [doc : Sources, dead : SUBSET {1}, state : {"read"}]
      /\ fabric = Reg!IdleFabric /\ answer = Reg!Silent
  BY DEF Reg!PlaneInit, Reg!NoAnswer
<1>2. source.state # "built" /\ source \in [doc : Sources, dead : SUBSET {1}, state : {"read", "built", "rejected"}]
  BY <1>1
<1>3. ~fabric.busy /\ DOMAIN fabric = {"busy", "sel", "err", "read", "wd"}
  BY <1>1 DEF Reg!IdleFabric
<1>4. ~answer.ready
  BY <1>1 DEF Reg!Silent
<1> QED BY <1>1, <1>2, <1>3, <1>4 DEF PlaneInv

-----------------------------------------------------------------------------
(* The bench: a step of it is a step of the component under test.          *)

\* No step changes the component under test, and a step under the dut "calibration" is
\* one of the calibration script.
LEMMA CalibrationSteps ==
  ASSUME dut = "calibration", [Next]_vars
  PROVE  dut' = dut /\ [Cal!CalNext]_(Cal!calVars)
<1> QED BY DEF Next, Calibrate, Cycle, Emit, RunBuild, Multiply, TransformRing, TransformFixed,
              Filter, TakeInventory, RunVectors, vars, calVars, Cal!calVars

\* The same for the multiplier.
LEMMA MultiplierSteps ==
  ASSUME dut = "multiplier", [Next]_vars
  PROVE  dut' = dut /\ [Mul!CmultNext]_(Mul!cmultVars)
<1> QED BY DEF Next, Calibrate, Cycle, Emit, RunBuild, Multiply, TransformRing, TransformFixed,
              Filter, TakeInventory, RunVectors, vars, cmultVars, Mul!cmultVars

\* No step changes the component under test.
LEMMA DutKept == [Next]_vars => dut' = dut
<1> QED BY DEF Next, Calibrate, Cycle, Emit, RunBuild, Multiply, TransformRing, TransformFixed,
              Filter, TakeInventory, RunVectors, vars

(***************************************************************************)
(* The bench's statement of the calibration script, for every matrix and   *)
(* every number of launches (run_calibration.py).                          *)
(***************************************************************************)
THEOREM CalibrationTrue == ASSUME MaxSweeps \in Nat PROVE Spec => RecordsAreTrue
<1> DEFINE Inv1 == dut = "calibration" => CalInv
           Good == dut = "calibration" => Cal!CalTypeOK /\ Cal!RecordIsOneCompile /\ Cal!SweepStatus
           Kept == dut = "calibration" => Cal!GoodKept
<1>1. Init => Inv1
  BY CalInitInv DEF Init
<1>2. Inv1 /\ [Next]_vars => Inv1'
  BY DutKept, CalibrationSteps, CalNextKeeps
<1>3. Inv1 /\ [Next]_vars => [Kept]_vars
  BY CalibrationSteps, NextKeepsGood DEF vars, calVars, Cal!calVars, Cal!GoodKept
<1>4. Inv1 => Good
  BY CalInvIsTrue
<1> QED BY <1>1, <1>2, <1>3, <1>4, PTL DEF Spec, RecordsAreTrue

(***************************************************************************)
(* The bench's statement of the multiplier, for every sample width and     *)
(* every set of operands (complex_multiplier.sv).                          *)
(***************************************************************************)
THEOREM ProductsTrue == ASSUME PowersOfTwo PROVE Spec => []ProductIsReference
<1> DEFINE Inv1 == dut = "multiplier" => MulInv
<1>1. Init => Inv1
  BY EmptyIsExact DEF Init, Mul!CmultInit
<1>2. Inv1 /\ [Next]_vars => Inv1'
  <2>1. ASSUME MulInv, UNCHANGED Mul!cmultVars PROVE MulInv'
    BY <2>1 DEF MulInv, Mul!cmultVars, Beats
  <2> QED BY <2>1, DutKept, MultiplierSteps, MulNextKeeps, OperandsAssumption, PowersDouble, PowersMultiply
<1>3. Inv1 => ProductIsReference
  BY ExactIsReference, OperandsAssumption, PowersDouble, PowersMultiply DEF ProductIsReference
<1> QED BY <1>1, <1>2, <1>3, PTL DEF Spec

\* A step under the dut "artefacts" is one of the generators.
LEMMA ArtefactSteps ==
  ASSUME dut = "artefacts", [Next]_vars
  PROVE  [Art!ArtNext]_(Art!artVars)
<1> QED BY DEF Next, Calibrate, Cycle, Emit, RunBuild, Multiply, TransformRing, TransformFixed,
              Filter, TakeInventory, RunVectors, vars, artVars, Art!artVars

(***************************************************************************)
(* The exit status of a generator that nothing disturbed is the truth      *)
(* about its files, for every number of runs, edits and kills.             *)
(***************************************************************************)
THEOREM GeneratorsTellTheTruth ==
  ASSUME MaxVersion \in Nat \ {0} PROVE Spec => []VerdictIsTrue
<1> DEFINE Inv1 == dut = "artefacts" => ArtInv
<1>1. Init => Inv1
  BY ArtInitInv DEF Init
<1>2. Inv1 /\ [Next]_vars => Inv1'
  BY DutKept, ArtefactSteps, ArtNextKeeps
<1>3. Inv1 => VerdictIsTrue
  <2>1. ArtInv => Art!ArtTypeOK
    BY DEF ArtInv, ArtTypes, Held, Run, Running, Art!ArtTypeOK, Art!Gone
  <2>2. ArtInv => Art!VerdictIsTrue
    BY DEF ArtInv, Verdict, Art!VerdictIsTrue
  <2> QED BY <2>1, <2>2 DEF VerdictIsTrue
<1> QED BY <1>1, <1>2, <1>3, PTL DEF Spec

\* A step under the dut "build" is one of the build script.
LEMMA BuildSteps ==
  ASSUME dut = "build", [Next]_vars
  PROVE  [Build!BuildNext]_(Build!buildVars)
<1> QED BY DEF Next, Calibrate, Cycle, Emit, RunBuild, Multiply, TransformRing, TransformFixed,
              Filter, TakeInventory, RunVectors, vars, buildVars, Build!buildVars

(***************************************************************************)
(* A build that nothing disturbed and that ends with 0 leaves a binary     *)
(* whose halves are both of its configuration, for every set of            *)
(* configurations, every number of runs and of kills.                      *)
(***************************************************************************)
THEOREM BinariesAreWhole ==
  ASSUME PowersOfTwo, MaxBuilds \in Nat PROVE Spec => []HalvesAgree
<1> DEFINE Inv1 == dut = "build" => BuildInv
<1>1. Init => Inv1
  BY BuildInitInv DEF Init
<1>2. Inv1 /\ [Next]_vars => Inv1'
  BY DutKept, BuildSteps, BuildNextKeeps
<1>3. Inv1 => HalvesAgree
  BY HalvesOfInv, PowersDouble, PowersMultiply, LogsExist DEF HalvesAgree
<1> QED BY <1>1, <1>2, <1>3, PTL DEF Spec

\* A step under the dut "plane" is a cycle of the plane.
LEMMA PlaneSteps ==
  ASSUME dut = "plane", [Next]_vars
  PROVE  [Reg!PlaneNext]_(Reg!planeVars)
<1> QED BY DEF Next, Calibrate, Cycle, Emit, RunBuild, Multiply, TransformRing, TransformFixed,
              Filter, TakeInventory, RunVectors, vars, planeVars, Reg!planeVars

\* The invariant of the plane, of the bench.
LEMMA PlaneAlways == Spec => [](dut = "plane" => PlaneInv)
<1> DEFINE Inv1 == dut = "plane" => PlaneInv
<1>1. Init => Inv1
  BY PlaneInitInv DEF Init
<1>2. Inv1 /\ [Next]_vars => Inv1'
  BY DutKept, PlaneSteps, PlaneNextKeeps
<1> QED BY <1>1, <1>2, PTL DEF Spec

(***************************************************************************)
(* Whatever documents there are, of any number of blocks, registers and    *)
(* fields: an accepted one gives the hardware and the software one decode  *)
(* (gen_regmap.py).                                                        *)
(***************************************************************************)
THEOREM DecodersAlwaysAgree == Spec => []DecodersAgree
<1>1. PlaneInv => Reg!DecodersAgree
  <2> SUFFICES ASSUME PlaneInv, source.state = "built", NEW a \in {x \in 0 .. AddrSpace - 1 : x % 4 = 0}
               PROVE  LET in_hw == {b \in Reg!hit(Reg!Decoded(a)) :
                                      Reg!Index(Reg!Decoded(a)) < Reg!N_REGS(b)}
                      IN  /\ Reg!address_mapped(Reg!hpp, a) <=> Reg!Named(a) # Reg!NoRow
                          /\ Reg!Named(a) # Reg!NoRow =>
                               Reg!hpp.kRegisters[Reg!Named(a)] \in
                                 {Reg!Table(b, Reg!Index(Reg!Decoded(a))) : b \in in_hw}
                          /\ Reg!Cardinality(in_hw) = IF Reg!Named(a) # Reg!NoRow THEN 1 ELSE 0
    BY DEF Reg!DecodersAgree
  <2>1. a \in Nat /\ a % 4 = 0
    BY PlaneAssumption
  <2> QED BY <2>1, GeneratedAgree DEF PlaneInv
<1>2. (dut = "plane" => PlaneInv) => DecodersAgree
  BY <1>1 DEF DecodersAgree
<1> QED BY <1>2, PlaneAlways, PTL

(***************************************************************************)
(* And every answer of the plane is the one RegModel predicted, whatever   *)
(* the hardware set meanwhile and whichever block is dead, for every       *)
(* width, address map and watchdog limit (reg_fabric.sv,                   *)
(* reg_csr_block.sv, test_control_regs.cpp).                               *)
(***************************************************************************)
THEOREM PredictionsAlwaysHold == Spec => []PredictionsHold
<1>1. (dut = "plane" => PlaneInv) => PredictionsHold
  BY DEF PlaneInv, Reg!PredictionsHold, PredictionsHold
<1> QED BY <1>1, PlaneAlways, PTL
=============================================================================
