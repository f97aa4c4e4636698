------------------------------ MODULE MCScripts ------------------------------
(***************************************************************************)
(* One bench for the scripts and the reference models: `dut` names the     *)
(* component under test, chosen once, and only its variables are in use.   *)
(***************************************************************************)
EXTENDS FxpVectors

CONSTANTS
  \* Calibration
  Matrix, MaxSweeps,
  \* RegisterPlane
  DATA_W, Window, AddrSpace, SPEC9_GROUPS, Sources, Addresses, WATCHDOG_CYCLES, NoRequest,
  \* CdcInventory
  NoNet, Missing, Literal, ClockLike,
  \* Artefacts, ConfigBuild
  Procs, MaxVersion, MaxMishaps, Configs, Builds, MaxBuilds,
  \* ComplexMultiplier
  Operands, NoBeat,
  \* Pfb
  SCALE_BITS, MaxBeats, GOLDEN_BEATS

VARIABLES
  dut,
  driver, worker, result, kv, summary, status,
  source, files, fabric, port, blocks, shadow, expected, answer,
  kind, edition, disk, proc, mishaps,
  pkg, header, build, binary, launched,
  shape, stage, valid, entered,
  exact, fixed,
  pfb, inputs, row,
  job   \* a netlist to inventory, or a wrong arithmetic to tell from the vectors

-----------------------------------------------------------------------------
(***************************************************************************)
(* The source documents: two blocks, by the shape of one register's        *)
(* fields, and by where the blocks and their registers are.                *)
(***************************************************************************)
MCField(n, l, w, a, r) == [name |-> n, lsb |-> l, width |-> w, access |-> a, reset |-> r]
MCRegister(n, o, fs)   == [name |-> n, offset |-> o, fields |-> fs]
MCBlock(n, base, rs) ==
  [name |-> n, base |-> base, groups |-> {n}, implemented |-> rs # << >>, registers |-> rs]
Accesses == {"RO", "ROHW", "RW", "W1C", "RWP"}
Shapes == [name : {1}, lsb : 0 .. 1, width : 1 .. 2, access : Accesses, reset : {{}, {0}, {1}}]
Firsts  == {f \in Shapes : f.lsb = 0 /\ f.reset = {}}
Seconds == {f \in Shapes : f.lsb = 1 /\ f.width = 1 /\ f.reset = {}}
FieldLists == {<<f>> : f \in Shapes} \cup {<<f, [g EXCEPT !.name = 2]>> : f \in Firsts, g \in Seconds}
Storage == MCField(1, 0, 1, "RW", {0})
Sticky  == MCField(1, 1, 1, "W1C", {})
RegisterLists ==
  {<< >>, <<MCRegister(1, 0, <<Storage>>)>>, <<MCRegister(1, 4, <<Sticky>>)>>,
   <<MCRegister(1, 0, <<Storage>>), MCRegister(2, 4, <<Sticky>>)>>,
   <<MCRegister(1, 0, <<Storage>>), MCRegister(1, 4, <<Sticky>>)>>}
MCSources ==
  {<<MCBlock(1, 0, << >>), MCBlock(2, 8, <<MCRegister(1, 0, fs)>>)>> : fs \in FieldLists}
  \cup {<<MCBlock(1, b, r), MCBlock(2, c, s)>> :
          b \in {0, 8}, c \in {0, 4, 8, 16, 20}, r \in RegisterLists, s \in RegisterLists}

(***************************************************************************)
(* The designs to inventory: a wrapper of a FIFO beside a FIFO, with every *)
(* connection of their clocks, and catalogs good and bad.                  *)
(***************************************************************************)
MCModule(orig, top, ports, inst) ==
  [orig |-> orig, top |-> top, ports |-> ports, params |-> [W |-> "4"], instances |-> inst]
MCInstance(d, p) == [def |-> d, ports |-> p]
Netlists ==
  {[top  |-> MCModule("top", TRUE, {"clk_a", "clk_b"},
                      [u_w |-> MCInstance("wrap", [clk_s |-> a, clk_d |-> b]),
                       u_f |-> MCInstance("fifo", [clk_s |-> c, clk_d |-> "clk_b"])]),
    wrap |-> MCModule("wrap", FALSE, {"clk_s", "clk_d"},
                      [u_f |-> MCInstance("fifo", [clk_s |-> x, clk_d |-> y])]),
    fifo |-> MCModule("fifo", FALSE, {"clk_s", "clk_d"}, [u_s |-> MCInstance("sync", [clk_d |-> "clk_d"])]),
    sync |-> MCModule("sync", FALSE, {"clk_d"}, << >>)] :
   a \in {"clk_a", "clk_b", NoNet}, b \in {"clk_a", "clk_b"}, c \in {"clk_a", "clk_b"},
   x \in {"clk_s", "clk_d", "clk_a", NoNet}, y \in {"clk_s", "clk_d", "clk_a"}}
MCDeclaration(s, d, w) == [type |-> "fifo", src_clk |-> s, dst_clk |-> d, width |-> w, stages |-> "2"]
MCSync == MCDeclaration("@async", "clk_d", "1")
Catalogs ==
  {[fifo |-> MCDeclaration(s, d, w), sync |-> MCSync] :
     s \in {"clk_s", Missing, "gone"}, d \in {"clk_d", "gone"}, w \in {"W", "V", "3"}}
  \cup {[fifo |-> MCDeclaration("clk_s", "clk_d", "3"), sync |-> MCSync,
         wrap |-> MCDeclaration("clk_s", "clk_d", "3")], [sync |-> MCSync]}

MCMatrix == <<"p1", "p2">>

(***************************************************************************)
(* Two configurations, the operands of the multiplier, the streams of the  *)
(* filter bank.                                                            *)
(***************************************************************************)
MCConfig(n, s, a) ==
  [name |-> n, sized |-> s, invariant |-> <<"SAMPLE_W">>,
   params |-> [N_ANTENNAS |-> a, SAMPLE_W |-> 16, PFB_TAPS |-> 4]]
MCConfigs == {MCConfig("tiny", <<"N_ANTENNAS">>, 2), MCConfig("medium", <<"N_ANTENNAS", "PFB_TAPS">>, 16)}

MCOperands ==
  {[a |-> C(Q15_MIN, Q15_MIN), b |-> C(Q15_MIN, Q15_MIN)], [a |-> C(Q15_MIN, Q15_MAX), b |-> C(Q15_MAX, Q15_MIN)]}
MCNoBeat == [a |-> C(Q15_MIN - 1, 0), b |-> C(0, 0)]

MCFree       == {<<2, 1>>, <<2, 2>>, <<2, 3>>}
MCGeometries == MCFree \cup {<<4, 8>>, <<8, 16>>}
MCPrototypes ==
  [g \in MCGeometries |->
     {[i \in 0 .. g[1] * g[2] - 1 |-> C(((i * 37 + 11) % 1009) - 500, ((i * i * 13 + 5) % 1021) - 512)]}]
MCSamples == {C(Q15_MAX, Q15_MIN), C(0, 1), C(-2, Q15_MIN)}

-----------------------------------------------------------------------------
Cal   == INSTANCE Calibration
Reg   == INSTANCE RegisterPlane
Inv   == INSTANCE CdcInventory
Art   == INSTANCE Artefacts
Build == INSTANCE ConfigBuild
Mul   == INSTANCE ComplexMultiplier
Fft   == INSTANCE FftVectors
Bank  == INSTANCE Pfb WITH Geometries <- MCGeometries, FreeGeometries <- MCFree,
           Prototypes <- MCPrototypes, Samples <- MCSamples

\* What parse_int and the JSON give the register map's generator: lists, and numbers that
\* are not negative; a window is a power of two of at least four bytes.
IsList(q) == q \in Seq(Range(q))
Parsed(doc) ==
  /\ IsList(doc)
  /\ \A b \in Range(doc) :
       /\ b.base \in Nat /\ b.implemented \in BOOLEAN /\ IsList(b.registers)
       /\ \A r \in Range(b.registers) :
            /\ r.offset \in Nat /\ IsList(r.fields)
            /\ \A f \in Range(r.fields) : f.lsb \in Nat /\ f.width \in Nat /\ f.reset \subseteq Nat
ASSUME SourcesAssumption == \A doc \in Sources : Parsed(doc)
ASSUME PlaneAssumption ==
  /\ Window \in Nat \ {0} /\ Window % 4 = 0 /\ AddrSpace \in Nat /\ DATA_W \in Nat
  /\ Addresses \subseteq Nat /\ WATCHDOG_CYCLES \in Nat \ {0}

\* What a description under src/configs is: its parameters, a number each, among them those
\* the tool-independent layout is made of, the ones a run may size and the ones it may not.
Described(c) ==
  /\ IsFiniteSet(DOMAIN c.params) /\ {"N_ANTENNAS", "SAMPLE_W"} \subseteq DOMAIN c.params
  /\ c.params.N_ANTENNAS \in Nat /\ c.params.SAMPLE_W \in Nat
  /\ \A keys \in {c.sized, c.invariant} : keys \in Seq(DOMAIN c.params) /\ IsInjective(keys)
  /\ Range(c.sized) \cap Range(c.invariant) = {}
ASSUME ConfigsAssumption == \A c \in Configs : Described(c)

\* The operands are of SAMPLE_W bits, and a bubble is none of them.
Sample    == [re : Mul!Q15, im : Mul!Q15]
Operand   == [a : Sample, b : Sample]
Presented == Operands \subseteq Operand /\ NoBeat \notin Operands
ASSUME OperandsAssumption == Presented

calVars   == <<driver, worker, result, kv, summary, status>>
planeVars == <<source, files, fabric, port, blocks, shadow, expected, answer>>
artVars   == <<kind, edition, disk, proc, mishaps>>
buildVars == <<pkg, header, build, binary, launched>>
cmultVars == <<shape, stage, valid, entered>>
pfbVars   == <<pfb, inputs, row>>
vars == <<dut, calVars, planeVars, artVars, buildVars, cmultVars, exact, fixed, pfbVars, job>>

Off == "off"
CalOff == driver = Off /\ worker = Off /\ result = Off /\ kv = Off /\ summary = Off /\ status = Off
RegOff == /\ source = Off /\ files = Off /\ fabric = Off /\ port = Off /\ blocks = Off
          /\ shadow = Off /\ expected = Off /\ answer = Off
ArtOff == kind = Off /\ edition = Off /\ disk = Off /\ proc = Off /\ mishaps = Off
BuildOff == pkg = Off /\ header = Off /\ build = Off /\ binary = Off /\ launched = Off
CmOff  == shape = Off /\ stage = Off /\ valid = Off /\ entered = Off
FftOff == exact = Off /\ fixed = Off
PfbOff == pfb = Off /\ inputs = Off /\ row = Off
JobOff == job = Off

InventoryJobs == [netlist : Netlists, catalog : Catalogs, report : {<< >>}]
VectorJobs ==
  [file : {"ops"}, fault : OpFaults, done : {FALSE}] \cup [file : {"cmult"}, fault : CmFaults, done : {FALSE}]
  \cup [file : {"accum"}, fault : AccFaults, done : {FALSE}]

Init ==
  \/ dut = "calibration" /\ Cal!CalInit /\ RegOff /\ ArtOff /\ BuildOff /\ CmOff /\ FftOff /\ PfbOff /\ JobOff
  \/ dut = "plane" /\ Reg!PlaneInit /\ CalOff /\ ArtOff /\ BuildOff /\ CmOff /\ FftOff /\ PfbOff /\ JobOff
  \/ dut = "artefacts" /\ Art!ArtInit /\ CalOff /\ RegOff /\ BuildOff /\ CmOff /\ FftOff /\ PfbOff /\ JobOff
  \/ dut = "build" /\ Build!BuildInit /\ CalOff /\ RegOff /\ ArtOff /\ CmOff /\ FftOff /\ PfbOff /\ JobOff
  \/ dut = "multiplier" /\ Mul!CmultInit /\ CalOff /\ RegOff /\ ArtOff /\ BuildOff /\ FftOff /\ PfbOff /\ JobOff
  \/ dut = "ring fft" /\ Fft!Ring!FftInit /\ fixed = Off
     /\ CalOff /\ RegOff /\ ArtOff /\ BuildOff /\ CmOff /\ PfbOff /\ JobOff
  \/ dut = "fixed fft" /\ Fft!Fixed!FftInit /\ exact = Off
     /\ CalOff /\ RegOff /\ ArtOff /\ BuildOff /\ CmOff /\ PfbOff /\ JobOff
  \/ dut = "filter bank" /\ Bank!PfbInit /\ CalOff /\ RegOff /\ ArtOff /\ BuildOff /\ CmOff /\ FftOff /\ JobOff
  \/ dut = "inventory" /\ job \in InventoryJobs
     /\ CalOff /\ RegOff /\ ArtOff /\ BuildOff /\ CmOff /\ FftOff /\ PfbOff
  \/ dut = "vectors" /\ job \in VectorJobs
     /\ CalOff /\ RegOff /\ ArtOff /\ BuildOff /\ CmOff /\ FftOff /\ PfbOff

Calibrate == dut = "calibration" /\ Cal!CalNext
             /\ UNCHANGED <<dut, planeVars, artVars, buildVars, cmultVars, exact, fixed, pfbVars, job>>
CalibrateOn == dut = "calibration" /\ Cal!CalStep
             /\ UNCHANGED <<dut, planeVars, artVars, buildVars, cmultVars, exact, fixed, pfbVars, job>>
Cycle == dut = "plane" /\ Reg!PlaneNext
             /\ UNCHANGED <<dut, calVars, artVars, buildVars, cmultVars, exact, fixed, pfbVars, job>>
CycleOn == dut = "plane" /\ Reg!PlaneStep
             /\ UNCHANGED <<dut, calVars, artVars, buildVars, cmultVars, exact, fixed, pfbVars, job>>
Emit == dut = "artefacts" /\ Art!ArtNext
             /\ UNCHANGED <<dut, calVars, planeVars, buildVars, cmultVars, exact, fixed, pfbVars, job>>
RunBuild == dut = "build" /\ Build!BuildNext
             /\ UNCHANGED <<dut, calVars, planeVars, artVars, cmultVars, exact, fixed, pfbVars, job>>
Multiply == dut = "multiplier" /\ Mul!CmultNext
             /\ UNCHANGED <<dut, calVars, planeVars, artVars, buildVars, exact, fixed, pfbVars, job>>
TransformRing == dut = "ring fft" /\ Fft!Ring!FftNext
             /\ UNCHANGED <<dut, calVars, planeVars, artVars, buildVars, cmultVars, fixed, pfbVars, job>>
TransformFixed == dut = "fixed fft" /\ Fft!Fixed!FftNext
             /\ UNCHANGED <<dut, calVars, planeVars, artVars, buildVars, cmultVars, exact, pfbVars, job>>
Filter == dut = "filter bank" /\ Bank!PfbNext
             /\ UNCHANGED <<dut, calVars, planeVars, artVars, buildVars, cmultVars, exact, fixed, job>>
TakeInventory ==
  /\ dut = "inventory" /\ job.report = << >>
  /\ job' = [job EXCEPT !.report = [it |-> Inv!build_report(job.netlist, "top", job.catalog)]]
  /\ UNCHANGED <<dut, calVars, planeVars, artVars, buildVars, cmultVars, exact, fixed, pfbVars>>
RunVectors ==
  /\ dut = "vectors" /\ ~job.done /\ job' = [job EXCEPT !.done = TRUE]
  /\ UNCHANGED <<dut, calVars, planeVars, artVars, buildVars, cmultVars, exact, fixed, pfbVars>>

Next == Calibrate \/ Cycle \/ Emit \/ RunBuild \/ Multiply \/ TransformRing \/ TransformFixed
        \/ Filter \/ TakeInventory \/ RunVectors
Spec == Init /\ [][Next]_vars /\ WF_vars(CalibrateOn) /\ WF_vars(CycleOn)

-----------------------------------------------------------------------------
(***************************************************************************)
(* Calibration: a record a sweep wrote is of one compile, a sweep that     *)
(* exits with 0 has a good record of every point asked for, and no sweep,  *)
(* killed, failed or finished, takes a good record out of the summary: only*)
(* a rebuild from the directories replaces one (run_calibration.py).       *)
(***************************************************************************)
RecordsAreTrue ==
  /\ [](dut = "calibration" => Cal!CalTypeOK /\ Cal!RecordIsOneCompile /\ Cal!SweepStatus)
  /\ [][dut = "calibration" => Cal!GoodKept]_vars

\* The decoders of the hardware and of the software are one (gen_regmap.py: elaborate).
DecodersAgree == dut = "plane" => Reg!DecodersAgree
\* What the software's model predicts is what the plane answers.
PredictionsHold == dut = "plane" => Reg!PredictionsHold

(***************************************************************************)
(* An end is reported as a clock of the top exactly when it is wired to    *)
(* one, two such ends have one name exactly when they are one net, and a   *)
(* strict run that exits with 0 has classified every instance with two     *)
(* clocks (cdc_inventory.py: resolve_net, build_report).                   *)
(***************************************************************************)
End(e, clk) ==
  LET decl == job.catalog[job.netlist[Inv!ModuleOf(job.netlist, e.instance)].orig]
  IN  IF clk = "src" THEN [node |-> <<e.instance, decl.src_clk>>, end |-> e.source]
                     ELSE [node |-> <<e.instance, decl.dst_clk>>, end |-> e.dest]
InventoryHolds ==
  dut = "inventory" /\ job.report # << >> =>
    LET it   == job.report.it
        ends == {x \in {End(e, clk) : e \in it.crossings, clk \in {"src", "dst"}} :
                   x.end.net \notin {"@async", Missing}}
        NetOf(x) == Inv!OneNet(job.netlist, "top", x.node)
    IN  /\ \A u \in ends : u.end.is_top <=> \E clk \in ClockLike : << << >>, clk>> \in NetOf(u)
        /\ \A u, v \in ends :
             u.end.is_top /\ v.end.is_top => (u.end.net = v.end.net <=> v.node \in NetOf(u))
        /\ Inv!exit_status(it, TRUE, FALSE) = 0 =>
             \A s \in Inv!Stacks(job.netlist, "top") :
               Cardinality(job.netlist[Inv!ModuleOf(job.netlist, s)].ports \cap ClockLike) >= 2 =>
                 \E e \in it.crossings : e.instance = s /\ Missing \notin {e.source.net, e.dest.net, e.width}

\* The exit status of a generator is the truth about its files (the five main functions).
VerdictIsTrue == dut = "artefacts" => Art!ArtTypeOK /\ Art!VerdictIsTrue
\* An undisturbed build leaves a binary whose two halves are of its configuration.
HalvesAgree == dut = "build" => Build!BuildTypeOK /\ Build!HalvesAgree
\* The multiplier's ports show the reference's product, PIPE_STAGES cycles later.
ProductIsReference == dut = "multiplier" => Mul!ProductIsReference

\* Each wrong arithmetic disagrees with some directed golden vector (gen_fxp_vectors.py).
VectorsTellApart == dut = "vectors" /\ job.done => SeenBy(job.file, job.fault) /\ Sound

(***************************************************************************)
(* The stages, twiddles, merge and order of the transform make a scaled    *)
(* DFT; in fixed point a frame without flags lost nothing, and a scaled    *)
(* stage saturates only upwards, by one step (gen_fft_vectors.py).         *)
(***************************************************************************)
TransformIsRight ==
  /\ dut = "ring fft" => Fft!Ring!FftTypeOK /\ Fft!TransformIsDft
  /\ dut = "fixed fft" => Fft!FlagsTellTheTruth

\* A lane of the filter bank convolves its own samples with its branch of the prototype.
LaneIsFilter == dut = "filter bank" => Bank!LaneIsFilter

(***************************************************************************)
(* A sweep whose tools return ends, also after a worker raised, and every  *)
(* request to the register plane is answered, also by a block that is dead.*)
(***************************************************************************)
ScriptsConclude ==
  /\ (dut = "calibration" /\ status = "running") ~> (dut = "calibration" /\ status # "running")
  /\ (dut = "plane" /\ port # NoRequest) ~> (dut = "plane" /\ port = NoRequest)
==============================================================================
