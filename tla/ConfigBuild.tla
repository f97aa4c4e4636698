----------------------------- MODULE ConfigBuild -----------------------------
(***************************************************************************)
(* scripts/build_verilator.py: a configuration turned into the package the *)
(* RTL reads and the header the C++ harness reads, and a binary built from *)
(* both.  Each configuration has a build directory of its own; the package *)
(* and the header are one pair for all of them.                            *)
(***************************************************************************)
EXTENDS Naturals, FiniteSets, Sequences, SequencesExt

CONSTANTS
  Configs,   \* the files of config/: name, sized, invariant, params
  Builds,    \* the runs of the script that may be under way at once
  MaxBuilds  \* bound on the runs

VARIABLES
  pkg,      \* config_pkg.sv: a configuration, or NoConfig
  header,   \* config_sim.h: likewise
  build,    \* build[b]: the run: its place, its arguments, what verilator read
  binary,   \* binary[name]: the pair it was built from, NoBinary for none
  launched  \* runs so far

buildVars == <<pkg, header, build, binary, launched>>

NoConfig == "none"
NoBinary == [rtl |-> NoConfig, harness |-> NoConfig]
Names    == {c.name : c \in Configs}
Config(name) == CHOOSE c \in Configs : c.name = name

clog2(n) == CHOOSE w \in 0 .. n : 2 ^ w >= n /\ (w > 0 => 2 ^ (w - 1) < n)

\* The mirror of stream_pkg's layout.
derive_stream_params(params) ==
  LET data_w == 2 * params.SAMPLE_W
      id_w   == IF clog2(params.N_ANTENNAS) > 2 THEN clog2(params.N_ANTENNAS) ELSE 2
      seq_w  == 16
      user_w == 4
      eof    == user_w + seq_w + id_w
  IN  [data_w |-> data_w, id_w |-> id_w, seq_w |-> seq_w, user_w |-> user_w,
       user |-> 0, seq |-> user_w, id |-> user_w + seq_w, eof |-> eof, sof |-> eof + 1,
       data |-> eof + 2, end |-> eof + 2 + data_w]

\* The two faces, as the sequence of what they declare; the pieces keep their order,
\* except that the header sorts the parameters and the package the unclassified ones.
Pairs(params, keys)  == [i \in DOMAIN keys |-> <<keys[i], params[keys[i]]>>]
InSomeOrder(S)       == SetToSeq(S)
render_config_pkg(c) ==
  LET extra == DOMAIN c.params \ (Range(c.sized) \cup Range(c.invariant))
  IN  [params |-> Pairs(c.params, c.sized) \o Pairs(c.params, c.invariant)
                    \o Pairs(c.params, InSomeOrder(extra)),
       stream |-> derive_stream_params(c.params)]
render_config_header(c) ==
  [params |-> Pairs(c.params, InSomeOrder(DOMAIN c.params)),
   stream |-> derive_stream_params(c.params)]

Resting == [at |-> "idle", config |-> NoConfig, only |-> FALSE, lint |-> FALSE, rtl |-> NoConfig,
            alone |-> TRUE, exit |-> 0]

BuildInit ==
  /\ pkg = NoConfig /\ header = NoConfig /\ launched = 0
  /\ build = [b \in Builds |-> Resting]
  /\ binary = [name \in Names |-> NoBinary]

Under(b) == build[b].at \notin {"idle", "ended"}

\* main() up to the first file.  An unknown configuration, or no verilator, ends it.
Begin(b, name, only, lint, clean) ==
  /\ ~Under(b) /\ launched < MaxBuilds /\ launched' = launched + 1
  /\ build' = [q \in Builds |->
       IF q # b THEN (IF Under(q) THEN [build[q] EXCEPT !.alone = FALSE] ELSE Resting)
       ELSE [Resting EXCEPT !.at = "config", !.config = name, !.only = only, !.lint = lint,
                            !.alone = \A r \in Builds \ {b} : ~Under(r)]]
  /\ binary' = [n \in Names |-> IF clean /\ ~only /\ n = name THEN NoBinary ELSE binary[n]]
  /\ UNCHANGED <<pkg, header>>

Leave(b, code) == build' = [build EXCEPT ![b].at = "ended", ![b].exit = code]
Go(b, at)      == build' = [build EXCEPT ![b].at = at]

\* generate_config: each file is written if it differs.
written_once(b) == IF pkg = NoConfig THEN build[b].config ELSE pkg
Rewritten(b) == build[b].config
WritePkg(b) ==
  /\ build[b].at = "config" /\ pkg' = Rewritten(b)
  /\ Go(b, "header") /\ UNCHANGED <<header, binary, launched>>
WriteHeader(b) ==
  /\ build[b].at = "header" /\ header' = build[b].config
  /\ IF build[b].only THEN Leave(b, 0) ELSE Go(b, "verilate")
  /\ UNCHANGED <<pkg, binary, launched>>

\* No such test, or verilator fails on the RTL: the directory keeps its old binary.
BuildFails(b) ==
  /\ build[b].at \in {"verilate", "compile"} /\ Leave(b, 1)
  /\ UNCHANGED <<pkg, header, binary, launched>>
Verilate(b) ==
  /\ build[b].at = "verilate"
  /\ IF build[b].lint THEN Leave(b, 0)
     ELSE build' = [build EXCEPT ![b].at = "compile", ![b].rtl = pkg]
  /\ UNCHANGED <<pkg, header, binary, launched>>
Compile(b) ==
  /\ build[b].at = "compile" /\ Leave(b, 0)
  /\ binary' = [binary EXCEPT ![build[b].config] = [rtl |-> build[b].rtl, harness |-> header]]
  /\ UNCHANGED <<pkg, header, launched>>

\* The run is killed; what it was writing may be torn.
KillBuild(b) ==
  /\ Under(b) /\ build' = [build EXCEPT ![b] = Resting]
  /\ pkg' \in {pkg} \cup (IF build[b].at = "config" THEN {NoConfig} ELSE {})
  /\ header' \in {header} \cup (IF build[b].at = "header" THEN {NoConfig} ELSE {})
  /\ UNCHANGED <<binary, launched>>

BuildRun(b) == WritePkg(b) \/ WriteHeader(b) \/ BuildFails(b) \/ Verilate(b) \/ Compile(b)
BuildStep == \E b \in Builds : BuildRun(b)
BuildNext ==
  \/ \E b \in Builds, name \in Names, only, lint, clean \in BOOLEAN : Begin(b, name, only, lint, clean)
  \/ BuildStep
  \/ \E b \in Builds : KillBuild(b)
-----------------------------------------------------------------------------
BuildTypeOK ==
  /\ pkg \in Names \cup {NoConfig} /\ header \in Names \cup {NoConfig}
  /\ launched \in 0 .. MaxBuilds
  /\ \A n \in Names : binary[n].rtl \in Names \cup {NoConfig}

\* stream_pkg.sv: stream_layout_bit, from the widths alone; `benchmark_sim_top` compares
\* it at time 0 with what config_pkg says.
stream_layout_bit(g, sel) ==
  CASE sel = "user" -> 0
    [] sel = "seq"  -> g.user_w
    [] sel = "id"   -> g.user_w + g.seq_w
    [] sel = "eof"  -> g.user_w + g.seq_w + g.id_w
    [] sel = "sof"  -> g.user_w + g.seq_w + g.id_w + 1
    [] sel = "data" -> g.user_w + g.seq_w + g.id_w + 2
    [] OTHER        -> g.user_w + g.seq_w + g.id_w + 2 + g.data_w
LayoutIsThePackages(stream) ==
  \A sel \in {"user", "seq", "id", "eof", "sof", "data", "end"} :
    stream[sel] = stream_layout_bit(stream, sel)

\* A declared stream has an identifier for every antenna, and every name one declaration.
Declares(face, c) ==
  /\ Len(face.params) = Cardinality(DOMAIN c.params)
  /\ Range(face.params) = {<<k, c.params[k]>> : k \in DOMAIN c.params}
  /\ 2 ^ face.stream.id_w >= c.params.N_ANTENNAS /\ face.stream.id_w >= 2

(***************************************************************************)
(* A build that nothing disturbed and that ends with 0 leaves a binary     *)
(* whose RTL and harness are both of its configuration, whatever was built *)
(* before and wherever that was killed: both declare every parameter of    *)
(* the file once, with its value, and the layout the stream package gives. *)
(***************************************************************************)
HalvesAgree ==
  \A b \in Builds :
    build[b].at = "ended" /\ build[b].exit = 0 /\ build[b].alone
      /\ ~build[b].only /\ ~build[b].lint =>
    LET c == Config(build[b].config)  built == binary[build[b].config]
    IN  /\ built = [rtl |-> c.name, harness |-> c.name]
        /\ Declares(render_config_pkg(c), c) /\ Declares(render_config_header(c), c)
        /\ LayoutIsThePackages(render_config_pkg(c).stream)
        /\ render_config_header(c).stream = render_config_pkg(c).stream
==============================================================================
