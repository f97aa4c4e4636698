---------------------------- MODULE RegisterPlane ----------------------------
(***************************************************************************)
(* The register plane, from one source document to the answers software    *)
(* gets.                                                                   *)
(*                                                                         *)
(* scripts/gen_regmap.py: the document checked and resolved, and its two   *)
(* generated faces, the SystemVerilog tables that the decode and the       *)
(* access engine read and the C++ tables that software addresses registers *)
(* with.  A data word is the set of its one bits, an identifier any value; *)
(* comments, widths of literals and the Markdown page are left out.        *)
(***************************************************************************)
EXTENDS Naturals, FiniteSets, Sequences, SequencesExt

CONSTANTS
  DATA_W,    \* bits of a register
  Window,    \* block_window_bytes
  AddrSpace, \* 2 ^ address_width
  SPEC9_GROUPS  \* the register groups some block has to claim

Bit  == 0 .. DATA_W - 1
Word == SUBSET Bit
ACCESS == {"RO", "ROHW", "RW", "W1C", "RWP"}

FieldBits(f)  == f.lsb .. f.lsb + f.width - 1
Apart(S, T)   == S \cap T = {}
Pairwise(seq, Op(_, _)) == \A i, j \in DOMAIN seq : i # j => Op(seq[i], seq[j])

\* The checks of one field, of one register and of one block.
FieldLegal(f) ==
  /\ f.width >= 1 /\ f.lsb + f.width <= DATA_W
  /\ f.access \in ACCESS
  /\ \A b \in f.reset : b < f.width
  /\ f.reset # {} => f.access \in {"RO", "RW"}

RegisterLegal(r) ==
  /\ r.fields # << >> /\ \A f \in Range(r.fields) : FieldLegal(f)
  /\ Pairwise(r.fields, LAMBDA f, g : f.name # g.name /\ Apart(FieldBits(f), FieldBits(g)))

BlockLegal(b) ==
  /\ b.base % Window = 0 /\ b.base + Window <= AddrSpace
  /\ b.groups # {} /\ b.groups \subseteq SPEC9_GROUPS
  /\ b.implemented <=> b.registers # << >>
  /\ Len(b.registers) * 4 <= Window
  /\ \A i \in DOMAIN b.registers :
       b.registers[i].offset = 4 * (i - 1) /\ RegisterLegal(b.registers[i])
  /\ Pairwise(b.registers, LAMBDA r, s : r.name # s.name)

Span(b) == b.base .. b.base + Window - 1

\* elaborate() raises unless all of it holds.
windows_unchecked(doc) ==
  /\ doc # << >> /\ \A b \in Range(doc) : BlockLegal(b)
  /\ \E b \in Range(doc) : b.implemented
  /\ UNION {b.groups : b \in Range(doc)} = SPEC9_GROUPS
Legal(doc) ==
  /\ doc # << >> /\ \A b \in Range(doc) : BlockLegal(b)
  /\ Pairwise(doc, LAMBDA b, c : b.name # c.name /\ Apart(Span(b), Span(c)))
  /\ \E b \in Range(doc) : b.implemented
  /\ UNION {b.groups : b \in Range(doc)} = SPEC9_GROUPS

\* A register resolved: its address and the masks its fields add up to.
Bits(r, access) == UNION {FieldBits(f) : f \in {g \in Range(r.fields) : g.access = access}}
Resolved(b, r) ==
  [address |-> b.base + r.offset,
   reset   |-> UNION {{f.lsb + n : n \in f.reset} : f \in Range(r.fields)},
   wmask   |-> Bits(r, "RW"), w1c |-> Bits(r, "W1C"), pulse |-> Bits(r, "RWP"),
   hw      |-> Bits(r, "ROHW")]
Writable(r) == r.wmask \cup r.w1c \cup r.pulse

elaborate(doc) ==
  [i \in DOMAIN doc |->
     [base |-> doc[i].base, size |-> Window, implemented |-> doc[i].implemented,
      registers |-> [n \in DOMAIN doc[i].registers |-> Resolved(doc[i], doc[i].registers[n])]]]

\* The implemented blocks among the first n, in the order of the document.
Implemented(m) ==
  LET among[n \in 0 .. Len(m)] ==
        IF n = 0 THEN << >>
        ELSE IF m[n].implemented THEN Append(among[n - 1], m[n]) ELSE among[n - 1]
  IN  among[Len(m)]

(***************************************************************************)
(* regmap_pkg.sv.  A flat vector is written most significant entry first;  *)
(* [i*W +: W] reads entry i from the other end.                            *)
(***************************************************************************)
flat_table(values) == Reverse(values)
Slice(vector, i)   == vector[Len(vector) - i]

render_sv(m) ==
  LET impl == Implemented(m)
  IN  [IMPL_BASE |-> Reverse([i \in DOMAIN impl |-> impl[i].base]),
       tables    |-> [i \in DOMAIN impl |-> flat_table(impl[i].registers)]]

(***************************************************************************)
(* regmap.hpp: one row per block, one per register of an implemented one,  *)
(* which names the block and the register's index in it (from 1 here); the *)
(* array holds the rows in that order.                                     *)
(***************************************************************************)
Rows(impl) == UNION {{<<i, n>> : n \in DOMAIN impl[i].registers} : i \in DOMAIN impl}
render_hpp(m) ==
  [kBlocks    |-> [i \in DOMAIN m |-> [base |-> m[i].base, size |-> m[i].size,
                                       implemented |-> m[i].implemented,
                                       reg_count |-> Len(m[i].registers)]],
   kRegisters |-> LET impl == Implemented(m)
                  IN  [row \in Rows(impl) |-> impl[row[1]].registers[row[2]]]]

\* The first implemented block whose window holds the address decides.
address_mapped(hpp, address) ==
  LET b(i)    == hpp.kBlocks[i]
      holding == {i \in DOMAIN hpp.kBlocks :
                    b(i).implemented /\ address >= b(i).base /\ address < b(i).base + b(i).size}
  IN  \E i \in holding : /\ \A j \in holding : i <= j
                         /\ address - b(i).base < b(i).reg_count * 4

\* find(): the first row of the address, NoRow for none.
NoRow == << >>
find(hpp, address) ==
  LET held == {row \in DOMAIN hpp.kRegisters : hpp.kRegisters[row].address = address}
  IN  IF held = {} THEN NoRow
      ELSE CHOOSE row \in held :
             \A other \in held : row[1] < other[1] \/ (row[1] = other[1] /\ row[2] <= other[2])

-----------------------------------------------------------------------------
(* The hardware over the first and the software over the second:           *)
(* rtl/control/reg_fabric.sv and reg_csr_block.sv, and the model of        *)
(* sim/tests/test_control_regs.cpp.  One step is a cycle of cfg_clk.       *)

CONSTANTS
  Sources,         \* the source documents considered
  Addresses,       \* byte addresses the master uses
  WATCHDOG_CYCLES, \* cycles the fabric waits for a block
  NoRequest        \* the master's port at rest

VARIABLES
  source,   \* the document, what became of it, and the block that is dead, if any
  files,    \* regmap_pkg.sv and regmap.hpp
  fabric,   \* busy_q, sel_q, err_q, read_q, wd_q
  port,     \* the master's request, held until it is answered
  blocks,   \* blocks[b]: storage of each register and the registered response
  shadow,   \* RegModel: storage_ of every row of kRegisters
  expected, \* the response RegModel predicts for the request under way
  answer    \* the last cycle's read_data and error, when ready was high

planeVars == <<source, files, fabric, port, blocks, shadow, expected, answer>>

IdleFabric == [busy |-> FALSE, sel |-> {}, err |-> FALSE, read |-> FALSE, wd |-> 0]
Silent     == [ready |-> FALSE, error |-> FALSE, data |-> {}]
NoAnswer   == Silent

sv  == files.sv
hpp == files.hpp
Blocks  == DOMAIN sv.tables
N_REGS(b) == Len(sv.tables[b])
Table(b, i) == Slice(sv.tables[b], i)

PlaneInit ==
  /\ source \in [doc : Sources, dead : SUBSET {1}, state : {"read"}]
  /\ source.dead # {} => Len(Implemented(source.doc)) > 1
  /\ files = [sv |-> [tables |-> << >>], hpp |-> [kRegisters |-> << >>]]
  /\ fabric = IdleFabric /\ port = NoRequest /\ blocks = << >> /\ shadow = << >>
  /\ expected = NoAnswer /\ answer = NoAnswer

\* The generator runs; the hardware built from its tables, and the software, reset.
Generate ==
  /\ source.state = "read"
  /\ source' = [source EXCEPT !.state = IF Legal(source.doc) THEN "built" ELSE "rejected"]
  /\ IF Legal(source.doc)
     THEN LET m == elaborate(source.doc)
          IN  /\ files' = [sv |-> render_sv(m), hpp |-> render_hpp(m)]
              /\ blocks' = [b \in Blocks' |->
                              [q |-> [i \in 0 .. N_REGS(b)' - 1 |-> Table(b, i)'.reset],
                               rsp |-> Silent]]
              /\ shadow' = [n \in DOMAIN hpp'.kRegisters |-> hpp'.kRegisters[n].reset]
     ELSE UNCHANGED <<files, blocks, shadow>>
  /\ UNCHANGED <<fabric, port, expected, answer>>

Requests ==
  [address : Addresses, we : {TRUE}, re : {FALSE}, data : Word, be : {{}, {0}, Bit}]
  \cup [address : Addresses, we : BOOLEAN, re : {TRUE}, data : {{}}, be : {Bit}]

reg_req_malformed(r) ==
  (r.we /\ r.re) \/ r.address % 4 # 0 \/ (r.we /\ ~r.re /\ r.be = {})

\* The high address bits are compared with every base of the flat vector.
hit(r)   == {b \in Blocks : r.address \div Window = Slice(sv.IMPL_BASE, b - 1) \div Window}
Index(r) == (r.address % Window) \div 4
Routed(r) == IF reg_req_malformed(r) THEN {} ELSE hit(r)

(***************************************************************************)
(* reg_csr_block: one cycle of a block.  `event` is what the hardware does *)
(* in it: the bits of hw_set and hw_value at one register.                 *)
(***************************************************************************)
clear_beats_set(q, t, be, data, set) ==
  LET stored == (q \ (t.wmask \cap be)) \cup (data \cap t.wmask \cap be)
  IN  ((stored \cup (set \cap t.w1c)) \ (data \cap t.w1c \cap be)) \ t.pulse
NextStorage(q, t, be, data, set) ==
  LET stored == (q \ (t.wmask \cap be)) \cup (data \cap t.wmask \cap be)
  IN  ((stored \ (data \cap t.w1c \cap be)) \cup (set \cap t.w1c)) \ t.pulse

\* Only the addressed register of the selected block is written, and only if it has a
\* writable bit; the response is registered.
BlockCycle(b, selected, r, event) ==
  LET at(i)   == event.at = Table(b, i).address
      here(i) == selected /\ r.we /\ i = Index(r) /\ Writable(Table(b, i)) # {}
      q       == blocks[b].q
      known   == Index(r) < N_REGS(b)
      row     == Table(b, Index(r))
      live    == IF at(Index(r)) THEN event.value ELSE {}
  IN  [q   |-> [i \in DOMAIN q |-> NextStorage(q[i], Table(b, i), IF here(i) THEN r.be ELSE {},
                                               r.data, IF at(i) THEN event.set ELSE {})],
       rsp |-> IF ~selected THEN Silent
               ELSE IF ~known THEN [ready |-> TRUE, error |-> TRUE, data |-> {}]
               ELSE [ready |-> TRUE, error |-> r.we /\ Writable(row) = {},
                     data |-> IF r.re THEN (q[Index(r)] \ row.hw) \cup (live \cap row.hw)
                                      ELSE {}]]
Clocked(selected, r, event) ==
  blocks' = [b \in Blocks |-> BlockCycle(b, b \in selected \ source.dead, r, event)]

(***************************************************************************)
(* RegModel: access() predicts the response, the hardware's events reach   *)
(* its storage after it.                                                   *)
(***************************************************************************)
Named(address) == find(hpp, address)
read_value(n, event) ==
  LET row == hpp.kRegisters[n]
  IN  (shadow[n] \ row.hw) \cup (IF event.at = row.address THEN event.value \cap row.hw ELSE {})
apply_write(n, r) ==
  LET row   == hpp.kRegisters[n]
      plain == (shadow[n] \ (row.wmask \cap r.be)) \cup (r.data \cap row.wmask \cap r.be)
  IN  (plain \ (r.data \cap row.w1c \cap r.be)) \ row.pulse

Refused(r) ==
  \/ reg_req_malformed(r) \/ Named(r.address) = NoRow
  \/ r.we /\ Writable(hpp.kRegisters[Named(r.address)]) = {}
access(r, event) ==
  [ready |-> TRUE, error |-> Refused(r),
   data  |-> IF ~Refused(r) /\ r.re THEN read_value(Named(r.address), event) ELSE {}]
Stored(n, r, event) ==
  (IF ~Refused(r) /\ r.we /\ n = Named(r.address) THEN apply_write(n, r) ELSE shadow[n])
  \cup (IF event.at = hpp.kRegisters[n].address THEN event.set \cap hpp.kRegisters[n].w1c ELSE {})
Shadowed(r, event) == shadow' = [n \in DOMAIN shadow |-> Stored(n, r, event)]

(***************************************************************************)
(* The cycles of the fabric.                                               *)
(***************************************************************************)
blk_resp == \E b \in fabric.sel : blocks[b].rsp.ready
wd_fire  == fabric.wd >= WATCHDOG_CYCLES
Done     == fabric.busy /\ (fabric.err \/ blk_resp \/ wd_fire)
Failed   == fabric.err \/ wd_fire \/ \E b \in fabric.sel : blocks[b].rsp.error
\* wd_q is as wide as WATCHDOG_CYCLES needs, and wraps.
WdRange  == CHOOSE n \in {2 ^ w : w \in 1 .. WATCHDOG_CYCLES} :
              n > WATCHDOG_CYCLES /\ \A w \in 1 .. WATCHDOG_CYCLES : 2 ^ w > WATCHDOG_CYCLES => n <= 2 ^ w
Nothing  == [address |-> 0, we |-> FALSE, re |-> FALSE, data |-> {}, be |-> {}]

Accept(r, event) ==
  /\ source.state = "built" /\ port = NoRequest /\ port' = r
  /\ fabric' = [busy |-> TRUE, sel |-> Routed(r), err |-> Routed(r) = {},
                read |-> r.re /\ ~reg_req_malformed(r), wd |-> 0]
  /\ Clocked(Routed(r), r, event) /\ Shadowed(r, event)
  /\ expected' = [access(r, event) EXCEPT !.error = @ \/ Routed(r) \cap source.dead # {},
                                          !.data = IF Routed(r) \cap source.dead = {} THEN @ ELSE {}]
  /\ answer' = NoAnswer /\ UNCHANGED <<source, files>>

Wait(event) ==
  /\ fabric.busy /\ ~Done
  /\ fabric' = [fabric EXCEPT !.wd = (@ + 1) % WdRange]
  /\ Clocked({}, Nothing, event) /\ Shadowed(Nothing, event)
  /\ UNCHANGED <<source, files, port, expected, answer>>

Respond(event) ==
  /\ Done /\ fabric' = IdleFabric /\ port' = NoRequest
  /\ answer' = [ready |-> TRUE, error |-> Failed,
                data |-> IF fabric.read /\ ~Failed
                         THEN UNION {blocks[b].rsp.data : b \in fabric.sel} ELSE {}]
  /\ Clocked({}, Nothing, event) /\ Shadowed(Nothing, event)
  /\ UNCHANGED <<source, files, expected>>

Rest(event) ==
  /\ source.state = "built" /\ ~fabric.busy /\ port = NoRequest
  /\ Clocked({}, Nothing, event) /\ Shadowed(Nothing, event)
  /\ answer' = NoAnswer /\ expected' = NoAnswer /\ UNCHANGED <<source, files, fabric, port>>

\* The hardware touches one register of the map in a cycle, or none.
Events ==
  {[at |-> AddrSpace, set |-> {}, value |-> {}]}
  \cup UNION {[at : {row.address}, set : SUBSET row.w1c, value : SUBSET row.hw]
                : row \in Range(hpp.kRegisters)}

PlaneStep == Generate \/ \E event \in Events : Wait(event) \/ Respond(event)
PlaneNext ==
  \/ PlaneStep
  \/ source.state = "built" /\ \E event \in Events :
       Rest(event) \/ \E r \in Requests : Accept(r, event)
-----------------------------------------------------------------------------
(***************************************************************************)
(* For every source document the generator accepts, an address is a        *)
(* register of the C++ tables exactly when one block of the hardware       *)
(* decodes it and has a register at its index, and both faces then give    *)
(* that register the same masks.                                           *)
(***************************************************************************)
Decoded(a) == [Nothing EXCEPT !.address = a, !.re = TRUE]
DecodersAgree ==
  source.state = "built" =>
    \A a \in {x \in 0 .. AddrSpace - 1 : x % 4 = 0} :
      LET in_hw == {b \in hit(Decoded(a)) : Index(Decoded(a)) < N_REGS(b)}
      IN  /\ address_mapped(hpp, a) <=> Named(a) # NoRow
          /\ Named(a) # NoRow => hpp.kRegisters[Named(a)] \in {Table(b, Index(Decoded(a))) : b \in in_hw}
          /\ Cardinality(in_hw) = IF Named(a) # NoRow THEN 1 ELSE 0

(***************************************************************************)
(* Every answer of the plane is the one the software's model predicted     *)
(* when the request went out, whatever the hardware set meanwhile, and a   *)
(* block that never answers costs an error and nothing else.               *)
(***************************************************************************)
PredictionsHold == answer.ready => answer = expected

==============================================================================
