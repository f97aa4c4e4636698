---------------------------- MODULE CdcInventory ----------------------------
(***************************************************************************)
(* scripts/cdc_inventory.py: every instance of a module tagged as a clock- *)
(* domain crossing, with the nets its clocks come from, and every two-     *)
(* clock module nobody tagged.  `modules` is the elaborated netlist (ports,*)
(* parameters, instances and what their pins are connected to), `catalog`  *)
(* the tags found in the sources.  The parsing of the two is left out.     *)
(***************************************************************************)
EXTENDS Naturals, FiniteSets, Sequences, SequencesExt, Functions

CONSTANTS
  NoNet,     \* the pin is connected to something that is not a net
  Missing,   \* the attribute is not there
  Literal,   \* attribute values that are numbers
  ClockLike  \* the port names that look like clocks

Children(modules, name) ==
  {<<name, inst>> : inst \in DOMAIN modules[name].instances}
DefOf(modules, step) == modules[step[1]].instances[step[2]]

\* walk_cells: the stacks from the top down to every instance.
Stacks(modules, top) ==
  LET deeper[n \in Nat] ==
        IF n = 0 THEN {<< >>}
        ELSE LET Grown(stack) ==
                   LET inside == IF stack = << >> THEN top ELSE DefOf(modules, Last(stack)).def
                   IN  {Append(stack, step) : step \in Children(modules, inside)}
             IN  deeper[n - 1] \cup UNION {Grown(stack) : stack \in deeper[n - 1]}
  IN  deeper[Cardinality(DOMAIN modules)] \ {<< >>}

ModuleOf(modules, stack) == DefOf(modules, Last(stack)).def

\* resolve_net: outward through the pins for as long as the net is a port.
pin_of_any(modules, stack, at, net) ==
  DefOf(modules, stack[1]).ports[net]
Pin(modules, stack, at, net) == DefOf(modules, stack[at]).ports[net]

resolve_net(modules, stack, port) ==
  LET outward[n \in 0 .. Len(stack)] ==
        IF n = Len(stack) THEN [net |-> port, mod |-> ModuleOf(modules, stack), at |-> n]
        ELSE LET in == outward[n + 1]
                 pin == Pin(modules, stack, n + 1, in.net)
             IN  IF in.at # n + 1 \/ in.net \notin modules[in.mod].ports \/ pin = NoNet THEN in
                 ELSE [net |-> pin, mod |-> stack[n + 1][1], at |-> n]
  IN  [net |-> outward[0].net, is_top |-> modules[outward[0].mod].top]

Unresolved == [net |-> Missing, is_top |-> FALSE]

\* A literal, or the value of a parameter.
param_or_literal(spec, params) ==
  IF spec \in Literal THEN spec
  ELSE IF spec \in DOMAIN params THEN params[spec] ELSE Missing

Clock(modules, stack, port) ==
  IF port \in modules[ModuleOf(modules, stack)].ports THEN resolve_net(modules, stack, port)
  ELSE Unresolved
SourceClock(modules, stack, port) ==
  IF port = "@async" THEN [net |-> "@async", is_top |-> FALSE] ELSE Clock(modules, stack, port)

\* The nearest tagged instance around this one.
nearest_parent_primitive(tagged, stack) ==
  LET around == {n \in 1 .. Len(stack) - 1 : SubSeq(stack, 1, n) \in tagged}
  IN  IF around = {} THEN << >> ELSE SubSeq(stack, 1, CHOOSE n \in around : \A k \in around : n >= k)

build_report(modules, top, catalog) ==
  LET all    == Stacks(modules, top)
      Orig(s) == modules[ModuleOf(modules, s)].orig
      tagged == {s \in all : Orig(s) \in DOMAIN catalog}
      Entry(s) ==
        LET decl == catalog[Orig(s)]  params == modules[ModuleOf(modules, s)].params
        IN  [instance |-> s, type |-> decl.type,
             source |-> SourceClock(modules, s, decl.src_clk), dest |-> Clock(modules, s, decl.dst_clk),
             width |-> param_or_literal(decl.width, params),
             stages |-> param_or_literal(decl.stages, params),
             parent |-> nearest_parent_primitive(tagged, s)]
      Problem(e) == Missing \in {e.source.net, e.dest.net, e.width, e.stages}
      Untagged(s) == Cardinality(modules[ModuleOf(modules, s)].ports \cap ClockLike) >= 2
      crossings == {Entry(s) : s \in tagged}
  IN  [crossings |-> crossings,
       unknown   |-> {e.instance : e \in {x \in crossings : Problem(x)}}
                     \cup {s \in all \ tagged : Untagged(s)}]

\* main(): the exit status.
exit_status(report, strict, allow_empty) ==
  IF report.crossings = {} /\ ~allow_empty THEN 1
  ELSE IF strict /\ report.unknown # {} THEN 1 ELSE 0
-----------------------------------------------------------------------------
(***************************************************************************)
(* What is electrically one net: a node is a net of one instance, and a    *)
(* pin joins a port of an instance to a net around it.                     *)
(***************************************************************************)
Joined(modules, top) ==
  LET Inner(s) == {f \in modules[ModuleOf(modules, s)].ports \cap ClockLike :
                     DefOf(modules, Last(s)).ports[f] # NoNet}
  IN  UNION {{<< <<s, f>>, <<Front(s), DefOf(modules, Last(s)).ports[f]>> >> : f \in Inner(s)} :
               s \in Stacks(modules, top)}
OneNet(modules, top, node) ==
  LET joined == Joined(modules, top)
      Around(S) == S \cup {e[1] : e \in {x \in joined : x[2] \in S}}
                     \cup {e[2] : e \in {x \in joined : x[1] \in S}}
      grown[n \in Nat] == IF n = 0 THEN {node} ELSE Around(grown[n - 1])
  IN  grown[2 * Cardinality(DOMAIN modules)]
==============================================================================
