------------------------------ MODULE TargetTable ------------------------------
(***************************************************************************)
(* What the target messages of a site mean, with no sockets, listeners or  *)
(* connections: each turns a table from listen port to destination into    *)
(* another.  Adding leaves a port that is in use alone, removing goes by   *)
(* port, and a sync replaces the whole table.  SiteTargets checks its list *)
(* of listeners against this.                                              *)
(***************************************************************************)
EXTENDS Integers, Sequences, SequencesExt

CONSTANT Bad             \* a specification that does not parse

Wellformed(specs) == SelectSeq(specs, LAMBDA s : s # Bad)

PortsIn(specs) == {s.port : s \in ToSet(Wellformed(specs))}

FirstFor(specs, p) ==
  LET ts == Wellformed(specs) IN ts[SelectInSeq(ts, LAMBDA s : s.port = p)].target

LastFor(specs, p) ==
  LET ts == Wellformed(specs) IN ts[SelectLastInSeq(ts, LAMBDA s : s.port = p)].target

Added(table, specs) ==
  [p \in DOMAIN table \cup PortsIn(specs) |->
     IF p \in DOMAIN table THEN table[p] ELSE FirstFor(specs, p)]

Removed(table, specs) == [p \in DOMAIN table \ PortsIn(specs) |-> table[p]]

Replaced(specs) == [p \in PortsIn(specs) |-> LastFor(specs, p)]
===============================================================================
