----------------------------- MODULE MemoryMap -----------------------------
(***************************************************************************)
(* Memory protection of the core: which rules an address has under the     *)
(* regions that are in force, and what use they allow.  Addresses are in   *)
(* pages of 4 KB.                                                          *)
(***************************************************************************)
EXTENDS Integers

(* What the last region that holds an address says of it, or the default   *)
(* map of the core.                                                        *)
DefaultMemory(a) ==
    CASE \h40000 <= a /\ a < \h60000 -> "device"
      [] \hA0000 <= a -> "device"
      [] OTHER -> "write_back"
Default(a) == [code |-> TRUE, access |-> "full", memory |-> DefaultMemory(a)]
Rules(regions, a) ==
    LET holding == {n \in DOMAIN regions : regions[n].from <= a /\ a < regions[n].upto} IN
    IF holding = {} THEN Default(a)
    ELSE regions[CHOOSE n \in holding : \A m \in holding : m <= n]

Fits(use, r) ==
    LET normal == r.memory \in {"write_back", "write_through", "uncached"}
    IN CASE use = "code" -> r.code /\ r.access # "none" /\ normal
         [] use = "constants" -> r.access # "none" /\ normal
         [] use = "data" -> r.access = "full" /\ normal
         [] use = "code_in_ram" -> r.code /\ r.access = "full" /\ normal
         [] use = "uncached" -> r.access = "full" /\ r.memory \in {"uncached", "device"}
         [] use = "registers" -> r.access = "full" /\ r.memory = "device"
         [] use = "nothing" -> r.access = "none"

(* Where the rules can change: the ends of a section, those of every       *)
(* region, and those of the parts of the default map.                      *)
Edges(s, regions) ==
    {s.from, s.upto - 1} \cup {\h40000, \h60000, \hA0000}
    \cup UNION {{regions[n].from, regions[n].upto} : n \in DOMAIN regions}

(* The rules allow what a section is used for, at the edges that lie in it.*)
SectionFits(s, regions) ==
    \A a \in Edges(s, regions) : s.from <= a /\ a < s.upto => Fits(s.use, Rules(regions, a))
=============================================================================
