------------------------------ MODULE SimCount ------------------------------
(***************************************************************************)
(* The statistics that the studies of src/chips/sim/basement keep while    *)
(* they simulate a FRISC 3: cycles, cycles by type, instructions by type.  *)
(* They are the field stats of the machine of Frisc3; a study adds its own *)
(* counters.                                                               *)
(***************************************************************************)
EXTENDS Integers

Instrtypes == {"COLON", "BRANCH", "QBRANCH", "MICRO", "LOAD", "STORE", "LAL", "LAH"}
Cycletypes == {"INT", "EXEC", "LOAD", "STORE", "GRANT", "RSDEC", "RSSTORE", "RSLOAD", "RSINC",
               "PSDEC", "PSSTORE", "PSLOAD", "PSINC"}

(* The end of phase b of any cycle, and what Phib adds to it: by then the  *)
(* state is that of the cycle to come.                                     *)
Ticked(x) == [x EXCEPT !.stats.cycle = @ + 1]
Typed(x) == [x EXCEPT !.stats.cycletypes[x.state] = @ + 1]
Executed(x) == [x EXCEPT !.stats.instrtypes[x.oldir.type] = @ + 1]

Cleared(own) ==
  [cycle |-> 0, instrtypes |-> [t \in Instrtypes |-> 0], cycletypes |-> [t \in Cycletypes |-> 0],
   own |-> own]

(* The sum of the counts by type.                                          *)
Instructions(c) ==
  c.COLON + c.BRANCH + c.QBRANCH + c.MICRO + c.LOAD + c.STORE + c.LAL + c.LAH
Cycles(c) ==
  c.INT + c.EXEC + c.LOAD + c.STORE + c.GRANT + c.RSDEC + c.RSSTORE + c.RSLOAD + c.RSINC
    + c.PSDEC + c.PSSTORE + c.PSLOAD + c.PSINC

=============================================================================
