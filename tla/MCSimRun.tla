------------------------------ MODULE MCSimRun -------------------------------
(* A program of calls, some of them with an empty slot, and returns.       *)
EXTENDS SimRun

Slot == 2^(W-4)
Return == [type |-> "MICRO", reg1 |-> "ZERO", reg2 |-> "NONE", ps |-> 0, rs |-> -1, ret |-> TRUE,
           mode |-> "ALU", aluop |-> "NOPB", cin |-> "ZERO", cond |-> "EQUAL", flag |-> FALSE,
           bsrc |-> "DL"]
Program == << [type |-> "COLON", dest |-> 4], [type |-> "COLON", dest |-> 4 + Slot],
              [type |-> "BRANCH", dest |-> 0], 0, Return >>

MCBoot == Startat(Resetregs(Startup([c \in 0 .. 4 |-> Program[c + 1]])), 0)
=============================================================================
