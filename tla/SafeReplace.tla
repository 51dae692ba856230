---------------------------- MODULE SafeReplace ----------------------------
(***************************************************************************)
(* What a replace promises (the PF-1 note in table_swap.rs): the rows the  *)
(* user had are given up only by the step that puts the new rows in their  *)
(* place, or after it.  `old` is where those rows are, `new` where the     *)
(* rows of the run are.                                                    *)
(***************************************************************************)
VARIABLES old, new

Build == new = "none" /\ new' = "scratch" /\ old' = old

Discard == new = "scratch" /\ old # "gone" /\ new' = "none" /\ old' = old

MoveAside == old = "target" /\ new # "target" /\ old' = "backup" /\ new' = new

PutBack == old = "backup" /\ new # "target" /\ old' = "target" /\ new' = new

Install ==
    /\ new = "scratch" /\ new' = "target"
    /\ IF old = "target" THEN old' \in {"backup", "gone"} ELSE old' = old

DropOld == old = "backup" /\ new = "target" /\ old' = "gone" /\ new' = new

Init == old \in {"target", "absent"} /\ new = "none"

Next == Build \/ Discard \/ MoveAside \/ PutBack \/ Install \/ DropOld

Spec == Init /\ [][Next]_<<old, new>>
=============================================================================
