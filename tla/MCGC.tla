-------------------------------- MODULE MCGC --------------------------------
(***************************************************************************)
(* The collector on a heap of a few cells.  All kinds of object together   *)
(* are too many programs: in a behaviour of MCSpec the objects are of the  *)
(* kinds of one family.                                                    *)
(***************************************************************************)
EXTENDS GC

CONSTANT Families

VARIABLE family

\* Lists and dicts in each other, dicts of closures, of strings, of errors.
KindsTogether == {{"list", "dict"}, {"dict", "closure", "string"}, {"dict", "err"}}

AllKinds == {Objects}

MCInit == Init /\ family \in Families

MCNext ==
  /\ Next
  /\ \A id \in CellIds : cells'[id] \in family \cup {NullCell}
  /\ phase' # "run" => making'.kind \in family
  /\ UNCHANGED family

MCSpec == MCInit /\ [][MCNext]_<<vars, family>> /\ WF_vars(Collect)
=============================================================================
