---- MODULE MCPollingControl ----
(***************************************************************************)
(* A small instance of PollingControl: one function that operators enable  *)
(* and disable, whose table is written too, and one whose rate they        *)
(* change, whose table is only read.                                       *)
(***************************************************************************)
EXTENDS PollingControl

MCChange ==
  {[function |-> 1, change |-> [enabled |-> on]] : on \in BOOLEAN}
    \union {[function |-> 2, change |-> [rate |-> r]] : r \in Rate}

MCSettings == [Function -> {[enabled |-> TRUE, rate |-> 4]}]
====
