--------------------------- MODULE MCKomodoDriver ---------------------------
(***************************************************************************)
(* The driver with the seven pages and the three indices that it uses.     *)
(***************************************************************************)
EXTENDS KomodoDriver

MCMapping == {{"R", "W"}, {"R", "X"}}

(* The driver names the arguments of its calls itself.                     *)
MCArg == [a \in {"addrspace", "l1pt", "l2pt", "l3pt", "dispatcher", "data",
                 "index", "insecure"} |-> {}]
=============================================================================
