------------------------------ MODULE MCKomodo ------------------------------
(***************************************************************************)
(* Instances of the Komodo monitor for TLC.  Each configuration lists the  *)
(* page numbers that callers pass in each parameter position: few of them  *)
(* in all positions, or more of them with a role each.                     *)
(***************************************************************************)
EXTENDS KomodoRefinement, TLC

CONSTANTS Addrspaces, L1pts, L2pts, L3pts, Dispatchers, Datas, Indices, Insecures

MCArg ==
  [addrspace |-> Addrspaces, l1pt |-> L1pts, l2pt |-> L2pts, l3pt |-> L3pts,
   dispatcher |-> Dispatchers, data |-> Datas, index |-> Indices,
   insecure |-> Insecures]

(* One kind of mapping: an enclave that may write its pages.               *)
MCMapping == {{"R", "W"}}

(* No step depends on a0 or on the live mepc: both are left out.           *)
MCView == <<db, memory, world, ctx, cpu>>

(* Page number 0 is special, the others are interchangeable, and so are    *)
(* the indices into a table.                                               *)
MCSymmetry == Permutations(Page \ {PageZero}) \cup Permutations(Index)
=============================================================================
