----------------------------- MODULE MCKeystone -----------------------------
(***************************************************************************)
(* The bounds of regions, in bytes, that the host passes when the payload  *)
(* memory is three granules: good ones that overlap, touch, or are apart,  *)
(* one that is not aligned, one that is empty, and one past the end.       *)
(***************************************************************************)
EXTENDS Keystone

MCSecure == {<<0, 4>>, <<4, 8>>, <<0, 8>>, <<2, 6>>, <<4, 4>>, <<8, 16>>}

MCShared == {<<4, 12>>, <<8, 12>>, <<0, 6>>}
=============================================================================
