----------------------------- MODULE MCIceService -----------------------------
(***************************************************************************)
(* Symmetry for model checking IceService: addresses of eice objects are   *)
(* interchangeable, session ids are not (std::map orders them and the      *)
(* reaping timer follows that order).                                      *)
(***************************************************************************)
EXTENDS IceService, TLC

EpSymmetry == Permutations(Eps)
==============================================================================
