--------------------------- MODULE MCUpdateHandler --------------------------
(***************************************************************************)
(* Two components, one updated before the other or both together, and one  *)
(* that the configuration may lose.  MCComponent is a single one, for      *)
(* longer histories.                                                       *)
(***************************************************************************)
EXTENDS UpdateHandler, TLC

CONSTANTS rootfs, firmware

MCComponents == {rootfs, firmware}

MCOrdered == (rootfs :> 2) @@ (firmware :> 1)

MCTogether == (rootfs :> 1) @@ (firmware :> 1)

MCComponent == {rootfs}

MCSingle == (rootfs :> 1)

MCRemovable == {firmware}
=============================================================================
