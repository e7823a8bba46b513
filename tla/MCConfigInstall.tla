--------------------------- MODULE MCConfigInstall ---------------------------
(***************************************************************************)
(* The instance of ConfigInstall that TLC checks: two commands, two runs   *)
(* between them, so that one is killed and run again or two run at once,   *)
(* and one save by the user at any moment.                                 *)
(***************************************************************************)
EXTENDS ConfigInstall, TLC

MCUserTexts ==
    {Absent, Empty, Broken, Misfit,
     Config({"a"}, "users"), Config({"a", Winkit}, "users")}

MCSymmetry == Permutations(Installers)

=============================================================================
