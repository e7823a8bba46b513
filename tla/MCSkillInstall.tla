--------------------------- MODULE MCSkillInstall ---------------------------
(***************************************************************************)
(* The instances of SkillInstall that TLC checks.  In one, two commands    *)
(* meet: two targets that share the destination are served by one run or   *)
(* by one each, while the user edits a skill of two files.  In the other,  *)
(* one command at a time runs and reruns, and the destination may hold a   *)
(* file of the user's that the skill knows nothing of.                     *)
(***************************************************************************)
EXTENDS SkillInstall, TLC

Skilled(skill, reference, notes) ==
    [there |-> TRUE,
     files |-> [f \in Files |-> CASE f = "skill"     -> skill
                                  [] f = "reference" -> reference
                                  [] f = "notes"     -> notes]]

\* Nothing, this release, an older one with the user's words in it, and one
\* with a link.
MCUserDirs ==
    {Absent, Source, Skilled("old", "mine", "mine"), Skilled("old", "link", "none")}

MCSymmetry == Permutations(Commands) \cup Permutations(Stamps)

=============================================================================
