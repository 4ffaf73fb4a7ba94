------------------------------- MODULE MCLibrary -------------------------------
(***************************************************************************)
(* A small vault: two course names of one slug, two modules of one number, *)
(* a title, a key, and the metadata of an earlier session repeated.        *)
(***************************************************************************)
EXTENDS Library, TLC

CONSTANTS c1, c2, GivenId

CallerSymmetry == Permutations(Callers)

MCCourses == {"Net", "net"}
MCModules == {[number |-> 1, name |-> "Basics"], [number |-> 1, name |-> "Intro"]}
MCTitles == {"Lecture"}
MCGiven == {Metadata(GivenId, 1, "Quiz")}
MCSlugOf == [name \in {"Net", "net", "Basics", "Intro"} |->
               IF name \in {"Net", "net"} THEN "net" ELSE name]

=============================================================================
