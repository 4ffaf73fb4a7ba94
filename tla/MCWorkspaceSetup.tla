--------------------------- MODULE MCWorkspaceSetup ---------------------------
(***************************************************************************)
(* Two roots, one of them a workspace of one document; a server and a      *)
(* command.                                                                *)
(***************************************************************************)
EXTENDS WorkspaceSetup

CONSTANTS p1, p2, A, B, Readme

MCContract ==
  << [path |-> <<"README">>, content |-> Readme] >>

=============================================================================
