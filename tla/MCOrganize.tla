------------------------------- MODULE MCOrganize -------------------------------
(***************************************************************************)
(* Three books for Organize: two editions with the same target, on another *)
(* filesystem, and a loose file in a root that is left empty when the file *)
(* goes to the library's first folder: into itself, if a later run knows   *)
(* its series and an earlier one did not.                                  *)
(***************************************************************************)
EXTENDS Organize

MCLibrary == [b \in Books |-> IF b = "tre" THEN "short" ELSE "long"]
MCParts == [b \in Books |-> IF b = "one" THEN {"1", "2"} ELSE IF b = "two" THEN {"1"} ELSE {"t"}]
MCRoots == {<<"lib">>, <<"loft">>}
MCMounts == MCRoots \cup {<<"lib", "ann">>}
MCFirst == [b \in Books |-> IF b = "tre" THEN <<"loft", "t">> ELSE <<"lib", "in", b>>]
MCRoot == [b \in Books |-> <<"lib">>]
MCLayout == [known \in BOOLEAN |-> [b \in Books |->
  IF b = "tre" THEN IF known THEN <<"bob", "tre", "tre">> ELSE <<"bob", "tre">>
  ELSE IF known THEN <<"ann", "saga", "one">> ELSE <<"ann", "one">>]]
MCStrangers == [s \in {"note", "cover"} |->
  IF s = "note" THEN <<"lib", "ann", "saga", "one", "1">> ELSE <<"lib", "in", "one", "c">>]

=================================================================================
