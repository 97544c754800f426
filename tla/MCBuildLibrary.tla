--------------------------- MODULE MCBuildLibrary ---------------------------
(* Values for BuildLibrary: a mod that requires another, in its first       *)
(* version, two mods of CurseForge that require each other, and a local     *)
(* file with the name of the second version of the required one; a pack of  *)
(* each catalogue.                                                          *)
EXTENDS BuildLibrary

CONSTANTS one, other, mod, library, foreign, partner, own, rinthPack, forgePack

MCBuilds == {one, other}
MCProjects == {mod, library, foreign, partner, own}
MCLocals == {own}
MCCurseForge == {foreign, partner, forgePack}
MCPacks == {rinthPack, forgePack}
MCNames ==
  {"mod1", "mod2", "library1", "library2", "foreign1", "foreign2", "partner1", "partner2",
   "config", "forge", "inventory"}
MCPaths == MCNames \X {"on", "off"}
MCFileName == [f \in MCProjects \X (1..2) |->
  LET first == f[2] = 1
  IN  CASE f[1] = mod     -> IF first THEN "mod1" ELSE "mod2"
        [] f[1] = foreign -> IF first THEN "foreign1" ELSE "foreign2"
        [] f[1] = partner -> IF first THEN "partner1" ELSE "partner2"
        [] f[1] = library -> IF first THEN "library1" ELSE "library2"
        [] f[1] = own     -> "library2"]
MCRequires == [p \in MCProjects |->
  CASE p = mod     -> <<[project |-> library, pin |-> 1]>>
    [] p = foreign -> <<[project |-> partner, pin |-> 0]>>
    [] p = partner -> <<[project |-> foreign, pin |-> 0]>>
    [] OTHER       -> <<>>]
MCPackFiles == [k \in MCPacks |-> IF k = rinthPack THEN {<<library, 2>>} ELSE {<<foreign, 1>>}]
MCPackLoader == [k \in MCPacks |-> IF k = rinthPack THEN "fabric" ELSE "forge"]
=============================================================================
