------------------------------ MODULE MCPaths ------------------------------
(***************************************************************************)
(* Every path of at most MaxDepth segments over names of each shape: plain *)
(* and hyphenated, suffixed once and twice, without a version, without a   *)
(* name, and files that are no packages.                                   *)
(***************************************************************************)
EXTENDS Paths

Files ==
  {<<"curl", "-", "1", ".pkg">>, <<"curl", "-", "1", "~hash10", ".pkg">>,
   <<"py", "-", "curl", "-", "2", "~hash10", ".pkg">>,
   <<"curl", "-", "1", "~hash10", "~hash10", ".pkg">>,
   <<"curl", "-", ".pkg">>, <<"-", "1", ".pkg">>, <<"py", "-", "curl", ".pkg">>, <<".pkg">>,
   <<"packagesite", ".pkg">>, <<"curl", "-", "1">>}

MCSegments == {EmptySegment, Dot, DotDot, packageDir, hashedDir, <<"repo">>} \cup Files

MCBase == <<<<"repo">>, Dot, packageDir, DotDot, <<"repo">>>>
=============================================================================
