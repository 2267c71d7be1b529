---------------------------- MODULE MC_DirHash ----------------------------
(* Names a, b and c; files a, b/a and c/a, so that a tree has files at    *)
(* the root and in two sibling directories; roots "/r" and "."; prefixes  *)
(* "" and "m"; globs "*b" and "*c", each matching one directory.          *)
EXTENDS DirHash, TLC

a == <<97>>
b == <<98>>
c == <<99>>

MCNames == {a, b, c}
MCFiles == {<<a>>, <<b, a>>, <<c, a>>}
MCDirs == {<<47, 114>>, <<46>>}
MCHashPrefixes == {<<>>, <<109>>}
MCPatterns == {<<42, 98>>, <<42, 99>>}
(* For the sibling run: directory b and a sibling bc that b is a prefix   *)
(* of; for the root run: the root directory "/".                          *)
bc == <<98, 99>>
MCSiblingNames == {a, b, bc}
MCSiblingFiles == {<<a>>, <<b, a>>, <<bc, a>>}
MCSiblingContent == (<<a>> :> 1) @@ (<<b, a>> :> 2) @@ (<<bc, a>> :> 3)
MCRootDirs == {<<47>>}

MCContent == (<<a>> :> 1) @@ (<<b, a>> :> 2) @@ (<<c, a>> :> 3)
=============================================================================
