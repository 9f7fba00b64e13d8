---------------------------- MODULE MCConfigCache ----------------------------
(* Instance of ConfigCache for TLC: the projects outnumber the cache. *)
EXTENDS ConfigCache, TLC

MCSymmetry ==
  Permutations(Projects) \cup Permutations(Sections) \cup Permutations(Readers) \cup Permutations(Editors)
=============================================================================
