------------------------------ MODULE MCRelease ------------------------------
(***************************************************************************)
(* A small instance of Release: the package.json commands that finalize a  *)
(* release, one edit, one commit of others, one fault and one kill.        *)
(***************************************************************************)
EXTENDS Release

MCSelections ==
  {{"pack", "bundle"}, {"commit", "tag", "push"}, {"npm"}, {"pypi"}}
=============================================================================
