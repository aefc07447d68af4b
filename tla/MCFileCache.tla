---------------------------- MODULE MCFileCache ----------------------------
(* The instance of FileCache that TLC checks. *)
EXTENDS FileCache, TLC

CONSTANTS page, template

MCName   == {page, template}
MCScript == {template}
=============================================================================
