-------------------------------- MODULE Pages --------------------------------
(***************************************************************************)
(* The files that may be templates, by what parse_file() tells apart in    *)
(* them, and the room there is for their marks (files.c).                  *)
(***************************************************************************)
EXTENDS Integers, Sequences

CONSTANTS Source,     \* the files, as sequences of Symbol
          Capacity    \* the marks that fit in the page parse_file() reserves

\* What the parser tells apart.
Symbol == {"<", "?", ">", "space", "other", "nul"}

ASSUME SourceAssumption == Source \subseteq Seq(Symbol)
ASSUME CapacityAssumption == Capacity \in Nat

Mark(kind, offset, length) == [kind |-> kind, offset |-> offset, length |-> length]

Marks == [kind : {"TEXT", "SCRIPT"}, offset : Nat, length : Int]
=============================================================================
