--------------------------- MODULE MCSourceRequest ---------------------------
(* Instances of SourceRequest for TLC.                                      *)
EXTENDS SourceRequest, TLC

Calls == Permutations(Request) \cup Permutations(Result)
==============================================================================
