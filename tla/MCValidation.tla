---------------------------- MODULE MCValidation ----------------------------
(* Two tasks at the same time, with one command or one that is given twice.  *)
EXTENDS Validation

CONSTANTS k1, k2, v1, v2

Lists == {<<k2>>, <<k1, k1>>}
=============================================================================
