---------------------------- MODULE MCEmbedding ----------------------------
(***************************************************************************)
(* Instances of Embedding for TLC.                                         *)
(***************************************************************************)
EXTENDS Embedding, TLC

CONSTANTS p1, p2, k1, k2, t1, t2, v1, v2

TwoProcs  == {p1, p2}
TwoKeys   == {k1, k2}
TwoTexts  == {t1, t2}
TwoModels == {v1, v2}
=============================================================================
