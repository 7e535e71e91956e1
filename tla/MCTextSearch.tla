---------------------------- MODULE MCTextSearch ----------------------------
(***************************************************************************)
(* TextSearch on every text of up to four characters and every string of   *)
(* up to three; "b" fits no string, so that a match can fail.              *)
(***************************************************************************)
EXTENDS TextSearch, SequencesExt

MCTexts == BoundedSeq({"a", "b", " ", "nl", "eof"}, 4)
MCStrings == BoundedSeq({"a", " ", "nl", "eof"}, 3) \ {<<>>}
=============================================================================
