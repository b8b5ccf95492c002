---------------------------- MODULE MCTranscript ----------------------------
(***************************************************************************)
(* Transcripts of up to eight events, the tag's elements included, over a  *)
(* permutation of three elements with rate two in the field of 17, where   *)
(* the fifth power is a bijection.                                         *)
(***************************************************************************)
EXTENDS Transcript

MCTags == {<<1, 3>>, <<2, 3, 4>>}     \* a whole block, and a block and a half
MCRoundConstants == <<<<3, 7, 1>>, <<11, 2, 5>>, <<6, 13, 9>>, <<4, 8, 15>>>>
MCMdsMatrix == <<<<2, 1, 1>>, <<1, 2, 1>>, <<1, 1, 3>>>>
=============================================================================
