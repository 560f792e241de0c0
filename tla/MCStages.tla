------------------------------ MODULE MCStages ------------------------------
(***************************************************************************)
(* Stages with bytes of four bits, an entry of five bytes and one of a     *)
(* single byte, which has the stages of single bytes only.  The five bytes *)
(* have three elements in the effector map, two bytes each but the last:   *)
(* the one in the middle may stay clear, and words reach over its borders. *)
(***************************************************************************)
EXTENDS Stages

MCWords == <<<<14, 3>>, <<0, 8>>>>
MCDWords == <<<<1, 0, 0, 0>>>>
MCEntries ==
  {[data |-> <<1, 15, 2, 2, 6>>,
    rating |-> [exec_us |-> 2, bitmap_size |-> 9, handicap |-> 5, depth |-> 4, weight |-> 3]],
   [data |-> <<9>>,
    rating |-> [exec_us |-> 30, bitmap_size |-> 1, handicap |-> 1, depth |-> 2, weight |-> 0]]}
MCModes == {<<FALSE, FALSE, TRUE>>, <<TRUE, TRUE, FALSE>>}
MCInteresting8 == <<0, 7>>
MCLower == [b \in 0 .. 15 |-> IF b = 2 THEN 3 ELSE b]
MCBlocks == <<1, 2>>
MCOthers == <<<<4>>, <<1, 8, 2, 5, 6>>>>
MCDictionaries ==
  {[level |-> 0, lines |-> <<[kind |-> "token", level |-> 0, data |-> <<3, 9>>],
                             [kind |-> "blank", level |-> 0, data |-> <<>>],
                             [kind |-> "token", level |-> 0, data |-> <<5>>],
                             [kind |-> "token", level |-> 1, data |-> <<6>>]>>]}
MCInteresting16 == {MCWords[i] : i \in DOMAIN MCWords}
MCInteresting32 == {MCDWords[i] : i \in DOMAIN MCDWords}
=============================================================================
