------------------------------ MODULE MCBoards ------------------------------
(* Boards for a cohort of three, the last of whom facilitates: two models   *)
(* of pricing, each with the slider set or not, reach every verdict, the    *)
(* mean of exactly 4 and the split in which nobody set it among them.       *)
(* What the panel shows does not depend on what is answered, so analyses    *)
(* are followed on a board that holds the facilitator's answer alone, while *)
(* she may be unlocked.                                                     *)
EXTENDS Boards, TLC

MCMembers == 1..3
MCValues  == {[sig |-> "seat", conf |-> 5], [sig |-> "seat", conf |-> 0],
              [sig |-> "flat", conf |-> 3], [sig |-> "flat", conf |-> 0]}

MCOneAnswer == [m \in Members |-> IF m = Lead THEN [sig |-> "seat", conf |-> 5]
                                              ELSE Absent]
MCAnalyses  == count.posts > 0 => /\ answers = MCOneAnswer
                                  /\ count.edits < MaxEdits
                                  /\ \A m \in Members \ {Lead} : ~submitted[m]

MCSymmetry == Permutations(Posts)
=============================================================================
