------------------------------ MODULE MCDataset ------------------------------
(***************************************************************************)
(* Dataset on an archive of six photographs: one observation has two, one  *)
(* photograph has no licence.  Of the four that remain the first and the   *)
(* second are near duplicates of the third, and the sixth is a copy of the *)
(* first.                                                                  *)
(***************************************************************************)
EXTENDS Dataset

Row(obs, still, licensed) == [obs |-> obs, still |-> still, licensed |-> licensed]
TestMedia == << Row(1, TRUE, TRUE), Row(2, TRUE, TRUE), Row(3, TRUE, TRUE),
                Row(2, TRUE, TRUE), Row(4, TRUE, FALSE), Row(5, TRUE, TRUE) >>
TestImages == 1 .. 6
TestMice == 1 .. 5
TestRank == <<2, 4, 1, 3, 5>>
TestNear == {{1, 3}, {2, 3}}
TestTwins == {{1, 6}}
TestRatios == [train |-> 8, val |-> 1, test |-> 1]

Each(v) == [f \in TestImages |-> v]
Over(S, v, w) == [f \in TestImages |-> IF f \in S THEN v ELSE w]

Pool == {1, 2, 3, 6}

\* A new archive.
Fresh == [job |-> {"prepare", "download", "sort"},
          raw |-> Each("none"), clean |-> Each("none"), report |-> Each(0),
          rows |-> {}, auto |-> Each(-1), review |-> Each(""),
          final |-> Each(-1), sound |-> {}]

\* Its pool, one transfer cut short.
Downloaded ==
    [Fresh EXCEPT !.job = {"sort", "cleanup"},
        !.raw = [Over(Pool, "whole", "none") EXCEPT ![2] = "cut"]]

\* A pool that was all reviewed before, mice in some of the images.
Reviewed(mice) ==
    LET labels == [f \in TestImages |-> IF f \in mice THEN 1
                                        ELSE IF f \in Pool THEN 0 ELSE -1]
    IN  [Fresh EXCEPT !.job = {"sort", "cleanup", "split"},
            !.raw = Over(Pool, "whole", "none"), !.rows = Pool,
            !.auto = labels, !.review = Over(Pool, "accepted", ""),
            !.final = labels, !.sound = {"final"}]

\* Two clean images: the second perhaps broken by an interrupted clean-up, or
\* both with a proposal already.
Cleaned(tools, second) ==
    [Fresh EXCEPT !.job = tools,
        !.raw = Over({1, 2}, "whole", "none"),
        !.clean = [Over({1}, "whole", "none") EXCEPT ![2] = second]]
Proposed ==
    [Cleaned({"review", "correct", "final"}, "whole") EXCEPT
        !.rows = {1, 2}, !.auto = [Each(-1) EXCEPT ![1] = 0, ![2] = 1]]

TestBeginnings ==
    {Fresh, Downloaded, Proposed,
     Cleaned({"label", "relabel", "review", "correct", "final"}, "cut"),
     Cleaned({"label", "relabel", "review", "final"}, "whole")}
       \cup {Reviewed(mice) : mice \in {{1, 2, 3, 6}, {2}, {}}}
=============================================================================
