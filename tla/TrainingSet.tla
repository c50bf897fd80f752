----------------------------- MODULE TrainingSet -----------------------------
(***************************************************************************)
(* From reviewed labels to the data set a detector is trained on: the      *)
(* final labels (tools/build_final_mouse_labels_v2.py) and the division    *)
(* into parts (build_mouse_yolo_v1.py).                                    *)
(*   A label that exists is valid: none of the tools before writes another *)
(* class or a box outside the image.                                       *)
(***************************************************************************)
EXTENDS DatasetFiles, Functions

CONSTANT Ratios     \* --train, --val and --test in tenths

ASSUME RatiosAssumption ==
    /\ Ratios \in [train : Int, val : Int, test : Int]
    /\ Ratios.train + Ratios.val + Ratios.test = 10

VARIABLE plan       \* assign_groups: the part chosen for every image

-----------------------------------------------------------------------------
(* build_final_mouse_labels_v2.py *)
PrefersCorrected(f) ==      \* mutant: a corrected label is always taken
    IF corrected[f] # NoLabel THEN corrected[f]
    ELSE IF review[f] = "accepted" THEN auto[f] ELSE NoLabel
Source(f) == CASE review[f] = "accepted" -> auto[f]
               [] review[f] = "corrected" -> corrected[f]
               [] OTHER -> NoLabel

StartFinal ==
    /\ Idle("final") /\ Present(clean) # {}
    /\ \E f \in Images : review[f] # ""
    /\ tool' = "final" /\ todo' \in Sorted(Present(clean))
    /\ final' = [f \in Images |-> NoLabel] /\ sound' = sound \ {"final"}
    /\ UNCHANGED <<at, split, plan>>

\* An image undecided, or without the label, is reported and left out.
CopyFinal ==
    /\ Walking("final") /\ Advance
    /\ final' = [final EXCEPT ![Head(todo)] = Source(Head(todo))]
    /\ UNCHANGED <<sound, split, plan>>

FinalEnds ==
    /\ Done("final") /\ Stop /\ sound' = sound \cup {"final"}
    /\ UNCHANGED <<final, split, plan>>

\* Interrupted in the middle of a copy.
FinalCut ==
    /\ Walking("final") /\ Source(Head(todo)) # NoLabel /\ Stop
    /\ final' = [final EXCEPT ![Head(todo)] = 0]
    /\ UNCHANGED <<sound, split, plan>>

-----------------------------------------------------------------------------
(* build_mouse_yolo_v1.py *)

\* read_near_duplicate_groups, FILE:<name> for the rest.
GroupOf(f) ==
    IF report[f] = 0 THEN {f}
    ELSE {g \in Present(clean) : report[g] = report[f]}

Positive(f) == final[f] > 0
Stratum(group) == IF \A f \in group : Positive(f) THEN "positive"
                  ELSE IF \E f \in group : Positive(f) THEN "mixed" ELSE "negative"

\* Python's round, half to even, of a number of tenths.
RoundTenths(n) ==
    LET q == n \div 10
    IN  IF n % 10 > 5 \/ (n % 10 = 5 /\ q % 2 = 1) THEN q + 1 ELSE q
Targets(total) ==
    LET train == RoundTenths(total * Ratios.train)
        val == RoundTenths(total * Ratios.val)
    IN  [train |-> train, val |-> val, test |-> total - train - val]

\* choose_split: the largest fraction still missing, overshoot against it.
Score(missing, size) ==
    IF missing < size THEN missing - (size - missing) ELSE missing
IgnoresCounts(counts, targets, size) ==     \* mutant: the deficit is the target
    CHOOSE p \in ToSet(Parts) : \A q \in ToSet(Parts) : targets[p] >= targets[q]
Weight(target) == IF target > 1 THEN target ELSE 1
ChooseSplit(counts, targets, size) ==
    LET Points(p) == Score(targets[p] - counts[p], size)
        Better(p, q) ==
            IF Points(q) * Weight(targets[p]) > Points(p) * Weight(targets[q])
            THEN q ELSE p
    IN  Better(Better("train", "val"), "test")

\* The assignment grows by that of other groups.
And(some, more) ==
    [f \in DOMAIN some \cup DOMAIN more |->
        IF f \in DOMAIN more THEN more[f] ELSE some[f]]

\* One stratum: its groups in the order they come in.
Place(targets, acc, group) ==
    LET p == ChooseSplit(acc.counts, targets, Cardinality(group))
    IN  [counts |-> [acc.counts EXCEPT ![p] = @ + Cardinality(group)],
         plan |-> And(acc.plan, [f \in group |-> p])]
Unplaced == [counts |-> [p \in ToSet(Parts) |-> 0], plan |-> <<>>]
PlaceAll(targets, groups) ==
    FoldLeft(LAMBDA acc, group : Place(targets, acc, group), Unplaced, groups)
Divide(groups) ==
    PlaceAll(Targets(Cardinality(UNION ToSet(groups))), groups).plan

\* The groups of a stratum shuffled, then the larger ones first.
Shuffles(groups) ==
    {q \in SetToSeqs(groups) :
        \A i, j \in DOMAIN q : i < j => Cardinality(q[i]) >= Cardinality(q[j])}
GroupsOf(S, stratum) ==
    {group \in {GroupOf(f) : f \in S} : Stratum(group) = stratum}
Assignments(S) ==
    {And(And(Divide(m), Divide(n)), Divide(p)) :
        m \in Shuffles(GroupsOf(S, "mixed")),
        n \in Shuffles(GroupsOf(S, "negative")),
        p \in Shuffles(GroupsOf(S, "positive"))}

\* The old data set goes only when every image has a final label.
StartSplit ==
    /\ Idle("split") /\ Present(clean) # {}
    /\ \A f \in Present(clean) : final[f] # NoLabel
    /\ tool' = "split" /\ todo' \in Sorted(Present(clean))
    /\ plan' \in Assignments(Present(clean))
    /\ split' = Nowhere /\ sound' = sound \ {"yolo"}
    /\ UNCHANGED <<at, final>>

CopyToSplit ==
    /\ Walking("split") /\ Advance
    /\ split' = [split EXCEPT ![Head(todo)] = plan[Head(todo)]]
    /\ UNCHANGED <<sound, final, plan>>

\* data.yaml comes last; a set built from broken inputs is not sound.
SplitEnds ==
    /\ Done("split") /\ Stop /\ plan' = <<>>
    /\ sound' = sound \cup
          (IF {"clean", "final"} \subseteq sound THEN {"yolo"} ELSE {})
    /\ UNCHANGED <<final, split>>

SetStep ==
    /\ \/ StartFinal \/ CopyFinal \/ FinalEnds \/ FinalCut
       \/ StartSplit \/ CopyToSplit \/ SplitEnds
    /\ UNCHANGED <<job, poolFiles, labelFiles>>
=============================================================================
