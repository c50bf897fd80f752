---------------------------- MODULE DatasetFiles ----------------------------
(***************************************************************************)
(* The files the data-set tools (tools/*.py) hand to one another, and the  *)
(* tool that is running.  A person starts one tool at a time; each walks a *)
(* list of images and may be interrupted (Ctrl-C, power) at any step.      *)
(*   An image is the number of its row in the archive's multimedia.txt,    *)
(* which is also its place among the sorted file names.  A label file is   *)
(* the number of boxes in it; a file cut short while it is written is      *)
(* empty, since these small texts leave the buffer when they are closed.   *)
(***************************************************************************)
EXTENDS Integers, Sequences, FiniteSets, SequencesExt

CONSTANTS
    Images,     \* the images of the archive
    MaxBoxes    \* bound: boxes in one image

ASSUME ImagesAssumption == Images \subseteq Nat \ {0} /\ IsFiniteSet(Images)
ASSUME BoxesAssumption == MaxBoxes \in Nat

VARIABLES
    job,        \* the tools used in this stretch of work
    tool,       \* the one running, or "none"
    todo,       \* the images on its list
    at,         \* where on the list the person is
    sound,      \* history: outputs whose last build ended by itself
    manifest,   \* mouse_positive_manifest.csv: the images in rank order
    raw,        \* raw/positives
    clean,      \* clean/positives
    report,     \* cleanup_report.csv: each image's near-duplicate group, or 0
    rows,       \* annotation_manifest.csv: the images it lists
    auto,       \* annotations/auto/labels
    review,     \* review_status.csv: the decision on each image
    corrected,  \* annotations/corrected/labels
    final,      \* annotations/final/labels
    split,      \* yolo_v1: the part each image was copied to
    approved,   \* history: the label the person last approved
    stale       \* history: labels rewritten since they were approved

walk == <<todo, at>>
poolFiles == <<manifest, raw, clean, report>>
labelFiles == <<rows, auto, review, corrected, approved, stale>>
files == <<poolFiles, labelFiles, final, split>>

NoLabel == -1
Labels == NoLabel .. MaxBoxes
Bodies == {"none", "whole", "cut"}
Decisions == {"", "accepted", "needs_correction", "corrected"}
Parts == <<"train", "val", "test">>

\* A list of S in the order Before; there is one, when Before is total.
Lists(S, Before(_, _)) ==
    {q \in SetToSeqs(S) : \A i, j \in DOMAIN q : i < j => Before(q[i], q[j])}
Sorted(S) == Lists(S, LAMBDA f, g : f < g)
Present(dir) == {f \in Images : dir[f] # "none"}
Nowhere == [f \in Images |-> "none"]

Idle(t) == tool = "none" /\ t \in job
Walking(t) == tool = t /\ todo # <<>>
Done(t) == tool = t /\ todo = <<>>
Stop == tool' = "none" /\ todo' = <<>> /\ at' = 0
Advance == todo' = Tail(todo) /\ UNCHANGED <<tool, at>>

\* The person's place on a list shown one image at a time.
Browsing(t) == tool = t /\ at \in DOMAIN todo
Shown == todo[at]
Forward == at' = at + 1 /\ UNCHANGED <<tool, todo>>
Backward == at' = (IF at > 1 THEN at - 1 ELSE 1) /\ UNCHANGED <<tool, todo>>
=============================================================================
