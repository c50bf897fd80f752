------------------------------- MODULE Dataset -------------------------------
(***************************************************************************)
(* The data-set tools at work on their shared files: a person starts one   *)
(* after the other, in any order and any number of times, and may          *)
(* interrupt each between any two steps or in the middle of a write.       *)
(***************************************************************************)
EXTENDS ImagePool, Annotation, TrainingSet

CONSTANT Beginnings     \* the files found on disk, and the tools then used

\* The files of an earlier day are what these tools leave behind.
ASSUME BeginningsAssumption ==
    \A b \in Beginnings :
        /\ b.raw \in [Images -> Bodies] /\ Present(b.raw) \subseteq Chosen
        /\ b.clean \in [Images -> Bodies]
        /\ b.auto \in [Images -> Labels] /\ b.final \in [Images -> Labels]
        /\ b.review \in [Images -> {"", "accepted"}]
        /\ \A f \in Images : b.review[f] = "accepted" => b.final[f] = b.auto[f]
        /\ b.rows \subseteq Images /\ b.sound \subseteq {"final"}

vars == <<job, tool, walk, sound, files, counts, work, plan>>

Init ==
    /\ \E b \in Beginnings :
          /\ job = b.job /\ raw = b.raw /\ clean = b.clean /\ report = b.report
          /\ rows = b.rows /\ auto = b.auto /\ review = b.review
          /\ final = b.final /\ approved = b.final /\ sound = b.sound
    /\ tool = "none" /\ todo = <<>> /\ at = 0
    /\ got = 0 /\ tries = 0 /\ listed = {} /\ editor = Closed /\ plan = <<>>
    /\ manifest = <<>> /\ corrected = [f \in Images |-> NoLabel]
    /\ split = Nowhere /\ stale = {}

\* Ctrl-C: the files stay as they are, what the tool had in memory is gone.
Interrupt ==
    /\ tool # "none" /\ Stop
    /\ got' = 0 /\ tries' = 0 /\ listed' = {} /\ editor' = Closed /\ plan' = <<>>
    /\ UNCHANGED <<job, sound, files>>

Next ==
    \/ PoolStep /\ UNCHANGED <<work, plan>>
    \/ LabelStep /\ UNCHANGED <<counts, plan>>
    \/ SetStep /\ UNCHANGED <<counts, work>>
    \/ Interrupt

Spec == Init /\ [][Next]_vars

-----------------------------------------------------------------------------
\* DatasetProofs shows that it holds.
Edits == [of : Images \cup {0}, count : 0 .. MaxBoxes]
TypeOK ==
    /\ todo \in Seq(Images) /\ at \in Nat
    /\ sound \subseteq {"clean", "final", "yolo"}
    /\ manifest \in Seq(Images)
    /\ raw \in [Images -> Bodies] /\ clean \in [Images -> Bodies]
    /\ auto \in [Images -> Labels] /\ corrected \in [Images -> Labels]
    /\ final \in [Images -> Labels] /\ approved \in [Images -> Labels]
    /\ review \in [Images -> Decisions]
    /\ rows \subseteq Images /\ listed \subseteq Images /\ stale \subseteq Images
    /\ editor \in [state : {"closed", "open", "saved"}, boxes : Edits,
                   undo : Seq(Edits), drag : Images \cup {0}]

(***************************************************************************)
(* The pool holds licensed images only, and one of each observation,       *)
(* however often the manifest is prepared, cut short and downloaded from   *)
(* ("one image per GBIF/iNaturalist observation", choose_media).           *)
(***************************************************************************)
OneLicensedImageEach ==
    \A f \in Present(raw) :
        /\ Media[f].licensed
        /\ \A g \in Present(raw) : Media[f].obs = Media[g].obs => f = g

(***************************************************************************)
(* After a clean-up that ended by itself every image it kept can be        *)
(* decoded and no two are the same file, whatever was downloaded, moved    *)
(* out or interrupted before (cleanup_mouse_positives.main).               *)
(***************************************************************************)
CleanIsCleaned ==
    "clean" \in sound =>
        \A f \in Present(clean) : /\ clean[f] = "whole"
                                  /\ \A g \in Present(clean) : Pair(f, g) \notin Twins

\* A pool fit to be labelled.
PoolIsClean == OneLicensedImageEach /\ CleanIsCleaned

(***************************************************************************)
(* Images joined by a chain of near duplicates lie in the same part of a   *)
(* data set whose clean-up, final labels and division ran to their ends    *)
(* ("Near-duplicate groups are kept in the same split").                   *)
(***************************************************************************)
NoLeakBetweenParts ==
    "yolo" \in sound =>
        \A f, g \in Present(split) : Pair(f, g) \in Near => split[f] = split[g]

(***************************************************************************)
(* Without near duplicates every class of images is divided in exactly     *)
(* the proportions asked for, in whatever order they are shuffled, unless  *)
(* rounding leaves a part less than nothing (assign_groups, choose_split). *)
(***************************************************************************)
DividedAsAsked ==
    tool = "split" /\ (\A f \in DOMAIN plan : GroupOf(f) = {f}) =>
        \A class \in BOOLEAN :
            LET S == {f \in DOMAIN plan : Positive(f) = class}
                targets == Targets(Cardinality(S))
                Parted(p) == Cardinality({f \in S : plan[f] = p})
            IN  (\A p \in ToSet(Parts) : targets[p] >= 0) =>
                    \A p \in ToSet(Parts) : Parted(p) = targets[p]

(***************************************************************************)
(* A label copied whole into the final set is the one the person last      *)
(* approved for that image, unless the file was rewritten since: by an     *)
(* --overwrite run, or by a save cut short (build_final_mouse_labels_v2,   *)
(* review_mouse_annotations, correct_mouse_boxes).                         *)
(***************************************************************************)
FinalIsApproved ==
    [][\A f \in Images \ stale :
          tool' = "final" /\ final'[f] # final[f] /\ final'[f] # NoLabel
             => final'[f] = approved[f]]_vars

(***************************************************************************)
(* An image marked corrected has its corrected label on disk, wherever     *)
(* the editor is interrupted (correct_mouse_boxes.main).                   *)
(***************************************************************************)
CorrectedHasLabel ==
    \A f \in Images : review[f] = "corrected" => corrected[f] # NoLabel

(***************************************************************************)
(* No decision is ever forgotten, and what was accepted or corrected is    *)
(* only decided anew in the reviewer ("The script is resumable",           *)
(* review_mouse_annotations).                                              *)
(***************************************************************************)
DecisionSurvives ==
    \A f \in Images :
        review'[f] # review[f] /\ review[f] # "" =>
           \/ tool = "review" /\ review'[f] # ""
           \/ review[f] = "needs_correction" /\ review'[f] = "corrected"

\* A decision once written down stays, and what it says is there.
DecisionsAreKept == [][CorrectedHasLabel' /\ DecisionSurvives]_vars

(***************************************************************************)
(* What the box editor holds belongs to the image on screen: the boxes,    *)
(* every step that can be undone, and the drag under way, however the      *)
(* person goes back and forth (Editor, correct_mouse_boxes.main).          *)
(***************************************************************************)
EditsStayOnImage ==
    Editing => /\ editor.boxes.of = Shown
               /\ \A i \in DOMAIN editor.undo : editor.undo[i].of = Shown
               /\ editor.drag \in {0, Shown}
=============================================================================
