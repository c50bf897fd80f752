----------------------------- MODULE Annotation -----------------------------
(***************************************************************************)
(* From clean images to reviewed labels: the proposals of a model          *)
(* (tools/auto_label_mouse.py), the person's decision on each              *)
(* (review_mouse_annotations.py) and the box editor for the rest           *)
(* (correct_mouse_boxes.py).                                               *)
(*   Boxes are counted, not drawn.  Each tool holds review_status.csv in   *)
(* memory and rewrites it, through a .tmp file, at every decision: with    *)
(* one tool at a time the two never differ.                                *)
(***************************************************************************)
EXTENDS DatasetFiles

CONSTANT UndoDepth      \* the undo stack's limit (50 in the code)

ASSUME UndoAssumption == UndoDepth \in Nat \ {0}

VARIABLES
    listed,     \* auto_label's manifest rows, in memory until it ends
    editor      \* the box editor: [state, boxes, undo, drag]

work == <<listed, editor>>

\* Boxes know the image they were drawn on; a drag, where it began.
On(f, n) == [of |-> f, count |-> n]
Closed == [state |-> "closed", boxes |-> On(0, 0), undo |-> <<>>, drag |-> 0]

-----------------------------------------------------------------------------
(* auto_label_mouse.py; "relabel" is its --overwrite.                      *)
StartLabel(t) ==
    /\ Idle(t) /\ tool' = t /\ listed' = {}
    /\ \E limit \in 1 .. Cardinality(Present(clean)) :
          todo' \in {SubSeq(q, 1, limit) : q \in Sorted(Present(clean))}
    /\ UNCHANGED <<at, sound, labelFiles, editor>>

Labeller == tool \in {"label", "relabel"}
SkipsLabelled == tool = "label" /\ auto[Head(todo)] # NoLabel

SkipExisting ==
    /\ Labeller /\ todo # <<>> /\ SkipsLabelled /\ Advance
    /\ UNCHANGED <<sound, labelFiles, work>>

\* A label an accepted decision stands on is no longer the one approved.
Rewrites(f) == stale' = IF review[f] = "accepted" THEN stale \cup {f} ELSE stale

LabelImage ==
    /\ Labeller /\ todo # <<>> /\ ~SkipsLabelled /\ Advance
    /\ LET f == Head(todo) IN
       /\ listed' = listed \cup {f}
       /\ \/ /\ clean[f] = "whole" /\ Rewrites(f)
             /\ \E n \in 0 .. MaxBoxes : auto' = [auto EXCEPT ![f] = n]
          \/ UNCHANGED <<auto, stale>>      \* ERROR row
    /\ UNCHANGED <<sound, rows, review, corrected, approved, editor>>

WriteRows ==
    /\ Labeller /\ todo = <<>> /\ Stop
    /\ rows' = listed /\ listed' = {}
    /\ UNCHANGED <<sound, auto, review, corrected, approved, stale, editor>>

\* Interrupted in the middle of a label, or of the manifest.
LabelCut ==
    /\ Labeller /\ Stop /\ listed' = {}
    /\ \/ /\ todo # <<>> /\ ~SkipsLabelled /\ clean[Head(todo)] = "whole"
          /\ auto' = [auto EXCEPT ![Head(todo)] = 0]
          /\ Rewrites(Head(todo)) /\ UNCHANGED rows
       \/ /\ todo = <<>> /\ UNCHANGED <<auto, stale>>
          /\ \E some \in SUBSET listed : rows' = some
    /\ UNCHANGED <<sound, review, corrected, approved, editor>>

-----------------------------------------------------------------------------
(* review_mouse_annotations.py *)
Boxes(dir, f) == IF dir[f] = NoLabel THEN 0 ELSE dir[f]
Priority(f) == CASE Boxes(auto, f) = 0 -> 0     \* NO_BOX
                 [] Boxes(auto, f) > 1 -> 1     \* MULTI_BOX
                 [] OTHER -> 2                  \* by score and area

\* --include-reviewed is again; --flagged-only leaves NORMAL images out.
StartReview ==
    /\ Idle("review") /\ tool' = "review" /\ at' = 1
    /\ \E again, flagged \in BOOLEAN :
       LET open == {f \in rows : clean[f] # "none" /\ (review[f] = "" \/ again)}
       IN  \E queue \in {open}
              \cup {open \ s : s \in SUBSET {f \in open : flagged /\ Priority(f) = 2}} :
              /\ queue # {}
              /\ todo' \in Lists(queue, LAMBDA f, g :
                    \/ Priority(f) < Priority(g)
                    \/ Priority(f) = Priority(g) /\ f < g)
    /\ UNCHANGED <<sound, labelFiles, work>>

SkipUnreadable ==
    /\ Browsing("review") /\ clean[Shown] = "cut" /\ Forward
    /\ UNCHANGED <<sound, labelFiles, work>>

GoBack ==
    /\ Browsing("review") /\ clean[Shown] = "whole" /\ Backward
    /\ UNCHANGED <<sound, labelFiles, work>>

\* save_reviews writes every row there was, and the new one.
Recorded(f, d) == [review EXCEPT ![f] = d]

Decide ==
    /\ Browsing("review") /\ clean[Shown] = "whole" /\ Forward
    /\ \E d \in {"accepted", "needs_correction"} :
          /\ review' = Recorded(Shown, d)
          /\ approved' = [approved EXCEPT ![Shown] =
                             IF d = "accepted" THEN auto[Shown] ELSE NoLabel]
    /\ stale' = stale \ {Shown}
    /\ UNCHANGED <<sound, rows, auto, corrected, work>>

ReviewEnds == tool = "review" /\ Stop /\ UNCHANGED <<sound, labelFiles, work>>

-----------------------------------------------------------------------------
(* correct_mouse_boxes.py *)
Editing == Browsing("correct") /\ editor.state = "open"
Edited(e) == editor' = e /\ UNCHANGED <<tool, walk, sound, labelFiles, listed>>
TurnsTo == editor' = [editor EXCEPT !.state = "closed"]

StartCorrect ==
    /\ Idle("correct") /\ tool' = "correct" /\ at' = 1
    /\ LET pending == {f \in Images : review[f] = "needs_correction"
                                         /\ clean[f] # "none"}
       IN  pending # {} /\ todo' \in Sorted(pending)
    /\ editor' = Closed
    /\ UNCHANGED <<sound, labelFiles, listed>>

StartsFrom(f) ==
    On(f, Boxes(IF corrected[f] # NoLabel THEN corrected ELSE auto, f))

\* Every image starts from its corrected label, if there is one, with no edit
\* to undo and no drag under way.
KeepsUndo(f) ==                 \* mutant: the undo stack is not emptied
    [editor EXCEPT !.state = "open", !.drag = 0, !.boxes = StartsFrom(f)]
Loaded(f) ==
    [editor EXCEPT !.state = "open", !.undo = <<>>, !.drag = 0,
                   !.boxes = StartsFrom(f)]

Load ==
    /\ Browsing("correct") /\ editor.state = "closed" /\ clean[Shown] = "whole"
    /\ Edited(Loaded(Shown))

\* An image that cannot be decoded ends the tool with an exception.
LoadFails ==
    /\ Browsing("correct") /\ editor.state = "closed" /\ clean[Shown] = "cut"
    /\ Stop /\ UNCHANGED <<sound, labelFiles, work>>

\* snapshot: the oldest edit is forgotten beyond the limit.
Snapshot ==
    LET s == Append(editor.undo, editor.boxes)
    IN  IF Len(s) > UndoDepth THEN Tail(s) ELSE s
Changed(b) == Edited([editor EXCEPT !.undo = Snapshot, !.boxes = b])

\* mouse_callback and the keys C, R and Z.
Press == Editing /\ Edited([editor EXCEPT !.drag = Shown])

\* A box too small to count, or a release on the header, is no edit.
Release ==
    /\ Editing /\ editor.drag # 0
    /\ \/ Edited([editor EXCEPT !.drag = 0])
       \/ /\ editor.boxes.count < MaxBoxes
          /\ Edited([editor EXCEPT !.drag = 0, !.undo = Snapshot,
                        !.boxes = On(editor.drag, editor.boxes.count + 1)])

RemoveBox ==
    /\ Editing /\ editor.boxes.count > 0
    /\ Changed([editor.boxes EXCEPT !.count = @ - 1])

Clear == Editing /\ Changed(On(Shown, 0))
Restore == Editing /\ Changed(On(Shown, Boxes(auto, Shown)))

Undo ==
    /\ Editing /\ editor.undo # <<>>
    /\ Edited([editor EXCEPT !.boxes = Last(editor.undo), !.undo = Front(@)])

DecidesFirst ==             \* mutant: review_status.csv is written first
    /\ Editing /\ review' = [review EXCEPT ![Shown] = "corrected"]
    /\ editor' = [editor EXCEPT !.state = "saved"]
    /\ UNCHANGED <<tool, walk, sound, rows, auto, corrected, approved, stale, listed>>
\* SPACE: the label first, then the decision.
SaveLabel ==
    /\ Editing
    /\ corrected' = [corrected EXCEPT ![Shown] = editor.boxes.count]
    /\ approved' = [approved EXCEPT ![Shown] = editor.boxes.count]
    /\ stale' = stale \ {Shown}
    /\ editor' = [editor EXCEPT !.state = "saved"]
    /\ UNCHANGED <<tool, walk, sound, rows, auto, review, listed>>

MarkCorrected ==
    /\ Browsing("correct") /\ editor.state = "saved" /\ Forward /\ TurnsTo
    /\ review' = [review EXCEPT ![Shown] = "corrected"]
    /\ UNCHANGED <<sound, rows, auto, corrected, approved, stale, listed>>

\* Interrupted in the middle of the label: no box of it is left.
SaveCut ==
    /\ Editing /\ Stop /\ editor' = Closed
    /\ corrected' = [corrected EXCEPT ![Shown] = 0]
    /\ stale' = stale \cup {Shown}
    /\ UNCHANGED <<sound, rows, auto, review, approved, listed>>

Previous ==
    /\ Editing /\ Backward /\ TurnsTo
    /\ UNCHANGED <<sound, labelFiles, listed>>

CorrectEnds ==
    /\ tool = "correct" /\ (Editing \/ at \notin DOMAIN todo)
    /\ Stop /\ editor' = Closed
    /\ UNCHANGED <<sound, labelFiles, listed>>

LabelStep ==
    /\ \/ StartLabel("label") \/ StartLabel("relabel") \/ SkipExisting
       \/ LabelImage \/ WriteRows \/ LabelCut
       \/ StartReview \/ SkipUnreadable \/ GoBack \/ Decide \/ ReviewEnds
       \/ StartCorrect \/ Load \/ LoadFails
       \/ Press \/ Release \/ RemoveBox \/ Clear \/ Restore \/ Undo
       \/ SaveLabel \/ MarkCorrected \/ SaveCut \/ Previous \/ CorrectEnds
    /\ UNCHANGED <<job, poolFiles, final, split>>
=============================================================================
