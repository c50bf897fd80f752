---------------------------- MODULE DatasetProofs ----------------------------
(***************************************************************************)
(* What the data-set tools keep, for every archive, every number of boxes  *)
(* and every order in which a person runs and interrupts them.             *)
(***************************************************************************)
EXTENDS Dataset, FiniteSetTheorems, SequenceTheorems, WellFoundedInduction,
        TLAPS

-----------------------------------------------------------------------------
(* Lists.                                                                  *)

LEMMA ListIsSeq ==
  ASSUME NEW S \in SUBSET Images, NEW q \in SetToSeqs(S)
  PROVE  q \in Seq(S)
<1>1. IsFiniteSet(S)  BY ImagesAssumption, FS_Subset
<1>2. Cardinality(S) \in Nat  BY <1>1, FS_CardinalityType
<1>3. q \in [1 .. Cardinality(S) -> S]  BY DEF SetToSeqs
<1> QED BY <1>2, <1>3, IsASeq

LEMMA PresentIsSubset == ASSUME NEW dir PROVE Present(dir) \in SUBSET Images
BY DEF Present

\* What a tool walks along, whichever way its list came to be.
LEMMA AdvanceType ==
  ASSUME NEW S, todo \in Seq(S), todo # <<>>, Advance
  PROVE  todo' \in Seq(S) /\ Head(todo) \in S /\ tool' = tool /\ at' = at
BY HeadTailProperties DEF Advance

LEMMA StopType ==
  ASSUME NEW S, Stop
  PROVE  todo' \in Seq(S) /\ at' = 0 /\ tool' = "none"
BY EmptySeq DEF Stop

LEMMA ShownType ==
  ASSUME NEW S, todo \in Seq(S), at \in DOMAIN todo
  PROVE  Shown \in S
BY ElementOfSeq, LenProperties DEF Shown

LEMMA BrowseType ==
  ASSUME at \in Nat, Forward \/ Backward
  PROVE  at' \in Nat /\ todo' = todo /\ tool' = tool
BY DEF Forward, Backward

-----------------------------------------------------------------------------
(* Types.                                                                  *)

PoolTypes ==
    /\ manifest \in Seq(Images)
    /\ raw \in [Images -> Bodies] /\ clean \in [Images -> Bodies]
WalkTypes == todo \in Seq(Images) /\ at \in Nat
SoundType == sound \subseteq {"clean", "final", "yolo"}

LEMMA KeptIsSubset == Valid \in SUBSET Images /\ Kept \in SUBSET Valid
BY DEF Valid, Kept

LEMMA PoolStepTypes ==
  ASSUME TypeOK, PoolStep
  PROVE  PoolTypes' /\ WalkTypes' /\ SoundType'
<1> USE DEF PoolTypes, WalkTypes, SoundType, poolFiles
<1>1. PoolTypes /\ WalkTypes /\ SoundType  BY DEF TypeOK
<1>2. CASE StartPrepare
  <2>1. Chosen \in SUBSET Images  BY DEF Chosen
  <2>2. todo' \in SetToSeqs(Chosen)  BY <1>2 DEF StartPrepare, Lists
  <2>3. todo' \in Seq(Images)  BY <2>1, <2>2, ListIsSeq, SeqMonotonic
  <2> QED BY <1>1, <1>2, <2>3, EmptySeq DEF StartPrepare
<1>3. CASE WriteManifestRow
  BY <1>1, <1>3, AdvanceType, AppendProperties DEF WriteManifestRow, Walking
<1>4. CASE StartDownload  BY <1>1, <1>4 DEF StartDownload
<1>5. CASE AlreadyPresent
  BY <1>1, <1>5, AdvanceType DEF AlreadyPresent, Wanted, Walking
<1>6. CASE DownloadOne
  BY <1>1, <1>6, AdvanceType DEF DownloadOne, Wanted, Walking, Bodies
<1>7. CASE DownloadFails
  BY <1>1, <1>7, AdvanceType DEF DownloadFails, Wanted, Walking, walk
<1>8. CASE PrepareEnds \/ DownloadEnds \/ SortEnds
  <2>1. UNCHANGED <<manifest, raw, clean, sound>> /\ Stop
    BY <1>8 DEF PrepareEnds, DownloadEnds, SortEnds
  <2> QED BY <1>1, <2>1, StopType
<1>9. CASE StartSort
  <2>1. todo' \in SetToSeqs(Present(raw))  BY <1>9 DEF StartSort, Sorted, Lists
  <2>2. todo' \in Seq(Images)
    BY <2>1, PresentIsSubset, ListIsSeq, SeqMonotonic
  <2> QED BY <1>1, <1>9, <2>2 DEF StartSort
<1>10. CASE PassOver \/ Look
  BY <1>1, <1>10, BrowseType DEF PassOver, Look, MovedOut, Bodies
<1>11. CASE Reject
  <2>1. todo' \in Seq(Images)
    <3>1. at \in 1 .. Len(todo) /\ Len(todo) \in Nat
      BY <1>1, <1>11, LenProperties DEF Reject, Browsing
    <3>2. /\ \A i \in 1 .. at - 1 : todo[i] \in Images
          /\ \A i \in at + 1 .. Len(todo) : todo[i] \in Images
      BY <1>1, <3>1, ElementOfSeq
    <3>3. /\ SubSeq(todo, 1, at - 1) \in Seq(Images)
          /\ SubSeq(todo, at + 1, Len(todo)) \in Seq(Images)
      BY <3>1, <3>2, SubSeqProperties
    <3> QED BY <1>11, <3>3, ConcatProperties DEF Reject, RemoveAt
  <2>2. at' \in Nat
    BY <1>1, <1>11, <2>1, LenProperties DEF Reject
  <2> QED BY <1>1, <1>11, <2>1, <2>2 DEF Reject, MovedOut, Bodies
<1>12. CASE StartCleanup
  <2>1. todo' \in SetToSeqs(Kept)  BY <1>12 DEF StartCleanup, Sorted, Lists
  <2>2. todo' \in Seq(Images)  BY <2>1, KeptIsSubset, ListIsSeq, SeqMonotonic
  <2> QED BY <1>1, <1>12, <2>2 DEF StartCleanup, Nowhere, Bodies
<1>13. CASE CopyClean
  BY <1>1, <1>13, AdvanceType DEF CopyClean, Walking
<1>14. CASE WriteReport
  BY <1>1, <1>14, StopType DEF WriteReport
<1>15. CASE CleanupCut
  BY <1>1, <1>15, StopType DEF CleanupCut, Bodies
<1> QED
  BY <1>2, <1>3, <1>4, <1>5, <1>6, <1>7, <1>8, <1>9, <1>10, <1>11, <1>12,
     <1>13, <1>14, <1>15
     DEF PoolStep

LabelTypes ==
    /\ auto \in [Images -> Labels] /\ corrected \in [Images -> Labels]
    /\ approved \in [Images -> Labels] /\ review \in [Images -> Decisions]
    /\ rows \subseteq Images /\ listed \subseteq Images /\ stale \subseteq Images
EditorType ==
    editor \in [state : {"closed", "open", "saved"}, boxes : Edits,
                undo : Seq(Edits), drag : Images \cup {0}]

LEMMA BoxesType ==
  ASSUME NEW dir \in [Images -> Labels], NEW f \in Images
  PROVE  Boxes(dir, f) \in 0 .. MaxBoxes
BY BoxesAssumption DEF Boxes, Labels, NoLabel

LEMMA ClosedType == Closed \in [state : {"closed"}, boxes : Edits,
                                undo : {<<>>}, drag : {0}]
BY BoxesAssumption DEF Closed, On, Edits

LEMMA SnapshotType ==
  ASSUME EditorType
  PROVE  /\ Snapshot \in Seq(Edits)
         /\ \A i \in DOMAIN Snapshot :
               \/ Snapshot[i] = editor.boxes
               \/ \E j \in DOMAIN editor.undo : Snapshot[i] = editor.undo[j]
<1> DEFINE s == Append(editor.undo, editor.boxes)
<1>1. editor.undo \in Seq(Edits) /\ editor.boxes \in Edits  BY DEF EditorType
<1>2. /\ s \in Seq(Edits) /\ s # <<>> /\ Len(s) = Len(editor.undo) + 1
      /\ \A i \in 1 .. Len(editor.undo) : s[i] = editor.undo[i]
      /\ s[Len(editor.undo) + 1] = editor.boxes
  BY <1>1, AppendProperties
<1>3. Len(editor.undo) \in Nat /\ DOMAIN editor.undo = 1 .. Len(editor.undo)
  BY <1>1, LenProperties
<1>4. \A i \in 1 .. Len(s) :
        \/ s[i] = editor.boxes
        \/ \E j \in DOMAIN editor.undo : s[i] = editor.undo[j]
  BY <1>2, <1>3
<1> HIDE DEF s
<1>5. CASE Len(s) > UndoDepth
  <2>1. Snapshot = Tail(s)  BY <1>5 DEF Snapshot, s
  <2>2. /\ Tail(s) \in Seq(Edits) /\ Len(Tail(s)) = Len(s) - 1
        /\ \A i \in 1 .. Len(Tail(s)) : Tail(s)[i] = s[i + 1]
    BY <1>2, HeadTailProperties
  <2>3. DOMAIN Tail(s) = 1 .. Len(Tail(s))  BY <2>2, LenProperties
  <2>4. \A i \in DOMAIN Tail(s) : i + 1 \in 1 .. Len(s)
    BY <1>2, <1>3, <2>2, <2>3
  <2> QED BY <1>4, <2>1, <2>2, <2>3, <2>4
<1>6. CASE ~(Len(s) > UndoDepth)
  <2>1. Snapshot = s  BY <1>6 DEF Snapshot, s
  <2> QED BY <1>2, <1>4, <2>1, LenProperties
<1> QED BY <1>5, <1>6

LEMMA UndoType ==
  ASSUME EditorType, editor.undo # <<>>
  PROVE  /\ Last(editor.undo) \in Edits /\ Front(editor.undo) \in Seq(Edits)
         /\ \E j \in DOMAIN editor.undo : Last(editor.undo) = editor.undo[j]
         /\ \A i \in DOMAIN Front(editor.undo) :
               \E j \in DOMAIN editor.undo :
                  Front(editor.undo)[i] = editor.undo[j]
<1> DEFINE u == editor.undo
<1>1. u \in Seq(Edits) /\ u # <<>>  BY DEF EditorType
<1> HIDE DEF u
<1>2. Len(u) \in Nat \ {0} /\ DOMAIN u = 1 .. Len(u)
  BY <1>1, EmptySeq, LenProperties
<1>3. Last(u) = u[Len(u)] /\ Len(u) \in DOMAIN u /\ Last(u) \in Edits
  BY <1>1, <1>2, ElementOfSeq DEF Last
<1>4. \A i \in 1 .. Len(u) - 1 : u[i] \in Edits  BY <1>1, <1>2, ElementOfSeq
<1>5. /\ SubSeq(u, 1, Len(u) - 1) \in Seq(Edits)
      /\ Len(SubSeq(u, 1, Len(u) - 1)) = Len(u) - 1
      /\ \A i \in 1 .. Len(u) - 1 : SubSeq(u, 1, Len(u) - 1)[i] = u[i]
  BY <1>2, <1>4, SubSeqProperties
<1>6. DOMAIN SubSeq(u, 1, Len(u) - 1) = 1 .. Len(u) - 1
  BY <1>2, <1>5, LenProperties
<1> QED BY <1>2, <1>3, <1>5, <1>6 DEF Front, u

\* Commands of the box editor that leave the files and the place alone.
EditorStep == Load \/ Press \/ Release \/ RemoveBox \/ Clear \/ Restore \/ Undo

LEMMA EditorStepType ==
  ASSUME TypeOK, EditorStep
  PROVE  EditorType' /\ UNCHANGED <<tool, walk, sound, labelFiles>>
<1> USE DEF Edited
<1>1. /\ EditorType /\ todo \in Seq(Images)
      /\ auto \in [Images -> Labels] /\ corrected \in [Images -> Labels]
  BY DEF TypeOK, EditorType
<1>2. ASSUME at \in DOMAIN todo
      PROVE  /\ Shown \in Images
             /\ StartsFrom(Shown) \in Edits
             /\ On(Shown, 0) \in Edits /\ On(Shown, Boxes(auto, Shown)) \in Edits
  <2>1. Shown \in Images  BY <1>1, <1>2, ShownType
  <2> QED BY <1>1, <2>1, BoxesType, BoxesAssumption DEF StartsFrom, On, Edits
<1>3. ASSUME Editing PROVE at \in DOMAIN todo  BY <1>3 DEF Editing, Browsing
<1>4. ASSUME NEW b \in Edits, editor' = [editor EXCEPT !.undo = Snapshot, !.boxes = b]
      PROVE  EditorType'
  <2>1. Snapshot \in Seq(Edits)  BY <1>1, SnapshotType
  <2> QED BY <1>1, <1>4, <2>1 DEF EditorType
<1>5. CASE Load
  BY <1>1, <1>2, <1>5, EmptySeq DEF Load, Loaded, Browsing, EditorType
<1>6. CASE Press  BY <1>1, <1>2, <1>3, <1>6 DEF Press, EditorType
<1>7. CASE Release
  <2>1. CASE editor' = [editor EXCEPT !.drag = 0]
    BY <1>1, <1>7, <2>1 DEF Release, EditorType
  <2>2. CASE /\ editor.boxes.count < MaxBoxes
             /\ editor' = [editor EXCEPT !.drag = 0, !.undo = Snapshot,
                             !.boxes = On(editor.drag, editor.boxes.count + 1)]
    <3>1. editor.boxes \in Edits /\ editor.drag \in Images \cup {0}
      BY <1>1 DEF EditorType
    <3>2. On(editor.drag, editor.boxes.count + 1) \in Edits
      BY <2>2, <3>1, BoxesAssumption DEF On, Edits
    <3>3. Snapshot \in Seq(Edits)  BY <1>1, SnapshotType
    <3>4. EditorType'  BY <1>1, <2>2, <3>2, <3>3 DEF EditorType
    <3> QED BY <1>7, <3>4 DEF Release
  <2> QED BY <1>7, <2>1, <2>2 DEF Release
<1>8. CASE RemoveBox
  <2>1. editor.boxes \in Edits  BY <1>1 DEF EditorType
  <2>2. [editor.boxes EXCEPT !.count = @ - 1] \in Edits
    BY <1>8, <2>1, BoxesAssumption DEF RemoveBox, Edits
  <2> QED BY <1>4, <1>8, <2>2 DEF RemoveBox, Changed
<1>9. CASE Clear \/ Restore
  BY <1>2, <1>3, <1>4, <1>9 DEF Clear, Restore, Changed
<1>10. CASE Undo  BY <1>1, <1>10, UndoType DEF Undo, EditorType
<1>11. UNCHANGED <<tool, walk, sound, labelFiles>>
  BY DEF EditorStep, Load, Press, Release, RemoveBox, Clear, Restore, Undo, Changed
<1> QED
  BY <1>5, <1>6, <1>7, <1>8, <1>9, <1>10, <1>11 DEF EditorStep

LEMMA LabelStepTypes ==
  ASSUME TypeOK, LabelStep
  PROVE  LabelTypes' /\ EditorType' /\ WalkTypes' /\ SoundType'
<1> USE DEF LabelTypes, WalkTypes, SoundType, labelFiles, work
<1>1. LabelTypes /\ EditorType /\ WalkTypes /\ SoundType
  BY DEF TypeOK, EditorType
<1>2. UNCHANGED sound
  BY DEF LabelStep, StartLabel, SkipExisting, LabelImage, WriteRows, LabelCut,
         StartReview, SkipUnreadable, GoBack, Decide, ReviewEnds, StartCorrect,
         Load, LoadFails, Press, Release, RemoveBox, Clear, Restore, Undo,
         Changed, Edited, SaveLabel, MarkCorrected, SaveCut, Previous, CorrectEnds
<1>3. CASE \E t \in {"label", "relabel"} : StartLabel(t)
  <2>1. PICK t \in {"label", "relabel"} : StartLabel(t)  BY <1>3
  <2>2. PICK limit \in 1 .. Cardinality(Present(clean)),
             q \in SetToSeqs(Present(clean)) : todo' = SubSeq(q, 1, limit)
    BY <2>1 DEF StartLabel, Sorted, Lists
  <2>3. Cardinality(Present(clean)) \in Nat
    BY PresentIsSubset, ImagesAssumption, FS_Subset, FS_CardinalityType
  <2>4. \A i \in 1 .. limit : q[i] \in Images
    BY <2>2, <2>3, PresentIsSubset DEF SetToSeqs
  <2>5. todo' \in Seq(Images)  BY <2>2, <2>3, <2>4, SubSeqProperties
  <2> QED BY <1>1, <1>2, <2>1, <2>5 DEF StartLabel, EditorType
<1>4. CASE SkipExisting
  BY <1>1, <1>2, <1>4, AdvanceType DEF SkipExisting, EditorType
<1>5. CASE LabelImage
  <2>1. Head(todo) \in Images /\ todo' \in Seq(Images) /\ at' = at
    BY <1>1, <1>5, AdvanceType DEF LabelImage
  <2>2. stale' \subseteq Images  BY <1>1, <1>5, <2>1 DEF LabelImage, Rewrites
  <2>3. 0 .. MaxBoxes \subseteq Labels  BY BoxesAssumption DEF Labels, NoLabel
  <2>4. auto' \in [Images -> Labels]  BY <1>1, <1>5, <2>1, <2>3 DEF LabelImage
  <2>5. listed' \subseteq Images  BY <1>1, <1>5, <2>1 DEF LabelImage
  <2> QED BY <1>1, <1>2, <1>5, <2>1, <2>2, <2>4, <2>5 DEF LabelImage, EditorType
<1>6. CASE WriteRows \/ ReviewEnds
  BY <1>1, <1>2, <1>6, StopType DEF WriteRows, ReviewEnds, EditorType
<1>7. CASE LabelCut
  <2>1. todo # <<>> => Head(todo) \in Images  BY <1>1, HeadTailProperties
  <2>2. 0 \in Labels  BY BoxesAssumption DEF Labels, NoLabel
  <2>3. \/ auto' = auto /\ stale' = stale
        \/ /\ todo # <<>> /\ Rewrites(Head(todo))
           /\ auto' = [auto EXCEPT ![Head(todo)] = 0]
    BY <1>7 DEF LabelCut
  <2>4. auto' \in [Images -> Labels]  BY <1>1, <2>2, <2>3
  <2>5. stale' \subseteq Images  BY <1>1, <2>1, <2>3 DEF Rewrites
  <2>6. WalkTypes' /\ listed' = {}  BY <1>7, StopType DEF LabelCut
  <2>7. rows' \subseteq Images  BY <1>1, <1>7 DEF LabelCut
  <2> QED BY <1>1, <1>2, <1>7, <2>4, <2>5, <2>6, <2>7 DEF LabelCut, EditorType
<1>8. CASE StartReview
  <2>1. PICK queue \in SUBSET rows : todo' \in SetToSeqs(queue)
    BY <1>8 DEF StartReview, Lists
  <2>2. todo' \in Seq(Images)  BY <1>1, <2>1, ListIsSeq, SeqMonotonic
  <2> QED BY <1>1, <1>2, <1>8, <2>2 DEF StartReview, EditorType
<1>9. CASE SkipUnreadable \/ GoBack
  BY <1>1, <1>2, <1>9, BrowseType DEF SkipUnreadable, GoBack, EditorType
<1>10. CASE Decide
  <2>1. NoLabel \in Labels /\ Shown \in Images
    BY <1>1, <1>10, ShownType, BoxesAssumption
       DEF Decide, Browsing, Labels, NoLabel
  <2>2. PICK d \in {"accepted", "needs_correction"} :
           /\ review' = [review EXCEPT ![Shown] = d]
           /\ approved' = [approved EXCEPT ![Shown] =
                              IF d = "accepted" THEN auto[Shown] ELSE NoLabel]
    BY <1>10 DEF Decide, Recorded
  <2>3. review' \in [Images -> Decisions] /\ approved' \in [Images -> Labels]
    BY <1>1, <2>1, <2>2 DEF Decisions
  <2>4. WalkTypes'  BY <1>1, <1>10, BrowseType DEF Decide
  <2>5. stale' \subseteq Images /\ UNCHANGED <<rows, auto, corrected, work>>
    BY <1>1, <1>10 DEF Decide
  <2> QED BY <1>1, <1>2, <2>3, <2>4, <2>5 DEF EditorType
<1>11. CASE StartCorrect
  <2>1. PICK pending \in SUBSET Images : todo' \in SetToSeqs(pending)
    BY <1>11 DEF StartCorrect, Sorted, Lists
  <2>2. todo' \in Seq(Images)  BY <2>1, ListIsSeq, SeqMonotonic
  <2>3. WalkTypes'  BY <1>11, <2>2 DEF StartCorrect
  <2>4. EditorType'
    <3>1. editor' = Closed  BY <1>11 DEF StartCorrect
    <3>2. <<>> \in Seq(Edits)  BY EmptySeq
    <3> QED BY <3>1, <3>2, ClosedType DEF EditorType
  <2>5. UNCHANGED <<auto, corrected, approved, review, rows, listed, stale>>
    BY <1>11 DEF StartCorrect
  <2> QED BY <1>1, <1>2, <2>3, <2>4, <2>5
<1>12. CASE EditorStep
  BY <1>1, <1>2, <1>12, EditorStepType DEF walk, EditorStep, Load, Press,
     Release, RemoveBox, Clear, Restore, Undo, Changed, Edited
<1>13. CASE LoadFails
  BY <1>1, <1>2, <1>13, StopType DEF LoadFails, EditorType
<1>14. CASE SaveLabel
  <2>1. editor.boxes.count \in Labels
    BY <1>1, BoxesAssumption DEF EditorType, Edits, Labels, NoLabel
  <2> QED BY <1>1, <1>2, <1>14, <2>1 DEF SaveLabel, EditorType, walk
<1>15. CASE MarkCorrected
  BY <1>1, <1>2, <1>15, BrowseType
     DEF MarkCorrected, TurnsTo, EditorType, Decisions
<1>16. CASE SaveCut
  <2>1. Shown \in Images  BY <1>1, <1>16, ShownType DEF SaveCut, Editing, Browsing
  <2>2. 0 \in Labels  BY BoxesAssumption DEF Labels, NoLabel
  <2>3. corrected' \in [Images -> Labels] /\ stale' \subseteq Images
    BY <1>1, <1>16, <2>1, <2>2 DEF SaveCut
  <2>4. EditorType'  BY <1>16, ClosedType, EmptySeq DEF SaveCut, EditorType
  <2> QED BY <1>1, <1>2, <1>16, <2>3, <2>4, StopType DEF SaveCut
<1>17. CASE Previous
  BY <1>1, <1>2, <1>17, BrowseType DEF Previous, TurnsTo, EditorType
<1>18. CASE CorrectEnds
  <2>1. EditorType'  BY <1>18, ClosedType, EmptySeq DEF CorrectEnds, EditorType
  <2> QED BY <1>1, <1>2, <1>18, <2>1, StopType DEF CorrectEnds
<1> QED
  BY <1>3, <1>4, <1>5, <1>6, <1>7, <1>8, <1>9, <1>10, <1>11, <1>12, <1>13,
     <1>14, <1>15, <1>16, <1>17, <1>18
     DEF LabelStep, EditorStep

LEMMA SetStepTypes ==
  ASSUME TypeOK, SetStep
  PROVE  final' \in [Images -> Labels] /\ WalkTypes' /\ SoundType'
<1> USE DEF WalkTypes, SoundType
<1>1. /\ WalkTypes /\ SoundType /\ LabelTypes
      /\ final \in [Images -> Labels]
  BY DEF TypeOK, LabelTypes
<1>2. NoLabel \in Labels /\ 0 \in Labels  BY BoxesAssumption DEF Labels, NoLabel
<1>3. CASE StartFinal \/ StartSplit
  <2>1. todo' \in SetToSeqs(Present(clean))
    BY <1>3 DEF StartFinal, StartSplit, Sorted, Lists
  <2>2. todo' \in Seq(Images)
    BY <2>1, PresentIsSubset, ListIsSeq, SeqMonotonic
  <2> QED BY <1>1, <1>2, <1>3, <2>2 DEF StartFinal, StartSplit
<1>4. CASE CopyFinal
  <2>1. Head(todo) \in Images /\ todo' \in Seq(Images) /\ at' = at
    BY <1>1, <1>4, AdvanceType DEF CopyFinal, Walking
  <2>2. Source(Head(todo)) \in Labels
    BY <1>1, <1>2, <2>1 DEF Source, LabelTypes
  <2> QED BY <1>1, <1>4, <2>1, <2>2 DEF CopyFinal
<1>5. CASE FinalEnds \/ SplitEnds
  <2>1. Stop /\ UNCHANGED final /\ sound' \subseteq {"clean", "final", "yolo"}
    BY <1>1, <1>5 DEF FinalEnds, SplitEnds
  <2> QED BY <1>1, <2>1, StopType
<1>6. CASE FinalCut
  <2>1. final' \in [Images -> Labels]  BY <1>1, <1>2, <1>6 DEF FinalCut
  <2> QED BY <1>1, <1>6, <2>1, StopType DEF FinalCut
<1>7. CASE CopyToSplit
  BY <1>1, <1>7, AdvanceType DEF CopyToSplit, Walking
<1> QED BY <1>3, <1>4, <1>5, <1>6, <1>7 DEF SetStep

LEMMA TypesInit == Init => TypeOK
<1> SUFFICES ASSUME Init PROVE TypeOK  OBVIOUS
<1>1. PICK b \in Beginnings :
        /\ raw = b.raw /\ clean = b.clean /\ rows = b.rows /\ auto = b.auto
        /\ review = b.review /\ final = b.final /\ approved = b.final
        /\ sound = b.sound
  BY DEF Init
<1>2. NoLabel \in Labels /\ editor = Closed /\ corrected \in [Images -> Labels]
  BY BoxesAssumption DEF Init, Labels, NoLabel
<1>3. editor \in [state : {"closed", "open", "saved"}, boxes : Edits,
                  undo : Seq(Edits), drag : Images \cup {0}]
  BY <1>2, ClosedType, EmptySeq
<1>4. review \in [Images -> Decisions]
  BY <1>1, BeginningsAssumption DEF Decisions
<1> QED
  BY <1>1, <1>2, <1>3, <1>4, BeginningsAssumption, EmptySeq DEF Init, TypeOK

\* Which step writes what.
LEMMA Frames ==
  /\ PoolStep /\ UNCHANGED <<work, plan>>
       => UNCHANGED <<labelFiles, final, split, work>>
  /\ LabelStep /\ UNCHANGED <<counts, plan>>
       => UNCHANGED <<poolFiles, final, split, counts>>
  /\ SetStep /\ UNCHANGED <<counts, work>>
       => UNCHANGED <<poolFiles, labelFiles, work>>
BY DEF PoolStep, LabelStep, SetStep

\* The tools of each step's kind, and their mark.
LEMMA PoolToolRuns ==
  ASSUME PoolStep
  PROVE  tool' \in {"prepare", "download", "sort", "cleanup", "none"}
BY DEF PoolStep, StartPrepare, WriteManifestRow, PrepareEnds, StartDownload,
       AlreadyPresent, DownloadOne, DownloadFails, DownloadEnds, StartSort,
       PassOver, Look, Reject, SortEnds, StartCleanup, CopyClean, WriteReport,
       CleanupCut, Wanted, Walking, Done, Stop, Advance, Browsing, Forward,
       Backward

LEMMA LabelToolRuns ==
  ASSUME TypeOK, LabelStep
  PROVE  /\ tool' \in {"label", "relabel", "review", "correct", "none"}
         /\ UNCHANGED sound
<1>1. UNCHANGED sound
  BY DEF LabelStep, StartLabel, SkipExisting, LabelImage, WriteRows, LabelCut,
         StartReview, SkipUnreadable, GoBack, Decide, ReviewEnds, StartCorrect,
         Load, LoadFails, Press, Release, RemoveBox, Clear, Restore, Undo,
         Changed, Edited, SaveLabel, MarkCorrected, SaveCut, Previous,
         CorrectEnds
<1>2. CASE EditorStep
  <2>1. tool = "correct"
    BY <1>2 DEF EditorStep, Load, Press, Release, RemoveBox, Clear, Restore,
                Undo, Browsing, Editing
  <2> QED BY <1>1, <1>2, <2>1, EditorStepType
<1>3. CASE SaveLabel \/ Previous \/ MarkCorrected \/ SaveCut \/ CorrectEnds
             \/ LoadFails \/ StartCorrect
  BY <1>1, <1>3
     DEF SaveLabel, Previous, MarkCorrected, SaveCut, CorrectEnds, LoadFails,
         StartCorrect, Browsing, Editing, Stop, Forward, Backward
<1>4. CASE StartReview \/ SkipUnreadable \/ GoBack \/ Decide \/ ReviewEnds
  BY <1>1, <1>4
     DEF StartReview, SkipUnreadable, GoBack, Decide, ReviewEnds, Browsing,
         Stop, Forward, Backward
<1>5. CASE StartLabel("label") \/ StartLabel("relabel") \/ SkipExisting
             \/ LabelImage \/ WriteRows \/ LabelCut
  BY <1>1, <1>5
     DEF StartLabel, SkipExisting, LabelImage, WriteRows, LabelCut, Labeller,
         Stop, Advance
<1> QED BY <1>2, <1>3, <1>4, <1>5 DEF LabelStep, EditorStep

LEMMA TypesNext == TypeOK /\ [Next]_vars => TypeOK'
<1> SUFFICES ASSUME TypeOK, [Next]_vars PROVE TypeOK'  OBVIOUS
<1> USE DEF PoolTypes, WalkTypes, SoundType, LabelTypes, EditorType,
            poolFiles, labelFiles, work, counts
<1>1. CASE PoolStep /\ UNCHANGED <<work, plan>>
  BY <1>1, PoolStepTypes, Frames DEF TypeOK
<1>2. CASE LabelStep /\ UNCHANGED <<counts, plan>>
  BY <1>2, LabelStepTypes, Frames DEF TypeOK
<1>3. CASE SetStep /\ UNCHANGED <<counts, work>>
  BY <1>3, SetStepTypes, Frames DEF TypeOK
<1>4. CASE Interrupt
  <2>1. EditorType'  BY <1>4, ClosedType, EmptySeq DEF Interrupt
  <2> QED BY <1>4, <2>1, StopType, EmptySeq DEF Interrupt, TypeOK, files
<1>5. CASE UNCHANGED vars  BY <1>5 DEF TypeOK, vars, walk, files
<1> QED BY <1>1, <1>2, <1>3, <1>4, <1>5 DEF Next

(***************************************************************************)
(* Every variable keeps its type, wherever a tool is interrupted.          *)
(***************************************************************************)
THEOREM TypeCorrect == Spec => []TypeOK
BY TypesInit, TypesNext, PTL DEF Spec

-----------------------------------------------------------------------------
(* The pool.  Images enter it from the manifest only, and the clean-up     *)
(* copies from a list it made of whole, different images.                  *)

PoolInv ==
    /\ Present(raw) \subseteq Chosen
    /\ manifest \in Seq(Chosen)
    /\ tool \in {"prepare", "download"} => todo \in Seq(Chosen)
    /\ tool = "cleanup" =>
         /\ "clean" \notin sound
         /\ todo \in Seq(Kept)
         /\ \A f \in Present(clean) : f \in Kept /\ clean[f] = "whole"
    /\ CleanIsCleaned

LEMMA KeptIsClean ==
  ASSUME NEW f \in Kept, NEW g \in Kept
  PROVE  Pair(f, g) \notin Twins
<1>1. f \in Images /\ g \in Images /\ f \in Nat /\ g \in Nat
  BY ImagesAssumption DEF Kept, Valid
<1>2. CASE f = g  BY <1>1, <1>2, TwinsAssumption DEF Pair
<1>3. CASE f < g  BY <1>1, <1>3 DEF Kept, Pair
<1>4. CASE g < f  BY <1>1, <1>4 DEF Kept, Pair
<1> QED BY <1>1, <1>2, <1>3, <1>4

LEMMA OneChosenEach ==
  ASSUME NEW f \in Chosen, NEW g \in Chosen, Media[f].obs = Media[g].obs
  PROVE  f = g
<1>1. f \in Nat /\ g \in Nat  BY ImagesAssumption DEF Chosen
<1>2. ~(f < g) /\ ~(g < f)  BY DEF Chosen
<1> QED BY <1>1, <1>2

\* A step that leaves the pool alone and runs none of its tools.
LEMMA PoolUndisturbed ==
  ASSUME PoolInv, UNCHANGED poolFiles, "clean" \in sound' => "clean" \in sound,
         tool' \notin {"prepare", "download", "cleanup"}
  PROVE  PoolInv'
BY DEF PoolInv, poolFiles, CleanIsCleaned, Present

LEMMA PoolStepKeepsPool ==
  ASSUME TypeOK, PoolInv, PoolStep
  PROVE  PoolInv'
<1> USE DEF poolFiles
<1>1. /\ raw \in [Images -> Bodies] /\ clean \in [Images -> Bodies]
      /\ todo \in Seq(Images)
  BY DEF TypeOK
<1>2. CASE StartPrepare
  <2>1. Chosen \in SUBSET Images  BY DEF Chosen
  <2>2. todo' \in SetToSeqs(Chosen)  BY <1>2 DEF StartPrepare, Lists
  <2>3. todo' \in Seq(Chosen) /\ <<>> \in Seq(Chosen)
    BY <2>1, <2>2, ListIsSeq, EmptySeq
  <2> QED BY <1>2, <2>3 DEF StartPrepare, PoolInv, CleanIsCleaned, Present
<1>3. CASE WriteManifestRow
  <2>1. todo \in Seq(Chosen) /\ todo # <<>> /\ Advance /\ tool = "prepare"
    BY <1>3 DEF WriteManifestRow, Walking, PoolInv
  <2>2. todo' \in Seq(Chosen) /\ Head(todo) \in Chosen /\ tool' = "prepare"
    BY <2>1, AdvanceType
  <2>3. manifest' \in Seq(Chosen)
    BY <1>3, <2>2, AppendProperties DEF WriteManifestRow, PoolInv
  <2> QED BY <1>3, <2>2, <2>3
          DEF WriteManifestRow, PoolInv, CleanIsCleaned, Present
<1>4. CASE StartDownload
  BY <1>4 DEF StartDownload, PoolInv, CleanIsCleaned, Present
<1>5. CASE AlreadyPresent \/ DownloadFails
  <2>1. tool = "download" /\ todo # <<>> /\ todo \in Seq(Chosen)
    BY <1>5 DEF AlreadyPresent, DownloadFails, Wanted, Walking, PoolInv
  <2>2. todo' \in Seq(Chosen) /\ tool' = "download"
    BY <1>5, <2>1, AdvanceType DEF AlreadyPresent, DownloadFails, walk
  <2>3. UNCHANGED <<manifest, raw, clean, sound>>
    BY <1>5 DEF AlreadyPresent, DownloadFails
  <2> QED BY <2>2, <2>3 DEF PoolInv, CleanIsCleaned, Present
<1>6. CASE DownloadOne
  <2>1. tool = "download" /\ todo # <<>> /\ todo \in Seq(Chosen)
    BY <1>6 DEF DownloadOne, Wanted, Walking, PoolInv
  <2>2. todo' \in Seq(Chosen) /\ Head(todo) \in Chosen /\ tool' = "download"
    BY <1>6, <2>1, AdvanceType DEF DownloadOne
  <2>3. Present(raw)' \subseteq Present(raw) \cup {Head(todo)}
    BY <1>1, <1>6 DEF DownloadOne, Present
  <2>4. UNCHANGED <<manifest, clean, sound>>  BY <1>6 DEF DownloadOne
  <2> QED BY <2>2, <2>3, <2>4 DEF PoolInv, CleanIsCleaned, Present
<1>7. CASE PrepareEnds \/ DownloadEnds \/ SortEnds
  <2>1. UNCHANGED <<sound, poolFiles>> /\ tool' = "none"
    BY <1>7 DEF PrepareEnds, DownloadEnds, SortEnds, Stop
  <2> QED BY <2>1, PoolUndisturbed
<1>8. CASE StartSort \/ PassOver \/ Look \/ Reject
  <2>1. tool' = "sort" /\ UNCHANGED <<sound, manifest, clean>>
    BY <1>8 DEF StartSort, PassOver, Look, Reject, Browsing, Forward, Backward
  <2>2. Present(raw)' \subseteq Present(raw)
    BY <1>1, <1>8 DEF StartSort, PassOver, Look, Reject, MovedOut, Present
  <2> QED BY <2>1, <2>2 DEF PoolInv, CleanIsCleaned, Present
<1>9. CASE StartCleanup
  <2>1. todo' \in SetToSeqs(Kept) /\ UNCHANGED raw
    BY <1>9 DEF StartCleanup, Sorted, Lists
  <2>2. Kept \in SUBSET Images /\ Kept' = Kept
    BY <2>1 DEF Kept, Valid
  <2>3. todo' \in Seq(Kept)  BY <2>1, <2>2, ListIsSeq
  <2>4. Present(clean)' = {}  BY <1>9 DEF StartCleanup, Nowhere, Present
  <2>5. /\ "clean" \notin sound' /\ tool' = "cleanup"
        /\ UNCHANGED <<manifest, raw>>
    BY <1>9 DEF StartCleanup
  <2> QED BY <2>2, <2>3, <2>4, <2>5 DEF PoolInv, CleanIsCleaned, Present
<1>10. CASE CopyClean
  <2>1. /\ tool = "cleanup" /\ todo # <<>> /\ todo \in Seq(Kept)
        /\ "clean" \notin sound
    BY <1>10 DEF CopyClean, Walking, PoolInv
  <2>2. todo' \in Seq(Kept) /\ Head(todo) \in Kept /\ tool' = "cleanup"
    BY <1>10, <2>1, AdvanceType DEF CopyClean
  <2>3. UNCHANGED <<raw, manifest, sound>> /\ Kept' = Kept
    BY <1>10 DEF CopyClean, Kept, Valid
  <2>4. raw[Head(todo)] = "whole" /\ Head(todo) \in Images
    BY <2>2 DEF Kept, Valid
  <2>5. \A f \in Present(clean)' : f \in Kept /\ clean'[f] = "whole"
    BY <1>1, <1>10, <2>1, <2>2, <2>4 DEF CopyClean, Present, PoolInv
  <2> QED BY <2>1, <2>2, <2>3, <2>5 DEF PoolInv, CleanIsCleaned, Present
<1>11. CASE WriteReport
  <2>1. tool = "cleanup" /\ tool' = "none" /\ UNCHANGED <<manifest, raw, clean>>
    BY <1>11 DEF WriteReport, Done, Stop
  <2>2. \A f \in Present(clean) : f \in Kept /\ clean[f] = "whole"
    BY <2>1 DEF PoolInv
  <2>3. CleanIsCleaned'
    BY <2>1, <2>2, KeptIsClean DEF CleanIsCleaned, Present
  <2> QED BY <2>1, <2>3 DEF PoolInv, Present
<1>12. CASE CleanupCut
  <2>1. /\ tool = "cleanup" /\ tool' = "none" /\ UNCHANGED <<manifest, raw, sound>>
    BY <1>12 DEF CleanupCut, Walking, Done, Stop
  <2> QED BY <2>1 DEF PoolInv, CleanIsCleaned, Present
<1> QED
  BY <1>2, <1>3, <1>4, <1>5, <1>6, <1>7, <1>8, <1>9, <1>10, <1>11, <1>12
     DEF PoolStep

LEMMA PoolInit == Init => PoolInv
<1> SUFFICES ASSUME Init PROVE PoolInv  OBVIOUS
<1>1. /\ Present(raw) \subseteq Chosen /\ sound \subseteq {"final"}
      /\ manifest = <<>> /\ tool = "none"
  BY BeginningsAssumption DEF Init, Present
<1> QED BY <1>1, EmptySeq DEF PoolInv, CleanIsCleaned

LEMMA PoolNext == TypeOK /\ PoolInv /\ [Next]_vars => PoolInv'
<1> SUFFICES ASSUME TypeOK, PoolInv, [Next]_vars PROVE PoolInv'  OBVIOUS
<1>1. CASE PoolStep  BY <1>1, PoolStepKeepsPool
<1>2. CASE LabelStep /\ UNCHANGED <<counts, plan>>
  BY <1>2, Frames, LabelToolRuns, PoolUndisturbed
<1>3. CASE SetStep /\ UNCHANGED <<counts, work>>
  <2>1. tool' \in {"final", "split", "none"}
    BY <1>3 DEF SetStep, StartFinal, CopyFinal, FinalEnds, FinalCut, StartSplit,
                CopyToSplit, SplitEnds, Walking, Done, Stop, Advance
  <2>2. CASE StartFinal \/ StartSplit
    BY <1>3, <2>1, <2>2, Frames, PoolUndisturbed DEF StartFinal, StartSplit
  <2>3. CASE CopyFinal \/ FinalCut \/ CopyToSplit
    BY <1>3, <2>1, <2>3, Frames, PoolUndisturbed
       DEF CopyFinal, FinalCut, CopyToSplit
  <2>4. CASE FinalEnds \/ SplitEnds
    <3>1. "clean" \in sound' => "clean" \in sound
      BY <2>4 DEF FinalEnds, SplitEnds
    <3> QED BY <1>3, <2>1, <3>1, Frames, PoolUndisturbed
  <2> QED BY <1>3, <2>2, <2>3, <2>4 DEF SetStep
<1>4. CASE Interrupt
  BY <1>4, PoolUndisturbed DEF Interrupt, Stop, files
<1>5. CASE UNCHANGED vars
  BY <1>5 DEF vars, walk, files, poolFiles, PoolInv, CleanIsCleaned, Present,
              Kept, Valid
<1> QED BY <1>1, <1>2, <1>3, <1>4, <1>5 DEF Next

(***************************************************************************)
(* The pool holds one licensed image of each observation, and a clean-up   *)
(* that ended by itself leaves whole and different ones, for every         *)
(* archive.                                                                *)
(***************************************************************************)
THEOREM PoolStaysClean == Spec => []PoolIsClean
<1>1. PoolInv => PoolIsClean
  <2> SUFFICES ASSUME PoolInv PROVE OneLicensedImageEach
    BY DEF PoolInv, PoolIsClean
  <2>1. \A f \in Present(raw) : f \in Chosen /\ Media[f].licensed
    BY DEF PoolInv, Chosen, Usable
  <2> QED BY <2>1, OneChosenEach DEF OneLicensedImageEach
<1>2. TypeOK /\ PoolInv /\ [Next]_vars => PoolInv'  BY PoolNext
<1> QED BY <1>1, <1>2, PoolInit, TypeCorrect, PTL DEF Spec

-----------------------------------------------------------------------------
(* The decisions.  Whoever writes a label or a decision keeps the two in   *)
(* step, or marks the label as rewritten.                                  *)

Vouched(f) ==
    f \notin stale =>
        /\ review[f] = "accepted" => auto[f] = approved[f]
        /\ review[f] = "corrected" => corrected[f] = approved[f]
Correctable == {f \in Images : review[f] \in {"needs_correction", "corrected"}}
Saved ==
    editor.state = "saved" /\ at \in DOMAIN todo =>
        /\ corrected[Shown] # NoLabel
        /\ Shown \notin stale => corrected[Shown] = approved[Shown]

DecisionInv ==
    /\ \A f \in Images : Vouched(f)
    /\ CorrectedHasLabel
    /\ tool = "correct" => todo \in Seq(Correctable) /\ Saved
    /\ EditsStayOnImage

\* A step that leaves labels and decisions alone and does not correct.
LEMMA DecisionsUndisturbed ==
  ASSUME DecisionInv, UNCHANGED labelFiles, tool' # "correct"
  PROVE  DecisionInv'
BY DEF DecisionInv, labelFiles, Vouched, CorrectedHasLabel, EditsStayOnImage,
       Editing, Browsing

LEMMA LabellerKeepsDecisions ==
  ASSUME TypeOK, DecisionInv,
         \/ StartLabel("label") \/ StartLabel("relabel") \/ SkipExisting
         \/ LabelImage \/ WriteRows \/ LabelCut
  PROVE  DecisionInv'
<1>1. /\ tool' # "correct" /\ UNCHANGED <<review, corrected, approved>>
  BY DEF StartLabel, SkipExisting, LabelImage, WriteRows, LabelCut, Labeller,
         Stop, Advance, labelFiles
<1>2. /\ todo \in Seq(Images) /\ stale \subseteq Images
      /\ auto \in [Images -> Labels]
  BY DEF TypeOK
<1>3. ASSUME NEW f \in Images PROVE Vouched(f)'
  <2>1. Vouched(f)  BY DEF DecisionInv
  <2>2. CASE auto' = auto /\ stale' = stale
    BY <1>1, <2>1, <2>2 DEF Vouched
  <2>3. CASE /\ Rewrites(Head(todo))
             /\ \E n \in Int : auto' = [auto EXCEPT ![Head(todo)] = n]
    BY <1>1, <1>2, <2>1, <2>3 DEF Vouched, Rewrites
  <2>4. \A n \in 0 .. MaxBoxes : n \in Int  OBVIOUS
  <2> QED
    BY <2>2, <2>3, <2>4 DEF StartLabel, SkipExisting, LabelImage, WriteRows,
                            LabelCut, labelFiles
<1> QED
  BY <1>1, <1>3
     DEF DecisionInv, CorrectedHasLabel, EditsStayOnImage, Editing, Browsing

LEMMA ReviewerKeepsDecisions ==
  ASSUME TypeOK, DecisionInv,
         StartReview \/ SkipUnreadable \/ GoBack \/ Decide \/ ReviewEnds
  PROVE  DecisionInv'
<1>1. tool' # "correct"
  BY DEF StartReview, SkipUnreadable, GoBack, Decide, ReviewEnds, Browsing, Stop,
         Forward, Backward
<1>2. CASE UNCHANGED labelFiles  BY <1>1, <1>2, DecisionsUndisturbed
<1>3. CASE Decide
  <2>1. PICK d \in {"accepted", "needs_correction"} :
           /\ review' = [review EXCEPT ![Shown] = d]
           /\ approved' = [approved EXCEPT ![Shown] =
                              IF d = "accepted" THEN auto[Shown] ELSE NoLabel]
           /\ stale' = stale \ {Shown} /\ UNCHANGED <<auto, corrected>>
    BY <1>3 DEF Decide, Recorded
  <2>2. /\ review \in [Images -> Decisions] /\ approved \in [Images -> Labels]
    BY DEF TypeOK
  <2>3. ASSUME NEW f \in Images PROVE Vouched(f)'
    <3>1. CASE f = Shown  BY <2>1, <2>2, <3>1 DEF Vouched
    <3>2. CASE f # Shown
      <4>1. Vouched(f)  BY DEF DecisionInv
      <4> QED BY <2>1, <2>2, <3>2, <4>1 DEF Vouched
    <3> QED BY <3>1, <3>2
  <2>4. CorrectedHasLabel'
    BY <2>1, <2>2 DEF DecisionInv, CorrectedHasLabel
  <2> QED BY <1>1, <2>3, <2>4 DEF DecisionInv, EditsStayOnImage, Editing, Browsing
<1> QED
  BY <1>2, <1>3 DEF StartReview, SkipUnreadable, GoBack, ReviewEnds

\* A line drawn, undone or loaded is one of the image on screen.
LEMMA EditorStepOfImage ==
  ASSUME TypeOK, EditorStep, EditsStayOnImage
  PROVE  EditsStayOnImage' /\ editor'.state = "open"
<1> USE DEF Edited, walk
<1>1. UNCHANGED <<tool, todo, at>> /\ EditorType /\ Browsing("correct")
  <2>1. Browsing("correct")
    BY DEF EditorStep, Load, Press, Release, RemoveBox, Clear, Restore, Undo,
           Editing
  <2> QED BY <2>1, EditorStepType DEF TypeOK, EditorType
<1>2. Shown' = Shown /\ Browsing("correct")'
  BY <1>1 DEF Shown, Browsing
<1> HIDE DEF Edited
<1>3. CASE Load
  BY <1>1, <1>2, <1>3
     DEF Load, Edited, Loaded, StartsFrom, On, EditsStayOnImage, EditorType
<1>4. ASSUME Editing
      PROVE  /\ editor.boxes.of = Shown /\ editor.drag \in {0, Shown}
             /\ \A i \in DOMAIN editor.undo : editor.undo[i].of = Shown
             /\ \A i \in DOMAIN Snapshot : Snapshot[i].of = Shown
             /\ editor.state = "open"
  BY <1>1, <1>4, SnapshotType DEF EditsStayOnImage, Editing
<1>5. ASSUME Editing, NEW b, b.of = Shown, NEW d \in {0, Shown},
             editor' = [editor EXCEPT !.drag = d, !.undo = Snapshot, !.boxes = b]
      PROVE  EditsStayOnImage' /\ editor'.state = "open"
  BY <1>1, <1>2, <1>4, <1>5 DEF EditsStayOnImage, EditorType
<1>6. ASSUME Editing, NEW b, b.of = Shown,
             editor' = [editor EXCEPT !.undo = Snapshot, !.boxes = b]
      PROVE  EditsStayOnImage' /\ editor'.state = "open"
  BY <1>1, <1>2, <1>4, <1>6 DEF EditsStayOnImage, EditorType
<1>7. CASE Press
  BY <1>1, <1>2, <1>4, <1>7 DEF Press, Edited, EditsStayOnImage, EditorType
<1>8. CASE Release
  <2>1. Editing /\ editor.drag = Shown  BY <1>4, <1>8 DEF Release
  <2>2. CASE editor' = [editor EXCEPT !.drag = 0]
    BY <1>1, <1>2, <1>4, <2>1, <2>2 DEF EditsStayOnImage, EditorType
  <2>3. CASE editor' = [editor EXCEPT !.drag = 0, !.undo = Snapshot,
                          !.boxes = On(editor.drag, editor.boxes.count + 1)]
    BY <1>5, <2>1, <2>3 DEF On
  <2> QED BY <1>8, <2>2, <2>3 DEF Release, Edited
<1>9. CASE RemoveBox
  <2>1. editor.boxes \in Edits  BY <1>1 DEF EditorType
  <2>2. [editor.boxes EXCEPT !.count = @ - 1].of = Shown
    BY <1>4, <1>9, <2>1 DEF RemoveBox, Edits
  <2> QED BY <1>6, <1>9, <2>2 DEF RemoveBox, Changed, Edited
<1>10. CASE Clear \/ Restore
  <2>1. Editing
    BY <1>10 DEF Clear, Restore
  <2>2. PICK n :
          editor' = [editor EXCEPT !.undo = Snapshot, !.boxes = On(Shown, n)]
    BY <1>10 DEF Clear, Restore, Changed, Edited
  <2>3. On(Shown, n).of = Shown  BY DEF On
  <2> QED BY <1>6, <2>1, <2>2, <2>3
<1>11. CASE Undo
  <2>1. Editing /\ editor.undo # <<>>
        /\ editor' = [editor EXCEPT !.boxes = Last(editor.undo), !.undo = Front(@)]
    BY <1>11 DEF Undo, Edited
  <2>2. /\ Last(editor.undo).of = Shown
        /\ \A i \in DOMAIN Front(editor.undo) : Front(editor.undo)[i].of = Shown
    BY <1>1, <1>4, <2>1, UndoType
  <2> QED BY <1>1, <1>2, <1>4, <2>1, <2>2 DEF EditsStayOnImage, EditorType
<1> QED
  BY <1>3, <1>7, <1>8, <1>9, <1>10, <1>11 DEF EditorStep

LEMMA EditorKeepsDecisions ==
  ASSUME TypeOK, DecisionInv,
         \/ StartCorrect \/ EditorStep \/ LoadFails
         \/ SaveLabel \/ MarkCorrected \/ SaveCut \/ Previous \/ CorrectEnds
  PROVE  DecisionInv'
<1> USE DEF labelFiles
<1>1. /\ todo \in Seq(Images) /\ review \in [Images -> Decisions]
      /\ corrected \in [Images -> Labels] /\ approved \in [Images -> Labels]
      /\ editor \in [state : {"closed", "open", "saved"}, boxes : Edits,
                      undo : Seq(Edits), drag : Images \cup {0}]
  BY DEF TypeOK
<1>2. CASE StartCorrect
  <2>1. PICK pending \in SUBSET Correctable : todo' \in SetToSeqs(pending)
    BY <1>2 DEF StartCorrect, Sorted, Lists, Correctable
  <2>2. pending \in SUBSET Images  BY DEF Correctable
  <2>3. todo' \in Seq(Correctable)
    BY <2>1, <2>2, ListIsSeq, SeqMonotonic
  <2>4. Correctable' = Correctable /\ editor' = Closed /\ UNCHANGED labelFiles
    BY <1>2 DEF StartCorrect, Correctable
  <2> QED BY <2>3, <2>4
          DEF DecisionInv, Vouched, CorrectedHasLabel, Saved, EditsStayOnImage,
              Editing, Closed
<1>3. CASE EditorStep
  <2>1. /\ UNCHANGED <<tool, walk, labelFiles>>
        /\ EditsStayOnImage' /\ editor'.state = "open"
    BY <1>3, EditorStepType, EditorStepOfImage DEF DecisionInv
  <2> QED BY <2>1
          DEF DecisionInv, Vouched, CorrectedHasLabel, Saved, Correctable, walk
<1>4. CASE LoadFails \/ CorrectEnds
  BY <1>4, DecisionsUndisturbed DEF LoadFails, CorrectEnds, Stop
<1>5. CASE Previous
  <2>1. /\ UNCHANGED <<tool, todo, labelFiles>> /\ editor'.state = "closed"
    BY <1>1, <1>5 DEF Previous, Backward, TurnsTo
  <2> QED BY <2>1
          DEF DecisionInv, Vouched, CorrectedHasLabel, Saved, Correctable,
              EditsStayOnImage, Editing
<1>6. ASSUME Browsing("correct")
      PROVE  Shown \in Correctable /\ Shown \in Images
  BY <1>6, ShownType DEF DecisionInv, Browsing, Correctable
<1>7. CASE SaveLabel
  <2>1. Shown \in Correctable /\ Shown \in Images
    BY <1>6, <1>7 DEF SaveLabel, Editing
  <2>2. editor.boxes.count # NoLabel
    BY <1>1, BoxesAssumption DEF Edits, NoLabel
  <2>3. /\ UNCHANGED <<tool, todo, at, review, auto>> /\ Shown' = Shown
        /\ stale' = stale \ {Shown} /\ editor'.state = "saved"
        /\ corrected' = [corrected EXCEPT ![Shown] = editor.boxes.count]
        /\ approved' = [approved EXCEPT ![Shown] = editor.boxes.count]
    BY <1>1, <1>7 DEF SaveLabel, walk, Shown
  <2>4. ASSUME NEW f \in Images PROVE Vouched(f)'
    BY <1>1, <2>1, <2>3 DEF DecisionInv, Vouched, Correctable
  <2>5. CorrectedHasLabel'
    BY <1>1, <2>2, <2>3 DEF DecisionInv, CorrectedHasLabel
  <2>6. Saved'  BY <1>1, <2>1, <2>2, <2>3 DEF Saved
  <2>7. EditsStayOnImage'  BY <2>3 DEF EditsStayOnImage, Editing
  <2>8. Correctable' = Correctable  BY <2>3 DEF Correctable
  <2> QED BY <2>3, <2>4, <2>5, <2>6, <2>7, <2>8 DEF DecisionInv
<1>8. CASE MarkCorrected
  <2>1. Shown \in Correctable /\ Shown \in Images /\ Saved
    BY <1>6, <1>8 DEF MarkCorrected, DecisionInv, Browsing
  <2>2. /\ corrected[Shown] # NoLabel
        /\ Shown \notin stale => corrected[Shown] = approved[Shown]
    BY <1>8, <2>1 DEF MarkCorrected, Browsing, Saved
  <2>3. /\ UNCHANGED <<tool, todo, auto, corrected, approved, stale>>
        /\ review' = [review EXCEPT ![Shown] = "corrected"]
        /\ editor'.state = "closed"
    BY <1>1, <1>8 DEF MarkCorrected, Forward, TurnsTo
  <2>4. ASSUME NEW f \in Images PROVE Vouched(f)'
    BY <1>1, <2>1, <2>2, <2>3 DEF DecisionInv, Vouched
  <2>5. CorrectedHasLabel'
    BY <1>1, <2>2, <2>3 DEF DecisionInv, CorrectedHasLabel
  <2>6. Correctable' = Correctable
    BY <1>1, <2>1, <2>3 DEF Correctable
  <2>7. Saved' /\ EditsStayOnImage'
    BY <2>3 DEF Saved, EditsStayOnImage, Editing
  <2> QED BY <2>3, <2>4, <2>5, <2>6, <2>7 DEF DecisionInv
<1>9. CASE SaveCut
  <2>1. /\ tool' = "none" /\ UNCHANGED <<auto, review, approved>>
        /\ corrected' = [corrected EXCEPT ![Shown] = 0]
        /\ stale' = stale \cup {Shown}
    BY <1>9 DEF SaveCut, Stop
  <2>2. ASSUME NEW f \in Images PROVE Vouched(f)'
    BY <1>1, <2>1 DEF DecisionInv, Vouched
  <2>3. CorrectedHasLabel'
    BY <1>1, <2>1 DEF DecisionInv, CorrectedHasLabel, NoLabel
  <2> QED BY <2>1, <2>2, <2>3 DEF DecisionInv, EditsStayOnImage, Editing, Browsing
<1> QED
  BY <1>2, <1>3, <1>4, <1>5, <1>7, <1>8, <1>9

LEMMA DecisionInit == Init => DecisionInv
<1> SUFFICES ASSUME Init PROVE DecisionInv
  OBVIOUS
<1>1. PICK b \in Beginnings :
         auto = b.auto /\ review = b.review /\ approved = b.final
  BY DEF Init
<1>2. /\ review \in [Images -> {"", "accepted"}]
      /\ \A f \in Images : review[f] = "accepted" => approved[f] = auto[f]
  BY <1>1, BeginningsAssumption
<1>3. \A f \in Images : review[f] # "corrected"  BY <1>2
<1>4. tool = "none"  BY DEF Init
<1> QED BY <1>2, <1>3, <1>4
        DEF DecisionInv, Vouched, CorrectedHasLabel, EditsStayOnImage, Editing,
            Browsing

LEMMA DecisionNext == TypeOK /\ DecisionInv /\ [Next]_vars => DecisionInv'
<1> SUFFICES ASSUME TypeOK, DecisionInv, [Next]_vars PROVE DecisionInv'
  OBVIOUS
<1>1. CASE PoolStep /\ UNCHANGED <<work, plan>>
  <2>1. UNCHANGED labelFiles  BY <1>1, Frames
  <2>2. tool' # "correct"  BY <1>1, PoolToolRuns
  <2> QED BY <2>1, <2>2, DecisionsUndisturbed
<1>2. CASE LabelStep /\ UNCHANGED <<counts, plan>>
  BY <1>2, LabellerKeepsDecisions, ReviewerKeepsDecisions, EditorKeepsDecisions
     DEF LabelStep, EditorStep
<1>3. CASE SetStep /\ UNCHANGED <<counts, work>>
  <2>1. UNCHANGED labelFiles  BY <1>3, Frames
  <2>2. tool' # "correct"
    BY <1>3 DEF SetStep, StartFinal, CopyFinal, FinalEnds, FinalCut, StartSplit,
                CopyToSplit, SplitEnds, Walking, Done, Stop, Advance
  <2> QED BY <2>1, <2>2, DecisionsUndisturbed
<1>4. CASE Interrupt
  BY <1>4, DecisionsUndisturbed DEF Interrupt, Stop, files
<1>5. CASE UNCHANGED vars
  BY <1>5 DEF vars, walk, files, labelFiles, work, DecisionInv, Vouched,
              CorrectedHasLabel, Saved, Correctable, EditsStayOnImage, Editing,
              Browsing, Shown
<1> QED BY <1>1, <1>2, <1>3, <1>4, <1>5 DEF Next

LEMMA DecisionsHold == Spec => []DecisionInv
BY DecisionInit, DecisionNext, TypeCorrect, PTL DEF Spec

(***************************************************************************)
(* Boxes, undo stack and drag are always of the image on screen, for every *)
(* list of images, undo depth and sequence of keys.                        *)
(***************************************************************************)
THEOREM EditsAreOfImage == Spec => []EditsStayOnImage
BY DecisionsHold, PTL DEF DecisionInv

(***************************************************************************)
(* A corrected image has its corrected label, and no decision is forgotten *)
(* or changed outside the reviewer, for every stretch of work.             *)
(***************************************************************************)
THEOREM DecisionsStay == Spec => DecisionsAreKept
<1>1. ASSUME TypeOK, DecisionInv, [Next]_vars, NEW f \in Images,
             review'[f] # review[f], review[f] # ""
      PROVE  \/ tool = "review" /\ review'[f] # ""
             \/ review[f] = "needs_correction" /\ review'[f] = "corrected"
  <2>1. Decide \/ MarkCorrected
    BY <1>1, Frames
       DEF Next, vars, files, labelFiles, Interrupt, LabelStep, StartLabel,
           SkipExisting, LabelImage, WriteRows, LabelCut, StartReview,
           SkipUnreadable, GoBack, ReviewEnds, StartCorrect, Load, LoadFails,
           Press, Release, RemoveBox, Clear, Restore, Undo, SaveLabel, SaveCut,
           Previous, CorrectEnds, Changed, Edited
  <2>2. review \in [Images -> Decisions]  BY <1>1 DEF TypeOK
  <2>3. CASE Decide
    BY <1>1, <2>2, <2>3 DEF Decide, Recorded, Browsing
  <2>4. CASE MarkCorrected
    <3>1. Shown \in Correctable
      BY <1>1, <2>4, ShownType DEF MarkCorrected, DecisionInv, Browsing
    <3> QED BY <1>1, <2>2, <2>4, <3>1 DEF MarkCorrected, Correctable
  <2> QED BY <2>1, <2>3, <2>4
<1>2. TypeOK /\ DecisionInv /\ [Next]_vars => DecisionSurvives
  BY <1>1 DEF DecisionSurvives
<1>3. TypeOK /\ DecisionInv /\ [Next]_vars => CorrectedHasLabel'
  BY DecisionNext DEF DecisionInv
<1> QED
  BY <1>2, <1>3, DecisionsHold, TypeCorrect, PTL DEF Spec, DecisionsAreKept

(***************************************************************************)
(* A whole label of the final set is the one last approved for its image,  *)
(* for every stretch of work.                                              *)
(***************************************************************************)
THEOREM FinalLabelsAreApproved == Spec => FinalIsApproved
<1>1. ASSUME TypeOK, DecisionInv, Next, NEW f \in Images \ stale,
             tool' = "final", final'[f] # final[f], final'[f] # NoLabel
      PROVE  final'[f] = approved[f]
  <2>1. CopyFinal
    <3>1. SetStep
      BY <1>1, Frames DEF Next, LabelStep, Interrupt, files
    <3>2. ~StartFinal  BY <1>1 DEF StartFinal
    <3> QED
      BY <1>1, <3>1, <3>2 DEF SetStep, FinalEnds, FinalCut, StartSplit,
                              CopyToSplit, SplitEnds, Stop
  <2>2. final \in [Images -> Labels]  BY <1>1 DEF TypeOK
  <2>3. f = Head(todo) /\ final'[f] = Source(f)
    BY <1>1, <2>1, <2>2 DEF CopyFinal
  <2>4. Vouched(f)  BY <1>1 DEF DecisionInv
  <2> QED BY <1>1, <2>3, <2>4 DEF Vouched, Source
<1>2. TypeOK /\ DecisionInv /\ [Next]_vars =>
        [\A f \in Images \ stale :
           tool' = "final" /\ final'[f] # final[f] /\ final'[f] # NoLabel
             => final'[f] = approved[f]]_vars
  BY <1>1
<1> QED
  BY <1>2, DecisionsHold, TypeCorrect, PTL DEF Spec, FinalIsApproved

-----------------------------------------------------------------------------
(* Folds: what holds before the first element and survives each step holds *)
(* at the end.  The least counterexample takes the place of an induction.  *)

\* Of the numbers that have something in common there is a least.
LEMMA Least ==
  ASSUME NEW T \in SUBSET Nat, T # {}
  PROVE  \E m \in T : \A k \in T : m <= k
<1> DEFINE R == OpToRel(<, Nat)
<1>1. \E m \in T : \A k \in T : ~ (<<k, m>> \in R)
  BY WFMin, NatLessThanWellFounded, Zenon
<1>2. PICK m \in T : \A k \in T : ~ (<<k, m>> \in R)
  BY <1>1
<1>3. ASSUME NEW k \in T PROVE m <= k
  <2>1. k < m => <<k, m>> \in R
    BY DEF OpToRel
  <2>2. ~(k < m)
    BY <1>2, <2>1
  <2> HIDE DEF R
  <2> QED BY <2>2
<1> QED BY <1>3

\* A set that holds 0 and, with a number, its successor holds all up to n.
LEMMA UpTo ==
  ASSUME NEW n \in Nat, NEW T, 0 \in T, \A k \in 1 .. n : k - 1 \in T => k \in T
  PROVE  \A k \in 0 .. n : k \in T
<1> SUFFICES ASSUME (0 .. n) \ T # {} PROVE FALSE
  OBVIOUS
<1> DEFINE bad == (0 .. n) \ T
<1>1. bad \in SUBSET Nat /\ bad # {}
  OBVIOUS
<1>2. PICK m \in bad : \A k \in bad : m <= k
  BY <1>1, Least
<1>3. m \in 1 .. n /\ m - 1 \in 0 .. n /\ m - 1 \notin bad
  BY <1>2
<1> QED BY <1>2, <1>3

LEMMA MaxOfRange ==
  ASSUME NEW n \in Nat, NEW s \in SUBSET (1 .. n), s # {}
  PROVE  Max(s) \in s /\ \A k \in s : Max(s) >= k
<1> DEFINE above == {u \in 0 .. n : \A k \in s : k <= u}
<1>1. above \in SUBSET Nat /\ n \in above
  OBVIOUS
<1>2. PICK u \in above : \A v \in above : u <= v
  BY <1>1, Least
<1>3. u \in s
  <2>0. s \subseteq 1 .. n
    OBVIOUS
  <2> SUFFICES ASSUME u \notin s PROVE FALSE
    OBVIOUS
  <2>a. u \in 0 .. n /\ \A k \in s : k <= u
    BY <1>2
  <2>b. PICK least \in s : TRUE
    OBVIOUS
  <2>c. least \in 1 .. n /\ least <= u
    BY <2>0, <2>a
  <2>1. u \in 0 .. n /\ u # 0 /\ \A k \in s : k <= u
    BY <2>a, <2>c
  <2>2. \A k \in s : k <= u - 1
    <3>1. ASSUME NEW k \in s PROVE k <= u - 1
      <4>1. k \in 1 .. n /\ k <= u /\ k # u
        BY <2>0, <2>1
      <4> QED BY <2>1, <4>1
    <3> QED BY <3>1
  <2>3. u - 1 \in 0 .. n
    BY <2>1
  <2>4. u - 1 \in above
    BY <2>2, <2>3
  <2> QED BY <1>2, <2>1, <2>4
<1>4. \A k \in s : u >= k
  BY <1>2
<1> QED BY <1>3, <1>4 DEF Max

LEMMA MaxOfPrefix ==
  ASSUME NEW k \in Nat, k # 0
  PROVE  Max(1 .. k) = k /\ (1 .. k) \ {k} = 1 .. (k - 1)
<1>1. 1 .. k \in SUBSET (1 .. k) /\ 1 .. k # {} /\ k \in 1 .. k
  OBVIOUS
<1>2. Max(1 .. k) \in 1 .. k /\ Max(1 .. k) >= k
  BY <1>1, MaxOfRange
<1> HIDE DEF Max
<1> QED BY <1>2

\* The values h of a fold by functions G, for every set of places.
Folded(h, T, b, n, G) ==
    /\ h \in [SUBSET (1 .. n) -> T]
    /\ \A s \in SUBSET (1 .. n) :
          h[s] = IF s = {} THEN b ELSE G[Max(s)][h[s \ {Max(s)}]]

\* A fold by functions is well defined.
LEMMA FoldExists ==
  ASSUME NEW T, NEW b \in T, NEW n \in Nat, NEW G \in [1 .. n -> [T -> T]]
  PROVE  \E h : Folded(h, T, b, n, G)
<1> DEFINE Folds(h, m) ==
             \A s \in SUBSET (1 .. m) :
                h[s] = IF s = {} THEN b ELSE G[Max(s)][h[s \ {Max(s)}]]
           good == {m \in 0 .. n : \E h \in [SUBSET (1 .. m) -> T] : Folds(h, m)}
<1>1. 0 \in good
  <2> DEFINE h == [s \in SUBSET (1 .. 0) |-> b]
  <2>1. h \in [SUBSET (1 .. 0) -> T] /\ Folds(h, 0)
    OBVIOUS
  <2>2. 0 \in 0 .. n
    OBVIOUS
  <2> HIDE DEF h
  <2>3. \E f \in [SUBSET (1 .. 0) -> T] : Folds(f, 0)
    BY <2>1
  <2> HIDE DEF Folds
  <2> QED BY <2>2, <2>3
<1>2. ASSUME NEW m \in 1 .. n, m - 1 \in good
      PROVE  m \in good
  <2>1. PICK h \in [SUBSET (1 .. (m - 1)) -> T] : Folds(h, m - 1)
    BY <1>2
  <2> DEFINE g == [s \in SUBSET (1 .. m) |->
                     IF m \in s THEN G[m][h[s \ {m}]] ELSE h[s]]
  <2>2. \A s \in SUBSET (1 .. m) : s \ {m} \in SUBSET (1 .. (m - 1))
    OBVIOUS
  <2>3. \A s \in SUBSET (1 .. m) : m \notin s => s \in SUBSET (1 .. (m - 1))
    OBVIOUS
  <2>4. g \in [SUBSET (1 .. m) -> T]
    <3>1. ASSUME NEW s \in SUBSET (1 .. m)
          PROVE  (IF m \in s THEN G[m][h[s \ {m}]] ELSE h[s]) \in T
      <4>1. CASE m \in s
        <5>1. h[s \ {m}] \in T
          BY <2>1, <2>2
        <5>2. m \in 1 .. n
          OBVIOUS
        <5> QED BY <4>1, <5>1, <5>2
      <4>2. CASE m \notin s
        BY <2>1, <2>3, <4>2
      <4> QED BY <4>1, <4>2
    <3> QED BY <3>1
  <2>5. ASSUME NEW s \in SUBSET (1 .. m)
        PROVE  g[s] = IF s = {} THEN b ELSE G[Max(s)][g[s \ {Max(s)}]]
    <3>1. CASE m \in s
      <4>1. m \in Nat /\ s \in SUBSET (1 .. m) /\ s # {}
        BY <3>1
      <4>2. Max(s) \in s /\ \A k \in s : Max(s) >= k
        BY <4>1, MaxOfRange
      <4>3. Max(s) \in 1 .. m /\ Max(s) >= m
        BY <3>1, <4>2
      <4>4. Max(s) = m
        BY <4>3
      <4>5. g[s] = G[m][h[s \ {m}]]
        BY <3>1
      <4>6. g[s \ {m}] = h[s \ {m}]
        <5>1. s \ {m} \in SUBSET (1 .. m) /\ m \notin s \ {m}
          BY <2>2
        <5> QED BY <5>1
      <4> HIDE DEF g
      <4> QED BY <4>1, <4>4, <4>5, <4>6
    <3>2. CASE m \notin s /\ s # {}
      <4>1. s \in SUBSET (1 .. (m - 1)) /\ g[s] = h[s]
        BY <3>2, <2>3
      <4>2. s \ {Max(s)} \in SUBSET (1 .. (m - 1)) /\ m \notin s \ {Max(s)}
        BY <4>1, <3>2
      <4>3. g[s \ {Max(s)}] = h[s \ {Max(s)}]
        BY <4>2
      <4> QED BY <2>1, <3>2, <4>1, <4>3
    <3>3. CASE s = {}
      BY <2>1, <3>3
    <3> QED BY <3>1, <3>2, <3>3
  <2> HIDE DEF g
  <2>6. Folds(g, m)
    BY <2>5
  <2>7. m \in 0 .. n
    OBVIOUS
  <2>8. \E f \in [SUBSET (1 .. m) -> T] : Folds(f, m)
    BY <2>4, <2>6
  <2> HIDE DEF Folds
  <2> QED BY <2>7, <2>8
<1> HIDE DEF good
<1>3. \A m \in 0 .. n : m \in good
  BY <1>1, <1>2, UpTo
<1>4. n \in good
  BY <1>3
<1>5. PICK h \in [SUBSET (1 .. n) -> T] : Folds(h, n)
  BY <1>4 DEF good
<1>6. Folded(h, T, b, n, G)
  BY <1>5 DEF Folded
<1> QED BY <1>6

-----------------------------------------------------------------------------
(* Union and find.                                                         *)

JoinAll(S, q) == FoldLeft(Unite, [x \in S |-> x], q)

\* The roots r after each of the pairs.
Joins(S, q, r) ==
    /\ r \in [0 .. Len(q) -> [S -> S]]
    /\ JoinAll(S, q) = r[Len(q)]
    /\ \A k \in 1 .. Len(q) : r[k] = Unite(r[k - 1], q[k])

\* The two of every pair have the same root.
Joined(S, q, root) ==
    /\ root \in [S -> S]
    /\ \A i \in 1 .. Len(q) : root[q[i][1]] = root[q[i][2]]

LEMMA UniteType ==
  ASSUME NEW S, NEW root \in [S -> S], NEW pair \in S \X S
  PROVE  /\ Unite(root, pair) \in [S -> S]
         /\ Unite(root, pair)[pair[1]] = Unite(root, pair)[pair[2]]
<1>1. pair[1] \in S /\ pair[2] \in S
  OBVIOUS
<1> QED BY <1>1 DEF Unite

\* What was joined stays joined.
LEMMA UniteKeeps ==
  ASSUME NEW S, NEW root \in [S -> S], NEW pair,
         NEW x \in S, NEW y \in S, root[x] = root[y]
  PROVE  Unite(root, pair)[x] = Unite(root, pair)[y]
BY DEF Unite

\* The roots, one pair after the other.
LEMMA UnionFolds ==
  ASSUME NEW S, NEW q \in Seq(S \X S)
  PROVE  \E r : Joins(S, q, r)
<1> DEFINE T == [S -> S]
           b == [x \in S |-> x]
           n == Len(q)
           G == [k \in 1 .. n |-> [root \in T |-> Unite(root, q[k])]]
           Solves(h) ==
             h = [s \in SUBSET DOMAIN q |->
                    IF s = {} THEN b ELSE Unite(h[s \ {Max(s)}], q[Max(s)])]
<1>1. n \in Nat /\ DOMAIN q = 1 .. n /\ b \in T
  BY LenProperties
<1>2. \A k \in 1 .. n : q[k] \in S \X S
  BY <1>1, ElementOfSeq
<1>3. G \in [1 .. n -> [T -> T]]
  BY <1>2, UniteType
<1>4. \A k \in 1 .. n : \A root \in T : G[k][root] = Unite(root, q[k])
  OBVIOUS
<1> HIDE DEF T, b, n, G
<1>a. b \in T
  BY <1>1
<1>b. n \in Nat
  BY <1>1
<1>c. PICK h : Folded(h, T, b, n, G)
  BY <1>a, <1>b, <1>3, FoldExists
<1>5. /\ h \in [SUBSET (1 .. n) -> T]
      /\ \A s \in SUBSET (1 .. n) :
            h[s] = IF s = {} THEN b ELSE G[Max(s)][h[s \ {Max(s)}]]
  BY <1>c DEF Folded
<1>6. Solves(h)
  <2>1. ASSUME NEW s \in SUBSET (1 .. n), s # {}
        PROVE  h[s] = Unite(h[s \ {Max(s)}], q[Max(s)])
    <3>1. Max(s) \in 1 .. n
      BY <1>1, <2>1, MaxOfRange
    <3>2. h[s \ {Max(s)}] \in T
      BY <1>5
    <3> QED BY <1>4, <1>5, <2>1, <3>1, <3>2
  <2>2. h = [s \in SUBSET (1 .. n) |->
               IF s = {} THEN b ELSE Unite(h[s \ {Max(s)}], q[Max(s)])]
    BY <1>5, <2>1
  <2> QED BY <1>1, <2>2
<1>7. PICK f : Solves(f) /\ FoldLeft(Unite, b, q) = f[1 .. n]
  BY <1>1, <1>6 DEF FoldLeft, MapThenFoldSet
<1>8. \A s \in SUBSET (1 .. n) :
         f[s] = IF s = {} THEN b ELSE Unite(f[s \ {Max(s)}], q[Max(s)])
  BY <1>1, <1>7
<1> HIDE DEF Solves
<1> DEFINE r == [k \in 0 .. n |-> f[1 .. k]]
<1>9. r[0] = b /\ r[n] = f[1 .. n]
  <2>1. 1 .. 0 = {} /\ {} \in SUBSET (1 .. n) /\ 0 \in 0 .. n /\ n \in 0 .. n
    BY <1>1
  <2> QED BY <1>8, <2>1
<1>10. ASSUME NEW k \in 1 .. n PROVE r[k] = Unite(r[k - 1], q[k])
  <2>1. Max(1 .. k) = k /\ (1 .. k) \ {k} = 1 .. (k - 1)
    BY <1>1, MaxOfPrefix
  <2>2. 1 .. k \in SUBSET (1 .. n) /\ k \in 1 .. k
        /\ k - 1 \in 0 .. n /\ k \in 0 .. n
    BY <1>1
  <2>3. f[1 .. k] = Unite(f[1 .. (k - 1)], q[k])
    BY <1>8, <2>1, <2>2
  <2> QED BY <2>2, <2>3
<1> DEFINE good == {k \in 0 .. n : r[k] \in T}
<1>11. \A k \in 0 .. n : k \in good
  <2> HIDE DEF r
  <2>1. 0 \in good
    BY <1>1, <1>9
  <2>2. ASSUME NEW k \in 1 .. n, k - 1 \in good PROVE k \in good
    <3>1. r[k - 1] \in [S -> S] /\ q[k] \in S \X S
      BY <1>1, <1>2, <2>2 DEF T
    <3>2. Unite(r[k - 1], q[k]) \in [S -> S]
      BY <3>1, UniteType
    <3> QED BY <1>1, <1>10, <3>2 DEF T
  <2> HIDE DEF good
  <2> QED BY <1>1, <2>1, <2>2, UpTo
<1>12. r \in [0 .. n -> T]
  BY <1>11
<1> HIDE DEF r, good
<1>13. JoinAll(S, q) = r[n]
  BY <1>7, <1>9 DEF JoinAll, b
<1> QED BY <1>10, <1>12, <1>13 DEF Joins, n, T

\* Whatever is on the list of pairs is joined in the end.
LEMMA UnionJoins ==
  ASSUME NEW S, NEW q \in Seq(S \X S)
  PROVE  Joined(S, q, JoinAll(S, q))
<1>0. PICK r : Joins(S, q, r)
  BY UnionFolds
<1>1. /\ r \in [0 .. Len(q) -> [S -> S]]
      /\ JoinAll(S, q) = r[Len(q)]
      /\ \A k \in 1 .. Len(q) : r[k] = Unite(r[k - 1], q[k])
  BY <1>0 DEF Joins
<1>2. PICK n : n = Len(q)
  OBVIOUS
<1>3. n \in Nat /\ \A i \in 1 .. n : q[i] \in S \X S
  BY <1>2, LenProperties, ElementOfSeq
<1> DEFINE good == {k \in 0 .. n : \A i \in 1 .. k : r[k][q[i][1]] = r[k][q[i][2]]}
<1>4. 0 \in good
  BY <1>3
<1>5. ASSUME NEW k \in 1 .. n, k - 1 \in good PROVE k \in good
  <2>1. r[k - 1] \in [S -> S] /\ q[k] \in S \X S /\ r[k] = Unite(r[k - 1], q[k])
    BY <1>1, <1>2, <1>3
  <2>2. ASSUME NEW i \in 1 .. k PROVE r[k][q[i][1]] = r[k][q[i][2]]
    <3>1. CASE i = k
      <4>1. q[k][1] \in S /\ q[k][2] \in S
        BY <2>1
      <4>2. Unite(r[k - 1], q[k])[q[k][1]] = Unite(r[k - 1], q[k])[q[k][2]]
        BY <2>1, UniteType
      <4> QED BY <2>1, <3>1, <4>2
    <3>2. CASE i # k
      <4>1. i \in 1 .. (k - 1) /\ i \in 1 .. n
        BY <1>3, <3>2
      <4>2. q[i] \in S \X S /\ r[k - 1][q[i][1]] = r[k - 1][q[i][2]]
        BY <1>3, <1>5, <4>1
      <4>3. q[i][1] \in S /\ q[i][2] \in S
        BY <4>2
      <4>4. Unite(r[k - 1], q[k])[q[i][1]] = Unite(r[k - 1], q[k])[q[i][2]]
        <5>1. PICK x, y, root : x = q[i][1] /\ y = q[i][2] /\ root = r[k - 1]
          OBVIOUS
        <5>2. x \in S /\ y \in S /\ root \in [S -> S] /\ root[x] = root[y]
          BY <2>1, <4>2, <4>3, <5>1
        <5>3. Unite(root, q[k])[x] = Unite(root, q[k])[y]
          BY <5>2, UniteKeeps
        <5> QED BY <5>1, <5>3
      <4> QED BY <2>1, <4>4
    <3> QED BY <3>1, <3>2
  <2> QED BY <1>3, <2>2
<1>6. \A k \in 0 .. n : k \in good
  <2> HIDE DEF good
  <2> QED BY <1>3, <1>4, <1>5, UpTo
<1>7. n \in 0 .. n
  BY <1>3
<1>8. n \in good
  BY <1>6, <1>7
<1> QED BY <1>1, <1>2, <1>3, <1>7, <1>8 DEF Joined

-----------------------------------------------------------------------------
(* The near-duplicate groups of the report.                                *)

\* A finite set is listed whole by as many different elements as it has.
LEMMA ListsAll ==
  ASSUME NEW S, IsFiniteSet(S), NEW f \in [1 .. Cardinality(S) -> S],
         \A i, j \in 1 .. Cardinality(S) : f[i] = f[j] => i = j
  PROVE  \A x \in S : \E i \in 1 .. Cardinality(S) : f[i] = x
<1>1. PICK n : n = Cardinality(S)
  OBVIOUS
<1>2. n \in Nat
  BY <1>1, FS_CardinalityType
<1>3. IsFiniteSet(1 .. n) /\ Cardinality(1 .. n) = n
  BY <1>2, FS_Interval
<1>4. f \in Injection(1 .. n, S)
  BY <1>1 DEF Injection, IsInjective
<1>5. f \in Surjection(1 .. n, S)
  BY <1>1, <1>3, <1>4, FS_Injection
<1> QED BY <1>1, <1>5 DEF Surjection

LEMMA SetToSeqAll ==
  ASSUME NEW S, IsFiniteSet(S)
  PROVE  /\ SetToSeq(S) \in Seq(S)
         /\ \A x \in S : \E i \in 1 .. Len(SetToSeq(S)) : SetToSeq(S)[i] = x
<1>1. PICK n : n = Cardinality(S)
  OBVIOUS
<1>2. n \in Nat /\ ExistsBijection(1 .. n, S)
  BY <1>1, FS_CardinalityType
<1>3. PICK f : f \in Injection(1 .. n, S)
  BY <1>2 DEF ExistsBijection, Bijection
<1>4. f \in [1 .. n -> S] /\ IsInjective(f)
  BY <1>3 DEF Injection
<1>5. PICK q : q = SetToSeq(S)
  OBVIOUS
<1>6. q \in [1 .. n -> S] /\ IsInjective(q)
  BY <1>1, <1>4, <1>5 DEF SetToSeq
<1>7. \A i, j \in 1 .. n : q[i] = q[j] => i = j
  BY <1>6 DEF IsInjective
<1>8. \A x \in S : \E i \in 1 .. n : q[i] = x
  <2>1. /\ q \in [1 .. Cardinality(S) -> S]
        /\ \A i, j \in 1 .. Cardinality(S) : q[i] = q[j] => i = j
    BY <1>1, <1>6, <1>7
  <2>2. \A x \in S : \E i \in 1 .. Cardinality(S) : q[i] = x
    BY <2>1, ListsAll
  <2> QED BY <1>1, <2>2
<1>9. q \in Seq(S) /\ Len(q) = n
  BY <1>2, <1>6, IsASeq, LenProperties
<1> QED BY <1>5, <1>8, <1>9

\* A finite set has finitely many pairs.
LEMMA PairsFinite ==
  ASSUME NEW S, IsFiniteSet(S)
  PROVE  IsFiniteSet(S \X S)
<1>1. PICK n : n = Cardinality(S)
  OBVIOUS
<1>2. n \in Nat /\ ExistsBijection(1 .. n, S)
  BY <1>1, FS_CardinalityType
<1>3. PICK g : g \in Surjection(1 .. n, S)
  BY <1>2 DEF ExistsBijection, Bijection
<1>4. g \in [1 .. n -> S] /\ \A x \in S : \E i \in 1 .. n : g[i] = x
  BY <1>3 DEF Surjection
<1>5. ASSUME NEW x PROVE IsFiniteSet({x} \X S)
  <2> DEFINE h == [y \in S |-> <<x, y>>]
  <2>1. h \in Bijection(S, {x} \X S)
    BY DEF Bijection, Injection, Surjection, IsInjective
  <2>2. ExistsBijection(S, {x} \X S)
    BY <2>1 DEF ExistsBijection
  <2> QED BY <2>2, FS_Bijection
<1> DEFINE upto(k) == {p \in S \X S : \E i \in 1 .. k : p[1] = g[i]}
           good == {k \in 0 .. n : IsFiniteSet(upto(k))}
<1>6. 0 \in good
  <2>1. upto(0) = {}
    OBVIOUS
  <2> QED BY <1>2, <2>1, FS_EmptySet
<1>7. ASSUME NEW k \in 1 .. n, k - 1 \in good PROVE k \in good
  <2>1. upto(k) = upto(k - 1) \cup ({g[k]} \X S)
    <3>1. g[k] \in S /\ k \in 1 .. k /\ \A i \in 1 .. k : i = k \/ i \in 1 .. (k - 1)
      BY <1>2, <1>4
    <3>2. ASSUME NEW p \in upto(k) PROVE p \in upto(k - 1) \cup ({g[k]} \X S)
      BY <3>1
    <3>3. ASSUME NEW p \in upto(k - 1) PROVE p \in upto(k)
      BY <1>2
    <3>4. ASSUME NEW p \in {g[k]} \X S PROVE p \in upto(k)
      BY <3>1
    <3> HIDE DEF upto
    <3> QED BY <3>2, <3>3, <3>4
  <2>2. IsFiniteSet(upto(k - 1)) /\ k \in 0 .. n
    BY <1>7
  <2>3. IsFiniteSet({g[k]} \X S)
    BY <1>5
  <2> HIDE DEF upto
  <2>4. IsFiniteSet(upto(k))
    <3>1. PICK a, b : a = upto(k - 1) /\ b = {g[k]} \X S
      OBVIOUS
    <3>2. IsFiniteSet(a) /\ IsFiniteSet(b)
      BY <2>2, <2>3, <3>1
    <3>3. IsFiniteSet(a \cup b)
      BY <3>2, FS_Union
    <3> QED BY <2>1, <3>1, <3>3
  <2> QED BY <2>2, <2>4
<1>8. \A k \in 0 .. n : k \in good
  <2> HIDE DEF good
  <2> QED BY <1>2, <1>6, <1>7, UpTo
<1>9. IsFiniteSet(upto(n))
  BY <1>2, <1>8
<1>10. upto(n) = S \X S
  BY <1>4
<1> QED BY <1>9, <1>10

LEMMA NearJoined ==
  ASSUME NEW S \in SUBSET Images, NEW f \in S, NEW g \in S, f # g,
         Pair(f, g) \in Near
  PROVE  Roots(S) \in [S -> S] /\ Roots(S)[f] = Roots(S)[g]
<1> DEFINE near == {p \in S \X S : p[1] < p[2] /\ Pair(p[1], p[2]) \in Near}
<1>1. IsFiniteSet(near)
  <2>1. IsFiniteSet(S)
    BY ImagesAssumption, FS_Subset
  <2> QED BY <2>1, PairsFinite, FS_Subset
<1>2. PICK q : q = SetToSeq(near)
  OBVIOUS
<1>3. q \in Seq(near) /\ \A p \in near : \E i \in 1 .. Len(q) : q[i] = p
  BY <1>1, <1>2, SetToSeqAll
<1>4. q \in Seq(S \X S)
  BY <1>3, SeqMonotonic
<1>5. Roots(S) = JoinAll(S, q)
  BY <1>2 DEF Roots, NearPairs, JoinAll
<1>6. PICK root : root = JoinAll(S, q)
  OBVIOUS
<1>a. Joined(S, q, JoinAll(S, q))
  BY <1>4, UnionJoins
<1>7. /\ root \in [S -> S]
      /\ \A i \in 1 .. Len(q) : root[q[i][1]] = root[q[i][2]]
  BY <1>6, <1>a DEF Joined
<1>8. ASSUME NEW x \in S, NEW y \in S, x < y, Pair(x, y) \in Near
      PROVE  root[x] = root[y]
  <2>1. <<x, y>> \in near
    BY <1>8
  <2>2. PICK i \in 1 .. Len(q) : q[i] = <<x, y>>
    BY <1>3, <2>1
  <2> QED BY <1>7, <2>2
<1>9. f \in Nat /\ g \in Nat /\ Pair(g, f) = Pair(f, g)
  BY ImagesAssumption DEF Pair
<1>10. f < g \/ g < f
  BY <1>9
<1> QED BY <1>5, <1>6, <1>7, <1>8, <1>9, <1>10

\* Near duplicates that are both kept get the same group.
LEMMA NearGrouped ==
  ASSUME NEW S \in SUBSET Images, NEW f \in S, NEW g \in S, f # g,
         Pair(f, g) \in Near
  PROVE  Groups(S)[f] # 0 /\ Groups(S)[g] = Groups(S)[f]
<1>1. Roots(S) \in [S -> S] /\ Roots(S)[f] = Roots(S)[g]
  BY NearJoined
<1>2. Roots(S)[f] # 0
  BY <1>1, ImagesAssumption
<1>3. Groups(S)[f] = Roots(S)[f] /\ Groups(S)[g] = Roots(S)[g]
  BY <1>1 DEF Groups
<1> QED BY <1>1, <1>2, <1>3

-----------------------------------------------------------------------------
(* The division, group by group.                                           *)

LEMMA PartsAre == ToSet(Parts) = {"train", "val", "test"}
BY DEF ToSet, Parts

LEMMA GroupsFinite ==
  ASSUME NEW group \in SUBSET Images
  PROVE  IsFiniteSet(group) /\ Cardinality(group) \in Nat
BY ImagesAssumption, FS_Subset, FS_CardinalityType

Plans == UNION {[D -> ToSet(Parts)] : D \in SUBSET Images}
Accounts == [counts : [ToSet(Parts) -> Int], plan : Plans]

LEMMA AndType ==
  ASSUME NEW a \in Plans, NEW b \in Plans
  PROVE  /\ And(a, b) \in Plans
         /\ DOMAIN And(a, b) = DOMAIN a \cup DOMAIN b
         /\ \A f \in DOMAIN b : And(a, b)[f] = b[f]
         /\ \A f \in DOMAIN a \ DOMAIN b : And(a, b)[f] = a[f]
<1>1. PICK A \in SUBSET Images : a \in [A -> ToSet(Parts)]
  BY DEF Plans
<1>2. PICK B \in SUBSET Images : b \in [B -> ToSet(Parts)]
  BY DEF Plans
<1>3. A \cup B \in SUBSET Images
  OBVIOUS
<1>4. And(a, b) \in [A \cup B -> ToSet(Parts)]
  BY <1>1, <1>2 DEF And
<1>5. And(a, b) \in Plans
  BY <1>3, <1>4 DEF Plans
<1> QED BY <1>1, <1>2, <1>5 DEF And

LEMMA ChoiceIsPart ==
  ASSUME NEW placed, NEW targets, NEW size
  PROVE  ChooseSplit(placed, targets, size) \in ToSet(Parts)
BY PartsAre DEF ChooseSplit

LEMMA PlaceType ==
  ASSUME NEW targets, NEW acc \in Accounts, NEW group \in SUBSET Images
  PROVE  Place(targets, acc, group) \in Accounts
<1>1. PICK p : p = ChooseSplit(acc.counts, targets, Cardinality(group))
  OBVIOUS
<1>2. p \in ToSet(Parts) /\ Cardinality(group) \in Nat
  BY <1>1, ChoiceIsPart, GroupsFinite
<1>3. acc.counts \in [ToSet(Parts) -> Int] /\ acc.plan \in Plans
  BY DEF Accounts
<1>4. [f \in group |-> p] \in [group -> ToSet(Parts)]
  BY <1>2
<1>5. [f \in group |-> p] \in Plans
  BY <1>4 DEF Plans
<1>6. And(acc.plan, [f \in group |-> p]) \in Plans
  BY <1>3, <1>5, AndType
<1>7. [acc.counts EXCEPT ![p] = @ + Cardinality(group)]
        \in [ToSet(Parts) -> Int]
  BY <1>2, <1>3
<1>8. Place(targets, acc, group) =
        [counts |-> [acc.counts EXCEPT ![p] = @ + Cardinality(group)],
         plan |-> And(acc.plan, [f \in group |-> p])]
  BY <1>1 DEF Place
<1> QED BY <1>6, <1>7, <1>8 DEF Accounts

LEMMA UnplacedType == Unplaced \in Accounts
<1>1. <<>> \in [{} -> ToSet(Parts)]
  OBVIOUS
<1>2. <<>> \in Plans
  BY <1>1 DEF Plans
<1> QED BY <1>2 DEF Unplaced, Accounts

\* The account r after each of the groups.
Places(targets, q, r) ==
    /\ r \in [0 .. Len(q) -> Accounts]
    /\ r[0] = Unplaced /\ r[Len(q)] = PlaceAll(targets, q)
    /\ \A k \in 1 .. Len(q) : r[k] = Place(targets, r[k - 1], q[k])

LEMMA DivisionFolds ==
  ASSUME NEW targets, NEW q \in Seq(SUBSET Images)
  PROVE  \E r : Places(targets, q, r)
<1> DEFINE b == Unplaced
           n == Len(q)
           G == [k \in 1 .. n |-> [acc \in Accounts |-> Place(targets, acc, q[k])]]
           Solves(h) ==
             h = [s \in SUBSET DOMAIN q |->
                    IF s = {} THEN b
                    ELSE Place(targets, h[s \ {Max(s)}], q[Max(s)])]
<1>1. n \in Nat /\ DOMAIN q = 1 .. n /\ b \in Accounts
  BY LenProperties, UnplacedType
<1>2. \A k \in 1 .. n : q[k] \in SUBSET Images
  BY <1>1, ElementOfSeq
<1>3. G \in [1 .. n -> [Accounts -> Accounts]]
  BY <1>2, PlaceType
<1>4. \A k \in 1 .. n : \A acc \in Accounts : G[k][acc] = Place(targets, acc, q[k])
  OBVIOUS
<1> HIDE DEF b, n, G
<1>a. b \in Accounts
  BY <1>1
<1>b. n \in Nat
  BY <1>1
<1>c. PICK h : Folded(h, Accounts, b, n, G)
  BY <1>a, <1>b, <1>3, FoldExists
<1>5. /\ h \in [SUBSET (1 .. n) -> Accounts]
      /\ \A s \in SUBSET (1 .. n) :
            h[s] = IF s = {} THEN b ELSE G[Max(s)][h[s \ {Max(s)}]]
  BY <1>c DEF Folded
<1>6. Solves(h)
  <2>1. ASSUME NEW s \in SUBSET (1 .. n), s # {}
        PROVE  h[s] = Place(targets, h[s \ {Max(s)}], q[Max(s)])
    <3>1. Max(s) \in 1 .. n
      BY <1>1, <2>1, MaxOfRange
    <3>2. h[s \ {Max(s)}] \in Accounts
      BY <1>5
    <3> QED BY <1>4, <1>5, <2>1, <3>1, <3>2
  <2>2. h = [s \in SUBSET (1 .. n) |->
               IF s = {} THEN b
               ELSE Place(targets, h[s \ {Max(s)}], q[Max(s)])]
    BY <1>5, <2>1
  <2> QED BY <1>1, <2>2
<1>7. PICK f : Solves(f) /\ PlaceAll(targets, q) = f[1 .. n]
  BY <1>1, <1>6 DEF PlaceAll, FoldLeft, MapThenFoldSet, b
<1>8. \A s \in SUBSET (1 .. n) :
         f[s] = IF s = {} THEN b
                ELSE Place(targets, f[s \ {Max(s)}], q[Max(s)])
  BY <1>1, <1>7
<1> HIDE DEF Solves
<1> DEFINE r == [k \in 0 .. n |-> f[1 .. k]]
<1>9. r[0] = b /\ r[n] = f[1 .. n]
  <2>1. 1 .. 0 = {} /\ {} \in SUBSET (1 .. n) /\ 0 \in 0 .. n /\ n \in 0 .. n
    BY <1>1
  <2> QED BY <1>8, <2>1
<1>10. ASSUME NEW k \in 1 .. n PROVE r[k] = Place(targets, r[k - 1], q[k])
  <2>1. Max(1 .. k) = k /\ (1 .. k) \ {k} = 1 .. (k - 1)
    BY <1>1, MaxOfPrefix
  <2>2. 1 .. k \in SUBSET (1 .. n) /\ k \in 1 .. k
        /\ k - 1 \in 0 .. n /\ k \in 0 .. n
    BY <1>1
  <2>3. f[1 .. k] = Place(targets, f[1 .. (k - 1)], q[k])
    BY <1>8, <2>1, <2>2
  <2> QED BY <2>2, <2>3
<1> DEFINE good == {k \in 0 .. n : r[k] \in Accounts}
<1>11. \A k \in 0 .. n : k \in good
  <2> HIDE DEF r
  <2>1. 0 \in good
    BY <1>1, <1>9
  <2>2. ASSUME NEW k \in 1 .. n, k - 1 \in good PROVE k \in good
    <3>1. r[k - 1] \in Accounts /\ q[k] \in SUBSET Images
      BY <1>1, <1>2, <2>2
    <3>2. Place(targets, r[k - 1], q[k]) \in Accounts
      BY <3>1, PlaceType
    <3> QED BY <1>1, <1>10, <3>2
  <2> HIDE DEF good
  <2> QED BY <1>1, <2>1, <2>2, UpTo
<1>12. r \in [0 .. n -> Accounts]
  BY <1>11
<1> HIDE DEF r, good
<1>13. r[n] = PlaceAll(targets, q)
  BY <1>7, <1>9
<1> QED BY <1>9, <1>10, <1>12, <1>13 DEF Places, n, b

\* An assignment that never parts a group.
Whole(a, family) ==
    \A group \in family : \A f, g \in group :
        f \in DOMAIN a => g \in DOMAIN a /\ a[g] = a[f]

Apart(family) ==
    \A group, other \in family : group # other => group \cap other = {}

LEMMA AndWhole ==
  ASSUME NEW a \in Plans, NEW b \in Plans, NEW family,
         Whole(a, family), Whole(b, family)
  PROVE  Whole(And(a, b), family)
<1> SUFFICES ASSUME NEW group \in family, NEW f \in group, NEW g \in group,
                    f \in DOMAIN And(a, b)
             PROVE  g \in DOMAIN And(a, b) /\ And(a, b)[g] = And(a, b)[f]
  BY DEF Whole
<1>1. PICK c : c = And(a, b)
  OBVIOUS
<1>2. /\ DOMAIN c = DOMAIN a \cup DOMAIN b
      /\ \A x \in DOMAIN b : c[x] = b[x]
      /\ \A x \in DOMAIN a \ DOMAIN b : c[x] = a[x]
  BY <1>1, AndType
<1>3. /\ f \in DOMAIN a => g \in DOMAIN a /\ a[g] = a[f]
      /\ f \in DOMAIN b => g \in DOMAIN b /\ b[g] = b[f]
      /\ g \in DOMAIN b => f \in DOMAIN b
  BY DEF Whole
<1> QED BY <1>1, <1>2, <1>3

LEMMA OneGroupWhole ==
  ASSUME NEW family, Apart(family), NEW group \in family, NEW p
  PROVE  Whole([f \in group |-> p], family)
BY DEF Whole, Apart

\* What one more group does to an account.
HasParts(targets, acc, group, p) ==
    /\ Place(targets, acc, group).counts =
          [acc.counts EXCEPT ![p] = @ + Cardinality(group)]
    /\ Place(targets, acc, group).plan = And(acc.plan, [f \in group |-> p])
    /\ p \in ToSet(Parts) /\ [f \in group |-> p] \in Plans
    /\ acc.counts \in [ToSet(Parts) -> Int] /\ acc.plan \in Plans

LEMMA PlaceParts ==
  ASSUME NEW targets, NEW acc \in Accounts, NEW group \in SUBSET Images, NEW p,
         p = ChooseSplit(acc.counts, targets, Cardinality(group))
  PROVE  HasParts(targets, acc, group, p)
<1>1. p \in ToSet(Parts)
  BY ChoiceIsPart
<1>2. [f \in group |-> p] \in [group -> ToSet(Parts)]
  BY <1>1
<1>3. [f \in group |-> p] \in Plans
  BY <1>2 DEF Plans
<1> QED BY <1>1, <1>3 DEF Place, Accounts, HasParts

\* A stratum is divided without parting a group of any stratum.
PlansAre(a, family, q) ==
    /\ a \in Plans /\ Whole(a, family)
    /\ \A f : f \in DOMAIN a <=> \E i \in 1 .. Len(q) : f \in q[i]

LEMMA PlansWhole ==
  ASSUME NEW targets, NEW family \in SUBSET (SUBSET Images), Apart(family),
         NEW q \in Seq(family)
  PROVE  PlansAre(PlaceAll(targets, q).plan, family, q)
<1>1. q \in Seq(SUBSET Images)
  BY SeqMonotonic
<1>2. PICK r : Places(targets, q, r)
  BY <1>1, DivisionFolds
<1>3. PICK n : n = Len(q)
  OBVIOUS
<1>4. n \in Nat /\ \A i \in 1 .. n : q[i] \in family
  BY <1>3, LenProperties, ElementOfSeq
<1>5. /\ \A k \in 0 .. n : r[k] \in Accounts
      /\ r[0] = Unplaced /\ r[n] = PlaceAll(targets, q)
      /\ \A k \in 1 .. n : r[k] = Place(targets, r[k - 1], q[k])
  BY <1>2, <1>3 DEF Places
<1> DEFINE Fine(a, k) ==
             /\ a \in Plans /\ Whole(a, family)
             /\ \A f : f \in DOMAIN a <=> \E i \in 1 .. k : f \in q[i]
           good == {k \in 0 .. n : Fine(r[k].plan, k)}
<1>6. 0 \in good
  <2>1. r[0].plan = <<>> /\ r[0].plan \in Plans
    BY <1>4, <1>5 DEF Unplaced, Accounts
  <2>2. DOMAIN (r[0].plan) = {}
    BY <2>1
  <2>3. Whole(r[0].plan, family)
    BY <2>2 DEF Whole
  <2> QED BY <1>4, <2>1, <2>2, <2>3
<1>7. ASSUME NEW k \in 1 .. n, k - 1 \in good PROVE k \in good
  <2>1. PICK acc, group : acc = r[k - 1] /\ group = q[k]
    OBVIOUS
  <2>2. /\ acc \in Accounts /\ group \in family /\ group \in SUBSET Images
        /\ r[k] = Place(targets, acc, group) /\ Fine(acc.plan, k - 1)
    BY <1>4, <1>5, <1>7, <2>1
  <2>3. PICK p : p = ChooseSplit(acc.counts, targets, Cardinality(group))
    OBVIOUS
  <2>4. PICK b : b = [f \in group |-> p]
    OBVIOUS
  <2>5. /\ r[k].plan = And(acc.plan, b) /\ b \in Plans /\ acc.plan \in Plans
    <3>1. HasParts(targets, acc, group, p)
      BY <2>2, <2>3, PlaceParts
    <3> QED BY <2>2, <2>4, <3>1 DEF HasParts
  <2>6. Whole(b, family) /\ DOMAIN b = group
    BY <2>2, <2>4, OneGroupWhole
  <2>7. Whole(And(acc.plan, b), family) /\ And(acc.plan, b) \in Plans
    BY <2>2, <2>5, <2>6, AndWhole, AndType
  <2>8. DOMAIN And(acc.plan, b) = DOMAIN (acc.plan) \cup group
    BY <2>5, <2>6, AndType
  <2>9. ASSUME NEW f
        PROVE  f \in DOMAIN And(acc.plan, b) <=> \E i \in 1 .. k : f \in q[i]
    <3>1. f \in DOMAIN (acc.plan) <=> \E i \in 1 .. (k - 1) : f \in q[i]
      BY <2>2
    <3>2. \A i \in 1 .. k : i = k \/ i \in 1 .. (k - 1)
      BY <1>4
    <3>3. 1 .. (k - 1) \subseteq 1 .. k /\ k \in 1 .. k
      BY <1>4
    <3> QED BY <2>1, <2>8, <3>1, <3>2, <3>3
  <2>10. k \in 0 .. n
    BY <1>4
  <2> QED BY <2>5, <2>7, <2>9, <2>10
<1>8. \A k \in 0 .. n : k \in good
  <2> HIDE DEF good
  <2> QED BY <1>4, <1>6, <1>7, UpTo
<1>9. Fine(r[n].plan, n)
  BY <1>4, <1>8
<1> QED BY <1>3, <1>5, <1>9 DEF PlansAre

-----------------------------------------------------------------------------
(* Single images: the parts fill up to their targets.                      *)

LEMMA TargetsType ==
  ASSUME NEW n \in Nat
  PROVE  /\ \A p \in ToSet(Parts) : Targets(n)[p] \in Int
         /\ Targets(n)["train"] + Targets(n)["val"] + Targets(n)["test"] = n
<1>1. \A m \in Int : RoundTenths(m) \in Int
  BY DEF RoundTenths
<1>2. Ratios.train \in Int /\ Ratios.val \in Int
  BY RatiosAssumption
<1>3. n * Ratios.train \in Int /\ n * Ratios.val \in Int
  BY <1>2
<1>4. PICK train, val : /\ train = RoundTenths(n * Ratios.train)
                        /\ val = RoundTenths(n * Ratios.val)
  OBVIOUS
<1>5. train \in Int /\ val \in Int
  BY <1>1, <1>3, <1>4
<1>6. Targets(n) = [train |-> train, val |-> val, test |-> n - train - val]
  BY <1>4 DEF Targets
<1> QED BY <1>5, <1>6, PartsAre

LEMMA SignOfProduct ==
  ASSUME NEW a \in Int, NEW w \in Int, w > 0
  PROVE  /\ a * w \in Int
         /\ a > 0 => a * w > 0
         /\ a < 0 => a * w < 0
OBVIOUS

\* An image goes to a part that still misses one, as long as one does.
LEMMA ChoiceFills ==
  ASSUME NEW placed, NEW targets,
         \A p \in ToSet(Parts) :
            placed[p] \in Int /\ targets[p] \in Int /\ placed[p] <= targets[p],
         NEW missing \in ToSet(Parts), placed[missing] < targets[missing]
  PROVE  LET p == ChooseSplit(placed, targets, 1) IN placed[p] < targets[p]
<1> DEFINE Points(p) == Score(targets[p] - placed[p], 1)
           W(p) == Weight(targets[p])
           Better(p, q) == IF Points(q) * W(p) > Points(p) * W(q) THEN q ELSE p
<1>1. ASSUME NEW p \in ToSet(Parts)
      PROVE  /\ Points(p) \in Int
             /\ placed[p] < targets[p] => Points(p) > 0
             /\ ~(placed[p] < targets[p]) => Points(p) < 0
  BY DEF Score
<1>2. ASSUME NEW p \in ToSet(Parts) PROVE W(p) \in Int /\ W(p) > 0
  BY DEF Weight
<1> HIDE DEF Points, W
<1>3. ASSUME NEW p \in ToSet(Parts), NEW q \in ToSet(Parts),
             placed[p] < targets[p] \/ placed[q] < targets[q]
      PROVE  LET b == Better(p, q)
             IN  b \in ToSet(Parts) /\ placed[b] < targets[b]
  <2>1. PICK a, c : a = Points(p) * W(q) /\ c = Points(q) * W(p)
    OBVIOUS
  <2>2. /\ a \in Int
        /\ Points(p) > 0 => a > 0
        /\ Points(p) < 0 => a < 0
    BY <1>1, <1>2, <2>1, SignOfProduct
  <2>3. /\ c \in Int
        /\ Points(q) > 0 => c > 0
        /\ Points(q) < 0 => c < 0
    BY <1>1, <1>2, <2>1, SignOfProduct
  <2>4. Better(p, q) = IF c > a THEN q ELSE p
    BY <2>1
  <2>5. CASE placed[p] < targets[p] /\ placed[q] < targets[q]
    BY <2>4, <2>5
  <2>6. CASE placed[p] < targets[p] /\ ~(placed[q] < targets[q])
    BY <1>1, <2>2, <2>3, <2>4, <2>6
  <2>7. CASE ~(placed[p] < targets[p]) /\ placed[q] < targets[q]
    BY <1>1, <2>2, <2>3, <2>4, <2>7
  <2> QED BY <1>3, <2>5, <2>6, <2>7
<1> HIDE DEF Better
<1>4. ASSUME NEW p \in ToSet(Parts), NEW q \in ToSet(Parts)
      PROVE  Better(p, q) \in ToSet(Parts)
  BY DEF Better
<1>5. "train" \in ToSet(Parts) /\ "val" \in ToSet(Parts) /\ "test" \in ToSet(Parts)
  BY PartsAre
<1>6. PICK first : first = Better("train", "val")
  OBVIOUS
<1>7. ChooseSplit(placed, targets, 1) = Better(first, "test")
  BY <1>6 DEF ChooseSplit, Better, Points, W
<1>8. first \in ToSet(Parts)
  BY <1>4, <1>5, <1>6
<1>9. placed[first] < targets[first] \/ placed["test"] < targets["test"]
  BY <1>3, <1>5, <1>6, PartsAre
<1> QED BY <1>3, <1>5, <1>7, <1>8, <1>9

\* As many single images as there are in the set.
LEMMA Singles ==
  ASSUME NEW C \in SUBSET Images
  PROVE  /\ IsFiniteSet({{f} : f \in C})
         /\ Cardinality({{f} : f \in C}) = Cardinality(C)
<1> DEFINE singles == {{f} : f \in C}
           h == [f \in C |-> {f}]
<1>1. h \in Bijection(C, singles)
  BY DEF Bijection, Injection, Surjection, IsInjective
<1>2. ExistsBijection(C, singles)
  BY <1>1 DEF ExistsBijection
<1> HIDE DEF singles
<1>3. IsFiniteSet(singles) /\ Cardinality(singles) = Cardinality(C)
  BY <1>2, GroupsFinite, FS_Bijection
<1> QED BY <1>3 DEF singles

\* The images an assignment sends to a part.
Sent(a, p) == {f \in DOMAIN a : a[f] = p}

SendsOne(a, b, x, p) ==
    /\ b \in Plans /\ DOMAIN b = DOMAIN a \cup {x}
    /\ Cardinality(Sent(b, p)) = Cardinality(Sent(a, p)) + 1
    /\ \A other \in ToSet(Parts) \ {p} : Sent(b, other) = Sent(a, other)

LEMMA SendOne ==
  ASSUME NEW a \in Plans, NEW x \in Images, x \notin DOMAIN a,
         NEW p \in ToSet(Parts)
  PROVE  SendsOne(a, And(a, [f \in {x} |-> p]), x, p)
<1>1. PICK one : one = [f \in {x} |-> p]
  OBVIOUS
<1>2. one \in [{x} -> ToSet(Parts)] /\ {x} \in SUBSET Images
  BY <1>1
<1>3. one \in Plans
  BY <1>2 DEF Plans
<1>4. PICK b : b = And(a, one)
  OBVIOUS
<1>5. /\ b \in Plans /\ DOMAIN b = DOMAIN a \cup {x} /\ b[x] = p
      /\ \A f \in DOMAIN a : b[f] = a[f]
  <2>1. /\ And(a, one) \in Plans /\ DOMAIN And(a, one) = DOMAIN a \cup DOMAIN one
        /\ \A f \in DOMAIN one : And(a, one)[f] = one[f]
        /\ \A f \in DOMAIN a \ DOMAIN one : And(a, one)[f] = a[f]
    BY <1>3, AndType
  <2>2. DOMAIN one = {x} /\ one[x] = p
    BY <1>1
  <2> QED BY <1>4, <2>1, <2>2
<1>6. Sent(b, p) = Sent(a, p) \cup {x} /\ x \notin Sent(a, p)
  BY <1>5 DEF Sent
<1>7. \A other \in ToSet(Parts) \ {p} : Sent(b, other) = Sent(a, other)
  BY <1>5 DEF Sent
<1>8. Sent(a, p) \in SUBSET Images
  BY DEF Sent, Plans
<1>9. Cardinality(Sent(b, p)) = Cardinality(Sent(a, p)) + 1
  BY <1>6, <1>8, GroupsFinite, FS_AddElement
<1> QED BY <1>1, <1>4, <1>5, <1>7, <1>9 DEF SendsOne

\* A stratum of single images is divided in exactly the parts asked for.
LEMMA FillsExactly ==
  ASSUME NEW C \in SUBSET Images, NEW q \in SetToSeqs({{f} : f \in C}),
         NEW targets, targets = Targets(Cardinality(C)),
         \A p \in ToSet(Parts) : targets[p] >= 0
  PROVE  \A p \in ToSet(Parts) :
            Cardinality(Sent(PlaceAll(targets, q).plan, p)) = targets[p]
<1>1. PICK n : n = Cardinality(C)
  OBVIOUS
<1>2. n \in Nat /\ Cardinality({{f} : f \in C}) = n
  BY <1>1, Singles, GroupsFinite
<1>3. /\ q \in [1 .. n -> {{f} : f \in C}]
      /\ \A i, j \in 1 .. n : i # j => q[i] # q[j]
  BY <1>2 DEF SetToSeqs
<1>4. q \in Seq(SUBSET Images) /\ Len(q) = n
  <2>1. q \in [1 .. n -> SUBSET Images]
    BY <1>3
  <2> QED BY <1>2, <2>1, IsASeq, LenProperties
<1>5. PICK r : Places(targets, q, r)
  BY <1>4, DivisionFolds
<1>6. /\ \A k \in 0 .. n : r[k] \in Accounts
      /\ r[0] = Unplaced /\ r[n] = PlaceAll(targets, q)
      /\ \A k \in 1 .. n : r[k] = Place(targets, r[k - 1], q[k])
  BY <1>4, <1>5 DEF Places
<1>7. /\ \A p \in ToSet(Parts) : targets[p] \in Int
      /\ targets["train"] + targets["val"] + targets["test"] = n
  BY <1>1, <1>2, TargetsType
<1> DEFINE Fair(acc, k) ==
             /\ \A f \in DOMAIN (acc.plan) : \E i \in 1 .. k : f \in q[i]
             /\ \A p \in ToSet(Parts) :
                   /\ acc.counts[p] = Cardinality(Sent(acc.plan, p))
                   /\ acc.counts[p] <= targets[p]
             /\ acc.counts["train"] + acc.counts["val"] + acc.counts["test"] = k
           good == {k \in 0 .. n : Fair(r[k], k)}
<1>8. 0 \in good
  <2>1. /\ r[0].plan = <<>> /\ \A p \in ToSet(Parts) : r[0].counts[p] = 0
    BY <1>6 DEF Unplaced
  <2>2. DOMAIN (r[0].plan) = {}
    BY <2>1
  <2>3. \A p \in ToSet(Parts) : Sent(r[0].plan, p) = {}
    BY <2>2 DEF Sent
  <2>4. 0 \in 0 .. n /\ Cardinality({}) = 0
    BY <1>2, FS_EmptySet
  <2>5. r[0].counts["train"] + r[0].counts["val"] + r[0].counts["test"] = 0
    BY <2>1, PartsAre
  <2> QED BY <1>7, <2>1, <2>2, <2>3, <2>4, <2>5
<1>9. ASSUME NEW k \in 1 .. n, k - 1 \in good PROVE k \in good
  <2>1. PICK acc, a, c : acc = r[k - 1] /\ a = acc.plan /\ c = acc.counts
    OBVIOUS
  <2>2. /\ k \in 0 .. n /\ k - 1 \in 0 .. n /\ k \in Nat
        /\ acc \in Accounts /\ r[k] = Place(targets, acc, q[k])
    BY <1>2, <1>6, <2>1
  <2>3. Fair(acc, k - 1)
    BY <1>9, <2>1
  <2>4. PICK x \in C : q[k] = {x}
    BY <1>3
  <2>5. x \in Images /\ {x} \in SUBSET Images /\ Cardinality({x}) = 1
    BY <2>4, FS_Singleton
  <2>6. x \notin DOMAIN a
    <3> SUFFICES ASSUME x \in DOMAIN a PROVE FALSE
      OBVIOUS
    <3>1. PICK i \in 1 .. (k - 1) : x \in q[i]
      BY <2>1, <2>3
    <3>2. i \in 1 .. n /\ i # k
      BY <1>2
    <3>3. PICK y \in C : q[i] = {y}
      BY <1>3, <3>2
    <3> QED BY <1>3, <2>4, <3>1, <3>2, <3>3
  <2>7. PICK p : p = ChooseSplit(c, targets, 1)
    OBVIOUS
  <2>8. HasParts(targets, acc, {x}, p)
    BY <2>1, <2>2, <2>5, <2>7, PlaceParts
  <2>9. PICK b, d : b = r[k].plan /\ d = r[k].counts
    OBVIOUS
  <2>10. /\ d = [c EXCEPT ![p] = @ + 1] /\ b = And(a, [f \in {x} |-> p])
         /\ p \in ToSet(Parts) /\ c \in [ToSet(Parts) -> Int] /\ a \in Plans
    BY <2>1, <2>2, <2>4, <2>5, <2>8, <2>9 DEF HasParts
  <2>11. SendsOne(a, b, x, p)
    BY <2>5, <2>6, <2>10, SendOne
  <2>12. \A o \in ToSet(Parts) :
            c[o] \in Int /\ targets[o] \in Int /\ c[o] <= targets[o]
    BY <1>7, <2>1, <2>3, <2>10
  <2>13. \E o \in ToSet(Parts) : c[o] < targets[o]
    BY <1>2, <1>7, <2>1, <2>3, <2>12, PartsAre
  <2>14. c[p] < targets[p]
    BY <2>7, <2>12, <2>13, ChoiceFills
  <2>15. ASSUME NEW o \in ToSet(Parts)
         PROVE  d[o] = Cardinality(Sent(b, o)) /\ d[o] <= targets[o]
    <3>1. c[o] = Cardinality(Sent(a, o))
      BY <2>1, <2>3
    <3>2. CASE o = p
      BY <2>10, <2>11, <2>12, <2>14, <3>1, <3>2 DEF SendsOne
    <3>3. CASE o # p
      BY <2>10, <2>11, <2>12, <3>1, <3>3 DEF SendsOne
    <3> QED BY <3>2, <3>3
  <2>16. d["train"] + d["val"] + d["test"] = k
    <3>1. c["train"] + c["val"] + c["test"] = k - 1
      BY <2>1, <2>3
    <3>2. p = "train" \/ p = "val" \/ p = "test"
      BY <2>10, PartsAre
    <3> QED BY <2>2, <2>10, <2>12, <3>1, <3>2, PartsAre
  <2>17. ASSUME NEW f \in DOMAIN b PROVE \E i \in 1 .. k : f \in q[i]
    <3>1. CASE f = x
      <4>1. k \in 1 .. k
        BY <2>2
      <4> QED BY <2>4, <3>1, <4>1
    <3>2. CASE f # x
      <4>1. f \in DOMAIN a
        BY <2>11, <3>2 DEF SendsOne
      <4>2. PICK i \in 1 .. (k - 1) : f \in q[i]
        BY <2>1, <2>3, <4>1
      <4>3. i \in 1 .. k
        BY <2>2
      <4> QED BY <4>2, <4>3
    <3> QED BY <3>1, <3>2
  <2>18. Fair(r[k], k)
    BY <2>9, <2>15, <2>16, <2>17
  <2> QED BY <2>2, <2>18
<1>10. \A k \in 0 .. n : k \in good
  <2> HIDE DEF good
  <2> QED BY <1>2, <1>8, <1>9, UpTo
<1>11. Fair(r[n], n)
  BY <1>2, <1>10
<1>12. PICK c : c = r[n].counts
  OBVIOUS
<1>13. \A p \in ToSet(Parts) : c[p] \in Int /\ c[p] <= targets[p]
  <2>1. r[n] \in Accounts
    BY <1>2, <1>6
  <2> QED BY <1>11, <1>12, <2>1 DEF Accounts
<1>14. \A p \in ToSet(Parts) : c[p] = targets[p]
  <2>1. c["train"] + c["val"] + c["test"] = n
    BY <1>11, <1>12
  <2> QED BY <1>7, <1>13, <2>1, PartsAre
<1> QED BY <1>6, <1>11, <1>12, <1>14

-----------------------------------------------------------------------------
(* The assignment of all the images.                                       *)

Family == {GroupOf(f) : f \in Present(clean)}

LEMMA FamilyApart ==
  /\ Family \in SUBSET (SUBSET Images) /\ IsFiniteSet(Family) /\ Apart(Family)
  /\ \A f \in Present(clean) : GroupOf(f) \in Family /\ f \in GroupOf(f)
  /\ \A group \in Family : group \subseteq Present(clean)
<1>1. Present(clean) \in SUBSET Images
  BY PresentIsSubset
<1>2. \A f \in Present(clean) : f \in GroupOf(f) /\ GroupOf(f) \subseteq Present(clean)
  BY DEF GroupOf
<1>3. ASSUME NEW f \in Present(clean), NEW g \in Present(clean),
             NEW x \in GroupOf(f), x \in GroupOf(g)
      PROVE  GroupOf(f) = GroupOf(g)
  <2>1. /\ report[f] = 0 => x = f
        /\ report[f] # 0 => report[x] = report[f]
    BY DEF GroupOf
  <2>2. /\ report[g] = 0 => x = g
        /\ report[g] # 0 => report[x] = report[g]
    BY <1>3 DEF GroupOf
  <2>3. CASE report[f] = 0
    BY <2>1, <2>2, <2>3
  <2>4. CASE report[f] # 0
    <3>1. report[g] = report[f]
      BY <2>1, <2>2, <2>4
    <3> QED BY <2>4, <3>1 DEF GroupOf
  <2> QED BY <2>3, <2>4
<1>4. Apart(Family)
  BY <1>3 DEF Apart, Family
<1>5. IsFiniteSet(Family)
  <2> DEFINE h == [f \in Present(clean) |-> GroupOf(f)]
  <2>1. h \in Surjection(Present(clean), Family)
    BY DEF Surjection, Family
  <2> HIDE DEF h
  <2>2. IsFiniteSet(Present(clean))
    BY <1>1, GroupsFinite
  <2> QED BY <2>1, <2>2, FS_Surjection
<1> QED BY <1>1, <1>2, <1>4, <1>5 DEF Family

\* A stratum listed in whatever order: all of its groups, and no other.
LEMMA ShuffleLists ==
  ASSUME NEW stratum, NEW q \in Shuffles(GroupsOf(Present(clean), stratum))
  PROVE  /\ q \in Seq(Family) /\ q \in SetToSeqs(GroupsOf(Present(clean), stratum))
         /\ \A group \in Family :
               (\E i \in 1 .. Len(q) : q[i] = group) <=> Stratum(group) = stratum
<1>1. PICK G : G = GroupsOf(Present(clean), stratum)
  OBVIOUS
<1>2. G = {group \in Family : Stratum(group) = stratum}
  BY <1>1 DEF GroupsOf, Family
<1>3. IsFiniteSet(G)
  BY <1>2, FamilyApart, FS_Subset
<1>4. PICK n : n = Cardinality(G)
  OBVIOUS
<1>5. n \in Nat
  BY <1>3, <1>4, FS_CardinalityType
<1>6. q \in SetToSeqs(G)
  BY <1>1 DEF Shuffles
<1>7. q \in [1 .. n -> G] /\ \A i, j \in 1 .. n : i # j => q[i] # q[j]
  BY <1>4, <1>6 DEF SetToSeqs
<1>8. \A group \in G : \E i \in 1 .. n : q[i] = group
  <2>1. /\ q \in [1 .. Cardinality(G) -> G]
        /\ \A i, j \in 1 .. Cardinality(G) : q[i] = q[j] => i = j
    BY <1>4, <1>7
  <2>2. \A group \in G : \E i \in 1 .. Cardinality(G) : q[i] = group
    BY <1>3, <2>1, ListsAll
  <2> QED BY <1>4, <2>2
<1>9. q \in Seq(G) /\ Len(q) = n
  BY <1>5, <1>7, IsASeq, LenProperties
<1>10. q \in Seq(Family)
  BY <1>2, <1>9, SeqMonotonic
<1> QED BY <1>1, <1>2, <1>6, <1>7, <1>8, <1>9, <1>10

\* What a stratum contributes.
Contributes(a, stratum) ==
    /\ a \in Plans /\ Whole(a, Family)
    /\ \A f : f \in DOMAIN a <=>
                 f \in Present(clean) /\ Stratum(GroupOf(f)) = stratum

LEMMA DivideContributes ==
  ASSUME NEW stratum, NEW q \in Shuffles(GroupsOf(Present(clean), stratum))
  PROVE  Contributes(Divide(q), stratum)
<1>1. PICK targets : targets = Targets(Cardinality(UNION ToSet(q)))
  OBVIOUS
<1>2. PICK a : a = PlaceAll(targets, q).plan
  OBVIOUS
<1>3. Divide(q) = a
  BY <1>1, <1>2 DEF Divide
<1>4. Family \in SUBSET (SUBSET Images) /\ Apart(Family) /\ q \in Seq(Family)
  BY FamilyApart, ShuffleLists
<1>5. PlansAre(PlaceAll(targets, q).plan, Family, q)
  BY <1>4, PlansWhole
<1>6. /\ a \in Plans /\ Whole(a, Family)
      /\ \A f : f \in DOMAIN a <=> \E i \in 1 .. Len(q) : f \in q[i]
  BY <1>2, <1>5 DEF PlansAre
<1>7. ASSUME NEW f PROVE f \in DOMAIN a <=>
                 f \in Present(clean) /\ Stratum(GroupOf(f)) = stratum
  <2>1. ASSUME f \in DOMAIN a
        PROVE  f \in Present(clean) /\ Stratum(GroupOf(f)) = stratum
    <3>1. PICK i \in 1 .. Len(q) : f \in q[i]
      BY <1>6, <2>1
    <3>2. q[i] \in Family
      BY <1>4, LenProperties, ElementOfSeq
    <3>3. f \in Present(clean) /\ GroupOf(f) = q[i]
      BY <3>1, <3>2, FamilyApart DEF Apart
    <3>4. Stratum(q[i]) = stratum
      BY <3>2, ShuffleLists
    <3> QED BY <3>3, <3>4
  <2>2. ASSUME f \in Present(clean), Stratum(GroupOf(f)) = stratum
        PROVE  f \in DOMAIN a
    <3>1. GroupOf(f) \in Family /\ f \in GroupOf(f)
      BY <2>2, FamilyApart
    <3>2. PICK i \in 1 .. Len(q) : q[i] = GroupOf(f)
      BY <2>2, <3>1, ShuffleLists
    <3> QED BY <1>6, <3>1, <3>2
  <2> QED BY <2>1, <2>2
<1> QED BY <1>3, <1>6, <1>7 DEF Contributes

StratumNames == {"mixed", "negative", "positive"}

LEMMA StratumType == ASSUME NEW group PROVE Stratum(group) \in StratumNames
BY DEF Stratum, StratumNames

\* Every image is assigned, and none away from its group.
LEMMA AssignmentWhole ==
  ASSUME NEW a \in Assignments(Present(clean))
  PROVE  /\ a \in Plans /\ DOMAIN a = Present(clean)
         /\ \A f \in Present(clean) : \A g \in GroupOf(f) : a[g] = a[f]
<1>1. PICK m, n, p : Contributes(m, "mixed") /\ Contributes(n, "negative")
                     /\ Contributes(p, "positive") /\ a = And(And(m, n), p)
  BY DivideContributes DEF Assignments
<1>2. /\ m \in Plans /\ n \in Plans /\ p \in Plans
      /\ Whole(m, Family) /\ Whole(n, Family) /\ Whole(p, Family)
  BY <1>1 DEF Contributes
<1>3. PICK b : b = And(m, n)
  OBVIOUS
<1>4. b \in Plans /\ Whole(b, Family) /\ DOMAIN b = DOMAIN m \cup DOMAIN n
  BY <1>2, <1>3, AndType, AndWhole
<1>5. a \in Plans /\ Whole(a, Family) /\ DOMAIN a = DOMAIN b \cup DOMAIN p
  BY <1>1, <1>2, <1>3, <1>4, AndType, AndWhole
<1>6. DOMAIN a = Present(clean)
  <2>1. ASSUME NEW f \in DOMAIN a PROVE f \in Present(clean)
    BY <1>1, <1>4, <1>5 DEF Contributes
  <2>2. ASSUME NEW f \in Present(clean) PROVE f \in DOMAIN a
    BY <1>1, <1>4, <1>5, StratumType DEF Contributes, StratumNames
  <2> QED BY <2>1, <2>2
<1>7. ASSUME NEW f \in Present(clean), NEW g \in GroupOf(f) PROVE a[g] = a[f]
  BY <1>5, <1>6, FamilyApart DEF Whole
<1> QED BY <1>5, <1>6, <1>7

\* Alone in its group, an image is in the stratum of its class.
LEMMA AloneInGroup ==
  ASSUME NEW f, GroupOf(f) = {f}
  PROVE  Stratum(GroupOf(f)) = IF Positive(f) THEN "positive" ELSE "negative"
BY DEF Stratum

LEMMA DivideFills ==
  ASSUME NEW stratum, NEW C \in SUBSET Images,
         GroupsOf(Present(clean), stratum) = {{f} : f \in C},
         NEW q \in Shuffles(GroupsOf(Present(clean), stratum)),
         \A part \in ToSet(Parts) : Targets(Cardinality(C))[part] >= 0
  PROVE  \A part \in ToSet(Parts) :
            Cardinality(Sent(Divide(q), part)) = Targets(Cardinality(C))[part]
<1>1. q \in SetToSeqs({{f} : f \in C})
  BY ShuffleLists
<1>2. UNION ToSet(q) = C
  <2>1. q \in Seq(Family)
    BY ShuffleLists
  <2>2. ToSet(q) = {q[i] : i \in 1 .. Len(q)}
    BY <2>1, LenProperties DEF ToSet
  <2>3. ASSUME NEW f \in C PROVE f \in UNION ToSet(q)
    <3>1. {f} \in GroupsOf(Present(clean), stratum)
      OBVIOUS
    <3>2. {f} \in Family /\ Stratum({f}) = stratum
      BY <3>1 DEF GroupsOf, Family
    <3>3. PICK i \in 1 .. Len(q) : q[i] = {f}
      BY <3>2, ShuffleLists
    <3> QED BY <2>2, <3>3
  <2>4. ASSUME NEW f \in UNION ToSet(q) PROVE f \in C
    <3>1. PICK i \in 1 .. Len(q) : f \in q[i]
      BY <2>2
    <3>2. q[i] \in Family
      BY <2>1, LenProperties, ElementOfSeq
    <3>3. Stratum(q[i]) = stratum
      BY <3>2, ShuffleLists
    <3>4. q[i] \in GroupsOf(Present(clean), stratum)
      BY <3>2, <3>3 DEF GroupsOf, Family
    <3> QED BY <3>1, <3>4
  <2> QED BY <2>3, <2>4
<1>3. PICK targets : targets = Targets(Cardinality(C))
  OBVIOUS
<1>4. Divide(q) = PlaceAll(targets, q).plan
  BY <1>2, <1>3 DEF Divide
<1>5. \A part \in ToSet(Parts) :
         Cardinality(Sent(PlaceAll(targets, q).plan, part)) = targets[part]
  BY <1>1, <1>3, FillsExactly
<1> QED BY <1>3, <1>4, <1>5

OfClass(class) == {f \in Present(clean) : Positive(f) = class}

\* Without near duplicates both classes are divided in the proportions asked.
LEMMA AssignmentFills ==
  ASSUME NEW a \in Assignments(Present(clean)),
         \A f \in Present(clean) : GroupOf(f) = {f},
         NEW class \in BOOLEAN,
         NEW targets, targets = Targets(Cardinality(OfClass(class))),
         \A part \in ToSet(Parts) : targets[part] >= 0,
         NEW part \in ToSet(Parts)
  PROVE  Cardinality({f \in OfClass(class) : a[f] = part}) = targets[part]
<1> DEFINE stratum == IF class THEN "positive" ELSE "negative"
<1>1. PICK q \in Shuffles(GroupsOf(Present(clean), "mixed")),
           r \in Shuffles(GroupsOf(Present(clean), "negative")),
           s \in Shuffles(GroupsOf(Present(clean), "positive")) :
         a = And(And(Divide(q), Divide(r)), Divide(s))
  BY DEF Assignments
<1>2. PICK m, n, p : m = Divide(q) /\ n = Divide(r) /\ p = Divide(s)
  OBVIOUS
<1>3. /\ Contributes(m, "mixed") /\ Contributes(n, "negative")
      /\ Contributes(p, "positive")
  BY <1>1, <1>2, DivideContributes
<1>4. m \in Plans /\ n \in Plans /\ p \in Plans
  BY <1>3 DEF Contributes
<1>5. \A f \in Present(clean) :
         Stratum(GroupOf(f)) = IF Positive(f) THEN "positive" ELSE "negative"
  BY AloneInGroup
<1>6. \A f \in Present(clean) : Positive(f) \in BOOLEAN
  BY DEF Positive
<1>7. /\ DOMAIN n = OfClass(FALSE) /\ DOMAIN p = OfClass(TRUE)
  BY <1>3, <1>5, <1>6 DEF Contributes, OfClass
<1>8. /\ \A f \in DOMAIN p : a[f] = p[f]
      /\ \A f \in DOMAIN n \ DOMAIN p : a[f] = n[f]
  <2>1. PICK b : b = And(m, n)
    OBVIOUS
  <2>2. b \in Plans /\ DOMAIN n \subseteq DOMAIN b /\ \A f \in DOMAIN n : b[f] = n[f]
    BY <1>4, <2>1, AndType
  <2>3. /\ \A f \in DOMAIN p : And(b, p)[f] = p[f]
        /\ \A f \in DOMAIN b \ DOMAIN p : And(b, p)[f] = b[f]
    BY <1>4, <2>2, AndType
  <2>4. a = And(b, p)
    BY <1>1, <1>2, <2>1
  <2> QED BY <2>2, <2>3, <2>4
<1>9. GroupsOf(Present(clean), stratum) = {{f} : f \in OfClass(class)}
  BY <1>5, <1>6 DEF GroupsOf, OfClass
<1>10. OfClass(class) \in SUBSET Images
  BY PresentIsSubset DEF OfClass
<1>11. CASE class = TRUE
  <2>1. Cardinality(Sent(p, part)) = targets[part]
    BY <1>1, <1>2, <1>9, <1>10, <1>11, DivideFills
  <2>2. {f \in OfClass(class) : a[f] = part} = Sent(p, part)
    BY <1>7, <1>8, <1>11 DEF Sent
  <2> QED BY <2>1, <2>2
<1>12. CASE class = FALSE
  <2>1. Cardinality(Sent(n, part)) = targets[part]
    BY <1>1, <1>2, <1>9, <1>10, <1>12, DivideFills
  <2>2. OfClass(FALSE) \cap OfClass(TRUE) = {}
    BY DEF OfClass
  <2>3. {f \in OfClass(class) : a[f] = part} = Sent(n, part)
    BY <1>7, <1>8, <1>12, <2>2 DEF Sent
  <2> QED BY <2>1, <2>3
<1> QED BY <1>11, <1>12

-----------------------------------------------------------------------------
(* The division.  A plan follows the report of its time, and the parts     *)
(* follow the plan; neither changes while the tool runs.                   *)

GroupsAgree ==
    "clean" \in sound =>
        \A f, g \in Present(clean) :
            f # g /\ Pair(f, g) \in Near =>
                report[f] # 0 /\ report[g] = report[f]
PlanAgrees ==
    tool = "split" =>
        /\ DOMAIN plan = Present(clean) /\ todo \in Seq(Present(clean))
        /\ \A f \in Present(clean) : \A g \in GroupOf(f) : plan[g] = plan[f]
        /\ \A f \in Present(split) : f \in Present(clean) /\ split[f] = plan[f]
        /\ "yolo" \notin sound
SplitInv ==
    /\ GroupsAgree /\ PlanAgrees /\ DOMAIN split = Images
    /\ NoLeakBetweenParts /\ DividedAsAsked

\* A step that leaves the pool and the parts alone and divides nothing.
LEMMA SplitUndisturbed ==
  ASSUME SplitInv, tool' # "split", UNCHANGED split,
         "yolo" \in sound' => "yolo" \in sound, GroupsAgree'
  PROVE  SplitInv'
BY DEF SplitInv, PlanAgrees, NoLeakBetweenParts, DividedAsAsked, Present

LEMMA GroupsUndisturbed ==
  ASSUME GroupsAgree, "clean" \in sound' => "clean" \in sound,
         UNCHANGED <<clean, report>>
  PROVE  GroupsAgree'
BY DEF GroupsAgree, Present

LEMMA PoolStepKeepsSplit ==
  ASSUME TypeOK, PoolInv, SplitInv, PoolStep
  PROVE  SplitInv'
<1> USE DEF poolFiles
<1>1. UNCHANGED split  BY DEF PoolStep
<1>2. tool' # "split"  BY PoolToolRuns
<1>3. CASE StartCleanup
  <2>1. sound' = sound \ {"clean"}  BY <1>3 DEF StartCleanup
  <2>2. GroupsAgree'  BY <2>1 DEF GroupsAgree
  <2> QED BY <1>1, <1>2, <2>1, <2>2, SplitUndisturbed
<1>4. CASE CopyClean \/ CleanupCut
  <2>1. "clean" \notin sound /\ sound' = sound
    BY <1>4 DEF CopyClean, CleanupCut, Walking, Done, PoolInv
  <2>2. GroupsAgree'  BY <2>1 DEF GroupsAgree
  <2> QED BY <1>1, <1>2, <2>1, <2>2, SplitUndisturbed
<1>5. CASE WriteReport
  <2>1. /\ report' = Groups(Present(clean)) /\ UNCHANGED clean
        /\ sound' = sound \cup {"clean"}
    BY <1>5 DEF WriteReport
  <2>2. Present(clean) \in SUBSET Images  BY PresentIsSubset
  <2>3. ASSUME NEW f \in Present(clean), NEW g \in Present(clean), f # g,
               Pair(f, g) \in Near
        PROVE  report'[f] # 0 /\ report'[g] = report'[f]
    BY <2>1, <2>2, <2>3, NearGrouped
  <2>4. Present(clean)' = Present(clean)  BY <2>1 DEF Present
  <2>5. GroupsAgree'  BY <2>3, <2>4 DEF GroupsAgree
  <2> QED BY <1>1, <1>2, <2>1, <2>5, SplitUndisturbed
<1>6. CASE ~(StartCleanup \/ CopyClean \/ CleanupCut \/ WriteReport)
  <2>1. UNCHANGED <<clean, report, sound>>
    BY <1>6 DEF PoolStep, StartPrepare, WriteManifestRow, PrepareEnds,
                StartDownload, AlreadyPresent, DownloadOne, DownloadFails,
                DownloadEnds, StartSort, PassOver, Look, Reject, SortEnds
  <2>2. GroupsAgree'  BY <2>1, GroupsUndisturbed DEF SplitInv
  <2> QED BY <1>1, <1>2, <2>1, <2>2, SplitUndisturbed
<1> QED BY <1>3, <1>4, <1>5, <1>6

LEMMA StartSplitPlans ==
  ASSUME SplitInv, StartSplit, UNCHANGED poolFiles
  PROVE  SplitInv'
<1> USE DEF poolFiles
<1>1. PICK a \in Assignments(Present(clean)) : plan' = a
  BY DEF StartSplit
<1>2. /\ UNCHANGED <<clean, report, final>> /\ tool' = "split"
      /\ split' = Nowhere /\ sound' = sound \ {"yolo"}
      /\ todo' \in SetToSeqs(Present(clean))
  BY DEF StartSplit, Sorted, Lists
<1>3. Present(clean)' = Present(clean) /\ Present(split)' = {}
  BY <1>2 DEF Present, Nowhere
<1>4. \A f : GroupOf(f)' = GroupOf(f) /\ Positive(f)' = Positive(f)
  BY <1>2, <1>3 DEF GroupOf, Positive
<1>5. todo' \in Seq(Present(clean))
  BY <1>2, PresentIsSubset, ListIsSeq
<1>6. /\ DOMAIN a = Present(clean)
      /\ \A f \in Present(clean) : \A g \in GroupOf(f) : a[g] = a[f]
  BY AssignmentWhole
<1>7. PlanAgrees'
  BY <1>1, <1>2, <1>3, <1>4, <1>5, <1>6 DEF PlanAgrees
<1>8. GroupsAgree'  BY <1>2, GroupsUndisturbed DEF SplitInv
<1>9. DividedAsAsked'
  <2>1. ASSUME \A f \in Present(clean) : GroupOf(f) = {f}, NEW class \in BOOLEAN,
               NEW targets, targets = Targets(Cardinality(OfClass(class))),
               \A part \in ToSet(Parts) : targets[part] >= 0,
               NEW part \in ToSet(Parts)
        PROVE  Cardinality({f \in OfClass(class) : a[f] = part}) = targets[part]
    BY <2>1, AssignmentFills
  <2>2. \A class : {f \in DOMAIN plan' : Positive(f)' = class} = OfClass(class)
    BY <1>1, <1>4, <1>6 DEF OfClass
  <2> QED BY <1>1, <1>3, <1>4, <1>6, <2>1, <2>2 DEF DividedAsAsked
<1>10. NoLeakBetweenParts' /\ DOMAIN split' = Images
  BY <1>2 DEF NoLeakBetweenParts, Nowhere
<1> QED BY <1>7, <1>8, <1>9, <1>10 DEF SplitInv

LEMMA SetStepKeepsSplit ==
  ASSUME TypeOK, SplitInv, SetStep
  PROVE  SplitInv'
<1> USE DEF poolFiles
<1>1. UNCHANGED <<clean, report>>  BY DEF SetStep
<1>2. CASE StartFinal \/ CopyFinal \/ FinalEnds \/ FinalCut
  <2>1. /\ tool' # "split" /\ UNCHANGED split
        /\ "clean" \in sound' => "clean" \in sound
        /\ "yolo" \in sound' => "yolo" \in sound
    BY <1>2 DEF StartFinal, CopyFinal, FinalEnds, FinalCut, Walking, Done, Stop,
                Advance
  <2> QED BY <1>1, <2>1, GroupsUndisturbed, SplitUndisturbed DEF SplitInv
<1>3. CASE StartSplit  BY <1>3, StartSplitPlans DEF SetStep
<1>4. CASE CopyToSplit
  <2>1. /\ tool = "split" /\ todo \in Seq(Present(clean)) /\ todo # <<>> /\ Advance
        /\ split' = [split EXCEPT ![Head(todo)] = plan[Head(todo)]]
        /\ UNCHANGED <<sound, final, plan>>
    BY <1>4 DEF CopyToSplit, Walking, SplitInv, PlanAgrees
  <2>2. /\ todo' \in Seq(Present(clean)) /\ Head(todo) \in Present(clean)
        /\ tool' = "split"
    BY <2>1, AdvanceType
  <2>3. Present(clean)' = Present(clean) /\ \A f : GroupOf(f)' = GroupOf(f)
    BY <1>1 DEF Present, GroupOf
  <2>4. \A f \in Present(split)' : f \in Present(clean) /\ split'[f] = plan[f]
    BY <2>1, <2>2 DEF Present, SplitInv, PlanAgrees
  <2>5. PlanAgrees' /\ "yolo" \notin sound
    BY <2>1, <2>2, <2>3, <2>4 DEF SplitInv, PlanAgrees
  <2>6. \A f : Positive(f)' = Positive(f)  BY <2>1 DEF Positive
  <2>7. DividedAsAsked'
    BY <2>1, <2>2, <2>3, <2>6 DEF SplitInv, DividedAsAsked
  <2>8. NoLeakBetweenParts' /\ DOMAIN split' = Images
    BY <2>1, <2>5 DEF NoLeakBetweenParts, SplitInv
  <2> QED BY <1>1, <2>1, <2>5, <2>7, <2>8, GroupsUndisturbed DEF SplitInv
<1>5. CASE SplitEnds
  <2>1. /\ tool = "split" /\ tool' = "none" /\ UNCHANGED split
        /\ "clean" \in sound' => "clean" \in sound
        /\ "yolo" \in sound' => "yolo" \in sound \/ "clean" \in sound
    BY <1>5 DEF SplitEnds, Done, Stop
  <2>2. ASSUME "clean" \in sound, NEW f \in Present(split), NEW g \in Present(split),
               Pair(f, g) \in Near
        PROVE  split[f] = split[g]
    <3>1. /\ f \in Present(clean) /\ split[f] = plan[f]
          /\ g \in Present(clean) /\ split[g] = plan[g]
      BY <2>1 DEF SplitInv, PlanAgrees
    <3>2. f # g => g \in GroupOf(f)
      BY <2>2, <3>1 DEF SplitInv, GroupsAgree, GroupOf
    <3>3. f # g => plan[g] = plan[f]
      BY <2>1, <3>1, <3>2 DEF SplitInv, PlanAgrees
    <3> QED BY <3>1, <3>3
  <2>3. NoLeakBetweenParts'
    BY <2>1, <2>2 DEF NoLeakBetweenParts, SplitInv, PlanAgrees, Present
  <2>4. PlanAgrees' /\ DividedAsAsked' /\ DOMAIN split' = Images
    BY <2>1 DEF PlanAgrees, DividedAsAsked, SplitInv
  <2> QED BY <1>1, <2>1, <2>3, <2>4, GroupsUndisturbed DEF SplitInv
<1> QED BY <1>2, <1>3, <1>4, <1>5 DEF SetStep

LEMMA SplitInit == Init => SplitInv
<1> SUFFICES ASSUME Init PROVE SplitInv  OBVIOUS
<1>1. sound \subseteq {"final"} /\ tool = "none" /\ split = Nowhere
  BY BeginningsAssumption DEF Init
<1> QED BY <1>1 DEF SplitInv, GroupsAgree, PlanAgrees, NoLeakBetweenParts,
                    DividedAsAsked, Nowhere

LEMMA SplitNext == TypeOK /\ PoolInv /\ SplitInv /\ [Next]_vars => SplitInv'
<1> SUFFICES ASSUME TypeOK, PoolInv, SplitInv, [Next]_vars PROVE SplitInv'
  OBVIOUS
<1>1. CASE PoolStep  BY <1>1, PoolStepKeepsSplit
<1>2. CASE LabelStep /\ UNCHANGED <<counts, plan>>
  <2>1. tool' # "split" /\ UNCHANGED <<clean, report, split, sound>>
    BY <1>2, Frames, LabelToolRuns DEF poolFiles
  <2> QED BY <2>1, GroupsUndisturbed, SplitUndisturbed DEF SplitInv
<1>3. CASE SetStep  BY <1>3, SetStepKeepsSplit
<1>4. CASE Interrupt
  <2>1. tool' # "split" /\ UNCHANGED <<clean, report, split, sound>>
    BY <1>4 DEF Interrupt, Stop, files, poolFiles
  <2> QED BY <2>1, GroupsUndisturbed, SplitUndisturbed DEF SplitInv
<1>5. CASE UNCHANGED vars
  <2>1. UNCHANGED <<tool, todo, clean, report, split, sound, final, plan>>
    BY <1>5 DEF vars, walk, files, poolFiles
  <2>2. /\ Present(clean)' = Present(clean) /\ Present(split)' = Present(split)
        /\ \A f : GroupOf(f)' = GroupOf(f) /\ Positive(f)' = Positive(f)
    BY <2>1 DEF Present, GroupOf, Positive
  <2>3. GroupsAgree' /\ PlanAgrees' /\ NoLeakBetweenParts'
    BY <2>1, <2>2 DEF SplitInv, GroupsAgree, PlanAgrees, NoLeakBetweenParts
  <2>4. DividedAsAsked'  BY <2>1, <2>2 DEF SplitInv, DividedAsAsked
  <2> QED BY <2>1, <2>3, <2>4 DEF SplitInv
<1> QED BY <1>1, <1>2, <1>3, <1>4, <1>5 DEF Next

LEMMA SplitHolds == Spec => []SplitInv
<1>1. Spec => []PoolInv  BY PoolInit, PoolNext, TypeCorrect, PTL DEF Spec
<1> QED BY <1>1, SplitInit, SplitNext, TypeCorrect, PTL DEF Spec

(***************************************************************************)
(* Near duplicates are never parted, for every set of near pairs, every    *)
(* order of comparing and shuffling, and whatever was interrupted before.  *)
(***************************************************************************)
THEOREM NoGroupIsParted == Spec => []NoLeakBetweenParts
BY SplitHolds, PTL DEF SplitInv

(***************************************************************************)
(* Images without near duplicates fill the parts exactly as asked, for     *)
(* every number of images and all ratios that rounding does not break.     *)
(***************************************************************************)
THEOREM ProportionsAsAsked == Spec => []DividedAsAsked
BY SplitHolds, PTL DEF SplitInv
=============================================================================
