------------------------------ MODULE ImagePool ------------------------------
(***************************************************************************)
(* Where the images come from: the archive's manifest and the download     *)
(* (tools/collect_mouse_positives.py), the first look at them              *)
(* (review_mouse_positives.py) and the mechanical clean-up                 *)
(* (cleanup_mouse_positives.py).                                           *)
(*   An image file is whole, or cut short: a server may end a transfer     *)
(* early, and the downloader only asks for 1024 bytes and the two bytes a  *)
(* JPEG begins with.  The .part file it writes first is seen by no tool.   *)
(***************************************************************************)
EXTENDS DatasetFiles, Folds

CONSTANTS
    Media,      \* multimedia.txt: [obs, still, licensed] of every row
    Mice,       \* the observations of genus Mus in occurrence.txt
    Rank,       \* the hash order of the observations
    Near,       \* the pairs of images within the perceptual-hash distance
    Twins,      \* the pairs of images with the same bytes
    MaxImages,  \* --max-images
    Retries     \* --retries

ASSUME MediaAssumption == Images = DOMAIN Media
ASSUME TwinsAssumption == \A f \in Images : {f} \notin Twins

VARIABLES got, tries    \* download_manifest: downloaded, attempt

counts == <<got, tries>>

-----------------------------------------------------------------------------
(* prepare: one licensed still image per observation, in rank order.       *)
Usable(i) == Media[i].obs \in Mice /\ Media[i].still /\ Media[i].licensed
KeepsAll == {i \in Images : Usable(i)}      \* mutant: "or gbif_id in chosen"
Chosen ==
    {i \in Images : Usable(i) /\ \A j \in Images :
        j < i /\ Media[j].obs = Media[i].obs => ~Usable(j)}

StartPrepare ==
    /\ Idle("prepare") /\ tool' = "prepare"
    /\ todo' \in Lists(Chosen, LAMBDA i, j :
                            Rank[Media[i].obs] <= Rank[Media[j].obs])
    /\ manifest' = <<>>
    /\ UNCHANGED <<at, sound, counts, raw, clean, report>>

WriteManifestRow ==
    /\ Walking("prepare") /\ Advance
    /\ manifest' = Append(manifest, Head(todo))
    /\ UNCHANGED <<sound, counts, raw, clean, report>>

PrepareEnds == Done("prepare") /\ Stop /\ UNCHANGED <<sound, counts, poolFiles>>

-----------------------------------------------------------------------------
StartDownload ==
    /\ Idle("download") /\ manifest # <<>>
    /\ tool' = "download" /\ todo' = manifest /\ got' = 0 /\ tries' = 0
    /\ UNCHANGED <<at, sound, poolFiles>>

Wanted == Walking("download") /\ got < MaxImages

AlreadyPresent ==
    /\ Wanted /\ raw[Head(todo)] # "none" /\ Advance
    /\ UNCHANGED <<sound, counts, poolFiles>>

\* download_one: the file takes its name only when the transfer is over.
DownloadOne ==
    /\ Wanted /\ raw[Head(todo)] = "none" /\ Advance
    /\ \E body \in {"whole", "cut"} : raw' = [raw EXCEPT ![Head(todo)] = body]
    /\ got' = got + 1 /\ tries' = 0
    /\ UNCHANGED <<sound, manifest, clean, report>>

\* An HTTP error other than 429 and 5xx is not tried again.
DownloadFails ==
    /\ Wanted /\ raw[Head(todo)] = "none"
    /\ \/ tries < Retries /\ tries' = tries + 1 /\ UNCHANGED <<tool, walk>>
       \/ tries' = 0 /\ Advance
    /\ UNCHANGED <<sound, got, poolFiles>>

\* The list is done, or the cap on images, or the one on bytes, is reached.
DownloadEnds ==
    /\ tool = "download" /\ tries = 0 /\ (todo = <<>> \/ got > 0)
    /\ Stop /\ got' = 0
    /\ UNCHANGED <<sound, tries, poolFiles>>

-----------------------------------------------------------------------------
(* review_mouse_positives.py: keep, back, reject, quit.                    *)
MovedOut(f) == raw' = [raw EXCEPT ![f] = "none"]

StartSort ==
    /\ Idle("sort") /\ Present(raw) # {}
    /\ tool' = "sort" /\ todo' \in Sorted(Present(raw)) /\ at' = 1
    /\ UNCHANGED <<sound, counts, poolFiles>>

\* A file moved out before is passed over; one imread refuses is moved out.
PassOver ==
    /\ Browsing("sort") /\ Forward
    /\ \/ raw[Shown] = "none" /\ UNCHANGED raw
       \/ raw[Shown] = "cut" /\ MovedOut(Shown)
    /\ UNCHANGED <<sound, counts, manifest, clean, report>>

Look ==
    /\ Browsing("sort") /\ raw[Shown] # "none" /\ (Forward \/ Backward)
    /\ UNCHANGED <<sound, counts, poolFiles>>

Reject ==
    /\ Browsing("sort") /\ raw[Shown] # "none" /\ MovedOut(Shown)
    /\ todo' = RemoveAt(todo, at)
    /\ at' = IF at > Len(todo') THEN Len(todo') ELSE at
    /\ UNCHANGED <<tool, sound, counts, manifest, clean, report>>

SortEnds ==
    /\ tool = "sort" /\ at \notin DOMAIN todo /\ Stop
    /\ UNCHANGED <<sound, counts, poolFiles>>

-----------------------------------------------------------------------------
(* cleanup_mouse_positives.py *)
Pair(f, g) == {f, g}
Valid == {f \in Images : raw[f] = "whole"}
Kept == {f \in Valid : \A g \in Valid : g < f => Pair(f, g) \notin Twins}

ForgetsRest(root, pair) ==              \* mutant: only b itself is joined
    [root EXCEPT ![pair[2]] = root[pair[1]]]

\* UnionFind, a path compressed to its root at once.
Unite(root, pair) ==
    [x \in DOMAIN root |->
        IF root[x] = root[pair[2]] THEN root[pair[1]] ELSE root[x]]

\* The comparisons, in some order: it decides the roots, not what is joined.
NearPairs(S) ==
    SetToSeq({p \in S \X S : p[1] < p[2] /\ Pair(p[1], p[2]) \in Near})
Roots(S) == FoldLeft(Unite, [x \in S |-> x], NearPairs(S))
Groups(S) ==
    [f \in Images |->
        IF f \in S /\ \E g \in S \ {f} : Roots(S)[g] = Roots(S)[f]
        THEN Roots(S)[f] ELSE 0]

\* clean/ is emptied before the images are read.
StartCleanup ==
    /\ Idle("cleanup") /\ Present(raw) # {}
    /\ tool' = "cleanup" /\ todo' \in Sorted(Kept)
    /\ clean' = Nowhere /\ sound' = sound \ {"clean"}
    /\ UNCHANGED <<at, counts, manifest, raw, report>>

CopyClean ==
    /\ Walking("cleanup") /\ Advance
    /\ clean' = [clean EXCEPT ![Head(todo)] = raw[Head(todo)]]
    /\ UNCHANGED <<sound, counts, manifest, raw, report>>

WriteReport ==
    /\ Done("cleanup") /\ Stop
    /\ report' = Groups(Present(clean)) /\ sound' = sound \cup {"clean"}
    /\ UNCHANGED <<counts, manifest, raw, clean>>

\* Interrupted in the middle of a copy, or of the report.
CleanupCut ==
    /\ Stop
    /\ \/ /\ Walking("cleanup") /\ clean' = [clean EXCEPT ![Head(todo)] = "cut"]
          /\ UNCHANGED report
       \/ /\ Done("cleanup") /\ UNCHANGED clean
          /\ \E last \in Images :
                report' = [f \in Images |->
                    IF f < last THEN Groups(Present(clean))[f] ELSE 0]
    /\ UNCHANGED <<sound, counts, manifest, raw>>

PoolStep ==
    /\ \/ StartPrepare \/ WriteManifestRow \/ PrepareEnds
       \/ StartDownload \/ AlreadyPresent \/ DownloadOne \/ DownloadFails
       \/ DownloadEnds
       \/ StartSort \/ PassOver \/ Look \/ Reject \/ SortEnds
       \/ StartCleanup \/ CopyClean \/ WriteReport \/ CleanupCut
    /\ UNCHANGED <<job, labelFiles, final, split>>
=============================================================================
