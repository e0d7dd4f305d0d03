------------------------------ MODULE Pictures ------------------------------
(***************************************************************************)
(* The pictures a business shows: the image and the logo of its row, and   *)
(* the carousel picture of its advertisement row.  A column holds the name *)
(* of a file in the public bucket, which all businesses share.  The views  *)
(* load the row, delete the old file, upload the new one and save the row; *)
(* the bucket takes no part in a transaction.                              *)
(*                                                                         *)
(* The advertisement row has no other content: every write of a banner     *)
(* raises, as its views have no serializer, so the row exists exactly when *)
(* it has a picture and removing the banner finds nothing to remove.       *)
(***************************************************************************)
EXTENDS Requests

CONSTANTS
    Carousels,  \* advertisement rows, by business
    Fronts,     \* image and logo columns of businesses
    Files       \* names a file may have in the bucket

ASSUME PicturesAssumption == Carousels \cap Fronts = {} /\ None \notin Files

VARIABLES
    picture,    \* the file each picture column names, None without one
    bucket,     \* files in the bucket
    clashed,    \* history: two handlers worked on one picture at the same time
    freed       \* history: files deleted by a handler that then failed to replace them

PicturesVars == <<picture, bucket, clashed, freed>>

Frames == Carousels \cup Fronts
FrameJobs == {"replace", "remove", "purged", "removing", "profile"}
WorksOn(w, f) == work[w].op \in FrameJobs /\ work[w].frame = f
Clashes(f) == clashed' = (clashed \/ \E w \in Workers : WorksOn(w, f))

PicturesInit ==
    /\ picture = [f \in Frames |-> None]
    /\ bucket = {} /\ clashed = FALSE /\ freed = {}

-----------------------------------------------------------------------------
\* A bug: a file may take the name of another one.
AnyName(n) == n \in Files

(* The storage gives a file a name that is not taken (file_overwrite is    *)
(* off); a name whose file was deleted is free again, for every business.  *)
FreeName(n) == n \in Files \ bucket

Shows(f, n) == picture' = [picture EXCEPT ![f] = n]
Uploads(n) == FreeName(n) /\ bucket' = bucket \cup {n}

-----------------------------------------------------------------------------
(* BuisnessCarouselManageView.post locks the row or creates it; phase 1 of *)
(* the registration writes what it was sent, whatever was there.  The file *)
(* that was shown stays in the bucket.                                     *)
PictureSet(f, n) ==
    /\ Uploads(n)
    /\ Shows(f, n)
    /\ Clashes(f)
    /\ UNCHANGED <<work, freed>>

(* The row as a handler loads it.  One that changes other columns of the   *)
(* business saves all of them, the file name it loaded included.           *)
PictureReads(w, f, job) ==
    /\ Free(w)
    /\ job # "profile" => picture[f] # None
    /\ job = "remove" => f \in Carousels
    /\ job = "profile" => f \in Fronts
    /\ Starts(w, [op |-> job, frame |-> f, file |-> picture[f]])
    /\ Clashes(f)
    /\ UNCHANGED <<picture, bucket, freed>>

(* delete_file_by_url, batch_delete_urls: a failure is logged and the      *)
(* handler goes on.                                                        *)
OldFileGoes(w, deleted) ==
    LET j == work[w] IN
    /\ j.op \in {"replace", "remove"}
    /\ bucket' = IF deleted THEN bucket \ {j.file} ELSE bucket
    /\ Starts(w, [j EXCEPT !.op = IF j.op = "replace" THEN "purged" ELSE "removing"])
    /\ UNCHANGED <<picture, clashed, freed>>

(* The upload and the row's UPDATE; a carousel row that was removed in the *)
(* meantime is not updated, the handler fails and the new file stays.      *)
NewFileSaved(w, n) ==
    LET f == work[w].frame
        gone == f \in Carousels /\ picture[f] = None IN
    /\ Doing(w, "purged") /\ Ends(w)
    /\ Uploads(n)
    /\ IF gone THEN UNCHANGED picture ELSE Shows(f, n)
    /\ UNCHANGED <<clashed, freed>>

CarouselRemoved(w) ==
    /\ Doing(w, "removing") /\ Ends(w)
    /\ Shows(work[w].frame, None)
    /\ UNCHANGED <<bucket, clashed, freed>>

(* BuisnessUpdateView and phase 1 without a picture.                       *)
ProfileSaved(w) ==
    /\ Doing(w, "profile") /\ Ends(w)
    /\ Shows(work[w].frame, work[w].file)
    /\ UNCHANGED <<bucket, clashed, freed>>

(* A handler that dies or whose upload, save or commit fails: the row is   *)
(* as it was, the bucket is not.                                           *)
PictureDies(w) ==
    /\ Dies(w)
    /\ freed' = IF work[w].op \in {"purged", "removing"} THEN freed \cup {work[w].file} ELSE freed
    /\ UNCHANGED <<picture, bucket, clashed>>

-----------------------------------------------------------------------------
PicturesNext ==
    \/ \E f \in Frames, n \in Files : PictureSet(f, n)
    \/ \E w \in Workers, f \in Frames, job \in {"replace", "remove", "profile"} : PictureReads(w, f, job)
    \/ \E w \in Workers, deleted \in BOOLEAN : OldFileGoes(w, deleted)
    \/ \E w \in Workers, n \in Files : NewFileSaved(w, n)
    \/ \E w \in Workers : CarouselRemoved(w) \/ ProfileSaved(w) \/ PictureDies(w)

-----------------------------------------------------------------------------
PicturesType ==
    /\ picture \in [Frames -> Files \cup {None}]
    /\ bucket \cup freed \subseteq Files /\ clashed \in BOOLEAN

(* As long as nobody changes a picture that is being changed, a picture on *)
(* show is in the bucket, except while it is being replaced or removed and *)
(* when a replacement of a file of that name once failed half way: nobody  *)
(* takes a file another business shows (image/mixin.py, image/services.py, *)
(* core/settings.py:STORAGES).                                             *)
PictureStored ==
    ~clashed => \A f \in Frames :
        \/ picture[f] \in bucket \cup freed \cup {None}
        \/ \E w \in Workers : work[w].op \in {"purged", "removing"} /\ work[w].frame = f
=============================================================================
