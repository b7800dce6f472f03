------------------------------ MODULE SendPage ------------------------------
(* The send page of the control plane                                        *)
(* (src/control-plane/app/(app)/send/page.tsx): its file input, whose parses *)
(* run side by side, and its bulk form, which uploads the recipients and     *)
(* then schedules a campaign on the upload, by two requests.                 *)
(*                                                                           *)
(* A file stands for its recipients.  Either request may be refused, or its  *)
(* answer lost after the backend did the work.                               *)
EXTENDS Naturals, FiniteSets

CONSTANTS
    RecipientFiles,
    Clicks,            \* submissions of the form
    NoFile

VARIABLES
    parsing,           \* files chosen whose parseUpload is under way
    uploadPreview,     \* the state of that name
    click,             \* each submission: step, the preview it was made with, its upload
    contactUploads,    \* backend: submission -> the file uploaded, or NoFile
    scheduled          \* backend: campaigns, each the submission it comes from and its file

pageVars == <<parsing, uploadPreview, click, contactUploads, scheduled>>

Unclicked == [step |-> "idle", shown |-> NoFile, group |-> FALSE]

PageInit ==
    /\ parsing = {} /\ uploadPreview = NoFile
    /\ click = [c \in Clicks |-> Unclicked]
    /\ contactUploads = [c \in Clicks |-> NoFile]
    /\ scheduled = {}

(* onChange of the file input; an emptied input clears the preview.          *)
ChooseFile(f) ==
    /\ f \notin parsing
    /\ parsing' = parsing \union {f}
    /\ UNCHANGED <<uploadPreview, click, contactUploads, scheduled>>

ClearFile ==
    /\ uploadPreview # NoFile
    /\ uploadPreview' = NoFile
    /\ UNCHANGED <<parsing, click, contactUploads, scheduled>>

(* A parse ends, in any order: its file becomes the preview, or it fails and *)
(* leaves the preview of another.                                            *)
Parsed(f) ==
    /\ f \in parsing
    /\ parsing' = parsing \ {f}
    /\ uploadPreview' \in {f, uploadPreview}
    /\ UNCHANGED <<click, contactUploads, scheduled>>

(* The form is submitted: its handler is the one of the page as shown.       *)
Click(c) ==
    /\ click[c].step = "idle"
    /\ \E group \in BOOLEAN :
         /\ group \/ uploadPreview # NoFile
         /\ click' = [click EXCEPT ![c] =
               [step |-> IF group THEN "scheduling" ELSE "uploading",
                shown |-> uploadPreview, group |-> group]]
    /\ UNCHANGED <<parsing, uploadPreview, contactUploads, scheduled>>

FileShownNow(c) == uploadPreview

(* The upload that the handler sends, once the fields are validated.         *)
FileToUpload(c) == click[c].shown

(* POST /contact-uploads/inline. *)
Upload(c) ==
    /\ click[c].step = "uploading"
    /\ \E done \in BOOLEAN, answered \in BOOLEAN :
         /\ contactUploads' = IF done THEN [contactUploads EXCEPT ![c] = FileToUpload(c)]
                                      ELSE contactUploads
         /\ click' = [click EXCEPT ![c].step = IF done /\ answered THEN "scheduling" ELSE "failed"]
    /\ UNCHANGED <<parsing, uploadPreview, scheduled>>

(* POST /campaigns/schedule, with the upload or the group chosen.            *)
Schedule(c) ==
    /\ click[c].step = "scheduling"
    /\ \E done \in BOOLEAN, answered \in BOOLEAN :
         /\ scheduled' = IF done THEN scheduled \union {[by |-> c, group |-> click[c].group,
                                                         file |-> contactUploads[c]]}
                                 ELSE scheduled
         /\ click' = [click EXCEPT ![c].step = IF done /\ answered THEN "done" ELSE "failed"]
    /\ UNCHANGED <<parsing, uploadPreview, contactUploads>>

PageNext ==
    \/ ClearFile
    \/ \E f \in RecipientFiles : ChooseFile(f) \/ Parsed(f)
    \/ \E c \in Clicks : Click(c) \/ Upload(c) \/ Schedule(c)

PageSpec == PageInit /\ [][PageNext]_pageVars
-----------------------------------------------------------------------------
(* A campaign that the page schedules from a file goes to the recipients     *)
(* that were shown when its form was submitted, whichever files are chosen   *)
(* and parsed while the requests are under way, and a failed upload          *)
(* schedules nothing (bulkForm's handler).                                   *)
SendsWhatWasShown ==
    \A s \in scheduled : ~s.group => s.file = click[s.by].shown /\ s.file # NoFile
=============================================================================
