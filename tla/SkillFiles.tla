----------------------------- MODULE SkillFiles -----------------------------
(***************************************************************************)
(* The file managers of the skill (data_agent/file_manager.py): an upload  *)
(* asks the service for a signature, posts the file to the object store    *)
(* and registers it; a deletion looks for the file in its session first.   *)
(***************************************************************************)
EXTENDS SkillSessions

VARIABLE stored         \* the object store: whose upload it has taken

\* A program begins with a file it can read and whose type is supported.
Upload(p) ==
    /\ At(p, "upload")
    /\ \/ Call(p, "signature", GetFileUploadSignature, none)
       \/ Goto(p, "failed")
    /\ UNCHANGED stored

\* An error in the body has none of the parameters of the upload.
Signed(p) ==
    /\ At(p, "signature")
    /\ Goto(p, IF Returned(p) /\ call[p].answer = "ok" THEN "oss" ELSE "failed")
    /\ UNCHANGED stored

\* BUG: register the file whatever became of the post.
PostObjectUnchecked(p) ==
    /\ At(p, "oss")
    /\ Call(p, "callback", FileUploadCallback, none) /\ stored' \in {stored, stored \cup {p}}

\* A failed post may have stored the object: its answer can be lost.
PostObject(p) ==
    /\ At(p, "oss")
    /\ \/ Call(p, "callback", FileUploadCallback, none) /\ stored' = stored \cup {p}
       \/ Goto(p, "failed") /\ stored' \in {stored, stored \cup {p}}
\* The ID comes from the registration, or is the directory of the upload.
RegisteredId(p) == Returned(p) /\ call[p].answer = "ok"

\* cmd_file goes on with a session that has the file, cmd_upload is done.
Uploaded(p) ==
    /\ At(p, "callback")
    /\ prog' = [prog EXCEPT ![p].id = IF RegisteredId(p) THEN "registered" ELSE "directory",
                            ![p].pc = IF prog[p].kind = "file" THEN "send" ELSE "done"]
    /\ UNCHANGED <<call, stored>>

\* delete_file: without an ID nothing is sent, without a session the listing is
\* left out; an error anywhere is FALSE.
Delete(p) ==
    /\ \/ At(p, "delete") /\ Call(p, "listing", ListFiles, none)
       \/ At(p, "delete") /\ Call(p, "deleting", DeleteFile, none)
       \/ At(p, "delete") /\ Goto(p, "failed")
       \/ At(p, "listing") /\ RegisteredId(p) /\ Call(p, "deleting", DeleteFile, none)
       \/ At(p, "listing") /\ Goto(p, "failed")
       \/ At(p, "deleting") /\ Goto(p, IF Returned(p) THEN "done" ELSE "failed")
    /\ UNCHANGED stored

FileStep(p) ==
    /\ \/ Upload(p) \/ Signed(p) \/ PostObject(p) \/ Uploaded(p) \/ Delete(p)
    /\ ProgramOnly /\ UNCHANGED active
=============================================================================
