---------------------------- MODULE DocumentFiles -----------------------------
(***************************************************************************)
(* How a document is made from a file, and the temporary files a process   *)
(* makes and removes: libdocument/ev-document-factory.c,                   *)
(* ev-file-helpers.c, ev-attachment.c, ev-image.c, the load and save jobs  *)
(* of libview/ev-jobs.c, the comics back end, the uploads of               *)
(* shell/ev-window.c, and thumbnailer/evince-thumbnailer.c.                *)
(*                                                                         *)
(* The worker runs one job at a time, and every call of the system it      *)
(* depends on may fail.  The main thread goes on meanwhile, and may quit.  *)
(* A file is its kind and the number of its making: names do not return.   *)
(***************************************************************************)
EXTENDS Integers, FiniteSets

CONSTANTS
  Sources,     \* the files that may be opened, records of Source
  Installed,   \* the sets of programs that may be installed
  FileCalls    \* bound: calls of the user

\* "none": the type cannot be found out; "text": no back end supports it.
Plain  == {"pdf", "x-gzpdf", "x-bzpdf", "x-xzpdf"}
Comics == {"x-cbr", "x-cbz", "x-cb7", "x-cbt"}
Types  == {"none", "text"} \union Plain \union Comics
Source ==
  [fast : Types, slow : Types,            \* by its name, by its first bytes
   name : {"gz", "bz2", "other"},         \* how its name ends
   remote : BOOLEAN]

ASSUME FilesAssumption == Sources \subseteq Source /\ FileCalls \in Nat

VARIABLES
  program,    \* "evince" or "thumbnailer"
  installed,  \* the programs in the search path
  original,     \* the file
  files,      \* temporary files and directories that exist
  made,       \* how many were made, and documents
  tmpdir,     \* the directory they are in was made
  load,       \* the factory: its locals, or the document the job has
  shown,      \* the document of the window
  extras,     \* the files of its attachment and of its image
  save,       \* the save job
  uploads,    \* files that are being copied to another machine
  over,       \* the process has ended
  fileCalls,
  mishap      \* history: a call of the system failed, or somebody quit early

heldVars == <<load, shown, extras, save, uploads>>
fileVars == <<program, installed, original, files, made, tmpdir, heldVars, over,
              fileCalls, mishap>>
fixedVars == <<program, installed, original>>

NoFile == <<"nofile", 0>>
NoDoc  == [n |-> 0]
AtRest   == "idle"

-----------------------------------------------------------------------------
(* Temporary files.                                                        *)

NewFile(kind) == <<kind, made + 1>>

\* ev_mkstemp, ev_mkdtemp: the directory of the process is made when needed.
Made(file) == made' = made + 1 /\ tmpdir' = TRUE
NothingMade == UNCHANGED <<made, tmpdir>>

\* Mutant: the uncompressed file is not given to the document.
OwnedDirectory(doc) == IF doc = NoDoc THEN {} ELSE {doc.dir} \ {NoFile}

\* What a document owns: the data "uri-uncompressed", removed with it, and the
\* directory of a comic book, removed by its finalize.
OwnedBy(doc) == IF doc = NoDoc THEN {} ELSE {doc.unc, doc.dir} \ {NoFile}

\* What goes with the last reference to a document.
Freed(doc, holders) == IF doc \in holders THEN {} ELSE OwnedBy(doc)

Owned ==
  OwnedBy(load.doc) \union OwnedBy(shown) \union OwnedBy(save.doc) \union
  ({load.copy, save.local, extras.attachment, extras.image} \ {NoFile}) \union
  uploads
Stray == files \ Owned

-----------------------------------------------------------------------------
(* The comics back end.                                                    *)

\* comics_check_decompress_command: the command for a type.  "unrar" is that of
\* RARLAB, "gna-unrar" another program of the same name.
Command(type) ==
  CASE type = "x-cbr" ->
         IF "unrar" \in installed THEN "RARLABS"
         ELSE IF {"gna-unrar", "unrar-free"} \intersect installed # {} THEN "GNAUNRAR"
         ELSE "none"
    [] type = "x-cbz" ->
         IF {"unzip", "zipnote"} \subseteq installed THEN "UNZIP"
         ELSE IF {"7za", "7z"} \intersect installed # {} THEN "P7ZIP" ELSE "none"
    [] type = "x-cb7" ->
         IF {"7zr", "7za", "7z"} \intersect installed # {} THEN "P7ZIP" ELSE "none"
    [] type = "x-cbt" -> IF "tar" \in installed THEN "TAR" ELSE "none"
    [] OTHER -> "none"

\* command_usage_def: the commands that cannot extract one page to their output
\* unpack the archive into a directory.
NeedsDirectory(type) == Command(type) \in {"GNAUNRAR", "P7ZIP"}

\* comics_document_load: whether a directory was made, and how it ends.  The
\* type is looked for again in the first bytes; when that fails the error is
\* forgotten ("silent").  Listing and unpacking may fail.
ComicsLoads ==
  LET type == original.slow IN
  IF type = "none" THEN {[dir |-> FALSE, end |-> "silent"]}
  ELSE IF Command(type) = "none" THEN {[dir |-> FALSE, end |-> "invalid"]}
  ELSE IF NeedsDirectory(type)
  THEN {[dir |-> TRUE, end |-> "ok"], [dir |-> TRUE, end |-> "invalid"],
        [dir |-> FALSE, end |-> "invalid"]}
  ELSE {[dir |-> FALSE, end |-> "ok"], [dir |-> FALSE, end |-> "invalid"]}

\* The other back ends, as far as temporary files go: "silent" is FALSE without
\* an error.
PlainLoads ==
  [dir : {FALSE}, end : {"ok", "encrypted", "invalid", "silent"}]

Loads(doc) == IF doc.backend = "comics" THEN ComicsLoads ELSE PlainLoads

-----------------------------------------------------------------------------
(* Making the document: ev_document_factory_get_document on the worker.    *)

\* get_compression_from_mime_type.
Compressed(type) == type \in {"x-gzpdf", "x-bzpdf", "x-xzpdf"}

\* compression_run, when there is something to do.  file: the temporary file was
\* made; uri: it is returned; error: the error is set.
CompressionRuns ==
  {[file |-> TRUE,  uri |-> TRUE,  error |-> FALSE],   \* done
   [file |-> TRUE,  uri |-> TRUE,  error |-> TRUE],    \* reading or writing failed
   [file |-> TRUE,  uri |-> FALSE, error |-> TRUE],    \* the program did not start
   [file |-> FALSE, uri |-> FALSE, error |-> TRUE]}    \* no program, no file

\* The end of a call: without a document, or with one.
Ends(doc, error) ==
  load' = [load EXCEPT !.at = "end", !.doc = doc, !.error = error]
\* The second attempt, with the type found in the first bytes.
TriesAgain ==
  load' = [load EXCEPT !.at = "type", !.slow = TRUE, !.doc = NoDoc, !.error = "none"]

\* new_document_for_uri, then ev_file_uncompress.
TypeFound ==
  LET type == IF load.slow THEN original.slow ELSE original.fast
      n    == made + 1
      doc  == [n |-> n, type |-> type, unc |-> NoFile, dir |-> NoFile, ready |-> FALSE,
               backend |-> IF type \in Comics THEN "comics" ELSE "plain"]
  IN
  /\ load.at = "type"
  /\ \/ /\ type \in {"none", "text"}
        /\ IF load.slow THEN Ends(NoDoc, "invalid") ELSE TriesAgain
        /\ UNCHANGED <<files, made, tmpdir, mishap>>
     \/ /\ type \in (Plain \union Comics) /\ ~Compressed(type)
        /\ load' = [load EXCEPT !.at = "open", !.doc = doc]
        /\ made' = n
        /\ UNCHANGED <<files, tmpdir, mishap>>
     \/ /\ Compressed(type)
        /\ \E run \in CompressionRuns :
             /\ made' = n
             /\ files' = IF run.file THEN files \union {NewFile("comp")} ELSE files
             /\ tmpdir' = (tmpdir \/ run.file)
             /\ mishap' = (mishap \/ (run.file /\ ~run.uri))
             /\ IF run.uri
                THEN load' = [load EXCEPT
                       !.at = "open", !.doc = [doc EXCEPT !.unc = NewFile("comp")],
                       !.error = IF run.error THEN "io" ELSE "none"]
                ELSE Ends(NoDoc, "io")
  /\ UNCHANGED <<fixedVars, shown, extras, save, uploads, over, fileCalls>>

\* ev_document_load never fails without an error; the first error stays.
LoadError(before, end) ==
  IF before # "none" THEN before
  ELSE CASE end = "ok" -> "none" [] end = "encrypted" -> "encrypted" [] OTHER -> "invalid"

\* Mutant: the document is given back whatever the error.
OpenedHalfMade(doc, end, error) ==
  /\ Ends([doc EXCEPT !.ready = (end = "ok")], error)
  /\ files' = files \union OwnedBy(doc)

\* What the factory makes of the end of ev_document_load: the document; the
\* document with the error of an encrypted one; or no document, which in the first
\* attempt, where any error counts, leads to the second.
Opened(doc, end, error) ==
  \/ /\ end = "ok" /\ (error = "none" \/ load.slow)
     /\ Ends([doc EXCEPT !.ready = TRUE], "none")
     /\ files' = files \union OwnedBy(doc)
  \/ /\ error = "encrypted" /\ Ends(doc, error)
     /\ files' = files \union OwnedBy(doc)
  \/ /\ error # "encrypted" /\ (end # "ok" \/ (error # "none" /\ ~load.slow))
     /\ IF load.slow THEN Ends(NoDoc, IF error = "none" THEN "invalid" ELSE error)
                      ELSE TriesAgain
     /\ files' = files \ OwnedBy(doc)

OpenFile ==
  /\ load.at = "open"
  /\ \E l \in Loads(load.doc) :
       /\ Opened([load.doc EXCEPT !.dir = IF l.dir THEN NewFile("comics") ELSE NoFile],
                 l.end, LoadError(load.error, l.end))
       /\ IF l.dir THEN Made("comics") ELSE NothingMade
  /\ UNCHANGED <<fixedVars, shown, extras, save, uploads, over, fileCalls, mishap>>

\* ev_job_load_run of a job that has a document: the load is repeated with a
\* password, from the uncompressed file.
OpenAgain ==
  /\ load.at = "again"
  /\ \E l \in PlainLoads :
       load' = [load EXCEPT !.at = "repeated", !.error = LoadError("none", l.end),
                            !.doc.ready = (l.end = "ok")]
  /\ UNCHANGED <<fixedVars, files, made, tmpdir, shown, extras, save, uploads, over,
                 fileCalls, mishap>>

-----------------------------------------------------------------------------
(* The window.                                                             *)

User == program = "evince" /\ ~over /\ fileCalls < FileCalls /\ fileCalls' = fileCalls + 1

\* A load job is pushed; "again" with the password of a document that was
\* encrypted.
Load ==
  /\ User
  /\ \/ load.at = AtRest /\ load' = [load EXCEPT !.at = "type", !.slow = FALSE, !.error = "none"]
     \/ load.at = "password" /\ load' = [load EXCEPT !.at = "again"]
  /\ UNCHANGED <<fixedVars, files, made, tmpdir, shown, extras, save, uploads, over, mishap>>

NoExtras == [attachment |-> NoFile, image |-> NoFile]

\* The document of the window goes: its attachments and images with it, and its own
\* files unless somebody else has it.
Replaced(doc, left) ==
  files' = (files \ {extras.attachment, extras.image}) \ (left \union Freed(shown, {doc, save.doc}))

\* The load job finished: a document without an error is shown; for an encrypted
\* one the window asks for the password; otherwise the job is dropped, and a
\* document it still has.
LoadFinished ==
  /\ program = "evince" /\ ~over /\ load.at \in {"end", "repeated"}
  /\ \/ /\ load.error = "none"
        /\ shown' = load.doc /\ extras' = NoExtras
        /\ load' = [load EXCEPT !.at = AtRest, !.doc = NoDoc]
        /\ Replaced(load.doc, {})
     \/ /\ load.error = "encrypted"
        /\ load' = [load EXCEPT !.at = "password"]
        /\ UNCHANGED <<files, shown, extras>>
     \/ /\ load.error \notin {"none", "encrypted"}
        /\ load' = [load EXCEPT !.at = AtRest, !.doc = NoDoc]
        /\ files' = files \ OwnedBy(load.doc)
        /\ UNCHANGED <<shown, extras>>
  /\ UNCHANGED <<fixedVars, made, tmpdir, save, uploads, over, fileCalls, mishap>>

\* ev_attachment_open: the file is made the first time; when it cannot be written it
\* stays, without an owner.  ev_image_save_tmp does the same for a dragged image.
OpenExtra(which) ==
  LET file == NewFile(which) IN
  /\ User /\ shown # NoDoc
  /\ \/ extras[which] # NoFile /\ UNCHANGED <<files, made, tmpdir, extras, mishap>>
     \/ extras[which] = NoFile /\ Made(file) /\ files' = files \union {file}
        /\ \/ extras' = [extras EXCEPT ![which] = file] /\ UNCHANGED mishap
           \/ mishap' = TRUE /\ UNCHANGED extras
  /\ UNCHANGED <<fixedVars, load, shown, save, uploads, over>>

\* ev_sidebar_attachments_drag_data_get: a file for the receiver, which nobody
\* removes.
DragAttachment ==
  LET file == NewFile("dragged") IN
  /\ User /\ shown # NoDoc
  /\ Made(file) /\ files' = files \union {file} /\ mishap' = TRUE
  /\ UNCHANGED <<fixedVars, heldVars, over>>

\* image_save_dialog_response_cb with a target that is not native: a file to copy
\* from; when it cannot be written it stays.
SaveImage ==
  LET file == NewFile("upload") IN
  /\ User /\ shown # NoDoc
  /\ Made(file) /\ files' = files \union {file}
  /\ \/ uploads' = uploads \union {file} /\ UNCHANGED mishap
     \/ mishap' = TRUE /\ UNCHANGED uploads
  /\ UNCHANGED <<fixedVars, load, shown, extras, save, over>>

\* attachment_save_dialog_response_cb does so for each of the attachments (two here),
\* and goes on with the next one when one cannot be written.
SaveAttachments ==
  LET new == {<<"upload", made + 1>>, <<"upload", made + 2>>} IN
  /\ User /\ shown # NoDoc
  /\ made' = made + 2 /\ tmpdir' = TRUE /\ files' = files \union new
  /\ \E written \in SUBSET new :
       uploads' = uploads \union written /\ mishap' = (mishap \/ written # new)
  /\ UNCHANGED <<fixedVars, load, shown, extras, save, over>>

\* window_save_file_copy_ready_cb, whatever became of the copy.
Uploaded(file) ==
  /\ ~over /\ file \in uploads
  /\ uploads' = uploads \ {file} /\ files' = files \ {file}
  /\ UNCHANGED <<fixedVars, made, tmpdir, load, shown, extras, save, over, fileCalls, mishap>>

\* The last window is closed and the process ends.  The window drops its jobs and its
\* document; what the worker and the copies are at is left as it is, and the
\* directory is removed if it is empty: _ev_file_helpers_shutdown.
Quit ==
  LET busy == load.at \in {"type", "open", "again"} \/ save.at # AtRest IN
  /\ program = "evince" /\ ~over
  /\ over' = TRUE
  /\ Replaced(NoDoc, IF load.at \in {"type", "open", "again"} THEN {} ELSE OwnedBy(load.doc))
  /\ shown' = NoDoc /\ extras' = NoExtras
  /\ load' = IF load.at \in {"type", "open", "again"} THEN load
             ELSE [load EXCEPT !.at = AtRest, !.doc = NoDoc]
  /\ mishap' = (mishap \/ busy \/ uploads # {})
  /\ tmpdir' = (tmpdir /\ files' # {})
  /\ UNCHANGED <<fixedVars, made, save, uploads, fileCalls>>

-----------------------------------------------------------------------------
(* ev_job_save_run.                                                        *)

SaveCopy ==
  /\ User /\ shown # NoDoc /\ save.at = AtRest
  /\ save' = [save EXCEPT !.at = "temp", !.doc = shown, !.told = "nothing"]
  /\ UNCHANGED <<fixedVars, files, made, tmpdir, load, shown, extras, uploads, over, mishap>>

\* The job ends with a signal or without, and goes with its reference to the
\* document; `left`: files it removes.
SaveEnds(told, left) ==
  /\ save' = [at |-> AtRest, doc |-> NoDoc, local |-> NoFile, told |-> told]
  /\ files' = files \ (left \union Freed(save.doc, {shown, load.doc}))

\* ev_document_save into a new file.  The comics back end copies from the path of
\* the archive as if it were a URI, which fails.  After an error the file stays.
SaveTemp ==
  LET file == NewFile("saveacopy") IN
  /\ ~over /\ save.at = "temp"
  /\ \/ SaveEnds("failed", {}) /\ NothingMade /\ UNCHANGED mishap   \* no file
     \/ /\ save.doc.backend = "plain"
        /\ Made(file) /\ files' = files \union {file}
        /\ save' = [save EXCEPT !.local = file,
              !.at = IF save.doc.unc = NoFile THEN "transfer" ELSE "compress"]
        /\ UNCHANGED mishap
     \/ /\ Made(file) /\ mishap' = TRUE
        /\ save' = [at |-> AtRest, doc |-> NoDoc, local |-> NoFile, told |-> "failed"]
        /\ files' = (files \union {file}) \ Freed(save.doc, {shown, load.doc})
  /\ UNCHANGED <<fixedVars, load, shown, extras, uploads, over, fileCalls>>

\* A document that was compressed is compressed again, if the name of the original
\* ends with .gz or .bz2; otherwise ev_file_compress gives neither file nor error
\* and the job ends without a signal.
SaveCompress ==
  LET file == NewFile("comp") IN
  /\ ~over /\ save.at = "compress"
  /\ \/ original.name = "other" /\ SaveEnds("nothing", {save.local})
        /\ NothingMade /\ UNCHANGED mishap
     \/ /\ original.name # "other"
        /\ \E run \in CompressionRuns :
             /\ IF run.file THEN Made(file) ELSE NothingMade
             /\ IF run.error
                THEN /\ save' = [at |-> AtRest, doc |-> NoDoc, local |-> NoFile, told |-> "failed"]
                     /\ files' = ((files \union (IF run.file THEN {file} ELSE {}))
                                   \ {save.local}) \ Freed(save.doc, {shown, load.doc})
                     /\ mishap' = (mishap \/ run.file)
                ELSE /\ save' = [save EXCEPT !.at = "transfer", !.local = file]
                     /\ files' = (files \union {file}) \ {save.local}
                     /\ UNCHANGED mishap
  /\ UNCHANGED <<fixedVars, load, shown, extras, uploads, over, fileCalls>>

\* ev_xfer_uri_simple, then the file is removed; then ev_file_copy_metadata, which
\* may fail when the copy is there.
SaveTransfer ==
  /\ ~over /\ save.at = "transfer"
  /\ \E told \in {"finished", "failed"} : SaveEnds(told, {save.local})
  /\ UNCHANGED <<fixedVars, made, tmpdir, load, shown, extras, uploads, over, fileCalls, mishap>>

-----------------------------------------------------------------------------
(* The thumbnailer.                                                        *)

\* evince_thumbnailer_get_document, to the call of the factory: a remote file is
\* copied; when that fails the copy stays.
Fetch ==
  LET file == NewFile("document") IN
  /\ program = "thumbnailer" /\ ~over /\ load.at = AtRest
  /\ \/ /\ ~original.remote
        /\ load' = [load EXCEPT !.at = "type"]
        /\ UNCHANGED <<files, made, tmpdir, over, mishap>>
     \/ /\ original.remote /\ Made(file) /\ files' = files \union {file}
        /\ \/ load' = [load EXCEPT !.at = "type", !.copy = file] /\ UNCHANGED <<over, mishap>>
           \/ over' = TRUE /\ mishap' = TRUE /\ UNCHANGED load
  /\ UNCHANGED <<fixedVars, shown, extras, save, uploads, fileCalls>>

\* Its rest, and main: without a document the copy is removed; an encrypted one is
\* forgotten with all it owns; otherwise the page is drawn, unless the monitor of the
\* time ends the process, and the document goes, and the copy with it.
Thumbnail ==
  /\ program = "thumbnailer" /\ ~over /\ load.at = "end"
  /\ over' = TRUE
  /\ load' = [load EXCEPT !.at = AtRest, !.doc = NoDoc, !.copy = NoFile]
  /\ \/ /\ load.error # "encrypted"
        /\ files' = files \ (OwnedBy(load.doc) \union {load.copy})
        /\ tmpdir' = (tmpdir /\ files' # {})
        /\ UNCHANGED mishap
     \/ /\ \/ load.error = "encrypted" /\ tmpdir' = (tmpdir /\ files # {})
           \/ load.error = "none" /\ UNCHANGED tmpdir     \* too slow
        /\ mishap' = TRUE /\ UNCHANGED files
  /\ UNCHANGED <<fixedVars, made, shown, extras, save, uploads, fileCalls>>

-----------------------------------------------------------------------------
FilesInit ==
  /\ program \in {"evince", "thumbnailer"}
  /\ installed \in Installed /\ original \in Sources
  /\ files = {} /\ made = 0 /\ tmpdir = FALSE
  /\ load = [at |-> AtRest, slow |-> FALSE, doc |-> NoDoc, error |-> "none", copy |-> NoFile]
  /\ shown = NoDoc /\ extras = NoExtras
  /\ save = [at |-> AtRest, doc |-> NoDoc, local |-> NoFile, told |-> "nothing"]
  /\ uploads = {} /\ over = FALSE /\ fileCalls = 0 /\ mishap = FALSE

FileWork ==
  \/ ~over /\ (TypeFound \/ OpenFile \/ OpenAgain)
  \/ SaveTemp \/ SaveCompress \/ SaveTransfer
  \/ LoadFinished \/ Fetch \/ Thumbnail
  \/ \E file \in uploads : Uploaded(file)
FilesNext ==
  \/ FileWork
  \/ Load \/ SaveCopy \/ SaveImage \/ SaveAttachments \/ DragAttachment \/ Quit
  \/ \E which \in {"attachment", "image"} : OpenExtra(which)

FilesSpec == FilesInit /\ [][FilesNext]_fileVars

-----------------------------------------------------------------------------
(* Properties.                                                             *)

FilesTypeOK ==
  /\ program \in {"evince", "thumbnailer"} /\ original \in Source
  /\ files \subseteq {"comp", "comics", "attachment", "image", "dragged", "upload",
                       "saveacopy", "document"} \X (1 .. made)
  /\ load.at \in {AtRest, "type", "open", "end", "password", "again", "repeated"}
  /\ load.error \in {"none", "io", "invalid", "encrypted"}
  /\ save.at \in {AtRest, "temp", "compress", "transfer"}
  /\ save.told \in {"nothing", "finished", "failed"}
  /\ {tmpdir, over, mishap} \subseteq BOOLEAN

\* What the factory says of itself (ev-document-factory.c:277-281): it gives a document
\* that was loaded and no error, or no document and an error, or a document that is
\* encrypted with the error that says so and no other; whatever the first attempt, a
\* broken decompression or a back end that forgets its error has left behind.  A load
\* that is repeated keeps its document, which is usable when there is no error.
FactoryKeepsItsWord ==
  /\ load.at = "end" =>
       \/ load.doc = NoDoc /\ load.error \notin {"none", "encrypted"}
       \/ load.doc # NoDoc /\ load.doc.ready /\ load.error = "none"
       \/ load.doc # NoDoc /\ ~load.doc.ready /\ load.error = "encrypted"
  /\ load.at = "repeated" =>
       load.doc # NoDoc /\ (load.doc.ready <=> load.error = "none")

\* A document that was compressed is compressed again for its copy, or its save says
\* why not.  (It is not so for xz, nor for a name that hides the compression.)
CompressedAgain ==
  [][save.at = "compress" /\ save'.at = AtRest => save'.told # "nothing"]_fileVars

\* A temporary file exists while somebody needs it, whoever else is done with it; it
\* is gone when nobody does, and the directory with the last one when the process
\* ends, unless one of the calls that leave files behind (they set mishap) did so.
TemporaryFilesHaveOwners ==
  /\ Owned \subseteq files
  /\ ~mishap => Stray = {} /\ (over => files = {} /\ ~tmpdir)
=============================================================================
