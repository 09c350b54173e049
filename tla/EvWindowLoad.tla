----------------------------- MODULE EvWindowLoad -----------------------------
(***************************************************************************)
(* How a window comes to its document: shell/ev-window.c (open, load,      *)
(* reload, the copy of a remote file, the password), ev-file-monitor.c and *)
(* ev-password-view.c.                                                     *)
(*                                                                         *)
(* The load job and the reload jobs have the same priority, so that the    *)
(* worker runs them, and the main loop hears of them, in the order they    *)
(* were pushed.  A job that is cancelled and disconnected tells nothing    *)
(* any more and leaves loadQueue.  The application opens one file only in  *)
(* its windows, and a version of a file stands for its content and for its *)
(* modification time.                                                      *)
(***************************************************************************)
EXTENDS Integers, Sequences, SequencesExt

CONSTANTS
  LoadVersions, \* bound: versions of the file
  LoadCalls     \* bound: calls of the user and of the application, and of one more for a
                \* file with a password

ASSUME LoadAssumption == LoadVersions \in Nat \ {0} /\ LoadCalls \in Nat

VARIABLES
  loadFile,  \* the file, and the keyring
  loadWin,   \* ev_window->priv
  loadQueue, \* the connected jobs that were pushed, the load job and the reload jobs
  loadOps    \* the calls of GIO under way, by kind

loadVars == <<loadFile, loadWin, loadQueue, loadOps>>

Nowhere == 0   \* no destination
NoCopy == -1   \* local_uri is NULL; an empty temporary file is version 0
OpKinds == {"copy", "mount", "mtime", "query", "recopy"}
Passwords == {"none", "right", "stale", "typed"}
NoLoadJob == [has |-> FALSE, password |-> "none", from |-> "file", result |-> "ok", doc |-> 0]

Loader == [f |-> loadFile, w |-> loadWin, q |-> loadQueue, o |-> loadOps]
LoaderIs(s) == loadFile' = s.f /\ loadWin' = s.w /\ loadQueue' = s.q /\ loadOps' = s.o

\* ev_job_scheduler_push_job for the load job
PushLoad(s) ==
  [s EXCEPT !.q = Append(@, [kind |-> "load", ran |-> FALSE, mine |-> TRUE,
                             from |-> s.w.load.from, result |-> "ok", doc |-> 0])]

\* The queue without the jobs at some places of it.
Without(q, gone) ==
  LET kept[i \in 0 .. Len(q)] ==
        IF i = 0 THEN <<>> ELSE IF i \in gone THEN kept[i - 1] ELSE Append(kept[i - 1], q[i])
  IN kept[Len(q)]

\* ev_window_clear_load_job, ev_window_clear_local_uri
ClearLoad(s) ==
  [s EXCEPT !.w.load = NoLoadJob,
            !.q = Without(s.q, {i \in DOMAIN s.q : s.q[i].kind = "load"})]
ClearCopy(s) == [s EXCEPT !.w.copy = NoCopy]

\* Mutant: the handler of the job that is replaced stays connected.
ReloadKept(s) == s

\* ev_window_clear_reload_job: that of priv->reload_job, not of an earlier one
ClearReload(s) ==
  [s EXCEPT !.q = Without(s.q, {i \in DOMAIN s.q : s.q[i].kind = "reload" /\ s.q[i].mine})]

\* ev_window_handle_link and g_clear_object
FollowDest(s) ==
  IF s.w.dest = Nowhere THEN s
  ELSE [s EXCEPT !.w.seen = s.w.dest, !.w.dest = Nowhere]

\* The document of the model changes: ev_window_set_document
ShowDocument(s, doc) ==
  [s EXCEPT !.w.doc = doc, !.w.area = "none", !.w.setup = TRUE]

\* ev_window_error_message
ErrorMessage(s) == IF s.w.area # "none" THEN s ELSE [s EXCEPT !.w.area = "message"]

\* ev_window_reload_local: the job before is neither cancelled nor disconnected.
\* Without a copy the remote file itself is given to the back end, which cannot
\* read it.
ReloadLocal(s) ==
  LET from == IF s.w.copy # NoCopy THEN "copy"
              ELSE IF s.w.uri /\ ~s.f.remote THEN "file" ELSE "nothing"
      older == [i \in DOMAIN s.q |-> IF s.q[i].kind = "reload"
                                       THEN [s.q[i] EXCEPT !.mine = FALSE] ELSE s.q[i]]
  IN [s EXCEPT !.q = Append(older, [kind |-> "reload", ran |-> FALSE, mine |-> TRUE,
                                    from |-> from, result |-> "ok", doc |-> 0])]

\* ev_window_reload_document
ReloadDocument(s, dest) ==
  LET c == [ClearReload(s) EXCEPT !.w.dest = dest]
  IN IF c.w.copy # NoCopy THEN [c EXCEPT !.o["query"] = @ + 1] ELSE ReloadLocal(c)

\* ev_window_load_file_remote: the cancellable is reset, for whatever uses it.
LoadRemote(s) ==
  LET c == IF s.w.copy # NoCopy THEN s
           ELSE [s EXCEPT !.w.copy = 0, !.w.load.from = "copy"]
  IN [c EXCEPT !.w.cancelled = FALSE, !.o["copy"] = @ + 1, !.w.progress = TRUE]

\* ev_window_load_remote_failed: the job is not cleared, nor the copy unlinked.
LoadRemoteFailed(s) ==
  ErrorMessage([ClearCopy(s) EXCEPT !.w.loading = "hidden", !.w.mtime = 0])

\* ev_file_monitor_new; the monitor of a remote file tells nothing.
NewMonitor(s) ==
  [s EXCEPT !.w.monitor = TRUE, !.w.events = <<>>, !.w.timer = FALSE,
            !.w.missed = s.f.version # s.w.doc /\ ~s.f.writing]

-----------------------------------------------------------------------------
(* The user and the application.                                           *)

MayLoad ==
  ~loadWin.aborted /\ loadWin.calls < IF loadFile.secret THEN LoadCalls + 1 ELSE LoadCalls
LoadCall == [Loader EXCEPT !.w.calls = @ + 1]

\* ev_window_open_uri.  A window that has the file reloads it, even while it loads.
OpenUri(there) ==
  /\ MayLoad
  /\ LET dest == IF there THEN loadWin.calls + 1 ELSE Nowhere
         c == [ClearCopy(ClearLoad(LoadCall)) EXCEPT
                 !.w.monitor = FALSE, !.w.events = <<>>, !.w.timer = FALSE,
                 !.w.uri = TRUE, !.w.dest = dest, !.w.load = [NoLoadJob EXCEPT !.has = TRUE]]
     IN LoaderIs(IF loadWin.uri THEN ReloadDocument(LoadCall, dest)
                 ELSE IF loadFile.remote THEN LoadRemote(c)
                 ELSE PushLoad([c EXCEPT !.w.loading =
                                  IF @ = "shown" THEN "shown" ELSE "timer"]))

\* ev_window_cmd_view_reload, for a document that is shown
UserReload ==
  MayLoad /\ loadWin.doc # 0 /\ LoaderIs(ReloadDocument(LoadCall, Nowhere))

\* ev_window_progress_response_cb, ev_window_message_area_response_cb
CancelProgress ==
  /\ MayLoad /\ loadWin.area = "progress"
  /\ LoaderIs([LoadCall EXCEPT !.w.cancelled = TRUE, !.w.area = "none"])
CloseMessage ==
  MayLoad /\ loadWin.area # "none" /\ LoaderIs([LoadCall EXCEPT !.w.area = "none"])

\* ev_password_view_ask_password
AskPassword(s) == [s EXCEPT !.w.dialogs = @ + 1, !.w.sensitive = FALSE]
UnlockClicked ==
  /\ MayLoad /\ loadWin.mode = "password" /\ loadWin.sensitive
  /\ LoaderIs(AskPassword(LoadCall))

\* ev_password_dialog_got_response and ev_window_password_view_unlock, which
\* asserts that there is a load job
PasswordGiven(password, keep) ==
  /\ MayLoad /\ loadWin.dialogs > 0
  /\ LET c == [LoadCall EXCEPT !.w.dialogs = @ - 1, !.w.sensitive = TRUE, !.w.keep = keep]
     IN LoaderIs(IF ~c.w.load.has THEN [c EXCEPT !.w.aborted = TRUE]
                 ELSE PushLoad([c EXCEPT !.w.load.password = password]))
PasswordRefused ==
  /\ MayLoad /\ loadWin.dialogs > 0
  /\ LoaderIs([LoadCall EXCEPT !.w.dialogs = @ - 1, !.w.sensitive = TRUE])

-----------------------------------------------------------------------------
(* The worker.                                                             *)

\* What a job reads: a file that is being written is not a document yet.
Read(s, j) ==
  LET doc == IF j.from = "copy" THEN s.w.copy ELSE s.f.version
      password == IF j.kind = "load" THEN s.w.load.password ELSE "none"
  IN [doc |-> doc,
      result |-> IF j.from = "nothing" \/ doc <= 0 \/ (j.from = "file" /\ s.f.writing)
                   THEN "failed"
                 ELSE IF s.f.secret /\ password # "right" THEN "encrypted" ELSE "ok"]

\* ev_job_load_run.  The load job has one result, the last one, when it is pushed
\* twice.
RunLoad ==
  /\ ~loadWin.aborted
  /\ \E i \in DOMAIN loadQueue :
       /\ ~loadQueue[i].ran /\ \A k \in 1 .. (i - 1) : loadQueue[k].ran
       /\ LET got == Read(Loader, loadQueue[i])
              ran == [Loader EXCEPT !.q[i].ran = TRUE, !.q[i].doc = got.doc,
                                    !.q[i].result = got.result]
          IN LoaderIs(IF loadQueue[i].kind = "reload" THEN ran
                      ELSE [ran EXCEPT !.w.load.doc = got.doc, !.w.load.result = got.result])

-----------------------------------------------------------------------------
(* The main loop.                                                          *)

\* The job at the head of the queue has finished.
Finished(kind) ==
  ~loadWin.aborted /\ loadQueue # <<>> /\ loadQueue[1].ran /\ loadQueue[1].kind = kind
HeadGone == [Loader EXCEPT !.q = Tail(@), !.w.loading = "hidden"]

\* ev_window_load_job_cb for a document.  The password kept is the one the job has
\* now.
LoadSucceeded ==
  /\ Finished("load") /\ loadWin.load.result = "ok"
  /\ LET c == FollowDest(ShowDocument(HeadGone, loadWin.load.doc))
         k == IF c.w.load.password # "none" /\ c.w.keep
                THEN [c EXCEPT !.f.keyring = c.w.load.password] ELSE c
     IN LoaderIs(ClearLoad(NewMonitor(k)))

\* Mutant: the password of the keyring is not compared with the one that failed.
KeyringAgain ==
  /\ Finished("load") /\ loadWin.load.result = "encrypted"
  /\ LET known == loadFile.keyring
     IN LoaderIs(
          IF known # "none"
            THEN PushLoad([HeadGone EXCEPT !.w.load.password = known])
          ELSE AskPassword([HeadGone EXCEPT !.w.load.password = "none",
                                            !.w.mode = "password"]))

\* ev_window_load_job_cb for an encrypted document: the password of the keyring,
\* unless it is the one that failed, or the question
LoadEncrypted ==
  /\ Finished("load") /\ loadWin.load.result = "encrypted"
  /\ LET known == loadFile.keyring
     IN LoaderIs(
          IF known # "none" /\ known # loadWin.load.password
            THEN PushLoad([HeadGone EXCEPT !.w.load.password = known])
          ELSE AskPassword([HeadGone EXCEPT !.w.load.password = "none",
                                            !.w.mode = "password"]))

\* ev_window_load_job_cb for any other error
LoadFailed ==
  /\ Finished("load") /\ loadWin.load.result = "failed"
  /\ LoaderIs(ClearLoad(ErrorMessage(HeadGone)))

\* ev_window_reload_job_cb, which clears the job the window has now
ReloadFinished ==
  /\ Finished("reload")
  /\ LET j == Head(loadQueue)
         c == [Loader EXCEPT !.q = Tail(@)]
     IN LoaderIs(ClearReload(IF j.result # "ok" THEN [c EXCEPT !.w.dest = Nowhere]
                             ELSE FollowDest(ShowDocument(c, j.doc))))

\* ev_window_setup_document; the view of the page mode before goes.
SetupDocument ==
  /\ ~loadWin.aborted /\ loadWin.setup
  /\ LoaderIs([Loader EXCEPT !.w.setup = FALSE, !.w.mode = "document"])

\* show_loading_message_cb; show_loading_progress and show_reloading_progress
ShowLoading ==
  ~loadWin.aborted /\ loadWin.loading = "timer"
    /\ LoaderIs([Loader EXCEPT !.w.loading = "shown"])
ShowProgress ==
  /\ ~loadWin.aborted /\ loadWin.progress
  /\ LoaderIs([Loader EXCEPT !.w.progress = FALSE,
                             !.w.area = IF @ = "none" THEN "progress" ELSE @])

-----------------------------------------------------------------------------
(* The answers of GIO.  A copy that was cancelled may have been ready.     *)

Answered(kind) == [Loader EXCEPT !.o[kind] = @ - 1]
UnderWay(kind) == ~loadWin.aborted /\ loadOps[kind] > 0

\* window_open_file_copy_ready_cb
CopyReady(result) ==
  /\ UnderWay("copy")
  /\ result = "cancelled" => loadWin.cancelled
  /\ result = "unmounted" => ~loadFile.mounted
  /\ result = "ok" => loadFile.mounted
  /\ LET c == [Answered("copy") EXCEPT !.w.progress = FALSE, !.w.area = "none"]
     IN LoaderIs(CASE result = "ok" ->
                        [PushLoad(c) EXCEPT !.w.copy = loadFile.version, !.o["mtime"] = @ + 1]
                   [] result = "unmounted" -> [c EXCEPT !.o["mount"] = @ + 1]
                   [] result = "cancelled" ->
                        [ClearCopy(ClearLoad(c)) EXCEPT !.w.uri = FALSE, !.w.loading = "hidden"]
                   [] result = "failed" -> LoadRemoteFailed(c))

\* mount_volume_ready_cb
MountReady(ok) ==
  /\ UnderWay("mount")
  /\ LoaderIs(IF ok THEN LoadRemote([Answered("mount") EXCEPT !.f.mounted = TRUE])
              ELSE LoadRemoteFailed(Answered("mount")))

\* set_uri_mtime
MtimeReady(ok) ==
  /\ UnderWay("mtime")
  /\ LoaderIs([Answered("mtime") EXCEPT !.w.mtime = IF ok THEN loadFile.version ELSE 0])

\* query_remote_uri_mtime_cb: the time is remembered before the file is copied, and
\* nothing is copied, nor told, when the name of the copy is gone.
QueryReady(ok) ==
  /\ UnderWay("query")
  /\ LET c == [Answered("query") EXCEPT !.w.mtime = loadFile.version,
                                        !.w.cancelled = FALSE, !.w.progress = TRUE]
     IN LoaderIs(IF ~ok \/ loadWin.mtime = loadFile.version THEN ReloadLocal(Answered("query"))
                 ELSE IF loadWin.copy = NoCopy THEN c
                 ELSE [c EXCEPT !.o["recopy"] = @ + 1])

\* reload_remote_copy_ready_cb
ReloadCopyReady(result) ==
  /\ UnderWay("recopy")
  /\ result = "cancelled" => loadWin.cancelled
  /\ LET c == [Answered("recopy") EXCEPT !.w.progress = FALSE]
     IN LoaderIs(CASE result = "ok" ->
                        ReloadLocal([c EXCEPT !.w.copy = IF @ = NoCopy THEN NoCopy
                                                         ELSE loadFile.version])
                   [] result = "cancelled" -> c
                   [] result = "failed" -> ErrorMessage(c))

-----------------------------------------------------------------------------
(* The file, and its monitor.                                              *)

Tell(s, event) ==
  IF s.w.monitor /\ ~s.f.remote
    THEN [s EXCEPT !.w.events = Append(@, event), !.w.missed = FALSE] ELSE s

WriteFile ==
  /\ loadFile.version < LoadVersions /\ ~loadFile.writing /\ ~loadWin.aborted
  /\ LoaderIs(Tell([Loader EXCEPT !.f.version = @ + 1, !.f.writing = TRUE], "changed"))
CloseFile ==
  /\ loadFile.writing /\ ~loadWin.aborted
  /\ LoaderIs(Tell([Loader EXCEPT !.f.writing = FALSE], "done"))

\* ev_file_monitor_changed_cb, ev_file_monitor_timeout_start and _stop, and
\* ev_window_document_changed under the setting auto-reload
FileChanged ==
  /\ ~loadWin.aborted /\ loadWin.events # <<>>
  /\ LET c == [Loader EXCEPT !.w.events = Tail(@)]
     IN LoaderIs(IF Head(loadWin.events) = "changed" THEN [c EXCEPT !.w.timer = TRUE]
                 ELSE ReloadDocument([c EXCEPT !.w.timer = FALSE], Nowhere))

\* timeout_cb
MonitorTimeout ==
  /\ ~loadWin.aborted /\ loadWin.timer
  /\ LoaderIs(ReloadDocument([Loader EXCEPT !.w.timer = FALSE], Nowhere))

-----------------------------------------------------------------------------
LoadInit ==
  /\ loadFile \in [version : {1}, writing : {FALSE}, remote : BOOLEAN, mounted : BOOLEAN,
                   secret : BOOLEAN, keyring : {"none", "right", "stale"}]
  /\ loadFile.remote \/ loadFile.mounted
  /\ loadFile.secret \/ loadFile.keyring = "none"
  /\ loadWin = [uri |-> FALSE, doc |-> 0, mode |-> "document", setup |-> FALSE,
                dest |-> Nowhere, seen |-> Nowhere, load |-> NoLoadJob,
                copy |-> NoCopy, mtime |-> 0, area |-> "none", progress |-> FALSE,
                cancelled |-> FALSE, loading |-> "hidden",
                dialogs |-> 0, sensitive |-> TRUE, keep |-> FALSE,
                monitor |-> FALSE, events |-> <<>>, timer |-> FALSE, missed |-> FALSE,
                aborted |-> FALSE, calls |-> 0]
  /\ loadQueue = <<>>
  /\ loadOps = [kind \in OpKinds |-> 0]

CopyResults == {"ok", "failed", "cancelled"}

UserLoads ==
  \/ \E there \in BOOLEAN : OpenUri(there)
  \/ UserReload \/ CancelProgress \/ CloseMessage \/ UnlockClicked \/ PasswordRefused
  \/ \E password \in {"right", "typed"}, keep \in BOOLEAN : PasswordGiven(password, keep)

GioAnswers ==
  \/ \E result \in CopyResults \cup {"unmounted"} : CopyReady(result)
  \/ \E result \in CopyResults : ReloadCopyReady(result)
  \/ \E ok \in BOOLEAN : MountReady(ok) \/ MtimeReady(ok) \/ QueryReady(ok)

LoadWork ==
  \/ RunLoad \/ LoadSucceeded \/ LoadEncrypted \/ LoadFailed \/ ReloadFinished
  \/ SetupDocument \/ ShowLoading \/ ShowProgress \/ FileChanged \/ MonitorTimeout

LoadNext == UserLoads \/ GioAnswers \/ LoadWork \/ WriteFile \/ CloseFile

\* The worker and the main loop go on; the user, the file and GIO may not.
LoadFairness == WF_loadVars(LoadWork)
LoadSpec == LoadInit /\ [][LoadNext]_loadVars /\ LoadFairness

-----------------------------------------------------------------------------
(* Properties.                                                             *)

LoadTypeOK ==
  /\ loadFile \in [version : 1 .. LoadVersions, writing : BOOLEAN, remote : BOOLEAN,
                   mounted : BOOLEAN, secret : BOOLEAN, keyring : Passwords]
  /\ loadWin.doc \in 0 .. LoadVersions /\ loadWin.copy \in NoCopy .. LoadVersions
  /\ loadWin.mtime \in 0 .. LoadVersions
  /\ loadWin.calls \in 0 .. LoadCalls + 1 /\ loadWin.dialogs \in 0 .. LoadCalls
  /\ loadWin.dest \in 0 .. loadWin.calls /\ loadWin.seen \in 0 .. loadWin.calls
  /\ loadWin.mode \in {"document", "password"}
  /\ loadWin.area \in {"none", "message", "progress"}
  /\ loadWin.loading \in {"hidden", "timer", "shown"}
  /\ loadWin.load.password \in Passwords
  /\ loadOps \in [OpKinds -> Nat]
  /\ \A i \in DOMAIN loadQueue : loadQueue[i].kind \in {"load", "reload"}

LoadPending == \E i \in DOMAIN loadQueue : loadQueue[i].kind = "load"

\* However the reloads of the user, of the application, of the monitor and of GIO meet,
\* only the reload job that was pushed last can be the window's own.  A window with a
\* local file hears of no other: the job before was disconnected
\* (ev_window_clear_reload_job).  One with a remote file does (H20).
IsReload(i) == loadQueue[i].kind = "reload"
OneReloadJob ==
  /\ \A i, k \in DOMAIN loadQueue : IsReload(i) /\ IsReload(k) /\ i < k => ~loadQueue[i].mine
  /\ ~loadFile.remote =>
       \A i, k \in DOMAIN loadQueue : IsReload(i) /\ IsReload(k) => i = k /\ loadQueue[i].mine

\* The copy of a remote file is fetched once at a time, for a load job that the window
\* has and has not pushed, and before any password is asked for.
OneFetchAtATime ==
  loadOps["copy"] + loadOps["mount"] > 0 =>
    /\ loadOps["copy"] + loadOps["mount"] = 1
    /\ loadWin.load.has /\ ~LoadPending /\ loadWin.dialogs = 0

\* A destination is followed once, and never after one that was asked for later,
\* whichever of the load job and the reload jobs comes first.
DestinationsInOrder == loadWin.dest = Nowhere \/ loadWin.dest > loadWin.seen

\* A load job on its way to the window is one the window has: the window is never
\* told of a load it has given up.
LoadJobIsHeld == LoadPending => loadWin.load.has

WindowKeepsTrack == OneReloadJob /\ OneFetchAtATime /\ DestinationsInOrder /\ LoadJobIsHeld

\* ev_window_password_view_unlock asserts that there is a load job (ev-window.c:1574):
\* the user can only answer a question for a password that the window still needs.
UnlockFindsItsJob == ~loadWin.aborted

\* The document shown is the last version of a local file that needs no password,
\* once the monitor is there: unless the file is still being written, or has changed
\* between the load and the creation of the monitor and not since.
Outdated ==
  /\ loadWin.monitor /\ ~loadFile.remote /\ ~loadFile.secret /\ ~loadWin.missed
  /\ loadWin.doc # loadFile.version /\ ~loadFile.writing

\* A load comes to an end: to a document, to a message or to the question for the
\* password, not to the password of the keyring again and again; and a document that
\* is out of date is shown anew.  A program that has failed the assertion of
\* ev-window.c:1574 (UnlockFindsItsJob) is gone, and settles nothing.
LoadOutstanding == ~loadWin.aborted /\ (LoadPending \/ Outdated)
LoadsSettle == LoadOutstanding ~> ~LoadOutstanding
===============================================================================
