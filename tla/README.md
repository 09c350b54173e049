# A verification development of Evince

TLA+ models of the document viewer Evince (the tree at version 3.9.90), the
TLC configurations that check them and the proofs that TLAPS checks. The
models are translated from the C sources; file names below are relative to
`src/`.

* [The system](#the-system): components, state, interaction, what is hard
* [Modules](#modules): which module models what, and how
* [Runs](#runs): what TLC checks, the bounds, the fairness
* [Proofs](#proofs): what holds for every value of the constants
* [Findings](#findings): where code and documentation disagree
* [What is left out](#what-is-left-out) and [Plan](#plan)

## The system

A window (`shell/ev-window.c`) shows one document. Everything the user sees
runs in the main thread: GTK+ handlers, idle sources and timeouts. What takes
long (loading, rendering, thumbnails, links, saving, printing) is a *job*
(`libview/ev-jobs.c`), a GObject with the signals "finished" and "cancelled".
A client creates a job, connects to its signals and pushes it to the *scheduler*
(`libview/ev-job-scheduler.c`), which runs thread jobs one at a time on a worker
thread and main-loop jobs (text search, font scan) from an idle source. Back
ends are not re-entrant: two process-wide mutexes in `libdocument/ev-document.c`
guard them.

| Component | State | Operations | Talks to |
|---|---|---|---|
| Job scheduler | four priority queues, list of entries, `running_job` | push, update (change priority), cancelled handler, worker loop | jobs, clients |
| Jobs | `cancelled`, `finished`, `failed`, cancellable, idle source | run, succeeded, failed, cancel, emit | scheduler, documents |
| Document locks | `ev_doc_mutex`, `ev_fc_mutex` | lock, trylock, unlock | jobs, handlers of view, window, sidebars, printing |
| Text search | find job, sidebar rows, view's find result | search, next, previous, select a row, clear | scheduler, document model |
| History | list of links, current, freeze count | add, go back, forward, to a link, freeze, thaw | document model, view, find bar |
| Rendering cache | jobs and surfaces for three ranges of pages | set range, reload, clear, colours | scheduler (with `update_job`) |
| Page data cache | data, flags, job of each page | set range, set flags, mark dirty | scheduler |
| Window: loading | load, reload, save jobs, remote copy, password | open, reload, password, close | scheduler, file monitor, model |
| File monitor | timer | changed, hint, timeout | window |
| Window: modes | fullscreen, presentation, bars, metadata | run, stop, toggle, window manager's events | model, next window |
| Document model | document, page, scale, layout | setters that notify | everybody |
| View: scrolling | layout, adjustments, way to scroll next | scroll, resize, zoom, change page | model |
| View: caret | place of the caret, selection | move by character, word, line, page; click | page data cache, model |
| Forms and annotations | widgets, popups, what was written, save jobs | edit, save, reload, close | back end, jobs |
| Presentation | three rendering jobs, transition, timeline | next, previous, jump | scheduler |
| Links | destinations in files, outline rows, what windows and processes were told | follow, open a copy, hand over, command line | view, history, windows, processes |
| Printing | export operation, one job, per-window queue | begin, print page, end, cancel | scheduler (`running_job`) |
| Thumbnails | one job per page | range, reload | scheduler |
| Sidebar lists, bookmarks | one list and one job per document; bookmarks and their store | fill, follow the page, add, rename, delete | scheduler, metadata |
| Application, daemon | D-Bus registrations | register, unregister, find, reload | processes |

What makes it hard to test:

* *Two threads.* The worker destroys the entries of jobs while the main thread
  cancels and moves them; the flags of a job are bit-fields of one word that
  both threads write without a lock; a result travels to the main thread as an
  idle source that races the cancel.
* *Locks.* The document lock, then the font lock, on the worker; either of them
  in handlers of the main thread; trylocks in the main-loop jobs.
* *Order of callbacks.* The search job and the sidebar each have an idle source;
  the user acts in between. Signals re-enter their emitter: going back in the
  history follows a link, which adds to the history and changes the page, which
  adds to the history.
* *Stale state.* Menus, rows and pointers to jobs that outlive the document or
  the job they were made for.

`PROJECT.json` lists every hazard found, at its line, with the properties that
cover it or the reason why none does.

What makes a component correct, in a sentence each: the scheduler loses,
repeats and forgets no entry and serves the most urgent one; a job tells its
client the end of the run it is asked about and nothing once it is cancelled;
no thread waits for ever for a document; the sidebar lists all results in the
order of the document; the history behaves like that of a browser; caches show
the last version of a page; a window shows the document it was last asked for.

## Modules

### `EvJobScheduler`, `JobPool` and `EvJobSchedulerProofs`

`EvJobScheduler` models `libview/ev-job-scheduler.c` for jobs of run mode
`THREAD`. An *entry* (`EvSchedulerJob`) is a number, given out by each push in
turn; the same job may be pushed again.

| Variable | Code |
|---|---|
| `job_queue`, `job_list` | the four `GQueue`s; the `GSList`, newest first, hence a set of numbers |
| `jobOf`, `priority`, `freed` | the fields of an entry, and whether it was released |
| `handlers` | entries whose handler is connected to the cancellable |
| `cancelled`, `running_job` | `g_cancellable_is_cancelled`; the atomic pointer |
| `wpc`, `wentry` | the place of the worker in `ev_job_thread_proxy`, its local `job` |
| `mpc`, `mjob`, `mentry`, `mprio` | the place of the main thread in a call of more than one step, and its locals |
| `asked` | history: the priority last asked for |

A critical section (`job_queue_mutex`, `job_list`) is one step; between two of
them the other thread may move. `Push` is one step because no other thread knows
the entry before it is queued. `UpdateFind`/`UpdateMove` are the two sections of
`ev_job_scheduler_update_job`; `Cancel`/`EmitNext`/`ThreadJobCancelled` are
`ev_job_cancel` as far as the scheduler is concerned, the emission reaching one
handler after the other. The worker's `ev_scheduler_job_destroy` takes three
steps. A condition wait may also return without a broadcast.

`JobPool` says what clients rely on: entries wait in a class, at most one runs,
the one that starts is from the most urgent class, what has been withdrawn or
has run does not run again. `PoolSpec` is the refinement, under the mapping
`Phase`, `Class` at the end of `EvJobScheduler`.

### `EvJob` and `JobsProofs`

One thread job: `bits` is the word of the three flags. A store to a flag by
either thread is a read of the word and a write of it; the worker's stores are
`ReadWord`/`WriteWord` at `tpc` "clear", "mark", "finish", the main thread's is
`CancelRead`/`CancelWrite`. As in the code, `ev_job_cancel` returns early on the racy
bit only: a bit that was lost lets the next call emit "cancelled" again. `Run` is the class's run function with one of three
ends. The last two steps of `ev_job_emit_finished` are `AddIdle` and `Assign`,
between which the main loop may dispatch the source. `told` is the history of
the signals emitted.

### `DocumentLocks` and `JobsProofs`

The two mutexes, the worker with the locks each class of job takes, the handlers
of the main thread that lock one of them, and the two main-loop jobs with their
idle source and their entry in the scheduler. `ReloadUnderDialog` says whether a
load, the only job that takes the font lock alone, may run while the font page of
the properties dialog scans the document.

### `DocumentFiles` and `JobsProofs`

How a document is made from a file: `ev_document_factory_get_document` with its
two attempts (the type by the name, then by the first bytes), decompression, the
comics back end with its programs and directory. Every step of a load is a step of
the worker, because the main thread may quit in between. Around it is everybody
who makes temporary files: the load and the save job, attachments, images, uploads,
the thumbnailer. A file is its kind and the number of its making; `Owned` are the
files somebody still has, `Stray` those that nobody will remove. `mishap` records
that one of the calls that leave files behind has failed.

### `FindSearch`

The job with its results for each page, the sidebar with its list and cursor,
the view with its page and result, the window that starts searches. Every step
is one callback of the main thread. The rows are pairs of page and result; text
and markup are left out, and every result is taken to have a row (the code gives
up on a page whose text does not contain the match).

### `EvPointer` (theorems in `ViewingProofs`)

What the hand does in the view: press, move and release with one to three clicks,
Ctrl, Escape, drag and drop, select all. The document is a strip of rows, each
with what is there (text, a link, an image, a note, a form field or nothing), of
which the view shows some from `scroll` on; the pointer may leave the view. `act`
is what the view believes it is doing (button, cursor, autoscroll with its timer,
the note to be added), `drag` is `drag_info` with its momentum, `sel` the selection
with its idle source, `outside` what the window, the sidebar and the owner of
PRIMARY know. `hand` is what the user really does; `hasty` remembers that an
autoscroll was begun in the middle of a drag, after which the release is not heard.

### `EvAnnotations` (theorems in `AnnotationsProofs`)

The annotations of the document three times: `poppler` (what the back end has),
`annots` with `listed` (the objects, and for each page the list that the first
request makes) and `popups` (the windows, which are found again by page and name).
`desk` is the view (scroll, scale, range, pages with their mapping, focus) with the
menu and the dialog of the window. Drawing a page makes and moves its windows; a
change of the range hides those of the pages it leaves; typing, dragging a popup,
the dialog, creation, removal and a reload each go through the calls of the code,
which are operators on the record of all four (`Shape`).

### `EvHistory`, `BrowserHistory` (theorems in `WindowProofs`)

The history is a record, and the functions of `shell/ev-history.c` are operators
on it, because one call of the user passes through them several times: an action
composes them in the order of the signals. `Activate`, for example, is: freeze,
the view follows the link (with the history's handler of the page change
blocked), thaw, "changed". Links keep the number of the document that they were
made for, so that a link that outlives it can be told. `crashed` records that
`ev_history_get_forward_list` was called without a current entry.

`BrowserHistory` is past, here and future, with at most `MaxLength` places;
`BrowsesLikeTheWeb` maps the list around `current` to them.

### `EvPixbufCache` (theorem in `EvPixbufCacheProofs`) and `EvPageCache` (in `ClientsProofs`)

`EvPixbufCache` is the cache of rendered pages with the handlers of the view that
drive it. `cache.slot` is one function from pages to slots for the three arrays
`prev_job`, `job_list`, `next_job`; a slot has the job, the surface with the
version, size and colours it was rendered with, and the selection. `render` has
the jobs alive, `queues` where they are (urgent, low, idle), `shown` what the
view wants. A change of the range moves slots, cancels what falls out and changes
priorities in one step, because it is one call of the main thread; the worker's
renderings and the idle sources come between the calls.

`EvPageCache` is the cache of the other data: `data` per page, the range and
flags in `wanted`, the jobs in `dataJob`, `dataQueue`. A page whose job finished
with fewer flags than are wanted now gets another job; a dirty page keeps its
data until the new ones are there; `contents` says what the document has.

### `EvViewPresentation` (theorem in `ClientsProofs`)

`slides` are the three jobs around the current page with the surfaces they
brought; `pview` has the state (normal, black, white, end), the animation with
its timeline, the timer of a page with a duration and the number that is typed;
`deck` the document model and what else the window keeps. Going to a neighbour
promotes the jobs; a jump makes new ones.

### `EvSidebarThumbnails` and `EvSidebars` (theorems in `ClientsProofs`)

`EvSidebarThumbnails`: the visible range, the rows with picture or job, the
document model whose notifications are heard at once, and a sidebar that is
mapped or not. `EvSidebars`: the lists that a job of the document fills (outline,
annotations, attachments, layers), the outline's row that follows the page, the
frame with its pages, and the bookmarks with the metadata they are stored in.

### `EvPrintOperation`

The export operation (begin, one page after the other from an idle source and a
job, collation and copies, end, the queue of the document) and the operation of a
document that prints itself, whose `draw-page` waits for its job with
`ev_job_scheduler_wait` in a nested main loop. `printWin` has the queue of the
window and the question asked before closing.

### `EvWindowLoad` and `ShellProofs`

A window opening its file: the load job, the password view and the keyring, a
location to be mounted, the copy of a remote file with its progress, the reload
jobs and the file monitor with its timer. `loadOps` are calls of GIO whose
answers come later, in any order. The file is written by others at any time.

### `EvDaemon` (theorem in `ShellProofs`)

The processes, the daemon that knows which of them has a document, and the
clients that ask for one. Every message of D-Bus is put in the inbox of its
receiver; processes crash, the daemon is killed and started again. Who waits for an
answer of somebody that ends gets one error for each of its calls (`Sent`,
`AnswerEach`), all alike, so that their order among each other does not matter.

### `EvEditing` (theorems in `WindowProofs`)

What is written into form fields, check buttons and a note: the widget or popup
that has the text, the back end that keeps it, the save jobs that write it, the
reload that drops it and the question before closing. History variables say
what was typed and what was saved last.

### `EvLinks`

A link from the file to where it leads: `DestFromPoppler` and `DjvuLinkDest` are what
the back ends make of it, `DestShown`, `DestPage` and `DestPageLabel` how the view, the
tip and the title of a history entry read it, `OptionFor` and `Carried` how it gets
into a command line and a message, `Main` and `UriRegistered` how it gets out. `procs`
are the processes, `owners` what the daemon knows, `wins` the windows with their page,
a destination that is pending (`dest`), the rows of their outline and the entry last
added to the history; `lastPage` is the page in the metadata. `meant` is the page that
the link was to lead to, worked out from the file and not from the destination
(`SourcePage`), `said` the label that the tip had. A link that goes where nothing was
promised makes `meant` unclaimed: a place within a page is not sent to other processes
(`shell/ev-application.c:258` has no case for it), "#+1" on the first page of a DjVu
document is taken for a label (`base_page > 0`, `backend/djvu/djvu-links.c:79`), and
"Open in New Window" for a link to another file opens this one
(`shell/ev-window.c:6717`).

### `EvViewScroll`, `EvCaret`, `EvWindowModes`

`EvViewScroll`: the layout of pages of different sizes in the four modes (one
or two columns, continuous or not), the request for a new layout that is met
later, `pending_scroll`, the current page found from what is visible.

`EvCaret`: the movements by character, word, line, page, to the ends, with
extension of the selection, in pages whose text arrives later. A page is a
sequence of characters of four kinds, the geometry is that of a grid.

`EvWindowModes`: the window as one record, the functions of the code as operators
on it; the window manager answers requests later, in their order; the toolbar
over a fullscreen page is hidden by a timer; `meta` is what the next window of the
document reads.

### `MCJobs`, `MCMainLoop`, `MCNavigation`, `MCClients`, `MCShell`

The modules above meet in the scheduler, the document and the page, which each of
them has for itself: what another one does to it is a step of its environment. An
instance that ran two of them together would interleave steps that share nothing.
So each of the five MC modules chooses one part in the initial state and lets it
run, under one next-state relation that holds the others still.

## Runs

| Run | Bounds | Shows |
|---|---|---|
| `jobs` | 2 jobs, 2 priorities, 3 pushes; 3 runs of a job; 10 files, 2 sets of programs, 3 calls | no entry is lost, destroyed twice, run twice or forgotten; no lost wakeup; order within a class; implements `JobPool`; a settled cancel is silent, "finished" tells the flags of its own run, every run is told, and nothing too often; the factory answers with a document, an error or the question for a password, temporary files have owners |
| `scheduler_priority` | 3 priorities, 2 pushes | *violated*: a queued job is where it was last asked to be |
| `save_xz` | 10 files, 2 sets of programs, 2 calls | *violated*: a document that was compressed is compressed again |
| `job_cancel` | 1 run | *violated*: no "finished" after a cancel |
| `main_loop` | 3 worker jobs, 2 steps per main-loop job; 3 pages, 2 results, 2 searches, rate 4; a strip of 7 rows, 4 in view, 5 calls | no lock kept over the main loop, no deadlock, main-loop jobs end, entries have their source; order of the list of results, completeness, page of the view; what is selected, what the cursor says; searches, timers and idle sources end |
| `locks_reload` | 1 worker job | *violated*: no lock kept over the main loop, with a load during a font scan |
| `find_sidebar` | 3 pages, rate 3 | *violated*: completeness when pages equal the rate |
| `navigation` | see `MCNavigation.cfg`; for the notes 3 annotations, 3 calls | history, view, caret, modes; notes are kept, popups follow them |
| `history_action` | 3 pages, limit 3, 1 document | *violated*: the action follows the freeze |
| `clients` | see `MCClients.cfg` | rendering and data caches, presentation, thumbnails, sidebar lists, printing |
| `shell` | see `MCShell.cfg` | loading, processes and daemon, editing and saving, links between pages, windows and processes |
| `unlock` | 1 version of the file, 3 calls | *violated*: an answer to the question for a password finds the load job |

Why the bounds are enough. *Scheduler:* two entries may meet in a queue while
the third is in the worker's hands; a job has two entries at a time; two
priorities give every move. That a job is moved twice to a third priority is the
run that is violated. *Job:* the third run follows both a failed and a
successful one. *Locks:* three jobs let each order of the two locks occur
against a main thread that is in the middle of each handler. *Files:* with three
calls a document is loaded, saved and replaced, or quit, while the worker is in any
of its steps. *Find:* a search
from the middle page wraps, with pages before and after the start; the second
search meets what the first has left. The rate stands for
`FIND_PAGE_RATE_REFRESH` (100): what counts is whether there are fewer, as many
or more pages; the results are all, none, or before, on or after the start.
*Pointer:* five events are a double click and a stroke, or a stroke, a drag and its
release; the places are above the view, in it and below it, so that a stroke scrolls
either way; only the rows of one continuous column count, unrotated. *Notes:* an
open note, a highlight without an author and an annotation that is not supported on
one page, two pages without; three events are enough to open, write and reload, or to
create, move and scroll away; the places are even, so that both scales convert them
exactly. *History:* the limit stands for `EV_HISTORY_MAX_LENGTH` (32); four
pages are needed because a page change to a neighbour adds nothing. *Rendering
cache:* with three pages one can be visible, one preloaded on either side, and a
jump or a smaller `max_size` drops one; two versions, a rotation and one
selection give each reason to render again; three calls let the second meet the
first one's jobs and the third the second one's. *Page data:* three kinds, so
that a job can have too few. *Presentation:* four pages, so that a jump has a
page that no job was made for. *Thumbnails:* twice as many pages as rows.
*Sidebar lists:* a full and a bare version in either order. *Printing:* two
operations, so that one waits, is promoted or is cancelled before its turn.
*Loading:* the third call meets the answers of the first two. *Processes:* two
processes and one document are what the daemon must arbitrate; two clients may
wait for the same one. *Links:* two files of three pages, with labels that differ from the numbers and in
case only; three calls are a start, a link and what follows it, and one message under
way when the user acts. *Editing:* four calls are write, save, write again and
close. *View:* two documents, of equal and of unequal pages, and two sizes of
the view, of which one shows a page and the other several. *Caret:* three pages,
the middle one empty, one or two calls from every place of the text. *Modes:*
three calls with all answers of the window manager in between.

Fairness is only what the platform gives: a thread that can move does; a call of
the main thread returns; a thread waiting for a mutex that is free again and
again gets it (strong fairness in `DocumentLocks`); the main loop dispatches the
idle sources, timeouts and messages it has; GIO answers a call once; D-Bus keeps
the order of the messages of a connection. What the user does is not promised,
hence `navigation`, where everything is up to the user, has none.
`CHECK_DEADLOCK FALSE` is stated where the system may stop: all pushes or calls
are used up, or the program has crashed (`history_action`, `unlock`). `main_loop`, where
threads could wait for each other, does check for deadlock.

Every property of a passing run is matched in `PROJECT.json` with a mutant: a
definition of the model is replaced by one with a plausible bug, with a comment
`Mutant:` just before it, and TLC finds the property violated.

### The properties

*Scheduler.* `OneOwner` (a live entry is queued or held by the worker, never
both, never neither), `QueuedOnce`, `ListedWhileLive`, `SleepsOnlyWhenIdle`,
`FirstComeFirstServed`, `PoolSpec`.

*Job.* `SignalsTellTheTruth` is `CancelledStaysSilent`, what does hold of a
cancel although a bit may be lost: once the worker has seen the cancellable; and
`FinishedTellsTheRun`: a client that reads the flags in its handler reads the end
of that run. `SignalsAreFew`: never two "finished" for one push; "cancelled" once, and
once more for each store of the worker that undoes the bit before the next
`ev_job_cancel`, which makes three at the most (TLC reaches three). `JobsProgress` is
`EveryEntryReleased` of the scheduler and `EveryRunTold` of a job.

*Files.* `FactoryKeepsItsWord`: a loaded document and no error, no document and an
error, or a document that is not ready and the "encrypted" error, that one only; a load
repeated with a password has a document, which is ready exactly if there is no error.
`TemporaryFilesHaveOwners`: a file exists while somebody needs it and, unless a call that
leaves files behind has failed, no longer. `CompressedAgain` is the violated one.

*Locks.* `MainLoopNotBlocked`, `EntryHasSource`, and `EverybodyGetsOn`
(`NobodyWaitsForEver`, `MainJobsEnd`) in `MainLoopSettles`. Worker jobs are bounded, so
the last one speaks of a load that ends; with a never-ending one a main-loop job needs
the lock to be free when its source is dispatched, which strong fairness would beg.

*Search and pointer.* `SearchShowsResults` (`RowsInDocumentOrder`,
`SidebarListsAllResults`, `ViewAtFirstMatch`). `SelectionIsTheStroke`: what is selected is
the text from where the button went down to where the pointer is, and everybody who was
told of it knows the same; `PointerTellsTheMode`: the cursor is that of what a click would
do, and no mode outlives its button. `MainLoopSettles`: besides the locks, a search ends,
and timers and idle sources end.

*Clients.* `SeenIsServedAndCurrent` is `ShownIsCurrent`: what is drawn is of the document, size, rotation,
colours and selection of now, except for a surface in doubt, that of a job that was
replaced by `ev_pixbuf_cache_reload_page` and finished all the same; and `VisibleIsServed`: what is seen has its picture or
a job on the way, and nothing else has a job. `NothingIsLost` is `DataKept`: no data
of a page and no bookmark is lost; and `PrintedAsAsked`: pages, copies and order are those asked for,
one operation of a document at a time. `ClientsProgress`: data arrive,
animations end, operations end.

*Shell.* `WindowKeepsTrack`: of the reload jobs under way only the last can be the
window's own, and a window with a local file has no other (one with a remote file may be
told of a reload it has replaced, `shell/ev-window.c:2248`); one copy at a time is fetched,
for a load job not yet pushed; a destination is followed once and never after a later one;
a load job on its way to the window is one that the window still has.
`UnlockFindsItsJob` is the violated one.
`DocumentsHaveOneOwner`: a process that believes its document registered is the one the
daemon knows, the daemon hears of an owner that has gone and is held once for every
document, and a document is handed over only to who has it. `EditsAreKept` is
`EditsReachDocument`: what was typed last into this document is in the document, or still in
the widget or the popup as it was typed; `ModifiedTellsTheTruth`: a document that is not as
it was loaded or last saved is marked, unless its saving is in doubt.
`LosesOnlyTheUncommitted`: a window that closes without the question takes nothing with it
that had reached the document. What the code does lose is not promised: text still in a
widget or popup when the window closes, because `ev_window_close` looks at the document
alone; all that was written since the last save when the file is reloaded; and what was
saved with a transfer that failed after the mark had been taken away (`SaveInDoubt`). `LinksLeadWhereTheySay`: a window that has followed a link shows the page
that the file says, which has the label that the tip has told, and the entry of the
history leads to the page in its title. `ShellProgress`: loads end, the document catches up with its file,
who asks for a document is answered; a program that has failed the assertion of `unlock` is
excepted.

*Navigation.* `HistoryIsSound` (`CurrentIsAnEntry`, `EntriesOfThisDocument`);
`ButtonsTellTheTruth`: as long as there is an entry, frozen or not, a button is sensitive
exactly if there is an entry in its direction; an empty list, which a new document leaves
behind while the find bar is open, says nothing, because it is cleared without a signal;
`StepsAreTheUsers` (`SearchingAddsNothing`, `ShowsTheEntry`, and
`EmptiedOnlyWhileSearching`, which says that no other way leads to the empty list);
`BrowsesLikeTheWeb`; `ViewShowsPage`: the page of the model is
in the view once the layout is made; `CaretMovesRight`: the caret is at a place in
the text, and where the movement says, against a definition over the whole text;
`WindowIsAsAsked` (`ModeIsOnTheScreen`, `BarsFitTheMode`,
`NextWindowIsLikeThis`). `NotesAndPopupsAgree`: `NotesAreKept` (what was written and
set is in the notes and in the document; lists are complete, names differ) and
`PopupsFollowTheirNotes` (a popup is where its note is, with its page, and carries its
author's name).

## Proofs

Eight modules prove theorems of fifteen components, each for every value of the
constants: any number of jobs, pushes, pages, documents, calls. What they assume is
the `ASSUME` of the component (`SchedulerAssumption`, `JobAssumption`,
`LocksAssumption`, `FilesAssumption`, `HistoryAssumption`, `EditAssumption`,
`ModesAssumption`, `DaemonAssumption`, `ThumbAssumption`, `SlideAssumption`,
`SideAssumption`, `CacheAssumption`, `NoteAssumption`; those of `EvPointer` and
`EvWindowLoad` are not needed), which says no more than that bounds are natural numbers,
that a few sets are what they are meant to be and, in `NoteAssumption`, that the file's
notes are of its pages and of known kinds and that there are at least three pages: the
model scrolls to three places, and with fewer pages one of them would be past the end,
where the view of the program never is. One theorem has a hypothesis of its own, see
`MainLoopNeverBlocked`.

| Module | Theorem | Says |
|---|---|---|
| `EvJobSchedulerProofs` | `TypeCorrect` | `[](TypeOK /\ HoldsEntry)` |
| | `OneOwnerAlways`, `QueuedOnceAlways` | `[]OneOwner`, `[]QueuedOnce` |
| | `NoLostWakeup` | `[]SleepsOnlyWhenIdle` |
| | `RunningJobAlwaysHeld` | `[]RunningJobIsHeld` |
| | `ListedWhileLiveAlways` | `[]ListedWhileLive` |
| | `FirstComeFirstServedAlways` | `[]FirstComeFirstServed` |
| | `SchedulerIsPool` | `PoolSpec`: the scheduler implements `JobPool` |
| `JobsProofs` | `JobTypeCorrect` | `[]JobTypeOK` |
| | `SignalsFewAlways` | `[]SignalsAreFew` |
| | `TruthfulSignals` | `SignalsTellTheTruth` |
| | `LocksTypeCorrect` | `[]LockTypeOK` |
| | `OwnersUnlockAlways` | `OwnersUnlock` |
| | `MainLoopNeverBlocked` | `[]MainLoopNotBlocked`, if `~ReloadUnderDialog` |
| | `EntriesHaveSources` | `[]EntryHasSource` |
| | `FilesTypeCorrect` | `[]FilesTypeOK` |
| | `FactoryTrue` | `[]FactoryKeepsItsWord` |
| | `FilesOwned` | `[]TemporaryFilesHaveOwners` |
| | `JobsTypeCorrect` | `[]JobsTypeOK`, for the scheduler, a job and the files in one behaviour (`MCJobs`) |
| `WindowProofs` | `HistoryTypeCorrect` | `[]TypeOK`, the history frozen once at the most between two calls |
| | `HistorySound`, `ButtonsTruthful` | `[]HistoryIsSound`, `[]ButtonsTellTheTruth` |
| | `StepsTruthful` | `StepsAreTheUsers` |
| | `HistoryBrowses` | `BrowsesLikeTheWeb`: the history implements `BrowserHistory` |
| | `WindowFollows` | `[]WindowIsAsAsked` |
| | `EditTypeCorrect` | `[]EditTypeOK` |
| | `EditsAlwaysKept`, `ClosingLosesLittle` | `[]EditsAreKept`, `LosesOnlyTheUncommitted` |
| `ViewingProofs` | `PointerTells` | `[]PointerTellsTheMode` |
| | `SelectionIsStroke` | `[]SelectionIsTheStroke` |
| `AnnotationsProofs` | `NotesTypeCorrect` | `[]NotesTypeOK` |
| | `NotesAlwaysAgree` | `[]NotesAndPopupsAgree` |
| `ClientsProofs` | `ThumbsAlwaysServed` | `[](ThumbsServed /\ ThumbsCurrent)` |
| | `SlidesAlwaysRight` | `[](SlideTypeOK /\ SlidesAroundPage /\ SlideColours)` |
| | `ListsAlwaysRight` | `[](ListsShowDocument /\ OutlineShowsPage)` |
| | `SeenAlwaysRight` | `[]SeenIsServedAndCurrent`, of these and the rendering cache |
| | `DataAlwaysComplete` | `[](PageTypeOK /\ DataComplete)` |
| | `BookmarksAlwaysKept` | `[]BookmarksKept` |
| | `DataAlwaysKept` | `[]DataKept`, the half of `NothingIsLost` that these two make |
| `EvPixbufCacheProofs` | `PixbufsAlwaysRight` | `[](CacheTypeOK /\ PixbufColours /\ PixbufServed /\ PixbufCurrent)` |
| `ShellProofs` | `WindowTracks` | `[]WindowKeepsTrack` |
| | `OneOwnerOfDocuments` | `[]DocumentsHaveOneOwner` |

**The scheduler.** `TypeOK` is not inductive: `ThreadJobCancelled` and `UpdateMove`
index the entry's fields with `mentry`, and the worker with `wentry`.
`HoldsEntry` says that these are entries whenever they are used. `OneOwner` and
`QueuedOnce` need each other: that an entry leaves a queue when its link is
deleted is true only if it has one link, and that a push or a move adds a second
link is excluded only if whoever is not queued is known. `Ownership` is both
together, with the fact that only pushed entries are freed. The lemmas on
sequences (`WithoutHolds`, `AppendHolds`, `TailHolds`) say which entries a queue
holds after `g_queue_delete_link`, `g_queue_push_tail` and `g_queue_pop_head`;
`Removal` and `Addition` lift them to the four queues, and then there is one lemma
for each action that touches the queues. `RunningJobIsHeld` and
`ListedWhileLive` follow by induction from `Ownership`: what the main thread
frees is never the worker's. `FirstComeFirstServed` needs `MovesAway`: between the
two sections of `ev_job_scheduler_update_job` nobody makes the entry's priority the
one it is moved to, unless the entry was freed. For the refinement, each step of the
scheduler is shown to leave one entry alone or to move one, and the mapped `Phase`
and `Class` to change for that entry as an action of `JobPool` does.

**A job.** Both threads write the same word, so what the word holds says little by
itself. `RunsInTurn` says that a run, the notice of it and an entry in the queue
exclude each other: so there is one store of the worker under way at the most, and it
is of the run told of next. `FewCancels` counts for `ev_job_cancel`: once the
cancellable is set the job is not run again, so each "cancelled" emitted, each call under
way, a bit that is missing and each store that the worker has still to make are together
three at the most. With `RunsInTurn`, `FlagsOfTheRun`: a store of the main thread may overwrite one of the worker, but it
leaves the cancelled bit behind, and a word that has this bit may say anything else.

**The locks.** `WorkerHolds` and `MainHolds` say for each place of a thread what it
holds; that decides `OwnersUnlock` for every step. `RunsActiveJob` ties a main loop job
that runs to its source. `MainLoopNeverBlocked` has the hypothesis that no load runs
under the font page of the properties dialog. It is necessary, see the finding about
`ev_job_fonts_run`; `OwnersUnlock` and `EntryHasSource` are proved without it.

**The files.** `FilesInvariant` adds to the property that no temporary file belongs to
two documents (`DocumentsApart`: that a file goes with one owner would leave another
without it), and what the load and save jobs have at each of their places (`LoadTurns`,
`SaveTurns`), which is what makes a return of the factory with a half-made document
impossible. Every step is put under one of three lemmas, by whether it makes a file,
gives one on or removes some.

**The history.** `Good` is about one history record and `ModelGood` about the document
model; each operator of `EvHistory` is shown to keep them (`GrownList` for the pruned
list), and then every action is one of `Rests`, `Adds`, `Moves` and `Renews`. From these
four follow the buttons, the steps and the refinement of `BrowserHistory`, where `Adds`
is a visit, `Moves` a step through past or future and `Renews` a new browser.

**Editing.** `EditInvariant` is about the whole desk: document, widget, popup, save jobs
and window, as a record, because one action passes it through several functions of the
code (`FocusGood`, `SyncGood`, `RemoveAllGood`: what each of them keeps). `Reaches` says
where the text is that the user typed: in the document, in a changed widget, or in a
popup that is connected to the annotation of this document. `Tells` says what the save
job knows at each of its places. When it has written, its contents are the document's,
unless a field was set since (`raced`). When it has reset the flag, the flag it
reset is remembered in the job, because a failed transfer has then to be doubted. The step
property follows from these: a closing that was not asked for is one of a document without
the mark. That a text is the number of its call, and so no two are equal by chance, is
what `NoteTypedGood` needs.

**The pointer.** That the cursor and the autoscroll tell what the pointer does depends on
what the user really holds. `DragIsHeld` ties the two: unless an autoscroll was begun
in the middle of a drag (`hasty`), the view believes in a drag only while a button is
held, so that the release that ends it is still to come. The selection is `StrokeKept`:
once the hand has moved, the list of selected pages is the one that the last update
computed, unless an update is still to come. That the list, which goes page by page, is
the text from one place to the other is a fact about rows and pages (`SelectionCovers`):
pages begin one after the other and between them are all rows (`PageOfRow`,
`PagesAreOrdered`, by induction from the least page that fails).

**The annotations.** `NotesInvariant` is about the record of document, objects, popups and
view (`Shape`) with the lists of the pages. The property says that a popup agrees with the
object it belongs to, and that follows only if nobody else takes it: the code finds a
popup again by the page and the name of its object. So `OwnersKnow` says that popup
and object know each other, `ObjectsStand` that no two objects stand for one annotation, and
`ListsHold` that each object is in the list of its page and has its number there for a name
(the first may be a note without one, which is why names differ all the same). `StoredIs`
says more of a text than the property: an object without a popup has the text of the
document too, and this is what the popup made for it later begins with.
`ListsComplete` holds as long as notes are removed or added one by one, and bounds the
annotations that are known by the length of the list (`KnownUpTo`). `TypedIs`, `PlacedIs` and
`SeenWithPage` are the rest of the property for each popup. Half way through a call the popup
that loses the keyboard has not been written yet (`GoodBut`); the popups of a page are made
one by one while it is drawn, by induction over its list. The model computes lists with
recursive functions; that they exist, and what they are at each step, follows from
`StepsExist` and `CountUp`, by the least number for which it fails. The invariant, the operators and
the calls that only move, hide and write popups are in `ViewingProofs`, those that make
popups, read, create, set and remove annotations in `AnnotationsProofs`.

**The window.** `Tracks` is about the whole window with its queue, its calls of GIO and
the file, as a record. `InTurn`, `OneReload` and `OneFetch` are the parts of the
property with what each needs: destinations are numbers of calls that were made; only the
last reload in the queue can be the window's own, and nothing is fetched for a local file;
and while a remote file is fetched, or its volume mounted,
no load job was pushed, no password is asked for, and the window has the file and the job
(`Calm`). Each operator of `EvWindowLoad` is shown to keep `Tracks`, or to change only
what the user sees (`Sees`, `Quiet`), and then each handler. Jobs leave the middle of
the queue when their handler is disconnected. `WithoutLeaves` says which ones stay, by
induction over the queue: `AllNaturals` gets induction from the least element of a set
of naturals (`Least`), the library's `WFMin` with its order written out.

**The daemon.** `Good` is about the whole session: processes, daemon and clients with
the messages that are on their way, as a record. That a process is the owner the daemon
knows depends on what was promised to it: `Promised` is a process that has heard, or will,
that its document is registered, and `Trusted` says the property of these. `Known`
says of an owner, in the table or in an answer, that it has been promised the document or
has gone; hence a "reload" reaches a process that has registered, because D-Bus keeps the
order (`ProcessSound`). `OwnsOnly` ties table and requests: all that concern a
process are of one document, so that to forget it once is enough. `Alive` says that the message
about an owner that has gone is still to come. Most steps are those of processes that go
on (`Grows`, `OneGrows`); those of the table are `RegistersTable` with `OwnedSane`, and
`ForgottenSane`. A registration and the answer to it are one step, between whose halves the
invariant does not hold.

**The modes of the window.** `ModesInvariant` is about the record of the window. `Shape`,
`InRange`, `Kept`, `OneMode` and `Fits` (together `Sound`) are what each function of
`shell/ev-window.c` must find and leave; on the way from one mode to another the bars do
not fit the mode yet, and `Between` is `Sound` without them. For each operator there is a
lemma that says which fields it changes (`Only`), and so what stays. The promise about the
screen needs two statements about what is on its way. `Screen`: the last event tells how
the screen is, and a window that disagrees with it has a request in the queue that
would change it. `Obeys`: while nobody was `hasty`, everything in both queues is what was
asked for last, and a window that is not in that mode was put there by the user's key and
has the event before it. `Applies` ties a step of the window to the request that it
sends, and `EventLeads` says what an event, of however long ago, makes of the window.

**The rendering cache.** `CacheGood` is about the record of cache, jobs, queues and view
that the functions of `libview/ev-pixbuf-cache.c` hand on. `PixbufCurrent` by itself says
nothing of a page with a job; `UpToDate` and `JobFits` say what that job has rendered or
will render, and `JobRight` and `QueuesRight` that a job that comes late is alive, is of the
page it says and has a version. A job belongs to one slot at the most, because it is of the
slot's page (`JobOfOne`): to cancel it harms no other. Between two functions of one call the
invariant does not hold. `GoodBut` leaves out the versions of pages that were changed and
have no new job yet, and of the others each function is shown to keep what was served and
what fits (`Keeps`, `Reselected`, `SlotServes`), while `ClearJobSizes` and
`AddJobsIfNeeded` make every page of the range served and fitting: `PushOrderIs` says that
the order in which jobs are pushed names every page of the range, and `FreeLess` counts
the jobs that can still be had.

**The clients.** What `MCClients` checks of the clients is proved of each by itself, and
`SeenAlwaysRight` puts them together: each keeps its invariant while another one runs.
For the thumbnails `ThumbGood` is about the record of sidebar and document model: a
row has a picture or a job exactly when it is in the range, both are of what the model
has now, and the range is what is seen unless a refresh is to come. For the
presentation `SlidesGood` says of the three jobs that they are of the page and its
neighbours (`JobsAround`), and that nothing is left of one that is over (`AtRestSlides`). For the lists of the sidebar there is one part for each (`LinksPart`,
`FilesPart`, `AnnotsPart`, `LayersPart`), because each has its own rule for what a job
that comes late still may write.

**The page data.** `DataFits` is about the record of cache, jobs and queue, the contents of
the document, and the pages that have changed and that the cache has not been told of.
`DataComplete` says nothing of a page with a job, and a page may have several: a job that was
replaced runs on, and its result is taken when it comes, because the handler does not ask
which job has ended. So each job that is alive is in one place (`Placed`), is of a page
and asks for no more than the page does, and what it brings replaces nothing that it does
not bring again (`WorkFits`). This needs an order: of two jobs of a page that have run, the later
one knows what the earlier one found (`OrderFits`), since signals come in the order in which the jobs
ran and a document only gains data. `PageFits` is what is wanted of the jobs: every kind
the document has for a page is there, or some job will bring it. The range is scheduled
page by page, by induction over the pages, and each of them finds a job to spare
(`Spare`). The bookmarks (`MarksRight`) keep each page once, through deletions that take the
first that is found.

TLC checked these inductive invariants on small instances before they were proved; for the
bookmarks, whose invariant is the property with its types, the property itself.

Only model-checked, because the prover does not reach it: liveness
(`JobsProgress`, `MainLoopSettles`, `ClientsProgress`, `ShellProgress`), and what the folds and `SelectSeq` of the libraries compute, which the
prover cannot expand (the functions of the models that had to be reasoned about are written
as recursive functions or with `RemoveAt`).
Only model-checked so far: the invariants and step properties of `FindSearch`,
`EvViewScroll`, `EvCaret`, printing and `EvLinks`,
and with them the invariants of the compositions that name them. (`PrintedInFull` says
what a recursive computation gives for the pages asked for.)

## Findings

Each is a run that TLC shows violated; `PROJECT.json` quotes the lines.

1. `ev_job_scheduler_update_job` does not write the entry's priority, so only
   the first move works as asked (`scheduler_priority`). For the same reason a
   cancel does not find a moved entry; the worker then skips it, which is why
   `EveryEntryReleased` still holds.
2. A lost update of the flags makes a cancelled job report "finished"
   (`job_cancel`).
3. `ev_job_fonts_run` keeps the document lock when the font lock is taken
   (`locks_reload`).
4. The sidebar misses results when the document has exactly as many pages as the
   refresh rate, or more (`find_sidebar`).
5. A copy of a document that was compressed with xz is not saved, and nobody is told
   (`save_xz`).
6. The history action stays insensitive after the find bar was closed and after
   going back to another page (`history_action`).
7. The Unlock button can be used again while the load job runs with the password just
   given; the second question outlives the job, and its answer fails the assertion of
   `ev_window_password_view_unlock` (`unlock`).

## What is left out

Drawing; selections in rotated pages or two columns; accessibility; dialogs
and the sensitivity of most actions; the automatic page layout, the horizontal
adjustment and the feedback between scroll bars and layout; the back ends and the
libraries they wrap, except what is named above; vendored code; formatting and translation. In the
modelled components: what may happen when the main thread reads an entry of the scheduler
that the worker has just freed (`libview/ev-job-scheduler.c:162`, `:297`: the models let it
find nothing), what a job computes from the document, loss of the D-Bus
connection, and a reload during a search. Cancelling all cairo operations when a
window closes (`ev_window_print_cancel`, `shell/ev-window.c:3318`) waits for the
queue to empty, which such an operation does later: that loop is not modelled.

## Plan

Done: every module of the list above; proofs of the scheduler, the jobs, the locks,
the files, the history, editing, the pointer, the annotations, the window that loads, its
modes, the daemon, the rendering cache, the data of the pages, the thumbnails, the
presentation, the sidebar and the bookmarks, the two refinements among them.

Next: proofs about the search, scrolling and the caret; the setters of the document model
with the widgets that show it.
