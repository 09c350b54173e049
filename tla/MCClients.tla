------------------------------ MODULE MCClients ------------------------------
(***************************************************************************)
(* The clients of the job scheduler, for TLC: the rendering cache, the     *)
(* page data cache, the presentation, the thumbnails, the lists of the     *)
(* sidebar and printing.                                                   *)
(*                                                                         *)
(* They share nothing but the scheduler and the document, which each of    *)
(* the modules models for itself, and none calls another.  An instance     *)
(* therefore chooses one of them (client) and lets it run, and the states  *)
(* of the instance are those of the six, one after the other.              *)
(***************************************************************************)
EXTENDS EvPixbufCache, EvPageCache, EvViewPresentation, EvSidebarThumbnails,
        EvSidebars, EvPrintOperation

VARIABLE client   \* the component that runs

clientVars == <<client, cacheVars, pageVars, slideVars, thumbVars, sideVars, printVars>>

ClientsInit ==
  /\ client \in {"pixbufs", "data", "slides", "thumbnails", "sidebars", "printing"}
  /\ CacheInit /\ PageInit /\ SlideInit /\ ThumbInit /\ SideInit /\ PrintInit
  /\ client # "sidebars" => \A v \in SideVersion : sideView.full[v]

ClientsNext ==
  /\ UNCHANGED client
  /\ \/ client = "pixbufs" /\ CacheNext
     \/ client # "pixbufs" /\ UNCHANGED cacheVars
  /\ \/ client = "data" /\ PageNext
     \/ client # "data" /\ UNCHANGED pageVars
  /\ \/ client = "slides" /\ SlideNext
     \/ client # "slides" /\ UNCHANGED slideVars
  /\ \/ client = "thumbnails" /\ ThumbNext
     \/ client # "thumbnails" /\ UNCHANGED thumbVars
  /\ \/ client = "sidebars" /\ SideNext
     \/ client # "sidebars" /\ UNCHANGED sideVars
  /\ \/ client = "printing" /\ PrintNext
     \/ client # "printing" /\ UNCHANGED printVars

\* What the clients do by themselves: the worker and the main loop do not stop.
ClientsSpec ==
  /\ ClientsInit /\ [][ClientsNext]_clientVars
  /\ PageFairness /\ SlideFairness /\ PrintFairness

ClientsTypeOK ==
  CASE client = "pixbufs" -> CacheTypeOK
    [] client = "data" -> PageTypeOK
    [] client = "slides" -> SlideTypeOK
    [] client = "thumbnails" -> ThumbTypeOK
    [] client = "sidebars" -> SideTypeOK
    [] client = "printing" -> PrintTypeOK

\* What is shown or drawn is of the document, the size, the rotation and the
\* selection of now, in the colours chosen, whatever was rendered before; and the
\* lists of the sidebar are those of the document, at the page shown.
ShownIsCurrent == /\ PixbufCurrent /\ ThumbsCurrent /\ PixbufColours /\ SlideColours
                  /\ ListsShowDocument /\ OutlineShowsPage

\* What the user sees has its picture or a job on the way to it, and nothing else
\* costs a job, however the pages are scrolled, jumped to, turned or hidden.
VisibleIsServed == PixbufServed /\ ThumbsServed /\ SlidesAroundPage

\* Both of what the user sees.
SeenIsServedAndCurrent == ShownIsCurrent /\ VisibleIsServed

\* Nothing that was asked for gets lost: data of a page, bookmarks.
DataKept == DataComplete /\ BookmarksKept

\* What is printed is what was asked for, one operation of a document after the
\* other, and no page is finished while the worker draws on it.
PrintedAsAsked == PrintedInFull /\ PrintExclusive

\* What was asked of a client is kept or done, whatever is cancelled around it.
NothingIsLost == DataKept /\ PrintedAsAsked

\* The data of the pages around the view arrives; an animation that was started
\* ends; and an operation that was accepted is printed or given up.
ClientsProgress == DataArrives /\ PresentationSettles /\ PrintEnds
===============================================================================
