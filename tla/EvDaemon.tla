------------------------------- MODULE EvDaemon -------------------------------
(***************************************************************************)
(* One process for a document: shell/ev-daemon.c, which knows the process  *)
(* that has a document, and shell/ev-application.c, the processes, which   *)
(* register the document they are given and hand it over when another      *)
(* process has it already.                                                 *)
(*                                                                         *)
(* D-Bus is external.  A message is put in the inbox of its receiver when  *)
(* it is sent, a call to a name that is gone is answered with an error,    *)
(* and a main loop takes its messages in their order.                      *)
(***************************************************************************)
EXTENDS Integers, Sequences, FiniteSets

CONSTANTS
  Instances,    \* bound: processes, the connections of which have distinct names
  Uris,
  Callers,      \* bound: calls of FindDocument, each by a client of its own
  DaemonFaults, \* bound: times the daemon is killed
  OpenCalls     \* bound: calls of the user and the clients, crashes and faults together

NoInstance == "no instance"

ASSUME DaemonAssumption ==
  /\ {NoInstance, "error"} \cap Instances = {} /\ IsFiniteSet(Instances)
  /\ DaemonFaults \in Nat /\ OpenCalls \in Nat

VARIABLES
  daemon,    \* EvDaemonApplication: docs, pending_invocations, use count, its messages
  instances, \* EvApplication of each process, its windows, its messages
  callers,   \* the clients that ask for a document: what they asked, whether they were answered
  desktop    \* the calls made, the faults that happened

daemonVars == <<daemon, instances, callers, desktop>>

NoDoc == [owner |-> NoInstance, subscribed |-> FALSE]
Process(at, uri, opens) ==
  [at |-> at, uri |-> uri, opens |-> opens, doc_registered |-> FALSE, windows |-> 0,
   loading |-> 0, shown |-> FALSE, holds |-> 0, served |-> FALSE, inbox |-> <<>>]
NoProcess == Process("absent", "none", 0)

Session == [d |-> daemon, i |-> instances, c |-> callers, t |-> desktop]
SessionIs(s) == daemon' = s.d /\ instances' = s.i /\ callers' = s.c /\ desktop' = s.t

Registered(d) == {uri \in Uris : d.docs[uri].owner # NoInstance}

-----------------------------------------------------------------------------
(* Messages.                                                               *)

ToDaemon(s, message) == [s EXCEPT !.d.inbox = Append(@, message)]
ToInstance(s, i, message) ==
  IF s.i[i].at \in {"up", "quitting"} THEN [s EXCEPT !.i[i].inbox = Append(@, message)]
  ELSE s

\* The messages of a kind in an inbox that someone has sent, each of which is answered
\* when its receiver goes.
Sent(inbox, kind, from) ==
  {k \in DOMAIN inbox : inbox[k].kind = kind /\ inbox[k].from = from}
AnswerEach(sent, message) == [k \in 1 .. Cardinality(sent) |-> message]

\* Mutant: the name of a process that has gone is not watched when it goes first.
NotWatched(s, i) == s

\* g_bus_watch_name_on_connection: a name without owner has vanished.
Watch(s, i) ==
  IF s.i[i].at = "gone" THEN ToDaemon(s, [kind |-> "vanished", from |-> i, uri |-> "none"]) ELSE s

\* A process that runs gets messages.
Receives(p, messages) ==
  IF p.at \in {"up", "quitting"} THEN [p EXCEPT !.inbox = @ \o messages] ELSE p

\* A process goes: its calls that wait get no answer, those it has not served get an
\* error, and the daemon hears of a name it watches.
Gone(s, i) ==
  LET gone == [s EXCEPT !.i[i] = Process("gone", "none", 0)]
      told == [gone EXCEPT !.i = [j \in Instances |->
                Receives(@[j], AnswerEach(Sent(s.i[i].inbox, "reload", j),
                                          [kind |-> "reloaded"]))]]
  IN IF \E uri \in Uris : s.d.docs[uri].owner = i THEN Watch(told, i) ELSE told

\* The application quits when it has no window and waits for nothing
\* (ev_application_shutdown, ev_application_unregister_uri).
Release(s, i) ==
  IF s.i[i].windows > 0 \/ s.i[i].holds > 0 THEN s
  ELSE IF s.i[i].doc_registered
    THEN ToDaemon([s EXCEPT !.i[i].at = "quitting"],
                  [kind |-> "unregister", from |-> i, uri |-> s.i[i].uri])
  ELSE Gone(s, i)

-----------------------------------------------------------------------------
(* A process: shell/ev-application.c.                                      *)

\* ev_application_open_uri_in_window, for every window there is: a window that has the
\* document reloads it (OpenUri of EvWindowLoad), which nobody else hears of.
OpenInWindows(s, i) == s

\* _ev_application_open_uri_at_dest: an empty window, or a new one
OpenAtDest(s, i) == [s EXCEPT !.i[i].windows = @ + 1, !.i[i].loading = @ + 1]

\* ev_application_register_uri; the document may be asked for again before the
\* first answer.
RegisterUri(s, i) ==
  IF s.i[i].doc_registered THEN OpenInWindows(s, i)
  ELSE ToDaemon([s EXCEPT !.i[i].holds = @ + 1],
                [kind |-> "register", from |-> i, uri |-> s.i[i].uri])

\* The user starts a process for a document, or the daemon does (spawn_evince).
Spawned(s, i, uri, opens) == [s EXCEPT !.i[i] = Process("starting", uri, opens)]

StartEvince(i, uri, opens) ==
  instances[i].at = "absent" /\ SessionIs(Spawned(Session, i, uri, opens))

\* ev_application_open_uri_list: the same document may be given twice.
Startup(i) ==
  /\ instances[i].at = "starting"
  /\ LET up == [Session EXCEPT !.i[i].at = "up", !.i[i].opens = 0]
         once == RegisterUri(up, i)
     IN SessionIs(IF instances[i].opens = 2 THEN RegisterUri(once, i) ELSE once)

MayOpen(i) == desktop.calls < OpenCalls /\ instances[i].at = "up"
Opened == [Session EXCEPT !.t.calls = @ + 1]

\* ev_application_open_uri_at_dest for the document the process has; another one is
\* given to a process of its own (ev_spawn), which is StartEvince again.
OpenAgain(i) ==
  MayOpen(i) /\ instances[i].windows > 0 /\ SessionIs(RegisterUri(Opened, i))

\* Mutant: a window that is closed goes on loading.
CloseWhileLoading(i) ==
  /\ MayOpen(i) /\ instances[i].windows > 0
  /\ SessionIs(Release([Opened EXCEPT !.i[i].windows = @ - 1], i))

\* ev_application_shutdown follows the last window; the load of a window ends with it.
CloseWindow(i) ==
  /\ MayOpen(i) /\ instances[i].windows > 0
  /\ \E loading \in {instances[i].loading, instances[i].loading - 1} :
       /\ loading \in 0 .. (instances[i].windows - 1)
       /\ SessionIs(Release([Opened EXCEPT !.i[i].windows = @ - 1,
                                           !.i[i].loading = loading], i))

Message(i) == Head(instances[i].inbox)
Taken(i) == [Session EXCEPT !.i[i].inbox = Tail(@)]
Hears(i, kind) ==
  instances[i].at = "up" /\ instances[i].inbox # <<>> /\ Message(i).kind = kind

\* on_register_uri_cb: an error opens the document without registering it; one that
\* has an owner is handed over to it.
OnRegisterUri(i) ==
  /\ Hears(i, "registered")
  /\ LET c == [Taken(i) EXCEPT !.i[i].holds = @ - 1]
         owner == Message(i).owner
         waits == [c EXCEPT !.i[i].holds = @ + 1]
     IN SessionIs(
          CASE owner = "error" -> OpenAtDest(c, i)
            [] owner = NoInstance -> OpenAtDest([c EXCEPT !.i[i].doc_registered = TRUE], i)
            [] owner \in Instances ->
                 IF c.i[owner].at \in {"up", "quitting"}
                   THEN ToInstance(waits, owner, [kind |-> "reload", from |-> i])
                   ELSE ToInstance(waits, i, [kind |-> "reloaded"]))

\* handle_reload_cb: the windows there are reload the document, if there are any.
HandleReload(i) ==
  /\ Hears(i, "reload")
  /\ SessionIs(ToInstance(OpenInWindows([Taken(i) EXCEPT !.i[i].served = TRUE], i),
                          Message(i).from, [kind |-> "reloaded"]))

\* on_reload_cb, whether the call succeeded or not
OnReload(i) ==
  /\ Hears(i, "reloaded")
  /\ SessionIs(Release([Taken(i) EXCEPT !.i[i].holds = @ - 1], i))

\* ev_application_unregister_uri waits for its answer and hears nothing else.
Unregistered(i) ==
  /\ instances[i].at = "quitting"
  /\ \E k \in DOMAIN instances[i].inbox : instances[i].inbox[k].kind = "unregistered"
  /\ SessionIs(Gone(Session, i))

\* ev_window_emit_doc_loaded, and a document that cannot be loaded
DocumentLoads(i, ok) ==
  /\ instances[i].at = "up" /\ instances[i].loading > 0
  /\ LET c == [Session EXCEPT !.i[i].loading = @ - 1, !.i[i].shown = @ \/ ok]
         uri == instances[i].uri
     IN SessionIs(IF ok /\ daemon.docs[uri].owner = i /\ daemon.docs[uri].subscribed
                    THEN ToDaemon(c, [kind |-> "loaded", from |-> i, uri |-> uri]) ELSE c)

Crash(i) == instances[i].at \in {"starting", "up"} /\ desktop.calls < OpenCalls
            /\ SessionIs(Gone(Opened, i))

-----------------------------------------------------------------------------
(* The daemon: shell/ev-daemon.c.                                          *)

DaemonHears(kind) == daemon.inbox # <<>> /\ Head(daemon.inbox).kind = kind
Call == Head(daemon.inbox)
Handled == [Session EXCEPT !.d.inbox = Tail(@)]
Reply(s, i, owner) == ToInstance(s, i, [kind |-> "registered", owner |-> owner])

\* The document has an owner, and holds the daemon.
Registers(s, uri, i) ==
  [s EXCEPT !.d.docs[uri] = [owner |-> i, subscribed |-> TRUE], !.d.holds = @ + 1]

\* handle_register_document_cb
HandleRegister ==
  /\ DaemonHears("register")
  /\ LET owner == daemon.docs[Call.uri].owner
     IN SessionIs(IF owner # NoInstance THEN Reply(Handled, Call.from, owner)
                  ELSE Reply(Watch(Registers(Handled, Call.uri, Call.from), Call.from),
                             Call.from, NoInstance))

\* The document has no owner any more, and does not hold the daemon.
Forgets(s, uri) == [s EXCEPT !.d.docs[uri] = NoDoc, !.d.holds = @ - 1]

\* handle_unregister_document_cb: only by the owner; an error is an answer as well
HandleUnregister ==
  /\ DaemonHears("unregister")
  /\ LET answered == ToInstance(Handled, Call.from, [kind |-> "unregistered"])
     IN SessionIs(IF daemon.docs[Call.uri].owner # Call.from THEN answered
                  ELSE Forgets(answered, Call.uri))

\* name_vanished_cb
NameVanished ==
  /\ DaemonHears("vanished")
  /\ LET of == {uri \in Uris : daemon.docs[uri].owner = Call.from}
     IN SessionIs(IF of = {} THEN Handled
                  ELSE Forgets(Handled, CHOOSE uri \in of : TRUE))

\* process_pending_invocations
ProcessPending(s, uri) ==
  [s EXCEPT !.d.pending[uri] = {},
            !.c = [c \in Callers |-> IF c \in s.d.pending[uri]
                                       THEN [@[c] EXCEPT !.answered = TRUE] ELSE @[c]]]

\* document_loaded_cb: the first signal is the last one heard.  (It comes for a document that
\* has an entry: doc, which is used unchecked at its end, is not NULL, as an entry goes with
\* its subscription, or with the process that sends.)
DocumentLoaded ==
  /\ DaemonHears("loaded")
  /\ SessionIs(IF daemon.docs[Call.uri].owner = NoInstance THEN Handled
               ELSE [ProcessPending(Handled, Call.uri)
                       EXCEPT !.d.docs[Call.uri].subscribed = FALSE])

\* handle_find_document_cb: a process is spawned for the first of those who wait.
HandleFind ==
  /\ DaemonHears("find")
  /\ LET owner == daemon.docs[Call.uri].owner
         told == [Handled EXCEPT !.c[Call.from].answered = TRUE]
         waits == [Handled EXCEPT !.d.pending[Call.uri] = @ \cup {Call.from}]
     IN \/ (owner # NoInstance \/ ~callers[Call.from].spawn) /\ SessionIs(told)
        \/ /\ owner = NoInstance /\ callers[Call.from].spawn
           /\ \/ daemon.pending[Call.uri] # {} /\ SessionIs(waits)
              \/ /\ daemon.pending[Call.uri] = {}
                 /\ \/ SessionIs(told)
                    \/ \E i \in Instances :
                         instances[i].at = "absent" /\ SessionIs(Spawned(waits, i, Call.uri, 1))

FindDocument(c, uri, spawn) ==
  /\ callers[c].uri = "none" /\ desktop.calls < OpenCalls
  /\ SessionIs(ToDaemon([Opened EXCEPT !.c[c].uri = uri, !.c[c].spawn = spawn],
                        [kind |-> "find", from |-> c, uri |-> uri]))

\* The daemon ends, and D-Bus starts it again for the next call: whoever waits for an
\* answer has an error.
DaemonEnds(s) ==
  LET dead == s.d.inbox
      asked == {c \in Callers : \E k \in DOMAIN dead : dead[k].kind = "find" /\ dead[k].from = c}
      waiting == asked \cup UNION {s.d.pending[uri] : uri \in Uris}
      Errors(i) ==
        AnswerEach(Sent(dead, "register", i), [kind |-> "registered", owner |-> "error"])
          \o AnswerEach(Sent(dead, "unregister", i), [kind |-> "unregistered"])
  IN [s EXCEPT !.d = [docs |-> [uri \in Uris |-> NoDoc], pending |-> [uri \in Uris |-> {}],
                      holds |-> 0, inbox |-> <<>>],
               !.i = [i \in Instances |-> Receives(@[i], Errors(i))],
               !.c = [c \in Callers |-> IF c \in waiting THEN [@[c] EXCEPT !.answered = TRUE]
                                        ELSE @[c]]]

\* Nothing holds the daemon while a client waits for the process it had spawned: the
\* time of inactivity may be over first.
DaemonTimeout ==
  /\ daemon.holds = 0 /\ daemon.inbox = <<>>
  /\ \E uri \in Uris : daemon.pending[uri] # {}
  /\ SessionIs(DaemonEnds(Session))

DaemonKilled ==
  /\ desktop.faults < DaemonFaults /\ desktop.calls < OpenCalls /\ daemon.holds > 0
  /\ SessionIs([DaemonEnds(Opened) EXCEPT !.t.faults = @ + 1])

-----------------------------------------------------------------------------
DaemonInit ==
  /\ daemon = [docs |-> [uri \in Uris |-> NoDoc], pending |-> [uri \in Uris |-> {}],
               holds |-> 0, inbox |-> <<>>]
  /\ instances = [i \in Instances |-> NoProcess]
  /\ callers = [c \in Callers |-> [uri |-> "none", spawn |-> FALSE,
                                   answered |-> FALSE]]
  /\ desktop = [calls |-> 0, faults |-> 0]

UserOpens ==
  \/ \E i \in Instances, uri \in Uris, opens \in 1 .. 2 : StartEvince(i, uri, opens)
  \/ \E i \in Instances : OpenAgain(i) \/ CloseWindow(i) \/ Crash(i)
  \/ \E c \in Callers, uri \in Uris, spawn \in BOOLEAN : FindDocument(c, uri, spawn)

ProcessWork ==
  \/ \E i \in Instances :
       Startup(i) \/ OnRegisterUri(i) \/ HandleReload(i) \/ OnReload(i) \/ Unregistered(i)
  \/ \E i \in Instances, ok \in BOOLEAN : DocumentLoads(i, ok)
DaemonWork ==
  HandleRegister \/ HandleUnregister \/ NameVanished \/ DocumentLoaded \/ HandleFind

DaemonNext == UserOpens \/ ProcessWork \/ DaemonWork \/ DaemonTimeout \/ DaemonKilled

\* The main loops of the processes and of the daemon go on.
DaemonFairness == WF_daemonVars(ProcessWork \/ DaemonWork)
DaemonSpec == DaemonInit /\ [][DaemonNext]_daemonVars /\ DaemonFairness

-----------------------------------------------------------------------------
(* Properties.                                                             *)

DaemonTypeOK ==
  /\ \A uri \in Uris : /\ daemon.docs[uri].owner \in Instances \cup {NoInstance}
                       /\ daemon.pending[uri] \subseteq Callers
  /\ daemon.holds \in Nat
  /\ \A i \in Instances : /\ instances[i].at \in {"absent", "starting", "up", "quitting", "gone"}
                          /\ instances[i].windows \in Nat /\ instances[i].holds \in Nat
                          /\ instances[i].loading \in 0 .. instances[i].windows
  /\ \A uri \in Uris : \A c \in daemon.pending[uri] : callers[c].spawn /\ ~callers[c].answered

\* While no daemon was killed, a process that believes the document registered for it
\* is the one the daemon knows, so that no two of them have one document.
OwnerIsKnown ==
  desktop.faults = 0 =>
    \A i \in Instances :
      instances[i].at = "up" /\ instances[i].doc_registered =>
        daemon.docs[instances[i].uri].owner = i

\* The daemon forgets a process that is gone: it is told, even when the process went
\* before its registration was handled.
OwnerIsAlive ==
  \A uri \in Uris :
    LET owner == daemon.docs[uri].owner
    IN owner # NoInstance /\ instances[owner].at = "gone" =>
         \E k \in DOMAIN daemon.inbox :
           daemon.inbox[k].kind = "vanished" /\ daemon.inbox[k].from = owner

\* The use count that keeps the daemon running is the number of the documents.
HeldForDocuments == daemon.holds = Cardinality(Registered(daemon))

\* A document is handed over only to a process that has registered it.
HandedToOwner ==
  \A i \in Instances : instances[i].served => instances[i].doc_registered

DocumentsHaveOneOwner == OwnerIsKnown /\ OwnerIsAlive /\ HeldForDocuments /\ HandedToOwner

\* A process that was started shows the document or ends, having handed it over; and
\* while no daemon was killed, who asked for a document that a process has loaded gets
\* the name of that process.
Undecided(i) ==
  \/ instances[i].at \in {"starting", "quitting"}
  \/ instances[i].at = "up" /\ instances[i].windows = 0
Unanswered(uri) ==
  /\ desktop.faults = 0 /\ daemon.pending[uri] # {}
  /\ \E i \in Instances : /\ instances[i].at = "up" /\ instances[i].uri = uri
                          /\ instances[i].doc_registered /\ instances[i].shown

OpensOutstanding ==
  (\E i \in Instances : Undecided(i)) \/ (\E uri \in Uris : Unanswered(uri))
OpensSettle == OpensOutstanding ~> ~OpensOutstanding
===============================================================================
