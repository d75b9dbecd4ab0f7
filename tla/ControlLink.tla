------------------------------ MODULE ControlLink ------------------------------
(***************************************************************************)
(* The link between the controller applications and the service: each save *)
(* of the list of mounts is followed by the line "reload\n" on a local     *)
(* socket, and the service sends statuses to the socket that greeted last. *)
(*                                                                         *)
(* The greeting "CONTROLLER" has no end of line.  The server reads one     *)
(* line for each readyRead, or whatever has arrived if there is none, so   *)
(* that a greeting and a reload that arrive together are one unknown       *)
(* command.  The list is either the one in the file or an older one:       *)
(* Daemon has its contents.                                                *)
(***************************************************************************)
EXTENDS Naturals, Sequences, Functions

CONSTANTS
  Apps,       \* controller applications; each has one connection at a time
  None,       \* "no controller"
  QueueBound  \* bound: commands on their way when a list is saved

ASSUME AppsAssumption == None \notin Apps /\ QueueBound \in Nat

VARIABLES
  running,    \* the service is up for the service control manager
  listening,  \* Server::start has run
  current,    \* the daemon has the list that is in the file
  reloadDue,  \* Daemon::reloadMounts is queued for the daemon thread
  gui,        \* the GUI thread of each application
  client,     \* its Client: none, its thread not started, or its socket
  greetDue,   \* the lambda that greets is queued
  pipe,       \* commands written and not arrived
  accepted,   \* onnewConnection has run for the connection
  inbox,      \* commands arrived and not read
  notified,   \* readyRead is to be delivered
  controller, \* the application whose socket Server::controller is
  missed,     \* history: a save was not told and has not been loaded since
  swallowed,  \* history: reloads of this connection read as something else
  early,      \* history: a request was sent on it before the greeting
  superseded  \* history: another application greeted after this one

service == <<running, listening, current, reloadDue, controller>>
conns   == <<pipe, accepted, inbox, notified>>
history == <<missed, swallowed, early, superseded>>
vars    == <<service, gui, client, greetDue, conns, history>>

Has(s, c) == \E i \in DOMAIN s : s[i] = c

Queued == FoldFunction(+, 0, [a \in Apps |-> Len(pipe[a]) + Len(inbox[a])])

Init ==
  /\ running = FALSE
  /\ listening = FALSE
  /\ current = FALSE
  /\ reloadDue = FALSE
  /\ gui = [a \in Apps |-> "off"]
  /\ client = [a \in Apps |-> "none"]
  /\ greetDue = [a \in Apps |-> FALSE]
  /\ pipe = [a \in Apps |-> <<>>]
  /\ accepted = [a \in Apps |-> FALSE]
  /\ inbox = [a \in Apps |-> <<>>]
  /\ notified = [a \in Apps |-> FALSE]
  /\ controller = None
  /\ missed = FALSE
  /\ swallowed = [a \in Apps |-> 0]
  /\ early = [a \in Apps |-> FALSE]
  /\ superseded = [a \in Apps |-> FALSE]

-----------------------------------------------------------------------------
(* The GUI thread of a controller application.                             *)

\* isRunningTimerTimeout makes a Client when there is none and the service runs.
ClientAtTick(a) == IF running /\ client[a] = "none" THEN "created" ELSE client[a]

\* The socket is closed.  What was written may still be read by the server, or
\* not; the pointer of the server stays and is of no use.
Disconnect(a) ==
  /\ client' = [client EXCEPT ![a] = "none"]
  /\ greetDue' = [greetDue EXCEPT ![a] = FALSE]
  /\ pipe' = [pipe EXCEPT ![a] = <<>>]
  /\ accepted' = [accepted EXCEPT ![a] = FALSE]
  /\ inbox' = [inbox EXCEPT ![a] = <<>>]
  /\ notified' = [notified EXCEPT ![a] = FALSE]
  /\ controller' = IF controller = a THEN None ELSE controller
  /\ swallowed' = [swallowed EXCEPT ![a] = 0]
  /\ early' = [early EXCEPT ![a] = FALSE]
  /\ superseded' = [superseded EXCEPT ![a] = FALSE]
  /\ IF Has(pipe[a] \o inbox[a], "reload")
     THEN \/ reloadDue' = TRUE /\ UNCHANGED missed
          \/ missed' = (missed \/ ~current) /\ UNCHANGED reloadDue
     ELSE UNCHANGED <<reloadDue, missed>>

\* The constructor calls isRunningTimerTimeout.
Open(a) ==
  /\ gui[a] = "off"
  /\ gui' = [gui EXCEPT ![a] = "idle"]
  /\ client' = [client EXCEPT ![a] = ClientAtTick(a)]
  /\ UNCHANGED <<service, greetDue, conns, history>>

Quit(a) ==
  /\ gui[a] = "idle"
  /\ gui' = [gui EXCEPT ![a] = "off"]
  /\ Disconnect(a)
  /\ UNCHANGED <<running, listening, current>>

Tick(a) ==
  /\ gui[a] = "idle"
  /\ IF ~running /\ client[a] # "none"
     THEN Disconnect(a) /\ UNCHANGED <<running, listening, current, gui>>
     ELSE /\ client' = [client EXCEPT ![a] = ClientAtTick(a)]
          /\ UNCHANGED <<service, gui, greetDue, conns, history>>

\* onModelModified writes the file first.
Save(a) ==
  /\ gui[a] = "idle"
  /\ Queued < QueueBound
  /\ gui' = [gui EXCEPT ![a] = "saved"]
  /\ current' = FALSE
  /\ UNCHANGED <<running, listening, reloadDue, controller, client,
                 greetDue, conns, history>>

\* Faulty: the service is not told.
SendNothing(a) ==
  /\ gui[a] = "saved"
  /\ gui' = [gui EXCEPT ![a] = "idle"]
  /\ UNCHANGED <<service, client, greetDue, conns, history>>

\* sendReload: without a connection nothing is sent.  A Client whose thread has
\* not made the socket yet dereferences a null pointer.
Send(a) ==
  /\ gui[a] = "saved"
  /\ CASE client[a] = "created" ->
            /\ gui' = [gui EXCEPT ![a] = "off"]
            /\ client' = [client EXCEPT ![a] = "none"]
            /\ missed' = (missed \/ ~current)
            /\ UNCHANGED <<pipe, early>>
       [] client[a] = "connected" ->
            /\ gui' = [gui EXCEPT ![a] = "idle"]
            /\ pipe' = [pipe EXCEPT ![a] = Append(@, "reload")]
            /\ early' = [early EXCEPT ![a] = @ \/ greetDue[a]]
            /\ UNCHANGED <<client, missed>>
       [] OTHER ->
            /\ gui' = [gui EXCEPT ![a] = "idle"]
            /\ missed' = (missed \/ ~current)
            /\ UNCHANGED <<client, pipe, early>>
  /\ UNCHANGED <<service, greetDue, accepted, inbox, notified,
                 swallowed, superseded>>

-----------------------------------------------------------------------------
(* The thread of a Client.                                                 *)

\* Faulty: the timer is not started again.
TryConnectOnce(a) ==
  /\ client[a] = "created"
  /\ client' = [client EXCEPT ![a] = IF listening THEN "connected" ELSE "unconnected"]
  /\ greetDue' = [greetDue EXCEPT ![a] = listening]
  /\ UNCHANGED <<service, gui, conns, history>>

\* Client::start, and the timer that tries again after five seconds; nothing
\* tries again once the socket has been connected.
TryConnect(a) ==
  /\ client[a] \in {"created", "unconnected"}
  /\ client' = [client EXCEPT ![a] = IF listening THEN "connected" ELSE "unconnected"]
  /\ greetDue' = [greetDue EXCEPT ![a] = listening]
  /\ UNCHANGED <<service, gui, conns, history>>

\* The lambda connected to QLocalSocket::connected is queued.
Greet(a) ==
  /\ greetDue[a]
  /\ greetDue' = [greetDue EXCEPT ![a] = FALSE]
  /\ pipe' = [pipe EXCEPT ![a] = Append(@, "CONTROLLER")]
  /\ UNCHANGED <<service, gui, client, accepted, inbox, notified, history>>

-----------------------------------------------------------------------------
(* The thread of the Server.                                               *)

\* QLocalServer listens.
Listen ==
  /\ running /\ ~listening
  /\ listening' = TRUE
  /\ UNCHANGED <<running, current, reloadDue, controller, gui, client,
                 greetDue, conns, history>>

\* What has arrived is in the buffer of the socket, read or unread; readyRead is
\* connected to onReadyRead by onnewConnection only.
Arrive(a) ==
  /\ listening
  /\ \E n \in 1..Len(pipe[a]) :
       /\ inbox' = [inbox EXCEPT ![a] = @ \o SubSeq(pipe[a], 1, n)]
       /\ pipe' = [pipe EXCEPT ![a] = SubSeq(@, n + 1, Len(@))]
  /\ notified' = [notified EXCEPT ![a] = accepted[a]]
  /\ UNCHANGED <<service, gui, client, greetDue, accepted, history>>

\* readLine: up to the first end of line, and everything if there is none.
LineLength(s) ==
  IF Has(s, "reload")
  THEN CHOOSE i \in DOMAIN s : s[i] = "reload" /\ ~Has(SubSeq(s, 1, i - 1), "reload")
  ELSE Len(s)

\* Faulty: the line begins with the greeting.
IsGreetingLoosely(line) == Head(line) = "CONTROLLER"

IsGreeting(line) == line = <<"CONTROLLER">>

\* onReadyRead: one line, which is a reload, a greeting or unknown.
OnReadyRead(a) ==
  LET line  == SubSeq(inbox[a], 1, LineLength(inbox[a]))
      greet == IsGreeting(line)
      lost  == Has(line, "reload") /\ line # <<"reload">>
  IN /\ inbox' = [inbox EXCEPT ![a] = SubSeq(@, Len(line) + 1, Len(@))]
     /\ reloadDue' = (reloadDue \/ line = <<"reload">>)
     /\ controller' = IF greet THEN a ELSE controller
     /\ superseded' = IF greet
                      THEN [x \in Apps |-> x # a /\ (superseded[x] \/ controller = x)]
                      ELSE superseded
     /\ missed' = (missed \/ (lost /\ ~current))
     /\ swallowed' = [swallowed EXCEPT ![a] = IF lost THEN @ + 1 ELSE @]
     /\ UNCHANGED early

\* Faulty: what arrived before is left for the next readyRead.
AcceptQuietly(a) ==
  /\ listening /\ client[a] = "connected" /\ ~accepted[a]
  /\ accepted' = [accepted EXCEPT ![a] = TRUE]
  /\ UNCHANGED <<service, gui, client, greetDue, pipe, inbox, notified, history>>

\* onnewConnection is queued; it emits readyRead for what arrived before it.
Accept(a) ==
  /\ listening /\ client[a] = "connected" /\ ~accepted[a]
  /\ accepted' = [accepted EXCEPT ![a] = TRUE]
  /\ IF inbox[a] # <<>>
     THEN OnReadyRead(a)
     ELSE UNCHANGED <<inbox, reloadDue, controller, history>>
  /\ UNCHANGED <<running, listening, current, gui, client, greetDue, pipe, notified>>

ReadLine(a) ==
  /\ notified[a]
  /\ notified' = [notified EXCEPT ![a] = FALSE]
  /\ OnReadyRead(a)
  /\ UNCHANGED <<running, listening, current, gui, client, greetDue, pipe, accepted>>

-----------------------------------------------------------------------------
(* The service.                                                            *)

\* Daemon::start starts the thread of the server and loads the list.
StartService ==
  /\ ~running
  /\ running' = TRUE
  /\ reloadDue' = TRUE
  /\ current' = FALSE
  /\ UNCHANGED <<listening, controller, gui, client, greetDue, conns, history>>

\* Daemon::reloadMounts on the daemon thread, as far as it reads the file.
Reload ==
  /\ running /\ reloadDue
  /\ reloadDue' = FALSE
  /\ current' = TRUE
  /\ missed' = FALSE
  /\ UNCHANGED <<running, listening, controller, gui, client, greetDue, conns,
                 swallowed, early, superseded>>

\* The sockets go, and with them what is on its way.
StopService ==
  /\ running
  /\ running' = FALSE
  /\ listening' = FALSE
  /\ current' = FALSE
  /\ reloadDue' = FALSE
  /\ controller' = None
  /\ client' = [a \in Apps |-> IF client[a] = "connected" THEN "lost" ELSE client[a]]
  /\ greetDue' = [a \in Apps |-> FALSE]
  /\ pipe' = [a \in Apps |-> <<>>]
  /\ accepted' = [a \in Apps |-> FALSE]
  /\ inbox' = [a \in Apps |-> <<>>]
  /\ notified' = [a \in Apps |-> FALSE]
  /\ missed' = FALSE
  /\ swallowed' = [a \in Apps |-> 0]
  /\ early' = [a \in Apps |-> FALSE]
  /\ superseded' = [a \in Apps |-> FALSE]
  /\ UNCHANGED gui

-----------------------------------------------------------------------------
ClientThread(a) == TryConnect(a) \/ Greet(a)

Next ==
  \/ \E a \in Apps :
       \/ Open(a) \/ Quit(a) \/ Tick(a) \/ Save(a) \/ Send(a)
       \/ ClientThread(a)
       \/ Arrive(a) \/ Accept(a) \/ ReadLine(a)
  \/ Listen \/ StartService \/ Reload \/ StopService

Spec == Init /\ [][Next]_vars

\* Every thread runs, the timers fire and a pipe delivers.  Nothing is assumed
\* of the users, who open, save, quit, start and stop.  An application may be
\* busy whenever its timer is due, but the timer event stays in its queue.
Fairness ==
  /\ WF_vars(Listen)
  /\ WF_vars(Reload)
  /\ \A a \in Apps :
       /\ SF_vars(Tick(a))
       /\ WF_vars(Send(a))
       /\ WF_vars(TryConnect(a))
       /\ WF_vars(Greet(a))
       /\ WF_vars(Arrive(a))
       /\ WF_vars(Accept(a))
       /\ WF_vars(ReadLine(a))

FairSpec == Spec /\ Fairness

-----------------------------------------------------------------------------
(* Properties.                                                             *)

\* A save that the daemon has not loaded is still on its way, unless it is one
\* of three: the application was not connected, it died of its null pointer or
\* left, or the request was read together with the greeting.
RequestOnTheWay ==
  running /\ ~current =>
    \/ missed \/ reloadDue
    \/ \E a \in Apps :
         \/ gui[a] = "saved"
         \/ Has(pipe[a], "reload")
         \/ Has(inbox[a], "reload") /\ (notified[a] \/ ~accepted[a])

\* A connection loses at most one request to its greeting, it loses the
\* greeting with it and is never sent a status.
OneRequestSwallowed ==
  \A a \in Apps :
    /\ swallowed[a] <= 1
    /\ swallowed[a] = 1 => controller # a

\* When all that an application wrote has been read it is sent the statuses,
\* unless a request came before or with its greeting, or another application
\* greeted after it (and may have left since).
SilenceHasCause ==
  \A a \in Apps :
    (client[a] = "connected" /\ accepted[a] /\ ~greetDue[a]
       /\ pipe[a] = <<>> /\ ~notified[a]) =>
      \/ controller = a
      \/ superseded[a]
      \/ early[a]
      \/ swallowed[a] = 1

\* The daemon loads a save while it runs, unless the request was missed.
SaveIsLoaded ==
  (running /\ ~current) ~> (current \/ missed \/ ~running)

\* An application finds the service that runs, unless it was connected to a
\* run of it that ended and began again between two ticks.
AppConnects ==
  \A a \in Apps :
    (running /\ gui[a] # "off") ~>
      (client[a] \in {"connected", "lost"} \/ ~running \/ gui[a] = "off")
=============================================================================
