--------------------------- MODULE IpcConnections ---------------------------
(***************************************************************************)
(* The daemon's socket: the loop of the IPC thread, events broadcast by    *)
(* other threads, and two kinds of clients, the settings application       *)
(* (DaemonClient.cpp), which keeps a connection and makes many calls, and  *)
(* lexiglancectl (Client::call in Socket.cpp), which makes one             *)
(* (src/apps/daemon/IpcServer.cpp, src/src/ipc).                           *)
(*                                                                         *)
(* A line to a client is sent in two pieces, "head" and "tail", so that    *)
(* one may arrive without the other. Of the waiting for a slow client only *)
(* the outcome is kept: it read in time, or it is hung up on.              *)
(***************************************************************************)
EXTENDS Naturals, Sequences, FiniteSets, SequencesExt

CONSTANTS Links,    \* 1..n: connections, in the order they are made
          Room,     \* pieces the system keeps for a client that does not read
          Piped,  \* TRUE: named pipes, FALSE: sockets
          MaxCalls, MaxBroadcasts, MaxStops \* bounds

VARIABLES
  link,      \* each connection
  clients,   \* clients_: the connections accepted, in order
  loop,      \* what the loop is at, with what poll() found
  wake,      \* wake_fd_, wake_event_
  outbox,    \* outbox_
  pushing,   \* broadcasts queued that did not wake the loop yet
  accepting, \* a pipe instance waits for a client
  settings,  \* the settings application: its connection, its buffer, the calls pending
  called,    \* calls made, each with a number of its own
  broadcasts, stops \* for the bounds

ipcVars == <<link, clients, loop, wake, outbox, pushing, accepting, settings, called, broadcasts,
             stops>>

NoConnection    == 0
TooLong == 99 \* a line longer than a message may be
CtlCall == 100
EventId   == 0
\* at: who made it, and whether it was accepted; up: calls not read by the daemon;
\* down: pieces not read by the client; shut: the daemon hung up (or ended).
NoLink == [at |-> "none", owner |-> "none", up |-> <<>>, down |-> <<>>, shut |-> FALSE,
           gone |-> FALSE]
AtPoll == [at |-> "poll", ready |-> <<>>, accept |-> FALSE, index |-> 1, lines |-> <<>>,
           closed |-> {}]

\* Whether the pipe made for the next client is waited at: on Windows this may fail, and is not tried
\* again. One that came and went before is let go of.
Awaits == accepting' \in {TRUE, ~Piped}

IpcInit ==
  /\ link = [c \in Links |-> NoLink]
  /\ clients = <<>> /\ loop = AtPoll
  /\ wake = FALSE /\ outbox = <<>> /\ pushing = 0
  /\ accepting \in {TRUE, ~Piped}
  /\ settings = [link |-> NoConnection, buffer |-> <<>>, pending |-> {}]
  /\ called = 0 /\ broadcasts = 0 /\ stops = 0

\* Nothing of a connection is of interest once both sides are done with it.
Over(l) == IF l.shut /\ (l.gone \/ l.down = <<>>)
           THEN [NoLink EXCEPT !.at = "over", !.owner = l.owner, !.shut = TRUE, !.gone = l.gone]
           ELSE l

Serving == loop.at # "stopped"

Line(kind, id) == <<[kind |-> kind, id |-> id, piece |-> "head"],
                    [kind |-> kind, id |-> id, piece |-> "tail"]>>

\* sendTo(): a client that does not read in time may have got the first pieces; it is
\* hung up on, and nothing more is sent to it.
Sent(l, pieces) ==
  LET room == Room - Len(l.down)
  IN  IF l.shut \/ l.gone         THEN [l EXCEPT !.shut = TRUE]
      ELSE IF room >= Len(pieces) THEN [l EXCEPT !.down = @ \o pieces]
      ELSE [l EXCEPT !.down = @ \o SubSeq(pieces, 1, room), !.shut = TRUE]

\* deliver(): what is queued goes to every client, one line after the other.
Events(n) == [i \in 1..2 * n |-> Line("event", EventId)[2 - (i % 2)]]

Delivered(links) ==
  [c \in Links |-> IF c \in Range(clients) /\ outbox # <<>>
                   THEN Sent(links[c], Events(Len(outbox))) ELSE links[c]]

-----------------------------------------------------------------------------
(* Threads of the daemon that broadcast.                                   *)

\* broadcast(): queued under the mutex, then the loop is woken.
Broadcast ==
  /\ Serving /\ broadcasts < MaxBroadcasts
  /\ broadcasts' = broadcasts + 1
  /\ outbox' = Append(outbox, EventId)
  /\ pushing' = pushing + 1
  /\ UNCHANGED <<link, clients, loop, wake, accepting, settings, called, stops>>

Wake ==
  /\ pushing > 0
  /\ pushing' = pushing - 1
  /\ wake' = TRUE
  /\ UNCHANGED <<link, clients, loop, outbox, accepting, settings, called, broadcasts, stops>>

-----------------------------------------------------------------------------
(* The loop.                                                               *)

\* What a client sent or that it is over: poll() tells it, or the read that waits at its pipe ends.
Readable(c) == link[c].up # <<>> \/ link[c].gone \/ link[c].shut
Backlog     == {c \in Links : link[c].at = "backlog"}

\* WaitForMultipleObjects() reports one thing: the wake event before a new client,
\* that before the first of the clients there is something from.
FirstOf(found) ==
  IF found.woken THEN [found EXCEPT !.accept = FALSE, !.ready = [i \in DOMAIN @ |-> FALSE]]
  ELSE IF found.accept THEN [found EXCEPT !.ready = [i \in DOMAIN @ |-> FALSE]]
  ELSE [found EXCEPT !.ready = [i \in DOMAIN @ |-> @[i] /\ \A j \in DOMAIN @ : j < i => ~@[j]]]

Poll ==
  /\ loop.at = "poll"
  /\ LET all   == [woken  |-> wake, accept |-> accepting /\ Backlog # {},
                   ready  |-> [i \in DOMAIN clients |-> Readable(clients[i])]]
         found == IF Piped THEN FirstOf(all) ELSE all
     IN  /\ all.woken \/ all.accept \/ \E i \in DOMAIN all.ready : all.ready[i]
         /\ loop' = [AtPoll EXCEPT !.at = IF found.woken THEN "drain" ELSE "clients",
                                   !.ready = found.ready, !.accept = found.accept]
  /\ UNCHANGED <<link, clients, wake, outbox, pushing, accepting, settings, called, broadcasts,
                 stops>>

\* A mistake: what is queued is sent before the wake-up is taken note of.
DeliverThenDrain ==
  \/ /\ loop.at = "drain"
     /\ link' = Delivered(link) /\ outbox' = <<>>
     /\ loop' = [loop EXCEPT !.at = "deliver"]
     /\ UNCHANGED <<clients, wake, pushing, accepting, settings, called, broadcasts, stops>>
  \/ /\ loop.at = "deliver"
     /\ wake' = FALSE
     /\ loop' = [loop EXCEPT !.at = "clients"]
     /\ UNCHANGED <<link, clients, outbox, pushing, accepting, settings, called, broadcasts,
                    stops>>

\* The wake-up is taken note of, then what is queued is sent.
DrainAndDeliver ==
  \/ /\ loop.at = "drain"
     /\ wake' = FALSE
     /\ loop' = [loop EXCEPT !.at = "deliver"]
     /\ UNCHANGED <<link, clients, outbox, pushing, accepting, settings, called, broadcasts,
                    stops>>
  \/ /\ loop.at = "deliver"
     /\ link' = Delivered(link) /\ outbox' = <<>>
     /\ loop' = [loop EXCEPT !.at = "clients"]
     /\ UNCHANGED <<clients, wake, pushing, accepting, settings, called, broadcasts, stops>>

AtClient == loop.at = "clients" /\ loop.lines = <<>> /\ loop.index =< Len(loop.ready)

SkipClient ==
  /\ AtClient /\ ~loop.ready[loop.index]
  /\ loop' = [loop EXCEPT !.index = @ + 1]
  /\ UNCHANGED <<link, clients, wake, outbox, pushing, accepting, settings, called, broadcasts,
                 stops>>

\* A client that closed, or that sent a line too long, is to be dropped; so is one that was hung up
\* on, on Windows with what it sent before. (readSome() of a client there is nothing from would
\* wait, and give up.)
ToDrop(c) == link[c].up = <<>> \/ link[c].up[1] = TooLong \/ (Piped /\ link[c].shut)

\* Everything another client sent is read.
ReadClient ==
  /\ AtClient /\ loop.ready[loop.index]
  /\ loop.index =< Len(clients)
  /\ \E c \in Links :
       /\ c = clients[loop.index]
       /\ IF ToDrop(c)
          THEN /\ loop' = [loop EXCEPT !.closed = @ \cup {loop.index}, !.index = @ + 1]
               /\ UNCHANGED link
          ELSE /\ loop' = [loop EXCEPT !.lines = link[c].up]
               /\ link' = [link EXCEPT ![c].up = <<>>]
  /\ UNCHANGED <<clients, wake, outbox, pushing, accepting, settings, called, broadcasts, stops>>

\* dispatch(): the handler runs, some of them flush() what is queued meanwhile; then
\* the answer is sent.
Dispatch ==
  /\ loop.at = "clients" /\ loop.lines # <<>>
  /\ \E c \in Links :
       /\ c = clients[loop.index]
       /\ LET answer == Line("answer", Head(loop.lines))
          IN  \/ /\ link' = [link EXCEPT ![c] = Sent(@, answer)]
                 /\ UNCHANGED outbox
              \/ /\ outbox # <<>> /\ outbox' = <<>>
                 /\ link' = [Delivered(link) EXCEPT ![c] = Sent(@, answer)]
  /\ loop' = [loop EXCEPT !.lines = Tail(@), !.index = IF Len(loop.lines) = 1 THEN @ + 1 ELSE @]
  /\ UNCHANGED <<clients, wake, pushing, accepting, settings, called, broadcasts, stops>>

\* The client that came first is accepted; on Windows the pipe is its own then, and another instance
\* is made for the next, which may fail.
Accept(c, kept) ==
  /\ c \in Backlog /\ \A b \in Backlog : c =< b
  /\ clients' = Append(kept, c)
  /\ Awaits

\* Those to be dropped go after all were read, then a new client is accepted.
EndOfRound ==
  /\ loop.at = "clients" /\ loop.lines = <<>> /\ loop.index > Len(loop.ready)
  /\ LET open == [i \in DOMAIN clients |-> IF i \in loop.closed THEN NoConnection ELSE clients[i]]
         kept == SelectSeq(open, LAMBDA c : c # NoConnection)
         Drop(links) == [c \in Links |-> IF c \in Range(clients) \ Range(kept)
                                         THEN Over([links[c] EXCEPT !.shut = TRUE])
                                         ELSE links[c]]
     IN  IF loop.accept /\ Backlog # {}
         THEN \E c \in Links :
                Accept(c, kept) /\ link' = Drop([link EXCEPT ![c].at = "accepted"])
         ELSE clients' = kept /\ link' = Drop(link) /\ UNCHANGED accepting
  /\ loop' = AtPoll
  /\ UNCHANGED <<wake, outbox, pushing, settings, called, broadcasts, stops>>

-----------------------------------------------------------------------------
(* stop(), or the daemon ends; another one starts.                         *)

StopServer ==
  /\ Serving /\ stops < MaxStops
  /\ stops' = stops + 1
  /\ loop' = [AtPoll EXCEPT !.at = "stopped"]
  /\ clients' = <<>> /\ outbox' = <<>> /\ wake' = FALSE /\ pushing' = 0
  /\ link' = [c \in Links |-> IF link[c].at = "none" THEN link[c]
                              ELSE Over([link[c] EXCEPT !.shut = TRUE, !.at = "accepted"])]
  /\ UNCHANGED <<accepting, settings, called, broadcasts>>

Restart ==
  /\ ~Serving
  /\ loop' = AtPoll /\ Awaits
  /\ UNCHANGED <<link, clients, wake, outbox, pushing, settings, called, broadcasts, stops>>

-----------------------------------------------------------------------------
(* Clients.                                                                *)

Next(c) == link[c].at = "none" /\ \A d \in Links : d < c => link[d].at # "none"

Opened(c, owner, up) ==
  [link EXCEPT ![c] = [at |-> "backlog", owner |-> owner, up |-> up, down |-> <<>>, shut |-> FALSE,
                       gone |-> FALSE]]

\* A mistake: a partial line from the last connection stays in the buffer.
ConnectKeepingBuffer(c) ==
  /\ Serving /\ settings.link = NoConnection /\ Next(c)
  /\ link' = Opened(c, "settings", <<>>)
  /\ settings' = [settings EXCEPT !.link = c]
  /\ UNCHANGED <<clients, loop, wake, outbox, pushing, accepting, called, broadcasts, stops>>

\* DaemonClient::connectNow(), by its timer while there is no connection.
Connect(c) ==
  /\ Serving /\ settings.link = NoConnection /\ Next(c)
  /\ link' = Opened(c, "settings", <<>>)
  /\ settings' = [settings EXCEPT !.link = c, !.buffer = <<>>]
  /\ UNCHANGED <<clients, loop, wake, outbox, pushing, accepting, called, broadcasts, stops>>

\* DaemonClient::call()
Call ==
  /\ settings.link # NoConnection /\ called < MaxCalls
  /\ called' = called + 1
  /\ settings' = [settings EXCEPT !.pending = @ \cup {called + 1}]
  /\ link' = [link EXCEPT ![settings.link].up = IF link[settings.link].shut THEN @
                                                ELSE Append(@, called + 1)]
  /\ UNCHANGED <<clients, loop, wake, outbox, pushing, accepting, broadcasts, stops>>

\* DaemonClient::read(): whole lines are taken from the buffer; one that is no message
\* is skipped, an answer nobody waits for any more as well.
Read ==
  /\ settings.link # NoConnection /\ link[settings.link].down # <<>>
  /\ LET piece == Head(link[settings.link].down)
         line  == Append(settings.buffer, piece)
     IN  /\ link' = [link EXCEPT ![settings.link].down = Tail(@)]
         /\ settings' =
              IF piece.piece = "head" THEN [settings EXCEPT !.buffer = line]
              ELSE IF line = Line("answer", piece.id)
              THEN [settings EXCEPT !.buffer = <<>>, !.pending = @ \ {piece.id}]
              ELSE [settings EXCEPT !.buffer = <<>>]
  /\ UNCHANGED <<clients, loop, wake, outbox, pushing, accepting, called, broadcasts, stops>>

\* The timer of a call: it is told that the daemon did not answer in time.
TimeOut ==
  /\ settings.link # NoConnection
  /\ \E id \in settings.pending : settings' = [settings EXCEPT !.pending = @ \ {id}]
  /\ UNCHANGED <<link, clients, loop, wake, outbox, pushing, accepting, called, broadcasts,
                 stops>>

\* Everything was read and the connection is over: every call pending fails.
Disconnected ==
  /\ settings.link # NoConnection
  /\ link[settings.link].shut /\ link[settings.link].down = <<>>
  /\ settings' = [settings EXCEPT !.link = NoConnection, !.pending = {}]
  /\ link' = [link EXCEPT ![settings.link] = Over(@)]
  /\ UNCHANGED <<clients, loop, wake, outbox, pushing, accepting, called, broadcasts, stops>>

\* lexiglancectl connects, sends one call (or a line too long), reads what comes until
\* its answer, and closes; it may be stopped at any moment, and then reads nothing.
CtlConnect(c) ==
  /\ Serving /\ Next(c)
  /\ \E line \in {CtlCall, TooLong} : link' = Opened(c, "ctl", <<line>>)
  /\ UNCHANGED <<clients, loop, wake, outbox, pushing, accepting, settings, called, broadcasts,
                 stops>>

CtlReads(c) ==
  /\ link[c].owner = "ctl" /\ link[c].down # <<>> /\ ~link[c].gone
  /\ LET done == Last(link[c].down) = Line("answer", CtlCall)[2] \/ link[c].shut
     IN  link' = [link EXCEPT ![c].down = <<>>, ![c].gone = done]
  /\ UNCHANGED <<clients, loop, wake, outbox, pushing, accepting, settings, called, broadcasts,
                 stops>>

CtlGivesUp(c) ==
  /\ link[c].owner = "ctl" /\ ~link[c].gone
  /\ link' = [link EXCEPT ![c].gone = TRUE, ![c].down = <<>>]
  /\ UNCHANGED <<clients, loop, wake, outbox, pushing, accepting, settings, called, broadcasts,
                 stops>>

IpcNext ==
  \/ Broadcast \/ Wake \/ Poll \/ DrainAndDeliver \/ SkipClient \/ ReadClient \/ Dispatch
  \/ EndOfRound \/ StopServer \/ Restart \/ Call \/ Read \/ TimeOut \/ Disconnected
  \/ \E c \in Links : Connect(c) \/ CtlConnect(c) \/ CtlReads(c) \/ CtlGivesUp(c)

IpcSpec == IpcInit /\ [][IpcNext]_ipcVars

-----------------------------------------------------------------------------
\* A call the settings application waits for is on its way to the daemon, being
\* handled, or its answer is on its way back whole; or the connection is over and the
\* call about to fail. None waits for an answer that was lost.
NoAnswerLost ==
  \A id \in settings.pending :
    LET c == settings.link
    IN  \/ link[c].shut
        \/ id \in Range(link[c].up)
        \/ id \in Range(loop.lines) /\ clients[loop.index] = c
        \/ LET ahead == settings.buffer \o link[c].down
           IN  \E k \in DOMAIN ahead :
                 2 * k =< Len(ahead) /\ <<ahead[2 * k - 1], ahead[2 * k]>> = Line("answer", id)

\* No event is left in the queue while the loop sleeps: whoever queued one has woken
\* it, or is about to.
NoEventForgotten == Serving /\ loop.at = "poll" /\ outbox # <<>> => wake \/ pushing > 0
=============================================================================
