--------------------------------- MODULE Hub ---------------------------------
(***************************************************************************)
(* The WebSocket hub (internal/websocket): one goroutine, Run, owns the    *)
(* map of clients; every connection has a reader and a writer goroutine    *)
(* and a channel on which the hub hands messages to the writer.            *)
(*                                                                         *)
(* Channels of Go: a close of a closed channel, and a send on one, panic.  *)
(* A panic in the goroutine of Run ends the process (dead).  Messages that *)
(* a closed channel still holds are received before its end is.            *)
(*                                                                         *)
(* The hub is modelled with the whole of its interface.  The program       *)
(* itself calls SendBuildStatus only, and passes the agent's id as the     *)
(* user's (Agent): no client is registered under it.                       *)
(***************************************************************************)
EXTENDS Naturals, Sequences

CONSTANTS User, Agent, Client,
          UserOf,        \* the user whose connection a client is
          Caller,        \* goroutines that send messages
          BroadcastSize, \* room in the hub's channel, 256 in the code
          SendSize,      \* room in a client's channel, 256 in the code
          MaxSends,      \* bound on the messages of a behaviour
          NoClient, NoMessage, Everyone

ASSUME HubAssumption ==
  /\ UserOf \in [Client -> User]
  /\ NoClient \notin Client
  /\ User \cap Agent = {} /\ Everyone \notin User \cup Agent
  /\ NoMessage \notin User \cup Agent \cup {Everyone}
  /\ BroadcastSize \in Nat \ {0} /\ SendSize \in Nat \ {0} /\ MaxSends \in Nat

VARIABLES clients,    \* user -> the registered client
          broadcast,  \* the hub's channel: the addressees of its messages
          current,    \* the message the hub is handing out ...
          left,       \* ... and the clients it has yet to offer it to
          conn,       \* the state of a client's connection
          reader,     \* where readPump stands; before it, ServeWs
          writer,     \* where writePump stands
          send,       \* how many messages a client's channel holds
          closed,     \* clients whose channel is closed
          dropping,   \* goroutines that wait to unregister a full client
          caller,     \* the message a caller waits to put on the hub's channel
          sends,      \* messages so far, for the bound
          dead

vars == <<clients, broadcast, current, left, conn, reader, writer, send,
          closed, dropping, caller, sends, dead>>

Addressee == User \cup Agent \cup {Everyone}

TypeOK ==
  /\ clients \in [User -> Client \cup {NoClient}]
  /\ broadcast \in Seq(Addressee) /\ Len(broadcast) <= BroadcastSize
  /\ current \in Addressee \cup {NoMessage}
  /\ left \subseteq Client
  /\ conn \in [Client -> {"none", "open", "closed"}]
  /\ reader \in [Client -> {"none", "registering", "reading", "leaving", "done"}]
  /\ writer \in [Client -> {"none", "writing", "done"}]
  /\ send \in [Client -> 0..SendSize]
  /\ closed \subseteq Client
  /\ dropping \in [Client -> Nat]
  /\ caller \in [Caller -> Addressee \cup {NoMessage}]
  /\ sends \in Nat
  /\ dead \in BOOLEAN

Init ==
  /\ clients = [u \in User |-> NoClient]
  /\ broadcast = <<>> /\ current = NoMessage /\ left = {}
  /\ conn = [c \in Client |-> "none"]
  /\ reader = [c \in Client |-> "none"] /\ writer = [c \in Client |-> "none"]
  /\ send = [c \in Client |-> 0] /\ closed = {}
  /\ dropping = [c \in Client |-> 0]
  /\ caller = [k \in Caller |-> NoMessage] /\ sends = 0
  /\ dead = FALSE

------------------------------------------------------------------------------
(* Connections and their goroutines. *)

\* The upgraded connection waits for the hub to register its client.
ServeWs(c) ==
  /\ ~dead /\ reader[c] = "none"
  /\ conn' = [conn EXCEPT ![c] = "open"]
  /\ reader' = [reader EXCEPT ![c] = "registering"]
  /\ UNCHANGED <<clients, broadcast, current, left, writer, send, closed,
                 dropping, caller, sends, dead>>

\* Mutant: the reader of a connection that the writer has closed just returns.
ReadFailsQuietly(c) ==
  /\ ~dead /\ reader[c] = "reading"
  /\ reader' = [reader EXCEPT ![c] = IF conn[c] = "closed" THEN "done" ELSE "leaving"]
  /\ UNCHANGED <<clients, broadcast, current, left, conn, writer, send, closed,
                 dropping, caller, sends, dead>>

\* ReadMessage returns an error: the peer is gone, no pong came in time, or the
\* connection was closed on this side.
ReadFails(c) ==
  /\ ~dead /\ reader[c] = "reading"
  /\ reader' = [reader EXCEPT ![c] = "leaving"]
  /\ UNCHANGED <<clients, broadcast, current, left, conn, writer, send, closed,
                 dropping, caller, sends, dead>>

Write(c) ==
  /\ ~dead /\ writer[c] = "writing" /\ send[c] > 0 /\ conn[c] = "open"
  /\ send' = [send EXCEPT ![c] = @ - 1]
  /\ UNCHANGED <<clients, broadcast, current, left, conn, reader, writer, closed,
                 dropping, caller, sends, dead>>

WriterReturns(c) ==
  /\ writer' = [writer EXCEPT ![c] = "done"]
  /\ conn' = [conn EXCEPT ![c] = "closed"]
  /\ UNCHANGED <<clients, broadcast, current, left, reader, closed, dropping,
                 caller, sends, dead>>

\* A message, or a ping, cannot be written.
WriteFails(c) ==
  /\ ~dead /\ writer[c] = "writing"
  /\ \/ send[c] > 0 /\ send' = [send EXCEPT ![c] = @ - 1]
     \/ UNCHANGED send
  /\ WriterReturns(c)

\* Mutant: the writer returns without the deferred conn.Close.
ChannelEndsOpen(c) ==
  /\ ~dead /\ writer[c] = "writing" /\ c \in closed /\ send[c] = 0
  /\ writer' = [writer EXCEPT ![c] = "done"]
  /\ UNCHANGED <<clients, broadcast, current, left, conn, reader, send, closed,
                 dropping, caller, sends, dead>>

\* The channel is closed and empty.
ChannelEnds(c) ==
  /\ ~dead /\ writer[c] = "writing" /\ c \in closed /\ send[c] = 0
  /\ WriterReturns(c) /\ UNCHANGED send

------------------------------------------------------------------------------
(* The hub's goroutine: in the select while current is NoMessage. *)

Registered == {clients[u] : u \in User} \ {NoClient}

\* close(c.send) for each c of S.
Close(S) ==
  /\ closed' = closed \cup S
  /\ dead' = (S \cap closed # {})

\* Mutant: the replaced client's channel is left open.
RegisterOver(c) ==
  /\ ~dead /\ current = NoMessage /\ reader[c] = "registering"
  /\ clients' = [clients EXCEPT ![UserOf[c]] = c]
  /\ reader' = [reader EXCEPT ![c] = "reading"]
  /\ writer' = [writer EXCEPT ![c] = "writing"]
  /\ UNCHANGED <<broadcast, current, left, conn, send, closed, dropping, caller,
                 sends, dead>>

Register(c) ==
  /\ ~dead /\ current = NoMessage /\ reader[c] = "registering"
  /\ Close({clients[UserOf[c]]} \ {NoClient})
  /\ clients' = [clients EXCEPT ![UserOf[c]] = c]
  /\ reader' = [reader EXCEPT ![c] = "reading"]
  /\ writer' = [writer EXCEPT ![c] = "writing"]
  /\ UNCHANGED <<broadcast, current, left, conn, send, dropping, caller, sends>>

\* Mutant: no look whether the user has a client.
UnregisterAlways(c) ==
  /\ ~dead /\ current = NoMessage
  /\ clients' = [clients EXCEPT ![UserOf[c]] = NoClient]
  /\ Close({c})

\* Whatever client the user has by now is removed; c's channel is closed.
Unregister(c) ==
  /\ ~dead /\ current = NoMessage
  /\ IF clients[UserOf[c]] # NoClient
     THEN /\ clients' = [clients EXCEPT ![UserOf[c]] = NoClient]
          /\ Close({c})
     ELSE UNCHANGED <<clients, closed, dead>>

ReaderLeaves(c) ==
  /\ reader[c] = "leaving"
  /\ Unregister(c)
  /\ reader' = [reader EXCEPT ![c] = "done"]
  /\ conn' = [conn EXCEPT ![c] = "closed"]
  /\ UNCHANGED <<broadcast, current, left, writer, send, dropping, caller, sends>>

DropFull(c) ==
  /\ dropping[c] > 0
  /\ Unregister(c)
  /\ dropping' = [dropping EXCEPT ![c] = @ - 1]
  /\ UNCHANGED <<broadcast, current, left, conn, reader, writer, send, caller,
                 sends>>

\* Mutant: a user without a client is not passed over.
RecipientsUnchecked(to) ==
  {clients[u] : u \in IF to = Everyone THEN User ELSE {to} \cap User}

Recipients(to) ==
  IF to = Everyone THEN Registered ELSE Registered \cap {c \in Client : UserOf[c] = to}

Take ==
  /\ ~dead /\ current = NoMessage /\ broadcast # <<>>
  /\ current' = Head(broadcast) /\ broadcast' = Tail(broadcast)
  /\ left' = Recipients(Head(broadcast))
  /\ UNCHANGED <<clients, conn, reader, writer, send, closed, dropping, caller,
                 sends, dead>>

\* Mutant: a plain send, which waits for room.
OfferWaiting(c) ==
  /\ ~dead /\ c \in left /\ send[c] < SendSize
  /\ left' = left \ {c}
  /\ send' = [send EXCEPT ![c] = @ + 1]
  /\ UNCHANGED <<clients, broadcast, current, conn, reader, writer, closed,
                 dropping, caller, sends, dead>>

\* A client that has no room misses the message; after a broadcast it is
\* unregistered, by a goroutine of its own.
Offer(c) ==
  /\ ~dead /\ c \in left
  /\ left' = left \ {c}
  /\ dead' = (c \in closed)
  /\ IF send[c] < SendSize
     THEN send' = [send EXCEPT ![c] = @ + 1] /\ UNCHANGED dropping
     ELSE /\ dropping' = IF current = Everyone
                         THEN [dropping EXCEPT ![c] = @ + 1] ELSE dropping
          /\ UNCHANGED send
  /\ UNCHANGED <<clients, broadcast, current, conn, reader, writer, closed,
                 caller, sends>>

MessageDone ==
  /\ ~dead /\ current # NoMessage /\ left = {}
  /\ current' = NoMessage
  /\ UNCHANGED <<clients, broadcast, left, conn, reader, writer, send, closed,
                 dropping, caller, sends, dead>>

------------------------------------------------------------------------------
(* Callers. *)

\* A caller is about to put a message on the hub's channel.
Call(k, to) ==
  /\ ~dead /\ caller[k] = NoMessage /\ sends < MaxSends
  /\ caller' = [caller EXCEPT ![k] = to]
  /\ sends' = sends + 1
  /\ UNCHANGED <<clients, broadcast, current, left, conn, reader, writer, send,
                 closed, dropping, dead>>

SendToUser(k) == \E u \in User : Call(k, u)
Broadcast(k) == Call(k, Everyone)
SendBuildStatus(k) == \E a \in Agent : Call(k, a)

Push(k) ==
  /\ ~dead /\ caller[k] # NoMessage /\ Len(broadcast) < BroadcastSize
  /\ broadcast' = Append(broadcast, caller[k])
  /\ caller' = [caller EXCEPT ![k] = NoMessage]
  /\ UNCHANGED <<clients, current, left, conn, reader, writer, send, closed,
                 dropping, sends, dead>>

Run ==
  \/ Take
  \/ MessageDone
  \/ \E c \in Client : Register(c) \/ ReaderLeaves(c) \/ DropFull(c) \/ Offer(c)

Pumps(c) == Write(c) \/ ChannelEnds(c)
Broken(c) == conn[c] = "closed" /\ ReadFails(c)

Next ==
  \/ Run
  \/ \E c \in Client : ServeWs(c) \/ ReadFails(c) \/ WriteFails(c) \/ Pumps(c)
  \/ \E k \in Caller : SendToUser(k) \/ Broadcast(k) \/ SendBuildStatus(k) \/ Push(k)

\* Goroutines go on; a read on a closed connection returns.
Fairness ==
  /\ WF_vars(Run)
  /\ \A c \in Client : WF_vars(Pumps(c)) /\ WF_vars(Broken(c))
  /\ \A k \in Caller : WF_vars(Push(k))

Spec == Init /\ [][Next]_vars /\ Fairness

------------------------------------------------------------------------------
\* The clients with an open channel are the registered ones, as long as the
\* process lives: no message goes to a closed channel (broadcastMessage), and
\* no connection is kept that the hub has forgotten.
OpenIffRegistered ==
  ~dead => \A c \in Client :
             reader[c] \in {"reading", "leaving", "done"} =>
               (c \notin closed <=> clients[UserOf[c]] = c)

\* The hub panics only when a user has had two connections: a client may be
\* unregistered several times, by its reader and by goroutines of broadcasts
\* it had no room for, and its channel is closed once.
PanicsOnlyAfterReplacement ==
  dead => \E c, d \in Client : /\ c # d /\ UserOf[c] = UserOf[d]
                               /\ c \in closed /\ reader[d] # "none"

\* A user's new connection replaces the old one and the hub goes on
\* (registerClient, unregisterClient).
HubSurvives == ~dead

\* Nobody waits for the hub for ever: not a request that registers its client,
\* nor a reader that unregisters it, nor a caller of SendToUser; for the hub
\* itself never waits for a client.
HubAnswers ==
  /\ \A c \in Client : \A r \in {"registering", "leaving"} :
       reader[c] = r ~> (reader[c] # r \/ dead)
  /\ \A k \in Caller : caller[k] # NoMessage ~> (caller[k] = NoMessage \/ dead)

\* A client whose connection is closed is forgotten.
GoneIsForgotten ==
  \A c \in Client : conn[c] = "closed" ~> (c \notin Registered \/ dead)

\* Closing a channel ends the connection: that of a replaced client, and that
\* of one too slow for a broadcast.
ClosedIsDisconnected ==
  \A c \in Client : c \in closed ~> (conn[c] = "closed" \/ dead)
=============================================================================
