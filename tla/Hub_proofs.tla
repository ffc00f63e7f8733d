----------------------------- MODULE Hub_proofs ------------------------------
(***************************************************************************)
(* Proofs about Hub, for any users, connections, callers and channel       *)
(* sizes.  Inv adds to the two properties what they rest on: the map names *)
(* clients of their own users, clients that never registered are nowhere,  *)
(* and the hub hands messages to registered clients only.                  *)
(***************************************************************************)
EXTENDS Hub, TLAPS

Started(c) == reader[c] \in {"reading", "leaving", "done"}

\* The map names clients of their own users that have registered.
MapSound == \A u \in User : clients[u] # NoClient =>
              UserOf[clients[u]] = u /\ Started(clients[u])

\* A client that has not registered has an open channel, no writer and nobody
\* waiting to drop it.
FreshClients == \A c \in Client : ~Started(c) =>
                  c \notin closed /\ dropping[c] = 0

\* While a message is handed out, its recipients stay registered.
LeftRegistered == ~dead => left \subseteq Registered /\ (current = NoMessage => left = {})

Inv == TypeOK /\ MapSound /\ FreshClients /\ LeftRegistered /\ OpenIffRegistered
         /\ PanicsOnlyAfterReplacement

Shape == MapSound /\ FreshClients /\ LeftRegistered /\ OpenIffRegistered

LEMMA InitInv == Init => Inv
<1> SUFFICES ASSUME Init PROVE Inv
  OBVIOUS
<1>1. TypeOK
  <2>1. broadcast \in Seq(Addressee) /\ Len(broadcast) <= BroadcastSize
    BY HubAssumption DEF Init
  <2>2. send \in [Client -> 0..SendSize]
    BY HubAssumption DEF Init
  <2> QED
    BY <2>1, <2>2 DEF Init, TypeOK
<1>2. \A u \in User : clients[u] = NoClient
  BY DEF Init
<1>3. \A c \in Client : ~Started(c) /\ dropping[c] = 0 /\ c \notin closed
  BY DEF Init, Started
<1>4. ~dead /\ left = {}
  BY DEF Init
<1> QED
  BY <1>1, <1>2, <1>3, <1>4
  DEF Inv, MapSound, FreshClients, LeftRegistered, OpenIffRegistered,
      PanicsOnlyAfterReplacement, Started

\* Steps that touch neither the map nor the channels, and start no client.
LEMMA OutsideHub ==
  ASSUME Inv, ~dead,
         UNCHANGED <<clients, current, left, closed, dropping, dead>>,
         \A c \in Client : Started(c)' <=> Started(c)
  PROVE  Shape' /\ PanicsOnlyAfterReplacement'
<1> USE DEF Started
<1>1. MapSound'
  BY DEF Inv, MapSound, TypeOK
<1>2. FreshClients' /\ OpenIffRegistered'
  BY DEF Inv, FreshClients, OpenIffRegistered
<1>3. LeftRegistered'
  BY DEF Inv, LeftRegistered, Registered
<1>4. PanicsOnlyAfterReplacement'
  BY DEF PanicsOnlyAfterReplacement
<1> QED
  BY <1>1, <1>2, <1>3, <1>4 DEF Shape

\* The goroutines of a connection, and the callers.
LEMMA PumpsPreserve ==
  ASSUME Inv, NEW c \in Client,
         ServeWs(c) \/ ReadFails(c) \/ WriteFails(c) \/ Pumps(c)
  PROVE  Inv'
<1> USE DEF Inv, TypeOK
<1>1. CASE ServeWs(c)
  <2>1. TypeOK'
    BY <1>1 DEF ServeWs
  <2>2. ~dead /\ UNCHANGED <<clients, current, left, closed, dropping, dead>>
          /\ \A d \in Client : Started(d)' <=> Started(d)
    BY <1>1 DEF ServeWs, Started
  <2> QED
    BY <2>1, <2>2, OutsideHub DEF Shape
<1>2. CASE ReadFails(c)
  <2>1. TypeOK'
    BY <1>2 DEF ReadFails
  <2>2. ~dead /\ UNCHANGED <<clients, current, left, closed, dropping, dead>>
          /\ \A d \in Client : Started(d)' <=> Started(d)
    BY <1>2 DEF ReadFails, Started
  <2> QED
    BY <2>1, <2>2, OutsideHub DEF Shape
<1>3. CASE WriteFails(c) \/ Pumps(c)
  <2>1. /\ send' \in [Client -> 0..SendSize]
        /\ writer' \in [Client -> {"none", "writing", "done"}]
        /\ conn' \in [Client -> {"none", "open", "closed"}]
    <3>1. \/ send' = send
          \/ send[c] > 0 /\ send' = [send EXCEPT ![c] = @ - 1]
      BY <1>3 DEF WriteFails, Pumps, Write, ChannelEnds
    <3>2. send[c] > 0 => send[c] - 1 \in 0..SendSize
      BY HubAssumption
    <3>3. send' \in [Client -> 0..SendSize]
      BY <3>1, <3>2
    <3>4. \/ UNCHANGED <<writer, conn>>
          \/ WriterReturns(c)
      BY <1>3 DEF WriteFails, Pumps, Write, ChannelEnds
    <3> QED
      BY <3>3, <3>4 DEF WriterReturns
  <2>2. ~dead /\ UNCHANGED <<clients, broadcast, current, left, reader, closed, dropping,
                             caller, sends, dead>>
    BY <1>3 DEF WriteFails, Pumps, Write, ChannelEnds, WriterReturns
  <2>3. TypeOK'
    BY <2>1, <2>2
  <2>4. \A d \in Client : Started(d)' <=> Started(d)
    BY <2>2 DEF Started
  <2> QED
    BY <2>2, <2>3, <2>4, OutsideHub DEF Shape
<1> QED
  BY <1>1, <1>2, <1>3

LEMMA CallersPreserve ==
  ASSUME Inv, NEW k \in Caller,
         SendToUser(k) \/ Broadcast(k) \/ SendBuildStatus(k) \/ Push(k)
  PROVE  Inv'
<1> USE DEF Inv, TypeOK
<1>1. CASE SendToUser(k) \/ Broadcast(k) \/ SendBuildStatus(k)
  <2>1. PICK to \in Addressee : Call(k, to)
    BY <1>1 DEF SendToUser, Broadcast, SendBuildStatus, Addressee
  <2>2. TypeOK'
    BY <2>1 DEF Call
  <2>3. ~dead /\ UNCHANGED <<clients, current, left, closed, dropping, dead>>
          /\ \A d \in Client : Started(d)' <=> Started(d)
    BY <2>1 DEF Call, Started
  <2> QED
    BY <2>2, <2>3, OutsideHub DEF Shape
<1>2. CASE Push(k)
  <2>1. caller[k] \in Addressee
    BY <1>2 DEF Push
  <2>2. broadcast' \in Seq(Addressee) /\ Len(broadcast') <= BroadcastSize
    BY <1>2, <2>1, HubAssumption DEF Push
  <2>3. TypeOK'
    BY <1>2, <2>2 DEF Push
  <2>4. ~dead /\ UNCHANGED <<clients, current, left, closed, dropping, dead>>
          /\ \A d \in Client : Started(d)' <=> Started(d)
    BY <1>2 DEF Push, Started
  <2> QED
    BY <2>3, <2>4, OutsideHub DEF Shape
<1> QED
  BY <1>1, <1>2
\* A step that hands out a message leaves the map alone.
LEMMA HandingOutPreserves ==
  ASSUME Inv, Take \/ MessageDone \/ \E c \in Client : Offer(c)
  PROVE  Inv'
<1> USE DEF Inv, TypeOK
<1>1. CASE Take
  <2>1. Head(broadcast) \in Addressee /\ Tail(broadcast) \in Seq(Addressee)
          /\ Len(Tail(broadcast)) <= BroadcastSize
    BY <1>1, HubAssumption DEF Take
  <2>2. Head(broadcast) # NoMessage
    BY <2>1, HubAssumption DEF Addressee
  <2>3. left' \subseteq Registered /\ Registered \subseteq Client
    BY <1>1 DEF Take, Recipients, Registered
  <2>4. TypeOK'
    BY <1>1, <2>1, <2>3 DEF Take
  <2>5. UNCHANGED <<clients, reader, closed, dropping, dead>> /\ current' # NoMessage
          /\ ~dead
    BY <1>1, <2>2 DEF Take
  <2>6. LeftRegistered'
    BY <2>3, <2>5 DEF LeftRegistered, Registered
  <2> QED
    BY <2>4, <2>5, <2>6 DEF MapSound, FreshClients, OpenIffRegistered, Started,
       PanicsOnlyAfterReplacement
<1>2. CASE MessageDone
  <2>1. TypeOK'
    BY <1>2 DEF MessageDone
  <2> QED
    BY <1>2, <2>1 DEF MessageDone, MapSound, FreshClients, OpenIffRegistered, Started,
       PanicsOnlyAfterReplacement, LeftRegistered, Registered
<1>3. CASE \E c \in Client : Offer(c)
  <2>1. PICK c \in Client : Offer(c)
    BY <1>3
  <2>2. c \in Registered /\ ~dead /\ current # NoMessage
    BY <2>1 DEF Offer, LeftRegistered
  <2>3. clients[UserOf[c]] = c /\ Started(c)
    BY <2>2, HubAssumption DEF Registered, MapSound
  <2>4. c \notin closed
    BY <2>2, <2>3 DEF OpenIffRegistered, Started
  <2>5. /\ UNCHANGED <<clients, broadcast, current, conn, reader, writer, closed,
                       caller, sends>>
        /\ left' = left \ {c} /\ ~dead' /\ dead' \in BOOLEAN
    BY <2>1, <2>4 DEF Offer
  <2>6. /\ send' = send \/ (send[c] < SendSize /\ send' = [send EXCEPT ![c] = @ + 1])
        /\ dropping' = dropping \/ dropping' = [dropping EXCEPT ![c] = @ + 1]
    BY <2>1 DEF Offer
  <2>7. send' \in [Client -> 0..SendSize] /\ dropping' \in [Client -> Nat]
    <3>1. send[c] < SendSize => send[c] + 1 \in 0..SendSize
      BY HubAssumption
    <3>2. dropping[c] + 1 \in Nat
      OBVIOUS
    <3>3. send' \in [Client -> 0..SendSize]
      BY <2>6, <3>1
    <3>4. dropping' \in [Client -> Nat]
      BY <2>6, <3>2
    <3> QED
      BY <3>3, <3>4
  <2>8. TypeOK'
    BY <2>5, <2>7
  <2>9. FreshClients'
    BY <2>3, <2>5, <2>6 DEF FreshClients, Started
  <2>10. LeftRegistered'
    BY <2>2, <2>5 DEF LeftRegistered, Registered
  <2> QED
    BY <2>2, <2>5, <2>8, <2>9, <2>10 DEF MapSound, OpenIffRegistered, Started,
       PanicsOnlyAfterReplacement
<1> QED
  BY <1>1, <1>2, <1>3

\* A new client takes its user's place; the one it replaces was open.
LEMMA RegisterPreserves ==
  ASSUME Inv, NEW c \in Client, Register(c)
  PROVE  Inv'
<1> USE DEF Inv, TypeOK
<1> DEFINE u == UserOf[c]
           old == {clients[u]} \ {NoClient}
<1>1. u \in User /\ old \subseteq Client /\ ~Started(c) /\ ~dead
  BY HubAssumption DEF Register, Started
<1>2. \A d \in old : UserOf[d] = u /\ Started(d) /\ d \notin closed
  BY <1>1 DEF MapSound, OpenIffRegistered, Started
<1>3. ~dead' /\ closed' = closed \cup old
  BY <1>2 DEF Register, Close
<1>4. /\ clients' = [clients EXCEPT ![u] = c]
      /\ reader' = [reader EXCEPT ![c] = "reading"]
      /\ UNCHANGED <<current, left, dropping>> /\ current = NoMessage
  BY DEF Register
<1>5. TypeOK'
  <2>1. closed' \subseteq Client /\ dead' \in BOOLEAN
    BY <1>1, <1>3 DEF Register, Close
  <2>2. /\ clients' \in [User -> Client \cup {NoClient}]
        /\ reader' \in [Client -> {"none", "registering", "reading", "leaving", "done"}]
    BY <1>1, <1>4
  <2>3. /\ writer' \in [Client -> {"none", "writing", "done"}]
        /\ UNCHANGED <<broadcast, current, left, conn, send, dropping, caller, sends>>
    BY DEF Register
  <2> QED
    BY <2>1, <2>2, <2>3
<1>6. MapSound'
  <2> SUFFICES ASSUME NEW v \in User, clients'[v] # NoClient
               PROVE  /\ UserOf[clients'[v]] = v
                      /\ reader'[clients'[v]] \in {"reading", "leaving", "done"}
    BY DEF MapSound, Started
  <2>1. CASE v = u
    BY <1>1, <1>4, <2>1 DEF Started
  <2>2. CASE v # u
    <3>1. UserOf[clients[v]] = v /\ Started(clients[v]) /\ clients'[v] = clients[v]
      BY <1>1, <1>4, <2>2 DEF MapSound
    <3> QED
      BY <1>4, <3>1 DEF Started
  <2> QED
    BY <2>1, <2>2
<1>7. FreshClients'
  BY <1>1, <1>2, <1>3, <1>4 DEF FreshClients, Started
<1>8. OpenIffRegistered'
  <2> SUFFICES ASSUME NEW d \in Client, Started(d)'
               PROVE  d \notin closed' <=> clients'[UserOf[d]] = d
    BY DEF OpenIffRegistered, Started
  <2>1. CASE d = c
    <3>1. c \notin closed /\ c \notin old
      BY <1>1, <1>2 DEF FreshClients
    <3> QED
      BY <1>1, <1>3, <1>4, <2>1, <3>1
  <2>2. CASE d # c
    <3>1. Started(d) /\ UserOf[d] \in User
      BY <1>4, <2>2, HubAssumption DEF Started
    <3>2. d \notin closed <=> clients[UserOf[d]] = d
      BY <1>1, <3>1 DEF OpenIffRegistered, Started
    <3>3. d \in old <=> (UserOf[d] = u /\ clients[u] = d)
      BY <1>2, HubAssumption
    <3>4. clients'[UserOf[d]] = IF UserOf[d] = u THEN c ELSE clients[UserOf[d]]
      BY <1>1, <1>4, <3>1
    <3> QED
      BY <1>3, <2>2, <3>2, <3>3, <3>4
  <2> QED
    BY <2>1, <2>2
<1>9. LeftRegistered'
  BY <1>1, <1>4 DEF LeftRegistered
<1> QED
  BY <1>3, <1>5, <1>6, <1>7, <1>8, <1>9 DEF PanicsOnlyAfterReplacement

\* Whoever has c unregistered, c has registered: its user loses its client, and
\* if that is another one, c's channel was closed before.
LEMMA UnregisterPreserves ==
  ASSUME Inv, NEW c \in Client, Unregister(c), Started(c), TypeOK',
         UNCHANGED <<current, left>>,
         \A d \in Client : (Started(d)' <=> Started(d)) /\ (reader[d] # "none" => reader'[d] # "none"),
         \A d \in Client : dropping[d] = 0 => dropping'[d] = 0
  PROVE  Inv'
<1> USE DEF Inv
<1> DEFINE u == UserOf[c]
<1>1. u \in User /\ ~dead /\ left = {} /\ current = NoMessage
  BY HubAssumption DEF Unregister, LeftRegistered
<1>2. CASE clients[u] = NoClient
  <2>1. UNCHANGED <<clients, closed, dead>>
    BY <1>2 DEF Unregister
  <2>2. MapSound'
    BY <2>1 DEF MapSound, TypeOK
  <2>3. FreshClients' /\ OpenIffRegistered' /\ LeftRegistered' /\ PanicsOnlyAfterReplacement'
    BY <1>1, <2>1 DEF FreshClients, OpenIffRegistered, LeftRegistered,
       PanicsOnlyAfterReplacement, Started
  <2> QED
    BY <2>2, <2>3
<1>3. CASE clients[u] # NoClient
  <2>1. /\ clients' = [clients EXCEPT ![u] = NoClient]
        /\ closed' = closed \cup {c} /\ dead' = ({c} \cap closed # {})
    BY <1>3 DEF Unregister, Close
  <2>2. MapSound'
    BY <1>1, <2>1 DEF MapSound, TypeOK
  <2>3. FreshClients'
    BY <2>1 DEF FreshClients
  <2>4. LeftRegistered'
    BY <1>1 DEF LeftRegistered
  <2>5. OpenIffRegistered'
    <3> SUFFICES ASSUME ~dead', NEW d \in Client, Started(d)'
                 PROVE  d \notin closed' <=> clients'[UserOf[d]] = d
      BY DEF OpenIffRegistered, Started
    <3>1. clients[u] = c
      BY <1>1, <2>1 DEF OpenIffRegistered, Started
    <3>2. d \notin closed <=> clients[UserOf[d]] = d
      BY <1>1 DEF OpenIffRegistered, Started
    <3>3. UserOf[d] \in User /\ NoClient # d
      BY HubAssumption
    <3>4. clients'[UserOf[d]] = IF UserOf[d] = u THEN NoClient ELSE clients[UserOf[d]]
      BY <1>1, <2>1, <3>3 DEF TypeOK
    <3> QED
      BY <2>1, <3>1, <3>2, <3>3, <3>4
  <2>6. PanicsOnlyAfterReplacement'
    <3> SUFFICES ASSUME dead'
                 PROVE  \E d, e \in Client : /\ d # e /\ UserOf[d] = UserOf[e]
                                             /\ d \in closed' /\ reader'[e] # "none"
      BY DEF PanicsOnlyAfterReplacement
    <3> DEFINE e == clients[u]
    <3>1. c \in closed /\ e \in Client /\ UserOf[e] = u /\ Started(e)
      BY <1>1, <1>3, <2>1 DEF MapSound, TypeOK
    <3>2. e # c
      BY <1>1, <3>1 DEF OpenIffRegistered, Started
    <3>3. reader[e] # "none"
      BY <3>1 DEF Started
    <3> QED
      BY <2>1, <3>1, <3>2, <3>3
  <2> QED
    BY <2>2, <2>3, <2>4, <2>5, <2>6
<1> QED
  BY <1>2, <1>3

LEMMA LeavingPreserves ==
  ASSUME Inv, NEW c \in Client, ReaderLeaves(c) \/ DropFull(c)
  PROVE  Inv'
<1> USE DEF Inv
<1>1. CASE ReaderLeaves(c)
  <2>1. Started(c) /\ Unregister(c)
    BY <1>1 DEF ReaderLeaves, Started
  <2>2. TypeOK'
    BY <1>1, HubAssumption DEF ReaderLeaves, Unregister, Close, TypeOK
  <2>3. /\ \A d \in Client : /\ Started(d)' <=> Started(d)
                             /\ reader[d] # "none" => reader'[d] # "none"
        /\ UNCHANGED <<current, left, dropping>>
    BY <1>1 DEF ReaderLeaves, Unregister, Started, TypeOK
  <2> QED
    BY <2>1, <2>2, <2>3, UnregisterPreserves
<1>2. CASE DropFull(c)
  <2>1. Started(c) /\ Unregister(c)
    BY <1>2 DEF DropFull, FreshClients, TypeOK
  <2>2. dropping[c] - 1 \in Nat /\ dropping' = [dropping EXCEPT ![c] = @ - 1]
    BY <1>2 DEF DropFull, TypeOK
  <2>3. TypeOK'
    <3>1. /\ clients' \in [User -> Client \cup {NoClient}]
          /\ closed' \subseteq Client /\ dead' \in BOOLEAN
      BY <2>1, HubAssumption DEF Unregister, Close, TypeOK
    <3>2. dropping' \in [Client -> Nat]
      BY <2>2 DEF TypeOK
    <3>3. UNCHANGED <<broadcast, current, left, conn, reader, writer, send, caller, sends>>
      BY <1>2 DEF DropFull
    <3> QED
      BY <3>1, <3>2, <3>3 DEF TypeOK
  <2>4. UNCHANGED <<current, left, reader>>
    BY <1>2 DEF DropFull, Unregister
  <2>5. \A d \in Client : dropping[d] = 0 => dropping'[d] = 0
    BY <1>2, <2>2 DEF DropFull, TypeOK
  <2> QED
    BY <2>1, <2>3, <2>4, <2>5, UnregisterPreserves DEF Started
<1> QED
  BY <1>1, <1>2

LEMMA NextPreserves == Inv /\ [Next]_vars => Inv'
<1> SUFFICES ASSUME Inv, [Next]_vars PROVE Inv'
  OBVIOUS
<1>1. CASE Run
  BY <1>1, HandingOutPreserves, RegisterPreserves, LeavingPreserves DEF Run
<1>2. CASE \E c \in Client : ServeWs(c) \/ ReadFails(c) \/ WriteFails(c) \/ Pumps(c)
  BY <1>2, PumpsPreserve
<1>3. CASE \E k \in Caller : SendToUser(k) \/ Broadcast(k) \/ SendBuildStatus(k) \/ Push(k)
  BY <1>3, CallersPreserve
<1>4. CASE UNCHANGED vars
  BY <1>4 DEF vars, Inv, TypeOK, MapSound, FreshClients, LeftRegistered,
     OpenIffRegistered, PanicsOnlyAfterReplacement, Started, Registered
<1> QED
  BY <1>1, <1>2, <1>3, <1>4 DEF Next

THEOREM InvAlways == Spec => []Inv
BY InitInv, NextPreserves, PTL DEF Spec

\* The map, the channels and the goroutines are well typed for any connections
\* (internal/websocket).
THEOREM TypeCorrect == Spec => []TypeOK
<1>1. Inv => TypeOK
  BY DEF Inv
<1> QED
  BY <1>1, InvAlways, PTL

\* The open channels are those of the registered clients (registerClient,
\* unregisterClient): the hub sends on no closed channel.
THEOREM OpenIffRegisteredAlways == Spec => []OpenIffRegistered
<1>1. Inv => OpenIffRegistered
  BY DEF Inv
<1> QED
  BY <1>1, InvAlways, PTL

\* The one way the hub panics is a second connection of a user
\* (unregisterClient): otherwise a channel is closed once, whoever unregisters.
THEOREM PanicsOnlyAfterReplacementAlways == Spec => []PanicsOnlyAfterReplacement
<1>1. Inv => PanicsOnlyAfterReplacement
  BY DEF Inv
<1> QED
  BY <1>1, InvAlways, PTL
=============================================================================
