------------------------------- MODULE Session -------------------------------
(***************************************************************************)
(* The sessions two devices keep with each other: opening a connection      *)
(* through Tor, the four-cell handshake that gives it a key, the threads     *)
(* that read, handle and write cells, the teardown of a connection and the   *)
(* reconnection that follows (tor/server/ServerMessageHandler.java).         *)
(*                                                                         *)
(* Each device runs, as in the code,                                        *)
(*   - one CreateConnectionThread per connection being opened (creating);    *)
(*   - a RequestHandler per accepted socket and a ClientTransport per        *)
(*     handshake started (handler, transports), which read cells off the     *)
(*     socket and put them in recieveQueue (rq);                             *)
(*   - one Reader, which handles recieveQueue in order (rd is its progress    *)
(*     between sending a handshake reply and recording its outcome);         *)
(*   - one Writer, which writes sendQueue (sq) to the sockets;               *)
(*   - the main thread, where the chat screen handles posted events.         *)
(* A cell is what one 2048-byte read returns: its type, and the key it       *)
(* carries (EXCHANGE) or is encrypted with (data cells).                     *)
(*                                                                         *)
(* Five operators are variants with a slip a change of the code could make,  *)
(* each before the operator it varies: DeleteConnectionStale,                *)
(* CreateConnectionFailsTwice, TryResendKeeping, UpdatedAnyway and           *)
(* UpdatedNewest.  The specification uses none of them: they show that the    *)
(* properties can be broken.                                                 *)
(***************************************************************************)
EXTENDS ConnectionItems

CONSTANTS A, B,      \* the two devices
          Nobody,    \* the opener of a socket not opened yet
          Sock,      \* the sockets the two may open to each other
          Users,     \* the devices whose user acts
          Reports,   \* what the offline server may have said of a contact
          MaxOpen,   \* bound: chat screens opened, contacts reported on line
          MaxText,   \* bound: texts sent
          MaxFile,   \* bound: files announced
          MaxCut,    \* bound: circuits that break
          MaxNet     \* bound: offline-to-online changes of the network

ASSUME PeersDiffer  == A # B /\ Nobody \notin {A, B}
ASSUME UsersArePeers == Users \subseteq {A, B} /\ Reports \subseteq BOOLEAN
ASSUME BoundsAreNat == {MaxOpen, MaxText, MaxFile, MaxCut, MaxNet} \subseteq Nat

Peer == {A, B}
Other(p) == IF p = A THEN B ELSE A

VARIABLES
  client,      \* who opened each socket
  open,        \* open[p][s]: p's end is open
  cut,         \* the sockets whose circuit broke
  wire,        \* wire[p][s]: cells on their way to p
  table,       \* p's connections with the other device, in order
  item,        \* item[p][s]: the ConnectionStatusItem p made for s
  known,       \* the sockets p has made an item for
  creating,    \* creating[p][purpose]: CreateConnectionThreads running
  handler,     \* the sockets a RequestHandler of p reads
  transports,  \* transports[p][s]: ClientTransports of p reading s
  rq, sq,      \* recieveQueue and sendQueue
  rd,          \* the status update the Reader still has to record
  failed,      \* failedQueue: texts waiting to be sent again
  resending,   \* tryResendAll is due once the contacts are reconnected
  tried,       \* the Writer's set of sockets it has deleted once
  receiving,   \* the devices a file was announced to: they have a FileTask for it
  chat,        \* the chat screen is shown
  events,      \* the events posted to it
  online,      \* the contact's onlineStatus is "1": sending goes on line
  label,       \* the contact's state as the screen shows it
  started,     \* sockets START_COMMUNICATION_SUCCESS was broadcast for
  made,        \* history: made[k] is the socket key k was chosen for
  spent        \* how much of each bound is used

netVars  == <<client, open, cut, wire>>
connVars == <<table, item, known, creating>>
thrVars  == <<handler, transports>>
queVars  == <<rq, sq, failed, resending, tried, receiving>>
uiVars   == <<chat, events, online, label>>
vars == <<netVars, connVars, thrVars, queVars, rd, uiVars, started, made, spent>>

-----------------------------------------------------------------------------
(* Cells and queue entries *)

HandShakeType == {"REQUEST", "AUTH", "EXCHANGE", "DONE"}
DataType      == {"DATA_MESSAGE", "FILE_META", "FILE_READY", "ACK"}
Cell    == [type : HandShakeType \cup DataType, key : Nat]
Message == [sock : Sock, type : HandShakeType \cup DataType, key : Nat]

ToCell(m)      == [type |-> m.type, key |-> m.key]
ToMessage(s, c) == [sock |-> s, type |-> c.type, key |-> c.key]

Pending == [sock : Sock, status : {0, 1}, key : Nat]
Idle    == [sock |-> Nobody, status |-> 0, key |-> NoKey]
Bounds  == [open |-> MaxOpen, text |-> MaxText, file |-> MaxFile,
            cut |-> MaxCut, net |-> MaxNet]
CanSpend(what) == spent[what] < Bounds[what]
Spend(what)    == spent' = [spent EXCEPT ![what] = @ + 1]

TypeOK ==
  /\ client \in [Sock -> Peer \cup {Nobody}]
  /\ open \in [Peer -> [Sock -> BOOLEAN]]
  /\ cut \subseteq Sock
  /\ wire \in [Peer -> [Sock -> Seq(Cell)]]
  /\ table \in [Peer -> Seq(Sock)]
  /\ item \in [Peer -> [Sock -> Connection]]
  /\ known \in [Peer -> SUBSET Sock]
  /\ creating \in [Peer -> [Purpose -> Nat]]
  /\ handler \in [Peer -> SUBSET Sock]
  /\ transports \in [Peer -> [Sock -> Nat]]
  /\ rq \in [Peer -> Seq(Message)]
  /\ sq \in [Peer -> Seq(Message)]
  /\ rd \in [Peer -> Pending \cup {Idle}]
  /\ failed \in [Peer -> Nat]
  /\ resending \in [Peer -> BOOLEAN]
  /\ tried \in [Peer -> SUBSET Sock]
  /\ receiving \subseteq Peer
  /\ chat \in [Peer -> BOOLEAN]
  /\ events \in [Peer -> Seq({"success", "fail", "start", "received"})]
  /\ online \in [Peer -> BOOLEAN]
  /\ label \in [Peer -> {"on_line", "off_line"}]
  /\ started \in [Peer -> SUBSET Sock]
  /\ made \in Seq(Sock)
  /\ spent \in [DOMAIN Bounds -> Nat]

-----------------------------------------------------------------------------
(* The connection table of p: getConnectionStatusItemByOnionName,           *)
(* createConnectionAsyc, deleteConnection.                                   *)

InTable(p, s) == s \in Range(table[p])

(* The position getConnByPurpose picks in a list of sockets whose items are  *)
(* its, the socket there, and whether there is one.                          *)
Pick(its, socks, purpose) ==
  GetConnByPurpose([i \in DOMAIN socks |-> its[socks[i]]], purpose)
HasConn(its, socks, purpose) == Pick(its, socks, purpose) # Nil
ConnOf(its, socks, purpose) == socks[Pick(its, socks, purpose)]

(* createConnectionAsyc: a thread only if no connection would serve. *)
CreateConnectionAsyc(p, socks, purpose) ==
  creating' = IF HasConn(item[p], socks, purpose)
              THEN creating
              ELSE [creating EXCEPT ![p][purpose] = @ + 1]

(* deleteConnection: drop the socket from the table; open a new connection   *)
(* if nothing is left for its purpose, or (a socket already deleted) for      *)
(* texts if the table is empty.                                              *)
DeleteConnectionStale(p, its, s) ==
  /\ table' = [table EXCEPT ![p] = RemoveConnBySocket(@, s)]
  /\ CreateConnectionAsyc(p, table[p], its[s].purpose)
DeleteConnectionOf(p, its, s) ==
  LET socks   == RemoveConnBySocket(table[p], s)
      purpose == IF InTable(p, s) THEN its[s].purpose ELSE TEXT
  IN  /\ table' = [table EXCEPT ![p] = socks]
      /\ IF InTable(p, s) \/ socks = <<>>
         THEN CreateConnectionAsyc(p, socks, purpose)
         ELSE UNCHANGED creating
DeleteConnection(p, s) == DeleteConnectionOf(p, item[p], s)

-----------------------------------------------------------------------------
(* Sockets *)

Gone(p, s) == s \in cut \/ ~open[p][s] \/ ~open[Other(p)][s]

(* What the wires become when p writes c: a cell to a dead end is lost. *)
Wrote(p, s, c) ==
  IF Gone(p, s) THEN wire
                ELSE [wire EXCEPT ![Other(p)][s] = Append(@, c)]

(* sendMessage succeeds, or throws and closes the socket: it may throw once   *)
(* the connection is gone, it must once this end is closed.                   *)
SendMessage(p, s, c) ==
  /\ open[p][s]
  /\ wire' = Wrote(p, s, c)
  /\ UNCHANGED open
SendMessageFails(p, s) ==
  /\ Gone(p, s)
  /\ open' = [open EXCEPT ![p][s] = FALSE]
  /\ wire' = [wire EXCEPT ![p][s] = <<>>]

(* close() by a reading thread; cells not yet read are lost. *)
Close(p, s) ==
  /\ open' = [open EXCEPT ![p][s] = FALSE]
  /\ wire' = [wire EXCEPT ![p][s] = <<>>]

-----------------------------------------------------------------------------
(* Opening connections *)

Init ==
  /\ client = [s \in Sock |-> Nobody]
  /\ open = [p \in Peer |-> [s \in Sock |-> FALSE]]
  /\ cut = {}
  /\ wire = [p \in Peer |-> [s \in Sock |-> <<>>]]
  /\ table = [p \in Peer |-> <<>>]
  /\ item = [p \in Peer |-> [s \in Sock |-> NewConnection(TEXT)]]
  /\ known = [p \in Peer |-> {}]
  /\ creating = [p \in Peer |-> [u \in Purpose |-> 0]]
  /\ handler = [p \in Peer |-> {}]
  /\ transports = [p \in Peer |-> [s \in Sock |-> 0]]
  /\ rq = [p \in Peer |-> <<>>]
  /\ sq = [p \in Peer |-> <<>>]
  /\ rd = [p \in Peer |-> Idle]
  /\ failed = [p \in Peer |-> 0]
  /\ resending = [p \in Peer |-> FALSE]
  /\ tried = [p \in Peer |-> {}]
  /\ receiving = {}
  /\ chat = [p \in Peer |-> FALSE]
  /\ events = [p \in Peer |-> <<>>]
  /\ online = [p \in Peer |-> FALSE]
  /\ label = [p \in Peer |-> "off_line"]
  /\ started = [p \in Peer |-> {}]
  /\ made = <<>>
  /\ spent = [what \in DOMAIN Bounds |-> 0]

(* EventBus delivers to the chat screen only while it is registered. *)
Post(p, news) ==
  events' = IF chat[p] THEN [events EXCEPT ![p] = @ \o news] ELSE events

Shown(isOnline) == IF isOnline THEN "on_line" ELSE "off_line"

(* The chat screen is shown, with the status the contact list has for the      *)
(* contact: onCreate registers and connects the contact.                       *)
OpenChat(p) ==
  /\ p \in Users /\ ~chat[p]
  /\ CanSpend("open") /\ Spend("open")
  /\ chat' = [chat EXCEPT ![p] = TRUE]
  /\ \E status \in Reports :
       /\ online' = [online EXCEPT ![p] = status]
       /\ label' = [label EXCEPT ![p] = Shown(status)]
  /\ CreateConnectionAsyc(p, table[p], TEXT)
  /\ UNCHANGED <<netVars, table, item, known, thrVars, queVars, rd, events, started,
                 made>>

(* The contact list learns that the contact is on line and connects it.         *)
ContactReported(p) ==
  /\ p \in Users /\ TRUE \in Reports
  /\ CanSpend("open") /\ Spend("open")
  /\ CreateConnectionAsyc(p, table[p], TEXT)
  /\ UNCHANGED <<netVars, table, item, known, thrVars, queVars, rd, uiVars, started,
                 made>>

(* The chat screen is left: onDestroy unregisters, pending events are lost. *)
CloseChat(p) ==
  /\ chat[p]
  /\ chat' = [chat EXCEPT ![p] = FALSE]
  /\ events' = [events EXCEPT ![p] = <<>>]
  /\ UNCHANGED <<netVars, connVars, thrVars, queVars, rd, online, label, started,
                 made, spent>>

(* socket.connect succeeds: p has a new connection of this purpose, and the   *)
(* other device accepts it and starts a RequestHandler on it.                 *)
Connected(p, s, purpose) ==
  /\ client[s] = Nobody
  /\ client' = [client EXCEPT ![s] = p]
  /\ open' = [q \in Peer |-> [open[q] EXCEPT ![s] = TRUE]]
  /\ table' = [table EXCEPT ![p] = AddNewConn(@, s)]
  /\ item' = [item EXCEPT ![p][s] = NewConnection(purpose)]
  /\ known' = [known EXCEPT ![p] = @ \cup {s}]
  /\ handler' = [handler EXCEPT ![Other(p)] = @ \cup {s}]

(* A CreateConnectionThread connects at one of its attempts.  It posts        *)
(* "success", leaves its loop, and posts "fail".                              *)
CreateConnectionOk(p, s, purpose) ==
  /\ creating[p][purpose] > 0
  /\ Connected(p, s, purpose)
  /\ creating' = [creating EXCEPT ![p][purpose] = @ - 1]
  /\ Post(p, <<"success", "fail">>)
  /\ UNCHANGED <<cut, wire, transports, queVars, rd, chat, online, label, started,
                 made, spent>>

(* All its attempts failed; the variant does not look whether it still runs. *)
CreateConnectionFailsTwice(p, purpose) ==
  /\ creating' = [creating EXCEPT ![p][purpose] = @ - 1]
  /\ Post(p, <<"fail">>)
  /\ UNCHANGED <<netVars, table, item, known, thrVars, queVars, rd, chat, online,
                 label, started, made, spent>>
CreateConnectionFails(p, purpose) ==
  /\ creating[p][purpose] > 0
  /\ creating' = [creating EXCEPT ![p][purpose] = @ - 1]
  /\ Post(p, <<"fail">>)
  /\ UNCHANGED <<netVars, table, item, known, thrVars, queVars, rd, chat, online,
                 label, started, made, spent>>

(* A ClientTransport starts on s and writes the REQUEST.  (Nothing it does     *)
(* before the write depends on shared state.)                                 *)
StartTransport(p, s) ==
  /\ SendMessage(p, s, [type |-> "REQUEST", key |-> NoKey])
  /\ transports' = [transports EXCEPT ![p][s] = @ + 1]
  /\ UNCHANGED <<table, creating>>
StartTransportFails(p, s) ==
  /\ SendMessageFails(p, s)
  /\ DeleteConnection(p, s)
  /\ UNCHANGED transports

(* createConnectionSuccess on the main thread, message "success": the chat     *)
(* screen handshakes on the connection getConnByPurpose picks, if it has no    *)
(* key yet.                                                                    *)
HandleSuccess(p) ==
  LET s == ConnOf(item[p], table[p], TEXT)
  IN  /\ events[p] # <<>> /\ Head(events[p]) = "success"
      /\ events' = [events EXCEPT ![p] = Tail(@)]
      /\ label' = [label EXCEPT ![p] = "on_line"]
      /\ IF HasConn(item[p], table[p], TEXT) /\ item[p][s].key = NoKey
         THEN StartTransport(p, s) \/ StartTransportFails(p, s)
         ELSE UNCHANGED <<open, wire, table, creating, transports>>
      /\ UNCHANGED <<client, cut, item, known, handler, queVars, rd, chat, online,
                     started, made, spent>>

(* Message "fail": the contact is shown off line and the texts that failed     *)
(* are handed to the offline server (processOfflineMessage).                   *)
HandleFail(p) ==
  /\ events[p] # <<>> /\ Head(events[p]) = "fail"
  /\ events' = [events EXCEPT ![p] = Tail(@)]
  /\ online' = [online EXCEPT ![p] = FALSE]
  /\ label' = [label EXCEPT ![p] = "off_line"]
  /\ failed' = [failed EXCEPT ![p] = 0]
  /\ UNCHANGED <<netVars, connVars, thrVars, rq, sq, resending, tried, receiving, rd,
                 chat, started, made, spent>>

(* START_COMMUNICATION_SUCCESS, and a text or a file announced by the contact    *)
(* (HAS_RECEIVED_MESSAGE, RECIEVE_ONLINE_FILE): the contact is on line.         *)
HandleOnline(p) ==
  /\ events[p] # <<>> /\ Head(events[p]) \in {"start", "received"}
  /\ events' = [events EXCEPT ![p] = Tail(@)]
  /\ IF Head(events[p]) = "start" \/ ~online[p]
     THEN /\ online' = [online EXCEPT ![p] = TRUE]
          /\ label' = [label EXCEPT ![p] = "on_line"]
     ELSE UNCHANGED <<online, label>>
  /\ UNCHANGED <<netVars, connVars, thrVars, queVars, rd, chat, started, made, spent>>

(* The status checker sees the network again: createConnection for the         *)
(* contact, which connects whatever the table holds and handshakes on the       *)
(* connection picked then if it has no key; tryResendAll follows.               *)
NetworkUpOk(p, s) ==
  LET socks == AddNewConn(table[p], s)
      its   == [item[p] EXCEPT ![s] = NewConnection(TEXT)]
      conn  == ConnOf(its, socks, TEXT)
  IN  /\ CanSpend("net") /\ Spend("net")
      /\ Connected(p, s, TEXT)
      /\ IF HasConn(its, socks, TEXT) /\ its[conn].key = NoKey
         THEN /\ transports' = [transports EXCEPT ![p][conn] = @ + 1]
              /\ wire' = [wire EXCEPT ![Other(p)][conn] =
                            Append(@, [type |-> "REQUEST", key |-> NoKey])]
         ELSE UNCHANGED <<transports, wire>>
      /\ resending' = [resending EXCEPT ![p] = TRUE]
      /\ UNCHANGED <<cut, creating, rq, sq, failed, tried, receiving, rd, uiVars,
                     started, made>>
NetworkUpFails(p) ==
  /\ CanSpend("net") /\ Spend("net")
  /\ resending' = [resending EXCEPT ![p] = TRUE]
  /\ UNCHANGED <<netVars, connVars, thrVars, rq, sq, failed, tried, receiving, rd,
                 uiVars, started, made>>

(* tryResend, text messages: the failed texts are encrypted with the key of    *)
(* the connection picked, or with null, and queued.                            *)
TryResendKeeping(p, its) ==
  LET s == ConnOf(its, table[p], TEXT)
      again == [i \in 1 .. failed[p] |->
                  [sock |-> s, type |-> "DATA_MESSAGE", key |-> its[s].key]]
  IN  /\ sq' = IF HasConn(its, table[p], TEXT) THEN [sq EXCEPT ![p] = @ \o again] ELSE sq
      /\ UNCHANGED failed
TryResend(p, its) ==
  LET s == ConnOf(its, table[p], TEXT)
      again == [i \in 1 .. failed[p] |->
                  [sock |-> s, type |-> "DATA_MESSAGE", key |-> its[s].key]]
  IN  IF HasConn(its, table[p], TEXT)
      THEN /\ sq' = [sq EXCEPT ![p] = @ \o again]
           /\ failed' = [failed EXCEPT ![p] = 0]
      ELSE UNCHANGED <<sq, failed>>

TryResendAll(p) ==
  /\ resending[p]
  /\ resending' = [resending EXCEPT ![p] = FALSE]
  /\ TryResend(p, item[p])
  /\ UNCHANGED <<netVars, connVars, thrVars, rq, tried, receiving, rd, uiVars,
                 started, made, spent>>

-----------------------------------------------------------------------------
(* Reading cells: RequestHandler.run and ClientTransport.handle             *)

(* The parser is chosen by the connection's status when the cell is read: a    *)
(* handshake cell at status 0, a data cell under the session key at status 1.  *)
(* A data cell at status 0 makes the RSA parser throw; at status 1 whatever     *)
(* does not decrypt is null and skipped.                                        *)
Readable(p, s, c) == IF item[p][s].status = 0
                     THEN c.type \in HandShakeType
                     ELSE c.type \in DataType /\ c.key = item[p][s].key
Misread(p, s, c)  == item[p][s].status = 0 /\ c.type \in DataType

HasCell(p, s) == open[p][s] /\ s \notin cut /\ wire[p][s] # <<>>

(* Two threads of p read s: each may take a part of a cell, and what either puts       *)
(* together is none.                                                                  *)
TwoReaders(p, s) == transports[p][s] > IF s \in handler[p] THEN 0 ELSE 1

(* The first cell tells the RequestHandler who is calling: it makes the         *)
(* connection, then handles the cell as any other.                             *)
HandlerAccept(p, s) ==
  LET c == Head(wire[p][s])
  IN  /\ s \in handler[p] /\ s \notin known[p] /\ HasCell(p, s)
      /\ c.type \in HandShakeType
      /\ table' = [table EXCEPT ![p] = AddNewConn(@, s)]
      /\ item' = [item EXCEPT ![p][s] = NewConnection(TEXT)]
      /\ known' = [known EXCEPT ![p] = @ \cup {s}]
      /\ wire' = [wire EXCEPT ![p][s] = Tail(@)]
      /\ rq' = [rq EXCEPT ![p] = Append(@, ToMessage(s, c))]
      /\ UNCHANGED <<client, open, cut, creating, thrVars, sq, failed, resending,
                     tried, receiving, rd, uiVars, started, made, spent>>

(* A RequestHandler or a ClientTransport reads a cell, or two tear it. *)
ReadCell(p, s) ==
  LET c == Head(wire[p][s])
  IN  /\ s \in handler[p] \/ transports[p][s] > 0
      /\ s \in known[p] /\ HasCell(p, s)
      /\ wire' = [wire EXCEPT ![p][s] = Tail(@)]
      /\ \/ /\ ~Misread(p, s, c)
            /\ rq' = IF Readable(p, s, c)
                     THEN [rq EXCEPT ![p] = Append(@, ToMessage(s, c))] ELSE rq
         \/ TwoReaders(p, s) /\ rq' = rq
      /\ UNCHANGED <<client, open, cut, connVars, thrVars, sq, failed, resending,
                     tried, receiving, rd, uiVars, started, made, spent>>

(* A reading thread ends: the connection is gone, a cell (or a torn one, at       *)
(* status 0) made the parser throw, or, for a RequestHandler, a cell came in more  *)
(* than ten parts.  It deletes its connection, if it has one, and closes the       *)
(* socket.                                                                       *)
Throws(p, s) == /\ HasCell(p, s)
                /\ IF s \in known[p] THEN Misread(p, s, Head(wire[p][s]))
                                     ELSE Head(wire[p][s]).type \in DataType
ThrowsOnTorn(p, s) == HasCell(p, s) /\ TwoReaders(p, s) /\ item[p][s].status = 0
HandlerStops(p, s) ==
  /\ s \in handler[p] /\ (Gone(p, s) \/ HasCell(p, s))
  /\ IF s \in known[p] THEN DeleteConnection(p, s) ELSE UNCHANGED <<table, creating>>
  /\ Close(p, s)
  /\ handler' = [handler EXCEPT ![p] = @ \ {s}]
  /\ UNCHANGED <<client, cut, item, known, transports, queVars, rd, uiVars, started,
                 made, spent>>
TransportStops(p, s) ==
  /\ transports[p][s] > 0 /\ (Gone(p, s) \/ Throws(p, s) \/ ThrowsOnTorn(p, s))
  /\ DeleteConnection(p, s)
  /\ Close(p, s)
  /\ transports' = [transports EXCEPT ![p][s] = @ - 1]
  /\ UNCHANGED <<client, cut, item, known, handler, queVars, rd, uiVars, started,
                 made, spent>>

-----------------------------------------------------------------------------
(* The Reader: handShakeMessageHandle and dataMessageHandle                  *)

(* The Reader takes the head of recieveQueue, a cell of this type. *)
Takes(p, type) ==
  /\ rd[p] = Idle /\ rq[p] # <<>> /\ Head(rq[p]).type = type
  /\ rq' = [rq EXCEPT ![p] = Tail(@)]

(* The Reader answers on s; a failure deletes the connection. *)
ReplyOk(p, s, c) == SendMessage(p, s, c) /\ UNCHANGED <<table, creating>>
ReplyFails(p, s) == SendMessageFails(p, s) /\ DeleteConnection(p, s)

(* SESSION_REQUEST: back to status 0, then AUTH. *)
HandleRequest(p) ==
  LET s == Head(rq[p]).sock
  IN  /\ Takes(p, "REQUEST")
      /\ item' = IF InTable(p, s) THEN [item EXCEPT ![p][s].status = 0] ELSE item
      /\ \/ ReplyOk(p, s, [type |-> "AUTH", key |-> NoKey])
         \/ ReplyFails(p, s)
      /\ UNCHANGED <<client, cut, known, thrVars, sq, failed, resending, tried,
                     receiving, rd, uiVars, started, made, spent>>

(* SESSION_AUTH: a new key goes out in EXCHANGE; it is recorded afterwards. *)
HandleAuth(p) ==
  LET s == Head(rq[p]).sock
      k == Len(made) + 1
  IN  /\ Takes(p, "AUTH")
      /\ made' = Append(made, s)
      /\ \/ /\ ReplyOk(p, s, [type |-> "EXCHANGE", key |-> k])
            /\ rd' = [rd EXCEPT ![p] = [sock |-> s, status |-> 0, key |-> k]]
         \/ ReplyFails(p, s) /\ UNCHANGED rd
      /\ UNCHANGED <<client, cut, item, known, thrVars, sq, failed, resending, tried,
                     receiving, uiVars, started, spent>>

(* SESSION_EXCHANGE: DONE goes out; the key and status 1 are recorded           *)
(* afterwards.                                                                 *)
HandleExchange(p) ==
  LET m == Head(rq[p])
  IN  /\ Takes(p, "EXCHANGE")
      /\ \/ /\ ReplyOk(p, m.sock, [type |-> "DONE", key |-> NoKey])
            /\ rd' = [rd EXCEPT ![p] = [sock |-> m.sock, status |-> 1, key |-> m.key]]
         \/ ReplyFails(p, m.sock) /\ UNCHANGED rd
      /\ UNCHANGED <<client, cut, item, known, thrVars, sq, failed, resending, tried,
                     receiving, uiVars, started, made, spent>>

(* SESSION_DONE: status 1 is recorded, the key is kept. *)
HandleDone(p) ==
  LET s == Head(rq[p]).sock
  IN  /\ Takes(p, "DONE")
      /\ rd' = [rd EXCEPT ![p] = [sock |-> s, status |-> 1, key |-> NoKey]]
      /\ UNCHANGED <<netVars, connVars, thrVars, sq, failed, resending, tried,
                     receiving, uiVars, started, made, spent>>

(* updateSocketStatus: the status, and the key if there is one, go to the        *)
(* connection if it is still in the table.  Status 1 sends the failed texts      *)
(* again and broadcasts START_COMMUNICATION_SUCCESS, in the table or not.  But a  *)
(* device with a FileTask of a file that has stopped throws in tryResend when it   *)
(* builds the ck for it, and broadcasts nothing.  (Whether the file has stopped   *)
(* is a matter of FileTransfer.)                                                 *)
UpdatedAnyway(p) ==
  [item EXCEPT ![p][rd[p].sock] = Recorded(@, rd[p].status, rd[p].key)]
UpdatedNewest(p) ==
  LET s == table[p][Len(table[p])]
  IN  IF table[p] # <<>>
      THEN [item EXCEPT ![p][s] = Recorded(@, rd[p].status, rd[p].key)] ELSE item
Updated(p) ==
  LET s == rd[p].sock
  IN  IF InTable(p, s)
      THEN [item EXCEPT ![p][s] = Recorded(@, rd[p].status, rd[p].key)] ELSE item

ResendThrows(p, its) ==
  /\ p \in receiving
  /\ HasConn(its, table[p], FILE) /\ its[ConnOf(its, table[p], FILE)].key # NoKey

RecordStatus(p) ==
  /\ rd[p] # Idle
  /\ rd' = [rd EXCEPT ![p] = Idle]
  /\ item' = Updated(p)
  /\ IF rd[p].status = 1
     THEN /\ TryResend(p, Updated(p)[p])
          /\ \/ /\ started' = [started EXCEPT ![p] = @ \cup {rd[p].sock}]
                /\ Post(p, <<"start">>)
             \/ ResendThrows(p, Updated(p)[p]) /\ UNCHANGED <<started, events>>
     ELSE UNCHANGED <<sq, failed, started, events>>
  /\ UNCHANGED <<netVars, table, known, creating, thrVars, rq, resending, tried,
                 receiving, chat, online, label, made, spent>>

(* dataMessageHandle: a cell whose connection was deleted is dropped; a text is   *)
(* acknowledged; META and READY make the connection a file connection, and a      *)
(* META is answered by READY.  (The pieces that follow are in FileTransfer.)      *)
HandleData(p) ==
  LET m == Head(rq[p])
      s == m.sock
      its == IF InTable(p, s) /\ m.type \in {"FILE_META", "FILE_READY"}
             THEN [item[p] EXCEPT ![s].purpose = FILE] ELSE item[p]
      reply == [type |-> IF m.type = "FILE_META" THEN "FILE_READY" ELSE "ACK",
                key |-> item[p][s].key]
  IN  /\ \E type \in DataType : Takes(p, type)
      /\ item' = [item EXCEPT ![p] = its]
      /\ IF InTable(p, s) /\ m.type \in {"DATA_MESSAGE", "FILE_META"}
         THEN \/ /\ ReplyOk(p, s, reply) /\ Post(p, <<"received">>)
                 /\ receiving' = IF m.type = "FILE_META" THEN receiving \cup {p}
                                                        ELSE receiving
              \/ /\ SendMessageFails(p, s) /\ DeleteConnectionOf(p, its, s)
                 /\ Post(p, IF m.type = "DATA_MESSAGE" THEN <<"received">> ELSE <<>>)
                 /\ UNCHANGED receiving
         ELSE UNCHANGED <<open, wire, table, creating, events, receiving>>
      /\ UNCHANGED <<client, cut, known, thrVars, sq, failed, resending, tried, rd,
                     chat, online, label, started, made, spent>>

-----------------------------------------------------------------------------
(* The Writer *)

(* A queued cell is written to its socket. *)
WriteCell(p) ==
  LET m == Head(sq[p])
  IN  /\ sq[p] # <<>> /\ m.key # NoKey
      /\ SendMessage(p, m.sock, ToCell(m))
      /\ sq' = [sq EXCEPT ![p] = Tail(@)]
      /\ UNCHANGED <<client, cut, connVars, thrVars, rq, failed, resending, tried,
                     receiving, rd, uiVars, started, made, spent>>

(* The write throws: the socket is dead, or the cell was built with a null key     *)
(* and has no data.  reput: a text waits to be sent again, a file cell is          *)
(* discarded, and the first failure of a socket deletes its connection.  The set of *)
(* sockets that failed is emptied when it has a multiple of ten.                   *)
WriteFails(p) ==
  LET m == Head(sq[p])
  IN  /\ sq[p] # <<>> /\ (m.key = NoKey \/ Gone(p, m.sock))
      /\ sq' = [sq EXCEPT ![p] = Tail(@)]
      /\ failed' = IF m.type = "DATA_MESSAGE" THEN [failed EXCEPT ![p] = @ + 1]
                                              ELSE failed
      /\ IF m.sock \in tried[p]
         THEN /\ tried' = [tried EXCEPT ![p] = IF Cardinality(@) % 10 = 0 THEN {} ELSE @]
              /\ UNCHANGED <<table, creating>>
         ELSE /\ tried' = [tried EXCEPT ![p] = @ \cup {m.sock}]
              /\ DeleteConnection(p, m.sock)
      /\ UNCHANGED <<netVars, item, known, thrVars, rq, resending, receiving, rd, uiVars,
                     started, made, spent>>

-----------------------------------------------------------------------------
(* The user, and the network *)

(* handleTextMessageSend, called while the contact is on line (off line the text   *)
(* goes to the offline server): with no connection one is created (and the method then   *)
(* throws: the text is gone); with no key the text goes to the offline server.     *)
SendText(p) ==
  LET s == ConnOf(item[p], table[p], TEXT)
      m == [sock |-> s, type |-> "DATA_MESSAGE", key |-> item[p][s].key]
  IN  /\ chat[p] /\ online[p] /\ CanSpend("text") /\ Spend("text")
      /\ CreateConnectionAsyc(p, table[p], TEXT)
      /\ sq' = IF HasConn(item[p], table[p], TEXT) /\ item[p][s].key # NoKey
               THEN [sq EXCEPT ![p] = Append(@, m)] ELSE sq
      /\ UNCHANGED <<netVars, table, item, known, thrVars, rq, failed, resending,
                     tried, receiving, rd, uiVars, started, made>>

(* handleFileMessageSend, handleByteMessageSend: META goes to the connection the    *)
(* lookups pick; without a connection it waits, without a key the method throws.    *)
SendFile(p) ==
  LET purpose == IF HasConn(item[p], table[p], FILE) THEN FILE ELSE TEXT
      s == ConnOf(item[p], table[p], purpose)
      m == [sock |-> s, type |-> "FILE_META", key |-> item[p][s].key]
  IN  /\ chat[p] /\ online[p] /\ CanSpend("file") /\ Spend("file")
      /\ sq' = IF HasConn(item[p], table[p], purpose) /\ item[p][s].key # NoKey
               THEN [sq EXCEPT ![p] = Append(@, m)] ELSE sq
      /\ UNCHANGED <<netVars, connVars, thrVars, rq, failed, resending, tried,
                     receiving, rd, uiVars, started, made>>

(* A circuit breaks; what was on its way is lost. *)
CutCircuit(s) ==
  /\ client[s] # Nobody /\ s \notin cut
  /\ CanSpend("cut") /\ Spend("cut")
  /\ cut' = cut \cup {s}
  /\ wire' = [p \in Peer |-> [wire[p] EXCEPT ![s] = <<>>]]
  /\ UNCHANGED <<client, open, connVars, thrVars, queVars, rd, uiVars, started, made>>

-----------------------------------------------------------------------------
(* The specification *)

ReaderStep(p) == \/ HandleRequest(p) \/ HandleAuth(p) \/ HandleExchange(p)
                 \/ HandleDone(p) \/ HandleData(p) \/ RecordStatus(p)
WriterStep(p) == WriteCell(p) \/ WriteFails(p)
ScreenStep(p) == HandleSuccess(p) \/ HandleFail(p) \/ HandleOnline(p)
SocketStep(p, s) == \/ HandlerAccept(p, s) \/ ReadCell(p, s)
                    \/ HandlerStops(p, s) \/ TransportStops(p, s)
OpeningStep(p) == \E purpose \in Purpose :
                    \/ CreateConnectionFails(p, purpose)
                    \/ \E s \in Sock : CreateConnectionOk(p, s, purpose)
UserStep(p) == \/ OpenChat(p) \/ CloseChat(p) \/ ContactReported(p)
               \/ SendText(p) \/ SendFile(p)
NetStep(p)  == \/ NetworkUpFails(p) \/ TryResendAll(p)
               \/ \E s \in Sock : NetworkUpOk(p, s)

Next ==
  \/ \E p \in Peer :
       \/ ReaderStep(p) \/ WriterStep(p) \/ ScreenStep(p) \/ OpeningStep(p)
       \/ UserStep(p) \/ NetStep(p)
       \/ \E s \in Sock : SocketStep(p, s)
  \/ \E s \in Sock : CutCircuit(s)

Spec == Init /\ [][Next]_vars

-----------------------------------------------------------------------------
(* Safety *)

Established(p, s) == InTable(p, s) /\ item[p][s].status = 1
Keyed(p, s)       == item[p][s].key # NoKey
KeysFor(s)        == {k \in DOMAIN made : made[k] = s}

(* A connection established by the Reader (status 1, parser switched to data     *)
(* cells) has a session key: DONE, which carries none, is never recorded before  *)
(* the key of the EXCHANGE it answers.  A connection without key at status 1      *)
(* would decrypt with null for ever.                                             *)
EstablishedHasKey ==
  \A p \in Peer, s \in Sock : item[p][s].status = 1 => Keyed(p, s)

(* A session key never leaves the connection it was chosen for: the key an item    *)
(* holds, and the key any cell received on a socket carries or is encrypted with,  *)
(* was made for that socket.                                                      *)
KeysStayOnTheirSocket ==
  \A p \in Peer :
    /\ \A s \in Sock : Keyed(p, s) => item[p][s].key \in KeysFor(s)
    /\ \A s \in Sock : \A c \in Range(wire[p][s]) :
         c.key # NoKey => c.key \in KeysFor(s)
    /\ \A m \in Range(rq[p]) : m.key # NoKey => m.key \in KeysFor(m.sock)

(* Two ends established on a socket for which the handshake chose one key only     *)
(* hold the same key, whatever was lost, deleted or reconnected meanwhile.         *)
OneHandshakeOneKey ==
  \A s \in Sock :
    /\ Established(A, s) /\ Established(B, s)
    /\ \A k, l \in KeysFor(s) : k = l
    => item[A][s].key = item[B][s].key

(* START_COMMUNICATION_SUCCESS is broadcast for a connection that has its key, or   *)
(* that was deleted while the handshake ended.                                     *)
StartedHasKey ==
  \A p \in Peer : \A s \in started[p] : Keyed(p, s) \/ ~InTable(p, s)

(* A text sent while on line is in at most one place at a time: sendQueue, the       *)
(* wire, recieveQueue or failedQueue.  Sending it again never makes a second copy.   *)
Texts(queue)   == {i \in DOMAIN queue : queue[i].type = "DATA_MESSAGE"}
TextsIn(queue) == Cardinality(Texts(queue))
TextsOn(wires) == UNION {{s} \X Texts(wires[s]) : s \in Sock}
OnWire(p)      == Cardinality(TextsOn(wire[p]))
Waiting(p)     == TextsIn(sq[p]) + TextsIn(rq[p]) + failed[p]
TextsNeverMultiply == Waiting(A) + Waiting(B) + OnWire(A) + OnWire(B) <= spent.text

(* A deleted connection stays deleted: a late answer of the handshake it was in, or *)
(* a data cell read before the deletion, neither changes it nor puts it back.        *)
DeletedStaysDeleted ==
  [][\A p \in Peer : \A s \in known[p] :
        ~InTable(p, s) => ~InTable(p, s)' /\ item'[p][s] = item[p][s]]_vars

(* A connection that has a key never loses it: a repeated or crossed handshake       *)
(* takes it back to status 0, and the texts queued meanwhile still have a key.        *)
KeysAreKept == [][\A p \in Peer, s \in Sock : Keyed(p, s) => Keyed(p, s)']_vars

(* A device that loses its last connection is opening another: whichever threads     *)
(* delete connections, and in whatever order.                                       *)
LastConnectionReopens ==
  [][\A p \in Peer :
       table[p] # <<>> /\ table'[p] = <<>> => \E u \in Purpose : creating'[p][u] > 0]_vars

-----------------------------------------------------------------------------
(* Liveness                                                                 *)
(*                                                                         *)
(* Every thread of the code runs for ever and never waits for another, so    *)
(* what the Reader, the Writer, the reading threads and the main thread can   *)
(* do they do; but a ClientTransport reads the end of a stream for ever, and   *)
(* ends for certain only when its parser throws or its own end is closed.      *)
(* Nothing is assumed of the users, the network or connecting.                *)

Fairness ==
  \A p \in Peer :
    /\ WF_vars(ReaderStep(p)) /\ WF_vars(WriterStep(p)) /\ WF_vars(ScreenStep(p))
    /\ \A s \in Sock :
         /\ WF_vars(HandlerAccept(p, s) \/ ReadCell(p, s))
         /\ WF_vars((Gone(p, s) \/ Throws(p, s)) /\ HandlerStops(p, s))
         /\ WF_vars((Throws(p, s) \/ ~open[p][s]) /\ TransportStops(p, s))

FairSpec == Spec /\ Fairness

(* A handshake that started ends: both ends established, or an end closed the        *)
(* socket.  This is for the handshakes one end starts (one device in Users, no        *)
(* network change); when each end starts one on the same socket, both may stay        *)
(* half-way, and two threads then read each end and may tear its cells.               *)
HandshakeEnds ==
  \A s \in Sock :
    (\E p \in Peer : transports[p][s] > 0)
       ~> (Established(A, s) /\ Established(B, s)) \/ Gone(A, s)

-----------------------------------------------------------------------------
(* What the comments of the code say, and the code does not do               *)

(* TorBroadCastReceiver.java:62-63: once START_COMMUNICATION_SUCCESS arrives the      *)
(* protocol part is complete and communication can start.  So when both ends have    *)
(* broadcast it and nothing of the handshake is left, they have the same key.        *)
Settled(s) ==
  \A p \in Peer : /\ Established(p, s) /\ s \in started[p]
                  /\ rd[p] = Idle /\ wire[p][s] = <<>>
                  /\ \A i \in DOMAIN rq[p] : rq[p][i].sock # s
StartMeansAgreedKey ==
  \A s \in Sock : Settled(s) => item[A][s].key = item[B][s].key

(* TorBroadCastReceiver.java:63, again: a connection for which START was broadcast      *)
(* can be used; a sound circuit is not torn down by the contact's first text.          *)
NoTeardownOnData ==
  \A p \in Peer, s \in Sock :
    /\ s \in handler[p] \/ transports[p][s] > 0
    /\ Throws(p, s)
    => s \notin started[Other(p)]

(* P2PChatActivity.java:1110: after the connection, the handshake with the friend.     *)
ConnectionGetsHandshake ==
  \A s \in Sock :
    client[s] # Nobody ~> (\E p \in Peer : transports[p][s] > 0) \/ Gone(A, s)

=============================================================================
