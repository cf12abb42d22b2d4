---------------------------- MODULE SessionProofs ----------------------------
(***************************************************************************)
(* What holds of Session for any sockets and any bounds, with machine-      *)
(* checked proofs.  The inductive invariant Inv adds to the type invariant   *)
(* what the handshake relies on: a cell of a handshake is only in flight on   *)
(* a socket both its ends know, and an EXCHANGE or a DONE in flight means      *)
(* that its origin (of EXCHANGE) has its key, or is about to record it, or     *)
(* has deleted the connection.                                               *)
(***************************************************************************)
EXTENDS Session, FiniteSetTheorems, TLAPS

(* The sockets a device knows were opened; it only has connections, keys and     *)
(* queued cells of sockets it knows.                                            *)
KnownInv ==
  \A p \in Peer :
    /\ \A s \in known[p] \cup handler[p] : client[s] # Nobody
    /\ Range(table[p]) \subseteq known[p]
    /\ \A s \in Sock : Keyed(p, s) => s \in known[p]
    /\ \A m \in Range(rq[p]) : m.sock \in known[p]
    /\ rd[p] # Idle => rd[p].sock \in known[p]

(* Every key that is held, travels or is queued was made for its socket, and the *)
(* Writer's queue holds no handshake cell.                                       *)
KeyInv ==
  /\ KeysStayOnTheirSocket
  /\ \A p \in Peer :
       /\ \A m \in Range(sq[p]) :
            m.type \in DataType /\ (m.key # NoKey => m.key \in KeysFor(m.sock))
       /\ rd[p].key # NoKey => rd[p].key \in KeysFor(rd[p].sock)

(* p has sent EXCHANGE on s: it has recorded the key, or will before it handles  *)
(* another cell, or has deleted the connection.                                 *)
Answered(p, s) ==
  /\ s \in known[p]
  /\ InTable(p, s) => Keyed(p, s) \/ (rd[p].sock = s /\ rd[p].key # NoKey)

(* What the cells of p's handshake in flight mean. *)
CellMeans(p, s, c) ==
  /\ c.type = "EXCHANGE" => c.key # NoKey /\ Answered(Other(p), s)
  /\ c.type = "DONE" => Answered(p, s)

HandshakeInv ==
  \A p \in Peer :
    /\ \A s \in Sock : \A c \in Range(wire[p][s]) : CellMeans(p, s, c)
    /\ \A m \in Range(rq[p]) : CellMeans(p, m.sock, m)
    /\ rd[p].status = 1 /\ rd[p].key = NoKey /\ InTable(p, rd[p].sock)
         => Keyed(p, rd[p].sock)

Inv == TypeOK /\ KnownInv /\ KeyInv /\ HandshakeInv /\ EstablishedHasKey

-----------------------------------------------------------------------------
(* The connection table *)

USE DEF Nil, NoKey

(* The elements of a sequence one element longer. *)
LEMMA RangeOfAppend ==
  ASSUME NEW T, NEW q \in Seq(T), NEW e \in T
  PROVE  Append(q, e) \in Seq(T) /\ Range(Append(q, e)) = Range(q) \cup {e}
<1>1. DOMAIN Append(q, e) = 1 .. Len(q) + 1 /\ DOMAIN q = 1 .. Len(q) /\ Len(q) \in Nat
  OBVIOUS
<1>2. \A i \in 1 .. Len(q) : Append(q, e)[i] = q[i]
  OBVIOUS
<1>3. Append(q, e)[Len(q) + 1] = e
  OBVIOUS
<1>4. Append(q, e) \in Seq(T)
  OBVIOUS
<1>5. Range(q) \cup {e} \subseteq Range(Append(q, e))
  BY <1>1, <1>2, <1>3 DEF Range
<1>6. Range(Append(q, e)) \subseteq Range(q) \cup {e}
  <2>1. \A i \in 1 .. Len(q) + 1 : i \in 1 .. Len(q) \/ i = Len(q) + 1
    BY <1>1
  <2> QED BY <1>1, <1>2, <1>3, <2>1 DEF Range
<1> QED BY <1>4, <1>5, <1>6

(* Dropping the head adds no element. *)
LEMMA RangeOfTail ==
  ASSUME NEW T, NEW q \in Seq(T), q # <<>>
  PROVE  /\ Tail(q) \in Seq(T) /\ Range(Tail(q)) \subseteq Range(q)
         /\ Head(q) \in T /\ Head(q) \in Range(q)
  BY DEF Range

(* The elements of two sequences joined. *)
LEMMA RangeOfConcat ==
  ASSUME NEW T, NEW q \in Seq(T), NEW r \in Seq(T)
  PROVE  q \o r \in Seq(T) /\ Range(q \o r) = Range(q) \cup Range(r)
<1> DEFINE m == Len(q)
           n == Len(r)
<1>1. /\ DOMAIN (q \o r) = 1 .. m + n /\ m \in Nat /\ n \in Nat
      /\ DOMAIN q = 1 .. m /\ DOMAIN r = 1 .. n
  OBVIOUS
<1>2. \A i \in 1 .. m : (q \o r)[i] = q[i]
  OBVIOUS
<1>3. \A i \in 1 .. n : (q \o r)[m + i] = r[i]
  OBVIOUS
<1>4. q \o r \in Seq(T)
  OBVIOUS
<1> HIDE DEF m, n
<1>5. Range(q) \cup Range(r) \subseteq Range(q \o r)
  <2>1. \A i \in 1 .. m : i \in 1 .. m + n
    BY <1>1
  <2>2. \A i \in 1 .. n : m + i \in 1 .. m + n
    BY <1>1
  <2> QED BY <1>1, <1>2, <1>3, <2>1, <2>2 DEF Range
<1>6. Range(q \o r) \subseteq Range(q) \cup Range(r)
  <2>1. \A i \in 1 .. m + n : i \in 1 .. m \/ (i - m \in 1 .. n /\ m + (i - m) = i)
    BY <1>1
  <2> QED BY <1>1, <1>2, <1>3, <2>1 DEF Range
<1> QED BY <1>4, <1>5, <1>6

(* The elements of a sequence have its type. *)
LEMMA RangeInType ==
  ASSUME NEW T, NEW q \in Seq(T)
  PROVE  Range(q) \subseteq T
  BY DEF Range

(* Removing a socket leaves a list of some of the sockets. *)
LEMMA RemoveKeepsType ==
  ASSUME NEW T, NEW socks \in Seq(T), NEW s
  PROVE  /\ RemoveConnBySocket(socks, s) \in Seq(T)
         /\ Range(RemoveConnBySocket(socks, s)) \subseteq Range(socks)
<1> DEFINE k == GetConnBySocket(socks, s)
<1>1. CASE k = Nil
  BY <1>1 DEF RemoveConnBySocket
<1>2. CASE k # Nil
  <2>1. k \in DOMAIN socks
    BY <1>2 DEF GetConnBySocket, First
  <2>2. Len(socks) \in Nat /\ Len(socks) >= 1
    BY <2>1
  <2> DEFINE rest == [i \in 1 .. Len(socks) - 1 |-> IF i < k THEN socks[i] ELSE socks[i + 1]]
  <2>3. RemoveConnBySocket(socks, s) = rest
    BY <1>2 DEF RemoveConnBySocket
  <2>4. \A i \in 1 .. Len(socks) - 1 : rest[i] \in Range(socks)
    BY <2>1, <2>2 DEF Range
  <2>5. rest \in Seq(T)
    BY <2>2, <2>4, RangeInType
  <2> QED BY <2>3, <2>4, <2>5 DEF Range
<1> QED BY <1>1, <1>2

(* The connection getConnByPurpose picks is one of the list. *)
LEMMA PickInTable ==
  ASSUME NEW its, NEW socks \in Seq(Sock), NEW purpose, HasConn(its, socks, purpose)
  PROVE  ConnOf(its, socks, purpose) \in Range(socks)
<1>1. \A positions : First(positions) # Nil => First(positions) \in positions
  BY DEF First
<1>2. \A positions : Last(positions) # Nil => Last(positions) \in positions
  BY DEF Last
<1> DEFINE items == [i \in DOMAIN socks |-> its[socks[i]]]
<1>3. GetConnByPurpose(items, purpose) # Nil =>
        GetConnByPurpose(items, purpose) \in DOMAIN items
  BY <1>1, <1>2 DEF GetConnByPurpose
<1> QED BY <1>3 DEF HasConn, ConnOf, Pick, Range

(* createConnectionAsyc keeps the counts of threads. *)
LEMMA CreatingType ==
  ASSUME TypeOK, NEW p \in Peer, NEW socks, NEW purpose \in Purpose,
         CreateConnectionAsyc(p, socks, purpose)
  PROVE  creating' \in [Peer -> [Purpose -> Nat]]
  BY DEF TypeOK, CreateConnectionAsyc

(* deleteConnection leaves some of the connections. *)
LEMMA DeleteEffect ==
  ASSUME TypeOK, NEW p \in Peer, NEW s \in Sock, NEW its \in [Sock -> Connection],
         DeleteConnectionOf(p, its, s)
  PROVE  /\ table' \in [Peer -> Seq(Sock)]
         /\ creating' \in [Peer -> [Purpose -> Nat]]
         /\ \A q \in Peer : Range(table'[q]) \subseteq Range(table[q])
<1> DEFINE socks == RemoveConnBySocket(table[p], s)
<1>1. table[p] \in Seq(Sock)
  BY DEF TypeOK
<1>2. socks \in Seq(Sock) /\ Range(socks) \subseteq Range(table[p])
  BY <1>1, RemoveKeepsType
<1>3. table' = [table EXCEPT ![p] = socks]
  BY DEF DeleteConnectionOf
<1>4. creating' \in [Peer -> [Purpose -> Nat]]
  <2> DEFINE purpose == IF InTable(p, s) THEN its[s].purpose ELSE TEXT
  <2>1. purpose \in Purpose
    BY DEF Connection, Purpose
  <2>2. CASE CreateConnectionAsyc(p, socks, purpose)
    BY <2>1, <2>2, CreatingType
  <2>3. CASE UNCHANGED creating
    BY <2>3 DEF TypeOK
  <2> QED BY <2>2, <2>3 DEF DeleteConnectionOf
<1> QED BY <1>2, <1>3, <1>4 DEF TypeOK

-----------------------------------------------------------------------------
(* What the steps do to the wires *)

WireShrinks == \A q \in Peer, t \in Sock : Range(wire'[q][t]) \subseteq Range(wire[q][t])
WireGains(p, s, c) ==
  \A q \in Peer, t \in Sock :
    Range(wire'[q][t]) \subseteq
      Range(wire[q][t]) \cup (IF q = Other(p) /\ t = s THEN {c} ELSE {})
WireType == /\ wire' \in [Peer -> [Sock -> Seq(Cell)]]
            /\ open' \in [Peer -> [Sock -> BOOLEAN]]

(* The other device is a device, and another one. *)
LEMMA OtherPeer == \A p \in Peer : Other(p) \in Peer /\ Other(p) # p /\ Other(Other(p)) = p
  BY PeersDiffer DEF Peer, Other

(* A reading thread that closes its socket opens nothing and puts nothing on a wire. *)
LEMMA CloseEffect ==
  ASSUME TypeOK, NEW p \in Peer, NEW s \in Sock, Close(p, s)
  PROVE  WireType /\ WireShrinks
<1>1. open' \in [Peer -> [Sock -> BOOLEAN]]
  BY DEF TypeOK, Close
<1>2. wire' \in [Peer -> [Sock -> Seq(Cell)]]
  BY DEF TypeOK, Close
<1>3. \A q \in Peer, t \in Sock : wire'[q][t] = wire[q][t] \/ wire'[q][t] = <<>>
  BY DEF TypeOK, Close
<1>4. Range(<<>>) = {}
  BY DEF Range
<1>5. \A q \in Peer, t \in Sock : Range(wire'[q][t]) \subseteq Range(wire[q][t])
  <2> TAKE q \in Peer, t \in Sock
  <2>1. CASE wire'[q][t] = wire[q][t]
    BY <2>1
  <2>2. CASE wire'[q][t] = <<>>
    BY <2>2, <1>4
  <2> QED BY <1>3, <2>1, <2>2
<1> QED BY <1>1, <1>2, <1>5 DEF WireType, WireShrinks

(* A failed sendMessage closes an end and puts nothing on a wire. *)
LEMMA SendFailsEffect ==
  ASSUME TypeOK, NEW p \in Peer, NEW s \in Sock, SendMessageFails(p, s)
  PROVE  WireType /\ WireShrinks
  BY CloseEffect DEF SendMessageFails, Close

(* One more cell on one wire. *)
LEMMA AppendEffect ==
  ASSUME TypeOK, NEW p \in Peer, NEW s \in Sock, NEW c \in Cell,
         wire' = [wire EXCEPT ![Other(p)][s] = Append(@, c)]
  PROVE  wire' \in [Peer -> [Sock -> Seq(Cell)]] /\ WireGains(p, s, c)
<1> DEFINE q0 == Other(p)
<1>1. q0 \in Peer /\ wire[q0][s] \in Seq(Cell)
  BY OtherPeer DEF TypeOK
<1>2. /\ Append(wire[q0][s], c) \in Seq(Cell)
      /\ Range(Append(wire[q0][s], c)) = Range(wire[q0][s]) \cup {c}
  BY <1>1, RangeOfAppend
<1>3. wire' \in [Peer -> [Sock -> Seq(Cell)]]
  BY <1>1, <1>2 DEF TypeOK
<1>4. \A q \in Peer, t \in Sock :
        wire'[q][t] = IF q = q0 /\ t = s THEN Append(wire[q0][s], c) ELSE wire[q][t]
  BY <1>1 DEF TypeOK
<1> QED BY <1>2, <1>3, <1>4 DEF WireGains

(* Sending a handshake cell adds it to at most the one wire it is meant for. *)
LEMMA SendEffect ==
  ASSUME TypeOK, NEW p \in Peer, NEW s \in Sock, NEW c \in Cell, SendMessage(p, s, c)
  PROVE  WireType /\ WireGains(p, s, c)
<1>1. open' \in [Peer -> [Sock -> BOOLEAN]]
  BY DEF TypeOK, SendMessage
<1>2. CASE Gone(p, s)
  <2>1. wire' = wire
    BY <1>2 DEF SendMessage, Wrote
  <2> QED BY <2>1, <1>1 DEF WireType, WireGains, TypeOK
<1>3. CASE ~Gone(p, s)
  <2>1. wire' = [wire EXCEPT ![Other(p)][s] = Append(@, c)]
    BY <1>3 DEF SendMessage, Wrote
  <2> QED BY <2>1, <1>1, AppendEffect DEF WireType
<1> QED BY <1>2, <1>3

(* One cell less on one wire. *)
LEMMA ReadEffect ==
  ASSUME TypeOK, NEW p \in Peer, NEW s \in Sock, HasCell(p, s),
         wire' = [wire EXCEPT ![p][s] = Tail(@)]
  PROVE  /\ wire' \in [Peer -> [Sock -> Seq(Cell)]] /\ WireShrinks
         /\ Head(wire[p][s]) \in Cell /\ Head(wire[p][s]) \in Range(wire[p][s])
<1>1. wire[p][s] \in Seq(Cell) /\ wire[p][s] # <<>>
  BY DEF TypeOK, HasCell
<1>2. /\ Tail(wire[p][s]) \in Seq(Cell)
      /\ Range(Tail(wire[p][s])) \subseteq Range(wire[p][s])
      /\ Head(wire[p][s]) \in Cell /\ Head(wire[p][s]) \in Range(wire[p][s])
  BY <1>1, RangeOfTail
<1>3. wire' \in [Peer -> [Sock -> Seq(Cell)]]
  BY <1>1, <1>2 DEF TypeOK
<1>4. \A q \in Peer, t \in Sock :
        wire'[q][t] = IF q = p /\ t = s THEN Tail(wire[p][s]) ELSE wire[q][t]
  BY DEF TypeOK
<1> QED BY <1>2, <1>3, <1>4 DEF WireShrinks

(* The Reader takes a cell. *)
LEMMA TakesEffect ==
  ASSUME TypeOK, NEW p \in Peer, NEW type, Takes(p, type)
  PROVE  /\ rq' \in [Peer -> Seq(Message)]
         /\ \A q \in Peer : Range(rq'[q]) \subseteq Range(rq[q])
         /\ Head(rq[p]) \in Message /\ Head(rq[p]) \in Range(rq[p])
         /\ Head(rq[p]).type = type /\ rd[p] = Idle
<1>1. rq[p] \in Seq(Message) /\ rq[p] # <<>>
  BY DEF TypeOK, Takes
<1>2. /\ Tail(rq[p]) \in Seq(Message) /\ Range(Tail(rq[p])) \subseteq Range(rq[p])
      /\ Head(rq[p]) \in Message /\ Head(rq[p]) \in Range(rq[p])
  BY <1>1, RangeOfTail
<1> QED BY <1>2 DEF Takes, TypeOK

-----------------------------------------------------------------------------
(* Type correctness *)

USE DEF netVars, connVars, thrVars, queVars, uiVars

(* Using up a bound keeps the counters numbers. *)
LEMMA SpendType ==
  ASSUME TypeOK, NEW what \in DOMAIN Bounds, Spend(what)
  PROVE  spent' \in [DOMAIN Bounds -> Nat]
  BY DEF TypeOK, Spend

EventType == {"success", "fail", "start", "received"}

(* Posting known events keeps the event queue typed. *)
LEMMA PostType ==
  ASSUME TypeOK, NEW p \in Peer, NEW news \in Seq(EventType), Post(p, news)
  PROVE  events' \in [Peer -> Seq(EventType)]
<1>1. events[p] \in Seq(EventType)
  BY DEF TypeOK, EventType
<1>2. events[p] \o news \in Seq(EventType)
  BY <1>1, RangeOfConcat
<1> QED BY <1>2 DEF TypeOK, Post, EventType

(* A new ConnectionStatusItem is a connection. *)
LEMMA NewConnectionType == ASSUME NEW u \in Purpose
                           PROVE  NewConnection(u) \in Connection
  BY DEF NewConnection, Connection

(* A connection that opens keeps the types of what it changes. *)
LEMMA ConnectedType ==
  ASSUME TypeOK, NEW p \in Peer, NEW s \in Sock, NEW u \in Purpose, Connected(p, s, u)
  PROVE  /\ client' \in [Sock -> Peer \cup {Nobody}]
         /\ open' \in [Peer -> [Sock -> BOOLEAN]]
         /\ table' \in [Peer -> Seq(Sock)]
         /\ item' \in [Peer -> [Sock -> Connection]]
         /\ known' \in [Peer -> SUBSET Sock]
         /\ handler' \in [Peer -> SUBSET Sock]
<1>1. client' \in [Sock -> Peer \cup {Nobody}] /\ open' \in [Peer -> [Sock -> BOOLEAN]]
  BY DEF TypeOK, Connected
<1>2. table' \in [Peer -> Seq(Sock)]
  BY RangeOfAppend DEF TypeOK, Connected, AddNewConn
<1>3. item' \in [Peer -> [Sock -> Connection]]
  BY NewConnectionType DEF TypeOK, Connected
<1>4. known' \in [Peer -> SUBSET Sock] /\ handler' \in [Peer -> SUBSET Sock]
  BY OtherPeer DEF TypeOK, Connected
<1> QED BY <1>1, <1>2, <1>3, <1>4

(* tryResend keeps the types of sendQueue and failedQueue. *)
LEMMA TryResendType ==
  ASSUME TypeOK, NEW p \in Peer, NEW its \in [Sock -> Connection], TryResend(p, its)
  PROVE  /\ sq' \in [Peer -> Seq(Message)]
         /\ failed' \in [Peer -> Nat]
         /\ \A q \in Peer : \A m \in Range(sq'[q]) :
              \/ m \in Range(sq[q])
              \/ m.sock \in Sock /\ m.key = its[m.sock].key /\ m.type \in DataType /\ q = p
<1> DEFINE s == ConnOf(its, table[p], TEXT)
           text == [sock |-> s, type |-> "DATA_MESSAGE", key |-> its[s].key]
           again == [i \in 1 .. failed[p] |-> text]
<1>1. CASE HasConn(its, table[p], TEXT)
  <2>1. s \in Sock
    BY <1>1, PickInTable, RangeInType DEF TypeOK
  <2>2. text \in Message
    <3>1. its[s].key \in Nat
      BY <2>1 DEF Connection
    <3>2. "DATA_MESSAGE" \in HandShakeType \cup DataType
      BY DEF DataType
    <3> QED BY <2>1, <3>1, <3>2 DEF Message
  <2>3. text.sock = s /\ text.key = its[s].key /\ text.type \in DataType
    BY DEF DataType
  <2>4. sq' = [sq EXCEPT ![p] = sq[p] \o again] /\ failed' = [failed EXCEPT ![p] = 0]
    BY <1>1 DEF TryResend, TypeOK
  <2> HIDE DEF s, text
  <2>5. failed[p] \in Nat /\ sq[p] \in Seq(Message)
    BY DEF TypeOK
  <2>6. again \in Seq(Message) /\ Range(again) \subseteq {text}
    BY <2>2, <2>5, SMTT(20) DEF Range
  <2> HIDE DEF again
  <2>7. sq[p] \o again \in Seq(Message) /\ Range(sq[p] \o again) = Range(sq[p]) \cup Range(again)
    BY <2>5, <2>6, RangeOfConcat
  <2>8. sq' \in [Peer -> Seq(Message)] /\ failed' \in [Peer -> Nat]
    BY <2>4, <2>7 DEF TypeOK
  <2>9. ASSUME NEW q \in Peer, NEW m \in Range(sq'[q])
        PROVE  \/ m \in Range(sq[q])
               \/ m.sock \in Sock /\ m.key = its[m.sock].key /\ m.type \in DataType /\ q = p
    <3>1. CASE q = p
      <4>1. m \in Range(sq[p]) \/ m = text
        BY <3>1, <2>4, <2>6, <2>7 DEF TypeOK
      <4> QED BY <4>1, <3>1, <2>1, <2>3
    <3>2. CASE q # p
      BY <3>2, <2>4 DEF TypeOK
    <3> QED BY <3>1, <3>2
  <2> QED BY <2>8, <2>9
<1>2. CASE ~HasConn(its, table[p], TEXT)
  BY <1>2 DEF TryResend, TypeOK
<1> QED BY <1>1, <1>2

(* An update the Reader still has to record has a socket, a status and a key. *)
LEMMA PendingType ==
  ASSUME TypeOK, NEW p \in Peer
  PROVE  /\ rd[p].status \in {0, 1} /\ rd[p].key \in Nat
         /\ rd[p] # Idle => rd[p].sock \in Sock
         /\ \A s \in Sock, u \in {0, 1}, k \in Nat :
              [sock |-> s, status |-> u, key |-> k] \in Pending
<1>1. rd[p] \in Pending \cup {Idle}
  BY DEF TypeOK
<1>2. Idle.status = 0 /\ Idle.key = 0
  BY DEF Idle
<1> QED BY <1>1, <1>2 DEF Pending

(* updateStatus makes a connection of a connection. *)
LEMMA RecordedType ==
  ASSUME NEW c \in Connection, NEW status \in {0, 1}, NEW key \in Nat
  PROVE  /\ Recorded(c, status, key) \in Connection
         /\ Recorded(c, status, key).status = status
         /\ Recorded(c, status, key).key = IF key # NoKey THEN key ELSE c.key
  BY DEF Recorded, Connection

(* What the Reader records leaves every item a connection. *)
LEMMA UpdatedType ==
  ASSUME TypeOK, NEW p \in Peer
  PROVE  Updated(p) \in [Peer -> [Sock -> Connection]]
<1>1. CASE InTable(p, rd[p].sock)
  <2>1. rd[p].sock \in Sock
    <3>1. table[p] \in Seq(Sock)
      BY DEF TypeOK
    <3> QED BY <1>1, <3>1, RangeInType DEF InTable
  <2>2. rd[p].status \in {0, 1} /\ rd[p].key \in Nat
    BY PendingType
  <2>3. item[p][rd[p].sock] \in Connection
    BY <2>1 DEF TypeOK
  <2>4. Recorded(item[p][rd[p].sock], rd[p].status, rd[p].key) \in Connection
    BY <2>2, <2>3, RecordedType
  <2> QED BY <1>1, <2>1, <2>4 DEF Updated, TypeOK
<1>2. CASE ~InTable(p, rd[p].sock)
  BY <1>2 DEF Updated, TypeOK
<1> QED BY <1>1, <1>2

(* A reply of the Reader, sent or failed with its connection deleted. *)
LEMMA ReplyType ==
  ASSUME TypeOK, NEW p \in Peer, NEW s \in Sock, NEW c \in Cell,
         ReplyOk(p, s, c) \/ ReplyFails(p, s)
  PROVE  WireType /\ table' \in [Peer -> Seq(Sock)] /\ creating' \in [Peer -> [Purpose -> Nat]]
<1>1. CASE ReplyOk(p, s, c)
  BY <1>1, SendEffect DEF ReplyOk, TypeOK
<1>2. CASE ReplyFails(p, s)
  <2>1. item[p] \in [Sock -> Connection]
    BY DEF TypeOK
  <2> QED BY <1>2, <2>1, SendFailsEffect, DeleteEffect DEF ReplyFails, DeleteConnection
<1> QED BY <1>1, <1>2

(* The cells the threads build are cells. *)
LEMMA CellTypes ==
  /\ \A k \in Nat, t \in HandShakeType \cup DataType : [type |-> t, key |-> k] \in Cell
  /\ {"REQUEST", "AUTH", "EXCHANGE", "DONE"} = HandShakeType
  /\ {"DATA_MESSAGE", "FILE_META", "FILE_READY", "ACK"} = DataType
  /\ \A m \in Message : /\ m.sock \in Sock /\ m.type \in HandShakeType \cup DataType
                        /\ m.key \in Nat /\ ToCell(m) \in Cell
  /\ \A c \in Cell, s \in Sock : ToMessage(s, c) \in Message
  BY DEF Cell, Message, HandShakeType, DataType, ToCell, ToMessage

(* Handling a REQUEST keeps the types. *)
LEMMA HandleRequestType ==
  ASSUME TypeOK, NEW p \in Peer, HandleRequest(p)
  PROVE  TypeOK'
<1> DEFINE s == Head(rq[p]).sock
<1>1. s \in Sock /\ rq' \in [Peer -> Seq(Message)]
  BY TakesEffect, CellTypes DEF HandleRequest
<1>2. WireType /\ table' \in [Peer -> Seq(Sock)] /\ creating' \in [Peer -> [Purpose -> Nat]]
  BY <1>1, ReplyType, CellTypes DEF HandleRequest
<1>3. item' \in [Peer -> [Sock -> Connection]]
  <2>1. item[p][s] \in Connection
    BY <1>1 DEF TypeOK
  <2>2. [item[p][s] EXCEPT !.status = 0] \in Connection
    BY <2>1 DEF Connection
  <2>3. item' = IF InTable(p, s) THEN [item EXCEPT ![p][s] = [item[p][s] EXCEPT !.status = 0]]
                                 ELSE item
    BY <1>1 DEF HandleRequest, TypeOK
  <2> QED BY <1>1, <2>2, <2>3 DEF TypeOK
<1> QED BY <1>1, <1>2, <1>3 DEF HandleRequest, TypeOK, WireType

(* Handling an AUTH keeps the types. *)
LEMMA HandleAuthType ==
  ASSUME TypeOK, NEW p \in Peer, HandleAuth(p)
  PROVE  TypeOK'
<1> DEFINE s == Head(rq[p]).sock
           k == Len(made) + 1
<1>1. s \in Sock /\ rq' \in [Peer -> Seq(Message)]
  BY TakesEffect, CellTypes DEF HandleAuth
<1>2. k \in Nat /\ made' \in Seq(Sock)
  BY <1>1, RangeOfAppend DEF HandleAuth, TypeOK
<1>3. WireType /\ table' \in [Peer -> Seq(Sock)] /\ creating' \in [Peer -> [Purpose -> Nat]]
  BY <1>1, <1>2, ReplyType, CellTypes DEF HandleAuth
<1>4. rd' \in [Peer -> Pending \cup {Idle}]
  <2>1. [sock |-> s, status |-> 0, key |-> k] \in Pending
    BY <1>1, <1>2, PendingType
  <2>2. \/ rd' = [rd EXCEPT ![p] = [sock |-> s, status |-> 0, key |-> k]]
        \/ UNCHANGED rd
    BY DEF HandleAuth
  <2> QED BY <2>1, <2>2 DEF TypeOK
<1> QED BY <1>1, <1>2, <1>3, <1>4 DEF HandleAuth, TypeOK, WireType

(* Handling an EXCHANGE keeps the types. *)
LEMMA HandleExchangeType ==
  ASSUME TypeOK, NEW p \in Peer, HandleExchange(p)
  PROVE  TypeOK'
<1> DEFINE m == Head(rq[p])
<1>1. m.sock \in Sock /\ m.key \in Nat /\ rq' \in [Peer -> Seq(Message)]
  BY TakesEffect, CellTypes DEF HandleExchange
<1>2. WireType /\ table' \in [Peer -> Seq(Sock)] /\ creating' \in [Peer -> [Purpose -> Nat]]
  BY <1>1, ReplyType, CellTypes DEF HandleExchange
<1>3. rd' \in [Peer -> Pending \cup {Idle}]
  <2>1. [sock |-> m.sock, status |-> 1, key |-> m.key] \in Pending
    BY <1>1, PendingType
  <2>2. \/ rd' = [rd EXCEPT ![p] = [sock |-> m.sock, status |-> 1, key |-> m.key]]
        \/ UNCHANGED rd
    BY DEF HandleExchange
  <2> QED BY <2>1, <2>2 DEF TypeOK
<1> QED BY <1>1, <1>2, <1>3 DEF HandleExchange, TypeOK, WireType

(* Handling a DONE keeps the types. *)
LEMMA HandleDoneType ==
  ASSUME TypeOK, NEW p \in Peer, HandleDone(p)
  PROVE  TypeOK'
<1>1. Head(rq[p]).sock \in Sock /\ rq' \in [Peer -> Seq(Message)]
  BY TakesEffect, CellTypes DEF HandleDone
<1>2. rd' \in [Peer -> Pending \cup {Idle}]
  <2>1. [sock |-> Head(rq[p]).sock, status |-> 1, key |-> NoKey] \in Pending
    BY <1>1, PendingType
  <2>2. rd' = [rd EXCEPT ![p] = [sock |-> Head(rq[p]).sock, status |-> 1, key |-> NoKey]]
    BY DEF HandleDone
  <2> QED BY <2>1, <2>2 DEF TypeOK
<1> QED BY <1>1, <1>2 DEF HandleDone, TypeOK

(* Handling a data cell keeps the types. *)
LEMMA HandleDataType ==
  ASSUME TypeOK, NEW p \in Peer, HandleData(p)
  PROVE  TypeOK'
<1> DEFINE m == Head(rq[p])
           s == m.sock
           its == IF InTable(p, s) /\ m.type \in {"FILE_META", "FILE_READY"}
                  THEN [item[p] EXCEPT ![s].purpose = FILE] ELSE item[p]
           reply == [type |-> IF m.type = "FILE_META" THEN "FILE_READY" ELSE "ACK",
                     key |-> item[p][s].key]
           fails == SendMessageFails(p, s) /\ DeleteConnectionOf(p, its, s)
<1>1. s \in Sock /\ rq' \in [Peer -> Seq(Message)]
  BY TakesEffect, CellTypes DEF HandleData
<1>2. item[p][s] \in Connection /\ item[p] \in [Sock -> Connection]
  BY <1>1 DEF TypeOK
<1>3. its \in [Sock -> Connection]
  <2>1. [item[p][s] EXCEPT !.purpose = FILE] \in Connection
    BY <1>2 DEF Connection, Purpose
  <2>2. its = IF InTable(p, s) /\ m.type \in {"FILE_META", "FILE_READY"}
              THEN [item[p] EXCEPT ![s] = [item[p][s] EXCEPT !.purpose = FILE]] ELSE item[p]
    BY <1>1, <1>2
  <2> QED BY <1>1, <1>2, <2>1, <2>2
<1>4. reply \in Cell
  <2>1. item[p][s].key \in Nat
    BY <1>2 DEF Connection
  <2> QED BY <2>1, CellTypes
<1>5. item' = [item EXCEPT ![p] = its]
  BY DEF HandleData
<1>6. \/ ReplyOk(p, s, reply) /\ Post(p, <<"received">>)
      \/ fails /\ Post(p, IF m.type = "DATA_MESSAGE" THEN <<"received">> ELSE <<>>)
      \/ UNCHANGED <<open, wire, table, creating, events>>
  BY DEF HandleData
<1> HIDE DEF reply, its
<1>7. WireType /\ table' \in [Peer -> Seq(Sock)] /\ creating' \in [Peer -> [Purpose -> Nat]]
  <2>1. CASE ReplyOk(p, s, reply)
    BY <2>1, <1>1, <1>4, ReplyType
  <2>2. CASE fails
    BY <2>2, <1>1, <1>3, SendFailsEffect, DeleteEffect
  <2>3. CASE UNCHANGED <<open, wire, table, creating, events>>
    BY <2>3 DEF TypeOK, WireType
  <2> QED BY <1>6, <2>1, <2>2, <2>3
<1>8. events' \in [Peer -> Seq(EventType)]
  <2>1. <<"received">> \in Seq(EventType) /\ <<>> \in Seq(EventType)
    BY DEF EventType
  <2>2. CASE UNCHANGED <<open, wire, table, creating, events>>
    BY <2>2 DEF TypeOK, EventType
  <2> QED BY <1>6, <2>1, <2>2, PostType
<1>9. item' \in [Peer -> [Sock -> Connection]]
  BY <1>3, <1>5 DEF TypeOK
<1>10. UNCHANGED <<client, cut, known, thrVars, sq, failed, resending, tried, rd,
                   chat, online, label, started, made, spent>>
  BY DEF HandleData
<1>11. receiving' \subseteq Peer
  <2>1. receiving' = receiving \/ receiving' = receiving \cup {p}
    BY DEF HandleData
  <2> QED BY <2>1 DEF TypeOK
<1> QED BY <1>1, <1>7, <1>8, <1>9, <1>10, <1>11 DEF TypeOK, WireType, EventType

(* updateSocketStatus keeps the types. *)
LEMMA RecordStatusType ==
  ASSUME TypeOK, NEW p \in Peer, RecordStatus(p)
  PROVE  TypeOK'
<1>1. item' \in [Peer -> [Sock -> Connection]] /\ item' = Updated(p)
  BY UpdatedType DEF RecordStatus
<1>2. rd' \in [Peer -> Pending \cup {Idle}]
  BY DEF RecordStatus, TypeOK
<1>3. CASE rd[p].status = 1
  <2>1. TryResend(p, Updated(p)[p]) /\ (Post(p, <<"start">>) \/ UNCHANGED events)
    BY <1>3 DEF RecordStatus
  <2>2. sq' \in [Peer -> Seq(Message)] /\ failed' \in [Peer -> Nat]
    BY <1>1, <2>1, TryResendType
  <2>3. events' \in [Peer -> Seq(EventType)]
    <3>1. <<"start">> \in Seq(EventType)
      BY DEF EventType
    <3>2. UNCHANGED events => events' \in [Peer -> Seq(EventType)]
      BY DEF TypeOK, EventType
    <3> QED BY <2>1, <3>1, <3>2, PostType
  <2>4. started' \in [Peer -> SUBSET Sock]
    <3>1. rd[p].sock \in Sock
      BY PendingType DEF RecordStatus
    <3>2. \/ started' = [started EXCEPT ![p] = started[p] \cup {rd[p].sock}]
          \/ UNCHANGED started
      BY <1>3 DEF RecordStatus
    <3>3. started \in [Peer -> SUBSET Sock]
      BY DEF TypeOK
    <3> QED BY <3>1, <3>2, <3>3
  <2>5. UNCHANGED <<netVars, table, known, creating, thrVars, rq, resending, tried,
                    receiving, chat, online, label, made, spent>>
    BY DEF RecordStatus
  <2> QED BY <1>1, <1>2, <2>2, <2>3, <2>4, <2>5
          DEF TypeOK, EventType, netVars, thrVars
<1>4. CASE rd[p].status # 1
  BY <1>1, <1>2, <1>4 DEF RecordStatus, TypeOK
<1> QED BY <1>3, <1>4

(* The Writer keeps the types. *)
LEMMA WriteType ==
  ASSUME TypeOK, NEW p \in Peer, WriterStep(p)
  PROVE  TypeOK'
<1> DEFINE m == Head(sq[p])
<1>1. /\ sq' \in [Peer -> Seq(Message)]
      /\ m.sock \in Sock /\ ToCell(m) \in Cell
  <2>1. sq[p] \in Seq(Message) /\ sq[p] # <<>> /\ sq' = [sq EXCEPT ![p] = Tail(sq[p])]
    BY DEF WriterStep, WriteCell, WriteFails, TypeOK
  <2>2. Tail(sq[p]) \in Seq(Message) /\ m \in Message
    BY <2>1, RangeOfTail
  <2> QED BY <2>1, <2>2, CellTypes DEF TypeOK
<1>2. CASE WriteCell(p)
  <2>1. WireType
    BY <1>1, <1>2, SendEffect DEF WriteCell
  <2> QED BY <1>1, <1>2, <2>1 DEF WriteCell, TypeOK, WireType
<1>3. CASE WriteFails(p)
  <2>1. table' \in [Peer -> Seq(Sock)] /\ creating' \in [Peer -> [Purpose -> Nat]]
    <3>1. CASE DeleteConnection(p, m.sock)
      <4>1. item[p] \in [Sock -> Connection]
        BY DEF TypeOK
      <4> QED BY <3>1, <4>1, <1>1, DeleteEffect DEF DeleteConnection
    <3>2. CASE UNCHANGED <<table, creating>>
      BY <3>2 DEF TypeOK
    <3> QED BY <1>3, <3>1, <3>2 DEF WriteFails
  <2>2. failed' \in [Peer -> Nat]
    BY <1>3 DEF WriteFails, TypeOK
  <2>3. tried' \in [Peer -> SUBSET Sock]
    <3>1. tried \in [Peer -> SUBSET Sock]
      BY DEF TypeOK
    <3>2. \E set \in {{}, tried[p], tried[p] \cup {m.sock}} : tried' = [tried EXCEPT ![p] = set]
      BY <1>3 DEF WriteFails
    <3> QED BY <3>1, <3>2, <1>1
  <2> QED BY <1>1, <1>3, <2>1, <2>2, <2>3 DEF WriteFails, TypeOK
<1> QED BY <1>2, <1>3 DEF WriterStep

(* The chat screen keeps the types. *)
LEMMA ScreenType ==
  ASSUME TypeOK, NEW p \in Peer, ScreenStep(p)
  PROVE  TypeOK'
<1>1. events' \in [Peer -> Seq(EventType)]
  <2>1. events[p] \in Seq(EventType) /\ events[p] # <<>>
        /\ events' = [events EXCEPT ![p] = Tail(events[p])]
    BY DEF ScreenStep, HandleSuccess, HandleFail, HandleOnline, TypeOK, EventType
  <2>2. Tail(events[p]) \in Seq(EventType)
    BY <2>1, RangeOfTail
  <2> QED BY <2>1, <2>2 DEF TypeOK, EventType
<1>2. CASE HandleSuccess(p)
  <2> DEFINE s == ConnOf(item[p], table[p], TEXT)
             request == [type |-> "REQUEST", key |-> NoKey]
  <2>1. label' \in [Peer -> {"on_line", "off_line"}]
    BY <1>2 DEF HandleSuccess, TypeOK
  <2>2. /\ WireType /\ table' \in [Peer -> Seq(Sock)] /\ creating' \in [Peer -> [Purpose -> Nat]]
        /\ transports' \in [Peer -> [Sock -> Nat]]
    <3>1. CASE UNCHANGED <<open, wire, table, creating, transports>>
      BY <3>1 DEF TypeOK, WireType
    <3>2. CASE /\ HasConn(item[p], table[p], TEXT)
               /\ StartTransport(p, s) \/ StartTransportFails(p, s)
      <4>1. s \in Sock
        BY <3>2, PickInTable, RangeInType DEF TypeOK
      <4> HIDE DEF s
      <4>2. request \in Cell /\ item[p] \in [Sock -> Connection]
        BY CellTypes DEF TypeOK
      <4>3. CASE StartTransport(p, s)
        <5>1. WireType
          BY <4>1, <4>2, <4>3, SendEffect DEF StartTransport
        <5>2. transports' \in [Peer -> [Sock -> Nat]]
          BY <4>1, <4>3 DEF StartTransport, TypeOK
        <5> QED BY <5>1, <5>2, <4>3 DEF StartTransport, TypeOK
      <4>4. CASE StartTransportFails(p, s)
        BY <4>1, <4>2, <4>4, SendFailsEffect, DeleteEffect
           DEF StartTransportFails, DeleteConnection, TypeOK
      <4> QED BY <3>2, <4>3, <4>4
    <3> QED BY <1>2, <3>1, <3>2 DEF HandleSuccess
  <2> QED BY <1>1, <1>2, <2>1, <2>2 DEF HandleSuccess, TypeOK, WireType, EventType
<1>3. CASE HandleFail(p)
  BY <1>1, <1>3 DEF HandleFail, TypeOK, EventType
<1>4. CASE HandleOnline(p)
  BY <1>1, <1>4 DEF HandleOnline, TypeOK, EventType
<1> QED BY <1>2, <1>3, <1>4 DEF ScreenStep

(* A CreateConnectionThread keeps the types. *)
LEMMA OpeningType ==
  ASSUME TypeOK, NEW p \in Peer, OpeningStep(p)
  PROVE  TypeOK'
<1>1. PICK u \in Purpose : \/ CreateConnectionFails(p, u)
                          \/ \E s \in Sock : CreateConnectionOk(p, s, u)
  BY DEF OpeningStep
<1>2. creating' \in [Peer -> [Purpose -> Nat]]
  <2>1. creating[p][u] \in Nat /\ creating[p][u] > 0
        /\ creating' = [creating EXCEPT ![p][u] = creating[p][u] - 1]
    BY <1>1 DEF CreateConnectionFails, CreateConnectionOk, TypeOK
  <2> QED BY <2>1 DEF TypeOK
<1>3. events' \in [Peer -> Seq(EventType)]
  <2>1. <<"fail">> \in Seq(EventType) /\ <<"success", "fail">> \in Seq(EventType)
    BY DEF EventType
  <2> QED BY <1>1, <2>1, PostType DEF CreateConnectionFails, CreateConnectionOk
<1>4. CASE CreateConnectionFails(p, u)
  BY <1>2, <1>3, <1>4 DEF CreateConnectionFails, TypeOK, EventType
<1>5. CASE \E s \in Sock : CreateConnectionOk(p, s, u)
  <2>1. PICK s \in Sock : CreateConnectionOk(p, s, u)
    BY <1>5
  <2> QED BY <1>2, <1>3, <2>1, ConnectedType DEF CreateConnectionOk, TypeOK, EventType
<1> QED BY <1>1, <1>4, <1>5

(* The bounds by name. *)
LEMMA BoundNames == DOMAIN Bounds = {"open", "text", "file", "cut", "net"}
  BY DEF Bounds

(* What the user does keeps the types. *)
LEMMA UserType ==
  ASSUME TypeOK, NEW p \in Peer, UserStep(p)
  PROVE  TypeOK'
<1>1. TEXT \in Purpose
  BY DEF Purpose
<1>2. CASE OpenChat(p)
  <2>1. creating' \in [Peer -> [Purpose -> Nat]] /\ spent' \in [DOMAIN Bounds -> Nat]
    BY <1>1, <1>2, CreatingType, SpendType, BoundNames DEF OpenChat
  <2>2. online' \in [Peer -> BOOLEAN] /\ label' \in [Peer -> {"on_line", "off_line"}]
    BY <1>2, UsersArePeers DEF OpenChat, TypeOK, Shown
  <2>3. chat' \in [Peer -> BOOLEAN]
    BY <1>2 DEF OpenChat, TypeOK
  <2> QED BY <1>2, <2>1, <2>2, <2>3 DEF OpenChat, TypeOK
<1>3. CASE CloseChat(p)
  <2>1. <<>> \in Seq(EventType)
    OBVIOUS
  <2> QED BY <1>3, <2>1 DEF CloseChat, TypeOK, EventType
<1>4. CASE ContactReported(p)
  <2>1. creating' \in [Peer -> [Purpose -> Nat]] /\ spent' \in [DOMAIN Bounds -> Nat]
    BY <1>1, <1>4, CreatingType, SpendType, BoundNames DEF ContactReported
  <2> QED BY <1>4, <2>1 DEF ContactReported, TypeOK
<1>5. CASE SendText(p) \/ SendFile(p)
  <2>1. creating' \in [Peer -> [Purpose -> Nat]] /\ spent' \in [DOMAIN Bounds -> Nat]
    BY <1>1, <1>5, CreatingType, SpendType, BoundNames DEF SendText, SendFile, TypeOK
  <2>2. sq' \in [Peer -> Seq(Message)]
    <3>1. CASE UNCHANGED sq
      BY <3>1 DEF TypeOK
    <3>2. CASE ~UNCHANGED sq
      <4>1. PICK u \in Purpose, type \in {"DATA_MESSAGE", "FILE_META"} :
              /\ HasConn(item[p], table[p], u)
              /\ sq' = [sq EXCEPT ![p] = Append(sq[p],
                          [sock |-> ConnOf(item[p], table[p], u), type |-> type,
                           key |-> item[p][ConnOf(item[p], table[p], u)].key])]
        BY <1>5, <3>2 DEF SendText, SendFile, Purpose
      <4> DEFINE s == ConnOf(item[p], table[p], u)
      <4>2. s \in Sock
        BY <4>1, PickInTable, RangeInType DEF TypeOK
      <4> HIDE DEF s
      <4>3. item[p][s].key \in Nat
        BY <4>2 DEF TypeOK, Connection
      <4>4. [sock |-> s, type |-> type, key |-> item[p][s].key] \in Message
        BY <4>2, <4>3 DEF Message, DataType
      <4>5. Append(sq[p], [sock |-> s, type |-> type, key |-> item[p][s].key]) \in Seq(Message)
        BY <4>4, RangeOfAppend DEF TypeOK
      <4> QED BY <4>1, <4>5 DEF TypeOK, s
    <3> QED BY <3>1, <3>2
  <2> QED BY <1>5, <2>1, <2>2 DEF SendText, SendFile, TypeOK
<1> QED BY <1>2, <1>3, <1>4, <1>5 DEF UserStep

(* The status checker keeps the types. *)
LEMMA NetType ==
  ASSUME TypeOK, NEW p \in Peer, NetStep(p)
  PROVE  TypeOK'
<1>1. TEXT \in Purpose
  BY DEF Purpose
<1>2. ASSUME NEW s \in Sock, NetworkUpOk(p, s)
      PROVE  TypeOK'
  <2> DEFINE socks == AddNewConn(table[p], s)
             its   == [item[p] EXCEPT ![s] = NewConnection(TEXT)]
             conn  == ConnOf(its, socks, TEXT)
             request == [type |-> "REQUEST", key |-> NoKey]
  <2>1. spent' \in [DOMAIN Bounds -> Nat] /\ resending' \in [Peer -> BOOLEAN]
    BY <1>2, SpendType, BoundNames DEF NetworkUpOk, TypeOK
  <2>2. wire' \in [Peer -> [Sock -> Seq(Cell)]] /\ transports' \in [Peer -> [Sock -> Nat]]
    <3>1. CASE UNCHANGED <<transports, wire>>
      BY <3>1 DEF TypeOK
    <3>2. CASE ~UNCHANGED <<transports, wire>>
      <4>1. /\ HasConn(its, socks, TEXT)
            /\ transports' = [transports EXCEPT ![p][conn] = transports[p][conn] + 1]
            /\ wire' = [wire EXCEPT ![Other(p)][conn] = Append(wire[Other(p)][conn], request)]
        BY <1>2, <3>2 DEF NetworkUpOk
      <4>2. socks \in Seq(Sock)
        BY RangeOfAppend DEF AddNewConn, TypeOK
      <4>3. conn \in Sock
        BY <4>1, <4>2, PickInTable, RangeInType
      <4> HIDE DEF conn, request
      <4>4. request \in Cell
        BY CellTypes DEF request
      <4>5. wire' \in [Peer -> [Sock -> Seq(Cell)]]
        BY <4>1, <4>3, <4>4, AppendEffect
      <4>6. transports' \in [Peer -> [Sock -> Nat]]
        BY <4>1, <4>3 DEF TypeOK
      <4> QED BY <4>5, <4>6
    <3> QED BY <3>1, <3>2
  <2>3. Connected(p, s, TEXT)
    BY <1>2 DEF NetworkUpOk
  <2>4. UNCHANGED <<cut, creating, rq, sq, failed, tried, receiving, rd, uiVars, started,
                  made>>
    BY <1>2 DEF NetworkUpOk
  <2> QED BY <1>1, <2>1, <2>2, <2>3, <2>4, ConnectedType DEF TypeOK
<1>3. CASE NetworkUpFails(p)
  <2>1. spent' \in [DOMAIN Bounds -> Nat] /\ resending' \in [Peer -> BOOLEAN]
    BY <1>3, SpendType, BoundNames DEF NetworkUpFails, TypeOK
  <2> QED BY <1>3, <2>1 DEF NetworkUpFails, TypeOK
<1>4. CASE TryResendAll(p)
  <2>1. item[p] \in [Sock -> Connection] /\ resending' \in [Peer -> BOOLEAN]
    BY <1>4 DEF TryResendAll, TypeOK
  <2>2. sq' \in [Peer -> Seq(Message)] /\ failed' \in [Peer -> Nat]
    BY <1>4, <2>1, TryResendType DEF TryResendAll
  <2> QED BY <1>4, <2>1, <2>2 DEF TryResendAll, TypeOK
<1> QED BY <1>2, <1>3, <1>4 DEF NetStep

(* The threads that read a socket keep the types. *)
LEMMA SocketType ==
  ASSUME TypeOK, NEW p \in Peer, NEW s \in Sock, SocketStep(p, s)
  PROVE  TypeOK'
<1> DEFINE c == Head(wire[p][s])
<1>1. CASE HandlerAccept(p, s) \/ ReadCell(p, s)
  <2>1. wire' \in [Peer -> [Sock -> Seq(Cell)]] /\ c \in Cell
    BY <1>1, ReadEffect DEF HandlerAccept, ReadCell
  <2>2. ToMessage(s, c) \in Message
    BY <2>1, CellTypes
  <2>3. rq' = [rq EXCEPT ![p] = Append(rq[p], ToMessage(s, c))] \/ rq' = rq
    BY <1>1 DEF HandlerAccept, ReadCell
  <2>4. Append(rq[p], ToMessage(s, c)) \in Seq(Message)
    BY <2>2, RangeOfAppend DEF TypeOK
  <2>5. rq' \in [Peer -> Seq(Message)]
    BY <2>3, <2>4 DEF TypeOK
  <2>6. CASE HandlerAccept(p, s)
    <3>1. TEXT \in Purpose
      BY DEF Purpose
    <3>2. item' \in [Peer -> [Sock -> Connection]]
      BY <2>6, <3>1, NewConnectionType DEF HandlerAccept, TypeOK
    <3>3. table' \in [Peer -> Seq(Sock)]
      BY <2>6, RangeOfAppend DEF HandlerAccept, AddNewConn, TypeOK
    <3>4. known' \in [Peer -> SUBSET Sock]
      BY <2>6 DEF HandlerAccept, TypeOK
    <3> QED BY <2>1, <2>5, <2>6, <3>2, <3>3, <3>4 DEF HandlerAccept, TypeOK
  <2>7. CASE ReadCell(p, s)
    BY <2>1, <2>5, <2>7 DEF ReadCell, TypeOK
  <2> QED BY <1>1, <2>6, <2>7
<1>2. CASE HandlerStops(p, s) \/ TransportStops(p, s)
  <2>1. WireType
    BY <1>2, CloseEffect DEF HandlerStops, TransportStops
  <2>2. table' \in [Peer -> Seq(Sock)] /\ creating' \in [Peer -> [Purpose -> Nat]]
    <3>1. CASE UNCHANGED <<table, creating>>
      BY <3>1 DEF TypeOK
    <3>2. CASE DeleteConnection(p, s)
      <4>1. item[p] \in [Sock -> Connection]
        BY DEF TypeOK
      <4> QED BY <3>2, <4>1, DeleteEffect DEF DeleteConnection
    <3> QED BY <1>2, <3>1, <3>2 DEF HandlerStops, TransportStops
  <2>3. handler' \in [Peer -> SUBSET Sock] /\ transports' \in [Peer -> [Sock -> Nat]]
    <3>1. CASE HandlerStops(p, s)
      BY <3>1 DEF HandlerStops, TypeOK
    <3>2. CASE TransportStops(p, s)
      <4>1. transports[p][s] - 1 \in Nat
        BY <3>2 DEF TransportStops, TypeOK
      <4> QED BY <3>2, <4>1 DEF TransportStops, TypeOK
    <3> QED BY <1>2, <3>1, <3>2
  <2> QED BY <1>2, <2>1, <2>2, <2>3 DEF HandlerStops, TransportStops, TypeOK, WireType
<1> QED BY <1>1, <1>2 DEF SocketStep

(* Every step keeps the type invariant. *)
LEMMA TypeStep == TypeOK /\ [Next]_vars => TypeOK'
<1> SUFFICES ASSUME TypeOK, [Next]_vars PROVE TypeOK'
  OBVIOUS
<1>1. ASSUME NEW p \in Peer, ReaderStep(p) PROVE TypeOK'
  BY <1>1, HandleRequestType, HandleAuthType, HandleExchangeType, HandleDoneType,
     HandleDataType, RecordStatusType DEF ReaderStep
<1>2. ASSUME NEW s \in Sock, CutCircuit(s) PROVE TypeOK'
  <2>1. spent' \in [DOMAIN Bounds -> Nat] /\ cut' \subseteq Sock
    BY <1>2, SpendType, BoundNames DEF CutCircuit, TypeOK
  <2>2. wire' \in [Peer -> [Sock -> Seq(Cell)]]
    BY <1>2 DEF CutCircuit, TypeOK
  <2> QED BY <1>2, <2>1, <2>2 DEF CutCircuit, TypeOK
<1>3. CASE UNCHANGED vars
  BY <1>3 DEF vars, TypeOK
<1> QED BY <1>1, <1>2, <1>3, WriteType, ScreenType, OpeningType, UserType, NetType,
           SocketType DEF Next

(* The types hold at the start. *)
LEMMA TypeInit == Init => TypeOK
<1> SUFFICES ASSUME Init PROVE TypeOK
  OBVIOUS
<1>1. item \in [Peer -> [Sock -> Connection]]
  BY NewConnectionType DEF Init, Purpose
<1>2. /\ wire \in [Peer -> [Sock -> Seq(Cell)]] /\ table \in [Peer -> Seq(Sock)]
      /\ rq \in [Peer -> Seq(Message)] /\ sq \in [Peer -> Seq(Message)]
      /\ events \in [Peer -> Seq({"success", "fail", "start", "received"})]
      /\ made \in Seq(Sock)
  BY DEF Init
<1> QED BY <1>1, <1>2 DEF Init, TypeOK

(* Every variable keeps the type of the field it stands for, for any sockets,      *)
(* users and bounds.                                                              *)
THEOREM TypeCorrect == Spec => []TypeOK
  BY TypeInit, TypeStep, PTL DEF Spec

-----------------------------------------------------------------------------
(* The inductive invariant.  Every step is calm: what it does to the connections, *)
(* the keys and the Reader's pending update is one of a few things, and the cells  *)
(* it puts on a wire or in a queue are ones the invariant allows.                  *)

(* The item of t at q: kept but for its status, made, or recorded by the Reader. *)
ItemCalm(q, t) ==
  \/ /\ item'[q][t].key = item[q][t].key
     /\ item'[q][t].status = 1 => item[q][t].status = 1
  \/ /\ t \notin known[q]
     /\ item'[q][t].key = NoKey /\ item'[q][t].status = 0
  \/ /\ rd[q] # Idle /\ t = rd[q].sock /\ InTable(q, t)
     /\ item'[q][t].key = IF rd[q].key # NoKey THEN rd[q].key ELSE item[q][t].key
     /\ item'[q][t].status = rd[q].status

(* The update the Reader of q has pending: kept, new, or recorded. *)
ReaderCalm(q) ==
  \/ rd'[q] = rd[q]
  \/ /\ rd[q] = Idle /\ rd'[q].sock \in known[q]
     /\ rd'[q].key # NoKey => rd'[q].key \in KeysFor(rd[q].sock)'
     /\ rd'[q].status = 1 /\ rd'[q].key = NoKey /\ InTable(q, rd'[q].sock)
          => Keyed(q, rd'[q].sock)
  \/ /\ rd[q] # Idle /\ rd'[q] = Idle
     /\ InTable(q, rd[q].sock) /\ rd[q].key # NoKey => item'[q][rd[q].sock].key # NoKey

Calm ==
  /\ \A t \in Sock : client[t] # Nobody => client'[t] # Nobody
  /\ \A t \in Sock : KeysFor(t) \subseteq KeysFor(t)'
  /\ \A q \in Peer :
       /\ known[q] \subseteq known'[q]
       /\ \A t \in known'[q] \cup handler'[q] :
            t \in known[q] \cup handler[q] \/ client'[t] # Nobody
       /\ \A t \in Range(table'[q]) : t \in Range(table[q]) \/ t \in known'[q] \ known[q]
       /\ \A t \in known[q] : t \notin Range(table[q]) => item'[q][t] = item[q][t]
       /\ \A t \in Sock : ItemCalm(q, t)
       /\ ReaderCalm(q)

(* The cells a step adds. *)
WiresCalm ==
  \A q \in Peer, t \in Sock : \A c \in Range(wire'[q][t]) :
    \/ c \in Range(wire[q][t])
    \/ CellMeans(q, t, c)' /\ (c.key # NoKey => c.key \in KeysFor(t)')
QueuesCalm ==
  \A q \in Peer :
    /\ \A m \in Range(rq'[q]) :
         \/ m \in Range(rq[q])
         \/ /\ m.sock \in known'[q]
            /\ \E c \in Range(wire[q][m.sock]) : m.type = c.type /\ m.key = c.key
    /\ \A m \in Range(sq'[q]) :
         \/ m \in Range(sq[q])
         \/ m.type \in DataType /\ (m.key # NoKey => m.key \in KeysFor(m.sock)')

(* After a calm step a key of an item is made for its socket and never lost. *)
LEMMA ItemKeys ==
  ASSUME Inv, Calm, NEW q \in Peer, NEW t \in Sock
  PROVE  /\ Keyed(q, t)' => item'[q][t].key \in KeysFor(t)'
         /\ Keyed(q, t)' => t \in known'[q]
         /\ Keyed(q, t) => Keyed(q, t)'
         /\ item'[q][t].status = 1 => Keyed(q, t)'
<1>1. ItemCalm(q, t) /\ KeysFor(t) \subseteq KeysFor(t)' /\ known[q] \subseteq known'[q]
  BY DEF Calm
<1>2. /\ Keyed(q, t) => item[q][t].key \in KeysFor(t) /\ t \in known[q]
      /\ item[q][t].status = 1 => Keyed(q, t)
  BY DEF Inv, KnownInv, KeyInv, KeysStayOnTheirSocket, EstablishedHasKey
<1>3. CASE /\ item'[q][t].key = item[q][t].key
           /\ item'[q][t].status = 1 => item[q][t].status = 1
  BY <1>1, <1>2, <1>3 DEF Keyed
<1>4. CASE /\ t \notin known[q]
           /\ item'[q][t].key = NoKey /\ item'[q][t].status = 0
  BY <1>1, <1>2, <1>4 DEF Keyed
<1>5. CASE /\ rd[q] # Idle /\ t = rd[q].sock /\ InTable(q, t)
           /\ item'[q][t].key = IF rd[q].key # NoKey THEN rd[q].key ELSE item[q][t].key
           /\ item'[q][t].status = rd[q].status
  <2>1. t \in known[q] /\ (rd[q].key # NoKey => rd[q].key \in KeysFor(t))
    BY <1>5 DEF Inv, KnownInv, KeyInv
  <2>2. rd[q].status = 1 /\ rd[q].key = NoKey => Keyed(q, t)
    BY <1>5 DEF Inv, HandshakeInv
  <2> QED BY <1>1, <1>2, <1>5, <2>1, <2>2 DEF Keyed
<1> QED BY <1>1, <1>3, <1>4, <1>5 DEF ItemCalm

(* Once p has answered a handshake that stays so. *)
LEMMA AnsweredKept ==
  ASSUME Inv, Calm, NEW q \in Peer, NEW t \in Sock, Answered(q, t)
  PROVE  Answered(q, t)'
<1>1. t \in known[q] /\ known[q] \subseteq known'[q] /\ ReaderCalm(q)
  BY DEF Answered, Calm
<1>2. InTable(q, t)' => InTable(q, t)
  BY <1>1 DEF Calm, InTable
<1>3. Keyed(q, t) => Keyed(q, t)'
  BY ItemKeys
<1>4. ASSUME InTable(q, t), rd[q].sock = t, rd[q].key # NoKey
      PROVE  Keyed(q, t)' \/ rd'[q] = rd[q]
  <2>1. rd[q] # Idle
    BY <1>4 DEF Idle
  <2> QED BY <1>1, <1>4, <2>1 DEF ReaderCalm, Keyed
<1> QED BY <1>1, <1>2, <1>3, <1>4 DEF Answered

(* A calm step keeps what a cell says about the handshake. *)
LEMMA CellMeansKept ==
  ASSUME Inv, Calm, NEW q \in Peer, NEW t \in Sock, NEW c, CellMeans(q, t, c)
  PROVE  CellMeans(q, t, c)'
  BY AnsweredKept, OtherPeer DEF CellMeans

(* A step that is calm keeps the inductive invariant. *)
LEMMA CalmStep ==
  ASSUME Inv, TypeOK', Calm, WiresCalm, QueuesCalm
  PROVE  Inv'
<1>1. \A q \in Peer : Range(rq[q]) \subseteq Message /\ Range(rq'[q]) \subseteq Message
  BY RangeInType DEF Inv, TypeOK
<1>2. \A m \in Message : m.sock \in Sock
  BY CellTypes
<1>3. KnownInv'
  <2> SUFFICES ASSUME NEW q \in Peer
               PROVE  /\ \A s \in known'[q] \cup handler'[q] : client'[s] # Nobody
                      /\ Range(table'[q]) \subseteq known'[q]
                      /\ \A s \in Sock : Keyed(q, s)' => s \in known'[q]
                      /\ \A m \in Range(rq'[q]) : m.sock \in known'[q]
                      /\ rd'[q] # Idle => rd'[q].sock \in known'[q]
    BY DEF KnownInv
  <2>1. /\ \A s \in known[q] \cup handler[q] : client[s] # Nobody
        /\ Range(table[q]) \subseteq known[q]
        /\ \A m \in Range(rq[q]) : m.sock \in known[q]
        /\ rd[q] # Idle => rd[q].sock \in known[q]
    BY DEF Inv, KnownInv
  <2>2. known[q] \cup handler[q] \subseteq Sock
    BY DEF Inv, TypeOK
  <2>3. \A s \in known'[q] \cup handler'[q] : client'[s] # Nobody
    BY <2>1, <2>2 DEF Calm
  <2>4. Range(table'[q]) \subseteq known'[q]
    BY <2>1 DEF Calm
  <2>5. \A s \in Sock : Keyed(q, s)' => s \in known'[q]
    BY ItemKeys
  <2>6. \A m \in Range(rq'[q]) : m.sock \in known'[q]
    BY <2>1 DEF Calm, QueuesCalm
  <2>7. rd'[q] # Idle => rd'[q].sock \in known'[q]
    BY <2>1 DEF Calm, ReaderCalm
  <2> QED BY <2>3, <2>4, <2>5, <2>6, <2>7
<1>4. KeyInv'
  <2> SUFFICES ASSUME NEW q \in Peer
               PROVE  /\ \A s \in Sock : Keyed(q, s)' => item'[q][s].key \in KeysFor(s)'
                      /\ \A s \in Sock : \A c \in Range(wire'[q][s]) :
                           c.key # NoKey => c.key \in KeysFor(s)'
                      /\ \A m \in Range(rq'[q]) : m.key # NoKey => m.key \in KeysFor(m.sock)'
                      /\ \A m \in Range(sq'[q]) :
                           m.type \in DataType /\ (m.key # NoKey => m.key \in KeysFor(m.sock)')
                      /\ rd'[q].key # NoKey => rd'[q].key \in KeysFor(rd[q].sock)'
    BY DEF KeyInv, KeysStayOnTheirSocket
  <2>1. /\ \A s \in Sock : \A c \in Range(wire[q][s]) : c.key # NoKey => c.key \in KeysFor(s)
        /\ \A m \in Range(rq[q]) : m.key # NoKey => m.key \in KeysFor(m.sock)
        /\ \A m \in Range(sq[q]) :
             m.type \in DataType /\ (m.key # NoKey => m.key \in KeysFor(m.sock))
        /\ rd[q].key # NoKey => rd[q].key \in KeysFor(rd[q].sock)
    BY DEF Inv, KeyInv, KeysStayOnTheirSocket
  <2>2. \A s \in Sock : KeysFor(s) \subseteq KeysFor(s)'
    BY DEF Calm
  <2>3. \A s \in Sock : Keyed(q, s)' => item'[q][s].key \in KeysFor(s)'
    BY ItemKeys
  <2>4. \A s \in Sock : \A c \in Range(wire'[q][s]) : c.key # NoKey => c.key \in KeysFor(s)'
    BY <2>1, <2>2 DEF WiresCalm
  <2>5. \A m \in Range(rq'[q]) : m.key # NoKey => m.key \in KeysFor(m.sock)'
    BY <2>1, <2>2, <1>1, <1>2 DEF QueuesCalm
  <2>6. \A m \in Range(sq'[q]) :
          m.type \in DataType /\ (m.key # NoKey => m.key \in KeysFor(m.sock)')
    <3>1. Range(sq[q]) \subseteq Message
      BY RangeInType DEF Inv, TypeOK
    <3> QED BY <2>1, <2>2, <3>1, <1>2 DEF QueuesCalm
  <2>7. rd'[q].key # NoKey => rd'[q].key \in KeysFor(rd[q].sock)'
    <3>1. CASE rd'[q] = rd[q]
      <4>1. rd[q].key # NoKey => rd[q].sock \in Sock
        BY PendingType DEF Inv, Idle
      <4> QED BY <3>1, <4>1, <2>1, <2>2
    <3>2. CASE rd'[q] # rd[q]
      <4>1. Idle.key = NoKey
        BY DEF Idle
      <4> QED BY <3>2, <4>1 DEF Calm, ReaderCalm
    <3> QED BY <3>1, <3>2
  <2> QED BY <2>3, <2>4, <2>5, <2>6, <2>7
<1>5. HandshakeInv'
  <2> SUFFICES ASSUME NEW q \in Peer
               PROVE  /\ \A s \in Sock : \A c \in Range(wire'[q][s]) : CellMeans(q, s, c)'
                      /\ \A m \in Range(rq'[q]) : CellMeans(q, m.sock, m)'
                      /\ rd'[q].status = 1 /\ rd'[q].key = NoKey /\ InTable(q, rd[q].sock)'
                           => Keyed(q, rd[q].sock)'
    BY DEF HandshakeInv
  <2>1. /\ \A s \in Sock : \A c \in Range(wire[q][s]) : CellMeans(q, s, c)
        /\ \A m \in Range(rq[q]) : CellMeans(q, m.sock, m)
        /\ rd[q].status = 1 /\ rd[q].key = NoKey /\ InTable(q, rd[q].sock)
             => Keyed(q, rd[q].sock)
    BY DEF Inv, HandshakeInv
  <2>2. \A s \in Sock : \A c \in Range(wire'[q][s]) : CellMeans(q, s, c)'
    BY <2>1, CellMeansKept DEF WiresCalm
  <2>3. ASSUME NEW m \in Range(rq'[q]) PROVE CellMeans(q, m.sock, m)'
    <3>1. m.sock \in Sock
      BY <1>1, <1>2
    <3>2. CASE m \in Range(rq[q])
      BY <3>1, <3>2, <2>1, CellMeansKept
    <3>3. CASE \E c \in Range(wire[q][m.sock]) : m.type = c.type /\ m.key = c.key
      <4>1. PICK c \in Range(wire[q][m.sock]) : m.type = c.type /\ m.key = c.key
        BY <3>3
      <4>2. CellMeans(q, m.sock, c)'
        BY <4>1, <3>1, <2>1, CellMeansKept
      <4> QED BY <4>1, <4>2 DEF CellMeans
    <3> QED BY <3>2, <3>3 DEF QueuesCalm
  <2>4. ASSUME rd'[q].status = 1, rd'[q].key = NoKey, InTable(q, rd[q].sock)'
        PROVE  Keyed(q, rd[q].sock)'
    <3>1. rd'[q] # Idle /\ ReaderCalm(q)
      BY <2>4 DEF Idle, Calm
    <3>2. rd'[q].sock \in known[q] /\ rd'[q].sock \in Sock
      <4>1. rd[q] # Idle => rd[q].sock \in known[q]
        BY DEF Inv, KnownInv
      <4>2. known[q] \subseteq Sock
        BY DEF Inv, TypeOK
      <4> QED BY <3>1, <4>1, <4>2 DEF ReaderCalm
    <3>3. InTable(q, rd'[q].sock)
      BY <2>4, <3>2 DEF InTable, Calm
    <3>4. Keyed(q, rd'[q].sock)
      BY <2>1, <2>4, <3>1, <3>3 DEF ReaderCalm
    <3> QED BY <3>2, <3>4, ItemKeys
  <2> QED BY <2>2, <2>3, <2>4
<1>6. EstablishedHasKey'
  BY ItemKeys DEF EstablishedHasKey
<1> QED BY <1>3, <1>4, <1>5, <1>6 DEF Inv

-----------------------------------------------------------------------------
(* Every step is calm *)

TablesShrink == \A q \in Peer : Range(table'[q]) \subseteq Range(table[q])
HandlersShrink == \A q \in Peer : handler'[q] \subseteq handler[q]

(* A reply of the Reader adds at most one cell to one wire. *)
LEMMA ReplyEffect ==
  ASSUME TypeOK, NEW p \in Peer, NEW s \in Sock, NEW c \in Cell,
         ReplyOk(p, s, c) \/ ReplyFails(p, s)
  PROVE  TablesShrink /\ (WireGains(p, s, c) \/ WireShrinks)
<1>1. CASE ReplyOk(p, s, c)
  BY <1>1, SendEffect DEF ReplyOk, TablesShrink
<1>2. CASE ReplyFails(p, s)
  <2>1. item[p] \in [Sock -> Connection]
    BY DEF TypeOK
  <2> QED BY <1>2, <2>1, SendFailsEffect, DeleteEffect
          DEF ReplyFails, DeleteConnection, TablesShrink
<1> QED BY <1>1, <1>2

(* No key chosen: the keys made for each socket are the same. *)
LEMMA KeysForKept == UNCHANGED made => \A t \in Sock : KeysFor(t)' = KeysFor(t)
  BY DEF KeysFor

(* A step that leaves items, sockets, keys and the Reader alone is calm. *)
LEMMA SameItemsCalm ==
  ASSUME Inv, UNCHANGED <<client, known, item, rd, made>>, TablesShrink, HandlersShrink
  PROVE  Calm
  BY KeysForKept DEF Calm, TablesShrink, HandlersShrink, ItemCalm, ReaderCalm

(* A cell that carries no new key and ends no handshake disturbs no wire. *)
LEMMA HarmlessCalm ==
  ASSUME NEW p \in Peer, NEW s \in Sock, NEW c, c.type \notin {"EXCHANGE", "DONE"},
         c.key # NoKey => c.key \in KeysFor(s)',
         WireGains(p, s, c) \/ WireShrinks
  PROVE  WiresCalm
<1>1. CellMeans(Other(p), s, c)'
  BY DEF CellMeans
<1> QED BY <1>1 DEF WireGains, WireShrinks, WiresCalm

(* Wires that only lose cells are calm. *)
LEMMA ShrinkCalm == WireShrinks => WiresCalm
  BY DEF WireShrinks, WiresCalm

(* A step that leaves the queues alone is calm about them. *)
LEMMA SameQueuesCalm ==
  ASSUME \A q \in Peer : Range(rq'[q]) \subseteq Range(rq[q]) /\ Range(sq'[q]) \subseteq Range(sq[q])
  PROVE  QueuesCalm
  BY DEF QueuesCalm

(* What the Reader takes from recieveQueue satisfies the invariant. *)
LEMMA TakenMeans ==
  ASSUME Inv, NEW p \in Peer, NEW type, Takes(p, type)
  PROVE  /\ \E m \in Message :
              /\ m = Head(rq[p]) /\ m.type = type
              /\ m.sock \in Sock /\ m.sock \in known[p] /\ m.key \in Nat
              /\ m.key # NoKey => m.key \in KeysFor(m.sock)
              /\ CellMeans(p, m.sock, m)
         /\ rd[p] = Idle
         /\ \A q \in Peer : Range(rq'[q]) \subseteq Range(rq[q])
<1>0. /\ Head(rq[p]) \in Message /\ Head(rq[p]) \in Range(rq[p])
      /\ Head(rq[p]).type = type /\ rd[p] = Idle
      /\ \A q \in Peer : Range(rq'[q]) \subseteq Range(rq[q])
  BY TakesEffect DEF Inv
<1>1. PICK m \in Message : m = Head(rq[p]) /\ m \in Range(rq[p]) /\ m.type = type
  BY <1>0
<1>2. m.sock \in Sock /\ m.key \in Nat
  BY <1>1, CellTypes
<1>3. m.sock \in known[p]
  BY <1>1 DEF Inv, KnownInv
<1>4. m.key # NoKey => m.key \in KeysFor(m.sock)
  BY <1>1 DEF Inv, KeyInv, KeysStayOnTheirSocket
<1>5. CellMeans(p, m.sock, m)
  BY <1>1 DEF Inv, HandshakeInv
<1> QED BY <1>0, <1>1, <1>2, <1>3, <1>4, <1>5

AllCalm == Calm /\ WiresCalm /\ QueuesCalm

(* Handling a REQUEST is calm. *)
LEMMA HandleRequestCalm ==
  ASSUME Inv, NEW p \in Peer, HandleRequest(p)
  PROVE  AllCalm
<1> DEFINE c == [type |-> "AUTH", key |-> NoKey]
<1>0. PICK s \in Sock : s = Head(rq[p]).sock /\ s \in known[p]
  BY TakenMeans DEF HandleRequest
<1>1. \A q \in Peer : Range(rq'[q]) \subseteq Range(rq[q])
  BY TakenMeans DEF HandleRequest
<1>2. c \in Cell /\ c.type = "AUTH" /\ c.key = NoKey
  BY CellTypes
<1>3. TablesShrink /\ (WireGains(p, s, c) \/ WireShrinks)
  BY <1>0, <1>2, ReplyEffect DEF HandleRequest, Inv
<1>4. UNCHANGED <<client, known, rd, made, handler, sq>>
  BY DEF HandleRequest
<1>5. item' = IF InTable(p, s) THEN [item EXCEPT ![p][s].status = 0] ELSE item
  BY <1>0 DEF HandleRequest
<1> HIDE DEF c
<1>6. ASSUME NEW q \in Peer, NEW t \in Sock
      PROVE  /\ item'[q][t].key = item[q][t].key
             /\ item'[q][t].status = 1 => item[q][t].status = 1
             /\ ~InTable(q, t) => item'[q][t] = item[q][t]
  <2>1. item \in [Peer -> [Sock -> Connection]] /\ item[p][s] \in Connection
    BY <1>1 DEF Inv, TypeOK
  <2> DEFINE zero == [item[p][s] EXCEPT !.status = 0]
  <2>2. zero.key = item[p][s].key /\ zero.status = 0
    BY <2>1 DEF Connection
  <2>3. item' = IF InTable(p, s) THEN [item EXCEPT ![p][s] = zero] ELSE item
    BY <1>1, <1>5, <2>1
  <2> HIDE DEF zero
  <2> QED BY <1>1, <2>1, <2>2, <2>3
<1>7. Calm
  <2>1. \A q \in Peer : known[q] \subseteq Sock
    BY DEF Inv, TypeOK
  <2>2. \A q \in Peer : ReaderCalm(q)
    BY <1>4 DEF ReaderCalm
  <2>3. ASSUME NEW q \in Peer, NEW t \in Sock
        PROVE  ItemCalm(q, t) /\ (t \notin Range(table[q]) => item'[q][t] = item[q][t])
    BY <1>6 DEF ItemCalm, InTable
  <2> QED BY <1>3, <1>4, <2>1, <2>2, <2>3, KeysForKept DEF Calm, TablesShrink
<1>8. WiresCalm
  BY <1>1, <1>2, <1>3, HarmlessCalm
<1> QED BY <1>1, <1>4, <1>7, <1>8, SameQueuesCalm DEF AllCalm

(* Handling an AUTH is calm: the key it chooses is new. *)
LEMMA HandleAuthCalm ==
  ASSUME Inv, NEW p \in Peer, HandleAuth(p)
  PROVE  AllCalm
<1>a. PICK s \in Sock : s = Head(rq[p]).sock /\ s \in known[p]
  BY TakenMeans DEF HandleAuth
<1>1. rd[p] = Idle /\ \A q \in Peer : Range(rq'[q]) \subseteq Range(rq[q])
  BY TakenMeans DEF HandleAuth
<1>b. PICK k \in Nat : k = Len(made) + 1
  BY DEF Inv, TypeOK
<1> DEFINE c == [type |-> "EXCHANGE", key |-> k]
           pend == [sock |-> s, status |-> 0, key |-> k]
<1>2. k # NoKey /\ k \in KeysFor(s)' /\ \A t \in Sock : KeysFor(t) \subseteq KeysFor(t)'
  <2>1. made \in Seq(Sock) /\ made' = Append(made, s)
    BY <1>a DEF HandleAuth, Inv, TypeOK
  <2>2. /\ Len(made) \in Nat /\ DOMAIN made = 1 .. Len(made)
        /\ DOMAIN made' = 1 .. Len(made) + 1 /\ made'[Len(made) + 1] = s
        /\ \A i \in 1 .. Len(made) : made'[i] = made[i]
    BY <2>1
  <2>3. k \in KeysFor(s)'
    BY <1>b, <2>2 DEF KeysFor
  <2>4. \A t \in Sock : KeysFor(t) \subseteq KeysFor(t)'
    BY <2>2 DEF KeysFor
  <2> QED BY <1>b, <2>2, <2>3, <2>4
<1>3. c \in Cell /\ c.type = "EXCHANGE" /\ c.key = k
  BY <1>2, CellTypes
<1>4. TablesShrink /\ (WireGains(p, s, c) \/ WireShrinks)
  BY <1>a, <1>b, <1>3, ReplyEffect DEF HandleAuth, Inv
<1>5. UNCHANGED <<client, known, item, handler, sq>>
  BY DEF HandleAuth
<1>6. \/ rd' = [rd EXCEPT ![p] = pend]
      \/ rd' = rd /\ WireShrinks
  <2>1. CASE ReplyFails(p, s) /\ UNCHANGED rd
    BY <2>1, SendFailsEffect DEF ReplyFails, Inv
  <2> QED BY <1>a, <1>b, <2>1 DEF HandleAuth
<1>7. pend.sock = s /\ pend.status = 0 /\ pend.key = k
  OBVIOUS
<1> HIDE DEF c, pend
<1>8. Calm
  <2>1. \A q \in Peer : ReaderCalm(q)
    <3> TAKE q \in Peer
    <3>1. CASE rd'[q] = rd[q]
      BY <3>1 DEF ReaderCalm
    <3>2. CASE rd'[q] # rd[q]
      <4>1. q = p /\ rd'[q] = pend
        BY <3>2, <1>6 DEF Inv, TypeOK
      <4>2. KeysFor(rd[q].sock)' = KeysFor(s)'
        BY <4>1, <1>7 DEF KeysFor
      <4> QED BY <4>1, <4>2, <1>a, <1>1, <1>2, <1>7 DEF ReaderCalm
    <3> QED BY <3>1, <3>2
  <2> QED BY <1>2, <1>4, <1>5, <2>1 DEF Calm, TablesShrink, ItemCalm
<1>9. WiresCalm
  <2>1. CASE WireShrinks
    BY <2>1, ShrinkCalm
  <2>2. CASE rd' = [rd EXCEPT ![p] = pend] /\ WireGains(p, s, c)
    <3>1. rd'[p] = pend
      BY <2>2 DEF Inv, TypeOK
    <3>2. Answered(p, s)'
      BY <3>1, <1>a, <1>2, <1>5, <1>7 DEF Answered
    <3>3. CellMeans(Other(p), s, c)'
      BY <3>2, <1>2, <1>3, OtherPeer DEF CellMeans
    <3> QED BY <2>2, <3>3, <1>2, <1>3 DEF WireGains, WiresCalm
  <2> QED BY <1>4, <1>6, <2>1, <2>2
<1> QED BY <1>1, <1>5, <1>8, <1>9, SameQueuesCalm DEF AllCalm

(* Handling an EXCHANGE is calm. *)
LEMMA HandleExchangeCalm ==
  ASSUME Inv, NEW p \in Peer, HandleExchange(p)
  PROVE  AllCalm
<1>a. PICK m \in Message : /\ m = Head(rq[p]) /\ m.type = "EXCHANGE"
                           /\ m.sock \in Sock /\ m.sock \in known[p]
                           /\ m.key # NoKey => m.key \in KeysFor(m.sock)
                           /\ CellMeans(p, m.sock, m)
  BY TakenMeans DEF HandleExchange
<1>b. PICK s \in Sock : s = m.sock
  BY <1>a
<1> DEFINE c == [type |-> "DONE", key |-> NoKey]
           pend == [sock |-> s, status |-> 1, key |-> m.key]
<1>1. /\ rd[p] = Idle
      /\ \A q \in Peer : Range(rq'[q]) \subseteq Range(rq[q])
  BY TakenMeans DEF HandleExchange
<1>2. m.key # NoKey /\ Answered(Other(p), s)
  BY <1>a, <1>b DEF CellMeans
<1>3. c \in Cell /\ c.type = "DONE" /\ c.key = NoKey
  BY CellTypes
<1>4. TablesShrink /\ (WireGains(p, s, c) \/ WireShrinks)
  BY <1>a, <1>b, <1>3, ReplyEffect DEF HandleExchange, Inv
<1>5. UNCHANGED <<client, known, item, handler, sq, made>>
  BY DEF HandleExchange
<1>6. rd' = [rd EXCEPT ![p] = pend] \/ rd' = rd
  BY <1>a, <1>b DEF HandleExchange
<1>7. pend.sock = s /\ pend.status = 1 /\ pend.key = m.key
  OBVIOUS
<1> HIDE DEF c, pend
<1>8. Calm
  <2>1. \A q \in Peer : ReaderCalm(q)
    <3> TAKE q \in Peer
    <3>1. CASE rd'[q] = rd[q]
      BY <3>1 DEF ReaderCalm
    <3>2. CASE rd'[q] # rd[q]
      <4>1. q = p /\ rd'[q] = pend
        BY <3>2, <1>6 DEF Inv, TypeOK
      <4>2. KeysFor(rd[q].sock)' = KeysFor(s)
        BY <4>1, <1>5, <1>7 DEF KeysFor
      <4> QED BY <4>1, <4>2, <1>a, <1>b, <1>1, <1>2, <1>7 DEF ReaderCalm
    <3> QED BY <3>1, <3>2
  <2> QED BY <1>4, <1>5, <2>1, KeysForKept DEF Calm, TablesShrink, ItemCalm
<1>9. WiresCalm
  <2>1. Answered(Other(p), s)'
    BY <1>2, <1>8, OtherPeer, AnsweredKept
  <2>2. CellMeans(Other(p), s, c)'
    BY <2>1, <1>3 DEF CellMeans
  <2> QED BY <1>3, <1>4, <2>2 DEF WireGains, WireShrinks, WiresCalm
<1> QED BY <1>1, <1>5, <1>8, <1>9, SameQueuesCalm DEF AllCalm

(* Handling a DONE is calm. *)
LEMMA HandleDoneCalm ==
  ASSUME Inv, NEW p \in Peer, HandleDone(p)
  PROVE  AllCalm
<1>a. PICK m \in Message : /\ m = Head(rq[p]) /\ m.type = "DONE"
                           /\ m.sock \in Sock /\ m.sock \in known[p]
                           /\ CellMeans(p, m.sock, m)
  BY TakenMeans DEF HandleDone
<1>b. PICK s \in Sock : s = m.sock
  BY <1>a
<1> DEFINE pend == [sock |-> s, status |-> 1, key |-> NoKey]
<1>1. /\ rd[p] = Idle
      /\ \A q \in Peer : Range(rq'[q]) \subseteq Range(rq[q])
  BY TakenMeans DEF HandleDone
<1>2. InTable(p, s) => Keyed(p, s)
  <2>1. Idle.key = NoKey
    BY DEF Idle
  <2> QED BY <1>a, <1>b, <1>1, <2>1 DEF CellMeans, Answered
<1>3. UNCHANGED <<client, known, item, handler, sq, made, table, wire>>
  BY DEF HandleDone
<1>4. rd' = [rd EXCEPT ![p] = pend]
  BY <1>a, <1>b DEF HandleDone
<1>5. pend.sock = s /\ pend.status = 1 /\ pend.key = NoKey
  OBVIOUS
<1> HIDE DEF pend
<1>6. \A q \in Peer : ReaderCalm(q)
  BY <1>a, <1>b, <1>1, <1>2, <1>4, <1>5 DEF Inv, TypeOK, ReaderCalm
<1>7. Calm
  BY <1>3, <1>6, KeysForKept DEF Calm, ItemCalm
<1>8. WiresCalm
  BY <1>3 DEF WiresCalm
<1> QED BY <1>1, <1>3, <1>7, <1>8, SameQueuesCalm DEF AllCalm

(* The key of an item was made for its socket. *)
LEMMA ItemKeyMade ==
  ASSUME Inv, NEW q \in Peer, NEW t \in Sock, item[q][t].key # NoKey
  PROVE  item[q][t].key \in KeysFor(t)
  BY DEF Inv, KeyInv, KeysStayOnTheirSocket, Keyed

(* Handling a data cell is calm. *)
LEMMA HandleDataCalm ==
  ASSUME Inv, NEW p \in Peer, HandleData(p)
  PROVE  AllCalm
<1>1. PICK type \in DataType : Takes(p, type)
  BY DEF HandleData
<1>2. PICK m \in Message : m = Head(rq[p]) /\ m.sock \in Sock /\ m.sock \in known[p]
  BY <1>1, TakenMeans
<1>3. \A q \in Peer : Range(rq'[q]) \subseteq Range(rq[q])
  BY <1>1, TakenMeans
<1>4. PICK s \in Sock : s = m.sock
  BY <1>2
<1>5. PICK k \in Nat : k = item[p][s].key
  BY DEF Inv, TypeOK, Connection
<1> DEFINE reply == [type |-> IF m.type = "FILE_META" THEN "FILE_READY" ELSE "ACK", key |-> k]
           its == IF InTable(p, s) /\ m.type \in {"FILE_META", "FILE_READY"}
                  THEN [item[p] EXCEPT ![s].purpose = FILE] ELSE item[p]
<1>6. /\ item' = [item EXCEPT ![p] = its]
      /\ \/ ReplyOk(p, s, reply)
         \/ SendMessageFails(p, s) /\ DeleteConnectionOf(p, its, s)
         \/ UNCHANGED <<open, wire, table>>
      /\ UNCHANGED <<client, known, rd, made, handler, sq>>
  BY <1>2, <1>4, <1>5 DEF HandleData
<1>7. reply \in Cell /\ reply.type \notin {"EXCHANGE", "DONE"} /\ reply.key = k
  BY CellTypes
<1>11. /\ its \in [Sock -> Connection]
       /\ \A t \in Sock : its[t].key = item[p][t].key
       /\ \A t \in Sock : its[t].status = item[p][t].status
       /\ \A t \in Sock : t \notin Range(table[p]) => its[t] = item[p][t]
  <2>1. item[p] \in [Sock -> Connection] /\ item[p][s] \in Connection
    BY DEF Inv, TypeOK
  <2> DEFINE filed == [item[p][s] EXCEPT !.purpose = FILE]
  <2>2. filed \in Connection /\ filed.key = item[p][s].key /\ filed.status = item[p][s].status
    BY <2>1 DEF Connection, Purpose
  <2>3. its = item[p] \/ (InTable(p, s) /\ its = [item[p] EXCEPT ![s] = filed])
    BY <2>1
  <2> HIDE DEF filed, its
  <2>4. CASE its = item[p]
    BY <2>1, <2>4
  <2>5. CASE InTable(p, s) /\ its = [item[p] EXCEPT ![s] = filed]
    <3>1. \A t \in Sock : its[t] = IF t = s THEN filed ELSE item[p][t]
      BY <2>1, <2>5
    <3> QED BY <3>1, <2>1, <2>2, <2>5 DEF InTable
  <2> QED BY <2>3, <2>4, <2>5
<1> HIDE DEF reply, its
<1>8. TablesShrink /\ (WireGains(p, s, reply) \/ WireShrinks)
  <2>1. CASE ReplyOk(p, s, reply)
    BY <2>1, <1>7, ReplyEffect DEF Inv
  <2>2. CASE SendMessageFails(p, s) /\ DeleteConnectionOf(p, its, s)
    BY <2>2, <1>11, SendFailsEffect, DeleteEffect DEF Inv, TablesShrink
  <2>3. CASE UNCHANGED <<open, wire, table>>
    BY <2>3 DEF TablesShrink, WireShrinks
  <2> QED BY <1>6, <2>1, <2>2, <2>3
<1>9. Calm
  <2>1. \A q \in Peer : known[q] \subseteq Sock /\ ReaderCalm(q)
    BY <1>6 DEF Inv, TypeOK, ReaderCalm
  <2>2. ASSUME NEW q \in Peer, NEW t \in Sock
        PROVE  ItemCalm(q, t) /\ (t \notin Range(table[q]) => item'[q][t] = item[q][t])
    <3>1. item'[q][t] = item[q][t] \/ (q = p /\ item'[q][t] = its[t])
      BY <1>6 DEF Inv, TypeOK
    <3>2. /\ item'[q][t].key = item[q][t].key
          /\ item'[q][t].status = item[q][t].status
          /\ ~InTable(q, t) => item'[q][t] = item[q][t]
      <4>1. CASE item'[q][t] = item[q][t]
        BY <4>1
      <4>2. CASE q = p /\ item'[q][t] = its[t]
        BY <4>2, <1>11 DEF InTable
      <4> QED BY <3>1, <4>1, <4>2
    <3> QED BY <3>2 DEF ItemCalm, InTable
  <2> QED BY <1>6, <1>8, <2>1, <2>2, KeysForKept DEF Calm, TablesShrink
<1>10. WiresCalm
  <2>1. k # NoKey => k \in KeysFor(s)'
    BY <1>5, <1>6, ItemKeyMade, KeysForKept
  <2> QED BY <2>1, <1>7, <1>8, HarmlessCalm
<1> QED BY <1>3, <1>6, <1>9, <1>10, SameQueuesCalm DEF AllCalm

(* updateSocketStatus is calm. *)
LEMMA RecordStatusCalm ==
  ASSUME Inv, NEW p \in Peer, RecordStatus(p)
  PROVE  AllCalm
<1>1. PICK r \in Pending : r = rd[p] /\ r.sock \in Sock /\ r.key \in Nat /\ r.status \in {0, 1}
  <2>1. rd[p] \in Pending
    BY DEF RecordStatus, Inv, TypeOK
  <2> QED BY <2>1 DEF Pending
<1>2. /\ rd[p] # Idle /\ rd' = [rd EXCEPT ![p] = Idle] /\ item' = Updated(p)
      /\ UNCHANGED <<client, wire, table, known, handler, rq, made>>
  BY DEF RecordStatus
<1> DEFINE s == r.sock
           new == Recorded(item[p][s], r.status, r.key)
<1>3. /\ item' = IF InTable(p, s) THEN [item EXCEPT ![p][s] = new] ELSE item
      /\ new.status = r.status /\ new.key = IF r.key # NoKey THEN r.key ELSE item[p][s].key
  <2>1. item[p][s] \in Connection
    BY <1>1 DEF Inv, TypeOK
  <2>2. item' = IF InTable(p, s) THEN [item EXCEPT ![p][s] = new] ELSE item
    BY <1>1, <1>2 DEF Updated
  <2> QED BY <2>1, <2>2, <1>1, RecordedType
<1> HIDE DEF new
<1>4. Calm
  <2>1. ASSUME NEW q \in Peer, NEW t \in Sock
        PROVE  ItemCalm(q, t) /\ (t \notin Range(table[q]) => item'[q][t] = item[q][t])
    <3>1. \/ item'[q][t] = item[q][t]
          \/ q = p /\ t = s /\ InTable(p, s) /\ item'[q][t] = new
      BY <1>1, <1>3 DEF Inv, TypeOK
    <3> QED BY <3>1, <1>1, <1>2, <1>3 DEF ItemCalm, InTable
  <2>2. ASSUME NEW q \in Peer PROVE ReaderCalm(q)
    <3>1. CASE q = p
      <4>1. rd'[q] = Idle
        BY <3>1, <1>2 DEF Inv, TypeOK
      <4>2. InTable(p, s) /\ r.key # NoKey => item'[p][s].key # NoKey
        BY <1>1, <1>3 DEF Inv, TypeOK
      <4> QED BY <3>1, <4>1, <4>2, <1>1, <1>2 DEF ReaderCalm
    <3>2. CASE q # p
      BY <3>2, <1>2 DEF ReaderCalm, Inv, TypeOK
    <3> QED BY <3>1, <3>2
  <2>3. \A q \in Peer : known[q] \subseteq Sock
    BY DEF Inv, TypeOK
  <2> QED BY <1>2, <2>1, <2>2, <2>3, KeysForKept DEF Calm
<1>5. \A q \in Peer : \A m \in Range(sq'[q]) :
         \/ m \in Range(sq[q])
         \/ m.type \in DataType /\ (m.key # NoKey => m.key \in KeysFor(m.sock)')
  <2>1. CASE UNCHANGED sq
    BY <2>1
  <2>2. CASE TryResend(p, Updated(p)[p])
    <3>1. Updated(p)[p] \in [Sock -> Connection]
      BY UpdatedType DEF Inv
    <3>2. \A q \in Peer : \A m \in Range(sq'[q]) :
            \/ m \in Range(sq[q])
            \/ m.sock \in Sock /\ m.key = item'[p][m.sock].key /\ m.type \in DataType
      BY <2>2, <3>1, <1>2, TryResendType DEF Inv
    <3>3. \A t \in Sock : item'[p][t].key # NoKey => item'[p][t].key \in KeysFor(t)'
      BY <1>4, ItemKeys DEF Keyed
    <3> QED BY <3>2, <3>3
  <2> QED BY <2>1, <2>2 DEF RecordStatus
<1>6. WiresCalm
  BY <1>2 DEF WiresCalm
<1>7. QueuesCalm
  BY <1>2, <1>5 DEF QueuesCalm
<1> QED BY <1>4, <1>6, <1>7 DEF AllCalm

(* The Writer is calm. *)
LEMMA WriterCalm ==
  ASSUME Inv, NEW p \in Peer, WriterStep(p)
  PROVE  AllCalm
<1>1. sq[p] \in Seq(Message) /\ sq[p] # <<>> /\ sq' = [sq EXCEPT ![p] = Tail(sq[p])]
  BY DEF WriterStep, WriteCell, WriteFails, Inv, TypeOK
<1>2. PICK m \in Message : m = Head(sq[p]) /\ m \in Range(sq[p])
  BY <1>1, RangeOfTail
<1>3. PICK s \in Sock : s = m.sock
  BY CellTypes
<1>4. PICK c \in Cell : c = ToCell(m)
  BY CellTypes
<1>5. c.type \notin {"EXCHANGE", "DONE"} /\ (c.key # NoKey => c.key \in KeysFor(s)')
  <2>1. m.type \in DataType /\ (m.key # NoKey => m.key \in KeysFor(s))
    BY <1>2, <1>3 DEF Inv, KeyInv
  <2>2. UNCHANGED made
    BY DEF WriterStep, WriteCell, WriteFails
  <2> QED BY <1>4, <2>1, <2>2, KeysForKept DEF ToCell, DataType
<1>6. TablesShrink /\ (WireGains(p, s, c) \/ WireShrinks)
  <2>1. CASE WriteCell(p)
    <3>1. SendMessage(p, s, c) /\ UNCHANGED table
      BY <2>1, <1>2, <1>3, <1>4 DEF WriteCell
    <3> QED BY <3>1, SendEffect DEF Inv, TablesShrink
  <2>2. CASE WriteFails(p)
    <3>1. UNCHANGED wire /\ (UNCHANGED table \/ DeleteConnection(p, s))
      BY <2>2, <1>2, <1>3 DEF WriteFails
    <3>2. item[p] \in [Sock -> Connection]
      BY DEF Inv, TypeOK
    <3> QED BY <3>1, <3>2, DeleteEffect DEF DeleteConnection, Inv, TablesShrink, WireShrinks
  <2> QED BY <2>1, <2>2 DEF WriterStep
<1>7. UNCHANGED <<client, known, item, rd, made, handler, rq>>
  BY DEF WriterStep, WriteCell, WriteFails
<1>8. \A q \in Peer : Range(sq'[q]) \subseteq Range(sq[q])
  BY <1>1, RangeOfTail DEF Inv, TypeOK
<1>9. Calm
  BY <1>6, <1>7, SameItemsCalm DEF HandlersShrink
<1>10. WiresCalm
  BY <1>5, <1>6, HarmlessCalm
<1>11. QueuesCalm
  BY <1>7, <1>8, SameQueuesCalm
<1> QED BY <1>9, <1>10, <1>11 DEF AllCalm

(* The chat screen is calm. *)
LEMMA ScreenCalm ==
  ASSUME Inv, NEW p \in Peer, ScreenStep(p)
  PROVE  AllCalm
<1>1. UNCHANGED <<client, known, item, rd, made, handler, rq, sq>>
  BY DEF ScreenStep, HandleSuccess, HandleFail, HandleOnline
<1>2. TablesShrink /\ WiresCalm
  <2>1. CASE UNCHANGED <<table, wire>>
    BY <2>1 DEF TablesShrink, WiresCalm
  <2>2. CASE HandleSuccess(p) /\ ~UNCHANGED <<table, wire>>
    <3>1. PICK s \in Sock : StartTransport(p, s) \/ StartTransportFails(p, s)
      <4>1. /\ HasConn(item[p], table[p], TEXT)
            /\ \/ StartTransport(p, ConnOf(item[p], table[p], TEXT))
               \/ StartTransportFails(p, ConnOf(item[p], table[p], TEXT))
        BY <2>2 DEF HandleSuccess
      <4>2. table[p] \in Seq(Sock)
        BY DEF Inv, TypeOK
      <4> QED BY <4>1, <4>2, PickInTable, RangeInType
    <3>2. PICK c \in Cell : c = [type |-> "REQUEST", key |-> NoKey]
      BY CellTypes
    <3>3. ReplyOk(p, s, c) \/ ReplyFails(p, s)
      BY <3>1, <3>2 DEF StartTransport, StartTransportFails, ReplyOk, ReplyFails
    <3>4. TablesShrink /\ (WireGains(p, s, c) \/ WireShrinks)
      BY <3>3, ReplyEffect DEF Inv
    <3> QED BY <3>2, <3>4, HarmlessCalm
  <2> QED BY <2>1, <2>2 DEF ScreenStep, HandleFail, HandleOnline
<1>3. Calm
  BY <1>1, <1>2, SameItemsCalm DEF HandlersShrink
<1> QED BY <1>1, <1>2, <1>3, SameQueuesCalm DEF AllCalm

(* A new connection: nobody knew its socket. *)
LEMMA ConnectedCalm ==
  ASSUME Inv, NEW p \in Peer, NEW s \in Sock, NEW u \in Purpose, Connected(p, s, u),
         UNCHANGED <<rd, made>>
  PROVE  Calm
<1>1. client[s] = Nobody /\ client' = [client EXCEPT ![s] = p] /\ p # Nobody
  BY PeersDiffer DEF Connected, Peer
<1>2. \A q \in Peer : s \notin known[q]
  BY <1>1 DEF Inv, KnownInv
<1>3. /\ client \in [Sock -> Peer \cup {Nobody}] /\ item \in [Peer -> [Sock -> Connection]]
      /\ known \in [Peer -> SUBSET Sock] /\ handler \in [Peer -> SUBSET Sock]
      /\ table \in [Peer -> Seq(Sock)]
  BY DEF Inv, TypeOK
<1>4. \A t \in Sock : client[t] # Nobody => client'[t] # Nobody
  BY <1>1, <1>3
<1>5. ASSUME NEW q \in Peer
      PROVE  /\ known[q] \subseteq known'[q]
             /\ \A t \in known'[q] \cup handler'[q] :
                  t \in known[q] \cup handler[q] \/ client'[t] # Nobody
             /\ \A t \in Range(table'[q]) : t \in Range(table[q]) \/ t \in known'[q] \ known[q]
  <2>1. known'[q] = IF q = p THEN known[q] \cup {s} ELSE known[q]
    BY <1>3 DEF Connected
  <2>2. handler'[q] = handler[q] \/ handler'[q] = handler[q] \cup {s}
    BY <1>3 DEF Connected
  <2>3. client'[s] # Nobody
    BY <1>1, <1>3
  <2>4. table'[q] = table[q] \/ (q = p /\ Range(table'[q]) = Range(table[q]) \cup {s})
    BY <1>3, RangeOfAppend DEF Connected, AddNewConn
  <2> QED BY <2>1, <2>2, <2>3, <2>4, <1>2
<1>6. ASSUME NEW q \in Peer, NEW t \in Sock
      PROVE  ItemCalm(q, t) /\ (t \in known[q] => item'[q][t] = item[q][t])
  <2>1. CASE q = p /\ t = s
    <3>1. item'[q][t] = NewConnection(u)
      BY <2>1, <1>3 DEF Connected
    <3> QED BY <2>1, <3>1, <1>2 DEF ItemCalm, NewConnection
  <2>2. CASE ~(q = p /\ t = s)
    <3>1. item'[q][t] = item[q][t]
      BY <2>2, <1>3 DEF Connected
    <3> QED BY <3>1 DEF ItemCalm
  <2> QED BY <2>1, <2>2
<1>7. \A q \in Peer : ReaderCalm(q)
  BY DEF ReaderCalm
<1> QED BY <1>3, <1>4, <1>5, <1>6, <1>7, KeysForKept DEF Calm

(* A CreateConnectionThread is calm. *)
LEMMA OpeningCalm ==
  ASSUME Inv, NEW p \in Peer, OpeningStep(p)
  PROVE  AllCalm
<1>1. PICK u \in Purpose : \/ CreateConnectionFails(p, u)
                          \/ \E s \in Sock : CreateConnectionOk(p, s, u)
  BY DEF OpeningStep
<1>2. UNCHANGED <<rd, made, wire, rq, sq>>
  BY <1>1 DEF CreateConnectionFails, CreateConnectionOk
<1>3. Calm
  <2>1. CASE CreateConnectionFails(p, u)
    <3>1. UNCHANGED <<client, known, item, rd, made, table, handler>>
      BY <2>1 DEF CreateConnectionFails
    <3> QED BY <3>1, SameItemsCalm DEF TablesShrink, HandlersShrink
  <2>2. CASE \E s \in Sock : CreateConnectionOk(p, s, u)
    BY <2>2, <1>2, ConnectedCalm DEF CreateConnectionOk
  <2> QED BY <1>1, <2>1, <2>2
<1> QED BY <1>2, <1>3, SameQueuesCalm DEF AllCalm, WiresCalm

(* What the user does is calm. *)
LEMMA UserCalm ==
  ASSUME Inv, NEW p \in Peer, UserStep(p)
  PROVE  AllCalm
<1>1. UNCHANGED <<client, known, item, rd, made, table, handler, wire, rq>>
  BY DEF UserStep, OpenChat, CloseChat, ContactReported, SendText, SendFile
<1>2. ASSUME NEW q \in Peer, NEW m \in Range(sq'[q])
      PROVE  \/ m \in Range(sq[q])
             \/ m.type \in DataType /\ (m.key # NoKey => m.key \in KeysFor(m.sock)')
  <2>1. CASE UNCHANGED sq
    BY <2>1
  <2>2. CASE ~UNCHANGED sq
    <3>1. PICK u \in Purpose, type \in {"DATA_MESSAGE", "FILE_META"} :
            /\ HasConn(item[p], table[p], u)
            /\ sq' = [sq EXCEPT ![p] = Append(sq[p],
                        [sock |-> ConnOf(item[p], table[p], u), type |-> type,
                         key |-> item[p][ConnOf(item[p], table[p], u)].key])]
      BY <2>2 DEF UserStep, OpenChat, CloseChat, ContactReported, SendText, SendFile, Purpose
    <3>2. PICK s \in Sock : s = ConnOf(item[p], table[p], u)
      <4>1. table[p] \in Seq(Sock)
        BY DEF Inv, TypeOK
      <4> QED BY <3>1, <4>1, PickInTable, RangeInType
    <3>3. PICK k \in Nat : k = item[p][s].key
      BY DEF Inv, TypeOK, Connection
    <3> DEFINE new == [sock |-> s, type |-> type, key |-> k]
    <3>4. /\ new \in Message /\ new.type \in DataType
          /\ new.key # NoKey => new.key \in KeysFor(new.sock)'
      BY <3>3, <1>1, ItemKeyMade, KeysForKept DEF Message, DataType
    <3>5. sq' = [sq EXCEPT ![p] = Append(sq[p], new)]
      BY <3>1, <3>2, <3>3
    <3> HIDE DEF new
    <3>6. m \in Range(sq[q]) \/ m = new
      BY <3>4, <3>5, RangeOfAppend, SMTT(20) DEF Inv, TypeOK
    <3> QED BY <3>4, <3>6
  <2> QED BY <2>1, <2>2
<1>3. Calm
  BY <1>1, SameItemsCalm DEF TablesShrink, HandlersShrink
<1> QED BY <1>1, <1>2, <1>3 DEF AllCalm, QueuesCalm, WiresCalm

(* The status checker is calm. *)
LEMMA NetCalm ==
  ASSUME Inv, NEW p \in Peer, NetStep(p)
  PROVE  AllCalm
<1>1. ASSUME NEW s \in Sock, NetworkUpOk(p, s)
      PROVE  AllCalm
  <2> DEFINE socks == AddNewConn(table[p], s)
             its   == [item[p] EXCEPT ![s] = NewConnection(TEXT)]
  <2>1. Connected(p, s, TEXT) /\ UNCHANGED <<rd, made, rq, sq>>
    BY <1>1 DEF NetworkUpOk
  <2>2. Calm
    <3>1. TEXT \in Purpose
      BY DEF Purpose
    <3> QED BY <2>1, <3>1, ConnectedCalm
  <2>3. WiresCalm
    <3>1. CASE UNCHANGED wire
      BY <3>1 DEF WiresCalm
    <3>2. CASE ~UNCHANGED wire
      <4>1. /\ HasConn(its, socks, TEXT)
            /\ wire' = [wire EXCEPT ![Other(p)][ConnOf(its, socks, TEXT)] =
                          Append(@, [type |-> "REQUEST", key |-> NoKey])]
        BY <1>1, <3>2 DEF NetworkUpOk
      <4>2. socks \in Seq(Sock)
        BY RangeOfAppend DEF AddNewConn, Inv, TypeOK
      <4>3. PICK t \in Sock : t = ConnOf(its, socks, TEXT)
        BY <4>1, <4>2, PickInTable, RangeInType
      <4>4. PICK c \in Cell : c = [type |-> "REQUEST", key |-> NoKey]
        BY CellTypes
      <4>5. wire' = [wire EXCEPT ![Other(p)][t] = Append(@, c)]
        BY <4>1, <4>3, <4>4
      <4>6. WireGains(p, t, c)
        BY <4>5, AppendEffect DEF Inv
      <4> QED BY <4>4, <4>6, HarmlessCalm
    <3> QED BY <3>1, <3>2
  <2> QED BY <2>1, <2>2, <2>3, SameQueuesCalm DEF AllCalm
<1>2. CASE NetworkUpFails(p) \/ TryResendAll(p)
  <2>1. UNCHANGED <<client, known, item, rd, made, table, handler, wire, rq>>
    BY <1>2 DEF NetworkUpFails, TryResendAll
  <2>2. \A q \in Peer : \A m \in Range(sq'[q]) :
          \/ m \in Range(sq[q])
          \/ m.type \in DataType /\ (m.key # NoKey => m.key \in KeysFor(m.sock)')
    <3>1. CASE UNCHANGED sq
      BY <3>1
    <3>2. CASE TryResend(p, item[p])
      <4>1. item[p] \in [Sock -> Connection]
        BY DEF Inv, TypeOK
      <4>2. \A q \in Peer : \A m \in Range(sq'[q]) :
              \/ m \in Range(sq[q])
              \/ m.sock \in Sock /\ m.key = item[p][m.sock].key /\ m.type \in DataType
        BY <3>2, <4>1, TryResendType DEF Inv
      <4>3. \A t \in Sock : item[p][t].key # NoKey => item[p][t].key \in KeysFor(t)'
        BY <2>1, ItemKeyMade, KeysForKept
      <4> QED BY <4>2, <4>3
    <3> QED BY <1>2, <3>1, <3>2 DEF NetworkUpFails, TryResendAll
  <2>3. Calm
    BY <2>1, SameItemsCalm DEF TablesShrink, HandlersShrink
  <2> QED BY <2>1, <2>2, <2>3 DEF AllCalm, QueuesCalm, WiresCalm
<1> QED BY <1>1, <1>2 DEF NetStep

(* A RequestHandler that accepts a caller is calm. *)
LEMMA AcceptCalm ==
  ASSUME Inv, NEW p \in Peer, NEW s \in Sock, HandlerAccept(p, s)
  PROVE  Calm
<1>1. s \in handler[p] /\ s \notin known[p] /\ UNCHANGED <<client, handler, rd, made>>
  BY DEF HandlerAccept
<1>2. client[s] # Nobody
  BY <1>1 DEF Inv, KnownInv
<1>3. /\ item \in [Peer -> [Sock -> Connection]]
      /\ known \in [Peer -> SUBSET Sock] /\ table \in [Peer -> Seq(Sock)]
  BY DEF Inv, TypeOK
<1>4. ASSUME NEW q \in Peer
      PROVE  /\ known[q] \subseteq known'[q]
             /\ \A t \in known'[q] \cup handler'[q] :
                  t \in known[q] \cup handler[q] \/ client'[t] # Nobody
             /\ \A t \in Range(table'[q]) : t \in Range(table[q]) \/ t \in known'[q] \ known[q]
  <2>1. known'[q] = IF q = p THEN known[q] \cup {s} ELSE known[q]
    BY <1>3 DEF HandlerAccept
  <2>2. table'[q] = table[q] \/ (q = p /\ Range(table'[q]) = Range(table[q]) \cup {s})
    BY <1>3, RangeOfAppend DEF HandlerAccept, AddNewConn
  <2> QED BY <2>1, <2>2, <1>1, <1>2
<1>5. ASSUME NEW q \in Peer, NEW t \in Sock
      PROVE  ItemCalm(q, t) /\ (t \in known[q] => item'[q][t] = item[q][t])
  <2>1. CASE q = p /\ t = s
    <3>1. item'[q][t] = NewConnection(TEXT)
      BY <2>1, <1>3 DEF HandlerAccept
    <3> QED BY <2>1, <3>1, <1>1 DEF ItemCalm, NewConnection
  <2>2. CASE ~(q = p /\ t = s)
    <3>1. item'[q][t] = item[q][t]
      BY <2>2, <1>3 DEF HandlerAccept
    <3> QED BY <3>1 DEF ItemCalm
  <2> QED BY <2>1, <2>2
<1>6. \A q \in Peer : ReaderCalm(q)
  BY <1>1 DEF ReaderCalm
<1> QED BY <1>1, <1>3, <1>4, <1>5, <1>6, KeysForKept DEF Calm

(* The threads that read a socket are calm. *)
LEMMA SocketCalm ==
  ASSUME Inv, NEW p \in Peer, NEW s \in Sock, SocketStep(p, s)
  PROVE  AllCalm
<1>1. CASE HandlerAccept(p, s) \/ ReadCell(p, s)
  <2>1. WireShrinks /\ Head(wire[p][s]) \in Cell /\ Head(wire[p][s]) \in Range(wire[p][s])
    BY <1>1, ReadEffect DEF HandlerAccept, ReadCell, Inv
  <2>2. PICK c \in Cell : c = Head(wire[p][s]) /\ c \in Range(wire[p][s])
    BY <2>1
  <2>3. PICK m \in Message : m = ToMessage(s, c)
    BY CellTypes
  <2>4. m.sock = s /\ m.type = c.type /\ m.key = c.key
    BY <2>3 DEF ToMessage
  <2>5. UNCHANGED sq /\ (rq' = [rq EXCEPT ![p] = Append(rq[p], m)] \/ UNCHANGED rq)
    BY <1>1, <2>2, <2>3 DEF HandlerAccept, ReadCell
  <2>6. s \in known'[p]
    BY <1>1 DEF HandlerAccept, ReadCell, Inv, TypeOK
  <2>7. QueuesCalm
    <3>1. ASSUME NEW q \in Peer, NEW n \in Range(rq'[q])
          PROVE  n \in Range(rq[q]) \/ (q = p /\ n = m)
      <4>1. rq \in [Peer -> Seq(Message)]
        BY DEF Inv, TypeOK
      <4>2. rq'[q] = rq[q] \/ (q = p /\ rq'[q] = Append(rq[p], m))
        BY <4>1, <2>5
      <4>3. Range(Append(rq[p], m)) = Range(rq[p]) \cup {m}
        BY <4>1, RangeOfAppend
      <4> QED BY <4>2, <4>3
    <3> QED BY <3>1, <2>2, <2>4, <2>5, <2>6 DEF QueuesCalm
  <2>8. Calm
    <3>1. CASE ReadCell(p, s)
      <4>1. UNCHANGED <<client, known, item, rd, made, table, handler>>
        BY <3>1 DEF ReadCell
      <4> QED BY <4>1, SameItemsCalm DEF TablesShrink, HandlersShrink
    <3> QED BY <1>1, <3>1, AcceptCalm
  <2> QED BY <2>1, <2>7, <2>8, ShrinkCalm DEF AllCalm
<1>2. CASE HandlerStops(p, s) \/ TransportStops(p, s)
  <2>1. UNCHANGED <<client, known, item, rd, made, rq, sq>>
    BY <1>2 DEF HandlerStops, TransportStops
  <2>2. WireShrinks
    BY <1>2, CloseEffect DEF HandlerStops, TransportStops, Inv
  <2>3. TablesShrink
    <3>1. UNCHANGED table \/ DeleteConnection(p, s)
      BY <1>2 DEF HandlerStops, TransportStops
    <3>2. item[p] \in [Sock -> Connection]
      BY DEF Inv, TypeOK
    <3> QED BY <3>1, <3>2, DeleteEffect DEF DeleteConnection, Inv, TablesShrink
  <2>4. HandlersShrink
    <3>1. handler \in [Peer -> SUBSET Sock]
      BY DEF Inv, TypeOK
    <3>2. UNCHANGED handler \/ handler' = [handler EXCEPT ![p] = handler[p] \ {s}]
      BY <1>2 DEF HandlerStops, TransportStops
    <3> QED BY <3>1, <3>2 DEF HandlersShrink
  <2>5. Calm
    BY <2>1, <2>3, <2>4, SameItemsCalm
  <2> QED BY <2>1, <2>2, <2>5, ShrinkCalm, SameQueuesCalm DEF AllCalm
<1> QED BY <1>1, <1>2 DEF SocketStep

(* Every step of the system is calm. *)
LEMMA EveryStepIsCalm == Inv /\ [Next]_vars => AllCalm
<1> SUFFICES ASSUME Inv, [Next]_vars PROVE AllCalm
  OBVIOUS
<1>1. ASSUME NEW p \in Peer, ReaderStep(p) PROVE AllCalm
  BY <1>1, HandleRequestCalm, HandleAuthCalm, HandleExchangeCalm, HandleDoneCalm,
     HandleDataCalm, RecordStatusCalm DEF ReaderStep
<1>2. CASE (\E s \in Sock : CutCircuit(s)) \/ UNCHANGED vars
  <2>1. UNCHANGED <<client, known, item, rd, made, table, handler, rq, sq>>
    BY <1>2 DEF CutCircuit, vars
  <2>2. WireShrinks
    <3>1. \A q \in Peer, t \in Sock : wire'[q][t] = wire[q][t] \/ wire'[q][t] = <<>>
      BY <1>2 DEF CutCircuit, vars, Inv, TypeOK
    <3>2. Range(<<>>) = {}
      BY DEF Range
    <3>3. ASSUME NEW q \in Peer, NEW t \in Sock
          PROVE  Range(wire'[q][t]) \subseteq Range(wire[q][t])
      <4>1. CASE wire'[q][t] = wire[q][t]
        BY <4>1
      <4>2. CASE wire'[q][t] = <<>>
        BY <4>2, <3>2
      <4> QED BY <3>1, <4>1, <4>2
    <3> QED BY <3>3 DEF WireShrinks
  <2>3. Calm
    BY <2>1, SameItemsCalm DEF TablesShrink, HandlersShrink
  <2> QED BY <2>1, <2>2, <2>3, ShrinkCalm, SameQueuesCalm DEF AllCalm
<1> QED BY <1>1, <1>2, WriterCalm, ScreenCalm, OpeningCalm, UserCalm, NetCalm,
           SocketCalm DEF Next

(* Every step keeps the inductive invariant. *)
LEMMA InvStep == Inv /\ [Next]_vars => Inv'
  BY EveryStepIsCalm, TypeStep, CalmStep DEF AllCalm, Inv

(* The inductive invariant holds at the start. *)
LEMMA InvInit == Init => Inv
<1> SUFFICES ASSUME Init PROVE Inv
  OBVIOUS
<1>1. TypeOK
  BY TypeInit
<1>2. /\ \A p \in Peer : /\ known[p] = {} /\ handler[p] = {} /\ table[p] = <<>>
                        /\ rq[p] = <<>> /\ sq[p] = <<>> /\ rd[p] = Idle
      /\ \A p \in Peer, s \in Sock : wire[p][s] = <<>> /\ item[p][s] = NewConnection(TEXT)
  BY DEF Init
<1>3. Range(<<>>) = {} /\ Idle.key = NoKey /\ Idle.status = 0
  BY DEF Range, Idle
<1>4. NewConnection(TEXT).key = NoKey /\ NewConnection(TEXT).status = 0
  BY DEF NewConnection
<1>5. KnownInv
  BY <1>2, <1>3, <1>4 DEF KnownInv, Keyed
<1>6. KeyInv
  BY <1>2, <1>3, <1>4 DEF KeyInv, KeysStayOnTheirSocket, Keyed
<1>7. HandshakeInv
  BY <1>2, <1>3 DEF HandshakeInv
<1>8. EstablishedHasKey
  BY <1>2, <1>4 DEF EstablishedHasKey
<1> QED BY <1>1, <1>5, <1>6, <1>7, <1>8 DEF Inv

(* The inductive invariant always holds. *)
LEMMA Invariance == Spec => []Inv
  BY InvInit, InvStep, PTL DEF Spec

-----------------------------------------------------------------------------
(* What it means *)

(* A connection at status 1 has a session key, for any sockets, users, bounds and  *)
(* number of breaks and reconnections.                                            *)
THEOREM EstablishedConnectionsHaveKeys == Spec => []EstablishedHasKey
<1>1. Inv => EstablishedHasKey
  BY DEF Inv
<1> QED BY <1>1, Invariance, PTL

(* No key is ever held by, on its way to, or used by a cell of another connection     *)
(* than the one whose handshake made it.                                             *)
THEOREM KeysNeverCross == Spec => []KeysStayOnTheirSocket
<1>1. Inv => KeysStayOnTheirSocket
  BY DEF Inv, KeyInv
<1> QED BY <1>1, Invariance, PTL

(* When one key only was made for a socket, two established ends agree on it.         *)
THEOREM OneHandshakeAgrees == Spec => []OneHandshakeOneKey
<1>1. Inv => OneHandshakeOneKey
  <2> SUFFICES ASSUME Inv, NEW s \in Sock, Established(A, s), Established(B, s),
                      \A k, l \in KeysFor(s) : k = l
               PROVE  item[A][s].key = item[B][s].key
    BY DEF OneHandshakeOneKey
  <2>1. A \in Peer /\ B \in Peer
    BY DEF Peer
  <2>2. Keyed(A, s) /\ Keyed(B, s)
    BY <2>1 DEF Inv, EstablishedHasKey, Established
  <2>3. item[A][s].key \in KeysFor(s) /\ item[B][s].key \in KeysFor(s)
    BY <2>1, <2>2 DEF Inv, KeyInv, KeysStayOnTheirSocket
  <2> QED BY <2>3
<1> QED BY <1>1, Invariance, PTL

(* A connection that has a key never loses it. *)
THEOREM KeysAreNeverLost == Spec => KeysAreKept
<1>1. Inv /\ [Next]_vars => [\A p \in Peer, s \in Sock : Keyed(p, s) => Keyed(p, s)']_vars
  BY EveryStepIsCalm, ItemKeys DEF AllCalm
<1> QED BY <1>1, Invariance, PTL DEF Spec, KeysAreKept

(* A deleted connection is neither changed nor put back in the table. *)
THEOREM DeletionIsFinal == Spec => DeletedStaysDeleted
<1>1. ASSUME Inv, [Next]_vars, NEW p \in Peer, NEW s \in known[p], ~InTable(p, s)
      PROVE  ~InTable(p, s)' /\ item'[p][s] = item[p][s]
  BY <1>1, EveryStepIsCalm DEF AllCalm, Calm, InTable
<1>2. Inv /\ [Next]_vars =>
        [\A p \in Peer : \A s \in known[p] :
           ~InTable(p, s) => ~InTable(p, s)' /\ item'[p][s] = item[p][s]]_vars
  BY <1>1
<1> QED BY <1>2, Invariance, PTL DEF Spec, DeletedStaysDeleted

(* START_COMMUNICATION_SUCCESS is broadcast for a connection that has its key, or   *)
(* that is deleted by then, and it stays so.                                       *)
StartedInv == StartedHasKey /\ \A p \in Peer : started[p] \subseteq known[p]

(* START_COMMUNICATION_SUCCESS is broadcast by updateSocketStatus only. *)
LEMMA OnlyRecordStatusStarts ==
  [Next]_vars => UNCHANGED started \/ \E p \in Peer : RecordStatus(p)
<1> SUFFICES ASSUME [Next]_vars PROVE UNCHANGED started \/ \E p \in Peer : RecordStatus(p)
  OBVIOUS
<1>1. ASSUME NEW p \in Peer, ReaderStep(p) PROVE UNCHANGED started \/ RecordStatus(p)
  BY <1>1 DEF ReaderStep, HandleRequest, HandleAuth, HandleExchange, HandleDone, HandleData
<1>2. ASSUME NEW p \in Peer, WriterStep(p) \/ ScreenStep(p) PROVE UNCHANGED started
  BY <1>2 DEF WriterStep, WriteCell, WriteFails, ScreenStep, HandleSuccess, HandleFail,
     HandleOnline
<1>3. ASSUME NEW p \in Peer, OpeningStep(p) \/ NetStep(p) PROVE UNCHANGED started
  BY <1>3 DEF OpeningStep, CreateConnectionOk, CreateConnectionFails, NetStep, NetworkUpOk,
     NetworkUpFails, TryResendAll
<1>4. ASSUME NEW p \in Peer, UserStep(p) PROVE UNCHANGED started
  BY <1>4 DEF UserStep, OpenChat, CloseChat, ContactReported, SendText, SendFile
<1>5. ASSUME NEW p \in Peer, NEW s \in Sock, SocketStep(p, s) PROVE UNCHANGED started
  BY <1>5 DEF SocketStep, HandlerAccept, ReadCell, HandlerStops, TransportStops
<1>6. CASE (\E s \in Sock : CutCircuit(s)) \/ UNCHANGED vars
  BY <1>6 DEF CutCircuit, vars
<1> QED BY <1>1, <1>2, <1>3, <1>4, <1>5, <1>6 DEF Next

(* Every step keeps what StartedInv says of the started connections. *)
LEMMA StartedStep == Inv /\ StartedInv /\ [Next]_vars => StartedInv'
<1> SUFFICES ASSUME Inv, StartedInv, [Next]_vars, NEW p \in Peer, NEW s \in started'[p]
             PROVE  (Keyed(p, s)' \/ ~InTable(p, s)') /\ s \in known'[p]
  BY DEF StartedInv, StartedHasKey
<1>1. Calm /\ known[p] \subseteq Sock
  BY EveryStepIsCalm DEF AllCalm, Inv, TypeOK
<1>2. known[p] \subseteq known'[p] /\ (s \in known[p] /\ InTable(p, s)' => InTable(p, s))
  BY <1>1 DEF Calm, InTable
<1>3. CASE s \in started[p]
  <2>1. s \in Sock /\ s \in known[p] /\ (Keyed(p, s) \/ ~InTable(p, s))
    BY <1>1, <1>3 DEF StartedInv, StartedHasKey
  <2>2. Keyed(p, s) => Keyed(p, s)'
    BY <1>1, <2>1, ItemKeys
  <2> QED BY <1>2, <2>1, <2>2
<1>4. CASE s \notin started[p]
  <2>1. RecordStatus(p) /\ rd[p].status = 1 /\ s = rd[p].sock
    <3>1. ~UNCHANGED started
      BY <1>4
    <3>2. PICK q \in Peer : RecordStatus(q)
      BY <3>1, OnlyRecordStatusStarts
    <3>3. /\ rd[q].status = 1
          /\ started' = [started EXCEPT ![q] = started[q] \cup {rd[q].sock}]
      BY <3>1, <3>2 DEF RecordStatus
    <3> QED BY <3>2, <3>3, <1>4 DEF Inv, TypeOK
  <2>2. s \in known[p]
    BY <2>1 DEF RecordStatus, Inv, KnownInv
  <2>3. InTable(p, s) => Keyed(p, s)'
    <3>1. s \in Sock
      BY <1>1, <2>2
    <3>2. InTable(p, s) => item'[p][s].status = 1
      <4>1. item[p][s] \in Connection /\ rd[p].key \in Nat
        BY <3>1, PendingType DEF Inv, TypeOK
      <4>2. Recorded(item[p][s], rd[p].status, rd[p].key).status = rd[p].status
        BY <4>1, <2>1, RecordedType
      <4>3. InTable(p, s) =>
              item' = [item EXCEPT ![p][s] = Recorded(item[p][s], rd[p].status, rd[p].key)]
        BY <2>1 DEF RecordStatus, Updated
      <4> QED BY <2>1, <3>1, <4>2, <4>3 DEF Inv, TypeOK
    <3> QED BY <1>1, <3>1, <3>2, ItemKeys
  <2> QED BY <1>2, <2>2, <2>3
<1> QED BY <1>3, <1>4

(* A started connection has a key or is deleted. *)
THEOREM StartedConnectionsHaveKeys == Spec => []StartedHasKey
<1>1. Init => StartedInv
  BY DEF Init, StartedInv, StartedHasKey
<1>2. StartedInv => StartedHasKey
  BY DEF StartedInv
<1> QED BY <1>1, <1>2, StartedStep, Invariance, PTL DEF Spec

-----------------------------------------------------------------------------
(* Reopening *)

(* What LastConnectionReopens says of one step. *)
Reopens == \A p \in Peer :
             table[p] # <<>> /\ table'[p] = <<>> => \E u \in Purpose : creating'[p][u] > 0

(* A lookup in an empty list of connections finds nothing. *)
LEMMA EmptyHasNoConn == \A its, u : ~HasConn(its, <<>>, u)
<1> SUFFICES ASSUME NEW its, NEW u PROVE Pick(its, <<>>, u) = Nil
  BY DEF HasConn
<1> DEFINE items == [i \in DOMAIN <<>> |-> its[<<>>[i]]]
<1>1. DOMAIN items = {}
  OBVIOUS
<1>2. GetConnByPurpose(items, u) = Last({})
  <2> HIDE DEF items
  <2> QED BY <1>1 DEF GetConnByPurpose
<1>3. Last({}) = Nil
  BY DEF Last
<1> QED BY <1>2, <1>3 DEF Pick

(* A step that empties no table reopens nothing, and need not. *)
LEMMA SameTablesReopen == UNCHANGED table => Reopens
BY DEF Reopens

(* A connection more empties no table. *)
LEMMA LongerTableReopens ==
  ASSUME TypeOK, NEW p \in Peer, NEW s \in Sock,
         table' = [table EXCEPT ![p] = AddNewConn(@, s)]
  PROVE  Reopens
<1>1. table[p] \in Seq(Sock)
  BY DEF TypeOK
<1>2. Append(table[p], s) # <<>>
  <2>1. ASSUME NEW socks \in Seq(Sock) PROVE Append(socks, s) # <<>>
    <3>1. Len(Append(socks, s)) = Len(socks) + 1 /\ Len(socks) \in Nat
      OBVIOUS
    <3> QED BY <3>1
  <2> QED BY <1>1, <2>1
<1>3. table'[p] = Append(table[p], s) /\ \A q \in Peer : q # p => table'[q] = table[q]
  BY DEF TypeOK, AddNewConn
<1> QED BY <1>2, <1>3 DEF Reopens

(* deleteConnection opens a connection when it deletes the last. *)
LEMMA DeleteReopens ==
  ASSUME TypeOK, NEW p \in Peer, NEW s \in Sock, NEW its \in [Sock -> Connection],
         DeleteConnectionOf(p, its, s)
  PROVE  Reopens
<1> DEFINE socks   == RemoveConnBySocket(table[p], s)
           purpose == IF InTable(p, s) THEN its[s].purpose ELSE TEXT
<1>1. table' = [table EXCEPT ![p] = socks]
  BY DEF DeleteConnectionOf
<1>2. table'[p] = socks /\ \A q \in Peer : q # p => table'[q] = table[q]
  BY <1>1 DEF TypeOK
<1>3. ASSUME socks = <<>> PROVE \E u \in Purpose : creating'[p][u] > 0
  <2>1. purpose \in Purpose
    BY DEF Connection, Purpose
  <2>2. CreateConnectionAsyc(p, <<>>, purpose)
    BY <1>3 DEF DeleteConnectionOf
  <2>3. creating' = [creating EXCEPT ![p][purpose] = creating[p][purpose] + 1]
    BY <2>2, EmptyHasNoConn DEF CreateConnectionAsyc
  <2>4. creating[p] \in [Purpose -> Nat]
    BY DEF TypeOK
  <2>5. creating'[p][purpose] = creating[p][purpose] + 1 /\ creating[p][purpose] \in Nat
    <3> HIDE DEF purpose
    <3> QED BY <2>1, <2>3, <2>4 DEF TypeOK
  <2>6. creating'[p][purpose] > 0
    BY <2>5
  <2> QED BY <2>1, <2>6
<1> QED BY <1>2, <1>3 DEF Reopens

(* The same for the item the table holds. *)
LEMMA DeleteConnectionReopens ==
  ASSUME TypeOK, NEW p \in Peer, NEW s \in Sock, DeleteConnection(p, s)
  PROVE  Reopens
<1>1. item[p] \in [Sock -> Connection]
  BY DEF TypeOK
<1> QED BY <1>1, DeleteReopens DEF DeleteConnection

(* The Reader reopens the last connection it deletes. *)
LEMMA ReaderReopens == ASSUME TypeOK, NEW p \in Peer, ReaderStep(p) PROVE Reopens
<1>1. ASSUME NEW s \in Sock, NEW c, ReplyOk(p, s, c) \/ ReplyFails(p, s) PROVE Reopens
  BY <1>1, SameTablesReopen, DeleteConnectionReopens DEF ReplyOk, ReplyFails
<1>2. ASSUME NEW type, Takes(p, type) PROVE Head(rq[p]).sock \in Sock
  <2>1. rq[p] \in Seq(Message) /\ rq[p] # <<>>
    BY <1>2 DEF TypeOK, Takes
  <2>2. Head(rq[p]) \in Message
    BY <2>1
  <2> QED BY <2>2 DEF Message
<1>3. CASE HandleRequest(p)
  BY <1>1, <1>2, <1>3 DEF HandleRequest
<1>4. CASE HandleAuth(p)
  BY <1>1, <1>2, <1>4 DEF HandleAuth
<1>5. CASE HandleExchange(p)
  BY <1>1, <1>2, <1>5 DEF HandleExchange
<1>6. CASE HandleDone(p) \/ RecordStatus(p)
  BY <1>6, SameTablesReopen DEF HandleDone, RecordStatus, connVars
<1>7. CASE HandleData(p)
  <2> DEFINE m == Head(rq[p])
             its == IF InTable(p, m.sock) /\ m.type \in {"FILE_META", "FILE_READY"}
                    THEN [item[p] EXCEPT ![m.sock].purpose = FILE] ELSE item[p]
  <2>1. m.sock \in Sock
    BY <1>2, <1>7 DEF HandleData
  <2>2. its \in [Sock -> Connection]
    <3>1. item[p] \in [Sock -> Connection]
      BY DEF TypeOK
    <3>2. item[p][m.sock] \in Connection /\ FILE \in Purpose
      BY <2>1, <3>1 DEF Purpose
    <3>3. [item[p][m.sock] EXCEPT !.purpose = FILE] \in Connection
      BY <3>2 DEF Connection
    <3> HIDE DEF m
    <3> QED BY <2>1, <3>1, <3>3
  <2>3. CASE UNCHANGED table
    BY <2>3, SameTablesReopen
  <2>4. CASE DeleteConnectionOf(p, its, m.sock)
    <3> HIDE DEF m, its
    <3> QED BY <2>1, <2>2, <2>4, DeleteReopens
  <2>5. UNCHANGED table \/ DeleteConnectionOf(p, its, m.sock)
    BY <1>7 DEF HandleData, ReplyOk
  <2> QED BY <2>3, <2>4, <2>5
<1> QED BY <1>3, <1>4, <1>5, <1>6, <1>7 DEF ReaderStep

(* The Writer does. *)
LEMMA WriterReopens == ASSUME TypeOK, NEW p \in Peer, WriterStep(p) PROVE Reopens
<1>1. Head(sq[p]).sock \in Sock
  <2>1. sq[p] \in Seq(Message) /\ sq[p] # <<>>
    BY DEF TypeOK, WriterStep, WriteCell, WriteFails
  <2>2. Head(sq[p]) \in Message
    BY <2>1
  <2> QED BY <2>2 DEF Message
<1>2. UNCHANGED table \/ DeleteConnection(p, Head(sq[p]).sock)
  BY DEF WriterStep, WriteCell, WriteFails, connVars
<1> QED BY <1>1, <1>2, SameTablesReopen, DeleteConnectionReopens

(* The chat screen does, when its handshake cannot start. *)
LEMMA ScreenReopens == ASSUME TypeOK, NEW p \in Peer, ScreenStep(p) PROVE Reopens
<1>1. CASE HandleSuccess(p)
  <2> DEFINE s == ConnOf(item[p], table[p], TEXT)
  <2>1. CASE HasConn(item[p], table[p], TEXT)
    <3>1. s \in Sock
      <4>1. table[p] \in Seq(Sock)
        BY DEF TypeOK
      <4>2. s \in Range(table[p]) /\ Range(table[p]) \subseteq Sock
        BY <2>1, <4>1, PickInTable, RangeInType
      <4> QED BY <4>2
    <3>2. UNCHANGED table \/ DeleteConnection(p, s)
      BY <1>1 DEF HandleSuccess, StartTransport, StartTransportFails
    <3> HIDE DEF s
    <3> QED BY <3>1, <3>2, SameTablesReopen, DeleteConnectionReopens
  <2>2. CASE ~HasConn(item[p], table[p], TEXT)
    BY <1>1, <2>2, SameTablesReopen DEF HandleSuccess
  <2> QED BY <2>1, <2>2
<1>2. CASE HandleFail(p) \/ HandleOnline(p)
  BY <1>2, SameTablesReopen DEF HandleFail, HandleOnline, connVars
<1> QED BY <1>1, <1>2 DEF ScreenStep

(* The threads that read a socket do. *)
LEMMA SocketReopens ==
  ASSUME TypeOK, NEW p \in Peer, NEW s \in Sock, SocketStep(p, s) PROVE Reopens
<1>1. CASE HandlerAccept(p, s)
  BY <1>1, LongerTableReopens DEF HandlerAccept
<1>2. CASE ReadCell(p, s)
  BY <1>2, SameTablesReopen DEF ReadCell, connVars
<1>3. CASE HandlerStops(p, s)
  BY <1>3, SameTablesReopen, DeleteConnectionReopens DEF HandlerStops
<1>4. CASE TransportStops(p, s)
  BY <1>4, DeleteConnectionReopens DEF TransportStops
<1> QED BY <1>1, <1>2, <1>3, <1>4 DEF SocketStep

(* Whatever step deletes the last connection of a device opens another. *)
LEMMA EveryStepReopens == TypeOK /\ [Next]_vars => Reopens
<1> SUFFICES ASSUME TypeOK, [Next]_vars PROVE Reopens
  OBVIOUS
<1>1. ASSUME NEW p \in Peer, OpeningStep(p) PROVE Reopens
  BY <1>1, SameTablesReopen, LongerTableReopens
     DEF OpeningStep, CreateConnectionOk, CreateConnectionFails, Connected
<1>2. ASSUME NEW p \in Peer, UserStep(p) PROVE Reopens
  BY <1>2, SameTablesReopen
     DEF UserStep, OpenChat, CloseChat, ContactReported, SendText, SendFile, connVars
<1>3. ASSUME NEW p \in Peer, NetStep(p) PROVE Reopens
  BY <1>3, SameTablesReopen, LongerTableReopens
     DEF NetStep, NetworkUpOk, NetworkUpFails, TryResendAll, Connected, connVars
<1>4. CASE (\E s \in Sock : CutCircuit(s)) \/ UNCHANGED vars
  BY <1>4, SameTablesReopen DEF CutCircuit, vars, connVars
<1> QED BY <1>1, <1>2, <1>3, <1>4, ReaderReopens, WriterReopens, ScreenReopens, SocketReopens
     DEF Next

(* A device that loses its last connection is opening another, for any sockets,      *)
(* users and bounds.                                                               *)
THEOREM LastConnectionIsReopened == Spec => LastConnectionReopens
<1>1. TypeOK /\ [Next]_vars =>
        [\A p \in Peer : table[p] # <<>> /\ table'[p] = <<>>
                          => \E u \in Purpose : creating'[p][u] > 0]_vars
  BY EveryStepReopens DEF Reopens
<1> QED BY <1>1, TypeCorrect, PTL DEF Spec, LastConnectionReopens

-----------------------------------------------------------------------------
(* Texts.  Every step adds to the queues and the wires together no more texts than it *)
(* uses up of the bound on texts; moving one between them adds none.                  *)

(* A cell that is a text counts for one. *)
One(c) == IF c.type = "DATA_MESSAGE" THEN 1 ELSE 0

(* The texts of a queue are finitely many. *)
LEMMA TextsFinite ==
  ASSUME NEW T, NEW q \in Seq(T)
  PROVE  IsFiniteSet(Texts(q)) /\ TextsIn(q) \in Nat /\ Texts(q) \subseteq 1 .. Len(q)
<1>1. Len(q) \in Nat /\ DOMAIN q = 1 .. Len(q)
  OBVIOUS
<1>2. Texts(q) \subseteq 1 .. Len(q)
  BY <1>1 DEF Texts
<1>3. IsFiniteSet(1 .. Len(q))
  BY <1>1, FS_Interval
<1>4. IsFiniteSet(Texts(q))
  BY <1>2, <1>3, FS_Subset
<1> QED BY <1>2, <1>4, FS_CardinalityType DEF TextsIn

(* An empty queue has no text. *)
LEMMA NoTexts == TextsIn(<<>>) = 0
<1>1. DOMAIN <<>> = {}
  OBVIOUS
<1>2. Texts(<<>>) = {}
  BY <1>1 DEF Texts
<1> QED BY <1>2, FS_EmptySet DEF TextsIn

(* A cell more at the end of a queue. *)
LEMMA TextsAppend ==
  ASSUME NEW T, NEW q \in Seq(T), NEW c \in T
  PROVE  TextsIn(Append(q, c)) = TextsIn(q) + One(c)
<1>1. PICK n, r : n = Len(q) /\ r = Append(q, c)
  OBVIOUS
<1>2. /\ n \in Nat /\ DOMAIN q = 1 .. n /\ DOMAIN r = 1 .. n + 1
      /\ r[n + 1] = c /\ \A i \in 1 .. n : r[i] = q[i]
  BY <1>1
<1>3. Texts(r) = Texts(q) \cup (IF c.type = "DATA_MESSAGE" THEN {n + 1} ELSE {})
  <2>1. \A i \in 1 .. n + 1 : i \in 1 .. n \/ i = n + 1
    BY <1>2
  <2>2. \A i \in 1 .. n : i \in 1 .. n + 1 /\ i # n + 1
    BY <1>2
  <2>3. n + 1 \in 1 .. n + 1
    BY <1>2
  <2> QED BY <1>2, <2>1, <2>2, <2>3 DEF Texts
<1>4. n + 1 \notin Texts(q)
  BY <1>2 DEF Texts
<1>5. IsFiniteSet(Texts(q)) /\ Cardinality(Texts(q)) \in Nat
  BY TextsFinite DEF TextsIn
<1>6. CASE c.type = "DATA_MESSAGE"
  <2>1. Cardinality(Texts(q) \cup {n + 1}) = Cardinality(Texts(q)) + 1
    BY <1>4, <1>5, FS_AddElement
  <2> QED BY <1>1, <1>3, <1>6, <2>1 DEF TextsIn, One
<1>7. CASE c.type # "DATA_MESSAGE"
  <2>1. Texts(r) = Texts(q)
    BY <1>3, <1>7
  <2> QED BY <1>1, <1>5, <1>7, <2>1 DEF TextsIn, One
<1> QED BY <1>6, <1>7

(* Moving every position by n keeps how many there are. *)
LEMMA ShiftCounts ==
  ASSUME NEW S, IsFiniteSet(S), S \subseteq Nat, NEW n \in Int
  PROVE  /\ IsFiniteSet({i + n : i \in S})
         /\ Cardinality({i + n : i \in S}) = Cardinality(S)
<1>1. PICK T : T = {i + n : i \in S}
  OBVIOUS
<1>2. PICK f : f = [i \in S |-> i + n]
  OBVIOUS
<1>3. f \in Bijection(S, T)
  <2>1. f \in [S -> T]
    BY <1>1, <1>2
  <2>2. \A t \in T : \E i \in S : f[i] = t
    BY <1>1, <1>2
  <2>3. \A i, j \in S : f[i] = f[j] => i = j
    BY <1>2
  <2> QED BY <2>1, <2>2, <2>3 DEF Bijection, Injection, Surjection, IsInjective
<1>4. ExistsBijection(S, T)
  BY <1>3 DEF ExistsBijection
<1> QED BY <1>1, <1>4, FS_Bijection

(* The head taken off a queue. *)
LEMMA TextsTail ==
  ASSUME NEW T, NEW q \in Seq(T), q # <<>>
  PROVE  TextsIn(q) = TextsIn(Tail(q)) + One(Head(q))
<1>1. PICK n, r : n = Len(q) /\ r = Tail(q)
  OBVIOUS
<1>2. /\ n \in Nat \ {0} /\ DOMAIN q = 1 .. n /\ DOMAIN r = 1 .. n - 1
      /\ Head(q) = q[1] /\ \A i \in 1 .. n - 1 : r[i] = q[i + 1]
      /\ r \in Seq(T)
  BY <1>1
<1>3. PICK S : S = {i + 1 : i \in Texts(r)}
  OBVIOUS
<1>4. /\ IsFiniteSet(S) /\ Cardinality(S) = TextsIn(r) /\ TextsIn(r) \in Nat
      /\ Texts(r) \subseteq 1 .. n - 1
  <2>1. IsFiniteSet(Texts(r)) /\ TextsIn(r) \in Nat
    BY <1>2, TextsFinite
  <2>2. Texts(r) \subseteq 1 .. n - 1
    BY <1>2 DEF Texts
  <2>3. Texts(r) \subseteq Nat
    BY <1>2, <2>2
  <2> QED BY <1>3, <2>1, <2>2, <2>3, ShiftCounts DEF TextsIn
<1>5. 1 \notin S
  BY <1>2, <1>3, <1>4
<1>6. Texts(q) = S \cup (IF Head(q).type = "DATA_MESSAGE" THEN {1} ELSE {})
  <2>1. ASSUME NEW i \in Texts(q), i # 1 PROVE i \in S
    <3>1. i \in 1 .. n /\ q[i].type = "DATA_MESSAGE"
      BY <1>2 DEF Texts
    <3>2. i - 1 \in 1 .. n - 1 /\ i = (i - 1) + 1
      BY <1>2, <2>1, <3>1
    <3>3. i - 1 \in Texts(r)
      BY <1>2, <3>1, <3>2 DEF Texts
    <3> QED BY <1>3, <3>2, <3>3
  <2>2. ASSUME NEW i \in S PROVE i \in Texts(q)
    <3>1. PICK j \in Texts(r) : i = j + 1
      BY <1>3, <2>2
    <3>2. j \in 1 .. n - 1 /\ r[j].type = "DATA_MESSAGE"
      BY <1>2 DEF Texts
    <3>3. i \in 1 .. n /\ q[i] = r[j]
      BY <1>2, <3>1, <3>2
    <3> QED BY <1>2, <3>2, <3>3 DEF Texts
  <2>3. 1 \in Texts(q) <=> Head(q).type = "DATA_MESSAGE"
    BY <1>2 DEF Texts
  <2> QED BY <2>1, <2>2, <2>3
<1>7. CASE Head(q).type = "DATA_MESSAGE"
  <2>1. Cardinality(S \cup {1}) = Cardinality(S) + 1
    BY <1>4, <1>5, FS_AddElement
  <2> QED BY <1>1, <1>4, <1>6, <1>7, <2>1 DEF TextsIn, One
<1>8. CASE Head(q).type # "DATA_MESSAGE"
  <2>1. Texts(q) = S
    BY <1>6, <1>8
  <2> QED BY <1>1, <1>4, <1>8, <2>1 DEF TextsIn, One
<1> QED BY <1>7, <1>8

(* The texts sent again come after the ones that waited.                      *)
LEMMA TextsAgain ==
  ASSUME NEW T, NEW q \in Seq(T), NEW r \in Seq(T),
         \A i \in 1 .. Len(r) : r[i].type = "DATA_MESSAGE"
  PROVE  TextsIn(q \o r) = TextsIn(q) + Len(r)
<1>1. PICK m, n, a : m = Len(q) /\ n = Len(r) /\ a = q \o r
  OBVIOUS
<1>2. /\ m \in Nat /\ n \in Nat /\ DOMAIN q = 1 .. m /\ DOMAIN a = 1 .. m + n
      /\ \A i \in 1 .. m : a[i] = q[i]
      /\ \A i \in 1 .. n : a[m + i] = r[i]
  BY <1>1
<1>3. Texts(a) = Texts(q) \cup (m + 1 .. m + n)
  <2>1. ASSUME NEW i \in m + 1 .. m + n PROVE i \in Texts(a)
    <3>1. i - m \in 1 .. n /\ i = m + (i - m) /\ i \in 1 .. m + n
      BY <1>2
    <3>2. a[i] = r[i - m]
      BY <1>2, <3>1
    <3> QED BY <1>1, <1>2, <3>1, <3>2 DEF Texts
  <2>2. \A i \in 1 .. m : i \in 1 .. m + n
    BY <1>2
  <2>3. \A i \in 1 .. m + n : i \in 1 .. m \/ i \in m + 1 .. m + n
    BY <1>2
  <2> QED BY <1>2, <2>1, <2>2, <2>3 DEF Texts
<1>4. Texts(q) \cap (m + 1 .. m + n) = {}
  BY <1>2 DEF Texts
<1>5. IsFiniteSet(m + 1 .. m + n) /\ Cardinality(m + 1 .. m + n) = n
  BY <1>2, FS_Interval
<1>6. IsFiniteSet(Texts(q)) /\ Cardinality(Texts(q)) \in Nat
  BY TextsFinite DEF TextsIn
<1>7. Cardinality(Texts(a)) = Cardinality(Texts(q)) + n
  <2>1. Cardinality(Texts(q) \cup (m + 1 .. m + n))
          = Cardinality(Texts(q)) + Cardinality(m + 1 .. m + n)
              - Cardinality(Texts(q) \cap (m + 1 .. m + n))
    BY <1>5, <1>6, FS_Union
  <2>2. Cardinality(Texts(q) \cap (m + 1 .. m + n)) = 0
    BY <1>4, FS_EmptySet
  <2> QED BY <1>2, <1>3, <1>5, <1>6, <2>1, <2>2
<1> QED BY <1>1, <1>7 DEF TextsIn

(* The wires of a device: only the one of s changes.                          *)
LEMMA OneWireCounts ==
  ASSUME NEW W \in [Sock -> Seq(Cell)], IsFiniteSet(TextsOn(W)), NEW s \in Sock,
         NEW q \in Seq(Cell), NEW V, V = [W EXCEPT ![s] = q]
  PROVE  /\ IsFiniteSet(TextsOn(V))
         /\ Cardinality(TextsOn(V)) = Cardinality(TextsOn(W)) - TextsIn(W[s]) + TextsIn(q)
<1>1. \A t, i : /\ <<t, i>> \in TextsOn(W) <=> t \in Sock /\ i \in Texts(W[t])
                /\ <<t, i>> \in TextsOn(V) <=> t \in Sock /\ i \in Texts(V[t])
  BY DEF TextsOn
<1>2. \A x \in TextsOn(W) \cup TextsOn(V) : \E t, i : x = <<t, i>>
  BY DEF TextsOn
<1>3. V[s] = q /\ \A t \in Sock : t # s => V[t] = W[t]
  OBVIOUS
<1>4. PICK O, N, E, F : /\ O = TextsOn(W) /\ N = TextsOn(V)
                        /\ E = {s} \X Texts(W[s]) /\ F = {s} \X Texts(q)
  OBVIOUS
<1>5. \A t, i : /\ <<t, i>> \in E <=> t = s /\ i \in Texts(W[s])
                /\ <<t, i>> \in F <=> t = s /\ i \in Texts(q)
  BY <1>4
<1>6. \A x \in E \cup F : \E t, i : x = <<t, i>>
  BY <1>4
<1>7. E \subseteq O /\ F \subseteq N
  <2>1. \A t, i : (<<t, i>> \in E => <<t, i>> \in O) /\ (<<t, i>> \in F => <<t, i>> \in N)
    BY <1>1, <1>3, <1>4, <1>5
  <2> QED BY <1>6, <2>1
<1>8. O \ E = N \ F
  <2>1. \A t, i : <<t, i>> \in O \ E <=> <<t, i>> \in N \ F
    BY <1>1, <1>3, <1>4, <1>5
  <2>2. \A x \in (O \ E) \cup (N \ F) : \E t, i : x = <<t, i>>
    BY <1>2, <1>4
  <2> QED BY <2>1, <2>2
<1>9. ASSUME NEW L, IsFiniteSet(L)
      PROVE  /\ IsFiniteSet({s} \X L) /\ Cardinality({s} \X L) = Cardinality(L)
             /\ Cardinality(L) \in Nat
  <2>1. IsFiniteSet({s}) /\ Cardinality({s}) = 1
    BY FS_Singleton
  <2>2. IsFiniteSet({s} \X L) /\ Cardinality({s} \X L) = Cardinality({s}) * Cardinality(L)
    BY <1>9, <2>1, FS_Product
  <2>3. Cardinality(L) \in Nat
    BY <1>9, FS_CardinalityType
  <2> QED BY <2>1, <2>2, <2>3
<1>10. /\ IsFiniteSet(E) /\ Cardinality(E) = TextsIn(W[s]) /\ Cardinality(E) \in Nat
       /\ IsFiniteSet(F) /\ Cardinality(F) = TextsIn(q) /\ Cardinality(F) \in Nat
  <2>1. W[s] \in Seq(Cell)
    OBVIOUS
  <2> QED BY <1>4, <1>9, <2>1, TextsFinite DEF TextsIn
<1>11. IsFiniteSet(O \ E) /\ Cardinality(O \ E) = Cardinality(O) - Cardinality(E)
  <2>1. O \cap E = E
    BY <1>7
  <2>2. IsFiniteSet(O)
    BY <1>4
  <2>3. /\ IsFiniteSet(O \ E)
        /\ Cardinality(O \ E) = Cardinality(O) - Cardinality(O \cap E)
    BY <2>2, FS_Difference
  <2> QED BY <2>1, <2>3
<1>12. N = (O \ E) \cup F /\ (O \ E) \cap F = {}
  BY <1>7, <1>8
<1>13. /\ IsFiniteSet(N)
       /\ Cardinality(N) = Cardinality(O \ E) + Cardinality(F) - Cardinality((O \ E) \cap F)
  BY <1>10, <1>11, <1>12, FS_Union
<1>14. Cardinality((O \ E) \cap F) = 0 /\ Cardinality(O) \in Nat /\ Cardinality(O \ E) \in Nat
  BY <1>4, <1>11, <1>12, FS_EmptySet, FS_CardinalityType
<1>15. Cardinality(N) = Cardinality(O) - Cardinality(E) + Cardinality(F)
  BY <1>10, <1>11, <1>13, <1>14
<1> QED BY <1>4, <1>10, <1>13, <1>15

(* The texts on the wires are finitely many (Sock need not be finite). *)
FiniteWires == \A q \in Peer : IsFiniteSet(TextsOn(wire[q]))

(* What a step of p adds to what waits at p, to the wires to p and to those from p. *)
Moves(p, n) == /\ Waiting(p)' <= Waiting(p) + n
               /\ Waiting(Other(p))' = Waiting(Other(p))
WireMoves(p, own, other) ==
  /\ FiniteWires'
  /\ OnWire(p)' <= OnWire(p) + own
  /\ OnWire(Other(p))' <= OnWire(Other(p)) + other

(* All the texts there are, and what a step may add to them. *)
Total == Waiting(A) + Waiting(B) + OnWire(A) + OnWire(B)
Counts == FiniteWires' /\ Total' + spent.text <= Total + spent'.text

(* What waits at a device is a number. *)
LEMMA WaitingNat ==
  ASSUME TypeOK, NEW p \in Peer
  PROVE  Waiting(p) \in Nat /\ TextsIn(sq[p]) \in Nat /\ TextsIn(rq[p]) \in Nat /\ failed[p] \in Nat
<1>1. sq[p] \in Seq(Message) /\ rq[p] \in Seq(Message) /\ failed[p] \in Nat
  BY DEF TypeOK
<1>2. TextsIn(sq[p]) \in Nat /\ TextsIn(rq[p]) \in Nat
  BY <1>1, TextsFinite
<1> QED BY <1>1, <1>2 DEF Waiting

(* It is one after a step too. *)
LEMMA WaitingNatNext ==
  ASSUME TypeOK', NEW p \in Peer
  PROVE  /\ Waiting(p)' \in Nat /\ TextsIn(sq'[p]) \in Nat /\ TextsIn(rq'[p]) \in Nat
         /\ failed'[p] \in Nat
<1>1. sq'[p] \in Seq(Message) /\ rq'[p] \in Seq(Message) /\ failed'[p] \in Nat
  BY DEF TypeOK
<1>2. TextsIn(sq'[p]) \in Nat /\ TextsIn(rq'[p]) \in Nat
  BY <1>1, TextsFinite
<1> QED BY <1>1, <1>2 DEF Waiting

(* So are the texts on the wires to a device. *)
LEMMA OnWireNat ==
  /\ FiniteWires => \A q \in Peer : OnWire(q) \in Nat
  /\ FiniteWires' => \A q \in Peer : OnWire(q)' \in Nat
<1>1. ASSUME FiniteWires, NEW q \in Peer PROVE OnWire(q) \in Nat
  BY <1>1, FS_CardinalityType DEF FiniteWires, OnWire
<1>2. ASSUME FiniteWires', NEW q \in Peer PROVE OnWire(q)' \in Nat
  <2>1. IsFiniteSet(TextsOn(wire'[q]))
    BY <1>2 DEF FiniteWires
  <2> QED BY <2>1, FS_CardinalityType DEF OnWire
<1> QED BY <1>1, <1>2

(* A step of p that adds no more than it uses up of the bound on texts. *)
LEMMA BothCount ==
  ASSUME TypeOK, TypeOK', FiniteWires, NEW p \in Peer, NEW n \in Int, NEW own \in Int,
         NEW other \in Int, Moves(p, n), WireMoves(p, own, other),
         n + own + other <= spent'.text - spent.text
  PROVE  Counts
<1>1. /\ \A q \in Peer : Waiting(q) \in Nat /\ Waiting(q)' \in Nat
      /\ \A q \in Peer : OnWire(q) \in Nat /\ OnWire(q)' \in Nat
  BY WaitingNat, WaitingNatNext, OnWireNat DEF WireMoves
<1>2. spent.text \in Nat /\ spent'.text \in Nat
  BY BoundNames DEF TypeOK
<1>3. (p = A /\ Other(p) = B) \/ (p = B /\ Other(p) = A)
  BY PeersDiffer DEF Peer, Other
<1>4. A \in Peer /\ B \in Peer
  BY DEF Peer
<1>5. CASE p = A /\ Other(p) = B
  <2>1. /\ Waiting(A)' <= Waiting(A) + n /\ Waiting(B)' = Waiting(B)
        /\ OnWire(A)' <= OnWire(A) + own /\ OnWire(B)' <= OnWire(B) + other
    BY <1>5 DEF Moves, WireMoves
  <2> QED BY <1>1, <1>2, <1>4, <2>1 DEF Total, Counts, WireMoves
<1>6. CASE p = B /\ Other(p) = A
  <2>1. /\ Waiting(B)' <= Waiting(B) + n /\ Waiting(A)' = Waiting(A)
        /\ OnWire(B)' <= OnWire(B) + own /\ OnWire(A)' <= OnWire(A) + other
    BY <1>6 DEF Moves, WireMoves
  <2> QED BY <1>1, <1>2, <1>4, <2>1 DEF Total, Counts, WireMoves
<1> QED BY <1>3, <1>5, <1>6

(* What a step of p adds to each of its queues, at most. *)
QueuesGrow(p, ofSq, ofRq, ofFailed) ==
  /\ TextsIn(sq'[p]) <= TextsIn(sq[p]) + ofSq
  /\ TextsIn(rq'[p]) <= TextsIn(rq[p]) + ofRq
  /\ failed'[p] <= failed[p] + ofFailed
  /\ \A q \in Peer : q # p => sq'[q] = sq[q] /\ rq'[q] = rq[q] /\ failed'[q] = failed[q]

(* The queues of p change. *)
LEMMA QueuesMove ==
  ASSUME TypeOK, TypeOK', NEW p \in Peer, NEW a \in Int, NEW b \in Int, NEW c \in Int,
         QueuesGrow(p, a, b, c)
  PROVE  Moves(p, a + b + c)
<1>1. Waiting(p)' <= Waiting(p) + (a + b + c)
  BY WaitingNat, WaitingNatNext DEF Waiting, QueuesGrow
<1>2. Waiting(Other(p))' = Waiting(Other(p))
  BY OtherPeer DEF Waiting, QueuesGrow
<1> QED BY <1>1, <1>2 DEF Moves

(* A step that leaves the queues alone. *)
LEMMA SameQueues ==
  ASSUME TypeOK, TypeOK', NEW p \in Peer, UNCHANGED <<sq, rq, failed>>
  PROVE  Moves(p, 0)
<1>1. Waiting(p)' = Waiting(p) /\ Waiting(Other(p))' = Waiting(Other(p))
  BY DEF Waiting
<1> QED BY <1>1, WaitingNat DEF Moves

(* One wire to q changes. *)
LEMMA OneWire ==
  ASSUME TypeOK, FiniteWires, NEW q \in Peer, NEW s \in Sock, NEW new \in Seq(Cell),
         wire' = [wire EXCEPT ![q][s] = new]
  PROVE  /\ FiniteWires'
         /\ OnWire(q)' = OnWire(q) - TextsIn(wire[q][s]) + TextsIn(new)
         /\ OnWire(Other(q))' = OnWire(Other(q))
         /\ TextsIn(wire[q][s]) \in Nat /\ TextsIn(new) \in Nat
<1>1. wire[q] \in [Sock -> Seq(Cell)] /\ wire'[q] = [wire[q] EXCEPT ![s] = new]
  BY DEF TypeOK
<1>2. \A r \in Peer : r # q => wire'[r] = wire[r]
  BY DEF TypeOK
<1>3. /\ IsFiniteSet(TextsOn(wire'[q]))
      /\ Cardinality(TextsOn(wire'[q]))
           = Cardinality(TextsOn(wire[q])) - TextsIn(wire[q][s]) + TextsIn(new)
  BY <1>1, OneWireCounts DEF FiniteWires
<1>4. FiniteWires'
  BY <1>2, <1>3 DEF FiniteWires
<1>5. wire[q][s] \in Seq(Cell)
  BY <1>1
<1>6. TextsIn(wire[q][s]) \in Nat /\ TextsIn(new) \in Nat
  BY <1>5, TextsFinite
<1>7. wire'[Other(q)] = wire[Other(q)]
  BY <1>2, OtherPeer
<1> QED BY <1>3, <1>4, <1>6, <1>7 DEF OnWire

(* A step that leaves the wires alone. *)
LEMMA SameWires ==
  ASSUME TypeOK, FiniteWires, NEW p \in Peer, UNCHANGED wire
  PROVE  WireMoves(p, 0, 0)
<1>1. FiniteWires' /\ \A q \in Peer : OnWire(q)' = OnWire(q) /\ OnWire(q) \in Nat
  BY OnWireNat DEF FiniteWires, OnWire
<1> QED BY <1>1, OtherPeer DEF WireMoves

(* An end closed: what was on its way to it is lost. *)
LEMMA EmptiedWire ==
  ASSUME TypeOK, FiniteWires, NEW p \in Peer, NEW s \in Sock, wire' = [wire EXCEPT ![p][s] = <<>>]
  PROVE  WireMoves(p, 0, 0)
<1>1. <<>> \in Seq(Cell)
  OBVIOUS
<1>2. /\ FiniteWires' /\ OnWire(p)' = OnWire(p) - TextsIn(wire[p][s]) + 0
      /\ OnWire(Other(p))' = OnWire(Other(p)) /\ TextsIn(wire[p][s]) \in Nat
  BY <1>1, OneWire, NoTexts
<1> QED BY <1>2, OtherPeer, OnWireNat DEF WireMoves

(* A cell written. *)
LEMMA LongerWire ==
  ASSUME TypeOK, FiniteWires, NEW p \in Peer, NEW s \in Sock, NEW c \in Cell,
         wire' = [wire EXCEPT ![Other(p)][s] = Append(@, c)]
  PROVE  WireMoves(p, 0, One(c))
<1>1. Other(p) \in Peer /\ Other(Other(p)) = p
  BY OtherPeer
<1>2. wire[Other(p)][s] \in Seq(Cell)
  BY <1>1 DEF TypeOK
<1>3. PICK new : new = Append(wire[Other(p)][s], c)
  OBVIOUS
<1>4. new \in Seq(Cell) /\ TextsIn(new) = TextsIn(wire[Other(p)][s]) + One(c)
  BY <1>2, <1>3, TextsAppend
<1>5. wire' = [wire EXCEPT ![Other(p)][s] = new]
  BY <1>3
<1>6. /\ FiniteWires'
      /\ OnWire(Other(p))' = OnWire(Other(p)) - TextsIn(wire[Other(p)][s]) + TextsIn(new)
      /\ OnWire(p)' = OnWire(p)
      /\ TextsIn(wire[Other(p)][s]) \in Nat /\ TextsIn(new) \in Nat
  BY <1>1, <1>4, <1>5, OneWire
<1>7. One(c) \in Nat /\ OnWire(p) \in Nat /\ OnWire(Other(p)) \in Nat
  BY <1>1, OnWireNat DEF One
<1> QED BY <1>4, <1>6, <1>7 DEF WireMoves

(* A cell written, or lost because the circuit is gone. *)
LEMMA SentWire ==
  ASSUME TypeOK, FiniteWires, NEW p \in Peer, NEW s \in Sock, NEW c \in Cell, SendMessage(p, s, c)
  PROVE  WireMoves(p, 0, One(c))
<1>1. CASE Gone(p, s)
  <2>1. WireMoves(p, 0, 0)
    BY <1>1, SameWires DEF SendMessage, Wrote
  <2> QED BY <2>1, OtherPeer, OnWireNat DEF WireMoves, One
<1>2. CASE ~Gone(p, s)
  BY <1>2, LongerWire DEF SendMessage, Wrote
<1> QED BY <1>1, <1>2

(* A cell that is no text, sent or not. *)
LEMMA AnswerWire ==
  ASSUME TypeOK, FiniteWires, NEW p \in Peer, NEW s \in Sock, NEW c \in Cell,
         c.type # "DATA_MESSAGE",
         SendMessage(p, s, c) \/ SendMessageFails(p, s) \/ Close(p, s)
  PROVE  WireMoves(p, 0, 0)
<1>1. One(c) = 0
  BY DEF One
<1> QED BY <1>1, SentWire, EmptiedWire DEF SendMessageFails, Close

(* A cell taken off a wire. *)
LEMMA ReadWire ==
  ASSUME TypeOK, FiniteWires, NEW p \in Peer, NEW s \in Sock, HasCell(p, s),
         wire' = [wire EXCEPT ![p][s] = Tail(@)]
  PROVE  WireMoves(p, 0 - One(Head(wire[p][s])), 0)
<1>1. wire[p][s] \in Seq(Cell) /\ wire[p][s] # <<>>
  BY DEF TypeOK, HasCell
<1>2. PICK new : new = Tail(wire[p][s])
  OBVIOUS
<1>3. new \in Seq(Cell) /\ TextsIn(wire[p][s]) = TextsIn(new) + One(Head(wire[p][s]))
  BY <1>1, <1>2, TextsTail
<1>4. wire' = [wire EXCEPT ![p][s] = new]
  BY <1>2
<1>5. /\ FiniteWires' /\ OnWire(p)' = OnWire(p) - TextsIn(wire[p][s]) + TextsIn(new)
      /\ OnWire(Other(p))' = OnWire(Other(p)) /\ TextsIn(new) \in Nat
  BY <1>3, <1>4, OneWire
<1>6. One(Head(wire[p][s])) \in Nat /\ OnWire(p) \in Nat /\ OnWire(Other(p)) \in Nat
  BY OtherPeer, OnWireNat DEF One
<1> QED BY <1>3, <1>5, <1>6 DEF WireMoves

(* A step that adds nothing. *)
LEMMA QuietCounts ==
  ASSUME TypeOK, TypeOK', FiniteWires, NEW p \in Peer, Moves(p, 0), WireMoves(p, 0, 0),
         spent.text <= spent'.text
  PROVE  Counts
<1>1. spent.text \in Nat /\ spent'.text \in Nat
  BY BoundNames DEF TypeOK
<1>2. 0 + 0 + 0 <= spent'.text - spent.text
  BY <1>1
<1> QED BY <1>2, BothCount

(* What a step does to the count of texts sent. *)
LEMMA SpentText ==
  ASSUME TypeOK
  PROVE  /\ UNCHANGED spent => spent.text <= spent'.text
         /\ \A what \in DOMAIN Bounds : Spend(what) =>
              spent'.text = spent.text + (IF what = "text" THEN 1 ELSE 0)
         /\ spent.text \in Nat
<1>1. spent \in [DOMAIN Bounds -> Nat] /\ "text" \in DOMAIN Bounds
  BY BoundNames DEF TypeOK
<1> QED BY <1>1 DEF Spend

(* The Reader takes a cell off its queue. *)
LEMMA TakesMoves ==
  ASSUME TypeOK, TypeOK', NEW p \in Peer, NEW type, Takes(p, type), UNCHANGED <<sq, failed>>
  PROVE  Moves(p, 0)
<1>1. rq[p] \in Seq(Message) /\ rq[p] # <<>>
  BY DEF TypeOK, Takes
<1>2. TextsIn(rq[p]) = TextsIn(Tail(rq[p])) + One(Head(rq[p]))
  BY <1>1, TextsTail
<1>3. rq'[p] = Tail(rq[p]) /\ \A q \in Peer : q # p => rq'[q] = rq[q]
  BY DEF TypeOK, Takes
<1>4. TextsIn(rq'[p]) <= TextsIn(rq[p]) + 0
  BY <1>2, <1>3, WaitingNat, WaitingNatNext DEF One
<1>5. TextsIn(sq'[p]) <= TextsIn(sq[p]) + 0 /\ failed'[p] <= failed[p] + 0
  BY WaitingNat
<1>6. QueuesGrow(p, 0, 0, 0)
  BY <1>3, <1>4, <1>5 DEF QueuesGrow
<1>7. Moves(p, 0 + 0 + 0)
  BY <1>6, QueuesMove
<1> QED BY <1>7

(* A text that failed goes back to sendQueue, or waits on. *)
LEMMA TryResendMoves ==
  ASSUME TypeOK, TypeOK', NEW p \in Peer, NEW its \in [Sock -> Connection], TryResend(p, its),
         UNCHANGED rq
  PROVE  Moves(p, 0)
<1> DEFINE has == HasConn(its, table[p], TEXT)
           s   == ConnOf(its, table[p], TEXT)
           again == [i \in 1 .. failed[p] |->
                       [sock |-> s, type |-> "DATA_MESSAGE", key |-> its[s].key]]
<1>1. CASE ~has
  <2>1. UNCHANGED <<sq, failed>>
    BY <1>1 DEF TryResend
  <2> QED BY <2>1, SameQueues
<1>2. CASE has
  <2>1. sq' = [sq EXCEPT ![p] = @ \o again] /\ failed' = [failed EXCEPT ![p] = 0]
    BY <1>2 DEF TryResend
  <2>2. s \in Sock
    <3>1. table[p] \in Seq(Sock)
      BY DEF TypeOK
    <3> QED BY <1>2, <3>1, PickInTable, RangeInType
  <2>3. [sock |-> s, type |-> "DATA_MESSAGE", key |-> its[s].key] \in Message
    <3>1. its[s].key \in Nat
      BY <2>2 DEF Connection
    <3> QED BY <2>2, <3>1 DEF Message, DataType
  <2>4. failed[p] \in Nat
    BY DEF TypeOK
  <2>5. PICK r : r = again
    OBVIOUS
  <2>6. r \in Seq(Message) /\ Len(r) = failed[p] /\ \A i \in 1 .. Len(r) : r[i].type = "DATA_MESSAGE"
    <3>1. PICK m : m = [sock |-> s, type |-> "DATA_MESSAGE", key |-> its[s].key]
      OBVIOUS
    <3>2. r = [i \in 1 .. failed[p] |-> m] /\ m \in Message /\ m.type = "DATA_MESSAGE"
      BY <2>3, <2>5, <3>1
    <3> QED BY <2>4, <3>2
  <2>7. sq[p] \in Seq(Message)
    BY DEF TypeOK
  <2>8. TextsIn(sq[p] \o r) = TextsIn(sq[p]) + failed[p]
    BY <2>6, <2>7, TextsAgain
  <2>9. /\ sq'[p] = sq[p] \o r /\ failed'[p] = 0
        /\ \A q \in Peer : q # p => sq'[q] = sq[q] /\ failed'[q] = failed[q]
    BY <2>1, <2>5 DEF TypeOK
  <2>10. PICK n \in Int, o \in Int : n = failed[p] /\ o = 0 - failed[p]
    BY <2>4
  <2>11. QueuesGrow(p, n, 0, o)
    <3>1. TextsIn(sq'[p]) <= TextsIn(sq[p]) + n
      BY <2>8, <2>9, <2>10, WaitingNat
    <3>2. TextsIn(rq'[p]) <= TextsIn(rq[p]) + 0
      BY WaitingNat
    <3>3. failed'[p] <= failed[p] + o
      BY <2>4, <2>9, <2>10
    <3> QED BY <2>9, <3>1, <3>2, <3>3 DEF QueuesGrow
  <2>12. Moves(p, n + 0 + o)
    BY <2>11, QueuesMove
  <2>13. n + 0 + o = 0
    BY <2>4, <2>10
  <2> QED BY <2>12, <2>13
<1> QED BY <1>1, <1>2

(* The Reader handles a cell: it answers with a cell that is no text. *)
LEMMA ReaderCounts ==
  ASSUME TypeOK, TypeOK', FiniteWires, NEW p \in Peer, ReaderStep(p)
  PROVE  Counts
<1>1. ASSUME NEW type, Takes(p, type), NEW c \in Cell, c.type # "DATA_MESSAGE",
             UNCHANGED <<sq, failed, spent>>, NEW s \in Sock,
             \/ ReplyOk(p, s, c) \/ SendMessageFails(p, s) \/ UNCHANGED wire
      PROVE  Counts
  <2>1. Moves(p, 0)
    BY <1>1, TakesMoves
  <2>2. WireMoves(p, 0, 0)
    BY <1>1, AnswerWire, SameWires DEF ReplyOk
  <2> QED BY <1>1, <2>1, <2>2, QuietCounts, SpentText
<1>2. ASSUME NEW type, Takes(p, type) PROVE Head(rq[p]) \in Message /\ Head(rq[p]).sock \in Sock
  <2>1. Head(rq[p]) \in Message
    BY <1>2, TakesEffect
  <2> QED BY <2>1 DEF Message
<1>3. CASE HandleRequest(p)
  <2>1. [type |-> "AUTH", key |-> NoKey] \in Cell
    BY CellTypes DEF HandShakeType
  <2>2. Takes(p, "REQUEST") /\ UNCHANGED <<sq, failed, spent>>
    BY <1>3 DEF HandleRequest
  <2>3. \/ ReplyOk(p, Head(rq[p]).sock, [type |-> "AUTH", key |-> NoKey])
        \/ SendMessageFails(p, Head(rq[p]).sock)
    BY <1>3 DEF HandleRequest, ReplyFails
  <2> QED BY <1>1, <1>2, <2>1, <2>2, <2>3
<1>4. CASE HandleAuth(p)
  <2>1. [type |-> "EXCHANGE", key |-> Len(made) + 1] \in Cell
    <3>1. Len(made) + 1 \in Nat
      BY DEF TypeOK
    <3> QED BY <3>1, CellTypes
  <2>2. Takes(p, "AUTH") /\ UNCHANGED <<sq, failed, spent>>
    BY <1>4 DEF HandleAuth
  <2>3. \/ ReplyOk(p, Head(rq[p]).sock, [type |-> "EXCHANGE", key |-> Len(made) + 1])
        \/ SendMessageFails(p, Head(rq[p]).sock)
    BY <1>4 DEF HandleAuth, ReplyFails
  <2> QED BY <1>1, <1>2, <2>1, <2>2, <2>3
<1>5. CASE HandleExchange(p)
  <2>1. [type |-> "DONE", key |-> NoKey] \in Cell
    BY CellTypes DEF HandShakeType
  <2>2. Takes(p, "EXCHANGE") /\ UNCHANGED <<sq, failed, spent>>
    BY <1>5 DEF HandleExchange
  <2>3. \/ ReplyOk(p, Head(rq[p]).sock, [type |-> "DONE", key |-> NoKey])
        \/ SendMessageFails(p, Head(rq[p]).sock)
    BY <1>5 DEF HandleExchange, ReplyFails
  <2> QED BY <1>1, <1>2, <2>1, <2>2, <2>3
<1>6. CASE HandleDone(p)
  <2>1. [type |-> "DONE", key |-> NoKey] \in Cell
    BY CellTypes DEF HandShakeType
  <2>2. Takes(p, "DONE") /\ UNCHANGED <<sq, failed, spent, wire>>
    BY <1>6 DEF HandleDone
  <2> QED BY <1>1, <1>2, <2>1, <2>2
<1>7. CASE HandleData(p)
  <2>1. PICK type \in DataType : Takes(p, type)
    BY <1>7 DEF HandleData
  <2>2. UNCHANGED <<sq, failed, spent>>
    BY <1>7 DEF HandleData
  <2>3. PICK c : c = [type |-> IF Head(rq[p]).type = "FILE_META" THEN "FILE_READY" ELSE "ACK",
                      key |-> item[p][Head(rq[p]).sock].key]
    OBVIOUS
  <2>4. c \in Cell /\ c.type # "DATA_MESSAGE"
    <3>4. Head(rq[p]).sock \in Sock /\ item \in [Peer -> [Sock -> Connection]]
      BY <1>2, <2>1 DEF TypeOK
    <3>1. item[p][Head(rq[p]).sock] \in Connection
      BY <3>4
    <3>2. item[p][Head(rq[p]).sock].key \in Nat
      BY <3>1 DEF Connection
    <3>3. c.type \in {"FILE_READY", "ACK"}
      BY <2>3
    <3> QED BY <2>3, <3>2, <3>3 DEF Cell, DataType
  <2>5. \/ ReplyOk(p, Head(rq[p]).sock, c)
        \/ SendMessageFails(p, Head(rq[p]).sock) \/ UNCHANGED wire
    BY <1>7, <2>3 DEF HandleData
  <2> QED BY <1>1, <1>2, <2>1, <2>2, <2>4, <2>5
<1>8. CASE RecordStatus(p)
  <2>1. UNCHANGED <<wire, rq, spent>>
    BY <1>8 DEF RecordStatus
  <2>2. Moves(p, 0)
    <3>1. CASE rd[p].status = 1
      <4>1. Updated(p)[p] \in [Sock -> Connection]
        BY UpdatedType
      <4>2. TryResend(p, Updated(p)[p])
        BY <1>8, <3>1 DEF RecordStatus
      <4> QED BY <2>1, <4>1, <4>2, TryResendMoves
    <3>2. CASE rd[p].status # 1
      <4>1. UNCHANGED <<sq, failed>>
        BY <1>8, <3>2 DEF RecordStatus
      <4> QED BY <2>1, <4>1, SameQueues
    <3> QED BY <3>1, <3>2
  <2> QED BY <2>1, <2>2, SameWires, QuietCounts, SpentText
<1> QED BY <1>3, <1>4, <1>5, <1>6, <1>7, <1>8 DEF ReaderStep

(* The Writer: a text leaves sendQueue for the wire, or for failedQueue. *)
LEMMA WriterCounts ==
  ASSUME TypeOK, TypeOK', FiniteWires, NEW p \in Peer, WriterStep(p)
  PROVE  Counts
<1> DEFINE m == Head(sq[p])
<1>1. sq[p] \in Seq(Message) /\ sq[p] # <<>> /\ sq' = [sq EXCEPT ![p] = Tail(sq[p])]
  BY DEF WriterStep, WriteCell, WriteFails, TypeOK
<1>2. m \in Message
  BY <1>1
<1>3. TextsIn(sq'[p]) <= TextsIn(sq[p]) + (0 - One(m))
  <2>1. sq'[p] = Tail(sq[p])
    BY <1>1 DEF TypeOK
  <2>2. TextsIn(sq[p]) = TextsIn(Tail(sq[p])) + One(m)
    BY <1>1, TextsTail
  <2> QED BY <2>1, <2>2, WaitingNat, WaitingNatNext DEF One
<1>4. One(m) \in Nat
  BY DEF One
<1>5. UNCHANGED <<rq, spent>>
  BY DEF WriterStep, WriteCell, WriteFails
<1>6. TextsIn(rq'[p]) <= TextsIn(rq[p]) + 0 /\ \A q \in Peer : q # p => sq'[q] = sq[q]
  <2>1. TextsIn(rq[p]) \in Nat /\ rq' = rq
    BY <1>5, WaitingNat
  <2>2. \A q \in Peer : q # p => sq'[q] = sq[q]
    BY <1>1 DEF TypeOK
  <2> QED BY <2>1, <2>2
<1> HIDE DEF m
<1>7. spent.text \in Nat /\ spent'.text = spent.text
  BY <1>5, SpentText
<1>8. CASE WriteCell(p)
  <2>1. m.sock \in Sock /\ ToCell(m) \in Cell /\ One(ToCell(m)) = One(m)
    BY <1>2, CellTypes DEF One, ToCell
  <2>2. SendMessage(p, m.sock, ToCell(m)) /\ UNCHANGED failed
    BY <1>8 DEF WriteCell, m
  <2>3. WireMoves(p, 0, One(m))
    BY <2>1, <2>2, SentWire
  <2>4. failed'[p] <= failed[p] + 0
    BY <2>2, WaitingNat
  <2>5. (0 - One(m)) \in Int
    BY <1>4
  <2>6. Moves(p, (0 - One(m)) + 0 + 0)
    <3>1. QueuesGrow(p, 0 - One(m), 0, 0)
      BY <1>3, <1>5, <1>6, <2>2, <2>4 DEF QueuesGrow
    <3> QED BY <2>5, <3>1, QueuesMove
  <2>7. (0 - One(m)) + 0 + 0 \in Int /\ (0 - One(m)) + 0 + 0 + 0 + One(m) <= spent'.text - spent.text
    BY <1>4, <1>7
  <2> QED BY <1>4, <2>3, <2>6, <2>7, BothCount
<1>9. CASE WriteFails(p)
  <2>1. failed' = IF m.type = "DATA_MESSAGE" THEN [failed EXCEPT ![p] = failed[p] + 1] ELSE failed
    BY <1>9 DEF WriteFails, m
  <2>2. failed'[p] <= failed[p] + One(m) /\ \A q \in Peer : q # p => failed'[q] = failed[q]
    <3>1. failed \in [Peer -> Nat]
      BY DEF TypeOK
    <3> QED BY <2>1, <3>1 DEF One
  <2>3. (0 - One(m)) \in Int /\ (0 - One(m)) + 0 + One(m) = 0
    BY <1>4
  <2>4. Moves(p, 0)
    <3>1. QueuesGrow(p, 0 - One(m), 0, One(m))
      BY <1>3, <1>5, <1>6, <2>2 DEF QueuesGrow
    <3>2. Moves(p, (0 - One(m)) + 0 + One(m))
      BY <1>4, <2>3, <3>1, QueuesMove
    <3> QED BY <2>3, <3>2
  <2>5. UNCHANGED wire
    BY <1>9 DEF WriteFails
  <2> QED BY <1>5, <2>4, <2>5, SameWires, QuietCounts, SpentText
<1> QED BY <1>8, <1>9 DEF WriterStep

(* Neither the queues nor the wires change. *)
LEMMA StillCounts ==
  ASSUME TypeOK, TypeOK', FiniteWires, NEW p \in Peer, UNCHANGED <<sq, rq, failed, wire>>,
         spent.text <= spent'.text
  PROVE  Counts
<1>1. Moves(p, 0) /\ WireMoves(p, 0, 0)
  BY SameQueues, SameWires
<1> QED BY <1>1, QuietCounts

(* What a step of the user or of the network uses up is never a text given back. *)
LEMMA SpendGrows ==
  ASSUME TypeOK, NEW what \in DOMAIN Bounds, Spend(what)
  PROVE  spent.text <= spent'.text
BY SpentText

(* The chat screen handshakes, or hands its failed texts to the offline server. *)
LEMMA ScreenCounts ==
  ASSUME TypeOK, TypeOK', FiniteWires, NEW p \in Peer, ScreenStep(p)
  PROVE  Counts
<1>1. UNCHANGED <<sq, rq, spent>>
  BY DEF ScreenStep, HandleSuccess, HandleFail, HandleOnline
<1>2. spent.text <= spent'.text
  BY <1>1, SpentText
<1>3. CASE HandleSuccess(p)
  <2> DEFINE s == ConnOf(item[p], table[p], TEXT)
             c == [type |-> "REQUEST", key |-> NoKey]
  <2>1. UNCHANGED failed
    BY <1>3 DEF HandleSuccess
  <2>2. c \in Cell /\ c.type # "DATA_MESSAGE"
    BY CellTypes DEF HandShakeType
  <2>3. CASE HasConn(item[p], table[p], TEXT) /\ ~UNCHANGED wire
    <3>1. s \in Sock
      <4>1. table[p] \in Seq(Sock)
        BY DEF TypeOK
      <4> QED BY <2>3, <4>1, PickInTable, RangeInType
    <3>2. SendMessage(p, s, c) \/ SendMessageFails(p, s)
      BY <1>3, <2>3 DEF HandleSuccess, StartTransport, StartTransportFails
    <3> HIDE DEF s, c
    <3> QED BY <1>1, <1>2, <2>1, <2>2, <3>1, <3>2, AnswerWire, SameQueues, QuietCounts
  <2>4. CASE UNCHANGED wire
    BY <1>1, <1>2, <2>1, <2>4, StillCounts
  <2>5. HasConn(item[p], table[p], TEXT) \/ UNCHANGED wire
    BY <1>3 DEF HandleSuccess
  <2> QED BY <2>3, <2>4, <2>5
<1>4. CASE HandleFail(p)
  <2>1. UNCHANGED wire /\ failed' = [failed EXCEPT ![p] = 0]
    BY <1>4 DEF HandleFail
  <2>2. failed'[p] <= failed[p] + 0 /\ \A q \in Peer : q # p => failed'[q] = failed[q]
    BY <2>1 DEF TypeOK
  <2>3. /\ TextsIn(sq'[p]) <= TextsIn(sq[p]) + 0 /\ TextsIn(rq'[p]) <= TextsIn(rq[p]) + 0
    BY <1>1, WaitingNat
  <2>4. Moves(p, 0 + 0 + 0)
    <3>1. QueuesGrow(p, 0, 0, 0)
      BY <1>1, <2>2, <2>3 DEF QueuesGrow
    <3> QED BY <3>1, QueuesMove
  <2> QED BY <1>2, <2>1, <2>4, SameWires, QuietCounts
<1>5. CASE HandleOnline(p)
  BY <1>1, <1>2, <1>5, StillCounts DEF HandleOnline
<1> QED BY <1>3, <1>4, <1>5 DEF ScreenStep

(* A connection that opens, or does not, carries no text yet. *)
LEMMA OpeningCounts ==
  ASSUME TypeOK, TypeOK', FiniteWires, NEW p \in Peer, OpeningStep(p)
  PROVE  Counts
<1>1. UNCHANGED <<sq, rq, failed, wire, spent>>
  BY DEF OpeningStep, CreateConnectionOk, CreateConnectionFails
<1> QED BY <1>1, StillCounts, SpentText

(* The user: a text sent is one text more. *)
LEMMA UserCounts ==
  ASSUME TypeOK, TypeOK', FiniteWires, NEW p \in Peer, UserStep(p)
  PROVE  Counts
<1>1. UNCHANGED <<rq, failed, wire>>
  BY DEF UserStep, OpenChat, CloseChat, ContactReported, SendText, SendFile
<1>2. CASE UNCHANGED sq
  <2>1. UNCHANGED spent \/ \E what \in DOMAIN Bounds : Spend(what)
    BY BoundNames DEF UserStep, OpenChat, CloseChat, ContactReported, SendText, SendFile
  <2>2. spent.text <= spent'.text
    BY <2>1, SpentText, SpendGrows
  <2> QED BY <1>1, <1>2, <2>2, StillCounts
<1>3. ASSUME NEW m \in Message, sq' = [sq EXCEPT ![p] = Append(@, m)],
             spent'.text = spent.text + One(m)
      PROVE  Counts
  <2>1. sq[p] \in Seq(Message)
    BY DEF TypeOK
  <2>2. TextsIn(Append(sq[p], m)) = TextsIn(sq[p]) + One(m)
    BY <2>1, TextsAppend
  <2>3. sq'[p] = Append(sq[p], m) /\ \A q \in Peer : q # p => sq'[q] = sq[q]
    BY <1>3 DEF TypeOK
  <2>4. PICK n \in Nat : n = One(m)
    BY DEF One
  <2>5. /\ TextsIn(sq'[p]) <= TextsIn(sq[p]) + n /\ TextsIn(rq'[p]) <= TextsIn(rq[p]) + 0
        /\ failed'[p] <= failed[p] + 0
    BY <1>1, <2>2, <2>3, <2>4, WaitingNat
  <2>6. Moves(p, n + 0 + 0)
    <3>1. QueuesGrow(p, n, 0, 0)
      BY <1>1, <2>3, <2>5 DEF QueuesGrow
    <3> QED BY <3>1, QueuesMove
  <2>7. n + 0 + 0 \in Int /\ n + 0 + 0 + 0 + 0 <= spent'.text - spent.text
    BY <1>3, <2>4, SpentText
  <2> QED BY <1>1, <2>6, <2>7, SameWires, BothCount
<1>4. ASSUME NEW u \in Purpose, HasConn(item[p], table[p], u)
      PROVE  /\ ConnOf(item[p], table[p], u) \in Sock
             /\ item[p][ConnOf(item[p], table[p], u)].key \in Nat
  <2>1. table[p] \in Seq(Sock)
    BY DEF TypeOK
  <2>2. ConnOf(item[p], table[p], u) \in Sock
    BY <1>4, <2>1, PickInTable, RangeInType
  <2>3. item[p][ConnOf(item[p], table[p], u)] \in Connection
    BY <2>2 DEF TypeOK
  <2> QED BY <2>2, <2>3 DEF Connection
<1>5. CASE SendText(p) /\ ~UNCHANGED sq
  <2>1. PICK m : m = [sock |-> ConnOf(item[p], table[p], TEXT), type |-> "DATA_MESSAGE",
                      key |-> item[p][ConnOf(item[p], table[p], TEXT)].key]
    OBVIOUS
  <2>2. HasConn(item[p], table[p], TEXT) /\ sq' = [sq EXCEPT ![p] = Append(@, m)]
    BY <1>5, <2>1 DEF SendText
  <2>3. m \in Message
    BY <1>4, <2>1, <2>2 DEF Message, DataType, Purpose
  <2>4. spent'.text = spent.text + 1 /\ One(m) = 1
    <3>1. Spend("text")
      BY <1>5 DEF SendText
    <3> QED BY <2>1, <3>1, SpentText, BoundNames DEF One
  <2> QED BY <1>3, <2>2, <2>3, <2>4
<1>6. CASE SendFile(p) /\ ~UNCHANGED sq
  <2>1. PICK u, m : /\ u = IF HasConn(item[p], table[p], FILE) THEN FILE ELSE TEXT
                    /\ m = [sock |-> ConnOf(item[p], table[p], u), type |-> "FILE_META",
                            key |-> item[p][ConnOf(item[p], table[p], u)].key]
    OBVIOUS
  <2>2. HasConn(item[p], table[p], u) /\ sq' = [sq EXCEPT ![p] = Append(@, m)]
    BY <1>6, <2>1 DEF SendFile
  <2>3. u \in Purpose
    BY <2>1 DEF Purpose
  <2>4. m \in Message
    BY <1>4, <2>1, <2>2, <2>3 DEF Message, DataType
  <2>5. spent'.text = spent.text + 0 /\ One(m) = 0
    <3>1. Spend("file")
      BY <1>6 DEF SendFile
    <3> QED BY <2>1, <3>1, SpentText, BoundNames DEF One
  <2> QED BY <1>3, <2>2, <2>4, <2>5
<1>7. UNCHANGED sq \/ SendText(p) \/ SendFile(p)
  BY DEF UserStep, OpenChat, CloseChat, ContactReported
<1> QED BY <1>2, <1>5, <1>6, <1>7

(* The network comes back: a handshake, and the failed texts again. *)
LEMMA NetCounts ==
  ASSUME TypeOK, TypeOK', FiniteWires, NEW p \in Peer, NetStep(p)
  PROVE  Counts
<1>1. CASE NetworkUpFails(p)
  <2>1. spent.text <= spent'.text
    BY <1>1, SpendGrows, BoundNames DEF NetworkUpFails
  <2> QED BY <1>1, <2>1, StillCounts DEF NetworkUpFails
<1>2. CASE TryResendAll(p)
  <2>1. UNCHANGED <<wire, rq, spent>> /\ TryResend(p, item[p])
    BY <1>2 DEF TryResendAll
  <2>2. item[p] \in [Sock -> Connection]
    BY DEF TypeOK
  <2> QED BY <2>1, <2>2, TryResendMoves, SameWires, QuietCounts, SpentText
<1>3. ASSUME NEW s \in Sock, NetworkUpOk(p, s) PROVE Counts
  <2>1. UNCHANGED <<rq, sq, failed>> /\ Spend("net")
    BY <1>3 DEF NetworkUpOk
  <2>2. spent.text <= spent'.text
    BY <2>1, SpendGrows, BoundNames
  <2>3. CASE UNCHANGED wire
    BY <2>1, <2>2, <2>3, StillCounts
  <2>4. CASE ~UNCHANGED wire
    <3>1. PICK socks, its : /\ socks = AddNewConn(table[p], s)
                            /\ its = [item[p] EXCEPT ![s] = NewConnection(TEXT)]
      OBVIOUS
    <3>2. PICK t, c : t = ConnOf(its, socks, TEXT) /\ c = [type |-> "REQUEST", key |-> NoKey]
      OBVIOUS
    <3>3. HasConn(its, socks, TEXT) /\ wire' = [wire EXCEPT ![Other(p)][t] = Append(@, c)]
      BY <1>3, <2>4, <3>1, <3>2 DEF NetworkUpOk
    <3>4. socks \in Seq(Sock)
      <4>1. table[p] \in Seq(Sock)
        BY DEF TypeOK
      <4> QED BY <3>1, <4>1, RangeOfAppend DEF AddNewConn
    <3>5. t \in Sock
      BY <3>2, <3>3, <3>4, PickInTable, RangeInType
    <3>6. c \in Cell /\ One(c) = 0
      BY <3>2, CellTypes DEF HandShakeType, One
    <3> QED BY <2>1, <2>2, <3>3, <3>5, <3>6, LongerWire, SameQueues, QuietCounts
  <2> QED BY <2>3, <2>4
<1> QED BY <1>1, <1>2, <1>3 DEF NetStep

(* A cell read goes to recieveQueue, or is skipped. *)
LEMMA CellRead ==
  ASSUME TypeOK, TypeOK', FiniteWires, NEW p \in Peer, NEW s \in Sock, HasCell(p, s),
         wire' = [wire EXCEPT ![p][s] = Tail(@)],
         \/ rq' = [rq EXCEPT ![p] = Append(@, ToMessage(s, Head(wire[p][s])))]
         \/ UNCHANGED rq,
         UNCHANGED <<sq, failed, spent>>
  PROVE  Counts
<1>1. Head(wire[p][s]) \in Cell
  BY ReadEffect
<1>2. PICK c, m : c = Head(wire[p][s]) /\ m = ToMessage(s, c)
  OBVIOUS
<1>3. m \in Message /\ One(m) = One(c) /\ One(c) \in Nat
  BY <1>1, <1>2, CellTypes DEF One, ToMessage
<1>4. PICK n \in Nat, o \in Int : n = One(c) /\ o = 0 - One(c)
  BY <1>3
<1>5. WireMoves(p, o, 0)
  BY <1>2, <1>4, ReadWire
<1>6. TextsIn(rq'[p]) <= TextsIn(rq[p]) + n /\ \A q \in Peer : q # p => rq'[q] = rq[q]
  <2>1. CASE rq' = [rq EXCEPT ![p] = Append(@, m)]
    <3>1. rq[p] \in Seq(Message)
      BY DEF TypeOK
    <3>2. TextsIn(Append(rq[p], m)) = TextsIn(rq[p]) + One(m)
      BY <1>3, <3>1, TextsAppend
    <3>3. rq'[p] = Append(rq[p], m) /\ \A q \in Peer : q # p => rq'[q] = rq[q]
      BY <2>1 DEF TypeOK
    <3> QED BY <1>3, <1>4, <3>2, <3>3, WaitingNat
  <2>2. CASE UNCHANGED rq
    BY <1>4, <2>2, WaitingNat
  <2> QED BY <1>2, <2>1, <2>2
<1>7. TextsIn(sq'[p]) <= TextsIn(sq[p]) + 0 /\ failed'[p] <= failed[p] + 0
  BY WaitingNat
<1>8. QueuesGrow(p, 0, n, 0)
  BY <1>6, <1>7 DEF QueuesGrow
<1>9. Moves(p, 0 + n + 0)
  <2>1. 0 \in Int /\ n \in Int
    OBVIOUS
  <2> QED BY <1>8, <2>1, QueuesMove, Zenon
<1>10. 0 + n + 0 \in Int /\ 0 + n + 0 + o + 0 <= spent'.text - spent.text
  <2>1. spent'.text = spent.text /\ spent.text \in Nat
    BY SpentText
  <2>2. 0 + n + 0 + o + 0 = 0
    BY <1>3, <1>4
  <2>3. spent'.text - spent.text = 0
    BY <2>1
  <2>4. 0 + n + 0 \in Int
    OBVIOUS
  <2>5. 0 + n + 0 + o + 0 <= spent'.text - spent.text
    <3>1. PICK x, y : x = 0 + n + 0 + o + 0 /\ y = spent'.text - spent.text
      OBVIOUS
    <3>2. x <= y
      <4>1. x = 0
        BY <2>2, <3>1, Zenon
      <4>2. y = 0
        BY <2>3, <3>1, Zenon
      <4> QED BY <4>1, <4>2
    <3> QED BY <3>1, <3>2, Zenon
  <2> QED BY <2>4, <2>5
<1> QED BY <1>5, <1>9, <1>10, BothCount

(* The threads that read a socket. *)
LEMMA SocketCounts ==
  ASSUME TypeOK, TypeOK', FiniteWires, NEW p \in Peer, NEW s \in Sock, SocketStep(p, s)
  PROVE  Counts
<1>1. CASE HandlerAccept(p, s)
  BY <1>1, CellRead DEF HandlerAccept
<1>2. CASE ReadCell(p, s)
  BY <1>2, CellRead DEF ReadCell
<1>3. CASE HandlerStops(p, s) \/ TransportStops(p, s)
  <2>1. Close(p, s) /\ UNCHANGED <<sq, rq, failed, spent>>
    BY <1>3 DEF HandlerStops, TransportStops
  <2>2. WireMoves(p, 0, 0)
    BY <2>1, EmptiedWire DEF Close
  <2> QED BY <2>1, <2>2, SameQueues, QuietCounts, SpentText
<1> QED BY <1>1, <1>2, <1>3 DEF SocketStep

(* A circuit that breaks: what was on its way, both ways, is lost. *)
LEMMA CutCounts ==
  ASSUME TypeOK, TypeOK', FiniteWires, NEW s \in Sock, CutCircuit(s)
  PROVE  Counts
<1>1. ASSUME NEW q \in Peer
      PROVE  IsFiniteSet(TextsOn(wire'[q])) /\ OnWire(q)' <= OnWire(q)
  <2>1. wire'[q] = [wire[q] EXCEPT ![s] = <<>>]
    BY DEF CutCircuit
  <2>2. wire[q] \in [Sock -> Seq(Cell)] /\ <<>> \in Seq(Cell) /\ wire[q][s] \in Seq(Cell)
    BY DEF TypeOK
  <2>3. /\ IsFiniteSet(TextsOn(wire'[q]))
        /\ Cardinality(TextsOn(wire'[q]))
             = Cardinality(TextsOn(wire[q])) - TextsIn(wire[q][s]) + 0
    <3>1. IsFiniteSet(TextsOn(wire[q]))
      BY DEF FiniteWires
    <3>2. PICK V : V = wire'[q]
      OBVIOUS
    <3>3. V = [wire[q] EXCEPT ![s] = <<>>]
      BY <2>1, <3>2
    <3>4. /\ IsFiniteSet(TextsOn(V))
          /\ Cardinality(TextsOn(V))
               = Cardinality(TextsOn(wire[q])) - TextsIn(wire[q][s]) + TextsIn(<<>>)
      BY <2>2, <3>1, <3>3, OneWireCounts
    <3> QED BY <3>2, <3>4, NoTexts
  <2>4. TextsIn(wire[q][s]) \in Nat /\ OnWire(q) \in Nat
    BY <2>2, TextsFinite, OnWireNat
  <2> QED BY <2>3, <2>4 DEF OnWire
<1>2. FiniteWires'
  BY <1>1 DEF FiniteWires
<1>3. A \in Peer /\ Other(A) \in Peer
  BY OtherPeer DEF Peer
<1>4. WireMoves(A, 0, 0)
  BY <1>1, <1>2, <1>3, OnWireNat DEF WireMoves
<1>5. spent.text <= spent'.text
  BY SpendGrows, BoundNames DEF CutCircuit
<1>6. Moves(A, 0)
  BY <1>3, SameQueues DEF CutCircuit
<1> QED BY <1>3, <1>4, <1>5, <1>6, QuietCounts

(* Every step. *)
LEMMA EveryStepCounts == TypeOK /\ FiniteWires /\ [Next]_vars => Counts
<1> SUFFICES ASSUME TypeOK, FiniteWires, [Next]_vars PROVE Counts
  OBVIOUS
<1>1. TypeOK'
  BY TypeStep
<1>2. CASE UNCHANGED vars
  <2>1. A \in Peer
    BY DEF Peer
  <2>2. UNCHANGED <<sq, rq, failed, wire, spent>>
    BY <1>2 DEF vars
  <2> QED BY <1>1, <2>1, <2>2, StillCounts, SpentText
<1> QED BY <1>1, <1>2, ReaderCounts, WriterCounts, ScreenCounts, OpeningCounts, UserCounts,
           NetCounts, SocketCounts, CutCounts DEF Next

(* No text at the start. *)
LEMMA NoTextAtFirst == Init => FiniteWires /\ TextsNeverMultiply
<1> SUFFICES ASSUME Init PROVE FiniteWires /\ TextsNeverMultiply
  OBVIOUS
<1>1. Texts(<<>>) = {}
  <2>1. DOMAIN <<>> = {}
    OBVIOUS
  <2> QED BY <2>1 DEF Texts
<1>2. ASSUME NEW q \in Peer PROVE TextsOn(wire[q]) = {}
  <2>1. \A s \in Sock : wire[q][s] = <<>>
    BY DEF Init
  <2> QED BY <1>1, <2>1 DEF TextsOn
<1>3. FiniteWires /\ \A q \in Peer : OnWire(q) = 0
  BY <1>2, FS_EmptySet DEF FiniteWires, OnWire
<1>4. \A q \in Peer : Waiting(q) = 0
  BY NoTexts DEF Init, Waiting
<1>5. spent.text = 0
  BY BoundNames DEF Init
<1> QED BY <1>3, <1>4, <1>5 DEF TextsNeverMultiply, Peer

(* Texts never multiply. *)
LEMMA TextsStep ==
  TypeOK /\ FiniteWires /\ TextsNeverMultiply /\ [Next]_vars
    => FiniteWires' /\ TextsNeverMultiply'
<1> SUFFICES ASSUME TypeOK, FiniteWires, TextsNeverMultiply, [Next]_vars
             PROVE  FiniteWires' /\ TextsNeverMultiply'
  OBVIOUS
<1>1. TypeOK' /\ Counts
  BY TypeStep, EveryStepCounts
<1>2. A \in Peer /\ B \in Peer
  BY DEF Peer
<1>3. Total \in Nat /\ Total' \in Nat
  <2>1. Waiting(A) \in Nat /\ Waiting(B) \in Nat /\ OnWire(A) \in Nat /\ OnWire(B) \in Nat
    BY <1>2, WaitingNat, OnWireNat
  <2>2. Waiting(A)' \in Nat /\ Waiting(B)' \in Nat /\ OnWire(A)' \in Nat /\ OnWire(B)' \in Nat
    BY <1>1, <1>2, WaitingNatNext, OnWireNat DEF Counts
  <2> QED BY <2>1, <2>2 DEF Total
<1>4. spent.text \in Nat /\ spent'.text \in Nat
  BY <1>1, BoundNames DEF TypeOK
<1>5. Total <= spent.text
  BY DEF Total, TextsNeverMultiply
<1>6. Total' <= spent'.text
  BY <1>1, <1>3, <1>4, <1>5 DEF Counts
<1> QED BY <1>1, <1>6 DEF Counts, Total, TextsNeverMultiply

(* However often texts are sent again, whatever breaks meanwhile: there are never      *)
(* more of them in the queues and on the wires than the users sent, for any sockets    *)
(* and any bounds (ServerMessageHandler.tryResend and the Writer's reput).              *)
THEOREM NoTextTwice == Spec => []TextsNeverMultiply
BY NoTextAtFirst, TextsStep, TypeCorrect, PTL DEF Spec

=============================================================================
