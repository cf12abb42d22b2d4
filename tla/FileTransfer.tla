---------------------------- MODULE FileTransfer ----------------------------
(***************************************************************************)
(* Files between two devices (the file handlers of ServerMessageHandler,     *)
(* tor/util/FileTask.java): a file is announced (META), the receiver makes a  *)
(* task for it and answers READY, the sender queues every piece (DATA), each  *)
(* piece is acknowledged (ACK), and when the receiver has as many pieces as   *)
(* the file it puts the file together and says DONE.  When a connection has   *)
(* been established again, tryResend goes through the tasks of the device.     *)
(*                                                                         *)
(* Connections are what Session leaves of them: a socket is established at    *)
(* each end at its own time, if at all, breaks at any time, and is deleted by  *)
(* whichever thread notices.  Every connection in a table here has its key.    *)
(* A cell that is read while its end is at status 0 ends the connection: before *)
(* the end of the handshake is recorded, and on a Crossed socket also after it. *)
(* A Crossed socket may have two reading threads, which tear cells.            *)
(*                                                                         *)
(* A piece has a number from 1 to the size of its file.  Its content is the   *)
(* number of the transfer it belongs to; a hash compares contents.            *)
(*                                                                         *)
(* Four operators are variants with a slip a change of the code could make,    *)
(* each before the operator it varies: EveryPieceButLast, ResendFromMeta,       *)
(* HandlePieceAnyway and HandleAckUpTo.  The specification      *)
(* uses none of them: they show that the properties can be broken.              *)
(***************************************************************************)
EXTENDS ConnectionItems

CONSTANTS A, B,        \* the two devices
          Nobody,      \* no socket
          Sock,        \* the sockets the two may establish
          Crossed,     \* the sockets with a second handshake: an end may be at status 0 again
          Names,       \* the names files have
          Sizes,       \* the numbers of pieces files have
          Offline,     \* files may be announced without a connection
          ReuseNames,  \* a name may be used for a second file
          MaxSend,     \* bound: files announced
          MaxCut,      \* bound: circuits that break
          MaxNet       \* bound: resendings by the status checker or after a second handshake

ASSUME DevicesDiffer  == A # B
ASSUME CrossedAreSock == Crossed \subseteq Sock
ASSUME SizesAreNat    == Sizes \subseteq Nat
ASSUME ChoicesAreBool == {Offline, ReuseNames} \subseteq BOOLEAN
ASSUME LimitsAreNat   == {MaxSend, MaxCut, MaxNet} \subseteq Nat

Peer == {A, B}
Other(p) == IF p = A THEN B ELSE A

VARIABLES
  sent,      \* history: the files announced, numbered in order
  pending,   \* pending[p]: the task handleFileMessageSend has yet to register
  task,      \* senderFileMap: p's tasks by file name, sent and received
  disk,      \* disk[p][name]: the file in the directory of received files
  table,     \* p's established connections, in the order of the list
  ever,      \* the sockets whose handshake ended at p
  filed,     \* those marked SOCKET_PURPOSE_FILE
  reading,   \* those a thread of p reads
  closed,    \* those whose end p closed
  cut,       \* the sockets whose circuit broke
  wire,      \* wire[p][s]: cells on their way to p's Reader
  sq,        \* sendQueue
  walk,      \* walk[p][thread]: a tryResend in progress
  merged,    \* history: the transfers put together by their receiver
  finished,  \* history: the transfers whose sender has seen DONE
  net        \* resendings so far that MaxNet bounds

connVars == <<table, ever, filed, reading, closed, cut>>
taskVars == <<sent, pending, task, disk, merged, finished>>
vars == <<taskVars, connVars, wire, sq, walk, net>>

-----------------------------------------------------------------------------
(* Tasks, cells and queue entries *)

Transfer == DOMAIN sent
Put(map, key, value) ==
  [k \in DOMAIN map \cup {key} |-> IF k = key THEN value ELSE map[k]]
Without(map, key) == [k \in DOMAIN map \ {key} |-> map[k]]

(* FileTask: direction, the transfer it is for, status (0 stopped, 1            *)
(* transferring, 4 not started; 2 and 3 are set and never looked at),           *)
(* fileTransferStatusMap and filePieceContentMap.                               *)
SendTask(t, size, status) ==
  [way |-> "send", of |-> t, status |-> status, done |-> {},
   content |-> [i \in 1 .. size |-> t]]
ReceiveTask(t) ==
  [way |-> "receive", of |-> t, status |-> 0, done |-> {}, content |-> <<>>]
Size(tk) == sent[tk.of].size

(* deleteConnection of a connection marked for files stops every task. *)
Stopped(tasks) == [n \in DOMAIN tasks |-> [tasks[n] EXCEPT !.status = 0]]

(* A cell.  META says which transfer it announces, DATA which piece of which.    *)
Cell(type, name, piece, of) ==
  [type |-> type, name |-> name, piece |-> piece, of |-> of]

(* An entry of sendQueue; a run of pieces queued together is one entry, whose    *)
(* pieces the Writer takes in ascending order.                                  *)
Entry(s, type, name, of, pieces) ==
  [sock |-> s, type |-> type, name |-> name, of |-> of, pieces |-> pieces]
MetaEntry(s, name, t) == Entry(s, "META", name, t, <<>>)
DataEntries(s, name, pieces) ==
  IF DOMAIN pieces = {} THEN <<>> ELSE <<Entry(s, "DATA", name, 0, pieces)>>

(* resend: the pieces not yet acknowledged. *)
Unacked(tk) ==
  [i \in ((1 .. Size(tk)) \ tk.done) \cap DOMAIN tk.content |-> tk.content[i]]

(* sendFileShards: every piece, as far as there is content.                      *)
EveryPieceButLast(tk) ==
  [i \in {k \in 1 .. Size(tk) - 1 : 1 .. k \subseteq DOMAIN tk.content} |-> tk.content[i]]
EveryPiece(tk) ==
  [i \in {k \in 1 .. Size(tk) : 1 .. k \subseteq DOMAIN tk.content} |-> tk.content[i]]

-----------------------------------------------------------------------------
(* Connections *)

InTable(p, s) == s \in Range(table[p])
Deleted(p, s) == s \in ever[p] /\ ~InTable(p, s)
Gone(p, s)    == s \in cut \/ s \in closed[A] \/ s \in closed[B]

(* getConnectionStatusItemByOnionName for files in a list of connections. *)
PickIn(socks, marked) ==
  GetConnByPurpose([i \in DOMAIN socks |->
                      [purpose |-> IF socks[i] \in marked THEN FILE ELSE TEXT,
                       status |-> 1, key |-> 1]], FILE)
FileConn(p, socks) == socks[PickIn(socks, filed[p])]

(* The wires when p has taken the head of its wire s, and when p then wrote      *)
(* cells to s: a dead or deleted other end gets nothing.                         *)
Taken(p, s) == [wire EXCEPT ![p][s] = Tail(@)]
Wrote(w, p, s, cells) ==
  IF Gone(p, s) \/ Deleted(Other(p), s) THEN w
                                        ELSE [w EXCEPT ![Other(p)][s] = @ \o cells]

(* deleteConnection: cells received on a connection that is not in the list any   *)
(* more are dropped.  The new connection it may open is an Establish; it is opened  *)
(* for files if the one deleted was for files.                                    *)
Delete(p, s, w) ==
  /\ table' = [table EXCEPT ![p] = RemoveConnBySocket(@, s)]
  /\ wire' = [w EXCEPT ![p][s] = <<>>]
MayBeForFiles(p) == \E s \in filed[p] : Deleted(p, s)

(* The Reader answers the cell at the head of wire s; a failure, perhaps after some  *)
(* cells went out before the circuit broke, closes the socket and deletes the         *)
(* connection.                                                                      *)
Reply(p, s, cells) ==
  /\ s \notin closed[p]
  /\ wire' = Wrote(Taken(p, s), p, s, cells)
  /\ UNCHANGED <<table, closed>>
ReplyFailsAfter(p, s, cells) ==
  /\ Gone(p, s)
  /\ closed' = [closed EXCEPT ![p] = @ \cup {s}]
  /\ Delete(p, s, IF Deleted(Other(p), s)
                  THEN wire ELSE [wire EXCEPT ![Other(p)][s] = @ \o cells])
ReplyFails(p, s) == ReplyFailsAfter(p, s, <<>>)

(* tryResend begins: the connection for files is picked once.  (The map of tasks   *)
(* is iterated while other threads change it: a name whose task is added            *)
(* meanwhile may or may not be seen.)                                              *)
NoWalk == [sock |-> Nobody, todo |-> {}]
Walking(p, thread) == walk[p][thread].todo # {}
StartWalk(p, thread, s) ==
  walk' = [walk EXCEPT ![p][thread] = [sock |-> s, todo |-> Names]]
Walked(p, thread, n) ==
  walk' = [walk EXCEPT ![p][thread] =
             IF @.todo = {n} THEN NoWalk ELSE [sock |-> @.sock, todo |-> @.todo \ {n}]]

-----------------------------------------------------------------------------
(* Announcing a file, connections                                            *)

Thread == {"Reader", "Status"}

Init ==
  /\ sent = <<>>
  /\ pending = [p \in Peer |-> <<>>]
  /\ task = [p \in Peer |-> <<>>]
  /\ disk = [p \in Peer |-> <<>>]
  /\ table = [p \in Peer |-> <<>>]
  /\ ever = [p \in Peer |-> {}]
  /\ filed = [p \in Peer |-> {}]
  /\ reading = [p \in Peer |-> {}]
  /\ closed = [p \in Peer |-> {}]
  /\ cut = {}
  /\ wire = [p \in Peer |-> [s \in Sock |-> <<>>]]
  /\ sq = [p \in Peer |-> <<>>]
  /\ walk = [p \in Peer |-> [thread \in Thread |-> NoWalk]]
  /\ merged = {}
  /\ finished = {}
  /\ net = 0

(* handleFileMessageSend, handleByteMessageSend: META is queued, and only then is    *)
(* the task put in the map (Register).  Without a connection the file waits.         *)
Announce(p, name, size) ==
  LET t == Len(sent) + 1
  IN  /\ Len(sent) < MaxSend /\ pending[p] = <<>>
      /\ ReuseNames \/ \A u \in Transfer : sent[u].name # name
      /\ sent' = Append(sent, [from |-> p, name |-> name, size |-> size])
      /\ IF table[p] = <<>>
         THEN /\ Offline
              /\ pending' = [pending EXCEPT ![p] = Put(@, name, SendTask(t, size, 4))]
              /\ UNCHANGED sq
         ELSE /\ pending' = [pending EXCEPT ![p] = Put(@, name, SendTask(t, size, 0))]
              /\ sq' = [sq EXCEPT ![p] =
                          Append(@, MetaEntry(FileConn(p, table[p]), name, t))]
      /\ UNCHANGED <<task, disk, merged, finished, connVars, wire, walk, net>>
Register(p) ==
  /\ pending[p] # <<>>
  /\ task' = [task EXCEPT ![p] = [n \in DOMAIN @ \cup DOMAIN pending[p] |->
                IF n \in DOMAIN pending[p] THEN pending[p][n] ELSE @[n]]]
  /\ pending' = [pending EXCEPT ![p] = <<>>]
  /\ UNCHANGED <<sent, disk, merged, finished, connVars, wire, sq, walk, net>>

(* updateSocketStatus at the end of a handshake: p's end of s is established, and     *)
(* the Reader goes through the tasks.  The list is in the order the connections were   *)
(* made, which need not be the order they are established.                            *)
Establish(p, s) ==
  /\ s \notin ever[p] \cup closed[p] /\ ~Walking(p, "Reader")
  /\ s \notin cut \/ s \in ever[Other(p)]
  /\ ever' = [ever EXCEPT ![p] = @ \cup {s}]
  /\ reading' = [reading EXCEPT ![p] = @ \cup {s}]
  /\ \E files \in SUBSET {s} :
       /\ files # {} => MayBeForFiles(p)
       /\ filed' = [filed EXCEPT ![p] = @ \cup files]
       /\ \E i \in 0 .. Len(table[p]) :
            LET socks == SubSeq(table[p], 1, i) \o <<s>> \o SubSeq(table[p], i + 1, Len(table[p]))
            IN  /\ table' = [table EXCEPT ![p] = socks]
                /\ StartWalk(p, "Reader", socks[PickIn(socks, filed[p] \cup files)])
  /\ UNCHANGED <<taskVars, closed, cut, wire, sq, net>>

(* The same for a connection that was deleted meanwhile, or by a second handshake:      *)
(* the Reader goes through the tasks with what the list has.                           *)
RecordAgain(p, s) ==
  /\ s \in Crossed \cup closed[p] /\ s \in ever[p] \cup closed[p]
  /\ net < MaxNet /\ net' = net + 1
  /\ table[p] # <<>> /\ ~Walking(p, "Reader")
  /\ StartWalk(p, "Reader", FileConn(p, table[p]))
  /\ UNCHANGED <<taskVars, connVars, wire, sq>>

(* A reading thread ends: it deletes its connection and closes the socket.  If the     *)
(* connection was marked for files, every task of the contact is stopped.              *)
StopsReading(p, s, forFiles) ==
  /\ task' = IF forFiles THEN [task EXCEPT ![p] = Stopped(@)] ELSE task
  /\ Delete(p, s, wire)
  /\ closed' = [closed EXCEPT ![p] = @ \cup {s}]
  /\ reading' = [reading EXCEPT ![p] = @ \ {s}]
  /\ UNCHANGED <<sent, pending, disk, merged, finished, ever, filed, cut, sq, walk, net>>
ReaderStops(p, s) ==
  /\ s \in reading[p] /\ Gone(p, s)
  /\ StopsReading(p, s, s \in filed[p])

(* A reading thread takes a cell of s while p's end is at status 0, or finds the end   *)
(* of the stream before the handshake ended: the handshake parser throws, and the      *)
(* thread ends.  Nobody need have broken the connection.                               *)
AtStatus0(p, s) == s \notin ever[p] \/ s \in Crossed
ReadsTooSoon(p, s) ==
  /\ s \notin closed[p] /\ s \in ever[Other(p)] /\ AtStatus0(p, s)
  /\ wire[p][s] # <<>> \/ Gone(p, s)
  /\ \E forFiles \in BOOLEAN :
       /\ forFiles => s \in filed[p] \/ (s \notin ever[p] /\ MayBeForFiles(p))
       /\ ~forFiles => s \notin filed[p]
       /\ StopsReading(p, s, forFiles)

(* Two threads of p read a Crossed socket, and each has taken a part of the next cell:  *)
(* it reaches the Reader from neither.                                               *)
ReadsTorn(p, s) ==
  /\ s \in (Crossed \cap ever[p]) \ closed[p] /\ wire[p][s] # <<>>
  /\ wire' = Taken(p, s)
  /\ UNCHANGED <<taskVars, connVars, sq, walk, net>>

CutCircuit(s) ==
  /\ s \in ever[A] \cup ever[B] /\ s \notin cut
  /\ Cardinality(cut) < MaxCut
  /\ cut' = cut \cup {s}
  /\ UNCHANGED <<taskVars, table, ever, filed, reading, closed, wire, sq, walk, net>>

-----------------------------------------------------------------------------
(* The Writer, and resending                                                  *)

(* What is left of sendQueue when piece i of its head, or its head, is taken.    *)
Rest(p, i) ==
  LET e == Head(sq[p])
  IN  IF DOMAIN e.pieces \subseteq {i}
      THEN Tail(sq[p])
      ELSE [sq[p] EXCEPT ![1].pieces = Without(@, i)]

(* The piece of its head the Writer takes next; 0 if the head is not a run of     *)
(* pieces.                                                                       *)
NextPiece(e, i) == IF e.type = "DATA"
                   THEN i \in DOMAIN e.pieces /\ \A j \in DOMAIN e.pieces : i <= j
                   ELSE i = 0

(* A cell is written.  The 2048 zeros queued after each acknowledgement do not      *)
(* decrypt, and the other end skips them.                                         *)
CellsOf(e, i) ==
  CASE e.type = "META" -> <<Cell("META", e.name, 0, e.of)>>
    [] e.type = "DATA" -> <<Cell("DATA", e.name, i, e.pieces[i])>>
    [] OTHER -> <<>>
Write(p) ==
  /\ sq[p] # <<>>
  /\ LET e == Head(sq[p])
     IN  /\ e.sock \notin closed[p]
         /\ \E i \in {0} \cup DOMAIN e.pieces :
              /\ NextPiece(e, i)
              /\ sq' = [sq EXCEPT ![p] = Rest(p, i)]
              /\ wire' = Wrote(wire, p, e.sock, CellsOf(e, i))
  /\ UNCHANGED <<taskVars, connVars, walk, net>>

(* reput: the cell is discarded, its connection deleted. *)
WriteFails(p) ==
  /\ sq[p] # <<>>
  /\ LET e == Head(sq[p])
     IN  /\ Gone(p, e.sock)
         /\ \E i \in {0} \cup DOMAIN e.pieces :
              NextPiece(e, i) /\ sq' = [sq EXCEPT ![p] = Rest(p, i)]
         /\ Delete(p, e.sock, wire)
  /\ UNCHANGED <<taskVars, ever, filed, reading, closed, cut, walk, net>>

(* tryResend for the task of one name.  A file not started is announced again, one   *)
(* being sent continued.  For one being received that was stopped the request to      *)
(* continue cannot be built (it needs a message id no receiving task has): the        *)
(* exception ends the walk.                                                          *)
ResendFromMeta(p, thread, n) ==
  /\ sq' = [sq EXCEPT ![p] = Append(@, MetaEntry(walk[p][thread].sock, n, task[p][n].of))]
  /\ UNCHANGED task
Resend(p, thread, n) ==
  LET tk == task[p][n]
      s  == walk[p][thread].sock
  IN  IF tk.status = 4
      THEN /\ sq' = [sq EXCEPT ![p] = Append(@, MetaEntry(s, n, tk.of))]
           /\ UNCHANGED task
      ELSE /\ sq' = [sq EXCEPT ![p] = @ \o DataEntries(s, n, Unacked(tk))]
           /\ task' = [task EXCEPT ![p][n].status = 1]
WalkStep(p, thread) ==
  /\ \E n \in walk[p][thread].todo :
       CASE n \in DOMAIN task[p] /\ task[p][n].way = "send" ->
              Resend(p, thread, n) /\ Walked(p, thread, n)
         [] n \in DOMAIN task[p] /\ task[p][n].way = "receive" /\ task[p][n].status = 0 ->
              walk' = [walk EXCEPT ![p][thread] = NoWalk] /\ UNCHANGED <<sq, task>>
         [] OTHER -> Walked(p, thread, n) /\ UNCHANGED <<sq, task>>
  /\ UNCHANGED <<sent, pending, disk, merged, finished, connVars, wire, net>>

(* tryResendAll, by the status checker. *)
StatusResend(p) ==
  /\ net < MaxNet /\ net' = net + 1
  /\ table[p] # <<>> /\ ~Walking(p, "Status")
  /\ StartWalk(p, "Status", FileConn(p, table[p]))
  /\ UNCHANGED <<taskVars, connVars, wire, sq>>

-----------------------------------------------------------------------------
(* The Reader: dataMessageHandle                                             *)

(* The Reader takes a cell of this type from s, if it is not in the middle of a     *)
(* walk.                                                                          *)
Takes(p, s, type) ==
  /\ ~Walking(p, "Reader")
  /\ InTable(p, s) /\ wire[p][s] # <<>> /\ Head(wire[p][s]).type = type
Mark(p, s) == filed' = [filed EXCEPT ![p] = @ \cup {s}]
Drop(p, s) == /\ wire' = Taken(p, s)
              /\ UNCHANGED <<task, disk, merged, finished, table, closed, sq>>

(* prepareReceiveFile: READY, and if it went out a new task under the name, in       *)
(* place of any other.                                                             *)
HandleMeta(p, s) ==
  LET c == Head(wire[p][s])
  IN  /\ Takes(p, s, "META")
      /\ Mark(p, s)
      /\ \/ /\ Reply(p, s, <<Cell("READY", c.name, 0, 0)>>)
            /\ task' = [task EXCEPT ![p] = Put(@, c.name, ReceiveTask(c.of))]
         \/ ReplyFails(p, s) /\ UNCHANGED task
      /\ UNCHANGED <<sent, pending, disk, merged, finished, ever, reading, cut, sq, walk,
                     net>>

(* sendFileShards *)
HandleReady(p, s) ==
  LET n == Head(wire[p][s]).name
  IN  /\ Takes(p, s, "READY")
      /\ Mark(p, s)
      /\ IF n \notin DOMAIN task[p]
         THEN Drop(p, s)
         ELSE /\ task' = [task EXCEPT ![p][n].status = 1]
              /\ sq' = [sq EXCEPT ![p] = @ \o DataEntries(s, n, EveryPiece(task[p][n]))]
              /\ wire' = Taken(p, s)
              /\ UNCHANGED <<disk, merged, finished, table, closed>>
      /\ UNCHANGED <<sent, pending, ever, reading, cut, walk, net>>

(* recievePieceData *)
Received(tk, c) ==
  [tk EXCEPT !.status = 1, !.done = @ \cup {c.piece}, !.content = Put(@, c.piece, c.of)]

(* mergeFile writes the pieces it has into the file of that name, which it does not   *)
(* truncate, as far as there is no gap; then it compares the hash.                    *)
MergedInto(file, tk) ==
  LET inOrder == {k \in 1 .. Cardinality(DOMAIN tk.content) : 1 .. k \subseteq DOMAIN tk.content}
  IN  [k \in DOMAIN file \cup inOrder |-> IF k \in inOrder THEN tk.content[k] ELSE file[k]]
Complete(tk) == Cardinality(tk.done) = Size(tk)
FileOf(p, n) == IF n \in DOMAIN disk[p] THEN disk[p][n] ELSE <<>>
Whole(p, n, tk) ==
  /\ Complete(tk)
  /\ DOMAIN tk.content = 1 .. Cardinality(DOMAIN tk.content)
  /\ MergedInto(FileOf(p, n), tk) = [k \in 1 .. Size(tk) |-> tk.of]

(* receiveFileShards, receiveAllFileShards: the piece is stored and acknowledged; if   *)
(* all are there the file is put together; if its hash is right DONE goes out, and if   *)
(* that did too the task is removed.                                                  *)
HandlePieceAnyway(p, s) ==
  LET n == Head(wire[p][s]).name
  IN  /\ Takes(p, s, "DATA")
      /\ n \notin DOMAIN task[p]
      /\ Reply(p, s, <<Cell("DONE", n, 0, 0)>>)
      /\ UNCHANGED <<task, disk, merged, finished, sq, sent, pending, ever, filed, reading,
                     cut, walk, net>>
HandlePiece(p, s) ==
  LET c   == Head(wire[p][s])
      n   == c.name
      now == Received(task[p][n], c)
      ack == Cell("ACK", n, c.piece, 0)
  IN  /\ Takes(p, s, "DATA")
      /\ IF n \notin DOMAIN task[p]
         THEN Drop(p, s)
         ELSE /\ disk' = IF Complete(now)
                         THEN [disk EXCEPT ![p] = Put(@, n, MergedInto(FileOf(p, n), now))]
                         ELSE disk
              /\ merged' = IF Whole(p, n, now) /\ now.way = "receive"
                           THEN merged \cup {now.of} ELSE merged
              /\ \/ /\ ~Whole(p, n, now)
                    /\ Reply(p, s, <<ack>>)
                    /\ task' = [task EXCEPT ![p][n] = now]
                 \/ /\ Whole(p, n, now)
                    /\ Reply(p, s, <<ack, Cell("DONE", n, 0, 0)>>)
                    /\ task' = [task EXCEPT ![p] = Without(@, n)]
                 \/ /\ \/ ReplyFails(p, s)
                       \/ /\ Whole(p, n, now) /\ s \notin closed[p]
                          /\ ReplyFailsAfter(p, s, <<ack>>)
                    /\ task' = [task EXCEPT ![p][n] = [now EXCEPT !.status = 0]]
              /\ UNCHANGED <<finished, sq>>
      /\ UNCHANGED <<sent, pending, ever, filed, reading, cut, walk, net>>

(* receiveFileDone *)
HandleDone(p, s) ==
  LET n == Head(wire[p][s]).name
  IN  /\ Takes(p, s, "DONE")
      /\ IF n \notin DOMAIN task[p]
         THEN Drop(p, s)
         ELSE /\ task' = [task EXCEPT ![p] = Without(@, n)]
              /\ finished' = IF task[p][n].way = "send"
                             THEN finished \cup {task[p][n].of} ELSE finished
              /\ wire' = Taken(p, s)
              /\ UNCHANGED <<disk, merged, table, closed, sq>>
      /\ UNCHANGED <<sent, pending, ever, filed, reading, cut, walk, net>>

(* receiveFileAck, for "ok" (a "ck" cannot be built, so none arrives).                *)
HandleAckUpTo(p, s) ==
  LET c == Head(wire[p][s])
  IN  /\ Takes(p, s, "ACK") /\ c.name \in DOMAIN task[p]
      /\ task' = [task EXCEPT ![p][c.name].done = @ \cup 1 .. c.piece]
      /\ wire' = Taken(p, s)
      /\ UNCHANGED <<disk, merged, finished, table, closed, sq, sent, pending, ever, filed,
                     reading, cut, walk, net>>
HandleAck(p, s) ==
  LET c == Head(wire[p][s])
      n == c.name
  IN  /\ Takes(p, s, "ACK")
      /\ IF n \notin DOMAIN task[p]
         THEN Drop(p, s)
         ELSE /\ task' = [task EXCEPT ![p][n].done = @ \cup {c.piece}, ![p][n].status = 1]
              /\ sq' = [sq EXCEPT ![p] = Append(@, Entry(s, "FILL", n, 0, <<>>))]
              /\ wire' = Taken(p, s)
              /\ UNCHANGED <<disk, merged, finished, table, closed>>
      /\ UNCHANGED <<sent, pending, ever, filed, reading, cut, walk, net>>

-----------------------------------------------------------------------------
(* The specification *)

ReaderStep(p) == \/ WalkStep(p, "Reader")
                 \/ \E s \in Sock : \/ HandleMeta(p, s) \/ HandleReady(p, s)
                                    \/ HandlePiece(p, s) \/ HandleDone(p, s)
                                    \/ HandleAck(p, s)
UserStep(p) == \E name \in Names, size \in Sizes : Announce(p, name, size)

Next ==
  \/ \E p \in Peer :
       \/ UserStep(p) \/ Register(p) \/ ReaderStep(p)
       \/ Write(p) \/ WriteFails(p)
       \/ StatusResend(p) \/ WalkStep(p, "Status")
       \/ \E s \in Sock : \/ Establish(p, s) \/ RecordAgain(p, s)
                         \/ ReadsTooSoon(p, s) \/ ReadsTorn(p, s) \/ ReaderStops(p, s)
  \/ \E s \in Sock : CutCircuit(s)

Spec == Init /\ [][Next]_vars

-----------------------------------------------------------------------------
(* Safety *)

Piece  == UNION {1 .. n : n \in Sizes}
Partial(S, T) == UNION {[D -> T] : D \in SUBSET S}
Task   == [way : {"send", "receive"}, of : Transfer, status : {0, 1, 4},
           done : SUBSET Piece, content : Partial(Piece, Transfer)]
Cells  == [type : {"META"}, name : Names, piece : {0}, of : Transfer]
          \cup [type : {"READY", "DONE"}, name : Names, piece : {0}, of : {0}]
          \cup [type : {"DATA"}, name : Names, piece : Piece, of : Transfer]
          \cup [type : {"ACK"}, name : Names, piece : Piece, of : {0}]
Queued == [sock : Sock, type : {"META"}, name : Names, of : Transfer, pieces : {<<>>}]
          \cup [sock : Sock, type : {"DATA"}, name : Names, of : {0},
                pieces : Partial(Piece, Transfer)]
          \cup [sock : Sock, type : {"FILL"}, name : Names, of : {0}, pieces : {<<>>}]
Walk   == {NoWalk} \cup [sock : Sock, todo : SUBSET Names]
TypeOK ==
  /\ sent \in Seq([from : Peer, name : Names, size : Sizes])
  /\ pending \in [Peer -> Partial(Names, Task)]
  /\ task \in [Peer -> Partial(Names, Task)]
  /\ disk \in [Peer -> Partial(Names, Partial(Piece, Transfer))]
  /\ table \in [Peer -> Seq(Sock)]
  /\ ever \in [Peer -> SUBSET Sock]
  /\ filed \in [Peer -> SUBSET Sock]
  /\ reading \in [Peer -> SUBSET Sock]
  /\ closed \in [Peer -> SUBSET Sock]
  /\ cut \subseteq Sock
  /\ wire \in [Peer -> [Sock -> Seq(Cells)]]
  /\ sq \in [Peer -> Seq(Queued)]
  /\ walk \in [Peer -> [Thread -> Walk]]
  /\ merged \subseteq Transfer
  /\ finished \subseteq Transfer
  /\ net \in Nat

From(t) == sent[t].from
To(t)   == Other(sent[t].from)
Sending(t)   == /\ sent[t].name \in DOMAIN task[From(t)]
                /\ task[From(t)][sent[t].name].way = "send"
                /\ task[From(t)][sent[t].name].of = t
Receiving(t) == /\ sent[t].name \in DOMAIN task[To(t)]
                /\ task[To(t)][sent[t].name].way = "receive"
                /\ task[To(t)][sent[t].name].of = t
SenderTask(t)   == task[From(t)][sent[t].name]
ReceiverTask(t) == task[To(t)][sent[t].name]

(* The pieces of a transfer its receiver has, and those its sender counts as received. *)
Stored(t) == CASE t \in merged -> 1 .. sent[t].size
               [] t \notin merged /\ Receiving(t) -> DOMAIN ReceiverTask(t).content
               [] OTHER -> {}
Acked(t)  == CASE t \in finished -> 1 .. sent[t].size
               [] t \notin finished /\ Sending(t) -> SenderTask(t).done
               [] OTHER -> {}

(* A piece the sender counts as acknowledged, and will not send again, is stored at the *)
(* receiver: through lost answers, repeated pieces and resending on another connection. *)
AckedIsStored == \A t \in Transfer : Acked(t) \subseteq Stored(t)

(* ServerMessageHandler.java:1160: DONE tells the sender that the receiver has it all.      *)
(* So a sending task DONE ended is of a file its receiver has put together.               *)
DoneMeansReceived == finished \subseteq merged

(* The whole protocol, over any number of connections, keeps the promise of              *)
(* FileTransferAbs: what is stored is never lost again, and a file is done only when it   *)
(* is whole.                                                                           *)
Promise == INSTANCE FileTransferAbs WITH
  File   <- [from : Peer, name : Names, size : Sizes],
  stored <- [t \in Transfer |-> Stored(t)],
  acked  <- [t \in Transfer |-> Acked(t)]
KeepsPromise == Promise!Spec

-----------------------------------------------------------------------------
(* Liveness                                                                 *)
(*                                                                         *)
(* No thread waits for another, so each does what it can do.  Nothing is        *)
(* assumed of handshakes: a reading thread reads the cells that arrive, and if    *)
(* its end is still at status 0 by then it ends the connection.  Nor is it        *)
(* assumed that a reading thread notices the end of its stream (see Session).     *)

Fairness ==
  \A p \in Peer :
    /\ WF_vars(Register(p)) /\ WF_vars(ReaderStep(p)) /\ WF_vars(Write(p) \/ WriteFails(p))
    /\ WF_vars(WalkStep(p, "Status"))
    /\ \A s \in Sock : WF_vars(s \notin ever[p] /\ ~Gone(p, s) /\ ReadsTooSoon(p, s))

FairSpec == Spec /\ Fairness

(* As long as no connection goes, and with one handshake a socket (Crossed empty), a file *)
(* whose transfer has begun (READY found its task) arrives, and its sender learns it:       *)
(* whatever is resent meanwhile, on whichever connection, established at one end or both.   *)
Begun(t) == /\ t \in Transfer /\ Sending(t) /\ SenderTask(t).status = 1
            /\ Receiving(t) \/ t \in merged
ConnectionGone == \E s \in Sock : Gone(A, s)
FileArrives ==
  \A t \in 1 .. MaxSend : Begun(t) ~> t \in merged \cap finished \/ ConnectionGone

-----------------------------------------------------------------------------
(* What the comments of the code say, and the code does not do               *)

(* ServerMessageHandler.java:533-535: once a connection has its key, the files are sent   *)
(* again.  So a file its Reader is about to resend arrives if some connection stays.       *)
Linked(s) == s \notin cut /\ InTable(A, s) /\ InTable(B, s)
ToResend(t) == /\ t \in Transfer /\ Sending(t) /\ Receiving(t)
               /\ sent[t].name \in walk[From(t)]["Reader"].todo
ResentFilesArrive ==
  \A t \in 1 .. MaxSend, s \in Sock :
    ToResend(t) /\ Linked(s) ~> t \in merged \/ ~Linked(s)

(* The same comment: no file with pieces to send is left out when the Reader goes through   *)
(* the tasks.                                                                            *)
LeftOut(p, n) ==
  /\ n \in walk[p]["Reader"].todo \ walk'[p]["Reader"].todo
  /\ n \in DOMAIN task[p] /\ task[p][n].way = "send" /\ task[p][n].status # 4
  /\ DOMAIN Unacked(task[p][n]) # {} /\ sq' = sq
NoFileIsLeftOut == [][\A p \in Peer, n \in Names : ~LeftOut(p, n)]_vars

=============================================================================
