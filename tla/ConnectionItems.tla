--------------------------- MODULE ConnectionItems ---------------------------
(***************************************************************************)
(* The list of connections one device keeps for one contact                *)
(* (tor/util/ConnectionItems.java): a CopyOnWriteArrayList of               *)
(* ConnectionStatusItem objects, each with the socket it belongs to, a      *)
(* purpose (text, picture, file), a status (0 handshake, 1 established) and *)
(* the session key, which is null until the handshake has chosen one.       *)
(*                                                                         *)
(* The list is split in two: the sequence of sockets gives the order, the   *)
(* items give the rest.  Positions start at 1; position 0 stands for the    *)
(* null (or -1) the Java methods return when nothing matches.               *)
(***************************************************************************)
EXTENDS Naturals, Sequences, FiniteSetsExt, Functions

CONSTANTS TEXT,     \* SOCKET_PURPOSE_TEXT
          FILE      \* SOCKET_PURPOSE_FILE

ASSUME PurposesDiffer == TEXT # FILE

Purpose == {TEXT, FILE}

NoKey == 0          \* the null shareKey
Nil   == 0          \* no position: nothing found

(***************************************************************************)
(* A connection as getConnByPurpose sees it.                               *)
(***************************************************************************)
Connection == [purpose : Purpose, status : {0, 1}, key : Nat]

NewConnection(purpose) == [purpose |-> purpose, status |-> 0, key |-> NoKey]

(* The least and the greatest of a set of positions, Nil if it has none.    *)
First(positions) ==
  LET least == {i \in positions : \A j \in positions : i <= j}
  IN  IF least = {} THEN Nil ELSE CHOOSE i \in least : TRUE
Last(positions) ==
  LET greatest == {i \in positions : \A j \in positions : j <= i}
  IN  IF greatest = {} THEN Nil ELSE CHOOSE i \in greatest : TRUE

(***************************************************************************)
(* getConnByPurpose: the first keyed connection of the purpose; failing    *)
(* that the last keyed connection whatever its purpose; failing that the    *)
(* last connection of the purpose, which has no key yet.                    *)
(***************************************************************************)
GetConnByPurpose(items, purpose) ==
  LET keyed  == {i \in DOMAIN items : items[i].key # NoKey}
      wanted == {i \in DOMAIN items : items[i].purpose = purpose}
  IN  CASE keyed \cap wanted # {} -> First(keyed \cap wanted)
        [] keyed # {} /\ keyed \cap wanted = {} -> Last(keyed)
        [] OTHER -> Last(wanted)

(* getConnBySocket: the position of a socket in the list. *)
GetConnBySocket(socks, s) == First({i \in DOMAIN socks : socks[i] = s})

(* removeConnBySocket: the list without that socket. *)
RemoveConnBySocket(socks, s) ==
  LET k == GetConnBySocket(socks, s)
  IN  IF k = Nil
      THEN socks
      ELSE [i \in 1 .. Len(socks) - 1 |-> IF i < k THEN socks[i] ELSE socks[i + 1]]

(* updateStatus: the key is kept when none is given.  (The two variants before     *)
(* Recorded forget it, or the status; the specification does not use them.)        *)
RecordedWithoutCheck(conn, status, key) == [conn EXCEPT !.status = status, !.key = key]
RecordedWithKeyOnly(conn, status, key) ==
  IF key # NoKey THEN [conn EXCEPT !.status = status, !.key = key] ELSE conn
Recorded(conn, status, key) ==
  [conn EXCEPT !.status = status, !.key = IF key # NoKey THEN key ELSE @]

(* addNewConn *)
AddNewConn(socks, s) == Append(socks, s)

=============================================================================
