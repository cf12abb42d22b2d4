-------------------------- MODULE FileTransferAbs ---------------------------
(***************************************************************************)
(* What the transfer of files promises, without connections, messages or    *)
(* threads: a file announced is stored piece by piece at the receiver, put   *)
(* together when all of it is there, and given up by its sender only then.   *)
(* The sender counts a piece as received only if the receiver stores it.     *)
(***************************************************************************)
EXTENDS Naturals, Sequences

CONSTANT File             \* the files that may be announced, each with its size

VARIABLES
  sent,       \* the files announced, in order
  stored,     \* stored[t]: the pieces of file t at the receiver
  acked,      \* acked[t]: the pieces its sender knows to be there
  merged,     \* the files put together
  finished    \* the files whose sender knows it is done

vars == <<sent, stored, acked, merged, finished>>

Pieces(t) == 1 .. sent[t].size

Init == sent = <<>> /\ stored = <<>> /\ acked = <<>> /\ merged = {} /\ finished = {}

Announce(f) ==
  /\ sent' = Append(sent, f)
  /\ stored' = Append(stored, {})
  /\ acked' = Append(acked, {})
  /\ UNCHANGED <<merged, finished>>

(* The last piece to come completes the file. *)
Store(t, i) ==
  /\ i \in Pieces(t) \ stored[t]
  /\ stored' = [stored EXCEPT ![t] = @ \cup {i}]
  /\ merged' = IF stored'[t] = Pieces(t) THEN merged \cup {t} ELSE merged
  /\ UNCHANGED <<sent, acked, finished>>

Acknowledge(t, i) ==
  /\ i \in stored[t]
  /\ acked' = [acked EXCEPT ![t] = @ \cup {i}]
  /\ UNCHANGED <<sent, stored, merged, finished>>

(* Word that the file is complete stands for all the acknowledgements. *)
Finish(t) ==
  /\ t \in merged
  /\ finished' = finished \cup {t}
  /\ acked' = [acked EXCEPT ![t] = Pieces(t)]
  /\ UNCHANGED <<sent, stored, merged>>

Next == \/ \E f \in File : Announce(f)
        \/ \E t \in DOMAIN sent :
             Finish(t) \/ \E i \in Pieces(t) : Store(t, i) \/ Acknowledge(t, i)

Spec == Init /\ [][Next]_vars

=============================================================================
