--------------------------- MODULE MCFileTransfer ---------------------------
(* Small instances of FileTransfer for TLC. *)
EXTENDS FileTransfer, TLC

(* The names of the sockets do not matter to safety. *)
SocketSymmetry == Permutations(Sock)
=============================================================================
