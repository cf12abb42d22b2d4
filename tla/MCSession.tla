----------------------------- MODULE MCSession ------------------------------
(* Small instances of Session for TLC. *)
EXTENDS Session, TLC

(* The names of the sockets do not matter to safety. *)
SocketSymmetry == Permutations(Sock)
=============================================================================
