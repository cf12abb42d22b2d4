------------------------------ MODULE DnsAnswer ------------------------------
(***************************************************************************)
(* The threads of pdnsd that take the clients' queries (dns_answer.c).     *)
(* Main starts a TCP and a UDP server thread and waits for a signal.  A    *)
(* server gives every query a thread of its own, unless too many threads   *)
(* live: at most proc_limit of them work and procq_limit more wait.  A     *)
(* server that runs out of memory closes its socket and ends; the last one *)
(* to do so ends the program.                                              *)
(*                                                                         *)
(* Left out: the sleeps of a server after a failure, run_as, descriptors   *)
(* that are used again after a socket was closed, and how an answer is     *)
(* composed (module DnsReply).                                             *)
(***************************************************************************)
EXTENDS Integers, FiniteSets

CONSTANTS Queries, Via,   \* the queries of the clients, and the socket each is sent to
          Silent,         \* those whose client connects and then says nothing
          Messages,       \* what the others may say
          Limits,         \* what a configuration may set proc_limit and procq_limit to
          MaxReloads      \* bound: how often the configuration is loaded again

Servers == {"tcp", "udp"}
Other(s) == IF s = "tcp" THEN "udp" ELSE "tcp"

ASSUME QueriesFinite == IsFiniteSet(Queries)
ASSUME ViaTyped      == Via \in [Queries -> Servers]
ASSUME MessagesTyped ==
  Messages \subseteq [size : {"none", "id", "whole"}, response : BOOLEAN, opcode : STRING, z : BOOLEAN,
                      rcode : STRING, records : BOOLEAN, question : STRING, edns : STRING]
ASSUME LimitsTyped   == Limits \subseteq [proc : Nat \ {0}, queue : Nat]
ASSUME ReloadsNat    == MaxReloads \in Nat

VARIABLES main,           \* where the main thread is
          term,           \* whether SIGTERM was sent to it
          open,           \* the sockets tcp_socket and udp_socket that are not -1
          thrid,          \* tcps_thrid and udps_thrid: "main" or "own"
          server,         \* where each server thread is
          query,          \* where each query is
          reply,          \* what its client was sent
          procs, qprocs, spawned, dropped,   \* the counters that proc_lock guards
          limit, reloads
counters  == <<procs, qprocs, spawned, dropped>>
threads   == <<query, reply, counters>>
config    == <<limit, reloads>>
vars      == <<main, term, open, thrid, server, threads, config>>

Runs == main # "gone"

Init ==
  /\ main = "tcp" /\ term = FALSE
  /\ open \in [Servers -> BOOLEAN] /\ \E s \in Servers : open[s]
  /\ thrid = [s \in Servers |-> "main"]
  /\ server = [s \in Servers |-> "none"]
  /\ query = [q \in Queries |-> "sent"]
  /\ reply = [q \in Queries |-> "none"]
  /\ procs = 0 /\ qprocs = 0 /\ spawned = 0 /\ dropped = 0
  /\ limit \in Limits /\ reloads = 0

-----------------------------------------------------------------------------
(* The main thread: start_dns_servers and the end of main. *)
Started(s) == IF s = "tcp" THEN "udp" ELSE "sigwait"

NoServer(s) ==
  /\ main = s /\ ~open[s]
  /\ main' = Started(s)
  /\ UNCHANGED <<term, open, thrid, server, threads, config>>

CreateServer(s) ==
  /\ main = s /\ open[s]
  /\ server' = [server EXCEPT ![s] = "starting"]
  /\ main' = "created"
  /\ UNCHANGED <<term, open, thrid, threads, config>>

(* pdnsd_exit, called by main itself: the thread ends, and the signal with it. *)
CreateServerFails(s) ==
  /\ main = s /\ open[s]
  /\ main' = "exited" /\ term' = TRUE
  /\ UNCHANGED <<open, thrid, server, threads, config>>

(* The server main has just created is tcp as long as main has not looked at udp. *)
NoteThread(s) ==
  /\ main = "created" /\ server[s] # "none"
  /\ s = "tcp" => server["udp"] = "none"
  /\ thrid' = [thrid EXCEPT ![s] = "own"]
  /\ main' = Started(s)
  /\ UNCHANGED <<term, open, server, threads, config>>

Terminate ==
  /\ main = "sigwait" /\ term
  /\ main' = "gone"
  /\ UNCHANGED <<term, open, thrid, server, threads, config>>

Main == Terminate \/ \E s \in Servers : NoServer(s) \/ CreateServer(s) \/ CreateServerFails(s) \/ NoteThread(s)

-----------------------------------------------------------------------------
(* The server threads. *)
MoveServer(s, from, to) == server[s] = from /\ server' = [server EXCEPT ![s] = to]

Listen(s) ==
  /\ MoveServer(s, "starting", "serving")
  /\ UNCHANGED <<main, term, open, thrid, threads, config>>

(* listen fails, or there is no memory for the next query.                     *)
CloseSocket(s) ==
  /\ \/ s = "tcp" /\ MoveServer(s, "starting", "closed")
     \/ MoveServer(s, "serving", "closed")
  /\ open' = [open EXCEPT ![s] = FALSE]
  /\ UNCHANGED <<main, term, thrid, threads, config>>

ForgetThread(s) ==
  /\ MoveServer(s, "closed", "leaving")
  /\ thrid' = [thrid EXCEPT ![s] = "main"]
  /\ UNCHANGED <<main, term, open, threads, config>>

(* Mutant: a server ends without a look at the other one. *)
EndServerAlone(s) ==
  /\ MoveServer(s, "leaving", "ended")
  /\ UNCHANGED <<main, term, open, thrid, threads, config>>
EndServer(s) ==
  /\ MoveServer(s, "leaving", "ended")
  /\ term' = (term \/ ~open[Other(s)])
  /\ UNCHANGED <<main, open, thrid, threads, config>>

(* A query or a connection is received: a place is taken for its thread.      *)
Accept(s, q) ==
  /\ Via[q] = s /\ query[q] = "sent"
  /\ qprocs < limit.proc + limit.queue
  /\ MoveServer(s, "serving", "creating")
  /\ query' = [query EXCEPT ![q] = "counted"]
  /\ qprocs' = qprocs + 1 /\ spawned' = spawned + 1
  /\ UNCHANGED <<main, term, open, thrid, reply, procs, dropped, config>>

Drop(s, q) ==
  /\ Via[q] = s /\ query[q] = "sent" /\ server[s] = "serving"
  /\ qprocs >= limit.proc + limit.queue
  /\ query' = [query EXCEPT ![q] = "dropped"]
  /\ dropped' = dropped + 1
  /\ UNCHANGED <<main, term, open, thrid, server, reply, procs, qprocs, spawned, config>>

CreateThread(s, q) ==
  /\ Via[q] = s /\ query[q] = "counted"
  /\ MoveServer(s, "creating", "serving")
  /\ query' = [query EXCEPT ![q] = "waiting"]
  /\ UNCHANGED <<main, term, open, thrid, reply, counters, config>>

CreateThreadFails(s, q) ==
  /\ Via[q] = s /\ query[q] = "counted"
  /\ MoveServer(s, "creating", "serving")
  /\ query' = [query EXCEPT ![q] = "dropped"]
  /\ qprocs' = qprocs - 1 /\ spawned' = spawned - 1 /\ dropped' = dropped + 1
  /\ UNCHANGED <<main, term, open, thrid, reply, procs, config>>

Server(s) ==
  \/ Listen(s) \/ ForgetThread(s) \/ EndServer(s)
  \/ \E q \in Queries : Accept(s, q) \/ Drop(s, q) \/ CreateThread(s, q) \/ CreateThreadFails(s, q)

-----------------------------------------------------------------------------
(* The thread of a query: udp_answer_thread and tcp_answer_thread. *)
Move(q, from, to) == query[q] = from /\ query' = [query EXCEPT ![q] = to]
Reply(q, r)       == reply' = [reply EXCEPT ![q] = r]

(* Mutant: no place is needed to work. *)
BeginAnyway(q) ==
  /\ Move(q, "waiting", IF Via[q] = "tcp" THEN "length" ELSE "working")
  /\ procs' = procs + 1
  /\ UNCHANGED <<main, term, open, thrid, server, reply, qprocs, spawned, dropped, config>>
Begin(q) ==
  /\ procs < limit.proc
  /\ Move(q, "waiting", IF Via[q] = "tcp" THEN "length" ELSE "working")
  /\ procs' = procs + 1
  /\ UNCHANGED <<main, term, open, thrid, server, reply, qprocs, spawned, dropped, config>>

(* The length of a TCP query, waited for tcp_qtimeout seconds: the client may be      *)
(* silent, hang up or announce nothing.                                              *)
(* Mutant: a silent client is waited for. *)
ReadLengthForEver(q) ==
  /\ q \notin Silent /\ \E next \in {"body", "done"} : Move(q, "length", next)
  /\ UNCHANGED <<main, term, open, thrid, server, reply, counters, config>>
ReadLength(q) ==
  /\ \/ q \notin Silent /\ Move(q, "length", "body")
     \/ Move(q, "length", "done")
  /\ UNCHANGED <<main, term, open, thrid, server, reply, counters, config>>

(* Its body; a client that ends it after the first two bytes is told so.             *)
ReadBody(q) ==
  /\ \/ Move(q, "body", "working") /\ UNCHANGED reply
     \/ \E r \in {"none", "error"} : Move(q, "body", "done") /\ reply' = [reply EXCEPT ![q] = r]
  /\ UNCHANGED <<main, term, open, thrid, server, counters, config>>

(* What is sent back for a message, if anything: one without a header, a response and *)
(* one that reports an error get nothing, and nothing is sent without memory.         *)
process_query(m) ==
  CASE m.size = "none"                     -> {"none"}
    [] m.size = "id"                       -> {"error", "none"}
    [] m.size = "whole" /\ m.response      -> {"none"}
    [] m.size = "whole" /\ ~m.response /\ (m.opcode # "query" \/ m.z) -> {"error", "none"}
    [] m.size = "whole" /\ ~m.response /\ m.opcode = "query" /\ ~m.z ->
         IF m.rcode # "OK" THEN {"none"}
         ELSE IF m.records \/ m.question # "some" \/ m.edns = "bad" THEN {"error", "none"}
         ELSE {"answer", "error", "none"}

(* The answer to a datagram goes out by the server's socket, which may be closed.     *)
Answer(q) ==
  /\ Move(q, "working", "done")
  /\ \E m \in Messages : \E r \in process_query(m) :
       reply' = [reply EXCEPT ![q] = IF Via[q] = "udp" /\ ~open["udp"] THEN "none" ELSE r]
  /\ UNCHANGED <<main, term, open, thrid, server, counters, config>>

(* The clean-up handlers and decrease_procs.                                          *)
EndThread(q) ==
  /\ Move(q, "done", "ended")
  /\ procs' = procs - 1 /\ qprocs' = qprocs - 1
  /\ UNCHANGED <<main, term, open, thrid, server, reply, spawned, dropped, config>>

Thread(q) == Begin(q) \/ ReadLength(q) \/ ReadBody(q) \/ Answer(q) \/ EndThread(q)

-----------------------------------------------------------------------------
(* The control thread: reload_config_file. *)
Reload ==
  /\ reloads < MaxReloads
  /\ limit' \in Limits /\ reloads' = reloads + 1
  /\ UNCHANGED <<main, term, open, thrid, server, threads>>

Next == Runs /\ (\/ Main \/ Reload
                 \/ \E s \in Servers : Server(s) \/ CloseSocket(s)
                 \/ \E q \in Queries : Thread(q))

(* Every thread is scheduled.  A thread that waits for a place sleeps and looks       *)
(* again, and no query arrives for ever, so a free place is found in the end.         *)
Fairness == /\ WF_vars(Runs /\ Main)
            /\ \A s \in Servers : WF_vars(Runs /\ Server(s))
            /\ \A q \in Queries : WF_vars(Runs /\ Thread(q))
Spec == Init /\ [][Next]_vars /\ Fairness

-----------------------------------------------------------------------------
TypeOK ==
  /\ main \in Servers \cup {"created", "sigwait", "exited", "gone"} /\ term \in BOOLEAN
  /\ open \in [Servers -> BOOLEAN] /\ thrid \in [Servers -> {"main", "own"}]
  /\ server \in [Servers -> {"none", "starting", "serving", "creating", "closed", "leaving", "ended"}]
  /\ query \in [Queries -> {"sent", "counted", "dropped", "waiting", "length", "body", "working", "done", "ended"}]
  /\ reply \in [Queries -> {"none", "error", "answer"}]
  /\ procs \in Nat /\ qprocs \in Nat /\ spawned \in Nat /\ dropped \in Nat
  /\ limit \in Limits /\ reloads \in 0..MaxReloads

In(S) == {q \in Queries : query[q] \in S}
Lives == {"counted", "waiting", "length", "body", "working", "done"}
Busy  == {"length", "body", "working", "done"}

(* procs counts the threads at work and qprocs all those that live, spawned those ever *)
(* made and dropped the queries refused, in whatever order the servers and the threads *)
(* take proc_lock and whichever of them fail: what is taken is given back once.        *)
CountersCount ==
  /\ procs = Cardinality(In(Busy)) /\ qprocs = Cardinality(In(Lives))
  /\ spawned = Cardinality(In(Lives \cup {"ended"})) /\ dropped = Cardinality(In({"dropped"}))

(* Two servers that count at once and threads that begin at once keep within           *)
(* proc_limit at work and procq_limit more waiting, unless the limits were lowered.    *)
LimitsKept ==
  reloads = 0 => /\ Cardinality(In(Busy)) <= limit.proc
                 /\ Cardinality(In(Lives)) <= limit.proc + limit.queue

(* When both servers have ended, even at once, each by its own check of the other's    *)
(* socket, the program ends.                                                           *)
LastServerEnds == (\A s \in Servers : ~open[s]) ~> main = "gone"

(* Every query whose thread was made is dealt with, whatever its client and the        *)
(* clients before it do: a place to work is found, a silent client loses it, and in    *)
(* the end no thread of a query is left.                                               *)
QueriesServed == <>[](main = "gone" \/ \A q \in Queries : query[q] \notin Lives \ {"counted"})

(* helpers.c:45: "This is to exit pdnsd from any thread."  Main calls it when it cannot *)
(* create a server's thread; a signal to a thread that has ended is seen by nobody.    *)
AnyThreadExits == term ~> main = "gone"
=============================================================================
