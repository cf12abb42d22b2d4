----------------------------- MODULE NameServers -----------------------------
(***************************************************************************)
(* pdnsd's table of name servers (servers.c): which servers are thought up,*)
(* when each was last tested, and who may touch the table.  The server     *)
(* status thread makes passes of tests over it and sleeps in between;      *)
(* threads that answer queries pick servers from it, report what came of   *)
(* it and test the servers tested "on query"; the control thread marks     *)
(* servers, changes their addresses, reports on them and reloads the       *)
(* configuration (status.c 200-343, conff.c 178-303, 356-445).             *)
(*                                                                         *)
(* servers_lock is a mutex: a stretch of code under it is one step, except *)
(* in a pass of tests, which gives the mutex back while a test runs.  lock *)
(* says who holds it between two tests.  server_data_users counts those    *)
(* who use the table without the mutex.                                    *)
(*                                                                         *)
(* Left out: the discovery of root servers, schemes, and threads that      *)
(* cannot be created.                                                      *)
(***************************************************************************)
EXTENDS Integers, Sequences, FiniteSets

CONSTANTS Query,      \* the threads that answer queries
          Stat, Ctl,  \* the server status thread and the control thread
          Free,       \* nobody: the mutex is free
          Addr,       \* the addresses of name servers
          Configs,    \* what the configuration file may hold
          AddrLists,  \* the address lists the operator may set
          MaxAsk,     \* bound: queries a thread answers
          MaxCtl      \* bound: commands of the operator

Tester == Query \cup {Stat}

ASSUME ThreadsDiffer == Stat # Ctl /\ Free \notin Query \cup {Stat, Ctl} /\ {Stat, Ctl} \cap Query = {}
ASSUME QueriesFinite == IsFiniteSet(Query)
ASSUME BoundsNat     == MaxAsk \in Nat /\ MaxCtl \in Nat

VARIABLES servers,                    \* the table: a sequence of server sections
          server_data_users,          \* users of the table that do not hold the mutex
          server_status_ping,         \* the status thread is in a test that may take long
          signal_interrupt, retest_flag,
          servstat_thrid,             \* the status thread as the others know it, or main
          lock,                       \* who holds servers_lock between two steps
          at, pos,                    \* where each thread is; the test each tester is at
          asked,                      \* the server a query thread is asking
          cmd,                        \* the command the control thread carries out
          short,                      \* the status thread sleeps for half a second only
          main,                       \* main: before, in or after start_servstat_thread
          asks, ctls                  \* queries begun, commands given

tests == <<pos, signal_interrupt, retest_flag, server_status_ping, short>>
vars  == <<servers, server_data_users, server_status_ping, signal_interrupt, retest_flag, servstat_thrid,
           lock, at, pos, asked, cmd, short, main, asks, ctls>>

(* A section's test: "query" stands for those made for every address, "ping" for the   *)
(* ping of one fixed address, "exec" for the tests of an interface or by a command.    *)
Tests     == {"none", "query", "ping", "exec"}
Intervals == {"timed", "onquery", "ontimeout", "never"}
Stamps    == {"zero", "recent", "due"}
ServerAddr == [a : Addr, up : BOOLEAN, ts : Stamps]
ServParm   == [test : Tests, interval : Intervals, preset : BOOLEAN, atup : Seq(ServerAddr)]

ASSUME ConfigsTyped ==
  /\ Configs \subseteq Seq([test : Tests, interval : Intervals, preset : BOOLEAN, addrs : Seq(Addr)])
  /\ AddrLists \subseteq Seq(Addr)

NeedsTesting(s)             == s.interval \in {"timed", "ontimeout"} /\ s.test # "none"
NeedsIntermittentTesting(s) == s.interval = "timed" /\ s.test # "none"
TestedOneByOne(s)           == s.test = "query"
MayTakeLong(s)              == s.test \in {"query", "ping"}

(* A table as it is read from the file: servers never asked for are tested at once.    *)
LoadedAddr(s, a) == [a |-> a, up |-> s.preset, ts |-> IF s.interval \in {"onquery", "ontimeout"}
                                                      THEN "recent" ELSE "zero"]
Loaded(c) == [i \in DOMAIN c |->
               [test |-> c[i].test, interval |-> c[i].interval, preset |-> c[i].preset,
                atup |-> [j \in DOMAIN c[i].addrs |-> LoadedAddr(c[i], c[i].addrs[j])]]]

Start == [i |-> 0, j |-> 0, whole |-> FALSE]
Nothing == [op |-> "none"]

Init == /\ \E c \in Configs : servers = Loaded(c)
        /\ server_data_users = 0 /\ server_status_ping = 0
        /\ signal_interrupt = FALSE /\ retest_flag = FALSE
        /\ servstat_thrid = "main" /\ lock = Free /\ main = "before"
        /\ at = [t \in Tester \cup {Ctl} |-> IF t = Stat THEN "none" ELSE "idle"]
        /\ pos = [t \in Tester |-> Start]
        /\ asked = [t \in Query |-> Nothing]
        /\ cmd = Nothing /\ short = FALSE
        /\ asks = [t \in Query |-> 0] /\ ctls = 0

-----------------------------------------------------------------------------
(* Signals.  A thread that is not waiting is not woken.                                *)
WakeStat(where) == [where EXCEPT ![Stat] = IF @ = "asleep" THEN "awake" ELSE @]
WakeCtl(where)  == [where EXCEPT ![Ctl] = IF @ = "waiting" THEN "woken" ELSE @]

(* Mutant: the thread is only ever woken. *)
WakeOnly(where) == at' = WakeStat(where) /\ UNCHANGED servstat_thrid
(* start_servstat_thread if there is no thread, or a signal to the thread thought of.  *)
WakeOrStart(where) ==
  IF servstat_thrid = "main"
  THEN at' = [where EXCEPT ![Stat] = "starting"] /\ servstat_thrid' = "stat"
  ELSE at' = WakeStat(where) /\ UNCHANGED servstat_thrid

(* One user less; the last wakes whoever waits for exclusive access.                   *)
LeaveData(where) == /\ server_data_users' = server_data_users - 1
                    /\ at' = IF server_data_users' = 0 THEN WakeCtl(where) ELSE where

-----------------------------------------------------------------------------
(* A pass of tests: servstat_thread, test_onquery and retest.                          *)
Atup(i)      == servers[i].atup
AllZero(i)   == \A j \in DOMAIN Atup(i) : Atup(i)[j].ts = "zero"
(* Mutant: only the interval counts. *)
WantedByTime(i, j) == NeedsIntermittentTesting(servers[i]) /\ Atup(i)[j].ts = "due"
Wanted(i, j) == \/ Atup(i)[j].ts = "zero"
                \/ NeedsIntermittentTesting(servers[i]) /\ Atup(i)[j].ts = "due"

(* The next address of a section tested one by one, unless interrupted.                *)
SameSection(p) == {q \in {[p EXCEPT !.j = @ + 1]} : /\ p.whole /\ TestedOneByOne(servers[p.i])
                                                    /\ q.j \in DOMAIN Atup(p.i)
                                                    /\ ~signal_interrupt}
WholeSections(p, S) == {[i |-> i, j |-> 1, whole |-> TRUE] : i \in {k \in S : k > p.i /\ Atup(k) # <<>>}}
(* Servers whose time has come, in sections not tested as a whole.                     *)
Individuals(p) ==
  {q \in [i : DOMAIN servers, j : UNION {DOMAIN Atup(k) : k \in DOMAIN servers}, whole : {FALSE}] :
     /\ \/ q.i > p.i /\ ~AllZero(q.i)
        \/ q.i = p.i /\ ~p.whole /\ q.j > p.j
     /\ q.j \in DOMAIN Atup(q.i) /\ Wanted(q.i, q.j)}

Ahead(t) ==
  LET p == pos[t]
  IN  IF t # Stat
      THEN SameSection(p) \cup WholeSections(p, {i \in DOMAIN servers : servers[i].interval = "onquery"})
      ELSE IF signal_interrupt THEN {}
      ELSE SameSection(p) \cup WholeSections(p, {i \in DOMAIN servers : AllZero(i)}) \cup Individuals(p)
Least(S) == CHOOSE p \in S : \A q \in S : p.i < q.i \/ (p.i = q.i /\ p.j <= q.j)

(* The addresses a test at p speaks for.                                               *)
Tested(p) == IF p.whole /\ ~TestedOneByOne(servers[p.i]) THEN DOMAIN Atup(p.i) ELSE {p.j}
Noted(p, note(_)) ==
  [servers EXCEPT ![p.i].atup = [j \in DOMAIN @ |-> IF j \in Tested(p) THEN note(@[j]) ELSE @[j]]]
SetStamp(x)      == [x EXCEPT !.ts = "recent"]
SetResult(x, up) == [x EXCEPT !.up = up]

(* retest, up to the test: uptest gives the mutex back while it runs.                  *)
BeginTest(t) ==
  /\ lock = t /\ Ahead(t) # {}
  /\ LET p == Least(Ahead(t))
     IN  /\ pos' = [pos EXCEPT ![t] = p]
         /\ \/ /\ servers[p.i].test = "none"
               /\ servers' = Noted(p, SetStamp)
               /\ UNCHANGED <<server_data_users, server_status_ping, lock, at>>
            \/ /\ servers[p.i].test # "none"
               /\ server_data_users' = server_data_users + 1
               /\ server_status_ping' = server_status_ping + (IF t = Stat /\ MayTakeLong(servers[p.i]) THEN 1 ELSE 0)
               /\ lock' = Free /\ at' = [at EXCEPT ![t] = "testing"]
               /\ UNCHANGED servers
  /\ UNCHANGED <<signal_interrupt, retest_flag, servstat_thrid, asked, cmd, short, main, asks, ctls>>

(* Its end.  An interrupted test of the long kind sets no time.                        *)
EndTest(t) ==
  /\ at[t] = "testing" /\ lock = Free
  /\ lock' = t
  /\ LeaveData([at EXCEPT ![t] = "scanning"])
  /\ server_status_ping' = server_status_ping - (IF t = Stat /\ MayTakeLong(servers[pos[t].i]) THEN 1 ELSE 0)
  /\ \E up \in BOOLEAN :
       LET p       == pos[t]
           note(x) == IF signal_interrupt /\ MayTakeLong(servers[p.i]) THEN SetResult(x, up)
                                                                       ELSE SetStamp(SetResult(x, up))
       IN  servers' = Noted(p, note)
  /\ UNCHANGED <<signal_interrupt, retest_flag, servstat_thrid, pos, asked, cmd, short, main, asks, ctls>>

(* servstat_thread: the start of a pass, and the start of the thread.                  *)
BeginPass == /\ at[Stat] \in {"starting", "awake"} /\ lock = Free
             /\ lock' = Stat /\ at' = [at EXCEPT ![Stat] = "scanning"]
             /\ pos' = [pos EXCEPT ![Stat] = Start]
             /\ signal_interrupt' = (signal_interrupt /\ at[Stat] = "awake")
             /\ retest_flag' = FALSE
             /\ UNCHANGED <<servers, server_data_users, server_status_ping, servstat_thrid, asked, cmd,
                            short, main, asks, ctls>>

(* The end of a pass: another one, the end of the thread, or sleep until something is  *)
(* due; for half a second if some server is still to be tested.                        *)
Again  == ~signal_interrupt /\ retest_flag
Pending == \E i \in DOMAIN servers : \E j \in DOMAIN Atup(i) : Atup(i)[j].ts = "zero"
EndPass ==
  /\ lock = Stat /\ Ahead(Stat) = {}
  /\ retest_flag' = (retest_flag /\ ~Again)
  /\ signal_interrupt' = FALSE
  /\ pos' = [pos EXCEPT ![Stat] = Start]
  /\ \/ /\ Again
        /\ UNCHANGED <<lock, at, servstat_thrid, short>>
     \/ /\ ~Again /\ ~\E i \in DOMAIN servers : NeedsTesting(servers[i])
        /\ lock' = Free /\ at' = [at EXCEPT ![Stat] = "none"] /\ servstat_thrid' = "main"
        /\ UNCHANGED short
     \/ /\ ~Again /\ \E i \in DOMAIN servers : NeedsTesting(servers[i])
        /\ lock' = Free /\ at' = [at EXCEPT ![Stat] = "asleep"] /\ short' = Pending
        /\ UNCHANGED servstat_thrid
  /\ UNCHANGED <<servers, server_data_users, server_status_ping, asked, cmd, main, asks, ctls>>

(* The timer of the sleeping thread, set by what was in the table when it went to      *)
(* sleep, or, at least once in an hour, by nothing; or a wake-up without a cause.      *)
TimeCame == short \/ \E i \in DOMAIN servers : \E j \in DOMAIN Atup(i) :
                       NeedsIntermittentTesting(servers[i]) /\ Atup(i)[j].ts = "due"
Timer == /\ at[Stat] = "asleep" /\ at' = [at EXCEPT ![Stat] = "awake"]
         /\ UNCHANGED <<servers, server_data_users, server_status_ping, signal_interrupt, retest_flag,
                        servstat_thrid, lock, pos, asked, cmd, short, main, asks, ctls>>
(* Time passes: the last test of a server is longer ago than its interval.             *)
Age(i, j) == /\ i \in DOMAIN servers /\ j \in DOMAIN Atup(i)
             /\ NeedsIntermittentTesting(servers[i]) /\ Atup(i)[j].ts = "recent"
             /\ servers' = [servers EXCEPT ![i].atup[j].ts = "due"]
             /\ UNCHANGED <<server_data_users, server_status_ping, signal_interrupt, retest_flag,
                            servstat_thrid, lock, at, pos, asked, cmd, short, main, asks, ctls>>

-----------------------------------------------------------------------------
(* main starts the status thread without the mutex, and notes which it is afterwards.  *)
StartStat == /\ main = "before" /\ main' = "creating"
             /\ at' = [at EXCEPT ![Stat] = "starting"]
             /\ UNCHANGED <<servers, server_data_users, server_status_ping, signal_interrupt, retest_flag,
                            servstat_thrid, lock, pos, asked, cmd, short, asks, ctls>>
NoteStat  == /\ main = "creating" /\ main' = "after"
             /\ servstat_thrid' = "stat"
             /\ UNCHANGED <<servers, server_data_users, server_status_ping, signal_interrupt, retest_flag,
                            lock, at, pos, asked, cmd, short, asks, ctls>>

-----------------------------------------------------------------------------
(* Queries: p_dns_cached_resolve, p_dns_resolve and what p_recursive_query reports.    *)
OnQuery == \E i \in DOMAIN servers : servers[i].interval = "onquery"
Ask(t) == /\ main = "after" /\ at[t] = "idle" /\ lock = Free
          /\ asks[t] < MaxAsk /\ asks' = [asks EXCEPT ![t] = @ + 1]
          /\ at' = [at EXCEPT ![t] = IF OnQuery THEN "scanning" ELSE "reading"]
          /\ server_data_users' = server_data_users + (IF OnQuery THEN 0 ELSE 1)
          /\ lock' = IF OnQuery THEN t ELSE Free
          /\ pos' = [pos EXCEPT ![t] = Start]
          /\ UNCHANGED <<servers, server_status_ping, signal_interrupt, retest_flag,
                         servstat_thrid, asked, cmd, short, main, ctls>>
AllTested(t) == /\ lock = t /\ Ahead(t) = {}
                /\ lock' = Free /\ at' = [at EXCEPT ![t] = "ready"]
                /\ UNCHANGED <<servers, server_data_users, server_status_ping, signal_interrupt, retest_flag,
                               servstat_thrid, pos, asked, cmd, short, main, asks, ctls>>
(* lock_server_data and unlock_server_data, around the reading of the table.           *)
LockData(t, from, to) ==
  /\ at[t] = from /\ lock = Free
  /\ server_data_users' = server_data_users + 1
  /\ at' = [at EXCEPT ![t] = to]
  /\ UNCHANGED <<servers, server_status_ping, signal_interrupt, retest_flag, servstat_thrid, lock, pos,
                 asked, short, main, asks>>
UnlockData(t, from, to) ==
  /\ at[t] = from /\ lock = Free
  /\ LeaveData([at EXCEPT ![t] = to])
  /\ UNCHANGED <<servers, server_status_ping, signal_interrupt, retest_flag, servstat_thrid, lock, pos,
                 short, main, asks, ctls>>
ReadServers(t) == LockData(t, "ready", "reading") /\ UNCHANGED <<cmd, ctls>>
(* One of the servers that are up, and whether its section is tested; or none is up.   *)
UpServers == UNION {{[op |-> "ask", a |-> Atup(i)[j].a, needs |-> NeedsTesting(servers[i])] :
                       j \in {k \in DOMAIN Atup(i) : Atup(i)[k].up}} : i \in DOMAIN servers}
PickServer(t) ==
  \/ /\ UpServers # {} /\ UnlockData(t, "reading", "asking")
     /\ \E s \in UpServers : asked' = [asked EXCEPT ![t] = s]
     /\ UNCHANGED cmd
  \/ UpServers = {} /\ UnlockData(t, "reading", "idle") /\ UNCHANGED <<asked, cmd>>

(* sched_server_test and mark_servers: the marked addresses, and those to be retested. *)
Marks == {"up", "down", "retest"}
Marked(x, m) == IF m = "retest" THEN [x EXCEPT !.ts = "zero"]
                                ELSE [x EXCEPT !.up = (m = "up"), !.ts = "recent"]
Mark(chosen(_, _), m) ==
  servers' = [i \in DOMAIN servers |-> [servers[i] EXCEPT !.atup =
                [j \in DOMAIN @ |-> IF chosen(i, @[j]) THEN Marked(@[j], m) ELSE @[j]]]]
Asks(chosen(_, _), m) ==
  m = "retest" /\ \E i \in DOMAIN servers : \E j \in DOMAIN Atup(i) :
                          chosen(i, Atup(i)[j]) /\ Atup(i)[j].ts # "zero"

(* Mutant: sched_server_test without the signal. *)
ReportSilently(t) ==
  /\ at[t] = "asking" /\ lock = Free
  /\ at' = [at EXCEPT ![t] = "idle"] /\ asked' = [asked EXCEPT ![t] = Nothing]
  /\ \E m \in Marks : asked[t].needs /\ Mark(LAMBDA i, x : x.a = asked[t].a, m)
  /\ UNCHANGED <<server_data_users, server_status_ping, signal_interrupt, retest_flag, servstat_thrid,
                 lock, pos, cmd, short, main, asks, ctls>>
(* The server answered, could not be reached, or let the query time out; the wake-up   *)
(* is for a thread that is there.                                                      *)
Report(t) ==
  /\ at[t] = "asking" /\ lock = Free
  /\ LET gone == [at EXCEPT ![t] = "idle"]
         same(i, x) == x.a = asked[t].a
     IN  \/ /\ asked[t].needs
            /\ \E m \in Marks : /\ Mark(same, m)
                                                   /\ at' = IF Asks(same, m) THEN WakeStat(gone) ELSE gone
         \/ ~asked[t].needs /\ at' = gone /\ UNCHANGED servers
  /\ asked' = [asked EXCEPT ![t] = Nothing]
  /\ UNCHANGED <<server_data_users, server_status_ping, signal_interrupt, retest_flag, servstat_thrid,
                 lock, pos, cmd, short, main, asks, ctls>>

-----------------------------------------------------------------------------
(* The control thread: mark_servers, change_servers, reload_config_file.               *)
Command == /\ main = "after" /\ at[Ctl] = "idle" /\ lock = Free
           /\ ctls < MaxCtl /\ ctls' = ctls + 1

(* A test was asked for: wake the status thread, for one more pass if it is in one.    *)
Schedule(asks0, where) ==
  \/ asks0 /\ WakeOrStart(where) /\ retest_flag' = (retest_flag \/ servstat_thrid # "main")
  \/ ~asks0 /\ at' = where /\ UNCHANGED <<retest_flag, servstat_thrid>>

MarkServers ==
  /\ Command
  /\ \E S \in {{i} : i \in DOMAIN servers} \cup {DOMAIN servers}, m \in Marks :
       LET ofS(i, x) == i \in S
       IN  Mark(ofS, m) /\ Schedule(Asks(ofS, m), at)
  /\ UNCHANGED <<server_data_users, server_status_ping, signal_interrupt, lock, pos, asked, cmd, short,
                 main, asks>>

(* Exclusive access: long tests are interrupted, and the thread waits until nobody     *)
(* uses the table; then it has the mutex, and keeps it while it changes the table.     *)
Interrupting == server_status_ping > 0 /\ servstat_thrid # "main"
(* Mutant: exclusive access as soon as no long test runs. *)
ExclusiveOfTests == server_status_ping = 0
Exclusive == server_data_users = 0

Addrs(i) == [j \in DOMAIN Atup(i) |-> Atup(i)[j].a]
(* change_servers: other addresses, marked or to be tested.                            *)
NewAddr(s, a, m) == Marked([a |-> a, up |-> s.preset, ts |-> "zero"], m)
PutAddrs(c) == [servers EXCEPT ![c.i].atup = [j \in DOMAIN c.addrs |-> NewAddr(servers[c.i], c.addrs[j], c.m)]]
Perform(c, where) ==
  \/ /\ c.op = "change"
     /\ servers' = PutAddrs(c)
     /\ Schedule(c.m = "retest" /\ c.addrs # <<>>, where)
  \/ /\ c.op = "reload"
     /\ servers' = Loaded(c.config)
     /\ WakeOrStart(where) /\ UNCHANGED retest_flag

Enter(c) == \/ /\ Exclusive
               /\ Perform(c, [at EXCEPT ![Ctl] = "idle"]) /\ cmd' = Nothing
            \/ /\ ~Exclusive
               /\ at' = [at EXCEPT ![Ctl] = "waiting"] /\ cmd' = c
               /\ UNCHANGED <<servers, retest_flag, servstat_thrid>>
Change == /\ Command
          /\ \E i \in DOMAIN servers, addrs \in AddrLists, m \in Marks :
               \/ /\ addrs # Addrs(i)
                  /\ signal_interrupt' = (signal_interrupt \/ Interrupting)
                  /\ Enter([op |-> "change", i |-> i, addrs |-> addrs, m |-> m])
               \/ /\ addrs = Addrs(i)
                  /\ LET of(k, x) == k = i
                     IN  Mark(of, m) /\ Schedule(Asks(of, m), at)
                  /\ UNCHANGED <<signal_interrupt, cmd>>
          /\ UNCHANGED <<server_data_users, server_status_ping, lock, pos, asked, short, main, asks>>
Reload == /\ Command
          /\ signal_interrupt' = (signal_interrupt \/ Interrupting)
          /\ \E c \in Configs : Enter([op |-> "reload", config |-> c])
          /\ UNCHANGED <<server_data_users, server_status_ping, lock, pos, asked, short, main, asks>>
Retry  == /\ at[Ctl] = "woken" /\ lock = Free
          /\ Enter(cmd)
          /\ UNCHANGED <<server_data_users, server_status_ping, signal_interrupt, lock, pos, asked, short,
                         main, asks, ctls>>
GiveUp == /\ at[Ctl] = "waiting" /\ lock = Free
          /\ at' = [at EXCEPT ![Ctl] = "idle"] /\ cmd' = Nothing
          /\ UNCHANGED <<servers, server_data_users, server_status_ping, signal_interrupt, retest_flag,
                         servstat_thrid, lock, pos, asked, short, main, asks, ctls>>
(* report_conf_stat                                                                    *)
ReportConf == Command /\ LockData(Ctl, "idle", "reporting") /\ UNCHANGED cmd
Reported   == UnlockData(Ctl, "reporting", "idle") /\ UNCHANGED <<asked, cmd>>

-----------------------------------------------------------------------------
StatStep  == BeginPass \/ BeginTest(Stat) \/ EndTest(Stat) \/ EndPass
QueryStep(t) == BeginTest(t) \/ EndTest(t) \/ AllTested(t) \/ ReadServers(t) \/ PickServer(t) \/ Report(t)
CtlStep   == Retry \/ Reported
Operator  == MarkServers \/ Change \/ Reload \/ ReportConf
Next == \/ StatStep \/ CtlStep \/ Operator \/ GiveUp
        \/ StartStat \/ NoteStat \/ Timer
        \/ \E t \in Query : QueryStep(t) \/ Ask(t)
        \/ \E i \in DOMAIN servers : \E j \in DOMAIN Atup(i) : Age(i, j)

(* Threads go on, tests end, and whoever wants the mutex gets it some time; the timer  *)
(* fires when its time has come.                                                       *)
Fairness == /\ SF_vars(StatStep) /\ SF_vars(CtlStep) /\ \A t \in Query : SF_vars(QueryStep(t))
            /\ WF_vars(StartStat \/ NoteStat) /\ WF_vars(TimeCame /\ Timer)
Spec == Init /\ [][Next]_vars /\ Fairness

-----------------------------------------------------------------------------
InTable(t) == at[t] \in {"testing", "reading", "reporting"}
StatPlaces  == {"none", "starting", "scanning", "testing", "asleep", "awake"}
QueryPlaces == {"idle", "scanning", "testing", "ready", "reading", "asking"}
CtlPlaces   == {"idle", "waiting", "woken", "reporting"}
TypeOK == /\ servers \in Seq(ServParm)
          /\ server_data_users \in Nat /\ server_status_ping \in {0, 1}
          /\ {signal_interrupt, retest_flag, short} \subseteq BOOLEAN
          /\ servstat_thrid \in {"main", "stat"} /\ lock \in Tester \cup {Free}
          /\ main \in {"before", "creating", "after"}
          /\ DOMAIN at = Tester \cup {Ctl}
          /\ at[Stat] \in StatPlaces /\ at[Ctl] \in CtlPlaces
          /\ \A t \in Query : at[t] \in QueryPlaces

(* server_data_users is the number of threads that use the table without the mutex:    *)
(* the assertions before its decrements hold, and exclusive access is never refused    *)
(* for a user that is gone (servers.c 194, 300, 696).                                  *)
UsersCounted == server_data_users = Cardinality({t \in Tester \cup {Ctl} : InTable(t)})

(* While a thread reads the table without the mutex, or is in the middle of a pass     *)
(* with a pointer to its section, the sections and their addresses stay (servers.c     *)
(* 721, 794: the arrays are freed when they are replaced).                             *)
Shape(table) == [i \in DOMAIN table |-> [j \in DOMAIN table[i].atup |-> table[i].atup[j].a]]
ReadersKeepData == [][Shape(servers') # Shape(servers) =>
                        lock = Free /\ \A t \in Tester \cup {Ctl} : ~InTable(t)]_vars

(* The status thread main started is gone, and main noted it too late (servers.c 528). *)
Stale == main = "after" /\ servstat_thrid = "stat" /\ at[Stat] = "none"

(* As long as some section is to be tested again, there is a thread that does it: one  *)
(* that ended is started again when a new configuration needs it (servers.c 466, 736). *)
ThreadForTesting ==
  main = "after" /\ (\E i \in DOMAIN servers : NeedsTesting(servers[i])) => at[Stat] # "none" \/ Stale

(* A test asked for is not slept over: while the status thread sleeps for longer than  *)
(* half a second, no server waits for its test, except one of a section that test_     *)
(* onquery tests (sched_server_test, mark_servers and change_servers set the time to   *)
(* zero and signal; a signal during a pass is lost, the zero is not).                  *)
NoTestSleptOver == at[Stat] = "asleep" /\ ~short => ~Pending

(* No test is forgotten: there is a thread for those that are due, and it does not     *)
(* sleep over those that were asked for.                                               *)
NoTestForgotten == ThreadForTesting /\ NoTestSleptOver

(* A server whose test is due or asked for is tested, or loses its place in the table, *)
(* whatever interrupts and wakes the status thread; unless no section needs testing    *)
(* any more, or the thread was noted too late.                                         *)
Waits(i, j) == /\ i \in DOMAIN servers /\ j \in DOMAIN Atup(i)
               /\ NeedsTesting(servers[i])
               /\ Atup(i)[j].ts = "zero" \/ (NeedsIntermittentTesting(servers[i]) /\ Atup(i)[j].ts = "due")
TestsHappen == \A i, j \in 1..2 : Waits(i, j) ~> (~Waits(i, j) \/ Stale)

(* A test the operator or a query asks for is made, in every section that names one:   *)
(* "we set the timestamp to zero and signal a condition which should wake up the       *)
(* server test thread" (servers.c 564, 620).                                           *)
Unmade(i, j) == /\ i \in DOMAIN servers /\ j \in DOMAIN Atup(i)
                /\ servers[i].test # "none" /\ Atup(i)[j].ts = "zero"
AskedIsTested == \A i, j \in 1..2 : Unmade(i, j) ~> ~Unmade(i, j)
=============================================================================
