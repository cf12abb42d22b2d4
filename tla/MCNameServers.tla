---------------------------- MODULE MCNameServers ----------------------------
(* Instances of NameServers for TLC. *)
EXTENDS NameServers

Section(test, interval, addrs) == [test |-> test, interval |-> interval, preset |-> TRUE, addrs |-> addrs]

(* A server asked again and again beside two pinged when a query times out; one not    *)
(* tested beside one asked on every query; one tested once, by a command.              *)
Timed    == <<Section("query", "timed", <<"a">>), Section("ping", "ontimeout", <<"b", "c">>)>>
OnAsking == <<Section("none", "never", <<"a">>), Section("query", "onquery", <<"b", "c">>)>>
Once     == <<Section("exec", "never", <<"d">>)>>
SomeConfigs == {Timed, OnAsking, Once}
SomeAddrs   == {<<"d">>}
Addresses   == {"a", "b", "c", "d"}
=============================================================================
