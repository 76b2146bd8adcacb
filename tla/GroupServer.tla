---------------------------- MODULE GroupServer ----------------------------
(* Project1/Server: the group servers.  communicate_server.c has the calls a   *)
(* client makes, one at a time in svc_run; communicate_svc.c registers with    *)
(* the registry, echoes its pings, and ends after a Deregister.                *)
(*                                                                             *)
(* An article is its four fields, of which the last is the content, and a      *)
(* filter likewise, with "" for a field that may be anything.                  *)
EXTENDS Registry

CONSTANTS
    Clients, Articles, Filters,
    MAXCLIENT,
    MaxStarts,   \* MaxStarts[s]: how often group server s is started
    Leavers      \* servers that are given the command Deregister

Anything == ""

ASSUME GroupAssumption ==
    /\ IsFiniteSet(Clients)
    /\ \A f \in Filters : DOMAIN f = 1..4
    /\ MAXCLIENT \in Nat /\ MaxStarts \in [Servers -> Nat] /\ Leavers \subseteq Servers

VARIABLES
    starts,       \* starts[s]: how often server s was started
    running,      \* server processes that run
    bound,        \* those whose heartbeat thread has bound HBPORT
    port,         \* port[s]: which start of s the port mapper of its host names
    leaving,      \* those with Is_live = false
    g_clientList  \* g_clientList[s]: a function from its clients to their filters

group == <<starts, running, bound, port, leaving, g_clientList>>

GroupInit ==
    /\ starts = [s \in Servers |-> 0] /\ port = [s \in Servers |-> 0]
    /\ running = {} /\ bound = {} /\ leaving = {}
    /\ g_clientList = [s \in Servers |-> <<>>]

Joined(s) == DOMAIN g_clientList[s]

Serves(s) == s \in running /\ port[s] = starts[s]

----------------------------------------------------------------------------
(* The calls: the list of server s afterwards.  A call that cannot be carried  *)
(* out leaves it as it is; the result that says so is looked at by no client.  *)

\* "The server is full" or "already registered".
JoinedFull(s, c) == \* mutant: without the limit
    IF c \in Joined(s)
    THEN g_clientList[s]
    ELSE [x \in Joined(s) \cup {c} |-> IF x = c THEN {} ELSE g_clientList[s][x]]
join(s, c) ==
    IF Cardinality(Joined(s)) >= MAXCLIENT \/ c \in Joined(s)
    THEN g_clientList[s]
    ELSE [x \in Joined(s) \cup {c} |-> IF x = c THEN {} ELSE g_clientList[s][x]]

leave(s, c) == [x \in Joined(s) \ {c} |-> g_clientList[s][x]]

subscribe(s, c, f) ==
    [x \in Joined(s) |-> g_clientList[s][x] \cup IF x = c THEN {f} ELSE {}]

UnsubscribedNone(s, c, f) == g_clientList[s] \* mutant: the filter stays
unsubscribe(s, c, f) ==
    [x \in Joined(s) |-> g_clientList[s][x] \ IF x = c THEN {f} ELSE {}]

\* A filter that says something, and says of no field what it is not.
MatchesSome(f, a) == \E j \in DOMAIN f : f[j] # Anything /\ f[j] = a[j] \* mutant
Matches(f, a) ==
    /\ \E j \in DOMAIN f : f[j] # Anything
    /\ \A j \in DOMAIN f : f[j] \in {Anything, a[j]}

\* To whom publish unicasts the article, once each.
Recipients(s, a) == {c \in Joined(s) : \E f \in g_clientList[s][c] : Matches(f, a)}

Call(s, list) ==
    /\ Serves(s)
    /\ g_clientList' = [g_clientList EXCEPT ![s] = list]
    /\ UNCHANGED <<starts, running, bound, port, leaving>>

----------------------------------------------------------------------------
(* The process.  It registers first; then its heartbeat thread binds the port  *)
(* the registry's pings go to, and the main thread goes on to svc_run.         *)

StartServer(s) ==
    /\ s \notin running /\ starts[s] < MaxStarts[s]
    /\ starts' = [starts EXCEPT ![s] = @ + 1]
    /\ running' = running \cup {s}
    /\ g_clientList' = [g_clientList EXCEPT ![s] = <<>>]
    /\ datagrams' = datagrams \cup {[op |-> "Register", server |-> s]}
    /\ UNCHANGED <<bound, port, leaving, registryUp, g_serverList, heart, strayed, silent>>

Bind(s) ==
    /\ s \in running \ bound
    /\ bound' = bound \cup {s}
    /\ silent' = silent \ {s}
    /\ UNCHANGED <<starts, running, port, leaving, g_clientList, registryUp, g_serverList,
                   heart, datagrams, strayed>>

\* pmap_unset, then svc_register under a port of this process.
Serve(s) ==
    /\ s \in running /\ ~Serves(s)
    /\ port' = [port EXCEPT ![s] = starts[s]]
    /\ UNCHANGED <<starts, running, bound, leaving, g_clientList, registry>>

\* The command: Deregister is sent, and calls are still served.
Leave(s) ==
    /\ s \in (running \ leaving) \cap Leavers
    /\ leaving' = leaving \cup {s}
    /\ datagrams' = datagrams \cup {[op |-> "Deregister", server |-> s]}
    /\ UNCHANGED <<starts, running, bound, port, g_clientList, registryUp, g_serverList,
                   heart, strayed, silent>>

\* The port mapper is not told.
Gone(s) ==
    /\ running' = running \ {s} /\ bound' = bound \ {s}
    /\ leaving' = leaving \ {s}
    /\ ping' = IF asked = s /\ ping = "sent" THEN "lost" ELSE ping
    /\ UNCHANGED <<starts, port, g_clientList, registryUp, g_serverList, it, freed, asked,
                   datagrams, strayed, silent>>

\* Ten seconds without a ping from the registry end a server that leaves.
Quiet(s) == ~registryUp \/ s \notin Listed

EndServer(s) == s \in leaving \cap bound /\ Quiet(s) /\ Gone(s)

CrashServer(s) == s \in running /\ Gone(s)

GroupTypeOK ==
    /\ starts \in [Servers -> Nat] /\ \A s \in Servers : starts[s] <= MaxStarts[s]
    /\ port \in [Servers -> Nat] /\ \A s \in Servers : port[s] <= starts[s]
    /\ leaving \subseteq running /\ bound \subseteq running /\ running \subseteq Servers
    /\ \A s \in Servers :
         /\ Joined(s) \subseteq Clients /\ Cardinality(Joined(s)) <= MAXCLIENT
         /\ \A c \in Joined(s) : g_clientList[s][c] \subseteq Filters
============================================================================
