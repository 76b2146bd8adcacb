------------------------------- MODULE PubSub -------------------------------
(* Project1: clients (Client/communicate_client.cpp) with the group servers    *)
(* and the registry.  A client joins a server, gives it commands, and has a    *)
(* thread that pings it; when a ping fails, the thread asks the registry for   *)
(* the list, joins the first server on it, and starts the next ping thread.    *)
(*                                                                             *)
(* A remote call and its answer are one step.  Of the results only "no answer" *)
(* is looked at.  The articles a client receives it prints.                    *)
EXTENDS GroupServer

CONSTANTS
    Others,       \* <<client, server>>: clients that only join, for the places
                  \* they take: one that ends without "leave" keeps its own
    MaxEnds,      \* server processes that crash or are given Deregister
    MaxLate,      \* answers that come too late, and datagrams lost
    QuickRestart  \* TRUE: a server may be back before the registry notices

ASSUME PubSubAssumption ==
    /\ Others \subseteq Clients \X Servers
    /\ MaxEnds \in Nat /\ MaxLate \in Nat /\ QuickRestart \in BOOLEAN

VARIABLES
    client,     \* client[c]: the process of c
    believes,   \* believes[c]: filters of the calls that were answered
    astray,     \* clients that had to join anew, or gave commands to a server
                \* that does not have them on its list
    registered, \* running servers whose Register was the last to be taken
    early,      \* servers that were pinged before they had bound the port
    ends, late

users == <<client, believes, astray>>
vars == <<registry, group, users, registered, early, ends, late>>

\* host: IP_host; thread: where the ping thread is; handle: which start of the
\* host its CLIENT has the port of; next: an address from the list.
Process(life) ==
    [life |-> life, host |-> Nobody, thread |-> "none", handle |-> 0, next |-> Nobody]

Init ==
    /\ RegistryInit /\ GroupInit
    /\ client = [c \in Clients |-> Process("new")]
    /\ believes = [c \in Clients |-> {}]
    /\ astray = {} /\ registered = {} /\ early = {}
    /\ ends = 0 /\ late = 0

----------------------------------------------------------------------------
(* Servers and registry.                                                      *)

\* Answers after 2 seconds are counted.
Registers(m) ==
    /\ Listen(m)
    /\ registered' = IF m.op = "Register" /\ m.server \in running
                     THEN registered \cup {m.server} ELSE registered \ {m.server}
    /\ UNCHANGED <<group, users, early, ends, late>>

Lose(m) ==
    /\ late < MaxLate /\ late' = late + 1
    /\ m \in datagrams /\ datagrams' = datagrams \ {m}
    /\ UNCHANGED <<registryUp, g_serverList, heart, strayed, silent, group, users,
                   registered, early, ends>>

HeartBeat ==
    /\ \/ (BeginRound(bound) \/ Answered(bound)) /\ late' = late
       \/ ping = "lost" /\ Unanswered(bound) /\ late' = late
       \/ ping = "sent" /\ late < MaxLate /\ Unanswered(bound) /\ late' = late + 1
    /\ early' = early \cup ({asked'} \cap (running \ bound))
    /\ UNCHANGED <<group, users, registered, ends>>

\* The registry does not wait for the server's answer to a ping of before.
Start(s) ==
    /\ QuickRestart \/ ~(asked = s /\ ping = "lost")
    /\ StartServer(s)
    /\ early' = early \ {s}
    /\ UNCHANGED <<users, registered, ends, late>>

StartsUp(s) ==
    /\ Bind(s) \/ Serve(s)
    /\ UNCHANGED <<users, registered, early, ends, late>>

End(s) ==
    /\ \/ CrashServer(s) /\ ends < MaxEnds /\ ends' = ends + 1
       \/ EndServer(s) /\ UNCHANGED ends
    /\ registered' = registered \ {s}
    /\ UNCHANGED <<users, early, late>>

Leaves(s) ==
    /\ Leave(s)
    /\ ends < MaxEnds /\ ends' = ends + 1
    /\ UNCHANGED <<users, registered, early, late>>

ServerStep(s) == Start(s) \/ StartsUp(s) \/ End(s) \/ Leaves(s)

----------------------------------------------------------------------------
(* communicate_prog_1.                                                        *)

servers == <<registry, starts, running, bound, port, leaving, registered, early, ends, late>>

\* With no host or no entry in its port mapper, clnt_create ends the client; if it
\* still has the port of a server that ended, "call failed" is all.
NoAnswer(c, h, after, exit) ==
    /\ ~Serves(h)
    /\ \/ client' = [client EXCEPT ![c] = Process(exit)]
       \/ h \in Servers /\ port[h] > 0 /\ client' = [client EXCEPT ![c] = after]
    /\ UNCHANGED <<g_clientList, believes>>

communicate_prog(c, list, after, wanted) ==
    LET h == after.host
    IN  \/ /\ Call(h, list)
           /\ client' = [client EXCEPT ![c] = after]
           /\ believes' = [believes EXCEPT ![c] = wanted]
        \/ NoAnswer(c, h, after, "ended")

----------------------------------------------------------------------------
(* The main thread.                                                           *)

Active == Clients \ {o[1] : o \in Others}

Main(c) == client[c].life = "up"
host(c) == client[c].host

\* getServerList, of a registry that must be there.
StartClient(c) ==
    /\ client[c].life = "new"
    /\ client' = [client EXCEPT ![c] = Process(IF registryUp THEN "up" ELSE "ended")]
    /\ UNCHANGED <<servers, g_clientList, believes, astray>>

\* Once; the user takes any address.
Join(c, s) ==
    /\ Main(c) /\ host(c) = Nobody /\ client[c].thread = "none"
    /\ communicate_prog(c, join(s, c), [client[c] EXCEPT !.host = s, !.thread = "start"], {})
    /\ UNCHANGED <<servers, astray>>

\* A server that does not have c on its list joins it without filters, and
\* carries out no other command.
Notes(c) ==
    astray' = IF Serves(host(c)) /\ c \notin Joined(host(c)) THEN astray \cup {c}
              ELSE astray

Types == {"Sports", "Lifestyle", "Entertainment", "Busniess", "Technology",
          "Science", "Politics", "Health"}

isValidArticle(a, content) ==
    /\ a[1] \in Types \cup {Anything}
    /\ \E j \in 1..3 : a[j] # Anything
    /\ (a[4] # Anything) = content

Subscribe(c, f) ==
    /\ Main(c) /\ isValidArticle(f, FALSE)
    /\ communicate_prog(c, subscribe(host(c), c, f), client[c], believes[c] \cup {f})
    /\ Notes(c)
    /\ UNCHANGED servers

Unsubscribe(c, f) ==
    /\ Main(c) /\ isValidArticle(f, FALSE)
    /\ communicate_prog(c, unsubscribe(host(c), c, f), client[c], believes[c] \ {f})
    /\ Notes(c)
    /\ UNCHANGED servers

\* The article goes to Recipients(host(c), a); the lists stay as they are.
Publish(c, a) ==
    /\ Main(c) /\ isValidArticle(a, TRUE)
    /\ communicate_prog(c, g_clientList[host(c)], client[c], believes[c])
    /\ UNCHANGED <<servers, astray>>

\* Is_client_live = false, and the ping thread runs on.
LeaveGroup(c) ==
    /\ Main(c)
    /\ communicate_prog(c, leave(host(c), c), [client[c] EXCEPT !.life = "leaving"], {})
    /\ Notes(c)
    /\ UNCHANGED servers

\* The listen thread has waited 5 seconds for an article.
Exit(c) ==
    /\ client[c].life = "leaving"
    /\ client' = [client EXCEPT ![c] = Process("ended")]
    /\ UNCHANGED <<servers, g_clientList, believes, astray>>

Other(c, s) ==
    /\ Call(s, join(s, c))
    /\ UNCHANGED <<registry, users, registered, early, ends, late>>

----------------------------------------------------------------------------
(* The ping thread.                                                           *)

Thread(c, pos) == client[c].life \in {"up", "leaving"} /\ client[c].thread = pos

CreateHandle(c) ==
    /\ Thread(c, "start")
    /\ LET created == [client[c] EXCEPT !.handle = port[host(c)], !.thread =
                          IF client[c].life = "up" THEN "ping" ELSE "none"]
       IN  IF Serves(host(c))
           THEN /\ client' = [client EXCEPT ![c] = created]
                /\ UNCHANGED <<g_clientList, believes>>
           ELSE NoAnswer(c, host(c), created, "failed")
    /\ UNCHANGED <<servers, astray>>

Pings(c) == Serves(host(c)) /\ client[c].handle = port[host(c)]

PingFails(c) ==
    /\ Thread(c, "ping")
    /\ IF Pings(c) THEN late < MaxLate /\ late' = late + 1 ELSE late' = late
    /\ client' = [client EXCEPT ![c].thread = "lookup"]
    /\ UNCHANGED <<registry, group, believes, astray, registered, early, ends>>

\* After sleep(6), in which the registry may have noticed as well or not yet:
\* getServerList and getIPfromList; IP_host is cleared.
GetServerList(c) ==
    /\ Thread(c, "lookup")
    /\ client' = [client EXCEPT ![c] =
         IF registryUp /\ g_serverList # <<>>
         THEN [@ EXCEPT !.thread = "cleared", !.host = Nobody, !.next = Head(g_serverList)]
         ELSE Process("failed")]
    /\ UNCHANGED <<servers, g_clientList, believes, astray>>

CopyAddress(c) ==
    /\ Thread(c, "cleared")
    /\ client' = [client EXCEPT ![c].host = client[c].next, ![c].next = Nobody,
                    ![c].thread = "rejoin"]
    /\ UNCHANGED <<servers, g_clientList, believes, astray>>

\* JOIN, and a new ping thread; the filters are not sent again.
RejoinedOnly(c) == [client[c] EXCEPT !.thread = "none"] \* mutant: no new thread
Rejoined(c) == [client[c] EXCEPT !.thread = "start"]

Rejoin(c) ==
    /\ Thread(c, "rejoin")
    /\ \/ /\ Call(host(c), join(host(c), c))
          /\ client' = [client EXCEPT ![c] = Rejoined(c)]
          /\ Notes(c)
          /\ UNCHANGED believes
       \/ NoAnswer(c, host(c), Rejoined(c), "failed") /\ UNCHANGED astray
    /\ UNCHANGED servers

----------------------------------------------------------------------------
MainStep(c) ==
    \/ StartClient(c) \/ (\E s \in Servers : Join(c, s))
    \/ (\E f \in Filters : Subscribe(c, f) \/ Unsubscribe(c, f))
    \/ (\E a \in Articles : Publish(c, a))
    \/ LeaveGroup(c) \/ Exit(c)

PingStep(c) ==
    CreateHandle(c) \/ PingFails(c) \/ GetServerList(c) \/ CopyAddress(c) \/ Rejoin(c)

Next ==
    \/ \E m \in datagrams : Registers(m) \/ Lose(m)
    \/ HeartBeat
    \/ \E s \in Servers : ServerStep(s)
    \/ \E c \in Active : MainStep(c) \/ PingStep(c)
    \/ \E o \in Others : Other(o[1], o[2])

Spec == Init /\ [][Next]_vars

\* Both kinds of threads run in loops, and every wait in them has a timeout; a
\* server that is started starts up unless it ends.  Nothing is assumed of users,
\* of operators and of the network.
FairSpec ==
    /\ Spec /\ WF_vars(HeartBeat)
    /\ \A s \in Servers : WF_vars(StartsUp(s))
    /\ \A c \in Active : WF_vars(PingStep(c))

----------------------------------------------------------------------------
(* Properties.                                                                *)

\* Shapes; a server's list of clients never gets longer than MAXCLIENT, and the
\* heartbeat waits for a server that is listed.
TypeOK ==
    /\ RegistryTypeOK /\ GroupTypeOK
    /\ client \in [Clients -> [life : {"new", "up", "leaving", "ended", "failed"},
         host : Servers \cup {Nobody}, next : Servers \cup {Nobody}, handle : Nat,
         thread : {"none", "start", "ping", "lookup", "cleared", "rejoin"}]]
    /\ believes \in [Clients -> SUBSET Filters]
    /\ astray \subseteq Clients /\ registered \subseteq running /\ early \subseteq Servers
    /\ ends \in 0..MaxEnds /\ late \in 0..MaxLate

\* After a round of heartbeats no server is left on the list that was mute all the
\* time, although servers are erased from the list meanwhile, by the thread itself
\* and by Deregister: unless one of these takes away the node the thread is at.
RoundClears == it = Nobody /\ ~strayed => silent \cap Listed = {}

\* A server that has registered and has missed no ping stays on the list as long as
\* it runs, whatever becomes of others, if no answer is late, no restart goes
\* unnoticed, and the thread's iterator has always been one of the list.
LiveListed ==
    registryUp /\ late = 0 /\ ~QuickRestart /\ ~strayed => registered \ early \subseteq Listed

\* A server that has ended for good does not stay on the list, also after rounds
\* that went astray, unless the thread never leaves freed memory.
DeadDropped ==
    \A s \in Servers : <>[](registryUp /\ ~freed /\ s \notin running) => <>[](s \notin Listed)

\* Filter f of client c as its user means it.
Wants(c, a) == \E f \in believes[c] : \A j \in 1..4 : f[j] = Anything \/ f[j] = a[j]
AtHome(c) == Serves(host(c)) /\ c \in Joined(host(c))

\* An article published at a server goes to those of its members whose users
\* want it and only to those, except clients gone astray.
Served ==
    \A c \in Clients : AtHome(c) /\ c \notin astray =>
        \A a \in Articles : c \in Recipients(host(c), a) <=> Wants(c, a)

\* The filters of a member: what its commands made them, also if its thread
\* joined the server a second time, or nothing it did not ask for.
Remembered ==
    \A c \in Clients : AtHome(c) =>
        /\ c \notin astray => g_clientList[host(c)][c] = believes[c]
        /\ late = 0 => g_clientList[host(c)][c] \subseteq believes[c]

\* In the end every client that has joined and goes on is with a server that
\* runs, and pings it, whichever servers have ended before, unless the registry's
\* thread never leaves freed memory.
Follows(c) ==
    Main(c) /\ (host(c) # Nobody \/ client[c].thread # "none") =>
        Pings(c) /\ client[c].thread = "ping"
FailsOver == <>[]~freed => \A c \in Clients : <>[]Follows(c)
============================================================================
