------------------------------ MODULE Registry ------------------------------
(* Project1/Registry/super_server.cpp: the list of group servers, kept by two  *)
(* threads without a lock.  The listen thread takes Register, Deregister and   *)
(* GetList; the heartBeat thread walks the list, sends a ping to each server   *)
(* and waits 2 seconds for its answer before it goes on, or drops the server.  *)
(*                                                                             *)
(* The thread waits with an iterator in its hand, and the node it is at may be *)
(* erased meanwhile by the other thread, and be given to a server that is added *)
(* next: "it" is the server whose address the node holds, "asked" the one that *)
(* the ping went to.                                                           *)
EXTENDS Naturals, Sequences, SequencesExt, FiniteSets

CONSTANTS
    Servers,
    Nobody  \* the end of the list

ASSUME RegistryAssumption == IsFiniteSet(Servers) /\ Nobody \notin Servers

VARIABLES
    registryUp,
    g_serverList, \* servers in order of registration
    it, freed,    \* the iterator's node; TRUE: it has been erased
    asked, ping,  \* the ping to asked: "sent" or "lost"
    datagrams,    \* to the registry
    \* history
    strayed,      \* the iterator's node was erased by a Deregister, in any round
    silent        \* listed, but mute since the round began, and not registered in it

heart == <<it, freed, asked, ping>>
registry == <<registryUp, g_serverList, heart, datagrams, strayed, silent>>

Datagram == [op : {"Register", "Deregister"}, server : Servers]

RegistryInit ==
    /\ registryUp = TRUE
    /\ g_serverList = <<>>
    /\ it = Nobody /\ freed = FALSE /\ asked = Nobody /\ ping = "none"
    /\ strayed = FALSE /\ silent = {}
    /\ datagrams = {}

Listed == ToSet(g_serverList)

----------------------------------------------------------------------------
(* The listen thread.  GetList is answered with g_serverList (PubSub).        *)

addServer(s) == IF s \in Listed THEN g_serverList ELSE Append(g_serverList, s)

\* findServer
Position(s) == CHOOSE i \in DOMAIN g_serverList : g_serverList[i] = s

removeServer(s) ==
    IF s \in Listed THEN RemoveAt(g_serverList, Position(s)) ELSE g_serverList

Register(m) ==
    /\ m.op = "Register"
    /\ g_serverList' = addServer(m.server)
    /\ silent' = silent \ {m.server}
    /\ \/ UNCHANGED <<it, freed>>
       \/ freed /\ m.server \notin Listed /\ freed' = FALSE /\ it' = m.server
    /\ UNCHANGED <<asked, ping, strayed>>

\* The node the other thread's iterator is at may be erased.
Deregister(m) ==
    LET hit == it = m.server /\ ~freed
    IN  /\ m.op = "Deregister"
        /\ g_serverList' = removeServer(m.server)
        /\ freed' = (freed \/ hit) /\ strayed' = (strayed \/ hit)
        /\ UNCHANGED <<it, asked, ping, silent>>

Listen(m) ==
    /\ registryUp /\ m \in datagrams
    /\ datagrams' = datagrams \ {m}
    /\ Register(m) \/ Deregister(m)
    /\ UNCHANGED registryUp

----------------------------------------------------------------------------
(* The heartBeat thread; up are the servers that can answer.  The step back    *)
(* before an erase (it--) and the step of the loop lead, by way of the list's  *)
(* end if the first is erased, to the server after the erased one.            *)

SkipsNext(s) == \* mutant: the iterator is not stepped back
    IF Position(s) + 1 < Len(g_serverList) THEN g_serverList[Position(s) + 2] ELSE Nobody
After(s) ==
    IF Position(s) < Len(g_serverList) THEN g_serverList[Position(s) + 1] ELSE Nobody

PingTo(s, up) ==
    /\ it' = s /\ asked' = s
    /\ ping' = IF s = Nobody THEN "none" ELSE IF s \in up THEN "sent" ELSE "lost"

BeginRound(up) ==
    /\ registryUp /\ it = Nobody /\ g_serverList # <<>>
    /\ silent' = Listed \ up
    /\ PingTo(Head(g_serverList), up)
    /\ UNCHANGED <<registryUp, g_serverList, freed, datagrams, strayed>>

\* it++.  From freed memory: the process ends; or the thread goes on at the node
\* of a server that is listed, at the end, or in other memory freed by the list.
Advance(up) ==
    \/ /\ ~freed
       /\ PingTo(After(it), up)
       /\ UNCHANGED <<registryUp, freed>>
    \/ freed /\ registryUp' = FALSE /\ UNCHANGED heart
    \/ /\ freed /\ UNCHANGED registryUp
       /\ \E s \in Servers \cup {Nobody} :
            /\ PingTo(s, up)
            /\ freed' \in BOOLEAN
            /\ s = Nobody => ~freed'
            /\ s \in Servers \ ToSet(g_serverList') => freed'

Answered(up) ==
    /\ registryUp /\ ping = "sent" /\ asked \in up
    /\ UNCHANGED <<g_serverList, datagrams, strayed, silent>>
    /\ Advance(up)

DroppedPrevious(s) == \* mutant: the address is read after the step back
    IF s \notin Listed \/ Position(s) = 1 THEN g_serverList
    ELSE removeServer(g_serverList[Position(s) - 1])
Dropped(s) == removeServer(s)

\* The address is read again from the node; freed memory may have lost it.
Unanswered(up) ==
    /\ registryUp /\ ping \in {"sent", "lost"}
    /\ \/ g_serverList' = Dropped(it)
       \/ freed /\ UNCHANGED g_serverList
    /\ UNCHANGED <<datagrams, strayed, silent>>
    /\ Advance(up)

RegistryTypeOK ==
    /\ registryUp \in BOOLEAN
    /\ g_serverList \in Seq(Servers) /\ IsInjective(g_serverList)
    /\ it \in Servers \cup {Nobody} /\ asked \in Servers \cup {Nobody}
    /\ ping \in {"none", "sent", "lost"}
    /\ freed \in BOOLEAN /\ strayed \in BOOLEAN /\ silent \subseteq Servers
    /\ datagrams \subseteq Datagram
    /\ it = Nobody => ~freed /\ ping = "none"
    /\ it # Nobody /\ ~freed => it \in Listed
============================================================================
