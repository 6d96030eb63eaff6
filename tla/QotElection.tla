---------------------------- MODULE QotElection ----------------------------
(***************************************************************************)
(* The election of a master among the edge brokers of a network            *)
(* (service/broker/zk_logic.c).  The master holds an ephemeral znode, the  *)
(* lock; the others watch it.  Requests are asynchronous: each has a       *)
(* completion routine, which the client library calls, one event at a      *)
(* time, in the order in which the events reached it.                      *)
(*                                                                         *)
(* The ZooKeeper service and its client library are external: sessions,    *)
(* the lock, watches and connections, as far as zk_logic.c relies on them. *)
(***************************************************************************)
EXTENDS Integers, Sequences, FiniteSets

CONSTANTS
    Broker,
    server_id,      \* server_id[b]: the random number that b writes into the lock
    Nil,
    DropsAtStart,   \* whether a connection may break before the first request
    TimesOut,       \* whether a broken connection may be reported as a timeout
    Overlap,        \* whether a broker may fail while another is cut off
    MaxDrops,       \* bound on broken connections
    MaxCrashes      \* bound on brokers that crash

ASSUME ElectionAssumption ==
    /\ Nil \notin Broker
    /\ DOMAIN server_id = Broker
    /\ {DropsAtStart, TimesOut, Overlap} \subseteq BOOLEAN

VARIABLES
    alive,      \* brokers that run
    pc,         \* the main thread in init_zk_logic
    connected, expired, leader,     \* the static variables of zk_logic.c
    op,         \* the request whose completion is awaited
    asked,      \* brokers whose request has not been answered
    inbox,      \* events that the client library has yet to hand over
    session,    \* session[b]: "new" before the first connection, "live", "gone"
    link,       \* brokers whose connection is up
    owner,      \* the broker whose session holds the lock
    watch,      \* watch[b]: the owner that b watches
    drops, crashes

client  == <<alive, pc, connected, expired, leader>>
service == <<session, link, owner, watch>>
vars    == <<client, op, asked, inbox, service, drops, crashes>>

Event(type) == [type |-> type, id |-> Nil]

SessionEvents == {"CONNECTED", "CONNECTING", "EXPIRED"}
WatchEvents   == {"DELETED", "CHANGED"}
Completions   == {"ZOK", "ZNODEEXISTS", "ZNONODE", "ZCONNECTIONLOSS", "ZOPERATIONTIMEOUT"}

-----------------------------------------------------------------------------
\* The service and the client library.

\* Who is told at once when the lock goes away.
Notified(b) == watch[b] # Nil /\ b \in link

\* A request is carried out, and what the client is told.
Perform(b) ==
    /\ owner' = IF op[b] = "create" /\ owner = Nil THEN b ELSE owner
    /\ watch' = IF op[b] = "exists" /\ owner # Nil THEN [watch EXCEPT ![b] = owner] ELSE watch

Reply(b) ==
    CASE op[b] = "create" -> Event(IF owner = Nil THEN "ZOK" ELSE "ZNODEEXISTS")
      [] op[b] = "exists" -> Event(IF owner = Nil THEN "ZNONODE" ELSE "ZOK")
      [] op[b] = "get"    -> IF owner = Nil THEN Event("ZNONODE")
                             ELSE [type |-> "ZOK", id |-> server_id[owner]]

Execute(b) ==
    /\ b \in asked \cap link
    /\ Perform(b)
    /\ inbox' = [inbox EXCEPT ![b] = Append(@, Reply(b))]
    /\ asked' = asked \ {b}
    /\ UNCHANGED <<client, op, session, link, drops, crashes>>

\* A connection comes up, with a new session or with the one there was.  The
\* library renews a watch: it learns that the lock has gone, or that it has
\* changed hands, in which case the watch is used up.
Connect(b) ==
    /\ b \in alive \ link
    /\ session[b] # "gone"
    /\ session' = [session EXCEPT ![b] = "live"]
    /\ link' = link \cup {b}
    /\ LET moved == watch[b] # Nil /\ owner # watch[b]
       IN  /\ inbox' = [inbox EXCEPT ![b] = @ \o <<Event("CONNECTED")>> \o
                            (IF ~ moved THEN <<>>
                             ELSE <<Event(IF owner = Nil THEN "DELETED" ELSE "CHANGED")>>)]
           /\ watch' = IF moved THEN [watch EXCEPT ![b] = Nil] ELSE watch
    /\ UNCHANGED <<client, op, asked, owner, drops, crashes>>

\* A broker may fail now.
MayFail == Overlap \/ \A b \in Broker : session[b] = "live" => b \in link

\* A connection breaks.  An unanswered request, which may or may not have been
\* carried out, completes with an error.  (A watch is kept by the library, from
\* the answer on.)
Drop(b, rc) ==
    /\ b \in link /\ drops < MaxDrops /\ MayFail
    /\ DropsAtStart \/ pc[b] \notin {"start", "campaign"}
    /\ drops' = drops + 1
    /\ link' = link \ {b}
    /\ inbox' = [inbox EXCEPT ![b] = Append(@, Event("CONNECTING")) \o
                                     (IF b \in asked THEN <<Event(rc)>> ELSE <<>>)]
    /\ asked' = asked \ {b}
    /\ \/ b \in asked /\ op[b] = "create" /\ owner = Nil /\ owner' = b
       \/ UNCHANGED owner
    /\ UNCHANGED <<client, op, session, watch, crashes>>

\* The service gives up a session without a connection; its lock is deleted.
Expire(b) ==
    /\ session[b] = "live" /\ b \notin link
    /\ session' = [session EXCEPT ![b] = "gone"]
    /\ IF owner = b
       THEN /\ owner' = Nil
            /\ inbox' = [c \in Broker |-> IF Notified(c) THEN Append(inbox[c], Event("DELETED"))
                                          ELSE inbox[c]]
            /\ watch' = [c \in Broker |-> IF Notified(c) THEN Nil ELSE watch[c]]
       ELSE UNCHANGED <<owner, inbox, watch>>
    /\ UNCHANGED <<client, op, asked, link, drops, crashes>>

\* A client that comes back too late is told.
Refuse(b) ==
    /\ b \in alive /\ session[b] = "gone" /\ ~ expired[b]
    /\ ~ \E i \in DOMAIN inbox[b] : inbox[b][i].type = "EXPIRED"
    /\ inbox' = [inbox EXCEPT ![b] = Append(@, Event("EXPIRED"))]
    /\ UNCHANGED <<client, op, asked, service, drops, crashes>>

Crash(b) ==
    /\ b \in alive /\ crashes < MaxCrashes /\ MayFail
    /\ crashes' = crashes + 1
    /\ alive' = alive \ {b}
    /\ pc' = [pc EXCEPT ![b] = "dead"]
    /\ leader' = [leader EXCEPT ![b] = FALSE]
    /\ op' = [op EXCEPT ![b] = "none"]
    /\ asked' = asked \ {b}
    /\ inbox' = [inbox EXCEPT ![b] = <<>>]
    /\ link' = link \ {b}
    /\ watch' = [watch EXCEPT ![b] = Nil]
    /\ UNCHANGED <<connected, expired, session, owner, drops>>

-----------------------------------------------------------------------------
\* zk_logic.c: requests.

Submit(b, request) ==
    /\ op' = [op EXCEPT ![b] = request]
    /\ asked' = asked \cup {b}

check_master(b) == Submit(b, "get") /\ UNCHANGED leader

take_leadership(b) ==
    /\ leader' = [leader EXCEPT ![b] = TRUE]
    /\ op' = [op EXCEPT ![b] = "none"]
    /\ UNCHANGED asked

master_exists(b) ==
    /\ leader' = [leader EXCEPT ![b] = FALSE]
    /\ Submit(b, "exists")

Nothing(b) == op' = [op EXCEPT ![b] = "none"] /\ UNCHANGED <<asked, leader>>

run_for_master(b) ==
    IF connected[b] THEN Submit(b, "create") /\ UNCHANGED leader ELSE Nothing(b)

-----------------------------------------------------------------------------
\* zk_logic.c: completions.

\* Mutant: after a lost connection nobody looks into the lock.
create_completion_forgets(b, rc) ==
    CASE rc = "ZOK"         -> take_leadership(b)
      [] rc = "ZNODEEXISTS" -> master_exists(b)
      [] OTHER              -> Nothing(b)

master_create_completion(b, rc) ==
    CASE rc = "ZCONNECTIONLOSS" -> check_master(b)
      [] rc = "ZOK"             -> take_leadership(b)
      [] rc = "ZNODEEXISTS"     -> master_exists(b)
      [] OTHER                  -> Nothing(b)

\* Mutant: whoever holds the lock.
check_completion_any(b, rc, id) ==
    CASE rc \in {"ZCONNECTIONLOSS", "ZOPERATIONTIMEOUT"} -> check_master(b)
      [] rc = "ZOK"                                      -> take_leadership(b)
      [] rc = "ZNONODE"                                  -> run_for_master(b)
      [] OTHER                                           -> Nothing(b)

master_check_completion(b, rc, id) ==
    CASE rc \in {"ZCONNECTIONLOSS", "ZOPERATIONTIMEOUT"} -> check_master(b)
      [] rc = "ZOK" /\ id = server_id[b]                 -> take_leadership(b)
      [] rc = "ZOK" /\ id # server_id[b]                 -> master_exists(b)
      [] rc = "ZNONODE"                                  -> run_for_master(b)
      [] OTHER                                           -> Nothing(b)

\* Mutant: the lock that went away before the watch was set.
exists_completion_ends(b, rc) ==
    CASE rc \in {"ZCONNECTIONLOSS", "ZOPERATIONTIMEOUT"} -> master_exists(b)
      [] OTHER                                           -> Nothing(b)

master_exists_completion(b, rc) ==
    CASE rc \in {"ZCONNECTIONLOSS", "ZOPERATIONTIMEOUT"} -> master_exists(b)
      [] rc = "ZNONODE"                                  -> run_for_master(b)
      [] OTHER                                           -> Nothing(b)

\* The client library takes the next event, which is of one of these types.
Next_event(b, types) ==
    /\ b \in alive
    /\ inbox[b] # <<>> /\ Head(inbox[b]).type \in types

Completion(b) ==
    /\ Next_event(b, Completions)
    /\ inbox' = [inbox EXCEPT ![b] = Tail(@)]
    /\ LET rc == Head(inbox[b]).type
       IN  \/ op[b] = "create" /\ master_create_completion(b, rc)
           \/ op[b] = "get"    /\ master_check_completion(b, rc, Head(inbox[b]).id)
           \/ op[b] = "exists" /\ master_exists_completion(b, rc)
    /\ UNCHANGED <<alive, pc, connected, expired, service, drops, crashes>>

-----------------------------------------------------------------------------
\* zk_logic.c: watchers and the main thread.

\* The lock has gone: run for master.  Any other event of the lock is logged.
master_exists_watcher(b) ==
    /\ Next_event(b, WatchEvents)
    /\ inbox' = [inbox EXCEPT ![b] = Tail(@)]
    /\ IF Head(inbox[b]).type = "DELETED"
       THEN run_for_master(b)
       ELSE UNCHANGED <<op, asked, leader>>
    /\ UNCHANGED <<alive, pc, connected, expired, service, drops, crashes>>

\* Closing a session ends the request and discards the events that are left.
zookeeper_close(b) ==
    /\ inbox' = [inbox EXCEPT ![b] = <<>>]
    /\ op' = [op EXCEPT ![b] = "none"]
    /\ asked' = asked \ {b}

\* Session events.  An expired session is closed.
main_watcher(b) ==
    /\ Next_event(b, SessionEvents)
    /\ LET state == Head(inbox[b]).type
       IN  /\ connected' = [connected EXCEPT ![b] = state = "CONNECTED"]
           /\ IF state = "EXPIRED"
              THEN expired' = [expired EXCEPT ![b] = TRUE] /\ zookeeper_close(b)
              ELSE /\ inbox' = [inbox EXCEPT ![b] = Tail(@)]
                   /\ UNCHANGED <<expired, op, asked>>
    /\ UNCHANGED <<alive, pc, leader, service, drops, crashes>>

\* init_zk_logic waits until it is connected, ...
WaitConnected(b) ==
    /\ pc[b] = "start" /\ connected[b]
    /\ pc' = [pc EXCEPT ![b] = "campaign"]
    /\ UNCHANGED <<alive, connected, expired, leader, op, asked, inbox, service, drops, crashes>>

\* ... runs for master, ...
Campaign(b) ==
    /\ pc[b] = "campaign"
    /\ pc' = [pc EXCEPT ![b] = "standby"]
    /\ run_for_master(b)
    /\ UNCHANGED <<alive, connected, expired, inbox, service, drops, crashes>>

\* ... and returns once it leads: the broker serves.
WaitLeader(b) ==
    /\ pc[b] = "standby" /\ leader[b]
    /\ pc' = [pc EXCEPT ![b] = "serving"]
    /\ UNCHANGED <<alive, connected, expired, leader, op, asked, inbox, service, drops, crashes>>

-----------------------------------------------------------------------------
Init ==
    /\ alive = Broker
    /\ pc = [b \in Broker |-> "start"]
    /\ connected = [b \in Broker |-> FALSE]
    /\ expired = [b \in Broker |-> FALSE]
    /\ leader = [b \in Broker |-> FALSE]
    /\ op = [b \in Broker |-> "none"]
    /\ asked = {}
    /\ inbox = [b \in Broker |-> <<>>]
    /\ session = [b \in Broker |-> "new"]
    /\ link = {}
    /\ owner = Nil
    /\ watch = [b \in Broker |-> Nil]
    /\ drops = 0 /\ crashes = 0

Failures == {"ZCONNECTIONLOSS"} \cup (IF TimesOut THEN {"ZOPERATIONTIMEOUT"} ELSE {})

\* What the broker and a working service do.
Step(b) ==
    \/ WaitConnected(b) \/ Campaign(b) \/ WaitLeader(b)
    \/ main_watcher(b) \/ Completion(b) \/ master_exists_watcher(b)
    \/ Execute(b) \/ Connect(b) \/ Refuse(b)

Next ==
    \E b \in Broker :
        \/ Step(b)
        \/ \E rc \in Failures : Drop(b, rc)
        \/ Expire(b) \/ Crash(b)

Spec == Init /\ [][Next]_vars

\* Threads run, the service answers and takes connections, and the session of a
\* crashed broker expires.  Nothing else has to break.
FairSpec ==
    /\ Spec
    /\ \A b \in Broker : WF_vars(Step(b)) /\ WF_vars(b \notin alive /\ Expire(b))

-----------------------------------------------------------------------------
\* The types of all variables; a request is waited for only by a broker that made it.
TypeOK ==
    /\ alive \subseteq Broker /\ asked \subseteq alive /\ link \subseteq alive
    /\ pc \in [Broker -> {"start", "campaign", "standby", "serving", "dead"}]
    /\ connected \in [Broker -> BOOLEAN] /\ expired \in [Broker -> BOOLEAN]
    /\ leader \in [Broker -> BOOLEAN]
    /\ op \in [Broker -> {"none", "create", "get", "exists"}]
    /\ session \in [Broker -> {"new", "live", "gone"}]
    /\ owner \in Broker \cup {Nil}
    /\ \A b \in Broker : b \in asked => op[b] # "none"

\* A broker that believes it leads, and whose session the service still knows,
\* holds the lock: hence there is at most one such broker, through lost
\* connections, repeated requests and answers that arrive late.
LeaderHoldsLock == \A b \in alive : leader[b] /\ session[b] = "live" => owner = b

\* A broker at rest on the side lines will hear of the end of the master: it has
\* a watch on the broker that holds the lock, or the session is over.
Resting(b) == b \in alive /\ pc[b] = "standby" /\ op[b] = "none" /\ inbox[b] = <<>>

StandbyWatches ==
    \A b \in Broker : Resting(b) /\ ~ leader[b] /\ session[b] = "live" =>
        watch[b] # Nil /\ (b \in link => owner = watch[b])

\* A broker that holds the lock gets to know it, or loses it.
HolderLeads == \A b \in Broker : owner = b ~> leader[b] \/ owner # b

Candidates == {b \in alive : session[b] = "live"}

Lease == INSTANCE QotLease WITH
    candidates <- Candidates,
    leaders    <- {b \in Candidates : leader[b]}

\* The brokers implement a lease: through crashes, lost connections and sessions
\* that end there is at most one master with a session, none takes over before the
\* one before has lost its session or stepped down, and as long as a broker has a
\* session there is a master again and again.
ImplementsLease == Lease!LeaseSpec

\* At most one broker serves: "each LAN can have multiple edge brokers in
\* active/standby mode, with one of them being the master" (zk_logic.c:1137).
OneServes == \A b, c \in alive : pc[b] = "serving" /\ pc[c] = "serving" => b = c
=============================================================================
