--------------------------- MODULE QotCoordinator ---------------------------
(***************************************************************************)
(* The election of a synchronisation master among the nodes that are bound *)
(* to a timeline (service/Coordinator.cpp).  Each node runs a coordinator  *)
(* per timeline.  Once a second a coordinator publishes its requirement,   *)
(* reads what the others published, and follows the one with the smallest  *)
(* accuracy.  A master that is silent for too long is given up.            *)
(*                                                                         *)
(* The publish-subscribe middleware is external: a reader keeps the last   *)
(* sample of each node NAME, the key of the topic; samples take less than  *)
(* a heartbeat and may be lost.                                            *)
(***************************************************************************)
EXTENDS Integers, FiniteSets, FiniteSetsExt

CONSTANTS
    Names,          \* names of nodes: numbers, ordered as the strings are
    Uuids,          \* timelines
    Hosted,         \* <<name, uuid>> for each coordinator
    Demands,        \* Demands[c]: the accuracies that coordinator c may start with
    Domains,        \* PTP domains: 0 .. 127 in the code
    MASTER_TIMEOUT, NEW_MASTER_WAIT,    \* in heartbeats
    DELAY_INITIALIZING,                 \* in heartbeats
    Slots,          \* phases of a second in which a heartbeat may fall
    Staggered,      \* whether all heartbeats have phases of their own
    Steady,         \* whether a coordinator that starts again asks for the same
    MaxStops,       \* bound on coordinators stopped or crashed
    MaxMisses       \* bound on samples lost or overlooked by the listener

Nobody == 0         \* timeline.master() == ""

ASSUME CoordinatorAssumption ==
    /\ Names \subseteq Nat \ {0}
    /\ Hosted \subseteq Names \X Uuids
    /\ \A c \in Hosted : Demands[c] \subseteq Nat \ {0}
    /\ Domains # {}
    /\ {MASTER_TIMEOUT, NEW_MASTER_WAIT} \subseteq Nat
    /\ {DELAY_INITIALIZING, Slots} \subseteq Nat \ {0}
    /\ Staggered \in BOOLEAN /\ Steady \in BOOLEAN

VARIABLES
    up,         \* coordinators that run
    due,        \* slots until the next heartbeat
    silence,    \* counter_ - lastcount_, up to the largest value that is told apart
    accuracy, master, domain,   \* fields of timeline, the sample that is published
    cache,      \* cache[c][n]: the sample of node n in c's reader
    net,        \* samples on their way: [to, from, sample]
    sync,       \* the synchronisation service: off, or its role and domain
    heard,      \* history: a sample of the master came since it was elected
    stops, misses

vars == <<up, due, silence, accuracy, master, domain, cache, net, sync, heard, stops, misses>>

name(c) == c[1]
uuid(c) == c[2]

Long == MASTER_TIMEOUT + 1

NoSample == [uuid |-> Nobody, accuracy |-> 0, domain |-> 0, leads |-> FALSE]
Off      == [on |-> FALSE, leads |-> FALSE, domain |-> 0]

\* What is published: of master, only whether the sender is its own is ever used.
Sample(c, m) == [uuid     |-> uuid(c),   accuracy |-> accuracy[c],
                 domain   |-> domain[c], leads    |-> m = name(c)]

-----------------------------------------------------------------------------
\* Reading the samples: seen is what dr.read() returns.

Heard(c, seen) == {n \in Names \ {name(c)} : seen[n].uuid = uuid(c)}

\* Mutant: equal accuracies are not decided by name.
NewMasterFirstCome(c, m, seen) ==
    LET best == Min({seen[n].accuracy : n \in Heard(c, seen)} \cup {accuracy[c]})
    IN  IF best < accuracy[c]
        THEN Min({n \in Heard(c, seen) : seen[n].accuracy = best})
        ELSE IF m = Nobody THEN name(c) ELSE m

\* The smallest accuracy wins, then the smallest name; the present master (or, if
\* there is none, the node itself) enters with the node's own accuracy.  The
\* result does not depend on the order in which the loop meets the samples.
NewMaster(c, m, seen) ==
    LET best == Min({seen[n].accuracy : n \in Heard(c, seen)} \cup {accuracy[c]})
        most == {n \in Heard(c, seen) : seen[n].accuracy = best}
    IN  IF best < accuracy[c]
        THEN Min(most)
        ELSE Min(most \cup {IF m = Nobody THEN name(c) ELSE m})

\* The master of another timeline uses the domain that this master uses.
DomainClash(c, m, seen) ==
    /\ m = name(c)
    /\ \E n \in Names : /\ seen[n].uuid \notin {Nobody, uuid(c)}
                        /\ seen[n].domain = domain[c]
                        /\ seen[n].leads

-----------------------------------------------------------------------------
Init ==
    /\ up = {}
    /\ due = [c \in Hosted |-> 0]
    /\ silence = [c \in Hosted |-> 0]
    /\ accuracy = [c \in Hosted |-> 0]
    /\ master = [c \in Hosted |-> Nobody]
    /\ domain = [c \in Hosted |-> 0]
    /\ cache = [c \in Hosted |-> [n \in Names |-> NoSample]]
    /\ net = {}
    /\ sync = [c \in Hosted |-> Off]
    /\ heard = [c \in Hosted |-> FALSE]
    /\ stops = 0 /\ misses = 0

\* The notifier finds a timeline: construction, then Start.
Start(c, acc, dom) ==
    /\ c \notin up
    /\ Steady => accuracy[c] \in {0, acc}
    /\ Staggered => \A d \in up : due[d] % Slots # 0
    /\ up' = up \cup {c}
    /\ due' = [due EXCEPT ![c] = DELAY_INITIALIZING * Slots]
    /\ silence' = [silence EXCEPT ![c] = 0]
    /\ accuracy' = [accuracy EXCEPT ![c] = acc]
    /\ master' = [master EXCEPT ![c] = Nobody]
    /\ domain' = [domain EXCEPT ![c] = dom]
    /\ cache' = [cache EXCEPT ![c] = [n \in Names |-> NoSample]]
    /\ UNCHANGED <<net, sync, heard, stops, misses>>

\* The timeline is removed, or the service ends.
Stop(c) ==
    /\ c \in up
    /\ stops < MaxStops
    /\ stops' = stops + 1
    /\ up' = up \ {c}
    /\ due' = [due EXCEPT ![c] = 0]
    /\ silence' = [silence EXCEPT ![c] = 0]
    /\ master' = [master EXCEPT ![c] = Nobody]
    /\ domain' = [domain EXCEPT ![c] = 0]
    /\ cache' = [cache EXCEPT ![c] = [n \in Names |-> NoSample]]
    /\ net' = {p \in net : p.to # c}
    /\ sync' = [sync EXCEPT ![c] = Off]
    /\ heard' = [heard EXCEPT ![c] = FALSE]
    /\ UNCHANGED <<accuracy, misses>>

-----------------------------------------------------------------------------
\* Mutant: the count of missed heartbeats is one short.
TimesOutEarly(c, quiet) ==
    /\ master[c] \notin {Nobody, name(c)}
    /\ quiet >= MASTER_TIMEOUT

\* A slave gives its master up.
TimesOut(c, quiet) ==
    /\ master[c] \notin {Nobody, name(c)}
    /\ quiet > MASTER_TIMEOUT

\* After a timeout all samples are taken out of the reader.
Kept(c, lost) == IF lost THEN [n \in Names |-> NoSample] ELSE cache[c]

\* The sample goes to every reader, the writer's own at once.
Publish(c, sample) ==
    net' = net \cup {[to |-> d, from |-> name(c), sample |-> sample] : d \in up \ {c}}

Stay(c, m) ==
    /\ master' = [master EXCEPT ![c] = m]
    /\ UNCHANGED <<domain, sync, heard>>

\* (Re)start the synchronisation service.
Follow(c, m, dom) ==
    /\ master' = [master EXCEPT ![c] = m]
    /\ domain' = [domain EXCEPT ![c] = dom]
    /\ sync' = [sync EXCEPT ![c] = [on |-> TRUE, leads |-> m = name(c), domain |-> dom]]
    /\ heard' = [heard EXCEPT ![c] = FALSE]

Elect(c, m, seen) ==
    LET new == NewMaster(c, m, seen)
    IN  \/ new = m /\ ~ DomainClash(c, m, seen) /\ Stay(c, m)
        \/ new = m /\ DomainClash(c, m, seen) /\ \E dom \in Domains : Follow(c, m, dom)
        \/ new # m /\ Follow(c, new, IF new = name(c) THEN domain[c] ELSE seen[new].domain)

Heartbeat(c) ==
    /\ c \in up /\ due[c] = 0
    /\ due' = [due EXCEPT ![c] = Slots]
    /\ LET beat   == Min({silence[c] + 1, Long})
           lost   == TimesOut(c, beat)
           m      == IF lost THEN Nobody ELSE master[c]
           quiet  == IF lost THEN 0 ELSE beat
           sample == Sample(c, m)
           seen   == [Kept(c, lost) EXCEPT ![name(c)] = sample]
       IN  /\ silence' = [silence EXCEPT ![c] = quiet]
           /\ Publish(c, sample)
           /\ cache' = [cache EXCEPT ![c] = seen]
           /\ IF m = Nobody /\ quiet < NEW_MASTER_WAIT
              THEN Stay(c, m)
              ELSE Elect(c, m, seen)
    /\ UNCHANGED <<up, accuracy, stops, misses>>

-----------------------------------------------------------------------------
\* Samples arrive.

Store(p) ==
    /\ p \in net
    /\ net' = net \ {p}
    /\ cache' = [cache EXCEPT ![p.to][p.from] = p.sample]

\* The listener: a sample of the master's NAME shows that it lives.
on_data_available(p) ==
    /\ Store(p)
    /\ IF p.from = master[p.to] /\ p.from # name(p.to)
       THEN /\ silence' = [silence EXCEPT ![p.to] = 0]
            /\ heard' = [heard EXCEPT ![p.to] = TRUE]
       ELSE UNCHANGED <<silence, heard>>
    /\ UNCHANGED <<up, due, accuracy, master, domain, sync, stops, misses>>

\* A heartbeat reads the sample before the listener runs, which then finds
\* nothing unread.
Overlooked(p) ==
    /\ misses < MaxMisses
    /\ misses' = misses + 1
    /\ Store(p)
    /\ UNCHANGED <<up, due, silence, accuracy, master, domain, sync, heard, stops>>

Lost(p) ==
    /\ misses < MaxMisses
    /\ misses' = misses + 1
    /\ p \in net
    /\ net' = net \ {p}
    /\ UNCHANGED <<up, due, silence, accuracy, master, domain, cache, sync, heard, stops>>

\* Time goes on: every heartbeat of this slot has been sent, and its samples have
\* arrived.
Tick ==
    /\ net = {}
    /\ \A c \in up : due[c] > 0
    /\ due' = [c \in Hosted |-> IF c \in up THEN due[c] - 1 ELSE 0]
    /\ UNCHANGED <<up, silence, accuracy, master, domain, cache, net, sync, heard, stops, misses>>

Next ==
    \/ \E c \in Hosted : \E acc \in Demands[c], dom \in Domains : Start(c, acc, dom)
    \/ \E c \in Hosted : Stop(c) \/ Heartbeat(c)
    \/ \E p \in net : on_data_available(p) \/ Overlooked(p) \/ Lost(p)
    \/ Tick

Spec == Init /\ [][Next]_vars

\* Timers fire and samples arrive; nobody has to start, stop or lose anything.
FairSpec ==
    /\ Spec
    /\ \A c \in Hosted : WF_vars(Heartbeat(c))
    /\ WF_vars(\E p \in net : on_data_available(p))
    /\ WF_vars(Tick)

-----------------------------------------------------------------------------
\* The types of all variables; a sample is on its way only to a reader that is there.
TypeOK ==
    /\ up \subseteq Hosted
    /\ due \in [Hosted -> 0 .. DELAY_INITIALIZING * Slots]
    /\ silence \in [Hosted -> 0 .. Long]
    /\ master \in [Hosted -> Names \cup {Nobody}]
    /\ domain \in [Hosted -> Domains \cup {0}]
    /\ \A p \in net : p.to \in up

\* The node that should lead: the strictest requirement, then the first name.
Strictest(u) ==
    LET here == {c \in up : uuid(c) = u}
        best == {c \in here : \A d \in here : accuracy[c] <= accuracy[d]}
    IN  Min({name(c) : c \in best})

\* All nodes of a timeline follow the strictest one, which serves as master.
Settled(u) ==
    \A c \in up : uuid(c) = u =>
        /\ master[c] = Strictest(u)
        /\ sync[c].on
        /\ sync[c].leads <=> name(c) = Strictest(u)

\* Every election ends, whatever stopped, restarted or was lost before:
\* "the node with the highest accuracy requirement is elected as master"
\* (readme.md:927).
Elected == \A u \in Uuids : <>[]Settled(u)

\* Slaves listen on the domain on which their master serves.
SameDomain ==
    \A u \in Uuids : <>[](\A c, d \in up :
        (uuid(c) = u /\ uuid(d) = u) => sync[c].domain = sync[d].domain)

\* A master has gone: it is not running, or it started again and has yet to send
\* its first heartbeat.
Gone(m) == m \notin up \/ due[m] > Slots

\* A coordinator gives up a master that is there.
GivesUp(c) ==
    /\ c \in up \cap up'
    /\ master[c] \notin {Nobody, name(c)} /\ master'[c] = Nobody
    /\ ~ Gone(<<master[c], uuid(c)>>)

\* A master that was heard of since its election is given up only when it is
\* gone: one sample lost, or read before the listener sees it, is not enough.
NoFalseTimeout == [][\A c \in Hosted : GivesUp(c) => ~ heard[c]]_vars

\* The same of every master: MASTER_TIMEOUT is the number of "heartbeats timeout
\* for master" (Coordinator.cpp:39).
FullTimeout == [][\A c \in Hosted : ~ GivesUp(c)]_vars
=============================================================================
