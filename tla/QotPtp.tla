------------------------------- MODULE QotPtp -------------------------------
(***************************************************************************)
(* The PTP service: PTP18.cpp, which runs one ordinary clock of linuxptp   *)
(* per timeline in a thread, and from linuxptp-1.8 the best master clock   *)
(* algorithm (bmc.c), the port state machine (fsm.c), and the handling of  *)
(* Announce, Sync and Follow_Up messages (port.c, clock.c).                *)
(*                                                                         *)
(* A clock has one port, and PTP18 leaves slaveOnly and clockClass at      *)
(* their defaults: the states PRE_MASTER, PASSIVE and DISABLED, and the    *)
(* state machine for slaves only, are out of reach.  All clocks are in one *)
(* domain.  Time passes in ticks; a message takes less than one and may be *)
(* lost.                                                                   *)
(***************************************************************************)
EXTENDS Integers, Sequences, FiniteSets

CONSTANTS
    Clock,          \* clockIdentity: numbers, ordered as the identities are
    Rank,           \* Rank[c]: priority1, clockQuality and priority2, smallest best
    Appointed,      \* the clock that the coordinator starts as master
    Interval,       \* ticks of an announce interval
    announceReceiptTimeout, FOREIGN_MASTER_THRESHOLD,
    Nil,
    MaxTroubles,    \* bound: calls of Stop, faults, links that go down, lost messages
    MaxSyncs        \* bound: Sync messages

ASSUME PtpAssumption ==
    /\ Clock \subseteq Nat /\ Nil \notin Clock
    /\ Rank \in [Clock -> Nat]
    /\ Appointed \in Clock
    /\ {Interval, FOREIGN_MASTER_THRESHOLD, announceReceiptTimeout} \subseteq Nat \ {0}

VARIABLES
    port,       \* port[c]: the port of a clock that runs, Nil for one that does not
    kill,       \* clocks whose thread is to end
    linkup,     \* clocks whose network interface is up
    net,        \* messages on their way: [type, from, to, seq]
    troubles, syncs

count == <<troubles, syncs>>
vars  == <<port, kill, linkup, net, count>>

Off == -1           \* a timer that is not armed

\* An Announce message counts for four intervals.
Window == 4 * Interval

\* announceReceiptTimeout intervals, and a random part of one more.
AnnounceTimeouts == announceReceiptTimeout * Interval + 1 .. (announceReceiptTimeout + 1) * Interval

-----------------------------------------------------------------------------
\* bmc.c, for clocks with identities of their own.

\* dscmp(a, b) > 0
Better(a, b) == Rank[a] < Rank[b] \/ (Rank[a] = Rank[b] /\ a < b)

BetterThan(c, best) == best = Nil \/ Better(c, best)

bmc_state_decision(c, p) ==
    IF p.best = Nil /\ p.state = "LISTENING" THEN "LISTENING"
    ELSE IF BetterThan(c, p.best) THEN "GRAND_MASTER"
    ELSE "SLAVE"

-----------------------------------------------------------------------------
\* fsm.c

Masters == {"MASTER", "GRAND_MASTER"}
Slaves  == {"UNCALIBRATED", "SLAVE"}
States  == Masters \cup Slaves \cup {"LISTENING", "FAULTY"}

Identity == Clock \cup {Nil}
Timer    == Nat \cup {Off}
General  == [type : {"SYNC", "FOLLOW_UP"}, from : Clock, seq : Nat]

Port == [state : States \cup {"INITIALIZING"},
         best : Identity, best_id : Identity, parent : Clock,
         foreign : Seq([from : Clock, ages : Seq(Nat)]), held : General \cup {Nil},
         seq : Nat, anno : Timer, manno : Timer, sde : BOOLEAN, fault : BOOLEAN]

Message == [type : {"ANNOUNCE", "SYNC", "FOLLOW_UP"}, from : Clock, to : Clock, seq : Nat]

ASSUME PortAssumption == Nil \notin Port

ptp_fsm(state, event, mdiff) ==
    IF state = "FAULTY" THEN (IF event = "FAULT_CLEARED" THEN "INITIALIZING" ELSE state)
    ELSE
    CASE event = "FAULT_DETECTED" -> "FAULTY"
      [] event = "ANNOUNCE_RECEIPT_TIMEOUT_EXPIRES" /\ state \notin Masters -> "MASTER"
      [] event = "RS_GRAND_MASTER" /\ state \notin Masters -> "GRAND_MASTER"
      [] event = "RS_SLAVE" /\ (state # "SLAVE" \/ mdiff) -> "UNCALIBRATED"
      [] event = "MASTER_CLOCK_SELECTED" /\ state = "UNCALIBRATED" -> "SLAVE"
      [] event = "SYNCHRONIZATION_FAULT" /\ state = "SLAVE" -> "UNCALIBRATED"
      [] OTHER -> state

-----------------------------------------------------------------------------
\* port.c: transitions.  tmo is the next announce timeout.

\* port_initialize, and clock_create for what belongs to the clock.
port_initialize(p, tmo) == [p EXCEPT !.state = "LISTENING", !.anno = tmo]

port_disable(p) ==
    [p EXCEPT !.best = Nil, !.foreign = <<>>, !.held = Nil, !.anno = Off, !.manno = Off]

port_e2e_transition(p, next, tmo) ==
    LET idle == [p EXCEPT !.state = next, !.anno = Off, !.manno = Off]
    IN  CASE next = "FAULTY"       -> port_disable(idle)
          [] next \in Masters      -> [idle EXCEPT !.manno = 0]
          [] next = "UNCALIBRATED" -> [idle EXCEPT !.anno = tmo, !.held = Nil]
          [] OTHER                 -> [idle EXCEPT !.anno = tmo]

port_dispatch(p, event, mdiff, tmo) ==
    LET next == ptp_fsm(p.state, event, mdiff)
    IN  IF next = "INITIALIZING" THEN port_initialize(p, tmo)
        ELSE IF next = p.state THEN p
        ELSE port_e2e_transition(p, next, tmo)

-----------------------------------------------------------------------------
\* port.c: Announce messages.  p.foreign is the list of foreign masters, each
\* with the ages of its messages, newest first; p.sde asks for a state decision.

\* Mutant: only old messages are dropped.
prune_aged(ages) == SelectSeq(ages, LAMBDA age : age < Window)

\* The newest messages, as many as the threshold and none that is too old.
fc_prune(ages) ==
    LET Kept(i) == i <= FOREIGN_MASTER_THRESHOLD /\ ages[i] < Window
    IN  SubSeq(ages, 1, Cardinality({i \in DOMAIN ages : Kept(i)}))

Known(p, d) == \E k \in DOMAIN p.foreign : p.foreign[k].from = d
Ages(p, d)  == p.foreign[CHOOSE k \in DOMAIN p.foreign : p.foreign[k].from = d].ages

\* The messages kept of foreign master d become ages.
Update(p, d, ages) ==
    [p EXCEPT !.foreign = [k \in DOMAIN @ |->
        IF @[k].from = d THEN [@[k] EXCEPT !.ages = ages] ELSE @[k]]]

\* A message of d is added.
Added(p, d) == Update(p, d, <<0>> \o fc_prune(Ages(p, d)))

\* Mutant: one message too late, when the list is pruned to less.
add_unnoticed(p, d) ==
    IF ~ Known(p, d) THEN [p EXCEPT !.foreign = <<[from |-> d, ages |-> <<>>]>> \o @]
    ELSE [Added(p, d)
            EXCEPT !.sde = @ \/ Len(fc_prune(Ages(p, d))) > FOREIGN_MASTER_THRESHOLD]

\* The first message is not counted.  What a clock announces never changes.
add_foreign_master(p, d) ==
    IF ~ Known(p, d) THEN [p EXCEPT !.foreign = <<[from |-> d, ages |-> <<>>]>> \o @]
    ELSE [Added(p, d)
            EXCEPT !.sde = @ \/ Len(fc_prune(Ages(p, d))) = FOREIGN_MASTER_THRESHOLD - 1]

\* Mutant: the timer is not set again.
update_untimed(p, d, tmo) ==
    IF d # p.best THEN add_foreign_master(p, d)
    ELSE Added(p, d)

update_current_master(p, d, tmo) ==
    IF d # p.best THEN add_foreign_master(p, d)
    ELSE [Added(p, d) EXCEPT !.anno = tmo]

process_announce(p, d, tmo) ==
    IF p.state \in Masters \cup {"LISTENING"} THEN add_foreign_master(p, d)
    ELSE update_current_master(p, d, tmo)

\* Mutant: no state decision.
timeout_undecided(p, tmo) ==
    port_dispatch([Update(p, p.best, <<>>) EXCEPT !.anno = tmo],
                  "ANNOUNCE_RECEIPT_TIMEOUT_EXPIRES", FALSE, tmo)

\* FD_ANNOUNCE_TIMER: the messages of the best master are forgotten.
announce_timeout(p, tmo) ==
    port_dispatch([Update(p, p.best, <<>>) EXCEPT !.anno = tmo, !.sde = TRUE],
                  "ANNOUNCE_RECEIPT_TIMEOUT_EXPIRES", FALSE, tmo)

\* The best of the foreign masters with messages enough.  The messages of one
\* that loses to a master earlier in the list are forgotten.
port_compute_best(p) ==
    LET from(k)     == p.foreign[k].from
        kept(k)     == fc_prune(p.foreign[k].ages)
        Enough      == {k \in DOMAIN p.foreign : Len(kept(k)) >= FOREIGN_MASTER_THRESHOLD}
        Beats(k, K) == \A j \in K \ {k} : Better(from(k), from(j))
        Loses(k)    == k \in Enough /\ ~ Beats(k, {j \in Enough : j < k})
        first       == {k \in Enough : Beats(k, Enough)}
    IN  [p EXCEPT !.best = IF first = {} THEN Nil ELSE from(CHOOSE k \in first : TRUE),
                  !.foreign = [k \in DOMAIN @ |->
                      [@[k] EXCEPT !.ages = IF Loses(k) THEN <<>> ELSE kept(k)]]]

\* clock.c: choose the master, tell the clock, then the port.
handle_state_decision_event(c, p, tmo) ==
    LET q     == port_compute_best(p)
        id    == IF q.best = Nil THEN c ELSE q.best
        role  == bmc_state_decision(c, q)
        told  == [q EXCEPT !.sde = FALSE, !.best_id = id,
                           !.parent = CASE role = "GRAND_MASTER" -> c
                                        [] role = "SLAVE"        -> q.best
                                        [] OTHER                 -> @]
    IN  IF role = "LISTENING" THEN told
        ELSE port_dispatch(told, IF role = "SLAVE" THEN "RS_SLAVE" ELSE "RS_GRAND_MASTER",
                           id # p.best_id, tmo)

-----------------------------------------------------------------------------
\* port.c: Sync and Follow_Up messages.  p.held is last_syncfup; servo is what
\* clock_synchronize returns.

port_synchronize(p, servo, tmo) ==
    port_dispatch(p, IF servo = "LOCKED" THEN "MASTER_CLOCK_SELECTED"
                        ELSE "SYNCHRONIZATION_FAULT", FALSE, tmo)

\* A Sync and a Follow_Up match when their sequence numbers do.
Matches(held, m) == held # Nil /\ held.type # m.type /\ held.seq = m.seq

port_syfufsm(p, m, servo, tmo) ==
    IF Matches(p.held, m) THEN [port_synchronize(p, servo, tmo) EXCEPT !.held = Nil]
    ELSE [p EXCEPT !.held = [type |-> m.type, from |-> m.from, seq |-> m.seq]]

\* process_sync and process_follow_up: only the parent is listened to.
process_sync(p, m, servo, tmo) ==
    IF p.state \in Slaves /\ m.from = p.parent THEN port_syfufsm(p, m, servo, tmo) ELSE p

-----------------------------------------------------------------------------
\* The loop of PTP18::SyncThread: clock_poll, and an end once kill is set.

Runs(c)    == port[c] # Nil
Enabled(c) == Runs(c) /\ port[c].state # "FAULTY"

\* What is left in the sockets when they are closed is lost.
Polled(c, p, rest, tmo) ==
    LET q == IF p.sde THEN handle_state_decision_event(c, p, tmo) ELSE p
        ended == c \in kill
    IN  /\ port' = [port EXCEPT ![c] = IF ended THEN Nil ELSE q]
        /\ kill' = kill \ {c}
        /\ net' = IF ended \/ q.state = "FAULTY" THEN {m \in rest : m.to # c} ELSE rest

\* A message, and the announce timer if that has run out by then.
port_event(c, m, timeout, servo, tmo) ==
    /\ Enabled(c)
    /\ m \in net /\ m.to = c
    /\ timeout => port[c].anno = 0
    /\ LET read == IF m.type = "ANNOUNCE" THEN process_announce(port[c], m.from, tmo)
                   ELSE process_sync(port[c], m, servo, tmo)
           done == IF timeout THEN announce_timeout(read, tmo) ELSE read
       IN  Polled(c, done, net \ {m}, tmo)
    /\ UNCHANGED <<linkup, count>>

FD_ANNOUNCE_TIMER(c, tmo) ==
    /\ Enabled(c) /\ port[c].anno = 0
    /\ Polled(c, announce_timeout(port[c], tmo), net, tmo)
    /\ UNCHANGED <<linkup, count>>

\* A message to every other clock that listens.
Sent(c, type, seq) ==
    {[type |-> type, from |-> c, to |-> d, seq |-> seq] : d \in {e \in Clock \ {c} : Enabled(e)}}

\* Mutant: the timer is not set again.
tx_announce_once(c) ==
    /\ Enabled(c) /\ port[c].manno = 0
    /\ Polled(c, [port[c] EXCEPT !.manno = Off], net \cup Sent(c, "ANNOUNCE", 0), Off)
    /\ UNCHANGED <<linkup, count>>

port_tx_announce(c) ==
    /\ Enabled(c) /\ port[c].manno = 0
    /\ Polled(c, [port[c] EXCEPT !.manno = Interval], net \cup Sent(c, "ANNOUNCE", 0), Off)
    /\ UNCHANGED <<linkup, count>>

\* The interval of Sync messages is left open: PTP18::Start does not initialise it
\* for an interval of a second or more.
port_tx_sync(c) ==
    /\ Enabled(c) /\ port[c].state \in Masters /\ syncs < MaxSyncs
    /\ syncs' = syncs + 1
    /\ LET seq == port[c].seq
       IN  Polled(c, [port[c] EXCEPT !.seq = seq + 1],
                  net \cup Sent(c, "SYNC", seq) \cup Sent(c, "FOLLOW_UP", seq), Off)
    /\ UNCHANGED <<linkup, troubles>>

\* A message cannot be sent or received: the port is closed, and the fault timer set.
Fault(c) ==
    /\ Enabled(c) /\ troubles < MaxTroubles
    /\ troubles' = troubles + 1
    /\ Polled(c, [port_dispatch(port[c], "FAULT_DETECTED", FALSE, Off) EXCEPT !.fault = TRUE],
              net, Off)
    /\ UNCHANGED <<linkup, syncs>>

\* The fault timer runs out.
clock_fault_timeout(c, tmo) ==
    /\ Runs(c) /\ port[c].fault
    /\ LET p == [port[c] EXCEPT !.fault = FALSE]
       IN  Polled(c, IF c \in linkup THEN port_dispatch(p, "FAULT_CLEARED", FALSE, tmo) ELSE p,
                  net, tmo)
    /\ UNCHANGED <<linkup, count>>

\* The same, and the transport cannot be opened: the timer is not set again.
InitializeFails(c) ==
    /\ Runs(c) /\ port[c].fault /\ port[c].state = "FAULTY" /\ c \in linkup
    /\ Polled(c, [port[c] EXCEPT !.fault = FALSE], net, Off)
    /\ UNCHANGED <<linkup, count>>

\* The network interface goes down: no timer is set.
LinkDown(c) ==
    /\ c \in linkup /\ troubles < MaxTroubles
    /\ troubles' = troubles + 1
    /\ linkup' = linkup \ {c}
    /\ IF Runs(c) THEN Polled(c, port_dispatch(port[c], "FAULT_DETECTED", FALSE, Off), net, Off)
       ELSE UNCHANGED <<port, kill, net>>
    /\ UNCHANGED syncs

LinkUp(c, tmo) ==
    /\ c \notin linkup
    /\ linkup' = linkup \cup {c}
    /\ IF Runs(c) THEN Polled(c, port_dispatch(port[c], "FAULT_CLEARED", FALSE, tmo), net, tmo)
       ELSE UNCHANGED <<port, kill, net>>
    /\ UNCHANGED count

\* The same, and the transport cannot be opened: the port stays closed, without a timer.
LinkUpFails(c) ==
    /\ c \notin linkup /\ Runs(c) /\ port[c].state = "FAULTY"
    /\ linkup' = linkup \cup {c}
    /\ Polled(c, port[c], net, Off)
    /\ UNCHANGED count

-----------------------------------------------------------------------------
\* PTP18::Start: clock_create, and what netlink says of the link.
clock_create(c) ==
    [state |-> "INITIALIZING", best |-> Nil, best_id |-> Nil, parent |-> c, foreign |-> <<>>,
     held |-> Nil, seq |-> 0, anno |-> Off, manno |-> Off, sde |-> FALSE, fault |-> FALSE]

Start(c, tmo) ==
    /\ ~ Runs(c)
    /\ LET p == port_initialize(clock_create(c), tmo)
       IN  port' = [port EXCEPT ![c] =
               IF c \in linkup THEN p ELSE port_dispatch(p, "FAULT_DETECTED", FALSE, tmo)]
    /\ UNCHANGED <<kill, linkup, net, count>>

\* The transport cannot be opened, neither at first nor when netlink tells of the link.
StartFails(c) ==
    /\ ~ Runs(c)
    /\ port' = [port EXCEPT ![c] = [clock_create(c) EXCEPT !.state = "FAULTY"]]
    /\ UNCHANGED <<kill, linkup, net, count>>

\* PTP18::Stop finds the thread in poll, or on its way to look at kill.
Stop(c) ==
    /\ Runs(c) /\ c \notin kill /\ troubles < MaxTroubles
    /\ troubles' = troubles + 1
    /\ \/ kill' = kill \cup {c} /\ UNCHANGED <<port, net>>
       \/ /\ port' = [port EXCEPT ![c] = Nil]
          /\ net' = {m \in net : m.to # c}
          /\ UNCHANGED kill
    /\ UNCHANGED <<linkup, syncs>>

Lose(m) ==
    /\ m \in net /\ troubles < MaxTroubles
    /\ troubles' = troubles + 1
    /\ net' = net \ {m}
    /\ UNCHANGED <<port, kill, linkup, syncs>>

Older(timer) == IF timer = Off THEN Off ELSE timer - 1

\* A message that no longer counts is as old as it can be.
OlderMessages(foreign) ==
    [k \in DOMAIN foreign |-> [foreign[k] EXCEPT !.ages =
        [i \in DOMAIN @ |-> IF @[i] < Window THEN @[i] + 1 ELSE Window]]]

Aged(p) == [p EXCEPT !.anno = Older(p.anno), !.manno = Older(p.manno),
                     !.foreign = OlderMessages(p.foreign)]

\* A timer is running, and nothing is to be done before time passes.
Quiet ==
    /\ \E c \in Clock : Runs(c) /\ {port[c].anno, port[c].manno} # {Off}
    /\ net = {} /\ \A c \in Clock : Runs(c) => 0 \notin {port[c].anno, port[c].manno}

Tick ==
    /\ Quiet
    /\ port' = [c \in Clock |-> IF Runs(c) THEN Aged(port[c]) ELSE Nil]
    /\ UNCHANGED <<kill, linkup, net, count>>

Init ==
    /\ port = [c \in Clock |-> Nil]
    /\ kill = {} /\ linkup = Clock /\ net = {}
    /\ troubles = 0 /\ syncs = 0

Servo == {"LOCKED", "UNLOCKED"}

Receive(c, tmo) ==
    \E m \in net, timeout \in BOOLEAN, servo \in Servo : port_event(c, m, timeout, servo, tmo)

\* What the thread of a clock does.
Step(c) ==
    \/ \E tmo \in AnnounceTimeouts :
          Receive(c, tmo) \/ FD_ANNOUNCE_TIMER(c, tmo) \/ clock_fault_timeout(c, tmo)
    \/ port_tx_announce(c)
    \/ InitializeFails(c)

Next ==
    \/ \E c \in Clock :
          \/ Step(c) \/ port_tx_sync(c) \/ Stop(c)
          \/ Fault(c) \/ LinkDown(c) \/ LinkUpFails(c) \/ StartFails(c)
          \/ \E tmo \in AnnounceTimeouts : Start(c, tmo) \/ LinkUp(c, tmo)
    \/ \E m \in net : Lose(m)
    \/ Tick

Spec == Init /\ [][Next]_vars

\* Threads run, messages arrive and time passes: weak fairness of Step and of
\* Tick, with what enables them spelled out.  Nobody has to start or stop a clock,
\* to send Sync messages or to mend a link.
Due(c) ==
    /\ Runs(c)
    /\ \/ port[c].fault
       \/ 0 \in {port[c].anno, port[c].manno}
       \/ \E m \in net : m.to = c

FairSpec ==
    /\ Spec
    /\ []<>(~ Quiet) \/ []<><<Tick>>_vars
    /\ \A c \in Clock : []<>(~ Due(c)) \/ []<><<Step(c)>>_vars

-----------------------------------------------------------------------------
\* The types of the variables.  A state decision is made in the poll that asks for
\* it, a list of messages is pruned before it grows, and a closed port gets nothing.
TypeOK ==
    /\ port \in [Clock -> Port \cup {Nil}]
    /\ kill \subseteq {c \in Clock : Runs(c)}
    /\ linkup \subseteq Clock
    /\ net \subseteq Message /\ \A m \in net : Enabled(m.to)
    /\ \A c \in Clock : Runs(c) =>
          /\ port[c].state \in States /\ ~ port[c].sde
          /\ \A k \in DOMAIN port[c].foreign :
                Len(port[c].foreign[k].ages) <= FOREIGN_MASTER_THRESHOLD + 1

\* A port that follows a master has one: update_current_master uses best without
\* a look.  The parent, from which Sync messages are taken, is that master; and a
\* clock that serves announces itself, not a grandmaster that it followed before.
ParentIsRight ==
    \A c \in Clock : Runs(c) =>
        /\ port[c].state \in Slaves => Known(port[c], port[c].best) /\ port[c].parent = port[c].best
        /\ port[c].state \in Masters => port[c].parent = c

\* The message that a port holds is one of its master, so that the Sync and the
\* Follow_Up that it takes together come from one clock.
HoldsOfParent ==
    \A c \in Clock : Runs(c) /\ port[c].state \in Slaves /\ port[c].held # Nil =>
        port[c].held.from = port[c].parent

\* In the end the best of the clocks that can be heard is the only master, and the
\* others follow it.
Listening == {c \in Clock : Enabled(c)}
Grandmaster == CHOOSE c \in Listening : \A d \in Listening \ {c} : Better(c, d)

Agreed ==
    \A c \in Listening :
        IF c = Grandmaster THEN port[c].state \in Masters
        ELSE port[c].state \in Slaves /\ port[c].parent = Grandmaster

Converges == <>[]Agreed

\* PTP18::Stop returns, unless the port is closed and no timer is left to wake poll.
Deaf(c) == port[c].state = "FAULTY" /\ ~ port[c].fault

StopReturns == \A c \in Clock : c \in kill ~> c \notin kill \/ Deaf(c)

\* A port in one of the states that has heard from a better master within the last
\* interval, and often enough of late for the master to qualify.
Hears(c, states) ==
    /\ Runs(c) /\ port[c].state \in states /\ Better(port[c].parent, c)
    /\ LET ages == Ages(port[c], port[c].parent)
       IN  Head(ages) <= Interval /\ Len(fc_prune(ages)) >= FOREIGN_MASTER_THRESHOLD

TakesOver(c) == port'[c] # Nil /\ port'[c].state \in Masters

\* A port in state SLAVE does not take over from a master that it has heard from
\* within the last interval and that qualifies, whatever others announce: the announce
\* timer was started when it entered the state, and at each message of the master since.
Loyal == [][\A c \in Clock : Hears(c, {"SLAVE"}) => ~ TakesOver(c)]_vars

\* The same of a port that is still UNCALIBRATED.
LoyalUncalibrated == [][\A c \in Clock : Hears(c, Slaves) => ~ TakesOver(c)]_vars

\* The clock that the coordinator started as master is the one that serves.
AppointedServes ==
    <>[](Appointed \in Listening => port[Appointed].state \in Masters)
=============================================================================
