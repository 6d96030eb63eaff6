--------------------------- MODULE QotPtp_proofs ---------------------------
(***************************************************************************)
(* Proofs about QotPtp, for any number of clocks: the types, and that a    *)
(* port in a slave state follows the master that it has chosen.            *)
(*                                                                         *)
(* The steps of a port are functions from ports to ports, applied one      *)
(* after the other in a round of clock_poll.  Between them a port is only  *)
(* Sane: a master that has timed out is left behind before the state       *)
(* decision at the end of the round makes the port Right again.            *)
(***************************************************************************)
EXTENDS QotPtp, FiniteSetTheorems, TLAPS

Foreign == [from : Clock, ages : Seq(Nat)]

Bounded(p) ==
    \A k \in DOMAIN p.foreign : Len(p.foreign[k].ages) <= FOREIGN_MASTER_THRESHOLD + 1

Sane(p) == p \in Port /\ Bounded(p) /\ (p.best # Nil => Known(p, p.best))

Follows(p) == p.best # Nil /\ p.parent = p.best

Right(c, p) ==
    /\ Sane(p) /\ p.state \in States
    /\ p.state \in Slaves => Follows(p)
    /\ p.state \in Masters => p.parent = c

\* A step leaves what the port follows alone.
Keeps(p, q) == q.state = p.state /\ q.best = p.best /\ q.parent = p.parent

Working == States \ {"FAULTY"}

PtpInv == TypeOK /\ \A c \in Clock : Runs(c) => Right(c, port[c])

LEMMA KeepsRight ==
    ASSUME NEW c, NEW p, NEW q, Right(c, p), Sane(q), Keeps(p, q)
    PROVE  Right(c, q)
  BY DEF Right, Keeps, Follows

-----------------------------------------------------------------------------
\* Announce messages.

\* fc_prune leaves as many messages as the threshold.
LEMMA PruneOK ==
    ASSUME NEW ages \in Seq(Nat)
    PROVE  fc_prune(ages) \in Seq(Nat) /\ Len(fc_prune(ages)) <= FOREIGN_MASTER_THRESHOLD
<1> DEFINE K == {i \in DOMAIN ages : i <= FOREIGN_MASTER_THRESHOLD /\ ages[i] < Window}
<1>1. FOREIGN_MASTER_THRESHOLD \in Nat /\ Len(ages) \in Nat
  BY PtpAssumption
<1>2. /\ IsFiniteSet(1 .. FOREIGN_MASTER_THRESHOLD) /\ IsFiniteSet(1 .. Len(ages))
      /\ Cardinality(1 .. FOREIGN_MASTER_THRESHOLD) = FOREIGN_MASTER_THRESHOLD
      /\ Cardinality(1 .. Len(ages)) = Len(ages)
  <2>1. ASSUME NEW n \in Nat PROVE IsFiniteSet(1 .. n) /\ Cardinality(1 .. n) = n
    BY FS_Interval, 1 \in Int, n \in Int, 1 > n => n = 0
  <2> QED
    BY <1>1, <2>1
<1>3. K \subseteq 1 .. FOREIGN_MASTER_THRESHOLD /\ K \subseteq 1 .. Len(ages)
  BY <1>1
<1>4. /\ Cardinality(K) \in Nat
      /\ Cardinality(K) <= FOREIGN_MASTER_THRESHOLD /\ Cardinality(K) <= Len(ages)
  <2> HIDE DEF K
  <2>1. IsFiniteSet(K) /\ Cardinality(K) <= FOREIGN_MASTER_THRESHOLD
    BY <1>2, <1>3, FS_Subset, Zenon
  <2>2. Cardinality(K) <= Len(ages)
    BY <1>2, <1>3, FS_Subset, Zenon
  <2> QED
    BY <2>1, <2>2, FS_CardinalityType
<1>5. fc_prune(ages) = SubSeq(ages, 1, Cardinality(K))
  BY DEF fc_prune
<1> HIDE DEF K
<1>6. \A n \in 0 .. Len(ages) : SubSeq(ages, 1, n) \in Seq(Nat) /\ Len(SubSeq(ages, 1, n)) = n
  OBVIOUS
<1> QED
  BY <1>1, <1>4, <1>5, <1>6

LEMMA UpdateOK ==
    ASSUME NEW p, Sane(p), NEW d, NEW ages \in Seq(Nat),
           Len(ages) <= FOREIGN_MASTER_THRESHOLD + 1
    PROVE  /\ Sane(Update(p, d, ages)) /\ Keeps(p, Update(p, d, ages))
           /\ Update(p, d, ages).sde = p.sde
<1> DEFINE F == [k \in DOMAIN p.foreign |->
                   IF p.foreign[k].from = d THEN [p.foreign[k] EXCEPT !.ages = ages]
                   ELSE p.foreign[k]]
           q == [p EXCEPT !.foreign = F]
<1>1. p \in Port /\ p.foreign \in Seq(Foreign)
  BY DEF Sane, Port, Foreign
<1>2. \A k \in DOMAIN p.foreign :
          /\ F[k] \in Foreign /\ F[k].from = p.foreign[k].from
          /\ F[k].ages = ages \/ F[k].ages = p.foreign[k].ages
  <2> TAKE k \in DOMAIN p.foreign
  <2>1. p.foreign[k] \in Foreign
    BY <1>1
  <2> QED
    BY <2>1, Zenon DEF Foreign
<1>3. F \in Seq(Foreign)
  <2> HIDE DEF F
  <2> DEFINE n == Len(p.foreign)
  <2>1. n \in Nat /\ DOMAIN p.foreign = 1 .. n
    BY <1>1
  <2>2. F = [k \in 1 .. n |-> F[k]]
    BY <2>1 DEF F
  <2> QED
    BY <1>2, <2>1, <2>2
<1>4. q = Update(p, d, ages)
  BY DEF Update
<1>5. q \in Port /\ Keeps(p, q) /\ q.sde = p.sde /\ q.foreign = F
  <2> HIDE DEF F
  <2> QED
    BY <1>1, <1>3, Zenon DEF Port, Foreign, Keeps
<1>6. Bounded(q)
  <2>1. DOMAIN F = DOMAIN p.foreign
    OBVIOUS
  <2> HIDE DEF F, q
  <2> QED
    BY <1>2, <1>5, <2>1 DEF Bounded, Sane
<1>7. ASSUME q.best # Nil PROVE Known(q, q.best)
  <2>1. DOMAIN F = DOMAIN p.foreign
    OBVIOUS
  <2> HIDE DEF F, q
  <2> QED
    BY <1>2, <1>5, <1>7, <2>1 DEF Known, Sane, Keeps
<1> HIDE DEF q
<1> QED
  BY <1>4, <1>5, <1>6, <1>7 DEF Sane

LEMMA AddedOK ==
    ASSUME NEW p, Sane(p), NEW d, Known(p, d)
    PROVE  Sane(Added(p, d)) /\ Keeps(p, Added(p, d)) /\ Added(p, d).sde = p.sde
<1>1. Ages(p, d) \in Seq(Nat)
  <2> DEFINE j == CHOOSE k \in DOMAIN p.foreign : p.foreign[k].from = d
  <2>1. p.foreign \in Seq(Foreign) /\ j \in DOMAIN p.foreign
    BY DEF Sane, Port, Foreign, Known
  <2>2. Ages(p, d) = p.foreign[j].ages
    BY DEF Ages
  <2> HIDE DEF j
  <2>3. p.foreign[j] \in Foreign
    BY <2>1
  <2> QED
    BY <2>2, <2>3 DEF Foreign
<1>2. /\ fc_prune(Ages(p, d)) \in Seq(Nat)
      /\ Len(fc_prune(Ages(p, d))) <= FOREIGN_MASTER_THRESHOLD
  BY <1>1, PruneOK
<1>3. FOREIGN_MASTER_THRESHOLD \in Nat
  BY PtpAssumption
<1>4. /\ <<0>> \o fc_prune(Ages(p, d)) \in Seq(Nat)
      /\ Len(<<0>> \o fc_prune(Ages(p, d))) <= FOREIGN_MASTER_THRESHOLD + 1
  BY <1>2, <1>3
<1> QED
  BY <1>4, UpdateOK, Zenon DEF Added

LEMMA AddOK ==
    ASSUME NEW p, Sane(p), NEW d \in Clock
    PROVE  Sane(add_foreign_master(p, d)) /\ Keeps(p, add_foreign_master(p, d))
<1>1. CASE Known(p, d)
  <2> DEFINE a == Added(p, d)
             b == Len(fc_prune(Ages(p, d))) = FOREIGN_MASTER_THRESHOLD - 1
             q == [a EXCEPT !.sde = @ \/ b]
  <2>1. Sane(a) /\ Keeps(p, a)
    BY <1>1, AddedOK
  <2>2. add_foreign_master(p, d) = q
    BY <1>1 DEF add_foreign_master
  <2> HIDE DEF a, b
  <2>3. q \in Port /\ Keeps(p, q) /\ q.foreign = a.foreign /\ q.best = a.best
    BY <2>1, Zenon DEF Sane, Port, Keeps
  <2>4. Sane(q)
    <3> HIDE DEF q
    <3> QED
      BY <2>1, <2>3 DEF Sane, Bounded, Known
  <2> QED
    BY <2>2, <2>3, <2>4
<1>2. CASE ~ Known(p, d)
  <2> DEFINE e == [from |-> d, ages |-> <<>>]
             F == <<e>> \o p.foreign
             q == [p EXCEPT !.foreign = F]
  <2>1. p \in Port /\ p.foreign \in Seq(Foreign) /\ e \in Foreign
    BY DEF Sane, Port, Foreign
  <2>2. add_foreign_master(p, d) = q
    BY <1>2 DEF add_foreign_master
  <2>3. F \in Seq(Foreign) /\ Len(F) = Len(p.foreign) + 1
    BY <2>1
  <2>4. F[1] = e /\ \A k \in 1 .. Len(p.foreign) : F[k + 1] = p.foreign[k]
    BY <2>1
  <2>5. q \in Port /\ Keeps(p, q) /\ q.foreign = F
    <3> HIDE DEF F
    <3> QED
      BY <2>1, <2>3, Zenon DEF Port, Foreign, Keeps
  <2>6. Len(e.ages) = 0 /\ FOREIGN_MASTER_THRESHOLD \in Nat
    BY PtpAssumption
  <2> HIDE DEF F, q, e
  <2>7. \A k \in DOMAIN F : k = 1 \/ (k - 1 \in DOMAIN p.foreign /\ F[k] = p.foreign[k - 1])
    <3> SUFFICES ASSUME NEW k \in DOMAIN F, k # 1
                 PROVE  k - 1 \in DOMAIN p.foreign /\ F[k] = p.foreign[k - 1]
      OBVIOUS
    <3>1. k \in 2 .. Len(p.foreign) + 1 /\ Len(p.foreign) \in Nat
      BY <2>1, <2>3
    <3>2. k - 1 \in 1 .. Len(p.foreign) /\ (k - 1) + 1 = k
      BY <3>1
    <3> QED
      BY <2>1, <2>4, <3>2
  <2>8. Bounded(q)
    BY <2>4, <2>5, <2>6, <2>7 DEF Bounded, Sane
  <2>9. ASSUME q.best # Nil PROVE Known(q, q.best)
    <3>1. PICK k \in DOMAIN p.foreign : p.foreign[k].from = p.best
      BY <2>5, <2>9 DEF Sane, Keeps, Known
    <3>2. k + 1 \in DOMAIN F /\ F[k + 1].from = q.best
      BY <2>1, <2>3, <2>4, <2>5, <3>1 DEF Keeps
    <3> QED
      BY <2>5, <3>2 DEF Known
  <2> QED
    BY <2>2, <2>5, <2>8, <2>9 DEF Sane
<1> QED
  BY <1>1, <1>2

\* The current master is one of the list, so that update_current_master finds it.
LEMMA AnnounceOK ==
    ASSUME NEW p, Sane(p), NEW d \in Clock, NEW tmo \in Timer
    PROVE  Sane(process_announce(p, d, tmo)) /\ Keeps(p, process_announce(p, d, tmo))
<1>1. CASE p.state \in Masters \cup {"LISTENING"} \/ d # p.best
  BY <1>1, AddOK DEF process_announce, update_current_master
<1>2. CASE p.state \notin Masters \cup {"LISTENING"} /\ d = p.best
  <2> DEFINE a == Added(p, d)
             q == [a EXCEPT !.anno = tmo]
  <2>1. Known(p, d)
    BY <1>2, PtpAssumption DEF Sane
  <2>2. Sane(a) /\ Keeps(p, a)
    BY <2>1, AddedOK
  <2>3. process_announce(p, d, tmo) = q
    BY <1>2 DEF process_announce, update_current_master
  <2> HIDE DEF a
  <2>4. q \in Port /\ Keeps(p, q) /\ q.foreign = a.foreign /\ q.best = a.best
    BY <2>2, Zenon DEF Sane, Port, Keeps
  <2> HIDE DEF q
  <2> QED
    BY <2>2, <2>3, <2>4 DEF Sane, Bounded, Known
<1> QED
  BY <1>1, <1>2

-----------------------------------------------------------------------------
\* Transitions.

LEMMA NextState ==
    ASSUME NEW state \in States, NEW event, NEW mdiff \in BOOLEAN
    PROVE  ptp_fsm(state, event, mdiff) \in States \cup {"INITIALIZING"}
  BY DEF ptp_fsm, States, Masters, Slaves

\* A port that is closed forgets its foreign masters, and the best of them.
LEMMA TransitionOK ==
    ASSUME NEW p, Sane(p), NEW next \in States, NEW tmo \in Timer
    PROVE  LET q == port_e2e_transition(p, next, tmo)
           IN  /\ Sane(q) /\ q.state = next /\ q.parent = p.parent /\ q.sde = p.sde
               /\ next # "FAULTY" => q.best = p.best
<1> DEFINE idle == [p EXCEPT !.state = next, !.anno = Off, !.manno = Off]
           q == port_e2e_transition(p, next, tmo)
<1>1. /\ idle \in Port /\ idle.best = p.best /\ idle.foreign = p.foreign /\ idle.state = next
      /\ idle.parent = p.parent /\ idle.sde = p.sde
  BY Zenon DEF Sane, Port, Timer, States
<1>2. q = CASE next = "FAULTY"       -> port_disable(idle)
            [] next \in Masters      -> [idle EXCEPT !.manno = 0]
            [] next = "UNCALIBRATED" -> [idle EXCEPT !.anno = tmo, !.held = Nil]
            [] OTHER                 -> [idle EXCEPT !.anno = tmo]
  BY DEF port_e2e_transition
<1> HIDE DEF idle, q
<1>3. CASE next = "FAULTY"
  <2>1. q = port_disable(idle)
    BY <1>2, <1>3 DEF Masters
  <2>2. /\ q \in Port /\ q.best = Nil /\ q.foreign = <<>> /\ q.state = next
        /\ q.parent = p.parent /\ q.sde = p.sde
    <3>1. <<>> \in Seq([from : Clock, ages : Seq(Nat)]) /\ Off \in Timer /\ Nil \in Identity
      BY DEF Timer, Identity
    <3>2. q = [idle EXCEPT !.best = Nil, !.foreign = <<>>, !.held = Nil, !.anno = Off,
                           !.manno = Off]
      BY <2>1 DEF port_disable
    <3> QED
      BY <1>1, <3>1, <3>2, Zenon DEF Port
  <2>3. Bounded(q)
    BY <2>2 DEF Bounded
  <2> QED
    BY <1>3, <2>2, <2>3 DEF Sane, q
<1>4. CASE next # "FAULTY"
  <2>1. \/ q = [idle EXCEPT !.manno = 0]
        \/ q = [idle EXCEPT !.anno = tmo, !.held = Nil]
        \/ q = [idle EXCEPT !.anno = tmo]
    BY <1>2, <1>4 DEF Masters
  <2>2. /\ q \in Port /\ q.best = p.best /\ q.foreign = p.foreign /\ q.state = next
        /\ q.parent = p.parent /\ q.sde = p.sde
    <3>1. 0 \in Timer
      BY DEF Timer
    <3>2. CASE q = [idle EXCEPT !.manno = 0]
      BY <1>1, <3>1, <3>2 DEF Port
    <3>3. CASE q = [idle EXCEPT !.anno = tmo, !.held = Nil]
      BY <1>1, <3>3, Zenon DEF Port
    <3>4. CASE q = [idle EXCEPT !.anno = tmo]
      BY <1>1, <3>4 DEF Port
    <3> QED
      BY <2>1, <3>2, <3>3, <3>4
  <2>3. Sane(q)
    BY <2>2 DEF Sane, Bounded, Known
  <2> QED
    BY <2>2, <2>3 DEF q
<1> QED
  BY <1>3, <1>4

\* The port goes where the state machine says, INITIALIZING being passed through.
LEMMA DispatchOK ==
    ASSUME NEW p, Sane(p), p.state \in States, NEW event, NEW mdiff \in BOOLEAN,
           NEW tmo \in Timer
    PROVE  LET q == port_dispatch(p, event, mdiff, tmo)
               next == ptp_fsm(p.state, event, mdiff)
           IN  /\ Sane(q) /\ q.state = IF next = "INITIALIZING" THEN "LISTENING" ELSE next
               /\ q.parent = p.parent /\ q.sde = p.sde
               /\ q.state # "FAULTY" => q.best = p.best
<1> DEFINE q == port_dispatch(p, event, mdiff, tmo)
           next == ptp_fsm(p.state, event, mdiff)
<1>0. next \in States \cup {"INITIALIZING"}
  BY NextState
<1>d. q = IF next = "INITIALIZING" THEN port_initialize(p, tmo)
          ELSE IF next = p.state THEN p ELSE port_e2e_transition(p, next, tmo)
  BY DEF port_dispatch
<1> HIDE DEF q, next
<1>1. CASE next = "INITIALIZING"
  <2>1. q = [p EXCEPT !.state = "LISTENING", !.anno = tmo]
    BY <1>d, <1>1 DEF port_initialize
  <2>2. /\ q \in Port /\ q.best = p.best /\ q.foreign = p.foreign /\ q.state = "LISTENING"
        /\ q.parent = p.parent /\ q.sde = p.sde
    BY <2>1, Zenon DEF Sane, Port, Timer, States
  <2>3. Sane(q)
    BY <2>2 DEF Sane, Bounded, Known
  <2> QED
    BY <1>1, <2>2, <2>3 DEF q, next
<1>2. CASE next # "INITIALIZING" /\ next = p.state
  BY <1>d, <1>2 DEF q, next
<1>3. CASE next # "INITIALIZING" /\ next # p.state
  <2>1. next \in States /\ q = port_e2e_transition(p, next, tmo)
    BY <1>0, <1>d, <1>3
  <2>2. /\ Sane(q) /\ q.state = next /\ q.parent = p.parent /\ q.sde = p.sde
        /\ next # "FAULTY" => q.best = p.best
    BY <2>1, TransitionOK
  <2> QED
    BY <1>3, <2>2 DEF q, next
<1> QED
  BY <1>1, <1>2, <1>3

\* The announce timer: a state decision is due.
LEMMA TimeoutOK ==
    ASSUME NEW p, Sane(p), p.state \in Working, NEW tmo \in Timer
    PROVE  /\ Sane(announce_timeout(p, tmo)) /\ announce_timeout(p, tmo).state \in Working
           /\ announce_timeout(p, tmo).sde
<1> DEFINE u == Update(p, p.best, <<>>)
           v == [u EXCEPT !.anno = tmo, !.sde = TRUE]
           event == "ANNOUNCE_RECEIPT_TIMEOUT_EXPIRES"
<1>1. <<>> \in Seq(Nat) /\ Len(<<>>) <= FOREIGN_MASTER_THRESHOLD + 1
  BY PtpAssumption
<1>2. Sane(u) /\ Keeps(p, u)
  BY <1>1, UpdateOK, Zenon
<1> HIDE DEF u
<1>3. v \in Port /\ v.best = u.best /\ v.foreign = u.foreign /\ v.state = u.state /\ v.sde
  BY <1>2, Zenon DEF Sane, Port
<1> HIDE DEF v
<1>4. Sane(v) /\ v.state \in Working
  BY <1>2, <1>3 DEF Sane, Bounded, Known, Keeps
<1>5. ptp_fsm(v.state, event, FALSE) \in Working
  BY <1>4 DEF ptp_fsm, Working, States, Masters, Slaves
<1>6. announce_timeout(p, tmo) = port_dispatch(v, event, FALSE, tmo)
  BY DEF announce_timeout, v, u
<1>7. v.state \in States /\ "INITIALIZING" \notin Working
  BY <1>4 DEF Working, States, Masters, Slaves
<1> DEFINE q == port_dispatch(v, event, FALSE, tmo)
           next == ptp_fsm(v.state, event, FALSE)
<1>8. /\ Sane(q) /\ q.state = IF next = "INITIALIZING" THEN "LISTENING" ELSE next
      /\ q.sde = v.sde
  BY <1>4, <1>7, DispatchOK, Zenon
<1> HIDE DEF event, q, next
<1> QED
  BY <1>3, <1>5, <1>6, <1>7, <1>8, Zenon DEF q, next

-----------------------------------------------------------------------------
\* The state decision.

\* The master chosen is one of the list.
LEMMA ComputeOK ==
    ASSUME NEW p, Sane(p)
    PROVE  LET q == port_compute_best(p)
           IN  Sane(q) /\ q.state = p.state /\ q.parent = p.parent
<1> DEFINE from(k)     == p.foreign[k].from
           kept(k)     == fc_prune(p.foreign[k].ages)
           Enough      == {k \in DOMAIN p.foreign : Len(kept(k)) >= FOREIGN_MASTER_THRESHOLD}
           Beats(k, K) == \A j \in K \ {k} : Better(from(k), from(j))
           Loses(k)    == k \in Enough /\ ~ Beats(k, {j \in Enough : j < k})
           first       == {k \in Enough : Beats(k, Enough)}
           best        == IF first = {} THEN Nil ELSE from(CHOOSE k \in first : TRUE)
           F           == [k \in DOMAIN p.foreign |->
                              [p.foreign[k] EXCEPT !.ages = IF Loses(k) THEN <<>> ELSE kept(k)]]
           q           == [p EXCEPT !.best = best, !.foreign = F]
<1>1. port_compute_best(p) = q
  BY DEF port_compute_best
<1>2. p \in Port /\ p.foreign \in Seq(Foreign)
  BY DEF Sane, Port, Foreign
<1>3. first \subseteq DOMAIN p.foreign
  OBVIOUS
<1>4. FOREIGN_MASTER_THRESHOLD \in Nat
  BY PtpAssumption
<1>5. ASSUME NEW k \in DOMAIN p.foreign
      PROVE  /\ F[k] \in Foreign /\ F[k].from = p.foreign[k].from
             /\ Len(F[k].ages) <= FOREIGN_MASTER_THRESHOLD + 1
  <2>1. p.foreign[k] \in Foreign
    BY <1>2
  <2>2. kept(k) \in Seq(Nat) /\ Len(kept(k)) <= FOREIGN_MASTER_THRESHOLD
    BY <2>1, PruneOK DEF Foreign
  <2>3. <<>> \in Seq(Nat) /\ Len(<<>>) = 0
    OBVIOUS
  <2>4. PICK ages \in Seq(Nat) : /\ Len(ages) <= FOREIGN_MASTER_THRESHOLD
                                 /\ F[k] = [p.foreign[k] EXCEPT !.ages = ages]
    <3> HIDE DEF kept, Loses
    <3>1. CASE Loses(k)
      <4>1. F[k] = [p.foreign[k] EXCEPT !.ages = <<>>]
        BY <3>1
      <4>2. Len(<<>>) <= FOREIGN_MASTER_THRESHOLD
        BY <1>4, <2>3
      <4> HIDE DEF F
      <4> QED
        BY <2>3, <4>1, <4>2, Zenon
    <3>2. CASE ~ Loses(k)
      <4>1. F[k] = [p.foreign[k] EXCEPT !.ages = kept(k)]
        BY <3>2
      <4> HIDE DEF F
      <4> QED
        BY <2>2, <4>1
    <3> QED
      BY <3>1, <3>2, Zenon
  <2> HIDE DEF F
  <2> QED
    BY <1>4, <2>1, <2>4 DEF Foreign
<1>6. DOMAIN F = DOMAIN p.foreign
  OBVIOUS
<1>7. F \in Seq(Foreign)
  <2> DEFINE n == Len(p.foreign)
  <2>1. n \in Nat /\ DOMAIN p.foreign = 1 .. n
    BY <1>2
  <2>2. F = [k \in 1 .. n |-> F[k]]
    BY <2>1
  <2> HIDE DEF F
  <2> QED
    BY <1>5, <2>1, <2>2
<1>8. best = Nil \/ \E k \in DOMAIN p.foreign : best = p.foreign[k].from
  <2> HIDE DEF first
  <2> QED
    BY <1>3, Zenon
<1> HIDE DEF F, best
<1>9. best \in Identity
  <2>1. \A k \in DOMAIN p.foreign : p.foreign[k].from \in Clock
    <3> TAKE k \in DOMAIN p.foreign
    <3>1. p.foreign[k] \in Foreign
      BY <1>2
    <3> QED
      BY <3>1 DEF Foreign
  <2> QED
    BY <1>8, <2>1 DEF Identity
<1>10. /\ q \in Port /\ q.state = p.state /\ q.parent = p.parent
       /\ q.best = best /\ q.foreign = F
  BY <1>2, <1>7, <1>9, Zenon DEF Port, Foreign
<1> HIDE DEF q
<1>11. Sane(q)
  BY <1>5, <1>6, <1>8, <1>10 DEF Sane, Bounded, Known
<1> QED
  BY <1>1, <1>10, <1>11

\* After the decision the port follows the best master, or serves.
LEMMA DecisionOK ==
    ASSUME NEW c \in Clock, NEW p, Sane(p), p.state \in Working, NEW tmo \in Timer
    PROVE  LET q == handle_state_decision_event(c, p, tmo)
           IN  Right(c, q) /\ ~ q.sde /\ q.state \in Working
<1> DEFINE b     == port_compute_best(p)
           id    == IF b.best = Nil THEN c ELSE b.best
           role  == bmc_state_decision(c, b)
           par   == CASE role = "GRAND_MASTER" -> c
                      [] role = "SLAVE"        -> b.best
                      [] OTHER                 -> b.parent
           told  == [b EXCEPT !.sde = FALSE, !.best_id = id, !.parent = par]
           event == IF role = "SLAVE" THEN "RS_SLAVE" ELSE "RS_GRAND_MASTER"
           mdiff == id # p.best_id
           q     == IF role = "LISTENING" THEN told ELSE port_dispatch(told, event, mdiff, tmo)
           next  == ptp_fsm(told.state, event, mdiff)
<1>1. handle_state_decision_event(c, p, tmo) = q
  BY DEF handle_state_decision_event
<1>2. Sane(b) /\ b.state = p.state /\ b.parent = p.parent
  BY ComputeOK
<1>3. \/ role = "LISTENING" /\ b.state = "LISTENING"
      \/ role = "GRAND_MASTER"
      \/ role = "SLAVE" /\ b.best # Nil
  BY DEF bmc_state_decision, BetterThan
<1>4. b \in Port /\ b.best \in Clock \cup {Nil} /\ b.parent \in Clock
  BY <1>2 DEF Sane, Port, Identity
<1> HIDE DEF b, role
<1>5. /\ par \in Clock /\ id \in Identity
      /\ role = "GRAND_MASTER" => par = c
      /\ role = "SLAVE" => par = b.best
  BY <1>3, <1>4 DEF Identity
<1> HIDE DEF par, id
<1>6. /\ told \in Port /\ told.best = b.best /\ told.foreign = b.foreign
      /\ told.state = b.state /\ told.parent = par /\ told.sde = FALSE
  BY <1>4, <1>5, Zenon DEF Port
<1> HIDE DEF told
<1>7. Sane(told) /\ told.state \in Working
  BY <1>2, <1>6 DEF Sane, Bounded, Known
<1>8. CASE role = "LISTENING"
  <2>1. told.state = "LISTENING" /\ q = told
    BY <1>3, <1>6, <1>8
  <2> HIDE DEF q
  <2> QED
    BY <1>1, <1>6, <1>7, <2>1 DEF Right, Working, States, Masters, Slaves
<1>9. CASE role # "LISTENING"
  <2>1. told.state \in States /\ mdiff \in BOOLEAN
    BY <1>7 DEF Working
  <2>2. /\ Sane(q) /\ q.state = IF next = "INITIALIZING" THEN "LISTENING" ELSE next
        /\ q.parent = told.parent /\ q.sde = told.sde
        /\ q.state # "FAULTY" => q.best = told.best
    <3> HIDE DEF event, mdiff
    <3> QED
      BY <1>7, <1>9, <2>1, DispatchOK
  <2>3. CASE role = "GRAND_MASTER"
    <3>1. event = "RS_GRAND_MASTER"
      BY <2>3
    <3> HIDE DEF event, mdiff
    <3>2. next \in Masters
      BY <1>7, <3>1 DEF ptp_fsm, Working, States, Masters, Slaves
    <3> HIDE DEF q, next
    <3>3. q.state \in Masters
      BY <2>2, <3>2 DEF Masters
    <3> QED
      BY <1>1, <1>5, <1>6, <2>2, <2>3, <3>3 DEF Right, Working, States, Masters, Slaves
  <2>4. CASE role = "SLAVE"
    <3>1. event = "RS_SLAVE"
      BY <2>4
    <3> HIDE DEF event, mdiff
    <3>2. next \in Slaves
      BY <1>7, <2>1, <3>1 DEF ptp_fsm, Working, States, Masters, Slaves
    <3> HIDE DEF q, next
    <3>3. q.state \in Slaves
      BY <2>2, <3>2 DEF Slaves
    <3> QED
      BY <1>1, <1>3, <1>5, <1>6, <2>2, <2>4, <3>3
         DEF Right, Follows, Working, States, Masters, Slaves
  <2> QED
    BY <1>3, <1>9, <2>3, <2>4
<1> QED
  BY <1>8, <1>9

-----------------------------------------------------------------------------
\* Sync and Follow_Up messages: the servo moves the port between the states of a slave.

LEMMA SyncOK ==
    ASSUME NEW c \in Clock, NEW p, Right(c, p), p.state \in Working, ~ p.sde,
           NEW m \in Message, m.type # "ANNOUNCE", NEW servo, NEW tmo \in Timer
    PROVE  LET q == process_sync(p, m, servo, tmo)
           IN  Right(c, q) /\ q.state \in Working /\ ~ q.sde
<1> DEFINE q == process_sync(p, m, servo, tmo)
<1>0. Sane(p) /\ p.state \in States
  BY DEF Right
<1>1. CASE ~ (p.state \in Slaves /\ m.from = p.parent)
  BY <1>1 DEF process_sync
<1>2. CASE p.state \in Slaves /\ m.from = p.parent /\ ~ Matches(p.held, m)
  <2> DEFINE h == [type |-> m.type, from |-> m.from, seq |-> m.seq]
             r == [p EXCEPT !.held = h]
  <2>1. q = r
    BY <1>2 DEF process_sync, port_syfufsm
  <2>2. h \in General
    BY DEF Message, General
  <2> HIDE DEF h, q
  <2>3. /\ r \in Port /\ Keeps(p, r) /\ r.foreign = p.foreign /\ r.sde = p.sde
    BY <1>0, <2>2 DEF Sane, Port, Keeps
  <2> HIDE DEF r
  <2>4. Sane(r)
    BY <1>0, <2>3 DEF Sane, Bounded, Known, Keeps
  <2>5. Right(c, r)
    BY <2>3, <2>4, KeepsRight
  <2> QED
    BY <2>1, <2>3, <2>5 DEF q, Keeps
<1>3. CASE p.state \in Slaves /\ m.from = p.parent /\ Matches(p.held, m)
  <2> DEFINE event == IF servo = "LOCKED" THEN "MASTER_CLOCK_SELECTED"
                      ELSE "SYNCHRONIZATION_FAULT"
             d == port_dispatch(p, event, FALSE, tmo)
             next == ptp_fsm(p.state, event, FALSE)
             r == [d EXCEPT !.held = Nil]
  <2>1. q = r
    BY <1>3 DEF process_sync, port_syfufsm, port_synchronize
  <2>2. event \in {"MASTER_CLOCK_SELECTED", "SYNCHRONIZATION_FAULT"}
    OBVIOUS
  <2> HIDE DEF event, q
  <2>3. next \in Slaves
    BY <1>3, <2>2 DEF ptp_fsm, Masters, Slaves
  <2>4. /\ Sane(d) /\ d.state = IF next = "INITIALIZING" THEN "LISTENING" ELSE next
        /\ d.parent = p.parent /\ d.sde = p.sde
        /\ d.state # "FAULTY" => d.best = p.best
    BY <1>0, DispatchOK, Zenon
  <2> HIDE DEF d, next
  <2>5. d.state \in Slaves /\ d.best = p.best
    BY <2>3, <2>4 DEF Slaves
  <2>6. /\ r \in Port /\ r.foreign = d.foreign /\ r.best = d.best /\ r.state = d.state
        /\ r.parent = d.parent /\ r.sde = d.sde
    BY <2>4 DEF Sane, Port
  <2> HIDE DEF r
  <2>7. Sane(r)
    BY <2>4, <2>6 DEF Sane, Bounded, Known
  <2>8. Follows(p)
    BY <1>3 DEF Right
  <2> QED
    BY <2>1, <2>4, <2>5, <2>6, <2>7, <2>8
       DEF q, Right, Follows, Working, States, Masters, Slaves
<1> QED
  BY <1>1, <1>2, <1>3

-----------------------------------------------------------------------------
\* A round of clock_poll.

\* What a round makes of the port, before the state decision.
Ready(c, p) ==
    IF p.sde THEN Sane(p) /\ p.state \in Working ELSE Right(c, p)

LEMMA PolledOK ==
    ASSUME PtpInv, NEW c \in Clock, Runs(c), NEW p, Ready(c, p), NEW tmo \in Timer,
           NEW msgs \in SUBSET Message, \A m \in msgs : Enabled(m.to),
           Polled(c, p, msgs, tmo), linkup' \subseteq Clock
    PROVE  PtpInv'
<1> DEFINE q == IF p.sde THEN handle_state_decision_event(c, p, tmo) ELSE p
<1>1. Right(c, q) /\ ~ q.sde
  BY DecisionOK DEF Ready
<1>2. /\ port' = [port EXCEPT ![c] = IF c \in kill THEN Nil ELSE q]
      /\ kill' = kill \ {c}
      /\ net' = IF c \in kill \/ q.state = "FAULTY" THEN {m \in msgs : m.to # c} ELSE msgs
  BY DEF Polled
<1> HIDE DEF q
<1>3. /\ port \in [Clock -> Port \cup {Nil}] /\ kill \subseteq {d \in Clock : Runs(d)}
  BY DEF PtpInv, TypeOK
<1>4. q \in Port /\ q # Nil /\ q.state \in States /\ Bounded(q)
  BY <1>1, PortAssumption DEF Right, Sane
<1>5. port' \in [Clock -> Port \cup {Nil}]
  BY <1>2, <1>3, <1>4
<1>6. \A d \in Clock : d # c => port'[d] = port[d]
  BY <1>2, <1>3
<1>7. port'[c] = IF c \in kill THEN Nil ELSE q
  BY <1>2, <1>3
<1>8. kill' \subseteq {d \in Clock : Runs(d)'}
  BY <1>2, <1>3, <1>6 DEF Runs
<1>9. net' \subseteq Message /\ \A m \in net' : Enabled(m.to)'
  <2>1. net' \subseteq msgs
    BY <1>2
  <2>2. ASSUME NEW m \in net' PROVE Enabled(m.to)'
    <3>1. m \in msgs /\ m.to \in Clock /\ Enabled(m.to)
      BY <2>1, <2>2 DEF Message
    <3>2. CASE m.to # c
      BY <1>6, <3>1, <3>2 DEF Enabled, Runs
    <3>3. CASE m.to = c
      <4>1. ~ (c \in kill \/ q.state = "FAULTY")
        BY <1>2, <2>2, <3>3
      <4> QED
        BY <1>4, <1>7, <3>3, <4>1 DEF Enabled, Runs
    <3> QED
      BY <3>2, <3>3
  <2> QED
    BY <2>1, <2>2
<1>10. ASSUME NEW d \in Clock, Runs(d)'
       PROVE  Right(d, port'[d]) /\ ~ port'[d].sde
  <2>1. CASE d # c
    BY <1>6, <1>10, <2>1 DEF PtpInv, TypeOK, Runs
  <2>2. CASE d = c
    BY <1>1, <1>7, <1>10, <2>2 DEF Runs
  <2> QED
    BY <2>1, <2>2
<1>11. ASSUME NEW d \in Clock, Runs(d)'
       PROVE  /\ Right(d, port[d])' /\ port'[d].state \in States /\ ~ port'[d].sde
              /\ \A k \in DOMAIN port'[d].foreign :
                    Len(port'[d].foreign[k].ages) <= FOREIGN_MASTER_THRESHOLD + 1
  <2>1. Right(d, port'[d]) => Right(d, port[d])'
    BY DEF Right, Sane, Bounded, Known, Follows
  <2>2. Right(d, port'[d]) /\ ~ port'[d].sde
    BY <1>10, <1>11
  <2> QED
    BY <2>1, <2>2 DEF Right, Sane, Bounded
<1>12. TypeOK'
  BY <1>5, <1>8, <1>9, <1>11 DEF TypeOK
<1> QED
  BY <1>11, <1>12 DEF PtpInv

-----------------------------------------------------------------------------
\* The steps.

LEMMA TimerTypes ==
    /\ AnnounceTimeouts \subseteq Nat /\ AnnounceTimeouts \subseteq Timer
    /\ Off \in Timer /\ 0 \in Timer /\ Interval \in Timer
<1>1. Interval \in Nat /\ announceReceiptTimeout \in Nat
  BY PtpAssumption
<1>2. announceReceiptTimeout * Interval \in Nat
  BY <1>1
<1> QED
  BY <1>1, <1>2 DEF AnnounceTimeouts, Timer

LEMMA Running ==
    ASSUME PtpInv, NEW c \in Clock, Runs(c)
    PROVE  /\ Right(c, port[c]) /\ Sane(port[c]) /\ port[c] \in Port
           /\ port[c].state \in States /\ ~ port[c].sde
  BY DEF PtpInv, TypeOK, Right, Sane

\* The network before the round, for PolledOK.
LEMMA Network ==
    ASSUME PtpInv
    PROVE  net \in SUBSET Message /\ (\A m \in net : Enabled(m.to)) /\ linkup \subseteq Clock
  BY DEF PtpInv, TypeOK

LEMMA SentOK ==
    ASSUME NEW c \in Clock, NEW type \in {"ANNOUNCE", "SYNC", "FOLLOW_UP"}, NEW seq \in Nat
    PROVE  Sent(c, type, seq) \subseteq Message /\ \A m \in Sent(c, type, seq) : Enabled(m.to)
  BY DEF Sent, Message

LEMMA ReadyTimeout ==
    ASSUME NEW c, NEW p, Sane(p), p.state \in Working, NEW tmo \in Timer
    PROVE  Ready(c, announce_timeout(p, tmo))
  BY TimeoutOK DEF Ready

LEMMA EventStep ==
    ASSUME PtpInv, NEW c \in Clock, NEW m \in net, NEW timeout \in BOOLEAN, NEW servo,
           NEW tmo \in Timer, port_event(c, m, timeout, servo, tmo)
    PROVE  PtpInv'
<1> DEFINE read == IF m.type = "ANNOUNCE" THEN process_announce(port[c], m.from, tmo)
                   ELSE process_sync(port[c], m, servo, tmo)
           done == IF timeout THEN announce_timeout(read, tmo) ELSE read
<1>1. /\ Runs(c) /\ port[c].state # "FAULTY" /\ linkup' = linkup
      /\ Polled(c, done, net \ {m}, tmo)
  BY DEF port_event, Enabled
<1>2. /\ Right(c, port[c]) /\ Sane(port[c]) /\ port[c].state \in Working /\ ~ port[c].sde
  BY <1>1, Running DEF Working
<1>3. m \in Message /\ m.from \in Clock
  BY Network DEF Message
<1>4. Right(c, read) /\ read.state \in Working
  <2>1. CASE m.type = "ANNOUNCE"
    <3>1. Sane(read) /\ Keeps(port[c], read)
      BY <1>2, <1>3, <2>1, AnnounceOK
    <3> HIDE DEF read
    <3> QED
      BY <1>2, <3>1, KeepsRight DEF Keeps
  <2>2. CASE m.type # "ANNOUNCE"
    BY <1>2, <1>3, <2>2, SyncOK
  <2> QED
    BY <2>1, <2>2
<1> HIDE DEF read
<1>5. Ready(c, done)
  <2>1. Sane(read)
    BY <1>4 DEF Right
  <2>2. CASE timeout
    BY <1>4, <2>1, <2>2, ReadyTimeout
  <2>3. CASE ~ timeout
    BY <1>4, <2>1, <2>3 DEF Ready
  <2> QED
    BY <2>2, <2>3
<1> HIDE DEF done
<1>6. net \ {m} \in SUBSET Message /\ \A n \in net \ {m} : Enabled(n.to)
  BY Network
<1> QED
  BY <1>1, <1>5, <1>6, Network, PolledOK

LEMMA TimerStep ==
    ASSUME PtpInv, NEW c \in Clock, NEW tmo \in Timer, FD_ANNOUNCE_TIMER(c, tmo)
    PROVE  PtpInv'
<1>1. /\ Runs(c) /\ port[c].state # "FAULTY" /\ linkup' = linkup
      /\ Polled(c, announce_timeout(port[c], tmo), net, tmo)
  BY DEF FD_ANNOUNCE_TIMER, Enabled
<1>2. Ready(c, announce_timeout(port[c], tmo))
  BY <1>1, Running, ReadyTimeout DEF Working
<1> QED
  BY <1>1, <1>2, Network, PolledOK

\* Timers and counters of a port do not matter.
LEMMA Immaterial ==
    ASSUME NEW c, NEW p, Right(c, p), ~ p.sde, NEW q \in Port,
           Keeps(p, q), q.foreign = p.foreign, q.sde = p.sde
    PROVE  Right(c, q) /\ Ready(c, q)
<1>1. Sane(q)
  BY DEF Right, Sane, Bounded, Known, Keeps
<1>2. Right(c, q)
  BY <1>1, KeepsRight
<1> QED
  BY <1>2 DEF Ready

LEMMA AnnounceStep ==
    ASSUME PtpInv, NEW c \in Clock, port_tx_announce(c)
    PROVE  PtpInv'
<1> DEFINE q == [port[c] EXCEPT !.manno = Interval]
           msgs == net \cup Sent(c, "ANNOUNCE", 0)
<1>1. Runs(c) /\ linkup' = linkup /\ Polled(c, q, msgs, Off)
  BY DEF port_tx_announce, Enabled
<1>2. Right(c, port[c]) /\ port[c] \in Port /\ ~ port[c].sde
  BY <1>1, Running
<1>3. /\ q \in Port /\ Keeps(port[c], q) /\ q.foreign = port[c].foreign
      /\ q.sde = port[c].sde
  BY <1>2, TimerTypes, Zenon DEF Port, Keeps
<1> HIDE DEF q
<1>4. Ready(c, q)
  BY <1>2, <1>3, Immaterial
<1>5. msgs \in SUBSET Message /\ \A m \in msgs : Enabled(m.to)
  BY Network, SentOK, 0 \in Nat
<1> HIDE DEF msgs
<1> QED
  BY <1>1, <1>4, <1>5, Network, TimerTypes, PolledOK

LEMMA SyncStep ==
    ASSUME PtpInv, NEW c \in Clock, port_tx_sync(c)
    PROVE  PtpInv'
<1> DEFINE seq == port[c].seq
           q == [port[c] EXCEPT !.seq = seq + 1]
           msgs == net \cup Sent(c, "SYNC", seq) \cup Sent(c, "FOLLOW_UP", seq)
<1>1. Runs(c) /\ linkup' = linkup /\ Polled(c, q, msgs, Off)
  BY DEF port_tx_sync, Enabled
<1>2. Right(c, port[c]) /\ port[c] \in Port /\ ~ port[c].sde
  BY <1>1, Running
<1>3. seq \in Nat
  BY <1>2 DEF Port
<1>4. /\ q \in Port /\ Keeps(port[c], q) /\ q.foreign = port[c].foreign
      /\ q.sde = port[c].sde
  <2>1. PICK n \in Nat : q = [port[c] EXCEPT !.seq = n]
    BY <1>3
  <2> HIDE DEF q
  <2> QED
    BY <1>2, <2>1, Zenon DEF Port, Keeps
<1> HIDE DEF q, seq
<1>5. Ready(c, q)
  BY <1>2, <1>4, Immaterial
<1>6. msgs \in SUBSET Message /\ \A m \in msgs : Enabled(m.to)
  BY <1>3, Network, SentOK
<1> HIDE DEF msgs
<1> QED
  BY <1>1, <1>5, <1>6, Network, TimerTypes, PolledOK

\* A fault, however it comes, closes the port.
LEMMA Closed ==
    ASSUME NEW c, NEW p, Right(c, p), ~ p.sde, NEW tmo \in Timer
    PROVE  LET q == port_dispatch(p, "FAULT_DETECTED", FALSE, tmo)
           IN  Right(c, q) /\ ~ q.sde
<1> DEFINE event == "FAULT_DETECTED"
           q == port_dispatch(p, event, FALSE, tmo)
           next == ptp_fsm(p.state, event, FALSE)
<1>1. Sane(p) /\ p.state \in States
  BY DEF Right
<1>2. next = "FAULTY"
  BY <1>1 DEF ptp_fsm
<1>3. /\ Sane(q) /\ q.state = IF next = "INITIALIZING" THEN "LISTENING" ELSE next
      /\ q.sde = p.sde
  BY <1>1, DispatchOK, Zenon
<1> HIDE DEF q, next
<1> QED
  BY <1>2, <1>3, Zenon DEF q, Right, States, Masters, Slaves

\* When it is over the port listens, or is where it was.
LEMMA Cleared ==
    ASSUME NEW c, NEW p, Right(c, p), ~ p.sde, NEW tmo \in Timer
    PROVE  LET q == port_dispatch(p, "FAULT_CLEARED", FALSE, tmo)
           IN  Right(c, q) /\ ~ q.sde
<1> DEFINE event == "FAULT_CLEARED"
           q == port_dispatch(p, event, FALSE, tmo)
           next == ptp_fsm(p.state, event, FALSE)
<1>1. Sane(p) /\ p.state \in States
  BY DEF Right
<1>2. next = IF p.state = "FAULTY" THEN "INITIALIZING" ELSE p.state
  BY <1>1 DEF ptp_fsm
<1>3. /\ Sane(q) /\ q.state = IF next = "INITIALIZING" THEN "LISTENING" ELSE next
      /\ q.parent = p.parent /\ q.sde = p.sde
      /\ q.state # "FAULTY" => q.best = p.best
  BY <1>1, DispatchOK, Zenon
<1> HIDE DEF q, next
<1>4. \/ q.state = "LISTENING"
      \/ p.state # "FAULTY" /\ q.state = p.state /\ q.best = p.best
  BY <1>1, <1>2, <1>3 DEF States, Masters, Slaves
<1>5. Right(c, q)
  BY <1>3, <1>4 DEF Right, Follows, States, Masters, Slaves
<1> QED
  BY <1>3, <1>5, Zenon DEF q

LEMMA FaultStep ==
    ASSUME PtpInv, NEW c \in Clock, Fault(c)
    PROVE  PtpInv'
<1> DEFINE d == port_dispatch(port[c], "FAULT_DETECTED", FALSE, Off)
           q == [d EXCEPT !.fault = TRUE]
<1>1. Runs(c) /\ linkup' = linkup /\ Polled(c, q, net, Off)
  BY DEF Fault, Enabled
<1>2. Right(c, d) /\ ~ d.sde
  BY <1>1, Running, TimerTypes, Closed, Zenon
<1> HIDE DEF d
<1>3. q \in Port /\ Keeps(d, q) /\ q.foreign = d.foreign /\ q.sde = d.sde
  BY <1>2, Zenon DEF Right, Sane, Port, Keeps
<1> HIDE DEF q
<1>4. Ready(c, q)
  BY <1>2, <1>3, Immaterial
<1> QED
  BY <1>1, <1>4, Network, TimerTypes, PolledOK

LEMMA UnfaultOK ==
    ASSUME PtpInv, NEW c \in Clock, Runs(c)
    PROVE  LET p == [port[c] EXCEPT !.fault = FALSE]
           IN  Right(c, p) /\ ~ p.sde
<1> DEFINE p == [port[c] EXCEPT !.fault = FALSE]
<1>1. Right(c, port[c]) /\ port[c] \in Port /\ ~ port[c].sde
  BY Running
<1>2. p \in Port /\ Keeps(port[c], p) /\ p.foreign = port[c].foreign /\ p.sde = port[c].sde
  BY <1>1, Zenon DEF Port, Keeps
<1> HIDE DEF p
<1> QED
  BY <1>1, <1>2, Immaterial, Zenon DEF p

LEMMA FaultTimeoutStep ==
    ASSUME PtpInv, NEW c \in Clock, NEW tmo \in Timer, clock_fault_timeout(c, tmo)
    PROVE  PtpInv'
<1> DEFINE p == [port[c] EXCEPT !.fault = FALSE]
           q == IF c \in linkup THEN port_dispatch(p, "FAULT_CLEARED", FALSE, tmo) ELSE p
<1>1. Runs(c) /\ linkup' = linkup /\ Polled(c, q, net, tmo)
  BY Zenon DEF clock_fault_timeout
<1>2. Right(c, p) /\ ~ p.sde
  BY <1>1, UnfaultOK
<1> HIDE DEF p
<1>3. Right(c, q) /\ ~ q.sde
  BY <1>2, Cleared, Zenon
<1> HIDE DEF q
<1> QED
  BY <1>1, <1>3, Network, PolledOK DEF Ready

LEMMA InitializeFailsStep ==
    ASSUME PtpInv, NEW c \in Clock, InitializeFails(c)
    PROVE  PtpInv'
<1> DEFINE p == [port[c] EXCEPT !.fault = FALSE]
<1>1. Runs(c) /\ linkup' = linkup /\ Polled(c, p, net, Off)
  BY DEF InitializeFails
<1>2. Right(c, p) /\ ~ p.sde
  BY <1>1, UnfaultOK
<1> HIDE DEF p
<1> QED
  BY <1>1, <1>2, Network, TimerTypes, PolledOK DEF Ready

\* A link that changes while nobody listens.
LEMMA LinkOnly ==
    ASSUME PtpInv, UNCHANGED <<port, kill, net>>, linkup' \subseteq Clock
    PROVE  PtpInv'
  BY DEF PtpInv, TypeOK, Right, Sane, Bounded, Known, Follows, Runs, Enabled

LEMMA LinkDownStep ==
    ASSUME PtpInv, NEW c \in Clock, LinkDown(c)
    PROVE  PtpInv'
<1> DEFINE q == port_dispatch(port[c], "FAULT_DETECTED", FALSE, Off)
<1>1. linkup' \subseteq Clock
  BY Network DEF LinkDown
<1>2. CASE Runs(c)
  <2>1. Polled(c, q, net, Off)
    BY <1>2, Zenon DEF LinkDown
  <2>2. Right(c, q) /\ ~ q.sde
    BY <1>2, Running, TimerTypes, Closed, Zenon
  <2> HIDE DEF q
  <2> QED
    BY <1>1, <1>2, <2>1, <2>2, Network, TimerTypes, PolledOK DEF Ready
<1>3. CASE ~ Runs(c)
  BY <1>1, <1>3, LinkOnly DEF LinkDown
<1> QED
  BY <1>2, <1>3

LEMMA LinkUpStep ==
    ASSUME PtpInv, NEW c \in Clock, NEW tmo \in Timer, LinkUp(c, tmo)
    PROVE  PtpInv'
<1> DEFINE q == port_dispatch(port[c], "FAULT_CLEARED", FALSE, tmo)
<1>1. linkup' \subseteq Clock
  BY Network DEF LinkUp
<1>2. CASE Runs(c)
  <2>1. Polled(c, q, net, tmo)
    BY <1>2, Zenon DEF LinkUp
  <2>2. Right(c, q) /\ ~ q.sde
    BY <1>2, Running, Cleared, Zenon
  <2> HIDE DEF q
  <2> QED
    BY <1>1, <1>2, <2>1, <2>2, Network, PolledOK DEF Ready
<1>3. CASE ~ Runs(c)
  BY <1>1, <1>3, LinkOnly DEF LinkUp
<1> QED
  BY <1>2, <1>3

LEMMA LinkUpFailsStep ==
    ASSUME PtpInv, NEW c \in Clock, LinkUpFails(c)
    PROVE  PtpInv'
<1>1. /\ Runs(c) /\ linkup' \subseteq Clock
      /\ Polled(c, port[c], net, Off)
  BY Network DEF LinkUpFails
<1>2. Right(c, port[c]) /\ ~ port[c].sde
  BY <1>1, Running, Zenon
<1> QED
  BY <1>1, <1>2, Network, TimerTypes, PolledOK DEF Ready

\* The port of one clock becomes q, which is right, or the clock ends.
LEMMA Replaced ==
    ASSUME PtpInv, NEW c \in Clock, NEW q,
           q = Nil \/ (Right(c, q) /\ ~ q.sde),
           port' = [port EXCEPT ![c] = q],
           kill' \subseteq {d \in Clock : Runs(d)'}, linkup' = linkup,
           net' \subseteq net, \A m \in net' : m.to # c
    PROVE  PtpInv'
<1>1. port \in [Clock -> Port \cup {Nil}]
  BY DEF PtpInv, TypeOK
<1>2. q \in Port \cup {Nil}
  BY DEF Right, Sane
<1>3. port' \in [Clock -> Port \cup {Nil}]
  BY <1>1, <1>2
<1>4. port'[c] = q /\ \A d \in Clock : d # c => port'[d] = port[d]
  BY <1>1
<1>5. net' \subseteq Message /\ \A m \in net' : Enabled(m.to)'
  <2>1. \A m \in net' : m.to \in Clock /\ Enabled(m.to)
    BY Network DEF Message
  <2> QED
    BY <1>4, <2>1, Network DEF Enabled, Runs
<1>6. ASSUME NEW d \in Clock, Runs(d)'
      PROVE  Right(d, port'[d]) /\ ~ port'[d].sde
  <2>1. CASE d # c
    BY <1>4, <1>6, <2>1 DEF PtpInv, TypeOK, Runs
  <2>2. CASE d = c
    BY <1>4, <1>6, <2>2 DEF Runs
  <2> QED
    BY <2>1, <2>2
<1>7. ASSUME NEW d \in Clock, Runs(d)'
      PROVE  /\ Right(d, port[d])' /\ port'[d].state \in States /\ ~ port'[d].sde
             /\ \A k \in DOMAIN port'[d].foreign :
                   Len(port'[d].foreign[k].ages) <= FOREIGN_MASTER_THRESHOLD + 1
  <2>1. Right(d, port'[d]) => Right(d, port[d])'
    BY DEF Right, Sane, Bounded, Known, Follows
  <2>2. Right(d, port'[d]) /\ ~ port'[d].sde
    BY <1>6, <1>7
  <2> QED
    BY <2>1, <2>2 DEF Right, Sane, Bounded
<1>8. TypeOK'
  BY <1>3, <1>5, <1>7, Network DEF TypeOK
<1> QED
  BY <1>7, <1>8 DEF PtpInv

\* A clock that did not run gets the port q.
LEMMA Started ==
    ASSUME PtpInv, NEW c \in Clock, ~ Runs(c), NEW q, Right(c, q), ~ q.sde,
           port' = [port EXCEPT ![c] = q], UNCHANGED <<kill, linkup, net>>
    PROVE  PtpInv'
<1>1. \A m \in net' : m.to # c
  BY Network DEF Enabled
<1>2. kill' \subseteq {d \in Clock : Runs(d)'}
  <2>1. kill \subseteq {d \in Clock : Runs(d)} /\ port \in [Clock -> Port \cup {Nil}]
    BY DEF PtpInv, TypeOK
  <2>2. \A d \in Clock : d # c => port'[d] = port[d]
    BY <2>1
  <2> QED
    BY <2>1, <2>2 DEF Runs
<1> QED
  BY <1>1, <1>2, Replaced, Zenon

LEMMA CreatedPort ==
    ASSUME NEW c \in Clock
    PROVE  /\ clock_create(c) \in Port
           /\ clock_create(c).best = Nil /\ clock_create(c).foreign = <<>>
           /\ clock_create(c).sde = FALSE
<1>1. /\ "INITIALIZING" \in States \cup {"INITIALIZING"} /\ Nil \in Identity
      /\ <<>> \in Seq([from : Clock, ages : Seq(Nat)])
      /\ Nil \in General \cup {Nil} /\ 0 \in Nat /\ Off \in Timer
  BY TimerTypes DEF Identity
<1>2. clock_create(c) \in Port
  BY <1>1, Zenon DEF Port, clock_create
<1> QED
  BY <1>2 DEF clock_create

LEMMA StartStep ==
    ASSUME PtpInv, NEW c \in Clock, NEW tmo \in Timer, Start(c, tmo)
    PROVE  PtpInv'
<1> DEFINE p0 == clock_create(c)
           p  == port_initialize(p0, tmo)
           q  == IF c \in linkup THEN p ELSE port_dispatch(p, "FAULT_DETECTED", FALSE, tmo)
<1>1. /\ ~ Runs(c) /\ port' = [port EXCEPT ![c] = q]
      /\ UNCHANGED <<kill, linkup, net>>
  BY DEF Start
<1>2. /\ p0 \in Port /\ p0.best = Nil /\ p0.foreign = <<>> /\ p0.sde = FALSE
  BY CreatedPort
<1>3. p = [p0 EXCEPT !.state = "LISTENING", !.anno = tmo]
  BY DEF port_initialize
<1> HIDE DEF p0, p
<1>4. /\ p \in Port /\ p.best = Nil /\ p.foreign = <<>> /\ p.sde = FALSE
      /\ p.state = "LISTENING"
  BY <1>2, <1>3, Zenon DEF Port, States
<1>5. Right(c, p)
  BY <1>4 DEF Right, Sane, Bounded, States, Masters, Slaves
<1>6. Right(c, q) /\ ~ q.sde
  BY <1>4, <1>5, Closed, Zenon
<1> HIDE DEF q
<1> QED
  BY <1>1, <1>6, Started, Zenon

LEMMA StartFailsStep ==
    ASSUME PtpInv, NEW c \in Clock, StartFails(c)
    PROVE  PtpInv'
<1> DEFINE p0 == clock_create(c)
           q  == [p0 EXCEPT !.state = "FAULTY"]
<1>1. /\ ~ Runs(c) /\ port' = [port EXCEPT ![c] = q]
      /\ UNCHANGED <<kill, linkup, net>>
  BY DEF StartFails
<1>2. /\ p0 \in Port /\ p0.best = Nil /\ p0.foreign = <<>> /\ p0.sde = FALSE
  BY CreatedPort
<1> HIDE DEF p0
<1>3. /\ q \in Port /\ q.best = Nil /\ q.foreign = <<>> /\ q.sde = FALSE
      /\ q.state = "FAULTY"
  BY <1>2, Zenon DEF Port, States
<1> HIDE DEF q
<1>4. Right(c, q)
  BY <1>3 DEF Right, Sane, Bounded, States, Masters, Slaves
<1> QED
  BY <1>1, <1>3, <1>4, Started, Zenon

LEMMA StopStep ==
    ASSUME PtpInv, NEW c \in Clock, Stop(c)
    PROVE  PtpInv'
<1>0. kill \subseteq {d \in Clock : Runs(d)} /\ port \in [Clock -> Port \cup {Nil}]
  BY DEF PtpInv, TypeOK
<1>1. CASE kill' = kill \cup {c} /\ UNCHANGED <<port, net>>
  BY <1>0, <1>1
     DEF Stop, PtpInv, TypeOK, Right, Sane, Bounded, Known, Follows, Runs, Enabled
<1>2. CASE /\ port' = [port EXCEPT ![c] = Nil]
           /\ net' = {m \in net : m.to # c}
           /\ UNCHANGED kill
  <2>1. c \notin kill /\ linkup' = linkup
    BY DEF Stop
  <2>2. \A d \in Clock : d # c => port'[d] = port[d]
    BY <1>0, <1>2
  <2>3. kill' \subseteq {d \in Clock : Runs(d)'}
    BY <1>0, <1>2, <2>1, <2>2 DEF Runs
  <2> QED
    BY <1>2, <2>1, <2>3, Replaced, Zenon
<1> QED
  BY <1>1, <1>2 DEF Stop

LEMMA LoseStep ==
    ASSUME PtpInv, NEW m \in net, Lose(m)
    PROVE  PtpInv'
  BY DEF Lose, PtpInv, TypeOK, Right, Sane, Bounded, Known, Follows, Runs, Enabled

\* A tick makes messages older, and drops none.
LEMMA AgedOK ==
    ASSUME NEW F \in Seq(Foreign)
    PROVE  LET G == OlderMessages(F)
           IN  /\ G \in Seq(Foreign) /\ DOMAIN G = DOMAIN F
               /\ \A k \in DOMAIN F : G[k].from = F[k].from /\ Len(G[k].ages) = Len(F[k].ages)
<1> DEFINE older(a) == [i \in DOMAIN a |-> IF a[i] < Window THEN a[i] + 1 ELSE Window]
           G == [k \in DOMAIN F |-> [F[k] EXCEPT !.ages = older(F[k].ages)]]
<1>1. Window \in Nat
  BY PtpAssumption DEF Window
<1>2. ASSUME NEW a \in Seq(Nat)
      PROVE  older(a) \in Seq(Nat) /\ Len(older(a)) = Len(a)
  <2>1. DOMAIN a = 1 .. Len(a) /\ Len(a) \in Nat
    OBVIOUS
  <2>2. \A i \in 1 .. Len(a) : older(a)[i] \in Nat
    BY <1>1, <2>1
  <2>3. older(a) = [i \in 1 .. Len(a) |-> older(a)[i]]
    BY <2>1
  <2> HIDE DEF older
  <2> QED
    BY <2>1, <2>2, <2>3
<1> HIDE DEF older
<1>3. ASSUME NEW k \in DOMAIN F
      PROVE  /\ G[k] \in Foreign /\ G[k].from = F[k].from
             /\ Len(G[k].ages) = Len(F[k].ages)
  <2>1. F[k] \in Foreign
    OBVIOUS
  <2>2. F[k].ages \in Seq(Nat)
    BY <2>1 DEF Foreign
  <2>3. G[k] = [F[k] EXCEPT !.ages = older(F[k].ages)]
    OBVIOUS
  <2>4. older(F[k].ages) \in Seq(Nat) /\ Len(older(F[k].ages)) = Len(F[k].ages)
    BY <1>2, <2>2
  <2> HIDE DEF G
  <2> QED
    BY <2>1, <2>3, <2>4, Zenon DEF Foreign
<1>4. DOMAIN G = DOMAIN F
  OBVIOUS
<1>5. G \in Seq(Foreign)
  <2>1. DOMAIN F = 1 .. Len(F) /\ Len(F) \in Nat
    OBVIOUS
  <2>2. G = [k \in 1 .. Len(F) |-> G[k]]
    BY <2>1
  <2> HIDE DEF G
  <2> QED
    BY <1>3, <2>1, <2>2
<1> QED
  BY <1>3, <1>4, <1>5, Zenon DEF older, OlderMessages

LEMMA TickStep ==
    ASSUME PtpInv, Tick
    PROVE  PtpInv'
<1>1. /\ UNCHANGED <<kill, linkup, net>>
      /\ port' = [c \in Clock |-> IF Runs(c) THEN Aged(port[c]) ELSE Nil]
      /\ \A c \in Clock : Runs(c) => port[c].anno # 0 /\ port[c].manno # 0
  BY DEF Tick, Quiet
<1>2. ASSUME NEW c \in Clock, Runs(c)
      PROVE  /\ Right(c, Aged(port[c])) /\ ~ Aged(port[c]).sde
             /\ Aged(port[c]).state = port[c].state
  <2> DEFINE F == OlderMessages(port[c].foreign)
             a == Older(port[c].anno)
             b == Older(port[c].manno)
             r == [port[c] EXCEPT !.anno = a, !.manno = b, !.foreign = F]
  <2>1. Right(c, port[c]) /\ Sane(port[c]) /\ port[c] \in Port /\ ~ port[c].sde
    BY <1>2, Running
  <2>2. port[c].anno \in Timer /\ port[c].manno \in Timer /\ port[c].foreign \in Seq(Foreign)
    BY <2>1 DEF Port, Foreign
  <2>3. ASSUME NEW tmr \in Timer, tmr # 0 PROVE Older(tmr) \in Timer
    BY <2>3 DEF Older, Timer, Off
  <2>4. a \in Timer /\ b \in Timer
    BY <1>1, <1>2, <2>2, <2>3
  <2>5. /\ F \in Seq(Foreign) /\ DOMAIN F = DOMAIN port[c].foreign
        /\ \A k \in DOMAIN F : /\ F[k].from = port[c].foreign[k].from
                               /\ Len(F[k].ages) = Len(port[c].foreign[k].ages)
    BY <2>2, AgedOK
  <2>6. Aged(port[c]) = r
    BY DEF Aged
  <2> HIDE DEF F, a, b
  <2>7. r \in Port /\ Keeps(port[c], r) /\ r.sde = port[c].sde /\ r.foreign = F
    BY <2>1, <2>4, <2>5, Zenon DEF Port, Keeps, Foreign
  <2> HIDE DEF r
  <2>8. Sane(r)
    BY <2>1, <2>5, <2>7 DEF Sane, Bounded, Known, Keeps
  <2> QED
    BY <2>1, <2>6, <2>7, <2>8, KeepsRight DEF Keeps
<1>3. \A c \in Clock : port'[c] = IF Runs(c) THEN Aged(port[c]) ELSE Nil
  BY <1>1
<1>4. \A c \in Clock : Runs(c) => Aged(port[c]) \in Port /\ Aged(port[c]) # Nil
  BY <1>2, PortAssumption DEF Right, Sane
<1>5. port' \in [Clock -> Port \cup {Nil}]
  BY <1>1, <1>4
<1>6. \A c \in Clock : (Runs(c)' <=> Runs(c)) /\ (Enabled(c)' <=> Enabled(c))
  BY <1>2, <1>3, <1>4 DEF Runs, Enabled
<1>7. ASSUME NEW d \in Clock, Runs(d)'
      PROVE  /\ Right(d, port[d])' /\ port'[d].state \in States /\ ~ port'[d].sde
             /\ \A k \in DOMAIN port'[d].foreign :
                   Len(port'[d].foreign[k].ages) <= FOREIGN_MASTER_THRESHOLD + 1
  <2>1. Right(d, port'[d]) => Right(d, port[d])'
    BY DEF Right, Sane, Bounded, Known, Follows
  <2>2. Right(d, port'[d]) /\ ~ port'[d].sde
    BY <1>2, <1>3, <1>6, <1>7
  <2> QED
    BY <2>1, <2>2 DEF Right, Sane, Bounded
<1>8. kill' \subseteq {c \in Clock : Runs(c)'}
  BY <1>1, <1>6 DEF PtpInv, TypeOK
<1>9. net' \subseteq Message /\ \A m \in net' : Enabled(m.to)'
  <2>1. \A m \in net' : m.to \in Clock /\ Enabled(m.to)
    BY <1>1, Network DEF Message
  <2> QED
    BY <1>1, <1>6, <2>1, Network
<1>10. TypeOK'
  BY <1>1, <1>5, <1>7, <1>8, <1>9, Network DEF TypeOK
<1> QED
  BY <1>7, <1>10 DEF PtpInv

-----------------------------------------------------------------------------
\* The theorems.

LEMMA PtpInit == Init => PtpInv
<1> SUFFICES ASSUME Init PROVE PtpInv
  OBVIOUS
<1>1. \A c \in Clock : ~ Runs(c)
  BY DEF Init, Runs
<1> QED
  BY <1>1 DEF Init, PtpInv, TypeOK

LEMMA PtpStep == PtpInv /\ [Next]_vars => PtpInv'
<1> SUFFICES ASSUME PtpInv, [Next]_vars PROVE PtpInv'
  OBVIOUS
<1>1. ASSUME NEW c \in Clock, Step(c) PROVE PtpInv'
  <2>1. CASE \E tmo \in AnnounceTimeouts : Receive(c, tmo)
    BY <2>1, EventStep, TimerTypes DEF Receive
  <2>2. CASE \E tmo \in AnnounceTimeouts : FD_ANNOUNCE_TIMER(c, tmo)
    BY <2>2, TimerStep, TimerTypes
  <2>3. CASE \E tmo \in AnnounceTimeouts : clock_fault_timeout(c, tmo)
    BY <2>3, FaultTimeoutStep, TimerTypes
  <2>4. CASE port_tx_announce(c)
    BY <2>4, AnnounceStep
  <2>5. CASE InitializeFails(c)
    BY <2>5, InitializeFailsStep
  <2> QED
    BY <1>1, <2>1, <2>2, <2>3, <2>4, <2>5 DEF Step
<1>2. ASSUME NEW c \in Clock, NEW tmo \in AnnounceTimeouts, Start(c, tmo) \/ LinkUp(c, tmo)
      PROVE  PtpInv'
  BY <1>2, StartStep, LinkUpStep, TimerTypes
<1>3. CASE UNCHANGED vars
  BY <1>3, LinkOnly, Network DEF vars
<1> QED
  BY <1>1, <1>2, <1>3, SyncStep, StopStep, FaultStep, LinkDownStep, LinkUpFailsStep,
     StartFailsStep, LoseStep, TickStep DEF Next

LEMMA PtpInvariant == Spec => []PtpInv
  BY PtpInit, PtpStep, PTL DEF Spec

\* The types of linuxptp's state hold for any number of clocks; in particular a state
\* decision never outlives the round of clock_poll that asked for it, the list of
\* messages of a foreign master never outgrows the threshold by more than one, and
\* nothing is sent to a socket that is closed.
THEOREM PtpIsTyped == Spec => []TypeOK
<1>1. PtpInv => TypeOK
  BY DEF PtpInv
<1> QED
  BY <1>1, PtpInvariant, PTL

\* A port in a slave state has chosen a master that it knows, which is the parent that
\* it takes Sync messages from, and a port that serves announces its own clock; for any
\* clocks, ranks, timeouts, losses, faults and links that come and go.
THEOREM SlavesFollowTheirMaster == Spec => []ParentIsRight
<1>1. PtpInv => ParentIsRight
  BY DEF PtpInv, ParentIsRight, Right, Sane, Follows
<1> QED
  BY <1>1, PtpInvariant, PTL
=============================================================================
