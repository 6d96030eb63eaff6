----------------------- MODULE QotUserDevice_proofs -----------------------
(***************************************************************************)
(* Proofs about QotRegistry, and about the registry as QotUserDevice       *)
(* drives it, for any number of tasks and names: what the allocations      *)
(* return, what the lists of bindings hold, that names stay unique         *)
(* (NameInv) and that the tree and the list of the bindings of a device    *)
(* agree (BindInv).  SoundInv relates a timeline to its device: unless     *)
(* memory has been misused, or two removals of one timeline are bound to   *)
(* misuse it (Doomed), a timeline that nobody erases has its own device,   *)
(* and who creates or removes a timeline has the address of that device.   *)
(* DInv adds what a walk over the connections has achieved so far          *)
(* (Passed).  Each invariant is shown to survive each step.                *)
(***************************************************************************)
EXTENDS QotUserDevice, FiniteSetTheorems, TLAPS

-----------------------------------------------------------------------------
\* Least elements, fresh addresses and fresh indices.

\* A set of naturals that is not empty has a least element.
LEMMA MinNat ==
    ASSUME NEW T, T \subseteq Nat, T # {}
    PROVE  Min(T) \in T /\ \A y \in T : Min(T) <= y
<1> DEFINE R == OpToRel(<, Nat)
<1>1. IsWellFoundedOn(R, Nat)
  BY NatLessThanWellFounded, Zenon
<1>2. \A x, y \in Nat : y < x => <<y, x>> \in R
  BY Zenon DEF OpToRel
<1> HIDE DEF R
<1>3. PICK x \in T : \A y \in T : ~ (<<y, x>> \in R)
  BY <1>1, WFMin, Zenon
<1>4. \A y \in T : x <= y
  <2> SUFFICES ASSUME NEW y \in T PROVE x <= y
    BY Zenon
  <2>1. ~ (y < x)
    BY <1>2, <1>3, Zenon
  <2> QED
    BY <2>1
<1> QED
  BY <1>4, Zenon DEF Min

\* A finite set leaves out one of as many numbers as it has elements, and one more.
LEMMA Unused ==
    ASSUME NEW S, IsFiniteSet(S), NEW a \in Nat, NEW b \in Nat, Cardinality(S) < b - a + 1
    PROVE  \E x \in a .. b : x \notin S
<1>1. Cardinality(S) \in Nat
  BY FS_CardinalityType, Zenon
<1>2. IsFiniteSet(a .. b) /\ Cardinality(a .. b) = b - a + 1
  <2>1. a \in Int /\ b \in Int /\ ~ (a > b)
    BY <1>1
  <2> QED
    BY <2>1, FS_Interval, Zenon
<1>3. a .. b \subseteq S => Cardinality(a .. b) <= Cardinality(S)
  BY FS_Subset, Zenon
<1> QED
  BY <1>1, <1>2, <1>3

\* kzalloc gives an address that is not in use and that no task remembers.
LEMMA FreshAddress ==
    ASSUME IsFiniteSet(DOMAIN info)
    PROVE  kzalloc \in Nat /\ kzalloc \notin DOMAIN info /\ \A t \in Task : proc[t].ptr # kzalloc
<1> DEFINE f == [t \in Task |-> proc[t].ptr]
           P == {proc[t].ptr : t \in Task}
           n == Cardinality(DOMAIN info) + Cardinality(Task) + 1
           F == {o \in 1 .. n : o \notin DOMAIN info /\ \A t \in Task : proc[t].ptr # o}
<1>1. f \in Surjection(Task, P)
  BY Zenon DEF Surjection
<1>2. IsFiniteSet(Task)
  BY RegistryAssumption, Zenon
<1>3. IsFiniteSet(P) /\ Cardinality(P) <= Cardinality(Task)
  <2> HIDE DEF f, P
  <2> QED
    BY <1>1, <1>2, FS_Surjection, Zenon
<1>4. /\ Cardinality(P) \in Nat /\ Cardinality(Task) \in Nat /\ Cardinality(DOMAIN info) \in Nat
      /\ Cardinality(DOMAIN info \cap P) \in Nat
  <2> HIDE DEF P
  <2>1. IsFiniteSet(DOMAIN info \cap P)
    BY FS_Subset, Zenon
  <2> QED
    BY <1>2, <1>3, <2>1, FS_CardinalityType, Zenon
<1>5. /\ IsFiniteSet(DOMAIN info \cup P)
      /\ Cardinality(DOMAIN info \cup P)
            = Cardinality(DOMAIN info) + Cardinality(P) - Cardinality(DOMAIN info \cap P)
  <2> HIDE DEF P
  <2> QED
    BY <1>3, FS_Union, Zenon
<1>6. Cardinality(DOMAIN info \cup P) < n - 1 + 1
  <2> HIDE DEF P
  <2> QED
    BY <1>3, <1>4, <1>5
<1>7. n \in Nat
  BY <1>4
<1>8. PICK o \in 1 .. n : o \notin DOMAIN info \cup P
  <2> HIDE DEF P, n
  <2> QED
    BY <1>5, <1>6, <1>7, Unused, Zenon
<1>9. F # {} /\ F \subseteq Nat
  BY <1>8
<1>10. Min(F) \in F
  <2> HIDE DEF F
  <2> QED
    BY <1>9, MinNat, Zenon
<1>11. kzalloc = Min(F)
  BY Zenon DEF kzalloc
<1> QED
  BY <1>9, <1>10, <1>11, Zenon

\* idr_alloc gives an index that no device has.
LEMMA FreshIndex ==
    ASSUME IsFiniteSet(DOMAIN impl)
    PROVE  idr_alloc \in Nat /\ idr_alloc \notin DOMAIN impl
<1> DEFINE n == Cardinality(DOMAIN impl)
           F == {i \in 0 .. n : ~ Device(i)}
<1>1. n \in Nat
  BY FS_CardinalityType, Zenon
<1>2. PICK i \in 0 .. n : i \notin DOMAIN impl
  <2>1. Cardinality(DOMAIN impl) < n - 0 + 1 /\ 0 \in Nat
    BY <1>1
  <2> HIDE DEF n
  <2> QED
    BY <1>1, <2>1, Unused, Zenon
<1>3. F # {} /\ F \subseteq Nat
  BY <1>1, <1>2 DEF Device
<1>4. Min(F) \in F
  <2> HIDE DEF F
  <2> QED
    BY <1>3, MinNat, Zenon
<1> QED
  BY <1>3, <1>4, Zenon DEF idr_alloc, Device

-----------------------------------------------------------------------------
\* The list of the bindings of a device.

Entry      == [pid : Task, demand : Nat]
Pids(list) == {list[k].pid : k \in DOMAIN list}
Single(list) == \A k, l \in DOMAIN list : list[k].pid = list[l].pid => k = l

\* A list in which nobody is twice has as many entries as members.
LEMMA SingleLength ==
    ASSUME NEW list \in Seq(Entry), Single(list)
    PROVE  Len(list) = Cardinality(Pids(list))
<1> DEFINE f == [k \in 1 .. Len(list) |-> list[k].pid]
<1>1. Len(list) \in Nat /\ DOMAIN list = 1 .. Len(list)
  OBVIOUS
<1>2. f \in Surjection(1 .. Len(list), Pids(list)) /\ f \in Injection(1 .. Len(list), Pids(list))
  BY <1>1, Zenon DEF Surjection, Injection, Pids, Single, IsInjective
<1>3. IsFiniteSet(1 .. Len(list)) /\ Cardinality(1 .. Len(list)) = Len(list)
  <2>1. 1 \in Int /\ Len(list) \in Int
    BY <1>1
  <2>2. /\ IsFiniteSet(1 .. Len(list))
        /\ Cardinality(1 .. Len(list)) = IF 1 > Len(list) THEN 0 ELSE Len(list) - 1 + 1
    BY <2>1, FS_Interval, Zenon
  <2> QED
    BY <1>1, <2>2
<1>4. Cardinality(Pids(list)) = Cardinality(1 .. Len(list))
  <2> HIDE DEF f
  <2> QED
    BY <1>2, <1>3, FS_Surjection, Zenon
<1> QED
  BY <1>3, <1>4, Zenon

\* What the concatenation of two lists holds.
LEMMA ConcatEntries ==
    ASSUME NEW u \in Seq(Entry), NEW v \in Seq(Entry)
    PROVE  /\ u \o v \in Seq(Entry) /\ Len(u \o v) = Len(u) + Len(v)
           /\ \A k \in 1 .. Len(u) + Len(v) :
                 (u \o v)[k] = IF k <= Len(u) THEN u[k] ELSE v[k - Len(u)]
  OBVIOUS

\* An entry is inserted between two parts of a list, ...
LEMMA InsertEntry ==
    ASSUME NEW list \in Seq(Entry), NEW b \in Entry, NEW m \in 1 .. Len(list) + 1
    PROVE  LET s == SubSeq(list, 1, m - 1) \o <<b>> \o SubSeq(list, m, Len(list))
           IN  /\ s \in Seq(Entry) /\ Len(s) = Len(list) + 1
               /\ \A k \in 1 .. Len(s) : s[k] = IF k < m THEN list[k] ELSE IF k = m THEN b
                                                ELSE list[k - 1]
<1> DEFINE s == SubSeq(list, 1, m - 1) \o <<b>> \o SubSeq(list, m, Len(list))
           u == SubSeq(list, 1, m - 1)
           v == SubSeq(list, m, Len(list))
<1>1. Len(list) \in Nat /\ \A k \in 1 .. Len(list) : list[k] \in Entry
  OBVIOUS
<1>2. u \in Seq(Entry) /\ Len(u) = m - 1 /\ \A k \in 1 .. m - 1 : u[k] = list[k]
  BY <1>1
<1>3. /\ v \in Seq(Entry) /\ Len(v) = Len(list) - m + 1
      /\ \A k \in 1 .. Len(list) - m + 1 : v[k] = list[m + k - 1]
  BY <1>1
<1> HIDE DEF s, u, v
<1>4. <<b>> \in Seq(Entry) /\ Len(<<b>>) = 1 /\ <<b>>[1] = b
  OBVIOUS
<1>5. /\ u \o <<b>> \in Seq(Entry) /\ Len(u \o <<b>>) = m
      /\ \A k \in 1 .. m : (u \o <<b>>)[k] = IF k < m THEN list[k] ELSE b
  BY <1>2, <1>4
<1> DEFINE w == u \o <<b>>
<1> HIDE DEF w
<1>6. s = w \o v
  BY Zenon DEF s, u, v, w
<1>7. /\ w \in Seq(Entry) /\ Len(w) = m
      /\ \A k \in 1 .. m : w[k] = IF k < m THEN list[k] ELSE b
  BY <1>5, Zenon DEF w
<1>8. /\ s \in Seq(Entry) /\ Len(s) = Len(w) + Len(v)
      /\ \A k \in 1 .. Len(w) + Len(v) : s[k] = IF k <= Len(w) THEN w[k] ELSE v[k - Len(w)]
  <2>1. v \in Seq(Entry) /\ w \in Seq(Entry)
    BY <1>3, <1>7, Zenon
  <2> QED
    BY <1>6, <2>1, ConcatEntries, Zenon
<1>9. Len(s) = Len(list) + 1
  BY <1>1, <1>3, <1>7, <1>8
<1>10. ASSUME NEW k \in 1 .. Len(s)
       PROVE  s[k] = IF k < m THEN list[k] ELSE IF k = m THEN b ELSE list[k - 1]
  <2>1. s[k] = IF k <= m THEN w[k] ELSE v[k - m]
    BY <1>7, <1>8, Zenon
  <2>2. CASE k <= m
    BY <1>7, <2>1, <2>2
  <2>3. CASE k > m
    <3>1. k - m \in 1 .. Len(list) - m + 1
      BY <1>1, <1>9, <2>3
    <3>2. v[k - m] = list[m + (k - m) - 1] /\ m + (k - m) - 1 = k - 1
      BY <1>1, <1>3, <3>1
    <3> QED
      BY <2>1, <2>3, <3>2
  <2> QED
    BY <1>1, <1>9, <2>2, <2>3
<1> QED
  BY <1>8, <1>9, <1>10, Zenon DEF s

\* ... or taken out between them.
LEMMA RemoveEntry ==
    ASSUME NEW list \in Seq(Entry), NEW m \in 1 .. Len(list)
    PROVE  LET s == SubSeq(list, 1, m - 1) \o SubSeq(list, m + 1, Len(list))
           IN  /\ s \in Seq(Entry) /\ Len(s) = Len(list) - 1
               /\ \A k \in 1 .. Len(s) : s[k] = IF k < m THEN list[k] ELSE list[k + 1]
<1> DEFINE s == SubSeq(list, 1, m - 1) \o SubSeq(list, m + 1, Len(list))
           u == SubSeq(list, 1, m - 1)
           v == SubSeq(list, m + 1, Len(list))
<1>1. Len(list) \in Nat /\ \A k \in 1 .. Len(list) : list[k] \in Entry
  OBVIOUS
<1>2. u \in Seq(Entry) /\ Len(u) = m - 1 /\ \A k \in 1 .. m - 1 : u[k] = list[k]
  BY <1>1
<1>3. /\ v \in Seq(Entry) /\ Len(v) = Len(list) - m
      /\ \A k \in 1 .. Len(list) - m : v[k] = list[m + k]
  BY <1>1
<1> HIDE DEF s, u, v
<1>4. s = u \o v
  BY Zenon DEF s, u, v
<1>5. /\ s \in Seq(Entry) /\ Len(s) = Len(u) + Len(v)
      /\ \A k \in 1 .. Len(u) + Len(v) : s[k] = IF k <= Len(u) THEN u[k] ELSE v[k - Len(u)]
  <2>1. u \in Seq(Entry) /\ v \in Seq(Entry)
    BY <1>2, <1>3, Zenon
  <2> QED
    BY <1>4, <2>1, ConcatEntries, Zenon
<1>6. Len(s) = Len(list) - 1
  BY <1>1, <1>2, <1>3, <1>5
<1>7. ASSUME NEW k \in 1 .. Len(s)
      PROVE  s[k] = IF k < m THEN list[k] ELSE list[k + 1]
  <2>1. s[k] = IF k <= m - 1 THEN u[k] ELSE v[k - (m - 1)]
    BY <1>2, <1>5, Zenon
  <2>2. CASE k < m
    BY <1>2, <2>1, <2>2
  <2>3. CASE k >= m
    <3>1. k - (m - 1) \in 1 .. Len(list) - m
      BY <1>1, <1>6, <2>3
    <3>2. v[k - (m - 1)] = list[m + (k - (m - 1))] /\ m + (k - (m - 1)) = k + 1
      BY <1>1, <1>3, <3>1
    <3> QED
      BY <2>1, <2>3, <3>2
  <2> QED
    BY <1>1, <1>6, <2>2, <2>3
<1> QED
  BY <1>5, <1>6, <1>7, Zenon DEF s

\* qot_insert_list adds its binding, wherever in the list.
LEMMA InsertList ==
    ASSUME NEW list \in Seq(Entry), NEW b \in Entry
    PROVE  LET s == qot_insert_list(list, b)
           IN  /\ s \in Seq(Entry)
               /\ Pids(s) = Pids(list) \cup {b.pid}
               /\ Single(list) /\ b.pid \notin Pids(list) => Single(s)
<1> DEFINE s == qot_insert_list(list, b)
           differ == {k \in DOMAIN list : list[k].demand # b.demand}
<1>1. Len(list) \in Nat /\ DOMAIN list = 1 .. Len(list)
  OBVIOUS
<1>2. PICK m \in 1 .. Len(list) + 1 :
        /\ s \in Seq(Entry) /\ Len(s) = Len(list) + 1
        /\ \A k \in 1 .. Len(s) : s[k] = IF k < m THEN list[k] ELSE IF k = m THEN b
                                            ELSE list[k - 1]
  <2> DEFINE d == IF differ = {} THEN Len(list) + 1 ELSE Min(differ)
  <2>1. d \in 1 .. Len(list) + 1
    <3>1. differ \subseteq 1 .. Len(list) /\ differ \subseteq Nat
      BY <1>1
    <3> HIDE DEF differ
    <3>2. differ # {} => Min(differ) \in differ
      BY <3>1, MinNat, Zenon
    <3>3. CASE differ = {}
      BY <1>1, <3>3
    <3>4. CASE differ # {}
      <4>1. Min(differ) \in 1 .. Len(list)
        BY <3>1, <3>2, <3>4, Zenon
      <4> QED
        BY <1>1, <3>4, <4>1
    <3> QED
      BY <3>3, <3>4, Zenon
  <2>2. s = SubSeq(list, 1, d - 1) \o <<b>> \o SubSeq(list, d, Len(list))
    BY Zenon DEF qot_insert_list
  <2> HIDE DEF s, d
  <2>3. /\ s \in Seq(Entry) /\ Len(s) = Len(list) + 1
        /\ \A k \in 1 .. Len(s) : s[k] = IF k < d THEN list[k] ELSE IF k = d THEN b
                                          ELSE list[k - 1]
    BY <2>1, <2>2, InsertEntry, ZenonT(40)
  <2> QED
    BY <2>1, <2>3, Zenon
<1> HIDE DEF s
<1>3. DOMAIN s = 1 .. Len(s)
  BY <1>2
<1>4. Pids(s) \subseteq Pids(list) \cup {b.pid}
  <2> SUFFICES ASSUME NEW k \in 1 .. Len(s) PROVE s[k].pid \in Pids(list) \cup {b.pid}
    BY <1>3, Zenon DEF Pids
  <2>1. CASE k = m
    BY <1>1, <1>2, <2>1
  <2>2. CASE k # m
    <3>1. \E x \in DOMAIN list : s[k] = list[x]
      <4>1. CASE k < m
        BY <1>1, <1>2, <4>1
      <4>2. CASE k > m
        <5>1. k - 1 \in DOMAIN list /\ s[k] = list[k - 1]
          BY <1>1, <1>2, <4>2
        <5> QED
          BY <5>1, Zenon
      <4> QED
        BY <1>2, <2>2, <4>1, <4>2
    <3> QED
      BY <3>1, Zenon DEF Pids
  <2> QED
    BY <2>1, <2>2, Zenon
<1>5. b.pid \in Pids(s)
  BY <1>1, <1>2, <1>3 DEF Pids
<1>6. Pids(list) \subseteq Pids(s)
  <2> SUFFICES ASSUME NEW k \in DOMAIN list PROVE list[k].pid \in Pids(s)
    BY Zenon DEF Pids
  <2>1. CASE k < m
    BY <1>1, <1>2, <1>3, <2>1 DEF Pids
  <2>2. CASE k >= m
    <3>1. k + 1 \in DOMAIN s /\ s[k + 1] = list[k]
      BY <1>1, <1>2, <1>3, <2>2
    <3> QED
      BY <3>1, Zenon DEF Pids
  <2> QED
    BY <1>1, <2>1, <2>2
<1>7. ASSUME Single(list), b.pid \notin Pids(list), NEW k \in DOMAIN s, NEW l \in DOMAIN s,
             s[k].pid = s[l].pid
      PROVE  k = l
  <2> DEFINE at(x) == IF x < m THEN x ELSE x - 1
  <2>1. \A x \in 1 .. Len(s) : x # m => at(x) \in DOMAIN list /\ s[x] = list[at(x)]
    BY <1>1, <1>2
  <2>2. \A x \in 1 .. Len(s) : x # m => s[x].pid # b.pid
    BY <1>7, <2>1, Zenon DEF Pids
  <2>3. CASE k = m \/ l = m
    BY <1>2, <1>3, <1>7, <2>2, <2>3
  <2>4. CASE k # m /\ l # m
    <3>1. at(k) = at(l)
      BY <1>3, <1>7, <2>1, <2>4 DEF Single
    <3> QED
      BY <1>2, <1>3, <2>4, <3>1
  <2> QED
    BY <2>3, <2>4, Zenon
<1> QED
  BY <1>2, <1>4, <1>5, <1>6, <1>7, Zenon DEF Single, s

\* list_del takes the binding of a task out.
LEMMA DeleteList ==
    ASSUME NEW list \in Seq(Entry), Single(list), NEW t \in Task
    PROVE  LET s == list_del(list, t)
           IN  s \in Seq(Entry) /\ Pids(s) = Pids(list) \ {t} /\ Single(s)
<1> DEFINE s == list_del(list, t)
           own == {k \in DOMAIN list : list[k].pid = t}
<1>1. Len(list) \in Nat /\ DOMAIN list = 1 .. Len(list)
  OBVIOUS
<1>2. CASE own = {}
  <2>1. s = list
    BY <1>2, Zenon DEF list_del
  <2> QED
    BY <1>2, <2>1, Zenon DEF Pids
<1>3. CASE own # {}
  <2> DEFINE m == Min(own)
  <2>0. own \subseteq Nat
    BY <1>1
  <2>1. m \in own
    <3> HIDE DEF own
    <3> QED
      BY <1>3, <2>0, MinNat, Zenon
  <2>2. s = SubSeq(list, 1, m - 1) \o SubSeq(list, m + 1, Len(list))
    BY <1>3, Zenon DEF list_del
  <2>3. m \in 1 .. Len(list) /\ list[m].pid = t
    BY <1>1, <2>1, Zenon
  <2> HIDE DEF s, m
  <2>4. /\ s \in Seq(Entry) /\ Len(s) = Len(list) - 1
        /\ \A k \in 1 .. Len(s) : s[k] = IF k < m THEN list[k] ELSE list[k + 1]
    BY <2>2, <2>3, RemoveEntry, Zenon
  <2>5. DOMAIN s = 1 .. Len(s)
    BY <2>4
  <2> DEFINE at(x) == IF x < m THEN x ELSE x + 1
  <2>6. \A x \in 1 .. Len(s) : at(x) \in 1 .. Len(list) /\ at(x) # m /\ s[x] = list[at(x)]
    BY <1>1, <2>3, <2>4
  <2>7. Single(s)
    <3> SUFFICES ASSUME NEW k \in DOMAIN s, NEW l \in DOMAIN s, s[k].pid = s[l].pid
                 PROVE  k = l
      BY Zenon DEF Single
    <3>1. at(k) = at(l)
      BY <1>1, <2>5, <2>6 DEF Single
    <3> QED
      BY <2>3, <2>5, <3>1
  <2>8. \A x \in 1 .. Len(s) : s[x].pid \in Pids(list) \ {t}
    BY <1>1, <2>3, <2>6 DEF Pids, Single
  <2>9. ASSUME NEW k \in 1 .. Len(list), list[k].pid # t
        PROVE  list[k].pid \in Pids(s)
    <3>1. CASE k < m
      BY <1>1, <2>3, <2>4, <2>5, <3>1 DEF Pids
    <3>2. CASE k > m
      <4>1. k - 1 \in DOMAIN s /\ s[k - 1] = list[k]
        BY <1>1, <2>3, <2>4, <2>5, <3>2
      <4> QED
        BY <4>1, Zenon DEF Pids
    <3> QED
      BY <1>1, <2>3, <2>9, <3>1, <3>2
  <2>10. Pids(s) = Pids(list) \ {t}
    BY <1>1, <2>5, <2>8, <2>9, Zenon DEF Pids
  <2> QED
    BY <2>4, <2>7, <2>10, Zenon DEF s
<1> QED
  BY <1>2, <1>3, Zenon

-----------------------------------------------------------------------------
\* Types, and what a step of a task leaves alone.

States    == {"node", "clock", "ready", "zombie"}
Timeline  == [name : Name, index : Nat]
DeviceRec == [info : Nat, state : States, files : SUBSET Task, bound : SUBSET Task,
              list : Seq(Entry)]
Call_t    == [pc : Labels, name : Name \cup {Nil}, index : Int, ptr : Nat \cup {Nil},
              dev : [index : Nat, info : Nat] \cup {Nil}]

RegistryType ==
    /\ fault \in BOOLEAN
    /\ IsFiniteSet(DOMAIN info) /\ DOMAIN info \subseteq Nat
    /\ \A o \in DOMAIN info : info[o] \in Timeline
    /\ tree \subseteq DOMAIN info
    /\ IsFiniteSet(DOMAIN impl) /\ DOMAIN impl \subseteq Nat
    /\ \A i \in DOMAIN impl : impl[i] \in DeviceRec
    /\ proc \in [Task -> Call_t]

\* A step of t moves t, and no other task.
Moves(t) == proc' \in [Task -> Call_t] /\ \A u \in Task \ {t} : proc'[u] = proc[u]

LEMMA GotoMoves ==
    ASSUME proc \in [Task -> Call_t], NEW t \in Task, NEW l \in Labels, Goto(t, l)
    PROVE  /\ Moves(t)
           /\ proc'[t].pc = l /\ proc'[t].name = proc[t].name /\ proc'[t].ptr = proc[t].ptr
           /\ proc'[t].dev = proc[t].dev /\ proc'[t].index = proc[t].index
  BY Zenon DEF Goto, Moves, Call_t

LEMMA PointMoves ==
    ASSUME proc \in [Task -> Call_t], NEW t \in Task, NEW l \in Labels, NEW o \in Nat \cup {Nil},
           Point(t, l, o)
    PROVE  /\ Moves(t)
           /\ proc'[t].pc = l /\ proc'[t].name = proc[t].name /\ proc'[t].ptr = o
           /\ proc'[t].dev = proc[t].dev /\ proc'[t].index = proc[t].index
  BY Zenon DEF Point, Moves, Call_t

LEMMA DriveMoves ==
    ASSUME proc \in [Task -> Call_t], NEW t \in Task, NEW l \in Labels,
           NEW d \in [index : Nat, info : Nat] \cup {Nil}, Drive(t, l, d)
    PROVE  /\ Moves(t)
           /\ proc'[t].pc = l /\ proc'[t].name = proc[t].name /\ proc'[t].ptr = proc[t].ptr
           /\ proc'[t].dev = d /\ proc'[t].index = proc[t].index
  BY Zenon DEF Drive, Moves, Call_t

\* qot_timeline_find returns a timeline of the tree, with the name.
LEMMA FindProperties ==
    ASSUME RegistryType, NEW n
    PROVE  LET o == qot_timeline_find(n)
           IN  /\ o \in Nat \cup {Nil}
               /\ o = Nil <=> n \notin Names
               /\ o # Nil => o \in tree /\ info[o].name = n
<1>1. Nil \notin tree
  BY RegistryAssumption DEF RegistryType
<1>2. CASE n \in Names
  <2>1. \E o \in tree : info[o].name = n
    BY <1>2, Zenon DEF Names
  <2>2. qot_timeline_find(n) \in tree /\ info[qot_timeline_find(n)].name = n
    BY <1>2, <2>1, Zenon DEF qot_timeline_find
  <2> QED
    BY <1>1, <1>2, <2>2, Zenon DEF RegistryType
<1>3. CASE n \notin Names
  BY <1>3, Zenon DEF qot_timeline_find
<1> QED
  BY <1>2, <1>3, Zenon

-----------------------------------------------------------------------------
\* Names.

\* The timeline that a task is creating, which is not in the tree, and the one that
\* it has found there, which may be freed meanwhile.
Owns(t)  == proc[t].pc \in {"clock", "init", "insert", "undo", "unplug", "drop"}
Found(t) == proc[t].pc \in {"copy", "info", "check", "destroy", "erase"}

Holds(t) ==
    /\ proc[t].pc \notin {"idle", "ended"} => proc[t].name \in Name
    /\ Owns(t) => /\ proc[t].ptr \in DOMAIN info \ tree
                  /\ info[proc[t].ptr].name = proc[t].name
    /\ Found(t) => proc[t].ptr \in Nat /\ (proc[t].ptr \in DOMAIN info => proc[t].ptr \in tree)

\* No two tasks create the same timeline.
Apart == \A t, u \in Task : Owns(t) /\ Owns(u) /\ proc[t].ptr = proc[u].ptr => t = u

NameInv == NamesUnique /\ Apart /\ \A t \in Task : Holds(t)

\* A step that leaves the timelines alone.
LEMMA QuietNames ==
    ASSUME RegistryType, NameInv, NEW t \in Task, Moves(t), UNCHANGED <<info, tree>>, Holds(t)',
           Owns(t)' => Owns(t) /\ proc'[t].ptr = proc[t].ptr
    PROVE  NameInv'
<1>1. NamesUnique'
  BY Zenon DEF NameInv, NamesUnique
<1>2. ASSUME NEW u \in Task, NEW v \in Task, Owns(u)', Owns(v)', proc'[u].ptr = proc'[v].ptr
      PROVE  u = v
  BY <1>2 DEF NameInv, Apart, Moves, Owns
<1>3. ASSUME NEW u \in Task \ {t}
      PROVE  Holds(u)'
  BY Zenon DEF NameInv, Holds, Moves, Owns, Found
<1> QED
  BY <1>1, <1>2, <1>3, Zenon DEF NameInv, Apart

\* The steps of qot_timeline_create.
LEMMA CreationNames ==
    ASSUME RegistryType, NameInv, NEW t \in Task, Creation(t)
    PROVE  Moves(t) /\ NameInv'
<1>0. proc \in [Task -> Call_t] /\ proc[t] \in Call_t /\ Holds(t)
  BY Zenon DEF RegistryType, NameInv
<1>0a. \A l \in {"open", "getinfo"} : Return(t, l) \in {"idle", l}
  BY Zenon DEF Return
<1>1. CASE create_find(t)
  <2> DEFINE o == qot_timeline_find(proc[t].name)
  <2>1. o \in Nat \cup {Nil} /\ (o # Nil => o \in tree)
    BY FindProperties, Zenon
  <2> HIDE DEF o
  <2>2. Point(t, IF o = Nil THEN "register" ELSE "copy", o) /\ At(t, "find")
    BY <1>1, Zenon DEF create_find, o
  <2>3. /\ Moves(t) /\ proc'[t].name = proc[t].name /\ proc'[t].ptr = o
        /\ proc'[t].pc = IF o = Nil THEN "register" ELSE "copy"
    BY <1>0, <2>1, <2>2, PointMoves, Zenon DEF Labels
  <2>4. UNCHANGED <<info, tree>>
    BY <1>1, Zenon DEF create_find, kernel
  <2>5. Holds(t)' /\ ~ Owns(t)'
    BY <1>0, <2>1, <2>2, <2>3, <2>4, Zenon DEF Holds, Owns, Found, At, RegistryType
  <2> QED
    BY <2>3, <2>4, <2>5, QuietNames, Zenon
<1>2. CASE create_exists(t)
  <2>1. At(t, "copy") /\ Point(t, Return(t, "open"), Nil) /\ UNCHANGED <<info, tree>>
    BY <1>2, Zenon DEF create_exists
  <2>2. Moves(t) /\ proc'[t].pc \in {"idle", "open"} /\ proc'[t].name = proc[t].name
    BY <1>0, <1>0a, <2>1, PointMoves, Zenon DEF Labels
  <2>3. Holds(t)' /\ ~ Owns(t)'
    BY <1>0, <2>1, <2>2, Zenon DEF Holds, Owns, Found, At
  <2> QED
    BY <2>1, <2>2, <2>3, QuietNames, Zenon
<1>3. CASE posix_clock_register(t)
  <2>1. At(t, "clock") /\ Goto(t, "init") /\ UNCHANGED <<info, tree>>
    BY <1>3, Zenon DEF posix_clock_register
  <2>2. Moves(t) /\ proc'[t].pc = "init" /\ proc'[t].name = proc[t].name /\ proc'[t].ptr = proc[t].ptr
    BY <1>0, <2>1, GotoMoves, Zenon DEF Labels
  <2>3. Holds(t)' /\ Owns(t)
    BY <1>0, <2>1, <2>2, Zenon DEF Holds, Owns, Found, At
  <2> QED
    BY <2>1, <2>2, <2>3, QuietNames, Zenon
<1>4. CASE chdev_init(t) \/ create_unregister(t)
  <2>1. PICK l \in {"insert", "drop"} : Drive(t, l, Nil)
    BY <1>4, Zenon DEF chdev_init, create_unregister
  <2>2. proc[t].pc \in {"init", "unplug"} /\ UNCHANGED <<info, tree>>
    BY <1>4, Zenon DEF chdev_init, create_unregister, At
  <2>3. Moves(t) /\ proc'[t].pc = l /\ proc'[t].name = proc[t].name /\ proc'[t].ptr = proc[t].ptr
    BY <1>0, <2>1, DriveMoves DEF Labels
  <2>4. Holds(t)' /\ Owns(t)
    BY <1>0, <2>2, <2>3, Zenon DEF Holds, Owns, Found
  <2> QED
    BY <2>2, <2>3, <2>4, QuietNames, Zenon
<1>5. CASE create_undo(t)
  <2> DEFINE i == info[proc[t].ptr].index
  <2>1. /\ At(t, "undo") /\ UNCHANGED <<info, tree>>
        /\ \/ i \in DOMAIN impl /\ Drive(t, "unplug", Pointer(i))
           \/ Goto(t, "drop")
    BY <1>5, Zenon DEF create_undo, kernel, Removable, Device
  <2>2. i \in DOMAIN impl => Pointer(i) \in [index : Nat, info : Nat]
    BY Zenon DEF RegistryType, DeviceRec, Pointer
  <2> HIDE DEF i
  <2>3. /\ Moves(t) /\ proc'[t].pc \in {"unplug", "drop"} /\ proc'[t].name = proc[t].name
        /\ proc'[t].ptr = proc[t].ptr
    BY <1>0, <2>1, <2>2, GotoMoves, DriveMoves, Zenon DEF Labels
  <2>4. Holds(t)' /\ Owns(t)
    BY <1>0, <2>1, <2>3, Zenon DEF Holds, Owns, Found, At
  <2> QED
    BY <2>1, <2>3, <2>4, QuietNames, Zenon
<1>6. CASE device_create(t)
  <2> DEFINE o == kzalloc
             i == idr_alloc
  <2>1. o \in Nat /\ o \notin DOMAIN info /\ \A u \in Task : proc[u].ptr # o
    BY FreshAddress, Zenon DEF RegistryType
  <2>2. i \in Nat /\ i \notin DOMAIN impl
    BY FreshIndex, Zenon DEF RegistryType
  <2>3. /\ At(t, "register") /\ UNCHANGED tree
        /\ proc' = [proc EXCEPT ![t].pc = "clock", ![t].ptr = o,
                                ![t].dev = [index |-> i, info |-> o]]
        /\ info' = Extend(info, o, [name |-> proc[t].name, index |-> i])
    BY <1>6, Zenon DEF device_create
  <2> HIDE DEF o, i
  <2>4. /\ Moves(t) /\ proc'[t].pc = "clock" /\ proc'[t].name = proc[t].name /\ proc'[t].ptr = o
    BY <1>0, <2>1, <2>2, <2>3, Zenon DEF Moves, Call_t, Labels
  <2>5. /\ DOMAIN info' = DOMAIN info \cup {o} /\ info'[o].name = proc[t].name
        /\ \A p \in DOMAIN info : info'[p] = info[p]
    BY <2>1, <2>3, Zenon DEF Extend
  <2>6. o \notin tree /\ tree' = tree /\ tree \subseteq DOMAIN info
    BY <2>1, <2>3, Zenon DEF RegistryType
  <2>7. Holds(t)' /\ Owns(t)'
    BY <1>0, <2>3, <2>4, <2>5, <2>6, Zenon DEF Holds, Owns, Found, At
  <2>8. ASSUME NEW u \in Task \ {t}
        PROVE  Holds(u)' /\ (Owns(u)' => Owns(u)) /\ proc'[u].ptr = proc[u].ptr
    BY <2>1, <2>4, <2>5, <2>6 DEF Holds, Owns, Found, Moves, NameInv
  <2>9. NamesUnique'
    BY <2>5, <2>6 DEF NamesUnique, NameInv
  <2>10. Apart'
    BY <2>1, <2>4, <2>8, Zenon DEF Apart, NameInv
  <2> QED
    BY <2>4, <2>7, <2>8, <2>9, <2>10, Zenon DEF NameInv
<1>7. CASE qot_timeline_insert(t)
  <2> DEFINE p == proc[t].ptr
  <2>1. At(t, "insert") /\ UNCHANGED info
    BY <1>7, Zenon DEF qot_timeline_insert
  <2>2. p \in DOMAIN info \ tree /\ info[p].name = proc[t].name /\ info[p].index \in Nat /\ p \in Nat
    BY <1>0, <2>1, Zenon DEF Holds, Owns, At, RegistryType, Timeline
  <2>3. CASE proc[t].name \in Names
    <3>1. Goto(t, "undo") /\ UNCHANGED tree
      BY <1>7, <2>3, Zenon DEF qot_timeline_insert
    <3>2. Moves(t) /\ proc'[t].pc = "undo" /\ proc'[t].name = proc[t].name /\ proc'[t].ptr = proc[t].ptr
      BY <1>0, <3>1, GotoMoves, Zenon DEF Labels
    <3>3. Holds(t)' /\ Owns(t)
      BY <1>0, <2>1, <3>1, <3>2, Zenon DEF Holds, Owns, Found, At
    <3> QED
      BY <2>1, <3>1, <3>2, <3>3, QuietNames, Zenon
  <2>4. CASE proc[t].name \notin Names
    <3>1. tree' = tree \cup {p} /\ proc' = [proc EXCEPT ![t].pc = Return(t, "open"), ![t].ptr = Nil,
                             ![t].index = info[p].index]
      BY <1>7, <2>4, Zenon DEF qot_timeline_insert, Insert
    <3> HIDE DEF p
    <3>2. /\ Moves(t) /\ proc'[t].pc \in {"idle", "open"} /\ proc'[t].name = proc[t].name
      <4> DEFINE l == Return(t, "open")
                 j == info[p].index
      <4>1. l \in {"idle", "open"} /\ j \in Int
        BY <1>0a, <2>2 DEF p
      <4>2. proc' = [proc EXCEPT ![t].pc = l, ![t].ptr = Nil, ![t].index = j]
        BY <3>1, Zenon
      <4> HIDE DEF l, j
      <4> QED
        BY <1>0, <4>1, <4>2, Zenon DEF Moves, Call_t, Labels
    <3>3. Holds(t)' /\ ~ Owns(t)'
      BY <1>0, <2>1, <3>2, Zenon DEF Holds, Owns, Found, At
    <3>4. \A u \in Task \ {t} : Owns(u) => proc[u].ptr # p
      BY <2>1, Zenon DEF NameInv, Apart, Owns, At, p
    <3>5. ASSUME NEW u \in Task \ {t}
          PROVE  Holds(u)' /\ (Owns(u)' => Owns(u)) /\ proc'[u].ptr = proc[u].ptr
      BY <2>1, <3>1, <3>2, <3>4, Zenon DEF Holds, Owns, Found, Moves, NameInv
    <3>6. \A q \in tree : info[q].name # info[p].name
      BY <2>2, <2>4, Zenon DEF Names
    <3>7. NamesUnique'
      BY <2>1, <3>1, <3>6, Zenon DEF NamesUnique, NameInv
    <3>8. Apart'
      BY <3>3, <3>5, Zenon DEF Apart, NameInv
    <3> QED
      BY <3>2, <3>3, <3>5, <3>7, <3>8, Zenon DEF NameInv
  <2> QED
    BY <2>3, <2>4, Zenon
<1>8. CASE create_fail(t)
  <2> DEFINE p == proc[t].ptr
  <2>1. /\ At(t, "drop") /\ UNCHANGED tree /\ Point(t, Return(t, "getinfo"), Nil)
        /\ info' = Restrict(info, DOMAIN info \ {p})
    BY <1>8, Zenon DEF create_fail, kfree
  <2>2. p \in DOMAIN info \ tree
    BY <1>0, <2>1, Zenon DEF Holds, Owns, At
  <2>3. /\ Moves(t) /\ proc'[t].pc \in {"idle", "getinfo"} /\ proc'[t].name = proc[t].name
    BY <1>0, <1>0a, <2>1, PointMoves, Zenon DEF Labels
  <2>4. DOMAIN info' = DOMAIN info \ {p} /\ \A q \in DOMAIN info \ {p} : info'[q] = info[q]
    BY <2>1, Zenon DEF Restrict
  <2>5. Holds(t)' /\ ~ Owns(t)'
    BY <1>0, <2>1, <2>3, Zenon DEF Holds, Owns, Found, At
  <2>6. \A u \in Task \ {t} : Owns(u) => proc[u].ptr # p
    BY <2>1, Zenon DEF NameInv, Apart, Owns, At
  <2> HIDE DEF p
  <2>7. ASSUME NEW u \in Task \ {t}
        PROVE  Holds(u)' /\ (Owns(u)' => Owns(u)) /\ proc'[u].ptr = proc[u].ptr
    <3>1. Holds(u) /\ proc'[u] = proc[u] /\ tree' = tree
      BY <2>1, <2>3, Zenon DEF NameInv, Moves
    <3>2. Owns(u) => proc[u].ptr \in DOMAIN info \ {p}
      BY <2>6, <3>1, Zenon DEF Holds
    <3> QED
      BY <2>4, <3>1, <3>2, Zenon DEF Holds, Owns, Found
  <2>8. tree \subseteq DOMAIN info \ {p}
    BY <2>2, Zenon DEF RegistryType
  <2>9. NamesUnique'
    BY <2>1, <2>4, <2>8 DEF NamesUnique, NameInv
  <2>10. Apart'
    BY <2>5, <2>7 DEF Apart, NameInv
  <2> QED
    BY <2>3, <2>5, <2>7, <2>9, <2>10, Zenon DEF NameInv
<1> QED
  BY <1>1, <1>2, <1>3, <1>4, <1>5, <1>6, <1>7, <1>8, Zenon DEF Creation

\* The steps of qot_timeline_remove.
LEMMA RemovalNames ==
    ASSUME RegistryType, NameInv, NEW t \in Task, Removal(t)
    PROVE  Moves(t) /\ NameInv'
<1>0. proc \in [Task -> Call_t] /\ proc[t] \in Call_t /\ Holds(t)
  BY DEF RegistryType, NameInv
<1>1. CASE remove_find(t)
  <2> DEFINE o == qot_timeline_find(proc[t].name)
  <2>1. o \in Nat \cup {Nil} /\ (o # Nil => o \in tree)
    BY FindProperties
  <2> HIDE DEF o
  <2>2. Point(t, IF o = Nil THEN "idle" ELSE "check", o) /\ At(t, "remove")
    BY <1>1, Zenon DEF remove_find, o
  <2>3. /\ Moves(t) /\ proc'[t].name = proc[t].name /\ proc'[t].ptr = o
        /\ proc'[t].pc = IF o = Nil THEN "idle" ELSE "check"
    BY <1>0, <2>1, <2>2, PointMoves, Zenon DEF Labels
  <2>4. UNCHANGED <<info, tree>>
    BY <1>1, Zenon DEF remove_find, kernel
  <2>5. Holds(t)' /\ ~ Owns(t)'
    BY <1>0, <2>1, <2>2, <2>3, <2>4, Zenon DEF Holds, Owns, Found, At, RegistryType
  <2> QED
    BY <2>3, <2>4, <2>5, QuietNames, Zenon
<1>2. CASE remove_check(t)
  <2> DEFINE i == info[proc[t].ptr].index
  <2>1. /\ At(t, "check") /\ UNCHANGED <<info, tree>>
        /\ \/ i \in DOMAIN impl /\ Drive(t, "destroy", Pointer(i))
           \/ Point(t, "idle", Nil)
    BY <1>2, Zenon DEF remove_check, Removable, Device
  <2>2. i \in DOMAIN impl => Pointer(i) \in [index : Nat, info : Nat]
    BY DEF RegistryType, DeviceRec, Pointer
  <2> HIDE DEF i
  <2>3. /\ Moves(t) /\ proc'[t].name = proc[t].name
        /\ (proc'[t].pc = "idle" \/ (proc'[t].pc = "destroy" /\ proc'[t].ptr = proc[t].ptr))
    <3>1. CASE Point(t, "idle", Nil)
      BY <1>0, <3>1, PointMoves, Zenon DEF Labels
    <3>2. CASE i \in DOMAIN impl /\ Drive(t, "destroy", Pointer(i))
      BY <1>0, <2>2, <3>2, DriveMoves, Zenon DEF Labels
    <3> QED
      BY <2>1, <3>1, <3>2, Zenon
  <2>4. Holds(t)' /\ ~ Owns(t)'
    BY <1>0, <2>1, <2>3, Zenon DEF Holds, Owns, Found, At
  <2> QED
    BY <2>1, <2>3, <2>4, QuietNames, Zenon
<1>3. CASE remove_destroy(t)
  <2>1. At(t, "destroy") /\ Drive(t, "erase", Nil) /\ UNCHANGED <<info, tree>>
    BY <1>3, Zenon DEF remove_destroy
  <2>2. Moves(t) /\ proc'[t].pc = "erase" /\ proc'[t].name = proc[t].name /\ proc'[t].ptr = proc[t].ptr
    BY <1>0, <2>1, DriveMoves, Zenon DEF Labels
  <2>3. Holds(t)' /\ ~ Owns(t)'
    BY <1>0, <2>1, <2>2, Zenon DEF Holds, Owns, Found, At
  <2> QED
    BY <2>1, <2>2, <2>3, QuietNames, Zenon
<1>4. CASE remove_erase(t)
  <2> DEFINE p == proc[t].ptr
  <2>1. /\ At(t, "erase") /\ tree' = tree \ {p} /\ Point(t, "idle", Nil)
        /\ info' = Restrict(info, DOMAIN info \ {p})
    BY <1>4, Zenon DEF remove_erase, kfree
  <2>2. p \in DOMAIN info => p \in tree
    BY <1>0, <2>1, Zenon DEF Holds, Found, At
  <2>3. Moves(t) /\ proc'[t].pc = "idle" /\ proc'[t].name = proc[t].name
    BY <1>0, <2>1, PointMoves, Zenon DEF Labels
  <2>4. DOMAIN info' = DOMAIN info \ {p} /\ \A q \in DOMAIN info \ {p} : info'[q] = info[q]
    BY <2>1, Zenon DEF Restrict
  <2>5. Holds(t)' /\ ~ Owns(t)'
    BY <1>0, <2>1, <2>3, Zenon DEF Holds, Owns, Found, At
  <2> HIDE DEF p
  <2>6. ASSUME NEW u \in Task \ {t}
        PROVE  Holds(u)' /\ (Owns(u)' => Owns(u)) /\ proc'[u].ptr = proc[u].ptr
    <3>1. Holds(u) /\ proc'[u] = proc[u] /\ tree' = tree \ {p}
      BY <2>1, <2>3, Zenon DEF NameInv, Moves
    <3>2. Owns(u) => proc[u].ptr \in DOMAIN info \ {p}
      BY <2>2, <3>1, Zenon DEF Holds
    <3> QED
      BY <2>4, <3>1, <3>2, Zenon DEF Holds, Owns, Found
  <2>7. tree' \subseteq DOMAIN info \ {p} /\ tree' \subseteq tree
    BY <2>1, Zenon DEF RegistryType
  <2>8. NamesUnique'
    BY <2>4, <2>7, Zenon DEF NamesUnique, NameInv
  <2>9. Apart'
    BY <2>5, <2>6 DEF Apart, NameInv
  <2> QED
    BY <2>3, <2>5, <2>6, <2>8, <2>9, Zenon DEF NameInv
<1> QED
  BY <1>1, <1>2, <1>3, <1>4, Zenon DEF Removal

\* A call, and the steps of timeline_bind and timeline_unbind.
LEMMA BindingNames ==
    ASSUME RegistryType, NameInv, NEW t \in Task,
           (\E n \in Name : Calls(t, n)) \/ Binding(t)
    PROVE  Moves(t) /\ NameInv'
<1>0. proc \in [Task -> Call_t] /\ proc[t] \in Call_t /\ Holds(t)
  BY Zenon DEF RegistryType, NameInv
<1>1. ASSUME NEW n \in Name, Calls(t, n)
      PROVE  Moves(t) /\ NameInv'
  <2>1. PICK l \in {"find", "remove"} : Call(t, n, l)
    BY <1>1, Zenon DEF Calls, timeline_bind, timeline_create_store, timeline_remove_store
  <2>2. /\ proc' = [proc EXCEPT ![t].pc = l, ![t].name = n] /\ UNCHANGED <<info, tree>>
    BY <2>1, Zenon DEF Call, kernel
  <2>3. Moves(t) /\ proc'[t].pc = l /\ proc'[t].name = n
    BY <1>0, <2>2, Zenon DEF Moves, Call_t, Labels
  <2>4. Holds(t)' /\ ~ Owns(t)'
    BY <2>3, Zenon DEF Holds, Owns, Found
  <2> QED
    BY <2>2, <2>3, <2>4, QuietNames, Zenon
<1>2. CASE get_info(t)
  <2> DEFINE o == qot_timeline_find(proc[t].name)
  <2>1. o \in Nat \cup {Nil} /\ (o # Nil => o \in tree)
    BY FindProperties, Zenon
  <2> HIDE DEF o
  <2>2. Point(t, IF o = Nil THEN "failed" ELSE "info", o) /\ At(t, "getinfo")
    BY <1>2, Zenon DEF get_info, o
  <2>3. /\ Moves(t) /\ proc'[t].name = proc[t].name /\ proc'[t].ptr = o
        /\ proc'[t].pc = IF o = Nil THEN "failed" ELSE "info"
    BY <1>0, <2>1, <2>2, PointMoves, Zenon DEF Labels
  <2>4. UNCHANGED <<info, tree>>
    BY <1>2, Zenon DEF get_info, kernel
  <2>5. Holds(t)' /\ ~ Owns(t)'
    BY <1>0, <2>1, <2>2, <2>3, <2>4, Zenon DEF Holds, Owns, Found, At, RegistryType
  <2> QED
    BY <2>3, <2>4, <2>5, QuietNames, Zenon
<1>3. CASE get_info_copy(t)
  <2> DEFINE j == IF fault' THEN proc[t].index ELSE info[proc[t].ptr].index
  <2>1. /\ At(t, "info") /\ UNCHANGED <<info, tree>>
        /\ proc' = [proc EXCEPT ![t].pc = "open", ![t].ptr = Nil, ![t].index = j]
        /\ fault' = Freed(proc[t].ptr)
    BY <1>3, Zenon DEF get_info_copy
  <2>2. j \in Int
    BY <1>0, <2>1 DEF Freed, RegistryType, Timeline, Call_t
  <2> HIDE DEF j
  <2>3. Moves(t) /\ proc'[t].pc = "open" /\ proc'[t].name = proc[t].name
    BY <1>0, <2>1, <2>2, Zenon DEF Moves, Call_t, Labels
  <2>4. Holds(t)' /\ ~ Owns(t)'
    BY <1>0, <2>1, <2>3, Zenon DEF Holds, Owns, Found, At
  <2> QED
    BY <2>1, <2>3, <2>4, QuietNames, Zenon
<1>4. CASE \/ open(t) \/ BIND_JOIN(t) \/ BIND_UPDATE(t) \/ BIND_LEAVE(t) \/ leave_tree(t)
           \/ unbind_close(t) \/ exit(t) \/ \E d \in Demand : insert_lists(t, d)
  <2> DEFINE After == {"join", "list", "bound", "untie", "close", "remove", "failed", "ended"}
  <2>1. /\ \E l \in After : Goto(t, l)
        /\ proc[t].pc \notin {"idle", "ended"}
        /\ UNCHANGED <<info, tree>>
    BY <1>4, Zenon DEF open, BIND_JOIN, BIND_UPDATE, BIND_LEAVE, leave_tree, unbind_close, exit,
                       insert_lists, ChangeLists, kernel, At
  <2>2. PICK l \in After : Goto(t, l)
    BY <2>1, Zenon
  <2>3. Moves(t) /\ proc'[t].pc = l /\ proc'[t].name = proc[t].name
    BY <1>0, <2>2, GotoMoves, Zenon DEF Labels
  <2>4. Holds(t)' /\ ~ Owns(t)'
    BY <1>0, <2>1, <2>3, Zenon DEF Holds, Owns, Found
  <2> QED
    BY <2>1, <2>3, <2>4, QuietNames, Zenon
<1> QED
  BY <1>1, <1>2, <1>3, <1>4, Zenon DEF Binding

-----------------------------------------------------------------------------
\* Devices and bindings.

Using(l) == l \in {"join", "list", "bound", "untie", "close", "failed"}

\* The binding is in the tree, and not in the lists.
Gap(l) == l \in {"list", "untie"}

\* How a task whose step is l stands to a device d: its file, its place in the tree
\* of bindings and its place in the list.
Tie(d, l, t) ==
    /\ t \in d.files => Using(l)
    /\ t \in d.bound => t \in d.files \/ l = "ended"
    /\ l \in {"list", "bound", "untie"} /\ t \in d.files => t \in d.bound
    /\ l = "close" => t \notin d.bound
    /\ t \in Pids(d.list) <=> t \in d.bound /\ ~ Gap(l)

Absent(d, t) == t \notin d.files /\ t \notin d.bound /\ t \notin Pids(d.list)

OneFile == \A t \in Task : \A i, j \in DOMAIN impl :
               t \in impl[i].files /\ t \in impl[j].files => i = j

BindInv ==
    /\ OneFile
    /\ \A i \in DOMAIN impl :
          /\ \A t \in Task : Tie(impl[i], proc[t].pc, t)
          /\ ~ Released(impl[i])
          /\ Single(impl[i].list)

ImplType ==
    /\ IsFiniteSet(DOMAIN impl) /\ DOMAIN impl \subseteq Nat
    /\ \A i \in DOMAIN impl : impl[i] \in DeviceRec

\* Who has not opened a device, and has not ended, is nowhere in it.
LEMMA AbsentUnlessOpen ==
    ASSUME BindInv, NEW t \in Task, ~ At(t, "ended"), NEW i \in DOMAIN impl, t \notin impl[i].files
    PROVE  Absent(impl[i], t)
<1>1. Tie(impl[i], proc[t].pc, t)
  BY Zenon DEF BindInv
<1> QED
  BY <1>1, Zenon DEF Tie, Absent, At

\* Who is nowhere in a device may take any step.
LEMMA AbsentTied ==
    ASSUME NEW d, NEW t, NEW l, Absent(d, t)
    PROVE  Tie(d, l, t)
  BY Zenon DEF Absent, Tie

\* A step that leaves the devices alone.
LEMMA QuietBind ==
    ASSUME BindInv, NEW t \in Task, Moves(t), UNCHANGED impl,
           \A i \in DOMAIN impl : Tie(impl[i], proc'[t].pc, t)
    PROVE  BindInv'
<1>1. OneFile'
  BY Zenon DEF BindInv, OneFile
<1>2. \A u \in Task, i \in DOMAIN impl : Tie(impl[i], proc'[u].pc, u)
  BY Zenon DEF BindInv, Moves
<1> QED
  BY <1>1, <1>2, Zenon DEF BindInv, Tie, Released

\* What Put makes of the devices.
LEMMA PutDevices ==
    ASSUME NEW i \in DOMAIN impl, NEW d, impl' = Put(i, d)
    PROVE  /\ DOMAIN impl' = IF Released(d) THEN DOMAIN impl \ {i} ELSE DOMAIN impl
           /\ ~ Released(d) => impl'[i] = d
           /\ \A j \in DOMAIN impl \ {i} : impl'[j] = impl[j]
  BY Zenon DEF Put, Restrict

\* A step that changes what a device holds of its own task.
LEMMA AlterBind ==
    ASSUME RegistryType, BindInv, NEW t \in Task, Moves(t),
           NEW i \in DOMAIN impl, NEW d \in DeviceRec, impl' = Put(i, d),
           \A u \in Task \ {t} : /\ u \in d.files <=> u \in impl[i].files
                                 /\ u \in d.bound <=> u \in impl[i].bound
                                 /\ u \in Pids(d.list) <=> u \in Pids(impl[i].list),
           Single(d.list), Tie(d, proc'[t].pc, t),
           \A j \in DOMAIN impl \ {i} : Absent(impl[j], t)
    PROVE  BindInv' /\ ImplType'
<1>1. /\ DOMAIN impl' = IF Released(d) THEN DOMAIN impl \ {i} ELSE DOMAIN impl
      /\ ~ Released(d) => impl'[i] = d
      /\ \A j \in DOMAIN impl \ {i} : impl'[j] = impl[j]
  BY PutDevices, Zenon
<1>2. DOMAIN impl' \subseteq DOMAIN impl
  BY <1>1, Zenon
<1>3. IsFiniteSet(DOMAIN impl')
  <2>1. IsFiniteSet(DOMAIN impl)
    BY Zenon DEF RegistryType
  <2> QED
    BY <1>2, <2>1, FS_Subset, Zenon
<1>4. ImplType'
  BY <1>1, <1>2, <1>3, Zenon DEF RegistryType, ImplType
<1>5. i \in DOMAIN impl' => impl'[i] = d /\ ~ Released(d)
  BY <1>1, Zenon
<1>6. ASSUME NEW j \in DOMAIN impl', NEW u \in Task
      PROVE  Tie(impl'[j], proc'[u].pc, u)
  <2>1. CASE u = t /\ j = i
    BY <1>5, <2>1, Zenon
  <2>2. CASE u = t /\ j # i
    BY <1>1, <1>2, <2>2, AbsentTied, Zenon
  <2>3. CASE u # t /\ j = i
    <3>1. Tie(impl[i], proc[u].pc, u) /\ proc'[u] = proc[u]
      BY <2>3, Zenon DEF BindInv, Moves
    <3>2. Tie(d, proc[u].pc, u)
      BY <2>3, <3>1, Zenon DEF Tie
    <3> QED
      BY <1>5, <2>3, <3>1, <3>2, Zenon
  <2>4. CASE u # t /\ j # i
    BY <1>1, <1>2, <2>4, Zenon DEF BindInv, Moves
  <2> QED
    BY <2>1, <2>2, <2>3, <2>4, Zenon
<1>7. ASSUME NEW u \in Task, NEW j \in DOMAIN impl', NEW k \in DOMAIN impl',
             u \in impl'[j].files, u \in impl'[k].files
      PROVE  j = k
  <2>1. CASE u = t
    BY <1>1, <1>2, <1>7, <2>1, Zenon DEF Absent
  <2>2. CASE u # t
    <3>1. u \in impl[j].files /\ u \in impl[k].files
      BY <1>1, <1>2, <1>5, <1>7, <2>2, Zenon
    <3> QED
      BY <1>2, <3>1, Zenon DEF BindInv, OneFile
  <2> QED
    BY <2>1, <2>2, Zenon
<1>8. ASSUME NEW j \in DOMAIN impl'
      PROVE  ~ Released(impl'[j]) /\ Single(impl'[j].list)
  BY <1>1, <1>2, <1>5, Zenon DEF BindInv
<1>9. \A j \in DOMAIN impl' : ~ Released(impl[j])'
  BY <1>8, Zenon DEF Released
<1> QED
  BY <1>4, <1>6, <1>7, <1>8, <1>9 DEF BindInv, OneFile, Tie, Single, Released, Using, Gap, Pids

\* A task that neither uses a device nor has ended.
Free(t) == ~ Using(proc[t].pc) /\ ~ At(t, "ended")

LEMMA FreeAbsent ==
    ASSUME BindInv, NEW t \in Task, Free(t)
    PROVE  \A i \in DOMAIN impl : Absent(impl[i], t)
  BY AbsentUnlessOpen, Zenon DEF BindInv, Tie, Free

\* Such a task does nothing, ...
LEMMA FreeQuiet ==
    ASSUME RegistryType, BindInv, NEW t \in Task, Moves(t), Free(t), UNCHANGED impl
    PROVE  BindInv' /\ ImplType'
<1>1. \A i \in DOMAIN impl : Tie(impl[i], proc'[t].pc, t)
  BY FreeAbsent, AbsentTied, Zenon
<1> QED
  BY <1>1, QuietBind, Zenon DEF RegistryType, ImplType

\* ... changes the state of a device, ...
LEMMA FreeState ==
    ASSUME RegistryType, BindInv, NEW t \in Task, Moves(t), Free(t),
           NEW i \in DOMAIN impl, NEW s \in States,
           impl' = Put(i, [impl[i] EXCEPT !.state = s])
    PROVE  BindInv' /\ ImplType'
<1> DEFINE d == [impl[i] EXCEPT !.state = s]
<1>1. impl[i] \in DeviceRec
  BY Zenon DEF RegistryType
<1>2. /\ d \in DeviceRec /\ d.files = impl[i].files /\ d.bound = impl[i].bound
      /\ d.list = impl[i].list
  BY <1>1, Zenon DEF DeviceRec
<1> HIDE DEF d
<1>3. \A j \in DOMAIN impl : Absent(impl[j], t)
  BY FreeAbsent, Zenon
<1>4. Tie(d, proc'[t].pc, t)
  BY <1>2, <1>3, AbsentTied, Zenon DEF Absent
<1>5. Single(d.list)
  BY <1>2, Zenon DEF BindInv
<1>6. impl' = Put(i, d)
  BY Zenon DEF d
<1> QED
  BY <1>2, <1>3, <1>4, <1>5, <1>6, AlterBind, Zenon

\* ... or makes a new one.
LEMMA FreeNew ==
    ASSUME RegistryType, BindInv, NEW t \in Task, Moves(t), Free(t),
           NEW i \in Nat \ DOMAIN impl, NEW o \in Nat,
           impl' = Extend(impl, i, [info |-> o, state |-> "node", files |-> {},
                                    bound |-> {}, list |-> <<>>])
    PROVE  BindInv' /\ ImplType'
<1> DEFINE d == [info |-> o, state |-> "node", files |-> {}, bound |-> {}, list |-> <<>>]
<1>1. d \in DeviceRec /\ ~ Released(d) /\ Single(d.list) /\ \A u \in Task : Absent(d, u)
  BY DEF DeviceRec, States, Released, Single, Absent, Pids
<1>2. d.files = {}
  BY Zenon
<1> HIDE DEF d
<1>3. /\ DOMAIN impl' = DOMAIN impl \cup {i} /\ impl'[i] = d
      /\ \A j \in DOMAIN impl : impl'[j] = impl[j]
  BY Zenon DEF Extend, d
<1>4. IsFiniteSet(DOMAIN impl')
  BY <1>3, FS_AddElement DEF RegistryType
<1>5. ImplType'
  BY <1>1, <1>3, <1>4, Zenon DEF RegistryType, ImplType
<1>6. ASSUME NEW j \in DOMAIN impl', NEW u \in Task
      PROVE  Tie(impl'[j], proc'[u].pc, u)
  <2>1. CASE j = i
    BY <1>1, <1>3, <2>1, AbsentTied, Zenon
  <2>2. CASE j # i /\ u = t
    BY <1>3, <2>2, FreeAbsent, AbsentTied, Zenon
  <2>3. CASE j # i /\ u # t
    BY <1>3, <2>3, Zenon DEF BindInv, Moves
  <2> QED
    BY <2>1, <2>2, <2>3, Zenon
<1>7. OneFile'
  BY <1>2, <1>3, Zenon DEF BindInv, OneFile
<1>8. \A j \in DOMAIN impl' : ~ Released(impl'[j]) /\ Single(impl'[j].list)
  BY <1>1, <1>3, Zenon DEF BindInv
<1> QED
  BY <1>5, <1>6, <1>7, <1>8, Zenon DEF BindInv, Tie, Single, Released, Using, Gap, Pids

\* Unregister and Advance leave the devices alone, or put one with another state.
LEMMA UnregisterPuts ==
    ASSUME NEW d, Unregister(d)
    PROVE  \/ fault' = TRUE /\ UNCHANGED impl
           \/ /\ ~ Dangling(d) /\ d.index \in DOMAIN impl /\ Open(d.index) /\ fault' = fault
              /\ impl' = Put(d.index, [impl[d.index] EXCEPT !.state = "zombie"])
  BY Zenon DEF Unregister, Dangling, Device

LEMMA AdvancePuts ==
    ASSUME RegistryType, NEW d, NEW s \in {"clock", "ready"}, Advance(d, s)
    PROVE  \/ fault' = TRUE /\ UNCHANGED impl
           \/ /\ ~ Dangling(d) /\ d.index \in DOMAIN impl /\ fault' = fault
              /\ impl' = Put(d.index, [impl[d.index] EXCEPT !.state = s])
<1>1. CASE Dangling(d) \/ impl[d.index].state = "zombie"
  BY <1>1, Zenon DEF Advance
<1>2. CASE ~ (Dangling(d) \/ impl[d.index].state = "zombie")
  <2>1. d.index \in DOMAIN impl /\ fault' = fault
    BY <1>2, Zenon DEF Advance, Dangling, Device
  <2>2. impl' = [impl EXCEPT ![d.index].state = s]
    BY <1>2, Zenon DEF Advance
  <2>3. impl[d.index] \in DeviceRec
    BY <2>1, Zenon DEF RegistryType
  <2>4. ~ Released([impl[d.index] EXCEPT !.state = s])
    BY <2>3, Zenon DEF Released, DeviceRec
  <2> QED
    BY <1>2, <2>1, <2>2, <2>4, Zenon DEF Put
<1> QED
  BY <1>1, <1>2, Zenon

\* The steps of qot_timeline_create and qot_timeline_remove.
LEMMA CreationBind ==
    ASSUME RegistryType, BindInv, NEW t \in Task, Moves(t), Creation(t) \/ Removal(t)
    PROVE  BindInv' /\ ImplType'
<1>1. CASE \/ create_find(t) \/ create_exists(t) \/ qot_timeline_insert(t) \/ create_undo(t)
           \/ create_fail(t) \/ remove_find(t) \/ remove_check(t) \/ remove_erase(t)
  <2>1. UNCHANGED impl /\ Free(t)
    BY <1>1, Zenon DEF create_find, create_exists, qot_timeline_insert, create_undo,
                       create_fail, remove_find, remove_check, remove_erase, kernel, Free,
                       Using, At
  <2> QED
    BY <2>1, FreeQuiet, Zenon
<1>2. CASE posix_clock_register(t) \/ chdev_init(t)
  <2>1. Free(t)
    BY <1>2, Zenon DEF posix_clock_register, chdev_init, Free, Using, At
  <2>2. PICK s \in {"clock", "ready"} : Advance(proc[t].dev, s)
    BY <1>2, Zenon DEF posix_clock_register, chdev_init
  <2>3. s \in States
    BY Zenon DEF States
  <2> QED
    BY <2>1, <2>2, <2>3, AdvancePuts, FreeQuiet, FreeState, Zenon
<1>3. CASE create_unregister(t) \/ remove_destroy(t)
  <2>1. Free(t) /\ Unregister(proc[t].dev)
    BY <1>3, Zenon DEF create_unregister, remove_destroy, Free, Using, At
  <2>2. "zombie" \in States
    BY Zenon DEF States
  <2> QED
    BY <2>1, <2>2, UnregisterPuts, FreeQuiet, FreeState, Zenon
<1>4. CASE device_create(t)
  <2> DEFINE o == kzalloc
             i == idr_alloc
  <2>1. o \in Nat /\ i \in Nat \ DOMAIN impl
    BY FreshAddress, FreshIndex, Zenon DEF RegistryType
  <2>2. /\ Free(t)
        /\ impl' = Extend(impl, i, [info |-> o, state |-> "node", files |-> {},
                                    bound |-> {}, list |-> <<>>])
    BY <1>4, Zenon DEF device_create, Free, Using, At
  <2> HIDE DEF o, i
  <2> QED
    BY <2>1, <2>2, FreeNew, Zenon
<1> QED
  BY <1>1, <1>2, <1>3, <1>4, Zenon DEF Creation, Removal

\* A device that has not been unregistered keeps its state.
Stable == \A i \in DOMAIN impl :
              impl[i].state # "zombie" => /\ i \in DOMAIN impl'
                                          /\ impl'[i].info = impl[i].info
                                          /\ impl'[i].state = impl[i].state

\* A task that has a device open, or opens one, changes what the device holds of it.
LEMMA OwnBind ==
    ASSUME RegistryType, BindInv, NEW t \in Task, Moves(t), ~ At(t, "ended"),
           NEW i \in DOMAIN impl, NEW d \in DeviceRec, impl' = Put(i, d),
           d.state = impl[i].state, d.info = impl[i].info,
           \A j \in DOMAIN impl \ {i} : t \notin impl[j].files,
           \A u \in Task \ {t} : /\ u \in d.files <=> u \in impl[i].files
                                 /\ u \in d.bound <=> u \in impl[i].bound
                                 /\ u \in Pids(d.list) <=> u \in Pids(impl[i].list),
           Single(d.list), Tie(d, proc'[t].pc, t)
    PROVE  BindInv' /\ ImplType' /\ Stable
<1>1. \A j \in DOMAIN impl \ {i} : Absent(impl[j], t)
  BY AbsentUnlessOpen, Zenon
<1>2. BindInv' /\ ImplType'
  BY <1>1, AlterBind, Zenon
<1>3. /\ DOMAIN impl' = IF Released(d) THEN DOMAIN impl \ {i} ELSE DOMAIN impl
      /\ ~ Released(d) => impl'[i] = d
      /\ \A j \in DOMAIN impl \ {i} : impl'[j] = impl[j]
  BY PutDevices, Zenon
<1>4. Released(d) => impl[i].state = "zombie"
  BY Zenon DEF Released
<1>5. Stable
  BY <1>3, <1>4, Zenon DEF Stable
<1> QED
  BY <1>2, <1>5, Zenon

\* The steps of a call, of timeline_bind and of timeline_unbind.
LEMMA BindingBind ==
    ASSUME RegistryType, BindInv, NEW t \in Task, Moves(t),
           (\E n \in Name : Calls(t, n)) \/ Binding(t)
    PROVE  BindInv' /\ ImplType' /\ Stable
<1>0. /\ proc \in [Task -> Call_t]
      /\ \A i \in DOMAIN impl : /\ impl[i] \in DeviceRec /\ Single(impl[i].list)
                                /\ Tie(impl[i], proc[t].pc, t)
  BY Zenon DEF RegistryType, BindInv
<1>0a. UNCHANGED impl => Stable
  BY Zenon DEF Stable
<1>0b. \A i \in Fd(t) : i \in DOMAIN impl /\ t \in impl[i].files
                         /\ \A j \in DOMAIN impl \ {i} : t \notin impl[j].files
  BY Zenon DEF Fd, BindInv, OneFile
<1>1. ASSUME NEW n \in Name, Calls(t, n)
      PROVE  BindInv' /\ ImplType' /\ Stable
  <2>1. UNCHANGED impl /\ Free(t)
    BY <1>1, Zenon DEF Calls, timeline_bind, timeline_create_store, timeline_remove_store,
                       Call, kernel, Free, Using, At
  <2> QED
    BY <1>0a, <2>1, FreeQuiet, Zenon
<1>2. CASE get_info(t) \/ get_info_copy(t)
  <2>1. UNCHANGED impl /\ Free(t)
    BY <1>2, Zenon DEF get_info, get_info_copy, kernel, Free, Using, At
  <2> QED
    BY <1>0a, <2>1, FreeQuiet, Zenon
<1>3. CASE open(t)
  <2> DEFINE i == proc[t].index
             d == [impl[i] EXCEPT !.files = @ \cup {t}]
  <2>1. Free(t) /\ At(t, "open")
    BY <1>3, Zenon DEF open, Free, Using, At
  <2>2. CASE ~ Open(i)
    <3>1. UNCHANGED impl
      BY <1>3, <2>2, Zenon DEF open
    <3> QED
      BY <1>0a, <2>1, <3>1, FreeQuiet, Zenon
  <2>3. CASE Open(i)
    <3>1. /\ i \in DOMAIN impl /\ impl' = [impl EXCEPT ![i].files = @ \cup {t}]
          /\ Goto(t, "join")
      BY <1>3, <2>3, Zenon DEF open, Open, Device
    <3>2. /\ d \in DeviceRec /\ d.files = impl[i].files \cup {t} /\ d.bound = impl[i].bound
          /\ d.list = impl[i].list /\ d.state = impl[i].state /\ d.info = impl[i].info
      BY <1>0, <3>1, Zenon DEF DeviceRec
    <3>3. impl' = Put(i, d)
      BY <3>1, <3>2, Zenon DEF Put, Released
    <3>4. proc'[t].pc = "join"
      BY <1>0, <3>1, GotoMoves, Zenon DEF Labels
    <3> HIDE DEF i, d
    <3>5. \A j \in DOMAIN impl : Absent(impl[j], t)
      BY <2>1, FreeAbsent, Zenon
    <3>6. Tie(d, "join", t)
      BY <3>1, <3>2, <3>5, Zenon DEF Tie, Absent, Using, Gap
    <3>7. ~ At(t, "ended")
      BY <2>1, Zenon DEF At
    <3>8. \A u \in Task \ {t} : /\ u \in d.files <=> u \in impl[i].files
                                /\ u \in d.bound <=> u \in impl[i].bound
                                /\ u \in Pids(d.list) <=> u \in Pids(impl[i].list)
      BY <3>2, Zenon
    <3>9. Single(d.list) /\ Tie(d, proc'[t].pc, t)
      BY <1>0, <3>1, <3>2, <3>4, <3>6, Zenon
    <3>10. \A j \in DOMAIN impl \ {i} : t \notin impl[j].files
      BY <3>5, Zenon DEF Absent
    <3> QED
      BY <3>1, <3>2, <3>3, <3>7, <3>8, <3>9, <3>10, OwnBind
  <2> QED
    BY <2>2, <2>3, Zenon
<1>4. CASE BIND_JOIN(t)
  <2>1. PICK i \in Fd(t) :
            IF Open(i) /\ t \notin Bound(i)
            THEN impl' = [impl EXCEPT ![i].bound = @ \cup {t}] /\ Goto(t, "list")
            ELSE UNCHANGED impl /\ Goto(t, "failed")
    BY <1>4, Zenon DEF BIND_JOIN
  <2>2. At(t, "join")
    BY <1>4, Zenon DEF BIND_JOIN
  <2>3. CASE ~ (Open(i) /\ t \notin Bound(i))
    <3>1. proc'[t].pc = "failed"
      BY <1>0, <2>1, <2>3, GotoMoves, Zenon DEF Labels
    <3>2. \A j \in DOMAIN impl : Tie(impl[j], proc'[t].pc, t)
      BY <1>0, <2>2, <3>1, Zenon DEF Tie, Using, Gap, At
    <3>3. UNCHANGED impl
      BY <2>1, <2>3, Zenon
    <3> QED
      BY <1>0a, <3>2, <3>3, QuietBind, Zenon DEF ImplType, RegistryType
  <2>4. CASE Open(i) /\ t \notin Bound(i)
    <3> DEFINE d == [impl[i] EXCEPT !.bound = @ \cup {t}]
    <3>1. i \in DOMAIN impl /\ impl' = [impl EXCEPT ![i].bound = @ \cup {t}] /\ Goto(t, "list")
      BY <1>0b, <2>1, <2>4, Zenon
    <3>2. /\ d \in DeviceRec /\ d.files = impl[i].files /\ d.bound = impl[i].bound \cup {t}
          /\ d.list = impl[i].list /\ d.state = impl[i].state /\ d.info = impl[i].info
      BY <1>0, <3>1, Zenon DEF DeviceRec
    <3>3. impl' = Put(i, d)
      BY <1>0b, <3>1, <3>2, Zenon DEF Put, Released
    <3>4. proc'[t].pc = "list"
      BY <1>0, <3>1, GotoMoves, Zenon DEF Labels
    <3> HIDE DEF d
    <3>5. Tie(d, "list", t)
      BY <1>0, <1>0b, <2>2, <2>4, <3>1, <3>2, Zenon DEF Tie, Using, Gap, At, Bound
    <3>6. ~ At(t, "ended")
      BY <2>2, Zenon DEF At
    <3>7. \A u \in Task \ {t} : /\ u \in d.files <=> u \in impl[i].files
                                /\ u \in d.bound <=> u \in impl[i].bound
                                /\ u \in Pids(d.list) <=> u \in Pids(impl[i].list)
      BY <3>2, Zenon
    <3>8. Single(d.list) /\ Tie(d, proc'[t].pc, t)
      BY <1>0, <3>1, <3>2, <3>4, <3>5, Zenon
    <3>9. \A j \in DOMAIN impl \ {i} : t \notin impl[j].files
      BY <1>0b, Zenon
    <3> QED
      BY <3>1, <3>2, <3>3, <3>6, <3>7, <3>8, <3>9, OwnBind
  <2> QED
    BY <2>3, <2>4, Zenon
<1>5. ASSUME NEW i \in Fd(t), NEW list \in Seq(Entry), Single(list),
             impl' = [impl EXCEPT ![i].list = list], t \in impl[i].bound, ~ At(t, "ended"),
             \A u \in Task \ {t} : u \in Pids(list) <=> u \in Pids(impl[i].list),
             \/ proc'[t].pc = "bound" /\ t \in Pids(list)
             \/ Gap(proc'[t].pc) /\ t \notin Pids(list)
      PROVE  BindInv' /\ ImplType' /\ Stable
  <2> DEFINE d == [impl[i] EXCEPT !.list = list]
  <2>1. i \in DOMAIN impl
    BY <1>0b, Zenon
  <2>2. /\ d \in DeviceRec /\ d.files = impl[i].files /\ d.bound = impl[i].bound
        /\ d.list = list /\ d.state = impl[i].state /\ d.info = impl[i].info
    BY <1>0, <2>1, Zenon DEF DeviceRec
  <2>3. impl' = Put(i, d)
    BY <1>0b, <1>5, <2>2, Zenon DEF Put, Released
  <2> HIDE DEF d
  <2>4. Tie(d, proc'[t].pc, t)
    BY <1>0b, <1>5, <2>2, Zenon DEF Tie, Using, Gap
  <2>5. \A u \in Task \ {t} : /\ u \in d.files <=> u \in impl[i].files
                              /\ u \in d.bound <=> u \in impl[i].bound
                              /\ u \in Pids(d.list) <=> u \in Pids(impl[i].list)
    BY <1>5, <2>2, Zenon
  <2>6. Single(d.list)
    BY <1>5, <2>2, Zenon
  <2>7. \A j \in DOMAIN impl \ {i} : t \notin impl[j].files
    BY <1>0b, Zenon
  <2>8. d \in DeviceRec /\ d.state = impl[i].state /\ d.info = impl[i].info /\ ~ At(t, "ended")
    BY <1>5, <2>2, Zenon
  <2> QED
    BY <2>1, <2>3, <2>4, <2>5, <2>6, <2>7, <2>8, OwnBind, Zenon
<1>5a. \A i \in Fd(t) : /\ impl[i].list \in Seq(Entry)
                        /\ proc[t].pc \in {"list", "bound", "untie"} => t \in impl[i].bound
  BY <1>0, <1>0b, Zenon DEF DeviceRec, Tie
<1>5b. ASSUME NEW i \in Fd(t)
       PROVE  LET list == list_del(impl[i].list, t)
              IN  /\ list \in Seq(Entry) /\ Single(list) /\ t \notin Pids(list)
                  /\ \A u \in Task \ {t} : u \in Pids(list) <=> u \in Pids(impl[i].list)
  <2> DEFINE list == list_del(impl[i].list, t)
  <2>1. impl[i].list \in Seq(Entry) /\ Single(impl[i].list)
    BY <1>0, <1>0b, <1>5a, Zenon
  <2>2. list \in Seq(Entry) /\ Pids(list) = Pids(impl[i].list) \ {t} /\ Single(list)
    BY <2>1, DeleteList, Zenon
  <2> HIDE DEF list
  <2> QED
    BY <2>2, Zenon DEF list
<1>5c. ASSUME NEW q \in Demand, insert_lists(t, q)
       PROVE  BindInv' /\ ImplType' /\ Stable
  <2> DEFINE b == [pid |-> t, demand |-> q]
  <2>1. PICK i \in Fd(t) : impl' = [impl EXCEPT ![i].list = qot_insert_list(impl[i].list, b)]
    BY <1>5c, Zenon DEF insert_lists, ChangeLists
  <2>2. At(t, "list") /\ Goto(t, "bound")
    BY <1>5c, Zenon DEF insert_lists
  <2>3. impl[i].list \in Seq(Entry) /\ b \in Entry /\ b.pid = t
    BY <1>5a, RegistryAssumption, Zenon DEF Entry
  <2> DEFINE list == qot_insert_list(impl[i].list, b)
  <2>4. t \notin Pids(impl[i].list) /\ t \in impl[i].bound /\ Single(impl[i].list)
    BY <1>0, <1>0b, <2>2, Zenon DEF Tie, Gap, At
  <2>5. list \in Seq(Entry) /\ Pids(list) = Pids(impl[i].list) \cup {t} /\ Single(list)
    <3> HIDE DEF b
    <3> QED
      BY <2>3, <2>4, InsertList, Zenon
  <2>6. impl' = [impl EXCEPT ![i].list = list]
    BY <2>1, Zenon
  <2> HIDE DEF b, list
  <2>7. proc'[t].pc = "bound" /\ ~ At(t, "ended")
    BY <1>0, <2>2, GotoMoves, Zenon DEF Labels, At
  <2>8. t \in Pids(list) /\ \A u \in Task \ {t} : u \in Pids(list) <=> u \in Pids(impl[i].list)
    BY <2>5, Zenon
  <2> QED
    BY <1>5, <2>4, <2>5, <2>6, <2>7, <2>8, Zenon
<1>6. CASE BIND_UPDATE(t)
  <2>1. PICK i \in Fd(t) : impl' = [impl EXCEPT ![i].list = list_del(impl[i].list, t)]
    BY <1>6, Zenon DEF BIND_UPDATE, ChangeLists
  <2>2. At(t, "bound") /\ Goto(t, "list")
    BY <1>6, Zenon DEF BIND_UPDATE
  <2>3. Gap(proc'[t].pc) /\ ~ At(t, "ended") /\ t \in impl[i].bound
    BY <1>0, <1>5a, <2>2, GotoMoves, Zenon DEF Labels, Gap, At
  <2> QED
    BY <1>5, <1>5b, <2>1, <2>3, Zenon
<1>7. CASE BIND_LEAVE(t)
  <2>1. PICK i \in Fd(t) :
            IF Open(i)
            THEN ChangeLists(t, i, list_del(impl[i].list, t)) /\ Goto(t, "untie")
            ELSE Goto(t, "failed") /\ UNCHANGED <<kernel, count>>
    BY <1>7, Zenon DEF BIND_LEAVE
  <2>2. At(t, "bound")
    BY <1>7, Zenon DEF BIND_LEAVE
  <2>3. CASE ~ Open(i)
    <3>1. proc'[t].pc = "failed"
      BY <1>0, <2>1, <2>3, GotoMoves, Zenon DEF Labels
    <3>2. \A j \in DOMAIN impl : Tie(impl[j], proc'[t].pc, t)
      BY <1>0, <2>2, <3>1, Zenon DEF Tie, Using, Gap, At
    <3>3. UNCHANGED impl
      BY <2>1, <2>3, Zenon DEF kernel
    <3> QED
      BY <1>0a, <3>2, <3>3, QuietBind DEF ImplType, RegistryType
  <2>4. CASE Open(i)
    <3>1. impl' = [impl EXCEPT ![i].list = list_del(impl[i].list, t)] /\ Goto(t, "untie")
      BY <2>1, <2>4, Zenon DEF ChangeLists
    <3>2. Gap(proc'[t].pc) /\ ~ At(t, "ended") /\ t \in impl[i].bound
      BY <1>0, <1>5a, <2>2, <3>1, GotoMoves, Zenon DEF Labels, Gap, At
    <3> QED
      BY <1>5, <1>5b, <3>1, <3>2, Zenon
  <2> QED
    BY <2>3, <2>4, Zenon
<1>7a. CASE leave_tree(t)
  <2>1. PICK i \in Fd(t) : impl' = [impl EXCEPT ![i].bound = @ \ {t}]
    BY <1>7a, Zenon DEF leave_tree
  <2>2. At(t, "untie") /\ Goto(t, "close")
    BY <1>7a, Zenon DEF leave_tree
  <2> DEFINE d == [impl[i] EXCEPT !.bound = @ \ {t}]
  <2>3. i \in DOMAIN impl /\ t \notin Pids(impl[i].list)
    BY <1>0, <1>0b, <2>2, Zenon DEF Tie, Gap, At
  <2>4. /\ d \in DeviceRec /\ d.files = impl[i].files /\ d.bound = impl[i].bound \ {t}
        /\ d.list = impl[i].list /\ d.state = impl[i].state /\ d.info = impl[i].info
    BY <1>0, <2>3, Zenon DEF DeviceRec
  <2>5. impl' = Put(i, d)
    BY <1>0b, <2>1, <2>4, Zenon DEF Put, Released
  <2>6. proc'[t].pc = "close" /\ ~ At(t, "ended")
    BY <1>0, <2>2, GotoMoves, Zenon DEF Labels, At
  <2> HIDE DEF d
  <2>7. Tie(d, proc'[t].pc, t)
    BY <1>0b, <2>3, <2>4, <2>6, Zenon DEF Tie, Using, Gap
  <2>8. \A u \in Task \ {t} : /\ u \in d.files <=> u \in impl[i].files
                              /\ u \in d.bound <=> u \in impl[i].bound
                              /\ u \in Pids(d.list) <=> u \in Pids(impl[i].list)
    BY <2>4, Zenon
  <2>9. Single(d.list)
    BY <1>0, <2>3, <2>4, Zenon
  <2>10. \A j \in DOMAIN impl \ {i} : t \notin impl[j].files
    BY <1>0b, Zenon
  <2> QED
    BY <2>3, <2>4, <2>5, <2>6, <2>7, <2>8, <2>9, <2>10, OwnBind, Zenon
<1>8. ASSUME NEW i \in Fd(t), close(t, i), ~ At(t, "ended"), ~ Gap(proc[t].pc),
             \/ At(t, "close") /\ proc'[t].pc = "remove"
             \/ proc'[t].pc = "ended"
      PROVE  BindInv' /\ ImplType' /\ Stable
  <2> DEFINE d == [impl[i] EXCEPT !.files = @ \ {t}]
  <2>1. i \in DOMAIN impl /\ impl' = Put(i, d)
    BY <1>0b, <1>8, Zenon DEF close
  <2>2. /\ d \in DeviceRec /\ d.files = impl[i].files \ {t} /\ d.bound = impl[i].bound
        /\ d.list = impl[i].list /\ d.state = impl[i].state /\ d.info = impl[i].info
    BY <1>0, <2>1, Zenon DEF DeviceRec
  <2> HIDE DEF d
  <2>3. Tie(d, proc'[t].pc, t)
    <3>1. Tie(impl[i], proc[t].pc, t)
      BY <1>0, <2>1, Zenon
    <3> QED
      BY <1>8, <2>2, <3>1, Zenon DEF Tie, Using, Gap, At
  <2>4. \A u \in Task \ {t} : /\ u \in d.files <=> u \in impl[i].files
                              /\ u \in d.bound <=> u \in impl[i].bound
                              /\ u \in Pids(d.list) <=> u \in Pids(impl[i].list)
    BY <2>2, Zenon
  <2>5. Single(d.list)
    BY <1>0, <2>1, <2>2, Zenon
  <2>6. \A j \in DOMAIN impl \ {i} : t \notin impl[j].files
    BY <1>0b
  <2> QED
    BY <1>8, <2>1, <2>2, <2>3, <2>4, <2>5, <2>6, OwnBind, Zenon
<1>9. CASE unbind_close(t)
  <2>1. At(t, "close") /\ Goto(t, "remove") /\ \E i \in Fd(t) : close(t, i)
    BY <1>9, Zenon DEF unbind_close
  <2>2. proc'[t].pc = "remove" /\ ~ At(t, "ended") /\ ~ Gap(proc[t].pc)
    BY <1>0, <2>1, GotoMoves, Zenon DEF Labels, Gap, At
  <2> QED
    BY <1>8, <2>1, <2>2, Zenon
<1>10. CASE exit(t)
  <2>1. ~ At(t, "ended") /\ ~ Gap(proc[t].pc) /\ Goto(t, "ended")
    BY <1>10, Zenon DEF exit, Gap, At
  <2>2. proc'[t].pc = "ended"
    BY <1>0, <2>1, GotoMoves, Zenon DEF Labels
  <2>3. CASE Fd(t) = {}
    <3>1. UNCHANGED impl
      BY <1>10, <2>3, Zenon DEF exit
    <3>2. \A j \in DOMAIN impl : Absent(impl[j], t)
      BY <2>1, <2>3, AbsentUnlessOpen, Zenon DEF Fd
    <3> QED
      BY <1>0a, <3>1, <3>2, AbsentTied, QuietBind, Zenon DEF ImplType, RegistryType
  <2>4. CASE Fd(t) # {}
    <3>1. \E i \in Fd(t) : close(t, i)
      BY <1>10, <2>4, Zenon DEF exit
    <3> QED
      BY <1>8, <2>1, <2>2, <3>1, Zenon
  <2> QED
    BY <2>3, <2>4, Zenon
<1> QED
  BY <1>1, <1>2, <1>3, <1>4, <1>5c, <1>6, <1>7, <1>7a, <1>9, <1>10, Zenon DEF Binding

-----------------------------------------------------------------------------
\* Timelines and their devices.

Erases(t, o) == At(t, "erase") /\ proc[t].ptr = o

\* Two tasks erase the same timeline, or one erases what is freed: the next of
\* their steps that counts is a fault.
Doomed ==
    \E t \in Task : /\ At(t, "erase")
                    /\ \/ Freed(proc[t].ptr)
                       \/ \E u \in Task \ {t} : Erases(u, proc[t].ptr)

\* A timeline has its own device, in one of some states.
Own(o, S) == /\ info[o].index \in DOMAIN impl
             /\ impl[info[o].index].info = o
             /\ impl[info[o].index].state \in S

Addressed(t) == proc[t].dev = [index |-> info[proc[t].ptr].index, info |-> proc[t].ptr]

SoundFor(t) ==
    /\ At(t, "clock") => Own(proc[t].ptr, {"node"})
    /\ At(t, "init") => Own(proc[t].ptr, {"clock"})
    /\ proc[t].pc \in {"insert", "undo", "unplug"} => Own(proc[t].ptr, {"ready"})
    /\ proc[t].pc \in {"clock", "init", "unplug"} => Addressed(t)
    /\ At(t, "destroy") /\ ~ Freed(proc[t].ptr) =>
          Addressed(t) \/ \E u \in Task : Erases(u, proc[t].ptr)

TreeSound == \A o \in tree : Own(o, {"ready"}) \/ \E t \in Task : Erases(t, o)

Sound == TreeSound /\ \A t \in Task : SoundFor(t)

SoundInv == fault \/ Doomed \/ Sound

\* A step of another task leaves an eraser where it is.
LEMMA ErasersStay ==
    ASSUME NEW t \in Task, Moves(t), NEW u \in Task \ {t}, NEW o
    PROVE  Erases(u, o)' <=> Erases(u, o)
  BY Zenon DEF Erases, At, Moves

\* What is at rest stays sound when the devices in use keep their state.
LEMMA QuietSound ==
    ASSUME RegistryType, NameInv, Sound, NEW t \in Task, Moves(t), UNCHANGED info,
           \A o \in tree' : o \in tree \/ Own(o, {"ready"}),
           Stable, ~ At(t, "erase"), SoundFor(t)'
    PROVE  Sound'
<1>1. ASSUME NEW o, NEW S \in SUBSET {"node", "clock", "ready"}, Own(o, S)
      PROVE  Own(o, S)'
  BY <1>1, Zenon DEF Own, Stable
<1>2. ASSUME NEW o, \E u \in Task : Erases(u, o)
      PROVE  \E u \in Task : Erases(u, o)'
  BY <1>2, ErasersStay, Zenon DEF Erases
<1>3. TreeSound'
  BY <1>1, <1>2, Zenon DEF Sound, TreeSound
<1>4. ASSUME NEW u \in Task \ {t}
      PROVE  SoundFor(u)'
  <2>1. SoundFor(u) /\ proc'[u] = proc[u] /\ info' = info
    BY Zenon DEF Sound, Moves
  <2> QED
    BY <1>1, <1>2, <2>1, Zenon DEF SoundFor, Addressed, At, Freed
<1> QED
  BY <1>3, <1>4, Zenon DEF Sound

\* A timeline keeps its device when the device of another one changes.
LEMMA OwnOthers ==
    ASSUME NEW i \in DOMAIN impl, NEW d, impl' = Put(i, d), UNCHANGED info,
           NEW o, o # impl[i].info, NEW S, Own(o, S)
    PROVE  Own(o, S)'
<1>1. /\ DOMAIN impl' = IF Released(d) THEN DOMAIN impl \ {i} ELSE DOMAIN impl
      /\ \A j \in DOMAIN impl \ {i} : impl'[j] = impl[j]
  BY PutDevices, Zenon
<1>2. info[o].index \in DOMAIN impl \ {i}
  BY Zenon DEF Own
<1> QED
  BY <1>1, <1>2, Zenon DEF Own

\* A step that changes the device of one timeline, of which the task that takes the
\* step is the only owner, or which it erases.
LEMMA PutSound ==
    ASSUME RegistryType, NameInv, Sound, NEW t \in Task, Moves(t), UNCHANGED <<info, tree>>,
           NEW i \in DOMAIN impl, NEW d, impl' = Put(i, d), ~ At(t, "erase"), SoundFor(t)',
           NEW p, p = impl[i].info, p \in tree => Erases(t, p)',
           \A u \in Task \ {t} : Owns(u) => proc[u].ptr # p
    PROVE  Sound'
<1>1. ASSUME NEW o, \E u \in Task : Erases(u, o)
      PROVE  \E u \in Task : Erases(u, o)'
  BY <1>1, ErasersStay, Zenon DEF Erases
<1>2. ASSUME NEW o \in tree
      PROVE  Own(o, {"ready"})' \/ \E u \in Task : Erases(u, o)'
  <2>1. CASE o = p
    BY <2>1, Zenon
  <2>2. CASE o # p
    BY <1>1, <2>2, OwnOthers, Zenon DEF Sound, TreeSound
  <2> QED
    BY <2>1, <2>2, Zenon
<1>3. TreeSound'
  BY <1>2, Zenon DEF TreeSound
<1>4. ASSUME NEW u \in Task \ {t}
      PROVE  SoundFor(u)'
  <2>1. SoundFor(u) /\ proc'[u] = proc[u] /\ info' = info
    BY Zenon DEF Sound, Moves
  <2>2. ASSUME Owns(u), NEW S, Own(proc[u].ptr, S)
        PROVE  Own(proc[u].ptr, S)'
    <3>1. \A o : o # impl[i].info /\ Own(o, S) => Own(o, S)'
      BY OwnOthers, Zenon
    <3>2. proc[u].ptr # impl[i].info
      BY <2>2, Zenon
    <3> QED
      BY <2>1, <2>2, <3>1, <3>2, Zenon DEF Own
  <2> QED
    BY <1>1, <2>1, <2>2, Zenon DEF SoundFor, Addressed, At, Freed, Owns
<1> QED
  BY <1>3, <1>4, Zenon DEF Sound

\* A timeline is freed, which is in the tree no longer.
LEMMA FreeSound ==
    ASSUME RegistryType, NameInv, Sound, NEW t \in Task, Moves(t), UNCHANGED impl,
           info' = Restrict(info, DOMAIN info \ {proc[t].ptr}),
           tree' = tree \ {proc[t].ptr}, proc'[t].pc \in {"idle", "getinfo"},
           \A u \in Task \ {t} : Owns(u) => proc[u].ptr # proc[t].ptr
    PROVE  Sound'
<1> DEFINE p == proc[t].ptr
<1>1. DOMAIN info' = DOMAIN info \ {p} /\ \A o \in DOMAIN info \ {p} : info'[o] = info[o]
  BY Zenon DEF Restrict
<1>2. ASSUME NEW o \in DOMAIN info \ {p}, NEW S, Own(o, S)
      PROVE  Own(o, S)'
  BY <1>1, <1>2, Zenon DEF Own
<1>3. ASSUME NEW o, o # p, \E u \in Task : Erases(u, o)
      PROVE  \E u \in Task : Erases(u, o)'
  BY <1>3, ErasersStay DEF Erases
<1> HIDE DEF p
<1>4. tree' \subseteq DOMAIN info \ {p} /\ tree' \subseteq tree
  BY Zenon DEF RegistryType, p
<1>5. TreeSound'
  BY <1>2, <1>3, <1>4, Zenon DEF Sound, TreeSound
<1>6. SoundFor(t)'
  BY Zenon DEF SoundFor, At
<1>7. ASSUME NEW u \in Task \ {t}
      PROVE  SoundFor(u)'
  <2>1. SoundFor(u) /\ proc'[u] = proc[u] /\ Holds(u)
    BY Zenon DEF Sound, Moves, NameInv
  <2>2. Owns(u) => proc[u].ptr \in DOMAIN info \ {p}
    BY <2>1, Zenon DEF Holds, p
  <2>3. ~ Freed(proc[u].ptr)' => proc[u].ptr \in DOMAIN info \ {p} /\ ~ Freed(proc[u].ptr)
    BY <1>1, <2>1, Zenon DEF Freed
  <2> QED
    BY <1>1, <1>2, <1>3, <2>1, <2>2, <2>3, Zenon DEF SoundFor, Addressed, At, Owns
<1> QED
  BY <1>5, <1>6, <1>7, Zenon DEF Sound

\* The timeline of a step that creates it.
LEMMA NewSound ==
    ASSUME RegistryType, NameInv, Sound, NEW t \in Task, Moves(t), device_create(t)
    PROVE  Sound'
<1> DEFINE o == kzalloc
           i == idr_alloc
<1>1. o \in Nat /\ o \notin DOMAIN info /\ \A u \in Task : proc[u].ptr # o
  BY FreshAddress, Zenon DEF RegistryType
<1>2. i \in Nat /\ i \notin DOMAIN impl
  BY FreshIndex, Zenon DEF RegistryType
<1>3. /\ At(t, "register") /\ tree' = tree
      /\ proc' = [proc EXCEPT ![t].pc = "clock", ![t].ptr = o,
                              ![t].dev = [index |-> i, info |-> o]]
      /\ info' = Extend(info, o, [name |-> proc[t].name, index |-> i])
      /\ impl' = Extend(impl, i, [info |-> o, state |-> "node", files |-> {},
                                  bound |-> {}, list |-> <<>>])
  BY Zenon DEF device_create
<1> HIDE DEF o, i
<1>4. proc[t] \in Call_t
  BY Zenon DEF RegistryType
<1>5. proc'[t].pc = "clock" /\ proc'[t].ptr = o /\ proc'[t].dev = [index |-> i, info |-> o]
  BY <1>3, <1>4, Zenon DEF Call_t, RegistryType
<1>6. /\ DOMAIN info' = DOMAIN info \cup {o} /\ info'[o].index = i
      /\ \A q \in DOMAIN info : info'[q] = info[q]
  BY <1>1, <1>3, Zenon DEF Extend
<1>7. /\ DOMAIN impl' = DOMAIN impl \cup {i} /\ impl'[i].info = o /\ impl'[i].state = "node"
      /\ \A j \in DOMAIN impl : impl'[j] = impl[j]
  BY <1>2, <1>3, Zenon DEF Extend
<1>8. ASSUME NEW q \in DOMAIN info, NEW S, Own(q, S)
      PROVE  Own(q, S)'
  BY <1>6, <1>7, <1>8, Zenon DEF Own
<1>9. ASSUME NEW q, \E u \in Task : Erases(u, q)
      PROVE  \E u \in Task : Erases(u, q)'
  <2>1. PICK u \in Task : Erases(u, q)
    BY <1>9, Zenon
  <2>2. u # t
    BY <1>3, <2>1, Zenon DEF Erases, At
  <2> QED
    BY <2>1, <2>2, ErasersStay, Zenon
<1>10. TreeSound'
  BY <1>3, <1>8, <1>9, Zenon DEF Sound, TreeSound, RegistryType
<1>11. SoundFor(t)'
  <2>1. Own(proc[t].ptr, {"node"})'
    BY <1>5, <1>6, <1>7, Zenon DEF Own
  <2>2. Addressed(t)'
    BY <1>5, <1>6, Zenon DEF Addressed
  <2> QED
    BY <1>5, <2>1, <2>2, Zenon DEF SoundFor, At
<1>12. ASSUME NEW u \in Task \ {t}
       PROVE  SoundFor(u)'
  <2>1. SoundFor(u) /\ proc'[u] = proc[u] /\ Holds(u) /\ proc[u].ptr # o
    BY <1>1, Zenon DEF Sound, Moves, NameInv
  <2>2. Owns(u) => proc[u].ptr \in DOMAIN info
    BY <2>1, Zenon DEF Holds
  <2>3. ~ Freed(proc[u].ptr)' => proc[u].ptr \in DOMAIN info /\ ~ Freed(proc[u].ptr)
    BY <1>6, <2>1, Zenon DEF Freed
  <2> QED
    BY <1>6, <1>8, <1>9, <2>1, <2>2, <2>3, Zenon DEF SoundFor, Addressed, At, Owns
<1> QED
  BY <1>10, <1>11, <1>12, Zenon DEF Sound

-----------------------------------------------------------------------------
\* Timelines and their devices, step by step.

\* The steps of qot_timeline_create.
LEMMA CreationSound ==
    ASSUME RegistryType, NameInv, Sound, ~ fault, NEW t \in Task, Moves(t), Creation(t)
    PROVE  fault' \/ Sound'
<1>0. proc \in [Task -> Call_t] /\ SoundFor(t) /\ Holds(t)
  BY Zenon DEF RegistryType, NameInv, Sound
<1>0a. \A l \in {"open", "getinfo"} : Return(t, l) \in {"idle", l}
  BY Zenon DEF Return
<1>0b. Owns(t) => \A u \in Task \ {t} : Owns(u) => proc[u].ptr # proc[t].ptr
  BY Zenon DEF NameInv, Apart
<1>1. CASE create_find(t) \/ create_exists(t)
  <2>1. proc'[t].pc \in {"register", "copy", "open", "idle"}
    <3>1. CASE create_find(t)
      <4> DEFINE o == qot_timeline_find(proc[t].name)
      <4>1. o \in Nat \cup {Nil}
        BY FindProperties, Zenon
      <4>2. Point(t, IF o = Nil THEN "register" ELSE "copy", o)
        BY <3>1, Zenon DEF create_find
      <4> HIDE DEF o
      <4> QED
        BY <1>0, <4>1, <4>2, PointMoves, Zenon DEF Labels
    <3>2. CASE create_exists(t)
      <4>1. Point(t, Return(t, "open"), Nil)
        BY <3>2, Zenon DEF create_exists
      <4> QED
        BY <1>0, <1>0a, <4>1, PointMoves, Zenon DEF Labels
    <3> QED
      BY <1>1, <3>1, <3>2, Zenon
  <2>2. UNCHANGED <<info, tree, impl>> /\ ~ At(t, "erase")
    BY <1>1, Zenon DEF create_find, create_exists, kernel, At
  <2>3. SoundFor(t)' /\ Stable
    BY <2>1, <2>2, Zenon DEF SoundFor, At, Stable
  <2> QED
    BY <2>2, <2>3, QuietSound, Zenon
<1>2. CASE device_create(t)
  BY <1>2, NewSound, Zenon
<1>3. ASSUME NEW l \in {"clock", "init"}, NEW s \in {"clock", "ready"}, At(t, l),
             Advance(proc[t].dev, s), UNCHANGED <<info, tree>>, proc'[t].ptr = proc[t].ptr,
             \/ l = "clock" /\ s = "clock" /\ proc'[t].pc = "init" /\ proc'[t].dev = proc[t].dev
             \/ l = "init" /\ s = "ready" /\ proc'[t].pc = "insert"
      PROVE  fault' \/ Sound'
  <2> DEFINE p == proc[t].ptr
             i == info[p].index
             d == [impl[i] EXCEPT !.state = s]
  <2>1. Owns(t) /\ p \in DOMAIN info \ tree
    BY <1>0, <1>3, Zenon DEF Holds, Owns, At
  <2>2. i \in DOMAIN impl /\ impl[i].info = p /\ Addressed(t) /\ impl[i] \in DeviceRec
    BY <1>0, <1>3, Zenon DEF SoundFor, Own, At, RegistryType
  <2>3. proc[t].dev.index = i
    BY <2>2 DEF Addressed
  <2>4. fault' = TRUE \/ impl' = Put(i, d)
    BY <1>3, <2>3, AdvancePuts, Zenon
  <2>5. d.state = s /\ d.info = p /\ ~ Released(d)
    BY <1>3, <2>2, Zenon DEF DeviceRec, Released
  <2>6. CASE impl' = Put(i, d)
    <3>1. i \in DOMAIN impl' /\ impl'[i] = d
      BY <2>2, <2>5, <2>6, PutDevices, Zenon
    <3> HIDE DEF d
    <3>2. Own(proc[t].ptr, {s})'
      BY <1>3, <2>5, <3>1, Zenon DEF Own
    <3>3. proc'[t].pc = "init" => Addressed(t)'
      BY <1>3, <2>2, Zenon DEF Addressed
    <3>4. SoundFor(t)'
      BY <1>3, <3>2, <3>3, Zenon DEF SoundFor, At
    <3>5. ~ At(t, "erase")
      BY <1>3, Zenon DEF At
    <3>6. UNCHANGED <<info, tree>> /\ i \in DOMAIN impl /\ p = impl[i].info /\ p \notin tree
      BY <1>3, <2>1, <2>2, Zenon
    <3>7. \A u \in Task \ {t} : Owns(u) => proc[u].ptr # p
      BY <1>0b, <2>1, Zenon
    <3> HIDE DEF p, i
    <3> QED
      BY <2>6, <3>4, <3>5, <3>6, <3>7, PutSound
  <2> QED
    BY <2>4, <2>6, Zenon
<1>4. CASE posix_clock_register(t)
  <2>1. /\ At(t, "clock") /\ Advance(proc[t].dev, "clock") /\ Goto(t, "init")
        /\ UNCHANGED <<info, tree>>
    BY <1>4, Zenon DEF posix_clock_register
  <2>2. proc'[t].pc = "init" /\ proc'[t].dev = proc[t].dev /\ proc'[t].ptr = proc[t].ptr
    BY <1>0, <2>1, GotoMoves, Zenon DEF Labels
  <2> QED
    BY <1>3, <2>1, <2>2, Zenon
<1>5. CASE chdev_init(t)
  <2>1. /\ At(t, "init") /\ Advance(proc[t].dev, "ready") /\ Drive(t, "insert", Nil)
        /\ UNCHANGED <<info, tree>>
    BY <1>5, Zenon DEF chdev_init
  <2>2. proc'[t].pc = "insert" /\ proc'[t].ptr = proc[t].ptr
    BY <1>0, <2>1, DriveMoves, Zenon DEF Labels
  <2> QED
    BY <1>3, <2>1, <2>2, Zenon
<1>6. CASE qot_timeline_insert(t)
  <2>1. /\ At(t, "insert") /\ UNCHANGED <<info, impl>>
        /\ IF proc[t].name \in Names THEN Goto(t, "undo") /\ UNCHANGED tree ELSE Insert(t)
    BY <1>6, Zenon DEF qot_timeline_insert
  <2>2. Own(proc[t].ptr, {"ready"})
    BY <1>0, <2>1, Zenon DEF SoundFor, At
  <2>3. SoundFor(t)' /\ \A o \in tree' : o \in tree \/ Own(o, {"ready"})
    <3>1. CASE proc[t].name \in Names
      <4>1. proc'[t].pc = "undo" /\ proc'[t].ptr = proc[t].ptr /\ tree' = tree
        BY <1>0, <2>1, <3>1, GotoMoves, Zenon DEF Labels
      <4> QED
        BY <2>1, <2>2, <4>1, Zenon DEF SoundFor, At, Own
    <3>2. CASE proc[t].name \notin Names
      <4>1. /\ tree' = tree \cup {proc[t].ptr}
            /\ proc' = [proc EXCEPT ![t].pc = Return(t, "open"), ![t].ptr = Nil,
                                    ![t].index = info[proc[t].ptr].index]
        BY <2>1, <3>2, Zenon DEF Insert
      <4>2. proc'[t].pc \in {"idle", "open"}
        BY <1>0, <1>0a, <4>1, Zenon DEF Call_t
      <4> QED
        BY <2>2, <4>1, <4>2, Zenon DEF SoundFor, At
    <3> QED
      BY <3>1, <3>2, Zenon
  <2>4. Stable /\ ~ At(t, "erase")
    BY <2>1, Zenon DEF Stable, At
  <2> QED
    BY <2>1, <2>3, <2>4, QuietSound, Zenon
<1>7. CASE create_undo(t)
  <2> DEFINE i == info[proc[t].ptr].index
  <2>1. /\ At(t, "undo") /\ UNCHANGED <<info, tree, impl>>
        /\ IF Removable(i, FALSE) THEN Drive(t, "unplug", Pointer(i)) ELSE Goto(t, "drop")
    BY <1>7, Zenon DEF create_undo, kernel
  <2>2. Own(proc[t].ptr, {"ready"}) /\ proc[t].ptr \in DOMAIN info
    BY <1>0, <2>1, Zenon DEF SoundFor, At, Holds, Owns
  <2>3. Pointer(i) = [index |-> i, info |-> proc[t].ptr]
    BY <2>2, Zenon DEF Own, Pointer
  <2>3a. Pointer(i) \in [index : Nat, info : Nat]
    <3>1. info[proc[t].ptr] \in Timeline /\ proc[t].ptr \in Nat
      BY <2>2, Zenon DEF RegistryType
    <3>2. i \in Nat
      BY <3>1, Zenon DEF Timeline
    <3>3. [index |-> i, info |-> proc[t].ptr] \in [index : Nat, info : Nat]
      BY <3>1, <3>2, Zenon
    <3> QED
      BY <2>3, <3>3, Zenon
  <2>4. SoundFor(t)'
    <3>1. CASE Removable(i, FALSE)
      <4>1. Drive(t, "unplug", Pointer(i))
        BY <2>1, <3>1, Zenon
      <4>2. "unplug" \in Labels /\ Pointer(i) \in [index : Nat, info : Nat] \cup {Nil}
        BY <2>3a, Zenon DEF Labels
      <4>3. proc'[t].pc = "unplug" /\ proc'[t].ptr = proc[t].ptr /\ proc'[t].dev = Pointer(i)
        BY <1>0, <4>1, <4>2, DriveMoves, Zenon
      <4> QED
        BY <2>1, <2>2, <2>3, <4>3, Zenon DEF SoundFor, At, Own, Addressed
    <3>2. CASE ~ Removable(i, FALSE)
      <4>1. proc'[t].pc = "drop"
        BY <1>0, <2>1, <3>2, GotoMoves, Zenon DEF Labels
      <4> QED
        BY <4>1, Zenon DEF SoundFor, At
    <3> QED
      BY <3>1, <3>2, Zenon
  <2>5. Stable /\ ~ At(t, "erase")
    BY <2>1, Zenon DEF Stable, At
  <2> QED
    BY <2>1, <2>4, <2>5, QuietSound, Zenon
<1>8. CASE create_unregister(t)
  <2> DEFINE p == proc[t].ptr
             i == info[p].index
             d == [impl[i] EXCEPT !.state = "zombie"]
  <2>1. /\ At(t, "unplug") /\ Unregister(proc[t].dev) /\ Drive(t, "drop", Nil)
        /\ UNCHANGED <<info, tree>>
    BY <1>8, Zenon DEF create_unregister
  <2>2. Owns(t) /\ p \in DOMAIN info \ tree
    BY <1>0, <2>1, Zenon DEF Holds, Owns, At
  <2>3. i \in DOMAIN impl /\ impl[i].info = p /\ Addressed(t)
    BY <1>0, <2>1, Zenon DEF SoundFor, Own, At
  <2>4. proc[t].dev.index = i
    BY <2>3 DEF Addressed
  <2>5. fault' = TRUE \/ impl' = Put(i, d)
    BY <2>1, <2>4, UnregisterPuts, Zenon
  <2>6. proc'[t].pc = "drop"
    BY <1>0, <2>1, DriveMoves, Zenon DEF Labels
  <2>7. SoundFor(t)' /\ ~ At(t, "erase")
    BY <2>1, <2>6, Zenon DEF SoundFor, At
  <2>8. UNCHANGED <<info, tree>> /\ i \in DOMAIN impl /\ p = impl[i].info /\ p \notin tree
    BY <2>1, <2>2, <2>3, Zenon
  <2>9. \A u \in Task \ {t} : Owns(u) => proc[u].ptr # p
    BY <1>0b, <2>2, Zenon
  <2> HIDE DEF p, i, d
  <2> QED
    BY <2>5, <2>7, <2>8, <2>9, PutSound
<1>9. CASE create_fail(t)
  <2>1. /\ At(t, "drop") /\ UNCHANGED <<tree, impl>> /\ Point(t, Return(t, "getinfo"), Nil)
        /\ info' = Restrict(info, DOMAIN info \ {proc[t].ptr})
    BY <1>9, Zenon DEF create_fail, kfree
  <2>2. Owns(t) /\ tree' = tree \ {proc[t].ptr}
    BY <1>0, <2>1, Zenon DEF Holds, Owns, At
  <2>3. proc'[t].pc \in {"idle", "getinfo"}
    BY <1>0, <1>0a, <2>1, PointMoves, Zenon DEF Labels
  <2> QED
    BY <1>0b, <2>1, <2>2, <2>3, FreeSound, Zenon
<1> QED
  BY <1>1, <1>2, <1>4, <1>5, <1>6, <1>7, <1>8, <1>9, Zenon DEF Creation

\* The steps of qot_timeline_remove.
LEMMA RemovalSound ==
    ASSUME RegistryType, NameInv, Sound, ~ fault, NEW t \in Task, Moves(t), Removal(t)
    PROVE  fault' \/ Doomed' \/ Sound'
<1>0. proc \in [Task -> Call_t] /\ SoundFor(t) /\ Holds(t)
  BY DEF RegistryType, NameInv, Sound
<1>1. CASE remove_find(t)
  <2> DEFINE o == qot_timeline_find(proc[t].name)
  <2>1. o \in Nat \cup {Nil}
    BY FindProperties
  <2>2. /\ Point(t, IF o = Nil THEN "idle" ELSE "check", o) /\ At(t, "remove")
        /\ UNCHANGED <<info, tree, impl>>
    BY <1>1, Zenon DEF remove_find, kernel
  <2> HIDE DEF o
  <2>3. proc'[t].pc \in {"idle", "check"}
    BY <1>0, <2>1, <2>2, PointMoves, Zenon DEF Labels
  <2>4. SoundFor(t)' /\ Stable /\ ~ At(t, "erase")
    BY <2>2, <2>3, Zenon DEF SoundFor, At, Stable
  <2> QED
    BY <2>2, <2>4, QuietSound, Zenon
<1>2. CASE remove_check(t)
  <2> DEFINE p == proc[t].ptr
             i == info[p].index
  <2>1. /\ At(t, "check") /\ UNCHANGED <<info, tree, impl>> /\ fault' = Freed(p)
        /\ IF ~ fault' /\ Removable(i, t \in Admin)
           THEN Drive(t, "destroy", Pointer(i)) ELSE Point(t, "idle", Nil)
    BY <1>2, Zenon DEF remove_check
  <2>2. CASE ~ Freed(p) /\ Removable(i, t \in Admin)
    <3>1. Drive(t, "destroy", Pointer(i)) /\ i \in DOMAIN impl
      BY <2>1, <2>2, Zenon DEF Removable, Device
    <3>2. p \in tree /\ p \in Nat
      BY <1>0, <2>1, <2>2, Zenon DEF Holds, Found, At, Freed
    <3>3. Pointer(i) \in [index : Nat, info : Nat]
      BY <3>1, Zenon DEF Pointer, RegistryType, DeviceRec
    <3>3a. "destroy" \in Labels /\ Pointer(i) \in [index : Nat, info : Nat] \cup {Nil}
      BY <3>3, Zenon DEF Labels
    <3>4. proc'[t].pc = "destroy" /\ proc'[t].ptr = p /\ proc'[t].dev = Pointer(i)
      BY <1>0, <3>1, <3>3a, DriveMoves, Zenon
    <3>5. ASSUME Own(p, {"ready"})
          PROVE  SoundFor(t)'
      <4>1. Addressed(t)'
        BY <2>1, <3>4, <3>5, Zenon DEF Addressed, Own, Pointer
      <4> QED
        BY <2>1, <3>4, <4>1, Zenon DEF SoundFor, At
    <3>6. ASSUME \E u \in Task : Erases(u, p)
          PROVE  SoundFor(t)'
      <4>1. PICK u \in Task : Erases(u, p)
        BY <3>6, Zenon
      <4>2. u # t
        BY <2>1, <4>1, Zenon DEF Erases, At
      <4>3. Erases(u, proc[t].ptr)'
        BY <3>4, <4>1, <4>2, Zenon DEF Erases, At, Moves
      <4> QED
        BY <2>1, <3>4, <4>3, Zenon DEF SoundFor, At
    <3>7. SoundFor(t)'
      BY <3>2, <3>5, <3>6, Zenon DEF Sound, TreeSound
    <3>8. Stable /\ ~ At(t, "erase")
      BY <2>1, Zenon DEF At, Stable
    <3> QED
      BY <2>1, <3>7, <3>8, QuietSound, Zenon
  <2>3. CASE ~ Freed(p) /\ ~ Removable(i, t \in Admin)
    <3>1. proc'[t].pc = "idle"
      BY <1>0, <2>1, <2>3, PointMoves, Zenon DEF Labels
    <3>2. SoundFor(t)' /\ Stable /\ ~ At(t, "erase")
      BY <2>1, <3>1, Zenon DEF SoundFor, At, Stable
    <3> QED
      BY <2>1, <3>2, QuietSound, Zenon
  <2> QED
    BY <2>1, <2>2, <2>3, Zenon
<1>3. CASE remove_destroy(t)
  <2> DEFINE p == proc[t].ptr
             i == proc[t].dev.index
             d == [impl[i] EXCEPT !.state = "zombie"]
  <2>1. /\ At(t, "destroy") /\ Unregister(proc[t].dev) /\ Drive(t, "erase", Nil)
        /\ UNCHANGED <<info, tree>>
    BY <1>3, Zenon DEF remove_destroy
  <2>2. proc'[t].pc = "erase" /\ proc'[t].ptr = p
    BY <1>0, <2>1, DriveMoves, Zenon DEF Labels
  <2>3. CASE Freed(p)
    BY <2>1, <2>2, <2>3, Zenon DEF Doomed, At, Freed
  <2>4. CASE \E u \in Task : Erases(u, p)
    <3>1. PICK u \in Task : Erases(u, p)
      BY <2>4
    <3>2. u # t
      BY <2>1, <3>1, Zenon DEF Erases, At
    <3>3. Erases(u, proc[t].ptr)' /\ At(t, "erase")'
      BY <2>2, <3>1, <3>2, Zenon DEF Erases, At, Moves
    <3> QED
      BY <3>2, <3>3, Zenon DEF Doomed
  <2>5. CASE ~ Freed(p) /\ Addressed(t) /\ ~ fault'
    <3>1. i \in DOMAIN impl /\ ~ Dangling(proc[t].dev) /\ impl' = Put(i, d)
      BY <2>1, <2>5, UnregisterPuts, Zenon
    <3>2. impl[i].info = p
      BY <2>5, <3>1 DEF Addressed, Dangling
    <3>3. p \in tree
      BY <1>0, <2>1, <2>5, Zenon DEF Holds, Found, At, Freed
    <3>4. \A u \in Task \ {t} : Owns(u) => proc[u].ptr # p
      BY <3>3, Zenon DEF NameInv, Holds
    <3>5. Erases(t, p)' /\ SoundFor(t)' /\ ~ At(t, "erase")
      BY <2>1, <2>2, Zenon DEF Erases, SoundFor, At
    <3> HIDE DEF i, d
    <3>6. ASSUME NEW q, q = p
          PROVE  Sound'
      <4>1. Erases(t, q)'
        BY <2>2, <3>6, Zenon DEF Erases, At
      <4> HIDE DEF p
      <4> QED
        BY <2>1, <3>1, <3>2, <3>4, <3>5, <3>6, <4>1, PutSound
    <3> QED
      BY <3>6, Zenon
  <2> QED
    BY <1>0, <2>1, <2>3, <2>4, <2>5, Zenon DEF SoundFor
<1>4. CASE remove_erase(t)
  <2>1. /\ At(t, "erase") /\ UNCHANGED impl /\ Point(t, "idle", Nil)
        /\ fault' = Freed(proc[t].ptr) /\ tree' = tree \ {proc[t].ptr}
        /\ info' = Restrict(info, DOMAIN info \ {proc[t].ptr})
    BY <1>4, Zenon DEF remove_erase, kfree
  <2>2. proc'[t].pc = "idle"
    BY <1>0, <2>1, PointMoves, Zenon DEF Labels
  <2>3. CASE ~ Freed(proc[t].ptr)
    <3>1. proc[t].ptr \in tree
      BY <1>0, <2>1, <2>3, Zenon DEF Holds, Found, At, Freed
    <3>2. \A u \in Task \ {t} : Owns(u) => proc[u].ptr # proc[t].ptr
      BY <3>1, Zenon DEF NameInv, Holds
    <3> QED
      BY <2>1, <2>2, <3>2, FreeSound, Zenon
  <2> QED
    BY <2>1, <2>3, Zenon
<1> QED
  BY <1>1, <1>2, <1>3, <1>4, Zenon DEF Removal

\* A call, and the steps of timeline_bind and timeline_unbind.
LEMMA BindingSound ==
    ASSUME RegistryType, NameInv, BindInv, Sound, NEW t \in Task, Moves(t),
           (\E n \in Name : Calls(t, n)) \/ Binding(t)
    PROVE  Sound'
<1> DEFINE Rest == {"find", "remove", "failed", "info", "open", "join", "list", "bound",
                    "untie", "close", "ended"}
<1>0. proc \in [Task -> Call_t] /\ proc[t] \in Call_t
  BY Zenon DEF RegistryType
<1>1. UNCHANGED <<info, tree>> /\ ~ At(t, "erase") /\ proc'[t].pc \in Rest
  <2>1. ASSUME NEW n \in Name, Calls(t, n)
        PROVE  UNCHANGED <<info, tree>> /\ ~ At(t, "erase") /\ proc'[t].pc \in Rest
    <3>1. PICK l \in {"find", "remove"} : Call(t, n, l)
      BY <2>1, Zenon DEF Calls, timeline_bind, timeline_create_store, timeline_remove_store
    <3> QED
      BY <1>0, <3>1, Zenon DEF Call, kernel, Call_t, At
  <2>2. CASE get_info(t) \/ get_info_copy(t)
    BY <1>0, <2>2 DEF get_info, get_info_copy, Point, kernel, Call_t, At
  <2>3. CASE \/ open(t) \/ BIND_JOIN(t) \/ BIND_UPDATE(t) \/ BIND_LEAVE(t) \/ leave_tree(t)
             \/ unbind_close(t) \/ exit(t) \/ \E d \in Demand : insert_lists(t, d)
    <3>1. /\ \E l \in Rest : Goto(t, l)
          /\ UNCHANGED <<info, tree>> /\ ~ At(t, "erase")
      BY <2>3, Zenon DEF open, BIND_JOIN, BIND_UPDATE, BIND_LEAVE, leave_tree, unbind_close,
                         exit, insert_lists, ChangeLists, kernel, At
    <3> QED
      BY <1>0, <3>1, Zenon DEF Goto, Call_t
  <2> QED
    BY <2>1, <2>2, <2>3, Zenon DEF Binding
<1>2. SoundFor(t)'
  BY <1>1, Zenon DEF SoundFor, At
<1> QED
  BY <1>1, <1>2, BindingBind, QuietSound, Zenon

\* Who erases a timeline goes on with that.
LEMMA EraserErases ==
    ASSUME NEW t \in Task, Steps(t), At(t, "erase")
    PROVE  remove_erase(t)
<1>1. ~ \E n \in Name : Calls(t, n)
  BY Zenon DEF Calls, timeline_bind, timeline_create_store, timeline_remove_store, Call, At
<1>2. ~ Creation(t)
  BY Zenon DEF Creation, create_find, create_exists, device_create, posix_clock_register,
               chdev_init, qot_timeline_insert, create_undo, create_unregister, create_fail,
               At
<1>3. ~ Binding(t)
  BY Zenon DEF Binding, get_info, get_info_copy, open, BIND_JOIN, insert_lists, ChangeLists,
               BIND_UPDATE, BIND_LEAVE, leave_tree, unbind_close, exit, At
<1>4. Removal(t)
  BY <1>1, <1>2, <1>3, Zenon DEF Steps
<1> QED
  BY <1>4, Zenon DEF Removal, remove_find, remove_check, remove_destroy, At

\* Memory that is freed while a task has its address stays freed.
LEMMA StaysFreed ==
    ASSUME RegistryType, NEW t \in Task, Steps(t), NEW w \in Task, Freed(proc[w].ptr)
    PROVE  proc[w].ptr \notin DOMAIN info'
<1> DEFINE p == proc[w].ptr
<1>1. p \notin DOMAIN info
  BY Zenon DEF Freed
<1>2. CASE device_create(t)
  <2>1. DOMAIN info' = DOMAIN info \cup {kzalloc}
    BY <1>2, Zenon DEF device_create, Extend
  <2>2. p # kzalloc
    BY FreshAddress, Zenon DEF RegistryType
  <2> QED
    BY <1>1, <2>1, <2>2, Zenon
<1>3. CASE create_fail(t) \/ remove_erase(t)
  <2>1. \E o : info' = Restrict(info, DOMAIN info \ {o})
    BY <1>3, Zenon DEF create_fail, remove_erase, kfree
  <2>2. DOMAIN info' \subseteq DOMAIN info
    BY <2>1, Zenon DEF Restrict
  <2> QED
    BY <1>1, <2>2, Zenon
<1>4. CASE \/ create_find(t) \/ create_exists(t) \/ posix_clock_register(t) \/ chdev_init(t)
           \/ qot_timeline_insert(t) \/ create_undo(t) \/ create_unregister(t)
           \/ remove_find(t) \/ remove_check(t) \/ remove_destroy(t)
  <2>1. UNCHANGED info
    BY <1>4, Zenon DEF create_find, create_exists, posix_clock_register, chdev_init,
                       qot_timeline_insert, create_undo, create_unregister, remove_find,
                       remove_check, remove_destroy, kernel
  <2> QED
    BY <1>1, <2>1, Zenon
<1>5. CASE (\E n \in Name : Calls(t, n)) \/ Binding(t)
  <2>1. UNCHANGED info
    BY <1>5, Zenon DEF Calls, timeline_bind, timeline_create_store, timeline_remove_store,
                       Call, kernel, Binding, get_info, get_info_copy, open, BIND_JOIN,
                       insert_lists, ChangeLists, BIND_UPDATE, BIND_LEAVE, leave_tree, unbind_close, exit
  <2> QED
    BY <1>1, <2>1
<1> QED
  BY <1>2, <1>3, <1>4, <1>5, Zenon DEF Steps, Creation, Removal

\* Two tasks that erase one timeline end in a fault.
LEMMA DoomedStays ==
    ASSUME RegistryType, ~ fault, NEW t \in Task, Moves(t), Steps(t), Doomed
    PROVE  fault' \/ Doomed'
<1>0. At(t, "erase") => /\ fault' = Freed(proc[t].ptr)
                        /\ proc[t].ptr \notin DOMAIN info'
  BY EraserErases, Zenon DEF remove_erase, kfree, Restrict
<1>1. ASSUME NEW w \in Task, At(w, "erase"), Freed(proc[w].ptr)
      PROVE  fault' \/ Doomed'
  <2>1. CASE w = t
    BY <1>0, <1>1, <2>1, Zenon
  <2>2. CASE w # t
    <3>1. At(w, "erase")' /\ Freed(proc[w].ptr)'
      BY <1>1, <2>2, StaysFreed, Zenon DEF At, Freed, Moves
    <3> QED
      BY <3>1, Zenon DEF Doomed
  <2> QED
    BY <2>1, <2>2, Zenon
<1>2. ASSUME NEW w \in Task, NEW u \in Task \ {w}, At(w, "erase"), Erases(u, proc[w].ptr)
      PROVE  fault' \/ Doomed'
  <2>1. At(u, "erase") /\ proc[u].ptr = proc[w].ptr
    BY <1>2, Zenon DEF Erases
  <2>2. ASSUME NEW v \in Task \ {t}, At(v, "erase"), At(t, "erase"), proc[v].ptr = proc[t].ptr
        PROVE  Doomed'
    <3>1. At(v, "erase")' /\ Freed(proc[v].ptr)'
      BY <1>0, <2>2, Zenon DEF At, Freed, Moves
    <3> QED
      BY <3>1, Zenon DEF Doomed
  <2>3. CASE w = t \/ u = t
    BY <1>2, <2>1, <2>2, <2>3, Zenon
  <2>4. CASE w # t /\ u # t
    <3>1. At(w, "erase")' /\ Erases(u, proc[w].ptr)'
      BY <1>2, <2>1, <2>4, Zenon DEF At, Erases, Moves
    <3> QED
      BY <3>1, Zenon DEF Doomed
  <2> QED
    BY <2>3, <2>4, Zenon
<1> QED
  BY <1>1, <1>2, Zenon DEF Doomed

-----------------------------------------------------------------------------
\* The invariant of the registry.

InfoType == /\ IsFiniteSet(DOMAIN info) /\ DOMAIN info \subseteq Nat
            /\ \A o \in DOMAIN info : info[o] \in Timeline
            /\ tree \subseteq DOMAIN info

\* The steps that leave the timelines alone.
LEMMA QuietSteps ==
    ASSUME NEW t \in Task, Steps(t), ~ device_create(t), ~ create_fail(t), ~ remove_erase(t),
           ~ qot_timeline_insert(t)
    PROVE  UNCHANGED <<info, tree>>
<1>1. CASE Creation(t) \/ Removal(t)
  BY <1>1, Zenon DEF Creation, Removal, create_find, create_exists, posix_clock_register,
                     chdev_init, create_undo, create_unregister, remove_find, remove_check,
                     remove_destroy, kernel
<1>2. CASE (\E n \in Name : Calls(t, n)) \/ Binding(t)
  BY <1>2, Zenon DEF Calls, timeline_bind, timeline_create_store, timeline_remove_store,
                     Call, kernel, Binding, get_info, get_info_copy, open, BIND_JOIN,
                     insert_lists, ChangeLists, BIND_UPDATE, BIND_LEAVE, leave_tree, unbind_close, exit
<1> QED
  BY <1>1, <1>2, Zenon DEF Steps

LEMMA InfoStep ==
    ASSUME RegistryType, NameInv, NEW t \in Task, Steps(t)
    PROVE  InfoType'
<1>0. InfoType /\ Holds(t)
  BY Zenon DEF RegistryType, InfoType, NameInv
<1>1. CASE device_create(t)
  <2> DEFINE o == kzalloc
             i == idr_alloc
  <2>1. o \in Nat /\ i \in Nat
    BY FreshAddress, FreshIndex, Zenon DEF RegistryType
  <2>2. /\ At(t, "register") /\ tree' = tree
        /\ info' = Extend(info, o, [name |-> proc[t].name, index |-> i])
    BY <1>1, Zenon DEF device_create
  <2> HIDE DEF o, i
  <2>3. DOMAIN info' = DOMAIN info \cup {o}
    BY <2>2, Zenon DEF Extend
  <2>4. IsFiniteSet(DOMAIN info')
    BY <1>0, <2>3, FS_AddElement, Zenon DEF InfoType
  <2>5. proc[t].name \in Name
    BY <1>0, <2>2, Zenon DEF Holds, At
  <2>6. \A q \in DOMAIN info' : info'[q] \in Timeline
    BY <1>0, <2>1, <2>2, <2>5, Zenon DEF Extend, InfoType, Timeline
  <2> QED
    BY <1>0, <2>1, <2>2, <2>3, <2>4, <2>6, Zenon DEF InfoType
<1>2. CASE create_fail(t) \/ remove_erase(t)
  <2>1. /\ info' = Restrict(info, DOMAIN info \ {proc[t].ptr})
        /\ tree' = tree \ {proc[t].ptr}
    <3>1. CASE create_fail(t)
      BY <1>0, <3>1, Zenon DEF create_fail, kfree, Holds, Owns, At
    <3>2. CASE remove_erase(t)
      BY <3>2, Zenon DEF remove_erase, kfree
    <3> QED
      BY <1>2, <3>1, <3>2, Zenon
  <2>2. /\ DOMAIN info' = DOMAIN info \ {proc[t].ptr}
        /\ \A q \in DOMAIN info' : info'[q] = info[q]
    BY <2>1, Zenon DEF Restrict
  <2>3. IsFiniteSet(DOMAIN info')
    BY <1>0, <2>2, FS_Subset, Zenon DEF InfoType
  <2> QED
    BY <1>0, <2>1, <2>2, <2>3, Zenon DEF InfoType
<1>3. CASE qot_timeline_insert(t)
  BY <1>0, <1>3, Zenon DEF qot_timeline_insert, Insert, InfoType, Holds, Owns, At
<1>4. CASE UNCHANGED <<info, tree>>
  BY <1>0, <1>4, Zenon DEF InfoType
<1> QED
  BY <1>1, <1>2, <1>3, <1>4, QuietSteps, Zenon

LEMMA FaultStep ==
    ASSUME fault \in BOOLEAN, NEW t \in Task, Steps(t)
    PROVE  fault' \in BOOLEAN
<1>1. CASE Creation(t)
  BY <1>1, Zenon DEF Creation, create_find, create_exists, device_create,
                     posix_clock_register, chdev_init, qot_timeline_insert, create_undo,
                     create_unregister, create_fail, Advance, Unregister, Freed, kernel
<1>2. CASE Removal(t)
  BY <1>2, Zenon DEF Removal, remove_find, remove_check, remove_destroy, remove_erase,
                     Unregister, Freed, kernel
<1>3. CASE (\E n \in Name : Calls(t, n)) \/ Binding(t)
  BY <1>3, Zenon DEF Calls, timeline_bind, timeline_create_store, timeline_remove_store,
                     Call, kernel, Binding, get_info, get_info_copy, open, BIND_JOIN,
                     insert_lists, ChangeLists, BIND_UPDATE, BIND_LEAVE, leave_tree, unbind_close, exit,
                     Outcome, Freed
<1> QED
  BY <1>1, <1>2, <1>3, Zenon DEF Steps

RInv == RegistryType /\ NameInv /\ BindInv /\ SoundInv

LEMMA RegistryInit ==
    Init => RInv
<1> SUFFICES ASSUME Init
             PROVE  RInv
  BY Zenon
<1>1. /\ DOMAIN info = {} /\ DOMAIN impl = {} /\ tree = {} /\ fault = FALSE
      /\ \A t \in Task : proc[t].pc = "idle"
      /\ proc \in [Task -> Call_t]
  <2>1. DOMAIN info = {} /\ DOMAIN impl = {} /\ tree = {} /\ fault = FALSE
    BY DEF Init
  <2>2. \A t \in Task : proc[t].pc = "idle"
    BY Zenon DEF Init
  <2>3. \A t \in Task : proc[t] \in Call_t
    BY RegistryAssumption, Zenon DEF Init, Call_t, Labels
  <2>4. proc \in [Task -> Call_t]
    BY <2>3, Zenon DEF Init
  <2> QED
    BY <2>1, <2>2, <2>4, Zenon
<1>2. RegistryType
  BY <1>1, FS_EmptySet, Zenon DEF RegistryType
<1>3. NameInv
  BY <1>1, Zenon DEF NameInv, NamesUnique, Apart, Holds, Owns, Found
<1>4. BindInv
  BY <1>1, Zenon DEF BindInv, OneFile
<1>5. SoundInv
  BY <1>1, Zenon DEF SoundInv, Sound, TreeSound, SoundFor, At
<1> QED
  BY <1>2, <1>3, <1>4, <1>5, Zenon DEF RInv

LEMMA RegistryMoves ==
    ASSUME RInv, NEW t \in Task, Steps(t)
    PROVE  RInv'
<1>0. RegistryType /\ NameInv /\ BindInv /\ SoundInv /\ ~ fault
  BY Zenon DEF RInv, Steps
<1>1. Moves(t) /\ NameInv'
  BY <1>0, CreationNames, RemovalNames, BindingNames, Zenon DEF Steps
<1>2. BindInv' /\ ImplType'
  BY <1>0, <1>1, CreationBind, BindingBind, Zenon DEF Steps
<1>3. RegistryType'
  <2>1. InfoType' /\ fault' \in BOOLEAN
    BY <1>0, InfoStep, FaultStep, Zenon DEF RegistryType
  <2> QED
    BY <1>1, <1>2, <2>1, Zenon DEF RegistryType, InfoType, ImplType, Moves
<1>4. fault' \/ Doomed' \/ Sound'
  <2>1. CASE Doomed
    BY <1>0, <1>1, <2>1, DoomedStays, Zenon
  <2>2. CASE Sound
    BY <1>0, <1>1, <2>2, CreationSound, RemovalSound, BindingSound, Zenon DEF Steps
  <2> QED
    BY <1>0, <2>1, <2>2, Zenon DEF SoundInv
<1> QED
  BY <1>1, <1>2, <1>3, <1>4, Zenon DEF RInv, SoundInv

\* The steps of the user device that leave the registry alone.
LEMMA RegistryRests ==
    ASSUME RInv, UNCHANGED <<info, tree, impl, proc>>, fault' \in BOOLEAN, fault => fault'
    PROVE  RInv'
<1>1. RegistryType' /\ NameInv'
  BY Zenon DEF RInv, RegistryType, NameInv, NamesUnique, Apart, Holds, Owns, Found
<1>2. BindInv'
  BY Zenon DEF RInv, BindInv, OneFile, Tie, Using, Gap
<1>3. Doomed => Doomed'
  BY Zenon DEF Doomed, Erases, At, Freed
<1>4. Sound => Sound'
  <2>1. \A o, S : Own(o, S)' <=> Own(o, S)
    BY Zenon DEF Own
  <2>2. \A t \in Task : Addressed(t)' <=> Addressed(t)
    BY Zenon DEF Addressed
  <2>3. TreeSound => TreeSound'
    BY <2>1, Zenon DEF TreeSound, Erases, At
  <2>4. \A t \in Task : SoundFor(t) => SoundFor(t)'
    BY <2>1, <2>2, Zenon DEF SoundFor, Erases, At, Freed
  <2> QED
    BY <2>3, <2>4, Zenon DEF Sound
<1> QED
  BY <1>1, <1>2, <1>3, <1>4, Zenon DEF RInv, SoundInv

-----------------------------------------------------------------------------
\* The user device.

\* Where an administrator can be.
AdminLabels == {"idle", "find", "copy", "register", "clock", "init", "insert", "undo", "unplug",
                "drop", "remove", "check", "destroy", "erase"}

\* Who is in a call has a connection, or is an administrator.
Place(t) ==
    /\ t \in Admin => proc[t].pc \in AdminLabels
    /\ proc[t].pc \notin {"idle", "ended"} => usr[t] = "used" \/ t \in Admin

Walk == [con : Task, name : Name, of : SUBSET tree]

DeviceType ==
    /\ usr \in [Task -> {"closed", "inserted", "open", "used"}]
    /\ queue \in [Task -> Seq(Name)]
    /\ event_flag \in [Task -> BOOLEAN]
    /\ taking \in [Task -> {"no", "empty", "mid", "raced"}]
    /\ cut \cup overlooked \cup {t \in Task : taking[t] # "no"} \subseteq Connections
    /\ told \in [Task -> SUBSET tree]
    /\ announced \subseteq tree
    /\ walk \in [Task -> {Nil} \cup Walk]

Reached(c) == usr[c] \in {"open", "used"}

\* The connections that an announcement has passed have been told.
Passed ==
    \A s, c \in Task : /\ walk[s] # Nil /\ Reached(c)
                       /\ Address[c] < Address[walk[s].con]
                       => walk[s].of \subseteq told[c]

Completed == \A c \in Task : Reached(c) => announced \subseteq told[c]

DInv == /\ RInv /\ DeviceType /\ Passed /\ Completed /\ PollReports
        /\ \A t \in Task : Place(t)

\* An administrator stays outside of timeline_bind, and who has ended takes no step.
LEMMA PlaceSteps ==
    ASSUME RInv, NEW t \in Task, Steps(t), t \in Admin => proc[t].pc \in AdminLabels
    PROVE  ~ At(t, "ended") /\ (t \in Admin => proc'[t].pc \in AdminLabels)
<1>0. RegistryType /\ proc[t] \in Call_t /\ proc \in [Task -> Call_t]
  BY Zenon DEF RInv, RegistryType
<1>1. ASSUME NEW n \in Name, Calls(t, n)
      PROVE  ~ At(t, "ended") /\ proc'[t].pc \in AdminLabels
  <2>1. PICK l \in {"find", "remove"} : Call(t, n, l)
    BY <1>1, Zenon DEF Calls, timeline_bind, timeline_create_store, timeline_remove_store
  <2> QED
    BY <1>0, <2>1, Zenon DEF Call, Call_t, At, AdminLabels
<1>2. CASE Creation(t)
  <2>1. ~ At(t, "ended")
    BY <1>2, Zenon DEF Creation, create_find, create_exists, device_create,
                       posix_clock_register, chdev_init, qot_timeline_insert, create_undo,
                       create_unregister, create_fail, At
  <2>2. CASE create_find(t) \/ create_exists(t) \/ create_fail(t)
    BY <1>0, <2>1, <2>2 DEF create_find, create_exists, create_fail, Point, Return, Call_t,
                            AdminLabels
  <2>3. CASE posix_clock_register(t) \/ chdev_init(t) \/ create_undo(t) \/ create_unregister(t)
    <3>1. PICK l \in {"init", "insert", "unplug", "drop"} : Goto(t, l) \/ \E d : Drive(t, l, d)
      BY <2>3, Zenon DEF posix_clock_register, chdev_init, create_undo, create_unregister
    <3>2. proc'[t].pc = l
      BY <1>0, <3>1, Zenon DEF Goto, Drive, Call_t
    <3> QED
      BY <2>1, <3>2, Zenon DEF AdminLabels
  <2>4. CASE device_create(t)
    BY <1>0, <2>1, <2>4, Zenon DEF device_create, Call_t, AdminLabels
  <2>5. CASE qot_timeline_insert(t)
    BY <1>0, <2>1, <2>5 DEF qot_timeline_insert, Insert, Goto, Return, Call_t, AdminLabels
  <2> QED
    BY <1>2, <2>2, <2>3, <2>4, <2>5, Zenon DEF Creation
<1>3. CASE Removal(t)
  BY <1>0, <1>3 DEF Removal, remove_find, remove_check, remove_destroy, remove_erase, Goto,
                    Point, Drive, Call_t, At, AdminLabels
<1>4. CASE Binding(t)
  BY <1>4, Zenon DEF Binding, get_info, get_info_copy, open, BIND_JOIN, insert_lists, ChangeLists,
                     BIND_UPDATE, BIND_LEAVE, leave_tree, unbind_close, exit, At, AdminLabels
<1> QED
  BY <1>1, <1>2, <1>3, <1>4, Zenon DEF Steps

\* A step puts a timeline into the tree only at the end of a creation.
LEMMA Creates ==
    ASSUME RInv, NEW t \in Task, Steps(t), tree' \ tree # {}
    PROVE  At(t, "insert") /\ proc[t].name \in Name
<1>1. qot_timeline_insert(t)
  <2>1. CASE device_create(t) \/ create_fail(t) \/ remove_erase(t)
    BY <2>1, Zenon DEF device_create, create_fail, remove_erase
  <2> QED
    BY <2>1, QuietSteps, Zenon
<1>2. At(t, "insert") /\ Holds(t)
  BY <1>1, Zenon DEF qot_timeline_insert, RInv, NameInv
<1> QED
  BY <1>2, Zenon DEF Holds, At

\* Of some connections, one has the least address.
LEMMA LeastAddress ==
    ASSUME NEW S \in SUBSET Task, S # {}
    PROVE  \E c \in S : \A d \in S : Address[c] <= Address[d]
<1> DEFINE T == {Address[d] : d \in S}
<1>1. T \subseteq Nat /\ T # {}
  BY DeviceAssumption, Zenon
<1>2. Min(T) \in T /\ \A y \in T : Min(T) <= y
  BY <1>1, MinNat, Zenon
<1> QED
  BY <1>2, Zenon

\* Where a walk over the connections begins, and where it goes on.
LEMMA FirstConnection ==
    ASSUME Connections # {}
    PROVE  rb_first \in Connections /\ \A d \in Connections : Address[rb_first] <= Address[d]
<1>1. \E c \in Connections : \A d \in Connections : Address[c] <= Address[d]
  BY LeastAddress, Zenon DEF Connections
<1> HIDE DEF Connections
<1> QED
  BY <1>1, Zenon DEF rb_first

LEMMA NextConnection ==
    ASSUME NEW c \in Task
    PROVE  \/ rb_next(c) = Nil /\ \A d \in Connections : Address[d] <= Address[c]
           \/ /\ rb_next(c) \in Connections
              /\ \A d \in Connections : Address[d] < Address[rb_next(c)] =>
                                           Address[d] <= Address[c]
<1> DEFINE after == {d \in Connections : Address[d] > Address[c]}
<1>0. Connections \subseteq Task /\ \A d \in Task : Address[d] \in Nat
  BY DeviceAssumption, Zenon DEF Connections
<1>1. CASE after = {}
  <2>1. rb_next(c) = Nil
    BY <1>1, Zenon DEF rb_next
  <2>2. \A d \in Connections : ~ (Address[d] > Address[c])
    BY <1>1, Zenon
  <2> QED
    BY <1>0, <2>1, <2>2
<1>2. CASE after # {}
  <2>1. \E d \in after : \A e \in after : Address[d] <= Address[e]
    BY <1>0, <1>2, LeastAddress, Zenon
  <2>2. rb_next(c) = CHOOSE d \in after : \A e \in after : Address[d] <= Address[e]
    BY <1>2, Zenon DEF rb_next
  <2> DEFINE n == rb_next(c)
  <2>3. n \in after /\ \A e \in after : Address[n] <= Address[e]
    <3> HIDE DEF after
    <3> QED
      BY <2>1, <2>2, Zenon
  <2> HIDE DEF n
  <2>4. \A d \in Connections : Address[d] < Address[n] => ~ (Address[d] > Address[c])
    BY <1>0, <2>3
  <2> QED
    BY <1>0, <2>3, <2>4 DEF n
<1> QED
  BY <1>1, <1>2, Zenon

\* The timelines in some order are as many as there are.
LEMMA InOrderNames ==
    ASSUME RInv
    PROVE  InOrder(Names) \in Seq(Name) /\ (Names = {} => InOrder(Names) = <<>>)
<1>0. RegistryType
  BY Zenon DEF RInv
<1>1. Names \subseteq Name
  BY <1>0, Zenon DEF Names, RegistryType, Timeline
<1>2. IsFiniteSet(Names)
  <2>1. IsFiniteSet(tree)
    BY <1>0, FS_Subset, Zenon DEF RegistryType
  <2> DEFINE f == [o \in tree |-> info[o].name]
  <2>2. f \in Surjection(tree, Names)
    BY Zenon DEF Surjection, Names
  <2> QED
    BY <2>1, <2>2, FS_Surjection, Zenon
<1> DEFINE n == Cardinality(Names)
           P(s) == s \in [1 .. n -> Names] /\ IsInjective(s)
<1>3. n \in Nat
  BY <1>2, FS_CardinalityType, Zenon
<1>4. \E s : P(s)
  <2>1. ExistsBijection(1 .. n, Names)
    BY <1>2, FS_NatBijection, FS_CountingElements, Zenon
  <2>2. PICK s : s \in Bijection(1 .. n, Names)
    BY <2>1, Zenon DEF ExistsBijection
  <2> QED
    BY <2>2, Zenon DEF Bijection, Injection, IsInjective
<1>5. InOrder(Names) = CHOOSE s \in [1 .. n -> Names] : IsInjective(s)
  BY Zenon DEF InOrder
<1>6. InOrder(Names) \in [1 .. n -> Names]
  BY <1>4, <1>5, Zenon
<1>7. Names = {} => n = 0
  BY FS_EmptySet, Zenon
<1> HIDE DEF n
<1>8. InOrder(Names) \in Seq(Name)
  BY <1>1, <1>3, <1>6
<1>9. Names = {} => InOrder(Names) = <<>>
  BY <1>6, <1>7
<1> QED
  BY <1>8, <1>9, Zenon

LEMMA DeviceStart ==
    DeviceInit => DInv
<1> SUFFICES ASSUME DeviceInit
             PROVE  DInv
  OBVIOUS
<1>1. RInv /\ \A t \in Task : proc[t].pc = "idle"
  BY RegistryInit, Zenon DEF DeviceInit, Init
<1>2. DeviceType
  BY DEF DeviceInit, DeviceType, Init
<1>3. Passed /\ Completed /\ PollReports
  BY Zenon DEF DeviceInit, Passed, Completed, PollReports, Reached
<1>4. \A t \in Task : Place(t)
  BY <1>1, Zenon DEF Place, AdminLabels
<1> QED
  BY <1>1, <1>2, <1>3, <1>4, Zenon DEF DInv

\* The steps that open and close a connection.
LEMMA OpenStep ==
    ASSUME DInv, NEW t \in Task, usr_open(t)
    PROVE  DInv'
<1>1. /\ At(t, "idle") /\ usr[t] = "closed" /\ usr' = [usr EXCEPT ![t] = "inserted"]
      /\ fault' \in BOOLEAN /\ ~ fault /\ UNCHANGED <<info, tree, impl, proc>>
      /\ UNCHANGED <<queue, event_flag, walk, taking, cut, overlooked, told, announced>>
  BY Zenon DEF usr_open, Opens, Clash
<1>2. RInv'
  BY <1>1, RegistryRests, Zenon DEF DInv
<1>3. DeviceType'
  BY <1>1, Zenon DEF DInv, DeviceType, Walk, Connections
<1>4. \A c \in Task : Reached(c)' => Reached(c)
  BY <1>1, Zenon DEF DInv, DeviceType, Reached
<1>5. Passed' /\ Completed' /\ PollReports'
  BY <1>1, <1>4, Zenon DEF DInv, Passed, Completed, PollReports
<1>6. \A u \in Task : Place(u)'
  BY <1>1, Zenon DEF DInv, DeviceType, Place, At
<1> QED
  BY <1>2, <1>3, <1>5, <1>6, Zenon DEF DInv

LEMMA AnnounceStep ==
    ASSUME DInv, NEW t \in Task, usr_announce(t)
    PROVE  DInv'
<1> DEFINE more == InOrder(Names)
           some == Names # {}
<1>0. DeviceType /\ RInv
  BY Zenon DEF DInv
<1>1. /\ usr[t] = "inserted" /\ usr' = [usr EXCEPT ![t] = "open"]
      /\ queue' = [queue EXCEPT ![t] = @ \o more]
      /\ event_flag' = [event_flag EXCEPT ![t] = @ \/ some]
      /\ told' = [told EXCEPT ![t] = @ \cup tree]
      /\ UNCHANGED <<info, tree, impl, fault, proc>>
      /\ UNCHANGED <<walk, taking, cut, overlooked, announced>>
  BY Zenon DEF usr_announce, vars, kernel
<1>2. RInv'
  BY <1>0, <1>1, RegistryRests, Zenon DEF RInv, RegistryType
<1>3. more \in Seq(Name) /\ (~ some => more = <<>>) /\ some \in BOOLEAN
  BY <1>0, InOrderNames, Zenon
<1> HIDE DEF more, some
<1>4. DeviceType'
  <2>1. queue' \in [Task -> Seq(Name)]
    BY <1>0, <1>1, <1>3 DEF DeviceType
  <2>2. event_flag' \in [Task -> BOOLEAN]
    BY <1>0, <1>1, <1>3, Zenon DEF DeviceType
  <2>3. /\ usr' \in [Task -> {"closed", "inserted", "open", "used"}]
        /\ Connections' = Connections
    BY <1>0, <1>1, Zenon DEF DeviceType, Connections
  <2>4. told' \in [Task -> SUBSET tree']
    BY <1>0, <1>1, Zenon DEF DeviceType
  <2> QED
    BY <1>0, <1>1, <2>1, <2>2, <2>3, <2>4, Zenon DEF DeviceType, Walk
<1>5. \A c \in Task : /\ c # t => told'[c] = told[c] /\ (Reached(c)' <=> Reached(c))
                      /\ c = t => tree \subseteq told'[c]
  BY <1>0, <1>1, Zenon DEF DeviceType, Reached
<1>6. Passed'
  <2> SUFFICES ASSUME NEW s \in Task, NEW c \in Task, walk[s] # Nil, Reached(c)',
                      Address[c] < Address[walk[s].con]
               PROVE  walk[s].of \subseteq told'[c]
    BY <1>1, Zenon DEF Passed
  <2>1. CASE c = t
    BY <1>0, <1>5, <2>1, Zenon DEF DeviceType, Walk
  <2>2. CASE c # t
    BY <1>5, <2>2, Zenon DEF DInv, Passed
  <2> QED
    BY <2>1, <2>2, Zenon
<1>7. Completed'
  BY <1>0, <1>1, <1>5, Zenon DEF DInv, Completed, DeviceType
<1>8. PollReports'
  <2> SUFFICES ASSUME NEW c \in Task, queue'[c] # <<>>
               PROVE  event_flag'[c] = TRUE \/ c \in overlooked'
    BY Zenon DEF PollReports
  <2>1. \A d \in Task : queue[d] # <<>> => event_flag[d] = TRUE \/ d \in overlooked
    BY <1>0, Zenon DEF DInv, PollReports, DeviceType
  <2>2. CASE c # t
    BY <1>0, <1>1, <2>1, <2>2, Zenon DEF DeviceType
  <2>3. CASE c = t
    <3>1. queue'[t] = queue[t] \o more /\ event_flag'[t] = (event_flag[t] \/ some)
      BY <1>0, <1>1, Zenon DEF DeviceType
    <3>2. CASE some
      BY <2>3, <3>1, <3>2, Zenon
    <3>3. CASE ~ some
      <4>1. queue'[t] = queue[t]
        BY <1>0, <1>3, <3>1, <3>3 DEF DeviceType
      <4> QED
        BY <1>1, <2>1, <2>3, <3>1, <4>1, Zenon
    <3> QED
      BY <3>2, <3>3, Zenon
  <2> QED
    BY <2>2, <2>3, Zenon
<1>9. \A u \in Task : Place(u)'
  BY <1>0, <1>1, Zenon DEF DInv, DeviceType, Place
<1> QED
  BY <1>2, <1>4, <1>6, <1>7, <1>8, <1>9, Zenon DEF DInv

LEMMA CloseStep ==
    ASSUME DInv, NEW t \in Task, usr_close(t)
    PROVE  DInv'
<1>0. DeviceType /\ RInv
  BY DEF DInv
<1>1. /\ usr[t] = "used" /\ proc[t].pc \in {"idle", "ended"}
      /\ usr' = [usr EXCEPT ![t] = "closed"]
      /\ queue' = [queue EXCEPT ![t] = <<>>]
      /\ event_flag' = [event_flag EXCEPT ![t] = FALSE]
      /\ taking' = [taking EXCEPT ![t] = "no"]
      /\ cut' = cut \ {t} /\ overlooked' = overlooked \ {t}
      /\ told' = [told EXCEPT ![t] = {}]
      /\ fault' \in BOOLEAN /\ ~ fault
      /\ UNCHANGED <<info, tree, impl, proc>> /\ UNCHANGED <<walk, announced>>
  BY Zenon DEF usr_close, Closes, Clash
<1>2. RInv'
  BY <1>0, <1>1, RegistryRests, Zenon
<1>3. DeviceType'
  <2>1. queue' \in [Task -> Seq(Name)]
    BY <1>0, <1>1 DEF DeviceType
  <2>2. event_flag' \in [Task -> BOOLEAN]
    BY <1>0, <1>1, Zenon DEF DeviceType
  <2>3. told' \in [Task -> SUBSET tree']
    BY <1>0, <1>1, Zenon DEF DeviceType
  <2>4. /\ usr' \in [Task -> {"closed", "inserted", "open", "used"}]
        /\ taking' \in [Task -> {"no", "empty", "mid", "raced"}]
        /\ Connections' = Connections \ {t}
    BY <1>0, <1>1, Zenon DEF DeviceType, Connections
  <2>5. cut' \cup overlooked' \cup {u \in Task : taking'[u] # "no"} \subseteq Connections'
    BY <1>0, <1>1, <2>4, Zenon DEF DeviceType
  <2> QED
    BY <1>0, <1>1, <2>1, <2>2, <2>3, <2>4, <2>5, Zenon DEF DeviceType, Walk
<1>4. \A c \in Task : Reached(c)' => Reached(c) /\ told'[c] = told[c]
  BY <1>0, <1>1, Zenon DEF DeviceType, Reached
<1>5. Passed' /\ Completed'
  BY <1>1, <1>4, Zenon DEF DInv, Passed, Completed
<1>6. PollReports'
  BY <1>0, <1>1, Zenon DEF DInv, PollReports, DeviceType
<1>7. \A u \in Task : Place(u)'
  BY <1>0, <1>1, Zenon DEF DInv, DeviceType, Place
<1> QED
  BY <1>2, <1>3, <1>5, <1>6, <1>7, Zenon DEF DInv

\* The steps of timeline_read_events.
LEMMA ReadStep ==
    ASSUME DInv, NEW t \in Task, read_events(t) \/ clear_flag(t) \/ list_del_end(t)
    PROVE  DInv'
<1>0. DeviceType /\ RInv /\ Place(t)
  BY Zenon DEF DInv
<1>1. /\ UNCHANGED <<info, tree, impl, fault, proc>>
      /\ UNCHANGED <<usr, walk, told, announced>>
  BY Zenon DEF read_events, clear_flag, list_del_end, vars, kernel
<1>2. RInv'
  BY <1>0, <1>1, RegistryRests, Zenon DEF RInv, RegistryType
<1>3. /\ queue' \in [Task -> Seq(Name)]
      /\ \A c \in Task : queue'[c] # <<>> => queue[c] # <<>>
  <2>1. queue \in [Task -> Seq(Name)] /\ queue[t] \in Seq(Name)
    BY <1>0, Zenon DEF DeviceType
  <2>2. CASE queue' = queue
    BY <2>1, <2>2, Zenon
  <2>3. CASE queue' = [queue EXCEPT ![t] = <<>>]
    BY <2>1, <2>3
  <2>4. CASE queue[t] # <<>> /\ queue' = [queue EXCEPT ![t] = Tail(@)]
    <3>1. Tail(queue[t]) \in Seq(Name)
      BY <2>1, <2>4
    <3> QED
      BY <2>1, <2>4, <3>1, Zenon
  <2> QED
    <3>1. Len(queue[t]) > 1 => queue[t] # <<>>
      BY <2>1
    <3> QED
      BY <2>2, <2>3, <2>4, <3>1, Zenon DEF read_events, clear_flag, list_del_end
<1>4. /\ taking' \in [Task -> {"no", "empty", "mid", "raced"}]
      /\ cut' \cup overlooked' \cup {u \in Task : taking'[u] # "no"} \subseteq Connections
  <2>1. CASE read_events(t)
    <3>1. usr[t] = "used"
      BY <1>0, <2>1, Zenon DEF read_events, Place, At, AdminLabels
    <3>2. t \in Connections
      BY <3>1, Zenon DEF Connections
    <3> QED
      BY <1>0, <2>1, <3>2, Zenon DEF read_events, DeviceType
  <2>2. CASE clear_flag(t)
    BY <1>0, <2>2, Zenon DEF clear_flag, DeviceType
  <2>3. CASE list_del_end(t)
    BY <1>0, <2>3, Zenon DEF list_del_end, DeviceType
  <2> QED
    BY <2>1, <2>2, <2>3, Zenon
<1>4a. /\ event_flag' \in [Task -> BOOLEAN]
       /\ \A c \in Task : /\ queue[c] # <<>> /\ event_flag[c] = TRUE
                            => event_flag'[c] = TRUE \/ c \in overlooked'
       /\ overlooked \subseteq overlooked'
  BY <1>0, Zenon DEF read_events, clear_flag, list_del_end, DeviceType
<1>5. DeviceType'
  BY <1>0, <1>1, <1>3, <1>4, <1>4a, Zenon DEF DeviceType, Walk, Connections
<1>6. Passed' /\ Completed'
  BY <1>1, Zenon DEF DInv, Passed, Completed, Reached
<1>7. PollReports'
  <2>1. \A c \in Task : queue[c] # <<>> => event_flag[c] = TRUE \/ c \in overlooked
    BY <1>0, Zenon DEF DInv, PollReports, DeviceType
  <2> QED
    BY <1>3, <1>4a, <2>1, Zenon DEF PollReports
<1>8. \A u \in Task : Place(u)'
  BY <1>1, Zenon DEF DInv, Place
<1> QED
  BY <1>2, <1>5, <1>6, <1>7, <1>8, Zenon DEF DInv

\* A step of qot_user_timeline_create_notify.
LEMMA NotifyStep ==
    ASSUME DInv, NEW t \in Task, create_notify(t)
    PROVE  DInv'
<1> DEFINE w == walk[t]
           n == rb_next(w.con)
<1>0. DeviceType /\ RInv
  BY DEF DInv
<1>1. /\ ~ fault /\ w # Nil /\ list_add_tail(w.con, w.name, w.of)
      /\ fault' \in BOOLEAN
      /\ walk' = [walk EXCEPT ![t] = IF n = Nil THEN Nil ELSE [@ EXCEPT !.con = n]]
      /\ announced' = IF n = Nil THEN announced \cup w.of ELSE announced
      /\ UNCHANGED <<info, tree, impl, proc, usr, cut>>
  BY Zenon DEF create_notify, Notify, Clash
<1>2. RInv'
  BY <1>0, <1>1, RegistryRests, Zenon
<1>3. w \in Walk /\ w.con \in Task /\ w.name \in Name /\ w.of \subseteq tree
  BY <1>0, <1>1, Zenon DEF DeviceType, Walk
<1>4. \/ n = Nil /\ \A d \in Connections : Address[d] <= Address[w.con]
      \/ /\ n \in Task /\ n # Nil
         /\ \A d \in Connections : Address[d] < Address[n] => Address[d] <= Address[w.con]
  BY <1>3, NextConnection, DeviceAssumption, Zenon DEF Connections
<1>4a. (\A c, d \in Task : Address[c] <= Address[d] => c = d \/ Address[c] < Address[d])
  BY DeviceAssumption DEF IsInjective
<1> HIDE DEF n
<1>5. /\ queue' \in [Task -> Seq(Name)]
      /\ event_flag' = [event_flag EXCEPT ![w.con] = TRUE]
      /\ overlooked' = overlooked \ {w.con}
      /\ taking' \in [Task -> {"no", "empty", "mid", "raced"}]
      /\ \A c \in Task : taking'[c] # "no" <=> taking[c] # "no"
      /\ \A c \in Task \ {w.con} : queue'[c] = queue[c]
      /\ told' = [told EXCEPT ![w.con] = @ \cup w.of]
  <2>1. \A c \in Task : queue[c] \in Seq(Name)
    BY <1>0, Zenon DEF DeviceType
  <2>2. Append(queue[w.con], w.name) \in Seq(Name) /\ <<w.name>> \in Seq(Name)
    BY <1>3, <2>1
  <2>3. queue' \in [Task -> Seq(Name)] /\ \A c \in Task \ {w.con} : queue'[c] = queue[c]
    BY <1>0, <1>1, <1>3, <2>2, Zenon DEF list_add_tail, DeviceType
  <2>4. /\ taking' \in [Task -> {"no", "empty", "mid", "raced"}]
        /\ \A c \in Task : taking'[c] # "no" <=> taking[c] # "no"
    BY <1>0, <1>1, <1>3, Zenon DEF list_add_tail, DeviceType
  <2> QED
    BY <1>1, <2>3, <2>4, Zenon DEF list_add_tail
<1>6. walk' \in [Task -> {Nil} \cup Walk']
  <2>1. [w EXCEPT !.con = n] \in Walk \/ n = Nil
    BY <1>3, <1>4, Zenon DEF Walk
  <2>2. Walk' = Walk
    BY <1>1, Zenon DEF Walk
  <2> QED
    BY <1>0, <1>1, <2>1, <2>2, Zenon DEF DeviceType
<1>7. DeviceType'
  <2>1. event_flag' \in [Task -> BOOLEAN]
    BY <1>0, <1>3, <1>5, Zenon DEF DeviceType
  <2>2. told' \in [Task -> SUBSET tree'] /\ announced' \subseteq tree'
    BY <1>0, <1>1, <1>3, <1>5, Zenon DEF DeviceType
  <2>3. cut' \cup overlooked' \cup {u \in Task : taking'[u] # "no"} \subseteq Connections'
    BY <1>0, <1>1, <1>5, Zenon DEF DeviceType, Connections
  <2> QED
    BY <1>0, <1>1, <1>5, <1>6, <2>1, <2>2, <2>3, Zenon DEF DeviceType
<1>8. \A c \in Task : /\ Reached(c)' <=> Reached(c)
                      /\ Reached(c) => c \in Connections
                      /\ told[c] \subseteq told'[c]
                      /\ c = w.con => w.of \subseteq told'[c]
  BY <1>0, <1>1, <1>3, <1>5, Zenon DEF DeviceType, Reached, Connections
<1>9. ASSUME NEW c \in Task, Reached(c), Address[c] <= Address[w.con]
      PROVE  w.of \subseteq told'[c]
  <2>1. CASE c = w.con
    BY <1>8, <2>1, Zenon
  <2>2. CASE Address[c] < Address[w.con]
    BY <1>1, <1>8, <1>9, <2>2, Zenon DEF DInv, Passed
  <2> QED
    BY <1>3, <1>4a, <1>9, <2>1, <2>2, Zenon
<1>10. Passed'
  <2> SUFFICES ASSUME NEW s \in Task, NEW c \in Task, walk'[s] # Nil, Reached(c),
                      Address[c] < Address[walk'[s].con]
               PROVE  walk'[s].of \subseteq told'[c]
    BY <1>8, Zenon DEF Passed
  <2>1. CASE s = t
    <3>1. n # Nil /\ walk'[t].con = n /\ walk'[t].of = w.of
      BY <1>0, <1>1, <1>3, <2>1, Zenon DEF DeviceType, Walk
    <3>2. Address[c] <= Address[w.con]
      BY <1>4, <1>8, <2>1, <3>1, Zenon
    <3> QED
      BY <1>9, <2>1, <3>1, <3>2, Zenon
  <2>2. CASE s # t
    <3>1. walk'[s] = walk[s]
      BY <1>0, <1>1, <2>2, Zenon DEF DeviceType
    <3> QED
      BY <1>8, <3>1, Zenon DEF DInv, Passed
  <2> QED
    BY <2>1, <2>2, Zenon
<1>11. Completed'
  <2> SUFFICES ASSUME NEW c \in Task, Reached(c)
               PROVE  announced' \subseteq told'[c]
    BY <1>8, Zenon DEF Completed
  <2>1. announced \subseteq told'[c]
    BY <1>8, Zenon DEF DInv, Completed
  <2>2. n = Nil => w.of \subseteq told'[c]
    BY <1>3, <1>4, <1>8, <1>9, DeviceAssumption, Zenon
  <2> QED
    BY <1>1, <2>1, <2>2, Zenon
<1>12. PollReports'
  <2> SUFFICES ASSUME NEW c \in Task, queue'[c] # <<>>
               PROVE  event_flag'[c] = TRUE \/ c \in overlooked'
    BY Zenon DEF PollReports
  <2>1. \A d \in Task : queue[d] # <<>> => event_flag[d] = TRUE \/ d \in overlooked
    BY <1>0 DEF DInv, PollReports, DeviceType
  <2> QED
    BY <1>0, <1>3, <1>5, <2>1, Zenon DEF DeviceType
<1>13. \A u \in Task : Place(u)'
  BY <1>1, Zenon DEF DInv, Place
<1> QED
  BY <1>2, <1>7, <1>10, <1>11, <1>12, <1>13 DEF DInv

\* A step of the registry, seen by the user device.
LEMMA ServeStep ==
    ASSUME DInv, NEW t \in Task, RegistryStep(t)
    PROVE  DInv'
<1> DEFINE new == [con |-> rb_first, name |-> proc[t].name, of |-> Created]
           starts == Created # {} /\ t \notin Admin
<1>0. DeviceType /\ RInv /\ Place(t)
  BY Zenon DEF DInv
<1>1. /\ walk[t] = Nil /\ taking[t] = "no" /\ Steps(t)
      /\ At(t, "idle") => usr[t] = "open" \/ t \in Admin
      /\ usr' = IF At(t, "idle") /\ t \notin Admin THEN [usr EXCEPT ![t] = "used"] ELSE usr
      /\ announced' = announced \cap tree'
      /\ told' = [c \in Task |-> told[c] \cap tree']
      /\ UNCHANGED <<queue, event_flag, taking, cut, overlooked>>
  BY Zenon DEF RegistryStep
<1>2. /\ walk'[t] = IF starts THEN new ELSE Nil
      /\ \A c \in Task \ {t} :
            walk'[c] = IF walk[c] # Nil THEN [walk[c] EXCEPT !.of = @ \cap tree'] ELSE Nil
      /\ walk' = [c \in Task |-> walk'[c]]
  <2>1. walk' = [c \in Task |->
                    CASE c = t /\ Created # {} /\ t \notin Admin -> new
                      [] walk[c] # Nil -> [walk[c] EXCEPT !.of = @ \cap tree']
                      [] OTHER -> Nil]
    BY Zenon DEF RegistryStep
  <2> HIDE DEF new
  <2> QED
    BY <1>1, <2>1, Zenon
<1>3. RInv'
  BY <1>0, <1>1, RegistryMoves, Zenon
<1>4. Moves(t)
  BY <1>0, <1>1, CreationNames, RemovalNames, BindingNames, Zenon DEF Steps, RInv
<1>5. /\ usr' \in [Task -> {"closed", "inserted", "open", "used"}]
      /\ \A c \in Task \ {t} : usr'[c] = usr[c]
      /\ Connections' = Connections
      /\ \A c \in Task : (Reached(c)' => Reached(c)) /\ (Reached(c) => c \in Connections)
      /\ proc'[t].pc \notin {"idle", "ended"} => usr'[t] = "used" \/ t \in Admin
  <2>1. ~ At(t, "ended")
    BY <1>0, <1>1, PlaceSteps, Zenon DEF Place
  <2>2. CASE At(t, "idle") /\ t \notin Admin
    BY <1>0, <1>1, <2>2, Zenon DEF DeviceType, Connections, Reached
  <2>3. CASE ~ (At(t, "idle") /\ t \notin Admin)
    BY <1>0, <1>1, <2>1, <2>3, Zenon DEF DeviceType, Connections, Reached, Place, At
  <2> QED
    BY <2>2, <2>3, Zenon
<1>6. starts => /\ rb_first \in Task /\ proc[t].name \in Name
                /\ \A d \in Connections : ~ (Address[d] < Address[rb_first])
  <2> SUFFICES ASSUME starts
               PROVE  /\ rb_first \in Task /\ proc[t].name \in Name
                      /\ \A d \in Connections : ~ (Address[d] < Address[rb_first])
    BY Zenon
  <2>1. At(t, "insert") /\ proc[t].name \in Name
    BY <1>0, <1>1, Creates, Zenon DEF Created
  <2>2. t \in Connections
    BY <1>0, <2>1, Zenon DEF Place, At, Connections
  <2>3. rb_first \in Connections /\ \A d \in Connections : Address[rb_first] <= Address[d]
    BY <2>2, FirstConnection, Zenon
  <2>4. \A c, d \in Task : Address[c] <= Address[d] => ~ (Address[d] < Address[c])
    BY DeviceAssumption
  <2>5. Connections \subseteq Task
    BY Zenon DEF Connections
  <2> QED
    BY <2>1, <2>3, <2>4, <2>5, Zenon
<1>7. walk' \in [Task -> {Nil} \cup Walk']
  <2>1. ASSUME NEW c \in Task
        PROVE  walk'[c] \in {Nil} \cup Walk'
    <3>1. CASE c = t
      <4>1. Created \subseteq tree'
        BY Zenon DEF Created
      <4>2. starts => new \in Walk'
        BY <1>6, <4>1, Zenon DEF Walk
      <4> QED
        BY <1>2, <3>1, <4>2, Zenon
    <3>2. CASE c # t /\ walk[c] # Nil
      <4>1. walk[c] \in Walk /\ walk'[c] = [walk[c] EXCEPT !.of = @ \cap tree']
        BY <1>0, <1>2, <3>2, Zenon DEF DeviceType
      <4> QED
        BY <4>1, Zenon DEF Walk
    <3>3. CASE c # t /\ walk[c] = Nil
      BY <1>2, <3>3, Zenon
    <3> QED
      BY <3>1, <3>2, <3>3, Zenon
  <2> QED
    BY <1>2, <2>1, Zenon
<1>8. DeviceType'
  BY <1>0, <1>1, <1>5, <1>7, Zenon DEF DeviceType
<1> HIDE DEF new, starts
<1>9. Passed'
  <2> SUFFICES ASSUME NEW s \in Task, NEW c \in Task, walk'[s] # Nil, Reached(c)',
                      Address[c] < Address[walk'[s].con]
               PROVE  walk'[s].of \subseteq told'[c]
    BY Zenon DEF Passed
  <2>1. CASE s = t
    <3>1. starts /\ walk'[t].con = rb_first
      BY <1>2, <2>1 DEF new
    <3> QED
      BY <1>5, <1>6, <2>1, <3>1, Zenon
  <2>2. CASE s # t
    <3>1. /\ walk[s] # Nil /\ walk'[s] = [walk[s] EXCEPT !.of = @ \cap tree']
          /\ walk[s] \in Walk
      BY <1>0, <1>2, <2>2, Zenon DEF DeviceType
    <3>2. walk'[s].con = walk[s].con /\ walk'[s].of = walk[s].of \cap tree'
      BY <3>1, Zenon DEF Walk
    <3>3. walk[s].of \subseteq told[c]
      BY <1>5, <3>1, <3>2, Zenon DEF DInv, Passed
    <3> QED
      BY <1>1, <3>2, <3>3, Zenon
  <2> QED
    BY <2>1, <2>2, Zenon
<1>10. Completed'
  BY <1>1, <1>5, Zenon DEF DInv, Completed
<1>11. PollReports'
  BY <1>1, Zenon DEF DInv, PollReports
<1>12. \A u \in Task : Place(u)'
  <2>1. Place(t)'
    BY <1>0, <1>1, <1>5, PlaceSteps, Zenon DEF Place
  <2>2. \A u \in Task \ {t} : Place(u)'
    BY <1>4, <1>5, Zenon DEF DInv, Place, Moves
  <2> QED
    BY <2>1, <2>2, Zenon
<1> QED
  BY <1>3, <1>8, <1>9, <1>10, <1>11, <1>12 DEF DInv

LEMMA DeviceInvariant ==
    DeviceSpec => []DInv
<1>1. DInv /\ [DeviceNext]_devvars => DInv'
  <2> SUFFICES ASSUME DInv, [DeviceNext]_devvars
               PROVE  DInv'
    BY Zenon
  <2>1. CASE DeviceNext
    BY <2>1, OpenStep, AnnounceStep, CloseStep, ServeStep, NotifyStep, ReadStep,
       Zenon DEF DeviceNext
  <2>2. CASE UNCHANGED devvars
    <3>1. UNCHANGED <<info, tree, impl, fault, proc>> /\ UNCHANGED device
      BY <2>2, Zenon DEF devvars, vars, kernel
    <3>2. RInv'
      BY <3>1, RegistryRests, Zenon DEF DInv, RInv, RegistryType
    <3>3. DeviceType' /\ Passed' /\ Completed' /\ PollReports'
      BY <3>1, Zenon DEF DInv, device, DeviceType, Walk, Connections, Passed, Completed,
                         PollReports, Reached
    <3>4. \A t \in Task : Place(t)'
      BY <3>1, Zenon DEF DInv, device, Place
    <3> QED
      BY <3>2, <3>3, <3>4, Zenon DEF DInv
  <2> QED
    BY <2>1, <2>2, Zenon
<1> QED
  BY <1>1, DeviceStart, PTL DEF DeviceSpec

-----------------------------------------------------------------------------
\* The types of all variables of the registry and of the user device; in
\* particular, a task never has two devices open, and no device outlives its
\* removal and its last file (qot_timeline_chdev.c, qot_user_chdev.c).
THEOREM DeviceIsTyped ==
    DeviceSpec => []DeviceTypeOK
<1>1. DInv => DeviceTypeOK
  <2> SUFFICES ASSUME DInv
               PROVE  DeviceTypeOK
    BY Zenon
  <2>1. RegistryType /\ BindInv /\ DeviceType
    BY Zenon DEF DInv, RInv
  <2>2. ASSUME NEW t \in Task
        PROVE  Cardinality(Fd(t)) <= 1
    <3>1. Fd(t) = {} \/ \E i : Fd(t) = {i}
      <4>1. \A i, j \in Fd(t) : i = j
        BY <2>1, Zenon DEF Fd, BindInv, OneFile
      <4> HIDE DEF Fd
      <4> QED
        BY <4>1, Zenon
    <3>2. Cardinality({}) = 0 /\ \A i : Cardinality({i}) = 1
      BY FS_EmptySet, FS_Singleton, Zenon
    <3>3. Cardinality(Fd(t)) \in {0, 1}
      BY <3>1, <3>2, Zenon
    <3> QED
      BY <3>3
  <2>3. /\ \A o \in DOMAIN info : info[o] \in [name : Name, index : Nat]
        /\ tree \subseteq DOMAIN info
        /\ \A t \in Task : proc[t].pc \in Labels
    BY <2>1, Zenon DEF RegistryType, Timeline, Call_t
  <2>4. \A i \in DOMAIN impl : /\ impl[i].state \in {"node", "clock", "ready", "zombie"}
                               /\ ~ Released(impl[i])
    BY <2>1, Zenon DEF RegistryType, DeviceRec, States, BindInv
  <2>5. TypeOK
    BY <2>2, <2>3, <2>4, Zenon DEF TypeOK
  <2> QED
    BY <2>1, <2>5, Zenon DEF DeviceTypeOK, DeviceType
<1> QED
  BY <1>1, DeviceInvariant, PTL

\* Any number of tasks may look for a name and create the timeline at the same
\* time: the tree never holds a name twice (qot_timeline_create).
THEOREM NamesStayUnique ==
    DeviceSpec => []NamesUnique
<1>1. DInv => NamesUnique
  BY Zenon DEF DInv, RInv, NameInv
<1> QED
  BY <1>1, DeviceInvariant, PTL

\* While no removal is under way, a timeline of the tree has its own complete
\* device, whatever creations and removals came before (qot_timeline_create,
\* qot_timeline_remove).
THEOREM TimelinesHaveDevices ==
    DeviceSpec => []HasDevice
<1>1. DInv => HasDevice
  <2> SUFFICES ASSUME DInv
               PROVE  HasDevice
    OBVIOUS
  <2>1. CASE fault
    BY <2>1, Zenon DEF HasDevice
  <2>2. CASE Doomed
    BY <2>2, Zenon DEF HasDevice, Doomed
  <2>3. CASE Sound
    BY <2>3, Zenon DEF HasDevice, Sound, TreeSound, Own, Erases, Device
  <2> QED
    BY <2>1, <2>2, <2>3, Zenon DEF DInv, RInv, SoundInv
<1> QED
  BY <1>1, DeviceInvariant, PTL

\* The tree of bindings and the list of bindings agree outside of the gaps in a join,
\* an update and a leave, which change them in two steps, although a process may end
\* anywhere (qot_timeline_chdev.c).
THEOREM BindingsStayTogether ==
    DeviceSpec => []BindingsAgree
<1>1. DInv => BindingsAgree
  <2> SUFFICES ASSUME DInv, NEW i \in DOMAIN impl
               PROVE  /\ Bindings(i) = {t \in Bound(i) : ~ At(t, "list") /\ ~ At(t, "untie")}
                      /\ Len(impl[i].list) = Cardinality(Bindings(i))
                      /\ \A t \in Bound(i) : t \in impl[i].files \/ At(t, "ended")
    BY Zenon DEF BindingsAgree
  <2>1. /\ impl[i] \in DeviceRec /\ Single(impl[i].list)
        /\ \A t \in Task : Tie(impl[i], proc[t].pc, t)
    BY Zenon DEF DInv, RInv, RegistryType, BindInv
  <2>2. impl[i].list \in Seq(Entry) /\ Bound(i) \subseteq Task
    BY <2>1, Zenon DEF DeviceRec, Bound
  <2>3. Bindings(i) = Pids(impl[i].list)
    BY Zenon DEF Bindings, Pids
  <2>4. Pids(impl[i].list) \subseteq Task
    <3>1. \A k \in DOMAIN impl[i].list : impl[i].list[k] \in Entry
      BY <2>2
    <3> QED
      BY <3>1, Zenon DEF Pids, Entry
  <2>5. Len(impl[i].list) = Cardinality(Bindings(i))
    BY <2>1, <2>2, <2>3, SingleLength, Zenon
  <2>6. \A t \in Task : t \in Pids(impl[i].list) <=> t \in Bound(i) /\ ~ At(t, "list") /\ ~ At(t, "untie")
    BY <2>1, Zenon DEF Tie, Gap, Bound, At
  <2>7. \A t \in Bound(i) : t \in impl[i].files \/ At(t, "ended")
    BY <2>1, <2>2, Zenon DEF Tie, Bound, At
  <2> QED
    BY <2>2, <2>3, <2>4, <2>5, <2>6, <2>7, Zenon
<1> QED
  BY <1>1, DeviceInvariant, PTL

\* Each connection has been told of each timeline whose announcement has been
\* completed, for any number of tasks that open, close, create and remove
\* (qot_user_chdev.c).
THEOREM AnnouncementsReachAll ==
    DeviceSpec => []Announced
<1>1. DInv => Announced
  BY Zenon DEF DInv, Completed, Reached, Announced
<1> QED
  BY <1>1, DeviceInvariant, PTL

\* An event in the queue of a connection is one that poll reports, unless the reader
\* had found the list empty before it came and has cleared the flag since
\* (qot_user_chdev_poll, GET_NEXT_EVENT).
THEOREM PollTellsOfEvents ==
    DeviceSpec => []PollReports
<1>1. DInv => PollReports
  BY Zenon DEF DInv
<1> QED
  BY <1>1, DeviceInvariant, PTL

=============================================================================
