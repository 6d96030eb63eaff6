-------------------------- MODULE QotVirt_proofs --------------------------
(***************************************************************************)
(* Proofs about QotVirt, for any number of guests, names and timelines:    *)
(* the types, which hold whatever the host does; and, as long as the host  *)
(* has no timeline of a guest's name and the list has room for all names,  *)
(* that the daemon's list, bindings and threads mirror what the guests     *)
(* hold, and that no guest loses its timeline to another.                  *)
(***************************************************************************)
EXTENDS QotVirt, FiniteSetTheorems, TLAPS

-----------------------------------------------------------------------------
\* Least elements and fresh indices.

\* A set of naturals that is not empty has a least element.
LEMMA LeastNat ==
    ASSUME NEW T, T \subseteq Nat, T # {}
    PROVE  Min(T) \in T /\ \A y \in T : Min(T) <= y
<1> DEFINE R == OpToRel(<, Nat)
<1>1. IsWellFoundedOn(R, Nat)
  BY NatLessThanWellFounded, Zenon
<1>2. \A x, y \in Nat : y < x => <<y, x>> \in R
  BY Zenon DEF OpToRel
<1> HIDE DEF R
<1>3. PICK x \in T : \A y \in T : ~ (<<y, x>> \in R)
  BY <1>1, WFMin, Zenon
<1>4. \A y \in T : x <= y
  <2> SUFFICES ASSUME NEW y \in T PROVE x <= y
    BY Zenon
  <2>1. ~ (y < x)
    BY <1>2, <1>3, Zenon
  <2> QED
    BY <2>1
<1> QED
  BY <1>4, Zenon DEF Min

-----------------------------------------------------------------------------
\* The parts of the types.

\* The timelines of the host.
KernelOK ==
    /\ IsFiniteSet(DOMAIN kernel) /\ DOMAIN kernel \subseteq Name \cup HostName
    /\ stamp \in Nat
    /\ \A n \in DOMAIN kernel : kernel[n] \in Timeline /\ kernel[n].params \in 1 .. stamp

\* The list and the main thread.
ListOK ==
    /\ vtimeline \in [Slot -> Entry] /\ tl_count = Cardinality(Listed)
    /\ main \in [pc : Label, of : Guest \cup {Nil}, tl_id : Slot \cup {-1}]

\* What the threads copy.
CopyOK ==
    /\ thread \in [Slot -> Worker] /\ \A k \in Slot : thread[k].copy \in 0 .. stamp
    /\ shm \in [Slot -> (0 .. stamp) \X (0 .. stamp)]
    /\ {running, fault} \subseteq BOOLEAN

\* Guests and messages.
ClientOK ==
    /\ guest \in [Guest -> Client] /\ msg \in [Guest -> Request \cup {Nil}]
    /\ \A g \in Guest : msg[g] # Nil <=> guest[g].pc \in {"binding", "updating", "unbinding"}

LEMMA TypeParts == TypeOK <=> KernelOK /\ ListOK /\ CopyOK /\ ClientOK
BY Zenon DEF TypeOK, KernelOK, ListOK, CopyOK, ClientOK

Creating   == {"TIMELINE_CREATE", "create", "join", "spawn"}
Leaving    == {"cancel", "wait", "leave", "destroy"}
Destroying == {"TIMELINE_DESTROY"} \cup Leaving
Pause      == {"select", "SIGPIPE", "ended"}

\* A guest's message is the one that its call sends, and about its timeline.
Asked ==
    \A g \in Guest :
      /\ guest[g].pc \in {"bound", "updating", "unbinding"} =>
            guest[g].name \in Name /\ guest[g].index \in Nat
      /\ guest[g].pc = "binding" => msg[g].type = "TIMELINE_CREATE"
      /\ guest[g].pc = "updating" => msg[g].type = "TIMELINE_UPDATE"
      /\ guest[g].pc = "unbinding" => msg[g].type = "TIMELINE_DESTROY"
      /\ guest[g].pc \in {"updating", "unbinding"} => msg[g].name = guest[g].name

\* The main thread works on a message that waits for its reply, and on the entry of
\* the list that the message is about.
Serving ==
    /\ main.pc \notin Pause => main.of \in Guest /\ msg[main.of] # Nil /\ ~ msg[main.of].done
    /\ main.pc \in Creating => guest[main.of].pc = "binding"
    /\ main.pc \in Destroying => guest[main.of].pc = "unbinding"
    /\ main.pc = "TIMELINE_UPDATE" => guest[main.of].pc = "updating"
    /\ main.pc = "create" => tl_count < MAX_TIMELINES
    /\ main.pc \in {"join", "spawn"} => main.tl_id \in Slot
    /\ main.pc \in Leaving => main.tl_id \in Slot /\ vtimeline[main.tl_id].index = virtmsg.index

Served == TypeOK /\ Asked /\ Serving

-----------------------------------------------------------------------------
\* What a new timeline gets.

\* A finite set leaves out one of as many numbers as it has elements, and one more.
LEMMA LeftOut ==
    ASSUME NEW S, IsFiniteSet(S)
    PROVE  \E x \in 0 .. Cardinality(S) : x \notin S
<1> DEFINE c == Cardinality(S)
<1>1. c \in Nat
  BY FS_CardinalityType, Zenon
<1>2. IsFiniteSet(0 .. c) /\ Cardinality(0 .. c) = c + 1
  <2>1. 0 \in Int /\ c \in Int /\ ~ (0 > c)
    BY <1>1
  <2>2. IsFiniteSet(0 .. c) /\ Cardinality(0 .. c) = c - 0 + 1
    BY <2>1, FS_Interval, Zenon
  <2> QED
    BY <1>1, <2>2
<1>3. 0 .. c \subseteq S => Cardinality(0 .. c) <= Cardinality(S)
  BY FS_Subset, Zenon
<1> QED
  BY <1>1, <1>2, <1>3

\* idr_alloc gives an index that no timeline has.
LEMMA FreshIndex ==
    ASSUME KernelOK
    PROVE  idr_alloc \in Nat /\ \A n \in DOMAIN kernel : kernel[n].index # idr_alloc
<1> DEFINE S == {kernel[n].index : n \in DOMAIN kernel}
           T == 0 .. Cardinality(DOMAIN kernel) \ S
           f == [n \in DOMAIN kernel |-> kernel[n].index]
<1>1. IsFiniteSet(S) /\ Cardinality(S) <= Cardinality(DOMAIN kernel)
  <2>1. f \in Surjection(DOMAIN kernel, S)
    BY Zenon DEF Surjection
  <2> HIDE DEF f, S
  <2> QED
    BY <2>1, FS_Surjection, Zenon DEF KernelOK
<1>2. Cardinality(S) \in Nat /\ Cardinality(DOMAIN kernel) \in Nat
  BY <1>1, FS_CardinalityType, Zenon DEF KernelOK
<1>3. PICK x \in 0 .. Cardinality(S) : x \notin S
  BY <1>1, LeftOut, Zenon
<1>4. x \in T
  BY <1>1, <1>2, <1>3
<1>5. T \subseteq Nat
  BY <1>2
<1>6. Min(T) \in T
  BY <1>4, <1>5, LeastNat, Zenon
<1> QED
  BY <1>5, <1>6, Zenon DEF idr_alloc

\* The first entry with an index, where there is one.
LEMMA FirstEntry ==
    ASSUME NEW i, Entries(i) # {}
    PROVE  /\ get_timeline_list_id(i) \in Slot
           /\ \A k \in Slot : IsFirst(k, i, vtimeline) <=> k = get_timeline_list_id(i)
<1>1. Slot \subseteq Nat
  BY DEF Slot
<1>2. Entries(i) \subseteq Nat
  BY <1>1, Zenon DEF Entries
<1>3. Min(Entries(i)) \in Entries(i) /\ \A y \in Entries(i) : Min(Entries(i)) <= y
  BY <1>2, LeastNat, Zenon
<1>4. get_timeline_list_id(i) = Min(Entries(i))
  BY Zenon DEF get_timeline_list_id
<1> DEFINE f == get_timeline_list_id(i)
<1>5. f \in Slot /\ f \in Nat /\ vtimeline[f].index = i /\ \A y \in Slot : vtimeline[y].index = i => f <= y
  BY <1>1, <1>3, <1>4, Zenon DEF Entries
<1> HIDE DEF f
<1>6. ASSUME NEW k \in Slot PROVE IsFirst(k, i, vtimeline) <=> k = f
  BY <1>1, <1>5 DEF IsFirst
<1> QED
  BY <1>5, <1>6, Zenon DEF f

-----------------------------------------------------------------------------
\* Steps that leave a part alone.

LEMMA KernelStays ==
    ASSUME KernelOK, UNCHANGED <<kernel, stamp>>
    PROVE  KernelOK'
BY Zenon DEF KernelOK

LEMMA CopyStays ==
    ASSUME CopyOK, UNCHANGED <<thread, shm, running, fault>>, stamp \in Nat,
           stamp' = stamp \/ stamp' = stamp + 1
    PROVE  CopyOK'
<1>1. 0 .. stamp \subseteq 0 .. stamp'
  OBVIOUS
<1>2. \A k \in Slot : thread'[k].copy \in 0 .. stamp'
  BY <1>1, Zenon DEF CopyOK
<1>3. shm' \in [Slot -> (0 .. stamp') \X (0 .. stamp')]
  <2>1. shm \in [Slot -> (0 .. stamp) \X (0 .. stamp)]
    BY Zenon DEF CopyOK
  <2> QED
    BY <1>1, <2>1, Zenon
<1> QED
  BY <1>2, <1>3, Zenon DEF CopyOK

LEMMA ListStays ==
    ASSUME ListOK, UNCHANGED <<vtimeline, tl_count>>,
           main' \in [pc : Label, of : Guest \cup {Nil}, tl_id : Slot \cup {-1}]
    PROVE  ListOK'
BY Zenon DEF ListOK, Listed

LEMMA ClientStays ==
    ASSUME ClientOK, Asked, UNCHANGED <<guest, msg>>
    PROVE  ClientOK' /\ Asked'
BY Zenon DEF ClientOK, Asked

\* The message that the main thread has.
LEMMA Current_Message ==
    ASSUME Served, main.pc \notin Pause
    PROVE  main.of \in Guest /\ virtmsg \in Request /\ ~ virtmsg.done
<1>1. main.of \in Guest /\ msg[main.of] # Nil /\ ~ msg[main.of].done
  BY Zenon DEF Served, Serving
<1>2. msg[main.of] \in Request
  BY <1>1, TypeParts, Zenon DEF Served, ClientOK
<1> QED
  BY <1>1, <1>2, Zenon DEF virtmsg

\* The main thread changes the message in its hands, and keeps it, ...
LEMMA FillOK ==
    ASSUME Served, main.pc \notin Pause, UNCHANGED guest,
           NEW m \in Request, m.type = virtmsg.type, m.name = virtmsg.name, Fill(m)
    PROVE  ClientOK' /\ Asked' /\ msg'[main.of] = m
<1>1. main.of \in Guest
  BY Current_Message, Zenon
<1>2. ClientOK /\ Asked
  BY TypeParts, Zenon DEF Served
<1>3. m # Nil
  BY RequestAssumption, Zenon
<1>4. msg[main.of] # Nil
  BY Zenon DEF Served, Serving
<1>5. msg' \in [Guest -> Request \cup {Nil}] /\ msg'[main.of] = m
      /\ \A g \in Guest : g # main.of => msg'[g] = msg[g]
  BY <1>1, <1>2, Zenon DEF ClientOK, Fill
<1>6. ClientOK'
  BY <1>1, <1>2, <1>3, <1>4, <1>5, Zenon DEF ClientOK
<1>7. Asked'
  BY <1>1, <1>2, <1>5 DEF Asked, virtmsg
<1> QED
  BY <1>5, <1>6, <1>7, Zenon

\* ... or sends it back.
LEMMA ReplyOK ==
    ASSUME Served, main.pc \notin Pause, UNCHANGED guest,
           NEW m \in Request, m.type = virtmsg.type, m.name = virtmsg.name, Reply(m)
    PROVE  /\ ClientOK' /\ Asked' /\ msg'[main.of] = [m EXCEPT !.done = TRUE]
           /\ main' \in [pc : {"select", "SIGPIPE"}, of : {Nil}, tl_id : {-1}]
           /\ main' \in [pc : Label, of : Guest \cup {Nil}, tl_id : Slot \cup {-1}]
           /\ Serving'
<1> DEFINE r == [m EXCEPT !.done = TRUE]
<1>1. r \in Request /\ r.type = virtmsg.type /\ r.name = virtmsg.name
  BY Zenon DEF Request
<1>2. Fill(r)
  BY Zenon DEF Reply
<1>3. ClientOK' /\ Asked' /\ msg'[main.of] = r
  <2> HIDE DEF r
  <2> QED
    BY <1>1, <1>2, FillOK, Zenon
<1>4. main' \in [pc : {"select", "SIGPIPE"}, of : {Nil}, tl_id : {-1}]
  BY Zenon DEF Reply, Rest
<1>5. main' \in [pc : Label, of : Guest \cup {Nil}, tl_id : Slot \cup {-1}]
  BY <1>4, Zenon DEF Label
<1>6. Serving'
  BY <1>4, Zenon DEF Serving, Pause, Creating, Destroying, Leaving
<1> QED
  BY <1>3, <1>4, <1>5, <1>6, Zenon

-----------------------------------------------------------------------------
\* The kernel.

\* Timelines change, and none comes or goes.
LEMMA KernelChanges ==
    ASSUME KernelOK, DOMAIN kernel' = DOMAIN kernel, stamp' \in Nat,
           \A n \in DOMAIN kernel : kernel'[n] \in Timeline /\ kernel'[n].params \in 1 .. stamp'
    PROVE  KernelOK'
BY Zenon DEF KernelOK

\* A timeline is created.
LEMMA CreatedOK ==
    ASSUME KernelOK, NEW n \in Name \cup HostName, NEW who \in SUBSET {Daemon, App},
           kernel' = Created(n, who), stamp' = stamp + 1
    PROVE  /\ KernelOK' /\ DOMAIN kernel' = DOMAIN kernel \cup {n}
           /\ \A m \in DOMAIN kernel : m # n => kernel'[m] = kernel[m]
           /\ kernel'[n].index = idr_alloc /\ kernel'[n].bound = who
<1>1. stamp \in Nat /\ stamp' \in Nat
  BY DEF KernelOK
<1>2. idr_alloc \in Nat
  BY FreshIndex, Zenon
<1> DEFINE t == [index |-> idr_alloc, bound |-> who, demand |-> 0, params |-> stamp + 1, flag |-> FALSE]
<1>3. DOMAIN kernel' = DOMAIN kernel \cup {n} /\ kernel'[n] = t
      /\ \A m \in DOMAIN kernel : m # n => kernel'[m] = kernel[m]
  BY Zenon DEF Created
<1>4. t \in Timeline /\ t.params \in 1 .. stamp' /\ t.index = idr_alloc /\ t.bound = who
  BY <1>1, <1>2 DEF Timeline
<1> HIDE DEF t
<1>5. IsFiniteSet(DOMAIN kernel')
  BY <1>3, FS_AddElement DEF KernelOK
<1>6. \A m \in DOMAIN kernel' : kernel'[m] \in Timeline /\ kernel'[m].params \in 1 .. stamp'
  BY <1>1, <1>3, <1>4 DEF KernelOK
<1>7. KernelOK'
  BY <1>1, <1>3, <1>5, <1>6, Zenon DEF KernelOK
<1> QED
  BY <1>3, <1>4, <1>7, Zenon

\* A timeline is removed.
LEMMA RestrictOK ==
    ASSUME KernelOK, NEW n, kernel' = Restrict(kernel, DOMAIN kernel \ {n}), UNCHANGED stamp
    PROVE  /\ KernelOK' /\ DOMAIN kernel' = DOMAIN kernel \ {n}
           /\ \A m \in DOMAIN kernel' : kernel'[m] = kernel[m]
<1>1. DOMAIN kernel' = DOMAIN kernel \ {n} /\ \A m \in DOMAIN kernel' : kernel'[m] = kernel[m]
  BY Zenon DEF Restrict
<1>2. IsFiniteSet(DOMAIN kernel')
  BY <1>1, FS_RemoveElement DEF KernelOK
<1> QED
  BY <1>1, <1>2, Zenon DEF KernelOK

\* The daemon or the application leaves.
LEMMA LeavesOK ==
    ASSUME KernelOK, NEW n \in DOMAIN kernel, NEW who, kernel' = Leaves(n, who), UNCHANGED stamp
    PROVE  /\ KernelOK' /\ DOMAIN kernel' = DOMAIN kernel
           /\ \A m \in DOMAIN kernel : /\ kernel'[m].index = kernel[m].index
                                       /\ m # n => kernel'[m] = kernel[m]
           /\ kernel'[n].bound = kernel[n].bound \ {who}
<1>1. DOMAIN kernel' = DOMAIN kernel /\ kernel'[n] = [kernel[n] EXCEPT !.bound = @ \ {who}]
      /\ \A m \in DOMAIN kernel : m # n => kernel'[m] = kernel[m]
  BY Zenon DEF Leaves
<1>2. kernel[n] \in Timeline /\ kernel[n].params \in 1 .. stamp
  BY Zenon DEF KernelOK
<1>3. /\ kernel'[n] \in Timeline /\ kernel'[n].params = kernel[n].params
      /\ kernel'[n].index = kernel[n].index /\ kernel'[n].bound = kernel[n].bound \ {who}
  BY <1>1, <1>2, Zenon DEF Timeline
<1>4. \A m \in DOMAIN kernel : kernel'[m] \in Timeline /\ kernel'[m].params \in 1 .. stamp'
  BY <1>1, <1>2, <1>3, Zenon DEF KernelOK
<1>5. KernelOK'
  BY <1>1, <1>4, KernelChanges, Zenon DEF KernelOK
<1> QED
  BY <1>1, <1>3, <1>5, Zenon

\* What a step of the host leaves alone.
LEMMA HostServed ==
    ASSUME Served, KernelOK', stamp' = stamp \/ stamp' = stamp + 1,
           UNCHANGED <<vtimeline, tl_count, main, thread, shm, guest, msg, running, fault>>
    PROVE  Served'
<1>1. KernelOK /\ ListOK /\ CopyOK /\ ClientOK /\ Asked
  BY TypeParts, Zenon DEF Served
<1>2. CopyOK'
  BY <1>1, CopyStays, Zenon DEF KernelOK
<1>3. ListOK'
  BY <1>1, ListStays, Zenon DEF ListOK
<1>4. ClientOK' /\ Asked'
  BY <1>1, ClientStays, Zenon
<1>5. Serving'
  BY Zenon DEF Served, Serving, virtmsg
<1>6. TypeOK'
  BY <1>2, <1>3, <1>4, Zenon DEF TypeOK, KernelOK, ListOK, CopyOK, ClientOK
<1> QED
  BY <1>4, <1>5, <1>6, Zenon DEF Served

LEMMA DisciplineKernel ==
    ASSUME KernelOK, NEW n, Discipline(n)
    PROVE  /\ KernelOK' /\ stamp' = stamp + 1 /\ DOMAIN kernel' = DOMAIN kernel
           /\ \A m \in DOMAIN kernel : /\ kernel'[m].index = kernel[m].index
                                       /\ kernel'[m].bound = kernel[m].bound
<1>1. stamp \in Nat /\ stamp' = stamp + 1 /\ DOMAIN kernel' = DOMAIN kernel
  BY Zenon DEF KernelOK, Discipline
<1>2. ASSUME NEW m \in DOMAIN kernel
      PROVE  /\ kernel'[m] \in Timeline /\ kernel'[m].params \in 1 .. stamp'
             /\ kernel'[m].index = kernel[m].index /\ kernel'[m].bound = kernel[m].bound
  <2>1. kernel[m] \in Timeline /\ kernel[m].params \in 1 .. stamp
    BY Zenon DEF KernelOK
  <2>2. \/ kernel'[m] = [kernel[m] EXCEPT !.params = stamp + 1]
        \/ kernel'[m] = [kernel[m] EXCEPT !.params = stamp + 1, !.flag = TRUE]
        \/ kernel'[m] = kernel[m]
    BY Zenon DEF Discipline
  <2>3. stamp + 1 \in 1 .. stamp' /\ stamp + 1 \in Nat /\ 1 .. stamp \subseteq 1 .. stamp'
    BY <1>1
  <2>4. ASSUME kernel'[m] = [kernel[m] EXCEPT !.params = stamp + 1]
        PROVE  /\ kernel'[m] \in Timeline /\ kernel'[m].params = stamp + 1
               /\ kernel'[m].index = kernel[m].index /\ kernel'[m].bound = kernel[m].bound
    BY <2>1, <2>3, <2>4, Zenon DEF Timeline
  <2>5. ASSUME kernel'[m] = [kernel[m] EXCEPT !.params = stamp + 1, !.flag = TRUE]
        PROVE  /\ kernel'[m] \in Timeline /\ kernel'[m].params = stamp + 1
               /\ kernel'[m].index = kernel[m].index /\ kernel'[m].bound = kernel[m].bound
    BY <2>1, <2>3, <2>5, Zenon DEF Timeline
  <2> QED
    BY <2>1, <2>2, <2>3, <2>4, <2>5, Zenon
<1>3. KernelOK'
  BY <1>1, <1>2, KernelChanges
<1> QED
  BY <1>1, <1>2, <1>3, Zenon

LEMMA HostBindKernel ==
    ASSUME KernelOK, NEW n \in HostName, HostBind(n)
    PROVE  /\ KernelOK' /\ (stamp' = stamp \/ stamp' = stamp + 1)
           /\ DOMAIN kernel' = DOMAIN kernel \cup {n}
           /\ \A m \in DOMAIN kernel : /\ kernel'[m].index = kernel[m].index
                                       /\ m # n => kernel'[m] = kernel[m]
           /\ n \notin DOMAIN kernel => kernel'[n].index = idr_alloc
           /\ kernel'[n].bound = IF n \in DOMAIN kernel THEN kernel[n].bound \cup {App} ELSE {App}
<1>1. CASE n \in DOMAIN kernel
  <2>1. kernel' = [kernel EXCEPT ![n].bound = @ \cup {App}] /\ stamp' = stamp
    BY <1>1, Zenon DEF HostBind
  <2>2. DOMAIN kernel' = DOMAIN kernel /\ kernel'[n] = [kernel[n] EXCEPT !.bound = @ \cup {App}]
        /\ \A m \in DOMAIN kernel : m # n => kernel'[m] = kernel[m]
    BY <1>1, <2>1, Zenon
  <2>3. kernel[n] \in Timeline /\ kernel[n].params \in 1 .. stamp
    BY <1>1, Zenon DEF KernelOK
  <2>4. /\ kernel'[n] \in Timeline /\ kernel'[n].params = kernel[n].params
        /\ kernel'[n].index = kernel[n].index /\ kernel'[n].bound = kernel[n].bound \cup {App}
    BY <2>2, <2>3 DEF Timeline
  <2>5. \A m \in DOMAIN kernel : kernel'[m] \in Timeline /\ kernel'[m].params \in 1 .. stamp'
    BY <2>1, <2>2, <2>3, <2>4, Zenon DEF KernelOK
  <2>6. KernelOK'
    BY <2>1, <2>2, <2>5, KernelChanges, Zenon DEF KernelOK
  <2> QED
    BY <1>1, <2>1, <2>2, <2>4, <2>6, Zenon
<1>2. CASE n \notin DOMAIN kernel
  <2>1. kernel' = Created(n, {App}) /\ stamp' = stamp + 1
    BY <1>2, Zenon DEF HostBind
  <2>2. /\ KernelOK' /\ DOMAIN kernel' = DOMAIN kernel \cup {n}
        /\ \A m \in DOMAIN kernel : m # n => kernel'[m] = kernel[m]
        /\ kernel'[n].index = idr_alloc /\ kernel'[n].bound = {App}
    BY <2>1, CreatedOK, Zenon
  <2> QED
    BY <1>2, <2>1, <2>2, Zenon
<1> QED
  BY <1>1, <1>2, Zenon

LEMMA HostUnbindKernel ==
    ASSUME KernelOK, NEW n \in HostName, HostUnbind(n)
    PROVE  /\ KernelOK' /\ stamp' = stamp
           /\ DOMAIN kernel' \subseteq DOMAIN kernel /\ DOMAIN kernel \ {n} \subseteq DOMAIN kernel'
           /\ \A m \in DOMAIN kernel' : /\ kernel'[m].index = kernel[m].index
                                        /\ m # n => kernel'[m] = kernel[m]
                                        /\ kernel'[m].bound \subseteq kernel[m].bound
<1>1. CASE kernel[n].bound = {App}
  <2>1. kernel' = Restrict(kernel, DOMAIN kernel \ {n}) /\ stamp' = stamp
    BY <1>1, Zenon DEF HostUnbind
  <2> QED
    BY <2>1, RestrictOK, Zenon
<1>2. CASE kernel[n].bound # {App}
  <2>1. n \in DOMAIN kernel /\ kernel' = Leaves(n, App) /\ stamp' = stamp
    BY <1>2, Zenon DEF HostUnbind
  <2> QED
    BY <2>1, LeavesOK, Zenon
<1> QED
  BY <1>1, <1>2, Zenon

LEMMA HostPollKernel ==
    ASSUME KernelOK, NEW n, HostPoll(n)
    PROVE  /\ KernelOK' /\ stamp' = stamp /\ DOMAIN kernel' = DOMAIN kernel
           /\ \A m \in DOMAIN kernel : /\ kernel'[m].index = kernel[m].index
                                       /\ kernel'[m].bound = kernel[m].bound
<1>1. n \in DOMAIN kernel /\ stamp' = stamp /\ DOMAIN kernel' = DOMAIN kernel
      /\ kernel'[n] = [kernel[n] EXCEPT !.flag = FALSE]
      /\ \A m \in DOMAIN kernel : m # n => kernel'[m] = kernel[m]
  BY Zenon DEF HostPoll
<1>2. ASSUME NEW m \in DOMAIN kernel
      PROVE  /\ kernel'[m] \in Timeline /\ kernel'[m].params \in 1 .. stamp'
             /\ kernel'[m].index = kernel[m].index /\ kernel'[m].bound = kernel[m].bound
  <2>1. kernel[m] \in Timeline /\ kernel[m].params \in 1 .. stamp
    BY DEF KernelOK
  <2>2. CASE m = n
    BY <1>1, <2>1, <2>2, Zenon DEF Timeline
  <2>3. CASE m # n
    BY <1>1, <2>1, <2>3, Zenon
  <2> QED
    BY <2>2, <2>3, Zenon
<1>3. KernelOK'
  BY <1>1, <1>2, KernelChanges, Zenon DEF KernelOK
<1> QED
  BY <1>1, <1>2, <1>3, Zenon

LEMMA HostStepServed ==
    ASSUME Served, HostStep
    PROVE  Served'
<1>1. KernelOK
  BY TypeParts, Zenon DEF Served
<1>2. ASSUME NEW n \in Name \cup HostName, Discipline(n) PROVE Served'
  <2>1. KernelOK' /\ stamp' = stamp + 1
    BY <1>1, <1>2, DisciplineKernel, Zenon
  <2> QED
    BY <1>2, <2>1, HostServed, Zenon DEF Discipline
<1>3. ASSUME NEW n \in HostName, HostBind(n) PROVE Served'
  <2>1. KernelOK' /\ (stamp' = stamp \/ stamp' = stamp + 1)
    BY <1>1, <1>3, HostBindKernel, Zenon
  <2> QED
    BY <1>3, <2>1, HostServed, Zenon DEF HostBind
<1>4. ASSUME NEW n \in HostName, HostUnbind(n) PROVE Served'
  <2>1. KernelOK' /\ stamp' = stamp
    BY <1>1, <1>4, HostUnbindKernel, Zenon
  <2> QED
    BY <1>4, <2>1, HostServed, Zenon DEF HostUnbind
<1>5. ASSUME NEW n \in HostName, HostPoll(n) PROVE Served'
  <2>1. KernelOK' /\ stamp' = stamp
    BY <1>1, <1>5, HostPollKernel, Zenon
  <2> QED
    BY <1>5, <2>1, HostServed, Zenon DEF HostPoll
<1> QED
  BY <1>2, <1>3, <1>4, <1>5, Zenon DEF HostStep

-----------------------------------------------------------------------------
\* The guests.

\* One guest, whose message the main thread does not have, changes its state and its message.
LEMMA ClientChanges ==
    ASSUME Served, NEW g \in Guest, NEW c \in Client, NEW m \in Request \cup {Nil},
           UNCHANGED <<kernel, vtimeline, tl_count, main, thread, shm, running, fault, stamp>>,
           guest' = [guest EXCEPT ![g] = c], msg' = [msg EXCEPT ![g] = m],
           m # Nil <=> c.pc \in {"binding", "updating", "unbinding"},
           c.pc \in {"bound", "updating", "unbinding"} => c.name \in Name /\ c.index \in Nat,
           c.pc = "binding" => m.type = "TIMELINE_CREATE",
           c.pc = "updating" => m.type = "TIMELINE_UPDATE" /\ m.name = c.name,
           c.pc = "unbinding" => m.type = "TIMELINE_DESTROY" /\ m.name = c.name,
           main.pc \notin Pause => main.of # g
    PROVE  Served'
<1>1. KernelOK /\ ListOK /\ CopyOK /\ ClientOK /\ Asked
  BY TypeParts, Zenon DEF Served
<1>2. /\ guest' \in [Guest -> Client] /\ msg' \in [Guest -> Request \cup {Nil}]
      /\ guest'[g] = c /\ msg'[g] = m
      /\ \A h \in Guest : h # g => guest'[h] = guest[h] /\ msg'[h] = msg[h]
  BY <1>1, Zenon DEF ClientOK
<1>3. ClientOK'
  BY <1>1, <1>2, Zenon DEF ClientOK
<1>4. Asked'
  BY <1>1, <1>2, Zenon DEF Asked
<1>5. KernelOK' /\ CopyOK' /\ ListOK'
  BY <1>1, KernelStays, CopyStays, ListStays, Zenon DEF KernelOK, ListOK
<1>6. TypeOK'
  BY <1>3, <1>5, Zenon DEF TypeOK, KernelOK, ListOK, CopyOK, ClientOK
<1>7. Serving'
  <2>1. Serving /\ main.pc \in Label
    BY <1>1, Zenon DEF Served, ListOK
  <2>2. CASE main.pc \in Pause
    BY <2>1, <2>2, Zenon DEF Serving, Pause, Creating, Destroying, Leaving
  <2>3. CASE main.pc \notin Pause
    <3>1. main.of \in Guest /\ main.of # g
      BY <2>1, <2>3, Zenon DEF Serving
    <3>2. guest'[main.of] = guest[main.of] /\ msg'[main.of] = msg[main.of]
      BY <1>2, <3>1, Zenon
    <3> QED
      BY <2>1, <3>2, Zenon DEF Serving, virtmsg
  <2> QED
    BY <2>2, <2>3, Zenon
<1> QED
  BY <1>4, <1>6, <1>7, Zenon DEF Served

\* The main thread has no message of a guest that is not waiting, or that has its reply.
LEMMA NotServed ==
    ASSUME Served, NEW g \in Guest, main.pc \notin Pause,
           guest[g].pc \in {"idle", "bound"} \/ msg[g].done
    PROVE  main.of # g
<1>1. main.pc \in Label
  BY TypeParts, Zenon DEF Served, ListOK
<1>2. main.pc \in Creating \cup Destroying \cup {"TIMELINE_UPDATE"}
  BY <1>1, Zenon DEF Label, Pause, Creating, Destroying, Leaving
<1>3. guest[main.of].pc \in {"binding", "updating", "unbinding"} /\ ~ msg[main.of].done
  BY <1>2, Zenon DEF Served, Serving
<1> QED
  BY <1>3, Zenon

\* A call of a guest sends its message.
LEMMA CallServed ==
    ASSUME Served, NEW g \in Guest, NEW d \in Nat, NEW pc, NEW type, NEW n \in Name, NEW i \in Nat,
           \/ pc = "binding" /\ type = "TIMELINE_CREATE" /\ guest[g].pc = "idle"
           \/ /\ guest[g].pc = "bound" /\ n = guest[g].name /\ i = guest[g].index
              /\ \/ pc = "updating" /\ type = "TIMELINE_UPDATE"
                 \/ pc = "unbinding" /\ type = "TIMELINE_DESTROY",
           guest' = [guest EXCEPT ![g] = [@ EXCEPT !.pc = pc, !.demand = d]],
           Send(g, type, n, i, d)
    PROVE  Served'
<1> DEFINE c == [guest[g] EXCEPT !.pc = pc, !.demand = d]
           m == [type |-> type, name |-> n, index |-> i, demand |-> d, ok |-> TRUE, done |-> FALSE]
<1>1. guest[g] \in Client
  BY TypeParts, Zenon DEF Served, ClientOK
<1>2. c \in Client /\ c.pc = pc /\ c.name = guest[g].name /\ c.index = guest[g].index
  BY <1>1, Zenon DEF Client
<1>3. m \in Request /\ m.type = type /\ m.name = n
  BY Zenon DEF Request
<1>4. m # Nil
  BY <1>3, RequestAssumption, Zenon
<1>5. guest' = [guest EXCEPT ![g] = c] /\ msg' = [msg EXCEPT ![g] = m]
      /\ UNCHANGED <<kernel, vtimeline, tl_count, main, thread, shm, running, fault, stamp>>
  BY Zenon DEF Send
<1>6. main.pc \notin Pause => main.of # g
  BY NotServed, Zenon
<1> HIDE DEF c, m
<1>7. /\ m # Nil <=> c.pc \in {"binding", "updating", "unbinding"}
      /\ c.pc \in {"bound", "updating", "unbinding"} => c.name \in Name /\ c.index \in Nat
      /\ c.pc = "binding" => m.type = "TIMELINE_CREATE"
      /\ c.pc = "updating" => m.type = "TIMELINE_UPDATE" /\ m.name = c.name
      /\ c.pc = "unbinding" => m.type = "TIMELINE_DESTROY" /\ m.name = c.name
  BY <1>2, <1>3, <1>4, Zenon
<1>8. m \in Request \cup {Nil}
  BY <1>3, Zenon
<1> QED
  BY <1>2, <1>5, <1>6, <1>7, <1>8, ClientChanges, Zenon

LEMMA BindServed ==
    ASSUME Served, NEW g \in Guest, NEW n \in Name, NEW d \in Demand, NEW i \in GuestIndex,
           timeline_bind(g, n, d, i)
    PROVE  Served'
<1>1. d \in Nat /\ i \in Nat
  BY VirtAssumption, Zenon
<1>2. /\ guest[g].pc = "idle" /\ Send(g, "TIMELINE_CREATE", n, i, d)
      /\ guest' = [guest EXCEPT ![g] = [@ EXCEPT !.pc = "binding", !.demand = d]]
  BY Zenon DEF timeline_bind, Lives
<1> QED
  BY <1>1, <1>2, CallServed, Zenon

LEMMA SetServed ==
    ASSUME Served, NEW g \in Guest, NEW d \in Demand, timeline_set(g, d)
    PROVE  Served'
<1>1. d \in Nat
  BY VirtAssumption, Zenon
<1>2. /\ guest[g].pc = "bound" /\ Send(g, "TIMELINE_UPDATE", guest[g].name, guest[g].index, d)
      /\ guest' = [guest EXCEPT ![g] = [@ EXCEPT !.pc = "updating", !.demand = d]]
  BY Zenon DEF timeline_set, Lives
<1>3. guest[g].name \in Name /\ guest[g].index \in Nat
  BY <1>2, Zenon DEF Served, Asked
<1> QED
  BY <1>1, <1>2, <1>3, CallServed, Zenon

LEMMA UnbindServed ==
    ASSUME Served, NEW g \in Guest, timeline_unbind(g)
    PROVE  Served'
<1>1. guest[g] \in Client
  BY TypeParts, Zenon DEF Served, ClientOK
<1>2. /\ guest[g].pc = "bound"
      /\ Send(g, "TIMELINE_DESTROY", guest[g].name, guest[g].index, guest[g].demand)
      /\ guest' = [guest EXCEPT ![g] = [@ EXCEPT !.pc = "unbinding"]]
  BY Zenon DEF timeline_unbind, Lives
<1>3. guest[g].name \in Name /\ guest[g].index \in Nat /\ guest[g].demand \in Nat
  BY <1>1, <1>2, Zenon DEF Served, Asked, Client
<1>4. [guest[g] EXCEPT !.pc = "unbinding"] = [guest[g] EXCEPT !.pc = "unbinding", !.demand = guest[g].demand]
  BY <1>1, Zenon DEF Client
<1>5. guest' = [guest EXCEPT ![g] = [@ EXCEPT !.pc = "unbinding", !.demand = guest[g].demand]]
  BY <1>2, <1>4, Zenon
<1> QED
  BY <1>2, <1>3, <1>5, CallServed, Zenon

\* What a guest is after the reply.
After(g) ==
    CASE guest[g].pc = "binding"   -> [guest[g] EXCEPT !.pc = "bound", !.name = msg[g].name,
                                                       !.index = msg[g].index, !.ok = msg[g].ok]
      [] guest[g].pc = "unbinding" -> Outside
      [] OTHER                     -> [guest[g] EXCEPT !.pc = "bound"]

LEMMA AfterOK ==
    ASSUME Served, NEW g \in Guest, msg[g] # Nil
    PROVE  /\ After(g) \in Client /\ After(g).pc \in {"bound", "idle"}
           /\ guest[g].pc = "binding" =>
                 /\ After(g).pc = "bound" /\ After(g).name = msg[g].name
                 /\ After(g).index = msg[g].index /\ After(g).ok = msg[g].ok
           /\ guest[g].pc = "unbinding" => After(g).pc = "idle"
           /\ guest[g].pc = "updating" =>
                 /\ After(g).pc = "bound" /\ After(g).name = guest[g].name
                 /\ After(g).index = guest[g].index /\ After(g).ok = guest[g].ok
           /\ After(g).pc = "bound" => After(g).name \in Name /\ After(g).index \in Nat
<1>1. guest[g] \in Client /\ msg[g] \in Request /\ guest[g].pc \in {"binding", "updating", "unbinding"}
  BY TypeParts, Zenon DEF Served, ClientOK
<1>2. CASE guest[g].pc = "binding"
  <2>1. After(g) = [guest[g] EXCEPT !.pc = "bound", !.name = msg[g].name,
                                    !.index = msg[g].index, !.ok = msg[g].ok]
    BY <1>2, Zenon DEF After
  <2>2. msg[g].name \in Name /\ msg[g].index \in Nat /\ msg[g].ok \in BOOLEAN
    BY <1>1, Zenon DEF Request
  <2> QED
    BY <1>1, <1>2, <2>1, <2>2, Zenon DEF Client
<1>3. CASE guest[g].pc = "unbinding"
  BY <1>3, Zenon DEF After, Outside, Client
<1>4. CASE guest[g].pc = "updating"
  <2>1. After(g) = [guest[g] EXCEPT !.pc = "bound"]
    BY <1>4, Zenon DEF After
  <2>2. guest[g].name \in Name /\ guest[g].index \in Nat
    BY <1>4, Zenon DEF Served, Asked
  <2> QED
    BY <1>1, <1>4, <2>1, <2>2, Zenon DEF Client
<1> QED
  BY <1>1, <1>2, <1>3, <1>4, Zenon

LEMMA RepliedServed ==
    ASSUME Served, NEW g \in Guest, Replied(g)
    PROVE  Served'
<1>1. msg[g] # Nil /\ msg[g].done
  BY Zenon DEF Replied
<1>2. After(g) \in Client /\ After(g).pc \in {"bound", "idle"}
      /\ (After(g).pc = "bound" => After(g).name \in Name /\ After(g).index \in Nat)
  BY <1>1, AfterOK, Zenon
<1>3. guest' = [guest EXCEPT ![g] = After(g)]
  BY Zenon DEF Replied, After
<1>4. msg' = [msg EXCEPT ![g] = Nil]
      /\ UNCHANGED <<kernel, vtimeline, tl_count, main, thread, shm, running, fault, stamp>>
  BY Zenon DEF Replied
<1>5. main.pc \notin Pause => main.of # g
  BY <1>1, NotServed, Zenon
<1> QED
  BY <1>2, <1>3, <1>4, <1>5, ClientChanges, Zenon

LEMMA CrashServed ==
    ASSUME Served, NEW g \in Guest, Crash(g)
    PROVE  /\ Served'
           /\ \A h \in Guest : /\ guest'[h].pc = guest[h].pc /\ guest'[h].name = guest[h].name
                               /\ guest'[h].index = guest[h].index /\ guest'[h].ok = guest[h].ok
<1>1. KernelOK /\ ListOK /\ CopyOK /\ ClientOK /\ Asked
  BY TypeParts, Zenon DEF Served
<1>2. /\ guest' = [guest EXCEPT ![g] = [@ EXCEPT !.alive = FALSE]]
      /\ UNCHANGED <<kernel, vtimeline, tl_count, main, thread, shm, msg, running, fault, stamp>>
  BY Zenon DEF Crash
<1>3. guest[g] \in Client
  BY <1>1, Zenon DEF ClientOK
<1> DEFINE c == [guest[g] EXCEPT !.alive = FALSE]
<1>4. c \in Client /\ c.pc = guest[g].pc /\ c.name = guest[g].name /\ c.index = guest[g].index
      /\ c.ok = guest[g].ok
  BY <1>3, Zenon DEF Client
<1>5. guest' = [guest EXCEPT ![g] = c]
  BY <1>2, Zenon
<1> HIDE DEF c
<1>6. guest' \in [Guest -> Client] /\ \A h \in Guest :
         /\ guest'[h].pc = guest[h].pc /\ guest'[h].name = guest[h].name
         /\ guest'[h].index = guest[h].index /\ guest'[h].ok = guest[h].ok
  BY <1>1, <1>4, <1>5, Zenon DEF ClientOK
<1>7. ClientOK'
  BY <1>1, <1>2, <1>6, Zenon DEF ClientOK
<1>8. Asked'
  BY <1>1, <1>2, <1>6 DEF Asked
<1>9. KernelOK' /\ CopyOK' /\ ListOK'
  BY <1>1, <1>2, KernelStays, CopyStays, ListStays, Zenon DEF KernelOK, ListOK
<1>10. TypeOK'
  BY <1>7, <1>9, Zenon DEF TypeOK, KernelOK, ListOK, CopyOK, ClientOK
<1>11. Serving'
  <2>1. Serving /\ main.pc \in Label
    BY <1>1, Zenon DEF Served, ListOK
  <2>2. main.pc \notin Pause => guest'[main.of].pc = guest[main.of].pc
    BY <1>6, <2>1, Zenon DEF Serving
  <2> QED
    BY <1>2, <2>1, <2>2, Zenon DEF Serving, virtmsg, Pause, Creating, Destroying, Leaving
<1> QED
  BY <1>6, <1>8, <1>10, <1>11, Zenon DEF Served

LEMMA GuestServed ==
    ASSUME Served, NEW g \in Guest, GuestStep(g)
    PROVE  Served'
BY BindServed, SetServed, UnbindServed, RepliedServed, CrashServed, Zenon DEF GuestStep

-----------------------------------------------------------------------------
\* The list.

LEMMA SlotFinite ==
    /\ IsFiniteSet(Slot) /\ Cardinality(Slot) = MAX_TIMELINES /\ Slot \subseteq Nat
    /\ IsFiniteSet(Listed) /\ Cardinality(Listed) \in Nat /\ Listed \subseteq Slot
<1>1. MAX_TIMELINES \in Nat
  BY VirtAssumption, Zenon
<1>2. IsFiniteSet(0 .. MAX_TIMELINES - 1) /\ Cardinality(0 .. MAX_TIMELINES - 1) = MAX_TIMELINES
  <2> DEFINE b == MAX_TIMELINES - 1
  <2>1. 0 \in Int /\ b \in Int
    BY <1>1
  <2>2. /\ IsFiniteSet(0 .. b)
        /\ Cardinality(0 .. b) = IF 0 > b THEN 0 ELSE b - 0 + 1
    <3> HIDE DEF b
    <3> QED
      BY <2>1, FS_Interval, Zenon
  <2> QED
    BY <1>1, <2>2
<1>3. IsFiniteSet(Slot) /\ Cardinality(Slot) = MAX_TIMELINES
  BY <1>2, Zenon DEF Slot
<1>4. Slot \subseteq Nat
  BY <1>1 DEF Slot
<1>5. Listed \subseteq Slot
  BY Zenon DEF Listed
<1>6. IsFiniteSet(Listed)
  BY <1>3, <1>5, FS_Subset, Zenon
<1> QED
  BY <1>3, <1>4, <1>5, <1>6, FS_CardinalityType, Zenon

\* Only the counts change.
LEMMA CountBindOK ==
    ASSUME NEW list \in [Slot -> Entry], NEW i, NEW n \in Int
    PROVE  /\ CountBind(i, list, n) \in [Slot -> Entry]
           /\ \A k \in Slot : /\ CountBind(i, list, n)[k].index = list[k].index
                              /\ CountBind(i, list, n)[k].running = list[k].running
                              /\ ~ IsFirst(k, i, list) => CountBind(i, list, n)[k] = list[k]
                              /\ IsFirst(k, i, list) =>
                                    CountBind(i, list, n)[k].bind_count = list[k].bind_count + n
<1> DEFINE l == CountBind(i, list, n)
<1>1. ASSUME NEW k \in Slot
      PROVE  /\ l[k] \in Entry /\ l[k].index = list[k].index /\ l[k].running = list[k].running
             /\ ~ IsFirst(k, i, list) => l[k] = list[k]
             /\ IsFirst(k, i, list) => l[k].bind_count = list[k].bind_count + n
  <2>1. list[k] \in Entry
    BY Zenon
  <2>2. CASE IsFirst(k, i, list)
    <3>1. l[k] = [list[k] EXCEPT !.bind_count = @ + n]
      BY <2>2, Zenon DEF CountBind
    <3> QED
      BY <2>1, <2>2, <3>1 DEF Entry
  <2>3. CASE ~ IsFirst(k, i, list)
    <3>1. l[k] = list[k]
      BY <2>3, Zenon DEF CountBind
    <3> QED
      BY <2>1, <2>3, <3>1, Zenon
  <2> QED
    BY <2>2, <2>3, Zenon
<1>2. l = [k \in Slot |-> l[k]]
  BY Zenon DEF CountBind
<1> HIDE DEF l
<1>3. l \in [Slot -> Entry]
  BY <1>1, <1>2, Zenon
<1> QED
  BY <1>1, <1>3, Zenon DEF l

LEMMA CountedList ==
    ASSUME ListOK, NEW i, NEW n \in Int, vtimeline' = CountBind(i, vtimeline, n), UNCHANGED tl_count,
           main' \in [pc : Label, of : Guest \cup {Nil}, tl_id : Slot \cup {-1}]
    PROVE  ListOK' /\ Listed' = Listed /\ \A k \in Slot : vtimeline'[k].index = vtimeline[k].index
<1>1. vtimeline' \in [Slot -> Entry] /\ \A k \in Slot : vtimeline'[k].index = vtimeline[k].index
  BY CountBindOK DEF ListOK
<1>2. Listed' = Listed
  BY <1>1, Zenon DEF Listed
<1> QED
  BY <1>1, <1>2, Zenon DEF ListOK

\* A list that is not full has a free entry, where a new one goes.
LEMMA AddedList ==
    ASSUME ListOK, tl_count < MAX_TIMELINES, NEW i \in Nat,
           vtimeline' = increment_bind_count(i, add_timeline_to_list(i, vtimeline)),
           tl_count' = tl_count + 1,
           main' \in [pc : Label, of : Guest \cup {Nil}, tl_id : Slot \cup {-1}]
    PROVE  LET f == get_timeline_list_id(-1)
           IN  /\ ListOK' /\ f \in Slot /\ vtimeline[f].index = -1 /\ Listed' = Listed \cup {f}
               /\ vtimeline'[f].index = i /\ vtimeline'[f].running
               /\ \A k \in Slot : k # f => /\ vtimeline'[k].index = vtimeline[k].index
                                           /\ vtimeline'[k].running = vtimeline[k].running
               /\ (\A k \in Slot : vtimeline[k].index # i) =>
                     /\ vtimeline'[f].bind_count = 1
                     /\ \A k \in Slot : k # f => vtimeline'[k] = vtimeline[k]
<1> DEFINE f == get_timeline_list_id(-1)
           e == [index |-> i, bind_count |-> 0, running |-> TRUE]
           l == add_timeline_to_list(i, vtimeline)
<1>1. vtimeline \in [Slot -> Entry]
  BY Zenon DEF ListOK
<1>2. Entries(-1) # {}
  <2>1. Cardinality(Listed) < Cardinality(Slot)
    BY SlotFinite, Zenon DEF ListOK
  <2>2. Cardinality(Slot) \in Nat /\ Cardinality(Listed) \in Nat
    BY SlotFinite, VirtAssumption, Zenon
  <2>3. Listed # Slot
    BY <2>1, <2>2
  <2> QED
    BY <2>3, SlotFinite, Zenon DEF Listed, Entries
<1>3. f \in Slot /\ \A k \in Slot : IsFirst(k, -1, vtimeline) <=> k = f
  BY <1>2, FirstEntry, Zenon
<1> HIDE DEF f
<1>4. vtimeline[f].index = -1
  BY <1>3, Zenon DEF IsFirst
<1>5. l = [k \in Slot |-> IF k = f THEN e ELSE vtimeline[k]]
  BY <1>3, Zenon DEF add_timeline_to_list, SetEntry
<1>6. e \in Entry /\ e.index = i /\ e.bind_count = 0 /\ e.running
  BY DEF Entry
<1> HIDE DEF e, l
<1>7. l \in [Slot -> Entry] /\ l[f] = e /\ \A k \in Slot : k # f => l[k] = vtimeline[k]
  BY <1>1, <1>3, <1>5, <1>6, Zenon
<1>8. vtimeline' = CountBind(i, l, 1)
  BY Zenon DEF increment_bind_count, l
<1>9. /\ vtimeline' \in [Slot -> Entry]
      /\ \A k \in Slot : /\ vtimeline'[k].index = l[k].index
                         /\ vtimeline'[k].running = l[k].running
                         /\ ~ IsFirst(k, i, l) => vtimeline'[k] = l[k]
                         /\ IsFirst(k, i, l) => vtimeline'[k].bind_count = l[k].bind_count + 1
  <2>1. 1 \in Int
    OBVIOUS
  <2> QED
    BY <1>7, <1>8, <2>1, CountBindOK
<1>10. /\ vtimeline'[f].index = i /\ vtimeline'[f].running
       /\ \A k \in Slot : k # f => /\ vtimeline'[k].index = vtimeline[k].index
                                   /\ vtimeline'[k].running = vtimeline[k].running
  BY <1>3, <1>6, <1>7, <1>9
<1>11. Listed' = Listed \cup {f} /\ f \notin Listed
  BY <1>3, <1>4, <1>10 DEF Listed
<1>12. Cardinality(Listed') = Cardinality(Listed) + 1
  BY <1>11, SlotFinite, FS_AddElement, Zenon
<1>13. ListOK'
  BY <1>9, <1>12, Zenon DEF ListOK
<1>14. ASSUME \A k \in Slot : vtimeline[k].index # i
       PROVE  vtimeline'[f].bind_count = 1 /\ \A k \in Slot : k # f => vtimeline'[k] = vtimeline[k]
  <2>1. \A k \in Slot : IsFirst(k, i, l) <=> k = f
    <3>1. \A k \in Slot : l[k].index = i <=> k = f
      BY <1>3, <1>6, <1>7, <1>14, Zenon
    <3>2. f \in Nat
      BY <1>3, SlotFinite, Zenon
    <3> QED
      BY <1>3, <3>1, <3>2, Zenon DEF IsFirst
  <2> QED
    BY <1>3, <1>6, <1>7, <1>9, <2>1
<1> QED
  BY <1>3, <1>4, <1>10, <1>11, <1>13, <1>14, Zenon DEF f

\* The first entry with an index is freed.
LEMMA RemovedList ==
    ASSUME ListOK, NEW i \in Nat, NEW j \in Slot, vtimeline[j].index = i,
           vtimeline' = remove_timeline_from_list(i, vtimeline),
           tl_count' = IF tl_count > 0 THEN tl_count - 1 ELSE 0,
           main' \in [pc : Label, of : Guest \cup {Nil}, tl_id : Slot \cup {-1}]
    PROVE  LET f == get_timeline_list_id(i)
           IN  /\ ListOK' /\ f \in Slot /\ vtimeline[f].index = i /\ Listed' = Listed \ {f}
               /\ vtimeline'[f] = Free
               /\ \A k \in Slot : k # f => vtimeline'[k] = vtimeline[k]
<1> DEFINE f == get_timeline_list_id(i)
<1>1. vtimeline \in [Slot -> Entry] /\ tl_count = Cardinality(Listed)
  BY Zenon DEF ListOK
<1>2. Entries(i) # {}
  BY Zenon DEF Entries
<1>3. f \in Slot /\ \A k \in Slot : IsFirst(k, i, vtimeline) <=> k = f
  BY <1>2, FirstEntry, Zenon
<1> HIDE DEF f
<1>4. vtimeline[f].index = i
  BY <1>3, Zenon DEF IsFirst
<1>5. Free \in Entry /\ Free.index = -1
  BY DEF Free, Entry
<1>6. vtimeline' = [k \in Slot |-> IF k = f THEN Free ELSE vtimeline[k]]
  BY <1>3, Zenon DEF remove_timeline_from_list, SetEntry
<1>7. /\ vtimeline' \in [Slot -> Entry] /\ vtimeline'[f] = Free
      /\ \A k \in Slot : k # f => vtimeline'[k] = vtimeline[k]
  BY <1>1, <1>3, <1>5, <1>6, Zenon
<1>8. Listed' = Listed \ {f} /\ f \in Listed
  BY <1>3, <1>4, <1>5, <1>7 DEF Listed
<1>9. Cardinality(Listed') = Cardinality(Listed) - 1 /\ Cardinality(Listed) # 0
  BY <1>8, SlotFinite, FS_RemoveElement, FS_EmptySet, Zenon
<1>10. tl_count' = Cardinality(Listed')
  BY <1>1, <1>9, SlotFinite
<1> QED
  BY <1>3, <1>4, <1>7, <1>8, <1>10, Zenon DEF ListOK, f

-----------------------------------------------------------------------------
\* The main thread.

\* What a step of the main thread has to establish.
LEMMA MainServed ==
    ASSUME KernelOK', ListOK', ClientOK', Asked', Serving', CopyOK'
    PROVE  Served'
BY Zenon DEF Served, TypeOK, KernelOK, ListOK, CopyOK, ClientOK

LEMMA ReadServed ==
    ASSUME Served, NEW g \in Guest, Read(g)
    PROVE  Served'
<1>1. KernelOK /\ ListOK /\ CopyOK /\ ClientOK /\ Asked
  BY TypeParts, Zenon DEF Served
<1>2. /\ msg[g] # Nil /\ ~ msg[g].done
      /\ main' = [pc |-> msg[g].type, of |-> g, tl_id |-> -1]
      /\ UNCHANGED <<kernel, vtimeline, tl_count, msg, fault, thread, shm, guest, running, stamp>>
  BY Zenon DEF Read, others
<1>3. msg[g] \in Request /\ guest[g].pc \in {"binding", "updating", "unbinding"}
  BY <1>1, <1>2, Zenon DEF ClientOK
<1>4. msg[g].type \in {"TIMELINE_CREATE", "TIMELINE_UPDATE", "TIMELINE_DESTROY"}
  BY <1>3, Zenon DEF Request
<1>5. main' \in [pc : Label, of : Guest \cup {Nil}, tl_id : Slot \cup {-1}]
      /\ main'.pc = msg[g].type /\ main'.of = g
  BY <1>2, <1>4, Zenon DEF Label
<1>6. KernelOK' /\ CopyOK' /\ ListOK' /\ ClientOK' /\ Asked'
  BY <1>1, <1>2, <1>5, KernelStays, CopyStays, ListStays, ClientStays, Zenon DEF KernelOK
<1>7. Serving'
  BY <1>1, <1>2, <1>3, <1>4, <1>5, Zenon DEF Serving, Asked, Pause, Creating, Destroying,
                                             Leaving
<1> QED
  BY <1>6, <1>7, MainServed, Zenon

\* The main thread goes on to another step for the same message.
LEMMA GotoServed ==
    ASSUME Served, main.pc \notin Pause, NEW pc \in Label, Goto(pc)
    PROVE  /\ main' \in [pc : Label, of : Guest \cup {Nil}, tl_id : Slot \cup {-1}]
           /\ main'.pc = pc /\ main'.of = main.of /\ main'.tl_id = main.tl_id
<1>1. main \in [pc : Label, of : Guest \cup {Nil}, tl_id : Slot \cup {-1}]
  BY TypeParts, Zenon DEF Served, ListOK
<1> QED
  BY <1>1, Zenon DEF Goto

LEMMA CreateServed ==
    ASSUME Served, TIMELINE_CREATE
    PROVE  Served'
<1>1. KernelOK /\ ListOK /\ CopyOK /\ ClientOK /\ Asked /\ Serving
  BY TypeParts, Zenon DEF Served
<1>2. /\ main.pc = "TIMELINE_CREATE" /\ main.pc \notin Pause
      /\ UNCHANGED <<kernel, tl_count, fault, thread, shm, guest, running, stamp>>
  BY Zenon DEF TIMELINE_CREATE, At, others, Pause
<1>3. KernelOK' /\ CopyOK'
  BY <1>1, <1>2, KernelStays, CopyStays, Zenon DEF KernelOK
<1>4. main.of \in Guest /\ virtmsg \in Request
  BY <1>2, Current_Message, Zenon
<1>5. CASE Exists
  <2> DEFINE i == kernel[virtmsg.name].index
             m == [virtmsg EXCEPT !.index = i]
  <2>1. i \in Nat
    BY <1>1, <1>5, Zenon DEF Exists, KernelOK, Timeline
  <2>2. m \in Request /\ m.type = virtmsg.type /\ m.name = virtmsg.name
    BY <1>4, <2>1, Zenon DEF Request
  <2>3. Reply(m) /\ vtimeline' = CountBind(i, vtimeline, 1)
    BY <1>5, Zenon DEF TIMELINE_CREATE, increment_bind_count
  <2> HIDE DEF m, i
  <2>4. /\ ClientOK' /\ Asked' /\ Serving'
        /\ main' \in [pc : Label, of : Guest \cup {Nil}, tl_id : Slot \cup {-1}]
    BY <1>2, <2>2, <2>3, ReplyOK, Zenon
  <2>5. ListOK'
    BY <1>1, <1>2, <2>3, <2>4, CountedList
  <2> QED
    BY <1>3, <2>4, <2>5, MainServed, Zenon
<1>6. CASE ~ Exists /\ tl_count < MAX_TIMELINES
  <2>1. Goto("create") /\ UNCHANGED <<msg, vtimeline>>
    BY <1>6, Zenon DEF TIMELINE_CREATE
  <2>2. /\ main' \in [pc : Label, of : Guest \cup {Nil}, tl_id : Slot \cup {-1}]
        /\ main'.pc = "create" /\ main'.of = main.of
    BY <1>2, <2>1, GotoServed, Zenon DEF Label
  <2>3. ListOK' /\ ClientOK' /\ Asked'
    BY <1>1, <1>2, <2>1, <2>2, ListStays, ClientStays, Zenon
  <2>4. Serving'
    BY <1>1, <1>2, <1>6, <2>1, <2>2, Zenon DEF Serving, Pause, Creating, Destroying, Leaving
  <2> QED
    BY <1>3, <2>3, <2>4, MainServed, Zenon
<1>7. CASE ~ Exists /\ ~ (tl_count < MAX_TIMELINES)
  <2> DEFINE m == [virtmsg EXCEPT !.ok = FALSE]
  <2>1. m \in Request /\ m.type = virtmsg.type /\ m.name = virtmsg.name
    BY <1>4, Zenon DEF Request
  <2>2. Reply(m) /\ UNCHANGED vtimeline
    BY <1>7, Zenon DEF TIMELINE_CREATE
  <2> HIDE DEF m
  <2>3. /\ ClientOK' /\ Asked' /\ Serving'
        /\ main' \in [pc : Label, of : Guest \cup {Nil}, tl_id : Slot \cup {-1}]
    BY <1>2, <2>1, <2>2, ReplyOK, Zenon
  <2>4. ListOK'
    BY <1>1, <1>2, <2>2, <2>3, ListStays, Zenon
  <2> QED
    BY <1>3, <2>3, <2>4, MainServed
<1> QED
  BY <1>5, <1>6, <1>7, Zenon

LEMMA CreateTimelineServed ==
    ASSUME Served, CREATE_TIMELINE
    PROVE  Served'
<1>1. KernelOK /\ ListOK /\ CopyOK /\ ClientOK /\ Asked /\ Serving
  BY TypeParts, Zenon DEF Served
<1>2. /\ main.pc = "create" /\ main.pc \notin Pause /\ main.pc \in Creating
      /\ UNCHANGED <<fault, thread, shm, guest, running>>
      /\ main' = [main EXCEPT !.pc = "join", !.tl_id = get_timeline_list_id(-1)]
  BY Zenon DEF CREATE_TIMELINE, At, Pause, Creating
<1>3. main.of \in Guest /\ virtmsg \in Request /\ ~ virtmsg.done /\ virtmsg # Nil
  BY <1>2, Current_Message, RequestAssumption, Zenon
<1>4. /\ KernelOK' /\ (stamp' = stamp \/ stamp' = stamp + 1) /\ ClientOK' /\ Asked'
      /\ msg'[main.of] \in Request /\ ~ msg'[main.of].done
  <2>1. CASE Exists
    <3>1. UNCHANGED <<kernel, stamp, msg>>
      BY <2>1, Zenon DEF CREATE_TIMELINE
    <3> QED
      BY <1>1, <1>2, <1>3, <3>1, KernelStays, ClientStays, Zenon DEF virtmsg
  <2>2. CASE ~ Exists
    <3> DEFINE m == [virtmsg EXCEPT !.index = idr_alloc]
    <3>1. kernel' = Created(virtmsg.name, {}) /\ stamp' = stamp + 1 /\ Fill(m)
      BY <2>2, Zenon DEF CREATE_TIMELINE
    <3>2. virtmsg.name \in Name \cup HostName /\ {} \in SUBSET {Daemon, App}
      BY <1>3, Zenon DEF Request
    <3>3. KernelOK'
      BY <1>1, <3>1, <3>2, CreatedOK, Zenon
    <3>4. idr_alloc \in Nat
      BY <1>1, FreshIndex, Zenon
    <3>5. m \in Request /\ m.type = virtmsg.type /\ m.name = virtmsg.name /\ ~ m.done
      BY <1>3, <3>4, Zenon DEF Request
    <3> HIDE DEF m
    <3>6. ClientOK' /\ Asked' /\ msg'[main.of] = m
      BY <1>2, <3>1, <3>5, FillOK, Zenon
    <3> QED
      BY <3>1, <3>3, <3>5, <3>6, Zenon
  <2> QED
    BY <2>1, <2>2, Zenon
<1>5. CopyOK'
  BY <1>1, <1>2, <1>4, CopyStays, Zenon DEF KernelOK
<1> DEFINE i == msg'[main.of].index
<1>6. i \in Nat /\ vtimeline' = increment_bind_count(i, add_timeline_to_list(i, vtimeline))
      /\ tl_count' = tl_count + 1
  BY <1>4, Zenon DEF CREATE_TIMELINE, Request
<1> HIDE DEF i
<1>7. tl_count < MAX_TIMELINES /\ guest[main.of].pc = "binding"
  BY <1>1, <1>2, Zenon DEF Serving
<1>8. main \in [pc : Label, of : Guest \cup {Nil}, tl_id : Slot \cup {-1}]
  BY <1>1, Zenon DEF ListOK
<1>9. get_timeline_list_id(-1) \in Slot
  <2>1. Cardinality(Listed) < Cardinality(Slot) /\ Cardinality(Slot) \in Nat /\ Cardinality(Listed) \in Nat
    BY <1>1, <1>7, SlotFinite, VirtAssumption, Zenon DEF ListOK
  <2>2. Listed # Slot
    BY <2>1
  <2>3. Entries(-1) # {}
    BY <2>2, SlotFinite, Zenon DEF Listed, Entries
  <2> QED
    BY <2>3, FirstEntry, Zenon
<1>10. main' \in [pc : Label, of : Guest \cup {Nil}, tl_id : Slot \cup {-1}]
       /\ main'.pc = "join" /\ main'.of = main.of /\ main'.tl_id \in Slot
  BY <1>2, <1>8, <1>9, Zenon DEF Label
<1>11. ListOK'
  BY <1>1, <1>6, <1>7, <1>10, AddedList, Zenon
<1>12. Serving'
  BY <1>2, <1>3, <1>4, <1>7, <1>10, RequestAssumption, Zenon DEF Serving, Pause, Creating,
     Destroying, Leaving
<1> QED
  BY <1>4, <1>5, <1>11, <1>12, MainServed, Zenon

\* The devices that the daemon joins.
Joined == {n \in Device(virtmsg.index) : Daemon \notin kernel[n].bound}

LEMMA JoinKernel ==
    ASSUME Served, BIND_JOIN
    PROVE  /\ KernelOK' /\ DOMAIN kernel' = DOMAIN kernel
           /\ \A n \in DOMAIN kernel :
                 /\ kernel'[n].index = kernel[n].index
                 /\ kernel'[n].bound = IF n \in Joined THEN kernel[n].bound \cup {Daemon} ELSE kernel[n].bound
<1>1. KernelOK
  BY TypeParts, Zenon DEF Served
<1>2. main.pc \notin Pause /\ stamp' = stamp
  BY Zenon DEF BIND_JOIN, At, Pause, others
<1>3. virtmsg \in Request
  BY <1>2, Current_Message, Zenon
<1>4. CASE Joined = {}
  <2>1. kernel' = kernel
    BY <1>4, Zenon DEF BIND_JOIN, Joined
  <2> QED
    BY <1>1, <1>2, <1>4, <2>1, KernelStays, Zenon
<1>5. CASE Joined # {}
  <2>1. /\ DOMAIN kernel' = DOMAIN kernel
        /\ \A n \in DOMAIN kernel : kernel'[n] = IF n \notin Joined THEN kernel[n] ELSE
              [kernel[n] EXCEPT !.bound = @ \cup {Daemon}, !.demand = virtmsg.demand]
    BY <1>5, Zenon DEF BIND_JOIN, Joined
  <2>2. virtmsg.demand \in Nat
    BY <1>3, Zenon DEF Request
  <2>3. ASSUME NEW n \in DOMAIN kernel
        PROVE  /\ kernel'[n] \in Timeline /\ kernel'[n].params \in 1 .. stamp'
               /\ kernel'[n].index = kernel[n].index
               /\ kernel'[n].bound = IF n \in Joined THEN kernel[n].bound \cup {Daemon} ELSE kernel[n].bound
    <3>1. kernel[n] \in Timeline /\ kernel[n].params \in 1 .. stamp
      BY <1>1, Zenon DEF KernelOK
    <3>2. CASE n \in Joined
      <4>1. kernel'[n] = [kernel[n] EXCEPT !.bound = @ \cup {Daemon}, !.demand = virtmsg.demand]
        BY <2>1, <3>2, Zenon
      <4>2. kernel[n].bound \cup {Daemon} \in SUBSET {Daemon, App}
        BY <3>1, Zenon DEF Timeline
      <4>3. kernel'[n] \in Timeline
        BY <2>2, <3>1, <4>1, <4>2, Zenon DEF Timeline
      <4>4. kernel'[n].params = kernel[n].params /\ kernel'[n].index = kernel[n].index
        BY <3>1, <4>1, Zenon DEF Timeline
      <4>5. kernel'[n].bound = kernel[n].bound \cup {Daemon}
        BY <3>1, <4>1, Zenon DEF Timeline
      <4> QED
        BY <1>2, <3>1, <3>2, <4>3, <4>4, <4>5, Zenon
    <3>3. CASE n \notin Joined
      BY <1>2, <2>1, <3>1, <3>3, Zenon
    <3> QED
      BY <3>2, <3>3, Zenon
  <2>4. KernelOK'
    BY <1>1, <1>2, <2>1, <2>3, KernelChanges, Zenon DEF KernelOK
  <2> QED
    BY <2>1, <2>3, <2>4, Zenon
<1> QED
  BY <1>4, <1>5, Zenon

\* The message after a step that may fail.
LEMMA MaybeFailed ==
    ASSUME Served, main.pc \notin Pause, UNCHANGED guest,
           Fill([virtmsg EXCEPT !.ok = FALSE]) \/ UNCHANGED msg
    PROVE  /\ ClientOK' /\ Asked' /\ msg'[main.of] \in Request /\ ~ msg'[main.of].done
           /\ msg'[main.of].index = virtmsg.index /\ msg'[main.of].name = virtmsg.name
<1>1. ClientOK /\ Asked
  BY TypeParts, Zenon DEF Served
<1>2. virtmsg \in Request /\ ~ virtmsg.done
  BY Current_Message, Zenon
<1> DEFINE m == [virtmsg EXCEPT !.ok = FALSE]
<1>3. CASE Fill(m)
  <2>1. m \in Request /\ m.type = virtmsg.type /\ m.name = virtmsg.name /\ m.index = virtmsg.index /\ ~ m.done
    BY <1>2, Zenon DEF Request
  <2> HIDE DEF m
  <2>2. ClientOK' /\ Asked' /\ msg'[main.of] = m
    BY <1>3, <2>1, FillOK, Zenon
  <2> QED
    BY <2>1, <2>2, Zenon
<1>4. CASE UNCHANGED msg
  BY <1>1, <1>2, <1>4, ClientStays, Zenon DEF virtmsg
<1> QED
  BY <1>3, <1>4, Zenon

LEMMA JoinServed ==
    ASSUME Served, BIND_JOIN
    PROVE  Served'
<1>1. KernelOK /\ ListOK /\ CopyOK /\ ClientOK /\ Asked /\ Serving
  BY TypeParts, Zenon DEF Served
<1>2. /\ main.pc = "join" /\ main.pc \notin Pause /\ main.pc \in Creating /\ Goto("spawn")
      /\ UNCHANGED <<vtimeline, tl_count, fault, thread, shm, guest, running, stamp>>
      /\ (Fill([virtmsg EXCEPT !.ok = FALSE]) \/ UNCHANGED msg)
  BY Zenon DEF BIND_JOIN, At, Pause, Creating, others
<1>3. KernelOK'
  BY JoinKernel, Zenon
<1>4. ClientOK' /\ Asked' /\ msg'[main.of] \in Request /\ ~ msg'[main.of].done
  BY <1>2, MaybeFailed, Zenon
<1>5. /\ main' \in [pc : Label, of : Guest \cup {Nil}, tl_id : Slot \cup {-1}]
      /\ main'.pc = "spawn" /\ main'.of = main.of /\ main'.tl_id = main.tl_id
  BY <1>2, GotoServed, Zenon DEF Label
<1>6. CopyOK' /\ ListOK'
  BY <1>1, <1>2, <1>5, CopyStays, ListStays, Zenon DEF KernelOK
<1>7. main.of \in Guest /\ main.tl_id \in Slot /\ guest[main.of].pc = "binding"
  BY <1>1, <1>2, Zenon DEF Serving
<1>8. Serving'
  BY <1>2, <1>4, <1>5, <1>7, RequestAssumption, Zenon DEF Serving, Pause, Creating,
                                                          Destroying, Leaving
<1> QED
  BY <1>3, <1>4, <1>6, <1>8, MainServed, Zenon

LEMMA SpawnServed ==
    ASSUME Served, pthread_create
    PROVE  Served'
<1>1. KernelOK /\ ListOK /\ CopyOK /\ ClientOK /\ Asked /\ Serving
  BY TypeParts, Zenon DEF Served
<1>2. /\ main.pc = "spawn" /\ main.pc \notin Pause /\ Reply(virtmsg)
      /\ thread' = [thread EXCEPT ![main.tl_id] = [None EXCEPT !.pc = "open"]]
      /\ UNCHANGED <<kernel, vtimeline, tl_count, fault, shm, guest, running, stamp>>
  BY Zenon DEF pthread_create, At, Pause
<1>3. virtmsg \in Request
  BY <1>2, Current_Message, Zenon
<1>4. /\ ClientOK' /\ Asked' /\ Serving'
      /\ main' \in [pc : Label, of : Guest \cup {Nil}, tl_id : Slot \cup {-1}]
  BY <1>2, <1>3, ReplyOK, Zenon
<1>5. KernelOK' /\ ListOK'
  BY <1>1, <1>2, <1>4, KernelStays, ListStays, Zenon
<1> DEFINE t == [None EXCEPT !.pc = "open"]
<1>6. t \in Worker /\ t.copy \in 0 .. stamp
  BY <1>1 DEF None, Worker, KernelOK
<1>7. thread' = [thread EXCEPT ![main.tl_id] = t]
  BY <1>2, Zenon
<1> HIDE DEF t
<1>8. CopyOK'
  BY <1>1, <1>2, <1>6, <1>7, Zenon DEF CopyOK
<1> QED
  BY <1>4, <1>5, <1>8, MainServed, Zenon

LEMMA DestroyServed ==
    ASSUME Served, TIMELINE_DESTROY
    PROVE  Served'
<1>1. KernelOK /\ ListOK /\ CopyOK /\ ClientOK /\ Asked /\ Serving
  BY TypeParts, Zenon DEF Served
<1>2. /\ main.pc = "TIMELINE_DESTROY" /\ main.pc \notin Pause /\ main.pc \in Destroying
      /\ UNCHANGED <<kernel, tl_count, thread, shm, guest, running, stamp>>
  BY Zenon DEF TIMELINE_DESTROY, At, Pause, Destroying, others
<1>3. main.of \in Guest /\ virtmsg \in Request /\ ~ virtmsg.done /\ guest[main.of].pc = "unbinding"
  BY <1>1, <1>2, Current_Message, Zenon DEF Serving
<1>4. KernelOK'
  BY <1>1, <1>2, KernelStays, Zenon
<1>5. ASSUME fault' \in BOOLEAN PROVE CopyOK'
  BY <1>1, <1>2, <1>5, Zenon DEF CopyOK
<1>6. fault \in BOOLEAN
  BY <1>1, Zenon DEF CopyOK
<1>7. CASE ~ Exists
  <2> DEFINE m == [virtmsg EXCEPT !.ok = FALSE]
  <2>1. m \in Request /\ m.type = virtmsg.type /\ m.name = virtmsg.name
    BY <1>3, Zenon DEF Request
  <2>2. Reply(m) /\ UNCHANGED <<vtimeline, fault>>
    BY <1>7, Zenon DEF TIMELINE_DESTROY
  <2> HIDE DEF m
  <2>3. /\ ClientOK' /\ Asked' /\ Serving'
        /\ main' \in [pc : Label, of : Guest \cup {Nil}, tl_id : Slot \cup {-1}]
    BY <1>2, <2>1, <2>2, ReplyOK, Zenon
  <2>4. ListOK' /\ CopyOK'
    BY <1>1, <1>2, <1>5, <1>6, <2>2, <2>3, ListStays, Zenon
  <2> QED
    BY <1>4, <2>3, <2>4, MainServed, Zenon
<1>8. CASE Exists
  <2> DEFINE i == kernel[virtmsg.name].index
             k == get_timeline_list_id(i)
             m == [virtmsg EXCEPT !.index = i]
  <2>1. i \in Nat
    BY <1>1, <1>8 DEF Exists, KernelOK, Timeline
  <2>2. m \in Request /\ m.type = virtmsg.type /\ m.name = virtmsg.name /\ ~ m.done /\ m.index = i
    BY <1>3, <2>1, Zenon DEF Request
  <2>3. vtimeline' = CountBind(i, vtimeline, -1) /\ -1 \in Int
    BY <1>8 DEF TIMELINE_DESTROY, decrement_bind_count
  <2>4. \/ Reply(m) /\ fault' \in BOOLEAN
        \/ k # -1 /\ UNCHANGED fault /\ Fill(m) /\ main' = [main EXCEPT !.pc = "cancel", !.tl_id = k]
    BY <1>6, <1>8, Zenon DEF TIMELINE_DESTROY
  <2> HIDE DEF m
  <2>5. CASE Reply(m) /\ fault' \in BOOLEAN
    <3>1. /\ ClientOK' /\ Asked' /\ Serving'
          /\ main' \in [pc : Label, of : Guest \cup {Nil}, tl_id : Slot \cup {-1}]
      BY <1>2, <2>2, <2>5, ReplyOK, Zenon
    <3>2. ListOK'
      <4> HIDE DEF i
      <4> QED
        BY <1>1, <1>2, <2>3, <3>1, CountedList, Zenon
    <3> QED
      BY <1>4, <1>5, <2>5, <3>1, <3>2, MainServed, Zenon
  <2>6. CASE k # -1 /\ UNCHANGED fault /\ Fill(m) /\ main' = [main EXCEPT !.pc = "cancel", !.tl_id = k]
    <3>1. Entries(i) # {}
      BY <2>6, Zenon DEF get_timeline_list_id
    <3> HIDE DEF i
    <3>2. k \in Slot /\ vtimeline[k].index = i
      BY <3>1, FirstEntry, Zenon DEF IsFirst
    <3> HIDE DEF k
    <3>3. main \in [pc : Label, of : Guest \cup {Nil}, tl_id : Slot \cup {-1}]
      BY <1>1 DEF ListOK
    <3>4. main' \in [pc : Label, of : Guest \cup {Nil}, tl_id : Slot \cup {-1}]
          /\ main'.pc = "cancel" /\ main'.of = main.of /\ main'.tl_id = k
      BY <2>6, <3>2, <3>3, Zenon DEF Label
    <3>5. ListOK' /\ vtimeline'[k].index = i
      BY <1>1, <1>2, <2>3, <3>2, <3>4, CountedList, Zenon
    <3>6. ClientOK' /\ Asked' /\ msg'[main.of] = m
      BY <1>2, <2>2, <2>6, FillOK, Zenon
    <3>7. Serving'
      BY <1>2, <1>3, <2>2, <3>2, <3>4, <3>5, <3>6, RequestAssumption, Zenon
         DEF Serving, Pause, Creating, Destroying, Leaving, virtmsg
    <3> QED
      BY <1>4, <1>5, <1>6, <2>6, <3>5, <3>6, <3>7, MainServed, Zenon
  <2> QED
    BY <2>4, <2>5, <2>6, Zenon
<1> QED
  BY <1>7, <1>8, Zenon

\* The main thread goes on with a timeline that it gives up.
LEMMA LeavingServed ==
    ASSUME Served, main.pc \in Leaving, NEW pc \in Leaving, Goto(pc), UNCHANGED <<guest, tl_count>>,
           KernelOK', CopyOK', vtimeline' \in [Slot -> Entry],
           \A k \in Slot : vtimeline'[k].index = vtimeline[k].index,
           Fill([virtmsg EXCEPT !.ok = FALSE]) \/ UNCHANGED msg
    PROVE  Served'
<1>1. ListOK /\ Serving
  BY TypeParts, Zenon DEF Served
<1>2. main.pc \notin Pause /\ main.pc \in Destroying /\ pc \in Label
  BY Zenon DEF Leaving, Pause, Destroying, Label
<1>3. /\ main' \in [pc : Label, of : Guest \cup {Nil}, tl_id : Slot \cup {-1}]
      /\ main'.pc = pc /\ main'.of = main.of /\ main'.tl_id = main.tl_id
  BY <1>2, GotoServed, Zenon
<1>4. /\ ClientOK' /\ Asked' /\ msg'[main.of] \in Request /\ ~ msg'[main.of].done
      /\ msg'[main.of].index = virtmsg.index
  BY <1>2, MaybeFailed, Zenon
<1>5. Listed' = Listed
  BY Zenon DEF Listed
<1>6. ListOK'
  BY <1>1, <1>3, <1>5, Zenon DEF ListOK
<1>7. /\ main.of \in Guest /\ guest[main.of].pc = "unbinding"
      /\ main.tl_id \in Slot /\ vtimeline[main.tl_id].index = virtmsg.index
  BY <1>1, <1>2, Zenon DEF Serving
<1>8. Serving'
  BY <1>3, <1>4, <1>7, RequestAssumption, Zenon DEF Serving, Pause, Creating, Destroying,
                                                    Leaving, virtmsg
<1> QED
  BY <1>4, <1>6, <1>8, MainServed, Zenon

LEMMA CancelServed ==
    ASSUME Served, cancel
    PROVE  /\ Served' /\ main.tl_id \in Slot /\ ~ vtimeline'[main.tl_id].running
           /\ \A k \in Slot : /\ vtimeline'[k].index = vtimeline[k].index
                              /\ vtimeline'[k].bind_count = vtimeline[k].bind_count
                              /\ k # main.tl_id => vtimeline'[k] = vtimeline[k]
<1>1. KernelOK /\ ListOK /\ CopyOK /\ Serving
  BY TypeParts, Zenon DEF Served
<1>2. /\ main.pc \in Leaving /\ Goto("wait") /\ "wait" \in Leaving
      /\ UNCHANGED <<kernel, tl_count, msg, fault, thread, shm, guest, running, stamp>>
      /\ vtimeline' = [vtimeline EXCEPT ![main.tl_id] = [@ EXCEPT !.running = FALSE]]
  BY Zenon DEF cancel, At, Leaving, others
<1>3. KernelOK' /\ CopyOK'
  BY <1>1, <1>2, KernelStays, CopyStays, Zenon DEF KernelOK
<1>4. main.tl_id \in Slot /\ vtimeline \in [Slot -> Entry]
  BY <1>1, <1>2, Zenon DEF Serving, ListOK
<1> DEFINE e == [vtimeline[main.tl_id] EXCEPT !.running = FALSE]
<1>5. e \in Entry /\ e.index = vtimeline[main.tl_id].index /\ ~ e.running
      /\ e.bind_count = vtimeline[main.tl_id].bind_count
  BY <1>4, Zenon DEF Entry
<1>6. vtimeline' = [vtimeline EXCEPT ![main.tl_id] = e]
  BY <1>2, Zenon
<1> HIDE DEF e
<1>7. vtimeline' \in [Slot -> Entry] /\ ~ vtimeline'[main.tl_id].running
      /\ \A k \in Slot : /\ vtimeline'[k].index = vtimeline[k].index
                         /\ vtimeline'[k].bind_count = vtimeline[k].bind_count
                         /\ k # main.tl_id => vtimeline'[k] = vtimeline[k]
  BY <1>4, <1>5, <1>6, Zenon
<1>8. Served'
  BY <1>2, <1>3, <1>7, LeavingServed, Zenon
<1> QED
  BY <1>4, <1>7, <1>8, Zenon

LEMMA WaitServed ==
    ASSUME Served, pthread_join
    PROVE  Served'
<1>1. KernelOK /\ ListOK /\ CopyOK /\ Serving
  BY TypeParts, Zenon DEF Served
<1>2. /\ main.pc \in Leaving /\ Goto("leave") /\ "leave" \in Leaving
      /\ UNCHANGED <<kernel, vtimeline, tl_count, msg, shm, guest, running, stamp>>
      /\ thread' = [thread EXCEPT ![main.tl_id] = None] /\ fault' \in BOOLEAN
  BY Zenon DEF pthread_join, At, Leaving
<1>3. KernelOK' /\ vtimeline' \in [Slot -> Entry]
  BY <1>1, <1>2, KernelStays, Zenon DEF ListOK
<1>4. None \in Worker /\ None.copy \in 0 .. stamp
  BY <1>1 DEF None, Worker, KernelOK
<1>5. CopyOK'
  BY <1>1, <1>2, <1>4, Zenon DEF CopyOK
<1> QED
  BY <1>2, <1>3, <1>5, LeavingServed, Zenon

\* The device that the daemon leaves.
Left == {n \in Device(virtmsg.index) : Daemon \in kernel[n].bound}

LEMMA LeaveServed ==
    ASSUME Served, BIND_LEAVE
    PROVE  /\ Served' /\ DOMAIN kernel' = DOMAIN kernel
           /\ \A n \in DOMAIN kernel : /\ kernel'[n].index = kernel[n].index
                                       /\ n \notin Left => kernel'[n] = kernel[n]
           /\ \A n \in Left : Left = {n} => kernel'[n].bound = kernel[n].bound \ {Daemon}
<1>1. KernelOK /\ ListOK /\ CopyOK /\ Serving
  BY TypeParts, Zenon DEF Served
<1>2. /\ main.pc \in Leaving /\ Goto("destroy") /\ "destroy" \in Leaving
      /\ UNCHANGED <<vtimeline, tl_count, fault, thread, shm, guest, running, stamp>>
      /\ (Fill([virtmsg EXCEPT !.ok = FALSE]) \/ UNCHANGED msg)
  BY Zenon DEF BIND_LEAVE, At, Leaving, others
<1>3. CopyOK' /\ vtimeline' \in [Slot -> Entry]
  BY <1>1, <1>2, CopyStays, Zenon DEF KernelOK, ListOK
<1>4. CASE Left = {}
  <2>1. kernel' = kernel
    BY <1>4, Zenon DEF BIND_LEAVE, Left
  <2>2. KernelOK'
    BY <1>1, <1>2, <2>1, KernelStays, Zenon
  <2> QED
    BY <1>2, <1>3, <1>4, <2>1, <2>2, LeavingServed, Zenon
<1>5. CASE Left # {}
  <2> DEFINE n == CHOOSE n \in Left : TRUE
  <2>1. kernel' = Leaves(n, Daemon)
    BY <1>5, Zenon DEF BIND_LEAVE, Left
  <2>2. n \in Left
    BY <1>5, Zenon
  <2>3. Left \subseteq DOMAIN kernel
    BY Zenon DEF Left, Device
  <2> HIDE DEF n
  <2>4. /\ KernelOK' /\ DOMAIN kernel' = DOMAIN kernel
        /\ \A m \in DOMAIN kernel : /\ kernel'[m].index = kernel[m].index
                                    /\ m # n => kernel'[m] = kernel[m]
        /\ kernel'[n].bound = kernel[n].bound \ {Daemon}
    BY <1>1, <1>2, <2>1, <2>2, <2>3, LeavesOK, Zenon
  <2>5. Served'
    BY <1>2, <1>3, <2>4, LeavingServed, Zenon
  <2> QED
    BY <2>2, <2>3, <2>4, <2>5, Zenon
<1> QED
  BY <1>4, <1>5, Zenon

LEMMA RemovedKernel ==
    ASSUME KernelOK, NEW n, kernel' = Removed(n), UNCHANGED stamp
    PROVE  /\ KernelOK'
           /\ DOMAIN kernel' =
                 IF n \in DOMAIN kernel /\ kernel[n].bound = {} THEN DOMAIN kernel \ {n} ELSE DOMAIN kernel
           /\ \A m \in DOMAIN kernel' : kernel'[m] = kernel[m]
<1>1. CASE n \in DOMAIN kernel /\ kernel[n].bound = {}
  <2>1. kernel' = Restrict(kernel, DOMAIN kernel \ {n})
    BY <1>1, Zenon DEF Removed
  <2> QED
    BY <1>1, <2>1, RestrictOK, Zenon
<1>2. CASE ~ (n \in DOMAIN kernel /\ kernel[n].bound = {})
  <2>1. kernel' = kernel
    BY <1>2, Zenon DEF Removed
  <2> QED
    BY <1>2, <2>1, KernelStays, Zenon
<1> QED
  BY <1>1, <1>2, Zenon

LEMMA DestroyTimelineServed ==
    ASSUME Served, DESTROY_TIMELINE
    PROVE  Served'
<1>1. KernelOK /\ ListOK /\ CopyOK /\ Serving
  BY TypeParts, Zenon DEF Served
<1>2. /\ main.pc \in Leaving /\ main.pc \notin Pause
      /\ UNCHANGED <<fault, thread, shm, guest, running, stamp>>
      /\ kernel' = Removed(virtmsg.name) /\ Reply(virtmsg)
      /\ tl_count' = IF tl_count > 0 THEN tl_count - 1 ELSE 0
      /\ vtimeline' = remove_timeline_from_list(virtmsg.index, vtimeline)
  BY Zenon DEF DESTROY_TIMELINE, At, Leaving, Pause, others
<1>3. virtmsg \in Request /\ virtmsg.index \in Nat
  BY <1>2, Current_Message, Zenon DEF Request
<1>4. /\ ClientOK' /\ Asked' /\ Serving'
      /\ main' \in [pc : Label, of : Guest \cup {Nil}, tl_id : Slot \cup {-1}]
  BY <1>2, <1>3, ReplyOK, Zenon
<1>5. KernelOK' /\ CopyOK'
  BY <1>1, <1>2, RemovedKernel, CopyStays, Zenon DEF KernelOK
<1>6. main.tl_id \in Slot /\ vtimeline[main.tl_id].index = virtmsg.index
  BY <1>1, <1>2, Zenon DEF Serving
<1>7. ListOK'
  BY <1>1, <1>2, <1>3, <1>4, <1>6, RemovedList, Zenon
<1> QED
  BY <1>4, <1>5, <1>7, MainServed, Zenon

LEMMA UpdateServed ==
    ASSUME Served, TIMELINE_UPDATE
    PROVE  /\ Served' /\ DOMAIN kernel' = DOMAIN kernel
           /\ \A n \in DOMAIN kernel : /\ kernel'[n].index = kernel[n].index
                                       /\ kernel'[n].bound = kernel[n].bound
           /\ \A g \in Guest : g # main.of => msg'[g] = msg[g]
           /\ main'.pc \in {"select", "SIGPIPE"}
<1>1. KernelOK /\ ListOK /\ CopyOK /\ Serving /\ ClientOK
  BY TypeParts, Zenon DEF Served
<1>2. /\ main.pc = "TIMELINE_UPDATE" /\ main.pc \notin Pause
      /\ UNCHANGED <<vtimeline, tl_count, fault, thread, shm, guest, running, stamp>>
  BY Zenon DEF TIMELINE_UPDATE, At, Pause, others
<1>3. virtmsg \in Request /\ main.of \in Guest
  BY <1>2, Current_Message, Zenon
<1>4. PICK m \in Request : m.type = virtmsg.type /\ m.name = virtmsg.name /\ Reply(m)
  <2>1. CASE Exists /\ Daemon \in kernel[virtmsg.name].bound
    <3> DEFINE i == kernel[virtmsg.name].index
               m == [virtmsg EXCEPT !.index = i]
    <3>1. i \in Nat
      BY <1>1, <2>1, Zenon DEF Exists, KernelOK, Timeline
    <3>2. m \in Request /\ m.type = virtmsg.type /\ m.name = virtmsg.name
      BY <1>3, <3>1, Zenon DEF Request
    <3>3. Reply(m)
      BY <2>1, Zenon DEF TIMELINE_UPDATE
    <3> QED
      BY <3>2, <3>3, Zenon
  <2>2. CASE ~ (Exists /\ Daemon \in kernel[virtmsg.name].bound)
    <3> DEFINE m == [virtmsg EXCEPT !.ok = FALSE]
    <3>1. m \in Request /\ m.type = virtmsg.type /\ m.name = virtmsg.name
      BY <1>3, Zenon DEF Request
    <3>2. Reply(m)
      BY <2>2, Zenon DEF TIMELINE_UPDATE
    <3> QED
      BY <3>1, <3>2, Zenon
  <2> QED
    BY <2>1, <2>2, Zenon
<1>5. /\ ClientOK' /\ Asked' /\ Serving'
      /\ main' \in [pc : Label, of : Guest \cup {Nil}, tl_id : Slot \cup {-1}]
      /\ main'.pc \in {"select", "SIGPIPE"}
  <2>1. main' \in [pc : {"select", "SIGPIPE"}, of : {Nil}, tl_id : {-1}]
    BY <1>2, <1>4, ReplyOK, Zenon
  <2> QED
    BY <1>2, <1>4, <2>1, ReplyOK, Zenon
<1>6. \A g \in Guest : g # main.of => msg'[g] = msg[g]
  BY <1>1, <1>4, Zenon DEF Reply, Fill, ClientOK
<1>7. /\ KernelOK' /\ DOMAIN kernel' = DOMAIN kernel
      /\ \A n \in DOMAIN kernel : kernel'[n].index = kernel[n].index /\ kernel'[n].bound = kernel[n].bound
  <2>1. CASE Exists /\ Daemon \in kernel[virtmsg.name].bound
    <3> DEFINE a == virtmsg.name
               d == virtmsg.demand
    <3>1. kernel' = [kernel EXCEPT ![a] = [@ EXCEPT !.demand = d]] /\ a \in DOMAIN kernel /\ d \in Nat
      BY <1>3, <2>1, Zenon DEF TIMELINE_UPDATE, Exists, Request
    <3> HIDE DEF a, d
    <3>2. ASSUME NEW n \in DOMAIN kernel
          PROVE  /\ kernel'[n] \in Timeline /\ kernel'[n].params \in 1 .. stamp'
                 /\ kernel'[n].index = kernel[n].index /\ kernel'[n].bound = kernel[n].bound
      <4>1. kernel[n] \in Timeline /\ kernel[n].params \in 1 .. stamp
        BY <1>1, Zenon DEF KernelOK
      <4>2. kernel'[n] = kernel[n] \/ kernel'[n] = [kernel[n] EXCEPT !.demand = d]
        BY <3>1, Zenon
      <4> QED
        BY <1>2, <3>1, <4>1, <4>2, Zenon DEF Timeline
    <3>3. DOMAIN kernel' = DOMAIN kernel
      BY <3>1, Zenon
    <3> QED
      BY <1>1, <1>2, <3>2, <3>3, KernelChanges, Zenon DEF KernelOK
  <2>2. CASE ~ (Exists /\ Daemon \in kernel[virtmsg.name].bound)
    <3>1. kernel' = kernel
      BY <2>2, Zenon DEF TIMELINE_UPDATE
    <3> QED
      BY <1>1, <1>2, <3>1, KernelStays, Zenon
  <2> QED
    BY <2>1, <2>2, Zenon
<1>8. CopyOK' /\ ListOK'
  BY <1>1, <1>2, <1>5, CopyStays, ListStays, Zenon DEF KernelOK
<1>9. Served'
  BY <1>5, <1>7, <1>8, MainServed, Zenon
<1> QED
  BY <1>5, <1>6, <1>7, <1>9, Zenon

LEMMA EndedServed ==
    ASSUME Served, Ended
    PROVE  Served'
<1>1. KernelOK /\ ListOK /\ CopyOK /\ Serving /\ ClientOK /\ Asked
  BY TypeParts, Zenon DEF Served
<1>2. UNCHANGED <<kernel, vtimeline, tl_count, shm, guest, msg, fault, stamp>> /\ running' = FALSE
      /\ main' = [Rest EXCEPT !.pc = "ended"] /\ thread' = [k \in Slot |-> None]
  BY Zenon DEF Ended
<1>3. main' \in [pc : Label, of : Guest \cup {Nil}, tl_id : Slot \cup {-1}] /\ main'.pc = "ended"
  BY <1>2, Zenon DEF Rest, Label
<1>4. KernelOK' /\ ListOK' /\ ClientOK' /\ Asked'
  BY <1>1, <1>2, <1>3, KernelStays, ListStays, ClientStays, Zenon
<1>5. None \in Worker /\ None.copy \in 0 .. stamp
  BY <1>1 DEF None, Worker, KernelOK
<1>6. CopyOK'
  BY <1>1, <1>2, <1>5, Zenon DEF CopyOK
<1>7. Serving'
  BY <1>3, Zenon DEF Serving, Pause, Creating, Destroying, Leaving
<1> QED
  BY <1>4, <1>6, <1>7, MainServed, Zenon

LEMMA ExitServed ==
    ASSUME Served, exit_handler
    PROVE  Served'
<1>1. KernelOK /\ ListOK /\ CopyOK /\ Serving /\ ClientOK /\ Asked
  BY TypeParts, Zenon DEF Served
<1>2. /\ UNCHANGED <<kernel, vtimeline, tl_count, main, thread, shm, guest, msg, fault, stamp>>
      /\ running' = FALSE
  BY Zenon DEF exit_handler
<1>3. KernelOK' /\ ListOK' /\ ClientOK' /\ Asked'
  BY <1>1, <1>2, KernelStays, ListStays, ClientStays, Zenon DEF ListOK
<1>4. CopyOK'
  BY <1>1, <1>2, Zenon DEF CopyOK
<1>5. Serving'
  BY <1>1, <1>2, Zenon DEF Serving, virtmsg
<1> QED
  BY <1>3, <1>4, <1>5, MainServed

-----------------------------------------------------------------------------
\* The threads.

\* A step of thread k.
LEMMA TurnServed ==
    ASSUME Served, NEW k \in Slot, NEW t \in Worker, t.copy \in 0 .. stamp, Turn(k, t), KernelOK',
           UNCHANGED rest, shm' \in [Slot -> (0 .. stamp) \X (0 .. stamp)], fault' \in BOOLEAN
    PROVE  /\ Served' /\ thread'[k] = t
           /\ \A j \in Slot : j # k => thread'[j] = thread[j]
<1>1. KernelOK /\ ListOK /\ CopyOK /\ Serving /\ ClientOK /\ Asked
  BY TypeParts, Zenon DEF Served
<1>2. UNCHANGED <<vtimeline, tl_count, main, guest, msg, running, stamp>>
  BY Zenon DEF rest
<1>3. ListOK' /\ ClientOK' /\ Asked'
  BY <1>1, <1>2, ListStays, ClientStays, Zenon DEF ListOK
<1>4. thread' \in [Slot -> Worker] /\ thread'[k] = t /\ \A j \in Slot : j # k => thread'[j] = thread[j]
  BY <1>1, Zenon DEF Turn, CopyOK
<1>5. CopyOK'
  BY <1>1, <1>2, <1>4, Zenon DEF CopyOK
<1>6. Serving'
  BY <1>1, <1>2, Zenon DEF Serving, virtmsg
<1>7. Served'
  BY <1>3, <1>5, <1>6, MainServed, Zenon
<1> QED
  BY <1>4, <1>7, Zenon

\* A thread that runs ends only when it is told to, and changes nothing of a timeline
\* but its flag.
LEMMA ThreadServed ==
    ASSUME Served, NEW k \in Slot, Thread(k)
    PROVE  /\ Served' /\ thread[k].pc \notin {"none", "ended"} /\ thread'[k].pc # "none"
           /\ thread'[k].pc = "ended" => ~ running \/ ~ vtimeline[k].running
           /\ \A j \in Slot : j # k => thread'[j] = thread[j]
           /\ DOMAIN kernel' = DOMAIN kernel
           /\ \A n \in DOMAIN kernel : /\ kernel'[n].index = kernel[n].index
                                       /\ kernel'[n].bound = kernel[n].bound
           /\ UNCHANGED rest
<1>1. KernelOK /\ ListOK /\ CopyOK
  BY TypeParts, Zenon DEF Served
<1>2. thread[k] \in Worker /\ thread[k].copy \in 0 .. stamp /\ stamp \in Nat
      /\ vtimeline[k].index \in Nat \cup {-1} /\ fault \in BOOLEAN
      /\ shm \in [Slot -> (0 .. stamp) \X (0 .. stamp)]
  BY <1>1, Zenon DEF KernelOK, ListOK, CopyOK, Entry
<1> DEFINE Same == /\ KernelOK' /\ DOMAIN kernel' = DOMAIN kernel
                   /\ \A n \in DOMAIN kernel : /\ kernel'[n].index = kernel[n].index
                                               /\ kernel'[n].bound = kernel[n].bound
<1>3. ASSUME kernel' = kernel, UNCHANGED rest PROVE Same
  BY <1>1, <1>3, KernelStays, Zenon DEF rest
<1>4. CASE OpenTimeline(k)
  <2> DEFINE t == [thread[k] EXCEPT !.pc = "get", !.index = vtimeline[k].index]
  <2>1. t \in Worker /\ t.copy = thread[k].copy /\ t.pc = "get"
    BY <1>2, Zenon DEF Worker
  <2>2. Turn(k, t) /\ thread[k].pc = "open" /\ UNCHANGED <<kernel, shm, fault, rest>>
    BY <1>4, Zenon DEF OpenTimeline, ThreadAt
  <2> HIDE DEF t
  <2> QED
    BY <1>2, <1>3, <2>1, <2>2, TurnServed, Zenon
<1>5. CASE GET_PARAMETERS(k)
  <2>1. thread[k].pc = "get" /\ UNCHANGED <<kernel, shm, fault, rest>>
    BY <1>5, Zenon DEF GET_PARAMETERS, ThreadAt
  <2>2. PICK t \in Worker : t.copy \in 0 .. stamp /\ t.pc \in {"poll", "copy"} /\ Turn(k, t)
    <3>1. CASE Device(thread[k].index) = {}
      <4> DEFINE t == [thread[k] EXCEPT !.pc = "poll"]
      <4>1. t \in Worker /\ t.copy = thread[k].copy /\ t.pc = "poll"
        BY <1>2, Zenon DEF Worker
      <4>2. Turn(k, t)
        BY <1>5, <3>1, Zenon DEF GET_PARAMETERS
      <4> HIDE DEF t
      <4> QED
        BY <1>2, <4>1, <4>2, Zenon
    <3>2. CASE Device(thread[k].index) # {}
      <4>1. PICK n \in Device(thread[k].index) :
               Turn(k, [thread[k] EXCEPT !.pc = "copy", !.copy = kernel[n].params])
        BY <1>5, <3>2, Zenon DEF GET_PARAMETERS
      <4> DEFINE t == [thread[k] EXCEPT !.pc = "copy", !.copy = kernel[n].params]
      <4>2. kernel[n].params \in 0 .. stamp /\ kernel[n].params \in Nat
        BY <1>1 DEF Device, KernelOK
      <4>3. t \in Worker /\ t.copy = kernel[n].params /\ t.pc = "copy"
        BY <1>2, <4>2, Zenon DEF Worker
      <4>4. Turn(k, t)
        BY <4>1, Zenon
      <4> HIDE DEF t
      <4> QED
        BY <4>2, <4>3, <4>4, Zenon
    <3> QED
      BY <3>1, <3>2, Zenon
  <2> QED
    BY <1>2, <1>3, <2>1, <2>2, TurnServed, Zenon
<1>6. CASE CopyFirst(k)
  <2> DEFINE t == [thread[k] EXCEPT !.pc = "copied"]
  <2>1. t \in Worker /\ t.copy = thread[k].copy /\ t.pc = "copied"
    BY <1>2, Zenon DEF Worker
  <2>2. Turn(k, t) /\ thread[k].pc = "copy" /\ UNCHANGED <<kernel, rest>> /\ fault' \in BOOLEAN
    BY <1>6, Zenon DEF CopyFirst, ThreadAt
  <2>3. shm' \in [Slot -> (0 .. stamp) \X (0 .. stamp)]
    BY <1>2, <1>6, Zenon DEF CopyFirst
  <2> HIDE DEF t
  <2> QED
    BY <1>2, <1>3, <2>1, <2>2, <2>3, TurnServed, Zenon
<1>7. CASE CopyOthers(k)
  <2> DEFINE t == [thread[k] EXCEPT !.pc = "poll", !.copy = 0]
  <2>1. t \in Worker /\ t.copy = 0 /\ t.pc = "poll"
    BY <1>2, Zenon DEF Worker
  <2>2. Turn(k, t) /\ thread[k].pc = "copied" /\ UNCHANGED <<kernel, fault, rest>>
    BY <1>7, Zenon DEF CopyOthers, ThreadAt
  <2>3. shm' \in [Slot -> (0 .. stamp) \X (0 .. stamp)]
    BY <1>2, <1>7, Zenon DEF CopyOthers
  <2> HIDE DEF t
  <2> QED
    BY <1>2, <1>3, <2>1, <2>2, <2>3, TurnServed
<1>8. CASE EndThread(k)
  <2> DEFINE t == [None EXCEPT !.pc = "ended"]
  <2>1. t \in Worker /\ t.copy = 0 /\ t.pc = "ended"
    BY Zenon DEF Worker, None
  <2>2. Turn(k, t) /\ thread[k].pc = "poll" /\ UNCHANGED <<kernel, shm, fault, rest>>
        /\ (~ running \/ ~ vtimeline[k].running)
    BY <1>8, Zenon DEF EndThread, ThreadAt
  <2> HIDE DEF t
  <2> QED
    BY <1>2, <1>3, <2>1, <2>2, TurnServed
<1>9. CASE qot_timeline_chdev_poll(k)
  <2> DEFINE t == [thread[k] EXCEPT !.pc = "flagged"]
  <2>1. t \in Worker /\ t.copy = thread[k].copy /\ t.pc = "flagged"
    BY <1>2, Zenon DEF Worker
  <2>2. Turn(k, t) /\ thread[k].pc = "poll" /\ UNCHANGED <<kernel, shm, fault, rest>>
    BY <1>9, Zenon DEF qot_timeline_chdev_poll, ThreadAt
  <2> HIDE DEF t
  <2> QED
    BY <1>2, <1>3, <2>1, <2>2, TurnServed, Zenon
<1>10. CASE ClearFlag(k)
  <2> DEFINE t == [thread[k] EXCEPT !.pc = "get"]
  <2>1. t \in Worker /\ t.copy = thread[k].copy /\ t.pc = "get"
    BY <1>2, Zenon DEF Worker
  <2>2. Turn(k, t) /\ thread[k].pc = "flagged" /\ UNCHANGED <<shm, fault, rest>>
    BY <1>10, Zenon DEF ClearFlag, ThreadAt
  <2>3. stamp' = stamp /\ DOMAIN kernel' = DOMAIN kernel /\ \A n \in DOMAIN kernel :
           kernel'[n] = kernel[n] \/ kernel'[n] = [kernel[n] EXCEPT !.flag = FALSE]
    BY <1>10, Zenon DEF ClearFlag, rest
  <2>4. ASSUME NEW n \in DOMAIN kernel
        PROVE  /\ kernel'[n] \in Timeline /\ kernel'[n].params \in 1 .. stamp'
               /\ kernel'[n].index = kernel[n].index /\ kernel'[n].bound = kernel[n].bound
    <3>1. kernel[n] \in Timeline /\ kernel[n].params \in 1 .. stamp
      BY <1>1, Zenon DEF KernelOK
    <3> QED
      BY <2>3, <3>1, Zenon DEF Timeline
  <2>5. Same
    BY <1>1, <1>2, <2>3, <2>4, KernelChanges, Zenon
  <2> HIDE DEF t
  <2> QED
    BY <1>2, <2>1, <2>2, <2>5, TurnServed, Zenon
<1> QED
  BY <1>4, <1>5, <1>6, <1>7, <1>8, <1>9, <1>10, Zenon DEF Thread

-----------------------------------------------------------------------------
\* The types.

LEMMA ServedInit ==
    ASSUME Init
    PROVE  Served
<1>1. KernelOK
  <2>1. DOMAIN kernel = {}
    BY DEF Init
  <2> QED
    BY <2>1, FS_EmptySet, Zenon DEF Init, KernelOK
<1>2. ListOK
  <2>1. Listed = {}
    BY Zenon DEF Init, Listed, Free
  <2>2. vtimeline \in [Slot -> Entry] /\ tl_count = 0
    BY DEF Init, Free, Entry
  <2>3. main \in [pc : Label, of : Guest \cup {Nil}, tl_id : Slot \cup {-1}]
    BY Zenon DEF Init, Rest, Label
  <2> QED
    BY <2>1, <2>2, <2>3, FS_EmptySet, Zenon DEF ListOK
<1>3. CopyOK
  <2>1. thread \in [Slot -> Worker] /\ \A k \in Slot : thread[k].copy \in 0 .. stamp
    BY DEF Init, None, Worker
  <2>2. shm \in [Slot -> (0 .. stamp) \X (0 .. stamp)]
    BY DEF Init
  <2> QED
    BY <2>1, <2>2, Zenon DEF CopyOK, Init
<1>4. ClientOK /\ Asked
  <2>1. Outside \in Client /\ Outside.pc = "idle"
    BY Zenon DEF Outside, Client
  <2> QED
    BY <2>1, Zenon DEF Init, ClientOK, Asked
<1>5. Serving
  BY Zenon DEF Init, Rest, Serving, Pause, Creating, Destroying, Leaving
<1> QED
  BY <1>1, <1>2, <1>3, <1>4, <1>5, TypeParts, Zenon DEF Served

LEMMA ServedStutter ==
    ASSUME Served, UNCHANGED vars
    PROVE  Served'
<1>1. UNCHANGED <<kernel, vtimeline, tl_count, main, thread, shm, guest, msg, running, fault, stamp>>
  BY Zenon DEF vars
<1>2. KernelOK'
  BY <1>1, TypeParts, KernelStays, Zenon DEF Served
<1> QED
  BY <1>1, <1>2, HostServed, Zenon

LEMMA ServedStep ==
    ASSUME Served, [Next]_vars
    PROVE  Served'
<1>1. CASE Main
  BY <1>1, ReadServed, CreateServed, CreateTimelineServed, JoinServed, SpawnServed,
     DestroyServed, CancelServed, WaitServed, LeaveServed, DestroyTimelineServed,
     UpdateServed, EndedServed, Zenon
     DEF Main, SIGPIPE
<1>2. CASE Return \/ exit_handler \/ HostStep
  BY <1>2, EndedServed, ExitServed, HostStepServed, Zenon DEF Return
<1>3. ASSUME NEW k \in Slot, Thread(k) PROVE Served'
  BY <1>3, ThreadServed, Zenon
<1>4. ASSUME NEW g \in Guest, GuestStep(g) PROVE Served'
  BY <1>4, GuestServed, Zenon
<1> QED
  BY <1>1, <1>2, <1>3, <1>4, ServedStutter, Zenon DEF Next

\* The types hold for any numbers of guests, names and timelines, whatever the
\* application on the host does: the list has as many entries as it counts, also
\* when entries are made for timelines that the host has created meanwhile, and the
\* main thread and the other threads never look outside it.
THEOREM VirtIsTyped == Spec => []TypeOK
<1>1. Init => Served
  BY ServedInit, Zenon
<1>2. Served /\ [Next]_vars => Served'
  BY ServedStep, Zenon
<1>3. Served => TypeOK
  BY Zenon DEF Served
<1> QED
  BY <1>1, <1>2, <1>3, PTL DEF Spec

-----------------------------------------------------------------------------
\* What the daemon has for the guests.

\* The host has no timeline of a guest's name, and the list has room for all names.
Separate == Name \cap HostName = {} /\ IsFiniteSet(Name) /\ Cardinality(Name) <= MAX_TIMELINES

Ours == Name \cap DOMAIN kernel

\* The main thread is about to start, or to give up, what entry k of the list is for.
Starting(k) == main.pc \in {"join", "spawn"} /\ main.tl_id = k
Ending(k)   == main.pc \in Leaving /\ main.tl_id = k

\* No two timelines have the same index.
Indices == \A m, n \in DOMAIN kernel : kernel[m].index = kernel[n].index => m = n

\* The daemon is bound to the timelines of the guests, except to the one that it has
\* just created or left, and the application to its own.
Bindings ==
    /\ \A n \in Ours : kernel[n].bound =
          IF main.pc \in {"join", "destroy"} /\ virtmsg.name = n THEN {} ELSE {Daemon}
    /\ \A n \in HostName \cap DOMAIN kernel : kernel[n].bound \subseteq {App}

\* A timeline that is to be created is not there yet; one that is being started or
\* given up is there, at the entry that the main thread works on.
Present ==
    /\ main.pc = "create" => virtmsg.name \notin DOMAIN kernel
    /\ main.pc \in {"join", "spawn"} \cup Leaving =>
          /\ virtmsg.name \in DOMAIN kernel /\ virtmsg.index = kernel[virtmsg.name].index
          /\ vtimeline[main.tl_id].index = virtmsg.index

\* The list has one entry for each timeline of the guests.
Complete ==
    /\ \A k \in Listed : \E n \in Ours : vtimeline[k].index = kernel[n].index
    /\ \A n \in Ours : \E k \in Slot : vtimeline[k].index = kernel[n].index
    /\ \A j, k \in Listed : vtimeline[j].index = vtimeline[k].index => j = k

\* An entry counts the guests that hold its timeline.  One that is being started
\* counts the guest that has not been told yet, one that is being given up no longer
\* the last.
Counts ==
    \A k \in Slot, n \in Ours : vtimeline[k].index = kernel[n].index =>
        /\ Starting(k) => vtimeline[k].bind_count = 1 /\ Holders(n) = {}
        /\ Ending(k) => vtimeline[k].bind_count = 0 /\ Holders(n) = {main.of}
        /\ ~ Starting(k) /\ ~ Ending(k) =>
              vtimeline[k].bind_count = Cardinality(Holders(n)) /\ Holders(n) # {}

\* The index that a guest was told, or is about to be.
IndexOf(g) == IF guest[g].pc = "binding" THEN msg[g].index ELSE guest[g].index

\* A timeline that a guest holds is there, and no guest was refused.
Held ==
    /\ \A g \in Guest, n \in Name : Holds(g, n) => n \in DOMAIN kernel /\ IndexOf(g) = kernel[n].index
    /\ \A g \in Guest : guest[g].pc \in {"bound", "updating", "unbinding"} => guest[g].ok
    /\ \A g \in Guest : guest[g].pc = "binding" => msg[g].ok

\* Each entry has its thread, until the main thread has waited for it, and a thread
\* ends only when it is told to.
Threads ==
    main.pc # "ended" => \A k \in Slot :
        /\ thread[k].pc = "none" <=>
              \/ k \notin Listed \/ Starting(k)
              \/ main.pc \in {"leave", "destroy"} /\ main.tl_id = k
        /\ thread[k].pc = "ended" => ~ running \/ ~ vtimeline[k].running
        /\ k \in Listed /\ ~ Ending(k) => vtimeline[k].running

Mirror == Indices /\ Bindings /\ Present /\ Complete /\ Counts /\ Held /\ Threads

-----------------------------------------------------------------------------
\* Steps that leave the main thread and the list alone.

LEMMA HoldersStay ==
    ASSUME \A g \in Guest, n \in Name : Holds(g, n)' <=> Holds(g, n)
    PROVE  \A n \in Name : Holders(n)' = Holders(n)
BY Zenon DEF Holders

LEMMA SameHolds ==
    ASSUME NEW g \in Guest, NEW n, guest'[g] = guest[g], msg'[g] = msg[g]
    PROVE  Holds(g, n)' <=> Holds(g, n)
BY Zenon DEF Holds

LEMMA CompleteStays ==
    ASSUME Complete, Ours' = Ours, \A n \in Ours : kernel'[n].index = kernel[n].index,
           \A k \in Slot : vtimeline'[k].index = vtimeline[k].index
    PROVE  Complete' /\ Listed' = Listed
<1>1. Listed' = Listed
  BY Zenon DEF Listed
<1> QED
  BY <1>1, SlotFinite DEF Complete

\* What an entry counts.
LEMMA CountsAt ==
    ASSUME Counts, NEW k \in Slot, NEW n \in Ours, vtimeline[k].index = kernel[n].index
    PROVE  /\ Starting(k) => vtimeline[k].bind_count = 1 /\ Holders(n) = {}
           /\ Ending(k) => vtimeline[k].bind_count = 0 /\ Holders(n) = {main.of}
           /\ ~ Starting(k) /\ ~ Ending(k) =>
                 vtimeline[k].bind_count = Cardinality(Holders(n)) /\ Holders(n) # {}
BY Zenon DEF Counts

\* Timelines of the host may come and go.
LEMMA MirrorStays ==
    ASSUME Served, Mirror, Indices',
           \A n \in Name : n \in DOMAIN kernel' <=> n \in DOMAIN kernel,
           \A n \in Ours : kernel'[n].index = kernel[n].index /\ kernel'[n].bound = kernel[n].bound,
           \A n \in HostName \cap DOMAIN kernel' : kernel'[n].bound \subseteq {App},
           UNCHANGED <<vtimeline, main>>,
           main.pc \notin Pause => msg'[main.of] = msg[main.of],
           \A n \in Name : Holders(n)' = Holders(n),
           Held', Threads'
    PROVE  Mirror'
<1>1. Ours' = Ours
  BY Zenon DEF Ours
<1>2. Bindings /\ Present /\ Complete /\ Counts
  BY Zenon DEF Mirror
<1>3. main.pc \in {"create", "join", "spawn"} \cup Leaving => main.pc \notin Pause /\ virtmsg.name \in Name
  <2>1. main.pc \in {"create", "join", "spawn"} \cup Leaving => main.pc \notin Pause
    BY Zenon DEF Leaving, Pause
  <2> QED
    BY <2>1, Current_Message, Zenon DEF Request
<1>4. main.pc \notin Pause => virtmsg' = virtmsg
  BY Zenon DEF virtmsg
<1>5. Bindings'
  <2>1. \A n \in Ours : kernel'[n].bound =
           IF main.pc \in {"join", "destroy"} /\ virtmsg.name = n THEN {} ELSE {Daemon}
    BY <1>2, Zenon DEF Bindings
  <2>2. main.pc \in {"join", "destroy"} => virtmsg' = virtmsg
    BY <1>3, <1>4, Zenon DEF Leaving
  <2> QED
    BY <1>1, <2>1, <2>2, Zenon DEF Bindings
<1>6. Present'
  BY <1>2, <1>3, <1>4, Zenon DEF Present, Ours
<1>7. Complete'
  BY <1>1, <1>2, CompleteStays, Zenon
<1>8. Counts'
  <2> SUFFICES ASSUME NEW k \in Slot, NEW n \in Ours, vtimeline[k].index = kernel[n].index
               PROVE  /\ Starting(k) => vtimeline[k].bind_count = 1 /\ Holders(n)' = {}
                      /\ Ending(k) => vtimeline[k].bind_count = 0 /\ Holders(n)' = {main.of}
                      /\ ~ Starting(k) /\ ~ Ending(k) =>
                            vtimeline[k].bind_count = Cardinality(Holders(n)') /\ Holders(n)' # {}
    BY <1>1 DEF Counts, Starting, Ending
  <2>1. n \in Name
    BY Zenon DEF Ours
  <2>2. Holders(n)' = Holders(n)
    BY <2>1, Zenon
  <2> QED
    BY <1>2, <2>2, CountsAt, Zenon
<1> QED
  BY <1>5, <1>6, <1>7, <1>8, Zenon DEF Mirror

LEMMA ThreadsStay ==
    ASSUME Mirror, UNCHANGED <<vtimeline, main, thread>>, running' => running
    PROVE  Threads'
BY Zenon DEF Mirror, Threads, Listed, Starting, Ending

\* A step of the host, or of a thread, that tells the guests nothing.
LEMMA HostMirror ==
    ASSUME Served, Mirror, Indices', Threads',
           \A n \in Name : n \in DOMAIN kernel' <=> n \in DOMAIN kernel,
           \A n \in Ours : kernel'[n].index = kernel[n].index /\ kernel'[n].bound = kernel[n].bound,
           \A n \in HostName \cap DOMAIN kernel' : kernel'[n].bound \subseteq {App},
           UNCHANGED <<vtimeline, main, guest, msg>>
    PROVE  Mirror'
<1>1. \A n \in Name : Holders(n)' = Holders(n)
  BY SameHolds, HoldersStay, Zenon
<1>2. Held'
  <2>1. \A g \in Guest, n \in Name : Holds(g, n)' => n \in DOMAIN kernel' /\ IndexOf(g)' = kernel'[n].index
    BY SameHolds, Zenon DEF Mirror, Held, IndexOf, Ours
  <2> QED
    BY <2>1, Zenon DEF Mirror, Held
<1> QED
  BY <1>1, <1>2, MirrorStays, Zenon

LEMMA SameTimelines ==
    ASSUME Mirror, DOMAIN kernel' = DOMAIN kernel,
           \A n \in DOMAIN kernel : kernel'[n].index = kernel[n].index /\ kernel'[n].bound = kernel[n].bound
    PROVE  /\ Indices'
           /\ \A n \in Name : n \in DOMAIN kernel' <=> n \in DOMAIN kernel
           /\ \A n \in Ours : kernel'[n].index = kernel[n].index /\ kernel'[n].bound = kernel[n].bound
           /\ \A n \in HostName \cap DOMAIN kernel' : kernel'[n].bound \subseteq {App}
<1>1. Indices'
  BY Zenon DEF Mirror, Indices
<1> QED
  BY <1>1, Zenon DEF Mirror, Bindings, Ours

LEMMA HostStepMirror ==
    ASSUME Served, Mirror, Separate, HostStep
    PROVE  Mirror'
<1>1. KernelOK
  BY TypeParts, Zenon DEF Served
<1>2. ASSUME NEW n \in Name \cup HostName, Discipline(n) PROVE Mirror'
  <2>1. UNCHANGED <<vtimeline, main, thread, guest, msg, running>>
    BY <1>2, Zenon DEF Discipline
  <2> QED
    BY <1>1, <1>2, <2>1, DisciplineKernel, SameTimelines, ThreadsStay, HostMirror, Zenon
<1>3. ASSUME NEW n \in HostName, HostPoll(n) PROVE Mirror'
  <2>1. UNCHANGED <<vtimeline, main, thread, guest, msg, running>>
    BY <1>3, Zenon DEF HostPoll
  <2> QED
    BY <1>1, <1>3, <2>1, HostPollKernel, SameTimelines, ThreadsStay, HostMirror, Zenon
<1>4. ASSUME NEW n \in HostName, HostBind(n) PROVE Mirror'
  <2>1. UNCHANGED <<vtimeline, main, thread, guest, msg, running>>
    BY <1>4, Zenon DEF HostBind
  <2>2. n \notin Name
    BY Zenon DEF Separate
  <2>3. /\ DOMAIN kernel' = DOMAIN kernel \cup {n}
        /\ \A m \in DOMAIN kernel : kernel'[m].index = kernel[m].index /\ (m # n => kernel'[m] = kernel[m])
        /\ n \notin DOMAIN kernel => kernel'[n].index = idr_alloc
        /\ kernel'[n].bound = IF n \in DOMAIN kernel THEN kernel[n].bound \cup {App} ELSE {App}
    BY <1>1, <1>4, HostBindKernel, Zenon
  <2>4. \A m \in DOMAIN kernel : kernel[m].index # idr_alloc
    BY <1>1, FreshIndex, Zenon
  <2>5. Indices'
    BY <2>3, <2>4 DEF Mirror, Indices
  <2>6. \A m \in HostName \cap DOMAIN kernel' : kernel'[m].bound \subseteq {App}
    BY <2>3, Zenon DEF Mirror, Bindings
  <2>7. /\ \A m \in Name : m \in DOMAIN kernel' <=> m \in DOMAIN kernel
        /\ \A m \in Ours : kernel'[m].index = kernel[m].index /\ kernel'[m].bound = kernel[m].bound
    BY <2>2, <2>3, Zenon DEF Ours
  <2> QED
    BY <2>1, <2>5, <2>6, <2>7, ThreadsStay, HostMirror, Zenon
<1>5. ASSUME NEW n \in HostName, HostUnbind(n) PROVE Mirror'
  <2>1. UNCHANGED <<vtimeline, main, thread, guest, msg, running>>
    BY <1>5, Zenon DEF HostUnbind
  <2>2. n \notin Name
    BY DEF Separate
  <2>3. /\ DOMAIN kernel' \subseteq DOMAIN kernel /\ DOMAIN kernel \ {n} \subseteq DOMAIN kernel'
        /\ \A m \in DOMAIN kernel' : /\ kernel'[m].index = kernel[m].index
                                     /\ m # n => kernel'[m] = kernel[m]
                                     /\ kernel'[m].bound \subseteq kernel[m].bound
    BY <1>1, <1>5, HostUnbindKernel, Zenon
  <2>4. Indices'
    BY <2>3, Zenon DEF Mirror, Indices
  <2>5. \A m \in HostName \cap DOMAIN kernel' : kernel'[m].bound \subseteq {App}
    BY <2>3, Zenon DEF Mirror, Bindings
  <2>6. /\ \A m \in Name : m \in DOMAIN kernel' <=> m \in DOMAIN kernel
        /\ \A m \in Ours : kernel'[m].index = kernel[m].index /\ kernel'[m].bound = kernel[m].bound
    BY <2>2, <2>3, Zenon DEF Ours
  <2> QED
    BY <2>1, <2>4, <2>5, <2>6, ThreadsStay, HostMirror
<1> QED
  BY <1>2, <1>3, <1>4, <1>5, Zenon DEF HostStep

LEMMA ThreadMirror ==
    ASSUME Served, Mirror, NEW k \in Slot, Thread(k)
    PROVE  Mirror'
<1>1. /\ thread[k].pc \notin {"none", "ended"} /\ thread'[k].pc # "none"
      /\ thread'[k].pc = "ended" => ~ running \/ ~ vtimeline[k].running
      /\ \A j \in Slot : j # k => thread'[j] = thread[j]
      /\ UNCHANGED <<vtimeline, main, guest, msg, running>>
  BY ThreadServed, Zenon DEF rest
<1>2. DOMAIN kernel' = DOMAIN kernel /\ \A n \in DOMAIN kernel :
         kernel'[n].index = kernel[n].index /\ kernel'[n].bound = kernel[n].bound
  BY ThreadServed, Zenon
<1>3. Threads'
  BY <1>1 DEF Mirror, Threads, Listed, Starting, Ending
<1> QED
  BY <1>1, <1>2, <1>3, SameTimelines, HostMirror, Zenon

LEMMA ExitMirror ==
    ASSUME Served, Mirror, exit_handler
    PROVE  Mirror'
<1>1. UNCHANGED <<kernel, vtimeline, main, thread, guest, msg>> /\ running' = FALSE
  BY Zenon DEF exit_handler
<1> QED
  BY <1>1, SameTimelines, ThreadsStay, HostMirror, Zenon

-----------------------------------------------------------------------------
\* The guests.

\* A guest holds what it held, at the index that it was told.
LEMMA GuestMirror ==
    ASSUME Served, Mirror, NEW g \in Guest, Served',
           UNCHANGED <<kernel, vtimeline, main, thread, running>>,
           \A h \in Guest : h # g => guest'[h] = guest[h] /\ msg'[h] = msg[h],
           main.pc \notin Pause => msg'[main.of] = msg[main.of],
           \A n \in Name : Holds(g, n)' <=> Holds(g, n),
           \A n \in Name : Holds(g, n) => IndexOf(g)' = IndexOf(g),
           guest'[g].pc \in {"bound", "updating", "unbinding"} => guest'[g].ok,
           guest'[g].pc = "binding" => msg'[g].ok
    PROVE  Mirror'
<1>1. \A h \in Guest, n \in Name : Holds(h, n)' <=> Holds(h, n)
  BY SameHolds, Zenon
<1>2. \A n \in Name : Holders(n)' = Holders(n)
  BY <1>1, HoldersStay, Zenon
<1>3. \A h \in Guest : h # g => IndexOf(h)' = IndexOf(h)
  BY Zenon DEF IndexOf
<1>4. Held'
  <2>1. \A h \in Guest, n \in Name : Holds(h, n) => IndexOf(h)' = IndexOf(h)
    BY <1>3, Zenon
  <2>2. \A h \in Guest, n \in Name : Holds(h, n)' => n \in DOMAIN kernel' /\ IndexOf(h)' = kernel'[n].index
    BY <1>1, <2>1 DEF Mirror, Held
  <2>3. \A h \in Guest : /\ guest'[h].pc \in {"bound", "updating", "unbinding"} => guest'[h].ok
                         /\ guest'[h].pc = "binding" => msg'[h].ok
    BY Zenon DEF Mirror, Held
  <2> QED
    BY <2>2, <2>3, Zenon DEF Held
<1>5. Threads'
  BY ThreadsStay, Zenon
<1> QED
  BY <1>2, <1>4, <1>5, SameTimelines, MirrorStays, Zenon

LEMMA BindMirror ==
    ASSUME Served, Mirror, Served', NEW g \in Guest, NEW n \in Name, NEW d \in Demand, NEW i \in GuestIndex,
           timeline_bind(g, n, d, i)
    PROVE  Mirror'
<1>1. /\ guest \in [Guest -> Client] /\ msg \in [Guest -> Request \cup {Nil}]
      /\ guest' \in [Guest -> Client]
  BY TypeParts, Zenon DEF Served, ClientOK, TypeOK
<1>2. /\ guest[g].pc = "idle" /\ UNCHANGED <<kernel, vtimeline, main, thread, running>>
      /\ guest' = [guest EXCEPT ![g] = [@ EXCEPT !.pc = "binding", !.demand = d]]
      /\ msg' = [msg EXCEPT ![g] = [type |-> "TIMELINE_CREATE", name |-> n, index |-> i, demand |-> d,
                                    ok |-> TRUE, done |-> FALSE]]
  BY Zenon DEF timeline_bind, Lives, Send
<1>3. /\ \A h \in Guest : h # g => guest'[h] = guest[h] /\ msg'[h] = msg[h]
      /\ guest'[g].pc = "binding" /\ ~ msg'[g].done /\ msg'[g].ok
  BY <1>1, <1>2, Zenon DEF Client
<1>4. \A m \in Name : ~ Holds(g, m) /\ ~ Holds(g, m)'
  BY <1>2, <1>3, Zenon DEF Holds
<1>5. main.pc \notin Pause => main.of \in Guest /\ main.of # g
  BY <1>2, NotServed, Current_Message, Zenon
<1> QED
  BY <1>2, <1>3, <1>4, <1>5, GuestMirror, Zenon

\* timeline_unbind and timeline_set.
LEMMA CallMirror ==
    ASSUME Served, Mirror, Served', NEW g \in Guest, NEW type, NEW n, NEW i, NEW d,
           guest[g].pc = "bound", guest'[g].pc \in {"updating", "unbinding"},
           guest'[g].name = guest[g].name, guest'[g].index = guest[g].index, guest'[g].ok = guest[g].ok,
           \A h \in Guest : h # g => guest'[h] = guest[h],
           Send(g, type, n, i, d)
    PROVE  Mirror'
<1>1. msg \in [Guest -> Request \cup {Nil}]
  BY TypeParts, Zenon DEF Served, ClientOK
<1>2. /\ \A h \in Guest : h # g => msg'[h] = msg[h]
      /\ ~ msg'[g].done /\ UNCHANGED <<kernel, vtimeline, main, thread, running>>
  BY <1>1, Zenon DEF Send
<1>3. \A m \in Name : Holds(g, m)' <=> Holds(g, m)
  BY <1>2, Zenon DEF Holds
<1>4. IndexOf(g)' = IndexOf(g)
  BY Zenon DEF IndexOf
<1>5. main.pc \notin Pause => main.of \in Guest /\ main.of # g
  BY NotServed, Current_Message, Zenon
<1>6. guest'[g].ok
  BY Zenon DEF Mirror, Held
<1> QED
  BY <1>2, <1>3, <1>4, <1>5, <1>6, GuestMirror, Zenon

LEMMA SetMirror ==
    ASSUME Served, Mirror, Served', NEW g \in Guest, NEW d \in Demand, timeline_set(g, d)
    PROVE  Mirror'
<1>1. guest \in [Guest -> Client]
  BY TypeParts, Zenon DEF Served, ClientOK
<1>2. /\ guest[g].pc = "bound" /\ Send(g, "TIMELINE_UPDATE", guest[g].name, guest[g].index, d)
      /\ guest' = [guest EXCEPT ![g] = [@ EXCEPT !.pc = "updating", !.demand = d]]
  BY Zenon DEF timeline_set, Lives
<1>3. /\ guest'[g].pc = "updating" /\ guest'[g].name = guest[g].name
      /\ guest'[g].index = guest[g].index /\ guest'[g].ok = guest[g].ok
      /\ \A h \in Guest : h # g => guest'[h] = guest[h]
  BY <1>1, <1>2, Zenon DEF Client
<1> QED
  BY <1>2, <1>3, CallMirror, Zenon

LEMMA UnbindMirror ==
    ASSUME Served, Mirror, Served', NEW g \in Guest, timeline_unbind(g)
    PROVE  Mirror'
<1>1. guest \in [Guest -> Client]
  BY TypeParts, Zenon DEF Served, ClientOK
<1>2. /\ guest[g].pc = "bound"
      /\ Send(g, "TIMELINE_DESTROY", guest[g].name, guest[g].index, guest[g].demand)
      /\ guest' = [guest EXCEPT ![g] = [@ EXCEPT !.pc = "unbinding"]]
  BY Zenon DEF timeline_unbind, Lives
<1>3. /\ guest'[g].pc = "unbinding" /\ guest'[g].name = guest[g].name
      /\ guest'[g].index = guest[g].index /\ guest'[g].ok = guest[g].ok
      /\ \A h \in Guest : h # g => guest'[h] = guest[h]
  BY <1>1, <1>2, Zenon DEF Client
<1> QED
  BY <1>2, <1>3, CallMirror, Zenon

LEMMA RepliedMirror ==
    ASSUME Served, Mirror, Served', NEW g \in Guest, Replied(g)
    PROVE  Mirror'
<1>1. /\ guest \in [Guest -> Client] /\ msg \in [Guest -> Request \cup {Nil}]
      /\ \A h \in Guest : msg[h] # Nil <=> guest[h].pc \in {"binding", "updating", "unbinding"}
  BY TypeParts, Zenon DEF Served, ClientOK
<1>2. /\ msg[g] # Nil /\ msg[g].done /\ msg' = [msg EXCEPT ![g] = Nil]
      /\ UNCHANGED <<kernel, vtimeline, main, thread, running>>
      /\ guest' = [guest EXCEPT ![g] = After(g)]
  BY Zenon DEF Replied, After
<1>3. guest'[g] = After(g) /\ \A h \in Guest : h # g => guest'[h] = guest[h] /\ msg'[h] = msg[h]
  BY <1>1, <1>2, Zenon
<1>4. /\ guest'[g].pc \in {"bound", "idle"} /\ guest[g].pc \in {"binding", "updating", "unbinding"}
      /\ guest[g].pc = "binding" => /\ guest'[g].pc = "bound" /\ guest'[g].name = msg[g].name
                                    /\ guest'[g].index = msg[g].index /\ guest'[g].ok = msg[g].ok
      /\ guest[g].pc = "unbinding" => guest'[g].pc = "idle"
      /\ guest[g].pc = "updating" => /\ guest'[g].pc = "bound" /\ guest'[g].name = guest[g].name
                                     /\ guest'[g].index = guest[g].index /\ guest'[g].ok = guest[g].ok
  BY <1>1, <1>2, <1>3, AfterOK, Zenon
<1>5. \A m \in Name : Holds(g, m)' <=> Holds(g, m)
  BY <1>2, <1>4, Zenon DEF Holds
<1>6. \A m \in Name : Holds(g, m) => IndexOf(g)' = IndexOf(g)
  BY <1>2, <1>4, Zenon DEF Holds, IndexOf
<1>7. main.pc \notin Pause => main.of \in Guest /\ main.of # g
  BY <1>2, NotServed, Current_Message, Zenon
<1>8. guest'[g].pc = "bound" => guest'[g].ok
  BY <1>4, Zenon DEF Mirror, Held
<1> QED
  BY <1>2, <1>3, <1>4, <1>5, <1>6, <1>7, <1>8, GuestMirror, Zenon

LEMMA CrashMirror ==
    ASSUME Served, Mirror, Served', NEW g \in Guest, Crash(g)
    PROVE  Mirror'
<1>1. \A h \in Guest : /\ guest'[h].pc = guest[h].pc /\ guest'[h].name = guest[h].name
                       /\ guest'[h].index = guest[h].index /\ guest'[h].ok = guest[h].ok
  BY CrashServed, Zenon
<1>2. UNCHANGED <<kernel, vtimeline, main, thread, running, msg>>
      /\ \A h \in Guest : h # g => guest'[h] = guest[h]
  BY TypeParts, Zenon DEF Crash, Served, ClientOK
<1>3. \A m \in Name : Holds(g, m)' <=> Holds(g, m)
  BY <1>1, <1>2, Zenon DEF Holds
<1>4. IndexOf(g)' = IndexOf(g)
  BY <1>1, <1>2, Zenon DEF IndexOf
<1>5. /\ guest'[g].pc \in {"bound", "updating", "unbinding"} => guest'[g].ok
      /\ guest'[g].pc = "binding" => msg'[g].ok
  BY <1>1, <1>2, Zenon DEF Mirror, Held
<1> QED
  BY <1>2, <1>3, <1>4, <1>5, GuestMirror, Zenon

LEMMA GuestStepMirror ==
    ASSUME Served, Mirror, Served', NEW g \in Guest, GuestStep(g)
    PROVE  Mirror'
BY BindMirror, SetMirror, UnbindMirror, RepliedMirror, CrashMirror, Zenon DEF GuestStep

=============================================================================
