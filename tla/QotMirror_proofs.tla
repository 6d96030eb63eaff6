------------------------- MODULE QotMirror_proofs -------------------------
(***************************************************************************)
(* The daemon's list, bindings and threads mirror what the guests hold:    *)
(* the steps of the main thread, and the theorems.                         *)
(***************************************************************************)
EXTENDS QotVirt_proofs

-----------------------------------------------------------------------------
\* The main thread: what it changes in the hands of the guests.

\* The entry of a guest's timeline is the only one with its index.
LEMMA OurEntry ==
    ASSUME Served, Mirror, NEW n \in Ours
    PROVE  LET k == get_timeline_list_id(kernel[n].index)
           IN  /\ k \in Slot /\ k \in Listed /\ k # -1 /\ kernel[n].index \in Nat
               /\ \A j \in Slot : /\ vtimeline[j].index = kernel[n].index <=> j = k
                                  /\ IsFirst(j, kernel[n].index, vtimeline) <=> j = k
<1> DEFINE i == kernel[n].index
           k == get_timeline_list_id(i)
<1>1. i \in Nat
  BY TypeParts, Zenon DEF Served, KernelOK, Timeline, Ours
<1>2. Complete
  BY Zenon DEF Mirror
<1>3. PICK j \in Slot : vtimeline[j].index = i
  BY <1>2, Zenon DEF Complete
<1>4. \A a, b \in Slot : vtimeline[a].index = i /\ vtimeline[b].index = i => a = b
  BY <1>1, <1>2 DEF Complete, Listed
<1> HIDE DEF i
<1>5. Entries(i) # {}
  BY <1>3, Zenon DEF Entries
<1>6. k \in Slot /\ \A a \in Slot : IsFirst(a, i, vtimeline) <=> a = k
  BY <1>5, FirstEntry, Zenon
<1> HIDE DEF k
<1>7. vtimeline[k].index = i
  BY <1>6, Zenon DEF IsFirst
<1>8. k \in Listed /\ k # -1
  BY <1>1, <1>6, <1>7, SlotFinite DEF Listed
<1> QED
  BY <1>1, <1>4, <1>6, <1>7, <1>8, Zenon DEF i, k

LEMMA FillOthers ==
    ASSUME Served, main.pc \notin Pause, UNCHANGED guest, NEW m, Fill(m)
    PROVE  /\ \A h \in Guest : h # main.of => msg'[h] = msg[h] /\ guest'[h] = guest[h]
           /\ msg'[main.of] = m /\ main.of \in Guest
           /\ \A h \in Guest : \A n : h # main.of => (Holds(h, n)' <=> Holds(h, n))
<1>1. main.of \in Guest
  BY Current_Message, Zenon
<1>2. /\ \A h \in Guest : h # main.of => msg'[h] = msg[h] /\ guest'[h] = guest[h]
      /\ msg'[main.of] = m
  BY <1>1, TypeParts, Zenon DEF Served, ClientOK, Fill
<1>3. \A h \in Guest : \A n : h # main.of => (Holds(h, n)' <=> Holds(h, n))
  BY <1>2, Zenon DEF Holds
<1> QED
  BY <1>1, <1>2, <1>3, Zenon

\* A message that is not sent yet changes nothing, and neither does the reply to an update.
LEMMA HoldersFill ==
    ASSUME Served, main.pc \notin Pause, UNCHANGED guest, NEW g, g = main.of, NEW m, Fill(m),
           ~ m.done \/ guest[g].pc = "updating"
    PROVE  /\ \A h \in Guest, n \in Name : Holds(h, n)' <=> Holds(h, n)
           /\ \A n \in Name : Holders(n)' = Holders(n)
<1>1. /\ msg'[g] = m /\ g \in Guest /\ ~ msg[g].done
      /\ \A h \in Guest : \A n : h # g => (Holds(h, n)' <=> Holds(h, n))
  BY FillOthers, Current_Message, Zenon DEF virtmsg
<1>2. \A n \in Name : Holds(g, n)' <=> Holds(g, n)
  BY <1>1, Zenon DEF Holds
<1>3. \A h \in Guest, n \in Name : Holds(h, n)' <=> Holds(h, n)
  BY <1>1, <1>2, Zenon
<1> QED
  BY <1>3, HoldersStay, Zenon

\* The reply to a creation tells the guest that it holds the timeline.
LEMMA HoldersCreate ==
    ASSUME Served, main.pc \notin Pause, UNCHANGED guest, NEW g, g = main.of, NEW m, Fill(m),
           guest[g].pc = "binding", m.done, m.ok
    PROVE  /\ \A n \in Name : Holders(n)' = IF n = m.name THEN Holders(n) \cup {g} ELSE Holders(n)
           /\ \A n \in Name : g \notin Holders(n)
           /\ \A n \in Name : Holds(g, n)' <=> n = m.name
<1>1. /\ msg'[g] = m /\ g \in Guest /\ ~ msg[g].done
      /\ \A h \in Guest : \A n : h # g => (Holds(h, n)' <=> Holds(h, n))
  BY FillOthers, Current_Message, Zenon DEF virtmsg
<1>2. \A n \in Name : (Holds(g, n)' <=> n = m.name) /\ ~ Holds(g, n)
  BY <1>1, Zenon DEF Holds
<1> QED
  BY <1>1, <1>2, Zenon DEF Holders

\* The reply to an end tells the guest that it has left.
LEMMA HoldersDestroy ==
    ASSUME Served, main.pc \notin Pause, UNCHANGED guest, NEW g, g = main.of, NEW m, Fill(m),
           guest[g].pc = "unbinding", m.done
    PROVE  /\ \A n \in Name : Holders(n)' = Holders(n) \ {g}
           /\ \A n \in Name : ~ Holds(g, n)'
<1>1. /\ msg'[g] = m /\ g \in Guest
      /\ \A h \in Guest : \A n : h # g => (Holds(h, n)' <=> Holds(h, n))
  BY FillOthers, Zenon
<1>2. \A n \in Name : ~ Holds(g, n)'
  BY <1>1, Zenon DEF Holds
<1> QED
  BY <1>1, <1>2, Zenon DEF Holders

\* A guest that waits for the end of its timeline holds it, and no other.
LEMMA LastHolder ==
    ASSUME Served, Mirror, main.pc \in Destroying
    PROVE  /\ main.of \in Guest /\ virtmsg.name \in Name /\ main.pc \notin Pause
           /\ guest[main.of].pc = "unbinding"
           /\ \A n \in Name : main.of \in Holders(n) <=> n = virtmsg.name
           /\ virtmsg.name \in Ours
<1>1. main.pc \notin Pause
  BY Zenon DEF Destroying, Leaving, Pause
<1>2. main.of \in Guest /\ virtmsg \in Request /\ ~ virtmsg.done
  BY <1>1, Current_Message, Zenon
<1>3. guest[main.of].pc = "unbinding" /\ virtmsg.name = guest[main.of].name
  BY <1>2, Zenon DEF Served, Serving, Asked, virtmsg
<1>4. guest[main.of].ok
  BY <1>2, <1>3, Zenon DEF Mirror, Held
<1>5. \A n \in Name : Holds(main.of, n) <=> n = virtmsg.name
  BY <1>2, <1>3, <1>4, Zenon DEF Holds, virtmsg
<1>6. virtmsg.name \in Name
  BY <1>2, Zenon DEF Request
<1>7. virtmsg.name \in DOMAIN kernel
  BY <1>2, <1>5, <1>6, Zenon DEF Mirror, Held
<1> QED
  BY <1>1, <1>2, <1>3, <1>5, <1>6, <1>7, Zenon DEF Holders, Ours

LEMMA HoldersFinite ==
    ASSUME NEW n
    PROVE  IsFiniteSet(Holders(n)) /\ Cardinality(Holders(n)) \in Nat
<1>1. IsFiniteSet(Holders(n))
  BY VirtAssumption, FS_Subset, Zenon DEF Holders
<1> QED
  BY <1>1, FS_CardinalityType, Zenon

-----------------------------------------------------------------------------
\* The main thread between two timelines.

Plain == Pause \cup {"TIMELINE_CREATE", "TIMELINE_UPDATE", "TIMELINE_DESTROY", "create"}

LEMMA PlainMirror ==
    ASSUME Served, Mirror, main.pc \in Plain, main'.pc \in Plain,
           DOMAIN kernel' = DOMAIN kernel,
           \A n \in DOMAIN kernel : kernel'[n].index = kernel[n].index /\ kernel'[n].bound = kernel[n].bound,
           UNCHANGED vtimeline,
           main'.pc = "create" => msg'[main'.of].name \notin DOMAIN kernel,
           \A n \in Name : Holders(n)' = Holders(n),
           Held', Threads'
    PROVE  Mirror'
<1>1. /\ main.pc \notin {"join", "spawn", "leave", "destroy"}
      /\ main'.pc \notin {"join", "spawn", "leave", "destroy"} /\ main'.pc \notin Leaving
      /\ \A k : ~ Starting(k) /\ ~ Ending(k)
      /\ \A k : ~ Starting(k)' /\ ~ Ending(k)'
  BY Zenon DEF Plain, Pause, Leaving, Starting, Ending
<1>2. Bindings /\ Complete /\ Counts
  BY Zenon DEF Mirror
<1>3. Indices'
  BY SameTimelines, Zenon
<1>4. Ours' = Ours /\ Listed' = Listed
  BY Zenon DEF Ours, Listed
<1>5. \A n \in Ours : kernel'[n].index = kernel[n].index /\ kernel'[n].bound = kernel[n].bound
  BY Zenon DEF Ours
<1>6. Bindings'
  BY <1>1, <1>2, <1>4, <1>5, Zenon DEF Bindings
<1>7. Present'
  BY <1>1, Zenon DEF Present, virtmsg
<1>8. Complete'
  BY <1>2, <1>4, <1>5, CompleteStays, Zenon
<1>9. Counts'
  <2>1. \A k \in Slot, n \in Ours : vtimeline[k].index = kernel[n].index =>
           vtimeline[k].bind_count = Cardinality(Holders(n)) /\ Holders(n) # {}
    BY <1>1, <1>2, Zenon DEF Counts
  <2>2. \A n \in Ours : Holders(n)' = Holders(n)
    BY Zenon DEF Ours
  <2>3. \A k \in Slot, n \in Ours : vtimeline'[k].index = kernel'[n].index =>
           vtimeline'[k].bind_count = Cardinality(Holders(n)') /\ Holders(n)' # {}
    BY <1>5, <2>1, <2>2, Zenon
  <2> QED
    BY <1>1, <1>4, <2>3, Zenon DEF Counts
<1> QED
  BY <1>3, <1>6, <1>7, <1>8, <1>9, Zenon DEF Mirror

LEMMA PlainThreads ==
    ASSUME Mirror, main.pc \in Plain, main.pc # "ended", main'.pc \in Plain,
           UNCHANGED <<vtimeline, thread, running>>
    PROVE  Threads'
<1>1. /\ main.pc \notin {"join", "spawn", "leave", "destroy"}
      /\ main'.pc \notin {"join", "spawn", "leave", "destroy"}
      /\ \A k : ~ Starting(k) /\ ~ Ending(k)
      /\ \A k : ~ Starting(k)' /\ ~ Ending(k)'
  BY Zenon DEF Plain, Pause, Leaving, Starting, Ending
<1> QED
  BY <1>1, Zenon DEF Mirror, Threads, Listed

\* Guests hold the same timelines, at the same indices.
LEMMA HeldStays ==
    ASSUME Mirror, UNCHANGED guest, \A h \in Guest, n \in Name : Holds(h, n)' <=> Holds(h, n),
           \A n \in DOMAIN kernel : n \in DOMAIN kernel' /\ kernel'[n].index = kernel[n].index,
           \A h \in Guest : guest[h].pc = "binding" => msg'[h].ok,
           \A h \in Guest : guest[h].pc = "binding" /\ msg[h].done => msg'[h] = msg[h]
    PROVE  Held'
<1>1. \A h \in Guest, n \in Name : Holds(h, n) => IndexOf(h)' = IndexOf(h)
  BY Zenon DEF Holds, IndexOf
<1>2. \A h \in Guest, n \in Name : Holds(h, n)' => n \in DOMAIN kernel' /\ IndexOf(h)' = kernel'[n].index
  BY <1>1, Zenon DEF Mirror, Held
<1> QED
  BY <1>2, Zenon DEF Mirror, Held

LEMMA ReadMirror ==
    ASSUME Served, Mirror, NEW g \in Guest, Read(g)
    PROVE  Mirror'
<1>1. /\ main.pc = "select" /\ UNCHANGED <<kernel, vtimeline, msg, guest, thread, running>>
      /\ main' = [pc |-> msg[g].type, of |-> g, tl_id |-> -1] /\ msg[g] # Nil
  BY Zenon DEF Read, At, others
<1>2. msg[g].type \in {"TIMELINE_CREATE", "TIMELINE_UPDATE", "TIMELINE_DESTROY"}
  BY <1>1, TypeParts, Zenon DEF Served, ClientOK, Request
<1>3. main.pc \in Plain /\ main'.pc \in Plain /\ main.pc # "ended" /\ main'.pc # "create"
  BY <1>1, <1>2, Zenon DEF Plain, Pause
<1>4. Threads'
  BY <1>1, <1>3, PlainThreads, Zenon
<1>5. \A h \in Guest, n \in Name : Holds(h, n)' <=> Holds(h, n)
  BY <1>1, SameHolds, Zenon
<1>6. Held'
  BY <1>1, <1>5, HeldStays, Zenon DEF Mirror, Held
<1> QED
  BY <1>1, <1>3, <1>4, <1>5, <1>6, HoldersStay, PlainMirror, Zenon

LEMMA UpdateMirror ==
    ASSUME Served, Mirror, TIMELINE_UPDATE
    PROVE  Mirror'
<1>1. /\ main.pc = "TIMELINE_UPDATE" /\ main.pc \notin Pause
      /\ UNCHANGED <<vtimeline, guest, thread, running>>
  BY Zenon DEF TIMELINE_UPDATE, At, others, Pause
<1>2. PICK m : Fill(m)
  BY Zenon DEF TIMELINE_UPDATE, Reply
<1>3. guest[main.of].pc = "updating"
  BY <1>1, Zenon DEF Served, Serving
<1>4. /\ \A h \in Guest, n \in Name : Holds(h, n)' <=> Holds(h, n)
      /\ \A n \in Name : Holders(n)' = Holders(n)
  BY <1>1, <1>2, <1>3, HoldersFill, Zenon
<1>5. /\ DOMAIN kernel' = DOMAIN kernel
      /\ \A n \in DOMAIN kernel : kernel'[n].index = kernel[n].index /\ kernel'[n].bound = kernel[n].bound
      /\ \A g \in Guest : g # main.of => msg'[g] = msg[g]
      /\ main'.pc \in {"select", "SIGPIPE"}
  BY UpdateServed, Zenon
<1>6. main.pc \in Plain /\ main'.pc \in Plain /\ main.pc # "ended" /\ main'.pc # "create"
  BY <1>1, <1>5, Zenon DEF Plain, Pause
<1>7. Threads'
  BY <1>1, <1>6, PlainThreads, Zenon
<1>8. Held'
  <2>1. \A h \in Guest : guest[h].pc = "binding" => msg'[h] = msg[h]
    BY <1>3, <1>5, Zenon
  <2> QED
    BY <1>1, <1>4, <1>5, <2>1, HeldStays, Zenon DEF Mirror, Held
<1> QED
  BY <1>1, <1>4, <1>5, <1>6, <1>7, <1>8, PlainMirror

LEMMA EndedMirror ==
    ASSUME Served, Mirror, main.pc \in {"select", "SIGPIPE"}, Ended
    PROVE  Mirror'
<1>1. UNCHANGED <<kernel, vtimeline, guest, msg>> /\ main'.pc = "ended"
  BY Zenon DEF Ended, Rest
<1>2. main.pc \in Plain /\ main'.pc \in Plain
  BY <1>1, Zenon DEF Plain, Pause
<1>3. Threads'
  BY <1>1, Zenon DEF Threads
<1>4. \A h \in Guest, n \in Name : Holds(h, n)' <=> Holds(h, n)
  BY <1>1, SameHolds, Zenon
<1>5. Held'
  BY <1>1, <1>4, HeldStays, Zenon DEF Mirror, Held
<1> QED
  BY <1>1, <1>2, <1>3, <1>4, <1>5, HoldersStay, PlainMirror, Zenon

-----------------------------------------------------------------------------
\* The main thread: creation.

\* The list has room, since its entries are for different names.
LEMMA Room ==
    ASSUME Served, Mirror, Separate, NEW a \in Name, a \notin DOMAIN kernel
    PROVE  tl_count < MAX_TIMELINES
<1>1. Complete /\ Indices /\ ListOK
  BY TypeParts, Zenon DEF Mirror, Served
<1> DEFINE Owner(k) == CHOOSE n \in Ours : vtimeline[k].index = kernel[n].index
           f == [k \in Listed |-> Owner(k)]
           T == Name \ {a}
<1>2. \A k \in Listed : Owner(k) \in Ours /\ vtimeline[k].index = kernel[Owner(k)].index
  BY <1>1, Zenon DEF Complete
<1>3. Ours \subseteq T
  BY Zenon DEF Ours
<1> HIDE DEF Owner
<1>4. f \in Injection(Listed, T)
  <2>1. f \in [Listed -> T]
    BY <1>2, <1>3, Zenon
  <2>2. \A j, k \in Listed : f[j] = f[k] => j = k
    BY <1>1, <1>2 DEF Complete
  <2> QED
    BY <2>1, <2>2, Zenon DEF Injection, IsInjective
<1>5. IsFiniteSet(T) /\ Cardinality(T) = Cardinality(Name) - 1
  BY FS_RemoveElement, Zenon DEF Separate
<1>6. Cardinality(Name) \in Nat /\ MAX_TIMELINES \in Nat
  BY FS_CardinalityType, VirtAssumption, Zenon DEF Separate
<1> HIDE DEF f, T
<1>7. Cardinality(Listed) <= Cardinality(T)
  BY <1>4, <1>5, FS_Injection, Zenon
<1>8. tl_count = Cardinality(Listed) /\ Cardinality(Listed) \in Nat
  BY <1>1, SlotFinite, Zenon DEF ListOK
<1> QED
  BY <1>5, <1>6, <1>7, <1>8 DEF Separate

\* A guest joins a timeline that exists.
LEMMA CountedMirror ==
    ASSUME Served, Mirror, TIMELINE_CREATE, Exists
    PROVE  Mirror'
<1>1. /\ main.pc = "TIMELINE_CREATE" /\ main.pc \in Plain /\ main.pc \notin Pause /\ main.pc \in Creating
      /\ UNCHANGED <<kernel, guest, thread, running>>
  BY Zenon DEF TIMELINE_CREATE, At, others, Pause, Plain, Creating
<1>2. PICK g : g = main.of
  BY Zenon
<1>3. PICK a : a = virtmsg.name
  BY Zenon
<1>4. g \in Guest /\ virtmsg \in Request /\ guest[g].pc = "binding" /\ ~ msg[g].done /\ msg[g].ok
  BY <1>1, <1>2, Current_Message, Zenon DEF Served, Serving, Mirror, Held, virtmsg
<1>5. a \in Ours /\ a \in Name
  BY <1>3, <1>4, Zenon DEF Ours, Exists, Request
<1> DEFINE i == kernel[a].index
           k == get_timeline_list_id(i)
           m == [[virtmsg EXCEPT !.index = i] EXCEPT !.done = TRUE]
<1>6. Fill(m) /\ vtimeline' = CountBind(i, vtimeline, 1) /\ main'.pc \in {"select", "SIGPIPE"}
  BY <1>3 DEF TIMELINE_CREATE, Reply, increment_bind_count, Rest
<1>7. m.done /\ m.ok /\ m.name = a /\ m.index = i
  BY <1>2, <1>3, <1>4, Zenon DEF Request, virtmsg
<1> HIDE DEF m
<1>8. /\ k \in Slot /\ k \in Listed
      /\ \A j \in Slot : (vtimeline[j].index = i <=> j = k) /\ (IsFirst(j, i, vtimeline) <=> j = k)
  BY <1>5, OurEntry, Zenon
<1> HIDE DEF k, i
<1>9. /\ \A n \in Name : Holders(n)' = IF n = a THEN Holders(n) \cup {g} ELSE Holders(n)
      /\ \A n \in Name : g \notin Holders(n)
      /\ \A n \in Name : Holds(g, n)' <=> n = a
  BY <1>1, <1>2, <1>4, <1>6, <1>7, HoldersCreate
<1>10. /\ \A h \in Guest : h # g => msg'[h] = msg[h] /\ guest'[h] = guest[h]
       /\ msg'[g] = m
       /\ \A h \in Guest : \A n : h # g => (Holds(h, n)' <=> Holds(h, n))
  BY <1>1, <1>2, <1>6, FillOthers, Zenon
<1>11. vtimeline \in [Slot -> Entry]
  BY TypeParts, Zenon DEF Served, ListOK
<1>12. \A j \in Slot : /\ vtimeline'[j].index = vtimeline[j].index
                       /\ vtimeline'[j].running = vtimeline[j].running
                       /\ j # k => vtimeline'[j] = vtimeline[j]
                       /\ j = k => vtimeline'[j].bind_count = vtimeline[j].bind_count + 1
  BY <1>6, <1>8, <1>11, CountBindOK
<1>13. /\ \A j : ~ Starting(j) /\ ~ Ending(j)
       /\ \A j : ~ Starting(j)' /\ ~ Ending(j)'
       /\ main.pc \notin {"join", "destroy", "leave", "spawn"}
       /\ main'.pc \notin {"create", "join", "spawn", "destroy", "leave"}
       /\ main'.pc \notin Leaving
  BY <1>1, <1>6, Zenon DEF Starting, Ending, Leaving
<1>14. Ours' = Ours /\ Listed' = Listed
  BY <1>1, <1>12, Zenon DEF Ours, Listed
<1>15. Indices' /\ Bindings' /\ Present' /\ Complete'
  <2>1. Indices'
    BY <1>1, Zenon DEF Mirror, Indices
  <2>2. Bindings'
    BY <1>1, <1>13, <1>14, Zenon DEF Mirror, Bindings
  <2>3. Present'
    BY <1>13, Zenon DEF Present
  <2>4. Complete'
    BY <1>1, <1>12, <1>14, CompleteStays, Zenon DEF Mirror
  <2> QED
    BY <2>1, <2>2, <2>3, <2>4, Zenon
<1>16. Counts'
  <2>1. \A j \in Slot, n \in Ours : vtimeline[j].index = kernel[n].index =>
           vtimeline[j].bind_count = Cardinality(Holders(n)) /\ Holders(n) # {}
    BY <1>13, Zenon DEF Mirror, Counts
  <2>2. ASSUME NEW j \in Slot, NEW n \in Ours, vtimeline'[j].index = kernel'[n].index
        PROVE  vtimeline'[j].bind_count = Cardinality(Holders(n)') /\ Holders(n)' # {}
    <3>1. vtimeline[j].index = kernel[n].index /\ n \in Name
      BY <1>1, <1>12, <2>2, Zenon DEF Ours
    <3>2. n = a <=> j = k
      BY <1>5, <1>8, <3>1, Zenon DEF Mirror, Indices, Ours, i
    <3>3. CASE n = a
      <4>1. Cardinality(Holders(n) \cup {g}) = Cardinality(Holders(n)) + 1
        BY <1>9, <3>1, HoldersFinite, FS_AddElement, Zenon
      <4> QED
        BY <1>9, <1>12, <2>1, <3>1, <3>2, <3>3, <4>1, Zenon
    <3>4. CASE n # a
      BY <1>9, <1>12, <2>1, <3>1, <3>2, <3>4, Zenon
    <3> QED
      BY <3>3, <3>4, Zenon
  <2> QED
    BY <1>13, <1>14, <2>2, Zenon DEF Counts
<1>17. Held'
  <2>1. \A h \in Guest, n \in Name : Holds(h, n)' => n \in DOMAIN kernel' /\ IndexOf(h)' = kernel'[n].index
    <3>1. IndexOf(g)' = i
      BY <1>1, <1>4, <1>7, <1>10, Zenon DEF IndexOf
    <3>2. \A n \in Name : Holds(g, n)' => n \in DOMAIN kernel' /\ IndexOf(g)' = kernel'[n].index
      BY <1>1, <1>5, <1>9, <3>1, Zenon DEF Ours, i
    <3>3. \A h \in Guest : h # g => IndexOf(h)' = IndexOf(h)
      BY <1>10, Zenon DEF IndexOf
    <3> QED
      BY <1>1, <1>10, <3>2, <3>3, Zenon DEF Mirror, Held
  <2> QED
    BY <1>1, <1>7, <1>10, <2>1, Zenon DEF Mirror, Held
<1>18. Threads'
  BY <1>1, <1>12, <1>13, <1>14, Zenon DEF Mirror, Threads
<1> QED
  BY <1>15, <1>16, <1>17, <1>18, Zenon DEF Mirror

LEMMA CreateMirror ==
    ASSUME Served, Mirror, Separate, TIMELINE_CREATE
    PROVE  Mirror'
<1>1. /\ main.pc = "TIMELINE_CREATE" /\ main.pc \in Plain /\ main.pc \notin Pause
      /\ UNCHANGED <<kernel, guest, thread, running>>
  BY Zenon DEF TIMELINE_CREATE, At, others, Pause, Plain
<1>2. CASE ~ Exists
  <2>1. virtmsg.name \in Name /\ virtmsg.name \notin DOMAIN kernel
    BY <1>1, <1>2, Current_Message, Zenon DEF Exists, Request
  <2>2. tl_count < MAX_TIMELINES
    BY <2>1, Room, Zenon
  <2>3. Goto("create") /\ UNCHANGED <<msg, vtimeline>>
    BY <1>2, <2>2, Zenon DEF TIMELINE_CREATE
  <2>4. main'.pc = "create" /\ main'.of = main.of
    BY <1>1, <2>3, GotoServed, Zenon DEF Label
  <2>5. main'.pc \in Plain /\ main.pc # "ended"
    BY <1>1, <2>4, Zenon DEF Plain
  <2>6. Threads'
    BY <1>1, <2>3, <2>5, PlainThreads, Zenon
  <2>7. \A h \in Guest, n \in Name : Holds(h, n)' <=> Holds(h, n)
    BY <1>1, <2>3, SameHolds, Zenon
  <2>8. Held'
    BY <1>1, <2>3, <2>7, HeldStays, Zenon DEF Mirror, Held
  <2>9. msg'[main'.of].name \notin DOMAIN kernel
    BY <2>1, <2>3, <2>4, Zenon DEF virtmsg
  <2> QED
    BY <1>1, <2>3, <2>5, <2>6, <2>7, <2>8, <2>9, HoldersStay, PlainMirror
<1> QED
  BY <1>2, CountedMirror, Zenon

\* The timeline is created, and entered in the list.
LEMMA CreateTimelineMirror ==
    ASSUME Served, Mirror, Served', CREATE_TIMELINE
    PROVE  Mirror'
<1>1. /\ main.pc = "create" /\ main.pc \notin Pause /\ main.pc \in Creating
      /\ UNCHANGED <<guest, thread, running>>
      /\ main' = [main EXCEPT !.pc = "join", !.tl_id = get_timeline_list_id(-1)]
  BY Zenon DEF CREATE_TIMELINE, At, Pause, Creating
<1>2. PICK g : g = main.of
  BY Zenon
<1>3. PICK a : a = virtmsg.name
  BY Zenon
<1>4. KernelOK /\ ListOK /\ Indices /\ Bindings /\ Complete /\ Counts /\ Held /\ Threads
  BY TypeParts, Zenon DEF Served, Mirror
<1>5. g \in Guest /\ virtmsg \in Request /\ guest[g].pc = "binding" /\ ~ msg[g].done /\ msg[g].ok
  BY <1>1, <1>2, <1>4, Current_Message, Zenon DEF Served, Serving, Held, virtmsg
<1>6. a \in Name /\ a \notin DOMAIN kernel /\ tl_count < MAX_TIMELINES
  BY <1>1, <1>3, <1>5, Zenon DEF Mirror, Present, Request, Served, Serving
<1> DEFINE i == idr_alloc
           f == get_timeline_list_id(-1)
           m == [virtmsg EXCEPT !.index = i]
<1>7. i \in Nat /\ \A n \in DOMAIN kernel : kernel[n].index # i
  BY <1>4, FreshIndex, Zenon
<1>8. kernel' = Created(a, {}) /\ stamp' = stamp + 1 /\ Fill(m)
  BY <1>3, <1>6, Zenon DEF CREATE_TIMELINE, Exists
<1>9. ~ m.done /\ m.ok /\ m.name = a /\ m.index = i
  BY <1>2, <1>3, <1>5, Zenon DEF Request, virtmsg
<1> HIDE DEF m
<1>10. /\ DOMAIN kernel' = DOMAIN kernel \cup {a}
       /\ \A n \in DOMAIN kernel : n # a => kernel'[n] = kernel[n]
       /\ kernel'[a].index = i /\ kernel'[a].bound = {}
  <2>1. a \in Name \cup HostName /\ {} \in SUBSET {Daemon, App}
    BY <1>6, Zenon
  <2> QED
    BY <1>4, <1>8, <2>1, CreatedOK, Zenon
<1>11. /\ \A h \in Guest : h # g => msg'[h] = msg[h] /\ guest'[h] = guest[h]
       /\ msg'[g] = m /\ msg'[main.of] = m
  BY <1>1, <1>2, <1>8, FillOthers, Zenon
<1> HIDE DEF i
<1>12. \A k \in Slot : vtimeline[k].index # i
  BY <1>4, <1>7 DEF Complete, Listed, Ours
<1>13. main' \in [pc : Label, of : Guest \cup {Nil}, tl_id : Slot \cup {-1}]
       /\ vtimeline' = increment_bind_count(i, add_timeline_to_list(i, vtimeline))
       /\ tl_count' = tl_count + 1
  <2>1. main' \in [pc : Label, of : Guest \cup {Nil}, tl_id : Slot \cup {-1}]
    BY Zenon DEF Served, TypeOK
  <2> QED
    BY <1>9, <1>11, <2>1, Zenon DEF CREATE_TIMELINE
<1>14. /\ f \in Slot /\ vtimeline[f].index = -1 /\ Listed' = Listed \cup {f}
       /\ vtimeline'[f].index = i /\ vtimeline'[f].running /\ vtimeline'[f].bind_count = 1
       /\ \A k \in Slot : k # f => vtimeline'[k] = vtimeline[k]
  BY <1>4, <1>6, <1>7, <1>12, <1>13, AddedList, Zenon
<1> HIDE DEF f
<1>15. main'.pc = "join" /\ main'.of = g /\ main'.tl_id = f
  BY <1>1, <1>2, <1>4, Zenon DEF ListOK, f
<1>16. virtmsg' = m
  BY <1>11, <1>15, Zenon DEF virtmsg
<1>17. /\ \A k : ~ Starting(k) /\ ~ Ending(k)
       /\ \A k : (Starting(k)' <=> k = f) /\ ~ Ending(k)'
  BY <1>1, <1>15, Zenon DEF Starting, Ending, Leaving
<1>18. Ours' = Ours \cup {a}
  BY <1>6, <1>10, Zenon DEF Ours
<1>19. /\ \A h \in Guest, n \in Name : Holds(h, n)' <=> Holds(h, n)
       /\ \A n \in Name : Holders(n)' = Holders(n)
  BY <1>1, <1>2, <1>8, <1>9, HoldersFill, Zenon
<1>20. Indices'
  BY <1>4, <1>6, <1>7, <1>10, Zenon DEF Indices
<1>21. Bindings'
  <2>1. \A n \in Ours' : kernel'[n].bound = IF n = a THEN {} ELSE {Daemon}
    BY <1>1, <1>4, <1>6, <1>10, <1>18, Zenon DEF Bindings, Ours
  <2>2. \A n \in HostName \cap DOMAIN kernel' : kernel'[n].bound \subseteq {App}
    BY <1>4, <1>10, Zenon DEF Bindings
  <2> QED
    BY <1>9, <1>15, <1>16, <2>1, <2>2, Zenon DEF Bindings
<1>22. Present'
  BY <1>9, <1>10, <1>14, <1>15, <1>16, Zenon DEF Present
<1>23. Complete'
  <2>1. \A n \in Ours : n # a /\ kernel'[n] = kernel[n]
    BY <1>6, <1>10, Zenon DEF Ours
  <2>2. \A k \in Listed' : \E n \in Ours' : vtimeline'[k].index = kernel'[n].index
    BY <1>4, <1>10, <1>14, <1>18, <2>1, SlotFinite DEF Complete
  <2>3. \A n \in Ours' : \E k \in Slot : vtimeline'[k].index = kernel'[n].index
    <3>1. ASSUME NEW n \in Ours PROVE \E k \in Slot : vtimeline'[k].index = kernel'[n].index
      <4>1. PICK k \in Slot : vtimeline[k].index = kernel[n].index
        BY <1>4, Zenon DEF Complete
      <4>2. kernel[n].index # -1
        BY <1>4 DEF KernelOK, Timeline, Ours
      <4> QED
        BY <1>14, <2>1, <4>1, <4>2, Zenon
    <3> QED
      BY <1>10, <1>14, <1>18, <3>1, Zenon
  <2>4. \A j, k \in Listed' : vtimeline'[j].index = vtimeline'[k].index => j = k
    <3> SUFFICES ASSUME NEW j \in Listed', NEW k \in Listed',
                        vtimeline'[j].index = vtimeline'[k].index
                 PROVE  j = k
      BY Zenon
    <3>1. ASSUME NEW x \in Listed', x # f
          PROVE  x \in Listed /\ vtimeline'[x].index = vtimeline[x].index /\ vtimeline[x].index # i
      BY <1>12, <1>14, <3>1, Zenon DEF Listed
    <3>2. CASE j # f /\ k # f
      BY <1>4, <3>1, <3>2, Zenon DEF Complete
    <3>3. CASE j = f \/ k = f
      BY <1>14, <3>1, <3>3, Zenon
    <3> QED
      BY <3>2, <3>3, Zenon
  <2> QED
    BY <2>2, <2>3, <2>4, Zenon DEF Complete
<1>24. Counts'
  <2>1. ASSUME NEW k \in Slot, NEW n \in Ours', vtimeline'[k].index = kernel'[n].index
        PROVE  /\ k = f => vtimeline'[k].bind_count = 1 /\ Holders(n)' = {}
               /\ k # f => vtimeline'[k].bind_count = Cardinality(Holders(n)') /\ Holders(n)' # {}
    <3>1. n \in Name /\ (n # a => n \in Ours /\ kernel'[n] = kernel[n] /\ kernel'[n].index # i)
      BY <1>7, <1>10, <1>18, <2>1, Zenon DEF Ours
    <3>2. CASE k = f
      <4>1. n = a
        BY <1>14, <2>1, <3>1, <3>2, Zenon
      <4>2. Holders(a) = {}
        BY <1>4, <1>6, Zenon DEF Held, Holders
      <4> QED
        BY <1>14, <1>19, <3>1, <3>2, <4>1, <4>2, Zenon
    <3>3. CASE k # f
      <4>1. vtimeline'[k] = vtimeline[k] /\ n # a
        BY <1>10, <1>12, <1>14, <2>1, <3>3, Zenon
      <4> QED
        BY <1>4, <1>17, <1>19, <2>1, <3>1, <3>3, <4>1 DEF Counts
    <3> QED
      BY <3>2, <3>3, Zenon
  <2> QED
    BY <1>17, <2>1, Zenon DEF Counts
<1>25. Held'
  <2>1. \A n \in DOMAIN kernel : n \in DOMAIN kernel' /\ kernel'[n].index = kernel[n].index
    BY <1>6, <1>10, Zenon
  <2>2. \A h \in Guest : guest[h].pc = "binding" => msg'[h].ok
    BY <1>4, <1>9, <1>11, Zenon DEF Held
  <2>3. \A h \in Guest : guest[h].pc = "binding" /\ msg[h].done => msg'[h] = msg[h]
    BY <1>5, <1>11, Zenon
  <2> QED
    BY <1>1, <1>19, <2>1, <2>2, <2>3, HeldStays, Zenon
<1>26. Threads'
  <2>1. main.pc # "ended" /\ main.pc \notin {"leave", "destroy"} /\ main'.pc \notin {"leave", "destroy"}
    BY <1>1, <1>15, Zenon
  <2>2. f \notin Listed
    BY <1>14, Zenon DEF Listed
  <2> QED
    BY <1>1, <1>4, <1>14, <1>17, <2>1, <2>2, Zenon DEF Threads
<1> QED
  BY <1>20, <1>21, <1>22, <1>23, <1>24, <1>25, <1>26, Zenon DEF Mirror

\* The daemon binds to the timeline that it has created.
LEMMA JoinMirror ==
    ASSUME Served, Mirror, Separate, BIND_JOIN
    PROVE  Mirror'
<1>1. /\ main.pc = "join" /\ main.pc \notin Pause
      /\ UNCHANGED <<vtimeline, guest, thread, running>> /\ Goto("spawn")
  BY Zenon DEF BIND_JOIN, At, Pause, others
<1>2. PICK a : a = virtmsg.name
  BY Zenon
<1>3. Indices /\ Bindings /\ Present /\ Complete /\ Counts /\ Held /\ Threads
  BY Zenon DEF Mirror
<1>4. a \in Ours /\ virtmsg.index = kernel[a].index
  BY <1>1, <1>2, <1>3, Current_Message, Zenon DEF Present, Ours, Request
<1>5. Joined = {a}
  <2>1. kernel[a].bound = {}
    BY <1>1, <1>2, <1>3, <1>4, Zenon DEF Bindings
  <2>2. Device(virtmsg.index) = {a}
    BY <1>3, <1>4, Zenon DEF Device, Indices, Ours
  <2> QED
    BY <2>1, <2>2, Zenon DEF Joined
<1>6. UNCHANGED msg
  BY <1>5, Zenon DEF BIND_JOIN, Joined
<1>7. /\ DOMAIN kernel' = DOMAIN kernel
      /\ \A n \in DOMAIN kernel :
            /\ kernel'[n].index = kernel[n].index
            /\ kernel'[n].bound = IF n = a THEN kernel[n].bound \cup {Daemon} ELSE kernel[n].bound
  BY <1>5, JoinKernel, Zenon
<1>8. main'.pc = "spawn" /\ main'.of = main.of /\ main'.tl_id = main.tl_id
  BY <1>1, GotoServed, Zenon DEF Label
<1>9. virtmsg' = virtmsg
  BY <1>6, <1>8, Zenon DEF virtmsg
<1>10. \A k : (Starting(k)' <=> Starting(k)) /\ ~ Ending(k) /\ ~ Ending(k)'
  BY <1>1, <1>8, Zenon DEF Starting, Ending, Leaving
<1>11. Ours' = Ours /\ Listed' = Listed
  BY <1>1, <1>7, Zenon DEF Ours, Listed
<1>12. \A h \in Guest, n \in Name : Holds(h, n)' <=> Holds(h, n)
  BY <1>1, <1>6, SameHolds, Zenon
<1>13. \A n \in Name : Holders(n)' = Holders(n)
  BY <1>12, HoldersStay, Zenon
<1>14. Indices'
  BY <1>3, <1>7, Zenon DEF Indices
<1>15. Bindings'
  <2>1. \A n \in Ours : kernel[n].bound = IF n = a THEN {} ELSE {Daemon}
    BY <1>1, <1>2, <1>3, Zenon DEF Bindings
  <2>2. \A n \in Ours : kernel'[n].bound = {Daemon}
    BY <1>7, <2>1, Zenon DEF Ours
  <2>3. a \notin HostName
    BY <1>4, Zenon DEF Ours, Separate
  <2> QED
    BY <1>3, <1>7, <1>8, <1>11, <2>2, <2>3, Zenon DEF Bindings
<1>16. Present'
  BY <1>1, <1>2, <1>3, <1>4, <1>7, <1>8, <1>9, Zenon DEF Present, Ours
<1>17. \A n \in Ours : kernel'[n].index = kernel[n].index /\ Holders(n)' = Holders(n)
  BY <1>7, <1>13, Zenon DEF Ours
<1>18. Complete' /\ Counts'
  <2>1. Complete'
    BY <1>1, <1>3, <1>11, <1>17, CompleteStays, Zenon
  <2>2. Counts'
    BY <1>1, <1>3, <1>10, <1>11, <1>17 DEF Counts
  <2> QED
    BY <2>1, <2>2, Zenon
<1>19. Held'
  BY <1>1, <1>3, <1>6, <1>7, <1>12, HeldStays, Zenon DEF Held
<1>20. Threads'
  BY <1>1, <1>3, <1>8, <1>10, <1>11, Zenon DEF Threads
<1> QED
  BY <1>14, <1>15, <1>16, <1>17, <1>18, <1>19, <1>20, Zenon DEF Mirror

\* The thread is started, and the guest is told.
LEMMA SpawnMirror ==
    ASSUME Served, Mirror, pthread_create
    PROVE  Mirror'
<1>1. /\ main.pc = "spawn" /\ main.pc \notin Pause /\ main.pc \in Creating
      /\ UNCHANGED <<kernel, vtimeline, guest, running>> /\ Reply(virtmsg)
      /\ thread' = [thread EXCEPT ![main.tl_id] = [None EXCEPT !.pc = "open"]]
  BY Zenon DEF pthread_create, At, Pause, Creating
<1>2. PICK g : g = main.of
  BY Zenon
<1>3. PICK a : a = virtmsg.name
  BY Zenon
<1>4. PICK k : k = main.tl_id
  BY Zenon
<1>5. Indices /\ Bindings /\ Present /\ Complete /\ Counts /\ Held /\ Threads
  BY Zenon DEF Mirror
<1>6. /\ g \in Guest /\ virtmsg \in Request /\ guest[g].pc = "binding" /\ ~ msg[g].done /\ msg[g].ok
      /\ k \in Slot
  BY <1>1, <1>2, <1>4, <1>5, Current_Message, Zenon DEF Served, Serving, Held, virtmsg
<1>7. a \in Ours /\ a \in Name /\ virtmsg.index = kernel[a].index /\ vtimeline[k].index = kernel[a].index
  BY <1>1, <1>3, <1>4, <1>5, <1>6, Zenon DEF Present, Ours, Request
<1> DEFINE m == [virtmsg EXCEPT !.done = TRUE]
<1>8. Fill(m) /\ main'.pc \in {"select", "SIGPIPE"}
  BY <1>1, Zenon DEF Reply, Rest
<1>9. m.done /\ m.ok /\ m.name = a /\ m.index = kernel[a].index
  BY <1>2, <1>3, <1>6, <1>7, Zenon DEF Request, virtmsg
<1> HIDE DEF m
<1>10. /\ \A n \in Name : Holders(n)' = IF n = a THEN Holders(n) \cup {g} ELSE Holders(n)
       /\ \A n \in Name : Holds(g, n)' <=> n = a
  BY <1>1, <1>2, <1>6, <1>8, <1>9, HoldersCreate
<1>11. /\ \A h \in Guest : h # g => msg'[h] = msg[h] /\ guest'[h] = guest[h]
       /\ msg'[g] = m
       /\ \A h \in Guest : \A n : h # g => (Holds(h, n)' <=> Holds(h, n))
  BY <1>1, <1>2, <1>8, FillOthers, Zenon
<1>12. /\ \A j : (Starting(j) <=> j = k) /\ ~ Ending(j)
       /\ \A j : ~ Starting(j)' /\ ~ Ending(j)'
       /\ main'.pc \notin {"create", "join", "spawn", "destroy", "leave"} /\ main'.pc \notin Leaving
  BY <1>1, <1>4, <1>8, Zenon DEF Starting, Ending, Leaving
<1>13. Ours' = Ours /\ Listed' = Listed
  BY <1>1, Zenon DEF Ours, Listed
<1>14. Indices' /\ Bindings' /\ Present' /\ Complete'
  <2>1. Indices'
    BY <1>1, <1>5, Zenon DEF Indices
  <2>2. Bindings'
    BY <1>1, <1>5, <1>12, <1>13, Zenon DEF Bindings
  <2>3. Present'
    BY <1>12, Zenon DEF Present
  <2>4. Complete'
    BY <1>1, <1>5, <1>13, CompleteStays, Zenon
  <2> QED
    BY <2>1, <2>2, <2>3, <2>4, Zenon
<1>15. Counts'
  <2>1. ASSUME NEW j \in Slot, NEW n \in Ours, vtimeline[j].index = kernel[n].index
        PROVE  vtimeline[j].bind_count = Cardinality(Holders(n)') /\ Holders(n)' # {}
    <3>1. n = a <=> j = k
      <4>1. j = k => n = a
        BY <1>5, <1>7, <2>1, Zenon DEF Indices, Ours
      <4>2. n = a => j = k
        BY <1>6, <1>7, <2>1, OurEntry
      <4> QED
        BY <4>1, <4>2, Zenon
    <3>2. n \in Name
      BY Zenon DEF Ours
    <3>3. CASE n = a
      <4>1. Holders(n)' = {g} /\ vtimeline[j].bind_count = 1
        BY <1>5, <1>10, <1>12, <2>1, <3>1, <3>2, <3>3, Zenon DEF Counts
      <4> QED
        BY <4>1, FS_Singleton, Zenon
    <3>4. CASE n # a
      <4>1. Holders(n)' = Holders(n) /\ ~ Starting(j) /\ ~ Ending(j)
        BY <1>10, <1>12, <3>1, <3>2, <3>4, Zenon
      <4> QED
        BY <1>5, <2>1, <4>1, CountsAt, Zenon
    <3> QED
      BY <3>3, <3>4, Zenon
  <2> QED
    BY <1>1, <1>12, <1>13, <2>1, Zenon DEF Counts
<1>16. Held'
  <2>1. \A h \in Guest, n \in Name : Holds(h, n)' => n \in DOMAIN kernel' /\ IndexOf(h)' = kernel'[n].index
    <3>1. IndexOf(g)' = kernel[a].index
      BY <1>1, <1>6, <1>9, <1>11, Zenon DEF IndexOf
    <3>2. \A n \in Name : Holds(g, n)' => n \in DOMAIN kernel' /\ IndexOf(g)' = kernel'[n].index
      BY <1>1, <1>7, <1>10, <3>1, Zenon DEF Ours
    <3>3. \A h \in Guest : h # g => IndexOf(h)' = IndexOf(h)
      BY <1>11, Zenon DEF IndexOf
    <3> QED
      BY <1>1, <1>5, <1>11, <3>2, <3>3, Zenon DEF Held
  <2> QED
    BY <1>1, <1>5, <1>9, <1>11, <2>1, Zenon DEF Held
<1>17. Threads'
  <2>1. thread'[k].pc = "open" /\ \A j \in Slot : j # k => thread'[j] = thread[j]
    BY <1>1, <1>4, <1>6, TypeParts, Zenon DEF Served, CopyOK, None
  <2>2. k \in Listed
    BY <1>6, <1>7, TypeParts DEF Listed, Served, KernelOK, Timeline, Ours
  <2> QED
    BY <1>1, <1>5, <1>12, <1>13, <2>1, <2>2, Zenon DEF Threads
<1> QED
  BY <1>14, <1>15, <1>16, <1>17, Zenon DEF Mirror

-----------------------------------------------------------------------------
\* The main thread: the end of a timeline.

\* A guest leaves.
LEMMA DestroyMirror ==
    ASSUME Served, Mirror, TIMELINE_DESTROY
    PROVE  Mirror'
<1>1. /\ main.pc = "TIMELINE_DESTROY" /\ main.pc \in Destroying
      /\ UNCHANGED <<kernel, guest, thread, running>>
  BY Zenon DEF TIMELINE_DESTROY, At, others, Destroying
<1>2. PICK g : g = main.of
  OBVIOUS
<1>3. PICK a : a = virtmsg.name
  OBVIOUS
<1>4. /\ g \in Guest /\ a \in Name /\ main.pc \notin Pause /\ guest[g].pc = "unbinding"
      /\ \A n \in Name : g \in Holders(n) <=> n = a
      /\ a \in Ours
  BY <1>1, <1>2, <1>3, LastHolder, Zenon
<1>5. Indices /\ Bindings /\ Present /\ Complete /\ Counts /\ Held /\ Threads
  BY Zenon DEF Mirror
<1> DEFINE i == kernel[a].index
           k == get_timeline_list_id(i)
           m == [virtmsg EXCEPT !.index = i]
<1>6. virtmsg \in Request /\ ~ virtmsg.done
  BY <1>4, Current_Message, Zenon
<1>7. /\ k \in Slot /\ k \in Listed /\ k # -1
      /\ \A j \in Slot : (vtimeline[j].index = i <=> j = k) /\ (IsFirst(j, i, vtimeline) <=> j = k)
  BY <1>4, OurEntry, Zenon
<1>8. /\ vtimeline' = CountBind(i, vtimeline, -1) /\ -1 \in Int
      /\ IF vtimeline'[k].bind_count # 0 THEN Reply(m)
         ELSE Fill(m) /\ main' = [main EXCEPT !.pc = "cancel", !.tl_id = k]
  BY <1>3, <1>4, <1>7 DEF TIMELINE_DESTROY, Exists, Ours, decrement_bind_count
<1>9. ~ m.done /\ m.name = a /\ m.index = i /\ [m EXCEPT !.done = TRUE].done
  BY <1>3, <1>6, Zenon DEF Request
<1> HIDE DEF i, k, m
<1>10. vtimeline \in [Slot -> Entry]
  BY TypeParts, Zenon DEF Served, ListOK
<1>11. \A j \in Slot : /\ vtimeline'[j].index = vtimeline[j].index
                       /\ vtimeline'[j].running = vtimeline[j].running
                       /\ j # k => vtimeline'[j] = vtimeline[j]
                       /\ j = k => vtimeline'[j].bind_count = vtimeline[j].bind_count + (-1)
  BY <1>7, <1>8, <1>10, CountBindOK
<1>12. Ours' = Ours
  BY <1>1, Zenon DEF Ours
<1>13. Indices' /\ Complete' /\ Listed' = Listed
  BY <1>1, <1>5, <1>11, <1>12, CompleteStays, Zenon DEF Indices
<1>14. /\ \A j : ~ Starting(j) /\ ~ Ending(j)
       /\ main.pc \notin {"join", "destroy", "leave", "spawn"}
  BY <1>1, Zenon DEF Starting, Ending, Leaving
<1>15. \A j \in Slot, n \in Ours : vtimeline[j].index = kernel[n].index =>
          /\ vtimeline[j].bind_count = Cardinality(Holders(n)) /\ Holders(n) # {}
          /\ n = a <=> j = k
  <2>1. \A j \in Slot, n \in Ours : vtimeline[j].index = kernel[n].index => (n = a <=> j = k)
    BY <1>4, <1>5, <1>7, Zenon DEF Indices, Ours, i
  <2> QED
    BY <1>5, <1>14, <2>1, Zenon DEF Counts
<1>16. /\ vtimeline'[k].bind_count = Cardinality(Holders(a)) - 1
       /\ IsFiniteSet(Holders(a)) /\ Cardinality(Holders(a)) \in Nat
  <2>1. vtimeline[k].index = kernel[a].index
    BY <1>7, Zenon DEF i
  <2> QED
    BY <1>4, <1>7, <1>11, <1>15, <2>1, HoldersFinite, Zenon
<1>17. CASE vtimeline'[k].bind_count # 0
  <2> DEFINE r == [m EXCEPT !.done = TRUE]
  <2>1. Fill(r) /\ main'.pc \in {"select", "SIGPIPE"}
    BY <1>8, <1>17 DEF Reply, Rest
  <2>2. r.done
    BY <1>9, Zenon
  <2> HIDE DEF r
  <2>3. /\ \A n \in Name : Holders(n)' = Holders(n) \ {g}
        /\ \A n \in Name : ~ Holds(g, n)'
    BY <1>1, <1>2, <1>4, <2>1, <2>2, HoldersDestroy, Zenon
  <2>4. /\ \A h \in Guest : h # g => msg'[h] = msg[h] /\ guest'[h] = guest[h]
        /\ \A h \in Guest : \A n : h # g => (Holds(h, n)' <=> Holds(h, n))
    BY <1>1, <1>2, <1>4, <2>1, FillOthers, Zenon
  <2>5. /\ \A j : ~ Starting(j)' /\ ~ Ending(j)'
        /\ main'.pc \notin {"create", "join", "spawn", "destroy", "leave"} /\ main'.pc \notin Leaving
    BY <2>1, Zenon DEF Starting, Ending, Leaving
  <2>6. Bindings' /\ Present'
    BY <1>1, <1>5, <1>12, <1>14, <2>5, Zenon DEF Bindings, Present
  <2>7. Counts'
    <3>1. ASSUME NEW j \in Slot, NEW n \in Ours, vtimeline[j].index = kernel[n].index
          PROVE  vtimeline'[j].bind_count = Cardinality(Holders(n)') /\ Holders(n)' # {}
      <4>1. n \in Name
        BY DEF Ours
      <4>2. CASE n = a
        <5>1. Holders(n)' = Holders(a) \ {g} /\ g \in Holders(a) /\ j = k
          BY <1>4, <1>15, <2>3, <3>1, <4>1, <4>2
        <5>2. Cardinality(Holders(a) \ {g}) = Cardinality(Holders(a)) - 1
          BY <1>16, <5>1, FS_RemoveElement, Zenon
        <5>3. Cardinality(Holders(a) \ {g}) # 0
          BY <1>16, <1>17, <5>2, Zenon
        <5>4. Holders(a) \ {g} # {}
          BY <5>3, FS_EmptySet, Zenon
        <5> QED
          BY <1>16, <5>1, <5>2, <5>4, Zenon
      <4>3. CASE n # a
        <5>1. g \notin Holders(n) /\ j # k
          BY <1>4, <1>15, <3>1, <4>1, <4>3, Zenon
        <5>2. Holders(n)' = Holders(n)
          BY <2>3, <4>1, <5>1, Zenon
        <5> QED
          BY <1>11, <1>15, <3>1, <5>1, <5>2, Zenon
      <4> QED
        BY <4>2, <4>3, Zenon
    <3> QED
      BY <1>1, <1>11, <1>12, <2>5, <3>1, Zenon DEF Counts
  <2>8. Held'
    <3>1. \A h \in Guest : h # g => IndexOf(h)' = IndexOf(h)
      BY <2>4, Zenon DEF IndexOf
    <3>2. \A h \in Guest, n \in Name : Holds(h, n)' => n \in DOMAIN kernel' /\ IndexOf(h)' = kernel'[n].index
      BY <1>1, <1>5, <2>3, <2>4, <3>1, Zenon DEF Held
    <3> QED
      BY <1>1, <1>4, <1>5, <2>4, <3>2, Zenon DEF Held
  <2>9. Threads'
    BY <1>1, <1>5, <1>11, <1>13, <1>14, <2>5, Zenon DEF Threads
  <2> QED
    BY <1>13, <2>6, <2>7, <2>8, <2>9, Zenon DEF Mirror
<1>18. CASE vtimeline'[k].bind_count = 0
  <2>1. Fill(m) /\ main' = [main EXCEPT !.pc = "cancel", !.tl_id = k]
    BY <1>8, <1>18, Zenon
  <2>2. main'.pc = "cancel" /\ main'.of = g /\ main'.tl_id = k
    BY <1>2, <2>1, TypeParts, Zenon DEF Served, ListOK
  <2>3. /\ \A h \in Guest, n \in Name : Holds(h, n)' <=> Holds(h, n)
        /\ \A n \in Name : Holders(n)' = Holders(n)
    BY <1>1, <1>2, <1>4, <1>9, <2>1, HoldersFill
  <2>4. /\ \A h \in Guest : h # g => msg'[h] = msg[h] /\ guest'[h] = guest[h]
        /\ msg'[g] = m
    BY <1>1, <1>2, <1>4, <2>1, FillOthers, Zenon
  <2>5. virtmsg' = m
    BY <2>2, <2>4, Zenon DEF virtmsg
  <2>6. \A j : ~ Starting(j)' /\ (Ending(j)' <=> j = k)
    BY <2>2, Zenon DEF Starting, Ending, Leaving
  <2>7. Bindings'
    BY <1>1, <1>5, <1>12, <1>14, <2>2, Zenon DEF Bindings
  <2>8. Present'
    BY <1>1, <1>4, <1>7, <1>9, <1>11, <2>2, <2>5 DEF Present, Ours, i
  <2>9. Holders(a) = {g}
    <3>1. Cardinality(Holders(a)) = 1
      BY <1>16, <1>18
    <3>2. PICK x : Holders(a) = {x}
      BY <1>16, <3>1, FS_Singleton, Zenon
    <3> QED
      BY <1>4, <3>2, Zenon
  <2>10. Counts'
    <3>1. ASSUME NEW j \in Slot, NEW n \in Ours, vtimeline[j].index = kernel[n].index
          PROVE  /\ j = k => vtimeline'[j].bind_count = 0 /\ Holders(n)' = {g}
                 /\ j # k => vtimeline'[j].bind_count = Cardinality(Holders(n)') /\ Holders(n)' # {}
      <4>1. n \in Name
        BY DEF Ours
      <4> QED
        BY <1>11, <1>15, <1>18, <2>3, <2>9, <3>1, <4>1
    <3> QED
      BY <1>1, <1>11, <1>12, <2>2, <2>6, <3>1 DEF Counts
  <2>11. Held'
    <3>1. \A h \in Guest : guest[h].pc = "binding" => msg'[h] = msg[h]
      BY <1>4, <2>4, Zenon
    <3> QED
      BY <1>1, <1>5, <2>3, <3>1, HeldStays, Zenon DEF Held
  <2>12. Threads'
    BY <1>1, <1>5, <1>11, <1>13, <1>14, <2>2, <2>6 DEF Threads
  <2> QED
    BY <1>13, <2>7, <2>8, <2>10, <2>11, <2>12, Zenon DEF Mirror
<1> QED
  BY <1>17, <1>18, Zenon

\* The main thread goes on with giving up a timeline.
LEMMA GivingMirror ==
    ASSUME Served, Mirror, main.pc \in Leaving, NEW pc \in Leaving, Goto(pc), UNCHANGED <<guest, msg>>,
           DOMAIN kernel' = DOMAIN kernel,
           \A n \in DOMAIN kernel : kernel'[n].index = kernel[n].index,
           \A k \in Slot : /\ vtimeline'[k].index = vtimeline[k].index
                           /\ vtimeline'[k].bind_count = vtimeline[k].bind_count,
           Bindings', Threads'
    PROVE  Mirror'
<1>1. main.pc \notin Pause /\ pc \in Label
  BY Zenon DEF Leaving, Pause, Label
<1>2. main'.pc = pc /\ main'.of = main.of /\ main'.tl_id = main.tl_id /\ main.tl_id \in Slot
  BY <1>1, GotoServed, Zenon DEF Served, Serving, Leaving
<1>3. virtmsg' = virtmsg
  BY <1>2, Zenon DEF virtmsg
<1>4. Indices /\ Present /\ Complete /\ Counts /\ Held
  BY Zenon DEF Mirror
<1>5. Ours' = Ours /\ Indices'
  BY <1>4, Zenon DEF Ours, Indices
<1>6. Complete'
  BY <1>4, <1>5, CompleteStays, Zenon DEF Ours
<1>7. main'.pc # "create" /\ \A k : (Ending(k)' <=> Ending(k)) /\ ~ Starting(k) /\ ~ Starting(k)'
  BY <1>2, Zenon DEF Starting, Ending, Leaving
<1>8. Present'
  BY <1>2, <1>3, <1>4, <1>7, Zenon DEF Present
<1>9. /\ \A h \in Guest, n \in Name : Holds(h, n)' <=> Holds(h, n)
      /\ \A n \in Name : Holders(n)' = Holders(n)
  BY SameHolds, HoldersStay, Zenon
<1>10. Counts'
  <2>1. PICK g : g = main.of
    BY Zenon
  <2>2. main'.of = g
    BY <1>2, <2>1, Zenon
  <2>3. \A k \in Slot, n \in Ours : vtimeline[k].index = kernel[n].index =>
           /\ Ending(k) => vtimeline[k].bind_count = 0 /\ Holders(n)' = {g}
           /\ ~ Ending(k) => vtimeline[k].bind_count = Cardinality(Holders(n)') /\ Holders(n)' # {}
    <3> SUFFICES ASSUME NEW k \in Slot, NEW n \in Ours, vtimeline[k].index = kernel[n].index
                 PROVE  /\ Ending(k) => vtimeline[k].bind_count = 0 /\ Holders(n)' = {g}
                        /\ ~ Ending(k) => /\ vtimeline[k].bind_count = Cardinality(Holders(n)')
                                          /\ Holders(n)' # {}
      BY Zenon
    <3>1. Holders(n)' = Holders(n) /\ ~ Starting(k)
      BY <1>7, <1>9, Zenon DEF Ours
    <3>2. CASE Ending(k)
      <4>1. vtimeline[k].bind_count = 0 /\ Holders(n) = {main.of}
        BY <1>4, <3>2, CountsAt, Zenon
      <4> QED
        BY <2>1, <3>1, <3>2, <4>1, Zenon
    <3>3. CASE ~ Ending(k)
      <4>1. vtimeline[k].bind_count = Cardinality(Holders(n)) /\ Holders(n) # {}
        BY <1>4, <3>1, <3>3, CountsAt, Zenon
      <4> QED
        BY <3>1, <3>3, <4>1, Zenon
    <3> QED
      BY <3>2, <3>3, Zenon
  <2>4. \A n \in Ours : kernel'[n].index = kernel[n].index
    BY Zenon DEF Ours
  <2> QED
    <3>1. ASSUME NEW k \in Slot, NEW n \in Ours', vtimeline'[k].index = kernel'[n].index
          PROVE  /\ ~ Starting(k)'
                 /\ Ending(k)' => vtimeline'[k].bind_count = 0 /\ Holders(n)' = {main'.of}
                 /\ ~ Ending(k)' =>
                       vtimeline'[k].bind_count = Cardinality(Holders(n)') /\ Holders(n)' # {}
      <4>1. n \in Ours /\ vtimeline[k].index = kernel[n].index
        BY <1>5, <2>4, <3>1, Zenon
      <4>2. vtimeline'[k].bind_count = vtimeline[k].bind_count
        BY Zenon
      <4> QED
        BY <1>7, <2>2, <2>3, <4>1, <4>2, Zenon
    <3> QED
      BY <3>1, Zenon DEF Counts
<1>11. Held'
  BY <1>4, <1>9, HeldStays, Zenon DEF Held
<1> QED
  BY <1>5, <1>6, <1>8, <1>10, <1>11, Zenon DEF Mirror

LEMMA CancelMirror ==
    ASSUME Served, Mirror, cancel
    PROVE  Mirror'
<1>1. /\ main.pc = "cancel" /\ main.pc \in Leaving /\ "wait" \in Leaving /\ Goto("wait")
      /\ UNCHANGED <<kernel, msg, guest, thread, running>>
  BY Zenon DEF cancel, At, others, Leaving
<1>2. /\ main.tl_id \in Slot /\ ~ vtimeline'[main.tl_id].running
      /\ \A k \in Slot : /\ vtimeline'[k].index = vtimeline[k].index
                         /\ vtimeline'[k].bind_count = vtimeline[k].bind_count
                         /\ k # main.tl_id => vtimeline'[k] = vtimeline[k]
  BY CancelServed, Zenon
<1>3. main'.pc = "wait" /\ main'.of = main.of /\ main'.tl_id = main.tl_id
  <2>1. main.pc \notin Pause /\ "wait" \in Label
    BY <1>1, Zenon DEF Pause, Label
  <2> QED
    BY <1>1, <2>1, GotoServed, Zenon
<1>4. Bindings /\ Threads
  BY Zenon DEF Mirror
<1>5. Bindings'
  BY <1>1, <1>3, <1>4, Zenon DEF Bindings, Ours
<1>6. Threads'
  <2>1. Listed' = Listed
    BY <1>2, Zenon DEF Listed
  <2>2. /\ \A k : (Ending(k)' <=> Ending(k)) /\ ~ Starting(k) /\ ~ Starting(k)'
        /\ \A k : Ending(k) <=> k = main.tl_id
    BY <1>1, <1>3, Zenon DEF Starting, Ending, Leaving
  <2> QED
    BY <1>1, <1>2, <1>3, <1>4, <2>1, <2>2, Zenon DEF Threads
<1> QED
  BY <1>1, <1>2, <1>5, <1>6, GivingMirror, Zenon

LEMMA WaitMirror ==
    ASSUME Served, Mirror, pthread_join
    PROVE  Mirror'
<1>1. /\ main.pc = "wait" /\ main.pc \in Leaving /\ "leave" \in Leaving /\ Goto("leave")
      /\ UNCHANGED <<kernel, vtimeline, msg, guest, running>>
      /\ thread' = [thread EXCEPT ![main.tl_id] = None]
  BY Zenon DEF pthread_join, At, Leaving
<1>2. /\ main'.pc = "leave" /\ main'.of = main.of /\ main'.tl_id = main.tl_id /\ main.tl_id \in Slot
  <2>1. main.pc \notin Pause /\ "leave" \in Label
    BY <1>1, Zenon DEF Pause, Label
  <2> QED
    BY <1>1, <2>1, GotoServed, Zenon DEF Served, Serving, Leaving
<1>3. Bindings /\ Threads
  BY Zenon DEF Mirror
<1>4. Bindings'
  BY <1>1, <1>2, <1>3, Zenon DEF Bindings, Ours
<1>5. Threads'
  <2>1. /\ \A k : (Ending(k)' <=> Ending(k)) /\ ~ Starting(k) /\ ~ Starting(k)'
        /\ \A k : Ending(k) <=> k = main.tl_id
        /\ Listed' = Listed
    BY <1>1, <1>2, Zenon DEF Starting, Ending, Leaving, Listed
  <2>2. /\ thread'[main.tl_id].pc = "none"
        /\ \A k \in Slot : k # main.tl_id => thread'[k] = thread[k]
    BY <1>1, <1>2, TypeParts, Zenon DEF Served, CopyOK, None
  <2> QED
    BY <1>1, <1>2, <1>3, <2>1, <2>2 DEF Threads
<1> QED
  BY <1>1, <1>4, <1>5, GivingMirror, Zenon

\* The daemon leaves the timeline of the message, and no other.
LEMMA LeaveMirror ==
    ASSUME Served, Mirror, Separate, BIND_LEAVE
    PROVE  Mirror'
<1>1. /\ main.pc = "leave" /\ main.pc \in Leaving /\ main.pc \in Destroying /\ "destroy" \in Leaving
      /\ Goto("destroy") /\ UNCHANGED <<vtimeline, guest, thread, running>>
  BY Zenon DEF BIND_LEAVE, At, others, Leaving, Destroying
<1>2. PICK a : a = virtmsg.name
  OBVIOUS
<1>3. Indices /\ Bindings /\ Present /\ Threads
  BY Zenon DEF Mirror
<1>4. a \in Ours /\ a \in Name
  BY <1>1, <1>2, LastHolder, Zenon
<1>5. virtmsg.index = kernel[a].index
  BY <1>1, <1>2, <1>3, Zenon DEF Present, Leaving
<1>6. kernel[a].bound = {Daemon}
  BY <1>1, <1>3, <1>4, Zenon DEF Bindings
<1>7. Left = {a}
  BY <1>3, <1>4, <1>5, <1>6, Zenon DEF Left, Device, Indices, Ours
<1>8. /\ DOMAIN kernel' = DOMAIN kernel
      /\ \A n \in DOMAIN kernel : /\ kernel'[n].index = kernel[n].index
                                  /\ n # a => kernel'[n] = kernel[n]
      /\ kernel'[a].bound = {}
  BY <1>6, <1>7, LeaveServed, Zenon
<1>9. UNCHANGED msg
  BY <1>7, Zenon DEF BIND_LEAVE, Left
<1>10. /\ main'.pc = "destroy" /\ main'.of = main.of /\ main'.tl_id = main.tl_id /\ main.tl_id \in Slot
  <2>1. main.pc \notin Pause /\ "destroy" \in Label
    BY <1>1, Zenon DEF Pause, Label
  <2> QED
    BY <1>1, <2>1, GotoServed, Zenon DEF Served, Serving, Leaving
<1>11. virtmsg' = virtmsg
  BY <1>9, <1>10, Zenon DEF virtmsg
<1>12. Bindings'
  <2>1. a \notin HostName
    BY <1>4, Zenon DEF Separate
  <2>2. \A n \in Ours : kernel'[n].bound = IF n = a THEN {} ELSE {Daemon}
    BY <1>1, <1>3, <1>8, Zenon DEF Bindings, Ours
  <2>3. \A n \in HostName \cap DOMAIN kernel : kernel'[n].bound \subseteq {App}
    BY <1>3, <1>8, <2>1, Zenon DEF Bindings
  <2>4. Ours' = Ours
    BY <1>8, Zenon DEF Ours
  <2> QED
    BY <1>2, <1>8, <1>10, <1>11, <2>2, <2>3, <2>4, Zenon DEF Bindings
<1>13. Threads'
  <2>1. /\ \A k : (Ending(k)' <=> Ending(k)) /\ ~ Starting(k) /\ ~ Starting(k)'
        /\ Listed' = Listed
    BY <1>1, <1>10, Zenon DEF Starting, Ending, Leaving, Listed
  <2> QED
    BY <1>1, <1>3, <1>10, <2>1, Zenon DEF Threads
<1> QED
  BY <1>1, <1>8, <1>9, <1>12, <1>13, GivingMirror

\* The timeline of the message is removed, since nobody is bound to it any more, and
\* so is its entry, the only one.
LEMMA DestroyTimelineMirror ==
    ASSUME Served, Mirror, DESTROY_TIMELINE
    PROVE  Mirror'
<1>1. /\ main.pc = "destroy" /\ main.pc \in Leaving /\ main.pc \in Destroying /\ main.pc \notin Pause
      /\ UNCHANGED <<stamp, guest, thread, running>>
      /\ kernel' = Removed(virtmsg.name) /\ Reply(virtmsg)
      /\ tl_count' = IF tl_count > 0 THEN tl_count - 1 ELSE 0
      /\ vtimeline' = remove_timeline_from_list(virtmsg.index, vtimeline)
  BY Zenon DEF DESTROY_TIMELINE, At, others, Leaving, Destroying, Pause
<1>2. PICK g : g = main.of
  OBVIOUS
<1>3. PICK a : a = virtmsg.name
  OBVIOUS
<1>4. PICK k : k = main.tl_id
  OBVIOUS
<1>5. Indices /\ Bindings /\ Present /\ Complete /\ Counts /\ Held /\ Threads
  BY Zenon DEF Mirror
<1>6. /\ g \in Guest /\ a \in Name /\ a \in Ours /\ guest[g].pc = "unbinding" /\ virtmsg \in Request
      /\ \A n \in Name : g \in Holders(n) <=> n = a
  BY <1>1, <1>2, <1>3, LastHolder, Current_Message, Zenon
<1>7. /\ virtmsg.index = kernel[a].index /\ k \in Slot /\ vtimeline[k].index = kernel[a].index
      /\ kernel[a].bound = {}
  BY <1>1, <1>3, <1>4, <1>5, <1>6, Zenon DEF Present, Bindings, Served, Serving
<1>8. /\ k = get_timeline_list_id(kernel[a].index) /\ kernel[a].index \in Nat
      /\ \A j \in Slot : vtimeline[j].index = kernel[a].index <=> j = k
  <2>1. /\ kernel[a].index \in Nat
        /\ \A j \in Slot : vtimeline[j].index = kernel[a].index <=>
                              j = get_timeline_list_id(kernel[a].index)
    BY <1>6, OurEntry, Zenon
  <2> QED
    BY <1>7, <2>1, Zenon
<1>9. DOMAIN kernel' = DOMAIN kernel \ {a} /\ \A n \in DOMAIN kernel' : kernel'[n] = kernel[n]
  <2>1. KernelOK /\ kernel' = Removed(a) /\ UNCHANGED stamp
    BY <1>1, <1>3, TypeParts, Zenon DEF Served
  <2> QED
    BY <1>6, <1>7, <2>1, RemovedKernel, Zenon DEF Ours
<1>10. /\ main' \in [pc : Label, of : Guest \cup {Nil}, tl_id : Slot \cup {-1}]
       /\ main'.pc \in {"select", "SIGPIPE"}
  BY <1>1, <1>6, ReplyOK, Zenon
<1>11. /\ Listed' = Listed \ {k} /\ vtimeline'[k] = Free
       /\ \A j \in Slot : j # k => vtimeline'[j] = vtimeline[j]
  <2>1. ListOK /\ vtimeline' = remove_timeline_from_list(kernel[a].index, vtimeline)
    BY <1>1, <1>7, TypeParts, Zenon DEF Served
  <2>2. tl_count' = IF tl_count > 0 THEN tl_count - 1 ELSE 0
    BY <1>1, Zenon
  <2>3. PICK i \in Nat : i = kernel[a].index
    BY <1>8, Zenon
  <2>4. vtimeline[k].index = i /\ vtimeline' = remove_timeline_from_list(i, vtimeline)
    BY <1>7, <2>1, <2>3, Zenon
  <2>5. get_timeline_list_id(i) = k
    BY <1>8, <2>3, Zenon
  <2> QED
    BY <1>7, <1>10, <2>1, <2>2, <2>4, <2>5, RemovedList, Zenon
<1> DEFINE m == [virtmsg EXCEPT !.done = TRUE]
<1>12. Fill(m) /\ m.done
  BY <1>1, <1>6, Zenon DEF Reply, Request
<1> HIDE DEF m
<1>13. /\ \A n \in Name : Holders(n)' = Holders(n) \ {g}
       /\ \A n \in Name : ~ Holds(g, n)'
  BY <1>1, <1>2, <1>6, <1>12, HoldersDestroy, Zenon
<1>14. /\ \A h \in Guest : h # g => msg'[h] = msg[h] /\ guest'[h] = guest[h]
       /\ \A h \in Guest : \A n : h # g => (Holds(h, n)' <=> Holds(h, n))
  BY <1>1, <1>2, <1>12, FillOthers, Zenon
<1>15. Ours' = Ours \ {a}
  BY <1>9, Zenon DEF Ours
<1>16. /\ \A j : (Ending(j) <=> j = k) /\ ~ Starting(j)
       /\ \A j : ~ Starting(j)' /\ ~ Ending(j)'
       /\ main'.pc \notin {"create", "join", "spawn", "destroy", "leave"} /\ main'.pc \notin Leaving
  BY <1>1, <1>4, <1>10, Zenon DEF Starting, Ending, Leaving
<1>17. \A n \in Ours' : n \in Ours /\ n \in Name /\ n # a /\ n \in DOMAIN kernel' /\ kernel'[n] = kernel[n]
  BY <1>9, <1>15, Zenon DEF Ours
<1>18. Indices'
  BY <1>5, <1>9, Zenon DEF Indices
<1>19. Bindings'
  <2>1. \A n \in Ours' : kernel'[n].bound = {Daemon}
    BY <1>3, <1>5, <1>17, Zenon DEF Bindings
  <2>2. \A n \in HostName \cap DOMAIN kernel' : kernel'[n].bound \subseteq {App}
    BY <1>5, <1>9, Zenon DEF Bindings
  <2> QED
    BY <1>16, <2>1, <2>2, Zenon DEF Bindings
<1>20. Present'
  BY <1>16, Zenon DEF Present
<1>21. Complete'
  <2>1. \A j \in Listed' : j \in Listed /\ j \in Slot /\ j # k /\ vtimeline'[j] = vtimeline[j]
    BY <1>11, SlotFinite, Zenon
  <2>2. ASSUME NEW j \in Listed' PROVE \E n \in Ours' : vtimeline'[j].index = kernel'[n].index
    <3>1. j \in Listed /\ j \in Slot /\ j # k /\ vtimeline'[j] = vtimeline[j]
      BY <2>1, Zenon
    <3>2. PICK n \in Ours : vtimeline[j].index = kernel[n].index
      BY <1>5, <3>1, Zenon DEF Complete
    <3>3. n # a
      BY <1>8, <3>1, <3>2, Zenon
    <3>4. n \in Ours'
      BY <1>15, <3>3, Zenon
    <3> QED
      BY <1>17, <3>1, <3>2, <3>4, Zenon
  <2>3. ASSUME NEW n \in Ours' PROVE \E j \in Slot : vtimeline'[j].index = kernel'[n].index
    <3>1. n \in Ours /\ n # a /\ kernel'[n] = kernel[n]
      BY <1>17, Zenon
    <3>2. PICK j \in Slot : vtimeline[j].index = kernel[n].index
      BY <1>5, <3>1, Zenon DEF Complete
    <3>3. j # k
      BY <1>5, <1>6, <1>7, <3>1, <3>2, Zenon DEF Indices, Ours
    <3> QED
      BY <1>11, <3>1, <3>2, <3>3, Zenon
  <2>4. \A i, j \in Listed' : vtimeline'[i].index = vtimeline'[j].index => i = j
    BY <1>5, <2>1 DEF Complete
  <2> QED
    BY <2>2, <2>3, <2>4, Zenon DEF Complete
<1>22. Counts'
  <2>1. ASSUME NEW j \in Slot, NEW n \in Ours', vtimeline'[j].index = kernel'[n].index
        PROVE  vtimeline'[j].bind_count = Cardinality(Holders(n)') /\ Holders(n)' # {}
    <3>1. n \in Ours /\ n \in Name /\ n # a /\ kernel'[n] = kernel[n] /\ kernel[n].index \in Nat
      BY <1>17, OurEntry, Zenon
    <3>2. j # k
      BY <1>11, <2>1, <3>1 DEF Free
    <3>3. vtimeline'[j] = vtimeline[j] /\ vtimeline[j].index = kernel[n].index
      BY <1>11, <2>1, <3>1, <3>2, Zenon
    <3>4. Holders(n)' = Holders(n)
      BY <1>6, <1>13, <3>1, Zenon
    <3>5. ~ Starting(j) /\ ~ Ending(j)
      BY <1>16, <3>2, Zenon
    <3>6. vtimeline[j].bind_count = Cardinality(Holders(n)) /\ Holders(n) # {}
      BY <1>5, <3>1, <3>3, <3>5, CountsAt, Zenon
    <3> QED
      BY <3>3, <3>4, <3>6, Zenon
  <2> QED
    BY <1>16, <2>1, Zenon DEF Counts
<1>23. Held'
  <2>1. ASSUME NEW h \in Guest, NEW n \in Name, Holds(h, n)'
        PROVE  n \in DOMAIN kernel' /\ IndexOf(h)' = kernel'[n].index
    <3>1. h # g
      BY <1>13, <2>1, Zenon
    <3>2. Holds(h, n) /\ IndexOf(h)' = IndexOf(h)
      BY <1>14, <2>1, <3>1, Zenon DEF IndexOf
    <3>3. n \in DOMAIN kernel /\ IndexOf(h) = kernel[n].index
      BY <1>5, <3>2, Zenon DEF Held
    <3>4. Holders(a) = {g}
      BY <1>2, <1>5, <1>6, <1>7, <1>16, Zenon DEF Counts
    <3>5. n # a
      BY <3>1, <3>2, <3>4, Zenon DEF Holders
    <3> QED
      BY <1>9, <3>2, <3>3, <3>5, Zenon
  <2> QED
    BY <1>1, <1>5, <1>6, <1>14, <2>1, Zenon DEF Held
<1>24. Threads'
  <2>1. \A j \in Slot : j # k => (j \in Listed' <=> j \in Listed)
    BY <1>11, Zenon
  <2>2. k \notin Listed' /\ thread[k].pc = "none"
    BY <1>1, <1>4, <1>5, <1>7, <1>11, Zenon DEF Threads
  <2>3. \A j \in Slot : thread[j].pc = "ended" => j # k
    BY <2>2, Zenon
  <2> QED
    BY <1>1, <1>4, <1>5, <1>11, <1>16, <2>1, <2>2, <2>3, Zenon DEF Threads
<1> QED
  BY <1>18, <1>19, <1>20, <1>21, <1>22, <1>23, <1>24, Zenon DEF Mirror

-----------------------------------------------------------------------------
\* All steps.

LEMMA MirrorInit ==
    ASSUME Init
    PROVE  Mirror
<1>1. DOMAIN kernel = {} /\ Ours = {} /\ Listed = {} /\ main.pc = "select"
  BY DEF Init, Ours, Listed, Free, Rest
<1>2. \A h \in Guest : guest[h].pc = "idle"
  BY Zenon DEF Init, Outside
<1>3. Indices /\ Bindings /\ Present /\ Complete /\ Counts
  BY <1>1, Zenon DEF Indices, Bindings, Present, Complete, Counts, Leaving
<1>4. Held
  BY <1>2, Zenon DEF Held, Holds
<1>5. Threads
  BY <1>1, Zenon DEF Init, Threads, None
<1> QED
  BY <1>3, <1>4, <1>5, Zenon DEF Mirror

LEMMA MirrorStutter ==
    ASSUME Served, Mirror, UNCHANGED vars
    PROVE  Mirror'
<1>1. UNCHANGED <<kernel, vtimeline, main, thread, guest, msg, running>>
  BY Zenon DEF vars
<1>2. /\ Indices'
      /\ \A n \in HostName \cap DOMAIN kernel' : kernel'[n].bound \subseteq {App}
  BY <1>1, SameTimelines, Zenon
<1>3. Threads'
  BY <1>1, ThreadsStay, Zenon
<1> QED
  BY <1>1, <1>2, <1>3, HostMirror, Zenon

LEMMA MirrorStep ==
    ASSUME Served, Mirror, Served', Separate, [Next]_vars
    PROVE  Mirror'
<1>1. CASE Main
  BY <1>1, ReadMirror, CreateMirror, CreateTimelineMirror, JoinMirror, SpawnMirror,
     DestroyMirror, CancelMirror, WaitMirror, LeaveMirror, DestroyTimelineMirror,
     UpdateMirror, EndedMirror
     DEF Main, SIGPIPE, At
<1>2. CASE Return \/ exit_handler \/ HostStep
  BY <1>2, EndedMirror, ExitMirror, HostStepMirror, Zenon DEF Return, At
<1>3. ASSUME NEW k \in Slot, Thread(k) PROVE Mirror'
  BY <1>3, ThreadMirror, Zenon
<1>4. ASSUME NEW g \in Guest, GuestStep(g) PROVE Mirror'
  BY <1>4, GuestStepMirror, Zenon
<1> QED
  BY <1>1, <1>2, <1>3, <1>4, MirrorStutter, Zenon DEF Next

LEMMA MirrorInvariant ==
    ASSUME Separate
    PROVE  Spec => [](Served /\ Mirror)
<1>1. Init => Served /\ Mirror
  BY ServedInit, MirrorInit, Zenon
<1>2. Served /\ Mirror /\ [Next]_vars => (Served /\ Mirror)'
  BY ServedStep, MirrorStep, Zenon
<1> QED
  BY <1>1, <1>2, PTL DEF Spec

\* Between two messages the daemon has exactly what the guests hold: it is bound to
\* their timelines and to no other, it counts the guests of each, and it has one
\* running thread for each.
LEMMA MirrorShows ==
    ASSUME Served, Mirror
    PROVE  Mirrors
<1> SUFFICES ASSUME main.pc = "select"
             PROVE  /\ {n \in DOMAIN kernel : Daemon \in kernel[n].bound} = {n \in Name : Holders(n) # {}}
                    /\ \A k \in Slot \ Listed : ~ Alive(k)
                    /\ \A k \in Listed :
                          /\ running => Alive(k)
                          /\ \E n \in Device(vtimeline[k].index) :
                                vtimeline[k].bind_count = Cardinality(Holders(n)) /\ Holders(n) # {}
  BY Zenon DEF Mirrors
<1>1. Bindings /\ Complete /\ Counts /\ Held /\ Threads
  BY Zenon DEF Mirror
<1>2. \A k : ~ Starting(k) /\ ~ Ending(k)
  BY Zenon DEF Starting, Ending, Leaving
<1>3. \A n \in Ours : Holders(n) # {}
  BY <1>1, <1>2 DEF Complete, Counts
<1>4. {n \in DOMAIN kernel : Daemon \in kernel[n].bound} = {n \in Name : Holders(n) # {}}
  <2>1. ASSUME NEW n \in DOMAIN kernel, Daemon \in kernel[n].bound PROVE n \in Name /\ Holders(n) # {}
    <3>1. DOMAIN kernel \subseteq Name \cup HostName
      BY TypeParts, Zenon DEF Served, KernelOK
    <3>2. n \notin HostName \/ n \in Name
      BY <1>1, <2>1, Zenon DEF Bindings, Daemon, App
    <3> QED
      BY <1>3, <3>1, <3>2, Zenon DEF Ours
  <2>2. ASSUME NEW n \in Name, Holders(n) # {} PROVE n \in DOMAIN kernel /\ Daemon \in kernel[n].bound
    <3>1. n \in DOMAIN kernel
      BY <1>1, <2>2, Zenon DEF Held, Holders
    <3> QED
      BY <1>1, <3>1, Zenon DEF Bindings, Ours
  <2> QED
    BY <2>1, <2>2, Zenon
<1>5. \A k \in Slot \ Listed : ~ Alive(k)
  BY <1>1, Zenon DEF Threads, Alive
<1>6. ASSUME NEW k \in Listed
      PROVE  /\ running => Alive(k)
             /\ \E n \in Device(vtimeline[k].index) :
                   vtimeline[k].bind_count = Cardinality(Holders(n)) /\ Holders(n) # {}
  <2>1. k \in Slot
    BY SlotFinite, Zenon
  <2>2. running => Alive(k)
    BY <1>1, <1>2, <2>1, Zenon DEF Threads, Alive
  <2>3. PICK n \in Ours : vtimeline[k].index = kernel[n].index
    BY <1>1, Zenon DEF Complete
  <2>4. n \in Device(vtimeline[k].index)
    BY <2>3, Zenon DEF Device, Ours
  <2>5. vtimeline[k].bind_count = Cardinality(Holders(n)) /\ Holders(n) # {}
    BY <1>1, <1>2, <2>1, <2>3, Zenon DEF Counts
  <2> QED
    BY <2>2, <2>4, <2>5, Zenon
<1> QED
  BY <1>4, <1>5, <1>6, Zenon

\* A timeline that another guest holds is not the one that the main thread has just
\* created or left.
LEMMA MirrorKeeps ==
    ASSUME Served, Mirror
    PROVE  Kept
<1> SUFFICES ASSUME NEW g \in Guest, NEW n \in Name, Holds(g, n), main.of # g
             PROVE  /\ n \in DOMAIN kernel /\ Daemon \in kernel[n].bound
                    /\ guest[g].pc # "binding" => guest[g].index = kernel[n].index
  BY Zenon DEF Kept
<1>1. Bindings /\ Present /\ Counts /\ Held
  BY Zenon DEF Mirror
<1>2. n \in DOMAIN kernel /\ IndexOf(g) = kernel[n].index /\ n \in Ours /\ g \in Holders(n)
  BY <1>1, Zenon DEF Held, Ours, Holders
<1>3. ~ (main.pc \in {"join", "destroy"} /\ virtmsg.name = n)
  <2> SUFFICES ASSUME main.pc \in {"join", "destroy"}, virtmsg.name = n
               PROVE  FALSE
    BY Zenon
  <2>1. main.tl_id \in Slot /\ vtimeline[main.tl_id].index = kernel[n].index
    BY <1>1, Zenon DEF Present, Served, Serving, Leaving
  <2>2. Starting(main.tl_id) \/ Ending(main.tl_id)
    BY Zenon DEF Starting, Ending, Leaving
  <2>3. Holders(n) = {} \/ Holders(n) = {main.of}
    BY <1>1, <1>2, <2>1, <2>2, CountsAt, Zenon
  <2> QED
    BY <1>2, <2>3, Zenon
<1>4. Daemon \in kernel[n].bound
  BY <1>1, <1>2, <1>3, Zenon DEF Bindings
<1> QED
  BY <1>2, <1>4, Zenon DEF IndexOf

\* With any number of guests and names, as long as the host has no timeline of a
\* guest's name and the list has room for all names, the daemon mirrors its guests
\* between two messages.
THEOREM DaemonMirrorsItsGuests ==
    ASSUME Separate
    PROVE  Spec => []Mirrors
<1>1. Served /\ Mirror => Mirrors
  BY MirrorShows, Zenon
<1> QED
  BY <1>1, MirrorInvariant, PTL

\* Under the same condition, and at any time, what a guest was told stays true
\* whatever the other guests, the host and the threads of the daemon do: its timeline
\* is there, at the index that the guest reads from, and the daemon is bound to it.
THEOREM GuestsKeepTheirTimelines ==
    ASSUME Separate
    PROVE  Spec => []Kept
<1>1. Served /\ Mirror => Kept
  BY MirrorKeeps, Zenon
<1> QED
  BY <1>1, MirrorInvariant, PTL

=============================================================================
