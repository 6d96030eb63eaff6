------------------------ MODULE QotElection_proofs ------------------------
(***************************************************************************)
(* The lock of the brokers is a lock: who believes that it leads, and has  *)
(* a session, holds it; hence the election implements a lease.  A broker   *)
(* at rest that does not lead watches the lock, so that it hears of the    *)
(* leader's end.  All rest on PInv, how a session's queue of events may    *)
(* look.                                                                   *)
(***************************************************************************)
EXTENDS QotElection, TLAPS

\* The server_id of a broker is its own.  zk_logic.c draws it at random.
DistinctIds == \A b, c \in Broker : server_id[b] = server_id[c] => b = c

-----------------------------------------------------------------------------
\* Queues of events.

Ids        == {Nil} \cup {server_id[b] : b \in Broker}
EventTypes == SessionEvents \cup WatchEvents \cup Completions
EventSet   == [type : EventTypes, id : Ids]

LEMMA AppendQueue ==
    ASSUME NEW s \in Seq(EventSet), NEW e \in EventSet
    PROVE  /\ Append(s, e) \in Seq(EventSet)
           /\ Len(Append(s, e)) = Len(s) + 1
           /\ \A i \in 1 .. Len(s) : Append(s, e)[i] = s[i]
           /\ Append(s, e)[Len(s) + 1] = e
    OBVIOUS

LEMMA TailQueue ==
    ASSUME NEW s \in Seq(EventSet), s # <<>>
    PROVE  /\ Head(s) \in EventSet /\ Head(s) = s[1] /\ Len(s) >= 1
           /\ Tail(s) \in Seq(EventSet)
           /\ Len(Tail(s)) = Len(s) - 1
           /\ \A i \in 1 .. Len(s) - 1 : Tail(s)[i] = s[i + 1]
    OBVIOUS

LEMMA ConcatQueue ==
    ASSUME NEW s \in Seq(EventSet), NEW r \in Seq(EventSet)
    PROVE  /\ s \o r \in Seq(EventSet)
           /\ Len(s \o r) = Len(s) + Len(r)
           /\ \A i \in 1 .. Len(s) : (s \o r)[i] = s[i]
           /\ \A i \in 1 .. Len(r) : (s \o r)[Len(s) + i] = r[i]
    OBVIOUS

LEMMA EventInSet ==
    ASSUME NEW type \in EventTypes
    PROVE  Event(type) \in EventSet /\ Event(type).type = type
    BY Zenon DEF Event, EventSet, Ids

-----------------------------------------------------------------------------
\* Answers and watch events on their way to a broker.

Answers(q) == {i \in 1 .. Len(q) : q[i].type \in Completions}
News(q)    == {i \in 1 .. Len(q) : q[i].type \in WatchEvents}

\* With request o of broker b, watch w and the brokers A that wait for an answer: a request
\* has one answer; a watch is set by the answer to the last request, fires once,
\* and after the answer that set it.
Orderly(q, b, A, o, w) ==
    /\ b \in A \/ o = "none" => Answers(q) = {}
    /\ \A i, j \in Answers(q) : i = j
    /\ \A i, j \in News(q) : i = j
    /\ \A i \in News(q), j \in Answers(q) : j < i
    /\ News(q) # {} => w = Nil
    /\ w # Nil \/ News(q) # {} =>
        /\ b \notin A /\ o \in {"none", "exists"}
        /\ \A i \in Answers(q) : q[i].type = "ZOK"

LEMMA Pushed ==
    ASSUME NEW q \in Seq(EventSet), NEW e \in EventSet
    PROVE  /\ Answers(Append(q, e)) =
                Answers(q) \cup (IF e.type \in Completions THEN {Len(q) + 1} ELSE {})
           /\ News(Append(q, e)) =
                News(q) \cup (IF e.type \in WatchEvents THEN {Len(q) + 1} ELSE {})
           /\ \A i \in Answers(q) \cup News(q) :
                i \in Int /\ 1 <= i /\ i <= Len(q) /\ Append(q, e)[i] = q[i]
           /\ Append(q, e)[Len(q) + 1] = e
    BY AppendQueue DEF Answers, News

LEMMA Popped ==
    ASSUME NEW q \in Seq(EventSet), q # <<>>
    PROVE  /\ Answers(Tail(q)) = {i \in 1 .. Len(q) - 1 : i + 1 \in Answers(q)}
           /\ News(Tail(q)) = {i \in 1 .. Len(q) - 1 : i + 1 \in News(q)}
           /\ \A i \in 1 .. Len(q) - 1 : Tail(q)[i] = q[i + 1]
           /\ 1 \in Answers(q) <=> Head(q).type \in Completions
           /\ 1 \in News(q) <=> Head(q).type \in WatchEvents
           /\ \A i \in Answers(q) \cup News(q) : i \in 1 .. Len(q)
    BY TailQueue DEF Answers, News

LEMMA Kinds ==
    /\ SessionEvents \cap Completions = {} /\ SessionEvents \cap WatchEvents = {}
    /\ WatchEvents \cap Completions = {}
    BY Zenon DEF SessionEvents, WatchEvents, Completions

LEMMA PushSession ==
    ASSUME NEW q \in Seq(EventSet), NEW e \in EventSet, e.type \in SessionEvents,
           NEW o, NEW b, NEW A, NEW w, Orderly(q, b, A, o, w)
    PROVE  /\ Orderly(Append(q, e), b, A, o, w)
           /\ Answers(Append(q, e)) = Answers(q) /\ News(Append(q, e)) = News(q)
<1>1. Answers(Append(q, e)) = Answers(q) /\ News(Append(q, e)) = News(q)
  <2>1. e.type \notin Completions /\ e.type \notin WatchEvents
    BY Kinds, Zenon
  <2>2. Answers(Append(q, e)) = Answers(q) \cup {} /\ News(Append(q, e)) = News(q) \cup {}
    BY <2>1, Pushed, Zenon
  <2> QED
    BY <2>2, Zenon
<1>2. \A i \in Answers(q) : Append(q, e)[i] = q[i]
  BY Pushed
<1> QED
  BY <1>1, <1>2, Zenon DEF Orderly

LEMMA PushAnswer ==
    ASSUME NEW q \in Seq(EventSet), NEW e \in EventSet, e.type \in Completions,
           NEW o, o # "none", NEW w, NEW b, NEW A, b \in A, Orderly(q, b, A, o, w),
           NEW A2, b \notin A2, NEW w2, w2 # Nil => o = "exists" /\ e.type = "ZOK"
    PROVE  /\ Orderly(Append(q, e), b, A2, o, w2)
           /\ Answers(Append(q, e)) = {Len(q) + 1} /\ News(Append(q, e)) = {} /\ w = Nil
    BY Pushed, Kinds DEF Orderly

LEMMA PushNews ==
    ASSUME NEW q \in Seq(EventSet), NEW e \in EventSet, e.type \in WatchEvents,
           NEW o, NEW b, NEW A, NEW w, w # Nil, Orderly(q, b, A, o, w)
    PROVE  /\ Orderly(Append(q, e), b, A, o, Nil)
           /\ Answers(Append(q, e)) = Answers(q) /\ News(Append(q, e)) = {Len(q) + 1}
<1>1. News(q) = {}
  BY Zenon DEF Orderly
<1>2. Answers(Append(q, e)) = Answers(q) /\ News(Append(q, e)) = {Len(q) + 1}
  <2>1. e.type \notin Completions
    BY Kinds, Zenon
  <2>2. Answers(Append(q, e)) = Answers(q) \cup {}
    BY Zenon, <2>1, Pushed
  <2>3. News(Append(q, e)) = {} \cup {Len(q) + 1}
    BY <1>1, Pushed, Zenon
  <2> QED
    BY <2>2, <2>3, Zenon
<1>3. \A i \in Answers(q) : i < Len(q) + 1 /\ Append(q, e)[i] = q[i]
  BY Pushed
<1> QED
  BY <1>2, <1>3, Zenon DEF Orderly

LEMMA PopSession ==
    ASSUME NEW q \in Seq(EventSet), q # <<>>, Head(q).type \in SessionEvents,
           NEW o, NEW b, NEW A, NEW w, Orderly(q, b, A, o, w)
    PROVE  Orderly(Tail(q), b, A, o, w)
    BY Popped, Kinds DEF Orderly

LEMMA HandedLast ==
    ASSUME NEW q \in Seq(EventSet), q # <<>>, Head(q).type \in Completions \cup WatchEvents,
           NEW b, NEW A, NEW o, NEW w, Orderly(q, b, A, o, w)
    PROVE  Answers(Tail(q)) = {}
<1>1. \A i \in Answers(Tail(q)) : i \in 1 .. Len(q) - 1 /\ i + 1 \in Answers(q)
  BY Popped, Zenon
<1>2. 1 \in Answers(q) \/ 1 \in News(q)
  BY Popped, Zenon
<1>3. \A i \in Answers(q) : i = 1 \/ i < 1
  BY <1>2, Zenon DEF Orderly
<1> QED
  BY <1>1, <1>3

LEMMA PopAnswer ==
    ASSUME NEW q \in Seq(EventSet), q # <<>>, Head(q).type \in Completions,
           NEW o, NEW b, NEW A, NEW w, Orderly(q, b, A, o, w),
           NEW o2, NEW A2, o # "exists" \/ Head(q).type # "ZOK" \/ (b \notin A2 /\ o2 = "none")
    PROVE  Orderly(Tail(q), b, A2, o2, w) /\ Answers(Tail(q)) = {}
    BY Popped, Kinds DEF Orderly

LEMMA PopNews ==
    ASSUME NEW q \in Seq(EventSet), q # <<>>, Head(q).type \in WatchEvents,
           NEW o, NEW b, NEW A, NEW w, Orderly(q, b, A, o, w),
           NEW o2, NEW A2
    PROVE  Orderly(Tail(q), b, A2, o2, w) /\ Answers(Tail(q)) = {} /\ News(Tail(q)) = {}
    BY Popped, Kinds DEF Orderly

-----------------------------------------------------------------------------
\* Types.

TypeInv ==
    /\ TypeOK
    /\ inbox \in [Broker -> Seq(EventSet)]
    /\ watch \in [Broker -> Broker \cup {Nil}]
    /\ \A b \in Broker : b \in alive <=> pc[b] # "dead"

\* A broker that has not run for master yet, or no longer runs.
Fresh(b) == pc[b] \in {"start", "campaign", "dead"}

\* A connection is that of a session; nothing happens before the first one.
Sessions(b) ==
    /\ b \in link => session[b] = "live"
    /\ session[b] = "new" => inbox[b] = <<>> /\ ~ connected[b] /\ pc[b] \in {"start", "dead"}
    /\ Fresh(b) => op[b] = "none" /\ watch[b] = Nil /\ News(inbox[b]) = {} /\ ~ leader[b]

Protocol(b) == Orderly(inbox[b], b, asked, op[b], watch[b])

PInv == TypeInv /\ \A b \in Broker : Protocol(b) /\ Sessions(b)

LEMMA TypeInit == Init => PInv
    BY ElectionAssumption
       DEF Init, PInv, TypeInv, TypeOK, Protocol, Orderly, Sessions, Answers, News, Fresh

LEMMA ReplyInSet ==
    ASSUME TypeInv, NEW b \in Broker, b \in asked
    PROVE  Reply(b) \in EventSet /\ Reply(b).type \in Completions
<1>1. op[b] \in {"create", "get", "exists"} /\ owner \in Broker \cup {Nil}
  BY Zenon DEF TypeInv, TypeOK
<1>2. ASSUME NEW type \in Completions
      PROVE  Event(type) \in EventSet /\ Event(type).type \in Completions
  BY EventInSet, Zenon DEF EventTypes
<1>3. CASE op[b] = "create"
  BY <1>2, <1>3, Zenon DEF Reply, Completions
<1>4. CASE op[b] = "exists"
  BY <1>2, <1>4, Zenon DEF Reply, Completions
<1>5. CASE op[b] = "get"
  <2>1. CASE owner = Nil
    BY <1>2, <1>5, <2>1, Zenon DEF Reply, Completions
  <2>2. CASE owner # Nil
    BY <1>1, <1>5, <2>2, Zenon DEF Reply, Completions, EventSet, EventTypes, Ids
  <2> QED
    BY <2>1, <2>2, Zenon
<1> QED
  BY <1>1, <1>3, <1>4, <1>5, Zenon

\* What the completion routines and run_for_master do to a request: it is made
\* anew, or there is none.
Requests(b) ==
    /\ \/ \E r \in {"create", "get", "exists"} :
              op' = [op EXCEPT ![b] = r] /\ asked' = asked \cup {b}
       \/ op' = [op EXCEPT ![b] = "none"] /\ asked' = asked
    /\ leader' = leader \/ \E v \in BOOLEAN : leader' = [leader EXCEPT ![b] = v]

LEMMA RunRequests == ASSUME NEW b, run_for_master(b) PROVE Requests(b)
    BY Zenon DEF run_for_master, Submit, Nothing, Requests

LEMMA CompletionRequests ==
    ASSUME NEW b, Completion(b)
    PROVE  Requests(b)
<1> DEFINE rc == Head(inbox[b]).type
           id == Head(inbox[b]).id
<1>1. CASE op[b] = "create" /\ master_create_completion(b, rc)
  BY <1>1, Zenon DEF master_create_completion, check_master, take_leadership, master_exists,
                     Submit, Nothing, Requests
<1>2. CASE op[b] = "get" /\ master_check_completion(b, rc, id)
  BY <1>2, RunRequests, Zenon DEF master_check_completion, check_master, take_leadership,
                                  master_exists, Submit, Nothing, Requests
<1>3. CASE op[b] = "exists" /\ master_exists_completion(b, rc)
  BY <1>3, RunRequests, Zenon DEF master_exists_completion, master_exists, Submit, Nothing,
                                  Requests
<1> QED
  BY <1>1, <1>2, <1>3, Zenon DEF Completion

\* What the library hands over ends the request.
LEMMA Handed ==
    ASSUME PInv, NEW b \in Broker, inbox[b] # <<>>,
           Head(inbox[b]).type \in Completions \cup WatchEvents
    PROVE  b \notin asked
<1>1. Len(inbox[b]) >= 1 /\ Head(inbox[b]) = inbox[b][1]
  BY TailQueue, Zenon DEF PInv, TypeInv
<1>2. 1 \in Answers(inbox[b]) \/ 1 \in News(inbox[b])
  BY <1>1 DEF Answers, News, PInv, TypeInv
<1> QED
  BY <1>2, Zenon DEF PInv, Protocol, Orderly

LEMMA TypeStep == PInv /\ [Next]_vars => TypeInv'
<1> SUFFICES ASSUME PInv, [Next]_vars PROVE TypeInv'
  BY Zenon
<1>0. TypeInv
  BY Zenon DEF PInv
<1> USE <1>0 DEF TypeInv, TypeOK
<1>1. CASE UNCHANGED vars
  BY <1>1, Zenon DEF vars, client, service
<1>2. ASSUME NEW b \in Broker, WaitConnected(b) \/ WaitLeader(b) PROVE TypeInv'
  BY <1>2, Zenon DEF WaitConnected, WaitLeader, service
<1>3. ASSUME NEW b \in alive, b \notin asked, Requests(b),
             UNCHANGED <<alive, expired, session, link, owner, watch>>,
             connected' = connected, inbox' \in [Broker -> Seq(EventSet)],
             pc' = pc \/ (pc[b] # "dead" /\ pc' = [pc EXCEPT ![b] = "standby"])
      PROVE  TypeInv'
  <2>1. leader' \in [Broker -> BOOLEAN]
    BY <1>3, Zenon DEF Requests
  <2>2. /\ op' \in [Broker -> {"none", "create", "get", "exists"}]
        /\ asked' \subseteq alive
        /\ \A c \in Broker : c \in asked' => op'[c] # "none"
    <3>1. CASE op' = [op EXCEPT ![b] = "none"] /\ asked' = asked
      BY <1>3, <3>1, Zenon
    <3>2. ASSUME NEW r \in {"create", "get", "exists"},
                 op' = [op EXCEPT ![b] = r], asked' = asked \cup {b}
          PROVE  /\ op' \in [Broker -> {"none", "create", "get", "exists"}] /\ asked' \subseteq alive
                 /\ \A c \in Broker : c \in asked' => op'[c] # "none"
      BY <1>3, <3>2, Zenon
    <3> QED
      BY <1>3, <3>1, <3>2, Zenon DEF Requests
  <2> QED
    BY Zenon, <1>3, <2>1, <2>2
<1>4. ASSUME NEW b \in Broker, inbox[b] # <<>>
      PROVE  [inbox EXCEPT ![b] = Tail(@)] \in [Broker -> Seq(EventSet)]
  BY <1>4, TailQueue, Zenon
<1>5. ASSUME NEW b \in Broker, Campaign(b) PROVE TypeInv'
  <2>1. Requests(b)
    BY <1>5, RunRequests, Zenon DEF Campaign
  <2>2. b \notin asked
    BY <1>5, Zenon DEF Campaign, PInv, Sessions, Fresh
  <2> QED
    BY <1>3, <1>5, <2>1, <2>2, Zenon DEF Campaign, service
<1>6. ASSUME NEW b \in Broker, main_watcher(b) PROVE TypeInv'
  <2>1. connected' \in [Broker -> BOOLEAN] /\ expired' \in [Broker -> BOOLEAN]
    BY <1>6, Zenon DEF main_watcher
  <2>2. /\ inbox' \in [Broker -> Seq(EventSet)]
        /\ op' \in [Broker -> {"none", "create", "get", "exists"}]
        /\ asked' \subseteq alive
        /\ \A c \in Broker : c \in asked' => op'[c] # "none"
    <3>1. CASE Head(inbox[b]).type = "EXPIRED"
      <4>1. <<>> \in Seq(EventSet) /\ b \in alive
        BY <1>6 DEF main_watcher, Next_event
      <4>2. zookeeper_close(b)
        BY <1>6, <3>1, Zenon DEF main_watcher
      <4>3. inbox' \in [Broker -> Seq(EventSet)]
        BY <4>1, <4>2, Zenon DEF zookeeper_close
      <4> QED
        BY <4>1, <4>2, <4>3, Zenon DEF zookeeper_close
    <3>2. CASE Head(inbox[b]).type # "EXPIRED"
      BY <1>4, <1>6, <3>2, Zenon DEF main_watcher, Next_event
    <3> QED
      BY <3>1, <3>2, Zenon
  <2> QED
    BY <1>6, <2>1, <2>2, Zenon DEF main_watcher, service
<1>7. ASSUME NEW b \in Broker, Completion(b) PROVE TypeInv'
  BY <1>3, <1>4, <1>7, CompletionRequests, Handed, Zenon DEF Completion, Next_event, service
<1>8. ASSUME NEW b \in Broker, master_exists_watcher(b) PROVE TypeInv'
  <2>1. CASE Head(inbox[b]).type = "DELETED"
    BY <1>3, <1>4, <1>8, <2>1, RunRequests, Handed, Zenon DEF master_exists_watcher,
       Next_event, service
  <2>2. CASE Head(inbox[b]).type # "DELETED"
    BY <1>4, <1>8, <2>2, Zenon DEF master_exists_watcher, Next_event, service
  <2> QED
    BY <2>1, <2>2, Zenon
<1>9. ASSUME NEW b \in Broker, NEW e \in EventSet
      PROVE  [inbox EXCEPT ![b] = Append(@, e)] \in [Broker -> Seq(EventSet)]
  BY AppendQueue, Zenon
<1>10. ASSUME NEW b \in Broker, Execute(b) PROVE TypeInv'
  <2>1. inbox' \in [Broker -> Seq(EventSet)]
    BY <1>9, <1>10, ReplyInSet, Zenon DEF Execute
  <2> QED
    BY <1>10, <2>1, Zenon DEF Execute, Perform, client
<1>11. ASSUME NEW b \in Broker, Connect(b) PROVE TypeInv'
  <2> DEFINE moved == watch[b] # Nil /\ owner # watch[b]
             news  == IF ~ moved THEN <<>>
                      ELSE <<Event(IF owner = Nil THEN "DELETED" ELSE "CHANGED")>>
  <2>1. news \in Seq(EventSet) /\ <<Event("CONNECTED")>> \in Seq(EventSet)
    BY EventInSet DEF EventTypes, SessionEvents, WatchEvents
  <2>2. inbox' = [inbox EXCEPT ![b] = @ \o <<Event("CONNECTED")>> \o news]
    BY <1>11, Zenon DEF Connect
  <2>3. inbox' \in [Broker -> Seq(EventSet)]
    <3> HIDE DEF news
    <3> QED
      BY <2>1, <2>2, ConcatQueue, Zenon
  <2> QED
    BY <1>11, <2>3, Zenon DEF Connect, client
<1>12. ASSUME NEW b \in Broker, Refuse(b) PROVE TypeInv'
  <2>1. Event("EXPIRED") \in EventSet
    BY EventInSet, Zenon DEF EventTypes, SessionEvents
  <2> QED
    BY <1>9, <1>12, <2>1, Zenon DEF Refuse, client, service
<1>13. ASSUME NEW b \in Broker, NEW rc \in Failures, Drop(b, rc) PROVE TypeInv'
  <2> DEFINE lost == IF b \in asked THEN <<Event(rc)>> ELSE <<>>
  <2>1. rc \in Completions
    BY Zenon DEF Failures, Completions
  <2>2. Event(rc) \in EventSet /\ Event("CONNECTING") \in EventSet
    BY <2>1, EventInSet, Zenon DEF EventTypes, SessionEvents
  <2>3. inbox' = [inbox EXCEPT ![b] = Append(@, Event("CONNECTING")) \o lost]
    BY <1>13, Zenon DEF Drop
  <2>4. inbox' \in [Broker -> Seq(EventSet)]
    <3>1. lost \in Seq(EventSet)
      BY <2>2
    <3> HIDE DEF lost
    <3> QED
      BY <2>2, <2>3, <3>1, ConcatQueue, AppendQueue, Zenon
  <2> QED
    BY <1>13, <2>4, Zenon DEF Drop, client
<1>14. ASSUME NEW b \in Broker, Expire(b) PROVE TypeInv'
  <2>1. Event("DELETED") \in EventSet
    BY EventInSet, Zenon DEF EventTypes, WatchEvents
  <2>2. inbox' \in [Broker -> Seq(EventSet)] /\ watch' \in [Broker -> Broker \cup {Nil}]
    <3>1. CASE owner = b
      <4>1. \A c \in Broker : Append(inbox[c], Event("DELETED")) \in Seq(EventSet)
        BY <2>1, AppendQueue, Zenon
      <4>2. /\ inbox' = [c \in Broker |-> IF Notified(c) THEN Append(inbox[c], Event("DELETED"))
                                           ELSE inbox[c]]
            /\ watch' = [c \in Broker |-> IF Notified(c) THEN Nil ELSE watch[c]]
        BY <1>14, <3>1, Zenon DEF Expire
      <4> QED
        BY <4>1, <4>2, Zenon
    <3>2. CASE owner # b
      BY <1>14, <3>2, Zenon DEF Expire
    <3> QED
      BY <3>1, <3>2, Zenon
  <2> QED
    BY <1>14, <2>2, Zenon DEF Expire, client
<1>15. ASSUME NEW b \in Broker, Crash(b) PROVE TypeInv'
  BY <1>15 DEF Crash
<1> QED
  BY <1>1, <1>2, <1>5, <1>6, <1>7, <1>8, <1>10, <1>11, <1>12, <1>13, <1>14, <1>15, Zenon
     DEF Next, Step


LEMMA Untouched ==
    ASSUME NEW c \in Broker, Protocol(c) /\ Sessions(c),
           inbox'[c] = inbox[c], op'[c] = op[c], c \in asked' <=> c \in asked, watch'[c] = watch[c],
           pc'[c] = pc[c], leader'[c] = leader[c], connected'[c] = connected[c],
           session'[c] = session[c] \/ (session'[c] = "gone" /\ c \notin link),
           c \in link' => c \in link
    PROVE  Protocol(c)' /\ Sessions(c)'
<1>1. Protocol(c)'
  BY Zenon DEF Protocol, Orderly
<1> QED
  BY <1>1, Zenon DEF Sessions, Fresh

LEMMA ProtocolStep == PInv /\ [Next]_vars => \A c \in Broker : Protocol(c)' /\ Sessions(c)'
<1> SUFFICES ASSUME PInv, [Next]_vars, NEW c \in Broker PROVE Protocol(c)' /\ Sessions(c)'
  BY Zenon
<1>0. /\ TypeInv /\ Protocol(c) /\ Sessions(c) /\ inbox[c] \in Seq(EventSet)
  BY Zenon DEF PInv, TypeInv
<1> USE <1>0 DEF TypeInv, TypeOK
<1>1. CASE UNCHANGED vars
  BY <1>1, Untouched, Zenon DEF vars, client, service
<1>2. ASSUME NEW b \in Broker, WaitConnected(b) \/ WaitLeader(b) PROVE Protocol(c)' /\ Sessions(c)'
  <2>1. Protocol(c)'
    BY <1>2, Zenon DEF WaitConnected, WaitLeader, Protocol, service
  <2>2. Sessions(c)'
    BY <1>2 DEF WaitConnected, WaitLeader, Sessions, Fresh, service
  <2> QED
    BY <2>1, <2>2, Zenon
<1>3. ASSUME NEW b \in Broker, Campaign(b) PROVE Protocol(c)' /\ Sessions(c)'
  <2>1. CASE c # b
    BY <1>3, <2>1, Untouched, Zenon DEF Campaign, run_for_master, Submit, Nothing, service
  <2>2. CASE c = b
    <3>1. Answers(inbox[c]) = {} /\ News(inbox[c]) = {} /\ watch[c] = Nil
      BY <1>3, <2>2, Zenon DEF Campaign, Sessions, Fresh, Protocol, Orderly
    <3> QED
      BY <1>3, <2>2, <3>1, Zenon DEF Campaign, Sessions, Fresh, Protocol, Orderly, service
  <2> QED
    BY <2>1, <2>2, Zenon
<1>4. ASSUME NEW b \in Broker, main_watcher(b) PROVE Protocol(c)' /\ Sessions(c)'
  <2>0. b \in alive /\ inbox[b] # <<>> /\ Head(inbox[b]).type \in SessionEvents
    BY <1>4, Zenon DEF main_watcher, Next_event
  <2>1. CASE c # b
    BY <1>4, <2>1, Untouched, Zenon DEF main_watcher, zookeeper_close, service
  <2>2. CASE c = b /\ Head(inbox[b]).type = "EXPIRED"
    <3>1. inbox'[c] = <<>> /\ op'[c] = "none" /\ c \notin asked' /\ watch' = watch
      BY <1>4, <2>2, Zenon DEF main_watcher, zookeeper_close, service
    <3>2. Answers(<<>>) = {} /\ News(<<>>) = {}
      BY DEF Answers, News
    <3>3. Protocol(c)'
      BY <3>1, <3>2, Zenon DEF Protocol, Orderly
    <3>4. Sessions(c)'
      BY <1>4, <2>0, <2>2, <3>1, <3>2, Zenon DEF main_watcher, Sessions, Fresh, service
    <3> QED
      BY <3>3, <3>4
  <2>3. CASE c = b /\ Head(inbox[b]).type # "EXPIRED"
    <3>1. inbox'[c] = Tail(inbox[c]) /\ op' = op /\ asked' = asked /\ watch' = watch
      BY <1>4, <2>3, Zenon DEF main_watcher, service
    <3>2. Protocol(c)'
      <4>1. Orderly(Tail(inbox[c]), c, asked, op[c], watch[c])
        BY <2>0, <2>3, PopSession, Zenon DEF Protocol
      <4> QED
        BY <3>1, <4>1, Zenon DEF Protocol
    <3>3. News(inbox[c]) = {} => News(Tail(inbox[c])) = {}
      BY <2>0, <2>3, Popped, Zenon
    <3>4. Sessions(c)'
      BY <1>4, <2>0, <2>3, <3>1, <3>3, Zenon DEF main_watcher, Sessions, Fresh, service
    <3> QED
      BY <3>2, <3>4
  <2> QED
    BY <2>1, <2>2, <2>3, Zenon
<1>5. ASSUME NEW b \in Broker, Completion(b) PROVE Protocol(c)' /\ Sessions(c)'
  <2>0. b \in alive /\ inbox[b] # <<>> /\ Head(inbox[b]).type \in Completions /\ Requests(b)
    BY <1>5, CompletionRequests, Zenon DEF Completion, Next_event
  <2>1. CASE c # b
    BY <1>5, <2>0, <2>1, Untouched, Zenon DEF Completion, Requests, service
  <2>2. CASE c = b
    <3>1. inbox'[c] = Tail(inbox[c]) /\ watch' = watch
      BY <1>5, <2>2, Zenon DEF Completion, service
    <3>2. op[c] # "none"
      BY <2>0, <2>2, Popped, Zenon DEF Protocol, Orderly
    <3>3. op[c] # "exists" \/ Head(inbox[c]).type # "ZOK" \/ (c \notin asked' /\ op'[c] = "none")
      <4>1. SUFFICES ASSUME op[c] = "exists", Head(inbox[c]).type = "ZOK"
                     PROVE  c \notin asked' /\ op'[c] = "none"
        BY Zenon
      <4>2. Nothing(c)
        BY <1>5, <2>2, <4>1, Zenon DEF Completion, master_exists_completion
      <4> QED
        BY <2>0, <2>2, <4>2, Handed, Zenon DEF Nothing
    <3>4. Protocol(c)'
      <4>1. Orderly(Tail(inbox[c]), c, asked', op'[c], watch[c])
        BY <2>0, <2>2, <3>3, PopAnswer, Zenon DEF Protocol
      <4> QED
        BY <3>1, <4>1, Zenon DEF Protocol
    <3>5. Sessions(c)'
      BY <1>5, <2>0, <2>2, <3>1, <3>2, Zenon DEF Completion, Sessions, Fresh, service
    <3> QED
      BY <3>4, <3>5
  <2> QED
    BY <2>1, <2>2
<1>6. ASSUME NEW b \in Broker, master_exists_watcher(b) PROVE Protocol(c)' /\ Sessions(c)'
  <2>0. b \in alive /\ inbox[b] # <<>> /\ Head(inbox[b]).type \in WatchEvents
    BY <1>6, Zenon DEF master_exists_watcher, Next_event
  <2>1. CASE c # b
    <3>1. Requests(b) \/ UNCHANGED <<op, asked, leader>>
      BY <1>6, RunRequests, Zenon DEF master_exists_watcher
    <3>2. op'[c] = op[c] /\ (c \in asked' <=> c \in asked) /\ leader'[c] = leader[c]
      BY <2>1, <3>1, Zenon DEF Requests
    <3> QED
      BY <1>6, <2>1, <3>2, Untouched, Zenon DEF master_exists_watcher, service
  <2>2. CASE c = b
    <3>1. inbox'[c] = Tail(inbox[c]) /\ watch' = watch
      BY <1>6, <2>2, Zenon DEF master_exists_watcher, service
    <3>2. News(inbox[c]) # {}
      BY <2>0, <2>2, Popped, Zenon
    <3>3. Protocol(c)'
      <4>1. Orderly(Tail(inbox[c]), c, asked', op'[c], watch[c])
        BY <2>0, <2>2, PopNews, Zenon DEF Protocol
      <4> QED
        BY <3>1, <4>1 DEF Protocol
    <3>4. Sessions(c)'
      BY <1>6, <2>0, <2>2, <3>1, <3>2, Zenon DEF master_exists_watcher, Sessions, Fresh,
                                                 service
    <3> QED
      BY <3>3, <3>4
  <2> QED
    BY <2>1, <2>2
<1>7. ASSUME NEW b \in Broker, Execute(b) PROVE Protocol(c)' /\ Sessions(c)'
  <2>0. b \in asked /\ b \in link /\ session' = session /\ link' = link /\ op' = op
    BY <1>7, Zenon DEF Execute
  <2>1. CASE c # b
    BY <1>7, <2>1, Untouched, Zenon DEF Execute, Perform, client
  <2>2. CASE c = b
    <3>1. /\ inbox'[c] = Append(inbox[c], Reply(c)) /\ c \notin asked'
          /\ watch'[c] # Nil => watch[c] # Nil \/ (op[c] = "exists" /\ Reply(c).type = "ZOK")
      BY <1>7, <2>2, Zenon DEF Execute, Perform, Reply, Event
    <3>2. Reply(c) \in EventSet /\ Reply(c).type \in Completions /\ op[c] # "none"
      BY <2>0, <2>2, ReplyInSet, Zenon
    <3>3. watch[c] = Nil
      BY <2>0, <2>2, Zenon DEF Protocol, Orderly
    <3>4. Orderly(Append(inbox[c], Reply(c)), c, asked', op[c], watch'[c])
      <4>1. c \in asked /\ Orderly(inbox[c], c, asked, op[c], watch[c])
        BY <2>0, <2>2, Zenon DEF Protocol
      <4>2. c \notin asked' /\ (watch'[c] # Nil => op[c] = "exists" /\ Reply(c).type = "ZOK")
        BY <3>1, <3>3, Zenon
      <4> DEFINE q == inbox[c]
                 r == Reply(c)
                 w == watch'[c]
      <4>3. q \in Seq(EventSet) /\ Orderly(q, c, asked, op[c], watch[c])
        BY <4>1, Zenon
      <4>4. r \in EventSet /\ r.type \in Completions /\ op[c] # "none" /\ c \in asked
        BY <3>2, <4>1, Zenon
      <4>5. c \notin asked' /\ (w # Nil => op[c] = "exists" /\ r.type = "ZOK")
        BY <4>2, Zenon
      <4> HIDE DEF q, r, w, TypeInv, TypeOK
      <4>6. Orderly(Append(q, r), c, asked', op[c], w)
        <5>1. CASE w = Nil
          BY <4>3, <4>4, <4>5, <5>1, Pushed, Kinds DEF Orderly
        <5>2. CASE w # Nil
          BY <4>3, <4>4, <4>5, <5>2, Pushed, Kinds DEF Orderly
        <5> QED
          BY <5>1, <5>2, Zenon
      <4> QED
        BY <4>6, Zenon DEF q, r, w
    <3>5. Protocol(c)'
      BY <2>0, <3>1, <3>4, Zenon DEF Protocol
    <3>6. Sessions(c)'
      BY <1>7, <2>0, <2>2, <3>2, Zenon DEF Execute, Sessions, Fresh, client
    <3> QED
      BY <3>5, <3>6
  <2> QED
    BY <2>1, <2>2
<1>8. ASSUME NEW b \in Broker, Connect(b) PROVE Protocol(c)' /\ Sessions(c)'
  <2>1. CASE c # b
    BY <1>8, <2>1, Untouched, Zenon DEF Connect, client
  <2>2. CASE c = b
    <3> DEFINE e == Event("CONNECTED")
               q == Append(inbox[c], e)
               n == Event(IF owner = Nil THEN "DELETED" ELSE "CHANGED")
    <3>1. /\ e \in EventSet /\ e.type \in SessionEvents
          /\ n \in EventSet /\ n.type \in WatchEvents
      BY EventInSet, Zenon DEF EventTypes, SessionEvents, WatchEvents
    <3>2. q \in Seq(EventSet) /\ Orderly(q, c, asked, op[c], watch[c]) /\ News(q) = News(inbox[c])
      BY <3>1, AppendQueue, PushSession, Zenon DEF Protocol
    <3>3. \/ inbox'[c] = q /\ watch'[c] = watch[c]
          \/ inbox'[c] = Append(q, n) /\ watch[c] # Nil /\ watch'[c] = Nil
      <4>1. \/ inbox'[c] = inbox[c] \o <<e>> \o <<>> /\ watch'[c] = watch[c]
            \/ inbox'[c] = inbox[c] \o <<e>> \o <<n>> /\ watch[c] # Nil /\ watch'[c] = Nil
        BY <1>8, <2>2, Zenon DEF Connect
      <4>2. inbox[c] \o <<e>> \o <<>> = q /\ inbox[c] \o <<e>> \o <<n>> = Append(q, n)
        <5> HIDE DEF e, n
        <5> QED
          BY <3>1
      <4> QED
        BY <4>1, <4>2, Zenon
    <3>4. asked' = asked /\ op' = op /\ UNCHANGED client
      BY <1>8, Zenon DEF Connect
    <3>5. Protocol(c)'
      <4> HIDE DEF q, n
      <4>1. watch[c] # Nil => Orderly(Append(q, n), c, asked, op[c], Nil)
        BY <3>1, <3>2, PushNews, Zenon
      <4> QED
        BY <3>2, <3>3, <3>4, <4>1, Zenon DEF Protocol
    <3>6. Sessions(c)'
      <4>1. session'[c] = "live"
        BY <1>8, <2>2, Zenon DEF Connect
      <4> HIDE DEF q, n
      <4> QED
        BY <3>2, <3>3, <3>4, <4>1, Zenon DEF Sessions, Fresh, client
    <3> QED
      BY <3>5, <3>6
  <2> QED
    BY <2>1, <2>2
<1>9. ASSUME NEW b \in Broker, Refuse(b) PROVE Protocol(c)' /\ Sessions(c)'
  <2>1. CASE c # b
    BY <1>9, <2>1, Untouched, Zenon DEF Refuse, client, service
  <2>2. CASE c = b
    <3> DEFINE e == Event("EXPIRED")
    <3>1. e \in EventSet /\ e.type \in SessionEvents
      BY EventInSet, Zenon DEF EventTypes, SessionEvents
    <3>2. inbox'[c] = Append(inbox[c], e) /\ session[c] = "gone"
      BY <1>9, <2>2, Zenon DEF Refuse
    <3> HIDE DEF e
    <3>3. /\ Orderly(Append(inbox[c], e), c, asked, op[c], watch[c])
          /\ News(Append(inbox[c], e)) = News(inbox[c])
      BY <3>1, PushSession, Zenon DEF Protocol
    <3>4. UNCHANGED <<client, asked, op, service>>
      BY <1>9, Zenon DEF Refuse
    <3> QED
      BY <3>2, <3>3, <3>4, Zenon DEF Protocol, Sessions, Fresh, client, service
  <2> QED
    BY <2>1, <2>2
<1>10. ASSUME NEW b \in Broker, NEW rc \in Failures, Drop(b, rc) PROVE Protocol(c)' /\ Sessions(c)'
  <2>1. CASE c # b
    BY <1>10, <2>1, Untouched, Zenon DEF Drop, client
  <2>2. CASE c = b
    <3> DEFINE e == Event("CONNECTING")
               q == Append(inbox[c], e)
               r == Event(rc)
    <3>0. rc \in Completions
      BY Zenon DEF Failures, Completions
    <3>1. /\ e \in EventSet /\ e.type \in SessionEvents
          /\ r \in EventSet /\ r.type \in Completions
      <4>1. "CONNECTING" \in SessionEvents /\ SessionEvents \subseteq EventTypes
            /\ Completions \subseteq EventTypes
        BY Zenon DEF EventTypes, SessionEvents
      <4> QED
        BY <3>0, <4>1, EventInSet, Zenon
    <3>2. q \in Seq(EventSet) /\ Orderly(q, c, asked, op[c], watch[c]) /\ News(q) = News(inbox[c])
      BY <3>1, AppendQueue, PushSession, Zenon DEF Protocol
    <3>3. IF c \in asked THEN inbox'[c] = Append(q, r) ELSE inbox'[c] = q
      <4>1. IF c \in asked THEN inbox'[c] = q \o <<r>> ELSE inbox'[c] = q \o <<>>
        BY <1>10, <2>2, Zenon DEF Drop
      <4>2. q \o <<>> = q /\ q \o <<r>> = Append(q, r)
        <5> HIDE DEF q, r
        <5> QED
          BY <3>1, <3>2
      <4> QED
        BY <4>1, <4>2, Zenon
    <3>4. op' = op /\ UNCHANGED <<client, session, watch>> /\ c \notin asked' /\ session[c] = "live"
      BY <1>10, <2>2, Zenon DEF Drop, Sessions
    <3> HIDE DEF e, q, r
    <3>5. CASE c \in asked
      <4>1. op[c] # "none" /\ watch[c] = Nil
        BY <3>5, Zenon DEF Protocol, Orderly
      <4>2. q \in Seq(EventSet) /\ Orderly(q, c, asked, op[c], Nil)
        BY <3>2, <4>1, Zenon
      <4>3. r \in EventSet /\ r.type \in Completions /\ c \notin asked'
        BY <3>1, <3>4, Zenon
      <4>4. Orderly(Append(q, r), c, asked', op[c], Nil)
        <5> HIDE DEF TypeInv, TypeOK
        <5> QED
          BY Zenon, <3>5, <4>1, <4>2, <4>3, PushAnswer
      <4> QED
        BY <3>3, <3>4, <3>5, <4>1, <4>4, Zenon DEF Protocol, Sessions, Fresh, client
    <3>6. CASE c \notin asked
      <4>1. Orderly(q, c, asked', op[c], watch[c])
        BY <3>2, <3>4, <3>6, Zenon DEF Orderly
      <4> QED
        BY <3>2, <3>3, <3>4, <3>6, <4>1, Zenon DEF Protocol, Sessions, Fresh, client
    <3> QED
      BY <3>5, <3>6, Zenon
  <2> QED
    BY <2>1, <2>2, Zenon
<1>11. ASSUME NEW b \in Broker, Expire(b) PROVE Protocol(c)' /\ Sessions(c)'
  <2>0. session'[c] = session[c] \/ (session'[c] = "gone" /\ c \notin link)
    BY <1>11, Zenon DEF Expire
  <2>1. CASE owner # b \/ ~ Notified(c)
    BY <1>11, <2>0, <2>1, Untouched DEF Expire, client
  <2>2. CASE owner = b /\ Notified(c)
    <3> DEFINE e == Event("DELETED")
    <3>1. e \in EventSet /\ e.type \in WatchEvents
      BY EventInSet, Zenon DEF EventTypes, WatchEvents
    <3>2. inbox'[c] = Append(inbox[c], e) /\ watch'[c] = Nil /\ UNCHANGED <<client, op, asked, link>>
      BY <1>11, <2>2, Zenon DEF Expire
    <3>3. watch[c] # Nil /\ session'[c] = "live" /\ ~ Fresh(c)
      BY <1>11, <2>2, Zenon DEF Notified, Sessions, Expire
    <3> HIDE DEF e
    <3>4. Orderly(Append(inbox[c], e), c, asked, op[c], Nil)
      BY <3>1, <3>3, PushNews, Zenon DEF Protocol
    <3> QED
      BY <3>2, <3>3, <3>4, Zenon DEF Protocol, Sessions, Fresh, client
  <2> QED
    BY <2>1, <2>2, Zenon
<1>12. ASSUME NEW b \in Broker, Crash(b) PROVE Protocol(c)' /\ Sessions(c)'
  <2>1. CASE c # b
    BY <1>12, <2>1, Untouched, Zenon DEF Crash
  <2>2. CASE c = b
    <3>1. Answers(<<>>) = {} /\ News(<<>>) = {}
      BY DEF Answers, News
    <3>2. /\ inbox'[c] = <<>> /\ op'[c] = "none" /\ c \notin asked' /\ watch'[c] = Nil
          /\ pc'[c] = "dead" /\ ~ leader'[c] /\ c \notin link' /\ UNCHANGED <<connected, session>>
      BY <1>12, <2>2, Zenon DEF Crash
    <3> QED
      BY <3>1, <3>2, Zenon DEF Protocol, Orderly, Sessions
  <2> QED
    BY <2>1, <2>2
<1> QED
  BY <1>1, <1>2, <1>3, <1>4, <1>5, <1>6, <1>7, <1>8, <1>9, <1>10, <1>11, <1>12,
     Zenon DEF Next, Step

LEMMA PStep == PInv /\ [Next]_vars => PInv'
    BY TypeStep, ProtocolStep, Zenon DEF PInv

-----------------------------------------------------------------------------
\* The lock.

\* An answer by which its reader has, or has already got, the lock.
Won(b, e) == e.type = "ZOK" /\ (op[b] = "create" \/ (op[b] = "get" /\ e.id = server_id[b]))

Wins(b, q) == \E i \in Answers(q) : Won(b, q[i])
Winner(b)  == leader[b] \/ Wins(b, inbox[b])

HasLock(b) == session[b] = "live" /\ Winner(b) => owner = b

LockInv == PInv /\ \A b \in Broker : HasLock(b)

LEMMA LockInit == Init => LockInv
    BY TypeInit, Zenon DEF Init, LockInv, HasLock, Winner, Wins, Answers

\* The lock is taken when it is free, and freed only with the session of its owner.
LEMMA OwnerStep ==
    ASSUME TypeInv, [Next]_vars
    PROVE  \/ owner' = owner
           \/ owner = Nil
           \/ owner' = Nil /\ session'[owner] = "gone"
<1> USE DEF TypeInv, TypeOK
<1>1. CASE UNCHANGED vars
  BY <1>1, Zenon DEF vars, service
<1>2. ASSUME NEW b \in Broker, Expire(b)
      PROVE  owner' = owner \/ (owner' = Nil /\ session'[owner] = "gone")
  BY <1>2, Zenon DEF Expire
<1>3. ASSUME NEW b \in Broker, Step(b) \/ Crash(b)
      PROVE  owner' = owner \/ owner = Nil
  BY <1>3, Zenon DEF Step, Crash, WaitConnected, Campaign, WaitLeader, main_watcher,
                     Completion, master_exists_watcher, Execute, Perform, Connect, Refuse,
                     service
<1>4. ASSUME NEW b \in Broker, NEW rc \in Failures, Drop(b, rc)
      PROVE  owner' = owner \/ owner = Nil
  BY <1>4, Zenon DEF Drop
<1> QED
  BY <1>1, <1>2, <1>3, <1>4, Zenon DEF Next

LEMMA WinsPopped ==
    ASSUME NEW b, NEW q \in Seq(EventSet), q # <<>>, Wins(b, Tail(q))
    PROVE  Wins(b, q)
    BY Popped, Zenon DEF Wins

LEMMA WinsPushed ==
    ASSUME NEW b, NEW q \in Seq(EventSet), NEW e \in EventSet, Wins(b, Append(q, e))
    PROVE  Wins(b, q) \/ (e.type \in Completions /\ Won(b, e))
    BY Pushed DEF Wins

LEMMA WinsNothing == ASSUME NEW b, NEW q, Answers(q) = {} PROVE ~ Wins(b, q)
    BY Zenon DEF Wins

\* A broker that wins does so with the lock.
LEMMA WinStep ==
    ASSUME DistinctIds, LockInv, [Next]_vars, NEW c \in Broker, Winner(c)', session'[c] = "live"
    PROVE  (Winner(c) /\ session[c] = "live") \/ owner' = c
<1>0. /\ PInv /\ TypeInv /\ Protocol(c) /\ Sessions(c) /\ inbox[c] \in Seq(EventSet)
      /\ HasLock(c)
  BY Zenon DEF LockInv, PInv, TypeInv
<1> USE <1>0 DEF TypeInv, TypeOK
<1> DEFINE Goal == (Winner(c) /\ session[c] = "live") \/ owner' = c
<1>1. ASSUME op'[c] = op[c], leader'[c] = leader[c], session'[c] = session[c],
             Wins(c, inbox'[c]) => Wins(c, inbox[c])
      PROVE  Goal
  BY <1>1, Zenon DEF Winner, Wins, Won
<1>2. ASSUME op'[c] = op[c], leader'[c] = leader[c], session'[c] = session[c], inbox'[c] = inbox[c]
      PROVE  Goal
  BY <1>1, <1>2, Zenon
<1>3. CASE UNCHANGED vars
  BY <1>2, <1>3, Zenon DEF vars, client, service
<1>4. ASSUME NEW b \in Broker, WaitConnected(b) \/ WaitLeader(b) PROVE Goal
  BY <1>2, <1>4, Zenon DEF WaitConnected, WaitLeader, service
<1>5. ASSUME NEW b \in Broker, Campaign(b) PROVE Goal
  <2>1. CASE c # b
    BY <1>2, <1>5, <2>1, Zenon DEF Campaign, run_for_master, Submit, Nothing, service
  <2>2. CASE c = b
    <3>1. Answers(inbox'[c]) = {} /\ ~ leader'[c]
      BY <1>5, <2>2, Zenon DEF Campaign, run_for_master, Submit, Nothing, Sessions, Fresh,
                               Protocol, Orderly
    <3> QED
      BY <3>1, WinsNothing, Zenon DEF Winner, Wins
  <2> QED
    BY <2>1, <2>2, Zenon
<1>6. ASSUME NEW b \in Broker, main_watcher(b) PROVE Goal
  <2>0. inbox[b] # <<>> /\ UNCHANGED <<leader, session>>
    BY <1>6, Zenon DEF main_watcher, Next_event, service
  <2>1. CASE c # b
    BY <1>2, <1>6, <2>0, <2>1, Zenon DEF main_watcher, zookeeper_close
  <2>2. CASE c = b /\ Head(inbox[b]).type = "EXPIRED"
    <3>1. inbox'[c] = <<>>
      BY <1>6, <2>2 DEF main_watcher, zookeeper_close
    <3>2. Winner(c) /\ session[c] = "live"
      BY <2>0, <3>1 DEF Winner, Wins, Answers
    <3> QED
      BY <3>2, Zenon
  <2>3. CASE c = b /\ Head(inbox[b]).type # "EXPIRED"
    <3>1. inbox'[c] = Tail(inbox[c]) /\ op' = op
      BY <1>6, <2>3, Zenon DEF main_watcher
    <3> QED
      BY <1>1, <2>0, <2>3, <3>1, WinsPopped, Zenon
  <2> QED
    BY <2>1, <2>2, <2>3, Zenon
<1>7. ASSUME NEW b \in Broker, Completion(b) PROVE Goal
  <2>0. inbox[b] # <<>> /\ Head(inbox[b]).type \in Completions /\ session' = session
    BY <1>7, Zenon DEF Completion, Next_event, service
  <2>1. CASE c # b
    <3>1. Requests(b) /\ inbox'[c] = inbox[c]
      BY <1>7, <2>1, CompletionRequests, Zenon DEF Completion
    <3>2. op'[c] = op[c] /\ leader'[c] = leader[c]
      BY <2>1, <3>1, Zenon DEF Requests
    <3> QED
      BY <1>2, <2>0, <3>1, <3>2, Zenon
  <2>2. CASE c = b
    <3>1. inbox'[c] = Tail(inbox[c])
      BY <1>7, <2>2, Zenon DEF Completion
    <3>2. Answers(inbox'[c]) = {}
      <4>1. Answers(Tail(inbox[c])) = {}
        BY <2>0, <2>2, HandedLast, Zenon DEF Protocol
      <4> QED
        BY <3>1, <4>1, Zenon
    <3>3. leader'[c]
      BY <3>2, WinsNothing, Zenon DEF Winner, Wins
    <3>4. leader[c] \/ (take_leadership(c) /\ Won(c, Head(inbox[c])))
      BY <1>7, <2>2, <3>3 DEF Completion, master_create_completion, master_check_completion,
                              master_exists_completion, check_master, master_exists,
                              run_for_master, Submit, Nothing, Won
    <3>5. Won(c, Head(inbox[c])) => Wins(c, inbox[c])
      BY <2>0, <2>2, Popped, TailQueue, Zenon DEF Wins
    <3> QED
      BY <2>0, <3>4, <3>5, Zenon DEF Winner
  <2> QED
    BY <2>1, <2>2
<1>8. ASSUME NEW b \in Broker, master_exists_watcher(b) PROVE Goal
  <2>0. inbox[b] # <<>> /\ Head(inbox[b]).type \in WatchEvents /\ session' = session
    BY <1>8, Zenon DEF master_exists_watcher, Next_event, service
  <2>1. CASE c # b
    BY <1>2, <1>8, <2>0, <2>1, Zenon DEF master_exists_watcher, run_for_master, Submit, Nothing
  <2>2. CASE c = b
    <3>1. inbox'[c] = Tail(inbox[c]) /\ leader' = leader
      BY <1>8, <2>2, Zenon DEF master_exists_watcher, run_for_master, Submit, Nothing
    <3>2. Answers(inbox'[c]) = {}
      <4>1. Answers(Tail(inbox[c])) = {}
        BY <2>0, <2>2, PopNews, Zenon DEF Protocol
      <4> QED
        BY Zenon, <3>1, <4>1
    <3> QED
      BY <2>0, <3>1, <3>2, Zenon DEF Winner, Wins
  <2> QED
    BY <2>1, <2>2
<1>9. ASSUME NEW b \in Broker, Execute(b) PROVE Goal
  <2>0. b \in asked /\ op' = op /\ leader' = leader /\ session' = session
    BY <1>9, Zenon DEF Execute, client
  <2>1. CASE c # b
    BY <1>2, <1>9, <2>0, <2>1, Zenon DEF Execute
  <2>2. CASE c = b
    <3>1. inbox'[c] = Append(inbox[c], Reply(c))
      BY <1>9, <2>2, Zenon DEF Execute
    <3>2. Reply(c) \in EventSet
      BY <2>0, <2>2, ReplyInSet, Zenon
    <3>3. Won(c, Reply(c)) => owner' = c
      <4>1. CASE op[c] = "create"
        BY <1>9, <2>2, <4>1, ElectionAssumption, Zenon DEF Execute, Perform, Reply, Event, Won
      <4>2. CASE op[c] = "get"
        BY <1>9, <2>2, <4>2, Zenon DEF Execute, Perform, Reply, Event, Won, DistinctIds
      <4> QED
        BY <4>1, <4>2, Zenon DEF Won
    <3>4. Wins(c, inbox'[c]) => Wins(c, inbox[c]) \/ owner' = c
      BY Zenon, <3>1, <3>2, <3>3, WinsPushed
    <3> QED
      BY <1>1, <2>0, <3>4, Zenon
  <2> QED
    BY <2>1, <2>2
<1>10. ASSUME NEW b \in Broker, Connect(b) PROVE Goal
  <2>0. op' = op /\ leader' = leader
    BY <1>10, Zenon DEF Connect, client
  <2>1. CASE c # b
    BY <1>2, <1>10, <2>0, <2>1, Zenon DEF Connect
  <2>2. CASE c = b
    <3> DEFINE e == Event("CONNECTED")
               q == Append(inbox[c], e)
               n == Event(IF owner = Nil THEN "DELETED" ELSE "CHANGED")
    <3>1. /\ e \in EventSet /\ e.type \in SessionEvents
          /\ n \in EventSet /\ n.type \in WatchEvents
      BY EventInSet, Zenon DEF EventTypes, SessionEvents, WatchEvents
    <3>2. inbox'[c] = q \/ inbox'[c] = Append(q, n)
      <4>1. inbox'[c] = inbox[c] \o <<e>> \o <<>> \/ inbox'[c] = inbox[c] \o <<e>> \o <<n>>
        BY <1>10, <2>2, Zenon DEF Connect
      <4>2. inbox[c] \o <<e>> \o <<>> = q /\ inbox[c] \o <<e>> \o <<n>> = Append(q, n)
        <5> HIDE DEF e, n
        <5> QED
          BY <3>1
      <4> QED
        BY Zenon, <4>1, <4>2
    <3>3. q \in Seq(EventSet)
      BY <3>1, AppendQueue, Zenon
    <3>4. Wins(c, inbox'[c]) => Wins(c, inbox[c])
      <4>1. Wins(c, q) => Wins(c, inbox[c])
        <5> HIDE DEF e
        <5> QED
          BY <3>1, WinsPushed, Kinds, Zenon
      <4>2. Wins(c, Append(q, n)) => Wins(c, q)
        <5> HIDE DEF q, n
        <5> QED
          BY <3>1, <3>3, WinsPushed, Kinds, Zenon
      <4> QED
        BY Zenon, <3>2, <4>1, <4>2
    <3>5. session[c] = "live" \/ (session[c] = "new" /\ session'[c] = "live")
      BY <1>10, <2>2, Zenon DEF Connect
    <3>6. CASE session[c] = "live"
      BY <1>1, <1>10, <2>0, <2>2, <3>4, <3>6, Zenon DEF Connect
    <3>7. CASE session[c] = "new"
      <4>1. ~ leader[c] /\ Answers(inbox[c]) = {}
        BY <3>7 DEF Sessions, Fresh, Answers
      <4> QED
        BY <2>0, <3>4, <4>1, Zenon DEF Winner, Wins, Won
    <3> QED
      BY <3>5, <3>6, <3>7, Zenon
  <2> QED
    BY <2>1, <2>2
<1>11. ASSUME NEW b \in Broker, Refuse(b) PROVE Goal
  <2>1. CASE c # b
    BY <1>2, <1>11, <2>1, Zenon DEF Refuse, client, service
  <2>2. CASE c = b
    BY <1>11, <2>2, Zenon DEF Refuse, service
  <2> QED
    BY <2>1, <2>2
<1>12. ASSUME NEW b \in Broker, NEW rc \in Failures, Drop(b, rc) PROVE Goal
  <2>0. op' = op /\ leader' = leader /\ session' = session
    BY <1>12, Zenon DEF Drop, client
  <2>1. CASE c # b
    BY <1>2, <1>12, <2>0, <2>1, Zenon DEF Drop
  <2>2. CASE c = b
    <3> DEFINE e == Event("CONNECTING")
               q == Append(inbox[c], e)
               r == Event(rc)
    <3>0. rc \in Completions /\ rc # "ZOK"
      BY Zenon DEF Failures, Completions
    <3>1. /\ e \in EventSet /\ e.type \in SessionEvents
          /\ r \in EventSet /\ r.type # "ZOK"
      BY <3>0, EventInSet, Zenon DEF EventTypes, SessionEvents
    <3>2. inbox'[c] = q \/ inbox'[c] = Append(q, r)
      <4>1. inbox'[c] = q \o <<r>> \/ inbox'[c] = q \o <<>>
        BY <1>12, <2>2, Zenon DEF Drop
      <4>2. q \o <<>> = q /\ q \o <<r>> = Append(q, r)
        <5> HIDE DEF e, r
        <5> QED
          BY <3>1
      <4> QED
        BY <4>1, <4>2, Zenon
    <3>3. q \in Seq(EventSet)
      BY <3>1, AppendQueue, Zenon
    <3>4. Wins(c, q) => Wins(c, inbox[c])
      <4> HIDE DEF e
      <4> QED
        BY <3>1, WinsPushed, Kinds, Zenon
    <3>5. Wins(c, Append(q, r)) => Wins(c, q)
      <4> HIDE DEF q, r
      <4> QED
        BY <3>1, <3>3, WinsPushed DEF Won
    <3> QED
      BY Zenon, <1>1, <2>0, <3>2, <3>4, <3>5
  <2> QED
    BY <2>1, <2>2, Zenon
<1>13. ASSUME NEW b \in Broker, Expire(b) PROVE Goal
  <2>0. op' = op /\ leader' = leader /\ session'[c] = session[c]
    BY <1>13, Zenon DEF Expire, client
  <2> DEFINE e == Event("DELETED")
  <2>1. inbox'[c] = inbox[c] \/ inbox'[c] = Append(inbox[c], e)
    BY <1>13 DEF Expire
  <2>2. e \in EventSet /\ e.type \in WatchEvents
    BY EventInSet, Zenon DEF EventTypes, WatchEvents
  <2> HIDE DEF e
  <2>3. Wins(c, Append(inbox[c], e)) => Wins(c, inbox[c])
    BY <2>2, WinsPushed, Kinds, Zenon
  <2> QED
    BY Zenon, <1>1, <2>0, <2>1, <2>3
<1>14. ASSUME NEW b \in Broker, Crash(b) PROVE Goal
  <2>1. CASE c # b
    BY <1>2, <1>14, <2>1, Zenon DEF Crash
  <2>2. CASE c = b
    BY <1>14, <2>2 DEF Crash, Winner, Wins, Answers
  <2> QED
    BY <2>1, <2>2
<1> QED
  BY <1>3, <1>4, <1>5, <1>6, <1>7, <1>8, <1>9, <1>10, <1>11, <1>12, <1>13, <1>14,
     Zenon DEF Next, Step

LEMMA LockStep == DistinctIds /\ LockInv /\ [Next]_vars => LockInv'
<1> SUFFICES ASSUME DistinctIds, LockInv, [Next]_vars, NEW c \in Broker PROVE HasLock(c)'
  BY PStep, Zenon DEF LockInv
<1> SUFFICES ASSUME session'[c] = "live", Winner(c)' PROVE owner' = c
  BY Zenon DEF HasLock
<1>1. CASE Winner(c) /\ session[c] = "live"
  <2>1. owner = c /\ c # Nil
    BY <1>1, ElectionAssumption, Zenon DEF LockInv, HasLock
  <2> QED
    BY <2>1, OwnerStep, Zenon DEF LockInv, PInv
<1> QED
  BY <1>1, WinStep, Zenon

\* A broker that believes it leads (take_leadership) and still has a session holds
\* the lock: for any number of brokers, crashes and lost connections.  All the
\* brokers need for it is that they drew different numbers.
THEOREM LeaderOwnsTheLock == DistinctIds => (Spec => []LeaderHoldsLock)
<1> SUFFICES ASSUME DistinctIds PROVE Spec => []LeaderHoldsLock
  BY Zenon
<1>1. LockInv => LeaderHoldsLock
  BY Zenon DEF LockInv, HasLock, Winner, LeaderHoldsLock, PInv, TypeInv, TypeOK
<1>2. LockInv /\ [Next]_vars => LockInv'
  BY LockStep, Zenon
<1> QED
  BY <1>1, <1>2, LockInit, PTL DEF Spec

-----------------------------------------------------------------------------
\* The lease: every step of a broker or of the service is one of QotLease, or
\* leaves it alone.

Leaders == {b \in Candidates : leader[b]}

\* Which brokers are candidates and lead changes with one broker at a time.
LEMMA Aside ==
    ASSUME TypeInv, alive' = alive, session' = session,
           NEW b \in Broker, leader' = leader \/ \E v \in BOOLEAN : leader' = [leader EXCEPT ![b] = v]
    PROVE  /\ Candidates' = Candidates
           /\ \/ Leaders' = Leaders
              \/ Leaders' = Leaders \ {b}
              \/ b \in Candidates /\ Leaders' = Leaders \cup {b}
<1>1. Candidates' = Candidates
  BY Zenon DEF Candidates
<1> QED
  BY <1>1 DEF Leaders, Candidates, TypeInv, TypeOK

LEMMA LeaseStep ==
    ASSUME LockInv, LockInv', [Next]_vars
    PROVE  Lease!LeaseNext \/ UNCHANGED <<Candidates, Leaders>>
<1>0. TypeInv /\ TypeInv'
  BY Zenon DEF LockInv, PInv
<1> DEFINE Goal == Lease!LeaseNext \/ UNCHANGED <<Candidates, Leaders>>
<1>1. /\ \A b \in Leaders : b \in Broker /\ owner = b
      /\ \A b \in Leaders' : b \in Broker /\ owner' = b
  BY <1>0, Zenon DEF LockInv, HasLock, Winner, Leaders, Candidates, TypeInv, TypeOK
<1>2. ASSUME NEW b \in Broker, alive' = alive, session' = session,
             leader' = leader \/ \E v \in BOOLEAN : leader' = [leader EXCEPT ![b] = v]
      PROVE  Goal
  <2>1. Candidates' = Candidates
    BY <1>0, <1>2, Aside, Zenon
  <2>2. CASE Leaders' = Leaders
    BY <2>1, <2>2, Zenon
  <2>3. CASE Leaders' = Leaders \ {b} /\ b \in Leaders
    <3>1. Leaders' = {} /\ Leaders # {}
      BY <1>1, <2>3, Zenon
    <3> QED
      BY <2>1, <3>1, Zenon DEF Lease!LeaseNext, Lease!StepDown, Leaders
  <2>4. CASE b \in Candidates /\ Leaders' = Leaders \cup {b} /\ b \notin Leaders
    <3>1. Leaders = {} /\ Leaders' = {b}
      BY <1>1, <2>4
    <3> QED
      BY <2>1, <2>4, <3>1, Zenon DEF Lease!LeaseNext, Lease!Acquire, Leaders
  <2> QED
    BY <1>0, <1>2, <2>2, <2>3, <2>4, Aside
<1>3. CASE UNCHANGED vars
  BY <1>3, Zenon DEF vars, client, service, Candidates, Leaders
<1>4. ASSUME NEW b \in Broker, Campaign(b) \/ Completion(b) \/ master_exists_watcher(b) PROVE Goal
  <2>1. Requests(b) \/ leader' = leader
    BY <1>4, RunRequests, CompletionRequests, Zenon DEF Campaign, master_exists_watcher
  <2>2. alive' = alive /\ session' = session
    BY <1>4, Zenon DEF Campaign, Completion, master_exists_watcher, service
  <2> QED
    BY <1>2, <2>1, <2>2, Zenon DEF Requests
<1>5. ASSUME NEW b \in Broker,
             WaitConnected(b) \/ WaitLeader(b) \/ main_watcher(b) \/ Execute(b) \/ Refuse(b)
      PROVE  Goal
  BY <1>2, <1>5, Zenon DEF WaitConnected, WaitLeader, main_watcher, Execute, Refuse, client,
                           service
<1>6. ASSUME NEW b \in Broker, NEW rc \in Failures, Drop(b, rc) PROVE Goal
  BY <1>2, <1>6, Zenon DEF Drop, client
<1>7. ASSUME NEW b \in Broker, Connect(b) PROVE Goal
  <2>1. alive' = alive /\ leader' = leader /\ b \in alive
    BY <1>7, Zenon DEF Connect, client
  <2>2. CASE session[b] = "live"
    <3>1. session' = session
      BY <1>0, <1>7, <2>2, Zenon DEF Connect, TypeInv, TypeOK
    <3> QED
      BY <1>2, <2>1, <3>1, Zenon
  <2>3. CASE session[b] # "live"
    <3>1. ~ leader[b]
      <4>1. session[b] = "new" /\ Sessions(b)
        BY <1>0, <1>7, <2>3, Zenon DEF Connect, LockInv, PInv, TypeInv, TypeOK
      <4> QED
        BY <4>1, Zenon DEF Sessions, Fresh
    <3>2. b \notin Candidates /\ Candidates' = Candidates \cup {b} /\ Leaders' = Leaders
      BY <1>0, <1>7, <2>1, <2>3, <3>1 DEF Connect, Candidates, Leaders, TypeInv, TypeOK
    <3> QED
      BY <3>2, Zenon DEF Lease!LeaseNext, Lease!Join, Leaders
  <2> QED
    BY <2>2, <2>3, Zenon
<1>8. ASSUME NEW b \in Broker, Expire(b) PROVE Goal
  <2>1. Candidates' = Candidates \ {b} /\ Leaders' = Leaders \ {b}
    BY <1>0, <1>8 DEF Expire, client, Candidates, Leaders, TypeInv, TypeOK
  <2> QED
    BY <2>1, Zenon DEF Lease!LeaseNext, Lease!Leave, Leaders
<1>9. ASSUME NEW b \in Broker, Crash(b) PROVE Goal
  <2>1. Candidates' = Candidates \ {b} /\ Leaders' = Leaders \ {b}
    BY <1>0, <1>9 DEF Crash, Candidates, Leaders, TypeInv, TypeOK
  <2> QED
    BY <2>1 DEF Lease!LeaseNext, Lease!Leave, Leaders
<1> QED
  BY <1>3, <1>4, <1>5, <1>6, <1>7, <1>8, <1>9, Zenon DEF Next, Step

\* The election implements the lease, but for its promise of progress: at most one
\* broker with a session leads, none takes over from another in one step, and
\* leadership ends with the session (LeaseSafe, the safety part of ImplementsLease).
THEOREM ElectionIsALease == DistinctIds => (Spec => Lease!LeaseSafe)
<1> SUFFICES ASSUME DistinctIds PROVE Spec => Lease!LeaseSafe
  BY Zenon
<1>1. Init => Lease!LeaseInit
  BY Zenon DEF Init, Lease!LeaseInit, Candidates
<1>2. LockInv /\ [Next]_vars => LockInv'
  BY LockStep
<1>3. LockInv /\ LockInv' /\ [Next]_vars => [Lease!LeaseNext]_Lease!lease
  BY LeaseStep, Zenon DEF Lease!lease, Leaders
<1> QED
  BY <1>1, <1>2, <1>3, LockInit, PTL DEF Spec, Lease!LeaseSafe

-----------------------------------------------------------------------------
\* The watch.  As long as one broker at a time is cut off, after its first request,
\* and no request ends with an operation timeout.

Calm == ~ Overlap /\ ~ TimesOut /\ ~ DropsAtStart

\* With the flags con, broker b will believe itself connected after the first k
\* events of its queue q.
Up(con, b, q, k) ==
    \/ con[b] /\ \A m \in 1 .. k : q[m].type \notin SessionEvents
    \/ \E j \in 1 .. k : /\ q[j].type = "CONNECTED"
                         /\ \A m \in j + 1 .. k : q[m].type \notin SessionEvents

\* What makes the broker run for master finds it connected.
Clean(con, b, q) ==
    /\ \A i \in News(q) : q[i].type = "DELETED" /\ Up(con, b, q, i - 1)
    /\ \A i \in Answers(q) : q[i].type = "ZNONODE" => Up(con, b, q, i - 1)
    /\ \A i \in 1 .. Len(q) : q[i].type # "EXPIRED"

\* The answer is one that the request can have.
Fits(q, o, w) ==
    \A i \in Answers(q) :
        /\ o = "create" => q[i].type \in {"ZOK", "ZNODEEXISTS", "ZCONNECTIONLOSS"}
        /\ o \in {"get", "exists"} => q[i].type # "ZNODEEXISTS"
        /\ o = "exists" /\ q[i].type = "ZOK" => w # Nil \/ News(q) # {}

\* A broker that has run for master leads, watches, or is about to hear.
Engaged(b) ==
    IF op[b] = "none" THEN leader[b] \/ watch[b] # Nil \/ News(inbox[b]) # {}
    ELSE b \in asked \/ Answers(inbox[b]) # {}

Attends(b) ==
    b \in alive /\ session[b] = "live" =>
        /\ watch[b] # Nil => owner = watch[b]
        /\ Clean(connected, b, inbox[b]) /\ Fits(inbox[b], op[b], watch[b])
        /\ b \in link => Up(connected, b, inbox[b], Len(inbox[b]))
        /\ ~ Fresh(b) => Engaged(b)

\* Until it runs for master, a broker stays connected.
Early(b) ==
    b \in alive /\ pc[b] \in {"start", "campaign"} /\ session[b] = "live" =>
        /\ b \in link
        /\ IF connected[b] THEN inbox[b] = <<>>
           ELSE pc[b] = "start" /\ inbox[b] = <<Event("CONNECTED")>>

OneCut == \A b, c \in Broker :
    session[b] = "live" /\ session[c] = "live" /\ b \notin link /\ c \notin link => b = c

WatchInv == PInv /\ OneCut /\ \A b \in Broker : Early(b) /\ Attends(b)

LEMMA WatchInit == Init => WatchInv
    BY TypeInit, Zenon DEF Init, WatchInv, OneCut, Early, Attends

LEMMA EmptyQueue ==
    ASSUME NEW con, NEW b, NEW o, NEW w
    PROVE  Answers(<<>>) = {} /\ News(<<>>) = {} /\ Fits(<<>>, o, w) /\ Clean(con, b, <<>>)
<1>1. Answers(<<>>) = {} /\ News(<<>>) = {}
  BY DEF Answers, News
<1>2. 1 .. Len(<<>>) = {}
  OBVIOUS
<1> QED
  BY <1>1, <1>2, Zenon DEF Fits, Clean

LEMMA OneAnswer ==
    ASSUME NEW q \in Seq(EventSet), NEW e \in EventSet, Answers(q) = {}, e.type \in Completions
    PROVE  Answers(Append(q, e)) = {Len(q) + 1} /\ Append(q, e)[Len(q) + 1] = e
<1>1. Answers(Append(q, e)) = Answers(q) \cup {Len(q) + 1}
  BY Pushed, Zenon
<1>2. Answers(Append(q, e)) = {Len(q) + 1}
  BY <1>1, Zenon
<1> QED
  BY <1>2, AppendQueue, Zenon

LEMMA UpPushed ==
    ASSUME NEW con, NEW b, NEW q \in Seq(EventSet), NEW e \in EventSet
    PROVE  /\ \A k \in 0 .. Len(q) : Up(con, b, Append(q, e), k) <=> Up(con, b, q, k)
           /\ e.type = "CONNECTED" => Up(con, b, Append(q, e), Len(q) + 1)
           /\ e.type \notin SessionEvents /\ Up(con, b, q, Len(q)) => Up(con, b, Append(q, e), Len(q) + 1)
<1>1. \A k \in 0 .. Len(q) : Up(con, b, Append(q, e), k) <=> Up(con, b, q, k)
  BY AppendQueue DEF Up
<1>2. ASSUME e.type = "CONNECTED" PROVE Up(con, b, Append(q, e), Len(q) + 1)
  BY <1>2, AppendQueue DEF Up
<1>3. ASSUME e.type \notin SessionEvents, Up(con, b, q, Len(q)) PROVE Up(con, b, Append(q, e), Len(q) + 1)
  BY <1>3, AppendQueue DEF Up
<1> QED
  BY <1>1, <1>2, <1>3, Zenon

LEMMA CleanPushed ==
    ASSUME NEW con, NEW b, NEW q \in Seq(EventSet), NEW e \in EventSet, Clean(con, b, q),
           e.type \notin {"EXPIRED", "CHANGED"},
           e.type \in {"DELETED", "ZNONODE"} => Up(con, b, q, Len(q))
    PROVE  Clean(con, b, Append(q, e))
<1>1. \A i \in 1 .. Len(q) + 1 :
        Append(q, e)[i].type # "EXPIRED"
  BY AppendQueue DEF Clean
<1>2. \A i \in News(Append(q, e)) :
        Append(q, e)[i].type = "DELETED" /\ Up(con, b, Append(q, e), i - 1)
  <2>1. \A i \in News(q) : i - 1 \in 0 .. Len(q)
    BY Pushed
  <2>2. (Len(q) + 1) - 1 = Len(q) /\ Len(q) \in 0 .. Len(q)
    OBVIOUS
  <2>3. e.type \in WatchEvents => e.type = "DELETED"
    BY Zenon DEF WatchEvents
  <2>4. ASSUME NEW i \in News(q)
        PROVE  Append(q, e)[i].type = "DELETED" /\ Up(con, b, Append(q, e), i - 1)
    <3>1. Append(q, e)[i] = q[i] /\ i - 1 \in 0 .. Len(q)
      BY <2>1, Pushed
    <3>2. q[i].type = "DELETED" /\ Up(con, b, q, i - 1)
      BY Zenon DEF Clean
    <3> QED
      BY Zenon, <3>1, <3>2, UpPushed
  <2>5. e.type \in WatchEvents => Up(con, b, Append(q, e), Len(q))
    BY <2>2, <2>3, UpPushed, Zenon
  <2>6. \A i \in News(Append(q, e)) : i \in News(q) \/ (i = Len(q) + 1 /\ e.type \in WatchEvents)
    BY Pushed
  <2>7. ASSUME e.type \in WatchEvents
        PROVE  /\ Append(q, e)[Len(q) + 1].type = "DELETED"
               /\ Up(con, b, Append(q, e), (Len(q) + 1) - 1)
    BY <2>2, <2>3, <2>5, <2>7, AppendQueue, Zenon
  <2> QED
    BY Zenon, <2>4, <2>6, <2>7
<1>3. \A i \in Answers(Append(q, e)) :
        Append(q, e)[i].type = "ZNONODE" => Up(con, b, Append(q, e), i - 1)
  <2>1. \A i \in Answers(q) : i - 1 \in 0 .. Len(q)
    BY Pushed
  <2>2. (Len(q) + 1) - 1 = Len(q) /\ Len(q) \in 0 .. Len(q)
    OBVIOUS
  <2> QED
    BY <2>1, <2>2, Pushed, UpPushed DEF Clean
<1> QED
  BY <1>1, <1>2, <1>3, AppendQueue, Zenon DEF Clean

LEMMA UpPopped ==
    ASSUME NEW con, NEW b, NEW q \in Seq(EventSet), q # <<>>,
           NEW new, new[b] <=> IF Head(q).type \in SessionEvents THEN Head(q).type = "CONNECTED"
                               ELSE con[b],
           NEW k \in 0 .. Len(q) - 1, Up(con, b, q, k + 1)
    PROVE  Up(new, b, Tail(q), k)
<1>0. Head(q) = q[1] /\ \A m \in 1 .. k : Tail(q)[m] = q[m + 1]
  BY TailQueue
<1>1. CASE con[b] /\ \A m \in 1 .. k + 1 : q[m].type \notin SessionEvents
  <2>1. new[b]
    BY <1>0, <1>1
  <2>2. \A m \in 1 .. k : Tail(q)[m].type \notin SessionEvents
    BY <1>0, <1>1
  <2> QED
    BY <2>1, <2>2, Zenon DEF Up
<1>2. ASSUME NEW j \in 1 .. k + 1, q[j].type = "CONNECTED",
             \A m \in j + 1 .. k + 1 : q[m].type \notin SessionEvents
      PROVE  Up(new, b, Tail(q), k)
  <2>1. CASE j = 1
    <3>1. new[b]
      BY <1>0, <1>2, <2>1, Zenon DEF SessionEvents
    <3>2. \A m \in 1 .. k : Tail(q)[m].type \notin SessionEvents
      BY <1>0, <1>2, <2>1
    <3> QED
      BY <3>1, <3>2, Zenon DEF Up
  <2>2. CASE j # 1
    <3>1. j - 1 \in 1 .. k /\ Tail(q)[j - 1].type = "CONNECTED"
      BY <1>0, <1>2, <2>2
    <3>2. \A m \in (j - 1) + 1 .. k : Tail(q)[m].type \notin SessionEvents
      BY <1>0, <1>2
    <3> QED
      BY <3>1, <3>2, Zenon DEF Up
  <2> QED
    BY <2>1, <2>2, Zenon
<1> QED
  BY <1>1, <1>2, Zenon DEF Up

LEMMA CleanPopped ==
    ASSUME NEW con, NEW b, NEW q \in Seq(EventSet), q # <<>>, Clean(con, b, q),
           NEW new, new[b] <=> IF Head(q).type \in SessionEvents THEN Head(q).type = "CONNECTED"
                               ELSE con[b]
    PROVE  Clean(new, b, Tail(q)) /\ Head(q).type \notin {"EXPIRED", "CHANGED"}
<1>1. \A i \in 1 .. Len(q) : q[i].type # "EXPIRED"
  BY Zenon DEF Clean
<1>2. Head(q) = q[1] /\ Len(q) >= 1 /\ Len(q) \in Nat
  BY TailQueue
<1>3. Head(q).type \notin {"EXPIRED", "CHANGED"}
  BY <1>1, <1>2, Popped DEF Clean, WatchEvents
<1>4. \A i \in News(Tail(q)) : Tail(q)[i].type = "DELETED" /\ Up(new, b, Tail(q), i - 1)
  <2> SUFFICES ASSUME NEW i \in News(Tail(q))
               PROVE  Tail(q)[i].type = "DELETED" /\ Up(new, b, Tail(q), i - 1)
    BY Zenon
  <2>1. i \in 1 .. Len(q) - 1 /\ i + 1 \in News(q) /\ Tail(q)[i] = q[i + 1]
    BY Popped, Zenon
  <2>2. (i + 1) - 1 = (i - 1) + 1 /\ i - 1 \in 0 .. Len(q) - 1
    BY <1>2, <2>1
  <2>3. Up(con, b, q, (i - 1) + 1)
    BY <2>1, <2>2, Zenon DEF Clean
  <2> QED
    BY <2>1, <2>2, <2>3, UpPopped, Zenon DEF Clean
<1>5. \A i \in Answers(Tail(q)) : Tail(q)[i].type = "ZNONODE" => Up(new, b, Tail(q), i - 1)
  <2> SUFFICES ASSUME NEW i \in Answers(Tail(q)), Tail(q)[i].type = "ZNONODE"
               PROVE  Up(new, b, Tail(q), i - 1)
    BY Zenon
  <2>1. i \in 1 .. Len(q) - 1 /\ i + 1 \in Answers(q) /\ Tail(q)[i] = q[i + 1]
    BY Popped, Zenon
  <2>2. (i + 1) - 1 = (i - 1) + 1 /\ i - 1 \in 0 .. Len(q) - 1
    BY <1>2, <2>1
  <2>3. Up(con, b, q, (i - 1) + 1)
    BY <2>1, <2>2, Zenon DEF Clean
  <2> QED
    BY Zenon, <2>2, <2>3, UpPopped
<1>6. \A i \in 1 .. Len(Tail(q)) : Tail(q)[i].type # "EXPIRED"
  BY <1>1, <1>2, TailQueue
<1> QED
  BY <1>3, <1>4, <1>5, <1>6, Zenon DEF Clean

\* A broker that is told to run for master is connected then.
LEMMA CleanHead ==
    ASSUME NEW con, NEW b, NEW q \in Seq(EventSet), q # <<>>, Clean(con, b, q),
           Head(q).type \in WatchEvents \cup {"ZNONODE"}
    PROVE  con[b]
<1>1. Head(q) = q[1] /\ Up(con, b, q, 0)
  BY Popped, TailQueue DEF Clean, Completions
<1> QED
  BY <1>1 DEF Up

LEMMA FitsPushed ==
    ASSUME NEW q \in Seq(EventSet), NEW e \in EventSet, e.type \notin Completions,
           NEW o, NEW w, Fits(q, o, w), NEW w2, w2 = w \/ e.type \in WatchEvents
    PROVE  Fits(Append(q, e), o, w2)
<1>1. Answers(Append(q, e)) = Answers(q) \cup {} /\ \A i \in Answers(q) : Append(q, e)[i] = q[i]
  BY Zenon, Pushed
<1>2. w # Nil \/ News(q) # {} => w2 # Nil \/ News(Append(q, e)) # {}
  BY Pushed
<1> QED
  BY <1>1, <1>2, Zenon DEF Fits

LEMMA Shift ==
    ASSUME NEW q \in Seq(EventSet), q # <<>>
    PROVE  /\ Head(q).type \notin Completions /\ Answers(q) # {} => Answers(Tail(q)) # {}
           /\ Head(q).type \notin WatchEvents /\ News(q) # {} => News(Tail(q)) # {}
<1>1. ASSUME NEW i \in Answers(q) \cup News(q), i # 1
      PROVE  i - 1 \in 1 .. Len(q) - 1 /\ (i - 1) + 1 = i
  BY <1>1, Popped
<1>2. ASSUME NEW i \in Answers(q), Head(q).type \notin Completions PROVE i - 1 \in Answers(Tail(q))
  BY <1>1, <1>2, Popped
<1>3. ASSUME NEW i \in News(q), Head(q).type \notin WatchEvents PROVE i - 1 \in News(Tail(q))
  BY <1>1, <1>3, Popped
<1> QED
  BY <1>2, <1>3, Zenon

LEMMA FitsPopped ==
    ASSUME NEW q \in Seq(EventSet), q # <<>>, Head(q).type \in SessionEvents,
           NEW o, NEW w, Fits(q, o, w)
    PROVE  Fits(Tail(q), o, w)
<1>1. \A i \in Answers(Tail(q)) : i + 1 \in Answers(q) /\ Tail(q)[i] = q[i + 1]
  BY Popped, Zenon
<1>2. News(q) # {} => News(Tail(q)) # {}
  BY Shift, Kinds, Zenon
<1> QED
  BY <1>1, <1>2, Zenon DEF Fits

\* A broker that is not touched, apart from changes of the lock that it does not watch.
LEMMA Unmoved ==
    ASSUME NEW c \in Broker, Early(c) /\ Attends(c),
           c \in alive' => c \in alive, pc'[c] = pc[c], session'[c] = "live" => session[c] = "live",
           c \in link' <=> c \in link, connected'[c] = connected[c], inbox'[c] = inbox[c],
           op'[c] = op[c], leader'[c] = leader[c], c \in asked' <=> c \in asked,
           watch'[c] = watch[c],
           c \in alive /\ session[c] = "live" => owner' = owner \/ watch[c] = Nil
    PROVE  Early(c)' /\ Attends(c)'
<1>1. Early(c)'
  BY Zenon DEF Early
<1>2. SUFFICES ASSUME c \in alive', session'[c] = "live" PROVE Attends(c)'
  BY <1>1, Zenon DEF Attends
<1>3. Clean(connected, c, inbox[c]) => Clean(connected', c, inbox[c])
  BY Zenon DEF Clean, Up
<1>4. Up(connected, c, inbox[c], Len(inbox[c])) => Up(connected', c, inbox[c], Len(inbox[c]))
  BY Zenon DEF Up
<1>5. Fresh(c)' <=> Fresh(c)
  BY Zenon DEF Fresh
<1>6. Engaged(c)' <=> Engaged(c)
  BY Zenon DEF Engaged
<1> QED
  BY <1>1, <1>2, <1>3, <1>4, <1>5, <1>6, Zenon DEF Attends

LEMMA CutStep ==
    ASSUME Calm, WatchInv, [Next]_vars
    PROVE  OneCut'
<1>0. TypeInv /\ OneCut
  BY Zenon DEF WatchInv, PInv
<1> USE <1>0 DEF TypeInv, TypeOK, OneCut
<1>1. ASSUME session' = session, link' = link PROVE OneCut'
  BY <1>1, Zenon
<1>2. CASE UNCHANGED vars
  BY <1>1, <1>2, Zenon DEF vars, service
<1>3. ASSUME NEW b \in Broker, Step(b), ~ Connect(b) PROVE OneCut'
  BY <1>1, <1>3, Zenon DEF Step, WaitConnected, Campaign, WaitLeader, main_watcher,
                           Completion, master_exists_watcher, Execute, Refuse, service
<1>4. ASSUME NEW b \in Broker, Connect(b) PROVE OneCut'
  BY <1>4, Zenon DEF Connect
<1>5. ASSUME NEW b \in Broker, NEW rc \in Failures, Drop(b, rc) PROVE OneCut'
  BY <1>5, Zenon DEF Drop, MayFail, Calm
<1>6. ASSUME NEW b \in Broker, Expire(b) PROVE OneCut'
  BY <1>6, Zenon DEF Expire
<1>7. ASSUME NEW b \in Broker, Crash(b) PROVE OneCut'
  BY <1>7, Zenon DEF Crash, MayFail, Calm
<1> QED
  BY <1>2, <1>3, <1>4, <1>5, <1>6, <1>7, Zenon DEF Next

LEMMA AttendStep ==
    ASSUME Calm, WatchInv, [Next]_vars, NEW c \in Broker
    PROVE  Early(c)' /\ Attends(c)'
<1>0. /\ PInv /\ TypeInv /\ Protocol(c) /\ Sessions(c) /\ inbox[c] \in Seq(EventSet)
      /\ Early(c) /\ Attends(c) /\ c # Nil
  BY ElectionAssumption, Zenon DEF WatchInv, PInv, TypeInv
<1> USE <1>0 DEF TypeInv, TypeOK
<1> DEFINE Goal == Early(c)' /\ Attends(c)'
<1>1. CASE UNCHANGED vars
  BY <1>1, Unmoved, Zenon DEF vars, client, service
<1>2. ASSUME NEW b \in Broker, WaitConnected(b) \/ WaitLeader(b) PROVE Goal
  <2>1. CASE c # b
    BY <1>2, <2>1, Unmoved, Zenon DEF WaitConnected, WaitLeader, service
  <2>2. CASE c = b
    <3>1. UNCHANGED <<alive, connected, leader, op, asked, inbox, session, link, owner, watch>>
      BY <1>2, Zenon DEF WaitConnected, WaitLeader, service
    <3>2. /\ pc'[c] \in {"start", "campaign"} => pc[c] = "start" /\ connected[c]
          /\ Fresh(c)' <=> Fresh(c)
      BY <1>2, <2>2, Zenon DEF WaitConnected, WaitLeader, Fresh
    <3>3. Early(c)'
      BY <3>1, <3>2, Zenon DEF Early
    <3>4. Attends(c)'
      BY <3>1, <3>2, Zenon DEF Attends, Engaged
    <3> QED
      BY <3>3, <3>4, Zenon
  <2> QED
    BY <2>1, <2>2, Zenon
<1>3. ASSUME NEW b \in Broker, Campaign(b) PROVE Goal
  <2>1. CASE c # b
    BY <1>3, <2>1, Unmoved, Zenon DEF Campaign, run_for_master, Submit, Nothing, service
  <2>2. CASE c = b
    <3>0. UNCHANGED <<alive, connected, inbox, session, link, owner, watch>> /\ pc'[c] = "standby"
      BY <1>3, <2>2, Zenon DEF Campaign, service
    <3>1. Early(c)'
      BY <3>0, Zenon DEF Early
    <3>2. SUFFICES ASSUME c \in alive, session[c] = "live" PROVE Attends(c)'
      BY <3>0, <3>1, Zenon DEF Attends
    <3>3. connected[c] /\ inbox[c] = <<>>
      BY <1>3, <2>2, <3>2, Zenon DEF Campaign, Early
    <3>4. c \in asked' /\ op'[c] = "create"
      BY <1>3, <2>2, <3>3, Zenon DEF Campaign, run_for_master, Submit
    <3>5. Fits(<<>>, op'[c], watch[c])
      BY EmptyQueue, Zenon
    <3> QED
      BY <3>0, <3>2, <3>3, <3>4, <3>5, Zenon DEF Attends, Engaged
  <2> QED
    BY <2>1, <2>2
<1>4. ASSUME NEW b \in Broker, main_watcher(b) PROVE Goal
  <2>0. /\ b \in alive /\ inbox[b] # <<>> /\ Head(inbox[b]).type \in SessionEvents
        /\ UNCHANGED <<alive, pc, leader, session, link, owner, watch>>
    BY <1>4, Zenon DEF main_watcher, Next_event, service
  <2>1. CASE c # b
    BY <1>4, <2>1, Unmoved, Zenon DEF main_watcher, zookeeper_close, service
  <2>2. CASE c = b
    <3>1. SUFFICES ASSUME session[c] = "live" PROVE Goal
      BY <2>0, Zenon DEF Early, Attends
    <3>2. Clean(connected, c, inbox[c]) /\ Fits(inbox[c], op[c], watch[c])
      BY <2>0, <2>2, <3>1, Zenon DEF Attends
    <3>3. connected'[c] <=> IF Head(inbox[c]).type \in SessionEvents THEN Head(inbox[c]).type = "CONNECTED"
                            ELSE connected[c]
      BY <1>4, <2>0, <2>2, Zenon DEF main_watcher
    <3>4. Clean(connected', c, Tail(inbox[c])) /\ Head(inbox[c]).type # "EXPIRED"
      BY Zenon, <2>0, <2>2, <3>2, <3>3, CleanPopped
    <3>5. inbox'[c] = Tail(inbox[c]) /\ op' = op /\ asked' = asked
      BY <1>4, <2>2, <3>4, Zenon DEF main_watcher
    <3>6. Fits(Tail(inbox[c]), op[c], watch[c])
      BY Zenon, <2>0, <2>2, <3>2, FitsPopped
    <3>7. c \in link => Up(connected', c, Tail(inbox[c]), Len(Tail(inbox[c])))
      <4>1. Len(Tail(inbox[c])) \in 0 .. Len(inbox[c]) - 1 /\ Len(Tail(inbox[c])) + 1 = Len(inbox[c])
        BY <2>0, <2>2, TailQueue
      <4>2. c \in link => Up(connected, c, inbox[c], Len(Tail(inbox[c])) + 1)
        BY <2>0, <2>2, <3>1, <4>1, Zenon DEF Attends
      <4> QED
        BY Zenon, <2>0, <2>2, <3>3, <4>1, <4>2, UpPopped
    <3>8. ~ Fresh(c) => Engaged(c)'
      <4>1. Answers(inbox[c]) # {} => Answers(Tail(inbox[c])) # {}
        BY Zenon, <2>0, <2>2, Shift, Kinds
      <4>2. News(inbox[c]) # {} => News(Tail(inbox[c])) # {}
        BY Zenon, <2>0, <2>2, Shift, Kinds
      <4> QED
        BY <2>0, <2>2, <3>1, <3>5, <4>1, <4>2, Zenon DEF Attends, Engaged
    <3>9. Early(c)'
      <4>1. inbox[c] = <<Event("CONNECTED")>> => Tail(inbox[c]) = <<>> /\ Head(inbox[c]).type = "CONNECTED"
        BY DEF Event
      <4> QED
        BY <2>0, <2>2, <3>3, <3>5, <4>1, Zenon DEF Early
    <3> QED
      BY <2>0, <3>4, <3>5, <3>6, <3>7, <3>8, <3>9, Zenon DEF Attends, Fresh
  <2> QED
    BY <2>1, <2>2
<1>5. ASSUME NEW b \in Broker, Completion(b) \/ master_exists_watcher(b) PROVE Goal
  <2>0. /\ b \in alive /\ inbox[b] # <<>> /\ Head(inbox[b]).type \in Completions \cup WatchEvents
        /\ UNCHANGED <<alive, pc, connected, session, link, owner, watch>>
        /\ inbox' = [inbox EXCEPT ![b] = Tail(@)]
        /\ Requests(b) \/ UNCHANGED <<op, asked, leader>>
    BY Zenon, <1>5, CompletionRequests, RunRequests
       DEF Completion, master_exists_watcher, Next_event, service
  <2>1. CASE c # b
    <3>1. /\ op'[c] = op[c] /\ (c \in asked' <=> c \in asked)
          /\ leader'[c] = leader[c] /\ inbox'[c] = inbox[c]
      BY <2>0, <2>1, Zenon DEF Requests
    <3> QED
      BY <2>0, <3>1, Unmoved, Zenon
  <2>2. CASE c = b
    <3>1. SUFFICES ASSUME session[c] = "live" PROVE Goal
      BY <2>0, Zenon DEF Early, Attends
    <3>2. Clean(connected, c, inbox[c]) /\ Fits(inbox[c], op[c], watch[c])
      BY <2>0, <2>2, <3>1, Zenon DEF Attends
    <3>3. Head(inbox[c]).type \notin SessionEvents /\ inbox'[c] = Tail(inbox[c])
      BY Zenon, <2>0, <2>2, Kinds
    <3>4. Clean(connected, c, Tail(inbox[c])) /\ Head(inbox[c]).type \notin {"EXPIRED", "CHANGED"}
      BY Zenon, <2>0, <2>2, <3>2, <3>3, CleanPopped
    <3>5. Answers(Tail(inbox[c])) = {}
      BY <2>0, <2>2, HandedLast, Zenon DEF Protocol
    <3>6. Fits(Tail(inbox[c]), op'[c], watch[c])
      BY <3>5, Zenon DEF Fits
    <3>7. c \in link => Up(connected, c, Tail(inbox[c]), Len(Tail(inbox[c])))
      <4>1. Len(Tail(inbox[c])) \in 0 .. Len(inbox[c]) - 1 /\ Len(Tail(inbox[c])) + 1 = Len(inbox[c])
        BY <2>0, <2>2, TailQueue
      <4>2. c \in link => Up(connected, c, inbox[c], Len(Tail(inbox[c])) + 1)
        BY <2>0, <2>2, <3>1, <4>1, Zenon DEF Attends
      <4> QED
        BY Zenon, <2>0, <2>2, <3>3, <4>1, <4>2, UpPopped
    <3>8. ~ Fresh(c)
      BY <2>0, <2>2, Popped, Zenon DEF Sessions, Protocol, Orderly
    <3>9. Engaged(c)'
      <4>0. ASSUME Head(inbox[c]).type \in Completions
            PROVE  /\ op[c] = "create" =>
                        Head(inbox[c]).type \in {"ZOK", "ZNODEEXISTS", "ZCONNECTIONLOSS"}
                   /\ op[c] \in {"get", "exists"} => Head(inbox[c]).type # "ZNODEEXISTS"
                   /\ op[c] = "exists" /\ Head(inbox[c]).type = "ZOK" =>
                        watch[c] # Nil \/ News(Tail(inbox[c])) # {}
                   /\ Head(inbox[c]).type = "ZNONODE" => connected[c]
        <5>1. Head(inbox[c]) = inbox[c][1] /\ 1 \in Answers(inbox[c])
          BY Zenon, <2>0, <2>2, <4>0, Popped, TailQueue
        <5>2. News(inbox[c]) # {} => News(Tail(inbox[c])) # {}
          BY Zenon, <2>0, <2>2, <4>0, Shift, Kinds
        <5>3. Head(inbox[c]).type = "ZNONODE" => connected[c]
          BY <2>0, <2>2, <3>2, CleanHead, Zenon
        <5> QED
          BY <3>2, <5>1, <5>2, <5>3, Zenon DEF Fits
      <4>1. CASE Completion(c) /\ op[c] = "create"
        BY <4>0, <4>1 DEF Completion, Next_event, master_create_completion, take_leadership,
                          master_exists, check_master, Submit, Engaged
      <4>2. CASE Completion(c) /\ op[c] = "get"
        BY <4>0, <4>2 DEF Completion, Next_event, master_check_completion, take_leadership,
                          master_exists, check_master, run_for_master, Submit, Engaged,
                          Completions
      <4>3. CASE Completion(c) /\ op[c] = "exists"
        <5>1. CASE Head(inbox[c]).type = "ZOK"
          <6>1. Nothing(c) /\ Head(inbox[c]).type \in Completions
            BY <4>3, <5>1, Zenon DEF Completion, Next_event, master_exists_completion
          <6>2. op'[c] = "none" /\ watch' = watch /\ (watch[c] # Nil \/ News(inbox'[c]) # {})
            BY <2>0, <3>3, <4>0, <4>3, <5>1, <6>1, Zenon DEF Nothing
          <6> QED
            BY <6>2, Zenon DEF Engaged
        <5>2. CASE Head(inbox[c]).type # "ZOK"
          BY <4>0, <4>3, <5>2, Zenon DEF Completion, Next_event, master_exists_completion,
                                         master_exists, run_for_master, Submit, Engaged,
                                         Completions
        <5> QED
          BY <5>1, <5>2, Zenon
      <4>4. CASE master_exists_watcher(c)
        <5>1. Head(inbox[c]).type = "DELETED"
          BY <3>4, <4>4, Zenon DEF master_exists_watcher, Next_event, WatchEvents
        <5>2. connected[c]
          BY <2>0, <2>2, <3>2, <5>1, CleanHead, Zenon DEF WatchEvents
        <5> QED
          BY <4>4, <5>1, <5>2, Zenon DEF master_exists_watcher, run_for_master, Submit, Engaged
      <4> QED
        BY <1>5, <2>2, <4>1, <4>2, <4>3, <4>4, Zenon DEF Completion
    <3>10. Early(c)'
      BY <2>0, <3>8, Zenon DEF Early, Fresh
    <3> QED
      BY <2>0, <3>3, <3>4, <3>6, <3>7, <3>9, <3>10, Zenon DEF Attends, Fresh
  <2> QED
    BY <2>1, <2>2
<1>6. ASSUME NEW b \in Broker, Execute(b) PROVE Goal
  <2>0. /\ b \in asked /\ b \in link /\ UNCHANGED <<alive, pc, connected, leader, op, session, link>>
        /\ asked' = asked \ {b} /\ (owner' = owner \/ owner = Nil)
    BY <1>6, Zenon DEF Execute, Perform, client
  <2>1. CASE c # b
    <3>1. c \in alive /\ session[c] = "live" => owner' = owner \/ watch[c] = Nil
      BY <2>0, Zenon DEF Attends
    <3> QED
      BY <1>6, <2>0, <2>1, <3>1, Unmoved, Zenon DEF Execute, Perform
  <2>2. CASE c = b
    <3>1. session[c] = "live" /\ c \in alive /\ ~ Fresh(c) /\ Answers(inbox[c]) = {} /\ watch[c] = Nil
          /\ News(inbox[c]) = {} /\ op[c] \in {"create", "get", "exists"}
      BY <2>0, <2>2, Zenon DEF Sessions, Protocol, Orderly
    <3>2. /\ Clean(connected, c, inbox[c])
          /\ Up(connected, c, inbox[c], Len(inbox[c]))
      BY <2>0, <2>2, <3>1, Zenon DEF Attends
    <3>3. Reply(c) \in EventSet /\ Reply(c).type \in Completions
      BY <2>0, <2>2, ReplyInSet, Zenon
    <3>4. inbox'[c] = Append(inbox[c], Reply(c)) /\ (watch'[c] # Nil => owner' = watch'[c])
      BY <1>6, <2>2, <3>1, Zenon DEF Execute, Perform
    <3>5. Clean(connected, c, Append(inbox[c], Reply(c)))
      <4>1. Reply(c).type \notin {"EXPIRED", "CHANGED"}
        BY <3>3, Zenon DEF Completions
      <4> QED
        BY <3>2, <3>3, <4>1, CleanPushed, Zenon
    <3>6. Up(connected, c, inbox'[c], Len(inbox'[c]))
      <4>1. Reply(c).type \notin SessionEvents
        BY <3>3, Kinds, Zenon
      <4>2. Up(connected, c, Append(inbox[c], Reply(c)), Len(inbox[c]) + 1)
        BY <3>2, <3>3, <4>1, UpPushed, Zenon
      <4>3. Len(Append(inbox[c], Reply(c))) = Len(inbox[c]) + 1
        BY <3>3, AppendQueue, Zenon
      <4> QED
        BY <3>4, <4>2, <4>3, Zenon
    <3>7. Answers(inbox'[c]) = {Len(inbox[c]) + 1} /\ inbox'[c][Len(inbox[c]) + 1] = Reply(c)
      <4>1. /\ Answers(Append(inbox[c], Reply(c))) = {Len(inbox[c]) + 1}
            /\ Append(inbox[c], Reply(c))[Len(inbox[c]) + 1] = Reply(c)
        BY <3>1, <3>3, OneAnswer, Zenon
      <4> QED
        BY <3>4, <4>1, Zenon
    <3>8. Fits(inbox'[c], op[c], watch'[c])
      <4>1. /\ op[c] = "create" => Reply(c).type \in {"ZOK", "ZNODEEXISTS", "ZCONNECTIONLOSS"}
            /\ op[c] \in {"get", "exists"} => Reply(c).type # "ZNODEEXISTS"
        BY Zenon DEF Reply, Event
      <4>2. op[c] = "exists" /\ Reply(c).type = "ZOK" => watch'[c] # Nil
        BY <1>6, <2>2, ElectionAssumption, Zenon DEF Execute, Perform, Reply, Event
      <4> QED
        BY <3>7, <4>1, <4>2, Zenon DEF Fits
    <3>9. Early(c)'
      BY <2>0, <3>1, Zenon DEF Early, Fresh
    <3>10. Engaged(c)'
      BY <2>0, <3>1, <3>7, Zenon DEF Engaged
    <3> QED
      BY <2>0, <3>4, <3>5, <3>6, <3>8, <3>9, <3>10, Zenon DEF Attends
  <2> QED
    BY <2>1, <2>2
<1>7. ASSUME NEW b \in Broker, Connect(b) PROVE Goal
  <2>0. UNCHANGED <<alive, pc, connected, leader, op, asked, owner>> /\ b \in alive /\ b \notin link
    BY <1>7, Zenon DEF Connect, client
  <2>1. CASE c # b
    BY <1>7, <2>0, <2>1, Unmoved, Zenon DEF Connect
  <2>2. CASE c = b
    <3> DEFINE e == Event("CONNECTED")
    <3>1. e \in EventSet /\ e.type = "CONNECTED"
      BY EventInSet, Zenon DEF EventTypes, SessionEvents
    <3>2. \/ session[c] = "live"
          \/ session[c] = "new" /\ inbox[c] = <<>> /\ ~ connected[c] /\ pc[c] = "start"
      BY <1>7, <2>0, <2>2, Zenon DEF Connect, Sessions
    <3>3. /\ watch[c] # Nil => owner = watch[c]
          /\ Clean(connected, c, inbox[c]) /\ Fits(inbox[c], op[c], watch[c])
          /\ ~ Fresh(c) => Engaged(c)
      <4>1. CASE session[c] = "live"
        BY <2>0, <2>2, <4>1, Zenon DEF Attends
      <4>2. CASE session[c] = "new"
        <5>1. inbox[c] = <<>> /\ watch[c] = Nil /\ Fresh(c)
          BY <3>2, <4>2, Zenon DEF Sessions, Fresh
        <5>2. Fits(<<>>, op[c], watch[c]) /\ Clean(connected, c, <<>>)
          BY EmptyQueue, Zenon
        <5> QED
          BY <5>1, <5>2, Zenon
      <4> QED
        BY <3>2, <4>1, <4>2, Zenon
    <3>4. inbox'[c] = Append(inbox[c], e) /\ watch' = watch /\ session'[c] = "live"
      <4>1. inbox'[c] = inbox[c] \o <<e>> \o <<>> /\ watch' = watch /\ session'[c] = "live"
        BY <1>7, <2>2, <3>3, Zenon DEF Connect
      <4>2. inbox[c] \o <<e>> \o <<>> = Append(inbox[c], e)
        <5> HIDE DEF e
        <5> QED
          BY <3>1
      <4> QED
        BY Zenon, <4>1, <4>2
    <3>5. Early(c)'
      <4>1. CASE session[c] = "live"
        BY <2>0, <2>2, <4>1, Zenon DEF Early
      <4>2. CASE session[c] = "new"
        <5>1. Append(<<>>, e) = <<e>>
          OBVIOUS
        <5>2. c \in link' /\ inbox'[c] = <<e>> /\ ~ connected'[c] /\ pc'[c] = "start"
          BY <1>7, <2>0, <2>2, <3>2, <3>4, <4>2, <5>1, Zenon DEF Connect
        <5> QED
          BY <5>2, Zenon DEF Early
      <4> QED
        BY <3>2, <4>1, <4>2, Zenon
    <3> HIDE DEF e
    <3>6. Clean(connected, c, Append(inbox[c], e))
      BY Zenon, <3>1, <3>3, CleanPushed
    <3>7. Fits(Append(inbox[c], e), op[c], watch[c])
      BY <3>1, <3>3, FitsPushed, Zenon DEF Completions
    <3>8. Up(connected, c, Append(inbox[c], e), Len(Append(inbox[c], e)))
      <4>1. Len(Append(inbox[c], e)) = Len(inbox[c]) + 1
        BY <3>1, AppendQueue, Zenon
      <4>2. Up(connected, c, Append(inbox[c], e), Len(inbox[c]) + 1)
        BY Zenon, <3>1, UpPushed
      <4> QED
        BY <4>1, <4>2, Zenon
    <3>9. ~ Fresh(c) => Engaged(c)'
      <4>1. e.type \in SessionEvents
        BY <3>1, Zenon DEF SessionEvents
      <4>2. Answers(Append(inbox[c], e)) = Answers(inbox[c]) /\ News(Append(inbox[c], e)) = News(inbox[c])
        BY <3>1, <4>1, PushSession, Zenon DEF Protocol
      <4> QED
        BY <2>0, <3>3, <3>4, <4>2, Zenon DEF Engaged
    <3> QED
      BY <2>0, <3>3, <3>4, <3>5, <3>6, <3>7, <3>8, <3>9, Zenon DEF Attends, Fresh
  <2> QED
    BY <2>1, <2>2
<1>8. ASSUME NEW b \in Broker, Refuse(b) PROVE Goal
  <2>1. CASE c # b
    BY <1>8, <2>1, Unmoved, Zenon DEF Refuse, client, service
  <2>2. CASE c = b
    BY <1>8, <2>2, Zenon DEF Refuse, service, Early, Attends
  <2> QED
    BY <2>1, <2>2
<1>9. ASSUME NEW b \in Broker, NEW rc \in Failures, Drop(b, rc) PROVE Goal
  <2>0. /\ b \in link /\ UNCHANGED <<alive, pc, connected, leader, op, session, watch>>
        /\ asked' = asked \ {b} /\ link' = link \ {b}
        /\ owner' = owner \/ (owner = Nil /\ b \in asked)
        /\ pc[b] \notin {"start", "campaign"} /\ rc = "ZCONNECTIONLOSS"
    BY <1>9, Zenon DEF Drop, client, Calm, Failures
  <2>1. CASE c # b
    <3>1. c \in alive /\ session[c] = "live" => owner' = owner \/ watch[c] = Nil
      BY <2>0, Zenon DEF Attends
    <3> QED
      BY <1>9, <2>0, <2>1, <3>1, Unmoved, Zenon DEF Drop
  <2>2. CASE c = b
    <3> DEFINE e == Event("CONNECTING")
               q == Append(inbox[c], e)
               r == Event(rc)
    <3>1. /\ e \in EventSet /\ e.type = "CONNECTING"
          /\ r \in EventSet /\ r.type = "ZCONNECTIONLOSS"
      BY <2>0, EventInSet, Zenon DEF EventTypes, SessionEvents, Completions
    <3>2. session[c] = "live" /\ c \in alive /\ (c \in asked => watch[c] = Nil /\ Answers(inbox[c]) = {})
      BY <2>0, <2>2, Zenon DEF Sessions, Protocol, Orderly
    <3>3. /\ watch[c] # Nil => owner' = watch[c]
          /\ Clean(connected, c, inbox[c]) /\ Fits(inbox[c], op[c], watch[c])
          /\ ~ Fresh(c) => Engaged(c)
      BY <2>0, <2>2, <3>2, Zenon DEF Attends
    <3>4. IF c \in asked THEN inbox'[c] = Append(q, r) ELSE inbox'[c] = q
      <4>1. IF c \in asked THEN inbox'[c] = q \o <<r>> ELSE inbox'[c] = q \o <<>>
        BY <1>9, <2>2, Zenon DEF Drop
      <4>2. q \o <<>> = q /\ q \o <<r>> = Append(q, r)
        <5> HIDE DEF e, r
        <5> QED
          BY <3>1
      <4> QED
        BY <4>1, <4>2, Zenon
    <3> HIDE DEF e, r
    <3>5. /\ q \in Seq(EventSet) /\ Clean(connected, c, q) /\ Fits(q, op[c], watch[c])
          /\ Answers(q) = Answers(inbox[c]) /\ News(q) = News(inbox[c])
      <4>1. e.type \in SessionEvents /\ e.type \notin Completions
        BY <3>1, Zenon DEF SessionEvents, Completions
      <4>2. q \in Seq(EventSet)
        BY <3>1, AppendQueue, Zenon
      <4>3. Clean(connected, c, q)
        BY Zenon, <3>1, <3>3, CleanPushed
      <4>4. Fits(q, op[c], watch[c])
        BY <3>1, <3>3, <4>1, FitsPushed, Zenon
      <4>5. Answers(q) = Answers(inbox[c]) /\ News(q) = News(inbox[c])
        BY <3>1, <4>1, PushSession, Zenon DEF Protocol
      <4> QED
        BY <4>2, <4>3, <4>4, <4>5, Zenon
    <3> HIDE DEF q
    <3>6. Early(c)' /\ c \notin link'
      BY <2>0, <2>2, Zenon DEF Early
    <3>7. CASE c \in asked
      <4>1. Clean(connected, c, Append(q, r))
        BY Zenon, <3>1, <3>5, CleanPushed
      <4>2. r.type \in Completions
        BY <3>1, Zenon DEF Completions
      <4>3. Answers(Append(q, r)) = {Len(q) + 1} /\ Append(q, r)[Len(q) + 1] = r
        BY <3>1, <3>2, <3>5, <3>7, <4>2, OneAnswer, Zenon
      <4>4. Fits(Append(q, r), op[c], watch[c])
        BY <3>1, <4>3, Zenon DEF Fits
      <4>5. Engaged(c)'
        BY <2>0, <3>4, <3>7, <4>3, Zenon DEF Engaged
      <4> QED
        BY <2>0, <3>3, <3>4, <3>6, <3>7, <4>1, <4>4, <4>5, Zenon DEF Attends
    <3>8. CASE c \notin asked
      <4>1. ~ Fresh(c) => Engaged(c)'
        BY <2>0, <3>3, <3>4, <3>5, <3>8, Zenon DEF Engaged
      <4> QED
        BY <2>0, <3>3, <3>4, <3>5, <3>6, <3>8, <4>1, Zenon DEF Attends, Fresh
    <3> QED
      BY <3>7, <3>8, Zenon
  <2> QED
    BY <2>1, <2>2, Zenon
<1>10. ASSUME NEW b \in Broker, Expire(b) PROVE Goal
  <2>0. /\ session[b] = "live" /\ b \notin link /\ session'[b] = "gone"
        /\ UNCHANGED <<alive, pc, connected, leader, op, asked, link>>
        /\ c # b => session'[c] = session[c]
    BY <1>10, Zenon DEF Expire, client
  <2>1. CASE c = b
    BY <2>0, <2>1, Zenon DEF Early, Attends
  <2>2. CASE c # b /\ (session[c] # "live" \/ c \notin alive)
    BY <2>0, <2>2, Zenon DEF Early, Attends
  <2>3. CASE c # b /\ session[c] = "live" /\ c \in alive
    <3>1. c \in link
      BY <2>0, <2>3, Zenon DEF WatchInv, OneCut
    <3>2. CASE owner # b \/ watch[c] = Nil
      <4>1. inbox'[c] = inbox[c] /\ watch'[c] = watch[c] /\ (owner' = owner \/ watch[c] = Nil)
        BY <1>10, <3>2 DEF Expire, Notified
      <4> QED
        BY Zenon, <2>0, <2>3, <4>1, Unmoved
    <3>3. CASE owner = b /\ watch[c] # Nil
      <4> DEFINE e == Event("DELETED")
      <4>1. e \in EventSet /\ e.type = "DELETED"
        BY EventInSet, Zenon DEF EventTypes, WatchEvents
      <4>2. inbox'[c] = Append(inbox[c], e) /\ watch'[c] = Nil
        BY <1>10, <3>1, <3>3, Zenon DEF Expire, Notified
      <4>3. /\ Clean(connected, c, inbox[c]) /\ Fits(inbox[c], op[c], watch[c])
            /\ Up(connected, c, inbox[c], Len(inbox[c])) /\ Engaged(c)
            /\ ~ Fresh(c)
        BY <2>3, <3>1, <3>3, Zenon DEF Attends, Sessions
      <4> HIDE DEF e
      <4>4. e.type \in WatchEvents /\ e.type \notin Completions /\ e.type \notin SessionEvents
        BY <4>1, Zenon DEF WatchEvents, Completions, SessionEvents
      <4>5. Clean(connected, c, Append(inbox[c], e))
        BY Zenon, <4>1, <4>3, CleanPushed
      <4>6. Fits(Append(inbox[c], e), op[c], Nil)
        BY <4>1, <4>3, <4>4, FitsPushed, Zenon
      <4>7. Up(connected, c, Append(inbox[c], e), Len(Append(inbox[c], e)))
        <5>1. Len(Append(inbox[c], e)) = Len(inbox[c]) + 1
          BY Zenon, <4>1, AppendQueue
        <5>2. Up(connected, c, Append(inbox[c], e), Len(inbox[c]) + 1)
          BY <4>1, <4>3, <4>4, UpPushed, Zenon
        <5> QED
          BY <5>1, <5>2
      <4>8. Answers(Append(inbox[c], e)) = Answers(inbox[c]) /\ News(Append(inbox[c], e)) # {}
        BY <3>3, <4>1, <4>4, PushNews, Zenon DEF Protocol
      <4>9. Engaged(c)'
        BY <2>0, <4>2, <4>3, <4>8, Zenon DEF Engaged
      <4>10. Early(c)'
        BY <2>0, <4>3, Zenon DEF Early, Fresh
      <4> QED
        BY <2>0, <4>2, <4>5, <4>6, <4>7, <4>9, <4>10, Zenon DEF Attends
    <3> QED
      BY <3>2, <3>3, Zenon
  <2> QED
    BY <2>1, <2>2, <2>3, Zenon
<1>11. ASSUME NEW b \in Broker, Crash(b) PROVE Goal
  <2>1. CASE c # b
    BY <1>11, <2>1, Unmoved, Zenon DEF Crash
  <2>2. CASE c = b
    BY <1>11, <2>2, Zenon DEF Crash, Early, Attends
  <2> QED
    BY <2>1, <2>2
<1> QED
  BY <1>1, <1>2, <1>3, <1>4, <1>5, <1>6, <1>7, <1>8, <1>9, <1>10, <1>11, Zenon DEF Next, Step

\* A broker at rest that does not lead watches the lock, and whoever it watches holds
\* it (master_exists, master_exists_completion): no order of answers, deletions and
\* new masters leaves it without a watch.  The hypothesis Calm: one broker may be cut
\* off at a time, not before its first request, and no request ends with an operation
\* timeout, which master_create_completion would not follow up.
THEOREM StandbyIsWatching == Calm => (Spec => []StandbyWatches)
<1> SUFFICES ASSUME Calm PROVE Spec => []StandbyWatches
  OBVIOUS
<1>1. WatchInv => StandbyWatches
  <2> SUFFICES ASSUME WatchInv, NEW b \in Broker, Resting(b), ~ leader[b], session[b] = "live"
               PROVE  watch[b] # Nil /\ owner = watch[b]
    BY Zenon DEF StandbyWatches
  <2>1. News(inbox[b]) = {}
    BY DEF Resting, News
  <2> QED
    BY <2>1, Zenon DEF WatchInv, Resting, Attends, Fresh, Engaged
<1>2. WatchInv /\ [Next]_vars => WatchInv'
  BY PStep, CutStep, AttendStep, Zenon DEF WatchInv
<1> QED
  BY <1>1, <1>2, WatchInit, PTL DEF Spec
=============================================================================
