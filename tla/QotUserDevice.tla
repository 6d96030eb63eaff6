--------------------------- MODULE QotUserDevice ---------------------------
(***************************************************************************)
(* /dev/qotusr (modules/qot/qot_user_chdev.c): each open file is a         *)
(* connection with a queue of events.  A task of QotRegistry opens one     *)
(* before it binds, and closes it after it has unbound.  Who opens a       *)
(* connection is told of the timelines there are, and who has one open is  *)
(* told of each that is created.                                           *)
(***************************************************************************)
EXTENDS QotRegistry

CONSTANTS
    Address,        \* Address[t]: orders the connections in their tree
    Reading         \* whether a task that is bound reads its events

ASSUME DeviceAssumption ==
    /\ Nil \notin Task
    /\ Address \in [Task -> Nat] /\ IsInjective(Address)
    /\ Reading \in BOOLEAN

VARIABLES
    usr,        \* usr[t]: the connection is "closed", "inserted", "open" or "used"
    queue,      \* queue[t]: the names in the events of event_list
    event_flag,
    walk,       \* walk[t]: the connection that create_notify of t is at, the name and,
                \* while it is in the tree, the timeline (of)
    taking,     \* taking[t]: list_del is half done ("mid"), and an event came ("raced");
                \* or the list was found "empty"
    cut,        \* connections whose list has lost its end
    overlooked, \* connections whose flag was cleared although an event had come
    told,       \* told[t]: timelines of the tree of which t was told since it connected
    announced,  \* timelines of the tree whose announcement has been completed
    kept        \* devices that a creation that failed has left behind

device  == <<usr, queue, event_flag, walk, taking, cut, overlooked, told, announced>>
devvars == <<vars, device, kept>>

Connections == {c \in Task : usr[c] # "closed"}

\* A connection may be opened, and closed.
Opens(t)  == t \notin Admin /\ At(t, "idle") /\ usr[t] = "closed"
Closes(t) == usr[t] = "used" /\ proc[t].pc \in {"idle", "ended"}

\* The tree of connections has no lock.  What t does with it goes wrong, perhaps, when
\* another task changes it at the same time, or walks over it while t changes it.
Clashes(t) == \E c \in Task \ {t} : Opens(c) \/ Closes(c) \/ (walk[t] = Nil /\ walk[c] # Nil)
Clash(t)   == IF Clashes(t) THEN BOOLEAN ELSE {FALSE}

rb_first == IF Connections = {} THEN Nil
            ELSE CHOOSE c \in Connections : \A d \in Connections : Address[c] <= Address[d]

rb_next(c) ==
    LET after == {d \in Connections : Address[d] > Address[c]}
    IN  IF after = {} THEN Nil ELSE CHOOSE d \in after : \A e \in after : Address[d] <= Address[e]

\* An event is queued under list_lock.  The events before a list_del that is half
\* done go, and behind a list that was cut off they are out of reach.
list_add_tail(c, n, of) ==
    /\ queue' = IF c \in cut THEN queue
                ELSE [queue EXCEPT ![c] = IF taking[c] = "mid" THEN <<n>> ELSE Append(@, n)]
    /\ taking' = IF taking[c] = "mid" THEN [taking EXCEPT ![c] = "raced"] ELSE taking
    /\ event_flag' = [event_flag EXCEPT ![c] = TRUE]
    /\ overlooked' = overlooked \ {c}
    /\ told' = [told EXCEPT ![c] = @ \cup of]

\* The timelines, in some order.
InOrder(S) == CHOOSE s \in [1 .. Cardinality(S) -> S] : IsInjective(s)

-----------------------------------------------------------------------------
\* The connection is in the tree before the timelines are looked at, ...
usr_open(t) ==
    /\ ~ fault /\ Opens(t)
    /\ usr' = [usr EXCEPT ![t] = "inserted"]
    /\ fault' \in Clash(t)
    /\ UNCHANGED <<info, tree, impl, proc, count>>
    /\ UNCHANGED <<queue, event_flag, walk, taking, cut, overlooked, told, announced>>

\* Mutant: the flag says whether there were timelines, and an event that came
\* before is forgotten.
announce_resets(t) ==
    /\ ~ fault
    /\ usr[t] = "inserted"
    /\ usr' = [usr EXCEPT ![t] = "open"]
    /\ queue' = [queue EXCEPT ![t] = @ \o InOrder(Names)]
    /\ event_flag' = [event_flag EXCEPT ![t] = Names # {}]
    /\ told' = [told EXCEPT ![t] = @ \cup tree]
    /\ UNCHANGED <<vars, walk, taking, cut, overlooked, announced>>

\* ... under the lock of the timelines.
usr_announce(t) ==
    /\ ~ fault
    /\ usr[t] = "inserted"
    /\ usr' = [usr EXCEPT ![t] = "open"]
    /\ queue' = [queue EXCEPT ![t] = @ \o InOrder(Names)]
    /\ event_flag' = [event_flag EXCEPT ![t] = @ \/ Names # {}]
    /\ told' = [told EXCEPT ![t] = @ \cup tree]
    /\ UNCHANGED <<vars, walk, taking, cut, overlooked, announced>>

\* The connection is taken out of the tree, and its events are freed.
usr_close(t) ==
    /\ ~ fault /\ Closes(t)
    /\ usr' = [usr EXCEPT ![t] = "closed"]
    /\ queue' = [queue EXCEPT ![t] = <<>>]
    /\ event_flag' = [event_flag EXCEPT ![t] = FALSE]
    /\ taking' = [taking EXCEPT ![t] = "no"]
    /\ cut' = cut \ {t}
    /\ overlooked' = overlooked \ {t}
    /\ told' = [told EXCEPT ![t] = {}]
    /\ fault' \in Clash(t)
    /\ UNCHANGED <<info, tree, impl, proc, count, walk, announced>>

\* The timeline that a step has put into the tree.
Created == tree' \ tree

\* The device that create_undo cannot remove, because it has been bound to.
LeftBehind == {i \in DOMAIN impl : \E t \in Task :
                    At(t, "undo") /\ impl[i].info = proc[t].ptr /\ proc'[t].pc = "drop"}

\* A step of the registry.  CREATE_TIMELINE goes on with create_notify, and the
\* task does nothing else meanwhile.
RegistryStep(t) ==
    /\ walk[t] = Nil /\ taking[t] = "no"
    /\ At(t, "idle") => usr[t] = "open" \/ t \in Admin
    /\ Steps(t)
    /\ usr' = IF At(t, "idle") /\ t \notin Admin THEN [usr EXCEPT ![t] = "used"] ELSE usr
    /\ walk' = [c \in Task |->
                    CASE c = t /\ Created # {} /\ t \notin Admin ->
                            [con |-> rb_first, name |-> proc[t].name, of |-> Created]
                      [] walk[c] # Nil -> [walk[c] EXCEPT !.of = @ \cap tree']
                      [] OTHER -> Nil]
    /\ announced' = announced \cap tree'
    /\ told' = [c \in Task |-> told[c] \cap tree']
    /\ kept' = kept \cup LeftBehind
    /\ UNCHANGED <<queue, event_flag, taking, cut, overlooked>>

\* qot_user_timeline_create_notify walks over the connections without a lock.
Notify(t, next) ==
    /\ ~ fault /\ walk[t] # Nil
    /\ list_add_tail(walk[t].con, walk[t].name, walk[t].of)
    /\ fault' \in IF usr[walk[t].con] = "closed" THEN {TRUE} ELSE Clash(t)
    /\ walk' = [walk EXCEPT ![t] = IF next = Nil THEN Nil ELSE [@ EXCEPT !.con = next]]
    /\ announced' = IF next = Nil THEN announced \cup walk[t].of ELSE announced
    /\ UNCHANGED <<info, tree, impl, proc, count, usr, cut>>

\* Mutant: only the first connection hears of a timeline.
notify_first(t)  == Notify(t, Nil)

create_notify(t) == Notify(t, rb_next(walk[t].con))

\* GET_NEXT_EVENT takes the event from the list without its lock.  list_del sets the
\* pointer back before the pointer forth, and with a single event in the list an
\* interrupt or another processor may add one in between.  timeline_read_events
\* polls first; who does not may find the list empty, ...
read_events(t) ==
    /\ ~ fault /\ Reading
    /\ At(t, "bound") /\ taking[t] = "no"
    /\ IF Len(queue[t]) > 1
       THEN queue' = [queue EXCEPT ![t] = Tail(@)] /\ UNCHANGED taking
       ELSE /\ taking' = [taking EXCEPT ![t] = IF queue[t] = <<>> THEN "empty" ELSE "mid"]
            /\ UNCHANGED queue
    /\ UNCHANGED <<vars, usr, event_flag, walk, cut, overlooked, told, announced>>

\* ... and then clears the flag, also of an event that came since.
clear_flag(t) ==
    /\ ~ fault /\ taking[t] = "empty"
    /\ event_flag' = [event_flag EXCEPT ![t] = FALSE]
    /\ overlooked' = IF queue[t] # <<>> THEN overlooked \cup {t} ELSE overlooked
    /\ taking' = [taking EXCEPT ![t] = "no"]
    /\ UNCHANGED <<vars, usr, queue, walk, cut, told, announced>>

list_del_end(t) ==
    /\ ~ fault /\ taking[t] \in {"mid", "raced"}
    /\ queue' = [queue EXCEPT ![t] = <<>>]
    /\ cut' = IF taking[t] = "raced" THEN cut \cup {t} ELSE cut
    /\ taking' = [taking EXCEPT ![t] = "no"]
    /\ UNCHANGED <<vars, usr, event_flag, walk, overlooked, told, announced>>

-----------------------------------------------------------------------------
DeviceInit ==
    /\ Init
    /\ usr = [t \in Task |-> "closed"]
    /\ queue = [t \in Task |-> <<>>]
    /\ event_flag = [t \in Task |-> FALSE]
    /\ walk = [t \in Task |-> Nil]
    /\ taking = [t \in Task |-> "no"]
    /\ cut = {} /\ overlooked = {}
    /\ told = [t \in Task |-> {}]
    /\ announced = {} /\ kept = {}

DeviceNext ==
    \E t \in Task :
        \/ RegistryStep(t)
        \/ /\ \/ usr_open(t) \/ usr_announce(t) \/ usr_close(t) \/ create_notify(t)
              \/ read_events(t) \/ clear_flag(t) \/ list_del_end(t)
           /\ UNCHANGED kept

DeviceSpec == DeviceInit /\ [][DeviceNext]_devvars

-----------------------------------------------------------------------------
\* The types of the variables of the device, and of the registry.
DeviceTypeOK ==
    /\ TypeOK
    /\ usr \in [Task -> {"closed", "inserted", "open", "used"}]
    /\ queue \in [Task -> Seq(Name)]
    /\ event_flag \in [Task -> BOOLEAN]
    /\ taking \in [Task -> {"no", "empty", "mid", "raced"}]
    /\ cut \cup overlooked \cup {t \in Task : taking[t] # "no"} \subseteq Connections
    /\ told \in [Task -> SUBSET tree]
    /\ announced \subseteq tree

\* Each connection has been told of each timeline whose announcement has been
\* completed, however its opening and the announcement interleaved.
Announced ==
    fault \/ \A t \in Task : usr[t] \in {"open", "used"} => announced \subseteq told[t]

\* Poll is silent about an event that can be read only after the reader had found
\* the list empty before the event came, and has cleared the flag since (line 327 of
\* qot_user_chdev.c), and only until the next event: neither the opening, in which
\* the flag is set without the lock, nor a list_del that is overtaken silences it.
PollReports ==
    \A t \in Task : queue[t] # <<>> => event_flag[t] \/ t \in overlooked

\* "Data ready flag" (qot_user_chdev.c:58).
DataReady == \A t \in Task : queue[t] # <<>> => event_flag[t]

\* When no task is inside a call, each device is that of a timeline, except one that
\* was bound to, by an index held by chance, before its creation lost the race for the
\* name: the refusal of qot_timeline_chdev_unregister is not looked at
\* (qot_timeline.c:226).
Reclaimed ==
    AtRest /\ ~ fault =>
        DOMAIN impl \subseteq kept \cup {info[o].index : o \in tree}

\* The same without the exception.
NoneLeftBehind == AtRest /\ ~ fault => DOMAIN impl = {info[o].index : o \in tree}

\* No event is out of reach of the reader.
AllReadable == cut = {}
=============================================================================
