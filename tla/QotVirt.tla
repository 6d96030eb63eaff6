------------------------------ MODULE QotVirt ------------------------------
(***************************************************************************)
(* Timelines for virtual machines: the daemon on the host                  *)
(* (virt/qot_virthost.c), which binds to a timeline on behalf of all       *)
(* guests that use it and copies its parameters into shared memory; the    *)
(* guests (api/c/qot.c and virt/qot_virtguest.c with PARAVIRT_GUEST),      *)
(* which ask it for that and read the parameters; and of the host's        *)
(* kernel, the parameters, their flag and poll                             *)
(* (modules/qot/qot_timeline_chdev.c).                                     *)
(*                                                                         *)
(* A call of the registry is one step here; QotRegistry looks into it.  A  *)
(* guest runs one application.                                             *)
(***************************************************************************)
EXTENDS Integers, FiniteSets, FiniteSetsExt, Functions

CONSTANTS
    Guest,
    Name,           \* timelines of the guests
    HostName,       \* timelines of an application on the host, which polls them too
    Global,         \* those that are global
    Demand,
    GuestIndex,     \* what a timeline's index may be in the guest's own kernel
    Nil,
    MAX_TIMELINES,
    MaxRequests, MaxDisciplines,
    MaxTroubles     \* bounds; a trouble is a binding on the host, a crash, or SIGINT

ASSUME VirtAssumption ==
    /\ {MAX_TIMELINES, MaxRequests, MaxDisciplines, MaxTroubles} \subseteq Nat
    /\ Demand \subseteq Nat /\ GuestIndex \subseteq Nat /\ IsFiniteSet(Guest)

VARIABLES
    kernel,     \* kernel[n]: the timelines of the host: index, who is bound, the demand
                \* of the daemon, a stamp of the parameters, and sync_update_flag
    vtimeline,  \* the daemon's list: index, bind_count and running of each entry
    tl_count,
    main,       \* the main thread: where it is, whose message it has, and tl_id
    thread,     \* thread[k]: where tl_shmem_thread[k] is, the index in its file name,
                \* and the parameters that it is copying
    shm,        \* shm[i]: the first and the other parameters at index i
    guest,      \* guest[g]: where it is, whether it lives, virt_info, its demand and
                \* the retval that it got
    msg,        \* msg[g]: the message from g, or the reply to it (done)
    running,
    fault,      \* the daemon has done what has no defined outcome, and stops
    stamp,      \* the last stamp
    count       \* requests, disciplines and troubles

vars == <<kernel, vtimeline, tl_count, main, thread, shm, guest, msg, running, fault, stamp, count>>

Daemon == "qot_virtd"
App    == "application"

Slot == 0 .. MAX_TIMELINES - 1
Free == [index |-> -1, bind_count |-> 0, running |-> FALSE]
Rest == [pc |-> "select", of |-> Nil, tl_id |-> -1]
Outside == [pc |-> "idle", alive |-> TRUE, name |-> Nil, index |-> -1, demand |-> 0,
            ok |-> FALSE]
None == [pc |-> "none", index |-> -1, copy |-> 0]

\* What the kernel, the list, the threads, the guests and the sockets hold.
Timeline == [index : Nat, bound : SUBSET {Daemon, App}, demand : Nat, params : Nat, flag : BOOLEAN]
Entry    == [index : Nat \cup {-1}, bind_count : Int, running : BOOLEAN]
Worker   == [pc : {"none", "open", "get", "copy", "copied", "poll", "flagged", "ended"},
             index : Nat \cup {-1}, copy : Nat]
Label    == {"select", "TIMELINE_CREATE", "create", "join", "spawn", "TIMELINE_UPDATE", "TIMELINE_DESTROY",
             "cancel", "wait", "leave", "destroy", "SIGPIPE", "ended"}
Client   == [pc : {"idle", "binding", "bound", "updating", "unbinding"}, alive : BOOLEAN,
             name : Name \cup {Nil}, index : Nat \cup {-1}, demand : Nat, ok : BOOLEAN]
Request  == [type : {"TIMELINE_CREATE", "TIMELINE_UPDATE", "TIMELINE_DESTROY"}, name : Name,
             index : Nat, demand : Nat, ok : BOOLEAN, done : BOOLEAN]

ASSUME RequestAssumption == Nil \notin Request

Bump(what, bound) == count[what] < bound /\ count' = [count EXCEPT ![what] = @ + 1]

-----------------------------------------------------------------------------
\* The kernel of the host.

Device(i) == {n \in DOMAIN kernel : kernel[n].index = i}

idr_alloc == Min(0 .. Cardinality(DOMAIN kernel) \ {kernel[n].index : n \in DOMAIN kernel})

Created(n, who) ==
    [m \in DOMAIN kernel \cup {n} |-> IF m # n THEN kernel[m] ELSE
        [index |-> idr_alloc, bound |-> who, demand |-> 0, params |-> stamp + 1, flag |-> FALSE]]

\* qot_timeline_remove: only when nobody is bound.
Removed(n) ==
    IF n \in DOMAIN kernel /\ kernel[n].bound = {}
    THEN Restrict(kernel, DOMAIN kernel \ {n}) ELSE kernel

Leaves(n, who) == [kernel EXCEPT ![n].bound = @ \ {who}]

\* Mutant: the flag is not set.
discipline_silent(n) ==
    /\ n \in DOMAIN kernel /\ Bump("disciplines", MaxDisciplines)
    /\ stamp' = stamp + 1
    /\ kernel' = [kernel EXCEPT ![n].params = stamp + 1]
    /\ UNCHANGED <<vtimeline, tl_count, main, thread, shm, guest, msg, running, fault>>

\* Parameters change, under the lock.  All global timelines have one set of
\* parameters, and no flag is set for them.
Discipline(n) ==
    /\ n \in DOMAIN kernel /\ Bump("disciplines", MaxDisciplines)
    /\ stamp' = stamp + 1
    /\ kernel' = [m \in DOMAIN kernel |->
           CASE m \in Global /\ n \in Global -> [kernel[m] EXCEPT !.params = stamp + 1]
             [] m = n /\ n \notin Global     -> [kernel[m] EXCEPT !.params = stamp + 1, !.flag = TRUE]
             [] OTHER                        -> kernel[m]]
    /\ UNCHANGED <<vtimeline, tl_count, main, thread, shm, guest, msg, running, fault>>

\* An application on the host binds, unbinds and polls.
HostBind(n) ==
    /\ Bump("troubles", MaxTroubles)
    /\ n \in DOMAIN kernel => App \notin kernel[n].bound
    /\ IF n \in DOMAIN kernel
       THEN kernel' = [kernel EXCEPT ![n].bound = @ \cup {App}] /\ UNCHANGED stamp
       ELSE kernel' = Created(n, {App}) /\ stamp' = stamp + 1
    /\ UNCHANGED <<vtimeline, tl_count, main, thread, shm, guest, msg, running, fault>>

HostUnbind(n) ==
    /\ n \in DOMAIN kernel /\ App \in kernel[n].bound
    /\ kernel' = IF kernel[n].bound = {App} THEN Restrict(kernel, DOMAIN kernel \ {n})
                 ELSE Leaves(n, App)
    /\ UNCHANGED <<vtimeline, tl_count, main, thread, shm, guest, msg, running, fault, stamp, count>>

HostPoll(n) ==
    /\ n \in DOMAIN kernel /\ App \in kernel[n].bound /\ kernel[n].flag
    /\ kernel' = [kernel EXCEPT ![n].flag = FALSE]
    /\ UNCHANGED <<vtimeline, tl_count, main, thread, shm, guest, msg, running, fault, stamp, count>>

-----------------------------------------------------------------------------
\* A guest.

Send(g, type, n, i, d) ==
    /\ msg' = [msg EXCEPT ![g] = [type |-> type, name |-> n, index |-> i, demand |-> d,
                                  ok |-> TRUE, done |-> FALSE]]
    /\ UNCHANGED <<kernel, vtimeline, tl_count, main, thread, shm, running, fault, stamp>>

Lives(g, pc) == guest[g].alive /\ guest[g].pc = pc

\* timeline_bind, once it has bound to the timeline of its own kernel.
timeline_bind(g, n, d, i) ==
    /\ Lives(g, "idle") /\ Bump("requests", MaxRequests)
    /\ guest' = [guest EXCEPT ![g].pc = "binding", ![g].demand = d]
    /\ Send(g, "TIMELINE_CREATE", n, i, d)

timeline_unbind(g) ==
    /\ Lives(g, "bound")
    /\ guest' = [guest EXCEPT ![g].pc = "unbinding"]
    /\ Send(g, "TIMELINE_DESTROY", guest[g].name, guest[g].index, guest[g].demand)
    /\ UNCHANGED count

\* timeline_set_accuracy, timeline_set_resolution.
timeline_set(g, d) ==
    /\ Lives(g, "bound") /\ Bump("requests", MaxRequests)
    /\ guest' = [guest EXCEPT ![g].pc = "updating", ![g].demand = d]
    /\ Send(g, "TIMELINE_UPDATE", guest[g].name, guest[g].index, d)

\* The reply.  Nothing depends on its retval.
Replied(g) ==
    /\ guest[g].alive /\ msg[g] # Nil /\ msg[g].done
    /\ msg' = [msg EXCEPT ![g] = Nil]
    /\ guest' = [guest EXCEPT ![g] =
           CASE @.pc = "binding"   -> [@ EXCEPT !.pc = "bound", !.name = msg[g].name,
                                                !.index = msg[g].index, !.ok = msg[g].ok]
             [] @.pc = "unbinding" -> Outside
             [] OTHER              -> [@ EXCEPT !.pc = "bound"]]
    /\ UNCHANGED <<kernel, vtimeline, tl_count, main, thread, shm, running, fault, stamp, count>>

\* The virtual machine ends without a word.  The daemon closes its end of the socket,
\* and that is all.
Crash(g) ==
    /\ guest[g].alive /\ guest[g].pc # "idle" /\ Bump("troubles", MaxTroubles)
    /\ guest' = [guest EXCEPT ![g].alive = FALSE]
    /\ UNCHANGED <<kernel, vtimeline, tl_count, main, thread, shm, msg, running, fault, stamp>>

-----------------------------------------------------------------------------
\* The daemon: its list of timelines.

Entries(i) == {k \in Slot : vtimeline[k].index = i}

get_timeline_list_id(i) == IF Entries(i) = {} THEN -1 ELSE Min(Entries(i))

\* The first entry for index i, if there is one, is what every scan of the list changes.
IsFirst(k, i, list) == list[k].index = i /\ \A j \in Slot : list[j].index = i => k <= j

CountBind(i, list, n) ==
    [k \in Slot |-> IF IsFirst(k, i, list) THEN [list[k] EXCEPT !.bind_count = @ + n]
                                           ELSE list[k]]

SetEntry(i, list, e) == [k \in Slot |-> IF IsFirst(k, i, list) THEN e ELSE list[k]]

increment_bind_count(i, list) == CountBind(i, list, 1)
decrement_bind_count(i, list) == CountBind(i, list, -1)

add_timeline_to_list(i, list) ==
    SetEntry(-1, list, [index |-> i, bind_count |-> 0, running |-> TRUE])

\* Mutant: the entry stays.
remove_not(i, list) == list

remove_timeline_from_list(i, list) == SetEntry(i, list, Free)

-----------------------------------------------------------------------------
\* The daemon: messages.

At(pc) == main.pc = pc /\ ~ fault
virtmsg == msg[main.of]
Exists == virtmsg.name \in DOMAIN kernel
Goto(pc) == main' = [main EXCEPT !.pc = pc]
Fill(m) == msg' = [msg EXCEPT ![main.of] = m]

\* send raises SIGPIPE when the socket is closed at the other end.
Reply(m) ==
    /\ Fill([m EXCEPT !.done = TRUE])
    /\ main' = IF guest[main.of].alive THEN Rest ELSE [Rest EXCEPT !.pc = "SIGPIPE"]

others == <<thread, shm, guest, running, stamp, count>>

\* A guest has sent a message.  SIGINT does not end the round over the sockets.
Read(g) ==
    /\ At("select")
    /\ msg[g] # Nil /\ ~ msg[g].done
    /\ main' = [pc |-> msg[g].type, of |-> g, tl_id |-> -1]
    /\ UNCHANGED <<kernel, vtimeline, tl_count, msg, fault, others>>

\* Mutant: a timeline that exists is not counted.
create_uncounted ==
    /\ At("TIMELINE_CREATE")
    /\ IF Exists THEN Reply([virtmsg EXCEPT !.index = kernel[virtmsg.name].index])
       ELSE Goto("create") /\ UNCHANGED msg
    /\ UNCHANGED <<kernel, vtimeline, tl_count, fault, others>>

\* TIMELINE_CREATE: a timeline that exists is counted, if it is in the list; ...
TIMELINE_CREATE ==
    /\ At("TIMELINE_CREATE")
    /\ IF Exists
       THEN LET i == kernel[virtmsg.name].index
            IN  Reply([virtmsg EXCEPT !.index = i]) /\ vtimeline' = increment_bind_count(i, vtimeline)
       ELSE /\ UNCHANGED vtimeline
            /\ IF tl_count < MAX_TIMELINES THEN Goto("create") /\ UNCHANGED msg
               ELSE Reply([virtmsg EXCEPT !.ok = FALSE])
    /\ UNCHANGED <<kernel, tl_count, fault, others>>

\* ... another is created, and entered in the list.  When it exists by now,
\* QOTUSR_CREATE_TIMELINE returns a positive value, and no index.
CREATE_TIMELINE ==
    /\ At("create")
    /\ IF Exists THEN UNCHANGED <<kernel, stamp, msg>>
       ELSE /\ kernel' = Created(virtmsg.name, {})
            /\ stamp' = stamp + 1
            /\ Fill([virtmsg EXCEPT !.index = idr_alloc])
    /\ tl_count' = tl_count + 1
    /\ LET i == msg'[main.of].index
       IN  vtimeline' = increment_bind_count(i, add_timeline_to_list(i, vtimeline))
    /\ main' = [main EXCEPT !.pc = "join", !.tl_id = get_timeline_list_id(-1)]
    /\ UNCHANGED <<thread, shm, guest, running, fault, count>>

\* The daemon binds, ...
BIND_JOIN ==
    /\ At("join")
    /\ LET devices == {n \in Device(virtmsg.index) : Daemon \notin kernel[n].bound}
       IN  IF devices = {} THEN Fill([virtmsg EXCEPT !.ok = FALSE]) /\ UNCHANGED kernel
           ELSE /\ kernel' = [n \in DOMAIN kernel |-> IF n \notin devices THEN kernel[n] ELSE
                       [kernel[n] EXCEPT !.bound = @ \cup {Daemon}, !.demand = virtmsg.demand]]
                /\ UNCHANGED msg
    /\ Goto("spawn")
    /\ UNCHANGED <<vtimeline, tl_count, fault, others>>

\* ... and starts a thread.
pthread_create ==
    /\ At("spawn")
    /\ thread' = [thread EXCEPT ![main.tl_id] = [None EXCEPT !.pc = "open"]]
    /\ Reply(virtmsg)
    /\ UNCHANGED <<kernel, vtimeline, tl_count, shm, guest, running, fault, stamp, count>>

\* TIMELINE_DESTROY.  get_bind_count returns no value for a timeline that is not in
\* the list; with 0, the entry -1 of the list would be written to.
TIMELINE_DESTROY ==
    /\ At("TIMELINE_DESTROY")
    /\ IF ~ Exists THEN Reply([virtmsg EXCEPT !.ok = FALSE]) /\ UNCHANGED <<vtimeline, fault>>
       ELSE LET i    == kernel[virtmsg.name].index
                k    == get_timeline_list_id(i)
                told == [virtmsg EXCEPT !.index = i]
            IN  /\ vtimeline' = decrement_bind_count(i, vtimeline)
                /\ IF k = -1 THEN Reply(told) /\ fault' \in BOOLEAN
                   ELSE /\ UNCHANGED fault
                        /\ IF vtimeline'[k].bind_count # 0 THEN Reply(told)
                           ELSE Fill(told) /\ main' = [main EXCEPT !.pc = "cancel", !.tl_id = k]
    /\ UNCHANGED <<kernel, tl_count, others>>

\* Mutant: the thread is not told to end.
cancel_silent ==
    /\ At("cancel")
    /\ Goto("wait")
    /\ UNCHANGED <<kernel, vtimeline, tl_count, msg, fault, others>>

cancel ==
    /\ At("cancel")
    /\ vtimeline' = [vtimeline EXCEPT ![main.tl_id].running = FALSE]
    /\ Goto("wait")
    /\ UNCHANGED <<kernel, tl_count, msg, fault, others>>

\* Mutant: the thread is left to itself.
join_not ==
    /\ At("wait")
    /\ Goto("leave")
    /\ UNCHANGED <<kernel, vtimeline, tl_count, msg, fault, others>>

\* The main thread waits for the other, which must be there.
pthread_join ==
    /\ At("wait") /\ thread[main.tl_id].pc \in {"ended", "none"}
    /\ fault' = (thread[main.tl_id].pc = "none")
    /\ thread' = [thread EXCEPT ![main.tl_id] = None]
    /\ Goto("leave")
    /\ UNCHANGED <<kernel, vtimeline, tl_count, msg, shm, guest, running, stamp, count>>

BIND_LEAVE ==
    /\ At("leave")
    /\ LET devices == {n \in Device(virtmsg.index) : Daemon \in kernel[n].bound}
       IN  IF devices = {} THEN Fill([virtmsg EXCEPT !.ok = FALSE]) /\ UNCHANGED kernel
           ELSE kernel' = Leaves(CHOOSE n \in devices : TRUE, Daemon) /\ UNCHANGED msg
    /\ Goto("destroy")
    /\ UNCHANGED <<vtimeline, tl_count, fault, others>>

\* QOTUSR_DESTROY_TIMELINE returns a positive value when it fails, which counts
\* as a success.
DESTROY_TIMELINE ==
    /\ At("destroy")
    /\ kernel' = Removed(virtmsg.name)
    /\ tl_count' = IF tl_count > 0 THEN tl_count - 1 ELSE 0
    /\ vtimeline' = remove_timeline_from_list(virtmsg.index, vtimeline)
    /\ Reply(virtmsg)
    /\ UNCHANGED <<fault, others>>

TIMELINE_UPDATE ==
    /\ At("TIMELINE_UPDATE")
    /\ IF Exists /\ Daemon \in kernel[virtmsg.name].bound
       THEN /\ kernel' = [kernel EXCEPT ![virtmsg.name].demand = virtmsg.demand]
            /\ Reply([virtmsg EXCEPT !.index = kernel[virtmsg.name].index])
       ELSE Reply([virtmsg EXCEPT !.ok = FALSE]) /\ UNCHANGED kernel
    /\ UNCHANGED <<vtimeline, tl_count, fault, others>>

\* SIGINT: the loop of the main thread ends, and with it the process.  Its files are
\* closed, its bindings stay.
exit_handler ==
    /\ running /\ Bump("troubles", MaxTroubles)
    /\ running' = FALSE
    /\ UNCHANGED <<kernel, vtimeline, tl_count, main, thread, shm, guest, msg, fault, stamp>>

\* The process ends.  A loop should wait for the threads, but starts at the 30 of the
\* loop before.
Ended ==
    /\ running' = FALSE
    /\ main' = [Rest EXCEPT !.pc = "ended"]
    /\ thread' = [k \in Slot |-> None]
    /\ UNCHANGED <<kernel, vtimeline, tl_count, shm, guest, msg, fault, stamp, count>>

\* Nothing says when: a select that SIGINT interrupts is followed by an accept, which
\* may block.
Return == At("select") /\ ~ running /\ Ended

\* Nobody handles this signal.
SIGPIPE == At("SIGPIPE") /\ Ended

-----------------------------------------------------------------------------
\* The daemon: write_timeline_params.

ThreadAt(k, pc) == thread[k].pc = pc /\ ~ fault
Turn(k, t) == thread' = [thread EXCEPT ![k] = t]

rest == <<vtimeline, tl_count, main, guest, msg, running, stamp, count>>

\* Nothing is done when the device cannot be opened.
OpenTimeline(k) ==
    /\ ThreadAt(k, "open")
    /\ Turn(k, [thread[k] EXCEPT !.pc = "get", !.index = vtimeline[k].index])
    /\ UNCHANGED <<kernel, shm, fault, rest>>

\* TIMELINE_GET_PARAMETERS takes the parameters under the lock, ...
GET_PARAMETERS(k) ==
    /\ ThreadAt(k, "get")
    /\ IF Device(thread[k].index) = {} THEN Turn(k, [thread[k] EXCEPT !.pc = "poll"])
       ELSE \E n \in Device(thread[k].index) :
                Turn(k, [thread[k] EXCEPT !.pc = "copy", !.copy = kernel[n].params])
    /\ UNCHANGED <<kernel, shm, fault, rest>>

\* ... and copies them to the shared memory, one after the other.
CopyFirst(k) ==
    /\ ThreadAt(k, "copy")
    /\ fault' = (thread[k].index \notin Slot)
    /\ shm' = IF fault' THEN shm ELSE [shm EXCEPT ![thread[k].index] = <<thread[k].copy, @[2]>>]
    /\ Turn(k, [thread[k] EXCEPT !.pc = "copied"])
    /\ UNCHANGED <<kernel, rest>>

CopyOthers(k) ==
    /\ ThreadAt(k, "copied")
    /\ shm' = [shm EXCEPT ![thread[k].index] = <<@[1], thread[k].copy>>]
    /\ Turn(k, [thread[k] EXCEPT !.pc = "poll", !.copy = 0])
    /\ UNCHANGED <<kernel, fault, rest>>

\* poll returns within a second, ...
EndThread(k) ==
    /\ ThreadAt(k, "poll")
    /\ ~ running \/ ~ vtimeline[k].running
    /\ Turn(k, [None EXCEPT !.pc = "ended"])
    /\ UNCHANGED <<kernel, shm, fault, rest>>

\* ... at once when it finds the flag set, ...
qot_timeline_chdev_poll(k) ==
    /\ ThreadAt(k, "poll")
    /\ \E n \in Device(thread[k].index) : kernel[n].flag
    /\ Turn(k, [thread[k] EXCEPT !.pc = "flagged"])
    /\ UNCHANGED <<kernel, shm, fault, rest>>

\* ... which it clears without the lock.
ClearFlag(k) ==
    /\ ThreadAt(k, "flagged")
    /\ kernel' = [n \in DOMAIN kernel |->
           IF n \in Device(thread[k].index) THEN [kernel[n] EXCEPT !.flag = FALSE] ELSE kernel[n]]
    /\ Turn(k, [thread[k] EXCEPT !.pc = "get"])
    /\ UNCHANGED <<shm, fault, rest>>

Thread(k) ==
    \/ OpenTimeline(k) \/ GET_PARAMETERS(k) \/ CopyFirst(k) \/ CopyOthers(k)
    \/ EndThread(k) \/ qot_timeline_chdev_poll(k) \/ ClearFlag(k)

Main ==
    \/ \E g \in Guest : Read(g)
    \/ TIMELINE_CREATE \/ CREATE_TIMELINE \/ BIND_JOIN \/ pthread_create
    \/ TIMELINE_DESTROY \/ cancel \/ pthread_join \/ BIND_LEAVE \/ DESTROY_TIMELINE
    \/ TIMELINE_UPDATE \/ SIGPIPE

Init ==
    /\ kernel = <<>> /\ stamp = 0
    /\ vtimeline = [k \in Slot |-> Free] /\ tl_count = 0
    /\ main = Rest /\ thread = [k \in Slot |-> None]
    /\ shm = [i \in Slot |-> <<0, 0>>]
    /\ guest = [g \in Guest |-> Outside] /\ msg = [g \in Guest |-> Nil]
    /\ running = TRUE /\ fault = FALSE
    /\ count = [requests |-> 0, disciplines |-> 0, troubles |-> 0]

GuestStep(g) ==
    \/ \E n \in Name, d \in Demand, i \in GuestIndex : timeline_bind(g, n, d, i)
    \/ \E d \in Demand : timeline_set(g, d)
    \/ timeline_unbind(g) \/ Replied(g) \/ Crash(g)

HostStep ==
    \/ \E n \in Name \cup HostName : Discipline(n)
    \/ \E n \in HostName : HostBind(n) \/ HostUnbind(n) \/ HostPoll(n)

Next ==
    \/ Main \/ Return \/ exit_handler \/ HostStep
    \/ \E k \in Slot : Thread(k)
    \/ \E g \in Guest : GuestStep(g)

Spec == Init /\ [][Next]_vars

\* The threads of the daemon run, and poll returns after a second.  Nobody has to
\* ask for anything.
FairSpec == Spec /\ WF_vars(Main) /\ \A k \in Slot : WF_vars(Thread(k))

-----------------------------------------------------------------------------
Listed == {k \in Slot : vtimeline[k].index # -1}

\* The types of the variables; the count of the list is right, and only a guest
\* that has asked something has a message.
TypeOK ==
    /\ IsFiniteSet(DOMAIN kernel) /\ DOMAIN kernel \subseteq Name \cup HostName
    /\ stamp \in Nat /\ \A n \in DOMAIN kernel : kernel[n] \in Timeline /\ kernel[n].params \in 1 .. stamp
    /\ vtimeline \in [Slot -> Entry] /\ tl_count = Cardinality(Listed)
    /\ main \in [pc : Label, of : Guest \cup {Nil}, tl_id : Slot \cup {-1}]
    /\ thread \in [Slot -> Worker] /\ \A k \in Slot : thread[k].copy \in 0 .. stamp
    /\ shm \in [Slot -> (0 .. stamp) \X (0 .. stamp)]
    /\ guest \in [Guest -> Client] /\ msg \in [Guest -> Request \cup {Nil}]
    /\ {running, fault} \subseteq BOOLEAN
    /\ \A g \in Guest : msg[g] # Nil <=> guest[g].pc \in {"binding", "updating", "unbinding"}

\* The daemon has told g that it has n, and not yet that it has left.
Holds(g, n) ==
    \/ guest[g].pc = "binding" /\ msg[g].done /\ msg[g].ok /\ msg[g].name = n
    \/ guest[g].pc \in {"bound", "updating"} /\ guest[g].ok /\ guest[g].name = n
    \/ guest[g].pc = "unbinding" /\ ~ msg[g].done /\ guest[g].ok /\ guest[g].name = n

Holders(n) == {g \in Guest : Holds(g, n)}

Alive(k) == thread[k].pc \notin {"none", "ended"}

\* Between two messages the daemon is bound to the timelines that a guest holds,
\* counts the guests of each, and runs one thread for each; there are no others.
Mirrors ==
    main.pc = "select" /\ ~ fault =>
        /\ {n \in DOMAIN kernel : Daemon \in kernel[n].bound} = {n \in Name : Holders(n) # {}}
        /\ \A k \in Slot \ Listed : ~ Alive(k)
        /\ \A k \in Listed :
              /\ running => Alive(k)
              /\ \E n \in Device(vtimeline[k].index) :
                    vtimeline[k].bind_count = Cardinality(Holders(n)) /\ Holders(n) # {}

\* A guest's timeline stays, at the index that the guest reads from, whatever the
\* other guests do.
Kept ==
    \A g \in Guest, n \in Name : Holds(g, n) /\ main.of # g =>
        /\ n \in DOMAIN kernel /\ Daemon \in kernel[n].bound
        /\ guest[g].pc # "binding" => guest[g].index = kernel[n].index

\* A message is answered, although the daemon waits for its threads meanwhile.
Answered ==
    \A g \in Guest : (msg[g] # Nil /\ ~ msg[g].done) ~> (msg[g] = Nil \/ msg[g].done \/ ~ running)

\* A guest's parameters are those of its timeline.
Current(g) ==
    LET p == kernel[guest[g].name].params IN shm[guest[g].index] = <<p, p>>

Outdated(g) ==
    /\ running /\ ~ fault
    /\ guest[g].pc = "bound" /\ guest[g].name \in DOMAIN kernel /\ guest[g].index \in Slot
    /\ ~ Current(g)

\* New parameters reach the guests, although the flag that tells of them is cleared
\* without the lock: "May cause a race but seems to be harmless"
\* (qot_timeline_chdev.c:949).
Refreshed == \A g \in Guest : Outdated(g) ~> ~ Outdated(g)

\* When a guest is told of its timeline, there are parameters for it to read.
WrittenFirst ==
    \A g \in Guest : guest[g].pc = "bound" /\ guest[g].ok /\ ~ fault => shm[guest[g].index][1] # 0

\* A guest, which reads whenever it likes, finds one set of parameters.
Untorn ==
    \A g \in Guest : guest[g].pc = "bound" /\ guest[g].ok =>
        shm[guest[g].index][1] = shm[guest[g].index][2]

\* No thread writes outside the shared memory, and none is waited for that is not there.
Inside == ~ fault

\* The daemon ends only when it is told to.
Survives == [][running' = running \/ exit_handler]_vars

\* The host serves the demand of every guest.
Satisfied ==
    \A g \in Guest, n \in Name :
        Lives(g, "bound") /\ Holds(g, n) /\ main.pc = "select" => kernel[n].demand <= guest[g].demand
=============================================================================
