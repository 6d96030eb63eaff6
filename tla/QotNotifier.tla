---------------------------- MODULE QotNotifier ----------------------------
(***************************************************************************)
(* The service that synchronises timelines, as far as it follows them      *)
(* (service/Notifier.cpp, service/Timeline.cpp): it scans /dev for the     *)
(* devices there are, then watches /dev, and keeps one Timeline object per *)
(* device, which opens it, asks for the demand and starts a coordinator.   *)
(* It runs beside the tasks of QotRegistry and learns of devices by the    *)
(* events that the file system queues while /dev is watched.               *)
(***************************************************************************)
EXTENDS QotRegistry

CONSTANT Service    \* the process, as the holder of open files

ASSUME NotifierAssumption == Service \notin Task

VARIABLES
    watch,      \* "down", then "scan" and, from then on, "poll"
    todo,       \* devices that the scan has yet to add
    inbox,      \* events of /dev to be read
    adding,     \* the device whose Timeline is under construction
    timelines,  \* timelines[i]: whether the Timeline has the device open, and the
                \* demand with which its coordinator was started
    unseen      \* indices whose device came or went between the scan and the watch,
                \* and has not come or gone since

notifier == <<watch, todo, inbox, adding, timelines>>
allvars  == <<vars, notifier, unseen>>

\* A Timeline whose coordinator was not started, and what GET_BINDING_INFO makes
\* of an empty list.
Idle    == -1
Garbage == -2

Nodes(devices) == {i \in DOMAIN devices : devices[i].state # "zombie"}

Appeared(i) == [type |-> "IN_CREATE", id |-> i]
Vanished(i) == [type |-> "IN_DELETE", id |-> i]

Changed == (Nodes(impl) \ Nodes(impl')) \cup (Nodes(impl') \ Nodes(impl))

\* The events of a step of the kernel.
Events ==
    [k \in 1 .. Cardinality(Nodes(impl') \ Nodes(impl)) |->
        Appeared(CHOOSE i \in Nodes(impl') \ Nodes(impl) : TRUE)] \o
    [k \in 1 .. Cardinality(Nodes(impl) \ Nodes(impl')) |->
        Vanished(CHOOSE i \in Nodes(impl) \ Nodes(impl') : TRUE)]

TaskStep ==
    /\ Next
    /\ inbox' = IF watch = "poll" THEN inbox \o Events ELSE inbox
    /\ unseen' = CASE watch = "down" -> {}
                   [] watch = "poll" -> unseen \ Changed
                   [] OTHER -> unseen \cup Changed
    /\ UNCHANGED <<watch, todo, adding, timelines>>

-----------------------------------------------------------------------------
\* The constructor of Notifier reads the directory, and adds what it finds.
Scan ==
    /\ watch = "down"
    /\ watch' = "scan"
    /\ todo' = Nodes(impl)
    /\ UNCHANGED <<vars, inbox, adding, timelines>>

\* Mutant: the scan ends with the first device.
scan_first ==
    /\ watch = "scan" /\ adding = Nil /\ todo # {}
    /\ \E i \in todo : todo' = {} /\ adding' = i
    /\ UNCHANGED <<vars, watch, inbox, timelines>>

ScanNext ==
    /\ watch = "scan" /\ adding = Nil /\ todo # {}
    /\ \E i \in todo : todo' = todo \ {i} /\ adding' = i
    /\ UNCHANGED <<vars, watch, inbox, timelines>>

\* The thread that the constructor starts at its end watches the directory.
inotify_add_watch ==
    /\ watch = "scan" /\ adding = Nil /\ todo = {}
    /\ watch' = "poll"
    /\ UNCHANGED <<vars, todo, inbox, adding, timelines>>

add(i) == adding' = (IF i \in DOMAIN timelines THEN Nil ELSE i) /\ UNCHANGED <<vars, timelines>>

\* Mutant: the file is closed, and the entry of the map stays.
del_keeps(i) ==
    /\ IF i \in DOMAIN timelines /\ timelines[i].open THEN close(Service, i) ELSE UNCHANGED impl
    /\ UNCHANGED <<info, tree, fault, proc, count, adding, timelines>>

\* Mutant: the file stays open.
del_leaking(i) ==
    /\ timelines' = Restrict(timelines, DOMAIN timelines \ {i})
    /\ UNCHANGED <<vars, adding>>

\* Deletes the Timeline, which stops its coordinator and closes its file.
del(i) ==
    /\ timelines' = Restrict(timelines, DOMAIN timelines \ {i})
    /\ IF i \in DOMAIN timelines /\ timelines[i].open THEN close(Service, i) ELSE UNCHANGED impl
    /\ UNCHANGED <<info, tree, fault, proc, count, adding>>

read ==
    /\ watch = "poll" /\ adding = Nil /\ inbox # <<>>
    /\ IF Head(inbox).type = "IN_CREATE" THEN add(Head(inbox).id) ELSE del(Head(inbox).id)
    /\ inbox' = Tail(inbox)
    /\ UNCHANGED <<watch, todo>>

\* The constructor of Timeline: open, ...
Timeline_open ==
    /\ adding # Nil /\ adding \notin DOMAIN timelines
    /\ timelines' = Extend(timelines, adding, [open |-> Open(adding), demand |-> Idle])
    /\ IF Open(adding)
       THEN impl' = [impl EXCEPT ![adding].files = @ \cup {Service}] /\ UNCHANGED adding
       ELSE UNCHANGED impl /\ adding' = Nil
    /\ UNCHANGED <<info, tree, fault, proc, count, watch, todo, inbox>>

\* ... TIMELINE_GET_INFO and TIMELINE_GET_BINDING_INFO, which takes the first
\* binding of the list without a look whether there is one, ...
Demanded(i) == IF impl[i].list = <<>> THEN Garbage ELSE Head(impl[i].list).demand

\* ... or will be when it is read: its task may leave meanwhile; ...
Overtaken(i) ==
    IF impl[i].list # <<>> /\ At(Head(impl[i].list).pid, "bound") THEN BOOLEAN ELSE {FALSE}

\* ... and Coordinator::Start.
Timeline_start ==
    /\ adding \in DOMAIN timelines
    /\ adding' = Nil
    /\ IF Open(adding)
       THEN /\ fault' \in IF Freed(impl[adding].info) \/ impl[adding].state = "clock"
                          THEN {TRUE} ELSE Overtaken(adding)
            /\ timelines' = [timelines EXCEPT ![adding].demand = Demanded(adding)]
       ELSE UNCHANGED <<fault, timelines>>
    /\ UNCHANGED <<info, tree, impl, proc, count, watch, todo, inbox>>

-----------------------------------------------------------------------------
ServiceInit ==
    /\ Init
    /\ watch = "down" /\ todo = {} /\ inbox = <<>> /\ adding = Nil /\ timelines = <<>>
    /\ unseen = {}

ServiceStep ==
    /\ ~ fault
    /\ UNCHANGED unseen
    /\ Scan \/ ScanNext \/ inotify_add_watch \/ read \/ Timeline_open \/ Timeline_start

ServiceNext == TaskStep \/ ServiceStep

ServiceSpec == ServiceInit /\ [][ServiceNext]_allvars

\* The service keeps running: it is woken when an event is queued.
FairServiceSpec == ServiceSpec /\ WF_allvars(ServiceStep)

-----------------------------------------------------------------------------
UpToDate == watch = "poll" /\ inbox = <<>> /\ adding = Nil

\* When the service has read all events, it has a Timeline for each device that
\* there is, and no other, except where a device came or went after the scan of the
\* directory and before the watch.
Follows ==
    UpToDate => DOMAIN timelines \ unseen = Nodes(impl) \ unseen

\* When no task is inside a call and the service has read all events, a device that
\* has been removed is gone, whoever had it open when it went: only a Timeline for a
\* device that went between scan and watch holds on to it.  When no process has ended
\* in the middle, no timeline is left either.
AllReclaimed ==
    AtRest /\ UpToDate /\ ~ fault =>
        /\ DOMAIN impl \ unseen = Nodes(impl) \ unseen
        /\ crashes = 0 => tree = {}

\* A coordinator is started with the demand of a binding.
StartsOnDemand == \A i \in DOMAIN timelines : timelines[i].demand # Garbage

\* The service catches up with the devices time and again: one that stays gets a
\* Timeline, whether it was there when the directory was read, or came after the
\* watch was set and while the constructor of another Timeline was under way.
Noticed == []<>(fault \/ Nodes(impl) \ unseen \subseteq DOMAIN timelines)

\* A device that stays gets a Timeline, whenever it came.
AlwaysNoticed ==
    \A i \in 0 .. Cardinality(Task) - 1 :
        (i \in Nodes(impl)) ~> (fault \/ i \notin Nodes(impl) \/ i \in DOMAIN timelines)

\* A device that stays gets a coordinator.
Served ==
    \A i \in 0 .. Cardinality(Task) - 1 :
        (i \in Nodes(impl)) ~>
            (fault \/ i \notin Nodes(impl) \/ (i \in DOMAIN timelines /\ timelines[i].demand # Idle))
=============================================================================
