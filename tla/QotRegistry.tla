---------------------------- MODULE QotRegistry ----------------------------
(***************************************************************************)
(* The timelines of a node and the tasks that bind to them: the tree of    *)
(* names (modules/qot/qot_timeline.c), the character device of a timeline  *)
(* with its bindings (qot_timeline_chdev.c), timeline_bind and             *)
(* timeline_unbind (api/c/qot.c), and creation and removal by an           *)
(* administrator (qot_admin_sysfs.c).                                      *)
(*                                                                         *)
(* A step is what runs under one lock, or without any between two of them. *)
(* A use of freed or uninitialised memory sets fault, and ends the         *)
(* behaviour: what follows is undefined.  So is it, perhaps, after two     *)
(* changes at once of the lists of bindings, for which there is no lock.   *)
(* A task is a process with one thread, and stands for its pid.            *)
(***************************************************************************)
EXTENDS Integers, Sequences, FiniteSets, FiniteSetsExt, Functions

CONSTANTS
    Task,
    Admin,          \* tasks that use the administrator's files instead of the interface
    Name, Demand,
    Stale,          \* what timeline->info.index may hold before it is set
    Nil,
    MaxCalls,       \* bound on the calls of bind, create and remove
    MaxCrashes      \* bound on the processes that end without unbinding

ASSUME RegistryAssumption ==
    /\ IsFiniteSet(Task)
    /\ Admin \subseteq Task
    /\ Nil \notin Int
    /\ Demand \subseteq Nat
    /\ Stale \subseteq Int

VARIABLES
    info,       \* info[o]: the timelines in memory, by address
    tree,       \* addresses in qot_timeline_root
    impl,       \* impl[i]: the devices in qot_timelines_map
    fault,
    proc,       \* proc[t]: where a task is, the name and index of its timeline_t, and
                \* timeline_priv and timeline_impl of its call (ptr, dev)
    calls, crashes

kernel == <<info, tree, impl, fault>>
count  == <<calls, crashes>>
vars   == <<kernel, proc, count>>

At(t, label) == proc[t].pc = label

Goto(t, label)     == proc' = [proc EXCEPT ![t].pc = label]
Point(t, label, o) == proc' = [proc EXCEPT ![t].pc = label, ![t].ptr = o]
Drive(t, label, d) == proc' = [proc EXCEPT ![t].pc = label, ![t].dev = d]

Extend(f, x, v) == [y \in DOMAIN f \cup {x} |-> IF y = x THEN v ELSE f[y]]

\* The call returns to timeline_bind, or to the administrator.
Return(t, label) == IF t \in Admin THEN "idle" ELSE label

-----------------------------------------------------------------------------
\* Timelines.

Names == {info[o].name : o \in tree}

qot_timeline_find(n) ==
    IF n \in Names THEN CHOOSE o \in tree : info[o].name = n ELSE Nil

\* An address that nobody remembers, so that a pointer to freed memory stays one.
kzalloc ==
    Min({o \in 1 .. Cardinality(DOMAIN info) + Cardinality(Task) + 1 :
            o \notin DOMAIN info /\ \A t \in Task : proc[t].ptr # o})

Freed(o) == o \notin DOMAIN info
kfree(o) == info' = Restrict(info, DOMAIN info \ {o})

-----------------------------------------------------------------------------
\* Devices and bindings.

Device(i) == i \in DOMAIN impl
Bound(i)  == impl[i].bound

\* A device can be opened, and its ioctls reach the driver.
Open(i) == Device(i) /\ impl[i].state \in {"clock", "ready"}

\* The device that a task has open.
Fd(t) == {i \in DOMAIN impl : t \in impl[i].files}

\* A pointer to a device: its place in the map, and the timeline it was made for.
Pointer(i)  == [index |-> i, info |-> impl[i].info]
Dangling(d) == ~ Device(d.index) \/ impl[d.index].info # d.info

idr_alloc == Min({i \in 0 .. Cardinality(DOMAIN impl) : ~ Device(i)})

\* Before the first binding whose demand differs.
qot_insert_list(list, b) ==
    LET differ == {k \in DOMAIN list : list[k].demand # b.demand}
        m == IF differ = {} THEN Len(list) + 1 ELSE Min(differ)
    IN  SubSeq(list, 1, m - 1) \o <<b>> \o SubSeq(list, m, Len(list))

list_del(list, t) ==
    LET own == {k \in DOMAIN list : list[k].pid = t}
        m == Min(own)
    IN  IF own = {} THEN list ELSE SubSeq(list, 1, m - 1) \o SubSeq(list, m + 1, Len(list))

\* A device goes when it has been unregistered and its last file is closed;
\* its bindings go with it.
Released(d) == d.state = "zombie" /\ d.files = {}

Put(i, d) ==
    IF Released(d) THEN Restrict(impl, DOMAIN impl \ {i}) ELSE [impl EXCEPT ![i] = d]

\* Mutant: the last file of a removed device is closed, and the device stays.
close_keeps(t, i) == impl' = [impl EXCEPT ![i].files = @ \ {t}]

close(t, i) == impl' = Put(i, [impl[i] EXCEPT !.files = @ \ {t}])

\* A task inside an ioctl that changes the bindings of its device, and one that may
\* change the lists now.
InIoctl(t)      == proc[t].pc \in {"list", "untie"}
ChangesLists(t) == proc[t].pc \in {"list", "bound"}

\* Whether a change of the lists of device i by t goes wrong: it does before they are
\* initialised, and may when another task changes them at the same time.
Outcome(t, i) ==
    IF impl[i].state = "clock" THEN {TRUE}
    ELSE IF \E u \in (impl[i].files \cap Task) \ {t} : ChangesLists(u) THEN BOOLEAN
    ELSE {FALSE}

\* qot_timeline_chdev_unregister looks at the bindings, and then removes the
\* device, in device_destroy and posix_clock_unregister, which waits for the
\* ioctls under way.  A device that is removed twice is released twice.
Removable(i, admin_flag) == Device(i) /\ (Bound(i) = {} \/ admin_flag)

Unregister(d) ==
    IF Dangling(d) \/ ~ Open(d.index)
    THEN fault' = TRUE /\ UNCHANGED impl
    ELSE /\ \A t \in impl[d.index].files \cap Task : ~ InIoctl(t)
         /\ impl' = Put(d.index, [impl[d.index] EXCEPT !.state = "zombie"])
         /\ UNCHANGED fault

-----------------------------------------------------------------------------
\* qot_timeline_create.

\* The name is looked up in one critical section ...
create_find(t) ==
    /\ At(t, "find")
    /\ LET o == qot_timeline_find(proc[t].name)
       IN  Point(t, IF o = Nil THEN "register" ELSE "copy", o)
    /\ UNCHANGED <<kernel, count>>

\* ... and what was found is read after it.  The ioctl then returns a positive
\* value, which timeline_bind takes for success, and the copy does not get there.
create_exists(t) ==
    /\ At(t, "copy")
    /\ fault' = Freed(proc[t].ptr)
    /\ Point(t, Return(t, "open"), Nil)
    /\ UNCHANGED <<info, tree, impl, count>>

\* The device node appears, ...
device_create(t) ==
    /\ At(t, "register")
    /\ LET o == kzalloc
           i == idr_alloc
       IN  /\ proc' = [proc EXCEPT ![t].pc = "clock", ![t].ptr = o,
                                    ![t].dev = [index |-> i, info |-> o]]
           /\ info' = Extend(info, o, [name |-> proc[t].name, index |-> i])
           /\ impl' = Extend(impl, i, [info |-> o, state |-> "node", files |-> {},
                                       bound |-> {}, list |-> <<>>])
    /\ UNCHANGED <<tree, fault, count>>

\* The next state of the device, unless it was removed meanwhile.
Advance(d, state) ==
    IF Dangling(d) \/ impl[d.index].state = "zombie"
    THEN fault' = TRUE /\ UNCHANGED impl
    ELSE impl' = [impl EXCEPT ![d.index].state = state] /\ UNCHANGED fault

\* ... can be opened, ...
posix_clock_register(t) ==
    /\ At(t, "clock")
    /\ Advance(proc[t].dev, "clock")
    /\ Goto(t, "init")
    /\ UNCHANGED <<info, tree, count>>

\* ... and gets its lists of bindings.
chdev_init(t) ==
    /\ At(t, "init")
    /\ Advance(proc[t].dev, "ready")
    /\ Drive(t, "insert", Nil)
    /\ UNCHANGED <<info, tree, count>>

Insert(t) ==
    /\ tree' = tree \cup {proc[t].ptr}
    /\ proc' = [proc EXCEPT ![t].pc = Return(t, "open"), ![t].ptr = Nil,
                             ![t].index = info[proc[t].ptr].index]

\* Mutant: the name is not looked up again.
insert_unchecked(t) ==
    /\ At(t, "insert")
    /\ Insert(t)
    /\ UNCHANGED <<info, impl, fault, count>>

qot_timeline_insert(t) ==
    /\ At(t, "insert")
    /\ IF proc[t].name \in Names THEN Goto(t, "undo") /\ UNCHANGED tree ELSE Insert(t)
    /\ UNCHANGED <<info, impl, fault, count>>

\* Mutant: the device of the timeline that has the name is taken for the new one.
undo_named(t) ==
    /\ At(t, "undo")
    /\ LET o == qot_timeline_find(proc[t].name)
           i == info[IF o = Nil THEN proc[t].ptr ELSE o].index
       IN  IF Removable(i, FALSE) THEN Drive(t, "unplug", Pointer(i)) ELSE Goto(t, "drop")
    /\ UNCHANGED <<kernel, count>>

\* Another task has created the timeline meanwhile.  A device that has been
\* bound to stays.
create_undo(t) ==
    /\ At(t, "undo")
    /\ LET i == info[proc[t].ptr].index
       IN  IF Removable(i, FALSE) THEN Drive(t, "unplug", Pointer(i)) ELSE Goto(t, "drop")
    /\ UNCHANGED <<kernel, count>>

create_unregister(t) ==
    /\ At(t, "unplug")
    /\ Unregister(proc[t].dev)
    /\ Drive(t, "drop", Nil)
    /\ UNCHANGED <<info, tree, count>>

create_fail(t) ==
    /\ At(t, "drop")
    /\ kfree(proc[t].ptr)
    /\ Point(t, Return(t, "getinfo"), Nil)
    /\ UNCHANGED <<tree, impl, fault, count>>

-----------------------------------------------------------------------------
\* qot_timeline_remove.

\* The name is looked up without the lock.
remove_find(t) ==
    /\ At(t, "remove")
    /\ LET o == qot_timeline_find(proc[t].name)
       IN  Point(t, IF o = Nil THEN "idle" ELSE "check", o)
    /\ UNCHANGED <<kernel, count>>

remove_check(t) ==
    /\ At(t, "check")
    /\ fault' = Freed(proc[t].ptr)
    /\ IF ~ fault' /\ Removable(info[proc[t].ptr].index, t \in Admin)
       THEN Drive(t, "destroy", Pointer(info[proc[t].ptr].index))
       ELSE Point(t, "idle", Nil)
    /\ UNCHANGED <<info, tree, impl, count>>

remove_destroy(t) ==
    /\ At(t, "destroy")
    /\ Unregister(proc[t].dev)
    /\ Drive(t, "erase", Nil)
    /\ UNCHANGED <<info, tree, count>>

remove_erase(t) ==
    /\ At(t, "erase")
    /\ fault' = Freed(proc[t].ptr)
    /\ tree' = tree \ {proc[t].ptr}
    /\ kfree(proc[t].ptr)
    /\ Point(t, "idle", Nil)
    /\ UNCHANGED <<impl, count>>

-----------------------------------------------------------------------------
\* timeline_bind and timeline_unbind.

Call(t, n, label) ==
    /\ At(t, "idle") /\ calls < MaxCalls
    /\ calls' = calls + 1
    /\ proc' = [proc EXCEPT ![t].pc = label, ![t].name = n]
    /\ UNCHANGED <<kernel, crashes>>

timeline_bind(t, n) == t \notin Admin /\ Call(t, n, "find")

\* QOTUSR_GET_TIMELINE_INFO: what was found is read after the critical section.
get_info(t) ==
    /\ At(t, "getinfo")
    /\ LET o == qot_timeline_find(proc[t].name)
       IN  Point(t, IF o = Nil THEN "failed" ELSE "info", o)
    /\ UNCHANGED <<kernel, count>>

get_info_copy(t) ==
    /\ At(t, "info")
    /\ fault' = Freed(proc[t].ptr)
    /\ proc' = [proc EXCEPT ![t].pc = "open", ![t].ptr = Nil,
                             ![t].index = IF fault' THEN @ ELSE info[proc[t].ptr].index]
    /\ UNCHANGED <<info, tree, impl, count>>

\* When the device cannot be opened, the descriptor is -1, and the ioctl fails.
open(t) ==
    /\ At(t, "open")
    /\ LET i == proc[t].index
       IN  IF Open(i)
           THEN impl' = [impl EXCEPT ![i].files = @ \cup {t}] /\ Goto(t, "join")
           ELSE UNCHANGED impl /\ Goto(t, "failed")
    /\ UNCHANGED <<info, tree, fault, count>>

\* TIMELINE_BIND_JOIN: the tree of bindings under the lock, the lists after it.
BIND_JOIN(t) ==
    /\ At(t, "join")
    /\ \E i \in Fd(t) :
          IF Open(i) /\ t \notin Bound(i)
          THEN impl' = [impl EXCEPT ![i].bound = @ \cup {t}] /\ Goto(t, "list")
          ELSE UNCHANGED impl /\ Goto(t, "failed")
    /\ UNCHANGED <<info, tree, fault, count>>

\* The lists of device i of t become list, without a lock.
ChangeLists(t, i, list) ==
    /\ impl' = [impl EXCEPT ![i].list = list]
    /\ fault' \in Outcome(t, i)
    /\ UNCHANGED <<info, tree, count>>

insert_lists(t, d) ==
    /\ At(t, "list")
    /\ \E i \in Fd(t) :
          ChangeLists(t, i, qot_insert_list(impl[i].list, [pid |-> t, demand |-> d]))
    /\ Goto(t, "bound")

\* TIMELINE_BIND_UPDATE takes the binding out of the lists, and inserts it again.
BIND_UPDATE(t) ==
    /\ At(t, "bound")
    /\ \E i \in Fd(t) : Open(i) /\ ChangeLists(t, i, list_del(impl[i].list, t))
    /\ Goto(t, "list")

\* TIMELINE_BIND_LEAVE fails when the device has been unregistered.  The binding
\* leaves the lists, ...
BIND_LEAVE(t) ==
    /\ At(t, "bound")
    /\ \E i \in Fd(t) :
          IF Open(i)
          THEN ChangeLists(t, i, list_del(impl[i].list, t)) /\ Goto(t, "untie")
          ELSE Goto(t, "failed") /\ UNCHANGED <<kernel, count>>

\* Mutant: the binding stays in the tree.
leave_tied(t) ==
    /\ At(t, "untie")
    /\ Goto(t, "close")
    /\ UNCHANGED <<kernel, count>>

\* ... and then, under the lock, the tree.
leave_tree(t) ==
    /\ At(t, "untie")
    /\ \E i \in Fd(t) : impl' = [impl EXCEPT ![i].bound = @ \ {t}]
    /\ Goto(t, "close")
    /\ UNCHANGED <<info, tree, fault, count>>

unbind_close(t) ==
    /\ At(t, "close")
    /\ \E i \in Fd(t) : close(t, i)
    /\ Goto(t, "remove")
    /\ UNCHANGED <<info, tree, fault, count>>

\* A call has failed, and the process ends; or it ends without unbinding.  Its
\* files are closed, its bindings stay.
exit(t) ==
    /\ \/ At(t, "failed") /\ UNCHANGED crashes
       \/ /\ t \notin Admin
          /\ proc[t].pc \in {"getinfo", "open", "join", "bound", "close", "remove"}
          /\ crashes < MaxCrashes /\ crashes' = crashes + 1
    /\ IF Fd(t) = {} THEN UNCHANGED impl ELSE \E i \in Fd(t) : close(t, i)
    /\ Goto(t, "ended")
    /\ UNCHANGED <<info, tree, fault, calls>>

-----------------------------------------------------------------------------
\* The files of the administrator.

timeline_create_store(t, n) == t \in Admin /\ Call(t, n, "find")
timeline_remove_store(t, n) == t \in Admin /\ Call(t, n, "remove")

-----------------------------------------------------------------------------
\* An administrator has no timeline_t.
Init ==
    /\ info = <<>> /\ tree = {} /\ impl = <<>> /\ fault = FALSE
    /\ proc \in [Task -> [pc : {"idle"}, name : {Nil}, index : Stale, ptr : {Nil}, dev : {Nil}]]
    /\ \A t \in Admin : proc[t].index = Min(Stale)
    /\ calls = 0 /\ crashes = 0

Calls(t, n) == timeline_bind(t, n) \/ timeline_create_store(t, n) \/ timeline_remove_store(t, n)

Creation(t) ==
    \/ create_find(t) \/ create_exists(t) \/ device_create(t) \/ posix_clock_register(t)
    \/ chdev_init(t) \/ qot_timeline_insert(t) \/ create_undo(t) \/ create_unregister(t)
    \/ create_fail(t)

Removal(t) == remove_find(t) \/ remove_check(t) \/ remove_destroy(t) \/ remove_erase(t)

Binding(t) ==
    \/ get_info(t) \/ get_info_copy(t) \/ open(t) \/ BIND_JOIN(t)
    \/ \E d \in Demand : insert_lists(t, d)
    \/ BIND_UPDATE(t) \/ BIND_LEAVE(t) \/ leave_tree(t) \/ unbind_close(t) \/ exit(t)

Steps(t) ==
    /\ ~ fault
    /\ (\E n \in Name : Calls(t, n)) \/ Creation(t) \/ Removal(t) \/ Binding(t)

Next == \E t \in Task : Steps(t)

Spec == Init /\ [][Next]_vars

-----------------------------------------------------------------------------
Labels ==
    {"idle", "find", "copy", "register", "clock", "init", "insert", "undo", "unplug", "drop",
     "getinfo", "info", "open", "join", "list", "bound", "untie", "close", "failed",
     "ended", "remove", "check", "destroy", "erase"}

\* The types of all variables.
TypeOK ==
    /\ \A o \in DOMAIN info : info[o] \in [name : Name, index : Nat]
    /\ tree \subseteq DOMAIN info
    /\ \A i \in DOMAIN impl :
          /\ impl[i].state \in {"node", "clock", "ready", "zombie"}
          /\ ~ Released(impl[i])
    /\ \A t \in Task : proc[t].pc \in Labels
    /\ \A t \in Task : Cardinality(Fd(t)) <= 1

\* No two timelines of the tree have one name, although a task looks the name up
\* in one critical section and inserts the timeline in another.
NamesUnique == \A o, p \in tree : info[o].name = info[p].name => o = p

\* While no removal is under way, a timeline of the tree has its own device, which
\* is complete.
HasDevice ==
    \/ fault \/ \E t \in Task : At(t, "erase")
    \/ \A o \in tree : LET i == info[o].index
                      IN  Device(i) /\ impl[i].info = o /\ impl[i].state = "ready"

Bindings(i) == {impl[i].list[k].pid : k \in DOMAIN impl[i].list}

\* The tree and the list of the bindings of a device hold the same, outside the
\* gaps in joining, updating and leaving; and who is bound has the device open, or
\* has ended.  A device that is removed under its tasks, a process that ends and an
\* ioctl that comes too late leave no binding in one of the two only.
BindingsAgree ==
    fault \/ \A i \in DOMAIN impl :
        /\ Bindings(i) = {t \in Bound(i) : ~ At(t, "list") /\ ~ At(t, "untie")}
        /\ Len(impl[i].list) = Cardinality(Bindings(i))
        /\ \A t \in Bound(i) : t \in impl[i].files \/ At(t, "ended")

AtRest == \A t \in Task : proc[t].pc \in {"idle", "ended"}

\* The index of a timeline identifies it.
IndexUnique == \A o, p \in tree : info[o].index = info[p].index => o = p

\* Nothing is used after it has been freed.
NoFault == ~ fault

\* A timeline is not destroyed while a task is bound to it.
BoundIsKept ==
    \A i \in DOMAIN impl : impl[i].state = "zombie" => Bound(i) = {}

\* Who is bound has the device of the timeline that it named.
BoundToNamed ==
    fault \/ \A t \in Task : At(t, "bound") =>
        \A i \in Fd(t) : impl[i].state = "zombie" \/ info[impl[i].info].name = proc[t].name

\* The first binding of the list has the tightest demand.
TightestFirst ==
    \A i \in DOMAIN impl : \A k \in DOMAIN impl[i].list :
        impl[i].list[1].demand <= impl[i].list[k].demand
=============================================================================
