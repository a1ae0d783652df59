----------------------------- MODULE TaskSystem -----------------------------
(***************************************************************************)
(* The task system of tasksys.cpp, in its pthreads version, which serves   *)
(* the launch and sync statements of ispc programs.  A client is a thread  *)
(* that calls a function with such statements, again and again: the first  *)
(* ISPCLaunch or ISPCAlloc of a call takes a task group, further calls of  *)
(* ISPCLaunch add tasks to it, ISPCSync runs tasks until those of the      *)
(* group are finished and gives the group back.  A call is named a round   *)
(* here.  The workers are the threads that InitTaskSystem creates.         *)
(*                                                                         *)
(* One action is one critical section of taskSysMutex or one access to     *)
(* memory that is shared without it: the lock of InitTaskSystem, threads,  *)
(* the slots of freeTaskGroups, the counter numUnfinishedTasks, the        *)
(* semaphore.  What a client does to a group that only it can reach is     *)
(* part of the action next to it.                                          *)
(*                                                                         *)
(* activeTaskGroups.reserve(64) is the one access to the active list       *)
(* without the mutex.  It is two actions, and if somebody uses the list    *)
(* in between, what it leaves is undefined: the list as it was before or   *)
(* as it is now, or a vector that is broken.                               *)
(***************************************************************************)
EXTENDS Integers, FiniteSets, SequencesExt

CONSTANTS Clients,     \* threads that launch tasks
          Workers,     \* nThreads threads, one for each further core
          Groups,      \* addresses of task groups
          Slots,       \* MAX_FREE_TASK_GROUPS: 64
          TaskLimit,   \* MAX_LAUNCHED_TASKS: 2^17
          Counts,      \* how many tasks a launch may ask for
          OldTokens,   \* bound of what an old semaphore of that name holds
          MaxCalls,    \* bound of the rounds and launches of all clients together
          Null

ASSUME ThreadsAssumption == /\ Clients # {} /\ IsFiniteSet(Clients)
                            /\ IsFiniteSet(Workers)
                            /\ Clients \cap Workers = {}
ASSUME LimitsAssumption  == /\ Slots \in Nat
                            /\ TaskLimit \in Nat
                            /\ Counts \subseteq Nat \ {0}
                            /\ OldTokens \in Nat
                            /\ MaxCalls \in Nat
ASSUME GroupsAssumption  == /\ Null \notin Groups
                            /\ IsFiniteSet(Groups)
                            /\ Cardinality(Groups) >= Cardinality(Clients) + Slots

VARIABLES pc,       \* where each thread is
          lock,     \* lock, taken or not
          threads,  \* threads, not NULL any more
          copied,   \* what reserve has read of the active list
          active,   \* activeTaskGroups
          raced,    \* history: somebody used the list during reserve
          sem,      \* the value of workerSemaphore
          group,    \* the TaskGroup at each address
          heap,     \* the addresses that are allocated
          free,     \* freeTaskGroups
          handle,   \* each client's task group, *taskGroupPtr
          slot,     \* AllocTaskGroup, FreeTaskGroup: i + 1
          seen,     \* AllocTaskGroup: tg
          posts,    \* Launch: count, and how often sem_post is still to be called
          job,      \* the task that a thread has taken
          calls,    \* history: the rounds and launches that have begun
          runs,     \* history: how often each task of the round has been run
          halted    \* "no", or why the program is gone

setup == <<lock, threads, copied>>
queue == <<active, raced, group>>
pool == <<heap, free, handle, slot, seen>>
history == <<calls, runs>>
vars == <<pc, setup, queue, sem, pool, posts, job, history, halted>>

Threads == Clients \cup Workers

NoJob == [group |-> Null, task |-> 0]

NewGroup == [waiting |-> << >>, unfinished |-> 0, inActive |-> FALSE,
             next |-> 0, info |-> << >>]

Init == /\ pc = [t \in Threads |-> IF t \in Clients THEN "idle" ELSE "none"]
        /\ lock = FALSE
        /\ threads = FALSE
        /\ copied = << >>
        /\ active = << >>
        /\ raced = FALSE
        /\ sem \in 0 .. OldTokens
        /\ group = [g \in Groups |-> NewGroup]
        /\ heap = {}
        /\ free = [x \in 1 .. Slots |-> Null]
        /\ handle = [c \in Clients |-> Null]
        /\ slot = [c \in Clients |-> 1]
        /\ seen = [c \in Clients |-> Null]
        /\ posts = [c \in Clients |-> 0]
        /\ job = [t \in Threads |-> NoJob]
        /\ calls = 0
        /\ runs = [c \in Clients |-> << >>]
        /\ halted = "no"

At(t, label) == halted = "no" /\ pc[t] = label
Goto(t, label) == pc' = [pc EXCEPT ![t] = label]

(* An assertion fails, exit is called, or the behaviour is undefined. *)
Halt(why) ==
  /\ halted' = why
  /\ UNCHANGED <<pc, setup, queue, sem, pool, posts, job, history>>

(* The active list is used: too early if reserve is in the middle. *)
UseActive == raced' = (raced \/ \E c \in Clients : pc[c] = "reserved")

-----------------------------------------------------------------------------
(* InitTaskSystem *)

(* A new round: the task system may have to be initialized first. *)
CheckThreads(c) ==
  /\ At(c, "idle")
  /\ calls < MaxCalls
  /\ calls' = calls + 1
  /\ Goto(c, IF threads THEN "alloc" ELSE "spin")
  /\ UNCHANGED <<setup, queue, sem, pool, posts, job, runs, halted>>

TakeLock(c) ==
  /\ At(c, "spin")
  /\ ~ lock
  /\ lock' = TRUE
  /\ Goto(c, IF threads THEN "unlock" ELSE "create")
  /\ UNCHANGED <<threads, copied, queue, sem, pool, posts, job, history, halted>>

PublishThreads(c) ==
  /\ At(c, "create")
  /\ threads' = TRUE
  /\ Goto(c, "start")
  /\ UNCHANGED <<lock, copied, queue, sem, pool, posts, job, history, halted>>

(* The calls of pthread_create. *)
StartWorkers(c) ==
  /\ At(c, "start")
  /\ pc' = [t \in Threads |-> IF t = c THEN "reserve"
                              ELSE IF t \in Workers THEN "wait" ELSE pc[t]]
  /\ UNCHANGED <<setup, queue, sem, pool, posts, job, history, halted>>

BeginReserve(c) ==
  /\ At(c, "reserve")
  /\ copied' = active
  /\ Goto(c, "reserved")
  /\ UNCHANGED <<lock, threads, queue, sem, pool, posts, job, history, halted>>

EndReserve(c) ==
  /\ At(c, "reserved")
  /\ active' \in IF raced THEN {active, copied} ELSE {active}
  /\ copied' = << >>
  /\ Goto(c, "unlock")
  /\ UNCHANGED <<lock, threads, raced, group, sem, pool, posts, job, history, halted>>

BreakVector(c) ==
  /\ At(c, "reserved")
  /\ raced
  /\ Halt("undefined")

Unlock(c) ==
  /\ At(c, "unlock")
  /\ lock' = FALSE
  /\ Goto(c, "alloc")
  /\ UNCHANGED <<threads, copied, queue, sem, pool, posts, job, history, halted>>

InitTaskSystem(c) == \/ TakeLock(c)
                     \/ PublishThreads(c)
                     \/ StartWorkers(c)
                     \/ BeginReserve(c)
                     \/ EndReserve(c)
                     \/ BreakVector(c)
                     \/ Unlock(c)

-----------------------------------------------------------------------------
(* AllocTaskGroup *)

ReadSlot(c) ==
  /\ At(c, "alloc")
  /\ slot[c] <= Slots
  /\ IF free[slot[c]] = Null
     THEN /\ slot' = [slot EXCEPT ![c] = @ + 1]
          /\ UNCHANGED <<pc, seen>>
     ELSE /\ seen' = [seen EXCEPT ![c] = free[slot[c]]]
          /\ Goto(c, "take")
          /\ UNCHANGED slot
  /\ UNCHANGED <<setup, queue, sem, heap, free, handle, posts, job, history, halted>>

(* Mutant of StillThere: the slot is cleared without a comparison. *)
StillThere_Unchecked(c) == TRUE

(* The comparison of the compare-and-swap. *)
StillThere(c) == free[slot[c]] = seen[c]

TakeGroup(c) ==
  /\ At(c, "take")
  /\ StillThere(c)
  /\ free' = [free EXCEPT ![slot[c]] = Null]
  /\ handle' = [handle EXCEPT ![c] = seen[c]]
  /\ seen' = [seen EXCEPT ![c] = Null]
  /\ slot' = [slot EXCEPT ![c] = 1]
  /\ Goto(c, "open")
  /\ UNCHANGED <<setup, queue, sem, heap, posts, job, history, halted>>

(* Somebody else has taken it, and perhaps another group was put there. *)
SlotHoldsOther(c) ==
  /\ At(c, "take")
  /\ ~ StillThere(c)
  /\ free[slot[c]] # Null

MissGroup(c) ==
  /\ At(c, "take")
  /\ ~ StillThere(c)
  /\ IF SlotHoldsOther(c)
     THEN Halt("assertion")
     ELSE /\ slot' = [slot EXCEPT ![c] = @ + 1]
          /\ seen' = [seen EXCEPT ![c] = Null]
          /\ Goto(c, "alloc")
          /\ UNCHANGED <<setup, queue, sem, heap, free, handle, posts, job, history, halted>>

(* Which address a new group gets makes no difference. *)
CreateGroup(c) ==
  /\ At(c, "alloc")
  /\ slot[c] > Slots
  /\ LET g == CHOOSE g \in Groups : g \notin heap
     IN /\ heap' = heap \cup {g}
        /\ group' = [group EXCEPT ![g] = NewGroup]
        /\ handle' = [handle EXCEPT ![c] = g]
  /\ slot' = [slot EXCEPT ![c] = 1]
  /\ Goto(c, "open")
  /\ UNCHANGED <<setup, active, raced, sem, free, seen, posts, job, history, halted>>

AllocTaskGroup(c) == \/ ReadSlot(c)
                     \/ TakeGroup(c)
                     \/ MissGroup(c)
                     \/ CreateGroup(c)

-----------------------------------------------------------------------------
(* ISPCLaunch, with a group *)

(* Mutant of ActiveWith: the group is put on the list once more. *)
ActiveWith_Again(g) == Append(active, g)

ActiveWith(g) == IF group[g].inActive THEN active ELSE Append(active, g)

(* The infos of the new tasks are written, then the tasks are queued.  An  *)
(* info says whose task it is, and which one of the round.                 *)
Launch(c, n) ==
  LET g == handle[c]
      base == group[g].next
      infoAt(x) == IF x <= base THEN group[g].info[x]
                   ELSE [client |-> c, number |-> Len(runs[c]) + x - base]
      Infos == [x \in 1 .. base + n |-> infoAt(x)]
               \o SubSeq(group[g].info, base + n + 1, Len(group[g].info))
  IN /\ At(c, "open")
     /\ calls < MaxCalls
     /\ calls' = calls + 1
     /\ base + n <= TaskLimit
     /\ group' = [group EXCEPT
                    ![g].info = Infos,
                    ![g].next = base + n,
                    ![g].waiting = @ \o [x \in 1 .. n |-> base + x],
                    ![g].inActive = TRUE]
     /\ active' = ActiveWith(g)
     /\ UseActive
     /\ runs' = [runs EXCEPT ![c] = @ \o [x \in 1 .. n |-> 0]]
     /\ posts' = [posts EXCEPT ![c] = n]
     /\ Goto(c, "add")
     /\ UNCHANGED <<setup, sem, pool, job, halted>>

(* GetTaskInfo has no chunk for the task: exit. *)
TooManyTasks(c, n) ==
  /\ At(c, "open")
  /\ calls < MaxCalls
  /\ group[handle[c]].next + n > TaskLimit
  /\ Halt("exit")

(* Mutant of CountWith: the counter is set. *)
CountWith_Store(c) == posts[c]

CountWith(c) == group[handle[c]].unfinished + posts[c]

(* The count follows after the mutex is given back: a worker may have run  *)
(* one of the tasks and counted it down before.                            *)
AddUnfinished(c) ==
  /\ At(c, "add")
  /\ group' = [group EXCEPT ![handle[c]].unfinished = CountWith(c)]
  /\ Goto(c, "post")
  /\ UNCHANGED <<setup, active, raced, sem, pool, posts, job, history, halted>>

Post(c) ==
  /\ At(c, "post")
  /\ sem' = sem + 1
  /\ posts' = [posts EXCEPT ![c] = @ - 1]
  /\ Goto(c, IF posts[c] > 1 THEN "post" ELSE "open")
  /\ UNCHANGED <<setup, queue, pool, job, history, halted>>

ISPCLaunch(c) == \/ \E n \in Counts : Launch(c, n) \/ TooManyTasks(c, n)
                 \/ AddUnfinished(c)
                 \/ Post(c)

-----------------------------------------------------------------------------
(* Taking and running a task: the workers and Sync *)

(* Thread t takes the last waiting task of group g, and without a further  *)
(* one the group leaves the active list, which is then shorter.            *)
Take(t, g, shorter) ==
  /\ group[g].waiting # << >>
  /\ job' = [job EXCEPT ![t] = [group |-> g, task |-> Last(group[g].waiting)]]
  /\ IF Len(group[g].waiting) = 1
     THEN /\ group' = [group EXCEPT ![g].waiting = << >>, ![g].inActive = FALSE]
          /\ active' = shorter
     ELSE /\ group' = [group EXCEPT ![g].waiting = Front(@)]
          /\ UNCHANGED active
  /\ Goto(t, "run")

TakeFromLast(t) == Take(t, Last(active), Front(active))

(* The assertion that a group on the active list has a waiting task. *)
LastHasNoTask == active # << >> /\ group[Last(active)].waiting = << >>

RunTask(t) ==
  LET info == group[job[t].group].info[job[t].task]
  IN /\ At(t, "run")
     /\ runs' = [runs EXCEPT ![info.client][info.number] = @ + 1]
     /\ Goto(t, "ran")
     /\ UNCHANGED <<setup, queue, sem, pool, posts, job, calls, halted>>

(* Mutant of CountedGroup: Sync counts for its own group. *)
CountedGroup_This(t) == IF t \in Clients THEN handle[t] ELSE job[t].group

CountedGroup(t) == job[t].group

Decrement(t) ==
  /\ At(t, "ran")
  /\ group' = [group EXCEPT ![CountedGroup(t)].unfinished = @ - 1]
  /\ job' = [job EXCEPT ![t] = NoJob]
  /\ Goto(t, IF t \in Clients THEN "sync" ELSE "wait")
  /\ UNCHANGED <<setup, active, raced, sem, pool, posts, history, halted>>

(* lTaskEntry *)

(* Mutant of HasToken: the value is not looked at. *)
HasToken_Unchecked == TRUE

HasToken == sem > 0

WaitForWork(w) ==
  /\ At(w, "wait")
  /\ HasToken
  /\ sem' = sem - 1
  /\ Goto(w, "woken")
  /\ UNCHANGED <<setup, queue, pool, posts, job, history, halted>>

WorkerTakes(w) ==
  /\ At(w, "woken")
  /\ UseActive
  /\ IF active = << >>
     THEN Goto(w, "wait") /\ UNCHANGED <<active, group, job>>
     ELSE TakeFromLast(w)
  /\ UNCHANGED <<setup, sem, pool, posts, history, halted>>

AssertWaiting(t) ==
  /\ \/ t \in Workers /\ At(t, "woken")
     \/ t \in Clients /\ At(t, "help") /\ group[handle[t]].waiting = << >>
  /\ LastHasNoTask
  /\ Halt("assertion")

WorkerStep(w) == \/ WaitForWork(w)
                 \/ WorkerTakes(w)
                 \/ AssertWaiting(w)
                 \/ RunTask(w)
                 \/ Decrement(w)

-----------------------------------------------------------------------------
(* ISPCSync *)

(* Mutant of HasUnfinished: only tasks that nobody has taken are seen. *)
HasUnfinished_Waiting(c) == group[handle[c]].waiting # << >>

HasUnfinished(c) == group[handle[c]].unfinished > 0

CheckUnfinished(c) ==
  /\ At(c, "open") \/ At(c, "sync")
  /\ Goto(c, IF HasUnfinished(c) THEN "help" ELSE "reset")
  /\ UNCHANGED <<setup, queue, sem, pool, posts, job, history, halted>>

TakeOwn(c) ==
  /\ At(c, "help")
  /\ Contains(active, handle[c])
  /\ Take(c, handle[c], RemoveFirst(active, handle[c]))
  /\ UseActive
  /\ UNCHANGED <<setup, sem, pool, posts, history, halted>>

(* The group is not on the active list, and end() is erased from it unless *)
(* tasks are left.                                                         *)
TakeUnlisted(c) ==
  /\ At(c, "help")
  /\ ~ Contains(active, handle[c])
  /\ IF Len(group[handle[c]].waiting) = 1
     THEN Halt("undefined")
     ELSE /\ Take(c, handle[c], active)
          /\ UseActive
          /\ UNCHANGED <<setup, sem, pool, posts, history, halted>>

TakeOther(c) ==
  /\ At(c, "help")
  /\ group[handle[c]].waiting = << >>
  /\ active # << >>
  /\ TakeFromLast(c)
  /\ UseActive
  /\ UNCHANGED <<setup, sem, pool, posts, history, halted>>

(* All tasks are taken: Sync looks at its counter again. *)
TakeNothing(c) ==
  /\ At(c, "help")
  /\ group[handle[c]].waiting = << >>
  /\ active = << >>
  /\ UseActive
  /\ Goto(c, "sync")
  /\ UNCHANGED <<setup, active, group, sem, pool, posts, job, history, halted>>

Sync(c) == \/ CheckUnfinished(c)
           \/ TakeOwn(c)
           \/ TakeUnlisted(c)
           \/ TakeOther(c)
           \/ TakeNothing(c)
           \/ AssertWaiting(c)
           \/ RunTask(c)
           \/ Decrement(c)

(* Mutant of Cleared: the index of the next info is kept. *)
Cleared_KeepsNext(g) == [group[g] EXCEPT !.unfinished = 0]

Cleared(g) == [group[g] EXCEPT !.next = 0, !.unfinished = 0]

(* FreeTaskGroup *)

Reset(c) ==
  /\ At(c, "reset")
  /\ IF group[handle[c]].inActive
     THEN Halt("assertion")
     ELSE /\ group' = [group EXCEPT ![handle[c]] = Cleared(handle[c])]
          /\ runs' = [runs EXCEPT ![c] = << >>]
          /\ Goto(c, "free")
          /\ UNCHANGED <<setup, active, raced, sem, pool, posts, job, calls, halted>>

FindFreeSlot(c) ==
  /\ At(c, "free")
  /\ slot[c] <= Slots
  /\ IF free[slot[c]] = Null
     THEN Goto(c, "put") /\ UNCHANGED slot
     ELSE slot' = [slot EXCEPT ![c] = @ + 1] /\ UNCHANGED pc
  /\ UNCHANGED <<setup, queue, sem, heap, free, handle, seen, posts, job, history, halted>>

EndRound(c) == /\ handle' = [handle EXCEPT ![c] = Null]
               /\ slot' = [slot EXCEPT ![c] = 1]
               /\ Goto(c, "idle")

PutGroup(c) ==
  /\ At(c, "put")
  /\ free[slot[c]] = Null
  /\ free' = [free EXCEPT ![slot[c]] = handle[c]]
  /\ EndRound(c)
  /\ UNCHANGED <<setup, queue, sem, heap, seen, posts, job, history, halted>>

MissSlot(c) ==
  /\ At(c, "put")
  /\ free[slot[c]] # Null
  /\ slot' = [slot EXCEPT ![c] = @ + 1]
  /\ Goto(c, "free")
  /\ UNCHANGED <<setup, queue, sem, heap, free, handle, seen, posts, job, history, halted>>

DeleteGroup(c) ==
  /\ At(c, "free")
  /\ slot[c] > Slots
  /\ heap' = heap \ {handle[c]}
  /\ EndRound(c)
  /\ UNCHANGED <<setup, queue, sem, free, seen, posts, job, history, halted>>

FreeTaskGroup(c) == \/ Reset(c)
                    \/ FindFreeSlot(c)
                    \/ PutGroup(c)
                    \/ MissSlot(c)
                    \/ DeleteGroup(c)

-----------------------------------------------------------------------------
ClientStep(c) == \/ CheckThreads(c)
                 \/ InitTaskSystem(c)
                 \/ AllocTaskGroup(c)
                 \/ ISPCLaunch(c)
                 \/ Sync(c)
                 \/ FreeTaskGroup(c)

(* No client has a round left and the workers wait, or the program is gone. *)
Rest == /\ \/ halted # "no"
           \/ \A t \in Threads : pc[t] \in {"idle", "none", "wait"}
        /\ UNCHANGED vars

Next == \/ \E c \in Clients : ClientStep(c)
        \/ \E w \in Workers : WorkerStep(w)
        \/ Rest

(* Every thread is scheduled again and again. *)
Fairness == /\ \A c \in Clients : WF_vars(ClientStep(c))
            /\ \A w \in Workers : WF_vars(WorkerStep(w))

Spec == Init /\ [][Next]_vars /\ Fairness

-----------------------------------------------------------------------------
Labels == {"idle", "spin", "create", "start", "reserve", "reserved", "unlock",
           "alloc", "take", "open", "add", "post", "sync", "help", "run", "ran",
           "reset", "free", "put", "none", "wait", "woken"}

(* The types of the shared variables, of the groups and of each thread. *)
TypeOK ==
  /\ pc \in [Threads -> Labels]
  /\ lock \in BOOLEAN /\ threads \in BOOLEAN /\ raced \in BOOLEAN
  /\ copied \in Seq(Groups) /\ active \in Seq(Groups)
  /\ sem \in Nat
  /\ group \in [Groups -> [waiting : Seq(1 .. TaskLimit), unfinished : Int,
                           inActive : BOOLEAN, next : 0 .. TaskLimit,
                           info : Seq([client : Clients, number : Nat])]]
  /\ heap \subseteq Groups
  /\ free \in [1 .. Slots -> Groups \cup {Null}]
  /\ handle \in [Clients -> Groups \cup {Null}]
  /\ seen \in [Clients -> Groups \cup {Null}]
  /\ slot \in [Clients -> 1 .. Slots + 1]
  /\ posts \in [Clients -> Nat]
  /\ job \in [Threads -> [group : Groups \cup {Null}, task : 0 .. TaskLimit]]
  /\ calls \in 0 .. MaxCalls
  /\ runs \in [Clients -> Seq(Nat)]
  /\ halted \in {"no", "exit", "assertion", "undefined"}

(* The active list holds the groups with a waiting task, each of them once,  *)
(* as the flag inActiveList of the groups says.  Then no assertion on the    *)
(* list fails, and a thread that looks for work finds what there is.  It     *)
(* takes the mutex everywhere, so the early use of the list is excepted.     *)
ActiveHoldsWaiting ==
  ~ raced => \A g \in Groups :
               LET places == {x \in DOMAIN active : active[x] = g}
               IN /\ Cardinality(places) = IF group[g].inActive THEN 1 ELSE 0
                  /\ group[g].inActive <=> group[g].waiting # << >>

(* The clients that hold a group, as opposed to giving it back. *)
Holders(g) == {c \in Clients : handle[c] = g /\ pc[c] \notin {"free", "put"}}

(* A task group has one owner: the client whose tasks it holds, a slot of    *)
(* freeTaskGroups, or the client that is about to put it there.  No thread   *)
(* runs a task of a group that has no client any more, or counts for it.     *)
OneOwner ==
  \A g \in Groups :
    LET slots == {x \in 1 .. Slots : free[x] = g}
        clients == {c \in Clients : handle[c] = g}
    IN /\ Cardinality(slots) + Cardinality(clients) = IF g \in heap THEN 1 ELSE 0
       /\ (\E t \in Threads : job[t].group = g) => Holders(g) # {}

(* The counter, which Sync waits for, is below the number of unfinished      *)
(* tasks exactly by those that Launch has queued and not counted yet.        *)
CounterCounts ==
  \A g \in Groups :
    LET uncounted == {c \in Holders(g) : pc[c] = "add"}
        taken == {t \in Threads : job[t].group = g}
        queued == Len(group[g].waiting) + Cardinality(taken)
    IN \/ uncounted = {} /\ group[g].unfinished = queued
       \/ \E c \in uncounted : group[g].unfinished = queued - posts[c]

(* Neither an assertion nor anything undefined stops the program, but for    *)
(* the early use of the active list; and exit is called only if one round    *)
(* launches more tasks than there are infos, however often the group was     *)
(* used before.                                                              *)
StopsForAReason ==
  /\ halted \in {"assertion", "undefined"} => raced
  /\ halted = "exit" =>
       \E c \in Clients : \E n \in Counts : Len(runs[c]) + n > TaskLimit

(* "when the function is ready to return, it waits for all of the tasks in   *)
(* its task group to finish before it actually returns" (the comment on      *)
(* TaskGroupBase): every task runs once, before its client goes on.          *)
Promise == INSTANCE ForkJoin
RunsTasksOnce == Promise!Spec

(* Sync returns: with tasks that are nobody's, or somebody else's, with no   *)
(* workers to wait for, with tokens that woke workers for nothing.           *)
SyncReturns == \A c \in Clients : pc[c] = "sync" ~> pc[c] = "idle" \/ halted # "no"

(* assert(ptr == tg) in AllocTaskGroup: what the compare-and-swap has taken  *)
(* from the slot is the group that was read there.                           *)
TakesWhatItRead == \A c \in Clients : ~ SlotHoldsOther(c)
=============================================================================
