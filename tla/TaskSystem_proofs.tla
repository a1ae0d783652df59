------------------------- MODULE TaskSystem_proofs --------------------------
(***************************************************************************)
(* The types of the task system, where its task groups, its lock and its   *)
(* threads are, and what its clients rely on: the counter that Sync waits  *)
(* for, the active list, one owner for each group, and that every task of  *)
(* a round is run once before the round ends.                              *)
(*                                                                         *)
(* The types are not inductive on their own.  That CreateGroup finds an    *)
(* address needs a count: a group that exists is in a slot or with a       *)
(* client, and there are more addresses than slots and other clients.  So  *)
(* the invariant Owned also says where each group is (OwnInv), where each  *)
(* thread can be (PlaceInv) and who is in InitTaskSystem (LockInv).        *)
(*                                                                         *)
(* TasksInv follows each task of a group in use, from the waiting ones to  *)
(* the thread that has taken it to the counter, and relates the group to   *)
(* the numbers in runs of its client.  QueueInv is about the active list.  *)
(* Both are inductive together with Owned.  SlotInv, which is inductive    *)
(* for two clients, is about the slots of freeTaskGroups.                  *)
(***************************************************************************)
EXTENDS TaskSystem, OperatorLemmas

(* Where a client holds the lock of InitTaskSystem, where it has a task      *)
(* group, and where tasks of that group can be waiting or running.           *)
Locked == {"create", "start", "reserve", "reserved", "unlock"}
Using == {"open", "add", "post", "sync", "help", "run", "ran", "reset"}
Holding == Using \cup {"free", "put"}

LockInv ==
  /\ \A c \in Clients : pc[c] \in Locked => lock
  /\ \A c, d \in Clients : pc[c] \in Locked /\ pc[d] \in Locked => c = d
  /\ \A c \in Clients : pc[c] = "create" => ~ threads
  /\ ~ threads => \A w \in Workers : pc[w] = "none"
  /\ \A c \in Clients : pc[c] = "start" => threads /\ \A w \in Workers : pc[w] = "none"

ClientInv ==
  \A c \in Clients : /\ pc[c] \notin {"none", "wait", "woken"}
                     /\ handle[c] # Null <=> pc[c] \in Holding
                     /\ pc[c] = "take" => seen[c] # Null /\ slot[c] <= Slots
                     /\ pc[c] = "put" => slot[c] <= Slots
                     /\ pc[c] \in {"add", "post"} => posts[c] > 0

WorkerInv == \A w \in Workers : pc[w] \in {"none", "wait", "woken", "run", "ran"}

RunningInv == \A t \in Threads : job[t].group # Null <=> pc[t] \in {"run", "ran"}

InfosInv == \A g \in Groups : group[g].next <= Len(group[g].info)

PlaceInv == ClientInv /\ WorkerInv /\ RunningInv /\ InfosInv

OwnInv ==
  /\ \A x, y \in 1 .. Slots : free[x] = free[y] /\ free[x] # Null => x = y
  /\ \A c, d \in Clients : handle[c] = handle[d] /\ handle[c] # Null => c = d
  /\ \A c \in Clients : \A x \in 1 .. Slots : handle[c] # Null => free[x] # handle[c]
  /\ \A g \in Groups : g \in heap <=> \/ \E x \in 1 .. Slots : free[x] = g
                                      \/ \E c \in Clients : handle[c] = g

Owned == TypeOK /\ LockInv /\ PlaceInv /\ OwnInv

-----------------------------------------------------------------------------
(* The types. *)

ControlType == /\ pc \in [Threads -> Labels]
               /\ lock \in BOOLEAN /\ threads \in BOOLEAN /\ raced \in BOOLEAN
               /\ halted \in {"no", "exit", "assertion", "undefined"}

NumberType == /\ sem \in Nat
              /\ calls \in 0 .. MaxCalls
              /\ slot \in [Clients -> 1 .. Slots + 1]
              /\ posts \in [Clients -> Nat]

PlaceType == /\ heap \subseteq Groups
             /\ free \in [1 .. Slots -> Groups \cup {Null}]
             /\ handle \in [Clients -> Groups \cup {Null}]
             /\ seen \in [Clients -> Groups \cup {Null}]

Infos == [client : Clients, number : Nat]

TaskGroups == [waiting : Seq(1 .. TaskLimit), unfinished : Int,
               inActive : BOOLEAN, next : 0 .. TaskLimit, info : Seq(Infos)]

Jobs == [group : Groups \cup {Null}, task : 0 .. TaskLimit]

DataType == /\ copied \in Seq(Groups) /\ active \in Seq(Groups)
            /\ group \in [Groups -> TaskGroups]
            /\ job \in [Threads -> Jobs]
            /\ runs \in [Clients -> Seq(Nat)]

(* The parts of the type invariant, in the form in which the proofs use it. *)
LEMMA DataTypes ==
  ASSUME TypeOK
  PROVE  /\ group \in [Groups -> TaskGroups]
         /\ job \in [Threads -> Jobs]
         /\ runs \in [Clients -> Seq(Nat)]
         /\ active \in Seq(Groups)
         /\ handle \in [Clients -> Groups \cup {Null}]
         /\ free \in [1 .. Slots -> Groups \cup {Null}]
         /\ seen \in [Clients -> Groups \cup {Null}]
         /\ slot \in [Clients -> 1 .. Slots + 1]
         /\ posts \in [Clients -> Nat]
         /\ pc \in [Threads -> Labels]
         /\ Clients \subseteq Threads /\ Workers \subseteq Threads
         /\ \A c \in Clients : c \notin Workers
         /\ Null \notin Groups /\ TaskLimit \in Nat /\ Slots \in Nat
         /\ Counts \subseteq Nat \ {0}
  BY ThreadsAssumption, LimitsAssumption, GroupsAssumption
     DEF TypeOK, TaskGroups, Jobs, Infos, Threads

(* CreateGroup finds an address: the client itself holds no group, and the   *)
(* groups that exist are in a slot or with another client.                   *)
LEMMA RoomForGroup ==
  ASSUME TypeOK, OwnInv, NEW c \in Clients, handle[c] = Null
  PROVE  \E g \in Groups : g \notin heap
<1>. DEFINE inSlots == {free[x] : x \in 1 .. Slots}
            others == Clients \ {c}
            held == {handle[d] : d \in others}
<1>1. /\ free \in [1 .. Slots -> Groups \cup {Null}]
      /\ handle \in [Clients -> Groups \cup {Null}]
      /\ Slots \in Nat
      /\ IsFiniteSet(Clients) /\ Null \notin Groups
      /\ IsFiniteSet(Groups)
      /\ Cardinality(Groups) >= Cardinality(Clients) + Slots
  BY LimitsAssumption, ThreadsAssumption, GroupsAssumption DEF TypeOK
<1>2. heap \subseteq inSlots \cup held
  <2>1. ASSUME NEW g \in heap PROVE g \in inSlots \cup held
    <3>1. g \in Groups /\ g # Null
      BY <1>1 DEF TypeOK
    <3>2. (\E x \in 1 .. Slots : free[x] = g) \/ \E d \in Clients : handle[d] = g
      BY <3>1 DEF OwnInv
    <3>. QED
      BY <3>1, <3>2
  <2>. QED
    BY <2>1
<1>3. IsFiniteSet(inSlots) /\ Cardinality(inSlots) <= Slots
  <2>1. IsFiniteSet(1 .. Slots) /\ Cardinality(1 .. Slots) = Slots
    BY <1>1, FS_Interval
  <2>. QED
    BY <2>1, ImageSize
<1>4. IsFiniteSet(held) /\ Cardinality(held) <= Cardinality(Clients) - 1
  <2>1. IsFiniteSet(others) /\ Cardinality(others) = Cardinality(Clients) - 1
    BY <1>1, FS_RemoveElement
  <2>. QED
    BY <2>1, ImageSize
<1>5. /\ IsFiniteSet(inSlots \cup held)
      /\ Cardinality(inSlots \cup held) < Cardinality(Groups)
  <2>. HIDE DEF inSlots, held
  <2>1. IsFiniteSet(inSlots \cap held)
    BY <1>3, FS_Intersection
  <2>2. /\ Cardinality(inSlots) \in Nat /\ Cardinality(held) \in Nat
        /\ Cardinality(inSlots \cap held) \in Nat
        /\ Cardinality(Clients) \in Nat /\ Cardinality(Groups) \in Nat
    BY <1>1, <1>3, <1>4, <2>1, FS_CardinalityType
  <2>3. /\ IsFiniteSet(inSlots \cup held)
        /\ Cardinality(inSlots \cup held)
             = Cardinality(inSlots) + Cardinality(held) - Cardinality(inSlots \cap held)
    BY <1>3, <1>4, FS_Union
  <2>. QED
    BY <1>1, <1>3, <1>4, <2>2, <2>3
<1>6. heap # Groups
  <2>1. ASSUME heap = Groups PROVE FALSE
    <3>1. Cardinality(Groups) <= Cardinality(inSlots \cup held)
      BY <1>2, <1>5, <2>1, FS_Subset
    <3>2. Cardinality(Groups) \in Nat /\ Cardinality(inSlots \cup held) \in Nat
      BY <1>1, <1>5, FS_CardinalityType
    <3>. QED
      BY <1>5, <3>1, <3>2
  <2>. QED
    BY <2>1
<1>. QED
  BY <1>6 DEF TypeOK

(* The control state. *)
LEMMA ControlTypeStep ==
  ASSUME TypeOK, Next
  PROVE  ControlType'
<1>0. ControlType
  BY DEF TypeOK, ControlType
<1>. USE DEF ControlType, Labels, Threads, At, Goto, Halt, setup, queue, pool, history
<1>1. ASSUME NEW t \in Threads, AssertWaiting(t) \/ RunTask(t) \/ Decrement(t)
      PROVE  ControlType'
  BY <1>1, <1>0 DEF AssertWaiting, RunTask, Decrement, NoJob
<1>2. ASSUME NEW c \in Clients, CheckThreads(c)
      PROVE  ControlType'
  BY <1>2, <1>0 DEF CheckThreads
<1>3. ASSUME NEW c \in Clients, InitTaskSystem(c)
      PROVE  ControlType'
  BY <1>3, <1>0 DEF InitTaskSystem, TakeLock, PublishThreads, StartWorkers,
     BeginReserve, EndReserve, BreakVector, Unlock
<1>4. ASSUME NEW c \in Clients, AllocTaskGroup(c)
      PROVE  ControlType'
  BY <1>4, <1>0 DEF AllocTaskGroup, ReadSlot, TakeGroup, MissGroup,
     SlotHoldsOther, CreateGroup, NewGroup
<1>5. ASSUME NEW c \in Clients, ISPCLaunch(c)
      PROVE  ControlType'
  BY <1>5, <1>0 DEF ISPCLaunch, Launch, UseActive, TooManyTasks,
     AddUnfinished, Post
<1>6. ASSUME NEW c \in Clients, Sync(c)
      PROVE  ControlType'
  BY <1>6, <1>1, <1>0 DEF Sync, CheckUnfinished, TakeOwn, Take, UseActive,
     TakeUnlisted, TakeOther, TakeFromLast, TakeNothing, Threads
<1>7. ASSUME NEW c \in Clients, FreeTaskGroup(c)
      PROVE  ControlType'
  BY <1>7, <1>0 DEF FreeTaskGroup, Reset, Cleared, FindFreeSlot, PutGroup,
     EndRound, MissSlot, DeleteGroup
<1>8. ASSUME NEW w \in Workers, WorkerStep(w)
      PROVE  ControlType'
  BY <1>8, <1>1, <1>0 DEF WorkerStep, WaitForWork, HasToken, WorkerTakes,
     Take, TakeFromLast, UseActive, Threads
<1>9. CASE Rest
  BY <1>9, <1>0 DEF Rest, vars
<1>. QED
  BY <1>2, <1>3, <1>4, <1>5, <1>6, <1>7, <1>8, <1>9 DEF Next, ClientStep

(* The numbers. *)
LEMMA NumberTypeStep ==
  ASSUME TypeOK, PlaceInv, Next
  PROVE  NumberType'
<1>0. NumberType /\ MaxCalls \in Nat /\ Slots \in Nat /\ Counts \subseteq Nat
  BY LimitsAssumption DEF TypeOK, NumberType
<1>a. \A c \in Clients : /\ pc[c] \in {"take", "put"} => slot[c] <= Slots
                         /\ pc[c] = "post" => posts[c] > 0
  BY DEF PlaceInv, ClientInv
<1>. USE DEF NumberType, At, Goto, Halt, setup, queue, pool, history
<1>1. ASSUME NEW t \in Threads, AssertWaiting(t) \/ RunTask(t) \/ Decrement(t)
      PROVE  NumberType'
  BY <1>1, <1>0, <1>a DEF AssertWaiting, RunTask, Decrement, NoJob
<1>2. ASSUME NEW c \in Clients, CheckThreads(c)
      PROVE  NumberType'
  BY <1>2, <1>0, <1>a DEF CheckThreads
<1>3. ASSUME NEW c \in Clients, InitTaskSystem(c)
      PROVE  NumberType'
  BY <1>3, <1>0, <1>a DEF InitTaskSystem, TakeLock, PublishThreads,
     StartWorkers, BeginReserve, EndReserve, BreakVector, Unlock
<1>4. ASSUME NEW c \in Clients, AllocTaskGroup(c)
      PROVE  NumberType'
  <2>1. CASE ReadSlot(c)
    BY <2>1, <1>0, <1>a DEF ReadSlot
  <2>2. CASE MissGroup(c)
    BY <2>2, <1>0, <1>a DEF MissGroup, SlotHoldsOther
  <2>3. CASE TakeGroup(c) \/ CreateGroup(c)
    BY <2>3, <1>0, <1>a DEF TakeGroup, CreateGroup, NewGroup
  <2>. QED
    BY <1>4, <2>1, <2>2, <2>3 DEF AllocTaskGroup
<1>5. ASSUME NEW c \in Clients, ISPCLaunch(c)
      PROVE  NumberType'
  <2>1. ASSUME NEW n \in Counts, Launch(c, n) PROVE NumberType'
    <3>1. /\ n \in Nat /\ calls' = calls + 1 /\ calls < MaxCalls
          /\ posts' = [posts EXCEPT ![c] = n]
          /\ UNCHANGED <<sem, slot>>
      BY <2>1, <1>0 DEF Launch
    <3>. QED
      BY <1>0, <3>1
  <2>2. CASE Post(c)
    BY <2>2, <1>0, <1>a DEF Post
  <2>3. CASE (\E n \in Counts : TooManyTasks(c, n)) \/ AddUnfinished(c)
    BY <2>3, <1>0, <1>a DEF TooManyTasks, AddUnfinished
  <2>. QED
    BY <1>5, <2>1, <2>2, <2>3 DEF ISPCLaunch
<1>6. ASSUME NEW c \in Clients, Sync(c)
      PROVE  NumberType'
  <2>1. CASE TakeOwn(c)
    BY <2>1, <1>0, <1>a DEF TakeOwn, Take, UseActive
  <2>2. CASE TakeUnlisted(c)
    BY <2>2, <1>0, <1>a DEF TakeUnlisted, Take, UseActive
  <2>3. CASE TakeOther(c)
    BY <2>3, <1>0, <1>a DEF TakeOther, Take, TakeFromLast, UseActive
  <2>4. CASE CheckUnfinished(c) \/ TakeNothing(c)
    BY <2>4, <1>0, <1>a DEF CheckUnfinished, TakeNothing, UseActive
  <2>. QED
    BY <1>6, <2>1, <2>2, <2>3, <2>4, <1>1 DEF Sync, Threads
<1>7. ASSUME NEW c \in Clients, FreeTaskGroup(c)
      PROVE  NumberType'
  <2>1. CASE FindFreeSlot(c)
    BY <2>1, <1>0, <1>a DEF FindFreeSlot
  <2>2. CASE MissSlot(c)
    BY <2>2, <1>0, <1>a DEF MissSlot
  <2>3. CASE Reset(c) \/ PutGroup(c) \/ DeleteGroup(c)
    BY <2>3, <1>0, <1>a DEF Reset, Cleared, PutGroup, EndRound, DeleteGroup
  <2>. QED
    BY <1>7, <2>1, <2>2, <2>3 DEF FreeTaskGroup
<1>8. ASSUME NEW w \in Workers, WorkerStep(w)
      PROVE  NumberType'
  <2>1. CASE WorkerTakes(w)
    BY <2>1, <1>0, <1>a DEF WorkerTakes, Take, TakeFromLast, UseActive
  <2>2. CASE WaitForWork(w)
    BY <2>2, <1>0, <1>a DEF WaitForWork, HasToken
  <2>. QED
    BY <1>8, <2>1, <2>2, <1>1 DEF WorkerStep, Threads
<1>9. CASE Rest
  BY <1>9, <1>0, <1>a DEF Rest, vars
<1>. QED
  BY <1>2, <1>3, <1>4, <1>5, <1>6, <1>7, <1>8, <1>9 DEF Next, ClientStep

(* The places, with the address that CreateGroup finds. *)
LEMMA PlaceTypeStep ==
  ASSUME TypeOK, PlaceInv, OwnInv, Next
  PROVE  PlaceType'
<1>0. PlaceType /\ slot \in [Clients -> 1 .. Slots + 1]
  BY DEF TypeOK, PlaceType
<1>. USE DEF PlaceType, At, Goto, Halt, setup, queue, pool, history
<1>1. ASSUME NEW t \in Threads, AssertWaiting(t) \/ RunTask(t) \/ Decrement(t)
      PROVE  PlaceType'
  BY <1>1, <1>0 DEF AssertWaiting, RunTask, Decrement, NoJob
<1>2. ASSUME NEW c \in Clients, CheckThreads(c)
      PROVE  PlaceType'
  BY <1>2, <1>0 DEF CheckThreads
<1>3. ASSUME NEW c \in Clients, InitTaskSystem(c)
      PROVE  PlaceType'
  BY <1>3, <1>0 DEF InitTaskSystem, TakeLock, PublishThreads, StartWorkers,
     BeginReserve, EndReserve, BreakVector, Unlock
<1>4. ASSUME NEW c \in Clients, AllocTaskGroup(c)
      PROVE  PlaceType'
  <2>1. CASE ReadSlot(c)
    BY <2>1, <1>0 DEF ReadSlot
  <2>2. CASE TakeGroup(c)
    BY <2>2, <1>0 DEF TakeGroup
  <2>3. CASE CreateGroup(c)
    <3>1. handle[c] = Null
      BY <2>3 DEF CreateGroup, PlaceInv, ClientInv, Holding, Using
    <3>2. (CHOOSE g \in Groups : g \notin heap) \in Groups
      BY <3>1, RoomForGroup
    <3>. QED
      BY <2>3, <1>0, <3>2 DEF CreateGroup
  <2>4. CASE MissGroup(c)
    BY <2>4, <1>0 DEF MissGroup, SlotHoldsOther
  <2>. QED
    BY <1>4, <2>1, <2>2, <2>3, <2>4 DEF AllocTaskGroup
<1>5. ASSUME NEW c \in Clients, ISPCLaunch(c)
      PROVE  PlaceType'
  BY <1>5, <1>0 DEF ISPCLaunch, Launch, UseActive, TooManyTasks,
     AddUnfinished, Post
<1>6. ASSUME NEW c \in Clients, Sync(c)
      PROVE  PlaceType'
  <2>1. CASE TakeOwn(c)
    BY <2>1, <1>0 DEF TakeOwn, Take, UseActive
  <2>2. CASE TakeUnlisted(c)
    BY <2>2, <1>0 DEF TakeUnlisted, Take, UseActive
  <2>3. CASE TakeOther(c)
    BY <2>3, <1>0 DEF TakeOther, Take, TakeFromLast, UseActive
  <2>4. CASE CheckUnfinished(c) \/ TakeNothing(c)
    BY <2>4, <1>0 DEF CheckUnfinished, TakeNothing, UseActive
  <2>. QED
    BY <1>6, <2>1, <2>2, <2>3, <2>4, <1>1 DEF Sync, Threads
<1>7. ASSUME NEW c \in Clients, FreeTaskGroup(c)
      PROVE  PlaceType'
  <2>1. CASE PutGroup(c)
    BY <2>1, <1>0 DEF PutGroup, EndRound
  <2>2. CASE DeleteGroup(c)
    BY <2>2, <1>0 DEF DeleteGroup, EndRound
  <2>3. CASE Reset(c) \/ FindFreeSlot(c) \/ MissSlot(c)
    BY <2>3, <1>0 DEF Reset, Cleared, FindFreeSlot, MissSlot
  <2>. QED
    BY <1>7, <2>1, <2>2, <2>3 DEF FreeTaskGroup
<1>8. ASSUME NEW w \in Workers, WorkerStep(w)
      PROVE  PlaceType'
  <2>1. CASE WorkerTakes(w)
    BY <2>1, <1>0 DEF WorkerTakes, Take, TakeFromLast, UseActive
  <2>2. CASE WaitForWork(w)
    BY <2>2, <1>0 DEF WaitForWork, HasToken
  <2>. QED
    BY <1>8, <2>1, <2>2, <1>1 DEF WorkerStep, Threads
<1>9. CASE Rest
  BY <1>9, <1>0 DEF Rest, vars
<1>. QED
  BY <1>2, <1>3, <1>4, <1>5, <1>6, <1>7, <1>8, <1>9 DEF Next, ClientStep

-----------------------------------------------------------------------------
(* What the steps do to the groups, field by field. *)

(* A sequence of numbers with one of them counted up. *)
LEMMA ExceptInSeq ==
  ASSUME NEW r \in Seq(Nat), NEW b
  PROVE  [r EXCEPT ![b] = @ + 1] \in Seq(Nat)
<1>. DEFINE q == [r EXCEPT ![b] = @ + 1]
<1>1. DOMAIN q = 1 .. Len(r) /\ q = [x \in 1 .. Len(r) |-> q[x]]
  OBVIOUS
<1>2. \A x \in 1 .. Len(r) : q[x] \in Nat
  OBVIOUS
<1>. HIDE DEF q
<1>3. q \in Seq(Nat)
  <2>1. q \in [1 .. Len(r) -> Nat]
    BY <1>1, <1>2
  <2>. QED
    BY <2>1
<1>. QED
  BY <1>3 DEF q

(* Thread t takes a task of g: the last waiting one.                         *)
LEMMA TakeEffect ==
  ASSUME TypeOK, NEW t \in Threads, NEW g \in Groups, NEW shorter \in Seq(Groups),
         Take(t, g, shorter)
  PROVE  /\ group' \in [Groups -> TaskGroups]
         /\ job' \in [Threads -> Jobs]
         /\ active' \in Seq(Groups)
         /\ group[g].waiting # << >>
         /\ \A h \in Groups :
              /\ h # g => group'[h] = group[h]
              /\ group'[h].unfinished = group[h].unfinished
              /\ group'[h].next = group[h].next
              /\ group'[h].info = group[h].info
         /\ Len(group'[g].waiting) = Len(group[g].waiting) - 1
         /\ \A x \in 1 .. Len(group[g].waiting) - 1 :
              group'[g].waiting[x] = group[g].waiting[x]
         /\ group'[g].inActive <=> group[g].inActive /\ Len(group[g].waiting) # 1
         /\ job'[t] = [group |-> g, task |-> group[g].waiting[Len(group[g].waiting)]]
         /\ \A u \in Threads : u # t => job'[u] = job[u]
         /\ active' = IF Len(group[g].waiting) = 1 THEN shorter ELSE active
         /\ pc' = [pc EXCEPT ![t] = "run"]
<1>. DEFINE r == group[g]
            w == r.waiting
<1>1. /\ r \in TaskGroups /\ w # << >> /\ w \in Seq(1 .. TaskLimit)
      /\ group \in [Groups -> TaskGroups] /\ job \in [Threads -> Jobs]
      /\ active \in Seq(Groups)
  BY DataTypes DEF Take, TaskGroups
<1>2. /\ Len(w) \in Nat \ {0} /\ Last(w) \in 1 .. TaskLimit /\ Last(w) = w[Len(w)]
      /\ Front(w) \in Seq(1 .. TaskLimit) /\ Len(Front(w)) = Len(w) - 1
      /\ \A x \in 1 .. Len(w) - 1 : Front(w)[x] = w[x]
  BY <1>1, LastFront
<1>3. /\ job' = [job EXCEPT ![t] = [group |-> g, task |-> Last(w)]]
      /\ pc' = [pc EXCEPT ![t] = "run"]
      /\ Len(w) = 1 => /\ group' = [group EXCEPT ![g] =
                                      [r EXCEPT !.waiting = << >>, !.inActive = FALSE]]
                       /\ active' = shorter
      /\ Len(w) # 1 => /\ group' = [group EXCEPT ![g] = [r EXCEPT !.waiting = Front(w)]]
                       /\ active' = active
  BY DEF Take, Goto
<1>4. << >> \in Seq(1 .. TaskLimit) /\ FALSE \in BOOLEAN
  OBVIOUS
<1>5. r.inActive \in BOOLEAN
  BY <1>1 DEF TaskGroups
<1>6. job' \in [Threads -> Jobs] /\ active' \in Seq(Groups)
  BY <1>1, <1>2, <1>3 DEF Jobs
<1>7. /\ job'[t] = [group |-> g, task |-> w[Len(w)]]
      /\ \A u \in Threads : u # t => job'[u] = job[u]
      /\ active' = IF Len(w) = 1 THEN shorter ELSE active
  BY <1>1, <1>2, <1>3
<1>8. pc' = [pc EXCEPT ![t] = "run"]
  BY <1>3
<1>. HIDE DEF r
<1>9. CASE Len(w) = 1
  <2>. DEFINE q == [r EXCEPT !.waiting = << >>, !.inActive = FALSE]
  <2>1. q \in TaskGroups
    BY <1>1, <1>4 DEF TaskGroups
  <2>2. /\ q.unfinished = r.unfinished /\ q.next = r.next /\ q.info = r.info
        /\ Len(q.waiting) = 0 /\ ~ q.inActive
    BY <1>1 DEF TaskGroups
  <2>3. group' = [group EXCEPT ![g] = q]
    BY <1>3, <1>9
  <2>. HIDE DEF q
  <2>4. group' \in [Groups -> TaskGroups] /\ group'[g] = q
        /\ \A h \in Groups : h # g => group'[h] = group[h]
    BY <1>1, <2>1, <2>3
  <2>5. /\ \A h \in Groups :
              /\ group'[h].unfinished = group[h].unfinished
              /\ group'[h].next = group[h].next
              /\ group'[h].info = group[h].info
        /\ ~ group'[g].inActive /\ Len(group'[g].waiting) = 0
    BY <2>2, <2>4 DEF r
  <2>6. group[g].waiting = w
    BY DEF r
  <2>7. /\ group[g].waiting # << >>
        /\ Len(group'[g].waiting) = Len(group[g].waiting) - 1
        /\ \A x \in 1 .. Len(group[g].waiting) - 1 :
             group'[g].waiting[x] = group[g].waiting[x]
        /\ group'[g].inActive <=> group[g].inActive /\ Len(group[g].waiting) # 1
    <3>1. group[g].waiting # << >>
      BY <1>1, <2>6
    <3>2. Len(group'[g].waiting) = Len(group[g].waiting) - 1
      BY <1>9, <2>5, <2>6
    <3>3. \A x \in 1 .. Len(group[g].waiting) - 1 :
             group'[g].waiting[x] = group[g].waiting[x]
      <4>1. Len(group[g].waiting) = 1
        BY <1>9, <2>6
      <4>2. 1 .. Len(group[g].waiting) - 1 = {}
        BY <4>1
      <4>. QED
        BY <4>2
    <3>4. group'[g].inActive <=> group[g].inActive /\ Len(group[g].waiting) # 1
      BY <1>9, <2>5, <2>6
    <3>. QED
      BY <3>1, <3>2, <3>3, <3>4
  <2>. QED
    BY <1>6, <1>7, <1>8, <2>4, <2>5, <2>6, <2>7
<1>10. CASE Len(w) # 1
  <2>. DEFINE q == [r EXCEPT !.waiting = Front(w)]
  <2>1. q \in TaskGroups
    BY <1>1, <1>2 DEF TaskGroups
  <2>2. /\ q.unfinished = r.unfinished /\ q.next = r.next /\ q.info = r.info
        /\ q.waiting = Front(w) /\ (q.inActive <=> r.inActive)
    BY <1>1 DEF TaskGroups
  <2>3. group' = [group EXCEPT ![g] = q]
    BY <1>3, <1>10
  <2>. HIDE DEF q
  <2>4. group' \in [Groups -> TaskGroups] /\ group'[g] = q
        /\ \A h \in Groups : h # g => group'[h] = group[h]
    BY <1>1, <2>1, <2>3
  <2>. QED
    BY <1>1, <1>2, <1>5, <1>6, <1>7, <1>8, <1>10, <2>2, <2>4 DEF r
<1>. QED
  BY <1>9, <1>10

(* The count of a group changes.                                             *)
LEMMA UnfinishedEffect ==
  ASSUME TypeOK, NEW g \in Groups, NEW u \in Int,
         group' = [group EXCEPT ![g].unfinished = u]
  PROVE  /\ group' \in [Groups -> TaskGroups]
         /\ group'[g].unfinished = u
         /\ \A h \in Groups :
              /\ h # g => group'[h] = group[h]
              /\ group'[h].waiting = group[h].waiting
              /\ group'[h].inActive <=> group[h].inActive
              /\ group'[h].next = group[h].next
              /\ group'[h].info = group[h].info
<1>1. group \in [Groups -> TaskGroups]
  BY DataTypes
<1>. QED
  BY <1>1 DEF TaskGroups

(* AddUnfinished changes one count, to an integer. *)
LEMMA AddEffect ==
  ASSUME TypeOK, NEW c \in Clients, AddUnfinished(c), handle[c] \in Groups
  PROVE  /\ group[handle[c]].unfinished + posts[c] \in Int
         /\ group' = [group EXCEPT ![handle[c]].unfinished
                        = group[handle[c]].unfinished + posts[c]]
  BY DataTypes DEF AddUnfinished, CountWith, TaskGroups

(* Decrement changes one count, to an integer. *)
LEMMA DecrementEffect ==
  ASSUME TypeOK, NEW t \in Threads, Decrement(t), job[t].group \in Groups
  PROVE  /\ group[job[t].group].unfinished - 1 \in Int
         /\ group' = [group EXCEPT ![job[t].group].unfinished
                        = group[job[t].group].unfinished - 1]
  BY DataTypes DEF Decrement, CountedGroup, TaskGroups

(* Reset clears the count and the index of the next info. *)
LEMMA ResetEffect ==
  ASSUME TypeOK, NEW c \in Clients, Reset(c), handle[c] \in Groups,
         ~ group[handle[c]].inActive
  PROVE  LET g == handle[c]
         IN /\ group' \in [Groups -> TaskGroups]
            /\ group'[g].next = 0 /\ group'[g].unfinished = 0
            /\ \A h \in Groups :
                 /\ h # g => group'[h] = group[h]
                 /\ group'[h].waiting = group[h].waiting
                 /\ group'[h].inActive <=> group[h].inActive
                 /\ group'[h].info = group[h].info
<1>. DEFINE g == handle[c]
            r == group[g]
            q == [r EXCEPT !.next = 0, !.unfinished = 0]
<1>1. r \in TaskGroups /\ group \in [Groups -> TaskGroups]
  BY DataTypes
<1>2. group' = [group EXCEPT ![g] = q]
  BY DEF Reset, Cleared
<1>3. 0 \in 0 .. TaskLimit /\ 0 \in Int
  BY DataTypes
<1>. HIDE DEF r
<1>4. /\ q \in TaskGroups /\ q.next = 0 /\ q.unfinished = 0
      /\ q.waiting = r.waiting /\ (q.inActive <=> r.inActive) /\ q.info = r.info
  BY <1>1, <1>3 DEF TaskGroups
<1>. HIDE DEF q
<1>5. group' \in [Groups -> TaskGroups] /\ group'[g] = q
      /\ \A h \in Groups : h # g => group'[h] = group[h]
  BY <1>1, <1>2, <1>4
<1>. QED
  BY <1>4, <1>5 DEF r

(* CreateGroup finds an address, and the group there is a new one. *)
LEMMA CreateEffect ==
  ASSUME TypeOK, OwnInv, NEW c \in Clients, CreateGroup(c), handle[c] = Null
  PROVE  \E g \in Groups :
           /\ g \notin heap
           /\ heap' = heap \cup {g}
           /\ handle' = [handle EXCEPT ![c] = g]
           /\ group' = [group EXCEPT ![g] = NewGroup]
           /\ NewGroup \in TaskGroups
<1>1. (CHOOSE g \in Groups : g \notin heap) \in Groups \ heap
  BY RoomForGroup
<1>2. NewGroup \in TaskGroups
  <2>1. << >> \in Seq(1 .. TaskLimit)
    OBVIOUS
  <2>2. << >> \in Seq(Infos)
    OBVIOUS
  <2>. QED
    BY <2>1, <2>2, DataTypes DEF NewGroup, TaskGroups
<1>. QED
  BY <1>1, <1>2 DEF CreateGroup

(* A launch of n tasks: their infos, the tasks at the end of the waiting     *)
(* ones, one number for each in runs.                                        *)
LEMMA LaunchEffect ==
  ASSUME TypeOK, PlaceInv, NEW c \in Clients, NEW n \in Counts, Launch(c, n),
         handle[c] \in Groups
  PROVE  LET g == handle[c]
             base == group[g].next
             old == Len(group[g].waiting)
         IN /\ group' \in [Groups -> TaskGroups]
            /\ base \in Nat /\ n \in Nat \ {0} /\ old \in Nat
            /\ \A h \in Groups : h # g => group'[h] = group[h]
            /\ group'[g].next = base + n
            /\ group'[g].unfinished = group[g].unfinished
            /\ group'[g].inActive
            /\ Len(group'[g].waiting) = old + n
            /\ \A x \in 1 .. old + n :
                 group'[g].waiting[x] = IF x <= old THEN group[g].waiting[x]
                                        ELSE base + (x - old)
            /\ Len(group'[g].info) >= base + n
            /\ \A x \in 1 .. base + n :
                 group'[g].info[x] =
                   IF x <= base THEN group[g].info[x]
                   ELSE [client |-> c, number |-> Len(runs[c]) + x - base]
            /\ runs' \in [Clients -> Seq(Nat)]
            /\ \A d \in Clients : d # c => runs'[d] = runs[d]
            /\ Len(runs'[c]) = Len(runs[c]) + n
            /\ \A k \in 1 .. Len(runs[c]) + n :
                 runs'[c][k] = IF k <= Len(runs[c]) THEN runs[c][k] ELSE 0
<1>. DEFINE g == handle[c]
            r == group[g]
            base == r.next
            w == r.waiting
            old == r.info
            done == runs[c]
            infoAt(x) == IF x <= base THEN old[x]
                         ELSE [client |-> c, number |-> Len(done) + x - base]
            new == [x \in 1 .. base + n |-> infoAt(x)]
            rest == SubSeq(old, base + n + 1, Len(old))
            tasks == [x \in 1 .. n |-> base + x]
            zeros == [x \in 1 .. n |-> 0]
<1>1. /\ r \in TaskGroups /\ group \in [Groups -> TaskGroups]
      /\ runs \in [Clients -> Seq(Nat)] /\ done \in Seq(Nat)
      /\ n \in Nat \ {0} /\ TaskLimit \in Nat
  BY DataTypes
<1>2. /\ base \in 0 .. TaskLimit /\ w \in Seq(1 .. TaskLimit) /\ old \in Seq(Infos)
      /\ r.unfinished \in Int /\ base <= Len(old) /\ base + n <= TaskLimit
      /\ Len(old) \in Nat /\ Len(w) \in Nat /\ Len(done) \in Nat
  <2>1. base + n <= TaskLimit
    BY DEF Launch
  <2>2. base <= Len(old)
    BY DEF PlaceInv, InfosInv
  <2>. QED
    BY <1>1, <2>1, <2>2 DEF TaskGroups
<1>3. group' = [group EXCEPT ![g] = [r EXCEPT !.info = new \o rest, !.next = base + n,
                                             !.waiting = w \o tasks, !.inActive = TRUE]]
  BY DEF Launch
<1>4. runs' = [runs EXCEPT ![c] = done \o zeros]
  BY DEF Launch
<1>. HIDE DEF r
<1>5. /\ new \in Seq(Infos) /\ Len(new) = base + n
      /\ \A x \in 1 .. base + n : new[x] = infoAt(x)
  <2>1. ASSUME NEW x \in 1 .. base + n PROVE infoAt(x) \in Infos
    <3>1. CASE x <= base
      BY <1>1, <1>2, <3>1
    <3>2. CASE ~ (x <= base)
      BY <1>1, <1>2, <3>2 DEF Infos
    <3>. QED
      BY <3>1, <3>2
  <2>2. base + n \in Nat
    BY <1>1, <1>2
  <2>. HIDE DEF infoAt
  <2>. QED
    BY <2>1, <2>2
<1>6. rest \in Seq(Infos)
  <2>1. \A x \in base + n + 1 .. Len(old) : old[x] \in Infos
    BY <1>1, <1>2
  <2>. QED
    BY <1>1, <1>2, <2>1, SubSeqProperties
<1>7. /\ tasks \in Seq(1 .. TaskLimit) /\ Len(tasks) = n
      /\ \A x \in 1 .. n : tasks[x] = base + x
  BY <1>1, <1>2
<1>8. zeros \in Seq(Nat) /\ Len(zeros) = n /\ \A x \in 1 .. n : zeros[x] = 0
  BY <1>1
<1>. HIDE DEF new, rest, tasks, zeros
<1>9. /\ new \o rest \in Seq(Infos) /\ Len(new \o rest) >= base + n
      /\ \A x \in 1 .. base + n : (new \o rest)[x] = new[x]
  <2>1. /\ new \o rest \in Seq(Infos)
        /\ Len(new \o rest) = Len(new) + Len(rest)
        /\ \A x \in 1 .. Len(new) + Len(rest) :
             (new \o rest)[x] = IF x <= Len(new) THEN new[x] ELSE rest[x - Len(new)]
    BY <1>5, <1>6, ConcatProperties
  <2>2. Len(rest) \in Nat
    BY <1>6
  <2>. QED
    BY <1>1, <1>2, <1>5, <2>1, <2>2
<1>10. /\ w \o tasks \in Seq(1 .. TaskLimit) /\ Len(w \o tasks) = Len(w) + n
       /\ \A x \in 1 .. Len(w) + n :
            (w \o tasks)[x] = IF x <= Len(w) THEN w[x] ELSE tasks[x - Len(w)]
  BY <1>2, <1>7, ConcatProperties
<1>11. /\ done \o zeros \in Seq(Nat) /\ Len(done \o zeros) = Len(done) + n
       /\ \A x \in 1 .. Len(done) + n :
            (done \o zeros)[x] = IF x <= Len(done) THEN done[x] ELSE zeros[x - Len(done)]
  BY <1>1, <1>8, ConcatProperties
<1>. DEFINE infos == new \o rest
            queued == w \o tasks
            all == done \o zeros
            q == [r EXCEPT !.info = infos, !.next = base + n,
                           !.waiting = queued, !.inActive = TRUE]
<1>12. group' = [group EXCEPT ![g] = q]
  BY <1>3
<1>13. runs' = [runs EXCEPT ![c] = all]
  BY <1>4
<1>14. /\ infos \in Seq(Infos) /\ Len(infos) >= base + n
       /\ \A x \in 1 .. base + n : infos[x] = infoAt(x)
  BY <1>5, <1>9
<1>15. /\ queued \in Seq(1 .. TaskLimit) /\ Len(queued) = Len(w) + n
       /\ \A x \in 1 .. Len(w) + n :
            queued[x] = IF x <= Len(w) THEN w[x] ELSE base + (x - Len(w))
  BY <1>1, <1>2, <1>7, <1>10
<1>16. /\ all \in Seq(Nat) /\ Len(all) = Len(done) + n
       /\ \A x \in 1 .. Len(done) + n : all[x] = IF x <= Len(done) THEN done[x] ELSE 0
  BY <1>1, <1>2, <1>8, <1>11
<1>. HIDE DEF infos, queued, all
<1>17. /\ q \in TaskGroups
       /\ q.next = base + n /\ q.unfinished = r.unfinished /\ q.inActive
       /\ q.waiting = queued /\ q.info = infos
  <2>. DEFINE m == base + n
  <2>1. m \in 0 .. TaskLimit /\ TRUE \in BOOLEAN
    BY <1>1, <1>2
  <2>. HIDE DEF m
  <2>2. [r EXCEPT !.info = infos, !.next = m, !.waiting = queued, !.inActive = TRUE]
          \in TaskGroups
    BY <1>1, <1>14, <1>15, <2>1 DEF TaskGroups
  <2>3. q \in TaskGroups
    BY <2>2 DEF m
  <2>. QED
    BY <1>1, <2>3 DEF TaskGroups
<1>. HIDE DEF q
<1>18. /\ group' \in [Groups -> TaskGroups] /\ group'[g] = q
       /\ \A h \in Groups : h # g => group'[h] = group[h]
  BY <1>1, <1>12, <1>17
<1>19. /\ runs' \in [Clients -> Seq(Nat)] /\ runs'[c] = all
       /\ \A d \in Clients : d # c => runs'[d] = runs[d]
  BY <1>1, <1>13, <1>16
<1>20. /\ group[g] = r /\ group'[g] = q
  BY <1>18 DEF r
<1>21. /\ Len(q.info) >= base + n
       /\ \A x \in 1 .. base + n :
            q.info[x] = IF x <= base THEN old[x]
                        ELSE [client |-> c, number |-> Len(done) + x - base]
  BY <1>14, <1>17
<1>22. /\ Len(q.waiting) = Len(w) + n
       /\ \A x \in 1 .. Len(w) + n :
            q.waiting[x] = IF x <= Len(w) THEN w[x] ELSE base + (x - Len(w))
  BY <1>15, <1>17
<1>23. /\ Len(group'[g].info) >= group[g].next + n
       /\ \A x \in 1 .. group[g].next + n :
            group'[g].info[x] =
              IF x <= group[g].next THEN group[g].info[x]
              ELSE [client |-> c, number |-> Len(runs[c]) + x - group[g].next]
  BY <1>20, <1>21
<1>24. /\ Len(group'[g].waiting) = Len(group[g].waiting) + n
       /\ \A x \in 1 .. Len(group[g].waiting) + n :
            group'[g].waiting[x] = IF x <= Len(group[g].waiting)
                                   THEN group[g].waiting[x]
                                   ELSE group[g].next + (x - Len(group[g].waiting))
  BY <1>20, <1>22
<1>25. /\ Len(runs'[c]) = Len(runs[c]) + n
       /\ \A k \in 1 .. Len(runs[c]) + n :
            runs'[c][k] = IF k <= Len(runs[c]) THEN runs[c][k] ELSE 0
  BY <1>16, <1>19
<1>26. /\ group'[g].next = group[g].next + n
       /\ group'[g].unfinished = group[g].unfinished
       /\ group'[g].inActive
       /\ group[g].next \in Nat /\ Len(group[g].waiting) \in Nat
  BY <1>1, <1>2, <1>17, <1>20
<1>. QED
  BY <1>1, <1>18, <1>19, <1>23, <1>24, <1>25, <1>26
(* The lists, the groups, the jobs and the runs. *)
LEMMA DataTypeStep ==
  ASSUME TypeOK, PlaceInv, OwnInv, Next
  PROVE  DataType'
<1>0. DataType /\ handle \in [Clients -> Groups \cup {Null}]
  BY DataTypes DEF TypeOK, DataType
<1>h. \A c \in Clients : handle[c] # Null <=> pc[c] \in Holding
  BY DEF PlaceInv, ClientInv
<1>. USE DEF At, Goto, Halt, setup, queue, pool, history
<1>1. ASSUME NEW t \in Threads, AssertWaiting(t) \/ RunTask(t) \/ Decrement(t)
      PROVE  DataType'
  <2>1. CASE RunTask(t)
    <3>. DEFINE info == group[job[t].group].info[job[t].task]
    <3>1. runs' = [runs EXCEPT ![info.client][info.number] = @ + 1]
      BY <2>1 DEF RunTask
    <3>. HIDE DEF info
    <3>2. runs' \in [Clients -> Seq(Nat)]
      <4>1. CASE info.client \in Clients
        <5>. DEFINE q == [runs[info.client] EXCEPT ![info.number] = @ + 1]
        <5>1. q \in Seq(Nat)
          BY <1>0, <4>1, ExceptInSeq DEF DataType
        <5>2. runs' = [runs EXCEPT ![info.client] = q]
          BY <3>1
        <5>. QED
          BY <1>0, <5>1, <5>2 DEF DataType
      <4>2. CASE info.client \notin Clients
        BY <1>0, <3>1, <4>2 DEF DataType
      <4>. QED
        BY <4>1, <4>2
    <3>. QED
      BY <2>1, <1>0, <3>2 DEF RunTask, DataType
  <2>2. CASE Decrement(t)
    <3>1. job[t].group \in Groups
      BY <2>2, <1>0 DEF Decrement, PlaceInv, RunningInv, Jobs, DataType
    <3>2. group' \in [Groups -> TaskGroups]
      BY <2>2, <3>1, DecrementEffect, UnfinishedEffect
    <3>3. NoJob \in Jobs
      BY LimitsAssumption DEF NoJob, Jobs
    <3>4. job' \in [Threads -> Jobs]
      BY <2>2, <1>0, <3>3 DEF Decrement, DataType
    <3>. QED
      BY <2>2, <1>0, <3>2, <3>4 DEF Decrement, DataType
  <2>3. CASE AssertWaiting(t)
    BY <2>3, <1>0 DEF AssertWaiting, DataType
  <2>. QED
    BY <1>1, <2>1, <2>2, <2>3
<1>2. ASSUME NEW c \in Clients, CheckThreads(c)
      PROVE  DataType'
  BY <1>2, <1>0 DEF CheckThreads, DataType
<1>3. ASSUME NEW c \in Clients, InitTaskSystem(c)
      PROVE  DataType'
  <2>1. CASE EndReserve(c)
    BY <2>1, <1>0, EmptySeq DEF EndReserve, DataType
  <2>2. CASE TakeLock(c) \/ PublishThreads(c) \/ StartWorkers(c) \/
            BeginReserve(c) \/ BreakVector(c) \/ Unlock(c)
    BY <2>2, <1>0 DEF TakeLock, DataType, PublishThreads, StartWorkers,
       BeginReserve, BreakVector, Unlock
  <2>. QED
    BY <1>3, <2>1, <2>2 DEF InitTaskSystem
<1>4. ASSUME NEW c \in Clients, AllocTaskGroup(c)
      PROVE  DataType'
  <2>1. CASE CreateGroup(c)
    <3>1. handle[c] = Null
      BY <2>1, <1>h DEF CreateGroup, Holding, Using
    <3>2. \E g \in Groups : /\ group' = [group EXCEPT ![g] = NewGroup]
                            /\ NewGroup \in TaskGroups
      BY <2>1, <3>1, CreateEffect
    <3>3. group' \in [Groups -> TaskGroups]
      BY <1>0, <3>2 DEF DataType
    <3>. QED
      BY <2>1, <1>0, <3>3, EmptySeq DEF CreateGroup, DataType
  <2>2. CASE ReadSlot(c) \/ TakeGroup(c) \/ MissGroup(c)
    BY <2>2, <1>0 DEF ReadSlot, DataType, TakeGroup, MissGroup,
       SlotHoldsOther
  <2>. QED
    BY <1>4, <2>1, <2>2 DEF AllocTaskGroup
<1>5. ASSUME NEW c \in Clients, ISPCLaunch(c)
      PROVE  DataType'
  <2>1. ASSUME NEW n \in Counts, Launch(c, n) PROVE DataType'
    <3>1. handle[c] \in Groups
      BY <2>1, <1>0, <1>h DEF Launch, Holding, Using
    <3>2. group' \in [Groups -> TaskGroups] /\ runs' \in [Clients -> Seq(Nat)]
      BY <2>1, <3>1, LaunchEffect
    <3>3. active' \in Seq(Groups)
      BY <2>1, <1>0, <3>1, AppendProperties DEF Launch, ActiveWith, DataType
    <3>4. UNCHANGED <<copied, job>>
      BY <2>1 DEF Launch
    <3>. QED
      BY <1>0, <3>2, <3>3, <3>4 DEF DataType
  <2>2. CASE AddUnfinished(c)
    <3>1. handle[c] \in Groups
      BY <2>2, <1>0, <1>h DEF AddUnfinished, Holding, Using
    <3>2. group' \in [Groups -> TaskGroups]
      BY <2>2, <3>1, AddEffect, UnfinishedEffect
    <3>. QED
      BY <2>2, <1>0, <3>2 DEF AddUnfinished, DataType
  <2>3. CASE (\E n \in Counts : TooManyTasks(c, n)) \/ Post(c)
    BY <2>3, <1>0 DEF TooManyTasks, DataType, Post
  <2>. QED
    BY <1>5, <2>1, <2>2, <2>3 DEF ISPCLaunch
<1>6. ASSUME NEW c \in Clients, Sync(c)
      PROVE  DataType'
  <2>1. CASE TakeOwn(c)
    <3>1. handle[c] \in Groups /\ c \in Threads
      BY <2>1, <1>0, <1>h DEF TakeOwn, Holding, Using, Threads
    <3>2. RemoveFirst(active, handle[c]) \in Seq(Groups)
      BY <2>1, <1>0, RemoveFirstProperties DEF TakeOwn, DataType
    <3>. QED
      BY <2>1, <1>0, <3>1, <3>2, TakeEffect DEF TakeOwn, DataType
  <2>2. CASE TakeUnlisted(c)
    <3>1. handle[c] \in Groups /\ c \in Threads /\ active \in Seq(Groups)
      BY <2>2, <1>0, <1>h DEF TakeUnlisted, Holding, Using, Threads, DataType
    <3>. QED
      BY <2>2, <1>0, <3>1, TakeEffect DEF TakeUnlisted, DataType
  <2>3. CASE TakeOther(c)
    <3>1. Last(active) \in Groups /\ Front(active) \in Seq(Groups) /\ c \in Threads
      BY <2>3, <1>0, LastFront DEF TakeOther, DataType, Threads
    <3>. QED
      BY <2>3, <1>0, <3>1, TakeEffect DEF TakeOther, TakeFromLast, DataType
  <2>4. CASE CheckUnfinished(c) \/ TakeNothing(c)
    BY <2>4, <1>0 DEF CheckUnfinished, DataType, TakeNothing, UseActive
  <2>. QED
    BY <1>6, <2>1, <2>2, <2>3, <2>4, <1>1 DEF Sync, Threads
<1>7. ASSUME NEW c \in Clients, FreeTaskGroup(c)
      PROVE  DataType'
  <2>1. CASE Reset(c)
    <3>1. CASE group[handle[c]].inActive
      BY <2>1, <1>0, <3>1 DEF Reset, DataType
    <3>2. CASE ~ group[handle[c]].inActive
      <4>1. handle[c] \in Groups
        BY <2>1, <1>0, <1>h DEF Reset, Holding, Using
      <4>2. group' \in [Groups -> TaskGroups]
        BY <2>1, <3>2, <4>1, ResetEffect
      <4>3. runs' \in [Clients -> Seq(Nat)]
        BY <2>1, <1>0, <3>2, EmptySeq DEF Reset, DataType
      <4>. QED
        BY <2>1, <1>0, <3>2, <4>2, <4>3 DEF Reset, DataType
    <3>. QED
      BY <3>1, <3>2
  <2>2. CASE FindFreeSlot(c) \/ PutGroup(c) \/ MissSlot(c) \/ DeleteGroup(c)
    BY <2>2, <1>0 DEF FindFreeSlot, DataType, PutGroup, EndRound, MissSlot,
       DeleteGroup
  <2>. QED
    BY <1>7, <2>1, <2>2 DEF FreeTaskGroup
<1>8. ASSUME NEW w \in Workers, WorkerStep(w)
      PROVE  DataType'
  <2>1. CASE WorkerTakes(w)
    <3>1. CASE active # << >>
      <4>1. Last(active) \in Groups /\ Front(active) \in Seq(Groups) /\ w \in Threads
        BY <1>0, <3>1, LastFront DEF DataType, Threads
      <4>. QED
        BY <2>1, <1>0, <3>1, <4>1, TakeEffect DEF WorkerTakes, TakeFromLast, DataType
    <3>2. CASE active = << >>
      BY <2>1, <1>0, <3>2 DEF WorkerTakes, DataType
    <3>. QED
      BY <3>1, <3>2
  <2>2. CASE WaitForWork(w)
    BY <2>2, <1>0 DEF WaitForWork, HasToken, DataType
  <2>. QED
    BY <1>8, <2>1, <2>2, <1>1 DEF WorkerStep, Threads
<1>9. CASE Rest
  BY <1>9, <1>0 DEF Rest, vars, DataType
<1>. QED
  BY <1>2, <1>3, <1>4, <1>5, <1>6, <1>7, <1>8, <1>9 DEF Next, ClientStep

-----------------------------------------------------------------------------
(* The lock of InitTaskSystem. *)

(* What the steps outside of InitTaskSystem do to what LockInv speaks of.    *)
Elsewhere ==
  /\ UNCHANGED <<lock, threads>>
  /\ \A t \in Threads : pc'[t] # pc[t] => /\ pc[t] \notin Locked \cup {"none"}
                                         /\ pc'[t] \notin Locked \cup {"none"}

(* Outside of InitTaskSystem nobody touches the lock, and only clients that
   are not in its critical section move, or the one that is. *)
LEMMA OutsideInit ==
  ASSUME TypeOK, Next
  PROVE  Elsewhere \/ \E c \in Clients : InitTaskSystem(c)
<1>0. pc \in [Threads -> Labels]
  BY DEF TypeOK
<1>. USE <1>0 DEF Elsewhere, At, Goto, Halt, Locked, Threads, setup
<1>1. ASSUME NEW c \in Clients, CheckThreads(c) PROVE Elsewhere
  BY <1>1 DEF CheckThreads
<1>2. ASSUME NEW c \in Clients, AllocTaskGroup(c) PROVE Elsewhere
  <2>1. CASE ReadSlot(c)
    BY <2>1 DEF ReadSlot
  <2>2. CASE TakeGroup(c) \/ CreateGroup(c)
    BY <2>2 DEF TakeGroup, CreateGroup
  <2>3. CASE MissGroup(c)
    BY <2>3 DEF MissGroup
  <2>. QED
    BY <1>2, <2>1, <2>2, <2>3 DEF AllocTaskGroup
<1>3. ASSUME NEW c \in Clients, ISPCLaunch(c) PROVE Elsewhere
  <2>1. ASSUME NEW n \in Counts, Launch(c, n) PROVE Elsewhere
    BY <2>1 DEF Launch
  <2>2. ASSUME NEW n \in Counts, TooManyTasks(c, n) PROVE Elsewhere
    BY <2>2 DEF TooManyTasks
  <2>3. CASE AddUnfinished(c) \/ Post(c)
    BY <2>3 DEF AddUnfinished, Post
  <2>. QED
    BY <1>3, <2>1, <2>2, <2>3 DEF ISPCLaunch
<1>4. ASSUME NEW t \in Threads, AssertWaiting(t) \/ RunTask(t) \/ Decrement(t)
      PROVE  Elsewhere
  BY <1>4 DEF AssertWaiting, RunTask, Decrement
<1>5. ASSUME NEW c \in Clients, Sync(c) PROVE Elsewhere
  <2>1. CASE CheckUnfinished(c) \/ TakeNothing(c)
    BY <2>1 DEF CheckUnfinished, TakeNothing
  <2>2. CASE TakeOwn(c) \/ TakeUnlisted(c) \/ TakeOther(c)
    BY <2>2 DEF TakeOwn, TakeUnlisted, TakeOther, TakeFromLast, Take
  <2>. QED
    BY <1>4, <1>5, <2>1, <2>2 DEF Sync
<1>6. ASSUME NEW c \in Clients, FreeTaskGroup(c) PROVE Elsewhere
  BY <1>6 DEF FreeTaskGroup, Reset, FindFreeSlot, PutGroup, MissSlot, DeleteGroup,
              EndRound
<1>7. ASSUME NEW w \in Workers, WorkerStep(w) PROVE Elsewhere
  BY <1>4, <1>7 DEF WorkerStep, WaitForWork, WorkerTakes, TakeFromLast, Take
<1>8. CASE Rest
  BY <1>8 DEF Rest, vars
<1>. QED
  BY <1>1, <1>2, <1>3, <1>5, <1>6, <1>7, <1>8 DEF Next, ClientStep

(* The lock has one holder at a time, and the workers are started once. *)
LEMMA LockStep ==
  ASSUME TypeOK, LockInv, Next
  PROVE  LockInv'
<1>0. pc \in [Threads -> Labels] /\ Clients \cap Workers = {}
  BY ThreadsAssumption DEF TypeOK
<1>. USE DEF LockInv, Locked, At, Goto, Halt, Threads, setup
<1>1. CASE Elsewhere
  BY <1>0, <1>1 DEF Elsewhere
<1>2. ASSUME NEW c \in Clients, InitTaskSystem(c) PROVE LockInv'
  <2>1. CASE TakeLock(c)
    BY <1>0, <2>1 DEF TakeLock
  <2>2. CASE PublishThreads(c)
    BY <1>0, <2>2 DEF PublishThreads
  <2>3. CASE StartWorkers(c)
    BY <1>0, <2>3 DEF StartWorkers
  <2>4. CASE BeginReserve(c)
    BY <1>0, <2>4 DEF BeginReserve
  <2>5. CASE EndReserve(c)
    BY <1>0, <2>5 DEF EndReserve
  <2>6. CASE BreakVector(c)
    BY <2>6 DEF BreakVector
  <2>7. CASE Unlock(c)
    BY <1>0, <2>7 DEF Unlock
  <2>. QED
    BY <1>2, <2>1, <2>2, <2>3, <2>4, <2>5, <2>6, <2>7 DEF InitTaskSystem
<1>. QED
  BY <1>1, <1>2, OutsideInit

(* The clients. *)
LEMMA ClientInvStep ==
  ASSUME TypeOK, OwnInv, ClientInv, WorkerInv, Next
  PROVE  ClientInv'
<1>0. /\ pc \in [Threads -> Labels]
      /\ handle \in [Clients -> Groups \cup {Null}]
      /\ seen \in [Clients -> Groups \cup {Null}]
      /\ slot \in [Clients -> 1 .. Slots + 1]
      /\ posts \in [Clients -> Nat]
      /\ free \in [1 .. Slots -> Groups \cup {Null}]
      /\ Clients \subseteq Threads /\ Workers \subseteq Threads
      /\ \A c \in Clients : c \notin Workers
      /\ Null \notin Groups /\ Slots \in Nat /\ Counts \subseteq Nat \ {0}
  BY DataTypes
<1>. USE DEF At, Goto, Halt, setup, queue, pool, history
<1>. USE DEF ClientInv, Holding, Using
<1>1. ASSUME NEW t \in Threads, AssertWaiting(t) \/ RunTask(t) \/ Decrement(t)
      PROVE  ClientInv'
  BY <1>1, <1>0 DEF AssertWaiting, RunTask, Decrement, NoJob
<1>2. ASSUME NEW c \in Clients, CheckThreads(c)
      PROVE  ClientInv'
  <2>1. CASE CheckThreads(c)
    BY <2>1, <1>0 DEF CheckThreads
  <2>. QED
    BY <1>2, <2>1
<1>3. ASSUME NEW c \in Clients, InitTaskSystem(c)
      PROVE  ClientInv'
  <2>1. CASE TakeLock(c)
    BY <2>1, <1>0 DEF TakeLock
  <2>2. CASE PublishThreads(c)
    BY <2>2, <1>0 DEF PublishThreads
  <2>3. CASE StartWorkers(c)
    BY <2>3, <1>0 DEF StartWorkers
  <2>4. CASE BeginReserve(c)
    BY <2>4, <1>0 DEF BeginReserve
  <2>5. CASE EndReserve(c)
    BY <2>5, <1>0 DEF EndReserve
  <2>6. CASE BreakVector(c)
    BY <2>6, <1>0 DEF BreakVector
  <2>7. CASE Unlock(c)
    BY <2>7, <1>0 DEF Unlock
  <2>. QED
    BY <1>3, <2>1, <2>2, <2>3, <2>4, <2>5, <2>6, <2>7 DEF InitTaskSystem
<1>4. ASSUME NEW c \in Clients, AllocTaskGroup(c)
      PROVE  ClientInv'
  <2>1. CASE ReadSlot(c)
    BY <2>1, <1>0 DEF ReadSlot
  <2>2. CASE TakeGroup(c)
    BY <2>2, <1>0 DEF TakeGroup, StillThere
  <2>3. CASE MissGroup(c)
    BY <2>3, <1>0 DEF MissGroup, SlotHoldsOther, StillThere
  <2>4. CASE CreateGroup(c)
    <3>1. handle[c] = Null
      BY <2>4 DEF CreateGroup, ClientInv, Holding, Using
    <3>2. PICK g \in Groups : handle' = [handle EXCEPT ![c] = g]
      BY <2>4, <3>1, CreateEffect
    <3>3. /\ pc[c] = "alloc" /\ pc' = [pc EXCEPT ![c] = "open"]
          /\ slot' = [slot EXCEPT ![c] = 1]
          /\ UNCHANGED <<posts, seen>>
      BY <2>4 DEF CreateGroup
    <3>. QED
      BY <1>0, <3>2, <3>3 DEF ClientInv, Holding, Using
  <2>. QED
    BY <1>4, <2>1, <2>2, <2>3, <2>4 DEF AllocTaskGroup
<1>5. ASSUME NEW c \in Clients, ISPCLaunch(c)
      PROVE  ClientInv'
  <2>1. ASSUME NEW n \in Counts, Launch(c, n) PROVE ClientInv'
    <3>1. /\ pc[c] = "open" /\ pc' = [pc EXCEPT ![c] = "add"]
          /\ posts' = [posts EXCEPT ![c] = n]
          /\ UNCHANGED <<handle, seen, slot>>
      BY <2>1 DEF Launch
    <3>2. n \in Nat /\ n > 0
      BY <1>0
    <3>. QED
      BY <1>0, <3>1, <3>2 DEF ClientInv, Holding, Using
  <2>2. ASSUME NEW n \in Counts, TooManyTasks(c, n) PROVE ClientInv'
    BY <2>2, <1>0 DEF TooManyTasks
  <2>3. CASE AddUnfinished(c)
    BY <2>3, <1>0 DEF AddUnfinished
  <2>4. CASE Post(c)
    BY <2>4, <1>0 DEF Post
  <2>. QED
    BY <1>5, <2>1, <2>2, <2>3, <2>4 DEF ISPCLaunch
<1>6. ASSUME NEW c \in Clients, Sync(c)
      PROVE  ClientInv'
  <2>1. CASE CheckUnfinished(c)
    BY <2>1, <1>0 DEF CheckUnfinished
  <2>2. CASE TakeOwn(c)
    BY <2>2, <1>0 DEF TakeOwn, Take, UseActive
  <2>3. CASE TakeUnlisted(c)
    BY <2>3, <1>0 DEF TakeUnlisted, Take, UseActive
  <2>4. CASE TakeOther(c)
    BY <2>4, <1>0 DEF TakeOther, Take, TakeFromLast, UseActive
  <2>5. CASE TakeNothing(c)
    BY <2>5, <1>0 DEF TakeNothing, UseActive
  <2>. QED
    BY <1>6, <2>1, <2>2, <2>3, <2>4, <2>5, <1>1 DEF Sync, Threads
<1>7. ASSUME NEW c \in Clients, FreeTaskGroup(c)
      PROVE  ClientInv'
  <2>1. CASE Reset(c)
    BY <2>1, <1>0 DEF Reset, Cleared
  <2>2. CASE FindFreeSlot(c)
    BY <2>2, <1>0 DEF FindFreeSlot
  <2>3. CASE PutGroup(c)
    BY <2>3, <1>0 DEF PutGroup, EndRound
  <2>4. CASE MissSlot(c)
    BY <2>4, <1>0 DEF MissSlot
  <2>5. CASE DeleteGroup(c)
    BY <2>5, <1>0 DEF DeleteGroup, EndRound
  <2>. QED
    BY <1>7, <2>1, <2>2, <2>3, <2>4, <2>5 DEF FreeTaskGroup
<1>8. ASSUME NEW w \in Workers, WorkerStep(w)
      PROVE  ClientInv'
  <2>1. CASE WaitForWork(w)
    BY <2>1, <1>0 DEF WaitForWork, HasToken
  <2>2. CASE WorkerTakes(w)
    BY <2>2, <1>0 DEF WorkerTakes, Take, TakeFromLast, UseActive
  <2>. QED
    BY <1>8, <2>1, <2>2, <1>1 DEF WorkerStep, Threads
<1>9. CASE Rest
  BY <1>9, <1>0 DEF Rest, vars
<1>. QED
  BY <1>2, <1>3, <1>4, <1>5, <1>6, <1>7, <1>8, <1>9 DEF Next, ClientStep

(* The workers. *)
LEMMA WorkerInvStep ==
  ASSUME TypeOK, WorkerInv, Next
  PROVE  WorkerInv'
<1>0. /\ pc \in [Threads -> Labels]
      /\ Clients \subseteq Threads /\ Workers \subseteq Threads
      /\ \A c \in Clients : c \notin Workers
  BY DataTypes
<1>. USE DEF At, Goto, Halt, setup, queue, pool, history
<1>. USE DEF WorkerInv
<1>1. ASSUME NEW t \in Threads, AssertWaiting(t) \/ RunTask(t) \/ Decrement(t)
      PROVE  WorkerInv'
  BY <1>1, <1>0 DEF AssertWaiting, RunTask, Decrement, NoJob
<1>2. ASSUME NEW c \in Clients, CheckThreads(c)
      PROVE  WorkerInv'
  BY <1>2, <1>0 DEF CheckThreads
<1>3. ASSUME NEW c \in Clients, InitTaskSystem(c)
      PROVE  WorkerInv'
  BY <1>3, <1>0 DEF InitTaskSystem, TakeLock, PublishThreads, StartWorkers,
     BeginReserve, EndReserve, BreakVector, Unlock
<1>4. ASSUME NEW c \in Clients, AllocTaskGroup(c)
      PROVE  WorkerInv'
  BY <1>4, <1>0 DEF AllocTaskGroup, ReadSlot, TakeGroup, MissGroup,
     SlotHoldsOther, CreateGroup, NewGroup
<1>5. ASSUME NEW c \in Clients, ISPCLaunch(c)
      PROVE  WorkerInv'
  BY <1>5, <1>0 DEF ISPCLaunch, Launch, UseActive, TooManyTasks,
     AddUnfinished, Post
<1>6. ASSUME NEW c \in Clients, Sync(c)
      PROVE  WorkerInv'
  BY <1>6, <1>1, <1>0 DEF Sync, CheckUnfinished, TakeOwn, Take, UseActive,
     TakeUnlisted, TakeOther, TakeFromLast, TakeNothing, Threads
<1>7. ASSUME NEW c \in Clients, FreeTaskGroup(c)
      PROVE  WorkerInv'
  BY <1>7, <1>0 DEF FreeTaskGroup, Reset, Cleared, FindFreeSlot, PutGroup,
     EndRound, MissSlot, DeleteGroup
<1>8. ASSUME NEW w \in Workers, WorkerStep(w)
      PROVE  WorkerInv'
  BY <1>8, <1>1, <1>0 DEF WorkerStep, WaitForWork, HasToken, WorkerTakes,
     Take, TakeFromLast, UseActive, Threads
<1>9. CASE Rest
  BY <1>9, <1>0 DEF Rest, vars
<1>. QED
  BY <1>2, <1>3, <1>4, <1>5, <1>6, <1>7, <1>8, <1>9 DEF Next, ClientStep

(* A thread that takes a task runs it next, the others keep theirs. *)
LEMMA TakeRunning ==
  ASSUME TypeOK, RunningInv, NEW t \in Threads, NEW g \in Groups,
         NEW shorter \in Seq(Groups), Take(t, g, shorter)
  PROVE  RunningInv'
<1>1. \A u \in Threads : u # t => job'[u] = job[u]
  BY TakeEffect
<1>2. job'[t].group = g
  <2>1. job'[t] = [group |-> g, task |-> group[g].waiting[Len(group[g].waiting)]]
    BY TakeEffect
  <2>. QED
    BY <2>1
<1>3. pc' = [pc EXCEPT ![t] = "run"]
  BY DEF Take, Goto
<1>. QED
  BY <1>1, <1>2, <1>3, DataTypes DEF RunningInv

(* The jobs of the threads. *)
LEMMA RunningInvStep ==
  ASSUME TypeOK, PlaceInv, LockInv, Next
  PROVE  RunningInv'
<1>0. /\ pc \in [Threads -> Labels] /\ job \in [Threads -> Jobs]
      /\ group \in [Groups -> TaskGroups] /\ active \in Seq(Groups)
      /\ handle \in [Clients -> Groups \cup {Null}]
      /\ Clients \subseteq Threads /\ Workers \subseteq Threads
      /\ \A c \in Clients : c \notin Workers
      /\ Null \notin Groups
  BY DataTypes
<1>h. \A c \in Clients : handle[c] # Null <=> pc[c] \in Holding
  BY DEF PlaceInv, ClientInv
<1>r. RunningInv /\ LockInv
  BY DEF PlaceInv
<1>. USE DEF At, Goto, Halt, setup, queue, pool, history
<1>1. ASSUME NEW t \in Threads, AssertWaiting(t) \/ RunTask(t) \/ Decrement(t)
      PROVE  RunningInv'
  <2>1. CASE Decrement(t)
    <3>1. job' = [job EXCEPT ![t] = NoJob] /\ NoJob.group = Null
      BY <2>1 DEF Decrement, NoJob
    <3>2. pc' = [pc EXCEPT ![t] = IF t \in Clients THEN "sync" ELSE "wait"]
      BY <2>1 DEF Decrement
    <3>. QED
      BY <1>0, <1>r, <3>1, <3>2 DEF RunningInv
  <2>2. CASE AssertWaiting(t) \/ RunTask(t)
    BY <2>2, <1>0, <1>r DEF AssertWaiting, RunningInv, RunTask
  <2>. QED
    BY <1>1, <2>1, <2>2
<1>2. ASSUME NEW c \in Clients, CheckThreads(c)
      PROVE  RunningInv'
  BY <1>2, <1>0, <1>r DEF CheckThreads, RunningInv
<1>3. ASSUME NEW c \in Clients, InitTaskSystem(c)
      PROVE  RunningInv'
  <2>1. CASE StartWorkers(c)
    BY <2>1, <1>0, <1>r DEF StartWorkers, RunningInv, LockInv
  <2>2. CASE TakeLock(c) \/ PublishThreads(c) \/ BeginReserve(c) \/
            EndReserve(c) \/ BreakVector(c) \/ Unlock(c)
    BY <2>2, <1>0, <1>r DEF TakeLock, RunningInv, PublishThreads,
       BeginReserve, EndReserve, BreakVector, Unlock
  <2>. QED
    BY <1>3, <2>1, <2>2 DEF InitTaskSystem
<1>4. ASSUME NEW c \in Clients, AllocTaskGroup(c)
      PROVE  RunningInv'
  BY <1>4, <1>0, <1>r DEF AllocTaskGroup, ReadSlot, RunningInv, TakeGroup,
     MissGroup, SlotHoldsOther, CreateGroup, NewGroup
<1>5. ASSUME NEW c \in Clients, ISPCLaunch(c)
      PROVE  RunningInv'
  BY <1>5, <1>0, <1>r DEF ISPCLaunch, Launch, UseActive, RunningInv,
     TooManyTasks, AddUnfinished, Post
<1>6. ASSUME NEW c \in Clients, Sync(c)
      PROVE  RunningInv'
  <2>1. CASE TakeOwn(c)
    <3>1. handle[c] \in Groups /\ c \in Threads
      BY <2>1, <1>0, <1>h DEF TakeOwn, Holding, Using
    <3>2. /\ Take(c, handle[c], RemoveFirst(active, handle[c]))
          /\ RemoveFirst(active, handle[c]) \in Seq(Groups)
      BY <2>1, <1>0, RemoveFirstProperties DEF TakeOwn
    <3>. QED
      BY <1>0, <1>r, <3>1, <3>2, TakeRunning
  <2>2. CASE TakeUnlisted(c)
    <3>1. CASE Len(group[handle[c]].waiting) = 1
      BY <2>2, <1>0, <1>r, <3>1 DEF TakeUnlisted, RunningInv
    <3>2. CASE Len(group[handle[c]].waiting) # 1
      <4>1. handle[c] \in Groups /\ c \in Threads
        BY <2>2, <1>0, <1>h DEF TakeUnlisted, Holding, Using
      <4>2. Take(c, handle[c], active)
        BY <2>2, <3>2 DEF TakeUnlisted
      <4>. QED
        BY <1>0, <1>r, <4>1, <4>2, TakeRunning
    <3>. QED
      BY <3>1, <3>2
  <2>3. CASE TakeOther(c)
    <3>1. /\ Last(active) \in Groups /\ Front(active) \in Seq(Groups)
          /\ Take(c, Last(active), Front(active)) /\ c \in Threads
      BY <2>3, <1>0, LastFront DEF TakeOther, TakeFromLast
    <3>. QED
      BY <1>0, <1>r, <3>1, TakeRunning
  <2>4. CASE CheckUnfinished(c) \/ TakeNothing(c)
    BY <2>4, <1>0, <1>r DEF CheckUnfinished, RunningInv, TakeNothing,
       UseActive
  <2>. QED
    BY <1>6, <2>1, <2>2, <2>3, <2>4, <1>1 DEF Sync, Threads
<1>7. ASSUME NEW c \in Clients, FreeTaskGroup(c)
      PROVE  RunningInv'
  BY <1>7, <1>0, <1>r DEF FreeTaskGroup, Reset, Cleared, RunningInv,
     FindFreeSlot, PutGroup, EndRound, MissSlot, DeleteGroup
<1>8. ASSUME NEW w \in Workers, WorkerStep(w)
      PROVE  RunningInv'
  <2>1. CASE WorkerTakes(w)
    <3>1. CASE active # << >>
      <4>1. /\ Last(active) \in Groups /\ Front(active) \in Seq(Groups)
            /\ Take(w, Last(active), Front(active)) /\ w \in Threads
        BY <2>1, <1>0, <3>1, LastFront DEF WorkerTakes, TakeFromLast
      <4>. QED
        BY <1>0, <1>r, <4>1, TakeRunning
    <3>2. CASE active = << >>
      BY <2>1, <1>0, <1>r, <3>2 DEF WorkerTakes, RunningInv
    <3>. QED
      BY <3>1, <3>2
  <2>2. CASE WaitForWork(w)
    BY <2>2, <1>0, <1>r DEF WaitForWork, HasToken, RunningInv
  <2>. QED
    BY <1>8, <2>1, <2>2, <1>1 DEF WorkerStep, Threads
<1>9. CASE Rest
  BY <1>9, <1>0, <1>r DEF Rest, vars, RunningInv
<1>. QED
  BY <1>2, <1>3, <1>4, <1>5, <1>6, <1>7, <1>8, <1>9 DEF Next, ClientStep

(* The number of the infos. *)
LEMMA InfosInvStep ==
  ASSUME TypeOK, PlaceInv, OwnInv, Next
  PROVE  InfosInv'
<1>0. /\ pc \in [Threads -> Labels] /\ job \in [Threads -> Jobs]
      /\ group \in [Groups -> TaskGroups] /\ active \in Seq(Groups)
      /\ handle \in [Clients -> Groups \cup {Null}]
      /\ Clients \subseteq Threads /\ Workers \subseteq Threads
      /\ \A c \in Clients : c \notin Workers
      /\ Null \notin Groups
  BY DataTypes
<1>h. \A c \in Clients : handle[c] # Null <=> pc[c] \in Holding
  BY DEF PlaceInv, ClientInv
<1>i. InfosInv
  BY DEF PlaceInv
<1>. USE DEF At, Goto, Halt, setup, queue, pool, history
<1>1. ASSUME NEW t \in Threads, AssertWaiting(t) \/ RunTask(t) \/ Decrement(t)
      PROVE  InfosInv'
  <2>1. CASE Decrement(t)
    <3>1. job[t].group \in Groups
      BY <2>1, <1>0 DEF Decrement, PlaceInv, RunningInv, Jobs
    <3>. QED
      BY <2>1, <1>i, <3>1, DecrementEffect, UnfinishedEffect DEF InfosInv
  <2>2. CASE AssertWaiting(t) \/ RunTask(t)
    BY <2>2, <1>i DEF AssertWaiting, InfosInv, RunTask
  <2>. QED
    BY <1>1, <2>1, <2>2
<1>2. ASSUME NEW c \in Clients, CheckThreads(c)
      PROVE  InfosInv'
  BY <1>2, <1>i DEF CheckThreads, InfosInv
<1>3. ASSUME NEW c \in Clients, InitTaskSystem(c)
      PROVE  InfosInv'
  BY <1>3, <1>i DEF InitTaskSystem, TakeLock, InfosInv, PublishThreads,
     StartWorkers, BeginReserve, EndReserve, BreakVector, Unlock
<1>4. ASSUME NEW c \in Clients, AllocTaskGroup(c)
      PROVE  InfosInv'
  <2>1. CASE CreateGroup(c)
    <3>1. handle[c] = Null
      BY <2>1, <1>h DEF CreateGroup, Holding, Using
    <3>2. PICK g \in Groups : group' = [group EXCEPT ![g] = NewGroup]
      BY <2>1, <3>1, CreateEffect DEF PlaceInv
    <3>3. NewGroup.next = 0 /\ Len(NewGroup.info) = 0
      BY DEF NewGroup
    <3>. QED
      BY <1>0, <1>i, <3>2, <3>3 DEF InfosInv
  <2>2. CASE ReadSlot(c) \/ TakeGroup(c) \/ MissGroup(c)
    BY <2>2, <1>i DEF ReadSlot, InfosInv, TakeGroup, MissGroup,
       SlotHoldsOther
  <2>. QED
    BY <1>4, <2>1, <2>2 DEF AllocTaskGroup
<1>5. ASSUME NEW c \in Clients, ISPCLaunch(c)
      PROVE  InfosInv'
  <2>1. ASSUME NEW n \in Counts, Launch(c, n) PROVE InfosInv'
    <3>1. handle[c] \in Groups
      BY <2>1, <1>0, <1>h DEF Launch, Holding, Using
    <3>2. /\ group'[handle[c]].next <= Len(group'[handle[c]].info)
          /\ \A h \in Groups : h # handle[c] => group'[h] = group[h]
      BY <2>1, <3>1, LaunchEffect
    <3>. QED
      BY <1>i, <3>2 DEF InfosInv
  <2>2. CASE AddUnfinished(c)
    <3>1. handle[c] \in Groups
      BY <2>2, <1>0, <1>h DEF AddUnfinished, Holding, Using
    <3>. QED
      BY <2>2, <1>i, <3>1, AddEffect, UnfinishedEffect DEF InfosInv
  <2>3. CASE (\E n \in Counts : TooManyTasks(c, n)) \/ Post(c)
    BY <2>3, <1>i DEF TooManyTasks, InfosInv, Post
  <2>. QED
    BY <1>5, <2>1, <2>2, <2>3 DEF ISPCLaunch
<1>6. ASSUME NEW c \in Clients, Sync(c)
      PROVE  InfosInv'
  <2>1. CASE TakeOwn(c)
    <3>1. handle[c] \in Groups /\ c \in Threads
      BY <2>1, <1>0, <1>h DEF TakeOwn, Holding, Using
    <3>2. /\ Take(c, handle[c], RemoveFirst(active, handle[c]))
          /\ RemoveFirst(active, handle[c]) \in Seq(Groups)
      BY <2>1, <1>0, RemoveFirstProperties DEF TakeOwn
    <3>. QED
      BY <1>i, <1>0, <3>1, <3>2, TakeEffect DEF InfosInv
  <2>2. CASE TakeUnlisted(c)
    <3>1. CASE Len(group[handle[c]].waiting) = 1
      BY <2>2, <1>i, <3>1 DEF TakeUnlisted, InfosInv
    <3>2. CASE Len(group[handle[c]].waiting) # 1
      <4>1. handle[c] \in Groups /\ c \in Threads
        BY <2>2, <1>0, <1>h DEF TakeUnlisted, Holding, Using
      <4>2. Take(c, handle[c], active)
        BY <2>2, <3>2 DEF TakeUnlisted
      <4>. QED
        BY <1>i, <1>0, <4>1, <4>2, TakeEffect DEF InfosInv
    <3>. QED
      BY <3>1, <3>2
  <2>3. CASE TakeOther(c)
    <3>1. /\ Last(active) \in Groups /\ Front(active) \in Seq(Groups)
          /\ Take(c, Last(active), Front(active)) /\ c \in Threads
      BY <2>3, <1>0, LastFront DEF TakeOther, TakeFromLast
    <3>. QED
      BY <1>i, <1>0, <3>1, TakeEffect DEF InfosInv
  <2>4. CASE CheckUnfinished(c) \/ TakeNothing(c)
    BY <2>4, <1>i DEF CheckUnfinished, InfosInv, TakeNothing, UseActive
  <2>. QED
    BY <1>6, <2>1, <2>2, <2>3, <2>4, <1>1 DEF Sync, Threads
<1>7. ASSUME NEW c \in Clients, FreeTaskGroup(c)
      PROVE  InfosInv'
  <2>1. CASE Reset(c)
    <3>1. CASE group[handle[c]].inActive
      BY <2>1, <1>i, <3>1 DEF Reset, InfosInv
    <3>2. CASE ~ group[handle[c]].inActive
      <4>1. handle[c] \in Groups
        BY <2>1, <1>0, <1>h DEF Reset, Holding, Using
      <4>2. \A h \in Groups : Len(group[h].info) \in Nat
        BY <1>0 DEF TaskGroups
      <4>. QED
        BY <2>1, <1>i, <3>2, <4>1, <4>2, ResetEffect DEF InfosInv
    <3>. QED
      BY <3>1, <3>2
  <2>2. CASE FindFreeSlot(c) \/ PutGroup(c) \/ MissSlot(c) \/ DeleteGroup(c)
    BY <2>2, <1>i DEF FindFreeSlot, InfosInv, PutGroup, EndRound, MissSlot,
       DeleteGroup
  <2>. QED
    BY <1>7, <2>1, <2>2 DEF FreeTaskGroup
<1>8. ASSUME NEW w \in Workers, WorkerStep(w)
      PROVE  InfosInv'
  <2>1. CASE WorkerTakes(w)
    <3>1. CASE active # << >>
      <4>1. /\ Last(active) \in Groups /\ Front(active) \in Seq(Groups)
            /\ Take(w, Last(active), Front(active)) /\ w \in Threads
        BY <2>1, <1>0, <3>1, LastFront DEF WorkerTakes, TakeFromLast
      <4>. QED
        BY <1>i, <1>0, <4>1, TakeEffect DEF InfosInv
    <3>2. CASE active = << >>
      BY <2>1, <1>i, <3>2 DEF WorkerTakes, InfosInv
    <3>. QED
      BY <3>1, <3>2
  <2>2. CASE WaitForWork(w)
    BY <2>2, <1>i DEF WaitForWork, HasToken, InfosInv
  <2>. QED
    BY <1>8, <2>1, <2>2, <1>1 DEF WorkerStep, Threads
<1>9. CASE Rest
  BY <1>9, <1>i DEF Rest, vars, InfosInv
<1>. QED
  BY <1>2, <1>3, <1>4, <1>5, <1>6, <1>7, <1>8, <1>9 DEF Next, ClientStep

(* The owners. *)
LEMMA OwnInvStep ==
  ASSUME TypeOK, PlaceInv, OwnInv, Next
  PROVE  OwnInv'
<1>0. /\ pc \in [Threads -> Labels]
      /\ handle \in [Clients -> Groups \cup {Null}]
      /\ seen \in [Clients -> Groups \cup {Null}]
      /\ slot \in [Clients -> 1 .. Slots + 1]
      /\ free \in [1 .. Slots -> Groups \cup {Null}]
      /\ Null \notin Groups /\ Slots \in Nat
  BY DataTypes
<1>h. /\ \A c \in Clients : handle[c] # Null <=> pc[c] \in Holding
      /\ \A c \in Clients : pc[c] = "take" => seen[c] # Null /\ slot[c] <= Slots
      /\ \A c \in Clients : pc[c] = "put" => slot[c] <= Slots
  BY DEF PlaceInv, ClientInv
<1>. USE DEF At, Goto, Halt, setup, queue, pool, history
<1>1. ASSUME NEW t \in Threads, AssertWaiting(t) \/ RunTask(t) \/ Decrement(t)
      PROVE  OwnInv'
  <2>1. CASE AssertWaiting(t)
    BY <2>1 DEF AssertWaiting, OwnInv
  <2>2. CASE RunTask(t)
    BY <2>2 DEF RunTask, OwnInv
  <2>3. CASE Decrement(t)
    BY <2>3 DEF Decrement, NoJob, OwnInv
  <2>. QED
    BY <1>1, <2>1, <2>2, <2>3
<1>2. ASSUME NEW c \in Clients, CheckThreads(c)
      PROVE  OwnInv'
  BY <1>2 DEF CheckThreads, OwnInv
<1>3. ASSUME NEW c \in Clients, InitTaskSystem(c)
      PROVE  OwnInv'
  BY <1>3 DEF InitTaskSystem, TakeLock, OwnInv, PublishThreads,
     StartWorkers, BeginReserve, EndReserve, BreakVector, Unlock
<1>4. ASSUME NEW c \in Clients, AllocTaskGroup(c)
      PROVE  OwnInv'
  <2>1. CASE TakeGroup(c)
    <3>1. slot[c] \in 1 .. Slots
      BY <2>1, <1>0, <1>h DEF TakeGroup
    <3>2. PICK x \in 1 .. Slots : x = slot[c]
      BY <3>1
    <3>3. /\ free[x] # Null /\ free' = [free EXCEPT ![x] = Null]
          /\ handle' = [handle EXCEPT ![c] = free[x]]
      BY <2>1, <1>h, <3>2 DEF TakeGroup, StillThere
    <3>4. handle[c] = Null /\ UNCHANGED heap
      BY <2>1, <1>h DEF TakeGroup, Holding, Using
    <3>5. free[x] \in Groups
      BY <1>0, <3>3
    <3>. QED
      BY <1>0, <3>3, <3>4, <3>5 DEF OwnInv
  <2>2. CASE CreateGroup(c)
    <3>1. handle[c] = Null /\ UNCHANGED free
      BY <2>2, <1>h DEF CreateGroup, Holding, Using
    <3>2. PICK g \in Groups : /\ g \notin heap /\ heap' = heap \cup {g}
                              /\ handle' = [handle EXCEPT ![c] = g]
      BY <2>2, <3>1, CreateEffect
    <3>. QED
      BY <1>0, <3>1, <3>2 DEF OwnInv
  <2>3. CASE ReadSlot(c) \/ MissGroup(c)
    BY <2>3 DEF ReadSlot, OwnInv, MissGroup, SlotHoldsOther
  <2>. QED
    BY <1>4, <2>1, <2>2, <2>3 DEF AllocTaskGroup
<1>5. ASSUME NEW c \in Clients, ISPCLaunch(c)
      PROVE  OwnInv'
  BY <1>5 DEF ISPCLaunch, Launch, UseActive, OwnInv, TooManyTasks,
     AddUnfinished, Post
<1>6. ASSUME NEW c \in Clients, Sync(c)
      PROVE  OwnInv'
  BY <1>6, <1>1 DEF Sync, CheckUnfinished, OwnInv, TakeOwn, Take, UseActive,
     TakeUnlisted, TakeOther, TakeFromLast, TakeNothing, Threads
<1>7. ASSUME NEW c \in Clients, FreeTaskGroup(c)
      PROVE  OwnInv'
  <2>1. CASE PutGroup(c)
    <3>0. slot[c] \in 1 .. Slots
      BY <2>1, <1>0, <1>h DEF PutGroup
    <3>1. PICK x \in 1 .. Slots : /\ free[x] = Null
                                /\ free' = [free EXCEPT ![x] = handle[c]]
      BY <2>1, <3>0 DEF PutGroup
    <3>2. handle[c] # Null /\ handle' = [handle EXCEPT ![c] = Null] /\ UNCHANGED heap
      BY <2>1, <1>h DEF PutGroup, EndRound, Holding, Using
    <3>. QED
      BY <1>0, <3>1, <3>2 DEF OwnInv
  <2>2. CASE DeleteGroup(c)
    <3>1. /\ handle[c] # Null /\ handle' = [handle EXCEPT ![c] = Null]
          /\ heap' = heap \ {handle[c]} /\ UNCHANGED free
      BY <2>2, <1>h DEF DeleteGroup, EndRound, Holding, Using
    <3>. QED
      BY <1>0, <3>1 DEF OwnInv
  <2>3. CASE Reset(c) \/ FindFreeSlot(c) \/ MissSlot(c)
    BY <2>3 DEF Reset, Cleared, OwnInv, FindFreeSlot, MissSlot
  <2>. QED
    BY <1>7, <2>1, <2>2, <2>3 DEF FreeTaskGroup
<1>8. ASSUME NEW w \in Workers, WorkerStep(w)
      PROVE  OwnInv'
  BY <1>8, <1>1 DEF WorkerStep, WaitForWork, HasToken, OwnInv, WorkerTakes,
     Take, TakeFromLast, UseActive, Threads
<1>9. CASE Rest
  BY <1>9 DEF Rest, vars, OwnInv
<1>. QED
  BY <1>2, <1>3, <1>4, <1>5, <1>6, <1>7, <1>8, <1>9 DEF Next, ClientStep

-----------------------------------------------------------------------------
(* The inductive invariant *)

(* The inductive invariant holds at first. *)
LEMMA OwnedInit == Init => Owned
<1>. SUFFICES ASSUME Init PROVE Owned
  OBVIOUS
<1>1. TypeOK
  <2>1. ControlType
    BY DEF Init, ControlType, Labels, Threads
  <2>2. NumberType
    BY LimitsAssumption DEF Init, NumberType
  <2>3. PlaceType
    BY DEF Init, PlaceType
  <2>4. DataType
    <3>1. << >> \in Seq(Groups) /\ << >> \in Seq(Nat)
      OBVIOUS
    <3>2. NewGroup \in TaskGroups
      <4>1. << >> \in Seq(1 .. TaskLimit) /\ << >> \in Seq(Infos)
        OBVIOUS
      <4>. QED
        BY <4>1, LimitsAssumption DEF NewGroup, TaskGroups
    <3>3. NoJob \in Jobs
      BY LimitsAssumption DEF NoJob, Jobs
    <3>. QED
      BY <3>1, <3>2, <3>3 DEF Init, DataType
  <2>. QED
    BY <2>1, <2>2, <2>3, <2>4
       DEF TypeOK, ControlType, NumberType, PlaceType, DataType, TaskGroups, Infos, Jobs
<1>2. LockInv
  BY ThreadsAssumption DEF Init, LockInv, Locked, Threads
<1>3. ClientInv
  BY ThreadsAssumption DEF Init, ClientInv, Holding, Using, Threads
<1>4. WorkerInv /\ RunningInv
  BY ThreadsAssumption DEF Init, WorkerInv, RunningInv, Threads, NoJob
<1>5. InfosInv
  BY DEF Init, InfosInv, NewGroup
<1>6. OwnInv
  BY GroupsAssumption DEF Init, OwnInv
<1>. QED
  BY <1>1, <1>2, <1>3, <1>4, <1>5, <1>6 DEF Owned, PlaceInv

(* Every step keeps it. *)
LEMMA OwnedStep == Owned /\ [Next]_vars => Owned'
<1>. SUFFICES ASSUME Owned, [Next]_vars PROVE Owned'
  OBVIOUS
<1>1. TypeOK /\ LockInv /\ PlaceInv /\ OwnInv
  BY DEF Owned
<1>2. CASE Next
  <2>1. TypeOK'
    <3>1. ControlType' /\ NumberType' /\ PlaceType' /\ DataType'
      BY <1>1, <1>2, ControlTypeStep, NumberTypeStep, PlaceTypeStep, DataTypeStep
    <3>. QED
      BY <3>1 DEF TypeOK, ControlType, NumberType, PlaceType, DataType, TaskGroups,
                  Infos, Jobs
  <2>2. LockInv'
    BY <1>1, <1>2, LockStep
  <2>3. PlaceInv'
    BY <1>1, <1>2, ClientInvStep, WorkerInvStep, RunningInvStep, InfosInvStep DEF PlaceInv
  <2>4. OwnInv'
    BY <1>1, <1>2, OwnInvStep
  <2>. QED
    BY <2>1, <2>2, <2>3, <2>4 DEF Owned
<1>3. CASE UNCHANGED vars
  BY <1>1, <1>3 DEF Owned, TypeOK, LockInv, PlaceInv, ClientInv, WorkerInv, RunningInv,
                    InfosInv, OwnInv, vars, setup, queue, pool, history
<1>. QED
  BY <1>2, <1>3

(* The types of the variables.                                               *)
THEOREM TypeCorrect == Spec => []TypeOK
<1>1. Owned => TypeOK
  BY DEF Owned
<1>. QED
  BY <1>1, OwnedInit, OwnedStep, PTL DEF Spec

(* Every task group that exists is in one slot or with one client, no thread *)
(* works where it cannot be, and the lock of InitTaskSystem has one holder.  *)
THEOREM OwnedAlways == Spec => []Owned
  BY OwnedInit, OwnedStep, PTL DEF Spec

-----------------------------------------------------------------------------
(* Client c has tasks in group g, or may launch some there.                  *)
Uses(c, g) == pc[c] \in Using /\ handle[c] = g

Taken(g) == {t \in Threads : job[t].group = g}

(* A group that nobody uses has nothing to do, and no thread works for it.   *)
IdleInv ==
  \A g \in Groups : (\A c \in Clients : ~ Uses(c, g)) =>
    /\ group[g].waiting = << >>
    /\ group[g].unfinished = 0
    /\ group[g].next = 0
    /\ Taken(g) = {}

(* The infos of a group in use name its client and the tasks of its round.   *)
RoundInv ==
  /\ \A c \in Clients : pc[c] \notin Using => runs[c] = << >>
  /\ \A c \in Clients, g \in Groups : Uses(c, g) =>
       /\ group[g].next = Len(runs[c])
       /\ \A k \in 1 .. Len(runs[c]) :
            group[g].info[k] = [client |-> c, number |-> k]

(* A task waits once, or it has been taken once, and belongs to the round.   *)
WaitInv ==
  \A g \in Groups :
    /\ \A x \in 1 .. Len(group[g].waiting) :
         group[g].waiting[x] \in 1 .. group[g].next
    /\ \A x, y \in 1 .. Len(group[g].waiting) :
         group[g].waiting[x] = group[g].waiting[y] => x = y

JobInv ==
  /\ \A t \in Threads, g \in Groups : job[t].group = g =>
       /\ job[t].task \in 1 .. group[g].next
       /\ \A x \in 1 .. Len(group[g].waiting) : group[g].waiting[x] # job[t].task
  /\ \A t, u \in Threads :
       job[t].group = job[u].group /\ job[t].task = job[u].task /\ job[t].group # Null
         => t = u

(* Task k of group g is still to be run.                                     *)
Pending(g, k) ==
  \/ \E x \in 1 .. Len(group[g].waiting) : group[g].waiting[x] = k
  \/ \E t \in Threads : pc[t] = "run" /\ job[t].group = g /\ job[t].task = k

(* Exactly those have not been run, all others have been run once.           *)
RunsInv ==
  \A c \in Clients, g \in Groups : Uses(c, g) =>
    \A k \in 1 .. Len(runs[c]) : /\ Pending(g, k) => runs[c][k] = 0
                                 /\ ~ Pending(g, k) => runs[c][k] = 1

(* The counter lags behind by the tasks of a launch that is not finished.    *)
CountInv ==
  \A c \in Clients, g \in Groups : Uses(c, g) =>
    /\ group[g].unfinished = Len(group[g].waiting) + Cardinality(Taken(g))
                               - (IF pc[c] = "add" THEN posts[c] ELSE 0)
    /\ pc[c] = "reset" => group[g].unfinished <= 0

TasksInv == IdleInv /\ RoundInv /\ WaitInv /\ JobInv /\ RunsInv /\ CountInv

(* The flag says whether a task waits, and while nobody has raced with       *)
(* reserve, the list holds the groups with the flag, each of them once.      *)
QueueInv ==
  /\ \A g \in Groups : group[g].inActive <=> group[g].waiting # << >>
  /\ ~ raced =>
       /\ \A x, y \in 1 .. Len(active) : active[x] = active[y] => x = y
       /\ \A g \in Groups : group[g].inActive <=> \E x \in 1 .. Len(active) : active[x] = g

-----------------------------------------------------------------------------
(* What the steps do to the tasks. *)

(* Most steps change no task, no count and no user of a group; one that goes *)
(* to "reset" has seen the counter.                                          *)
Quiet ==
  /\ UNCHANGED <<group, job, runs>>
  /\ \A t \in Threads : pc'[t] = "run" <=> pc[t] = "run"
  /\ \A c \in Clients : pc'[c] \in Using <=> pc[c] \in Using
  /\ \A c \in Clients : pc[c] \in Using =>
       /\ handle'[c] = handle[c]
       /\ pc'[c] = "add" <=> pc[c] = "add"
       /\ pc[c] = "add" => posts'[c] = posts[c]
       /\ pc'[c] = "reset" => pc[c] = "reset" \/ group[handle[c]].unfinished <= 0

(* Thread t takes a task of some group.                                      *)
Taking(t) ==
  \E g \in Groups : \E shorter \in Seq(Groups) :
    /\ Take(t, g, shorter)
    /\ UNCHANGED <<handle, posts, runs>>
    /\ t \in Clients => pc[t] = "help"
    /\ pc[t] # "run" /\ job[t].group = Null

(* The other steps.                                                          *)
Loud ==
  \/ \E c \in Clients : \/ TakeGroup(c) \/ CreateGroup(c)
                        \/ \E n \in Counts : Launch(c, n)
                        \/ AddUnfinished(c)
                        \/ Reset(c) /\ ~ group[handle[c]].inActive
  \/ \E t \in Threads : Taking(t) \/ RunTask(t) \/ Decrement(t)
(* Every step is one or the other. *)
LEMMA QuietOrLoud ==
  ASSUME Owned, Next
  PROVE  Quiet \/ Loud
<1>0. /\ pc \in [Threads -> Labels]
      /\ group \in [Groups -> TaskGroups] /\ active \in Seq(Groups)
      /\ handle \in [Clients -> Groups \cup {Null}]
      /\ posts \in [Clients -> Nat]
      /\ Clients \subseteq Threads /\ Workers \subseteq Threads
      /\ \A c \in Clients : c \notin Workers
  BY DataTypes DEF Owned
<1>h. /\ \A c \in Clients : handle[c] # Null <=> pc[c] \in Holding
      /\ \A w \in Workers : pc[w] \in {"none", "wait", "woken", "run", "ran"}
      /\ \A t \in Threads : job[t].group # Null <=> pc[t] \in {"run", "ran"}
      /\ \A c \in Clients : pc[c] \notin {"none", "wait", "woken"}
      /\ \A c \in Clients : pc[c] = "start" => \A w \in Workers : pc[w] = "none"
  BY DEF Owned, LockInv, PlaceInv, ClientInv, WorkerInv, RunningInv
<1>. USE DEF At, Goto, Halt, setup, queue, pool, history
<1>1. ASSUME NEW t \in Threads, AssertWaiting(t) \/ RunTask(t) \/ Decrement(t)
      PROVE  Quiet \/ Loud
  <2>1. CASE RunTask(t)
    BY <2>1 DEF Loud
  <2>2. CASE Decrement(t)
    BY <2>2 DEF Loud
  <2>3. CASE AssertWaiting(t)
    BY <2>3, <1>0, <1>h DEF AssertWaiting, Quiet, Using
  <2>. QED
    BY <1>1, <2>1, <2>2, <2>3
<1>2. ASSUME NEW c \in Clients, CheckThreads(c)
      PROVE  Quiet \/ Loud
  BY <1>2, <1>0, <1>h DEF CheckThreads, Quiet, Using
<1>3. ASSUME NEW c \in Clients, InitTaskSystem(c)
      PROVE  Quiet \/ Loud
  <2>1. CASE StartWorkers(c)
    BY <2>1, <1>0, <1>h DEF StartWorkers, Quiet, Using
  <2>2. CASE TakeLock(c) \/ PublishThreads(c) \/ BeginReserve(c) \/
            EndReserve(c) \/ BreakVector(c) \/ Unlock(c)
    BY <2>2, <1>0, <1>h DEF TakeLock, Quiet, Using, PublishThreads,
       BeginReserve, EndReserve, BreakVector, Unlock
  <2>. QED
    BY <1>3, <2>1, <2>2 DEF InitTaskSystem
<1>4. ASSUME NEW c \in Clients, AllocTaskGroup(c)
      PROVE  Quiet \/ Loud
  <2>1. CASE TakeGroup(c)
    BY <2>1 DEF Loud
  <2>2. CASE CreateGroup(c)
    BY <2>2 DEF Loud
  <2>3. CASE ReadSlot(c) \/ MissGroup(c)
    BY <2>3, <1>0, <1>h DEF ReadSlot, Quiet, Using, MissGroup,
       SlotHoldsOther
  <2>. QED
    BY <1>4, <2>1, <2>2, <2>3 DEF AllocTaskGroup
<1>5. ASSUME NEW c \in Clients, ISPCLaunch(c)
      PROVE  Quiet \/ Loud
  <2>1. ASSUME NEW n \in Counts, Launch(c, n) PROVE Quiet \/ Loud
    BY <2>1 DEF Loud
  <2>2. CASE AddUnfinished(c)
    BY <2>2 DEF Loud
  <2>3. CASE (\E n \in Counts : TooManyTasks(c, n)) \/ Post(c)
    BY <2>3, <1>0, <1>h DEF TooManyTasks, Quiet, Using, Post
  <2>. QED
    BY <1>5, <2>1, <2>2, <2>3 DEF ISPCLaunch
<1>6. ASSUME NEW c \in Clients, Sync(c)
      PROVE  Quiet \/ Loud
  <2>1. CASE CheckUnfinished(c)
    <3>1. handle[c] \in Groups
      BY <2>1, <1>0, <1>h DEF CheckUnfinished, Holding, Using
    <3>2. group[handle[c]].unfinished \in Int
      BY <1>0, <3>1 DEF TaskGroups
    <3>3. pc' = [pc EXCEPT ![c] = IF group[handle[c]].unfinished > 0 THEN "help" ELSE "reset"]
      BY <2>1 DEF CheckUnfinished, HasUnfinished
    <3>4. pc[c] \in {"open", "sync"} /\ UNCHANGED <<group, job, runs, handle, posts>>
      BY <2>1 DEF CheckUnfinished
    <3>. QED
      BY <1>0, <3>2, <3>3, <3>4 DEF Quiet, Using
  <2>2. CASE TakeOwn(c)
    <3>1. handle[c] \in Groups /\ c \in Threads /\ pc[c] = "help"
      BY <2>2, <1>0, <1>h DEF TakeOwn, Holding, Using
    <3>2. /\ Take(c, handle[c], RemoveFirst(active, handle[c]))
          /\ RemoveFirst(active, handle[c]) \in Seq(Groups)
      BY <2>2, <1>0, RemoveFirstProperties DEF TakeOwn
    <3>3. UNCHANGED <<handle, posts, runs>> /\ job[c].group = Null
      BY <2>2, <1>h, <3>1 DEF TakeOwn
    <3>. QED
      BY <3>1, <3>2, <3>3 DEF Loud, Taking
  <2>3. CASE TakeUnlisted(c)
    <3>1. CASE Len(group[handle[c]].waiting) = 1
      BY <2>3, <3>1 DEF TakeUnlisted, Quiet
    <3>2. CASE Len(group[handle[c]].waiting) # 1
      <4>1. handle[c] \in Groups /\ c \in Threads /\ pc[c] = "help"
        BY <2>3, <1>0, <1>h DEF TakeUnlisted, Holding, Using
      <4>2. Take(c, handle[c], active) /\ UNCHANGED <<handle, posts, runs>>
        BY <2>3, <3>2 DEF TakeUnlisted
      <4>3. job[c].group = Null
        BY <1>h, <4>1
      <4>. QED
        BY <1>0, <4>1, <4>2, <4>3 DEF Loud, Taking
    <3>. QED
      BY <3>1, <3>2
  <2>4. CASE TakeOther(c)
    <3>1. Last(active) \in Groups /\ Front(active) \in Seq(Groups)
      BY <2>4, <1>0, LastFront DEF TakeOther
    <3>2. Take(c, Last(active), Front(active)) /\ UNCHANGED <<handle, posts, runs>>
      BY <2>4 DEF TakeOther, TakeFromLast
    <3>3. c \in Threads /\ pc[c] = "help" /\ job[c].group = Null
      BY <2>4, <1>0, <1>h DEF TakeOther
    <3>. QED
      BY <3>1, <3>2, <3>3 DEF Loud, Taking
  <2>5. CASE TakeNothing(c)
    BY <2>5, <1>0, <1>h DEF TakeNothing, UseActive, Quiet, Using
  <2>. QED
    BY <1>6, <2>1, <2>2, <2>3, <2>4, <2>5, <1>1 DEF Sync, Threads
<1>7. ASSUME NEW c \in Clients, FreeTaskGroup(c)
      PROVE  Quiet \/ Loud
  <2>1. CASE Reset(c)
    <3>1. CASE group[handle[c]].inActive
      BY <2>1, <3>1 DEF Reset, Quiet
    <3>2. CASE ~ group[handle[c]].inActive
      BY <2>1, <3>2 DEF Loud
    <3>. QED
      BY <3>1, <3>2
  <2>2. CASE FindFreeSlot(c) \/ PutGroup(c) \/ MissSlot(c) \/ DeleteGroup(c)
    BY <2>2, <1>0, <1>h DEF FindFreeSlot, Quiet, Using, PutGroup, EndRound,
       MissSlot, DeleteGroup
  <2>. QED
    BY <1>7, <2>1, <2>2 DEF FreeTaskGroup
<1>8. ASSUME NEW w \in Workers, WorkerStep(w)
      PROVE  Quiet \/ Loud
  <2>1. CASE WorkerTakes(w)
    <3>1. CASE active # << >>
      <4>1. Last(active) \in Groups /\ Front(active) \in Seq(Groups)
        BY <1>0, <3>1, LastFront
      <4>2. Take(w, Last(active), Front(active)) /\ UNCHANGED <<handle, posts, runs>>
        BY <2>1, <3>1 DEF WorkerTakes, TakeFromLast
      <4>3. w \in Threads /\ w \notin Clients /\ pc[w] # "run" /\ job[w].group = Null
        BY <2>1, <1>0, <1>h DEF WorkerTakes
      <4>. QED
        BY <4>1, <4>2, <4>3 DEF Loud, Taking
    <3>2. CASE active = << >>
      BY <2>1, <1>0, <3>2 DEF WorkerTakes, Quiet, Using
    <3>. QED
      BY <3>1, <3>2
  <2>2. CASE WaitForWork(w)
    BY <2>2, <1>0, <1>h DEF WaitForWork, HasToken, Quiet, Using
  <2>. QED
    BY <1>8, <2>1, <2>2, <1>1 DEF WorkerStep, Threads
<1>9. CASE Rest
  BY <1>9, <1>0, <1>h DEF Rest, vars, Quiet
<1>. QED
  BY <1>2, <1>3, <1>4, <1>5, <1>6, <1>7, <1>8, <1>9 DEF Next, ClientStep

-----------------------------------------------------------------------------
(* Steps that keep TasksInv *)

(* A quiet step keeps the invariant of the tasks. *)
LEMMA QuietTasks ==
  ASSUME Owned, TasksInv, Quiet
  PROVE  TasksInv'
<1>1. \A c \in Clients, g \in Groups : Uses(c, g)' <=> Uses(c, g)
  BY DEF Quiet, Uses
<1>2. \A c \in Clients, g \in Groups : Uses(c, g) =>
        /\ pc'[c] = "add" <=> pc[c] = "add"
        /\ pc[c] = "add" => posts'[c] = posts[c]
        /\ pc'[c] = "reset" => pc[c] = "reset" \/ group[g].unfinished <= 0
  BY DEF Quiet, Uses
<1>3. \A g \in Groups : Taken(g)' = Taken(g)
  BY DEF Quiet, Taken
<1>4. UNCHANGED <<group, job, runs>>
  BY DEF Quiet
<1>5. \A g \in Groups : \A k : Pending(g, k)' <=> Pending(g, k)
  BY DEF Quiet, Pending
<1>6. IdleInv'
  BY <1>1, <1>3, <1>4 DEF TasksInv, IdleInv
<1>7. RoundInv'
  BY <1>1, <1>4 DEF TasksInv, RoundInv, Quiet
<1>8. WaitInv' /\ JobInv'
  BY <1>4 DEF TasksInv, WaitInv, JobInv
<1>9. RunsInv'
  BY <1>1, <1>4, <1>5 DEF TasksInv, RunsInv
<1>10. CountInv'
  BY <1>1, <1>2, <1>3, <1>4 DEF TasksInv, CountInv
<1>. QED
  BY <1>6, <1>7, <1>8, <1>9, <1>10 DEF TasksInv

(* A client gets a group that nobody uses.                                   *)
Opening(c, g) ==
  /\ \A d \in Clients : ~ Uses(d, g)
  /\ pc[c] \notin Using \cup {"run"}
  /\ pc' = [pc EXCEPT ![c] = "open"]
  /\ handle' = [handle EXCEPT ![c] = g]
  /\ UNCHANGED <<job, runs, posts>>
  /\ \A h \in Groups : h # g => group'[h] = group[h]
  /\ group'[g].waiting = << >> /\ group'[g].unfinished = 0 /\ group'[g].next = 0

(* A group that comes out of a slot, or off the heap, is not in use and is
   empty. *)
LEMMA OpeningEffect ==
  ASSUME Owned, TasksInv, NEW c \in Clients, TakeGroup(c) \/ CreateGroup(c)
  PROVE  \E g \in Groups : Opening(c, g)
<1>0. /\ handle \in [Clients -> Groups \cup {Null}]
      /\ free \in [1 .. Slots -> Groups \cup {Null}]
      /\ slot \in [Clients -> 1 .. Slots + 1]
      /\ group \in [Groups -> TaskGroups]
      /\ Slots \in Nat /\ Null \notin Groups
  BY DataTypes DEF Owned
<1>1. CASE TakeGroup(c)
  <2>1. pc[c] = "take" /\ seen[c] # Null /\ slot[c] \in 1 .. Slots
    BY <1>0, <1>1 DEF TakeGroup, At, Owned, PlaceInv, ClientInv
  <2>2. PICK x \in 1 .. Slots : x = slot[c]
    BY <2>1
  <2>3. free[x] # Null /\ handle' = [handle EXCEPT ![c] = free[x]]
    BY <1>1, <2>1, <2>2 DEF TakeGroup, StillThere
  <2>4. PICK g \in Groups : g = free[x]
    BY <1>0, <2>3
  <2>5. \A d \in Clients : ~ Uses(d, g)
    BY <1>0, <2>4 DEF Owned, OwnInv, Uses
  <2>6. pc' = [pc EXCEPT ![c] = "open"] /\ UNCHANGED <<job, runs, posts, group>>
    BY <1>1 DEF TakeGroup, Goto, history, queue
  <2>7. group[g].waiting = << >> /\ group[g].unfinished = 0 /\ group[g].next = 0
    BY <2>5 DEF TasksInv, IdleInv
  <2>. QED
    BY <2>1, <2>3, <2>4, <2>5, <2>6, <2>7 DEF Opening, Using
<1>2. CASE CreateGroup(c)
  <2>1. pc[c] = "alloc" /\ pc' = [pc EXCEPT ![c] = "open"] /\ UNCHANGED <<job, runs, posts>>
    BY <1>2 DEF CreateGroup, At, Goto, history
  <2>2. handle[c] = Null
    BY <2>1 DEF Owned, PlaceInv, ClientInv, Holding, Using
  <2>3. PICK g \in Groups : /\ g \notin heap /\ handle' = [handle EXCEPT ![c] = g]
                            /\ group' = [group EXCEPT ![g] = NewGroup]
    BY <1>2, <2>2, CreateEffect DEF Owned
  <2>4. \A d \in Clients : ~ Uses(d, g)
    BY <1>0, <2>3 DEF Owned, OwnInv, Uses
  <2>5. /\ \A h \in Groups : h # g => group'[h] = group[h]
        /\ group'[g].waiting = << >> /\ group'[g].unfinished = 0 /\ group'[g].next = 0
    BY <1>0, <2>3 DEF NewGroup
  <2>. QED
    BY <2>1, <2>3, <2>4, <2>5 DEF Opening, Using
<1>. QED
  BY <1>1, <1>2

(* A client that gets an empty group starts a round without tasks. *)
LEMMA OpeningTasks ==
  ASSUME Owned, TasksInv, NEW c \in Clients, NEW g \in Groups, Opening(c, g)
  PROVE  TasksInv'
<1>0. /\ pc \in [Threads -> Labels] /\ handle \in [Clients -> Groups \cup {Null}]
      /\ Clients \subseteq Threads
  BY DataTypes DEF Owned
<1>1. /\ \A d \in Clients, h \in Groups : Uses(d, h)' <=> Uses(d, h) \/ (d = c /\ h = g)
      /\ \A d \in Clients, h \in Groups : Uses(d, h) => d # c /\ h # g
  BY <1>0 DEF Opening, Uses, Using
<1>2. /\ \A d \in Clients : d # c => pc'[d] = pc[d] /\ posts'[d] = posts[d]
      /\ pc'[c] = "open" /\ runs[c] = << >>
      /\ \A t \in Threads : pc'[t] = "run" <=> pc[t] = "run"
  BY <1>0 DEF Opening, TasksInv, RoundInv
<1>3. /\ \A h \in Groups : h # g => group'[h] = group[h]
      /\ group'[g].waiting = << >> /\ group'[g].unfinished = 0 /\ group'[g].next = 0
      /\ UNCHANGED <<job, runs>>
  BY DEF Opening
<1>4. \A h \in Groups : Taken(h)' = Taken(h)
  BY <1>3 DEF Taken
<1>5. Taken(g) = {}
  BY DEF Opening, TasksInv, IdleInv
<1>6. \A h \in Groups : h # g => \A k : Pending(h, k)' <=> Pending(h, k)
  BY <1>2, <1>3 DEF Pending
<1>7. Len(<< >>) = 0 /\ 1 .. 0 = {}
  OBVIOUS
<1>8. IdleInv'
  BY <1>1, <1>3, <1>4, <1>5 DEF TasksInv, IdleInv
<1>9. RoundInv'
  <2>1. \A d \in Clients : pc'[d] \notin Using => runs'[d] = << >>
    BY <1>2, <1>3 DEF TasksInv, RoundInv, Using
  <2>. QED
    BY <1>1, <1>2, <1>3, <1>7, <2>1 DEF TasksInv, RoundInv
<1>10. WaitInv'
  BY <1>3, <1>7 DEF TasksInv, WaitInv
<1>11. JobInv'
  BY <1>3, <1>5 DEF TasksInv, JobInv, Taken
<1>12. RunsInv'
  BY <1>1, <1>2, <1>3, <1>6, <1>7 DEF TasksInv, RunsInv
<1>13. CountInv'
  <2>1. /\ Len(group'[g].waiting) = 0 /\ Cardinality(Taken(g)') = 0
        /\ group'[g].unfinished = 0
    BY <1>3, <1>4, <1>5, FS_EmptySet
  <2>2. \A d \in Clients, h \in Groups : Uses(d, h) =>
          /\ group'[h] = group[h] /\ Taken(h)' = Taken(h)
          /\ pc'[d] = pc[d] /\ posts'[d] = posts[d]
    BY <1>1, <1>2, <1>3, <1>4
  <2>. QED
    BY <1>1, <1>2, <2>1, <2>2 DEF TasksInv, CountInv
<1>. QED
  BY <1>8, <1>9, <1>10, <1>11, <1>12, <1>13 DEF TasksInv

(* A group in use has one user, and a user has one group. *)
LEMMA OneUser ==
  ASSUME Owned
  PROVE  /\ \A c, d \in Clients : \A g, h \in Groups :
              Uses(c, g) /\ Uses(d, h) => (c = d <=> g = h)
         /\ \A c \in Clients : pc[c] \in Using => handle[c] \in Groups /\ Uses(c, handle[c])
<1>1. handle \in [Clients -> Groups \cup {Null}] /\ Null \notin Groups
  BY DataTypes DEF Owned
<1>2. \A c \in Clients : pc[c] \in Using => handle[c] # Null
  BY DEF Owned, PlaceInv, ClientInv, Holding
<1>. QED
  BY <1>1, <1>2 DEF Owned, OwnInv, Uses

(* The tasks that have been taken from a group can be counted. *)
LEMMA TakenFinite ==
  \A g : IsFiniteSet(Taken(g)) /\ Cardinality(Taken(g)) \in Nat
<1>1. IsFiniteSet(Threads)
  BY ThreadsAssumption, FS_Union DEF Threads
<1>2. \A g : Taken(g) \in SUBSET Threads
  BY DEF Taken
<1>. QED
  BY <1>1, <1>2, FS_Subset, FS_CardinalityType

(* AddUnfinished makes up for what the counter was behind. *)
LEMMA AddTasks ==
  ASSUME Owned, TasksInv, NEW c \in Clients, AddUnfinished(c)
  PROVE  TasksInv'
<1>0. /\ pc \in [Threads -> Labels] /\ group \in [Groups -> TaskGroups]
      /\ posts \in [Clients -> Nat] /\ Clients \subseteq Threads
  BY DataTypes DEF Owned
<1>1. /\ pc[c] = "add" /\ pc' = [pc EXCEPT ![c] = "post"]
      /\ UNCHANGED <<handle, job, runs, posts>>
  BY DEF AddUnfinished, At, Goto, pool, history
<1>2. PICK g \in Groups : Uses(c, g) /\ g = handle[c]
  BY <1>1, OneUser DEF Using
<1>3. /\ group'[g].unfinished = group[g].unfinished + posts[c]
      /\ \A h \in Groups : /\ h # g => group'[h] = group[h]
                           /\ group'[h].waiting = group[h].waiting
                           /\ group'[h].next = group[h].next
                           /\ group'[h].info = group[h].info
  <2>1. AddUnfinished(c) /\ handle[c] \in Groups /\ TypeOK
    BY <1>2 DEF Owned
  <2>2. /\ group[g].unfinished + posts[c] \in Int
        /\ group' = [group EXCEPT ![g].unfinished = group[g].unfinished + posts[c]]
    BY <1>2, <2>1, AddEffect
  <2>. QED
    BY <2>1, <2>2, UnfinishedEffect
<1>4. \A d \in Clients, h \in Groups : Uses(d, h)' <=> Uses(d, h)
  BY <1>0, <1>1 DEF Uses, Using
<1>5. \A h \in Groups : Taken(h)' = Taken(h)
  BY <1>1 DEF Taken
<1>6. \A h \in Groups : \A k : Pending(h, k)' <=> Pending(h, k)
  BY <1>0, <1>1, <1>3 DEF Pending
<1>7. IdleInv'
  BY <1>2, <1>3, <1>4, <1>5 DEF TasksInv, IdleInv
<1>8. RoundInv'
  BY <1>0, <1>1, <1>3, <1>4 DEF TasksInv, RoundInv, Using
<1>9. WaitInv' /\ JobInv'
  BY <1>1, <1>3 DEF TasksInv, WaitInv, JobInv
<1>10. RunsInv'
  BY <1>1, <1>4, <1>6 DEF TasksInv, RunsInv
<1>11. CountInv'
  <2>1. \A d \in Clients, h \in Groups : Uses(d, h) /\ d # c => h # g /\ pc'[d] = pc[d]
    BY <1>0, <1>1, <1>2, OneUser
  <2>2. \A h \in Groups : Uses(c, h) => h = g
    BY <1>2, OneUser
  <2>3. /\ group'[g].unfinished = Len(group'[g].waiting) + Cardinality(Taken(g)')
        /\ pc'[c] = "post"
    <3>1. group[g].unfinished = Len(group[g].waiting) + Cardinality(Taken(g)) - posts[c]
      BY <1>1, <1>2 DEF TasksInv, CountInv
    <3>2. /\ Len(group[g].waiting) \in Nat /\ posts[c] \in Nat
          /\ Cardinality(Taken(g)) \in Nat
      BY <1>0, TakenFinite DEF TaskGroups
    <3>. QED
      BY <1>0, <1>1, <1>3, <1>5, <3>1, <3>2
  <2>4. Len(group'[g].waiting) \in Nat /\ Cardinality(Taken(g)') \in Nat
    BY <1>0, <1>3, <1>5, TakenFinite DEF TaskGroups
  <2>. QED
    BY <1>1, <1>3, <1>4, <1>5, <2>1, <2>2, <2>3, <2>4 DEF TasksInv, CountInv
<1>. QED
  BY <1>7, <1>8, <1>9, <1>10, <1>11 DEF TasksInv

(* Decrement gives up one taken task and counts it. *)
LEMMA DecrementTasks ==
  ASSUME Owned, TasksInv, NEW t \in Threads, Decrement(t)
  PROVE  TasksInv'
<1>0. /\ pc \in [Threads -> Labels] /\ group \in [Groups -> TaskGroups]
      /\ job \in [Threads -> Jobs]
      /\ Clients \subseteq Threads /\ Null \notin Groups
  BY DataTypes DEF Owned
<1>1. /\ pc[t] = "ran" /\ pc' = [pc EXCEPT ![t] = IF t \in Clients THEN "sync" ELSE "wait"]
      /\ job' = [job EXCEPT ![t] = NoJob]
      /\ UNCHANGED <<handle, runs, posts>>
  BY DEF Decrement, At, Goto, pool, history
<1>2. PICK g \in Groups : g = job[t].group
  BY <1>0, <1>1 DEF Owned, PlaceInv, RunningInv, Jobs
<1>3. /\ group'[g].unfinished = group[g].unfinished - 1
      /\ \A h \in Groups : /\ h # g => group'[h] = group[h]
                           /\ group'[h].waiting = group[h].waiting
                           /\ group'[h].next = group[h].next
                           /\ group'[h].info = group[h].info
  <2>1. Decrement(t) /\ job[t].group \in Groups /\ TypeOK
    BY <1>2 DEF Owned
  <2>2. /\ group[g].unfinished - 1 \in Int
        /\ group' = [group EXCEPT ![g].unfinished = group[g].unfinished - 1]
    BY <1>2, <2>1, DecrementEffect
  <2>. QED
    BY <2>1, <2>2, UnfinishedEffect
<1>4. \A d \in Clients, h \in Groups : Uses(d, h)' <=> Uses(d, h)
  BY <1>0, <1>1 DEF Uses, Using
<1>5. /\ job'[t].group = Null
      /\ \A u \in Threads : u # t => job'[u] = job[u]
  BY <1>0, <1>1 DEF NoJob
<1>6. /\ \A h \in Groups : h # g => Taken(h)' = Taken(h)
      /\ Taken(g)' = Taken(g) \ {t} /\ t \in Taken(g)
  BY <1>0, <1>2, <1>5 DEF Taken
<1>7. Cardinality(Taken(g)') = Cardinality(Taken(g)) - 1
  BY <1>6, TakenFinite, FS_RemoveElement
<1>8. \A h \in Groups : \A k : Pending(h, k)' <=> Pending(h, k)
  BY <1>0, <1>1, <1>3, <1>5 DEF Pending
<1>9. IdleInv'
  <2>1. \E c \in Clients : Uses(c, g)
    BY <1>6 DEF TasksInv, IdleInv
  <2>. QED
    BY <2>1, <1>3, <1>4, <1>6 DEF TasksInv, IdleInv
<1>10. RoundInv'
  BY <1>0, <1>1, <1>3, <1>4 DEF TasksInv, RoundInv, Using
<1>11. WaitInv' /\ JobInv'
  BY <1>0, <1>3, <1>5 DEF TasksInv, WaitInv, JobInv
<1>12. RunsInv'
  BY <1>1, <1>4, <1>8 DEF TasksInv, RunsInv
<1>13. CountInv'
  <2>1. \A d \in Clients : /\ pc'[d] = "add" <=> pc[d] = "add"
                           /\ pc'[d] = "reset" <=> pc[d] = "reset"
    BY <1>0, <1>1
  <2>2. \A h \in Groups : Len(group[h].waiting) \in Nat /\ Cardinality(Taken(h)) \in Nat
                          /\ group[h].unfinished \in Int
    BY <1>0, TakenFinite DEF TaskGroups
  <2>3. ASSUME NEW d \in Clients, NEW h \in Groups, Uses(d, h)'
        PROVE  /\ group'[h].unfinished = Len(group'[h].waiting) + Cardinality(Taken(h)')
                                           - (IF pc'[d] = "add" THEN posts'[d] ELSE 0)
               /\ pc'[d] = "reset" => group'[h].unfinished <= 0
    <3>1. /\ group[h].unfinished = Len(group[h].waiting) + Cardinality(Taken(h))
                                     - (IF pc[d] = "add" THEN posts[d] ELSE 0)
          /\ pc[d] = "reset" => group[h].unfinished <= 0
      BY <1>4, <2>3 DEF TasksInv, CountInv
    <3>2. posts[d] \in Nat
      BY DataTypes DEF Owned
    <3>3. CASE h = g
      <4>. DEFINE m == IF pc[d] = "add" THEN posts[d] ELSE 0
      <4>1. m \in Nat /\ (IF pc'[d] = "add" THEN posts'[d] ELSE 0) = m
        BY <1>1, <2>1, <3>2
      <4>2. /\ group[g].unfinished = Len(group[g].waiting) + Cardinality(Taken(g)) - m
            /\ pc[d] = "reset" => group[g].unfinished <= 0
        BY <3>1, <3>3
      <4>. HIDE DEF m
      <4>3. group'[g].unfinished = Len(group'[g].waiting) + Cardinality(Taken(g)') - m
        <5>1. /\ group'[g].unfinished = group[g].unfinished - 1
              /\ Len(group'[g].waiting) = Len(group[g].waiting)
          BY <1>3
        <5>2. /\ m \in Nat /\ group[g].unfinished \in Int
              /\ Len(group[g].waiting) \in Nat /\ Cardinality(Taken(g)) \in Nat
          BY <2>2, <4>1
        <5>. QED
          BY <1>7, <4>2, <5>1, <5>2
      <4>4. pc'[d] = "reset" => group'[g].unfinished <= 0
        BY <1>3, <2>1, <2>2, <4>2
      <4>. QED
        BY <3>3, <4>1, <4>3, <4>4
    <3>4. CASE h # g
      BY <1>1, <1>3, <1>6, <2>1, <3>1, <3>4
    <3>. QED
      BY <3>3, <3>4
  <2>. QED
    BY <2>3 DEF CountInv
<1>. QED
  BY <1>9, <1>10, <1>11, <1>12, <1>13 DEF TasksInv

(* A task that is taken leaves the waiting ones, and is counted as taken. *)
LEMMA TakingTasks ==
  ASSUME Owned, TasksInv, NEW t \in Threads, Taking(t)
  PROVE  TasksInv'
<1>0. /\ pc \in [Threads -> Labels] /\ group \in [Groups -> TaskGroups]
      /\ job \in [Threads -> Jobs] /\ posts \in [Clients -> Nat]
      /\ Clients \subseteq Threads /\ Null \notin Groups
  BY DataTypes DEF Owned
<1>1. PICK g \in Groups, shorter \in Seq(Groups) : Take(t, g, shorter)
  BY DEF Taking
<1>2. /\ UNCHANGED <<handle, posts, runs>>
      /\ t \in Clients => pc[t] = "help"
      /\ pc[t] # "run" /\ job[t].group = Null
  BY DEF Taking
<1>. DEFINE w == group[g].waiting
            last == w[Len(w)]
<1>3. /\ w # << >> /\ Len(group'[g].waiting) = Len(w) - 1
      /\ \A x \in 1 .. Len(w) - 1 : group'[g].waiting[x] = w[x]
      /\ \A h \in Groups : /\ h # g => group'[h] = group[h]
                           /\ group'[h].unfinished = group[h].unfinished
                           /\ group'[h].next = group[h].next
                           /\ group'[h].info = group[h].info
      /\ job'[t] = [group |-> g, task |-> last]
      /\ \A u \in Threads : u # t => job'[u] = job[u]
      /\ pc' = [pc EXCEPT ![t] = "run"]
  BY <1>1, TakeEffect DEF Owned
<1>4. Len(w) \in Nat \ {0} /\ w \in Seq(1 .. TaskLimit)
  BY <1>0, <1>3, EmptySeq DEF TaskGroups
<1>5. job'[t].group = g /\ job'[t].task = last
  BY <1>3
<1>. HIDE DEF last
<1>6. \A d \in Clients, h \in Groups : Uses(d, h)' <=> Uses(d, h)
  BY <1>0, <1>2, <1>3 DEF Uses, Using
<1>7. /\ \A h \in Groups : h # g => Taken(h)' = Taken(h)
      /\ Taken(g)' = Taken(g) \cup {t} /\ t \notin Taken(g)
  <2>1. \A u \in Threads : u # t => job'[u] = job[u]
    BY <1>3
  <2>2. \A h \in Groups : t \notin Taken(h)
    BY <1>0, <1>2 DEF Taken
  <2>3. \A h \in Groups : \A u : u \in Taken(h)' <=> u \in Taken(h) \/ (u = t /\ h = g)
    BY <1>5, <2>1, <2>2 DEF Taken
  <2>. QED
    BY <2>2, <2>3
<1>8. Cardinality(Taken(g)') = Cardinality(Taken(g)) + 1
  BY <1>7, TakenFinite, FS_AddElement
<1>9. last = w[Len(w)] /\ Len(w) \in 1 .. Len(w)
  BY <1>4 DEF last
<1>10. \A h \in Groups : \A k : Pending(h, k)' <=> Pending(h, k)
  <2>1. ASSUME NEW h \in Groups, NEW k, h # g PROVE Pending(h, k)' <=> Pending(h, k)
    <3>1. group'[h] = group[h]
      BY <1>3, <2>1
    <3>2. ASSUME NEW u \in Threads
          PROVE  (pc'[u] = "run" /\ job'[u].group = h) <=> (pc[u] = "run" /\ job[u].group = h)
      <4>1. CASE u = t
        BY <1>0, <1>2, <1>5, <2>1, <4>1
      <4>2. CASE u # t
        BY <1>0, <1>3, <4>2
      <4>. QED
        BY <4>1, <4>2
    <3>3. \A u \in Threads : pc'[u] = "run" /\ job'[u].group = h => job'[u] = job[u]
      BY <1>3, <1>5, <2>1
    <3>. QED
      BY <3>1, <3>2, <3>3 DEF Pending
  <2>2. ASSUME NEW k PROVE Pending(g, k)' <=> Pending(g, k)
    <3>1. ASSUME Pending(g, k)' PROVE Pending(g, k)
      <4>1. CASE \E x \in 1 .. Len(group'[g].waiting) : group'[g].waiting[x] = k
        <5>1. PICK x \in 1 .. Len(w) - 1 : group'[g].waiting[x] = k
          BY <1>3, <4>1
        <5>2. x \in 1 .. Len(w) /\ w[x] = k
          BY <1>3, <1>4, <5>1
        <5>. QED
          BY <5>2 DEF Pending
      <4>2. CASE pc'[t] = "run" /\ job'[t].group = g /\ job'[t].task = k
        BY <1>5, <1>9, <4>2 DEF Pending
      <4>3. CASE \E u \in Threads : /\ u # t /\ pc'[u] = "run"
                                    /\ job'[u].group = g /\ job'[u].task = k
        BY <1>0, <1>3, <4>3 DEF Pending
      <4>. QED
        BY <3>1, <4>1, <4>2, <4>3 DEF Pending
    <3>2. ASSUME Pending(g, k) PROVE Pending(g, k)'
      <4>1. ASSUME NEW x \in 1 .. Len(w), w[x] = k PROVE Pending(g, k)'
        <5>1. CASE x = Len(w)
          BY <1>0, <1>3, <1>5, <1>9, <4>1, <5>1 DEF Pending
        <5>2. CASE x # Len(w)
          <6>1. x \in 1 .. Len(w) - 1
            BY <1>4, <5>2
          <6>2. x \in 1 .. Len(group'[g].waiting) /\ group'[g].waiting[x] = k
            BY <1>3, <4>1, <6>1
          <6>. QED
            BY <6>2 DEF Pending
        <5>. QED
          BY <5>1, <5>2
      <4>2. ASSUME NEW u \in Threads, pc[u] = "run", job[u].group = g, job[u].task = k
            PROVE  Pending(g, k)'
        BY <1>0, <1>2, <1>3, <4>2 DEF Pending
      <4>. QED
        BY <3>2, <4>1, <4>2 DEF Pending
    <3>. QED
      BY <3>1, <3>2
  <2>. QED
    BY <2>1, <2>2
<1>11. IdleInv'
  <2>1. \E c \in Clients : Uses(c, g)
    BY <1>3 DEF TasksInv, IdleInv
  <2>. QED
    BY <2>1, <1>3, <1>6, <1>7 DEF TasksInv, IdleInv
<1>12. RoundInv'
  BY <1>0, <1>2, <1>3, <1>6 DEF TasksInv, RoundInv, Using
<1>13. WaitInv'
  <2>1. /\ \A x \in 1 .. Len(w) : w[x] \in 1 .. group[g].next
        /\ \A x, y \in 1 .. Len(w) : w[x] = w[y] => x = y
    BY DEF TasksInv, WaitInv
  <2>2. \A x \in 1 .. Len(w) - 1 : x \in 1 .. Len(w) /\ group'[g].waiting[x] = w[x]
    BY <1>3, <1>4
  <2>3. /\ \A x \in 1 .. Len(group'[g].waiting) :
             group'[g].waiting[x] \in 1 .. group'[g].next
        /\ \A x, y \in 1 .. Len(group'[g].waiting) :
             group'[g].waiting[x] = group'[g].waiting[y] => x = y
    <3>1. Len(group'[g].waiting) = Len(w) - 1 /\ group'[g].next = group[g].next
      BY <1>3
    <3>. QED
      BY <2>1, <2>2, <3>1
  <2>4. \A h \in Groups : h # g => group'[h] = group[h]
    BY <1>3
  <2>. QED
    BY <2>3, <2>4 DEF TasksInv, WaitInv
<1>14. JobInv'
  <2>1. ASSUME NEW u \in Threads, NEW h \in Groups, job'[u].group = h
        PROVE  /\ job'[u].task \in 1 .. group'[h].next
               /\ \A x \in 1 .. Len(group'[h].waiting) :
                    group'[h].waiting[x] # job'[u].task
    <3>1. CASE u = t
      <4>1. last \in 1 .. group[g].next /\ \A x \in 1 .. Len(w) - 1 : w[x] # last
        BY <1>4, <1>9 DEF TasksInv, WaitInv
      <4>. QED
        BY <1>3, <1>5, <2>1, <3>1, <4>1
    <3>2. CASE u # t
      <4>1. /\ job'[u] = job[u] /\ group'[h].next = group[h].next
            /\ h # g => group'[h] = group[h]
        BY <1>3, <3>2
      <4>2. /\ job[u].task \in 1 .. group[h].next
            /\ \A x \in 1 .. Len(group[h].waiting) : group[h].waiting[x] # job[u].task
        BY <2>1, <4>1 DEF TasksInv, JobInv
      <4>3. h = g => \A x \in 1 .. Len(group'[g].waiting) :
                       x \in 1 .. Len(w) /\ group'[g].waiting[x] = w[x]
        BY <1>3, <1>4
      <4>. QED
        BY <4>1, <4>2, <4>3
    <3>. QED
      BY <3>1, <3>2
  <2>2. \A u \in Threads : u # t => job'[u].group # g \/ job'[u].task # last
    BY <1>3, <1>9 DEF TasksInv, JobInv
  <2>3. \A u, v \in Threads :
          job'[u].group = job'[v].group /\ job'[u].task = job'[v].task
            /\ job'[u].group # Null => u = v
    BY <1>3, <1>5, <2>2 DEF TasksInv, JobInv
  <2>. QED
    BY <2>1, <2>3 DEF JobInv
<1>15. RunsInv'
  BY <1>2, <1>6, <1>10 DEF TasksInv, RunsInv
<1>16. CountInv'
  <2>1. \A d \in Clients : /\ pc'[d] = "add" <=> pc[d] = "add"
                           /\ pc'[d] = "reset" <=> pc[d] = "reset"
    BY <1>0, <1>2, <1>3
  <2>2. Len(group'[g].waiting) + Cardinality(Taken(g)') = Len(w) + Cardinality(Taken(g))
    BY <1>3, <1>4, <1>8, TakenFinite
  <2>3. \A h \in Groups : h # g =>
          Len(group'[h].waiting) + Cardinality(Taken(h)')
            = Len(group[h].waiting) + Cardinality(Taken(h))
    BY <1>3, <1>7
  <2>. QED
    <3>1. \A h \in Groups : /\ group'[h].unfinished = group[h].unfinished
                             /\ Len(group'[h].waiting) + Cardinality(Taken(h)')
                                  = Len(group[h].waiting) + Cardinality(Taken(h))
      BY <1>3, <2>2, <2>3
    <3>2. ASSUME NEW d \in Clients, NEW h \in Groups, Uses(d, h)'
          PROVE  /\ group'[h].unfinished = Len(group'[h].waiting) + Cardinality(Taken(h)')
                                             - (IF pc'[d] = "add" THEN posts'[d] ELSE 0)
                 /\ pc'[d] = "reset" => group'[h].unfinished <= 0
      <4>. DEFINE m == IF pc[d] = "add" THEN posts[d] ELSE 0
      <4>1. (IF pc'[d] = "add" THEN posts'[d] ELSE 0) = m
        BY <1>2, <2>1
      <4>2. /\ group[h].unfinished = Len(group[h].waiting) + Cardinality(Taken(h)) - m
            /\ pc[d] = "reset" => group[h].unfinished <= 0
        BY <1>6, <3>2 DEF TasksInv, CountInv
      <4>. DEFINE a == Len(group[h].waiting)
                  b == Cardinality(Taken(h))
                  a1 == Len(group'[h].waiting)
                  b1 == Cardinality(Taken(h)')
      <4>3. /\ m \in Nat /\ a \in Nat /\ b \in Nat
            /\ group'[h].unfinished = group[h].unfinished
            /\ a1 + b1 = a + b
        BY <1>0, <3>1, TakenFinite DEF TaskGroups
      <4>4. a1 \in Nat
        BY <1>3, <1>4, <3>1, <4>3
      <4>5. b1 \in Nat
        <5>1. CASE h = g
          <6>1. Cardinality(Taken(g)) \in Nat
            BY TakenFinite
          <6>. QED
            BY <1>8, <5>1, <6>1
        <5>2. CASE h # g
          <6>1. Taken(h)' = Taken(h) /\ Cardinality(Taken(h)) \in Nat
            BY <1>7, <5>2, TakenFinite
          <6>. QED
            BY <6>1
        <5>. QED
          BY <5>1, <5>2
      <4>6. group[h].unfinished = a + b - m
        BY <4>2
      <4>. HIDE DEF m, a, b, a1, b1
      <4>7. group'[h].unfinished = a1 + b1 - m
        BY <4>3, <4>4, <4>5, <4>6
      <4>8. group'[h].unfinished = Len(group'[h].waiting) + Cardinality(Taken(h)') - m
        BY <4>7 DEF a1, b1
      <4>9. pc'[d] = "reset" => group'[h].unfinished <= 0
        BY <2>1, <4>2, <4>3
      <4>. QED
        BY <4>1, <4>8, <4>9
    <3>. QED
      BY <3>2 DEF CountInv
<1>. QED
  BY <1>11, <1>12, <1>13, <1>14, <1>15, <1>16 DEF TasksInv

(* The task that is run has not been run before, whoever runs it, and belongs
   to the round of one client. *)
LEMMA RunTasks ==
  ASSUME Owned, TasksInv, NEW t \in Threads, RunTask(t)
  PROVE  /\ TasksInv'
         /\ \E c \in Clients : \E k \in 1 .. Len(runs[c]) :
              runs[c][k] = 0 /\ runs' = [runs EXCEPT ![c][k] = 1]
<1>0. /\ pc \in [Threads -> Labels] /\ group \in [Groups -> TaskGroups]
      /\ job \in [Threads -> Jobs] /\ runs \in [Clients -> Seq(Nat)]
      /\ Clients \subseteq Threads /\ Null \notin Groups
  BY DataTypes DEF Owned
<1>1. /\ pc[t] = "run" /\ pc' = [pc EXCEPT ![t] = "ran"]
      /\ UNCHANGED <<group, handle, job, posts>>
  BY DEF RunTask, At, Goto, pool, queue
<1>2. PICK g \in Groups : g = job[t].group
  BY <1>0, <1>1 DEF Owned, PlaceInv, RunningInv, Jobs
<1>3. PICK c \in Clients : Uses(c, g)
  BY <1>2 DEF TasksInv, IdleInv, Taken
<1>. DEFINE k == job[t].task
<1>4. /\ k \in 1 .. Len(runs[c]) /\ group[g].info[k] = [client |-> c, number |-> k]
      /\ \A x \in 1 .. Len(group[g].waiting) : group[g].waiting[x] # k
      /\ \A u \in Threads : job[u].group = g /\ job[u].task = k => u = t
  <2>1. /\ k \in 1 .. group[g].next
        /\ \A x \in 1 .. Len(group[g].waiting) : group[g].waiting[x] # k
    BY <1>2 DEF TasksInv, JobInv
  <2>2. \A u \in Threads : job[u].group = g /\ job[u].task = k => u = t
    BY <1>0, <1>2 DEF TasksInv, JobInv
  <2>3. /\ group[g].next = Len(runs[c])
        /\ \A l \in 1 .. Len(runs[c]) : group[g].info[l] = [client |-> c, number |-> l]
    BY <1>3 DEF TasksInv, RoundInv
  <2>. QED
    BY <2>1, <2>2, <2>3
<1>5. runs[c][k] = 0
  BY <1>1, <1>2, <1>3, <1>4 DEF TasksInv, RunsInv, Pending
<1>6. runs' = [runs EXCEPT ![c][k] = 1]
  <2>1. runs' = [runs EXCEPT ![c][k] = @ + 1]
    BY <1>2, <1>4 DEF RunTask
  <2>2. runs[c][k] + 1 = 1
    BY <1>5
  <2>. QED
    BY <1>0, <2>1, <2>2
<1>. HIDE DEF k
<1>7. /\ \A d \in Clients : d # c => runs'[d] = runs[d]
      /\ Len(runs'[c]) = Len(runs[c]) /\ runs'[c][k] = 1
      /\ \A l \in 1 .. Len(runs[c]) : l # k => runs'[c][l] = runs[c][l]
  BY <1>0, <1>4, <1>6
<1>8. \A d \in Clients, h \in Groups : Uses(d, h)' <=> Uses(d, h)
  BY <1>0, <1>1 DEF Uses, Using
<1>9. \A h \in Groups : Taken(h)' = Taken(h)
  BY <1>1 DEF Taken
<1>10. /\ \A h \in Groups : \A l : h # g \/ l # k => (Pending(h, l)' <=> Pending(h, l))
       /\ \A h \in Groups : \A l : h = g /\ l = k => ~ Pending(h, l)'
  BY <1>0, <1>1, <1>2, <1>4 DEF Pending, k
<1>11. IdleInv'
  BY <1>1, <1>8, <1>9 DEF TasksInv, IdleInv
<1>12. RoundInv'
  <2>1. \A d \in Clients : pc'[d] \notin Using => runs'[d] = << >>
    BY <1>0, <1>1, <1>3, <1>7 DEF TasksInv, RoundInv, Using, Uses
  <2>2. \A d \in Clients : Len(runs'[d]) = Len(runs[d])
    BY <1>7
  <2>. QED
    BY <1>1, <1>8, <2>1, <2>2 DEF TasksInv, RoundInv
<1>13. WaitInv' /\ JobInv'
  BY <1>1 DEF TasksInv, WaitInv, JobInv
<1>14. RunsInv'
  <2>1. ASSUME NEW d \in Clients, NEW h \in Groups, Uses(d, h),
               NEW l \in 1 .. Len(runs'[d])
        PROVE  /\ Pending(h, l)' => runs'[d][l] = 0
               /\ ~ Pending(h, l)' => runs'[d][l] = 1
    <3>1. l \in 1 .. Len(runs[d]) /\ (d = c <=> h = g)
      BY <1>3, <1>7, <2>1, OneUser
    <3>2. CASE d = c /\ l = k
      BY <1>7, <1>10, <3>1, <3>2
    <3>3. CASE d # c \/ l # k
      BY <1>7, <1>10, <2>1, <3>1, <3>3 DEF TasksInv, RunsInv
    <3>. QED
      BY <3>2, <3>3
  <2>. QED
    BY <1>8, <2>1 DEF RunsInv
<1>15. CountInv'
  <2>1. \A d \in Clients : /\ pc'[d] = "add" <=> pc[d] = "add"
                           /\ pc'[d] = "reset" <=> pc[d] = "reset"
    BY <1>0, <1>1
  <2>. QED
    BY <1>1, <1>8, <1>9, <2>1 DEF TasksInv, CountInv
<1>. QED
  BY <1>4, <1>5, <1>6, <1>11, <1>12, <1>13, <1>14, <1>15 DEF TasksInv

(* When a client resets its group all tasks of its round have been run once. *)
LEMMA ResetTasks ==
  ASSUME Owned, TasksInv, NEW c \in Clients, Reset(c), ~ group[handle[c]].inActive
  PROVE  /\ TasksInv'
         /\ \A k \in 1 .. Len(runs[c]) : runs[c][k] = 1
         /\ runs' = [runs EXCEPT ![c] = << >>]
<1>0. /\ pc \in [Threads -> Labels] /\ group \in [Groups -> TaskGroups]
      /\ job \in [Threads -> Jobs] /\ runs \in [Clients -> Seq(Nat)]
      /\ Clients \subseteq Threads /\ Null \notin Groups
  BY DataTypes DEF Owned
<1>1. /\ pc[c] = "reset" /\ pc' = [pc EXCEPT ![c] = "free"]
      /\ runs' = [runs EXCEPT ![c] = << >>]
      /\ UNCHANGED <<handle, job, posts>>
  BY DEF Reset, At, Goto, pool
<1>2. PICK g \in Groups : Uses(c, g) /\ g = handle[c]
  BY <1>1, OneUser DEF Using
<1>3. /\ group'[g].next = 0 /\ group'[g].unfinished = 0
      /\ \A h \in Groups : /\ h # g => group'[h] = group[h]
                           /\ group'[h].waiting = group[h].waiting
                           /\ group'[h].info = group[h].info
  BY <1>2, ResetEffect DEF Owned
<1>4. group[g].waiting = << >> /\ Taken(g) = {}
  <2>1. /\ group[g].unfinished = Len(group[g].waiting) + Cardinality(Taken(g)) - 0
        /\ group[g].unfinished <= 0
    BY <1>1, <1>2 DEF TasksInv, CountInv
  <2>2. /\ Len(group[g].waiting) \in Nat /\ Cardinality(Taken(g)) \in Nat
        /\ group[g].waiting \in Seq(1 .. TaskLimit)
    BY <1>0, TakenFinite DEF TaskGroups
  <2>3. Len(group[g].waiting) = 0 /\ Cardinality(Taken(g)) = 0
    BY <2>1, <2>2
  <2>4. Taken(g) = {}
    BY <2>3, TakenFinite, FS_EmptySet
  <2>5. group[g].waiting = << >>
    BY <2>2, <2>3, EmptySeq
  <2>. QED
    BY <2>4, <2>5
<1>5. \A k \in 1 .. Len(runs[c]) : runs[c][k] = 1
  <2>1. \A k : ~ Pending(g, k)
    BY <1>4 DEF Pending, Taken
  <2>. QED
    BY <1>2, <2>1 DEF TasksInv, RunsInv
<1>6. /\ \A d \in Clients, h \in Groups : Uses(d, h)' => Uses(d, h) /\ d # c /\ h # g
      /\ \A d \in Clients, h \in Groups : Uses(d, h) /\ d # c => Uses(d, h)'
  BY <1>0, <1>1, <1>2, OneUser DEF Uses, Using
<1>7. /\ \A d \in Clients : d # c => runs'[d] = runs[d] /\ pc'[d] = pc[d]
      /\ runs'[c] = << >> /\ pc'[c] = "free"
      /\ \A t \in Threads : pc'[t] = "run" <=> pc[t] = "run"
  BY <1>0, <1>1
<1>8. \A h \in Groups : Taken(h)' = Taken(h)
  BY <1>1 DEF Taken
<1>9. \A h \in Groups : \A k : Pending(h, k)' <=> Pending(h, k)
  BY <1>1, <1>3, <1>7 DEF Pending
<1>10. IdleInv'
  <2>1. ASSUME NEW h \in Groups, h # g, \A d \in Clients : ~ Uses(d, h)'
        PROVE  \A d \in Clients : ~ Uses(d, h)
    BY <1>2, <1>6, <2>1, OneUser
  <2>. QED
    BY <1>3, <1>4, <1>8, <2>1 DEF TasksInv, IdleInv
<1>11. RoundInv'
  <2>1. \A d \in Clients : pc'[d] \notin Using => runs'[d] = << >>
    BY <1>7 DEF TasksInv, RoundInv
  <2>. QED
    BY <1>3, <1>6, <1>7, <2>1 DEF TasksInv, RoundInv
<1>12. WaitInv'
  <2>1. ASSUME NEW h \in Groups
        PROVE  /\ \A x \in 1 .. Len(group'[h].waiting) :
                    group'[h].waiting[x] \in 1 .. group'[h].next
               /\ \A x, y \in 1 .. Len(group'[h].waiting) :
                    group'[h].waiting[x] = group'[h].waiting[y] => x = y
    <3>1. CASE h = g
      <4>1. Len(group'[h].waiting) = 0 /\ 1 .. 0 = {}
        BY <1>3, <1>4, <3>1
      <4>. QED
        BY <4>1
    <3>2. CASE h # g
      BY <1>3, <3>2 DEF TasksInv, WaitInv
    <3>. QED
      BY <3>1, <3>2
  <2>. QED
    BY <2>1 DEF WaitInv
<1>13. JobInv'
  <2>1. \A t \in Threads : job[t].group # g
    BY <1>4 DEF Taken
  <2>. QED
    BY <1>1, <1>3, <2>1 DEF TasksInv, JobInv
<1>14. RunsInv'
  BY <1>6, <1>7, <1>9 DEF TasksInv, RunsInv
<1>15. CountInv'
  BY <1>1, <1>3, <1>6, <1>7, <1>8 DEF TasksInv, CountInv
<1>. QED
  BY <1>1, <1>5, <1>10, <1>11, <1>12, <1>13, <1>14, <1>15 DEF TasksInv

(* The new tasks get the numbers after those of the round so far, which no
   waiting or taken task of the group has. *)
LEMMA LaunchTasks ==
  ASSUME Owned, TasksInv, NEW c \in Clients, NEW n \in Counts, Launch(c, n)
  PROVE  TasksInv'
<1>0. /\ pc \in [Threads -> Labels] /\ group \in [Groups -> TaskGroups]
      /\ job \in [Threads -> Jobs] /\ runs \in [Clients -> Seq(Nat)]
      /\ posts \in [Clients -> Nat]
      /\ Clients \subseteq Threads /\ Null \notin Groups
  BY DataTypes DEF Owned
<1>1. /\ pc[c] = "open" /\ pc' = [pc EXCEPT ![c] = "add"]
      /\ posts' = [posts EXCEPT ![c] = n]
      /\ UNCHANGED <<handle, job>>
  BY DEF Launch, At, Goto, pool
<1>2. PICK g \in Groups : Uses(c, g) /\ g = handle[c]
  BY <1>1, OneUser DEF Using
<1>. DEFINE base == group[g].next
            old == Len(group[g].waiting)
<1>3. /\ TypeOK /\ PlaceInv /\ Launch(c, n) /\ handle[c] \in Groups /\ g = handle[c]
  BY <1>2 DEF Owned
<1>4. base \in Nat /\ n \in Nat \ {0} /\ old \in Nat
  BY <1>3, LaunchEffect
<1>5. /\ \A h \in Groups : h # g => group'[h] = group[h]
      /\ group'[g].next = base + n
      /\ group'[g].unfinished = group[g].unfinished
      /\ Len(group'[g].waiting) = old + n
  BY <1>3, LaunchEffect
<1>6. \A x \in 1 .. old + n :
        group'[g].waiting[x] = IF x <= old THEN group[g].waiting[x]
                               ELSE base + (x - old)
  BY <1>3, LaunchEffect
<1>7. \A x \in 1 .. base + n :
        group'[g].info[x] = IF x <= base THEN group[g].info[x]
                            ELSE [client |-> c, number |-> Len(runs[c]) + x - base]
  BY <1>3, LaunchEffect
<1>8. /\ \A d \in Clients : d # c => runs'[d] = runs[d]
      /\ Len(runs'[c]) = Len(runs[c]) + n
  BY <1>3, LaunchEffect
<1>9. \A k \in 1 .. Len(runs[c]) + n :
        runs'[c][k] = IF k <= Len(runs[c]) THEN runs[c][k] ELSE 0
  BY <1>3, LaunchEffect
<1>10. /\ base = Len(runs[c])
       /\ \A k \in 1 .. base : group[g].info[k] = [client |-> c, number |-> k]
       /\ \A x \in 1 .. old : group[g].waiting[x] \in 1 .. base
       /\ \A x, y \in 1 .. old : group[g].waiting[x] = group[g].waiting[y] => x = y
  BY <1>2 DEF TasksInv, RoundInv, WaitInv
<1>11. \A t \in Threads : job[t].group = g =>
         job[t].task \in 1 .. base
         /\ \A x \in 1 .. old : group[g].waiting[x] # job[t].task
  BY DEF TasksInv, JobInv
<1>. HIDE DEF base, old
<1>12. \A d \in Clients, h \in Groups : Uses(d, h)' <=> Uses(d, h)
  BY <1>0, <1>1 DEF Uses, Using
<1>13. \A h \in Groups : Taken(h)' = Taken(h)
  BY <1>1 DEF Taken
<1>14. /\ \A d \in Clients : d # c => pc'[d] = pc[d] /\ posts'[d] = posts[d]
       /\ pc'[c] = "add" /\ posts'[c] = n
       /\ \A t \in Threads : pc'[t] = "run" <=> pc[t] = "run"
  BY <1>0, <1>1
<1>15. \A d \in Clients, h \in Groups : Uses(d, h) => (d = c <=> h = g)
  BY <1>2, OneUser
<1>16. \A h \in Groups : h # g => \A k : Pending(h, k)' <=> Pending(h, k)
  BY <1>1, <1>5, <1>14 DEF Pending
<1>17. IdleInv'
  BY <1>2, <1>5, <1>12, <1>13 DEF TasksInv, IdleInv
<1>18. RoundInv'
  <2>1. \A d \in Clients : pc'[d] \notin Using => runs'[d] = << >>
    BY <1>8, <1>14 DEF TasksInv, RoundInv, Using
  <2>2. ASSUME NEW k \in 1 .. Len(runs'[c])
        PROVE  group'[g].info[k] = [client |-> c, number |-> k]
    <3>1. k \in 1 .. base + n /\ (~ k <= base => Len(runs[c]) + k - base = k)
      BY <1>4, <1>8, <1>10
    <3>2. CASE k <= base
      BY <1>4, <1>7, <1>10, <3>1, <3>2
    <3>3. CASE ~ k <= base
      BY <1>4, <1>7, <3>1, <3>3
    <3>. QED
      BY <3>2, <3>3
  <2>3. group'[g].next = Len(runs'[c])
    BY <1>5, <1>8, <1>10
  <2>4. \A d \in Clients, h \in Groups : Uses(d, h) /\ d # c =>
          group'[h] = group[h] /\ runs'[d] = runs[d]
    BY <1>5, <1>8, <1>15
  <2>. QED
    BY <1>12, <1>15, <2>1, <2>2, <2>3, <2>4 DEF TasksInv, RoundInv
<1>19. WaitInv'
  <2>1. ASSUME NEW x \in 1 .. old + n
        PROVE  /\ x <= old => group'[g].waiting[x] \in 1 .. base
               /\ x > old => group'[g].waiting[x] = base + (x - old)
               /\ group'[g].waiting[x] \in 1 .. base + n
    <3>1. CASE x <= old
      <4>1. x \in 1 .. old /\ group'[g].waiting[x] = group[g].waiting[x]
        BY <1>4, <1>6, <3>1
      <4>2. group'[g].waiting[x] \in 1 .. base
        BY <1>10, <4>1
      <4>. QED
        BY <1>4, <3>1, <4>2
    <3>2. CASE ~ x <= old
      BY <1>4, <1>6, <3>2
    <3>. QED
      BY <3>1, <3>2
  <2>2. ASSUME NEW x \in 1 .. old + n, NEW y \in 1 .. old + n,
               group'[g].waiting[x] = group'[g].waiting[y]
        PROVE  x = y
    <3>1. CASE x <= old /\ y <= old
      BY <1>4, <1>6, <1>10, <2>2, <3>1
    <3>2. CASE x > old /\ y > old
      BY <1>4, <2>1, <2>2, <3>2
    <3>3. CASE (x <= old /\ y > old) \/ (x > old /\ y <= old)
      BY <1>4, <2>1, <2>2, <3>3
    <3>. QED
      <4>1. x \in Int /\ y \in Int /\ old \in Int
        BY <1>4
      <4>. QED
        BY <4>1, <3>1, <3>2, <3>3
  <2>. QED
    BY <1>4, <1>5, <2>1, <2>2 DEF TasksInv, WaitInv
<1>20. JobInv'
  <2>1. ASSUME NEW t \in Threads, job[t].group = g
        PROVE  /\ job[t].task \in 1 .. base + n
               /\ \A x \in 1 .. old + n : group'[g].waiting[x] # job[t].task
    <3>1. job[t].task \in 1 .. base /\ \A x \in 1 .. old : group[g].waiting[x] # job[t].task
      BY <1>11, <2>1
    <3>2. ASSUME NEW x \in 1 .. old + n PROVE group'[g].waiting[x] # job[t].task
      <4>1. CASE x <= old
        BY <1>4, <1>6, <3>1, <4>1
      <4>2. CASE ~ x <= old
        BY <1>4, <1>6, <3>1, <4>2
      <4>. QED
        BY <4>1, <4>2
    <3>. QED
      BY <1>4, <3>1, <3>2
  <2>. QED
    BY <1>1, <1>5, <2>1 DEF TasksInv, JobInv
<1>21. RunsInv'
  <2>1. ASSUME NEW k \in 1 .. Len(runs'[c])
        PROVE  /\ Pending(g, k)' => runs'[c][k] = 0
               /\ ~ Pending(g, k)' => runs'[c][k] = 1
    <3>1. k \in 1 .. base + n
      BY <1>4, <1>8, <1>10
    <3>2. CASE k <= base
      <4>1. Pending(g, k)' <=> Pending(g, k)
        <5>1. (\E x \in 1 .. old + n : group'[g].waiting[x] = k)
                <=> \E x \in 1 .. old : group[g].waiting[x] = k
          <6>1. ASSUME NEW x \in 1 .. old, group[g].waiting[x] = k
                PROVE  x \in 1 .. old + n /\ group'[g].waiting[x] = k
            BY <1>4, <1>6, <6>1
          <6>2. ASSUME NEW x \in 1 .. old + n, group'[g].waiting[x] = k
                PROVE  x \in 1 .. old /\ group[g].waiting[x] = k
            BY <1>4, <1>6, <3>2, <6>2
          <6>. QED
            BY <6>1, <6>2
        <5>. QED
          BY <1>1, <1>5, <1>14, <5>1 DEF Pending, old
      <4>2. k \in 1 .. Len(runs[c]) /\ runs'[c][k] = runs[c][k]
        BY <1>4, <1>9, <1>10, <3>1, <3>2
      <4>. QED
        BY <1>2, <4>1, <4>2 DEF TasksInv, RunsInv
    <3>3. CASE ~ k <= base
      <4>. DEFINE x == old + (k - base)
      <4>1. x \in 1 .. old + n /\ ~ x <= old /\ base + (x - old) = k
        BY <1>4, <3>1, <3>3
      <4>. HIDE DEF x
      <4>2. group'[g].waiting[x] = k
        BY <1>4, <1>6, <4>1
      <4>3. Pending(g, k)'
        BY <1>4, <1>5, <4>1, <4>2 DEF Pending
      <4>4. runs'[c][k] = 0
        BY <1>4, <1>8, <1>9, <1>10, <3>1, <3>3
      <4>. QED
        BY <4>3, <4>4
    <3>. QED
      BY <3>2, <3>3
  <2>. QED
    <3>1. ASSUME NEW d \in Clients, NEW h \in Groups, Uses(d, h),
                 NEW k \in 1 .. Len(runs'[d])
          PROVE  /\ Pending(h, k)' => runs'[d][k] = 0
                 /\ ~ Pending(h, k)' => runs'[d][k] = 1
      <4>1. CASE d = c
        BY <1>15, <2>1, <3>1, <4>1
      <4>2. CASE d # c
        BY <1>15, <1>16, <1>8, <3>1, <4>2 DEF TasksInv, RunsInv
      <4>. QED
        BY <4>1, <4>2
    <3>. QED
      BY <1>12, <3>1 DEF RunsInv
<1>22. CountInv'
  <2>1. /\ group'[g].unfinished = Len(group'[g].waiting) + Cardinality(Taken(g)') - posts'[c]
        /\ pc'[c] = "add"
    <3>1. group[g].unfinished = old + Cardinality(Taken(g)) - 0
      BY <1>1, <1>2 DEF TasksInv, CountInv, old
    <3>2. Cardinality(Taken(g)) \in Nat /\ Taken(g)' = Taken(g)
      BY <1>13, TakenFinite
    <3>. QED
      BY <1>4, <1>5, <1>14, <3>1, <3>2
  <2>2. \A d \in Clients, h \in Groups : Uses(d, h) /\ d # c =>
          /\ group'[h] = group[h] /\ Taken(h)' = Taken(h)
          /\ pc'[d] = pc[d] /\ posts'[d] = posts[d]
    BY <1>5, <1>13, <1>14, <1>15
  <2>. QED
    BY <1>12, <1>15, <2>1, <2>2 DEF TasksInv, CountInv
<1>. QED
  BY <1>17, <1>18, <1>19, <1>20, <1>21, <1>22 DEF TasksInv

-----------------------------------------------------------------------------
(* The inductive invariant of the tasks *)

(* At first no group has a task. *)
LEMMA TasksInit == Init => TasksInv
<1>. SUFFICES ASSUME Init PROVE TasksInv
  OBVIOUS
<1>1. \A t \in Threads : job[t].group = Null
  BY DEF Init, NoJob
<1>2. \A g \in Groups : /\ group[g].waiting = << >> /\ group[g].unfinished = 0
                        /\ group[g].next = 0
  BY DEF Init, NewGroup
<1>3. \A c \in Clients : runs[c] = << >> /\ pc[c] = "idle"
  BY DEF Init, Threads
<1>4. Null \notin Groups
  BY GroupsAssumption
<1>5. Len(<< >>) = 0 /\ 1 .. 0 = {}
  OBVIOUS
<1>6. \A c \in Clients, g \in Groups : ~ Uses(c, g)
  BY <1>3 DEF Uses, Using
<1>. QED
  BY <1>1, <1>2, <1>3, <1>4, <1>5, <1>6
     DEF TasksInv, IdleInv, RoundInv, WaitInv, JobInv, RunsInv, CountInv, Taken

(* Every step keeps the invariant of the tasks. *)
LEMMA TasksStep == Owned /\ TasksInv /\ [Next]_vars => TasksInv'
<1>. SUFFICES ASSUME Owned, TasksInv, [Next]_vars PROVE TasksInv'
  OBVIOUS
<1>1. CASE Quiet
  BY <1>1, QuietTasks
<1>2. CASE Loud
  <2>1. ASSUME NEW c \in Clients, TakeGroup(c) \/ CreateGroup(c) PROVE TasksInv'
    BY <2>1, OpeningEffect, OpeningTasks
  <2>2. ASSUME NEW c \in Clients, NEW n \in Counts, Launch(c, n) PROVE TasksInv'
    BY <2>2, LaunchTasks
  <2>3. ASSUME NEW c \in Clients, AddUnfinished(c) PROVE TasksInv'
    BY <2>3, AddTasks
  <2>4. ASSUME NEW c \in Clients, Reset(c), ~ group[handle[c]].inActive PROVE TasksInv'
    BY <2>4, ResetTasks
  <2>5. ASSUME NEW t \in Threads, Taking(t) PROVE TasksInv'
    BY <2>5, TakingTasks
  <2>6. ASSUME NEW t \in Threads, RunTask(t) PROVE TasksInv'
    BY <2>6, RunTasks
  <2>7. ASSUME NEW t \in Threads, Decrement(t) PROVE TasksInv'
    BY <2>7, DecrementTasks
  <2>. QED
    BY <1>2, <2>1, <2>2, <2>3, <2>4, <2>5, <2>6, <2>7 DEF Loud
<1>3. CASE UNCHANGED vars
  <2>1. Quiet
    BY <1>3 DEF vars, queue, pool, history, Quiet
  <2>. QED
    BY <2>1, QuietTasks
<1>. QED
  BY <1>1, <1>2, <1>3, QuietOrLoud

(* Every task of a round waits, is run or has been run, and never twice; the *)
(* counter says how many are left.                                           *)
THEOREM TasksAlways == Spec => []TasksInv
<1>1. Owned /\ TasksInv /\ [Next]_vars => (Owned /\ TasksInv)'
  BY OwnedStep, TasksStep
<1>. QED
  BY <1>1, OwnedInit, TasksInit, PTL DEF Spec

(* The counter is below the unfinished tasks by those not counted yet.       *)
THEOREM CountersCount == Spec => []CounterCounts
<1>1. Owned /\ TasksInv => CounterCounts
  <2>. SUFFICES ASSUME Owned, TasksInv, NEW g \in Groups
                PROVE  LET uncounted == {c \in Holders(g) : pc[c] = "add"}
                           taken == {t \in Threads : job[t].group = g}
                           queued == Len(group[g].waiting) + Cardinality(taken)
                       IN \/ uncounted = {} /\ group[g].unfinished = queued
                          \/ \E c \in uncounted : group[g].unfinished = queued - posts[c]
    BY DEF CounterCounts
  <2>. DEFINE uncounted == {c \in Holders(g) : pc[c] = "add"}
              old == Len(group[g].waiting)
              size == Cardinality(Taken(g))
  <2>1. {t \in Threads : job[t].group = g} = Taken(g)
    BY DEF Taken
  <2>2. old \in Nat /\ size \in Nat /\ \A c \in Clients : posts[c] \in Nat
    <3>1. group \in [Groups -> TaskGroups] /\ posts \in [Clients -> Nat]
      BY DataTypes DEF Owned
    <3>2. group[g].waiting \in Seq(1 .. TaskLimit)
      BY <3>1 DEF TaskGroups
    <3>. QED
      BY <3>1, <3>2, TakenFinite
  <2>3. \A c \in uncounted : c \in Clients /\ Uses(c, g) /\ pc[c] = "add"
    BY DEF Holders, Uses, Using
  <2>4. CASE \A c \in Clients : ~ Uses(c, g)
    <3>1. uncounted = {} /\ group[g].waiting = << >> /\ Taken(g) = {}
          /\ group[g].unfinished = 0
      BY <2>3, <2>4 DEF TasksInv, IdleInv
    <3>2. old = 0 /\ size = 0
      BY <3>1, FS_EmptySet
    <3>3. group[g].unfinished = old + size
      BY <3>1, <3>2
    <3>. QED
      BY <2>1, <3>1, <3>3
  <2>5. ASSUME NEW c \in Clients, Uses(c, g), pc[c] = "add"
        PROVE  c \in uncounted /\ group[g].unfinished = (old + size) - posts[c]
    <3>1. c \in uncounted
      BY <2>5 DEF Uses, Holders
    <3>2. group[g].unfinished = old + size - posts[c]
      BY <2>5 DEF TasksInv, CountInv
    <3>. HIDE DEF old, size
    <3>. QED
      BY <2>2, <3>1, <3>2
  <2>6. ASSUME NEW c \in Clients, Uses(c, g), pc[c] # "add"
        PROVE  uncounted = {} /\ group[g].unfinished = old + size
    <3>1. uncounted = {}
      BY <2>3, <2>6, OneUser
    <3>2. group[g].unfinished = old + size - 0
      BY <2>6 DEF TasksInv, CountInv
    <3>. HIDE DEF old, size
    <3>. QED
      BY <2>2, <3>1, <3>2
  <2>. QED
    BY <2>1, <2>4, <2>5, <2>6
<1>. QED
  BY <1>1, OwnedAlways, TasksAlways, PTL

(* A task group has one owner, and no thread works for one without a client. *)
THEOREM GroupsHaveOneOwner == Spec => []OneOwner
<1>1. Owned /\ TasksInv => OneOwner
  <2>. SUFFICES ASSUME Owned, TasksInv, NEW g \in Groups
                PROVE  LET slots == {x \in 1 .. Slots : free[x] = g}
                           clients == {c \in Clients : handle[c] = g}
                       IN /\ Cardinality(slots) + Cardinality(clients)
                               = IF g \in heap THEN 1 ELSE 0
                          /\ (\E t \in Threads : job[t].group = g) => Holders(g) # {}
    BY DEF OneOwner
  <2>. DEFINE slots == {x \in 1 .. Slots : free[x] = g}
              clients == {c \in Clients : handle[c] = g}
  <2>0. g # Null
    BY GroupsAssumption
  <2>1. /\ \A x, y \in slots : x = y
        /\ \A c, d \in clients : c = d
        /\ slots = {} \/ clients = {}
        /\ g \in heap <=> slots # {} \/ clients # {}
    BY <2>0 DEF Owned, OwnInv
  <2>. HIDE DEF slots, clients
  <2>2. slots # {} => Cardinality(slots) = 1
    <3>1. ASSUME NEW x \in slots PROVE Cardinality(slots) = 1
      <4>1. slots = {x}
        BY <2>1
      <4>. QED
        BY <4>1, FS_Singleton
    <3>. QED
      BY <3>1
  <2>3. clients # {} => Cardinality(clients) = 1
    <3>1. ASSUME NEW c \in clients PROVE Cardinality(clients) = 1
      <4>1. clients = {c}
        BY <2>1
      <4>. QED
        BY <4>1, FS_Singleton
    <3>. QED
      BY <3>1
  <2>4. /\ slots = {} => Cardinality(slots) = 0
        /\ clients = {} => Cardinality(clients) = 0
    BY FS_EmptySet
  <2>5. Cardinality(slots) + Cardinality(clients) = IF g \in heap THEN 1 ELSE 0
    BY <2>1, <2>2, <2>3, <2>4
  <2>6. (\E t \in Threads : job[t].group = g) => Holders(g) # {}
    <3>1. ASSUME NEW t \in Threads, job[t].group = g PROVE Holders(g) # {}
      <4>1. PICK c \in Clients : Uses(c, g)
        BY <3>1 DEF TasksInv, IdleInv, Taken
      <4>2. c \in Holders(g)
        BY <4>1 DEF Uses, Using, Holders
      <4>. QED
        BY <4>2
    <3>. QED
      BY <3>1
  <2>. QED
    BY <2>5, <2>6 DEF slots, clients
<1>. QED
  BY <1>1, OwnedAlways, TasksAlways, PTL

(* The task system runs each task once before its client goes on.            *)
THEOREM Implementation == Spec => RunsTasksOnce
<1>1. Init => Promise!Init
  BY DEF Init, Promise!Init
<1>2. Owned /\ TasksInv /\ [Next]_vars => [Promise!Next]_runs
  <2>. SUFFICES ASSUME Owned, TasksInv, [Next]_vars PROVE [Promise!Next]_runs
    OBVIOUS
  <2>1. CASE Quiet
    BY <2>1 DEF Quiet
  <2>2. CASE UNCHANGED vars
    BY <2>2 DEF vars, history
  <2>3. CASE Loud
    <3>1. ASSUME NEW c \in Clients, TakeGroup(c) \/ CreateGroup(c) \/ AddUnfinished(c)
          PROVE  UNCHANGED runs
      BY <3>1 DEF TakeGroup, CreateGroup, AddUnfinished, history
    <3>2. ASSUME NEW c \in Clients, NEW n \in Counts, Launch(c, n)
          PROVE  Promise!Next
      <4>1. runs' = [runs EXCEPT ![c] = @ \o [x \in 1 .. n |-> 0]]
        BY <3>2 DEF Launch
      <4>. QED
        BY <4>1 DEF Promise!Next, Promise!Fork
    <3>3. ASSUME NEW c \in Clients, Reset(c), ~ group[handle[c]].inActive
          PROVE  Promise!Next
      <4>1. /\ runs \in [Clients -> Seq(Nat)]
            /\ \A k \in 1 .. Len(runs[c]) : runs[c][k] = 1
            /\ runs' = [runs EXCEPT ![c] = << >>]
        BY <3>3, ResetTasks, DataTypes DEF Owned
      <4>2. \A x \in DOMAIN runs[c] : runs[c][x] = 1
        BY <4>1
      <4>. QED
        BY <4>1, <4>2 DEF Promise!Next, Promise!Join
    <3>4. ASSUME NEW t \in Threads, Taking(t) PROVE UNCHANGED runs
      BY <3>4 DEF Taking
    <3>5. ASSUME NEW t \in Threads, RunTask(t) PROVE Promise!Next
      <4>1. runs \in [Clients -> Seq(Nat)]
        BY DataTypes DEF Owned
      <4>2. PICK c \in Clients : \E k \in 1 .. Len(runs[c]) :
              runs[c][k] = 0 /\ runs' = [runs EXCEPT ![c][k] = 1]
        BY <3>5, RunTasks
      <4>3. PICK k \in 1 .. Len(runs[c]) :
              runs[c][k] = 0 /\ runs' = [runs EXCEPT ![c][k] = 1]
        BY <4>2
      <4>4. k \in DOMAIN runs[c]
        BY <4>1
      <4>. QED
        BY <4>3, <4>4 DEF Promise!Next, Promise!Run
    <3>6. ASSUME NEW t \in Threads, Decrement(t) PROVE UNCHANGED runs
      BY <3>6 DEF Decrement, history
    <3>. QED
      BY <2>3, <3>1, <3>2, <3>3, <3>4, <3>5, <3>6 DEF Loud
  <2>. QED
    BY <2>1, <2>2, <2>3, QuietOrLoud
<1>. QED
  BY <1>1, <1>2, OwnedAlways, TasksAlways, PTL DEF Spec, RunsTasksOnce, Promise!Spec

-----------------------------------------------------------------------------
(* The active list *)

(* The list and the groups, as far as it is about them, stay as they are.    *)
SameQueue ==
  /\ \A g \in Groups : /\ group'[g].waiting = group[g].waiting
                       /\ group'[g].inActive <=> group[g].inActive
  /\ ~ raced' => ~ raced /\ active' = active

(* Thread t takes a task of g, and shorter is the list without g, or the     *)
(* list that did not hold g.                                                 *)
Shortens(g, shorter) ==
  \/ shorter = active /\ \A x \in 1 .. Len(active) : active[x] # g
  \/ \E i \in 1 .. Len(active) :
       /\ active[i] = g
       /\ Len(shorter) = Len(active) - 1
       /\ \A x \in 1 .. Len(active) - 1 :
            shorter[x] = IF x < i THEN active[x] ELSE active[x + 1]

Dequeues(t) ==
  \E g \in Groups : \E shorter \in Seq(Groups) :
    /\ Take(t, g, shorter)
    /\ Shortens(g, shorter)
    /\ ~ raced' => ~ raced

(* Without its last element the list is without one entry of that group. *)
LEMMA ShortensLast ==
  ASSUME active \in Seq(Groups), active # << >>
  PROVE  /\ Last(active) \in Groups /\ Front(active) \in Seq(Groups)
         /\ Shortens(Last(active), Front(active))
         /\ \E x \in 1 .. Len(active) : active[x] = Last(active)
<1>1. /\ Len(active) \in Nat \ {0}
      /\ Last(active) \in Groups /\ Last(active) = active[Len(active)]
      /\ Front(active) \in Seq(Groups) /\ Len(Front(active)) = Len(active) - 1
      /\ \A x \in 1 .. Len(active) - 1 : Front(active)[x] = active[x]
  BY LastFront
<1>2. \A x \in 1 .. Len(active) - 1 : x < Len(active)
  BY <1>1
<1>3. Len(active) \in 1 .. Len(active)
  BY <1>1
<1>. QED
  BY <1>1, <1>2, <1>3 DEF Shortens

(* A step leaves the list and the flags alone, creates a group, adds one, or
   takes a task and shortens the list. *)
LEMMA QueueSteps ==
  ASSUME Owned, Next
  PROVE  \/ SameQueue
         \/ \E c \in Clients : CreateGroup(c) \/ \E n \in Counts : Launch(c, n)
         \/ \E t \in Threads : Dequeues(t)
<1>. DEFINE Goal == \/ SameQueue
                    \/ \E c \in Clients : CreateGroup(c) \/ \E n \in Counts : Launch(c, n)
                    \/ \E t \in Threads : Dequeues(t)
<1>0. /\ group \in [Groups -> TaskGroups] /\ active \in Seq(Groups)
      /\ raced \in BOOLEAN
      /\ handle \in [Clients -> Groups \cup {Null}]
      /\ Clients \subseteq Threads /\ Workers \subseteq Threads
  BY DataTypes DEF Owned, TypeOK
<1>u. UNCHANGED queue => SameQueue
  BY DEF queue, SameQueue
<1>r. UseActive => (~ raced' => ~ raced)
  BY <1>0 DEF UseActive
<1>. HIDE DEF Goal
<1>1. ASSUME NEW t \in Threads, AssertWaiting(t) \/ RunTask(t) \/ Decrement(t)
      PROVE  Goal
  <2>1. CASE AssertWaiting(t) \/ RunTask(t)
    BY <2>1, <1>u DEF AssertWaiting, RunTask, Halt, Goal
  <2>2. CASE Decrement(t)
    <3>1. pc[t] = "ran" /\ UNCHANGED <<active, raced>>
      BY <2>2 DEF Decrement, At
    <3>2. job[t].group \in Groups
      BY <3>1, DataTypes DEF Owned, PlaceInv, RunningInv, Jobs
    <3>3. /\ group[job[t].group].unfinished - 1 \in Int
          /\ group' = [group EXCEPT ![job[t].group].unfinished
                         = group[job[t].group].unfinished - 1]
      BY <2>2, <3>2, DecrementEffect DEF Owned
    <3>4. \A h \in Groups : /\ group'[h].waiting = group[h].waiting
                            /\ group'[h].inActive <=> group[h].inActive
      BY <3>2, <3>3, UnfinishedEffect DEF Owned
    <3>. QED
      BY <3>1, <3>4 DEF SameQueue, Goal
  <2>. QED
    BY <1>1, <2>1, <2>2
<1>2. ASSUME NEW c \in Clients, CheckThreads(c) PROVE Goal
  BY <1>2, <1>u DEF CheckThreads, Goal
<1>3. ASSUME NEW c \in Clients, InitTaskSystem(c) PROVE Goal
  <2>1. CASE EndReserve(c)
    BY <2>1 DEF EndReserve, SameQueue, Goal
  <2>2. CASE TakeLock(c) \/ PublishThreads(c) \/ StartWorkers(c) \/ BeginReserve(c) \/
             BreakVector(c) \/ Unlock(c)
    BY <2>2, <1>u DEF TakeLock, PublishThreads, StartWorkers, BeginReserve, BreakVector,
                      Unlock, Halt, Goal
  <2>. QED
    BY <1>3, <2>1, <2>2 DEF InitTaskSystem
<1>4. ASSUME NEW c \in Clients, AllocTaskGroup(c) PROVE Goal
  BY <1>4, <1>u DEF AllocTaskGroup, ReadSlot, TakeGroup, MissGroup, Halt, Goal
<1>5. ASSUME NEW c \in Clients, ISPCLaunch(c) PROVE Goal
  <2>1. CASE AddUnfinished(c)
    <3>1. pc[c] = "add" /\ UNCHANGED <<active, raced>>
      BY <2>1 DEF AddUnfinished, At
    <3>2. handle[c] \in Groups
      BY <3>1, <1>0 DEF Owned, PlaceInv, ClientInv, Holding, Using
    <3>3. /\ group[handle[c]].unfinished + posts[c] \in Int
          /\ group' = [group EXCEPT ![handle[c]].unfinished
                         = group[handle[c]].unfinished + posts[c]]
      BY <2>1, <3>2, AddEffect DEF Owned
    <3>4. \A h \in Groups : /\ group'[h].waiting = group[h].waiting
                            /\ group'[h].inActive <=> group[h].inActive
      BY <3>2, <3>3, UnfinishedEffect DEF Owned
    <3>. QED
      BY <3>1, <3>4 DEF SameQueue, Goal
  <2>2. CASE (\E n \in Counts : TooManyTasks(c, n)) \/ Post(c)
    BY <2>2, <1>u DEF TooManyTasks, Post, Halt, Goal
  <2>. QED
    BY <1>5, <2>1, <2>2 DEF ISPCLaunch, Goal
<1>6. ASSUME NEW c \in Clients, Sync(c) PROVE Goal
  <2>0. pc[c] = "help" => handle[c] \in Groups /\ c \in Threads
    BY <1>0 DEF Owned, PlaceInv, ClientInv, Holding, Using
  <2>1. CASE CheckUnfinished(c)
    BY <2>1, <1>u DEF CheckUnfinished, Goal
  <2>2. CASE TakeOwn(c)
    <3>1. /\ pc[c] = "help" /\ Contains(active, handle[c])
          /\ Take(c, handle[c], RemoveFirst(active, handle[c])) /\ UseActive
      BY <2>2 DEF TakeOwn, At
    <3>2. /\ RemoveFirst(active, handle[c]) \in Seq(Groups)
          /\ Shortens(handle[c], RemoveFirst(active, handle[c]))
      BY <1>0, <3>1, RemoveFirstProperties DEF Shortens
    <3>. QED
      BY <1>r, <2>0, <3>1, <3>2 DEF Dequeues, Goal
  <2>3. CASE TakeUnlisted(c)
    <3>1. CASE Len(group[handle[c]].waiting) = 1
      BY <2>3, <3>1, <1>u DEF TakeUnlisted, Halt, Goal
    <3>2. CASE Len(group[handle[c]].waiting) # 1
      <4>1. /\ pc[c] = "help" /\ ~ Contains(active, handle[c])
            /\ Take(c, handle[c], active) /\ UseActive
        BY <2>3, <3>2 DEF TakeUnlisted, At
      <4>2. Shortens(handle[c], active)
        BY <4>1 DEF Contains, Shortens
      <4>. QED
        BY <1>0, <1>r, <2>0, <4>1, <4>2 DEF Dequeues, Goal
    <3>. QED
      BY <3>1, <3>2
  <2>4. CASE TakeOther(c)
    <3>1. /\ active # << >> /\ Take(c, Last(active), Front(active)) /\ UseActive
      BY <2>4 DEF TakeOther, TakeFromLast
    <3>. QED
      BY <1>0, <1>r, <3>1, ShortensLast DEF Dequeues, Goal
  <2>5. CASE TakeNothing(c)
    BY <2>5, <1>r DEF TakeNothing, SameQueue, Goal
  <2>. QED
    BY <1>0, <1>1, <1>6, <2>1, <2>2, <2>3, <2>4, <2>5 DEF Sync
<1>7. ASSUME NEW c \in Clients, FreeTaskGroup(c) PROVE Goal
  <2>1. CASE Reset(c)
    <3>1. CASE group[handle[c]].inActive
      BY <2>1, <3>1, <1>u DEF Reset, Halt, Goal
    <3>2. CASE ~ group[handle[c]].inActive
      <4>1. pc[c] = "reset" /\ UNCHANGED <<active, raced>>
        BY <2>1, <3>2 DEF Reset, At
      <4>2. handle[c] \in Groups
        BY <4>1, <1>0 DEF Owned, PlaceInv, ClientInv, Holding, Using
      <4>3. \A h \in Groups : /\ group'[h].waiting = group[h].waiting
                              /\ group'[h].inActive <=> group[h].inActive
        BY <2>1, <3>2, <4>2, ResetEffect DEF Owned
      <4>. QED
        BY <4>1, <4>3 DEF SameQueue, Goal
    <3>. QED
      BY <3>1, <3>2
  <2>2. CASE FindFreeSlot(c) \/ PutGroup(c) \/ MissSlot(c) \/ DeleteGroup(c)
    BY <2>2, <1>u DEF FindFreeSlot, PutGroup, MissSlot, DeleteGroup, Goal
  <2>. QED
    BY <1>7, <2>1, <2>2 DEF FreeTaskGroup
<1>8. ASSUME NEW w \in Workers, WorkerStep(w) PROVE Goal
  <2>1. CASE WorkerTakes(w)
    <3>1. CASE active # << >>
      <4>1. Take(w, Last(active), Front(active)) /\ UseActive
        BY <2>1, <3>1 DEF WorkerTakes, TakeFromLast
      <4>. QED
        BY <1>0, <1>r, <3>1, <4>1, ShortensLast DEF Dequeues, Goal
    <3>2. CASE active = << >>
      BY <2>1, <3>2, <1>r DEF WorkerTakes, SameQueue, Goal
    <3>. QED
      BY <3>1, <3>2
  <2>2. CASE WaitForWork(w)
    BY <2>2, <1>u DEF WaitForWork, Goal
  <2>. QED
    BY <1>0, <1>1, <1>8, <2>1, <2>2 DEF WorkerStep
<1>9. CASE Rest
  BY <1>9, <1>u DEF Rest, vars, Goal
<1>. QED
  BY <1>2, <1>3, <1>4, <1>5, <1>6, <1>7, <1>8, <1>9 DEF Next, ClientStep, Goal

(* A group that joins the list is not on it yet, one that leaves it was      *)
(* there once.                                                               *)
LEMMA QueueStep == Owned /\ TasksInv /\ QueueInv /\ [Next]_vars => QueueInv'
<1>. SUFFICES ASSUME Owned, TasksInv, QueueInv, [Next]_vars PROVE QueueInv'
  OBVIOUS
<1>0. group \in [Groups -> TaskGroups] /\ active \in Seq(Groups) /\ raced \in BOOLEAN
  BY DataTypes DEF Owned, TypeOK
<1>1. CASE SameQueue
  BY <1>1 DEF SameQueue, QueueInv
<1>2. ASSUME NEW c \in Clients, CreateGroup(c) PROVE QueueInv'
  <2>1. pc[c] = "alloc" /\ UNCHANGED <<active, raced>>
    BY <1>2 DEF CreateGroup, At
  <2>2. handle[c] = Null
    BY <2>1 DEF Owned, PlaceInv, ClientInv, Holding, Using
  <2>3. PICK g \in Groups : g \notin heap /\ group' = [group EXCEPT ![g] = NewGroup]
    BY <1>2, <2>2, CreateEffect DEF Owned
  <2>4. /\ group'[g].waiting = << >> /\ ~ group'[g].inActive
        /\ \A h \in Groups : h # g => group'[h] = group[h]
    BY <1>0, <2>3 DEF NewGroup
  <2>5. group[g].waiting = << >>
    <3>1. handle \in [Clients -> Groups \cup {Null}]
      BY DataTypes DEF Owned
    <3>2. \A d \in Clients : ~ Uses(d, g)
      BY <2>3 DEF Owned, OwnInv, Uses
    <3>. QED
      BY <3>2 DEF TasksInv, IdleInv
  <2>6. ~ group[g].inActive
    BY <2>5 DEF QueueInv
  <2>7. \A h \in Groups : /\ group'[h].waiting = << >> <=> group[h].waiting = << >>
                          /\ group'[h].inActive <=> group[h].inActive
    BY <2>4, <2>5, <2>6
  <2>. QED
    BY <2>1, <2>7 DEF QueueInv
<1>3. ASSUME NEW c \in Clients, NEW n \in Counts, Launch(c, n) PROVE QueueInv'
  <2>1. /\ pc[c] = "open" /\ UseActive
        /\ active' = IF group[handle[c]].inActive THEN active ELSE Append(active, handle[c])
    BY <1>3 DEF Launch, At, ActiveWith
  <2>2. PICK g \in Groups : g = handle[c]
    BY <2>1, OneUser DEF Using
  <2>3. /\ TypeOK /\ PlaceInv /\ handle[c] \in Groups
    BY <2>2 DEF Owned
  <2>4. /\ \A h \in Groups : h # g => group'[h] = group[h]
        /\ group'[g].inActive
    BY <1>3, <2>2, <2>3, LaunchEffect
  <2>5. Len(group'[g].waiting) = Len(group[g].waiting) + n
        /\ Len(group[g].waiting) \in Nat /\ n \in Nat \ {0}
    BY <1>3, <2>2, <2>3, LaunchEffect
  <2>6. group'[g].waiting # << >>
    <3>1. Len(group'[g].waiting) # 0 /\ Len(<< >>) = 0
      BY <2>5
    <3>. QED
      BY <3>1
  <2>7. \A h \in Groups : group'[h].inActive <=> group'[h].waiting # << >>
    BY <2>4, <2>6 DEF QueueInv
  <2>8. ASSUME ~ raced'
        PROVE  /\ \A x, y \in 1 .. Len(active') : active'[x] = active'[y] => x = y
               /\ \A h \in Groups : group'[h].inActive
                    <=> \E x \in 1 .. Len(active') : active'[x] = h
    <3>1. /\ \A x, y \in 1 .. Len(active) : active[x] = active[y] => x = y
          /\ \A h \in Groups : group[h].inActive
               <=> \E x \in 1 .. Len(active) : active[x] = h
      BY <1>0, <2>1, <2>8 DEF UseActive, QueueInv
    <3>2. CASE group[g].inActive
      BY <2>1, <2>2, <2>4, <3>1, <3>2
    <3>3. CASE ~ group[g].inActive
      <4>1. active' = Append(active, g)
        BY <2>1, <2>2, <3>3
      <4>2. /\ Len(active') = Len(active) + 1 /\ Len(active) \in Nat
            /\ active'[Len(active) + 1] = g
            /\ \A x \in 1 .. Len(active) : active'[x] = active[x]
        BY <1>0, <4>1, AppendProperties
      <4>3. \A x \in 1 .. Len(active) : active[x] # g
        BY <3>1, <3>3
      <4>4. \A x \in 1 .. Len(active') : x = Len(active) + 1 \/ x \in 1 .. Len(active)
        BY <4>2
      <4>5. \A x \in 1 .. Len(active) : x \in 1 .. Len(active')
        BY <4>2
      <4>6. Len(active) + 1 \in 1 .. Len(active')
        BY <4>2
      <4>. QED
        BY <2>4, <3>1, <4>2, <4>3, <4>4, <4>5, <4>6
    <3>. QED
      BY <3>2, <3>3
  <2>. QED
    BY <2>7, <2>8 DEF QueueInv
<1>4. ASSUME NEW t \in Threads, Dequeues(t) PROVE QueueInv'
  <2>1. PICK g \in Groups, shorter \in Seq(Groups) :
          Take(t, g, shorter) /\ Shortens(g, shorter) /\ (~ raced' => ~ raced)
    BY <1>4 DEF Dequeues
  <2>. DEFINE w == group[g].waiting
              rest == group'[g].waiting
  <2>2. /\ w # << >> /\ Len(rest) = Len(w) - 1
        /\ \A h \in Groups : h # g => group'[h] = group[h]
        /\ group'[g].inActive <=> group[g].inActive /\ Len(w) # 1
        /\ active' = IF Len(w) = 1 THEN shorter ELSE active
        /\ group' \in [Groups -> TaskGroups]
    BY <2>1, TakeEffect DEF Owned
  <2>3. Len(w) \in Nat \ {0} /\ rest \in Seq(1 .. TaskLimit)
    <3>1. w \in Seq(1 .. TaskLimit)
      BY <1>0 DEF TaskGroups
    <3>. QED
      BY <2>2, <3>1, EmptySeq DEF TaskGroups
  <2>4. rest = << >> <=> Len(w) = 1
    <3>1. rest = << >> <=> Len(rest) = 0
      BY <2>3, EmptySeq
    <3>. QED
      BY <2>2, <2>3, <3>1
  <2>5. group[g].inActive
    BY <2>2 DEF QueueInv
  <2>6. \A h \in Groups : group'[h].inActive <=> group'[h].waiting # << >>
    BY <2>2, <2>4, <2>5 DEF QueueInv
  <2>7. ASSUME ~ raced'
        PROVE  /\ \A x, y \in 1 .. Len(active') : active'[x] = active'[y] => x = y
               /\ \A h \in Groups : group'[h].inActive
                    <=> \E x \in 1 .. Len(active') : active'[x] = h
    <3>1. /\ \A x, y \in 1 .. Len(active) : active[x] = active[y] => x = y
          /\ \A h \in Groups : group[h].inActive
               <=> \E x \in 1 .. Len(active) : active[x] = h
      BY <2>1, <2>7 DEF QueueInv
    <3>2. CASE Len(w) # 1
      BY <2>2, <2>5, <3>1, <3>2
    <3>3. CASE Len(w) = 1
      <4>1. PICK i \in 1 .. Len(active) :
              /\ active[i] = g
              /\ Len(shorter) = Len(active) - 1
              /\ \A x \in 1 .. Len(active) - 1 :
                   shorter[x] = IF x < i THEN active[x] ELSE active[x + 1]
        BY <2>1, <2>5, <3>1 DEF Shortens
      <4>2. active' = shorter /\ ~ group'[g].inActive
        BY <2>2, <3>3
      <4>3. Len(active) \in Nat
        BY <1>0
      <4>4. ASSUME NEW x \in 1 .. Len(active) - 1
            PROVE  /\ x < i => x \in 1 .. Len(active) /\ shorter[x] = active[x]
                   /\ ~ x < i => x + 1 \in 1 .. Len(active) /\ shorter[x] = active[x + 1]
        BY <4>1, <4>3
      <4>5. ASSUME NEW x \in 1 .. Len(active) - 1, NEW y \in 1 .. Len(active) - 1,
                   shorter[x] = shorter[y]
            PROVE  x = y
        <5>1. CASE x < i /\ y < i
          BY <3>1, <4>4, <4>5, <5>1
        <5>2. CASE ~ x < i /\ ~ y < i
          <6>1. x + 1 = y + 1
            BY <3>1, <4>4, <4>5, <5>2
          <6>. QED
            BY <6>1
        <5>3. CASE x < i /\ ~ y < i
          <6>1. x = y + 1
            BY <3>1, <4>4, <4>5, <5>3
          <6>. QED
            BY <5>3, <6>1
        <5>4. CASE ~ x < i /\ y < i
          <6>1. x + 1 = y
            BY <3>1, <4>4, <4>5, <5>4
          <6>. QED
            BY <5>4, <6>1
        <5>. QED
          BY <5>1, <5>2, <5>3, <5>4
      <4>6. ASSUME NEW h \in Groups, h # g, NEW x \in 1 .. Len(active), active[x] = h
            PROVE  \E y \in 1 .. Len(active) - 1 : shorter[y] = h
        <5>1. CASE x < i
          <6>1. x \in 1 .. Len(active) - 1
            BY <4>3, <5>1
          <6>. QED
            BY <4>4, <4>6, <5>1, <6>1
        <5>2. CASE x > i
          <6>1. x - 1 \in 1 .. Len(active) - 1 /\ ~ x - 1 < i /\ x - 1 + 1 = x
            BY <4>3, <5>2
          <6>2. shorter[x - 1] = active[x]
            BY <4>4, <6>1
          <6>. QED
            BY <4>6, <6>1, <6>2
        <5>. QED
          BY <4>1, <4>6, <5>1, <5>2
      <4>7. ASSUME NEW y \in 1 .. Len(active) - 1
            PROVE  shorter[y] # g /\ \E x \in 1 .. Len(active) : active[x] = shorter[y]
        <5>1. CASE y < i
          <6>1. y \in 1 .. Len(active) /\ shorter[y] = active[y]
            BY <4>4, <5>1
          <6>2. active[y] # g
            BY <3>1, <4>1, <5>1, <6>1
          <6>. QED
            BY <6>1, <6>2
        <5>2. CASE ~ y < i
          <6>1. y + 1 \in 1 .. Len(active) /\ shorter[y] = active[y + 1] /\ y + 1 # i
            BY <4>4, <5>2
          <6>2. active[y + 1] # g
            BY <3>1, <4>1, <6>1
          <6>. QED
            BY <6>1, <6>2
        <5>. QED
          BY <5>1, <5>2
      <4>8. ASSUME NEW h \in Groups
            PROVE  group'[h].inActive <=> \E x \in 1 .. Len(active) - 1 : shorter[x] = h
        BY <2>2, <3>1, <4>2, <4>6, <4>7
      <4>. QED
        BY <4>1, <4>2, <4>5, <4>8
    <3>. QED
      BY <3>2, <3>3
  <2>. QED
    BY <2>6, <2>7 DEF QueueInv
<1>5. CASE UNCHANGED vars
  BY <1>5 DEF vars, queue, QueueInv
<1>. QED
  BY <1>1, <1>2, <1>3, <1>4, <1>5, QueueSteps

(* At first the list is empty. *)
LEMMA QueueInit == Init => QueueInv
<1>. SUFFICES ASSUME Init PROVE QueueInv
  OBVIOUS
<1>1. active = << >> /\ \A g \in Groups : group[g].waiting = << >> /\ ~ group[g].inActive
  BY DEF Init, NewGroup
<1>2. Len(<< >>) = 0 /\ 1 .. 0 = {}
  OBVIOUS
<1>. QED
  BY <1>1, <1>2 DEF QueueInv

(* The list of active groups is the groups with a waiting task, in spite of  *)
(* every way in which groups join and leave it, unless reserve was raced.    *)
THEOREM QueueAlways == Spec => []QueueInv
<1>1. Owned /\ TasksInv /\ QueueInv /\ [Next]_vars => (Owned /\ TasksInv /\ QueueInv)'
  BY OwnedStep, TasksStep, QueueStep
<1>. QED
  BY <1>1, OwnedInit, TasksInit, QueueInit, PTL DEF Spec

(* The active list holds the groups with a waiting task, each of them once. *)
THEOREM ActiveListCorrect == Spec => []ActiveHoldsWaiting
<1>1. Owned /\ QueueInv => ActiveHoldsWaiting
  <2>. SUFFICES ASSUME Owned, QueueInv, ~ raced, NEW g \in Groups
                PROVE  LET places == {x \in DOMAIN active : active[x] = g}
                       IN /\ Cardinality(places) = IF group[g].inActive THEN 1 ELSE 0
                          /\ group[g].inActive <=> group[g].waiting # << >>
    BY DEF ActiveHoldsWaiting
  <2>. DEFINE places == {x \in DOMAIN active : active[x] = g}
  <2>1. DOMAIN active = 1 .. Len(active)
    BY DataTypes DEF Owned, TypeOK
  <2>2. \A x, y \in places : x = y
    BY <2>1 DEF QueueInv
  <2>3. group[g].inActive <=> places # {}
    BY <2>1 DEF QueueInv
  <2>. HIDE DEF places
  <2>4. places = {} => Cardinality(places) = 0
    BY FS_EmptySet
  <2>5. ASSUME NEW x \in places PROVE Cardinality(places) = 1
    <3>1. places = {x}
      BY <2>2
    <3>. QED
      BY <3>1, FS_Singleton
  <2>6. Cardinality(places) = IF group[g].inActive THEN 1 ELSE 0
    BY <2>3, <2>4, <2>5
  <2>. QED
    BY <2>6 DEF QueueInv, places
<1>. QED
  BY <1>1, OwnedAlways, QueueAlways, PTL

-----------------------------------------------------------------------------
(* What stops the program *)

(* Nothing happens any more when it is gone.                                 *)
LEMMA HaltedStays ==
  ASSUME Next, halted # "no"
  PROVE  UNCHANGED vars
<1>1. \A t \in Threads : \A label : ~ At(t, label)
  BY DEF At
<1>2. Clients \subseteq Threads /\ Workers \subseteq Threads
  BY DEF Threads
<1>3. ASSUME NEW t \in Threads PROVE ~ AssertWaiting(t) /\ ~ RunTask(t) /\ ~ Decrement(t)
  BY <1>1, <1>3 DEF AssertWaiting, RunTask, Decrement
<1>4. ASSUME NEW c \in Clients PROVE ~ ClientStep(c)
  <2>1. \A label : ~ At(c, label)
    BY <1>1, <1>2
  <2>2. ~ CheckThreads(c) /\ ~ InitTaskSystem(c)
    BY <2>1 DEF CheckThreads, InitTaskSystem, TakeLock, PublishThreads, StartWorkers,
                BeginReserve, EndReserve, BreakVector, Unlock
  <2>3. ~ AllocTaskGroup(c) /\ ~ ISPCLaunch(c)
    BY <2>1 DEF AllocTaskGroup, ReadSlot, TakeGroup, MissGroup, CreateGroup, ISPCLaunch,
                Launch, TooManyTasks, AddUnfinished, Post
  <2>4. ~ Sync(c)
    BY <1>2, <1>3, <2>1 DEF Sync, CheckUnfinished, TakeOwn, TakeUnlisted, TakeOther,
                            TakeNothing
  <2>5. ~ FreeTaskGroup(c)
    BY <2>1 DEF FreeTaskGroup, Reset, FindFreeSlot, PutGroup, MissSlot, DeleteGroup
  <2>. QED
    BY <2>2, <2>3, <2>4, <2>5 DEF ClientStep
<1>5. ASSUME NEW w \in Workers PROVE ~ WorkerStep(w)
  BY <1>1, <1>2, <1>3 DEF WorkerStep, WaitForWork, WorkerTakes
<1>. QED
  BY <1>4, <1>5 DEF Next, Rest

(* The steps that can stop it.                                               *)
LEMMA StoppingSteps ==
  ASSUME Next, halted' # halted
  PROVE  \/ \E c \in Clients : \/ BreakVector(c) \/ MissGroup(c)
                               \/ \E n \in Counts : TooManyTasks(c, n)
                               \/ TakeUnlisted(c) \/ Reset(c)
         \/ \E t \in Threads : AssertWaiting(t)
<1>1. Clients \subseteq Threads /\ Workers \subseteq Threads
  BY DEF Threads
<1>2. ASSUME NEW c \in Clients, CheckThreads(c) \/ InitTaskSystem(c) PROVE BreakVector(c)
  BY <1>2 DEF CheckThreads, InitTaskSystem, TakeLock, PublishThreads, StartWorkers,
              BeginReserve, EndReserve, Unlock
<1>3. ASSUME NEW c \in Clients, AllocTaskGroup(c) PROVE MissGroup(c)
  BY <1>3 DEF AllocTaskGroup, ReadSlot, TakeGroup, CreateGroup
<1>4. ASSUME NEW c \in Clients, ISPCLaunch(c) PROVE \E n \in Counts : TooManyTasks(c, n)
  BY <1>4 DEF ISPCLaunch, Launch, AddUnfinished, Post
<1>5. ASSUME NEW c \in Clients, Sync(c) PROVE TakeUnlisted(c) \/ AssertWaiting(c)
  BY <1>5 DEF Sync, CheckUnfinished, TakeOwn, TakeOther, TakeNothing, RunTask, Decrement
<1>6. ASSUME NEW c \in Clients, FreeTaskGroup(c) PROVE Reset(c)
  BY <1>6 DEF FreeTaskGroup, FindFreeSlot, PutGroup, MissSlot, DeleteGroup
<1>7. ASSUME NEW w \in Workers, WorkerStep(w) PROVE AssertWaiting(w)
  BY <1>7 DEF WorkerStep, WaitForWork, WorkerTakes, RunTask, Decrement
<1>8. ~ Rest
  BY DEF Rest, vars
<1>. QED
  BY <1>1, <1>2, <1>3, <1>4, <1>5, <1>6, <1>7, <1>8 DEF Next, ClientStep

(* A step that stops the program has a reason. *)
LEMMA StopsStep ==
  ASSUME Owned, TasksInv, QueueInv, StopsForAReason, TakesWhatItRead, [Next]_vars
  PROVE  StopsForAReason'
<1>0. /\ group \in [Groups -> TaskGroups] /\ active \in Seq(Groups)
      /\ handle \in [Clients -> Groups \cup {Null}]
  BY DataTypes DEF Owned, TypeOK
<1>1. CASE UNCHANGED vars \/ halted # "no"
  <2>1. UNCHANGED vars
    BY <1>1, HaltedStays
  <2>. QED
    BY <2>1 DEF StopsForAReason, vars, queue, history
<1>2. CASE Next /\ halted = "no" /\ halted' = halted
  BY <1>2 DEF StopsForAReason
<1>3. CASE Next /\ halted = "no" /\ halted' # halted
  <2>1. ASSUME NEW c \in Clients, BreakVector(c) PROVE StopsForAReason'
    BY <2>1 DEF BreakVector, Halt, queue, StopsForAReason
  <2>2. ASSUME NEW c \in Clients, MissGroup(c) PROVE StopsForAReason'
    BY <1>3, <2>2 DEF MissGroup, TakesWhatItRead
  <2>3. ASSUME NEW c \in Clients, NEW n \in Counts, TooManyTasks(c, n)
        PROVE  StopsForAReason'
    <3>1. pc[c] = "open" /\ group[handle[c]].next + n > TaskLimit
          /\ halted' = "exit" /\ UNCHANGED runs
      BY <2>3 DEF TooManyTasks, At, Halt, history
    <3>2. handle[c] \in Groups /\ Uses(c, handle[c])
      BY <3>1, OneUser DEF Using
    <3>3. group[handle[c]].next = Len(runs[c])
      BY <3>2 DEF TasksInv, RoundInv
    <3>4. Len(runs'[c]) + n > TaskLimit
      BY <3>1, <3>3
    <3>. QED
      BY <3>1, <3>4 DEF StopsForAReason
  <2>4. ASSUME NEW c \in Clients, TakeUnlisted(c) PROVE StopsForAReason'
    <3>1. /\ pc[c] = "help" /\ ~ Contains(active, handle[c])
          /\ Len(group[handle[c]].waiting) = 1
          /\ halted' = "undefined" /\ UNCHANGED raced
      BY <1>3, <2>4 DEF TakeUnlisted, At, Halt, queue
    <3>2. handle[c] \in Groups
      BY <3>1, OneUser DEF Using
    <3>3. group[handle[c]].waiting # << >>
      BY <3>1
    <3>4. raced
      BY <3>1, <3>2, <3>3 DEF QueueInv, Contains
    <3>. QED
      BY <3>1, <3>4 DEF StopsForAReason
  <2>5. ASSUME NEW c \in Clients, Reset(c) PROVE StopsForAReason'
    <3>1. pc[c] = "reset" /\ group[handle[c]].inActive
      BY <1>3, <2>5 DEF Reset, At
    <3>2. PICK g \in Groups : g = handle[c] /\ Uses(c, g)
      BY <3>1, OneUser DEF Using
    <3>3. group[g].unfinished = Len(group[g].waiting) + Cardinality(Taken(g)) - 0
          /\ group[g].unfinished <= 0
      BY <3>1, <3>2 DEF TasksInv, CountInv
    <3>4. group[g].waiting \in Seq(1 .. TaskLimit)
      BY <1>0 DEF TaskGroups
    <3>5. Len(group[g].waiting) = 0
      BY <3>3, <3>4, TakenFinite
    <3>6. group[g].waiting = << >>
      BY <3>4, <3>5, EmptySeq
    <3>. QED
      BY <3>1, <3>2, <3>6 DEF QueueInv
  <2>6. ASSUME NEW t \in Threads, AssertWaiting(t) PROVE StopsForAReason'
    <3>1. /\ active # << >> /\ group[Last(active)].waiting = << >>
          /\ halted' = "assertion" /\ UNCHANGED raced
      BY <2>6 DEF AssertWaiting, LastHasNoTask, Halt, queue
    <3>2. /\ Last(active) \in Groups
          /\ \E x \in 1 .. Len(active) : active[x] = Last(active)
      BY <1>0, <3>1, ShortensLast
    <3>3. raced
      BY <3>1, <3>2 DEF QueueInv
    <3>. QED
      BY <3>1, <3>3 DEF StopsForAReason
  <2>. QED
    BY <1>3, <2>1, <2>2, <2>3, <2>4, <2>5, <2>6, StoppingSteps
<1>. QED
  BY <1>1, <1>2, <1>3

(* As long as the slot of freeTaskGroups that AllocTaskGroup clears holds    *)
(* what was read there, nothing else than the race of reserve makes an       *)
(* assertion fail or leaves something undefined.                             *)
THEOREM StopsOnlyForAReason == Spec /\ []TakesWhatItRead => []StopsForAReason
<1>1. Init => StopsForAReason
  BY DEF Init, StopsForAReason
<1>2. Owned /\ TasksInv /\ QueueInv /\ TakesWhatItRead /\ StopsForAReason /\ [Next]_vars
        => StopsForAReason'
  BY StopsStep
<1>. QED
  BY <1>1, <1>2, OwnedAlways, TasksAlways, QueueAlways, PTL DEF Spec

-----------------------------------------------------------------------------
(* Two clients: the slot holds what was read there *)

(* A third client could make AllocTaskGroup fail its assertion: one client   *)
(* takes the group that was read, another puts a different one into the      *)
(* slot.  With two of them, the other client would have to do both.  It puts *)
(* a group into the first slot that it finds empty.  So after it has taken   *)
(* the group it either puts that back into the same slot, or into a slot     *)
(* before it; and from then on it finds slot 1 occupied, takes the group     *)
(* that is there and puts it back there, and never comes to the other slot.  *)
AtMostTwo == \A c, d, e \in Clients : c = d \/ c = e \/ d = e

Scanning == {"alloc", "take", "free", "put"}

(* Looking for an empty slot, client d will find one among the first n.      *)
Scans(d, n) ==
  pc[d] \in {"free", "put"} => /\ slot[d] <= n
                               /\ \A x \in 1 .. Slots : x < slot[d] => free[x] # Null

(* d has the group that c has read, or has put it into a slot before.        *)
HasTaken(c, d) == handle[d] = seen[c] /\ Scans(d, slot[c])

HasMoved(c, d) ==
  /\ slot[c] > 1
  /\ \/ /\ handle[d] = Null
        /\ free[1] # Null
        /\ slot[d] = 1
        /\ pc[d] = "take" => seen[d] = free[1]
     \/ /\ handle[d] # Null
        /\ free[1] = Null
        /\ Scans(d, 1)

FreshSlots == \A c \in Clients : pc[c] \notin Scanning => slot[c] = 1

Kept(c) == \/ free[slot[c]] = seen[c]
           \/ /\ free[slot[c]] = Null
              /\ \E d \in Clients : c # d /\ (HasTaken(c, d) \/ HasMoved(c, d))

SlotInv == FreshSlots /\ \A c \in Clients : pc[c] = "take" => Kept(c)

(* What the steps outside of the slots do to what SlotInv speaks of.         *)
OffSlots ==
  /\ UNCHANGED <<free, handle, slot, seen>>
  /\ \A c \in Clients : pc'[c] # pc[c] => /\ pc[c] \notin Scanning
                                         /\ pc'[c] \notin {"take", "put"}

(* The steps at the slots, which are one client's. *)
AtSlots(c) == \/ ReadSlot(c) \/ TakeGroup(c) \/ CreateGroup(c)
              \/ MissGroup(c) /\ free[slot[c]] = Null
              \/ FindFreeSlot(c) \/ PutGroup(c) \/ MissSlot(c) \/ DeleteGroup(c)

(* Every other step leaves the slots and the search in them alone.           *)
LEMMA SlotSteps ==
  ASSUME TypeOK, Next
  PROVE  OffSlots \/ \E c \in Clients : AtSlots(c)
<1>0. pc \in [Threads -> Labels] /\ \A c \in Clients : c \notin Workers
  BY DataTypes DEF TypeOK
<1>. USE <1>0 DEF OffSlots, At, Goto, Halt, Scanning, Threads, pool
<1>1. ASSUME NEW c \in Clients, CheckThreads(c) PROVE OffSlots
  BY <1>1 DEF CheckThreads
<1>2. ASSUME NEW c \in Clients, InitTaskSystem(c) PROVE OffSlots
  <2>1. CASE TakeLock(c) \/ PublishThreads(c) \/ StartWorkers(c)
    BY <2>1 DEF TakeLock, PublishThreads, StartWorkers
  <2>2. CASE BeginReserve(c) \/ EndReserve(c) \/ BreakVector(c) \/ Unlock(c)
    BY <2>2 DEF BeginReserve, EndReserve, BreakVector, Unlock
  <2>. QED
    BY <1>2, <2>1, <2>2 DEF InitTaskSystem
<1>3. ASSUME NEW c \in Clients, AllocTaskGroup(c) PROVE OffSlots \/ AtSlots(c)
  <2>1. ASSUME MissGroup(c), free[slot[c]] # Null PROVE OffSlots
    BY <2>1 DEF MissGroup, SlotHoldsOther
  <2>. QED
    BY <1>3, <2>1 DEF AllocTaskGroup, AtSlots
<1>4. ASSUME NEW c \in Clients, ISPCLaunch(c) PROVE OffSlots
  <2>1. ASSUME NEW n \in Counts, Launch(c, n) PROVE OffSlots
    <3>1. pc[c] = "open" /\ pc' = [pc EXCEPT ![c] = "add"] /\ UNCHANGED pool
      BY <2>1, Zenon DEF Launch
    <3>2. pc'[c] = "add" /\ \A x \in Clients : x # c => pc'[x] = pc[x]
      BY <3>1
    <3>. QED
      BY <3>1, <3>2
  <2>2. ASSUME NEW n \in Counts, TooManyTasks(c, n) PROVE OffSlots
    BY <2>2 DEF TooManyTasks
  <2>3. CASE AddUnfinished(c) \/ Post(c)
    BY <2>3 DEF AddUnfinished, Post
  <2>. QED
    BY <1>4, <2>1, <2>2, <2>3 DEF ISPCLaunch
<1>5. ASSUME NEW t \in Threads, AssertWaiting(t) \/ RunTask(t) \/ Decrement(t)
      PROVE  OffSlots
  <2>1. CASE AssertWaiting(t)
    BY <2>1 DEF AssertWaiting
  <2>2. CASE RunTask(t)
    <3>1. pc[t] = "run" /\ pc' = [pc EXCEPT ![t] = "ran"] /\ UNCHANGED pool
      BY <2>2, Zenon DEF RunTask
    <3>2. pc'[t] = "ran" /\ \A x \in Threads : x # t => pc'[x] = pc[x]
      BY <3>1
    <3>. QED
      BY <3>1, <3>2
  <2>3. CASE Decrement(t)
    <3>1. /\ pc[t] = "ran" /\ UNCHANGED pool
          /\ pc' = [pc EXCEPT ![t] = IF t \in Clients THEN "sync" ELSE "wait"]
      BY <2>3, Zenon DEF Decrement
    <3>2. /\ pc'[t] \in {"sync", "wait"}
          /\ \A x \in Threads : x # t => pc'[x] = pc[x]
      BY <3>1
    <3>. QED
      BY <3>1, <3>2
  <2>. QED
    BY <1>5, <2>1, <2>2, <2>3
<1>6. ASSUME NEW c \in Clients, Sync(c) PROVE OffSlots
  <2>1. CASE CheckUnfinished(c) \/ TakeNothing(c)
    BY <2>1 DEF CheckUnfinished, TakeNothing
  <2>2. CASE TakeOwn(c) \/ TakeUnlisted(c) \/ TakeOther(c)
    BY <2>2 DEF TakeOwn, TakeUnlisted, TakeOther, TakeFromLast, Take
  <2>. QED
    BY <1>5, <1>6, <2>1, <2>2 DEF Sync
<1>7. ASSUME NEW c \in Clients, FreeTaskGroup(c) PROVE OffSlots \/ AtSlots(c)
  <2>1. CASE Reset(c)
    BY <2>1 DEF Reset
  <2>. QED
    BY <1>7, <2>1 DEF FreeTaskGroup, AtSlots
<1>8. ASSUME NEW w \in Workers, WorkerStep(w) PROVE OffSlots
  BY <1>5, <1>8 DEF WorkerStep, WaitForWork, WorkerTakes, TakeFromLast, Take
<1>9. CASE Rest
  BY <1>9 DEF Rest, vars
<1>. QED
  BY <1>1, <1>2, <1>3, <1>4, <1>6, <1>7, <1>8, <1>9 DEF Next, ClientStep

(* A search begins at the first slot. *)
LEMMA FreshStep ==
  ASSUME Owned, FreshSlots, Next
  PROVE  FreshSlots'
<1>0. /\ pc \in [Threads -> Labels] /\ slot \in [Clients -> 1 .. Slots + 1]
      /\ Clients \subseteq Threads
  BY DataTypes DEF Owned
<1>1. CASE OffSlots
  BY <1>1 DEF OffSlots, FreshSlots
<1>2. ASSUME NEW c \in Clients, AtSlots(c) PROVE FreshSlots'
  <2>. USE DEF At, Goto, FreshSlots, Scanning, pool
  <2>1. CASE ReadSlot(c) \/ TakeGroup(c) \/ CreateGroup(c)
    BY <1>0, <2>1 DEF ReadSlot, TakeGroup, CreateGroup
  <2>2. CASE MissGroup(c) /\ free[slot[c]] = Null
    BY <1>0, <2>2 DEF MissGroup, SlotHoldsOther
  <2>3. CASE FindFreeSlot(c) \/ MissSlot(c)
    BY <1>0, <2>3 DEF FindFreeSlot, MissSlot
  <2>4. CASE PutGroup(c) \/ DeleteGroup(c)
    BY <1>0, <2>4 DEF PutGroup, DeleteGroup, EndRound
  <2>. QED
    BY <1>2, <2>1, <2>2, <2>3, <2>4 DEF AtSlots
<1>. QED
  BY <1>1, <1>2, SlotSteps DEF Owned

(* The steps of client d, as client c sees them that is about to take what   *)
(* it has read.                                                              *)
LEMMA OtherSteps ==
  ASSUME Owned, NEW c \in Clients, NEW d \in Clients, c # d, AtSlots(d),
         pc[c] = "take",
         \/ free[slot[c]] = seen[c]
         \/ free[slot[c]] = Null /\ (HasTaken(c, d) \/ HasMoved(c, d))
  PROVE  /\ pc'[c] = pc[c] /\ slot'[c] = slot[c] /\ seen'[c] = seen[c]
         /\ \/ (free[slot[c]] = seen[c])'
            \/ (free[slot[c]] = Null /\ (HasTaken(c, d) \/ HasMoved(c, d)))'
<1>0. /\ pc \in [Threads -> Labels]
      /\ handle \in [Clients -> Groups \cup {Null}]
      /\ seen \in [Clients -> Groups \cup {Null}]
      /\ slot \in [Clients -> 1 .. Slots + 1]
      /\ free \in [1 .. Slots -> Groups \cup {Null}]
      /\ Clients \subseteq Threads /\ Null \notin Groups /\ Slots \in Nat
  BY DataTypes DEF Owned
<1>1. /\ seen[c] # Null /\ slot[c] \in 1 .. Slots /\ 1 \in 1 .. Slots
      /\ slot[d] \in 1 .. Slots + 1
      /\ handle[d] # Null <=> pc[d] \in Holding
      /\ pc[d] = "take" => slot[d] \in 1 .. Slots /\ seen[d] # Null
      /\ pc[d] = "put" => slot[d] \in 1 .. Slots
  BY <1>0 DEF Owned, PlaceInv, ClientInv
<1>. DEFINE There == free[slot[c]] = seen[c]
            Gone == free[slot[c]] = Null /\ (HasTaken(c, d) \/ HasMoved(c, d))
<1>. USE DEF At, Goto, pool, Holding, Using, HasTaken, HasMoved, Scans
<1>2. CASE ReadSlot(d)
  BY <1>0, <1>1, <1>2 DEF ReadSlot
<1>3. CASE TakeGroup(d)
  <2>1. /\ pc[d] = "take" /\ free[slot[d]] = seen[d]
        /\ free' = [free EXCEPT ![slot[d]] = Null]
        /\ handle' = [handle EXCEPT ![d] = seen[d]]
        /\ seen' = [seen EXCEPT ![d] = Null]
        /\ slot' = [slot EXCEPT ![d] = 1]
        /\ pc' = [pc EXCEPT ![d] = "open"]
    BY <1>3 DEF TakeGroup, StillThere
  <2>2. handle'[d] = seen[d] /\ slot'[d] = 1 /\ pc'[d] = "open" /\ seen'[c] = seen[c]
        /\ slot'[c] = slot[c] /\ pc'[c] = pc[c] /\ handle[d] = Null
    BY <1>0, <1>1, <2>1
  <2>3. CASE There
    <3>1. CASE slot[d] = slot[c]
      BY <1>0, <1>1, <2>1, <2>2, <2>3, <3>1
    <3>2. CASE slot[d] # slot[c]
      BY <1>0, <1>1, <2>1, <2>2, <2>3, <3>2
    <3>. QED
      BY <3>1, <3>2
  <2>4. CASE Gone
    BY <1>0, <1>1, <2>1, <2>2, <2>4
  <2>. QED
    BY <2>3, <2>4
<1>4. CASE CreateGroup(d)
  BY <1>0, <1>1, <1>4 DEF CreateGroup
<1>5. CASE MissGroup(d) /\ free[slot[d]] = Null
  <2>1. /\ pc[d] = "take" /\ free[slot[d]] # seen[d]
        /\ slot' = [slot EXCEPT ![d] = @ + 1]
        /\ seen' = [seen EXCEPT ![d] = Null]
        /\ pc' = [pc EXCEPT ![d] = "alloc"]
        /\ UNCHANGED <<free, handle>>
    BY <1>5 DEF MissGroup, SlotHoldsOther, StillThere
  <2>. QED
    BY <1>0, <1>1, <1>5, <2>1
<1>6. CASE FindFreeSlot(d) \/ MissSlot(d)
  <2>1. /\ pc[d] \in {"free", "put"} /\ slot[d] \in 1 .. Slots
        /\ UNCHANGED <<free, handle, seen>>
        /\ \/ /\ free[slot[d]] = Null /\ UNCHANGED slot
              /\ pc' = [pc EXCEPT ![d] = "put"]
           \/ /\ free[slot[d]] # Null
              /\ slot' = [slot EXCEPT ![d] = @ + 1]
              /\ pc' = [pc EXCEPT ![d] = "free"]
    BY <1>0, <1>1, <1>6 DEF FindFreeSlot, MissSlot
  <2>2. pc'[d] \in {"free", "put"} /\ pc'[c] = pc[c] /\ slot'[c] = slot[c]
    BY <1>0, <1>1, <2>1
  <2>3. CASE There
    BY <1>0, <1>1, <2>1, <2>2, <2>3
  <2>4. CASE free[slot[c]] = Null /\ HasTaken(c, d)
    BY <1>0, <1>1, <2>1, <2>2, <2>4
  <2>5. CASE free[slot[c]] = Null /\ HasMoved(c, d)
    BY <1>0, <1>1, <2>1, <2>2, <2>5
  <2>. QED
    BY <2>3, <2>4, <2>5
<1>7. CASE PutGroup(d)
  <2>1. /\ pc[d] = "put" /\ slot[d] \in 1 .. Slots /\ free[slot[d]] = Null
        /\ handle[d] # Null
        /\ free' = [free EXCEPT ![slot[d]] = handle[d]]
        /\ handle' = [handle EXCEPT ![d] = Null]
        /\ slot' = [slot EXCEPT ![d] = 1]
        /\ pc' = [pc EXCEPT ![d] = "idle"]
        /\ UNCHANGED seen
    BY <1>1, <1>7 DEF PutGroup, EndRound
  <2>2. /\ handle'[d] = Null /\ slot'[d] = 1 /\ pc'[d] = "idle"
        /\ pc'[c] = pc[c] /\ slot'[c] = slot[c]
    BY <1>0, <1>1, <2>1
  <2>3. CASE There
    BY <1>0, <1>1, <2>1, <2>2, <2>3
  <2>4. CASE free[slot[c]] = Null /\ HasTaken(c, d)
    <3>1. CASE slot[d] = slot[c]
      BY <1>0, <1>1, <2>1, <2>2, <2>4, <3>1
    <3>2. CASE slot[d] < slot[c]
      <4>1. free'[1] # Null
        BY <1>0, <1>1, <2>1, <2>4
      <4>. QED
        BY <1>0, <1>1, <2>1, <2>2, <2>4, <3>2, <4>1
    <3>3. slot[d] <= slot[c]
      BY <2>1, <2>4
    <3>. QED
      BY <1>0, <1>1, <3>1, <3>2, <3>3
  <2>5. CASE free[slot[c]] = Null /\ HasMoved(c, d)
    BY <1>0, <1>1, <2>1, <2>2, <2>5
  <2>. QED
    BY <2>3, <2>4, <2>5
<1>8. CASE DeleteGroup(d)
  BY <1>0, <1>1, <1>8 DEF DeleteGroup, EndRound
<1>. QED
  BY <1>2, <1>3, <1>4, <1>5, <1>6, <1>7, <1>8 DEF AtSlots

(* The slot of a client that is about to take from it. *)
LEMMA SlotStep ==
  ASSUME AtMostTwo, Owned, SlotInv, [Next]_vars
  PROVE  SlotInv'
<1>0. /\ pc \in [Threads -> Labels]
      /\ slot \in [Clients -> 1 .. Slots + 1]
      /\ seen \in [Clients -> Groups \cup {Null}]
      /\ Clients \subseteq Threads /\ Slots \in Nat
      /\ \A c \in Clients : pc[c] = "take" => slot[c] \in 1 .. Slots
  BY DataTypes DEF Owned, PlaceInv, ClientInv
<1>1. CASE UNCHANGED vars
  BY <1>1 DEF SlotInv, FreshSlots, Kept, HasTaken, HasMoved, Scans, vars, pool
<1>2. CASE Next
  <2>1. FreshSlots'
    BY <1>2, FreshStep DEF SlotInv
  <2>2. ASSUME OffSlots, NEW c \in Clients, pc'[c] = "take" PROVE Kept(c)'
    <3>1. pc[c] = "take" /\ Kept(c)
      BY <2>2 DEF OffSlots, SlotInv
    <3>2. ASSUME NEW d \in Clients, NEW n \in 1 .. Slots, Scans(d, n) PROVE Scans(d, n)'
      BY <1>0, <2>2, <3>2 DEF Scans, OffSlots, SlotInv, FreshSlots, Scanning
    <3>3. ASSUME NEW d \in Clients, HasTaken(c, d) PROVE HasTaken(c, d)'
      BY <1>0, <2>2, <3>1, <3>2, <3>3 DEF HasTaken, OffSlots
    <3>4. ASSUME NEW d \in Clients, HasMoved(c, d) PROVE HasMoved(c, d)'
      <4>1. 1 \in 1 .. Slots
        BY <1>0, <3>1
      <4>. QED
        BY <2>2, <3>2, <3>4, <4>1 DEF HasMoved, OffSlots
    <3>. QED
      BY <2>2, <3>1, <3>3, <3>4 DEF Kept, OffSlots
  <2>3. ASSUME NEW a \in Clients, AtSlots(a), NEW c \in Clients, pc'[c] = "take"
        PROVE  Kept(c)'
    <3>1. CASE a = c
      <4>1. ReadSlot(c) /\ free[slot[c]] # Null
        BY <1>0, <2>3, <3>1
           DEF AtSlots, At, Goto, ReadSlot, TakeGroup, MissGroup, SlotHoldsOther,
               CreateGroup, FindFreeSlot, PutGroup, EndRound, MissSlot, DeleteGroup
      <4>. QED
        BY <1>0, <4>1 DEF ReadSlot, Kept
    <3>2. CASE a # c
      <4>1. pc[c] = "take"
        BY <1>0, <2>3, <3>2
           DEF AtSlots, At, Goto, ReadSlot, TakeGroup, MissGroup, SlotHoldsOther,
               CreateGroup, FindFreeSlot, PutGroup, EndRound, MissSlot, DeleteGroup
      <4>2. \/ free[slot[c]] = seen[c]
            \/ free[slot[c]] = Null /\ (HasTaken(c, a) \/ HasMoved(c, a))
        BY <2>3, <3>2, <4>1 DEF SlotInv, Kept, AtMostTwo
      <4>3. /\ pc'[c] = pc[c] /\ slot'[c] = slot[c] /\ seen'[c] = seen[c]
            /\ \/ (free[slot[c]] = seen[c])'
               \/ (free[slot[c]] = Null /\ (HasTaken(c, a) \/ HasMoved(c, a)))'
        BY <2>3, <3>2, <4>1, <4>2, OtherSteps
      <4>. QED
        BY <3>2, <4>3 DEF Kept
    <3>. QED
      BY <3>1, <3>2
  <2>. QED
    BY <1>2, <2>1, <2>2, <2>3, SlotSteps DEF SlotInv, Owned
<1>. QED
  BY <1>1, <1>2

(* With two clients, the compare-and-swap of AllocTaskGroup takes what was   *)
(* read from the slot, or finds it empty, and assert(ptr == tg) holds.       *)
THEOREM TwoClientsTakeWhatTheyRead ==
  ASSUME Cardinality(Clients) <= 2
  PROVE  Spec => []TakesWhatItRead
<1>0. AtMostTwo
  <2>1. ASSUME NEW c \in Clients, NEW d \in Clients, NEW e \in Clients,
               c # d, c # e, d # e
        PROVE  FALSE
    <3>1. IsFiniteSet({c, d, e}) /\ Cardinality({c, d, e}) = 3
      <4>1. IsFiniteSet({c}) /\ Cardinality({c}) = 1
        BY FS_Singleton
      <4>2. IsFiniteSet({c} \cup {d}) /\ Cardinality({c} \cup {d}) = 2
        BY <2>1, <4>1, FS_AddElement
      <4>3. IsFiniteSet({c} \cup {d} \cup {e}) /\ Cardinality({c} \cup {d} \cup {e}) = 3
        BY <2>1, <4>2, FS_AddElement
      <4>4. {c} \cup {d} \cup {e} = {c, d, e}
        OBVIOUS
      <4>. QED
        BY <4>3, <4>4
    <3>2. IsFiniteSet(Clients) /\ {c, d, e} \subseteq Clients
      BY ThreadsAssumption
    <3>3. 3 <= Cardinality(Clients) /\ Cardinality(Clients) \in Nat
      BY <3>1, <3>2, FS_Subset, FS_CardinalityType
    <3>. QED
      BY <3>3
  <2>. QED
    BY <2>1 DEF AtMostTwo
<1>1. Init => SlotInv
  BY ThreadsAssumption DEF Init, SlotInv, FreshSlots, Threads
<1>2. Owned /\ SlotInv /\ [Next]_vars => SlotInv'
  BY <1>0, SlotStep
<1>3. Owned /\ SlotInv => TakesWhatItRead
  BY DEF SlotInv, Kept, TakesWhatItRead, SlotHoldsOther, StillThere, At
<1>. QED
  BY <1>1, <1>2, <1>3, OwnedAlways, PTL DEF Spec

(* So with two clients, nothing but the race of reserve makes an assertion   *)
(* fail or leaves something undefined, and exit is called only for a round   *)
(* that launches more tasks than there are infos.                            *)
THEOREM TwoClientsStopForAReason ==
  ASSUME Cardinality(Clients) <= 2
  PROVE  Spec => []StopsForAReason
<1>1. Spec => []TakesWhatItRead
  BY TwoClientsTakeWhatTheyRead
<1>. QED
  BY <1>1, StopsOnlyForAReason, PTL
=============================================================================
