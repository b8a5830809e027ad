--------------------------- MODULE NetworkdProofs ---------------------------
(***************************************************************************)
(* Proofs about Networkd for every set of clients, networks and leases and *)
(* every number of faults: the types, the inductive invariant IInv, and the *)
(* safety properties that follow from it.                                  *)
(***************************************************************************)
EXTENDS Networkd, TLAPS

\* The steps of the supervisor process, and of the event handler of a client.
SupervisorActs ==
    \/ Boot \/ SupervisorStep \/ OwnFails \/ Shutdown \/ BackoffEnds
    \/ SupervisorKilled
HandlerActs(c) ==
    EventStep(c) \/ EventFails(c) \/ EventRefused(c) \/ EventKilled(c)

\* What the supervisor never touches: the handlers and the association.
LEMMA SupervisorFrame ==
    ASSUME SupervisorActs
    PROVE  UNCHANGED <<event, assoc, changes>>
  BY DEF SupervisorActs, SupervisorStep, Boot, ReplacePrior, ClearPrior,
     UnmarkPrior, Poll, Terminate, Kill, Reap, ClearLease, Clear, Fault, Unmark,
     Spawn, Own, Tick, ChildExited, OwnFails, Shutdown, BackoffEnds,
     SupervisorKilled, budget

\* What udhcpc never touches: the supervisor, the lock and the files but its own.
LEMMA ClientFrame ==
    ASSUME NEW c \in Clients, ClientActs(c)
    PROVE  UNCHANGED <<sup, loop, child, lock, owner, net, marker, assoc,
                       queryFails, changes>>
  BY DEF ClientActs, ClientUp, ClientDeconfig, ClientTerminates, ClientCrashes,
     ClientBound, ClientStep, Fault, budget

\* What a handler never touches: the supervisor, the clients and the owner.
LEMMA HandlerFrame ==
    ASSUME NEW c \in Clients, HandlerActs(c)
    PROVE  UNCHANGED <<sup, loop, child, client, owner, pid, assoc, queryFails,
                       changes>>
  BY DEF HandlerActs, EventStep, EventEnters, EventClears, EventReplaces,
     EventWrites, EventAddress, EventRoute, EventResolver, EventRollsBack,
     EventFinishes, EventFails, EventRefused, EventKilled, Clear, Fault, Rest,
     budget

\* Every step belongs to the supervisor, a client, a handler or the supplicant.
LEMMA StepKinds ==
    ASSUME [Next]_vars
    PROVE  \/ SupervisorActs
           \/ \E c \in Clients : ClientActs(c)
           \/ \E c \in Clients : HandlerActs(c)
           \/ AssociationChanges
           \/ UNCHANGED vars
  BY DEF Next, SupervisorActs, HandlerActs

-----------------------------------------------------------------------------
\* Types

\* maxCommandFailures is a number, and the count of failed queries starts within it.
LEMMA CountBounds ==
    MaxCommandFailures \in Nat /\ 0 \in 0 .. MaxCommandFailures
  BY NetworkdAssumption

\* Every step keeps the types of the supervisor's own state.
LEMMA LoopTypesStep == TypeOK /\ [Next]_vars => LoopTypes'
<1> SUFFICES ASSUME TypeOK, [Next]_vars PROVE LoopTypes'
  OBVIOUS
<1> USE DEF TypeOK, LoopTypes, loop
<1>1. CASE SupervisorActs
  <2>1. CASE Boot \/ ReplacePrior \/ ClearPrior
    BY <2>1 DEF Boot, ReplacePrior, ClearPrior
  <2>2. CASE UnmarkPrior
    <3>1. misses' \in 0 .. MaxCommandFailures
      BY <2>2, CountBounds DEF UnmarkPrior
    <3> QED
      BY <2>2, <3>1 DEF UnmarkPrior
  <2>3. CASE Poll
    <3>1. misses' \in 0 .. MaxCommandFailures
      <4>1. \/ misses' = 0
            \/ misses' = misses
            \/ misses < MaxCommandFailures /\ misses' = misses + 1
        BY <2>3 DEF Poll, Tolerated
      <4>2. misses \in 0 .. MaxCommandFailures
        OBVIOUS
      <4> QED
        BY ONLY <4>1, <4>2, CountBounds
    <3>2. known' \in Networks \cup {NoNetwork}
      BY <2>3 DEF Poll, Decide, CountTypes
    <3>3. /\ sup' \in {"term", "spawn", "wait"} /\ caller' = "loop"
          /\ pending' \in BOOLEAN /\ recovering' \in BOOLEAN
          /\ backoff' \in BOOLEAN /\ wanted' \in BOOLEAN
          /\ child' = child
      BY <2>3 DEF Poll, Decide, Onward
    <3> QED
      BY <3>1, <3>2, <3>3
  <2>4. CASE Terminate \/ Kill \/ Reap \/ ClearLease
    BY <2>4 DEF Terminate, Kill, Reap, ClearLease
  <2>5. CASE Unmark
    BY <2>5 DEF Unmark, Onward
  <2>6. CASE Spawn \/ Own \/ OwnFails
    BY <2>6 DEF Spawn, Own, OwnFails
  <2>7. CASE Tick \/ ChildExited \/ Shutdown \/ BackoffEnds
    BY <2>7 DEF Tick, ChildExited, Shutdown, BackoffEnds
  <2>8. CASE SupervisorKilled
    BY <2>8 DEF SupervisorKilled
  <2> QED
    BY <1>1, <2>1, <2>2, <2>3, <2>4, <2>5, <2>6, <2>7, <2>8
       DEF SupervisorActs, SupervisorStep
<1>2. ASSUME NEW c \in Clients, ClientActs(c) \/ HandlerActs(c)
      PROVE  LoopTypes'
  <2>1. UNCHANGED <<sup, loop, child>>
    BY <1>2, ClientFrame, HandlerFrame
  <2> QED
    BY <2>1
<1>3. CASE AssociationChanges \/ UNCHANGED vars
  BY <1>3 DEF AssociationChanges, vars
<1> QED
  BY <1>1, <1>2, <1>3, StepKinds

\* A handler is typed when it has a lease to work on.
HandlersTyped ==
    /\ event \in [Clients -> Handlers]
    /\ \A c \in Clients : event[c].at \in Working => event[c].lease \in Leases

\* New handlers, and those that are done, are typed.
LEMMA HandlerValues ==
    /\ Quiet \in Handlers /\ Quiet.at \notin Working
    /\ \A l \in Leases \cup {NoLease} :
          Handler(l) \in Handlers /\ Handler(l).at \notin Working
  BY DEF Quiet, Handler, Handlers, Stages, Working

\* A handler that goes on to work has a lease, and stays typed.
LEMMA GoesTyped ==
    ASSUME HandlersTyped, NEW c \in Clients, NEW at \in Stages,
           at \in Working => event[c].lease \in Leases, Goes(c, at)
    PROVE  HandlersTyped'
  BY DEF HandlersTyped, Goes, Handlers

\* A handler that ends stays typed.
LEMMA EndsTyped ==
    ASSUME HandlersTyped, NEW c \in Clients, NEW ok \in BOOLEAN, Ends(c, ok)
    PROVE  HandlersTyped'
  BY DEF HandlersTyped, Ends, Handlers, Stages, Working

\* Every step keeps the types of the clients and of their handlers.
LEMMA ProcessTypesStep == TypeOK /\ [Next]_vars => ProcessTypes'
<1> SUFFICES ASSUME TypeOK, [Next]_vars PROVE ProcessTypes'
  OBVIOUS
<1> USE DEF TypeOK, ProcessTypes
<1>1. CASE SupervisorActs
  <2>1. event' = event
    BY <1>1, SupervisorFrame
  <2>2. \/ client' = client
        \/ \E c \in Clients, s \in {"dead", "starting", "term"} :
              client' = [client EXCEPT ![c] = s]
    BY <1>1 DEF SupervisorActs, SupervisorStep, Boot, ReplacePrior, ClearPrior,
       UnmarkPrior, Poll, Terminate, Kill, Reap, ClearLease, Unmark, Spawn, Own,
       Tick, ChildExited, OwnFails, Shutdown, BackoffEnds, SupervisorKilled,
       Signalled, LoopTypes
  <2> QED
    BY <2>1, <2>2
<1>2. ASSUME NEW c \in Clients, ClientActs(c)
      PROVE  ProcessTypes'
  <2>1. \E s \in {"running", "dead"}, h \in Handlers :
           /\ client' = [client EXCEPT ![c] = s]
           /\ event' = [event EXCEPT ![c] = h]
           /\ h = event[c] \/ h.at \notin Working
    BY <1>2, HandlerValues DEF ClientActs, ClientUp, ClientDeconfig,
       ClientTerminates, ClientCrashes, ClientBound, ClientStep
  <2> QED
    BY <2>1
<1>3. ASSUME NEW c \in Clients, HandlerActs(c)
      PROVE  ProcessTypes'
  <2>1. client' = client
    BY <1>3, HandlerFrame
  <2> HandlersTyped
    BY DEF HandlersTyped
  <2>2. CASE EventFinishes(c) \/ EventKilled(c)
    BY <2>1, <2>2, HandlerValues DEF EventFinishes, EventKilled
  <2>3. CASE EventEnters(c)
    <3>1. \/ Goes(c, "clear") \/ Goes(c, "none")
          \/ event[c].lease # NoLease /\ Goes(c, "previous")
      BY <2>3 DEF EventEnters
    <3>2. event[c].lease \in Leases \cup {NoLease}
      BY DEF Handlers
    <3>3. HandlersTyped'
      BY <3>1, <3>2, GoesTyped DEF Stages, Working
    <3> QED
      BY <2>1, <3>3 DEF HandlersTyped
  <2>4. CASE \/ EventReplaces(c) \/ EventWrites(c) \/ EventAddress(c)
             \/ EventRoute(c) \/ EventFails(c)
    <3>1. event[c].lease \in Leases
      BY <2>4 DEF EventReplaces, EventWrites, EventAddress, EventRoute,
         EventFails, Working
    <3>2. \/ \E at \in Working : Goes(c, at)
          \/ Ends(c, FALSE)
      BY <2>4 DEF EventReplaces, EventWrites, EventAddress, EventRoute,
         EventFails, Working
    <3>3. Working \subseteq Stages
      BY DEF Working, Stages
    <3>4. HandlersTyped'
      BY <3>1, <3>2, <3>3, GoesTyped, EndsTyped
    <3> QED
      BY <2>1, <3>4 DEF HandlersTyped
  <2>5. CASE \/ EventClears(c) \/ EventResolver(c) \/ EventRollsBack(c)
             \/ EventRefused(c)
    <3>1. \E ok \in BOOLEAN : Ends(c, ok)
      BY <2>5 DEF EventClears, EventResolver, EventRollsBack, EventRefused
    <3>2. HandlersTyped'
      BY <3>1, EndsTyped
    <3> QED
      BY <2>1, <3>2 DEF HandlersTyped
  <2> QED
    BY <1>3, <2>2, <2>3, <2>4, <2>5 DEF HandlerActs, EventStep
<1>4. CASE AssociationChanges \/ UNCHANGED vars
  BY <1>4 DEF AssociationChanges, vars
<1> QED
  BY <1>1, <1>2, <1>3, <1>4, StepKinds

\* A removal leaves at most what was there.
LEMMA ClearTypes ==
    ASSUME TypeOK, NEW l, NEW ok \in BOOLEAN, Clear(l, ok)
    PROVE  /\ lease' \in {lease, NoLease}
           /\ addrs' \subseteq addrs /\ routes' \subseteq routes
           /\ resolver' \in BOOLEAN
  BY DEF Clear, TypeOK, FileTypes

\* Every step keeps the types of the files, the interface and the lock.
LEMMA FileTypesStep == TypeOK /\ [Next]_vars => FileTypes'
<1> SUFFICES ASSUME TypeOK, [Next]_vars PROVE FileTypes'
  OBVIOUS
<1> USE DEF TypeOK, FileTypes, net
<1>1. CASE SupervisorActs
  <2>1. CASE ClearPrior \/ ClearLease
    BY <2>1, ClearTypes DEF ClearPrior, ClearLease
  <2>2. CASE ReplacePrior \/ UnmarkPrior \/ Reap \/ Unmark
    BY <2>2 DEF ReplacePrior, UnmarkPrior, Reap, Unmark
  <2>3. CASE Spawn \/ Own \/ OwnFails \/ SupervisorKilled
    BY <2>3 DEF Spawn, Own, OwnFails, SupervisorKilled, StartLock, LoopTypes
  <2>4. CASE \/ Boot \/ Poll \/ Terminate \/ Kill \/ Tick \/ ChildExited
             \/ Shutdown \/ BackoffEnds
    BY <2>4 DEF Boot, Poll, Terminate, Kill, Tick, ChildExited, Shutdown,
       BackoffEnds
  <2> QED
    BY <1>1, <2>1, <2>2, <2>3, <2>4 DEF SupervisorActs, SupervisorStep
<1>2. ASSUME NEW c \in Clients, ClientActs(c)
      PROVE  FileTypes'
  <2>1. pid' \in {pid, c}
    BY <1>2 DEF ClientActs, ClientUp, ClientDeconfig, ClientTerminates,
       ClientCrashes, ClientBound, ClientStep
  <2> QED
    BY <1>2, <2>1, ClientFrame
<1>3. ASSUME NEW c \in Clients, HandlerActs(c)
      PROVE  FileTypes'
  <2>1. UNCHANGED <<owner, pid>>
    BY <1>3, HandlerFrame
  <2>2. lock' \in {lock, c, FreeLock} /\ marker' \in {marker, c, NoClient}
    BY <1>3 DEF HandlerActs, EventStep, EventEnters, EventClears, EventReplaces,
       EventWrites, EventAddress, EventRoute, EventResolver, EventRollsBack,
       EventFinishes, EventFails, EventRefused, EventKilled
  <2>3. event[c].lease \in Leases \cup {NoLease}
    BY DEF ProcessTypes, Handlers
  <2>4. /\ lease' \in Leases \cup {NoLease} /\ resolver' \in BOOLEAN
        /\ addrs' \subseteq Leases /\ routes' \subseteq Leases
    <3>1. CASE EventClears(c) \/ EventRollsBack(c)
      BY <3>1, ClearTypes DEF EventClears, EventRollsBack
    <3>2. CASE \/ EventReplaces(c) \/ EventWrites(c) \/ EventResolver(c)
               \/ EventEnters(c) \/ EventFinishes(c) \/ EventFails(c)
               \/ EventRefused(c) \/ EventKilled(c)
      BY <2>3, <3>2 DEF EventReplaces, EventWrites, EventResolver, EventEnters,
         EventFinishes, EventFails, EventRefused, EventKilled
    <3>3. CASE EventAddress(c)
      BY <3>3 DEF EventAddress, ProcessTypes, Working
    <3>4. CASE EventRoute(c)
      BY <3>4 DEF EventRoute, ProcessTypes, Working
    <3> QED
      BY <1>3, <3>1, <3>2, <3>3, <3>4 DEF HandlerActs, EventStep
  <2> QED
    BY <2>1, <2>2, <2>4
<1>4. CASE AssociationChanges \/ UNCHANGED vars
  BY <1>4 DEF AssociationChanges, vars
<1> QED
  BY <1>1, <1>2, <1>3, <1>4, StepKinds

\* A fault is counted within its bound.
LEMMA FaultBounds ==
    ASSUME CountTypes, faults' = faults \/ Fault
    PROVE  faults' \in 0 .. MaxFaults
  BY NetworkdAssumption DEF CountTypes, Fault

\* Every step keeps the association in its set and the counters in their bounds.
LEMMA CountTypesStep == TypeOK /\ [Next]_vars => CountTypes'
<1> SUFFICES ASSUME TypeOK, [Next]_vars PROVE CountTypes'
  OBVIOUS
<1> USE DEF TypeOK, CountTypes
<1>1. ASSUME SupervisorActs \/ \E c \in Clients : ClientActs(c) \/ HandlerActs(c)
      PROVE  faults' \in 0 .. MaxFaults
  <2>1. CASE SupervisorActs
    <3>1. faults' = faults \/ Fault
      BY <2>1 DEF SupervisorActs, SupervisorStep, Boot, ReplacePrior, ClearPrior,
         UnmarkPrior, Poll, Terminate, Kill, Reap, ClearLease, Clear, Unmark,
         Spawn, Own, Tick, ChildExited, OwnFails, Shutdown, BackoffEnds,
         SupervisorKilled, budget
    <3> QED
      BY <3>1, FaultBounds
  <2>2. ASSUME NEW c \in Clients, ClientActs(c)
        PROVE  faults' \in 0 .. MaxFaults
    <3>1. faults' = faults \/ Fault
      BY <2>2 DEF ClientActs, ClientUp, ClientDeconfig, ClientTerminates,
         ClientCrashes, ClientBound, budget
    <3> QED
      BY <3>1, FaultBounds
  <2>3. ASSUME NEW c \in Clients, HandlerActs(c)
        PROVE  faults' \in 0 .. MaxFaults
    <3>1. faults' = faults \/ Fault
      BY <2>3 DEF HandlerActs, EventStep, EventEnters, EventClears,
         EventReplaces, EventWrites, EventAddress, EventRoute, EventResolver,
         EventRollsBack, EventFinishes, EventFails, EventRefused, EventKilled,
         Clear, budget
    <3> QED
      BY <3>1, FaultBounds
  <2> QED
    BY <1>1, <2>1, <2>2, <2>3
<1>2. ASSUME SupervisorActs
      PROVE  queryFails' \in 0 .. MaxQueryFails
  <2>1. \/ queryFails' = queryFails
        \/ queryFails < MaxQueryFails /\ queryFails' = queryFails + 1
    BY <1>2 DEF SupervisorActs, SupervisorStep, Boot, ReplacePrior, ClearPrior,
       UnmarkPrior, Poll, Terminate, Kill, Reap, ClearLease, Clear, Fault,
       Unmark, Spawn, Own, Tick, ChildExited, OwnFails, Shutdown, BackoffEnds,
       SupervisorKilled, budget
  <2> QED
    BY <2>1, NetworkdAssumption
<1>3. CASE SupervisorActs
  BY <1>1, <1>2, <1>3, SupervisorFrame
<1>4. ASSUME NEW c \in Clients, ClientActs(c) \/ HandlerActs(c)
      PROVE  CountTypes'
  BY <1>1, <1>4, ClientFrame, HandlerFrame
<1>5. CASE AssociationChanges
  BY <1>5, NetworkdAssumption DEF AssociationChanges
<1>6. CASE UNCHANGED vars
  BY <1>6 DEF vars, budget
<1> QED
  BY <1>3, <1>4, <1>5, <1>6, StepKinds

\* Every reachable state of networkd is well typed.
THEOREM NetworkdTypes == Spec => []TypeOK
<1>1. Init => TypeOK
  <2> SUFFICES ASSUME Init PROVE TypeOK
    OBVIOUS
  <2>1. LoopTypes
    BY CountBounds DEF Init, LoopTypes
  <2>2. ProcessTypes
    BY HandlerValues DEF Init, ProcessTypes, Quiet, Working
  <2>3. FileTypes
    BY DEF Init, FileTypes
  <2>4. CountTypes
    BY NetworkdAssumption DEF Init, CountTypes
  <2> QED
    BY <2>1, <2>2, <2>3, <2>4 DEF TypeOK
<1>2. TypeOK /\ [Next]_vars => TypeOK'
  BY LoopTypesStep, ProcessTypesStep, FileTypesStep, CountTypesStep DEF TypeOK
<1> QED
  BY <1>1, <1>2, PTL DEF Spec

-----------------------------------------------------------------------------
\* The inductive invariant

\* Who holds the lease lock can be told from the values of lock and owner.
LEMMA Distinct ==
    /\ FreeLock # SupLock
    /\ \A c \in Clients : c # NoClient /\ c # FreeLock /\ c # SupLock
  BY NetworkdAssumption DEF FreeLock, SupLock

\* What a handler is after it went on.
LEMMA GoesValue ==
    ASSUME TypeOK, NEW c \in Clients, NEW at, Goes(c, at)
    PROVE  /\ event'[c].at = at /\ event'[c].lease = event[c].lease
           /\ \A d \in Clients : d # c => event'[d] = event[d]
  BY DEF TypeOK, ProcessTypes, Handlers, Goes

\* What a handler is after it ended.
LEMMA EndsValue ==
    ASSUME TypeOK, NEW c \in Clients, NEW ok, Ends(c, ok)
    PROVE  /\ event'[c].at = "finish"
           /\ \A d \in Clients : d # c => event'[d] = event[d]
  BY DEF TypeOK, ProcessTypes, Handlers, Ends

\* What a handler is after it exited.
LEMMA QuietValue ==
    ASSUME TypeOK, NEW c \in Clients, event' = [event EXCEPT ![c] = Quiet]
    PROVE  /\ event'[c].at = "none"
           /\ \A d \in Clients : d # c => event'[d] = event[d]
  BY DEF TypeOK, ProcessTypes, Quiet

\* A client touches its own handler only, and starts one only where none runs.
LEMMA ClientValue ==
    ASSUME TypeOK, NEW c \in Clients, ClientActs(c),
           client[c] = "starting" => ~Busy(c)
    PROVE  /\ \A d \in Clients : d # c => event'[d] = event[d]
           /\ \/ event'[c] = event[c]
              \/ event[c].at = "none" /\ event'[c].at = "lock"
           /\ client'[c] \in {"running", "dead"}
           /\ client'[c] = "running" => client[c] \in {"starting", "running"}
           /\ event'[c] # event[c] => client'[c] = "running"
           /\ \A d \in Clients : d # c => client'[d] = client[d]
           /\ \/ pid' = pid
              \/ client[c] = "starting" /\ pid' = c
           /\ client[c] = "starting" => pid' = c
           /\ client[c] # "dead"
<1> USE DEF TypeOK, ProcessTypes, ClientStep, Busy, Handler
<1>1. CASE ClientUp(c)
  BY <1>1 DEF ClientUp
<1>2. CASE ClientDeconfig(c)
  BY <1>2 DEF ClientDeconfig
<1>3. CASE ClientTerminates(c) \/ ClientCrashes(c)
  BY <1>3 DEF ClientTerminates, ClientCrashes
<1>4. ASSUME NEW l \in Leases, ClientBound(c, l)
      PROVE  /\ event[c].at = "none" /\ client[c] = "running" /\ pid' = pid
             /\ client' = [client EXCEPT ![c] = "running"]
             /\ event' = [event EXCEPT ![c] = Handler(l)]
  BY <1>4 DEF ClientBound
<1> QED
  BY <1>1, <1>2, <1>3, <1>4 DEF ClientActs

\* The lease lock stays with the handler that works or the starting supervisor.
LEMMA LockHeldStep ==
    ASSUME TypeOK, LockHeld, ClientFollowed, [Next]_vars
    PROVE  LockHeld'
<1>1. CASE SupervisorActs
  <2>1. event' = event
    BY <1>1, SupervisorFrame
  <2>2. CASE Spawn
    BY <2>1, <2>2, Distinct DEF Spawn, StartLock, LockHeld
  <2>3. CASE Own \/ OwnFails \/ SupervisorKilled
    BY <2>1, <2>3, Distinct DEF Own, OwnFails, SupervisorKilled, LockHeld
  <2>4. CASE \/ Boot \/ ReplacePrior \/ ClearPrior \/ UnmarkPrior \/ Poll
             \/ Terminate \/ Kill \/ Reap \/ ClearLease \/ Unmark
             \/ Tick \/ ChildExited \/ Shutdown \/ BackoffEnds
    <3>1. lock' = lock
      BY <2>4 DEF Boot, ReplacePrior, ClearPrior, UnmarkPrior, Poll, Terminate,
         Kill, Reap, ClearLease, Unmark, Tick, ChildExited, Shutdown, BackoffEnds
    <3>2. sup = "own" <=> sup' = "own"
      BY <2>4 DEF Boot, ReplacePrior, ClearPrior, UnmarkPrior, Poll, Terminate,
         Kill, Reap, ClearLease, Unmark, Tick, ChildExited, Shutdown,
         BackoffEnds, Decide, Onward
    <3> QED
      BY <2>1, <3>1, <3>2 DEF LockHeld
  <2> QED
    BY <1>1, <2>2, <2>3, <2>4 DEF SupervisorActs, SupervisorStep
<1>2. ASSUME NEW c \in Clients, ClientActs(c)
      PROVE  LockHeld'
  <2>1. UNCHANGED <<sup, lock>>
    BY <1>2, ClientFrame
  <2>2. /\ \A d \in Clients : d # c => event'[d] = event[d]
        /\ \/ event'[c] = event[c]
           \/ event[c].at = "none" /\ event'[c].at = "lock"
    BY <1>2, ClientValue DEF ClientFollowed
  <2> QED
    BY <2>1, <2>2 DEF LockHeld, Configuring, Working
<1>3. ASSUME NEW c \in Clients, HandlerActs(c)
      PROVE  LockHeld'
  <2>1. sup' = sup
    BY <1>3, HandlerFrame
  <2>2. /\ \A d \in Clients : d # c => event'[d] = event[d]
        /\ \/ /\ lock' = lock
              /\ event[c].at \in Configuring <=> event'[c].at \in Configuring
           \/ lock = FreeLock /\ lock' = c /\ event'[c].at \in Configuring
           \/ /\ event[c].at \in Configuring /\ lock' = FreeLock
              /\ event'[c].at \notin Configuring
    <3>1. CASE EventEnters(c)
      BY <3>1, GoesValue DEF EventEnters, Configuring, Working
    <3>2. CASE EventClears(c) \/ EventResolver(c) \/ EventRollsBack(c)
      BY <3>2, EndsValue DEF EventClears, EventResolver, EventRollsBack,
         Configuring, Working
    <3>3. CASE EventReplaces(c)
      BY <3>3, GoesValue, EndsValue DEF EventReplaces, Configuring, Working
    <3>4. CASE \/ EventWrites(c) \/ EventAddress(c) \/ EventRoute(c)
               \/ EventFails(c)
      BY <3>4, GoesValue DEF EventWrites, EventAddress, EventRoute, EventFails,
         Configuring, Working
    <3>5. CASE EventRefused(c)
      BY <3>5, EndsValue DEF EventRefused, Configuring, Working
    <3>6. CASE EventFinishes(c)
      BY <3>6, QuietValue DEF EventFinishes, Configuring, Working
    <3>7. CASE EventKilled(c)
      BY <3>7, QuietValue DEF EventKilled, Configuring, Working, LockHeld
    <3> QED
      BY <1>3, <3>1, <3>2, <3>3, <3>4, <3>5, <3>6, <3>7
         DEF HandlerActs, EventStep
  <2> QED
    <3>1. lock' = SupLock <=> sup' = "own"
      BY <2>1, <2>2, Distinct DEF LockHeld
    <3>2. ASSUME NEW d \in Clients
          PROVE  lock' = d <=> event'[d].at \in Configuring
      BY <2>2, <3>2, Distinct DEF LockHeld
    <3> QED
      BY <3>1, <3>2 DEF LockHeld
<1>4. CASE AssociationChanges \/ UNCHANGED vars
  BY <1>4 DEF AssociationChanges, vars, LockHeld
<1> QED
  BY <1>1, <1>2, <1>3, <1>4, StepKinds

\* The owner record stays in step with the child.
LEMMA OwnerFollowedStep ==
    ASSUME TypeOK, OwnerFollowed, [Next]_vars
    PROVE  OwnerFollowed'
<1> USE DEF OwnerFollowed, loop
<1>1. CASE SupervisorActs
  <2>1. CASE Boot \/ ReplacePrior \/ ClearPrior \/ UnmarkPrior
    BY <2>1 DEF Boot, ReplacePrior, ClearPrior, UnmarkPrior
  <2>2. CASE Poll
    BY <2>2 DEF Poll, Decide, Onward, Transition
  <2>3. CASE Terminate \/ Kill \/ Reap \/ ClearLease
    BY <2>3 DEF Terminate, Kill, Reap, ClearLease
  <2>4. CASE Unmark
    BY <2>4 DEF Unmark, Onward
  <2>5. CASE Spawn \/ Own \/ OwnFails
    BY <2>5, Distinct DEF Spawn, Own, OwnFails
  <2>6. CASE Tick \/ ChildExited \/ Shutdown
    BY <2>6 DEF Tick, ChildExited, Shutdown
  <2>7. CASE BackoffEnds
    BY <2>7 DEF BackoffEnds
  <2>8. CASE SupervisorKilled
    BY <2>8 DEF SupervisorKilled
  <2> QED
    BY <1>1, <2>1, <2>2, <2>3, <2>4, <2>5, <2>6, <2>7, <2>8
       DEF SupervisorActs, SupervisorStep
<1>2. ASSUME NEW c \in Clients, ClientActs(c) \/ HandlerActs(c)
      PROVE  OwnerFollowed'
  <2>1. UNCHANGED <<sup, child, owner, loop>>
    BY <1>2, ClientFrame, HandlerFrame
  <2> QED
    BY <2>1
<1>3. CASE AssociationChanges
  BY <1>3 DEF AssociationChanges
<1>4. CASE UNCHANGED vars
  BY <1>4 DEF vars
<1> QED
  BY <1>1, <1>2, <1>3, <1>4, StepKinds

\* A removal of the recorded lease leaves what is left of it on record.
LEMMA ClearRecorded ==
    ASSUME NetworkRecorded, NEW ok \in BOOLEAN, Clear(lease, ok)
    PROVE  /\ NetworkRecorded'
           /\ lease' = lease \/ (addrs' = {} /\ routes' = {})
  BY DEF Clear, MayForget, NetworkRecorded

\* A lock that is free, or held by another, keeps a handler off the lease.
LEMMA OthersIdle ==
    ASSUME LockHeld, NEW c \in Clients, lock = FreeLock \/ lock = c
    PROVE  \A d \in Clients : d # c => event[d].at \notin Configuring
  BY Distinct DEF LockHeld

\* What the supervisor does to the record while no handler works on it.
LEMMA SupervisorRecords ==
    ASSUME TypeOK, LockHeld, NetworkRecorded, SupervisorActs
    PROVE  /\ NetworkRecorded'
           /\ \/ net' = net
              \/ \A c \in Clients : event[c].at \notin Configuring
<1>1. CASE ClearPrior \/ ClearLease
  <2>1. lock = FreeLock
    BY <1>1 DEF ClearPrior, ClearLease
  <2>2. \A c \in Clients : event[c].at \notin Configuring
    BY <2>1, Distinct DEF LockHeld
  <2>3. NetworkRecorded'
    BY <1>1, ClearRecorded DEF ClearPrior, ClearLease, NetworkRecorded
  <2> QED
    BY <2>2, <2>3
<1>2. CASE \/ Boot \/ ReplacePrior \/ UnmarkPrior \/ Poll \/ Terminate \/ Kill
           \/ Reap \/ Unmark \/ Spawn \/ Own \/ OwnFails \/ Tick
           \/ ChildExited \/ Shutdown \/ BackoffEnds \/ SupervisorKilled
  <2>1. net' = net
    BY <1>2 DEF Boot, ReplacePrior, UnmarkPrior, Poll, Terminate, Kill, Reap,
       Unmark, Spawn, Own, OwnFails, Tick, ChildExited, Shutdown, BackoffEnds,
       SupervisorKilled
  <2> QED
    BY <2>1 DEF net, NetworkRecorded
<1> QED
  BY <1>1, <1>2 DEF SupervisorActs, SupervisorStep

\* What a handler does to the record.
LEMMA HandlerRecords ==
    ASSUME TypeOK, LockHeld, NetworkRecorded, RecordFollowed,
           NEW c \in Clients, HandlerActs(c)
    PROVE  /\ NetworkRecorded'
           /\ event'[c].at \in {"write", "rollback"}
                 => lease' = event'[c].lease \/ (addrs' = {} /\ routes' = {})
           /\ event'[c].at \in {"address", "route", "resolver"}
                 => lease' = event'[c].lease
           /\ net' # net => event[c].at \in Configuring
<1> USE DEF NetworkRecorded, RecordFollowed
<1>1. CASE EventEnters(c)
  BY <1>1, GoesValue DEF EventEnters, net
<1>2. CASE EventClears(c)
  BY <1>2, EndsValue, ClearRecorded DEF EventClears, Configuring
<1>3. CASE EventReplaces(c)
  <2>1. event[c].at \in Configuring
    BY <1>3 DEF EventReplaces, Configuring, Working
  <2>2. CASE Goes(c, "write")
    <3>1. /\ event'[c].at = "write" /\ event'[c].lease = event[c].lease
      BY <2>2, GoesValue
    <3>2. ~ Ends(c, FALSE)
      BY <3>1, EndsValue
    <3>3. /\ lease' = lease
          /\ addrs' = addrs \ ({lease} \ {event[c].lease})
          /\ routes' = routes \ ({lease} \ {event[c].lease})
      BY <1>3, <3>2 DEF EventReplaces
    <3>4. lease = event[c].lease \/ (addrs' = {} /\ routes' = {})
      BY <3>3
    <3> QED
      BY <2>1, <3>1, <3>3, <3>4
  <2>3. CASE Ends(c, FALSE)
    BY <1>3, <2>1, <2>3, EndsValue DEF EventReplaces
  <2> QED
    BY <1>3, <2>2, <2>3 DEF EventReplaces
<1>4. CASE EventWrites(c)
  BY <1>4, GoesValue DEF EventWrites, Configuring, Working
<1>5. CASE EventAddress(c)
  BY <1>5, GoesValue DEF EventAddress, Configuring, Working
<1>6. CASE EventRoute(c)
  BY <1>6, GoesValue DEF EventRoute, Configuring, Working
<1>7. CASE EventResolver(c)
  BY <1>7, EndsValue DEF EventResolver, Configuring, Working
<1>8. CASE EventFails(c)
  BY <1>8, GoesValue DEF EventFails, net
<1>9. CASE EventRollsBack(c)
  <2>1. \/ lease = event[c].lease
        \/ addrs = {} /\ routes = {}
    BY <1>9 DEF EventRollsBack
  <2>2. NetworkRecorded'
    BY <1>9, <2>1 DEF EventRollsBack, Clear, MayForget
  <2> QED
    BY <1>9, <2>2, EndsValue DEF EventRollsBack, Configuring, Working
<1>10. CASE EventRefused(c)
  BY <1>10, EndsValue DEF EventRefused, net
<1>11. CASE EventFinishes(c) \/ EventKilled(c)
  BY <1>11, QuietValue DEF EventFinishes, EventKilled, net
<1> QED
  BY <1>1, <1>2, <1>3, <1>4, <1>5, <1>6, <1>7, <1>8, <1>9, <1>10, <1>11
     DEF HandlerActs, EventStep

\* The network state stays on record, and the record with the handler at work.
LEMMA RecordStep ==
    ASSUME TypeOK, LockHeld, ClientFollowed, NetworkRecorded, RecordFollowed,
           [Next]_vars
    PROVE  NetworkRecorded' /\ RecordFollowed'
<1>1. CASE SupervisorActs
  <2>1. event' = event
    BY <1>1, SupervisorFrame
  <2> QED
    BY <1>1, <2>1, SupervisorRecords
       DEF net, RecordFollowed, Configuring, Working
<1>2. ASSUME NEW c \in Clients, ClientActs(c)
      PROVE  NetworkRecorded' /\ RecordFollowed'
  <2>1. net' = net
    BY <1>2, ClientFrame
  <2>2. /\ \A d \in Clients : d # c => event'[d] = event[d]
        /\ \/ event'[c] = event[c]
           \/ event'[c].at = "lock"
    BY <1>2, ClientValue DEF ClientFollowed
  <2> QED
    BY <2>1, <2>2 DEF net, NetworkRecorded, RecordFollowed
<1>3. ASSUME NEW c \in Clients, HandlerActs(c)
      PROVE  NetworkRecorded' /\ RecordFollowed'
  <2>1. \A d \in Clients : d # c => event'[d] = event[d]
    BY <1>3, GoesValue, EndsValue, QuietValue DEF HandlerActs, EventStep,
       EventEnters, EventClears, EventReplaces, EventWrites, EventAddress,
       EventRoute, EventResolver, EventRollsBack, EventFinishes, EventFails,
       EventRefused, EventKilled
  <2>2. net' # net => \A d \in Clients : d # c => event[d].at \notin Configuring
    BY <1>3, HandlerRecords, OthersIdle DEF LockHeld
  <2>3. ASSUME NEW d \in Clients, d # c
        PROVE  /\ event'[d].at \in {"write", "rollback"}
                     => lease' = event'[d].lease \/ (addrs' = {} /\ routes' = {})
               /\ event'[d].at \in {"address", "route", "resolver"}
                     => lease' = event'[d].lease
    BY <2>1, <2>2, <2>3 DEF net, RecordFollowed, Configuring, Working
  <2> QED
    BY <1>3, <2>3, HandlerRecords DEF RecordFollowed
<1>4. CASE AssociationChanges \/ UNCHANGED vars
  BY <1>4 DEF AssociationChanges, vars, net, NetworkRecorded, RecordFollowed
<1> QED
  BY <1>1, <1>2, <1>3, <1>4, StepKinds

\* A handler step moves a busy handler only, and takes the lock as its owner.
LEMMA HandlerValue ==
    ASSUME TypeOK, NEW c \in Clients, HandlerActs(c)
    PROVE  /\ Busy(c)
           /\ \A d \in Clients : d # c => event'[d] = event[d]
           /\ lock' \in {lock, FreeLock} \/ (lock' = c /\ owner = c)
<1>1. Busy(c)
  BY DEF HandlerActs, EventStep, EventEnters, EventClears, EventReplaces,
     EventWrites, EventAddress, EventRoute, EventResolver, EventRollsBack,
     EventFinishes, EventFails, EventRefused, EventKilled, Busy
<1>2. \A d \in Clients : d # c => event'[d] = event[d]
  BY GoesValue, EndsValue, QuietValue DEF HandlerActs, EventStep,
     EventEnters, EventClears, EventReplaces, EventWrites, EventAddress,
     EventRoute, EventResolver, EventRollsBack, EventFinishes, EventFails,
     EventRefused, EventKilled
<1>3. lock' \in {lock, FreeLock} \/ (lock' = c /\ owner = c)
  BY DEF HandlerActs, EventStep, EventEnters, EventClears, EventReplaces,
     EventWrites, EventAddress, EventRoute, EventResolver, EventRollsBack,
     EventFinishes, EventFails, EventRefused, EventKilled, EventOwned
<1> QED
  BY <1>1, <1>2, <1>3

\* After a cleanup that succeeded no client owns the lease.
LEMMA SettledOwner ==
    ASSUME OwnerFollowed, Settled
    PROVE  owner = NoClient
  BY DEF OwnerFollowed, Settled

\* What a cleanup removed stays removed until a client is started.
LEMMA CleanKeptStep ==
    ASSUME TypeOK, LockHeld, OwnerFollowed, NetworkRecorded, RecordFollowed,
           CleanKept, [Next]_vars
    PROVE  CleanKept'
<1>1. CASE SupervisorActs
  <2>1. CASE ClearPrior
    <3>1. CASE Settled'
      <4>1. sup' # "down"
        BY <3>1 DEF Settled
      <4> QED
        BY <2>1, <4>1, Distinct DEF ClearPrior, CleanKept, Clean
    <3> QED
      BY <3>1 DEF CleanKept
  <2>2. CASE ClearLease
    <3>1. CASE sup' = "unmark"
      <4>1. Clear(lease, TRUE) /\ lock' = FreeLock
        BY <2>2, <3>1 DEF ClearLease
      <4>2. addrs' = addrs \ {lease} /\ routes' = routes \ {lease}
            /\ lease' = NoLease /\ ~resolver'
        BY <4>1 DEF Clear
      <4>3. Clean'
        BY <4>2 DEF NetworkRecorded, Clean
      <4> QED
        BY <4>1, <4>3, Distinct DEF CleanKept
    <3>2. CASE sup' = "unmark, failed"
      BY <3>2 DEF CleanKept, Settled
    <3> QED
      BY <2>2, <3>1, <3>2 DEF ClearLease
  <2>3. CASE \/ Boot \/ ReplacePrior \/ UnmarkPrior \/ Poll \/ Terminate
             \/ Kill \/ Reap \/ Unmark \/ Spawn \/ Own \/ OwnFails \/ Tick
             \/ ChildExited \/ Shutdown \/ BackoffEnds \/ SupervisorKilled
    <3>1. net' = net
      BY <2>3 DEF Boot, ReplacePrior, UnmarkPrior, Poll, Terminate, Kill, Reap,
         Unmark, Spawn, Own, OwnFails, Tick, ChildExited, Shutdown, BackoffEnds,
         SupervisorKilled
    <3>2. lock' \in {lock, FreeLock, SupLock}
      BY <2>3 DEF Boot, ReplacePrior, UnmarkPrior, Poll, Terminate, Kill, Reap,
         Unmark, Spawn, Own, OwnFails, Tick, ChildExited, Shutdown, BackoffEnds,
         SupervisorKilled, StartLock
    <3>3. Settled' => Settled
      <4>1. CASE Boot \/ ReplacePrior \/ UnmarkPrior
        BY <4>1 DEF Boot, ReplacePrior, UnmarkPrior, Settled
      <4>2. CASE Poll
        BY <4>2 DEF Poll, Decide, Onward, Transition, Settled, TypeOK, LoopTypes
      <4>3. CASE Terminate \/ Kill \/ Reap
        BY <4>3 DEF Terminate, Kill, Reap, Settled
      <4>4. CASE Unmark
        BY <4>4 DEF Unmark, Onward, Settled
      <4>5. CASE Spawn \/ Own \/ OwnFails
        BY <4>5 DEF Spawn, Own, OwnFails, Settled, OwnerFollowed
      <4>6. CASE Tick \/ ChildExited \/ Shutdown
        BY <4>6 DEF Tick, ChildExited, Shutdown, Settled, loop
      <4>7. CASE BackoffEnds \/ SupervisorKilled
        BY <4>7 DEF BackoffEnds, SupervisorKilled, Settled
      <4> QED
        BY <2>3, <4>1, <4>2, <4>3, <4>4, <4>5, <4>6, <4>7
    <3> QED
      BY <3>1, <3>2, <3>3, Distinct DEF CleanKept, Clean, net
  <2> QED
    BY <1>1, <2>1, <2>2, <2>3 DEF SupervisorActs, SupervisorStep
<1>2. ASSUME NEW c \in Clients, ClientActs(c)
      PROVE  CleanKept'
  <2>1. UNCHANGED <<sup, loop, child, lock, net>>
    BY <1>2, ClientFrame
  <2> QED
    BY <2>1 DEF CleanKept, Settled, Clean, loop, net
<1>3. ASSUME NEW c \in Clients, HandlerActs(c), Settled'
      PROVE  Clean' /\ lock' \notin Clients
  <2>1. Settled
    BY <1>3, HandlerFrame DEF Settled, loop
  <2>2. /\ Clean /\ lock \notin Clients /\ owner # c
    BY <2>1, SettledOwner, Distinct DEF CleanKept
  <2>3. net' = net
    BY <1>3, <2>2, HandlerRecords DEF LockHeld
  <2>4. lock' \in {lock, FreeLock}
    BY <1>3, <2>2, HandlerValue
  <2> QED
    BY <2>2, <2>3, <2>4, Distinct DEF Clean, net
<1>4. CASE AssociationChanges
  BY <1>4 DEF AssociationChanges, CleanKept, Settled, Clean, loop, net
<1>5. CASE UNCHANGED vars
  BY <1>5 DEF vars, CleanKept, Settled, Clean, loop, net
<1> QED
  BY <1>1, <1>2, <1>3, <1>4, <1>5, StepKinds DEF CleanKept

-----------------------------------------------------------------------------
\* Clients

\* The supervisor keeps track of every live client.
LEMMA SupervisorFollows ==
    ASSUME TypeOK, OwnerFollowed, ClientFollowed, SupervisorActs
    PROVE  ClientFollowed'
<1>0. event' = event
  BY SupervisorFrame
<1> USE DEF ClientFollowed, OneClient, Alive, Busy
<1>1. CASE Boot
  BY <1>0, <1>1 DEF Boot, loop
<1>2. CASE ReplacePrior
  BY <1>0, <1>2, Distinct DEF ReplacePrior, PriorGone, loop, OwnerFollowed
<1>3. CASE ClearPrior \/ UnmarkPrior
  BY <1>0, <1>3, Distinct DEF ClearPrior, UnmarkPrior, OwnerFollowed, loop
<1>4. CASE Poll
  BY <1>0, <1>4 DEF Poll, Decide, Onward
<1>5. CASE Terminate
  BY <1>0, <1>5 DEF Terminate, Signalled, loop, TypeOK, LoopTypes, ProcessTypes
<1>6. CASE Kill
  BY <1>0, <1>6 DEF Kill, loop, TypeOK, LoopTypes, ProcessTypes
<1>7. CASE Reap
  BY <1>0, <1>7 DEF Reap, loop
<1>8. CASE ClearLease \/ Unmark
  BY <1>0, <1>8, Distinct DEF ClearLease, Unmark, Onward, OwnerFollowed, loop
<1>9. CASE Spawn
  BY <1>0, <1>9, Distinct
     DEF Spawn, Forgotten, OwnerFollowed, loop, TypeOK, ProcessTypes
<1>10. CASE Own
  BY <1>0, <1>10 DEF Own
<1>11. CASE OwnFails
  BY <1>0, <1>11 DEF OwnFails, TypeOK, LoopTypes, ProcessTypes
<1>12. CASE Tick \/ ChildExited \/ Shutdown
  BY <1>0, <1>12 DEF Tick, ChildExited, Shutdown, loop
<1>13. CASE BackoffEnds
  BY <1>0, <1>13 DEF BackoffEnds
<1>14. CASE SupervisorKilled
  BY <1>0, <1>14, Distinct
     DEF SupervisorKilled, Signalled, OwnerFollowed, loop, TypeOK, LoopTypes,
         ProcessTypes
<1> QED
  BY <1>1, <1>2, <1>3, <1>4, <1>5, <1>6, <1>7, <1>8, <1>9, <1>10, <1>11,
     <1>12, <1>13, <1>14 DEF SupervisorActs, SupervisorStep

\* Every live client stays the child, on record or about to die.
LEMMA ClientFollowedStep ==
    ASSUME TypeOK, OwnerFollowed, ClientFollowed, [Next]_vars
    PROVE  ClientFollowed'
<1>1. CASE SupervisorActs
  BY <1>1, SupervisorFollows
<1>2. ASSUME NEW c \in Clients, ClientActs(c)
      PROVE  ClientFollowed'
  <2>1. UNCHANGED <<sup, child, owner>>
    BY <1>2, ClientFrame
  <2>2. /\ \A d \in Clients : d # c => event'[d] = event[d]
        /\ client'[c] \in {"running", "dead"}
        /\ client'[c] = "running" => client[c] \in {"starting", "running"}
        /\ event'[c] # event[c] => client'[c] = "running"
        /\ \A d \in Clients : d # c => client'[d] = client[d]
        /\ \/ pid' = pid
           \/ client[c] = "starting" /\ pid' = c
        /\ client[c] = "starting" => pid' = c
        /\ client[c] # "dead"
    BY <1>2, ClientValue DEF ClientFollowed
  <2> QED
    BY <2>1, <2>2 DEF ClientFollowed, OneClient, Alive, Busy
<1>3. ASSUME NEW c \in Clients, HandlerActs(c)
      PROVE  ClientFollowed'
  <2>1. UNCHANGED <<sup, child, client, owner, pid>>
    BY <1>3, HandlerFrame
  <2>2. /\ Busy(c)
        /\ \A d \in Clients : d # c => event'[d] = event[d]
    BY <1>3, HandlerValue
  <2> QED
    BY <2>1, <2>2 DEF ClientFollowed, OneClient, Alive, Busy
<1>4. CASE AssociationChanges
  BY <1>4 DEF AssociationChanges, ClientFollowed, OneClient, Alive, Busy
<1>5. CASE UNCHANGED vars
  BY <1>5 DEF vars, ClientFollowed, OneClient, Alive, Busy
<1> QED
  BY <1>1, <1>2, <1>3, <1>4, <1>5, StepKinds

-----------------------------------------------------------------------------
\* The safety properties

\* The inductive invariant holds initially: nothing runs, nothing is on disk.
LEMMA IInvInit == Init => IInv
<1> SUFFICES ASSUME Init PROVE IInv
  OBVIOUS
<1> USE DEF Init
<1>1. NetworkRecorded
  BY DEF NetworkRecorded
<1>2. LockHeld
  BY Distinct DEF LockHeld, Configuring, Working, Quiet
<1>3. RecordFollowed
  BY DEF RecordFollowed, Quiet
<1>4. OwnerFollowed
  BY DEF OwnerFollowed
<1>5. CleanKept
  BY DEF CleanKept, Settled
<1>6. ClientFollowed
  BY DEF ClientFollowed, OneClient, Alive
<1> QED
  BY <1>1, <1>2, <1>3, <1>4, <1>5, <1>6 DEF IInv

\* The inductive invariant holds in every reachable state.
THEOREM NetworkdInvariant == Spec => []IInv
<1>1. TypeOK /\ IInv /\ [Next]_vars => IInv'
  BY LockHeldStep, OwnerFollowedStep, RecordStep, CleanKeptStep,
     ClientFollowedStep DEF IInv
<1> QED
  BY <1>1, IInvInit, NetworkdTypes, PTL DEF Spec

\* Every address and route that networkd put on the interface is on record,
\* whatever fails or dies between the steps of configureLease and its rollback.
THEOREM NetworkStaysRecorded == Spec => []NetworkRecorded
<1>1. IInv => NetworkRecorded
  BY DEF IInv
<1> QED
  BY <1>1, NetworkdInvariant, PTL

\* Between a cleanup that succeeded and the next client nothing of a lease is
\* there: a late event handler of a stopped client cannot bring it back.
THEOREM CleanStaysClean == Spec => []SettledClean
<1>1. IInv => SettledClean
  BY DEF IInv, CleanKept, Settled, SettledClean, OwnerFollowed
<1> QED
  BY <1>1, NetworkdInvariant, PTL

\* At most one DHCP client is alive, across kills and restarts of the supervisor.
THEOREM OneClientAlive == Spec => []OneClient
<1>1. IInv => OneClient
  BY DEF IInv, ClientFollowed, OneClient
<1> QED
  BY <1>1, NetworkdInvariant, PTL

\* An event of the supervisor's own running client passes the owner check.
THEOREM OwnEventsHandled == Spec => NoEventDropped
<1>1. TypeOK /\ IInv /\ [Next]_vars => DropStep
  <2> SUFFICES ASSUME TypeOK, IInv, [Next]_vars, NEW c \in Clients,
                      event[c].at = "lock", event'[c].at = "none",
                      faults' = faults, child = c, client[c] = "running"
               PROVE  FALSE
    BY DEF DropStep
  <2>1. CASE SupervisorActs \/ AssociationChanges \/ UNCHANGED vars
    BY <2>1, SupervisorFrame DEF AssociationChanges, vars
  <2>2. ASSUME NEW d \in Clients, ClientActs(d)
        PROVE  FALSE
    BY <2>2, ClientValue DEF IInv, ClientFollowed
  <2>3. ASSUME NEW d \in Clients, HandlerActs(d)
        PROVE  FALSE
    <3>1. d = c
      BY <2>3, HandlerValue
    <3>2. ~ Fault
      BY NetworkdAssumption DEF TypeOK, CountTypes, Fault
    <3>3. EventEnters(c)
      <4>1. ~ (EventFails(c) \/ EventRefused(c) \/ EventKilled(c))
        BY <3>2 DEF EventFails, EventRefused, EventKilled
      <4>2. EventStep(c)
        BY <2>3, <3>1, <4>1 DEF HandlerActs
      <4> QED
        BY <4>2 DEF EventStep, EventClears, EventReplaces, EventWrites,
           EventAddress, EventRoute, EventResolver, EventRollsBack,
           EventFinishes
    <3>4. owner # c
      BY <3>3, GoesValue DEF EventEnters, EventOwned
    <3>5. sup \in {"poll", "wait", "term", "reap", "own"}
      BY Distinct DEF IInv, OwnerFollowed
    <3>6. sup = "own"
      BY <3>4, <3>5, Distinct DEF IInv, OwnerFollowed
    <3>7. lock = SupLock
      BY <3>6 DEF IInv, LockHeld
    <3> QED
      BY <3>3, <3>7, Distinct DEF EventEnters
  <2> QED
    BY <2>1, <2>2, <2>3, StepKinds
<1> QED
  BY <1>1, NetworkdInvariant, NetworkdTypes, PTL DEF Spec, NoEventDropped
=============================================================================
