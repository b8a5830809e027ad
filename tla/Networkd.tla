------------------------------ MODULE Networkd ------------------------------
(***************************************************************************)
(* reinvoke-networkd (tools/provisioning/networkd): a supervisor that      *)
(* follows the supplicant and keeps one udhcpc child while the station is  *)
(* associated, and the event handlers udhcpc runs, each a process of its   *)
(* own that configures or clears the lease.  They share the files of       *)
(* /run/reinvoke/networkd: the lease lock, the owner record that names the *)
(* client whose events count, the lease file and the event failure marker. *)
(*                                                                         *)
(* A lease stands for its address and its default route.  Time is left     *)
(* out: `backoff` says that nextRetry lies ahead.                          *)
(***************************************************************************)
EXTENDS Integers

CONSTANTS
    Clients,          \* identities of udhcpc processes, reused once forgotten
    Networks,         \* what the supplicant may be associated with
    Leases,           \* what a DHCP server may offer
    NoClient, NoNetwork, NoLease,
    MaxCommandFailures, \* maxCommandFailures: status queries in a row
    MaxFaults,        \* bound: failed commands, kills and crashes
    MaxQueryFails,    \* bound: failed status queries
    MaxChanges        \* bound: changes of the association

\* Holders of the lease lock that are no event handler.
FreeLock == "free"
SupLock == "supervisor"

ASSUME NetworkdAssumption ==
    /\ Clients \cap {NoClient, FreeLock, SupLock} = {}
    /\ NoNetwork \notin Networks
    /\ NoLease \notin Leases
    /\ MaxCommandFailures \in Nat \ {0}
    /\ MaxFaults \in Nat /\ MaxQueryFails \in Nat /\ MaxChanges \in Nat

VARIABLES
    sup,        \* where the supervisor is
    caller,     \* on whose behalf cleanup runs: "loop", "exited" or "shutdown"
    known,      \* lifecycleState: the network it believes in
    child,      \* the supervisor's udhcpc child
    pending,    \* cleanupPending
    recovering, \* recoveringEvent
    backoff,    \* the time is before nextRetry
    wanted,     \* this turn of the loop may start a client
    misses,     \* statusFailures
    client,     \* per udhcpc: "dead", "starting", "running" or "term"
    event,      \* per udhcpc: the event handler it runs or left behind
    lock,       \* lease.lock: FreeLock, SupLock or the client of a handler
    owner,      \* udhcpc.owner
    pid,        \* udhcpc.pid
    lease,      \* lease.json
    addrs, routes, resolver,   \* the interface and resolv.conf
    marker,     \* event-failure: absent, or the client whose event left it
    assoc,      \* the supplicant's association
    faults, queryFails, changes

loop   == <<caller, known, pending, recovering, backoff, wanted, misses>>
net    == <<lease, addrs, routes, resolver>>
budget == <<faults, queryFails, changes>>
vars == <<sup, loop, child, client, event, lock, owner, pid, net, marker, assoc,
          budget>>

Quiet == [at |-> "none", lease |-> NoLease, ok |-> TRUE]
Handler(l) == [at |-> "lock", lease |-> l, ok |-> TRUE]
Busy(c) == event[c].at # "none"
Alive(c) == client[c] # "dead"

Fault ==
    /\ faults < MaxFaults
    /\ faults' = faults + 1
    /\ UNCHANGED <<queryFails, changes>>

-----------------------------------------------------------------------------
\* The decisions and helpers of the code

\* A status query that fails counts as an unchanged network this often.
Tolerated_OneMore(n) == n <= MaxCommandFailures
Tolerated(n) == n < MaxCommandFailures

\* transition
Transition_NeverStops(seen, running, failed) ==
    CASE seen # NoNetwork /\ failed -> "recover"
      [] seen # NoNetwork /\ ~failed /\ ~running -> "start"
      [] OTHER -> "none"
Transition_StartsOnConnect(seen, running, failed) ==
    CASE seen = NoNetwork /\ running -> "stop"
      [] seen # NoNetwork /\ failed -> "recover"
      [] seen # NoNetwork /\ known = NoNetwork /\ ~failed /\ ~running -> "start"
      [] OTHER -> "none"
Transition(seen, running, failed) ==
    CASE seen = NoNetwork /\ running -> "stop"
      [] seen # NoNetwork /\ failed -> "recover"
      [] seen # NoNetwork /\ ~failed /\ ~running -> "start"
      [] seen \notin {NoNetwork, known} /\ ~failed /\ running /\ known # NoNetwork
            -> "restart"
      [] OTHER -> "none"

\* validateEventOwner
EventOwned_Unchecked(c) == TRUE
EventOwned(c) == owner = c

\* startDHCP runs client and owner record under the lease lock.
StartLock_None == FreeLock
StartLock == SupLock

\* replacePriorDHCP: no process of an earlier supervisor is left.
PriorGone_Assumed == TRUE
PriorGone ==
    /\ owner # NoClient => ~Alive(owner)
    /\ owner = NoClient /\ pid # NoClient => ~Alive(pid)

\* What a failed removal may leave is left with its record.
MayForget_Always(a, r) == TRUE
MayForget(a, r) == a = {} /\ r = {}

\* removeLeaseNetwork of l, then the lease file, then the resolver: each may
\* fail, and the lease file goes only when the network state is gone.
Clear(l, ok) ==
    \E a \in SUBSET (addrs \cap {l}), r \in SUBSET (routes \cap {l}),
       file \in {lease, NoLease}, dns \in {resolver, FALSE} :
        /\ file # lease => MayForget(a, r)
        /\ ok <=> (a = {} /\ r = {} /\ file = NoLease /\ ~dns)
        /\ addrs' = (addrs \ {l}) \cup a
        /\ routes' = (routes \ {l}) \cup r
        /\ lease' = file
        /\ resolver' = dns
        /\ IF ok THEN UNCHANGED budget ELSE Fault

Signalled(c) == IF Alive(c) THEN "term" ELSE "dead"

-----------------------------------------------------------------------------

Init ==
    /\ sup = "down" /\ caller = "loop"
    /\ known = NoNetwork /\ child = NoClient
    /\ pending = FALSE /\ recovering = FALSE /\ backoff = FALSE
    /\ wanted = FALSE /\ misses = 0
    /\ client = [c \in Clients |-> "dead"]
    /\ event = [c \in Clients |-> Quiet]
    /\ lock = FreeLock
    /\ owner = NoClient /\ pid = NoClient
    /\ lease = NoLease /\ addrs = {} /\ routes = {} /\ resolver = FALSE
    /\ marker = NoClient
    /\ assoc = NoNetwork
    /\ faults = 0 /\ queryFails = 0 /\ changes = 0

\* PID 1 starts the supervisor five seconds after the last one: by then a
\* client that got SIGTERM is gone, unless it still waits for its script.
Boot ==
    /\ sup = "down"
    /\ \A c \in Clients : client[c] = "term" => Busy(c)
    /\ sup' = "replace"
    /\ UNCHANGED <<loop, child, client, event, lock, owner, pid, net, marker,
                   assoc, budget>>

ReplacePrior ==
    /\ sup = "replace"
    /\ IF PriorGone
       THEN sup' = "clear prior" /\ owner' = NoClient /\ pid' = NoClient
       ELSE sup' = "down" /\ UNCHANGED <<owner, pid>>
    /\ UNCHANGED <<loop, child, client, event, lock, net, marker, assoc, budget>>

\* clearLeaseState and clearInterfaceNetworkState, under the lease lock.
ClearPrior ==
    /\ sup = "clear prior"
    /\ lock = FreeLock
    /\ \/ /\ lease' = NoLease /\ addrs' = {} /\ routes' = {} /\ resolver' = FALSE
          /\ sup' = "unmark prior"
          /\ UNCHANGED budget
       \/ Clear(lease, FALSE) /\ sup' = "down"
    /\ UNCHANGED <<loop, child, client, event, lock, owner, pid, marker, assoc>>

UnmarkPrior ==
    /\ sup = "unmark prior"
    /\ marker' = NoClient
    /\ sup' = "poll"
    /\ caller' = "loop" /\ known' = NoNetwork /\ child' = NoClient
    /\ pending' = FALSE /\ recovering' = FALSE /\ backoff' = FALSE
    /\ wanted' = FALSE /\ misses' = 0
    /\ UNCHANGED <<client, event, lock, owner, pid, net, assoc, budget>>

\* Where a turn of the loop goes once no cleanup is due.
Onward(start) == IF start THEN "spawn" ELSE "wait"

\* The supplicant is queried, the marker looked up, and transition decides.
Decide(seen, answered) ==
    LET action == Transition(seen, child # NoClient, marker # NoClient)
    IN  /\ known' = seen
        /\ pending' = (pending \/ action \in {"stop", "restart", "recover"})
        /\ recovering' = (recovering \/ action = "recover")
        /\ backoff' = (backoff /\ action \notin {"stop", "restart"})
        /\ wanted' = (action \in {"start", "restart"} /\ answered)
        /\ caller' = "loop"
        /\ sup' = IF pending' /\ ~backoff' THEN "term"
                  ELSE Onward(wanted' /\ ~pending' /\ ~backoff')

Poll ==
    /\ sup = "poll"
    /\ \/ /\ Decide(assoc, TRUE)
          /\ misses' = 0
          /\ UNCHANGED budget
       \/ /\ queryFails < MaxQueryFails
          /\ queryFails' = queryFails + 1
          /\ misses' = IF Tolerated(misses) THEN misses + 1 ELSE misses
          /\ Decide(IF Tolerated(misses') THEN known ELSE NoNetwork, FALSE)
          /\ UNCHANGED <<faults, changes>>
    /\ UNCHANGED <<child, client, event, lock, owner, pid, net, marker, assoc>>

\* cleanup: stopDHCP, then the lease under its lock, then the marker.
Terminate ==
    /\ sup = "term"
    /\ sup' = "reap"
    /\ client' = IF child = NoClient THEN client
                 ELSE [client EXCEPT ![child] = Signalled(child)]
    /\ UNCHANGED <<loop, child, event, lock, owner, pid, net, marker, assoc,
                   budget>>

\* childStopTimeout: SIGKILL; the handler it ran is left behind.
Kill ==
    /\ sup = "reap" /\ child # NoClient
    /\ Alive(child) /\ Busy(child)
    /\ client' = [client EXCEPT ![child] = "dead"]
    /\ UNCHANGED <<sup, loop, child, event, lock, owner, pid, net, marker, assoc,
                   budget>>

Reap ==
    /\ sup = "reap"
    /\ child # NoClient => ~Alive(child)
    /\ child' = NoClient /\ owner' = NoClient /\ pid' = NoClient
    /\ sup' = "clear"
    /\ UNCHANGED <<loop, client, event, lock, net, marker, assoc, budget>>

ClearLease ==
    /\ sup = "clear"
    /\ lock = FreeLock
    /\ \/ Clear(lease, TRUE) /\ sup' = "unmark"
       \/ Clear(lease, FALSE) /\ sup' = "unmark, failed"
    /\ UNCHANGED <<loop, child, client, event, lock, owner, pid, marker, assoc>>

\* The end of cleanup, and what its caller does with the result.
Unmark ==
    /\ sup \in {"unmark", "unmark, failed"}
    /\ marker' = NoClient
    /\ LET ok == sup = "unmark"
       IN  \/ /\ caller = "loop"
              /\ pending' = ~ok
              /\ backoff' = (backoff \/ ~ok \/ recovering)
              /\ recovering' = (recovering /\ ~ok)
              /\ sup' = Onward(wanted /\ ok /\ ~backoff')
           \/ /\ caller = "exited"
              /\ pending' = ~ok
              /\ backoff' = TRUE
              /\ sup' = "wait"
              /\ UNCHANGED recovering
           \/ /\ caller = "shutdown"
              /\ sup' = "down"
              /\ UNCHANGED <<pending, backoff, recovering>>
    /\ UNCHANGED <<caller, known, wanted, misses, child, client, event, lock,
                   owner, pid, net, assoc, budget>>

\* A process identity nothing refers to any more (tokens are random).
Forgotten(c) ==
    ~Alive(c) /\ ~Busy(c) /\ c \notin {owner, pid, marker}

\* startDHCP: fork under the lease lock, then write the owner record.
Spawn ==
    /\ sup = "spawn"
    /\ lock = FreeLock
    /\ lock' = StartLock
    /\ \E c \in Clients :
          /\ Forgotten(c)
          /\ child' = c
          /\ client' = [client EXCEPT ![c] = "starting"]
    /\ sup' = "own"
    /\ UNCHANGED <<loop, event, owner, pid, net, marker, assoc, budget>>

Own ==
    /\ sup = "own"
    /\ owner' = child
    /\ lock' = IF lock = SupLock THEN FreeLock ELSE lock
    /\ backoff' = FALSE
    /\ sup' = "wait"
    /\ UNCHANGED <<caller, known, pending, recovering, wanted, misses, child,
                   client, event, pid, net, marker, assoc, budget>>

\* The process cannot be inspected or recorded: it is killed.
OwnFails ==
    /\ sup = "own"
    /\ Fault
    /\ client' = [client EXCEPT ![child] = "dead"]
    /\ child' = NoClient
    /\ lock' = IF lock = SupLock THEN FreeLock ELSE lock
    /\ backoff' = TRUE
    /\ sup' = "wait"
    /\ UNCHANGED <<caller, known, pending, recovering, wanted, misses, event,
                   owner, pid, net, marker, assoc>>

\* The select at the end of the loop.
Tick ==
    /\ sup = "wait"
    /\ sup' = "poll"
    /\ UNCHANGED <<loop, child, client, event, lock, owner, pid, net, marker,
                   assoc, budget>>

ChildExited ==
    /\ sup = "wait"
    /\ child # NoClient /\ ~Alive(child)
    /\ child' = NoClient
    /\ pending' = TRUE
    /\ caller' = "exited"
    /\ sup' = "term"
    /\ UNCHANGED <<known, recovering, backoff, wanted, misses, client, event,
                   lock, owner, pid, net, marker, assoc, budget>>

Shutdown ==
    /\ sup = "wait"
    /\ Fault
    /\ caller' = "shutdown"
    /\ sup' = "term"
    /\ UNCHANGED <<known, pending, recovering, backoff, wanted, misses, child,
                   client, event, lock, owner, pid, net, marker, assoc>>

BackoffEnds ==
    /\ backoff
    /\ backoff' = FALSE
    /\ UNCHANGED <<sup, caller, known, pending, recovering, wanted, misses,
                   child, client, event, lock, owner, pid, net, marker, assoc,
                   budget>>

\* The supervisor is killed: the kernel drops its lock, and Pdeathsig sends
\* SIGTERM to its child.
SupervisorKilled ==
    /\ sup # "down"
    /\ Fault
    /\ sup' = "down"
    /\ lock' = IF lock = SupLock THEN FreeLock ELSE lock
    /\ client' = IF child = NoClient THEN client
                 ELSE [client EXCEPT ![child] = Signalled(child)]
    /\ child' = NoClient
    /\ UNCHANGED <<loop, event, owner, pid, net, marker, assoc>>

-----------------------------------------------------------------------------
\* udhcpc: it runs one script at a time and waits for it

ClientStep(c, state, handler) ==
    /\ client' = [client EXCEPT ![c] = state]
    /\ event' = [event EXCEPT ![c] = handler]
    /\ UNCHANGED <<sup, loop, child, lock, owner, net, marker, assoc>>

ClientUp(c) ==
    /\ client[c] = "starting"
    /\ pid' = c
    /\ ClientStep(c, "running", Handler(NoLease))
    /\ UNCHANGED budget

\* bound and renew
ClientBound(c, l) ==
    /\ client[c] = "running" /\ ~Busy(c)
    /\ assoc # NoNetwork
    /\ ClientStep(c, "running", Handler(l))
    /\ UNCHANGED <<pid, budget>>

\* The lease ran out: deconfig.
ClientDeconfig(c) ==
    /\ client[c] = "running" /\ ~Busy(c)
    /\ ClientStep(c, "running", Handler(NoLease))
    /\ UNCHANGED <<pid, budget>>

ClientTerminates(c) ==
    /\ client[c] = "term" /\ ~Busy(c)
    /\ ClientStep(c, "dead", event[c])
    /\ UNCHANGED <<pid, budget>>

ClientCrashes(c) ==
    /\ client[c] = "running"
    /\ Fault
    /\ ClientStep(c, "dead", event[c])
    /\ UNCHANGED pid

-----------------------------------------------------------------------------
\* runEvent: the handler of client c

Goes(c, at) == event' = [event EXCEPT ![c].at = at]
Ends(c, ok) == event' = [event EXCEPT ![c].at = "finish", ![c].ok = ok]
Rest == <<sup, loop, child, client, owner, pid, assoc>>

EventEnters(c) ==
    /\ event[c].at = "lock"
    /\ lock = FreeLock
    /\ IF EventOwned(c)
       THEN /\ lock' = c
            /\ Goes(c, IF event[c].lease = NoLease THEN "clear" ELSE "previous")
       ELSE Goes(c, "none") /\ UNCHANGED lock
    /\ UNCHANGED <<Rest, net, marker, budget>>

EventClears(c) ==
    /\ event[c].at = "clear"
    /\ \E ok \in BOOLEAN : Clear(lease, ok) /\ Ends(c, ok)
    /\ lock' = FreeLock
    /\ UNCHANGED <<Rest, marker>>

\* Another lease is recorded: its network state goes first, or the event fails.
EventReplaces(c) ==
    /\ event[c].at = "previous"
    /\ \/ /\ addrs' = addrs \ ({lease} \ {event[c].lease})
          /\ routes' = routes \ ({lease} \ {event[c].lease})
          /\ Goes(c, "write")
          /\ UNCHANGED <<lock, budget>>
       \/ /\ lease \notin {NoLease, event[c].lease}
          /\ addrs' \in {addrs, addrs \ {lease}}
          /\ routes' \in {routes, routes \ {lease}}
          /\ Fault
          /\ Ends(c, FALSE)
          /\ lock' = FreeLock
    /\ UNCHANGED <<Rest, lease, resolver, marker>>

\* configureLease: the record first, then address, route and resolver.
EventWrites(c) ==
    /\ event[c].at = "write"
    /\ lease' = event[c].lease
    /\ Goes(c, "address")
    /\ UNCHANGED <<Rest, lock, addrs, routes, resolver, marker, budget>>

EventAddress(c) ==
    /\ event[c].at = "address"
    /\ addrs' = addrs \cup {event[c].lease}
    /\ Goes(c, "route")
    /\ UNCHANGED <<Rest, lock, lease, routes, resolver, marker, budget>>

EventRoute(c) ==
    /\ event[c].at = "route"
    /\ routes' = routes \cup {event[c].lease}
    /\ Goes(c, "resolver")
    /\ UNCHANGED <<Rest, lock, lease, addrs, resolver, marker, budget>>

EventResolver(c) ==
    /\ event[c].at = "resolver"
    /\ resolver' = TRUE
    /\ Ends(c, TRUE)
    /\ lock' = FreeLock
    /\ UNCHANGED <<Rest, lease, addrs, routes, marker, budget>>

EventFails(c) ==
    /\ event[c].at \in {"write", "address", "route", "resolver"}
    /\ Fault
    /\ Goes(c, "rollback")
    /\ UNCHANGED <<Rest, lock, net, marker>>

EventRollsBack(c) ==
    /\ event[c].at = "rollback"
    /\ \E ok \in BOOLEAN : Clear(event[c].lease, ok)
    /\ Ends(c, FALSE)
    /\ lock' = FreeLock
    /\ UNCHANGED <<Rest, marker>>

\* A check before the lock fails.
EventRefused(c) ==
    /\ event[c].at = "lock"
    /\ Fault
    /\ Ends(c, FALSE)
    /\ UNCHANGED <<Rest, lock, net, marker>>

\* finishEvent, after the lease lock is released.
EventFinishes(c) ==
    /\ event[c].at = "finish"
    /\ marker' = IF event[c].ok THEN NoClient ELSE c
    /\ event' = [event EXCEPT ![c] = Quiet]
    /\ UNCHANGED <<Rest, lock, net, budget>>

EventKilled(c) ==
    /\ Busy(c)
    /\ Fault
    /\ event' = [event EXCEPT ![c] = Quiet]
    /\ lock' = IF lock = c THEN FreeLock ELSE lock
    /\ UNCHANGED <<Rest, net, marker>>

-----------------------------------------------------------------------------

AssociationChanges ==
    /\ changes < MaxChanges
    /\ changes' = changes + 1
    /\ assoc' \in (Networks \cup {NoNetwork}) \ {assoc}
    /\ UNCHANGED <<sup, loop, child, client, event, lock, owner, pid, net, marker,
                   faults, queryFails>>

SupervisorStep ==
    \/ ReplacePrior \/ ClearPrior \/ UnmarkPrior
    \/ Poll
    \/ Terminate \/ Kill \/ Reap \/ ClearLease \/ Unmark
    \/ Spawn \/ Own
    \/ Tick \/ ChildExited

EventStep(c) ==
    \/ EventEnters(c) \/ EventClears(c) \/ EventReplaces(c) \/ EventWrites(c)
    \/ EventAddress(c) \/ EventRoute(c) \/ EventResolver(c) \/ EventRollsBack(c)
    \/ EventFinishes(c)

ClientActs(c) ==
    \/ ClientUp(c) \/ ClientDeconfig(c) \/ ClientTerminates(c) \/ ClientCrashes(c)
    \/ \E l \in Leases : ClientBound(c, l)

Next ==
    \/ Boot \/ SupervisorStep \/ OwnFails \/ Shutdown \/ BackoffEnds
    \/ SupervisorKilled
    \/ \E c \in Clients :
          ClientActs(c) \/ EventStep(c) \/ EventFails(c) \/ EventRefused(c)
             \/ EventKilled(c)
    \/ AssociationChanges

Spec == Init /\ [][Next]_vars

\* PID 1 restarts the supervisor; processes run on, select picks among the ready
\* channels at random, and the kernel serves the waiters of the lease lock in
\* turn; while the station is associated a running udhcpc gets or renews its
\* lease again and again.
Fairness ==
    /\ WF_vars(Boot)
    /\ SF_vars(SupervisorStep)
    /\ SF_vars(ChildExited)
    /\ WF_vars(BackoffEnds)
    /\ \A c \in Clients :
          /\ SF_vars(EventStep(c))
          /\ WF_vars(ClientUp(c) \/ ClientTerminates(c))
          /\ SF_vars(\E l \in Leases : ClientBound(c, l))

FairSpec == Spec /\ Fairness

-----------------------------------------------------------------------------

Stages == {"none", "lock", "clear", "previous", "write", "address", "route",
           "resolver", "rollback", "finish"}
Handlers == [at : Stages, lease : Leases \cup {NoLease}, ok : BOOLEAN]

\* The steps of a handler that has a lease to configure.
Working == {"previous", "write", "address", "route", "resolver", "rollback"}

LoopTypes ==
    /\ sup \in {"down", "replace", "clear prior", "unmark prior", "poll", "term",
                "reap", "clear", "unmark", "unmark, failed", "spawn", "own",
                "wait"}
    /\ caller \in {"loop", "exited", "shutdown"}
    /\ known \in Networks \cup {NoNetwork}
    /\ child \in Clients \cup {NoClient}
    /\ pending \in BOOLEAN /\ recovering \in BOOLEAN
    /\ backoff \in BOOLEAN /\ wanted \in BOOLEAN
    /\ misses \in 0 .. MaxCommandFailures

ProcessTypes ==
    /\ client \in [Clients -> {"dead", "starting", "running", "term"}]
    /\ event \in [Clients -> Handlers]
    /\ \A c \in Clients : event[c].at \in Working => event[c].lease \in Leases

FileTypes ==
    /\ lock \in Clients \cup {FreeLock, SupLock}
    /\ owner \in Clients \cup {NoClient}
    /\ pid \in Clients \cup {NoClient}
    /\ lease \in Leases \cup {NoLease}
    /\ addrs \subseteq Leases /\ routes \subseteq Leases
    /\ resolver \in BOOLEAN
    /\ marker \in Clients \cup {NoClient}

CountTypes ==
    /\ assoc \in Networks \cup {NoNetwork}
    /\ faults \in 0 .. MaxFaults
    /\ queryFails \in 0 .. MaxQueryFails
    /\ changes \in 0 .. MaxChanges

\* Every variable has its type.
TypeOK == LoopTypes /\ ProcessTypes /\ FileTypes /\ CountTypes

\* Whatever fails or dies, every address and route networkd put on the interface
\* is the one lease.json records, so that the next cleanup finds it.
NetworkRecorded == addrs \cup routes \subseteq {lease}

\* Once a cleanup succeeded and until a client is started, nothing of a lease is
\* left, and no handler of a client that was stopped can bring it back.
Clean == lease = NoLease /\ addrs = {} /\ routes = {} /\ ~resolver
SettledClean ==
    (sup \in {"poll", "spawn", "wait"} /\ child = NoClient /\ ~pending) => Clean

\* There are never two live DHCP clients, across restarts of the supervisor.
OneClient == \A c, d \in Clients : Alive(c) /\ Alive(d) => c = d

\* No event of the supervisor's own running client is dropped as a stranger's.
DropStep ==
    \A c \in Clients :
        (event[c].at = "lock" /\ event'[c].at = "none" /\ faults' = faults)
            => ~(child = c /\ client[c] = "running")
NoEventDropped == [][DropStep]_vars

\* A live client is recovered for a failure of its own events only.
RecoverStep ==
    (~recovering /\ recovering' /\ child # NoClient) => marker = child
RecoversOwnFailure == [][RecoverStep]_vars

\* While the station stays associated the lease comes back, after every
\* failure, kill and replacement of the network.
LeaseReturns ==
    \A n \in Networks :
        <>[](assoc = n)
            => []<>(lease # NoLease /\ addrs = {lease} /\ routes = {lease} /\ resolver)

\* When the station stays dissociated, everything of the lease is removed.
LeaseRemoved ==
    <>[](assoc = NoNetwork)
        => <>[]Clean

-----------------------------------------------------------------------------
\* The inductive invariant behind the safety properties

Configuring == Working \cup {"clear"}

\* The lease lock is held by the handler that works on the lease, or by the
\* supervisor between fork and owner record.
LockHeld ==
    /\ \A c \in Clients : lock = c <=> event[c].at \in Configuring
    /\ lock = SupLock <=> sup = "own"

\* What the record says at each step of a handler.
RecordFollowed ==
    \A c \in Clients :
        /\ event[c].at \in {"write", "rollback"}
              => lease = event[c].lease \/ (addrs = {} /\ routes = {})
        /\ event[c].at \in {"address", "route", "resolver"}
              => lease = event[c].lease

\* The owner record names the child from its start to its end, and nobody while
\* a lease is cleared.
OwnerFollowed ==
    /\ sup \in {"poll", "wait"} => owner = child
    /\ sup \in {"term", "reap"} /\ child # NoClient => owner = child
    /\ sup \in {"clear prior", "unmark prior", "clear", "unmark",
                "unmark, failed", "spawn", "own"} => owner = NoClient
    /\ sup \notin {"poll", "wait", "term", "reap", "own"} => child = NoClient
    /\ sup = "own" => child # NoClient
    /\ sup = "spawn" => ~pending

\* Between a cleanup that succeeded and a start nobody touches the lease.
Settled ==
    \/ sup \in {"unmark prior", "unmark", "spawn", "own"}
    \/ sup \in {"poll", "wait"} /\ child = NoClient /\ ~pending
CleanKept == Settled => Clean /\ lock \notin Clients

\* A live client is the supervisor's child; one a dead supervisor left behind is
\* on record or about to die of its signal.
ClientFollowed ==
    /\ \A c \in Clients : client[c] = "starting" => ~Busy(c)
    /\ sup \notin {"down", "replace"} => \A c \in Clients : Alive(c) => c = child
    /\ sup = "own" => client[child] = "starting" \/ pid = child
    /\ sup \in {"down", "replace"} =>
          /\ OneClient
          /\ \A c \in Clients : Alive(c) =>
                /\ client[c] = "term"
                /\ \/ owner = c
                   \/ owner = NoClient /\ pid = c
                   \/ sup = "down" /\ ~Busy(c)

IInv ==
    /\ NetworkRecorded
    /\ LockHeld
    /\ RecordFollowed
    /\ OwnerFollowed
    /\ CleanKept
    /\ ClientFollowed
=============================================================================
