---------------------------- MODULE SourceSession ----------------------------
(***************************************************************************)
(* tools/source-manager: the registry of audio sources and the WAMP        *)
(* session that serves it.  One goroutine reads the router's frames; it    *)
(* hands call replies to whoever waits for them and answers the            *)
(* invocations itself.  Starting a source stops the one it displaces, and  *)
(* a media verb goes to the active one, both by a call of at most five     *)
(* seconds.                                                                *)
(***************************************************************************)
EXTENDS Naturals, Sequences, FiniteSets

CONSTANTS
    Sources,
    Seed,           \* registered at startup by a flag
    MaxInvocations, \* bound: invocations the router delivers
    MaxLost         \* bound: sessions lost and calls no peer answers

None == "none"
Verbs == {"pause", "resume", "stop"}

VARIABLES
    registered, active,  \* the registry
    volumes,             \* sources with a volume of their own
    session,             \* "down", "registering", "joined", "stopped"
    inbox,               \* frames of the router, not read yet
    serving,             \* the invocation being answered, or NoCall
    pending,             \* ids of calls somebody waits for
    next,                \* the request id last used
    waiter,              \* what the waiting call got: "none", "ok" or "error"
    routed,              \* calls the router took to a peer
    answers,             \* of invocations: "yield" and "error"
    shown,               \* the last music.stateChanged
    invoked, losses

registry == <<registered, active, volumes>>
conn == <<session, inbox, pending, next, waiter, routed>>
svars == <<registry, conn, serving, answers, shown, invoked, losses>>

NoCall == [proc |-> None, uri |-> None]
Invocation(proc, uri) == [kind |-> "invocation", id |-> 0, proc |-> proc, uri |-> uri]
Reply(id, outcome) == [kind |-> "reply", id |-> id, proc |-> outcome, uri |-> None]

Init ==
    /\ registered = Seed /\ active = None /\ volumes = {}
    /\ session = "down"
    /\ inbox = <<>> /\ pending = {} /\ next = 0 /\ waiter = "none" /\ routed = {}
    /\ serving = NoCall
    /\ answers = <<>> /\ shown = None
    /\ invoked = 0 /\ losses = 0

-----------------------------------------------------------------------------
(* The registry *)

(* Whom a started source displaces. *)
Displaced(uri) == IF active \in {None, uri} THEN None ELSE active

(* An answer, and the event that goes with it, while there is a session. *)
Answer(outcome, event) ==
    /\ answers' = IF session = "joined" THEN Append(answers, outcome) ELSE answers
    /\ shown' = IF session = "joined" /\ event # None THEN event ELSE shown
    /\ serving' = NoCall

StateOf(verb) == CASE verb = "pause" -> "paused"
                   [] verb = "stop" -> "stopped"
                   [] OTHER -> "playing"

-----------------------------------------------------------------------------
(* The reader goroutine *)

Reading == session = "joined" /\ serving = NoCall /\ inbox # <<>>
Frame == Head(inbox)
Takes(kind) == Reading /\ Frame.kind = kind /\ inbox' = Tail(inbox)

(* deliver: a reply nobody waits for is dropped. *)
Deliver ==
    /\ Takes("reply")
    /\ IF Frame.id \in pending
         THEN waiter' = Frame.proc /\ pending' = pending \ {Frame.id}
         ELSE UNCHANGED <<waiter, pending>>
    /\ UNCHANGED <<registry, session, next, routed, serving, answers, shown, invoked, losses>>

(* A call of the service's own: its id is registered before it is written. *)
Calls(source, verb) ==
    /\ next' = next + 1
    /\ pending' = pending \cup {next + 1}
    /\ waiter' = "none"
    /\ routed' = routed \cup {next + 1}
    /\ serving' = [proc |-> verb, uri |-> source]
    /\ UNCHANGED <<answers, shown>>

NoCalls == UNCHANGED <<pending, next, waiter, routed>>

Register ==
    /\ Takes("invocation") /\ Frame.proc = "register"
    /\ registered' = registered \cup {Frame.uri}
    /\ Answer("yield", None) /\ NoCalls
    /\ UNCHANGED <<active, volumes, session, invoked, losses>>

Start ==
    /\ Takes("invocation") /\ Frame.proc = "start"
    /\ IF Frame.uri \notin registered THEN Answer("error", None) /\ NoCalls /\ UNCHANGED active
       ELSE /\ active' = Frame.uri
            /\ IF Displaced(Frame.uri) = None THEN Answer("yield", "playing") /\ NoCalls
                                              ELSE Calls(active, "displace")
    /\ UNCHANGED <<registered, volumes, session, invoked, losses>>

Forward(verb) ==
    /\ Takes("invocation") /\ Frame.proc = verb
    /\ IF active = None THEN Answer("error", None) /\ NoCalls ELSE Calls(active, verb)
    /\ UNCHANGED <<registry, session, invoked, losses>>

Flush ==
    /\ Takes("invocation") /\ Frame.proc = "flush"
    /\ registered' = {} /\ active' = None
    /\ Answer("yield", None) /\ NoCalls
    /\ UNCHANGED <<volumes, session, invoked, losses>>

(* The volume of the named source, or of the active one. *)
SetVolume ==
    /\ Takes("invocation") /\ Frame.proc = "volumeSet"
    /\ LET uri == IF Frame.uri = None THEN active ELSE Frame.uri
       IN IF uri \in registered THEN volumes' = volumes \cup {uri} /\ Answer("yield", None)
                                ELSE Answer("error", None) /\ UNCHANGED volumes
    /\ NoCalls
    /\ UNCHANGED <<registered, active, session, invoked, losses>>

Shutdown ==
    /\ Takes("invocation") /\ Frame.proc = "shutdown"
    /\ session' = "stopped"
    /\ Answer("yield", None) /\ NoCalls
    /\ UNCHANGED <<registry, invoked, losses>>

(* The call returns to the handler that made it.  Stopping a displaced     *)
(* source is best effort; a verb that failed is an error of its caller.    *)
Returns(ok) ==
    IF serving.proc = "displace" THEN Answer("yield", "playing")
    ELSE IF ok THEN Answer("yield", StateOf(serving.proc))
    ELSE Answer("error", None)

CallReturns ==
    /\ serving # NoCall
    /\ waiter # "none"
    /\ Returns(waiter = "ok")
    /\ UNCHANGED <<registry, conn, invoked, losses>>

CallExpires ==
    /\ serving # NoCall
    /\ waiter = "none"
    /\ pending' = pending \ {next}
    /\ Returns(FALSE)
    /\ UNCHANGED <<registry, session, inbox, next, waiter, routed, invoked, losses>>

-----------------------------------------------------------------------------
(* The router, the peers and the session *)

Invoked(proc, uri) ==
    /\ session \in {"registering", "joined"}
    /\ invoked < MaxInvocations
    /\ invoked' = invoked + 1
    /\ inbox' = Append(inbox, Invocation(proc, uri))
    /\ UNCHANGED <<registry, session, pending, next, waiter, routed, serving, answers, shown, losses>>

PeerAnswers(id, outcome) ==
    /\ session = "joined"
    /\ id \in routed
    /\ routed' = routed \ {id}
    /\ inbox' = Append(inbox, Reply(id, outcome))
    /\ UNCHANGED <<registry, session, pending, next, waiter, serving, answers, shown, invoked, losses>>

Joins ==
    /\ session = "down" /\ serving = NoCall
    /\ session' = "registering"
    /\ inbox' = <<>> /\ pending' = {} /\ next' = 0 /\ routed' = {}
    /\ UNCHANGED <<registry, waiter, serving, answers, shown, invoked, losses>>

(* The procedures are registered one by one, and the router may call those *)
(* it has already: what arrives before a registration's reply is dropped.  *)
Drops ==
    /\ session = "registering" /\ inbox # <<>>
    /\ inbox' = Tail(inbox)
    /\ UNCHANGED <<registry, session, pending, next, waiter, routed, serving, answers, shown,
                   invoked, losses>>

(* The last reply was read; what came behind it is still to be read. *)
Registered ==
    /\ session = "registering"
    /\ session' = "joined"
    /\ UNCHANGED <<registry, inbox, pending, next, waiter, routed, serving, answers, shown,
                   invoked, losses>>

SessionLost ==
    /\ session \in {"registering", "joined"}
    /\ losses < MaxLost
    /\ losses' = losses + 1
    /\ session' = "down"
    /\ inbox' = <<>> /\ routed' = {}
    /\ UNCHANGED <<registry, pending, next, waiter, serving, answers, shown, invoked>>

Reads ==
    \/ Deliver \/ Register \/ Start \/ Flush \/ SetVolume \/ Shutdown
    \/ \E verb \in Verbs : Forward(verb)

Next ==
    \/ Reads \/ CallReturns \/ CallExpires \/ Joins \/ Drops \/ Registered \/ SessionLost
    \/ \E proc \in Verbs \cup {"flush", "volumeSet", "shutdown"} : Invoked(proc, None)
    \/ \E proc \in {"register", "start", "volumeSet"}, s \in Sources : Invoked(proc, s)
    \/ \E id \in routed, outcome \in {"ok", "error"} : PeerAnswers(id, outcome)

Spec == Init /\ [][Next]_svars

-----------------------------------------------------------------------------
TypeOK ==
    /\ registered \subseteq Sources /\ volumes \subseteq Sources
    /\ active \in Sources \cup {None}
    /\ session \in {"down", "registering", "joined", "stopped"}
    /\ waiter \in {"none", "ok", "error"}

(* A call's reply reaches the handler that waits for it: no call expires   *)
(* with its answer already received (the comments of deliver and run).     *)
RepliesDelivered ==
    [][CallExpires => Reply(next, "ok") \notin {inbox[i] : i \in DOMAIN inbox}]_svars
=============================================================================
