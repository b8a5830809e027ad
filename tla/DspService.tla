----------------------------- MODULE DspService -----------------------------
(***************************************************************************)
(* tools/dsp-interface: the process that boots the audio DSP and owns the  *)
(* SPI link to it.  One goroutine (the pump) moves frames; three others    *)
(* put commands on the transmit ring and wait for them: the startup code   *)
(* that restores the microphone mute, the server of the microphone control *)
(* socket and the WAMP session.  Each waits three seconds at most.         *)
(*                                                                         *)
(* A frame from the DSP is its kind: "boot", "event" (anything             *)
(* unsolicited) or the op whose command it answers.  PID 1 starts the      *)
(* process again whenever it ended.                                        *)
(***************************************************************************)
EXTENDS Naturals, Sequences, SequencesExt, FiniteSets

CONSTANTS
    Levels,          \* gains volumeSet may ask for
    PowerOnLevel,    \* the gain of the DSP after a reset
    MaxReceiveRetries, MaxUnrelated,      \* maxReceiveRetries, maxUnrelatedFrames
    MaxCalls,        \* bound: commands asked for over WAMP and the socket
    MaxFaults,       \* bound: failed or late transfers, lost sessions, kills
    MaxEvents        \* bound: unsolicited frames

DspAssumption ==
    /\ PowerOnLevel \notin Levels
    /\ {MaxReceiveRetries, MaxUnrelated} \subseteq Nat \ {0}
    /\ {MaxCalls, MaxFaults, MaxEvents} \subseteq Nat

Servers == {"restore", "mic", "wamp"}
Mic == {"muted", "unmuted"}
Gain(v) == [op |-> "gain", value |-> v]
Mute(v) == [op |-> "mic", value |-> v]
Commands == {Gain(v) : v \in Levels} \cup {Mute(v) : v \in Mic}
Entries == [owner : Servers, cmd : Commands, live : BOOLEAN]
NoEntry == [owner |-> "none"]
NoCommand == [op |-> "none", value |-> "none"]
PowerOn == [op \in {"gain", "mic"} |-> IF op = "gain" THEN PowerOnLevel ELSE "unmuted"]

VARIABLES
    phase,       \* where main is
    stateFile,   \* the microphone-state file, owned by mcu-interface
    marker,      \* the boot-state file exists
    dsp,         \* the settings of the DSP
    output,      \* frames the DSP has for the host
    stash,       \* frames received while waiting for another (pending)
    ring,        \* the transmit ring
    pump,        \* what the message loop is doing
    wire,        \* the ring entry being transmitted
    failures,    \* receiveFailures of the transmit in progress
    strays,      \* unrelated of the transmit in progress
    bootEvent,   \* the one-slot channel bootEvents
    micLock,     \* who holds micControlMu
    backlog,     \* requests waiting at the microphone control socket
    session,     \* the WAMP session: "none" or "joined"
    announced,   \* "ready" was published on this session
    calls,       \* invocations the router delivered
    task,        \* per dispatching goroutine: "idle", "gated", "waiting"
    request,     \* per dispatching goroutine: its command
    completion,  \* per dispatching goroutine: its completion channel
    result,      \* per dispatching goroutine: its last answer
    asked, faults, events      \* spent bounds

main == <<phase, stateFile, marker, bootEvent>>
link == <<stash, ring, pump, wire, failures, strays>>
sessions == <<session, announced, calls>>
tasks == <<task, request, completion, result>>
micServer == <<micLock, backlog>>
spent == <<asked, faults, events>>
vars == <<main, dsp, output, link, micServer, sessions, tasks, spent>>

Running == phase \in {"waiting", "settling", "opening", "restoring", "ready"}
Alive == Running \/ phase = "stopping"

Init ==
    /\ phase = "down"
    /\ stateFile \in Mic
    /\ marker = FALSE
    /\ dsp = PowerOn
    /\ output = <<>>
    /\ stash = <<>> /\ ring = <<>> /\ pump = "off" /\ wire = NoEntry
    /\ failures = 0 /\ strays = 0
    /\ bootEvent = FALSE
    /\ micLock = "free" /\ backlog = <<>>
    /\ session = "none" /\ announced = FALSE /\ calls = <<>>
    /\ task = [s \in Servers |-> "idle"]
    /\ request = [s \in Servers |-> NoCommand]
    /\ completion = [s \in Servers |-> "none"]
    /\ result = [s \in Servers |-> "none"]
    /\ asked = 0 /\ faults = 0 /\ events = 0

-----------------------------------------------------------------------------
(* What goroutines wait for. *)

Accepts(s, cmd) ==
    /\ ring' = Append(ring, [owner |-> s, cmd |-> cmd, live |-> TRUE])
    /\ task' = [task EXCEPT ![s] = "waiting"]
    /\ request' = [request EXCEPT ![s] = cmd]
    /\ completion' = [completion EXCEPT ![s] = "none"]
    /\ result' = [result EXCEPT ![s] = "none"]

Answers(s, outcome) ==
    /\ task' = [task EXCEPT ![s] = "idle"]
    /\ completion' = [completion EXCEPT ![s] = "none"]
    /\ result' = [result EXCEPT ![s] = outcome]
    /\ micLock' = IF s = "mic" THEN "free" ELSE micLock
    /\ request' = [request EXCEPT ![s] = NoCommand]

(* The completion of a message reaches the goroutine that still waits. *)
Complete(entry, outcome) ==
    completion' = IF entry.live THEN [completion EXCEPT ![entry.owner] = outcome]
                                ELSE completion

(* Nothing of the process outlives it, and what the DSP still had for it is *)
(* lost with the reset of the next boot.                                   *)
Vanish ==
    /\ phase' = "down"
    /\ stash' = <<>> /\ ring' = <<>> /\ pump' = "off" /\ wire' = NoEntry
    /\ failures' = 0 /\ strays' = 0
    /\ bootEvent' = FALSE
    /\ micLock' = "free" /\ backlog' = <<>>
    /\ session' = "none" /\ announced' = FALSE /\ calls' = <<>>
    /\ task' = [s \in Servers |-> "idle"]
    /\ completion' = [s \in Servers |-> "none"]
    /\ request' = [s \in Servers |-> NoCommand]
    /\ output' = <<>>
    /\ UNCHANGED <<stateFile, marker, dsp, result, asked, events>>

-----------------------------------------------------------------------------
(* main *)

(* clearDSPBootState before anything else; then the DSP is reset. *)
Start ==
    /\ phase = "down"
    /\ phase' = "loading"
    /\ marker' = FALSE
    /\ dsp' = PowerOn
    /\ UNCHANGED <<stateFile, bootEvent, output, link, micServer, sessions, tasks, spent>>

(* The image is streamed and the lines are handed to the message loop; the *)
(* DSP announces itself when it runs.                                      *)
BootContext ==
    /\ phase = "loading"
    /\ phase' = "waiting"
    /\ output' = <<"boot">>
    /\ pump' = "idle"
    /\ UNCHANGED <<stateFile, marker, bootEvent, dsp, stash, ring, wire, failures, strays,
                   micServer, sessions, tasks, spent>>

BootFails ==
    /\ phase = "loading"
    /\ faults < MaxFaults
    /\ faults' = faults + 1
    /\ Vanish

BootSeen ==
    /\ phase = "waiting"
    /\ bootEvent
    /\ bootEvent' = FALSE
    /\ phase' = "settling"
    /\ UNCHANGED <<stateFile, marker, dsp, output, link, micServer, sessions, tasks,
                   spent>>

(* Five seconds without a boot event: it was lost, or (a fault) it is late. *)
BootTimeout(late) ==
    /\ phase = "waiting"
    /\ late <=> (bootEvent \/ "boot" \in ToSet(output))
    /\ late => faults < MaxFaults
    /\ faults' = IF late THEN faults + 1 ELSE faults
    /\ phase' = "stopping"
    /\ UNCHANGED <<stateFile, marker, bootEvent, dsp, output, link, micServer, sessions,
                   tasks, asked, events>>

(* After the settling time the socket opens while main holds micControlMu. *)
OpenMicControl ==
    /\ phase = "settling"
    /\ micLock' = "restore"
    /\ phase' = "opening"
    /\ UNCHANGED <<stateFile, marker, bootEvent, dsp, output, link, backlog, sessions,
                   tasks, spent>>

(* The state file decides whether a mute is sent before the service is     *)
(* ready for anybody else.                                                 *)
ReadMicrophoneState ==
    /\ phase = "opening"
    /\ IF stateFile = "muted"
         THEN phase' = "restoring" /\ Accepts("restore", Mute("muted")) /\ UNCHANGED micLock
         ELSE phase' = "ready" /\ micLock' = "free" /\ UNCHANGED <<ring, tasks>>
    /\ UNCHANGED <<stateFile, marker, bootEvent, dsp, output, stash, pump, wire, failures,
                   strays, backlog, sessions, spent>>

AfterRestore_Anyway(outcome) == "ready"
AfterRestore(outcome) == IF outcome = "ok" THEN "ready" ELSE "stopping"

Restored ==
    /\ phase = "restoring"
    /\ task["restore"] = "idle"
    /\ phase' = AfterRestore(result["restore"])
    /\ micLock' = "free"
    /\ UNCHANGED <<stateFile, marker, bootEvent, dsp, output, link, backlog, sessions,
                   tasks, spent>>

(* main or the session sees that the message loop ended on an error. *)
LinkFailed ==
    /\ phase \in {"waiting", "opening", "restoring", "ready"}
    /\ pump = "dead"
    /\ phase' = "stopping"
    /\ micLock' = IF micLock = "restore" THEN "free" ELSE micLock
    /\ UNCHANGED <<stateFile, marker, bootEvent, dsp, output, link, backlog, sessions,
                   tasks, spent>>

(* main waits for its goroutines: each sees its context cancelled, and a   *)
(* transmit in progress is finished first.                                 *)
Exit ==
    /\ phase = "stopping"
    /\ pump \in {"idle", "dead"}
    /\ \A s \in Servers : task[s] = "idle"
    /\ Vanish
    /\ UNCHANGED faults

Kill ==
    /\ phase # "down"
    /\ faults < MaxFaults
    /\ faults' = faults + 1
    /\ Vanish

-----------------------------------------------------------------------------
(* The message loop: pump, Poll and transmitOnce *)

(* A message whose caller has left is dropped here and nowhere later. *)
Sendable_Any(entry) == TRUE
Sendable(entry) == entry.live

PollTakes ==
    /\ Running
    /\ pump = "idle" /\ stash = <<>> /\ ring # <<>>
    /\ ring' = Tail(ring)
    /\ IF Sendable(Head(ring))
         THEN pump' = "sending" /\ wire' = Head(ring)
         ELSE UNCHANGED <<pump, wire>>
    /\ UNCHANGED <<main, dsp, output, stash, failures, strays, micServer, sessions,
                   tasks, spent>>

TransmitOnce ==
    /\ pump = "sending"
    /\ dsp' = [dsp EXCEPT ![wire.cmd.op] = wire.cmd.value]
    /\ pump' = "awaiting"
    /\ \/ output' = Append(output, wire.cmd.op) /\ UNCHANGED faults
       \/ /\ faults < MaxFaults              \* the DSP does not answer
          /\ faults' = faults + 1
          /\ UNCHANGED output
    /\ UNCHANGED <<main, stash, ring, wire, failures, strays, micServer, sessions, tasks,
                   asked, events>>

(* Back to the next iteration of the loop, or out of it. *)
TransferEnds(outcome, next) ==
    /\ Complete(wire, outcome)
    /\ pump' = next
    /\ wire' = NoEntry
    /\ failures' = 0 /\ strays' = 0
    /\ UNCHANGED <<task, request, result>>

SendFails ==
    /\ pump = "sending"
    /\ faults < MaxFaults
    /\ faults' = faults + 1
    /\ TransferEnds("error", "dead")
    /\ UNCHANGED <<main, dsp, output, stash, ring, micServer, sessions, asked, events>>

(* waitReady gives up. *)
NotReady ==
    /\ pump = "awaiting"
    /\ output = <<>>
    /\ TransferEnds("error", "dead")
    /\ UNCHANGED <<main, dsp, output, stash, ring, micServer, sessions, spent>>

ReceiveReply ==
    /\ pump = "awaiting"
    /\ output # <<>>
    /\ output' = Tail(output)
    /\ IF Head(output) = wire.cmd.op
         THEN TransferEnds("ok", "idle") /\ UNCHANGED stash
         ELSE /\ stash' = Append(stash, Head(output))
              /\ IF strays = MaxUnrelated
                   THEN TransferEnds("error", "idle")
                   ELSE strays' = strays + 1 /\ UNCHANGED <<pump, wire, failures, tasks>>
    /\ UNCHANGED <<main, dsp, ring, micServer, sessions, spent>>

ReceiveGarbled ==
    /\ pump = "awaiting"
    /\ output # <<>>
    /\ faults < MaxFaults
    /\ faults' = faults + 1
    /\ output' = Tail(output)
    /\ IF failures + 1 = MaxReceiveRetries
         THEN TransferEnds("error", "dead")
         ELSE failures' = failures + 1 /\ UNCHANGED <<pump, wire, strays, tasks>>
    /\ UNCHANGED <<main, dsp, stash, ring, micServer, sessions, asked, events>>

(* A received frame.  The boot event is recorded here, because the session *)
(* it is then offered to may not be there to take it; what a session        *)
(* publishes of a frame changes nothing in this process.                    *)
Delivers(frame) ==
    /\ marker' = (marker \/ frame = "boot")
    /\ bootEvent' = (bootEvent \/ frame = "boot")

PollDelivers ==
    /\ Running
    /\ pump = "idle"
    /\ \/ /\ stash # <<>>
          /\ Delivers(Head(stash))
          /\ stash' = Tail(stash)
          /\ UNCHANGED output
       \/ /\ stash = <<>> /\ ring = <<>> /\ output # <<>>
          /\ Delivers(Head(output))
          /\ output' = Tail(output)
          /\ UNCHANGED stash
    /\ UNCHANGED <<phase, stateFile, dsp, ring, pump, wire, failures, strays, micServer,
                   sessions, tasks, spent>>

(* A rejected frame is discarded; any other error ends the loop. *)
PollFails ==
    /\ Running
    /\ pump = "idle"
    /\ faults < MaxFaults
    /\ faults' = faults + 1
    /\ \/ /\ stash = <<>> /\ ring = <<>> /\ output # <<>>
          /\ output' = Tail(output)
          /\ UNCHANGED pump
       \/ pump' = "dead" /\ UNCHANGED output
    /\ UNCHANGED <<main, dsp, stash, ring, wire, failures, strays, micServer, sessions,
                   tasks, asked, events>>

DspReports ==
    /\ Running
    /\ events < MaxEvents
    /\ events' = events + 1
    /\ output' = Append(output, "event")
    /\ UNCHANGED <<main, dsp, link, micServer, sessions, tasks, asked, faults>>

-----------------------------------------------------------------------------
(* The WAMP session and the microphone control socket *)

(* Registration and subscription; what the router sent meanwhile is kept.  *)
Connect ==
    /\ Running
    /\ session = "none"
    /\ task["wamp"] = "idle"
    /\ session' = "joined"
    /\ UNCHANGED <<main, dsp, output, link, micServer, announced, calls, tasks, spent>>

SessionLost ==
    /\ session # "none"
    /\ faults < MaxFaults
    /\ faults' = faults + 1
    /\ session' = "none" /\ announced' = FALSE /\ calls' = <<>>
    /\ UNCHANGED <<main, dsp, output, link, micServer, tasks, asked, events>>

RouterCalls(v) ==
    /\ Running
    /\ session # "none"
    /\ asked < MaxCalls
    /\ asked' = asked + 1
    /\ calls' = Append(calls, Gain(v))
    /\ UNCHANGED <<main, dsp, output, link, micServer, session, announced, tasks, faults,
                   events>>

ServeIdle == Running /\ session = "joined" /\ task["wamp"] = "idle"

(* Whoever asks the DSP for something waits for this message. *)
Announce ==
    /\ ServeIdle
    /\ phase = "ready"
    /\ ~announced
    /\ announced' = TRUE
    /\ UNCHANGED <<main, dsp, output, link, micServer, session, calls, tasks, spent>>

(* One invocation at a time: the session does nothing else until it is     *)
(* answered, and dispatch waits for the service to be ready first.         *)
HandleInvocation ==
    /\ ServeIdle
    /\ calls # <<>>
    /\ calls' = Tail(calls)
    /\ task' = [task EXCEPT !["wamp"] = "gated"]
    /\ request' = [request EXCEPT !["wamp"] = Head(calls)]
    /\ UNCHANGED <<main, dsp, output, link, micServer, session, announced, completion,
                   result, spent>>

SocketOpen == phase \in {"opening", "restoring", "ready"}

MicRequest(v) ==
    /\ SocketOpen
    /\ asked < MaxCalls
    /\ asked' = asked + 1
    /\ backlog' = Append(backlog, v)
    /\ UNCHANGED <<main, dsp, output, link, micLock, sessions, tasks, faults, events>>

HandleMicControl ==
    /\ SocketOpen
    /\ backlog # <<>>
    /\ task["mic"] = "idle"
    /\ micLock = "free"
    /\ micLock' = "mic"
    /\ backlog' = Tail(backlog)
    /\ task' = [task EXCEPT !["mic"] = "gated"]
    /\ request' = [request EXCEPT !["mic"] = Mute(Head(backlog))]
    /\ UNCHANGED <<main, dsp, output, link, sessions, completion, result, spent>>

Dispatch(s) ==
    /\ task[s] = "gated"
    /\ phase = "ready"
    /\ Accepts(s, request[s])
    /\ UNCHANGED <<main, dsp, output, stash, pump, wire, failures, strays, micServer,
                   sessions, spent>>

(* The outcome of the transmit. *)
DispatchEnds(s) ==
    /\ task[s] = "waiting"
    /\ completion[s] # "none"
    /\ Answers(s, completion[s])
    /\ UNCHANGED <<main, dsp, output, link, backlog, sessions, spent>>

(* The caller gives up: the process stops, or three seconds have passed, a *)
(* fault of a busy or slow DSP.  The message keeps its place on the ring or *)
(* on the wire.                                                            *)
Cancellable_WhileSending(s) == task[s] = "waiting"
Cancellable(s) == task[s] \in {"gated", "waiting"}

DispatchExpires(s) ==
    /\ \/ Cancellable(s) /\ phase = "stopping" /\ UNCHANGED faults
       \/ task[s] = "waiting" /\ Running /\ faults < MaxFaults /\ faults' = faults + 1
    /\ Answers(s, "error")
    /\ LET Left(e) == IF e.owner = s THEN [e EXCEPT !.live = FALSE] ELSE e IN
       /\ ring' = [i \in DOMAIN ring |-> Left(ring[i])]
       /\ wire' = IF wire = NoEntry THEN wire ELSE Left(wire)
    /\ UNCHANGED <<main, dsp, output, stash, pump, failures, strays, backlog, sessions,
                   asked, events>>

(* mcu-interface rewrites the file when the user mutes or unmutes: at any  *)
(* time, of which only the moment before it is read makes a difference.    *)
McuWrites(v) ==
    /\ phase = "opening" /\ v # stateFile
    /\ asked < MaxCalls
    /\ asked' = asked + 1
    /\ stateFile' = v
    /\ UNCHANGED <<phase, marker, bootEvent, dsp, output, link, micServer, sessions,
                   tasks, faults, events>>

-----------------------------------------------------------------------------
Main ==
    Start \/ BootContext \/ BootSeen \/ BootTimeout(FALSE) \/ OpenMicControl
    \/ ReadMicrophoneState \/ Restored \/ LinkFailed \/ Exit

Pump ==
    PollTakes \/ TransmitOnce \/ NotReady \/ ReceiveReply \/ PollDelivers

Serve == Connect \/ Announce \/ HandleInvocation

Faulty ==
    BootFails \/ BootTimeout(TRUE) \/ Kill \/ SendFails \/ ReceiveGarbled \/ PollFails \/ SessionLost

Asked ==
    \/ DspReports
    \/ \E v \in Levels : RouterCalls(v)
    \/ \E v \in Mic : MicRequest(v) \/ McuWrites(v)

Dispatching(s) == Dispatch(s) \/ DispatchEnds(s) \/ DispatchExpires(s)

Next ==
    \/ Main \/ Pump \/ Serve \/ HandleMicControl
    \/ \E s \in Servers : Dispatching(s)
    \/ Faulty \/ Asked

Spec == Init /\ [][Next]_vars

(* A goroutine that waits is answered, and one of a process that stops     *)
(* leaves.                                                                 *)
GoesOn(s) == Dispatch(s) \/ DispatchEnds(s) \/ (phase = "stopping" /\ DispatchExpires(s))

(* Every goroutine that can go on does, and PID 1 restarts the process.    *)
Fairness ==
    /\ WF_vars(Main) /\ WF_vars(Pump) /\ WF_vars(Serve) /\ WF_vars(HandleMicControl)
    /\ \A s \in Servers : WF_vars(GoesOn(s))

FairSpec == Spec /\ Fairness

-----------------------------------------------------------------------------
TypeOK ==
    /\ phase \in {"down", "loading", "waiting", "settling", "opening", "restoring", "ready",
                  "stopping"}
    /\ stateFile \in Mic
    /\ {marker, bootEvent, announced} \subseteq BOOLEAN
    /\ dsp \in [{"gain", "mic"} -> Levels \cup {PowerOnLevel} \cup Mic]
    /\ {output, stash} \subseteq Seq({"boot", "event", "gain", "mic"})
    /\ ring \in Seq(Entries)
    /\ wire \in Entries \cup {NoEntry}
    /\ pump \in {"off", "idle", "sending", "awaiting", "dead"}
    /\ (pump \in {"sending", "awaiting"}) <=> (wire # NoEntry)
    /\ failures \in 0 .. MaxReceiveRetries - 1 /\ strays \in 0 .. MaxUnrelated
    /\ micLock \in {"free", "restore", "mic"}
    /\ backlog \in Seq(Mic) /\ calls \in Seq(Commands)
    /\ session \in {"none", "joined"}
    /\ task \in [Servers -> {"idle", "gated", "waiting"}]
    /\ request \in [Servers -> Commands \cup {NoCommand}]
    /\ completion \in [Servers -> {"none", "ok", "error"}]
    /\ result \in [Servers -> {"none", "ok", "error"}]

(* The places on a ring of the commands that somebody still waits for, and *)
(* those places in their order.                                            *)
Live(r) == {i \in DOMAIN r : r[i].live}
Enumerates(f, S) ==
    /\ \A i, j \in DOMAIN f : i < j => f[i] < f[j]
    /\ \A x \in S : \E i \in DOMAIN f : f[i] = x
Enumerations(r) ==
    {f \in UNION {[1 .. n -> Live(r)] : n \in 0 .. Len(r)} : Enumerates(f, Live(r))}
Places(r) == CHOOSE f \in Enumerations(r) : TRUE

(* The commands still to be executed are the one on its way to the DSP and *)
(* those on the ring that somebody still waits for.                        *)
Entry(e) == [owner |-> e.owner, cmd |-> e.cmd, open |-> e.live]
Awaited(r) == [k \in DOMAIN Places(r) |-> Entry(r[Places(r)[k]])]
Pending == (IF pump = "sending" THEN <<Entry(wire)>> ELSE <<>>) \o Awaited(ring)

(* The command s waits for is still to be executed. *)
InLine(s) ==
    \/ pump = "sending" /\ wire.live /\ wire.owner = s
    \/ \E i \in Live(ring) : ring[i].owner = s

Stage(s) ==
    IF task[s] # "waiting" THEN "idle"
    ELSE IF completion[s] = "error" THEN "failed"
    ELSE IF InLine(s) THEN "accepted" ELSE "executed"

Promise == INSTANCE CommandServer WITH
    Callers <- Servers,
    answer <- result,
    up <- phase \notin {"down", "loading"},
    cell <- dsp,
    todo <- Pending,
    stage <- [s \in Servers |-> Stage(s)]

(* The link, its ring and its timeouts keep the promise of CommandServer:  *)
(* commands take effect in order and at most once, OK is answered only for *)
(* an executed one, and of those given up only the one that was being sent *)
(* can still take effect.                                                  *)
KeepsPromise == Promise!Spec

(* dispatch opens to others only when the microphone is as the state file  *)
(* asked when main read it: an unanswered or failed mute stops the service. *)
MutedBeforeService ==
    [][phase = "restoring" /\ phase' = "ready" => dsp["mic"] = "muted"]_vars

(* An invocation is answered although the session handles one at a time    *)
(* and dispatch blocks it until the service is ready.                      *)
CallsAnswered == calls # <<>> ~> calls = <<>> /\ task["wamp"] = "idle"
=============================================================================
