----------------------------- MODULE Microphone -----------------------------
(***************************************************************************)
(* The microphone mute: microphoneMuteController of tools/mcu-interface,   *)
(* the socket it drives the DSP service through, and the voice feedback a  *)
(* mute ends.  Four goroutines change the mute, one at a time: the button, *)
(* WAMP calls, the event of a new DSP session and the reconciling worker.  *)
(* A mute is written to the state file before the DSP is asked, an unmute  *)
(* after it agreed; the mute light is cleared before an unmute and lit     *)
(* after a mute.  Requests wait at the socket, and one the client gave up  *)
(* after five seconds is still served.  dsp-interface is CommandServer, its*)
(* callers the restore at its start and the server of the socket.          *)
(***************************************************************************)
EXTENDS Naturals, Sequences, FiniteSets

CONSTANTS
    MaxPresses,      \* bound: mutes and unmutes asked for
    MaxMicFaults,    \* bound: failed writes and requests, late answers, restarts
    MaxReports, MaxLightFaults,     \* bounds of VoiceFeedback
    PowerOnGain      \* the gain of the DSP, which stays out of this

VARIABLES
    file,            \* microphone-state says muted
    light,           \* the ring shows the mute light
    muted, unknown,  \* the controller's state; desired is their disjunction
    op,              \* the operation that holds the mutex
    reconcile,       \* the worker has been woken
    retrying,        \* the worker waits for its timer
    notice,          \* the voice feedback has to be told
    served,          \* the socket of dsp-interface: "closed", "booted", "restoring", "open"
    requests,        \* requests in it
    dispatched,      \* the one being dispatched, or NoRequest
    outcome,         \* what the open request of mcu-interface came to
    up, cell, todo, stage, answer,                            \* CommandServer
    state, report, step, cleanup, glow, ducked, reports, lightFaults,  \* VoiceFeedback
    presses, micFaults

mic == <<file, light, muted, unknown, op, reconcile, retrying, notice>>
socket == <<served, requests, dispatched, outcome>>
dsp == <<up, cell, todo, stage, answer>>
voice == <<state, report, step, cleanup, glow, ducked, reports, lightFaults>>
mspent == <<presses, micFaults>>
mvars == <<mic, socket, dsp, voice, mspent>>

NoOp == [want |-> FALSE, by |-> "none", at |-> "none"]
NoRequest == [want |-> FALSE, open |-> FALSE]
Callers == {"button", "call", "event", "worker"}
Mute(on) == [op |-> "mic", value |-> on]

Blocked == muted \/ unknown

PowerOn == [o \in {"gain", "mic"} |-> IF o = "gain" THEN PowerOnGain ELSE FALSE]

Dsp == INSTANCE CommandServer WITH
    Callers <- {"restore", "mic", "session"},
    Commands <- {Mute(on) : on \in BOOLEAN}

Voice == INSTANCE VoiceFeedback WITH
    blocked <- Blocked,
    mutelight <- light,
    micFree <- (op = NoOp)

OwnInit ==
    /\ file \in BOOLEAN
    /\ light = FALSE
    /\ muted = file /\ unknown = file
    /\ op = NoOp
    /\ reconcile = file /\ retrying = FALSE /\ notice = FALSE
    /\ served = "closed" /\ requests = <<>> /\ dispatched = NoRequest /\ outcome = "none"
    /\ Voice!VoiceInit
    /\ presses = 0 /\ micFaults = 0

DspInit == Dsp!Init
Init == OwnInit /\ DspInit

Fault == micFaults < MaxMicFaults /\ micFaults' = micFaults + 1

-----------------------------------------------------------------------------
(* setLocked, step by step, with the controller's mutex held *)

At(place) == op.at = place
GoTo(place) == op' = [op EXCEPT !.at = place]

FirstStep_LightLast(want) == IF want THEN "record" ELSE "send"
FirstStep(want) == IF want THEN "record" ELSE "clear"

Takes(want, by) ==
    /\ op = NoOp
    /\ op' = [want |-> want, by |-> by, at |-> FirstStep(want)]
    /\ unknown' = TRUE

(* The button toggles, a call says what it wants. *)
Press(want, by) ==
    /\ presses < MaxPresses
    /\ presses' = presses + 1
    /\ by = "button" => want = ~muted
    /\ Takes(want, by)
    /\ UNCHANGED <<file, light, muted, reconcile, retrying, notice, socket, dsp, voice, micFaults>>

(* Reconcile mutes, unless the microphone is known to be open.  The worker *)
(* was woken or its five seconds are over; an event says that a session of *)
(* dsp-interface began.                                                    *)
Reconcile(by) ==
    /\ IF by = "worker"
         THEN /\ reconcile \/ retrying
              /\ IF retrying THEN retrying' = FALSE /\ UNCHANGED reconcile
                             ELSE reconcile' = FALSE /\ UNCHANGED retrying
              /\ UNCHANGED micFaults
         ELSE served = "open" /\ Fault /\ UNCHANGED <<reconcile, retrying>>
    /\ IF Blocked THEN Takes(TRUE, by) ELSE op = NoOp /\ UNCHANGED <<op, unknown>>
    /\ UNCHANGED <<file, light, muted, notice, socket, dsp, voice, presses>>

(* The mutex is released; a failure is left to the worker, which retries. *)
Ends_Forgets(failed) ==
    /\ op' = NoOp
    /\ notice' = (notice \/ muted' \/ unknown')
    /\ UNCHANGED <<reconcile, retrying>>

Ends(failed) ==
    /\ op' = NoOp
    /\ notice' = (notice \/ muted' \/ unknown')
    /\ IF failed /\ op.by = "worker" THEN retrying' = TRUE /\ UNCHANGED reconcile
       ELSE IF failed THEN reconcile' = TRUE /\ UNCHANGED retrying
       ELSE UNCHANGED <<reconcile, retrying>>

(* Whatever animation runs is stopped first, that of the voice included. *)
OtherVoice == <<state, report, step, cleanup, ducked, reports, lightFaults>>

ClearLight ==
    /\ At("clear")
    /\ glow' = FALSE
    /\ \/ /\ light' = FALSE /\ GoTo("send")
          /\ UNCHANGED <<muted, unknown, reconcile, retrying, notice, micFaults>>
       \/ Fault /\ light' \in {light, FALSE} /\ UNCHANGED <<muted, unknown>> /\ Ends(TRUE)
    /\ UNCHANGED <<file, socket, dsp, OtherVoice, presses>>

RecordMute ==
    /\ At("record")
    /\ \/ /\ file' = TRUE /\ GoTo("send")
          /\ UNCHANGED <<muted, unknown, reconcile, retrying, notice, micFaults>>
       \/ Fault /\ UNCHANGED <<file, muted, unknown>> /\ Ends(TRUE)
    /\ UNCHANGED <<light, socket, dsp, voice, presses>>

Undoing == op.at \in {"restore", "answer again", "confirm again"}

(* An unmute that failed is undone at once; anything else ends here. *)
StepFails ==
    IF ~op.want /\ ~Undoing
      THEN GoTo("restore") /\ UNCHANGED <<muted, unknown, reconcile, retrying, notice>>
      ELSE UNCHANGED <<muted, unknown>> /\ Ends(TRUE)

Send ==
    /\ At("send") \/ At("restore")
    /\ IF served # "closed"
         THEN /\ requests' = Append(requests, [want |-> op.want \/ Undoing, open |-> TRUE])
              /\ GoTo(IF At("send") THEN "answer" ELSE "answer again")
              /\ UNCHANGED <<muted, unknown, reconcile, retrying, notice>>
         ELSE StepFails /\ UNCHANGED requests
    /\ UNCHANGED <<file, light, served, dispatched, outcome, dsp, voice, mspent>>

GotOk ==
    /\ At("answer") \/ At("answer again")
    /\ outcome = "ok"
    /\ outcome' = "none"
    /\ GoTo(IF At("answer") THEN "confirm" ELSE "confirm again")
    /\ UNCHANGED <<file, light, muted, unknown, reconcile, retrying, notice, served, requests,
                   dispatched, dsp, voice, mspent>>

GotError ==
    /\ At("answer") \/ At("answer again")
    /\ outcome = "error"
    /\ outcome' = "none"
    /\ StepFails
    /\ UNCHANGED <<file, light, served, requests, dispatched, dsp, voice, mspent>>

GivenUp(r) == [r EXCEPT !.open = FALSE]

AbandonRequest ==
    /\ requests' = [i \in DOMAIN requests |-> GivenUp(requests[i])]
    /\ dispatched' = GivenUp(dispatched)

Expires ==
    /\ At("answer") \/ At("answer again")
    /\ outcome = "none"
    /\ Fault
    /\ AbandonRequest
    /\ StepFails
    /\ UNCHANGED <<file, light, served, outcome, dsp, voice, presses>>

(* The DSP agreed: the file, the controller's state and then the light. *)
Confirm ==
    /\ At("confirm") \/ At("confirm again")
    /\ LET on == op.want \/ Undoing IN
       /\ file' = on /\ muted' = on /\ unknown' = FALSE
       /\ \/ light' = on /\ glow' = FALSE /\ Ends(Undoing) /\ UNCHANGED micFaults
          \/ Fault /\ light' \in {light, FALSE} /\ glow' \in {glow, FALSE} /\ Ends(TRUE)
    /\ UNCHANGED <<socket, dsp, OtherVoice, presses>>

ConfirmFails ==
    /\ At("confirm") \/ At("confirm again")
    /\ Fault
    /\ StepFails
    /\ UNCHANGED <<file, light, socket, dsp, voice, presses>>

(* onVoiceBlocked, after the mutex was released *)
Notified ==
    /\ IF Blocked THEN Voice!Reset
                  ELSE notice /\ UNCHANGED voice
    /\ notice' = FALSE
    /\ UNCHANGED <<file, light, muted, unknown, op, reconcile, retrying, socket, dsp, mspent>>

FeedbackStep ==
    /\ Voice!Handles \/ Voice!Ended \/ Voice!Retried
    /\ UNCHANGED <<mic, socket, dsp, mspent>>

Talks ==
    \/ FeedbackStep
    \/ /\ \E s \in Voice!States \cup {""} : Voice!Reported(s)
       /\ UNCHANGED <<mic, socket, dsp, mspent>>

-----------------------------------------------------------------------------
(* dsp-interface.  The socket accepts requests once the DSP booted, and    *)
(* serves them once the mute found in the file has been restored.          *)

DspResets == cell # PowerOn /\ Dsp!Reset /\ UNCHANGED <<mic, socket, voice, mspent>>

DspBoots ==
    /\ Dsp!Boot
    /\ served' = "booted"
    /\ UNCHANGED <<mic, requests, dispatched, outcome, voice, mspent>>

RestoreReads ==
    /\ served = "booted"
    /\ IF file THEN Dsp!Accept("restore", Mute(TRUE)) /\ served' = "restoring"
               ELSE served' = "open" /\ UNCHANGED dsp
    /\ UNCHANGED <<mic, requests, dispatched, outcome, voice, mspent>>

Restored ==
    /\ served = "restoring"
    /\ Dsp!AnswerOk("restore")
    /\ served' = "open"
    /\ UNCHANGED <<mic, requests, dispatched, outcome, voice, mspent>>

Serve ==
    /\ served = "open"
    /\ requests # <<>>
    /\ dispatched = NoRequest /\ stage["mic"] = "idle"
    /\ Dsp!Accept("mic", Mute(Head(requests).want))
    /\ dispatched' = Head(requests)
    /\ requests' = Tail(requests)
    /\ UNCHANGED <<mic, served, outcome, voice, mspent>>

Executes == Dsp!Execute /\ UNCHANGED <<mic, socket, voice, mspent>>

Answered(result) ==
    /\ dispatched' = NoRequest
    /\ outcome' = IF dispatched.open THEN result ELSE outcome
    /\ UNCHANGED <<mic, served, requests, voice, presses>>

ServeOk == Dsp!AnswerOk("mic") /\ Answered("ok") /\ UNCHANGED micFaults
ServeFails == Dsp!AnswerError("mic") /\ Answered("error") /\ Fault

DspCrashes ==
    /\ Dsp!Crash
    /\ Fault
    /\ served' = "closed" /\ requests' = <<>> /\ dispatched' = NoRequest
    /\ outcome' = IF outcome = "none" /\ (At("answer") \/ At("answer again")) THEN "error" ELSE outcome
    /\ UNCHANGED <<mic, voice, presses>>

(* mcu-interface is killed and starts from the file.  Its first animation, *)
(* or the reconciled mute, replaces what the ring showed for the voice,    *)
(* and the first volume it applies what the music was lowered to.          *)
McuRestarts ==
    /\ Fault
    /\ light' = (light /\ file)
    /\ muted' = file /\ unknown' = file /\ op' = NoOp
    /\ reconcile' = file /\ retrying' = FALSE /\ notice' = FALSE
    /\ AbandonRequest
    /\ state' = "" /\ step' = "none" /\ cleanup' = FALSE /\ glow' = FALSE /\ ducked' = FALSE
    /\ outcome' = "none" /\ report' = ""
    /\ UNCHANGED <<file, served, dsp, reports, lightFaults, presses>>

-----------------------------------------------------------------------------
Works == ClearLight \/ RecordMute \/ Send \/ GotOk \/ GotError \/ Confirm

DspWorks ==
    DspResets \/ DspBoots \/ RestoreReads \/ Restored \/ Serve \/ Executes \/ ServeOk

Next ==
    \/ \E want \in BOOLEAN, by \in {"button", "call"} : Press(want, by)
    \/ \E by \in {"event", "worker"} : Reconcile(by)
    \/ Works \/ Expires \/ ConfirmFails \/ Notified \/ Talks
    \/ DspWorks \/ ServeFails
    \/ DspCrashes \/ McuRestarts

Spec == Init /\ [][Next]_mvars

(* Goroutines run, timers and leases expire, the DSP executes what it      *)
(* accepted and PID 1 starts the services again.  The mutex is granted to  *)
(* the worker in the end.                                                  *)
Fairness ==
    /\ WF_mvars(Works) /\ WF_mvars(Notified) /\ SF_mvars(Reconcile("worker"))
    /\ WF_mvars(FeedbackStep)
    /\ WF_mvars(DspWorks)

FairSpec == Spec /\ Fairness

-----------------------------------------------------------------------------
Requests == [want : BOOLEAN, open : BOOLEAN]
Places == {"none", "clear", "record", "send", "answer", "confirm",
           "restore", "answer again", "confirm again"}
Operations == [want : BOOLEAN, by : Callers \cup {"none"}, at : Places]
Queued == [owner : {"restore", "mic"}, cmd : {Mute(on) : on \in BOOLEAN}, open : BOOLEAN]

TypeOK ==
    /\ {file, light, muted, unknown, reconcile, retrying, notice, up} \subseteq BOOLEAN
    /\ op \in Operations
    /\ served \in {"closed", "booted", "restoring", "open"}
    /\ requests \in Seq(Requests) /\ dispatched \in Requests
    /\ outcome \in {"none", "ok", "error"}
    /\ DOMAIN cell = {"gain", "mic"} /\ {cell["mic"]} \subseteq BOOLEAN
    /\ todo \in Seq(Queued)
    /\ DOMAIN stage = {"restore", "mic", "session"}
    /\ Voice!VoiceTypeOK

(* While the mute light is lit, the DSP service takes requests and no mute *)
(* is being carried out or retried, the DSP has the microphone muted:      *)
(* through requests that were given up and are served later, unmutes that  *)
(* are undone, and restarts of both services.                              *)
LightTruth ==
    light /\ served = "open" /\ op = NoOp /\ ~reconcile /\ ~retrying => cell["mic"]

(* A mute that was asked for, or found in the file, is carried out: in the *)
(* end the microphone is known to be open, or it is muted and shown so.    *)
MuteArrives == <>[](Blocked => ~unknown /\ light /\ cell["mic"])

FeedbackEnds == Voice!FeedbackEnds

-----------------------------------------------------------------------------
(* The invariant behind LightTruth.                                        *)

(* The server of the socket serves one request at a time: its command is   *)
(* the last in the queue, behind at most one that was given up while it    *)
(* was being sent.                                                         *)
ServesOne ==
    /\ \A i \in 1 .. Len(todo) : todo[i].owner = "mic"
    /\ stage["mic"] \in {"idle", "accepted", "executed"}
    /\ stage["mic"] = "idle" =>
          Len(todo) <= 1 /\ \A i \in 1 .. Len(todo) : ~todo[i].open
    /\ stage["mic"] = "accepted" =>
          /\ Len(todo) \in 1..2
          /\ \A i \in 1 .. Len(todo) : todo[i].open <=> i = Len(todo)
          /\ todo[Len(todo)].cmd = Mute(dispatched.want)
    /\ stage["mic"] = "executed" => todo = <<>> /\ cell["mic"] = dispatched.want

(* Until the socket serves, nothing but the restored mute reaches the DSP. *)
RestoreFirst ==
    /\ served = "closed" <=> ~up
    /\ served # "open" => stage["mic"] = "idle"
    /\ served # "restoring" => stage["restore"] = "idle"
    /\ served \in {"closed", "booted"} => todo = <<>>
    /\ served = "restoring" =>
          \/ /\ stage["restore"] = "accepted"
             /\ Len(todo) = 1
             /\ todo[1] = [owner |-> "restore", cmd |-> Mute(TRUE), open |-> TRUE]
          \/ stage["restore"] = "executed" /\ todo = <<>> /\ cell["mic"]
    /\ served = "open" => ServesOne

(* The request the operation waits for is the last one that entered the    *)
(* socket; every other one has been given up.                              *)
Awaits == At("answer") \/ At("answer again")
NoneOpen == ~dispatched.open /\ \A i \in 1 .. Len(requests) : ~requests[i].open
AskedFor == [want |-> op.want \/ Undoing, open |-> TRUE]
OpenIsLast ==
    \/ dispatched = AskedFor /\ requests = <<>>
    \/ /\ ~dispatched.open /\ requests # <<>>
       /\ requests[Len(requests)] = AskedFor
       /\ \A i \in 1 .. Len(requests) - 1 : ~requests[i].open
WaitsForLast == IF Awaits /\ outcome = "none" THEN OpenIsLast ELSE NoneOpen

(* The order of setLocked: a mute is recorded before it is asked for, an   *)
(* unmute darkens the light first, and what failed is left to the worker.  *)
InOrder ==
    /\ outcome # "none" => Awaits
    /\ op = NoOp <=> At("none")
    /\ ~At("none") => unknown
    /\ op.want => op.at \in {"record", "send", "answer", "confirm"}
    /\ At("record") => op.want
    /\ op.want /\ op.at \in {"send", "answer", "confirm"} => file
    /\ ~op.want /\ op.at \notin {"none", "clear"} => ~light
    /\ light => Blocked
    /\ At("none") /\ unknown => reconcile \/ retrying

(* From the OK to a mute until the next operation, and while the DSP       *)
(* service starts again meanwhile, nothing is left that could unmute.      *)
Agreed ==
    \/ At("none") /\ muted /\ ~reconcile /\ ~retrying
    \/ op.want /\ (At("confirm") \/ (At("answer") /\ outcome = "ok"))
SettledMute ==
    Agreed =>
        /\ file /\ requests = <<>> /\ stage["mic"] = "idle"
        /\ served = "open" => todo = <<>> /\ cell["mic"]

MicInv == RestoreFirst /\ WaitsForLast /\ InOrder /\ SettledMute
=============================================================================
