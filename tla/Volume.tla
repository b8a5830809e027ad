------------------------------- MODULE Volume -------------------------------
(***************************************************************************)
(* The volume of the speaker: dspVolumeController of tools/mcu-interface,  *)
(* the rotary control's relay in front of it, and the DSP service behind   *)
(* it.  Calls and the dial change the level at once and wake one worker,   *)
(* which reads the level when it gets there and pushes it with a WAMP call *)
(* of at most three seconds.  A call that was given up may still be on its *)
(* way to the DSP.  dsp-interface is CommandServer with one caller, its    *)
(* WAMP session.                                                           *)
(***************************************************************************)
EXTENDS Integers, Sequences, FiniteSets, FiniteSetsExt

CONSTANTS
    Settings,        \* levels volumeSet is called with
    Steps,           \* steps of the rotary control, in either direction
    DuckNames,       \* who may duck the music
    DefaultVolume,
    PowerOnGain,     \* what the DSP plays at after a reset
    DeltaLimit,      \* the steps the relay holds in either direction, 100
    MaxChanges,      \* bound: calls, turns of the dial, ducks
    MaxVolumeFaults, \* bound: failed calls and saves, late answers, restarts of mcu-interface
    MaxResets        \* bound: restarts of dsp-interface

VolumeAssumption ==
    /\ Settings \cup {DefaultVolume} \subseteq 0..100
    /\ Steps \subseteq 1..5
    /\ {DeltaLimit, MaxChanges, MaxVolumeFaults, MaxResets} \subseteq Nat
    /\ PowerOnGain \notin 0..90

VARIABLES
    volume, silent, ducks,     \* what the listener and the prompts asked for
    saved,                    \* the file the level is restored from
    held,                     \* a step of the dial the relay could not queue yet
    delta,                    \* the one-slot channel of steps, 0 when empty
    owed,                     \* history: turned since the relay was empty and not yet taken
    peak,                     \* history: the most that was owed, in either direction
    notify,                   \* the one-slot channel that wakes the worker
    worker,                   \* "idle", "pushing" or "waiting"
    level,                    \* the level being pushed
    retry,                    \* the retry timer is armed
    drawn,                    \* the level the ring was last drawn for
    inbox,                    \* volumeSet invocations on their way to dsp-interface
    serving,                  \* the one its session waits for, or NoCall
    reply,                    \* what the worker's caller program got
    up, cell, todo, stage, answer,         \* dsp-interface: see CommandServer
    lost,                     \* the DSP was reset after the last push began
    changes, volumeFaults, resets

mcu == <<volume, silent, ducks, saved, held, delta, owed, peak>>
pushing == <<notify, worker, level, retry, drawn>>
calls == <<inbox, serving, reply>>
dsp == <<up, cell, todo, stage, answer>>
spent == <<changes, volumeFaults, resets>>
vars == <<mcu, pushing, calls, dsp, lost, spent>>

(* dspByteForPercent for 1..100: 90 * 10^((0.38 p - 38) / 20), at least 1. *)
Curve == <<
    1, 1, 1, 1, 1, 1, 2, 2, 2, 2, 2, 2, 2, 2, 2, 2, 2, 2, 3, 3, 3, 3, 3, 3, 3,
    4, 4, 4, 4, 4, 4, 5, 5, 5, 5, 5, 6, 6, 6, 7, 7, 7, 7, 8, 8, 8, 9, 9, 10, 10,
    11, 11, 12, 12, 13, 13, 14, 14, 15, 16, 16, 17, 18, 19, 19, 20, 21, 22, 23, 24, 25, 26, 28, 29, 30,
    31, 33, 34, 36, 38, 39, 41, 43, 45, 47, 49, 51, 53, 56, 58, 61, 63, 66, 69, 72, 76, 79, 82, 86, 90>>
DspByte(percent) == IF percent = 0 THEN 0 ELSE Curve[percent]

DuckScale == [none |-> 100, soft |-> 40, hard |-> 10]
Gain(v) == [op |-> "gain", value |-> v]
NoCall == [gain |-> PowerOnGain, live |-> FALSE]

PowerOn == [op \in {"gain", "mic"} |-> IF op = "gain" THEN PowerOnGain ELSE FALSE]

Dsp == INSTANCE CommandServer WITH
    Callers <- {"restore", "mic", "session"},
    Commands <- {Gain(v) : v \in 0..90}

Clamp(v) == IF v < 0 THEN 0 ELSE IF v > 100 THEN 100 ELSE v

(* The strongest duck wins: releasing one of two does not restore. *)
EffectiveLevel ==
    IF silent THEN 0
    ELSE (volume * Min({DuckScale[ducks[d]] : d \in DuckNames} \cup {100})) \div 100

DisplayLevel == IF silent THEN 0 ELSE volume

OwnInit ==
    /\ volume = DefaultVolume /\ silent = FALSE
    /\ ducks = [d \in DuckNames |-> "none"]
    /\ saved = DefaultVolume
    /\ held = 0 /\ delta = 0 /\ owed = 0 /\ peak = 0
    /\ notify = TRUE /\ worker = "idle" /\ level = DefaultVolume /\ retry = FALSE
    /\ drawn = DefaultVolume
    /\ inbox = <<>> /\ serving = NoCall /\ reply = "none"
    /\ lost = TRUE
    /\ changes = 0 /\ volumeFaults = 0 /\ resets = 0

DspInit == Dsp!Init
Init == OwnInit /\ DspInit

-----------------------------------------------------------------------------
(* The level *)

Fault == volumeFaults < MaxVolumeFaults /\ volumeFaults' = volumeFaults + 1

(* The level is remembered first; the worker is woken also when that fails. *)
ApplyLocked ==
    /\ \/ saved' = volume' /\ UNCHANGED volumeFaults
       \/ Fault /\ UNCHANGED saved
    /\ notify' = TRUE

Change ==
    /\ changes < MaxChanges
    /\ changes' = changes + 1

SetVolume(v) ==
    /\ Change
    /\ volume' = v
    /\ ApplyLocked
    /\ UNCHANGED <<silent, ducks, held, delta, owed, peak, worker, level, retry, drawn,
                   calls, dsp, lost, resets>>

SetMuted(on) ==
    /\ Change
    /\ silent' = on
    /\ UNCHANGED volume
    /\ ApplyLocked
    /\ UNCHANGED <<ducks, held, delta, owed, peak, worker, level, retry, drawn,
                   calls, dsp, lost, resets>>

SetDuck(name, state) ==
    /\ Change
    /\ ducks' = [ducks EXCEPT ![name] = state]
    /\ UNCHANGED volume
    /\ ApplyLocked
    /\ UNCHANGED <<silent, held, delta, owed, peak, worker, level, retry, drawn,
                   calls, dsp, lost, resets>>

-----------------------------------------------------------------------------
(* The rotary control: queueVolumeDelta puts a step into the channel, or   *)
(* takes the pending one out and puts the sum back, cut to the limit,      *)
(* while the input worker may take at any moment.  The worker takes a      *)
(* button's event first, and may be busy with one for long.                *)

Limited(n) == IF n > DeltaLimit THEN DeltaLimit ELSE IF n < -DeltaLimit THEN -DeltaLimit ELSE n

Size(n) == IF n < 0 THEN -n ELSE n
Owes(n) == owed' = n /\ peak' = IF Size(n) > peak THEN Size(n) ELSE peak

Turn(step) ==
    /\ Change
    /\ held = 0
    /\ IF delta = 0 THEN delta' = step /\ owed' = step /\ peak' = Size(step) /\ UNCHANGED held
                    ELSE held' = step /\ Owes(owed + step) /\ UNCHANGED delta
    /\ UNCHANGED <<volume, silent, ducks, saved, pushing, calls, dsp, lost, volumeFaults, resets>>

MergeStep_Replaces ==
    /\ held # 0
    /\ IF delta # 0 THEN delta' = 0 /\ UNCHANGED held
                    ELSE delta' = held /\ held' = 0
    /\ UNCHANGED <<volume, silent, ducks, saved, owed, peak, pushing, calls, dsp, lost, spent>>

MergeStep ==
    /\ held # 0
    /\ IF delta # 0 THEN delta' = 0 /\ held' = Limited(held + delta)
                    ELSE delta' = held /\ held' = 0
    /\ UNCHANGED <<volume, silent, ducks, saved, owed, peak, pushing, calls, dsp, lost, spent>>

AdjustVolume ==
    /\ delta # 0
    /\ delta' = 0
    /\ Owes(owed - delta)
    /\ volume' = Clamp(volume + delta)
    /\ ApplyLocked
    /\ UNCHANGED <<silent, ducks, held, worker, level, retry, drawn, calls, dsp, lost, changes,
                   resets>>

-----------------------------------------------------------------------------
(* The worker *)

Wake ==
    /\ worker = "idle"
    /\ \/ notify /\ notify' = FALSE
       \/ retry /\ UNCHANGED notify
    /\ retry' = FALSE
    /\ worker' = "pushing"
    /\ level' = EffectiveLevel
    /\ UNCHANGED <<mcu, drawn, calls, dsp, lost, spent>>

(* The caller program reaches dsp-interface, or finds no such procedure.   *)
Push ==
    /\ worker = "pushing"
    /\ IF up
         THEN /\ inbox' = Append(inbox, [gain |-> DspByte(level), live |-> TRUE])
              /\ reply' = "none"
              /\ worker' = "waiting"
              /\ lost' = FALSE
              /\ UNCHANGED <<serving, retry>>
         ELSE worker' = "idle" /\ retry' = TRUE /\ UNCHANGED <<calls, lost>>
    /\ UNCHANGED <<mcu, notify, level, drawn, dsp, spent>>

(* The ring is drawn once per change of the chosen level.  A failed write  *)
(* of the ring is only logged.                                             *)
PushSucceeds ==
    /\ worker = "waiting"
    /\ reply = "ok"
    /\ worker' = "idle"
    /\ drawn' = DisplayLevel
    /\ UNCHANGED <<mcu, notify, level, retry, calls, dsp, lost, spent>>

PushFails_GivesUp ==
    /\ worker = "waiting"
    /\ reply = "error"
    /\ worker' = "idle"
    /\ UNCHANGED <<mcu, notify, level, retry, drawn, calls, dsp, lost, spent>>

PushFails ==
    /\ worker = "waiting"
    /\ reply = "error"
    /\ worker' = "idle"
    /\ retry' = TRUE
    /\ UNCHANGED <<mcu, notify, level, drawn, calls, dsp, lost, spent>>

(* The reply of a call that was given up is nobody's. *)
Abandoned_Confused(call) == call
Abandoned(call) == [call EXCEPT !.live = FALSE]

(* Three seconds: the caller program is killed, its call goes on. *)
PushExpires ==
    /\ worker = "waiting"
    /\ Fault
    /\ worker' = "idle"
    /\ retry' = TRUE
    /\ inbox' = [i \in DOMAIN inbox |-> Abandoned(inbox[i])]
    /\ serving' = Abandoned(serving)
    /\ UNCHANGED <<mcu, notify, level, drawn, reply, dsp, lost, changes, resets>>

-----------------------------------------------------------------------------
(* dsp-interface and the restarts *)

Serve ==
    /\ inbox # <<>>
    /\ serving = NoCall
    /\ Dsp!Accept("session", Gain(Head(inbox).gain))
    /\ serving' = Head(inbox)
    /\ inbox' = Tail(inbox)
    /\ UNCHANGED <<mcu, pushing, reply, lost, spent>>

Answered(outcome) ==
    /\ serving # NoCall
    /\ serving' = NoCall
    /\ reply' = IF serving.live THEN outcome ELSE reply
    /\ UNCHANGED <<mcu, pushing, inbox, lost, changes, resets>>

ServeOk == Dsp!AnswerOk("session") /\ Answered("ok") /\ UNCHANGED volumeFaults
ServeFails == Dsp!AnswerError("session") /\ Answered("error") /\ Fault

Executes == Dsp!Execute /\ UNCHANGED <<mcu, pushing, calls, lost, spent>>

(* The DSP starts at its own gain, and mcu-interface is not told to push:  *)
(* the session event only reconciles the microphone.                       *)
DspBoots ==
    /\ Dsp!Boot
    /\ UNCHANGED <<mcu, pushing, calls, lost, spent>>

DspResets ==
    /\ cell # PowerOn
    /\ Dsp!Reset
    /\ lost' = TRUE
    /\ UNCHANGED <<mcu, pushing, calls, spent>>

DspCrashes ==
    /\ resets < MaxResets
    /\ resets' = resets + 1
    /\ Dsp!Crash
    /\ inbox' = <<>> /\ serving' = NoCall
    /\ reply' = IF worker = "waiting" THEN "error" ELSE reply
    /\ UNCHANGED <<mcu, pushing, lost, changes, volumeFaults>>

(* mcu-interface starts again: the level comes from the file. *)
McuRestarts ==
    /\ Fault
    /\ volume' = saved /\ silent' = FALSE
    /\ ducks' = [d \in DuckNames |-> "none"]
    /\ held' = 0 /\ delta' = 0 /\ owed' = 0 /\ peak' = 0
    /\ notify' = TRUE /\ worker' = "idle" /\ retry' = FALSE
    /\ drawn' = saved
    /\ inbox' = [i \in DOMAIN inbox |-> Abandoned(inbox[i])]
    /\ serving' = Abandoned(serving)
    /\ UNCHANGED <<saved, level, reply, dsp, lost, changes, resets>>

-----------------------------------------------------------------------------
Asked ==
    \/ \E v \in Settings : SetVolume(v)
    \/ \E on \in BOOLEAN : SetMuted(on)
    \/ \E d \in DuckNames, s \in {"none", "soft", "hard"} : SetDuck(d, s)
    \/ \E s \in Steps : Turn(s) \/ Turn(-s)

Works == Wake \/ Push \/ PushSucceeds \/ PushFails

DspWorks == Serve \/ ServeOk \/ Executes \/ DspResets \/ DspBoots

Faulty == PushExpires \/ ServeFails \/ DspCrashes \/ McuRestarts

Next ==
    \/ Asked \/ MergeStep \/ AdjustVolume \/ Works \/ DspWorks
    \/ Faulty

Spec == Init /\ [][Next]_vars

(* Goroutines run, timers fire, the DSP executes what it accepted and PID 1 *)
(* starts dsp-interface again.                                              *)
Fairness ==
    /\ WF_vars(MergeStep) /\ WF_vars(AdjustVolume)
    /\ WF_vars(Works) /\ WF_vars(DspWorks)

FairSpec == Spec /\ Fairness

-----------------------------------------------------------------------------
Calls == [gain : 0..90, live : BOOLEAN]
Queued == [owner : {"session"}, cmd : {Gain(v) : v \in 0..90}, open : BOOLEAN]

TypeOK ==
    /\ volume \in 0..100 /\ saved \in 0..100 /\ level \in 0..100 /\ drawn \in 0..100
    /\ ducks \in [DuckNames -> {"none", "soft", "hard"}]
    /\ held \in Int /\ delta \in Int /\ owed \in Int /\ peak \in Nat
    /\ {silent, notify, retry, lost, up} \subseteq BOOLEAN
    /\ worker \in {"idle", "pushing", "waiting"}
    /\ inbox \in Seq(Calls)
    /\ serving \in Calls \cup {NoCall}
    /\ reply \in {"none", "ok", "error"}
    /\ DOMAIN cell = {"gain", "mic"}
    /\ todo \in Seq(Queued)
    /\ DOMAIN stage = {"restore", "mic", "session"}

(* As the comment of Run has it: the DSP is kept at the level this         *)
(* controller holds, also when dsp-interface starts again.                 *)
KeepsLevel == <>[](cell["gain"] = DspByte(EffectiveLevel))

(* Once nobody asks for anything, the DSP plays at the level the listener  *)
(* chose, whatever calls failed, expired or were overtaken, unless         *)
(* dsp-interface started again after the last push.                        *)
LevelArrives == <>[](lost \/ cell["gain"] = DspByte(EffectiveLevel))

(* The worker rests only where it was asked to go: with no wake and no     *)
(* retry pending, the DSP was last told the level in force and the ring    *)
(* shows the chosen one, also when answers were late, lost or belonged to  *)
(* a call that had been given up.                                          *)
RestsAtLevel ==
    worker = "idle" /\ ~notify /\ ~retry /\ ~lost =>
        cell["gain"] = DspByte(EffectiveLevel) /\ drawn = DisplayLevel

(* Of the detents turned since the relay was last empty none is lost, none *)
(* is counted twice and none changes its direction, however their merging  *)
(* and the worker's taking interleave, unless more than the limit of the   *)
(* relay was owed at once; then what is lost is at most the excess.        *)
Excess == IF peak > DeltaLimit THEN peak - DeltaLimit ELSE 0
LosesOnlyExcess == Size(owed - (delta + held)) <= Excess

-----------------------------------------------------------------------------
(* The invariant behind RestsAtLevel.                                      *)

(* Nothing is on its way to the DSP. *)
Quiet == inbox = <<>> /\ serving = NoCall /\ todo = <<>>

(* The session of dsp-interface serves one call at a time, and its command *)
(* is the last in the queue, behind at most one given up while it was      *)
(* being sent.                                                             *)
ServesOne ==
    /\ ~up => Quiet
    /\ serving = NoCall <=> stage["session"] = "idle"
    /\ stage["session"] \in {"idle", "accepted", "executed"}
    /\ stage["session"] = "idle" =>
          Len(todo) <= 1 /\ \A i \in 1 .. Len(todo) : ~todo[i].open
    /\ stage["session"] = "accepted" =>
          /\ Len(todo) \in 1..2
          /\ \A i \in 1 .. Len(todo) : todo[i].open <=> i = Len(todo)
          /\ todo[Len(todo)].cmd = Gain(serving.gain)
    /\ stage["session"] = "executed" =>
          todo = <<>> /\ cell["gain"] = serving.gain

(* The call the worker waits for is the last one that entered the service, *)
(* for the level it pushes; every other call has been given up.            *)
NoLive == ~serving.live /\ \A i \in 1 .. Len(inbox) : ~inbox[i].live
Pushed == [gain |-> DspByte(level), live |-> TRUE]
LiveIsLast ==
    \/ serving = Pushed /\ inbox = <<>>
    \/ /\ ~serving.live /\ inbox # <<>>
       /\ inbox[Len(inbox)] = Pushed
       /\ \A i \in 1 .. Len(inbox) - 1 : ~inbox[i].live
WaitsForLast ==
    IF worker = "waiting" /\ reply = "none" THEN LiveIsLast ELSE NoLive

(* An OK the worker has not seen yet, and the rest after it, find nothing  *)
(* left that could move the DSP; while it pushes, only a wake tells the    *)
(* level from the one being pushed.                                        *)
SettledByOk ==
    worker = "waiting" /\ reply = "ok" =>
        up /\ Quiet /\ cell["gain"] = DspByte(level)
PushesLevel == worker # "idle" /\ ~notify => level = EffectiveLevel
QuietAtRest ==
    worker = "idle" /\ ~notify /\ ~retry =>
        /\ Quiet
        /\ lost \/ cell["gain"] = DspByte(EffectiveLevel)
        /\ drawn = DisplayLevel

VolumeInv ==
    /\ ServesOne
    /\ WaitsForLast /\ SettledByOk /\ PushesLevel /\ QuietAtRest
=============================================================================
