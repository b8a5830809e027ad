---------------------------- MODULE VoiceFeedback ----------------------------
(***************************************************************************)
(* What mcu-interface shows and plays while somebody talks to the speaker: *)
(* voiceFeedbackController of tools/mcu-interface.  The voice endpoint     *)
(* reports its state; each report renews a lease of ten seconds, lights    *)
(* the ring and lowers the music.  Whatever ends the conversation, both    *)
(* are undone, with a retry every second while that fails.  While the      *)
(* microphone is muted or its state unknown there is no voice feedback.    *)
(*                                                                         *)
(* The controller asks the microphone for its state with its own mutex     *)
(* held, and so waits while a mute is being carried out.                   *)
(***************************************************************************)
EXTENDS Naturals

CONSTANTS
    MaxReports,     \* bound: states reported by the voice endpoint
    MaxLightFaults  \* bound: failures of the LED ring and of the music control

VARIABLES
    blocked,     \* the microphone is muted, or about to be, or unknown
    micFree,     \* nobody holds the microphone's mutex
    notice,      \* a mute was carried out and has to end the conversation
    mutelight,   \* the ring shows the mute light, and no voice animation

    state,       \* the state shown, "" for none
    report,      \* the state being reported
    step,        \* of its handling, with the mutex held: "none", "ask", "apply", "cue"
    cleanup,     \* light and music may have to be undone
    glow,        \* the voice animation runs
    ducked,      \* the music is lowered for the voice
    reports, lightFaults

shown == <<state, cleanup, glow, ducked>>
voice == <<shown, report, step, reports, lightFaults>>

States == {"listening", "thinking"}

VoiceInit ==
    /\ state = "" /\ report = "" /\ step = "none" /\ cleanup = FALSE
    /\ glow = FALSE /\ ducked = FALSE
    /\ reports = 0 /\ lightFaults = 0

MutexFree == step = "none"

(* StartVoice replaces any animation but the mute light. *)
Lit(on) == on /\ ~mutelight

(* Setting the light and the music; each may fail without the other, or be *)
(* reported as failed and take effect.                                     *)
Set(on) ==
    \/ glow' = Lit(on) /\ ducked' = on /\ UNCHANGED lightFaults
    \/ /\ lightFaults < MaxLightFaults
       /\ lightFaults' = lightFaults + 1
       /\ glow' \in {glow, Lit(on)} /\ ducked' \in {ducked, on}

(* clearLocked: cleanup stays set until both are undone. *)
Clear_Once ==
    /\ state' = "" /\ cleanup' = FALSE
    /\ IF cleanup THEN Set(FALSE) ELSE UNCHANGED <<glow, ducked, lightFaults>>

Clear ==
    /\ state' = ""
    /\ IF cleanup
         THEN Set(FALSE) /\ cleanup' = (lightFaults' # lightFaults)
         ELSE UNCHANGED <<cleanup, glow, ducked, lightFaults>>

-----------------------------------------------------------------------------
(* Update, in the order of its calls *)

Reported(s) ==
    /\ MutexFree
    /\ reports < MaxReports
    /\ reports' = reports + 1
    /\ report' = s
    /\ step' = "ask"
    /\ UNCHANGED <<shown, lightFaults>>

Handled == step' = "none" /\ report' = ""

(* The end of the conversation, or a state that must not be shown. *)
Withdrawn ==
    /\ step = "ask"
    /\ report = "" \/ (micFree /\ blocked)
    /\ Clear
    /\ Handled
    /\ UNCHANGED reports

Permitted ==
    /\ step = "ask"
    /\ report # "" /\ micFree /\ ~blocked
    /\ step' = "apply"
    /\ UNCHANGED <<shown, report, reports, lightFaults>>

(* A new listening state asks once more before its cue is played. *)
Applied ==
    /\ step = "apply"
    /\ state' = report
    /\ cleanup' = (cleanup \/ state # report)
    /\ Set(TRUE)
    /\ IF report = "listening" /\ state # report
         THEN step' = "cue" /\ UNCHANGED report
         ELSE Handled
    /\ UNCHANGED reports

Cue ==
    /\ step = "cue"
    /\ micFree
    /\ IF blocked THEN Clear ELSE UNCHANGED <<shown, lightFaults>>
    /\ Handled
    /\ UNCHANGED reports

-----------------------------------------------------------------------------
(* tick, every fifty milliseconds *)

(* The lease ran out, or the microphone was muted. *)
Ended ==
    /\ MutexFree
    /\ cleanup
    /\ state # ""
    /\ Clear
    /\ UNCHANGED <<report, step, reports>>

Retried ==
    /\ MutexFree
    /\ cleanup
    /\ IF state = "" THEN Clear ELSE micFree /\ ~blocked /\ Set(TRUE) /\ UNCHANGED <<state, cleanup>>
    /\ UNCHANGED <<report, step, reports>>

(* onVoiceBlocked, called by whoever muted the microphone *)
Reset ==
    /\ notice
    /\ MutexFree
    /\ Clear
    /\ UNCHANGED <<report, step, reports>>

Handles == Withdrawn \/ Permitted \/ Applied \/ Cue

VoiceTypeOK ==
    /\ {state, report} \subseteq States \cup {""}
    /\ step \in {"none", "ask", "apply", "cue"}
    /\ {cleanup, glow, ducked} \subseteq BOOLEAN

(* Light and music do not outlive the conversation, whichever of them      *)
(* could not be undone at first.                                           *)
FeedbackEnds == <>[](state = "" /\ ~glow /\ ~ducked)
=============================================================================
