------------------------------ MODULE MCSpeaker ------------------------------
(***************************************************************************)
(* The audio services for TLC, five machines in one run: each behaviour    *)
(* is one of `part`, and the others stay where they start.  DspService is  *)
(* the detailed dsp-interface; Volume, Outputs and Microphone are machines *)
(* of mcu-interface, the first and last over dsp-interface as              *)
(* CommandServer promises it; MicCapture is mic-capture.                   *)
(***************************************************************************)
EXTENDS DspService, MicCapture

CONSTANTS
    Settings, Steps, DuckNames, DefaultVolume, PowerOnGain, DeltaLimit,
    MaxChanges, MaxVolumeFaults, MaxResets,
    MaxOutputCalls, MaxBusFaults, MaxStops,
    MaxPresses, MaxMicFaults, MaxReports, MaxLightFaults

VARIABLES
    part,
    reg, flock, copy, job, aim, service, cached, opener, written, doubt, called, busFaults, stops,
    volume, silent, ducks, saved, held, delta, owed, peak, notify, worker, level, retry,
    drawn, inbox, serving, reply, lost, changes, volumeFaults, resets,
    file, light, muted, unknown, op, reconcile, retrying, notice, served, requests, dispatched,
    outcome, state, report, step, cleanup, glow, ducked, reports, lightFaults, presses, micFaults,
    up, cell, todo, stage, answer

OutputsPart == INSTANCE Outputs WITH MaxCalls <- MaxOutputCalls
VolumePart == INSTANCE Volume
MicrophonePart == INSTANCE Microphone

ASSUME SpeakerAssumption == DspAssumption /\ CaptureAssumption /\ VolumePart!VolumeAssumption

SpeakerInit ==
    /\ part \in {"dsp", "volume", "outputs", "microphone", "capture"}
    /\ Init /\ VolumePart!OwnInit /\ OutputsPart!Init /\ MicrophonePart!OwnInit /\ CaptureInit
    /\ IF part = "microphone" THEN MicrophonePart!DspInit ELSE VolumePart!DspInit
    /\ part # "dsp" => stateFile = "muted"
    /\ part # "microphone" => file
    /\ part # "capture" => muteFile

volumeVars ==
    <<volume, silent, ducks, saved, held, delta, owed, peak, notify, worker, level, retry,
      drawn, inbox, serving, reply, lost, changes, volumeFaults, resets>>
microphoneVars ==
    <<file, light, muted, unknown, op, reconcile, retrying, notice, served, requests,
      dispatched, outcome, state, report, step, cleanup, glow, ducked, reports, lightFaults,
      presses, micFaults>>
serverVars == <<up, cell, todo, stage, answer>>
levelVars == <<volumeVars, serverVars>>
muteVars == <<microphoneVars, serverVars>>
outputsVars ==
    <<reg, flock, copy, job, aim, service, cached, opener, written, doubt, called, busFaults,
      stops>>
speakerVars == <<part, vars, volumeVars, outputsVars, microphoneVars, serverVars, cvars>>

SpeakerNext ==
    /\ \/ /\ part = "dsp" /\ Next
          /\ UNCHANGED <<volumeVars, outputsVars, microphoneVars, serverVars, cvars>>
       \/ /\ part = "volume" /\ VolumePart!Next
          /\ UNCHANGED <<vars, outputsVars, microphoneVars, cvars>>
       \/ /\ part = "outputs" /\ OutputsPart!Next
          /\ UNCHANGED <<vars, volumeVars, microphoneVars, serverVars, cvars>>
       \/ /\ part = "microphone" /\ MicrophonePart!Next
          /\ UNCHANGED <<vars, volumeVars, outputsVars, cvars>>
       \/ /\ part = "capture" /\ CaptureNext
          /\ UNCHANGED <<vars, volumeVars, outputsVars, microphoneVars, serverVars>>
    /\ UNCHANGED part

SpeakerSpec == SpeakerInit /\ [][SpeakerNext]_speakerVars

(* The Fairness of each part, with the part in each action, which spares   *)
(* TLC the evaluation of ENABLED in the behaviours of the others.          *)
On(p) == part = p
dspFairness ==
    /\ On("dsp")
    /\ WF_vars(On("dsp") /\ Main)
    /\ WF_vars(On("dsp") /\ Pump)
    /\ WF_vars(On("dsp") /\ Serve)
    /\ WF_vars(On("dsp") /\ HandleMicControl)
    /\ \A s \in Servers : WF_vars(On("dsp") /\ GoesOn(s))
levelFairness ==
    /\ On("volume")
    /\ WF_levelVars(On("volume") /\ VolumePart!MergeStep)
    /\ WF_levelVars(On("volume") /\ VolumePart!AdjustVolume)
    /\ WF_levelVars(On("volume") /\ VolumePart!Works)
    /\ WF_levelVars(On("volume") /\ VolumePart!DspWorks)
muteFairness ==
    /\ On("microphone")
    /\ WF_muteVars(On("microphone") /\ MicrophonePart!Works)
    /\ WF_muteVars(On("microphone") /\ MicrophonePart!Notified)
    /\ SF_muteVars(On("microphone") /\ MicrophonePart!Reconcile("worker"))
    /\ WF_muteVars(On("microphone") /\ MicrophonePart!FeedbackStep)
    /\ WF_muteVars(On("microphone") /\ MicrophonePart!DspWorks)
captureFairness ==
    /\ On("capture")
    /\ WF_cvars(On("capture") /\ CaptureMain)
    /\ SF_cvars(On("capture") /\ CaptureEnds)
    /\ SF_cvars(On("capture") /\ PollMute)
    /\ WF_cvars(On("capture") /\ DspStarts)
    /\ \A c \in Clients : WF_cvars(On("capture") /\ ClientWorks(c))

(* The liveness properties of each part, under its fairness. *)
InvocationsAnswered == dspFairness => CallsAnswered
LevelArrives == levelFairness => VolumePart!LevelArrives
MuteArrives == muteFairness => MicrophonePart!MuteArrives
FeedbackEnds == muteFairness => MicrophonePart!FeedbackEnds
CaptureFollows == captureFairness => FollowsDsp

(* The safety properties of the parts that are instances; DspService and   *)
(* MicCapture keep theirs in every behaviour.                              *)
RestsAtLevel == part = "volume" => VolumePart!RestsAtLevel
LosesOnlyExcess == part = "volume" => VolumePart!LosesOnlyExcess
RegisterAgrees == OutputsPart!RegisterAgrees
AmpOnlyOverDac == OutputsPart!AmpOnlyOverDac
LightTruth == part = "microphone" => MicrophonePart!LightTruth
=============================================================================
