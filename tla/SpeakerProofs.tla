---------------------------- MODULE SpeakerProofs ----------------------------
(***************************************************************************)
(* The properties of MCSpeaker.  Where its machine is proved in a module   *)
(* of its own, a behaviour of the composition is one of that machine, so   *)
(* that the theorems there are theorems of the composition too; MicCapture *)
(* and DspService are proved here.                                         *)
(***************************************************************************)
EXTENDS MCSpeaker, Integers, SequenceTheorems, WellFoundedInduction, TLAPS

VolumeFacts == INSTANCE VolumeProofs

(* The machine of volume.go that is composed is the one of the proofs. *)
LEMMA SameVolumeInit ==
  VolumePart!OwnInit /\ VolumePart!DspInit => VolumeFacts!Init
  BY DEF VolumePart!OwnInit, VolumePart!DspInit, VolumePart!Dsp!Init, VolumePart!NoCall,
     VolumePart!PowerOn, VolumeFacts!Init, VolumeFacts!OwnInit, VolumeFacts!DspInit,
     VolumeFacts!Dsp!Init, VolumeFacts!NoCall, VolumeFacts!PowerOn

LEMMA SameAsked == VolumePart!Asked => VolumeFacts!Asked
  BY DEF VolumePart!Asked, VolumePart!SetVolume, VolumePart!SetMuted, VolumePart!SetDuck,
     VolumePart!Turn, VolumePart!Owes, VolumePart!Size, VolumePart!Change,
     VolumePart!ApplyLocked, VolumePart!Fault, VolumePart!pushing, VolumePart!calls, VolumePart!dsp,
     VolumeFacts!Asked, VolumeFacts!SetVolume, VolumeFacts!SetMuted, VolumeFacts!SetDuck,
     VolumeFacts!Turn, VolumeFacts!Owes, VolumeFacts!Size, VolumeFacts!Change,
     VolumeFacts!ApplyLocked, VolumeFacts!Fault, VolumeFacts!pushing, VolumeFacts!calls, VolumeFacts!dsp

LEMMA SameDial ==
  /\ VolumePart!MergeStep => VolumeFacts!MergeStep
  /\ VolumePart!AdjustVolume => VolumeFacts!AdjustVolume
  BY DEF VolumePart!MergeStep, VolumePart!AdjustVolume, VolumePart!Clamp,
     VolumePart!Limited, VolumePart!Owes, VolumePart!Size, VolumePart!ApplyLocked, VolumePart!Fault, VolumePart!pushing, VolumePart!calls,
     VolumePart!dsp, VolumePart!spent,
     VolumeFacts!MergeStep, VolumeFacts!AdjustVolume, VolumeFacts!Clamp,
     VolumeFacts!Limited, VolumeFacts!Owes, VolumeFacts!Size, VolumeFacts!ApplyLocked, VolumeFacts!Fault, VolumeFacts!pushing, VolumeFacts!calls,
     VolumeFacts!dsp, VolumeFacts!spent

LEMMA SameReadings ==
  /\ VolumePart!EffectiveLevel = VolumeFacts!EffectiveLevel
  /\ VolumePart!DisplayLevel = VolumeFacts!DisplayLevel
  /\ \A p : VolumePart!DspByte(p) = VolumeFacts!DspByte(p)
<1>1. VolumePart!EffectiveLevel = VolumeFacts!EffectiveLevel
  BY DEF VolumePart!EffectiveLevel, VolumePart!DuckScale, VolumePart!Min,
     VolumeFacts!EffectiveLevel, VolumeFacts!DuckScale, VolumeFacts!Min
<1>2. VolumePart!DisplayLevel = VolumeFacts!DisplayLevel
  BY DEF VolumePart!DisplayLevel, VolumeFacts!DisplayLevel
<1>3. \A p : VolumePart!DspByte(p) = VolumeFacts!DspByte(p)
  BY DEF VolumePart!DspByte, VolumePart!Curve, VolumeFacts!DspByte, VolumeFacts!Curve
<1> QED
  BY <1>1, <1>2, <1>3

LEMMA SameWorks == VolumePart!Works => VolumeFacts!Works
  BY SameReadings
     DEF VolumePart!Works, VolumePart!Wake, VolumePart!Push, VolumePart!PushSucceeds,
     VolumePart!PushFails, VolumePart!mcu, VolumePart!calls, VolumePart!dsp,
     VolumePart!spent, VolumeFacts!Works, VolumeFacts!Wake, VolumeFacts!Push,
     VolumeFacts!PushSucceeds, VolumeFacts!PushFails, VolumeFacts!mcu,
     VolumeFacts!calls, VolumeFacts!dsp, VolumeFacts!spent

LEMMA SameDspWorks ==
  VolumePart!DspWorks => VolumeFacts!DspWorks
  BY DEF VolumePart!DspWorks, VolumePart!Serve, VolumePart!ServeOk, VolumePart!Answered,
     VolumePart!Executes, VolumePart!DspResets, VolumePart!DspBoots,
     VolumePart!NoCall, VolumePart!Gain, VolumePart!PowerOn,
     VolumePart!Dsp!Accept, VolumePart!Dsp!AnswerOk, VolumePart!Dsp!Execute,
     VolumePart!Dsp!Boot, VolumePart!Dsp!Reset, VolumePart!mcu,
     VolumePart!pushing, VolumePart!calls, VolumePart!dsp, VolumePart!spent,
     VolumeFacts!DspWorks, VolumeFacts!Serve, VolumeFacts!ServeOk,
     VolumeFacts!Answered, VolumeFacts!Executes, VolumeFacts!DspResets,
     VolumeFacts!DspBoots, VolumeFacts!NoCall, VolumeFacts!Gain,
     VolumeFacts!PowerOn, VolumeFacts!Dsp!Accept, VolumeFacts!Dsp!AnswerOk,
     VolumeFacts!Dsp!Execute, VolumeFacts!Dsp!Boot, VolumeFacts!Dsp!Reset,
     VolumeFacts!mcu, VolumeFacts!pushing, VolumeFacts!calls, VolumeFacts!dsp,
     VolumeFacts!spent

LEMMA SameFaulty ==
  VolumePart!Faulty => VolumeFacts!Faulty
  BY DEF VolumePart!Faulty, VolumePart!PushExpires, VolumePart!ServeFails,
     VolumePart!Answered, VolumePart!DspCrashes, VolumePart!McuRestarts,
     VolumePart!Abandoned, VolumePart!NoCall, VolumePart!Fault,
     VolumePart!Dsp!AnswerError, VolumePart!Dsp!Waiting, VolumePart!Dsp!Without,
     VolumePart!Dsp!Crash, VolumePart!mcu, VolumePart!pushing, VolumePart!dsp,
     VolumeFacts!Faulty, VolumeFacts!PushExpires, VolumeFacts!ServeFails,
     VolumeFacts!Answered, VolumeFacts!DspCrashes, VolumeFacts!McuRestarts,
     VolumeFacts!Abandoned, VolumeFacts!NoCall, VolumeFacts!Fault,
     VolumeFacts!Dsp!AnswerError, VolumeFacts!Dsp!Waiting,
     VolumeFacts!Dsp!Without, VolumeFacts!Dsp!Crash, VolumeFacts!mcu,
     VolumeFacts!pushing, VolumeFacts!dsp

LEMMA SameVolumeNext == VolumePart!Next => VolumeFacts!Next
  BY SameAsked, SameDial, SameWorks, SameDspWorks, SameFaulty
     DEF VolumePart!Next, VolumeFacts!Next

LEMMA VolumeStarts ==
  SpeakerInit /\ part = "volume" => VolumeFacts!Init
  BY SameVolumeInit DEF SpeakerInit

(* In a behaviour of another machine the volume stands still or is none of *)
(* its own; in one of its own nothing else moves it.                       *)
LEMMA VolumeMoves ==
  part = "volume" /\ [SpeakerNext]_speakerVars =>
    (part = "volume")' /\ [VolumeFacts!Next]_(VolumeFacts!vars)
<1> SUFFICES ASSUME part = "volume", [SpeakerNext]_speakerVars
             PROVE  (part = "volume")' /\ [VolumeFacts!Next]_(VolumeFacts!vars)
  OBVIOUS
<1>1. CASE SpeakerNext
  <2>1. part' = "volume" /\ VolumePart!Next
    BY <1>1 DEF SpeakerNext
  <2> QED
    BY <2>1, SameVolumeNext
<1>2. CASE UNCHANGED speakerVars
  BY <1>2 DEF speakerVars, volumeVars, serverVars, VolumeFacts!vars, VolumeFacts!mcu,
     VolumeFacts!pushing, VolumeFacts!calls, VolumeFacts!dsp, VolumeFacts!spent
<1> QED
  BY <1>1, <1>2

LEMMA PartStays == [SpeakerNext]_speakerVars => part' = part
  BY DEF SpeakerNext, speakerVars

(* A behaviour of the composition is one of Volume, or the part is another *)
(* throughout.                                                             *)
LEMMA VolumeBehaves ==
  SpeakerSpec => VolumeFacts!Spec \/ [](~(part = "volume"))
<1>1. ~(part = "volume") /\ [SpeakerNext]_speakerVars => (~(part = "volume"))'
  BY PartStays
<1> QED
  BY VolumeStarts, VolumeMoves, <1>1, PTL DEF SpeakerSpec, VolumeFacts!Spec

LEMMA VolumeConstants == VolumeFacts!VolumeAssumption
  BY SpeakerAssumption DEF VolumePart!VolumeAssumption, VolumeFacts!VolumeAssumption

(* dspVolumeController of volume.go beside the other services: when its    *)
(* worker rests the DSP was told the level in force and the ring shows it. *)
THEOREM SpeakerRestsAtLevel == SpeakerSpec => []RestsAtLevel
<1>1. VolumeFacts!Spec => []VolumeFacts!RestsAtLevel
  BY VolumeConstants, VolumeFacts!LevelAtRest
<1>2. VolumeFacts!RestsAtLevel => RestsAtLevel
  BY SameReadings DEF RestsAtLevel, VolumePart!RestsAtLevel, VolumeFacts!RestsAtLevel
<1>3. ~(part = "volume") => RestsAtLevel
  BY DEF RestsAtLevel
<1> QED
  BY VolumeBehaves, <1>1, <1>2, <1>3, PTL

(* The relay of event_relay.go beside the other services: no detent of the *)
(* dial is lost or counted twice unless more than the relay's limit was    *)
(* owed at once, and then no more than the excess.                         *)
THEOREM SpeakerLosesOnlyExcess == SpeakerSpec => []LosesOnlyExcess
<1>1. VolumeFacts!Spec => []VolumeFacts!LosesOnlyExcess
  BY VolumeConstants, VolumeFacts!DialLosesOnlyExcess
<1>2. VolumeFacts!LosesOnlyExcess => LosesOnlyExcess
  BY DEF LosesOnlyExcess, VolumePart!LosesOnlyExcess, VolumePart!Excess, VolumePart!Size,
     VolumeFacts!LosesOnlyExcess, VolumeFacts!Excess, VolumeFacts!Size
<1>3. ~(part = "volume") => LosesOnlyExcess
  BY DEF LosesOnlyExcess
<1> QED
  BY VolumeBehaves, <1>1, <1>2, <1>3, PTL

-----------------------------------------------------------------------------
MicrophoneFacts == INSTANCE MicrophoneProofs

(* The machine of the mute that is composed is the one of the proofs. *)
LEMMA SameMicrophoneInit ==
  MicrophonePart!OwnInit /\ MicrophonePart!DspInit => MicrophoneFacts!Init
  BY DEF MicrophonePart!OwnInit, MicrophonePart!DspInit, MicrophonePart!Dsp!Init,
     MicrophonePart!NoOp, MicrophonePart!NoRequest, MicrophonePart!PowerOn,
     MicrophonePart!Voice!VoiceInit, MicrophoneFacts!Init,
     MicrophoneFacts!OwnInit, MicrophoneFacts!DspInit, MicrophoneFacts!Dsp!Init,
     MicrophoneFacts!NoOp, MicrophoneFacts!NoRequest, MicrophoneFacts!PowerOn,
     MicrophoneFacts!Voice!VoiceInit

LEMMA SamePress ==
  \A want \in BOOLEAN, by \in {"button", "call"} :
    MicrophonePart!Press(want, by) => MicrophoneFacts!Press(want, by)
  BY DEF MicrophonePart!Press, MicrophonePart!Takes, MicrophonePart!FirstStep,
     MicrophonePart!NoOp, MicrophonePart!socket, MicrophonePart!dsp,
     MicrophonePart!voice, MicrophoneFacts!Press, MicrophoneFacts!Takes,
     MicrophoneFacts!FirstStep, MicrophoneFacts!NoOp, MicrophoneFacts!socket,
     MicrophoneFacts!dsp, MicrophoneFacts!voice

LEMMA SameReconcile ==
  \A by \in {"event", "worker"} :
    MicrophonePart!Reconcile(by) => MicrophoneFacts!Reconcile(by)
  BY DEF MicrophonePart!Reconcile, MicrophonePart!Takes, MicrophonePart!FirstStep,
     MicrophonePart!Blocked, MicrophonePart!Fault, MicrophonePart!NoOp,
     MicrophonePart!socket, MicrophonePart!dsp, MicrophonePart!voice,
     MicrophoneFacts!Reconcile, MicrophoneFacts!Takes,
     MicrophoneFacts!FirstStep, MicrophoneFacts!Blocked, MicrophoneFacts!Fault,
     MicrophoneFacts!NoOp, MicrophoneFacts!socket, MicrophoneFacts!dsp,
     MicrophoneFacts!voice

LEMMA SameLightSteps ==
  /\ MicrophonePart!ClearLight => MicrophoneFacts!ClearLight
  /\ MicrophonePart!RecordMute => MicrophoneFacts!RecordMute
  BY DEF MicrophonePart!ClearLight, MicrophonePart!RecordMute, MicrophonePart!OtherVoice,
     MicrophonePart!socket, MicrophonePart!dsp, MicrophonePart!voice,
     MicrophonePart!At, MicrophonePart!GoTo, MicrophonePart!Ends,
     MicrophonePart!Fault, MicrophonePart!NoOp, MicrophoneFacts!ClearLight,
     MicrophoneFacts!RecordMute, MicrophoneFacts!OtherVoice,
     MicrophoneFacts!socket, MicrophoneFacts!dsp, MicrophoneFacts!voice,
     MicrophoneFacts!At, MicrophoneFacts!GoTo, MicrophoneFacts!Ends,
     MicrophoneFacts!Fault, MicrophoneFacts!NoOp

LEMMA SameRequestSteps ==
  /\ MicrophonePart!Send => MicrophoneFacts!Send
  /\ MicrophonePart!GotOk => MicrophoneFacts!GotOk
  /\ MicrophonePart!GotError => MicrophoneFacts!GotError
  BY DEF MicrophonePart!Send, MicrophonePart!GotOk, MicrophonePart!GotError,
     MicrophonePart!StepFails, MicrophonePart!Undoing, MicrophonePart!dsp,
     MicrophonePart!voice, MicrophonePart!mspent, MicrophonePart!At,
     MicrophonePart!GoTo, MicrophonePart!Ends, MicrophonePart!Fault,
     MicrophonePart!NoOp, MicrophoneFacts!Send, MicrophoneFacts!GotOk,
     MicrophoneFacts!GotError, MicrophoneFacts!StepFails,
     MicrophoneFacts!Undoing, MicrophoneFacts!dsp, MicrophoneFacts!voice,
     MicrophoneFacts!mspent, MicrophoneFacts!At, MicrophoneFacts!GoTo,
     MicrophoneFacts!Ends, MicrophoneFacts!Fault, MicrophoneFacts!NoOp

LEMMA SameEndings ==
  /\ MicrophonePart!Expires => MicrophoneFacts!Expires
  /\ MicrophonePart!Confirm => MicrophoneFacts!Confirm
  /\ MicrophonePart!ConfirmFails => MicrophoneFacts!ConfirmFails
  BY DEF MicrophonePart!Expires, MicrophonePart!Confirm, MicrophonePart!ConfirmFails,
     MicrophonePart!AbandonRequest, MicrophonePart!GivenUp,
     MicrophonePart!StepFails, MicrophonePart!Undoing,
     MicrophonePart!OtherVoice, MicrophonePart!socket, MicrophonePart!dsp,
     MicrophonePart!voice, MicrophonePart!At, MicrophonePart!GoTo,
     MicrophonePart!Ends, MicrophonePart!Fault, MicrophonePart!NoOp,
     MicrophoneFacts!Expires, MicrophoneFacts!Confirm,
     MicrophoneFacts!ConfirmFails, MicrophoneFacts!AbandonRequest,
     MicrophoneFacts!GivenUp, MicrophoneFacts!StepFails,
     MicrophoneFacts!Undoing, MicrophoneFacts!OtherVoice,
     MicrophoneFacts!socket, MicrophoneFacts!dsp, MicrophoneFacts!voice,
     MicrophoneFacts!At, MicrophoneFacts!GoTo, MicrophoneFacts!Ends,
     MicrophoneFacts!Fault, MicrophoneFacts!NoOp

LEMMA SameNotified ==
  MicrophonePart!Notified => MicrophoneFacts!Notified
  BY DEF MicrophonePart!Notified, MicrophonePart!Blocked, MicrophonePart!Voice!Reset,
     MicrophonePart!socket, MicrophonePart!dsp, MicrophonePart!voice,
     MicrophonePart!mspent, MicrophonePart!NoOp, MicrophonePart!Voice!Clear,
     MicrophonePart!Voice!Set, MicrophonePart!Voice!Lit,
     MicrophonePart!Voice!shown, MicrophonePart!Voice!MutexFree,
     MicrophonePart!Voice!Handled, MicrophoneFacts!Notified,
     MicrophoneFacts!Blocked, MicrophoneFacts!Voice!Reset,
     MicrophoneFacts!socket, MicrophoneFacts!dsp, MicrophoneFacts!voice,
     MicrophoneFacts!mspent, MicrophoneFacts!NoOp, MicrophoneFacts!Voice!Clear,
     MicrophoneFacts!Voice!Set, MicrophoneFacts!Voice!Lit,
     MicrophoneFacts!Voice!shown, MicrophoneFacts!Voice!MutexFree,
     MicrophoneFacts!Voice!Handled

LEMMA SameTalks ==
  MicrophonePart!Talks => MicrophoneFacts!Talks
  BY DEF MicrophonePart!Talks, MicrophonePart!FeedbackStep, MicrophonePart!Blocked,
     MicrophonePart!NoOp, MicrophonePart!mic, MicrophonePart!socket,
     MicrophonePart!dsp, MicrophonePart!mspent, MicrophonePart!Voice!Handles,
     MicrophonePart!Voice!Withdrawn, MicrophonePart!Voice!Permitted,
     MicrophonePart!Voice!Applied, MicrophonePart!Voice!Cue,
     MicrophonePart!Voice!Ended, MicrophonePart!Voice!Retried,
     MicrophonePart!Voice!Reported, MicrophonePart!Voice!States,
     MicrophonePart!Voice!Clear, MicrophonePart!Voice!Set,
     MicrophonePart!Voice!Lit, MicrophonePart!Voice!shown,
     MicrophonePart!Voice!MutexFree, MicrophonePart!Voice!Handled,
     MicrophoneFacts!Talks, MicrophoneFacts!FeedbackStep,
     MicrophoneFacts!Blocked, MicrophoneFacts!NoOp, MicrophoneFacts!mic,
     MicrophoneFacts!socket, MicrophoneFacts!dsp, MicrophoneFacts!mspent,
     MicrophoneFacts!Voice!Handles, MicrophoneFacts!Voice!Withdrawn,
     MicrophoneFacts!Voice!Permitted, MicrophoneFacts!Voice!Applied,
     MicrophoneFacts!Voice!Cue, MicrophoneFacts!Voice!Ended,
     MicrophoneFacts!Voice!Retried, MicrophoneFacts!Voice!Reported,
     MicrophoneFacts!Voice!States, MicrophoneFacts!Voice!Clear,
     MicrophoneFacts!Voice!Set, MicrophoneFacts!Voice!Lit,
     MicrophoneFacts!Voice!shown, MicrophoneFacts!Voice!MutexFree,
     MicrophoneFacts!Voice!Handled

LEMMA SameMuteDspWorks ==
  MicrophonePart!DspWorks => MicrophoneFacts!DspWorks
  BY DEF MicrophonePart!DspWorks, MicrophonePart!DspResets, MicrophonePart!DspBoots,
     MicrophonePart!RestoreReads, MicrophonePart!Restored, MicrophonePart!Serve,
     MicrophonePart!Executes, MicrophonePart!ServeOk, MicrophonePart!Answered,
     MicrophonePart!NoRequest, MicrophonePart!Mute, MicrophonePart!PowerOn,
     MicrophonePart!mic, MicrophonePart!socket, MicrophonePart!dsp,
     MicrophonePart!voice, MicrophonePart!mspent, MicrophonePart!Dsp!Accept,
     MicrophonePart!Dsp!AnswerOk, MicrophonePart!Dsp!Execute,
     MicrophonePart!Dsp!Boot, MicrophonePart!Dsp!Reset,
     MicrophoneFacts!DspWorks, MicrophoneFacts!DspResets,
     MicrophoneFacts!DspBoots, MicrophoneFacts!RestoreReads,
     MicrophoneFacts!Restored, MicrophoneFacts!Serve, MicrophoneFacts!Executes,
     MicrophoneFacts!ServeOk, MicrophoneFacts!Answered,
     MicrophoneFacts!NoRequest, MicrophoneFacts!Mute, MicrophoneFacts!PowerOn,
     MicrophoneFacts!mic, MicrophoneFacts!socket, MicrophoneFacts!dsp,
     MicrophoneFacts!voice, MicrophoneFacts!mspent, MicrophoneFacts!Dsp!Accept,
     MicrophoneFacts!Dsp!AnswerOk, MicrophoneFacts!Dsp!Execute,
     MicrophoneFacts!Dsp!Boot, MicrophoneFacts!Dsp!Reset

LEMMA SameMuteFaults ==
  /\ MicrophonePart!ServeFails => MicrophoneFacts!ServeFails
  /\ MicrophonePart!DspCrashes => MicrophoneFacts!DspCrashes
  /\ MicrophonePart!McuRestarts => MicrophoneFacts!McuRestarts
  BY DEF MicrophonePart!ServeFails, MicrophonePart!DspCrashes,
     MicrophonePart!McuRestarts, MicrophonePart!Answered,
     MicrophonePart!AbandonRequest, MicrophonePart!GivenUp,
     MicrophonePart!NoRequest, MicrophonePart!NoOp, MicrophonePart!At,
     MicrophonePart!Fault, MicrophonePart!mic, MicrophonePart!dsp,
     MicrophonePart!voice, MicrophonePart!Dsp!AnswerError,
     MicrophonePart!Dsp!Waiting, MicrophonePart!Dsp!Without,
     MicrophonePart!Dsp!Crash, MicrophoneFacts!ServeFails,
     MicrophoneFacts!DspCrashes, MicrophoneFacts!McuRestarts,
     MicrophoneFacts!Answered, MicrophoneFacts!AbandonRequest,
     MicrophoneFacts!GivenUp, MicrophoneFacts!NoRequest, MicrophoneFacts!NoOp,
     MicrophoneFacts!At, MicrophoneFacts!Fault, MicrophoneFacts!mic,
     MicrophoneFacts!dsp, MicrophoneFacts!voice,
     MicrophoneFacts!Dsp!AnswerError, MicrophoneFacts!Dsp!Waiting,
     MicrophoneFacts!Dsp!Without, MicrophoneFacts!Dsp!Crash

LEMMA SameMicrophoneNext == MicrophonePart!Next => MicrophoneFacts!Next
  BY SamePress, SameReconcile, SameLightSteps, SameRequestSteps, SameEndings, SameNotified,
     SameTalks, SameMuteDspWorks, SameMuteFaults
     DEF MicrophonePart!Next, MicrophoneFacts!Next, MicrophonePart!Works, MicrophoneFacts!Works

LEMMA MicrophoneStarts ==
  SpeakerInit /\ part = "microphone" => MicrophoneFacts!Init
  BY SameMicrophoneInit DEF SpeakerInit

LEMMA MicrophoneMoves ==
  part = "microphone" /\ [SpeakerNext]_speakerVars =>
    (part = "microphone")' /\ [MicrophoneFacts!Next]_(MicrophoneFacts!mvars)
<1> SUFFICES ASSUME part = "microphone", [SpeakerNext]_speakerVars
             PROVE  (part = "microphone")' /\ [MicrophoneFacts!Next]_(MicrophoneFacts!mvars)
  OBVIOUS
<1>1. CASE SpeakerNext
  <2>1. part' = "microphone" /\ MicrophonePart!Next
    BY <1>1 DEF SpeakerNext
  <2> QED
    BY <2>1, SameMicrophoneNext
<1>2. CASE UNCHANGED speakerVars
  BY <1>2 DEF speakerVars, microphoneVars, serverVars, MicrophoneFacts!mvars,
     MicrophoneFacts!mic, MicrophoneFacts!socket, MicrophoneFacts!dsp,
     MicrophoneFacts!voice, MicrophoneFacts!mspent
<1> QED
  BY <1>1, <1>2

LEMMA MicrophoneBehaves ==
  SpeakerSpec => MicrophoneFacts!Spec \/ [](~(part = "microphone"))
<1>1. ~(part = "microphone") /\ [SpeakerNext]_speakerVars => (~(part = "microphone"))'
  BY PartStays
<1> QED
  BY MicrophoneStarts, MicrophoneMoves, <1>1, PTL DEF SpeakerSpec, MicrophoneFacts!Spec

(* mic_mute_controller.go and dsp-interface beside the other services: the *)
(* mute light is not lit, at rest, over an open microphone.                *)
THEOREM SpeakerLightTruth == SpeakerSpec => []LightTruth
<1>1. MicrophoneFacts!Spec => []MicrophoneFacts!LightTruth
  BY MicrophoneFacts!LitOverMuted
<1>2. MicrophoneFacts!LightTruth => LightTruth
  BY DEF LightTruth, MicrophonePart!LightTruth, MicrophoneFacts!LightTruth,
     MicrophonePart!NoOp, MicrophoneFacts!NoOp
<1>3. ~(part = "microphone") => LightTruth
  BY DEF LightTruth
<1> QED
  BY MicrophoneBehaves, <1>1, <1>2, <1>3, PTL
-----------------------------------------------------------------------------
OutputsFacts == INSTANCE OutputsProofs WITH MaxCalls <- MaxOutputCalls

(* The machine of the outputs that is composed is the one of the proofs. *)
LEMMA SameOutputsInit == OutputsPart!Init => OutputsFacts!Init
  BY DEF OutputsPart!Init, OutputsPart!Muted, OutputsPart!Unread, OutputsPart!Outs,
     OutputsPart!Bits, OutputsPart!Processes, OutputsFacts!Init, OutputsFacts!Muted,
     OutputsFacts!Unread, OutputsFacts!Outs, OutputsFacts!Bits, OutputsFacts!Processes

LEMMA SameUpdates ==
  \A p \in OutputsPart!Processes :
    /\ OutputsPart!LockAndRead(p) => OutputsFacts!LockAndRead(p)
    /\ OutputsPart!Write(p) => OutputsFacts!Write(p)
    /\ OutputsPart!WriteFails(p) => OutputsFacts!WriteFails(p)
  BY DEF OutputsPart!Write, OutputsPart!WriteFails, OutputsPart!LockAndRead,
     OutputsPart!LockFree, OutputsPart!Unlock, OutputsPart!Written, OutputsPart!Target,
     OutputsPart!Goal, OutputsPart!Update, OutputsPart!Outs, OutputsPart!Processes,
     OutputsPart!register, OutputsPart!controller, OutputsPart!spent, OutputsPart!Unread,
     OutputsFacts!Write, OutputsFacts!WriteFails, OutputsFacts!LockAndRead,
     OutputsFacts!LockFree, OutputsFacts!Unlock, OutputsFacts!Written,
     OutputsFacts!Target, OutputsFacts!Goal, OutputsFacts!Update, OutputsFacts!Outs,
     OutputsFacts!Processes, OutputsFacts!register, OutputsFacts!controller,
     OutputsFacts!spent, OutputsFacts!Unread

LEMMA SameController ==
  /\ OutputsPart!Start => OutputsFacts!Start
  /\ OutputsPart!InitializeEnds => OutputsFacts!InitializeEnds
  /\ OutputsPart!DacFails => OutputsFacts!DacFails
  /\ OutputsPart!OpenerSettles => OutputsFacts!OpenerSettles
  /\ OutputsPart!OpenOutputs => OutputsFacts!OpenOutputs
  /\ OutputsPart!Stop => OutputsFacts!Stop
  /\ OutputsPart!MuteAll => OutputsFacts!MuteAll
  /\ \A o, m : OutputsPart!SetMute(o, m) => OutputsFacts!SetMute(o, m)
  BY DEF OutputsPart!Start, OutputsPart!InitializeEnds, OutputsPart!DacFails,
     OutputsPart!OpenerSettles, OutputsPart!OpenOutputs, OutputsPart!SetMute,
     OutputsPart!Stop, OutputsPart!MuteAll, OutputsPart!Begin, OutputsPart!Silence,
     OutputsPart!Update, OutputsPart!Muted, OutputsPart!Outs, OutputsPart!register,
     OutputsPart!controller, OutputsPart!spent, OutputsFacts!Start,
     OutputsFacts!InitializeEnds, OutputsFacts!DacFails, OutputsFacts!OpenerSettles,
     OutputsFacts!OpenOutputs, OutputsFacts!SetMute, OutputsFacts!Stop,
     OutputsFacts!MuteAll, OutputsFacts!Begin, OutputsFacts!Silence, OutputsFacts!Update,
     OutputsFacts!Muted, OutputsFacts!Outs, OutputsFacts!register,
     OutputsFacts!controller, OutputsFacts!spent

LEMMA SameEnds ==
  /\ OutputsPart!Exit => OutputsFacts!Exit
  /\ OutputsPart!PulseReset => OutputsFacts!PulseReset
  /\ OutputsPart!PulseEnds => OutputsFacts!PulseEnds
  /\ \A p : OutputsPart!Killed(p) => OutputsFacts!Killed(p)
  BY DEF OutputsPart!Exit, OutputsPart!Killed, OutputsPart!Gone, OutputsPart!Unlock,
     OutputsPart!PulseReset, OutputsPart!PulseEnds, OutputsPart!Unread,
     OutputsPart!Update, OutputsPart!Outs, OutputsPart!Processes, OutputsPart!register,
     OutputsPart!controller, OutputsPart!spent, OutputsFacts!Exit, OutputsFacts!Killed,
     OutputsFacts!Gone, OutputsFacts!Unlock, OutputsFacts!PulseReset,
     OutputsFacts!PulseEnds, OutputsFacts!Unread, OutputsFacts!Update, OutputsFacts!Outs,
     OutputsFacts!Processes, OutputsFacts!register, OutputsFacts!controller,
     OutputsFacts!spent

LEMMA SameOutputsNext == OutputsPart!Next => OutputsFacts!Next
  BY SameUpdates, SameController, SameEnds
     DEF OutputsPart!Next, OutputsPart!Works, OutputsPart!Outs, OutputsPart!Processes,
     OutputsFacts!Next, OutputsFacts!Works, OutputsFacts!Outs, OutputsFacts!Processes

(* The other machines leave the outputs alone. *)
LEMMA OutputsBehave == SpeakerSpec => OutputsFacts!Spec
<1>1. SpeakerInit => OutputsFacts!Init
  BY SameOutputsInit DEF SpeakerInit
<1>2. [SpeakerNext]_speakerVars => [OutputsFacts!Next]_(OutputsFacts!ovars)
  <2>1. outputsVars' = outputsVars => UNCHANGED OutputsFacts!ovars
    BY DEF outputsVars, OutputsFacts!ovars, OutputsFacts!register, OutputsFacts!controller,
       OutputsFacts!spent
  <2>2. [SpeakerNext]_speakerVars => outputsVars' = outputsVars \/ OutputsPart!Next
    BY DEF SpeakerNext, speakerVars
  <2> QED
    BY <2>1, <2>2, SameOutputsNext
<1> QED
  BY <1>1, <1>2, PTL DEF SpeakerSpec, OutputsFacts!Spec

(* The register of the I2C expander beside the other services: the         *)
(* amplifier is not energised over a muted DAC.                            *)
THEOREM SpeakerAmpOverDac == SpeakerSpec => []AmpOnlyOverDac
<1>1. OutputsFacts!AmpOnlyOverDac => AmpOnlyOverDac
  BY DEF AmpOnlyOverDac, OutputsPart!AmpOnlyOverDac, OutputsFacts!AmpOnlyOverDac
<1> QED
  BY OutputsBehave, OutputsFacts!AmpOverDac, <1>1, PTL

(* The register of the I2C expander beside the other services: the two     *)
(* processes that share it do not undo each other's writes.                *)
THEOREM SpeakerRegisterShared == SpeakerSpec => []RegisterAgrees
<1>1. OutputsFacts!RegisterAgrees => RegisterAgrees
  BY DEF RegisterAgrees, OutputsPart!RegisterAgrees, OutputsFacts!RegisterAgrees,
     OutputsPart!Outs, OutputsFacts!Outs
<1> QED
  BY OutputsBehave, OutputsFacts!RegisterShared, <1>1, PTL

-----------------------------------------------------------------------------
(* MicCapture: the types *)

CaptureFlags == {recorder, gate, listening, enabled, muteFile} \subseteq BOOLEAN
CaptureCounts ==
  /\ capture \in {"waiting", "starting", "capturing", "ended", "blocking"}
  /\ {bound, generation, sequence, hubGeneration, dspRun, recorded, dspRestarts,
      muteWrites, captureFaults} \subseteq Nat
  /\ periods \in 0..SourcePeriods
CaptureMembers ==
  /\ hub \subseteq Clients /\ awaited \subseteq Clients
  /\ client \in [Clients -> Connections]
  /\ \A c \in Clients : Len(client[c].queue) <= QueuePeriods

LEMMA CaptureTypeParts == CaptureTypeOK <=> CaptureFlags /\ CaptureCounts /\ CaptureMembers
  BY DEF CaptureTypeOK, CaptureFlags, CaptureCounts, CaptureMembers

LEMMA AwayTyped ==
  /\ Away \in Connections
  /\ Away.at = "away" /\ Len(Away.queue) = 0
  /\ Away.hand = NoRecord /\ Away.got = NoRecord
<1>1. <<>> \in Seq(Records) /\ Len(<<>>) = 0
  BY EmptySeq
<1>2. NoRecord \in Records
  BY DEF NoRecord, Records
<1> QED
  BY <1>1, <1>2 DEF Away, Connections

Joined(h) == [Away EXCEPT !.at = "header", !.header = h]

LEMMA JoinsTyped ==
  ASSUME NEW h \in Nat
  PROVE  /\ Joined(h) \in Connections
         /\ Joined(h).at = "header" /\ Joined(h).header = h /\ ~Joined(h).stopped
         /\ Len(Joined(h).queue) = 0
         /\ Joined(h).hand = NoRecord /\ Joined(h).got = NoRecord
<1>1. <<>> \in Seq(Records) /\ Len(<<>>) = 0
  BY EmptySeq
<1>2. NoRecord \in Records
  BY DEF NoRecord, Records
<1> QED
  BY <1>1, <1>2 DEF Joined, Away, Connections

LEMMA CaptureBounds ==
  ASSUME CaptureAssumption
  PROVE  QueuePeriods \in Nat /\ SourcePeriods \in Nat /\ 0 \in 0..SourcePeriods
  BY DEF CaptureAssumption

LEMMA CaptureTypesInit == CaptureAssumption /\ CaptureInit => CaptureTypeOK
<1> SUFFICES ASSUME CaptureAssumption, CaptureInit PROVE CaptureTypeOK
  OBVIOUS
<1>1. client = [c \in Clients |-> Away] /\ hub = {} /\ awaited = {}
  BY DEF CaptureInit
<1>2. CaptureMembers
  BY <1>1, AwayTyped, CaptureBounds DEF CaptureMembers
<1>3. CaptureFlags
  BY DEF CaptureInit, CaptureFlags
<1>4. CaptureCounts
  <2>1. /\ capture = "waiting" /\ bound = 0 /\ generation = 0 /\ sequence = 0 /\ periods = 0
        /\ hubGeneration = 0 /\ dspRun = 0
        /\ recorded = 0 /\ dspRestarts = 0 /\ muteWrites = 0 /\ captureFaults = 0
    BY DEF CaptureInit
  <2> QED
    BY <2>1, CaptureBounds DEF CaptureCounts
<1> QED
  BY <1>2, <1>3, <1>4, CaptureTypeParts

USE DEF CaptureMembers, CaptureCounts

(* What the hub and the writers of the sockets do to a client. *)
LEMMA QueueGrows ==
  ASSUME CaptureMembers, CaptureCounts, CaptureAssumption, NEW c \in Clients, NEW r \in Records, HasRoom(c)
  PROVE  /\ Queued(c, r) \in Connections
         /\ Len(Queued(c, r).queue) <= QueuePeriods
         /\ Len(Queued(c, r).queue) = Len(client[c].queue) + 1
         /\ \A i \in 1..Len(client[c].queue) : Queued(c, r).queue[i] = client[c].queue[i]
         /\ Queued(c, r).queue[Len(client[c].queue) + 1] = r
         /\ Queued(c, r).at = client[c].at /\ Queued(c, r).header = client[c].header
         /\ Queued(c, r).hand = client[c].hand /\ Queued(c, r).got = client[c].got
         /\ Queued(c, r).stopped = client[c].stopped
<1>1. client[c] \in Connections /\ client[c].queue \in Seq(Records)
  BY DEF Connections
<1>2. Queued(c, r).queue = Append(client[c].queue, r)
  BY <1>1 DEF Queued, Connections
<1>3. Append(client[c].queue, r) \in Seq(Records)
  BY <1>1
<1>4. Len(Append(client[c].queue, r)) = Len(client[c].queue) + 1
      /\ Append(client[c].queue, r)[Len(client[c].queue) + 1] = r
      /\ \A i \in 1..Len(client[c].queue) : Append(client[c].queue, r)[i] = client[c].queue[i]
  BY <1>1
<1>5. Queued(c, r) \in Connections
  BY <1>1, <1>3 DEF Queued, Connections
<1>6. /\ Queued(c, r).at = client[c].at /\ Queued(c, r).header = client[c].header
      /\ Queued(c, r).hand = client[c].hand /\ Queued(c, r).got = client[c].got
      /\ Queued(c, r).stopped = client[c].stopped
  BY <1>1 DEF Queued, Connections
<1>7. Len(client[c].queue) \in Nat
  BY <1>1
<1>8. Len(client[c].queue) + 1 <= QueuePeriods
  BY <1>7, CaptureBounds DEF HasRoom
<1> QED
  BY <1>2, <1>4, <1>5, <1>6, <1>8

LEMMA BroadcastTypes ==
  ASSUME CaptureMembers, CaptureCounts, CaptureAssumption, NEW r \in Records, Broadcast(r)
  PROVE  /\ hub' \subseteq Clients
         /\ client' \in [Clients -> Connections]
         /\ \A c \in Clients : Len(client'[c].queue) <= QueuePeriods
<1>1. \A c \in Clients : Stopped(client[c]) \in Connections /\ Stopped(client[c]).queue = client[c].queue
  BY DEF Stopped, Connections
<1>2. ASSUME NEW c \in Clients
      PROVE client'[c] \in Connections /\ Len(client'[c].queue) <= QueuePeriods
  <2>1. CASE c \notin hub
    BY <2>1 DEF Broadcast
  <2>2. CASE c \in hub /\ HasRoom(c)
    BY <2>2, QueueGrows DEF Broadcast
  <2>3. CASE c \in hub /\ ~HasRoom(c)
    BY <2>3, <1>1 DEF Broadcast
  <2> QED
    BY <2>1, <2>2, <2>3
<1>3. client' = [c \in Clients |-> client'[c]]
  BY DEF Broadcast
<1> QED
  BY <1>2, <1>3 DEF Broadcast

LEMMA ServesTypes ==
  ASSUME CaptureMembers, CaptureCounts, NEW c \in Clients, NEW next \in Connections, Serves(c, next),
         Len(next.queue) <= QueuePeriods
  PROVE  /\ client' \in [Clients -> Connections]
         /\ \A d \in Clients : Len(client'[d].queue) <= QueuePeriods
  BY DEF Serves

LEMMA ClientTypes ==
  ASSUME CaptureMembers, CaptureCounts, CaptureAssumption, NEW c \in Clients, ClientWorks(c)
  PROVE  /\ client' \in [Clients -> Connections]
         /\ \A d \in Clients : Len(client'[d].queue) <= QueuePeriods
         /\ hub' \subseteq Clients /\ awaited' \subseteq Clients
         /\ captureFaults' \in Nat
<1> DEFINE me == client[c]
<1>0. me \in Connections /\ me.queue \in Seq(Records) /\ Len(me.queue) <= QueuePeriods
  BY DEF Connections
<1>1. CASE TakeRecord(c)
  <2>1. CASE me.queue # <<>> /\ Serves(c, [me EXCEPT !.at = "writing", !.hand = Head(me.queue), !.queue = Tail(@)])
    <3> DEFINE next == [me EXCEPT !.at = "writing", !.hand = Head(me.queue), !.queue = Tail(@)]
    <3>1. Head(me.queue) \in Records /\ Tail(me.queue) \in Seq(Records)
          /\ Len(Tail(me.queue)) <= QueuePeriods
      BY <1>0, <2>1, HeadTailProperties DEF CaptureAssumption
    <3>2. next \in Connections /\ Len(next.queue) <= QueuePeriods
      BY <1>0, <3>1 DEF Connections
    <3> QED
      BY <1>1, <2>1, <3>2, ServesTypes DEF TakeRecord, Serves
  <2>2. CASE Serves(c, [me EXCEPT !.at = "leaving"])
    <3>1. [me EXCEPT !.at = "leaving"] \in Connections /\ [me EXCEPT !.at = "leaving"].queue = me.queue
      BY <1>0 DEF Connections
    <3> QED
      BY <1>0, <1>1, <2>2, <3>1, ServesTypes DEF TakeRecord, Serves
  <2> QED
    BY <1>1, <2>1, <2>2 DEF TakeRecord
<1>2. CASE Write(c)
  <2>1. /\ [me EXCEPT !.at = "idle"] \in Connections
        /\ [me EXCEPT !.at = "idle"].queue = me.queue
        /\ [me EXCEPT !.at = "idle", !.got = me.hand, !.hand = NoRecord] \in Connections
        /\ [me EXCEPT !.at = "idle", !.got = me.hand, !.hand = NoRecord].queue = me.queue
    BY <1>0 DEF Connections, NoRecord, Records
  <2> QED
    BY <1>0, <1>2, <2>1, ServesTypes DEF Write, Serves
<1>3. CASE WriteFails(c)
  <2>1. [me EXCEPT !.at = "leaving"] \in Connections /\ [me EXCEPT !.at = "leaving"].queue = me.queue
    BY <1>0 DEF Connections
  <2> QED
    BY <1>0, <1>3, <2>1, ServesTypes DEF WriteFails, Serves, Fault
<1>4. CASE Leave(c)
  <2>1. Away \in Connections /\ Len(Away.queue) <= QueuePeriods
    BY AwayTyped DEF CaptureAssumption
  <2> QED
    BY <1>4, <2>1 DEF Leave
<1> QED
  BY <1>1, <1>2, <1>3, <1>4 DEF ClientWorks

LEMMA FlagsStay == ASSUME CaptureFlags, [CaptureNext]_cvars PROVE CaptureFlags'
<1> USE DEF mainVars, hubVars, outside, CaptureFlags
<1>1. CASE CaptureMain
  BY <1>1 DEF CaptureMain, FindDsp, StartCapture, PollMute, TakePeriod, CaptureEnds, Block, BlockEnds
<1>2. CASE StartFails \/ Record \/ RecorderDies \/ ServerFails \/ Restart
  BY <1>2 DEF StartFails, Record, RecorderDies, ServerFails, Restart
<1>3. CASE \E c \in Clients : ConnectClient(c) \/ ClientWorks(c)
  BY <1>3 DEF ConnectClient, ClientWorks, TakeRecord, Write, WriteFails, Leave, Serves
<1>4. CASE DspStarts \/ DspEnds \/ MuteWritten
  BY <1>4 DEF DspStarts, DspEnds, MuteWritten
<1>5. CASE UNCHANGED cvars
  BY <1>5 DEF cvars
<1> QED
  BY <1>1, <1>2, <1>3, <1>4, <1>5 DEF CaptureNext

LEMMA CountsStay == ASSUME CaptureCounts, CaptureAssumption, [CaptureNext]_cvars PROVE CaptureCounts'
<1> USE CaptureBounds DEF mainVars, hubVars, outside, CaptureCounts
<1>1. CASE CaptureMain
  BY <1>1 DEF CaptureMain, FindDsp, StartCapture, PollMute, TakePeriod, CaptureEnds, Block, BlockEnds, Goes, Fault
<1>2. CASE StartFails \/ Record \/ RecorderDies \/ ServerFails \/ Restart
  BY <1>2 DEF StartFails, Record, RecorderDies, ServerFails, Restart, Goes, Fault
<1>3. CASE \E c \in Clients : ConnectClient(c) \/ ClientWorks(c)
  BY <1>3 DEF ConnectClient, ClientWorks, TakeRecord, Write, WriteFails, Leave, Serves, Fault
<1>4. CASE DspStarts \/ DspEnds \/ MuteWritten
  BY <1>4 DEF DspStarts, DspEnds, MuteWritten
<1>5. CASE UNCHANGED cvars
  BY <1>5 DEF cvars
<1> QED
  BY <1>1, <1>2, <1>3, <1>4, <1>5 DEF CaptureNext
LEMMA MembersStay ==
  ASSUME CaptureMembers, CaptureCounts, CaptureAssumption, [CaptureNext]_cvars
  PROVE  CaptureMembers'
<1>1. CASE UNCHANGED <<hub, client, awaited>>
  BY <1>1
<1>2. CASE TakePeriod
  <2>1. [generation |-> generation, sequence |-> sequence] \in Records
    BY DEF Records
  <2>2. CASE Broadcast([generation |-> generation, sequence |-> sequence])
    BY <1>2, <2>1, <2>2, BroadcastTypes DEF TakePeriod
  <2> QED
    BY <1>1, <1>2, <2>2 DEF TakePeriod
<1>3. CASE BlockEnds \/ Block
  <2>1. \A c \in Clients : Stopped(client[c]) \in Connections /\ Stopped(client[c]).queue = client[c].queue
    BY DEF Stopped, Connections
  <2> QED
    BY <1>3, <2>1 DEF Block, BlockEnds, hubVars
<1>4. CASE Restart
  BY <1>4, AwayTyped, CaptureBounds DEF Restart
<1>5. CASE \E c \in Clients : ConnectClient(c)
  <2> PICK c \in Clients : ConnectClient(c)
    BY <1>5
  <2>1. Joined(hubGeneration) \in Connections /\ Len(Joined(hubGeneration).queue) <= QueuePeriods
    BY JoinsTyped, CaptureBounds
  <2> QED
    BY <2>1 DEF ConnectClient, Joined
<1>6. CASE \E c \in Clients : ClientWorks(c)
  BY <1>6, ClientTypes
<1>7. UNCHANGED <<hub, client, awaited>> \/ TakePeriod \/ BlockEnds \/ Block \/ Restart
      \/ (\E c \in Clients : ConnectClient(c)) \/ (\E c \in Clients : ClientWorks(c))
  BY DEF CaptureNext, CaptureMain, FindDsp, StartCapture, PollMute, CaptureEnds, StartFails, Record,
     RecorderDies, ServerFails, DspStarts, DspEnds, MuteWritten, cvars, hubVars
<1> QED
  BY <1>1, <1>2, <1>3, <1>4, <1>5, <1>6, <1>7

(* main, hub and clients of mic-capture are well typed, and no queue is    *)
(* longer than its size.                                                   *)
THEOREM CaptureTypes == ASSUME CaptureAssumption PROVE CaptureSpec => []CaptureTypeOK
<1>1. CaptureTypeOK /\ [CaptureNext]_cvars => CaptureTypeOK'
  BY FlagsStay, CountsStay, MembersStay, CaptureTypeParts
     DEF CaptureTypeOK, CaptureFlags
<1> QED
  BY CaptureTypesInit, <1>1, PTL DEF CaptureSpec
-----------------------------------------------------------------------------
(* MicCapture: what a client is given.  What its steps do to its records.  *)
LEMMA SameRecords ==
  ASSUME NEW me, NEW you, NEW end, Ends(me, end),
         you.header = me.header, you.queue = me.queue, you.hand = me.hand, you.got = me.got
  PROVE  Ends(you, end)
  BY DEF Ends

LEMMA NothingEnds ==
  ASSUME NEW me, NEW end, Len(me.queue) = 0, me.hand = NoRecord, me.got = NoRecord
  PROVE  Ends(me, end)
  BY DEF Ends

LEMMA GrowsEnds ==
  ASSUME CaptureMembers, CaptureCounts, CaptureAssumption, NEW c \in Clients, HasRoom(c), NEW end \in Nat,
         Ends(client[c], end)
  PROVE  Ends(Queued(c, [generation |-> client[c].header, sequence |-> end]), end + 1)
<1> DEFINE r == [generation |-> client[c].header, sequence |-> end]
           me == client[c]
           you == Queued(c, r)
<1>1. r \in Records /\ Len(me.queue) \in Nat
  BY DEF Records, Connections
<1>2. /\ Len(you.queue) = Len(me.queue) + 1
      /\ \A i \in 1..Len(me.queue) : you.queue[i] = me.queue[i]
      /\ you.queue[Len(me.queue) + 1] = r
      /\ you.header = me.header /\ you.hand = me.hand /\ you.got = me.got
  BY <1>1, QueueGrows
<1> HIDE DEF you
<1>5. Len(me.queue) \in Nat
  BY <1>1
<1>6. Len(you.queue) = Len(me.queue) + 1
  BY <1>2
<1>3. ASSUME NEW i \in 1..Len(you.queue)
      PROVE you.queue[i] = [generation |-> you.header,
                            sequence |-> (end + 1) - Len(you.queue) + i - 1]
  <2>1. CASE i = Len(me.queue) + 1
    <3>1. (end + 1) - Len(you.queue) + i - 1 = end
      BY <1>5, <1>6, <2>1
    <3> QED
      BY <1>2, <2>1, <3>1
  <2>2. CASE i \in 1..Len(me.queue)
    <3>1. (end + 1) - Len(you.queue) + i - 1 = end - Len(me.queue) + i - 1
      <4>1. \A n \in Nat, j \in Int : (end + 1) - (n + 1) + j - 1 = end - n + j - 1
        OBVIOUS
      <4>2. i \in Int
        BY <1>5, <2>2
      <4>3. (end + 1) - (Len(me.queue) + 1) + i - 1 = end - Len(me.queue) + i - 1
        BY <1>5, <4>1, <4>2
      <4> QED
        BY <1>6, <4>3
    <3> QED
      BY <1>2, <2>2, <3>1 DEF Ends
  <2>3. i = Len(me.queue) + 1 \/ i \in 1..Len(me.queue)
    BY <1>5, <1>6
  <2> QED
    BY <2>1, <2>2, <2>3
<1>4. (end + 1) - Len(you.queue) = end - Len(me.queue)
  BY <1>5, <1>6
<1>7. Ends(you, end + 1)
  BY <1>2, <1>3, <1>4 DEF Ends
<1> QED
  BY <1>7 DEF you

LEMMA TakenEnds ==
  ASSUME NEW me \in Connections, NEW end \in Nat, Ends(me, end), me.header > 0,
         me.queue # <<>>, me.hand = NoRecord
  PROVE  LET you == [me EXCEPT !.at = "writing", !.hand = Head(me.queue), !.queue = Tail(@)]
         IN  Ends(you, end) /\ HandFits(you) /\ you.header = me.header /\ you.stopped = me.stopped
<1> DEFINE you == [me EXCEPT !.at = "writing", !.hand = Head(me.queue), !.queue = Tail(@)]
<1>1. me.queue \in Seq(Records) /\ Len(me.queue) \in Nat /\ me.header \in Nat
  BY DEF Connections
<1>2. /\ Head(me.queue) = me.queue[1]
      /\ Len(Tail(me.queue)) = Len(me.queue) - 1 /\ Len(me.queue) >= 1
      /\ \A i \in 1..Len(me.queue) - 1 : Tail(me.queue)[i] = me.queue[i + 1]
  BY <1>1, HeadTailProperties
<1>3. /\ you.header = me.header /\ you.stopped = me.stopped /\ you.at = "writing"
      /\ you.hand = Head(me.queue) /\ you.queue = Tail(me.queue) /\ you.got = me.got
  BY DEF Connections
<1>4. Head(me.queue) = [generation |-> me.header, sequence |-> end - Len(me.queue)]
  <2>1. end - Len(me.queue) + 1 - 1 = end - Len(me.queue) /\ 1 \in 1..Len(me.queue)
    BY <1>1, <1>2
  <2> QED
    BY <1>2, <2>1 DEF Ends
<1>5. you.hand # NoRecord
  BY <1>3, <1>4 DEF NoRecord
<1> HIDE DEF you
<1>8. Len(me.queue) \in Nat /\ Len(you.queue) = Len(me.queue) - 1
  BY <1>1, <1>2, <1>3
<1>6. Ends(you, end)
  <2>1. \A i \in 1..Len(you.queue) :
           you.queue[i] = [generation |-> you.header, sequence |-> end - Len(you.queue) + i - 1]
    <3> SUFFICES ASSUME NEW i \in 1..Len(you.queue)
                 PROVE  you.queue[i] = [generation |-> you.header,
                                        sequence |-> end - Len(you.queue) + i - 1]
      OBVIOUS
    <3>1. /\ i + 1 \in 1..Len(me.queue)
          /\ end - Len(you.queue) + i - 1 = end - Len(me.queue) + (i + 1) - 1
      BY <1>8
    <3>2. you.queue[i] = me.queue[i + 1]
      BY <1>1, <1>2, <1>3
    <3> QED
      BY <1>3, <3>1, <3>2 DEF Ends
  <2>2. end - Len(you.queue) - 1 = end - Len(me.queue)
        /\ end - Len(you.queue) - 2 = end - Len(me.queue) - 1
    BY <1>8
  <2>3. me.got # NoRecord => me.got = [generation |-> me.header, sequence |-> end - Len(me.queue) - 1]
    BY DEF Ends
  <2> QED
    BY <1>3, <1>4, <1>5, <2>1, <2>2, <2>3 DEF Ends
<1>7. HandFits(you)
  BY <1>3, <1>5 DEF HandFits
<1> QED
  BY <1>3, <1>6, <1>7 DEF you

LEMMA WrittenEnds ==
  ASSUME NEW me \in Connections, NEW end \in Nat, Ends(me, end), HandFits(me), me.at = "writing"
  PROVE  LET you == [me EXCEPT !.at = "idle", !.got = me.hand, !.hand = NoRecord]
         IN  Ends(you, end) /\ HandFits(you) /\ you.header = me.header /\ you.stopped = me.stopped
<1> DEFINE you == [me EXCEPT !.at = "idle", !.got = me.hand, !.hand = NoRecord]
<1>1. /\ you.header = me.header /\ you.stopped = me.stopped /\ you.at = "idle"
      /\ you.hand = NoRecord /\ you.queue = me.queue /\ you.got = me.hand
  BY DEF Connections
<1> HIDE DEF you
<1>2. me.hand = [generation |-> me.header, sequence |-> end - Len(me.queue) - 1]
  BY DEF Ends, HandFits
<1> QED
  BY <1>1, <1>2 DEF Ends, HandFits, you

-----------------------------------------------------------------------------
LEMMA HubEmpties ==
  ASSUME HubOfThisRun, capture \notin {"capturing", "ended"}
  PROVE  hub = {}
  BY DEF HubOfThisRun

LEMMA HubStays ==
  ASSUME CaptureCounts, HubOfThisRun, [CaptureNext]_cvars
  PROVE  HubOfThisRun'
<1> USE DEF HubOfThisRun, mainVars, hubVars, outside
<1>1. CASE CaptureMain
  <2>1. CASE FindDsp
    BY <2>1 DEF FindDsp, Goes
  <2>2. CASE StartCapture
    BY <2>2 DEF StartCapture, Goes
  <2>3. CASE PollMute
    BY <2>3 DEF PollMute
  <2>4. CASE TakePeriod
    BY <2>4 DEF TakePeriod, Broadcast
  <2>5. CASE CaptureEnds \/ Block \/ BlockEnds
    BY <2>5 DEF CaptureEnds, Block, BlockEnds, Goes
  <2> QED
    BY <1>1, <2>1, <2>2, <2>3, <2>4, <2>5 DEF CaptureMain
<1>2. CASE StartFails
  BY <1>2 DEF StartFails, Goes
<1>3. CASE Record \/ RecorderDies \/ ServerFails \/ DspStarts \/ DspEnds \/ MuteWritten
  BY <1>3 DEF Record, RecorderDies, ServerFails, DspStarts, DspEnds, MuteWritten
<1>4. CASE Restart
  BY <1>4 DEF Restart
<1>5. CASE \E c \in Clients : ConnectClient(c)
  BY <1>5 DEF ConnectClient
<1>6. CASE \E c \in Clients : ClientWorks(c)
  BY <1>6 DEF ClientWorks, TakeRecord, Write, WriteFails, Leave, Serves
<1>7. CASE UNCHANGED cvars
  BY <1>7 DEF cvars
<1> QED
  BY <1>1, <1>2, <1>3, <1>4, <1>5, <1>6, <1>7 DEF CaptureNext

(* A step that leaves the connections and the place of the next record. *)
LEMMA GivenStays ==
  ASSUME NEW c \in Clients, HandFits(client[c]), Given(c), client'[c] = client[c],
         (c \in hub)' => c \in hub /\ generation' = generation /\ sequence' = sequence
  PROVE  HandFits(client[c])' /\ Given(c)'
<1>1. HandFits(client[c])'
  BY DEF HandFits
<1>2. Given(c)'
  BY DEF Given, Ends
<1> QED
  BY <1>1, <1>2

(* A connection that is closed, or comes to its end, keeps its records. *)
LEMMA GivenOutside ==
  ASSUME NEW c \in Clients, HandFits(client[c])', ~(c \in hub)', Given(c),
         client'[c].header = client[c].header, client'[c].queue = client[c].queue,
         client'[c].hand = client[c].hand, client'[c].got = client[c].got
  PROVE  Given(c)'
<1>1. PICK end \in Nat : Ends(client[c], end)
  BY DEF Given
<1>2. Ends(client'[c], end)
  BY <1>1, SameRecords
<1> QED
  BY <1>2 DEF Given, Ends

LEMMA BroadcastGiven ==
  ASSUME CaptureTypeOK, CaptureAssumption, CaptureInv, NEW c \in Clients,
         Broadcast([generation |-> generation, sequence |-> sequence]),
         sequence' = sequence + 1, generation' = generation
  PROVE  HandFits(client[c])' /\ Given(c)'
<1> DEFINE r == [generation |-> generation, sequence |-> sequence]
<1>0. CaptureMembers /\ CaptureCounts
  BY CaptureTypeParts
<1>1. HandFits(client[c]) /\ Given(c)
  BY DEF CaptureInv
<1>2. CASE c \notin hub
  <2>1. client'[c] = client[c] /\ c \notin hub'
    BY <1>2 DEF Broadcast
  <2> QED
    BY <1>1, <2>1, GivenStays
<1>3. CASE c \in hub /\ HasRoom(c)
  <2>1. client'[c] = Queued(c, r)
    BY <1>3 DEF Broadcast
  <2>2. Ends(client[c], sequence) /\ client[c].header = generation /\ ~client[c].stopped
    BY <1>1, <1>3 DEF Given
  <2>3. r \in Records /\ sequence \in Nat /\ generation \in Nat
    BY <1>0 DEF Records
  <2>4. Ends(Queued(c, r), sequence + 1)
    BY <1>0, <1>3, <2>2, <2>3, GrowsEnds
  <2>5. /\ client'[c].at = client[c].at /\ client'[c].header = client[c].header
        /\ client'[c].hand = client[c].hand /\ client'[c].stopped = client[c].stopped
    BY <1>0, <1>3, <2>1, <2>3, QueueGrows
  <2>6. HandFits(client'[c])
    BY <1>1, <2>5 DEF HandFits
  <2>7. Ends(client'[c], sequence') /\ sequence' \in Nat
    BY <2>1, <2>3, <2>4
  <2>8. ~client'[c].stopped /\ client'[c].header = generation'
    BY <2>2, <2>5
  <2> QED
    BY <2>6, <2>7, <2>8 DEF Given, HandFits, Ends
<1>4. CASE c \in hub /\ ~HasRoom(c)
  <2>1. client'[c] = Stopped(client[c]) /\ c \notin hub'
    BY <1>4 DEF Broadcast
  <2>2. /\ client'[c].at = client[c].at
        /\ client'[c].header = client[c].header /\ client'[c].queue = client[c].queue
        /\ client'[c].hand = client[c].hand /\ client'[c].got = client[c].got
    BY <1>0, <2>1 DEF Stopped, Connections
  <2>3. HandFits(client[c])'
    BY <1>1, <2>2 DEF HandFits
  <2> QED
    BY <1>1, <2>1, <2>2, <2>3, GivenOutside
<1> QED
  BY <1>2, <1>3, <1>4

(* The steps of a goroutine that keeps its place in the hub. *)
LEMMA ServesGiven ==
  ASSUME NEW c \in Clients, NEW next, NEW end \in Nat, client \in [Clients -> Connections],
         Serves(c, next), Ends(client[c], end),
         c \in hub => ~client[c].stopped /\ client[c].header = generation /\ end = sequence,
         Ends(next, end), HandFits(next),
         next.header = client[c].header, next.stopped = client[c].stopped
  PROVE  HandFits(client[c])' /\ Given(c)'
<1>1. client'[c] = next /\ hub' = hub /\ generation' = generation /\ sequence' = sequence
  BY DEF Serves, mainVars
<1>2. HandFits(client'[c]) /\ Ends(client'[c], end)
  BY <1>1
<1> QED
  BY <1>1, <1>2 DEF Given, HandFits, Ends

LEMMA ClientGiven ==
  ASSUME CaptureTypeOK, CaptureInv, NEW c \in Clients, ClientWorks(c)
  PROVE  HandFits(client[c])' /\ Given(c)'
<1> DEFINE me == client[c]
<1>0. client \in [Clients -> Connections] /\ me \in Connections
  BY DEF CaptureTypeOK
<1>1. HandFits(me)
  BY DEF CaptureInv
<1>2. PICK end \in Nat : /\ Ends(me, end)
                         /\ c \in hub => ~me.stopped /\ me.header = generation /\ end = sequence
  BY DEF CaptureInv, Given
<1>3. CASE TakeRecord(c)
  <2>1. CASE me.queue # <<>>
    <3> DEFINE next == [me EXCEPT !.at = "writing", !.hand = Head(me.queue), !.queue = Tail(@)]
    <3>1. Serves(c, next) /\ me.at = "idle"
      BY <1>3, <2>1 DEF TakeRecord
    <3>2. me.hand = NoRecord /\ me.header > 0
      BY <1>1, <3>1 DEF HandFits
    <3>3. Ends(next, end) /\ HandFits(next) /\ next.header = me.header /\ next.stopped = me.stopped
      BY <1>0, <1>2, <2>1, <3>2, TakenEnds
    <3> HIDE DEF next
    <3> QED
      BY <1>0, <1>2, <3>1, <3>3, ServesGiven
  <2>2. CASE me.queue = <<>>
    <3> DEFINE next == [me EXCEPT !.at = "leaving"]
    <3>1. Serves(c, next) /\ me.at = "idle"
      BY <1>3, <2>2 DEF TakeRecord
    <3>2. /\ next.header = me.header /\ next.queue = me.queue /\ next.hand = me.hand
          /\ next.got = me.got /\ next.stopped = me.stopped /\ next.at = "leaving"
      BY <1>0 DEF Connections
    <3> HIDE DEF next
    <3>3. Ends(next, end) /\ HandFits(next)
      BY <1>1, <1>2, <3>1, <3>2, SameRecords DEF HandFits
    <3> QED
      BY <1>0, <1>2, <3>1, <3>2, <3>3, ServesGiven
  <2> QED
    BY <2>1, <2>2
<1>4. CASE Write(c)
  <2>1. CASE me.at = "header"
    <3> DEFINE next == [me EXCEPT !.at = "idle"]
    <3>1. Serves(c, next)
      BY <1>4, <2>1 DEF Write
    <3>2. /\ next.header = me.header /\ next.queue = me.queue /\ next.hand = me.hand
          /\ next.got = me.got /\ next.stopped = me.stopped /\ next.at = "idle"
      BY <1>0 DEF Connections
    <3> HIDE DEF next
    <3>3. Ends(next, end) /\ HandFits(next)
      BY <1>1, <1>2, <2>1, <3>2, SameRecords DEF HandFits
    <3> QED
      BY <1>0, <1>2, <3>1, <3>2, <3>3, ServesGiven
  <2>2. CASE me.at = "writing"
    <3> DEFINE next == [me EXCEPT !.at = "idle", !.got = me.hand, !.hand = NoRecord]
    <3>1. Serves(c, next)
      BY <1>4, <2>2 DEF Write
    <3>2. Ends(next, end) /\ HandFits(next) /\ next.header = me.header /\ next.stopped = me.stopped
      BY <1>0, <1>1, <1>2, <2>2, WrittenEnds
    <3> HIDE DEF next
    <3> QED
      BY <1>0, <1>2, <3>1, <3>2, ServesGiven
  <2> QED
    BY <1>4, <2>1, <2>2 DEF Write
<1>5. CASE WriteFails(c)
  <2> DEFINE next == [me EXCEPT !.at = "leaving"]
  <2>1. Serves(c, next) /\ me.at \in {"header", "writing"}
    BY <1>5 DEF WriteFails
  <2>2. /\ next.header = me.header /\ next.queue = me.queue /\ next.hand = me.hand
        /\ next.got = me.got /\ next.stopped = me.stopped /\ next.at = "leaving"
    BY <1>0 DEF Connections
  <2> HIDE DEF next
  <2>3. Ends(next, end) /\ HandFits(next)
    BY <1>1, <1>2, <2>1, <2>2, SameRecords DEF HandFits
  <2> QED
    BY <1>0, <1>2, <2>1, <2>2, <2>3, ServesGiven
<1>6. CASE Leave(c)
  <2>1. client'[c] = Away /\ c \notin hub'
    BY <1>0, <1>6 DEF Leave
  <2>2. HandFits(Away) /\ Ends(Away, 0)
    BY AwayTyped, NothingEnds DEF HandFits
  <2> QED
    BY <2>1, <2>2 DEF Given, HandFits, Ends
<1> QED
  BY <1>3, <1>4, <1>5, <1>6 DEF ClientWorks

LEMMA CaptureInvInit == CaptureInit => CaptureInv
<1> SUFFICES ASSUME CaptureInit PROVE CaptureInv
  OBVIOUS
<1>1. HubOfThisRun
  BY DEF CaptureInit, HubOfThisRun
<1>2. client = [c \in Clients |-> Away] /\ hub = {}
  BY DEF CaptureInit
<1>3. HandFits(Away) /\ Ends(Away, 0)
  BY AwayTyped, NothingEnds DEF HandFits
<1> QED
  BY <1>1, <1>2, <1>3 DEF CaptureInv, Given

LEMMA CaptureInvStep ==
  ASSUME CaptureTypeOK, CaptureAssumption, CaptureInv, [CaptureNext]_cvars
  PROVE  CaptureInv'
<1>0. CaptureMembers /\ CaptureCounts /\ HubOfThisRun
  BY CaptureTypeParts DEF CaptureInv
<1>1. HubOfThisRun'
  BY <1>0, HubStays
<1> SUFFICES ASSUME NEW c \in Clients
             PROVE  HandFits(client[c])' /\ Given(c)'
  BY <1>1 DEF CaptureInv
<1>2. HandFits(client[c]) /\ Given(c) /\ client[c] \in Connections
  BY <1>0 DEF CaptureInv
<1>3. CASE UNCHANGED <<hub, client>> /\ (hub = {} \/ UNCHANGED <<generation, sequence>>)
  BY <1>2, <1>3, GivenStays
<1>4. CASE TakePeriod
  <2>1. CASE UNCHANGED <<sequence, hub, client>>
    BY <1>4, <2>1, <1>3 DEF TakePeriod
  <2>2. CASE Broadcast([generation |-> generation, sequence |-> sequence]) /\ sequence' = sequence + 1
    BY <1>4, <2>2, BroadcastGiven DEF TakePeriod
  <2> QED
    BY <1>4, <2>1, <2>2 DEF TakePeriod
<1>5. CASE Block
  <2>1. hub' = {} /\ client'[c] \in {client[c], Stopped(client[c])}
    BY <1>5 DEF Block
  <2>2. /\ client'[c].at = client[c].at
        /\ client'[c].header = client[c].header /\ client'[c].queue = client[c].queue
        /\ client'[c].hand = client[c].hand /\ client'[c].got = client[c].got
    BY <1>2, <2>1 DEF Stopped, Connections
  <2>3. HandFits(client[c])'
    BY <1>2, <2>2 DEF HandFits
  <2> QED
    BY <1>2, <2>1, <2>2, <2>3, GivenOutside
<1>6. CASE Restart
  <2>1. client'[c] = Away /\ c \notin hub'
    BY <1>6 DEF Restart
  <2>2. HandFits(Away) /\ Ends(Away, 0)
    BY AwayTyped, NothingEnds DEF HandFits
  <2> QED
    BY <2>1, <2>2 DEF Given, HandFits, Ends
<1>7. ASSUME NEW d \in Clients, ConnectClient(d)
      PROVE  HandFits(client[c])' /\ Given(c)'
  <2>1. UNCHANGED <<generation, sequence>> /\ hub' = hub \cup {d} /\ enabled
        /\ client' = [client EXCEPT ![d] = Joined(hubGeneration)]
    BY <1>7 DEF ConnectClient, mainVars, Joined
  <2>2. CASE c # d
    <3>1. client'[c] = client[c] /\ ((c \in hub)' => c \in hub)
      BY <1>0, <2>1, <2>2
    <3> QED
      BY <1>2, <2>1, <3>1, GivenStays
  <2>3. CASE c = d
    <3>1. client'[c] = Joined(generation) /\ generation > 0
      BY <1>0, <2>1, <2>3 DEF HubOfThisRun
    <3>2. sequence \in Nat /\ generation \in Nat
      BY <1>0
    <3>3. Ends(Joined(generation), sequence)
      BY <3>2, JoinsTyped, NothingEnds
    <3>4. HandFits(Joined(generation)) /\ ~Joined(generation).stopped
          /\ Joined(generation).header = generation
      BY <3>1, <3>2, JoinsTyped DEF HandFits
    <3> QED
      BY <2>1, <3>1, <3>2, <3>3, <3>4 DEF Given, HandFits, Ends
  <2> QED
    BY <2>2, <2>3
<1>8. ASSUME NEW d \in Clients, ClientWorks(d)
      PROVE  HandFits(client[c])' /\ Given(c)'
  <2>1. CASE c = d
    BY <1>8, <2>1, ClientGiven
  <2>2. CASE c # d
    <3>1. UNCHANGED <<generation, sequence>> /\ client'[c] = client[c]
          /\ ((c \in hub)' => c \in hub)
      BY <1>0, <1>8, <2>2
         DEF ClientWorks, TakeRecord, Write, WriteFails, Leave, Serves, mainVars
    <3> QED
      BY <1>2, <3>1, GivenStays
  <2> QED
    BY <2>1, <2>2
<1>9. CASE FindDsp
  <2>1. capture = "waiting" /\ UNCHANGED <<hub, client>>
    BY <1>9 DEF FindDsp, Goes, hubVars
  <2> QED
    BY <1>0, <1>3, <2>1, HubEmpties
<1>10. CASE StartCapture
  <2>1. capture = "starting" /\ UNCHANGED <<hub, client>>
    BY <1>10 DEF StartCapture, Goes
  <2> QED
    BY <1>0, <1>3, <2>1, HubEmpties
<1>11. \/ UNCHANGED <<hub, client, generation, sequence>>
       \/ TakePeriod \/ Block \/ Restart \/ FindDsp \/ StartCapture
       \/ (\E d \in Clients : ConnectClient(d)) \/ (\E d \in Clients : ClientWorks(d))
  BY DEF CaptureNext, CaptureMain, PollMute, CaptureEnds, BlockEnds, StartFails, Record, RecorderDies,
     ServerFails, DspStarts, DspEnds, MuteWritten, cvars, hubVars, mainVars
<1> QED
  BY <1>3, <1>4, <1>5, <1>6, <1>7, <1>8, <1>9, <1>10, <1>11

-----------------------------------------------------------------------------
LEMMA KnownPart ==
  ASSUME NEW record \in Records, NEW n \in Int, NEW g \in Nat,
         record # NoRecord => record = [generation |-> g, sequence |-> n]
  PROVE  LET s == IF record = NoRecord THEN <<>> ELSE <<record>>
         IN  /\ s \in Seq(Records)
             /\ Len(s) = IF record = NoRecord THEN 0 ELSE 1
             /\ \A i \in 1..Len(s) : s[i] = [generation |-> g, sequence |-> n]
<1>1. CASE record = NoRecord
  BY <1>1
<1>2. CASE record # NoRecord
  BY <1>2
<1> QED
  BY <1>1, <1>2

(* The records of a client as one sequence, by their places before `end`. *)
LEMMA StreamEnds ==
  ASSUME NEW c \in Clients, client[c] \in Connections, NEW end \in Nat, Ends(client[c], end)
  PROVE  /\ Stream(c) \in Seq(Records)
         /\ \A i \in 1..Len(Stream(c)) :
              Stream(c)[i] = [generation |-> client[c].header,
                              sequence |-> end - Len(Stream(c)) + i - 1]
<1> DEFINE me == client[c]
           g == IF me.got = NoRecord THEN <<>> ELSE <<me.got>>
           h == IF me.hand = NoRecord THEN <<>> ELSE <<me.hand>>
           q == me.queue
           Nth(n) == [generation |-> me.header, sequence |-> n]
<1>1. q \in Seq(Records) /\ Len(q) \in Nat /\ me.header \in Nat
      /\ me.got \in Records /\ me.hand \in Records
  BY DEF Connections
<1>2. h \in Seq(Records) /\ Len(h) \in {0, 1}
      /\ \A i \in 1..Len(h) : h[i] = Nth(end - Len(q) - 1)
  BY <1>1, KnownPart DEF Ends
<1>3. g \in Seq(Records) /\ Len(g) \in {0, 1}
      /\ \A i \in 1..Len(g) : g[i] = Nth(end - Len(q) - Len(h) - 1)
  <2>1. me.got # NoRecord => me.got = Nth(end - Len(q) - Len(h) - 1)
    <3>1. CASE me.hand = NoRecord
      BY <1>1, <3>1 DEF Ends
    <3>2. CASE me.hand # NoRecord
      BY <1>1, <3>2 DEF Ends
    <3> QED
      BY <3>1, <3>2
  <2>2. end - Len(q) - Len(h) - 1 \in Int
    BY <1>1, <1>2
  <2> QED
    BY <1>1, <2>1, <2>2, KnownPart
<1>4. \A i \in 1..Len(q) : q[i] = Nth(end - Len(q) + i - 1)
  BY DEF Ends
<1> HIDE DEF g, h, q, Nth
<1> DEFINE gh == g \o h
           s == gh \o q
<1>5. gh \in Seq(Records) /\ Len(gh) = Len(g) + Len(h)
      /\ \A i \in 1..Len(g) + Len(h) : gh[i] = IF i <= Len(g) THEN g[i] ELSE h[i - Len(g)]
  BY <1>2, <1>3, ConcatProperties
<1> HIDE DEF gh
<1>10. gh \in Seq(Records) /\ q \in Seq(Records)
  BY <1>1, <1>5
<1>6. s \in Seq(Records) /\ Len(s) = Len(gh) + Len(q)
      /\ \A i \in 1..Len(gh) + Len(q) : s[i] = IF i <= Len(gh) THEN gh[i] ELSE q[i - Len(gh)]
  BY <1>10, ConcatProperties
<1> HIDE DEF s
<1>7. \A i \in 1..Len(gh) : gh[i] = Nth(end - Len(q) - Len(gh) + i - 1)
  <2> SUFFICES ASSUME NEW i \in 1..Len(gh)
               PROVE  gh[i] = Nth(end - Len(q) - Len(gh) + i - 1)
    OBVIOUS
  <2>1. CASE i <= Len(g)
    <3>1. gh[i] = g[i] /\ i \in 1..Len(g) /\ i = 1 /\ Len(g) = 1
      BY <1>2, <1>3, <1>5, <2>1
    <3>2. end - Len(q) - Len(gh) + i - 1 = end - Len(q) - Len(h) - 1
      BY <1>1, <1>2, <1>5, <3>1
    <3> QED
      BY <1>3, <3>1, <3>2
  <2>2. CASE ~(i <= Len(g))
    <3>1. gh[i] = h[i - Len(g)] /\ i - Len(g) \in 1..Len(h) /\ Len(h) = 1 /\ i = Len(gh)
      BY <1>2, <1>3, <1>5, <2>2
    <3>2. end - Len(q) - Len(gh) + i - 1 = end - Len(q) - 1
      BY <1>1, <1>3, <1>2, <1>5, <3>1
    <3> QED
      BY <1>2, <3>1, <3>2
  <2> QED
    BY <2>1, <2>2
<1>8. \A i \in 1..Len(s) : s[i] = Nth(end - Len(s) + i - 1)
  <2> SUFFICES ASSUME NEW i \in 1..Len(s)
               PROVE  s[i] = Nth(end - Len(s) + i - 1)
    OBVIOUS
  <2>0. Len(gh) \in Nat /\ Len(q) \in Nat /\ Len(s) = Len(gh) + Len(q)
    BY <1>1, <1>2, <1>3, <1>5, <1>6
  <2>1. CASE i <= Len(gh)
    <3>1. s[i] = gh[i] /\ i \in 1..Len(gh)
      BY <1>6, <2>0, <2>1
    <3>2. end - Len(s) + i - 1 = end - Len(q) - Len(gh) + i - 1
      BY <2>0
    <3> QED
      BY <1>7, <3>1, <3>2
  <2>2. CASE ~(i <= Len(gh))
    <3>1. s[i] = q[i - Len(gh)] /\ i - Len(gh) \in 1..Len(q)
      BY <1>6, <2>0, <2>2
    <3>2. end - Len(s) + i - 1 = end - Len(q) + (i - Len(gh)) - 1
      BY <2>0
    <3> QED
      BY <1>4, <3>1, <3>2
  <2> QED
    BY <2>1, <2>2
<1>9. s = Stream(c)
  BY DEF s, gh, g, h, q, Stream
<1> QED
  BY <1>6, <1>8, <1>9 DEF Nth

(* The clientHub of mic-capture gives each client the records of one run   *)
(* of the DSP service, none skipped and none twice, through slow clients,  *)
(* restarts of the capture, of the DSP service and of the helper.          *)
THEOREM NoRecordSkipped == ASSUME CaptureAssumption PROVE CaptureSpec => []StreamsWhole
<1>1. CaptureInv /\ CaptureTypeOK /\ [CaptureNext]_cvars => CaptureInv'
  BY CaptureInvStep
<1>2. CaptureInv /\ CaptureTypeOK => StreamsWhole
  <2> SUFFICES ASSUME CaptureInv, CaptureTypeOK, NEW c \in Clients
               PROVE  LET s == Stream(c) IN
                      /\ \A i \in DOMAIN s : s[i].generation = client[c].header
                      /\ \A i \in 1..Len(s) - 1 : s[i + 1].sequence = s[i].sequence + 1
                      /\ c \in hub =>
                           /\ ~client[c].stopped
                           /\ client[c].header = generation
                           /\ s = <<>> \/ s[Len(s)].sequence + 1 = sequence
    BY DEF StreamsWhole
  <2> DEFINE s == Stream(c)
  <2>1. client[c] \in Connections
    BY DEF CaptureTypeOK
  <2>2. PICK end \in Nat :
          /\ Ends(client[c], end)
          /\ c \in hub => ~client[c].stopped /\ client[c].header = generation /\ end = sequence
    BY DEF CaptureInv, Given
  <2>3. /\ s \in Seq(Records) /\ Len(s) \in Nat /\ DOMAIN s = 1..Len(s)
        /\ \A i \in 1..Len(s) : s[i] = [generation |-> client[c].header,
                                       sequence |-> end - Len(s) + i - 1]
    BY <2>1, <2>2, StreamEnds
  <2> HIDE DEF s
  <2>4. \A i \in 1..Len(s) :
          s[i].generation = client[c].header /\ s[i].sequence = end - Len(s) + i - 1
    BY <2>3
  <2>5. \A i \in 1..Len(s) - 1 : s[i + 1].sequence = s[i].sequence + 1
    <3> SUFFICES ASSUME NEW i \in 1..Len(s) - 1
                 PROVE  s[i + 1].sequence = s[i].sequence + 1
      OBVIOUS
    <3>1. i \in 1..Len(s) /\ i + 1 \in 1..Len(s)
      BY <2>3
    <3>2. s[i].sequence = end - Len(s) + i - 1 /\ s[i + 1].sequence = end - Len(s) + (i + 1) - 1
      BY <2>4, <3>1
    <3>3. Len(s) \in Nat
      BY <2>3
    <3> QED
      BY <3>2, <3>3
  <2>6. s = <<>> \/ s[Len(s)].sequence + 1 = end
    <3>1. CASE Len(s) = 0
      BY <2>3, <3>1
    <3>2. CASE Len(s) # 0
      <4>1. Len(s) \in 1..Len(s) /\ Len(s) \in Nat
        BY <2>3, <3>2
      <4>2. s[Len(s)].sequence = end - Len(s) + Len(s) - 1
        BY <2>4, <4>1
      <4> QED
        BY <4>1, <4>2
    <3> QED
      BY <3>1, <3>2
  <2> QED
    BY <2>2, <2>3, <2>4, <2>5, <2>6 DEF s
<1> QED
  BY CaptureTypes, CaptureInvInit, <1>1, <1>2, PTL DEF CaptureSpec

(* The other machines leave mic-capture alone, whose clients get each      *)
(* record of one run of the DSP service.                                   *)
THEOREM SpeakerStreamsWhole == SpeakerSpec => []StreamsWhole
<1>1. SpeakerInit => CaptureInit
  BY DEF SpeakerInit
<1>2. [SpeakerNext]_speakerVars => [CaptureNext]_cvars
  BY DEF SpeakerNext, speakerVars
<1>3. CaptureSpec => []StreamsWhole
  BY SpeakerAssumption, NoRecordSkipped
<1> QED
  BY <1>1, <1>2, <1>3, PTL DEF SpeakerSpec, CaptureSpec

-----------------------------------------------------------------------------
(* DspService: its types, the mute before the service and the promise of   *)
(* CommandServer.                                                          *)

(* Until main has read the state file nobody has anything on the link. *)
LinkClosed ==
    /\ phase \in {"down", "loading", "waiting", "settling", "opening"} =>
        ring = <<>> /\ wire = NoEntry
    /\ phase = "loading" => dsp = PowerOn

(* Who waits for the link, and when. *)
TasksClosed ==
    \A s \in Servers :
        /\ phase \in {"down", "loading"} => task[s] = "idle"
        /\ task[s] = "waiting" => phase \in {"restoring", "ready", "stopping"}
        /\ task["restore"] # "gated" /\ (task["restore"] = "waiting" => phase # "ready")
        /\ task[s] = "gated" => request[s] \in Commands

(* The goroutine of a message that is not given up waits for its outcome,  *)
(* has none so far, and has no other such message.                         *)
OwnersWait ==
    /\ \A i \in Live(ring) :
          /\ task[ring[i].owner] = "waiting" /\ completion[ring[i].owner] = "none"
          /\ \A j \in Live(ring) : ring[j].owner = ring[i].owner => j = i
    /\ wire # NoEntry /\ wire.live =>
          /\ task[wire.owner] = "waiting" /\ completion[wire.owner] = "none"
          /\ \A i \in Live(ring) : ring[i].owner # wire.owner

(* While the mute is restored the link carries nothing but mutes, and an   *)
(* OK to the restore means that the DSP is muted.                          *)
OnlyMute ==
    phase = "restoring" =>
        /\ \A i \in DOMAIN ring : ring[i].cmd = Mute("muted")
        /\ wire # NoEntry => wire.cmd = Mute("muted")
MuteExecuted ==
    /\ phase = "restoring"
    /\ pump = "awaiting" \/ completion["restore"] = "ok" \/ result["restore"] = "ok"
    => dsp["mic"] = "muted"

(* The inductive invariant of DspService.  That the places of the ring have *)
(* an enumeration is kept step by step: it needs no induction on the ring. *)
DspInv ==
    /\ LinkClosed /\ TasksClosed /\ OwnersWait /\ OnlyMute /\ MuteExecuted
    /\ Enumerations(ring) # {}

(* TypeOK in parts: what is boolean apart from the rest. *)
Phases ==
    {"down", "loading", "waiting", "settling", "opening", "restoring", "ready", "stopping"}
Frames == {"boot", "event", "gain", "mic"}

DspFlags == marker \in BOOLEAN /\ bootEvent \in BOOLEAN /\ announced \in BOOLEAN
DspMembers ==
    /\ phase \in Phases
    /\ stateFile \in Mic
    /\ dsp \in [{"gain", "mic"} -> Levels \cup {PowerOnLevel} \cup Mic]
    /\ pump \in {"off", "idle", "sending", "awaiting", "dead"}
    /\ micLock \in {"free", "restore", "mic"}
    /\ session \in {"none", "joined"}
LinkTypes ==
    /\ ring \in Seq(Entries)
    /\ wire \in Entries \cup {NoEntry}
    /\ (pump \in {"sending", "awaiting"}) <=> (wire # NoEntry)
    /\ failures \in 0 .. MaxReceiveRetries - 1 /\ strays \in 0 .. MaxUnrelated
QueueTypes ==
    /\ output \in Seq(Frames) /\ stash \in Seq(Frames)
    /\ backlog \in Seq(Mic) /\ calls \in Seq(Commands)
TaskTypes ==
    /\ task \in [Servers -> {"idle", "gated", "waiting"}]
    /\ request \in [Servers -> Commands \cup {NoCommand}]
    /\ completion \in [Servers -> {"none", "ok", "error"}]
    /\ result \in [Servers -> {"none", "ok", "error"}]

LEMMA DspTypeParts ==
  TypeOK <=> DspFlags /\ DspMembers /\ LinkTypes /\ QueueTypes /\ TaskTypes
  BY DEF TypeOK, DspFlags, DspMembers, LinkTypes, QueueTypes, TaskTypes, Phases, Frames

USE DEF main, link, sessions, tasks, micServer, spent

LEMMA CommandFacts ==
  /\ \A v \in Levels : Gain(v) \in Commands
  /\ \A v \in Mic : Mute(v) \in Commands
  /\ Mute("muted") \in Commands
  /\ \A c \in Commands : c.op \in {"gain", "mic"} /\ c.value \in Levels \cup Mic
  /\ NoEntry \notin Entries
  /\ \A e \in Entries : e.cmd \in Commands /\ e.owner \in Servers /\ e.live \in BOOLEAN
  BY DEF Gain, Mute, Commands, NoEntry, Entries, Servers, Mic

LEMMA DspInitTypes == ASSUME DspAssumption PROVE Init => TypeOK
<1> SUFFICES ASSUME Init PROVE TypeOK
  OBVIOUS
<1>1. DspFlags
  BY DEF Init, DspFlags
<1>2. DspMembers
  BY DEF Init, DspMembers, PowerOn, Phases, Mic
<1>3. LinkTypes
  BY DEF Init, LinkTypes, DspAssumption
<1>4. QueueTypes
  BY DEF Init, QueueTypes
<1>5. TaskTypes
  BY DEF Init, TaskTypes
<1> QED
  BY <1>1, <1>2, <1>3, <1>4, <1>5, DspTypeParts

LEMMA FlagsStep == DspFlags /\ [Next]_vars => DspFlags'
<1> SUFFICES ASSUME DspFlags, [Next]_vars PROVE DspFlags'
  OBVIOUS
<1>1. CASE Main
  BY <1>1
     DEF Main, DspFlags, Start, BootContext, BootSeen, BootTimeout, OpenMicControl,
        ReadMicrophoneState, Restored, LinkFailed, Exit, Vanish
<1>2. CASE Pump
  BY <1>2
     DEF Pump, DspFlags, PollTakes, TransmitOnce, NotReady, ReceiveReply, PollDelivers,
        Delivers
<1>3. CASE Serve \/ HandleMicControl
  BY <1>3 DEF Serve, DspFlags, Connect, Announce, HandleInvocation, HandleMicControl
<1>4. CASE \E s \in Servers : Dispatching(s)
  BY <1>4 DEF Dispatching, DspFlags, Dispatch, DispatchEnds, DispatchExpires
<1>5. CASE Faulty
  BY <1>5
     DEF Faulty, DspFlags, BootFails, BootTimeout, Kill, SendFails, ReceiveGarbled,
        PollFails, SessionLost, Vanish
<1>6. CASE Asked
  BY <1>6 DEF Asked, DspFlags, DspReports, RouterCalls, MicRequest, McuWrites
<1>7. CASE UNCHANGED vars
  BY <1>7 DEF vars, DspFlags
<1> QED
  BY <1>1, <1>2, <1>3, <1>4, <1>5, <1>6, <1>7 DEF Next

LEMMA MembersStep == LinkTypes /\ DspMembers /\ [Next]_vars => DspMembers'
<1> SUFFICES ASSUME LinkTypes, DspMembers, [Next]_vars PROVE DspMembers'
  OBVIOUS
<1> USE DEF DspMembers, Phases
<1>1. CASE Main
  <2>1. AfterRestore(result["restore"]) \in Phases
    BY DEF AfterRestore
  <2> QED
  BY <1>1, <2>1
     DEF Main, Start, BootContext, BootSeen, BootTimeout, OpenMicControl,
        ReadMicrophoneState, Restored, LinkFailed, Exit, Vanish, PowerOn, Mic
<1>2. CASE Pump
  <2>1. CASE TransmitOnce
    BY <2>1, CommandFacts DEF TransmitOnce, LinkTypes
  <2> QED
    BY <1>2, <2>1
       DEF Pump, PollTakes, NotReady, ReceiveReply, PollDelivers, Delivers, TransferEnds
<1>3. CASE Serve \/ HandleMicControl
  BY <1>3 DEF Serve, Connect, Announce, HandleInvocation, HandleMicControl
<1>4. CASE \E s \in Servers : Dispatching(s)
  BY <1>4 DEF Dispatching, Dispatch, DispatchEnds, DispatchExpires, Answers
<1>5. CASE Faulty
  BY <1>5
     DEF Faulty, BootFails, BootTimeout, Kill, SendFails, ReceiveGarbled, PollFails,
        SessionLost, Vanish, TransferEnds
<1>6. CASE Asked
  BY <1>6 DEF Asked, DspReports, RouterCalls, MicRequest, McuWrites
<1>7. CASE UNCHANGED vars
  BY <1>7 DEF vars
<1> QED
  BY <1>1, <1>2, <1>3, <1>4, <1>5, <1>6, <1>7 DEF Next

LEMMA LeftEntries ==
  ASSUME NEW s \in Servers, ring \in Seq(Entries), wire \in Entries \cup {NoEntry},
         DispatchExpires(s)
  PROVE  /\ ring' \in Seq(Entries) /\ DOMAIN ring' = DOMAIN ring /\ Len(ring') = Len(ring)
         /\ \A i \in DOMAIN ring :
              ring'[i] = IF ring[i].owner = s THEN [ring[i] EXCEPT !.live = FALSE] ELSE ring[i]
         /\ wire' \in Entries \cup {NoEntry}
         /\ wire = NoEntry <=> wire' = NoEntry
         /\ wire' = IF wire # NoEntry /\ wire.owner = s THEN [wire EXCEPT !.live = FALSE] ELSE wire
<1> DEFINE Left(e) == IF e.owner = s THEN [e EXCEPT !.live = FALSE] ELSE e
<1>1. \A e \in Entries : Left(e) \in Entries
  BY DEF Entries
<1>2. /\ ring' = [i \in DOMAIN ring |-> Left(ring[i])]
      /\ wire' = IF wire = NoEntry THEN wire ELSE Left(wire)
  BY DEF DispatchExpires
<1>3. Len(ring) \in Nat /\ DOMAIN ring = 1 .. Len(ring) /\ \A i \in DOMAIN ring : ring[i] \in Entries
  OBVIOUS
<1>4. \A i \in DOMAIN ring : Left(ring[i]) \in Entries
  BY <1>1, <1>3
<1>5. ring' \in Seq(Entries) /\ DOMAIN ring' = DOMAIN ring /\ Len(ring') = Len(ring)
  <2> HIDE DEF Left
  <2>1. ring' \in [1 .. Len(ring) -> Entries]
    BY <1>2, <1>3, <1>4
  <2> QED
    BY <1>3, <2>1
<1>6. wire' \in Entries \cup {NoEntry} /\ (wire = NoEntry <=> wire' = NoEntry)
  BY <1>1, <1>2, CommandFacts
<1> QED
  BY <1>2, <1>5, <1>6

LEMMA LinkStep ==
  ASSUME DspAssumption
  PROVE  LinkTypes /\ DspMembers /\ TaskTypes /\ DspInv /\ [Next]_vars => LinkTypes'
<1> SUFFICES ASSUME LinkTypes, DspMembers, TaskTypes, DspInv, [Next]_vars PROVE LinkTypes'
  OBVIOUS
<1> USE DEF LinkTypes
<1>0. /\ 0 \in 0 .. MaxReceiveRetries - 1 /\ 0 \in 0 .. MaxUnrelated
      /\ MaxReceiveRetries \in Nat /\ MaxUnrelated \in Nat
  BY DEF DspAssumption
<1>V. Vanish => LinkTypes'
  <2> SUFFICES ASSUME Vanish PROVE LinkTypes'
    OBVIOUS
  <2>1. ring' = <<>> /\ pump' = "off" /\ wire' = NoEntry /\ failures' = 0 /\ strays' = 0
    BY DEF Vanish
  <2>2. <<>> \in Seq(Entries) /\ NoEntry \in Entries \cup {NoEntry}
    OBVIOUS
  <2> QED
    BY <1>0, <2>1, <2>2
<1>1. CASE Main
  <2>1. CASE ReadMicrophoneState
    <3>1. [owner |-> "restore", cmd |-> Mute("muted"), live |-> TRUE] \in Entries
      BY CommandFacts DEF Entries, Servers
    <3>2. \/ ring' = ring
          \/ ring' = Append(ring, [owner |-> "restore", cmd |-> Mute("muted"), live |-> TRUE])
      BY <2>1 DEF ReadMicrophoneState, Accepts
    <3>3. ring' \in Seq(Entries)
      BY <3>1, <3>2, AppendProperties
    <3>4. UNCHANGED <<wire, pump, failures, strays>>
      BY <2>1 DEF ReadMicrophoneState
    <3> QED
      BY <3>3, <3>4
  <2>2. CASE BootContext
    <3>1. wire = NoEntry
      BY <2>2 DEF BootContext, DspInv, LinkClosed
    <3> QED
      BY <2>2, <3>1 DEF BootContext
  <2>3. CASE Exit
    BY <1>V, <2>3 DEF Exit
  <2>4. CASE Start \/ BootSeen \/ BootTimeout(FALSE) \/ OpenMicControl \/ Restored \/ LinkFailed
    BY <2>4 DEF Start, BootSeen, BootTimeout, OpenMicControl, Restored, LinkFailed
  <2> QED
    BY <1>1, <2>1, <2>2, <2>3, <2>4 DEF Main
<1>2. CASE Pump
  <2>1. CASE PollTakes
    <3>1. Head(ring) \in Entries /\ Tail(ring) \in Seq(Entries)
      BY <2>1, HeadTailProperties DEF PollTakes
    <3> QED
    BY <2>1, <3>1, CommandFacts DEF PollTakes
  <2>2. CASE TransmitOnce
    BY <2>2 DEF TransmitOnce
  <2>3. CASE NotReady
    BY <1>0, <2>3 DEF NotReady, TransferEnds
  <2>4. CASE ReceiveReply
    BY <1>0, <2>4 DEF ReceiveReply, TransferEnds
  <2>5. CASE PollDelivers
    BY <2>5 DEF PollDelivers
  <2> QED
    BY <1>2, <2>1, <2>2, <2>3, <2>4, <2>5 DEF Pump
<1>3. CASE Serve \/ HandleMicControl
  BY <1>3 DEF Serve, Connect, Announce, HandleInvocation, HandleMicControl
<1>4. CASE \E s \in Servers : Dispatching(s)
  <2> SUFFICES ASSUME NEW s \in Servers, Dispatching(s) PROVE LinkTypes'
    BY <1>4
  <2>1. CASE Dispatch(s)
    <3>0. request[s] \in Commands
      BY <2>1 DEF Dispatch, DspInv, TasksClosed
    <3>1. [owner |-> s, cmd |-> request[s], live |-> TRUE] \in Entries
      BY <3>0 DEF Entries
    <3>2. ring' = Append(ring, [owner |-> s, cmd |-> request[s], live |-> TRUE])
      BY <2>1 DEF Dispatch, Accepts
    <3>3. ring' \in Seq(Entries)
      BY <3>1, <3>2, AppendProperties
    <3> QED
      BY <2>1, <3>3 DEF Dispatch
  <2>2. CASE DispatchEnds(s)
    BY <2>2 DEF DispatchEnds
  <2>3. CASE DispatchExpires(s)
    <3>1. /\ ring' \in Seq(Entries) /\ wire' \in Entries \cup {NoEntry}
          /\ wire = NoEntry <=> wire' = NoEntry
      BY <2>3, LeftEntries
    <3>2. UNCHANGED <<pump, failures, strays>>
      BY <2>3 DEF DispatchExpires
    <3> QED
      BY <3>1, <3>2
  <2> QED
    BY <2>1, <2>2, <2>3 DEF Dispatching
<1>5. CASE Faulty
  <2>1. CASE ReceiveGarbled
    BY <1>0, <2>1 DEF ReceiveGarbled, TransferEnds
  <2>2. CASE SendFails
    BY <1>0, <2>2 DEF SendFails, TransferEnds
  <2>3. CASE PollFails
    BY <2>3 DEF PollFails
  <2>4. CASE BootTimeout(TRUE) \/ SessionLost
    BY <2>4 DEF BootTimeout, SessionLost
  <2>5. CASE BootFails \/ Kill
    BY <1>V, <2>5 DEF BootFails, Kill
  <2> QED
    BY <1>5, <2>1, <2>2, <2>3, <2>4, <2>5 DEF Faulty
<1>6. CASE Asked
  BY <1>6 DEF Asked, DspReports, RouterCalls, MicRequest, McuWrites
<1>7. CASE UNCHANGED vars
  BY <1>7 DEF vars
<1> QED
  BY <1>1, <1>2, <1>3, <1>4, <1>5, <1>6, <1>7 DEF Next

LEMMA QueueFacts ==
  ASSUME NEW S, NEW q \in Seq(S)
  PROVE  /\ \A e \in S : Append(q, e) \in Seq(S)
         /\ q # <<>> => Head(q) \in S /\ Tail(q) \in Seq(S)
         /\ <<>> \in Seq(S)
  OBVIOUS

LEMMA QueueStep ==
  LinkTypes /\ QueueTypes /\ [Next]_vars => QueueTypes'
<1> SUFFICES ASSUME LinkTypes, QueueTypes, [Next]_vars PROVE QueueTypes'
  OBVIOUS
<1> USE DEF QueueTypes
<1>V. Vanish => QueueTypes'
  BY DEF Vanish
<1>1. CASE Main
  <2>1. CASE BootContext
    BY <2>1 DEF BootContext, Frames
  <2>2. CASE Exit
    BY <1>V, <2>2 DEF Exit
  <2> QED
    BY <1>1, <2>1, <2>2
       DEF Main, Start, BootSeen, BootTimeout, OpenMicControl, ReadMicrophoneState,
          Restored, LinkFailed
<1>2. CASE Pump
  <2>1. CASE TransmitOnce
    <3>1. wire.cmd.op \in Frames
      BY <2>1, CommandFacts DEF TransmitOnce, LinkTypes, Frames
    <3>2. output' = output \/ output' = Append(output, wire.cmd.op)
      BY <2>1 DEF TransmitOnce
    <3>3. output' \in Seq(Frames)
      BY <3>1, <3>2, QueueFacts
    <3> QED
      BY <2>1, <3>3 DEF TransmitOnce
  <2>2. CASE ReceiveReply
    <3>1. Head(output) \in Frames /\ Tail(output) \in Seq(Frames)
      BY <2>2, HeadTailProperties DEF ReceiveReply
    <3>2. stash' = stash \/ stash' = Append(stash, Head(output))
      BY <2>2 DEF ReceiveReply
    <3>3. stash' \in Seq(Frames)
      BY <3>1, <3>2, QueueFacts
    <3> QED
      BY <2>2, <3>1, <3>3 DEF ReceiveReply
  <2>3. CASE PollDelivers
    BY <2>3, HeadTailProperties DEF PollDelivers
  <2> QED
    BY <1>2, <2>1, <2>2, <2>3 DEF Pump, PollTakes, NotReady
<1>3. CASE Serve \/ HandleMicControl
  <2>1. CASE HandleInvocation
    <3>1. calls' \in Seq(Commands)
      BY <2>1, QueueFacts DEF HandleInvocation
    <3> QED
      BY <2>1, <3>1 DEF HandleInvocation
  <2>2. CASE HandleMicControl
    <3>1. backlog' \in Seq(Mic)
      BY <2>2, QueueFacts DEF HandleMicControl
    <3> QED
      BY <2>2, <3>1 DEF HandleMicControl
  <2> QED
    BY <1>3, <2>1, <2>2 DEF Serve, Connect, Announce
<1>4. CASE \E s \in Servers : Dispatching(s)
  BY <1>4 DEF Dispatching, Dispatch, DispatchEnds, DispatchExpires
<1>5. CASE Faulty
  <2>1. CASE BootFails \/ Kill
    BY <1>V, <2>1 DEF BootFails, Kill
  <2> QED
    <3>1. output # <<>> => Tail(output) \in Seq(Frames)
      BY QueueFacts
    <3>2. <<>> \in Seq(Commands)
      BY QueueFacts
    <3>3. CASE ReceiveGarbled
      BY <3>1, <3>3 DEF ReceiveGarbled
    <3>4. CASE PollFails
      BY <3>1, <3>4 DEF PollFails
    <3>5. CASE SessionLost
      BY <3>2, <3>5 DEF SessionLost
    <3>6. CASE BootTimeout(TRUE) \/ SendFails
      BY <3>6 DEF BootTimeout, SendFails
    <3> QED
      BY <1>5, <2>1, <3>3, <3>4, <3>5, <3>6 DEF Faulty
<1>6. CASE Asked
  <2>1. CASE DspReports
    <3>1. output' \in Seq(Frames)
      BY <2>1, AppendProperties DEF DspReports, Frames
    <3> QED
      BY <2>1, <3>1 DEF DspReports
  <2>2. CASE \E v \in Levels : RouterCalls(v)
    <3>1. calls' \in Seq(Commands)
      BY <2>2, CommandFacts, AppendProperties DEF RouterCalls
    <3> QED
      BY <2>2, <3>1 DEF RouterCalls
  <2>3. CASE \E v \in Mic : MicRequest(v)
    <3>1. backlog' \in Seq(Mic)
      BY <2>3, AppendProperties DEF MicRequest
    <3> QED
      BY <2>3, <3>1 DEF MicRequest
  <2> QED
    BY <1>6, <2>1, <2>2, <2>3 DEF Asked, McuWrites
<1>7. CASE UNCHANGED vars
  BY <1>7 DEF vars
<1> QED
  BY <1>1, <1>2, <1>3, <1>4, <1>5, <1>6, <1>7 DEF Next

LEMMA TasksStep ==
  LinkTypes /\ QueueTypes /\ TaskTypes /\ DspInv /\ [Next]_vars => TaskTypes'
<1> SUFFICES ASSUME LinkTypes, QueueTypes, TaskTypes, DspInv, [Next]_vars PROVE TaskTypes'
  OBVIOUS
<1> USE DEF TaskTypes
<1>V. Vanish => TaskTypes'
  BY DEF Vanish
<1>T. \A how \in {"ok", "error"} : \A next : TransferEnds(how, next) => TaskTypes'
  BY DEF TransferEnds, Complete
<1>1. CASE Main
  <2>1. CASE ReadMicrophoneState
    <3>1. UNCHANGED tasks \/ Accepts("restore", Mute("muted"))
      BY <2>1 DEF ReadMicrophoneState
    <3> QED
      BY <3>1, CommandFacts DEF Accepts
  <2>2. CASE Exit
    BY <1>V, <2>2 DEF Exit
  <2> QED
    BY <1>1, <2>1, <2>2
       DEF Main, Start, BootSeen, BootTimeout, OpenMicControl, BootContext, Restored,
          LinkFailed
<1>2. CASE Pump
  BY <1>T, <1>2 DEF Pump, PollTakes, TransmitOnce, NotReady, ReceiveReply, PollDelivers
<1>3. CASE Serve \/ HandleMicControl
  <2>1. CASE HandleInvocation
    <3>1. Head(calls) \in Commands
      BY <2>1, HeadTailProperties DEF HandleInvocation, QueueTypes
    <3> QED
      BY <2>1, <3>1 DEF HandleInvocation
  <2>2. CASE HandleMicControl
    <3>1. Mute(Head(backlog)) \in Commands
      BY <2>2, HeadTailProperties, CommandFacts DEF HandleMicControl, QueueTypes
    <3> QED
      BY <2>2, <3>1 DEF HandleMicControl
  <2> QED
    BY <1>3, <2>1, <2>2 DEF Serve, Connect, Announce
<1>4. CASE \E s \in Servers : Dispatching(s)
  <2> SUFFICES ASSUME NEW s \in Servers, Dispatching(s) PROVE TaskTypes'
    BY <1>4
  <2>1. CASE Dispatch(s)
    BY <2>1 DEF Dispatch, Accepts, DspInv, TasksClosed
  <2>2. CASE DispatchEnds(s)
    BY <2>2 DEF DispatchEnds, Answers
  <2>3. CASE DispatchExpires(s)
    BY <2>3 DEF DispatchExpires, Answers
  <2> QED
    BY <2>1, <2>2, <2>3 DEF Dispatching
<1>5. CASE Faulty
  <2>1. CASE BootFails \/ Kill
    BY <1>V, <2>1 DEF BootFails, Kill
  <2> QED
    BY <1>5, <1>T, <2>1
       DEF Faulty, BootTimeout, SendFails, ReceiveGarbled, PollFails, SessionLost
<1>6. CASE Asked
  BY <1>6 DEF Asked, DspReports, RouterCalls, MicRequest, McuWrites
<1>7. CASE UNCHANGED vars
  BY <1>7 DEF vars
<1> QED
  BY <1>1, <1>2, <1>3, <1>4, <1>5, <1>6, <1>7 DEF Next

(* The order of the least number principle.                                *)
Below == {p \in Nat \X Nat : p[1] < p[2]}

(* The least number principle, for the lemmas about places on the ring. *)
LEMMA LeastNumber ==
  ASSUME NEW S \in SUBSET Nat, S # {}
  PROVE  \E n \in S : \A m \in S : n <= m
<1>1. IsWellFoundedOn(Below, Nat)
  BY NatLessThanWellFounded DEF OpToRel, Below
<1>2. PICK n \in S : \A m \in S : ~(<<m, n>> \in Below)
  BY <1>1, WFMin
<1>3. ASSUME NEW m \in S PROVE n <= m
  <2>1. m \in Nat /\ n \in Nat
    OBVIOUS
  <2>2. <<m, n>> \in Nat \X Nat /\ <<m, n>>[1] = m /\ <<m, n>>[2] = n
    BY <2>1
  <2>3. ~(m < n)
    BY <1>2, <2>2 DEF Below
  <2> QED
    BY <2>1, <2>3
<1> QED
  BY <1>3

LEMMA SamePrefix ==
  ASSUME NEW S \in SUBSET Int, NEW n \in Nat, NEW m \in Nat,
         NEW f \in [1 .. n -> S], NEW g \in [1 .. m -> S], Enumerates(f, S), Enumerates(g, S)
  PROVE  \A k \in 1 .. n : k <= m /\ g[k] = f[k]
<1> DEFINE B == {k \in 1 .. n : ~(k <= m /\ g[k] = f[k])}
<1>1. SUFFICES ASSUME B # {} PROVE FALSE
  OBVIOUS
<1>2. B \in SUBSET Nat
  OBVIOUS
<1>3. PICK k \in B : \A i \in B : k <= i
  BY <1>1, <1>2, LeastNumber
<1>4. k \in 1 .. n /\ \A i \in 1 .. n : i < k => i <= m /\ g[i] = f[i]
  BY <1>3
<1>5. f[k] \in S /\ \A i, j \in 1 .. n : f[i] \in Int /\ (i < j => f[i] < f[j])
  BY <1>4 DEF Enumerates
<1>6. \A i, j \in 1 .. m : g[i] \in S /\ g[i] \in Int /\ (i < j => g[i] < g[j])
  BY DEF Enumerates
<1>7. PICK j \in 1 .. m : g[j] = f[k]
  BY <1>5 DEF Enumerates
<1>8. ~(j < k)
  BY <1>4, <1>5, <1>7
<1>9. k \in 1 .. m /\ k < j /\ g[k] < f[k]
  <2>1. k \in 1 .. m
    BY <1>4, <1>7, <1>8
  <2>2. g[k] # f[k]
    BY <1>3, <2>1
  <2> QED
    BY <1>6, <1>7, <1>8, <2>1, <2>2
<1>10. PICK i \in 1 .. n : f[i] = g[k]
  BY <1>6, <1>9 DEF Enumerates
<1>11. CASE i < k
  BY <1>4, <1>6, <1>9, <1>10, <1>11
<1>12. CASE ~(i < k)
  BY <1>4, <1>5, <1>9, <1>10, <1>12
<1> QED
  BY <1>11, <1>12

LEMMA OneEnumeration ==
  ASSUME NEW S \in SUBSET Int, NEW n \in Nat, NEW m \in Nat,
         NEW f \in [1 .. n -> S], NEW g \in [1 .. m -> S], Enumerates(f, S), Enumerates(g, S)
  PROVE  f = g
<1>1. \A k \in 1 .. n : k <= m /\ g[k] = f[k]
  BY SamePrefix
<1>2. \A k \in 1 .. m : k <= n /\ f[k] = g[k]
  BY SamePrefix
<1>3. n = m
  BY <1>1, <1>2
<1> QED
  BY <1>1, <1>3

LEMMA PlacesFit ==
  ASSUME NEW n \in Nat, NEW m \in Nat, NEW S \in SUBSET (1 .. m),
         NEW f \in [1 .. n -> S], Enumerates(f, S)
  PROVE  n <= m
<1> DEFINE B == {k \in 1 .. n : f[k] < k}
<1>0. \A i, j \in 1 .. n : f[i] \in 1 .. m /\ (i < j => f[i] < f[j])
  BY DEF Enumerates
<1>1. B = {}
  <2>1. SUFFICES ASSUME B # {} PROVE FALSE
    OBVIOUS
  <2>0. B \in SUBSET Nat
    OBVIOUS
  <2>2. PICK k \in B : \A i \in B : k <= i
    BY <2>0, <2>1, LeastNumber
  <2>3. k \in 1 .. n /\ f[k] < k /\ \A i \in 1 .. n : i < k => ~(f[i] < i)
    BY <2>2
  <2>4. CASE k = 1
    BY <1>0, <2>3, <2>4
  <2>5. CASE k # 1
    <3>1. k - 1 \in 1 .. n /\ k - 1 < k
      BY <2>3, <2>5
    <3>2. ~(f[k - 1] < k - 1) /\ f[k - 1] < f[k] /\ f[k - 1] \in Int /\ f[k] \in Int
      BY <1>0, <2>3, <3>1
    <3> QED
      BY <2>3, <3>1, <3>2
  <2> QED
    BY <2>4, <2>5
<1>2. CASE n = 0
  BY <1>2
<1>3. CASE n # 0
  <2>1. n \in 1 .. n
    BY <1>3
  <2>2. ~(f[n] < n) /\ f[n] \in 1 .. m
    BY <1>0, <1>1, <2>1
  <2> QED
    BY <2>2
<1> QED
  BY <1>2, <1>3

(* Whatever enumerates the live entries of a ring is its Places. *)
LEMMA PlacesAre ==
  ASSUME NEW r \in Seq(Entries), NEW n \in Nat, NEW f \in [1 .. n -> Live(r)],
         Enumerates(f, Live(r))
  PROVE  /\ Enumerations(r) # {}
         /\ Places(r) = f
         /\ Awaited(r) = [k \in 1 .. n |-> Entry(r[f[k]])]
<1>1. Len(r) \in Nat /\ DOMAIN r = 1 .. Len(r) /\ Live(r) \in SUBSET (1 .. Len(r))
  BY DEF Live
<1>2. n <= Len(r)
  BY <1>1, PlacesFit
<1>3. f \in Enumerations(r)
  <2>1. n \in 0 .. Len(r)
    BY <1>1, <1>2
  <2> QED
    BY <2>1 DEF Enumerations
<1>4. Places(r) \in Enumerations(r)
  BY <1>3 DEF Places
<1>5. PICK m \in 0 .. Len(r) : Places(r) \in [1 .. m -> Live(r)]
  BY <1>4 DEF Enumerations
<1>6. Enumerates(Places(r), Live(r))
  BY <1>4 DEF Enumerations
<1>7. Live(r) \in SUBSET Int /\ m \in Nat
  BY <1>1
<1>8. Places(r) = f
  BY <1>5, <1>6, <1>7, OneEnumeration
<1> QED
  BY <1>3, <1>8 DEF Awaited

LEMMA PlacesOf ==
  ASSUME NEW r \in Seq(Entries), Enumerations(r) # {}
  PROVE  \E n \in Nat : /\ Places(r) \in [1 .. n -> Live(r)]
                        /\ Enumerates(Places(r), Live(r))
<1>1. Places(r) \in Enumerations(r)
  BY DEF Places
<1>2. PICK m \in 0 .. Len(r) : Places(r) \in [1 .. m -> Live(r)]
  BY <1>1 DEF Enumerations
<1>3. m \in Nat
  OBVIOUS
<1> QED
  BY <1>1, <1>2, <1>3 DEF Enumerations

LEMMA NothingAwaited ==
  ASSUME NEW r \in Seq(Entries), Live(r) = {}
  PROVE  Enumerations(r) # {} /\ Awaited(r) = <<>>
<1> DEFINE f == [k \in 1 .. 0 |-> 0]
<1>1. f \in [1 .. 0 -> Live(r)] /\ Enumerates(f, Live(r)) /\ 0 \in Nat
  BY DEF Enumerates
<1>2. Enumerations(r) # {} /\ Awaited(r) = [k \in 1 .. 0 |-> Entry(r[f[k]])]
  BY <1>1, PlacesAre
<1> QED
  BY <1>2

LEMMA AwaitedAppend ==
  ASSUME NEW r \in Seq(Entries), NEW e \in Entries, e.live, Enumerations(r) # {}
  PROVE  /\ Enumerations(Append(r, e)) # {}
         /\ Awaited(Append(r, e)) = Append(Awaited(r), Entry(e))
<1> DEFINE r2 == Append(r, e)
           P == Places(r)
<1>1. PICK n \in Nat : P \in [1 .. n -> Live(r)] /\ Enumerates(P, Live(r))
  BY PlacesOf
<1>2. /\ r2 \in Seq(Entries) /\ Len(r2) = Len(r) + 1 /\ Len(r) \in Nat
      /\ DOMAIN r = 1 .. Len(r) /\ DOMAIN r2 = 1 .. Len(r) + 1
      /\ \A i \in 1 .. Len(r) : r2[i] = r[i]
      /\ r2[Len(r) + 1] = e
  BY AppendProperties
<1> HIDE DEF P, r2
<1>3. Live(r2) = Live(r) \cup {Len(r) + 1} /\ Live(r) \in SUBSET (1 .. Len(r))
  BY <1>2 DEF Live
<1> DEFINE f == [k \in 1 .. n + 1 |-> IF k <= n THEN P[k] ELSE Len(r) + 1]
<1>4. \A k \in 1 .. n : f[k] = P[k] /\ P[k] \in Live(r) /\ P[k] \in 1 .. Len(r)
  BY <1>1, <1>3
<1>5. f[n + 1] = Len(r) + 1
  OBVIOUS
<1>6. f \in [1 .. n + 1 -> Live(r2)] /\ DOMAIN f = 1 .. n + 1
  BY <1>1, <1>3
<1> HIDE DEF f
<1>7. Enumerates(f, Live(r2))
  <2>1. ASSUME NEW i \in 1 .. n + 1, NEW j \in 1 .. n + 1, i < j
        PROVE  f[i] < f[j]
    <3>1. i \in 1 .. n
      BY <2>1
    <3>2. CASE j \in 1 .. n
      BY <1>1, <1>4, <2>1, <3>1, <3>2 DEF Enumerates
    <3>3. CASE j = n + 1
      BY <1>2, <1>4, <1>5, <3>1, <3>3
    <3> QED
      BY <3>2, <3>3
  <2>2. ASSUME NEW x \in Live(r2) PROVE \E i \in 1 .. n + 1 : f[i] = x
    <3>1. CASE x \in Live(r)
      BY <1>1, <1>4, <3>1 DEF Enumerates
    <3>2. CASE x = Len(r) + 1
      BY <1>5, <3>2
    <3> QED
      BY <1>3, <3>1, <3>2
  <2> QED
    BY <1>6, <2>1, <2>2 DEF Enumerates
<1>8. Enumerations(r2) # {} /\ Awaited(r2) = [k \in 1 .. n + 1 |-> Entry(r2[f[k]])]
  BY <1>2, <1>6, <1>7, PlacesAre
<1>9. Awaited(r) = [k \in 1 .. n |-> Entry(r[P[k]])]
  BY <1>1 DEF Awaited, P
<1>10. [k \in 1 .. n + 1 |-> Entry(r2[f[k]])]
          = Append([k \in 1 .. n |-> Entry(r[P[k]])], Entry(e))
  BY <1>2, <1>4, <1>5
<1> QED
  BY <1>8, <1>9, <1>10 DEF r2

LEMMA TailFacts ==
  ASSUME NEW r \in Seq(Entries), r # <<>>
  PROVE  /\ Tail(r) \in Seq(Entries) /\ Len(Tail(r)) = Len(r) - 1 /\ Len(r) \in Nat \ {0}
         /\ DOMAIN r = 1 .. Len(r) /\ DOMAIN Tail(r) = 1 .. Len(r) - 1
         /\ \A i \in 1 .. Len(r) - 1 : Tail(r)[i] = r[i + 1]
         /\ Head(r) = r[1] /\ r[1] \in Entries
  BY HeadTailProperties

LEMMA AwaitedDropsDead ==
  ASSUME NEW r \in Seq(Entries), r # <<>>, ~Head(r).live, Enumerations(r) # {}
  PROVE  Enumerations(Tail(r)) # {} /\ Awaited(Tail(r)) = Awaited(r)
<1> DEFINE r2 == Tail(r)
           P == Places(r)
<1>1. PICK n \in Nat : P \in [1 .. n -> Live(r)] /\ Enumerates(P, Live(r))
  BY PlacesOf
<1>2. /\ r2 \in Seq(Entries) /\ Len(r) \in Nat \ {0}
      /\ DOMAIN r = 1 .. Len(r) /\ DOMAIN r2 = 1 .. Len(r) - 1
      /\ \A i \in 1 .. Len(r) - 1 : r2[i] = r[i + 1]
      /\ ~r[1].live
  BY TailFacts
<1> HIDE DEF P, r2
<1>3. /\ \A i \in Live(r) : i - 1 \in Live(r2) /\ i \in 2 .. Len(r)
      /\ \A i \in Live(r2) : i + 1 \in Live(r) /\ i \in 1 .. Len(r) - 1
  BY <1>2 DEF Live
<1> DEFINE f == [k \in 1 .. n |-> P[k] - 1]
<1>4. \A k \in 1 .. n : f[k] = P[k] - 1 /\ P[k] \in Live(r) /\ P[k] \in 2 .. Len(r)
  BY <1>1, <1>3
<1>5. f \in [1 .. n -> Live(r2)] /\ DOMAIN f = 1 .. n
  BY <1>3, <1>4
<1> HIDE DEF f
<1>6. Enumerates(f, Live(r2))
  <2>1. ASSUME NEW i \in 1 .. n, NEW j \in 1 .. n, i < j PROVE f[i] < f[j]
    <3>1. P[i] < P[j]
      BY <1>1, <2>1 DEF Enumerates
    <3> QED
      BY <1>4, <3>1
  <2>2. ASSUME NEW x \in Live(r2) PROVE \E i \in 1 .. n : f[i] = x
    <3>1. PICK i \in 1 .. n : P[i] = x + 1
      BY <1>1, <1>3 DEF Enumerates
    <3> QED
      BY <1>3, <1>4, <3>1
  <2> QED
    BY <1>5, <2>1, <2>2 DEF Enumerates
<1>7. Enumerations(r2) # {} /\ Awaited(r2) = [k \in 1 .. n |-> Entry(r2[f[k]])]
  BY <1>2, <1>5, <1>6, PlacesAre
<1>8. Awaited(r) = [k \in 1 .. n |-> Entry(r[P[k]])]
  BY <1>1 DEF Awaited, P
<1>9. \A k \in 1 .. n : r2[f[k]] = r[P[k]]
  BY <1>2, <1>4
<1> QED
  BY <1>7, <1>8, <1>9 DEF r2

LEMMA AwaitedTakesLive ==
  ASSUME NEW r \in Seq(Entries), r # <<>>, Head(r).live, Enumerations(r) # {}
  PROVE  /\ Enumerations(Tail(r)) # {}
         /\ Awaited(r) = <<Entry(Head(r))>> \o Awaited(Tail(r))
<1> DEFINE r2 == Tail(r)
           P == Places(r)
<1>1. PICK n \in Nat : P \in [1 .. n -> Live(r)] /\ Enumerates(P, Live(r))
  BY PlacesOf
<1>2. /\ r2 \in Seq(Entries) /\ Len(r) \in Nat \ {0}
      /\ DOMAIN r = 1 .. Len(r) /\ DOMAIN r2 = 1 .. Len(r) - 1
      /\ \A i \in 1 .. Len(r) - 1 : r2[i] = r[i + 1]
      /\ r[1].live /\ Head(r) = r[1]
  BY TailFacts
<1> HIDE DEF P, r2
<1>3. /\ \A i \in Live(r) : i \in 1 .. Len(r) /\ (i # 1 => i - 1 \in Live(r2))
      /\ \A i \in Live(r2) : i + 1 \in Live(r) /\ i \in 1 .. Len(r) - 1
      /\ 1 \in Live(r)
  BY <1>2 DEF Live
<1>4. \A k \in 1 .. n : P[k] \in Live(r) /\ P[k] \in 1 .. Len(r)
  BY <1>1, <1>3
<1>5. n # 0 /\ 1 \in 1 .. n /\ P[1] = 1
  <2>1. PICK k \in 1 .. n : P[k] = 1
    BY <1>1, <1>3 DEF Enumerates
  <2>2. 1 \in 1 .. n
    BY <2>1
  <2>3. ~(1 < k)
    <3>1. SUFFICES ASSUME 1 < k PROVE FALSE
      OBVIOUS
    <3>2. P[1] < P[k]
      BY <1>1, <2>2, <3>1 DEF Enumerates
    <3> QED
      BY <1>4, <2>1, <2>2, <3>2
  <2> QED
    BY <2>1, <2>2, <2>3
<1> DEFINE f == [k \in 1 .. n - 1 |-> P[k + 1] - 1]
<1>6. \A k \in 1 .. n - 1 :
        /\ f[k] = P[k + 1] - 1 /\ k + 1 \in 1 .. n
        /\ P[k + 1] \in Live(r) /\ P[k + 1] \in 2 .. Len(r)
  <2> SUFFICES ASSUME NEW k \in 1 .. n - 1
               PROVE  k + 1 \in 1 .. n /\ P[k + 1] \in Live(r) /\ P[k + 1] \in 2 .. Len(r)
    OBVIOUS
  <2>1. k + 1 \in 1 .. n /\ 1 < k + 1
    OBVIOUS
  <2>2. P[1] < P[k + 1]
    BY <1>1, <1>5, <2>1 DEF Enumerates
  <2> QED
    BY <1>4, <1>5, <2>1, <2>2
<1>7. f \in [1 .. n - 1 -> Live(r2)] /\ DOMAIN f = 1 .. n - 1 /\ n - 1 \in Nat
  <2>1. \A k \in 1 .. n - 1 : P[k + 1] - 1 \in Live(r2)
    BY <1>3, <1>6
  <2> QED
    BY <1>5, <2>1
<1> HIDE DEF f
<1>8. Enumerates(f, Live(r2))
  <2>1. ASSUME NEW i \in 1 .. n - 1, NEW j \in 1 .. n - 1, i < j PROVE f[i] < f[j]
    <3>1. P[i + 1] < P[j + 1]
      BY <1>1, <1>6, <2>1 DEF Enumerates
    <3> QED
      BY <1>6, <3>1
  <2>2. ASSUME NEW x \in Live(r2) PROVE \E i \in 1 .. n - 1 : f[i] = x
    <3>1. PICK i \in 1 .. n : P[i] = x + 1
      BY <1>1, <1>3 DEF Enumerates
    <3>2. x \in Nat /\ x > 0 /\ i # 1
      BY <1>3, <1>5, <3>1
    <3>3. i - 1 \in 1 .. n - 1 /\ (i - 1) + 1 = i
      BY <3>2
    <3>4. f[i - 1] = P[i] - 1
      BY <1>6, <3>3
    <3> QED
      BY <3>1, <3>2, <3>3, <3>4
  <2> QED
    BY <1>7, <2>1, <2>2 DEF Enumerates
<1>9. Enumerations(r2) # {} /\ Awaited(r2) = [k \in 1 .. n - 1 |-> Entry(r2[f[k]])]
  BY <1>2, <1>7, <1>8, PlacesAre
<1>10. Awaited(r) = [k \in 1 .. n |-> Entry(r[P[k]])]
  BY <1>1 DEF Awaited, P
<1>11. \A k \in 1 .. n - 1 : r2[f[k]] = r[P[k + 1]]
  BY <1>2, <1>6
<1>12. [k \in 1 .. n |-> Entry(r[P[k]])]
          = <<Entry(r[1])>> \o [k \in 1 .. n - 1 |-> Entry(r2[f[k]])]
  BY <1>5, <1>11
<1> QED
  BY <1>2, <1>9, <1>10, <1>12 DEF r2

(* What CommandServer has in its queue. *)
Todo == [owner : Servers, cmd : Commands, open : BOOLEAN]

LEMMA AwaitedEntries ==
  ASSUME NEW r \in Seq(Entries), Enumerations(r) # {}
  PROVE  /\ Awaited(r) \in Seq(Todo)
         /\ \A k \in DOMAIN Awaited(r) : \E i \in Live(r) : Awaited(r)[k] = Entry(r[i])
         /\ \A k \in DOMAIN Awaited(r) : Awaited(r)[k].open
<1> DEFINE P == Places(r)
<1>1. PICK n \in Nat : P \in [1 .. n -> Live(r)] /\ Enumerates(P, Live(r))
  BY PlacesOf
<1>2. Awaited(r) = [k \in 1 .. n |-> Entry(r[P[k]])]
  BY <1>1 DEF Awaited
<1> HIDE DEF P
<1>3. \A k \in 1 .. n : P[k] \in Live(r) /\ r[P[k]] \in Entries /\ r[P[k]].live
  BY <1>1 DEF Live
<1>4. \A k \in 1 .. n : Entry(r[P[k]]) \in Todo
  BY <1>3 DEF Entry, Todo, Entries
<1>5. Awaited(r) \in Seq(Todo)
  BY <1>2, <1>4
<1>6. \A k \in 1 .. n : Entry(r[P[k]]).open
  BY <1>3 DEF Entry
<1> QED
  BY <1>2, <1>3, <1>5, <1>6

LEMMA AwaitedUnchanged ==
  ASSUME NEW r \in Seq(Entries), NEW r2 \in Seq(Entries), Enumerations(r) # {},
         Live(r2) = Live(r), \A i \in Live(r) : r2[i] = r[i]
  PROVE  Enumerations(r2) # {} /\ Awaited(r2) = Awaited(r)
<1> DEFINE P == Places(r)
<1>1. PICK n \in Nat : P \in [1 .. n -> Live(r)] /\ Enumerates(P, Live(r))
  BY PlacesOf
<1>2. Awaited(r) = [k \in 1 .. n |-> Entry(r[P[k]])]
  BY <1>1 DEF Awaited
<1> HIDE DEF P
<1>3. Enumerations(r2) # {} /\ Awaited(r2) = [k \in 1 .. n |-> Entry(r2[P[k]])]
  BY <1>1, PlacesAre
<1> QED
  BY <1>1, <1>2, <1>3

LEMMA AwaitedLeaves ==
  ASSUME NEW r \in Seq(Entries), NEW r2 \in Seq(Entries), NEW i \in Live(r),
         Enumerations(r) # {}, Live(r2) = Live(r) \ {i}, \A j \in Live(r2) : r2[j] = r[j]
  PROVE  /\ Enumerations(r2) # {}
         /\ \E k \in 1 .. Len(Awaited(r)) :
              /\ Awaited(r)[k] = Entry(r[i])
              /\ Awaited(r2) = [j \in 1 .. Len(Awaited(r)) - 1 |->
                                  Awaited(r)[IF j < k THEN j ELSE j + 1]]
<1> DEFINE P == Places(r)
<1>1. PICK n \in Nat : P \in [1 .. n -> Live(r)] /\ Enumerates(P, Live(r))
  BY PlacesOf
<1>2. Awaited(r) = [k \in 1 .. n |-> Entry(r[P[k]])] /\ Len(Awaited(r)) = n
  BY <1>1 DEF Awaited
<1> HIDE DEF P
<1>3. \A k \in 1 .. n : P[k] \in Live(r) /\ P[k] \in Int
  BY <1>1 DEF Live
<1>4. \A j, k \in 1 .. n : j < k => P[j] < P[k]
  BY <1>1 DEF Enumerates
<1>5. PICK k \in 1 .. n : P[k] = i
  BY <1>1 DEF Enumerates
<1>6. n \in Nat \ {0} /\ n - 1 \in Nat
  BY <1>5
<1> DEFINE skip(j) == IF j < k THEN j ELSE j + 1
<1>7. \A j \in 1 .. n - 1 : skip(j) \in 1 .. n /\ skip(j) # k
  BY <1>5, <1>6
<1>8. \A j, l \in 1 .. n - 1 : j < l => skip(j) < skip(l)
  BY <1>5, <1>6
<1>9. \A l \in 1 .. n : l # k => \E j \in 1 .. n - 1 : skip(j) = l
  <2> SUFFICES ASSUME NEW l \in 1 .. n, l # k PROVE \E j \in 1 .. n - 1 : skip(j) = l
    OBVIOUS
  <2>1. CASE l < k
    <3>1. l \in 1 .. n - 1 /\ skip(l) = l
      BY <1>5, <1>6, <2>1
    <3> QED
      BY <3>1
  <2>2. CASE ~(l < k)
    <3>1. l - 1 \in 1 .. n - 1 /\ skip(l - 1) = l
      BY <1>5, <1>6, <2>2
    <3> QED
      BY <3>1
  <2> QED
    BY <2>1, <2>2
<1>10. \A l \in 1 .. n : l # k => P[l] # i
  <2> SUFFICES ASSUME NEW l \in 1 .. n, l # k PROVE P[l] # i
    OBVIOUS
  <2>1. l < k \/ k < l
    BY <1>5
  <2> QED
    BY <1>3, <1>4, <1>5, <2>1
<1> HIDE DEF skip
<1> DEFINE f == [j \in 1 .. n - 1 |-> P[skip(j)]]
<1>11. /\ f \in [1 .. n - 1 -> Live(r2)] /\ DOMAIN f = 1 .. n - 1
       /\ \A j \in 1 .. n - 1 : f[j] = P[skip(j)]
  BY <1>3, <1>7, <1>10
<1> HIDE DEF f
<1>12. Enumerates(f, Live(r2))
  <2>1. ASSUME NEW j \in 1 .. n - 1, NEW l \in 1 .. n - 1, j < l PROVE f[j] < f[l]
    BY <1>4, <1>7, <1>8, <1>11, <2>1
  <2>2. ASSUME NEW x \in Live(r2) PROVE \E j \in 1 .. n - 1 : f[j] = x
    <3>1. PICK l \in 1 .. n : P[l] = x
      BY <1>1 DEF Enumerates
    <3>2. l # k
      BY <1>5, <3>1
    <3>3. PICK j \in 1 .. n - 1 : skip(j) = l
      BY <1>9, <3>2
    <3> QED
      BY <1>11, <3>1, <3>3
  <2> QED
    BY <1>11, <2>1, <2>2 DEF Enumerates
<1>13. Enumerations(r2) # {} /\ Awaited(r2) = [j \in 1 .. n - 1 |-> Entry(r2[f[j]])]
  BY <1>6, <1>11, <1>12, PlacesAre
<1>14. \A j \in 1 .. n - 1 : Entry(r2[f[j]]) = Awaited(r)[skip(j)]
  <2> TAKE j \in 1 .. n - 1
  <2>1. f[j] \in Live(r2) /\ f[j] = P[skip(j)] /\ skip(j) \in 1 .. n
    BY <1>7, <1>11
  <2>2. r2[f[j]] = r[P[skip(j)]]
    BY <2>1
  <2> QED
    BY <1>2, <2>1, <2>2
<1>15. Awaited(r2) = [j \in 1 .. n - 1 |-> Awaited(r)[skip(j)]]
  BY <1>13, <1>14
<1>16. Awaited(r)[k] = Entry(r[i])
  BY <1>2, <1>5
<1> QED
  BY <1>2, <1>13, <1>15, <1>16 DEF skip

LEMMA VanishGives ==
  Vanish => /\ phase' = "down" /\ ring' = <<>> /\ wire' = NoEntry /\ pump' = "off"
            /\ task' = [s \in Servers |-> "idle"]
  BY DEF Vanish

LEMMA DspInvInit == Init => DspInv
<1> SUFFICES ASSUME Init PROVE DspInv
  OBVIOUS
<1>1. ring = <<>> /\ wire = NoEntry /\ phase = "down" /\ task = [s \in Servers |-> "idle"]
  BY DEF Init
<1>2. ring \in Seq(Entries) /\ Live(ring) = {} /\ DOMAIN ring = {}
  BY <1>1 DEF Live
<1>3. Enumerations(ring) # {}
  BY <1>2, NothingAwaited
<1> QED
  BY <1>1, <1>2, <1>3
     DEF DspInv, LinkClosed, TasksClosed, OwnersWait, OnlyMute, MuteExecuted, Servers

LEMMA LinkClosedStep ==
  LinkTypes /\ DspInv /\ [Next]_vars => LinkClosed'
<1> SUFFICES ASSUME LinkTypes, DspInv, [Next]_vars PROVE LinkClosed'
  OBVIOUS
<1> USE DEF LinkClosed, DspInv
<1>1. CASE Main
  BY <1>1, VanishGives
     DEF Main, Start, BootContext, BootSeen, BootTimeout, OpenMicControl,
        ReadMicrophoneState, Restored, AfterRestore, LinkFailed, Exit
<1>2. CASE Pump
  BY <1>2
     DEF LinkTypes, Pump, PollTakes, TransmitOnce, NotReady, ReceiveReply, PollDelivers,
        TransferEnds, Running
<1>3. CASE Serve \/ HandleMicControl
  BY <1>3 DEF Serve, Connect, Announce, HandleInvocation, HandleMicControl
<1>4. CASE \E s \in Servers : Dispatching(s)
  <2> SUFFICES ASSUME NEW s \in Servers, Dispatching(s) PROVE LinkClosed'
    BY <1>4
  <2>1. CASE Dispatch(s)
    BY <2>1 DEF Dispatch
  <2>2. CASE DispatchEnds(s)
    BY <2>2 DEF DispatchEnds
  <2>3. CASE DispatchExpires(s)
    <3>1. /\ ring = <<>> => ring' = <<>>
          /\ wire = NoEntry => wire' = NoEntry
          /\ UNCHANGED <<phase, dsp>>
      BY <2>3 DEF DispatchExpires
    <3> QED
      BY <3>1
  <2> QED
    BY <2>1, <2>2, <2>3 DEF Dispatching
<1>5. CASE Faulty
  BY <1>5, VanishGives
     DEF Faulty, BootFails, BootTimeout, Kill, SendFails, ReceiveGarbled, PollFails,
        SessionLost, TransferEnds
<1>6. CASE Asked
  BY <1>6 DEF Asked, DspReports, RouterCalls, MicRequest, McuWrites
<1>7. CASE UNCHANGED vars
  BY <1>7 DEF vars
<1> QED
  BY <1>1, <1>2, <1>3, <1>4, <1>5, <1>6, <1>7 DEF Next

LEMMA TasksClosedStep ==
  QueueTypes /\ TaskTypes /\ DspInv /\ [Next]_vars => TasksClosed'
<1> SUFFICES ASSUME QueueTypes, TaskTypes, DspInv, [Next]_vars PROVE TasksClosed'
  OBVIOUS
<1> USE DEF TasksClosed, DspInv, TaskTypes, Servers
<1>V. Vanish => TasksClosed'
  BY VanishGives
<1>1. CASE Main
  <2>1. CASE ReadMicrophoneState
    <3>1. CASE stateFile = "muted"
      BY <2>1, <3>1 DEF ReadMicrophoneState, Accepts
    <3>2. CASE stateFile # "muted"
      BY <2>1, <3>2 DEF ReadMicrophoneState
    <3> QED
      BY <3>1, <3>2
  <2>2. CASE Exit
    BY <1>V, <2>2 DEF Exit
  <2>3. CASE Start
    BY <2>3 DEF Start
  <2>4. CASE BootContext \/ BootSeen \/ BootTimeout(FALSE) \/ OpenMicControl \/ LinkFailed
    BY <2>4 DEF BootContext, BootSeen, BootTimeout, OpenMicControl, LinkFailed
  <2>5. CASE Restored
    BY <2>5 DEF Restored, AfterRestore
  <2> QED
    BY <1>1, <2>1, <2>2, <2>3, <2>4, <2>5 DEF Main
<1>2. CASE Pump
  BY <1>2
     DEF Pump, PollTakes, TransmitOnce, NotReady, ReceiveReply, PollDelivers, TransferEnds
<1>3. CASE Serve \/ HandleMicControl
  <2>1. CASE HandleInvocation
    <3>1. Head(calls) \in Commands
      BY <2>1, QueueFacts DEF HandleInvocation, QueueTypes
    <3> QED
      BY <2>1, <3>1 DEF HandleInvocation, ServeIdle, Running
  <2>2. CASE HandleMicControl
    <3>1. Mute(Head(backlog)) \in Commands
      BY <2>2, QueueFacts, CommandFacts DEF HandleMicControl, QueueTypes
    <3> QED
      BY <2>2, <3>1 DEF HandleMicControl, SocketOpen
  <2> QED
    BY <1>3, <2>1, <2>2 DEF Serve, Connect, Announce
<1>4. CASE \E s \in Servers : Dispatching(s)
  <2> SUFFICES ASSUME NEW s \in Servers, Dispatching(s) PROVE TasksClosed'
    BY <1>4
  <2>1. CASE Dispatch(s)
    BY <2>1 DEF Dispatch, Accepts
  <2>2. CASE DispatchEnds(s)
    BY <2>2 DEF DispatchEnds, Answers
  <2>3. CASE DispatchExpires(s)
    BY <2>3 DEF DispatchExpires, Answers
  <2> QED
    BY <2>1, <2>2, <2>3 DEF Dispatching
<1>5. CASE Faulty
  <2>1. CASE BootFails \/ Kill
    BY <1>V, <2>1 DEF BootFails, Kill
  <2> QED
    BY <1>5, <2>1
       DEF Faulty, BootTimeout, SendFails, ReceiveGarbled, PollFails, SessionLost,
          TransferEnds
<1>6. CASE Asked
  BY <1>6 DEF Asked, DspReports, RouterCalls, MicRequest, McuWrites
<1>7. CASE UNCHANGED vars
  BY <1>7 DEF vars
<1> QED
  BY <1>1, <1>2, <1>3, <1>4, <1>5, <1>6, <1>7 DEF Next

LEMMA LiveFacts ==
  ASSUME NEW r \in Seq(Entries)
  PROVE  /\ Live(r) \in SUBSET (1 .. Len(r)) /\ Len(r) \in Nat /\ DOMAIN r = 1 .. Len(r)
         /\ \A i \in Live(r) : r[i] \in Entries /\ r[i].owner \in Servers /\ r[i].live
  BY CommandFacts DEF Live

LEMMA LiveAppend ==
  ASSUME NEW r \in Seq(Entries), NEW e \in Entries, e.live
  PROVE  /\ Append(r, e) \in Seq(Entries)
         /\ Live(Append(r, e)) = Live(r) \cup {Len(r) + 1}
         /\ \A i \in Live(r) : Append(r, e)[i] = r[i] /\ i # Len(r) + 1
         /\ Append(r, e)[Len(r) + 1] = e
  BY AppendProperties DEF Live

LEMMA LiveTail ==
  ASSUME NEW r \in Seq(Entries), r # <<>>
  PROVE  /\ \A i \in Live(Tail(r)) : i \in Int /\ i > 0 /\ i + 1 \in Live(r) /\ Tail(r)[i] = r[i + 1]
         /\ Head(r).live => 1 \in Live(r)
         /\ Head(r) = r[1] /\ r[1] \in Entries
  BY TailFacts DEF Live

LEMMA LiveLeft ==
  ASSUME NEW s \in Servers, LinkTypes, DispatchExpires(s)
  PROVE  /\ ring' \in Seq(Entries)
         /\ Live(ring') = {i \in Live(ring) : ring[i].owner # s}
         /\ \A i \in Live(ring') : ring'[i] = ring[i]
<1>1. /\ ring \in Seq(Entries) /\ wire \in Entries \cup {NoEntry}
      /\ \A i \in DOMAIN ring : ring[i] \in Entries
  BY DEF LinkTypes
<1>2. /\ ring' \in Seq(Entries) /\ DOMAIN ring' = DOMAIN ring
      /\ \A i \in DOMAIN ring :
           ring'[i] = IF ring[i].owner = s THEN [ring[i] EXCEPT !.live = FALSE] ELSE ring[i]
  BY <1>1, LeftEntries
<1>3. \A e \in Entries : [e EXCEPT !.live = FALSE].live = FALSE
  BY DEF Entries
<1>4. \A i \in DOMAIN ring : ring[i].owner = s => ring'[i].live = FALSE
  BY <1>1, <1>2, <1>3
<1>5. \A i \in DOMAIN ring : ring[i].owner # s => ring'[i] = ring[i]
  BY <1>2
<1>6. \A i \in DOMAIN ring : i \in Live(ring') <=> i \in Live(ring) /\ ring[i].owner # s
  BY <1>2, <1>4, <1>5 DEF Live
<1>7. Live(ring') \subseteq DOMAIN ring /\ Live(ring) \subseteq DOMAIN ring
  BY <1>2 DEF Live
<1> QED
  BY <1>2, <1>5, <1>6, <1>7

LEMMA AcceptsGives ==
  ASSUME NEW s \in Servers, NEW cmd \in Commands, LinkTypes, TaskTypes, Accepts(s, cmd)
  PROVE  /\ [owner |-> s, cmd |-> cmd, live |-> TRUE] \in Entries
         /\ ring' = Append(ring, [owner |-> s, cmd |-> cmd, live |-> TRUE])
         /\ task' = [task EXCEPT ![s] = "waiting"]
         /\ completion' = [completion EXCEPT ![s] = "none"]
  BY DEF Accepts, Entries

LEMMA OwnersAccepts ==
  ASSUME NEW s \in Servers, NEW cmd \in Commands, LinkTypes, TaskTypes, OwnersWait,
         Accepts(s, cmd), task[s] # "waiting", UNCHANGED wire
  PROVE  OwnersWait'
<1> DEFINE e == [owner |-> s, cmd |-> cmd, live |-> TRUE]
<1>1. /\ e \in Entries /\ ring' = Append(ring, e)
      /\ task' = [task EXCEPT ![s] = "waiting"]
      /\ completion' = [completion EXCEPT ![s] = "none"]
  BY AcceptsGives
<1>2. e.live /\ e.owner = s /\ ring \in Seq(Entries)
  BY DEF LinkTypes
<1> HIDE DEF e
<1>3. /\ Live(ring') = Live(ring) \cup {Len(ring) + 1}
      /\ \A i \in Live(ring) : ring'[i] = ring[i] /\ i # Len(ring) + 1
      /\ ring'[Len(ring) + 1] = e
  <2> DEFINE r == Append(ring, e)
  <2>1. /\ Live(r) = Live(ring) \cup {Len(ring) + 1}
        /\ \A i \in Live(ring) : r[i] = ring[i] /\ i # Len(ring) + 1
        /\ r[Len(ring) + 1] = e
    BY <1>1, <1>2, LiveAppend
  <2>2. ring' = r
    BY <1>1
  <2> HIDE DEF r
  <2> QED
    BY <2>1, <2>2
<1>4. \A i \in Live(ring) : ring[i].owner # s
  BY DEF OwnersWait
<1>5. \A i \in Live(ring) : task'[ring[i].owner] = "waiting" /\ completion'[ring[i].owner] = "none"
  BY <1>1, <1>4, LiveFacts DEF OwnersWait, TaskTypes, LinkTypes
<1>6. task'[s] = "waiting" /\ completion'[s] = "none"
  BY <1>1 DEF TaskTypes
<1>7. \A i \in Live(ring') :
          /\ task'[ring'[i].owner] = "waiting" /\ completion'[ring'[i].owner] = "none"
          /\ \A j \in Live(ring') : ring'[j].owner = ring'[i].owner => j = i
  BY <1>2, <1>3, <1>4, <1>5, <1>6 DEF OwnersWait
<1>8. wire # NoEntry /\ wire.live =>
          /\ task'[wire.owner] = "waiting" /\ completion'[wire.owner] = "none"
          /\ \A i \in Live(ring') : ring'[i].owner # wire.owner
  <2> SUFFICES ASSUME wire # NoEntry, wire.live
               PROVE  /\ task'[wire.owner] = "waiting" /\ completion'[wire.owner] = "none"
                      /\ \A i \in Live(ring') : ring'[i].owner # wire.owner
    OBVIOUS
  <2>1. wire.owner \in Servers /\ wire.owner # s
    BY CommandFacts DEF OwnersWait, LinkTypes
  <2>2. task'[wire.owner] = task[wire.owner] /\ completion'[wire.owner] = completion[wire.owner]
    BY <1>1, <2>1 DEF TaskTypes
  <2>3. \A i \in Live(ring') : ring'[i].owner # wire.owner
    BY <1>2, <1>3, <2>1 DEF OwnersWait
  <2> QED
    BY <2>2, <2>3 DEF OwnersWait
<1> QED
  BY <1>7, <1>8 DEF OwnersWait

LEMMA OwnersPoll ==
  ASSUME LinkTypes, OwnersWait, PollTakes PROVE OwnersWait'
<1>1. /\ ring \in Seq(Entries) /\ ring # <<>> /\ ring' = Tail(ring)
      /\ UNCHANGED <<task, completion>>
  BY DEF PollTakes, LinkTypes
<1>2. /\ \A i \in Live(ring') : i \in Int /\ i > 0 /\ i + 1 \in Live(ring) /\ ring'[i] = ring[i + 1]
      /\ Head(ring).live => 1 \in Live(ring)
      /\ Head(ring) = ring[1] /\ ring[1] \in Entries
  BY <1>1, LiveTail
<1>3. \A i \in Live(ring') :
          /\ task[ring'[i].owner] = "waiting" /\ completion[ring'[i].owner] = "none"
          /\ \A j \in Live(ring') : ring'[j].owner = ring'[i].owner => j = i
  BY <1>2 DEF OwnersWait
<1>4. CASE Head(ring).live
  <2>1. wire' = ring[1] /\ 1 \in Live(ring)
    BY <1>2, <1>4 DEF PollTakes, Sendable
  <2>2. \A i \in Live(ring') : ring'[i].owner # wire'.owner
    BY <1>2, <2>1 DEF OwnersWait
  <2>3. task[wire'.owner] = "waiting" /\ completion[wire'.owner] = "none"
    BY <2>1 DEF OwnersWait
  <2> QED
    BY <1>1, <1>3, <2>2, <2>3 DEF OwnersWait
<1>5. CASE ~Head(ring).live
  <2>1. wire' = wire
    BY <1>5 DEF PollTakes, Sendable
  <2>2. wire # NoEntry /\ wire.live => \A i \in Live(ring') : ring'[i].owner # wire.owner
    BY <1>2 DEF OwnersWait
  <2> QED
    BY <1>1, <1>3, <2>1, <2>2 DEF OwnersWait
<1> QED
  BY <1>4, <1>5

LEMMA OwnersTransferEnds ==
  ASSUME NEW how, NEW next, LinkTypes, TaskTypes, OwnersWait, wire # NoEntry,
         TransferEnds(how, next), UNCHANGED ring
  PROVE  OwnersWait'
<1>1. /\ wire' = NoEntry /\ task' = task
      /\ completion' = IF wire.live THEN [completion EXCEPT ![wire.owner] = how] ELSE completion
  BY DEF TransferEnds, Complete
<1>2. \A i \in Live(ring) : completion'[ring[i].owner] = completion[ring[i].owner]
  BY <1>1, LiveFacts DEF OwnersWait, TaskTypes, LinkTypes
<1>3. \A i \in Live(ring) :
          /\ task'[ring[i].owner] = "waiting" /\ completion'[ring[i].owner] = "none"
          /\ \A j \in Live(ring) : ring[j].owner = ring[i].owner => j = i
  BY <1>1, <1>2 DEF OwnersWait
<1> QED
  BY <1>1, <1>3 DEF OwnersWait

LEMMA OwnersLeave ==
  ASSUME NEW s \in Servers, LinkTypes, TaskTypes, OwnersWait, DispatchExpires(s)
  PROVE  OwnersWait'
<1>1. /\ Live(ring') = {i \in Live(ring) : ring[i].owner # s}
      /\ \A i \in Live(ring') : ring'[i] = ring[i]
  BY LiveLeft
<1>2. wire' = IF wire # NoEntry /\ wire.owner = s THEN [wire EXCEPT !.live = FALSE] ELSE wire
  BY LeftEntries DEF LinkTypes
<1>3. \A c \in Servers : c # s => task'[c] = task[c] /\ completion'[c] = completion[c]
  BY DEF DispatchExpires, Answers, TaskTypes
<1>4. \A i \in Live(ring') : ring[i].owner \in Servers /\ ring[i].owner # s
  BY <1>1, LiveFacts DEF LinkTypes
<1>5. \A i \in Live(ring') :
          /\ task'[ring'[i].owner] = "waiting" /\ completion'[ring'[i].owner] = "none"
          /\ \A j \in Live(ring') : ring'[j].owner = ring'[i].owner => j = i
  BY <1>1, <1>3, <1>4 DEF OwnersWait
<1>6. CASE wire # NoEntry /\ wire.owner = s
  <2>1. ~wire'.live
    BY <1>2, <1>6 DEF LinkTypes, Entries
  <2> QED
    BY <1>5, <2>1 DEF OwnersWait
<1>7. CASE wire # NoEntry /\ wire.owner # s
  <2>1. wire' = wire /\ wire.owner \in Servers
    BY <1>2, <1>7, CommandFacts DEF LinkTypes
  <2> QED
    BY <1>1, <1>3, <1>5, <1>7, <2>1 DEF OwnersWait
<1>8. CASE wire = NoEntry
  <2>1. wire' = NoEntry
    BY <1>2, <1>8
  <2> QED
    BY <1>5, <2>1 DEF OwnersWait
<1> QED
  BY <1>6, <1>7, <1>8

(* What a goroutine that gives up leaves of the ring. *)
LEMMA AwaitedWhenLeft ==
  ASSUME NEW s \in Servers, LinkTypes, OwnersWait, Enumerations(ring) # {}, DispatchExpires(s)
  PROVE  /\ Enumerations(ring') # {}
         /\ (\A i \in Live(ring) : ring[i].owner # s) => Awaited(ring') = Awaited(ring)
         /\ (\E i \in Live(ring) : ring[i].owner = s) =>
              \E k \in 1 .. Len(Awaited(ring)) :
                /\ Awaited(ring)[k].owner = s
                /\ Awaited(ring') = [j \in 1 .. Len(Awaited(ring)) - 1 |->
                                       Awaited(ring)[IF j < k THEN j ELSE j + 1]]
<1>1. /\ ring \in Seq(Entries) /\ ring' \in Seq(Entries)
      /\ Live(ring') = {i \in Live(ring) : ring[i].owner # s}
      /\ \A i \in Live(ring') : ring'[i] = ring[i]
  BY LiveLeft DEF LinkTypes
<1>2. CASE \A i \in Live(ring) : ring[i].owner # s
  <2>1. Live(ring') = Live(ring)
    BY <1>1, <1>2
  <2>2. Enumerations(ring') # {} /\ Awaited(ring') = Awaited(ring)
    BY <1>1, <2>1, AwaitedUnchanged
  <2> QED
    BY <1>2, <2>2
<1>3. CASE \E i \in Live(ring) : ring[i].owner = s
  <2>1. PICK i \in Live(ring) : ring[i].owner = s
    BY <1>3
  <2>2. Live(ring') = Live(ring) \ {i}
    BY <1>1, <2>1 DEF OwnersWait
  <2>3. /\ Enumerations(ring') # {}
        /\ \E k \in 1 .. Len(Awaited(ring)) :
              /\ Awaited(ring)[k] = Entry(ring[i])
              /\ Awaited(ring') = [j \in 1 .. Len(Awaited(ring)) - 1 |->
                                     Awaited(ring)[IF j < k THEN j ELSE j + 1]]
    BY <1>1, <2>2, AwaitedLeaves
  <2>4. Entry(ring[i]).owner = s
    BY <2>1 DEF Entry
  <2> QED
    BY <1>3, <2>3, <2>4
<1> QED
  BY <1>2, <1>3

LEMMA EnumerationsStep ==
  LinkTypes /\ TaskTypes /\ DspInv /\ [Next]_vars => Enumerations(ring') # {}
<1> SUFFICES ASSUME LinkTypes, TaskTypes, DspInv, [Next]_vars PROVE Enumerations(ring') # {}
  OBVIOUS
<1>0. ring \in Seq(Entries) /\ Enumerations(ring) # {}
  BY DEF LinkTypes, DspInv
<1>A. ASSUME NEW s \in Servers, NEW cmd \in Commands, Accepts(s, cmd)
      PROVE  Enumerations(ring') # {}
  <2> DEFINE e == [owner |-> s, cmd |-> cmd, live |-> TRUE]
  <2>1. e \in Entries /\ ring' = Append(ring, e) /\ e.live
    BY <1>A, AcceptsGives
  <2> HIDE DEF e
  <2>2. Enumerations(Append(ring, e)) # {}
    BY <1>0, <2>1, AwaitedAppend
  <2> QED
    BY <2>1, <2>2
<1>V. Vanish => Enumerations(ring') # {}
  <2>1. <<>> \in Seq(Entries) /\ Live(<<>>) = {}
    BY DEF Live
  <2>2. Enumerations(<<>>) # {}
    BY <2>1, NothingAwaited
  <2> QED
    BY <2>2, VanishGives
<1>S. UNCHANGED ring => Enumerations(ring') # {}
  BY <1>0
<1>1. CASE Main
  <2>1. CASE ReadMicrophoneState
    <3>1. UNCHANGED ring \/ Accepts("restore", Mute("muted"))
      BY <2>1 DEF ReadMicrophoneState
    <3>2. "restore" \in Servers
      BY DEF Servers
    <3> QED
      BY <1>A, <1>S, <3>1, <3>2, CommandFacts
  <2>2. CASE Exit
    BY <1>V, <2>2 DEF Exit
  <2> QED
    BY <1>1, <1>S, <2>1, <2>2
       DEF Main, Start, BootContext, BootSeen, BootTimeout, OpenMicControl, Restored,
          LinkFailed
<1>2. CASE Pump
  <2>1. CASE PollTakes
    <3>1. ring # <<>> /\ ring' = Tail(ring)
      BY <2>1 DEF PollTakes
    <3>2. Enumerations(Tail(ring)) # {}
      BY <1>0, <3>1, AwaitedDropsDead, AwaitedTakesLive
    <3> QED
      BY <3>1, <3>2
  <2> QED
    BY <1>2, <1>S, <2>1 DEF Pump, TransmitOnce, NotReady, ReceiveReply, PollDelivers
<1>3. CASE Serve \/ HandleMicControl
  BY <1>3, <1>S DEF Serve, Connect, Announce, HandleInvocation, HandleMicControl
<1>4. CASE \E s \in Servers : Dispatching(s)
  <2> SUFFICES ASSUME NEW s \in Servers, Dispatching(s) PROVE Enumerations(ring') # {}
    BY <1>4
  <2>1. CASE Dispatch(s)
    <3>1. Accepts(s, request[s]) /\ request[s] \in Commands
      BY <2>1 DEF Dispatch, DspInv, TasksClosed
    <3> QED
      BY <1>A, <3>1
  <2>2. CASE DispatchEnds(s)
    BY <1>S, <2>2 DEF DispatchEnds
  <2>3. CASE DispatchExpires(s)
    BY <1>0, <2>3, AwaitedWhenLeft DEF DspInv
  <2> QED
    BY <2>1, <2>2, <2>3 DEF Dispatching
<1>5. CASE Faulty
  BY <1>5, <1>S, <1>V
     DEF Faulty, BootFails, BootTimeout, Kill, SendFails, ReceiveGarbled, PollFails,
        SessionLost
<1>6. CASE Asked
  BY <1>6, <1>S DEF Asked, DspReports, RouterCalls, MicRequest, McuWrites
<1>7. CASE UNCHANGED vars
  BY <1>7, <1>S DEF vars
<1> QED
  BY <1>1, <1>2, <1>3, <1>4, <1>5, <1>6, <1>7 DEF Next

LEMMA OwnersWaitStep ==
  LinkTypes /\ TaskTypes /\ DspInv /\ [Next]_vars => OwnersWait'
<1> SUFFICES ASSUME LinkTypes, TaskTypes, DspInv, [Next]_vars PROVE OwnersWait'
  OBVIOUS
<1>0. OwnersWait
  BY DEF DspInv
<1>V. Vanish => OwnersWait'
  <2>1. Live(<<>>) = {}
    BY DEF Live
  <2> QED
    BY <2>1, VanishGives DEF OwnersWait
<1>S. UNCHANGED <<ring, wire, task, completion>> => OwnersWait'
  BY <1>0 DEF OwnersWait
<1>T. ASSUME NEW how, NEW next, TransferEnds(how, next), wire # NoEntry, UNCHANGED ring
      PROVE  OwnersWait'
  BY <1>0, <1>T, OwnersTransferEnds
<1>1. CASE Main
  <2>1. CASE ReadMicrophoneState
    <3>1. \/ UNCHANGED <<ring, wire, task, completion>>
          \/ Accepts("restore", Mute("muted")) /\ UNCHANGED wire
      BY <2>1 DEF ReadMicrophoneState
    <3>2. "restore" \in Servers /\ task["restore"] # "waiting"
      BY <2>1 DEF Servers, DspInv, TasksClosed, ReadMicrophoneState
    <3> QED
      BY <1>0, <1>S, <3>1, <3>2, CommandFacts, OwnersAccepts
  <2>2. CASE Exit
    BY <1>V, <2>2 DEF Exit
  <2> QED
    BY <1>1, <1>S, <2>1, <2>2
       DEF Main, Start, BootContext, BootSeen, BootTimeout, OpenMicControl, Restored,
          LinkFailed
<1>2. CASE Pump
  <2>1. CASE PollTakes
    BY <1>0, <2>1, OwnersPoll
  <2>2. CASE TransmitOnce \/ PollDelivers
    BY <1>S, <2>2 DEF TransmitOnce, PollDelivers
  <2>3. CASE NotReady \/ ReceiveReply
    <3>1. wire # NoEntry
      BY <2>3 DEF NotReady, ReceiveReply, LinkTypes
    <3> QED
      BY <1>S, <1>T, <2>3, <3>1 DEF NotReady, ReceiveReply
  <2> QED
    BY <1>2, <2>1, <2>2, <2>3 DEF Pump
<1>3. CASE Serve \/ HandleMicControl
  <2>1. ASSUME NEW s \in Servers, task[s] = "idle", task' = [task EXCEPT ![s] = "gated"],
               UNCHANGED <<ring, wire, completion>>
        PROVE  OwnersWait'
    BY <1>0, <2>1 DEF OwnersWait, TaskTypes
  <2>2. "wamp" \in Servers /\ "mic" \in Servers
    BY DEF Servers
  <2>3. CASE HandleInvocation
    BY <2>1, <2>2, <2>3 DEF HandleInvocation, ServeIdle
  <2>4. CASE HandleMicControl
    BY <2>1, <2>2, <2>4 DEF HandleMicControl
  <2> QED
    BY <1>3, <1>S, <2>3, <2>4 DEF Serve, Connect, Announce
<1>4. CASE \E s \in Servers : Dispatching(s)
  <2> SUFFICES ASSUME NEW s \in Servers, Dispatching(s) PROVE OwnersWait'
    BY <1>4
  <2>1. CASE Dispatch(s)
    <3>1. /\ Accepts(s, request[s]) /\ request[s] \in Commands /\ task[s] # "waiting"
          /\ UNCHANGED wire
      BY <2>1 DEF Dispatch, DspInv, TasksClosed
    <3> QED
      BY <1>0, <3>1, OwnersAccepts
  <2>2. CASE DispatchEnds(s)
    <3>1. completion[s] # "none" /\ UNCHANGED <<ring, wire>>
      BY <2>2 DEF DispatchEnds
    <3>2. \A c \in Servers : c # s => task'[c] = task[c] /\ completion'[c] = completion[c]
      BY <2>2 DEF DispatchEnds, Answers, TaskTypes
    <3>3. \A i \in Live(ring) : ring[i].owner # s /\ ring[i].owner \in Servers
      BY <1>0, <3>1, LiveFacts DEF OwnersWait, LinkTypes
    <3>4. wire # NoEntry /\ wire.live => wire.owner # s /\ wire.owner \in Servers
      BY <1>0, <3>1, CommandFacts DEF OwnersWait, LinkTypes
    <3> QED
      BY <1>0, <3>1, <3>2, <3>3, <3>4 DEF OwnersWait
  <2>3. CASE DispatchExpires(s)
    BY <1>0, <2>3, OwnersLeave
  <2> QED
    BY <2>1, <2>2, <2>3 DEF Dispatching
<1>5. CASE Faulty
  <2>1. CASE SendFails \/ ReceiveGarbled
    <3>1. wire # NoEntry
      BY <2>1 DEF SendFails, ReceiveGarbled, LinkTypes
    <3> QED
      BY <1>S, <1>T, <2>1, <3>1 DEF SendFails, ReceiveGarbled
  <2> QED
    BY <1>5, <1>S, <1>V, <2>1
       DEF Faulty, BootFails, BootTimeout, Kill, PollFails, SessionLost
<1>6. CASE Asked
  BY <1>6, <1>S DEF Asked, DspReports, RouterCalls, MicRequest, McuWrites
<1>7. CASE UNCHANGED vars
  BY <1>7, <1>S DEF vars
<1> QED
  BY <1>1, <1>2, <1>3, <1>4, <1>5, <1>6, <1>7 DEF Next

LEMMA OnlyMuteStep ==
  LinkTypes /\ TaskTypes /\ DspInv /\ [Next]_vars => OnlyMute'
<1> SUFFICES ASSUME LinkTypes, TaskTypes, DspInv, [Next]_vars, phase' = "restoring"
             PROVE  /\ \A i \in DOMAIN ring' : ring'[i].cmd = Mute("muted")
                    /\ wire' # NoEntry => wire'.cmd = Mute("muted")
  BY DEF OnlyMute
<1> DEFINE Goal == /\ \A i \in DOMAIN ring' : ring'[i].cmd = Mute("muted")
                   /\ wire' # NoEntry => wire'.cmd = Mute("muted")
<1>0. /\ OnlyMute /\ ring \in Seq(Entries)
      /\ DOMAIN ring = 1 .. Len(ring) /\ Len(ring) \in Nat
  BY DEF DspInv, LinkTypes
<1>V. ~Vanish
  BY VanishGives
<1>S. phase = "restoring" /\ UNCHANGED ring /\ (wire' = wire \/ wire' = NoEntry) => Goal
  BY <1>0 DEF OnlyMute
<1> SUFFICES Goal
  OBVIOUS
<1> HIDE DEF Goal
<1>1. CASE Main
  <2>1. CASE ReadMicrophoneState
    <3> DEFINE e == [owner |-> "restore", cmd |-> Mute("muted"), live |-> TRUE]
    <3>1. ring = <<>> /\ wire = NoEntry
      BY <2>1 DEF ReadMicrophoneState, DspInv, LinkClosed
    <3>2. ring' = Append(ring, e) /\ wire' = wire
      BY <2>1 DEF ReadMicrophoneState, Accepts
    <3>3. e.cmd = Mute("muted")
      OBVIOUS
    <3> HIDE DEF e
    <3>4. ring' = <<e>>
      BY <3>1, <3>2
    <3>5. DOMAIN ring' = 1 .. 1 /\ ring'[1] = e
      BY <3>4
    <3> QED
      BY <3>1, <3>2, <3>3, <3>5 DEF Goal
  <2> QED
    BY <1>1, <1>V, <1>S, <2>1
       DEF Main, Start, BootContext, BootSeen, BootTimeout, OpenMicControl, Restored,
          AfterRestore, LinkFailed, Exit
<1>2. CASE Pump
  <2>1. CASE PollTakes
    <3>1. /\ ring # <<>> /\ ring' = Tail(ring) /\ phase = "restoring"
          /\ wire' = wire \/ wire' = Head(ring)
      BY <2>1 DEF PollTakes
    <3>2. /\ DOMAIN ring' = 1 .. Len(ring) - 1 /\ \A i \in 1 .. Len(ring) - 1 : ring'[i] = ring[i + 1]
          /\ Head(ring) = ring[1] /\ 1 \in DOMAIN ring
          /\ \A i \in 1 .. Len(ring) - 1 : i + 1 \in DOMAIN ring
      BY <1>0, <3>1, TailFacts
    <3> QED
      BY <1>0, <3>1, <3>2 DEF Goal, OnlyMute
  <2> QED
    BY <1>2, <1>S, <2>1
       DEF Pump, TransmitOnce, NotReady, ReceiveReply, PollDelivers, TransferEnds
<1>3. CASE Serve \/ HandleMicControl
  BY <1>3, <1>S DEF Serve, Connect, Announce, HandleInvocation, HandleMicControl
<1>4. CASE \E s \in Servers : Dispatching(s)
  <2> SUFFICES ASSUME NEW s \in Servers, Dispatching(s) PROVE Goal
    BY <1>4
  <2>1. CASE Dispatch(s)
    BY <2>1 DEF Dispatch
  <2>2. CASE DispatchEnds(s)
    BY <1>S, <2>2 DEF DispatchEnds
  <2>3. CASE DispatchExpires(s)
    <3>1. /\ DOMAIN ring' = DOMAIN ring
          /\ \A i \in DOMAIN ring :
               ring'[i] = IF ring[i].owner = s THEN [ring[i] EXCEPT !.live = FALSE] ELSE ring[i]
          /\ (wire = NoEntry <=> wire' = NoEntry)
          /\ wire' = IF wire # NoEntry /\ wire.owner = s THEN [wire EXCEPT !.live = FALSE] ELSE wire
      BY <2>3, LeftEntries DEF LinkTypes
    <3>2. \A e \in Entries : [e EXCEPT !.live = FALSE].cmd = e.cmd
      BY DEF Entries
    <3>3. \A i \in DOMAIN ring : ring[i] \in Entries
      BY <1>0
    <3>4. \A i \in DOMAIN ring : ring'[i].cmd = ring[i].cmd
      BY <3>1, <3>2, <3>3
    <3>5. wire # NoEntry => wire'.cmd = wire.cmd
      BY <3>1, <3>2 DEF LinkTypes
    <3>6. phase = "restoring"
      BY <2>3 DEF DispatchExpires
    <3> QED
      BY <1>0, <3>1, <3>4, <3>5, <3>6 DEF Goal, OnlyMute
  <2> QED
    BY <2>1, <2>2, <2>3 DEF Dispatching
<1>5. CASE Faulty
  BY <1>5, <1>S, <1>V
     DEF Faulty, BootFails, BootTimeout, Kill, SendFails, ReceiveGarbled, PollFails,
        SessionLost, TransferEnds
<1>6. CASE Asked
  BY <1>6, <1>S DEF Asked, DspReports, RouterCalls, MicRequest, McuWrites
<1>7. CASE UNCHANGED vars
  BY <1>7, <1>S DEF vars
<1> QED
  BY <1>1, <1>2, <1>3, <1>4, <1>5, <1>6, <1>7 DEF Next

LEMMA MuteExecutedStep ==
  LinkTypes /\ DspMembers /\ TaskTypes /\ DspInv /\ [Next]_vars => MuteExecuted'
<1> SUFFICES ASSUME LinkTypes, DspMembers, TaskTypes, DspInv, [Next]_vars, phase' = "restoring",
                    pump' = "awaiting" \/ completion'["restore"] = "ok" \/ result'["restore"] = "ok"
             PROVE  dsp'["mic"] = "muted"
  BY DEF MuteExecuted
<1>0. MuteExecuted /\ "restore" \in Servers /\ "mic" \in Servers /\ "wamp" \in Servers
  BY DEF DspInv, Servers
<1>V. ~Vanish
  BY VanishGives
<1>S. phase = "restoring" /\ (pump' = "awaiting" => pump = "awaiting")
        /\ UNCHANGED <<completion, result, dsp>> => dsp'["mic"] = "muted"
  BY <1>0 DEF MuteExecuted
<1>1. CASE Main
  <2>1. CASE ReadMicrophoneState
    <3>1. ring = <<>> /\ wire = NoEntry /\ pump' = pump
      BY <2>1 DEF ReadMicrophoneState, DspInv, LinkClosed
    <3>2. pump' # "awaiting"
      BY <3>1 DEF LinkTypes
    <3>3. completion'["restore"] = "none" /\ result'["restore"] = "none"
      BY <1>0, <2>1 DEF ReadMicrophoneState, Accepts, TaskTypes
    <3> QED
      BY <3>2, <3>3
  <2> QED
    BY <1>1, <1>V, <1>S, <2>1
       DEF Main, Start, BootContext, BootSeen, BootTimeout, OpenMicControl, Restored,
          AfterRestore, LinkFailed, Exit
<1>2. CASE Pump
  <2>1. CASE TransmitOnce
    <3>1. phase = "restoring" /\ wire # NoEntry
      BY <2>1 DEF TransmitOnce, LinkTypes
    <3>2. wire.cmd = Mute("muted")
      BY <3>1 DEF DspInv, OnlyMute
    <3>3. dsp' = [dsp EXCEPT !["mic"] = "muted"]
      BY <2>1, <3>2 DEF TransmitOnce, Mute
    <3> QED
      BY <3>3 DEF DspMembers
  <2>2. CASE ReceiveReply
    BY <1>0, <2>2 DEF ReceiveReply, MuteExecuted, TransferEnds
  <2>3. CASE NotReady
    BY <1>0, <2>3 DEF NotReady, MuteExecuted, TransferEnds
  <2> QED
    BY <1>2, <1>S, <2>1, <2>2, <2>3 DEF Pump, PollTakes, PollDelivers
<1>3. CASE Serve \/ HandleMicControl
  BY <1>3, <1>S DEF Serve, Connect, Announce, HandleInvocation, HandleMicControl
<1>4. CASE \E s \in Servers : Dispatching(s)
  <2> SUFFICES ASSUME NEW s \in Servers, Dispatching(s) PROVE dsp'["mic"] = "muted"
    BY <1>4
  <2>1. CASE Dispatch(s)
    BY <2>1 DEF Dispatch
  <2>2. CASE DispatchEnds(s)
    BY <1>0, <2>2 DEF DispatchEnds, Answers, MuteExecuted, TaskTypes
  <2>3. CASE DispatchExpires(s)
    BY <1>0, <2>3 DEF DispatchExpires, Answers, MuteExecuted, TaskTypes
  <2> QED
    BY <2>1, <2>2, <2>3 DEF Dispatching
<1>5. CASE Faulty
  <2>1. CASE SendFails
    <3>1. phase = "restoring" /\ pump' = "dead" /\ UNCHANGED <<dsp, result>>
      BY <2>1 DEF SendFails, TransferEnds
    <3>2. completion'["restore"] = "ok" => completion["restore"] = "ok"
      BY <1>0, <2>1 DEF SendFails, TransferEnds, Complete, TaskTypes
    <3> QED
      BY <1>0, <3>1, <3>2 DEF MuteExecuted
  <2>2. CASE ReceiveGarbled
    BY <1>0, <2>2 DEF ReceiveGarbled, MuteExecuted
  <2> QED
    BY <1>5, <1>S, <1>V, <2>1, <2>2
       DEF Faulty, BootFails, BootTimeout, Kill, PollFails, SessionLost
<1>6. CASE Asked
  BY <1>6, <1>S DEF Asked, DspReports, RouterCalls, MicRequest, McuWrites
<1>7. CASE UNCHANGED vars
  BY <1>7, <1>S DEF vars
<1> QED
  BY <1>1, <1>2, <1>3, <1>4, <1>5, <1>6, <1>7 DEF Next

LEMMA DspInvStep ==
  TypeOK /\ DspInv /\ [Next]_vars => DspInv'
<1> SUFFICES ASSUME TypeOK, DspInv, [Next]_vars PROVE DspInv'
  OBVIOUS
<1>0. DspMembers /\ LinkTypes /\ QueueTypes /\ TaskTypes
  BY DspTypeParts
<1>1. Enumerations(ring') # {}
  BY <1>0, EnumerationsStep
<1> QED
  BY <1>0, <1>1, LinkClosedStep, TasksClosedStep, OwnersWaitStep, OnlyMuteStep,
     MuteExecutedStep DEF DspInv

LEMMA DspTypesStep ==
  ASSUME DspAssumption PROVE TypeOK /\ DspInv /\ [Next]_vars => TypeOK'
<1> SUFFICES ASSUME TypeOK, DspInv, [Next]_vars PROVE TypeOK'
  OBVIOUS
<1>1. DspFlags /\ DspMembers /\ LinkTypes /\ QueueTypes /\ TaskTypes
  BY DspTypeParts
<1>2. DspFlags'
  BY <1>1, FlagsStep
<1>3. DspMembers'
  BY <1>1, MembersStep
<1>4. LinkTypes'
  BY <1>1, LinkStep
<1>5. QueueTypes'
  BY <1>1, QueueStep
<1>6. TaskTypes'
  BY <1>1, TasksStep
<1> QED
  BY <1>2, <1>3, <1>4, <1>5, <1>6
     DEF TypeOK, DspFlags, DspMembers, LinkTypes, QueueTypes, TaskTypes, Phases, Frames

LEMMA DspInvariant == ASSUME DspAssumption PROVE Spec => [](TypeOK /\ DspInv)
  BY DspInitTypes, DspInvInit, DspTypesStep, DspInvStep, PTL DEF Spec

(* DspService keeps its types: what the ring, the channels and the dispatch *)
(* of tools/dsp-interface hold, for every bound.                           *)
THEOREM DspTypes == ASSUME DspAssumption PROVE Spec => []TypeOK
  BY DspInvariant, PTL

(* main of tools/dsp-interface opens the service to others only when the   *)
(* DSP is muted as the state file asked: Restored follows an OK, and OK is *)
(* answered to the restore only for a mute that was executed.              *)
THEOREM MuteBeforeOthers == ASSUME DspAssumption PROVE Spec => MutedBeforeService
<1>1. TypeOK /\ DspInv /\ [Next]_vars =>
        [phase = "restoring" /\ phase' = "ready" => dsp["mic"] = "muted"]_vars
  <2> SUFFICES ASSUME TypeOK, DspInv, Next, phase = "restoring", phase' = "ready"
               PROVE  dsp["mic"] = "muted"
    OBVIOUS
  <2>0. DspMembers /\ LinkTypes /\ QueueTypes /\ TaskTypes /\ MuteExecuted
    BY DspTypeParts DEF DspInv
  <2>V. ~Vanish
    BY VanishGives
  <2>1. Restored
    BY <2>V
       DEF Next, Main, Start, BootContext, BootSeen, BootTimeout, OpenMicControl,
          ReadMicrophoneState, LinkFailed, Exit,
       Pump, PollTakes, TransmitOnce, NotReady, ReceiveReply, PollDelivers, Serve, Connect,
       Announce, HandleInvocation, HandleMicControl,
       Dispatching, Dispatch, DispatchEnds, DispatchExpires, Faulty, BootFails, Kill,
       SendFails, ReceiveGarbled, PollFails, SessionLost,
       Asked, DspReports, RouterCalls, MicRequest, McuWrites
  <2>2. result["restore"] = "ok"
    BY <2>1 DEF Restored, AfterRestore
  <2> QED
    BY <2>0, <2>2 DEF MuteExecuted
<1> QED
  BY DspInvariant, <1>1, PTL DEF Spec, MutedBeforeService

(* The refinement mapping of Promise by its names. *)
Up == phase \notin {"down", "loading"}
Stages == [s \in Servers |-> Stage(s)]
Stands == UNCHANGED <<Up, dsp, Pending, Stages, result>>

LEMMA StandsStutters == Stands => UNCHANGED Promise!cvars
  BY DEF Stands, Promise!cvars, Up, Stages

LEMMA StageCases ==
  \A s \in Servers :
    /\ Stages[s] = Stage(s)
    /\ task[s] # "waiting" => Stage(s) = "idle"
    /\ task[s] = "waiting" /\ completion[s] = "error" => Stage(s) = "failed"
    /\ task[s] = "waiting" /\ completion[s] # "error" /\ InLine(s) => Stage(s) = "accepted"
    /\ task[s] = "waiting" /\ completion[s] # "error" /\ ~InLine(s) => Stage(s) = "executed"
  BY DEF Stages, Stage

LEMMA StageCasesNext ==
  \A s \in Servers :
    /\ Stages'[s] = Stage(s)'
    /\ task'[s] # "waiting" => Stage(s)' = "idle"
    /\ task'[s] = "waiting" /\ completion'[s] = "error" => Stage(s)' = "failed"
    /\ task'[s] = "waiting" /\ completion'[s] # "error" /\ InLine(s)' => Stage(s)' = "accepted"
    /\ task'[s] = "waiting" /\ completion'[s] # "error" /\ ~InLine(s)' => Stage(s)' = "executed"
  BY DEF Stages, Stage

(* The stage of s depends on its goroutine and on whether it is in line. *)
LEMMA SameStage ==
  \A s \in Servers :
    /\ (task'[s] = task[s] /\ completion'[s] = completion[s] /\ (InLine(s)' <=> InLine(s)))
         => Stages'[s] = Stages[s]
    /\ task[s] # "waiting" /\ task'[s] # "waiting" => Stages'[s] = Stages[s]
  BY DEF Stages, Stage

LEMMA StagesDomain ==
  /\ Stages = [s \in Servers |-> Stages[s]]
  /\ Stages' = [s \in Servers |-> Stages'[s]]
  BY DEF Stages

LEMMA LinkStands ==
  ASSUME UNCHANGED <<ring, wire>>, pump' = "sending" <=> pump = "sending"
  PROVE  Pending' = Pending /\ \A s \in Servers : InLine(s)' <=> InLine(s)
  BY DEF Pending, InLine

LEMMA NoneInLine ==
  ASSUME LinkTypes, OwnersWait, NEW s \in Servers, task[s] # "waiting" \/ completion[s] # "none"
  PROVE  ~InLine(s)
<1>1. pump = "sending" => wire # NoEntry
  BY DEF LinkTypes
<1> QED
  BY <1>1 DEF InLine, OwnersWait

LEMMA AllStands ==
  ASSUME UNCHANGED <<ring, wire, task, completion, result, dsp>>,
         pump' = "sending" <=> pump = "sending", Up' <=> Up
  PROVE  Stands
<1>1. Pending' = Pending /\ \A s \in Servers : InLine(s)' <=> InLine(s)
  BY LinkStands
<1>2. \A s \in Servers : Stages'[s] = Stages[s]
  BY <1>1, SameStage
<1>3. Stages' = Stages
  BY <1>2, StagesDomain
<1>4. Up' = Up
  BY DEF Up
<1> QED
  BY <1>1, <1>3, <1>4 DEF Stands

LEMMA PendingForms ==
  ASSUME NEW r \in Seq(Entries), Enumerations(r) # {}, NEW e \in Entries
  PROVE  /\ Awaited(r) \in Seq(Todo)
         /\ <<>> \o Awaited(r) = Awaited(r)
         /\ <<Entry(e)>> \o Awaited(r) \in Seq(Todo)
         /\ <<Entry(e)>> \o Awaited(r) # <<>>
         /\ Head(<<Entry(e)>> \o Awaited(r)) = Entry(e)
         /\ Tail(<<Entry(e)>> \o Awaited(r)) = Awaited(r)
<1>1. Awaited(r) \in Seq(Todo) /\ Entry(e) \in Todo
  BY AwaitedEntries DEF Entry, Entries, Todo
<1> QED
  BY <1>1

LEMMA PendingNow ==
  ASSUME LinkTypes, Enumerations(ring) # {}
  PROVE  /\ Awaited(ring) \in Seq(Todo)
         /\ pump = "sending" =>
              /\ wire \in Entries /\ Pending = <<Entry(wire)>> \o Awaited(ring)
              /\ Pending # <<>> /\ Head(Pending) = Entry(wire) /\ Tail(Pending) = Awaited(ring)
         /\ pump # "sending" => Pending = Awaited(ring)
<1>1. ring \in Seq(Entries) /\ (pump = "sending" => wire \in Entries)
  BY DEF LinkTypes
<1>2. Awaited(ring) \in Seq(Todo) /\ <<>> \o Awaited(ring) = Awaited(ring)
  BY <1>1, AwaitedEntries
<1> QED
  BY <1>1, <1>2, PendingForms DEF Pending

LEMMA StartResets == Start => Promise!Reset
<1> SUFFICES ASSUME Start PROVE Promise!Reset
  OBVIOUS
<1>1. Stages' = Stages /\ Pending' = Pending
  <2>1. Pending' = Pending /\ \A s \in Servers : InLine(s)' <=> InLine(s)
    BY LinkStands DEF Start
  <2>2. \A s \in Servers : Stages'[s] = Stages[s]
    BY <2>1, SameStage DEF Start
  <2> QED
    BY <2>1, <2>2, StagesDomain
<1> QED
  BY <1>1 DEF Start, Promise!Reset, Stages

LEMMA BootBoots ==
  ASSUME LinkTypes, DspInv, BootContext PROVE Promise!Boot
<1>0. pump # "sending" /\ pump' = "idle" /\ dsp = PowerOn
  BY DEF LinkTypes, BootContext, DspInv, LinkClosed
<1>1. Stages' = Stages /\ Pending' = Pending
  <2>1. Pending' = Pending /\ \A s \in Servers : InLine(s)' <=> InLine(s)
    BY <1>0, LinkStands DEF BootContext
  <2>2. \A s \in Servers : Stages'[s] = Stages[s]
    BY <2>1, SameStage DEF BootContext
  <2> QED
    BY <2>1, <2>2, StagesDomain
<1> QED
  BY <1>0, <1>1 DEF BootContext, Promise!Boot, Stages

LEMMA AppendBehind ==
  ASSUME NEW S, NEW p \in Seq(S), NEW q \in Seq(S), NEW x \in S
  PROVE  p \o Append(q, x) = Append(p \o q, x)
  OBVIOUS

LEMMA AcceptsAccept ==
  ASSUME NEW s \in Servers, NEW cmd \in Commands, LinkTypes, TaskTypes, DspInv,
         Accepts(s, cmd), task[s] # "waiting", UNCHANGED <<pump, wire, dsp>>, Up, Up'
  PROVE  Promise!Accept(s, cmd)
<1> DEFINE e == [owner |-> s, cmd |-> cmd, live |-> TRUE]
           x == [owner |-> s, cmd |-> cmd, open |-> TRUE]
<1>0. ring \in Seq(Entries) /\ Enumerations(ring) # {} /\ OwnersWait
  BY DEF LinkTypes, DspInv
<1>1. e \in Entries /\ ring' = Append(ring, e) /\ e.live /\ e.owner = s
  BY AcceptsGives
<1>2. x \in Todo /\ Entry(e) = x
  BY DEF Todo, Entry
<1> HIDE DEF e
<1>3. Awaited(ring') = Append(Awaited(ring), x)
  <2>1. Awaited(Append(ring, e)) = Append(Awaited(ring), Entry(e))
    BY <1>0, <1>1, AwaitedAppend
  <2> QED
    BY <1>1, <1>2, <2>1
<1>4. Pending' = Append(Pending, x)
  <2> DEFINE pre == IF pump = "sending" THEN <<Entry(wire)>> ELSE <<>>
  <2>1. pre \in Seq(Todo)
    <3>1. CASE pump = "sending"
      <4>1. wire \in Entries
        BY <3>1 DEF LinkTypes
      <4>2. Entry(wire) \in Todo
        BY <4>1 DEF Entry, Entries, Todo
      <4> QED
        BY <3>1, <4>2
    <3>2. CASE pump # "sending"
      BY <3>2
    <3> QED
      BY <3>1, <3>2
  <2>2. Awaited(ring) \in Seq(Todo)
    BY <1>0, AwaitedEntries
  <2>3. Pending = pre \o Awaited(ring)
    BY DEF Pending
  <2>4. Pending' = pre \o Awaited(ring')
    BY DEF Pending
  <2> HIDE DEF pre, x
  <2> QED
    BY <1>2, <1>3, <2>1, <2>2, <2>3, <2>4, AppendBehind
<1>5. /\ Live(ring') = Live(ring) \cup {Len(ring) + 1}
      /\ \A i \in Live(ring) : ring'[i] = ring[i]
      /\ ring'[Len(ring) + 1] = e
  <2> DEFINE r == Append(ring, e)
  <2>1. /\ Live(r) = Live(ring) \cup {Len(ring) + 1}
        /\ \A i \in Live(ring) : r[i] = ring[i] /\ i # Len(ring) + 1
        /\ r[Len(ring) + 1] = e
    <3>1. ring \in Seq(Entries) /\ e \in Entries /\ e.live
      BY <1>0, <1>1
    <3> QED
      BY <3>1, LiveAppend
  <2>2. ring' = r
    BY <1>1
  <2> HIDE DEF r
  <2> QED
    BY <2>1, <2>2
<1>6. \A c \in Servers : c # s =>
        task'[c] = task[c] /\ completion'[c] = completion[c] /\ (InLine(c)' <=> InLine(c))
  BY <1>1, <1>5 DEF InLine, Accepts, TaskTypes
<1>7. task'[s] = "waiting" /\ completion'[s] = "none" /\ InLine(s)'
  BY <1>1, <1>5 DEF InLine, Accepts, TaskTypes
<1>8. Stages' = [Stages EXCEPT ![s] = "accepted"]
  <2>1. \A c \in Servers : c # s => Stages'[c] = Stages[c]
    BY <1>6, SameStage
  <2>2. Stages'[s] = "accepted"
    BY <1>7, StageCasesNext
  <2> QED
    BY <2>1, <2>2, StagesDomain
<1>9. Stages[s] = "idle"
  BY StageCases
<1>10. result' = [result EXCEPT ![s] = "none"]
  BY DEF Accepts
<1> QED
  BY <1>4, <1>8, <1>9, <1>10 DEF Promise!Accept, Up, Stages

LEMMA PollStands ==
  ASSUME LinkTypes, DspInv, PollTakes PROVE Stands
<1>0. /\ ring \in Seq(Entries) /\ Enumerations(ring) # {} /\ ring # <<>> /\ ring' = Tail(ring)
      /\ pump = "idle" /\ wire = NoEntry /\ OwnersWait
      /\ UNCHANGED <<phase, dsp, task, completion, result>>
  BY DEF LinkTypes, DspInv, PollTakes
<1>1. /\ Head(ring) = ring[1] /\ ring[1] \in Entries /\ Tail(ring) \in Seq(Entries)
      /\ DOMAIN ring = 1 .. Len(ring) /\ DOMAIN ring' = 1 .. Len(ring) - 1
      /\ \A i \in 1 .. Len(ring) - 1 : ring'[i] = ring[i + 1]
      /\ Len(ring) \in Nat \ {0}
  BY <1>0, TailFacts
<1>2. Pending = Awaited(ring) /\ Awaited(ring) \in Seq(Todo)
  BY <1>0, PendingNow
<1>3. CASE Head(ring).live
  <2>1. pump' = "sending" /\ wire' = Head(ring)
    BY <1>3 DEF PollTakes, Sendable
  <2>2. Awaited(ring) = <<Entry(Head(ring))>> \o Awaited(ring')
    BY <1>0, <1>3, AwaitedTakesLive
  <2>3. Pending' = Pending
    BY <1>2, <2>1, <2>2 DEF Pending
  <2>4. \A i \in Live(ring) : i = 1 \/ (i - 1 \in Live(ring') /\ ring'[i - 1] = ring[i])
    BY <1>1 DEF Live
  <2>5. \A i \in Live(ring') : i + 1 \in Live(ring) /\ ring'[i] = ring[i + 1]
    BY <1>1 DEF Live
  <2>6. 1 \in Live(ring)
    BY <1>1, <1>3 DEF Live
  <2>7. \A s \in Servers : InLine(s)' <=> InLine(s)
    <3> TAKE s \in Servers
    <3>1. wire' = ring[1] /\ ring[1].live
      BY <1>1, <1>3, <2>1
    <3>2. InLine(s) <=> \E i \in Live(ring) : ring[i].owner = s
      BY <1>0 DEF InLine
    <3>3. InLine(s)' <=> ring[1].owner = s \/ \E i \in Live(ring') : ring'[i].owner = s
      BY <2>1, <3>1 DEF InLine
    <3> QED
      BY <2>4, <2>5, <2>6, <3>2, <3>3
  <2> QED
    BY <1>0, <2>3, <2>7, SameStage, StagesDomain DEF Stands, Up
<1>4. CASE ~Head(ring).live
  <2>1. pump' = pump /\ wire' = wire
    BY <1>4 DEF PollTakes, Sendable
  <2>2. Awaited(ring') = Awaited(ring)
    BY <1>0, <1>4, AwaitedDropsDead
  <2>3. Pending' = Pending
    BY <2>1, <2>2 DEF Pending
  <2>4. \A i \in Live(ring) : i - 1 \in Live(ring') /\ ring'[i - 1] = ring[i]
    BY <1>1, <1>4 DEF Live
  <2>5. \A i \in Live(ring') : i + 1 \in Live(ring) /\ ring'[i] = ring[i + 1]
    BY <1>1 DEF Live
  <2>7. \A s \in Servers : InLine(s)' <=> InLine(s)
    BY <1>0, <2>1, <2>4, <2>5 DEF InLine
  <2> QED
    BY <1>0, <2>3, <2>7, SameStage, StagesDomain DEF Stands, Up
<1> QED
  BY <1>3, <1>4

(* The command on its way, and what the goroutine that waits for it sees. *)
LEMMA WireFacts ==
  ASSUME LinkTypes, DspInv, pump \in {"sending", "awaiting"}
  PROVE  /\ Up /\ ring \in Seq(Entries) /\ Enumerations(ring) # {}
         /\ wire \in Entries /\ wire.owner \in Servers /\ wire.live \in BOOLEAN
         /\ wire.live => /\ task[wire.owner] = "waiting" /\ completion[wire.owner] = "none"
                         /\ \A i \in Live(ring) : ring[i].owner # wire.owner
<1>1. wire \in Entries /\ wire # NoEntry
  BY DEF LinkTypes
<1>2. Up
  BY <1>1 DEF DspInv, LinkClosed, Up
<1> QED
  BY <1>1, <1>2, CommandFacts DEF LinkTypes, DspInv, OwnersWait

LEMMA TransmitExecutes ==
  ASSUME LinkTypes, DspInv, TransmitOnce PROVE Promise!Execute
<1>0. /\ pump = "sending" /\ pump' = "awaiting"
      /\ UNCHANGED <<phase, ring, wire, task, completion, result>>
      /\ dsp' = [dsp EXCEPT ![wire.cmd.op] = wire.cmd.value]
  BY DEF TransmitOnce
<1>1. /\ Up /\ wire \in Entries /\ wire.owner \in Servers /\ wire.live \in BOOLEAN
      /\ wire.live => /\ task[wire.owner] = "waiting" /\ completion[wire.owner] = "none"
                      /\ \A i \in Live(ring) : ring[i].owner # wire.owner
      /\ ring \in Seq(Entries) /\ Enumerations(ring) # {}
  BY <1>0, WireFacts
<1>2. Pending # <<>> /\ Head(Pending) = Entry(wire) /\ Tail(Pending) = Awaited(ring)
  BY <1>0, <1>1, PendingNow
<1>3. Pending' = Tail(Pending)
  BY <1>0, <1>1, <1>2, AwaitedEntries DEF Pending
<1>4. /\ Entry(wire).cmd = wire.cmd /\ Entry(wire).open = wire.live
      /\ Entry(wire).owner = wire.owner
  BY DEF Entry
<1>5. \A c \in Servers : Stages'[c] = IF wire.live /\ c = wire.owner THEN "executed" ELSE Stages[c]
  <2> TAKE c \in Servers
  <2>1. InLine(c)' <=> \E i \in Live(ring) : ring[i].owner = c
    BY <1>0 DEF InLine
  <2>2. CASE wire.live /\ c = wire.owner
    <3>1. ~InLine(c)' /\ task'[c] = "waiting" /\ completion'[c] = "none"
      BY <1>0, <1>1, <2>1, <2>2
    <3> QED
      BY <2>2, <3>1, StageCasesNext
  <2>3. CASE ~(wire.live /\ c = wire.owner)
    <3>1. InLine(c)' <=> InLine(c)
      BY <2>1, <2>3 DEF InLine
    <3> QED
      BY <1>0, <2>3, <3>1, SameStage
  <2> QED
    BY <2>2, <2>3
<1>6. Stages' = [c \in Servers |-> IF Head(Pending).open /\ c = Head(Pending).owner
                                     THEN "executed" ELSE Stages[c]]
  BY <1>2, <1>4, <1>5, StagesDomain
<1>7. dsp' = [dsp EXCEPT ![Head(Pending).cmd.op] = Head(Pending).cmd.value]
  BY <1>0, <1>2, <1>4
<1> HIDE DEF Stages
<1> QED
  BY <1>0, <1>1, <1>2, <1>3, <1>6, <1>7 DEF Promise!Execute, Up, Stages

LEMMA SendFailsLoses ==
  ASSUME LinkTypes, TaskTypes, DspInv, SendFails PROVE Promise!Lose
<1>0. /\ pump = "sending" /\ pump' = "dead" /\ UNCHANGED <<phase, dsp, ring, task, result>>
      /\ wire' = NoEntry
      /\ completion' = IF wire.live THEN [completion EXCEPT ![wire.owner] = "error"] ELSE completion
  BY DEF SendFails, TransferEnds, Complete
<1>1. /\ Up /\ wire \in Entries /\ wire.owner \in Servers /\ wire.live \in BOOLEAN
      /\ wire.live => /\ task[wire.owner] = "waiting" /\ completion[wire.owner] = "none"
                      /\ \A i \in Live(ring) : ring[i].owner # wire.owner
      /\ ring \in Seq(Entries) /\ Enumerations(ring) # {}
  BY <1>0, WireFacts
<1>2. Pending # <<>> /\ Head(Pending) = Entry(wire) /\ Tail(Pending) = Awaited(ring)
  BY <1>0, <1>1, PendingNow
<1>3. Pending' = Tail(Pending)
  BY <1>0, <1>1, <1>2, AwaitedEntries DEF Pending
<1>4. /\ Entry(wire).open = wire.live /\ Entry(wire).owner = wire.owner
  BY DEF Entry
<1>5. \A c \in Servers : Stages'[c] = IF wire.live /\ c = wire.owner THEN "failed" ELSE Stages[c]
  <2> TAKE c \in Servers
  <2>1. InLine(c)' <=> \E i \in Live(ring) : ring[i].owner = c
    BY <1>0 DEF InLine
  <2>2. CASE wire.live /\ c = wire.owner
    <3>1. task'[c] = "waiting" /\ completion'[c] = "error"
      BY <1>0, <1>1, <2>2 DEF TaskTypes
    <3> QED
      BY <2>2, <3>1, StageCasesNext
  <2>3. CASE ~(wire.live /\ c = wire.owner)
    <3>1. InLine(c)' <=> InLine(c)
      BY <2>1, <2>3 DEF InLine
    <3>2. task'[c] = task[c] /\ completion'[c] = completion[c]
      BY <1>0, <1>1, <2>3 DEF TaskTypes
    <3> QED
      BY <2>3, <3>1, <3>2, SameStage
  <2> QED
    BY <2>2, <2>3
<1>6. Stages' = [c \in Servers |-> IF Head(Pending).open /\ c = Head(Pending).owner
                                     THEN "failed" ELSE Stages[c]]
  BY <1>2, <1>4, <1>5, StagesDomain
<1> QED
  BY <1>0, <1>2, <1>3, <1>6 DEF Promise!Lose, Stages

LEMMA AnsweredStands ==
  ASSUME LinkTypes, TaskTypes, DspInv, pump = "awaiting", NEW next, next \in {"idle", "dead"},
         TransferEnds("ok", next), UNCHANGED <<phase, dsp, ring>>
  PROVE  Stands
<1>0. /\ pump' # "sending" /\ UNCHANGED <<phase, dsp, ring, task, result>>
      /\ completion' = IF wire.live THEN [completion EXCEPT ![wire.owner] = "ok"] ELSE completion
  BY DEF TransferEnds, Complete
<1>1. /\ wire.owner \in Servers /\ wire.live \in BOOLEAN
      /\ wire.live => task[wire.owner] = "waiting" /\ completion[wire.owner] = "none"
  BY WireFacts
<1>2. Pending' = Pending
  BY <1>0 DEF Pending
<1>3. \A c \in Servers : InLine(c)' <=> InLine(c)
  BY <1>0 DEF InLine
<1>4. \A c \in Servers : Stages'[c] = Stages[c]
  <2> TAKE c \in Servers
  <2>1. CASE wire.live /\ c = wire.owner
    <3>1. completion'[c] = "ok" /\ task'[c] = "waiting" /\ task[c] = "waiting" /\ completion[c] = "none"
      BY <1>0, <1>1, <2>1 DEF TaskTypes
    <3> QED
      BY <1>3, <3>1, StageCases, StageCasesNext
  <2>2. CASE ~(wire.live /\ c = wire.owner)
    <3>1. task'[c] = task[c] /\ completion'[c] = completion[c]
      BY <1>0, <1>1, <2>2 DEF TaskTypes
    <3> QED
      BY <1>3, <3>1, SameStage
  <2> QED
    BY <2>1, <2>2
<1> QED
  BY <1>0, <1>2, <1>4, StagesDomain DEF Stands, Up

LEMMA FailedDoubts ==
  ASSUME LinkTypes, TaskTypes, DspInv, pump = "awaiting", NEW next, next \in {"idle", "dead"},
         TransferEnds("error", next), UNCHANGED <<phase, dsp, ring>>
  PROVE  Stands \/ \E c \in Servers : Promise!Doubt(c)
<1>0. /\ pump' # "sending" /\ UNCHANGED <<phase, dsp, ring, task, result>>
      /\ completion' = IF wire.live THEN [completion EXCEPT ![wire.owner] = "error"] ELSE completion
  BY DEF TransferEnds, Complete
<1>1. /\ wire.owner \in Servers /\ wire.live \in BOOLEAN
      /\ wire.live => /\ task[wire.owner] = "waiting" /\ completion[wire.owner] = "none"
                      /\ \A i \in Live(ring) : ring[i].owner # wire.owner
  BY WireFacts
<1>2. Pending' = Pending
  BY <1>0 DEF Pending
<1>3. \A c \in Servers : InLine(c)' <=> InLine(c)
  BY <1>0 DEF InLine
<1>4. \A c \in Servers : ~(wire.live /\ c = wire.owner) => Stages'[c] = Stages[c]
  <2> TAKE c \in Servers
  <2>1. ~(wire.live /\ c = wire.owner) => task'[c] = task[c] /\ completion'[c] = completion[c]
    BY <1>0, <1>1 DEF TaskTypes
  <2> QED
    BY <1>3, <2>1, SameStage
<1>5. CASE wire.live
  <2>1. /\ task[wire.owner] = "waiting" /\ completion[wire.owner] = "none"
        /\ task'[wire.owner] = "waiting" /\ completion'[wire.owner] = "error"
    BY <1>0, <1>1, <1>5 DEF TaskTypes
  <2>2. ~InLine(wire.owner)
    BY <1>1, <1>5 DEF InLine
  <2>3. Stages[wire.owner] = "executed" /\ Stages'[wire.owner] = "failed"
    BY <1>1, <2>1, <2>2, StageCases, StageCasesNext
  <2>4. Stages' = [Stages EXCEPT ![wire.owner] = "failed"]
    BY <1>1, <1>4, <2>3, StagesDomain
  <2>5. Promise!Doubt(wire.owner)
    BY <1>0, <1>2, <2>3, <2>4 DEF Promise!Doubt, Stages
  <2> QED
    BY <1>1, <2>5
<1>6. CASE ~wire.live
  BY <1>0, <1>2, <1>4, <1>6, StagesDomain DEF Stands, Up
<1> QED
  BY <1>1, <1>5, <1>6

LEMMA NoneWaits ==
  ASSUME LinkTypes, DspInv, NEW s \in Servers, ~InLine(s)
  PROVE  Promise!Waiting(s) = {}
<1>0. ring \in Seq(Entries) /\ Enumerations(ring) # {}
  BY DEF LinkTypes, DspInv
<1>1. \A i \in Live(ring) : ring[i].owner # s
  BY DEF InLine
<1>2. Awaited(ring) \in Seq(Todo) /\ \A k \in DOMAIN Awaited(ring) : Awaited(ring)[k].owner # s
  <2>1. /\ Awaited(ring) \in Seq(Todo)
        /\ \A k \in DOMAIN Awaited(ring) : \E i \in Live(ring) : Awaited(ring)[k] = Entry(ring[i])
    BY <1>0, AwaitedEntries
  <2>2. \A i \in Live(ring) : Entry(ring[i]).owner # s
    BY <1>1 DEF Entry
  <2> QED
    BY <2>1, <2>2
<1>3. CASE pump = "sending"
  <2>1. ~(Entry(wire).owner = s /\ Entry(wire).open)
    BY <1>3 DEF InLine, Entry
  <2>2. Pending = <<Entry(wire)>> \o Awaited(ring)
    BY <1>3 DEF Pending
  <2>3. Entry(wire) \in Todo
    BY <1>3 DEF LinkTypes, Entry, Entries, Todo
  <2>4. /\ Len(Awaited(ring)) \in Nat /\ DOMAIN Awaited(ring) = 1 .. Len(Awaited(ring))
        /\ DOMAIN Pending = 1 .. Len(Awaited(ring)) + 1 /\ Pending[1] = Entry(wire)
        /\ \A k \in 2 .. Len(Awaited(ring)) + 1 : Pending[k] = Awaited(ring)[k - 1]
    BY <1>2, <2>2, <2>3
  <2>5. \A k \in 2 .. Len(Awaited(ring)) + 1 : Pending[k].owner # s
    <3> TAKE k \in 2 .. Len(Awaited(ring)) + 1
    <3>1. k - 1 \in DOMAIN Awaited(ring)
      BY <2>4
    <3> QED
      BY <1>2, <2>4, <3>1
  <2>6. \A k \in DOMAIN Pending : ~(Pending[k].owner = s /\ Pending[k].open)
    <3> TAKE k \in DOMAIN Pending
    <3>1. k = 1 \/ k \in 2 .. Len(Awaited(ring)) + 1
      BY <2>4
    <3> QED
      BY <2>1, <2>4, <2>5, <3>1
  <2> QED
    BY <2>6 DEF Promise!Waiting
<1>4. CASE pump # "sending"
  <2>1. Pending = Awaited(ring)
    BY <1>0, <1>4, PendingNow
  <2> QED
    BY <1>2, <2>1 DEF Promise!Waiting
<1> QED
  BY <1>3, <1>4

LEMMA EndsAnswers ==
  ASSUME LinkTypes, TaskTypes, DspInv, NEW s \in Servers, DispatchEnds(s)
  PROVE  Promise!AnswerOk(s) \/ Promise!AnswerError(s)
<1>0. /\ task[s] = "waiting" /\ completion[s] \in {"ok", "error"}
      /\ UNCHANGED <<phase, dsp, ring, wire, pump>>
      /\ task' = [task EXCEPT ![s] = "idle"]
      /\ completion' = [completion EXCEPT ![s] = "none"]
      /\ result' = [result EXCEPT ![s] = completion[s]]
  BY DEF DispatchEnds, Answers, TaskTypes
<1>1. ~InLine(s)
  BY <1>0, NoneInLine DEF DspInv
<1>2. Pending' = Pending /\ \A c \in Servers : InLine(c)' <=> InLine(c)
  BY <1>0, LinkStands
<1>3. Stages' = [Stages EXCEPT ![s] = "idle"]
  <2>1. \A c \in Servers : c # s => Stages'[c] = Stages[c]
    BY <1>0, <1>2, SameStage DEF TaskTypes
  <2>2. Stages'[s] = "idle"
    BY <1>0, StageCasesNext DEF TaskTypes
  <2> QED
    BY <2>1, <2>2, StagesDomain
<1>4. CASE completion[s] = "ok"
  <2>1. Stages[s] = "executed"
    BY <1>0, <1>1, <1>4, StageCases
  <2> QED
    BY <1>0, <1>2, <1>3, <1>4, <2>1 DEF Promise!AnswerOk, Stages
<1>5. CASE completion[s] = "error"
  <2>1. Stages[s] = "failed"
    BY <1>0, <1>5, StageCases
  <2>2. Promise!Waiting(s) = {}
    BY <1>1, NoneWaits
  <2>3. Stages[s] # "idle" /\ Pending' = Pending /\ UNCHANGED <<phase, dsp>>
    BY <1>0, <1>2, <2>1
  <2> QED
    BY <1>0, <1>3, <1>5, <2>2, <2>3 DEF Promise!AnswerError, Stages
<1> QED
  BY <1>0, <1>4, <1>5

LEMMA VanishCrashes ==
  ASSUME LinkTypes, TaskTypes, DspInv, phase # "down", Vanish
  PROVE  Stands \/ Promise!Crash
<1>0. /\ phase' = "down" /\ ring' = <<>> /\ pump' = "off" /\ UNCHANGED <<dsp, result>>
      /\ task' = [s \in Servers |-> "idle"]
  BY DEF Vanish
<1>1. Pending' = <<>>
  <2>1. <<>> \in Seq(Entries) /\ Live(<<>>) = {}
    BY DEF Live
  <2>2. Awaited(<<>>) = <<>>
    BY <2>1, NothingAwaited
  <2> QED
    BY <1>0, <2>2 DEF Pending
<1>2. Stages' = [s \in Servers |-> "idle"]
  <2>1. \A s \in Servers : Stages'[s] = "idle"
    BY <1>0, StageCasesNext
  <2> QED
    BY <2>1, StagesDomain
<1>3. CASE Up
  BY <1>0, <1>1, <1>2, <1>3 DEF Promise!Crash, Up, Stages
<1>4. CASE ~Up
  <2>1. ring = <<>> /\ pump # "sending" /\ \A s \in Servers : task[s] = "idle"
    BY <1>4 DEF Up, DspInv, LinkClosed, TasksClosed, LinkTypes
  <2>2. Pending = <<>>
    <3>1. <<>> \in Seq(Entries) /\ Live(<<>>) = {}
      BY DEF Live
    <3>2. Awaited(<<>>) = <<>>
      BY <3>1, NothingAwaited
    <3> QED
      BY <2>1, <3>2 DEF Pending
  <2>3. \A s \in Servers : Stages[s] = "idle"
    BY <2>1, StageCases
  <2>4. Stages = [s \in Servers |-> "idle"]
    BY <2>3, StagesDomain
  <2>5. Up' = Up
    BY <1>0, <1>4 DEF Up
  <2> QED
    BY <1>0, <1>1, <1>2, <2>2, <2>4, <2>5 DEF Stands
<1> QED
  BY <1>3, <1>4

(* How a queue without one element looks with something in front of it. *)
LEMMA BehindFront ==
  ASSUME NEW S, NEW q \in Seq(S), NEW q2 \in Seq(S), NEW e \in S, NEW k \in 1 .. Len(q),
         q2 = [j \in 1 .. Len(q) - 1 |-> q[IF j < k THEN j ELSE j + 1]],
         NEW p, p = <<e>> \o q, NEW p2, p2 = <<e>> \o q2
  PROVE  /\ k + 1 \in DOMAIN p /\ p[k + 1] = q[k]
         /\ p2 = [j \in 1 .. Len(p) - 1 |-> p[IF j < k + 1 THEN j ELSE j + 1]]
<1> DEFINE w == [j \in 1 .. Len(p) - 1 |-> p[IF j < k + 1 THEN j ELSE j + 1]]
<1>1. Len(q) \in Nat /\ Len(q2) = Len(q) - 1 /\ Len(q) > 0
  OBVIOUS
<1>2. /\ p \in Seq(S) /\ Len(p) = Len(q) + 1 /\ DOMAIN p = 1 .. Len(q) + 1
      /\ p[1] = e /\ \A j \in 1 .. Len(q) : p[j + 1] = q[j]
  BY <1>1
<1>3. /\ p2 \in Seq(S) /\ Len(p2) = Len(q) /\ DOMAIN p2 = 1 .. Len(q)
      /\ p2[1] = e /\ \A j \in 1 .. Len(q) - 1 : p2[j + 1] = q2[j]
  BY <1>1
<1>4. \A j \in 1 .. Len(q) : p2[j] = p[IF j < k + 1 THEN j ELSE j + 1]
  <2> TAKE j \in 1 .. Len(q)
  <2>1. CASE j = 1
    BY <1>2, <1>3, <2>1
  <2>2. CASE j # 1
    <3>1. j - 1 \in 1 .. Len(q) - 1 /\ (j - 1) + 1 = j
      BY <1>1, <2>2
    <3>2. p2[j] = q[IF j - 1 < k THEN j - 1 ELSE j]
      BY <1>3, <3>1
    <3>3. CASE j < k + 1
      <4>1. j - 1 < k /\ j - 1 \in 1 .. Len(q)
        BY <1>1, <3>1, <3>3
      <4>2. p[(j - 1) + 1] = q[j - 1]
        BY <1>2, <4>1
      <4> QED
        BY <3>1, <3>2, <3>3, <4>1, <4>2
    <3>4. CASE ~(j < k + 1)
      <4>1. ~(j - 1 < k) /\ p[j + 1] = q[j]
        BY <1>2, <3>4
      <4> QED
        BY <3>2, <3>4, <4>1
    <3> QED
      BY <3>3, <3>4
  <2> QED
    BY <2>1, <2>2
<1>5. p2 = [j \in 1 .. Len(q) |-> p2[j]]
  BY <1>3
<1>6. Len(p) - 1 = Len(q)
  BY <1>1, <1>2
<1>7. p2 = w
  BY <1>4, <1>5, <1>6
<1>8. k + 1 \in DOMAIN p /\ p[k + 1] = q[k]
  BY <1>2
<1> QED
  BY <1>7, <1>8

LEMMA FrontClosed ==
  ASSUME NEW q \in Seq(Todo), NEW e \in Todo, NEW e2 \in Todo,
         e2 = [e EXCEPT !.open = FALSE]
  PROVE  <<e2>> \o q = [<<e>> \o q EXCEPT ![1].open = FALSE]
<1> DEFINE p == <<e>> \o q
           p2 == <<e2>> \o q
<1>1. /\ Len(q) \in Nat /\ DOMAIN p = 1 .. Len(q) + 1 /\ p[1] = e /\ p \in Seq(Todo)
      /\ \A j \in 2 .. Len(q) + 1 : p[j] = q[j - 1]
  OBVIOUS
<1>2. /\ DOMAIN p2 = 1 .. Len(q) + 1 /\ p2[1] = e2 /\ p2 \in Seq(Todo)
      /\ \A j \in 2 .. Len(q) + 1 : p2[j] = q[j - 1]
  OBVIOUS
<1> HIDE DEF p, p2
<1>3. p = [j \in 1 .. Len(q) + 1 |-> p[j]] /\ p2 = [j \in 1 .. Len(q) + 1 |-> p2[j]]
  BY <1>1, <1>2
<1>4. \A j \in 1 .. Len(q) + 1 : j = 1 \/ j \in 2 .. Len(q) + 1
  BY <1>1
<1>5. p2 = [p EXCEPT ![1] = e2]
  BY <1>1, <1>2, <1>3, <1>4
<1>6. p2 = [p EXCEPT ![1].open = FALSE]
  BY <1>1, <1>5
<1> QED
  BY <1>6 DEF p, p2

LEMMA EntryClosed ==
  ASSUME NEW e \in Todo, NEW e2 \in Todo, e2.owner = e.owner, e2.cmd = e.cmd, e2.open = FALSE
  PROVE  e2 = [e EXCEPT !.open = FALSE]
  BY DEF Todo

LEMMA ExpiresStages ==
  ASSUME LinkTypes, TaskTypes, DspInv, NEW s \in Servers, DispatchExpires(s)
  PROVE  /\ Stages' = [Stages EXCEPT ![s] = "idle"]
         /\ UNCHANGED <<phase, dsp, pump>>
         /\ result' = [result EXCEPT ![s] = "error"]
         /\ Up
<1>0. /\ UNCHANGED <<phase, dsp, pump>> /\ task[s] \in {"gated", "waiting"}
      /\ task' = [task EXCEPT ![s] = "idle"]
      /\ completion' = [completion EXCEPT ![s] = "none"]
      /\ result' = [result EXCEPT ![s] = "error"]
  BY DEF DispatchExpires, Answers, Cancellable
<1>1. Up
  BY <1>0 DEF DspInv, TasksClosed, Up
<1>2. /\ Live(ring') = {i \in Live(ring) : ring[i].owner # s}
      /\ \A i \in Live(ring') : ring'[i] = ring[i]
  BY LiveLeft
<1>3. wire' = IF wire # NoEntry /\ wire.owner = s THEN [wire EXCEPT !.live = FALSE] ELSE wire
  BY LeftEntries DEF LinkTypes
<1>4. \A c \in Servers : c # s => (InLine(c)' <=> InLine(c))
  <2> SUFFICES ASSUME NEW c \in Servers, c # s PROVE InLine(c)' <=> InLine(c)
    OBVIOUS
  <2>1. (\E i \in Live(ring') : ring'[i].owner = c) <=> (\E i \in Live(ring) : ring[i].owner = c)
    BY <1>2
  <2>2. pump = "sending" => (wire'.live /\ wire'.owner = c <=> wire.live /\ wire.owner = c)
    <3> SUFFICES ASSUME pump = "sending"
                 PROVE  wire'.live /\ wire'.owner = c <=> wire.live /\ wire.owner = c
      OBVIOUS
    <3>1. wire \in Entries /\ wire # NoEntry
      BY DEF LinkTypes
    <3>2. CASE wire.owner = s
      <4>1. wire'.owner = s
        BY <1>3, <3>1, <3>2 DEF Entries
      <4> QED
        BY <3>2, <4>1
    <3>3. CASE wire.owner # s
      BY <1>3, <3>3
    <3> QED
      BY <3>2, <3>3
  <2> QED
    BY <1>0, <2>1, <2>2 DEF InLine
<1>5. Stages' = [Stages EXCEPT ![s] = "idle"]
  <2>1. \A c \in Servers : c # s => Stages'[c] = Stages[c]
    BY <1>0, <1>4, SameStage DEF TaskTypes
  <2>2. Stages'[s] = "idle"
    BY <1>0, StageCasesNext DEF TaskTypes
  <2> QED
    BY <2>1, <2>2, StagesDomain
<1> QED
  BY <1>0, <1>1, <1>5

LEMMA ExpiresPending ==
  ASSUME LinkTypes, TaskTypes, DspInv, NEW s \in Servers, DispatchExpires(s)
  PROVE  \/ ~InLine(s) /\ Pending' = Pending
         \/ \E i \in Promise!Waiting(s) : Pending' = Promise!Without(i)
         \/ 1 \in Promise!Waiting(s) /\ Pending' = [Pending EXCEPT ![1].open = FALSE]
<1>0. /\ ring \in Seq(Entries) /\ Enumerations(ring) # {} /\ ring' \in Seq(Entries) /\ pump' = pump
      /\ OwnersWait
  BY LiveLeft DEF LinkTypes, DspInv, DispatchExpires
<1>1. /\ Enumerations(ring') # {}
      /\ (\A i \in Live(ring) : ring[i].owner # s) => Awaited(ring') = Awaited(ring)
      /\ (\E i \in Live(ring) : ring[i].owner = s) =>
            \E k \in 1 .. Len(Awaited(ring)) :
              /\ Awaited(ring)[k].owner = s
              /\ Awaited(ring') = [j \in 1 .. Len(Awaited(ring)) - 1 |->
                                     Awaited(ring)[IF j < k THEN j ELSE j + 1]]
  BY <1>0, AwaitedWhenLeft
<1>2. wire' = IF wire # NoEntry /\ wire.owner = s THEN [wire EXCEPT !.live = FALSE] ELSE wire
  BY LeftEntries DEF LinkTypes
<1>3. /\ Awaited(ring) \in Seq(Todo) /\ Awaited(ring') \in Seq(Todo)
      /\ \A k \in DOMAIN Awaited(ring) : Awaited(ring)[k].open
  BY <1>0, <1>1, AwaitedEntries
<1>W. pump = "sending" => /\ wire \in Entries /\ wire # NoEntry /\ Entry(wire) \in Todo
                          /\ wire' \in Entries /\ Entry(wire') \in Todo
  BY <1>2 DEF LinkTypes, Entry, Entries, Todo
<1>E. pump = "sending" =>
        /\ wire'.owner = wire.owner /\ wire'.cmd = wire.cmd
        /\ wire'.live = IF wire.owner = s THEN FALSE ELSE wire.live
  BY <1>2, <1>W DEF Entries
<1>D. pump = "sending" /\ ~(wire.live /\ wire.owner = s) => Entry(wire') = Entry(wire)
  <2> SUFFICES ASSUME pump = "sending", ~(wire.live /\ wire.owner = s)
               PROVE  wire'.owner = wire.owner /\ wire'.cmd = wire.cmd /\ wire'.live = wire.live
    BY DEF Entry
  <2>1. wire.live \in BOOLEAN
    BY <1>W DEF Entries
  <2>2. CASE wire.owner = s
    <3>1. wire.live = FALSE
      BY <2>1, <2>2
    <3> QED
      BY <1>E, <2>2, <3>1
  <2>3. CASE wire.owner # s
    BY <1>E, <2>3
  <2> QED
    BY <2>2, <2>3
<1>4. CASE \E i \in Live(ring) : ring[i].owner = s
  <2>0. ~(pump = "sending" /\ wire.live /\ wire.owner = s)
    BY <1>0, <1>4, <1>W DEF OwnersWait
  <2>1. PICK k \in 1 .. Len(Awaited(ring)) :
              /\ Awaited(ring)[k].owner = s
              /\ Awaited(ring') = [j \in 1 .. Len(Awaited(ring)) - 1 |->
                                     Awaited(ring)[IF j < k THEN j ELSE j + 1]]
    BY <1>1, <1>4
  <2>2. k \in DOMAIN Awaited(ring) /\ Awaited(ring)[k].open
    BY <1>3, <2>1
  <2>3. CASE pump = "sending"
    <3>1. Pending = <<Entry(wire)>> \o Awaited(ring) /\ Entry(wire) \in Todo
      BY <1>W, <2>3 DEF Pending
    <3>2. Pending' = <<Entry(wire)>> \o Awaited(ring')
      BY <1>0, <1>D, <2>0, <2>3 DEF Pending
    <3>3. /\ k + 1 \in DOMAIN Pending /\ Pending[k + 1] = Awaited(ring)[k]
          /\ Pending' = [j \in 1 .. Len(Pending) - 1 |-> Pending[IF j < k + 1 THEN j ELSE j + 1]]
      <4> DEFINE q == Awaited(ring)
                 q2 == Awaited(ring')
                 e == Entry(wire)
                 p == Pending
                 p2 == Pending'
      <4>1. /\ q \in Seq(Todo) /\ q2 \in Seq(Todo) /\ e \in Todo /\ k \in 1 .. Len(q)
            /\ p = <<e>> \o q /\ p2 = <<e>> \o q2
        BY <1>3, <3>1, <3>2
      <4>2. q2 = [j \in 1 .. Len(q) - 1 |-> q[IF j < k THEN j ELSE j + 1]]
        BY <2>1
      <4> HIDE DEF q, q2, e, p, p2
      <4>3. /\ k + 1 \in DOMAIN p /\ p[k + 1] = q[k]
            /\ p2 = [j \in 1 .. Len(p) - 1 |-> p[IF j < k + 1 THEN j ELSE j + 1]]
        BY <4>1, <4>2, BehindFront
      <4> QED
        BY <4>3 DEF p, p2, q
    <3>4. k + 1 \in Promise!Waiting(s)
      BY <2>1, <2>2, <3>3 DEF Promise!Waiting
    <3> QED
      BY <3>3, <3>4 DEF Promise!Without
  <2>4. CASE pump # "sending"
    <3>1. Pending = Awaited(ring)
      BY <1>0, <2>4, PendingNow
    <3>2. Pending' = Awaited(ring')
      BY <1>0, <1>3, <2>4 DEF Pending
    <3>3. k \in Promise!Waiting(s)
      BY <2>1, <2>2, <3>1 DEF Promise!Waiting
    <3> QED
      BY <2>1, <3>1, <3>2, <3>3 DEF Promise!Without
  <2> QED
    BY <2>3, <2>4
<1>5. CASE \A i \in Live(ring) : ring[i].owner # s
  <2>1. Awaited(ring') = Awaited(ring)
    BY <1>1, <1>5
  <2>2. CASE pump = "sending" /\ wire.live /\ wire.owner = s
    <3>1. Pending = <<Entry(wire)>> \o Awaited(ring) /\ Pending' = <<Entry(wire')>> \o Awaited(ring)
      BY <1>0, <2>1, <2>2 DEF Pending
    <3>2. Entry(wire') = [Entry(wire) EXCEPT !.open = FALSE]
      <4>1. Entry(wire').owner = Entry(wire).owner /\ Entry(wire').cmd = Entry(wire).cmd
            /\ Entry(wire').open = FALSE
        BY <1>E, <2>2 DEF Entry
      <4> QED
        BY <1>W, <2>2, <4>1, EntryClosed
    <3>3. Pending' = [Pending EXCEPT ![1].open = FALSE]
      BY <1>3, <1>W, <2>2, <3>1, <3>2, FrontClosed
    <3>4. 1 \in DOMAIN Pending /\ Pending[1] = Entry(wire)
      BY <1>3, <1>W, <2>2, <3>1
    <3>5. Entry(wire).owner = s /\ Entry(wire).open
      BY <2>2 DEF Entry
    <3> QED
      BY <3>3, <3>4, <3>5 DEF Promise!Waiting
  <2>3. CASE ~(pump = "sending" /\ wire.live /\ wire.owner = s)
    <3>1. Pending' = Pending
      BY <1>0, <1>D, <2>1, <2>3 DEF Pending
    <3> QED
      BY <1>5, <2>3, <3>1 DEF InLine
  <2> QED
    BY <2>2, <2>3
<1> QED
  BY <1>4, <1>5

LEMMA ExpiresAnswers ==
  ASSUME LinkTypes, TaskTypes, DspInv, NEW s \in Servers, DispatchExpires(s)
  PROVE  Promise!Refuse(s) \/ Promise!AnswerError(s)
<1>0. /\ Stages' = [Stages EXCEPT ![s] = "idle"]
      /\ UNCHANGED <<phase, dsp, pump>>
      /\ result' = [result EXCEPT ![s] = "error"]
      /\ Up
  BY ExpiresStages
<1>1. \/ ~InLine(s) /\ Pending' = Pending
      \/ \E i \in Promise!Waiting(s) : Pending' = Promise!Without(i)
      \/ 1 \in Promise!Waiting(s) /\ Pending' = [Pending EXCEPT ![1].open = FALSE]
  BY ExpiresPending
<1>2. CASE task[s] = "waiting"
  <2>1. Stages[s] # "idle"
    BY <1>2, StageCases
  <2>2. ~InLine(s) => Promise!Waiting(s) = {}
    BY NoneWaits
  <2> QED
    BY <1>0, <1>1, <2>1, <2>2 DEF Promise!AnswerError, Stages
<1>3. CASE task[s] # "waiting"
  <2>1. ~InLine(s)
    BY <1>3, NoneInLine DEF DspInv
  <2>2. Stages[s] = "idle"
    BY <1>3, StageCases
  <2>3. Promise!Waiting(s) = {}
    BY <2>1, NoneWaits
  <2>4. Pending' = Pending
    BY <1>1, <2>1, <2>3
  <2>5. Stages' = Stages
    BY <1>0, <2>2, StagesDomain
  <2> QED
    BY <1>0, <2>2, <2>4, <2>5 DEF Promise!Refuse, Stages, Up
<1> QED
  BY <1>2, <1>3

LEMMA PromiseInit == Init => Promise!Init
<1> SUFFICES ASSUME Init PROVE Promise!Init
  OBVIOUS
<1>0. /\ phase = "down" /\ dsp = PowerOn /\ ring = <<>> /\ pump = "off"
      /\ task = [s \in Servers |-> "idle"] /\ result = [s \in Servers |-> "none"]
  BY DEF Init
<1>1. <<>> \in Seq(Entries) /\ Live(<<>>) = {}
  BY DEF Live
<1>2. Pending = <<>>
  <2>1. Awaited(<<>>) = <<>>
    BY <1>1, NothingAwaited
  <2> QED
    BY <1>0, <2>1 DEF Pending
<1>3. \A s \in Servers : Stages[s] = "idle"
  BY <1>0, StageCases
<1>4. Stages = [s \in Servers |-> "idle"]
  BY <1>3, StagesDomain
<1> QED
  BY <1>0, <1>2, <1>4 DEF Promise!Init, Stages

LEMMA PromiseStep == TypeOK /\ DspInv /\ [Next]_vars => [Promise!Next]_(Promise!cvars)
<1> SUFFICES ASSUME TypeOK, DspInv, [Next]_vars PROVE Stands \/ Promise!Next
  BY StandsStutters
<1>0. DspMembers /\ LinkTypes /\ QueueTypes /\ TaskTypes
  BY DspTypeParts
<1>V. Vanish /\ phase # "down" => Stands \/ Promise!Next
  BY <1>0, VanishCrashes DEF Promise!Next
<1>S. UNCHANGED <<ring, wire, task, completion, result, dsp>>
        /\ (pump' = "sending" <=> pump = "sending") /\ (Up' <=> Up) => Stands
  BY AllStands
<1>1. CASE Main
  <2>1. CASE Start
    BY <2>1, StartResets DEF Promise!Next
  <2>2. CASE BootContext
    BY <1>0, <2>2, BootBoots DEF Promise!Next
  <2>3. CASE ReadMicrophoneState
    <3>1. \/ UNCHANGED <<ring, wire, task, completion, result, dsp, pump>>
          \/ Accepts("restore", Mute("muted")) /\ UNCHANGED <<pump, wire, dsp>>
      BY <2>3 DEF ReadMicrophoneState
    <3>2. Up /\ Up' /\ task["restore"] # "waiting" /\ "restore" \in Servers
      BY <2>3 DEF ReadMicrophoneState, Up, DspInv, TasksClosed, Servers
    <3>3. CASE Accepts("restore", Mute("muted")) /\ UNCHANGED <<pump, wire, dsp>>
      <4>1. Promise!Accept("restore", Mute("muted"))
        BY <1>0, <3>2, <3>3, CommandFacts, AcceptsAccept
      <4> QED
        BY <3>2, <4>1, CommandFacts DEF Promise!Next
    <3> QED
      BY <1>S, <3>1, <3>2, <3>3
  <2>4. CASE Exit
    <3>1. Vanish /\ phase # "down"
      BY <2>4 DEF Exit
    <3> QED
      BY <1>V, <3>1
  <2>5. CASE BootSeen \/ BootTimeout(FALSE) \/ OpenMicControl \/ Restored \/ LinkFailed
    BY <1>S, <2>5
       DEF BootSeen, BootTimeout, OpenMicControl, Restored, AfterRestore, LinkFailed, Up
  <2> QED
    BY <1>1, <2>1, <2>2, <2>3, <2>4, <2>5 DEF Main
<1>2. CASE Pump
  <2>1. CASE PollTakes
    BY <1>0, <2>1, PollStands
  <2>2. CASE TransmitOnce
    BY <1>0, <2>2, TransmitExecutes DEF Promise!Next
  <2>3. CASE NotReady \/ ReceiveReply
    <3>1. pump = "awaiting" /\ UNCHANGED <<phase, dsp, ring>>
      BY <2>3 DEF NotReady, ReceiveReply
    <3>2. \/ TransferEnds("error", "dead") \/ TransferEnds("error", "idle")
          \/ TransferEnds("ok", "idle")
          \/ UNCHANGED <<pump, wire, task, completion, result>>
      BY <2>3 DEF NotReady, ReceiveReply
    <3>3. CASE TransferEnds("error", "dead") \/ TransferEnds("error", "idle")
      BY <1>0, <3>1, <3>3, FailedDoubts DEF Promise!Next
    <3>4. CASE TransferEnds("ok", "idle")
      BY <1>0, <3>1, <3>4, AnsweredStands
    <3>5. CASE UNCHANGED <<pump, wire, task, completion, result>>
      BY <1>S, <3>1, <3>5 DEF Up
    <3> QED
      BY <3>2, <3>3, <3>4, <3>5
  <2>4. CASE PollDelivers
    BY <1>S, <2>4 DEF PollDelivers, Up
  <2> QED
    BY <1>2, <2>1, <2>2, <2>3, <2>4 DEF Pump
<1>3. CASE Serve \/ HandleMicControl
  <2>1. CASE Connect \/ Announce
    BY <1>S, <2>1 DEF Connect, Announce, Up
  <2>2. CASE HandleInvocation \/ HandleMicControl
    <3>1. UNCHANGED <<phase, ring, wire, pump, completion, result, dsp>>
      BY <2>2 DEF HandleInvocation, HandleMicControl
    <3>2. \A c \in Servers : task'[c] = task[c] \/ (task[c] # "waiting" /\ task'[c] # "waiting")
      BY <1>0, <2>2 DEF HandleInvocation, HandleMicControl, ServeIdle, TaskTypes
    <3>3. Pending' = Pending /\ \A c \in Servers : InLine(c)' <=> InLine(c)
      BY <3>1, LinkStands
    <3>4. \A c \in Servers : Stages'[c] = Stages[c]
      BY <3>1, <3>2, <3>3, SameStage
    <3> QED
      BY <3>1, <3>3, <3>4, StagesDomain DEF Stands, Up
  <2> QED
    BY <1>3, <2>1, <2>2 DEF Serve
<1>4. CASE \E s \in Servers : Dispatching(s)
  <2> SUFFICES ASSUME NEW s \in Servers, Dispatching(s) PROVE Stands \/ Promise!Next
    BY <1>4
  <2>1. CASE Dispatch(s)
    <3>1. /\ Accepts(s, request[s]) /\ task[s] # "waiting" /\ request[s] \in Commands
          /\ UNCHANGED <<pump, wire, dsp>> /\ Up /\ Up'
      BY <2>1 DEF Dispatch, DspInv, TasksClosed, Up
    <3>2. Promise!Accept(s, request[s])
      BY <1>0, <3>1, AcceptsAccept
    <3> QED
      BY <3>1, <3>2 DEF Promise!Next
  <2>2. CASE DispatchEnds(s)
    BY <1>0, <2>2, EndsAnswers DEF Promise!Next
  <2>3. CASE DispatchExpires(s)
    BY <1>0, <2>3, ExpiresAnswers DEF Promise!Next
  <2> QED
    BY <2>1, <2>2, <2>3 DEF Dispatching
<1>5. CASE Faulty
  <2>1. CASE BootFails \/ Kill
    <3>1. Vanish /\ phase # "down"
      BY <2>1 DEF BootFails, Kill
    <3> QED
      BY <1>V, <3>1
  <2>2. CASE SendFails
    BY <1>0, <2>2, SendFailsLoses DEF Promise!Next
  <2>3. CASE ReceiveGarbled
    <3>1. pump = "awaiting" /\ UNCHANGED <<phase, dsp, ring>>
      BY <2>3 DEF ReceiveGarbled
    <3>2. \/ TransferEnds("error", "dead")
          \/ UNCHANGED <<pump, wire, task, completion, result>>
      BY <2>3 DEF ReceiveGarbled
    <3>3. CASE TransferEnds("error", "dead")
      BY <1>0, <3>1, <3>3, FailedDoubts DEF Promise!Next
    <3>4. CASE UNCHANGED <<pump, wire, task, completion, result>>
      BY <1>S, <3>1, <3>4 DEF Up
    <3> QED
      BY <3>2, <3>3, <3>4
  <2>4. CASE PollFails
    BY <1>S, <2>4 DEF PollFails, Up
  <2>5. CASE BootTimeout(TRUE) \/ SessionLost
    BY <1>S, <2>5 DEF BootTimeout, SessionLost, Up
  <2> QED
    BY <1>5, <2>1, <2>2, <2>3, <2>4, <2>5 DEF Faulty
<1>6. CASE Asked
  BY <1>6, <1>S DEF Asked, DspReports, RouterCalls, MicRequest, McuWrites, Up
<1>7. CASE UNCHANGED vars
  BY <1>7, <1>S DEF vars, Up
<1> QED
  BY <1>1, <1>2, <1>3, <1>4, <1>5, <1>6, <1>7 DEF Next

(* Every step of tools/dsp-interface is one of CommandServer or leaves it  *)
(* where it is: the transmit ring, the link and the three-second limit of  *)
(* dispatch keep the order of commands, execute each at most once, answer  *)
(* OK for executed ones only and none of those given up but the one that   *)
(* was being sent.                                                         *)
THEOREM PromiseKept == ASSUME DspAssumption PROVE Spec => KeepsPromise
<1>1. TypeOK /\ DspInv /\ [Next]_vars => [Promise!Next]_(Promise!cvars)
  BY PromiseStep
<1> QED
  BY DspInvariant, PromiseInit, <1>1, PTL DEF Spec, KeepsPromise, Promise!Spec

HIDE DEF main, link, sessions, tasks, micServer, spent

-----------------------------------------------------------------------------
(* The other machines leave tools/dsp-interface alone. *)
LEMMA DspBehaves == SpeakerSpec => Spec
<1>1. SpeakerInit => Init
  BY DEF SpeakerInit
<1>2. [SpeakerNext]_speakerVars => [Next]_vars
  BY DEF SpeakerNext, speakerVars
<1> QED
  BY <1>1, <1>2, PTL DEF SpeakerSpec, Spec

(* dsp-interface beside the other services: the mute is in force before    *)
(* anybody else is served.                                                 *)
THEOREM SpeakerMuteBeforeOthers == SpeakerSpec => MutedBeforeService
  BY SpeakerAssumption, DspBehaves, MuteBeforeOthers

(* dsp-interface beside the other services keeps the promise that Volume   *)
(* and Microphone are checked and proved against.                          *)
THEOREM SpeakerPromiseKept == SpeakerSpec => KeepsPromise
  BY SpeakerAssumption, DspBehaves, PromiseKept
=============================================================================
